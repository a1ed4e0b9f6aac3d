----------------------------- MODULE ResultsDir -----------------------------
(***************************************************************************)
(* A skill's results directory (internal/results, internal/encfmt): the    *)
(* file is found by probing the extensions in order, and a save writes a   *)
(* temporary file, renames it and removes the files of other formats, one  *)
(* system call at a time.  The process may die between any two of them.    *)
(***************************************************************************)
EXTENDS Naturals, Sequences, SequencesExt

CONSTANTS Extensions, \* encfmt.Extensions, the discovery order
          Models,     \* what a results file may hold
          NoModels    \* what a fresh one holds

VARIABLES
    files,  \* results.<ext>, by extension
    saving  \* SaveDir in progress: [step, format, models]

dirVars == <<files, saving>>

\* The layouts a file may be in: the one written, one migrate understands, an
\* older one and one of a newer evolve.
Schemas == {"current", "legacy", "ancient", "newer"}
Missing == [schema |-> "missing", models |-> NoModels]
ResultsFile == [schema : Schemas, models : Models] \cup {Missing}
Current(models) == [schema |-> "current", models |-> models]

\* The extension of the results file, "" when there is none.
FindAmong(exts) ==
    LET i == SelectInSeq(exts, LAMBDA ext : files[ext] # Missing)
    IN  IF i = 0 THEN "" ELSE exts[i]
Find == FindAmong(Extensions)

Migratable(schema) == schema = "legacy"

\* Discarded: the file is taken for a fresh one.  TooNew: writers must refuse.
\* Migrating turns the layout into the current one and keeps every result.
Found == IF Find = "" THEN Missing ELSE files[Find]
TooNew == Found.schema = "newer"
Discarded == Found.schema = "ancient"
Loaded == IF Found.schema = "current" \/ Migratable(Found.schema)
          THEN Found.models ELSE NoModels

NotSaving == [step |-> "none", format |-> "", models |-> NoModels]

DirInit(first) == files \in first /\ saving = NotSaving

StartSave(format, models) ==
    saving' = [step |-> "write", format |-> format, models |-> models]

\* The bytes go to results.<format>.tmp, which no reader looks at.
WriteTemp == /\ saving.step = "write"
             /\ saving' = [saving EXCEPT !.step = "rename"]
             /\ UNCHANGED files

NoSiblings == {} \* mutant
Others(format) == {ext \in DOMAIN files : ext # format /\ files[ext] # Missing}
Siblings == Others(saving.format)

Rename == /\ saving.step = "rename"
          /\ files' = [files EXCEPT ![saving.format] = Current(saving.models)]
          /\ saving' = [saving EXCEPT !.step = "clean"]

\* The next file of another format is removed.
RemoveSibling ==
    /\ saving.step = "clean" /\ Siblings # {}
    /\ files' = [files EXCEPT ![Extensions[SelectInSeq(Extensions,
                                   LAMBDA ext : ext \in Siblings)]] = Missing]
    /\ UNCHANGED saving

Saved == saving.step = "clean" /\ Siblings = {}

\* Creating the directory, writing or renaming may fail.
SaveBreaks == saving.step \in {"write", "rename"}
=============================================================================
