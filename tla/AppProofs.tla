----------------------------- MODULE AppProofs ------------------------------
(* Proofs about App: the rows the dashboard shows are those of the engine,  *)
(* and the rows that run are those the form showed.  The engine and the     *)
(* dashboard hold the same rows twice, the engine as the units it has left  *)
(* and the results it has, the dashboard as a log, a set of queued rows and *)
(* a status for each; the program hands over only the plan and the events.  *)
(* The lemmas say first what the model's operators on sequences, units and  *)
(* dashboards return, then that each step keeps RowsInv, which ties the two *)
(* copies together, and TakesInv, by which nothing planned is lost.  A part *)
(* of its own says that what the form's glyphs show is what is planned. A   *)
(* further part is about the dashboard's selection and cursor, which follow *)
(* the live run until the user takes them: what its tree holds, how opening *)
(* a group moves its rows, and that every step keeps FollowInv, by which    *)
(* both point at something that is there.  The last part is the form's      *)
(* tree: a row's ancestors stand before it, so opening or closing what is   *)
(* at the cursor leaves the cursor on a row. TypeInv adds what is left of   *)
(* TypeOK: the board, the verdicts, the counts of a report and where each   *)
(* part of evolve is.                                                       *)
EXTENDS App, TLAPS, NaturalsInduction, WellFoundedInduction, FiniteSetTheorems

-----------------------------------------------------------------------------
(* Sequences: the ones the units are made of.                              *)

IsSeq(s) == s \in Seq(ToSet(s))

\* The domain of a sequence is the interval up to its length.
LEMMA SeqDomain ==
    ASSUME NEW s, IsSeq(s)
    PROVE  Len(s) \in Nat /\ DOMAIN s = 1 .. Len(s)
BY DEF IsSeq

\* A sequence over a set has its elements in that set.
LEMMA SeqIn == ASSUME NEW S, NEW s \in Seq(S) PROVE IsSeq(s) /\ ToSet(s) \subseteq S
<1>1. Len(s) \in Nat /\ DOMAIN s = 1 .. Len(s) /\ \A i \in 1 .. Len(s) : s[i] \in S
  OBVIOUS
<1>2. \A i \in 1 .. Len(s) : s[i] \in ToSet(s)
  BY <1>1 DEF ToSet
<1>3. s = [i \in 1 .. Len(s) |-> s[i]]
  BY <1>1
<1>4. s \in [1 .. Len(s) -> ToSet(s)]
  BY <1>2, <1>3
<1>5. s \in Seq(ToSet(s))
  BY <1>1, <1>4
<1> QED BY <1>1, <1>5 DEF IsSeq, ToSet

\* A sequence whose elements lie in a set is a sequence over it.
LEMMA InSeq ==
    ASSUME NEW s, IsSeq(s)
    PROVE  \A x : x \in ToSet(s) <=> \E i \in 1 .. Len(s) : s[i] = x
<1>1. DOMAIN s = 1 .. Len(s)
  BY SeqDomain
<1> QED BY <1>1 DEF ToSet

\* The empty sequence.
LEMMA SeqEmpty == IsSeq(<<>>) /\ Len(<<>>) = 0 /\ DOMAIN <<>> = {} /\ ToSet(<<>>) = {}
<1>1. <<>> \in Seq(ToSet(<<>>)) /\ Len(<<>>) = 0
  OBVIOUS
<1>2. DOMAIN <<>> = {}
  BY <1>1
<1>3. ToSet(<<>>) = {}
  BY <1>2 DEF ToSet
<1>4. IsSeq(<<>>)
  BY <1>1, Zenon DEF IsSeq
<1> QED BY <1>1, <1>2, <1>3, <1>4

\* What a concatenation holds, and where.
LEMMA SeqConcat ==
    ASSUME NEW s, IsSeq(s), NEW t, IsSeq(t)
    PROVE  /\ IsSeq(s \o t) /\ Len(s \o t) = Len(s) + Len(t)
           /\ ToSet(s \o t) = ToSet(s) \cup ToSet(t)
           /\ \A i \in 1 .. Len(s) : (s \o t)[i] = s[i]
           /\ \A i \in 1 .. Len(t) : (s \o t)[Len(s) + i] = t[i]
<1> DEFINE S == ToSet(s) \cup ToSet(t)
           u == s \o t
<1>1. Len(s) \in Nat /\ Len(t) \in Nat
  BY SeqDomain
<1>2. s \in Seq(S) /\ t \in Seq(S)
  BY DEF IsSeq
<1>3. /\ u \in Seq(S) /\ Len(u) = Len(s) + Len(t)
      /\ \A i \in 1 .. Len(s) : u[i] = s[i]
      /\ \A i \in 1 .. Len(t) : u[Len(s) + i] = t[i]
  <2>1. u \in Seq(S) /\ Len(u) = Len(s) + Len(t)
    BY <1>2
  <2>2. ASSUME NEW i \in 1 .. Len(s) PROVE u[i] = s[i]
    BY <1>1, <1>2
  <2>3. ASSUME NEW i \in 1 .. Len(t) PROVE u[Len(s) + i] = t[i]
    BY <1>1, <1>2
  <2> QED BY <2>1, <2>2, <2>3
<1> HIDE DEF u
<1>4. IsSeq(u) /\ ToSet(u) \subseteq S
  BY <1>3, SeqIn
<1>5. ASSUME NEW x \in S PROVE x \in ToSet(u)
  <2>1. CASE x \in ToSet(s)
    <3>1. PICK i \in 1 .. Len(s) : s[i] = x
      BY <2>1, InSeq
    <3>2. i \in 1 .. Len(u) /\ u[i] = x
      BY <1>1, <1>3, <3>1
    <3> QED BY <1>4, <3>2, InSeq
  <2>2. CASE x \in ToSet(t)
    <3>1. PICK i \in 1 .. Len(t) : t[i] = x
      BY <2>2, InSeq
    <3>2. Len(s) + i \in 1 .. Len(u) /\ u[Len(s) + i] = x
      BY <1>1, <1>3, <3>1
    <3> QED BY <1>4, <3>2, InSeq
  <2> QED BY <2>1, <2>2
<1> QED BY <1>3, <1>4, <1>5 DEF u

\* The sequence of one element.
LEMMA SeqOne == \A x : IsSeq(<<x>>) /\ Len(<<x>>) = 1 /\ ToSet(<<x>>) = {x}
<1> SUFFICES ASSUME NEW x PROVE IsSeq(<<x>>) /\ Len(<<x>>) = 1 /\ ToSet(<<x>>) = {x}
  BY Zenon
<1>1. <<x>> \in Seq({x}) /\ Len(<<x>>) = 1 /\ <<x>>[1] = x
  OBVIOUS
<1>2. IsSeq(<<x>>)
  BY <1>1, SeqIn
<1>3. \A y : y \in ToSet(<<x>>) <=> y = x
  <2>1. 1 \in 1 .. 1
    OBVIOUS
  <2> QED BY <1>1, <1>2, <2>1, InSeq
<1> QED BY <1>1, <1>2, <1>3

\* What a sequence holds after one more element.
LEMMA SeqAdd ==
    ASSUME NEW s, IsSeq(s), NEW x
    PROVE  /\ IsSeq(Append(s, x)) /\ Len(Append(s, x)) = Len(s) + 1
           /\ ToSet(Append(s, x)) = ToSet(s) \cup {x}
<1>1. Append(s, x) = s \o <<x>>
  <2>1. s \in Seq(ToSet(s) \cup {x})
    BY DEF IsSeq
  <2> QED BY <2>1
<1>2. IsSeq(<<x>>) /\ Len(<<x>>) = 1 /\ ToSet(<<x>>) = {x}
  BY SeqOne
<1>3. /\ IsSeq(s \o <<x>>) /\ Len(s \o <<x>>) = Len(s) + Len(<<x>>)
      /\ ToSet(s \o <<x>>) = ToSet(s) \cup ToSet(<<x>>)
  BY <1>2, SeqConcat
<1> QED BY <1>1, <1>2, <1>3

\* Counting up to n: what holds of 0 and passes from one number to the next.
LEMMA UpTo ==
    ASSUME NEW n \in Nat, NEW S, 0 \in S, \A i \in 1 .. n : i - 1 \in S => i \in S
    PROVE  \A i \in 0 .. n : i \in S
<1> DEFINE R == {ss \in Nat \X Nat : ss[1] < ss[2]}
           B == {i \in 0 .. n : i \notin S}
<1>1. IsWellFoundedOn(R, Nat)
  BY NatLessThanWellFounded, Zenon DEF OpToRel
<1>2. SUFFICES ASSUME B # {} PROVE FALSE
  OBVIOUS
<1>3. B \in SUBSET Nat
  OBVIOUS
<1>4. PICK i \in B : \A j \in B : <<j, i>> \notin R
  BY <1>1, <1>2, <1>3, WFMin, Zenon
<1>5. i \in 1 .. n /\ i - 1 \in 0 .. n
  BY <1>4
<1>6. i - 1 \notin B
  <2>1. <<i - 1, i>> \in R
    BY <1>5
  <2> QED BY <1>4, <2>1
<1> QED BY <1>4, <1>5, <1>6

\* What Only has kept of the first elements.
KeepsTo(k, s, S, n) ==
    k = [i \in 0 .. n |->
            CASE i = 0 -> <<>>
              [] i # 0 /\ s[i] \in S -> Append(k[i - 1], s[i])
              [] OTHER -> k[i - 1]]

\* The function behind Only is defined by recursion on the length.
LEMMA KeepsExists ==
    ASSUME NEW s, NEW S, NEW n \in Nat
    PROVE  \E k : KeepsTo(k, s, S, n)
<1> DEFINE P == {m \in 0 .. n : \E k : KeepsTo(k, s, S, m)}
<1>1. 0 \in P
  <2> DEFINE k == [i \in 0 .. 0 |-> <<>>]
  <2>1. KeepsTo(k, s, S, 0)
    BY DEF KeepsTo
  <2> QED BY <2>1
<1>2. ASSUME NEW m \in 1 .. n, m - 1 \in P PROVE m \in P
  <2>1. PICK g : KeepsTo(g, s, S, m - 1)
    BY <1>2
  <2> DEFINE next == IF s[m] \in S THEN Append(g[m - 1], s[m]) ELSE g[m - 1]
             k == [i \in 0 .. m |-> IF i = m THEN next ELSE g[i]]
  <2>2. k[0] = <<>>
    BY <2>1 DEF KeepsTo
  <2>3. ASSUME NEW i \in 1 .. m
        PROVE  k[i] = IF s[i] \in S THEN Append(k[i - 1], s[i]) ELSE k[i - 1]
    <3>1. CASE i = m
      <4>1. k[m] = next /\ k[m - 1] = g[m - 1]
        OBVIOUS
      <4> QED BY <3>1, <4>1
    <3>2. CASE i # m
      <4>1. i \in 0 .. m - 1 /\ i # 0 /\ i - 1 \in 0 .. m - 1 /\ i - 1 # m
        BY <3>2
      <4>2. k[i] = g[i] /\ k[i - 1] = g[i - 1]
        BY <3>2, <4>1
      <4>3. g[i] = IF s[i] \in S THEN Append(g[i - 1], s[i]) ELSE g[i - 1]
        BY <2>1, <4>1 DEF KeepsTo
      <4> QED BY <4>2, <4>3
    <3> QED BY <3>1, <3>2
  <2>4. k = [i \in 0 .. m |-> k[i]]
    OBVIOUS
  <2> HIDE DEF k
  <2>5. \A i \in 0 .. m : i # 0 => i \in 1 .. m
    OBVIOUS
  <2>6. KeepsTo(k, s, S, m)
    BY <2>2, <2>3, <2>4, <2>5 DEF KeepsTo
  <2> QED BY <2>6
<1> HIDE DEF P
<1>3. \A m \in 0 .. n : m \in P
  BY <1>1, <1>2, UpTo
<1> QED BY <1>3 DEF P

\* Only keeps exactly the elements asked for.
LEMMA OnlyTells ==
    ASSUME NEW s, IsSeq(s), NEW S
    PROVE  IsSeq(Only(s, S)) /\ ToSet(Only(s, S)) = ToSet(s) \cap S
<1> DEFINE n == Len(s)
           it == CHOOSE k : KeepsTo(k, s, S, n)
<1>1. n \in Nat /\ DOMAIN s = 1 .. n
  BY SeqDomain
<1>2. KeepsTo(it, s, S, n)
  BY <1>1, KeepsExists
<1>3. Only(s, S) = it[n]
  BY Zenon DEF Only, KeepsTo
<1> HIDE DEF it
<1> DEFINE First(i) == {s[j] : j \in 1 .. i}
           G == {i \in 0 .. n : IsSeq(it[i]) /\ ToSet(it[i]) = First(i) \cap S}
<1>4. 0 \in G
  <2>1. it[0] = <<>>
    BY <1>1, <1>2 DEF KeepsTo
  <2> QED BY <1>1, <2>1, SeqEmpty
<1>5. ASSUME NEW i \in 1 .. n, i - 1 \in G PROVE i \in G
  <2>0. i \in 0 .. n /\ i # 0
    BY <1>1
  <2>1. it[i] = IF s[i] \in S THEN Append(it[i - 1], s[i]) ELSE it[i - 1]
    <3>1. it[i] = CASE i = 0 -> <<>>
                    [] i # 0 /\ s[i] \in S -> Append(it[i - 1], s[i])
                    [] OTHER -> it[i - 1]
      BY <1>2, <2>0 DEF KeepsTo
    <3> QED BY <2>0, <3>1
  <2>2. IsSeq(it[i - 1]) /\ ToSet(it[i - 1]) = First(i - 1) \cap S
    BY <1>5
  <2>3. First(i) = First(i - 1) \cup {s[i]}
    BY <1>1
  <2> HIDE DEF First
  <2>4. CASE s[i] \in S
    <3>1. /\ IsSeq(Append(it[i - 1], s[i]))
          /\ ToSet(Append(it[i - 1], s[i])) = ToSet(it[i - 1]) \cup {s[i]}
      BY <2>2, SeqAdd
    <3> QED BY <2>0, <2>1, <2>2, <2>3, <2>4, <3>1
  <2>5. CASE s[i] \notin S
    BY <2>0, <2>1, <2>2, <2>3, <2>5
  <2> QED BY <2>4, <2>5
<1> HIDE DEF G
<1>6. n \in G
  <2>1. \A i \in 0 .. n : i \in G
    BY <1>1, <1>4, <1>5, UpTo
  <2> QED BY <1>1, <2>1
<1>7. ToSet(s) = {s[j] : j \in 1 .. n}
  BY <1>1 DEF ToSet
<1> QED BY <1>3, <1>6, <1>7 DEF G

\* FlattenSeq joins what it is given.
JoinsTo(f, ss, n) ==
    f = [i \in 1 .. n |-> IF i = 1 THEN ss[i] ELSE f[i - 1] \o ss[i]]

\* The function behind FlattenSeq is defined by recursion on the length.
LEMMA JoinsExists ==
    ASSUME NEW ss, NEW n \in Nat
    PROVE  \E f : JoinsTo(f, ss, n)
<1> DEFINE P == {m \in 0 .. n : \E f : JoinsTo(f, ss, m)}
<1>1. 0 \in P
  <2> DEFINE f == [i \in 1 .. 0 |-> ss]
  <2>1. JoinsTo(f, ss, 0)
    BY DEF JoinsTo
  <2> QED BY <2>1
<1>2. ASSUME NEW m \in 1 .. n, m - 1 \in P PROVE m \in P
  <2>1. PICK g : JoinsTo(g, ss, m - 1)
    BY <1>2
  <2> DEFINE next == IF m = 1 THEN ss[m] ELSE g[m - 1] \o ss[m]
             f == [i \in 1 .. m |-> IF i = m THEN next ELSE g[i]]
  <2>2. ASSUME NEW i \in 1 .. m
        PROVE  f[i] = IF i = 1 THEN ss[i] ELSE f[i - 1] \o ss[i]
    <3>1. CASE i = m
      <4>1. f[m] = next /\ (m # 1 => f[m - 1] = g[m - 1])
        OBVIOUS
      <4> QED BY <3>1, <4>1
    <3>2. CASE i # m
      <4>1. i \in 1 .. m - 1 /\ i - 1 # m /\ (i # 1 => i - 1 \in 1 .. m)
        BY <3>2
      <4>2. f[i] = g[i] /\ (i # 1 => f[i - 1] = g[i - 1])
        BY <3>2, <4>1
      <4>3. g[i] = IF i = 1 THEN ss[i] ELSE g[i - 1] \o ss[i]
        BY <2>1, <4>1 DEF JoinsTo
      <4> QED BY <4>2, <4>3
    <3> QED BY <3>1, <3>2
  <2>3. f = [i \in 1 .. m |-> f[i]]
    OBVIOUS
  <2> HIDE DEF f
  <2>4. JoinsTo(f, ss, m)
    BY <2>2, <2>3 DEF JoinsTo
  <2> QED BY <2>4
<1> HIDE DEF P
<1>3. \A m \in 0 .. n : m \in P
  BY <1>1, <1>2, UpTo
<1> QED BY <1>3 DEF P

\* A flattened sequence holds the elements of its members.
LEMMA FlatTells ==
    ASSUME NEW ss, IsSeq(ss), \A i \in 1 .. Len(ss) : IsSeq(ss[i])
    PROVE  /\ IsSeq(FlattenSeq(ss))
           /\ \A x : x \in ToSet(FlattenSeq(ss)) <=> \E i \in 1 .. Len(ss) : x \in ToSet(ss[i])
<1> DEFINE n == Len(ss)
           it == CHOOSE f : JoinsTo(f, ss, n)
<1>1. n \in Nat
  BY SeqDomain
<1>2. JoinsTo(it, ss, n)
  BY <1>1, JoinsExists
<1>3. CASE n = 0
  <2>1. FlattenSeq(ss) = ss
    BY <1>3 DEF FlattenSeq
  <2> QED BY <1>3, <2>1, InSeq
<1>4. CASE n # 0
  <2>1. FlattenSeq(ss) = it[n]
    BY <1>4, Zenon DEF FlattenSeq, JoinsTo
  <2> HIDE DEF it
  <2> DEFINE In(x, i) == \E j \in 1 .. i : x \in ToSet(ss[j])
             G == {i \in 0 .. n : i # 0 => IsSeq(it[i]) /\ \A x : x \in ToSet(it[i]) <=> In(x, i)}
  <2>2. 0 \in G
    BY <1>1
  <2>3. ASSUME NEW i \in 1 .. n, i - 1 \in G PROVE i \in G
    <3>1. it[i] = IF i = 1 THEN ss[i] ELSE it[i - 1] \o ss[i]
      BY <1>2 DEF JoinsTo
    <3>2. i \in 0 .. n /\ i \in Nat /\ IsSeq(ss[i])
      BY <1>1
    <3>3. CASE i = 1
      <4>1. \A x : In(x, 1) <=> x \in ToSet(ss[1])
        OBVIOUS
      <4> HIDE DEF In
      <4> QED BY <3>1, <3>2, <3>3, <4>1
    <3>4. CASE i # 1
      <4>1. \A x : In(x, i) <=> In(x, i - 1) \/ x \in ToSet(ss[i])
        BY <3>2
      <4>2. i - 1 # 0
        BY <3>2, <3>4
      <4> HIDE DEF In
      <4>3. IsSeq(it[i - 1]) /\ \A x : x \in ToSet(it[i - 1]) <=> In(x, i - 1)
        BY <2>3, <4>2
      <4>4. /\ IsSeq(it[i - 1] \o ss[i])
            /\ ToSet(it[i - 1] \o ss[i]) = ToSet(it[i - 1]) \cup ToSet(ss[i])
        BY <3>2, <4>3, SeqConcat
      <4> QED BY <3>1, <3>2, <3>4, <4>1, <4>3, <4>4
    <3> QED BY <3>3, <3>4
  <2> HIDE DEF G
  <2>4. \A i \in 0 .. n : i \in G
    BY <1>1, <2>2, <2>3, UpTo
  <2>5. n \in G
    BY <1>1, <2>4
  <2> QED BY <1>4, <2>1, <2>5 DEF G
<1> QED BY <1>3, <1>4
-----------------------------------------------------------------------------
(* The rows of the units: those of the plan, and those that are left.      *)

\* There are two tiers.
LEMMA TierNames == IsSeq(Tiers) /\ ToSet(Tiers) = {"triggers", "evals"}
<1>1. Tiers \in Seq({"triggers", "evals"}) /\ Len(Tiers) = 2
      /\ Tiers[1] = "triggers" /\ Tiers[2] = "evals"
  BY DEF Tiers
<1>2. IsSeq(Tiers)
  BY <1>1, SeqIn
<1>3. \A t : t \in ToSet(Tiers) <=> t \in {"triggers", "evals"}
  <2>1. \A i : i \in 1 .. 2 <=> i = 1 \/ i = 2
    OBVIOUS
  <2> QED BY <1>1, <1>2, <2>1, InSeq
<1> QED BY <1>2, <1>3

\* A sequence mapped over.
LEMMA MapTells ==
    ASSUME NEW f, NEW n \in Nat, DOMAIN f = 1 .. n, f = [i \in 1 .. n |-> f[i]]
    PROVE  IsSeq(f) /\ Len(f) = n
<1> DEFINE S == {f[i] : i \in 1 .. n}
<1>1. f \in [1 .. n -> S]
  OBVIOUS
<1>2. f \in Seq(S) /\ Len(f) = n
  BY <1>1
<1> QED BY <1>2, SeqIn

\* The cases of an entry and a tier are the members of its sequence.
LEMMA TierSeqs ==
    ASSUME NEW sc \in ToSet(Catalog)
    PROVE  /\ IsSeq(sc.triggers) /\ IsSeq(sc.evals) /\ IsSeq(CasesOf(sc))
           /\ \A t : IsSeq(TierSeq(sc, t))
           /\ ToSet(CasesOf(sc)) = ToSet(sc.triggers) \cup ToSet(sc.evals)
           /\ ToSet(sc.triggers) \cap ToSet(sc.evals) = {}
           /\ ToSet(CasesOf(sc)) \subseteq AllCases
<1>1. /\ sc.triggers \in Seq(AllCases) /\ sc.evals \in Seq(AllCases)
      /\ ToSet(sc.triggers) \cap ToSet(sc.evals) = {}
  BY CatalogAssumption
<1>2. IsSeq(sc.triggers) /\ IsSeq(sc.evals)
  BY <1>1, SeqIn
<1>3. IsSeq(CasesOf(sc)) /\ ToSet(CasesOf(sc)) = ToSet(sc.triggers) \cup ToSet(sc.evals)
  BY <1>2, SeqConcat DEF CasesOf
<1> QED BY <1>1, <1>2, <1>3 DEF AllCases, TierSeq

\* A case is of one skill.
LEMMA EntryIs ==
    ASSUME NEW sc \in ToSet(Catalog), NEW c \in ToSet(CasesOf(sc))
    PROVE  EntryOf(c) = sc
<1>1. IsSeq(Catalog)
  BY CatalogAssumption DEF IsSeq
<1>2. ASSUME NEW x \in ToSet(Catalog), c \in ToSet(CasesOf(x)) PROVE x = sc
  <2>1. PICK i \in 1 .. Len(Catalog) : Catalog[i] = sc
    BY <1>1, InSeq
  <2>2. PICK j \in 1 .. Len(Catalog) : Catalog[j] = x
    BY <1>1, InSeq
  <2>3. DOMAIN Catalog = 1 .. Len(Catalog)
    BY <1>1, SeqDomain
  <2>4. CASE i # j
    <3>1. ToSet(CasesOf(Catalog[i])) \cap ToSet(CasesOf(Catalog[j])) = {}
      BY <2>3, <2>4, CatalogAssumption
    <3> QED BY <1>2, <2>1, <2>2, <3>1
  <2> QED BY <2>1, <2>2, <2>4
<1> QED BY <1>2 DEF EntryOf

\* An entry holds its own cases.
LEMMA EntryHas ==
    ASSUME NEW c \in AllCases
    PROVE  EntryOf(c) \in ToSet(Catalog) /\ c \in ToSet(CasesOf(EntryOf(c)))
BY DEF AllCases, EntryOf

\* The tier of a case is the one that lists it.
LEMMA TierIs ==
    ASSUME NEW sc \in ToSet(Catalog), NEW t \in ToSet(Tiers), NEW c \in ToSet(TierSeq(sc, t))
    PROVE  c \in AllCases /\ EntryOf(c) = sc /\ TierOf(c) = t /\ (IsEval(c) <=> t = "evals")
<1>1. c \in ToSet(CasesOf(sc))
  BY TierSeqs DEF TierSeq
<1>2. EntryOf(c) = sc /\ c \in AllCases
  BY <1>1, EntryIs, TierSeqs
<1>3. t \in {"triggers", "evals"}
  BY TierNames
<1>4. IsEval(c) <=> t = "evals"
  BY <1>2, <1>3, TierSeqs DEF IsEval, TierSeq
<1> QED BY <1>2, <1>3, <1>4 DEF TierOf

UnitCases(u) == {<<u.model, c>> : c \in ToSet(u.cases)}

\* The rows of a unit are its cases with the unit's model.
LEMMA UnitRowsTell ==
    ASSUME NEW u, IsSeq(u.cases)
    PROVE  /\ IsSeq(UnitRows(u)) /\ ToSet(UnitRows(u)) = UnitCases(u)
           /\ Len(UnitRows(u)) = Len(u.cases)
<1> DEFINE n == Len(u.cases)
<1>1. n \in Nat /\ DOMAIN u.cases = 1 .. n
  BY SeqDomain
<1>2. UnitRows(u) = [i \in 1 .. n |-> <<u.model, u.cases[i]>>]
  BY <1>1 DEF UnitRows
<1>3. IsSeq(UnitRows(u)) /\ Len(UnitRows(u)) = n
  BY <1>1, <1>2, MapTells
<1>4. \A row : row \in ToSet(UnitRows(u)) <=> \E i \in 1 .. n : row = <<u.model, u.cases[i]>>
  <2>1. \A row : row \in ToSet(UnitRows(u)) <=> \E i \in 1 .. n : UnitRows(u)[i] = row
    BY <1>3, InSeq
  <2>2. \A i \in 1 .. n : UnitRows(u)[i] = <<u.model, u.cases[i]>>
    BY <1>2
  <2> HIDE DEF n
  <2> QED BY <2>1, <2>2
<1>5. \A c : c \in ToSet(u.cases) <=> \E i \in 1 .. n : u.cases[i] = c
  BY InSeq
<1> QED BY <1>3, <1>4, <1>5 DEF UnitCases

\* The rows of some units are the rows of each.
LEMMA RowsOfTells ==
    ASSUME NEW units, IsSeq(units), \A u \in ToSet(units) : IsSeq(u.cases)
    PROVE  /\ IsSeq(RowsOf(units))
           /\ \A row : row \in ToSet(RowsOf(units)) <=> \E u \in ToSet(units) : row \in UnitCases(u)
<1> DEFINE n == Len(units)
           ss == [i \in DOMAIN units |-> UnitRows(units[i])]
<1>1. n \in Nat /\ DOMAIN units = 1 .. n
  BY SeqDomain
<1>2. IsSeq(ss) /\ Len(ss) = n
  BY <1>1, MapTells
<1>3. ASSUME NEW i \in 1 .. n
      PROVE  IsSeq(ss[i]) /\ ToSet(ss[i]) = UnitCases(units[i]) /\ units[i] \in ToSet(units)
  <2>1. units[i] \in ToSet(units) /\ ss[i] = UnitRows(units[i])
    BY <1>1, InSeq
  <2> QED BY <2>1, UnitRowsTell
<1>4. RowsOf(units) = FlattenSeq(ss)
  BY DEF RowsOf
<1> HIDE DEF ss
<1>5. /\ IsSeq(FlattenSeq(ss))
      /\ \A x : x \in ToSet(FlattenSeq(ss)) <=> \E i \in 1 .. n : x \in ToSet(ss[i])
  BY <1>2, <1>3, FlatTells
<1>6. \A u : u \in ToSet(units) <=> \E i \in 1 .. n : units[i] = u
  BY InSeq
<1> QED BY <1>3, <1>4, <1>5, <1>6

\* The units of a skill for a model: one for each tier that has cases.
IsUnit(u, sc, m) == \E t \in ToSet(Tiers) : TierSeq(sc, t) # <<>> /\ u = UnitFor(sc, m, t)

\* The units of a model within an entry and a tier: one, or none without a case.
LEMMA ModelUnitsTell ==
    ASSUME NEW sc, NEW m
    PROVE  /\ IsSeq(ModelUnits(sc, m))
           /\ \A u : u \in ToSet(ModelUnits(sc, m)) <=> IsUnit(u, sc, m)
<1> DEFINE T == {t \in ToSet(Tiers) : TierSeq(sc, t) # <<>>}
           ts == Only(Tiers, T)
           n == Len(ts)
           us == [i \in DOMAIN ts |-> UnitFor(sc, m, ts[i])]
<1>1. IsSeq(ts) /\ ToSet(ts) = T
  <2>1. IsSeq(ts) /\ ToSet(ts) = ToSet(Tiers) \cap T
    BY TierNames, OnlyTells
  <2> QED BY <2>1
<1>2. ModelUnits(sc, m) = us
  BY DEF ModelUnits
<1> HIDE DEF ts
<1>3. n \in Nat /\ DOMAIN ts = 1 .. n
  BY <1>1, SeqDomain
<1>4. IsSeq(us) /\ Len(us) = n /\ \A i \in 1 .. n : us[i] = UnitFor(sc, m, ts[i])
  BY <1>3, MapTells
<1>5. \A t : t \in T <=> \E i \in 1 .. n : ts[i] = t
  BY <1>1, InSeq
<1> HIDE DEF us
<1>6. \A u : u \in ToSet(us) <=> \E i \in 1 .. n : us[i] = u
  BY <1>4, InSeq
<1> QED BY <1>2, <1>4, <1>5, <1>6 DEF IsUnit

\* The units of an entry are those of its tiers and the models it admits.
LEMMA SkillUnitsTell ==
    ASSUME NEW sc, NEW models, IsSeq(models)
    PROVE  /\ IsSeq(SkillUnits(sc, models))
           /\ \A u : u \in ToSet(SkillUnits(sc, models)) <=>
                        \E m \in ToSet(models) : Allows(sc, m) /\ IsUnit(u, sc, m)
<1> DEFINE M == {m \in ToSet(models) : Allows(sc, m)}
           ms == Only(models, M)
           n == Len(ms)
           ss == [i \in DOMAIN ms |-> ModelUnits(sc, ms[i])]
<1>1. IsSeq(ms) /\ ToSet(ms) = M
  <2>1. IsSeq(ms) /\ ToSet(ms) = ToSet(models) \cap M
    BY OnlyTells
  <2> QED BY <2>1
<1>2. SkillUnits(sc, models) = FlattenSeq(ss)
  BY DEF SkillUnits
<1> HIDE DEF ms
<1>3. n \in Nat /\ DOMAIN ms = 1 .. n
  BY <1>1, SeqDomain
<1>4. IsSeq(ss) /\ Len(ss) = n /\ \A i \in 1 .. n : ss[i] = ModelUnits(sc, ms[i])
  BY <1>3, MapTells
<1>5. \A m : m \in M <=> \E i \in 1 .. n : ms[i] = m
  BY <1>1, InSeq
<1> HIDE DEF ss
<1>6. \A i \in 1 .. n : IsSeq(ss[i]) /\ \A u : u \in ToSet(ss[i]) <=> IsUnit(u, sc, ms[i])
  BY <1>4, ModelUnitsTell
<1>7. /\ IsSeq(FlattenSeq(ss))
      /\ \A u : u \in ToSet(FlattenSeq(ss)) <=> \E i \in 1 .. n : u \in ToSet(ss[i])
  BY <1>4, <1>6, FlatTells
<1> HIDE DEF n
<1>8. \A u : u \in ToSet(FlattenSeq(ss)) <=> \E m \in M : IsUnit(u, sc, m)
  BY <1>5, <1>6, <1>7
<1> QED BY <1>2, <1>7, <1>8

\* The units of a plan are those of its entries.
LEMMA UnitsTell ==
    ASSUME NEW models, IsSeq(models)
    PROVE  /\ IsSeq(UnitsOf(models))
           /\ \A u : u \in ToSet(UnitsOf(models)) <=>
                        \E sc \in ToSet(Catalog), m \in ToSet(models) :
                            Allows(sc, m) /\ IsUnit(u, sc, m)
<1> DEFINE n == Len(Catalog)
           ss == [i \in DOMAIN Catalog |-> SkillUnits(Catalog[i], models)]
<1>1. IsSeq(Catalog)
  BY CatalogAssumption DEF IsSeq
<1>2. UnitsOf(models) = FlattenSeq(ss)
  BY DEF UnitsOf
<1>3. n \in Nat /\ DOMAIN Catalog = 1 .. n
  BY <1>1, SeqDomain
<1>4. IsSeq(ss) /\ Len(ss) = n /\ \A i \in 1 .. n : ss[i] = SkillUnits(Catalog[i], models)
  BY <1>3, MapTells
<1>5. \A sc : sc \in ToSet(Catalog) <=> \E i \in 1 .. n : Catalog[i] = sc
  BY <1>1, InSeq
<1> HIDE DEF ss
<1>6. \A i \in 1 .. n : /\ IsSeq(ss[i])
                        /\ \A u : u \in ToSet(ss[i]) <=>
                              \E m \in ToSet(models) :
                                  Allows(Catalog[i], m) /\ IsUnit(u, Catalog[i], m)
  BY <1>4, SkillUnitsTell
<1>7. /\ IsSeq(FlattenSeq(ss))
      /\ \A u : u \in ToSet(FlattenSeq(ss)) <=> \E i \in 1 .. n : u \in ToSet(ss[i])
  BY <1>4, <1>6, FlatTells
<1> HIDE DEF n
<1>8. \A u : u \in ToSet(FlattenSeq(ss)) <=>
                \E i \in 1 .. n : \E m \in ToSet(models) :
                    Allows(Catalog[i], m) /\ IsUnit(u, Catalog[i], m)
  BY <1>6, <1>7
<1>9. ASSUME NEW u
      PROVE  (\E i \in 1 .. n : \E m \in ToSet(models) :
                  Allows(Catalog[i], m) /\ IsUnit(u, Catalog[i], m))
             <=> (\E sc \in ToSet(Catalog), m \in ToSet(models) :
                      Allows(sc, m) /\ IsUnit(u, sc, m))
  BY <1>5, Zenon
<1> QED BY <1>2, <1>7, <1>8, <1>9

\* No unit of a plan is empty.
LEMMA UnitsHaveCases ==
    ASSUME NEW models, IsSeq(models), NEW u \in ToSet(UnitsOf(models))
    PROVE  IsSeq(u.cases)
<1>1. PICK sc \in ToSet(Catalog), m \in ToSet(models) : Allows(sc, m) /\ IsUnit(u, sc, m)
  BY UnitsTell
<1>2. PICK t \in ToSet(Tiers) : u = UnitFor(sc, m, t)
  BY <1>1 DEF IsUnit
<1>3. u.cases = TierSeq(sc, t)
  BY <1>2 DEF UnitFor
<1> QED BY <1>3, TierSeqs

\* The rows of a plan's units are the cases its models can run.
LEMMA PlanRows ==
    ASSUME NEW models, IsSeq(models)
    PROVE  IsSeq(RowsOf(UnitsOf(models))) /\ ToSet(RowsOf(UnitsOf(models))) = Rows(ToSet(models))
<1> DEFINE us == UnitsOf(models)
<1>1. IsSeq(us) /\ \A u \in ToSet(us) : IsSeq(u.cases)
  BY UnitsTell, UnitsHaveCases
<1>2. /\ IsSeq(RowsOf(us))
      /\ \A row : row \in ToSet(RowsOf(us)) <=> \E u \in ToSet(us) : row \in UnitCases(u)
  BY <1>1, RowsOfTells
<1>3. ASSUME NEW u \in ToSet(us), NEW row \in UnitCases(u)
      PROVE  row \in Rows(ToSet(models))
  <2>1. PICK sc \in ToSet(Catalog), m \in ToSet(models) : Allows(sc, m) /\ IsUnit(u, sc, m)
    BY UnitsTell
  <2>2. PICK t \in ToSet(Tiers) : u = UnitFor(sc, m, t)
    BY <2>1 DEF IsUnit
  <2>3. u.cases = TierSeq(sc, t) /\ u.model = m
    BY <2>2 DEF UnitFor
  <2>4. PICK c \in ToSet(TierSeq(sc, t)) : row = <<m, c>>
    BY <2>3 DEF UnitCases
  <2>5. c \in AllCases /\ EntryOf(c) = sc
    BY TierIs
  <2> QED BY <2>1, <2>4, <2>5 DEF Rows
<1>4. ASSUME NEW row \in Rows(ToSet(models))
      PROVE  \E u \in ToSet(us) : row \in UnitCases(u)
  <2> DEFINE m == row[1]
             c == row[2]
             sc == EntryOf(c)
             t == IF IsEval(c) THEN "evals" ELSE "triggers"
             u == UnitFor(sc, m, t)
  <2>1. m \in ToSet(models) /\ c \in AllCases /\ Allows(sc, m) /\ row = <<m, c>>
    BY DEF Rows
  <2>2. sc \in ToSet(Catalog) /\ c \in ToSet(CasesOf(sc))
    BY <2>1, EntryHas
  <2>3. t \in ToSet(Tiers) /\ c \in ToSet(TierSeq(sc, t))
    BY <2>2, TierNames, TierSeqs DEF IsEval, TierSeq
  <2>4. TierSeq(sc, t) # <<>>
    BY <2>3, SeqEmpty
  <2>5. u.model = m /\ u.cases = TierSeq(sc, t)
    BY DEF UnitFor
  <2>6. IsUnit(u, sc, m)
    BY <2>3, <2>4 DEF IsUnit
  <2> HIDE DEF u, t, sc, m, c
  <2>7. u \in ToSet(us)
    BY <2>1, <2>2, <2>6, UnitsTell
  <2>8. row \in UnitCases(u)
    BY <2>1, <2>3, <2>5 DEF UnitCases
  <2> QED BY <2>7, <2>8
<1> HIDE DEF us
<1>5. ToSet(RowsOf(us)) = Rows(ToSet(models))
  BY <1>2, <1>3, <1>4
<1> QED BY <1>2, <1>5 DEF us

\* The units that are left have the rows that are left, and no other.
LEMMA NarrowTells ==
    ASSUME NEW units, IsSeq(units), NEW R,
           \A u \in ToSet(units) : IsSeq(u.cases) /\ u = [u EXCEPT !.cases = @]
                                     /\ {"cases", "model"} \subseteq DOMAIN u
    PROVE  /\ IsSeq(Narrow(units, R))
           /\ \A u \in ToSet(Narrow(units, R)) : IsSeq(u.cases) /\ u.cases # <<>>
           /\ ToSet(RowsOf(Narrow(units, R))) = ToSet(RowsOf(units)) \cap R
           /\ \A u \in ToSet(Narrow(units, R)) :
                  \E x \in ToSet(units) : UnitCases(u) \subseteq UnitCases(x)
<1> DEFINE n == Len(units)
           us == [i \in DOMAIN units |-> Narrowed(units[i], R)]
           full == {u \in ToSet(us) : u.cases # <<>>}
           left == Only(us, full)
<1>1. n \in Nat /\ DOMAIN units = 1 .. n
  BY SeqDomain
<1>2. IsSeq(us) /\ Len(us) = n /\ \A i \in 1 .. n : us[i] = Narrowed(units[i], R)
  BY <1>1, MapTells
<1>3. Narrow(units, R) = left
  BY DEF Narrow
<1>4. ASSUME NEW u \in ToSet(units)
      PROVE  /\ IsSeq(Narrowed(u, R).cases)
             /\ UnitCases(Narrowed(u, R)) = UnitCases(u) \cap R
  <2> DEFINE C == {c \in ToSet(u.cases) : <<u.model, c>> \in R}
  <2>1. Narrowed(u, R).cases = Only(u.cases, C) /\ Narrowed(u, R).model = u.model
    BY DEF Narrowed
  <2>2. IsSeq(Only(u.cases, C)) /\ ToSet(Only(u.cases, C)) = ToSet(u.cases) \cap C
    BY OnlyTells
  <2> QED BY <2>1, <2>2 DEF UnitCases
<1> HIDE DEF us
<1>5. IsSeq(left) /\ ToSet(left) = full
  <2>1. IsSeq(left) /\ ToSet(left) = ToSet(us) \cap full
    BY <1>2, OnlyTells
  <2> QED BY <2>1
<1> HIDE DEF left
<1>6. /\ \A u : u \in ToSet(us) <=> \E i \in 1 .. n : us[i] = u
      /\ \A u : u \in ToSet(units) <=> \E i \in 1 .. n : units[i] = u
  BY <1>2, InSeq
<1> HIDE DEF n
<1>7. \A u : u \in ToSet(us) <=> \E x \in ToSet(units) : u = Narrowed(x, R)
  BY <1>2, <1>6
<1>8. \A u \in ToSet(left) : IsSeq(u.cases) /\ u.cases # <<>>
  BY <1>4, <1>5, <1>7
<1>9. \A row : row \in ToSet(RowsOf(left)) <=> \E u \in full : row \in UnitCases(u)
  BY <1>5, <1>8, RowsOfTells
<1>10. \A row : row \in ToSet(RowsOf(units)) <=> \E u \in ToSet(units) : row \in UnitCases(u)
  BY RowsOfTells
<1>11. ASSUME NEW u \in ToSet(us), NEW row \in UnitCases(u) PROVE u \in full
  BY <1>11, SeqEmpty DEF UnitCases
<1> HIDE DEF full
<1>12. ASSUME NEW row
       PROVE  (\E u \in full : row \in UnitCases(u))
                <=> row \in R /\ \E x \in ToSet(units) : row \in UnitCases(x)
  <2>1. (\E u \in full : row \in UnitCases(u)) <=> \E u \in ToSet(us) : row \in UnitCases(u)
    BY <1>11 DEF full
  <2>2. (\E u \in ToSet(us) : row \in UnitCases(u))
          <=> \E x \in ToSet(units) : row \in UnitCases(Narrowed(x, R))
    BY <1>7
  <2>3. \A x \in ToSet(units) :
            row \in UnitCases(Narrowed(x, R)) <=> row \in UnitCases(x) /\ row \in R
    BY <1>4
  <2> QED BY <2>1, <2>2, <2>3
<1>13. \A u \in ToSet(left) : \E x \in ToSet(units) : UnitCases(u) \subseteq UnitCases(x)
  <2>1. ASSUME NEW u \in ToSet(left)
      PROVE  \E x \in ToSet(units) : UnitCases(u) \subseteq UnitCases(x)
    <3>1. PICK x \in ToSet(units) : u = Narrowed(x, R)
      BY <1>5, <1>7 DEF full
    <3>2. UnitCases(u) = UnitCases(x) \cap R
      BY <1>4, <3>1
    <3> QED BY <3>2
  <2> QED BY <2>1
<1>14. ToSet(RowsOf(left)) = ToSet(RowsOf(units)) \cap R
  BY <1>9, <1>10, <1>12
<1> QED BY <1>3, <1>5, <1>8, <1>13, <1>14

\* The units of a plan are records with cases of their own.
LEMMA PlanUnits ==
    ASSUME NEW models, IsSeq(models), NEW u \in ToSet(UnitsOf(models))
    PROVE  /\ IsSeq(u.cases) /\ u = [u EXCEPT !.cases = @]
           /\ {"cases", "model"} \subseteq DOMAIN u
<1>1. \E sc, m, t : u = UnitFor(sc, m, t)
  BY UnitsTell DEF IsUnit
<1>2. u = [u EXCEPT !.cases = @] /\ {"cases", "model"} \subseteq DOMAIN u
  BY <1>1 DEF UnitFor
<1> QED BY <1>2, UnitsHaveCases

\* The filter of some cases lets those cases in.
LEMMA FilterTells ==
    ASSUME NEW cases, NEW c
    PROVE  Included(FilterFor(cases), c) <=> c \in cases
<1> DEFINE st == <<EntryOf(c).skill, TierOf(c)>>
           f == FilterFor(cases)
<1>1. f.skills = SkillsWith(cases)
  BY DEF FilterFor
<1>2. f.cases = [k \in BothTiers(cases) |->
                   {x \in cases : <<EntryOf(x).skill, TierOf(x)>> = k}]
  BY DEF FilterFor
<1>3. TierOf(c) \in ToSet(Tiers)
  BY TierNames DEF TierOf
<1>4. EntryOf(c).skill \in SkillsWith(cases) => st \in BothTiers(cases)
  BY <1>3 DEF BothTiers
<1>5. DOMAIN f.cases = BothTiers(cases)
  BY <1>2
<1>6. st \in BothTiers(cases) => (c \in f.cases[st] <=> c \in cases)
  BY <1>2
<1>7. c \in cases => EntryOf(c).skill \in SkillsWith(cases)
  BY DEF SkillsWith
<1>8. st[1] = EntryOf(c).skill
  OBVIOUS
<1> HIDE DEF st
<1>9. Included(f, c) <=> st[1] \in f.skills /\ (st \in DOMAIN f.cases => c \in f.cases[st])
  BY Zenon DEF Included, st
<1>10. EntryOf(c).skill \in SkillsWith(cases) => (c \in f.cases[st] <=> c \in cases)
  BY <1>4, <1>6
<1>11. Included(f, c) <=> /\ EntryOf(c).skill \in SkillsWith(cases)
                          /\ (EntryOf(c).skill \in SkillsWith(cases) => c \in f.cases[st])
  <2>1. st \in DOMAIN f.cases <=> EntryOf(c).skill \in SkillsWith(cases)
    BY <1>4, <1>5 DEF st, BothTiers
  <2> QED BY <1>1, <1>8, <1>9, <2>1
<1> QED BY <1>7, <1>10, <1>11

\* The engine's units hold the queued rows that --eval leaves in.
EvalAllows(eval, row) == IsEval(row[2]) => eval \in {AnyEval, row[2]}

\* The rows of the engine's units are the queued ones that --eval lets in (runui.go:288).
LEMMA EngineRows ==
    ASSUME NEW q, IsSeq(q.models), NEW eval
    PROVE  /\ IsSeq(EngineUnits(q, eval))
           /\ \A u \in ToSet(EngineUnits(q, eval)) : IsSeq(u.cases) /\ u.cases # <<>>
           /\ ToSet(RowsOf(EngineUnits(q, eval))) = {row \in QueuedRows(q) : EvalAllows(eval, row)}
           /\ \A u \in ToSet(EngineUnits(q, eval)) :
                  \E x \in ToSet(UnitsOf(q.models)) : UnitCases(u) \subseteq UnitCases(x)
<1> DEFINE queued == QueuedRows(q)
           models == {row[1] : row \in queued}
           of(m) == {c \in AllCases : <<m, c>> \in queued}
           F == Filters(Build(q))
           takes(m, c) == /\ m \in DOMAIN F /\ Included(F[m], c)
                          /\ IsEval(c) => eval \in {AnyEval, c}
           R == {row \in Rows(ToSet(q.models)) : takes(row[1], row[2])}
           us == UnitsOf(q.models)
<1>1. EngineUnits(q, eval) = Narrow(us, R)
  BY DEF EngineUnits
<1>2. Build(q).queued = queued
  BY DEF Build
<1>3. DOMAIN F = models /\ \A m \in models : F[m] = FilterFor(of(m))
  BY <1>2 DEF Filters, CasesQueued
<1> HIDE DEF F, queued
<1>5. ASSUME NEW m \in models, NEW c \in AllCases
      PROVE  Included(F[m], c) <=> <<m, c>> \in queued
  <2>1. F[m] = FilterFor(of(m))
    BY <1>3
  <2>2. Included(FilterFor(of(m)), c) <=> c \in of(m)
    BY FilterTells
  <2> QED BY <2>1, <2>2
<1>6. \A row \in queued : /\ row \in Rows(ToSet(q.models)) /\ row[1] \in models
                           /\ row = <<row[1], row[2]>> /\ row[2] \in AllCases
  BY DEF queued, QueuedRows, Rows
<1>7. \A row \in Rows(ToSet(q.models)) : row = <<row[1], row[2]>> /\ row[2] \in AllCases
  BY DEF Rows
<1>8. R = {row \in queued : EvalAllows(eval, row)}
  <2> HIDE DEF models
  <2>1. ASSUME NEW row \in R PROVE row \in queued /\ EvalAllows(eval, row)
    BY <1>3, <1>5, <1>7 DEF EvalAllows
  <2>2. ASSUME NEW row \in queued, EvalAllows(eval, row) PROVE row \in R
    BY <1>3, <1>5, <1>6, <2>2 DEF EvalAllows
  <2> QED BY <2>1, <2>2
<1>9. IsSeq(us) /\ ToSet(RowsOf(us)) = Rows(ToSet(q.models))
  BY UnitsTell, PlanRows
<1>10. \A u \in ToSet(us) : /\ IsSeq(u.cases) /\ u = [u EXCEPT !.cases = @]
                              /\ {"cases", "model"} \subseteq DOMAIN u
  BY PlanUnits
<1> HIDE DEF R, us
<1>11. R \subseteq Rows(ToSet(q.models))
  BY DEF R
<1>12. /\ IsSeq(Narrow(us, R))
       /\ \A u \in ToSet(Narrow(us, R)) : IsSeq(u.cases) /\ u.cases # <<>>
       /\ ToSet(RowsOf(Narrow(us, R))) = ToSet(RowsOf(us)) \cap R
       /\ \A u \in ToSet(Narrow(us, R)) : \E x \in ToSet(us) : UnitCases(u) \subseteq UnitCases(x)
  BY <1>9, <1>10, NarrowTells
<1> QED BY <1>1, <1>8, <1>9, <1>11, <1>12 DEF queued, us
-----------------------------------------------------------------------------
(* A sequence without repetitions, and what is left of it when an element  *)
(* is removed.                                                             *)
Distinct(s) == \A i, j \in 1 .. Len(s) : s[i] = s[j] => i = j

\* A sequence has finitely many elements.
LEMMA SeqFinite ==
    ASSUME NEW s, IsSeq(s)
    PROVE  IsFiniteSet(ToSet(s))
<1>1. Len(s) \in Nat /\ DOMAIN s = 1 .. Len(s) /\ s \in [1 .. Len(s) -> ToSet(s)]
  BY SeqDomain DEF IsSeq
<1>2. \A x \in ToSet(s) : \E i \in 1 .. Len(s) : s[i] = x
  BY InSeq
<1>3. s \in Surjection(1 .. Len(s), ToSet(s))
  BY <1>1, <1>2 DEF Surjection
<1>4. IsFiniteSet(1 .. Len(s))
  BY <1>1, FS_Interval
<1> QED BY <1>3, <1>4, FS_Surjection

\* A sequence without repetitions is as long as it has elements.
LEMMA DistinctCounts ==
    ASSUME NEW s, IsSeq(s), Distinct(s)
    PROVE  Cardinality(ToSet(s)) = Len(s)
<1>1. Len(s) \in Nat /\ DOMAIN s = 1 .. Len(s) /\ s \in [1 .. Len(s) -> ToSet(s)]
  BY SeqDomain DEF IsSeq
<1>2. \A x \in ToSet(s) : \E i \in 1 .. Len(s) : s[i] = x
  BY InSeq
<1>3. s \in Bijection(1 .. Len(s), ToSet(s))
  BY <1>1, <1>2 DEF Surjection, Injection, Bijection, Distinct, IsInjective
<1> QED BY <1>1, <1>3, FS_CountingElements DEF ExistsBijection

\* A new element at the end leaves a sequence without repetitions.
LEMMA AppendTells ==
    ASSUME NEW s, IsSeq(s), Distinct(s), NEW e, e \notin ToSet(s)
    PROVE  IsSeq(Append(s, e)) /\ Distinct(Append(s, e)) /\ ToSet(Append(s, e)) = ToSet(s) \cup {e}
<1>1. Len(s) \in Nat /\ s \in Seq(ToSet(s) \cup {e})
  BY SeqDomain DEF IsSeq
<1>2. /\ IsSeq(Append(s, e)) /\ ToSet(Append(s, e)) = ToSet(s) \cup {e}
      /\ Len(Append(s, e)) = Len(s) + 1
  BY SeqAdd
<1>3. \A i \in 1 .. Len(s) : s[i] \in ToSet(s)
  BY InSeq
<1>4. \A i \in 1 .. Len(s) + 1 : Append(s, e)[i] = IF i = Len(s) + 1 THEN e ELSE s[i]
  BY <1>1
<1>5. Distinct(Append(s, e))
  BY <1>1, <1>2, <1>3, <1>4 DEF Distinct
<1> QED BY <1>2, <1>5

\* Taking out an element leaves the others, once each.
LEMMA RemoveTells ==
    ASSUME NEW s, IsSeq(s), Distinct(s), NEW e
    PROVE  /\ IsSeq(RemoveFirst(s, e)) /\ Distinct(RemoveFirst(s, e))
           /\ ToSet(RemoveFirst(s, e)) = ToSet(s) \ {e}
<1> DEFINE n == Len(s)
           r == RemoveFirst(s, e)
<1>1. n \in Nat /\ s \in Seq(ToSet(s))
  BY SeqDomain DEF IsSeq
<1>2. \A x : x \in ToSet(s) <=> \E i \in 1 .. n : s[i] = x
  BY InSeq
<1>3. CASE ~\E i \in 1 .. n : s[i] = e
  <2>1. r = s
    BY <1>3 DEF RemoveFirst
  <2> QED BY <1>2, <1>3, <2>1
<1>4. CASE \E i \in 1 .. n : s[i] = e
  <2> DEFINE k == SelectInSeq(s, LAMBDA v : v = e)
  <2>1. k \in 1 .. n /\ s[k] = e
    <3> DEFINE I == {i \in 1 .. n : s[i] = e}
    <3>1. PICK i \in 1 .. n : s[i] = e
      BY <1>4
    <3>2. I = {i}
      BY <3>1 DEF Distinct
    <3>3. i \in I /\ \A y \in I : i =< y
      BY <3>1, <3>2
    <3>4. k = CHOOSE x \in I : \A y \in I : x =< y
      BY <3>3 DEF SelectInSeq, Min
    <3> QED BY <3>3, <3>4
  <2>2. r = SubSeq(s, 1, k - 1) \o SubSeq(s, k + 1, n)
    BY <1>4 DEF RemoveFirst, RemoveAt
  <2> HIDE DEF k
  <2>3. /\ r \in Seq(ToSet(s)) /\ Len(r) = n - 1
        /\ \A i \in 1 .. n - 1 : r[i] = IF i < k THEN s[i] ELSE s[i + 1]
    <3>1. /\ SubSeq(s, 1, k - 1) \in Seq(ToSet(s)) /\ Len(SubSeq(s, 1, k - 1)) = k - 1
          /\ \A i \in 1 .. k - 1 : SubSeq(s, 1, k - 1)[i] = s[i]
      BY <1>1, <2>1
    <3>2. /\ SubSeq(s, k + 1, n) \in Seq(ToSet(s)) /\ Len(SubSeq(s, k + 1, n)) = n - k
          /\ \A i \in 1 .. n - k : SubSeq(s, k + 1, n)[i] = s[i + k]
      BY <1>1, <2>1
    <3> DEFINE u == SubSeq(s, 1, k - 1)
               v == SubSeq(s, k + 1, n)
    <3>3. IsSeq(u) /\ IsSeq(v)
      BY <3>1, <3>2, SeqIn
    <3> HIDE DEF u, v
    <3>4. /\ Len(u \o v) = Len(u) + Len(v)
          /\ \A i \in 1 .. Len(u) : (u \o v)[i] = u[i]
          /\ \A i \in 1 .. Len(v) : (u \o v)[Len(u) + i] = v[i]
      BY <3>3, SeqConcat
    <3>5. (u \o v) \in Seq(ToSet(s))
      BY <3>1, <3>2 DEF u, v
    <3>6. ASSUME NEW i \in 1 .. n - 1 PROVE (u \o v)[i] = IF i < k THEN s[i] ELSE s[i + 1]
      <4>1. CASE i < k
        <5>1. i \in 1 .. k - 1
          BY <2>1, <4>1
        <5> QED BY <3>1, <3>4, <4>1, <5>1 DEF u
      <4>2. CASE ~(i < k)
        <5> DEFINE j == i - (k - 1)
        <5>1. j \in 1 .. n - k /\ (k - 1) + j = i /\ j + k = i + 1
          BY <1>1, <2>1, <4>2
        <5> HIDE DEF j
        <5>2. (u \o v)[(k - 1) + j] = v[j] /\ v[j] = s[j + k]
          BY <3>1, <3>2, <3>4, <5>1 DEF u, v
        <5> QED BY <4>2, <5>1, <5>2
      <4> QED BY <4>1, <4>2
    <3>7. r = u \o v
      BY <2>2 DEF u, v
    <3>8. Len(u) = k - 1 /\ Len(v) = n - k
      BY <3>1, <3>2 DEF u, v
    <3>9. Len(u \o v) = n - 1
      BY <1>1, <2>1, <3>4, <3>8
    <3> HIDE DEF r
    <3> QED BY <3>5, <3>6, <3>7, <3>9
  <2> HIDE DEF r
  <2>4. IsSeq(r)
    BY <2>3, SeqIn
  <2>5. Distinct(r)
    BY <1>1, <2>1, <2>3 DEF Distinct
  <2>6. ASSUME NEW x
        PROVE  (\E i \in 1 .. n - 1 : r[i] = x) <=> x # e /\ \E i \in 1 .. n : s[i] = x
    <3>1. ASSUME NEW i \in 1 .. n - 1 PROVE r[i] # e /\ \E j \in 1 .. n : s[j] = r[i]
      <4>1. i \in 1 .. n /\ i + 1 \in 1 .. n /\ (i < k => i # k) /\ (~(i < k) => i + 1 # k)
        BY <1>1, <2>1
      <4> QED BY <2>1, <2>3, <4>1 DEF Distinct
    <3>2. ASSUME NEW i \in 1 .. n, s[i] # e PROVE \E j \in 1 .. n - 1 : r[j] = s[i]
      <4>1. CASE i < k
        <5>1. i \in 1 .. n - 1
          BY <1>1, <2>1, <4>1
        <5> QED BY <2>3, <4>1, <5>1
      <4>2. CASE ~(i < k)
        <5>1. i # k /\ i - 1 \in 1 .. n - 1 /\ ~(i - 1 < k) /\ (i - 1) + 1 = i
          BY <1>1, <2>1, <3>2, <4>2
        <5>2. r[i - 1] = s[i]
          BY <2>3, <5>1
        <5> QED BY <5>1, <5>2
      <4> QED BY <4>1, <4>2
    <3> QED BY <3>1, <3>2
  <2>7. \A x : x \in ToSet(r) <=> \E i \in 1 .. n - 1 : r[i] = x
    BY <2>3, <2>4, InSeq
  <2>8. ToSet(r) = ToSet(s) \ {e}
    BY <1>2, <2>6, <2>7
  <2> QED BY <2>4, <2>5, <2>8 DEF r
<1> QED BY <1>3, <1>4
-----------------------------------------------------------------------------
(* What the user does to the dashboard leaves its verdicts alone.          *)
Fields == {"units", "log", "queued", "status", "base", "live", "inflight", "done",
           "sel", "follow", "focus", "cur", "open", "confirm", "liveIdx", "failed"}
IsDash(d) == Fields \subseteq DOMAIN d
Same(d, e) ==
    /\ IsDash(e) /\ e.units = d.units /\ e.log = d.log /\ e.queued = d.queued
    /\ e.status = d.status /\ e.base = d.base /\ e.live = d.live
    /\ e.inflight = d.inflight /\ e.done = d.done

\* Same is transitive.
LEMMA SameTrans ==
    ASSUME NEW d, NEW e, Same(d, e), NEW g, Same(e, g)
    PROVE  Same(d, g)
BY DEF Same

\* What is the same as a dashboard is one.
LEMMA SameIsDash == ASSUME NEW d, NEW e, Same(d, e) PROVE IsDash(e)
BY DEF Same

\* Cursors, folds and the confirmation are no part of Same.
LEMMA SameEdits ==
    ASSUME NEW d, IsDash(d)
    PROVE  /\ Same(d, d)
           /\ \A x : Same(d, [d EXCEPT !.sel = x]) /\ Same(d, [d EXCEPT !.follow = x])
           /\ \A x : Same(d, [d EXCEPT !.cur = x]) /\ Same(d, [d EXCEPT !.open = x])
           /\ \A x : Same(d, [d EXCEPT !.focus = x]) /\ Same(d, [d EXCEPT !.confirm = x])
           /\ \A x, y : Same(d, [d EXCEPT !.sel = x, !.follow = y])
           /\ \A x, y : Same(d, [d EXCEPT !.open = x, !.cur = y])
           /\ \A x, y, z : Same(d, [d EXCEPT !.focus = x, !.cur = y, !.open = z])
<1>1. Same(d, d)
  BY DEF Same
<1>2. \A x : Same(d, [d EXCEPT !.sel = x]) /\ Same(d, [d EXCEPT !.follow = x])
  BY DEF Same, IsDash, Fields
<1>3. \A x : Same(d, [d EXCEPT !.cur = x]) /\ Same(d, [d EXCEPT !.open = x])
  BY DEF Same, IsDash, Fields
<1>4. \A x : Same(d, [d EXCEPT !.focus = x]) /\ Same(d, [d EXCEPT !.confirm = x])
  BY DEF Same, IsDash, Fields
<1>5. \A x, y : Same(d, [d EXCEPT !.sel = x, !.follow = y])
  BY DEF Same, IsDash, Fields
<1>6. \A x, y : Same(d, [d EXCEPT !.open = x, !.cur = y])
  BY DEF Same, IsDash, Fields
<1>7. \A x, y, z : Same(d, [d EXCEPT !.focus = x, !.cur = y, !.open = z])
  BY DEF Same, IsDash, Fields
<1> QED BY <1>1, <1>2, <1>3, <1>4, <1>5, <1>6, <1>7

\* Moving through the tree and the runs pane changes no verdict.
LEMMA SameMoves ==
    ASSUME NEW d, IsDash(d)
    PROVE  /\ \A open : Same(d, Reopen(d, open)) /\ Same(d, SyncExecToSel(d, open))
           /\ \A open, n : Same(d, SelectNode(d, open, n))
           /\ \A i : Same(d, SelectRun(d, i)) /\ Same(d, MoveRun(d, i)) /\ Same(d, ClickRun(d, i))
           /\ \A n : /\ Same(d, SelectCase(d, n)) /\ Same(d, SyncSelFromExec(d, n))
                     /\ Same(d, Expand(d, n)) /\ Same(d, Collapse(d, n))
           /\ \A nodes, k : Same(d, MoveExec(d, nodes, k))
           /\ Same(d, OnLive(d)) /\ Same(d, ResumeFollow(d)) /\ Same(d, FollowAdvance(d))
           /\ Same(d, Follow(d))
<1>1. \A open : Same(d, Reopen(d, open))
  BY SameEdits DEF Reopen
<1>2. \A open : Same(d, SyncExecToSel(d, open))
  BY SameEdits DEF SyncExecToSel
<1>3. \A open, n : Same(d, SelectNode(d, open, n))
  BY <1>1, SameEdits DEF SelectNode
<1>4. \A i : Same(d, SelectRun(d, i)) /\ Same(d, MoveRun(d, i)) /\ Same(d, ClickRun(d, i))
  BY SameEdits DEF SelectRun, MoveRun, ClickRun
<1>5. \A n : Same(d, SelectCase(d, n)) /\ Same(d, SyncSelFromExec(d, n))
  BY <1>4, SameEdits DEF SelectCase, SyncSelFromExec
<1>6. \A n : Same(d, Expand(d, n)) /\ Same(d, Collapse(d, n))
  BY <1>1, <1>3, SameEdits DEF Expand, Collapse
<1>7. \A nodes, k : Same(d, MoveExec(d, nodes, k))
  BY SameEdits, Zenon DEF MoveExec
<1>8. Same(d, OnLive(d)) /\ Same(OnLive(d), SyncExecToSel(OnLive(d), d.open))
  <2>1. Same(d, OnLive(d))
    BY SameEdits DEF OnLive
  <2>2. IsDash(OnLive(d))
    BY <2>1 DEF Same
  <2> QED BY <2>1, <2>2, SameEdits DEF SyncExecToSel
<1>9. Same(d, ResumeFollow(d))
  BY <1>8, SameTrans DEF ResumeFollow
<1>10. Same(d, FollowAdvance(d))
  BY <1>9, SameEdits DEF FollowAdvance
<1>11. Same(d, Follow(d))
  <2> DEFINE e == [d EXCEPT !.follow = TRUE]
  <2>1. Same(d, e) /\ IsDash(e)
    <3>1. Same(d, e)
      BY SameEdits
    <3> QED BY <3>1, SameIsDash
  <2> HIDE DEF e
  <2>2. Same(e, OnLive(e))
    BY <2>1, SameEdits DEF OnLive
  <2>3. Same(OnLive(e), SyncExecToSel(OnLive(e), e.open))
    <3> DEFINE g == OnLive(e)
    <3>1. IsDash(g)
      BY <2>2, SameIsDash
    <3> HIDE DEF g
    <3>2. \A open : Same(g, SyncExecToSel(g, open))
      BY <3>1, SameEdits DEF SyncExecToSel
    <3> QED BY <3>2 DEF g
  <2>4. Same(e, ResumeFollow(e))
    BY <2>2, <2>3, SameTrans DEF ResumeFollow
  <2> QED BY <2>1, <2>4, SameTrans DEF Follow, e
<1> QED BY <1>1, <1>2, <1>3, <1>4, <1>5, <1>6, <1>7, <1>8, <1>9, <1>10, <1>11

\* Moving to another pane changes no verdict.
LEMMA SameFocus ==
    ASSUME NEW d, IsDash(d), NEW p
    PROVE  Same(d, SetFocus(d, p))
<1> DEFINE left == IF d.focus = "details" /\ p # "details" THEN OnLive(d) ELSE d
<1>1. Same(d, left) /\ IsDash(left)
  BY SameEdits, SameMoves DEF Same
<1> HIDE DEF left
<1>2. \A x, y, z : Same(left, [left EXCEPT !.focus = x, !.cur = y, !.open = z])
  BY <1>1, SameEdits
<1>3. \A open : Same(left, SyncExecToSel([left EXCEPT !.focus = p], open))
  <2> DEFINE e == [left EXCEPT !.focus = p]
  <2>1. Same(left, e) /\ IsDash(e)
    <3>1. Same(left, e)
      BY <1>1, SameEdits
    <3> QED BY <3>1, SameIsDash
  <2> HIDE DEF e
  <2>2. \A open : Same(e, SyncExecToSel(e, open))
    BY <2>1, SameMoves
  <2>3. \A open : Same(left, SyncExecToSel(e, open))
    BY <2>1, <2>2, SameTrans
  <2> QED BY <2>3 DEF e
<1>4. SetFocus(d, p) \in {left, SyncExecToSel([left EXCEPT !.focus = p], FollowOpen(left)),
                          [left EXCEPT !.focus = p, !.cur = 1, !.open = {}]}
  BY Zenon DEF SetFocus, left
<1>5. Same(left, SetFocus(d, p))
  <2>1. Same(left, left)
    BY <1>1, SameEdits
  <2>2. Same(left, [left EXCEPT !.focus = p, !.cur = 1, !.open = {}])
    BY <1>2, Zenon
  <2> QED BY <1>3, <1>4, <2>1, <2>2, Zenon
<1> QED BY <1>1, <1>5, SameTrans

\* A click changes no verdict.
LEMMA SameClicks ==
    ASSUME NEW d, IsDash(d)
    PROVE  /\ \A n : Same(d, OpenDetails(d, n)) /\ Same(d, Activate(d, n))
           /\ \A n, c : Same(d, ClickNode(d, n, c))
<1>1. \A n : Same(d, OpenDetails(d, n))
  <2> SUFFICES ASSUME NEW n PROVE Same(d, OpenDetails(d, n))
    OBVIOUS
  <2> DEFINE e == SetFocus(d, "details")
  <2>1. Same(d, e) /\ IsDash(e)
    BY SameFocus DEF Same
  <2> HIDE DEF e
  <2>2. \A x, y : Same(d, [e EXCEPT !.sel = x, !.follow = y])
    <3>1. \A x, y : Same(e, [e EXCEPT !.sel = x, !.follow = y])
      BY <2>1, SameEdits
    <3>2. \A g : Same(e, g) => Same(d, g)
      BY <2>1, SameTrans
    <3> QED BY <3>1, <3>2, Zenon
  <2> QED BY <2>2, SameEdits DEF OpenDetails, e
<1>2. \A n : Same(d, Activate(d, n))
  BY <1>1, SameMoves DEF Activate
<1>3. \A n, c : Same(d, ClickNode(d, n, c))
  <2> SUFFICES ASSUME NEW n, NEW c PROVE Same(d, ClickNode(d, n, c))
    OBVIOUS
  <2> DEFINE i == NodeIndex(d, d.open, n)
             e == [d EXCEPT !.cur = i]
             hit == IF i = 0 THEN d ELSE SelectCase(e, n)
             turned == SelectNode(d, IF c THEN d.open \cup {n} ELSE d.open \ {n}, n)
  <2>1. Same(d, e) /\ IsDash(e)
    <3>1. \A x : Same(d, [d EXCEPT !.cur = x])
      BY SameEdits
    <3>2. Same(d, e)
      BY <3>1, Zenon
    <3> QED BY <3>2, SameIsDash
  <2>2. Same(d, SelectCase(e, n))
    BY <2>1, SameMoves, SameTrans
  <2>3. Same(d, hit)
    BY <2>2, SameEdits
  <2>4. Same(d, turned)
    BY SameMoves
  <2> HIDE DEF hit, turned
  <2>5. ClickNode(d, n, c) = CASE IsRule(n) -> d [] IsCase(n) -> hit [] OTHER -> turned
    BY Zenon DEF ClickNode, hit, turned
  <2>6. ClickNode(d, n, c) \in {d, hit, turned}
    BY <2>5
  <2> QED BY <2>3, <2>4, <2>6, SameEdits
<1> QED BY <1>1, <1>2, <1>3

\* No key and no click changes a verdict.
LEMMA SameInputs ==
    ASSUME NEW d, IsDash(d), NEW nodes
    PROVE  \A e \in PaneInputs(d) \cup TreeInputs(d, nodes) : Same(d, e)
<1>1. \A e \in RunsKeys(d) : Same(d, e)
  BY SameMoves, SameFocus DEF RunsKeys
<1>2. \A e : Same(d, e) => Same(d, SyncSelFromExec(e, Cursor(e)))
  <2> SUFFICES ASSUME NEW e, Same(d, e) PROVE Same(d, SyncSelFromExec(e, Cursor(e)))
    OBVIOUS
  <2>1. IsDash(e)
    BY DEF Same
  <2> QED BY <2>1, SameMoves, SameTrans
<1>3. \A e \in ExecKeys(d, nodes) : Same(d, e)
  <2> DEFINE moves == {MoveExec(d, nodes, k) : k \in Steps}
                        \cup {[d EXCEPT !.cur = i] : i \in {1, OffRule(nodes, Len(nodes))}}
                        \cup {Expand(d, nodes[d.cur]), Collapse(d, nodes[d.cur])}
  <2>1. \A e \in moves : Same(d, e)
    <3>1. \A x : Same(d, [d EXCEPT !.cur = x])
      BY SameEdits
    <3>2. \A k : Same(d, MoveExec(d, nodes, k)) /\ Same(d, Expand(d, k)) /\ Same(d, Collapse(d, k))
      BY SameMoves
    <3> QED BY <3>1, <3>2, Zenon
  <2>2. ExecKeys(d, nodes) = {SyncSelFromExec(e, Cursor(e)) : e \in moves}
                               \cup {Activate(d, nodes[d.cur])}
    BY DEF ExecKeys
  <2> HIDE DEF moves
  <2> QED BY <1>2, <2>1, <2>2, SameClicks
<1>4. \A e \in Clicks(d) : Same(d, e)
  <2> DEFINE a == SetFocus(d, "runs")
             b == SetFocus(d, "exec")
  <2>1. Same(d, a) /\ Same(d, b) /\ IsDash(a) /\ IsDash(b)
    BY SameFocus DEF Same
  <2> HIDE DEF a, b
  <2>2. \A i : Same(d, ClickRun(a, i))
    BY <2>1, SameMoves, SameTrans
  <2>3. \A n, c : Same(d, ClickNode(b, n, c))
    BY <2>1, SameClicks, SameTrans
  <2>4. Clicks(d) = {ClickRun(e, i) : e \in {a}, i \in DOMAIN d.log}
                      \cup {ClickNode(e, n, n \notin OpenShown(d)) :
                               e \in {b}, n \in ToSet(Nodes(d, OpenShown(d)))}
    BY DEF Clicks, a, b
  <2> QED BY <2>2, <2>3, <2>4
<1>5. \A e \in Wheel(d, nodes) : Same(d, e)
  <2>1. \A n : Same(d, MoveRun(d, n)) /\ Same(d, MoveExec(d, nodes, n))
    BY SameMoves
  <2> QED BY <1>2, <2>1 DEF Wheel
<1>6. \A e \in PaneInputs(d) : Same(d, e)
  BY <1>1, <1>4, SameFocus, SameMoves DEF PaneInputs
<1>7. \A e \in TreeInputs(d, nodes) : Same(d, e)
  BY <1>3, <1>5 DEF TreeInputs
<1> QED BY <1>6, <1>7
-----------------------------------------------------------------------------
(* What the engine's events do to the dashboard.                           *)
LEMMA StartCaseTells ==
    ASSUME NEW d, IsDash(d), NEW row \in DOMAIN d.status, NEW b,
           IsSeq(d.inflight), Distinct(d.inflight)
    PROVE  LET e == StartCase(d, row, b)
           IN  /\ IsDash(e) /\ e.units = d.units /\ e.log = d.log /\ e.queued = d.queued
               /\ e.live = d.live /\ e.done = d.done
               /\ e.status = [d.status EXCEPT ![row] = "running"]
               /\ e.base = IF b THEN d.base \cup {row} ELSE d.base \ {row}
               /\ IsSeq(e.inflight) /\ Distinct(e.inflight)
               /\ ToSet(e.inflight) = ToSet(d.inflight) \cup {row}
<1> DEFINE i == Append(RemoveFirst(d.inflight, row), row)
           x == Index(d, row)
           g == [d EXCEPT !.status[row] = "running",
                          !.base = IF b THEN @ \cup {row} ELSE @ \ {row},
                          !.inflight = i, !.liveIdx = x]
<1>1. IsSeq(i) /\ Distinct(i) /\ ToSet(i) = ToSet(d.inflight) \cup {row}
  <2> DEFINE r == RemoveFirst(d.inflight, row)
  <2>1. IsSeq(r) /\ Distinct(r) /\ ToSet(r) = ToSet(d.inflight) \ {row}
    BY RemoveTells
  <2> HIDE DEF r
  <2>2. /\ IsSeq(Append(r, row)) /\ Distinct(Append(r, row))
        /\ ToSet(Append(r, row)) = ToSet(r) \cup {row}
    BY <2>1, AppendTells
  <2> QED BY <2>1, <2>2 DEF r
<1>2. StartCase(d, row, b) = FollowAdvance(g)
  BY Zenon DEF StartCase
<1> HIDE DEF i, x
<1>3. /\ DOMAIN g = DOMAIN d /\ g.units = d.units /\ g.log = d.log /\ g.queued = d.queued
      /\ g.live = d.live /\ g.done = d.done
      /\ g.status = [d.status EXCEPT ![row] = "running"]
      /\ g.base = IF b THEN d.base \cup {row} ELSE d.base \ {row}
      /\ g.inflight = i
  BY DEF IsDash, Fields
<1> HIDE DEF g
<1>4. Same(g, FollowAdvance(g))
  BY <1>3, SameMoves DEF IsDash
<1> QED BY <1>1, <1>2, <1>3, <1>4 DEF Same

\* What a finished case leaves on the dashboard (ItemDone).
LEMMA ItemDoneTells ==
    ASSUME NEW d, IsDash(d), NEW row \in DOMAIN d.status, NEW v,
           IsSeq(d.inflight), Distinct(d.inflight)
    PROVE  LET e == ItemDone(d, row, v)
           IN  /\ IsDash(e) /\ e.units = d.units /\ e.log = d.log /\ e.queued = d.queued
               /\ e.live = d.live \cup {row} /\ e.done = d.done
               /\ e.status = [d.status EXCEPT ![row] = v]
               /\ e.base = d.base \ {row}
               /\ IsSeq(e.inflight) /\ Distinct(e.inflight)
               /\ ToSet(e.inflight) = ToSet(d.inflight) \ {row}
<1> DEFINE i == RemoveFirst(d.inflight, row)
           g == [d EXCEPT !.status[row] = v, !.base = @ \ {row},
                          !.live = @ \cup {row}, !.inflight = i]
<1>1. IsSeq(i) /\ Distinct(i) /\ ToSet(i) = ToSet(d.inflight) \ {row}
  BY RemoveTells
<1>2. ItemDone(d, row, v) = g
  BY DEF ItemDone
<1> HIDE DEF i
<1>3. /\ DOMAIN g = DOMAIN d /\ g.units = d.units /\ g.log = d.log /\ g.queued = d.queued
      /\ g.live = d.live \cup {row} /\ g.done = d.done
      /\ g.status = [d.status EXCEPT ![row] = v]
      /\ g.base = d.base \ {row} /\ g.inflight = i
  BY DEF IsDash, Fields
<1> HIDE DEF g
<1> QED BY <1>1, <1>2, <1>3 DEF IsDash

\* What a unit that is only counted leaves on the dashboard (UnitCounted).
LEMMA UnitCountedTells ==
    ASSUME NEW d, IsDash(d), NEW row1
    PROVE  LET e == UnitCounted(d, row1)
               rows == (ToSet(UnitRows(UnitOf(d, row1))) \cap d.queued) \ d.live
           IN  /\ IsDash(e) /\ e.units = d.units /\ e.log = d.log /\ e.queued = d.queued
               /\ e.live = d.live \cup rows /\ e.done = d.done
               /\ DOMAIN e.status = DOMAIN d.status
               /\ \A row \in DOMAIN d.status :
                      e.status[row] = IF row \in rows /\ d.status[row] = "pending"
                                      THEN "count" ELSE d.status[row]
               /\ e.base = d.base /\ e.inflight = d.inflight
<1> DEFINE unit == ToSet(UnitRows(UnitOf(d, row1)))
           rows == (unit \cap d.queued) \ d.live
           s == [row \in DOMAIN d.status |->
                   IF row \in rows /\ d.status[row] = "pending" THEN "count" ELSE d.status[row]]
           g == [d EXCEPT !.live = @ \cup rows, !.status = s]
<1>1. UnitCounted(d, row1) = g
  BY DEF UnitCounted
<1>2. DOMAIN s = DOMAIN d.status /\ \A row \in DOMAIN d.status :
          s[row] = IF row \in rows /\ d.status[row] = "pending" THEN "count" ELSE d.status[row]
  OBVIOUS
<1> HIDE DEF unit, s
<1>3. /\ DOMAIN g = DOMAIN d /\ g.units = d.units /\ g.log = d.log /\ g.queued = d.queued
      /\ g.live = d.live \cup rows /\ g.done = d.done
      /\ g.status = s /\ g.base = d.base /\ g.inflight = d.inflight
  BY DEF IsDash, Fields
<1> HIDE DEF g, rows
<1>4. IsDash(g)
  BY <1>3 DEF IsDash
<1> QED BY <1>1, <1>2, <1>3, <1>4 DEF unit, rows

\* What the end of the run leaves on the dashboard (RunDone).
LEMMA RunDoneTells ==
    ASSUME NEW d, IsDash(d), NEW failed
    PROVE  LET e == RunDone(d, failed)
           IN  /\ IsDash(e) /\ e.units = d.units /\ e.log = d.log /\ e.queued = d.queued
               /\ e.status = d.status /\ e.base = d.base /\ e.live = d.live
               /\ e.inflight = d.inflight /\ e.done = TRUE
BY DEF RunDone, IsDash, Fields
-----------------------------------------------------------------------------
\* The dashboard as the program opens it: no row runs.
LEMMA NewDashboardTells ==
    ASSUME NEW q, NEW stored
    PROVE  LET d == NewDashboard(Build(q), stored)
           IN  /\ IsDash(d) /\ d.units = UnitsOf(q.models) /\ d.log = RowsOf(d.units)
               /\ d.queued = QueuedRows(q) /\ DOMAIN d.status = ToSet(d.log)
               /\ \A row \in ToSet(d.log) : d.status[row] # "running"
               /\ d.base = {} /\ d.live = {} /\ d.inflight = <<>> /\ d.done = FALSE
<1> DEFINE us == UnitsOf(q.models)
           log == RowsOf(us)
           queued == QueuedRows(q)
           s == [row \in ToSet(log) |-> IF stored[row] \in Verdicts THEN stored[row]
                                        ELSE IF row \in queued THEN "pending" ELSE "nodata"]
           d == [units |-> us, log |-> log, queued |-> queued, status |-> s,
                 base |-> {}, live |-> {}, inflight |-> <<>>, liveIdx |-> NoLive,
                 sel |-> 1, follow |-> TRUE, focus |-> "runs", cur |-> 1, open |-> {},
                 done |-> FALSE, failed |-> FALSE, confirm |-> FALSE]
<1>1. Build(q).units = us /\ Build(q).queued = queued
  BY DEF Build
<1> HIDE DEF us, queued
<1>2. NewDashboard(Build(q), stored) = d
  BY <1>1 DEF NewDashboard
<1>3. DOMAIN s = ToSet(log) /\ \A row \in ToSet(log) : s[row] # "running"
  BY DEF Verdicts
<1> HIDE DEF log, s
<1>4. /\ IsDash(d) /\ d.units = us /\ d.log = log /\ d.queued = queued /\ d.status = s
      /\ d.base = {} /\ d.live = {} /\ d.inflight = <<>> /\ d.done = FALSE
  BY DEF IsDash, Fields
<1> HIDE DEF d
<1> QED BY <1>2, <1>3, <1>4 DEF us, queued, log

-----------------------------------------------------------------------------
(* The invariant.                                                          *)
Busy == eng.base \cup eng.run
Left == ToSet(RowsOf(eng.todo))

OpenInv ==
    /\ start \in Starts /\ screen \in {"form", "dash"}
    /\ {"pc", "todo", "base", "run", "failed", "err"} \subseteq DOMAIN eng
    /\ eng.err = "none" \/ eng.todo = <<>>
    /\ ui \in {"starting", "checking"} => prog = "off" /\ screen = "form" /\ eng.pc = "select"
    /\ prog # "off" \/ screen = "dash" => Interactive
    /\ screen = "form" => link = "none" /\ (Interactive => eng.pc \in {"select", "unused"})
    /\ eng.pc \in {"select", "unused"} =>
           ran = <<>> /\ eng.todo = <<>> /\ eng.base = {} /\ eng.run = {} /\ eng.err = "none"

PlanInv ==
    /\ IsSeq(eng.todo) /\ \A u \in ToSet(eng.todo) : IsSeq(u.cases) /\ u.cases # <<>>
    /\ screen = "dash" =>
         /\ IsDash(dash) /\ IsSeq(request.models) /\ dash.units = UnitsOf(request.models)
         /\ dash.log = RowsOf(dash.units) /\ dash.queued = QueuedRows(request)
         /\ DOMAIN dash.status = ToSet(dash.log)

WorkInv ==
    eng.err = "none" =>
      /\ eng.base \cap eng.run = {} /\ Busy \cap DOMAIN ran = {}
      /\ Busy # {} => /\ eng.pc = "sweep" /\ eng.todo # <<>>
                      /\ Busy \subseteq UnitSet /\ UnitExecutes(Unit)
      /\ \A row \in DOMAIN ran : ran[row] \in Verdicts \cup {"none"}
      /\ screen = "dash" => DOMAIN ran \cup Left \subseteq dash.queued

LiveInv ==
    prog = "up" /\ screen = "dash" /\ eng.err = "none" =>
      /\ \A row \in ToSet(dash.log) : dash.status[row] = "running" <=> row \in Busy
      /\ dash.base = eng.base
      /\ IsSeq(dash.inflight) /\ Distinct(dash.inflight) /\ ToSet(dash.inflight) = Busy
      /\ \A row \in DOMAIN ran :
             ran[row] # "none" => row \in dash.live /\ dash.status[row] = ran[row]

RowsInv == OpenInv /\ PlanInv /\ WorkInv /\ LiveInv

\* No units have no rows.
LEMMA NoRows == /\ RowsOf(<<>>) = <<>> /\ DOMAIN <<>> = {}
                /\ IsSeq(<<>>) /\ ToSet(<<>>) = {} /\ Distinct(<<>>)
<1>1. IsSeq(<<>>) /\ Len(<<>>) = 0 /\ DOMAIN <<>> = {} /\ ToSet(<<>>) = {}
  BY SeqEmpty
<1>2. /\ IsSeq(RowsOf(<<>>))
      /\ \A row : row \in ToSet(RowsOf(<<>>)) <=> \E u \in ToSet(<<>>) : row \in UnitCases(u)
  BY <1>1, RowsOfTells
<1>3. ToSet(RowsOf(<<>>)) = {}
  BY <1>1, <1>2
<1>4. \A s : IsSeq(s) /\ ToSet(s) = {} => s = <<>>
  <2> SUFFICES ASSUME NEW s, s \in Seq({}) PROVE s = <<>>
    BY DEF IsSeq
  <2>1. Len(s) = 0
    OBVIOUS
  <2> QED BY <2>1
<1>5. Distinct(<<>>)
  BY <1>1 DEF Distinct
<1> QED BY <1>1, <1>2, <1>3, <1>4, <1>5

\* The queued rows are rows of the log.
LEMMA QueuedShown ==
    ASSUME NEW q, IsSeq(q.models)
    PROVE  QueuedRows(q) \subseteq ToSet(RowsOf(UnitsOf(q.models)))
BY PlanRows DEF QueuedRows

\* The models of a request are a sequence.
LEMMA PlanHasSeq == \A s, r : IsSeq(Request(s, r).models)
<1> SUFFICES ASSUME NEW s, NEW r PROVE IsSeq(Request(s, r).models)
  OBVIOUS
<1>1. Request(s, r).models = Only(ModelOrder, Enabled(s))
  BY DEF Request, EnabledModels
<1>2. IsSeq(ModelOrder)
  BY CatalogAssumption DEF IsSeq, Models
<1> QED BY <1>1, <1>2, OnlyTells

-----------------------------------------------------------------------------
\* The invariant holds before evolve does anything.
LEMMA RowsInit == Init => RowsInv
<1> SUFFICES ASSUME Init PROVE RowsInv
  OBVIOUS
<1> USE DEF Init
<1>1. /\ eng.pc = "select" /\ eng.todo = <<>> /\ eng.base = {} /\ eng.run = {} /\ eng.err = "none"
      /\ {"pc", "todo", "base", "run", "failed", "err"} \subseteq DOMAIN eng
  BY DEF EmptyEngine
<1>2. OpenInv
  BY <1>1 DEF OpenInv
<1>3. PlanInv
  BY <1>1, NoRows DEF PlanInv
<1>4. WorkInv
  BY <1>1, NoRows DEF WorkInv, Busy, Left
<1>5. LiveInv
  BY DEF LiveInv
<1> QED BY <1>2, <1>3, <1>4, <1>5 DEF RowsInv

-----------------------------------------------------------------------------
(* Steps that do not touch the engine and its rows.                        *)
Resting == UNCHANGED <<start, screen, request, eng, ran, dash>> /\ (prog' = prog \/ prog' # "up")

\* A step that leaves the engine and the dashboard alone keeps their invariants.
LEMMA RestKeeps ==
    ASSUME PlanInv, WorkInv, LiveInv, Resting
    PROVE  PlanInv' /\ WorkInv' /\ LiveInv'
<1> USE DEF Resting
<1>1. PlanInv'
  BY DEF PlanInv
<1>2. WorkInv'
  BY DEF WorkInv, Busy, Left, UnitSet, Unit, UnitExecutes
<1>3. LiveInv'
  BY DEF LiveInv, Busy
<1> QED BY <1>1, <1>2, <1>3
-----------------------------------------------------------------------------
(* The unit at hand and the ones behind it.                                *)
LEMMA HeadTail ==
    ASSUME NEW s, IsSeq(s), s # <<>>
    PROVE  /\ Head(s) \in ToSet(s) /\ IsSeq(Tail(s))
           /\ ToSet(s) = {Head(s)} \cup ToSet(Tail(s))
<1>1. Len(s) \in Nat /\ Len(s) # 0 /\ s \in Seq(ToSet(s))
  BY SeqDomain DEF IsSeq
<1>2. Head(s) = s[1] /\ Tail(s) \in Seq(ToSet(s)) /\ Len(Tail(s)) = Len(s) - 1
      /\ \A i \in 1 .. Len(s) - 1 : Tail(s)[i] = s[i + 1]
  BY <1>1
<1>3. IsSeq(Tail(s))
  BY <1>2, SeqIn
<1>4. \A x : x \in ToSet(s) <=> \E i \in 1 .. Len(s) : s[i] = x
  BY InSeq
<1>5. \A x : x \in ToSet(Tail(s)) <=> \E i \in 1 .. Len(s) - 1 : Tail(s)[i] = x
  <2> DEFINE t == Tail(s)
  <2>1. IsSeq(t) /\ Len(t) = Len(s) - 1
    BY <1>2, <1>3
  <2> HIDE DEF t
  <2>2. \A x : x \in ToSet(t) <=> \E i \in 1 .. Len(t) : t[i] = x
    BY <2>1, InSeq
  <2> QED BY <2>1, <2>2 DEF t
<1>6. \A i \in 1 .. Len(s) : i = 1 \/ (i - 1 \in 1 .. Len(s) - 1 /\ (i - 1) + 1 = i)
  BY <1>1
<1>7. ASSUME NEW x \in ToSet(s) PROVE x = Head(s) \/ x \in ToSet(Tail(s))
  <2>1. PICK i \in 1 .. Len(s) : s[i] = x
    BY <1>4
  <2>2. CASE i = 1
    BY <1>2, <2>1, <2>2
  <2>3. CASE i # 1
    <3>1. i - 1 \in 1 .. Len(s) - 1 /\ (i - 1) + 1 = i
      BY <1>6, <2>3
    <3>2. Tail(s)[i - 1] = x
      BY <1>2, <2>1, <3>1
    <3> QED BY <1>5, <3>1, <3>2
  <2> QED BY <2>2, <2>3
<1>8. Head(s) \in ToSet(s)
  BY <1>1, <1>2, <1>4
<1>9. \A i \in 1 .. Len(s) - 1 : i + 1 \in 1 .. Len(s)
  BY <1>1
<1>10. ASSUME NEW x \in ToSet(Tail(s)) PROVE x \in ToSet(s)
  BY <1>2, <1>4, <1>5, <1>9
<1> QED BY <1>3, <1>7, <1>8, <1>10

\* The unit at hand is left, and so are the ones behind it.
LEMMA UnitLeft ==
    ASSUME PlanInv, eng.todo # <<>>
    PROVE  /\ Left = UnitSet \cup ToSet(RowsOf(Tail(eng.todo)))
           /\ IsSeq(Tail(eng.todo)) /\ ToSet(Tail(eng.todo)) \subseteq ToSet(eng.todo)
           /\ UnitSet = UnitCases(Unit) /\ IsSeq(UnitRows(Unit)) /\ UnitRows(Unit) # <<>>
<1>1. IsSeq(eng.todo) /\ \A u \in ToSet(eng.todo) : IsSeq(u.cases) /\ u.cases # <<>>
  BY DEF PlanInv
<1>2. /\ Unit \in ToSet(eng.todo) /\ IsSeq(Tail(eng.todo))
      /\ ToSet(eng.todo) = {Unit} \cup ToSet(Tail(eng.todo))
  BY <1>1, HeadTail DEF Unit
<1>3. /\ UnitSet = UnitCases(Unit) /\ IsSeq(UnitRows(Unit)) /\ Len(UnitRows(Unit)) = Len(Unit.cases)
  BY <1>1, <1>2, UnitRowsTell DEF UnitSet
<1>4. Len(Unit.cases) # 0
  <2>1. Unit.cases # <<>> /\ IsSeq(Unit.cases)
    BY <1>1, <1>2
  <2> QED BY <2>1 DEF IsSeq
<1>5. \A row : row \in Left <=> \E u \in ToSet(eng.todo) : row \in UnitCases(u)
  BY <1>1, RowsOfTells DEF Left
<1>6. \A row : row \in ToSet(RowsOf(Tail(eng.todo)))
                  <=> \E u \in ToSet(Tail(eng.todo)) : row \in UnitCases(u)
  BY <1>1, <1>2, RowsOfTells
<1>7. Left = UnitCases(Unit) \cup ToSet(RowsOf(Tail(eng.todo)))
  BY <1>2, <1>5, <1>6
<1> QED BY <1>2, <1>3, <1>4, <1>7, SeqEmpty

\* The plan stays while the engine moves on through its units.
LEMMA PlanStays ==
    ASSUME PlanInv, screen' = screen, request' = request,
           \/ eng'.todo = eng.todo
           \/ eng'.todo = <<>>
           \/ eng.todo # <<>> /\ eng'.todo = Tail(eng.todo),
           screen = "dash" => /\ IsDash(dash') /\ dash'.units = dash.units
                              /\ dash'.log = dash.log /\ dash'.queued = dash.queued
                              /\ DOMAIN dash'.status = DOMAIN dash.status
    PROVE  PlanInv'
<1>1. IsSeq(eng'.todo) /\ ToSet(eng'.todo) \subseteq ToSet(eng.todo)
  <2>1. IsSeq(eng.todo)
    BY DEF PlanInv
  <2> QED BY <2>1, UnitLeft, NoRows
<1> QED BY <1>1 DEF PlanInv

\* An engine that sweeps goes on or stops.
LEMMA OpenStays ==
    ASSUME OpenInv, eng.pc = "sweep", eng'.pc \in {"sweep", "stopped"}, DOMAIN eng' = DOMAIN eng,
           eng'.err = "none" \/ eng'.todo = <<>>,
           UNCHANGED <<start, screen, link, prog, ui>>
    PROVE  OpenInv'
BY DEF OpenInv, Interactive

-----------------------------------------------------------------------------
\* The engine takes the plan off the link (runui.go).
LEMMA TakesKeeps == ASSUME RowsInv, EngineTakes PROVE RowsInv'
<1> USE DEF RowsInv, EngineTakes, user, host, shell
<1>1. /\ screen = "dash" /\ eng.pc = "select" /\ Busy = {} /\ eng.base = {} /\ eng.run = {}
      /\ ran = <<>> /\ eng.err = "none" /\ link = "full"
  BY DEF OpenInv, Busy
<1>2. /\ DOMAIN eng' = DOMAIN eng /\ eng'.pc = "sweep" /\ eng'.base = {} /\ eng'.run = {}
      /\ eng'.err = "none" /\ eng'.todo = EngineUnits(request, start.eval)
  BY <1>1 DEF OpenInv
<1>3. OpenInv'
  BY <1>1, <1>2 DEF OpenInv, Interactive
<1>4. IsSeq(request.models) /\ dash.queued = QueuedRows(request)
  BY <1>1 DEF PlanInv
<1>5. /\ IsSeq(eng'.todo) /\ \A u \in ToSet(eng'.todo) : IsSeq(u.cases) /\ u.cases # <<>>
      /\ Left' = {row \in QueuedRows(request) : EvalAllows(start.eval, row)}
  BY <1>2, <1>4, EngineRows DEF Left
<1>6. PlanInv'
  BY <1>5 DEF PlanInv
<1>7. Busy' = {}
  BY <1>2 DEF Busy
<1>8. WorkInv'
  BY <1>1, <1>2, <1>4, <1>5, <1>7, NoRows DEF WorkInv
<1>9. LiveInv'
  BY <1>1, <1>2, <1>7 DEF LiveInv
<1> QED BY <1>3, <1>6, <1>8, <1>9
-----------------------------------------------------------------------------
\* Every row the engine has or had is one the dashboard shows.
LEMMA Shown ==
    ASSUME PlanInv, WorkInv, screen = "dash", eng.err = "none"
    PROVE  /\ Left \cup DOMAIN ran \subseteq DOMAIN dash.status
           /\ DOMAIN dash.status = ToSet(dash.log) /\ IsDash(dash)
           /\ dash.queued \subseteq ToSet(dash.log)
<1>1. /\ IsDash(dash) /\ IsSeq(request.models) /\ dash.units = UnitsOf(request.models)
      /\ dash.log = RowsOf(dash.units) /\ dash.queued = QueuedRows(request)
      /\ DOMAIN dash.status = ToSet(dash.log)
  BY DEF PlanInv
<1>2. dash.queued \subseteq ToSet(dash.log)
  BY <1>1, QueuedShown
<1>3. DOMAIN ran \cup Left \subseteq dash.queued
  BY DEF WorkInv
<1> QED BY <1>1, <1>2, <1>3

\* A row at work is one of the unit at hand.
LEMMA BusyRows ==
    ASSUME WorkInv, eng.err = "none", Running
    PROVE  /\ Busy \subseteq UnitSet /\ eng.base \cap eng.run = {} /\ Busy \cap DOMAIN ran = {}
           /\ eng.pc = "sweep" /\ eng.todo # <<>> /\ UnitExecutes(Unit)
<1>1. CASE Busy = {}
  BY <1>1 DEF WorkInv, Running, Sweeping
<1>2. CASE Busy # {}
  BY <1>2 DEF WorkInv, Running, Sweeping
<1> QED BY <1>1, <1>2

\* An engine with work has no error.
LEMMA RunningIsWell ==
    ASSUME OpenInv, Running
    PROVE  eng.err = "none" /\ eng.pc = "sweep" /\ eng.todo # <<>> /\ UnitExecutes(Unit)
BY DEF OpenInv, Running, Sweeping

\* A started row: a baseline, or the case itself.
LEMMA StartsKeep ==
    ASSUME RowsInv, Running, NEW row \in UnitSet, row \notin DOMAIN ran, NEW b \in BOOLEAN,
           DOMAIN eng' = DOMAIN eng, eng'.pc = eng.pc, eng'.todo = eng.todo, eng'.err = eng.err,
           eng'.base = (IF b THEN eng.base \cup {row} ELSE eng.base \ {row}),
           eng'.run = (IF b THEN eng.run ELSE eng.run \cup {row}),
           b => row \notin eng.run,
           Tell(StartCase(dash, row, b)),
           UNCHANGED <<start, user, link, ran, host>>
    PROVE  RowsInv'
<1> USE DEF RowsInv, user, host, shell
<1>1. eng.pc = "sweep" /\ eng.todo # <<>> /\ UnitExecutes(Unit) /\ eng.err = "none"
  BY RunningIsWell
<1>2. OpenInv'
  BY <1>1, OpenStays
<1>3. /\ Left = UnitSet \cup ToSet(RowsOf(Tail(eng.todo)))
  BY <1>1, UnitLeft
<1>4. Busy' = Busy \cup {row}
  BY DEF Busy
<1>5. /\ Busy \subseteq UnitSet /\ eng.base \cap eng.run = {} /\ Busy \cap DOMAIN ran = {}
  BY <1>1, BusyRows
<1>6. Left' = Left /\ UnitSet' = UnitSet /\ (UnitExecutes(Unit))'
  BY <1>1 DEF Left, UnitSet, Unit, UnitExecutes
<1>7. CASE screen = "dash" /\ prog = "up"
  <2> DEFINE e == StartCase(dash, row, b)
  <2>1. /\ Left \cup DOMAIN ran \subseteq DOMAIN dash.status
        /\ DOMAIN dash.status = ToSet(dash.log) /\ IsDash(dash)
    BY <1>1, <1>7, Shown
  <2>2. row \in DOMAIN dash.status
    BY <1>3, <2>1
  <2>3. /\ \A x \in ToSet(dash.log) : dash.status[x] = "running" <=> x \in Busy
        /\ dash.base = eng.base
        /\ IsSeq(dash.inflight) /\ Distinct(dash.inflight) /\ ToSet(dash.inflight) = Busy
        /\ \A x \in DOMAIN ran :
               ran[x] # "none" => x \in dash.live /\ dash.status[x] = ran[x]
    BY <1>1, <1>7 DEF LiveInv
  <2>4. /\ IsDash(e) /\ e.units = dash.units /\ e.log = dash.log /\ e.queued = dash.queued
        /\ e.live = dash.live
        /\ e.status = [dash.status EXCEPT ![row] = "running"]
        /\ e.base = IF b THEN dash.base \cup {row} ELSE dash.base \ {row}
        /\ IsSeq(e.inflight) /\ Distinct(e.inflight)
        /\ ToSet(e.inflight) = ToSet(dash.inflight) \cup {row}
    BY <2>1, <2>2, <2>3, StartCaseTells
  <2>5. dash' = e
    BY <1>7 DEF Tell
  <2> HIDE DEF e
  <2>6. PlanInv'
    BY <2>4, <2>5, PlanStays
  <2>7. WorkInv'
    BY <1>1, <1>3, <1>4, <1>5, <1>6, <2>4, <2>5 DEF WorkInv
  <2>8. LiveInv'
    BY <1>4, <2>1, <2>2, <2>3, <2>4, <2>5 DEF LiveInv
  <2> QED BY <1>2, <2>6, <2>7, <2>8
<1>8. CASE ~(screen = "dash" /\ prog = "up")
  <2>0. screen = "dash" => dash' = dash
    BY <1>8 DEF Tell
  <2>1. PlanInv'
    BY <2>0, PlanStays DEF PlanInv
  <2>2. WorkInv'
    BY <1>1, <1>3, <1>4, <1>5, <1>6, <2>0 DEF WorkInv
  <2>3. LiveInv'
    BY <1>8 DEF LiveInv
  <2> QED BY <1>2, <2>1, <2>2, <2>3
<1> QED BY <1>7, <1>8

\* A baseline starts.
LEMMA StartBaselineKeeps == ASSUME RowsInv, StartBaseline PROVE RowsInv'
<1>1. PICK row \in Waiting : /\ eng' = [eng EXCEPT !.base = @ \cup {row}]
                             /\ Tell(StartCase(dash, row, TRUE))
  BY DEF StartBaseline
<1>2. row \in UnitSet /\ row \notin DOMAIN ran /\ row \notin eng.run
  BY DEF Waiting
<1>3. /\ DOMAIN eng' = DOMAIN eng /\ eng'.pc = eng.pc /\ eng'.todo = eng.todo
      /\ eng'.err = eng.err /\ eng'.base = eng.base \cup {row} /\ eng'.run = eng.run
  BY <1>1 DEF RowsInv, OpenInv
<1>4. Running /\ UNCHANGED <<start, user, link, ran, host>>
  BY DEF StartBaseline
<1> QED BY <1>1, <1>2, <1>3, <1>4, StartsKeep

\* A case starts.
LEMMA StartItemKeeps == ASSUME RowsInv, StartItem PROVE RowsInv'
<1>1. PICK row \in Waiting : /\ eng' = [eng EXCEPT !.run = @ \cup {row}]
                             /\ Tell(StartCase(dash, row, FALSE))
  BY DEF StartItem
<1>2. row \in UnitSet /\ row \notin DOMAIN ran /\ row \notin eng.base
  BY DEF Waiting
<1>3. /\ DOMAIN eng' = DOMAIN eng /\ eng'.pc = eng.pc /\ eng'.todo = eng.todo
      /\ eng'.err = eng.err /\ eng'.base = eng.base \ {row} /\ eng'.run = eng.run \cup {row}
  BY <1>1, <1>2 DEF RowsInv, OpenInv
<1>4. Running /\ UNCHANGED <<start, user, link, ran, host>>
  BY DEF StartItem
<1> QED BY <1>1, <1>2, <1>3, <1>4, StartsKeep

\* A baseline ends, and its case may start.
LEMMA FinishBaselineKeeps == ASSUME RowsInv, FinishBaseline PROVE RowsInv'
<1>1. PICK row \in eng.base : /\ eng' = [eng EXCEPT !.base = @ \ {row}, !.run = @ \cup {row}]
                              /\ Tell(StartCase(dash, row, FALSE))
  BY DEF FinishBaseline
<1>2. Running /\ UNCHANGED <<start, user, link, ran, host>>
  BY DEF FinishBaseline
<1>3. row \in UnitSet /\ row \notin DOMAIN ran
  <2>1. Busy \subseteq UnitSet /\ Busy \cap DOMAIN ran = {}
    BY <1>2, RunningIsWell, BusyRows DEF RowsInv
  <2> QED BY <2>1 DEF Busy
<1>4. /\ DOMAIN eng' = DOMAIN eng /\ eng'.pc = eng.pc /\ eng'.todo = eng.todo
      /\ eng'.err = eng.err /\ eng'.base = eng.base \ {row} /\ eng'.run = eng.run \cup {row}
  BY <1>1 DEF RowsInv, OpenInv
<1> QED BY <1>1, <1>2, <1>3, <1>4, StartsKeep
-----------------------------------------------------------------------------
\* A result more.
LEMMA RanMore ==
    ASSUME NEW r, NEW rows, NEW v
    PROVE  /\ DOMAIN Adding(r, rows, v) = DOMAIN r \cup rows
           /\ \A x \in DOMAIN r : Adding(r, rows, v)[x] = r[x]
           /\ \A x \in rows \ DOMAIN r : Adding(r, rows, v)[x] = v
BY DEF Adding

\* A row at work is shown as running.
LEMMA RunningShown ==
    ASSUME RowsInv, Running, screen = "dash", prog = "up"
    PROVE  /\ UnitSet \subseteq DOMAIN dash.status /\ DOMAIN ran \subseteq DOMAIN dash.status
           /\ DOMAIN dash.status = ToSet(dash.log) /\ IsDash(dash)
           /\ \A x \in ToSet(dash.log) : dash.status[x] = "running" <=> x \in Busy
           /\ dash.base = eng.base
           /\ IsSeq(dash.inflight) /\ Distinct(dash.inflight) /\ ToSet(dash.inflight) = Busy
           /\ \A x \in DOMAIN ran :
                  ran[x] # "none" => x \in dash.live /\ dash.status[x] = ran[x]
<1> USE DEF RowsInv
<1>1. eng.err = "none" /\ eng.todo # <<>>
  BY RunningIsWell
<1>2. /\ Left \cup DOMAIN ran \subseteq DOMAIN dash.status
      /\ DOMAIN dash.status = ToSet(dash.log) /\ IsDash(dash)
  BY <1>1, Shown
<1>3. UnitSet \subseteq Left
  BY <1>1, UnitLeft
<1>4. /\ \A x \in ToSet(dash.log) : dash.status[x] = "running" <=> x \in Busy
      /\ dash.base = eng.base
      /\ IsSeq(dash.inflight) /\ Distinct(dash.inflight) /\ ToSet(dash.inflight) = Busy
      /\ \A x \in DOMAIN ran :
             ran[x] # "none" => x \in dash.live /\ dash.status[x] = ran[x]
  BY <1>1 DEF LiveInv
<1> QED BY <1>2, <1>3, <1>4

\* A case ends with a verdict.
LEMMA FinishItemKeeps == ASSUME RowsInv, FinishItem PROVE RowsInv'
<1> USE DEF RowsInv, user, host, shell
<1>0. PICK row \in eng.run : \E v \in Outcomes(row) :
          /\ ran' = Adding(ran, {row}, v)
          /\ eng' = [eng EXCEPT !.run = @ \ {row}]
          /\ Tell(ItemDone(dash, row, v))
  BY DEF FinishItem
<1>1. PICK v \in Outcomes(row) :
          /\ ran' = Adding(ran, {row}, v)
          /\ eng' = [eng EXCEPT !.run = @ \ {row}]
          /\ Tell(ItemDone(dash, row, v))
  BY <1>0
<1>2. Running /\ UNCHANGED <<start, user, link, host>>
  BY DEF FinishItem
<1>3. eng.pc = "sweep" /\ eng.todo # <<>> /\ UnitExecutes(Unit) /\ eng.err = "none"
  BY <1>2, RunningIsWell
<1>4. v \in Verdicts /\ v # "none" /\ v # "running"
  <2>1. start.outcomes \subseteq Verdicts
    BY StartsAssumption DEF OpenInv
  <2> QED BY <2>1 DEF Outcomes, Verdicts
<1>5. /\ DOMAIN eng' = DOMAIN eng /\ eng'.pc = eng.pc /\ eng'.todo = eng.todo
      /\ eng'.err = eng.err /\ eng'.base = eng.base /\ eng'.run = eng.run \ {row}
  BY <1>1 DEF OpenInv
<1>6. OpenInv'
  BY <1>2, <1>3, <1>5, OpenStays
<1>7. Busy \subseteq UnitSet /\ eng.base \cap eng.run = {} /\ Busy \cap DOMAIN ran = {}
  BY <1>2, <1>3, BusyRows
<1>8. /\ Busy' = Busy \ {row} /\ row \in Busy /\ row \notin eng.base
      /\ row \in UnitSet /\ row \notin DOMAIN ran
  BY <1>5, <1>7 DEF Busy
<1>9. /\ DOMAIN ran' = DOMAIN ran \cup {row} /\ ran'[row] = v
      /\ \A x \in DOMAIN ran : ran'[x] = ran[x]
  BY <1>1, <1>8 DEF Adding
<1>10. Left' = Left /\ UnitSet' = UnitSet /\ (UnitExecutes(Unit))'
  BY <1>2, <1>3, <1>5 DEF Left, UnitSet, Unit, UnitExecutes
<1>11. UnitSet \subseteq Left
  BY <1>3, UnitLeft
<1>12. ASSUME PlanInv', screen = "dash" => dash'.queued = dash.queued PROVE WorkInv'
  <2>1. /\ eng'.base \cap eng'.run = {} /\ Busy' \cap DOMAIN ran' = {}
    BY <1>5, <1>7, <1>8, <1>9
  <2>2. Busy' # {} => /\ eng'.pc = "sweep" /\ eng'.todo # <<>>
                      /\ Busy' \subseteq UnitSet' /\ (UnitExecutes(Unit))'
    BY <1>3, <1>5, <1>7, <1>8, <1>10
  <2>3. \A x \in DOMAIN ran' : ran'[x] \in Verdicts \cup {"none"}
    BY <1>3, <1>4, <1>9 DEF WorkInv
  <2>4. screen' = "dash" => DOMAIN ran' \cup Left' \subseteq dash'.queued
    BY <1>2, <1>3, <1>8, <1>9, <1>10, <1>11, <1>12 DEF WorkInv
  <2> QED BY <2>1, <2>2, <2>3, <2>4 DEF WorkInv
<1>13. CASE screen = "dash" /\ prog = "up"
  <2> DEFINE e == ItemDone(dash, row, v)
  <2>1. /\ UnitSet \subseteq DOMAIN dash.status /\ DOMAIN ran \subseteq DOMAIN dash.status
        /\ DOMAIN dash.status = ToSet(dash.log) /\ IsDash(dash)
        /\ \A x \in ToSet(dash.log) : dash.status[x] = "running" <=> x \in Busy
        /\ dash.base = eng.base
        /\ IsSeq(dash.inflight) /\ Distinct(dash.inflight) /\ ToSet(dash.inflight) = Busy
        /\ \A x \in DOMAIN ran :
               ran[x] # "none" => x \in dash.live /\ dash.status[x] = ran[x]
    BY <1>2, <1>13, RunningShown
  <2>2. row \in DOMAIN dash.status
    BY <1>8, <2>1
  <2>3. /\ IsDash(e) /\ e.units = dash.units /\ e.log = dash.log /\ e.queued = dash.queued
        /\ e.live = dash.live \cup {row}
        /\ e.status = [dash.status EXCEPT ![row] = v]
        /\ e.base = dash.base \ {row}
        /\ IsSeq(e.inflight) /\ Distinct(e.inflight)
        /\ ToSet(e.inflight) = ToSet(dash.inflight) \ {row}
    BY <2>1, <2>2, ItemDoneTells
  <2>4. dash' = e
    BY <1>1, <1>13 DEF Tell
  <2> HIDE DEF e
  <2>5. PlanInv'
    BY <1>2, <1>5, <2>3, <2>4, PlanStays
  <2>6. WorkInv'
    BY <1>12, <2>3, <2>4, <2>5
  <2>7. \A x \in ToSet(dash'.log) : dash'.status[x] = "running" <=> x \in Busy'
    BY <1>4, <1>8, <2>1, <2>3, <2>4
  <2>8. \A x \in DOMAIN ran' : ran'[x] # "none" => x \in dash'.live /\ dash'.status[x] = ran'[x]
    BY <1>8, <1>9, <2>1, <2>2, <2>3, <2>4
  <2>9. dash'.base = eng'.base /\ ToSet(dash'.inflight) = Busy'
    <3>1. eng.base \ {row} = eng.base
      BY <1>8
    <3> QED BY <1>5, <1>8, <2>1, <2>3, <2>4, <3>1
  <2>10. LiveInv'
    BY <2>3, <2>4, <2>7, <2>8, <2>9 DEF LiveInv
  <2> QED BY <1>6, <2>5, <2>6, <2>10
<1>14. CASE ~(screen = "dash" /\ prog = "up")
  <2>0. screen = "dash" => dash' = dash
    BY <1>1, <1>14 DEF Tell
  <2>1. PlanInv'
    BY <1>2, <1>5, <2>0, PlanStays DEF PlanInv
  <2>2. WorkInv'
    BY <1>12, <2>0, <2>1
  <2>3. LiveInv'
    BY <1>2, <1>14 DEF LiveInv
  <2> QED BY <1>6, <2>1, <2>2, <2>3
<1> QED BY <1>13, <1>14

\* A unit's results are saved and the next unit is taken.
LEMMA SaveUnitKeeps == ASSUME RowsInv, SaveUnit PROVE RowsInv'
<1> USE DEF RowsInv, user, host, shell
<1>1. /\ Running /\ UnitSet \subseteq DOMAIN ran
      /\ UNCHANGED <<start, user, link, dash, ran, host>>
  BY DEF SaveUnit
<1>2. eng' = [eng EXCEPT !.todo = Tail(@), !.failed = @ \/ UnitFailed]
  BY DEF SaveUnit
<1>3. eng.pc = "sweep" /\ eng.todo # <<>> /\ eng.err = "none"
  BY <1>1, RunningIsWell
<1>4. /\ DOMAIN eng' = DOMAIN eng /\ eng'.pc = eng.pc /\ eng'.todo = Tail(eng.todo)
      /\ eng'.err = eng.err /\ eng'.base = eng.base /\ eng'.run = eng.run
  BY <1>2 DEF OpenInv
<1>5. OpenInv'
  BY <1>1, <1>3, <1>4, OpenStays
<1>6. Busy \subseteq UnitSet /\ Busy \cap DOMAIN ran = {}
  BY <1>1, <1>3, BusyRows
<1>7. Busy = {} /\ Busy' = {} /\ eng'.base = {} /\ eng'.run = {}
  BY <1>1, <1>4, <1>6 DEF Busy
<1>8. Left' \subseteq Left
  BY <1>3, <1>4, UnitLeft DEF Left
<1>9. PlanInv'
  BY <1>1, <1>3, <1>4, PlanStays DEF PlanInv
<1>10. WorkInv'
  BY <1>1, <1>3, <1>4, <1>7, <1>8 DEF WorkInv
<1>11. LiveInv'
  BY <1>1, <1>3, <1>4, <1>7 DEF LiveInv
<1> QED BY <1>5, <1>9, <1>10, <1>11
-----------------------------------------------------------------------------
\* A unit that only counts tokens is passed over without a verdict.
LEMMA CountUnitKeeps == ASSUME RowsInv, CountUnit PROVE RowsInv'
<1> USE DEF RowsInv, user, host, shell
<1>1. /\ Sweeping /\ ~UnitExecutes(Unit) /\ UNCHANGED <<start, user, link, host>>
      /\ ran' = Adding(ran, UnitSet, "none")
      /\ eng' = [eng EXCEPT !.todo = Tail(@)]
      /\ Tell(UnitCounted(dash, Head(UnitRows(Unit))))
  BY DEF CountUnit
<1>2. eng.pc = "sweep" /\ eng.todo # <<>> /\ eng.err = "none"
  BY <1>1 DEF Sweeping, OpenInv
<1>3. /\ DOMAIN eng' = DOMAIN eng /\ eng'.pc = eng.pc /\ eng'.todo = Tail(eng.todo)
      /\ eng'.err = eng.err /\ eng'.base = eng.base /\ eng'.run = eng.run
  BY <1>1 DEF OpenInv
<1>4. OpenInv'
  BY <1>1, <1>2, <1>3, OpenStays
<1>5. Busy = {} /\ Busy' = {} /\ eng'.base = {} /\ eng'.run = {} /\ eng.base = {}
  <2>1. Busy = {}
    BY <1>1, <1>2 DEF WorkInv
  <2> QED BY <1>3, <2>1 DEF Busy
<1>6. Left = UnitSet \cup Left'
  BY <1>2, <1>3, UnitLeft DEF Left
<1>7. /\ DOMAIN ran' = DOMAIN ran \cup UnitSet
      /\ \A x \in DOMAIN ran : ran'[x] = ran[x]
      /\ \A x \in UnitSet \ DOMAIN ran : ran'[x] = "none"
  BY <1>1 DEF Adding
<1>8. ASSUME screen = "dash" => dash'.queued = dash.queued PROVE WorkInv'
  BY <1>1, <1>2, <1>3, <1>5, <1>6, <1>7, <1>8 DEF WorkInv
<1>9. CASE screen = "dash" /\ prog = "up"
  <2> DEFINE row1 == Head(UnitRows(Unit))
             e == UnitCounted(dash, row1)
             rows == (ToSet(UnitRows(UnitOf(dash, row1))) \cap dash.queued) \ dash.live
  <2>1. /\ Left \cup DOMAIN ran \subseteq DOMAIN dash.status
        /\ DOMAIN dash.status = ToSet(dash.log) /\ IsDash(dash)
    BY <1>2, <1>9, Shown
  <2>2. /\ \A x \in ToSet(dash.log) : dash.status[x] = "running" <=> x \in Busy
        /\ dash.base = eng.base
        /\ IsSeq(dash.inflight) /\ Distinct(dash.inflight) /\ ToSet(dash.inflight) = Busy
        /\ \A x \in DOMAIN ran :
               ran[x] # "none" => x \in dash.live /\ dash.status[x] = ran[x]
    BY <1>2, <1>9 DEF LiveInv
  <2>3. /\ IsDash(e) /\ e.units = dash.units /\ e.log = dash.log /\ e.queued = dash.queued
        /\ e.live = dash.live \cup rows
        /\ DOMAIN e.status = DOMAIN dash.status
        /\ \A row \in DOMAIN dash.status :
               e.status[row] = IF row \in rows /\ dash.status[row] = "pending"
                               THEN "count" ELSE dash.status[row]
        /\ e.base = dash.base /\ e.inflight = dash.inflight
    BY <2>1, UnitCountedTells
  <2>4. dash' = e
    BY <1>1, <1>9 DEF Tell
  <2>5. rows \cap dash.live = {}
    OBVIOUS
  <2> HIDE DEF e, rows, row1
  <2>6. PlanInv'
    BY <1>1, <1>2, <1>3, <2>3, <2>4, PlanStays
  <2>7. \A x \in ToSet(dash'.log) : dash'.status[x] = "running" <=> x \in Busy'
    BY <1>5, <2>1, <2>2, <2>3, <2>4
  <2>8. \A x \in DOMAIN ran' : ran'[x] # "none" => x \in dash'.live /\ dash'.status[x] = ran'[x]
    BY <1>7, <2>1, <2>2, <2>3, <2>4, <2>5
  <2>9. LiveInv'
    BY <1>5, <2>2, <2>3, <2>4, <2>7, <2>8, <1>3 DEF LiveInv
  <2> QED BY <1>4, <1>8, <2>3, <2>4, <2>6, <2>9
<1>10. CASE ~(screen = "dash" /\ prog = "up")
  <2>0. screen = "dash" => dash' = dash
    BY <1>1, <1>10 DEF Tell
  <2>1. PlanInv'
    BY <1>1, <1>2, <1>3, <2>0, PlanStays DEF PlanInv
  <2>3. LiveInv'
    BY <1>1, <1>10 DEF LiveInv
  <2> QED BY <1>4, <1>8, <2>0, <2>1, <2>3
<1> QED BY <1>9, <1>10

\* The sweep breaks off.
LEMMA AbortUnitKeeps == ASSUME RowsInv, AbortUnit PROVE RowsInv'
<1> USE DEF RowsInv, user, host, shell
<1>1. Running /\ UNCHANGED <<start, user, link, dash, ran, host>>
  BY DEF AbortUnit
<1>2. PICK err, failed : /\ eng' = [eng EXCEPT !.todo = <<>>, !.base = {}, !.run = {}, !.err = err,
                                               !.failed = failed]
                         /\ err \in {"cancelled", "fault"}
  BY DEF AbortUnit
<1>3. eng.pc = "sweep" /\ eng.todo # <<>> /\ eng.err = "none"
  BY <1>1, RunningIsWell
<1>4. DOMAIN eng' = DOMAIN eng /\ eng'.pc = eng.pc /\ eng'.todo = <<>> /\ eng'.err = err
  BY <1>2 DEF OpenInv
<1>5. OpenInv'
  BY <1>1, <1>3, <1>4, OpenStays
<1>6. PlanInv'
  BY <1>1, <1>4, PlanStays DEF PlanInv
<1>7. WorkInv' /\ LiveInv'
  BY <1>2, <1>4 DEF WorkInv, LiveInv
<1> QED BY <1>5, <1>6, <1>7

\* The sweep ends.
LEMMA EngineEndsKeeps == ASSUME RowsInv, EngineEnds PROVE RowsInv'
<1> USE DEF RowsInv, user
<1>1. /\ eng.pc = "sweep" /\ eng.todo = <<>> /\ Tell(RunDone(dash, eng.failed))
      /\ UNCHANGED <<start, user, link, ran, prog, ui>>
  BY DEF EngineEnds
<1>2. PICK err : /\ eng' = [eng EXCEPT !.pc = "stopped", !.err = err]
                 /\ err = eng.err \/ err = "fault"
  BY DEF EngineEnds
<1>3. /\ DOMAIN eng' = DOMAIN eng /\ eng'.pc = "stopped" /\ eng'.todo = eng.todo
      /\ eng'.err = err /\ eng'.base = eng.base /\ eng'.run = eng.run
  BY <1>2 DEF OpenInv
<1>4. OpenInv'
  BY <1>1, <1>3, OpenStays
<1>5. screen = "dash" => /\ IsDash(dash') /\ dash'.units = dash.units
                         /\ dash'.log = dash.log /\ dash'.queued = dash.queued
                         /\ dash'.status = dash.status /\ dash'.base = dash.base
                         /\ dash'.live = dash.live /\ dash'.inflight = dash.inflight
  BY <1>1, RunDoneTells DEF Tell, PlanInv
<1>6. PlanInv'
  BY <1>1, <1>3, <1>5, PlanStays
<1>7. err = "none" => Busy = {} /\ Busy' = {} /\ eng.err = "none"
  <2>1. eng.err = "none" => Busy = {}
    BY <1>1 DEF WorkInv
  <2> QED BY <1>2, <1>3, <2>1 DEF Busy
<1>8. WorkInv'
  BY <1>1, <1>3, <1>5, <1>7 DEF WorkInv, Left
<1>9. LiveInv'
  BY <1>1, <1>3, <1>5, <1>7 DEF LiveInv
<1> QED BY <1>4, <1>6, <1>8, <1>9

\* The program is left before a plan was sent.
LEMMA EngineUnusedKeeps == ASSUME RowsInv, EngineUnused PROVE RowsInv'
<1> USE DEF RowsInv, user, host, shell
<1>1. /\ eng.pc = "select" /\ ui = "closing" /\ eng' = [eng EXCEPT !.pc = "unused"]
      /\ UNCHANGED <<start, user, link, dash, ran, host>>
  BY DEF EngineUnused, progExited
<1>2. /\ DOMAIN eng' = DOMAIN eng /\ eng'.pc = "unused" /\ eng'.todo = eng.todo
      /\ eng'.err = eng.err /\ eng'.base = eng.base /\ eng'.run = eng.run
  BY <1>1 DEF OpenInv
<1>3. OpenInv'
  BY <1>1, <1>2 DEF OpenInv, Interactive
<1>4. PlanInv'
  BY <1>1, <1>2, PlanStays DEF PlanInv
<1>5. eng.err = "none" => Busy = {} /\ Busy' = {}
  BY <1>1, <1>2 DEF OpenInv, Busy
<1>6. WorkInv'
  BY <1>1, <1>2, <1>5 DEF WorkInv, Left
<1>7. LiveInv'
  BY <1>1, <1>2, <1>5 DEF LiveInv
<1> QED BY <1>3, <1>4, <1>6, <1>7
-----------------------------------------------------------------------------
\* The dashboard of a plan, for whatever expression names it.
LEMMA BuiltTells ==
    ASSUME NEW q, NEW stored, NEW d, d = NewDashboard(Build(q), stored)
    PROVE  /\ IsDash(d) /\ d.units = UnitsOf(q.models) /\ d.log = RowsOf(d.units)
           /\ d.queued = QueuedRows(q) /\ DOMAIN d.status = ToSet(d.log)
           /\ \A row \in ToSet(d.log) : d.status[row] # "running"
           /\ d.base = {} /\ d.live = {} /\ d.inflight = <<>> /\ d.done = FALSE
<1> DEFINE e == NewDashboard(Build(q), stored)
<1>1. /\ IsDash(e) /\ e.units = UnitsOf(q.models) /\ e.log = RowsOf(e.units)
      /\ e.queued = QueuedRows(q) /\ DOMAIN e.status = ToSet(e.log)
      /\ \A row \in ToSet(e.log) : e.status[row] # "running"
      /\ e.base = {} /\ e.live = {} /\ e.inflight = <<>> /\ e.done = FALSE
  BY NewDashboardTells
<1>2. d = e
  OBVIOUS
<1> HIDE DEF e
<1> QED BY <1>1, <1>2

\* [r] opens the dashboard of the plan the form shows.
LEMMA RunKeeps == ASSUME RowsInv, Run PROVE RowsInv'
<1> USE DEF RowsInv, host, shell
<1> DEFINE q == Request(form.session, reasons)
<1>1. /\ screen = "form" /\ prog = "up" /\ request' = q /\ link' = "sending" /\ screen' = "dash"
      /\ dash' = NewDashboard(Build(q), start.stored)
      /\ UNCHANGED <<start, eng, ran, host>>
  BY DEF Run, Handles
<1>2. /\ Interactive /\ eng.pc \in {"select", "unused"} /\ ran = <<>> /\ eng.todo = <<>>
      /\ eng.base = {} /\ eng.run = {} /\ eng.err = "none"
  BY <1>1 DEF OpenInv
<1>3. OpenInv'
  BY <1>1, <1>2 DEF OpenInv, Interactive
<1>4. IsSeq(q.models)
  BY PlanHasSeq
<1>5. /\ IsDash(dash') /\ dash'.units = UnitsOf(q.models) /\ dash'.log = RowsOf(dash'.units)
      /\ dash'.queued = QueuedRows(q) /\ DOMAIN dash'.status = ToSet(dash'.log)
      /\ \A row \in ToSet(dash'.log) : dash'.status[row] # "running"
      /\ dash'.base = {} /\ dash'.inflight = <<>>
  <2> HIDE DEF q
  <2>1. dash' = NewDashboard(Build(q), start.stored)
    BY <1>1
  <2>2. \A p, s, e : e = NewDashboard(Build(p), s) =>
          /\ IsDash(e) /\ e.units = UnitsOf(p.models) /\ e.log = RowsOf(e.units)
          /\ e.queued = QueuedRows(p) /\ DOMAIN e.status = ToSet(e.log)
          /\ \A row \in ToSet(e.log) : e.status[row] # "running"
          /\ e.base = {} /\ e.live = {} /\ e.inflight = <<>> /\ e.done = FALSE
    BY BuiltTells
  <2>3. dash' = NewDashboard(Build(q), start.stored) =>
          /\ IsDash(dash') /\ dash'.units = UnitsOf(q.models) /\ dash'.log = RowsOf(dash'.units)
    BY <2>2
  <2>4. dash' = NewDashboard(Build(q), start.stored) =>
          /\ dash'.queued = QueuedRows(q) /\ DOMAIN dash'.status = ToSet(dash'.log)
          /\ \A row \in ToSet(dash'.log) : dash'.status[row] # "running"
          /\ dash'.base = {} /\ dash'.live = {} /\ dash'.inflight = <<>> /\ dash'.done = FALSE
    BY <2>2
  <2> QED BY <2>1, <2>3, <2>4
<1> HIDE DEF q
<1>6. PlanInv'
  BY <1>1, <1>2, <1>4, <1>5, NoRows DEF PlanInv
<1>7. Busy = {} /\ Busy' = {}
  BY <1>1, <1>2 DEF Busy
<1>8. WorkInv'
  BY <1>1, <1>2, <1>7, NoRows DEF WorkInv, Left
<1>9. LiveInv'
  BY <1>1, <1>2, <1>5, <1>7, NoRows DEF LiveInv
<1> QED BY <1>3, <1>6, <1>8, <1>9

\* A step that leaves the verdicts alone keeps the invariant.
LEMMA SameKeeps ==
    ASSUME RowsInv, screen = "dash", Same(dash, dash'),
           UNCHANGED <<start, user, link, eng, ran, host>>
    PROVE  RowsInv'
<1> USE DEF RowsInv, user, host, shell
<1>1. OpenInv'
  BY DEF OpenInv, Interactive
<1>2. PlanInv'
  BY DEF PlanInv, Same
<1>3. WorkInv'
  BY DEF WorkInv, Busy, Left, UnitSet, Unit, UnitExecutes, Same
<1>4. LiveInv'
  BY DEF LiveInv, Busy, Same
<1> QED BY <1>1, <1>2, <1>3, <1>4

\* The user's steps on the dashboard.
LEMMA DashKeeps == ASSUME RowsInv, DashInput \/ AskQuit \/ Stay PROVE RowsInv'
<1>1. screen = "dash" /\ UNCHANGED <<start, user, link, eng, ran, host>>
  BY DEF DashInput, AskQuit, Stay, Handles
<1>2. IsDash(dash)
  BY <1>1 DEF RowsInv, PlanInv
<1>3. CASE DashInput
  <2>1. \E nodes : dash' \in PaneInputs(dash) \cup TreeInputs(dash, nodes)
    BY <1>3 DEF DashInput
  <2>2. Same(dash, dash')
    BY <1>2, <2>1, SameInputs
  <2> QED BY <1>1, <2>2, SameKeeps
<1>4. CASE AskQuit \/ Stay
  <2>1. \E x : dash' = [dash EXCEPT !.confirm = x]
    BY <1>4 DEF AskQuit, Stay
  <2>2. \A x : Same(dash, [dash EXCEPT !.confirm = x])
    BY <1>2, SameEdits, Zenon
  <2>3. Same(dash, dash')
    BY <2>1, <2>2
  <2> QED BY <1>1, <2>3, SameKeeps
<1> QED BY <1>3, <1>4

\* The steps around the engine's.
LEMMA FormKeeps == ASSUME RowsInv, FormInput \/ Cancel \/ Quit \/ Deliver PROVE RowsInv'
<1> USE DEF RowsInv, user, host, shell
<1>1. /\ UNCHANGED <<start, screen, request, eng, ran, dash, prog, ui>>
      /\ link' = link \/ link = "sending"
  <2>1. CASE FormInput  BY <2>1 DEF FormInput
  <2>2. CASE Cancel     BY <2>2 DEF Cancel
  <2>3. CASE Quit       BY <2>3 DEF Quit
  <2>4. CASE Deliver    BY <2>4 DEF Deliver
  <2> QED BY <2>1, <2>2, <2>3, <2>4
<1>2. PlanInv' /\ WorkInv' /\ LiveInv'
  BY <1>1, RestKeeps DEF Resting
<1>3. OpenInv'
  BY <1>1 DEF OpenInv, Interactive
<1> QED BY <1>2, <1>3

\* The program ends, a signal arrives, evolve goes on without the program.
LEMMA EndsKeep ==
    ASSUME RowsInv, \/ ProgramExits \/ SigTerm \/ SigInt \/ SigPlain \/ UiCloses \/ UiReturns
                    \/ PlainReturns \/ UiAborts
    PROVE RowsInv'
<1> USE DEF RowsInv, user, host, shell
<1>1. /\ UNCHANGED <<start, screen, link, request, eng, ran, dash>>
      /\ prog' = prog \/ (prog = "up" /\ prog' \in {"down", "error"})
      /\ ui' = ui \/ ui' \in {"closing", "reporting", "returned"}
  BY DEF ProgramExits, SigTerm, SigInt, SigPlain, UiCloses, UiReturns, PlainReturns, UiAborts,
         Concludes
<1>2. PlanInv' /\ WorkInv' /\ LiveInv'
  BY <1>1, RestKeeps DEF Resting
<1>3. OpenInv'
  BY <1>1 DEF OpenInv, Interactive
<1> QED BY <1>2, <1>3

\* The rows of a run without the form are those in scope and in the run set.
LEMMA PlainRows ==
    ASSUME NEW k
    PROVE  /\ IsSeq(PlainUnits(k))
           /\ \A u \in ToSet(PlainUnits(k)) : IsSeq(u.cases) /\ u.cases # <<>>
           /\ ToSet(RowsOf(PlainUnits(k))) =
                {row \in Rows(ToSet(PlainModels(k))) :
                    InScope(k, row[2]) /\ InRunSet(k, row[1], row[2])}
<1> DEFINE models == PlainModels(k)
           us == UnitsOf(models)
           R == {row \in Rows(ToSet(models)) : InScope(k, row[2]) /\ InRunSet(k, row[1], row[2])}
<1>1. PlainUnits(k) = Narrow(us, R)
  BY DEF PlainUnits
<1>2. IsSeq(models)
  <2>1. IsSeq(ModelOrder)
    BY CatalogAssumption DEF IsSeq, Models
  <2> QED BY <2>1, OnlyTells DEF PlainModels
<1> HIDE DEF models
<1>3. IsSeq(us) /\ ToSet(RowsOf(us)) = Rows(ToSet(models))
  BY <1>2, UnitsTell, PlanRows
<1>4. \A u \in ToSet(us) : /\ IsSeq(u.cases) /\ u = [u EXCEPT !.cases = @]
                             /\ {"cases", "model"} \subseteq DOMAIN u
  BY <1>2, PlanUnits
<1>5. R \subseteq Rows(ToSet(models))
  OBVIOUS
<1> HIDE DEF us, R
<1> QED BY <1>1, <1>3, <1>4, <1>5, NarrowTells DEF R, models

\* Sweep without the form.
LEMMA SweepsKeep ==
    ASSUME RowsInv, ui \in {"starting", "checking"}, Sweeps,
           UNCHANGED <<start, screen, link, dash, ran>>
    PROVE  RowsInv'
<1> USE DEF RowsInv
<1>1. /\ ~Interactive /\ ui' = "sweeping" /\ prog' = prog
      /\ eng' = [EmptyEngine EXCEPT !.pc = "sweep", !.todo = PlainUnits(start)]
  BY DEF Sweeps
<1>2. screen = "form" /\ prog = "off" /\ ran = <<>> /\ link = "none"
  BY DEF OpenInv
<1>3. /\ {"pc", "todo", "base", "run", "failed", "err"} \subseteq DOMAIN eng'
      /\ eng'.pc = "sweep" /\ eng'.todo = PlainUnits(start) /\ eng'.base = {} /\ eng'.run = {}
      /\ eng'.err = "none"
  BY <1>1 DEF EmptyEngine
<1>4. OpenInv'
  BY <1>1, <1>2, <1>3 DEF OpenInv, Interactive
<1>5. PlanInv'
  BY <1>2, <1>3, PlainRows DEF PlanInv
<1>6. WorkInv'
  BY <1>2, <1>3, NoRows DEF WorkInv, Busy
<1>7. LiveInv'
  BY <1>2 DEF LiveInv
<1> QED BY <1>4, <1>5, <1>6, <1>7

\* The program opens, or evolve fails before it does.
LEMMA OpensKeep ==
    ASSUME RowsInv, ui \in {"starting", "checking"}, ui' # "starting",
           UNCHANGED <<start, screen, link, dash, ran, request, eng>>,
           \/ prog' = prog
           \/ prog' = "up" /\ Interactive /\ ui' = "waiting"
    PROVE  RowsInv'
<1> USE DEF RowsInv
<1>1. screen = "form" /\ prog = "off" /\ eng.pc = "select"
  BY DEF OpenInv
<1>2. OpenInv'
  BY <1>1 DEF OpenInv, Interactive
<1>3. PlanInv'
  BY DEF PlanInv
<1>4. WorkInv'
  BY DEF WorkInv, Busy, Left, UnitSet, Unit, UnitExecutes
<1>5. LiveInv'
  BY <1>1 DEF LiveInv
<1> QED BY <1>2, <1>3, <1>4, <1>5

\* What follows the checks: the form, a sweep without it, or a failure.
LEMMA BeginsKeep ==
    ASSUME RowsInv, ui \in {"starting", "checking"}, Begins,
           UNCHANGED <<start, screen, link, dash, ran>>
    PROVE  RowsInv'
<1>1. CASE Fails
  BY <1>1, OpensKeep DEF Fails
<1>2. CASE OpensForm
  BY <1>2, OpensKeep DEF OpensForm
<1>3. CASE Sweeps
  BY <1>3, SweepsKeep
<1> QED BY <1>1, <1>2, <1>3 DEF Begins

\* What evolve does around the sweep: reconciling, checks and reports.
LEMMA ShellKeeps ==
    ASSUME RowsInv, Reconcile \/ ReconcileFails \/ RunChecks \/ RunReport \/ ReportFails
    PROVE  RowsInv'
<1>1. UNCHANGED <<start, screen, link, dash, ran>>
  BY DEF Reconcile, ReconcileFails, RunChecks, RunReport, ReportFails, rest
<1>2. CASE Reconcile
  <2>1. ui = "starting"
    BY <1>2 DEF Reconcile
  <2>2. CASE start.all
    BY <1>1, <1>2, <2>1, <2>2, OpensKeep DEF Reconcile
  <2>3. CASE ~start.all
    BY <1>1, <1>2, <2>1, <2>3, BeginsKeep DEF Reconcile
  <2> QED BY <2>2, <2>3
<1>3. CASE ReconcileFails
  BY <1>1, <1>3, OpensKeep DEF ReconcileFails, Fails
<1>4. CASE RunChecks
  <2>1. ui = "checking" /\ (Begins \/ Fails)
    BY <1>4 DEF RunChecks
  <2>2. CASE Begins
    BY <1>1, <2>1, <2>2, BeginsKeep
  <2>3. CASE Fails
    BY <1>1, <2>1, <2>3, OpensKeep DEF Fails
  <2> QED BY <2>1, <2>2, <2>3
<1>5. CASE RunReport \/ ReportFails
  <2> USE DEF RowsInv
  <2>1. UNCHANGED <<start, screen, link, request, eng, ran, dash, prog>> /\ ui' = "returned"
    BY <1>1, <1>5 DEF RunReport, ReportFails, Fails
  <2>2. PlanInv' /\ WorkInv' /\ LiveInv'
    BY <2>1, RestKeeps DEF Resting
  <2>3. OpenInv'
    BY <2>1 DEF OpenInv, Interactive
  <2> QED BY <2>2, <2>3
<1> QED BY <1>2, <1>3, <1>4, <1>5

\* Every step keeps the invariant.
LEMMA RowsStep == ASSUME RowsInv, [Next]_vars PROVE RowsInv'
<1>1. CASE UNCHANGED vars
  <2> USE DEF RowsInv, vars, user, host, shell
  <2>1. PlanInv' /\ WorkInv' /\ LiveInv'
    BY <1>1, RestKeeps DEF Resting
  <2>2. OpenInv'
    BY <1>1 DEF OpenInv, Interactive
  <2> QED BY <2>1, <2>2
<1>2. CASE User
  BY <1>2, RunKeeps, DashKeeps, FormKeeps, EndsKeep DEF User
<1>3. CASE Engine
  BY <1>3, TakesKeeps, EngineUnusedKeeps, StartBaselineKeeps, FinishBaselineKeeps, StartItemKeeps,
     FinishItemKeeps, SaveUnitKeeps, CountUnitKeeps, AbortUnitKeeps, EngineEndsKeeps DEF Engine
<1>4. CASE Host
  BY <1>4, FormKeeps, EndsKeep, ShellKeeps DEF Host, Main
<1> QED BY <1>1, <1>2, <1>3, <1>4 DEF Next

\* The invariant behind LiveRowsExact: the engine's rows are rows of the plan the user
\* saw, none is at work twice or finished while at work, and the dashboard shows as
\* running what the engine runs, with the engine's verdicts on the rest.
THEOREM RowsAlways == Spec => []RowsInv
<1>1. Init => RowsInv
  BY RowsInit
<1>2. RowsInv /\ [Next]_vars => RowsInv'
  BY RowsStep
<1> QED BY <1>1, <1>2, PTL DEF Spec

-----------------------------------------------------------------------------
\* The invariant says what LiveRowsExact says, and that the bar counts the rows right.
LEMMA RowsAreExact == RowsInv => LiveRowsExact
<1> SUFFICES ASSUME RowsInv, prog = "up", screen = "dash", eng.err = "none" PROVE LiveRowsExact
  BY DEF LiveRowsExact
<1> USE DEF RowsInv
<1> DEFINE judged == {row \in DOMAIN ran : ran[row] # "none"}
           settled == {row \in dash.queued : row \in dash.live /\ dash.status[row] # "running"}
           ok == {row \in settled : dash.status[row] \in {"pass", "skipped", "count"}}
           bad == {row \in settled : dash.status[row] \in {"fail", "error"}}
           running == With(dash, dash.queued, "running")
           wrong == {row \in judged : ran[row] # "pass"}
<1>1. /\ Left \cup DOMAIN ran \subseteq DOMAIN dash.status
      /\ DOMAIN dash.status = ToSet(dash.log) /\ IsDash(dash)
      /\ dash.queued \subseteq ToSet(dash.log)
  BY Shown
<1>2. /\ \A row \in ToSet(dash.log) : dash.status[row] = "running" <=> row \in Busy
      /\ dash.base = eng.base
      /\ IsSeq(dash.inflight) /\ Distinct(dash.inflight) /\ ToSet(dash.inflight) = Busy
      /\ \A row \in judged : row \in dash.live /\ dash.status[row] = ran[row]
  BY DEF LiveInv
<1>3. /\ DOMAIN ran \cup Left \subseteq dash.queued
      /\ \A row \in DOMAIN ran : ran[row] \in Verdicts \cup {"none"}
      /\ Busy # {} => eng.todo # <<>> /\ Busy \subseteq UnitSet
  BY DEF WorkInv
<1>4. Busy \subseteq dash.queued
  BY <1>3, UnitLeft
<1>5. Len(dash.inflight) = Cardinality(Busy)
  BY <1>2, DistinctCounts
<1>6. {row \in ToSet(dash.log) : Active(dash, row)} = Busy
  BY <1>1, <1>2, <1>4 DEF Active, Busy
<1>7. running = Busy
  BY <1>1, <1>2, <1>4 DEF With
<1>8. IsFiniteSet(dash.queued)
  <2>1. IsSeq(dash.log)
    BY PlanRows DEF PlanInv
  <2>2. IsFiniteSet(ToSet(dash.log))
    BY <2>1, SeqFinite
  <2> QED BY <1>1, <2>2, FS_Subset
<1>9. /\ Progress(dash).ok = Cardinality(ok) /\ Progress(dash).bad = Cardinality(bad)
      /\ Progress(dash).running = Cardinality(running)
      /\ Progress(dash).total = Cardinality(dash.queued)
  BY DEF Progress
<1>10. wrong \subseteq bad
  BY <1>2, <1>3 DEF Verdicts
<1>11. ok \subseteq dash.queued /\ bad \subseteq dash.queued /\ ok \cap bad = {}
  OBVIOUS
<1> HIDE DEF ok, bad, running, wrong, settled
<1>12. /\ IsFiniteSet(ok) /\ IsFiniteSet(bad)
       /\ Cardinality(ok) + Cardinality(bad) <= Cardinality(dash.queued)
       /\ Cardinality(bad) >= Cardinality(wrong)
  <2>1. IsFiniteSet(ok) /\ IsFiniteSet(bad)
    BY <1>8, <1>11, FS_Subset
  <2>2. Cardinality(ok \cup bad) = Cardinality(ok) + Cardinality(bad) - Cardinality(ok \cap bad)
    BY <2>1, FS_Union
  <2>3. Cardinality(ok \cap bad) = 0
    BY <1>11, FS_EmptySet
  <2>4. Cardinality(ok \cup bad) <= Cardinality(dash.queued)
    BY <1>8, <1>11, FS_Subset
  <2>5. IsFiniteSet(wrong) /\ Cardinality(wrong) <= Cardinality(bad)
    BY <1>10, <2>1, FS_Subset
  <2>6. /\ Cardinality(ok) \in Nat /\ Cardinality(bad) \in Nat /\ Cardinality(wrong) \in Nat
        /\ Cardinality(dash.queued) \in Nat /\ Cardinality(ok \cup bad) \in Nat
    <3>1. IsFiniteSet(ok \cup bad)
      BY <1>8, <1>11, FS_Subset
    <3> QED BY <1>8, <2>1, <2>5, <3>1, FS_CardinalityType
  <2> QED BY <2>1, <2>2, <2>3, <2>4, <2>5, <2>6
<1> HIDE DEF judged
<1>13. LiveRowsExact <=>
        /\ {row \in ToSet(dash.log) : Active(dash, row)} = Busy
        /\ ToSet(dash.inflight) = Busy /\ Len(dash.inflight) = Cardinality(Busy)
        /\ dash.base = eng.base
        /\ \A row \in judged : row \in dash.live /\ dash.status[row] = ran[row]
        /\ Progress(dash).running = Cardinality(Busy)
        /\ Progress(dash).ok + Progress(dash).bad <= Progress(dash).total
        /\ Progress(dash).bad >= Cardinality(wrong)
  BY Zenon DEF LiveRowsExact, Busy, judged, wrong
<1> QED BY <1>2, <1>5, <1>6, <1>7, <1>9, <1>12, <1>13

\* LiveRowsExact for every catalog, plan and number of jobs: while the program is up, the
\* rows shown as running are the ones an agent works on, each with one timer, and every
\* finished row carries the engine's verdict (dashboard.go, runui.go).
THEOREM LiveRowsAreExact == Spec => []LiveRowsExact
<1>1. RowsInv => LiveRowsExact
  BY RowsAreExact
<1> QED BY <1>1, RowsAlways, PTL
-----------------------------------------------------------------------------
(* The engine runs the rows of the plan.                                   *)

\* A case of a model is in one unit of the plan.
LEMMA OneUnit ==
    ASSUME NEW models, IsSeq(models),
           NEW u \in ToSet(UnitsOf(models)), NEW x \in ToSet(UnitsOf(models)),
           NEW row \in UnitCases(u), row \in UnitCases(x)
    PROVE  u = x
<1>1. ASSUME NEW y \in ToSet(UnitsOf(models)), row \in UnitCases(y)
      PROVE  y = UnitFor(EntryOf(row[2]), row[1], TierOf(row[2]))
  <2>1. PICK sc \in ToSet(Catalog), m \in ToSet(models) : IsUnit(y, sc, m)
    BY UnitsTell
  <2>2. PICK t \in ToSet(Tiers) : y = UnitFor(sc, m, t)
    BY <2>1 DEF IsUnit
  <2>3. y.cases = TierSeq(sc, t) /\ y.model = m
    BY <2>2 DEF UnitFor
  <2>4. PICK c \in ToSet(TierSeq(sc, t)) : row = <<m, c>>
    BY <1>1, <2>3 DEF UnitCases
  <2>5. EntryOf(c) = sc /\ TierOf(c) = t
    BY TierIs
  <2>6. row[1] = m /\ row[2] = c
    BY <2>4
  <2> QED BY <2>2, <2>5, <2>6
<1> QED BY <1>1

\* UnitOf finds the unit of a row, and with it the unit's rows.
LEMMA UnitOfTells ==
    ASSUME NEW models, IsSeq(models), NEW d, d.units = UnitsOf(models),
           NEW x \in ToSet(d.units), NEW row \in UnitCases(x)
    PROVE  ToSet(UnitRows(UnitOf(d, row))) = UnitCases(x)
<1>1. IsSeq(d.units) /\ DOMAIN d.units = 1 .. Len(d.units)
  BY UnitsTell, SeqDomain
<1>2. \A u \in ToSet(d.units) : ToSet(UnitRows(u)) = UnitCases(u)
  BY UnitsHaveCases, UnitRowsTell
<1>3. \A u : u \in ToSet(d.units) <=> \E i \in 1 .. Len(d.units) : d.units[i] = u
  BY <1>1, InSeq
<1>4. PICK j \in DOMAIN d.units : d.units[j] = x
  BY <1>1, <1>3
<1>5. row \in ToSet(UnitRows(d.units[j]))
  BY <1>2, <1>4
<1> DEFINE i == CHOOSE k \in DOMAIN d.units : row \in ToSet(UnitRows(d.units[k]))
<1>6. i \in DOMAIN d.units /\ row \in ToSet(UnitRows(d.units[i]))
  BY <1>5
<1>7. UnitOf(d, row) = d.units[i]
  BY DEF UnitOf
<1> HIDE DEF i
<1>8. d.units[i] \in ToSet(d.units)
  BY <1>1, <1>3, <1>6
<1>9. row \in UnitCases(d.units[i])
  BY <1>2, <1>6, <1>8
<1>10. d.units[i] = x
  BY <1>8, <1>9, OneUnit
<1> QED BY <1>2, <1>7, <1>10
-----------------------------------------------------------------------------
(* What is left and what ran are together what was planned.                *)
Planned == IF Interactive THEN {row \in QueuedRows(request) : EvalAllows(start.eval, row)}
                          ELSE ToSet(RowsOf(PlainUnits(start)))

\* Nothing planned is lost, and nothing is left at the end.
PlannedInv ==
    eng.err = "none" =>
      /\ eng.pc \in {"sweep", "stopped"} => DOMAIN ran \cup Left = Planned
      /\ eng.pc = "stopped" => eng.todo = <<>>

\* Each unit left is part of one of the dashboard, and what ran is settled on it.
SettledInv ==
    eng.err = "none" /\ screen = "dash" =>
      /\ \A u \in ToSet(eng.todo) : \E x \in ToSet(dash.units) : UnitCases(u) \subseteq UnitCases(x)
      /\ prog = "up" => DOMAIN ran \subseteq dash.live
      /\ dash.done => eng.pc = "stopped" /\ DOMAIN ran \subseteq dash.live

\* Without the form the request is made from the flags.
AskedInv ==
    ~Interactive /\ eng.pc \in {"sweep", "stopped"} =>
      /\ request.models = PlainModels(start)
      /\ \A m \in ToSet(PlainModels(start)) : request.harness[m] = PlainHarness(start, m)

TakesInv == PlannedInv /\ SettledInv /\ AskedInv

\* The invariant holds before evolve does anything.
LEMMA TakesInit == Init => TakesInv
<1> SUFFICES ASSUME Init PROVE TakesInv
  OBVIOUS
<1>1. eng.pc = "select" /\ screen = "form"
  BY DEF Init, EmptyEngine
<1> QED BY <1>1 DEF TakesInv, PlannedInv, SettledInv, AskedInv

\* Steps that leave the engine alone.
LEMMA RestTakes ==
    ASSUME TakesInv, UNCHANGED <<start, screen, request, eng, ran>>, prog' = prog \/ prog' # "up",
           screen = "dash" => /\ dash'.units = dash.units /\ dash'.live = dash.live
                              /\ dash'.done = dash.done
    PROVE  TakesInv'
<1> USE DEF TakesInv
<1>1. PlannedInv'
  BY DEF PlannedInv, Planned, Left, Interactive
<1>2. SettledInv'
  BY DEF SettledInv
<1>3. AskedInv'
  BY DEF AskedInv, Interactive
<1> QED BY <1>1, <1>2, <1>3

\* The user's steps: opening the dashboard is what fixes the plan.
LEMMA UserTakes == ASSUME RowsInv, TakesInv, User PROVE TakesInv'
<1>1. CASE DashInput \/ AskQuit \/ Stay
  <2>1. screen = "dash" /\ UNCHANGED <<start, user, link, eng, ran, host>>
    BY <1>1 DEF DashInput, AskQuit, Stay, Handles
  <2>2. IsDash(dash)
    BY <2>1 DEF RowsInv, PlanInv
  <2>3. Same(dash, dash')
    <3>1. CASE DashInput
      <4>1. \E nodes : dash' \in PaneInputs(dash) \cup TreeInputs(dash, nodes)
        BY <3>1 DEF DashInput
      <4> QED BY <2>2, <4>1, SameInputs
    <3>2. CASE AskQuit \/ Stay
      <4>1. \E x : dash' = [dash EXCEPT !.confirm = x]
        BY <3>2 DEF AskQuit, Stay
      <4>2. \A x : Same(dash, [dash EXCEPT !.confirm = x])
        BY <2>2, SameEdits, Zenon
      <4> QED BY <4>1, <4>2
    <3> QED BY <1>1, <3>1, <3>2
  <2>4. dash'.units = dash.units /\ dash'.live = dash.live /\ dash'.done = dash.done
    BY <2>3 DEF Same
  <2> QED BY <2>1, <2>4, RestTakes DEF user, host
<1>2. CASE FormInput \/ Cancel \/ Quit \/ SigTerm \/ SigInt \/ SigPlain
  <2>1. UNCHANGED <<start, screen, request, eng, ran, dash>> /\ (prog' = prog \/ prog' = "error")
    <3> USE DEF user, host, shell
    <3>1. CASE FormInput BY <3>1 DEF FormInput
    <3>2. CASE Cancel    BY <3>2 DEF Cancel
    <3>3. CASE Quit      BY <3>3 DEF Quit
    <3>4. CASE SigTerm   BY <3>4 DEF SigTerm
    <3>5. CASE SigInt    BY <3>5 DEF SigInt
    <3>6. CASE SigPlain  BY <3>6 DEF SigPlain
    <3> QED BY <1>2, <3>1, <3>2, <3>3, <3>4, <3>5, <3>6
  <2> QED BY <2>1, RestTakes
<1>3. CASE Run
  <2> USE DEF RowsInv, host, shell
  <2>1. /\ screen = "form" /\ prog = "up" /\ screen' = "dash"
        /\ \E q : dash' = NewDashboard(Build(q), start.stored)
        /\ UNCHANGED <<start, eng, ran>>
    BY <1>3 DEF Run, Handles
  <2>2. Interactive /\ eng.pc \in {"select", "unused"} /\ ran = <<>> /\ eng.todo = <<>>
    BY <2>1 DEF OpenInv
  <2>3. dash'.done = FALSE
    <3>1. \A q, s, d : d = NewDashboard(Build(q), s) => d.done = FALSE
      BY BuiltTells
    <3> QED BY <2>1, <3>1
  <2>4. eng'.pc \notin {"sweep", "stopped"} /\ eng'.pc # "stopped"
    BY <2>1, <2>2
  <2>6. PlannedInv'
    BY <2>4 DEF PlannedInv
  <2>7. AskedInv'
    BY <2>4 DEF AskedInv
  <2>5. SettledInv'
    BY <2>1, <2>2, <2>3, NoRows DEF SettledInv
  <2> QED BY <2>5, <2>6, <2>7 DEF TakesInv
<1> QED BY <1>1, <1>2, <1>3 DEF User

\* What evolve does around the sweep; without the form it plans here.
LEMMA HostTakes == ASSUME RowsInv, TakesInv, Host PROVE TakesInv'
<1> USE DEF user, host, shell, rest
<1>1. CASE Sweeps /\ ui \in {"starting", "checking"} /\ UNCHANGED <<start, screen, ran>>
  <2>1. /\ ~Interactive /\ UNCHANGED prog
        /\ eng' = [EmptyEngine EXCEPT !.pc = "sweep", !.todo = PlainUnits(start)]
        /\ request' = [NoRequest EXCEPT
               !.models = PlainModels(start),
               !.harness = [m \in ToSet(PlainModels(start)) |-> PlainHarness(start, m)]]
    BY <1>1 DEF Sweeps
  <2>2. screen = "form" /\ ran = <<>> /\ ~Interactive'
    BY <1>1, <2>1 DEF RowsInv, OpenInv, Interactive
  <2>3. eng'.pc = "sweep" /\ eng'.todo = PlainUnits(start)
    BY <2>1 DEF EmptyEngine
  <2>4. PlannedInv'
    BY <1>1, <2>2, <2>3, NoRows DEF PlannedInv, Planned, Left
  <2>5. SettledInv'
    BY <1>1, <2>2 DEF SettledInv
  <2>6. /\ request'.models = PlainModels(start)
        /\ \A m \in ToSet(PlainModels(start)) : request'.harness[m] = PlainHarness(start, m)
    BY <2>1 DEF NoRequest
  <2>7. AskedInv'
    BY <1>1, <2>6 DEF AskedInv
  <2> QED BY <2>4, <2>5, <2>7 DEF TakesInv
<1>2. CASE /\ UNCHANGED <<start, screen, request, eng, ran, dash>>
           /\ prog' = prog \/ screen = "form" \/ prog' # "up"
  <2> USE DEF TakesInv
  <2>1. PlannedInv'
    BY <1>2 DEF PlannedInv, Planned, Left, Interactive
  <2>2. SettledInv'
    BY <1>2 DEF SettledInv
  <2>3. AskedInv'
    BY <1>2 DEF AskedInv, Interactive
  <2> QED BY <2>1, <2>2, <2>3
<1>3. CASE Deliver \/ ProgramExits \/ UiCloses \/ UiReturns \/ PlainReturns \/ UiAborts
           \/ RunReport \/ ReportFails \/ ReconcileFails
  <2>1. UNCHANGED <<start, screen, request, eng, ran, dash>> /\ (prog' = prog \/ prog' = "down")
    <3>1. CASE Deliver        BY <3>1 DEF Deliver
    <3>2. CASE ProgramExits   BY <3>2 DEF ProgramExits
    <3>3. CASE UiCloses       BY <3>3 DEF UiCloses
    <3>4. CASE UiReturns      BY <3>4 DEF UiReturns
    <3>5. CASE PlainReturns   BY <3>5 DEF PlainReturns
    <3>6. CASE UiAborts       BY <3>6 DEF UiAborts
    <3>7. CASE RunReport      BY <3>7 DEF RunReport
    <3>8. CASE ReportFails    BY <3>8 DEF ReportFails, Fails
    <3>9. CASE ReconcileFails BY <3>9 DEF ReconcileFails, Fails
    <3> QED BY <1>3, <3>1, <3>2, <3>3, <3>4, <3>5, <3>6, <3>7, <3>8, <3>9
  <2> QED BY <1>2, <2>1
<1>4. CASE Reconcile \/ RunChecks
  <2>1. /\ UNCHANGED <<start, screen, ran, dash>> /\ ui \in {"starting", "checking"}
        /\ \/ Begins
           \/ UNCHANGED <<prog, request, eng>>
    BY <1>4 DEF Reconcile, RunChecks, Fails
  <2>2. screen = "form"
    BY <2>1 DEF RowsInv, OpenInv
  <2>3. Sweeps \/ UNCHANGED <<request, eng>>
    BY <2>1 DEF Begins, Fails, OpensForm
  <2> QED BY <1>1, <1>2, <2>1, <2>2, <2>3
<1> QED BY <1>3, <1>4 DEF Host, Main
-----------------------------------------------------------------------------
\* The engine's steps: rows pass from what is left to what ran.
LEMMA TakenStays ==
    ASSUME RowsInv, TakesInv, eng.pc = "sweep", eng'.pc \in {"sweep", "stopped"},
           eng'.err = "none" => eng.err = "none" /\ DOMAIN ran' \cup Left' = DOMAIN ran \cup Left,
           eng'.pc = "stopped" => eng'.todo = <<>>,
           UNCHANGED <<start, screen, request>>
    PROVE  PlannedInv' /\ AskedInv'
<1>1. PlannedInv'
  BY DEF TakesInv, PlannedInv, Planned, Interactive
<1>2. AskedInv'
  BY DEF TakesInv, AskedInv, Interactive
<1> QED BY <1>1, <1>2

\* A step of the engine that settles the rows it finishes.
LEMMA SettledStays ==
    ASSUME RowsInv, TakesInv, eng.pc = "sweep", eng'.err = "none" => eng.err = "none",
           UNCHANGED <<start, screen, request, prog>>,
           screen = "dash" /\ eng.err = "none" =>
             /\ dash'.units = dash.units /\ dash.live \subseteq dash'.live
             /\ dash'.done => dash.done \/ (prog = "up" /\ eng'.pc = "stopped")
             /\ DOMAIN ran \subseteq DOMAIN ran'
             /\ prog = "up" => DOMAIN ran' \subseteq DOMAIN ran \cup dash'.live,
           ToSet(eng'.todo) \subseteq ToSet(eng.todo)
    PROVE  SettledInv'
<1> SUFFICES ASSUME eng'.err = "none", screen' = "dash" PROVE SettledInv'
  BY DEF SettledInv
<1>1. /\ \A u \in ToSet(eng.todo) : \E x \in ToSet(dash.units) : UnitCases(u) \subseteq UnitCases(x)
      /\ prog = "up" => DOMAIN ran \subseteq dash.live
      /\ ~dash.done
  BY DEF TakesInv, SettledInv
<1>2. prog' = "up" => DOMAIN ran' \subseteq dash'.live
  BY <1>1
<1>3. \A u \in ToSet(eng'.todo) : \E x \in ToSet(dash'.units) : UnitCases(u) \subseteq UnitCases(x)
  BY <1>1
<1>4. dash'.done => eng'.pc = "stopped" /\ DOMAIN ran' \subseteq dash'.live
  BY <1>1, <1>2
<1> QED BY <1>2, <1>3, <1>4 DEF SettledInv

\* The engine takes the plan off the link: all of it is left, nothing ran.
LEMMA TakesTakes == ASSUME RowsInv, TakesInv, EngineTakes PROVE TakesInv'
<1> USE DEF RowsInv, EngineTakes, user, host, shell
<1>1. /\ screen = "dash" /\ Interactive /\ ran = <<>> /\ eng.err = "none" /\ eng.pc = "select"
  BY DEF OpenInv
<1>2. eng'.pc = "sweep" /\ eng'.err = "none" /\ eng'.todo = EngineUnits(request, start.eval)
  BY <1>1 DEF OpenInv
<1>3. IsSeq(request.models) /\ dash.units = UnitsOf(request.models)
  BY <1>1 DEF PlanInv
<1>4. /\ Left' = {row \in QueuedRows(request) : EvalAllows(start.eval, row)}
      /\ \A u \in ToSet(eng'.todo) :
             \E x \in ToSet(UnitsOf(request.models)) : UnitCases(u) \subseteq UnitCases(x)
  BY <1>2, <1>3, EngineRows DEF Left
<1>5. Planned' = {row \in QueuedRows(request) : EvalAllows(start.eval, row)} /\ Interactive'
  BY <1>1 DEF Planned, Interactive
<1>6. DOMAIN ran' = {}
  BY <1>1, NoRows
<1>7. PlannedInv'
  BY <1>2, <1>4, <1>5, <1>6 DEF PlannedInv
<1>8. ~dash.done
  BY <1>1 DEF TakesInv, SettledInv
<1>9. SettledInv'
  BY <1>3, <1>4, <1>6, <1>8 DEF SettledInv
<1>10. AskedInv'
  BY <1>5 DEF AskedInv
<1> QED BY <1>7, <1>9, <1>10 DEF TakesInv

\* Starting work moves no row.
LEMMA StartTakes ==
    ASSUME RowsInv, TakesInv, StartBaseline \/ StartItem \/ FinishBaseline PROVE TakesInv'
<1> USE DEF RowsInv, user, host, shell
<1>1. Running /\ UNCHANGED <<start, screen, request, ran, prog>>
  BY DEF StartBaseline, StartItem, FinishBaseline
<1>2. \E row, b : /\ row \in Waiting \cup eng.base
                  /\ Tell(StartCase(dash, row, b))
  BY DEF StartBaseline, StartItem, FinishBaseline
<1>3. eng'.pc = eng.pc /\ eng'.todo = eng.todo /\ eng'.err = eng.err
  BY DEF StartBaseline, StartItem, FinishBaseline, OpenInv
<1>4. eng.pc = "sweep" /\ eng.todo # <<>> /\ eng.err = "none"
  BY <1>1, RunningIsWell
<1>5. screen = "dash" =>
        /\ dash'.units = dash.units /\ dash'.live = dash.live /\ dash'.done = dash.done
  <2>1. CASE prog # "up"
    BY <1>2, <2>1 DEF Tell
  <2>2. CASE screen = "dash" /\ prog = "up"
    <3>1. PICK row, b : row \in Waiting \cup eng.base /\ dash' = StartCase(dash, row, b)
      BY <1>2, <2>2 DEF Tell
    <3>2. /\ UnitSet \subseteq DOMAIN dash.status /\ IsDash(dash)
          /\ IsSeq(dash.inflight) /\ Distinct(dash.inflight)
      BY <1>1, <2>2, RunningShown
    <3>3. row \in DOMAIN dash.status
      <4>1. Busy \subseteq UnitSet
        BY <1>1, <1>4, BusyRows
      <4> QED BY <3>1, <3>2, <4>1 DEF Waiting, Busy
    <3> DEFINE e == StartCase(dash, row, b)
    <3>4. /\ IsDash(e) /\ e.units = dash.units /\ e.log = dash.log /\ e.queued = dash.queued
          /\ e.live = dash.live /\ e.done = dash.done
          /\ e.status = [dash.status EXCEPT ![row] = "running"]
          /\ e.base = IF b THEN dash.base \cup {row} ELSE dash.base \ {row}
          /\ IsSeq(e.inflight) /\ Distinct(e.inflight)
          /\ ToSet(e.inflight) = ToSet(dash.inflight) \cup {row}
      BY <3>2, <3>3, StartCaseTells
    <3>5. dash' = e
      BY <3>1
    <3> HIDE DEF e
    <3> QED BY <3>4, <3>5
  <2> QED BY <2>1, <2>2
<1>6. Left' = Left
  BY <1>3 DEF Left
<1>7. PlannedInv' /\ AskedInv'
  BY <1>1, <1>3, <1>4, <1>6, TakenStays
<1>8. SettledInv'
  <2>1. screen = "dash" => ~dash.done
    BY <1>4 DEF TakesInv, SettledInv
  <2> QED BY <1>1, <1>3, <1>4, <1>5, SettledStays
<1> QED BY <1>7, <1>8 DEF TakesInv

\* A case ends: its row ran, and the dashboard has its verdict.
LEMMA FinishTakes == ASSUME RowsInv, TakesInv, FinishItem PROVE TakesInv'
<1> USE DEF RowsInv, user, host, shell
<1>1. PICK row, v : /\ row \in eng.run
                    /\ ran' = Adding(ran, {row}, v)
                    /\ eng' = [eng EXCEPT !.run = @ \ {row}]
                    /\ Tell(ItemDone(dash, row, v))
  BY DEF FinishItem
<1>2. Running /\ UNCHANGED <<start, screen, request, prog>>
  BY DEF FinishItem
<1>3. eng.pc = "sweep" /\ eng.todo # <<>> /\ eng.err = "none"
  BY <1>2, RunningIsWell
<1>4. eng'.pc = eng.pc /\ eng'.todo = eng.todo /\ eng'.err = eng.err
  BY <1>1 DEF OpenInv
<1>5. row \in UnitSet
  BY <1>1, <1>2, <1>3, BusyRows DEF Busy
<1>6. UnitSet \subseteq Left
  BY <1>3, UnitLeft
<1>7. DOMAIN ran' = DOMAIN ran \cup {row}
  BY <1>1, RanMore
<1>8. Left' = Left
  BY <1>4 DEF Left
<1>9. PlannedInv' /\ AskedInv'
  BY <1>2, <1>3, <1>4, <1>5, <1>6, <1>7, <1>8, TakenStays
<1>10. screen = "dash" =>
         /\ dash'.units = dash.units /\ dash.live \subseteq dash'.live /\ dash'.done = dash.done
         /\ prog = "up" => row \in dash'.live
  <2>1. CASE prog # "up"
    BY <1>1, <2>1 DEF Tell
  <2>2. CASE screen = "dash" /\ prog = "up"
    <3> DEFINE e == ItemDone(dash, row, v)
    <3>1. /\ UnitSet \subseteq DOMAIN dash.status /\ IsDash(dash)
          /\ IsSeq(dash.inflight) /\ Distinct(dash.inflight)
      BY <1>2, <2>2, RunningShown
    <3>4. row \in DOMAIN dash.status
      BY <1>5, <3>1
    <3>2. /\ IsDash(e) /\ e.units = dash.units /\ e.log = dash.log /\ e.queued = dash.queued
          /\ e.live = dash.live \cup {row} /\ e.done = dash.done
          /\ e.status = [dash.status EXCEPT ![row] = v]
          /\ e.base = dash.base \ {row}
          /\ IsSeq(e.inflight) /\ Distinct(e.inflight)
          /\ ToSet(e.inflight) = ToSet(dash.inflight) \ {row}
      BY <3>1, <3>4, ItemDoneTells
    <3>3. dash' = e
      BY <1>1, <2>2 DEF Tell
    <3> HIDE DEF e
    <3> QED BY <3>2, <3>3
  <2> QED BY <2>1, <2>2
<1>11. SettledInv'
  BY <1>2, <1>3, <1>4, <1>7, <1>10, SettledStays
<1> QED BY <1>9, <1>11 DEF TakesInv

\* A unit is saved once all its rows ran.
LEMMA SaveTakes == ASSUME RowsInv, TakesInv, SaveUnit PROVE TakesInv'
<1> USE DEF RowsInv, user, host, shell
<1>1. /\ Running /\ UnitSet \subseteq DOMAIN ran
      /\ UNCHANGED <<start, screen, request, dash, ran, prog>>
      /\ eng' = [eng EXCEPT !.todo = Tail(@), !.failed = @ \/ UnitFailed]
  BY DEF SaveUnit
<1>2. eng.pc = "sweep" /\ eng.todo # <<>> /\ eng.err = "none"
  BY <1>1, RunningIsWell
<1>3. eng'.pc = eng.pc /\ eng'.todo = Tail(eng.todo) /\ eng'.err = eng.err
  BY <1>1 DEF OpenInv
<1>4. Left = UnitSet \cup Left' /\ ToSet(eng'.todo) \subseteq ToSet(eng.todo)
  BY <1>2, <1>3, UnitLeft DEF Left
<1>5. DOMAIN ran' \cup Left' = DOMAIN ran \cup Left
  BY <1>1, <1>4
<1>6. PlannedInv' /\ AskedInv'
  BY <1>1, <1>2, <1>3, <1>5, TakenStays
<1>7. SettledInv'
  BY <1>1, <1>2, <1>3, <1>4, SettledStays
<1> QED BY <1>6, <1>7 DEF TakesInv

\* A unit that is only counted is settled as a whole.
LEMMA CountTakes == ASSUME RowsInv, TakesInv, CountUnit PROVE TakesInv'
<1> USE DEF RowsInv, user, host, shell
<1> DEFINE row1 == Head(UnitRows(Unit))
<1>1. /\ Sweeping /\ UNCHANGED <<start, screen, request, prog>>
      /\ ran' = Adding(ran, UnitSet, "none")
      /\ eng' = [eng EXCEPT !.todo = Tail(@)]
      /\ Tell(UnitCounted(dash, row1))
  BY DEF CountUnit
<1>2. eng.pc = "sweep" /\ eng.todo # <<>> /\ eng.err = "none"
  BY <1>1 DEF Sweeping, OpenInv
<1>3. eng'.pc = eng.pc /\ eng'.todo = Tail(eng.todo) /\ eng'.err = eng.err
  BY <1>1 DEF OpenInv
<1>4. /\ Left = UnitSet \cup Left' /\ ToSet(eng'.todo) \subseteq ToSet(eng.todo)
      /\ UnitSet = UnitCases(Unit) /\ IsSeq(UnitRows(Unit)) /\ UnitRows(Unit) # <<>>
  BY <1>2, <1>3, UnitLeft DEF Left
<1>5. DOMAIN ran' = DOMAIN ran \cup UnitSet
  BY <1>1, RanMore
<1>6. PlannedInv' /\ AskedInv'
  BY <1>1, <1>2, <1>3, <1>4, <1>5, TakenStays
<1>7. row1 \in UnitCases(Unit) /\ Unit \in ToSet(eng.todo)
  <2>1. row1 \in ToSet(UnitRows(Unit))
    BY <1>4, HeadTail
  <2>2. IsSeq(eng.todo)
    BY DEF PlanInv
  <2>3. ToSet(UnitRows(Unit)) = UnitSet
    BY DEF UnitSet
  <2> QED BY <1>2, <1>4, <2>1, <2>2, <2>3, HeadTail DEF Unit
<1>8. screen = "dash" =>
         /\ dash'.units = dash.units /\ dash.live \subseteq dash'.live /\ dash'.done = dash.done
         /\ prog = "up" => UnitSet \subseteq dash'.live
  <2>1. CASE prog # "up"
    BY <1>1, <2>1 DEF Tell
  <2>2. CASE screen = "dash" /\ prog = "up"
    <3> DEFINE e == UnitCounted(dash, row1)
               all == ToSet(UnitRows(UnitOf(dash, row1)))
               rows == (all \cap dash.queued) \ dash.live
    <3>1. IsDash(dash) /\ IsSeq(request.models) /\ dash.units = UnitsOf(request.models)
      BY <2>2 DEF PlanInv
    <3>2. PICK x \in ToSet(dash.units) : UnitCases(Unit) \subseteq UnitCases(x)
      BY <1>2, <1>7, <2>2 DEF TakesInv, SettledInv
    <3>3. all = UnitCases(x)
      BY <1>7, <3>1, <3>2, UnitOfTells
    <3>4. Left \subseteq dash.queued
      BY <1>2, <2>2 DEF WorkInv
    <3>5. e.units = dash.units /\ e.live = dash.live \cup rows /\ e.done = dash.done
      BY <3>1, UnitCountedTells
    <3>6. dash' = e
      BY <1>1, <2>2 DEF Tell
    <3> HIDE DEF e, all
    <3>7. UnitSet \subseteq dash.live \cup rows
      BY <1>4, <3>2, <3>3, <3>4
    <3> HIDE DEF rows
    <3> QED BY <3>5, <3>6, <3>7
  <2> QED BY <2>1, <2>2
<1>9. SettledInv'
  BY <1>1, <1>2, <1>3, <1>4, <1>5, <1>8, SettledStays
<1> QED BY <1>6, <1>9 DEF TakesInv

\* The sweep breaks off with an error, or ends with nothing left.
LEMMA StopTakes == ASSUME RowsInv, TakesInv, AbortUnit \/ EngineEnds \/ EngineUnused PROVE TakesInv'
<1> USE DEF RowsInv, user, host, shell
<1>1. CASE AbortUnit
  <2>1. \E err, failed : /\ eng' = [eng EXCEPT !.todo = <<>>, !.base = {}, !.run = {}, !.err = err,
                                               !.failed = failed]
                         /\ err \in {"cancelled", "fault"}
    BY <1>1 DEF AbortUnit
  <2>2. Running /\ UNCHANGED <<start, screen, request>>
    BY <1>1 DEF AbortUnit
  <2>3. eng'.err # "none" /\ eng'.pc = eng.pc /\ eng.pc = "sweep"
    BY <2>1, <2>2, RunningIsWell DEF OpenInv
  <2>4. PlannedInv' /\ SettledInv'
    BY <2>3 DEF PlannedInv, SettledInv
  <2>5. AskedInv'
    BY <2>2, <2>3 DEF TakesInv, AskedInv, Interactive
  <2> QED BY <2>4, <2>5 DEF TakesInv
<1>2. CASE EngineEnds
  <2>1. /\ eng.pc = "sweep" /\ eng.todo = <<>> /\ Tell(RunDone(dash, eng.failed))
        /\ UNCHANGED <<start, screen, request, ran, prog>>
    BY <1>2 DEF EngineEnds
  <2>2. PICK err : /\ eng' = [eng EXCEPT !.pc = "stopped", !.err = err]
                   /\ err = eng.err \/ err = "fault"
    BY <1>2 DEF EngineEnds
  <2>3. /\ eng'.pc = "stopped" /\ eng'.todo = eng.todo /\ eng'.err = err
    BY <2>2 DEF OpenInv
  <2>4. Left' = Left
    BY <2>3 DEF Left
  <2>5. PlannedInv' /\ AskedInv'
    BY <2>1, <2>2, <2>3, <2>4, TakenStays
  <2>6. screen = "dash" => /\ dash'.units = dash.units /\ dash'.live = dash.live
                           /\ dash'.done => dash.done \/ prog = "up"
    BY <2>1, RunDoneTells DEF Tell, PlanInv
  <2>7. SettledInv'
    BY <2>1, <2>2, <2>3, <2>6, SettledStays
  <2> QED BY <2>5, <2>7 DEF TakesInv
<1>3. CASE EngineUnused
  <2>1. /\ eng.pc = "select" /\ eng' = [eng EXCEPT !.pc = "unused"]
        /\ UNCHANGED <<start, screen, request, dash, ran, prog>>
    BY <1>3 DEF EngineUnused
  <2>2. eng'.pc = "unused" /\ eng'.todo = eng.todo /\ eng'.err = eng.err
    BY <2>1 DEF OpenInv
  <2>3. PlannedInv' /\ AskedInv'
    BY <2>2 DEF PlannedInv, AskedInv
  <2>4. SettledInv'
    BY <2>1, <2>2 DEF TakesInv, SettledInv
  <2> QED BY <2>3, <2>4 DEF TakesInv
<1> QED BY <1>1, <1>2, <1>3

\* Every step keeps the invariant.
LEMMA TakesStep == ASSUME RowsInv, TakesInv, [Next]_vars PROVE TakesInv'
<1>1. CASE UNCHANGED vars
  BY <1>1, RestTakes DEF vars, user, host, shell
<1>2. CASE Engine
  BY <1>2, TakesTakes, StartTakes, FinishTakes, SaveTakes, CountTakes, StopTakes DEF Engine
<1> QED BY <1>1, <1>2, UserTakes, HostTakes DEF Next

\* The engine's rows are the planned ones.
THEOREM TakesAlways == Spec => []TakesInv
<1>1. Init => TakesInv
  BY TakesInit
<1>2. RowsInv /\ TakesInv /\ [Next]_vars => TakesInv'
  BY TakesStep
<1> QED BY <1>1, <1>2, RowsAlways, PTL DEF Spec
-----------------------------------------------------------------------------
(* The Execution tree: the rows of a flattened sequence, in order.         *)

\* A flattened sequence is built member by member.
LEMMA FlatSteps ==
    ASSUME NEW ss, IsSeq(ss), \A i \in 1 .. Len(ss) : IsSeq(ss[i])
    PROVE  \E f : /\ f[0] = <<>> /\ f[Len(ss)] = FlattenSeq(ss)
                  /\ \A i \in 1 .. Len(ss) : f[i] = f[i - 1] \o ss[i]
                  /\ \A i \in 0 .. Len(ss) : IsSeq(f[i])
<1> DEFINE n == Len(ss)
           it == CHOOSE f : JoinsTo(f, ss, n)
           g == [i \in 0 .. n |-> IF i = 0 THEN <<>> ELSE it[i]]
<1>1. n \in Nat
  BY SeqDomain
<1>2. JoinsTo(it, ss, n)
  BY <1>1, JoinsExists
<1>3. g[n] = FlattenSeq(ss)
  <2>1. CASE n = 0
    <3>1. ss = <<>>
      <4>1. ss \in Seq(ToSet(ss))
        BY DEF IsSeq
      <4> QED BY <2>1, <4>1
    <3>2. FlattenSeq(ss) = ss
      BY <2>1 DEF FlattenSeq
    <3> QED BY <1>1, <2>1, <3>1, <3>2
  <2>2. CASE n # 0
    <3>1. FlattenSeq(ss) = it[n]
      BY <2>2, Zenon DEF FlattenSeq, JoinsTo
    <3> QED BY <1>1, <2>2, <3>1
  <2> QED BY <2>1, <2>2
<1> HIDE DEF it
<1>4. ASSUME NEW i \in 1 .. n PROVE g[i] = g[i - 1] \o ss[i]
  <2>1. it[i] = IF i = 1 THEN ss[i] ELSE it[i - 1] \o ss[i]
    BY <1>2 DEF JoinsTo
  <2>2. ss[i] \in Seq(ToSet(ss[i]))
    BY DEF IsSeq
  <2>3. <<>> \o ss[i] = ss[i]
    BY <2>2
  <2>4. CASE i = 1
    <3>1. g[1] = it[1] /\ g[0] = <<>>
      BY <1>1, <2>4
    <3> QED BY <2>1, <2>3, <2>4, <3>1
  <2>5. CASE i # 1
    <3>1. g[i] = it[i] /\ g[i - 1] = it[i - 1]
      BY <1>1, <2>5
    <3> QED BY <2>1, <2>5, <3>1
  <2> QED BY <2>4, <2>5
<1>5. \A i \in 0 .. n : IsSeq(g[i])
  <2> DEFINE G == {i \in 0 .. n : IsSeq(g[i])}
  <2>1. g[0] = <<>>
    BY <1>1
  <2> HIDE DEF g
  <2>2. 0 \in G
    BY <1>1, <2>1, SeqEmpty
  <2>3. ASSUME NEW i \in 1 .. n, i - 1 \in G PROVE i \in G
    <3>1. g[i] = g[i - 1] \o ss[i] /\ IsSeq(g[i - 1]) /\ IsSeq(ss[i])
      BY <1>4, <2>3
    <3>2. IsSeq(g[i])
      BY <3>1, SeqConcat
    <3> QED BY <1>1, <3>2
  <2> HIDE DEF G
  <2>4. \A i \in 0 .. n : i \in G
    BY <1>1, <2>2, <2>3, UpTo
  <2> QED BY <2>4 DEF G
<1>6. g[0] = <<>>
  BY <1>1
<1> HIDE DEF g
<1> QED BY <1>3, <1>4, <1>5, <1>6

\* A rule is never the first row nor behind another.
Spaced(s) == \A i \in 1 .. Len(s) : IsRule(s[i]) => i > 1 /\ ~IsRule(s[i - 1])

\* Two spaced sequences make a spaced one.
LEMMA SpacedConcat ==
    ASSUME NEW s, IsSeq(s), Spaced(s), NEW t, IsSeq(t), Spaced(t)
    PROVE  Spaced(s \o t)
<1> DEFINE u == s \o t
<1>1. /\ Len(u) = Len(s) + Len(t) /\ Len(s) \in Nat /\ Len(t) \in Nat
      /\ \A i \in 1 .. Len(s) : u[i] = s[i]
      /\ \A i \in 1 .. Len(t) : u[Len(s) + i] = t[i]
  BY SeqConcat, SeqDomain
<1> HIDE DEF u
<1>2. ASSUME NEW i \in 1 .. Len(u), IsRule(u[i]) PROVE i > 1 /\ ~IsRule(u[i - 1])
  <2>1. CASE i <= Len(s)
    <3>1. i \in 1 .. Len(s) /\ u[i] = s[i]
      BY <1>1, <2>1
    <3>2. i > 1 /\ ~IsRule(s[i - 1])
      BY <1>2, <3>1 DEF Spaced
    <3>3. i - 1 \in 1 .. Len(s)
      BY <3>1, <3>2
    <3> QED BY <1>1, <3>2, <3>3
  <2>2. CASE i > Len(s)
    <3> DEFINE j == i - Len(s)
    <3>1. j \in 1 .. Len(t) /\ i = Len(s) + j
      BY <1>1, <2>2
    <3> HIDE DEF j
    <3>2. u[i] = t[j]
      BY <1>1, <3>1
    <3>3. j > 1 /\ ~IsRule(t[j - 1])
      BY <1>2, <3>1, <3>2 DEF Spaced
    <3>4. j - 1 \in 1 .. Len(t) /\ Len(s) + (j - 1) = i - 1
      <4>1. Len(t) \in Nat /\ Len(s) \in Nat /\ j \in 1 .. Len(t) /\ j > 1 /\ i = Len(s) + j
        BY <1>1, <3>1, <3>3, Zenon
      <4> QED BY <4>1
    <3>5. u[i - 1] = t[j - 1]
      BY <1>1, <3>4
    <3> QED BY <1>1, <3>1, <3>3, <3>5
  <2> QED BY <1>1, <2>1, <2>2
<1>3. Spaced(u)
  BY <1>2, Zenon DEF Spaced
<1> QED BY <1>3 DEF u

\* So do any number of them.
LEMMA FlatSpaced ==
    ASSUME NEW ss, IsSeq(ss), \A i \in 1 .. Len(ss) : IsSeq(ss[i]) /\ Spaced(ss[i])
    PROVE  Spaced(FlattenSeq(ss))
<1> DEFINE n == Len(ss)
<1>1. n \in Nat
  BY SeqDomain
<1>2. PICK f : /\ f[0] = <<>> /\ f[n] = FlattenSeq(ss)
               /\ \A i \in 1 .. n : f[i] = f[i - 1] \o ss[i]
               /\ \A i \in 0 .. n : IsSeq(f[i])
  BY FlatSteps
<1> DEFINE G == {i \in 0 .. n : Spaced(f[i])}
<1>3. 0 \in G
  BY <1>1, <1>2 DEF Spaced
<1>4. ASSUME NEW i \in 1 .. n, i - 1 \in G PROVE i \in G
  <2>1. i - 1 \in 0 .. n /\ i \in 0 .. n /\ Spaced(f[i - 1])
    BY <1>1, <1>4
  <2>2. IsSeq(f[i - 1]) /\ IsSeq(ss[i]) /\ Spaced(ss[i]) /\ f[i] = f[i - 1] \o ss[i]
    BY <1>2, <2>1
  <2>3. Spaced(f[i])
    BY <2>1, <2>2, SpacedConcat
  <2> QED BY <2>1, <2>3
<1> HIDE DEF G
<1>5. \A i \in 0 .. n : i \in G
  BY <1>1, <1>3, <1>4, UpTo
<1> QED BY <1>1, <1>2, <1>5 DEF G

\* t is s with rows put in behind x, and s itself if x is not there.
Grown(s, t, x) ==
    /\ \A i \in 1 .. Len(s) : s[i] = x =>
           i <= Len(t) /\ \A j \in 1 .. i : t[j] = s[j]
    /\ x \notin ToSet(s) => t = s

\* What grows in one of two parts grows the whole.
LEMMA GrownConcat ==
    ASSUME NEW x, NEW s, IsSeq(s), NEW t, IsSeq(t), NEW v, IsSeq(v), NEW w, IsSeq(w),
           Grown(s, t, x), Grown(v, w, x), x \notin ToSet(s) \/ x \notin ToSet(v)
    PROVE  Grown(s \o v, t \o w, x)
<1> DEFINE a == s \o v
           b == t \o w
<1>1. /\ Len(a) = Len(s) + Len(v) /\ ToSet(a) = ToSet(s) \cup ToSet(v)
      /\ \A i \in 1 .. Len(s) : a[i] = s[i]
      /\ \A i \in 1 .. Len(v) : a[Len(s) + i] = v[i]
  BY SeqConcat
<1>2. /\ Len(b) = Len(t) + Len(w)
      /\ \A i \in 1 .. Len(t) : b[i] = t[i]
      /\ \A i \in 1 .. Len(w) : b[Len(t) + i] = w[i]
  BY SeqConcat
<1>3. Len(s) \in Nat /\ Len(t) \in Nat /\ Len(v) \in Nat /\ Len(w) \in Nat
  BY SeqDomain
<1>4. x \notin ToSet(a) => b = a
  BY <1>1 DEF Grown
<1> HIDE DEF a, b
<1>5. ASSUME NEW i \in 1 .. Len(a), a[i] = x
      PROVE  i <= Len(b) /\ \A j \in 1 .. i : b[j] = a[j]
  <2>1. CASE i <= Len(s)
    <3>1. i \in 1 .. Len(s) /\ s[i] = x
      BY <1>1, <1>5, <2>1
    <3>2. i <= Len(t) /\ \A j \in 1 .. i : t[j] = s[j]
      BY <3>1 DEF Grown
    <3>3. ASSUME NEW j \in 1 .. i PROVE b[j] = a[j]
      <4>1. j \in 1 .. Len(s) /\ j \in 1 .. Len(t)
        BY <1>3, <3>1, <3>2
      <4> QED BY <1>1, <1>2, <3>2, <4>1
    <3> QED BY <1>2, <1>3, <3>2, <3>3
  <2>2. CASE i > Len(s)
    <3> DEFINE k == i - Len(s)
    <3>1. k \in 1 .. Len(v) /\ i = Len(s) + k
      BY <1>1, <1>3, <2>2
    <3> HIDE DEF k
    <3>2. v[k] = x
      BY <1>1, <1>5, <3>1
    <3>3. x \in ToSet(v)
      BY <3>1, <3>2, InSeq
    <3>4. t = s
      BY <3>3 DEF Grown
    <3>5. k <= Len(w) /\ \A j \in 1 .. k : w[j] = v[j]
      BY <3>1, <3>2 DEF Grown
    <3>6. ASSUME NEW j \in 1 .. i PROVE b[j] = a[j]
      <4>1. CASE j <= Len(s)
        <5>1. j \in 1 .. Len(s)
          BY <1>3, <4>1
        <5> QED BY <1>1, <1>2, <3>4, <5>1
      <4>2. CASE j > Len(s)
        <5> DEFINE h == j - Len(s)
        <5>1. h \in 1 .. k /\ h \in 1 .. Len(v) /\ h \in 1 .. Len(w) /\ j = Len(s) + h
          BY <1>3, <3>1, <3>5, <4>2
        <5> HIDE DEF h
        <5>2. a[j] = v[h] /\ b[j] = w[h] /\ w[h] = v[h]
          BY <1>1, <1>2, <3>4, <3>5, <5>1
        <5> QED BY <5>2
      <4> QED BY <1>1, <1>3, <4>1, <4>2
    <3>7. i <= Len(b)
      BY <1>2, <1>3, <3>1, <3>4, <3>5
    <3> QED BY <3>6, <3>7
  <2> QED BY <1>1, <1>3, <2>1, <2>2
<1>6. Grown(a, b, x)
  BY <1>4, <1>5 DEF Grown
<1> QED BY <1>6 DEF a, b

\* Nothing need grow.
LEMMA GrownSame == ASSUME NEW s, IsSeq(s), NEW x PROVE Grown(s, s, x)
<1>1. Len(s) \in Nat
  BY SeqDomain
<1> QED BY <1>1 DEF Grown

\* What grows in one member grows the flattened sequence.
LEMMA FlatGrown ==
    ASSUME NEW x, NEW ss, IsSeq(ss), NEW tt, IsSeq(tt), Len(tt) = Len(ss),
           \A i \in 1 .. Len(ss) : IsSeq(ss[i]) /\ IsSeq(tt[i]) /\ Grown(ss[i], tt[i], x),
           \A i, j \in 1 .. Len(ss) : x \in ToSet(ss[i]) /\ x \in ToSet(ss[j]) => i = j
    PROVE  Grown(FlattenSeq(ss), FlattenSeq(tt), x)
<1> DEFINE n == Len(ss)
<1>1. n \in Nat
  BY SeqDomain
<1>2. PICK f : /\ f[0] = <<>> /\ f[n] = FlattenSeq(ss)
               /\ \A i \in 1 .. n : f[i] = f[i - 1] \o ss[i]
               /\ \A i \in 0 .. n : IsSeq(f[i])
  BY FlatSteps
<1>3. PICK g : /\ g[0] = <<>> /\ g[n] = FlattenSeq(tt)
               /\ \A i \in 1 .. n : g[i] = g[i - 1] \o tt[i]
               /\ \A i \in 0 .. n : IsSeq(g[i])
  BY FlatSteps
<1> DEFINE G == {i \in 0 .. n : /\ Grown(f[i], g[i], x)
                                /\ x \in ToSet(f[i]) => \E j \in 1 .. i : x \in ToSet(ss[j])}
<1>4. 0 \in G
  <2>1. Grown(<<>>, <<>>, x)
    BY SeqEmpty, GrownSame
  <2> QED BY <1>1, <1>2, <1>3, <2>1, SeqEmpty
<1>5. ASSUME NEW i \in 1 .. n, i - 1 \in G PROVE i \in G
  <2>1. i - 1 \in 0 .. n /\ i \in 0 .. n /\ Grown(f[i - 1], g[i - 1], x)
    BY <1>1, <1>5
  <2>2. x \in ToSet(f[i - 1]) => \E j \in 1 .. i - 1 : x \in ToSet(ss[j])
    BY <1>5
  <2>3. /\ IsSeq(f[i - 1]) /\ IsSeq(g[i - 1]) /\ IsSeq(ss[i]) /\ IsSeq(tt[i])
        /\ f[i] = f[i - 1] \o ss[i] /\ g[i] = g[i - 1] \o tt[i]
        /\ Grown(ss[i], tt[i], x)
    BY <1>2, <1>3, <2>1
  <2>4. x \notin ToSet(f[i - 1]) \/ x \notin ToSet(ss[i])
    BY <1>1, <2>2
  <2>5. Grown(f[i], g[i], x)
    BY <2>1, <2>3, <2>4, GrownConcat
  <2>6. ToSet(f[i]) = ToSet(f[i - 1]) \cup ToSet(ss[i])
    BY <2>3, SeqConcat
  <2>7. x \in ToSet(f[i]) => \E j \in 1 .. i : x \in ToSet(ss[j])
    BY <1>1, <2>2, <2>6
  <2> QED BY <2>1, <2>5, <2>7
<1> HIDE DEF G
<1>6. \A i \in 0 .. n : i \in G
  BY <1>1, <1>4, <1>5, UpTo
<1> QED BY <1>1, <1>2, <1>3, <1>6 DEF G
-----------------------------------------------------------------------------
\* The least of some numbers.
LEMMA FirstOf ==
    ASSUME NEW I \in SUBSET Nat, I # {}
    PROVE  Min(I) \in I /\ \A y \in I : Min(I) <= y
<1> DEFINE R == {ss \in Nat \X Nat : ss[1] < ss[2]}
<1>1. IsWellFoundedOn(R, Nat)
  BY NatLessThanWellFounded, Zenon DEF OpToRel
<1>2. PICK x \in I : \A y \in I : <<y, x>> \notin R
  BY <1>1, WFMin, Zenon
<1>3. \A y \in I : x <= y
  <2> SUFFICES ASSUME NEW y \in I, y < x PROVE FALSE
    OBVIOUS
  <2>1. <<y, x>> \in R
    OBVIOUS
  <2> QED BY <1>2, <2>1
<1> QED BY <1>3 DEF Min

\* Where e first occurs in s.
FirstAt(s, e) == SelectInSeq(s, LAMBDA x : x = e)

\* The first place of an element, or 0.
LEMMA SelectTells ==
    ASSUME NEW s, IsSeq(s), NEW e
    PROVE  /\ e \in ToSet(s) => FirstAt(s, e) \in 1 .. Len(s) /\ s[FirstAt(s, e)] = e
           /\ e \notin ToSet(s) => FirstAt(s, e) = 0
<1> DEFINE I == {i \in 1 .. Len(s) : s[i] = e}
<1>1. FirstAt(s, e) = IF I # {} THEN Min(I) ELSE 0
  BY DEF FirstAt, SelectInSeq
<1>2. e \in ToSet(s) <=> I # {}
  BY InSeq
<1>3. I \in SUBSET Nat
  BY SeqDomain
<1>4. I # {} => Min(I) \in I
  BY <1>3, FirstOf
<1> QED BY <1>1, <1>2, <1>4

\* Only, element by element.
LEMMA OnlySteps ==
    ASSUME NEW s, IsSeq(s), NEW S
    PROVE  \E k : /\ k[0] = <<>> /\ k[Len(s)] = Only(s, S)
                  /\ \A i \in 1 .. Len(s) :
                        k[i] = IF s[i] \in S THEN Append(k[i - 1], s[i]) ELSE k[i - 1]
<1> DEFINE n == Len(s)
           it == CHOOSE k : KeepsTo(k, s, S, n)
<1>1. n \in Nat /\ DOMAIN s = 1 .. n
  BY SeqDomain
<1>2. KeepsTo(it, s, S, n)
  BY <1>1, KeepsExists
<1>3. Only(s, S) = it[n]
  BY Zenon DEF Only, KeepsTo
<1> HIDE DEF it
<1>4. it[0] = <<>>
  BY <1>1, <1>2 DEF KeepsTo
<1>5. ASSUME NEW i \in 1 .. n
      PROVE  it[i] = IF s[i] \in S THEN Append(it[i - 1], s[i]) ELSE it[i - 1]
  <2>0. i \in 0 .. n /\ i # 0
    BY <1>1
  <2>1. it[i] = CASE i = 0 -> <<>>
                  [] i # 0 /\ s[i] \in S -> Append(it[i - 1], s[i])
                  [] OTHER -> it[i - 1]
    BY <1>2, <2>0 DEF KeepsTo
  <2> QED BY <2>0, <2>1
<1> QED BY <1>3, <1>4, <1>5

\* Taking elements out repeats none.
LEMMA OnlyDistinct ==
    ASSUME NEW s, IsSeq(s), Distinct(s), NEW S
    PROVE  Distinct(Only(s, S))
<1> DEFINE n == Len(s)
<1>1. n \in Nat /\ DOMAIN s = 1 .. n
  BY SeqDomain
<1>2. PICK k : /\ k[0] = <<>> /\ k[n] = Only(s, S)
               /\ \A i \in 1 .. n : k[i] = IF s[i] \in S THEN Append(k[i - 1], s[i]) ELSE k[i - 1]
  BY OnlySteps
<1> DEFINE G == {i \in 0 .. n : /\ IsSeq(k[i]) /\ Distinct(k[i])
                                /\ \A x \in ToSet(k[i]) : \E j \in 1 .. i : x = s[j]}
<1>3. 0 \in G
  <2>1. IsSeq(<<>>) /\ ToSet(<<>>) = {} /\ Distinct(<<>>)
    BY SeqEmpty DEF Distinct
  <2> QED BY <1>1, <1>2, <2>1
<1>4. ASSUME NEW i \in 1 .. n, i - 1 \in G PROVE i \in G
  <2>1. /\ IsSeq(k[i - 1]) /\ Distinct(k[i - 1])
        /\ \A x \in ToSet(k[i - 1]) : \E j \in 1 .. i - 1 : x = s[j]
    BY <1>4
  <2>2. i \in 0 .. n /\ \A j \in 1 .. i - 1 : j \in 1 .. i /\ j \in 1 .. n /\ j # i
    BY <1>1
  <2>3. k[i] = IF s[i] \in S THEN Append(k[i - 1], s[i]) ELSE k[i - 1]
    BY <1>2
  <2>4. CASE s[i] \in S
    <3>1. s[i] \notin ToSet(k[i - 1])
      BY <2>1, <2>2 DEF Distinct
    <3>2. /\ IsSeq(Append(k[i - 1], s[i])) /\ Distinct(Append(k[i - 1], s[i]))
          /\ ToSet(Append(k[i - 1], s[i])) = ToSet(k[i - 1]) \cup {s[i]}
      BY <2>1, <3>1, AppendTells
    <3>3. i \in 1 .. i
      OBVIOUS
    <3> QED BY <2>1, <2>2, <2>3, <2>4, <3>2, <3>3
  <2>5. CASE s[i] \notin S
    BY <2>1, <2>2, <2>3, <2>5
  <2> QED BY <2>4, <2>5
<1> HIDE DEF G
<1>5. \A i \in 0 .. n : i \in G
  BY <1>1, <1>3, <1>4, UpTo
<1> QED BY <1>1, <1>2, <1>5 DEF G

\* The numbers up to n, in order.
LEMMA Counting ==
    ASSUME NEW n \in Nat
    PROVE  LET c == [i \in 1 .. n |-> i] IN IsSeq(c) /\ ToSet(c) = 1 .. n /\ Distinct(c)
<1> DEFINE c == [i \in 1 .. n |-> i]
<1>1. IsSeq(c) /\ Len(c) = n
  BY MapTells
<1>2. ToSet(c) = 1 .. n
  BY DEF ToSet
<1>3. Distinct(c)
  BY <1>1 DEF Distinct
<1> QED BY <1>1, <1>2, <1>3

\* Uniq has the elements of a sequence, once each.
LEMMA UniqTells ==
    ASSUME NEW s, IsSeq(s)
    PROVE  IsSeq(Uniq(s)) /\ Distinct(Uniq(s)) /\ ToSet(Uniq(s)) = ToSet(s)
<1> DEFINE n == Len(s)
           F == {i \in DOMAIN s : \A j \in 1 .. i - 1 : s[j] # s[i]}
           first == Only([i \in DOMAIN s |-> i], F)
           u == Uniq(s)
<1>1. n \in Nat /\ DOMAIN s = 1 .. n
  BY SeqDomain
<1>2. IsSeq(first) /\ Distinct(first) /\ ToSet(first) = F
  <2> DEFINE c == [i \in 1 .. n |-> i]
  <2>1. IsSeq(c) /\ ToSet(c) = 1 .. n /\ Distinct(c)
    BY <1>1, Counting
  <2>2. first = Only(c, F)
    BY <1>1
  <2> HIDE DEF c
  <2>3. IsSeq(Only(c, F)) /\ ToSet(Only(c, F)) = (1 .. n) \cap F /\ Distinct(Only(c, F))
    BY <2>1, OnlyTells, OnlyDistinct
  <2>4. (1 .. n) \cap F = F
    BY <1>1
  <2> QED BY <2>2, <2>3, <2>4
<1>3. u = [m \in DOMAIN first |-> s[first[m]]]
  BY Zenon DEF Uniq
<1> HIDE DEF first, u
<1>4. Len(first) \in Nat /\ DOMAIN first = 1 .. Len(first)
  BY <1>2, SeqDomain
<1>5. IsSeq(u) /\ Len(u) = Len(first)
  BY <1>3, <1>4, MapTells
<1>6. ASSUME NEW m \in 1 .. Len(first) PROVE first[m] \in F /\ u[m] = s[first[m]]
  BY <1>2, <1>3, <1>4, InSeq
<1>7. Distinct(u)
  <2> SUFFICES ASSUME NEW i \in 1 .. Len(u), NEW j \in 1 .. Len(u), u[i] = u[j] PROVE i = j
    BY DEF Distinct
  <2>1. first[i] \in F /\ first[j] \in F /\ s[first[i]] = s[first[j]]
    BY <1>5, <1>6
  <2>2. ~(first[i] < first[j]) /\ ~(first[j] < first[i])
    BY <1>1, <2>1
  <2>3. first[i] = first[j]
    BY <1>1, <2>1, <2>2
  <2> QED BY <1>2, <1>5, <2>3 DEF Distinct
<1>8. ASSUME NEW x \in ToSet(u) PROVE x \in ToSet(s)
  <2>1. PICK m \in 1 .. Len(u) : u[m] = x
    BY <1>5, InSeq
  <2>2. first[m] \in 1 .. n /\ x = s[first[m]]
    BY <1>1, <1>5, <1>6, <2>1
  <2> QED BY <2>2, InSeq
<1>9. ASSUME NEW x \in ToSet(s) PROVE x \in ToSet(u)
  <2> DEFINE I == {i \in 1 .. n : s[i] = x}
  <2>1. I # {} /\ I \in SUBSET Nat
    BY <1>1, InSeq
  <2>2. PICK i \in I : \A y \in I : i <= y
    BY <2>1, FirstOf
  <2>3. i \in F
    BY <1>1, <2>2
  <2>4. PICK m \in 1 .. Len(first) : first[m] = i
    BY <1>2, <2>3, InSeq
  <2>5. u[m] = x
    BY <1>6, <2>2, <2>4
  <2> QED BY <1>5, <2>4, <2>5, InSeq
<1>10. ToSet(u) = ToSet(s)
  BY <1>8, <1>9
<1> QED BY <1>5, <1>7, <1>10 DEF u
-----------------------------------------------------------------------------
\* A node that opens and closes.
IsGroup(k) == k[1] \in {"plugin", "skill", "model"}

\* A node is a group, a rule or a case.
LEMMA NodeKinds ==
    /\ \A x : IsGroup(x) => ~IsRule(x) /\ ~IsCase(x)
    /\ \A x : IsCase(x) => ~IsRule(x)
    /\ \A row : IsCase(CaseNode(row)) /\ CaseNode(row)[2] = row[1] /\ CaseNode(row)[3] = row[2]
    /\ \A x, y : IsRule(<<NoRule, x, y>>)
BY DEF IsGroup, IsRule, IsCase, CaseNode, NoRule

\* The keys of a unit are its plugin's, its skill's and its model's.
LEMMA KeyNames ==
    ASSUME NEW u
    PROVE  /\ IsSeq(KeysOf(u)) /\ ToSet(KeysOf(u)) = {PluginKey(u), SkillKey(u), ModelKey(u)}
           /\ KeysOf(u)[1] = PluginKey(u) /\ KeysOf(u)[2] = SkillKey(u)
           /\ KeysOf(u)[3] = ModelKey(u)
           /\ IsGroup(PluginKey(u)) /\ IsGroup(SkillKey(u)) /\ IsGroup(ModelKey(u))
<1> DEFINE a == PluginKey(u)
           b == SkillKey(u)
           c == ModelKey(u)
           ks == <<a, b, c>>
<1>1. IsGroup(a) /\ IsGroup(b) /\ IsGroup(c)
  BY DEF IsGroup, PluginKey, SkillKey, ModelKey
<1> HIDE DEF a, b, c
<1>2. ks \in Seq({a, b, c}) /\ Len(ks) = 3 /\ ks[1] = a /\ ks[2] = b /\ ks[3] = c
  OBVIOUS
<1> HIDE DEF ks
<1>3. IsSeq(ks)
  BY <1>2, SeqIn
<1>4. \A x : x \in ToSet(ks) <=> x = a \/ x = b \/ x = c
  <2>1. \A i : i \in 1 .. 3 <=> i = 1 \/ i = 2 \/ i = 3
    OBVIOUS
  <2>2. \A x : x \in ToSet(ks) <=> \E i \in 1 .. 3 : ks[i] = x
    BY <1>2, <1>3, InSeq
  <2> QED BY <1>2, <2>1, <2>2
<1>5. ToSet(ks) = {a, b, c}
  BY <1>4
<1>6. KeysOf(u) = ks
  BY DEF KeysOf, ks, a, b, c
<1> QED BY <1>1, <1>2, <1>3, <1>5, <1>6 DEF a, b, c

\* Which units share a key.
LEMMA KeyOfWhom ==
    ASSUME NEW u, NEW v
    PROVE  /\ PluginKey(u) \in ToSet(KeysOf(v)) <=> u.plugin = v.plugin
           /\ SkillKey(u) \in ToSet(KeysOf(v)) <=> u.skill = v.skill
           /\ ModelKey(u) \in ToSet(KeysOf(v)) <=> u.skill = v.skill /\ u.model = v.model
<1>1. ToSet(KeysOf(v)) = {PluginKey(v), SkillKey(v), ModelKey(v)}
  BY KeyNames
<1> QED BY <1>1 DEF PluginKey, SkillKey, ModelKey

\* The units under a key are those that have it.
LEMMA UnderTells ==
    ASSUME NEW us, IsSeq(us), NEW k
    PROVE  /\ IsSeq(UnitsUnder(us, k))
           /\ ToSet(UnitsUnder(us, k)) = {u \in ToSet(us) : k \in ToSet(KeysOf(u))}
<1> DEFINE S == {u \in ToSet(us) : k \in ToSet(KeysOf(u))}
<1>1. IsSeq(Only(us, S)) /\ ToSet(Only(us, S)) = ToSet(us) \cap S
  BY OnlyTells
<1>2. UnitsUnder(us, k) = Only(us, S)
  BY DEF UnitsUnder
<1> QED BY <1>1, <1>2

\* The groups of a level are the keys of the units there.
LEMMA GroupsTell ==
    ASSUME NEW us, IsSeq(us), NEW l
    PROVE  /\ IsSeq(Groups(us, l)) /\ Distinct(Groups(us, l))
           /\ \A k : k \in ToSet(Groups(us, l)) <=> \E u \in ToSet(us) : k = KeysOf(u)[l]
<1> DEFINE ks == [i \in DOMAIN us |-> KeysOf(us[i])[l]]
<1>1. Len(us) \in Nat /\ DOMAIN us = 1 .. Len(us)
  BY SeqDomain
<1>2. IsSeq(ks) /\ Len(ks) = Len(us)
  BY <1>1, MapTells
<1>3. \A k : k \in ToSet(ks) <=> \E u \in ToSet(us) : k = KeysOf(u)[l]
  <2>1. \A k : k \in ToSet(ks) <=> \E i \in 1 .. Len(us) : ks[i] = k
    BY <1>2, InSeq
  <2>2. \A i \in 1 .. Len(us) : ks[i] = KeysOf(us[i])[l]
    BY <1>1
  <2>3. \A u : u \in ToSet(us) <=> \E i \in 1 .. Len(us) : us[i] = u
    BY InSeq
  <2> HIDE DEF ks
  <2> QED BY <2>1, <2>2, <2>3
<1>4. Groups(us, l) = Uniq(ks)
  BY Zenon DEF Groups
<1> HIDE DEF ks
<1> QED BY <1>2, <1>3, <1>4, UniqTells

\* The units of a plan, in order, each with its cases.
Units(us) == IsSeq(us) /\ \A u \in ToSet(us) : IsSeq(u.cases)

\* The rows under a key are the cases of the units under it.
LEMMA UnderUnits ==
    ASSUME NEW us, Units(us), NEW k
    PROVE  /\ Units(UnitsUnder(us, k))
           /\ IsSeq(RowsOf(UnitsUnder(us, k)))
           /\ \A row : row \in ToSet(RowsOf(UnitsUnder(us, k))) <=>
                \E u \in ToSet(us) : k \in ToSet(KeysOf(u)) /\ row \in UnitCases(u)
<1>1. /\ IsSeq(UnitsUnder(us, k))
      /\ ToSet(UnitsUnder(us, k)) = {u \in ToSet(us) : k \in ToSet(KeysOf(u))}
  BY UnderTells DEF Units
<1>2. Units(UnitsUnder(us, k))
  BY <1>1 DEF Units
<1> QED BY <1>1, <1>2, RowsOfTells DEF Units

\* The nodes of a tier are the cases of that tier.
LEMMA TierNodesTell ==
    ASSUME NEW us, Units(us), NEW k, NEW t
    PROVE  /\ IsSeq(TierNodes(us, k, t))
           /\ \A x : x \in ToSet(TierNodes(us, k, t)) <=>
                \E row \in ToSet(RowsOf(UnitsUnder(us, k))) :
                   TierOf(row[2]) = t /\ x = CaseNode(row)
<1> DEFINE rows == RowsOf(UnitsUnder(us, k))
           own == Only(rows, OfTier(ToSet(rows), t))
           ns == [i \in DOMAIN own |-> CaseNode(own[i])]
<1>1. TierNodes(us, k, t) = ns
  BY DEF TierNodes
<1>2. IsSeq(rows)
  BY UnderUnits
<1> HIDE DEF rows
<1>3. IsSeq(own) /\ ToSet(own) = ToSet(rows) \cap OfTier(ToSet(rows), t)
  BY <1>2, OnlyTells
<1>4. \A row : row \in ToSet(own) <=> row \in ToSet(rows) /\ TierOf(row[2]) = t
  BY <1>3 DEF OfTier
<1> HIDE DEF own
<1>5. Len(own) \in Nat /\ DOMAIN own = 1 .. Len(own)
  BY <1>3, SeqDomain
<1>6. IsSeq(ns) /\ Len(ns) = Len(own)
  BY <1>5, MapTells
<1>7. \A x : x \in ToSet(ns) <=> \E i \in 1 .. Len(own) : ns[i] = x
  BY <1>6, InSeq
<1>8. \A i \in 1 .. Len(own) : ns[i] = CaseNode(own[i])
  BY <1>5
<1>9. \A row : row \in ToSet(own) <=> \E i \in 1 .. Len(own) : own[i] = row
  BY <1>3, InSeq
<1> HIDE DEF ns
<1>10. \A x : x \in ToSet(ns) <=> \E row \in ToSet(own) : x = CaseNode(row)
  BY <1>7, <1>8, <1>9
<1> QED BY <1>1, <1>4, <1>6, <1>10 DEF rows

\* Without a rule a sequence is spaced.
LEMMA PlainSpaced ==
    ASSUME NEW s, IsSeq(s), \A x \in ToSet(s) : ~IsRule(x)
    PROVE  Spaced(s)
BY InSeq DEF Spaced

\* A rule stands between the tiers only, and every case has its node.
LEMMA CaseNodesTell ==
    ASSUME NEW us, Units(us), NEW k
    PROVE  /\ IsSeq(CaseNodes(us, k)) /\ Spaced(CaseNodes(us, k))
           /\ \A x \in ToSet(CaseNodes(us, k)) :
                \/ IsRule(x)
                \/ \E row \in ToSet(RowsOf(UnitsUnder(us, k))) : x = CaseNode(row)
           /\ \A row \in ToSet(RowsOf(UnitsUnder(us, k))) :
                CaseNode(row) \in ToSet(CaseNodes(us, k))
<1> DEFINE ts == TierNodes(us, k, "triggers")
           es == TierNodes(us, k, "evals")
           rule == <<NoRule, k[2], k[3]>>
           R == ToSet(RowsOf(UnitsUnder(us, k)))
<1>1. /\ IsSeq(ts) /\ IsSeq(es)
      /\ \A x : x \in ToSet(ts) <=> \E row \in R : TierOf(row[2]) = "triggers" /\ x = CaseNode(row)
      /\ \A x : x \in ToSet(es) <=> \E row \in R : TierOf(row[2]) = "evals" /\ x = CaseNode(row)
  BY TierNodesTell
<1>2. CaseNodes(us, k) = IF ts = <<>> \/ es = <<>> THEN ts \o es ELSE ts \o <<rule>> \o es
  BY DEF CaseNodes
<1> HIDE DEF ts, es, R
<1>3. IsRule(rule) /\ \A row : ~IsRule(CaseNode(row))
  BY NodeKinds
<1> HIDE DEF rule
<1>4. \A row : TierOf(row[2]) \in {"triggers", "evals"}
  BY DEF TierOf
<1>5. Spaced(ts) /\ Spaced(es)
  BY <1>1, <1>3, PlainSpaced
<1>6. /\ IsSeq(ts \o es) /\ Spaced(ts \o es) /\ ToSet(ts \o es) = ToSet(ts) \cup ToSet(es)
  BY <1>1, <1>5, SeqConcat, SpacedConcat
<1>7. CASE ts = <<>> \/ es = <<>>
  <2>1. CaseNodes(us, k) = ts \o es
    BY <1>2, <1>7
  <2>2. \A row \in R : CaseNode(row) \in ToSet(ts) \cup ToSet(es)
    BY <1>1, <1>4, Zenon
  <2>3. \A x \in ToSet(ts) \cup ToSet(es) : \E row \in R : x = CaseNode(row)
    BY <1>1, Zenon
  <2> QED BY <1>6, <2>1, <2>2, <2>3 DEF R
<1>8. CASE ~(ts = <<>> \/ es = <<>>)
  <2> DEFINE tr == ts \o <<rule>>
  <2>1. IsSeq(<<rule>>) /\ Len(<<rule>>) = 1 /\ ToSet(<<rule>>) = {rule} /\ <<rule>>[1] = rule
    BY SeqOne
  <2>2. /\ IsSeq(tr) /\ Len(tr) = Len(ts) + 1 /\ ToSet(tr) = ToSet(ts) \cup {rule}
        /\ \A i \in 1 .. Len(ts) : tr[i] = ts[i]
    BY <1>1, <2>1, SeqConcat
  <2> HIDE DEF tr
  <2>3. Len(ts) \in Nat /\ Len(ts) # 0
    <3>1. ts \in Seq(ToSet(ts))
      BY <1>1 DEF IsSeq
    <3> QED BY <1>8, <3>1
  <2>4. \A i \in 1 .. Len(ts) : ~IsRule(ts[i])
    <3>1. ASSUME NEW x \in ToSet(ts) PROVE ~IsRule(x)
      <4>1. PICK row : row \in R /\ x = CaseNode(row)
        BY <1>1, Zenon
      <4> QED BY <1>3, <4>1, Zenon
    <3>2. \A i \in 1 .. Len(ts) : ts[i] \in ToSet(ts)
      BY <1>1, InSeq
    <3> QED BY <3>1, <3>2
  <2>5. ASSUME NEW i \in 1 .. Len(tr), IsRule(tr[i]) PROVE i > 1 /\ ~IsRule(tr[i - 1])
    <3>1. i \notin 1 .. Len(ts)
      BY <2>2, <2>4, <2>5
    <3>2. i = Len(ts) + 1 /\ i - 1 \in 1 .. Len(ts)
      BY <2>2, <2>3, <3>1
    <3>3. ~IsRule(tr[i - 1])
      BY <2>2, <2>4, <3>2
    <3> QED BY <2>3, <3>2, <3>3
  <2>6. Spaced(tr)
    BY <2>5, Zenon DEF Spaced
  <2>7. /\ IsSeq(tr \o es) /\ Spaced(tr \o es) /\ ToSet(tr \o es) = ToSet(tr) \cup ToSet(es)
    BY <1>1, <1>5, <2>2, <2>6, SeqConcat, SpacedConcat
  <2>8. CaseNodes(us, k) = tr \o es
    BY <1>2, <1>8 DEF tr
  <2>9. \A row \in R : CaseNode(row) \in ToSet(ts) \cup ToSet(es)
    BY <1>1, <1>4, Zenon
  <2>10. \A x \in ToSet(ts) \cup ToSet(es) : \E row \in R : x = CaseNode(row)
    BY <1>1, Zenon
  <2>11. ToSet(CaseNodes(us, k)) = (ToSet(ts) \cup ToSet(es)) \cup {rule}
    BY <2>2, <2>7, <2>8
  <2> QED BY <1>3, <2>7, <2>8, <2>9, <2>10, <2>11 DEF R
<1> QED BY <1>7, <1>8
-----------------------------------------------------------------------------
\* Part of a tree: groups, rules between cases, and cases of the units.
NodesFine(s, us) ==
    /\ IsSeq(s) /\ Spaced(s)
    /\ \A x \in ToSet(s) : \/ IsGroup(x) \/ IsRule(x)
                           \/ \E row \in ToSet(RowsOf(us)) : x = CaseNode(row)

\* A group in front of fine nodes.
LEMMA HeadFine ==
    ASSUME NEW us, NEW k, IsGroup(k), NEW s, NodesFine(s, us)
    PROVE  /\ NodesFine(<<k>>, us) /\ NodesFine(<<k>> \o s, us)
           /\ ToSet(<<k>> \o s) = {k} \cup ToSet(s) /\ ToSet(<<k>>) = {k}
<1>1. IsSeq(<<k>>) /\ ToSet(<<k>>) = {k}
  BY SeqOne
<1>2. ~IsRule(k)
  BY NodeKinds
<1>3. Spaced(<<k>>)
  BY <1>1, <1>2, PlainSpaced
<1>4. /\ IsSeq(<<k>> \o s) /\ Spaced(<<k>> \o s) /\ ToSet(<<k>> \o s) = {k} \cup ToSet(s)
  BY <1>1, <1>3, SeqConcat, SpacedConcat DEF NodesFine
<1> QED BY <1>1, <1>3, <1>4 DEF NodesFine

\* Fine parts make fine nodes.
LEMMA FlatFine ==
    ASSUME NEW us, NEW ss, IsSeq(ss), \A i \in 1 .. Len(ss) : NodesFine(ss[i], us)
    PROVE  NodesFine(FlattenSeq(ss), us)
<1>1. \A i \in 1 .. Len(ss) : IsSeq(ss[i]) /\ Spaced(ss[i])
  BY DEF NodesFine
<1>2. /\ IsSeq(FlattenSeq(ss))
      /\ \A x : x \in ToSet(FlattenSeq(ss)) <=> \E i \in 1 .. Len(ss) : x \in ToSet(ss[i])
  BY <1>1, FlatTells
<1>3. Spaced(FlattenSeq(ss))
  BY <1>1, FlatSpaced
<1>4. ASSUME NEW x \in ToSet(FlattenSeq(ss))
      PROVE  \/ IsGroup(x) \/ IsRule(x)
             \/ \E row \in ToSet(RowsOf(us)) : x = CaseNode(row)
  <2>1. PICK i \in 1 .. Len(ss) : x \in ToSet(ss[i])
    BY <1>2
  <2>2. NodesFine(ss[i], us)
    OBVIOUS
  <2> QED BY <2>1, <2>2 DEF NodesFine
<1> QED BY <1>2, <1>3, <1>4 DEF NodesFine

\* The nodes of a model: itself, and the cases when it is open.
LEMMA ModelNodesTell ==
    ASSUME NEW us, Units(us), NEW open, NEW k, IsGroup(k)
    PROVE  /\ NodesFine(ModelNodes(us, open, k), us)
           /\ k \in ToSet(ModelNodes(us, open, k))
           /\ \A x \in ToSet(ModelNodes(us, open, k)) : IsGroup(x) => x = k
           /\ \A u \in ToSet(us) : \A row \in UnitCases(u) :
                k = ModelKey(u) /\ ModelKey(u) \in open
                  => CaseNode(row) \in ToSet(ModelNodes(us, open, k))
<1> DEFINE cs == CaseNodes(us, k)
           R == ToSet(RowsOf(UnitsUnder(us, k)))
<1>1. /\ IsSeq(cs) /\ Spaced(cs)
      /\ \A x \in ToSet(cs) : IsRule(x) \/ \E row \in R : x = CaseNode(row)
      /\ \A row \in R : CaseNode(row) \in ToSet(cs)
  BY CaseNodesTell
<1>2. ModelNodes(us, open, k) = IF k \in open THEN <<k>> \o cs ELSE <<k>>
  BY DEF ModelNodes
<1> HIDE DEF cs
<1>3. \A row : row \in R <=> \E u \in ToSet(us) : k \in ToSet(KeysOf(u)) /\ row \in UnitCases(u)
  BY UnderUnits
<1> HIDE DEF R
<1>4. R \subseteq ToSet(RowsOf(us))
  BY <1>3, RowsOfTells DEF Units
<1>5. NodesFine(cs, us)
  BY <1>1, <1>4 DEF NodesFine
<1>6. /\ NodesFine(<<k>>, us) /\ NodesFine(<<k>> \o cs, us)
      /\ ToSet(<<k>> \o cs) = {k} \cup ToSet(cs) /\ ToSet(<<k>>) = {k}
  BY <1>5, HeadFine
<1>7. \A x \in ToSet(cs) : ~IsGroup(x)
  <2> SUFFICES ASSUME NEW x \in ToSet(cs), IsGroup(x) PROVE FALSE
    OBVIOUS
  <2>1. ~IsRule(x) /\ ~IsCase(x)
    BY NodeKinds
  <2>2. PICK row : row \in R /\ x = CaseNode(row)
    BY <1>1, <2>1
  <2> QED BY <2>1, <2>2, NodeKinds
<1>8. ASSUME NEW u \in ToSet(us), NEW row \in UnitCases(u), k = ModelKey(u), ModelKey(u) \in open
      PROVE  CaseNode(row) \in ToSet(ModelNodes(us, open, k))
  <2>1. k \in ToSet(KeysOf(u))
    BY <1>8, KeyOfWhom
  <2>2. CaseNode(row) \in ToSet(cs)
    BY <1>1, <1>3, <2>1
  <2> QED BY <1>2, <1>6, <1>8, <2>2
<1> QED BY <1>2, <1>6, <1>7, <1>8

\* The nodes of a skill: itself, and its models when it is open.
LEMMA SkillNodesTell ==
    ASSUME NEW us, Units(us), NEW open, NEW k, IsGroup(k)
    PROVE  /\ NodesFine(SkillNodes(us, open, k), us)
           /\ k \in ToSet(SkillNodes(us, open, k))
           /\ \A x \in ToSet(SkillNodes(us, open, k)) : IsGroup(x) =>
                x = k \/ x \in ToSet(Groups(UnitsUnder(us, k), 3))
           /\ \A u \in ToSet(us) : \A row \in UnitCases(u) :
                k = SkillKey(u) /\ {SkillKey(u), ModelKey(u)} \subseteq open
                  => CaseNode(row) \in ToSet(SkillNodes(us, open, k))
<1> DEFINE below == UnitsUnder(us, k)
           ms == Groups(below, 3)
           ss == [i \in DOMAIN ms |-> ModelNodes(us, open, ms[i])]
           cs == FlattenSeq(ss)
<1>1. SkillNodes(us, open, k) = IF k \in open THEN <<k>> \o cs ELSE <<k>>
  BY Zenon DEF SkillNodes
<1>2. IsSeq(below) /\ ToSet(below) = {u \in ToSet(us) : k \in ToSet(KeysOf(u))}
  BY UnderTells DEF Units
<1> HIDE DEF below
<1>3. IsSeq(ms) /\ \A x : x \in ToSet(ms) <=> \E u \in ToSet(below) : x = KeysOf(u)[3]
  BY <1>2, GroupsTell
<1>4. \A x : x \in ToSet(ms) <=> \E u \in ToSet(below) : x = ModelKey(u)
  BY <1>3, KeyNames
<1>5. \A x \in ToSet(ms) : IsGroup(x)
  BY <1>4, KeyNames
<1> HIDE DEF ms
<1>6. Len(ms) \in Nat /\ DOMAIN ms = 1 .. Len(ms)
  BY <1>3, SeqDomain
<1>7. IsSeq(ss) /\ Len(ss) = Len(ms)
  BY <1>6, MapTells
<1>8. ASSUME NEW i \in 1 .. Len(ss)
      PROVE  ms[i] \in ToSet(ms) /\ IsGroup(ms[i]) /\ ss[i] = ModelNodes(us, open, ms[i])
  BY <1>3, <1>5, <1>6, <1>7, InSeq
<1> HIDE DEF ss
<1>9. \A i \in 1 .. Len(ss) : NodesFine(ss[i], us)
  BY <1>8, ModelNodesTell
<1>10. NodesFine(cs, us)
  BY <1>7, <1>9, FlatFine
<1>11. \A x : x \in ToSet(cs) <=> \E i \in 1 .. Len(ss) : x \in ToSet(ss[i])
  BY <1>7, <1>9, FlatTells DEF NodesFine
<1> HIDE DEF cs
<1>12. /\ NodesFine(<<k>>, us) /\ NodesFine(<<k>> \o cs, us)
       /\ ToSet(<<k>> \o cs) = {k} \cup ToSet(cs) /\ ToSet(<<k>>) = {k}
  BY <1>10, HeadFine
<1>13. ASSUME NEW x \in ToSet(cs), IsGroup(x) PROVE x \in ToSet(ms)
  <2>1. PICK i \in 1 .. Len(ss) : x \in ToSet(ss[i])
    BY <1>11
  <2>2. x = ms[i]
    BY <1>8, <1>13, <2>1, ModelNodesTell
  <2> QED BY <1>8, <2>2
<1>14. ASSUME NEW u \in ToSet(us), NEW row \in UnitCases(u), k = SkillKey(u),
              {SkillKey(u), ModelKey(u)} \subseteq open
       PROVE  CaseNode(row) \in ToSet(SkillNodes(us, open, k))
  <2>1. u \in ToSet(below)
    BY <1>2, <1>14, KeyOfWhom
  <2>2. PICK i \in 1 .. Len(ms) : ms[i] = ModelKey(u)
    BY <1>3, <1>4, <2>1, InSeq
  <2>3. CaseNode(row) \in ToSet(ss[i])
    BY <1>7, <1>8, <1>14, <2>2, ModelNodesTell
  <2>4. CaseNode(row) \in ToSet(cs)
    BY <1>7, <1>11, <2>2, <2>3
  <2> QED BY <1>1, <1>12, <1>14, <2>4
<1> QED BY <1>1, <1>12, <1>13, <1>14 DEF ms, below

\* The nodes of a plugin: itself, and its skills when it is open.
LEMMA PluginNodesTell ==
    ASSUME NEW us, Units(us), NEW open, NEW k, IsGroup(k)
    PROVE  /\ NodesFine(PluginNodes(us, open, k), us)
           /\ k \in ToSet(PluginNodes(us, open, k))
           /\ \A x \in ToSet(PluginNodes(us, open, k)) : IsGroup(x) =>
                \/ x = k
                \/ \E s \in ToSet(Groups(UnitsUnder(us, k), 2)) :
                      x = s \/ x \in ToSet(Groups(UnitsUnder(us, s), 3))
           /\ \A u \in ToSet(us) : \A row \in UnitCases(u) :
                k = PluginKey(u) /\ ToSet(KeysOf(u)) \subseteq open
                  => CaseNode(row) \in ToSet(PluginNodes(us, open, k))
<1> DEFINE below == UnitsUnder(us, k)
           ms == Groups(below, 2)
           ss == [i \in DOMAIN ms |-> SkillNodes(us, open, ms[i])]
           cs == FlattenSeq(ss)
<1>1. PluginNodes(us, open, k) = IF k \in open THEN <<k>> \o cs ELSE <<k>>
  BY Zenon DEF PluginNodes
<1>2. IsSeq(below) /\ ToSet(below) = {u \in ToSet(us) : k \in ToSet(KeysOf(u))}
  BY UnderTells DEF Units
<1> HIDE DEF below
<1>3. IsSeq(ms) /\ \A x : x \in ToSet(ms) <=> \E u \in ToSet(below) : x = KeysOf(u)[2]
  BY <1>2, GroupsTell
<1>4. \A x : x \in ToSet(ms) <=> \E u \in ToSet(below) : x = SkillKey(u)
  BY <1>3, KeyNames
<1>5. \A x \in ToSet(ms) : IsGroup(x)
  BY <1>4, KeyNames
<1> HIDE DEF ms
<1>6. Len(ms) \in Nat /\ DOMAIN ms = 1 .. Len(ms)
  BY <1>3, SeqDomain
<1>7. IsSeq(ss) /\ Len(ss) = Len(ms)
  BY <1>6, MapTells
<1>8. ASSUME NEW i \in 1 .. Len(ss)
      PROVE  ms[i] \in ToSet(ms) /\ IsGroup(ms[i]) /\ ss[i] = SkillNodes(us, open, ms[i])
  BY <1>3, <1>5, <1>6, <1>7, InSeq
<1> HIDE DEF ss
<1>9. \A i \in 1 .. Len(ss) : NodesFine(ss[i], us)
  BY <1>8, SkillNodesTell
<1>10. NodesFine(cs, us)
  BY <1>7, <1>9, FlatFine
<1>11. \A x : x \in ToSet(cs) <=> \E i \in 1 .. Len(ss) : x \in ToSet(ss[i])
  BY <1>7, <1>9, FlatTells DEF NodesFine
<1> HIDE DEF cs
<1>12. /\ NodesFine(<<k>>, us) /\ NodesFine(<<k>> \o cs, us)
       /\ ToSet(<<k>> \o cs) = {k} \cup ToSet(cs) /\ ToSet(<<k>>) = {k}
  BY <1>10, HeadFine
<1>13. ASSUME NEW x \in ToSet(cs), IsGroup(x)
       PROVE  \E s \in ToSet(ms) : x = s \/ x \in ToSet(Groups(UnitsUnder(us, s), 3))
  <2>1. PICK i \in 1 .. Len(ss) : x \in ToSet(ss[i])
    BY <1>11
  <2>2. x = ms[i] \/ x \in ToSet(Groups(UnitsUnder(us, ms[i]), 3))
    BY <1>8, <1>13, <2>1, SkillNodesTell
  <2> QED BY <1>8, <2>2
<1>14. ASSUME NEW u \in ToSet(us), NEW row \in UnitCases(u), k = PluginKey(u),
              ToSet(KeysOf(u)) \subseteq open
       PROVE  CaseNode(row) \in ToSet(PluginNodes(us, open, k))
  <2>1. u \in ToSet(below)
    BY <1>2, <1>14, KeyOfWhom
  <2>2. PICK i \in 1 .. Len(ms) : ms[i] = SkillKey(u)
    BY <1>3, <1>4, <2>1, InSeq
  <2>3. {PluginKey(u), SkillKey(u), ModelKey(u)} \subseteq open
    BY <1>14, KeyNames
  <2>4. CaseNode(row) \in ToSet(ss[i])
    BY <1>7, <1>8, <2>2, <2>3, SkillNodesTell
  <2>5. CaseNode(row) \in ToSet(cs)
    BY <1>7, <1>11, <2>2, <2>4
  <2> QED BY <1>1, <1>12, <1>14, <2>3, <2>5
<1> QED BY <1>1, <1>12, <1>13, <1>14 DEF ms, below

\* The tree is fine, begins with a group, and shows the cases of open groups.
LEMMA TreeTells ==
    ASSUME NEW us, Units(us), NEW open
    PROVE  /\ NodesFine(Tree(us, open), us)
           /\ us # <<>> => Len(Tree(us, open)) >= 1
           /\ \A u \in ToSet(us) : \A row \in UnitCases(u) :
                ToSet(KeysOf(u)) \subseteq open => CaseNode(row) \in ToSet(Tree(us, open))
<1> DEFINE ms == Groups(us, 1)
           ss == [i \in DOMAIN ms |-> PluginNodes(us, open, ms[i])]
           cs == FlattenSeq(ss)
<1>1. Tree(us, open) = cs
  BY Zenon DEF Tree
<1>3. IsSeq(ms) /\ \A x : x \in ToSet(ms) <=> \E u \in ToSet(us) : x = KeysOf(u)[1]
  BY GroupsTell DEF Units
<1>4. \A x : x \in ToSet(ms) <=> \E u \in ToSet(us) : x = PluginKey(u)
  BY <1>3, KeyNames
<1>5. \A x \in ToSet(ms) : IsGroup(x)
  BY <1>4, KeyNames
<1> HIDE DEF ms
<1>6. Len(ms) \in Nat /\ DOMAIN ms = 1 .. Len(ms)
  BY <1>3, SeqDomain
<1>7. IsSeq(ss) /\ Len(ss) = Len(ms)
  BY <1>6, MapTells
<1>8. ASSUME NEW i \in 1 .. Len(ss)
      PROVE  ms[i] \in ToSet(ms) /\ IsGroup(ms[i]) /\ ss[i] = PluginNodes(us, open, ms[i])
  BY <1>3, <1>5, <1>6, <1>7, InSeq
<1> HIDE DEF ss
<1>9. \A i \in 1 .. Len(ss) : NodesFine(ss[i], us)
  BY <1>8, PluginNodesTell
<1>10. NodesFine(cs, us)
  BY <1>7, <1>9, FlatFine
<1>11. \A x : x \in ToSet(cs) <=> \E i \in 1 .. Len(ss) : x \in ToSet(ss[i])
  BY <1>7, <1>9, FlatTells DEF NodesFine
<1> HIDE DEF cs
<1>12. ASSUME NEW u \in ToSet(us)
       PROVE  \E i \in 1 .. Len(ss) : ms[i] = PluginKey(u)
  BY <1>3, <1>4, <1>7, InSeq
<1>13. ASSUME us # <<>> PROVE Len(cs) >= 1
  <2>1. PICK u : u \in ToSet(us)
    <3>1. us \in Seq(ToSet(us))
      BY DEF Units, IsSeq
    <3>2. us[1] \in ToSet(us)
      BY <1>13, <3>1
    <3> QED BY <3>2
  <2>2. PICK i \in 1 .. Len(ss) : ms[i] = PluginKey(u)
    BY <1>12, <2>1
  <2>3. ms[i] \in ToSet(cs)
    BY <1>8, <1>11, <2>2, PluginNodesTell
  <2>4. \E j \in 1 .. Len(cs) : cs[j] = ms[i]
    BY <1>10, <2>3, InSeq DEF NodesFine
  <2>5. Len(cs) \in Nat
    BY <1>10, SeqDomain DEF NodesFine
  <2> QED BY <2>4, <2>5
<1>14. ASSUME NEW u \in ToSet(us), NEW row \in UnitCases(u), ToSet(KeysOf(u)) \subseteq open
       PROVE  CaseNode(row) \in ToSet(cs)
  <2>1. PICK i \in 1 .. Len(ss) : ms[i] = PluginKey(u)
    BY <1>12
  <2>2. CaseNode(row) \in ToSet(ss[i])
    BY <1>8, <1>14, <2>1, PluginNodesTell
  <2> QED BY <1>11, <2>2
<1> QED BY <1>1, <1>10, <1>13, <1>14
-----------------------------------------------------------------------------
\* A group grows when it opens.
LEMMA HeadGrown ==
    ASSUME NEW x, NEW s, IsSeq(s)
    PROVE  Grown(<<x>>, <<x>>, x) /\ Grown(<<x>>, <<x>> \o s, x)
<1>1. IsSeq(<<x>>) /\ Len(<<x>>) = 1 /\ ToSet(<<x>>) = {x} /\ <<x>>[1] = x
  BY SeqOne
<1> DEFINE t == <<x>> \o s
<1>2. /\ Len(t) = Len(<<x>>) + Len(s)
      /\ \A i \in 1 .. Len(<<x>>) : t[i] = <<x>>[i]
  BY <1>1, SeqConcat
<1>3. Len(s) \in Nat
  BY SeqDomain
<1> HIDE DEF t
<1>4. \A i \in 1 .. 1 : i = 1
  OBVIOUS
<1>5. 1 <= Len(t) /\ t[1] = <<x>>[1]
  BY <1>1, <1>2, <1>3
<1>6. Grown(<<x>>, t, x)
  BY <1>1, <1>4, <1>5 DEF Grown
<1> QED BY <1>1, <1>6, GrownSame DEF t

\* A group in front stays where it is.
LEMMA BehindGrown ==
    ASSUME NEW x, NEW k, k # x, NEW s, IsSeq(s), NEW t, IsSeq(t), Grown(s, t, x)
    PROVE  Grown(<<k>> \o s, <<k>> \o t, x)
<1>1. IsSeq(<<k>>) /\ x \notin ToSet(<<k>>)
  BY SeqOne
<1> QED BY <1>1, GrownSame, GrownConcat

\* Opening a group moves only what is behind it, within a model.
LEMMA ModelGrown ==
    ASSUME NEW us, Units(us), NEW open, NEW x, IsGroup(x), x \notin open, NEW k, IsGroup(k)
    PROVE  Grown(ModelNodes(us, open, k), ModelNodes(us, open \cup {x}, k), x)
<1>1. IsSeq(CaseNodes(us, k))
  BY CaseNodesTell
<1>2. CASE x = k
  <2>1. /\ ModelNodes(us, open, k) = <<x>>
        /\ ModelNodes(us, open \cup {x}, k) = <<x>> \o CaseNodes(us, k)
    BY <1>2 DEF ModelNodes
  <2> QED BY <1>1, <2>1, HeadGrown
<1>3. CASE x # k
  <2>1. ModelNodes(us, open \cup {x}, k) = ModelNodes(us, open, k)
    BY <1>3 DEF ModelNodes
  <2>2. IsSeq(ModelNodes(us, open, k))
    BY ModelNodesTell DEF NodesFine
  <2> QED BY <2>1, <2>2, GrownSame
<1> QED BY <1>2, <1>3

\* The same within a skill.
LEMMA SkillGrown ==
    ASSUME NEW us, Units(us), NEW open, NEW x, IsGroup(x), x \notin open, NEW k, IsGroup(k)
    PROVE  Grown(SkillNodes(us, open, k), SkillNodes(us, open \cup {x}, k), x)
<1> DEFINE more == open \cup {x}
           ms == Groups(UnitsUnder(us, k), 3)
           ss(o) == [i \in DOMAIN ms |-> ModelNodes(us, o, ms[i])]
           cs(o) == FlattenSeq(ss(o))
<1>1. \A o : SkillNodes(us, o, k) = IF k \in o THEN <<k>> \o cs(o) ELSE <<k>>
  BY Zenon DEF SkillNodes
<1>2. IsSeq(UnitsUnder(us, k))
  BY UnderTells DEF Units
<1>3. /\ IsSeq(ms) /\ Distinct(ms)
      /\ \A y : y \in ToSet(ms) <=> \E u \in ToSet(UnitsUnder(us, k)) : y = KeysOf(u)[3]
  BY <1>2, GroupsTell
<1>4. \A y \in ToSet(ms) : IsGroup(y)
  BY <1>3, KeyNames
<1> HIDE DEF ms
<1>5. Len(ms) \in Nat /\ DOMAIN ms = 1 .. Len(ms)
  BY <1>3, SeqDomain
<1>6. ASSUME NEW o
      PROVE  /\ IsSeq(ss(o)) /\ Len(ss(o)) = Len(ms)
             /\ \A i \in 1 .. Len(ms) : ss(o)[i] = ModelNodes(us, o, ms[i]) /\ IsGroup(ms[i])
  <2>1. IsSeq(ss(o)) /\ Len(ss(o)) = Len(ms)
    BY <1>5, MapTells
  <2> QED BY <1>3, <1>4, <1>5, <2>1, InSeq
<1> HIDE DEF ss
<1>7. ASSUME NEW o PROVE IsSeq(cs(o))
  <2>1. \A i \in 1 .. Len(ss(o)) : IsSeq(ss(o)[i])
    BY <1>6, ModelNodesTell DEF NodesFine
  <2> QED BY <1>6, <2>1, FlatTells
<1>8. Grown(cs(open), cs(more), x)
  <2> DEFINE s == ss(open)
             t == ss(more)
  <2>1. /\ IsSeq(s) /\ IsSeq(t) /\ Len(s) = Len(ms) /\ Len(t) = Len(ms)
        /\ \A i \in 1 .. Len(ms) : /\ s[i] = ModelNodes(us, open, ms[i]) /\ IsGroup(ms[i])
                                   /\ t[i] = ModelNodes(us, more, ms[i])
    BY <1>6
  <2> HIDE DEF s, t
  <2>2. ASSUME NEW i \in 1 .. Len(s) PROVE IsSeq(s[i]) /\ IsSeq(t[i]) /\ Grown(s[i], t[i], x)
    BY <2>1, ModelGrown, ModelNodesTell DEF NodesFine
  <2>3. ASSUME NEW i \in 1 .. Len(s), NEW j \in 1 .. Len(s), x \in ToSet(s[i]), x \in ToSet(s[j])
        PROVE  i = j
    <3>1. x = ms[i] /\ x = ms[j]
      BY <2>1, <2>3, ModelNodesTell
    <3> QED BY <1>3, <2>1, <3>1 DEF Distinct
  <2>4. Grown(FlattenSeq(s), FlattenSeq(t), x)
    BY <2>1, <2>2, <2>3, FlatGrown
  <2> QED BY <2>4 DEF s, t
<1> HIDE DEF cs
<1>9. CASE x = k
  <2>1. SkillNodes(us, open, k) = <<x>> /\ SkillNodes(us, more, k) = <<x>> \o cs(more)
    BY <1>1, <1>9
  <2> QED BY <1>7, <2>1, HeadGrown
<1>10. CASE x # k /\ k \in open
  <2>1. SkillNodes(us, open, k) = <<k>> \o cs(open) /\ SkillNodes(us, more, k) = <<k>> \o cs(more)
    BY <1>1, <1>10
  <2> QED BY <1>7, <1>8, <1>10, <2>1, BehindGrown
<1>11. CASE x # k /\ k \notin open
  <2>1. SkillNodes(us, open, k) = <<k>> /\ SkillNodes(us, more, k) = <<k>>
    BY <1>1, <1>11
  <2> QED BY <2>1, SeqOne, GrownSame
<1> QED BY <1>9, <1>10, <1>11

\* The same within a plugin.
LEMMA PluginGrown ==
    ASSUME NEW us, Units(us), NEW open, NEW x, IsGroup(x), x \notin open, NEW k, IsGroup(k)
    PROVE  Grown(PluginNodes(us, open, k), PluginNodes(us, open \cup {x}, k), x)
<1> DEFINE more == open \cup {x}
           ms == Groups(UnitsUnder(us, k), 2)
           ss(o) == [i \in DOMAIN ms |-> SkillNodes(us, o, ms[i])]
           cs(o) == FlattenSeq(ss(o))
<1>1. \A o : PluginNodes(us, o, k) = IF k \in o THEN <<k>> \o cs(o) ELSE <<k>>
  BY Zenon DEF PluginNodes
<1>2. IsSeq(UnitsUnder(us, k))
  BY UnderTells DEF Units
<1>3. /\ IsSeq(ms) /\ Distinct(ms)
      /\ \A y : y \in ToSet(ms) <=> \E u \in ToSet(UnitsUnder(us, k)) : y = KeysOf(u)[2]
  BY <1>2, GroupsTell
<1>4. \A y \in ToSet(ms) : IsGroup(y) /\ \E u : y = SkillKey(u)
  BY <1>3, KeyNames
<1> HIDE DEF ms
<1>5. Len(ms) \in Nat /\ DOMAIN ms = 1 .. Len(ms)
  BY <1>3, SeqDomain
<1>6. ASSUME NEW o
      PROVE  /\ IsSeq(ss(o)) /\ Len(ss(o)) = Len(ms)
             /\ \A i \in 1 .. Len(ms) : /\ ss(o)[i] = SkillNodes(us, o, ms[i])
                                        /\ IsGroup(ms[i]) /\ ms[i] \in ToSet(ms)
  <2>1. IsSeq(ss(o)) /\ Len(ss(o)) = Len(ms)
    BY <1>5, MapTells
  <2> QED BY <1>3, <1>4, <1>5, <2>1, InSeq
<1> HIDE DEF ss
<1>7. ASSUME NEW o PROVE IsSeq(cs(o))
  <2>1. \A i \in 1 .. Len(ss(o)) : IsSeq(ss(o)[i])
    BY <1>6, SkillNodesTell DEF NodesFine
  <2> QED BY <1>6, <2>1, FlatTells
<1>12. ASSUME NEW y \in ToSet(ms), NEW o, x \in ToSet(SkillNodes(us, o, y))
       PROVE  \E v : x \in {SkillKey(v), ModelKey(v)} /\ y = SkillKey(v)
  <2>1. x = y \/ x \in ToSet(Groups(UnitsUnder(us, y), 3))
    BY <1>4, <1>12, SkillNodesTell
  <2>2. PICK w : y = SkillKey(w)
    BY <1>4
  <2>3. CASE x \in ToSet(Groups(UnitsUnder(us, y), 3))
    <3>1. /\ IsSeq(UnitsUnder(us, y))
          /\ ToSet(UnitsUnder(us, y)) = {u \in ToSet(us) : y \in ToSet(KeysOf(u))}
      BY UnderTells DEF Units
    <3>2. PICK v \in ToSet(UnitsUnder(us, y)) : x = KeysOf(v)[3]
      BY <2>3, <3>1, GroupsTell
    <3>3. x = ModelKey(v) /\ w.skill = v.skill
      BY <2>2, <3>1, <3>2, KeyNames, KeyOfWhom
    <3> QED BY <2>2, <3>3 DEF SkillKey
  <2> QED BY <2>1, <2>2, <2>3
<1>8. Grown(cs(open), cs(more), x)
  <2> DEFINE s == ss(open)
             t == ss(more)
  <2>1. /\ IsSeq(s) /\ IsSeq(t) /\ Len(s) = Len(ms) /\ Len(t) = Len(ms)
        /\ \A i \in 1 .. Len(ms) : /\ s[i] = SkillNodes(us, open, ms[i]) /\ IsGroup(ms[i])
                                   /\ t[i] = SkillNodes(us, more, ms[i]) /\ ms[i] \in ToSet(ms)
    BY <1>6
  <2> HIDE DEF s, t
  <2>2. ASSUME NEW i \in 1 .. Len(s) PROVE IsSeq(s[i]) /\ IsSeq(t[i]) /\ Grown(s[i], t[i], x)
    BY <2>1, SkillGrown, SkillNodesTell DEF NodesFine
  <2>3. ASSUME NEW i \in 1 .. Len(s), NEW j \in 1 .. Len(s), x \in ToSet(s[i]), x \in ToSet(s[j])
        PROVE  i = j
    <3>1. PICK v : x \in {SkillKey(v), ModelKey(v)} /\ ms[i] = SkillKey(v)
      BY <1>12, <2>1, <2>3
    <3>2. PICK w : x \in {SkillKey(w), ModelKey(w)} /\ ms[j] = SkillKey(w)
      BY <1>12, <2>1, <2>3
    <3>3. ms[i] = ms[j]
      BY <3>1, <3>2 DEF SkillKey, ModelKey
    <3> QED BY <1>3, <2>1, <3>3 DEF Distinct
  <2>4. Grown(FlattenSeq(s), FlattenSeq(t), x)
    BY <2>1, <2>2, <2>3, FlatGrown
  <2> QED BY <2>4 DEF s, t
<1> HIDE DEF cs
<1>9. CASE x = k
  <2>1. PluginNodes(us, open, k) = <<x>> /\ PluginNodes(us, more, k) = <<x>> \o cs(more)
    BY <1>1, <1>9
  <2> QED BY <1>7, <2>1, HeadGrown
<1>10. CASE x # k /\ k \in open
  <2>1. PluginNodes(us, open, k) = <<k>> \o cs(open) /\ PluginNodes(us, more, k) = <<k>> \o cs(more)
    BY <1>1, <1>10
  <2> QED BY <1>7, <1>8, <1>10, <2>1, BehindGrown
<1>11. CASE x # k /\ k \notin open
  <2>1. PluginNodes(us, open, k) = <<k>> /\ PluginNodes(us, more, k) = <<k>>
    BY <1>1, <1>11
  <2> QED BY <2>1, SeqOne, GrownSame
<1> QED BY <1>9, <1>10, <1>11

\* A skill belongs to one plugin.
OnePlugin(us) == \A u, v \in ToSet(us) : u.skill = v.skill => u.plugin = v.plugin

\* Opening a group moves only what is behind it.
LEMMA TreeGrown ==
    ASSUME NEW us, Units(us), OnePlugin(us), NEW open, NEW x, IsGroup(x), x \notin open
    PROVE  Grown(Tree(us, open), Tree(us, open \cup {x}), x)
<1> DEFINE more == open \cup {x}
           ms == Groups(us, 1)
           ss(o) == [i \in DOMAIN ms |-> PluginNodes(us, o, ms[i])]
           cs(o) == FlattenSeq(ss(o))
<1>1. \A o : Tree(us, o) = cs(o)
  BY Zenon DEF Tree
<1>3. /\ IsSeq(ms) /\ Distinct(ms)
      /\ \A y : y \in ToSet(ms) <=> \E u \in ToSet(us) : y = KeysOf(u)[1]
  BY GroupsTell DEF Units
<1>4. \A y \in ToSet(ms) : IsGroup(y) /\ \E u \in ToSet(us) : y = PluginKey(u)
  BY <1>3, KeyNames
<1> HIDE DEF ms
<1>5. Len(ms) \in Nat /\ DOMAIN ms = 1 .. Len(ms)
  BY <1>3, SeqDomain
<1>6. ASSUME NEW o
      PROVE  /\ IsSeq(ss(o)) /\ Len(ss(o)) = Len(ms)
             /\ \A i \in 1 .. Len(ms) : /\ ss(o)[i] = PluginNodes(us, o, ms[i])
                                        /\ IsGroup(ms[i]) /\ ms[i] \in ToSet(ms)
  <2>1. IsSeq(ss(o)) /\ Len(ss(o)) = Len(ms)
    BY <1>5, MapTells
  <2> QED BY <1>3, <1>4, <1>5, <2>1, InSeq
<1> HIDE DEF ss
<1>12. ASSUME NEW y \in ToSet(ms), NEW o, x \in ToSet(PluginNodes(us, o, y))
       PROVE  \E v \in ToSet(us) :
                x \in {PluginKey(v), SkillKey(v), ModelKey(v)} /\ y = PluginKey(v)
  <2>1. PICK w \in ToSet(us) : y = PluginKey(w)
    BY <1>4
  <2>2. CASE x = y
    BY <2>1, <2>2
  <2>3. CASE x # y
    <3>1. PICK s \in ToSet(Groups(UnitsUnder(us, y), 2)) :
                x = s \/ x \in ToSet(Groups(UnitsUnder(us, s), 3))
      BY <1>4, <1>12, <2>3, PluginNodesTell
    <3>2. \A q : /\ IsSeq(UnitsUnder(us, q))
                 /\ ToSet(UnitsUnder(us, q)) = {u \in ToSet(us) : q \in ToSet(KeysOf(u))}
      BY UnderTells DEF Units
    <3>3. PICK u \in ToSet(UnitsUnder(us, y)) : s = KeysOf(u)[2]
      BY <3>1, <3>2, GroupsTell
    <3>4. s = SkillKey(u) /\ u \in ToSet(us) /\ w.plugin = u.plugin
      BY <2>1, <3>2, <3>3, KeyNames, KeyOfWhom
    <3>5. y = PluginKey(u)
      BY <2>1, <3>4 DEF PluginKey
    <3>6. CASE x # s
      <4>1. PICK v \in ToSet(UnitsUnder(us, s)) : x = KeysOf(v)[3]
        BY <3>1, <3>2, <3>6, GroupsTell
      <4>2. x = ModelKey(v) /\ v \in ToSet(us) /\ u.skill = v.skill
        BY <3>2, <3>4, <4>1, KeyNames, KeyOfWhom
      <4>3. u.plugin = v.plugin
        BY <3>4, <4>2 DEF OnePlugin
      <4> QED BY <3>5, <4>2, <4>3 DEF PluginKey
    <3> QED BY <3>4, <3>5, <3>6
  <2> QED BY <2>2, <2>3
<1>8. Grown(cs(open), cs(more), x)
  <2> DEFINE s == ss(open)
             t == ss(more)
  <2>1. /\ IsSeq(s) /\ IsSeq(t) /\ Len(s) = Len(ms) /\ Len(t) = Len(ms)
        /\ \A i \in 1 .. Len(ms) : /\ s[i] = PluginNodes(us, open, ms[i]) /\ IsGroup(ms[i])
                                   /\ t[i] = PluginNodes(us, more, ms[i]) /\ ms[i] \in ToSet(ms)
    BY <1>6
  <2> HIDE DEF s, t
  <2>2. ASSUME NEW i \in 1 .. Len(s) PROVE IsSeq(s[i]) /\ IsSeq(t[i]) /\ Grown(s[i], t[i], x)
    BY <2>1, PluginGrown, PluginNodesTell DEF NodesFine
  <2>3. ASSUME NEW i \in 1 .. Len(s), NEW j \in 1 .. Len(s), x \in ToSet(s[i]), x \in ToSet(s[j])
        PROVE  i = j
    <3>1. PICK v \in ToSet(us) :
            x \in {PluginKey(v), SkillKey(v), ModelKey(v)} /\ ms[i] = PluginKey(v)
      BY <1>12, <2>1, <2>3
    <3>2. PICK w \in ToSet(us) :
            x \in {PluginKey(w), SkillKey(w), ModelKey(w)} /\ ms[j] = PluginKey(w)
      BY <1>12, <2>1, <2>3
    <3>3. v.plugin = w.plugin \/ v.skill = w.skill
      BY <3>1, <3>2 DEF PluginKey, SkillKey, ModelKey
    <3>4. ms[i] = ms[j]
      BY <3>1, <3>2, <3>3 DEF OnePlugin, PluginKey
    <3> QED BY <1>3, <2>1, <3>4 DEF Distinct
  <2>4. Grown(FlattenSeq(s), FlattenSeq(t), x)
    BY <2>1, <2>2, <2>3, FlatGrown
  <2> QED BY <2>4 DEF s, t
<1> QED BY <1>1, <1>8
-----------------------------------------------------------------------------
(* The selection and the cursor of the dashboard.                          *)

\* The plan has a row, and its units are those of a catalog.
Rowed(d) ==
    /\ IsDash(d) /\ d.log = RowsOf(d.units) /\ d.log # <<>>
    /\ Units(d.units) /\ OnePlugin(d.units)

\* What must hold for the dashboard to follow: the selection is a row of the log, it is
\* the live one unless the user chose, and the cursor is on a node.
Based(d) ==
    /\ d.sel \in 1 .. Len(d.log) /\ d.liveIdx \in 0 .. Len(d.log)
    /\ d.focus \in ToSet(Panes)
Follows(d) == d.follow /\ d.liveIdx # NoLive /\ d.focus # "details" => d.sel = d.liveIdx
OnNode(d) ==
    d.focus = "exec" => /\ d.cur \in 1 .. Len(Nodes(d, d.open))
                        /\ ~IsRule(Nodes(d, d.open)[d.cur])
Placed(d) == Based(d) /\ Follows(d) /\ OnNode(d)

\* The rows of a dashboard make its tree.
LEMMA SameRowed == ASSUME NEW d, Rowed(d), NEW e, Same(d, e) PROVE Rowed(e)
BY DEF Rowed, Same

\* There are four panes.
LEMMA PaneNames ==
    ToSet(Panes) = {"exec", "rollup", "runs", "details"}
<1> DEFINE s == <<"exec", "rollup", "runs", "details">>
           S == {"exec", "rollup", "runs", "details"}
<1>1. s \in Seq(S) /\ Len(s) = 4
  OBVIOUS
<1>2. IsSeq(s)
  BY <1>1, SeqIn
<1>3. \A x : x \in ToSet(s) <=> \E i \in 1 .. 4 : s[i] = x
  BY <1>1, <1>2, InSeq
<1>4. \A i : i \in 1 .. 4 <=> i = 1 \/ i = 2 \/ i = 3 \/ i = 4
  OBVIOUS
<1>5. \A x : x \in ToSet(s) <=> x \in S
  BY <1>3, <1>4
<1> QED BY <1>5 DEF Panes

\* Every row of the log is a unit's and has an index.
LEMMA RowedLog ==
    ASSUME NEW d, Rowed(d)
    PROVE  /\ IsSeq(d.log) /\ Len(d.log) \in Nat /\ Len(d.log) >= 1
           /\ \A i \in 1 .. Len(d.log) : d.log[i] \in ToSet(d.log)
           /\ \A row \in ToSet(d.log) : /\ \E u \in ToSet(d.units) : row \in UnitCases(u)
                                        /\ row = <<row[1], row[2]>>
                                        /\ Index(d, row) \in 1 .. Len(d.log)
<1>1. /\ IsSeq(d.log)
      /\ \A row \in ToSet(d.log) : \E u \in ToSet(d.units) : row \in UnitCases(u)
  BY RowsOfTells DEF Rowed, Units
<1>2. Len(d.log) \in Nat /\ Len(d.log) >= 1
  <2>1. d.log \in Seq(ToSet(d.log)) /\ d.log # <<>>
    BY <1>1 DEF Rowed, IsSeq
  <2> QED BY <2>1
<1>3. \A i \in 1 .. Len(d.log) : d.log[i] \in ToSet(d.log)
  BY <1>1, InSeq
<1>4. ASSUME NEW row \in ToSet(d.log)
      PROVE  row = <<row[1], row[2]>> /\ Index(d, row) \in 1 .. Len(d.log)
  <2>1. row = <<row[1], row[2]>>
    BY <1>1 DEF UnitCases
  <2>2. \E i \in 1 .. Len(d.log) : d.log[i] = row
    BY <1>1, InSeq
  <2>3. DOMAIN d.log = 1 .. Len(d.log)
    BY <1>1, SeqDomain
  <2> QED BY <2>1, <2>2, <2>3 DEF Index
<1> QED BY <1>1, <1>2, <1>3, <1>4

\* The tree of a dashboard: spaced, not empty, and its cases are rows of the log.
LEMMA RowedTree ==
    ASSUME NEW d, Rowed(d), NEW open
    PROVE  /\ IsSeq(Nodes(d, open)) /\ Spaced(Nodes(d, open))
           /\ Len(Nodes(d, open)) \in Nat /\ Len(Nodes(d, open)) >= 1
           /\ \A n \in ToSet(Nodes(d, open)) : \/ IsGroup(n) \/ IsRule(n)
                 \/ \E row \in ToSet(d.log) : n = CaseNode(row)
<1>1. NodesFine(Tree(d.units, open), d.units)
  BY TreeTells DEF Rowed
<1>2. d.units # <<>>
  <2>1. PICK u : u \in ToSet(d.units)
    <3>1. d.log[1] \in ToSet(d.log)
      BY RowedLog
    <3> QED BY <3>1, RowedLog
  <2>2. Len(d.units) \in Nat /\ \E i \in 1 .. Len(d.units) : d.units[i] = u
    BY <2>1, InSeq, SeqDomain DEF Rowed, Units
  <2> QED BY <2>2
<1>3. Len(Tree(d.units, open)) >= 1
  BY <1>2, TreeTells DEF Rowed
<1>4. Nodes(d, open) = Tree(d.units, open)
  BY DEF Nodes
<1> QED BY <1>1, <1>3, <1>4, SeqDomain DEF NodesFine, Rowed

\* The case at a node is a row of the log.
LEMMA CaseOfNode ==
    ASSUME NEW d, Rowed(d), NEW open, NEW n \in ToSet(Nodes(d, open)), IsCase(n)
    PROVE  <<n[2], n[3]>> \in ToSet(d.log) /\ ~IsRule(n)
<1>1. ~IsGroup(n) /\ ~IsRule(n)
  BY NodeKinds
<1>2. PICK row \in ToSet(d.log) : n = CaseNode(row)
  BY <1>1, RowedTree
<1>3. <<n[2], n[3]>> = row
  BY <1>2, NodeKinds, RowedLog
<1> QED BY <1>1, <1>3

\* Where a node stands in the tree, or 0.
LEMMA IndexTells ==
    ASSUME NEW d, Rowed(d), NEW open, NEW n
    PROVE  /\ n \in ToSet(Nodes(d, open)) =>
                /\ NodeIndex(d, open, n) \in 1 .. Len(Nodes(d, open))
                /\ Nodes(d, open)[NodeIndex(d, open, n)] = n
           /\ n \notin ToSet(Nodes(d, open)) => NodeIndex(d, open, n) = 0
<1> DEFINE s == Nodes(d, open)
<1>1. IsSeq(s)
  BY RowedTree
<1>2. NodeIndex(d, open, n) = FirstAt(s, n)
  BY DEF NodeIndex, FirstAt
<1> HIDE DEF s
<1>3. /\ n \in ToSet(s) => FirstAt(s, n) \in 1 .. Len(s) /\ s[FirstAt(s, n)] = n
      /\ n \notin ToSet(s) => FirstAt(s, n) = 0
  BY <1>1, SelectTells
<1> QED BY <1>2, <1>3 DEF s

\* A cursor is moved off a rule, onto a node (dashboard_execution.go).
LEMMA OffRuleTells ==
    ASSUME NEW s, IsSeq(s), Spaced(s), Len(s) >= 1, NEW i \in Int
    PROVE  OffRule(s, i) \in 1 .. Len(s) /\ ~IsRule(s[OffRule(s, i)])
<1> DEFINE j == Clamp(i, 1, Len(s))
<1>1. Len(s) \in Nat
  BY SeqDomain
<1>2. j \in 1 .. Len(s)
  BY <1>1 DEF Clamp
<1>3. OffRule(s, i) = IF IsRule(s[j]) THEN j - 1 ELSE j
  BY DEF OffRule
<1> HIDE DEF j
<1>4. CASE IsRule(s[j])
  <2>1. j > 1 /\ ~IsRule(s[j - 1])
    BY <1>2, <1>4 DEF Spaced
  <2>2. j - 1 \in 1 .. Len(s)
    BY <1>1, <1>2, <2>1
  <2> QED BY <1>3, <1>4, <2>1, <2>2
<1>5. CASE ~IsRule(s[j])
  BY <1>2, <1>3, <1>5
<1> QED BY <1>4, <1>5
-----------------------------------------------------------------------------
\* The cursor is on a row of the tree that is no rule.
OnCur(d) == d.cur \in 1 .. Len(Nodes(d, d.open)) /\ ~IsRule(Nodes(d, d.open)[d.cur])

\* Only the cursor and the open groups differ.
Browsed(d, e) == /\ Same(d, e) /\ e.sel = d.sel /\ e.follow = d.follow
                 /\ e.focus = d.focus /\ e.liveIdx = d.liveIdx

\* Only the selection and whether it follows differ.
Chosen(d, e) == /\ Same(d, e) /\ e.cur = d.cur /\ e.open = d.open
                /\ e.focus = d.focus /\ e.liveIdx = d.liveIdx

\* The tree depends on the units and the open groups alone.
LEMMA SameNodes == ASSUME NEW d, NEW e, Same(d, e) PROVE \A open : Nodes(e, open) = Nodes(d, open)
BY DEF Same, Nodes

\* Cursor and open groups are no part of the selection.
LEMMA BrowsedEdits ==
    ASSUME NEW d, IsDash(d)
    PROVE  /\ Browsed(d, d)
           /\ \A x : LET e == [d EXCEPT !.cur = x]
                     IN Browsed(d, e) /\ e.cur = x /\ e.open = d.open
           /\ \A x : LET e == [d EXCEPT !.open = x]
                     IN Browsed(d, e) /\ e.cur = d.cur /\ e.open = x
           /\ \A x, y : LET e == [d EXCEPT !.open = x, !.cur = y]
                        IN Browsed(d, e) /\ e.cur = y /\ e.open = x
<1>1. Browsed(d, d)
  BY DEF Browsed, Same
<1>2. ASSUME NEW x PROVE LET e == [d EXCEPT !.cur = x]
                         IN Browsed(d, e) /\ e.cur = x /\ e.open = d.open
  BY SameEdits DEF Browsed, IsDash, Fields
<1>3. ASSUME NEW x PROVE LET e == [d EXCEPT !.open = x]
                         IN Browsed(d, e) /\ e.cur = d.cur /\ e.open = x
  BY SameEdits DEF Browsed, IsDash, Fields
<1>4. ASSUME NEW x, NEW y
      PROVE  LET e == [d EXCEPT !.open = x, !.cur = y]
             IN Browsed(d, e) /\ e.cur = y /\ e.open = x
  BY SameEdits DEF Browsed, IsDash, Fields
<1> QED BY <1>1, <1>2, <1>3, <1>4

\* Browsing places the dashboard as long as the cursor is on a node.
LEMMA BrowsedPlaced ==
    ASSUME NEW d, Rowed(d), Based(d), Follows(d), NEW e, Browsed(d, e),
           OnCur(e) \/ e.focus # "exec"
    PROVE  Rowed(e) /\ Placed(e)
<1>1. Rowed(e)
  BY SameRowed DEF Browsed
<1>2. Based(e) /\ Follows(e)
  BY DEF Browsed, Based, Follows, Same
<1> QED BY <1>1, <1>2 DEF Placed, OnNode, OnCur

\* Browsing twice is browsing.
LEMMA BrowsedTrans ==
    ASSUME NEW d, NEW e, Browsed(d, e), NEW g, Browsed(e, g)
    PROVE  Browsed(d, g)
BY SameTrans DEF Browsed

\* Choosing a run (selectRun).
LEMMA ChosenTells ==
    ASSUME NEW d, Rowed(d), NEW i \in 1 .. Len(d.log)
    PROVE  LET e == SelectRun(d, i)
           IN  /\ Chosen(d, e) /\ Rowed(e) /\ e.sel = i
               /\ Based(d) => Based(e) /\ Follows(e)
               /\ Based(d) /\ OnNode(d) => Placed(e)
<1> DEFINE b == i = d.liveIdx
           e == [d EXCEPT !.sel = i, !.follow = b]
<1>1. SelectRun(d, i) = e
  BY DEF SelectRun
<1> HIDE DEF b
<1>2. Same(d, e)
  BY DEF Rowed, Same, IsDash, Fields
<1>3. /\ e.sel = i /\ e.follow = b /\ e.focus = d.focus /\ e.liveIdx = d.liveIdx
      /\ e.cur = d.cur /\ e.open = d.open
  BY DEF Rowed, IsDash, Fields
<1> HIDE DEF e
<1>7. Rowed(e)
  BY <1>2, SameRowed
<1>4. Chosen(d, e)
  BY <1>2, <1>3 DEF Chosen
<1>5. Based(d) => Based(e) /\ Follows(e)
  BY <1>2, <1>3 DEF Based, Follows, Same, b
<1>6. OnNode(d) => OnNode(e)
  BY <1>2, <1>3, SameNodes DEF OnNode
<1> QED BY <1>1, <1>3, <1>4, <1>5, <1>6, <1>7 DEF Placed

\* Opening or closing groups keeps the cursor in the tree.
LEMMA ReopenTells ==
    ASSUME NEW d, Rowed(d), d.cur \in Int, NEW open
    PROVE  Browsed(d, Reopen(d, open)) /\ OnCur(Reopen(d, open))
<1> DEFINE s == Nodes(d, open)
           i == OffRule(s, d.cur)
           e == [d EXCEPT !.open = open, !.cur = i]
<1>1. Reopen(d, open) = e
  BY DEF Reopen
<1> HIDE DEF i
<1>2. Browsed(d, e) /\ e.cur = i /\ e.open = open
  BY DEF Rowed, Browsed, Same, IsDash, Fields
<1>3. IsSeq(s) /\ Spaced(s) /\ Len(s) >= 1
  BY RowedTree
<1>4. Nodes(e, e.open) = s
  BY <1>2, SameNodes DEF Browsed
<1> HIDE DEF e, s
<1>5. i \in 1 .. Len(s) /\ ~IsRule(s[i])
  BY <1>3, OffRuleTells DEF i
<1> QED BY <1>1, <1>2, <1>4, <1>5 DEF OnCur

\* Going to a node of the tree.
LEMMA SelectNodeTells ==
    ASSUME NEW d, Rowed(d), d.cur \in Int, NEW open, NEW n, ~IsRule(n)
    PROVE  Browsed(d, SelectNode(d, open, n)) /\ OnCur(SelectNode(d, open, n))
<1> DEFINE i == NodeIndex(d, open, n)
           s == Nodes(d, open)
           e == [d EXCEPT !.open = open, !.cur = i]
<1>1. CASE i = 0
  BY <1>1, ReopenTells DEF SelectNode
<1>2. CASE i # 0
  <2>1. SelectNode(d, open, n) = e
    BY <1>2 DEF SelectNode
  <2>2. i \in 1 .. Len(s) /\ s[i] = n
    BY <1>2, IndexTells
  <2> HIDE DEF i
  <2>3. Browsed(d, e) /\ e.cur = i /\ e.open = open
    BY DEF Rowed, Browsed, Same, IsDash, Fields
  <2>4. Nodes(e, e.open) = s
    BY <2>3, SameNodes DEF Browsed
  <2> HIDE DEF e, s, i
  <2> QED BY <2>1, <2>2, <2>3, <2>4 DEF OnCur
<1> QED BY <1>1, <1>2

\* With its groups open a case is in the tree.
LEMMA PathTells ==
    ASSUME NEW d, Rowed(d), NEW row \in ToSet(d.log), NEW open, PathTo(d, row) \subseteq open
    PROVE  CaseNode(row) \in ToSet(Nodes(d, open))
<1> DEFINE holds(j) == row \in ToSet(UnitRows(d.units[j]))
           i == CHOOSE j \in DOMAIN d.units : holds(j)
<1>1. IsSeq(d.units) /\ DOMAIN d.units = 1 .. Len(d.units)
  BY SeqDomain DEF Rowed, Units
<1>2. PICK u \in ToSet(d.units) : row \in UnitCases(u)
  BY RowedLog
<1>3. PICK j \in 1 .. Len(d.units) : d.units[j] = u
  BY <1>1, InSeq
<1>4. \A v \in ToSet(d.units) : ToSet(UnitRows(v)) = UnitCases(v)
  BY UnitRowsTell DEF Rowed, Units
<1>5. j \in DOMAIN d.units /\ holds(j)
  BY <1>1, <1>2, <1>3, <1>4
<1>6. i \in DOMAIN d.units /\ holds(i)
  <2> HIDE DEF holds
  <2> QED BY <1>5
<1>7. d.units[i] \in ToSet(d.units)
  BY <1>1, <1>6, InSeq
<1>8. UnitOf(d, row) = d.units[i]
  BY DEF UnitOf
<1> HIDE DEF i
<1>9. row \in UnitCases(d.units[i]) /\ ToSet(KeysOf(d.units[i])) \subseteq open
  BY <1>4, <1>6, <1>7, <1>8 DEF PathTo
<1> QED BY <1>7, <1>9, TreeTells DEF Nodes, Rowed

\* The cursor goes to the case of the chosen run (syncExecToSel).
LEMMA SyncTells ==
    ASSUME NEW d, Rowed(d), d.sel \in 1 .. Len(d.log), NEW open
    PROVE  Browsed(d, SyncExecToSel(d, open)) /\ OnCur(SyncExecToSel(d, open))
<1> DEFINE path == open \cup PathTo(d, Selected(d))
           n == CaseNode(Selected(d))
           i == NodeIndex(d, path, n)
           s == Nodes(d, path)
           e == [d EXCEPT !.open = path, !.cur = i]
<1>1. SyncExecToSel(d, open) = e
  BY DEF SyncExecToSel
<1>2. Selected(d) \in ToSet(d.log)
  BY RowedLog DEF Selected
<1>3. n \in ToSet(s)
  BY <1>2, PathTells
<1>4. i \in 1 .. Len(s) /\ s[i] = n
  BY <1>3, IndexTells
<1> HIDE DEF i, path
<1>5. Browsed(d, e) /\ e.cur = i /\ e.open = path
  BY DEF Rowed, Browsed, Same, IsDash, Fields
<1>6. Nodes(e, e.open) = s
  BY <1>5, SameNodes DEF Browsed
<1>7. ~IsRule(n)
  BY NodeKinds
<1> HIDE DEF e, s, i, n, path
<1> QED BY <1>1, <1>4, <1>5, <1>6, <1>7 DEF OnCur
-----------------------------------------------------------------------------
\* A dashboard that follows selects the live run.
LEMMA OnLiveTells ==
    ASSUME NEW d, Rowed(d), Based(d)
    PROVE  LET e == OnLive(d)
           IN  /\ Same(d, e) /\ Rowed(e) /\ Based(e)
               /\ e.follow /\ e.liveIdx # NoLive => e.sel = e.liveIdx
               /\ e.follow = d.follow /\ e.liveIdx = d.liveIdx /\ e.focus = d.focus
               /\ e.cur = d.cur /\ e.open = d.open
<1> DEFINE l == d.liveIdx
           e == [d EXCEPT !.sel = l]
<1>1. CASE d.follow /\ d.liveIdx # NoLive
  <2>1. OnLive(d) = e
    BY <1>1 DEF OnLive
  <2>2. l = d.liveIdx /\ l \in 1 .. Len(d.log)
    <3>1. Len(d.log) \in Nat
      BY RowedLog
    <3> QED BY <1>1, <3>1 DEF Based, NoLive
  <2> HIDE DEF l
  <2>3. /\ Same(d, e) /\ e.sel = l /\ e.follow = d.follow /\ e.liveIdx = d.liveIdx
        /\ e.focus = d.focus /\ e.cur = d.cur /\ e.open = d.open
    BY DEF Rowed, Same, IsDash, Fields
  <2> HIDE DEF e
  <2>4. Rowed(e)
    BY <2>3, SameRowed
  <2>5. Based(e)
    BY <2>2, <2>3 DEF Based, Same
  <2> QED BY <2>1, <2>2, <2>3, <2>4, <2>5
<1>2. CASE ~(d.follow /\ d.liveIdx # NoLive)
  <2>1. OnLive(d) = d /\ Same(d, d)
    BY <1>2 DEF OnLive, Rowed, Same
  <2> QED BY <1>2, <2>1
<1> QED BY <1>1, <1>2

\* [f] takes up following.
LEMMA ResumeTells ==
    ASSUME NEW d, Rowed(d), Based(d), OnNode(d)
    PROVE  Rowed(ResumeFollow(d)) /\ Placed(ResumeFollow(d))
<1> DEFINE e == OnLive(d)
<1>1. /\ Same(d, e) /\ Rowed(e) /\ Based(e)
      /\ e.follow /\ e.liveIdx # NoLive => e.sel = e.liveIdx
      /\ e.focus = d.focus /\ e.cur = d.cur /\ e.open = d.open
  BY OnLiveTells
<1> HIDE DEF e
<1>2. CASE d.follow /\ Browsing(d)
  <2>1. ResumeFollow(d) = SyncExecToSel(e, d.open)
    BY <1>2 DEF ResumeFollow, e
  <2>2. Browsed(e, SyncExecToSel(e, d.open)) /\ OnCur(SyncExecToSel(e, d.open))
    BY <1>1, SyncTells DEF Based
  <2> QED BY <1>1, <2>1, <2>2, BrowsedPlaced DEF Follows
<1>3. CASE ~(d.follow /\ Browsing(d))
  <2>1. ResumeFollow(d) = e
    BY <1>3 DEF ResumeFollow, e
  <2>2. OnNode(e)
    BY <1>1, SameNodes DEF OnNode
  <2> QED BY <1>1, <2>1, <2>2 DEF Placed, Follows
<1> QED BY <1>2, <1>3

\* Following the next run; not in the details, and not once the user chose.
LEMMA AdvanceTells ==
    ASSUME NEW d, Rowed(d), Based(d), OnNode(d)
    PROVE  /\ Rowed(FollowAdvance(d)) /\ Placed(FollowAdvance(d))
           /\ d.focus = "details" \/ ~d.follow => FollowAdvance(d) = d
<1>1. CASE d.focus = "details"
  <2>1. FollowAdvance(d) = d
    BY <1>1 DEF FollowAdvance
  <2> QED BY <1>1, <2>1 DEF Placed, Follows
<1>2. CASE d.focus # "details"
  <2>1. FollowAdvance(d) = ResumeFollow(d)
    BY <1>2 DEF FollowAdvance
  <2>2. ~d.follow => ResumeFollow(d) = d
    BY DEF ResumeFollow, OnLive
  <2> QED BY <1>2, <2>1, <2>2, ResumeTells
<1> QED BY <1>1, <1>2

\* Toggling following.
LEMMA FollowTells ==
    ASSUME NEW d, Rowed(d), Placed(d)
    PROVE  Rowed(Follow(d)) /\ Placed(Follow(d))
<1> DEFINE e == [d EXCEPT !.follow = TRUE]
<1>1. /\ Same(d, e) /\ e.sel = d.sel /\ e.liveIdx = d.liveIdx
      /\ e.focus = d.focus /\ e.cur = d.cur /\ e.open = d.open
  BY DEF Rowed, Same, IsDash, Fields
<1>2. Follow(d) = ResumeFollow(e)
  BY DEF Follow
<1> HIDE DEF e
<1>3. Rowed(e)
  BY <1>1, SameRowed
<1>4. Based(e)
  BY <1>1 DEF Placed, Based, Same
<1>5. OnNode(e)
  BY <1>1, SameNodes DEF Placed, OnNode
<1> QED BY <1>2, <1>3, <1>4, <1>5, ResumeTells

\* Moving to another pane.
LEMMA FocusTells ==
    ASSUME NEW d, Rowed(d), Placed(d), NEW p \in ToSet(Panes)
    PROVE  LET e == SetFocus(d, p)
           IN  Rowed(e) /\ Placed(e) /\ e.focus = p /\ Same(d, e)
<1> DEFINE l == IF d.focus = "details" /\ p # "details" THEN OnLive(d) ELSE d
<1>1. /\ Same(d, l) /\ Rowed(l) /\ Based(l) /\ l.focus = d.focus
      /\ p # "details" => (l.follow /\ l.liveIdx # NoLive => l.sel = l.liveIdx)
      /\ p = d.focus => l = d
  <2>1. CASE d.focus = "details" /\ p # "details"
    <3>1. l = OnLive(d) /\ p # d.focus
      BY <2>1
    <3> HIDE DEF l
    <3> QED BY <3>1, OnLiveTells DEF Placed
  <2>2. CASE ~(d.focus = "details" /\ p # "details")
    <3>1. l = d /\ Same(d, d)
      BY <2>2 DEF Rowed, Same
    <3>2. p # "details" => d.focus # "details"
      BY <2>2
    <3> HIDE DEF l
    <3> QED BY <3>1, <3>2 DEF Placed, Follows
  <2> QED BY <2>1, <2>2
<1>2. SetFocus(d, p) = IF p = d.focus THEN l
                       ELSE IF p = "exec"
                            THEN SyncExecToSel([l EXCEPT !.focus = p], FollowOpen(l))
                            ELSE [l EXCEPT !.focus = p, !.cur = 1, !.open = {}]
  BY Zenon DEF SetFocus
<1> HIDE DEF l
<1>3. CASE p = d.focus
  BY <1>1, <1>2, <1>3
<1>4. CASE p # d.focus /\ p = "exec"
  <2> DEFINE f == [l EXCEPT !.focus = p]
             open == FollowOpen(l)
  <2>1. SetFocus(d, p) = SyncExecToSel(f, open)
    BY <1>2, <1>4
  <2> HIDE DEF open
  <2>2. /\ Same(l, f) /\ f.sel = l.sel /\ f.liveIdx = l.liveIdx /\ f.follow = l.follow
        /\ f.focus = p
    BY <1>1 DEF Rowed, Same, IsDash, Fields
  <2> HIDE DEF f
  <2>3. Rowed(f)
    BY <1>1, <2>2, SameRowed
  <2>4. Based(f) /\ Follows(f)
    BY <1>1, <1>4, <2>2 DEF Based, Follows, Same
  <2>5. Browsed(f, SyncExecToSel(f, open)) /\ OnCur(SyncExecToSel(f, open))
    BY <2>3, <2>4, SyncTells DEF Based
  <2>6. Rowed(SyncExecToSel(f, open)) /\ Placed(SyncExecToSel(f, open))
    BY <2>3, <2>4, <2>5, BrowsedPlaced
  <2>7. Same(d, SyncExecToSel(f, open)) /\ SyncExecToSel(f, open).focus = p
    BY <1>1, <2>2, <2>5, SameTrans DEF Browsed
  <2> QED BY <2>1, <2>6, <2>7
<1>5. CASE p # d.focus /\ p # "exec"
  <2> DEFINE f == [l EXCEPT !.focus = p, !.cur = 1, !.open = {}]
  <2>1. SetFocus(d, p) = f
    BY <1>2, <1>5
  <2>2. /\ Same(l, f) /\ f.sel = l.sel /\ f.liveIdx = l.liveIdx /\ f.follow = l.follow
        /\ f.focus = p
    BY <1>1 DEF Rowed, Same, IsDash, Fields
  <2> HIDE DEF f
  <2>3. Rowed(f) /\ Same(d, f)
    BY <1>1, <2>2, SameRowed, SameTrans
  <2>4. Based(f) /\ Follows(f) /\ OnNode(f)
    BY <1>1, <1>5, <2>2 DEF Based, Follows, OnNode, Same
  <2> QED BY <2>1, <2>2, <2>3, <2>4 DEF Placed
<1> QED BY <1>3, <1>4, <1>5

\* Moving in the pane of the runs.
LEMMA RunMoves ==
    ASSUME NEW d, Rowed(d), Placed(d)
    PROVE  /\ \A k \in Int : Rowed(MoveRun(d, k)) /\ Placed(MoveRun(d, k))
           /\ \A i \in 1 .. Len(d.log) : /\ Rowed(SelectRun(d, i)) /\ Placed(SelectRun(d, i))
                                         /\ Rowed(ClickRun(d, i)) /\ Placed(ClickRun(d, i))
<1>1. ASSUME NEW i \in 1 .. Len(d.log) PROVE Rowed(SelectRun(d, i)) /\ Placed(SelectRun(d, i))
  BY ChosenTells DEF Placed
<1>2. ASSUME NEW k \in Int PROVE Rowed(MoveRun(d, k)) /\ Placed(MoveRun(d, k))
  <2> DEFINE i == Clamp(d.sel + k, 1, Len(d.log))
  <2>1. Len(d.log) \in Nat /\ Len(d.log) >= 1
    BY RowedLog
  <2>2. i \in 1 .. Len(d.log)
    BY <2>1 DEF Clamp, Placed, Based
  <2>3. MoveRun(d, k) = SelectRun(d, i)
    BY DEF MoveRun
  <2> HIDE DEF i
  <2> QED BY <1>1, <2>2, <2>3
<1>3. ASSUME NEW i \in 1 .. Len(d.log) PROVE Rowed(ClickRun(d, i)) /\ Placed(ClickRun(d, i))
  BY <1>1 DEF ClickRun
<1> QED BY <1>1, <1>2, <1>3

\* Choosing the run of a case.
LEMMA CaseMoves ==
    ASSUME NEW d, Rowed(d), Placed(d), NEW n,
           IsCase(n) => <<n[2], n[3]>> \in ToSet(d.log)
    PROVE  /\ IsCase(n) => Rowed(SelectCase(d, n)) /\ Placed(SelectCase(d, n))
           /\ Rowed(SyncSelFromExec(d, n)) /\ Placed(SyncSelFromExec(d, n))
<1>1. IsCase(n) => Rowed(SelectCase(d, n)) /\ Placed(SelectCase(d, n))
  <2> HAVE IsCase(n)
  <2>1. Index(d, <<n[2], n[3]>>) \in 1 .. Len(d.log)
    BY RowedLog
  <2> QED BY <2>1, RunMoves DEF SelectCase
<1> QED BY <1>1 DEF SyncSelFromExec
-----------------------------------------------------------------------------
\* While browsing, the cursor is on a group or on a case of the log.
LEMMA OnCursor ==
    ASSUME NEW d, Rowed(d), Placed(d), Browsing(d)
    PROVE  /\ OnCur(d) /\ d.cur \in Int /\ Cursor(d) \in ToSet(Nodes(d, d.open))
           /\ ~IsRule(Cursor(d))
           /\ IsCase(Cursor(d)) => <<Cursor(d)[2], Cursor(d)[3]>> \in ToSet(d.log)
           /\ ~IsCase(Cursor(d)) => IsGroup(Cursor(d))
<1>1. OnCur(d)
  BY DEF Placed, OnNode, Browsing, OnCur
<1>2. IsSeq(Nodes(d, d.open)) /\ Len(Nodes(d, d.open)) \in Nat
  BY RowedTree
<1>3. Cursor(d) \in ToSet(Nodes(d, d.open)) /\ d.cur \in Int /\ ~IsRule(Cursor(d))
  BY <1>1, <1>2, InSeq DEF OnCur, Cursor
<1>4. ~IsCase(Cursor(d)) => IsGroup(Cursor(d))
  BY <1>3, RowedTree, NodeKinds
<1> QED BY <1>1, <1>3, <1>4, CaseOfNode

\* Browsing goes on.
LEMMA Browsed2 ==
    ASSUME NEW d, Rowed(d), Placed(d), Browsing(d), NEW e, Browsed(d, e), OnCur(e)
    PROVE  Rowed(e) /\ Placed(e) /\ Browsing(e)
<1>1. Rowed(e) /\ Placed(e)
  BY BrowsedPlaced DEF Placed
<1> QED BY <1>1 DEF Browsed, Browsing

\* Moving in the tree.
LEMMA MoveExecTells ==
    ASSUME NEW d, Rowed(d), Placed(d), Browsing(d), NEW k \in Int
    PROVE  LET e == MoveExec(d, Nodes(d, d.open), k) IN Rowed(e) /\ Placed(e) /\ Browsing(e)
<1> DEFINE s == Nodes(d, d.open)
           c == [i \in DOMAIN s |-> i]
           S == {i \in DOMAIN s : ~IsRule(s[i])}
           stops == Only(c, S)
           cur == d.cur
           at == SelectInSeq(stops, LAMBDA i : i = cur)
           j == Clamp(at + k, 1, Len(stops))
           y == stops[j]
           e == [d EXCEPT !.cur = y]
<1>1. MoveExec(d, s, k) = e
  BY Zenon DEF MoveExec
<1>2. IsSeq(s) /\ Spaced(s) /\ Len(s) \in Nat /\ Len(s) >= 1 /\ DOMAIN s = 1 .. Len(s)
  BY RowedTree, SeqDomain
<1>3. IsSeq(c) /\ ToSet(c) = DOMAIN s
  <2> HIDE DEF s
  <2> QED BY <1>2, Counting
<1>4. 1 \in S
  <2> HIDE DEF s
  <2>1. 1 \in DOMAIN s /\ ~IsRule(s[1])
    BY <1>2 DEF Spaced
  <2> QED BY <2>1
<1>5. IsSeq(stops) /\ ToSet(stops) = S
  <2>1. S \subseteq DOMAIN s
    OBVIOUS
  <2> HIDE DEF c, S, s
  <2>2. IsSeq(stops) /\ ToSet(stops) = ToSet(c) \cap S
    BY <1>3, OnlyTells
  <2> QED BY <1>3, <2>1, <2>2
<1>6. at \in Int /\ Len(stops) \in Nat /\ Len(stops) >= 1
  <2> HIDE DEF c, S, stops
  <2>1. Len(stops) \in Nat /\ \E i \in 1 .. Len(stops) : stops[i] = 1
    BY <1>4, <1>5, InSeq, SeqDomain
  <2> HIDE DEF cur
  <2>2. at = FirstAt(stops, cur)
    BY DEF FirstAt
  <2>3. FirstAt(stops, cur) \in 1 .. Len(stops) \/ FirstAt(stops, cur) = 0
    BY <1>5, SelectTells
  <2> HIDE DEF at
  <2> QED BY <2>1, <2>2, <2>3
<1>7. j \in 1 .. Len(stops)
  <2> HIDE DEF at, stops
  <2> QED BY <1>6 DEF Clamp
<1>8. y \in S
  <2> HIDE DEF j, stops, S
  <2> QED BY <1>5, <1>7, InSeq
<1>9. y \in 1 .. Len(s) /\ ~IsRule(s[y])
  <2> HIDE DEF y, s
  <2> QED BY <1>2, <1>8
<1> HIDE DEF y
<1>10. Browsed(d, e) /\ e.cur = y /\ e.open = d.open
  BY DEF Rowed, Browsed, Same, IsDash, Fields
<1> HIDE DEF e
<1>11. Nodes(e, e.open) = s
  BY <1>10, SameNodes DEF Browsed
<1>12. OnCur(e)
  <2> HIDE DEF s
  <2> QED BY <1>9, <1>10, <1>11 DEF OnCur
<1> QED BY <1>1, <1>10, <1>12, Browsed2

\* Going to a node by its place.
LEMMA JumpTells ==
    ASSUME NEW d, Rowed(d), Placed(d), Browsing(d),
           NEW i, i \in 1 .. Len(Nodes(d, d.open)), ~IsRule(Nodes(d, d.open)[i])
    PROVE  LET e == [d EXCEPT !.cur = i] IN Rowed(e) /\ Placed(e) /\ Browsing(e) /\ Same(d, e)
<1> DEFINE e == [d EXCEPT !.cur = i]
<1>1. Browsed(d, e) /\ e.cur = i /\ e.open = d.open
  BY DEF Rowed, Browsed, Same, IsDash, Fields
<1> HIDE DEF e
<1>2. Nodes(e, e.open) = Nodes(d, d.open)
  BY <1>1, SameNodes DEF Browsed
<1>3. OnCur(e) /\ Same(d, e)
  BY <1>1, <1>2 DEF OnCur, Browsed
<1> QED BY <1>1, <1>3, Browsed2 DEF e

\* Going to an end of the tree.
LEMMA EndsTell ==
    ASSUME NEW d, Rowed(d), Placed(d), Browsing(d),
           NEW i \in {1, OffRule(Nodes(d, d.open), Len(Nodes(d, d.open)))}
    PROVE  LET e == [d EXCEPT !.cur = i] IN Rowed(e) /\ Placed(e) /\ Browsing(e)
<1> DEFINE s == Nodes(d, d.open)
<1>1. IsSeq(s) /\ Spaced(s) /\ Len(s) \in Nat /\ Len(s) >= 1
  BY RowedTree
<1>2. i \in 1 .. Len(s) /\ ~IsRule(s[i])
  <2> HIDE DEF s
  <2>1. CASE i = 1
    BY <1>1, <2>1 DEF Spaced
  <2>2. CASE i = OffRule(s, Len(s))
    BY <1>1, <2>2, OffRuleTells
  <2> QED BY <2>1, <2>2 DEF s
<1> QED BY <1>2, JumpTells

\* Opening the group at the cursor, or stepping into it.
LEMMA ExpandTells ==
    ASSUME NEW d, Rowed(d), Placed(d), Browsing(d)
    PROVE  LET e == Expand(d, Cursor(d)) IN Rowed(e) /\ Placed(e) /\ Browsing(e)
<1> DEFINE n == Cursor(d)
           x == d.open \cup {n}
           e == [d EXCEPT !.open = x]
           s == Nodes(d, d.open)
           t == Nodes(d, x)
<1>1. CASE IsCase(n)
  BY <1>1 DEF Expand
<1>2. CASE ~IsCase(n)
  <2>1. Expand(d, n) = e
    BY <1>2 DEF Expand
  <2>2. IsGroup(n) /\ OnCur(d) /\ n = s[d.cur] /\ ~IsRule(n)
    BY <1>2, OnCursor DEF Cursor
  <2>3. IsSeq(s) /\ IsSeq(t) /\ Len(s) \in Nat /\ Len(t) \in Nat /\ d.cur \in Int
    BY RowedTree, OnCursor
  <2> HIDE DEF n
  <2>4. d.cur \in 1 .. Len(t) /\ t[d.cur] = n
    <3>1. CASE n \in d.open
      <4>1. x = d.open
        BY <3>1
      <4> HIDE DEF x
      <4> QED BY <2>2, <4>1 DEF OnCur
    <3>2. CASE n \notin d.open
      <4>1. Grown(s, t, n)
        BY <2>2, <3>2, TreeGrown DEF Rowed, Nodes
      <4>2. d.cur \in 1 .. Len(s)
        BY <2>2 DEF OnCur
      <4> HIDE DEF s, t
      <4>3. d.cur <= Len(t) /\ \A j \in 1 .. d.cur : t[j] = s[j]
        BY <2>2, <4>1, <4>2 DEF Grown
      <4>4. t[d.cur] = s[d.cur]
        BY <2>3, <4>2, <4>3
      <4> QED BY <2>2, <2>3, <4>2, <4>3, <4>4
    <3> QED BY <3>1, <3>2
  <2> HIDE DEF x
  <2>5. Browsed(d, e) /\ e.cur = d.cur /\ e.open = x
    BY DEF Rowed, Browsed, Same, IsDash, Fields
  <2> HIDE DEF e
  <2>6. Nodes(e, e.open) = t
    BY <2>5, SameNodes DEF Browsed
  <2>7. OnCur(e)
    <3> HIDE DEF t
    <3> QED BY <2>2, <2>4, <2>5, <2>6 DEF OnCur
  <2> QED BY <2>1, <2>5, <2>7, Browsed2 DEF n
<1> QED BY <1>1, <1>2

\* Closing it, or stepping out of it.
LEMMA CollapseTells ==
    ASSUME NEW d, Rowed(d), Placed(d), Browsing(d), NEW n
    PROVE  LET e == Collapse(d, n) IN Rowed(e) /\ Placed(e) /\ Browsing(e)
<1> DEFINE u == UnitOf(d, <<n[2], n[3]>>)
           m == ModelKey(u)
<1>1. ~IsRule(m)
  BY KeyNames, NodeKinds
<1> HIDE DEF u
<1>2. Collapse(d, n) = IF IsCase(n) THEN SelectNode(d, d.open \ {m}, m)
                                    ELSE Reopen(d, d.open \ {n})
  BY Zenon DEF Collapse, u
<1> HIDE DEF m
<1>3. d.cur \in Int
  BY OnCursor
<1>4. Browsed(d, Collapse(d, n)) /\ OnCur(Collapse(d, n))
  BY <1>1, <1>2, <1>3, SelectNodeTells, ReopenTells
<1> QED BY <1>4, Browsed2

\* Opening the details of a case.
LEMMA DetailsTell ==
    ASSUME NEW d, Rowed(d), Placed(d), NEW n, <<n[2], n[3]>> \in ToSet(d.log)
    PROVE  Rowed(OpenDetails(d, n)) /\ Placed(OpenDetails(d, n))
<1> DEFINE row == <<n[2], n[3]>>
           i == Index(d, row)
           f == SetFocus(d, "details")
           e == [f EXCEPT !.sel = i, !.follow = FALSE]
<1>1. CASE d.status[row] = "pending"
  BY <1>1 DEF OpenDetails
<1>2. CASE d.status[row] # "pending"
  <2>1. OpenDetails(d, n) = e
    BY <1>2 DEF OpenDetails
  <2>2. Rowed(f) /\ Placed(f) /\ f.focus = "details" /\ Same(d, f)
    BY FocusTells, PaneNames
  <2>3. i \in 1 .. Len(d.log)
    BY RowedLog
  <2> HIDE DEF i, f
  <2>4. /\ Same(f, e) /\ e.sel = i /\ e.follow = FALSE /\ e.focus = f.focus
        /\ e.liveIdx = f.liveIdx
    BY <2>2 DEF Rowed, Same, IsDash, Fields
  <2> HIDE DEF e
  <2>5. Rowed(e)
    BY <2>2, <2>4, SameRowed
  <2>6. Placed(e)
    BY <2>2, <2>3, <2>4 DEF Placed, Based, Follows, OnNode, Same
  <2> QED BY <2>1, <2>5, <2>6
<1> QED BY <1>1, <1>2

\* [enter] in the tree.
LEMMA ActivateTells ==
    ASSUME NEW d, Rowed(d), Placed(d), Browsing(d)
    PROVE  Rowed(Activate(d, Cursor(d))) /\ Placed(Activate(d, Cursor(d)))
<1> DEFINE n == Cursor(d)
           x == IF n \in d.open THEN d.open \ {n} ELSE d.open \cup {n}
<1>1. CASE IsCase(n)
  BY <1>1, OnCursor, DetailsTell DEF Activate
<1>2. CASE ~IsCase(n)
  <2>1. Activate(d, n) = Reopen(d, x)
    BY <1>2 DEF Activate
  <2> HIDE DEF x
  <2>2. Browsed(d, Reopen(d, x)) /\ OnCur(Reopen(d, x))
    BY OnCursor, ReopenTells
  <2> QED BY <2>1, <2>2, Browsed2
<1> QED BY <1>1, <1>2
-----------------------------------------------------------------------------
\* The selection goes to the case at the cursor.
LEMMA SyncedTells ==
    ASSUME NEW d, Rowed(d), Placed(d), Browsing(d)
    PROVE  Rowed(SyncSelFromExec(d, Cursor(d))) /\ Placed(SyncSelFromExec(d, Cursor(d)))
BY OnCursor, CaseMoves

\* The steps of the keys are numbers.
LEMMA StepsAreInts == Steps \subseteq Int /\ {-1, 1} \subseteq Int
BY PageStepAssumption DEF Steps

\* A click on a node.
LEMMA ClickNodeTells ==
    ASSUME NEW d, Rowed(d), Placed(d), Browsing(d), NEW n, NEW c,
           IsCase(n) => <<n[2], n[3]>> \in ToSet(d.log)
    PROVE  Rowed(ClickNode(d, n, c)) /\ Placed(ClickNode(d, n, c))
<1> DEFINE i == NodeIndex(d, d.open, n)
           e == [d EXCEPT !.cur = i]
           x == IF c THEN d.open \cup {n} ELSE d.open \ {n}
<1>1. CASE IsRule(n)
  <2>1. ~IsCase(n)
    BY <1>1, NodeKinds
  <2>2. ClickNode(d, n, c) = d
    BY <1>1, <2>1, Zenon DEF ClickNode
  <2> QED BY <2>2
<1>2. CASE ~IsRule(n) /\ IsCase(n)
  <2>1. ClickNode(d, n, c) = IF i = 0 THEN d ELSE SelectCase(e, n)
    BY <1>2, Zenon DEF ClickNode
  <2>2. CASE i # 0
    <3>1. i \in 1 .. Len(Nodes(d, d.open)) /\ Nodes(d, d.open)[i] = n
      BY <2>2, IndexTells
    <3> HIDE DEF i
    <3>2. Rowed(e) /\ Placed(e) /\ Same(d, e)
      BY <1>2, <3>1, JumpTells
    <3> HIDE DEF e
    <3> QED BY <1>2, <2>1, <2>2, <3>2, CaseMoves DEF Same
  <2> QED BY <2>1, <2>2
<1>3. CASE ~IsRule(n) /\ ~IsCase(n)
  <2>1. ClickNode(d, n, c) = SelectNode(d, x, n)
    BY <1>3, Zenon DEF ClickNode
  <2> HIDE DEF x
  <2>2. Browsed(d, SelectNode(d, x, n)) /\ OnCur(SelectNode(d, x, n))
    BY <1>3, OnCursor, SelectNodeTells
  <2> QED BY <2>1, <2>2, Browsed2
<1> QED BY <1>1, <1>2, <1>3

\* Every click.
LEMMA ClicksTell ==
    ASSUME NEW d, Rowed(d), Placed(d), NEW e \in Clicks(d)
    PROVE  Rowed(e) /\ Placed(e)
<1> DEFINE r == SetFocus(d, "runs")
           x == SetFocus(d, "exec")
           open == OpenShown(d)
<1>1. /\ Rowed(r) /\ Placed(r) /\ Same(d, r)
      /\ Rowed(x) /\ Placed(x) /\ Same(d, x) /\ Browsing(x)
  BY FocusTells, PaneNames DEF Browsing
<1>2. \/ \E i \in DOMAIN d.log : e = ClickRun(r, i)
      \/ \E n \in ToSet(Nodes(d, open)) : e = ClickNode(x, n, n \notin open)
  BY DEF Clicks
<1> HIDE DEF r, x, open
<1>3. ASSUME NEW i \in DOMAIN d.log, e = ClickRun(r, i) PROVE Rowed(e) /\ Placed(e)
  <2>1. i \in 1 .. Len(r.log)
    BY <1>1, RowedLog, SeqDomain DEF Same
  <2> QED BY <1>1, <1>3, <2>1, RunMoves
<1>4. ASSUME NEW n \in ToSet(Nodes(d, open)), e = ClickNode(x, n, n \notin open)
      PROVE  Rowed(e) /\ Placed(e)
  <2>1. IsCase(n) => <<n[2], n[3]>> \in ToSet(x.log)
    BY <1>1, CaseOfNode DEF Same
  <2>2. \A c : Rowed(ClickNode(x, n, c)) /\ Placed(ClickNode(x, n, c))
    BY <1>1, <2>1, ClickNodeTells
  <2> QED BY <1>4, <2>2
<1> QED BY <1>2, <1>3, <1>4

\* Every key of the pane of the runs.
LEMMA RunsKeysTell ==
    ASSUME NEW d, Rowed(d), Placed(d), NEW e \in RunsKeys(d)
    PROVE  Rowed(e) /\ Placed(e)
<1>1. \/ \E n \in Steps : e = MoveRun(d, n)
      \/ e = SelectRun(d, 1) \/ e = SelectRun(d, Len(d.log))
      \/ e = SetFocus(d, "details")
  BY DEF RunsKeys
<1>2. 1 \in 1 .. Len(d.log) /\ Len(d.log) \in 1 .. Len(d.log)
  BY RowedLog
<1>3. Rowed(SetFocus(d, "details")) /\ Placed(SetFocus(d, "details"))
  BY FocusTells, PaneNames
<1> QED BY <1>1, <1>2, <1>3, RunMoves, StepsAreInts

\* Every key of the tree.
LEMMA ExecKeysTell ==
    ASSUME NEW d, Rowed(d), Placed(d), Browsing(d), NEW g \in ExecKeys(d, Nodes(d, d.open))
    PROVE  Rowed(g) /\ Placed(g)
<1> DEFINE s == Nodes(d, d.open)
           n == Cursor(d)
           last == OffRule(s, Len(s))
           moves == {MoveExec(d, s, k) : k \in Steps}
                      \cup {[d EXCEPT !.cur = i] : i \in {1, last}}
                      \cup {Expand(d, n), Collapse(d, n)}
<1>1. g \in {SyncSelFromExec(e, Cursor(e)) : e \in moves} \/ g = Activate(d, n)
  BY Zenon DEF ExecKeys, Cursor
<1>2. ASSUME NEW e \in moves PROVE Rowed(e) /\ Placed(e) /\ Browsing(e)
  <2>1. \/ \E k \in Steps : e = MoveExec(d, s, k)
        \/ \E i \in {1, last} : e = [d EXCEPT !.cur = i]
        \/ e = Expand(d, n) \/ e = Collapse(d, n)
    <3> HIDE DEF s, n, last
    <3> QED OBVIOUS
  <2>2. ASSUME NEW k \in Steps, e = MoveExec(d, s, k) PROVE Rowed(e) /\ Placed(e) /\ Browsing(e)
    BY <2>2, MoveExecTells, StepsAreInts
  <2>3. ASSUME NEW i \in {1, last}, e = [d EXCEPT !.cur = i]
        PROVE  Rowed(e) /\ Placed(e) /\ Browsing(e)
    BY <2>3, EndsTell
  <2> QED BY <2>1, <2>2, <2>3, ExpandTells, CollapseTells
<1> HIDE DEF moves
<1> QED BY <1>1, <1>2, SyncedTells, ActivateTells

\* Every key and every click.
LEMMA InputsTell ==
    ASSUME NEW d, Rowed(d), Placed(d),
           NEW e \in PaneInputs(d) \cup TreeInputs(d, Nodes(d, d.open))
    PROVE  Rowed(e) /\ Placed(e)
<1> DEFINE s == Nodes(d, d.open)
           ticks == IF Browsing(d) THEN {-1, 1} ELSE {}
<1>1. \/ \E p \in ToSet(Panes) : e = SetFocus(d, p)
      \/ e = Follow(d) \/ e \in Clicks(d) \/ e \in RunsKeys(d)
      \/ \E k \in {-1, 1} : e = MoveRun(d, k)
      \/ \E k \in ticks : e = SyncSelFromExec(MoveExec(d, s, k), Cursor(MoveExec(d, s, k)))
      \/ (Browsing(d) /\ e \in ExecKeys(d, s))
  <2>1. e \in PaneInputs(d) => \/ \E p \in ToSet(Panes) : e = SetFocus(d, p)
                               \/ e = Follow(d) \/ e \in Clicks(d) \/ e \in RunsKeys(d)
    BY DEF PaneInputs
  <2>2. e \in TreeInputs(d, s) => e \in Wheel(d, s) \/ (Browsing(d) /\ e \in ExecKeys(d, s))
    BY DEF TreeInputs
  <2> HIDE DEF s
  <2>3. e \in Wheel(d, s) =>
          \/ \E k \in {-1, 1} : e = MoveRun(d, k)
          \/ \E k \in ticks : e = SyncSelFromExec(MoveExec(d, s, k), Cursor(MoveExec(d, s, k)))
    BY DEF Wheel
  <2> QED BY <2>1, <2>2, <2>3 DEF s
<1>2. ASSUME NEW k \in ticks,
             e = SyncSelFromExec(MoveExec(d, s, k), Cursor(MoveExec(d, s, k)))
      PROVE  Rowed(e) /\ Placed(e)
  <2>1. Browsing(d) /\ k \in Int
    OBVIOUS
  <2>2. /\ Rowed(MoveExec(d, s, k)) /\ Placed(MoveExec(d, s, k))
        /\ Browsing(MoveExec(d, s, k))
    BY <2>1, MoveExecTells
  <2> HIDE DEF s
  <2> QED BY <1>2, <2>2, SyncedTells
<1>3. \A k \in {-1, 1} : Rowed(MoveRun(d, k)) /\ Placed(MoveRun(d, k))
  BY RunMoves
<1> HIDE DEF s, ticks
<1>4. s = Nodes(d, d.open)
  BY DEF s
<1> QED BY <1>1, <1>2, <1>3, <1>4, FocusTells, FollowTells, ClicksTell, RunsKeysTell, ExecKeysTell
-----------------------------------------------------------------------------
(* The selection follows the engine, and stays with a user who left it.    *)

\* No case has started before the dashboard opens; then it has a row, and the
\* selection and the cursor are placed.
FollowInv ==
    /\ screen = "form" => dash.liveIdx = NoLive /\ dash.focus = "runs"
    /\ screen = "dash" => dash.log # <<>> /\ Placed(dash)

\* The units of a plan: no skill is two plugins'.
LEMMA PlanIsRowed ==
    ASSUME NEW models, IsSeq(models)
    PROVE  Units(UnitsOf(models)) /\ OnePlugin(UnitsOf(models))
<1>1. Units(UnitsOf(models))
  BY UnitsTell, UnitsHaveCases DEF Units
<1>2. ASSUME NEW u \in ToSet(UnitsOf(models)) 
      PROVE  \E sc \in ToSet(Catalog) : u.skill = sc.skill /\ u.plugin = sc.plugin
  <2>1. PICK sc \in ToSet(Catalog), m \in ToSet(models) : IsUnit(u, sc, m)
    BY UnitsTell
  <2>2. PICK t \in ToSet(Tiers) : u = UnitFor(sc, m, t)
    BY <2>1 DEF IsUnit
  <2> QED BY <2>2 DEF UnitFor
<1>3. ASSUME NEW sc \in ToSet(Catalog), NEW sd \in ToSet(Catalog), sc.skill = sd.skill
      PROVE  sc = sd
  <2>1. IsSeq(Catalog)
    BY CatalogAssumption DEF IsSeq
  <2>2. DOMAIN Catalog = 1 .. Len(Catalog)
    BY <2>1, SeqDomain
  <2>3. PICK i \in DOMAIN Catalog : Catalog[i] = sc
    BY <2>1, <2>2, InSeq
  <2>4. PICK j \in DOMAIN Catalog : Catalog[j] = sd
    BY <2>1, <2>2, InSeq
  <2>5. \A k, l \in DOMAIN Catalog : k # l => Catalog[k].skill # Catalog[l].skill
    BY CatalogAssumption
  <2> QED BY <1>3, <2>3, <2>4, <2>5
<1> QED BY <1>1, <1>2, <1>3 DEF OnePlugin

\* What the two invariants say of a dashboard that is shown.
LEMMA DashIsRowed ==
    ASSUME RowsInv, FollowInv, screen = "dash"
    PROVE  Rowed(dash) /\ Placed(dash) /\ DOMAIN dash.status = ToSet(dash.log)
BY PlanIsRowed DEF RowsInv, PlanInv, FollowInv, Rowed

\* The dashboard as it opens.
LEMMA FreshTells ==
    ASSUME NEW q, NEW stored, NEW d, d = NewDashboard(Build(q), stored)
    PROVE  /\ d.liveIdx = NoLive /\ d.focus = "runs" /\ d.sel = 1
           /\ d.log = RowsOf(UnitsOf(q.models))
           /\ IsSeq(q.models) /\ d.log # <<>> => Placed(d)
<1>1. /\ d.liveIdx = NoLive /\ d.focus = "runs" /\ d.sel = 1
  BY DEF NewDashboard
<1>2. d.log = RowsOf(UnitsOf(q.models))
  BY BuiltTells
<1>3. ASSUME IsSeq(q.models), d.log # <<>> PROVE Placed(d)
  <2>1. IsSeq(d.log)
    BY <1>2, <1>3, PlanRows
  <2>2. Len(d.log) \in Nat /\ Len(d.log) # 0
    <3>1. d.log \in Seq(ToSet(d.log))
      BY <2>1 DEF IsSeq
    <3> QED BY <1>3, <3>1
  <2>3. d.focus \in ToSet(Panes) /\ d.focus # "exec"
    BY <1>1, PaneNames
  <2> QED BY <1>1, <2>2, <2>3 DEF Placed, Based, Follows, OnNode, NoLive
<1> QED BY <1>1, <1>2, <1>3

\* The invariant holds before evolve does anything.
LEMMA FollowInit == Init => FollowInv
<1> SUFFICES ASSUME Init PROVE FollowInv
  OBVIOUS
<1>1. screen = "form" /\ dash = NewDashboard(Build(NoRequest), start.stored)
  BY DEF Init
<1> QED BY <1>1, FreshTells DEF FollowInv

\* [r] opens a placed dashboard.
LEMMA RunFollow == ASSUME RowsInv, FollowInv, Run PROVE FollowInv'
<1> DEFINE q == Request(form.session, reasons)
<1>1. /\ screen' = "dash" /\ QueuedRows(q) # {}
      /\ dash' = NewDashboard(Build(q), start.stored)
  BY DEF Run, AnyQueued
<1>2. IsSeq(q.models)
  BY PlanHasSeq
<1> HIDE DEF q
<1>3. \A p, s, e : e = NewDashboard(Build(p), s) =>
        e.log = RowsOf(UnitsOf(p.models)) /\ (IsSeq(p.models) /\ e.log # <<>> => Placed(e))
  BY FreshTells
<1>4. /\ dash'.log = RowsOf(UnitsOf(q.models))
      /\ IsSeq(q.models) /\ dash'.log # <<>> => Placed(dash')
  BY <1>1, <1>3
<1>5. dash'.log # <<>>
  <2>1. ToSet(dash'.log) # {}
    BY <1>1, <1>2, <1>4, QueuedShown
  <2> QED BY <2>1, SeqEmpty
<1>6. Placed(dash')
  BY <1>2, <1>4, <1>5
<1> QED BY <1>1, <1>5, <1>6 DEF FollowInv, Placed, Based, Follows, OnNode, Nodes

-----------------------------------------------------------------------------
\* The selection and the cursor stay.
Stays(d, e) == e.sel = d.sel /\ e.cur = d.cur /\ e.open = d.open /\ e.focus = d.focus

\* What leaves selection, cursor and live run alone keeps them placed.
LEMMA EditTells ==
    ASSUME NEW d, Rowed(d), Placed(d), NEW e, IsDash(e), e.units = d.units, e.log = d.log,
           Stays(d, e), e.liveIdx = d.liveIdx, e.follow = d.follow
    PROVE  Rowed(e) /\ Placed(e)
<1>1. Rowed(e)
  BY DEF Rowed
<1>2. \A open : Nodes(e, open) = Nodes(d, open)
  BY DEF Nodes
<1> QED BY <1>1, <1>2 DEF Placed, Based, Follows, OnNode, Stays

\* A case starts: following, the selection goes along; else nothing moves.
LEMMA StartTells ==
    ASSUME NEW d, Rowed(d), Placed(d), NEW row \in ToSet(d.log), NEW b
    PROVE  LET e == StartCase(d, row, b)
           IN  /\ Rowed(e) /\ Placed(e)
               /\ d.focus = "details" \/ ~d.follow => Stays(d, e)
<1> DEFINE i == Index(d, row)
           f == Append(RemoveFirst(d.inflight, row), row)
           a == IF b THEN d.base \cup {row} ELSE d.base \ {row}
           s == [d.status EXCEPT ![row] = "running"]
           g == [d EXCEPT !.status = s, !.base = a, !.inflight = f, !.liveIdx = i]
<1>1. StartCase(d, row, b) = FollowAdvance(g)
  BY DEF StartCase
<1>2. i \in 1 .. Len(d.log)
  BY RowedLog
<1> HIDE DEF i, f, a, s
<1>3. /\ IsDash(g) /\ g.units = d.units /\ g.log = d.log /\ g.liveIdx = i
      /\ g.follow = d.follow /\ Stays(d, g)
  BY DEF Rowed, IsDash, Fields, Stays
<1> HIDE DEF g
<1>4. Rowed(g)
  BY <1>3 DEF Rowed
<1>5. \A open : Nodes(g, open) = Nodes(d, open)
  BY <1>3 DEF Nodes
<1>6. Len(d.log) \in Nat
  BY RowedLog
<1>7. Based(g) /\ OnNode(g)
  BY <1>2, <1>3, <1>5, <1>6 DEF Placed, Based, OnNode, Stays
<1>8. /\ Rowed(FollowAdvance(g)) /\ Placed(FollowAdvance(g))
      /\ g.focus = "details" \/ ~g.follow => FollowAdvance(g) = g
  BY <1>4, <1>7, AdvanceTells
<1> QED BY <1>1, <1>3, <1>8 DEF Stays
-----------------------------------------------------------------------------
\* The other events move neither selection nor cursor.
LEMMA EventsTell ==
    ASSUME NEW d, Rowed(d), Placed(d)
    PROVE  /\ \A row, v : LET e == ItemDone(d, row, v)
                          IN  Rowed(e) /\ Placed(e) /\ Stays(d, e)
           /\ \A row : LET e == UnitCounted(d, row)
                       IN  Rowed(e) /\ Placed(e) /\ Stays(d, e)
           /\ \A failed : LET e == RunDone(d, failed)
                          IN  Rowed(e) /\ Placed(e) /\ Stays(d, e)
           /\ \A x : LET e == [d EXCEPT !.confirm = x]
                     IN  Rowed(e) /\ Placed(e) /\ Stays(d, e)
<1>1. ASSUME NEW row, NEW v
      PROVE  LET e == ItemDone(d, row, v) IN Rowed(e) /\ Placed(e) /\ Stays(d, e)
  <2> DEFINE a == [d.status EXCEPT ![row] = v]
             b == d.base \ {row}
             l == d.live \cup {row}
             f == RemoveFirst(d.inflight, row)
             e == [d EXCEPT !.status = a, !.base = b, !.live = l, !.inflight = f]
  <2>1. ItemDone(d, row, v) = e
    BY DEF ItemDone
  <2> HIDE DEF a, b, l, f
  <2>2. /\ IsDash(e) /\ e.units = d.units /\ e.log = d.log /\ Stays(d, e)
        /\ e.liveIdx = d.liveIdx /\ e.follow = d.follow
    BY DEF Rowed, IsDash, Fields, Stays
  <2> HIDE DEF e
  <2> QED BY <2>1, <2>2, EditTells
<1>2. ASSUME NEW row
      PROVE  LET e == UnitCounted(d, row) IN Rowed(e) /\ Placed(e) /\ Stays(d, e)
  <2> DEFINE rows == (ToSet(UnitRows(UnitOf(d, row))) \cap d.queued) \ d.live
             l == d.live \cup rows
             a == [r \in DOMAIN d.status |->
                      IF r \in rows /\ d.status[r] = "pending" THEN "count" ELSE d.status[r]]
             e == [d EXCEPT !.live = l, !.status = a]
  <2>1. UnitCounted(d, row) = e
    BY DEF UnitCounted
  <2> HIDE DEF rows, l, a
  <2>2. /\ IsDash(e) /\ e.units = d.units /\ e.log = d.log /\ Stays(d, e)
        /\ e.liveIdx = d.liveIdx /\ e.follow = d.follow
    BY DEF Rowed, IsDash, Fields, Stays
  <2> HIDE DEF e
  <2> QED BY <2>1, <2>2, EditTells
<1>3. ASSUME NEW failed
      PROVE  LET e == RunDone(d, failed) IN Rowed(e) /\ Placed(e) /\ Stays(d, e)
  <2> DEFINE e == [d EXCEPT !.done = TRUE, !.failed = failed]
  <2>1. RunDone(d, failed) = e
    BY DEF RunDone
  <2>2. /\ IsDash(e) /\ e.units = d.units /\ e.log = d.log /\ Stays(d, e)
        /\ e.liveIdx = d.liveIdx /\ e.follow = d.follow
    BY DEF Rowed, IsDash, Fields, Stays
  <2> HIDE DEF e
  <2> QED BY <2>1, <2>2, EditTells
<1>4. ASSUME NEW x
      PROVE  LET e == [d EXCEPT !.confirm = x] IN Rowed(e) /\ Placed(e) /\ Stays(d, e)
  <2> DEFINE e == [d EXCEPT !.confirm = x]
  <2>2. /\ IsDash(e) /\ e.units = d.units /\ e.log = d.log /\ Stays(d, e)
        /\ e.liveIdx = d.liveIdx /\ e.follow = d.follow
    BY DEF Rowed, IsDash, Fields, Stays
  <2> HIDE DEF e
  <2> QED BY <2>2, EditTells DEF e
<1> QED BY <1>1, <1>2, <1>3, <1>4

\* The dashboard is as it was, or open and well placed.
Moved == /\ screen' = screen
         /\ \/ dash' = dash
            \/ /\ screen = "dash" /\ Rowed(dash') /\ Placed(dash')
               /\ dash.focus = "details" \/ ~dash.follow => Stays(dash, dash')

\* An engine step that moves so keeps the invariant.
LEMMA MovedKeeps == ASSUME FollowInv, Moved PROVE FollowInv'
<1>1. CASE dash' = dash
  BY <1>1 DEF Moved, FollowInv, Placed, Based, Follows, OnNode, Nodes
<1>2. CASE screen = "dash" /\ Rowed(dash') /\ Placed(dash')
  BY <1>2 DEF Moved, FollowInv, Rowed, Placed, Based, Follows, OnNode, Nodes
<1> QED BY <1>1, <1>2 DEF Moved

\* Telling the program of an event moves the dashboard as the event does.
LEMMA ToldTells ==
    ASSUME RowsInv, FollowInv, eng.pc = "sweep", screen' = screen,
           NEW e, Tell(e),
           screen = "dash" /\ prog = "up" =>
             /\ Rowed(e) /\ Placed(e)
             /\ dash.focus = "details" \/ ~dash.follow => Stays(dash, e)
    PROVE  Moved
<1>1. CASE prog = "up"
  <2>1. screen = "dash" /\ dash' = e
    BY <1>1 DEF Tell, RowsInv, OpenInv
  <2> QED BY <1>1, <2>1 DEF Moved
<1>2. CASE prog # "up"
  BY <1>2 DEF Tell, Moved
<1> QED BY <1>1, <1>2

\* A start moves so.
LEMMA StartsMove ==
    ASSUME RowsInv, FollowInv, Running, NEW row \in UnitSet, NEW b,
           Tell(StartCase(dash, row, b)), screen' = screen
    PROVE  Moved
<1> DEFINE e == StartCase(dash, row, b)
<1>1. eng.pc = "sweep"
  BY RunningIsWell DEF RowsInv
<1>2. ASSUME screen = "dash", prog = "up"
      PROVE  /\ Rowed(e) /\ Placed(e)
             /\ dash.focus = "details" \/ ~dash.follow => Stays(dash, e)
  <2>1. row \in ToSet(dash.log)
    BY <1>2, RunningShown
  <2>2. Rowed(dash) /\ Placed(dash)
    BY <1>2, DashIsRowed
  <2> QED BY <2>1, <2>2, StartTells
<1> HIDE DEF e
<1>3. Tell(e)
  BY DEF e
<1> QED BY <1>1, <1>2, <1>3, ToldTells

\* The other events move so.
LEMMA EventsMove ==
    ASSUME RowsInv, FollowInv, eng.pc = "sweep", screen' = screen,
           NEW e, Tell(e),
           \/ \E row, v : e = ItemDone(dash, row, v)
           \/ \E row : e = UnitCounted(dash, row)
           \/ \E failed : e = RunDone(dash, failed)
    PROVE  Moved
<1>1. ASSUME screen = "dash" PROVE Rowed(e) /\ Placed(e) /\ Stays(dash, e)
  <2>1. Rowed(dash) /\ Placed(dash)
    BY <1>1, DashIsRowed
  <2> QED BY <2>1, EventsTell
<1> QED BY <1>1, ToldTells

\* Every step of the engine moves so.
LEMMA EngineMoves == ASSUME RowsInv, FollowInv, Engine PROVE Moved
<1> USE DEF user
<1>1. CASE StartBaseline \/ StartItem
  <2>1. Running /\ screen' = screen
    BY <1>1 DEF StartBaseline, StartItem
  <2>2. PICK row \in Waiting : \E b : Tell(StartCase(dash, row, b))
    BY <1>1 DEF StartBaseline, StartItem
  <2>3. row \in UnitSet
    BY DEF Waiting
  <2> QED BY <2>1, <2>2, <2>3, StartsMove
<1>2. CASE FinishBaseline
  <2>1. Running /\ screen' = screen
    BY <1>2 DEF FinishBaseline
  <2>2. PICK row \in eng.base : Tell(StartCase(dash, row, FALSE))
    BY <1>2 DEF FinishBaseline
  <2>3. row \in UnitSet
    <3>1. WorkInv /\ eng.err = "none"
      BY <2>1, RunningIsWell DEF RowsInv
    <3> QED BY <2>1, <3>1, BusyRows DEF Busy
  <2> QED BY <2>1, <2>2, <2>3, StartsMove
<1>3. CASE FinishItem
  <2>1. eng.pc = "sweep" /\ screen' = screen
    BY <1>3, RunningIsWell DEF FinishItem, RowsInv
  <2>2. PICK row, v : Tell(ItemDone(dash, row, v))
    BY <1>3 DEF FinishItem
  <2> QED BY <2>1, <2>2, EventsMove
<1>4. CASE CountUnit
  <2>1. eng.pc = "sweep" /\ screen' = screen /\ Tell(UnitCounted(dash, Head(UnitRows(Unit))))
    BY <1>4 DEF CountUnit, Sweeping
  <2> QED BY <2>1, EventsMove
<1>5. CASE EngineEnds
  <2>1. eng.pc = "sweep" /\ screen' = screen /\ Tell(RunDone(dash, eng.failed))
    BY <1>5 DEF EngineEnds
  <2> QED BY <2>1, EventsMove
<1>6. CASE EngineTakes \/ EngineUnused \/ SaveUnit \/ AbortUnit
  BY <1>6 DEF EngineTakes, EngineUnused, SaveUnit, AbortUnit, Moved
<1> QED BY <1>1, <1>2, <1>3, <1>4, <1>5, <1>6 DEF Engine

\* The user's steps.
LEMMA UserFollow == ASSUME RowsInv, FollowInv, User PROVE FollowInv' /\ eng' = eng
<1> USE DEF user
<1>1. CASE Run
  BY <1>1, RunFollow DEF Run
<1>2. CASE DashInput
  <2>1. screen = "dash" /\ screen' = screen /\ eng' = eng
    BY <1>2 DEF DashInput, Handles
  <2>2. Rowed(dash) /\ Placed(dash)
    BY <2>1, DashIsRowed
  <2>3. dash' \in PaneInputs(dash) \cup TreeInputs(dash, Nodes(dash, dash.open))
    BY <1>2 DEF DashInput
  <2>4. Rowed(dash') /\ Placed(dash')
    BY <2>2, <2>3, InputsTell
  <2>5. FollowInv'
    BY <2>1, <2>4 DEF FollowInv, Rowed, Placed, Based, Follows, OnNode, Nodes
  <2> QED BY <2>1, <2>5
<1>3. CASE AskQuit \/ Stay
  <2>1. /\ screen = "dash" /\ screen' = screen /\ eng' = eng
        /\ \E x \in BOOLEAN : dash' = [dash EXCEPT !.confirm = x]
    BY <1>3 DEF AskQuit, Stay, Handles
  <2>2. Rowed(dash) /\ Placed(dash)
    BY <2>1, DashIsRowed
  <2>3. \A x : LET e == [dash EXCEPT !.confirm = x] IN Rowed(e) /\ Placed(e) /\ Stays(dash, e)
    BY <2>2, EventsTell
  <2>4. Moved
    BY <2>1, <2>3 DEF Moved
  <2> QED BY <2>1, <2>4, MovedKeeps
<1>4. CASE FormInput \/ Cancel \/ Quit \/ SigTerm \/ SigInt \/ SigPlain
  <2>1. Moved /\ eng' = eng
    BY <1>4 DEF FormInput, Cancel, Quit, SigTerm, SigInt, SigPlain, Moved
  <2> QED BY <2>1, MovedKeeps
<1> QED BY <1>1, <1>2, <1>3, <1>4 DEF User

\* What evolve does around the sweep touches no dashboard.
LEMMA HostMoves == ASSUME Host PROVE dash' = dash /\ screen' = screen
BY DEF Host, Deliver, ProgramExits, Main, Reconcile, ReconcileFails, RunChecks, UiCloses,
       UiReturns, PlainReturns, UiAborts, RunReport, ReportFails, user, rest

\* Every step keeps the invariant and leaves the selection to the user.
LEMMA FollowStep ==
    ASSUME RowsInv, FollowInv, [Next]_vars
    PROVE  /\ FollowInv'
           /\ (dash.focus = "details" \/ ~dash.follow) /\ eng' # eng =>
                UNCHANGED <<dash.sel, dash.cur, dash.open, dash.focus>>
<1>1. CASE Engine
  BY <1>1, EngineMoves, MovedKeeps DEF Moved, Stays
<1>2. CASE User
  BY <1>2, UserFollow
<1>3. CASE Host
  BY <1>3, HostMoves, MovedKeeps DEF Moved
<1>4. CASE UNCHANGED vars
  BY <1>4, MovedKeeps DEF Moved, vars, user
<1> QED BY <1>1, <1>2, <1>3, <1>4 DEF Next

\* The selection follows the engine, and stays with a user who reads Details
\* or has moved away.
THEOREM SelectionIsKept == Spec => SelectionFollows
<1> DEFINE Held == (dash.focus = "details" \/ ~dash.follow) /\ eng' # eng =>
                      UNCHANGED <<dash.sel, dash.cur, dash.open, dash.focus>>
           Well == /\ dash.follow /\ dash.liveIdx # NoLive /\ dash.focus # "details"
                        => dash.sel = dash.liveIdx
                   /\ Browsing(dash) => ~IsRule(Nodes(dash, dash.open)[dash.cur])
<1>1. Init => FollowInv
  BY FollowInit
<1>2. RowsInv /\ FollowInv /\ [Next]_vars => FollowInv' /\ Held
  BY FollowStep
<1>3. RowsInv /\ FollowInv => Well
  BY DEF RowsInv, OpenInv, FollowInv, Placed, Follows, OnNode, Browsing
<1>4. RowsInv /\ FollowInv /\ [Next]_vars => [Held]_vars
  BY <1>2
<1>5. SelectionFollows <=> []Well /\ [][Held]_vars
  BY DEF SelectionFollows
<1> HIDE DEF Held, Well
<1> QED BY <1>1, <1>2, <1>3, <1>4, <1>5, RowsAlways, PTL DEF Spec
-----------------------------------------------------------------------------
(* The form's tree.  Its rows are those of the catalog, a parent stands     *)
(* above what is below it, and folding at the cursor leaves the cursor on a *)
(* row.                                                                     *)

\* What must be open for a row to show.
Above(n) == CASE n[1] = "plugin" -> {}
              [] n[1] = "skill" -> {ParentOf(n)}
              [] OTHER -> {ParentOf(n), ParentOf(ParentOf(n))}

\* No row stands above itself or above a row before it.
TopDown(s) == \A i \in 1 .. Len(s) : \A j \in i .. Len(s) : s[j] \notin Above(s[i])

\* Two entries of the catalog are two skills.
LEMMA SkillNames ==
    \A x, y \in ToSet(Catalog) : x.skill = y.skill => x = y
<1> SUFFICES ASSUME NEW x \in ToSet(Catalog), NEW y \in ToSet(Catalog), x.skill = y.skill
             PROVE  x = y
  OBVIOUS
<1>1. IsSeq(Catalog)
  BY CatalogAssumption DEF IsSeq
<1>2. PICK i \in 1 .. Len(Catalog) : Catalog[i] = x
  BY <1>1, InSeq
<1>3. PICK j \in 1 .. Len(Catalog) : Catalog[j] = y
  BY <1>1, InSeq
<1>4. DOMAIN Catalog = 1 .. Len(Catalog)
  BY <1>1, SeqDomain
<1> QED BY <1>2, <1>3, <1>4, CatalogAssumption

\* The entries the tree lists: those with a case, each once.
LEMMA ListedTells ==
    /\ IsSeq(Listed) /\ Len(Listed) \in Nat /\ DOMAIN Listed = 1 .. Len(Listed)
    /\ \A i \in 1 .. Len(Listed) : Listed[i] \in ToSet(Catalog)
    /\ \A i, j \in 1 .. Len(Listed) : Listed[i].skill = Listed[j].skill => i = j
<1>1. IsSeq(Catalog) /\ Len(Catalog) \in Nat /\ DOMAIN Catalog = 1 .. Len(Catalog)
  BY CatalogAssumption, SeqDomain DEF IsSeq
<1>2. Distinct(Catalog)
  BY <1>1, CatalogAssumption DEF Distinct
<1>3. /\ IsSeq(Listed) /\ ToSet(Listed) \subseteq ToSet(Catalog) /\ Distinct(Listed)
  BY <1>1, <1>2, OnlyTells, OnlyDistinct DEF Listed
<1>4. Len(Listed) \in Nat /\ DOMAIN Listed = 1 .. Len(Listed)
  BY <1>3, SeqDomain
<1>5. \A i \in 1 .. Len(Listed) : Listed[i] \in ToSet(Catalog)
  BY <1>3, InSeq
<1>6. ASSUME NEW i \in 1 .. Len(Listed), NEW j \in 1 .. Len(Listed),
             Listed[i].skill = Listed[j].skill
      PROVE  i = j
  <2>1. Listed[i] = Listed[j]
    BY <1>5, <1>6, SkillNames
  <2> QED BY <1>3, <2>1 DEF Distinct
<1> QED BY <1>3, <1>4, <1>5, <1>6

\* What a row says of itself.
LEMMA RowKinds ==
    /\ \A p : PluginRow(p)[1] = "plugin" /\ PluginRow(p)[2] = p
    /\ \A sc : SkillRow(sc)[1] = "skill" /\ SkillRow(sc)[2] = sc.skill
    /\ \A c : CaseRow(c)[1] = "leaf" /\ CaseRow(c)[2] = c
BY DEF PluginRow, SkillRow, CaseRow

\* Above a skill stands its plugin, above a case its skill and the plugin.
LEMMA AboveTells ==
    /\ \A p : Above(PluginRow(p)) = {}
    /\ \A sc \in ToSet(Catalog) :
         /\ ParentOf(SkillRow(sc)) = PluginRow(sc.plugin)
         /\ Above(SkillRow(sc)) = {PluginRow(sc.plugin)}
         /\ \A c \in ToSet(CasesOf(sc)) :
              /\ ParentOf(CaseRow(c)) = SkillRow(sc)
              /\ Above(CaseRow(c)) = {SkillRow(sc), PluginRow(sc.plugin)}
<1>1. ASSUME NEW p PROVE Above(PluginRow(p)) = {}
  BY RowKinds DEF Above
<1>2. ASSUME NEW sc \in ToSet(Catalog)
      PROVE  ParentOf(SkillRow(sc)) = PluginRow(sc.plugin)
  <2>1. SkillRow(sc)[1] # "leaf"
    BY RowKinds
  <2>2. ParentOf(SkillRow(sc)) = PluginRow(SkillEntry(SkillRow(sc)).plugin)
    BY <2>1 DEF ParentOf, IsLeaf
  <2>3. \A x \in ToSet(Catalog) : SkillRow(x) = SkillRow(sc) => x = sc
    BY RowKinds, SkillNames
  <2>4. SkillEntry(SkillRow(sc)) = sc
    BY <2>3 DEF SkillEntry
  <2> QED BY <2>2, <2>4
<1>3. ASSUME NEW sc \in ToSet(Catalog) PROVE Above(SkillRow(sc)) = {PluginRow(sc.plugin)}
  <2>1. SkillRow(sc)[1] = "skill"
    BY RowKinds
  <2>2. Above(SkillRow(sc)) = {ParentOf(SkillRow(sc))}
    BY <2>1 DEF Above
  <2> QED BY <1>2, <2>2
<1>4. ASSUME NEW sc \in ToSet(Catalog), NEW c \in ToSet(CasesOf(sc))
      PROVE  /\ ParentOf(CaseRow(c)) = SkillRow(sc)
             /\ Above(CaseRow(c)) = {SkillRow(sc), PluginRow(sc.plugin)}
  <2>1. CaseRow(c)[1] = "leaf" /\ CaseRow(c)[2] = c
    BY RowKinds
  <2>2. ParentOf(CaseRow(c)) = SkillRow(EntryOf(c))
    BY <2>1 DEF ParentOf, IsLeaf
  <2>3. EntryOf(c) = sc
    BY EntryIs
  <2>4. Above(CaseRow(c)) = {ParentOf(CaseRow(c)), ParentOf(ParentOf(CaseRow(c)))}
    BY <2>1 DEF Above
  <2> QED BY <1>2, <2>2, <2>3, <2>4
<1> QED BY <1>1, <1>2, <1>3, <1>4

\* Two top-down pieces make one, when nothing in the second stands above the first.
LEMMA TopDownConcat ==
    ASSUME NEW s, IsSeq(s), TopDown(s), NEW t, IsSeq(t), TopDown(t),
           \A x \in ToSet(s), y \in ToSet(t) : y \notin Above(x)
    PROVE  TopDown(s \o t)
<1> DEFINE c == s \o t
<1>1. /\ Len(s) \in Nat /\ Len(t) \in Nat /\ Len(c) = Len(s) + Len(t)
      /\ \A i \in 1 .. Len(s) : c[i] = s[i] /\ s[i] \in ToSet(s)
      /\ \A i \in 1 .. Len(t) : c[Len(s) + i] = t[i] /\ t[i] \in ToSet(t)
  <2>1. Len(s) \in Nat /\ Len(t) \in Nat
    BY SeqDomain
  <2>2. (\A i \in 1 .. Len(s) : s[i] \in ToSet(s)) /\ (\A i \in 1 .. Len(t) : t[i] \in ToSet(t))
    BY InSeq
  <2>3. /\ Len(c) = Len(s) + Len(t)
        /\ \A i \in 1 .. Len(s) : c[i] = s[i]
        /\ \A i \in 1 .. Len(t) : c[Len(s) + i] = t[i]
    BY SeqConcat
  <2> QED BY <2>1, <2>2, <2>3
<1> HIDE DEF c
<1>2. ASSUME NEW i \in 1 .. Len(c), NEW j \in i .. Len(c) PROVE c[j] \notin Above(c[i])
  <2>1. CASE j <= Len(s)
    <3>1. i \in 1 .. Len(s) /\ j \in i .. Len(s) /\ j \in 1 .. Len(s)
      BY <1>1, <2>1
    <3>2. s[j] \notin Above(s[i])
      BY <3>1 DEF TopDown
    <3> QED BY <1>1, <3>1, <3>2
  <2>2. CASE i > Len(s)
    <3>1. i - Len(s) \in 1 .. Len(t) /\ j - Len(s) \in (i - Len(s)) .. Len(t)
          /\ j - Len(s) \in 1 .. Len(t)
      BY <1>1, <2>2
    <3>2. t[j - Len(s)] \notin Above(t[i - Len(s)])
      BY <3>1 DEF TopDown
    <3>3. Len(s) + (i - Len(s)) = i /\ Len(s) + (j - Len(s)) = j
      BY <1>1
    <3>4. c[i] = t[i - Len(s)] /\ c[j] = t[j - Len(s)]
      BY <1>1, <3>1, <3>3
    <3> QED BY <3>2, <3>4
  <2>3. CASE i <= Len(s) /\ j > Len(s)
    <3>1. i \in 1 .. Len(s) /\ j - Len(s) \in 1 .. Len(t) /\ Len(s) + (j - Len(s)) = j
      BY <1>1, <2>3
    <3>2. c[i] \in ToSet(s) /\ c[j] \in ToSet(t)
      BY <1>1, <3>1
    <3> QED BY <3>2
  <2> QED BY <1>1, <2>1, <2>2, <2>3
<1> QED BY <1>2 DEF TopDown, c

\* What an entry adds to the tree: its plugin if it is the plugin's first, itself, its cases.
LEMMA BranchTells ==
    ASSUME NEW i \in 1 .. Len(Listed)
    PROVE  LET sc == Listed[i]
               first == \A j \in 1 .. i - 1 : Listed[j].plugin # sc.plugin
           IN  /\ IsSeq(Branch(i)) /\ TopDown(Branch(i))
               /\ \A x : x \in ToSet(Branch(i)) <=>
                    \/ first /\ x = PluginRow(sc.plugin)
                    \/ x = SkillRow(sc)
                    \/ \E c \in ToSet(CasesOf(sc)) : x = CaseRow(c)
<1> DEFINE sc == Listed[i]
           first == \A j \in 1 .. i - 1 : Listed[j].plugin # sc.plugin
           cs == CasesOf(sc)
           a == IF first THEN <<PluginRow(sc.plugin)>> ELSE <<>>
           b == <<SkillRow(sc)>>
           l == [j \in DOMAIN cs |-> CaseRow(cs[j])]
<1>1. Branch(i) = a \o b \o l
  BY DEF Branch
<1>2. sc \in ToSet(Catalog)
  BY ListedTells
<1>3. IsSeq(cs) /\ Len(cs) \in Nat /\ DOMAIN cs = 1 .. Len(cs)
  BY <1>2, TierSeqs, SeqDomain
<1>4. IsSeq(a) /\ \A x : x \in ToSet(a) <=> first /\ x = PluginRow(sc.plugin)
  BY SeqOne, SeqEmpty
<1>5. IsSeq(b) /\ Len(b) = 1 /\ ToSet(b) = {SkillRow(sc)}
  BY SeqOne
<1>6. IsSeq(l) /\ Len(l) = Len(cs)
  BY <1>3, MapTells
<1>7. \A x : x \in ToSet(l) <=> \E c \in ToSet(cs) : x = CaseRow(c)
  <2>1. \A j \in 1 .. Len(cs) : l[j] = CaseRow(cs[j])
    BY <1>3
  <2> HIDE DEF l, cs
  <2>2. \A x : x \in ToSet(l) <=> \E j \in 1 .. Len(cs) : l[j] = x
    BY <1>6, InSeq
  <2>3. \A c : c \in ToSet(cs) <=> \E j \in 1 .. Len(cs) : cs[j] = c
    BY <1>3, InSeq
  <2> QED BY <2>1, <2>2, <2>3
<1>8. \A c \in ToSet(cs) : Above(CaseRow(c)) = {SkillRow(sc), PluginRow(sc.plugin)}
  BY <1>2, AboveTells
<1>9. Above(SkillRow(sc)) = {PluginRow(sc.plugin)} /\ Above(PluginRow(sc.plugin)) = {}
  BY <1>2, AboveTells
<1> HIDE DEF a, b, l, first, cs, sc
<1>10. IsSeq(a \o b) /\ ToSet(a \o b) = ToSet(a) \cup ToSet(b)
  BY <1>4, <1>5, SeqConcat
<1>11. IsSeq(a \o b \o l) /\ ToSet(a \o b \o l) = ToSet(a \o b) \cup ToSet(l)
  BY <1>6, <1>10, SeqConcat
<1>12. ASSUME NEW s, IsSeq(s), \A x, y \in ToSet(s) : y \notin Above(x) PROVE TopDown(s)
  <2>1. Len(s) \in Nat /\ \A k \in 1 .. Len(s) : s[k] \in ToSet(s)
    BY <1>12, SeqDomain, InSeq
  <2>2. \A k \in 1 .. Len(s) : \A n \in k .. Len(s) : n \in 1 .. Len(s)
    BY <2>1
  <2> QED BY <1>12, <2>1, <2>2 DEF TopDown
<1>13. TopDown(a)
  BY <1>4, <1>9, <1>12
<1>14. TopDown(b)
  <2>1. SkillRow(sc) # PluginRow(sc.plugin)
    BY RowKinds
  <2> QED BY <1>5, <1>9, <1>12, <2>1
<1>15. TopDown(l)
  <2>1. \A c : CaseRow(c) # SkillRow(sc) /\ CaseRow(c) # PluginRow(sc.plugin)
    BY RowKinds
  <2> QED BY <1>6, <1>7, <1>8, <1>12, <2>1
<1>16. TopDown(a \o b)
  <2>1. \A x \in ToSet(a), y \in ToSet(b) : y \notin Above(x)
    BY <1>4, <1>9
  <2> QED BY <1>4, <1>5, <1>13, <1>14, <2>1, TopDownConcat
<1>17. TopDown(a \o b \o l)
  <2>1. \A c : CaseRow(c) # PluginRow(sc.plugin)
    BY RowKinds
  <2>2. \A x \in ToSet(a \o b), y \in ToSet(l) : y \notin Above(x)
    BY <1>4, <1>5, <1>7, <1>9, <1>10, <2>1
  <2> QED BY <1>6, <1>10, <1>15, <1>16, <2>2, TopDownConcat
<1>18. \A x : x \in ToSet(a \o b \o l) <=>
          \/ first /\ x = PluginRow(sc.plugin)
          \/ x = SkillRow(sc)
          \/ \E c \in ToSet(cs) : x = CaseRow(c)
  BY <1>4, <1>5, <1>7, <1>10, <1>11
<1> QED BY <1>1, <1>11, <1>17, <1>18 DEF sc, first, cs
-----------------------------------------------------------------------------
\* A sequence that holds nothing is empty.
LEMMA NoneEmpty == \A s : IsSeq(s) /\ ToSet(s) = {} => s = <<>>
<1> SUFFICES ASSUME NEW s, s \in Seq({}) PROVE s = <<>>
  BY DEF IsSeq
<1>1. Len(s) = 0
  OBVIOUS
<1> QED BY <1>1

\* The rows of the tree are those of its entries, parents before what is below them.
LEMMA TreeRows ==
    /\ IsSeq(TreeSeq) /\ TopDown(TreeSeq)
    /\ \A x : x \in ToSet(TreeSeq) <=> \E i \in 1 .. Len(Listed) : x \in ToSet(Branch(i))
<1> DEFINE n == Len(Listed)
           bs == [i \in 1 .. n |-> Branch(i)]
<1>1. n \in Nat /\ DOMAIN Listed = 1 .. n
  BY ListedTells
<1>2. TreeSeq = FlattenSeq(bs)
  BY <1>1 DEF TreeSeq
<1>3. IsSeq(bs) /\ Len(bs) = n
  BY <1>1, MapTells
<1>4. \A i \in 1 .. n : bs[i] = Branch(i)
  OBVIOUS
<1>5. \A i \in 1 .. n : IsSeq(Branch(i)) /\ TopDown(Branch(i))
  BY BranchTells
<1> HIDE DEF bs
<1>6. \A i \in 1 .. Len(bs) : IsSeq(bs[i])
  BY <1>3, <1>4, <1>5
<1>7. /\ IsSeq(FlattenSeq(bs))
      /\ \A x : x \in ToSet(FlattenSeq(bs)) <=> \E i \in 1 .. Len(bs) : x \in ToSet(bs[i])
  BY <1>3, <1>6, FlatTells
<1>8. PICK f : /\ f[0] = <<>> /\ f[Len(bs)] = FlattenSeq(bs)
               /\ \A i \in 1 .. Len(bs) : f[i] = f[i - 1] \o bs[i]
               /\ \A i \in 0 .. Len(bs) : IsSeq(f[i])
  BY <1>3, <1>6, FlatSteps
<1> DEFINE Rows2(i) == \A x \in ToSet(f[i]) : \E j \in 1 .. i : x \in ToSet(Branch(j))
           S == {i \in 0 .. n : TopDown(f[i]) /\ Rows2(i)}
<1>9. 0 \in S
  <2>1. Len(f[0]) = 0 /\ ToSet(f[0]) = {}
    BY <1>8, SeqEmpty
  <2> QED BY <1>1, <2>1 DEF TopDown
<1>10. ASSUME NEW i \in 1 .. n, i - 1 \in S PROVE i \in S
  <2> DEFINE sc == Listed[i]
  <2>1. /\ f[i] = f[i - 1] \o Branch(i) /\ IsSeq(f[i - 1]) /\ IsSeq(Branch(i))
        /\ i - 1 \in 0 .. n /\ TopDown(f[i - 1]) /\ TopDown(Branch(i))
    BY <1>1, <1>3, <1>4, <1>5, <1>8, <1>10
  <2>2. ASSUME NEW x \in ToSet(f[i - 1]), NEW y \in ToSet(Branch(i)) PROVE y \notin Above(x)
    <3>1. PICK j \in 1 .. i - 1 : x \in ToSet(Branch(j))
      BY <1>10
    <3> DEFINE sd == Listed[j]
    <3>2. j \in 1 .. n /\ j < i
      BY <1>1
    <3>3. sc \in ToSet(Catalog) /\ sd \in ToSet(Catalog) /\ sc.skill # sd.skill
      BY <3>2, ListedTells
    <3>4. \/ x = PluginRow(sd.plugin) \/ x = SkillRow(sd)
          \/ \E c \in ToSet(CasesOf(sd)) : x = CaseRow(c)
      BY <3>1, <3>2, BranchTells
    <3>5. Above(x) \subseteq {SkillRow(sd), PluginRow(sd.plugin)}
      BY <3>3, <3>4, AboveTells
    <3>6. \/ sd.plugin # sc.plugin /\ y = PluginRow(sc.plugin)
          \/ y = SkillRow(sc)
          \/ \E c \in ToSet(CasesOf(sc)) : y = CaseRow(c)
      BY BranchTells
    <3> HIDE DEF sc, sd
    <3>7. y # SkillRow(sd) /\ y # PluginRow(sd.plugin)
      BY <3>3, <3>6, RowKinds
    <3> QED BY <3>5, <3>7
  <2>3. TopDown(f[i])
    BY <2>1, <2>2, TopDownConcat
  <2>4. ToSet(f[i]) = ToSet(f[i - 1]) \cup ToSet(Branch(i))
    BY <2>1, SeqConcat
  <2>5. ASSUME NEW x \in ToSet(f[i]) PROVE \E j \in 1 .. i : x \in ToSet(Branch(j))
    <3>1. CASE x \in ToSet(Branch(i))
      BY <1>1, <3>1
    <3>2. CASE x \in ToSet(f[i - 1])
      <4>1. PICK j \in 1 .. i - 1 : x \in ToSet(Branch(j))
        BY <1>10, <3>2
      <4>2. j \in 1 .. i
        BY <1>1
      <4> QED BY <4>1, <4>2
    <3> QED BY <2>4, <3>1, <3>2
  <2>6. Rows2(i)
    BY <2>5
  <2>7. i \in 0 .. n
    BY <1>1
  <2> HIDE DEF Rows2
  <2> QED BY <2>3, <2>6, <2>7
<1> HIDE DEF S
<1>11. \A i \in 0 .. n : i \in S
  BY <1>1, <1>9, <1>10, UpTo
<1>12. n \in S
  BY <1>1, <1>11
<1> QED BY <1>2, <1>3, <1>4, <1>7, <1>8, <1>12 DEF S

\* A row is a plugin, a skill or a case of an entry whose rows are in the tree.
LEMMA TreeRowIs ==
    ASSUME NEW x \in ToSet(TreeSeq)
    PROVE  \E sc \in ToSet(Catalog) :
             /\ SkillRow(sc) \in ToSet(TreeSeq) /\ PluginRow(sc.plugin) \in ToSet(TreeSeq)
             /\ \/ x = PluginRow(sc.plugin) \/ x = SkillRow(sc)
                \/ \E c \in ToSet(CasesOf(sc)) : x = CaseRow(c)
<1>1. PICK i \in 1 .. Len(Listed) : x \in ToSet(Branch(i))
  BY TreeRows
<1> DEFINE sc == Listed[i]
           I == {j \in 1 .. Len(Listed) : Listed[j].plugin = sc.plugin}
           k == Min(I)
<1>2. sc \in ToSet(Catalog)
  BY ListedTells
<1>3. SkillRow(sc) \in ToSet(TreeSeq)
  <2>1. SkillRow(sc) \in ToSet(Branch(i))
    BY BranchTells
  <2> QED BY <2>1, TreeRows
<1>4. k \in I /\ \A j \in I : k <= j
  <2>1. I \in SUBSET Nat /\ I # {}
    BY ListedTells
  <2> HIDE DEF I
  <2> QED BY <2>1, FirstOf
<1>5. k \in 1 .. Len(Listed) /\ Listed[k].plugin = sc.plugin
  BY <1>4
<1>6. \A j \in 1 .. k - 1 : Listed[j].plugin # Listed[k].plugin
  <2> SUFFICES ASSUME NEW j \in 1 .. k - 1, Listed[j].plugin = sc.plugin PROVE FALSE
    BY <1>5
  <2>1. j \in 1 .. Len(Listed) /\ ~(k <= j) /\ k \in Nat
    BY <1>5, ListedTells
  <2>2. j \in I
    BY <2>1
  <2> QED BY <1>4, <2>1, <2>2
<1> HIDE DEF k, I
<1>7. PluginRow(sc.plugin) \in ToSet(TreeSeq)
  <2>1. PluginRow(Listed[k].plugin) \in ToSet(Branch(k))
    BY <1>5, <1>6, BranchTells
  <2> QED BY <1>5, <2>1, TreeRows
<1>8. \/ x = PluginRow(sc.plugin) \/ x = SkillRow(sc)
      \/ \E c \in ToSet(CasesOf(sc)) : x = CaseRow(c)
  BY <1>1, BranchTells
<1> QED BY <1>2, <1>3, <1>7, <1>8

\* A row's ancestors are rows of the tree, and some row has none.
LEMMA ParentsThere ==
    ASSUME NEW x \in ToSet(TreeSeq)
    PROVE  /\ Ancestors[x] = Above(x)
           /\ Above(x) = {} => Depth(x) = 0
           /\ Above(x) # {} => /\ ParentOf(x) \in ToSet(TreeSeq)
                               /\ Above(ParentOf(x)) \subseteq Above(x)
           /\ \E y \in ToSet(TreeSeq) : Above(y) = {}
<1>1. Ancestors[x] = Above(x)
  BY DEF Ancestors, Above
<1>2. PICK sc \in ToSet(Catalog) :
             /\ SkillRow(sc) \in ToSet(TreeSeq) /\ PluginRow(sc.plugin) \in ToSet(TreeSeq)
             /\ \/ x = PluginRow(sc.plugin) \/ x = SkillRow(sc)
                \/ \E c \in ToSet(CasesOf(sc)) : x = CaseRow(c)
  BY TreeRowIs
<1>3. Above(PluginRow(sc.plugin)) = {}
  BY AboveTells
<1>4. Above(x) # {} => /\ ParentOf(x) \in ToSet(TreeSeq)
                       /\ Above(ParentOf(x)) \subseteq Above(x)
  <2>1. CASE x = PluginRow(sc.plugin)
    BY <1>3, <2>1
  <2>2. CASE x = SkillRow(sc)
    BY <1>2, <1>3, <2>2, AboveTells
  <2>3. CASE \E c \in ToSet(CasesOf(sc)) : x = CaseRow(c)
    BY <1>2, <2>3, AboveTells
  <2> QED BY <1>2, <2>1, <2>2, <2>3
<1>5. Cardinality({}) = 0
  BY FS_EmptySet
<1> QED BY <1>1, <1>2, <1>3, <1>4, <1>5 DEF Depth

\* A row shows when all that stands above it is open.
LEMMA VisibleTells ==
    ASSUME NEW open
    PROVE  /\ IsSeq(Visible(open)) /\ Len(Visible(open)) \in Nat
           /\ DOMAIN Visible(open) = 1 .. Len(Visible(open))
           /\ ToSet(Visible(open)) = {x \in ToSet(TreeSeq) : Above(x) \subseteq open}
           /\ TreeSeq # <<>> <=> Len(Visible(open)) >= 1
           /\ TreeSeq = <<>> => Visible(open) = <<>>
           /\ TreeSeq # <<>> => Visible(open) # <<>>
<1> DEFINE S == {x \in ToSet(TreeSeq) : Ancestors[x] \subseteq open}
           V == Visible(open)
<1>1. V = Only(TreeSeq, S)
  BY DEF Visible
<1>2. S = {x \in ToSet(TreeSeq) : Above(x) \subseteq open}
  BY ParentsThere
<1> HIDE DEF S, V
<1>3. IsSeq(V) /\ ToSet(V) = ToSet(TreeSeq) \cap S
  BY <1>1, TreeRows, OnlyTells
<1>4. ToSet(V) = S
  BY <1>2, <1>3
<1>5. Len(V) \in Nat /\ DOMAIN V = 1 .. Len(V)
  BY <1>3, SeqDomain
<1>6. ASSUME TreeSeq # <<>> PROVE Len(V) >= 1
  <2>1. PICK x : x \in ToSet(TreeSeq)
    <3>1. ToSet(TreeSeq) # {}
      BY <1>6, TreeRows, NoRows, NoneEmpty
    <3> QED BY <3>1
  <2>2. PICK y \in ToSet(TreeSeq) : Above(y) = {}
    BY <2>1, ParentsThere
  <2>3. y \in ToSet(V)
    BY <1>2, <1>4, <2>2
  <2>4. PICK i \in 1 .. Len(V) : V[i] = y
    BY <1>3, <2>3, InSeq
  <2> QED BY <1>5, <2>4
<1>7. ASSUME TreeSeq = <<>> PROVE V = <<>>
  <2>1. ToSet(TreeSeq) = {}
    BY <1>7, SeqEmpty
  <2>2. ToSet(V) = {}
    BY <1>3, <2>1
  <2> QED BY <1>3, <2>2, NoneEmpty
<1>8. Len(<<>>) = 0
  BY SeqEmpty
<1> QED BY <1>2, <1>3, <1>4, <1>5, <1>6, <1>7, <1>8 DEF V
-----------------------------------------------------------------------------
(* Whatever is folded or unfolded, the cursor of the tree stays on a row.  *)

\* The first p rows that show stay there if what holds of them still holds.
LEMMA OnlyReaches ==
    ASSUME NEW s, IsSeq(s), NEW S, NEW S2, NEW p \in 1 .. Len(Only(s, S)),
           \A t \in 1 .. Len(s) : s[t] = Only(s, S)[p] =>
               \A i \in 1 .. t : s[i] \in S => s[i] \in S2
    PROVE  p <= Len(Only(s, S2))
<1> DEFINE n == Len(s)
<1>1. n \in Nat
  BY SeqDomain
<1>2. PICK k : /\ k[0] = <<>> /\ k[n] = Only(s, S)
               /\ \A i \in 1 .. n :
                     k[i] = IF s[i] \in S THEN Append(k[i - 1], s[i]) ELSE k[i - 1]
  BY OnlySteps
<1>3. PICK l : /\ l[0] = <<>> /\ l[n] = Only(s, S2)
               /\ \A i \in 1 .. n :
                     l[i] = IF s[i] \in S2 THEN Append(l[i - 1], s[i]) ELSE l[i - 1]
  BY OnlySteps
<1> DEFINE Good(t) == \A j \in 1 .. t : s[j] \in S => s[j] \in S2
           Passed(i) == Len(k[i]) >= p =>
                          \E t \in 1 .. i : s[t] = k[i][p] /\ (Good(t) => Len(l[i]) >= p)
           Under(i) == Len(k[i]) < p /\ Good(i) => Len(l[i]) >= Len(k[i])
           G == {i \in 0 .. n : IsSeq(k[i]) /\ IsSeq(l[i]) /\ Passed(i) /\ Under(i)}
<1>4. p \in Nat \ {0} /\ p \in 1 .. Len(k[n])
  <2>1. IsSeq(Only(s, S))
    BY OnlyTells
  <2>2. Len(Only(s, S)) \in Nat
    BY <2>1, SeqDomain
  <2> QED BY <1>2, <2>2
<1>5. 0 \in G
  <2>1. IsSeq(<<>>) /\ Len(<<>>) = 0
    BY SeqEmpty
  <2> QED BY <1>1, <1>2, <1>3, <1>4, <2>1
<1>6. ASSUME NEW i \in 1 .. n, i - 1 \in G PROVE i \in G
  <2> DEFINE a == k[i - 1]
             b == l[i - 1]
             x == s[i]
  <2>1. IsSeq(a) /\ IsSeq(b) /\ i \in Nat /\ i - 1 \in Nat
    BY <1>6, <1>1
  <2>2. Len(a) \in Nat /\ Len(b) \in Nat
    BY <2>1, SeqDomain
  <2>3. /\ IsSeq(Append(a, x)) /\ Len(Append(a, x)) = Len(a) + 1
        /\ IsSeq(Append(b, x)) /\ Len(Append(b, x)) = Len(b) + 1
    BY <2>1, SeqAdd
  <2>4. Append(a, x)[Len(a) + 1] = x /\ \A j \in 1 .. Len(a) : Append(a, x)[j] = a[j]
    <3>1. a \in Seq(ToSet(a) \cup {x})
      BY <2>1 DEF IsSeq
    <3> QED BY <3>1
  <2>5. k[i] = IF x \in S THEN Append(a, x) ELSE a
    BY <1>2
  <2>6. l[i] = IF x \in S2 THEN Append(b, x) ELSE b
    BY <1>3
  <2>7. IsSeq(k[i]) /\ IsSeq(l[i]) /\ Len(l[i]) \in Nat /\ Len(l[i]) >= Len(b)
    BY <2>1, <2>2, <2>3, <2>5, <2>6
  <2>8. Good(i) => Good(i - 1) /\ (x \in S => x \in S2)
    BY <2>1
  <2>9. Passed(i - 1) /\ Under(i - 1)
    BY <1>6
  <2>10. ASSUME Len(a) >= p PROVE Passed(i) /\ Under(i)
    <3>1. PICK t \in 1 .. i - 1 : s[t] = a[p] /\ (Good(t) => Len(b) >= p)
      BY <2>9, <2>10
    <3>2. k[i][p] = a[p] /\ Len(k[i]) >= p
      BY <1>4, <2>2, <2>3, <2>4, <2>5, <2>10
    <3>3. t \in 1 .. i
      BY <2>1
    <3> HIDE DEF Good
    <3>4. Good(t) => Len(l[i]) >= p
      BY <1>4, <2>2, <2>7, <3>1
    <3>5. ~(Len(k[i]) < p)
      BY <1>4, <2>2, <2>3, <2>5, <2>10
    <3> QED BY <3>1, <3>2, <3>3, <3>4, <3>5
  <2>11. ASSUME ~(Len(a) >= p) PROVE Passed(i) /\ Under(i)
    <3>1. Good(i - 1) => Len(b) >= Len(a)
      BY <1>4, <2>2, <2>9, <2>11
    <3> HIDE DEF Good
    <3>2. Good(i) => Len(l[i]) >= Len(k[i])
      BY <2>2, <2>3, <2>5, <2>6, <2>8, <3>1
    <3>3. ASSUME Len(k[i]) >= p PROVE s[i] = k[i][p] /\ Len(k[i]) = p
      <4>1. Len(k[i]) = IF x \in S THEN Len(a) + 1 ELSE Len(a)
        BY <2>3, <2>5
      <4> HIDE DEF a, x
      <4>2. x \in S /\ Len(a) + 1 = p
        BY <1>4, <2>2, <2>11, <3>3, <4>1
      <4> QED BY <2>3, <2>4, <2>5, <4>1, <4>2 DEF x
    <3>4. i \in 1 .. i
      BY <2>1
    <3>5. Passed(i)
      BY <3>2, <3>3, <3>4
    <3>6. Under(i)
      BY <3>2
    <3> QED BY <3>5, <3>6
  <2> HIDE DEF Passed, Under
  <2>12. Passed(i) /\ Under(i)
    BY <2>10, <2>11
  <2> QED BY <1>1, <2>7, <2>12
<1> HIDE DEF G
<1>7. \A i \in 0 .. n : i \in G
  BY <1>1, <1>5, <1>6, UpTo
<1>8. n \in G
  BY <1>1, <1>7
<1>9. PICK t \in 1 .. n : s[t] = k[n][p] /\ (Good(t) => Len(l[n]) >= p)
  BY <1>4, <1>8 DEF G
<1>10. Good(t)
  BY <1>2, <1>9
<1> QED BY <1>3, <1>9, <1>10
-----------------------------------------------------------------------------
\* The cursor's place is one of the rows that show after folding, when no row hides but
\* those below the row at the cursor: the rows up to it all stay.
LEMMA RowStays ==
    ASSUME NEW open, NEW open2, NEW p \in 1 .. Len(Visible(open)),
           \A x \in ToSet(TreeSeq) :
               Above(x) \subseteq open /\ Visible(open)[p] \notin Above(x)
                   => Above(x) \subseteq open2
    PROVE  p \in 1 .. Len(Visible(open2))
<1> DEFINE S == {x \in ToSet(TreeSeq) : Ancestors[x] \subseteq open}
           S2 == {x \in ToSet(TreeSeq) : Ancestors[x] \subseteq open2}
           n == Visible(open)[p]
<1>1. Visible(open) = Only(TreeSeq, S) /\ Visible(open2) = Only(TreeSeq, S2)
  BY DEF Visible
<1>2. \A x : /\ x \in S <=> x \in ToSet(TreeSeq) /\ Above(x) \subseteq open
             /\ x \in S2 <=> x \in ToSet(TreeSeq) /\ Above(x) \subseteq open2
  BY ParentsThere
<1> HIDE DEF S, S2
<1>3. IsSeq(TreeSeq) /\ TopDown(TreeSeq) /\ Len(TreeSeq) \in Nat
  BY TreeRows, SeqDomain
<1>4. ASSUME NEW t \in 1 .. Len(TreeSeq), TreeSeq[t] = n, NEW i \in 1 .. t, TreeSeq[i] \in S
      PROVE  TreeSeq[i] \in S2
  <2>1. i \in 1 .. Len(TreeSeq) /\ t \in i .. Len(TreeSeq)
    BY <1>3
  <2>2. n \notin Above(TreeSeq[i])
    BY <1>3, <1>4, <2>1 DEF TopDown
  <2> QED BY <1>2, <1>4, <2>2
<1>5. p \in 1 .. Len(Only(TreeSeq, S)) /\ Only(TreeSeq, S)[p] = n
  BY <1>1
<1> HIDE DEF n
<1>6. p <= Len(Only(TreeSeq, S2))
  BY <1>3, <1>4, <1>5, OnlyReaches
<1>7. Len(Visible(open2)) \in Nat
  BY VisibleTells
<1>8. p \in Nat \ {0}
  <2>1. Len(Visible(open)) \in Nat
    BY VisibleTells
  <2> QED BY <2>1
<1> QED BY <1>1, <1>6, <1>7, <1>8

\* The open branches and the cursor of the tree.
TreeFits(open, cur) == open \subseteq Parents /\ (TreeSeq # <<>> => cur \in 1 .. Len(Visible(open)))

\* Opening branches leaves the cursor on a row.
LEMMA UnfoldFits ==
    ASSUME NEW open, NEW cur, TreeFits(open, cur), NEW open2 \in SUBSET Parents,
           open \subseteq open2
    PROVE  TreeFits(open2, cur)
<1>1. TreeSeq # <<>> => cur \in 1 .. Len(Visible(open2))
  BY RowStays DEF TreeFits
<1> QED BY <1>1 DEF TreeFits

\* So does opening or closing the row at the cursor.
LEMMA FlipFits ==
    ASSUME NEW open, NEW cur, TreeFits(open, cur), TreeSeq # <<>>,
           NEW n, n = Visible(open)[cur], ~IsLeaf(n)
    PROVE  TreeFits(Flip(n, open), cur)
<1>1. cur \in 1 .. Len(Visible(open)) /\ open \subseteq Parents
  BY DEF TreeFits
<1>2. n \in Parents
  <2>1. IsSeq(Visible(open)) /\ ToSet(Visible(open)) \subseteq ToSet(TreeSeq)
    BY VisibleTells
  <2>2. n \in ToSet(Visible(open))
    BY <1>1, <2>1, InSeq
  <2> QED BY <2>1, <2>2 DEF Parents
<1>3. \A x \in ToSet(TreeSeq) :
          Above(x) \subseteq open /\ n \notin Above(x) => Above(x) \subseteq Flip(n, open)
  BY DEF Flip
<1>4. cur \in 1 .. Len(Visible(Flip(n, open)))
  BY <1>1, <1>3, RowStays
<1>5. Flip(n, open) \subseteq Parents
  BY <1>1, <1>2 DEF Flip
<1> QED BY <1>4, <1>5 DEF TreeFits

\* Within clamps to the list (form.go).
LEMMA WithinTells ==
    /\ \A n \in Nat, i \in Int : n >= 1 => Within(i, n) \in 1 .. n
    /\ \A n \in Nat : \A i \in 1 .. n : Within(i, n) = i
BY DEF Within

-----------------------------------------------------------------------------
(* What the form is: a session, a pane in focus and cursors on their rows. *)

\* Every list that has an item has its cursor on one.
CursorsFit(at) ==
    Lists \subseteq DOMAIN at /\ \A l \in Lists : LengthOf[l] > 0 => at[l] \in 1 .. LengthOf[l]

\* A session, a pane in focus and the cursors where they belong.
IsForm(f) == /\ {"session", "focus", "button", "at", "cur", "open"} \subseteq DOMAIN f
             /\ f.session \in Sessions /\ f.focus \in ToSet(FormPanes)
             /\ CursorsFit(f.at) /\ TreeFits(f.open, f.cur)

\* The panes of the form.
LEMMA PanesAre ==
    /\ ToSet(FormPanes) = {"filters", "harness", "models", "tree", "buttons"}
    /\ IsSeq(FormPanes) /\ Len(FormPanes) = 5
<1> DEFINE s == <<"filters", "harness", "models", "tree", "buttons">>
           S == {"filters", "harness", "models", "tree", "buttons"}
<1>1. s \in Seq(S) /\ Len(s) = 5
  OBVIOUS
<1>2. IsSeq(s)
  BY <1>1, SeqIn
<1>3. \A x : x \in ToSet(s) <=> \E i \in 1 .. 5 : s[i] = x
  BY <1>1, <1>2, InSeq
<1>4. \A i : i \in 1 .. 5 <=> i = 1 \/ i = 2 \/ i = 3 \/ i = 4 \/ i = 5
  OBVIOUS
<1>5. \A x : x \in ToSet(s) <=> x \in S
  BY <1>3, <1>4
<1> QED BY <1>1, <1>2, <1>5 DEF FormPanes

\* The items of the list of models: a provider, or a model of the order.
LEMMA ItemsTell ==
    /\ IsSeq(ModelItems)
    /\ \A x \in ToSet(ModelItems) : x[1] # "provider" => x[2] \in Models
<1> DEFINE n == Len(ModelOrder)
           m(i) == <<"model", ModelOrder[i]>>
           h(i) == Header(ProviderOf[ModelOrder[i]])
           first(i) == i = 1 \/ ProviderOf[ModelOrder[i]] # ProviderOf[ModelOrder[i - 1]]
           part(i) == IF first(i) THEN <<h(i), m(i)>> ELSE <<m(i)>>
           s == [i \in 1 .. n |-> part(i)]
<1>1. IsSeq(ModelOrder) /\ n \in Nat /\ DOMAIN ModelOrder = 1 .. n
  BY CatalogAssumption, SeqDomain DEF IsSeq, Models
<1>2. \A i \in 1 .. n : ModelOrder[i] \in Models
  BY <1>1, InSeq DEF Models
<1>3. ModelItems = FlattenSeq(s)
  BY <1>1 DEF ModelItems
<1>4. IsSeq(s) /\ Len(s) = n
  BY <1>1, MapTells
<1>5. ASSUME NEW i \in 1 .. n
      PROVE  IsSeq(part(i)) /\ \A x \in ToSet(part(i)) : x = h(i) \/ x = m(i)
  <2> HIDE DEF h, m, first
  <2>1. IsSeq(<<m(i)>>) /\ ToSet(<<m(i)>>) = {m(i)}
    BY SeqOne
  <2>2. <<h(i), m(i)>> \in Seq({h(i), m(i)})
    OBVIOUS
  <2>3. IsSeq(<<h(i), m(i)>>) /\ ToSet(<<h(i), m(i)>>) \subseteq {h(i), m(i)}
    BY <2>2, SeqIn
  <2> QED BY <2>1, <2>3
<1>6. \A i \in 1 .. n : s[i] = part(i)
  OBVIOUS
<1>7. \A i : h(i)[1] = "provider" /\ m(i)[2] = ModelOrder[i]
  BY DEF Header
<1> HIDE DEF s, part, h, m
<1>8. \A i \in 1 .. Len(s) : IsSeq(s[i])
  BY <1>4, <1>5, <1>6
<1>9. /\ IsSeq(FlattenSeq(s))
      /\ \A x : x \in ToSet(FlattenSeq(s)) <=> \E i \in 1 .. Len(s) : x \in ToSet(s[i])
  BY <1>4, <1>8, FlatTells
<1>10. ASSUME NEW x \in ToSet(ModelItems), x[1] # "provider" PROVE x[2] \in Models
  <2>1. PICK i \in 1 .. n : x \in ToSet(part(i))
    BY <1>3, <1>4, <1>6, <1>9
  <2>2. x = m(i)
    BY <1>5, <1>7, <1>10, <2>1
  <2> QED BY <1>2, <1>7, <2>2
<1> QED BY <1>3, <1>9, <1>10

\* How long the lists are.
LEMMA ListLengths ==
    /\ LengthOf["filters"] = 3 /\ LengthOf["harness"] = Len(HarnessOrder)
    /\ LengthOf["models"] = Len(ModelItems)
    /\ \A l \in Lists : LengthOf[l] \in Nat
<1>1. Len(HarnessOrder) \in Nat
  BY CatalogAssumption
<1>2. Len(ModelItems) \in Nat
  BY ItemsTell, SeqDomain
<1>3. Len(FilterItems) = 3
  BY DEF FilterItems
<1> QED BY <1>1, <1>2, <1>3 DEF LengthOf, Lists
-----------------------------------------------------------------------------

\* The choices the form keeps for the cases.
CaseChoices == [AllCases -> {"auto", "on", "off"}]

\* A session as the flags open it.
LEMMA NewSessionTells == ASSUME NEW k \in Starts PROVE NewSession(k) \in Sessions
<1> DEFINE chosen == [c \in AllCases |->
                        IF IsEval(c) /\ k.eval \notin {AnyEval, c} THEN "off" ELSE "auto"]
           ms == RunnableSelections(k.modelFlag, k.harnessFlag)
           hs == EligibleHarnesses(k.harnessFlag)
           s == [filters |-> k.filters, harnesses |-> hs, models |-> ms, cases |-> chosen]
           left == {m \in ms : ModelOffered(k, s, m)}
<1>1. chosen \in CaseChoices
  BY DEF CaseChoices
<1>2. k.filters \in SUBSET FilterNames
  BY StartsAssumption
<1>3. hs \in SUBSET Harnesses
  BY CatalogAssumption DEF EligibleHarnesses
<1>4. ms \in SUBSET Models
  BY DEF RunnableSelections
<1> HIDE DEF chosen, ms, hs
<1>5. NewSession(k) = [s EXCEPT !.models = left]
  BY DEF NewSession, chosen, ms, hs
<1>6. left \in SUBSET Models
  BY <1>4
<1> HIDE DEF left
<1>7. [s EXCEPT !.models = left] =
         [filters |-> k.filters, harnesses |-> hs, models |-> left, cases |-> chosen]
  OBVIOUS
<1> QED BY <1>1, <1>2, <1>3, <1>5, <1>6, <1>7 DEF Sessions, CaseChoices

\* The parts of a session, and what setting one leaves.
LEMMA SessionParts ==
    ASSUME NEW s \in Sessions
    PROVE  /\ s.filters \in SUBSET FilterNames /\ s.harnesses \in SUBSET Harnesses
           /\ s.models \in SUBSET Models /\ s.cases \in CaseChoices
           /\ \A x \in SUBSET FilterNames : [s EXCEPT !.filters = x] \in Sessions
           /\ \A x \in SUBSET Harnesses : [s EXCEPT !.harnesses = x] \in Sessions
           /\ \A x \in SUBSET Models : [s EXCEPT !.models = x] \in Sessions
           /\ \A x \in CaseChoices : [s EXCEPT !.cases = x] \in Sessions
<1> DEFINE F == SUBSET FilterNames
           H == SUBSET Harnesses
           M == SUBSET Models
           C == CaseChoices
<1>1. Sessions = [filters : F, harnesses : H, models : M, cases : C]
  BY DEF Sessions, CaseChoices
<1> HIDE DEF F, H, M, C
<1>2. s.filters \in F /\ s.harnesses \in H /\ s.models \in M /\ s.cases \in C
  BY <1>1
<1>3. \A x \in F : [s EXCEPT !.filters = x] \in Sessions
  BY <1>1
<1>4. \A x \in H : [s EXCEPT !.harnesses = x] \in Sessions
  BY <1>1
<1>5. \A x \in M : [s EXCEPT !.models = x] \in Sessions
  BY <1>1
<1>6. \A x \in C : [s EXCEPT !.cases = x] \in Sessions
  BY <1>1
<1> QED BY <1>2, <1>3, <1>4, <1>5, <1>6 DEF F, H, M, C

\* Toggling filters, harnesses, models and cases keeps a session one.
LEMMA SessionEdits ==
    ASSUME NEW s \in Sessions
    PROVE  /\ \A x \in FilterNames : ToggleFilter(s, x) \in Sessions
           /\ \A x : ToggleHarness(s, x) \in Sessions
           /\ \A x \in Models : ToggleModel(s, x) \in Sessions
           /\ \A x : ToggleProvider(s, x) \in Sessions
           /\ \A r, refs : CycleNode(s, r, refs) \in Sessions
<1>1. ASSUME NEW refs, NEW st \in {"auto", "on", "off"}
      PROVE  SetCases(s, refs, st) \in Sessions
  <2> DEFINE chosen == [c \in AllCases |-> IF c \in refs THEN st ELSE s.cases[c]]
  <2>1. s.cases \in CaseChoices
    BY SessionParts
  <2>2. chosen \in CaseChoices
    BY <2>1 DEF CaseChoices
  <2>3. SetCases(s, refs, st) = [s EXCEPT !.cases = chosen]
    BY DEF SetCases
  <2> HIDE DEF chosen
  <2> QED BY <2>2, <2>3, SessionParts
<1>2. ASSUME NEW x \in FilterNames PROVE ToggleFilter(s, x) \in Sessions
  <2>1. Flip(x, s.filters) \in SUBSET FilterNames
    BY SessionParts DEF Flip
  <2> QED BY <2>1, SessionParts DEF ToggleFilter
<1>3. ASSUME NEW x PROVE ToggleHarness(s, x) \in Sessions
  <2>1. CASE x \in Installed
    <3>1. Flip(x, s.harnesses) \in SUBSET Harnesses
      BY <2>1, SessionParts, CatalogAssumption DEF Flip
    <3> QED BY <2>1, <3>1, SessionParts DEF ToggleHarness
  <2>2. CASE x \notin Installed
    BY <2>2 DEF ToggleHarness
  <2> QED BY <2>1, <2>2
<1>4. ASSUME NEW x \in Models PROVE ToggleModel(s, x) \in Sessions
  <2>1. Flip(x, s.models) \in SUBSET Models
    BY SessionParts DEF Flip
  <2>2. [s EXCEPT !.models = Flip(x, @)] \in Sessions
    BY <2>1, SessionParts
  <2> QED BY <2>2 DEF ToggleModel
<1>5. ASSUME NEW x PROVE ToggleProvider(s, x) \in Sessions
  <2> DEFINE group == {m \in Models : ProviderOf[m] = x /\ Runnable(s, m)}
             ms == IF group \subseteq s.models THEN s.models \ group ELSE s.models \cup group
  <2>1. group \in SUBSET Models
    OBVIOUS
  <2>2. ToggleProvider(s, x) = [s EXCEPT !.models = ms]
    BY DEF ToggleProvider
  <2> HIDE DEF group
  <2>3. ms \in SUBSET Models
    BY <2>1, SessionParts
  <2> HIDE DEF ms
  <2> QED BY <2>2, <2>3, SessionParts
<1>6. ASSUME NEW r, NEW refs PROVE CycleNode(s, r, refs) \in Sessions
  <2> DEFINE st == CASE NodeSel(s, r, refs) = "forceOff" -> "on"
                     [] NodeSel(s, r, refs) = "forceOn" /\ AutoAvailable(s, r, refs) -> "auto"
                     [] OTHER -> "off"
  <2>1. st \in {"auto", "on", "off"}
    OBVIOUS
  <2>2. CycleNode(s, r, refs) = SetCases(s, refs, st)
    BY DEF CycleNode
  <2> HIDE DEF st
  <2> QED BY <1>1, <2>1, <2>2
<1> QED BY <1>2, <1>3, <1>4, <1>5, <1>6

\* A form as the program opens it.
LEMMA NewFormTells == ASSUME NEW k \in Starts, NEW r PROVE IsForm(NewForm(k, r))
<1> DEFINE f == NewForm(k, r)
           at == [l \in Lists |-> 1]
           open == f.open
<1>1. /\ {"session", "focus", "button", "at", "cur", "open"} \subseteq DOMAIN f
      /\ f.session = NewSession(k) /\ f.focus = "filters" /\ f.at = at /\ f.cur = 1
      /\ f.open \subseteq Parents
  BY DEF NewForm
<1>2. f.session \in Sessions /\ f.focus \in ToSet(FormPanes)
  BY <1>1, NewSessionTells, PanesAre
<1>3. CursorsFit(at)
  BY ListLengths DEF CursorsFit
<1> HIDE DEF f
<1>4. TreeFits(open, 1)
  <2>1. TreeSeq # <<>> => 1 \in 1 .. Len(Visible(open))
    BY VisibleTells
  <2> QED BY <1>1, <2>1 DEF TreeFits
<1> HIDE DEF at
<1> QED BY <1>1, <1>2, <1>3, <1>4 DEF IsForm, f

\* Focus, cursors and folds are no part of the session.
LEMMA FormEdits ==
    ASSUME NEW f, IsForm(f)
    PROVE  /\ \A x \in ToSet(FormPanes) : IsForm([f EXCEPT !.focus = x])
           /\ \A x : IsForm([f EXCEPT !.button = x])
           /\ \A x : CursorsFit(x) => IsForm([f EXCEPT !.at = x])
           /\ \A x : TreeFits(f.open, x) => IsForm([f EXCEPT !.cur = x])
           /\ \A x : TreeFits(x, f.cur) => IsForm([f EXCEPT !.open = x])
           /\ \A s \in Sessions : IsForm([f EXCEPT !.session = s])
<1> USE DEF IsForm
<1>1. \A x \in ToSet(FormPanes) : IsForm([f EXCEPT !.focus = x])
  OBVIOUS
<1>2. \A x : IsForm([f EXCEPT !.button = x])
  OBVIOUS
<1>3. \A x : CursorsFit(x) => IsForm([f EXCEPT !.at = x])
  OBVIOUS
<1>4. \A x : TreeFits(f.open, x) => IsForm([f EXCEPT !.cur = x])
  OBVIOUS
<1>5. \A x : TreeFits(x, f.cur) => IsForm([f EXCEPT !.open = x])
  OBVIOUS
<1>6. \A s \in Sessions : IsForm([f EXCEPT !.session = s])
  OBVIOUS
<1> HIDE DEF IsForm
<1> QED BY <1>1, <1>2, <1>3, <1>4, <1>5, <1>6

\* A cursor set within its list leaves all of them so.
LEMMA CursorMoves ==
    ASSUME NEW at, CursorsFit(at), NEW l \in Lists, NEW x, LengthOf[l] > 0 => x \in 1 .. LengthOf[l]
    PROVE  CursorsFit([at EXCEPT ![l] = x])
BY DEF CursorsFit
-----------------------------------------------------------------------------
\* Toggling keeps a form one.
LEMMA ToggleTells == ASSUME NEW f, IsForm(f), NEW r PROVE IsForm(Toggle(f, r))
<1>1. f.session \in Sessions /\ CursorsFit(f.at)
  BY DEF IsForm
<1>2. \A s \in Sessions : IsForm([f EXCEPT !.session = s])
  BY FormEdits
<1>3. \/ \E s \in Sessions : Toggle(f, r) = [f EXCEPT !.session = s]
      \/ Toggle(f, r) = f
  <2>1. CASE f.focus = "filters"
    <3>1. Toggle(f, r) = [f EXCEPT !.session = ToggleFilter(f.session, FilterItems[f.at.filters])]
      BY <2>1 DEF Toggle
    <3>2. f.at.filters \in 1 .. 3
      BY <1>1, ListLengths DEF CursorsFit, Lists
    <3>3. f.at.filters = 1 \/ f.at.filters = 2 \/ f.at.filters = 3
      BY <3>2
    <3>4. FilterItems[f.at.filters] \in FilterNames
      BY <3>3 DEF FilterItems, FilterNames
    <3> QED BY <1>1, <3>1, <3>4, SessionEdits
  <2>2. CASE f.focus = "harness"
    <3>1. CASE HarnessOrder # <<>>
      <4>1. Toggle(f, r) =
               [f EXCEPT !.session = ToggleHarness(f.session, HarnessOrder[f.at.harness])]
        BY <2>2, <3>1 DEF Toggle
      <4> QED BY <1>1, <4>1, SessionEdits
    <3>2. CASE HarnessOrder = <<>>
      BY <2>2, <3>2 DEF Toggle
    <3> QED BY <3>1, <3>2
  <2>3. CASE f.focus = "models"
    <3>1. CASE ModelItems # <<>>
      <4> DEFINE item == ModelItems[f.at.models]
      <4>1. Toggle(f, r) = [f EXCEPT !.session = ToggleItem(f.session, item)]
        BY <2>3, <3>1 DEF Toggle
      <4>2. Len(ModelItems) > 0
        <5>1. Len(ModelItems) \in Nat
          BY ItemsTell, SeqDomain
        <5>2. Len(ModelItems) = 0 => ToSet(ModelItems) = {}
          BY ItemsTell, InSeq
        <5>3. ToSet(ModelItems) # {}
          BY <3>1, ItemsTell, NoneEmpty
        <5> QED BY <5>1, <5>2, <5>3
      <4>3. f.at.models \in 1 .. Len(ModelItems)
        BY <1>1, <4>2, ListLengths DEF CursorsFit, Lists
      <4>4. item \in ToSet(ModelItems)
        BY <4>3, ItemsTell, InSeq
      <4>5. item[1] # "provider" => item[2] \in Models
        BY <4>4, ItemsTell
      <4> HIDE DEF item
      <4>6. ToggleItem(f.session, item) \in Sessions
        BY <1>1, <4>5, SessionEdits DEF ToggleItem
      <4> QED BY <4>1, <4>6
    <3>2. CASE ModelItems = <<>>
      BY <2>3, <3>2 DEF Toggle
    <3> QED BY <3>1, <3>2
  <2>4. CASE f.focus = "tree"
    <3>1. CASE RowsShown(f) # <<>>
      <4>1. Toggle(f, r) = [f EXCEPT !.session = CycleNode(f.session, r, Leaves[NodeAt(f)])]
        BY <2>4, <3>1 DEF Toggle
      <4> QED BY <1>1, <4>1, SessionEdits
    <3>2. CASE RowsShown(f) = <<>>
      BY <2>4, <3>2 DEF Toggle
    <3> QED BY <3>1, <3>2
  <2>5. CASE f.focus \notin {"filters", "harness", "models", "tree"}
    BY <2>5 DEF Toggle
  <2> QED BY <2>1, <2>2, <2>3, <2>4, <2>5
<1> QED BY <1>2, <1>3

\* The row under the cursor shows, and so does whatever is above it.
LEMMA RowUnder ==
    ASSUME NEW f, IsForm(f), RowsShown(f) # <<>>
    PROVE  /\ TreeSeq # <<>> /\ f.cur \in 1 .. Len(RowsShown(f))
           /\ NodeAt(f) = Visible(f.open)[f.cur]
           /\ NodeAt(f) \in ToSet(TreeSeq) /\ Above(NodeAt(f)) \subseteq f.open
<1>1. RowsShown(f) = Visible(f.open)
  BY DEF RowsShown
<1>2. TreeSeq # <<>>
  BY <1>1, VisibleTells
<1>3. f.cur \in 1 .. Len(RowsShown(f))
  BY <1>1, <1>2 DEF IsForm, TreeFits
<1>4. /\ IsSeq(Visible(f.open)) /\ Len(Visible(f.open)) \in Nat
      /\ ToSet(Visible(f.open)) = {x \in ToSet(TreeSeq) : Above(x) \subseteq f.open}
  BY VisibleTells
<1>5. NodeAt(f) = Visible(f.open)[f.cur]
  BY <1>1, <1>3, <1>4, WithinTells DEF NodeAt
<1>6. NodeAt(f) \in ToSet(Visible(f.open))
  BY <1>1, <1>3, <1>4, <1>5, InSeq
<1> QED BY <1>2, <1>3, <1>4, <1>5, <1>6

\* So does moving within a panel.
LEMMA MoveInTells ==
    ASSUME NEW f, IsForm(f), NEW p \in ToSet(FormPanes), NEW delta \in {-1, 1}
    PROVE  IsForm(MoveIn(f, p, delta))
<1>1. CASE p \in Lists /\ LengthOf[p] > 0
  <2> DEFINE x == Within(f.at[p] + delta, LengthOf[p])
  <2>1. f.at[p] \in 1 .. LengthOf[p] /\ LengthOf[p] \in Nat /\ CursorsFit(f.at)
    BY <1>1, ListLengths DEF IsForm, CursorsFit
  <2>2. x \in 1 .. LengthOf[p]
    <3>1. f.at[p] + delta \in Int /\ LengthOf[p] >= 1
      BY <1>1, <2>1
    <3> QED BY <2>1, <3>1, WithinTells
  <2>3. MoveIn(f, p, delta) = [f EXCEPT !.at[p] = x]
    <3>1. p # "tree"
      BY <1>1 DEF Lists
    <3> QED BY <1>1, <3>1, Zenon DEF MoveIn
  <2> HIDE DEF x
  <2>4. CursorsFit([f.at EXCEPT ![p] = x])
    BY <1>1, <2>1, <2>2, CursorMoves
  <2>5. [f EXCEPT !.at[p] = x] = [f EXCEPT !.at = [f.at EXCEPT ![p] = x]]
    OBVIOUS
  <2> QED BY <2>3, <2>4, <2>5, FormEdits
<1>2. CASE p = "tree" /\ RowsShown(f) # <<>>
  <2> DEFINE x == Within(f.cur + delta, Len(RowsShown(f)))
  <2>1. /\ f.cur \in 1 .. Len(RowsShown(f)) /\ RowsShown(f) = Visible(f.open)
        /\ Len(RowsShown(f)) \in Nat
    BY <1>2, RowUnder, VisibleTells DEF RowsShown
  <2>2. x \in 1 .. Len(RowsShown(f))
    <3>1. f.cur + delta \in Int /\ Len(RowsShown(f)) >= 1
      BY <2>1
    <3> QED BY <2>1, <3>1, WithinTells
  <2>3. MoveIn(f, p, delta) = [f EXCEPT !.cur = x]
    BY <1>2 DEF MoveIn, Lists
  <2> HIDE DEF x
  <2>4. TreeFits(f.open, x)
    BY <2>1, <2>2 DEF IsForm, TreeFits
  <2> QED BY <2>3, <2>4, FormEdits
<1>3. CASE ~(p \in Lists /\ LengthOf[p] > 0) /\ ~(p = "tree" /\ RowsShown(f) # <<>>)
  BY <1>3 DEF MoveIn
<1> QED BY <1>1, <1>2, <1>3

\* So does going to an end of it.
LEMMA ToEndTells == ASSUME NEW f, IsForm(f), NEW up \in BOOLEAN PROVE IsForm(ToEnd(f, up))
<1>1. CASE f.focus \in Lists
  <2> DEFINE l == f.focus
             n == LengthOf[l]
             x == IF up THEN 1 ELSE IF n = 0 THEN 1 ELSE n
  <2>1. n \in Nat /\ CursorsFit(f.at)
    BY <1>1, ListLengths DEF IsForm
  <2>2. ToEnd(f, up) = [f EXCEPT !.at[l] = x]
    <3>1. f.focus # "tree"
      BY <1>1 DEF Lists
    <3> QED BY <1>1, <3>1, Zenon DEF ToEnd
  <2>3. n > 0 => x \in 1 .. n
    BY <2>1
  <2> HIDE DEF x
  <2>4. CursorsFit([f.at EXCEPT ![l] = x])
    BY <1>1, <2>1, <2>3, CursorMoves
  <2>5. [f EXCEPT !.at[l] = x] = [f EXCEPT !.at = [f.at EXCEPT ![l] = x]]
    OBVIOUS
  <2> QED BY <2>2, <2>4, <2>5, FormEdits
<1>2. CASE f.focus = "tree"
  <2> DEFINE n == Len(RowsShown(f))
             x == IF up THEN 1 ELSE n
  <2>1. /\ n \in Nat /\ n = Len(Visible(f.open)) /\ (TreeSeq # <<>> => n >= 1)
    BY VisibleTells DEF RowsShown
  <2>2. ToEnd(f, up) = [f EXCEPT !.cur = x]
    BY <1>2 DEF ToEnd, Lists
  <2>3. TreeSeq # <<>> => x \in 1 .. n
    BY <2>1
  <2> HIDE DEF x, n
  <2>4. TreeFits(f.open, x)
    BY <2>1, <2>3 DEF IsForm, TreeFits
  <2> QED BY <2>2, <2>4, FormEdits
<1>3. CASE f.focus \notin Lists /\ f.focus # "tree"
  BY <1>3 DEF ToEnd
<1> QED BY <1>1, <1>2, <1>3

\* The cursor goes to the parent of a row that shows.
LEMMA GoToTells ==
    ASSUME NEW f, IsForm(f), NEW n \in ToSet(TreeSeq), Above(n) \subseteq f.open, Above(n) # {}
    PROVE  IsForm(GoTo(f, ParentOf(n)))
<1> DEFINE s == RowsShown(f)
           p == ParentOf(n)
           i == SelectInSeq(s, LAMBDA x : x = p)
<1>1. p \in ToSet(TreeSeq) /\ Above(p) \subseteq f.open
  BY ParentsThere
<1>2. s = Visible(f.open) /\ IsSeq(s)
  BY VisibleTells DEF RowsShown
<1>3. p \in ToSet(s)
  BY <1>1, <1>2, VisibleTells
<1>4. GoTo(f, p) = [f EXCEPT !.cur = i]
  BY DEF GoTo
<1>5. i = FirstAt(s, p)
  BY DEF FirstAt
<1> HIDE DEF i, s, p
<1>6. i \in 1 .. Len(s)
  BY <1>2, <1>3, <1>5, SelectTells
<1>7. TreeFits(f.open, i)
  BY <1>2, <1>6 DEF IsForm, TreeFits
<1>8. IsForm([f EXCEPT !.cur = i])
  BY <1>7, FormEdits
<1> QED BY <1>4, <1>8 DEF p

\* Opening or closing the row at the cursor.
LEMMA FoldNodeTells ==
    ASSUME NEW f, IsForm(f), RowsShown(f) # <<>>, NEW unfold \in BOOLEAN
    PROVE  IsForm(FoldNode(f, NodeAt(f), unfold))
<1> DEFINE n == NodeAt(f)
<1>1. /\ TreeSeq # <<>> /\ n = Visible(f.open)[f.cur]
      /\ n \in ToSet(TreeSeq) /\ Above(n) \subseteq f.open
  BY RowUnder
<1> HIDE DEF n
<1>2. CASE IsLeaf(n) \/ (n \in f.open) = unfold
  <2>1. CASE unfold \/ Depth(n) = 0
    BY <1>2, <2>1 DEF FoldNode, n
  <2>2. CASE ~(unfold \/ Depth(n) = 0)
    <3>1. Above(n) # {}
      BY <1>1, <2>2, ParentsThere
    <3>2. FoldNode(f, n, unfold) = GoTo(f, ParentOf(n))
      BY <1>2, <2>2 DEF FoldNode
    <3> QED BY <1>1, <3>1, <3>2, GoToTells DEF n
  <2> QED BY <2>1, <2>2
<1>3. CASE ~(IsLeaf(n) \/ (n \in f.open) = unfold)
  <2>1. FoldNode(f, n, unfold) = [f EXCEPT !.open = Flip(n, f.open)]
    BY <1>3 DEF FoldNode
  <2>2. TreeFits(f.open, f.cur)
    BY DEF IsForm
  <2>3. TreeFits(Flip(n, f.open), f.cur)
    BY <1>1, <1>3, <2>2, FlipFits
  <2> QED BY <2>1, <2>3, FormEdits DEF n
<1> QED BY <1>2, <1>3

\* [+] and [-], which open and close a whole level.
LEMMA LevelTells ==
    ASSUME NEW f, IsForm(f)
    PROVE  IsForm(ExpandLevel(f)) /\ IsForm(CollapseLevel(f))
<1>1. IsForm(ExpandLevel(f))
  <2> DEFINE closed == {n \in ToSet(RowsShown(f)) : ~IsLeaf(n) /\ n \notin f.open}
             more == {n \in closed : \A x \in closed : Depth(n) <= Depth(x)}
  <2>1. ToSet(RowsShown(f)) \subseteq ToSet(TreeSeq)
    BY VisibleTells DEF RowsShown
  <2>2. closed \subseteq Parents
    BY <2>1 DEF Parents
  <2>3. ExpandLevel(f) = [f EXCEPT !.open = f.open \cup more]
    BY DEF ExpandLevel
  <2>4. more \subseteq Parents
    BY <2>2
  <2> HIDE DEF more
  <2>5. TreeFits(f.open, f.cur) /\ f.open \subseteq Parents
    BY DEF IsForm, TreeFits
  <2>6. TreeFits(f.open \cup more, f.cur)
    BY <2>4, <2>5, UnfoldFits
  <2> QED BY <2>3, <2>6, FormEdits
<1>2. IsForm(CollapseLevel(f))
  <2> DEFINE opened == ToSet(RowsShown(f)) \cap f.open
             open == f.open \ {n \in opened : \A x \in opened : Depth(n) >= Depth(x)}
             g == [f EXCEPT !.open = open]
             m == Len(Visible(open))
             x == Within(f.cur, m)
  <2>1. CASE opened = {}
    BY <2>1 DEF CollapseLevel
  <2>2. CASE opened # {}
    <3>1. opened \subseteq ToSet(TreeSeq)
      BY VisibleTells DEF RowsShown
    <3>2. TreeSeq # <<>>
      <4>1. ToSet(<<>>) = {}
        BY SeqEmpty
      <4> QED BY <2>2, <3>1, <4>1
    <3>3. /\ CollapseLevel(f) = [g EXCEPT !.cur = Within(@, Len(RowsShown(g)))]
      BY <2>2 DEF CollapseLevel
    <3>4. open \subseteq Parents /\ f.cur \in Int
      BY <3>2, VisibleTells DEF IsForm, TreeFits
    <3> HIDE DEF open
    <3>5. g.open = open /\ g.cur = f.cur
      BY DEF IsForm
    <3>6. Len(RowsShown(g)) = m
      BY <3>5 DEF RowsShown
    <3>7. m \in Nat /\ m >= 1
      BY <3>2, VisibleTells
    <3> HIDE DEF m
    <3>8. x \in 1 .. m
      BY <3>4, <3>7, WithinTells
    <3> HIDE DEF x
    <3>9. CollapseLevel(f) = [f EXCEPT !.open = open, !.cur = x]
      BY <3>3, <3>5, <3>6 DEF x
    <3>10. TreeFits(open, x)
      BY <3>4, <3>8 DEF TreeFits, m
    <3> QED BY <3>9, <3>10 DEF IsForm
  <2> QED BY <2>1, <2>2
<1> QED BY <1>1, <1>2
-----------------------------------------------------------------------------
\* [tab] and [shift+tab].
LEMMA CycleTells ==
    ASSUME NEW f, IsForm(f), NEW delta \in {-1, 1} PROVE IsForm(CycleFocus(f, delta))
<1> DEFINE n == Len(FormPanes)
           i == SelectInSeq(FormPanes, LAMBDA p : p = f.focus) - 1
           pane == FormPanes[((i + delta + n) % n) + 1]
           b == IF pane = "buttons" THEN "run" ELSE f.button
<1>1. IsSeq(FormPanes) /\ n = 5 /\ f.focus \in ToSet(FormPanes)
  BY PanesAre DEF IsForm
<1>2. i = FirstAt(FormPanes, f.focus) - 1
  BY DEF FirstAt
<1> HIDE DEF i
<1>3. i \in 0 .. 4
  <2>1. FirstAt(FormPanes, f.focus) \in 1 .. Len(FormPanes)
    BY <1>1, SelectTells
  <2> QED BY <1>1, <1>2, <2>1
<1>4. ((i + delta + n) % n) + 1 \in 1 .. 5
  <2>1. i + delta + n \in Int
    BY <1>1, <1>3
  <2> DEFINE z == i + delta + n
  <2> HIDE DEF z
  <2>2. (z % 5) + 1 \in 1 .. 5
    BY <2>1 DEF z
  <2> QED BY <1>1, <2>2 DEF z
<1>5. pane \in ToSet(FormPanes)
  BY <1>1, <1>4, InSeq
<1>6. CycleFocus(f, delta) = [f EXCEPT !.focus = pane, !.button = b]
  BY DEF CycleFocus, i
<1> DEFINE h == [f EXCEPT !.focus = pane]
<1> HIDE DEF pane, b
<1>7. IsForm(h)
  BY <1>5, FormEdits
<1>8. CycleFocus(f, delta) = [h EXCEPT !.button = b]
  BY <1>6
<1> HIDE DEF h
<1> QED BY <1>7, <1>8, FormEdits

\* [left] and [right], pane by pane.
LEMMA HorizontalTells ==
    ASSUME NEW f, IsForm(f), NEW right \in BOOLEAN PROVE IsForm(Horizontal(f, right))
<1>1. CASE f.focus = "tree" /\ RowsShown(f) # <<>>
  BY <1>1, FoldNodeTells DEF Horizontal
<1>2. CASE f.focus = "buttons"
  BY <1>2, FormEdits DEF Horizontal
<1>3. CASE ~(f.focus = "tree" /\ RowsShown(f) # <<>>) /\ f.focus # "buttons"
  BY <1>3 DEF Horizontal
<1> QED BY <1>1, <1>2, <1>3

\* So does every key.
LEMMA KeysTell == ASSUME NEW f, IsForm(f), NEW r, NEW g \in Keys(f, r) PROVE IsForm(g)
<1>1. f.focus \in ToSet(FormPanes)
  BY DEF IsForm
<1>2. \/ \E d \in {-1, 1} : g = CycleFocus(f, d)
      \/ \E d \in {-1, 1} : g = MoveIn(f, f.focus, d)
      \/ \E p \in ToSet(FormPanes) : g = [f EXCEPT !.focus = p]
      \/ \E right \in BOOLEAN : g = Horizontal(f, right)
      \/ \E up \in BOOLEAN : g = ToEnd(f, up)
      \/ g = Toggle(f, r)
      \/ g \in {ExpandLevel(f), CollapseLevel(f)}
  BY DEF Keys
<1>3. \A p \in ToSet(FormPanes) : IsForm([f EXCEPT !.focus = p])
  BY FormEdits
<1> QED BY <1>1, <1>2, <1>3, CycleTells, MoveInTells, HorizontalTells, ToEndTells, ToggleTells,
           LevelTells

\* A click on a list.
LEMMA ClickListTells ==
    ASSUME NEW f, IsForm(f), NEW r, NEW l \in Lists, NEW i \in 1 .. LengthOf[l]
    PROVE  IsForm(ClickList(f, r, l, i))
<1> DEFINE h == [f EXCEPT !.focus = l]
           at == [f.at EXCEPT ![l] = i]
           k == [h EXCEPT !.at = at]
<1>1. IsForm(h)
  BY PanesAre, FormEdits DEF Lists
<1>2. CursorsFit(at)
  BY CursorMoves DEF IsForm
<1>3. ClickList(f, r, l, i) = Toggle(k, r)
  BY DEF ClickList
<1> HIDE DEF h, at
<1>4. IsForm(k)
  BY <1>1, <1>2, FormEdits
<1> QED BY <1>3, <1>4, ToggleTells

\* A click on a row of the tree.
LEMMA ClickTreeTells ==
    ASSUME NEW f, IsForm(f), NEW r, NEW i \in DOMAIN RowsShown(f)
    PROVE  IsForm(ClickTree(f, r, i))
<1> DEFINE h == [f EXCEPT !.focus = "tree"]
           k == [h EXCEPT !.cur = i]
           n == RowsShown(f)[i]
<1>1. IsForm(h) /\ h.open = f.open
  BY PanesAre, FormEdits DEF IsForm
<1>2. RowsShown(f) = Visible(f.open) /\ i \in 1 .. Len(Visible(f.open))
  BY VisibleTells DEF RowsShown
<1>3. TreeSeq # <<>>
  <2>1. Visible(f.open) # <<>>
    BY <1>2, SeqEmpty
  <2> QED BY <2>1, VisibleTells
<1>4. TreeFits(f.open, i)
  BY <1>2 DEF IsForm, TreeFits
<1>5. k = [f EXCEPT !.focus = "tree", !.cur = i]
  OBVIOUS
<1>6. k.open = f.open /\ k.cur = i
  BY DEF IsForm
<1> HIDE DEF h
<1>7. IsForm(k)
  BY <1>1, <1>4, FormEdits
<1>8. n = Visible(f.open)[i]
  BY <1>2
<1> HIDE DEF k, n
<1>9. ClickTree(f, r, i) = CASE ~IsLeaf(n) -> [k EXCEPT !.open = Flip(n, @)]
                             [] IsLeaf(n) /\ f.focus = "tree" /\ f.cur = i -> Toggle(k, r)
                             [] OTHER -> k
  BY <1>5, Zenon DEF ClickTree, n
<1>10. CASE ~IsLeaf(n)
  <2>1. ClickTree(f, r, i) = [k EXCEPT !.open = Flip(n, f.open)]
    BY <1>6, <1>9, <1>10
  <2>2. TreeFits(Flip(n, f.open), i)
    BY <1>3, <1>4, <1>8, <1>10, FlipFits
  <2> QED BY <1>6, <1>7, <2>1, <2>2, FormEdits
<1>11. CASE IsLeaf(n)
  <2>1. ClickTree(f, r, i) \in {Toggle(k, r), k}
    BY <1>9, <1>11
  <2> QED BY <1>7, <2>1, ToggleTells
<1> QED BY <1>10, <1>11

\* So does the mouse.
LEMMA MouseTells == ASSUME NEW f, IsForm(f), NEW r, NEW g \in Mouse(f, r) PROVE IsForm(g)
<1> DEFINE lists == UNION {{ClickList(f, r, l, i) : i \in 1 .. LengthOf[l]} : l \in Lists}
           tree == {ClickTree(f, r, i) : i \in DOMAIN RowsShown(f)}
           wheel == {MoveIn(f, p, d) : p \in ToSet(FormPanes), d \in {-1, 1}}
           h == [f EXCEPT !.focus = "buttons"]
           b == [h EXCEPT !.button = "run"]
<1>1. \/ g \in lists \/ g \in tree \/ g \in wheel
      \/ g = [f EXCEPT !.focus = "buttons", !.button = "run"]
  BY DEF Mouse
<1>2. g \in lists => IsForm(g)
  BY ClickListTells
<1>3. g \in tree => IsForm(g)
  BY ClickTreeTells
<1>4. g \in wheel => IsForm(g)
  BY MoveInTells
<1>5. b = [f EXCEPT !.focus = "buttons", !.button = "run"]
  OBVIOUS
<1>6. IsForm(h)
  BY PanesAre, FormEdits
<1> HIDE DEF h
<1>7. IsForm(b)
  BY <1>6, FormEdits
<1> HIDE DEF lists, tree, wheel, b
<1> QED BY <1>1, <1>2, <1>3, <1>4, <1>5, <1>7

-----------------------------------------------------------------------------
\* Every step keeps the form one.
LEMMA FormStep ==
    ASSUME start \in Starts, IsForm(form), [Next]_vars
    PROVE  IsForm(form')
<1> USE DEF user, rest
<1>1. CASE FormInput
  BY <1>1, KeysTell, MouseTells DEF FormInput
<1>2. CASE Run
  <2>1. form' = NewForm(start, reasons)
    BY <1>2 DEF Run
  <2> QED BY <2>1, NewFormTells
<1>3. CASE User /\ ~FormInput /\ ~Run
  BY <1>3 DEF User, Cancel, DashInput, AskQuit, Stay, Quit, SigTerm, SigInt, SigPlain
<1>4. CASE Engine
  BY <1>4 DEF Engine, EngineTakes, EngineUnused, StartBaseline, FinishBaseline, StartItem,
              FinishItem, SaveUnit, CountUnit, AbortUnit, EngineEnds
<1>5. CASE Host
  BY <1>5 DEF Host, Deliver, ProgramExits, Main, Reconcile, ReconcileFails, RunChecks, UiCloses,
              UiReturns, PlainReturns, UiAborts, RunReport, ReportFails
<1>6. CASE UNCHANGED vars
  BY <1>6 DEF vars
<1> QED BY <1>1, <1>2, <1>3, <1>4, <1>5, <1>6 DEF Next

\* The form's session, its cursors and its tree are what they should be.
THEOREM FormAlways == Spec => []IsForm(form)
<1>1. Init => IsForm(form)
  BY NewFormTells DEF Init
<1>2. RowsInv => start \in Starts
  BY DEF RowsInv, OpenInv
<1>3. RowsInv /\ IsForm(form) /\ [Next]_vars => IsForm(form')
  BY <1>2, FormStep
<1>4. RowsInv /\ IsForm(form) /\ [Next]_vars => IsForm(form)'
  BY <1>3
<1> QED BY <1>1, <1>4, RowsAlways, PTL DEF Spec

\* What the invariant says is what the type invariant asks of the form.
LEMMA FormIsOK == IsForm(form) => FormOK
BY VisibleTells DEF IsForm, CursorsFit, TreeFits, FormOK, RowsShown
-----------------------------------------------------------------------------
\* A request asks for the enabled models.
LEMMA RequestTells ==
    ASSUME NEW s, NEW r
    PROVE  /\ IsSeq(Request(s, r).models) /\ ToSet(Request(s, r).models) = Enabled(s)
           /\ Request(s, r).cases = s.cases
           /\ Request(s, r).needs =
                  {row \in Enabled(s) \X AllCases : Baseline(s, r, row[1], row[2])}
<1>1. /\ Request(s, r).models = Only(ModelOrder, Enabled(s)) /\ Request(s, r).cases = s.cases
      /\ Request(s, r).needs = {row \in Enabled(s) \X AllCases : Baseline(s, r, row[1], row[2])}
  BY DEF Request, EnabledModels
<1>2. IsSeq(ModelOrder)
  BY CatalogAssumption DEF IsSeq, Models
<1>3. ToSet(Only(ModelOrder, Enabled(s))) = ToSet(ModelOrder) \cap Enabled(s)
  BY <1>2, OnlyTells
<1>4. Enabled(s) \subseteq ToSet(ModelOrder)
  BY DEF Enabled, Models
<1> QED BY <1>1, <1>2, <1>3, <1>4, PlanHasSeq

\* What is queued: the rows on, and the ones on auto that the filters select.
LEMMA QueuedTells ==
    ASSUME NEW s, NEW r, NEW row \in Rows(Enabled(s))
    PROVE  row \in QueuedRows(Request(s, r)) <=>
              /\ s.cases[row[2]] # "off"
              /\ s.cases[row[2]] = "on" \/ Baseline(s, r, row[1], row[2])
<1> DEFINE q == Request(s, r)
<1>1. ToSet(q.models) = Enabled(s) /\ q.cases = s.cases
      /\ q.needs = {x \in Enabled(s) \X AllCases : Baseline(s, r, x[1], x[2])}
  BY RequestTells
<1>2. row \in Enabled(s) \X AllCases /\ row = <<row[1], row[2]>>
  BY DEF Rows
<1> HIDE DEF q
<1>3. row \in QueuedRows(q) <=> Queued(q, row[1], row[2])
  BY <1>1 DEF QueuedRows
<1>4. <<row[1], row[2]>> \in q.needs <=> Baseline(s, r, row[1], row[2])
  BY <1>1, <1>2
<1>5. Queued(q, row[1], row[2]) <=>
         /\ s.cases[row[2]] # "off"
         /\ s.cases[row[2]] = "on" \/ <<row[1], row[2]>> \in q.needs
  BY <1>1 DEF Queued
<1> QED BY <1>3, <1>4, <1>5 DEF q

\* The glyph of a node tells whether a row below it is queued.
LEMMA GlyphTells ==
    ASSUME NEW s \in Sessions, NEW r, NEW refs,
           \A row \in Rows(Enabled(s)) : row[2] \in refs => HasReason(r, row[1], row[2]),
           NEW row \in Rows(Enabled(s)), row[2] \in refs
    PROVE  /\ NodeSel(s, r, refs) \in {"none", "forceOff"} => row \notin QueuedRows(Request(s, r))
           /\ NodeSel(s, r, refs) \in {"all", "forceOn"} => row \in QueuedRows(Request(s, r))
<1> DEFINE sel == NodeSel(s, r, refs)
           c == row[2]
           base == Baseline(s, r, row[1], row[2])
           queued == row \in QueuedRows(Request(s, r))
           counted == Counted(s, r, refs)
           hits == CountedQueued(s, r, refs)
<1>1. queued <=> s.cases[c] # "off" /\ (s.cases[c] = "on" \/ base)
  BY QueuedTells
<1>2. row \in Enabled(s) \X refs /\ c \in AllCases /\ HasReason(r, row[1], row[2])
  BY DEF Rows
<1>3. s.cases[c] \in {"auto", "on", "off"}
  BY <1>2 DEF Sessions
<1>4. row \in counted
  BY <1>2 DEF Counted
<1>5. row \in hits <=> s.cases[c] = "on" \/ (s.cases[c] = "auto" /\ base)
  BY <1>4 DEF CountedQueued
<1>6. sel = IF \A x \in refs : s.cases[x] = "on" THEN "forceOn"
            ELSE IF \A x \in refs : s.cases[x] = "off" THEN "forceOff"
            ELSE IF hits = {} THEN "none"
            ELSE IF hits = counted THEN "all" ELSE "some"
  BY DEF NodeSel
<1> HIDE DEF sel, base, queued, counted, hits
<1>7. sel = "forceOn" => \A x \in refs : s.cases[x] = "on"
  BY <1>6
<1>8. sel = "forceOff" => \A x \in refs : s.cases[x] = "off"
  BY <1>6
<1>9. (sel = "none" => hits = {}) /\ (sel = "all" => hits = counted)
  BY <1>6
<1>10. sel \in {"none", "forceOff"} => ~queued
  BY <1>1, <1>3, <1>5, <1>8, <1>9
<1>11. sel \in {"all", "forceOn"} => queued
  BY <1>1, <1>3, <1>4, <1>5, <1>7, <1>9
<1> QED BY <1>10, <1>11 DEF sel, queued

\* The glyphs of the tree tell the plan.
LEMMA GlyphsAreTrue == IsForm(form) => GlyphsTellThePlan
<1> SUFFICES ASSUME IsForm(form),
                    NEW n \in ToSet(TreeSeq)
             PROVE  LET queued == QueuedRows(Request(form.session, reasons))
                        rows == {row \in Rows(Enabled(form.session)) : row[2] \in Leaves[n]}
                        sel == NodeSel(form.session, reasons, Leaves[n])
                    IN  (\A row \in rows : HasReason(reasons, row[1], row[2])) =>
                          /\ sel \in {"none", "forceOff"} => rows \cap queued = {}
                          /\ sel \in {"all", "forceOn"} => rows \subseteq queued
  BY DEF GlyphsTellThePlan
<1> DEFINE s == form.session
           refs == Leaves[n]
           rows == {row \in Rows(Enabled(s)) : row[2] \in refs}
           queued == QueuedRows(Request(s, reasons))
           sel == NodeSel(s, reasons, refs)
<1>1. s \in Sessions
  BY DEF IsForm
<1>2. ASSUME \A row \in rows : HasReason(reasons, row[1], row[2]), NEW row \in rows
      PROVE  /\ sel \in {"none", "forceOff"} => row \notin queued
             /\ sel \in {"all", "forceOn"} => row \in queued
  <2>1. \A x \in Rows(Enabled(s)) : x[2] \in refs => HasReason(reasons, x[1], x[2])
    BY <1>2
  <2>2. row \in Rows(Enabled(s)) /\ row[2] \in refs
    BY <1>2
  <2> HIDE DEF s, refs
  <2> QED BY <1>1, <2>1, <2>2, GlyphTells
<1> HIDE DEF rows, queued, sel
<1>3. (\A row \in rows : HasReason(reasons, row[1], row[2])) =>
          /\ sel \in {"none", "forceOff"} => rows \cap queued = {}
          /\ sel \in {"all", "forceOn"} => rows \subseteq queued
  BY <1>2
<1> QED BY <1>3 DEF rows, queued, sel

-----------------------------------------------------------------------------
\* The engine takes the dashboard's queued rows, and done means all of them are settled.
LEMMA SweepIsThePlan == RowsInv /\ TakesInv => SweepRunsThePlan
<1> SUFFICES ASSUME RowsInv, TakesInv, Interactive,
                    eng.pc \in {"sweep", "stopped"}, eng.err = "none"
             PROVE  LET visible == {row \in dash.queued :
                                       IsEval(row[2]) => start.eval \in {AnyEval, row[2]}}
                    IN  /\ Taken = visible
                        /\ dash.done => \A row \in visible : row \in dash.live
  BY DEF SweepRunsThePlan
<1> DEFINE visible == {row \in dash.queued : IsEval(row[2]) => start.eval \in {AnyEval, row[2]}}
<1>1. screen = "dash"
  BY DEF RowsInv, OpenInv
<1>2. dash.queued = QueuedRows(request)
  BY <1>1 DEF RowsInv, PlanInv
<1>3. Taken = visible
  BY <1>2 DEF TakesInv, PlannedInv, Planned, Taken, Left, EvalAllows
<1>4. dash.done => eng.todo = <<>> /\ DOMAIN ran \subseteq dash.live
  BY <1>1 DEF TakesInv, PlannedInv, SettledInv
<1>5. dash.done => Taken = DOMAIN ran
  BY <1>4, NoRows DEF Taken
<1> HIDE DEF visible
<1>6. dash.done => \A row \in visible : row \in dash.live
  BY <1>3, <1>4, <1>5
<1> QED BY <1>3, <1>6 DEF visible

-----------------------------------------------------------------------------
\* The form as it opens asks for the models of the flags that are offered.
LEMMA OpenedTells ==
    ASSUME NEW k
    PROVE  LET s == NewSession(k)
           IN  /\ s.filters = k.filters /\ Eligible(s) = EligibleHarnesses(k.harnessFlag)
               /\ \A c \in AllCases :
                      s.cases[c] = IF IsEval(c) /\ k.eval \notin {AnyEval, c} THEN "off" ELSE "auto"
<1> DEFINE s == NewSession(k)
           chosen == [c \in AllCases |->
                        IF IsEval(c) /\ k.eval \notin {AnyEval, c} THEN "off" ELSE "auto"]
           ms == RunnableSelections(k.modelFlag, k.harnessFlag)
           hs == EligibleHarnesses(k.harnessFlag)
<1>1. \E left : s = [[filters |-> k.filters, harnesses |-> hs, models |-> ms, cases |-> chosen]
                        EXCEPT !.models = left]
  BY DEF NewSession
<1> HIDE DEF s, chosen, ms, hs
<1>2. s.filters = k.filters /\ s.harnesses = hs /\ s.cases = chosen
  BY <1>1
<1>3. hs \subseteq Installed
  BY DEF hs, EligibleHarnesses
<1>4. Eligible(s) = hs
  BY <1>2, <1>3 DEF Eligible
<1>5. \A c \in AllCases :
         chosen[c] = IF IsEval(c) /\ k.eval \notin {AnyEval, c} THEN "off" ELSE "auto"
  BY DEF chosen
<1> QED BY <1>2, <1>4, <1>5 DEF s, hs

\* The flags alone queue what the form would have opened with.
LEMMA PlainIsTheSame == RowsInv /\ TakesInv => PlainRunsTheSame
<1> SUFFICES ASSUME RowsInv, TakesInv, ~Interactive, eng.pc \in {"sweep", "stopped"},
                    eng.err = "none", SameHarness, NewSession(start).models = ToSet(request.models)
             PROVE  Unattended \subseteq Taken /\ Taken \subseteq Unattended \cup start.baselines
  BY Zenon DEF PlainRunsTheSame
<1> DEFINE k == start
           s == NewSession(k)
           M == ToSet(PlainModels(k))
           q == Request(s, reasons)
<1>1. k \in Starts
  BY DEF RowsInv, OpenInv
<1>2. reasons = CaseReasons(k)
  BY <1>1 DEF reasons, ReasonsOf
<1>3. Unattended = ToSet(RowsOf(EngineUnits(q, k.eval)))
  BY <1>1 DEF Unattended, UnattendedOf, reasons
<1>4. IsSeq(q.models) /\ ToSet(q.models) = Enabled(s)
  BY RequestTells
<1>5. Unattended = {row \in QueuedRows(q) : EvalAllows(k.eval, row)}
  <2> HIDE DEF q
  <2> QED BY <1>3, <1>4, EngineRows
<1>6. /\ request.models = PlainModels(k)
      /\ \A m \in M : request.harness[m] = PlainHarness(k, m)
  BY DEF TakesInv, AskedInv
<1>7. s.models = M
  BY <1>6
<1>8. \A m \in M : /\ m \in Models /\ PlainHarness(k, m) # NoHarness
                    /\ PlainHarness(k, m) = RunnableHarness(m, Installed)
  <2>1. IsSeq(ModelOrder)
    BY CatalogAssumption DEF IsSeq, Models
  <2>2. M = ToSet(ModelOrder) \cap RunnableSelections(k.modelFlag, k.harnessFlag)
    BY <2>1, OnlyTells DEF PlainModels
  <2>3. \A m \in M : request.harness[m] = RunnableHarness(m, Installed)
    BY <1>6 DEF SameHarness
  <2> QED BY <1>6, <2>2, <2>3 DEF RunnableSelections, PlainHarness
<1>9. /\ s.filters = k.filters /\ Eligible(s) = EligibleHarnesses(k.harnessFlag)
      /\ \A c \in AllCases :
             s.cases[c] = IF IsEval(c) /\ k.eval \notin {AnyEval, c} THEN "off" ELSE "auto"
  BY OpenedTells
<1>10. Enabled(s) = M
  <2> HIDE DEF s, M
  <2> QED BY <1>7, <1>8, <1>9 DEF Enabled, Runnable, PlainHarness
<1>11. Taken = {row \in Rows(M) : InScope(k, row[2]) /\ InRunSet(k, row[1], row[2])}
  <2>1. Taken = ToSet(RowsOf(PlainUnits(k)))
    BY DEF TakesInv, PlannedInv, Planned, Taken, Left
  <2> QED BY <2>1, PlainRows
<1>12. ASSUME NEW row \in Rows(M)
       PROVE  /\ row[1] \in M /\ row[2] \in AllCases /\ Allows(EntryOf(row[2]), row[1])
              /\ row = <<row[1], row[2]>>
  BY DEF Rows
<1>13. ASSUME NEW row \in Rows(M)
       PROVE  Baseline(s, reasons, row[1], row[2]) <=>
                 /\ InScope(k, row[2])
                 /\ \/ k.filters = {}
                    \/ k.filters \cap Reasons(k, row[1], row[2], PlainHarness(k, row[1])) # {}
  <2> DEFINE m == row[1]
             c == row[2]
             D == {d \in AllCases : Allows(EntryOf(d), m) /\ InScope(k, d)}
             E == {x \in Models : RunnableHarness(x, Installed) # NoHarness}
  <2>1. m \in M /\ c \in AllCases /\ Allows(EntryOf(c), m)
    BY <1>12
  <2>2. m \in E /\ PlainHarness(k, m) = RunnableHarness(m, Installed)
    BY <1>8, <2>1
  <2>3. DOMAIN reasons = E /\ reasons[m] = [d \in D |-> Reasons(k, m, d, PlainHarness(k, m))]
    BY <1>2, <2>2 DEF CaseReasons
  <2> HIDE DEF E
  <2>4. DOMAIN reasons[m] = D /\ (c \in D => reasons[m][c] = Reasons(k, m, c, PlainHarness(k, m)))
    BY <2>3
  <2>5. c \in D <=> InScope(k, c)
    BY <2>1
  <2> HIDE DEF D, s, m, c
  <2>6. HasReason(reasons, m, c) <=> InScope(k, c)
    BY <2>2, <2>3, <2>4, <2>5 DEF HasReason
  <2>7. Baseline(s, reasons, m, c) <=>
          /\ InScope(k, c)
          /\ k.filters = {} \/ k.filters \cap Reasons(k, m, c, PlainHarness(k, m)) # {}
    BY <1>9, <2>4, <2>5, <2>6 DEF Baseline
  <2> QED BY <2>7 DEF m, c
<1>14. ASSUME NEW row \in Rows(M)
       PROVE  row \in Unattended <=>
                 /\ InScope(k, row[2])
                 /\ \/ k.filters = {}
                    \/ k.filters \cap Reasons(k, row[1], row[2], PlainHarness(k, row[1])) # {}
  <2>1. row \in QueuedRows(q) <=> /\ s.cases[row[2]] # "off"
                                  /\ s.cases[row[2]] = "on" \/ Baseline(s, reasons, row[1], row[2])
    BY <1>10, QueuedTells
  <2>2. s.cases[row[2]] = IF EvalAllows(k.eval, row) THEN "auto" ELSE "off"
    BY <1>9, <1>12 DEF EvalAllows
  <2>3. InScope(k, row[2]) => EvalAllows(k.eval, row)
    BY DEF InScope, EvalAllows
  <2> HIDE DEF s, q
  <2> QED BY <1>5, <1>13, <2>1, <2>2, <2>3
<1>15. Unattended \subseteq Rows(M)
  BY <1>4, <1>5, <1>10 DEF QueuedRows
<1>16. ASSUME NEW row \in Rows(M), BaselineNeeded(k, row[1], row[2]) PROVE row \in k.baselines
  BY <1>12, <1>16 DEF BaselineNeeded
<1> HIDE DEF k, s, M, q
<1>17. Unattended \subseteq Taken
  BY <1>11, <1>14, <1>15 DEF InRunSet
<1>18. ASSUME NEW row \in Taken PROVE row \in Unattended \/ row \in k.baselines
  BY <1>11, <1>14, <1>16 DEF InRunSet
<1> QED BY <1>17, <1>18 DEF k

\* What runs is what the form showed, and what it would show.
THEOREM RunsAreShown == Spec => []RunsWhatWasShown
<1>1. IsForm(form) /\ RowsInv /\ TakesInv => RunsWhatWasShown
  BY GlyphsAreTrue, SweepIsThePlan, PlainIsTheSame DEF RunsWhatWasShown
<1> QED BY <1>1, FormAlways, RowsAlways, TakesAlways, PTL
-----------------------------------------------------------------------------
(* What the reports count.                                                 *)
\* Finitely many things of every skill are finitely many.
LEMMA CatalogFinite ==
    ASSUME NEW g, \A sc \in ToSet(Catalog) : IsFiniteSet(g[sc])
    PROVE  IsFiniteSet(UNION {g[sc] : sc \in ToSet(Catalog)})
<1> DEFINE n == Len(Catalog)
           f == [i \in 1 .. n |-> g[Catalog[i]]]
<1>1. IsSeq(Catalog) /\ n \in Nat
  BY CatalogAssumption, SeqDomain DEF IsSeq
<1>2. \A sc : sc \in ToSet(Catalog) <=> \E i \in 1 .. n : Catalog[i] = sc
  BY <1>1, InSeq
<1>3. IsSeq(f) /\ Len(f) = n
  BY <1>1, MapTells
<1>4. \A i \in 1 .. n : f[i] = g[Catalog[i]]
  OBVIOUS
<1> HIDE DEF f
<1>5. \A S : S \in ToSet(f) <=> \E i \in 1 .. n : f[i] = S
  BY <1>3, InSeq
<1>6. ToSet(f) = {g[sc] : sc \in ToSet(Catalog)}
  BY <1>2, <1>4, <1>5
<1>7. IsFiniteSet(ToSet(f))
  BY <1>3, SeqFinite
<1>8. \A S \in ToSet(f) : IsFiniteSet(S)
  BY <1>6
<1>9. IsFiniteSet(UNION ToSet(f))
  BY <1>7, <1>8, FS_UNION
<1> QED BY <1>6, <1>9

\* The cases of today's spec files and those of the earlier ones.
LEMMA CasesFinite == IsFiniteSet(AllCases) /\ IsFiniteSet(Removed)
<1>1. IsFiniteSet(AllCases)
  <2> DEFINE g == [sc \in ToSet(Catalog) |-> ToSet(CasesOf(sc))]
  <2>1. \A sc \in ToSet(Catalog) : IsFiniteSet(g[sc])
    BY TierSeqs, SeqFinite
  <2>2. AllCases = UNION {g[sc] : sc \in ToSet(Catalog)}
    BY DEF AllCases
  <2> HIDE DEF g
  <2> QED BY <2>1, <2>2, CatalogFinite
<1>2. IsFiniteSet(Removed)
  <2> DEFINE g == [sc \in ToSet(Catalog) |-> sc.removed["triggers"] \cup sc.removed["evals"]]
  <2>1. ToSet(Tiers) = {"triggers", "evals"}
    BY TierNames
  <2>2. \A sc \in ToSet(Catalog) : IsFiniteSet(g[sc])
    BY <2>1, CatalogAssumption, FS_Union
  <2>3. Removed = UNION {g[sc] : sc \in ToSet(Catalog)}
    BY <2>1 DEF Removed
  <2> HIDE DEF g
  <2> QED BY <2>2, <2>3, CatalogFinite
<1> QED BY <1>1, <1>2

\* An entry of the summary counts cases of its model.
LEMMA EntryFits ==
    ASSUME NEW f, NEW sc \in ToSet(Catalog), NEW t \in ToSet(Tiers), NEW m
    PROVE  Entry(f, sc, t, m) \subseteq {m} \X (AllCases \cup Removed)
<1>1. TierCases(sc, t) \subseteq AllCases
  BY TierSeqs DEF TierCases
<1>2. sc.removed[t] \subseteq Removed
  BY DEF Removed
<1> QED BY <1>1, <1>2 DEF Entry, Ever

\* They are finitely many.
LEMMA EntriesFinite ==
    ASSUME NEW f, NEW t \in ToSet(Tiers), NEW m,
           NEW R, \A row \in R : \E sc \in ToSet(Catalog) : row \in Entry(f, sc, t, m)
    PROVE  IsFiniteSet(R)
<1>1. \A sc \in ToSet(Catalog) : Entry(f, sc, t, m) \subseteq {m} \X (AllCases \cup Removed)
  BY EntryFits
<1>2. R \in SUBSET ({m} \X (AllCases \cup Removed))
  BY <1>1
<1>3. IsFiniteSet({m} \X (AllCases \cup Removed))
  BY CasesFinite, FS_Union, FS_Singleton, FS_Product
<1> QED BY <1>2, <1>3, FS_Subset

\* Of the results that count, those that passed and those that broke differ.
LEMMA RollupAdds ==
    ASSUME NEW f, NEW scs \in SUBSET ToSet(Catalog), NEW t \in ToSet(Tiers), NEW m
    PROVE  LET r == Rollup(f, scs, t, m)
           IN  r.passed + r.errored <= r.executed /\ r.executed <= r.total
<1> DEFINE done == {sc \in scs : <<sc.skill, m, t>> \in f.executed}
           rows(s) == UNION {Entry(f, sc, t, m) : sc \in s}
           P == {row \in rows(done) : f.stored[row] = "pass"}
           E == {row \in rows(done) : f.stored[row] = "error"}
           R == rows(done)
           T == rows(scs)
<1>1. /\ Rollup(f, scs, t, m).passed = Cardinality(P)
      /\ Rollup(f, scs, t, m).errored = Cardinality(E)
      /\ Rollup(f, scs, t, m).executed = Cardinality(R)
      /\ Rollup(f, scs, t, m).total = Cardinality(T)
  BY DEF Rollup
<1>2. IsFiniteSet(T)
  <2>1. \A row \in T : \E sc \in ToSet(Catalog) : row \in Entry(f, sc, t, m)
    OBVIOUS
  <2> HIDE DEF T
  <2> QED BY <2>1, EntriesFinite
<1>3. R \in SUBSET T
  OBVIOUS
<1>4. P \in SUBSET R /\ E \in SUBSET R /\ P \cap E = {}
  OBVIOUS
<1> HIDE DEF P, E, R, T
<1>5. IsFiniteSet(R) /\ Cardinality(R) <= Cardinality(T)
  BY <1>2, <1>3, FS_Subset
<1>6. IsFiniteSet(P) /\ IsFiniteSet(E)
  BY <1>4, <1>5, FS_Subset
<1>7. Cardinality(P \cup E) = Cardinality(P) + Cardinality(E)
  <2>1. Cardinality(P \cup E) = Cardinality(P) + Cardinality(E) - Cardinality(P \cap E)
    BY <1>6, FS_Union
  <2>2. Cardinality(P) \in Nat /\ Cardinality(E) \in Nat
    BY <1>6, FS_CardinalityType
  <2>3. Cardinality(P \cap E) = 0
    BY <1>4, FS_EmptySet
  <2> QED BY <2>1, <2>2, <2>3
<1>8. Cardinality(P \cup E) <= Cardinality(R)
  <2>1. P \cup E \in SUBSET R
    BY <1>4
  <2> QED BY <1>5, <2>1, FS_Subset
<1>9. Cardinality(P) + Cardinality(E) <= Cardinality(R) /\ Cardinality(R) <= Cardinality(T)
  BY <1>5, <1>7, <1>8
<1> QED BY <1>1, <1>9

\* What passed and what errored was executed.
SummaryAdds(r) == \A k \in DOMAIN r.summary :
    LET x == r.summary[k] IN x.passed + x.errored <= x.executed /\ x.executed <= x.total

\* The counts of every report add up.
LEMMA ReportsAdd ==
    /\ SummaryAdds(NoReport)
    /\ \A f, active, strict : SummaryAdds(Generate(f, active, strict))
<1>1. SummaryAdds(NoReport)
  BY NoRows DEF SummaryAdds, NoReport
<1>2. ASSUME NEW f, NEW active, NEW strict PROVE SummaryAdds(Generate(f, active, strict))
  <2>1. Generate(f, active, strict).summary = Summary(f, active)
    BY DEF Generate
  <2>2. ASSUME NEW k \in DOMAIN Summary(f, active)
        PROVE  Summary(f, active)[k] = Rollup(f, SkillsOf(k[1]), k[2], k[3])
    BY DEF Summary
  <2>3. ASSUME NEW k \in DOMAIN Summary(f, active)
        PROVE  LET x == Summary(f, active)[k]
               IN  x.passed + x.errored <= x.executed /\ x.executed <= x.total
    <3>1. SkillsOf(k[1]) \in SUBSET ToSet(Catalog) /\ k[2] \in ToSet(Tiers)
      BY DEF SkillsOf, Summary
    <3> QED BY <2>2, <3>1, RollupAdds
  <2> QED BY <2>1, <2>3 DEF SummaryAdds
<1> QED BY <1>1, <1>2
-----------------------------------------------------------------------------
(* The rest of the state: the board, the verdicts and where each part is.  *)

\* Every row has a status the board can draw, and what is queued is on it.
StatusOK(d) == \A row \in DOMAIN d.status : d.status[row] \in Statuses
Drawn(d) == StatusOK(d) /\ d.queued \subseteq ToSet(d.log)

\* Every result is a verdict, or there is none.
Judged(r) == \A row \in DOMAIN r : r[row] \in Verdicts \cup {"none"}

\* Where the link, the program, the checks, evolve and the engine are.
KindsOK ==
    /\ link \in {"none", "sending", "full"} /\ prog \in {"off", "up", "down", "error"}
    /\ ui \in {"starting", "checking", "waiting", "closing", "sweeping", "reporting", "returned"}
    /\ exit \in {"none", "ok", "warned", "failures", "fatal"}
    /\ checked \in {"none", "ok", "failures"}
    /\ eng.pc \in {"select", "sweep", "stopped", "unused"}

\* What TypeOK asks of the state beside the form and the cursors.
TypeInv == Drawn(dash) /\ Judged(ran) /\ KindsOK /\ SummaryAdds(report)

\* The dashboard as it opens has a status for every row.
LEMMA FreshIsDrawn ==
    ASSUME NEW q, IsSeq(q.models), NEW stored
    PROVE  Drawn(NewDashboard(Build(q), stored))
<1> DEFINE d == NewDashboard(Build(q), stored)
           log == RowsOf(UnitsOf(q.models))
           queued == QueuedRows(q)
<1>1. Build(q).units = UnitsOf(q.models) /\ Build(q).queued = queued
  BY DEF Build
<1>2. d.log = log /\ d.queued = queued
  BY BuiltTells
<1> HIDE DEF log, queued
<1>3. d.status = [row \in ToSet(log) |-> IF stored[row] \in Verdicts THEN stored[row]
                                         ELSE IF row \in queued THEN "pending" ELSE "nodata"]
  BY <1>1 DEF NewDashboard, log
<1>4. StatusOK(d)
  BY <1>3 DEF StatusOK, Statuses, Settled, Verdicts
<1>5. queued \subseteq ToSet(log)
  BY QueuedShown DEF queued, log
<1> QED BY <1>2, <1>4, <1>5 DEF Drawn

\* The invariant holds before evolve does anything.
LEMMA TypeInit == Init => TypeInv
<1> SUFFICES ASSUME Init PROVE TypeInv
  OBVIOUS
<1>1. IsSeq(NoRequest.models)
  BY SeqEmpty DEF NoRequest
<1>2. Drawn(dash)
  BY <1>1, FreshIsDrawn DEF Init
<1>3. Judged(ran) /\ SummaryAdds(report)
  BY NoRows, ReportsAdd DEF Init, Judged
<1>4. KindsOK
  BY DEF Init, KindsOK, EmptyEngine
<1> QED BY <1>2, <1>3, <1>4 DEF TypeInv

\* A case ends with a verdict.
LEMMA VerdictsAre ==
    ASSUME RowsInv, NEW row, NEW v \in Outcomes(row)
    PROVE  v \in Verdicts
BY StartsAssumption DEF Outcomes, RowsInv, OpenInv

-----------------------------------------------------------------------------
\* Telling the program of an event that leaves the board drawn.
LEMMA ToldDrawn ==
    ASSUME RowsInv, Drawn(dash), eng.pc = "sweep", NEW e, Tell(e),
           screen = "dash" /\ prog = "up"
               => e.log = dash.log /\ e.queued = dash.queued /\ StatusOK(e)
    PROVE  Drawn(dash')
<1>1. CASE prog = "up"
  <2>1. screen = "dash" /\ dash' = e
    BY <1>1 DEF Tell, RowsInv, OpenInv
  <2> QED BY <1>1, <2>1 DEF Drawn
<1>2. CASE prog # "up"
  BY <1>2 DEF Tell
<1> QED BY <1>1, <1>2

\* What a started case changes of the board is its own row's status.
LEMMA StartTellsRows ==
    ASSUME NEW d, NEW row, NEW b, row \in DOMAIN d.status, IsDash(d), IsSeq(d.inflight),
           Distinct(d.inflight)
    PROVE  /\ StartCase(d, row, b).log = d.log /\ StartCase(d, row, b).queued = d.queued
           /\ StartCase(d, row, b).done = d.done
           /\ StartCase(d, row, b).status = [d.status EXCEPT ![row] = "running"]
<1> DEFINE e == StartCase(d, row, b)
<1>1. /\ IsDash(e) /\ e.units = d.units /\ e.log = d.log /\ e.queued = d.queued
      /\ e.live = d.live /\ e.done = d.done
      /\ e.status = [d.status EXCEPT ![row] = "running"]
      /\ e.base = IF b THEN d.base \cup {row} ELSE d.base \ {row}
      /\ IsSeq(e.inflight) /\ Distinct(e.inflight)
      /\ ToSet(e.inflight) = ToSet(d.inflight) \cup {row}
  BY StartCaseTells, SMT
<1> QED BY <1>1

\* A start keeps the board drawn.
LEMMA StartsDraw ==
    ASSUME RowsInv, Drawn(dash), Running, NEW row \in UnitSet, NEW b,
           Tell(StartCase(dash, row, b))
    PROVE  Drawn(dash')
<1> DEFINE e == StartCase(dash, row, b)
<1>1. eng.pc = "sweep"
  BY RunningIsWell DEF RowsInv
<1>2. ASSUME screen = "dash", prog = "up"
      PROVE  e.log = dash.log /\ e.queued = dash.queued /\ StatusOK(e)
  <2>1. /\ row \in DOMAIN dash.status /\ IsDash(dash)
        /\ IsSeq(dash.inflight) /\ Distinct(dash.inflight)
    BY <1>2, RunningShown
  <2>2. /\ e.log = dash.log /\ e.queued = dash.queued
        /\ e.done = dash.done
        /\ e.status = [dash.status EXCEPT ![row] = "running"]
    BY <2>1, StartTellsRows, Zenon
  <2> HIDE DEF e
  <2>3. StatusOK(e)
    BY <2>2 DEF StatusOK, Drawn, Statuses
  <2> QED BY <2>2, <2>3
<1> HIDE DEF e
<1>3. Tell(e)
  BY DEF e
<1> QED BY <1>1, <1>2, <1>3, ToldDrawn

\* So does a finish,
LEMMA FinishDraws ==
    ASSUME RowsInv, Drawn(dash), FinishItem
    PROVE  Drawn(dash')
<1>1. Running /\ eng.pc = "sweep" /\ eng.err = "none" /\ WorkInv
  BY RunningIsWell DEF FinishItem, RowsInv
<1>2. PICK row \in eng.run : \E v \in Outcomes(row) : Tell(ItemDone(dash, row, v))
  BY DEF FinishItem
<1>3. PICK v \in Outcomes(row) : Tell(ItemDone(dash, row, v))
  BY <1>2
<1> DEFINE e == ItemDone(dash, row, v)
<1>4. v \in Verdicts
  BY VerdictsAre
<1>5. row \in UnitSet
  BY <1>1, BusyRows DEF Busy
<1>6. ASSUME screen = "dash", prog = "up"
      PROVE  e.log = dash.log /\ e.queued = dash.queued /\ StatusOK(e)
  <2>1. /\ row \in DOMAIN dash.status /\ IsDash(dash)
        /\ IsSeq(dash.inflight) /\ Distinct(dash.inflight)
    BY <1>1, <1>5, <1>6, RunningShown
  <2>2. /\ e.log = dash.log /\ e.queued = dash.queued
        /\ e.status = [dash.status EXCEPT ![row] = v]
    BY <2>1, ItemDoneTells
  <2> HIDE DEF e
  <2>3. StatusOK(e)
    BY <1>4, <2>2 DEF StatusOK, Drawn, Statuses, Settled, Verdicts
  <2> QED BY <2>2, <2>3
<1>7. Tell(e)
  BY <1>3
<1> HIDE DEF e
<1> QED BY <1>1, <1>6, <1>7, ToldDrawn

\* a unit that only counts tokens,
LEMMA CountDraws ==
    ASSUME RowsInv, Drawn(dash), CountUnit
    PROVE  Drawn(dash')
<1> DEFINE row1 == Head(UnitRows(Unit))
           e == UnitCounted(dash, row1)
           rows == (ToSet(UnitRows(UnitOf(dash, row1))) \cap dash.queued) \ dash.live
<1>1. eng.pc = "sweep" /\ Tell(e)
  BY DEF CountUnit, Sweeping
<1>2. ASSUME screen = "dash"
      PROVE  e.log = dash.log /\ e.queued = dash.queued /\ StatusOK(e)
  <2>1. IsDash(dash)
    BY <1>2 DEF RowsInv, PlanInv
  <2>2. /\ e.log = dash.log /\ e.queued = dash.queued /\ DOMAIN e.status = DOMAIN dash.status
        /\ \A row \in DOMAIN dash.status :
               e.status[row] = IF row \in rows /\ dash.status[row] = "pending"
                               THEN "count" ELSE dash.status[row]
    BY <2>1, UnitCountedTells
  <2> HIDE DEF e, rows
  <2>3. StatusOK(e)
    BY <2>2 DEF StatusOK, Drawn, Statuses, Settled
  <2> QED BY <2>2, <2>3
<1> HIDE DEF e
<1> QED BY <1>1, <1>2, ToldDrawn

\* the end of the run,
LEMMA EndDraws ==
    ASSUME RowsInv, Drawn(dash), EngineEnds
    PROVE  Drawn(dash')
<1> DEFINE e == RunDone(dash, eng.failed)
<1>1. eng.pc = "sweep" /\ Tell(e)
  BY DEF EngineEnds
<1>2. ASSUME screen = "dash"
      PROVE  e.log = dash.log /\ e.queued = dash.queued /\ StatusOK(e)
  <2>1. IsDash(dash)
    BY <1>2 DEF RowsInv, PlanInv
  <2>2. e.log = dash.log /\ e.queued = dash.queued /\ e.status = dash.status
    BY <2>1, RunDoneTells
  <2> QED BY <2>2 DEF StatusOK, Drawn
<1> HIDE DEF e
<1> QED BY <1>1, <1>2, ToldDrawn

\* and so every step of the engine.
LEMMA EngineDraws == ASSUME RowsInv, Drawn(dash), Engine PROVE Drawn(dash')
<1>1. CASE StartBaseline \/ StartItem
  <2>1. Running
    BY <1>1 DEF StartBaseline, StartItem
  <2>2. PICK row \in Waiting : \E b \in BOOLEAN : Tell(StartCase(dash, row, b))
    BY <1>1 DEF StartBaseline, StartItem
  <2>3. row \in UnitSet
    BY DEF Waiting
  <2> QED BY <2>1, <2>2, <2>3, StartsDraw
<1>2. CASE FinishBaseline
  <2>1. Running
    BY <1>2 DEF FinishBaseline
  <2>2. PICK row \in eng.base : Tell(StartCase(dash, row, FALSE))
    BY <1>2 DEF FinishBaseline
  <2>3. row \in UnitSet
    <3>1. WorkInv /\ eng.err = "none"
      BY <2>1, RunningIsWell DEF RowsInv
    <3> QED BY <2>1, <3>1, BusyRows DEF Busy
  <2> QED BY <2>1, <2>2, <2>3, StartsDraw
<1>3. CASE FinishItem \/ CountUnit \/ EngineEnds
  BY <1>3, FinishDraws, CountDraws, EndDraws
<1>4. CASE EngineTakes \/ EngineUnused \/ SaveUnit \/ AbortUnit
  BY <1>4 DEF EngineTakes, EngineUnused, SaveUnit, AbortUnit, user
<1> QED BY <1>1, <1>2, <1>3, <1>4 DEF Engine

\* The user's steps.
LEMMA UserDraws == ASSUME RowsInv, Drawn(dash), User PROVE Drawn(dash')
<1> USE DEF user
<1>1. CASE Run
  <2>1. dash' = NewDashboard(Build(Request(form.session, reasons)), start.stored)
    BY <1>1 DEF Run
  <2> QED BY <2>1, PlanHasSeq, FreshIsDrawn
<1>2. CASE DashInput
  <2>1. screen = "dash"
    BY <1>2 DEF DashInput, Handles
  <2>2. IsDash(dash)
    BY <2>1 DEF RowsInv, PlanInv
  <2>3. dash' \in PaneInputs(dash) \cup TreeInputs(dash, Nodes(dash, dash.open))
    BY <1>2 DEF DashInput
  <2>4. Same(dash, dash')
    BY <2>2, <2>3, SameInputs
  <2> QED BY <2>4 DEF Same, Drawn, StatusOK
<1>3. CASE AskQuit \/ Stay
  <2>1. screen = "dash" /\ \E x \in BOOLEAN : dash' = [dash EXCEPT !.confirm = x]
    BY <1>3 DEF AskQuit, Stay, Handles
  <2>2. IsDash(dash)
    BY <2>1 DEF RowsInv, PlanInv
  <2>3. \A x : Same(dash, [dash EXCEPT !.confirm = x])
    BY <2>2, SameEdits
  <2>4. Same(dash, dash')
    BY <2>1, <2>3
  <2> QED BY <2>4 DEF Same, Drawn, StatusOK
<1>4. CASE FormInput \/ Cancel \/ Quit \/ SigTerm \/ SigInt \/ SigPlain
  BY <1>4 DEF FormInput, Cancel, Quit, SigTerm, SigInt, SigPlain
<1> QED BY <1>1, <1>2, <1>3, <1>4 DEF User
-----------------------------------------------------------------------------
\* A result is a verdict or, where only tokens were counted, none.
LEMMA JudgedStep == ASSUME RowsInv, Judged(ran), [Next]_vars PROVE Judged(ran')
<1>1. ASSUME NEW rows, NEW v \in Verdicts \cup {"none"}, ran' = Adding(ran, rows, v)
      PROVE  Judged(ran')
  <2> DEFINE more == Adding(ran, rows, v)
  <2>1. /\ DOMAIN more = DOMAIN ran \cup rows
        /\ \A x \in DOMAIN ran : more[x] = ran[x]
        /\ \A x \in rows \ DOMAIN ran : more[x] = v
    BY RanMore
  <2> HIDE DEF more
  <2>2. Judged(more)
    BY <2>1 DEF Judged
  <2> QED BY <1>1, <2>2 DEF more
<1>2. CASE FinishItem
  <2>1. PICK row \in eng.run : \E v \in Outcomes(row) : ran' = Adding(ran, {row}, v)
    BY <1>2 DEF FinishItem
  <2>2. PICK v \in Outcomes(row) : ran' = Adding(ran, {row}, v)
    BY <2>1
  <2>3. v \in Verdicts
    BY VerdictsAre
  <2> QED BY <1>1, <2>2, <2>3
<1>3. CASE CountUnit
  <2>1. ran' = Adding(ran, UnitSet, "none")
    BY <1>3 DEF CountUnit
  <2> QED BY <1>1, <2>1
<1>4. CASE Engine /\ ~FinishItem /\ ~CountUnit
  BY <1>4 DEF Engine, EngineTakes, EngineUnused, StartBaseline, FinishBaseline, StartItem,
              SaveUnit, AbortUnit, EngineEnds
<1>5. CASE User
  BY <1>5 DEF User, FormInput, Run, Cancel, DashInput, AskQuit, Stay, Quit, SigTerm, SigInt,
              SigPlain
<1>6. CASE Host
  BY <1>6 DEF Host, Deliver, ProgramExits, Main, Reconcile, ReconcileFails, RunChecks, UiCloses,
              UiReturns, PlainReturns, UiAborts, RunReport, ReportFails, rest
<1>7. CASE UNCHANGED vars
  BY <1>7 DEF vars
<1> QED BY <1>2, <1>3, <1>4, <1>5, <1>6, <1>7 DEF Next

\* A report is one the generator made.
LEMMA ReportStep == ASSUME SummaryAdds(report), [Next]_vars PROVE SummaryAdds(report')
<1> USE DEF host, shell
<1>1. CASE EngineEnds
  <2>1. \/ report' = report
        \/ report' = Generate(disk, Reported, StrictConfig)
    BY <1>1 DEF EngineEnds
  <2> QED BY <2>1, ReportsAdd
<1>2. CASE RunReport
  BY <1>2, ReportsAdd DEF RunReport
<1>3. CASE Engine /\ ~EngineEnds
  BY <1>3 DEF Engine, EngineTakes, EngineUnused, StartBaseline, FinishBaseline, StartItem,
              FinishItem, SaveUnit, CountUnit, AbortUnit
<1>4. CASE User
  BY <1>4 DEF User, FormInput, Run, Cancel, DashInput, AskQuit, Stay, Quit, SigTerm, SigInt,
              SigPlain
<1>5. CASE Host /\ ~RunReport
  BY <1>5 DEF Host, Deliver, ProgramExits, Main, Reconcile, ReconcileFails, RunChecks, UiCloses,
              UiReturns, PlainReturns, UiAborts, ReportFails
<1>6. CASE UNCHANGED vars
  BY <1>6 DEF vars
<1> QED BY <1>1, <1>2, <1>3, <1>4, <1>5, <1>6 DEF Next

\* The engine's states.
LEMMA EngineKinds == ASSUME RowsInv, KindsOK, Engine PROVE KindsOK'
<1> USE DEF host, shell
<1>1. {"pc", "todo", "base", "run", "failed", "err"} \subseteq DOMAIN eng
  BY DEF RowsInv, OpenInv
<1>2. UNCHANGED <<prog, ui, exit, checked>>
  BY DEF Engine, EngineTakes, EngineUnused, StartBaseline, FinishBaseline, StartItem,
         FinishItem, SaveUnit, CountUnit, AbortUnit, EngineEnds
<1>3. link' = link \/ link' = "none"
  BY DEF Engine, EngineTakes, EngineUnused, StartBaseline, FinishBaseline, StartItem,
         FinishItem, SaveUnit, CountUnit, AbortUnit, EngineEnds
<1>4. CASE EngineTakes \/ EngineUnused
  <2>1. eng'.pc \in {"sweep", "unused"}
    BY <1>1, <1>4 DEF EngineTakes, EngineUnused
  <2> QED BY <1>2, <1>3, <2>1 DEF KindsOK
<1>5. CASE StartBaseline \/ FinishBaseline \/ StartItem \/ FinishItem
  <2>1. eng'.pc = eng.pc
    BY <1>1, <1>5 DEF StartBaseline, FinishBaseline, StartItem, FinishItem
  <2> QED BY <1>2, <1>3, <2>1 DEF KindsOK
<1>6. CASE SaveUnit \/ CountUnit \/ AbortUnit
  <2>1. eng'.pc = eng.pc
    BY <1>1, <1>6 DEF SaveUnit, CountUnit, AbortUnit
  <2> QED BY <1>2, <1>3, <2>1 DEF KindsOK
<1>7. CASE EngineEnds
  <2>1. eng'.pc = "stopped"
    BY <1>1, <1>7 DEF EngineEnds
  <2> QED BY <1>2, <1>3, <2>1 DEF KindsOK
<1> QED BY <1>4, <1>5, <1>6, <1>7 DEF Engine

\* The user's steps leave them states.
LEMMA UserKinds == ASSUME KindsOK, User PROVE KindsOK'
<1> USE DEF host, shell
<1>1. CASE Run
  BY <1>1 DEF Run, KindsOK
<1>2. CASE User /\ ~Run
  BY <1>2 DEF User, FormInput, Cancel, DashInput, AskQuit, Stay, Quit, SigTerm, SigInt,
              SigPlain, KindsOK
<1> QED BY <1>1, <1>2

\* So does what follows the checks.
LEMMA BeginsKind ==
    ASSUME KindsOK, Begins, UNCHANGED link, checked' \in {"none", "ok", "failures"}
    PROVE  KindsOK'
<1>1. CASE Fails
  BY <1>1 DEF Fails, KindsOK
<1>2. CASE OpensForm /\ UNCHANGED exit
  BY <1>2 DEF OpensForm, KindsOK
<1>3. CASE Sweeps /\ UNCHANGED exit
  <2>1. eng'.pc = "sweep" /\ ui' = "sweeping" /\ prog' = prog
    BY <1>3 DEF Sweeps, EmptyEngine
  <2> QED BY <1>3, <2>1 DEF KindsOK
<1> QED BY <1>1, <1>2, <1>3 DEF Begins

\* So does what evolve does around the sweep.
LEMMA HostKinds == ASSUME KindsOK, Host PROVE KindsOK'
<1> USE DEF shell
<1>1. CASE Reconcile
  <2>1. UNCHANGED <<link, checked>>
    BY <1>1 DEF Reconcile, rest
  <2>2. CASE start.all
    BY <1>1, <2>1, <2>2 DEF Reconcile, KindsOK
  <2>3. CASE ~start.all
    BY <1>1, <2>1, <2>3, BeginsKind DEF Reconcile, KindsOK
  <2> QED BY <2>2, <2>3
<1>2. CASE RunChecks
  <2>1. UNCHANGED link
    BY <1>2 DEF RunChecks, rest
  <2>2. CASE checked' \in start.checks \cap {"ok", "failures"} /\ Begins
    BY <2>1, <2>2, BeginsKind
  <2>3. CASE Fails /\ UNCHANGED checked
    BY <2>1, <2>3 DEF Fails, KindsOK
  <2> QED BY <1>2, <2>2, <2>3 DEF RunChecks
<1>3. CASE ReconcileFails \/ ReportFails
  BY <1>3 DEF ReconcileFails, ReportFails, Fails, KindsOK, rest
<1>4. CASE RunReport
  BY <1>4 DEF RunReport, Verdict, KindsOK, rest
<1>5. CASE UiReturns \/ PlainReturns
  <2>1. \E fatal \in BOOLEAN : Concludes(fatal)
    BY <1>5 DEF UiReturns, PlainReturns
  <2>2. \/ ui' = "returned" /\ exit' = "fatal"
        \/ ui' = "reporting" /\ exit' = exit
        \/ ui' = "returned" /\ exit' = Verdict
    BY <2>1 DEF Concludes
  <2>3. Verdict \in {"ok", "failures", "warned"}
    BY DEF Verdict
  <2>4. UNCHANGED <<link, prog, checked, eng>>
    BY <1>5 DEF UiReturns, PlainReturns
  <2> QED BY <2>2, <2>3, <2>4 DEF KindsOK
<1>6. CASE Deliver \/ ProgramExits \/ UiCloses \/ UiAborts
  BY <1>6 DEF Deliver, ProgramExits, UiCloses, UiAborts, KindsOK, host
<1> QED BY <1>1, <1>2, <1>3, <1>4, <1>5, <1>6 DEF Host, Main

\* Every step keeps the invariant.
LEMMA TypeStep == ASSUME RowsInv, TypeInv, [Next]_vars PROVE TypeInv'
<1>1. Judged(ran') /\ SummaryAdds(report')
  BY JudgedStep, ReportStep DEF TypeInv
<1>2. Drawn(dash')
  <2>1. CASE UNCHANGED vars
    BY <2>1 DEF vars, TypeInv
  <2> QED BY <2>1, EngineDraws, UserDraws, HostMoves DEF Next, TypeInv
<1>3. KindsOK'
  <2>1. CASE UNCHANGED vars
    BY <2>1 DEF vars, TypeInv, KindsOK, host, shell
  <2> QED BY <2>1, EngineKinds, UserKinds, HostKinds DEF Next, TypeInv
<1>4. Drawn(dash)' /\ Judged(ran)' /\ SummaryAdds(report)'
  BY <1>1, <1>2
<1> QED BY <1>3, <1>4 DEF TypeInv

\* The invariants together say what TypeOK says.
LEMMA TypesHold == ASSUME IsForm(form), RowsInv, FollowInv, TypeInv PROVE TypeOK
<1>1. FormOK
  BY FormIsOK
<1>2. screen \in {"form", "dash"}
  BY DEF RowsInv, OpenInv
<1>3. dash.focus \in ToSet(Panes)
  <2>1. screen = "form" => dash.focus = "runs"
    BY DEF FollowInv
  <2>2. screen = "dash" => dash.focus \in ToSet(Panes)
    BY DEF FollowInv, Placed, Based
  <2> QED BY <1>2, <2>1, <2>2, PaneNames
<1>4. ASSUME screen = "dash"
      PROVE  /\ dash.sel \in DOMAIN dash.log /\ dash.liveIdx \in DOMAIN dash.log \cup {NoLive}
             /\ Browsing(dash) => dash.cur \in DOMAIN Nodes(dash, dash.open)
  <2>1. Rowed(dash) /\ Placed(dash)
    BY <1>4, DashIsRowed
  <2>2. IsSeq(dash.log) /\ Len(dash.log) \in Nat /\ DOMAIN dash.log = 1 .. Len(dash.log)
    BY <2>1, RowedLog, SeqDomain
  <2>3. IsSeq(Nodes(dash, dash.open))
    BY <2>1, RowedTree
  <2>4. DOMAIN Nodes(dash, dash.open) = 1 .. Len(Nodes(dash, dash.open))
    BY <2>3, SeqDomain
  <2>5. dash.sel \in 1 .. Len(dash.log) /\ dash.liveIdx \in 0 .. Len(dash.log)
    BY <2>1 DEF Placed, Based
  <2>6. dash.focus = "exec" => dash.cur \in 1 .. Len(Nodes(dash, dash.open))
    BY <2>1 DEF Placed, OnNode
  <2>7. dash.liveIdx \in DOMAIN dash.log \cup {NoLive}
    BY <2>2, <2>5 DEF NoLive
  <2> QED BY <2>2, <2>4, <2>5, <2>6, <2>7 DEF Browsing
<1>5. \A k \in DOMAIN report.summary :
         LET r == report.summary[k]
         IN  r.passed + r.errored <= r.executed /\ r.executed <= r.total
  BY DEF TypeInv, SummaryAdds
<1>6. /\ link \in {"none", "sending", "full"} /\ prog \in {"off", "up", "down", "error"}
      /\ ui \in {"starting", "checking", "waiting", "closing", "sweeping",
                 "reporting", "returned"}
      /\ exit \in {"none", "ok", "warned", "failures", "fatal"}
      /\ checked \in {"none", "ok", "failures"}
      /\ eng.pc \in {"select", "sweep", "stopped", "unused"}
  BY DEF TypeInv, KindsOK
<1>7. /\ \A row \in DOMAIN dash.status : dash.status[row] \in Statuses
      /\ dash.queued \subseteq ToSet(dash.log)
      /\ \A row \in DOMAIN ran : ran[row] \in Verdicts \cup {"none"}
  BY DEF TypeInv, Drawn, StatusOK, Judged
<1> QED BY <1>1, <1>2, <1>3, <1>4, <1>5, <1>6, <1>7 DEF TypeOK

\* The cursors are on rows that are there, and the rest has its type.
THEOREM TypesAlways == Spec => []TypeOK
<1>1. Init => TypeInv
  BY TypeInit
<1>2. RowsInv /\ TypeInv /\ [Next]_vars => TypeInv'
  BY TypeStep
<1>3. IsForm(form) /\ RowsInv /\ FollowInv /\ TypeInv => TypeOK
  BY TypesHold
<1>4. Init => FollowInv
  BY FollowInit
<1>5. RowsInv /\ FollowInv /\ [Next]_vars => FollowInv'
  BY FollowStep
<1> QED BY <1>1, <1>2, <1>3, <1>4, <1>5, FormAlways, RowsAlways, PTL DEF Spec
=============================================================================
