---------------------------- MODULE MCRemoteSweep ----------------------------
(* A trigger and an eval unit of two cases, two sweeps, three formats.        *)
EXTENDS RemoteSweep

MCUnits == {"triggers", "evals"}
MCCases == {"c1", "c2"}
MCSweeps == 3
MCExtensions == <<"json", "jsonc", "yaml">>

MCModels == [MCUnits -> [MCCases -> 0 .. MCSweeps]]
MCNoModels == [u \in MCUnits |-> [c \in MCCases |-> 0]]
Past == [u \in MCUnits |-> [c \in MCCases |-> 1]]

Everything == [u \in MCUnits |-> MCCases]
Nothing == [u \in MCUnits |-> {}]
Trigger(c) == [u \in MCUnits |-> IF u = "triggers" THEN {c} ELSE {}]
MCPlans == [s \in 2 .. MCSweeps |-> IF s = 2 THEN {Everything, Nothing}
                                   ELSE {Trigger("c2")}]

MCOutcomes == [u \in MCUnits |-> IF u = "triggers" THEN {"pass", "lost"}
                                 ELSE {"fail", "unavailable"}]
MCLarge == {"evals"}

Only(ext, file) == [e \in {"json", "jsonc", "yaml"} |-> IF e = ext THEN file ELSE Missing]
MCFirsts == {Only("json", [schema |-> "legacy", models |-> Past]),
             Only("json", [schema |-> "newer", models |-> Past]),
             Only("json", [schema |-> "ancient", models |-> Past])}
=============================================================================
