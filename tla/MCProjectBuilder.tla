--------------------------- MODULE MCProjectBuilder ---------------------------
(* Small instances of ProjectBuilder for TLC. *)
EXTENDS ProjectBuilder

\* Unit b writes two files, one of them outside the repository map.
Files == {"a.py", "b.py", "b.html", "c.py"}
MappedFiles == {"a.py", "b.py", "c.py"}
UnitFiles == [u \in {"a", "b", "c"} |->
                CASE u = "a" -> {"a.py"} [] u = "b" -> {"b.py", "b.html"} [] u = "c" -> {"c.py"}]

\* Two plans of the same units that disagree on the dependency of b; a plan whose
\* third unit the budget leaves out; and one that loses a dependency that way.
GivenUnits == [pl \in {"free", "chain", "cut", "lost"} |->
                 IF pl \in {"free", "chain"} THEN {"a", "b"} ELSE {"a", "b", "c"}]
PlannedUnits == [pl \in {"free", "chain", "cut", "lost"} |-> {"a", "b"}]
Dependencies == [pl \in {"free", "chain", "cut", "lost"} |-> [u \in {"a", "b", "c"} |->
                   CASE pl = "chain" /\ u = "b" -> {"a"}
                     [] pl = "lost" /\ u = "b" -> {"c"}
                     [] OTHER -> {}]]

\* Under "free" a run ends before its second unit, and under "cut" the second unit
\* has no checkpoint.
ProviderCalls == [pl \in {"free", "chain", "cut", "lost"} |-> IF pl = "free" THEN 1 ELSE 2]
CheckpointsOf == [pl \in {"free", "chain", "cut", "lost"} |-> IF pl = "cut" THEN 1 ELSE 2]
=============================================================================
