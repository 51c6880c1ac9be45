--------------------------- MODULE MCVerifiedState ---------------------------
(* Small instances of VerifiedState for TLC. *)
EXTENDS VerifiedState, TLC

Child1 == "c1"
Child2 == "c2"
TwoChildren == {Child1, Child2}

OnePath == {"p1"}

\* The first child changes a file, the second only depends on it.
FirstFile == [c \in TwoChildren |-> IF c = Child1 THEN OnePath ELSE {}]
SecondReads == [c \in TwoChildren |-> IF c = Child1 THEN {} ELSE OnePath]

\* A task is approved with one owner of the state, or with two.
Owner(claim) == [topic |-> "owner", claim |-> claim]
Owners == {{Owner("A")}, {Owner("A"), Owner("B")}}

\* What a file contains is only ever compared with what it contained.
SameVersions == Permutations(Versions)
=============================================================================
