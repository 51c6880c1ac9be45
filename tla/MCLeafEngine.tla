---------------------------- MODULE MCLeafEngine ----------------------------
(* Small instances of LeafEngine for TLC. *)
EXTENDS LeafEngine

Implementation == {"implementation"}
Integration    == {"integration"}
BothKinds      == {"implementation", "integration"}

TwoChecks == {"command", "browser"}
TwoTexts  == {"bug", "no page"}
OneText   == {"bug"}

TwoMeanings == [t \in TwoTexts |-> IF t = "bug" THEN "defect" ELSE "unresolved"]
OneMeaning  == [t \in OneText |-> "defect"]
=============================================================================
