--------------------------- MODULE MCApprovedGraph ---------------------------
(* Small instances of ApprovedGraph for TLC. *)
EXTENDS ApprovedGraph

\* The first file is to be changed, the second is protected or merely read.
TwoPaths == {"p1", "p2"}
AsApproved == [p \in TwoPaths |-> "a"]

OneContract(kind, scope, deps, reads, subject) ==
  [kind |-> kind, scope |-> scope, deps |-> deps, reads |-> reads, subject |-> subject]

\* A check or a change, and after it a change or a contract without a Worker that
\* depends on it or not; the evidence of the first is about any files; the second
\* file is protected, or to be changed, or not named by the approval.
TwoContracts ==
  {LET subject == {"p1"} \cup scope \cup dnt IN
   [contracts |-> <<OneContract(first, {"p1"}, {}, reads, subject),
                    OneContract(second, IF second = "mutation" THEN scope ELSE {}, deps, {}, subject)>>,
    dnt       |-> dnt,
    subject   |-> subject] :
     first \in {"mutation", "check"}, second \in {"mutation", "free"}, scope \in {{"p1"}, {"p2"}},
     deps \in {{}, {1}}, reads \in {{}, TwoPaths}, dnt \in {{}, {"p2"}}}

\* The second contract may change a file the approved subject does not name.
WiderContract ==
  [contracts |-> <<OneContract("check", {}, {}, {"p1"}, {"p1"}),
                   OneContract("mutation", TwoPaths, {1}, {}, TwoPaths)>>,
   dnt       |-> {},
   subject   |-> {"p1"}]

\* A protected file is in no scope.
SmallPlans == {plan0 \in TwoContracts : plan0.contracts[2].scope \cap plan0.dnt = {}} \cup {WiderContract}
=============================================================================
