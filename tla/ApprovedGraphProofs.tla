------------------------- MODULE ApprovedGraphProofs -------------------------
(* Theorems of ApprovedGraph, for every graph, set of files and approval. *)
EXTENDS ApprovedGraph, TLAPS

\* The places between the start of a Worker and its judgement, and all of those
\* at which a transaction is open for the contract under way.
Judging == {"judge", "verify", "commit"}
Working == {"work"} \cup Judging
Executing == {"audit", "recheck"} \cup Working

\* Where the lifecycle is: a contract is under way exactly in its own transaction,
\* and the root is looked at when every contract has its result.
Control ==
  /\ pc \in Executing => at \in Nodes /\ txn = at
  /\ pc = "gate" => at = 1 /\ txn = None
  /\ pc \in {"promote", "reenter"} => at = N + 1

\* A transaction left behind belongs to a contract the audit refused.
Left ==
  pc \notin Executing /\ txn # None =>
    txn < at /\ txn \notin worked /\ results[txn] = Result("blocked", "REAPPROVAL_REQUIRED")

\* The contracts to come were not started, and those started passed the audit.
Started ==
  /\ pc # "end" => \A n \in worked : n < at \/ (n = at /\ pc \in Working)
  /\ pc \in Working => at \in worked
  /\ \A n \in worked : C(n).subject = plan.subject

\* What is known of the bytes of a file nobody else wrote.
Bytes ==
  /\ pc = "recheck" => \A p \in Paths \ touched : disk[p] = before[p]
  /\ pc \in Judging => audited[at] = after /\ \A p \in Paths \ touched : disk[p] = after[p]
  /\ pc \in {"verify", "commit"} => Changed \subseteq C(at).scope \ plan.dnt
  /\ \A n \in Nodes : receipts[n].verified =>
       /\ n \in worked /\ n < at
       /\ \A p \in Dependencies(n) \ touched : receipts[n].state[p] = audited[n][p]

AllDone == \A n \in Nodes : n < at => results[n].status = "done"

\* The changes of the contracts so far are those of one of them.
OneScope ==
  \E n \in worked : \A p \in Paths \ touched : disk[p] # Approved[p] => p \in C(n).scope \ plan.dnt

OfOne == OneScope \/ \A p \in Paths \ touched : disk[p] = Approved[p]

Changes ==
  /\ AllDone /\ pc \notin Working \cup {"end"} => OfOne
  /\ AllDone /\ pc \in Working => \A p \in Paths \ touched : before[p] = Approved[p]
  /\ pc \in {"promote", "reenter"} => AllDone /\ OneScope
  /\ pc # "end" => ~Promoted
  /\ PromotedChangesAreApproved

\* A contract is under way only when those it depends on are done.
Waited == pc \in Executing => DependenciesDone(at)

GraphInv == TypeOK /\ Control /\ Waited /\ Left /\ Started /\ Bytes /\ Changes

-----------------------------------------------------------------------------
LEMMA PlanFacts ==
  ASSUME plan \in Plans
  PROVE  /\ N \in Nat /\ plan.dnt \subseteq Paths /\ plan.subject \subseteq Paths
         /\ \A n \in Nodes : /\ C(n).scope \cup plan.dnt \subseteq C(n).subject
                             /\ C(n).scope \subseteq Paths /\ C(n).reads \subseteq Paths
                             /\ C(n).deps \subseteq Nodes /\ C(n).kind \in Kinds
                             /\ Dependencies(n) \subseteq Paths
BY GraphAssumption DEF Plan, Contract, C, Dependencies

LEMMA InitInv ==
  ASSUME Init PROVE GraphInv
<1> USE DEF Init
<1>1. TypeOK
  BY GraphAssumption DEF TypeOK, Nodes, NoResult, NoReceipt, Places, Terminals, RootTerminals,
     Statuses, None, Results
<1>2. Control /\ Waited /\ Left /\ Started /\ Bytes
  BY DEF Control, Waited, Left, Started, Bytes, Executing, Working, Judging, NoReceipt, None
<1>3. Changes
  BY DEF Changes, OfOne, Working, Judging, Promoted, PromotedChangesAreApproved, NoResult
<1> QED BY <1>1, <1>2, <1>3 DEF GraphInv

\* What the loop does when a contract has its result.
LEMMA FinishFacts ==
  ASSUME TypeOK, at \in Nodes, NEW r \in Results, Finish(r)
  PROVE  /\ results' \in [Nodes -> Results]
         /\ results'[at] = r /\ \A n \in Nodes \ {at} : results'[n] = results[n]
         /\ at' = at + 1 /\ at' \in 1 .. N + 1
         /\ pc' = "next"
<1>1. N \in Nat /\ results \in [Nodes -> Results]
  BY GraphAssumption DEF TypeOK
<1> QED BY <1>1 DEF Finish, Nodes

\* The results a contract may get.
LEMMA ResultFacts ==
  /\ \A terminal \in {"EXECUTION_DEPENDENCY_BLOCKED", "REAPPROVAL_REQUIRED"} :
       Result("blocked", terminal) \in Results
  /\ \A terminal \in {"none", "VERIFICATION_PASSED"} : Result("done", terminal) \in Results
  /\ \A terminal \in {"WORKER_AUTHORIZATION_INVALID", "WORKER_OUTPUT_INVALID", "VERIFICATION_FAILED",
                      "IMPACT_MISMATCH", "VERIFICATION_PASSED"} : Result("failed", terminal) \in Results
  /\ \A n \in Nodes : Result("failed", MutationStatus(n)) \in Results
                        \/ MutationStatus(n) = "MUTATION_SCOPE_VALIDATED"
BY DEF Result, Results, Statuses, Terminals, LifecycleFailures, MutationStatus

\* The actions that end the contract under way: where from, and with what result.
Ending ==
  \/ DependencyBlocks \/ NoWorkerNeeded \/ MissionFails \/ AuditBlocks \/ RecheckBlocks
  \/ WorkerFails \/ VerificationFails \/ Commit
  \/ Judge /\ MutationStatus(at) # "MUTATION_SCOPE_VALIDATED"

\* The work of the contract under way is accepted.
Accepted == Judge /\ MutationStatus(at) = "MUTATION_SCOPE_VALIDATED"

LEMMA EndingFacts ==
  ASSUME TypeOK, Control, Ending
  PROVE  /\ at \in Nodes
         /\ \E r \in Results : Finish(r) /\ results'[at] = r
         /\ results' \in [Nodes -> Results]
         /\ \A n \in Nodes \ {at} : results'[n] = results[n]
         /\ at' = at + 1 /\ at' \in 1 .. N + 1 /\ pc' = "next"
         /\ plan' = plan /\ disk' = disk /\ touched' = touched /\ brain' = brain
         /\ root' = root /\ worked' = worked /\ audited' = audited
<1> USE DEF Ending
<1>1. at \in Nodes
  BY DEF Control, Executing, Working, Judging, DependencyBlocks, NoWorkerNeeded, MissionFails,
     AuditBlocks, RecheckBlocks, WorkerFails, VerificationFails, Commit, Judge
<1>2. \E r \in Results : Finish(r)
  BY <1>1, ResultFacts DEF Close, DependencyBlocks, NoWorkerNeeded, MissionFails, AuditBlocks,
     RecheckBlocks, WorkerFails, VerificationFails, Commit, Judge
<1>3. /\ plan' = plan /\ disk' = disk /\ touched' = touched /\ brain' = brain
      /\ root' = root /\ worked' = worked /\ audited' = audited
  BY DEF DependencyBlocks, NoWorkerNeeded, MissionFails, AuditBlocks, RecheckBlocks, WorkerFails,
     VerificationFails, Commit, Judge, Files, History
<1> QED BY <1>1, <1>2, <1>3, FinishFacts

LEMMA EndingPlaces == ASSUME Ending PROVE pc \in {"next"} \cup Executing
BY DEF Ending, Executing, Working, Judging, DependencyBlocks, NoWorkerNeeded, MissionFails,
   AuditBlocks, RecheckBlocks, WorkerFails, VerificationFails, Commit, Judge

-----------------------------------------------------------------------------
(* The invariant is kept: what the actions do to each part of it.          *)

LEMMA PlanKept == ASSUME [Next]_vars PROVE plan' = plan /\ \A n : C(n)' = C(n)
BY DEF Next, Step, vars, C, Finish, Close, Snapshots, Outcomes, History, Files, GateBlocks,
   CouplingBlocks, GateAllows, DependencyBlocks, NoWorkerNeeded, MissionFails, Begin, AuditBlocks,
   AuditAllows, RecheckBlocks, StartWorker, Write, WorkerFails, WorkerReturns, Judge,
   VerificationFails, VerificationPasses, Commit, IntegrationFails, IntegrationPasses,
   PromotionFails, PromotionPasses, Reenter, OtherWrites, BrainChanges

LEMMA ReceiptsKept ==
  ASSUME TypeOK, Control, [Next]_vars
  PROVE  /\ receipts' \in [Nodes -> {NoReceipt} \cup [verified : {TRUE}, state : States]]
         /\ \A n \in Nodes : receipts'[n].verified => receipts'[n].state \in [Dependencies(n) -> Contents]
         /\ Commit \/ receipts' = receipts
<1>1. CASE Commit
  <2>1. at \in Nodes /\ plan \in Plans /\ disk \in [Paths -> Contents]
    BY <1>1 DEF TypeOK, Commit, Control, Executing, Working, Judging
  <2> DEFINE seen == [p \in Dependencies(at) |-> disk[p]]
             made == [verified |-> TRUE, state |-> seen]
  <2>2. seen \in [Dependencies(at) -> Contents] /\ Dependencies(at) \in SUBSET Paths
    BY <2>1, PlanFacts
  <2>3. seen \in States
    BY <2>2 DEF States
  <2>4. made \in [verified : {TRUE}, state : States]
    BY <2>3
  <2>5. receipts' = receipts \/ receipts' = [receipts EXCEPT ![at] = made]
    BY <1>1 DEF Commit
  <2>6. receipts \in [Nodes -> {NoReceipt} \cup [verified : {TRUE}, state : States]]
    BY DEF TypeOK
  <2> HIDE DEF seen
  <2>7. receipts' \in [Nodes -> {NoReceipt} \cup [verified : {TRUE}, state : States]]
    BY <2>1, <2>4, <2>5, <2>6
  <2>8. \A n \in Nodes : receipts[n].verified => receipts[n].state \in [Dependencies(n) -> Contents]
    BY DEF TypeOK
  <2>9. \A n \in Nodes : receipts'[n] = receipts[n] \/ (n = at /\ receipts'[n] = made)
    BY <2>1, <2>5, <2>6
  <2>10. \A n \in Nodes : receipts'[n].verified => receipts'[n].state \in [Dependencies(n) -> Contents]
    BY <2>2, <2>8, <2>9
  <2> QED BY <1>1, <2>7, <2>10
<1>2. CASE ~Commit
  <2>1. receipts' = receipts
    BY <1>2 DEF Next, Step, vars, Snapshots, Outcomes, History, Files, GateBlocks,
       CouplingBlocks, GateAllows, DependencyBlocks, NoWorkerNeeded, MissionFails, Begin, AuditBlocks,
       AuditAllows, RecheckBlocks, StartWorker, Write, WorkerFails, WorkerReturns, Judge,
       VerificationFails, VerificationPasses, IntegrationFails, IntegrationPasses,
       PromotionFails, PromotionPasses, Reenter, OtherWrites, BrainChanges
  <2> QED BY <2>1 DEF TypeOK
<1> QED BY <1>1, <1>2

\* The steps, the ones that end a contract taken together.
Continuing ==
  \/ GateBlocks \/ CouplingBlocks \/ GateAllows \/ Begin \/ AuditAllows \/ StartWorker
  \/ WorkerReturns \/ Accepted \/ VerificationPasses
  \/ IntegrationFails \/ IntegrationPasses \/ PromotionFails \/ PromotionPasses \/ Reenter
  \/ BrainChanges

Writing == \E p \in Paths, c \in Contents : Write(p, c) \/ OtherWrites(p, c)

LEMMA Cases ==
  ASSUME [Next]_vars PROVE Ending \/ Continuing \/ Writing \/ UNCHANGED vars
BY DEF Next, Step, Ending, Continuing, Writing, Accepted

LEMMA TypeStep ==
  ASSUME TypeOK, Control, [Next]_vars PROVE TypeOK'
<1>1. plan' \in Plans /\ Nodes \subseteq 1 .. N + 1 /\ N \in Nat
  BY PlanKept, GraphAssumption DEF TypeOK, Nodes
<1>2. disk' \in [Paths -> Contents] /\ brain' \in BOOLEAN /\ touched' \in SUBSET Paths
  <2>1. CASE Ending
    BY <2>1, EndingFacts DEF TypeOK
  <2>2. CASE Writing
    BY <2>2 DEF TypeOK, Writing, Write, OtherWrites
  <2>3. CASE Continuing
    BY <2>3 DEF TypeOK, Continuing, Files, GateBlocks, CouplingBlocks, GateAllows, Begin, AuditAllows, StartWorker, WorkerReturns,
     Judge, Accepted, VerificationPasses, IntegrationFails, IntegrationPasses, PromotionFails,
     PromotionPasses, Reenter, BrainChanges
  <2> QED BY <2>1, <2>2, <2>3, Cases DEF TypeOK, vars
<1>3. pc' \in Places /\ at' \in 1 .. N + 1
  <2>1. CASE Ending
    BY <2>1, EndingFacts DEF Places
  <2>2. CASE ~Ending
    BY <1>1, <2>2, Cases DEF TypeOK, Places, Continuing, Writing, vars, GateBlocks,
       CouplingBlocks, GateAllows, Begin, AuditAllows, StartWorker, Write, WorkerReturns, Judge,
       Accepted, VerificationPasses, IntegrationFails, IntegrationPasses, PromotionFails,
       PromotionPasses, Reenter, OtherWrites, BrainChanges
  <2> QED BY <2>1, <2>2
<1>4. txn' \in Nodes \cup {None}
  BY DEF TypeOK, Next, Step, vars, Close, GateBlocks, CouplingBlocks, GateAllows, DependencyBlocks, NoWorkerNeeded, MissionFails,
     Begin, AuditBlocks, AuditAllows, RecheckBlocks, StartWorker, Write, WorkerFails,
     WorkerReturns, Judge, VerificationFails, VerificationPasses, Commit, IntegrationFails,
     IntegrationPasses, PromotionFails, PromotionPasses, Reenter, OtherWrites, BrainChanges
<1>5. before' \in [Paths -> Contents] /\ after' \in [Paths -> Contents]
  BY DEF TypeOK, Next, Step, vars, Snapshots, GateBlocks, CouplingBlocks, GateAllows, DependencyBlocks, NoWorkerNeeded, MissionFails,
     Begin, AuditBlocks, AuditAllows, RecheckBlocks, StartWorker, Write, WorkerFails,
     WorkerReturns, Judge, VerificationFails, VerificationPasses, Commit, IntegrationFails,
     IntegrationPasses, PromotionFails, PromotionPasses, Reenter, OtherWrites, BrainChanges
<1>6. results' \in [Nodes -> Results]
  <2>1. CASE CouplingBlocks
    <3>1. Result("blocked", "SEMANTIC_COUPLING") \in Results
      BY DEF Result, Results, Statuses, Terminals
    <3> QED BY <2>1, <3>1 DEF CouplingBlocks
  <2>2. CASE ~Ending /\ ~CouplingBlocks
    BY <2>2, Cases DEF TypeOK, Continuing, Writing, vars, Outcomes, GateBlocks,
       GateAllows, Begin, AuditAllows, StartWorker, Write, WorkerReturns, Judge,
       Accepted, VerificationPasses, IntegrationFails, IntegrationPasses, PromotionFails,
       PromotionPasses, Reenter, OtherWrites, BrainChanges
  <2> QED BY <2>1, <2>2, EndingFacts
<1>7. root' \in [status : Statuses, terminal : RootTerminals]
  <2>1. root \in [status : Statuses, terminal : RootTerminals]
    BY DEF TypeOK
  <2>2. CASE Ending
    BY <2>1, <2>2, EndingFacts
  <2>3. CASE IntegrationFails
    BY <2>3 DEF IntegrationFails, RootFailures, Result, Statuses, RootTerminals
  <2>4. CASE PromotionFails
    BY <2>1, <2>4 DEF PromotionFails, RootTerminals
  <2>5. CASE Reenter
    BY <2>1, <2>5 DEF Reenter, RootTerminals
  <2>6. CASE GateBlocks \/ CouplingBlocks \/ IntegrationPasses
    BY <2>6 DEF GateBlocks, CouplingBlocks, IntegrationPasses, Result, Statuses, RootTerminals
  <2>7. CASE ~(\/ Ending \/ IntegrationFails \/ PromotionFails \/ Reenter \/ GateBlocks
               \/ CouplingBlocks \/ IntegrationPasses)
    BY <2>1, <2>7, Cases DEF Continuing, Writing, vars, GateAllows, Begin, AuditAllows, StartWorker,
       Write, WorkerReturns, Judge, Accepted, VerificationPasses, PromotionPasses, OtherWrites,
       BrainChanges
  <2> QED BY <2>2, <2>3, <2>4, <2>5, <2>6, <2>7
<1>8. worked' \in SUBSET Nodes
  <2>1. CASE StartWorker
    BY <2>1 DEF StartWorker, TypeOK, Control, Executing
  <2>2. CASE ~StartWorker
    BY <2>2 DEF TypeOK, Next, Step, vars, History, GateBlocks, CouplingBlocks, GateAllows, DependencyBlocks, NoWorkerNeeded, MissionFails,
     Begin, AuditBlocks, AuditAllows, RecheckBlocks, Write, WorkerFails, WorkerReturns, Judge,
     VerificationFails, VerificationPasses, Commit, IntegrationFails, IntegrationPasses,
     PromotionFails, PromotionPasses, Reenter, OtherWrites, BrainChanges
  <2> QED BY <2>1, <2>2
<1>9. audited' \in [Nodes -> {<<>>} \cup [Paths -> Contents]]
  <2>1. CASE WorkerReturns
    BY <2>1 DEF WorkerReturns, TypeOK
  <2>2. CASE ~WorkerReturns
    BY <2>2 DEF TypeOK, Next, Step, vars, History, GateBlocks, CouplingBlocks, GateAllows, DependencyBlocks, NoWorkerNeeded, MissionFails,
     Begin, AuditBlocks, AuditAllows, RecheckBlocks, StartWorker, Write, WorkerFails, Judge,
     VerificationFails, VerificationPasses, Commit, IntegrationFails, IntegrationPasses,
     PromotionFails, PromotionPasses, Reenter, OtherWrites, BrainChanges
  <2> QED BY <2>1, <2>2
<1>10. (\A n \in Nodes : receipts[n].verified => receipts[n].state \in [Dependencies(n) -> Contents])'
  BY PlanKept, ReceiptsKept DEF Dependencies
<1> QED BY <1>1, <1>2, <1>3, <1>4, <1>5, <1>6, <1>7, <1>8, <1>9, <1>10, ReceiptsKept DEF TypeOK

LEMMA ControlStep ==
  ASSUME TypeOK, Control, [Next]_vars PROVE Control'
<1>1. CASE Ending
  BY <1>1, EndingFacts DEF Control, Executing, Working, Judging
<1>2. CASE ~Ending
  BY <1>2, Cases DEF Control, Executing, Working, Judging, Continuing, Writing, vars, GateBlocks, CouplingBlocks, GateAllows, Begin, AuditAllows, StartWorker, Write,
     WorkerReturns, Judge, Accepted, VerificationPasses, IntegrationFails, IntegrationPasses,
     PromotionFails, PromotionPasses, Reenter, OtherWrites, BrainChanges
<1> QED BY <1>1, <1>2

\* What an action that ends a contract does to the transaction.
LEMMA EndingTransaction ==
  ASSUME TypeOK, Control, Ending
  PROVE  \/ /\ AuditBlocks /\ txn' = txn /\ txn = at
            /\ results'[at] = Result("blocked", "REAPPROVAL_REQUIRED")
         \/ pc = "next" /\ txn' = txn
         \/ txn' = None
<1>1. CASE AuditBlocks
  <2>1. at \in Nodes /\ results \in [Nodes -> Results] /\ txn = at
    BY <1>1 DEF TypeOK, Control, Executing, AuditBlocks
  <2> QED BY <1>1, <2>1 DEF AuditBlocks, Finish
<1>2. CASE ~AuditBlocks
  BY <1>2 DEF Ending, Close, DependencyBlocks, NoWorkerNeeded, MissionFails, RecheckBlocks,
     WorkerFails, VerificationFails, Commit, Judge
<1> QED BY <1>1, <1>2

LEMMA LeftStep ==
  ASSUME TypeOK, Control, Left, Started, [Next]_vars PROVE Left'
<1>1. CASE Ending
  <2>1. /\ N \in Nat /\ at \in Nodes /\ txn \in Nodes \cup {None} /\ at' = at + 1
        /\ \A n \in Nodes \ {at} : results'[n] = results[n]
        /\ worked' = worked
    BY <1>1, EndingFacts, GraphAssumption DEF TypeOK
  <2>2. CASE AuditBlocks
    <3>1. at \notin worked /\ pc = "audit"
      BY <2>1, <2>2 DEF AuditBlocks, Started, Working, Judging, Nodes
    <3>2. txn' = None \/ (txn' = at /\ results'[at] = Result("blocked", "REAPPROVAL_REQUIRED"))
      BY <1>1, <3>1, EndingTransaction
    <3> QED BY <2>1, <3>1, <3>2 DEF Left, Nodes
  <2>3. CASE pc = "next" /\ txn' = txn /\ txn # None
    <3>1. txn < at /\ txn \notin worked /\ results[txn] = Result("blocked", "REAPPROVAL_REQUIRED")
      BY <2>3 DEF Left, Executing, Working, Judging
    <3>2. results'[txn] = results[txn] /\ txn < at'
      BY <2>1, <2>3, <3>1 DEF Nodes
    <3> QED BY <2>1, <2>3, <3>1, <3>2 DEF Left
  <2>4. CASE txn' = None
    BY <2>4 DEF Left
  <2> QED BY <1>1, <2>2, <2>3, <2>4, EndingTransaction
<1>2. CASE CouplingBlocks
  BY <1>2 DEF Left, Control, CouplingBlocks
<1>3. CASE pc' \in Executing
  BY <1>3 DEF Left
<1>4. CASE ~Ending /\ ~CouplingBlocks /\ pc' \notin Executing
  <2>1. UNCHANGED <<txn, at, worked, results>> /\ pc \notin Executing
    BY <1>4, Cases DEF Executing, Working, Judging, Continuing, Writing, vars, Outcomes, History,
     GateBlocks, GateAllows, Begin, AuditAllows, StartWorker, Write, WorkerReturns, Judge,
     Accepted, VerificationPasses, IntegrationFails, IntegrationPasses, PromotionFails,
     PromotionPasses, Reenter, OtherWrites, BrainChanges
  <2> QED BY <1>4, <2>1 DEF Left
<1> QED BY <1>1, <1>2, <1>3, <1>4

LEMMA StartedStep ==
  ASSUME TypeOK, Control, Started, [Next]_vars PROVE Started'
<1>1. /\ \A n \in worked' : C(n)' = C(n)
      /\ plan' = plan /\ N \in Nat /\ worked \subseteq 1 .. N /\ at \in 1 .. N + 1
  BY PlanKept, GraphAssumption DEF TypeOK, Nodes
<1>2. CASE Ending
  <2>1. worked' = worked /\ at' = at + 1 /\ pc' = "next" /\ pc # "end" /\ at \in Nodes
    BY <1>2, EndingFacts, EndingPlaces DEF Executing, Working, Judging
  <2>2. \A n \in worked : n < at + 1
    BY <1>1, <2>1 DEF Started, Nodes
  <2>3. \A n \in worked : (C(n).subject = plan.subject)'
    BY <1>1, <2>1 DEF Started, C
  <2> QED BY <2>1, <2>2, <2>3 DEF Started, Working, Judging
<1>3. CASE StartWorker
  BY <1>1, <1>3 DEF Started, StartWorker, StillAuthorized, Authorized, Working, Judging
<1>4. CASE ~Ending /\ ~StartWorker
  <2>1. worked' = worked /\ (at' = at \/ pc' = "end")
    BY <1>4, Cases DEF Continuing, Writing, vars, History,
     GateBlocks, CouplingBlocks, GateAllows, Begin, AuditAllows, Write, WorkerReturns, Judge,
     Accepted, VerificationPasses, IntegrationFails, IntegrationPasses, PromotionFails,
     PromotionPasses, Reenter, OtherWrites, BrainChanges
  <2>2. /\ pc' \in Working => pc \in Working
        /\ pc' # "end" => pc # "end" /\ (pc \in Working => pc' \in Working)
    BY <1>4, Cases DEF Continuing, Writing, vars, Working, Judging,
     GateBlocks, CouplingBlocks, GateAllows, Begin, AuditAllows, Write, WorkerReturns, Judge,
     Accepted, VerificationPasses, IntegrationFails, IntegrationPasses, PromotionFails,
     PromotionPasses, Reenter, OtherWrites, BrainChanges
  <2>3. at' = at
    BY <1>4, Cases DEF Continuing, Writing, vars,
     GateBlocks, CouplingBlocks, GateAllows, Begin, AuditAllows, Write, WorkerReturns, Judge,
     Accepted, VerificationPasses, IntegrationFails, IntegrationPasses, PromotionFails,
     PromotionPasses, Reenter, OtherWrites, BrainChanges
  <2> QED BY <1>1, <2>1, <2>2, <2>3 DEF Started
<1> QED BY <1>2, <1>3, <1>4

\* What a write does to a file nobody else wrote.
LEMMA WritingFacts ==
  ASSUME TypeOK, Writing
  PROVE  /\ pc' = pc /\ at' = at /\ UNCHANGED <<before, after, receipts, results, worked, audited, root>>
         /\ pc # "end" /\ touched \subseteq touched'
         /\ pc # "work" => \A p \in Paths \ touched' : disk'[p] = disk[p]
<1>1. disk \in [Paths -> Contents]
  BY DEF TypeOK
<1> QED BY <1>1 DEF Writing, Write, OtherWrites, Snapshots, Outcomes, History

LEMMA BytesStep ==
  ASSUME TypeOK, Control, Started, Bytes, [Next]_vars PROVE Bytes'
<1> USE DEF Judging
<1>1. /\ \A n \in Nodes : C(n)' = C(n) /\ Dependencies(n)' = Dependencies(n)
      /\ plan' = plan /\ N \in Nat /\ \A n \in Nodes : Dependencies(n) \subseteq Paths
  BY PlanKept, PlanFacts DEF TypeOK, Dependencies
<1>2. CASE Writing
  <2>1. Changed' = Changed
    BY <1>2, WritingFacts DEF Changed
  <2> QED BY <1>1, <1>2, <2>1, WritingFacts DEF Bytes, C, Dependencies
<1>3. CASE Commit
  <2>1. /\ at \in Nodes /\ at \in worked /\ pc' = "next" /\ at' = at + 1
        /\ UNCHANGED <<disk, touched, worked, audited>>
        /\ audited[at] = after /\ \A p \in Paths \ touched : disk[p] = after[p]
    BY <1>3, EndingFacts DEF Ending, Commit, Control, Executing, Working, Started, Bytes
  <2>2. receipts \in [Nodes -> {NoReceipt} \cup [verified : {TRUE}, state : States]]
    BY DEF TypeOK
  <2>3. \/ receipts' = receipts
        \/ receipts' = [receipts EXCEPT ![at] =
             [verified |-> TRUE, state |-> [p \in Dependencies(at) |-> disk[p]]]]
    BY <1>3 DEF Commit
  <2>4. \A n \in Nodes \ {at} : receipts'[n] = receipts[n]
    BY <2>2, <2>3
  <2>5. receipts'[at] = receipts[at] \/ receipts'[at].state = [p \in Dependencies(at) |-> disk[p]]
    BY <2>1, <2>2, <2>3
  <2>6. \A n \in Nodes : receipts'[n].verified =>
          /\ n \in worked /\ n < at + 1
          /\ \A p \in Dependencies(n) \ touched : receipts'[n].state[p] = audited[n][p]
    BY <1>1, <2>1, <2>4, <2>5 DEF Bytes, Nodes
  <2> QED BY <1>1, <2>1, <2>6 DEF Bytes
<1>4. CASE Ending /\ ~Commit
  <2>1. /\ receipts' = receipts /\ pc' = "next" /\ UNCHANGED <<disk, touched, worked, audited>>
        /\ at \in Nodes /\ at' = at + 1
    BY <1>4, EndingFacts, ReceiptsKept
  <2> QED BY <1>1, <2>1 DEF Bytes, Nodes
<1>5. CASE Continuing
  <2>1. receipts' = receipts /\ UNCHANGED <<disk, touched>>
    BY <1>5 DEF Continuing, Outcomes, Files, GateBlocks, CouplingBlocks, GateAllows, Begin, AuditAllows, StartWorker, WorkerReturns,
     Judge, Accepted, VerificationPasses, IntegrationFails, IntegrationPasses, PromotionFails,
     PromotionPasses, Reenter, BrainChanges
  <2>2. CASE WorkerReturns
    <3>1. /\ at \in Nodes /\ at' = at /\ worked' = worked /\ pc' = "judge" /\ after' = disk
          /\ audited' = [audited EXCEPT ![at] = disk] /\ audited \in [Nodes -> {<<>>} \cup [Paths -> Contents]]
      BY <2>2 DEF WorkerReturns, Control, Executing, Working, TypeOK
    <3>2. \A n \in Nodes : receipts[n].verified => n # at
      BY <3>1 DEF Bytes, Nodes
    <3> QED BY <1>1, <2>1, <3>1, <3>2 DEF Bytes
  <2>3. CASE ~WorkerReturns
    <3>1. audited' = audited /\ at' = at
      BY <1>5, <2>3 DEF Continuing, History, GateBlocks, CouplingBlocks, GateAllows, Begin, AuditAllows, StartWorker, Judge, Accepted,
     VerificationPasses, IntegrationFails, IntegrationPasses, PromotionFails, PromotionPasses,
     Reenter, BrainChanges
    <3>6. worked \subseteq worked'
      BY <1>5, <2>3 DEF Continuing, History, GateBlocks, CouplingBlocks, GateAllows, Begin, AuditAllows, StartWorker, Judge, Accepted,
     VerificationPasses, IntegrationFails, IntegrationPasses, PromotionFails, PromotionPasses,
     Reenter, BrainChanges
    <3>2. pc' = "recheck" => before' = disk \/ (pc = "recheck" /\ before' = before)
      BY <1>5, <2>3 DEF Continuing, Snapshots, GateBlocks, CouplingBlocks, GateAllows, Begin, AuditAllows, StartWorker, Judge, Accepted,
     VerificationPasses, IntegrationFails, IntegrationPasses, PromotionFails, PromotionPasses,
     Reenter, BrainChanges
    <3>3. pc' \in Judging => pc \in Judging /\ UNCHANGED <<before, after>>
      BY <1>5, <2>3 DEF Continuing, Snapshots, GateBlocks, CouplingBlocks, GateAllows, Begin, AuditAllows, StartWorker, Judge, Accepted,
     VerificationPasses, IntegrationFails, IntegrationPasses, PromotionFails, PromotionPasses,
     Reenter, BrainChanges
    <3>4. pc' \in {"verify", "commit"} => pc \in {"verify", "commit"} \/ Accepted
      BY <1>5, <2>3 DEF Continuing, GateBlocks, CouplingBlocks, GateAllows, Begin, AuditAllows, StartWorker, Judge, Accepted,
     VerificationPasses, IntegrationFails, IntegrationPasses, PromotionFails, PromotionPasses,
     Reenter, BrainChanges
    <3>5. Accepted => at \in Nodes /\ Changed \subseteq C(at).scope \ plan.dnt
      BY DEF Accepted, MutationStatus, Judge, Control, Executing, Working
    <3> QED BY <1>1, <2>1, <3>1, <3>2, <3>3, <3>4, <3>5, <3>6 DEF Bytes, Changed, C, Dependencies
  <2> QED BY <2>2, <2>3
<1>6. CASE UNCHANGED vars
  BY <1>6 DEF vars, Bytes, Changed, C, Dependencies
<1> QED BY <1>2, <1>3, <1>4, <1>5, <1>6, Cases


LEMMA WaitedStep ==
  ASSUME TypeOK, Control, Waited, [Next]_vars PROVE Waited'
<1>1. CASE Ending
  BY <1>1, EndingFacts DEF Waited, Executing, Working, Judging
<1>2. CASE ~Ending
  <2>1. pc' \in Executing => results' = results /\ at' = at
    BY <1>2, Cases DEF Executing, Working, Judging, Continuing, Writing, vars, Outcomes,
     GateBlocks, CouplingBlocks, GateAllows, Begin, AuditAllows, StartWorker, Write,
     WorkerReturns, Judge, Accepted, VerificationPasses, IntegrationFails, IntegrationPasses,
     PromotionFails, PromotionPasses, Reenter, OtherWrites, BrainChanges
  <2>2. pc' \in Executing => pc \in Executing \/ DependenciesDone(at)
    BY <1>2, Cases DEF Executing, Working, Judging, Continuing, Writing, vars,
     GateBlocks, CouplingBlocks, GateAllows, Begin, AuditAllows, StartWorker, Write,
     WorkerReturns, Judge, Accepted, VerificationPasses, IntegrationFails, IntegrationPasses,
     PromotionFails, PromotionPasses, Reenter, OtherWrites, BrainChanges
  <2>3. pc' \in Executing => DependenciesDone(at)
    BY <2>2 DEF Waited
  <2> QED BY <2>1, <2>3, PlanKept DEF Waited, DependenciesDone, C
<1> QED BY <1>1, <1>2

\* A contract is done only without a Worker or by a commit.
LEMMA EndingDone ==
  ASSUME TypeOK, Control, Ending, results'[at].status = "done" PROVE pc = "next" \/ Commit
<1>1. at \in Nodes /\ results \in [Nodes -> Results]
  BY EndingFacts DEF TypeOK
<1> QED BY <1>1 DEF Ending, Close, Finish, Result, DependencyBlocks, NoWorkerNeeded, MissionFails,
       AuditBlocks, RecheckBlocks, WorkerFails, VerificationFails, Judge

\* The changes of one scope stay so as long as only others write.
LEMMA OneScopeKept ==
  ASSUME OneScope, [Next]_vars, worked \subseteq worked', touched \subseteq touched',
         \A p \in Paths \ touched' : disk'[p] = disk[p]
  PROVE  OneScope'
BY PlanKept DEF OneScope, C

LEMMA ChangesStep ==
  ASSUME TypeOK, Control, Started, Bytes, Changes, [Next]_vars PROVE Changes'
<1>1. /\ N \in Nat /\ plan' = plan
      /\ \A n \in Nodes : C(n).scope \subseteq C(n).subject /\ C(n).scope \subseteq Paths
  BY PlanKept, PlanFacts DEF TypeOK
<1>2. CASE Ending
  <2>1. /\ at \in Nodes /\ at' = at + 1 /\ pc' = "next" /\ pc # "end"
        /\ UNCHANGED <<plan, disk, touched, root, worked>>
        /\ \A n \in Nodes \ {at} : results'[n] = results[n]
    BY <1>2, EndingFacts, EndingPlaces DEF Executing, Working, Judging
  <2>2. AllDone' => AllDone /\ results'[at].status = "done"
    BY <1>1, <2>1 DEF AllDone, Nodes
  <2>3. ASSUME AllDone' PROVE OfOne
    <3>1. CASE pc = "next"
      BY <2>2, <2>3, <3>1 DEF Changes, Working, Judging
    <3>2. CASE Commit
      <4>1. /\ pc = "commit" /\ at \in worked /\ Changed \subseteq C(at).scope \ plan.dnt
            /\ \A p \in Paths \ touched : disk[p] = after[p] /\ before[p] = Approved[p]
        BY <2>2, <2>3, <3>2 DEF Commit, Started, Bytes, Changes, Working, Judging
      <4> QED BY <4>1 DEF OfOne, OneScope, Changed
    <3> QED BY <1>2, <2>2, <2>3, <3>1, <3>2, EndingDone
  <2>4. OfOne => OfOne'
    BY <2>1 DEF OfOne, OneScope, C
  <2>5. ~Promoted'
    BY <2>1 DEF Changes, Promoted
  <2> QED BY <2>1, <2>3, <2>4, <2>5 DEF Changes, Working, Judging, PromotedChangesAreApproved
<1>3. CASE Writing
  <2>1. /\ pc' = pc /\ pc # "end" /\ UNCHANGED <<at, before, results, worked, root>>
        /\ touched \subseteq touched'
        /\ pc # "work" => \A p \in Paths \ touched' : disk'[p] = disk[p]
    BY <1>3, WritingFacts
  <2>2. AllDone' = AllDone
    BY <2>1 DEF AllDone
  <2>3. pc # "work" => (OneScope => OneScope') /\ (OfOne => OfOne')
    BY <2>1, OneScopeKept DEF OfOne
  <2>4. ~Promoted'
    BY <2>1 DEF Changes, Promoted
  <2> QED BY <2>1, <2>2, <2>3, <2>4 DEF Changes, Working, Judging, PromotedChangesAreApproved
<1>4. CASE StartWorker
  <2>1. /\ pc = "recheck" /\ pc' = "work" /\ UNCHANGED <<disk, touched, before, at, results, root>>
        /\ worked \subseteq worked'
    BY <1>4 DEF StartWorker, Files, Snapshots, Outcomes
  <2>2. /\ \A p \in plan.subject : disk[p] = Approved[p]
        /\ \A p \in Paths \ touched : disk[p] = before[p]
        /\ \A n \in worked : C(n).scope \subseteq plan.subject
    BY <1>1, <1>4, <2>1 DEF StartWorker, StillAuthorized, Authorized, Bytes, Started, TypeOK
  <2>3. OfOne => \A p \in Paths \ touched : disk[p] = Approved[p]
    BY <2>2 DEF OfOne, OneScope
  <2>4. AllDone' = AllDone /\ ~Promoted'
    BY <2>1 DEF AllDone, Changes, Promoted
  <2> QED BY <2>1, <2>2, <2>3, <2>4 DEF Changes, Working, Judging, PromotedChangesAreApproved
<1>5. CASE IntegrationPasses
  <2>1. /\ pc = "next" /\ pc' = "promote" /\ at = N + 1 /\ N > 0 /\ Ready
        /\ UNCHANGED <<disk, touched, before, at, results, worked>> /\ ~Promoted'
    BY <1>5 DEF IntegrationPasses, Files, Snapshots, Outcomes, History, Promoted, Result
  <2>2. AllDone
    BY <2>1 DEF Ready, AllDone
  <2>3. \E n \in Nodes : n \in worked
    BY <1>1, <2>1 DEF Ready, Fresh, Bytes, Nodes
  <2>4. OneScope
    BY <2>1, <2>2, <2>3 DEF Changes, Working, Judging, OfOne, OneScope
  <2>5. AllDone' /\ OneScope'
    BY <1>1, <2>1, <2>2, <2>4 DEF AllDone, OneScope, C
  <2> QED BY <2>1, <2>5 DEF Changes, Working, Judging, OfOne, PromotedChangesAreApproved
<1>6. CASE GateBlocks \/ CouplingBlocks \/ IntegrationFails \/ PromotionFails \/ Reenter
  <2>1. pc' = "end" /\ UNCHANGED <<disk, touched, worked>>
    BY <1>6 DEF GateBlocks, CouplingBlocks, IntegrationFails, PromotionFails, Reenter, Files, History
  <2>2. Promoted' => Reenter
    <3>1. root \in [status : Statuses, terminal : RootTerminals]
      BY DEF TypeOK
    <3> QED BY <1>6, <3>1 DEF GateBlocks, CouplingBlocks, IntegrationFails, RootFailures,
            PromotionFails, Promoted, Result, LifecycleFailures
  <2>3. Reenter => OneScope'
    BY <1>1, <2>1 DEF Reenter, Changes, OneScope, C
  <2> QED BY <2>1, <2>2, <2>3 DEF Changes, Working, Judging, PromotedChangesAreApproved, OneScope
<1>7. CASE Continuing /\ ~StartWorker /\ ~IntegrationPasses
           /\ ~(GateBlocks \/ CouplingBlocks \/ IntegrationFails \/ PromotionFails \/ Reenter)
  <2>1. UNCHANGED <<disk, touched, worked, at, results, root>>
    BY <1>7 DEF Continuing, Files, History, Outcomes, GateAllows, Begin, AuditAllows, WorkerReturns,
       Accepted, Judge, VerificationPasses, PromotionPasses, BrainChanges
  <2>2. /\ pc # "end" /\ (pc' \in Working <=> pc \in Working)
        /\ pc \in Working => before' = before
        /\ pc' \in {"promote", "reenter"} => pc \in {"promote", "reenter"}
    BY <1>7 DEF Continuing, Snapshots, Working, Judging, GateAllows, Begin, AuditAllows,
       WorkerReturns, Accepted, Judge, VerificationPasses, PromotionPasses, BrainChanges
  <2>3. AllDone' = AllDone /\ OneScope' = OneScope /\ OfOne' = OfOne /\ ~Promoted'
    BY <1>1, <2>1, <2>2 DEF Changes, AllDone, OneScope, OfOne, C, Promoted
  <2> QED BY <2>1, <2>2, <2>3 DEF Changes, PromotedChangesAreApproved
<1>8. CASE UNCHANGED vars
  BY <1>8 DEF vars, Changes, AllDone, OfOne, OneScope, Promoted, PromotedChangesAreApproved, C
<1> QED BY <1>2, <1>3, <1>4, <1>5, <1>6, <1>7, <1>8, Cases


-----------------------------------------------------------------------------
(* The theorems.                                                           *)

LEMMA GraphInvInvariant == Spec => []GraphInv
<1>1. Init => GraphInv
  BY InitInv
<1>2. GraphInv /\ [Next]_vars => GraphInv'
  BY TypeStep, ControlStep, WaitedStep, LeftStep, StartedStep, BytesStep, ChangesStep DEF GraphInv
<1> QED BY <1>1, <1>2, PTL DEF Spec

\* Type correctness: every contract's result, receipt and audited state stays in
\* its set, and a verified receipt records exactly the files its evidence depends on.
THEOREM TypeCorrect == Spec => []TypeOK
<1>1. GraphInv => TypeOK
  BY DEF GraphInv
<1> QED BY <1>1, GraphInvInvariant, PTL

\* All that a promoted graph changed is in the scope of one contract, and not
\* protected, unless somebody else wrote the file.
THEOREM PromotedChangesCorrect == Spec => []PromotedChangesAreApproved
<1>1. GraphInv => PromotedChangesAreApproved
  BY DEF GraphInv, Changes
<1> QED BY <1>1, GraphInvInvariant, PTL

\* A transaction left open at the end belongs to a contract whose audit refused it:
\* no Worker wrote in it.
THEOREM OpenTransactionsCorrect == Spec => []OpenTransactionsAreUnused
<1>1. GraphInv => OpenTransactionsAreUnused
  BY DEF GraphInv, Left, OpenTransactionsAreUnused, Executing, Working, Judging
<1> QED BY <1>1, GraphInvInvariant, PTL

\* A Worker starts over contracts that are done and on the approved bytes.
THEOREM WorkersStartCorrect == Spec => WorkersStartFromApproval
<1>1. ASSUME GraphInv, [Next]_vars, NEW n \in worked' \ worked
      PROVE  /\ \A d \in C(n).deps : results[d].status = "done"
             /\ brain
             /\ \A p \in C(n).scope \cup plan.dnt : disk[p] = Approved[p]
  <2>1. StartWorker
    BY <1>1 DEF Next, Step, vars, History, GateBlocks, CouplingBlocks, GateAllows, DependencyBlocks, NoWorkerNeeded, MissionFails,
     Begin, AuditBlocks, AuditAllows, RecheckBlocks, Write, WorkerFails, WorkerReturns, Judge,
     VerificationFails, VerificationPasses, Commit, IntegrationFails, IntegrationPasses,
     PromotionFails, PromotionPasses, Reenter, OtherWrites, BrainChanges
  <2>2. n = at /\ at \in Nodes /\ DependenciesDone(at)
    BY <1>1, <2>1 DEF StartWorker, GraphInv, Control, Waited, Executing
  <2>3. brain /\ C(n).subject = plan.subject /\ \A p \in plan.subject : disk[p] = Approved[p]
    BY <2>1, <2>2 DEF StartWorker, StillAuthorized, Authorized
  <2>4. C(n).scope \cup plan.dnt \subseteq C(n).subject
    BY <1>1, <2>2, PlanFacts DEF GraphInv, TypeOK
  <2> QED BY <2>2, <2>3, <2>4 DEF DependenciesDone
<1>2. GraphInv /\ [Next]_vars =>
        [\A n \in worked' \ worked :
           /\ \A d \in C(n).deps : results[d].status = "done"
           /\ brain
           /\ \A p \in C(n).scope \cup plan.dnt : disk[p] = Approved[p]]_vars
  BY <1>1
<1> QED BY <1>2, GraphInvInvariant, PTL DEF Spec, WorkersStartFromApproval

\* What a promoted graph was verified on is what is there when it is promoted.
THEOREM PromotedWorkCorrect == Spec => PromotedWorkStands
<1>1. ASSUME GraphInv, [Next]_vars, pc = "promote", pc' = "reenter",
             NEW n \in Nodes, NEW p \in Paths \ touched
      PROVE  n \in worked /\ (p \in Dependencies(n) => disk[p] = audited[n][p])
  <2>1. Fresh(n)
    BY <1>1 DEF Next, Step, vars, Finish, Close, GateBlocks, CouplingBlocks, GateAllows,
       DependencyBlocks, NoWorkerNeeded, MissionFails, Begin, AuditBlocks, AuditAllows,
       RecheckBlocks, StartWorker, Write, WorkerFails, WorkerReturns, Judge, VerificationFails,
       VerificationPasses, Commit, IntegrationFails, IntegrationPasses, PromotionFails,
       PromotionPasses, Reenter, OtherWrites, BrainChanges
  <2> QED BY <1>1, <2>1 DEF GraphInv, Bytes, Fresh
<1>2. GraphInv /\ [Next]_vars =>
        [pc = "promote" /\ pc' = "reenter" =>
           \A n \in Nodes, p \in Paths \ touched :
             n \in worked /\ (p \in Dependencies(n) => disk[p] = audited[n][p])]_vars
  BY <1>1
<1> QED BY <1>2, GraphInvInvariant, PTL DEF Spec, PromotedWorkStands

-----------------------------------------------------------------------------
(* The lifecycle advances: what LifecycleEnds rests on besides fairness.   *)

\* The places of one contract and of the root, the last one first.
Ahead ==
  CASE pc = "gate" -> 10 [] pc = "next" -> 9 [] pc = "audit" -> 8 [] pc = "recheck" -> 7
    [] pc = "work" -> 6 [] pc = "judge" -> 5 [] pc = "verify" -> 4 [] pc = "commit" -> 3
    [] pc = "promote" -> 2 [] pc = "reenter" -> 1 [] OTHER -> 0

\* Each step of the program goes on to the next contract, or to a later place, and no
\* write of a Worker or of anybody else moves it: no contract is tried twice and the
\* lifecycle takes a bounded number of steps, whoever writes meanwhile
\* (run_approval_bound_execution_lifecycle, with at at most one past the contracts).
THEOREM LifecyclesAdvance ==
  Spec => /\ []TypeOK
          /\ [][/\ Step => at' = at + 1 \/ (at' = at /\ Ahead' < Ahead)
                /\ ~Step => UNCHANGED <<at, pc>>]_vars
<1>1. ASSUME Step
      PROVE  at' = at + 1 \/ (at' = at /\ Ahead' < Ahead)
  <2>1. CASE GateBlocks \/ CouplingBlocks \/ GateAllows
    BY <2>1 DEF GateBlocks, CouplingBlocks, GateAllows, Ahead
  <2>2. CASE DependencyBlocks \/ NoWorkerNeeded \/ MissionFails \/ Begin
    BY <2>2 DEF DependencyBlocks, NoWorkerNeeded, MissionFails, Begin, Finish, Ahead
  <2>3. CASE AuditBlocks \/ AuditAllows \/ RecheckBlocks \/ StartWorker
    BY <2>3 DEF AuditBlocks, AuditAllows, RecheckBlocks, StartWorker, Close, Finish, Ahead
  <2>4. CASE WorkerFails \/ WorkerReturns \/ Judge
    BY <2>4 DEF WorkerFails, WorkerReturns, Judge, Close, Finish, Ahead
  <2>5. CASE VerificationFails \/ VerificationPasses \/ Commit
    BY <2>5 DEF VerificationFails, VerificationPasses, Commit, Close, Finish, Ahead
  <2>6. CASE IntegrationFails \/ IntegrationPasses \/ PromotionFails \/ PromotionPasses \/ Reenter
    BY <2>6 DEF IntegrationFails, IntegrationPasses, PromotionFails, PromotionPasses, Reenter, Ahead
  <2> QED
    BY <1>1, <2>1, <2>2, <2>3, <2>4, <2>5, <2>6 DEF Step
<1>2. ASSUME Next, ~Step
      PROVE  UNCHANGED <<at, pc>>
  BY <1>2 DEF Next, Write, OtherWrites, BrainChanges
<1> QED
  BY <1>1, <1>2, TypeCorrect, PTL DEF Spec
=============================================================================
