---------------------------- MODULE ApprovedGraph ----------------------------
(***************************************************************************)
(* The approval-bound execution of a plan graph: the contracts a user      *)
(* approved are executed one after the other in the order of the graph     *)
(* (execute_approved_plan_graph), each by one Worker between two audits    *)
(* (execute_approval_bound_worker), then integrated, promoted and read     *)
(* back.  A user, a verifier's command or another process may change the   *)
(* files and the Project Brain at any moment.                              *)
(*                                                                         *)
(* An approval is bound to the bytes of the files it names, so the content *)
(* of a file is a value; approved holds those of the approval.             *)
(***************************************************************************)
EXTENDS Naturals, FiniteSets

CONSTANTS
  N,          \* the contracts of the graph, in topological order
  Paths, Contents,
  Approved,   \* Approved[p]: the content of file p when the plan was approved
  Plans       \* the contracts a behaviour may start with

Nodes == 1 .. N

None == 0

\* worker_required, with and without a behaviour change to make, or neither.
Kinds == {"mutation", "check", "free"}

\* allowed_mutation_paths, dependencies, what else its evidence depends on, and
\* the paths its audit fingerprints.
Contract == [kind : Kinds, scope : SUBSET Paths, deps : SUBSET Nodes,
             reads : SUBSET Paths, subject : SUBSET Paths]

\* contracts, approved_dnt, and the paths the approved subject hash is about.
Plan == [contracts : [Nodes -> Contract], dnt : SUBSET Paths, subject : SUBSET Paths]

ASSUME GraphAssumption ==
  /\ N \in Nat
  /\ Approved \in [Paths -> Contents]
  /\ Plans \subseteq {plan \in Plan :
       \A n \in Nodes : /\ \A d \in plan.contracts[n].deps : d < n
                        /\ plan.contracts[n].scope \cup plan.dnt \subseteq plan.contracts[n].subject}

VARIABLES
  plan,        \* what was approved
  disk, brain, \* the workspace; whether the Project Brain is the approved one
  pc, at,      \* where the lifecycle is, and the contract it is at
  txn,         \* ACTIVE_TRANSACTION: the contract it was begun for
  before,      \* enumerate_execution_subject before the audit ...
  after,       \* ... and after the Worker
  results,     \* the result of each contract
  receipts,    \* their child receipts
  root,        \* the status and terminal state of the whole
  worked,      \* history: the contracts whose Worker was started
  audited,     \* history: what the files were when a contract was audited after its Worker
  touched      \* history: the files somebody else wrote

vars == <<plan, disk, brain, pc, at, txn, before, after, results, receipts, root,
          worked, audited, touched>>

C(n) == plan.contracts[n]

NoResult == [status |-> "none", terminal |-> "none"]

NoReceipt == [verified |-> FALSE, state |-> <<>>]

Init ==
  /\ plan \in Plans
  /\ disk = Approved /\ brain = TRUE
  /\ pc = "gate" /\ at = 1 /\ txn = None
  /\ before = Approved /\ after = Approved
  /\ results = [n \in Nodes |-> NoResult]
  /\ receipts = [n \in Nodes |-> NoReceipt]
  /\ root = NoResult
  /\ worked = {} /\ audited = [n \in Nodes |-> <<>>] /\ touched = {}

Files == <<disk, touched>>
Snapshots == <<before, after>>
Outcomes == <<results, receipts>>
History == <<worked, audited>>

Result(status, terminal) == [status |-> status, terminal |-> terminal]

-----------------------------------------------------------------------------
(* The graph.                                                              *)

\* worker_authorization_gate and the compilation of the contracts: everything is
\* refused before a contract is looked at.
GateBlocks ==
  /\ pc = "gate"
  /\ root' = Result("blocked", "EXECUTION_AUTHORIZATION_BLOCKED")
  /\ pc' = "end"
  /\ UNCHANGED <<plan, Files, brain, at, txn, Snapshots, Outcomes, History>>

\* The coupling analysis refuses the split: every contract is blocked, and the root failed.
CouplingBlocks ==
  /\ pc = "gate"
  /\ results' = [n \in Nodes |-> Result("blocked", "SEMANTIC_COUPLING")]
  /\ root' = Result("failed", "INTEGRATION_FAILED")
  /\ pc' = "end"
  /\ UNCHANGED <<plan, Files, brain, at, txn, Snapshots, receipts, History>>

GateAllows ==
  /\ pc = "gate"
  /\ pc' = "next"
  /\ UNCHANGED <<plan, Files, brain, at, txn, Snapshots, Outcomes, root, History>>

\* Mutant: a contract that has its result is tried again.
FinishInPlace(result) ==
  /\ results' = [results EXCEPT ![at] = result]
  /\ at' = at
  /\ pc' = "next"

\* The contract under way has its result, and the loop goes on.
Finish(result) ==
  /\ results' = [results EXCEPT ![at] = result]
  /\ at' = at + 1
  /\ pc' = "next"

DependenciesDone(n) == \A d \in C(n).deps : results[d].status = "done"

DependencyBlocks ==
  /\ pc = "next" /\ at \in Nodes
  /\ ~DependenciesDone(at)
  /\ Finish(Result("blocked", "EXECUTION_DEPENDENCY_BLOCKED"))
  /\ UNCHANGED <<plan, Files, brain, txn, Snapshots, receipts, root, History>>

\* A contract that needs no Worker is done, without anything verified.
NoWorkerNeeded ==
  /\ pc = "next" /\ at \in Nodes
  /\ DependenciesDone(at)
  /\ C(at).kind = "free"
  /\ Finish(Result("done", "none"))
  /\ UNCHANGED <<plan, Files, brain, txn, Snapshots, receipts, root, History>>

\* _approval_bound_leaf_executor: the contract is not the compiled one, or the
\* mission cannot be built, before a transaction is begun.
MissionFails ==
  /\ pc = "next" /\ at \in Nodes
  /\ DependenciesDone(at)
  /\ C(at).kind # "free"
  /\ \E terminal \in {"WORKER_AUTHORIZATION_INVALID", "WORKER_OUTPUT_INVALID"} :
       Finish(Result("failed", terminal))
  /\ UNCHANGED <<plan, Files, brain, txn, Snapshots, receipts, root, History>>

\* A transaction somebody left open is closed, its files as they are.
Begin ==
  /\ pc = "next" /\ at \in Nodes
  /\ DependenciesDone(at)
  /\ C(at).kind # "free"
  /\ txn' = at
  /\ pc' = "audit"
  /\ UNCHANGED <<plan, Files, brain, at, Snapshots, Outcomes, root, History>>

-----------------------------------------------------------------------------
(* One contract and its Worker.                                            *)

\* last_moment_authorization_audit: the hash of the contract's subject is the
\* approved one, so it is about the same files with the same bytes, and the
\* Project Brain is the approved one.
Authorized(n) ==
  /\ C(n).subject = plan.subject
  /\ \A p \in plan.subject : disk[p] = Approved[p]
  /\ brain

\* The audit fails: the transaction just begun stays open.
AuditBlocks ==
  /\ pc = "audit"
  /\ ~Authorized(at)
  /\ Finish(Result("blocked", "REAPPROVAL_REQUIRED"))
  /\ before' = disk
  /\ UNCHANGED <<plan, Files, brain, txn, after, receipts, root, History>>

\* The execution start receipt is made.
AuditAllows ==
  /\ pc = "audit"
  /\ Authorized(at)
  /\ before' = disk
  /\ pc' = "recheck"
  /\ UNCHANGED <<plan, Files, brain, at, txn, after, Outcomes, root, History>>

\* Mutant: the second audit, right before the Worker, is left out.
StillAuthorizedOnce(n) == TRUE

\* immediate_check: the same audit again, and the start receipt's own bytes.
StillAuthorized(n) ==
  /\ Authorized(n)
  /\ \A p \in C(n).subject : disk[p] = before[p]

\* _close_approval_bound_transaction: the files stay as they are.
Close(result) == Finish(result) /\ txn' = None

\* execute_agent_task repeats the audit before it calls the model.
RecheckBlocks ==
  /\ pc = "recheck"
  /\ ~StillAuthorized(at)
  /\ Close(Result("blocked", "REAPPROVAL_REQUIRED"))
  /\ UNCHANGED <<plan, Files, brain, Snapshots, receipts, root, History>>

StartWorker ==
  /\ pc = "recheck"
  /\ StillAuthorized(at)
  /\ pc' = "work"
  /\ worked' = worked \cup {at}
  /\ UNCHANGED <<plan, Files, brain, at, txn, Snapshots, Outcomes, root, audited>>

\* The Worker's tools and commands.
Write(p, c) ==
  /\ pc = "work"
  /\ disk' = [disk EXCEPT ![p] = c]
  /\ UNCHANGED <<plan, touched, brain, pc, at, txn, Snapshots, Outcomes, root, History>>

\* The Worker raises an exception, or returns no completed result.
WorkerFails ==
  /\ pc = "work"
  /\ Close(Result("failed", "WORKER_OUTPUT_INVALID"))
  /\ after' = disk
  /\ UNCHANGED <<plan, Files, brain, before, receipts, root, History>>

WorkerReturns ==
  /\ pc = "work"
  /\ after' = disk
  /\ audited' = [audited EXCEPT ![at] = disk]
  /\ pc' = "judge"
  /\ UNCHANGED <<plan, Files, brain, at, txn, before, Outcomes, root, worked>>

\* diff_execution_subject
Changed == {p \in Paths : before[p] # after[p]}

\* Mutant: only the paths of the approval are compared, not every changed one.
MutationStatusOfSubject(n) ==
  IF Changed \cap plan.dnt # {} THEN "DNT_VIOLATION"
  ELSE IF ~(Changed \cap C(n).subject \subseteq C(n).scope) THEN "UNAUTHORIZED_MUTATION"
  ELSE IF C(n).kind = "mutation" /\ Changed = {} THEN "WORKER_NO_APPROVED_MUTATION"
  ELSE "MUTATION_SCOPE_VALIDATED"

\* audit_post_worker_mutation
MutationStatus(n) ==
  IF Changed \cap plan.dnt # {} THEN "DNT_VIOLATION"
  ELSE IF ~(Changed \subseteq C(n).scope) THEN "UNAUTHORIZED_MUTATION"
  ELSE IF C(n).kind = "mutation" /\ Changed = {} THEN "WORKER_NO_APPROVED_MUTATION"
  ELSE "MUTATION_SCOPE_VALIDATED"

\* A Worker some of whose edits the precommit gate rejected is reported as one
\* whose verification failed.
Judge ==
  /\ pc = "judge"
  /\ IF MutationStatus(at) = "MUTATION_SCOPE_VALIDATED"
     THEN pc' = "verify" /\ UNCHANGED <<at, txn, results>>
     ELSE \E terminal \in {MutationStatus(at), "VERIFICATION_FAILED"} : Close(Result("failed", terminal))
  /\ UNCHANGED <<plan, Files, brain, Snapshots, receipts, root, History>>

\* run_stage5a_verification and the pre-commit impact validator.
VerificationFails ==
  /\ pc = "verify"
  /\ \E terminal \in {"VERIFICATION_FAILED", "IMPACT_MISMATCH"} : Close(Result("failed", terminal))
  /\ UNCHANGED <<plan, Files, brain, Snapshots, receipts, root, History>>

VerificationPasses ==
  /\ pc = "verify"
  /\ pc' = "commit"
  /\ UNCHANGED <<plan, Files, brain, at, txn, Snapshots, Outcomes, root, History>>

\* derive_evidence_dependency_paths
Dependencies(n) == C(n).scope \cup C(n).reads

\* commit_transaction keeps the files, and _mark_task_result makes the receipt.
\* Under the atomic receipt policy a receipt that cannot be validated or stored
\* makes the contract fail, its files committed: its result keeps the terminal
\* state of a verified one.
Commit ==
  /\ pc = "commit"
  /\ \/ /\ Close(Result("done", "VERIFICATION_PASSED"))
        /\ receipts' = [receipts EXCEPT ![at] =
             [verified |-> TRUE, state |-> [p \in Dependencies(at) |-> disk[p]]]]
     \/ /\ Close(Result("failed", "VERIFICATION_PASSED"))
        /\ UNCHANGED receipts
  /\ UNCHANGED <<plan, Files, brain, Snapshots, root, History>>

-----------------------------------------------------------------------------
(* The root.                                                               *)

\* Mutant: a receipt once verified stays good.
FreshForever(n) == receipts[n].verified

\* receipt_freshness of a verified receipt.
Fresh(n) ==
  /\ receipts[n].verified
  /\ \A p \in Dependencies(n) : disk[p] = receipts[n].state[p]

\* assess_integration_readiness over the contracts of the graph.
Ready == \A n \in Nodes : results[n].status = "done" /\ Fresh(n)

LifecycleFailures ==
  {"REAPPROVAL_REQUIRED", "WORKER_AUTHORIZATION_INVALID", "WORKER_OUTPUT_INVALID",
   "WORKER_NO_APPROVED_MUTATION", "UNAUTHORIZED_MUTATION", "DNT_VIOLATION", "VERIFICATION_FAILED"}

\* The first contract that failed in one of these ways names the failure of the
\* root: first in the order the contracts were compiled in, which may be any.
RootFailures ==
  LET failing == {results[n].terminal : n \in Nodes} \cap LifecycleFailures
  IN IF failing = {} THEN {"INTEGRATION_FAILED"} ELSE failing

\* The semantic groups fail, the contracts are not ready, or the integration
\* evidence does not prove the parent.
IntegrationFails ==
  /\ pc = "next" /\ at = N + 1
  /\ \E terminal \in RootFailures : root' = Result("failed", terminal)
  /\ pc' = "end"
  /\ UNCHANGED <<plan, Files, brain, at, txn, Snapshots, Outcomes, History>>

\* _aggregate_stage5b_parent: the root is verified, whatever comes after.
IntegrationPasses ==
  /\ pc = "next" /\ at = N + 1
  /\ N > 0 /\ Ready
  /\ root' = Result("done", "PARENT_VERIFIED")
  /\ pc' = "promote"
  /\ UNCHANGED <<plan, Files, brain, at, txn, Snapshots, Outcomes, History>>

\* A promotion that is refused or fails leaves a root that is done and names the failure.
PromotionFails ==
  /\ pc = "promote"
  /\ \E terminal \in {"PROMOTION_PRECONDITION_FAILED", "PROMOTION_FAILED"} :
       root' = [root EXCEPT !.terminal = terminal]
  /\ pc' = "end"
  /\ UNCHANGED <<plan, Files, brain, at, txn, Snapshots, Outcomes, History>>

\* The facts go into the Project Brain, which no longer is the approved one.
PromotionPasses ==
  /\ pc = "promote"
  /\ \A n \in Nodes : Fresh(n)
  /\ brain' = FALSE
  /\ pc' = "reenter"
  /\ UNCHANGED <<plan, Files, at, txn, Snapshots, Outcomes, root, History>>

\* run_verified_state_reentry after the promotion.
Reenter ==
  /\ pc = "reenter"
  /\ \E terminal \in {"APPROVED_EXECUTION_VERIFIED_AND_PROMOTED", "POST_PROMOTION_REENTRY_FAILED"} :
       root' = [root EXCEPT !.terminal = terminal]
  /\ pc' = "end"
  /\ UNCHANGED <<plan, Files, brain, at, txn, Snapshots, Outcomes, History>>

-----------------------------------------------------------------------------
(* The rest of the world.                                                  *)

\* The user, a command of a verifier, or another program writes a file.
OtherWrites(p, c) ==
  /\ pc # "end"
  /\ disk[p] # c
  /\ disk' = [disk EXCEPT ![p] = c]
  /\ touched' = touched \cup {p}
  /\ UNCHANGED <<plan, brain, pc, at, txn, Snapshots, Outcomes, root, History>>

\* Another process promotes something into the same Project Brain.
BrainChanges ==
  /\ pc # "end"
  /\ brain
  /\ brain' = FALSE
  /\ UNCHANGED <<plan, Files, pc, at, txn, Snapshots, Outcomes, root, History>>

\* The steps of the program itself, but for the writes of a Worker.
Step ==
  \/ GateBlocks \/ CouplingBlocks \/ GateAllows
  \/ DependencyBlocks \/ NoWorkerNeeded \/ MissionFails \/ Begin
  \/ AuditBlocks \/ AuditAllows \/ RecheckBlocks \/ StartWorker
  \/ WorkerFails \/ WorkerReturns \/ Judge \/ VerificationFails \/ VerificationPasses \/ Commit
  \/ IntegrationFails \/ IntegrationPasses \/ PromotionFails \/ PromotionPasses \/ Reenter

Next ==
  \/ Step
  \/ \E p \in Paths, c \in Contents : Write(p, c) \/ OtherWrites(p, c)
  \/ BrainChanges

\* The program is one thread that always takes its next step, and a Worker's
\* loop is bounded (LeafReturns of module LeafEngine): it ends.
Spec == Init /\ [][Next]_vars /\ WF_vars(Step)

-----------------------------------------------------------------------------
(* Properties.                                                             *)

Places == {"gate", "next", "audit", "recheck", "work", "judge", "verify", "commit",
           "promote", "reenter", "end"}

Terminals ==
  LifecycleFailures \cup
  {"none", "SEMANTIC_COUPLING", "EXECUTION_DEPENDENCY_BLOCKED", "IMPACT_MISMATCH",
   "VERIFICATION_PASSED"}

RootTerminals ==
  LifecycleFailures \cup
  {"none", "EXECUTION_AUTHORIZATION_BLOCKED", "INTEGRATION_FAILED", "PARENT_VERIFIED",
   "PROMOTION_PRECONDITION_FAILED", "PROMOTION_FAILED", "POST_PROMOTION_REENTRY_FAILED",
   "APPROVED_EXECUTION_VERIFIED_AND_PROMOTED"}

Statuses == {"none", "done", "blocked", "failed"}

\* What a receipt may record of the files.
States == UNION {[ps -> Contents] : ps \in SUBSET Paths}

Results == [status : Statuses, terminal : Terminals]

\* Type invariant.
TypeOK ==
  /\ plan \in Plans
  /\ disk \in [Paths -> Contents] /\ brain \in BOOLEAN
  /\ pc \in Places /\ at \in 1 .. N + 1
  /\ txn \in Nodes \cup {None}
  /\ before \in [Paths -> Contents] /\ after \in [Paths -> Contents]
  /\ results \in [Nodes -> Results]
  /\ receipts \in [Nodes -> {NoReceipt} \cup [verified : {TRUE}, state : States]]
  /\ \A n \in Nodes : receipts[n].verified => receipts[n].state \in [Dependencies(n) -> Contents]
  /\ root \in [status : Statuses, terminal : RootTerminals]
  /\ worked \in SUBSET Nodes
  /\ audited \in [Nodes -> {<<>>} \cup [Paths -> Contents]]
  /\ touched \in SUBSET Paths

\* A Worker only ever starts over contracts that are done, and on the files the
\* user approved, whatever another Worker, the user or another process did before,
\* up to the call of the model (the audit, the start receipt, and the audit repeated
\* in execute_agent_task).
WorkersStartFromApproval ==
  [][\A n \in worked' \ worked :
       /\ \A d \in C(n).deps : results[d].status = "done"
       /\ brain
       /\ \A p \in C(n).scope \cup plan.dnt : disk[p] = Approved[p]]_vars

Promoted == root.terminal = "APPROVED_EXECUTION_VERIFIED_AND_PROMOTED"

\* All that a graph that ends verified and promoted changed is in the scope of one
\* contract, and not protected, unless somebody else wrote the file: no two
\* Workers change files under one approval, whatever the graph plans.
PromotedChangesAreApproved ==
  Promoted =>
    \E n \in worked : \A p \in Paths \ touched :
      disk[p] # Approved[p] => p \in C(n).scope \ plan.dnt

\* What a promoted graph was verified on is what is there when it is promoted: no
\* later contract changed a file that the evidence of an earlier one is about,
\* unless somebody else wrote it.
PromotedWorkStands ==
  [][pc = "promote" /\ pc' = "reenter" =>
       \A n \in Nodes, p \in Paths \ touched :
         n \in worked /\ (p \in Dependencies(n) => disk[p] = audited[n][p])]_vars

\* A transaction that is left open when the lifecycle is over was refused by the
\* audit: no Worker wrote anything in it, so nothing is lost when the next one
\* closes it.
OpenTransactionsAreUnused ==
  pc = "end" /\ txn # None =>
    /\ txn \notin worked
    /\ results[txn] = Result("blocked", "REAPPROVAL_REQUIRED")

\* The lifecycle comes to its end.
LifecycleEnds == <>(pc = "end")

=============================================================================
