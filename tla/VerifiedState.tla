---------------------------- MODULE VerifiedState ----------------------------
(***************************************************************************)
(* What the program takes for verified, from one task to the next: the     *)
(* receipts of the children of a parent task, the readiness gate and the   *)
(* aggregation of the parent (integration_gate.py), the promotion of the   *)
(* verified parent into the facts of the Project Brain (promotion.py and   *)
(* commit_verified_promotion of memory.py), and the re-entry that decides  *)
(* which of the stored facts a new task may take as current (reentry.py).  *)
(*                                                                         *)
(* Every hash of the code is an identity here: the hash of a set of files  *)
(* is the versions of their contents, the hash of a fact is the fact with  *)
(* the receipt it cites, and a receipt is named by its task.               *)
(***************************************************************************)
EXTENDS Naturals, FiniteSets

CONSTANTS
  Paths, Versions,   \* the files of the workspace and what they may contain
  Children,          \* the required children of every task
  Mutates,           \* Mutates[c]: the files child c may change
  Reads,             \* Reads[c]: the other files its evidence depends on
  Topics, Claims,    \* the conflict keys of requirement facts and what they may say
  Test,              \* the conflict key, and the claim, of a passed integration test
  Contracts,         \* the requirement facts a task may be approved with
  MaxTasks,          \* bound on the tasks of a behaviour; the next only starts
  MaxRecords,        \* MAX_PROJECT_BRAIN_RECORDS of reentry.py
  MaxCurrent,        \* MAX_CURRENT_VERIFIED_FACTS
  NoChange           \* a promotion without an approved authority change

ASSUME VerifiedStateAssumption ==
  /\ Mutates \in [Children -> SUBSET Paths]
  /\ Reads \in [Children -> SUBSET Paths]
  /\ Test \notin Topics
  /\ Contracts \subseteq SUBSET [topic : Topics, claim : Claims]
  /\ MaxTasks \in Nat /\ MaxRecords \in Nat /\ MaxCurrent \in Nat

VARIABLES
  disk,        \* the files of the workspace
  task,        \* the task under way
  contract,    \* the requirement facts of its approved contract
  children,    \* what its children returned: their evidence and their receipts
  gate,        \* the parent: not ready yet, found ready, its own check run, or integrated
  check,       \* the bytes that check ran on
  receipts,    \* the parent verification receipt of each task
  status,      \* project_brain_facts: the status of each row
  supersedes,  \* ... and its supersedes_json
  promotions,  \* promotions: the candidates committed
  completions, \* task_brain_completions: the records each task points to
  brain        \* the verified facts of the last fresh Task Brain

vars == <<disk, task, contract, children, gate, check, receipts, status, supersedes, promotions,
          completions, brain>>

Tasks == 1 .. MaxTasks

\* fact_hash: what is said, and the receipt of the task it was verified by.
Facts == [topic : Topics, claim : Claims, task : Tasks]
         \cup [topic : {Test}, claim : {Test}, task : Tasks]

\* durability_class: STATE_BOUND_VERIFIED, or DURABLE_VERIFIED for a requirement.
StateBound(f) == f.topic = Test

\* semantic_hash
SameSemantic(f, g) == f.topic = g.topic /\ f.claim = g.claim

Contradicts(f, g) == f.topic = g.topic /\ f.claim # g.claim

Dependencies(c) == Mutates[c] \cup Reads[c]

\* fingerprint_dependency_paths
Fingerprint(ps) == [p \in ps |-> disk[p]]

Fresh(state) == \A p \in DOMAIN state : disk[p] = state[p]

\* The bytes a check ran on are kept as history: tested, of a child and of a receipt, and
\* check.  A file somebody writes before the receipt on that check is fingerprinted is left
\* out from then on, for the receipt takes it as it is.
Without(tested, p) == [q \in DOMAIN tested \ {p} |-> tested[q]]

NotRun == [status |-> "pending", proof |-> "none", state |-> <<>>, tested |-> <<>>]

NoReceipt == [verified |-> FALSE, state |-> <<>>, tested |-> <<>>]

NoFacts == [completed |-> FALSE, records |-> {}]

Init ==
  /\ disk \in [Paths -> Versions]
  /\ task = 1
  /\ contract \in Contracts
  /\ children = [c \in Children |-> NotRun]
  /\ gate = "closed" /\ check = <<>>
  /\ receipts = [t \in Tasks |-> NoReceipt]
  /\ status = [f \in Facts |-> "absent"]
  /\ supersedes = [f \in Facts |-> {}]
  /\ promotions = {}
  /\ completions = [t \in Tasks |-> NoFacts]
  /\ brain = {}

Brain == <<status, supersedes, promotions, completions>>

-----------------------------------------------------------------------------
(* The workspace.                                                          *)

\* The user, or another program, writes a file; which no evidence notices.
Edit(p, v) ==
  /\ task \in Tasks
  /\ disk[p] # v
  /\ disk' = [disk EXCEPT ![p] = v]
  /\ children' = [c \in Children |->
       IF children[c].status = "ran" THEN [children[c] EXCEPT !.tested = Without(@, p)]
       ELSE children[c]]
  /\ check' = Without(check, p)
  /\ UNCHANGED <<task, contract, gate, receipts, Brain, brain>>

\* What a child returns: its verified receipt, with its evidence for the route of
\* the parent, or no verified receipt.
Outcomes == [status : {"verified"}, proof : {"pass", "fail", "none"}]
            \cup [status : {"unverified"}, proof : {"none"}]

\* A child runs, after the one before it returned: it writes its files, and then its
\* verification takes the evidence.
RunChild(c) ==
  /\ task \in Tasks /\ gate = "closed"
  /\ children[c].status = "pending" /\ \A d \in Children : children[d].status # "ran"
  /\ \E written \in [Mutates[c] -> Versions] :
       disk' = [p \in Paths |-> IF p \in Mutates[c] THEN written[p] ELSE disk[p]]
  /\ children' = [children EXCEPT ![c] =
       [NotRun EXCEPT !.status = "ran", !.tested = [p \in Dependencies(c) |-> disk'[p]]]]
  /\ UNCHANGED <<task, contract, gate, check, receipts, Brain, brain>>

\* _stage5b_child_receipt, once the child reached its end: it fingerprints the files as they
\* are now, which nothing compares with those the evidence was taken on.
ReturnChild(c) ==
  /\ task \in Tasks
  /\ children[c].status = "ran"
  /\ \E outcome \in Outcomes :
       children' = [children EXCEPT ![c] =
         [status |-> outcome.status, proof |-> outcome.proof,
          state  |-> IF outcome.status = "verified" THEN Fingerprint(Dependencies(c)) ELSE <<>>,
          tested |-> IF outcome.proof = "pass" THEN @.tested ELSE <<>>]]
  /\ UNCHANGED <<disk, task, contract, gate, check, receipts, Brain, brain>>

-----------------------------------------------------------------------------
(* The parent.                                                             *)

Verified(c) == children[c].status = "verified"

\* assess_integration_readiness: every required child returned a verified
\* receipt, and the files under it are as they were.
Ready ==
  Children # {} /\ \A c \in Children : Verified(c) /\ Fresh(children[c].state)

\* aggregate_parent_integration on the evidence of the children: a failed check
\* of the required route outweighs any passed one.
IntegrationPasses ==
  /\ \E c \in Children : children[c].proof = "pass"
  /\ \A c \in Children : children[c].proof # "fail"

ParentPaths == UNION {Dependencies(c) : c \in Children}

\* _stage5b_parent_readiness.  A parent that is not ready goes no further, so that is no step.
OpenGate ==
  /\ task \in Tasks /\ gate = "closed"
  /\ Ready
  /\ gate' = "ready"
  /\ UNCHANGED <<disk, task, contract, children, check, receipts, Brain, brain>>

\* _execute_resolved_parent_verification: under the resolved target policy the parent runs
\* checks of its own.  Each compares the files before and after it; a write between two of
\* them, or after the last, it does not see.
CheckParent ==
  /\ task \in Tasks /\ gate = "ready"
  /\ gate' = "checked" /\ check' = Fingerprint(ParentPaths)
  /\ UNCHANGED <<disk, task, contract, children, receipts, Brain, brain>>

\* What the evidence that passes the parent's route ran on: its own, or that of a child.
Proofs ==
  IF gate = "checked" THEN {check}
  ELSE {children[c].tested : c \in {d \in Children : IntegrationPasses /\ children[d].proof = "pass"}}

\* _parent_receipt fingerprints the dependencies of all the children again.
ParentReceipt(tested) ==
  [verified |-> TRUE, state |-> Fingerprint(ParentPaths), tested |-> tested]

\* _aggregate_stage5b_parent, from aggregate_parent_integration on.  A parent whose plan is no
\* longer the approved one, or whose route fails, has no receipt.
Integrate ==
  /\ task \in Tasks /\ gate \in {"ready", "checked"}
  /\ receipts' \in {receipts}
       \cup {[receipts EXCEPT ![task] = ParentReceipt(tested)] : tested \in Proofs}
  /\ gate' = "integrated" /\ check' = <<>>
  /\ children' = [c \in Children |-> [children[c] EXCEPT !.tested = <<>>]]
  /\ UNCHANGED <<disk, task, contract, Brain, brain>>

-----------------------------------------------------------------------------
(* Promotion.                                                              *)

\* assess_promotion_eligibility: the parent's receipt and those of its children,
\* against the files as they are now.
Eligible ==
  /\ task \in Tasks
  /\ receipts[task].verified
  /\ Fresh(receipts[task].state)
  /\ \A c \in Children : Verified(c) /\ Fresh(children[c].state)

Active == {f \in Facts : status[f] = "ACTIVE"}

Rows == {f \in Facts : status[f] # "absent"}

\* build_promotion_candidate: the requirements of the contract, and the test.
CandidateFacts ==
  {[topic |-> s.topic, claim |-> s.claim, task |-> task] : s \in contract}
  \cup {[topic |-> Test, claim |-> Test, task |-> task]}

\* An active row with the same fact_hash is kept, the others are to be inserted.
NewFacts == CandidateFacts \ Active

\* Which of several active rows of a topic conflict_by_key holds.
LastActive == {last \in [{f.topic : f \in Active} -> Active] : \A k \in DOMAIN last : last[k].topic = k}

\* The active rows fact f takes the place of: the one that says the same, and the
\* one conflict_by_key holds for its key, which an approved change named.
SupersededBy(f, last) ==
  {g \in Active : SameSemantic(f, g)}
  \cup {g \in {last[k] : k \in DOMAIN last} : Contradicts(f, g)}

\* Mutant: rows that say the same are left active.
SupersededKept(last) ==
  {g \in {last[k] : k \in DOMAIN last} : \E f \in NewFacts : Contradicts(f, g)} \ CandidateFacts

\* Rows kept because the candidate has them too are never superseded.
Superseded(last) == (UNION {SupersededBy(f, last) : f \in NewFacts}) \ CandidateFacts

\* Mutant: an active fact gives way to whatever is promoted after it.
ConflictsNever(last, change) == FALSE

\* A new fact contradicts the active one of its topic, and the approved change
\* does not name it; or, with none active, another fact of the candidate.
Conflicts(last, change) ==
  \E f \in NewFacts :
    IF f.topic \in DOMAIN last
    THEN Contradicts(f, last[f.topic]) /\ last[f.topic] # change
    ELSE \E g \in NewFacts : Contradicts(f, g)

\* The primary key and UNIQUE(project_id, fact_hash) refuse a fact that was
\* stored before and is no longer active.
Insertable == \A f \in NewFacts : status[f] = "absent"

\* The transaction of commit_verified_promotion for a candidate it has not seen,
\* with or without the completion of the task.
Commit(change, last) ==
  /\ ~Conflicts(last, change)
  /\ Insertable
  /\ status' = [f \in Facts |-> IF f \in Superseded(last) THEN "SUPERSEDED"
                                ELSE IF f \in NewFacts THEN "ACTIVE"
                                ELSE status[f]]
  /\ supersedes' = [f \in Facts |-> IF f \in NewFacts THEN SupersededBy(f, last) ELSE supersedes[f]]
  /\ promotions' = promotions \cup {[task |-> task, change |-> change, records |-> NewFacts]}
  /\ completions' \in {completions, [completions EXCEPT ![task] = [completed |-> TRUE, records |-> NewFacts]]}

\* The promotions table holds one row of each candidate.
Promoted(change) == {p \in promotions : p.task = task /\ p.change = change}

\* Mutant: the completion is rebuilt from what the candidate would insert now.
RebuiltFromCandidate(p) == [completed |-> TRUE, records |-> NewFacts]

\* The completion of a promotion that was committed without one.
Rebuilt(p) == [completed |-> TRUE, records |-> p.records]

\* The same candidate again changes nothing but a completion that is missing.
AlreadyPromoted(change) ==
  /\ ~completions[task].completed
  /\ \E p \in Promoted(change) : completions' = [completions EXCEPT ![task] = Rebuilt(p)]
  /\ UNCHANGED <<status, supersedes, promotions>>

\* promote_verified_parent.  A candidate that is not eligible, a conflict, an
\* integrity error or an unavailable store leave everything as it was, so they
\* are no step.
Promote(change) ==
  /\ Eligible
  /\ IF Promoted(change) # {} THEN AlreadyPromoted(change)
     ELSE \E last \in LastActive : Commit(change, last)
  /\ UNCHANGED <<disk, task, contract, children, gate, check, receipts, brain>>

\* mark_stale_verified_facts, for a caller that knows which files changed.
MarkStale(ps) ==
  /\ task \in Tasks
  /\ status' = [f \in Facts |->
       IF status[f] = "ACTIVE" /\ StateBound(f) /\ ps \cap DOMAIN receipts[f.task].state # {}
       THEN "STALE" ELSE status[f]]
  /\ UNCHANGED <<disk, task, contract, children, gate, check, receipts, supersedes, promotions,
                 completions, brain>>

-----------------------------------------------------------------------------
(* Re-entry.                                                               *)

\* _snapshot_records: the first records in the order of their ids, hashes.
Considered == {c \in SUBSET Rows : \/ c = Rows /\ Cardinality(c) <= MaxRecords
                                   \/ Cardinality(c) = MaxRecords}

\* _superseded_by_other
SupersededByOther(f, considered) ==
  \E g \in considered \ {f} : status[g] # "SUPERSEDED" /\ f \in supersedes[g]

\* _contradictory_active_authority: neither of two active requirements that
\* contradict each other is taken.
Contradicted(f, considered) ==
  ~StateBound(f) /\ \E g \in considered : status[g] = "ACTIVE" /\ Contradicts(f, g)

\* Mutant: an active row is current, whatever else is active.
CurrentByStatus(considered) ==
  {f \in considered : status[f] = "ACTIVE" /\ (StateBound(f) => Fresh(receipts[f.task].state))}

\* Mutant: a test once passed stays current.
CurrentForever(considered) ==
  {f \in considered :
     status[f] = "ACTIVE" /\ ~SupersededByOther(f, considered) /\ ~Contradicted(f, considered)}

\* _reconcile_internal: CURRENT_VERIFIED and CURRENT_DURABLE_AUTHORITY.
Current(considered) ==
  {f \in considered :
     /\ status[f] = "ACTIVE"
     /\ ~SupersededByOther(f, considered)
     /\ ~Contradicted(f, considered)
     /\ StateBound(f) => Fresh(receipts[f.task].state)}

\* The next task of the project begins with run_verified_state_reentry: its Task
\* Brain takes at most MaxCurrent of the current facts, those its wording makes
\* relevant.  It has an approved contract of its own.
Reenter(facts) ==
  /\ task \in Tasks
  /\ \E considered \in Considered : \E chosen \in SUBSET Current(considered) :
       /\ Cardinality(chosen) <= MaxCurrent
       /\ brain' = chosen
  /\ task' = task + 1
  /\ contract' = facts
  /\ children' = [c \in Children |-> NotRun]
  /\ gate' = "closed" /\ check' = <<>>
  /\ UNCHANGED <<disk, receipts, Brain>>

Next ==
  \/ \E p \in Paths, v \in Versions : Edit(p, v)
  \/ \E c \in Children : RunChild(c) \/ ReturnChild(c)
  \/ OpenGate \/ CheckParent \/ Integrate
  \/ \E change \in {f \in Rows : ~StateBound(f)} \cup {NoChange} : Promote(change)
  \/ \E ps \in SUBSET Paths : MarkStale(ps)
  \/ \E facts \in Contracts : Reenter(facts)

Spec == Init /\ [][Next]_vars

-----------------------------------------------------------------------------
(* Properties.                                                             *)

Statuses == {"absent", "ACTIVE", "STALE", "SUPERSEDED"}

\* What a receipt may record of the files.
States == UNION {[ps -> Versions] : ps \in SUBSET Paths}

\* Type invariant.
TypeOK ==
  /\ disk \in [Paths -> Versions]
  /\ task \in 1 .. MaxTasks + 1
  /\ contract \in Contracts
  /\ children \in [Children -> [status : {"pending", "ran", "verified", "unverified"},
                                proof : {"pass", "fail", "none"}, state : States,
                                tested : States]]
  /\ \A c \in Children : Verified(c) => children[c].state \in [Dependencies(c) -> Versions]
  /\ gate \in {"closed", "ready", "checked", "integrated"} /\ check \in States
  /\ receipts \in [Tasks -> [verified : BOOLEAN, state : States, tested : States]]
  /\ status \in [Facts -> Statuses]
  /\ supersedes \in [Facts -> SUBSET Facts]
  /\ promotions \in SUBSET [task : Tasks, change : Facts \cup {NoChange}, records : SUBSET Facts]
  /\ completions \in [Tasks -> [completed : BOOLEAN, records : SUBSET Facts]]
  /\ brain \in SUBSET Facts

\* At most one row of the facts table is ACTIVE for each thing it says, whatever
\* is promoted and promoted again (commit_verified_promotion supersedes the row of
\* the same semantic_hash).
OneActivePerSemantic ==
  \A f, g \in Active : SameSemantic(f, g) => f = g

\* A requirement that was approved stops being ACTIVE only when the same is
\* promoted again, or when the promotion carries an approved change that names it.
AuthorityChangesOnlyByApproval ==
  [][\A f \in Active :
       ~StateBound(f) /\ status'[f] # "ACTIVE" =>
         \/ \E g \in Facts : SameSemantic(f, g) /\ g # f /\ status'[g] = "ACTIVE"
         \/ \E p \in promotions' \ promotions : p.change = f]_vars

\* The verified facts a new task starts from never contradict each other, though
\* the table may hold ACTIVE rows that do.
NeverContradictory == \A f, g \in brain : ~Contradicts(f, g)

\* A test that re-entry reports as passed was run on the bytes that are on the disk at that
\* moment: no write of the user or of another child after the receipts were fingerprinted
\* goes unnoticed through readiness, aggregation, promotion, storage and re-entry.  The files
\* written between a check and the receipt that cites it are excepted: the receipt takes
\* them as they are (create_verified_child_receipt, _parent_receipt), though the check ran
\* on what they were before.
EvidenceStandsOnCurrentBytes ==
  [][task' # task =>
       \A f \in brain' : StateBound(f) =>
         \A p \in DOMAIN receipts[f.task].tested : disk[p] = receipts[f.task].tested[p]]_vars

\* What became history stays history: a row that was superseded or marked stale is
\* never ACTIVE again, however often its task is promoted again.
HistoryIsFinal ==
  [][\A f \in Rows : status[f] # "ACTIVE" => status'[f] = status[f]]_vars

\* A completed task points to rows that one committed promotion of that task
\* inserted, and they are still in the table, as provenance if no longer current.
CompletionBacked ==
  \A t \in Tasks : completions[t].completed =>
    \E p \in promotions : /\ p.task = t
                          /\ p.records = completions[t].records
                          /\ p.records \subseteq Rows

=============================================================================
