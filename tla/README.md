# Verification project for mini_hivo

TLA+ models of mini_hivo's execution core, TLC configurations that check them on
small instances, and TLAPS proofs of their main safety properties for every
value of the constants. All line numbers are those of the modelled commit; the
exact lines behind each definition are in `PROJECT.json` under `map`.

## 1. The system and its parts

mini_hivo is a single-process, single-threaded Python program (`mini.py`, with
the `hivo` package) that lets a local language model carry out a coding task in
a workspace. The model only ever *answers*; every step is chosen, bounded and
judged by the program.

| Component | State | Operations | Interacts with | Hard behaviour |
|---|---|---|---|---|
| Workspace transactions and mutation tools (`mini.py` 1109-1226, 1535-1689) | `ACTIVE_TRANSACTION`, files, backups | capture, write, edit, commit, rollback | leaf engine calls it; memory store records ownership | kills at any moment, failing restores, a user editing the same files |
| Artifact ledger (`hivo/memory.py` 126-424) | SQLite tables `artifacts`, `runs`, `run_events` | mark, refresh, verify, reconcile, recover at start-up | mutation tools, rollback, start of a process | several SQLite transactions per tool call, rows older than the file |
| Leaf engine (`mini.py` 13912-20411) | locals of `execute_leaf` and of the tool loop, evidence lists, context gate | Builder, Falsifier, Repairer, browser check, evidence gate, classification, repair | transaction, verifiers, model | some twenty returns, status overwritten late, evidence superseded |
| Task tree (`mini.py` 22181-23167, 11471-12753, 21294-22140) | `TASKS`, `RUN` counters, the recursion of `solve_task` | fit, split, re-split, alternatives, child scheduler, aggregation, integration tasks | leaf engine at its leaves, coupling analysis at its splits | budgets consumed in five places, dependencies between siblings, partial failure |
| Semantic coupling (`hivo/semantic_coupling.py`) | per-task plan | accept, merge or refuse a split | task tree | refusal must hold on every path |
| Approved plan graph and approval lifecycle (`mini.py` 23174-24272, `approval_bound_execution.py`, `execution_contracts.py`, `execution_invariants.py`, `precommit_invariant_gate.py`) | results and receipts of the contracts, subject snapshots, the open transaction | gate, audit, Worker, mutation audit, verification, receipt, integration, promotion, re-entry | leaf engine, memory | what was audited is not what the Worker, the receipt or the promotion sees, because somebody else writes meanwhile |
| Integration (`integration_gate.py`, `integration_targets.py`, `atomic_child_receipt.py`) | child and parent receipts | readiness gate, aggregation | task tree, leaf engine, approved graph | a receipt is older than the files |
| Memory, promotion, re-entry (`memory.py` 427-1400, `promotion.py`, `reentry.py`) | fact rows, promotions, completions in SQLite | promote, supersede, mark stale, rebuild a completion, re-enter | approval lifecycle, integration | repeated and conflicting promotions, a Brain of more records than re-entry reads |
| Project store (`projects.py`) | project records and sessions | select, resume | command line | resume of half-written state |
| Project builder, CORE-6 (`project_builder.py`, `generation_*.py`, `core_orchestrator.py` build) | completed units, subject hash, repository map, checkpoints | generate, apply, reject, checkpoint, resume, staged build | validators, provider | resume of another plan, of a sandboxed run or of other files; kills and refusals half-way |
| Repository intelligence and repair search, CORE-1..5 (`core_orchestrator.py` maintain, `patch_search.py`, `patch_candidates.py`) | phases and budgets of an execution, the problem and the candidates, the staged copy, the repository map, the Brain's entities | localize, experiment, search, select, stage, verify, copy, index, remember | caller's checkers and gates, providers, project files | candidates older than the project, a user who edits in between, budgets shared by search and application, errors half-way |
| Worker progress and grounding (`worker_progress.py`, `mutation_*.py`) | counters of one tool loop | stop or continue a Worker | leaf engine | counters reset at the wrong time |
| Recovery (`recovery.py`, `mini.py` 13646-15672) | `recovery_state` of one Worker, the tools it is offered; candidate snapshots of a search | switch the mechanism, guide, re-anchor, reorient, repair a completion, try a strategy | leaf engine's tool loop, task tree | five observers with counters of their own, tools computed at some events and used at others |
| Verification and evidence (`verification*.py`, `evidence*.py`) | evidence lists | run a verifier, keep the latest evidence | leaf engine | stale or rejected evidence |
| Planning and project understanding; browser, host, HTTP, model policy; command line | none of interest | text analysis, I/O | all | - |

What would make each correct: the *transaction* is all or nothing and never
destroys what the user wrote; the *ledger* never calls a user's or a verified
file a draft; a *leaf* says "done" exactly when it committed, and commits nothing
refuted, ungrounded or after an environment failure; the *tree* stays within its
limits, respects dependencies, is verified only over verified work, lets
independent siblings run, counts each outcome once, and ends; an *approved graph*
changes what was approved, starting from the bytes that were approved, and is
promoted on evidence that still stands; the *Brain* hands to the next task facts
that do not contradict each other and tests that were run on the bytes that are
there; a *recovery Worker* adapts only to what really repeated itself, once each,
and is offered the tools of its strategy and of no other; a *repair* puts into the project
only bytes that were verified, over the bytes its candidate was made for, and says so truly; the *builder* resumes, promotes and reports only what is on disk. The list of what
could break these is `hazards` in `PROJECT.json`, each with the properties that
would show it.

## 2. Modules

| Module | What it is |
|---|---|
| `AtomicLeaf` | abstract specification: a leaf changes the project at once or not at all, except for the breaches it names |
| `WorkspaceTransaction` | mutation tools, transaction, backups, artifact ledger, runs, kills and the user's editor |
| `MCWorkspaceTransaction` | small instance: when the user edits |
| `WorkspaceTransactionProofs` | its theorems |
| `LeafEngine` | one leaf or integration leaf from `begin_transaction` to its result |
| `MCLeafEngine` | small instances: checks, failure texts and what they mean |
| `LeafEngineProofs` | its theorems |
| `TaskTree` | `solve_task` and everything it calls between leaves |
| `TaskTreeProofs` | its theorems: types and bounds, dependencies, splits, batches and the node counters |
| `VerifiedState` | receipts, readiness gate, promotion into the Brain, re-entry |
| `MCVerifiedState` | small instance: children, their files and contracts |
| `VerifiedStateProofs` | its theorems |
| `ApprovedGraph` | the execution of an approved plan graph while others write |
| `MCApprovedGraph` | small instance: pairs of contracts of every kind |
| `ApprovedGraphProofs` | its theorems |
| `ProjectBuilder` | the incremental builder, its checkpoints and the staged build |
| `MCProjectBuilder` | small instance: four plans over three units |
| `ProjectBuilderProofs` | its theorems |
| `RecoveryWorker` | the Builder's tool loop under a recovery strategy, with the observers that adapt it |
| `MCRecoveryWorker` | small instance: three mechanisms, two files |
| `RecoveryWorkerProofs` | its theorems |
| `PatchRepair` | the coordinator's maintenance: patch search, staged application, index and Brain |
| `MCPatchRepair` | small instance: three patches over three files |
| `PatchRepairProofs` | its theorems |

Definitions whose comment begins with "Mutant:" are plausible bugs of the
definition that follows them. They are used by no specification; each is put in
the place of the original to see that the property it is listed with (under
`mutants`) then fails.

### WorkspaceTransaction

`disk` is the workspace, `txn`/`snap` is `ACTIVE_TRANSACTION`, `ledger` the rows
of table `artifacts` with owner `model`, `written`/`orphaned` the successful
`write_file` events of the run under way and of runs that never got a final
status (what `_recover_interrupted_artifacts` reads), `kept`/`savedHere` the
backups. A tool call is two steps, the change of the file (`WriteFile`,
`EditFile`) and `UpdateMemory`, because the event and the ownership row are
stored after it, in separate SQLite transactions whose errors are swallowed: a
kill, or a failure, between them is part of the model. A rollback is one step per
file (`RestoreFile`), which may fail alone (`RestoreFails`, an `OSError`) or end the
process (`RestoreAborts`, an error of SQLite). `Crash` may come at any moment.

A text is a version and one bit: whether the user's hand is still in it. A
focused edit keeps the bit, a write of the whole file clears it. `UserMoments`
says when the user may edit: between runs, between leaves, inside a leaf. Backups
after the first of a run are named after the second and can overwrite each
other, so they are not counted as kept. `base`, `outcome`, `lost` and `userText`
are history for the properties.

### LeafEngine

`pc` is the place in `execute_leaf`/`execute_integration_leaf`; `role` and `loop`
are one call of `execute_agent_task`; `log` and `falsLog` are the latest
verification evidence per check. The model's answers are the nondeterminism: at
each step the agent may answer without a tool, check its context, edit, fail to
edit, call another tool, verify with any result, be stopped by the progress
guard, or the provider fails. The two pre-mutation gates are their verdicts
(`ctx`, `impact`). Several tool calls in one answer are several steps.
`version` and `outages` are history.

### TaskTree

A task is the number of its creation. `tasks` is the ledger, `frames[t]` the call
of `solve_task` for `t` (its depth argument, its structural fit, the loop it is
in), `current` the innermost call. A call for a task is always made from the call
for its parent, so the calls under way are the ancestors of `current` and no
stack is needed. A leaf is its result (module `LeafEngine` is what is behind
it); the model's decompositions are the number of children and their explicit
dependencies; the coupling analysis is its verdict (accepted, merged into one,
refused), taken in the same step as the split it judges. `branch` and
`alternatives` number the decompositions of a parent, so that properties can
speak of the last one. `counted` are the run's node counters.

### VerifiedState

One parent task at a time. A child runs to its evidence (`RunChild`); its receipt comes
later and fingerprints the files as they are then (`ReturnChild`). The parent's gate opens
when every child is verified and its receipt still matches the files (`Ready`,
`OpenGate`); the parent runs checks of its own, under the resolved target policy
(`CheckParent`), or takes those of its children (`Proofs`), and its receipt fingerprints
the files once more (`Integrate`). Between any two of these steps anybody may write. The
verified parent is promoted (`Promote`, `commit_verified_promotion`): its facts
become rows of the Brain, active rows that say the same are kept, rows that say
otherwise conflict unless the promotion carries an approved change, and the
completion points to the rows. A promotion can be repeated (`AlreadyPromoted`
rebuilds the completion from the stored promotion). `Reenter` is the start of
the next task: rows of files that changed become stale, at most `MaxRecords`
rows are considered and at most `MaxCurrent` are handed on. `Edit` changes a
file at any moment. Every hash of the code (fact, semantic, receipt, fingerprint)
is the identity of what it hashes.

`tested` and `check` are history: the bytes a check ran on. A file written between a
check and the fingerprint of the receipt that cites it is dropped from them (`Without`),
because the code takes it as it finds it. So `EvidenceStandsOnCurrentBytes` speaks of
writes after the receipts; if `Edit` did not drop such files from `tested` of a child, or
from `check`, TLC would find it violated. The children of a task run one after the other;
what a leaf itself writes after its evidence is the matter of `LeafEngine`. The gate is
looked at again only by the parent's promotion, which compares the receipts with the files.

### ApprovedGraph

`pc`/`at` is the place of the lifecycle and the contract it is at. A contract is
its kind, its mutation scope, its dependencies, what its evidence reads and what
its audit fingerprints; a behaviour starts from one of `Plans`. Each contract is
audited (`AuditAllows`), started (`StartWorker`, after the last look at the
subject), written by its Worker (`Write`), judged by comparing the subject before
and after (`Judge`), verified and committed with a receipt. Every failure ends
the graph (`Finish`), and the result says whether the transaction was closed.
`OtherWrites` and `BrainChanges` are everybody else: the user, a verifier's
command, another process, at any moment.

What the module shows of the code besides its properties: at most one mutating
Worker can run under an approval, because every contract's subject hash must
equal the approved one; a contract without a Worker leaves no verified receipt,
so a graph that has one is never ready and never promoted; a blocked audit leaves
its transaction open; failures close a transaction without restoring its files; a
failed receipt comes after the commit; and a failed promotion or re-entry leaves
the status done with a failing terminal state. What is written between the
snapshot after the Worker and the receipt is audited by nobody.

### ProjectBuilder

A run generates the units of a plan one by one, those without a verified
dependency later (`PostponeUnit`), resumed ones not at all (`SkipUnit`), in one of
three modes: in a sandbox, applied to the project, or on a staged copy that is
applied to the project after all gates passed (`CoreIntelligenceCoordinator.build`).
`subject` and `map` are what the builder last hashed and indexed, `made` and
`kept` the checkpoints of this run and the one its caller kept, `index` the
coordinator's map. A builder is made anew for each run. The sandbox is left out,
since nothing reads what is put there. `Die` and `DieWriting` are kills, the
second with some of a unit's files written; `Edit` is the user.

Also to be seen in it: the coordinator's build of a resumed generation always
blocks, since it has no candidates for resumed units; files outside the
repository map (not source files) are protected by the subject hash alone, which
is why the properties speak of `Mapped`; `RejectUnit` leaves the files it applied.
The staged copy is not compared with the project again: what the user writes between the
copy (`core_orchestrator.py` 1095) and the application of its units stays, beside units
that were verified without it. The order of units is any order (the code takes a topological one). Writing and
re-indexing a unit is one step with respect to the user.

### RecoveryWorker

`rec` is the `recovery_state` that `execute_agent_task` threads through the
observers of `hivo/recovery.py`, `pc` the place in the tool loop ("answer": the
model is about to answer, "calls": in the middle of the tool calls of an answer),
`left` what `remaining_tool_steps` is computed from, `ctx` and `impact` the two
gates, `offered` the mutation tools among `offered_tools`. An action is one tool
call, or one answer without a call, with *everything* the loop does about it in
the code's order: the progress observer, the search observer, the mutation
observer, the reorientation, the contract and suppression observers, the failure
counts, the browser rules. Which of them an action skips is the code's early
`break`: a switch, an end and a reorientation come before the contract observer, a
context check before all that follow it. `failedEdits` and `stagnant` are the
"too broad" counts, `idle` and `acted` what the end of an answer looks at.

A strategy epoch is the number of switches; a counter that is only compared with
a threshold stops there; the hashed records (patterns, events, decisions) are the
fields of `rec` they are derived from. Authorization, lineage and subject are
taken as valid and fixed, as `execute_agent_task` passes them. `seen` is history:
what happened, noted down without the observers' counters and resets. `seen.since` is
what came between an ambiguous edit and the next: it shows that a context check, the
reorientation (both end the answer before the contract observer's reset), a call without
a name and an answer without a call keep the count of ambiguous edits, and
`AdaptationsAreEarned` allows exactly these. Without any one of them TLC finds it violated.

The module is about one Worker. The state is written to be continued by the next
one, but is not: `execute_approval_bound_worker` returns the Worker's result
inside its own and never has a `recovery_strategy_state` of its own, so the
assignment at `mini.py` 23507 is never reached, and nothing else in the program
sets what the next Worker would read.

### PatchRepair

`pc` is the place in `maintain`, in the search it calls, in `apply_patch_candidate`;
`core` is `CoreExecutionState` with the stages counted, `used` the other budgets,
`search` the locals of `PatchSearchEngine.search`, `box` a sandbox, `stage` the staged
copy. A file's text is one of a few values and an operation of a patch the function
from the texts that hold its anchor once to what it makes of them, which is all
that the anchor rules look at; "does not parse" is a set of texts. The subject hash is
the project itself, the revision the repository map itself. What comes from outside
is a choice: what localization finds, whether experiments run, which candidates the
generators and the model propose, how the checkers, V25.5 and V25.6 answer, and the
ranking. `Raise` is an error at any step. `UserEdit` comes between any two steps;
reading or copying the whole project is one step. `Submit` is the caller handing in
the last winner, in the same coordinator or, after `Restart`, in a new one.

The caller is taken to supply V25.5 and V25.6, as the application requires. Left out are
`max_patch_search_sessions` (`maintain` searches once), the caps on suspects, strategies
and targeted checks (choices of the generators and checkers), and a candidate
identity of the caller's that does not match (a refusal, like others). It can be seen in the
module that project, staged copy and candidate are compared when the gate is passed and never
again: what the user writes while V25.6 runs is overwritten by the copy, and what he writes
after the copy is indexed and remembered as verified. The properties except exactly
these files (`edited`, which the gate empties, and `foreign`). A winner may be one that V25.6 refused in the search,
when no finalist passed; it is verified again before anything is copied.

## 3. What is checked

All runs use the specification as it is: a `.cfg` only gives constants their
values.

| Run | Instance | Result |
|---|---|---|
| `WT_files` | 2 files, 1 version (each with or without the user's hand), user edits between runs | 2.80M states: `UserTextRecoverable`, `RollbackRestores`, `VerifiedRowKept`, `ImplementsAtomicLeaf` |
| `LE_leaf` | both kinds of leaf, 2 checks, 2 texts (one defect, one "no page"), 3 steps, 1 edit, 2 repairs | 1.35M states: `ResultMatchesTransaction`, `ProviderFailureEndsLeaf`, `RefutationBlocksCommit`, `CommitHasSufficientContext`, `VisualFailureTriggersNoEdit`, `LeafReturns` |
| `TT_tree` | depth 2, up to 3 children, 5 tasks (6 with an alternative), 1 alternative | 290k states: `TreeBounded`, `DependenciesDoneFirst`, `DoneOverDone`, `IndependentChildrenRun`, `CountsMatchLedger`, `TreeReturns` |
| `VS_facts` | 2 tasks of 2 children, 1 file of 2 versions (interchangeable: `SYMMETRY`), 4 records considered and 2 handed on | 726k states: `OneActivePerSemantic`, `NeverContradictory`, `CompletionBacked`, `AuthorityChangesOnlyByApproval`, `EvidenceStandsOnCurrentBytes` |
| `AG_graph` | 2 contracts of every kind, 2 files of 2 contents | 400k states: `PromotedChangesAreApproved`, `WorkersStartFromApproval`, `PromotedWorkStands`, `LifecycleEnds` |
| `PB_build` | 2 runs, 4 plans of 3 units (one of 2 files, one of them not indexed), 1 user edit | 281k states: `DependenciesVerified`, `PromotedWorkIsOnDisk`, `CompleteBuildIsOnDisk`, `ResumedWorkIsIntact`, `BuildWritesVerifiedWork`, `EveryRunReturns` |
| `RW_worker` | 1 Worker of 5 answers, 3 mechanisms, 2 files, a reorientation after 2 calls, 3 failed edits or 1 browser failure are too broad | 2.10M states: `OfferedFollowsStrategy`, `AdaptationsAreEarned` |
| `PR_repair` | 2 executions or submissions, 3 files of 6 texts, 3 patches (of two files, of two operations on a file, of a do-not-touch file), 2 full verifications, 1 user edit | 1.01M states: `TypeOK`, `RepairedTreeIsVerified`, `BrainIsFaithful`, `VerificationIsReserved`, `BoundPatchLandsOnItsBase`, `ResultMatchesPhase`, `ProjectWritesAreVerified` |

Runs that are expected to find a violation, each of a sentence the repository
states (details under `findings`):

| Run | Sentence | What happens |
|---|---|---|
| `LE_model` | README 59: model environment failures never trigger application-code edits | a provider failure behind a closed gate is overwritten with "failed" and repaired |
| `LE_repaired` | README 459: committed only after a Falsifier pass | the gate after a repair does not see the Falsifier's refutation |
| `TT_refused` | comment at `mini.py` 12136: a refused split never reaches a Worker | the re-split paths do not look at the refusal |
| `PB_dry` | `tests/test_core6_large_project_incremental_builder.py` 159: an applied, complete generation changed the subject and its files exist | the checkpoint of a sandboxed run is accepted by an applied run, which writes nothing |

Further disagreements, seen while modelling, without a run of their own:

* a repair with failure evidence whose candidates are all rejected raises a
  `NameError`: the feedback is built by `adapt_candidate_failure`, which nothing defines
  (`core_orchestrator.py` 1299; 1303 says that "bounded diagnostic feedback is
  available"). `Choose` has this outcome;
* `apply_selected_patch_candidate` "rechecks all anchors" (`patch_search.py` 3-5) one by
  one, and then applies the operations in sequence, dropping the reason of one that no
  longer fits (683). A candidate that names no base, whose file is edited after its
  evaluation, is so staged, verified, applied and reported complete with an operation
  left out. `AppliesAlone` and `Apply` are this difference;
* the "hard integration bounds" (`core_execution.py` 122) do not stop an execution:
  `maintain` ignores what `_transition` returns, so past `max_core_stages` the state is
  BLOCKED while the patch is applied and the result is complete. `PR_repair` has
  `MaxStages = 16`, the default, which no execution reaches; with 3, `ResultMatchesPhase`
  fails. These three were also seen by running the code;
* `commit_transaction` and `mark_artifacts_verified` are two steps, and the
  exception of the second is swallowed: after a kill or an error between them
  `write_file` replaces committed work (README 57: verified files require
  `edit_file`);
* when the guidance or the re-anchor of a recovery Worker is spent, the observer
  stores a terminal but does not return it, so the test at `mini.py` 15468 never
  fires: the Worker goes on, a later committed mutation ends it as failed with that
  terminal, and it can still end done. The feedback it is given says that "the Worker
  cannot continue with an obsolete tool contract" (`recovery.py` 1886-1890);
* "a contract failure must be consecutive": an intervening read or other tool error must
  not "carry the previous ambiguity count forward" (`mini.py` 15357-15360), nor any "other
  intervening action" (`recovery.py` 1583-1585). A context check or a reorientation between
  two ambiguous edits ends the answer (15245-15295) before that reset (15361), so the second
  edit is given the guidance of a repeated one; likewise after a call without a name or
  an answer without a call. `GuidanceIsEarned` names these four in `Uncounted`; with that set
  empty `RW_worker` fails by such a sequence of calls;
* the evidence of a child comes before its receipt, and the receipt fingerprints what is
  on the disk when it is made (`mini.py` 17076-17116, `integration_gate.py` 542-547); so does
  the receipt of the parent after its own checks. What is written in between counts as
  tested, and no later comparison can tell. `EvidenceStandsOnCurrentBytes` excepts it;
* a reorientation that falls on a context check is used up without being shown: the
  context branch ends the answer first (`mini.py` 15245-15264);
* the recovery state of a Worker is never carried into the next one, though
  `mini.py` 23507 is written to do so (see `RecoveryWorker` above);
* recovery after a kill fingerprints the bytes it finds, also when the user
  changed them since (README 63 says that a user-edited file cannot be mistaken for
  the model's draft);
* an integration leaf repairs before it classifies the failure (README 59);
* alternatives and re-split integration tasks pass `MAX_TOTAL_TASKS` and
  `MAX_DEPTH` (README 109);
* the files are fingerprinted before and after planning and approval, but the
  result, `stage3_read_only_before_approval` (`mini.py` 9395), is only recorded: an
  edit made while a plan is reviewed does not stop an ordinary approved run
  (README 182 says that the files stay identical through planning and approval);
* the validator of a plan revision (`mini.py` 8556-8561) returns nothing, so
  `structured_model_call` (4763) takes every answer of the reviser for invalid and the
  deterministic map is always used instead (README 164-165 and 177-179: an optional
  `ImpactPlanReviser`, and one bounded revision);
* `run_approval_bound_execution_lifecycle` (`mini.py` 24272-24410) begins a durable run
  and never finishes its metrics, so its row stays "running", and the next start-up
  takes it for an interrupted one;
* the resume snapshot that `load_memory` reads (`mini.py` 3301) is used by nothing;
* in a POSIX terminal without `prompt_toolkit` the approval says "Use arrow keys and
  Enter" and returns no choice without reading any key (`mini.py` 8864), so every plan
  is rejected;
* `execution_contracts.py` 1763 tests a `kind` left over from the loop at 1702: a verify
  node without an owner gets the type of the last node, and the graph is refused as
  invalid. And a plan without cycles can compile into contracts that depend on each
  other, when two context nodes are attached to both. Both were seen by running the
  code; README 205-207 says that such nodes create no Builder calls;
* a contract without a Worker is reported "responsibility verified" (`mini.py` 23887)
  though nothing was run; its receipt is not verified, as `ApprovedGraph` has it;
* after a revision of the plan, the active contract and the row of the run are still
  those from before it.

`TreeBounded` is what the limits really bound: `MAX_TOTAL_TASKS + MAX_CHILDREN - 2`
tasks and depth `MAX_DEPTH + 1`.

Bounds, and why they suffice. No operation of a transaction but the rollback and the
commit looks at two files, so two show every interleaving of tools, ledger and
restarts with them; a text also says whether the user's hand is in it, which tells a
rewritten file from the old one. Three tool steps are enough for edit, verify, verify again, which is what
the evidence rules compare; two checks let a pass of one be mistaken for a pass
of the other; two repairs let a second repair see the leftovers of the first.
Three children show a dependency forwards, backwards and on a chain, five tasks
a split in a split or a split with an alternative or integration tasks. Two tasks
are enough to supersede a fact, let it go stale and promote it again, and 4
records under a limit of 4 and then 2 reach both limits of re-entry. Two contracts
show every pair of kinds with and without a dependency, with the second file
protected, to be changed, or not named; a second content is enough to differ
from the approved one. Two runs of the builder are what a resumption is; the four
plans disagree on a dependency, are cut by the unit budget, and lose a dependency
by that cut. Five answers of a Worker are enough for a failure, a switch, the same
failure of the selected mechanism twice and a completion, or for two completion
repairs with a mutation request between them; the number of calls in an answer is
not bounded, so every counter reaches its limit. A second file shows that a
repetition must be of one file. Two executions or submissions show a candidate or a problem
of an earlier one; three files a patch of two, and one that may not be touched; two full
verifications the one that is kept for the staged copy. The models' own bounds, absent from the code, are `MaxEdits`, `MaxRuns`,
`MaxTasks` and the sizes of the sets; every other bound is a constant of the code,
scaled down.

Deadlock is checked in `WT_files`. The others set `CHECK_DEADLOCK FALSE`
because a leaf, a tree, a graph or a Worker ends, and tasks and runs are bounded.

Fairness: `WF_vars(Next)` in `LeafEngine` and `TaskTree`, `WF_vars(Step)` in
`ApprovedGraph` and `ProjectBuilder`, where `Step` leaves out what the user, other
processes and kills do, and none in `WorkspaceTransaction`,
`VerifiedState`, `RecoveryWorker` and `PatchRepair`, of which no liveness is claimed. The program is one thread that always takes its next
step, and every model call, command and browser check has a timeout, so some
step always happens; nothing is assumed about which.

## 4. What is proved

TLAPS checks, for every value of the constants that their assumptions allow:

* `WorkspaceTransactionProofs` — `TypeCorrect`; `TxnInvariant`, whose conjuncts
  are needed because `RollbackRestores` alone says nothing about a rollback half
  done: a tool call is pending only in an open transaction, a transaction is
  open only in a run, every snapshot equals `base`, every file not captured is
  unchanged, nothing is lost before the first restore, a committed transaction
  is a done leaf. From it `RollbackRestoresFiles`. `VerifiedRowsAreKept` adds
  that a captured draft stays a draft, and assumes that the user does not edit inside a
  leaf. `UserTextIsRecoverable` adds that a text is kept before it is replaced,
  and assumes edits between runs only. `TransactionImplementsAtomicLeaf` maps each
  step to a step of `AtomicLeaf` or to a stutter, with a captured file standing
  for its snapshot until the commit.
* `LeafEngineProofs` — `ResultsMatchTransactions`,
  `CommitsHaveSufficientContext`, `ProviderFailuresEndLeaves`,
  `RefutationsBlockCommits`, `VisualFailuresTriggerNoEdit`, from one inductive
  invariant: the transaction follows the controller's place, an agent that ended
  "done" was allowed to edit, a failure met is still pending when the controller
  judges it, and the gate sees the Builder's own evidence.
* `TaskTreeProofs` — `TypeCorrect` and `TreeIsBounded`, from
  `TreeInvariant`: a loop is over tasks of the ledger, the depth argument of a
  call is the depth of its task or, for an integration task, one less, and a
  call that splits or loops is below the limit. The proof groups the actions by
  what they do (a call returns, a loop begins, a call begins or goes on), with
  one lemma for each.
  Then `DependenciesAreDoneFirst`, `DoneIsOverDone`,
  `IndependentChildrenAreRun`, from `OrderInvariant`: parents are older than
  children and the calls under way form a chain from the root; the ledger says
  what the calls returned; a batch holds children that depend on each other only;
  a loop has called the tasks before its position and none after it; a child is
  blocked only by a dependency that failed or comes later; a task that was split
  returns after its whole batch; what is not in the last batch was verified
  before; integration tasks depend on nothing. None of the three properties is
  inductive: each says what a call found, which only the position of its loop and
  the ledger remember. `CountsAreOfTheLedger`: each step gives at
  most one task an outcome, and counts it exactly then; the rest is the
  cardinality of sets of a growing ledger.
* `VerifiedStateProofs` — all properties of `VS_facts`, and `HistoryStays`: a row
  that was superseded or went stale is never active again. `EvidenceIsCurrent`
  rests on `EvidenceStands`: the bytes of a check without a receipt, less those written
  since, are on the disk, and so in the child's receipt when it is made (`ChecksStand`); the
  parent's receipt cites a check good for itself or for a child's receipt (`ReceiptsStand`;
  a write after the gate makes it the second); a row is promoted only while the
  receipts of parent and children are all fresh, so its check agrees with its own receipt
  (`RowsStand`). The freshness test of re-entry does the rest. `CompletionsBacked` rests on
  the fact that no row ever disappears.
* `ApprovedGraphProofs` — all safety properties of `AG_graph`, and
  `OpenTransactionsCorrect` (a transaction left open was never worked in), from `GraphInv`: the
  place of the lifecycle, whose transaction is open, which Workers were started
  and under which subject, what is known of the bytes nobody else wrote since
  each snapshot, and that the changes so far are those of one contract.
* `ProjectBuilderProofs` — all safety properties of `PB_build`, from `Inv`: the
  repository map of a run holds every file of the completed units as verified,
  because a unit is re-indexed when it is applied, units do not share files, and
  the map of an accepted checkpoint equals that of the files; units applied by a
  build are in the map and, but for the user, on disk.
* `RecoveryWorkerProofs` — all properties of `RW_worker`, from `IInv`: what the
  observers count is what happened (`Agree`: the failure key is the streak since
  the last accepted mutation, the ambiguity key is the last observed call, the
  search count is at most the search), repairs were given in the phase their counts
  say (`Phase`), a strategy suppresses what it does not allow and leaves
  something (`Strategy`), the tools offered are the projection of the strategy as
  it is now and of the gates as they are now (`Offer`). `OfferedFollowsStrategy` is
  not inductive: that a context check offers the right tools needs the strategy
  the last switch left.
* `PatchRepairProofs` — all properties of `PR_repair`. `Types` adds to the types what a
  call has at hand at each place (a problem, a winner, a staged copy, a sandbox) and that
  a finalist is tried once. `StageFollows`: but for the files somebody else wrote, the
  project is the staged copy, before the patch, then outside the patch's files, then
  outside the files left to copy; from it `RepairedTreesAreVerified` and, with the
  permitted files, `ProjectWritesVerified`. `BrainFollows` says what `BrainIsFaithful`
  says also in the middle of a copy, where the files copied but not yet remembered are
  excepted. `SearchBudget`: the attempts are at most the finalists tried, these at most
  the short list, and that at most the budget less one; from it
  `VerificationsAreReserved`, if `MaxAttempts` is not 0 (the code allows 0; then nothing
  is ever verified or copied). `PhasesFollow` says which phases and how many stages each
  place of `maintain` has, or that the stages are used up; the longest execution has 11,
  which is what `ResultsMatchPhases` asks of `MaxStages` (the default is 16; with 10 TLC
  finds the property violated). `BoundPatchesLandOnTheirBase` is inductive with the types: the
  gate finds project, staged copy and base equal, the user's later writes are in `edited`,
  and the copy makes file by file of the base what was verified.

Every safety property of the passing runs is proved. The liveness properties
(`LeafReturns`, `TreeReturns`, `LifecycleEnds`, `EveryRunReturns`) need fairness and
ENABLED, out of the prover's reach, and stay with TLC. Of three of them the other half is
proved, that the program never takes infinitely many steps without returning:
`LeavesAdvance`, `LifecyclesAdvance` and `RunsAdvance` state that each step moves to a later
place of a finite order (the next attempt or contract, a later place, one more step of a
bounded budget, fewer of finitely many units left), and that no step of a user or another
process moves it back. `CallsAdvance` states the same of `PatchRepair`, for which no fairness is assumed;
there `None` is not a sandbox, and an endless call is excluded where the files and the
candidates are finitely many. That a step is always possible is what TLC adds. Of
`TreeReturns` nothing is proved: its order is on the stack of calls, whose length is bounded
by `TreeIsBounded`, but whose decrease is an induction over data. The type invariants are proved
(`TypeCorrect`, `BuilderTypeCorrect`) and, but for that of `PatchRepair`, not checked by
the runs. Nothing is assumed beyond the named assumptions on constants
(`ConstantsAssumption`, `LimitsAssumption`, `VerifiedStateAssumption`, `GraphAssumption`,
`BuilderAssumption`, `RecoveryAssumption`, `RepairAssumption`), the two on `UserMoments`,
the two on budgets and the one on `None` above. `BuilderAssumption` says that units do not share files, which the
ownership check of the code enforces before it generates anything.

## 5. What is not modelled

* The content of prompts, answers, plans and files, and the analyses of source text,
  which are pure: `impact_planning.py`, `project_understanding.py`,
  `verification_routing.py`, the record builders of `recovery.py` and most of `execution_contracts.py`
  (together more than a quarter of the lines of the program) build, hash and
  validate records and have no state between calls. A model of such a function is
  the function again; their verdicts are inputs of the modules here.
* Side effects of `run_command` on files: the transaction does not capture them
  either. In `ApprovedGraph` they are among `OtherWrites`.
* Of recovery: the diagnosis of a failure, the authorization and lineage of a
  recovery execution, and the strategy search with its candidate snapshots.
* In `LeafEngine`, failure texts that mean "environment" are left to the
  controller's own browser check; the instance has a defect and an unresolved
  page.
* In `TaskTree`, the order of events inside one decomposition (tasks are created
  one after the other before the coupling analysis merges them): nothing reads
  the ledger in between.
* In `ApprovedGraph`, how contracts are compiled from a plan and an approval is
  made and revalidated: `Plans` and a verdict of the gate. In `ProjectBuilder`,
  cycles and shared files (refused before any unit is generated), a build without
  units, and what the validators look at.
* The version of a file that evidence is about: the code keeps the newest evidence of a
  check and does not look whether the file was edited after it (`evidence.py` 107), and
  `LeafEngine` has it so; no property speaks of it.
* The request around all this (stages 2 and 3, the approval dialogue and its one
  revision), the project store, the command line, browser and HTTP, benchmarks and
  sample projects.

## 6. Plan

Done, in this order: `WorkspaceTransaction`, `LeafEngine`, `TaskTree` and their
proofs; the order and count properties of `TaskTree`; `VerifiedState`,
`ApprovedGraph`, `ProjectBuilder`, `RecoveryWorker` and `PatchRepair` with their proofs.

Left:

1. `WorkerProgress` and `ContextGate`: the counters behind the stop and context
   verdicts that `LeafEngine` takes as inputs, shown to give only those verdicts.
2. `Request`: `run_auto`, `run_recursive` and `run_baseline` with planning, approval,
   one revision and the end of the run.
3. `Evidence`: latest evidence with roles, rejected calls and file versions.
4. `SemanticCoupling` and the integration preflight as pure operators against a
   reference definition.
5. Candidate snapshots of the strategy search, composed with
   `WorkspaceTransaction`, and the project store with its resume.
