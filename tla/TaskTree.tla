------------------------------ MODULE TaskTree ------------------------------
(***************************************************************************)
(* The adaptive task tree of recursive mode: solve_task fits a task, runs  *)
(* it as a leaf or splits it, splits it again when the leaf proves too     *)
(* broad, runs the children one after the other under their explicit       *)
(* dependencies (_execute_children), tries other decompositions when a     *)
(* child at the depth limit is still too broad, and aggregates the         *)
(* children, with integration tasks for their conflicts (aggregate_task).  *)
(*                                                                         *)
(* A task is the number of its creation, ROOT is 1.  The recursion of      *)
(* solve_task needs no stack: a call for a task is always made from the    *)
(* call for its parent, so the calls under way are the ancestors of        *)
(* `current'.  What a leaf does is module LeafEngine; here it is its       *)
(* result.                                                                 *)
(***************************************************************************)
EXTENDS Naturals, FiniteSets

CONSTANTS
  MaxDepth,        \* MAX_DEPTH
  MaxChildren,     \* MAX_CHILDREN
  MaxTotalTasks,   \* MAX_TOTAL_TASKS
  MaxAlternatives  \* MAX_DECOMPOSITION_ALTERNATIVES

ASSUME LimitsAssumption ==
  /\ MaxDepth \in Nat
  /\ MaxChildren \in Nat \ {0, 1}
  /\ MaxTotalTasks \in Nat \ {0}
  /\ MaxAlternatives \in Nat

VARIABLES
  tasksCreated, \* RUN["tasks_created"]
  tasks,        \* TASKS, the ledger
  frames,       \* the call of solve_task for each task: its locals and what it returned
  current,      \* the task of the innermost call, 0 when the root's has returned
  counted       \* RUN["verified_nodes"], RUN["failed_nodes"], RUN["root_verified"]

vars == <<tasksCreated, tasks, frames, current, counted>>

Root == 1

NoTask == 0

Tasks == 1 .. tasksCreated

\* make_task.  accepted: the semantic coupling analysis let the split run;
\* branch: how many alternatives its parent had tried.
MakeTask(parent, depth, kind, dependencies, accepted, branch) ==
  [parent |-> parent, depth |-> depth, kind |-> kind, dependencies |-> dependencies,
   accepted |-> accepted, branch |-> branch, alternatives |-> 0, status |-> "pending"]

NoCall == [stage |-> "none", at |-> 0, fit |-> "ambiguous", first |-> 1, last |-> 0, next |-> 1,
           result |-> "none"]

\* The call solve_task(t, at): its depth argument is not always the task's.
Call(at, fit) == [NoCall EXCEPT !.stage = "fit", !.at = at, !.fit = fit]

\* _record_structural_fit: no contract counts as "ambiguous".
Fits(kind) ==
  IF kind = "integration" THEN {"direct"} ELSE {"direct", "required", "ambiguous"}

Init ==
  /\ tasksCreated = 1
  /\ tasks = [t \in Tasks |-> [MakeTask(NoTask, 0, "implementation", {}, TRUE, 0)
                                EXCEPT !.status = "running"]]
  /\ \E fit \in Fits("implementation") : frames = [t \in Tasks |-> Call(0, fit)]
  /\ current = Root
  /\ counted = [verified |-> 0, failed |-> 0, root |-> FALSE]

-----------------------------------------------------------------------------
(* What the actions are made of.                                           *)

\* Mutant: the budget is compared before the two tasks it is asked for.
CanExpandLate(at) == at < MaxDepth /\ tasksCreated <= MaxTotalTasks

CanExpand(at) == at < MaxDepth /\ tasksCreated + 2 <= MaxTotalTasks

Smaller(m, n) == IF m < n THEN m ELSE n

Remaining == MaxTotalTasks - tasksCreated

At(stage, t) == current = t /\ frames[t].stage = stage

\* Mutant: whatever is not failed is counted as verified.
MarkOptimistic(ledger, t, status) ==
  /\ tasks' = [ledger EXCEPT ![t].status = status]
  /\ counted' = [verified |-> counted.verified + (IF status # "failed" THEN 1 ELSE 0),
                 failed   |-> counted.failed + (IF status # "failed" THEN 0 ELSE 1),
                 root     |-> counted.root \/ (t = Root /\ status = "done")]

\* _mark_task_result on a ledger that the action has already brought up to date.
Mark(ledger, t, status) ==
  /\ tasks' = [ledger EXCEPT ![t].status = status]
  /\ counted' = [verified |-> counted.verified + (IF status = "done" THEN 1 ELSE 0),
                 failed   |-> counted.failed + (IF status = "done" THEN 0 ELSE 1),
                 root     |-> counted.root \/ (t = Root /\ status = "done")]

\* The call for t is over: the loop of the caller goes on with its next task.
Returned(calls, t, result) ==
  LET p == tasks[t].parent
  IN [i \in DOMAIN calls |->
        IF i = t THEN [calls[i] EXCEPT !.stage = "returned", !.result = result]
        ELSE IF i = p THEN [calls[i] EXCEPT !.next = @ + 1]
        ELSE calls[i]]

Returns(t, status) ==
  /\ Mark(tasks, t, status)
  /\ frames' = Returned(frames, t, status)
  /\ current' = tasks[t].parent
  /\ UNCHANGED tasksCreated

\* n more tasks under t, none of them called yet.
Grow(ledger, t, n, kind, dependencies, accepted) ==
  [c \in 1 .. tasksCreated + n |->
     IF c \in Tasks THEN ledger[c]
     ELSE MakeTask(t, tasks[t].depth + 1, kind, dependencies[c], accepted, ledger[t].alternatives)]

GrowCalls(n) == [c \in 1 .. tasksCreated + n |-> IF c \in Tasks THEN frames[c] ELSE NoCall]

\* Explicit dependencies may name any other child of the split.
Dependencies(n) ==
  LET new == tasksCreated + 1 .. tasksCreated + n
  IN {d \in [new -> SUBSET new] : \A c \in new : c \notin d[c]}

NoDependencies(n) == [c \in tasksCreated + 1 .. tasksCreated + n |-> {}]

\* The loop over n new tasks begins: _execute_children or
\* run_integration_tasks_sequentially.
Runs(t, n, stage) ==
  /\ tasksCreated' = tasksCreated + n
  /\ frames' = [GrowCalls(n) EXCEPT ![t].stage = stage,
                                    ![t].first = tasksCreated + 1,
                                    ![t].last = tasksCreated + n,
                                    ![t].next = tasksCreated + 1]

-----------------------------------------------------------------------------
(* solve_task up to the leaf.                                              *)

\* An authority failure, a frozen contract that needs decomposition, a
\* required decomposition without budget, or no answer to the fit question.
FitFails(t) ==
  /\ At("fit", t)
  /\ Returns(t, "failed")

\* A deterministic verdict is not put to the model; without budget a task that
\* need not be decomposed is executed.
FitDecides(t) ==
  /\ At("fit", t)
  /\ \E decision \in {"decompose", "leaf"} :
       /\ decision = "decompose" => CanExpand(frames[t].at) /\ frames[t].fit # "direct"
       /\ decision = "leaf" => frames[t].fit # "required"
       /\ frames' = [frames EXCEPT ![t].stage = decision]
  /\ UNCHANGED <<tasksCreated, tasks, current, counted>>

\* No answer from the model.
SplitFails(t) ==
  /\ At("decompose", t)
  /\ Returns(t, "failed")

\* decompose_task: two to four children within the budget, or the one into
\* which the coupling analysis merged them.
Splits(t) ==
  /\ At("decompose", t) /\ Remaining >= 2
  /\ \E n \in 1 .. Smaller(MaxChildren, Remaining) :
       /\ Runs(t, n, "children")
       /\ \E d \in Dependencies(n) : tasks' = Grow(tasks, t, n, tasks[t].kind, d, TRUE)
  /\ UNCHANGED <<current, counted>>

\* The coupling analysis refuses the split: the children stay in the ledger.
SplitRefused(t) ==
  /\ At("decompose", t) /\ Remaining >= 2
  /\ \E n \in 2 .. Smaller(MaxChildren, Remaining) :
       /\ tasksCreated' = tasksCreated + n
       /\ Mark(Grow(tasks, t, n, tasks[t].kind, NoDependencies(n), FALSE), t, "failed")
       /\ frames' = Returned(GrowCalls(n), t, "failed")
  /\ current' = tasks[t].parent

Executes(t) ==
  /\ frames' = [frames EXCEPT ![t].stage = "leaf"]
  /\ UNCHANGED <<tasksCreated, tasks, current, counted>>

\* Fewer than two valid children.
NoSplit(t) ==
  /\ At("decompose", t)
  /\ IF frames[t].fit = "required"
       THEN Returns(t, "failed")
       ELSE Executes(t)

-----------------------------------------------------------------------------
(* The leaf and what follows it.                                           *)

\* The result of the leaf, or of the strategy search that took it over; a
\* child receipt that is not valid makes it "failed".
LeafEnds(t) ==
  /\ At("leaf", t)
  /\ \E status \in {"done", "failed"} : Returns(t, status)

\* Too broad with positive evidence, or out of budget and diagnosed as too
\* broad, and no smaller decomposition came of it.
LeafTooBroad(t) ==
  /\ At("leaf", t)
  /\ Returns(t, "too_broad")

\* The smaller decomposition was merged into one child: it stays in the ledger.
ResplitMerged(t) ==
  /\ At("leaf", t) /\ CanExpand(frames[t].at)
  /\ tasksCreated' = tasksCreated + 1
  /\ \E status \in {"failed", "too_broad"} :
       /\ Mark(Grow(tasks, t, 1, tasks[t].kind, NoDependencies(1), TRUE), t, status)
       /\ frames' = Returned(GrowCalls(1), t, status)
  /\ current' = tasks[t].parent

\* _resplit_too_broad and _resplit_after_leaf_failure: the children run, also
\* where the coupling analysis refused the split.
Resplits(t) ==
  /\ At("leaf", t) /\ CanExpand(frames[t].at)
  /\ \E n \in 2 .. Smaller(MaxChildren, Remaining), accepted \in BOOLEAN :
       /\ Runs(t, n, "children")
       /\ \E d \in Dependencies(n) : tasks' = Grow(tasks, t, n, tasks[t].kind, d, accepted)
  /\ UNCHANGED <<current, counted>>

\* No answer from the model: the failure is returned and not marked.
ResplitFails(t) ==
  /\ At("leaf", t) /\ CanExpand(frames[t].at)
  /\ frames' = Returned(frames, t, "failed")
  /\ current' = tasks[t].parent
  /\ UNCHANGED <<tasksCreated, tasks, counted>>

-----------------------------------------------------------------------------
(* _execute_children.                                                      *)

Batch(t) == frames[t].first .. frames[t].last

\* _scheduler_status_label of a dependency: by its result, "PENDING" without.
Label(c) ==
  CASE frames[c].result = "done"    -> "COMPLETED"
    [] frames[c].result = "blocked" -> "DEPENDENCY_BLOCKED"
    [] frames[c].result = "none"    -> "PENDING"
    [] OTHER                        -> "FAILED"

\* Mutant: only a failure blocks.
BlockedByFailed(c) == {d \in tasks[c].dependencies : Label(d) = "FAILED"}

BlockedBy(c) == {d \in tasks[c].dependencies : Label(d) # "COMPLETED"}

NextChild(t) == frames[t].next

\* Mutant: a child waits for a dependency that has not run.
BlocksFailedOnly(t) ==
  /\ At("children", t) /\ NextChild(t) \in Batch(t)
  /\ \E d \in BlockedBy(NextChild(t)) : Label(d) # "PENDING"
  /\ Mark(tasks, NextChild(t), "blocked")
  /\ frames' = Returned(frames, NextChild(t), "blocked")
  /\ UNCHANGED <<tasksCreated, current>>

Blocks(t) ==
  /\ At("children", t) /\ NextChild(t) \in Batch(t)
  /\ BlockedBy(NextChild(t)) # {}
  /\ Mark(tasks, NextChild(t), "blocked")
  /\ frames' = Returned(frames, NextChild(t), "blocked")
  /\ UNCHANGED <<tasksCreated, current>>

Enters(c, at) ==
  /\ \E fit \in Fits(tasks[c].kind) : frames' = [frames EXCEPT ![c] = Call(at, fit)]
  /\ tasks' = [tasks EXCEPT ![c].status = "running"]
  /\ current' = c
  /\ UNCHANGED <<tasksCreated, counted>>

StartsChild(t) ==
  /\ At("children", t) /\ NextChild(t) \in Batch(t)
  /\ BlockedBy(NextChild(t)) = {}
  /\ Enters(NextChild(t), frames[t].at + 1)

\* Mutant: a dependency-blocked child is no failure.
FailedButBlocked(t) == {c \in Batch(t) : frames[c].result \notin {"done", "blocked"}}

FailedChildren(t) == {c \in Batch(t) : frames[c].result # "done"}

\* Mutant: the loop over the children ends at the first failure.
ChildrenOverAtFailure(t) ==
  /\ At("children", t)
  /\ NextChild(t) \notin Batch(t) \/ \E c \in Batch(t) : frames[c].result = "failed"

ChildrenOver(t) == At("children", t) /\ NextChild(t) \notin Batch(t)

\* The failure the parent reports: the first one that is not just blocked.
FirstFailure(t) ==
  LET own  == {c \in FailedChildren(t) : frames[c].result # "blocked"}
      from == IF own # {} THEN own ELSE FailedChildren(t)
  IN CHOOSE c \in from : \A d \in from : c <= d

\* _is_terminal_too_broad_child.
Terminal(c) == tasks[c].depth >= MaxDepth /\ frames[c].result = "too_broad"

Backtracks(t) ==
  /\ tasks[t].kind = "implementation"
  /\ Terminal(FirstFailure(t))
  /\ tasks[t].alternatives < MaxAlternatives
  /\ CanExpand(frames[t].at)

ChildrenFail(t) ==
  /\ ChildrenOver(t) /\ FailedChildren(t) # {}
  /\ ~Backtracks(t)
  /\ Returns(t, "failed")

Tried(t) == [tasks EXCEPT ![t].alternatives = @ + 1]

\* _backtrack_decomposition without an answer, or with a paraphrase of what failed.
AlternativeRejected(t) ==
  /\ ChildrenOver(t) /\ FailedChildren(t) # {}
  /\ Backtracks(t)
  /\ Mark(Tried(t), t, "failed")
  /\ frames' = Returned(frames, t, "failed")
  /\ current' = tasks[t].parent
  /\ UNCHANGED tasksCreated

\* Two to four other children, whatever is left of the budget.
AlternativeRuns(t) ==
  /\ ChildrenOver(t) /\ FailedChildren(t) # {}
  /\ Backtracks(t)
  /\ \E n \in 2 .. MaxChildren :
       /\ Runs(t, n, "children")
       /\ tasks' = Grow(Tried(t), t, n, "implementation", NoDependencies(n), TRUE)
  /\ UNCHANGED <<current, counted>>

-----------------------------------------------------------------------------
(* Aggregation.                                                            *)

\* A semantic group that is not verified, or the aggregator's own verdict.
Aggregates(t) ==
  /\ ChildrenOver(t) /\ FailedChildren(t) = {}
  /\ \E status \in {"done", "failed"} : Returns(t, status)

\* create_integration_tasks: the preflight found conflicts between the children.
FindsConflicts(t) ==
  /\ ChildrenOver(t) /\ FailedChildren(t) = {}
  /\ tasks[t].kind = "implementation"
  /\ \E n \in 1 .. Smaller(MaxChildren, Remaining) :
       /\ Runs(t, n, "integrate")
       /\ tasks' = Grow(tasks, t, n, "integration", NoDependencies(n), TRUE)
  /\ UNCHANGED <<current, counted>>

\* The depth argument is the parent's own depth.
StartsIntegrationTask(t) ==
  /\ At("integrate", t) /\ NextChild(t) \in Batch(t)
  /\ \A c \in Batch(t) : c < NextChild(t) => frames[c].result = "done"
  /\ Enters(NextChild(t), tasks[t].depth)

\* The parent's own verification after its integration tasks.
Integrates(t) ==
  /\ At("integrate", t) /\ NextChild(t) \notin Batch(t)
  /\ FailedChildren(t) = {}
  /\ \E status \in {"done", "failed"} : Returns(t, status)

IntegrationFails(t) ==
  /\ At("integrate", t)
  /\ \E c \in Batch(t) : frames[c].result \notin {"none", "done"}
  /\ Returns(t, "failed")

-----------------------------------------------------------------------------
Next ==
  \E t \in Tasks :
    \/ FitFails(t) \/ FitDecides(t)
    \/ SplitFails(t) \/ Splits(t) \/ SplitRefused(t) \/ NoSplit(t)
    \/ LeafEnds(t) \/ LeafTooBroad(t)
    \/ ResplitMerged(t) \/ Resplits(t) \/ ResplitFails(t)
    \/ Blocks(t) \/ StartsChild(t)
    \/ ChildrenFail(t) \/ AlternativeRejected(t) \/ AlternativeRuns(t)
    \/ Aggregates(t) \/ FindsConflicts(t)
    \/ StartsIntegrationTask(t) \/ Integrates(t) \/ IntegrationFails(t)

\* One thread runs the tree, and every model call has a timeout.
Spec == Init /\ [][Next]_vars /\ WF_vars(Next)
-----------------------------------------------------------------------------
(* Properties.                                                             *)

Statuses == {"pending", "running", "done", "failed", "blocked", "too_broad"}

Results == {"none", "done", "failed", "blocked", "too_broad"}

Kinds == {"implementation", "integration"}

\* What TASKS keeps of a task whose siblings are in ts, and a call of solve_task.
TaskRecords(ts) ==
  [parent : ts \cup {NoTask}, depth : Nat, kind : Kinds, dependencies : SUBSET ts,
   accepted : BOOLEAN, branch : 0 .. MaxAlternatives,
   alternatives : 0 .. MaxAlternatives, status : Statuses]

CallRecords ==
  [stage : {"none", "fit", "decompose", "leaf", "children", "integrate", "returned"},
   at : 0 .. MaxDepth, fit : {"direct", "required", "ambiguous"},
   first : Nat, last : Nat, next : Nat, result : Results]

\* The type invariant of the module.
TypeOK ==
  /\ tasksCreated \in Nat \ {0}
  /\ tasks \in [Tasks -> TaskRecords(Tasks)]
  /\ frames \in [Tasks -> CallRecords]
  /\ current \in Tasks \cup {NoTask}
  /\ counted \in [verified : Nat, failed : Nat, root : BOOLEAN]

\* What the two limits really bound.  An alternative decomposition is created
\* whole once two tasks are left, and an integration task is called with the
\* depth of its parent, so each limit is passed by a constant and no more,
\* however long the tree grows.
TreeBounded ==
  /\ tasksCreated <= MaxTotalTasks + MaxChildren - 2
  /\ \A t \in Tasks : tasks[t].depth <= MaxDepth + 1

\* _execute_children: a child that was started had its explicit dependencies
\* verified, and they stay verified while it, and whatever it was split into,
\* runs; a child whose dependencies are not verified is never run.
DependenciesDoneFirst ==
  \A t \in Tasks :
    frames[t].stage # "none" /\ tasks[t].status # "blocked" =>
      \A d \in tasks[t].dependencies : tasks[d].status = "done"

\* A task is verified only over verified work: one that was split, whatever
\* re-splits, alternatives and integration tasks came in between, has every
\* task of its last decomposition verified, and one whose decomposition was
\* required was split.
DoneOverDone ==
  \A t \in Tasks : tasks[t].status = "done" =>
    /\ \A c \in Tasks : tasks[c].parent = t /\ tasks[c].branch = tasks[t].alternatives
                           => tasks[c].status = "done"
    /\ frames[t].fit = "required" => \E c \in Tasks : tasks[c].parent = t

\* "independent siblings continue" of the scheduler self-test: when a task that
\* was split has returned, a child of its last split that nothing blocked has
\* run, whatever became of the children before it.
IndependentChildrenRun ==
  \A t \in Tasks : frames[t].stage = "returned" =>
    \A c \in Batch(t) :
      /\ tasks[c].kind = tasks[t].kind
      /\ \A d \in tasks[c].dependencies : d < c /\ tasks[d].status = "done"
      => frames[c].result \notin {"none", "blocked"}

\* The node counters of a run's metrics are those of the ledger: each task that
\* has an outcome is counted once, on whichever path it got it, and the root
\* is verified when its status says so.
CountsMatchLedger ==
  /\ counted.verified = Cardinality({t \in Tasks : tasks[t].status = "done"})
  /\ counted.failed
       = Cardinality({t \in Tasks : tasks[t].status \in {"failed", "blocked", "too_broad"}})
  /\ counted.root <=> tasks[Root].status = "done"

\* The tree ends: no child waits for a dependency for ever, and re-splits and
\* alternatives run out.
TreeReturns == <>(current = NoTask)

\* The comment in _apply_semantic_coupling_refinement: "Never allow an
\* exhausted/no-op replan to reach a Worker as if it were independent": no
\* child of a refused split is started.
RefusedSplitNeverRuns == \A t \in Tasks : ~tasks[t].accepted => frames[t].stage = "none"
=============================================================================
