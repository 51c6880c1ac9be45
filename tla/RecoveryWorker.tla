--------------------------- MODULE RecoveryWorker ---------------------------
(* The Builder that works under a recovery strategy (execute_agent_task with *)
(* a recovery_strategy, and the observers of hivo/recovery.py it calls): one *)
(* target is known, the mutation mechanisms that are legal for it are known, *)
(* and the observers adapt the Worker when it does not get on - a switch of  *)
(* the mechanism after two candidates with the same syntax failure, guidance *)
(* after two ambiguous edits, a re-anchor after two requests of a suppressed *)
(* tool, a reorientation after a search without a mutation, a repair of an   *)
(* invalid completion.  Each is given once, or once per phase.               *)
EXTENDS Naturals

CONSTANTS
  Legal,           \* the mechanisms that are legal for the target when the recovery starts
  Targets,         \* files a mutation may name
  Goal,            \* the file the recovery is about
  Budget,          \* answers of the model in one Worker (MAX_TOOL_STEPS)
  SearchLimit,     \* calls without a mutation before a reorientation
  Floor,           \* answers that must be left for a reorientation
  FailLimit,       \* failed mutations of one file before the task is too broad
  StagnationLimit  \* equal browser failures before the task is too broad

\* The tools that change source, in the order of TOOLS.
Mechanisms == {"write_file", "edit_file", "edit_file_range"}

Rank == [write_file |-> 1, edit_file |-> 2, edit_file_range |-> 3]

None == "none"

ASSUME RecoveryAssumption ==
  /\ Legal \subseteq Mechanisms /\ Legal # {}
  /\ Goal \in Targets /\ None \notin Targets
  /\ Budget \in Nat \ {0} /\ Floor \in Nat
  /\ SearchLimit \in Nat \ {0} /\ FailLimit \in Nat \ {0} /\ StagnationLimit \in Nat \ {0}

Threshold  == 2     \* RECOVERY_STRATEGY_STAGNATION_THRESHOLD
MaxRepairs == 2     \* MAX_RECOVERY_COMPLETION_REPAIRS_TOTAL

VARIABLES
  rec,      \* recovery_state
  pc,       \* "answer", "calls", "spent" or "end"
  left,     \* answers left after this one
  ctx,      \* the context gate allows mutation
  impact,   \* the impact contract is accepted
  offered,  \* the mutation tools the model is offered
  idle,     \* the transcript ends with the result of a call that verified nothing
  acted,    \* there is tool evidence
  failedEdits, stagnant,
  outcome,  \* the status of the Worker and the recovery terminal it reports
  seen      \* history: what happened, without the observers' counters

locals == <<idle, acted, failedEdits, stagnant>>
gates  == <<ctx, impact>>
vars   == <<rec, pc, left, gates, offered, locals, outcome, seen>>

-----------------------------------------------------------------------------
(* The recovery state.                                                     *)

Terminals ==
  {None, "WORKER_OUTPUT_INVALID", "REPAIRS_SPENT", "REPAIR_OF_PHASE_SPENT", "SEARCH_EXHAUSTED",
   "GUIDANCE_SPENT", "REANCHOR_SPENT"}

NoKey == <<None, None>>
Keys  == {NoKey} \cup (Targets \X Mechanisms)

RecoveryState ==
  [epoch : 0..1, allowed : SUBSET Mechanisms, suppressed : SUBSET Mechanisms,
   selected : Mechanisms \cup {None},
   failed : Keys, failures : 0..Threshold,
   ambiguous : (0..1) \X (Targets \cup {None}), ambiguities : 0..Threshold,
   guided : BOOLEAN,
   stale : Keys, requests : 0..Threshold, reanchored : BOOLEAN,
   entered : BOOLEAN, repairs : 0..MaxRepairs, repairsHere : 0..1,
   quiet : 0..SearchLimit, reoriented : BOOLEAN,
   terminal : Terminals]

\* The number of strategy switches is the epoch, and a counter that is only
\* compared with Threshold stops there.
Fresh ==
  [epoch |-> 0, allowed |-> Legal, suppressed |-> {}, selected |-> None,
   failed |-> NoKey, failures |-> 0,
   ambiguous |-> <<0, None>>, ambiguities |-> 0, guided |-> FALSE,
   stale |-> NoKey, requests |-> 0, reanchored |-> FALSE,
   entered |-> FALSE, repairs |-> 0, repairsHere |-> 0,
   quiet |-> 0, reoriented |-> FALSE,
   terminal |-> None]

AtMost(bound, n) == IF n > bound THEN bound ELSE n

\* The count of a failure that repeats the one before it.
Count(same, before) == IF same THEN AtMost(Threshold, before + 1) ELSE 1

\* tools_for_role, project_recovery_tool_schemas and the two gates.
Project(r, open, accepted) ==
  IF open /\ accepted THEN r.allowed \ r.suppressed ELSE {}

\* A request of a mutation that is offered, or that the strategy suppresses:
\* the mutation path is entered, once, and the search without a mutation ends.
Sought(r) ==
  LET searched == [r EXCEPT !.quiet = 0] IN
  IF r.entered \/ r.terminal # None THEN searched
  ELSE [searched EXCEPT !.entered = TRUE, !.repairsHere = 0]

\* A call of a tool that changes no source.
SearchBlocked(r) == r.terminal # None \/ left < Floor

Reorients(r) ==
  ~SearchBlocked(r) /\ r.quiet + 1 >= SearchLimit /\ ~r.reoriented

\* Once the reorientation is given nothing reads the count: it stays 0.
Searched(r) ==
  IF SearchBlocked(r) \/ r.reoriented THEN [r EXCEPT !.quiet = 0]
  ELSE IF Reorients(r) THEN [r EXCEPT !.quiet = 0, !.reoriented = TRUE]
  ELSE [r EXCEPT !.quiet = AtMost(SearchLimit, @ + 1)]

\* A mutation that passes the seam ends the sequence of failures.
MutationCommitted(r) == [r EXCEPT !.failed = NoKey, !.failures = 0]

MutationFailed(r, t, m) ==
  [r EXCEPT !.failed = <<t, m>>, !.failures = Count(r.failed = <<t, m>>, @)]

\* decide_recovery_strategy_diversification, for a failure just counted.
Stagnates(r) == r.failures >= Threshold /\ r.failed[1] = Goal

First(S) == CHOOSE m \in S : \A n \in S : Rank[m] <= Rank[n]

Switches(r) == r.epoch = 0 /\ Stagnates(r) /\ offered \ {r.failed[2]} # {}

\* In the second epoch only the mechanism the switch selected is judged.
Exhausts(r) == r.epoch = 1 /\ Stagnates(r) /\ r.failed[2] = r.selected

Switched(r) ==
  LET m == r.failed[2] IN
  [r EXCEPT !.epoch = 1, !.allowed = offered \ {m}, !.suppressed = {m},
            !.selected = First(offered \ {m}), !.failed = NoKey, !.failures = 0]

Observed(r, t, m) ==
  LET counted == MutationFailed(r, t, m) IN
  IF Exhausts(counted) THEN [counted EXCEPT !.terminal = "SEARCH_EXHAUSTED"] ELSE counted

\* observe_recovery_tool_contract_failure, and its reset by any other call.
Ambiguous(r, t) ==
  LET n == Count(r.ambiguous = <<r.epoch, t>>, r.ambiguities)
      counted == [r EXCEPT !.ambiguous = <<r.epoch, t>>, !.ambiguities = n]
  IN  IF n < Threshold THEN counted
      ELSE IF ~r.guided THEN [counted EXCEPT !.guided = TRUE]
      ELSE [counted EXCEPT !.terminal = "GUIDANCE_SPENT"]

\* Mutant: two ambiguities need not follow each other.
KeepsAmbiguity(r) == r

Unambiguous(r) == [r EXCEPT !.ambiguous = <<0, None>>, !.ambiguities = 0]

\* observe_suppressed_strategy_tool_request
Requested(r, t, m) ==
  LET n == Count(r.stale = <<t, m>>, r.requests)
      counted == [r EXCEPT !.stale = <<t, m>>, !.requests = n]
  IN  IF n < Threshold THEN counted
      ELSE IF ~r.reanchored THEN [counted EXCEPT !.reanchored = TRUE]
      ELSE [counted EXCEPT !.terminal = "REANCHOR_SPENT"]

\* observe_recovery_completion_attempt, for a completion that breaks its contract.
Denial(r) ==
  IF left = 0 THEN "WORKER_OUTPUT_INVALID"
  ELSE IF r.repairs >= MaxRepairs THEN "REPAIRS_SPENT"
  ELSE IF r.repairsHere >= 1 THEN "REPAIR_OF_PHASE_SPENT"
  ELSE None

Repaired(r) == [r EXCEPT !.repairs = @ + 1, !.repairsHere = @ + 1]

-----------------------------------------------------------------------------
(* History.                                                                *)

\* What ends the count of ambiguous edits (any other call), and what does not: a
\* context check and a reorientation end the answer before the reset, a call without a
\* name and an answer without a call reach no observer.
Uncounted  == {"context", "reoriented", "unnamed", "answer"}
Interludes == {"call"} \cup Uncounted

\* streak: the target and mechanism of the last syntax failure, if no mutation
\* was accepted since; edit: the file of the last ambiguous edit; since: what
\* followed it, or that another call did; search: calls without a mutation since
\* the last request of one, until the reorientation; sought: a mutation was requested;
\* early: a completion was repaired before that.
History ==
  [streak : Keys, edit : Targets \cup {None}, since : SUBSET Interludes,
   search : 0..SearchLimit, sought : BOOLEAN, early : BOOLEAN]

Unseen ==
  [streak |-> NoKey, edit |-> None, since |-> {}, search |-> 0, sought |-> FALSE,
   early |-> FALSE]

Noted(s, kind) ==
  IF s.edit = None \/ "call" \in s.since THEN s ELSE [s EXCEPT !.since = @ \cup {kind}]

SawRequest(s) == [s EXCEPT !.search = 0, !.sought = TRUE]
SawCall(s)    == IF s.edit = None THEN s ELSE [s EXCEPT !.since = {"call"}]
SawQuiet(s)   ==
  [s EXCEPT !.search = IF rec.reoriented THEN @ ELSE AtMost(SearchLimit, @ + 1)]

-----------------------------------------------------------------------------
(* The loop.                                                               *)

\* The end of execute_agent_task: a closed gate and an impact contract that was
\* not accepted override how the loop ended.
Returns(status, terminal) ==
  /\ pc' = "end"
  /\ outcome' =
       [status |-> IF ~ctx \/ (~impact /\ status # "provider_failure") THEN "failed" ELSE status,
        terminal |-> terminal]
  /\ UNCHANGED <<left, gates, offered, locals>>

\* The top of the loop: the model is asked while the budget lasts.
AsksModel ==
  /\ pc' = IF left > 0 THEN "answer" ELSE "spent"
  /\ left' = IF left > 0 THEN left - 1 ELSE 0
  /\ UNCHANGED outcome

\* The controller's instruction is the end of the transcript.
Restart == AsksModel /\ idle' = FALSE

BudgetEnds ==
  /\ pc = "spent"
  /\ Returns("budget_exhausted", None)
  /\ UNCHANGED <<rec, seen>>

ProviderFails ==
  /\ pc = "answer"
  /\ Returns("provider_failure", None)
  /\ UNCHANGED <<rec, seen>>

(* An answer without a tool call.                                          *)

StopsBehindClosedGate ==
  /\ pc = "answer" /\ ~ctx
  /\ Returns("failed", None)
  /\ UNCHANGED <<rec, seen>>

\* The answer claims completion, against the completion contract.
CompletionRepaired ==
  /\ pc = "answer" /\ ctx
  /\ Denial(rec) = None
  /\ rec' = Repaired(rec)
  /\ Restart
  /\ seen' = Noted([seen EXCEPT !.early = @ \/ ~seen.sought], "answer")
  /\ UNCHANGED <<gates, offered, acted, failedEdits, stagnant>>

CompletionDenied ==
  /\ pc = "answer" /\ ctx
  /\ Denial(rec) # None
  /\ rec' = [rec EXCEPT !.terminal = Denial(rec)]
  /\ Returns("failed", Denial(rec))
  /\ UNCHANGED seen

\* An empty answer after a tool call that verified nothing.
Nudged ==
  /\ pc = "answer" /\ ctx /\ idle
  /\ Restart
  /\ seen' = Noted(seen, "answer")
  /\ UNCHANGED <<rec, gates, offered, acted, failedEdits, stagnant>>

\* A valid completion, or an empty answer that no nudge holds.
Finishes ==
  /\ pc = "answer" /\ ctx
  /\ Returns(IF acted THEN "done" ELSE "failed", None)
  /\ UNCHANGED <<rec, seen>>

EndAnswer ==
  /\ pc = "calls"
  /\ AsksModel
  /\ UNCHANGED <<rec, gates, offered, locals, seen>>

-----------------------------------------------------------------------------
(* The tool calls of one answer.                                           *)

Handling == pc \in {"answer", "calls"}

Continue == pc' = "calls" /\ UNCHANGED <<left, gates, offered, outcome>>

\* The result is evidence and the end of the transcript; a hint or an
\* instruction of the controller may follow a failure.
Passed == acted' = TRUE /\ idle' = TRUE
Failed == acted' = TRUE /\ idle' \in BOOLEAN

\* A failed mutation of t counts, whatever its tool, unless the context gate
\* blocked it.
TooBroad(t) == ctx /\ failedEdits[t] + 1 >= FailLimit

FailedEditCounts(t) ==
  /\ ~TooBroad(t)
  /\ failedEdits' = IF ctx THEN [failedEdits EXCEPT ![t] = @ + 1] ELSE failedEdits
  /\ Continue
  /\ UNCHANGED stagnant

GivesUp(t) == TooBroad(t) /\ Returns("too_broad", None)

ForgetsFailures ==
  /\ failedEdits' = [t \in Targets |-> 0]
  /\ stagnant' = 0

\* Mutant: the tools are not projected again.
SwitchesSilently(t, m) ==
  /\ Handling /\ m \in offered
  /\ LET failure == MutationFailed(Sought(rec), t, m) IN
       /\ Switches(failure)
       /\ rec' = Switched(failure)
  /\ Restart /\ ForgetsFailures
  /\ seen' = [SawCall(SawRequest(seen)) EXCEPT !.streak = NoKey]
  /\ UNCHANGED <<gates, offered, acted>>

\* A candidate with a syntax error.  With the switch the rest of the answer is
\* dropped, and the candidate is no evidence.
SwitchesStrategy(t, m) ==
  /\ Handling /\ m \in offered
  /\ LET failure == MutationFailed(Sought(rec), t, m) IN
       /\ Switches(failure)
       /\ rec' = Switched(failure)
  /\ offered' = Project(rec', ctx, impact)
  /\ Restart /\ ForgetsFailures
  /\ seen' = [SawCall(SawRequest(seen)) EXCEPT !.streak = NoKey]
  /\ UNCHANGED <<gates, acted>>

\* A candidate with a syntax error, when a terminal stands or the search is
\* exhausted by it: the Worker ends before anything else looks at the result.
SyntaxFailureEnds(t, m) ==
  /\ Handling /\ m \in offered
  /\ ~Switches(MutationFailed(Sought(rec), t, m))
  /\ rec' = Observed(Sought(rec), t, m)
  /\ rec'.terminal # None
  /\ Returns("failed", rec'.terminal)
  /\ seen' = [SawRequest(seen) EXCEPT !.streak = <<t, m>>]

SyntaxInvalid(t, m) ==
  /\ Handling /\ m \in offered
  /\ ~Switches(MutationFailed(Sought(rec), t, m))
  /\ Observed(Sought(rec), t, m).terminal = None
  /\ rec' = Unambiguous(Observed(Sought(rec), t, m))
  /\ (Failed /\ FailedEditCounts(t)) \/ GivesUp(t)
  /\ seen' = [SawCall(SawRequest(seen)) EXCEPT !.streak = <<t, m>>]

\* A mutation that changes the file: a terminal that already stands fails the
\* Worker all the same.
MutationUnwanted ==
  /\ Handling /\ offered # {}
  /\ rec.terminal # None
  /\ rec' = MutationCommitted(Sought(rec))
  /\ Returns("failed", rec.terminal)
  /\ seen' = [SawRequest(seen) EXCEPT !.streak = NoKey]

Mutates ==
  /\ Handling /\ offered # {}
  /\ rec.terminal = None
  /\ rec' = Unambiguous(MutationCommitted(Sought(rec)))
  /\ Passed
  /\ Continue
  /\ seen' = [SawCall(SawRequest(seen)) EXCEPT !.streak = NoKey]
  /\ UNCHANGED <<failedEdits, stagnant>>

\* Any other failure of an offered mutation.
MutationRejected(t) ==
  /\ Handling /\ offered # {}
  /\ rec' = Unambiguous(Sought(rec))
  /\ (Failed /\ FailedEditCounts(t)) \/ GivesUp(t)
  /\ seen' = SawCall(SawRequest(seen))

\* The text edit_file should replace occurs more often than expected.
EditAmbiguous(t) ==
  /\ Handling /\ "edit_file" \in offered
  /\ rec' = Ambiguous(Sought(rec), t)
  /\ \/ FailedEditCounts(t) /\ acted' = TRUE /\ idle' = (rec'.guided = rec.guided)
     \/ GivesUp(t)
  /\ seen' = [SawRequest(seen) EXCEPT !.edit = t, !.since = {}]

\* A mutation tool that is neither offered nor suppressed: a gate is closed or
\* the tool is not legal.  It counts as no search and as no progress.
MutationUnavailable(t) ==
  /\ Handling /\ (Mechanisms \ offered) \ rec.suppressed # {}
  /\ rec' = Unambiguous(rec)
  /\ (Failed /\ FailedEditCounts(t)) \/ GivesUp(t)
  /\ seen' = SawCall(seen)

\* A tool the strategy suppresses: asked for twice, the Worker is re-anchored
\* and the rest of the answer is dropped.
Reanchored(t, m) ==
  /\ Handling /\ m \in rec.suppressed \ offered
  /\ rec' = Requested(Unambiguous(Sought(rec)), t, m)
  /\ rec'.reanchored # rec.reanchored
  /\ offered' = Project(rec', ctx, impact)
  /\ acted' = TRUE
  /\ Restart
  /\ seen' = SawCall(SawRequest(seen))
  /\ UNCHANGED <<gates, failedEdits, stagnant>>

\* Otherwise it is a failed mutation.  When the re-anchor is spent the terminal
\* is recorded, and the Worker goes on.
SuppressedRequest(t, m) ==
  /\ Handling /\ m \in rec.suppressed \ offered
  /\ rec' = Requested(Unambiguous(Sought(rec)), t, m)
  /\ rec'.reanchored = rec.reanchored
  /\ (acted' = TRUE /\ idle' = FALSE /\ FailedEditCounts(t)) \/ GivesUp(t)
  /\ seen' = SawCall(SawRequest(seen))

\* A call that changes no source and leads to the reorientation, whatever its
\* result: it ends the answer before anything else looks at it.
Reoriented ==
  /\ Handling /\ Reorients(rec)
  /\ rec' = Searched(rec)
  /\ acted' = TRUE
  /\ Restart /\ ForgetsFailures
  /\ seen' = Noted([seen EXCEPT !.search = 0], "reoriented")
  /\ UNCHANGED <<gates, offered>>

\* Any other call that changes no source.
Quiet ==
  /\ Handling /\ ~Reorients(rec)
  /\ rec' = Unambiguous(Searched(rec))
  /\ seen' = SawCall(SawQuiet(seen))

Reads ==
  /\ Quiet
  /\ Failed
  /\ Continue
  /\ UNCHANGED <<failedEdits, stagnant>>

\* run_file or run_command passes.
VerificationPasses ==
  /\ Quiet
  /\ acted' = TRUE /\ idle' = FALSE
  /\ Continue
  /\ UNCHANGED <<failedEdits, stagnant>>

\* verify_web_app: a pass ends the Worker, the same failure StagnationLimit
\* times in a row makes its task too broad; a failure without a signature
\* starts over.
BrowserPasses == Quiet /\ Returns("done", None)

BrowserFails ==
  /\ Quiet
  /\ \E n \in {0, 1, stagnant + 1} :
       IF n >= StagnationLimit THEN Returns("too_broad", None)
       ELSE stagnant' = n /\ Failed /\ Continue /\ UNCHANGED failedEdits

\* context_sufficiency_check: it ends the answer, and the reorientation it may
\* lead to is counted but not shown.
ContextChecked ==
  /\ Handling
  /\ rec' = Searched(rec)
  /\ ctx' \in BOOLEAN
  /\ impact' \in IF ctx' THEN {impact, TRUE} ELSE {impact}
  /\ offered' = Project(rec', ctx', impact')
  /\ acted' = TRUE
  /\ Restart
  /\ seen' = Noted(IF Reorients(rec) THEN [seen EXCEPT !.search = 0] ELSE SawQuiet(seen),
                   "context")
  /\ UNCHANGED <<failedEdits, stagnant>>

\* The name of no tool.
UnknownTool ==
  /\ Handling
  /\ rec' = Unambiguous(rec)
  /\ Failed
  /\ Continue
  /\ seen' = SawCall(seen)
  /\ UNCHANGED <<failedEdits, stagnant>>

\* A call without a name: no observer sees it.
Malformed ==
  /\ Handling
  /\ Passed
  /\ Continue
  /\ seen' = Noted(seen, "unnamed")
  /\ UNCHANGED <<rec, failedEdits, stagnant>>

-----------------------------------------------------------------------------

Init ==
  /\ rec = Fresh
  /\ pc = "answer" /\ left = Budget - 1
  /\ ctx = FALSE /\ impact = FALSE /\ offered = {}
  /\ idle = FALSE /\ acted = FALSE
  /\ failedEdits = [t \in Targets |-> 0] /\ stagnant = 0
  /\ outcome = [status |-> "unknown", terminal |-> None]
  /\ seen = Unseen

AnswerStep ==
  \/ ProviderFails \/ StopsBehindClosedGate \/ CompletionRepaired \/ CompletionDenied
  \/ Nudged \/ Finishes \/ EndAnswer

MutationStep(t) ==
  \/ \E m \in Mechanisms :
       \/ SwitchesStrategy(t, m) \/ SyntaxFailureEnds(t, m) \/ SyntaxInvalid(t, m)
       \/ Reanchored(t, m) \/ SuppressedRequest(t, m)
  \/ MutationRejected(t) \/ EditAmbiguous(t) \/ MutationUnavailable(t)

QuietStep ==
  \/ Reoriented \/ Reads \/ VerificationPasses \/ BrowserPasses \/ BrowserFails
  \/ ContextChecked \/ UnknownTool \/ Malformed

Next ==
  \/ BudgetEnds
  \/ AnswerStep
  \/ \E t \in Targets : MutationStep(t)
  \/ MutationUnwanted \/ Mutates
  \/ QuietStep

Spec == Init /\ [][Next]_vars

-----------------------------------------------------------------------------
(* Properties.                                                             *)

Statuses == {"unknown", "done", "failed", "too_broad", "budget_exhausted", "provider_failure"}

\* The state has the shape execute_agent_task and the observers give it.
TypeOK ==
  /\ rec \in RecoveryState
  /\ pc \in {"answer", "calls", "spent", "end"}
  /\ left \in 0..(Budget - 1)
  /\ ctx \in BOOLEAN /\ impact \in BOOLEAN
  /\ offered \in SUBSET Mechanisms
  /\ idle \in BOOLEAN /\ acted \in BOOLEAN
  /\ failedEdits \in [Targets -> 0..(FailLimit - 1)]
  /\ stagnant \in 0..(StagnationLimit - 1)
  /\ outcome \in [status : Statuses, terminal : Terminals]
  /\ seen \in History

\* The tools the model is offered are computed at the start of a Worker, at a
\* context check, at a switch and at a re-anchor, and kept between: whatever
\* the order of these, the model is never offered a mechanism its strategy
\* suppresses or one that is not legal, never a mutation behind a closed gate,
\* and behind open gates it is never left without one, so that the recovery
\* can still succeed.
OfferedFollowsStrategy ==
  /\ offered \cap rec.suppressed = {}
  /\ offered \subseteq Legal
  /\ ~(ctx /\ impact) => offered = {}
  /\ ctx /\ impact => offered # {}

\* The switch follows two candidates in a row with a syntax error, by the
\* mechanism it suppresses, on the file of the recovery and with no mutation
\* accepted between them; the search is exhausted by two such candidates of the
\* mechanism the switch selected.
SwitchIsEarned ==
  /\ rec'.epoch # rec.epoch =>
       \E m \in Mechanisms : seen.streak = <<Goal, m>> /\ rec'.suppressed = {m}
  /\ rec'.terminal # rec.terminal /\ rec'.terminal = "SEARCH_EXHAUSTED" =>
       rec.epoch = 1 /\ seen.streak = <<Goal, rec.selected>>

\* The guidance follows two ambiguous edits of one file with no other call between them
\* than context checks, the reorientation and calls without a name, and perhaps an answer
\* without a call.  These keep the count although the code says that no intervening
\* action should (reset_recovery_tool_contract_failure_pattern): the two edits need not
\* be consecutive.
GuidanceIsEarned ==
  rec'.guided # rec.guided =>
    /\ seen.edit # None /\ seen'.edit = seen.edit
    /\ seen.since \subseteq Uncounted

\* The reorientation is the SearchLimit-th call of a search in which no
\* mutation was requested.
ReorientationIsEarned ==
  rec'.reoriented # rec.reoriented => seen.search + 1 >= SearchLimit

\* The second repair of a completion follows a first one that was given before
\* any mutation was requested, and such a request.
RepairIsEarned ==
  rec'.repairs # rec.repairs => rec.repairs = 0 \/ (seen.early /\ seen.sought)

\* Every adaptation has its cause in what the Worker did, over several answers: the
\* failures that add up to it are of one file and mechanism and were not separated by
\* what ends their count, and no allowance is given twice.
AdaptationsAreEarned ==
  [][SwitchIsEarned /\ GuidanceIsEarned /\ ReorientationIsEarned /\ RepairIsEarned]_vars

=============================================================================
