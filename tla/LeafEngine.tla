----------------------------- MODULE LeafEngine -----------------------------
(***************************************************************************)
(* One leaf of the task tree, from the opening of its transaction to its   *)
(* result: the tool loop of the Builder, the Falsifier and the Repairer    *)
(* (execute_agent_task), the browser check, the deterministic evidence     *)
(* gate, the classification of a failed gate, and the two controllers that *)
(* put them in order (execute_leaf and execute_integration_leaf).          *)
(*                                                                         *)
(* The model behind each agent is the environment: any legal answer may    *)
(* come at any step.  What the transaction does to the files is module     *)
(* WorkspaceTransaction.                                                   *)
(***************************************************************************)
EXTENDS Naturals

CONSTANTS
  Kinds,            \* the leaves considered: subset of {"implementation", "integration"}
  Checks,           \* verifications an agent may run: a tool with its target
  Web,              \* the check that is verify_web_app on the task's page
  Texts,            \* what a failed verification may report
  Meaning,          \* what each text says: [Texts -> {"defect", "environment", "unresolved"}]
  StepBudget,       \* MAX_TOOL_STEPS
  FalsifierBudget,  \* MAX_FALSIFIER_STEPS
  MaxRepairs,       \* MAX_REPAIRS_PER_LEAF
  FailedEditLimit,  \* failed mutations of one file that make a task too broad
  StagnationLimit,  \* identical browser failures that make a task too broad
  MaxEdits          \* bound of the model on the edits of a leaf

ASSUME ConstantsAssumption ==
  /\ Kinds \subseteq {"implementation", "integration"}
  /\ Web \in Checks
  /\ Meaning \in [Texts -> {"defect", "environment", "unresolved"}]
  /\ {"pass", "unseen"} \cap Texts = {}
  /\ StepBudget \in Nat \ {0} /\ FalsifierBudget \in Nat \ {0}
  /\ FailedEditLimit \in Nat \ {0} /\ StagnationLimit \in Nat \ {0}
  /\ MaxRepairs \in Nat /\ MaxEdits \in Nat

VARIABLES
  kind,       \* task["kind"]
  lowRisk,    \* task_risk(goal) = "low"
  pc,         \* where the controller is
  role,       \* the agent at work, or the one whose result is being judged
  steps,      \* tool steps it has used
  ctx,        \* its ContextSufficiencyGate: "closed", "open" (mutation_allowed), "failed"
  impact,     \* impact contract: "not_required", "required", "accepted"
  acted,      \* tool_evidence is not empty
  lastCall,   \* what precedes the next answer: "none", "verified", "other"
  log,        \* latest_verification_evidence of the Builder or Repairer
  stagnant,   \* <<last_verification_signature, stagnant_verifications>>
  failedEdits,\* mutation_failure_counts
  agent,      \* its result
  falsLog,    \* the same as log for the Falsifier
  falsifier,  \* its status: "skipped" until it has run
  preflight,  \* run_integration_preflight: "passed", "syntax", "conflict"
  browser,    \* optional_browser_check
  repairs,    \* repair attempts begun
  txn,        \* "none", "active", "committed", "rolled_back"
  result      \* [status, type] the leaf returns

\* What the code does not store but the properties speak about.
VARIABLES
  version,    \* edits made since the transaction began
  outages     \* environment failures met: subset of {"model", "model_open", "visual"}

task   == <<kind, lowRisk>>
loop   == <<steps, ctx, impact, acted, lastCall, log, stagnant, failedEdits>>
review == <<falsLog, falsifier, preflight, browser>>
ghosts == <<version, outages>>
vars   == <<task, pc, role, loop, agent, review, repairs, txn, result, ghosts>>

FailureTypes ==
  {"ORCHESTRATION_FAILURE", "EXECUTION_BUDGET_EXHAUSTED", "TASK_TOO_BROAD",
   "INTEGRATION_TOO_BROAD", "ENVIRONMENT_ERROR", "WORKER_NO_MUTATION_PROGRESS",
   "MUTATION_TARGET_UNRESOLVED", "CONTEXT_INSUFFICIENT", "IMPACT_REQUIRED",
   "VERIFICATION_TARGET_UNRESOLVED", "IMPACT_VERIFICATION_FAILED", "INTEGRATION_FAILURE",
   "IMPLEMENTATION_ERROR"}

Unseen == [c \in Checks |-> "unseen"]

Working == [status |-> "working", failure |-> "none", outOfBudget |-> FALSE]

NoResult == [status |-> "none", type |-> "none"]

Implements == role \in {"Builder", "Repairer"}

Init ==
  /\ kind \in Kinds
  /\ lowRisk \in BOOLEAN
  /\ pc = "prepare" /\ role = "Builder"
  /\ steps = 0 /\ ctx = "closed" /\ impact \in {"not_required", "required"}
  /\ acted = FALSE /\ lastCall = "none"
  /\ log = Unseen /\ stagnant = <<"pass", 0>> /\ failedEdits = 0
  /\ agent = Working
  /\ falsLog = Unseen /\ falsifier = "skipped"
  /\ preflight = "passed" /\ browser = "none"
  /\ repairs = 0
  /\ txn = "none" /\ result = NoResult
  /\ version = 0 /\ outages = {}

-----------------------------------------------------------------------------
(* Opening and closing the leaf.                                           *)

\* A fresh execute_agent_task with an empty transcript and a closed gate.
StartAgent(r) ==
  /\ pc' = "loop" /\ role' = r
  /\ steps' = 0 /\ ctx' = "closed"
  /\ impact' = IF impact = "not_required" THEN impact ELSE "required"
  /\ acted' = FALSE /\ lastCall' = "none"
  /\ log' = Unseen /\ stagnant' = <<"pass", 0>> /\ failedEdits' = 0
  /\ agent' = Working

\* prepare_worker_mission_context raises: no transaction is open yet.
PrepareFails ==
  /\ pc = "prepare"
  /\ pc' = "end"
  /\ result' = [status |-> "failed", type |-> "ORCHESTRATION_FAILURE"]
  /\ UNCHANGED <<task, role, loop, agent, review, repairs, txn, ghosts>>

BeginLeaf ==
  /\ pc = "prepare"
  /\ txn' = "active"
  /\ StartAgent("Builder")
  /\ UNCHANGED <<task, review, repairs, result, ghosts>>

Return(status, type) ==
  /\ pc' = "end"
  /\ result' = [status |-> status, type |-> type]

Rollback(status, type) == Return(status, type) /\ txn' = "rolled_back"

Commit == Return("done", "none") /\ txn' = "committed"

-----------------------------------------------------------------------------
(* The tool loop of one agent.  A message with several tool calls is       *)
(* several steps here; a tool call that changes nothing the controller     *)
(* looks at is OtherCall.                                                  *)

\* Mutant: the gates do not override the status of the loop.
ResultOfLoop(status, failure, gate, contract) ==
  [status      |-> status,
   outOfBudget |-> status = "budget_exhausted",
   failure     |-> IF failure = "none" /\ status = "failed" /\ gate # "open"
                     THEN "CONTEXT_INSUFFICIENT" ELSE failure]

\* The end of execute_agent_task: a gate that is not open and an impact
\* contract that was not accepted override the status of the loop, and the
\* failure type is chosen in a fixed order.
Result(status, failure, gate, contract) ==
  LET closed  == Implements /\ gate # "open"
      refused == Implements /\ contract = "required" /\ (closed \/ status # "provider_failure")
      final   == IF closed \/ refused THEN "failed" ELSE status
  IN [status      |-> final,
      outOfBudget |-> ~closed /\ status = "budget_exhausted",
      failure     |->
        CASE failure # "none"                                           -> failure
          [] final = "failed" /\ status # "provider_failure" /\ closed  -> "CONTEXT_INSUFFICIENT"
          [] final = "failed" /\ status # "provider_failure" /\ refused -> "IMPACT_REQUIRED"
          [] OTHER                                                      -> "none"]

EndAgent(status, failure) ==
  /\ pc' = "judge"
  /\ agent' = IF Implements THEN Result(status, failure, ctx, impact) ELSE agent
  /\ falsifier' = IF Implements THEN falsifier ELSE status

Continue == pc' = "loop" /\ UNCHANGED <<agent, falsifier>>

Budget == IF role = "Falsifier" THEN FalsifierBudget ELSE StepBudget

MayStep == pc = "loop" /\ steps < Budget

controller == <<task, role, preflight, browser, repairs, txn, result>>

ProviderFails ==
  /\ MayStep
  /\ EndAgent("provider_failure", "none")
  /\ outages' = outages \cup {"model"}
                \cup (IF Implements /\ ctx # "open" THEN {} ELSE {"model_open"})
  /\ UNCHANGED <<controller, loop, falsLog, version>>

\* An answer without tool calls.
AnswersWithoutTools ==
  /\ MayStep
  /\ EndAgent(IF Implements /\ (ctx # "open" \/ ~acted) THEN "failed" ELSE "done", "none")
  /\ UNCHANGED <<controller, loop, falsLog, ghosts>>

\* An empty answer after a tool that proved nothing: the agent is told to go on.
Nudged ==
  /\ MayStep /\ Implements /\ ctx = "open"
  /\ lastCall = "other"
  /\ steps' = steps + 1
  /\ lastCall' = "none"
  /\ Continue
  /\ UNCHANGED <<controller, ctx, impact, acted, log, stagnant, failedEdits,
                 falsLog, ghosts>>

\* context_sufficiency_check: the gate may open, stay closed, close again or
\* fail for good; the transcript restarts.  An impact contract is only
\* accepted behind an open gate.
ChecksContext(gate, accepted) ==
  /\ MayStep /\ Implements
  /\ steps' = steps + 1
  /\ ctx' = gate
  /\ impact' = IF gate = "open" /\ accepted /\ impact = "required" THEN "accepted" ELSE impact
  /\ acted' = TRUE /\ lastCall' = "none"
  /\ Continue
  /\ UNCHANGED <<controller, log, stagnant, failedEdits, falsLog, ghosts>>

\* A successful write_file, edit_file or edit_file_range.
Edits ==
  /\ MayStep /\ Implements
  /\ ctx = "open" /\ impact # "required"
  /\ version < MaxEdits
  /\ version' = version + 1
  /\ steps' = steps + 1
  /\ acted' = TRUE /\ lastCall' = "other"
  /\ Continue
  /\ UNCHANGED <<controller, ctx, impact, log, stagnant, failedEdits, falsLog,
                 outages>>

\* A mutation that fails.  One the context gate blocks does not count.
EditFails ==
  /\ MayStep /\ Implements
  /\ steps' = steps + 1
  /\ acted' = TRUE /\ lastCall' = "other"
  /\ failedEdits' = IF role = "Builder" /\ ctx = "open" THEN failedEdits + 1 ELSE failedEdits
  /\ IF failedEdits' = FailedEditLimit /\ role = "Builder" /\ ctx = "open"
       THEN EndAgent("too_broad", "none")
       ELSE Continue
  /\ UNCHANGED <<controller, ctx, impact, log, stagnant, falsLog, ghosts>>

\* Reading, searching, a rejected or malformed call.
OtherCall ==
  /\ MayStep
  /\ steps' = steps + 1
  /\ acted' = TRUE /\ lastCall' = "other"
  /\ Continue
  /\ UNCHANGED <<controller, ctx, impact, log, stagnant, failedEdits, falsLog, ghosts>>

\* run_file, run_command or verify_web_app by the Builder or the Repairer.
\* A browser pass ends the agent; the same browser failure StagnationLimit
\* times in a row ends the Builder.
Verifies(c, text) ==
  /\ MayStep /\ Implements
  /\ steps' = steps + 1
  /\ acted' = TRUE
  /\ lastCall' = IF text = "pass" THEN "verified" ELSE "other"
  /\ log' = [log EXCEPT ![c] = text]
  /\ stagnant' = IF role = "Builder" /\ c = Web /\ text # "pass"
                   THEN <<text, IF stagnant[1] = text THEN stagnant[2] + 1 ELSE 1>>
                   ELSE stagnant
  /\ CASE c = Web /\ text = "pass"                -> EndAgent("done", "none")
       [] stagnant'[2] = StagnationLimit /\ c = Web -> EndAgent("too_broad", "none")
       [] OTHER                                   -> Continue
  /\ UNCHANGED <<controller, ctx, impact, failedEdits, falsLog, ghosts>>

FalsifierVerifies(c, text) ==
  /\ MayStep /\ role = "Falsifier"
  /\ steps' = steps + 1
  /\ falsLog' = [falsLog EXCEPT ![c] = text]
  /\ Continue
  /\ UNCHANGED <<controller, ctx, impact, acted, lastCall, log, stagnant, failedEdits,
                 ghosts>>

\* WorkerProgress and MutationGrounding stop a Builder under their policies.
WorkerStopped(failure) ==
  /\ MayStep /\ role = "Builder"
  /\ failure = "WORKER_NO_MUTATION_PROGRESS" => ctx = "open" /\ version = 0
  /\ failure = "MUTATION_TARGET_UNRESOLVED" => ctx = "open" /\ acted
  /\ EndAgent("failed", failure)
  /\ UNCHANGED <<controller, loop, falsLog, ghosts>>

BudgetEnds ==
  /\ pc = "loop" /\ steps = Budget
  /\ EndAgent(IF Implements THEN "budget_exhausted" ELSE "too_broad", "none")
  /\ UNCHANGED <<controller, loop, falsLog, ghosts>>

AgentStep ==
  \/ ProviderFails \/ AnswersWithoutTools \/ Nudged \/ BudgetEnds
  \/ Edits \/ EditFails \/ OtherCall
  \/ \E gate \in {"closed", "open", "failed"}, accepted \in BOOLEAN :
       ChecksContext(gate, accepted)
  \/ \E c \in Checks, text \in Texts \cup {"pass"} :
       Verifies(c, text) \/ FalsifierVerifies(c, text)
  \/ \E failure \in {"WORKER_NO_MUTATION_PROGRESS", "MUTATION_TARGET_UNRESOLVED"} :
       WorkerStopped(failure)

-----------------------------------------------------------------------------
(* The controller.                                                         *)

\* _context_sufficiency_failed: the failure type, or the failure code that the
\* gate itself keeps.
ContextFailed == agent.failure = "CONTEXT_INSUFFICIENT" \/ ctx = "failed"

TooBroad == IF kind = "integration" THEN "INTEGRATION_TOO_BROAD" ELSE "TASK_TOO_BROAD"

\* The integration leaf does not look at these.
WorkerGaveUp ==
  /\ kind = "implementation"
  /\ agent.failure \in {"WORKER_NO_MUTATION_PROGRESS", "MUTATION_TARGET_UNRESOLVED"}

Stops ==
  \/ agent.outOfBudget
  \/ agent.status \in {"too_broad", "provider_failure"}
  \/ WorkerGaveUp
  \/ ContextFailed

\* Mutant: a task that is too broad returns without closing its transaction.
StopsLeafOpen ==
  /\ pc = "judge" /\ Implements /\ Stops
  /\ CASE agent.outOfBudget -> Rollback("budget_exhausted", "EXECUTION_BUDGET_EXHAUSTED")
       [] agent.status = "too_broad" -> Return("too_broad", TooBroad) /\ UNCHANGED txn
       [] OTHER -> Rollback("failed", "ENVIRONMENT_ERROR")
  /\ UNCHANGED <<task, role, loop, agent, review, repairs, ghosts>>

\* What the controller does with the result of a Builder or a Repairer.
StopsLeaf ==
  /\ pc = "judge" /\ Implements /\ Stops
  /\ CASE agent.outOfBudget -> Rollback("budget_exhausted", "EXECUTION_BUDGET_EXHAUSTED")
       [] agent.status = "too_broad" -> Rollback("too_broad", TooBroad)
       [] agent.status = "provider_failure" -> Rollback("failed", "ENVIRONMENT_ERROR")
       [] WorkerGaveUp -> Rollback("failed", agent.failure)
       [] OTHER -> Rollback("failed", "CONTEXT_INSUFFICIENT")
  /\ UNCHANGED <<task, role, loop, agent, review, repairs, ghosts>>

\* An integration leaf first looks for conflicts between its children.
Preflight ==
  IF kind = "integration" THEN preflight' \in {"passed", "syntax", "conflict"}
                          ELSE UNCHANGED preflight

GoesOn ==
  /\ pc = "judge" /\ Implements /\ ~Stops
  /\ Preflight
  /\ pc' = IF role = "Builder" THEN "falsify" ELSE "browser"
  /\ UNCHANGED <<task, role, loop, agent, falsLog, falsifier, browser, repairs, txn, result,
                 ghosts>>

FalsifierNeeded == preflight = "passed" /\ ~lowRisk /\ agent.status = "done"

\* falsify_task: skipped for a low-risk task, a Builder that is not done, or
\* an integration conflict.
SkipsFalsifier ==
  /\ pc = "falsify" /\ ~FalsifierNeeded
  /\ pc' = "browser"
  /\ UNCHANGED <<task, role, loop, agent, review, repairs, txn, result, ghosts>>

StartsFalsifier ==
  /\ pc = "falsify" /\ FalsifierNeeded
  /\ pc' = "loop" /\ role' = "Falsifier" /\ steps' = 0
  /\ UNCHANGED <<task, ctx, impact, acted, lastCall, log, stagnant, failedEdits,
                 agent, review, repairs, txn, result, ghosts>>

\* Mutant: no status of the Falsifier counts.
FalsifierAlwaysEnds ==
  /\ pc = "judge" /\ role = "Falsifier"
  /\ role' = "Builder" /\ pc' = "browser"
  /\ UNCHANGED <<task, loop, agent, review, repairs, txn, result, ghosts>>

\* The only thing in the Falsifier's status that counts is a provider failure.
FalsifierEnds ==
  /\ pc = "judge" /\ role = "Falsifier"
  /\ role' = "Builder"
  /\ IF falsifier = "provider_failure"
       THEN Rollback("failed", "ENVIRONMENT_ERROR")
       ELSE pc' = "browser" /\ UNCHANGED <<txn, result>>
  /\ UNCHANGED <<task, loop, agent, review, repairs, ghosts>>

\* optional_browser_check: not applicable ("none", "skipped"), or run.
ChecksBrowser(seen) ==
  /\ pc = "browser"
  /\ seen \in IF preflight = "passed"
                THEN {"none", "skipped", "passed", "failed", "environment", "unresolved"}
                ELSE {"none"}
  /\ pc' = "gate"
  /\ browser' = seen
  /\ outages' = IF seen = "environment" THEN outages \cup {"visual"} ELSE outages
  /\ UNCHANGED <<task, role, loop, agent, falsLog, falsifier, preflight, repairs, txn, result,
                 version>>

\* The newest result of each check over the evidence the gate is given: the
\* first gate has the Builder's and then the Falsifier's, a later one only the
\* Repairer's.
Latest(c) == IF role = "Builder" /\ falsLog[c] # "unseen" THEN falsLog[c] ELSE log[c]

\* Mutant: a browser pass drops the Falsifier's failure too.
SupersededByAnyPass(c) == c = Web /\ browser = "passed"

\* A browser pass drops a failure of the browser check that is one of the
\* Builder's items of evidence: each run serves the page on a port of its own,
\* whose number is part of the result, so no Falsifier's item equals one.
Superseded(c) ==
  c = Web /\ browser = "passed" /\ (role = "Repairer" \/ falsLog[c] = "unseen")

\* A page nobody could find is no failure of a task that needs no browser.
NotApplicable(c) ==
  c = Web /\ browser = "skipped" /\ Latest(c) \in Texts /\ Meaning[Latest(c)] = "unresolved"

\* _current_verification_failures.
Failures == {c \in Checks : Latest(c) \in Texts /\ ~Superseded(c) /\ ~NotApplicable(c)}

BrowserRan == browser \notin {"none", "skipped"}

\* deterministic_quality_checks; aggregated is the verdict of the aggregation
\* of verification routes, which exists when the browser check had a route.
GateFails(aggregated) ==
  \/ agent.status # "done"
  \/ ~acted
  \/ Failures # {}
  \/ ~BrowserRan /\ \A c \in Checks : Latest(c) = "unseen"
  \/ BrowserRan /\ browser # "passed"
  \/ ~aggregated
  \/ preflight # "passed"

\* Mutant: the browser check's own environment failure is not looked at.
FailureTypeByText ==
  CASE \E c \in Failures : Meaning[Latest(c)] = "unresolved"  -> "VERIFICATION_TARGET_UNRESOLVED"
    [] \E c \in Failures : Meaning[Latest(c)] = "environment" -> "ENVIRONMENT_ERROR"
    [] OTHER                                                  -> "IMPLEMENTATION_ERROR"

\* classify_failure.
FailureType ==
  CASE browser = "environment"                                 -> "ENVIRONMENT_ERROR"
    [] \/ browser = "unresolved"
       \/ \E c \in Failures : Meaning[Latest(c)] = "unresolved"  -> "VERIFICATION_TARGET_UNRESOLVED"
    [] \E c \in Failures : Meaning[Latest(c)] = "environment" -> "ENVIRONMENT_ERROR"
    [] OTHER                                                    -> "IMPLEMENTATION_ERROR"

\* A failed gate of an integration leaf is not classified before the first
\* repair, nor while its own conflicts remain.
Classified == kind = "implementation" \/ (role = "Repairer" /\ preflight = "passed")

Blocked == Classified /\ FailureType # "IMPLEMENTATION_ERROR"

\* The gate passes; a required impact contract that does not match what was
\* changed still rolls the leaf back.
GatePasses(matches) ==
  /\ pc = "gate"
  /\ \E aggregated \in BOOLEAN :
       /\ browser = "none" => aggregated
       /\ ~GateFails(aggregated)
  /\ IF matches THEN Commit
       ELSE impact = "accepted" /\ Rollback("failed", "IMPACT_VERIFICATION_FAILED")
  /\ UNCHANGED <<task, role, loop, agent, review, repairs, ghosts>>

GateFailed ==
  /\ pc = "gate"
  /\ \E aggregated \in BOOLEAN :
       /\ browser = "none" => aggregated
       /\ GateFails(aggregated)

\* The failure is the environment's.
GateBlocks ==
  /\ GateFailed /\ Blocked
  /\ Rollback("failed", FailureType)
  /\ UNCHANGED <<task, role, loop, agent, review, repairs, ghosts>>

\* Mutant: a repair is not counted.
StartsRepairUncounted ==
  /\ GateFailed /\ ~Blocked /\ repairs < MaxRepairs
  /\ StartAgent("Repairer")
  /\ UNCHANGED <<task, review, repairs, txn, result, ghosts>>

StartsRepair ==
  /\ GateFailed /\ ~Blocked /\ repairs < MaxRepairs
  /\ repairs' = repairs + 1
  /\ StartAgent("Repairer")
  /\ UNCHANGED <<task, review, txn, result, ghosts>>

RepairsSpent ==
  /\ GateFailed /\ ~Blocked /\ repairs = MaxRepairs
  /\ Rollback("failed", IF preflight = "conflict" THEN "INTEGRATION_FAILURE"
                                                  ELSE "IMPLEMENTATION_ERROR")
  /\ UNCHANGED <<task, role, loop, agent, review, repairs, ghosts>>

ControllerStep ==
  \/ PrepareFails \/ BeginLeaf
  \/ StopsLeaf \/ GoesOn
  \/ SkipsFalsifier \/ StartsFalsifier \/ FalsifierEnds
  \/ \E seen \in {"none", "skipped", "passed", "failed", "environment", "unresolved"} :
       ChecksBrowser(seen)
  \/ \E matches \in BOOLEAN : GatePasses(matches)
  \/ GateBlocks \/ StartsRepair \/ RepairsSpent

Next == AgentStep \/ ControllerStep

\* Every loop of the leaf is bounded and every call in it has a timeout.
Spec == Init /\ [][Next]_vars /\ WF_vars(Next)
-----------------------------------------------------------------------------
(* Properties.                                                             *)

\* The type invariant of the module.
TypeOK ==
  /\ kind \in Kinds /\ lowRisk \in BOOLEAN
  /\ pc \in {"prepare", "loop", "judge", "falsify", "browser", "gate", "end"}
  /\ role \in {"Builder", "Falsifier", "Repairer"}
  /\ steps \in Nat
  /\ ctx \in {"closed", "open", "failed"}
  /\ impact \in {"not_required", "required", "accepted"}
  /\ acted \in BOOLEAN
  /\ lastCall \in {"none", "verified", "other"}
  /\ log \in [Checks -> Texts \cup {"pass", "unseen"}]
  /\ falsLog \in [Checks -> Texts \cup {"pass", "unseen"}]
  /\ stagnant \in (Texts \cup {"pass"}) \X Nat
  /\ failedEdits \in Nat
  /\ agent \in [status : {"working", "done", "failed", "provider_failure", "too_broad",
                          "budget_exhausted"},
                failure : FailureTypes \cup {"none"},
                outOfBudget : BOOLEAN]
  /\ falsifier \in {"skipped", "done", "provider_failure", "too_broad"}
  /\ preflight \in {"passed", "syntax", "conflict"}
  /\ browser \in {"none", "skipped", "passed", "failed", "environment", "unresolved"}
  /\ repairs \in Nat
  /\ txn \in {"none", "active", "committed", "rolled_back"}
  /\ result \in [status : {"none", "done", "failed", "too_broad", "budget_exhausted"},
                 type : FailureTypes \cup {"none"}]
  /\ version \in Nat
  /\ outages \subseteq {"model", "model_open", "visual"}

\* On every path through the controller, each return says what became of the
\* transaction: a leaf is "done" exactly when its edits were committed, every
\* other result of a leaf that made edits left them rolled back, and no leaf
\* returns with its transaction open.
ResultMatchesTransaction ==
  pc = "end" =>
    /\ result.status = "done" <=> txn = "committed"
    /\ txn # "active"
    /\ version > 0 => txn \in {"committed", "rolled_back"}

\* README: "provider/environment failures are reported without decomposition",
\* and classify_failure: where the gate was open, a model that fails to answer
\* ends the leaf: whichever agent it failed, no gate and no other agent runs.
ProviderFailureEndsLeaf ==
  "model_open" \in outages => pc \in {"judge", "end"} /\ (pc = "end" => txn = "rolled_back")

\* A page that was looked for in vain, where no browser check applies.
Irrelevant(c, text) == c = Web /\ browser = "skipped" /\ Meaning[text] = "unresolved"

\* A commit without a repair has no failure on record that nobody contradicted
\* since: the Falsifier's last result of each check is a pass, also where the
\* controller's own browser check passed after it, and so is the Builder's last
\* result of each check the Falsifier left alone, but for a browser failure
\* that the controller's check contradicts.
RefutationBlocksCommit ==
  txn = "committed" /\ repairs = 0 =>
    \A c \in Checks :
      /\ falsLog[c] \in Texts => Irrelevant(c, falsLog[c])
      /\ falsLog[c] = "unseen" /\ log[c] \in Texts
           => (c = Web /\ browser = "passed") \/ Irrelevant(c, log[c])

\* An agent may end as "done" by a browser pass while its context gate is
\* closed, and the gate may close again behind its edits: what is committed
\* comes from an agent whose gate was open, and whose impact contract was
\* accepted, when it ended.
CommitHasSufficientContext ==
  txn = "committed" => ctx = "open" /\ impact # "required"

\* Every leaf returns, whatever the model answers.
LeafReturns == <>(pc = "end")

\* README: "visual/model environment failures never trigger application-code
\* edits".  After a browser check that found no working browser, no agent of
\* an implementation leaf edits again,
VisualFailureTriggersNoEdit ==
  [][version' # version /\ kind = "implementation" => "visual" \notin outages]_vars

\* nor does any agent after a model that did not answer.
ModelFailureTriggersNoEdit ==
  [][version' # version => "model" \notin outages]_vars

\* README: "The final transaction is committed only after executable evidence,
\* a read-only adversarial Falsifier pass, and the deterministic evidence gate
\* succeed": a check that the Falsifier saw fail was seen to pass before the
\* repaired leaf is committed.
FalsifierPassedCommit ==
  txn = "committed" /\ repairs > 0 =>
    \A c \in Checks : falsLog[c] \in Texts => log[c] = "pass" \/ (c = Web /\ browser = "passed")
=============================================================================
