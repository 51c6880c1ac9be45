-------------------------- MODULE LeafEngineProofs --------------------------
(***************************************************************************)
(* Theorems about LeafEngine, for every value of its constants.            *)
(*                                                                         *)
(* The inductive invariant is the conjunction of four parts.  The first    *)
(* ties the transaction to the controller, the second the agent's result   *)
(* to its gates, the third a failed model to the way the leaf takes next,  *)
(* the fourth what was committed to the evidence on record.  The types are *)
(* inductive on their own and none of the four needs them.                 *)
(***************************************************************************)
EXTENDS LeafEngine, TLAPS

\* The transaction is open exactly while the leaf is under way, and what the
\* leaf returns says how it was closed.
TxnFollowsController ==
  /\ txn = "active" <=> pc \notin {"prepare", "end"}
  /\ txn \in {"none", "active", "committed", "rolled_back"}
  /\ txn = "none" => version = 0
  /\ pc = "prepare" => txn = "none"
  /\ pc = "end" => (result.status = "done" <=> txn = "committed")

\* An agent has no result while it works, and a result of "done" comes from an
\* agent that was allowed to edit when it ended.
DoneIsAuthorised ==
  /\ pc = "loop" /\ Implements => agent.status = "working"
  /\ agent.status = "done" => ctx = "open" /\ impact # "required"
  /\ txn = "committed" => agent.status = "done"

\* After a model that did not answer behind an open gate, the controller is
\* about to roll back, or has.
FailureIsPending ==
  "model_open" \in outages =>
    /\ pc \in {"judge", "end"}
    /\ pc = "judge" => IF Implements THEN agent.status = "provider_failure"
                                    ELSE role = "Falsifier" /\ falsifier = "provider_failure"
    /\ pc = "end" => txn = "rolled_back"

\* The gate is asked about the Builder until the first repair, and what it
\* lets pass has no failure on record.
GateSeesBuilder ==
  /\ role \in {"Builder", "Falsifier", "Repairer"}
  /\ pc = "prepare" => outages = {} /\ role = "Builder"
  /\ pc \in {"falsify", "browser", "gate"} => role # "Falsifier"
  /\ repairs \in Nat /\ (repairs = 0 => role # "Repairer")
  /\ RefutationBlocksCommit

\* After a browser check without a working browser, the gate of an
\* implementation leaf rolls back.
VisualFailureIsPending ==
  kind = "implementation" /\ "visual" \in outages =>
    pc \in {"gate", "end"} /\ (pc = "gate" => browser = "environment")

\* The action of VisualFailureTriggersNoEdit.
VisualFailureStep == version' # version /\ kind = "implementation" => "visual" \notin outages

LeafInvariant == TxnFollowsController /\ DoneIsAuthorised /\ FailureIsPending /\ GateSeesBuilder

LEMMA InitLeafInvariant == Init => LeafInvariant
BY DEF Init, LeafInvariant, TxnFollowsController, DoneIsAuthorised, FailureIsPending,
     GateSeesBuilder, RefutationBlocksCommit, Working

\* What the transaction is follows the controller through every step.
LEMMA TxnStep == TxnFollowsController /\ [Next]_vars => TxnFollowsController'
<1> SUFFICES ASSUME TxnFollowsController, [Next]_vars PROVE TxnFollowsController'
  OBVIOUS
<1>1. CASE ProviderFails
  BY <1>1 DEF TxnFollowsController, ProviderFails, EndAgent, MayStep, controller
<1>2. CASE AnswersWithoutTools \/ BudgetEnds
  BY <1>2 DEF TxnFollowsController, AnswersWithoutTools, BudgetEnds, EndAgent, MayStep,
       controller
<1>3. CASE Nudged \/ OtherCall
  BY <1>3 DEF TxnFollowsController, Nudged, OtherCall, Continue, MayStep, controller
<1>4. CASE Edits
  BY <1>4 DEF TxnFollowsController, Edits, Continue, MayStep, controller
<1>5. CASE EditFails
  BY <1>5 DEF TxnFollowsController, EditFails, EndAgent, Continue, MayStep, controller
<1>6. ASSUME NEW gate \in {"closed", "open", "failed"}, NEW accepted \in BOOLEAN,
             ChecksContext(gate, accepted)
      PROVE  TxnFollowsController'
  BY <1>6 DEF TxnFollowsController, ChecksContext, Continue, MayStep, controller
<1>7. ASSUME NEW c \in Checks, NEW text \in Texts \cup {"pass"}, Verifies(c, text)
      PROVE  TxnFollowsController'
  BY <1>7 DEF TxnFollowsController, Verifies, EndAgent, Continue, MayStep, controller
<1>8. ASSUME NEW c \in Checks, NEW text \in Texts \cup {"pass"}, FalsifierVerifies(c, text)
      PROVE  TxnFollowsController'
  BY <1>8 DEF TxnFollowsController, FalsifierVerifies, Continue, MayStep, controller
<1>9. ASSUME NEW failure \in {"WORKER_NO_MUTATION_PROGRESS", "MUTATION_TARGET_UNRESOLVED"},
             WorkerStopped(failure)
      PROVE  TxnFollowsController'
  BY <1>9 DEF TxnFollowsController, WorkerStopped, EndAgent, MayStep, controller
<1>10. CASE PrepareFails
  BY <1>10 DEF TxnFollowsController, PrepareFails, ghosts
<1>11. CASE BeginLeaf
  BY <1>11 DEF TxnFollowsController, BeginLeaf, StartAgent
<1>12. CASE StopsLeaf
  BY <1>12 DEF TxnFollowsController, StopsLeaf, Return, Rollback
<1>13. CASE GoesOn
  BY <1>13 DEF TxnFollowsController, GoesOn
<1>14. CASE SkipsFalsifier \/ StartsFalsifier
  BY <1>14 DEF TxnFollowsController, SkipsFalsifier, StartsFalsifier
<1>15. CASE FalsifierEnds
  BY <1>15 DEF TxnFollowsController, FalsifierEnds, Return, Rollback
<1>16. ASSUME NEW seen \in {"none", "skipped", "passed", "failed", "environment", "unresolved"},
             ChecksBrowser(seen)
      PROVE  TxnFollowsController'
  BY <1>16 DEF TxnFollowsController, ChecksBrowser
<1>17. ASSUME NEW matches \in BOOLEAN, GatePasses(matches)
      PROVE  TxnFollowsController'
  BY <1>17 DEF TxnFollowsController, GatePasses, Return, Rollback, Commit
<1>18. CASE GateBlocks \/ RepairsSpent
  BY <1>18 DEF TxnFollowsController, GateBlocks, RepairsSpent, Return, Rollback
<1>19. CASE StartsRepair
  BY <1>19 DEF TxnFollowsController, StartsRepair, GateFailed, StartAgent
<1>20. CASE UNCHANGED vars
  BY <1>20 DEF TxnFollowsController, vars, ghosts
<1> QED
  BY <1>1, <1>2, <1>3, <1>4, <1>5, <1>6, <1>7, <1>8, <1>9, <1>10, <1>11, <1>12, <1>13,
       <1>14, <1>15, <1>16, <1>17, <1>18, <1>19, <1>20
  DEF Next, AgentStep, ControllerStep

\* The epilogue of every agent overrides a "done" behind a closed gate.
LEMMA AuthorisedStep == LeafInvariant /\ [Next]_vars => DoneIsAuthorised'
<1> SUFFICES ASSUME LeafInvariant, [Next]_vars PROVE DoneIsAuthorised'
  OBVIOUS
<1>1. CASE ProviderFails
  BY <1>1 DEF LeafInvariant, DoneIsAuthorised, ProviderFails, EndAgent, MayStep, Result, loop,
       controller
<1>2. CASE AnswersWithoutTools \/ BudgetEnds
  BY <1>2 DEF LeafInvariant, DoneIsAuthorised, AnswersWithoutTools, BudgetEnds, EndAgent,
       MayStep, Result, loop, controller
<1>3. CASE Nudged \/ OtherCall
  BY <1>3 DEF LeafInvariant, DoneIsAuthorised, Nudged, OtherCall, Continue, MayStep, Implements,
       controller
<1>4. CASE Edits
  BY <1>4 DEF LeafInvariant, DoneIsAuthorised, Edits, Continue, MayStep, controller
<1>5. CASE EditFails
  BY <1>5 DEF LeafInvariant, DoneIsAuthorised, EditFails, EndAgent, Continue, MayStep, Result,
       controller
<1>6. ASSUME NEW gate \in {"closed", "open", "failed"}, NEW accepted \in BOOLEAN,
             ChecksContext(gate, accepted)
      PROVE  DoneIsAuthorised'
  BY <1>6 DEF LeafInvariant, DoneIsAuthorised, ChecksContext, Continue, MayStep, controller
<1>7. ASSUME NEW c \in Checks, NEW text \in Texts \cup {"pass"}, Verifies(c, text)
      PROVE  DoneIsAuthorised'
  BY <1>7 DEF LeafInvariant, DoneIsAuthorised, Verifies, EndAgent, Continue, MayStep, Result,
       controller
<1>8. ASSUME NEW c \in Checks, NEW text \in Texts \cup {"pass"}, FalsifierVerifies(c, text)
      PROVE  DoneIsAuthorised'
  BY <1>8 DEF LeafInvariant, DoneIsAuthorised, FalsifierVerifies, Continue, Implements,
       controller
<1>9. ASSUME NEW failure \in {"WORKER_NO_MUTATION_PROGRESS", "MUTATION_TARGET_UNRESOLVED"},
             WorkerStopped(failure)
      PROVE  DoneIsAuthorised'
  BY <1>9 DEF LeafInvariant, DoneIsAuthorised, WorkerStopped, EndAgent, MayStep, Result, loop,
       controller
<1>10. CASE PrepareFails
  BY <1>10 DEF LeafInvariant, DoneIsAuthorised, PrepareFails, loop
<1>11. CASE BeginLeaf
  BY <1>11 DEF DoneIsAuthorised, BeginLeaf, StartAgent, Working
<1>12. CASE StopsLeaf
  BY <1>12 DEF LeafInvariant, DoneIsAuthorised, StopsLeaf, Return, Rollback, loop
<1>13. CASE GoesOn
  BY <1>13 DEF LeafInvariant, DoneIsAuthorised, GoesOn, loop
<1>14. CASE SkipsFalsifier \/ StartsFalsifier
  BY <1>14 DEF LeafInvariant, DoneIsAuthorised, SkipsFalsifier, StartsFalsifier, Implements,
       loop
<1>15. CASE FalsifierEnds
  BY <1>15 DEF LeafInvariant, DoneIsAuthorised, FalsifierEnds, Return, Rollback, loop
<1>16. ASSUME NEW seen \in {"none", "skipped", "passed", "failed", "environment", "unresolved"},
             ChecksBrowser(seen)
      PROVE  DoneIsAuthorised'
  BY <1>16 DEF LeafInvariant, DoneIsAuthorised, ChecksBrowser, loop
<1>17. ASSUME NEW matches \in BOOLEAN, GatePasses(matches)
      PROVE  DoneIsAuthorised'
  BY <1>17 DEF LeafInvariant, DoneIsAuthorised, GatePasses, GateFails, Return, Rollback, Commit,
       loop
<1>18. CASE GateBlocks \/ RepairsSpent
  BY <1>18 DEF LeafInvariant, DoneIsAuthorised, GateBlocks, RepairsSpent, Return, Rollback, loop
<1>19. CASE StartsRepair
  BY <1>19 DEF LeafInvariant, TxnFollowsController, DoneIsAuthorised, StartsRepair, GateFailed,
       StartAgent, Working
<1>20. CASE UNCHANGED vars
  BY <1>20 DEF LeafInvariant, DoneIsAuthorised, vars, Implements, loop
<1> QED
  BY <1>1, <1>2, <1>3, <1>4, <1>5, <1>6, <1>7, <1>8, <1>9, <1>10, <1>11, <1>12, <1>13,
       <1>14, <1>15, <1>16, <1>17, <1>18, <1>19, <1>20
  DEF Next, AgentStep, ControllerStep

\* No step of the controller passes over a model that did not answer.
LEMMA FailureStep == LeafInvariant /\ [Next]_vars => FailureIsPending'
<1> SUFFICES ASSUME LeafInvariant, [Next]_vars PROVE FailureIsPending'
  OBVIOUS
<1>1. CASE ProviderFails
  BY <1>1 DEF LeafInvariant, FailureIsPending, GateSeesBuilder, ProviderFails, EndAgent,
       MayStep, Result, Implements, controller
<1>2. CASE AnswersWithoutTools \/ BudgetEnds
  BY <1>2 DEF LeafInvariant, FailureIsPending, AnswersWithoutTools, BudgetEnds, MayStep, ghosts
<1>3. CASE Nudged \/ OtherCall
  BY <1>3 DEF LeafInvariant, FailureIsPending, Nudged, OtherCall, MayStep, ghosts
<1>4. CASE Edits
  BY <1>4 DEF LeafInvariant, FailureIsPending, Edits, MayStep
<1>5. CASE EditFails
  BY <1>5 DEF LeafInvariant, FailureIsPending, EditFails, MayStep, ghosts
<1>6. ASSUME NEW gate \in {"closed", "open", "failed"}, NEW accepted \in BOOLEAN,
             ChecksContext(gate, accepted)
      PROVE  FailureIsPending'
  BY <1>6 DEF LeafInvariant, FailureIsPending, ChecksContext, MayStep, ghosts
<1>7. ASSUME NEW c \in Checks, NEW text \in Texts \cup {"pass"}, Verifies(c, text)
      PROVE  FailureIsPending'
  BY <1>7 DEF LeafInvariant, FailureIsPending, Verifies, MayStep, ghosts
<1>8. ASSUME NEW c \in Checks, NEW text \in Texts \cup {"pass"}, FalsifierVerifies(c, text)
      PROVE  FailureIsPending'
  BY <1>8 DEF LeafInvariant, FailureIsPending, FalsifierVerifies, MayStep, ghosts
<1>9. ASSUME NEW failure \in {"WORKER_NO_MUTATION_PROGRESS", "MUTATION_TARGET_UNRESOLVED"},
             WorkerStopped(failure)
      PROVE  FailureIsPending'
  BY <1>9 DEF LeafInvariant, FailureIsPending, WorkerStopped, MayStep, ghosts
<1>10. CASE PrepareFails
  BY <1>10 DEF LeafInvariant, FailureIsPending, PrepareFails, ghosts
<1>11. CASE BeginLeaf
  BY <1>11 DEF LeafInvariant, FailureIsPending, BeginLeaf, ghosts
<1>12. CASE StopsLeaf
  BY <1>12 DEF FailureIsPending, StopsLeaf, Return, Rollback
<1>13. CASE GoesOn
  BY <1>13 DEF LeafInvariant, FailureIsPending, GoesOn, Stops, ghosts
<1>14. CASE SkipsFalsifier \/ StartsFalsifier
  BY <1>14 DEF LeafInvariant, FailureIsPending, SkipsFalsifier, StartsFalsifier, ghosts
<1>15. CASE FalsifierEnds
  BY <1>15 DEF LeafInvariant, FailureIsPending, FalsifierEnds, Return, Rollback, Implements,
       ghosts
<1>16. ASSUME NEW seen \in {"none", "skipped", "passed", "failed", "environment", "unresolved"},
             ChecksBrowser(seen)
      PROVE  FailureIsPending'
  BY <1>16 DEF LeafInvariant, FailureIsPending, ChecksBrowser
<1>17. ASSUME NEW matches \in BOOLEAN, GatePasses(matches)
      PROVE  FailureIsPending'
  BY <1>17 DEF LeafInvariant, FailureIsPending, GatePasses, ghosts
<1>18. CASE GateBlocks \/ RepairsSpent
  BY <1>18 DEF FailureIsPending, GateBlocks, RepairsSpent, Return, Rollback
<1>19. CASE StartsRepair
  BY <1>19 DEF LeafInvariant, FailureIsPending, StartsRepair, GateFailed, ghosts
<1>20. CASE UNCHANGED vars
  BY <1>20 DEF LeafInvariant, FailureIsPending, vars, Implements, review, ghosts
<1> QED
  BY <1>1, <1>2, <1>3, <1>4, <1>5, <1>6, <1>7, <1>8, <1>9, <1>10, <1>11, <1>12, <1>13,
       <1>14, <1>15, <1>16, <1>17, <1>18, <1>19, <1>20
  DEF Next, AgentStep, ControllerStep

\* The gate refuses what the Falsifier refuted.
LEMMA GateStep == LeafInvariant /\ [Next]_vars => GateSeesBuilder'
<1> SUFFICES ASSUME LeafInvariant, [Next]_vars PROVE GateSeesBuilder'
  OBVIOUS
<1>1. CASE ProviderFails
  BY <1>1 DEF LeafInvariant, TxnFollowsController, GateSeesBuilder, RefutationBlocksCommit,
       ProviderFails, EndAgent, MayStep, controller
<1>2. CASE AnswersWithoutTools \/ BudgetEnds
  BY <1>2 DEF LeafInvariant, TxnFollowsController, GateSeesBuilder, RefutationBlocksCommit,
       AnswersWithoutTools, BudgetEnds, EndAgent, MayStep, controller
<1>3. CASE Nudged \/ OtherCall
  BY <1>3 DEF LeafInvariant, TxnFollowsController, GateSeesBuilder, RefutationBlocksCommit,
       Nudged, OtherCall, Continue, MayStep, controller
<1>4. CASE Edits
  BY <1>4 DEF LeafInvariant, TxnFollowsController, GateSeesBuilder, RefutationBlocksCommit,
       Edits, Continue, MayStep, controller
<1>5. CASE EditFails
  BY <1>5 DEF LeafInvariant, TxnFollowsController, GateSeesBuilder, RefutationBlocksCommit,
       EditFails, EndAgent, Continue, MayStep, controller
<1>6. ASSUME NEW gate \in {"closed", "open", "failed"}, NEW accepted \in BOOLEAN,
             ChecksContext(gate, accepted)
      PROVE  GateSeesBuilder'
  BY <1>6 DEF LeafInvariant, TxnFollowsController, GateSeesBuilder, RefutationBlocksCommit,
       ChecksContext, Continue, MayStep, controller
<1>7. ASSUME NEW c \in Checks, NEW text \in Texts \cup {"pass"}, Verifies(c, text)
      PROVE  GateSeesBuilder'
  BY <1>7 DEF LeafInvariant, TxnFollowsController, GateSeesBuilder, RefutationBlocksCommit,
       Verifies, EndAgent, Continue, MayStep, controller
<1>8. ASSUME NEW c \in Checks, NEW text \in Texts \cup {"pass"}, FalsifierVerifies(c, text)
      PROVE  GateSeesBuilder'
  BY <1>8 DEF LeafInvariant, TxnFollowsController, GateSeesBuilder, RefutationBlocksCommit,
       FalsifierVerifies, Continue, MayStep, controller
<1>9. ASSUME NEW failure \in {"WORKER_NO_MUTATION_PROGRESS", "MUTATION_TARGET_UNRESOLVED"},
             WorkerStopped(failure)
      PROVE  GateSeesBuilder'
  BY <1>9 DEF LeafInvariant, TxnFollowsController, GateSeesBuilder, RefutationBlocksCommit,
       WorkerStopped, EndAgent, MayStep, controller
<1>10. CASE PrepareFails
  BY <1>10 DEF LeafInvariant, TxnFollowsController, GateSeesBuilder, RefutationBlocksCommit,
       PrepareFails
<1>11. CASE BeginLeaf
  BY <1>11 DEF LeafInvariant, GateSeesBuilder, RefutationBlocksCommit, BeginLeaf, StartAgent
<1>12. CASE StopsLeaf
  BY <1>12 DEF LeafInvariant, GateSeesBuilder, RefutationBlocksCommit, StopsLeaf, Return,
       Rollback
<1>13. CASE GoesOn
  BY <1>13 DEF LeafInvariant, TxnFollowsController, GateSeesBuilder, RefutationBlocksCommit,
       GoesOn, Implements
<1>14. CASE SkipsFalsifier \/ StartsFalsifier
  BY <1>14 DEF LeafInvariant, TxnFollowsController, GateSeesBuilder, RefutationBlocksCommit,
       SkipsFalsifier, StartsFalsifier
<1>15. CASE FalsifierEnds
  BY <1>15 DEF LeafInvariant, TxnFollowsController, GateSeesBuilder, RefutationBlocksCommit,
       FalsifierEnds, Return, Rollback
<1>16. ASSUME NEW seen \in {"none", "skipped", "passed", "failed", "environment", "unresolved"},
             ChecksBrowser(seen)
      PROVE  GateSeesBuilder'
  BY <1>16 DEF LeafInvariant, TxnFollowsController, GateSeesBuilder, RefutationBlocksCommit,
       ChecksBrowser
<1>17. ASSUME NEW matches \in BOOLEAN, GatePasses(matches)
      PROVE  GateSeesBuilder'
  <2>1. pc = "gate" /\ role # "Falsifier" /\ txn # "committed" /\ repairs' = repairs
        /\ role' = role /\ pc' = "end" /\ outages' = outages
        /\ UNCHANGED <<falsLog, log, browser>>
    BY <1>17 DEF GatePasses, Return, Rollback, Commit, TxnFollowsController, LeafInvariant,
         GateSeesBuilder, loop, review, ghosts
  <2>2. Failures = {}
    BY <1>17 DEF GatePasses, GateFails
  <2>3. ASSUME repairs = 0, NEW c \in Checks
        PROVE  /\ falsLog[c] \in Texts => Irrelevant(c, falsLog[c])
               /\ falsLog[c] = "unseen" /\ log[c] \in Texts
                    => (c = Web /\ browser = "passed") \/ Irrelevant(c, log[c])
    BY <2>1, <2>2, <2>3, ConstantsAssumption DEF Failures, Latest, Superseded, NotApplicable,
         Irrelevant, LeafInvariant, GateSeesBuilder
  <2> QED
    BY <2>1, <2>3 DEF LeafInvariant, GateSeesBuilder, RefutationBlocksCommit, Irrelevant
<1>18. CASE GateBlocks \/ RepairsSpent
  BY <1>18 DEF LeafInvariant, GateSeesBuilder, RefutationBlocksCommit, GateBlocks, RepairsSpent,
       Return, Rollback
<1>19. CASE StartsRepair
  BY <1>19 DEF LeafInvariant, GateSeesBuilder, RefutationBlocksCommit, StartsRepair, StartAgent
<1>20. CASE UNCHANGED vars
  BY <1>20 DEF LeafInvariant, GateSeesBuilder, RefutationBlocksCommit, Irrelevant, vars, loop,
       review, ghosts
<1> QED
  BY <1>1, <1>2, <1>3, <1>4, <1>5, <1>6, <1>7, <1>8, <1>9, <1>10, <1>11, <1>12, <1>13,
       <1>14, <1>15, <1>16, <1>17, <1>18, <1>19, <1>20
  DEF Next, AgentStep, ControllerStep

\* The gate of an implementation leaf blocks every repair after an environment failure.
LEMMA VisualStep ==
  LeafInvariant /\ VisualFailureIsPending /\ [Next]_vars
    => VisualFailureIsPending' /\ VisualFailureStep
<1> SUFFICES ASSUME LeafInvariant /\ VisualFailureIsPending, [Next]_vars
             PROVE  VisualFailureIsPending' /\ VisualFailureStep
  OBVIOUS
<1>1. CASE ProviderFails
  BY <1>1 DEF VisualFailureIsPending, VisualFailureStep, ProviderFails, MayStep, task,
       controller
<1>2. CASE AnswersWithoutTools \/ BudgetEnds
  BY <1>2 DEF VisualFailureIsPending, VisualFailureStep, AnswersWithoutTools, BudgetEnds,
       MayStep, task, controller, ghosts
<1>3. CASE Nudged \/ OtherCall
  BY <1>3 DEF VisualFailureIsPending, VisualFailureStep, Nudged, OtherCall, MayStep, task,
       controller, ghosts
<1>4. CASE Edits
  BY <1>4 DEF VisualFailureIsPending, VisualFailureStep, Edits, MayStep, task, controller
<1>5. CASE EditFails
  BY <1>5 DEF VisualFailureIsPending, VisualFailureStep, EditFails, MayStep, task, controller,
       ghosts
<1>6. ASSUME NEW gate \in {"closed", "open", "failed"}, NEW accepted \in BOOLEAN,
             ChecksContext(gate, accepted)
      PROVE  VisualFailureIsPending' /\ VisualFailureStep
  BY <1>6 DEF VisualFailureIsPending, VisualFailureStep, ChecksContext, MayStep, task,
       controller, ghosts
<1>7. ASSUME NEW c \in Checks, NEW text \in Texts \cup {"pass"}, Verifies(c, text)
      PROVE  VisualFailureIsPending' /\ VisualFailureStep
  BY <1>7 DEF VisualFailureIsPending, VisualFailureStep, Verifies, MayStep, task, controller,
       ghosts
<1>8. ASSUME NEW c \in Checks, NEW text \in Texts \cup {"pass"}, FalsifierVerifies(c, text)
      PROVE  VisualFailureIsPending' /\ VisualFailureStep
  BY <1>8 DEF VisualFailureIsPending, VisualFailureStep, FalsifierVerifies, MayStep, task,
       controller, ghosts
<1>9. ASSUME NEW failure \in {"WORKER_NO_MUTATION_PROGRESS", "MUTATION_TARGET_UNRESOLVED"},
             WorkerStopped(failure)
      PROVE  VisualFailureIsPending' /\ VisualFailureStep
  BY <1>9 DEF VisualFailureIsPending, VisualFailureStep, WorkerStopped, MayStep, task,
       controller, ghosts
<1>10. CASE PrepareFails
  BY <1>10 DEF VisualFailureIsPending, VisualFailureStep, PrepareFails
<1>11. CASE BeginLeaf
  BY <1>11 DEF VisualFailureIsPending, VisualFailureStep, BeginLeaf, task, ghosts
<1>12. CASE StopsLeaf
  BY <1>12 DEF VisualFailureIsPending, VisualFailureStep, StopsLeaf, task, ghosts
<1>13. CASE GoesOn
  BY <1>13 DEF VisualFailureIsPending, VisualFailureStep, GoesOn, task, ghosts
<1>14. CASE SkipsFalsifier \/ StartsFalsifier
  BY <1>14 DEF VisualFailureIsPending, VisualFailureStep, SkipsFalsifier, StartsFalsifier, task,
       ghosts
<1>15. CASE FalsifierEnds
  BY <1>15 DEF VisualFailureIsPending, VisualFailureStep, FalsifierEnds, task, ghosts
<1>16. ASSUME NEW seen \in {"none", "skipped", "passed", "failed", "environment", "unresolved"},
             ChecksBrowser(seen)
      PROVE  VisualFailureIsPending' /\ VisualFailureStep
  BY <1>16 DEF VisualFailureIsPending, VisualFailureStep, ChecksBrowser, task
<1>17. ASSUME NEW matches \in BOOLEAN, GatePasses(matches)
      PROVE  VisualFailureIsPending' /\ VisualFailureStep
  BY <1>17 DEF VisualFailureIsPending, VisualFailureStep, GatePasses, Return, Rollback, Commit,
       ghosts
<1>18. CASE GateBlocks \/ RepairsSpent
  BY <1>18 DEF VisualFailureIsPending, VisualFailureStep, GateBlocks, RepairsSpent, Return,
       Rollback, ghosts
<1>19. CASE StartsRepair
  BY <1>19 DEF VisualFailureIsPending, VisualFailureStep, StartsRepair, GateFailed, Blocked,
       Classified, FailureType, task, ghosts
<1>20. CASE UNCHANGED vars
  BY <1>20 DEF VisualFailureIsPending, VisualFailureStep, vars, task, review, ghosts
<1> QED
  BY <1>1, <1>2, <1>3, <1>4, <1>5, <1>6, <1>7, <1>8, <1>9, <1>10, <1>11, <1>12, <1>13,
       <1>14, <1>15, <1>16, <1>17, <1>18, <1>19, <1>20
  DEF Next, AgentStep, ControllerStep

\* The results of an agent.
AgentResults ==
  [status : {"working", "done", "failed", "provider_failure", "too_broad", "budget_exhausted"},
   failure : FailureTypes \cup {"none"}, outOfBudget : BOOLEAN]

FalsifierStatuses == {"skipped", "done", "provider_failure", "too_broad"}

\* The end of a loop gives an agent a result, and the Falsifier a status.
LEMMA EndAgentType ==
  ASSUME TypeOK, NEW status \in {"done", "failed", "provider_failure", "too_broad",
                                 "budget_exhausted"},
         NEW failure \in FailureTypes \cup {"none"}, EndAgent(status, failure),
         Implements \/ status \in FalsifierStatuses
  PROVE  pc' = "judge" /\ agent' \in AgentResults /\ falsifier' \in FalsifierStatuses
<1>1. Result(status, failure, ctx, impact) \in AgentResults
  <2> DEFINE closed  == Implements /\ ctx # "open"
             refused == Implements /\ impact = "required"
                          /\ (closed \/ status # "provider_failure")
             final   == IF closed \/ refused THEN "failed" ELSE status
             type    == CASE failure # "none" -> failure
                          [] final = "failed" /\ status # "provider_failure" /\ closed
                               -> "CONTEXT_INSUFFICIENT"
                          [] final = "failed" /\ status # "provider_failure" /\ refused
                               -> "IMPACT_REQUIRED"
                          [] OTHER -> "none"
             out     == ~closed /\ status = "budget_exhausted"
  <2>1. Result(status, failure, ctx, impact)
          = [status |-> final, outOfBudget |-> out, failure |-> type]
    BY DEF Result
  <2>2. final \in {"done", "failed", "provider_failure", "too_broad", "budget_exhausted"}
    OBVIOUS
  <2>3. out \in BOOLEAN
    OBVIOUS
  <2>4. {"CONTEXT_INSUFFICIENT", "IMPACT_REQUIRED"} \subseteq FailureTypes
    BY DEF FailureTypes
  <2>5. type \in FailureTypes \cup {"none"}
    <3> HIDE DEF closed, refused, final
    <3> QED
      BY <2>4
  <2> HIDE DEF final, type, out
  <2> QED
    BY <2>1, <2>2, <2>3, <2>5 DEF AgentResults
<1>2. agent \in AgentResults /\ falsifier \in FalsifierStatuses
  BY DEF TypeOK, AgentResults, FalsifierStatuses
<1> QED
  BY <1>1, <1>2 DEF EndAgent

\* What an agent that goes on, or starts, keeps of its results.
LEMMA ContinueType ==
  ASSUME TypeOK, Continue
  PROVE  pc' = "loop" /\ agent' \in AgentResults /\ falsifier' \in FalsifierStatuses
BY DEF TypeOK, Continue, AgentResults, FalsifierStatuses

\* What the loop of an agent changes is of its type.
LoopTypeOK ==
  /\ steps \in Nat
  /\ ctx \in {"closed", "open", "failed"}
  /\ impact \in {"not_required", "required", "accepted"}
  /\ acted \in BOOLEAN
  /\ lastCall \in {"none", "verified", "other"}
  /\ log \in [Checks -> Texts \cup {"pass", "unseen"}]
  /\ falsLog \in [Checks -> Texts \cup {"pass", "unseen"}]
  /\ stagnant \in (Texts \cup {"pass"}) \X Nat
  /\ failedEdits \in Nat
  /\ version \in Nat
  /\ outages \subseteq {"model", "model_open", "visual"}

\* What is left to show of a step of an agent.
LEMMA AgentTypes ==
  ASSUME TypeOK, UNCHANGED controller, LoopTypeOK', pc' \in {"loop", "judge"},
         agent' \in AgentResults, falsifier' \in FalsifierStatuses
  PROVE  TypeOK'
BY DEF TypeOK, LoopTypeOK, controller, task, AgentResults, FalsifierStatuses

\* Every step of an agent keeps the types.
LEMMA AgentTypeStep == TypeOK /\ AgentStep => TypeOK'
<1> SUFFICES ASSUME TypeOK, AgentStep
             PROVE  TypeOK'
  OBVIOUS
<1> USE DEF FailureTypes
<1>1. CASE ProviderFails
  <2>1. pc' = "judge" /\ agent' \in AgentResults /\ falsifier' \in FalsifierStatuses
    BY <1>1, EndAgentType DEF ProviderFails, FalsifierStatuses
  <2>2. LoopTypeOK'
    BY <1>1 DEF ProviderFails, TypeOK, LoopTypeOK, loop
  <2> QED
    BY <1>1, <2>1, <2>2, AgentTypes DEF ProviderFails
<1>2. CASE AnswersWithoutTools
  <2>1. pc' = "judge" /\ agent' \in AgentResults /\ falsifier' \in FalsifierStatuses
    BY <1>2, EndAgentType DEF AnswersWithoutTools, FalsifierStatuses
  <2>2. LoopTypeOK'
    BY <1>2 DEF AnswersWithoutTools, TypeOK, LoopTypeOK, loop, ghosts
  <2> QED
    BY <1>2, <2>1, <2>2, AgentTypes DEF AnswersWithoutTools
<1>3. CASE Nudged
  <2>1. LoopTypeOK'
    BY <1>3 DEF Nudged, TypeOK, LoopTypeOK, ghosts
  <2> QED
    BY <1>3, <2>1, ContinueType, AgentTypes DEF Nudged
<1>4. CASE BudgetEnds
  <2>1. pc' = "judge" /\ agent' \in AgentResults /\ falsifier' \in FalsifierStatuses
    BY <1>4, EndAgentType DEF BudgetEnds, FalsifierStatuses
  <2>2. LoopTypeOK'
    BY <1>4 DEF BudgetEnds, TypeOK, LoopTypeOK, loop, ghosts
  <2> QED
    BY <1>4, <2>1, <2>2, AgentTypes DEF BudgetEnds
<1>5. CASE Edits
  <2>1. LoopTypeOK'
    BY <1>5 DEF Edits, TypeOK, LoopTypeOK
  <2> QED
    BY <1>5, <2>1, ContinueType, AgentTypes DEF Edits
<1>6. CASE EditFails
  <2>1. pc' \in {"loop", "judge"} /\ agent' \in AgentResults /\ falsifier' \in FalsifierStatuses
    BY <1>6, EndAgentType, ContinueType DEF EditFails
  <2>2. LoopTypeOK'
    BY <1>6 DEF EditFails, TypeOK, LoopTypeOK, ghosts
  <2> QED
    BY <1>6, <2>1, <2>2, AgentTypes DEF EditFails
<1>7. CASE OtherCall
  <2>1. LoopTypeOK'
    BY <1>7 DEF OtherCall, TypeOK, LoopTypeOK, ghosts
  <2> QED
    BY <1>7, <2>1, ContinueType, AgentTypes DEF OtherCall
<1>8. ASSUME NEW gate \in {"closed", "open", "failed"}, NEW accepted \in BOOLEAN,
             ChecksContext(gate, accepted)
      PROVE  TypeOK'
  <2>1. LoopTypeOK'
    BY <1>8 DEF ChecksContext, TypeOK, LoopTypeOK, ghosts
  <2> QED
    BY <1>8, <2>1, ContinueType, AgentTypes DEF ChecksContext
<1>9. ASSUME NEW c \in Checks, NEW text \in Texts \cup {"pass"}, Verifies(c, text)
      PROVE  TypeOK'
  <2>1. pc' \in {"loop", "judge"} /\ agent' \in AgentResults /\ falsifier' \in FalsifierStatuses
    <3>1. Implements /\ (EndAgent("done", "none") \/ EndAgent("too_broad", "none") \/ Continue)
      BY <1>9 DEF Verifies
    <3> QED
      BY <3>1, EndAgentType, ContinueType
  <2>2. stagnant' \in (Texts \cup {"pass"}) \X Nat
    BY <1>9 DEF Verifies, TypeOK
  <2>3. LoopTypeOK'
    BY <1>9, <2>2 DEF Verifies, TypeOK, LoopTypeOK, ghosts
  <2> QED
    BY <1>9, <2>1, <2>3, AgentTypes DEF Verifies
<1>10. ASSUME NEW c \in Checks, NEW text \in Texts \cup {"pass"}, FalsifierVerifies(c, text)
       PROVE  TypeOK'
  <2>1. LoopTypeOK'
    BY <1>10 DEF FalsifierVerifies, TypeOK, LoopTypeOK, ghosts
  <2> QED
    BY <1>10, <2>1, ContinueType, AgentTypes DEF FalsifierVerifies
<1>11. ASSUME NEW failure \in {"WORKER_NO_MUTATION_PROGRESS", "MUTATION_TARGET_UNRESOLVED"},
              WorkerStopped(failure)
       PROVE  TypeOK'
  <2>1. pc' = "judge" /\ agent' \in AgentResults /\ falsifier' \in FalsifierStatuses
    BY <1>11, EndAgentType DEF WorkerStopped, Implements
  <2>2. LoopTypeOK'
    BY <1>11 DEF WorkerStopped, TypeOK, LoopTypeOK, loop, ghosts
  <2> QED
    BY <1>11, <2>1, <2>2, AgentTypes DEF WorkerStopped
<1> QED
  BY <1>1, <1>2, <1>3, <1>4, <1>5, <1>6, <1>7, <1>8, <1>9, <1>10, <1>11 DEF AgentStep

\* A fresh agent is well typed.
LEMMA StartAgentType ==
  ASSUME TypeOK, NEW r \in {"Builder", "Falsifier", "Repairer"}, StartAgent(r),
         UNCHANGED <<task, review, result, ghosts>>, repairs' \in Nat,
         txn' \in {"none", "active", "committed", "rolled_back"}
  PROVE  TypeOK'
<1>1. Working \in AgentResults /\ Unseen \in [Checks -> Texts \cup {"pass", "unseen"}]
  BY DEF Working, AgentResults, Unseen
<1>2. LoopTypeOK'
  BY <1>1 DEF StartAgent, TypeOK, LoopTypeOK, review, ghosts
<1>3. agent' \in AgentResults /\ pc' = "loop" /\ role' = r
  BY <1>1 DEF StartAgent
<1> QED
  BY <1>2, <1>3 DEF TypeOK, LoopTypeOK, AgentResults, task, review, ghosts

\* The leaf returns.
LEMMA ReturnType ==
  ASSUME TypeOK, NEW status \in {"done", "failed", "too_broad", "budget_exhausted"},
         NEW type \in FailureTypes \cup {"none"}, Return(status, type),
         UNCHANGED <<task, loop, agent, review, repairs, ghosts>>,
         role' \in {"Builder", "Falsifier", "Repairer"},
         txn' \in {"none", "active", "committed", "rolled_back"}
  PROVE  TypeOK'
BY DEF Return, TypeOK, task, loop, review, ghosts

\* Every step of the controller keeps the types.
LEMMA ControllerTypeStep == TypeOK /\ ControllerStep => TypeOK'
<1> SUFFICES ASSUME TypeOK, ControllerStep
             PROVE  TypeOK'
  OBVIOUS
<1>0. /\ role \in {"Builder", "Falsifier", "Repairer"} /\ repairs \in Nat
      /\ txn \in {"none", "active", "committed", "rolled_back"}
      /\ agent.failure \in FailureTypes \cup {"none"}
  BY DEF TypeOK
<1>1. CASE PrepareFails
  BY <1>0, <1>1, ReturnType DEF PrepareFails, Return, FailureTypes
<1>2. CASE BeginLeaf
  BY <1>0, <1>2, StartAgentType DEF BeginLeaf
<1>3. CASE StopsLeaf
  <2>1. PICK status \in {"done", "failed", "too_broad", "budget_exhausted"},
             type \in FailureTypes \cup {"none"} : Rollback(status, type)
    <3>1. TooBroad \in FailureTypes
      BY DEF TooBroad, FailureTypes
    <3>2. \/ Rollback("budget_exhausted", "EXECUTION_BUDGET_EXHAUSTED")
          \/ Rollback("too_broad", TooBroad) \/ Rollback("failed", "ENVIRONMENT_ERROR")
          \/ Rollback("failed", agent.failure) \/ Rollback("failed", "CONTEXT_INSUFFICIENT")
      BY <1>3 DEF StopsLeaf
    <3>3. {"EXECUTION_BUDGET_EXHAUSTED", "ENVIRONMENT_ERROR", "CONTEXT_INSUFFICIENT"}
            \subseteq FailureTypes
      BY DEF FailureTypes
    <3> QED
      BY <1>0, <3>1, <3>2, <3>3
  <2>2. UNCHANGED <<task, role, loop, agent, review, repairs, ghosts>>
    BY <1>3 DEF StopsLeaf
  <2> QED
    BY <1>0, <2>1, <2>2, ReturnType DEF Rollback
<1>4. CASE GoesOn
  BY <1>4 DEF GoesOn, Preflight, TypeOK, task, loop, ghosts
<1>5. CASE SkipsFalsifier
  BY <1>5 DEF SkipsFalsifier, TypeOK, task, loop, review, ghosts
<1>6. CASE StartsFalsifier
  BY <1>6 DEF StartsFalsifier, TypeOK, task, review, ghosts
<1>7. CASE FalsifierEnds
  <2>1. CASE falsifier = "provider_failure"
    <3>1. "ENVIRONMENT_ERROR" \in FailureTypes
      BY DEF FailureTypes
    <3> QED
      BY <1>7, <2>1, <3>1, ReturnType DEF FalsifierEnds, Rollback
  <2>2. CASE falsifier # "provider_failure"
    BY <1>7, <2>2 DEF FalsifierEnds, TypeOK, task, loop, review, ghosts
  <2> QED
    BY <2>1, <2>2
<1>8. ASSUME NEW seen \in {"none", "skipped", "passed", "failed", "environment", "unresolved"},
             ChecksBrowser(seen)
      PROVE  TypeOK'
  BY <1>8 DEF ChecksBrowser, TypeOK, task, loop
<1>9. ASSUME NEW matches \in BOOLEAN, GatePasses(matches)
      PROVE  TypeOK'
  <2>1. "IMPACT_VERIFICATION_FAILED" \in FailureTypes
    BY DEF FailureTypes
  <2>2. UNCHANGED <<task, role, loop, agent, review, repairs, ghosts>>
    BY <1>9 DEF GatePasses
  <2>3. CASE Commit
    BY <1>0, <2>2, <2>3, ReturnType DEF Commit
  <2>4. CASE Rollback("failed", "IMPACT_VERIFICATION_FAILED")
    BY <1>0, <2>1, <2>2, <2>4, ReturnType DEF Rollback
  <2> QED
    BY <1>9, <2>3, <2>4 DEF GatePasses
<1>10. CASE GateBlocks
  <2>1. FailureType \in FailureTypes
    BY DEF FailureType, FailureTypes
  <2>2. /\ Rollback("failed", FailureType)
        /\ UNCHANGED <<task, role, loop, agent, review, repairs, ghosts>>
    BY <1>10 DEF GateBlocks
  <2> QED
    BY <1>0, <2>1, <2>2, ReturnType DEF Rollback
<1>11. CASE StartsRepair
  BY <1>0, <1>11, StartAgentType DEF StartsRepair
<1>12. CASE RepairsSpent
  <2>1. {"INTEGRATION_FAILURE", "IMPLEMENTATION_ERROR"} \subseteq FailureTypes
    BY DEF FailureTypes
  <2>2. /\ \/ Rollback("failed", "INTEGRATION_FAILURE")
           \/ Rollback("failed", "IMPLEMENTATION_ERROR")
        /\ UNCHANGED <<task, role, loop, agent, review, repairs, ghosts>>
    BY <1>12 DEF RepairsSpent
  <2> QED
    BY <1>0, <2>1, <2>2, ReturnType DEF Rollback
<1> QED
  BY <1>1, <1>2, <1>3, <1>4, <1>5, <1>6, <1>7, <1>8, <1>9, <1>10, <1>11, <1>12 DEF ControllerStep

\* Type correctness: on every path through the controller and the tool loop the
\* leaf's fields hold the values the code gives them.
THEOREM TypeCorrect == Spec => []TypeOK
<1>1. Init => TypeOK
  <2> SUFFICES ASSUME Init
               PROVE  TypeOK
    OBVIOUS
  <2>1. Unseen \in [Checks -> Texts \cup {"pass", "unseen"}]
    BY DEF Unseen
  <2>2. agent \in AgentResults
    BY DEF Init, Working, AgentResults
  <2>3. result \in [status : {"none", "done", "failed", "too_broad", "budget_exhausted"},
                    type : FailureTypes \cup {"none"}]
    BY DEF Init, NoResult
  <2>4. stagnant \in (Texts \cup {"pass"}) \X Nat
    BY DEF Init
  <2> QED
    BY <2>1, <2>2, <2>3, <2>4 DEF Init, TypeOK, AgentResults
<1>2. TypeOK /\ [Next]_vars => TypeOK'
  <2>1. TypeOK /\ UNCHANGED vars => TypeOK'
    BY DEF TypeOK, vars, task, loop, review, ghosts
  <2> QED
    BY <2>1, AgentTypeStep, ControllerTypeStep DEF Next
<1> QED
  BY <1>1, <1>2, PTL DEF Spec

\* The four parts together are inductive.
LEMMA LeafInvariantHolds == Spec => []LeafInvariant
<1>1. LeafInvariant /\ [Next]_vars => LeafInvariant'
  BY TxnStep, AuthorisedStep, FailureStep, GateStep DEF LeafInvariant
<1> QED
  BY InitLeafInvariant, <1>1, PTL DEF Spec

\* However many agents, gates and repairs a leaf goes through, its result and
\* its transaction agree and no transaction is left open.
THEOREM ResultsMatchTransactions == Spec => []ResultMatchesTransaction
<1>1. LeafInvariant => ResultMatchesTransaction
  BY DEF LeafInvariant, TxnFollowsController, ResultMatchesTransaction
<1> QED
  BY LeafInvariantHolds, <1>1, PTL

\* What is committed comes from an agent that was allowed to edit.
THEOREM CommitsHaveSufficientContext == Spec => []CommitHasSufficientContext
<1>1. LeafInvariant => CommitHasSufficientContext
  BY DEF LeafInvariant, DoneIsAuthorised, CommitHasSufficientContext
<1> QED
  BY LeafInvariantHolds, <1>1, PTL

\* A model that fails behind an open gate ends the leaf with a rollback.
THEOREM ProviderFailuresEndLeaves == Spec => []ProviderFailureEndsLeaf
<1>1. LeafInvariant => ProviderFailureEndsLeaf
  BY DEF LeafInvariant, FailureIsPending, ProviderFailureEndsLeaf
<1> QED
  BY LeafInvariantHolds, <1>1, PTL

\* No failure on record is committed by a leaf that needed no repair.
THEOREM RefutationsBlockCommits == Spec => []RefutationBlocksCommit
<1>1. LeafInvariant => RefutationBlocksCommit
  BY DEF LeafInvariant, GateSeesBuilder
<1> QED
  BY LeafInvariantHolds, <1>1, PTL

\* In an implementation leaf, nothing is edited after a browser check that
\* found no working browser.
THEOREM VisualFailuresTriggerNoEdit == Spec => VisualFailureTriggersNoEdit
<1>1. Init => VisualFailureIsPending
  BY DEF Init, VisualFailureIsPending
<1>2. LeafInvariant /\ VisualFailureIsPending /\ [Next]_vars
        => /\ VisualFailureIsPending'
           /\ [version' # version /\ kind = "implementation" => "visual" \notin outages]_vars
  BY VisualStep DEF VisualFailureStep
<1> QED
  BY <1>1, <1>2, LeafInvariantHolds, PTL DEF Spec, VisualFailureTriggersNoEdit

-----------------------------------------------------------------------------
(* The leaf advances: what LeafReturns rests on besides fairness.          *)

\* The places of one attempt, the last one first.
Ahead ==
  CASE pc = "prepare" -> 8
    [] pc = "loop" /\ role # "Falsifier" -> 7
    [] pc = "judge" /\ role # "Falsifier" -> 6
    [] pc = "falsify" -> 5
    [] pc = "loop" /\ role = "Falsifier" -> 4
    [] pc = "judge" /\ role = "Falsifier" -> 3
    [] pc = "browser" -> 2
    [] pc = "gate" -> 1
    [] OTHER -> 0

\* A new attempt, a later place of the attempt, or one more step at the same place.
Advances ==
  \/ repairs' = repairs + 1
  \/ repairs' = repairs /\ Ahead' < Ahead
  \/ repairs' = repairs /\ Ahead' = Ahead /\ steps' = steps + 1

Bounds == repairs <= MaxRepairs /\ (pc = "loop" => steps <= Budget)

\* What the actions of an agent do to the place and the steps.
LEMMA AgentAdvances ==
  ASSUME AgentStep
  PROVE  /\ pc = "loop" /\ role' = role /\ repairs' = repairs
         /\ \/ pc' = "judge"
            \/ pc' = "loop" /\ steps < Budget /\ steps' = steps + 1
<1>1. CASE ProviderFails \/ AnswersWithoutTools \/ BudgetEnds
           \/ \E failure \in {"WORKER_NO_MUTATION_PROGRESS", "MUTATION_TARGET_UNRESOLVED"} :
                WorkerStopped(failure)
  BY <1>1 DEF ProviderFails, AnswersWithoutTools, BudgetEnds, WorkerStopped, MayStep, EndAgent, controller
<1>2. CASE Nudged \/ Edits \/ OtherCall
           \/ \E gate \in {"closed", "open", "failed"}, accepted \in BOOLEAN : ChecksContext(gate, accepted)
  BY <1>2 DEF Nudged, Edits, OtherCall, ChecksContext, MayStep, Continue, controller
<1>3. CASE EditFails
  BY <1>3 DEF EditFails, MayStep, Continue, EndAgent, controller
<1>4. ASSUME NEW c \in Checks, NEW text \in Texts \cup {"pass"}, Verifies(c, text)
      PROVE  /\ MayStep /\ steps' = steps + 1 /\ UNCHANGED controller
             /\ pc' \in {"judge", "loop"}
  BY <1>4 DEF Verifies, Continue, EndAgent
<1>5. ASSUME NEW c \in Checks, NEW text \in Texts \cup {"pass"}, FalsifierVerifies(c, text)
      PROVE  /\ MayStep /\ steps' = steps + 1 /\ UNCHANGED controller
             /\ pc' \in {"judge", "loop"}
  BY <1>5 DEF FalsifierVerifies, Continue
<1>6. CASE \E c \in Checks, text \in Texts \cup {"pass"} : Verifies(c, text) \/ FalsifierVerifies(c, text)
  BY <1>4, <1>5, <1>6 DEF MayStep, controller
<1> QED
  BY <1>1, <1>2, <1>3, <1>6 DEF AgentStep

\* What the controller's do: the next place, or the next attempt while there is one.
LEMMA ControllerAdvances ==
  ASSUME ControllerStep
  PROVE  \/ /\ repairs' = repairs
            /\ \/ pc # "end" /\ pc' = "end"
               \/ pc = "prepare" /\ pc' = "loop" /\ role' = "Builder" /\ steps' = 0
               \/ pc = "judge" /\ role # "Falsifier" /\ pc' \in {"falsify", "browser"}
               \/ pc = "falsify" /\ pc' = "browser"
               \/ pc = "falsify" /\ pc' = "loop" /\ role' = "Falsifier" /\ steps' = 0
               \/ pc = "judge" /\ role = "Falsifier" /\ pc' = "browser"
               \/ pc = "browser" /\ pc' = "gate"
         \/ /\ repairs < MaxRepairs /\ repairs' = repairs + 1
            /\ pc' = "loop" /\ role' = "Repairer" /\ steps' = 0
<1>1. CASE PrepareFails \/ BeginLeaf
  BY <1>1 DEF PrepareFails, BeginLeaf, StartAgent
<1>2. CASE StopsLeaf
  BY <1>2 DEF StopsLeaf, Rollback, Return
<1>3. CASE GoesOn
  BY <1>3 DEF GoesOn, Implements
<1>4. CASE SkipsFalsifier \/ StartsFalsifier
  BY <1>4 DEF SkipsFalsifier, StartsFalsifier, review
<1>5. CASE FalsifierEnds
  BY <1>5 DEF FalsifierEnds, Rollback, Return
<1>6. CASE \E seen \in {"none", "skipped", "passed", "failed", "environment", "unresolved"} :
             ChecksBrowser(seen)
  BY <1>6 DEF ChecksBrowser
<1>7. CASE GateBlocks \/ RepairsSpent \/ \E matches \in BOOLEAN : GatePasses(matches)
  BY <1>7 DEF GateBlocks, RepairsSpent, GatePasses, GateFailed, Commit, Rollback, Return
<1>8. CASE StartsRepair
  BY <1>8 DEF StartsRepair, StartAgent
<1> QED
  BY <1>1, <1>2, <1>3, <1>4, <1>5, <1>6, <1>7, <1>8 DEF ControllerStep

\* The leaf has a bounded number of attempts, each goes through its places in order, and no
\* agent takes more than its budget of steps: no leaf runs for ever, whatever the model
\* answers and the checks report (execute_leaf, execute_integration_leaf and the tool
\* loop of execute_agent_task).
THEOREM LeavesAdvance == Spec => []Bounds /\ [][Advances]_vars
<1>1. TypeOK => steps \in Nat /\ repairs \in Nat
  BY DEF TypeOK
<1>2. /\ MaxRepairs \in Nat /\ Budget \in Nat
  BY ConstantsAssumption DEF Budget
<1>3. Init => Bounds
  BY <1>2 DEF Init, Bounds
<1>4. ASSUME TypeOK, Bounds, [Next]_vars
      PROVE  Bounds'
  <2>1. CASE AgentStep
    <3>1. steps \in Nat /\ Budget \in Nat /\ Budget' = Budget
      BY <1>1, <1>2, <1>4, <2>1, AgentAdvances DEF Budget
    <3>2. steps < Budget /\ steps' = steps + 1 => steps' <= Budget'
      BY <3>1
    <3> QED
      BY <1>4, <2>1, <3>2, AgentAdvances DEF Bounds
  <2>2. CASE ControllerStep
    <3>1. Budget' \in Nat
      BY ConstantsAssumption DEF Budget
    <3>2. repairs' <= MaxRepairs
      BY <1>1, <1>2, <1>4, <2>2, ControllerAdvances DEF Bounds
    <3>3. pc' = "loop" => steps' = 0
      BY <2>2, ControllerAdvances
    <3> QED
      BY <3>1, <3>2, <3>3 DEF Bounds
  <2>3. CASE UNCHANGED vars
    <3>1. UNCHANGED <<pc, role, steps, repairs>>
      BY <2>3 DEF vars, loop
    <3>2. Budget' = Budget
      BY <3>1 DEF Budget
    <3> QED
      BY <1>4, <3>1, <3>2 DEF Bounds
  <2> QED
    BY <1>4, <2>1, <2>2, <2>3 DEF Next
<1>5. ASSUME TypeOK, Next
      PROVE  Advances
  <2>1. CASE AgentStep
    BY <2>1, AgentAdvances DEF Advances, Ahead
  <2>2. CASE ControllerStep
    <3>1. pc \in {"prepare", "loop", "judge", "falsify", "browser", "gate", "end"}
      BY <1>5 DEF TypeOK
    <3>2. CASE repairs' = repairs + 1
      BY <3>2 DEF Advances
    <3>3. CASE pc # "end" /\ pc' = "end"
      <4>1. Ahead' = 0 /\ Ahead > 0
        BY <3>1, <3>3 DEF Ahead
      <4> QED
        BY <2>2, <4>1, ControllerAdvances DEF Advances
    <3>4. CASE repairs' = repairs /\ pc' # "end"
      <4>1. Ahead' < Ahead
        <5>1. repairs' # repairs + 1
          BY <1>1, <1>5, <3>4
        <5>2. \/ pc = "prepare" /\ pc' = "loop"
              \/ pc = "judge" /\ role # "Falsifier" /\ pc' \in {"falsify", "browser"}
              \/ pc = "falsify" /\ pc' = "browser"
              \/ pc = "falsify" /\ pc' = "loop" /\ role' = "Falsifier"
              \/ pc = "judge" /\ role = "Falsifier" /\ pc' = "browser"
              \/ pc = "browser" /\ pc' = "gate"
          BY <2>2, <3>4, <5>1, ControllerAdvances
        <5> QED
          BY <5>2 DEF Ahead
      <4> QED
        BY <3>4, <4>1 DEF Advances
    <3> QED
      BY <2>2, <3>2, <3>3, <3>4, ControllerAdvances
  <2> QED
    BY <1>5, <2>1, <2>2 DEF Next
<1>6. TypeOK /\ [Next]_vars => [Advances]_vars
  BY <1>5
<1>7. TypeOK /\ Bounds /\ [Next]_vars => Bounds'
  BY <1>4
<1> QED
  BY <1>3, <1>6, <1>7, TypeCorrect, PTL DEF Spec
=============================================================================
