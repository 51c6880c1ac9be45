------------------------------ MODULE PatchRepair ------------------------------
(***************************************************************************)
(* Maintenance and repair by the coordinator (maintain and                 *)
(* submit_patch_candidate of core_orchestrator.py, patch_search.py): a     *)
(* failure is localized, perhaps after experiments; candidates are         *)
(* generated and evaluated in disposable sandboxes, the best of them by    *)
(* full verification; the winner is applied to a staged copy, verified     *)
(* there, and the changed files are copied to the project, indexed, and    *)
(* remembered in the Project Brain.  A user edits the project meanwhile.   *)
(*                                                                         *)
(* The caller's checkers, gates and verifiers, the ranking, and what the   *)
(* searches and the localization find are choices.  A file's text is a     *)
(* member of Texts, an operation of a patch a function from the texts in   *)
(* which its anchor occurs exactly once to the texts it makes of them.     *)
(***************************************************************************)
EXTENDS Naturals, FiniteSets, Sequences

CONSTANTS
  Files, Texts,
  Original,          \* the project as the first coordinator finds it
  UserTexts,         \* what the user may write into a file
  Broken,            \* texts that do not parse
  Patches,
  Ops,               \* Ops[p][f]: the operations of patch p on file f, at most two, in order
  Scope, Dnt,        \* the authority of the coordinator
  ProblemScope,      \* the authority written in a repair problem, less its do-not-touch files
  MaxStages, MaxAttempts, MaxRounds, MaxRequests, MaxFeedback,    \* CoreExecutionBudget
  MaxCandidates, MaxDeterministic, MaxModel,         \* PatchSearchBudget
  MaxGates, MaxFinalists, MaxValid,
  MaxRuns, MaxEdits, \* bounds on the executions and submissions, and on the user's edits
  None

Trees == [Files -> Texts]

Anchored == UNION {[D -> Texts] : D \in SUBSET Texts}

ASSUME RepairAssumption ==
  /\ Original \in Trees /\ UserTexts \subseteq Texts /\ Broken \subseteq Texts
  /\ Scope \subseteq Files /\ Dnt \subseteq Files /\ ProblemScope \subseteq Files
  /\ \A p \in Patches :
       /\ DOMAIN Ops[p] \subseteq Files
       /\ \A f \in DOMAIN Ops[p] : Ops[p][f] \in Seq(Anchored) /\ Len(Ops[p][f]) \in {1, 2}
  /\ {MaxStages, MaxAttempts, MaxRounds, MaxRequests, MaxFeedback, MaxCandidates,
      MaxDeterministic, MaxModel, MaxGates, MaxFinalists, MaxValid, MaxRuns,
      MaxEdits} \subseteq Nat
  /\ None \notin Trees

VARIABLES
  project,   \* the canonical subject
  index,     \* the repository map of the coordinator (its revision is its content)
  brain,     \* the Project Brain entities: files, the bytes recorded for them, current or stale
  core,      \* CoreExecutionState: the phase, and the stages counted so far
  used,      \* _budget_usage: full verifications, diagnostic rounds, provider requests
  pc, call,  \* where the coordinator is, and the call it serves
  problem,   \* the repair problem: the subject and the revision it was built for
  search,    \* the patch search (see NoSearch)
  box,       \* the sandbox: a candidate and the copy of the project it is evaluated in
  winner,    \* the selected candidate, which the caller may submit later
  stage,     \* the staged copy
  left,      \* the files still to be copied to the project
  result,    \* status of the last call, and whether it applied a patch
  vouched,   \* history: the staged tree that passed the last full verification
  edited,    \* history: the files the user edited since the stage was cloned, or last compared
             \* with the project
  foreign,   \* history: the files edited or half-applied since the Brain recorded them
  runs, edits

vars == <<project, index, brain, core, used, pc, call, problem, search, box, winner, stage, left,
          result, vouched, edited, foreign, runs, edits>>

-----------------------------------------------------------------------------
(* Patches.                                                                *)

PathsOf(c) == DOMAIN Ops[c.patch]

\* PatchOperation.apply one after the other, an operation that fails leaving the text.
Try(a, t) == IF t \in DOMAIN a THEN a[t] ELSE t

Apply(o, t) == IF Len(o) = 2 THEN Try(o[2], Try(o[1], t)) ELSE Try(o[1], t)

\* Every operation finds its anchor in the text the one before it left, and changes it.
Bites(a, t) == t \in DOMAIN a /\ a[t] # t

AppliesWhole(o, t) == Bites(o[1], t) /\ (Len(o) = 2 => Bites(o[2], o[1][t]))

\* Every operation finds its anchor in the text as it was, and leaves one that parses.
AppliesAlone(o, t) == \A i \in DOMAIN o : t \in DOMAIN o[i] /\ o[i][t] \notin Broken

Patched(c, tree) ==
  [f \in Files |-> IF f \in PathsOf(c) THEN Apply(Ops[c.patch][f], tree[f]) ELSE tree[f]]

\* A candidate may carry the subject it was made for, hashes of its files, and a revision.
Candidate(p, base, anchor, revision) ==
  [patch |-> p, base |-> base, anchor |-> anchor, revision |-> revision]

Optional == Trees \cup {None}

Candidates ==
  [patch : Patches, base : Optional, anchor : Optional, revision : Optional]

\* _candidate_final_state_key
FinalState(c, tree) ==
  IF \A f \in PathsOf(c) :
       LET o == Ops[c.patch][f] IN
         tree[f] \in DOMAIN o[1] /\ (Len(o) = 2 => o[1][tree[f]] \in DOMAIN o[2])
  THEN [state |-> Patched(c, tree)]
  ELSE [invalid |-> c]

\* _apply_candidate_to_sandbox: file hashes are compared with the project as it is now.
SandboxAccepts(c, tree) ==
  \A f \in PathsOf(c) :
    /\ c.anchor # None => c.anchor[f] = project[f]
    /\ AppliesWhole(Ops[c.patch][f], tree[f])
    /\ Apply(Ops[c.patch][f], tree[f]) \notin Broken

-----------------------------------------------------------------------------
(* Phases and results.                                                     *)

\* _ALLOWED_TRANSITIONS, without those of a build
Allowed ==
  [INITIALIZING |-> {"CONTEXT_BUILDING", "BLOCKED"},
   CONTEXT_BUILDING |-> {"LOCALIZING", "PATCH_SEARCHING", "BLOCKED", "COMPLETE"},
   LOCALIZING |-> {"EXPERIMENTING", "PATCH_SEARCHING", "CONTEXT_BUILDING", "BLOCKED", "COMPLETE"},
   EXPERIMENTING |-> {"LOCALIZING", "PATCH_SEARCHING", "BLOCKED"},
   PATCH_SEARCHING |-> {"CANDIDATE_SELECTED", "LOCALIZING", "EXPERIMENTING", "BLOCKED", "COMPLETE"},
   CANDIDATE_SELECTED |-> {"CANONICAL_APPLYING", "PATCH_SEARCHING", "BLOCKED"},
   CANONICAL_APPLYING |-> {"VERIFYING", "INDEX_UPDATING", "BLOCKED"},
   VERIFYING |-> {"CANONICAL_APPLYING", "INDEX_UPDATING", "PROMOTABLE", "BLOCKED"},
   INDEX_UPDATING |-> {"PROMOTABLE", "BLOCKED"},
   PROMOTABLE |-> {"COMPLETE", "BLOCKED"},
   COMPLETE |-> {}, BLOCKED |-> {}]

\* _transition: past the budget of stages, and for a phase the table refuses, BLOCKED.
Enter(k, phase) ==
  [stages |-> k.stages + 1,
   phase |-> IF k.stages < MaxStages /\ phase \in Allowed[k.phase] \cup {k.phase}
             THEN phase ELSE "BLOCKED"]

\* Mutant: the patched project goes straight from VERIFYING to COMPLETE.
AppliedUnpromoted(k) == Enter(Enter(k, "VERIFYING"), "COMPLETE")

\* The phases after a patch was applied.
Applied(k) ==
  Enter(Enter(Enter(Enter(k, "VERIFYING"), "INDEX_UPDATING"), "PROMOTABLE"), "COMPLETE")

\* _block
Blocked(k) == IF k.phase \in {"COMPLETE", "BLOCKED"} THEN k ELSE Enter(k, "BLOCKED")

NewCore == [phase |-> "INITIALIZING", stages |-> 0]

NothingUsed == [attempts |-> 0, rounds |-> 0, requests |-> 0]

NoSearch == [before |-> None, shortlist |-> 0, found |-> FALSE, queue |-> {}, gates |-> 0,
             valid |-> 0, viable |-> {}, best |-> None, tried |-> {}, verified |-> {}]

NoCall == [kind |-> "none", failure |-> FALSE, apply |-> FALSE, given |-> FALSE]

NoResult == [status |-> "none", applied |-> FALSE]

\* A call returns: it leaves no sandbox, no stage and no search behind.
Return(k, status) ==
  LET applied == status \in {"complete", "applied"} /\ stage # None
  IN  /\ pc' = "idle" /\ call' = NoCall
      /\ core' = k
      /\ result' = [status |-> status, applied |-> applied]
      /\ search' = NoSearch /\ box' = None /\ stage' = None /\ left' = {}
      /\ vouched' = IF applied THEN vouched ELSE None
      /\ edited' = IF applied THEN edited ELSE {}

Block == Return(Blocked(core), "blocked")

Init ==
  /\ project = Original /\ index = Original /\ brain = {}
  /\ core = NewCore /\ used = NothingUsed
  /\ pc = "idle" /\ call = NoCall
  /\ problem = None /\ search = NoSearch /\ box = None /\ winner = None
  /\ stage = None /\ left = {}
  /\ result = NoResult
  /\ vouched = None /\ edited = {} /\ foreign = {}
  /\ runs = 0 /\ edits = 0

-----------------------------------------------------------------------------
(* A call of maintain up to the search.                                    *)

Fresh == [subject |-> project, revision |-> index]

\* maintain and _begin; the caller's problem may be one it held back.
Begin ==
  /\ pc = "idle" /\ runs < MaxRuns
  /\ \E failure, apply, given \in BOOLEAN :
       /\ call' = [kind |-> "maintain", failure |-> failure, apply |-> apply, given |-> given]
       /\ IF given THEN problem' \in {Fresh} \cup ({problem} \ {None}) ELSE UNCHANGED problem
  /\ runs' = runs + 1
  /\ core' = Enter(NewCore, "CONTEXT_BUILDING")
  /\ used' = NothingUsed /\ result' = NoResult /\ vouched' = None /\ edited' = {}
  /\ pc' = "context"
  /\ UNCHANGED <<project, index, brain, search, box, winner, stage, left, foreign, edits>>

\* The coordinator is created anew, with the Brain and the caller's candidates of the last one.
Restart ==
  /\ pc = "idle"
  /\ index' = project /\ core' = NewCore /\ used' = NothingUsed
  /\ result' = NoResult /\ vouched' = None /\ edited' = {}
  /\ UNCHANGED <<project, brain, pc, call, problem, search, box, winner, stage, left, foreign,
                 runs, edits>>

\* What the steps up to the search leave alone.
Before == <<project, index, brain, winner, foreign, runs, edits>>

Goto(l) ==
  /\ pc' = l
  /\ UNCHANGED <<call, result, box, stage, left, vouched, edited>>

\* inspect_task_context, whose semantic retriever may use up a provider request, and the
\* analysis of the impact: the context may be insufficient, or the impact too large.
Context ==
  /\ pc = "context"
  /\ used' \in {used} \cup (IF used.requests < MaxRequests
                            THEN {[used EXCEPT !.requests = @ + 1]} ELSE {})
  /\ \/ Block
     \/ /\ call.failure
        /\ core' = Enter(core, "LOCALIZING") /\ Goto("localize") /\ UNCHANGED search
     \/ /\ ~call.failure /\ call.given
        /\ Goto("problem") /\ UNCHANGED <<core, search>>
     \/ /\ ~call.failure /\ ~call.given
        /\ Return(Enter(core, "COMPLETE"), "complete")
  /\ UNCHANGED <<Before, problem>>

\* _localize, with a round of experiments (_run_diagnostics) or without, and the repair
\* problem made of it unless the caller gave one.  Without a problem and without a
\* patch to apply the execution is a diagnosis, and ends here.
Localize ==
  /\ pc = "localize"
  /\ \E k \in {core} \cup (IF used.rounds < MaxRounds
                           THEN {Enter(Enter(core, "EXPERIMENTING"), "LOCALIZING")} ELSE {}) :
       /\ used' = IF k = core THEN used ELSE [used EXCEPT !.rounds = @ + 1]
       /\ IF call.apply \/ call.given
          THEN core' = k /\ Goto("problem") /\ UNCHANGED search
          ELSE \/ Return(Blocked(k), "blocked")
               \/ Return(Enter(k, "COMPLETE"), "partial")
  /\ problem' = IF call.given THEN problem ELSE Fresh
  /\ UNCHANGED Before

\* A problem of the caller made for another subject is refused.
Accept ==
  /\ pc = "problem"
  /\ IF call.given /\ problem.subject # project
     THEN Block
     ELSE core' = Enter(core, "PATCH_SEARCHING") /\ Goto("search") /\ UNCHANGED search
  /\ UNCHANGED <<Before, problem, used>>

-----------------------------------------------------------------------------
(* The search.                                                             *)

Searching == <<project, index, brain, problem, winner, foreign, runs, edits>>

Lesser(m, n) == IF m < n THEN m ELSE n

\* Mutant: the search may use up the full verifications.
NothingKept == MaxAttempts - used.attempts

\* Full verifications left to the search: one is kept for the staged copy.
Reserved == IF used.attempts + 1 < MaxAttempts THEN MaxAttempts - used.attempts - 1 ELSE 0

\* search_repair_candidates: an error that maintain does not catch when the subject
\* has changed since the problem was made or accepted.
OpenSearch ==
  /\ pc = "search"
  /\ IF problem.subject # project
     THEN Return(core, "raised")
     ELSE /\ search' = [NoSearch EXCEPT !.shortlist = Lesser(MaxFinalists, Reserved)]
          /\ core' = core /\ Goto("hash")
  /\ UNCHANGED <<Searching, used>>

\* canonical_before
Hash ==
  /\ pc = "hash"
  /\ search' = [search EXCEPT !.before = project]
  /\ Goto("generate")
  /\ UNCHANGED <<Searching, core, used>>

Single(p) == \A f \in DOMAIN Ops[p] : Len(Ops[p][f]) = 1 /\ DOMAIN Ops[p] = {f}

\* generate_deterministic_candidates and generate_experiment_derived_candidate: one
\* operation anchored in the file as it is now, or a list of explicit operations.
Deterministic ==
  {Candidate(p, problem.subject, project, problem.revision) :
     p \in {q \in Patches : Single(q) /\ \A f \in DOMAIN Ops[q] : project[f] \in DOMAIN Ops[q][f][1]}}
  \cup {Candidate(p, problem.subject, None, problem.revision) : p \in {q \in Patches : ~Single(q)}}

\* normalize_model_candidates: the model may leave out what its patch was made for.
Proposed ==
  {Candidate(p, None, None, None) : p \in Patches}
  \cup {Candidate(p, problem.subject, None, problem.revision) : p \in Patches}

\* One candidate for each final state, the deterministic ones first.
Distinct(D, M, R) ==
  /\ \A c \in D \cup M : \E d \in R : FinalState(d, project) = FinalState(c, project)
  /\ \A c, d \in R : FinalState(c, project) = FinalState(d, project) => c = d
  /\ \A c \in R \ D, d \in D : FinalState(c, project) # FinalState(d, project)

\* The provider may fail, which ends the execution, and may not be there.
Generate ==
  /\ pc = "generate"
  /\ \E D \in SUBSET Deterministic, M \in SUBSET Proposed :
       /\ Cardinality(D) <= Lesser(MaxDeterministic + 1, MaxCandidates)
       /\ Cardinality(M) <= Lesser(MaxModel, MaxCandidates - Cardinality(D))
       /\ LET asks == Cardinality(D) < MaxCandidates /\ MaxModel > 0 /\ used.requests < MaxRequests
              asked == [used EXCEPT !.requests = @ + 1]
          IN  \/ /\ M = {} \/ asks
                 /\ used' \in (IF M = {} THEN {used} ELSE {}) \cup (IF asks THEN {asked} ELSE {})
                 /\ \E R \in SUBSET (D \cup M) :
                      /\ Distinct(D, M, R)
                      /\ search' = [search EXCEPT !.queue = R, !.found = (R # {})]
                 /\ core' = core /\ Goto("evaluate")
              \/ /\ asks /\ M = {} /\ used' = asked
                 /\ Block
  /\ UNCHANGED Searching

\* A candidate is done with, and no finalist.
Reject(c) == [search EXCEPT !.queue = @ \ {c}]

\* A candidate outside the authority of the problem, or made for another subject, gets no
\* sandbox; the others are applied in a copy of the project.
OpenSandbox ==
  /\ pc = "evaluate" /\ box = None
  /\ \E c \in search.queue :
       IF ~(PathsOf(c) \subseteq ProblemScope) \/ c.base \notin {None, search.before}
       THEN search' = Reject(c) /\ UNCHANGED box
       ELSE box' = [cand |-> c, tree |-> project] /\ UNCHANGED search
  /\ UNCHANGED <<Searching, core, used, pc, call, result, stage, left, vouched, edited>>

\* The candidate must apply, pass the checks (a check that is not run passes) and the
\* V25.5 gate, which no longer answers when its budget is used up.
Evaluate ==
  /\ pc = "evaluate" /\ box # None
  /\ LET c == box.cand
         asks == SandboxAccepts(c, box.tree) /\ search.gates < MaxGates
     IN  \/ search' = Reject(c)
         \/ asks /\ search' = [Reject(c) EXCEPT !.gates = @ + 1]
         \/ /\ asks
            /\ search' = [Reject(c) EXCEPT !.gates = @ + 1, !.valid = @ + 1,
                            !.viable = IF search.valid < MaxValid THEN @ \cup {c} ELSE @]
  /\ box' = None
  /\ UNCHANGED <<Searching, core, used, pc, call, result, stage, left, vouched, edited>>

\* ranked: some viable candidate has the highest score.
Rank ==
  /\ pc = "evaluate" /\ box = None /\ search.queue = {}
  /\ \E c \in (IF search.viable = {} THEN {None} ELSE search.viable) :
       search' = [search EXCEPT !.best = c]
  /\ pc' = "finalists"
  /\ UNCHANGED <<Searching, core, used, call, result, box, stage, left, vouched, edited>>

Finalists == Lesser(search.shortlist, Cardinality(search.viable))

OpenFinalist ==
  /\ pc = "finalists" /\ box = None /\ Cardinality(search.tried) < Finalists
  /\ \E c \in IF search.tried = {} THEN {search.best} ELSE search.viable \ search.tried :
       box' = [cand |-> c, tree |-> project]
  /\ UNCHANGED <<Searching, search, core, used, pc, call, result, stage, left, vouched, edited>>

\* _bounded_v25_6: an attempt is counted whatever the verifier answers.
Attempt == [used EXCEPT !.attempts = @ + 1]

\* The finalist no longer applies, is not verified, or is.
VerifyFinalist ==
  /\ pc = "finalists" /\ box # None
  /\ LET c == box.cand
         tried == [search EXCEPT !.tried = @ \cup {c}]
         asks == SandboxAccepts(c, box.tree) /\ used.attempts < MaxAttempts
     IN  \/ /\ ~asks
            /\ search' = tried /\ used' = used
         \/ /\ asks
            /\ used' = Attempt
            /\ search' \in {tried, [tried EXCEPT !.verified = @ \cup {c}]}
  /\ box' = None
  /\ UNCHANGED <<Searching, core, pc, call, result, stage, left, vouched, edited>>

\* The winner is the best candidate verified, or the best of all when none is.
EndSearch ==
  /\ pc = "finalists" /\ box = None /\ Cardinality(search.tried) = Finalists
  /\ \E c \in IF search.verified = {} \/ search.best \in search.verified
              THEN {search.best} ELSE search.verified :
       search' = [search EXCEPT !.best = c]
  /\ pc' = "choose"
  /\ UNCHANGED <<Searching, core, used, call, result, box, stage, left, vouched, edited>>

-----------------------------------------------------------------------------
(* The selection and the application.                                      *)

\* maintain after the search.  The feedback of failed candidates calls a function that
\* does not exist.  The candidate the caller selected may be another one.
Choose ==
  /\ pc = "choose"
  /\ winner' = IF search.best = None THEN winner ELSE search.best
  /\ \/ search.best = None /\ Block
     \/ /\ search.best = None /\ search.found
        /\ call.failure /\ used.rounds < MaxFeedback
        /\ Return(core, "raised")
     \/ /\ search.best # None /\ ~call.apply
        /\ Return(Enter(core, "COMPLETE"), "partial")
     \/ /\ search.best # None /\ call.apply
        /\ LET k == Enter(Enter(core, "CANDIDATE_SELECTED"), "CANONICAL_APPLYING")
           IN  \/ core' = k /\ search' = NoSearch /\ Goto("clone")
               \/ Return(Blocked(k), "blocked")
  /\ UNCHANGED <<project, index, brain, problem, foreign, used, runs, edits>>

\* submit_patch_candidate with apply: the phases and the budget are those of the last call.
Submit ==
  /\ pc = "idle" /\ winner # None /\ runs < MaxRuns
  /\ runs' = runs + 1
  /\ IF winner.base \notin {None, project}
     THEN Return(core, "refused")
     ELSE /\ pc' = "clone" /\ call' = [NoCall EXCEPT !.kind = "submit"]
          /\ result' = NoResult /\ vouched' = None /\ edited' = {}
          /\ UNCHANGED <<core, search, box, stage, left>>
  /\ UNCHANGED <<project, index, brain, problem, winner, foreign, used, edits>>

\* An application that fails.
Refuse == IF call.kind = "maintain" THEN Block ELSE Return(core, "refused")

Applying == <<index, brain, problem, winner, runs, edits>>

Proceed(l) ==
  /\ pc' = l
  /\ UNCHANGED <<core, call, result, search, box>>

\* _clone_project
Clone ==
  /\ pc = "clone"
  /\ stage' = project /\ edited' = {}
  /\ Proceed("gate")
  /\ UNCHANGED <<Applying, project, foreign, used, vouched, left>>

\* Mutant: do-not-touch files are not looked up.
WholeScope == Scope

Permitted == Scope \ Dnt

\* Mutant: the subject the candidate was made for is not compared.
RevisionOnly(c) == c.revision \in {None, index}

\* The subject and the revision the candidate was made for, where it names them.
UpToDate(c) == c.base \in {None, stage} /\ c.revision \in {None, index}

\* What apply_selected_patch_candidate requires of the staged copy and the project.
Applicable(c) ==
  /\ stage = project
  /\ UpToDate(c)
  /\ PathsOf(c) \subseteq Permitted
  /\ \A f \in PathsOf(c) :
       /\ c.anchor # None => c.anchor[f] = stage[f]
       /\ AppliesAlone(Ops[c.patch][f], stage[f])

\* The V25.5 gate is asked last; then the operations are applied one after the other.
Gate ==
  /\ pc = "gate"
  /\ \/ Refuse
     \/ /\ Applicable(winner)
        /\ stage' = Patched(winner, stage) /\ edited' = {}
        /\ Proceed("verify") /\ UNCHANGED <<left, vouched>>
  /\ UNCHANGED <<Applying, project, foreign, used>>

\* Mutant: a verification that is refused for the budget is counted too.
VerifyUncapped ==
  /\ pc = "verify"
  /\ used' = Attempt
  /\ \/ Refuse
     \/ /\ used.attempts < MaxAttempts
        /\ vouched' = stage /\ left' = PathsOf(winner)
        /\ Proceed("copy") /\ UNCHANGED <<stage, edited>>
  /\ UNCHANGED <<Applying, project, foreign>>

Verify ==
  /\ pc = "verify"
  /\ used' = IF used.attempts < MaxAttempts THEN Attempt ELSE used
  /\ \/ Refuse
     \/ /\ used.attempts < MaxAttempts
        /\ vouched' = stage /\ left' = PathsOf(winner)
        /\ Proceed("copy") /\ UNCHANGED <<stage, edited>>
  /\ UNCHANGED <<Applying, project, foreign>>

\* _copy_changed_files, one file
Copy(f) ==
  /\ pc = "copy" /\ f \in left
  /\ project' = [project EXCEPT ![f] = stage[f]]
  /\ edited' = edited \ {f} /\ left' = left \ {f}
  /\ Proceed(IF left = {f} THEN "index" ELSE "copy")
  /\ UNCHANGED <<Applying, foreign, used, vouched, stage>>

\* Mutant: the copied files are not indexed again.
IndexNothing ==
  /\ pc = "index"
  /\ Proceed("remember")
  /\ UNCHANGED <<index, project, brain, problem, winner, vouched, edited, foreign, runs, edits,
                 used, stage, left>>

\* incremental_reindex and ensure_lexical_index with the files that were copied
Index ==
  /\ pc = "index"
  /\ index' = [f \in Files |-> IF f \in PathsOf(winner) THEN project[f] ELSE index[f]]
  /\ Proceed("remember")
  /\ UNCHANGED <<project, brain, problem, winner, vouched, edited, foreign, runs, edits, used,
                 stage, left>>

\* Mutant: only an entity of exactly the changed files becomes stale.
SupersededAlike(e, changed) ==
  IF DOMAIN e.hashes # changed THEN e ELSE [e EXCEPT !.current = FALSE]

\* mark_reference_stale for what touches the changed files
Superseded(e, changed) == IF DOMAIN e.hashes \cap changed = {} THEN e ELSE [e EXCEPT !.current = FALSE]

\* _brain_update_for_patch, and the end of the call
Remember ==
  /\ pc = "remember"
  /\ LET changed == PathsOf(winner) IN
       /\ brain' = {Superseded(e, changed) : e \in brain}
                   \cup {[hashes |-> [f \in changed |-> index[f]], current |-> TRUE]}
       /\ foreign' = (foreign \ changed) \cup (edited \cap changed)
  /\ IF call.kind = "maintain" THEN Return(Applied(core), "complete") ELSE Return(core, "applied")
  /\ UNCHANGED <<project, index, problem, winner, used, runs, edits>>

-----------------------------------------------------------------------------
(* The environment.                                                        *)

\* The files the Brain holds current facts about.
Recorded == UNION {DOMAIN e.hashes : e \in {x \in brain : x.current}}

\* A verification that raises has been counted; what else a failing step used up is
\* reset before it is looked at again.
Spent ==
  {used} \cup (IF (pc = "verify" \/ (pc = "finalists" /\ box # None)) /\ used.attempts < MaxAttempts
               THEN {Attempt} ELSE {})

\* A callback, a hash, a copy or an index raises.  maintain catches a RuntimeError of the
\* search alone, and nothing in it or in submit_patch_candidate restores the files
\* already copied.
Raise ==
  /\ pc \notin {"idle", "choose"}
  /\ \/ Return(core, "raised")
     \/ pc \in {"evaluate", "finalists"} /\ Block
  /\ used' \in Spent
  /\ foreign' = IF pc \in {"copy", "index", "remember"}
                THEN foreign \cup (Recorded \cap (PathsOf(winner) \ left)) ELSE foreign
  /\ UNCHANGED <<project, index, brain, problem, winner, runs, edits>>

\* The user, or another program, writes a file of the project.
UserEdit(f, t) ==
  /\ edits < MaxEdits /\ t # project[f]
  /\ project' = [project EXCEPT ![f] = t]
  /\ edited' = IF stage # None \/ result.applied THEN edited \cup {f} ELSE edited
  /\ foreign' = foreign \cup ({f} \cap Recorded)
  /\ edits' = edits + 1
  /\ UNCHANGED <<index, brain, core, used, pc, call, problem, search, box, winner, stage, left,
                 result, vouched, runs>>

Step ==
  \/ Context \/ Localize \/ Accept
  \/ OpenSearch \/ Hash \/ Generate \/ OpenSandbox \/ Evaluate \/ Rank
  \/ OpenFinalist \/ VerifyFinalist \/ EndSearch
  \/ Choose \/ Clone \/ Gate \/ Verify \/ Index \/ Remember
  \/ \E f \in Files : Copy(f)

Next ==
  \/ Step \/ Begin \/ Submit \/ Restart \/ Raise
  \/ \E f \in Files, t \in UserTexts : UserEdit(f, t)

Spec == Init /\ [][Next]_vars

-----------------------------------------------------------------------------
(* Properties.                                                             *)

Phases == DOMAIN Allowed

Entities == [hashes : UNION {[D -> Texts] : D \in SUBSET Files}, current : BOOLEAN]

\* Types of the variables of CoreIntelligenceCoordinator and of one patch search.
TypeOK ==
  /\ project \in Trees /\ index \in Trees /\ \A e \in brain : e \in Entities
  /\ core.phase \in Phases /\ core.stages \in Nat
  /\ used \in [attempts : 0..MaxAttempts, rounds : 0..MaxRounds, requests : 0..MaxRequests]
  /\ pc \in {"idle", "context", "localize", "problem", "search", "hash", "generate", "evaluate",
             "finalists", "choose", "clone", "gate", "verify", "copy", "index", "remember"}
  /\ call \in [kind : {"none", "maintain", "submit"}, failure : BOOLEAN, apply : BOOLEAN,
               given : BOOLEAN]
  /\ problem \in [subject : Trees, revision : Trees] \cup {None}
  /\ winner \in Candidates \cup {None}
  /\ stage \in Optional /\ left \subseteq Files /\ vouched \in Optional
  /\ result \in [status : {"none", "complete", "partial", "blocked", "raised", "refused", "applied"},
                 applied : BOOLEAN]
  /\ edited \subseteq Files /\ foreign \subseteq Files
  /\ runs \in 0..MaxRuns /\ edits \in 0..MaxEdits

\* When a repair is reported applied, the project is the tree that passed full
\* verification, except for files the user wrote after the gate; and the index and a current
\* entity of the Brain hold the repaired files (apply_patch_candidate, maintain).
RepairedTreeIsVerified ==
  result.applied =>
    \A f \in Files \ edited :
      /\ project[f] = vouched[f]
      /\ f \in PathsOf(winner) =>
           /\ index[f] = project[f]
           /\ \E e \in brain : e.current /\ f \in DOMAIN e.hashes /\ e.hashes[f] = project[f]

\* The coordinator writes into the project only bytes of a staged copy that passed full
\* verification, and only files of the approved scope that are not do-not-touch
\* (_copy_changed_files, the only writer of the project).
ProjectWritesAreVerified ==
  [][\A f \in Files : project'[f] # project[f] /\ edits' = edits =>
       vouched # None /\ project'[f] = vouched[f] /\ f \in Scope \ Dnt]_vars

\* What the Brain holds as current about a file is what the file contains, unless
\* somebody else wrote it, or an application broke off after copying it
\* (_brain_update_for_patch, mark_reference_stale).
BrainIsFaithful ==
  \A e \in brain : e.current /\ pc \notin {"copy", "index", "remember"} =>
    \A f \in DOMAIN e.hashes \ foreign : e.hashes[f] = project[f]

\* However many finalists the search verified, the patch it selected still has a full
\* verification left when it is staged (remaining_verification).
VerificationIsReserved ==
  pc = "verify" /\ call.kind = "maintain" => used.attempts < MaxAttempts

\* A candidate made for a certain tree is verified on top of that very tree, and copied over
\* it: until its files are copied the project is that tree, whoever wrote before the gate,
\* and then it is what was verified.  The files somebody writes after the gate are excepted:
\* the code compares stage and project there for the last time, verifies without them, and
\* copies over whatever it finds (base_subject_hash through search, submission and
\* apply_selected_patch_candidate, _copy_changed_files).
BoundPatchLandsOnItsBase ==
  pc \in {"verify", "copy", "index", "remember"} /\ winner.base # None =>
    /\ stage = Patched(winner, winner.base)
    /\ \A f \in Files \ edited :
         project[f] = IF pc = "verify" \/ f \in left THEN winner.base[f] ELSE stage[f]

\* The status a call returns agrees with the phase in its state (maintain, _transition,
\* _ALLOWED_TRANSITIONS).
ResultMatchesPhase ==
  /\ result.status \in {"complete", "partial"} => core.phase = "COMPLETE"
  /\ result.status = "blocked" => core.phase = "BLOCKED"
=============================================================================
