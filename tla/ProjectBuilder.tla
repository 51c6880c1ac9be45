---------------------------- MODULE ProjectBuilder ----------------------------
(***************************************************************************)
(* The project builder (project_builder.py, generation_checkpoint.py) and  *)
(* the build of the coordinator above it (core_orchestrator.py): a plan of *)
(* units is generated one by one, dependencies first, either in a sandbox, *)
(* or applied to the project unit by unit, or, by the coordinator, applied *)
(* to a staged copy and then to the project.  A checkpoint of the verified *)
(* units lets a later run skip them.                                       *)
(*                                                                         *)
(* A run works on one tree: the project, or the staged copy of a build.    *)
(* The sandbox is not modelled: nothing reads the candidates put there.    *)
(* The validators, the gates and the provider are the caller's: each of    *)
(* their answers is a choice, and what they see is left out.               *)
(***************************************************************************)
EXTENDS Naturals, FiniteSets

CONSTANTS
  Paths,             \* files
  Mapped,            \* those the repository map and the lexical index hold
  Generated, Edited, \* what a candidate, and what the user, may put in a file
  Absent,            \* no such file
  Units,             \* generation units
  Targets,           \* Targets[u]: the files of unit u
  Plans,             \* plan identities
  Given,             \* Given[pl]: the units the caller asks for
  Planned,           \* Planned[pl]: those left by the unit budget (unit_rows[:unit_limit])
  Deps,              \* Deps[pl][u]: the units u depends on
  MaxProviderCalls, MaxCheckpoints,   \* the GenerationBudget of a plan
  MaxRuns, MaxEdits, \* bounds on the runs and on the user's edits
  None               \* no checkpoint

ASSUME BuilderAssumption ==
  /\ Mapped \subseteq Paths
  /\ Targets \in [Units -> SUBSET Paths]
  /\ \A u, w \in Units : u # w => Targets[u] \cap Targets[w] = {}
  /\ Given \in [Plans -> SUBSET Units]
  /\ Planned \in [Plans -> SUBSET Units]
  /\ \A pl \in Plans : Planned[pl] \subseteq Given[pl]
  /\ Deps \in [Plans -> [Units -> SUBSET Units]]
  /\ MaxProviderCalls \in [Plans -> Nat] /\ MaxCheckpoints \in [Plans -> Nat]
  /\ MaxRuns \in Nat /\ MaxEdits \in Nat

VARIABLES
  disk,      \* the project
  stage,     \* the staged copy of a build
  mode,      \* sandbox, apply or build
  phase,     \* idle, generating, checking or applying
  plan,      \* the plan of the run
  left,      \* the units the loop has not reached
  verified,  \* the completed units, with the files they were verified with
  own,       \* the candidates of this run (candidate_by_unit of build)
  dry,       \* some completed unit was verified in a sandbox only
  calls,     \* provider_calls
  subject,   \* subject_hash of the builder: the tree as it last hashed it
  map,       \* its repository map, with the lexical index
  made,      \* the checkpoints of this run (_checkpoints)
  kept,      \* the checkpoint the caller kept
  index,     \* the repository map of the coordinator
  result,    \* status and completion_state of the last run
  touched,   \* history: the files the user changed since the run began
  runs, edits

vars == <<disk, stage, mode, phase, plan, left, verified, own, dry, calls, subject, map, made,
          kept, index, result, touched, runs, edits>>

Contents == Generated \cup Edited \cup {Absent}

Trees == [Paths -> Contents]

\* The content a candidate gives the files of a unit.
Candidates(u) == [Targets[u] -> Generated]

\* target.write_text for every file of a candidate
Put(tree, content) ==
  [p \in Paths |-> IF p \in DOMAIN content THEN content[p] ELSE tree[p]]

\* build_repository_map
MapOf(tree) == [p \in Mapped |-> tree[p]]

\* incremental_reindex with the files of a candidate as changed_paths
Reindex(m, content) == [p \in Mapped |-> IF p \in DOMAIN content THEN content[p] ELSE m[p]]

With(f, u, content) == [w \in DOMAIN f \cup {u} |-> IF w = u THEN content ELSE f[w]]

\* plan.status: GENERATION_UNKNOWN_DEPENDENCY when the budget cut a dependency away.
\* (The other causes, a cycle and two owners of a path, are excluded by the constants.)
PlanValid(pl) == \A u \in Planned[pl] : Deps[pl][u] \subseteq Planned[pl]

NoResult == [mode |-> "none", status |-> "none", promotable |-> FALSE]

Blocked(m) == [mode |-> m, status |-> "blocked", promotable |-> FALSE]

Init ==
  /\ disk = [p \in Paths |-> Absent]
  /\ stage = [p \in Paths |-> Absent]
  /\ mode = "sandbox" /\ phase = "idle"
  /\ plan \in Plans
  /\ left = {} /\ verified = <<>> /\ own = <<>>
  /\ dry = FALSE /\ calls = 0
  /\ subject = disk /\ map = MapOf(disk) /\ index = MapOf(disk)
  /\ made = {} /\ kept = None
  /\ result = NoResult
  /\ touched = {} /\ runs = 0 /\ edits = 0

-----------------------------------------------------------------------------
(* Checkpoints.                                                            *)

\* _checkpoint
Checkpoint(done, tree, m) ==
  [plan |-> plan, verified |-> done, subject |-> tree, map |-> m, dry |-> dry]

\* Mutant: the plan of the checkpoint is not compared.
CheckpointOfAnyPlan(cp, pl, tree, m) == cp.subject = tree /\ cp.map = m

\* Mutant: the repository map of the checkpoint is not compared.
CheckpointOfTree(cp, pl, tree, m) == cp.plan = pl /\ cp.subject = tree

\* Mutant: a checkpoint is valid whatever became of the files.
CheckpointOfPlan(cp, pl, tree, m) == cp.plan = pl

\* validate_generation_checkpoint
CheckpointValid(cp, pl, tree, m) ==
  /\ cp.plan = pl
  /\ cp.subject = tree
  /\ cp.map = m

-----------------------------------------------------------------------------
(* A run: __init__ and the beginning of generate.                          *)

\* The tree a run of mode m generates into; a build first clones the project.
Tree(m) == IF m = "build" THEN stage ELSE disk

Begin(m, pl) ==
  /\ phase = "idle" /\ runs < MaxRuns
  /\ runs' = runs + 1
  /\ mode' = m /\ plan' = pl
  /\ stage' = IF m = "build" THEN disk ELSE stage
  /\ subject' = disk /\ map' = MapOf(disk)
  /\ own' = <<>> /\ calls' = 0 /\ made' = {} /\ touched' = {}
  /\ UNCHANGED <<disk, kept, index, edits>>

\* The units of a valid checkpoint are completed from the start.
Start(m, pl, cp) ==
  /\ Begin(m, pl)
  /\ PlanValid(pl)
  /\ cp # None => CheckpointValid(cp, pl, disk, MapOf(disk))
  /\ phase' = "generating"
  /\ verified' = IF cp = None THEN <<>> ELSE cp.verified
  /\ left' = Planned[pl] \ DOMAIN verified'
  /\ dry' = (m = "sandbox" \/ (cp # None /\ cp.dry))
  /\ result' = NoResult

\* GENERATION_BLOCKED: the plan is not valid, or CHECKPOINT_STALE; a build may also
\* be refused for its authority, its number of units or a missing provider.
Refuse(m, pl, cp) ==
  /\ Begin(m, pl)
  /\ \/ ~PlanValid(pl)
     \/ cp # None /\ ~CheckpointValid(cp, pl, disk, MapOf(disk))
     \/ m = "build"
  /\ result' = Blocked(m)
  /\ UNCHANGED <<phase, verified, left, dry>>

-----------------------------------------------------------------------------
(* generate: one unit of the topological order.                            *)

\* The order puts the dependencies of a unit before it; any such order is allowed.
Reached(u) ==
  /\ phase = "generating"
  /\ u \in left
  /\ Deps[plan][u] \cap left = {}

Ready(u) == Deps[plan][u] \subseteq DOMAIN verified

Run == <<mode, plan, dry, kept, index, result, touched, runs, edits>>

\* Mutant: a unit that is not ready is left for later.
PostponeUnit(u) ==
  /\ Reached(u) /\ ~Ready(u)
  /\ UNCHANGED vars

\* DEPENDENCY_FAILURE
SkipUnit(u) ==
  /\ Reached(u) /\ ~Ready(u)
  /\ left' = left \ {u}
  /\ UNCHANGED <<disk, stage, phase, verified, own, calls, subject, map, made, Run>>

\* The provider budget is spent: the loop ends.
ProviderBudget(u) ==
  /\ Reached(u) /\ Ready(u)
  /\ calls >= MaxProviderCalls[plan]
  /\ left' = {}
  /\ UNCHANGED <<disk, stage, phase, verified, own, calls, subject, map, made, Run>>

Ask(u) ==
  /\ Reached(u) /\ Ready(u)
  /\ calls < MaxProviderCalls[plan]
  /\ calls' = calls + 1
  /\ UNCHANGED Run

\* No provider, a failing one, no candidate left after _validate_candidate, an
\* exhausted candidate, file or source budget, or a candidate
\* apply_verified_candidate refuses before it writes.
FailUnit(u) ==
  /\ Ask(u)
  /\ left' = left \ {u}
  /\ UNCHANGED <<disk, stage, phase, verified, own, subject, map, made>>

\* _sandbox_candidate, or apply_verified_candidate with its incremental reindex.
Materialize(u, content) ==
  IF mode = "sandbox"
  THEN UNCHANGED <<disk, stage, subject, map>>
  ELSE /\ subject' = Put(Tree(mode), content)
       /\ map' = Reindex(map, content)
       /\ IF mode = "build" THEN stage' = subject' /\ UNCHANGED disk
                            ELSE disk' = subject' /\ UNCHANGED stage

\* The integration validator, or the V25.5 gate called again, rejects the unit:
\* what was applied stays.
RejectUnit(u) ==
  /\ Ask(u)
  /\ \E content \in Candidates(u) :
       /\ Materialize(u, content)
       /\ own' = With(own, u, content)
  /\ left' = left \ {u}
  /\ UNCHANGED <<phase, verified, made>>

\* The unit is completed; without room for its checkpoint the loop ends.
VerifyUnit(u) ==
  /\ Ask(u)
  /\ \E content \in Candidates(u) :
       /\ Materialize(u, content)
       /\ own' = With(own, u, content)
       /\ verified' = With(verified, u, content)
  /\ IF Cardinality(made) < MaxCheckpoints[plan]
     THEN /\ made' = made \cup {Checkpoint(verified', subject', map')}
          /\ left' = left \ {u}
     ELSE /\ left' = {}
          /\ UNCHANGED made
  /\ UNCHANGED phase

Complete == Planned[plan] \subseteq DOMAIN verified

Partial == IF verified = <<>> THEN "blocked" ELSE "partial"

\* The caller holds a result: it keeps its checkpoint, or one of the run.
Return == kept' \in made \cup {kept}

\* The end of generate outside a build: without V25.6 nothing is promotable.
Finish ==
  /\ phase = "generating" /\ left = {} /\ mode # "build"
  /\ phase' = "idle"
  /\ \E full \in BOOLEAN :
       result' = [mode |-> mode, promotable |-> Complete /\ full,
                  status |-> IF ~Complete THEN Partial ELSE IF full THEN "complete" ELSE "partial"]
  /\ Return
  /\ UNCHANGED <<disk, stage, mode, plan, left, verified, own, dry, calls, subject, map, made,
                 index, touched, runs, edits>>

-----------------------------------------------------------------------------
(* CoreIntelligenceCoordinator.build, after its stage was generated.       *)

BlockBuild ==
  /\ phase' = "idle"
  /\ result' = Blocked("build")
  /\ Return
  /\ left' = {}
  /\ UNCHANGED <<disk, stage, mode, plan, verified, own, dry, calls, subject, map, made,
                 index, touched, runs, edits>>

\* GENERATION_COMPLETE with V25.6, or the build is blocked.
StageVerified ==
  /\ phase = "generating" /\ left = {} /\ mode = "build"
  /\ Complete
  /\ phase' = "checking"
  /\ UNCHANGED <<disk, stage, mode, plan, left, verified, own, dry, calls, subject, map, made,
                 kept, index, result, touched, runs, edits>>

StageRejected ==
  /\ phase = "generating" /\ left = {} /\ mode = "build"
  /\ BlockBuild

\* Mutant: a unit without a candidate is passed over.
CandidatesOfRunPass ==
  /\ phase = "checking"
  /\ phase' = "applying"
  /\ left' = Given[plan] \cap DOMAIN own
  /\ map' = index
  /\ UNCHANGED <<disk, stage, mode, plan, verified, own, dry, calls, subject, made,
                 kept, index, result, touched, runs, edits>>

\* Every unit the caller gave has a candidate of this run, and passes V25.5 again.
CandidatesPass ==
  /\ phase = "checking"
  /\ Given[plan] \subseteq DOMAIN own
  /\ phase' = "applying"
  /\ left' = Given[plan]
  /\ map' = index
  /\ UNCHANGED <<disk, stage, mode, plan, verified, own, dry, calls, subject, made,
                 kept, index, result, touched, runs, edits>>

\* A unit without a candidate blocks the build, and any unit may fail its gate.
CandidatesRejected ==
  /\ phase = "checking"
  /\ BlockBuild

\* apply_verified_candidate on the project, in the order of the caller.
ApplyUnit(u) ==
  /\ phase = "applying" /\ u \in left
  /\ disk' = Put(disk, own[u])
  /\ map' = Reindex(map, own[u])
  /\ subject' = disk'
  /\ left' = left \ {u}
  /\ UNCHANGED <<stage, mode, phase, plan, verified, own, dry, calls, made,
                 kept, index, result, touched, runs, edits>>

\* The gate refuses a unit: the units before it stay applied.
ApplicationBlocked ==
  /\ phase = "applying" /\ left # {}
  /\ BlockBuild

\* Mutant: the build goes on to its end when a unit is refused.
FinishAnyBuild ==
  /\ phase = "applying"
  /\ phase' = "idle"
  /\ left' = {}
  /\ index' = map
  /\ result' = [mode |-> "build", status |-> "complete", promotable |-> TRUE]
  /\ Return
  /\ UNCHANGED <<disk, stage, mode, plan, verified, own, dry, calls, subject, map, made,
                 touched, runs, edits>>

FinishBuild ==
  /\ phase = "applying" /\ left = {}
  /\ phase' = "idle"
  /\ index' = map
  /\ result' = [mode |-> "build", status |-> "complete", promotable |-> TRUE]
  /\ Return
  /\ UNCHANGED <<disk, stage, mode, plan, left, verified, own, dry, calls, subject, map, made,
                 touched, runs, edits>>

-----------------------------------------------------------------------------
(* The process and the user.                                               *)

\* The process dies, or a validator raises: no result.  A new process builds a
\* new coordinator.
Die ==
  /\ phase # "idle"
  /\ phase' = "idle"
  /\ left' = {}
  /\ index' = MapOf(disk)
  /\ UNCHANGED <<disk, stage, mode, plan, verified, own, dry, calls, subject, map, made, kept,
                 result, touched, runs, edits>>

\* What apply_verified_candidate may be writing to the project.
Writes(u) ==
  IF phase = "applying" THEN IF u \in left THEN {own[u]} ELSE {}
  ELSE IF mode = "apply" /\ Reached(u) /\ Ready(u) /\ calls < MaxProviderCalls[plan] THEN Candidates(u) ELSE {}

\* ... or dies while apply_verified_candidate writes the files of a unit.
DieWriting(u) ==
  /\ \E content \in Writes(u), written \in SUBSET Targets[u] :
       disk' = Put(disk, [p \in written |-> content[p]])
  /\ phase' = "idle"
  /\ left' = {}
  /\ index' = MapOf(disk')
  /\ UNCHANGED <<stage, mode, plan, verified, own, dry, calls, subject, map, made, kept,
                 result, touched, runs, edits>>

\* The user writes or removes a file.
Edit(p, v) ==
  /\ edits < MaxEdits
  /\ disk[p] # v
  /\ disk' = [disk EXCEPT ![p] = v]
  /\ touched' = touched \cup {p}
  /\ edits' = edits + 1
  /\ UNCHANGED <<stage, mode, phase, plan, left, verified, own, dry, calls, subject, map, made,
                 kept, index, result, runs>>

Modes == {"sandbox", "apply", "build"}

Step ==
  \/ \E u \in Units : SkipUnit(u) \/ ProviderBudget(u) \/ FailUnit(u) \/ RejectUnit(u) \/ VerifyUnit(u)
  \/ Finish
  \/ StageVerified \/ StageRejected
  \/ CandidatesPass \/ CandidatesRejected
  \/ \E u \in Units : ApplyUnit(u)
  \/ ApplicationBlocked
  \/ FinishBuild

Call == \E m \in Modes, pl \in Plans, cp \in {None, kept} : Start(m, pl, cp) \/ Refuse(m, pl, cp)

Next ==
  \/ Call
  \/ Step
  \/ Die
  \/ \E u \in Units : DieWriting(u)
  \/ \E p \in Paths, v \in Edited \cup {Absent} : Edit(p, v)

\* A run is one thread and its loops are bounded.
Spec == Init /\ [][Next]_vars /\ WF_vars(Step)

-----------------------------------------------------------------------------
(* Properties.                                                             *)

Checkpoints == {cp \in made \cup {kept} : cp # None}

TypeOK ==
  /\ disk \in Trees /\ stage \in Trees /\ subject \in Trees
  /\ map \in [Mapped -> Contents] /\ index \in [Mapped -> Contents]
  /\ mode \in Modes
  /\ phase \in {"idle", "generating", "checking", "applying"}
  /\ plan \in Plans
  /\ left \subseteq Units
  /\ DOMAIN verified \subseteq Units
  /\ \A u \in DOMAIN verified : verified[u] \in Candidates(u)
  /\ DOMAIN own \subseteq Units
  /\ \A u \in DOMAIN own : own[u] \in Candidates(u)
  /\ dry \in BOOLEAN
  /\ calls \in Nat /\ (phase # "idle" => calls <= MaxProviderCalls[plan])
  /\ touched \subseteq Paths
  /\ runs \in 0 .. MaxRuns /\ edits \in 0 .. MaxEdits

\* No unit is completed before the units it depends on, whatever checkpoint the
\* run was resumed from (validate_generation_checkpoint, and the check of the
\* dependencies in generate).
DependenciesVerified ==
  phase # "idle" =>
    \A u \in DOMAIN verified \cap Planned[plan] : Deps[plan][u] \subseteq DOMAIN verified

\* A run resumed from a checkpoint of applied work finds every file of that work,
\* as far as the repository map holds it, with the bytes it was verified with:
\* an edit between two units, or after the checkpoint, makes the checkpoint stale.
ResumedWorkIsIntact ==
  [][\A u \in Units, p \in Mapped :
       phase = "idle" /\ phase' = "generating" /\ ~dry' /\ u \in DOMAIN verified' /\ p \in Targets[u]
         => disk[p] = verified'[u][p]]_vars

\* An applied project that is PROJECT_PROMOTABLE, and none of whose units was taken
\* from a sandbox, has every planned unit on disk as it was verified, except for
\* what the user changed since the run began and files outside the repository map.
PromotedWorkIsOnDisk ==
  phase = "idle" /\ mode = "apply" /\ result.promotable /\ ~dry =>
    \A u \in Planned[plan], p \in Mapped \ touched :
      p \in Targets[u] => disk[p] = verified[u][p]

\* A build changes the project only with the candidates of this run, and only once
\* every unit the caller gave was verified on the stage: units left out by the
\* budget, or taken from a checkpoint, stop it before its first write.
BuildWritesVerifiedWork ==
  [][mode = "build" /\ edits' = edits /\ disk' # disk =>
       /\ \A u \in Given[plan] : u \in DOMAIN own /\ u \in DOMAIN verified /\ own[u] = verified[u]
       /\ \A p \in Paths : disk'[p] # disk[p] =>
            \E u \in Given[plan] : p \in Targets[u] /\ disk'[p] = verified[u][p]]_vars

\* A complete build has every unit the caller gave on disk, except for what the
\* user changed since it began, and the map of the coordinator holds it.
CompleteBuildIsOnDisk ==
  phase = "idle" /\ mode = "build" /\ result.promotable =>
    \A u \in Given[plan], p \in Paths :
      p \in Targets[u] =>
        /\ p \notin touched => disk[p] = verified[u][p]
        /\ p \in Mapped => index[p] = verified[u][p]

\* Every run returns, whatever the provider and the gates answer.
EveryRunReturns == phase # "idle" ~> phase = "idle"

\* An applied and promotable project has its files: what
\* test_explicit_verified_application_updates_indexes_and_brain says of a complete
\* application.  A checkpoint does not say that its units were verified in a sandbox.
AppliedProjectExists ==
  phase = "idle" /\ mode = "apply" /\ result.promotable /\ touched = {} =>
    \A u \in Planned[plan] : \A p \in Targets[u] : disk[p] # Absent
=============================================================================
