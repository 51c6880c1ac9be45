------------------------- MODULE ProjectBuilderProofs -------------------------
(***************************************************************************)
(* The safety properties of ProjectBuilder, for all files, units, plans,   *)
(* budgets and bounds.  The argument is about the repository map: within a *)
(* run it holds every file of the completed units as verified, because a   *)
(* unit is reindexed when it is applied, no unit writes the files of       *)
(* another, and a checkpoint that is accepted has a map equal to that of   *)
(* the files.                                                              *)
(***************************************************************************)
EXTENDS ProjectBuilder, TLAPS

\* Completed units, with candidates of theirs.
Work(f) == DOMAIN f \subseteq Units /\ \A u \in DOMAIN f : f[u] \in Candidates(u)

Closed(pl, f) == \A u \in DOMAIN f \cap Planned[pl] : Deps[pl][u] \subseteq DOMAIN f

\* A map holds the files of completed units as they were verified.
Holds(m, f) == \A u \in DOMAIN f : \A p \in Targets[u] \cap Mapped : m[p] = f[u][p]

CheckpointOK(cp) ==
  /\ Work(cp.verified)
  /\ Closed(cp.plan, cp.verified)
  /\ cp.dry \in BOOLEAN
  /\ ~cp.dry => Holds(cp.map, cp.verified)

CheckpointsOK == \A cp \in made \cup {kept} : cp # None => CheckpointOK(cp)

Control ==
  /\ phase # "idle" => ~result.promotable
  /\ phase \in {"checking", "applying"} => mode = "build" /\ Planned[plan] \subseteq DOMAIN verified
  /\ phase = "generating" => left \subseteq Planned[plan] \ DOMAIN verified
  /\ phase # "idle" => DOMAIN own \subseteq Planned[plan] /\ Closed(plan, verified)
  /\ phase # "idle" => \A u \in DOMAIN own \cap DOMAIN verified : own[u] = verified[u]
  /\ phase = "generating" /\ mode = "sandbox" => dry
  /\ phase = "applying" => Given[plan] \subseteq DOMAIN own /\ left \subseteq Given[plan]

\* The completed units of a run are in its map and, when it applies them, on disk.
OnDisk == \A u \in DOMAIN verified : \A p \in (Targets[u] \cap Mapped) \ touched : disk[p] = verified[u][p]

Carried == phase = "generating" /\ ~dry => Holds(map, verified) /\ (mode = "apply" => OnDisk)

\* The units a build has applied so far.
Applied ==
  phase = "applying" =>
    \A u \in Given[plan] \ left : \A p \in Targets[u] :
      /\ p \notin touched => disk[p] = own[u][p]
      /\ p \in Mapped => map[p] = own[u][p]

Inv == TypeOK /\ CheckpointsOK /\ Control /\ Carried /\ Applied
         /\ PromotedWorkIsOnDisk /\ CompleteBuildIsOnDisk

-----------------------------------------------------------------------------
(* The operators.                                                          *)

LEMMA WithWork ==
  ASSUME NEW f, Work(f), NEW u \in Units, NEW c \in Candidates(u)
  PROVE  Work(With(f, u, c))
<1>1. DOMAIN With(f, u, c) \subseteq Units
  BY DEF With, Work
<1>2. ASSUME NEW w \in DOMAIN With(f, u, c) PROVE With(f, u, c)[w] \in Candidates(w)
  <2>1. CASE w = u
    BY <2>1 DEF With
  <2>2. CASE w # u
    BY <2>2 DEF With, Work
  <2> QED BY <2>1, <2>2
<1> QED BY <1>1, <1>2 DEF Work

LEMMA PutFacts ==
  ASSUME BuilderAssumption, NEW tree \in Trees, NEW u \in Units, NEW c \in Candidates(u)
  PROVE  /\ Put(tree, c) \in Trees
         /\ \A p \in Targets[u] : Put(tree, c)[p] = c[p]
         /\ \A p \in Paths \ Targets[u] : Put(tree, c)[p] = tree[p]
<1>1. c \in [Targets[u] -> Generated] /\ Targets[u] \in SUBSET Paths
  BY DEF Candidates, BuilderAssumption
<1> QED BY <1>1 DEF Put, Trees, Contents

LEMMA ReindexFacts ==
  ASSUME BuilderAssumption, NEW m \in [Mapped -> Contents], NEW u \in Units, NEW c \in Candidates(u)
  PROVE  /\ Reindex(m, c) \in [Mapped -> Contents]
         /\ \A p \in Targets[u] \cap Mapped : Reindex(m, c)[p] = c[p]
         /\ \A p \in Mapped \ Targets[u] : Reindex(m, c)[p] = m[p]
<1>1. c \in [Targets[u] -> Generated] /\ Targets[u] \in SUBSET Paths
  BY DEF Candidates, BuilderAssumption
<1> QED BY <1>1 DEF Reindex, Contents

LEMMA MapOfFacts ==
  ASSUME BuilderAssumption, NEW tree \in Trees
  PROVE  /\ MapOf(tree) \in [Mapped -> Contents]
         /\ \A p \in Mapped : MapOf(tree)[p] = tree[p]
BY DEF MapOf, Trees, BuilderAssumption

\* A reindex with a new unit keeps the units before it and adds the new one.
LEMMA HoldsWith ==
  ASSUME BuilderAssumption, NEW m \in [Mapped -> Contents], NEW f, Work(f), Holds(m, f),
         NEW u \in Units, u \notin DOMAIN f, NEW c \in Candidates(u)
  PROVE  /\ Holds(Reindex(m, c), f)
         /\ Holds(Reindex(m, c), With(f, u, c))
<1>1. \A w \in DOMAIN f : Targets[w] \cap Targets[u] = {}
  BY DEF BuilderAssumption, Work
<1>a. /\ \A p \in Targets[u] \cap Mapped : Reindex(m, c)[p] = c[p]
      /\ \A p \in Mapped \ Targets[u] : Reindex(m, c)[p] = m[p]
  BY ReindexFacts
<1>2. Holds(Reindex(m, c), f)
  BY <1>a, <1>1 DEF Holds
<1>3. ASSUME NEW w \in DOMAIN With(f, u, c), NEW p \in Targets[w] \cap Mapped
      PROVE  Reindex(m, c)[p] = With(f, u, c)[w][p]
  <2>1. CASE w = u
    BY <1>a, <2>1 DEF With
  <2>2. CASE w # u
    BY <1>2, <2>2 DEF Holds, With
  <2> QED BY <2>1, <2>2
<1> QED BY <1>2, <1>3 DEF Holds

-----------------------------------------------------------------------------
(* The beginning of a run.                                                 *)

LEMMA InitInv == BuilderAssumption /\ Init => Inv
<1> SUFFICES ASSUME BuilderAssumption, Init PROVE Inv
  OBVIOUS
<1>1. disk \in Trees /\ stage \in Trees
  BY DEF Init, Trees, Contents
<1>a. MapOf(disk) \in [Mapped -> Contents]
  BY <1>1, MapOfFacts
<1>b. DOMAIN verified = {} /\ DOMAIN own = {}
  BY DEF Init
<1>c. /\ subject = disk /\ map = MapOf(disk) /\ index = MapOf(disk)
      /\ mode = "sandbox" /\ phase = "idle" /\ plan \in Plans /\ left = {} /\ dry = FALSE
      /\ calls = 0 /\ touched = {} /\ runs = 0 /\ edits = 0
  BY DEF Init
<1>d. runs \in 0 .. MaxRuns /\ edits \in 0 .. MaxEdits /\ calls \in Nat
  BY <1>c DEF BuilderAssumption
<1>e. subject \in Trees /\ map \in [Mapped -> Contents] /\ index \in [Mapped -> Contents]
  BY <1>1, <1>a, <1>c
<1>f. /\ left \subseteq Units /\ touched \subseteq Paths /\ dry \in BOOLEAN
      /\ DOMAIN verified \subseteq Units /\ DOMAIN own \subseteq Units
      /\ mode \in Modes /\ plan \in Plans /\ phase = "idle"
  BY <1>b, <1>c DEF Modes
<1>2. TypeOK
  BY <1>1, <1>b, <1>d, <1>e, <1>f DEF TypeOK
<1> QED
  BY <1>2, <1>b DEF Init, Inv, CheckpointsOK, Control, Carried, Applied, PromotedWorkIsOnDisk,
              CompleteBuildIsOnDisk, NoResult

LEMMA StartInv ==
  ASSUME BuilderAssumption, Inv, NEW m \in Modes, NEW pl \in Plans, NEW cp \in {None, kept},
         Start(m, pl, cp)
  PROVE  Inv'
<1> USE DEF Start, Begin
<1>0. /\ TypeOK /\ CheckpointsOK
      /\ disk \in Trees /\ MapOf(disk) \in [Mapped -> Contents]
      /\ Planned[pl] \subseteq Units
  BY MapOfFacts DEF Inv, TypeOK, BuilderAssumption
<1>1. cp # None => CheckpointOK(cp) /\ cp.plan = pl /\ cp.map = MapOf(disk)
  BY <1>0 DEF CheckpointsOK, CheckpointValid
<1>2. Work(verified') /\ Closed(pl, verified') /\ dry' \in BOOLEAN
      /\ (~dry' => Holds(MapOf(disk), verified'))
  <2>1. CASE cp = None
    BY <2>1 DEF Work, Closed, Holds
  <2>2. CASE cp # None
    BY <1>1, <2>2 DEF CheckpointOK
  <2> QED BY <2>1, <2>2
<1>3. TypeOK'
  <2>1. left' \subseteq Units BY <1>0
  <2> QED BY <1>0, <1>2, <2>1 DEF TypeOK, Work, BuilderAssumption
<1>4. CheckpointsOK'
  BY <1>0 DEF CheckpointsOK, CheckpointOK, Work, Closed, Holds, Candidates
<1>5. Control'
  <2>1. DOMAIN own' = {}
    OBVIOUS
  <2>2. /\ phase' = "generating" /\ ~result'.promotable /\ left' = Planned[plan'] \ DOMAIN verified'
        /\ Closed(plan', verified') /\ (mode' = "sandbox" => dry')
    BY <1>2 DEF NoResult
  <2> QED BY <2>1, <2>2 DEF Control, Closed
<1>6. Carried'
  <2> SUFFICES ASSUME ~dry' PROVE Holds(map, verified)' /\ OnDisk'
    BY DEF Carried
  <2>1. Holds(MapOf(disk), verified')
    BY <1>2
  <2> QED BY <1>0, <2>1, MapOfFacts DEF Holds, OnDisk
<1> QED
  BY <1>3, <1>4, <1>5, <1>6 DEF Inv, Applied, PromotedWorkIsOnDisk, CompleteBuildIsOnDisk

LEMMA RefuseInv ==
  ASSUME BuilderAssumption, Inv, NEW m \in Modes, NEW pl \in Plans, NEW cp \in {None, kept},
         Refuse(m, pl, cp)
  PROVE  Inv'
<1> USE DEF Refuse, Begin
<1>1. TypeOK'
  BY MapOfFacts DEF Inv, TypeOK
<1>2. CheckpointsOK'
  BY DEF Inv, CheckpointsOK, CheckpointOK, Work, Closed, Holds, Candidates
<1> QED
  BY <1>1, <1>2 DEF Inv, Control, Carried, Applied, PromotedWorkIsOnDisk, CompleteBuildIsOnDisk, Blocked

-----------------------------------------------------------------------------
(* The units of a run.                                                     *)

\* What a step of the loop starts from.
LEMMA ReachedFacts ==
  ASSUME BuilderAssumption, Inv, NEW u \in Units, Reached(u)
  PROVE  /\ phase = "generating" /\ u \in Planned[plan] /\ u \notin DOMAIN verified
         /\ Targets[u] \subseteq Paths /\ ~result.promotable
         /\ Work(verified) /\ Work(own) /\ Closed(plan, verified)
         /\ disk \in Trees /\ stage \in Trees /\ subject \in Trees /\ map \in [Mapped -> Contents]
         /\ left \subseteq Planned[plan] \ DOMAIN verified /\ left \subseteq Units
         /\ DOMAIN own \subseteq Planned[plan]
         /\ \A w \in DOMAIN own \cap DOMAIN verified : own[w] = verified[w]
         /\ mode \in Modes /\ plan \in Plans
BY DEF Inv, TypeOK, Control, Reached, Work, BuilderAssumption

\* A unit without a candidate, or that is not reached, leaves only the loop.
LEMMA NoUnitInv ==
  ASSUME BuilderAssumption, Inv, NEW u \in Units,
         SkipUnit(u) \/ ProviderBudget(u) \/ FailUnit(u)
  PROVE  Inv'
<1>1. Reached(u) /\ phase' = phase /\ left' \subseteq left
  BY DEF SkipUnit, ProviderBudget, FailUnit, Ask
<1>2. UNCHANGED <<disk, stage, verified, own, subject, map, made, Run>>
  BY DEF SkipUnit, ProviderBudget, FailUnit, Ask
<1> USE DEF Run
<1>3. calls' \in Nat /\ calls' <= MaxProviderCalls[plan]
  <2>1. calls \in Nat /\ calls <= MaxProviderCalls[plan] /\ MaxProviderCalls[plan] \in Nat
    BY <1>1 DEF Inv, TypeOK, Reached, BuilderAssumption
  <2>2. calls' = calls \/ (calls < MaxProviderCalls[plan] /\ calls' = calls + 1)
    BY DEF SkipUnit, ProviderBudget, FailUnit, Ask
  <2> QED BY <2>1, <2>2
<1>4. TypeOK'
  BY <1>1, <1>2, <1>3 DEF Inv, TypeOK, Candidates
<1>5. CheckpointsOK'
  BY <1>2 DEF Inv, CheckpointsOK, CheckpointOK, Work, Closed, Holds, Candidates
<1>6. Control'
  BY <1>1, <1>2, ReachedFacts DEF Inv, Control, Closed
<1>7. Carried'
  BY <1>1, <1>2 DEF Inv, Carried, Holds, OnDisk
<1> QED
  BY <1>1, <1>2, <1>4, <1>5, <1>6, <1>7, ReachedFacts
  DEF Inv, Applied, PromotedWorkIsOnDisk, CompleteBuildIsOnDisk

\* What materializing a candidate does to the trees and to the map.
LEMMA MaterializeFacts ==
  ASSUME BuilderAssumption, Inv, NEW u \in Units, Reached(u), NEW c \in Candidates(u),
         Materialize(u, c)
  PROVE  /\ disk' \in Trees /\ stage' \in Trees /\ subject' \in Trees
         /\ map' \in [Mapped -> Contents]
         /\ \A p \in Paths \ Targets[u] : disk'[p] = disk[p]
         /\ mode = "apply" => \A p \in Targets[u] : disk'[p] = c[p]
         /\ mode # "apply" => disk' = disk
         /\ mode # "sandbox" => map' = Reindex(map, c)
<1>1. CASE mode = "sandbox"
  BY <1>1, ReachedFacts DEF Materialize
<1>2. CASE mode # "sandbox"
  <2>1. Tree(mode) \in Trees /\ (mode = "apply" => Tree(mode) = disk)
    BY ReachedFacts DEF Tree
  <2>2. subject' = Put(Tree(mode), c) /\ map' = Reindex(map, c)
    BY <1>2 DEF Materialize
  <2>a. /\ subject' \in Trees
        /\ \A p \in Targets[u] : subject'[p] = c[p]
        /\ \A p \in Paths \ Targets[u] : subject'[p] = Tree(mode)[p]
    BY <2>1, <2>2, PutFacts
  <2>b. map' \in [Mapped -> Contents]
    BY <2>2, ReindexFacts, ReachedFacts
  <2>3. CASE mode = "build"
    <3>1. stage' = subject' /\ disk' = disk BY <2>3 DEF Materialize
    <3> QED BY <2>2, <2>3, <2>a, <2>b, <3>1, ReachedFacts
  <2>4. CASE mode = "apply"
    <3>1. disk' = subject' /\ stage' = stage BY <2>4 DEF Materialize
    <3> QED BY <2>1, <2>2, <2>4, <2>a, <2>b, <3>1, ReachedFacts
  <2> QED BY <1>2, <2>3, <2>4, ReachedFacts DEF Modes
<1> QED BY <1>1, <1>2

\* The files of the other completed units stay as they are.
LEMMA MaterializeKeeps ==
  ASSUME BuilderAssumption, Inv, NEW u \in Units, Reached(u), NEW c \in Candidates(u),
         Materialize(u, c), ~dry, mode # "sandbox"
  PROVE  /\ Holds(map', verified) /\ Holds(map', With(verified, u, c))
         /\ mode = "apply" =>
              \A w \in DOMAIN verified : \A p \in (Targets[w] \cap Mapped) \ touched :
                disk'[p] = verified[w][p]
<1>1. Holds(map, verified) /\ (mode = "apply" => OnDisk)
  BY ReachedFacts DEF Inv, Carried
<1>2. Holds(map', verified) /\ Holds(map', With(verified, u, c))
  BY <1>1, HoldsWith, MaterializeFacts, ReachedFacts
<1>3. \A w \in DOMAIN verified : Targets[w] \cap Targets[u] = {} /\ Targets[w] \subseteq Paths
  BY ReachedFacts DEF BuilderAssumption, Work
<1>4. ASSUME mode = "apply", NEW w \in DOMAIN verified, NEW p \in (Targets[w] \cap Mapped) \ touched
      PROVE  disk'[p] = verified[w][p]
  <2>1. disk[p] = verified[w][p] BY <1>1, <1>4 DEF OnDisk
  <2>2. p \in Paths \ Targets[u] BY <1>3
  <2> QED BY <2>1, <2>2, MaterializeFacts
<1> QED BY <1>2, <1>4

\* Every completed unit of the run, and its checkpoint.
LEMMA RejectUnitInv ==
  ASSUME BuilderAssumption, Inv, NEW u \in Units, RejectUnit(u)
  PROVE  Inv'
<1> USE DEF RejectUnit, Ask, Run
<1>0. PICK c \in Candidates(u) : Materialize(u, c) /\ own' = With(own, u, c)
  OBVIOUS
<1>1. /\ Reached(u) /\ phase = "generating" /\ phase' = phase
      /\ left' = left \ {u} /\ verified' = verified
  BY ReachedFacts
<1>2. /\ DOMAIN own' = DOMAIN own \cup {u}
      /\ \A w \in DOMAIN own : w # u => own'[w] = own[w]
  BY <1>0 DEF With
<1>a. Work(own')
  BY <1>0, <1>1, ReachedFacts, WithWork
<1>3. calls' \in Nat /\ calls' <= MaxProviderCalls[plan]
  BY DEF Inv, TypeOK, BuilderAssumption
<1>4. TypeOK'
  BY <1>0, <1>1, <1>a, <1>3, MaterializeFacts DEF Inv, TypeOK, Work, Candidates
<1>5. CheckpointsOK'
  BY <1>1 DEF Inv, CheckpointsOK, CheckpointOK, Work, Closed, Holds, Candidates
<1>6. Control'
  BY <1>1, <1>2, ReachedFacts DEF Inv, Control, Closed
<1>7. Carried'
  <2> SUFFICES ASSUME ~dry PROVE Holds(map', verified) /\ (mode = "apply" => OnDisk')
    BY <1>1 DEF Carried, Holds
  <2>1. mode # "sandbox"
    BY <1>1 DEF Inv, Control
  <2> QED BY <1>0, <1>1, <2>1, MaterializeKeeps DEF OnDisk
<1> QED
  BY <1>1, <1>4, <1>5, <1>6, <1>7, ReachedFacts
  DEF Inv, Applied, PromotedWorkIsOnDisk, CompleteBuildIsOnDisk

LEMMA VerifyUnitInv ==
  ASSUME BuilderAssumption, Inv, NEW u \in Units, VerifyUnit(u)
  PROVE  Inv'
<1> USE DEF VerifyUnit, Ask, Run
<1>0. PICK c \in Candidates(u) :
        Materialize(u, c) /\ own' = With(own, u, c) /\ verified' = With(verified, u, c)
  OBVIOUS
<1>1. /\ Reached(u) /\ phase = "generating" /\ phase' = phase /\ Ready(u)
      /\ left' \subseteq left \ {u}
  BY ReachedFacts
<1>2. /\ DOMAIN own' = DOMAIN own \cup {u}
      /\ own'[u] = c /\ \A w \in DOMAIN own : w # u => own'[w] = own[w]
  BY <1>0 DEF With
<1>3. /\ DOMAIN verified' = DOMAIN verified \cup {u}
      /\ verified'[u] = c /\ \A w \in DOMAIN verified : w # u => verified'[w] = verified[w]
  BY <1>0 DEF With
<1>a. Work(own') /\ Work(verified')
  BY <1>0, <1>1, ReachedFacts, WithWork
<1>4. calls' \in Nat /\ calls' <= MaxProviderCalls[plan]
  BY DEF Inv, TypeOK, BuilderAssumption
<1>5. TypeOK'
  BY <1>0, <1>1, <1>a, <1>4, MaterializeFacts DEF Inv, TypeOK, Work, Candidates
<1>6. Closed(plan, verified')
  BY <1>1, <1>3, ReachedFacts DEF Closed, Ready
<1>7. ~dry => /\ Holds(map', verified')
              /\ mode = "apply" => OnDisk'
  <2> SUFFICES ASSUME ~dry PROVE Holds(map', verified') /\ (mode = "apply" => OnDisk')
    OBVIOUS
  <2>1. mode # "sandbox"
    BY <1>1 DEF Inv, Control
  <2>2. Holds(map', verified')
    BY <1>0, <1>1, <2>1, MaterializeKeeps
  <2>3. ASSUME mode = "apply", NEW w \in DOMAIN verified', NEW p \in (Targets[w] \cap Mapped) \ touched
        PROVE  disk'[p] = verified'[w][p]
    <3>1. CASE w = u
      BY <1>0, <1>1, <1>3, <2>3, <3>1, MaterializeFacts
    <3>2. CASE w # u
      BY <1>0, <1>1, <1>3, <2>1, <2>3, <3>2, MaterializeKeeps
    <3> QED BY <3>1, <3>2
  <2> QED BY <2>2, <2>3 DEF OnDisk
<1>8. CheckpointsOK'
  <2>1. dry \in BOOLEAN BY DEF Inv, TypeOK
  <2>2. CheckpointOK(Checkpoint(verified', subject', map'))
    BY <1>a, <1>6, <1>7, <2>1 DEF CheckpointOK, Checkpoint
  <2>3. made' \subseteq made \cup {Checkpoint(verified', subject', map')} /\ kept' = kept
    OBVIOUS
  <2>4. \A cp \in made \cup {kept} : cp # None => CheckpointOK(cp)
    BY DEF Inv, CheckpointsOK
  <2>5. \A cp \in made' \cup {kept'} : cp # None => CheckpointOK(cp)
    BY <2>2, <2>3, <2>4
  <2> QED BY <2>5 DEF CheckpointsOK, CheckpointOK, Work, Closed, Holds, Candidates
<1>9. Control'
  BY <1>1, <1>2, <1>3, <1>6, ReachedFacts DEF Inv, Control, Closed
<1>10. Carried'
  BY <1>1, <1>7 DEF Carried, Holds
<1> QED
  BY <1>1, <1>5, <1>8, <1>9, <1>10, ReachedFacts
  DEF Inv, Applied, PromotedWorkIsOnDisk, CompleteBuildIsOnDisk

-----------------------------------------------------------------------------
(* The end of a run, and the build.                                        *)

\* A result is returned: the trees and the work of the run stay.
LEMMA ReturnInv ==
  ASSUME BuilderAssumption, Inv, Return, phase' = "idle", left' \subseteq left,
         index' \in [Mapped -> Contents],
         UNCHANGED <<disk, stage, mode, plan, verified, own, dry, calls, subject, map, made,
                     touched, runs, edits>>
  PROVE  TypeOK' /\ CheckpointsOK' /\ Control' /\ Carried' /\ Applied'
<1>1. TypeOK'
  BY DEF Inv, TypeOK, Candidates
<1>2. CheckpointsOK'
  BY DEF Inv, CheckpointsOK, CheckpointOK, Work, Closed, Holds, Candidates, Return
<1> QED
  BY <1>1, <1>2 DEF Control, Carried, Applied

LEMMA BlockBuildInv ==
  ASSUME BuilderAssumption, Inv, BlockBuild
  PROVE  Inv'
<1>1. index' \in [Mapped -> Contents] BY DEF BlockBuild, Inv, TypeOK
<1> QED
  BY <1>1, ReturnInv DEF BlockBuild, Blocked, Inv, PromotedWorkIsOnDisk, CompleteBuildIsOnDisk

LEMMA FinishInv ==
  ASSUME BuilderAssumption, Inv, Finish
  PROVE  Inv'
<1> USE DEF Finish
<1>1. index' \in [Mapped -> Contents] BY DEF Inv, TypeOK
<1>2. TypeOK' /\ CheckpointsOK' /\ Control' /\ Carried' /\ Applied'
  BY <1>1, ReturnInv
<1>3. CompleteBuildIsOnDisk'
  BY DEF CompleteBuildIsOnDisk
<1>4. PromotedWorkIsOnDisk'
  <2> SUFFICES ASSUME mode = "apply", result'.promotable, ~dry
               PROVE  \A u \in Planned[plan], p \in Mapped \ touched :
                        p \in Targets[u] => disk[p] = verified[u][p]
    BY DEF PromotedWorkIsOnDisk
  <2>1. Complete
    <3>1. PICK full \in BOOLEAN : result'.promotable = (Complete /\ full)
      OBVIOUS
    <3> QED BY <3>1
  <2>2. OnDisk
    BY DEF Inv, Carried
  <2> QED BY <2>1, <2>2 DEF Complete, OnDisk
<1> QED BY <1>2, <1>3, <1>4 DEF Inv

LEMMA GateInv ==
  ASSUME BuilderAssumption, Inv, StageVerified \/ CandidatesPass
  PROVE  Inv'
<1>1. UNCHANGED <<disk, stage, mode, plan, verified, own, dry, calls, subject, made,
                  kept, index, result, touched, runs, edits>>
  BY DEF StageVerified, CandidatesPass
<1>2. /\ phase # "idle" /\ phase' \in {"checking", "applying"}
      /\ mode = "build" /\ Planned[plan] \subseteq DOMAIN verified
      /\ phase' = "applying" => left' = Given[plan] /\ Given[plan] \subseteq DOMAIN own
  BY DEF StageVerified, CandidatesPass, Complete, Inv, Control
<1>3. TypeOK'
  <2>1. map' \in [Mapped -> Contents] BY DEF StageVerified, CandidatesPass, Inv, TypeOK
  <2>2. left' \subseteq Units
    BY DEF StageVerified, CandidatesPass, Inv, TypeOK, BuilderAssumption
  <2> QED BY <1>1, <1>2, <2>1, <2>2 DEF Inv, TypeOK, Candidates
<1>4. CheckpointsOK'
  BY <1>1 DEF Inv, CheckpointsOK, CheckpointOK, Work, Closed, Holds, Candidates
<1>5. Control'
  BY <1>1, <1>2 DEF Inv, Control, Closed
<1>6. Applied'
  BY <1>1, <1>2 DEF Applied
<1> QED
  BY <1>1, <1>2, <1>3, <1>4, <1>5, <1>6 DEF Inv, Carried, PromotedWorkIsOnDisk, CompleteBuildIsOnDisk

\* What a build applies.
LEMMA ApplyFacts ==
  ASSUME BuilderAssumption, Inv, phase = "applying", NEW u \in left
  PROVE  /\ u \in Units /\ u \in Given[plan] /\ u \in DOMAIN own /\ own[u] \in Candidates(u)
         /\ own[u] \in [Targets[u] -> Generated] /\ Targets[u] \in SUBSET Paths
         /\ mode = "build" /\ Given[plan] \subseteq DOMAIN own \cap DOMAIN verified
         /\ disk \in Trees /\ map \in [Mapped -> Contents] /\ ~result.promotable
         /\ Given[plan] \subseteq Units /\ left \subseteq Units /\ left \subseteq Given[plan]
         /\ \A w \in Given[plan] : own[w] = verified[w]
BY DEF Inv, TypeOK, Control, Candidates, BuilderAssumption

LEMMA ApplyUnitInv ==
  ASSUME BuilderAssumption, Inv, NEW u \in Units, ApplyUnit(u)
  PROVE  Inv'
<1> USE DEF ApplyUnit
<1>1. /\ disk' \in Trees
      /\ \A p \in Targets[u] : disk'[p] = own[u][p]
      /\ \A p \in Paths \ Targets[u] : disk'[p] = disk[p]
  <2>1. disk \in Trees /\ own[u] \in Candidates(u)
    BY ApplyFacts
  <2> QED BY <2>1, PutFacts
<1>2. /\ map' \in [Mapped -> Contents]
      /\ \A p \in Targets[u] \cap Mapped : map'[p] = own[u][p]
      /\ \A p \in Mapped \ Targets[u] : map'[p] = map[p]
  <2>1. map \in [Mapped -> Contents] /\ own[u] \in Candidates(u)
    BY ApplyFacts
  <2> QED BY <2>1, ReindexFacts
<1>3. TypeOK'
  BY <1>1, <1>2, ApplyFacts DEF Inv, TypeOK, Candidates
<1>4. CheckpointsOK'
  BY DEF Inv, CheckpointsOK, CheckpointOK, Work, Closed, Holds, Candidates
<1>5. Control'
  BY ApplyFacts DEF Inv, Control, Closed
<1>6. Applied'
  <2> SUFFICES ASSUME NEW w \in Given[plan] \ left', NEW p \in Targets[w]
               PROVE  /\ p \notin touched => disk'[p] = own[w][p]
                      /\ p \in Mapped => map'[p] = own[w][p]
    BY DEF Applied
  <2>1. CASE w = u
    BY <1>1, <1>2, <2>1
  <2>2. CASE w # u
    <3>1. w \in Units /\ w \notin left /\ p \in Paths \ Targets[u]
      BY <2>2, ApplyFacts DEF BuilderAssumption
    <3>2. /\ p \notin touched => disk[p] = own[w][p]
          /\ p \in Mapped => map[p] = own[w][p]
      BY <3>1 DEF Inv, Applied
    <3> QED BY <1>1, <1>2, <3>1, <3>2
  <2> QED BY <2>1, <2>2
<1> QED
  BY <1>3, <1>4, <1>5, <1>6, ApplyFacts DEF Inv, Carried, PromotedWorkIsOnDisk, CompleteBuildIsOnDisk

LEMMA FinishBuildInv ==
  ASSUME BuilderAssumption, Inv, FinishBuild
  PROVE  Inv'
<1> USE DEF FinishBuild
<1>1. index' \in [Mapped -> Contents] BY DEF Inv, TypeOK
<1>2. TypeOK' /\ CheckpointsOK' /\ Control' /\ Carried' /\ Applied'
  BY <1>1, ReturnInv
<1>3. mode = "build" /\ Given[plan] \subseteq DOMAIN own \cap DOMAIN verified
      /\ \A w \in Given[plan] : own[w] = verified[w]
  BY DEF Inv, Control
<1>4. CompleteBuildIsOnDisk'
  BY <1>3 DEF Inv, Applied, CompleteBuildIsOnDisk
<1>5. PromotedWorkIsOnDisk'
  BY <1>3 DEF PromotedWorkIsOnDisk
<1> QED BY <1>2, <1>4, <1>5 DEF Inv

-----------------------------------------------------------------------------
(* The process and the user.                                               *)

LEMMA DieInv ==
  ASSUME BuilderAssumption, Inv, phase # "idle", phase' = "idle", left' = {}, disk' \in Trees,
         index' = MapOf(disk'),
         UNCHANGED <<stage, mode, plan, verified, own, dry, calls, subject, map, made, kept,
                     result, touched, runs, edits>>
  PROVE  Inv'
<1>1. index' \in [Mapped -> Contents]
  BY MapOfFacts
<1>2. TypeOK'
  BY <1>1 DEF Inv, TypeOK, Candidates
<1>3. CheckpointsOK'
  BY DEF Inv, CheckpointsOK, CheckpointOK, Work, Closed, Holds, Candidates
<1>4. ~result'.promotable
  BY DEF Inv, Control
<1> QED
  BY <1>2, <1>3, <1>4 DEF Inv, Control, Carried, Applied, PromotedWorkIsOnDisk, CompleteBuildIsOnDisk

LEMMA DieWritingDisk ==
  ASSUME BuilderAssumption, Inv, NEW u \in Units, DieWriting(u)
  PROVE  phase # "idle" /\ disk' \in Trees
<1>1. PICK content \in Writes(u), written \in SUBSET Targets[u] :
        disk' = Put(disk, [p \in written |-> content[p]])
  BY DEF DieWriting
<1>2. content \in Candidates(u) /\ phase # "idle"
  <2>1. CASE phase = "applying"
    BY <2>1, ApplyFacts DEF Writes
  <2>2. CASE phase # "applying"
    BY <2>2, ReachedFacts DEF Writes
  <2> QED BY <2>1, <2>2
<1>3. \A p \in written : content[p] \in Contents
  BY <1>2 DEF Candidates, Contents
<1>4. disk \in Trees
  BY DEF Inv, TypeOK
<1> QED BY <1>1, <1>2, <1>3, <1>4 DEF Put, Trees

LEMMA EditInv ==
  ASSUME BuilderAssumption, Inv, NEW p \in Paths, NEW v \in Edited \cup {Absent}, Edit(p, v)
  PROVE  Inv'
<1> USE DEF Edit
<1>1. disk' \in Trees /\ \A q \in Paths : q \notin touched' => disk'[q] = disk[q]
  BY DEF Inv, TypeOK, Trees, Contents
<1>2. touched \subseteq touched' /\ touched' \subseteq Paths /\ edits' \in 0 .. MaxEdits
  BY DEF Inv, TypeOK, BuilderAssumption
<1>3. TypeOK'
  BY <1>1, <1>2 DEF Inv, TypeOK, Candidates
<1>4. CheckpointsOK'
  BY DEF Inv, CheckpointsOK, CheckpointOK, Work, Closed, Holds, Candidates
<1>5. Control'
  BY DEF Inv, Control, Closed
<1>6. Carried' /\ PromotedWorkIsOnDisk'
  BY <1>1, <1>2 DEF Inv, Carried, Holds, OnDisk, PromotedWorkIsOnDisk, BuilderAssumption
<1>7. Applied'
  <2> SUFFICES ASSUME phase = "applying", NEW w \in Given[plan] \ left, NEW q \in Targets[w]
               PROVE  /\ q \notin touched' => disk'[q] = own[w][q]
                      /\ q \in Mapped => map[q] = own[w][q]
    BY DEF Applied
  <2>1. q \in Paths
    BY DEF Inv, TypeOK, BuilderAssumption
  <2> QED BY <1>1, <1>2, <2>1 DEF Inv, Applied
<1>8. CompleteBuildIsOnDisk'
  BY <1>1, <1>2 DEF Inv, CompleteBuildIsOnDisk
<1> QED BY <1>3, <1>4, <1>5, <1>6, <1>7, <1>8 DEF Inv

-----------------------------------------------------------------------------
(* The theorems.                                                           *)

LEMMA StutterInv ==
  ASSUME Inv, UNCHANGED vars
  PROVE  Inv'
BY DEF vars, Inv, TypeOK, CheckpointsOK, CheckpointOK, Work, Closed, Holds, Candidates, Control,
       Carried, OnDisk, Applied, PromotedWorkIsOnDisk, CompleteBuildIsOnDisk

LEMMA StepInv ==
  ASSUME BuilderAssumption, Inv, Step
  PROVE  Inv'
<1>1. ASSUME NEW u \in Units, SkipUnit(u) \/ ProviderBudget(u) \/ FailUnit(u) PROVE Inv'
  BY <1>1, NoUnitInv
<1>2. ASSUME NEW u \in Units, RejectUnit(u) PROVE Inv'
  BY <1>2, RejectUnitInv
<1>3. ASSUME NEW u \in Units, VerifyUnit(u) PROVE Inv'
  BY <1>3, VerifyUnitInv
<1>4. ASSUME NEW u \in Units, ApplyUnit(u) PROVE Inv'
  BY <1>4, ApplyUnitInv
<1>5. CASE StageVerified \/ CandidatesPass
  BY <1>5, GateInv
<1>6. CASE StageRejected \/ CandidatesRejected \/ ApplicationBlocked
  BY <1>6, BlockBuildInv DEF StageRejected, CandidatesRejected, ApplicationBlocked
<1>7. CASE Finish
  BY <1>7, FinishInv
<1>8. CASE FinishBuild
  BY <1>8, FinishBuildInv
<1> QED
  BY <1>1, <1>2, <1>3, <1>4, <1>5, <1>6, <1>7, <1>8 DEF Step

LEMMA NextInv ==
  ASSUME BuilderAssumption, Inv, [Next]_vars
  PROVE  Inv'
<1>1. CASE Call
  BY <1>1, StartInv, RefuseInv DEF Call
<1>2. CASE Step
  BY <1>2, StepInv
<1>3. CASE Die
  <2>1. disk' = disk /\ disk \in Trees BY <1>3 DEF Die, Inv, TypeOK
  <2> QED BY <1>3, <2>1, DieInv DEF Die
<1>4. ASSUME NEW u \in Units, DieWriting(u) PROVE Inv'
  BY <1>4, DieWritingDisk, DieInv DEF DieWriting
<1>5. ASSUME NEW p \in Paths, NEW v \in Edited \cup {Absent}, Edit(p, v) PROVE Inv'
  BY <1>5, EditInv
<1>6. CASE UNCHANGED vars
  BY <1>6, StutterInv
<1> QED BY <1>1, <1>2, <1>3, <1>4, <1>5, <1>6 DEF Next

LEMMA BuilderInvariant == Spec => []Inv
<1>1. Init => Inv
  BY BuilderAssumption, InitInv
<1>2. Inv /\ [Next]_vars => Inv'
  BY BuilderAssumption, NextInv
<1> QED BY <1>1, <1>2, PTL DEF Spec

\* The variables have their types, and a run stays within its provider budget.
THEOREM BuilderTypeCorrect == Spec => []TypeOK
<1>1. Inv => TypeOK BY DEF Inv
<1> QED BY <1>1, BuilderInvariant, PTL

\* No unit is completed before the units it depends on, from any checkpoint.
THEOREM DependenciesFirst == Spec => []DependenciesVerified
<1>1. Inv => DependenciesVerified
  BY DEF Inv, Control, Closed, DependenciesVerified
<1> QED BY <1>1, BuilderInvariant, PTL

\* An applied project is promotable only with its verified files on disk.
THEOREM PromotedOnDisk == Spec => []PromotedWorkIsOnDisk
<1>1. Inv => PromotedWorkIsOnDisk BY DEF Inv
<1> QED BY <1>1, BuilderInvariant, PTL

\* A complete build is on disk, and in the map of the coordinator.
THEOREM CompleteBuildOnDisk == Spec => []CompleteBuildIsOnDisk
<1>1. Inv => CompleteBuildIsOnDisk BY DEF Inv
<1> QED BY <1>1, BuilderInvariant, PTL

\* A checkpoint of applied work is accepted only while its files are intact.
THEOREM ResumedWorkIntact == Spec => ResumedWorkIsIntact
<1>1. Inv /\ [Next]_vars =>
        [\A u \in Units, p \in Mapped :
           phase = "idle" /\ phase' = "generating" /\ ~dry' /\ u \in DOMAIN verified' /\ p \in Targets[u]
             => disk[p] = verified'[u][p]]_vars
  <2> SUFFICES ASSUME Inv, Next, phase = "idle", phase' = "generating", ~dry',
                      NEW u \in DOMAIN verified', NEW p \in Targets[u] \cap Mapped
               PROVE  disk[p] = verified'[u][p]
    OBVIOUS
  <2>1. ~Step
    BY DEF Step, SkipUnit, ProviderBudget, FailUnit, RejectUnit, VerifyUnit, Ask, Reached, Finish,
           StageVerified, StageRejected, CandidatesPass, CandidatesRejected, ApplyUnit,
           ApplicationBlocked, FinishBuild
  <2>2. PICK m \in Modes, pl \in Plans, cp \in {None, kept} : Start(m, pl, cp)
    BY <2>1 DEF Next, Call, Refuse, Die, DieWriting, Edit
  <2>3. Inv'
    BY <2>2, BuilderAssumption, StartInv
  <2>4. Holds(map', verified') /\ map' = MapOf(disk)
    BY <2>2, <2>3 DEF Inv, Carried, Holds, Start, Begin
  <2>5. disk \in Trees
    BY DEF Inv, TypeOK
  <2> QED BY <2>4, <2>5, BuilderAssumption, MapOfFacts DEF Holds
<1> QED BY <1>1, BuilderInvariant, PTL DEF Spec, ResumedWorkIsIntact

\* A build writes nothing before every given unit is verified, and then only that.
THEOREM BuildVerified == Spec => BuildWritesVerifiedWork
<1>1. Inv /\ [Next]_vars =>
        [mode = "build" /\ edits' = edits /\ disk' # disk =>
           /\ \A u \in Given[plan] : u \in DOMAIN own /\ u \in DOMAIN verified /\ own[u] = verified[u]
           /\ \A p \in Paths : disk'[p] # disk[p] =>
                \E u \in Given[plan] : p \in Targets[u] /\ disk'[p] = verified[u][p]]_vars
  <2> SUFFICES ASSUME Inv, Next, mode = "build", edits' = edits, disk' # disk
               PROVE  /\ \A u \in Given[plan] : u \in DOMAIN own /\ u \in DOMAIN verified /\ own[u] = verified[u]
                      /\ \A p \in Paths : disk'[p] # disk[p] =>
                           \E u \in Given[plan] : p \in Targets[u] /\ disk'[p] = verified[u][p]
    OBVIOUS
  <2> USE DEF Candidates
  <2>1. PICK u \in Units : ApplyUnit(u) \/ DieWriting(u)
    <3>1. ~Call BY DEF Call, Start, Refuse, Begin
    <3>2. \A p \in Paths, v \in Edited \cup {Absent} : ~Edit(p, v)
      <4>1. edits \in Nat BY DEF Inv, TypeOK, BuilderAssumption
      <4> QED BY <4>1 DEF Edit
    <3>3. ~Die BY DEF Die
    <3>4. ASSUME Step PROVE \E u \in Units : ApplyUnit(u)
      <4>1. \A u \in Units : ~SkipUnit(u) /\ ~ProviderBudget(u) /\ ~FailUnit(u)
        BY DEF SkipUnit, ProviderBudget, FailUnit
      <4>2. \A u \in Units : ~RejectUnit(u) /\ ~VerifyUnit(u)
        BY DEF RejectUnit, VerifyUnit, Materialize
      <4>3. ~Finish /\ ~StageVerified /\ ~StageRejected /\ ~CandidatesPass /\ ~CandidatesRejected
            /\ ~ApplicationBlocked /\ ~FinishBuild
        BY DEF Finish, StageVerified, StageRejected, CandidatesPass, CandidatesRejected,
               ApplicationBlocked, FinishBuild, BlockBuild
      <4> QED BY <3>4, <4>1, <4>2, <4>3 DEF Step
    <3> QED BY <3>1, <3>2, <3>3, <3>4 DEF Next
  <2>2. phase = "applying" /\ u \in left
    BY <2>1 DEF ApplyUnit, DieWriting, Writes
  <2>3. PICK ps \in SUBSET Targets[u] : disk' = Put(disk, [p \in ps |-> own[u][p]])
    <3>1. CASE ApplyUnit(u)
      <4>1. own[u] = [p \in Targets[u] |-> own[u][p]]
        BY <2>2, BuilderAssumption, ApplyFacts
      <4> QED BY <3>1, <4>1 DEF ApplyUnit
    <3>2. CASE DieWriting(u)
      BY <2>2, <3>2 DEF DieWriting, Writes
    <3> QED BY <2>1, <3>1, <3>2
  <2>4. /\ u \in Given[plan] /\ Given[plan] \subseteq DOMAIN own \cap DOMAIN verified
        /\ \A w \in Given[plan] : own[w] = verified[w]
    BY <2>2, BuilderAssumption, ApplyFacts
  <2>5. \A p \in Paths : disk'[p] # disk[p] => p \in Targets[u] /\ disk'[p] = own[u][p]
    BY <2>3 DEF Put
  <2> QED BY <2>4, <2>5
<1> QED BY <1>1, BuilderInvariant, PTL DEF Spec, BuildWritesVerifiedWork

-----------------------------------------------------------------------------
(* A run advances: what EveryRunReturns rests on besides fairness.         *)

\* The phases of a run, the last one first.
Ahead ==
  CASE phase = "generating" -> 3 [] phase = "checking" -> 2 [] phase = "applying" -> 1 [] OTHER -> 0

\* Each step of a run goes on to a later phase or leaves fewer units to the loop of the
\* phase it is in, and what the user does in between gives it no unit back: a run over
\* finitely many units takes a bounded number of steps, whatever the provider, the
\* validators and the gates answer (generate, and build of the coordinator).
THEOREM RunsAdvance ==
  Spec => [][/\ Step => \/ Ahead' < Ahead
                        \/ phase' = phase /\ left' \subseteq left /\ left' # left
             /\ ~Step /\ phase # "idle" => phase' = "idle" \/ UNCHANGED <<phase, left>>]_vars
<1>1. ASSUME Step
      PROVE  Ahead' < Ahead \/ (phase' = phase /\ left' \subseteq left /\ left' # left)
  <2>1. ASSUME NEW u \in Units,
               SkipUnit(u) \/ ProviderBudget(u) \/ FailUnit(u) \/ RejectUnit(u) \/ VerifyUnit(u)
        PROVE  phase' = phase /\ left' \subseteq left /\ left' # left
    <3>1. u \in left
      BY <2>1 DEF SkipUnit, ProviderBudget, FailUnit, RejectUnit, VerifyUnit, Ask, Reached
    <3>2. phase' = phase /\ left' \in {left \ {u}, {}}
      BY <2>1 DEF SkipUnit, ProviderBudget, FailUnit, RejectUnit, VerifyUnit
    <3> QED
      BY <3>1, <3>2
  <2>2. CASE Finish \/ FinishBuild \/ StageRejected \/ CandidatesRejected \/ ApplicationBlocked
    BY <2>2 DEF Finish, FinishBuild, StageRejected, CandidatesRejected, ApplicationBlocked,
                BlockBuild, Ahead
  <2>3. CASE StageVerified \/ CandidatesPass
    BY <2>3 DEF StageVerified, CandidatesPass, Ahead
  <2>4. ASSUME NEW u \in Units, ApplyUnit(u)
        PROVE  phase' = phase /\ left' \subseteq left /\ left' # left
    BY <2>4 DEF ApplyUnit
  <2> QED
    BY <1>1, <2>1, <2>2, <2>3, <2>4 DEF Step
<1>2. ASSUME Next, ~Step, phase # "idle"
      PROVE  phase' = "idle" \/ UNCHANGED <<phase, left>>
  BY <1>2 DEF Next, Call, Start, Refuse, Begin, Die, DieWriting, Edit
<1> QED
  BY <1>1, <1>2, PTL DEF Spec
=============================================================================
