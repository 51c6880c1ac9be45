-------------------------- MODULE PatchRepairProofs --------------------------
(***************************************************************************)
(* The safety properties of PatchRepair, for all files, texts, patches,    *)
(* budgets and bounds.  What a call has at hand, how far its phases got    *)
(* and what it used up follow from the place it is at; the files nobody    *)
(* else wrote are those of the staged copy as far as they were copied.     *)
(***************************************************************************)
EXTENDS PatchRepair, FiniteSetTheorems, TLAPS

Problems == [subject : Trees, revision : Trees]

Cores == [phase : Phases, stages : Nat]

Usages == [attempts : 0..MaxAttempts, rounds : 0..MaxRounds, requests : 0..MaxRequests]

Boxes == [cand : Candidates, tree : Trees]

Searches ==
  [before : Optional, shortlist : Nat, found : BOOLEAN, queue : SUBSET Candidates, gates : Nat,
   valid : Nat, viable : SUBSET Candidates, best : Candidates \cup {None},
   tried : SUBSET Candidates, verified : SUBSET Candidates]

\* The places of a call: the search, what follows it, and of that where a staged copy
\* exists and where it is being made the project.
InSearch == {"search", "hash", "generate", "evaluate", "finalists", "choose"}

Staged == {"gate", "verify", "copy", "index", "remember"}

Copying == {"copy", "index", "remember"}

\* What a call has at hand at each place, and what no call leaves behind.
AtHand ==
  /\ core \in Cores /\ search \in Searches /\ box \in Boxes \cup {None}
  /\ call.kind = "none" <=> pc = "idle"
  /\ call.kind = "submit" => pc \in {"clone"} \cup Staged
  /\ pc \in {"problem"} \cup InSearch \/ (call.given /\ pc # "idle") => problem \in Problems
  /\ pc \in {"clone"} \cup Staged => winner \in Candidates
  /\ stage # None <=> pc \in Staged
  /\ box # None => pc \in {"evaluate", "finalists"}
  /\ pc # "idle" => result = NoResult

\* The finalists are tried one after the other, the best of the viable ones first.
TriedInOrder ==
  /\ pc \in {"hash", "generate", "evaluate"} => search.tried = {} /\ IsFiniteSet(search.viable)
  /\ pc = "finalists" =>
       /\ search.viable # {} => search.best \in search.viable
       /\ search.tried \subseteq search.viable /\ IsFiniteSet(search.viable)
       /\ box # None => box.cand \in search.viable \ search.tried

Types == TypeOK /\ AtHand /\ TriedInOrder

-----------------------------------------------------------------------------

\* A state is in one of some phases, or was blocked by the budget of stages.
OnTrack(k, phases) == k.phase \in phases \/ (k.phase = "BLOCKED" /\ k.stages > MaxStages)

\* The phases at a place of maintain, and the stages counted at most.
PhasesAt(l) ==
  CASE l = "context" -> {"CONTEXT_BUILDING"}
    [] l = "localize" -> {"LOCALIZING"}
    [] l = "problem" -> {"CONTEXT_BUILDING", "LOCALIZING"}
    [] l \in InSearch -> {"PATCH_SEARCHING"}
    [] OTHER -> {"CANONICAL_APPLYING"}

StagesAt(l) ==
  CASE l = "context" -> 1 [] l = "localize" -> 2 [] l = "problem" -> 4 [] l \in InSearch -> 5
    [] OTHER -> 7

\* The stages of the longest execution.
Longest == 11

PhasesFollow ==
  /\ call.kind = "maintain" => OnTrack(core, PhasesAt(pc)) /\ core.stages <= StagesAt(pc)
  /\ result.status \in {"complete", "partial"} =>
       OnTrack(core, {"COMPLETE"}) /\ core.stages <= Longest
  /\ result.status = "blocked" => core.phase = "BLOCKED"

-----------------------------------------------------------------------------

\* The full verifications the search may use up.
Spare == IF 1 < MaxAttempts THEN MaxAttempts - 1 ELSE 0

\* What the search has used up of the full verifications.
SearchBudget ==
  call.kind = "maintain" =>
    /\ pc \in {"context", "localize", "problem", "search", "hash", "generate", "evaluate"} =>
         used.attempts = 0
    /\ pc \in {"hash", "generate", "evaluate", "finalists"} => search.shortlist <= Spare
    /\ pc = "finalists" =>
         /\ used.attempts <= Cardinality(search.tried)
         /\ Cardinality(search.tried) <= search.shortlist
         /\ box # None => Cardinality(search.tried) < search.shortlist
    /\ pc \in {"choose", "clone", "gate", "verify"} => used.attempts <= Spare

-----------------------------------------------------------------------------

\* How the staged copy and the project compare, but for the files somebody else wrote.
StageFollows ==
  /\ pc = "gate" => \A f \in Files \ edited : project[f] = stage[f]
  /\ pc = "verify" => \A f \in Files \ (edited \cup PathsOf(winner)) : project[f] = stage[f]
  /\ pc \in {"verify"} \cup Copying => PathsOf(winner) \subseteq Permitted
  /\ pc \in Copying =>
       /\ vouched = stage /\ left \subseteq PathsOf(winner)
       /\ \A f \in Files \ (edited \cup left) : project[f] = stage[f]
  /\ pc \in {"index", "remember"} => left = {}
  /\ pc = "remember" => \A f \in PathsOf(winner) \ edited : index[f] = project[f]

\* The files copied by a call that has not remembered them yet.
Unremembered == IF pc \in Copying THEN PathsOf(winner) \ left ELSE {}

BrainFollows ==
  \A e \in brain : e.current =>
    \A f \in DOMAIN e.hashes \ (foreign \cup Unremembered) : e.hashes[f] = project[f]

-----------------------------------------------------------------------------
(* The operators.                                                          *)

LEMMA PhasesAre ==
  Phases = {"INITIALIZING", "CONTEXT_BUILDING", "LOCALIZING", "EXPERIMENTING", "PATCH_SEARCHING",
            "CANDIDATE_SELECTED", "CANONICAL_APPLYING", "VERIFYING", "INDEX_UPDATING",
            "PROMOTABLE", "COMPLETE", "BLOCKED"}
BY DEF Phases, Allowed

LEMMA EnterType ==
  ASSUME NEW k \in Cores, NEW phase \in Phases
  PROVE  /\ Enter(k, phase) \in Cores
         /\ Enter(k, phase).stages = k.stages + 1
         /\ Enter(k, phase).phase \in {phase, "BLOCKED"}
<1>1. "BLOCKED" \in Phases
  BY PhasesAre
<1> QED
  BY <1>1 DEF Enter, Cores

LEMMA BlockedType ==
  ASSUME NEW k \in Cores
  PROVE  Blocked(k) \in Cores
<1>1. "BLOCKED" \in Phases
  BY PhasesAre
<1> QED
  BY <1>1, EnterType DEF Blocked

LEMMA AppliedType ==
  ASSUME NEW k \in Cores
  PROVE  Applied(k) \in Cores /\ Applied(k).stages = k.stages + 4
<1>1. {"VERIFYING", "INDEX_UPDATING", "PROMOTABLE", "COMPLETE"} \subseteq Phases
  BY PhasesAre
<1>2. \A j \in Cores : j.stages \in Nat
  BY DEF Cores
<1> DEFINE a == Enter(k, "VERIFYING")
           b == Enter(a, "INDEX_UPDATING")
           c == Enter(b, "PROMOTABLE")
           d == Enter(c, "COMPLETE")
<1>3. a \in Cores /\ a.stages = k.stages + 1
  BY <1>1, EnterType
<1>4. b \in Cores /\ b.stages = a.stages + 1
  BY <1>1, <1>3, EnterType
<1>5. c \in Cores /\ c.stages = b.stages + 1
  BY <1>1, <1>4, EnterType
<1>6. d \in Cores /\ d.stages = c.stages + 1
  BY <1>1, <1>5, EnterType
<1>7. Applied(k) = d
  BY DEF Applied
<1> HIDE DEF a, b, c, d
<1> QED
  BY <1>2, <1>3, <1>4, <1>5, <1>6, <1>7

\* An operation makes texts of texts.
LEMMA ApplyType ==
  ASSUME RepairAssumption, NEW p \in Patches, NEW f \in DOMAIN Ops[p], NEW t \in Texts
  PROVE  Apply(Ops[p][f], t) \in Texts
<1>1. \A a \in Anchored : \A x \in Texts : Try(a, x) \in Texts
  BY DEF Anchored, Try
<1>2. Ops[p][f] \in Seq(Anchored) /\ Len(Ops[p][f]) \in {1, 2}
  BY DEF RepairAssumption
<1>3. Ops[p][f][1] \in Anchored /\ (Len(Ops[p][f]) = 2 => Ops[p][f][2] \in Anchored)
  BY <1>2
<1> QED
  BY <1>1, <1>3 DEF Apply

LEMMA PatchedFacts ==
  ASSUME RepairAssumption, NEW c \in Candidates, NEW tree \in Trees
  PROVE  /\ Patched(c, tree) \in Trees
         /\ \A f \in Files \ PathsOf(c) : Patched(c, tree)[f] = tree[f]
<1>1. c.patch \in Patches
  BY DEF Candidates
<1>2. \A f \in PathsOf(c) : \A t \in Texts : Apply(Ops[c.patch][f], t) \in Texts
  BY <1>1, ApplyType DEF PathsOf
<1> QED
  BY <1>2 DEF Patched, Trees

LEMMA PathsAreFiles ==
  ASSUME RepairAssumption, NEW c \in Candidates
  PROVE  PathsOf(c) \subseteq Files
BY DEF RepairAssumption, Candidates, PathsOf

LEMMA LimitFacts ==
  ASSUME RepairAssumption
  PROVE  MaxStages \in Nat /\ MaxAttempts \in Nat /\ MaxRounds \in Nat /\ MaxRequests \in Nat
           /\ MaxFinalists \in Nat /\ MaxRuns \in Nat /\ MaxEdits \in Nat
BY DEF RepairAssumption

LEMMA OneMore ==
  ASSUME NEW m \in Nat, NEW n \in 0..m, n < m
  PROVE  n + 1 \in 0..m
OBVIOUS

\* One more of a kind, where there is one left.
LEMMA UsageFacts ==
  ASSUME RepairAssumption
  PROVE  /\ NothingUsed \in Usages
         /\ \A u \in Usages :
              /\ u.attempts < MaxAttempts => [u EXCEPT !.attempts = @ + 1] \in Usages
              /\ u.rounds < MaxRounds => [u EXCEPT !.rounds = @ + 1] \in Usages
              /\ u.requests < MaxRequests => [u EXCEPT !.requests = @ + 1] \in Usages
<1>1. MaxAttempts \in Nat /\ MaxRounds \in Nat /\ MaxRequests \in Nat
  BY DEF RepairAssumption
<1>2. NothingUsed \in Usages
  BY <1>1 DEF NothingUsed, Usages
<1>3. ASSUME NEW u \in Usages
      PROVE  /\ u.attempts < MaxAttempts => [u EXCEPT !.attempts = @ + 1] \in Usages
             /\ u.rounds < MaxRounds => [u EXCEPT !.rounds = @ + 1] \in Usages
             /\ u.requests < MaxRequests => [u EXCEPT !.requests = @ + 1] \in Usages
  <2>1. /\ u.attempts \in 0..MaxAttempts /\ u.rounds \in 0..MaxRounds
        /\ u.requests \in 0..MaxRequests
    BY DEF Usages
  <2>2. /\ u.attempts < MaxAttempts => u.attempts + 1 \in 0..MaxAttempts
        /\ u.rounds < MaxRounds => u.rounds + 1 \in 0..MaxRounds
        /\ u.requests < MaxRequests => u.requests + 1 \in 0..MaxRequests
    BY <1>1, <2>1, OneMore
  <2>3. \A n \in 0..MaxAttempts : [u EXCEPT !.attempts = n] \in Usages
    BY DEF Usages
  <2>4. \A n \in 0..MaxRounds : [u EXCEPT !.rounds = n] \in Usages
    BY DEF Usages
  <2>5. \A n \in 0..MaxRequests : [u EXCEPT !.requests = n] \in Usages
    BY DEF Usages
  <2> QED
    BY <2>2, <2>3, <2>4, <2>5
<1> QED
  BY <1>2, <1>3

LEMMA NoSearchType == NoSearch \in Searches
BY DEF NoSearch, Searches, Optional

-----------------------------------------------------------------------------
(* Types.                                                                  *)

Statuses == {"none", "complete", "partial", "blocked", "raised", "refused", "applied"}

\* The types of what outlives a call.
World ==
  /\ project \in Trees /\ index \in Trees /\ \A e \in brain : e \in Entities
  /\ used \in Usages
  /\ problem \in Problems \cup {None} /\ winner \in Candidates \cup {None}
  /\ foreign \subseteq Files /\ runs \in 0..MaxRuns /\ edits \in 0..MaxEdits

LEMMA InitTypes == ASSUME RepairAssumption, Init PROVE Types
<1>1. NewCore \in Cores /\ NothingUsed \in Usages
  BY PhasesAre, UsageFacts DEF NewCore, Cores
<1>2. project \in Trees /\ index \in Trees
  BY DEF Init, RepairAssumption
<1>a. runs \in 0..MaxRuns /\ edits \in 0..MaxEdits
  BY LimitFacts DEF Init
<1>3. TypeOK
  BY <1>1, <1>2, <1>a DEF Init, TypeOK, Cores, Usages, NoCall, NoResult, Optional
<1>4. AtHand /\ TriedInOrder
  BY <1>1, NoSearchType DEF Init, AtHand, TriedInOrder, NoCall, NoResult, InSearch, Staged
<1> QED
  BY <1>3, <1>4 DEF Types

LEMMA WorldTyped == Types => World
BY DEF Types, TypeOK, World, Usages, Problems

\* A call that returns leaves nothing at hand.
LEMMA ReturnTypes ==
  ASSUME Types, NEW k \in Cores, NEW status \in Statuses, Return(k, status), World'
  PROVE  Types'
<1>1. TypeOK'
  BY DEF Types, TypeOK, World, Return, Cores, Usages, Problems, NoCall, Optional, Statuses
<1>2. AtHand' /\ TriedInOrder'
  BY NoSearchType DEF Types, Return, AtHand, TriedInOrder, NoCall, InSearch, Staged
<1> QED
  BY <1>1, <1>2 DEF Types

LEMMA BlockTypes ==
  ASSUME Types, Block, World'
  PROVE  Types'
<1>1. Blocked(core) \in Cores
  BY BlockedType DEF Types, AtHand
<1> QED
  BY <1>1, ReturnTypes DEF Block, Statuses

\* A step from one place of maintain to the next, up to the end of the search.
LEMMA GotoTypes ==
  ASSUME Types, pc # "idle", call.kind = "maintain",
         NEW l \in {"localize", "problem"} \cup InSearch, Goto(l),
         core' \in Cores, search' \in Searches, World',
         pc \notin {"clone"} \cup Staged,
         l \in {"problem"} \cup InSearch => problem' \in Problems,
         call.given => problem' \in Problems,
         l \in {"hash", "generate", "evaluate"} =>
           search'.tried = {} /\ IsFiniteSet(search'.viable),
         l # "finalists", box = None
  PROVE  Types'
<1>1. TypeOK'
  BY DEF Types, TypeOK, World, Goto, Cores, Usages, Problems, InSearch
<1>2. AtHand' /\ TriedInOrder'
  BY DEF Types, AtHand, TriedInOrder, Goto, InSearch, Staged
<1> QED
  BY <1>1, <1>2 DEF Types

LEMMA BeginTypes ==
  ASSUME RepairAssumption, Types, Begin
  PROVE  Types'
<1>1. core' \in Cores /\ used' \in Usages
  <2>1. NewCore \in Cores /\ "CONTEXT_BUILDING" \in Phases
    BY PhasesAre DEF NewCore, Cores
  <2> QED
    BY <2>1, EnterType, UsageFacts DEF Begin
<1>2. PICK failure, apply, given \in BOOLEAN :
        /\ call' = [kind |-> "maintain", failure |-> failure, apply |-> apply, given |-> given]
        /\ IF given THEN problem' \in {Fresh} \cup ({problem} \ {None}) ELSE UNCHANGED problem
  BY DEF Begin
<1>a. runs' \in 0..MaxRuns
  <2>1. runs \in 0..MaxRuns /\ runs < MaxRuns /\ runs' = runs + 1
    BY DEF Types, TypeOK, Begin
  <2> QED
    BY <2>1, LimitFacts, OneMore
<1>3. Fresh \in Problems /\ problem \in Problems \cup {None}
  BY DEF Fresh, Problems, Types, TypeOK
<1>4. /\ given => problem' \in Problems
      /\ problem' \in Problems \cup {None}
  BY <1>2, <1>3
<1>5. TypeOK'
  BY <1>1, <1>2, <1>a, <1>4 DEF Types, TypeOK, Begin, Cores, Usages, Problems, Optional, NoResult
<1>6. AtHand' /\ TriedInOrder'
  BY <1>1, <1>2, <1>4 DEF Types, AtHand, TriedInOrder, Begin, InSearch, Staged
<1> QED
  BY <1>5, <1>6 DEF Types

LEMMA RestartTypes ==
  ASSUME RepairAssumption, Types, Restart
  PROVE  Types'
<1>1. core' \in Cores /\ used' \in Usages
  BY PhasesAre, UsageFacts DEF Restart, NewCore, Cores
<1>2. TypeOK'
  BY <1>1 DEF Types, TypeOK, Restart, Cores, Usages, Optional, NoResult
<1>3. AtHand' /\ TriedInOrder'
  BY <1>1 DEF Types, AtHand, TriedInOrder, Restart, InSearch, Staged
<1> QED
  BY <1>2, <1>3 DEF Types

LEMMA ContextTypes ==
  ASSUME RepairAssumption, Types, Context
  PROVE  Types'
<1>1. used' \in Usages
  BY WorldTyped, UsageFacts DEF World, Context
<1>2. World'
  BY <1>1, WorldTyped DEF Context, Before, World
<1>3. /\ pc = "context" /\ call.kind = "maintain" /\ box = None /\ UNCHANGED problem
      /\ core \in Cores /\ search \in Searches /\ (call.given => problem \in Problems)
  BY DEF Context, Types, TypeOK, AtHand, Staged
<1>4. Enter(core, "LOCALIZING") \in Cores /\ Enter(core, "COMPLETE") \in Cores
  BY <1>3, EnterType, PhasesAre
<1>5. CASE Block
  BY <1>2, <1>5, BlockTypes
<1>6. CASE core' = Enter(core, "LOCALIZING") /\ Goto("localize") /\ UNCHANGED search
  BY <1>2, <1>3, <1>4, <1>6, GotoTypes DEF InSearch, Staged
<1>7. CASE ~call.failure /\ call.given /\ Goto("problem") /\ UNCHANGED <<core, search>>
  BY <1>2, <1>3, <1>7, GotoTypes DEF InSearch, Staged
<1>8. CASE Return(Enter(core, "COMPLETE"), "complete")
  BY <1>2, <1>4, <1>8, ReturnTypes DEF Statuses
<1> QED
  BY <1>5, <1>6, <1>7, <1>8 DEF Context

\* The state after a round of experiments is one like that before.
LEMMA RoundFacts ==
  ASSUME NEW j \in Cores,
         NEW k \in {j} \cup (IF used.rounds < MaxRounds
                             THEN {Enter(Enter(j, "EXPERIMENTING"), "LOCALIZING")} ELSE {})
  PROVE  /\ k \in Cores
         /\ k # j => used.rounds < MaxRounds /\ k.stages = j.stages + 2
<1>1. Enter(j, "EXPERIMENTING") \in Cores /\ Enter(j, "EXPERIMENTING").stages = j.stages + 1
  BY EnterType, PhasesAre
<1>2. /\ Enter(Enter(j, "EXPERIMENTING"), "LOCALIZING") \in Cores
      /\ Enter(Enter(j, "EXPERIMENTING"), "LOCALIZING").stages = (j.stages + 1) + 1
  BY <1>1, EnterType, PhasesAre
<1>3. j.stages \in Nat
  BY DEF Cores
<1> QED
  BY <1>2, <1>3

LEMMA LocalizeTypes ==
  ASSUME RepairAssumption, Types, Localize
  PROVE  Types'
<1>1. /\ pc = "localize" /\ call.kind = "maintain" /\ box = None
      /\ core \in Cores /\ search \in Searches /\ (call.given => problem \in Problems)
  BY DEF Localize, Types, TypeOK, AtHand, Staged
<1>2. PICK k \in {core} \cup (IF used.rounds < MaxRounds
                              THEN {Enter(Enter(core, "EXPERIMENTING"), "LOCALIZING")} ELSE {}) :
        /\ used' = IF k = core THEN used ELSE [used EXCEPT !.rounds = @ + 1]
        /\ IF call.apply \/ call.given
           THEN core' = k /\ Goto("problem") /\ UNCHANGED search
           ELSE \/ Return(Blocked(k), "blocked")
                \/ Return(Enter(k, "COMPLETE"), "partial")
  BY DEF Localize
<1>3. k \in Cores /\ (k # core => used.rounds < MaxRounds)
  BY <1>1, RoundFacts
<1>4. used' \in Usages
  BY <1>2, <1>3, WorldTyped, UsageFacts DEF World
<1>5. problem' \in Problems
  BY <1>1 DEF Localize, Fresh, Problems, Types, TypeOK
<1>6. World'
  BY <1>4, <1>5, WorldTyped DEF Localize, Before, World
<1>7. Blocked(k) \in Cores /\ Enter(k, "COMPLETE") \in Cores
  BY <1>3, EnterType, BlockedType, PhasesAre
<1>8. CASE core' = k /\ Goto("problem") /\ UNCHANGED search
  BY <1>1, <1>3, <1>5, <1>6, <1>8, GotoTypes DEF InSearch, Staged
<1>9. CASE Return(Blocked(k), "blocked") \/ Return(Enter(k, "COMPLETE"), "partial")
  BY <1>6, <1>7, <1>9, ReturnTypes DEF Statuses
<1> QED
  BY <1>2, <1>8, <1>9

LEMMA AcceptTypes ==
  ASSUME RepairAssumption, Types, Accept
  PROVE  Types'
<1>1. /\ pc = "problem" /\ call.kind = "maintain" /\ box = None /\ UNCHANGED problem
      /\ core \in Cores /\ search \in Searches /\ problem \in Problems
  BY DEF Accept, Types, TypeOK, AtHand, Staged
<1>2. World'
  BY WorldTyped DEF Accept, Before, World
<1>3. Enter(core, "PATCH_SEARCHING") \in Cores
  BY <1>1, EnterType, PhasesAre
<1>4. CASE core' = Enter(core, "PATCH_SEARCHING") /\ Goto("search") /\ UNCHANGED search
  BY <1>1, <1>2, <1>3, <1>4, GotoTypes DEF InSearch, Staged
<1> QED
  BY <1>2, <1>4, BlockTypes DEF Accept

\* The finalists the budget leaves.
LEMMA ShortlistFacts ==
  ASSUME RepairAssumption, used \in Usages
  PROVE  /\ Lesser(MaxFinalists, Reserved) \in Nat
         /\ used.attempts = 0 => Lesser(MaxFinalists, Reserved) <= Spare
<1>1. MaxFinalists \in Nat /\ MaxAttempts \in Nat /\ used.attempts \in 0..MaxAttempts
  BY LimitFacts DEF Usages
<1> DEFINE a == used.attempts
<1>2. a \in Nat /\ a <= MaxAttempts
  BY <1>1
<1>3. Reserved = IF a + 1 < MaxAttempts THEN MaxAttempts - a - 1 ELSE 0
  BY DEF Reserved
<1> HIDE DEF a
<1>4. Reserved \in Nat /\ (a = 0 => Reserved = Spare)
  BY <1>1, <1>2, <1>3 DEF Spare
<1>5. \A m, n \in Nat : Lesser(m, n) \in Nat /\ Lesser(m, n) <= n
  BY DEF Lesser
<1>6. Lesser(MaxFinalists, Reserved) \in Nat /\ Lesser(MaxFinalists, Reserved) <= Reserved
  BY <1>1, <1>4, <1>5
<1> QED
  BY <1>4, <1>6 DEF a

LEMMA OpenSearchTypes ==
  ASSUME RepairAssumption, Types, OpenSearch
  PROVE  Types'
<1>1. /\ pc = "search" /\ call.kind = "maintain" /\ box = None /\ UNCHANGED <<problem, used>>
      /\ core \in Cores /\ problem \in Problems /\ used \in Usages
  BY WorldTyped DEF OpenSearch, Searching, Types, TypeOK, AtHand, Staged, InSearch, World
<1>2. World'
  BY WorldTyped DEF OpenSearch, Searching, World
<1>3. [NoSearch EXCEPT !.shortlist = Lesser(MaxFinalists, Reserved)] \in Searches
  BY <1>1, ShortlistFacts, NoSearchType DEF Searches
<1>a. /\ [NoSearch EXCEPT !.shortlist = Lesser(MaxFinalists, Reserved)].tried = {}
      /\ [NoSearch EXCEPT !.shortlist = Lesser(MaxFinalists, Reserved)].viable = {}
      /\ IsFiniteSet({})
  BY FS_EmptySet DEF NoSearch
<1>4. CASE Return(core, "raised")
  BY <1>1, <1>2, <1>4, ReturnTypes DEF Statuses
<1>5. CASE /\ search' = [NoSearch EXCEPT !.shortlist = Lesser(MaxFinalists, Reserved)]
           /\ core' = core /\ Goto("hash")
  BY <1>1, <1>2, <1>3, <1>a, <1>5, GotoTypes DEF InSearch, Staged
<1> QED
  BY <1>4, <1>5 DEF OpenSearch

LEMMA HashTypes ==
  ASSUME RepairAssumption, Types, Hash
  PROVE  Types'
<1>1. /\ pc = "hash" /\ call.kind = "maintain" /\ box = None /\ UNCHANGED problem
      /\ core \in Cores /\ problem \in Problems /\ search \in Searches /\ project \in Trees
  BY DEF Hash, Searching, Types, TypeOK, AtHand, Staged, InSearch
<1>2. World'
  BY WorldTyped DEF Hash, Searching, World
<1>3. search' \in Searches
  BY <1>1 DEF Hash, Searches, Optional
<1>4. search'.tried = {} /\ IsFiniteSet(search'.viable)
  BY <1>1 DEF Hash, Types, TriedInOrder, Searches
<1> QED
  BY <1>1, <1>2, <1>3, <1>4, GotoTypes DEF Hash, InSearch, Staged

\* What the generators and the model propose are candidates.
LEMMA GeneratedAreCandidates ==
  ASSUME problem \in Problems, project \in Trees
  PROVE  Deterministic \subseteq Candidates /\ Proposed \subseteq Candidates
BY DEF Deterministic, Proposed, Candidate, Candidates, Problems, Optional

LEMMA GenerateTypes ==
  ASSUME RepairAssumption, Types, Generate
  PROVE  Types'
<1>1. /\ pc = "generate" /\ call.kind = "maintain" /\ box = None /\ UNCHANGED problem
      /\ core \in Cores /\ problem \in Problems /\ search \in Searches /\ project \in Trees
  BY DEF Generate, Searching, Types, TypeOK, AtHand, Staged, InSearch
<1> DEFINE asked == [used EXCEPT !.requests = @ + 1]
<1>2. PICK D \in SUBSET Deterministic, M \in SUBSET Proposed :
        LET asks == Cardinality(D) < MaxCandidates /\ MaxModel > 0 /\ used.requests < MaxRequests
        IN  \/ /\ M = {} \/ asks
               /\ used' \in (IF M = {} THEN {used} ELSE {}) \cup (IF asks THEN {asked} ELSE {})
               /\ \E R \in SUBSET (D \cup M) :
                    /\ Distinct(D, M, R)
                    /\ search' = [search EXCEPT !.queue = R, !.found = (R # {})]
               /\ core' = core /\ Goto("evaluate")
            \/ /\ asks /\ M = {} /\ used' = asked
               /\ Block
  BY DEF Generate
<1>3. used' \in Usages
  BY <1>2, WorldTyped, UsageFacts DEF World
<1>4. World'
  BY <1>3, WorldTyped DEF Generate, Searching, World
<1>5. CASE Block
  BY <1>4, <1>5, BlockTypes
<1>6. CASE /\ \E R \in SUBSET (D \cup M) :
                search' = [search EXCEPT !.queue = R, !.found = (R # {})]
           /\ core' = core /\ Goto("evaluate")
  <2>1. D \cup M \subseteq Candidates
    BY <1>1, GeneratedAreCandidates
  <2>2. search' \in Searches
    BY <1>1, <1>6, <2>1 DEF Searches
  <2>3. search'.tried = {} /\ IsFiniteSet(search'.viable)
    BY <1>1, <1>6 DEF Types, TriedInOrder, Searches
  <2> QED
    BY <1>1, <1>4, <1>6, <2>2, <2>3, GotoTypes DEF InSearch, Staged
<1> QED
  BY <1>2, <1>5, <1>6

\* A step of the evaluation, with a sandbox or without.
LEMMA SandboxTypes ==
  ASSUME Types, pc \in {"evaluate", "finalists"}, pc' \in {"evaluate", "finalists", "choose"},
         UNCHANGED <<Searching, core, call, result, stage, left, vouched, edited>>,
         used' \in Usages, search' \in Searches, box' \in Boxes \cup {None},
         pc' = "choose" => box' = None, TriedInOrder'
  PROVE  Types'
<1>1. TypeOK'
  BY DEF Types, TypeOK, Searching, Usages
<1>2. AtHand'
  BY DEF Types, AtHand, Searching, InSearch, Staged
<1> QED
  BY <1>1, <1>2 DEF Types

LEMMA SandboxFacts ==
  ASSUME Types
  PROVE  /\ used \in Usages /\ search \in Searches /\ box \in Boxes \cup {None} /\ project \in Trees
         /\ box # None => box.cand \in Candidates
         /\ search.queue \subseteq Candidates /\ search.viable \subseteq Candidates
         /\ search.tried \subseteq Candidates /\ search.verified \subseteq Candidates
         /\ search.best \in Candidates \cup {None}
BY WorldTyped DEF Types, TypeOK, AtHand, Searches, World, Boxes

LEMMA OpenSandboxTypes ==
  ASSUME RepairAssumption, Types, OpenSandbox
  PROVE  Types'
<1>1. PICK c \in search.queue :
        IF ~(PathsOf(c) \subseteq ProblemScope) \/ c.base \notin {None, search.before}
        THEN search' = Reject(c) /\ UNCHANGED box
        ELSE box' = [cand |-> c, tree |-> project] /\ UNCHANGED search
  BY DEF OpenSandbox
<1>2. /\ Reject(c) \in Searches /\ Reject(c).tried = search.tried
      /\ Reject(c).viable = search.viable
  BY SandboxFacts DEF Reject, Searches
<1>a. [cand |-> c, tree |-> project] \in Boxes
  BY SandboxFacts DEF Boxes
<1>3. /\ search' \in Searches /\ box' \in Boxes \cup {None}
      /\ search'.tried = search.tried /\ search'.viable = search.viable
  BY <1>1, <1>2, <1>a, SandboxFacts
<1>4. TriedInOrder'
  BY <1>3 DEF Types, TriedInOrder, OpenSandbox
<1> QED
  BY <1>3, <1>4, SandboxFacts, SandboxTypes DEF OpenSandbox

LEMMA EvaluateTypes ==
  ASSUME RepairAssumption, Types, Evaluate
  PROVE  Types' /\ search'.shortlist = search.shortlist
<1> DEFINE c == box.cand
           r == Reject(c)
           v == IF search.valid < MaxValid THEN r.viable \cup {c} ELSE r.viable
           gated(m) == [r EXCEPT !.gates = m]
           passed(m, n, x) == [r EXCEPT !.gates = m, !.valid = n, !.viable = x]
           keeps(q) == /\ q \in Searches /\ IsFiniteSet(q.viable)
                       /\ q.tried = search.tried /\ q.shortlist = search.shortlist
<1>1. c \in Candidates /\ search \in Searches
  BY SandboxFacts DEF Evaluate
<1>2. \/ search' = Reject(c)
      \/ search' = [Reject(c) EXCEPT !.gates = @ + 1]
      \/ search' = [Reject(c) EXCEPT !.gates = @ + 1, !.valid = @ + 1,
                      !.viable = IF search.valid < MaxValid THEN @ \cup {c} ELSE @]
  BY Zenon DEF Evaluate
<1>3. search' = r \/ search' = gated(r.gates + 1) \/ search' = passed(r.gates + 1, r.valid + 1, v)
  BY <1>2
<1>4. keeps(r)
  BY <1>1 DEF Reject, Searches, Evaluate, Types, TriedInOrder
<1>5. r.gates \in Nat /\ r.valid \in Nat /\ v \in SUBSET Candidates /\ IsFiniteSet(v)
  BY <1>1, <1>4, FS_AddElement DEF Searches
<1> HIDE DEF r, v
<1>6. \A m, n \in Nat, x \in SUBSET Candidates :
        IsFiniteSet(x) => keeps(gated(m)) /\ keeps(passed(m, n, x))
  BY <1>4 DEF Searches
<1>7. \A n \in Nat : n + 1 \in Nat
  OBVIOUS
<1> HIDE DEF gated, passed, keeps
<1>8. keeps(search')
  BY <1>3, <1>4, <1>5, <1>6, <1>7
<1>9. /\ search' \in Searches /\ IsFiniteSet(search'.viable)
      /\ search'.tried = search.tried /\ search'.shortlist = search.shortlist
  BY <1>8 DEF keeps
<1>10. TriedInOrder'
  BY <1>9 DEF Types, TriedInOrder, Evaluate
<1> QED
  BY <1>9, <1>10, SandboxFacts, SandboxTypes DEF Evaluate

LEMMA RankTypes ==
  ASSUME RepairAssumption, Types, Rank
  PROVE  Types'
<1>1. PICK c \in (IF search.viable = {} THEN {None} ELSE search.viable) :
        search' = [search EXCEPT !.best = c]
  BY DEF Rank
<1>2. search' \in Searches
  BY <1>1, SandboxFacts DEF Searches
<1>3. /\ search'.tried = {} /\ search'.viable = search.viable /\ search'.best = c
      /\ IsFiniteSet(search.viable)
  BY <1>1, SandboxFacts DEF Searches, Types, TriedInOrder, Rank
<1>4. TriedInOrder'
  BY <1>1, <1>3 DEF TriedInOrder, Rank
<1> QED
  BY <1>2, <1>4, SandboxFacts, SandboxTypes DEF Rank

\* What is tried next is viable, and was not tried before.
LEMMA NextFinalist ==
  ASSUME Types, pc = "finalists", box = None, Cardinality(search.tried) < Finalists,
         NEW c \in IF search.tried = {} THEN {search.best} ELSE search.viable \ search.tried
  PROVE  c \in search.viable \ search.tried
<1>1. /\ search.viable # {} => search.best \in search.viable
      /\ search.tried \subseteq search.viable
      /\ search.shortlist \in Nat
  BY DEF Types, TriedInOrder, AtHand, Searches
<1>2. CASE search.viable = {}
  <2>1. search.tried = {} /\ Cardinality({}) = 0
    BY <1>1, <1>2, FS_EmptySet
  <2>2. Finalists = 0
    BY <1>1, <1>2, <2>1 DEF Finalists, Lesser
  <2> QED
    BY <2>1, <2>2
<1> QED
  BY <1>1, <1>2

LEMMA OpenFinalistTypes ==
  ASSUME RepairAssumption, Types, OpenFinalist
  PROVE  Types'
<1>1. PICK c \in IF search.tried = {} THEN {search.best} ELSE search.viable \ search.tried :
        box' = [cand |-> c, tree |-> project]
  BY DEF OpenFinalist
<1>2. c \in search.viable \ search.tried
  BY <1>1, NextFinalist DEF OpenFinalist
<1>3. box' \in Boxes /\ box'.cand = c
  BY <1>1, <1>2, SandboxFacts DEF Boxes
<1>4. TriedInOrder'
  BY <1>2, <1>3 DEF Types, TriedInOrder, OpenFinalist
<1> QED
  BY <1>3, <1>4, SandboxFacts, SandboxTypes DEF OpenFinalist

LEMMA VerifyFinalistTypes ==
  ASSUME RepairAssumption, Types, VerifyFinalist
  PROVE  /\ Types'
         /\ search'.tried = search.tried \cup {box.cand}
         /\ search'.shortlist = search.shortlist /\ search'.viable = search.viable
<1> DEFINE tried == [search EXCEPT !.tried = @ \cup {box.cand}]
<1>1. /\ search' \in {tried, [tried EXCEPT !.verified = @ \cup {box.cand}]}
      /\ used' = used \/ (used' = Attempt /\ used.attempts < MaxAttempts)
  BY DEF VerifyFinalist
<1>2. box.cand \in Candidates
  BY SandboxFacts DEF VerifyFinalist
<1>3. tried \in Searches /\ tried.verified = search.verified
      /\ tried.tried = search.tried \cup {box.cand} /\ tried.shortlist = search.shortlist
      /\ tried.viable = search.viable /\ tried.best = search.best
  BY <1>2, SandboxFacts DEF Searches
<1> HIDE DEF tried
<1>4. search' \in Searches
      /\ search'.tried = search.tried \cup {box.cand} /\ search'.shortlist = search.shortlist
      /\ search'.viable = search.viable /\ search'.best = search.best
  BY <1>1, <1>2, <1>3, SandboxFacts DEF Searches
<1>5. used' \in Usages
  BY <1>1, SandboxFacts, UsageFacts DEF Attempt
<1>6. TriedInOrder'
  <2>1. pc' = "finalists" /\ box' = None /\ box.cand \in search.viable
    BY DEF VerifyFinalist, Types, TriedInOrder
  <2> QED
    BY <1>4, <2>1 DEF VerifyFinalist, Types, TriedInOrder
<1>7. Types'
  BY <1>4, <1>5, <1>6, SandboxTypes DEF VerifyFinalist
<1> QED
  BY <1>4, <1>7

LEMMA EndSearchTypes ==
  ASSUME RepairAssumption, Types, EndSearch
  PROVE  Types'
<1>1. PICK c \in IF search.verified = {} \/ search.best \in search.verified
                 THEN {search.best} ELSE search.verified :
        search' = [search EXCEPT !.best = c]
  BY DEF EndSearch
<1>2. search' \in Searches
  BY <1>1, SandboxFacts DEF Searches
<1>3. TriedInOrder'
  BY DEF TriedInOrder, EndSearch
<1> QED
  BY <1>2, <1>3, SandboxFacts, SandboxTypes DEF EndSearch

LEMMA ChooseTypes ==
  ASSUME RepairAssumption, Types, Choose
  PROVE  Types'
<1> DEFINE k == Enter(Enter(core, "CANDIDATE_SELECTED"), "CANONICAL_APPLYING")
<1>1. /\ pc = "choose" /\ call.kind = "maintain" /\ box = None /\ stage = None
      /\ core \in Cores /\ search.best \in Candidates \cup {None}
      /\ (call.given => problem \in Problems)
  BY SandboxFacts DEF Choose, Types, TypeOK, AtHand, Staged
<1>2. k \in Cores /\ Enter(core, "COMPLETE") \in Cores
  BY <1>1, EnterType, PhasesAre
<1> HIDE DEF k
<1>3. Blocked(k) \in Cores
  BY <1>2, BlockedType
<1>4. winner' \in Candidates \cup {None} /\ (search.best # None => winner' \in Candidates)
  BY <1>1, WorldTyped DEF World, Choose
<1>5. World'
  BY <1>4, WorldTyped DEF Choose, World
<1>6. CASE Block
  BY <1>5, <1>6, BlockTypes
<1>7. CASE Return(core, "raised") \/ Return(Enter(core, "COMPLETE"), "partial") \/ Return(Blocked(k), "blocked")
  BY <1>1, <1>2, <1>3, <1>5, <1>7, ReturnTypes DEF Statuses
<1>8. CASE search.best # None /\ core' = k /\ search' = NoSearch /\ Goto("clone")
  <2>1. winner' \in Candidates /\ UNCHANGED problem
    BY <1>4, <1>8 DEF Choose
  <2>2. TypeOK'
    BY <1>2, <1>5, <1>8 DEF Types, TypeOK, World, Goto, Cores, Usages, Problems
  <2>3. AtHand' /\ TriedInOrder'
    BY <1>1, <1>2, <1>8, <2>1, NoSearchType DEF Types, AtHand, TriedInOrder, Goto, InSearch, Staged
  <2> QED
    BY <2>2, <2>3 DEF Types
<1> QED
  BY <1>6, <1>7, <1>8 DEF Choose, k

LEMMA SubmitTypes ==
  ASSUME RepairAssumption, Types, Submit
  PROVE  Types'
<1>a. runs' \in 0..MaxRuns
  <2>1. runs \in 0..MaxRuns /\ runs < MaxRuns /\ runs' = runs + 1
    BY DEF Types, TypeOK, Submit
  <2> QED
    BY <2>1, LimitFacts, OneMore
<1>1. World' /\ winner \in Candidates /\ core \in Cores
  BY <1>a, WorldTyped DEF Submit, World, Types, AtHand
<1>2. CASE Return(core, "refused")
  BY <1>1, <1>2, ReturnTypes DEF Statuses
<1>3. CASE /\ pc' = "clone" /\ call' = [NoCall EXCEPT !.kind = "submit"]
           /\ result' = NoResult /\ vouched' = None /\ edited' = {}
           /\ UNCHANGED <<core, search, box, stage, left>>
  <2>1. call' = [kind |-> "submit", failure |-> FALSE, apply |-> FALSE, given |-> FALSE]
    BY <1>3 DEF NoCall
  <2>2. pc = "idle" /\ winner' = winner
    BY DEF Submit
  <2>a. /\ stage \in Optional /\ stage' = stage /\ left \subseteq Files /\ left' = left
        /\ core' = core /\ core.phase \in Phases /\ core.stages \in Nat
    BY <1>3 DEF Types, TypeOK
  <2>b. /\ result' = [status |-> "none", applied |-> FALSE]
        /\ vouched' = None /\ edited' = {} /\ pc' = "clone"
    BY <1>3 DEF NoResult
  <2>3. TypeOK'
    BY <1>1, <2>1, <2>a, <2>b DEF TypeOK, World, Usages, Problems, Optional
  <2>4. AtHand' /\ TriedInOrder'
    BY <1>1, <1>3, <2>1, <2>2 DEF Types, AtHand, TriedInOrder, InSearch, Staged
  <2> QED
    BY <2>3, <2>4 DEF Types
<1> QED
  BY <1>2, <1>3 DEF Submit

\* A step from one place of the application to the next.
LEMMA ProceedTypes ==
  ASSUME RepairAssumption, Types, pc \in {"clone"} \cup Staged, NEW l \in Staged, Proceed(l), World',
         UNCHANGED <<problem, winner>>, stage' \in Trees, left' \subseteq Files,
         vouched' \in Optional, edited' \subseteq Files
  PROVE  Types'
<1>1. stage' # None
  BY DEF RepairAssumption
<1>2. TypeOK'
  BY DEF Types, TypeOK, World, Proceed, Usages, Problems, Optional, Staged
<1>3. AtHand' /\ TriedInOrder'
  BY <1>1 DEF Types, AtHand, TriedInOrder, Proceed, InSearch, Staged
<1> QED
  BY <1>2, <1>3 DEF Types

\* What the application has at hand.
LEMMA StagedFacts ==
  ASSUME RepairAssumption, Types, pc \in {"clone"} \cup Staged
  PROVE  /\ project \in Trees /\ index \in Trees /\ used \in Usages /\ winner \in Candidates
         /\ PathsOf(winner) \subseteq Files
         /\ stage \in Optional /\ (pc \in Staged => stage \in Trees)
         /\ left \subseteq Files /\ edited \subseteq Files /\ vouched \in Optional
         /\ call.kind \in {"maintain", "submit"}
<1>1. winner \in Candidates /\ PathsOf(winner) \subseteq Files
  BY PathsAreFiles DEF Types, AtHand
<1> QED
  BY <1>1 DEF Types, TypeOK, AtHand, Optional, Usages, Staged

LEMMA RefuseTypes ==
  ASSUME Types, Refuse, World'
  PROVE  Types'
<1>1. core \in Cores
  BY DEF Types, AtHand
<1> QED
  BY <1>1, BlockTypes, ReturnTypes DEF Refuse, Statuses

LEMMA CloneTypes ==
  ASSUME RepairAssumption, Types, Clone
  PROVE  Types'
<1>1. World'
  BY WorldTyped DEF Clone, Applying, World
<1> QED
  BY <1>1, StagedFacts, ProceedTypes DEF Clone, Applying, Staged

LEMMA GateTypes ==
  ASSUME RepairAssumption, Types, Gate
  PROVE  Types'
<1>1. World'
  BY WorldTyped DEF Gate, Applying, World
<1>2. CASE Refuse
  BY <1>1, <1>2, RefuseTypes
<1>3. CASE /\ stage' = Patched(winner, stage) /\ edited' = {}
           /\ Proceed("verify") /\ UNCHANGED <<left, vouched>>
  <2>1. pc \in Staged
    BY DEF Gate, Staged
  <2>2. stage' \in Trees
    BY <1>3, <2>1, StagedFacts, PatchedFacts
  <2>3. UNCHANGED <<problem, winner>> /\ "verify" \in Staged
    BY DEF Gate, Applying, Staged
  <2> QED
    BY <1>1, <1>3, <2>1, <2>2, <2>3, StagedFacts, ProceedTypes
<1> QED
  BY <1>2, <1>3 DEF Gate

LEMMA VerifyTypes ==
  ASSUME RepairAssumption, Types, Verify
  PROVE  Types'
<1>1. used' \in Usages
  BY WorldTyped, UsageFacts DEF Verify, Attempt, World
<1>2. World'
  BY <1>1, WorldTyped DEF Verify, Applying, World
<1>3. CASE Refuse
  BY <1>2, <1>3, RefuseTypes
<1>4. CASE vouched' = stage /\ left' = PathsOf(winner) /\ Proceed("copy") /\ UNCHANGED <<stage, edited>>
  <2>1. pc \in Staged /\ UNCHANGED <<problem, winner>> /\ "copy" \in Staged
    BY DEF Verify, Applying, Staged
  <2> QED
    BY <1>2, <1>4, <2>1, StagedFacts, ProceedTypes
<1> QED
  BY <1>3, <1>4 DEF Verify

LEMMA CopyTypes ==
  ASSUME RepairAssumption, Types, NEW f \in Files, Copy(f)
  PROVE  Types'
<1>1. pc \in Staged /\ UNCHANGED <<problem, winner>> /\ {"index", "copy"} \subseteq Staged
  BY DEF Copy, Applying, Staged
<1>2. project' \in Trees
  BY <1>1, StagedFacts DEF Copy, Trees
<1>3. World'
  BY <1>2, WorldTyped DEF Copy, Applying, World
<1>4. stage' \in Trees /\ left' \subseteq Files /\ edited' \subseteq Files /\ vouched' \in Optional
  BY <1>1, StagedFacts DEF Copy
<1>5. PICK l \in Staged : Proceed(l)
  BY <1>1 DEF Copy
<1> QED
  BY <1>1, <1>3, <1>4, <1>5, ProceedTypes

LEMMA IndexTypes ==
  ASSUME RepairAssumption, Types, Index
  PROVE  Types'
<1>1. pc \in Staged /\ UNCHANGED <<problem, winner>> /\ "remember" \in Staged
  BY DEF Index, Staged
<1>2. index' \in Trees
  BY <1>1, StagedFacts DEF Index, Trees
<1>3. World'
  BY <1>2, WorldTyped DEF Index, World
<1> QED
  BY <1>1, <1>3, StagedFacts, ProceedTypes DEF Index

LEMMA EntityFacts ==
  ASSUME NEW m \in Trees, NEW changed \in SUBSET Files
  PROVE  /\ \A e \in Entities : Superseded(e, changed) \in Entities
         /\ [hashes |-> [f \in changed |-> m[f]], current |-> TRUE] \in Entities
<1>1. ASSUME NEW e \in Entities PROVE Superseded(e, changed) \in Entities
  BY DEF Superseded, Entities
<1>2. [f \in changed |-> m[f]] \in [changed -> Texts]
  BY DEF Trees
<1>3. [f \in changed |-> m[f]] \in UNION {[D -> Texts] : D \in SUBSET Files}
  BY <1>2
<1> QED
  BY <1>1, <1>3 DEF Entities

LEMMA RememberTypes ==
  ASSUME RepairAssumption, Types, Remember
  PROVE  Types'
<1>1. pc \in Staged
  BY DEF Remember, Staged
<1>2. \A e \in brain : e \in Entities
  BY DEF Types, TypeOK
<1>3. \A e \in brain' : e \in Entities
  BY <1>1, <1>2, StagedFacts, EntityFacts DEF Remember
<1>4. foreign' \subseteq Files
  BY <1>1, StagedFacts, WorldTyped DEF Remember, World
<1>5. World'
  BY <1>3, <1>4, WorldTyped DEF Remember, World
<1>6. core \in Cores /\ Applied(core) \in Cores
  BY AppliedType DEF Types, AtHand
<1> QED
  BY <1>5, <1>6, ReturnTypes DEF Remember, Statuses

LEMMA RecordedAreFiles ==
  ASSUME Types
  PROVE  Recorded \subseteq Files
BY DEF Types, TypeOK, Recorded, Entities

LEMMA RaiseTypes ==
  ASSUME RepairAssumption, Types, Raise
  PROVE  Types'
<1>1. used' \in Usages
  BY WorldTyped, UsageFacts DEF Raise, Spent, Attempt, World
<1>2. foreign' \subseteq Files
  BY RecordedAreFiles, WorldTyped DEF Raise, World
<1>3. World'
  BY <1>1, <1>2, WorldTyped DEF Raise, World
<1>4. core \in Cores
  BY DEF Types, AtHand
<1> QED
  BY <1>3, <1>4, BlockTypes, ReturnTypes DEF Raise, Statuses

LEMMA UserEditTypes ==
  ASSUME RepairAssumption, Types, NEW f \in Files, NEW t \in UserTexts, UserEdit(f, t)
  PROVE  Types'
<1>1. edits' \in 0..MaxEdits
  <2>1. edits \in 0..MaxEdits /\ edits < MaxEdits /\ edits' = edits + 1
    BY DEF Types, TypeOK, UserEdit
  <2> QED
    BY <2>1, LimitFacts, OneMore
<1>2. project' \in Trees
  <2>1. t \in Texts /\ project \in Trees
    BY DEF RepairAssumption, Types, TypeOK
  <2> QED
    BY <2>1 DEF UserEdit, Trees
<1>3. edited' \subseteq Files /\ foreign' \subseteq Files
  BY DEF Types, TypeOK, UserEdit
<1>a. UNCHANGED <<index, brain, core, used, pc, call, problem, search, box, winner, stage, left,
                  result, vouched, runs>>
  BY DEF UserEdit
<1>b. World'
  BY <1>1, <1>2, <1>3, <1>a, WorldTyped DEF World
<1>4. TypeOK'
  <2>1. TypeOK /\ World
    BY WorldTyped DEF Types
  <2>2. TypeOK => (core.phase \in Phases /\ core.stages \in Nat)'
    BY <1>a DEF TypeOK
  <2> QED
    BY <1>b, <1>3, <1>a, <2>1, <2>2, SMTT(30) DEF TypeOK, World, Usages, Problems
<1>5. AtHand' /\ TriedInOrder'
  BY <1>a DEF Types, AtHand, TriedInOrder
<1> QED
  BY <1>4, <1>5 DEF Types

LEMMA StepTypes ==
  ASSUME RepairAssumption, Types, [Next]_vars
  PROVE  Types'
<1>1. CASE Step
  <2>1. CASE Context \/ Localize \/ Accept \/ OpenSearch \/ Hash \/ Generate
    BY <2>1, ContextTypes, LocalizeTypes, AcceptTypes, OpenSearchTypes, HashTypes, GenerateTypes
  <2>2. CASE OpenSandbox \/ Evaluate \/ Rank \/ OpenFinalist \/ VerifyFinalist \/ EndSearch
    BY <2>2, OpenSandboxTypes, EvaluateTypes, RankTypes, OpenFinalistTypes, VerifyFinalistTypes,
       EndSearchTypes
  <2>3. CASE Choose \/ Clone \/ Gate \/ Verify \/ Index \/ Remember
    BY <2>3, ChooseTypes, CloneTypes, GateTypes, VerifyTypes, IndexTypes, RememberTypes
  <2>4. CASE \E f \in Files : Copy(f)
    BY <2>4, CopyTypes
  <2> QED
    BY <1>1, <2>1, <2>2, <2>3, <2>4 DEF Step
<1>2. CASE Begin \/ Submit \/ Restart \/ Raise
  BY <1>2, BeginTypes, SubmitTypes, RestartTypes, RaiseTypes
<1>3. CASE \E f \in Files, t \in UserTexts : UserEdit(f, t)
  BY <1>3, UserEditTypes
<1>4. CASE UNCHANGED vars
  <2>1. TypeOK'
    BY <1>4 DEF vars, Types, TypeOK
  <2>2. AtHand' /\ TriedInOrder'
    BY <1>4 DEF vars, Types, AtHand, TriedInOrder
  <2> QED
    BY <2>1, <2>2 DEF Types
<1> QED
  BY <1>1, <1>2, <1>3, <1>4 DEF Next

LEMMA TypesHold == Spec => []Types
<1>1. Init => Types
  BY InitTypes, RepairAssumption
<1>2. Types /\ [Next]_vars => Types'
  BY StepTypes, RepairAssumption
<1> QED
  BY <1>1, <1>2, PTL DEF Spec

\* The state of a coordinator and of a patch search keeps its types (all variables).
THEOREM TypeCorrect == Spec => []TypeOK
<1>1. Types => TypeOK
  BY DEF Types
<1> QED
  BY <1>1, TypesHold, PTL

-----------------------------------------------------------------------------
(* The application: the staged copy, the project, the index and the Brain. *)

\* The steps of a call before there is a staged copy.
QuietStep ==
  \/ Context \/ Localize \/ Accept \/ OpenSearch \/ Hash \/ Generate \/ OpenSandbox \/ Evaluate
  \/ Rank \/ OpenFinalist \/ VerifyFinalist \/ EndSearch \/ Choose \/ Begin \/ Submit \/ Restart

\* A call that returns without a staged copy, or for another reason than an
\* application, reports none applied.
LEMMA ReturnFacts ==
  ASSUME NEW k, NEW status, Return(k, status),
         stage = None \/ status \notin {"complete", "applied"}
  PROVE  pc' = "idle" /\ result'.applied = FALSE /\ result'.status = status /\ core' = k
BY DEF Return

LEMMA BlockFacts ==
  ASSUME Block
  PROVE  /\ pc' = "idle" /\ result'.applied = FALSE /\ result'.status = "blocked"
         /\ core' = Blocked(core)
BY ReturnFacts DEF Block

LEMMA QuietFacts ==
  ASSUME Types, QuietStep
  PROVE  /\ pc \notin Staged /\ pc' \notin Staged /\ ~result'.applied
         /\ UNCHANGED <<project, brain, foreign>>
<1>1. stage = None <=> pc \notin Staged
  BY DEF Types, AtHand
<1>2. ~NoResult.applied /\ (pc # "idle" => ~result.applied)
  BY DEF NoResult, Types, AtHand
<1>3. CASE Context
  BY <1>1, <1>2, <1>3, ReturnFacts, BlockFacts DEF Context, Goto, Before, Staged
<1>4. CASE Localize
  BY <1>1, <1>2, <1>4, ReturnFacts DEF Localize, Goto, Before, Staged
<1>5. CASE Accept
  BY <1>1, <1>2, <1>5, BlockFacts DEF Accept, Goto, Before, Staged
<1>6. CASE OpenSearch
  BY <1>1, <1>2, <1>6, ReturnFacts DEF OpenSearch, Goto, Searching, Staged
<1>7. CASE Hash
  BY <1>1, <1>2, <1>7 DEF Hash, Goto, Searching, Staged
<1>8. CASE Generate
  <2>1. Block \/ Goto("evaluate")
    BY <1>8 DEF Generate
  <2> QED
    BY <1>1, <1>2, <1>8, <2>1, BlockFacts DEF Generate, Goto, Searching, Staged
<1>9. CASE OpenSandbox \/ Evaluate
  BY <1>1, <1>2, <1>9 DEF OpenSandbox, Evaluate, Searching, Staged
<1>10. CASE Rank \/ EndSearch
  BY <1>1, <1>2, <1>10 DEF Rank, EndSearch, Searching, Staged
<1>11. CASE OpenFinalist \/ VerifyFinalist
  BY <1>1, <1>2, <1>11 DEF OpenFinalist, VerifyFinalist, Searching, Staged
<1>12. CASE Choose
  BY <1>1, <1>2, <1>12, ReturnFacts, BlockFacts DEF Choose, Goto, Staged
<1>13. CASE Begin \/ Restart
  BY <1>2, <1>13 DEF Begin, Restart, Staged
<1>14. CASE Submit
  BY <1>1, <1>2, <1>14, ReturnFacts DEF Submit, Staged
<1> QED
  BY <1>3, <1>4, <1>5, <1>6, <1>7, <1>8, <1>9, <1>10, <1>11, <1>12, <1>13, <1>14 DEF QuietStep

LEMMA RefuseFacts ==
  ASSUME Refuse
  PROVE  /\ pc' = "idle" /\ result'.applied = FALSE
         /\ result'.status = IF call.kind = "maintain" THEN "blocked" ELSE "refused"
         /\ core' = IF call.kind = "maintain" THEN Blocked(core) ELSE core
BY ReturnFacts, BlockFacts DEF Refuse

\* The gate passes a bound candidate on the tree it was made for, which is then the project.
LEMMA GateLands ==
  ASSUME RepairAssumption, Types, Gate
  PROVE  BoundPatchLandsOnItsBase'
<1>1. CASE Refuse
  BY <1>1, RefuseFacts DEF BoundPatchLandsOnItsBase
<1>2. CASE Applicable(winner) /\ stage' = Patched(winner, stage) /\ Proceed("verify")
  <2>1. UNCHANGED <<project, winner>> /\ pc' = "verify"
    BY <1>2 DEF Gate, Applying, Proceed
  <2>2. winner.base # None => winner.base = stage /\ stage = project
    BY <1>2 DEF Applicable, UpToDate
  <2> QED
    BY <1>2, <2>1, <2>2 DEF BoundPatchLandsOnItsBase, Patched, PathsOf, Apply, Try
<1> QED
  BY <1>1, <1>2 DEF Gate

LEMMA VerifyLands ==
  ASSUME RepairAssumption, Types, BoundPatchLandsOnItsBase, Verify
  PROVE  BoundPatchLandsOnItsBase'
<1>1. CASE Refuse
  BY <1>1, RefuseFacts DEF BoundPatchLandsOnItsBase
<1>2. CASE left' = PathsOf(winner) /\ Proceed("copy") /\ UNCHANGED <<stage, edited>>
  <2>1. UNCHANGED <<project, winner, stage, edited>> /\ pc = "verify" /\ pc' = "copy"
    BY <1>2 DEF Verify, Applying, Proceed
  <2>2. SUFFICES ASSUME winner.base # None
                 PROVE  /\ stage = Patched(winner, winner.base)
                        /\ \A f \in Files \ edited :
                             project[f] = IF f \in PathsOf(winner) THEN winner.base[f] ELSE stage[f]
    BY <1>2, <2>1 DEF BoundPatchLandsOnItsBase, Patched, PathsOf, Apply, Try
  <2>3. /\ stage = Patched(winner, winner.base)
        /\ \A f \in Files \ edited : project[f] = winner.base[f]
    BY <2>1, <2>2 DEF BoundPatchLandsOnItsBase
  <2>4. \A f \in Files \ PathsOf(winner) : Patched(winner, winner.base)[f] = winner.base[f]
    BY DEF Patched
  <2> QED
    BY <2>3, <2>4
<1> QED
  BY <1>1, <1>2 DEF Verify

LEMMA CopyLands ==
  ASSUME RepairAssumption, Types, BoundPatchLandsOnItsBase, NEW f \in Files, Copy(f)
  PROVE  BoundPatchLandsOnItsBase'
<1>1. /\ pc = "copy" /\ pc' \in {"copy", "index"} /\ UNCHANGED <<winner, stage>>
      /\ edited' = edited \ {f} /\ left' = left \ {f}
      /\ project' = [project EXCEPT ![f] = stage[f]]
  BY DEF Copy, Applying, Proceed
<1>2. project'[f] = stage[f] /\ \A g \in Files \ {f} : project'[g] = project[g]
  BY <1>1 DEF Types, TypeOK, Trees
<1>3. SUFFICES ASSUME winner.base # None
               PROVE  /\ stage = Patched(winner, winner.base)
                      /\ \A g \in Files \ edited' :
                           project'[g] = IF g \in left' THEN winner.base[g] ELSE stage[g]
  BY <1>1 DEF BoundPatchLandsOnItsBase, Patched, PathsOf, Apply, Try
<1>4. /\ stage = Patched(winner, winner.base)
      /\ \A g \in Files \ edited : project[g] = IF g \in left THEN winner.base[g] ELSE stage[g]
  BY <1>1, <1>3 DEF BoundPatchLandsOnItsBase
<1> QED
  BY <1>1, <1>2, <1>4

LEMMA UserEditLands ==
  ASSUME RepairAssumption, Types, BoundPatchLandsOnItsBase,
         NEW f \in Files, NEW t \in UserTexts, UserEdit(f, t)
  PROVE  BoundPatchLandsOnItsBase'
<1>1. /\ UNCHANGED <<pc, winner, stage, left>>
      /\ pc \in Staged => edited' = edited \cup {f}
      /\ \A g \in Files \ {f} : project'[g] = project[g]
  BY DEF UserEdit, Types, TypeOK, AtHand, Trees
<1>2. pc \in {"verify", "copy", "index", "remember"} => pc \in Staged
  BY DEF Staged
<1> QED
  BY <1>1, <1>2 DEF BoundPatchLandsOnItsBase, Patched, PathsOf, Apply, Try

\* A candidate made for a certain tree is verified on top of that tree only and copied over
\* it: whoever wrote before the gate, the project is that tree until the files are copied and
\* the verified one after, but for the files written since the gate.
THEOREM BoundPatchesLandOnTheirBase == Spec => []BoundPatchLandsOnItsBase
<1>1. Init => BoundPatchLandsOnItsBase
  BY DEF Init, BoundPatchLandsOnItsBase
<1>2. ASSUME Types, BoundPatchLandsOnItsBase, [Next]_vars
      PROVE  BoundPatchLandsOnItsBase'
  <2>1. CASE QuietStep
    BY <1>2, <2>1, QuietFacts DEF BoundPatchLandsOnItsBase, Staged
  <2>2. CASE Clone \/ Remember \/ Raise
    <3>1. pc' \notin {"verify", "copy", "index", "remember"}
      BY <2>2, BlockFacts DEF Clone, Remember, Raise, Return, Proceed
    <3> QED
      BY <3>1 DEF BoundPatchLandsOnItsBase
  <2>3. CASE Gate \/ Verify \/ \E f \in Files : Copy(f)
    BY <1>2, <2>3, GateLands, VerifyLands, CopyLands, RepairAssumption
  <2>4. CASE Index
    <3>1. UNCHANGED <<project, winner, stage, left, edited>> /\ pc = "index" /\ pc' = "remember"
      BY <2>4 DEF Index, Proceed
    <3> QED
      BY <1>2, <3>1 DEF BoundPatchLandsOnItsBase, Patched, PathsOf, Apply, Try
  <2>5. CASE \E f \in Files, t \in UserTexts : UserEdit(f, t)
    BY <1>2, <2>5, UserEditLands, RepairAssumption
  <2>6. CASE UNCHANGED vars
    BY <1>2, <2>6 DEF vars, BoundPatchLandsOnItsBase, Patched, PathsOf, Apply, Try
  <2> QED
    BY <1>2, <2>1, <2>2, <2>3, <2>4, <2>5, <2>6 DEF Next, Step, QuietStep
<1> QED
  BY <1>1, <1>2, TypesHold, PTL DEF Spec

LEMMA CloneStage ==
  ASSUME RepairAssumption, Types, Clone
  PROVE  StageFollows'
BY DEF Clone, Proceed, StageFollows, Copying

LEMMA GateStage ==
  ASSUME RepairAssumption, Types, Gate
  PROVE  StageFollows'
<1>1. CASE Refuse
  BY <1>1, RefuseFacts DEF StageFollows, Copying
<1>2. CASE Applicable(winner) /\ stage' = Patched(winner, stage) /\ Proceed("verify")
  <2>1. winner \in Candidates /\ stage \in Trees
    BY StagedFacts DEF Gate, Staged
  <2>2. /\ winner' = winner /\ project' = project /\ pc' = "verify"
        /\ PathsOf(winner) \subseteq Permitted /\ stage = project
    BY <1>2 DEF Gate, Applying, Applicable, Proceed
  <2>3. \A f \in Files \ PathsOf(winner) : stage'[f] = project[f]
    BY <1>2, <2>1, <2>2, PatchedFacts
  <2> QED
    BY <2>2, <2>3 DEF StageFollows, Copying, PathsOf
<1> QED
  BY <1>1, <1>2 DEF Gate

LEMMA VerifyStage ==
  ASSUME RepairAssumption, Types, StageFollows, Verify
  PROVE  StageFollows'
<1>1. CASE Refuse
  BY <1>1, RefuseFacts DEF StageFollows, Copying
<1>2. CASE vouched' = stage /\ left' = PathsOf(winner) /\ Proceed("copy") /\ UNCHANGED <<stage, edited>>
  BY <1>2 DEF Verify, Applying, Proceed, StageFollows, Copying, PathsOf
<1> QED
  BY <1>1, <1>2 DEF Verify

LEMMA CopyStage ==
  ASSUME RepairAssumption, Types, StageFollows, NEW f \in Files, Copy(f)
  PROVE  StageFollows'
<1>1. /\ pc = "copy" /\ pc' \in {"copy", "index"} /\ (pc' = "index" => left' = {})
      /\ winner' = winner /\ stage' = stage /\ vouched' = vouched
      /\ edited' = edited \ {f} /\ left' = left \ {f}
      /\ project' = [project EXCEPT ![f] = stage[f]]
  BY DEF Copy, Applying, Proceed
<1>2. project \in Trees
  BY DEF Types, TypeOK
<1>3. ASSUME NEW g \in Files \ (edited' \cup left') PROVE project'[g] = stage'[g]
  <2>1. CASE g = f
    BY <1>1, <1>2, <2>1 DEF Trees
  <2>2. CASE g # f
    BY <1>1, <1>2, <2>2 DEF Trees, StageFollows, Copying
  <2> QED
    BY <2>1, <2>2
<1> QED
  BY <1>1, <1>3 DEF StageFollows, Copying, PathsOf

LEMMA IndexStage ==
  ASSUME RepairAssumption, Types, StageFollows, Index
  PROVE  StageFollows'
<1>1. PathsOf(winner) \subseteq Files
  BY StagedFacts DEF Index, Staged
<1> QED
  BY <1>1 DEF Index, Proceed, StageFollows, Copying, PathsOf

LEMMA UserEditStage ==
  ASSUME RepairAssumption, Types, StageFollows, NEW f \in Files, NEW t \in UserTexts, UserEdit(f, t)
  PROVE  StageFollows'
<1>1. /\ UNCHANGED <<pc, winner, stage, left, vouched, index>>
      /\ project' = [project EXCEPT ![f] = t]
      /\ pc \in Staged => edited' = edited \cup {f}
  BY DEF UserEdit, Types, AtHand
<1>2. \A g \in Files : g # f => project'[g] = project[g]
  BY <1>1 DEF Types, TypeOK, Trees
<1> QED
  BY <1>1, <1>2 DEF StageFollows, Copying, PathsOf, Staged

LEMMA StepStage ==
  ASSUME RepairAssumption, Types, StageFollows, [Next]_vars
  PROVE  StageFollows'
<1>1. CASE QuietStep
  BY <1>1, QuietFacts DEF StageFollows, Staged, Copying
<1>2. CASE Remember \/ Raise
  <2>1. pc' = "idle"
    BY <1>2, BlockFacts DEF Remember, Raise, Return
  <2> QED
    BY <2>1 DEF StageFollows, Copying
<1>3. CASE UNCHANGED vars
  BY <1>3 DEF vars, StageFollows, Copying, PathsOf
<1> QED
  BY <1>1, <1>2, <1>3, CloneStage, GateStage, VerifyStage, CopyStage, IndexStage, UserEditStage
  DEF Next, Step, QuietStep

LEMMA StageHolds == Spec => []StageFollows
<1>1. Init => StageFollows
  BY DEF Init, StageFollows, Copying
<1>2. Types /\ StageFollows /\ [Next]_vars => StageFollows'
  BY StepStage, RepairAssumption
<1> QED
  BY <1>1, <1>2, TypesHold, PTL DEF Spec

\* What the coordinator writes into the project is a staged copy that passed full
\* verification, of files the authority permits.
THEOREM ProjectWritesVerified == Spec => ProjectWritesAreVerified
<1>1. ASSUME Types, StageFollows, [Next]_vars
      PROVE  [\A f \in Files : project'[f] # project[f] /\ edits' = edits =>
                vouched # None /\ project'[f] = vouched[f] /\ f \in Scope \ Dnt]_vars
  <2>1. SUFFICES ASSUME Next, NEW f \in Files, project'[f] # project[f], edits' = edits
                 PROVE  vouched # None /\ project'[f] = vouched[f] /\ f \in Scope \ Dnt
    BY <1>1
  <2>2. ~QuietStep
    BY <1>1, <2>1, QuietFacts
  <2>3. ~(\E g \in Files, t \in UserTexts : UserEdit(g, t))
    <3>1. edits \in 0..MaxEdits
      BY <1>1 DEF Types, TypeOK
    <3> QED
      BY <2>1, <3>1, RepairAssumption, LimitFacts DEF UserEdit
  <2>4. PICK g \in Files : Copy(g)
    BY <2>1, <2>2, <2>3 DEF Next, Step, QuietStep, Clone, Gate, Applying, Verify, Index, Remember, Raise
  <2>5. /\ stage \in Trees /\ vouched = stage /\ project \in Trees
        /\ g \in PathsOf(winner) /\ PathsOf(winner) \subseteq Permitted
    BY <1>1, <2>4, StagedFacts, RepairAssumption DEF Copy, StageFollows, Copying, Staged
  <2>6. g = f /\ project'[f] = stage[f]
    BY <2>1, <2>4, <2>5 DEF Copy, Trees
  <2> QED
    BY <2>5, <2>6, RepairAssumption DEF RepairAssumption, Permitted
<1> QED
  BY <1>1, TypesHold, StageHolds, PTL DEF Spec, ProjectWritesAreVerified

\* A step of the application before it ends reports nothing applied.
LEMMA ProceedFacts ==
  ASSUME Types, Clone \/ Gate \/ Verify \/ Index \/ (\E f \in Files : Copy(f))
  PROVE  ~result'.applied /\ pc \in {"clone"} \cup Staged /\ pc # "remember"
<1>1. pc \in {"clone"} \cup Staged /\ pc # "remember"
  BY DEF Clone, Gate, Verify, Index, Copy, Staged
<1>2. ~result.applied
  BY <1>1 DEF Types, AtHand, NoResult, Staged
<1>3. Refuse \/ result' = result
  BY DEF Clone, Gate, Verify, Index, Copy, Proceed
<1> QED
  BY <1>1, <1>2, <1>3, RefuseFacts

\* The end of an application.
LEMMA RememberFacts ==
  ASSUME RepairAssumption, Types, StageFollows, Remember
  PROVE  /\ pc' = "idle" /\ result'.applied /\ edited' = edited /\ vouched' = stage
         /\ UNCHANGED <<project, index, winner>>
         /\ \A f \in Files \ edited : project[f] = stage[f]
         /\ \A f \in PathsOf(winner) \ edited : index[f] = project[f]
         /\ brain' = {Superseded(e, PathsOf(winner)) : e \in brain}
                       \cup {[hashes |-> [f \in PathsOf(winner) |-> index[f]], current |-> TRUE]}
         /\ foreign' = (foreign \ PathsOf(winner)) \cup (edited \cap PathsOf(winner))
<1>1. stage # None /\ pc = "remember"
  BY DEF Remember, Types, AtHand, Staged
<1>2. Return(Applied(core), "complete") \/ Return(core, "applied")
  BY DEF Remember
<1>3. pc' = "idle" /\ result'.applied /\ edited' = edited /\ vouched' = vouched
  <2>1. CASE Return(Applied(core), "complete")
    BY <1>1, <2>1 DEF Return
  <2>2. CASE Return(core, "applied")
    BY <1>1, <2>2 DEF Return
  <2> QED
    BY <1>2, <2>1, <2>2
<1>4. /\ vouched = stage
      /\ \A f \in Files \ edited : project[f] = stage[f]
      /\ \A f \in PathsOf(winner) \ edited : index[f] = project[f]
  BY <1>1 DEF StageFollows, Copying
<1> QED
  BY <1>3, <1>4 DEF Remember

\* A patch reported applied is the one that was verified, in the project, the index and the Brain.
THEOREM RepairedTreesAreVerified == Spec => []RepairedTreeIsVerified
<1>1. Init => RepairedTreeIsVerified
  BY DEF Init, NoResult, RepairedTreeIsVerified
<1>2. ASSUME Types, StageFollows, RepairedTreeIsVerified, [Next]_vars
      PROVE  RepairedTreeIsVerified'
  <2>1. CASE QuietStep
    BY <1>2, <2>1, QuietFacts DEF RepairedTreeIsVerified
  <2>2. CASE Clone \/ Gate \/ Verify \/ Index \/ (\E f \in Files : Copy(f))
    BY <1>2, <2>2, ProceedFacts DEF RepairedTreeIsVerified
  <2>3. CASE Remember
    <3>1. \A f \in PathsOf(winner) \ edited :
            \E e \in brain' : e.current /\ f \in DOMAIN e.hashes /\ e.hashes[f] = project[f]
      <4> DEFINE new == [hashes |-> [f \in PathsOf(winner) |-> index[f]], current |-> TRUE]
      <4>1. new \in brain' /\ new.current /\ DOMAIN new.hashes = PathsOf(winner)
        BY <1>2, <2>3, RememberFacts, RepairAssumption
      <4>2. \A f \in PathsOf(winner) \ edited : new.hashes[f] = project[f]
        BY <1>2, <2>3, RememberFacts, RepairAssumption
      <4> QED
        BY <4>1, <4>2
    <3>2. \A f \in Files \ edited :
            /\ project[f] = stage[f]
            /\ f \in PathsOf(winner) => index[f] = project[f]
      BY <1>2, <2>3, RememberFacts, RepairAssumption
    <3>3. /\ vouched' = stage /\ edited' = edited
          /\ UNCHANGED <<project, index, winner>>
      BY <1>2, <2>3, RememberFacts, RepairAssumption
    <3> QED
      BY <3>1, <3>2, <3>3 DEF RepairedTreeIsVerified, PathsOf
  <2>4. CASE Raise
    <3>1. result'.applied = FALSE
      BY <2>4, BlockFacts, ReturnFacts DEF Raise
    <3> QED
      BY <3>1 DEF RepairedTreeIsVerified
  <2>5. CASE \E f \in Files, t \in UserTexts : UserEdit(f, t)
    <3>1. PICK f \in Files, t \in UserTexts : UserEdit(f, t)
      BY <2>5
    <3>2. /\ UNCHANGED <<result, vouched, winner, index, brain>>
          /\ project' = [project EXCEPT ![f] = t]
          /\ result.applied => edited' = edited \cup {f}
      BY <3>1 DEF UserEdit
    <3>3. \A g \in Files : g # f => project'[g] = project[g]
      BY <1>2, <3>2 DEF Types, TypeOK, Trees
    <3> QED
      BY <1>2, <3>2, <3>3 DEF RepairedTreeIsVerified, PathsOf
  <2>6. CASE UNCHANGED vars
    BY <1>2, <2>6 DEF vars, RepairedTreeIsVerified, PathsOf
  <2> QED
    BY <1>2, <2>1, <2>2, <2>3, <2>4, <2>5, <2>6 DEF Next, Step, QuietStep
<1> QED
  BY <1>1, <1>2, TypesHold, StageHolds, PTL DEF Spec

-----------------------------------------------------------------------------
(* The Brain.                                                              *)

\* A file a current entity holds is recorded.
LEMMA RecordedFacts ==
  ASSUME NEW e \in brain, e.current, NEW f \in DOMAIN e.hashes
  PROVE  f \in Recorded
BY DEF Recorded

LEMMA CopyBrain ==
  ASSUME RepairAssumption, Types, StageFollows, BrainFollows, NEW f \in Files, Copy(f)
  PROVE  BrainFollows'
<1>1. /\ pc = "copy" /\ pc' \in {"copy", "index"} /\ UNCHANGED <<winner, brain, foreign>>
      /\ left' = left \ {f} /\ f \in left /\ project' = [project EXCEPT ![f] = stage[f]]
  BY DEF Copy, Applying, Proceed
<1>2. f \in PathsOf(winner) /\ project \in Trees
  BY <1>1 DEF StageFollows, Copying, Types, TypeOK
<1>3. ASSUME NEW e \in brain, e.current, NEW g \in DOMAIN e.hashes \ (foreign \cup (PathsOf(winner) \ left'))
      PROVE  e.hashes[g] = project'[g]
  <2>1. g # f /\ g \notin PathsOf(winner) \ left
    BY <1>1, <1>2, <1>3
  <2>2. g \in Files
    BY <1>3, RecordedFacts, RecordedAreFiles
  <2> QED
    BY <1>1, <1>2, <1>3, <2>1, <2>2 DEF BrainFollows, Unremembered, Copying, Trees
<1> QED
  BY <1>1, <1>3 DEF BrainFollows, Unremembered, Copying, PathsOf

LEMMA RememberBrain ==
  ASSUME RepairAssumption, Types, StageFollows, BrainFollows, Remember
  PROVE  BrainFollows'
<1> DEFINE changed == PathsOf(winner)
           new == [hashes |-> [f \in changed |-> index[f]], current |-> TRUE]
<1>1. /\ pc = "remember" /\ left = {} /\ pc' = "idle" /\ project' = project
      /\ \A f \in changed \ edited : index[f] = project[f]
      /\ brain' = {Superseded(e, changed) : e \in brain} \cup {new}
      /\ foreign' = (foreign \ changed) \cup (edited \cap changed)
  BY RememberFacts DEF Remember, StageFollows
<1>2. Unremembered = changed /\ Unremembered' = {}
  BY <1>1 DEF Unremembered, Copying
<1>3. ASSUME NEW x \in brain', x.current, NEW f \in DOMAIN x.hashes \ foreign'
      PROVE  x.hashes[f] = project[f]
  <2>1. CASE x = new
    BY <1>1, <1>3, <2>1
  <2>2. CASE \E e \in brain : x = Superseded(e, changed)
    <3>1. PICK e \in brain : x = Superseded(e, changed)
      BY <2>2
    <3>2. e \in Entities
      BY DEF Types, TypeOK
    <3>3. x = e /\ DOMAIN e.hashes \cap changed = {}
      BY <1>3, <3>1, <3>2 DEF Superseded, Entities
    <3> QED
      BY <1>1, <1>2, <1>3, <3>3 DEF BrainFollows
  <2> QED
    BY <1>1, <2>1, <2>2
<1> QED
  BY <1>1, <1>2, <1>3 DEF BrainFollows

LEMMA RaiseBrain ==
  ASSUME RepairAssumption, Types, BrainFollows, Raise
  PROVE  BrainFollows'
<1>1. pc' = "idle" /\ UNCHANGED <<project, brain>>
  BY BlockFacts DEF Raise, Return
<1>2. foreign' = IF pc \in Copying THEN foreign \cup (Recorded \cap Unremembered) ELSE foreign
  BY DEF Raise, Copying, Unremembered
<1>3. ASSUME NEW e \in brain, e.current, NEW f \in DOMAIN e.hashes \ foreign'
      PROVE  f \notin foreign \cup Unremembered
  BY <1>2, <1>3, RecordedFacts DEF Unremembered
<1> QED
  BY <1>1, <1>3 DEF BrainFollows, Unremembered, Copying

LEMMA UserEditBrain ==
  ASSUME RepairAssumption, Types, BrainFollows, NEW f \in Files, NEW t \in UserTexts, UserEdit(f, t)
  PROVE  BrainFollows'
<1>1. /\ UNCHANGED <<pc, winner, left, brain>>
      /\ project' = [project EXCEPT ![f] = t] /\ foreign' = foreign \cup ({f} \cap Recorded)
  BY DEF UserEdit
<1>2. \A g \in Files : g # f => project'[g] = project[g]
  BY <1>1 DEF Types, TypeOK, Trees
<1>3. ASSUME NEW e \in brain, e.current, NEW g \in DOMAIN e.hashes \ foreign'
      PROVE  g \in Files \ {f}
  BY <1>1, <1>3, RecordedFacts, RecordedAreFiles
<1> QED
  BY <1>1, <1>2, <1>3 DEF BrainFollows, Unremembered, Copying, PathsOf

LEMMA StepBrain ==
  ASSUME RepairAssumption, Types, StageFollows, BrainFollows, [Next]_vars
  PROVE  BrainFollows'
<1>1. CASE QuietStep
  BY <1>1, QuietFacts DEF BrainFollows, Unremembered, Staged, Copying
<1>2. CASE Clone \/ Gate \/ Verify
  <2>1. pc \notin Copying /\ UNCHANGED <<project, brain, foreign>>
    BY <1>2 DEF Clone, Gate, Verify, Applying, Copying
  <2>2. Unremembered' = {}
    <3>1. CASE Clone \/ Gate
      BY <3>1, RefuseFacts DEF Clone, Gate, Proceed, Unremembered, Copying
    <3>2. CASE Verify
      BY <3>2, RefuseFacts DEF Verify, Applying, Proceed, Unremembered, Copying, PathsOf
    <3> QED
      BY <1>2, <3>1, <3>2
  <2> QED
    BY <2>1, <2>2 DEF BrainFollows, Unremembered
<1>3. CASE Index
  BY <1>3 DEF Index, Proceed, BrainFollows, Unremembered, Copying, PathsOf
<1>4. CASE UNCHANGED vars
  BY <1>4 DEF vars, BrainFollows, Unremembered, Copying, PathsOf
<1> QED
  BY <1>1, <1>2, <1>3, <1>4, CopyBrain, RememberBrain, RaiseBrain, UserEditBrain
  DEF Next, Step, QuietStep

\* What the Brain holds as current is in the files, but for those somebody else wrote or a
\* broken-off application copied.
THEOREM BrainsAreFaithful == Spec => []BrainIsFaithful
<1>1. Init => BrainFollows
  BY DEF Init, BrainFollows
<1>2. Types /\ StageFollows /\ BrainFollows /\ [Next]_vars => BrainFollows'
  BY StepBrain, RepairAssumption
<1>3. BrainFollows => BrainIsFaithful
  BY DEF BrainFollows, BrainIsFaithful, Unremembered, Copying
<1> QED
  BY <1>1, <1>2, <1>3, TypesHold, StageHolds, PTL DEF Spec

-----------------------------------------------------------------------------
(* The budget of full verifications.                                       *)

LEMMA BudgetFacts ==
  ASSUME RepairAssumption, Types
  PROVE  /\ used.attempts \in Nat /\ search.shortlist \in Nat /\ Spare \in Nat
         /\ used \in Usages /\ search \in Searches
         /\ [used EXCEPT !.requests = @ + 1].attempts = used.attempts
         /\ [used EXCEPT !.rounds = @ + 1].attempts = used.attempts
         /\ Attempt.attempts = used.attempts + 1
<1>1. used \in Usages /\ search \in Searches /\ MaxAttempts \in Nat
  BY SandboxFacts, LimitFacts
<1>2. used.attempts \in 0..MaxAttempts /\ search.shortlist \in Nat
  BY <1>1 DEF Usages, Searches
<1>3. used.attempts \in Nat
  BY <1>1, <1>2
<1>4. Spare \in Nat
  BY <1>1 DEF Spare
<1>5. /\ [used EXCEPT !.requests = @ + 1].attempts = used.attempts
      /\ [used EXCEPT !.rounds = @ + 1].attempts = used.attempts
      /\ Attempt.attempts = used.attempts + 1
  BY <1>1 DEF Usages, Attempt
<1> QED
  BY <1>1, <1>2, <1>3, <1>4, <1>5

\* A call that returns has nothing to reserve.
LEMMA ReturnBudget ==
  ASSUME NEW k, NEW status, Return(k, status)
  PROVE  SearchBudget'
BY DEF Return, SearchBudget, NoCall

LEMMA BlockBudget == ASSUME Block PROVE SearchBudget'
BY ReturnBudget DEF Block

LEMMA RefuseBudget == ASSUME Refuse PROVE SearchBudget'
BY ReturnBudget, BlockBudget DEF Refuse

\* Up to the search nothing is verified.
LEMMA BeforeSearchBudget ==
  ASSUME RepairAssumption, Types, SearchBudget,
         Begin \/ Submit \/ Restart \/ Context \/ Localize \/ Accept
  PROVE  SearchBudget'
<1>1. CASE Begin
  BY <1>1 DEF Begin, SearchBudget, NothingUsed
<1>2. CASE Submit
  <2>1. CASE Return(core, "refused")
    BY <2>1, ReturnBudget
  <2>2. CASE call' = [NoCall EXCEPT !.kind = "submit"]
    BY <2>2 DEF NoCall, SearchBudget
  <2> QED
    BY <1>2, <2>1, <2>2 DEF Submit
<1>3. CASE Restart
  BY <1>3 DEF Restart, Types, AtHand, SearchBudget
<1>4. CASE Context
  <2>1. used'.attempts = used.attempts
    BY <1>4, BudgetFacts DEF Context
  <2>2. CASE Block \/ Return(Enter(core, "COMPLETE"), "complete")
    BY <2>2, BlockBudget, ReturnBudget
  <2>3. CASE Goto("localize") \/ Goto("problem")
    BY <1>4, <2>1, <2>3 DEF Context, Goto, SearchBudget
  <2> QED
    BY <1>4, <2>2, <2>3 DEF Context
<1>5. CASE Localize
  <2>1. used'.attempts = used.attempts
    BY <1>5, BudgetFacts DEF Localize
  <2>2. CASE \E k : Return(Blocked(k), "blocked") \/ Return(Enter(k, "COMPLETE"), "partial")
    BY <2>2, ReturnBudget
  <2>3. CASE Goto("problem")
    BY <1>5, <2>1, <2>3 DEF Localize, Goto, SearchBudget
  <2> QED
    BY <1>5, <2>2, <2>3 DEF Localize
<1>6. CASE Accept
  <2>1. CASE Goto("search") /\ UNCHANGED search
    BY <1>6, <2>1 DEF Accept, Goto, SearchBudget
  <2> QED
    BY <1>6, <2>1, BlockBudget DEF Accept
<1> QED
  BY <1>1, <1>2, <1>3, <1>4, <1>5, <1>6

\* The search is given what is left but one.
LEMMA StartSearchBudget ==
  ASSUME RepairAssumption, Types, SearchBudget, OpenSearch \/ Hash \/ Generate
  PROVE  SearchBudget'
<1>1. CASE OpenSearch
  <2>1. CASE Return(core, "raised")
    BY <2>1, ReturnBudget
  <2>2. CASE /\ search' = [NoSearch EXCEPT !.shortlist = Lesser(MaxFinalists, Reserved)]
             /\ Goto("hash")
    <3>1. call.kind = "maintain" => used.attempts = 0
      BY <1>1 DEF OpenSearch, SearchBudget
    <3>2. search'.shortlist = Lesser(MaxFinalists, Reserved)
      BY <2>2 DEF NoSearch
    <3> QED
      BY <1>1, <2>2, <3>1, <3>2, BudgetFacts, ShortlistFacts DEF OpenSearch, Goto, SearchBudget
  <2> QED
    BY <1>1, <2>1, <2>2 DEF OpenSearch
<1>2. CASE Hash
  <2>1. search'.shortlist = search.shortlist
    BY <1>2, BudgetFacts DEF Hash, Searches
  <2> QED
    BY <1>2, <2>1 DEF Hash, Goto, SearchBudget
<1>3. CASE Generate
  <2>1. \/ Block
        \/ /\ Goto("evaluate") /\ used' \in {used, [used EXCEPT !.requests = @ + 1]}
           /\ \E R : search' = [search EXCEPT !.queue = R, !.found = (R # {})]
    BY <1>3 DEF Generate
  <2>2. CASE /\ Goto("evaluate") /\ used' \in {used, [used EXCEPT !.requests = @ + 1]}
             /\ \E R : search' = [search EXCEPT !.queue = R, !.found = (R # {})]
    <3>1. used'.attempts = used.attempts
      BY <2>2, BudgetFacts
    <3>2. search'.shortlist = search.shortlist
      BY <2>2, BudgetFacts DEF Searches
    <3> QED
      BY <1>3, <2>2, <3>1, <3>2 DEF Generate, Goto, SearchBudget
  <2> QED
    BY <2>1, <2>2, BlockBudget
<1> QED
  BY <1>1, <1>2, <1>3

\* The candidates are evaluated without a full verification.
LEMMA EvaluationBudget ==
  ASSUME RepairAssumption, Types, SearchBudget, OpenSandbox \/ Evaluate \/ Rank
  PROVE  SearchBudget'
<1>1. CASE OpenSandbox
  <2>1. search'.shortlist = search.shortlist
    BY <1>1, BudgetFacts DEF OpenSandbox, Reject, Searches
  <2> QED
    BY <1>1, <2>1 DEF OpenSandbox, SearchBudget
<1>2. CASE Evaluate
  BY <1>2, EvaluateTypes DEF Evaluate, SearchBudget
<1>3. CASE Rank
  <2>1. search'.shortlist = search.shortlist /\ search'.tried = {}
    BY <1>3, BudgetFacts DEF Rank, Searches, Types, TriedInOrder
  <2>2. Cardinality({}) = 0
    BY FS_EmptySet
  <2>3. \A n \in Nat : 0 <= n
    OBVIOUS
  <2>4. call.kind = "maintain" => used.attempts = 0 /\ search.shortlist <= Spare
    BY <1>3 DEF Rank, SearchBudget
  <2>5. UNCHANGED <<used, call>> /\ pc' = "finalists" /\ box' = None
    BY <1>3 DEF Rank
  <2> QED
    BY <2>1, <2>2, <2>3, <2>4, <2>5, BudgetFacts DEF SearchBudget
<1> QED
  BY <1>1, <1>2, <1>3

\* Each finalist takes one of them, and no more finalists are tried than were left.
LEMMA FinalistBudget ==
  ASSUME RepairAssumption, Types, SearchBudget, OpenFinalist \/ VerifyFinalist \/ EndSearch
  PROVE  SearchBudget'
<1>a. /\ pc = "finalists" /\ IsFiniteSet(search.viable) /\ search.tried \subseteq search.viable
      /\ box # None => box.cand \notin search.tried
  BY DEF OpenFinalist, VerifyFinalist, EndSearch, Types, TriedInOrder
<1>1. /\ IsFiniteSet(search.tried)
      /\ Cardinality(search.tried) \in Nat /\ Cardinality(search.viable) \in Nat
  BY <1>a, FS_CardinalityType, FS_Subset
<1>2. CASE OpenFinalist
  <2>1. Cardinality(search.tried) < search.shortlist
    <3> DEFINE t == Cardinality(search.tried)
               n == Cardinality(search.viable)
               m == search.shortlist
    <3>1. t \in Nat /\ n \in Nat /\ m \in Nat
      BY <1>1, BudgetFacts
    <3>2. t < IF m < n THEN m ELSE n
      BY <1>2 DEF OpenFinalist, Finalists, Lesser
    <3> HIDE DEF t, n, m
    <3>3. t < m
      BY <3>1, <3>2
    <3> QED
      BY <3>3 DEF t, m
  <2> QED
    BY <1>2, <2>1 DEF OpenFinalist, SearchBudget
<1>3. CASE VerifyFinalist
  <2>1. /\ search'.tried = search.tried \cup {box.cand} /\ search'.shortlist = search.shortlist
    BY <1>3, VerifyFinalistTypes
  <2>2. Cardinality(search'.tried) = Cardinality(search.tried) + 1
    BY <1>a, <1>1, <1>3, <2>1, FS_AddElement DEF VerifyFinalist
  <2>3. used'.attempts = used.attempts \/ used'.attempts = used.attempts + 1
    BY <1>3, BudgetFacts DEF VerifyFinalist
  <2>4. ASSUME call.kind = "maintain"
        PROVE  /\ used'.attempts <= Cardinality(search'.tried)
               /\ Cardinality(search'.tried) <= search'.shortlist
               /\ search'.shortlist <= Spare
    <3> DEFINE t == Cardinality(search.tried)
               m == search.shortlist
               a == used.attempts
               b == used'.attempts
               u == Cardinality(search'.tried)
    <3>1. t \in Nat /\ m \in Nat /\ a \in Nat
      BY <1>1, BudgetFacts
    <3>2. a <= t /\ t < m /\ m <= Spare
      BY <1>3, <2>4 DEF VerifyFinalist, SearchBudget
    <3>3. u = t + 1 /\ b \in {a, a + 1}
      BY <2>2, <2>3
    <3> HIDE DEF t, m, a, b, u
    <3>4. b <= u /\ u <= m
      BY <3>1, <3>2, <3>3
    <3> QED
      BY <2>1, <3>2, <3>4 DEF b, u, m
  <2> QED
    BY <1>3, <2>4 DEF VerifyFinalist, SearchBudget
<1>4. CASE EndSearch
  <2>1. UNCHANGED <<used, call>> /\ pc' = "choose"
    BY <1>4 DEF EndSearch
  <2>2. ASSUME call.kind = "maintain"
        PROVE  used.attempts <= Spare
    <3> DEFINE t == Cardinality(search.tried)
               m == search.shortlist
               a == used.attempts
    <3>1. a \in Nat /\ t \in Nat /\ m \in Nat /\ Spare \in Nat
      BY <1>1, BudgetFacts
    <3>2. a <= t /\ t <= m /\ m <= Spare
      BY <1>a, <2>2 DEF SearchBudget
    <3> HIDE DEF t, m, a
    <3>3. a <= Spare
      BY <3>1, <3>2
    <3> QED
      BY <3>3 DEF a
  <2> QED
    BY <2>1, <2>2 DEF SearchBudget
<1> QED
  BY <1>2, <1>3, <1>4

LEMMA StepBudget ==
  ASSUME RepairAssumption, Types, SearchBudget, [Next]_vars
  PROVE  SearchBudget'
<1>1. CASE Choose
  <2>1. CASE Goto("clone")
    BY <1>1, <2>1 DEF Choose, Goto, SearchBudget
  <2>2. CASE Block \/ (\E k, status : Return(k, status))
    BY <2>2, ReturnBudget, BlockBudget
  <2> QED
    BY <1>1, <2>1, <2>2 DEF Choose
<1>2. CASE Clone \/ Gate \/ Verify
  <2>1. CASE Refuse
    BY <2>1, RefuseBudget
  <2>2. CASE Clone \/ (Gate /\ Proceed("verify"))
    BY <2>2 DEF Clone, Gate, Proceed, SearchBudget
  <2>3. CASE Proceed("copy")
    BY <2>3 DEF Proceed, SearchBudget
  <2> QED
    BY <1>2, <2>1, <2>2, <2>3 DEF Gate, Verify
<1>3. CASE Index \/ (\E f \in Files : Copy(f))
  BY <1>3 DEF Index, Copy, Proceed, SearchBudget
<1>4. CASE Remember \/ Raise
  BY <1>4, ReturnBudget, BlockBudget DEF Remember, Raise
<1>5. CASE \E f \in Files, t \in UserTexts : UserEdit(f, t)
  BY <1>5 DEF UserEdit, SearchBudget
<1>6. CASE UNCHANGED vars
  BY <1>6 DEF vars, SearchBudget
<1> QED
  BY <1>1, <1>2, <1>3, <1>4, <1>5, <1>6, BeforeSearchBudget, StartSearchBudget, EvaluationBudget,
     FinalistBudget
  DEF Next, Step

LEMMA BudgetHolds == Spec => []SearchBudget
<1>1. Init => SearchBudget
  BY DEF Init, NoCall, SearchBudget
<1>2. Types /\ SearchBudget /\ [Next]_vars => SearchBudget'
  BY StepBudget, RepairAssumption
<1> QED
  BY <1>1, <1>2, TypesHold, PTL DEF Spec

\* If any full verification is allowed, one is left for the staged copy.
THEOREM VerificationsAreReserved ==
  ASSUME MaxAttempts # 0
  PROVE  Spec => []VerificationIsReserved
<1>1. Types /\ SearchBudget => VerificationIsReserved
  <2>1. SUFFICES ASSUME Types, SearchBudget, pc = "verify", call.kind = "maintain"
                 PROVE  used.attempts < MaxAttempts
    BY DEF VerificationIsReserved
  <2>2. used.attempts <= Spare /\ used.attempts \in Nat /\ MaxAttempts \in Nat
    BY <2>1, RepairAssumption, BudgetFacts, LimitFacts DEF SearchBudget
  <2> QED
    BY <2>2 DEF Spare
<1> QED
  BY <1>1, TypesHold, BudgetHolds, PTL

-----------------------------------------------------------------------------
(* The phases.                                                             *)

\* The transitions maintain makes are in the table.
LEMMA TransitionsAllowed ==
  /\ "CONTEXT_BUILDING" \in Allowed["INITIALIZING"]
  /\ "LOCALIZING" \in Allowed["CONTEXT_BUILDING"] \cap Allowed["EXPERIMENTING"]
  /\ "EXPERIMENTING" \in Allowed["LOCALIZING"]
  /\ "PATCH_SEARCHING" \in Allowed["CONTEXT_BUILDING"] \cap Allowed["LOCALIZING"]
  /\ "CANDIDATE_SELECTED" \in Allowed["PATCH_SEARCHING"]
  /\ "CANONICAL_APPLYING" \in Allowed["CANDIDATE_SELECTED"]
  /\ "VERIFYING" \in Allowed["CANONICAL_APPLYING"]
  /\ "INDEX_UPDATING" \in Allowed["VERIFYING"]
  /\ "PROMOTABLE" \in Allowed["INDEX_UPDATING"]
  /\ \A phase \in {"CONTEXT_BUILDING", "LOCALIZING", "PATCH_SEARCHING", "PROMOTABLE"} :
       "COMPLETE" \in Allowed[phase]
BY DEF Allowed

\* A transition the table has ends in its phase, or past the budget.
LEMMA EnterOnTrack ==
  ASSUME MaxStages \in Nat, NEW k \in Cores, NEW P, NEW phase \in Phases, OnTrack(k, P),
         \A q \in P : phase \in Allowed[q]
  PROVE  /\ OnTrack(Enter(k, phase), {phase}) /\ Enter(k, phase) \in Cores
         /\ Enter(k, phase).stages = k.stages + 1
<1>1. k.stages \in Nat
  BY DEF Cores
<1>2. /\ Enter(k, phase) \in Cores /\ Enter(k, phase).stages = k.stages + 1
      /\ Enter(k, phase).phase = IF k.stages < MaxStages /\ phase \in Allowed[k.phase] \cup {k.phase}
                                 THEN phase ELSE "BLOCKED"
  BY EnterType DEF Enter
<1> DEFINE n == k.stages
           e == Enter(k, phase)
<1>3. CASE n < MaxStages
  <2>1. k.phase \in P
    BY <1>1, <1>3 DEF OnTrack
  <2> QED
    BY <1>2, <1>3, <2>1 DEF OnTrack
<1>4. CASE ~(n < MaxStages)
  <2>1. e.phase = "BLOCKED" /\ e.stages = n + 1
    BY <1>2, <1>4
  <2> HIDE DEF n, e
  <2>2. n \in Nat
    BY <1>1 DEF n
  <2>3. n + 1 > MaxStages
    BY <1>4, <2>2
  <2>4. e.stages > MaxStages
    BY <2>1, <2>3
  <2>5. OnTrack(e, {phase})
    BY <2>1, <2>4 DEF OnTrack
  <2> QED
    BY <1>2, <2>5 DEF e
<1> QED
  BY <1>3, <1>4

\* They end in their phase, or past the budget.
LEMMA MovesOnTrack ==
  ASSUME RepairAssumption, NEW k \in Cores
  PROVE  /\ k.stages \in Nat
         /\ OnTrack(k, {"INITIALIZING"}) => OnTrack(Enter(k, "CONTEXT_BUILDING"), {"CONTEXT_BUILDING"})
         /\ OnTrack(k, {"CONTEXT_BUILDING"}) => OnTrack(Enter(k, "LOCALIZING"), {"LOCALIZING"})
         /\ OnTrack(k, {"LOCALIZING"}) => OnTrack(Enter(k, "EXPERIMENTING"), {"EXPERIMENTING"})
         /\ OnTrack(k, {"EXPERIMENTING"}) => OnTrack(Enter(k, "LOCALIZING"), {"LOCALIZING"})
         /\ OnTrack(k, {"CONTEXT_BUILDING", "LOCALIZING"}) =>
              OnTrack(Enter(k, "PATCH_SEARCHING"), {"PATCH_SEARCHING"})
         /\ OnTrack(k, {"PATCH_SEARCHING"}) =>
              OnTrack(Enter(k, "CANDIDATE_SELECTED"), {"CANDIDATE_SELECTED"})
         /\ OnTrack(k, {"CANDIDATE_SELECTED"}) =>
              OnTrack(Enter(k, "CANONICAL_APPLYING"), {"CANONICAL_APPLYING"})
         /\ OnTrack(k, {"CONTEXT_BUILDING"}) \/ OnTrack(k, {"LOCALIZING"})
            \/ OnTrack(k, {"PATCH_SEARCHING"}) => OnTrack(Enter(k, "COMPLETE"), {"COMPLETE"})
         /\ \A phase \in Phases :
              Enter(k, phase) \in Cores /\ Enter(k, phase).stages = k.stages + 1
<1>1. MaxStages \in Nat /\ k.stages \in Nat
  BY LimitFacts DEF Cores
<1>2. ASSUME NEW P, NEW phase \in Phases, OnTrack(k, P), \A q \in P : phase \in Allowed[q]
      PROVE  OnTrack(Enter(k, phase), {phase})
  BY <1>1, <1>2, EnterOnTrack
<1>3. {"CONTEXT_BUILDING", "LOCALIZING", "EXPERIMENTING", "PATCH_SEARCHING", "CANDIDATE_SELECTED",
       "CANONICAL_APPLYING", "COMPLETE"} \subseteq Phases
  BY PhasesAre
<1>4. \A p, q \in Phases : q \in Allowed[p] /\ OnTrack(k, {p}) => OnTrack(Enter(k, q), {q})
  BY <1>2
<1>5. OnTrack(k, {"CONTEXT_BUILDING", "LOCALIZING"}) =>
        OnTrack(Enter(k, "PATCH_SEARCHING"), {"PATCH_SEARCHING"})
  BY <1>2, <1>3, TransitionsAllowed
<1>6. "INITIALIZING" \in Phases
  BY PhasesAre
<1>7. \A phase \in Phases : Enter(k, phase) \in Cores /\ Enter(k, phase).stages = k.stages + 1
  BY EnterType
<1> QED
  BY <1>1, <1>3, <1>4, <1>5, <1>6, <1>7, TransitionsAllowed

LEMMA PlaceFacts ==
  /\ PhasesAt("context") = {"CONTEXT_BUILDING"} /\ StagesAt("context") = 1
  /\ PhasesAt("localize") = {"LOCALIZING"} /\ StagesAt("localize") = 2
  /\ PhasesAt("problem") = {"CONTEXT_BUILDING", "LOCALIZING"} /\ StagesAt("problem") = 4
  /\ \A l \in InSearch : PhasesAt(l) = {"PATCH_SEARCHING"} /\ StagesAt(l) = 5
  /\ \A l \in {"clone"} \cup Staged : PhasesAt(l) = {"CANONICAL_APPLYING"} /\ StagesAt(l) = 7
<1>1. \A l \in InSearch : l \notin {"context", "localize", "problem"}
  BY DEF InSearch
<1>2. \A l \in {"clone"} \cup Staged : l \notin {"context", "localize", "problem"} \cup InSearch
  BY DEF InSearch, Staged
<1>3. {"context", "localize", "problem"} \cap InSearch = {}
  BY <1>1
<1> QED
  BY <1>1, <1>2, <1>3 DEF PhasesAt, StagesAt

\* Ending an execution that is not COMPLETE blocks it.
LEMMA BlockedOnTrack ==
  ASSUME NEW k \in Cores, NEW P, OnTrack(k, P), "COMPLETE" \notin P
  PROVE  Blocked(k).phase = "BLOCKED"
<1>1. "BLOCKED" \in Phases
  BY PhasesAre
<1>2. Enter(k, "BLOCKED").phase = "BLOCKED"
  BY <1>1, EnterType
<1> QED
  BY <1>2 DEF Blocked, OnTrack

\* An application that succeeded is COMPLETE, four stages later.
LEMMA AppliedOnTrack ==
  ASSUME MaxStages \in Nat, NEW k \in Cores, OnTrack(k, {"CANONICAL_APPLYING"})
  PROVE  OnTrack(Applied(k), {"COMPLETE"}) /\ Applied(k).stages = k.stages + 4
<1>1. {"VERIFYING", "INDEX_UPDATING", "PROMOTABLE", "COMPLETE"} \subseteq Phases
  BY PhasesAre
<1> DEFINE a == Enter(k, "VERIFYING")
           b == Enter(a, "INDEX_UPDATING")
           c == Enter(b, "PROMOTABLE")
           d == Enter(c, "COMPLETE")
<1>2. a \in Cores /\ OnTrack(a, {"VERIFYING"})
  BY <1>1, EnterOnTrack, TransitionsAllowed
<1>3. b \in Cores /\ OnTrack(b, {"INDEX_UPDATING"})
  <2> HIDE DEF a
  <2> QED
    BY <1>1, <1>2, EnterOnTrack, TransitionsAllowed
<1>4. c \in Cores /\ OnTrack(c, {"PROMOTABLE"})
  <2> HIDE DEF b
  <2> QED
    BY <1>1, <1>3, EnterOnTrack, TransitionsAllowed
<1>5. OnTrack(d, {"COMPLETE"})
  <2> HIDE DEF c
  <2> QED
    BY <1>1, <1>4, EnterOnTrack, TransitionsAllowed
<1>6. Applied(k) = d
  BY DEF Applied
<1> HIDE DEF d
<1> QED
  BY <1>5, <1>6, AppliedType

\* How far an execution has come at a place.
Reached(k, l) == OnTrack(k, PhasesAt(l)) /\ k.stages <= StagesAt(l)

\* What the status of a call that returns says.
Reports(k, status) ==
  /\ status \in {"complete", "partial"} => OnTrack(k, {"COMPLETE"}) /\ k.stages <= Longest
  /\ status = "blocked" => k.phase = "BLOCKED"

LEMMA AtPlace ==
  ASSUME Types, PhasesFollow, pc # "idle"
  PROVE  /\ call.kind = "maintain" => Reached(core, pc)
         /\ pc \notin {"clone"} \cup Staged => call.kind = "maintain"
         /\ result = NoResult /\ core \in Cores
BY DEF Types, TypeOK, AtHand, PhasesFollow, Reached

\* A call goes on.
LEMMA MovePhases ==
  ASSUME Types, pc # "idle", UNCHANGED result, call.kind = "maintain" => Reached(core', pc'),
         UNCHANGED call
  PROVE  PhasesFollow'
BY DEF Types, AtHand, NoResult, PhasesFollow, Reached, OnTrack

LEMMA ReturnPhases ==
  ASSUME NEW k, NEW status, Return(k, status), Reports(k, status)
  PROVE  PhasesFollow'
BY DEF Return, NoCall, PhasesFollow, Reports, OnTrack

LEMMA BlockPhases ==
  ASSUME Types, PhasesFollow, pc # "idle", call.kind = "maintain", Block
  PROVE  PhasesFollow'
<1>1. Reached(core, pc) /\ core \in Cores
  BY AtPlace
<1>2. "COMPLETE" \notin PhasesAt(pc)
  BY DEF PhasesAt
<1>3. Blocked(core).phase = "BLOCKED"
  BY <1>1, <1>2, BlockedOnTrack DEF Reached
<1> QED
  BY <1>3, ReturnPhases DEF Block, Reports

LEMMA RefusePhases ==
  ASSUME Types, PhasesFollow, pc # "idle", Refuse
  PROVE  PhasesFollow'
<1>1. Reports(core, "refused")
  BY DEF Reports
<1> QED
  BY <1>1, ReturnPhases, BlockPhases DEF Refuse

\* Up to the search.
LEMMA BeforeSearchPhases ==
  ASSUME RepairAssumption, Types, PhasesFollow, Begin \/ Submit \/ Restart \/ Context \/ Localize \/ Accept
  PROVE  PhasesFollow'
<1>a. MaxStages \in Nat /\ \A k \in Cores : k.stages \in Nat
  BY LimitFacts DEF Cores
<1>b. {"INITIALIZING", "CONTEXT_BUILDING", "LOCALIZING", "EXPERIMENTING", "PATCH_SEARCHING",
       "COMPLETE"} \subseteq Phases
  BY PhasesAre
<1>1. CASE Begin
  <2>1. NewCore \in Cores /\ OnTrack(NewCore, {"INITIALIZING"}) /\ NewCore.stages = 0
    BY <1>b DEF NewCore, Cores, OnTrack
  <2>2. Reached(core', "context")
    <3>1. OnTrack(core', {"CONTEXT_BUILDING"}) /\ core'.stages = NewCore.stages + 1
      BY <1>1, <1>b, <2>1, MovesOnTrack DEF Begin
    <3>2. core'.stages <= 1
      BY <2>1, <3>1
    <3> QED
      BY <3>1, <3>2, PlaceFacts DEF Reached
  <2>3. result' = NoResult /\ pc' = "context"
    BY <1>1 DEF Begin
  <2> QED
    BY <2>2, <2>3 DEF PhasesFollow, Reached, NoResult, OnTrack
<1>2. CASE Submit
  <2>1. CASE Return(core, "refused")
    BY <2>1, ReturnPhases DEF Reports
  <2>2. CASE call' = [NoCall EXCEPT !.kind = "submit"] /\ result' = NoResult
    BY <2>2 DEF NoCall, NoResult, PhasesFollow
  <2> QED
    BY <1>2, <2>1, <2>2 DEF Submit
<1>3. CASE Restart
  BY <1>3 DEF Restart, Types, AtHand, PhasesFollow, NoResult
<1>4. CASE Context
  <2>1. pc = "context" /\ call.kind = "maintain" /\ core \in Cores
        /\ OnTrack(core, {"CONTEXT_BUILDING"}) /\ core.stages <= 1
    BY <1>4, AtPlace, PlaceFacts DEF Context, Reached, Staged
  <2>2. CASE Block
    BY <2>1, <2>2, BlockPhases
  <2>3. CASE core' = Enter(core, "LOCALIZING") /\ Goto("localize")
    <3>1. OnTrack(core', {"LOCALIZING"}) /\ core'.stages = core.stages + 1
      BY <1>a, <1>b, <2>1, <2>3, MovesOnTrack
    <3>2. core'.stages <= 2
      BY <1>a, <2>1, <3>1
    <3> QED
      BY <2>1, <2>3, <3>1, <3>2, PlaceFacts, MovePhases DEF Goto, Reached
  <2>4. CASE Goto("problem") /\ UNCHANGED core
    <3>1. core.stages <= 4
      BY <1>a, <2>1
    <3>2. Reached(core', "problem")
      BY <2>1, <2>4, <3>1, PlaceFacts DEF Reached, OnTrack
    <3> QED
      BY <2>1, <2>4, <3>2, MovePhases DEF Goto
  <2>5. CASE Return(Enter(core, "COMPLETE"), "complete")
    <3> DEFINE e == Enter(core, "COMPLETE")
    <3>1. OnTrack(e, {"COMPLETE"}) /\ e.stages = core.stages + 1
      BY <1>a, <1>b, <2>1, MovesOnTrack
    <3> HIDE DEF e
    <3>2. e.stages <= Longest
      BY <1>a, <2>1, <3>1 DEF Longest
    <3>3. Reports(e, "complete")
      BY <3>1, <3>2 DEF Reports
    <3> QED
      BY <2>5, <3>3, ReturnPhases DEF e
  <2> QED
    BY <1>4, <2>2, <2>3, <2>4, <2>5 DEF Context
<1>5. CASE Localize
  <2>1. pc = "localize" /\ call.kind = "maintain" /\ core \in Cores
        /\ OnTrack(core, {"LOCALIZING"}) /\ core.stages <= 2
    BY <1>5, AtPlace, PlaceFacts DEF Localize, Reached, Staged
  <2>2. PICK k \in {core, Enter(Enter(core, "EXPERIMENTING"), "LOCALIZING")} :
          \/ core' = k /\ Goto("problem")
          \/ Return(Blocked(k), "blocked")
          \/ Return(Enter(k, "COMPLETE"), "partial")
    BY <1>5 DEF Localize
  <2>3. k \in Cores /\ OnTrack(k, {"LOCALIZING"}) /\ k.stages <= 4
    <3>1. CASE k = core
      BY <1>a, <2>1, <3>1
    <3>2. CASE k = Enter(Enter(core, "EXPERIMENTING"), "LOCALIZING")
      <4> DEFINE e == Enter(core, "EXPERIMENTING")
      <4>1. e \in Cores /\ OnTrack(e, {"EXPERIMENTING"}) /\ e.stages = core.stages + 1
        BY <1>a, <1>b, <2>1, MovesOnTrack
      <4>2. k = Enter(e, "LOCALIZING")
        BY <3>2
      <4> HIDE DEF e
      <4>3. k \in Cores /\ OnTrack(k, {"LOCALIZING"}) /\ k.stages = e.stages + 1
        BY <1>a, <1>b, <4>1, <4>2, MovesOnTrack
      <4>4. k.stages <= 4
        <5> DEFINE m == core.stages
                   n == k.stages
        <5>1. m \in Nat /\ m <= 2 /\ n = (m + 1) + 1
          BY <1>a, <2>1, <4>1, <4>3
        <5> HIDE DEF m, n
        <5>2. n <= 4
          BY <5>1
        <5> QED
          BY <5>2 DEF n
      <4> QED
        BY <4>3, <4>4
    <3> QED
      BY <2>2, <3>1, <3>2
  <2>4. CASE core' = k /\ Goto("problem")
    <3>1. Reached(core', "problem")
      BY <2>3, <2>4, PlaceFacts DEF Reached, OnTrack
    <3> QED
      BY <2>1, <2>4, <3>1, MovePhases DEF Goto
  <2>5. CASE Return(Blocked(k), "blocked")
    <3>1. Reports(Blocked(k), "blocked")
      BY <2>3, BlockedOnTrack DEF Reports
    <3> QED
      BY <2>5, <3>1, ReturnPhases
  <2>6. CASE Return(Enter(k, "COMPLETE"), "partial")
    <3> DEFINE e == Enter(k, "COMPLETE")
    <3>1. OnTrack(e, {"COMPLETE"}) /\ e.stages = k.stages + 1
      BY <1>a, <1>b, <2>3, MovesOnTrack
    <3> HIDE DEF e
    <3>2. e.stages <= Longest
      BY <1>a, <2>3, <3>1 DEF Longest
    <3>3. Reports(e, "partial")
      BY <3>1, <3>2 DEF Reports
    <3> QED
      BY <2>6, <3>3, ReturnPhases DEF e
  <2> QED
    BY <2>2, <2>4, <2>5, <2>6
<1>6. CASE Accept
  <2>1. pc = "problem" /\ call.kind = "maintain" /\ core \in Cores
        /\ OnTrack(core, {"CONTEXT_BUILDING", "LOCALIZING"}) /\ core.stages <= 4
    BY <1>6, AtPlace, PlaceFacts DEF Accept, Reached, Staged
  <2>2. CASE Block
    BY <2>1, <2>2, BlockPhases
  <2>3. CASE core' = Enter(core, "PATCH_SEARCHING") /\ Goto("search")
    <3>1. OnTrack(core', {"PATCH_SEARCHING"}) /\ core'.stages = core.stages + 1
      BY <1>a, <1>b, <2>1, <2>3, MovesOnTrack
    <3>2. core'.stages <= 5
      BY <1>a, <2>1, <3>1
    <3>3. "search" \in InSearch
      BY DEF InSearch
    <3>4. Reached(core', "search")
      BY <3>1, <3>2, <3>3, PlaceFacts DEF Reached
    <3> QED
      BY <2>1, <2>3, <3>4, MovePhases DEF Goto
  <2> QED
    BY <1>6, <2>2, <2>3 DEF Accept
<1> QED
  BY <1>1, <1>2, <1>3, <1>4, <1>5, <1>6

\* In the search the phase stays what it is.
LEMMA SearchPhases ==
  ASSUME RepairAssumption, Types, PhasesFollow,
         \/ OpenSearch \/ Hash \/ Generate \/ OpenSandbox \/ Evaluate \/ Rank
         \/ OpenFinalist \/ VerifyFinalist \/ EndSearch
  PROVE  PhasesFollow'
<1>1. /\ pc \in InSearch /\ call.kind = "maintain" /\ Reached(core, pc)
      /\ \A l \in InSearch : Reached(core, l)
  <2>1. pc \in InSearch
    BY DEF OpenSearch, Hash, Generate, OpenSandbox, Evaluate, Rank, OpenFinalist, VerifyFinalist,
           EndSearch, InSearch
  <2>2. pc \notin {"clone"} \cup Staged \cup {"idle"}
    BY <2>1 DEF InSearch, Staged
  <2> QED
    BY <2>1, <2>2, AtPlace, PlaceFacts DEF Reached
<1>2. CASE UNCHANGED <<core, call, result>> /\ pc' \in InSearch
  BY <1>1, <1>2, MovePhases DEF InSearch
<1>3. CASE Return(core, "raised")
  BY <1>3, ReturnPhases DEF Reports
<1>4. CASE Block
  BY <1>1, <1>4, BlockPhases DEF InSearch
<1> QED
  BY <1>2, <1>3, <1>4
  DEF OpenSearch, Hash, Generate, OpenSandbox, Evaluate, Rank, OpenFinalist, VerifyFinalist,
      EndSearch, Goto, InSearch

\* The selection.
LEMMA ChoosePhases ==
  ASSUME RepairAssumption, Types, PhasesFollow, Choose
  PROVE  PhasesFollow'
<1>a. MaxStages \in Nat /\ \A k \in Cores : k.stages \in Nat
  BY LimitFacts DEF Cores
<1>b. {"CANDIDATE_SELECTED", "CANONICAL_APPLYING", "COMPLETE"} \subseteq Phases
  BY PhasesAre
<1>1. /\ pc = "choose" /\ call.kind = "maintain" /\ core \in Cores
      /\ OnTrack(core, {"PATCH_SEARCHING"}) /\ core.stages <= 5
  <2>1. pc = "choose" /\ "choose" \in InSearch
    BY DEF Choose, InSearch
  <2> QED
    BY <2>1, AtPlace, PlaceFacts DEF Staged, Reached
<1>2. CASE Block
  BY <1>1, <1>2, BlockPhases
<1>3. CASE Return(core, "raised")
  BY <1>3, ReturnPhases DEF Reports
<1>4. CASE Return(Enter(core, "COMPLETE"), "partial")
  <2> DEFINE e == Enter(core, "COMPLETE")
  <2>1. OnTrack(e, {"COMPLETE"}) /\ e.stages = core.stages + 1
    BY <1>a, <1>b, <1>1, MovesOnTrack
  <2> HIDE DEF e
  <2>2. e.stages <= Longest
    BY <1>a, <1>1, <2>1 DEF Longest
  <2>3. Reports(e, "partial")
    BY <2>1, <2>2 DEF Reports
  <2> QED
    BY <1>4, <2>3, ReturnPhases DEF e
<1> DEFINE s == Enter(core, "CANDIDATE_SELECTED")
           k == Enter(s, "CANONICAL_APPLYING")
<1>5. s \in Cores /\ OnTrack(s, {"CANDIDATE_SELECTED"}) /\ s.stages = core.stages + 1
  BY <1>a, <1>b, <1>1, MovesOnTrack
<1>6. k \in Cores /\ OnTrack(k, {"CANONICAL_APPLYING"}) /\ k.stages <= 7
  <2> HIDE DEF s
  <2>1. k \in Cores /\ OnTrack(k, {"CANONICAL_APPLYING"}) /\ k.stages = s.stages + 1
    BY <1>a, <1>b, <1>5, MovesOnTrack
  <2> HIDE DEF k
  <2> QED
    BY <1>a, <1>1, <1>5, <2>1
<1>7. CASE core' = k /\ Goto("clone")
  <2>1. Reached(core', "clone")
    BY <1>6, <1>7, PlaceFacts DEF Reached
  <2> QED
    BY <1>1, <1>7, <2>1, MovePhases DEF Goto
<1>8. CASE Return(Blocked(k), "blocked")
  <2> HIDE DEF k
  <2>1. Reports(Blocked(k), "blocked")
    BY <1>6, BlockedOnTrack DEF Reports
  <2> QED
    BY <1>8, <2>1, ReturnPhases
<1> QED
  BY <1>2, <1>3, <1>4, <1>7, <1>8 DEF Choose

\* The application, and what breaks it off.
LEMMA ApplyPhases ==
  ASSUME RepairAssumption, Types, PhasesFollow,
         \/ Clone \/ Gate \/ Verify \/ Index \/ Remember
         \/ \E f \in Files : Copy(f)
  PROVE  PhasesFollow'
<1>1. pc \in {"clone"} \cup Staged /\ pc # "idle"
  BY DEF Clone, Gate, Verify, Index, Remember, Copy, Staged
<1>2. /\ core \in Cores
      /\ call.kind = "maintain" => Reached(core, pc)
      /\ call.kind = "maintain" => \A l \in Staged : Reached(core, l)
  BY <1>1, AtPlace, PlaceFacts DEF Reached
<1>3. CASE UNCHANGED <<core, call, result>> /\ pc' \in Staged
  BY <1>1, <1>2, <1>3, MovePhases
<1>4. CASE Refuse
  BY <1>1, <1>4, RefusePhases
<1>5. CASE Remember
  <2>1. CASE call.kind = "maintain" /\ Return(Applied(core), "complete")
    <3> DEFINE e == Applied(core)
    <3>1. OnTrack(core, {"CANONICAL_APPLYING"}) /\ core.stages <= 7
      BY <1>1, <1>2, <2>1, PlaceFacts DEF Reached
    <3>2. OnTrack(e, {"COMPLETE"}) /\ e.stages = core.stages + 4
      BY <1>2, <3>1, LimitFacts, AppliedOnTrack
    <3>3. core.stages \in Nat
      BY <1>2 DEF Cores
    <3> HIDE DEF e
    <3>4. e.stages <= Longest
      BY <3>1, <3>2, <3>3 DEF Longest
    <3>5. Reports(e, "complete")
      BY <3>2, <3>4 DEF Reports
    <3> QED
      BY <2>1, <3>5, ReturnPhases DEF e
  <2>2. CASE Return(core, "applied")
    BY <2>2, ReturnPhases DEF Reports
  <2> QED
    BY <1>5, <2>1, <2>2 DEF Remember
<1> QED
  BY <1>3, <1>4, <1>5 DEF Clone, Gate, Verify, Index, Copy, Proceed, Staged

LEMMA RaisePhases ==
  ASSUME Types, PhasesFollow, Raise
  PROVE  PhasesFollow'
<1>1. CASE Return(core, "raised")
  BY <1>1, ReturnPhases DEF Reports
<1>2. CASE pc \in {"evaluate", "finalists"} /\ Block
  BY <1>2, AtPlace, BlockPhases DEF Staged
<1> QED
  BY <1>1, <1>2 DEF Raise

LEMMA PhasesHold == Spec => []PhasesFollow
<1>1. Init => PhasesFollow
  BY DEF Init, NoCall, NoResult, PhasesFollow
<1>2. Types /\ PhasesFollow /\ [Next]_vars => PhasesFollow'
  <2>1. SUFFICES ASSUME Types, PhasesFollow, [Next]_vars
                 PROVE  PhasesFollow'
    OBVIOUS
  <2>2. CASE UNCHANGED vars \/ \E f \in Files, t \in UserTexts : UserEdit(f, t)
    BY <2>1, <2>2 DEF vars, UserEdit, PhasesFollow, OnTrack
  <2> QED
    BY <2>1, <2>2, RepairAssumption, BeforeSearchPhases, SearchPhases, ChoosePhases, ApplyPhases,
       RaisePhases
    DEF Next, Step
<1> QED
  BY <1>1, <1>2, TypesHold, PTL DEF Spec

\* With stages for the longest execution, the status a call returns agrees with its phase.
THEOREM ResultsMatchPhases ==
  ASSUME MaxStages >= Longest
  PROVE  Spec => []ResultMatchesPhase
<1>1. Types /\ PhasesFollow => ResultMatchesPhase
  <2>1. SUFFICES ASSUME Types, PhasesFollow, result.status \in {"complete", "partial"}
                 PROVE  core.phase = "COMPLETE"
    BY DEF PhasesFollow, ResultMatchesPhase
  <2>2. OnTrack(core, {"COMPLETE"}) /\ core.stages <= Longest /\ core.stages \in Nat
    BY <2>1 DEF PhasesFollow, Types, TypeOK
  <2>3. ~(core.stages > MaxStages)
    BY <2>2, LimitFacts, RepairAssumption DEF Longest
  <2> QED
    BY <2>2, <2>3 DEF OnTrack
<1> QED
  BY <1>1, TypesHold, PhasesHold, PTL

-----------------------------------------------------------------------------
(* A call advances: it ends by itself.                                     *)

\* The candidate in a sandbox is still to be evaluated.
SandboxFromQueue == pc = "evaluate" /\ box # None => box.cand \in search.queue

\* The places of a call, the last one first.
Ahead ==
  CASE pc = "context" -> 15 [] pc = "localize" -> 14 [] pc = "problem" -> 13
    [] pc = "search" -> 12 [] pc = "hash" -> 11 [] pc = "generate" -> 10
    [] pc = "evaluate" -> 9 [] pc = "finalists" -> 8 [] pc = "choose" -> 7
    [] pc = "clone" -> 6 [] pc = "gate" -> 5 [] pc = "verify" -> 4 [] pc = "copy" -> 3
    [] pc = "index" -> 2 [] pc = "remember" -> 1 [] OTHER -> 0

\* At the same place: the candidates left to evaluate are fewer, or as many and one of them is
\* taken up; the same for the finalists left to verify; the files left to copy are fewer.
Strictly(S, T) == S \subseteq T /\ S # T

Nearer ==
  \/ pc = "evaluate" /\ Strictly(search'.queue, search.queue)
  \/ pc = "evaluate" /\ search' = search /\ box = None /\ box' # None
  \/ pc = "finalists" /\ Strictly(search.tried, search'.tried)
       /\ search'.tried \subseteq search.viable /\ search'.viable = search.viable
  \/ pc = "finalists" /\ search' = search /\ box = None /\ box' # None
  \/ pc = "copy" /\ Strictly(left', left)

Advances == Ahead' < Ahead \/ (pc' = pc /\ Nearer)

LEMMA SandboxStep ==
  ASSUME RepairAssumption, Types, SandboxFromQueue, [Next]_vars
  PROVE  SandboxFromQueue'
<1>1. CASE Generate
  BY <1>1 DEF Generate, Goto, Block, Return, Types, AtHand, SandboxFromQueue
<1>2. CASE OpenSandbox
  BY <1>2 DEF OpenSandbox, SandboxFromQueue
<1>3. CASE Evaluate \/ Rank
  BY <1>3 DEF Evaluate, Rank, SandboxFromQueue
<1>4. CASE UNCHANGED vars \/ Submit \/ Restart \/ \E f \in Files, t \in UserTexts : UserEdit(f, t)
  BY <1>4 DEF vars, Submit, Return, Restart, UserEdit, SandboxFromQueue
<1>5. CASE \/ Begin \/ Context \/ Localize \/ Accept \/ OpenSearch \/ Hash
           \/ OpenFinalist \/ VerifyFinalist \/ EndSearch
           \/ Choose \/ Clone \/ Gate \/ Verify \/ Index \/ Remember \/ Raise
           \/ \E f \in Files : Copy(f)
  <2>1. pc' # "evaluate"
    BY <1>5 DEF Begin, Context, Localize, Accept, OpenSearch, Hash, OpenFinalist, VerifyFinalist,
                EndSearch, Choose, Clone, Gate, Verify, Index, Remember, Raise, Copy, Goto, Block,
                Return, Refuse, Proceed
  <2> QED
    BY <2>1 DEF SandboxFromQueue
<1> QED
  BY <1>1, <1>2, <1>3, <1>4, <1>5 DEF Next, Step

LEMMA EvaluatedQueue ==
  ASSUME Types, Evaluate
  PROVE  search'.queue = search.queue \ {box.cand}
<1> DEFINE r == Reject(box.cand)
<1>1. r \in Searches /\ r.queue = search.queue \ {box.cand}
  BY SandboxFacts DEF Reject, Searches
<1>2. \/ search' = r
      \/ search' = [r EXCEPT !.gates = @ + 1]
      \/ search' = [r EXCEPT !.gates = @ + 1, !.valid = @ + 1,
                      !.viable = IF search.valid < MaxValid THEN @ \cup {box.cand} ELSE @]
  BY Zenon DEF Evaluate
<1> HIDE DEF r
<1> QED
  BY <1>1, <1>2 DEF Searches

\* A step of a call goes on to a later place of it, or nearer to the end of the loop it is in.
LEMMA StepAdvances ==
  ASSUME RepairAssumption, None \notin Boxes, Types, SandboxFromQueue, Step \/ Raise
  PROVE  Advances
<1>1. CASE pc # "idle" /\ pc' = "idle"
  <2>1. Ahead' = 0 /\ Ahead > 0
    BY <1>1 DEF Ahead, Types, TypeOK
  <2> QED
    BY <2>1 DEF Advances
<1>2. CASE Context \/ Localize \/ Accept \/ OpenSearch \/ Hash \/ Generate
  <2>1. \/ pc' = "idle" /\ pc # "idle"
        \/ pc = "context" /\ pc' \in {"localize", "problem"}
        \/ pc = "localize" /\ pc' = "problem"
        \/ pc = "problem" /\ pc' = "search"
        \/ pc = "search" /\ pc' = "hash"
        \/ pc = "hash" /\ pc' = "generate"
        \/ pc = "generate" /\ pc' = "evaluate"
    BY <1>2 DEF Context, Localize, Accept, OpenSearch, Hash, Generate, Goto, Block, Return
  <2> QED
    BY <1>1, <2>1 DEF Advances, Ahead
<1>3. CASE Rank \/ EndSearch \/ Choose
  <2>1. \/ pc' = "idle" /\ pc # "idle"
        \/ pc = "evaluate" /\ pc' = "finalists"
        \/ pc = "finalists" /\ pc' = "choose"
        \/ pc = "choose" /\ pc' = "clone"
    BY <1>3 DEF Rank, EndSearch, Choose, Goto, Block, Return
  <2> QED
    BY <1>1, <2>1 DEF Advances, Ahead
<1>4. CASE Clone \/ Gate \/ Verify \/ Index \/ Remember \/ Raise
  <2>1. \/ pc' = "idle" /\ pc # "idle"
        \/ pc = "clone" /\ pc' = "gate"
        \/ pc = "gate" /\ pc' = "verify"
        \/ pc = "verify" /\ pc' = "copy"
        \/ pc = "index" /\ pc' = "remember"
    BY <1>4 DEF Clone, Gate, Verify, Index, Remember, Raise, Proceed, Refuse, Block, Return
  <2> QED
    BY <1>1, <2>1 DEF Advances, Ahead
<1>5. CASE OpenSandbox
  <2>1. PICK c \in search.queue :
          \/ search' = Reject(c)
          \/ box' = [cand |-> c, tree |-> project] /\ UNCHANGED search
    BY <1>5 DEF OpenSandbox
  <2>2. Reject(c) \in Searches /\ Reject(c).queue = search.queue \ {c}
    BY SandboxFacts DEF Reject, Searches
  <2>3. [cand |-> c, tree |-> project] \in Boxes
    BY <2>1, SandboxFacts DEF Boxes
  <2>4. CASE search' = Reject(c)
    BY <1>5, <2>1, <2>2, <2>4 DEF OpenSandbox, Advances, Nearer, Strictly
  <2>5. CASE box' = [cand |-> c, tree |-> project] /\ UNCHANGED search
    BY <1>5, <2>3, <2>5 DEF OpenSandbox, Advances, Nearer
  <2> QED
    BY <2>1, <2>4, <2>5
<1>6. CASE Evaluate
  <2>1. search'.queue = search.queue \ {box.cand}
    BY <1>6, EvaluatedQueue
  <2>2. box.cand \in search.queue /\ pc = "evaluate" /\ pc' = pc
    BY <1>6 DEF Evaluate, SandboxFromQueue
  <2> QED
    BY <2>1, <2>2 DEF Advances, Nearer, Strictly
<1>7. CASE OpenFinalist
  <2>1. PICK c \in IF search.tried = {} THEN {search.best} ELSE search.viable \ search.tried :
          box' = [cand |-> c, tree |-> project]
    BY <1>7 DEF OpenFinalist
  <2>2. c \in search.viable \ search.tried
    BY <1>7, <2>1, NextFinalist DEF OpenFinalist
  <2>3. box' \in Boxes
    BY <2>1, <2>2, SandboxFacts DEF Boxes
  <2> QED
    BY <1>7, <2>3 DEF OpenFinalist, Advances, Nearer
<1>8. CASE VerifyFinalist
  <2>1. search'.tried = search.tried \cup {box.cand} /\ search'.viable = search.viable
    BY <1>8, VerifyFinalistTypes
  <2>2. /\ box.cand \in search.viable \ search.tried /\ search.tried \subseteq search.viable
        /\ pc = "finalists" /\ pc' = pc
    BY <1>8 DEF VerifyFinalist, Types, TriedInOrder
  <2> QED
    BY <2>1, <2>2 DEF Advances, Nearer, Strictly
<1>9. ASSUME NEW f \in Files, Copy(f)
      PROVE  Advances
  <2>1. pc = "copy" /\ pc' \in {"index", "copy"} /\ f \in left /\ left' = left \ {f}
    BY <1>9 DEF Copy, Proceed
  <2>2. CASE pc' = "index"
    BY <2>1, <2>2 DEF Advances, Ahead
  <2>3. CASE pc' = "copy"
    BY <2>1, <2>3 DEF Advances, Nearer, Strictly
  <2> QED
    BY <2>1, <2>2, <2>3
<1> QED
  BY <1>2, <1>3, <1>4, <1>5, <1>6, <1>7, <1>8, <1>9 DEF Step

\* Every step of a call, also one that raises, goes on to a later place of the call or
\* leaves fewer candidates, finalists or files to the loop it is in, and what the user
\* writes meanwhile moves neither: with finitely many files and candidates no call runs for
\* ever (maintain, submit_patch_candidate, search_repair_candidates, _copy_changed_files).
THEOREM CallsAdvance ==
  ASSUME None \notin Boxes
  PROVE  Spec => [][/\ Step \/ Raise => Advances
                    /\ ~(Step \/ Raise) /\ pc # "idle" => UNCHANGED <<pc, search, box, left>>]_vars
<1>1. Init => SandboxFromQueue
  BY DEF Init, SandboxFromQueue
<1>2. Types /\ SandboxFromQueue /\ [Next]_vars => SandboxFromQueue'
  BY SandboxStep, RepairAssumption
<1>3. Types /\ SandboxFromQueue /\ (Step \/ Raise) => Advances
  BY StepAdvances, RepairAssumption
<1>4. ASSUME Next, ~(Step \/ Raise), pc # "idle"
      PROVE  UNCHANGED <<pc, search, box, left>>
  BY <1>4 DEF Next, Begin, Submit, Restart, UserEdit
<1> QED
  BY <1>1, <1>2, <1>3, <1>4, TypesHold, PTL DEF Spec
=============================================================================
