--------------------------- MODULE TaskTreeProofs ---------------------------
(***************************************************************************)
(* Proofs about TaskTree, for every value of its limits: first its types   *)
(* and bounds; then the order in which it calls its tasks and what it says *)
(* of them; last that its node counters are those of its ledger.           *)
(***************************************************************************)
EXTENDS TaskTree, FiniteSetTheorems, TLAPS

Stage(t) == frames[t].stage

Active(t) == Stage(t) \in {"fit", "decompose", "leaf", "children", "integrate"}

Loops(t) == Stage(t) \in {"children", "integrate"}

\* A loop is over tasks that exist.
BatchesAreTasks ==
  \A t \in Tasks : frames[t].first >= 1 /\ frames[t].last <= tasksCreated

\* The depth argument of a call is the depth of its task, but one less for an
\* integration task, and only a call below the limit creates tasks.
DepthOfCalls ==
  \A t \in Tasks :
    /\ Active(t) => tasks[t].depth = IF tasks[t].kind = "integration" THEN frames[t].at + 1
                                                                     ELSE frames[t].at
    /\ Stage(t) = "decompose" \/ Loops(t) => frames[t].at < MaxDepth
    /\ Stage(t) = "integrate" => tasks[t].kind = "implementation"
    /\ Loops(t) => \A c \in Batch(t) :
         /\ tasks[c].depth = tasks[t].depth + 1
         /\ tasks[c].kind = IF Stage(t) = "integrate" THEN "integration" ELSE tasks[t].kind

TreeInvariant == TypeOK /\ BatchesAreTasks /\ DepthOfCalls /\ TreeBounded
-----------------------------------------------------------------------------
(* Types.                                                                  *)

\* A record of a task is one after its status or its alternatives changed.
LEMMA TaskRecordChanges ==
  ASSUME NEW ts, NEW r \in TaskRecords(ts)
  PROVE  /\ \A s \in Statuses : [r EXCEPT !.status = s] \in TaskRecords(ts)
         /\ \A a \in 0 .. MaxAlternatives : [r EXCEPT !.alternatives = a] \in TaskRecords(ts)
BY DEF TaskRecords

\* A record of a task is one over more tasks.
LEMMA TaskRecordGrows ==
  ASSUME NEW ts, NEW us, ts \subseteq us, NEW r \in TaskRecords(ts)
  PROVE  r \in TaskRecords(us)
BY DEF TaskRecords

\* A call is one after its stage and result, or its position, changed.
LEMMA CallRecordChanges ==
  ASSUME NEW r \in CallRecords
  PROVE  /\ \A x \in Results : [r EXCEPT !.stage = "returned", !.result = x] \in CallRecords
         /\ \A s \in {"decompose", "leaf"} : [r EXCEPT !.stage = s] \in CallRecords
         /\ [r EXCEPT !.next = @ + 1] \in CallRecords
<1>1. ASSUME NEW x \in Results
      PROVE  [r EXCEPT !.stage = "returned", !.result = x] \in CallRecords
  BY DEF CallRecords
<1>2. ASSUME NEW s \in {"decompose", "leaf"}
      PROVE  [r EXCEPT !.stage = s] \in CallRecords
  BY DEF CallRecords
<1>3. [r EXCEPT !.next = @ + 1] \in CallRecords
  BY DEF CallRecords
<1> QED
  BY <1>1, <1>2, <1>3

\* The calls after a return are calls.
LEMMA ReturnedType ==
  ASSUME NEW ts, NEW calls \in [ts -> CallRecords], NEW t, NEW r \in Results
  PROVE  Returned(calls, t, r) \in [ts -> CallRecords]
<1> DEFINE new(i) == IF i = t THEN [calls[i] EXCEPT !.stage = "returned", !.result = r]
                     ELSE IF i = tasks[t].parent THEN [calls[i] EXCEPT !.next = @ + 1]
                     ELSE calls[i]
<1>1. ASSUME NEW i \in ts
      PROVE  new(i) \in CallRecords
  <2>1. /\ [calls[i] EXCEPT !.stage = "returned", !.result = r] \in CallRecords
        /\ [calls[i] EXCEPT !.next = @ + 1] \in CallRecords
    BY CallRecordChanges, Zenon
  <2> QED
    BY <2>1
<1>2. Returned(calls, t, r) = [i \in ts |-> new(i)]
  BY DEF Returned
<1> HIDE DEF new
<1> QED
  BY <1>1, <1>2

\* A ledger that grew is a ledger.
LEMMA GrowType ==
  ASSUME TypeOK, NEW n \in Nat,
         NEW ledger \in [Tasks -> TaskRecords(Tasks)],
         NEW t \in Tasks, NEW kind \in Kinds, NEW accepted \in BOOLEAN,
         NEW d \in [tasksCreated + 1 .. tasksCreated + n
                     -> SUBSET (tasksCreated + 1 .. tasksCreated + n)]
  PROVE  Grow(ledger, t, n, kind, d, accepted)
           \in [1 .. tasksCreated + n -> TaskRecords(1 .. tasksCreated + n)]
<1> DEFINE ts == 1 .. tasksCreated + n
<1>0. tasksCreated \in Nat /\ Tasks \subseteq ts /\ t \in Nat
  BY DEF TypeOK, Tasks
<1>1. ASSUME NEW c \in Tasks
      PROVE  ledger[c] \in TaskRecords(ts)
  <2>1. ledger[c] \in TaskRecords(Tasks)
    OBVIOUS
  <2> QED
    BY <2>1, <1>0, TaskRecordGrows
<1>2. ASSUME NEW c \in ts, c \notin Tasks
      PROVE  MakeTask(t, tasks[t].depth + 1, kind, d[c], accepted, ledger[t].alternatives)
               \in TaskRecords(ts)
  <2>1. c \in tasksCreated + 1 .. tasksCreated + n
    BY <1>0, <1>2 DEF Tasks
  <2>2. d[c] \in SUBSET ts
    BY <2>1, <1>0
  <2>3. tasks[t] \in TaskRecords(Tasks) /\ ledger[t] \in TaskRecords(Tasks)
    BY DEF TypeOK
  <2>4. tasks[t].depth + 1 \in Nat /\ ledger[t].alternatives \in 0 .. MaxAlternatives
    BY <2>3 DEF TaskRecords
  <2> QED
    BY <2>2, <2>4, <1>0, LimitsAssumption DEF MakeTask, TaskRecords, Statuses
<1> QED
  BY <1>1, <1>2 DEF Grow

\* So do the calls.
LEMMA GrowCallsType ==
  ASSUME TypeOK, NEW n \in Nat
  PROVE  GrowCalls(n) \in [1 .. tasksCreated + n -> CallRecords]
<1>1. NoCall \in CallRecords
  BY LimitsAssumption DEF NoCall, CallRecords, Results
<1> QED
  BY <1>1 DEF GrowCalls, TypeOK

\* A call that began is a call.
LEMMA CallType ==
  ASSUME NEW at \in 0 .. MaxDepth, NEW fit \in {"direct", "required", "ambiguous"}
  PROVE  Call(at, fit) \in CallRecords
BY LimitsAssumption DEF Call, NoCall, CallRecords, Results

\* The limit says that there is something to go down to.
LEMMA CanExpandBelow ==
  ASSUME TypeOK, NEW t \in Tasks, CanExpand(frames[t].at)
  PROVE  frames[t].at + 1 \in 0 .. MaxDepth /\ tasksCreated + 2 <= MaxTotalTasks
<1>1. frames[t] \in CallRecords
  BY DEF TypeOK
<1>2. frames[t].at \in 0 .. MaxDepth
  BY <1>1 DEF CallRecords
<1> QED
  BY <1>2, LimitsAssumption DEF CanExpand

\* Marking a task keeps the types of the ledger and of the counters.
LEMMA MarkType ==
  ASSUME TypeOK, NEW ts, NEW t \in ts, NEW ledger \in [ts -> TaskRecords(ts)],
         NEW status \in Statuses, Mark(ledger, t, status)
  PROVE  /\ tasks' \in [ts -> TaskRecords(ts)]
         /\ counted' \in [verified : Nat, failed : Nat, root : BOOLEAN]
<1>1. [ledger[t] EXCEPT !.status = status] \in TaskRecords(ts)
  BY TaskRecordChanges
<1>2. tasks' = [ledger EXCEPT ![t].status = status]
  BY DEF Mark
<1>3. tasks' \in [ts -> TaskRecords(ts)]
  BY <1>1, <1>2
<1>4. counted.verified \in Nat /\ counted.failed \in Nat /\ counted.root \in BOOLEAN
  BY DEF TypeOK
<1>5. (IF status = "done" THEN 1 ELSE 0) \in Nat /\ (IF status = "done" THEN 0 ELSE 1) \in Nat
  OBVIOUS
<1>6. (counted.root \/ (t = Root /\ status = "done")) \in BOOLEAN
  OBVIOUS
<1>7. /\ counted.verified + (IF status = "done" THEN 1 ELSE 0) \in Nat
      /\ counted.failed + (IF status = "done" THEN 0 ELSE 1) \in Nat
  BY <1>4, <1>5
<1>8. counted' \in [verified : Nat, failed : Nat, root : BOOLEAN]
  BY <1>6, <1>7 DEF Mark
<1> QED
  BY <1>3, <1>8

\* A loop over new tasks begins with calls.
LEMMA RunsType ==
  ASSUME TypeOK, NEW t \in Tasks, NEW n \in Nat, NEW stage \in {"children", "integrate"},
         Runs(t, n, stage)
  PROVE  /\ tasksCreated' = tasksCreated + n /\ tasksCreated' \in Nat \ {0}
         /\ Tasks' = 1 .. tasksCreated + n /\ Tasks \subseteq Tasks'
         /\ frames' \in [Tasks' -> CallRecords]
<1>1. tasksCreated \in Nat \ {0} /\ tasksCreated' = tasksCreated + n
  BY DEF TypeOK, Runs
<1>2. tasksCreated' \in Nat \ {0} /\ Tasks' = 1 .. tasksCreated + n /\ Tasks \subseteq Tasks'
  BY <1>1 DEF Tasks
<1>3. GrowCalls(n) \in [Tasks' -> CallRecords]
  BY <1>2, GrowCallsType
<1>4. GrowCalls(n)[t] \in CallRecords
  BY <1>2, <1>3
<1> DEFINE calls == GrowCalls(n)
           a == [calls EXCEPT ![t].stage = stage]
           b == [a EXCEPT ![t].first = tasksCreated + 1]
           c == [b EXCEPT ![t].last = tasksCreated + n]
           d == [c EXCEPT ![t].next = tasksCreated + 1]
<1>5. /\ \A r \in CallRecords : [r EXCEPT !.stage = stage] \in CallRecords
      /\ \A r \in CallRecords, i \in Nat :
           /\ [r EXCEPT !.first = i] \in CallRecords
           /\ [r EXCEPT !.last = i] \in CallRecords
           /\ [r EXCEPT !.next = i] \in CallRecords
  BY DEF CallRecords
<1>6. tasksCreated + 1 \in Nat /\ tasksCreated + n \in Nat
  BY <1>1
<1>7. t \in Tasks'
  BY <1>2
<1>8. frames' = d
  BY DEF Runs
<1> HIDE DEF calls
<1>9. calls \in [Tasks' -> CallRecords]
  BY <1>3 DEF calls
<1>10. a \in [Tasks' -> CallRecords]
  BY <1>5, <1>7, <1>9
<1> HIDE DEF a
<1>11. b \in [Tasks' -> CallRecords]
  BY <1>5, <1>6, <1>7, <1>10
<1> HIDE DEF b
<1>12. c \in [Tasks' -> CallRecords]
  BY <1>5, <1>6, <1>7, <1>11
<1> HIDE DEF c
<1>13. d \in [Tasks' -> CallRecords]
  BY <1>5, <1>6, <1>7, <1>12
<1> QED
  BY <1>1, <1>2, <1>8, <1>13

\* What a return leaves of the calls.
LEMMA ReturnedFields ==
  ASSUME NEW ts, NEW calls \in [ts -> CallRecords], NEW t, NEW r \in Results, NEW i \in ts
  PROVE  /\ Returned(calls, t, r)[i].first = calls[i].first
         /\ Returned(calls, t, r)[i].last = calls[i].last
         /\ Returned(calls, t, r)[i].at = calls[i].at
         /\ i # t => Returned(calls, t, r)[i].stage = calls[i].stage
         /\ i = t => Returned(calls, t, r)[i].stage = "returned"
<1>1. Returned(calls, t, r)[i] =
        IF i = t THEN [calls[i] EXCEPT !.stage = "returned", !.result = r]
        ELSE IF i = tasks[t].parent THEN [calls[i] EXCEPT !.next = @ + 1]
        ELSE calls[i]
  BY DEF Returned
<1>2. calls[i] \in CallRecords
  OBVIOUS
<1>3. CASE i = t
  <2>1. Returned(calls, t, r)[i] = [calls[i] EXCEPT !.stage = "returned", !.result = r]
    BY <1>1, <1>3
  <2> QED
    BY <1>2, <1>3, <2>1 DEF CallRecords
<1>4. CASE i # t /\ i = tasks[t].parent
  <2>1. Returned(calls, t, r)[i] = [calls[i] EXCEPT !.next = @ + 1]
    BY <1>1, <1>4
  <2> QED
    BY <1>2, <1>4, <2>1 DEF CallRecords
<1>5. CASE i # t /\ i # tasks[t].parent
  <2>1. Returned(calls, t, r)[i] = calls[i]
    BY <1>1, <1>5
  <2> QED
    BY <1>5, <2>1
<1> QED
  BY <1>3, <1>4, <1>5

\* What the growth of the tree leaves of the ledger and of the calls.
LEMMA GrownFields ==
  ASSUME TypeOK, NEW n \in Nat, NEW ledger, NEW t, NEW kind, NEW d, NEW accepted,
         NEW c \in 1 .. tasksCreated + n
  PROVE  /\ c \in Tasks => /\ Grow(ledger, t, n, kind, d, accepted)[c] = ledger[c]
                           /\ GrowCalls(n)[c] = frames[c]
         /\ c \notin Tasks =>
              /\ Grow(ledger, t, n, kind, d, accepted)[c].parent = t
              /\ Grow(ledger, t, n, kind, d, accepted)[c].depth = tasks[t].depth + 1
              /\ Grow(ledger, t, n, kind, d, accepted)[c].kind = kind
              /\ GrowCalls(n)[c] = NoCall
BY DEF Grow, GrowCalls, MakeTask

\* The fields of a loop over new tasks.
LEMMA RunsFields ==
  ASSUME TypeOK, NEW t \in Tasks, NEW n \in Nat, NEW stage \in {"children", "integrate"},
         Runs(t, n, stage), NEW c \in Tasks'
  PROVE  /\ c = t => /\ frames'[c].stage = stage /\ frames'[c].at = frames[t].at
                     /\ frames'[c].first = tasksCreated + 1
                     /\ frames'[c].last = tasksCreated + n
         /\ c # t /\ c \in Tasks => frames'[c] = frames[c]
         /\ c \notin Tasks => frames'[c] = NoCall
<1>1. Tasks' = 1 .. tasksCreated + n /\ Tasks \subseteq Tasks'
  BY RunsType
<1>2. GrowCalls(n) \in [Tasks' -> CallRecords]
  BY <1>1, GrowCallsType
<1>3. frames' = [GrowCalls(n) EXCEPT ![t] =
                   [[[[@ EXCEPT !.stage = stage] EXCEPT !.first = tasksCreated + 1]
                      EXCEPT !.last = tasksCreated + n] EXCEPT !.next = tasksCreated + 1]]
  BY <1>1, <1>2 DEF Runs
<1>4. c # t => frames'[c] = GrowCalls(n)[c]
  BY <1>1, <1>2, <1>3
<1>5. GrowCalls(n)[c] = IF c \in Tasks THEN frames[c] ELSE NoCall
  BY <1>1 DEF GrowCalls
<1>6. CASE c = t
  <2>1. frames[t] \in CallRecords /\ GrowCalls(n)[t] = frames[t]
    BY <1>5, <1>6 DEF TypeOK
  <2>2. frames'[t] = [[[[frames[t] EXCEPT !.stage = stage] EXCEPT !.first = tasksCreated + 1]
                       EXCEPT !.last = tasksCreated + n] EXCEPT !.next = tasksCreated + 1]
    BY <1>1, <1>2, <1>3, <2>1
  <2> QED
    BY <1>6, <2>1, <2>2 DEF CallRecords
<1> QED
  BY <1>4, <1>5, <1>6
-----------------------------------------------------------------------------
(* What each kind of step does to the invariant: a call returns, a loop    *)
(* over new tasks begins, a call begins or goes on.                        *)

\* The depth and the kind of a task never change, and new tasks are one deeper
\* than the task t that creates them.
FixedUnder(t) ==
  /\ \A c \in Tasks : tasks'[c].depth = tasks[c].depth /\ tasks'[c].kind = tasks[c].kind
  /\ \A c \in Tasks' : c \notin Tasks => tasks'[c].depth = tasks[t].depth + 1

\* A step that creates tasks has the depth and the budget for them.
HasRoom(t) ==
  tasksCreated' # tasksCreated =>
    /\ tasks[t].depth <= MaxDepth
    /\ tasksCreated' <= MaxTotalTasks + MaxChildren - 2

\* The batch of a loop is in the ledger.
LEMMA BatchIsTasks ==
  ASSUME TypeOK, BatchesAreTasks, NEW t \in Tasks
  PROVE  /\ Batch(t) \subseteq Tasks
         /\ frames[t].first \in Nat /\ frames[t].last \in Nat
         /\ frames[t].first >= 1 /\ frames[t].last <= tasksCreated
<1>1. frames[t] \in CallRecords /\ tasksCreated \in Nat
  BY DEF TypeOK
<1>2. frames[t].first \in Nat /\ frames[t].last \in Nat
  BY <1>1 DEF CallRecords
<1>3. frames[t].first >= 1 /\ frames[t].last <= tasksCreated
  BY DEF BatchesAreTasks
<1> QED
  BY <1>1, <1>2, <1>3 DEF Batch, Tasks

\* The limits hold after a step that has the room for the tasks it creates.
LEMMA BoundKept ==
  ASSUME TreeInvariant, NEW t \in Tasks, NEW n \in Nat, tasksCreated' = tasksCreated + n,
         FixedUnder(t), HasRoom(t)
  PROVE  TreeBounded'
<1>1. tasksCreated \in Nat /\ tasksCreated' \in Nat
  BY DEF TreeInvariant, TypeOK
<1>2. tasksCreated' <= MaxTotalTasks + MaxChildren - 2
  BY <1>1 DEF TreeInvariant, TreeBounded, HasRoom
<1>3. ASSUME NEW c \in Tasks'
      PROVE  tasks'[c].depth <= MaxDepth + 1
  <2>1. CASE c \in Tasks
    BY <2>1 DEF TreeInvariant, TreeBounded, FixedUnder
  <2>2. CASE c \notin Tasks
    <3>1. tasksCreated' # tasksCreated
      BY <1>1, <2>2 DEF Tasks
    <3>2. tasks[t] \in TaskRecords(Tasks)
      BY DEF TreeInvariant, TypeOK
    <3>3. tasks[t].depth \in Nat
      BY <3>2 DEF TaskRecords
    <3> QED
      BY <2>2, <3>1, <3>3, LimitsAssumption DEF FixedUnder, HasRoom
  <2> QED
    BY <2>1, <2>2
<1> QED
  BY <1>2, <1>3 DEF TreeBounded

\* A call for t returned.
LEMMA AfterReturn ==
  ASSUME TreeInvariant, NEW t \in Tasks, NEW n \in Nat, NEW r \in Results,
         tasksCreated' = tasksCreated + n, frames' = Returned(GrowCalls(n), t, r),
         tasks' \in [Tasks' -> TaskRecords(Tasks')],
         counted' \in [verified : Nat, failed : Nat, root : BOOLEAN],
         current' \in Tasks \cup {NoTask},
         FixedUnder(t), HasRoom(t)
  PROVE  TreeInvariant'
<1>1. /\ tasksCreated \in Nat \ {0} /\ tasksCreated' \in Nat \ {0}
      /\ Tasks' = 1 .. tasksCreated + n /\ Tasks \subseteq Tasks'
  BY DEF TreeInvariant, TypeOK, Tasks
<1>2. GrowCalls(n) \in [Tasks' -> CallRecords]
  BY <1>1, GrowCallsType DEF TreeInvariant
<1>3. TypeOK'
  <2>1. frames' \in [Tasks' -> CallRecords]
    BY <1>2, ReturnedType
  <2> QED
    BY <1>1, <2>1 DEF TypeOK
<1>4. ASSUME NEW c \in Tasks'
      PROVE  /\ c \in Tasks => /\ frames'[c].first = frames[c].first
                               /\ frames'[c].last = frames[c].last
                               /\ frames'[c].at = frames[c].at
                               /\ c # t => frames'[c].stage = frames[c].stage
             /\ c \notin Tasks => /\ frames'[c].first = 1 /\ frames'[c].last = 0
                                  /\ frames'[c].stage = "none"
             /\ c = t => frames'[c].stage = "returned"
  <2>1. /\ c \in Tasks => GrowCalls(n)[c] = frames[c]
        /\ c \notin Tasks => GrowCalls(n)[c] = NoCall
    BY <1>1 DEF GrowCalls
  <2>2. /\ frames'[c].first = GrowCalls(n)[c].first
        /\ frames'[c].last = GrowCalls(n)[c].last
        /\ frames'[c].at = GrowCalls(n)[c].at
        /\ c # t => frames'[c].stage = GrowCalls(n)[c].stage
        /\ c = t => frames'[c].stage = "returned"
    BY <1>2, ReturnedFields
  <2> QED
    BY <2>1, <2>2 DEF NoCall
<1>5. BatchesAreTasks'
  <2>1. ASSUME NEW c \in Tasks'
        PROVE  frames'[c].first >= 1 /\ frames'[c].last <= tasksCreated'
    <3>1. CASE c \in Tasks
      <4>1. /\ frames[c].first \in Nat /\ frames[c].last \in Nat
            /\ frames[c].first >= 1 /\ frames[c].last <= tasksCreated
        BY <3>1, BatchIsTasks DEF TreeInvariant
      <4> QED
        BY <1>1, <1>4, <3>1, <4>1
    <3>2. CASE c \notin Tasks
      BY <1>1, <1>4, <3>2
    <3> QED
      BY <3>1, <3>2
  <2> QED
    BY <2>1 DEF BatchesAreTasks
<1>6. DepthOfCalls'
  <2> SUFFICES ASSUME NEW c \in Tasks'
               PROVE  /\ Active(c)' => tasks'[c].depth = IF tasks'[c].kind = "integration"
                                                           THEN frames'[c].at + 1
                                                           ELSE frames'[c].at
                      /\ Stage(c)' = "decompose" \/ Loops(c)' => frames'[c].at < MaxDepth
                      /\ Stage(c)' = "integrate" => tasks'[c].kind = "implementation"
                      /\ Loops(c)' => \A e \in Batch(c)' :
                           /\ tasks'[e].depth = tasks'[c].depth + 1
                           /\ tasks'[e].kind = IF Stage(c)' = "integrate" THEN "integration"
                                                                         ELSE tasks'[c].kind
    BY DEF DepthOfCalls
  <2>1. CASE c \notin Tasks \/ c = t
    BY <1>4, <2>1 DEF Active, Loops, Stage
  <2>2. CASE c \in Tasks /\ c # t
    <3>1. /\ Stage(c)' = Stage(c) /\ frames'[c].at = frames[c].at
          /\ Batch(c)' = Batch(c)
      BY <1>4, <2>2 DEF Stage, Batch
    <3>2. Batch(c) \subseteq Tasks
      BY <2>2, BatchIsTasks DEF TreeInvariant
    <3> QED
      BY <2>2, <3>1, <3>2 DEF TreeInvariant, DepthOfCalls, FixedUnder, Active, Loops
  <2> QED
    BY <2>1, <2>2
<1> QED
  BY <1>3, <1>5, <1>6, BoundKept DEF TreeInvariant

\* A loop over the new tasks of t began.
LEMMA AfterRuns ==
  ASSUME TreeInvariant, NEW t \in Tasks, NEW n \in Nat, NEW stage \in {"children", "integrate"},
         Runs(t, n, stage), Active(t), frames[t].at < MaxDepth,
         tasks' \in [Tasks' -> TaskRecords(Tasks')],
         UNCHANGED <<current, counted>>,
         FixedUnder(t), HasRoom(t),
         stage = "integrate" => tasks[t].kind = "implementation",
         \A c \in Tasks' : c \notin Tasks =>
           tasks'[c].kind = IF stage = "integrate" THEN "integration" ELSE tasks[t].kind
  PROVE  TreeInvariant'
<1>1. /\ tasksCreated' = tasksCreated + n /\ tasksCreated' \in Nat \ {0}
      /\ tasksCreated \in Nat \ {0}
      /\ Tasks' = 1 .. tasksCreated + n /\ Tasks \subseteq Tasks'
      /\ frames' \in [Tasks' -> CallRecords]
  BY RunsType DEF TreeInvariant, TypeOK
<1>2. TypeOK'
  BY <1>1 DEF TypeOK, TreeInvariant
<1>3. ASSUME NEW c \in Tasks'
      PROVE  /\ c = t => /\ frames'[c].stage = stage /\ frames'[c].at = frames[t].at
                         /\ frames'[c].first = tasksCreated + 1
                         /\ frames'[c].last = tasksCreated + n
             /\ c # t /\ c \in Tasks => frames'[c] = frames[c]
             /\ c \notin Tasks => frames'[c] = NoCall
  BY RunsFields DEF TreeInvariant
<1>4. BatchesAreTasks'
  <2>1. ASSUME NEW c \in Tasks'
        PROVE  frames'[c].first >= 1 /\ frames'[c].last <= tasksCreated'
    <3>1. CASE c = t
      BY <1>1, <1>3, <3>1
    <3>2. CASE c # t /\ c \in Tasks
      <4>1. /\ frames[c].first \in Nat /\ frames[c].last \in Nat
            /\ frames[c].first >= 1 /\ frames[c].last <= tasksCreated
        BY <3>2, BatchIsTasks DEF TreeInvariant
      <4> QED
        BY <1>1, <1>3, <3>2, <4>1
    <3>3. CASE c \notin Tasks
      BY <1>1, <1>3, <3>3 DEF NoCall
    <3> QED
      BY <3>1, <3>2, <3>3
  <2> QED
    BY <2>1 DEF BatchesAreTasks
<1>5. DepthOfCalls'
  <2> SUFFICES ASSUME NEW c \in Tasks'
               PROVE  /\ Active(c)' => tasks'[c].depth = IF tasks'[c].kind = "integration"
                                                           THEN frames'[c].at + 1
                                                           ELSE frames'[c].at
                      /\ Stage(c)' = "decompose" \/ Loops(c)' => frames'[c].at < MaxDepth
                      /\ Stage(c)' = "integrate" => tasks'[c].kind = "implementation"
                      /\ Loops(c)' => \A e \in Batch(c)' :
                           /\ tasks'[e].depth = tasks'[c].depth + 1
                           /\ tasks'[e].kind = IF Stage(c)' = "integrate" THEN "integration"
                                                                         ELSE tasks'[c].kind
    BY DEF DepthOfCalls
  <2>1. CASE c \notin Tasks
    BY <1>3, <2>1 DEF Active, Loops, Stage, NoCall
  <2>2. CASE c \in Tasks /\ c # t
    <3>1. Stage(c)' = Stage(c) /\ frames'[c].at = frames[c].at /\ Batch(c)' = Batch(c)
      BY <1>3, <2>2 DEF Stage, Batch
    <3>2. Batch(c) \subseteq Tasks
      BY <2>2, BatchIsTasks DEF TreeInvariant
    <3> QED
      BY <2>2, <3>1, <3>2 DEF TreeInvariant, DepthOfCalls, FixedUnder, Active, Loops
  <2>3. CASE c = t
    <3>1. Stage(t)' = stage /\ frames'[t].at = frames[t].at
      BY <1>3, <2>3 DEF Stage
    <3>2. \A e \in Batch(t)' : e \in Tasks' /\ e \notin Tasks
      BY <1>1, <1>3, <2>3 DEF Batch, Tasks
    <3>3. tasks'[t].depth = tasks[t].depth /\ tasks'[t].kind = tasks[t].kind
      BY DEF FixedUnder
    <3> QED
      BY <2>3, <3>1, <3>2, <3>3 DEF TreeInvariant, DepthOfCalls, FixedUnder
  <2> QED
    BY <2>1, <2>2, <2>3
<1> QED
  BY <1>1, <1>2, <1>4, <1>5, BoundKept DEF TreeInvariant

\* The call for t began or went on, and created no task.
LEMMA AfterCall ==
  ASSUME TreeInvariant, NEW t \in Tasks, NEW call \in CallRecords,
         frames' = [frames EXCEPT ![t] = call], UNCHANGED tasksCreated,
         tasks' \in [Tasks -> TaskRecords(Tasks)],
         current' \in Tasks \cup {NoTask}, UNCHANGED counted,
         FixedUnder(t),
         call.first >= 1 /\ call.last <= tasksCreated,
         call.stage \in {"fit", "decompose", "leaf"},
         call.stage = "decompose" => call.at < MaxDepth,
         tasks[t].depth = IF tasks[t].kind = "integration" THEN call.at + 1 ELSE call.at
  PROVE  TreeInvariant'
<1>1. Tasks' = Tasks
  BY DEF Tasks
<1>2. TypeOK'
  BY <1>1 DEF TypeOK, TreeInvariant
<1>3. ASSUME NEW c \in Tasks
      PROVE  frames'[c] = IF c = t THEN call ELSE frames[c]
  BY DEF TreeInvariant, TypeOK
<1>4. BatchesAreTasks'
  BY <1>1, <1>3 DEF BatchesAreTasks, TreeInvariant
<1>5. DepthOfCalls'
  <2> SUFFICES ASSUME NEW c \in Tasks
               PROVE  /\ Active(c)' => tasks'[c].depth = IF tasks'[c].kind = "integration"
                                                           THEN frames'[c].at + 1
                                                           ELSE frames'[c].at
                      /\ Stage(c)' = "decompose" \/ Loops(c)' => frames'[c].at < MaxDepth
                      /\ Stage(c)' = "integrate" => tasks'[c].kind = "implementation"
                      /\ Loops(c)' => \A e \in Batch(c)' :
                           /\ tasks'[e].depth = tasks'[c].depth + 1
                           /\ tasks'[e].kind = IF Stage(c)' = "integrate" THEN "integration"
                                                                         ELSE tasks'[c].kind
    BY <1>1 DEF DepthOfCalls
  <2>1. CASE c = t
    BY <1>3, <2>1 DEF Active, Loops, Stage, FixedUnder
  <2>2. CASE c # t
    <3>1. Stage(c)' = Stage(c) /\ frames'[c].at = frames[c].at /\ Batch(c)' = Batch(c)
      BY <1>3, <2>2 DEF Stage, Batch
    <3>2. Batch(c) \subseteq Tasks
      BY BatchIsTasks DEF TreeInvariant
    <3> QED
      BY <3>1, <3>2 DEF TreeInvariant, DepthOfCalls, FixedUnder, Active, Loops
  <2> QED
    BY <2>1, <2>2
<1>6. tasksCreated' = tasksCreated + 0 /\ HasRoom(t)
  BY DEF TreeInvariant, TypeOK, HasRoom
<1> QED
  BY <1>2, <1>4, <1>5, <1>6, BoundKept DEF TreeInvariant
-----------------------------------------------------------------------------
(* The actions.                                                            *)

\* A call that may create tasks is not below the depth limit.
LEMMA CallsHaveDepth ==
  ASSUME TreeInvariant, NEW t \in Tasks, Active(t), frames[t].at < MaxDepth
  PROVE  tasks[t].depth \in Nat /\ tasks[t].depth <= MaxDepth
<1>1. frames[t] \in CallRecords /\ tasks[t] \in TaskRecords(Tasks)
  BY DEF TreeInvariant, TypeOK
<1>2. frames[t].at \in Nat /\ tasks[t].depth \in Nat
  BY <1>1, LimitsAssumption DEF CallRecords, TaskRecords
<1>3. tasks[t].depth = frames[t].at \/ tasks[t].depth = frames[t].at + 1
  BY DEF TreeInvariant, DepthOfCalls
<1> QED
  BY <1>2, <1>3, LimitsAssumption

\* Marking a task changes no depth and no kind.
LEMMA MarkFields ==
  ASSUME NEW ts, NEW t, NEW status, NEW ledger \in [ts -> TaskRecords(ts)],
         Mark(ledger, t, status), NEW c \in ts
  PROVE  /\ tasks'[c].depth = ledger[c].depth /\ tasks'[c].kind = ledger[c].kind
         /\ tasks'[c].parent = ledger[c].parent
<1>1. tasks' = [ledger EXCEPT ![t].status = status]
  BY DEF Mark
<1>2. ledger[c] \in TaskRecords(ts)
  OBVIOUS
<1> QED
  BY <1>1, <1>2 DEF TaskRecords

\* The call for t returns, and its result is marked in the ledger.
LEMMA MarkedReturn ==
  ASSUME TreeInvariant, NEW t \in Tasks, NEW status \in {"done", "failed", "blocked", "too_broad"},
         NEW ledger \in [Tasks -> TaskRecords(Tasks)],
         \A c \in Tasks : ledger[c].depth = tasks[c].depth /\ ledger[c].kind = tasks[c].kind,
         Mark(ledger, t, status), UNCHANGED tasksCreated,
         frames' = Returned(frames, t, status), current' \in Tasks \cup {NoTask}
  PROVE  TreeInvariant'
<1>1. tasksCreated' = tasksCreated + 0 /\ Tasks' = Tasks /\ HasRoom(t)
  BY DEF TreeInvariant, TypeOK, Tasks, HasRoom
<1>2. GrowCalls(0) = frames
  BY DEF GrowCalls, TreeInvariant, TypeOK, Tasks
<1>3. status \in Results /\ status \in Statuses
  BY DEF Results, Statuses
<1>4. /\ tasks' \in [Tasks' -> TaskRecords(Tasks')]
      /\ counted' \in [verified : Nat, failed : Nat, root : BOOLEAN]
  BY <1>1, <1>3, MarkType DEF TreeInvariant
<1>5. FixedUnder(t)
  BY <1>1, MarkFields DEF FixedUnder
<1> QED
  BY <1>1, <1>2, <1>3, <1>4, <1>5, AfterReturn

\* Returns keeps the invariant.
LEMMA ReturnsKeeps ==
  ASSUME TreeInvariant, NEW t \in Tasks, NEW status \in {"done", "failed", "blocked", "too_broad"},
         Returns(t, status)
  PROVE  TreeInvariant'
<1>1. tasks \in [Tasks -> TaskRecords(Tasks)] /\ tasks[t] \in TaskRecords(Tasks)
  BY DEF TreeInvariant, TypeOK
<1>2. tasks[t].parent \in Tasks \cup {NoTask}
  BY <1>1 DEF TaskRecords
<1> QED
  BY <1>1, <1>2, MarkedReturn DEF Returns

\* A split that is not run: its tasks stay in the ledger.
LEMMA GrownReturn ==
  ASSUME TreeInvariant, NEW t \in Tasks, NEW status \in {"failed", "too_broad"},
         NEW n \in Nat, NEW accepted \in BOOLEAN,
         tasksCreated' = tasksCreated + n,
         Mark(Grow(tasks, t, n, tasks[t].kind, NoDependencies(n), accepted), t, status),
         frames' = Returned(GrowCalls(n), t, status), current' = tasks[t].parent,
         HasRoom(t)
  PROVE  TreeInvariant'
<1> DEFINE ledger == Grow(tasks, t, n, tasks[t].kind, NoDependencies(n), accepted)
<1>1. tasksCreated \in Nat /\ Tasks' = 1 .. tasksCreated + n /\ Tasks \subseteq Tasks'
  BY DEF TreeInvariant, TypeOK, Tasks
<1>2. tasks \in [Tasks -> TaskRecords(Tasks)] /\ tasks[t] \in TaskRecords(Tasks)
  BY DEF TreeInvariant, TypeOK
<1>3. tasks[t].parent \in Tasks \cup {NoTask} /\ tasks[t].kind \in Kinds
  BY <1>2 DEF TaskRecords
<1>4. NoDependencies(n) \in [tasksCreated + 1 .. tasksCreated + n
                              -> SUBSET (tasksCreated + 1 .. tasksCreated + n)]
  BY DEF NoDependencies
<1>5. ledger \in [Tasks' -> TaskRecords(Tasks')]
  BY <1>1, <1>2, <1>3, <1>4, GrowType DEF TreeInvariant
<1>6. status \in Results /\ status \in Statuses
  BY DEF Results, Statuses
<1>7. Mark(ledger, t, status)
  OBVIOUS
<1>8. ASSUME NEW c \in Tasks'
      PROVE  /\ c \in Tasks => ledger[c] = tasks[c]
             /\ c \notin Tasks => ledger[c].depth = tasks[t].depth + 1
  BY <1>1, GrownFields DEF TreeInvariant
<1> HIDE DEF ledger
<1>9. /\ tasks' \in [Tasks' -> TaskRecords(Tasks')]
      /\ counted' \in [verified : Nat, failed : Nat, root : BOOLEAN]
  BY <1>1, <1>5, <1>6, <1>7, MarkType DEF TreeInvariant
<1>10. FixedUnder(t)
  <2>1. \A c \in Tasks' : tasks'[c].depth = ledger[c].depth /\ tasks'[c].kind = ledger[c].kind
    BY <1>5, <1>7, MarkFields
  <2> QED
    BY <1>1, <1>8, <2>1 DEF FixedUnder
<1> QED
  BY <1>3, <1>6, <1>9, <1>10, AfterReturn

\* A split, a re-split, an alternative or the integration tasks begin to run.
LEMMA GrownRuns ==
  ASSUME TreeInvariant, NEW t \in Tasks, NEW n \in Nat, NEW stage \in {"children", "integrate"},
         Runs(t, n, stage), Active(t), frames[t].at < MaxDepth,
         NEW ledger \in [Tasks -> TaskRecords(Tasks)],
         \A c \in Tasks : ledger[c].depth = tasks[c].depth /\ ledger[c].kind = tasks[c].kind,
         NEW kind \in Kinds, NEW accepted \in BOOLEAN,
         NEW d \in [tasksCreated + 1 .. tasksCreated + n
                     -> SUBSET (tasksCreated + 1 .. tasksCreated + n)],
         tasks' = Grow(ledger, t, n, kind, d, accepted),
         kind = IF stage = "integrate" THEN "integration" ELSE tasks[t].kind,
         stage = "integrate" => tasks[t].kind = "implementation",
         UNCHANGED <<current, counted>>, HasRoom(t)
  PROVE  TreeInvariant'
<1>1. Tasks' = 1 .. tasksCreated + n /\ Tasks \subseteq Tasks'
  BY RunsType DEF TreeInvariant
<1>2. tasks' \in [Tasks' -> TaskRecords(Tasks')]
  BY <1>1, GrowType DEF TreeInvariant
<1>3. ASSUME NEW c \in Tasks'
      PROVE  /\ c \in Tasks => tasks'[c] = ledger[c]
             /\ c \notin Tasks => /\ tasks'[c].depth = tasks[t].depth + 1
                                  /\ tasks'[c].kind = kind
  BY <1>1, GrownFields DEF TreeInvariant
<1>4. FixedUnder(t)
  BY <1>1, <1>3 DEF FixedUnder
<1> QED
  BY <1>2, <1>3, <1>4, AfterRuns

\* Tasks within what remains of the budget are within the bound.
LEMMA RemainingIsRoom ==
  ASSUME TreeInvariant, NEW n \in Nat, n <= Smaller(MaxChildren, Remaining)
  PROVE  tasksCreated + n <= MaxTotalTasks + MaxChildren - 2
BY LimitsAssumption DEF TreeInvariant, TypeOK, Smaller, Remaining

\* The calls that split, loop or are at a leaf.
LEMMA StageOfCall ==
  ASSUME TreeInvariant, NEW t \in Tasks
  PROVE  /\ frames[t].stage \in {"decompose", "children", "integrate"} =>
              Active(t) /\ frames[t].at < MaxDepth
         /\ frames[t].stage \in {"fit", "leaf"} => Active(t)
BY DEF TreeInvariant, DepthOfCalls, Active, Loops, Stage

\* The ledger in which one more alternative of t was tried.
LEMMA TriedType ==
  ASSUME TreeInvariant, NEW t \in Tasks, tasks[t].alternatives < MaxAlternatives
  PROVE  /\ Tried(t) \in [Tasks -> TaskRecords(Tasks)]
         /\ \A c \in Tasks : /\ Tried(t)[c].depth = tasks[c].depth
                             /\ Tried(t)[c].kind = tasks[c].kind
<1>1. tasks \in [Tasks -> TaskRecords(Tasks)] /\ tasks[t] \in TaskRecords(Tasks)
  BY DEF TreeInvariant, TypeOK
<1>2. tasks[t].alternatives + 1 \in 0 .. MaxAlternatives
  BY <1>1, LimitsAssumption DEF TaskRecords
<1>3. [tasks[t] EXCEPT !.alternatives = tasks[t].alternatives + 1] \in TaskRecords(Tasks)
  BY <1>1, <1>2, TaskRecordChanges
<1>4. Tried(t) = [tasks EXCEPT ![t] =
                    [tasks[t] EXCEPT !.alternatives = tasks[t].alternatives + 1]]
  BY DEF Tried
<1>5. \A c \in Tasks : tasks[c] \in TaskRecords(Tasks)
  BY <1>1
<1> QED
  BY <1>1, <1>3, <1>4, <1>5 DEF TaskRecords

\* Init establishes the invariant.
LEMMA InitInvariant == Init => TreeInvariant
<1> SUFFICES ASSUME Init
             PROVE  TreeInvariant
  OBVIOUS
<1>1. tasksCreated = 1 /\ Tasks = {1}
  BY DEF Init, Tasks
<1>2. PICK fit \in Fits("implementation") : frames = [t \in Tasks |-> Call(0, fit)]
  BY DEF Init
<1>3. fit \in {"direct", "required", "ambiguous"}
  BY <1>2 DEF Fits
<1>4. tasks[1] = [MakeTask(NoTask, 0, "implementation", {}, TRUE, 0) EXCEPT !.status = "running"]
  BY <1>1 DEF Init
<1>5. /\ tasks[1].parent = NoTask /\ tasks[1].depth = 0 /\ tasks[1].kind = "implementation"
      /\ tasks[1] \in TaskRecords(Tasks)
  <2> DEFINE root == MakeTask(NoTask, 0, "implementation", {}, TRUE, 0)
  <2>1. /\ root.parent = NoTask /\ root.depth = 0 /\ root.kind = "implementation"
        /\ root \in TaskRecords(Tasks)
    BY LimitsAssumption DEF MakeTask, TaskRecords, Kinds, Statuses
  <2> HIDE DEF root
  <2>2. tasks[1] = [root EXCEPT !.status = "running"]
    BY <1>4 DEF root
  <2>3. "running" \in Statuses
    BY DEF Statuses
  <2>4. tasks[1] \in TaskRecords(Tasks)
    BY <2>1, <2>2, <2>3, TaskRecordChanges
  <2> QED
    BY <2>1, <2>2, <2>4 DEF TaskRecords
<1>6. 0 \in 0 .. MaxDepth
  BY LimitsAssumption
<1>7. Call(0, fit) \in CallRecords
  BY <1>3, <1>6, CallType
<1>8. TypeOK
  BY <1>1, <1>2, <1>5, <1>7 DEF Init, TypeOK, Root
<1>9. /\ frames[1].stage = "fit" /\ frames[1].at = 0
      /\ frames[1].first = 1 /\ frames[1].last = 0
  BY <1>1, <1>2 DEF Call, NoCall
<1>10. BatchesAreTasks
  BY <1>1, <1>9 DEF BatchesAreTasks
<1>11. DepthOfCalls
  BY <1>1, <1>5, <1>9 DEF DepthOfCalls, Active, Loops, Stage
<1>12. TreeBounded
  BY <1>1, <1>5, LimitsAssumption DEF TreeBounded
<1> QED
  BY <1>8, <1>10, <1>11, <1>12 DEF TreeInvariant

\* The call of a child of t begins.
LEMMA EntersKeeps ==
  ASSUME TreeInvariant, NEW c \in Tasks, NEW at \in 0 .. MaxDepth, Enters(c, at),
         tasks[c].depth = IF tasks[c].kind = "integration" THEN at + 1 ELSE at
  PROVE  TreeInvariant'
<1>1. PICK fit \in Fits(tasks[c].kind) : frames' = [frames EXCEPT ![c] = Call(at, fit)]
  BY DEF Enters
<1>2. fit \in {"direct", "required", "ambiguous"}
  BY <1>1 DEF Fits
<1> DEFINE call == Call(at, fit)
<1>3. call \in CallRecords
  BY <1>2, CallType
<1>4. call.first = 1 /\ call.last = 0 /\ call.stage = "fit" /\ call.at = at
  BY DEF Call, NoCall
<1>10. frames' = [frames EXCEPT ![c] = call]
  BY <1>1
<1> HIDE DEF call
<1>5. tasks \in [Tasks -> TaskRecords(Tasks)] /\ tasks[c] \in TaskRecords(Tasks)
      /\ tasksCreated \in Nat
  BY DEF TreeInvariant, TypeOK
<1>6. [tasks[c] EXCEPT !.status = "running"] \in TaskRecords(Tasks)
  BY <1>5, TaskRecordChanges DEF Statuses
<1>7. tasks' = [tasks EXCEPT ![c].status = "running"] /\ tasks' \in [Tasks -> TaskRecords(Tasks)]
  BY <1>5, <1>6 DEF Enters
<1>8. FixedUnder(c)
  <2>1. \A e \in Tasks : tasks[e] \in TaskRecords(Tasks)
    BY <1>5
  <2>2. \A e \in Tasks : tasks'[e].depth = tasks[e].depth /\ tasks'[e].kind = tasks[e].kind
    BY <1>5, <1>7, <2>1 DEF TaskRecords
  <2> QED
    BY <2>2 DEF FixedUnder, Enters, Tasks
<1>9. /\ UNCHANGED tasksCreated /\ UNCHANGED counted
      /\ current' \in Tasks \cup {NoTask}
  BY DEF Enters
<1>11. call.first >= 1 /\ call.last <= tasksCreated
  BY <1>4, <1>5
<1>12. tasks[c].depth = IF tasks[c].kind = "integration" THEN call.at + 1 ELSE call.at
  BY <1>4
<1> QED
  BY <1>3, <1>4, <1>7, <1>8, <1>9, <1>10, <1>11, <1>12, AfterCall

\* solve_task goes on to another stage before its leaf.
LEMMA StageKeeps ==
  ASSUME TreeInvariant, NEW t \in Tasks, frames[t].stage \in {"fit", "decompose"},
         NEW stage \in {"decompose", "leaf"}, stage = "decompose" => frames[t].at < MaxDepth,
         frames' = [frames EXCEPT ![t].stage = stage],
         UNCHANGED <<tasksCreated, tasks, current, counted>>
  PROVE  TreeInvariant'
<1> DEFINE call == [frames[t] EXCEPT !.stage = stage]
<1>1. frames \in [Tasks -> CallRecords] /\ frames[t] \in CallRecords
  BY DEF TreeInvariant, TypeOK
<1>2. call \in CallRecords
  BY <1>1, CallRecordChanges
<1>3. /\ call.first = frames[t].first /\ call.last = frames[t].last
      /\ call.at = frames[t].at /\ call.stage = stage
  BY <1>1 DEF CallRecords
<1>4. frames[t].first >= 1 /\ frames[t].last <= tasksCreated
  BY BatchIsTasks DEF TreeInvariant
<1>5. tasks[t].depth = IF tasks[t].kind = "integration" THEN frames[t].at + 1 ELSE frames[t].at
  BY StageOfCall DEF TreeInvariant, DepthOfCalls
<1>6. tasks' \in [Tasks -> TaskRecords(Tasks)] /\ current' \in Tasks \cup {NoTask}
  BY DEF TreeInvariant, TypeOK
<1>7. FixedUnder(t)
  BY DEF FixedUnder, Tasks
<1>8. frames' = [frames EXCEPT ![t] = call]
  OBVIOUS
<1> HIDE DEF call
<1> QED
  BY <1>2, <1>3, <1>4, <1>5, <1>6, <1>7, <1>8, AfterCall

\* Every step keeps the invariant.
LEMMA StepInvariant == TreeInvariant /\ [Next]_vars => TreeInvariant'
<1> SUFFICES ASSUME TreeInvariant, [Next]_vars
             PROVE  TreeInvariant'
  OBVIOUS
<1>1. CASE UNCHANGED vars
  BY <1>1 DEF vars, TreeInvariant, TypeOK, BatchesAreTasks, DepthOfCalls, TreeBounded, Tasks,
              Active, Loops, Stage, Batch
<1>2. ASSUME NEW t \in Tasks,
             \/ FitFails(t) \/ SplitFails(t) \/ LeafEnds(t) \/ LeafTooBroad(t)
             \/ ChildrenFail(t) \/ Aggregates(t) \/ Integrates(t) \/ IntegrationFails(t)
      PROVE  TreeInvariant'
  <2>1. PICK status \in {"done", "failed", "too_broad"} : Returns(t, status)
    BY <1>2 DEF FitFails, SplitFails, LeafEnds, LeafTooBroad, ChildrenFail, Aggregates,
                Integrates, IntegrationFails
  <2> QED
    BY <2>1, ReturnsKeeps
<1>3. ASSUME NEW t \in Tasks, FitDecides(t)
      PROVE  TreeInvariant'
  <2>1. PICK decision \in {"decompose", "leaf"} :
          /\ decision = "decompose" => CanExpand(frames[t].at)
          /\ frames' = [frames EXCEPT ![t].stage = decision]
    BY <1>3 DEF FitDecides
  <2>2. frames[t].stage = "fit" /\ UNCHANGED <<tasksCreated, tasks, current, counted>>
    BY <1>3 DEF FitDecides, At
  <2>3. decision = "decompose" => frames[t].at < MaxDepth
    BY <2>1 DEF CanExpand
  <2>4. frames' = [frames EXCEPT ![t] = [frames[t] EXCEPT !.stage = decision]]
    BY <2>1
  <2> QED
    BY <2>2, <2>3, <2>4, StageKeeps
<1>4. ASSUME NEW t \in Tasks, NoSplit(t)
      PROVE  TreeInvariant'
  <2>1. CASE Returns(t, "failed")
    BY <2>1, ReturnsKeeps
  <2>2. CASE Executes(t)
    <3>1. frames[t].stage = "decompose"
      BY <1>4 DEF NoSplit, At
    <3>2. /\ frames' = [frames EXCEPT ![t] = [frames[t] EXCEPT !.stage = "leaf"]]
          /\ UNCHANGED <<tasksCreated, tasks, current, counted>>
      BY <2>2 DEF Executes
    <3> QED
      BY <3>1, <3>2, StageKeeps
  <2> QED
    BY <1>4, <2>1, <2>2 DEF NoSplit
<1>5. ASSUME NEW t \in Tasks, Splits(t) \/ Resplits(t)
      PROVE  TreeInvariant'
  <2>1. PICK n \in 1 .. Smaller(MaxChildren, Remaining) :
          /\ Runs(t, n, "children")
          /\ \E d \in Dependencies(n), accepted \in BOOLEAN :
               tasks' = Grow(tasks, t, n, tasks[t].kind, d, accepted)
    <3>1. CASE Splits(t)
      BY <3>1 DEF Splits
    <3>2. CASE Resplits(t)
      <4>1. PICK n \in 2 .. Smaller(MaxChildren, Remaining) :
              /\ Runs(t, n, "children")
              /\ \E d \in Dependencies(n), accepted \in BOOLEAN :
                   tasks' = Grow(tasks, t, n, tasks[t].kind, d, accepted)
        BY <3>2 DEF Resplits
      <4>2. n \in 1 .. Smaller(MaxChildren, Remaining)
        BY LimitsAssumption DEF Smaller, Remaining, TreeInvariant, TypeOK
      <4> QED
        BY <4>1, <4>2
    <3> QED
      BY <1>5, <3>1, <3>2
  <2>2. PICK d \in Dependencies(n), accepted \in BOOLEAN :
          tasks' = Grow(tasks, t, n, tasks[t].kind, d, accepted)
    BY <2>1
  <2>3. d \in [tasksCreated + 1 .. tasksCreated + n
                -> SUBSET (tasksCreated + 1 .. tasksCreated + n)]
    BY <2>2 DEF Dependencies
  <2>4. n \in Nat /\ n <= Smaller(MaxChildren, Remaining)
    BY <2>1
  <2>5. Active(t) /\ frames[t].at < MaxDepth
    BY <1>5, StageOfCall DEF Splits, Resplits, At, CanExpand
  <2>6. HasRoom(t)
    BY <2>1, <2>4, <2>5, RemainingIsRoom, CallsHaveDepth DEF HasRoom, Runs
  <2>7. tasks \in [Tasks -> TaskRecords(Tasks)] /\ tasks[t].kind \in Kinds
    <3>1. tasks \in [Tasks -> TaskRecords(Tasks)] /\ tasks[t] \in TaskRecords(Tasks)
      BY DEF TreeInvariant, TypeOK
    <3> QED
      BY <3>1 DEF TaskRecords
  <2>8. UNCHANGED <<current, counted>>
    BY <1>5 DEF Splits, Resplits
  <2> QED
    BY <2>1, <2>2, <2>3, <2>4, <2>5, <2>6, <2>7, <2>8, GrownRuns
<1>6. ASSUME NEW t \in Tasks, SplitRefused(t)
      PROVE  TreeInvariant'
  <2>1. PICK n \in 2 .. Smaller(MaxChildren, Remaining) :
          /\ tasksCreated' = tasksCreated + n
          /\ Mark(Grow(tasks, t, n, tasks[t].kind, NoDependencies(n), FALSE), t, "failed")
          /\ frames' = Returned(GrowCalls(n), t, "failed")
    BY <1>6 DEF SplitRefused
  <2>2. n \in Nat /\ n <= Smaller(MaxChildren, Remaining)
    BY <2>1
  <2>3. HasRoom(t)
    BY <1>6, <2>1, <2>2, StageOfCall, RemainingIsRoom, CallsHaveDepth
       DEF HasRoom, SplitRefused, At
  <2>4. current' = tasks[t].parent
    BY <1>6 DEF SplitRefused
  <2> QED
    BY <2>1, <2>2, <2>3, <2>4, GrownReturn
<1>7. ASSUME NEW t \in Tasks, ResplitMerged(t)
      PROVE  TreeInvariant'
  <2>1. PICK status \in {"failed", "too_broad"} :
          /\ Mark(Grow(tasks, t, 1, tasks[t].kind, NoDependencies(1), TRUE), t, status)
          /\ frames' = Returned(GrowCalls(1), t, status)
    BY <1>7 DEF ResplitMerged
  <2>2. /\ tasksCreated' = tasksCreated + 1 /\ current' = tasks[t].parent
        /\ frames[t].stage = "leaf" /\ CanExpand(frames[t].at)
    BY <1>7 DEF ResplitMerged, At
  <2>3. /\ frames[t].at < MaxDepth
        /\ tasksCreated + 1 <= MaxTotalTasks + MaxChildren - 2
    BY <2>2, LimitsAssumption DEF CanExpand, TreeInvariant, TypeOK
  <2>4. HasRoom(t)
    BY <2>2, <2>3, StageOfCall, CallsHaveDepth DEF HasRoom
  <2> QED
    BY <2>1, <2>2, <2>4, GrownReturn
<1>8. ASSUME NEW t \in Tasks, ResplitFails(t)
      PROVE  TreeInvariant'
  <2>1. /\ frames' = Returned(frames, t, "failed") /\ current' = tasks[t].parent
        /\ UNCHANGED tasksCreated /\ UNCHANGED tasks /\ UNCHANGED counted
    BY <1>8 DEF ResplitFails
  <2>2. tasksCreated' = tasksCreated + 0 /\ HasRoom(t) /\ Tasks' = Tasks /\ FixedUnder(t)
    BY <2>1 DEF TreeInvariant, TypeOK, HasRoom, Tasks, FixedUnder
  <2>3. GrowCalls(0) = frames
    BY DEF GrowCalls, TreeInvariant, TypeOK, Tasks
  <2>4. /\ tasks' \in [Tasks' -> TaskRecords(Tasks')] /\ tasks[t] \in TaskRecords(Tasks)
        /\ counted' \in [verified : Nat, failed : Nat, root : BOOLEAN]
    BY <2>1, <2>2 DEF TreeInvariant, TypeOK
  <2>5. current' \in Tasks \cup {NoTask} /\ "failed" \in Results
    BY <2>1, <2>4 DEF TaskRecords, Results
  <2> QED
    BY <2>1, <2>2, <2>3, <2>4, <2>5, AfterReturn
<1>9. ASSUME NEW t \in Tasks, Blocks(t)
      PROVE  TreeInvariant'
  <2> DEFINE c == NextChild(t)
  <2>1. c \in Tasks
    BY <1>9, BatchIsTasks DEF Blocks, TreeInvariant
  <2>2. /\ Mark(tasks, c, "blocked") /\ frames' = Returned(frames, c, "blocked")
        /\ UNCHANGED tasksCreated /\ current' = current
    BY <1>9 DEF Blocks
  <2>3. tasks \in [Tasks -> TaskRecords(Tasks)] /\ current \in Tasks \cup {NoTask}
    BY DEF TreeInvariant, TypeOK
  <2> HIDE DEF c
  <2> QED
    BY <2>1, <2>2, <2>3, MarkedReturn
<1>10. ASSUME NEW t \in Tasks, StartsChild(t)
       PROVE  TreeInvariant'
  <2> DEFINE c == NextChild(t)
  <2>1. frames[t].stage = "children" /\ c \in Batch(t) /\ Enters(c, frames[t].at + 1)
    BY <1>10 DEF StartsChild, At
  <2>2. c \in Tasks
    BY <2>1, BatchIsTasks DEF TreeInvariant
  <2>3. frames[t] \in CallRecords /\ frames[t].at < MaxDepth /\ Active(t)
    BY <2>1, StageOfCall DEF TreeInvariant, TypeOK
  <2>4. frames[t].at \in Nat /\ frames[t].at + 1 \in 0 .. MaxDepth
    BY <2>3, LimitsAssumption DEF CallRecords
  <2> HIDE DEF c
  <2>5. /\ tasks[c].depth = tasks[t].depth + 1 /\ tasks[c].kind = tasks[t].kind
        /\ tasks[t].depth = IF tasks[t].kind = "integration" THEN frames[t].at + 1
                                                             ELSE frames[t].at
    BY <2>1, <2>3 DEF TreeInvariant, DepthOfCalls, Loops, Stage
  <2>6. tasks[c].depth = IF tasks[c].kind = "integration" THEN (frames[t].at + 1) + 1
                                                          ELSE frames[t].at + 1
    BY <2>5
  <2> QED
    BY <2>1, <2>2, <2>4, <2>6, EntersKeeps
<1>11. ASSUME NEW t \in Tasks, AlternativeRejected(t)
       PROVE  TreeInvariant'
  <2>1. /\ Mark(Tried(t), t, "failed") /\ frames' = Returned(frames, t, "failed")
        /\ current' = tasks[t].parent /\ UNCHANGED tasksCreated
        /\ tasks[t].alternatives < MaxAlternatives
    BY <1>11 DEF AlternativeRejected, Backtracks
  <2>2. tasks[t] \in TaskRecords(Tasks)
    BY DEF TreeInvariant, TypeOK
  <2>3. tasks[t].parent \in Tasks \cup {NoTask}
    BY <2>2 DEF TaskRecords
  <2> QED
    BY <2>1, <2>3, TriedType, MarkedReturn
<1>12. ASSUME NEW t \in Tasks, AlternativeRuns(t)
       PROVE  TreeInvariant'
  <2>1. PICK n \in 2 .. MaxChildren :
          /\ Runs(t, n, "children")
          /\ tasks' = Grow(Tried(t), t, n, "implementation", NoDependencies(n), TRUE)
    BY <1>12 DEF AlternativeRuns
  <2>2. /\ frames[t].stage = "children" /\ CanExpand(frames[t].at)
        /\ tasks[t].kind = "implementation" /\ tasks[t].alternatives < MaxAlternatives
        /\ UNCHANGED <<current, counted>>
    BY <1>12 DEF AlternativeRuns, ChildrenOver, At, Backtracks
  <2>3. Active(t) /\ frames[t].at < MaxDepth
    BY <2>2, StageOfCall
  <2>4. n \in Nat /\ tasksCreated + n <= MaxTotalTasks + MaxChildren - 2
    BY <2>1, <2>2, LimitsAssumption DEF CanExpand, TreeInvariant, TypeOK
  <2>5. HasRoom(t)
    BY <2>1, <2>3, <2>4, CallsHaveDepth DEF HasRoom, Runs
  <2>6. NoDependencies(n) \in [tasksCreated + 1 .. tasksCreated + n
                                -> SUBSET (tasksCreated + 1 .. tasksCreated + n)]
    BY DEF NoDependencies
  <2>7. "implementation" \in Kinds /\ TRUE \in BOOLEAN
    BY DEF Kinds
  <2> QED
    BY <2>1, <2>2, <2>3, <2>4, <2>5, <2>6, <2>7, TriedType, GrownRuns
<1>13. ASSUME NEW t \in Tasks, FindsConflicts(t)
       PROVE  TreeInvariant'
  <2>1. PICK n \in 1 .. Smaller(MaxChildren, Remaining) :
          /\ Runs(t, n, "integrate")
          /\ tasks' = Grow(tasks, t, n, "integration", NoDependencies(n), TRUE)
    BY <1>13 DEF FindsConflicts
  <2>2. /\ frames[t].stage = "children" /\ tasks[t].kind = "implementation"
        /\ UNCHANGED <<current, counted>>
    BY <1>13 DEF FindsConflicts, ChildrenOver, At
  <2>3. Active(t) /\ frames[t].at < MaxDepth
    BY <2>2, StageOfCall
  <2>4. n \in Nat /\ n <= Smaller(MaxChildren, Remaining)
    BY <2>1
  <2>5. HasRoom(t)
    BY <2>1, <2>3, <2>4, RemainingIsRoom, CallsHaveDepth DEF HasRoom, Runs
  <2>6. NoDependencies(n) \in [tasksCreated + 1 .. tasksCreated + n
                                -> SUBSET (tasksCreated + 1 .. tasksCreated + n)]
    BY DEF NoDependencies
  <2>7. "integration" \in Kinds /\ TRUE \in BOOLEAN /\ tasks \in [Tasks -> TaskRecords(Tasks)]
    BY DEF Kinds, TreeInvariant, TypeOK
  <2> QED
    BY <2>1, <2>2, <2>3, <2>4, <2>5, <2>6, <2>7, GrownRuns
<1>14. ASSUME NEW t \in Tasks, StartsIntegrationTask(t)
       PROVE  TreeInvariant'
  <2> DEFINE c == NextChild(t)
  <2>1. frames[t].stage = "integrate" /\ c \in Batch(t) /\ Enters(c, tasks[t].depth)
    BY <1>14 DEF StartsIntegrationTask, At
  <2>2. c \in Tasks
    BY <2>1, BatchIsTasks DEF TreeInvariant
  <2>3. Active(t) /\ frames[t].at < MaxDepth
    BY <2>1, StageOfCall
  <2>4. tasks[t].depth \in 0 .. MaxDepth
    BY <2>3, CallsHaveDepth, LimitsAssumption
  <2> HIDE DEF c
  <2>5. tasks[c].depth = tasks[t].depth + 1 /\ tasks[c].kind = "integration"
    BY <2>1 DEF TreeInvariant, DepthOfCalls, Loops, Stage
  <2> QED
    BY <2>1, <2>2, <2>4, <2>5, EntersKeeps
<1> QED
  BY <1>1, <1>2, <1>3, <1>4, <1>5, <1>6, <1>7, <1>8, <1>9, <1>10, <1>11, <1>12, <1>13, <1>14
     DEF Next

\* The limits and the depth of the calls are kept for ever.
THEOREM TreeInvariantHolds == Spec => []TreeInvariant
BY InitInvariant, StepInvariant, PTL DEF Spec

\* Type correctness.
THEOREM TypeCorrect == Spec => []TypeOK
<1>1. TreeInvariant => TypeOK
  BY DEF TreeInvariant
<1> QED
  BY <1>1, TreeInvariantHolds, PTL

\* However the tree is split, split again, tried in alternatives and integrated,
\* it has at most MAX_TOTAL_TASKS + MAX_CHILDREN - 2 tasks and no task is more
\* than one deeper than MAX_DEPTH.
THEOREM TreeIsBounded == Spec => []TreeBounded
<1>1. TreeInvariant => TreeBounded
  BY DEF TreeInvariant
<1> QED
  BY <1>1, TreeInvariantHolds, PTL

-----------------------------------------------------------------------------
(* The order of the calls.                                                 *)

Parent(t) == tasks[t].parent

Fresh(t) == Stage(t) \in {"none", "fit", "decompose", "leaf"}

\* A task is younger than its parent, and was created for one of the
\* alternatives its parent has tried.
Genealogy ==
  /\ Parent(Root) = NoTask
  /\ \A t \in Tasks : t # Root =>
       /\ Parent(t) \in Tasks /\ Parent(t) < t
       /\ tasks[t].branch <= tasks[Parent(t)].alternatives

\* The ledger says what the call for the task returned, or that it is under way;
\* a re-split without an answer is not marked.
Outcomes ==
  \A t \in Tasks :
    /\ Stage(t) = "none" => tasks[t].status = "pending" /\ frames[t].result = "none"
    /\ Active(t) => tasks[t].status = "running" /\ frames[t].result = "none"
    /\ Stage(t) = "returned" =>
         /\ frames[t].result # "none"
         /\ \/ tasks[t].status = frames[t].result
            \/ tasks[t].status = "running" /\ frames[t].result = "failed"

\* A task has no children before it loops, and a leaf is not required to be split.
Childless ==
  \A t \in Tasks : Fresh(t) =>
    /\ frames[t].first = 1 /\ frames[t].last = 0
    /\ \A c \in Tasks : Parent(c) # t
    /\ Stage(t) = "leaf" => frames[t].fit # "required"

\* A batch are children of its task, which depend on each other only.
BatchesAreChildren ==
  \A t \in Tasks : \A c \in Batch(t) :
    Parent(c) = t /\ tasks[c].dependencies \subseteq Batch(t)

\* A loop has called the tasks before its position and none after it.
Positions ==
  \A t \in Tasks : Loops(t) =>
    /\ frames[t].first <= frames[t].last
    /\ NextChild(t) >= frames[t].first /\ NextChild(t) <= frames[t].last + 1
    /\ \A c \in Batch(t) :
         /\ c < NextChild(t) => Stage(c) = "returned"
         /\ c > NextChild(t) => Stage(c) = "none"
         /\ c = NextChild(t) => IF current = t THEN Stage(c) = "none" ELSE Active(c)

\* The calls under way are a chain from the root to `current'.
CallChain ==
  /\ current # NoTask => Active(current)
  /\ \A t \in Tasks : Active(t) /\ t # Root =>
       /\ Loops(Parent(t)) /\ t \in Batch(Parent(t)) /\ NextChild(Parent(t)) = t
  /\ \A t \in Tasks : Active(t) /\ t # current => Loops(t) /\ NextChild(t) \in Batch(t)

\* A child is blocked by a dependency that comes later or has failed.
BlockReasons ==
  \A c \in Tasks : frames[c].result = "blocked" =>
    \E d \in tasks[c].dependencies : d >= c \/ frames[d].result \notin {"none", "done"}

\* What is not in the batch of a loop, of the last decomposition of its task, are
\* the children that were verified before their integration.
EarlierChildren ==
  \A t \in Tasks : Loops(t) =>
    \A c \in Tasks : Parent(c) = t /\ tasks[c].branch = tasks[t].alternatives /\ c \notin Batch(t)
      => Stage(t) = "integrate" /\ tasks[c].status = "done"

\* A task that was split has called its whole batch when it returns.
BatchesAreCalled ==
  \A t \in Tasks : Stage(t) = "returned" =>
    \A c \in Batch(t) : tasks[c].kind = tasks[t].kind => frames[c].result # "none"

\* Integration tasks have no dependencies.
IntegrationIsFree ==
  \A t \in Tasks : Stage(t) = "integrate" => \A c \in Batch(t) : tasks[c].dependencies = {}

OrderInvariant ==
  /\ TreeInvariant
  /\ Genealogy /\ Outcomes /\ Childless /\ BatchesAreChildren /\ Positions /\ CallChain
  /\ BlockReasons /\ EarlierChildren /\ BatchesAreCalled
  /\ IntegrationIsFree
  /\ DependenciesDoneFirst /\ DoneOverDone
-----------------------------------------------------------------------------
(* What a step leaves of the ledger and of the calls.                      *)

\* The fields of a task and of its call.
LEMMA FieldTypes ==
  ASSUME TypeOK, NEW c \in Tasks
  PROVE  /\ c \in Nat /\ c >= 1 /\ c <= tasksCreated /\ tasksCreated \in Nat /\ Root \in Tasks
         /\ Parent(c) \in Tasks \cup {NoTask} /\ tasks[c].dependencies \subseteq Tasks
         /\ tasks[c].branch \in Nat /\ tasks[c].alternatives \in Nat
         /\ tasks[c].kind \in Kinds /\ tasks[c].status \in Statuses
         /\ Fresh(c) \/ Loops(c) \/ Stage(c) = "returned"
         /\ frames[c].first \in Nat /\ frames[c].last \in Nat /\ frames[c].next \in Nat
         /\ frames[c].result \in Results /\ frames[c].fit \in {"direct", "required", "ambiguous"}
<1>1. tasks[c] \in TaskRecords(Tasks) /\ frames[c] \in CallRecords /\ tasksCreated \in Nat \ {0}
  BY DEF TypeOK
<1>2. /\ Parent(c) \in Tasks \cup {NoTask} /\ tasks[c].dependencies \subseteq Tasks
      /\ tasks[c].branch \in Nat /\ tasks[c].alternatives \in Nat
      /\ tasks[c].kind \in Kinds /\ tasks[c].status \in Statuses
  BY <1>1, LimitsAssumption DEF TaskRecords, Parent
<1>3. /\ Fresh(c) \/ Loops(c) \/ Stage(c) = "returned"
      /\ frames[c].first \in Nat /\ frames[c].last \in Nat /\ frames[c].next \in Nat
      /\ frames[c].result \in Results /\ frames[c].fit \in {"direct", "required", "ambiguous"}
  BY <1>1 DEF CallRecords, Fresh, Loops, Stage
<1> QED
  BY <1>1, <1>2, <1>3 DEF Tasks, Root

\* A step keeps the ledger, except for the status and the alternatives of x.
LedgerKept(x) ==
  \A c \in Tasks :
    /\ Parent(c)' = Parent(c) /\ tasks'[c].kind = tasks[c].kind
    /\ tasks'[c].dependencies = tasks[c].dependencies /\ tasks'[c].branch = tasks[c].branch
    /\ c # x => tasks'[c].status = tasks[c].status /\ tasks'[c].alternatives = tasks[c].alternatives
    /\ tasks'[c].alternatives >= tasks[c].alternatives

\* The tasks a step creates are children of x, for its last alternative.
NewUnder(x) ==
  \A c \in Tasks' : c \notin Tasks =>
    /\ Parent(c)' = x /\ tasks'[c].branch = tasks'[x].alternatives
    /\ tasks'[c].status = "pending"
    /\ tasks'[c].dependencies \subseteq Tasks' \ Tasks

\* The calls after the return of the one for x.
LEMMA ReturnedCalls ==
  ASSUME TypeOK, NEW x \in Tasks, NEW n \in Nat, NEW r \in Results, Parent(x) # x,
         tasksCreated' = tasksCreated + n, frames' = Returned(GrowCalls(n), x, r)
  PROVE  /\ Tasks' = 1 .. tasksCreated + n /\ Tasks \subseteq Tasks'
         /\ \A c \in Tasks' : c \notin Tasks => frames'[c] = NoCall
         /\ \A c \in Tasks :
              /\ frames'[c].first = frames[c].first /\ frames'[c].last = frames[c].last
              /\ frames'[c].fit = frames[c].fit
              /\ frames'[c].next = IF c = Parent(x) THEN frames[c].next + 1 ELSE frames[c].next
              /\ frames'[c].stage = IF c = x THEN "returned" ELSE frames[c].stage
              /\ frames'[c].result = IF c = x THEN r ELSE frames[c].result
<1>1. /\ tasksCreated \in Nat \ {0} /\ Tasks' = 1 .. tasksCreated + n /\ Tasks \subseteq Tasks'
      /\ Parent(x) \in Tasks \cup {NoTask}
  BY FieldTypes DEF TypeOK, Tasks
<1>2. GrowCalls(n) \in [Tasks' -> CallRecords]
  BY <1>1, GrowCallsType
<1>3. ASSUME NEW c \in Tasks'
      PROVE  frames'[c] = IF c = x THEN [GrowCalls(n)[c] EXCEPT !.stage = "returned", !.result = r]
                          ELSE IF c = Parent(x) THEN [GrowCalls(n)[c] EXCEPT !.next = @ + 1]
                          ELSE GrowCalls(n)[c]
  BY <1>1, <1>2 DEF Returned, Parent
<1>4. ASSUME NEW c \in Tasks'
      PROVE  GrowCalls(n)[c] = IF c \in Tasks THEN frames[c] ELSE NoCall
  BY <1>1 DEF GrowCalls
<1>5. ASSUME NEW c \in Tasks', c \notin Tasks
      PROVE  frames'[c] = NoCall
  <2>1. c # x /\ c # Parent(x)
    BY <1>1, <1>5 DEF NoTask, Tasks
  <2> QED
    BY <1>3, <1>4, <1>5, <2>1
<1>6. ASSUME NEW c \in Tasks
      PROVE  /\ frames'[c].first = frames[c].first /\ frames'[c].last = frames[c].last
             /\ frames'[c].fit = frames[c].fit
             /\ frames'[c].next = IF c = Parent(x) THEN frames[c].next + 1 ELSE frames[c].next
             /\ frames'[c].stage = IF c = x THEN "returned" ELSE frames[c].stage
             /\ frames'[c].result = IF c = x THEN r ELSE frames[c].result
  <2>1. frames[c] \in CallRecords /\ c \in Tasks' /\ GrowCalls(n)[c] = frames[c]
    BY <1>1, <1>4 DEF TypeOK
  <2>2. CASE c = x
    <3>1. frames'[c] = [frames[c] EXCEPT !.stage = "returned", !.result = r]
      BY <1>3, <2>1, <2>2
    <3> QED
      BY <2>1, <2>2, <3>1 DEF CallRecords
  <2>3. CASE c # x /\ c = Parent(x)
    <3>1. frames'[c] = [frames[c] EXCEPT !.next = @ + 1]
      BY <1>3, <2>1, <2>3
    <3> QED
      BY <2>1, <2>3, <3>1 DEF CallRecords
  <2>4. CASE c # x /\ c # Parent(x)
    <3>1. frames'[c] = frames[c]
      BY <1>3, <2>1, <2>4
    <3> QED
      BY <2>4, <3>1
  <2> QED
    BY <2>2, <2>3, <2>4
<1> QED
  BY <1>1, <1>5, <1>6
-----------------------------------------------------------------------------
(* A call returns, or a child is blocked.                                  *)

\* What the call for x, or its blocking, may return.
MayReturn(x, r) ==
  /\ \/ x = current /\ r # "blocked"
     \/ /\ current \in Tasks /\ Loops(current) /\ x = NextChild(current) /\ x \in Batch(current)
        /\ r = "blocked"
        /\ \E d \in tasks[x].dependencies : d >= x \/ frames[d].result \notin {"none", "done"}
  /\ r = "done" =>
       /\ \A c \in Tasks : Parent(c) = x /\ tasks[c].branch = tasks[x].alternatives
                              => tasks[c].status = "done"
       /\ frames[x].fit = "required" => \E c \in Tasks : Parent(c) = x
  /\ \A c \in Batch(x) : tasks[c].kind = tasks[x].kind => frames[c].result # "none"

\* The place of x when it returns: its parent, if it has one, loops and is at x.
LEMMA PlaceOfReturn ==
  ASSUME OrderInvariant, NEW x \in Tasks, NEW r, MayReturn(x, r)
  PROVE  /\ Parent(x) # x
         /\ x = current \/ current = Parent(x)
         /\ x = current => Active(x) /\ tasks[x].status = "running" /\ frames[x].result = "none"
         /\ x # current => Stage(x) = "none" /\ tasks[x].status = "pending"
                              /\ frames[x].result = "none" /\ r = "blocked"
         /\ x # current \/ x # Root =>
              /\ x # Root /\ Parent(x) \in Tasks /\ Loops(Parent(x)) /\ NextChild(Parent(x)) = x
              /\ x \in Batch(Parent(x))
         /\ tasks[x].status # "done" /\ tasks[x].status # "blocked"
<1>1. TypeOK /\ x \in Nat /\ Root \in Tasks /\ Root # NoTask /\ x # NoTask
  BY FieldTypes DEF OrderInvariant, TreeInvariant, Root, NoTask
<1>2. Parent(x) # x
  BY <1>1 DEF OrderInvariant, Genealogy
<1>3. CASE x = current
  <2>1. Active(x)
    BY <1>1, <1>3 DEF OrderInvariant, CallChain
  <2>2. tasks[x].status = "running" /\ frames[x].result = "none"
    BY <2>1 DEF OrderInvariant, Outcomes
  <2>3. x # Root => /\ Parent(x) \in Tasks /\ Loops(Parent(x)) /\ NextChild(Parent(x)) = x
                    /\ x \in Batch(Parent(x))
    BY <2>1 DEF OrderInvariant, CallChain, Genealogy
  <2> QED
    BY <1>2, <1>3, <2>1, <2>2, <2>3
<1>4. CASE x # current
  <2>1. /\ current \in Tasks /\ Loops(current) /\ x = NextChild(current) /\ x \in Batch(current)
        /\ r = "blocked"
    BY <1>4 DEF MayReturn
  <2>2. Stage(x) = "none"
    BY <2>1 DEF OrderInvariant, Positions
  <2>3. Parent(x) = current
    BY <2>1 DEF OrderInvariant, BatchesAreChildren
  <2>4. x # Root
    BY <1>1, <2>1, <2>3 DEF OrderInvariant, Genealogy, Tasks, NoTask
  <2>5. tasks[x].status = "pending" /\ frames[x].result = "none"
    BY <2>2 DEF OrderInvariant, Outcomes
  <2> QED
    BY <1>2, <1>4, <2>1, <2>2, <2>3, <2>4, <2>5
<1> QED
  BY <1>3, <1>4

\* The call for x returned r, over n tasks it leaves behind.
LEMMA OrderAfterReturn ==
  ASSUME OrderInvariant, TreeInvariant', NEW x \in Tasks, NEW n \in Nat, NEW r \in Results,
         tasksCreated' = tasksCreated + n, frames' = Returned(GrowCalls(n), x, r),
         current' = Parent(x), LedgerKept(x), NewUnder(x), r # "none", MayReturn(x, r),
         r = "done" => Tasks' = Tasks /\ tasks'[x].alternatives = tasks[x].alternatives,
         tasks'[x].status = r \/ (tasks'[x].status = "running" /\ r = "failed")
  PROVE  OrderInvariant'
<1>1. TypeOK /\ TypeOK' /\ BatchesAreTasks
  BY DEF OrderInvariant, TreeInvariant
<1>2. /\ Parent(x) # x
      /\ x = current \/ current = Parent(x)
      /\ x = current => Active(x) /\ tasks[x].status = "running" /\ frames[x].result = "none"
      /\ x # current => Stage(x) = "none" /\ tasks[x].status = "pending"
                           /\ frames[x].result = "none" /\ r = "blocked"
      /\ x # current \/ x # Root =>
           /\ x # Root /\ Parent(x) \in Tasks /\ Loops(Parent(x)) /\ NextChild(Parent(x)) = x
           /\ x \in Batch(Parent(x))
      /\ tasks[x].status # "done" /\ tasks[x].status # "blocked"
  BY PlaceOfReturn
<1>3. /\ Tasks' = 1 .. tasksCreated + n /\ Tasks \subseteq Tasks'
      /\ \A c \in Tasks' : c \notin Tasks => frames'[c] = NoCall
      /\ \A c \in Tasks :
           /\ frames'[c].first = frames[c].first /\ frames'[c].last = frames[c].last
           /\ frames'[c].fit = frames[c].fit
           /\ frames'[c].next = IF c = Parent(x) THEN frames[c].next + 1 ELSE frames[c].next
           /\ frames'[c].stage = IF c = x THEN "returned" ELSE frames[c].stage
           /\ frames'[c].result = IF c = x THEN r ELSE frames[c].result
  BY <1>1, <1>2, ReturnedCalls
<1>4. ASSUME NEW c \in Tasks', c \notin Tasks
      PROVE  /\ Stage(c)' = "none" /\ frames'[c].result = "none" /\ Batch(c)' = {}
             /\ frames'[c].first = 1 /\ frames'[c].last = 0
             /\ Parent(c)' = x /\ tasks'[c].status = "pending"
             /\ tasks'[c].branch = tasks'[x].alternatives
             /\ c > x /\ c # Root /\ ~Active(c)' /\ ~Loops(c)'
  <2>1. frames'[c] = NoCall
    BY <1>3, <1>4
  <2>2. c > x /\ c # Root
    BY <1>1, <1>3, <1>4, FieldTypes DEF Tasks, Root
  <2> QED
    BY <1>4, <2>1, <2>2 DEF NoCall, Stage, Batch, NewUnder, Active, Loops
<1>5. ASSUME NEW c \in Tasks
      PROVE  /\ c \in Tasks' /\ Batch(c)' = Batch(c) /\ Batch(c) \subseteq Tasks
             /\ Stage(c)' = IF c = x THEN "returned" ELSE Stage(c)
             /\ c # Parent(x) => NextChild(c)' = NextChild(c)
             /\ c = Parent(x) => NextChild(c)' = NextChild(c) + 1
             /\ Active(c)' <=> c # x /\ Active(c)
             /\ Loops(c)' <=> c # x /\ Loops(c)
             /\ Fresh(c)' <=> c # x /\ Fresh(c)
  BY <1>1, <1>3, BatchIsTasks DEF Stage, Batch, NextChild, Active, Loops, Fresh
<1>17. \A c \in Tasks' : tasks'[c].alternatives \in Nat
  <2>1. \A c \in Tasks' : tasks'[c] \in TaskRecords(Tasks')
    BY <1>1 DEF TypeOK
  <2> QED
    BY <2>1, LimitsAssumption DEF TaskRecords
<1>6. Genealogy'
  <2>1. ASSUME NEW c \in Tasks', c # Root
        PROVE  /\ Parent(c)' \in Tasks' /\ Parent(c)' < c
               /\ tasks'[c].branch <= tasks'[Parent(c)'].alternatives
    <3>1. CASE c \in Tasks
      <4>1. /\ Parent(c) \in Tasks /\ Parent(c) < c
            /\ tasks[c].branch <= tasks[Parent(c)].alternatives
        BY <2>1, <3>1 DEF OrderInvariant, Genealogy
      <4>2. /\ tasks[c].branch \in Nat /\ tasks[Parent(c)].alternatives \in Nat
            /\ tasks'[Parent(c)].alternatives \in Nat
        BY <1>1, <1>5, <1>17, <3>1, <4>1, FieldTypes
      <4>3. tasks'[Parent(c)].alternatives >= tasks[Parent(c)].alternatives
        BY <4>1 DEF LedgerKept
      <4> QED
        BY <1>5, <3>1, <4>1, <4>2, <4>3 DEF LedgerKept
    <3>2. CASE c \notin Tasks
      <4>1. tasks'[x].alternatives \in Nat
        BY <1>5, <1>17
      <4> QED
        BY <1>4, <1>5, <3>2, <4>1
    <3> QED
      BY <3>1, <3>2
  <2>2. Parent(Root)' = NoTask
    BY <1>1, FieldTypes DEF OrderInvariant, Genealogy, LedgerKept
  <2> QED
    BY <2>1, <2>2 DEF Genealogy
<1>7. Outcomes'
  <2> SUFFICES ASSUME NEW c \in Tasks'
               PROVE  /\ Stage(c)' = "none" => tasks'[c].status = "pending"
                                                  /\ frames'[c].result = "none"
                      /\ Active(c)' => tasks'[c].status = "running" /\ frames'[c].result = "none"
                      /\ Stage(c)' = "returned" =>
                           /\ frames'[c].result # "none"
                           /\ \/ tasks'[c].status = frames'[c].result
                              \/ tasks'[c].status = "running" /\ frames'[c].result = "failed"
    BY DEF Outcomes
  <2>1. CASE c \notin Tasks
    BY <1>4, <2>1
  <2>2. CASE c = x
    BY <1>3, <1>5, <2>2
  <2>3. CASE c \in Tasks /\ c # x
    BY <1>3, <1>5, <2>3 DEF OrderInvariant, Outcomes, LedgerKept
  <2> QED
    BY <2>1, <2>2, <2>3
<1>8. Childless'
  <2> SUFFICES ASSUME NEW c \in Tasks', Fresh(c)'
               PROVE  /\ frames'[c].first = 1 /\ frames'[c].last = 0
                      /\ \A e \in Tasks' : Parent(e)' # c
                      /\ Stage(c)' = "leaf" => frames'[c].fit # "required"
    BY DEF Childless
  <2>1. CASE c \notin Tasks
    <3>1. ASSUME NEW e \in Tasks'
          PROVE  Parent(e)' # c
      <4>1. CASE e \in Tasks
        BY <1>1, <1>3, <2>1, <4>1, FieldTypes DEF LedgerKept, Tasks, NoTask
      <4>2. CASE e \notin Tasks
        BY <1>4, <2>1, <4>2
      <4> QED
        BY <4>1, <4>2
    <3> QED
      BY <1>4, <2>1, <3>1
  <2>2. CASE c \in Tasks
    <3>1. c # x /\ Fresh(c) /\ Stage(c)' = Stage(c)
      BY <1>5, <2>2
    <3>2. \A e \in Tasks' : Parent(e)' # c
      BY <1>4, <2>2, <3>1 DEF OrderInvariant, Childless, LedgerKept
    <3> QED
      BY <1>3, <2>2, <3>1, <3>2 DEF OrderInvariant, Childless
  <2> QED
    BY <2>1, <2>2
<1>9. BatchesAreChildren'
  BY <1>4, <1>5 DEF OrderInvariant, BatchesAreChildren, LedgerKept
<1>10. Positions'
  <2> SUFFICES ASSUME NEW c \in Tasks', Loops(c)'
               PROVE  /\ frames'[c].first <= frames'[c].last
                      /\ NextChild(c)' >= frames'[c].first /\ NextChild(c)' <= frames'[c].last + 1
                      /\ \A e \in Batch(c)' :
                           /\ e < NextChild(c)' => Stage(e)' = "returned"
                           /\ e > NextChild(c)' => Stage(e)' = "none"
                           /\ e = NextChild(c)' => IF current' = c THEN Stage(e)' = "none"
                                                                  ELSE Active(e)'
    BY DEF Positions
  <2>1. c \in Tasks /\ c # x /\ Loops(c)
    BY <1>4, <1>5
  <2>2. /\ frames[c].first <= frames[c].last
        /\ NextChild(c) >= frames[c].first /\ NextChild(c) <= frames[c].last + 1
        /\ \A e \in Batch(c) :
             /\ e < NextChild(c) => Stage(e) = "returned"
             /\ e > NextChild(c) => Stage(e) = "none"
             /\ e = NextChild(c) => IF current = c THEN Stage(e) = "none" ELSE Active(e)
    BY <2>1 DEF OrderInvariant, Positions
  <2>3. /\ frames[c].first \in Nat /\ frames[c].last \in Nat /\ NextChild(c) \in Nat
        /\ x \in Nat /\ \A e \in Batch(c) : e \in Nat
    BY <1>1, <1>5, <2>1, FieldTypes DEF NextChild
  <2>4. CASE c = Parent(x)
    <3>1. x # Root
      BY <1>2, <2>1, <2>4 DEF OrderInvariant, Genealogy, Tasks, NoTask
    <3>2. NextChild(c) = x /\ x \in Batch(c) /\ NextChild(c)' = x + 1 /\ current' = c
      BY <1>2, <1>5, <2>1, <2>4, <3>1
    <3>3. NextChild(c)' >= frames[c].first /\ NextChild(c)' <= frames[c].last + 1
      BY <2>2, <2>3, <3>2 DEF Batch
    <3>4. ASSUME NEW e \in Batch(c)
          PROVE  /\ e < x + 1 => Stage(e)' = "returned"
                 /\ e >= x + 1 => Stage(e)' = "none"
      <4>1. e \in Tasks /\ Stage(e)' = IF e = x THEN "returned" ELSE Stage(e)
        BY <1>5, <2>1
      <4> QED
        BY <2>2, <2>3, <3>2, <4>1
    <3>5. ASSUME NEW e \in Batch(c)'
          PROVE  /\ e < NextChild(c)' => Stage(e)' = "returned"
                 /\ e > NextChild(c)' => Stage(e)' = "none"
                 /\ e = NextChild(c)' => IF current' = c THEN Stage(e)' = "none" ELSE Active(e)'
      <4>1. e \in Batch(c) /\ e \in Nat /\ NextChild(c)' \in Nat
        <5>1. e \in Batch(c)
          BY <1>5, <2>1
        <5>2. e \in Nat
          BY <2>3, <5>1
        <5> QED
          BY <2>3, <3>2, <5>1, <5>2
      <4>2. e > NextChild(c)' \/ e = NextChild(c)' => e >= x + 1
        BY <2>3, <3>2, <4>1
      <4> QED
        BY <3>2, <3>4, <4>1, <4>2
    <3>6. frames'[c].first = frames[c].first /\ frames'[c].last = frames[c].last
      BY <1>3, <2>1
    <3> QED
      BY <2>2, <3>3, <3>5, <3>6
  <2>5. CASE c # Parent(x)
    <3>1. current # c /\ current' # c /\ NextChild(c)' = NextChild(c)
      BY <1>2, <1>5, <2>1, <2>5
    <3>2. ASSUME NEW e \in Batch(c)
          PROVE  Stage(e)' = Stage(e) /\ (Active(e)' <=> Active(e))
      <4>1. Parent(e) = c /\ e \in Tasks
        BY <1>5, <2>1 DEF OrderInvariant, BatchesAreChildren
      <4> QED
        BY <1>5, <2>5, <4>1
    <3> QED
      BY <1>3, <1>5, <2>1, <2>2, <3>1, <3>2
  <2> QED
    BY <2>4, <2>5
<1>11. CallChain'
  <2>1. current' # NoTask => Active(current)'
    <3>1. ASSUME Parent(x) # NoTask
          PROVE  Active(Parent(x))'
      <4>1. x # Root
        BY <3>1 DEF OrderInvariant, Genealogy
      <4>2. Parent(x) \in Tasks /\ Loops(Parent(x)) /\ Parent(x) # x
        BY <1>2, <4>1
      <4>3. Loops(Parent(x))'
        <5> DEFINE p == Parent(x)
        <5>1. frames'[p].stage = frames[p].stage
          BY <1>3, <4>2
        <5> QED
          BY <4>2, <5>1, <1>5 DEF LedgerKept, Loops, Stage
      <4> QED
        BY <4>3 DEF Loops, Active
    <3>2. Parent(x)' = Parent(x)
      BY DEF LedgerKept
    <3> QED
      BY <1>5, <1>2, <3>1, <3>2 DEF Active, Stage
  <2>2. ASSUME NEW c \in Tasks', Active(c)', c # Root
        PROVE  Loops(Parent(c))' /\ c \in Batch(Parent(c))' /\ NextChild(Parent(c))' = c
    <3>1. c \in Tasks /\ c # x /\ Active(c)
      BY <1>4, <1>5, <2>2
    <3> DEFINE q == Parent(c)
    <3>2. q \in Tasks /\ Loops(q) /\ c \in Batch(q) /\ NextChild(q) = c
      BY <2>2, <3>1 DEF OrderInvariant, CallChain, Genealogy
    <3>3. q # Parent(x)
      <4>1. SUFFICES ASSUME q = Parent(x)
                     PROVE  FALSE
        OBVIOUS
      <4>2. x # Root
        BY <3>2, <4>1 DEF OrderInvariant, Genealogy, Tasks, NoTask
      <4> QED
        BY <1>2, <3>1, <3>2, <4>1, <4>2
    <3>4. q # x
      <4>1. SUFFICES ASSUME q = x
                     PROVE  FALSE
        OBVIOUS
      <4>2. x = current
        BY <1>2, <3>2, <4>1 DEF Loops
      <4>3. Stage(c) = "none"
        BY <3>2, <4>1, <4>2 DEF OrderInvariant, Positions
      <4> QED
        BY <3>1, <4>3 DEF Active
    <3>5. Parent(c)' = q
      BY <3>1 DEF LedgerKept
    <3>6. /\ frames'[q].stage = frames[q].stage /\ frames'[q].first = frames[q].first
          /\ frames'[q].last = frames[q].last /\ frames'[q].next = frames[q].next
      BY <1>3, <3>2, <3>3, <3>4
    <3> HIDE DEF q
    <3> QED
      BY <3>2, <3>5, <3>6 DEF Loops, Stage, Batch, NextChild
  <2>3. ASSUME NEW c \in Tasks', Active(c)', c # current'
        PROVE  Loops(c)' /\ NextChild(c)' \in Batch(c)'
    <3>1. c \in Tasks /\ c # x /\ Active(c) /\ c # Parent(x) /\ c # current
      BY <1>2, <1>4, <1>5, <2>3
    <3> QED
      BY <1>5, <3>1 DEF OrderInvariant, CallChain
  <2> QED
    BY <2>1, <2>2, <2>3 DEF CallChain
<1>12. BlockReasons'
  <2> SUFFICES ASSUME NEW c \in Tasks', frames'[c].result = "blocked"
               PROVE  \E d \in tasks'[c].dependencies :
                        d >= c \/ frames'[d].result \notin {"none", "done"}
    BY DEF BlockReasons
  <2>1. c \in Tasks /\ tasks'[c].dependencies = tasks[c].dependencies
    BY <1>4 DEF LedgerKept
  <2>2. tasks[c].dependencies \subseteq Tasks
    BY <1>1, <2>1, FieldTypes
  <2>3. \E d \in tasks[c].dependencies : d >= c \/ frames[d].result \notin {"none", "done"}
    <3>1. CASE c = x
      BY <1>2, <1>3, <3>1 DEF MayReturn
    <3>2. CASE c # x
      BY <1>3, <2>1, <3>2 DEF OrderInvariant, BlockReasons
    <3> QED
      BY <3>1, <3>2
  <2>4. PICK d \in tasks[c].dependencies : d >= c \/ frames[d].result \notin {"none", "done"}
    BY <2>3
  <2>5. frames[x].result = "none"
    BY <1>2
  <2>6. frames[d].result \notin {"none", "done"} => frames'[d].result = frames[d].result
    BY <1>3, <2>2, <2>4, <2>5
  <2> QED
    BY <2>1, <2>4, <2>6
<1>13. EarlierChildren'
  <2> SUFFICES ASSUME NEW c \in Tasks', Loops(c)', NEW e \in Tasks', Parent(e)' = c,
                      tasks'[e].branch = tasks'[c].alternatives, e \notin Batch(c)'
               PROVE  Stage(c)' = "integrate" /\ tasks'[e].status = "done"
    BY DEF EarlierChildren
  <2>1. c \in Tasks /\ c # x /\ Loops(c) /\ e \in Tasks
    BY <1>4, <1>5
  <2>2. /\ Parent(e) = c /\ tasks[e].branch = tasks[c].alternatives /\ e \notin Batch(c)
        /\ Stage(c)' = Stage(c)
    BY <1>5, <2>1 DEF LedgerKept
  <2>3. Stage(c) = "integrate" /\ tasks[e].status = "done"
    BY <2>1, <2>2 DEF OrderInvariant, EarlierChildren
  <2> QED
    BY <1>2, <2>1, <2>2, <2>3 DEF LedgerKept
<1>14. BatchesAreCalled'
  <2> SUFFICES ASSUME NEW c \in Tasks', Stage(c)' = "returned", NEW e \in Batch(c)',
                      tasks'[e].kind = tasks'[c].kind
               PROVE  frames'[e].result # "none"
    BY DEF BatchesAreCalled
  <2>1. c \in Tasks /\ e \in Batch(c) /\ e \in Tasks /\ tasks[e].kind = tasks[c].kind
    BY <1>4, <1>5 DEF LedgerKept
  <2>2. frames[e].result # "none"
    <3>1. CASE c = x
      BY <2>1, <3>1 DEF MayReturn
    <3>2. CASE c # x
      BY <1>5, <2>1, <3>2 DEF OrderInvariant, BatchesAreCalled
    <3> QED
      BY <3>1, <3>2
  <2> QED
    BY <1>3, <2>1, <2>2
<1>15. DependenciesDoneFirst'
  <2> SUFFICES ASSUME NEW c \in Tasks', frames'[c].stage # "none", tasks'[c].status # "blocked",
                      NEW d \in tasks'[c].dependencies
               PROVE  tasks'[d].status = "done"
    BY DEF DependenciesDoneFirst
  <2>1. c \in Tasks /\ d \in tasks[c].dependencies
    BY <1>4 DEF LedgerKept, Stage
  <2>2. d \in Tasks
    BY <1>1, <2>1, FieldTypes
  <2>3. frames[c].stage # "none" /\ tasks[c].status # "blocked"
    <3>1. CASE c = x
      BY <1>2, <3>1 DEF Active, Stage
    <3>2. CASE c # x
      BY <1>3, <2>1, <3>2 DEF LedgerKept
    <3> QED
      BY <3>1, <3>2
  <2>4. tasks[d].status = "done"
    BY <2>1, <2>3 DEF OrderInvariant, DependenciesDoneFirst
  <2> QED
    BY <1>2, <2>2, <2>4 DEF LedgerKept
<1>16. DoneOverDone'
  <2> SUFFICES ASSUME NEW c \in Tasks', tasks'[c].status = "done"
               PROVE  /\ \A e \in Tasks' : Parent(e)' = c /\ tasks'[e].branch = tasks'[c].alternatives
                                              => tasks'[e].status = "done"
                      /\ frames'[c].fit = "required" => \E e \in Tasks' : Parent(e)' = c
    BY DEF DoneOverDone, Parent
  <2>1. c \in Tasks
    BY <1>4
  <2>2. c = x => r = "done"
    OBVIOUS
  <2>3. /\ \A e \in Tasks : Parent(e) = c /\ tasks[e].branch = tasks'[c].alternatives
                               => tasks[e].status = "done"
        /\ frames[c].fit = "required" => \E e \in Tasks : Parent(e) = c
    <3>1. CASE c = x
      BY <2>2, <3>1 DEF MayReturn
    <3>2. CASE c # x
      BY <2>1, <3>2 DEF OrderInvariant, DoneOverDone, LedgerKept, Parent
    <3> QED
      BY <3>1, <3>2
  <2>4. ASSUME NEW e \in Tasks', Parent(e)' = c, tasks'[e].branch = tasks'[c].alternatives
        PROVE  tasks'[e].status = "done"
    <3>1. e \in Tasks
      BY <1>4, <2>2, <2>4 DEF MayReturn
    <3>2. tasks[e].status = "done"
      BY <2>3, <2>4, <3>1 DEF LedgerKept
    <3> QED
      BY <1>2, <3>1, <3>2 DEF LedgerKept
  <2> QED
    BY <1>3, <1>5, <2>1, <2>3, <2>4 DEF LedgerKept
<1>18. IntegrationIsFree'
  <2> SUFFICES ASSUME NEW c \in Tasks', Stage(c)' = "integrate", NEW e \in Batch(c)'
               PROVE  tasks'[e].dependencies = {}
    BY DEF IntegrationIsFree
  <2>1. c \in Tasks /\ e \in Batch(c) /\ e \in Tasks /\ Stage(c) = "integrate"
    BY <1>4, <1>5
  <2> QED
    BY <2>1 DEF OrderInvariant, IntegrationIsFree, LedgerKept
<1> QED
  BY <1>6, <1>7, <1>8, <1>9, <1>10, <1>11, <1>12, <1>13, <1>14, <1>15, <1>16, <1>18
     DEF OrderInvariant
-----------------------------------------------------------------------------
(* A loop begins, a call goes on, a call begins.                           *)

\* The innermost call has no call under it.
LEMMA CurrentIsInnermost ==
  ASSUME OrderInvariant, NEW t \in Tasks, current = t, NEW c \in Tasks, Active(c), c # Root
  PROVE  Parent(c) # t
<1>1. SUFFICES ASSUME Parent(c) = t
               PROVE  FALSE
  OBVIOUS
<1>2. Loops(t) /\ c \in Batch(t) /\ NextChild(t) = c
  BY <1>1 DEF OrderInvariant, CallChain
<1>3. Stage(c) = "none"
  BY <1>2 DEF OrderInvariant, Positions
<1> QED
  BY <1>3 DEF Active

\* The innermost call begins a loop over n new tasks.
LEMMA OrderAfterRuns ==
  ASSUME OrderInvariant, TreeInvariant', NEW t \in Tasks, NEW n \in Nat \ {0},
         NEW stage \in {"children", "integrate"}, Runs(t, n, stage), current = t,
         UNCHANGED current, LedgerKept(t), NewUnder(t), tasks'[t].status = tasks[t].status,
         \A c \in Tasks : Parent(c) = t /\ tasks[c].branch = tasks'[t].alternatives
           => stage = "integrate" /\ tasks[c].status = "done",
         stage = "integrate" => \A c \in Tasks' : c \notin Tasks => tasks'[c].dependencies = {}
  PROVE  OrderInvariant'
<1>1. TypeOK /\ TypeOK' /\ BatchesAreTasks /\ t \in Nat /\ tasksCreated \in Nat /\ n \in Nat
      /\ Root \in Tasks /\ t # NoTask
  BY FieldTypes DEF OrderInvariant, TreeInvariant, NoTask
<1>2. Active(t) /\ tasks[t].status = "running" /\ frames[t].result = "none"
  BY <1>1 DEF OrderInvariant, CallChain, Outcomes
<1>3. /\ tasksCreated' = tasksCreated + n /\ Tasks' = 1 .. tasksCreated + n
      /\ Tasks \subseteq Tasks'
  BY <1>1, RunsType
<1>4. ASSUME NEW c \in Tasks'
      PROVE  /\ c = t => /\ frames'[c].stage = stage
                         /\ frames'[c].first = tasksCreated + 1
                         /\ frames'[c].last = tasksCreated + n
                         /\ frames'[c].next = tasksCreated + 1
                         /\ frames'[c].result = "none"
             /\ c # t /\ c \in Tasks => frames'[c] = frames[c]
             /\ c \notin Tasks => frames'[c] = NoCall
  <2>1. /\ c # t /\ c \in Tasks => frames'[c] = frames[c]
        /\ c \notin Tasks => frames'[c] = NoCall
    BY <1>1, RunsFields
  <2>2. /\ frames'[t].stage = stage /\ frames'[t].first = tasksCreated + 1
        /\ frames'[t].last = tasksCreated + n
    BY <1>1, <1>3, RunsFields
  <2>3. frames'[t].next = tasksCreated + 1 /\ frames'[t].result = "none"
    <3>1. GrowCalls(n) \in [Tasks' -> CallRecords] /\ GrowCalls(n)[t] = frames[t] /\ t \in Tasks'
      BY <1>1, <1>3, GrowCallsType DEF GrowCalls
    <3>2. frames[t] \in CallRecords
      BY <1>1 DEF TypeOK
    <3>3. frames'[t] = [[[[frames[t] EXCEPT !.stage = stage] EXCEPT !.first = tasksCreated + 1]
                         EXCEPT !.last = tasksCreated + n] EXCEPT !.next = tasksCreated + 1]
      BY <3>1 DEF Runs
    <3> QED
      BY <1>2, <3>2, <3>3 DEF CallRecords
  <2> QED
    BY <2>1, <2>2, <2>3
<1>5. ASSUME NEW c \in Tasks', c \notin Tasks
      PROVE  /\ Stage(c)' = "none" /\ frames'[c].result = "none" /\ Batch(c)' = {}
             /\ frames'[c].first = 1 /\ frames'[c].last = 0
             /\ Parent(c)' = t /\ tasks'[c].status = "pending"
             /\ tasks'[c].branch = tasks'[t].alternatives
             /\ tasks'[c].dependencies \subseteq Tasks' \ Tasks
             /\ c > t /\ c # Root /\ ~Active(c)' /\ ~Loops(c)' /\ c \in Nat
  <2>1. frames'[c] = NoCall
    BY <1>4, <1>5
  <2>2. c > t /\ c # Root /\ c \in Nat
    BY <1>1, <1>3, <1>5 DEF Tasks, Root
  <2> QED
    BY <1>5, <2>1, <2>2 DEF NoCall, Stage, Batch, NewUnder, Active, Loops
<1>6. ASSUME NEW c \in Tasks, c # t
      PROVE  /\ c \in Tasks' /\ Batch(c)' = Batch(c) /\ Batch(c) \subseteq Tasks
             /\ Stage(c)' = Stage(c) /\ NextChild(c)' = NextChild(c)
             /\ Active(c)' <=> Active(c)
             /\ Loops(c)' <=> Loops(c)
             /\ Fresh(c)' <=> Fresh(c)
             /\ frames'[c].first = frames[c].first /\ frames'[c].last = frames[c].last
             /\ frames'[c].fit = frames[c].fit /\ frames'[c].result = frames[c].result
  <2>1. frames'[c] = frames[c]
    BY <1>3, <1>4, <1>6
  <2> QED
    BY <1>1, <1>3, <2>1, BatchIsTasks DEF Stage, Batch, NextChild, Active, Loops, Fresh
<1>7. /\ Batch(t)' = Tasks' \ Tasks /\ Stage(t)' = stage /\ NextChild(t)' = tasksCreated + 1
      /\ Active(t)' /\ Loops(t)' /\ ~Fresh(t)' /\ t \in Tasks'
      /\ \E c \in Tasks' : c \notin Tasks
  <2>1. /\ frames'[t].stage = stage /\ frames'[t].first = tasksCreated + 1
        /\ frames'[t].last = tasksCreated + n /\ frames'[t].next = tasksCreated + 1
    BY <1>3, <1>4
  <2>2. tasksCreated + 1 .. tasksCreated + n = Tasks' \ Tasks
    BY <1>1, <1>3 DEF Tasks
  <2>3. tasksCreated + 1 \in tasksCreated + 1 .. tasksCreated + n
    BY <1>1
  <2> QED
    BY <1>3, <2>1, <2>2, <2>3 DEF Batch, Stage, NextChild, Active, Loops, Fresh
<1>8. \A c \in Tasks' : tasks'[c].alternatives \in Nat
  <2>1. \A c \in Tasks' : tasks'[c] \in TaskRecords(Tasks')
    BY <1>1 DEF TypeOK
  <2> QED
    BY <2>1, LimitsAssumption DEF TaskRecords
<1>9. Genealogy'
  <2>1. ASSUME NEW c \in Tasks', c # Root
        PROVE  /\ Parent(c)' \in Tasks' /\ Parent(c)' < c
               /\ tasks'[c].branch <= tasks'[Parent(c)'].alternatives
    <3>1. CASE c \in Tasks
      <4>1. /\ Parent(c) \in Tasks /\ Parent(c) < c
            /\ tasks[c].branch <= tasks[Parent(c)].alternatives
        BY <2>1, <3>1 DEF OrderInvariant, Genealogy
      <4>2. /\ tasks[c].branch \in Nat /\ tasks[Parent(c)].alternatives \in Nat
            /\ tasks'[Parent(c)].alternatives \in Nat
        BY <1>1, <1>3, <1>8, <3>1, <4>1, FieldTypes
      <4>3. tasks'[Parent(c)].alternatives >= tasks[Parent(c)].alternatives
        BY <4>1 DEF LedgerKept
      <4>4. Parent(c)' = Parent(c) /\ tasks'[c].branch = tasks[c].branch
        BY <3>1 DEF LedgerKept
      <4>5. Parent(c)' \in Tasks'
        BY <1>3, <4>1, <4>4
      <4> QED
        BY <4>1, <4>2, <4>3, <4>4, <4>5
    <3>2. CASE c \notin Tasks
      BY <1>5, <1>7, <1>8, <3>2
    <3> QED
      BY <3>1, <3>2
  <2>2. Parent(Root)' = NoTask
    BY <1>1 DEF OrderInvariant, Genealogy, LedgerKept
  <2> QED
    BY <2>1, <2>2 DEF Genealogy
<1>10. Outcomes'
  <2> SUFFICES ASSUME NEW c \in Tasks'
               PROVE  /\ Stage(c)' = "none" => tasks'[c].status = "pending"
                                                  /\ frames'[c].result = "none"
                      /\ Active(c)' => tasks'[c].status = "running" /\ frames'[c].result = "none"
                      /\ Stage(c)' = "returned" =>
                           /\ frames'[c].result # "none"
                           /\ \/ tasks'[c].status = frames'[c].result
                              \/ tasks'[c].status = "running" /\ frames'[c].result = "failed"
    BY DEF Outcomes
  <2>1. CASE c \notin Tasks
    BY <1>5, <2>1
  <2>2. CASE c = t
    BY <1>2, <1>4, <1>7, <2>2
  <2>3. CASE c \in Tasks /\ c # t
    BY <1>6, <2>3 DEF OrderInvariant, Outcomes, LedgerKept
  <2> QED
    BY <2>1, <2>2, <2>3
<1>11. Childless'
  <2> SUFFICES ASSUME NEW c \in Tasks', Fresh(c)'
               PROVE  /\ frames'[c].first = 1 /\ frames'[c].last = 0
                      /\ \A e \in Tasks' : Parent(e)' # c
                      /\ Stage(c)' = "leaf" => frames'[c].fit # "required"
    BY DEF Childless
  <2>1. CASE c \notin Tasks
    <3>1. ASSUME NEW e \in Tasks'
          PROVE  Parent(e)' # c
      <4>1. CASE e \in Tasks
        BY <1>1, <1>3, <2>1, <4>1, FieldTypes DEF LedgerKept, Tasks, NoTask
      <4>2. CASE e \notin Tasks
        BY <1>5, <2>1, <4>2
      <4> QED
        BY <4>1, <4>2
    <3> QED
      BY <1>5, <2>1, <3>1
  <2>2. CASE c \in Tasks
    <3>1. c # t /\ Fresh(c) /\ Stage(c)' = Stage(c)
      BY <1>6, <1>7, <2>2
    <3>2. \A e \in Tasks' : Parent(e)' # c
      BY <1>5, <2>2, <3>1 DEF OrderInvariant, Childless, LedgerKept
    <3> QED
      BY <1>6, <2>2, <3>1, <3>2 DEF OrderInvariant, Childless
  <2> QED
    BY <2>1, <2>2
<1>12. BatchesAreChildren'
  <2> SUFFICES ASSUME NEW c \in Tasks', NEW e \in Batch(c)'
               PROVE  Parent(e)' = c /\ tasks'[e].dependencies \subseteq Batch(c)'
    BY DEF BatchesAreChildren
  <2>1. CASE c \notin Tasks
    BY <1>5, <2>1
  <2>2. CASE c = t
    BY <1>5, <1>7, <2>2
  <2>3. CASE c \in Tasks /\ c # t
    BY <1>6, <2>3 DEF OrderInvariant, BatchesAreChildren, LedgerKept
  <2> QED
    BY <2>1, <2>2, <2>3
<1>13. Positions'
  <2> SUFFICES ASSUME NEW c \in Tasks', Loops(c)'
               PROVE  /\ frames'[c].first <= frames'[c].last
                      /\ NextChild(c)' >= frames'[c].first /\ NextChild(c)' <= frames'[c].last + 1
                      /\ \A e \in Batch(c)' :
                           /\ e < NextChild(c)' => Stage(e)' = "returned"
                           /\ e > NextChild(c)' => Stage(e)' = "none"
                           /\ e = NextChild(c)' => IF current' = c THEN Stage(e)' = "none"
                                                                  ELSE Active(e)'
    BY DEF Positions
  <2>1. c \in Tasks
    BY <1>5
  <2>2. CASE c = t
    <3>1. \A e \in Batch(c)' : Stage(e)' = "none" /\ e >= NextChild(c)' /\ e \in Nat
      BY <1>1, <1>3, <1>5, <1>7, <2>2 DEF Tasks
    <3>2. /\ frames'[c].first = tasksCreated + 1 /\ frames'[c].last = tasksCreated + n
          /\ NextChild(c)' = tasksCreated + 1
      BY <1>4, <1>7, <2>2
    <3> QED
      BY <1>1, <2>2, <3>1, <3>2
  <2>3. CASE c # t
    <3>1. Loops(c) /\ Batch(c)' = Batch(c) /\ NextChild(c)' = NextChild(c) /\ current' # c
          /\ frames'[c].first = frames[c].first /\ frames'[c].last = frames[c].last
          /\ current # c /\ Batch(c) \subseteq Tasks
      BY <1>6, <2>1, <2>3
    <3>2. ASSUME NEW e \in Batch(c)
          PROVE  /\ e < NextChild(c) => Stage(e)' = "returned"
                 /\ e > NextChild(c) => Stage(e)' = "none"
                 /\ e = NextChild(c) => Active(e)'
      <4>1. /\ e < NextChild(c) => Stage(e) = "returned"
            /\ e > NextChild(c) => Stage(e) = "none"
            /\ e = NextChild(c) => Active(e)
        BY <2>1, <3>1 DEF OrderInvariant, Positions
      <4>2. CASE e = t
        BY <1>2, <1>7, <4>1, <4>2 DEF Active
      <4>3. CASE e # t
        BY <1>6, <3>1, <4>1, <4>3
      <4> QED
        BY <4>2, <4>3
    <3> QED
      BY <2>1, <3>1, <3>2 DEF OrderInvariant, Positions
  <2> QED
    BY <2>2, <2>3
<1>14. CallChain'
  <2>1. Active(current)'
    BY <1>7 DEF Active, Stage
  <2>2. ASSUME NEW c \in Tasks', Active(c)', c # Root
        PROVE  Loops(Parent(c))' /\ c \in Batch(Parent(c))' /\ NextChild(Parent(c))' = c
    <3>1. c \in Tasks /\ Active(c)
      BY <1>2, <1>5, <1>6, <2>2
    <3> DEFINE q == Parent(c)
    <3>2. q \in Tasks /\ Loops(q) /\ c \in Batch(q) /\ NextChild(q) = c
      BY <2>2, <3>1 DEF OrderInvariant, CallChain, Genealogy
    <3>3. q # t
      BY <2>2, <3>1, CurrentIsInnermost
    <3>4. Parent(c)' = q
      BY <3>1 DEF LedgerKept
    <3>5. frames'[q] = frames[q]
      BY <1>3, <1>4, <3>2, <3>3
    <3> HIDE DEF q
    <3> QED
      BY <3>2, <3>4, <3>5 DEF Loops, Stage, Batch, NextChild
  <2>3. ASSUME NEW c \in Tasks', Active(c)', c # current'
        PROVE  Loops(c)' /\ NextChild(c)' \in Batch(c)'
    <3>1. c \in Tasks /\ c # t /\ Active(c)
      BY <1>5, <1>6, <2>3
    <3> QED
      BY <1>6, <3>1 DEF OrderInvariant, CallChain
  <2> QED
    BY <2>1, <2>2, <2>3 DEF CallChain
<1>15. \A c \in Tasks' : frames'[c].result = IF c \in Tasks THEN frames[c].result ELSE "none"
  BY <1>2, <1>4, <1>5, <1>6
<1>16. \A c \in Tasks : tasks'[c].status = tasks[c].status
  BY DEF LedgerKept
<1>17. BlockReasons'
  <2> SUFFICES ASSUME NEW c \in Tasks', frames'[c].result = "blocked"
               PROVE  \E d \in tasks'[c].dependencies :
                        d >= c \/ frames'[d].result \notin {"none", "done"}
    BY DEF BlockReasons
  <2>1. c \in Tasks /\ tasks'[c].dependencies = tasks[c].dependencies
        /\ frames[c].result = "blocked" /\ tasks[c].dependencies \subseteq Tasks
    BY <1>1, <1>15, FieldTypes DEF LedgerKept
  <2> QED
    BY <1>3, <1>15, <2>1 DEF OrderInvariant, BlockReasons
<1>18. EarlierChildren'
  <2> SUFFICES ASSUME NEW c \in Tasks', Loops(c)', NEW e \in Tasks', Parent(e)' = c,
                      tasks'[e].branch = tasks'[c].alternatives, e \notin Batch(c)'
               PROVE  Stage(c)' = "integrate" /\ tasks'[e].status = "done"
    BY DEF EarlierChildren
  <2>1. c \in Tasks /\ e \in Tasks
    BY <1>5, <1>7
  <2>2. Parent(e) = c /\ tasks[e].branch = tasks'[c].alternatives
    BY <2>1 DEF LedgerKept
  <2>3. CASE c = t
    BY <1>7, <1>16, <2>1, <2>2, <2>3
  <2>4. CASE c # t
    <3>1. Loops(c) /\ e \notin Batch(c) /\ tasks[e].branch = tasks[c].alternatives
          /\ Stage(c)' = Stage(c)
      BY <1>6, <2>1, <2>2, <2>4 DEF LedgerKept
    <3> QED
      BY <1>16, <2>1, <2>2, <3>1 DEF OrderInvariant, EarlierChildren
  <2> QED
    BY <2>3, <2>4
<1>19. BatchesAreCalled'
  <2> SUFFICES ASSUME NEW c \in Tasks', Stage(c)' = "returned", NEW e \in Batch(c)',
                      tasks'[e].kind = tasks'[c].kind
               PROVE  frames'[e].result # "none"
    BY DEF BatchesAreCalled
  <2>1. c \in Tasks /\ c # t
    BY <1>5, <1>7
  <2>2. e \in Batch(c) /\ e \in Tasks /\ tasks[e].kind = tasks[c].kind /\ Stage(c) = "returned"
    BY <1>6, <2>1 DEF LedgerKept
  <2> QED
    BY <1>3, <1>15, <2>1, <2>2 DEF OrderInvariant, BatchesAreCalled
<1>20. DependenciesDoneFirst'
  <2> SUFFICES ASSUME NEW c \in Tasks', frames'[c].stage # "none", tasks'[c].status # "blocked",
                      NEW d \in tasks'[c].dependencies
               PROVE  tasks'[d].status = "done"
    BY DEF DependenciesDoneFirst
  <2>1. c \in Tasks /\ d \in tasks[c].dependencies
    BY <1>5 DEF LedgerKept, Stage
  <2>2. d \in Tasks /\ tasks[c].status # "blocked"
    BY <1>1, <1>16, <2>1, FieldTypes
  <2>3. frames[c].stage # "none"
    BY <1>2, <1>6, <2>1 DEF Stage, Active
  <2> QED
    BY <1>16, <2>1, <2>2, <2>3 DEF OrderInvariant, DependenciesDoneFirst
<1>21. DoneOverDone'
  <2> SUFFICES ASSUME NEW c \in Tasks', tasks'[c].status = "done"
               PROVE  /\ \A e \in Tasks' : Parent(e)' = c /\ tasks'[e].branch = tasks'[c].alternatives
                                              => tasks'[e].status = "done"
                      /\ frames'[c].fit = "required" => \E e \in Tasks' : Parent(e)' = c
    BY DEF DoneOverDone, Parent
  <2>1. c \in Tasks /\ c # t /\ tasks[c].status = "done" /\ tasks'[c].alternatives = tasks[c].alternatives
    BY <1>2, <1>5 DEF LedgerKept
  <2>2. /\ \A e \in Tasks : Parent(e) = c /\ tasks[e].branch = tasks[c].alternatives
                               => tasks[e].status = "done"
        /\ frames[c].fit = "required" => \E e \in Tasks : Parent(e) = c
    BY <2>1 DEF OrderInvariant, DoneOverDone, Parent
  <2>3. ASSUME NEW e \in Tasks', Parent(e)' = c, tasks'[e].branch = tasks'[c].alternatives
        PROVE  tasks'[e].status = "done"
    <3>1. e \in Tasks
      BY <1>5, <2>1, <2>3
    <3> QED
      BY <1>16, <2>1, <2>2, <2>3, <3>1 DEF LedgerKept
  <2> QED
    BY <1>3, <1>6, <2>1, <2>2, <2>3 DEF LedgerKept
<1>22. IntegrationIsFree'
  <2> SUFFICES ASSUME NEW c \in Tasks', Stage(c)' = "integrate", NEW e \in Batch(c)'
               PROVE  tasks'[e].dependencies = {}
    BY DEF IntegrationIsFree
  <2>1. CASE c = t
    BY <1>7, <2>1
  <2>2. CASE c # t
    <3>1. c \in Tasks /\ e \in Batch(c) /\ e \in Tasks /\ Stage(c) = "integrate"
      BY <1>5, <1>6, <2>2
    <3> QED
      BY <3>1 DEF OrderInvariant, IntegrationIsFree, LedgerKept
  <2> QED
    BY <2>1, <2>2
<1> QED
  BY <1>9, <1>10, <1>11, <1>12, <1>13, <1>14, <1>17, <1>18, <1>19, <1>20, <1>21, <1>22
     DEF OrderInvariant

\* The innermost call goes on before its leaf, or the call of its next child begins.
LEMMA OrderAfterCall ==
  ASSUME OrderInvariant, TreeInvariant', NEW x \in Tasks, NEW call,
         UNCHANGED tasksCreated, frames' = [frames EXCEPT ![x] = call], current' = x,
         Fresh(x), call.first = 1, call.last = 0, call.result = "none",
         call.stage \in {"fit", "decompose", "leaf"},
         call.stage = "leaf" => call.fit # "required",
         LedgerKept(x), tasks'[x].status = "running",
         tasks'[x].alternatives = tasks[x].alternatives,
         \/ x = current
         \/ /\ current \in Tasks /\ Loops(current) /\ x = NextChild(current) /\ x \in Batch(current)
            /\ \A d \in tasks[x].dependencies : tasks[d].status = "done"
  PROVE  OrderInvariant'
<1>1. TypeOK /\ BatchesAreTasks /\ x \in Nat /\ Root \in Tasks /\ x # NoTask /\ Tasks' = Tasks
      /\ Root # NoTask
  BY FieldTypes DEF OrderInvariant, TreeInvariant, NoTask, Tasks, Root
<1>2. /\ x = current => Active(x) /\ tasks[x].status = "running"
      /\ x # current => /\ Stage(x) = "none" /\ tasks[x].status = "pending"
                        /\ Parent(x) = current /\ x # Root /\ x = NextChild(current)
      /\ frames[x].result = "none"
  <2>1. CASE x = current
    <3>1. Active(x)
      BY <1>1, <2>1 DEF OrderInvariant, CallChain
    <3> QED
      BY <2>1, <3>1 DEF OrderInvariant, Outcomes
  <2>2. CASE x # current
    <3>1. /\ current \in Tasks /\ Loops(current) /\ x = NextChild(current) /\ x \in Batch(current)
      BY <2>2
    <3>2. Stage(x) = "none" /\ Parent(x) = current
      BY <3>1 DEF OrderInvariant, Positions, BatchesAreChildren
    <3>3. x # Root
      BY <1>1, <3>1, <3>2 DEF OrderInvariant, Genealogy, Tasks, NoTask
    <3> QED
      BY <2>2, <3>2, <3>3 DEF OrderInvariant, Outcomes
  <2> QED
    BY <2>1, <2>2
<1>3. ASSUME NEW c \in Tasks
      PROVE  frames'[c] = IF c = x THEN call ELSE frames[c]
  BY <1>1 DEF TypeOK
<1>4. ASSUME NEW c \in Tasks
      PROVE  /\ frames'[c].first = frames[c].first /\ frames'[c].last = frames[c].last
             /\ Batch(c)' = Batch(c) /\ Batch(c) \subseteq Tasks
             /\ frames'[c].result = frames[c].result
  <2>1. CASE c = x
    <3>1. frames[x].first = 1 /\ frames[x].last = 0
      BY DEF OrderInvariant, Childless
    <3> QED
      BY <1>1, <1>2, <1>3, <2>1, <3>1, BatchIsTasks DEF Batch
  <2>2. CASE c # x
    BY <1>1, <1>3, <2>2, BatchIsTasks DEF Batch
  <2> QED
    BY <2>1, <2>2
<1>5. ASSUME NEW c \in Tasks, c # x
      PROVE  /\ Stage(c)' = Stage(c) /\ NextChild(c)' = NextChild(c)
             /\ Active(c)' <=> Active(c)
             /\ Loops(c)' <=> Loops(c)
             /\ Fresh(c)' <=> Fresh(c)
             /\ frames'[c].fit = frames[c].fit
             /\ tasks'[c].status = tasks[c].status
  <2>1. frames'[c] = frames[c]
    BY <1>3, <1>5
  <2> QED
    BY <1>5, <2>1 DEF Stage, NextChild, Active, Loops, Fresh, LedgerKept
<1>6. Stage(x)' = call.stage /\ Active(x)' /\ ~Loops(x)' /\ Fresh(x)' /\ ~Loops(x)
      /\ Stage(x)' # "none" /\ Stage(x)' # "returned"
  BY <1>3 DEF Stage, Active, Loops, Fresh
<1>7. \A c \in Tasks : tasks'[c].alternatives = tasks[c].alternatives
  BY DEF LedgerKept
<1>8. Genealogy'
  <2>1. ASSUME NEW c \in Tasks, c # Root
        PROVE  /\ Parent(c)' \in Tasks /\ Parent(c)' < c
               /\ tasks'[c].branch <= tasks'[Parent(c)'].alternatives
    <3>1. /\ Parent(c) \in Tasks /\ Parent(c) < c
          /\ tasks[c].branch <= tasks[Parent(c)].alternatives
      BY <2>1 DEF OrderInvariant, Genealogy
    <3> QED
      BY <1>7, <3>1 DEF LedgerKept
  <2>2. Parent(Root)' = NoTask
    BY <1>1 DEF OrderInvariant, Genealogy, LedgerKept
  <2> QED
    BY <1>1, <2>1, <2>2 DEF Genealogy
<1>9. Outcomes'
  <2> SUFFICES ASSUME NEW c \in Tasks
               PROVE  /\ Stage(c)' = "none" => tasks'[c].status = "pending"
                                                  /\ frames'[c].result = "none"
                      /\ Active(c)' => tasks'[c].status = "running" /\ frames'[c].result = "none"
                      /\ Stage(c)' = "returned" =>
                           /\ frames'[c].result # "none"
                           /\ \/ tasks'[c].status = frames'[c].result
                              \/ tasks'[c].status = "running" /\ frames'[c].result = "failed"
    BY <1>1 DEF Outcomes
  <2>1. CASE c = x
    BY <1>2, <1>4, <1>6, <2>1
  <2>2. CASE c # x
    BY <1>4, <1>5, <2>2 DEF OrderInvariant, Outcomes
  <2> QED
    BY <2>1, <2>2
<1>10. Childless'
  <2> SUFFICES ASSUME NEW c \in Tasks, Fresh(c)'
               PROVE  /\ frames'[c].first = 1 /\ frames'[c].last = 0
                      /\ \A e \in Tasks : Parent(e)' # c
                      /\ Stage(c)' = "leaf" => frames'[c].fit # "required"
    BY <1>1 DEF Childless
  <2>1. Fresh(c)
    BY <1>5
  <2>2. frames[c].first = 1 /\ frames[c].last = 0 /\ \A e \in Tasks : Parent(e)' # c
    BY <2>1 DEF OrderInvariant, Childless, LedgerKept
  <2>3. Stage(c)' = "leaf" => frames'[c].fit # "required"
    BY <1>3, <1>5, <1>6, <2>1 DEF OrderInvariant, Childless
  <2> QED
    BY <1>4, <2>2, <2>3
<1>11. BatchesAreChildren'
  <2> SUFFICES ASSUME NEW c \in Tasks, NEW e \in Batch(c)'
               PROVE  Parent(e)' = c /\ tasks'[e].dependencies \subseteq Batch(c)'
    BY <1>1 DEF BatchesAreChildren
  <2>1. e \in Batch(c) /\ e \in Tasks /\ Batch(c)' = Batch(c)
    BY <1>4
  <2>2. Parent(e) = c /\ tasks[e].dependencies \subseteq Batch(c)
    BY <2>1 DEF OrderInvariant, BatchesAreChildren
  <2> QED
    BY <2>1, <2>2 DEF LedgerKept
<1>12. Positions'
  <2> SUFFICES ASSUME NEW c \in Tasks, Loops(c)'
               PROVE  /\ frames'[c].first <= frames'[c].last
                      /\ NextChild(c)' >= frames'[c].first /\ NextChild(c)' <= frames'[c].last + 1
                      /\ \A e \in Batch(c)' :
                           /\ e < NextChild(c)' => Stage(e)' = "returned"
                           /\ e > NextChild(c)' => Stage(e)' = "none"
                           /\ e = NextChild(c)' => IF current' = c THEN Stage(e)' = "none"
                                                                  ELSE Active(e)'
    BY <1>1 DEF Positions
  <2>1. c # x /\ Loops(c) /\ Batch(c)' = Batch(c) /\ NextChild(c)' = NextChild(c) /\ current' # c
        /\ frames'[c].first = frames[c].first /\ frames'[c].last = frames[c].last
    BY <1>4, <1>5, <1>6
  <2>2. ASSUME NEW e \in Batch(c)
        PROVE  /\ e < NextChild(c) => Stage(e)' = "returned"
               /\ e > NextChild(c) => Stage(e)' = "none"
               /\ e = NextChild(c) => Active(e)'
    <3>1. /\ e < NextChild(c) => Stage(e) = "returned"
          /\ e > NextChild(c) => Stage(e) = "none"
          /\ e = NextChild(c) => IF current = c THEN Stage(e) = "none" ELSE Active(e)
          /\ Parent(e) = c /\ e \in Tasks
      BY <1>4, <2>1 DEF OrderInvariant, Positions, BatchesAreChildren
    <3>2. CASE e = x
      <4>1. e = NextChild(c)
        <5>1. CASE x = current
          BY <1>1, <1>2, <2>1, <3>1, <3>2, <5>1 DEF OrderInvariant, CallChain, Genealogy, NoTask, Tasks
        <5>2. CASE x # current
          BY <1>2, <3>1, <3>2, <5>2
        <5> QED
          BY <5>1, <5>2
      <4>2. NextChild(c) \in Nat
        BY <1>1, FieldTypes DEF NextChild
      <4> QED
        BY <1>1, <1>6, <3>2, <4>1, <4>2
    <3>3. CASE e # x
      <4>1. e = NextChild(c) => current # c
        <5>1. CASE x = current
          BY <2>1, <5>1
        <5>2. CASE x # current
          BY <1>2, <3>3, <5>2
        <5> QED
          BY <5>1, <5>2
      <4> QED
        BY <1>5, <3>1, <3>3, <4>1
    <3> QED
      BY <3>2, <3>3
  <2> QED
    BY <2>1, <2>2 DEF OrderInvariant, Positions
<1>13. CallChain'
  <2>1. ASSUME NEW c \in Tasks, Active(c)', c # Root
        PROVE  Loops(Parent(c))' /\ c \in Batch(Parent(c))' /\ NextChild(Parent(c))' = c
    <3> DEFINE q == Parent(c)
    <3>1. q \in Tasks /\ Loops(q) /\ c \in Batch(q) /\ NextChild(q) = c
      <4>1. CASE c = x /\ x # current
        BY <1>2, <4>1
      <4>2. CASE ~(c = x /\ x # current)
        <5>1. Active(c)
          BY <1>2, <1>5, <2>1, <4>2
        <5> QED
          BY <2>1, <5>1 DEF OrderInvariant, CallChain, Genealogy
      <4> QED
        BY <4>1, <4>2
    <3>2. Parent(c)' = q /\ q # x
      BY <1>6, <3>1 DEF LedgerKept
    <3>3. frames'[q] = frames[q]
      BY <1>3, <3>1, <3>2
    <3> HIDE DEF q
    <3> QED
      BY <3>1, <3>2, <3>3 DEF Loops, Stage, Batch, NextChild
  <2>2. ASSUME NEW c \in Tasks, Active(c)', c # current'
        PROVE  Loops(c)' /\ NextChild(c)' \in Batch(c)'
    <3>1. c # x /\ Active(c) /\ (c = current => x # current)
      BY <1>5, <2>2
    <3>2. Loops(c) /\ NextChild(c) \in Batch(c)
      BY <2>2, <3>1 DEF OrderInvariant, CallChain
    <3> QED
      BY <1>4, <1>5, <3>1, <3>2
  <2>3. Active(current)'
    BY <1>6 DEF Active, Stage
  <2> QED
    BY <1>1, <2>1, <2>2, <2>3 DEF CallChain
<1>14. BlockReasons'
  <2> SUFFICES ASSUME NEW c \in Tasks, frames'[c].result = "blocked"
               PROVE  \E d \in tasks'[c].dependencies :
                        d >= c \/ frames'[d].result \notin {"none", "done"}
    BY <1>1 DEF BlockReasons
  <2>1. /\ tasks'[c].dependencies = tasks[c].dependencies
        /\ frames[c].result = "blocked" /\ tasks[c].dependencies \subseteq Tasks
    BY <1>1, <1>4, FieldTypes DEF LedgerKept
  <2> QED
    BY <1>4, <2>1 DEF OrderInvariant, BlockReasons
<1>15. EarlierChildren'
  <2> SUFFICES ASSUME NEW c \in Tasks, Loops(c)', NEW e \in Tasks, Parent(e)' = c,
                      tasks'[e].branch = tasks'[c].alternatives, e \notin Batch(c)'
               PROVE  Stage(c)' = "integrate" /\ tasks'[e].status = "done"
    BY <1>1 DEF EarlierChildren
  <2>1. c # x /\ Loops(c) /\ e \notin Batch(c) /\ Stage(c)' = Stage(c)
    BY <1>4, <1>5, <1>6
  <2>2. Parent(e) = c /\ tasks[e].branch = tasks[c].alternatives
    BY <1>7 DEF LedgerKept
  <2>3. Stage(c) = "integrate" /\ tasks[e].status = "done"
    BY <2>1, <2>2 DEF OrderInvariant, EarlierChildren
  <2> QED
    BY <1>2, <1>5, <2>1, <2>3
<1>16. BatchesAreCalled'
  <2> SUFFICES ASSUME NEW c \in Tasks, Stage(c)' = "returned", NEW e \in Batch(c)',
                      tasks'[e].kind = tasks'[c].kind
               PROVE  frames'[e].result # "none"
    BY <1>1 DEF BatchesAreCalled
  <2>1. c # x /\ Stage(c) = "returned" /\ e \in Batch(c) /\ e \in Tasks
        /\ tasks[e].kind = tasks[c].kind
    BY <1>4, <1>5, <1>6 DEF LedgerKept
  <2> QED
    BY <1>4, <2>1 DEF OrderInvariant, BatchesAreCalled
<1>17. DependenciesDoneFirst'
  <2> SUFFICES ASSUME NEW c \in Tasks, frames'[c].stage # "none", tasks'[c].status # "blocked",
                      NEW d \in tasks'[c].dependencies
               PROVE  tasks'[d].status = "done"
    BY <1>1 DEF DependenciesDoneFirst
  <2>1. d \in tasks[c].dependencies /\ d \in Tasks
    BY <1>1, FieldTypes DEF LedgerKept
  <2>2. tasks[d].status = "done"
    <3>1. CASE c = x
      <4>1. CASE x = current
        BY <1>2, <2>1, <3>1, <4>1 DEF OrderInvariant, DependenciesDoneFirst, Active, Stage
      <4>2. CASE x # current
        BY <2>1, <3>1, <4>2
      <4> QED
        BY <4>1, <4>2
    <3>2. CASE c # x
      BY <1>5, <2>1, <3>2 DEF OrderInvariant, DependenciesDoneFirst, Stage
    <3> QED
      BY <3>1, <3>2
  <2> QED
    BY <1>2, <1>5, <2>1, <2>2
<1>18. DoneOverDone'
  <2> SUFFICES ASSUME NEW c \in Tasks, tasks'[c].status = "done"
               PROVE  /\ \A e \in Tasks : Parent(e)' = c /\ tasks'[e].branch = tasks'[c].alternatives
                                              => tasks'[e].status = "done"
                      /\ frames'[c].fit = "required" => \E e \in Tasks : Parent(e)' = c
    BY <1>1 DEF DoneOverDone, Parent
  <2>1. c # x /\ tasks[c].status = "done"
    BY <1>5
  <2>2. /\ \A e \in Tasks : Parent(e) = c /\ tasks[e].branch = tasks[c].alternatives
                               => tasks[e].status = "done"
        /\ frames[c].fit = "required" => \E e \in Tasks : Parent(e) = c
    BY <2>1 DEF OrderInvariant, DoneOverDone, Parent
  <2>3. ASSUME NEW e \in Tasks, Parent(e)' = c, tasks'[e].branch = tasks'[c].alternatives
        PROVE  tasks'[e].status = "done"
    BY <1>2, <1>5, <1>7, <2>2, <2>3 DEF LedgerKept
  <2> QED
    BY <1>5, <2>1, <2>2, <2>3 DEF LedgerKept
<1>19. IntegrationIsFree'
  <2> SUFFICES ASSUME NEW c \in Tasks', Stage(c)' = "integrate", NEW e \in Batch(c)'
               PROVE  tasks'[e].dependencies = {}
    BY DEF IntegrationIsFree
  <2>1. c \in Tasks /\ c # x /\ e \in Batch(c) /\ e \in Tasks /\ Stage(c) = "integrate"
    BY <1>1, <1>4, <1>5, <1>6
  <2> QED
    BY <2>1 DEF OrderInvariant, IntegrationIsFree, LedgerKept
<1> QED
  BY <1>8, <1>9, <1>10, <1>11, <1>12, <1>13, <1>14, <1>15, <1>16, <1>17, <1>18, <1>19
     DEF OrderInvariant
-----------------------------------------------------------------------------
(* What the calls that end know.                                           *)

\* A call without a loop has no batch, and its task no children.
LEMMA FreshIsChildless ==
  ASSUME OrderInvariant, NEW t \in Tasks, Fresh(t)
  PROVE  Batch(t) = {} /\ \A c \in Tasks : Parent(c) # t
<1>1. frames[t].first = 1 /\ frames[t].last = 0 /\ \A c \in Tasks : Parent(c) # t
  BY DEF OrderInvariant, Childless
<1> QED
  BY <1>1 DEF Batch

\* A loop that has passed its batch, and one over integration tasks, leave no
\* child of the decomposition uncalled.
LEMMA LoopHasCalled ==
  ASSUME OrderInvariant, NEW t \in Tasks, Loops(t),
         NextChild(t) \notin Batch(t) \/ Stage(t) = "integrate"
  PROVE  \A c \in Batch(t) : tasks[c].kind = tasks[t].kind => frames[c].result # "none"
<1> SUFFICES ASSUME NEW c \in Batch(t), tasks[c].kind = tasks[t].kind
             PROVE  frames[c].result # "none"
  OBVIOUS
<1>1. TypeOK /\ BatchesAreTasks
  BY DEF OrderInvariant, TreeInvariant
<1>2. c \in Tasks /\ c \in Nat
  BY <1>1, BatchIsTasks, FieldTypes
<1>3. Stage(t) # "integrate"
  <2>1. Stage(t) = "integrate" => tasks[t].kind = "implementation" /\ tasks[c].kind = "integration"
    BY DEF OrderInvariant, TreeInvariant, DepthOfCalls
  <2> QED
    BY <2>1
<1>4. /\ frames[t].first \in Nat /\ frames[t].last \in Nat /\ NextChild(t) \in Nat
      /\ NextChild(t) >= frames[t].first /\ NextChild(t) <= frames[t].last + 1
  BY <1>1, FieldTypes DEF NextChild, OrderInvariant, Positions
<1>5. c < NextChild(t)
  BY <1>2, <1>3, <1>4 DEF Batch
<1>6. Stage(c) = "returned"
  BY <1>5 DEF OrderInvariant, Positions
<1> QED
  BY <1>2, <1>6 DEF OrderInvariant, Outcomes

\* The results of a loop whose children are all verified.
LEMMA VerifiedBatch ==
  ASSUME OrderInvariant, NEW t \in Tasks, Loops(t), FailedChildren(t) = {}
  PROVE  /\ \A c \in Tasks : Parent(c) = t /\ tasks[c].branch = tasks[t].alternatives
                                 => tasks[c].status = "done"
         /\ \E c \in Tasks : Parent(c) = t
<1>1. TypeOK /\ BatchesAreTasks /\ Batch(t) \subseteq Tasks
  BY BatchIsTasks DEF OrderInvariant, TreeInvariant
<1>2. ASSUME NEW c \in Batch(t)
      PROVE  tasks[c].status = "done" /\ Parent(c) = t
  <2>1. frames[c].result = "done" /\ c \in Tasks
    BY <1>1 DEF FailedChildren
  <2>2. Fresh(c) \/ Loops(c) \/ Stage(c) = "returned"
    BY <1>1, <2>1, FieldTypes
  <2>3. Stage(c) = "returned"
    BY <2>1, <2>2 DEF OrderInvariant, Outcomes, Fresh, Loops, Active
  <2> QED
    BY <2>1, <2>3 DEF OrderInvariant, Outcomes, BatchesAreChildren
<1>3. frames[t].first \in Batch(t)
  BY <1>1, FieldTypes DEF OrderInvariant, Positions, Batch
<1> QED
  BY <1>1, <1>2, <1>3 DEF OrderInvariant, EarlierChildren
-----------------------------------------------------------------------------
(* What the actions do to the ledger.                                      *)

\* ledger is the one of the state, with perhaps more alternatives tried by t.
SameLedger(ledger, t) ==
  \A c \in Tasks :
    /\ ledger[c].parent = tasks[c].parent /\ ledger[c].kind = tasks[c].kind
    /\ ledger[c].dependencies = tasks[c].dependencies /\ ledger[c].branch = tasks[c].branch
    /\ ledger[c].status = tasks[c].status
    /\ c # t => ledger[c].alternatives = tasks[c].alternatives
    /\ ledger[c].alternatives >= tasks[c].alternatives

\* The tasks of a ledger that grew.
LEMMA GrownTasks ==
  ASSUME TypeOK, NEW n \in Nat, NEW ledger, NEW t, NEW kind, NEW d, NEW accepted,
         NEW c \in 1 .. tasksCreated + n
  PROVE  /\ c \in Tasks => Grow(ledger, t, n, kind, d, accepted)[c] = ledger[c]
         /\ c \notin Tasks =>
              /\ Grow(ledger, t, n, kind, d, accepted)[c].parent = t
              /\ Grow(ledger, t, n, kind, d, accepted)[c].branch = ledger[t].alternatives
              /\ Grow(ledger, t, n, kind, d, accepted)[c].status = "pending"
              /\ Grow(ledger, t, n, kind, d, accepted)[c].dependencies = d[c]
BY DEF Grow, MakeTask

\* The dependencies of the tasks that a step creates.
DependenciesAre(d) == \A c \in Tasks' : c \notin Tasks => tasks'[c].dependencies = d[c]

\* The step is the growth of ledger under t.
Grows(ledger, t, n, kind, d, accepted) == tasks' = Grow(ledger, t, n, kind, d, accepted)

\* The ledger after it grew under t.
LEMMA LedgerGrows ==
  ASSUME TypeOK, NEW t \in Tasks, NEW n \in Nat, tasksCreated' = tasksCreated + n,
         NEW ledger, SameLedger(ledger, t), NEW kind, NEW accepted,
         NEW d \in [tasksCreated + 1 .. tasksCreated + n
                     -> SUBSET (tasksCreated + 1 .. tasksCreated + n)],
         Grows(ledger, t, n, kind, d, accepted)
  PROVE  /\ LedgerKept(t) /\ NewUnder(t)
         /\ tasks'[t].status = tasks[t].status /\ tasks'[t].alternatives = ledger[t].alternatives
         /\ DependenciesAre(d)
<1>1. /\ tasksCreated \in Nat /\ Tasks' = 1 .. tasksCreated + n /\ Tasks \subseteq Tasks'
      /\ Tasks' \ Tasks = tasksCreated + 1 .. tasksCreated + n
  BY DEF TypeOK, Tasks
<1>2. ASSUME NEW c \in Tasks
      PROVE  tasks'[c] = ledger[c]
  BY <1>1, GrownTasks DEF Grows
<1>3. ASSUME NEW c \in Tasks', c \notin Tasks
      PROVE  /\ tasks'[c].parent = t /\ tasks'[c].branch = ledger[t].alternatives
             /\ tasks'[c].status = "pending" /\ tasks'[c].dependencies = d[c]
             /\ d[c] \subseteq Tasks' \ Tasks
  <2>1. c \in tasksCreated + 1 .. tasksCreated + n
    BY <1>1, <1>3
  <2> QED
    BY <1>1, <1>3, <2>1, GrownTasks DEF Grows
<1>4. LedgerKept(t)
  BY <1>2 DEF LedgerKept, SameLedger, Parent
<1>5. NewUnder(t)
  BY <1>2, <1>3 DEF NewUnder, Parent
<1>6. DependenciesAre(d)
  BY <1>3 DEF DependenciesAre
<1> QED
  BY <1>2, <1>4, <1>5, <1>6 DEF SameLedger

\* The fields of the tasks after the result of t was marked.
LEMMA MarkedTasks ==
  ASSUME NEW ts, NEW t \in ts, NEW status, NEW ledger \in [ts -> TaskRecords(ts)],
         Mark(ledger, t, status), NEW c \in ts
  PROVE  /\ tasks'[c].parent = ledger[c].parent /\ tasks'[c].kind = ledger[c].kind
         /\ tasks'[c].dependencies = ledger[c].dependencies /\ tasks'[c].branch = ledger[c].branch
         /\ tasks'[c].alternatives = ledger[c].alternatives
         /\ tasks'[c].status = IF c = t THEN status ELSE ledger[c].status
<1>1. tasks' = [ledger EXCEPT ![t].status = status] /\ ledger[c] \in TaskRecords(ts)
  BY DEF Mark
<1>2. CASE c = t
  <2>1. tasks'[c] = [ledger[c] EXCEPT !.status = status]
    BY <1>1, <1>2
  <2> QED
    BY <1>1, <1>2, <2>1 DEF TaskRecords
<1>3. CASE c # t
  BY <1>1, <1>3
<1> QED
  BY <1>2, <1>3

\* The ledger after it grew under t and the result of t was marked.
LEMMA LedgerMarked ==
  ASSUME TypeOK, NEW t \in Tasks, NEW n \in Nat, tasksCreated' = tasksCreated + n,
         NEW ledger \in [Tasks -> TaskRecords(Tasks)], SameLedger(ledger, t),
         NEW kind \in Kinds, NEW accepted \in BOOLEAN,
         NEW d \in [tasksCreated + 1 .. tasksCreated + n
                     -> SUBSET (tasksCreated + 1 .. tasksCreated + n)],
         NEW status, Mark(Grow(ledger, t, n, kind, d, accepted), t, status)
  PROVE  /\ LedgerKept(t) /\ NewUnder(t)
         /\ tasks'[t].status = status /\ tasks'[t].alternatives = ledger[t].alternatives
<1> DEFINE g == Grow(ledger, t, n, kind, d, accepted)
<1>1. /\ tasksCreated \in Nat /\ Tasks' = 1 .. tasksCreated + n /\ Tasks \subseteq Tasks'
      /\ Tasks' \ Tasks = tasksCreated + 1 .. tasksCreated + n
  BY DEF TypeOK, Tasks
<1>2. g \in [Tasks' -> TaskRecords(Tasks')]
  BY <1>1, GrowType
<1>3. ASSUME NEW c \in Tasks'
      PROVE  /\ c \in Tasks => g[c] = ledger[c]
             /\ c \notin Tasks =>
                  /\ g[c].parent = t /\ g[c].branch = ledger[t].alternatives
                  /\ g[c].status = "pending" /\ g[c].dependencies = d[c]
                  /\ d[c] \subseteq Tasks' \ Tasks
  BY <1>1, GrownTasks
<1>4. Mark(g, t, status)
  OBVIOUS
<1> HIDE DEF g
<1>5. ASSUME NEW c \in Tasks'
      PROVE  /\ tasks'[c].parent = g[c].parent /\ tasks'[c].kind = g[c].kind
             /\ tasks'[c].dependencies = g[c].dependencies /\ tasks'[c].branch = g[c].branch
             /\ tasks'[c].alternatives = g[c].alternatives
             /\ tasks'[c].status = IF c = t THEN status ELSE g[c].status
  <2> DEFINE ts == Tasks'
  <2>1. g \in [ts -> TaskRecords(ts)] /\ t \in ts /\ c \in ts
    BY <1>1, <1>2
  <2> HIDE DEF ts
  <2> QED
    BY <1>4, <2>1, MarkedTasks
<1>6. LedgerKept(t)
  BY <1>1, <1>3, <1>5 DEF LedgerKept, SameLedger, Parent
<1>7. NewUnder(t)
  BY <1>1, <1>3, <1>5 DEF NewUnder, Parent
<1> QED
  BY <1>1, <1>3, <1>5, <1>6, <1>7

\* The call for x is over, with its result marked.
LEMMA MarkedOrder ==
  ASSUME OrderInvariant, TreeInvariant', NEW x \in Tasks, NEW n \in Nat,
         NEW r \in {"done", "failed", "blocked", "too_broad"},
         NEW ledger \in [Tasks -> TaskRecords(Tasks)], SameLedger(ledger, x),
         NEW accepted \in BOOLEAN,
         tasksCreated' = tasksCreated + n,
         Mark(Grow(ledger, x, n, tasks[x].kind, NoDependencies(n), accepted), x, r),
         frames' = Returned(GrowCalls(n), x, r), current' = Parent(x), MayReturn(x, r),
         r = "done" => n = 0 /\ ledger = tasks
  PROVE  OrderInvariant'
<1>1. TypeOK /\ tasks[x].kind \in Kinds
  BY FieldTypes DEF OrderInvariant, TreeInvariant
<1>2. NoDependencies(n) \in [tasksCreated + 1 .. tasksCreated + n
                              -> SUBSET (tasksCreated + 1 .. tasksCreated + n)]
  BY DEF NoDependencies
<1> DEFINE kind == tasks[x].kind
           d == NoDependencies(n)
<1>3. kind \in Kinds /\ Mark(Grow(ledger, x, n, kind, d, accepted), x, r)
  BY <1>1
<1>4. d \in [tasksCreated + 1 .. tasksCreated + n -> SUBSET (tasksCreated + 1 .. tasksCreated + n)]
  BY <1>2
<1> HIDE DEF kind, d
<1>5. /\ LedgerKept(x) /\ NewUnder(x)
      /\ tasks'[x].status = r /\ tasks'[x].alternatives = ledger[x].alternatives
  BY <1>1, <1>3, <1>4, LedgerMarked
<1>6. r = "done" => Tasks' = Tasks /\ tasks'[x].alternatives = tasks[x].alternatives
  BY <1>1, <1>5 DEF Tasks, TypeOK
<1>7. r \in Results /\ r # "none"
  BY DEF Results
<1> QED
  BY <1>5, <1>6, <1>7, OrderAfterReturn

\* Marking a ledger that does not grow is marking one that grows by nothing.
LEMMA GrowsByNothing ==
  ASSUME TypeOK, NEW ledger \in [Tasks -> TaskRecords(Tasks)], NEW t, NEW kind, NEW d, NEW accepted
  PROVE  /\ Grow(ledger, t, 0, kind, d, accepted) = ledger /\ GrowCalls(0) = frames
         /\ tasksCreated = tasksCreated + 0
<1>1. tasksCreated \in Nat /\ 1 .. tasksCreated + 0 = Tasks
  BY DEF TypeOK, Tasks
<1> QED
  BY <1>1 DEF Grow, GrowCalls, TypeOK

\* The innermost call returns.
LEMMA ReturnsOrder ==
  ASSUME OrderInvariant, TreeInvariant', NEW t \in Tasks,
         NEW r \in {"done", "failed", "blocked", "too_broad"}, Returns(t, r), MayReturn(t, r)
  PROVE  OrderInvariant'
<1>1. TypeOK /\ tasks \in [Tasks -> TaskRecords(Tasks)]
  BY DEF OrderInvariant, TreeInvariant, TypeOK
<1>2. SameLedger(tasks, t)
  <2>1. \A c \in Tasks : tasks[c].alternatives \in Nat
    BY <1>1, FieldTypes
  <2> QED
    BY <2>1 DEF SameLedger
<1>3. /\ Grow(tasks, t, 0, tasks[t].kind, NoDependencies(0), TRUE) = tasks /\ GrowCalls(0) = frames
      /\ tasksCreated = tasksCreated + 0
  BY <1>1, GrowsByNothing
<1>4. /\ tasksCreated' = tasksCreated + 0 /\ 0 \in Nat /\ TRUE \in BOOLEAN
      /\ Mark(Grow(tasks, t, 0, tasks[t].kind, NoDependencies(0), TRUE), t, r)
      /\ frames' = Returned(GrowCalls(0), t, r) /\ current' = Parent(t)
  BY <1>3 DEF Returns, Parent
<1> QED
  BY <1>1, <1>2, <1>4, MarkedOrder
-----------------------------------------------------------------------------
(* What each action does to the invariant.                                 *)

\* Initially only the root is called.
LEMMA InitOrder == Init => OrderInvariant
<1> SUFFICES ASSUME Init
             PROVE  OrderInvariant
  OBVIOUS
<1>1. TreeInvariant
  BY InitInvariant
<1>2. Tasks = {1} /\ current = 1 /\ Root = 1
  BY DEF Init, Tasks, Root
<1>3. PICK fit \in Fits("implementation") : frames = [t \in Tasks |-> Call(0, fit)]
  BY DEF Init
<1>4. tasks[1] = [MakeTask(NoTask, 0, "implementation", {}, TRUE, 0) EXCEPT !.status = "running"]
  BY <1>2 DEF Init
<1>5. Parent(1) = NoTask /\ tasks[1].status = "running" /\ tasks[1].dependencies = {}
  BY <1>4 DEF MakeTask, Parent
<1>6. /\ Stage(1) = "fit" /\ frames[1].first = 1 /\ frames[1].last = 0
      /\ frames[1].result = "none"
  BY <1>2, <1>3 DEF Call, NoCall, Stage
<1>7. Batch(1) = {} /\ ~Loops(1) /\ Fresh(1)
  BY <1>6 DEF Batch, Loops, Fresh
<1>8. Genealogy /\ Outcomes /\ Childless
  BY <1>2, <1>5, <1>6 DEF Genealogy, Outcomes, Childless, NoTask
<1>9. BatchesAreChildren /\ Positions /\ CallChain
  BY <1>2, <1>5, <1>6, <1>7 DEF BatchesAreChildren, Positions, CallChain, Active
<1>10. BlockReasons /\ EarlierChildren /\ BatchesAreCalled /\ IntegrationIsFree
  BY <1>2, <1>6, <1>7 DEF BlockReasons, EarlierChildren, BatchesAreCalled, IntegrationIsFree
<1>11. DependenciesDoneFirst /\ DoneOverDone
  BY <1>2, <1>5 DEF DependenciesDoneFirst, DoneOverDone
<1> QED
  BY <1>1, <1>8, <1>9, <1>10, <1>11 DEF OrderInvariant

\* A call that has not looped may return anything its action says.
LEMMA FreshMayReturn ==
  ASSUME OrderInvariant, NEW t \in Tasks, current = t, Fresh(t), NEW r, r # "blocked",
         r = "done" => Stage(t) = "leaf"
  PROVE  MayReturn(t, r)
<1>1. Batch(t) = {} /\ \A c \in Tasks : Parent(c) # t
  BY FreshIsChildless
<1>2. r = "done" => frames[t].fit # "required"
  BY DEF OrderInvariant, Childless
<1> QED
  BY <1>1, <1>2 DEF MayReturn

\* A loop that is over may return "done" when all its children are.
LEMMA LoopMayReturn ==
  ASSUME OrderInvariant, NEW t \in Tasks, current = t, Loops(t), NEW r, r # "blocked",
         NextChild(t) \notin Batch(t) \/ Stage(t) = "integrate",
         r = "done" => FailedChildren(t) = {}
  PROVE  MayReturn(t, r)
<1>1. \A c \in Batch(t) : tasks[c].kind = tasks[t].kind => frames[c].result # "none"
  BY LoopHasCalled
<1>2. r = "done" =>
        /\ \A c \in Tasks : Parent(c) = t /\ tasks[c].branch = tasks[t].alternatives
                              => tasks[c].status = "done"
        /\ \E c \in Tasks : Parent(c) = t
  BY VerifiedBatch
<1> QED
  BY <1>1, <1>2 DEF MayReturn

\* The ledgers the actions start from.
LEMMA LedgersAreSame ==
  ASSUME OrderInvariant, NEW t \in Tasks
  PROVE  /\ tasks \in [Tasks -> TaskRecords(Tasks)] /\ SameLedger(tasks, t)
         /\ tasks[t].alternatives < MaxAlternatives =>
              /\ Tried(t) \in [Tasks -> TaskRecords(Tasks)] /\ SameLedger(Tried(t), t)
              /\ Tried(t)[t].alternatives = tasks[t].alternatives + 1
<1>1. TreeInvariant /\ TypeOK
  BY DEF OrderInvariant, TreeInvariant
<1>2. \A c \in Tasks : tasks[c].alternatives \in Nat
  BY <1>1, FieldTypes
<1>3. tasks \in [Tasks -> TaskRecords(Tasks)] /\ \A c \in Tasks : tasks[c] \in TaskRecords(Tasks)
  BY <1>1 DEF TypeOK
<1>4. ASSUME tasks[t].alternatives < MaxAlternatives
      PROVE  /\ Tried(t) \in [Tasks -> TaskRecords(Tasks)] /\ SameLedger(Tried(t), t)
             /\ Tried(t)[t].alternatives = tasks[t].alternatives + 1
  <2>1. Tried(t) \in [Tasks -> TaskRecords(Tasks)]
    BY <1>1, <1>4, TriedType
  <2>2. Tried(t)[t] = [tasks[t] EXCEPT !.alternatives = tasks[t].alternatives + 1]
    BY <1>3 DEF Tried
  <2>3. /\ Tried(t)[t].alternatives = tasks[t].alternatives + 1
        /\ Tried(t)[t].parent = tasks[t].parent /\ Tried(t)[t].kind = tasks[t].kind
        /\ Tried(t)[t].dependencies = tasks[t].dependencies /\ Tried(t)[t].branch = tasks[t].branch
        /\ Tried(t)[t].status = tasks[t].status
    BY <1>3, <2>2 DEF TaskRecords
  <2>4. \A c \in Tasks : c # t => Tried(t)[c] = tasks[c]
    BY <1>3 DEF Tried
  <2> QED
    BY <1>2, <2>1, <2>3, <2>4 DEF SameLedger
<1> QED
  BY <1>2, <1>3, <1>4 DEF SameLedger

\* A call that is not at a loop returns.
LEMMA FreshReturnsOrder ==
  ASSUME OrderInvariant, TreeInvariant', NEW t \in Tasks,
         \/ FitFails(t) \/ SplitFails(t) \/ LeafEnds(t) \/ LeafTooBroad(t)
         \/ NoSplit(t) /\ Returns(t, "failed")
  PROVE  OrderInvariant'
<1>1. PICK r \in {"done", "failed", "too_broad"} :
        Returns(t, r) /\ (r = "done" => At("leaf", t))
  BY DEF FitFails, SplitFails, LeafEnds, LeafTooBroad
<1>2. current = t /\ Fresh(t) /\ (r = "done" => Stage(t) = "leaf")
  BY <1>1 DEF FitFails, SplitFails, LeafEnds, LeafTooBroad, NoSplit, At, Fresh, Stage
<1>3. MayReturn(t, r)
  BY <1>2, FreshMayReturn
<1> QED
  BY <1>1, <1>3, ReturnsOrder

\* A call that is at a loop returns.
LEMMA LoopReturnsOrder ==
  ASSUME OrderInvariant, TreeInvariant', NEW t \in Tasks,
         ChildrenFail(t) \/ Aggregates(t) \/ Integrates(t) \/ IntegrationFails(t)
  PROVE  OrderInvariant'
<1>1. PICK r \in {"done", "failed"} : Returns(t, r) /\ (r = "done" => FailedChildren(t) = {})
  BY DEF ChildrenFail, Aggregates, Integrates, IntegrationFails
<1>2. current = t /\ Loops(t) /\ (NextChild(t) \notin Batch(t) \/ Stage(t) = "integrate")
  BY DEF ChildrenFail, Aggregates, Integrates, IntegrationFails, ChildrenOver, At, Loops, Stage
<1>3. MayReturn(t, r)
  BY <1>1, <1>2, LoopMayReturn
<1> QED
  BY <1>1, <1>3, ReturnsOrder

\* A split that is not run, an alternative that is rejected, a re-split without
\* an answer.
LEMMA UnsplitOrder ==
  ASSUME OrderInvariant, TreeInvariant', NEW t \in Tasks,
         SplitRefused(t) \/ ResplitMerged(t) \/ AlternativeRejected(t) \/ ResplitFails(t)
  PROVE  OrderInvariant'
<1>1. TypeOK /\ tasks \in [Tasks -> TaskRecords(Tasks)] /\ SameLedger(tasks, t)
  BY LedgersAreSame DEF OrderInvariant, TreeInvariant
<1>2. CASE SplitRefused(t) \/ ResplitMerged(t)
  <2>1. PICK n \in Nat, r \in {"failed", "too_broad"}, accepted \in BOOLEAN :
          /\ tasksCreated' = tasksCreated + n
          /\ Mark(Grow(tasks, t, n, tasks[t].kind, NoDependencies(n), accepted), t, r)
          /\ frames' = Returned(GrowCalls(n), t, r)
    <3>1. CASE SplitRefused(t)
      <4>1. PICK n \in 2 .. Smaller(MaxChildren, Remaining) :
              /\ tasksCreated' = tasksCreated + n
              /\ Mark(Grow(tasks, t, n, tasks[t].kind, NoDependencies(n), FALSE), t, "failed")
              /\ frames' = Returned(GrowCalls(n), t, "failed")
        BY <3>1 DEF SplitRefused
      <4>2. n \in Nat /\ "failed" \in {"failed", "too_broad"} /\ FALSE \in BOOLEAN
        OBVIOUS
      <4> QED
        BY <4>1, <4>2
    <3>2. CASE ResplitMerged(t)
      <4>1. PICK r \in {"failed", "too_broad"} :
              /\ Mark(Grow(tasks, t, 1, tasks[t].kind, NoDependencies(1), TRUE), t, r)
              /\ frames' = Returned(GrowCalls(1), t, r)
        BY <3>2 DEF ResplitMerged
      <4>2. tasksCreated' = tasksCreated + 1 /\ 1 \in Nat /\ TRUE \in BOOLEAN
        BY <3>2 DEF ResplitMerged
      <4> QED
        BY <4>1, <4>2
    <3> QED
      BY <1>2, <3>1, <3>2
  <2>2. current = t /\ Fresh(t) /\ current' = Parent(t)
    BY <1>2 DEF SplitRefused, ResplitMerged, At, Fresh, Stage, Parent
  <2>3. MayReturn(t, r)
    BY <2>2, FreshMayReturn
  <2> QED
    BY <1>1, <2>1, <2>2, <2>3, MarkedOrder
<1>3. CASE AlternativeRejected(t)
  <2>1. /\ current = t /\ Loops(t) /\ NextChild(t) \notin Batch(t)
        /\ tasks[t].alternatives < MaxAlternatives /\ current' = Parent(t)
        /\ Mark(Tried(t), t, "failed") /\ frames' = Returned(frames, t, "failed")
        /\ UNCHANGED tasksCreated
    BY <1>3 DEF AlternativeRejected, Backtracks, ChildrenOver, At, Loops, Stage, Parent
  <2>2. Tried(t) \in [Tasks -> TaskRecords(Tasks)] /\ SameLedger(Tried(t), t)
    BY <2>1, LedgersAreSame
  <2>3. MayReturn(t, "failed")
    BY <2>1, LoopMayReturn
  <2>4. /\ Grow(Tried(t), t, 0, tasks[t].kind, NoDependencies(0), TRUE) = Tried(t)
        /\ GrowCalls(0) = frames /\ tasksCreated = tasksCreated + 0
    <3> DEFINE ledger == Tried(t)
               kind == tasks[t].kind
               d == NoDependencies(0)
    <3>1. ledger \in [Tasks -> TaskRecords(Tasks)]
      BY <2>2
    <3> HIDE DEF ledger, kind, d
    <3>2. TypeOK
      BY <1>1
    <3>3. /\ Grow(ledger, t, 0, kind, d, TRUE) = ledger
          /\ GrowCalls(0) = frames /\ tasksCreated = tasksCreated + 0
      BY <3>1, <3>2, GrowsByNothing
    <3> QED
      BY <3>3 DEF ledger, kind, d
  <2>5. /\ tasksCreated' = tasksCreated + 0 /\ 0 \in Nat /\ TRUE \in BOOLEAN
        /\ Mark(Grow(Tried(t), t, 0, tasks[t].kind, NoDependencies(0), TRUE), t, "failed")
        /\ frames' = Returned(GrowCalls(0), t, "failed")
    BY <2>1, <2>4
  <2> QED
    BY <2>1, <2>2, <2>3, <2>5, MarkedOrder
<1>4. CASE ResplitFails(t)
  <2>1. /\ current = t /\ Fresh(t) /\ frames' = Returned(frames, t, "failed")
        /\ current' = Parent(t) /\ UNCHANGED tasksCreated /\ UNCHANGED tasks
    BY <1>4 DEF ResplitFails, At, Fresh, Stage, Parent
  <2>2. MayReturn(t, "failed")
    BY <2>1, FreshMayReturn
  <2>3. GrowCalls(0) = frames /\ tasksCreated = tasksCreated + 0 /\ Tasks' = Tasks
    BY <1>1, <2>1, GrowsByNothing DEF Tasks
  <2>4. LedgerKept(t) /\ NewUnder(t)
    BY <1>1, <2>1, <2>3 DEF LedgerKept, NewUnder, SameLedger, Parent
  <2>5. tasks[t].status = "running"
    BY <2>1, <2>2, PlaceOfReturn
  <2>6. /\ tasksCreated' = tasksCreated + 0 /\ 0 \in Nat /\ "failed" \in Results
        /\ frames' = Returned(GrowCalls(0), t, "failed") /\ tasks'[t].status = "running"
    BY <2>1, <2>3, <2>5 DEF Results
  <2> QED
    BY <2>1, <2>2, <2>4, <2>6, OrderAfterReturn
<1> QED
  BY <1>2, <1>3, <1>4

\* A child is blocked.
LEMMA BlocksOrder ==
  ASSUME OrderInvariant, TreeInvariant', NEW t \in Tasks, Blocks(t)
  PROVE  OrderInvariant'
<1> DEFINE x == NextChild(t)
<1>1. /\ current = t /\ Loops(t) /\ x \in Batch(t) /\ BlockedBy(x) # {}
      /\ Mark(tasks, x, "blocked") /\ frames' = Returned(frames, x, "blocked")
      /\ tasksCreated' = tasksCreated /\ current' = t /\ x = NextChild(t)
  BY DEF Blocks, At, Loops, Stage
<1> HIDE DEF x
<1>2. TypeOK /\ BatchesAreTasks /\ Batch(t) \subseteq Tasks /\ x \in Tasks
  BY <1>1, BatchIsTasks DEF OrderInvariant, TreeInvariant
<1>3. Stage(x) = "none" /\ Parent(x) = t /\ tasks[x].dependencies \subseteq Batch(t)
  BY <1>1 DEF OrderInvariant, Positions, BatchesAreChildren
<1>4. \E d \in tasks[x].dependencies : d >= x \/ frames[d].result \notin {"none", "done"}
  <2>1. PICK d \in tasks[x].dependencies : Label(d) # "COMPLETED"
    BY <1>1 DEF BlockedBy
  <2>2. frames[d].result # "done"
    BY <2>1 DEF Label
  <2>3. d \in Batch(t) /\ d \in Nat /\ x \in Nat
    BY <1>2, <1>3, FieldTypes
  <2>4. d < x => frames[d].result # "none"
    BY <1>1, <1>2, <2>3 DEF OrderInvariant, Positions, Outcomes
  <2> QED
    BY <2>2, <2>3, <2>4
<1>5. Fresh(x) /\ Batch(x) = {}
  BY <1>2, <1>3, FreshIsChildless DEF Fresh
<1>6. MayReturn(x, "blocked")
  BY <1>1, <1>2, <1>4, <1>5 DEF MayReturn
<1>7. tasks \in [Tasks -> TaskRecords(Tasks)] /\ SameLedger(tasks, x)
  BY <1>2, LedgersAreSame
<1>8. /\ Grow(tasks, x, 0, tasks[x].kind, NoDependencies(0), TRUE) = tasks
      /\ GrowCalls(0) = frames /\ tasksCreated = tasksCreated + 0
  BY <1>2, <1>7, GrowsByNothing
<1>9. /\ tasksCreated' = tasksCreated + 0 /\ 0 \in Nat /\ TRUE \in BOOLEAN
      /\ Mark(Grow(tasks, x, 0, tasks[x].kind, NoDependencies(0), TRUE), x, "blocked")
      /\ frames' = Returned(GrowCalls(0), x, "blocked") /\ current' = Parent(x)
  BY <1>1, <1>3, <1>8
<1> QED
  BY <1>2, <1>6, <1>7, <1>9, MarkedOrder

\* A loop over new tasks begins, over a ledger in which t has tried as many
\* alternatives as before, or one more.
LEMMA GrownOrder ==
  ASSUME OrderInvariant, TreeInvariant', NEW t \in Tasks, current = t, UNCHANGED current,
         NEW n \in Nat \ {0}, NEW stage \in {"children", "integrate"}, Runs(t, n, stage),
         NEW ledger, SameLedger(ledger, t), NEW kind, NEW accepted,
         NEW d \in [tasksCreated + 1 .. tasksCreated + n
                     -> SUBSET (tasksCreated + 1 .. tasksCreated + n)],
         Grows(ledger, t, n, kind, d, accepted),
         stage = "integrate" => d = NoDependencies(n),
         \A c \in Tasks : Parent(c) = t /\ tasks[c].branch = ledger[t].alternatives
           => stage = "integrate" /\ tasks[c].status = "done"
  PROVE  OrderInvariant'
<1>1. TypeOK /\ tasksCreated' = tasksCreated + n /\ n \in Nat
  BY DEF OrderInvariant, TreeInvariant, Runs
<1>2. /\ LedgerKept(t) /\ NewUnder(t)
      /\ tasks'[t].status = tasks[t].status /\ tasks'[t].alternatives = ledger[t].alternatives
      /\ DependenciesAre(d)
  BY <1>1, LedgerGrows
<1>3. ASSUME stage = "integrate", NEW c \in Tasks', c \notin Tasks
      PROVE  tasks'[c].dependencies = {}
  <2>1. c \in tasksCreated + 1 .. tasksCreated + n
    BY <1>1, <1>3 DEF Tasks, TypeOK
  <2> QED
    BY <1>2, <1>3, <2>1 DEF NoDependencies, DependenciesAre
<1> QED
  BY <1>2, <1>3, OrderAfterRuns

\* The loops over new tasks.
LEMMA RunsOrder ==
  ASSUME OrderInvariant, TreeInvariant', NEW t \in Tasks,
         Splits(t) \/ Resplits(t) \/ AlternativeRuns(t) \/ FindsConflicts(t)
  PROVE  OrderInvariant'
<1>1. SameLedger(tasks, t)
  BY LedgersAreSame
<1>2. CASE Splits(t) \/ Resplits(t)
  <2>0. PICK n \in Nat \ {0}, accepted \in BOOLEAN :
          /\ Runs(t, n, "children")
          /\ \E d \in Dependencies(n) : tasks' = Grow(tasks, t, n, tasks[t].kind, d, accepted)
    <3>1. CASE Splits(t)
      <4>1. PICK n \in 1 .. Smaller(MaxChildren, Remaining) :
              /\ Runs(t, n, "children")
              /\ \E d \in Dependencies(n) : tasks' = Grow(tasks, t, n, tasks[t].kind, d, TRUE)
        BY <3>1 DEF Splits
      <4>2. n \in Nat \ {0} /\ TRUE \in BOOLEAN
        OBVIOUS
      <4> QED
        BY <4>1, <4>2
    <3>2. CASE Resplits(t)
      <4>1. PICK n \in 2 .. Smaller(MaxChildren, Remaining), accepted \in BOOLEAN :
              /\ Runs(t, n, "children")
              /\ \E d \in Dependencies(n) : tasks' = Grow(tasks, t, n, tasks[t].kind, d, accepted)
        BY <3>2 DEF Resplits
      <4>2. n \in Nat \ {0}
        OBVIOUS
      <4> QED
        BY <4>1, <4>2
    <3> QED
      BY <1>2, <3>1, <3>2
  <2>1. PICK d \in Dependencies(n) :
          Runs(t, n, "children") /\ tasks' = Grow(tasks, t, n, tasks[t].kind, d, accepted)
    BY <2>0
  <2>2. d \in [tasksCreated + 1 .. tasksCreated + n
                -> SUBSET (tasksCreated + 1 .. tasksCreated + n)]
    BY <2>1 DEF Dependencies
  <2>3. current = t /\ Fresh(t) /\ current' = current
    BY <1>2 DEF Splits, Resplits, At, Fresh, Stage
  <2>4. \A c \in Tasks : Parent(c) # t
    BY <2>3, FreshIsChildless
  <2>5. "children" \in {"children", "integrate"} /\ "children" # "integrate"
    OBVIOUS
  <2> DEFINE kind == tasks[t].kind
  <2>6. Grows(tasks, t, n, kind, d, accepted)
    BY <2>1 DEF Grows
  <2> HIDE DEF kind
  <2> QED
    BY <1>1, <2>1, <2>2, <2>3, <2>4, <2>5, <2>6, GrownOrder
<1>3. CASE AlternativeRuns(t)
  <2>1. PICK n \in 2 .. MaxChildren :
          /\ Runs(t, n, "children")
          /\ tasks' = Grow(Tried(t), t, n, "implementation", NoDependencies(n), TRUE)
    BY <1>3 DEF AlternativeRuns
  <2>2. n \in Nat \ {0}
    OBVIOUS
  <2>3. current = t /\ current' = current /\ tasks[t].alternatives < MaxAlternatives
    BY <1>3 DEF AlternativeRuns, ChildrenOver, Backtracks, At
  <2> DEFINE ledger == Tried(t)
             d == NoDependencies(n)
             accepted == TRUE
  <2>4. SameLedger(ledger, t) /\ ledger[t].alternatives = tasks[t].alternatives + 1
    BY <2>3, LedgersAreSame
  <2>5. d \in [tasksCreated + 1 .. tasksCreated + n
                -> SUBSET (tasksCreated + 1 .. tasksCreated + n)]
    BY DEF NoDependencies
  <2>6. Grows(ledger, t, n, "implementation", d, accepted)
    BY <2>1 DEF Grows
  <2>7. ASSUME NEW c \in Tasks, Parent(c) = t, tasks[c].branch = ledger[t].alternatives
        PROVE  FALSE
    <3>1. TypeOK /\ Root \in Tasks
      BY FieldTypes DEF OrderInvariant, TreeInvariant
    <3>2. c # Root
      BY <2>7, <3>1, FieldTypes DEF OrderInvariant, Genealogy, NoTask
    <3>3. tasks[c].branch <= tasks[t].alternatives
      BY <2>7, <3>2 DEF OrderInvariant, Genealogy
    <3>4. tasks[t].alternatives \in Nat
      BY <3>1, FieldTypes
    <3> QED
      BY <2>4, <2>7, <3>3, <3>4
  <2>8. "children" \in {"children", "integrate"} /\ "children" # "integrate"
    OBVIOUS
  <2> HIDE DEF ledger, d, accepted
  <2> QED
    BY <2>1, <2>2, <2>3, <2>4, <2>5, <2>6, <2>7, <2>8, GrownOrder
<1>4. CASE FindsConflicts(t)
  <2>1. PICK n \in 1 .. Smaller(MaxChildren, Remaining) :
          /\ Runs(t, n, "integrate")
          /\ tasks' = Grow(tasks, t, n, "integration", NoDependencies(n), TRUE)
    BY <1>4 DEF FindsConflicts
  <2>2. n \in Nat \ {0} /\ "integrate" \in {"children", "integrate"}
    OBVIOUS
  <2>3. /\ current = t /\ current' = current /\ Loops(t) /\ FailedChildren(t) = {}
    BY <1>4 DEF FindsConflicts, ChildrenOver, At, Loops, Stage
  <2>4. \A c \in Tasks : Parent(c) = t /\ tasks[c].branch = tasks[t].alternatives
                             => tasks[c].status = "done"
    BY <2>3, VerifiedBatch
  <2> DEFINE d == NoDependencies(n)
             accepted == TRUE
  <2>5. d \in [tasksCreated + 1 .. tasksCreated + n
                -> SUBSET (tasksCreated + 1 .. tasksCreated + n)]
    BY DEF NoDependencies
  <2>6. Grows(tasks, t, n, "integration", d, accepted) /\ d = NoDependencies(n)
    BY <2>1 DEF Grows
  <2> HIDE DEF d, accepted
  <2> QED
    BY <1>1, <2>1, <2>2, <2>3, <2>4, <2>5, <2>6, GrownOrder
<1> QED
  BY <1>2, <1>3, <1>4

\* solve_task goes on before its leaf.
LEMMA StageOrder ==
  ASSUME OrderInvariant, TreeInvariant', NEW t \in Tasks, current = t, Fresh(t),
         NEW stage \in {"decompose", "leaf"}, stage = "leaf" => frames[t].fit # "required",
         frames' = [frames EXCEPT ![t].stage = stage],
         UNCHANGED <<tasksCreated, tasks, current>>
  PROVE  OrderInvariant'
<1> DEFINE call == [frames[t] EXCEPT !.stage = stage]
<1>1. TypeOK /\ frames[t] \in CallRecords /\ frames' = [frames EXCEPT ![t] = call]
  BY DEF OrderInvariant, TreeInvariant, TypeOK
<1>2. Active(t) /\ tasks[t].status = "running" /\ frames[t].result = "none"
  BY DEF OrderInvariant, CallChain, Outcomes, NoTask, Tasks
<1>3. frames[t].first = 1 /\ frames[t].last = 0
  BY DEF OrderInvariant, Childless
<1>4. /\ call.first = 1 /\ call.last = 0 /\ call.result = "none" /\ call.stage = stage
      /\ call.fit = frames[t].fit
  BY <1>1, <1>2, <1>3 DEF CallRecords
<1>5. LedgerKept(t)
  BY LedgersAreSame DEF LedgerKept, SameLedger, Parent
<1>6. tasks'[t].status = "running" /\ tasks'[t].alternatives = tasks[t].alternatives /\ current' = t
  BY <1>2
<1> HIDE DEF call
<1> QED
  BY <1>1, <1>4, <1>5, <1>6, OrderAfterCall

\* The call for the next child of a loop begins, with its dependencies verified.
LEMMA EntersOrder ==
  ASSUME OrderInvariant, TreeInvariant', NEW t \in Tasks, current = t, Loops(t),
         NEW x, x = NextChild(t), x \in Batch(t), NEW at, Enters(x, at),
         \A d \in tasks[x].dependencies : tasks[d].status = "done"
  PROVE  OrderInvariant'
<1>1. PICK fit \in Fits(tasks[x].kind) : frames' = [frames EXCEPT ![x] = Call(at, fit)]
  BY DEF Enters
<1> DEFINE call == Call(at, fit)
<1>2. call.first = 1 /\ call.last = 0 /\ call.result = "none" /\ call.stage = "fit"
  BY DEF Call, NoCall
<1>3. frames' = [frames EXCEPT ![x] = call]
  BY <1>1
<1> HIDE DEF call
<1>4. TypeOK /\ BatchesAreTasks
  BY DEF OrderInvariant, TreeInvariant
<1>5. x \in Tasks
  BY <1>4, BatchIsTasks
<1>6. Stage(x) = "none" /\ Fresh(x)
  BY DEF OrderInvariant, Positions, Fresh
<1>7. /\ tasks' = [tasks EXCEPT ![x].status = "running"] /\ current' = x
      /\ UNCHANGED tasksCreated
  BY DEF Enters
<1>8. tasks \in [Tasks -> TaskRecords(Tasks)] /\ \A c \in Tasks : tasks[c].alternatives \in Nat
  BY <1>4, FieldTypes DEF TypeOK
<1>9. ASSUME NEW c \in Tasks
      PROVE  /\ tasks'[c].parent = tasks[c].parent /\ tasks'[c].kind = tasks[c].kind
             /\ tasks'[c].dependencies = tasks[c].dependencies /\ tasks'[c].branch = tasks[c].branch
             /\ tasks'[c].alternatives = tasks[c].alternatives
             /\ tasks'[c].status = IF c = x THEN "running" ELSE tasks[c].status
  <2>1. tasks[c] \in TaskRecords(Tasks)
    BY <1>8
  <2>2. CASE c = x
    <3>1. tasks'[c] = [tasks[c] EXCEPT !.status = "running"]
      BY <1>5, <1>7, <1>8, <2>2
    <3> QED
      BY <2>1, <2>2, <3>1 DEF TaskRecords
  <2>3. CASE c # x
    BY <1>7, <1>8, <2>3
  <2> QED
    BY <2>2, <2>3
<1>10. LedgerKept(x)
  BY <1>8, <1>9 DEF LedgerKept, Parent
<1> QED
  BY <1>2, <1>3, <1>5, <1>6, <1>7, <1>9, <1>10, OrderAfterCall

\* A task whose result is "done" is verified in the ledger.
LEMMA DoneResults ==
  ASSUME OrderInvariant, NEW c \in Tasks, frames[c].result = "done"
  PROVE  tasks[c].status = "done"
<1>1. Fresh(c) \/ Loops(c) \/ Stage(c) = "returned"
  BY FieldTypes DEF OrderInvariant, TreeInvariant
<1>2. Stage(c) = "returned"
  BY <1>1 DEF OrderInvariant, Outcomes, Fresh, Loops, Active
<1> QED
  BY <1>2 DEF OrderInvariant, Outcomes

\* The calls that begin or go on.
LEMMA CallOrder ==
  ASSUME OrderInvariant, TreeInvariant', NEW t \in Tasks,
         \/ FitDecides(t) \/ (NoSplit(t) /\ frames[t].fit # "required")
         \/ StartsChild(t) \/ StartsIntegrationTask(t)
  PROVE  OrderInvariant'
<1>1. CASE FitDecides(t)
  <2>1. PICK stage \in {"decompose", "leaf"} :
          /\ stage = "leaf" => frames[t].fit # "required"
          /\ frames' = [frames EXCEPT ![t].stage = stage]
    BY <1>1 DEF FitDecides
  <2>2. current = t /\ Fresh(t) /\ UNCHANGED <<tasksCreated, tasks, current>>
    BY <1>1 DEF FitDecides, At, Fresh, Stage
  <2> QED
    BY <2>1, <2>2, StageOrder
<1>2. CASE NoSplit(t) /\ frames[t].fit # "required"
  <2>1. /\ current = t /\ Fresh(t) /\ UNCHANGED <<tasksCreated, tasks, current>>
        /\ frames' = [frames EXCEPT ![t].stage = "leaf"]
    BY <1>2 DEF NoSplit, Executes, At, Fresh, Stage
  <2> QED
    BY <1>2, <2>1, StageOrder
<1>3. CASE StartsChild(t)
  <2> DEFINE x == NextChild(t)
  <2>1. /\ current = t /\ Loops(t) /\ x = NextChild(t) /\ x \in Batch(t) /\ BlockedBy(x) = {}
        /\ Enters(x, frames[t].at + 1)
    BY <1>3 DEF StartsChild, At, Loops, Stage
  <2> HIDE DEF x
  <2>2. TypeOK /\ BatchesAreTasks /\ Batch(t) \subseteq Tasks
    BY BatchIsTasks DEF OrderInvariant, TreeInvariant
  <2>3. ASSUME NEW d \in tasks[x].dependencies
        PROVE  tasks[d].status = "done"
    <3>1. d \in Tasks
      BY <2>1, <2>2, <2>3, FieldTypes
    <3>2. Label(d) = "COMPLETED"
      BY <2>1, <2>3 DEF BlockedBy
    <3>3. frames[d].result = "done"
      BY <3>2 DEF Label
    <3> QED
      BY <3>1, <3>3, DoneResults
  <2> QED
    BY <2>1, <2>3, EntersOrder
<1>4. CASE StartsIntegrationTask(t)
  <2> DEFINE x == NextChild(t)
  <2>1. /\ current = t /\ Loops(t) /\ Stage(t) = "integrate"
        /\ x = NextChild(t) /\ x \in Batch(t) /\ Enters(x, tasks[t].depth)
    BY <1>4 DEF StartsIntegrationTask, At, Loops, Stage
  <2> HIDE DEF x
  <2>2. \A d \in tasks[x].dependencies : tasks[d].status = "done"
    BY <2>1 DEF OrderInvariant, IntegrationIsFree
  <2> QED
    BY <2>1, <2>2, EntersOrder
<1> QED
  BY <1>1, <1>2, <1>3, <1>4

\* Every step keeps the invariant.
LEMMA StepOrder == OrderInvariant /\ [Next]_vars => OrderInvariant'
<1> SUFFICES ASSUME OrderInvariant, [Next]_vars
             PROVE  OrderInvariant'
  OBVIOUS
<1>1. TreeInvariant'
  BY StepInvariant DEF OrderInvariant
<1>2. CASE UNCHANGED vars
  <2>1. TreeInvariant' /\ Tasks' = Tasks /\ tasks' = tasks /\ frames' = frames /\ current' = current
    BY <1>1, <1>2 DEF vars, Tasks
  <2>2. (Genealogy /\ Outcomes /\ Childless)' = (Genealogy /\ Outcomes /\ Childless)
    BY <2>1 DEF Genealogy, Outcomes, Childless, Parent, Stage, Active, Fresh
  <2>3. (BatchesAreChildren /\ Positions /\ CallChain)' = (BatchesAreChildren /\ Positions /\ CallChain)
    BY <2>1 DEF BatchesAreChildren, Positions, CallChain, Parent, Stage, Active, Loops, Batch,
                NextChild
  <2>4. (BlockReasons /\ EarlierChildren /\ BatchesAreCalled /\ IntegrationIsFree)'
          = (BlockReasons /\ EarlierChildren /\ BatchesAreCalled /\ IntegrationIsFree)
    BY <2>1 DEF BlockReasons, EarlierChildren, BatchesAreCalled, IntegrationIsFree, Parent, Stage,
                Loops, Batch
  <2>5. (DependenciesDoneFirst /\ DoneOverDone)' = (DependenciesDoneFirst /\ DoneOverDone)
    BY <2>1 DEF DependenciesDoneFirst, DoneOverDone
  <2> QED
    BY <2>1, <2>2, <2>3, <2>4, <2>5 DEF OrderInvariant
<1>3. ASSUME NEW t \in Tasks,
             \/ FitFails(t) \/ SplitFails(t) \/ NoSplit(t) \/ LeafEnds(t) \/ LeafTooBroad(t)
      PROVE  OrderInvariant'
  <2>1. CASE NoSplit(t) /\ frames[t].fit # "required"
    BY <1>1, <2>1, CallOrder
  <2>2. CASE NoSplit(t) /\ frames[t].fit = "required"
    <3>1. Returns(t, "failed")
      BY <2>2 DEF NoSplit
    <3> QED
      BY <1>1, <2>2, <3>1, FreshReturnsOrder
  <2> QED
    BY <1>1, <1>3, <2>1, <2>2, FreshReturnsOrder
<1>4. ASSUME NEW t \in Tasks,
             ChildrenFail(t) \/ Aggregates(t) \/ Integrates(t) \/ IntegrationFails(t)
      PROVE  OrderInvariant'
  BY <1>1, <1>4, LoopReturnsOrder
<1>5. ASSUME NEW t \in Tasks,
             SplitRefused(t) \/ ResplitMerged(t) \/ AlternativeRejected(t) \/ ResplitFails(t)
      PROVE  OrderInvariant'
  BY <1>1, <1>5, UnsplitOrder
<1>6. ASSUME NEW t \in Tasks, Blocks(t)
      PROVE  OrderInvariant'
  BY <1>1, <1>6, BlocksOrder
<1>7. ASSUME NEW t \in Tasks,
             Splits(t) \/ Resplits(t) \/ AlternativeRuns(t) \/ FindsConflicts(t)
      PROVE  OrderInvariant'
  BY <1>1, <1>7, RunsOrder
<1>8. ASSUME NEW t \in Tasks, FitDecides(t) \/ StartsChild(t) \/ StartsIntegrationTask(t)
      PROVE  OrderInvariant'
  <2>1. CASE FitDecides(t)
    BY <1>1, <2>1, CallOrder
  <2>2. CASE StartsChild(t)
    BY <1>1, <2>2, CallOrder
  <2>3. CASE StartsIntegrationTask(t)
    BY <1>1, <2>3, CallOrder
  <2> QED
    BY <1>8, <2>1, <2>2, <2>3
<1> QED
  BY <1>2, <1>3, <1>4, <1>5, <1>6, <1>7, <1>8 DEF Next
-----------------------------------------------------------------------------
(* The theorems.                                                           *)

\* The order of the calls, and what the ledger says of them, is kept for ever.
THEOREM OrderInvariantHolds == Spec => []OrderInvariant
BY InitOrder, StepOrder, PTL DEF Spec

\* A task that was called had its explicit dependencies verified, and they stay
\* verified, whatever the limits and however the tree was split.
THEOREM DependenciesAreDoneFirst == Spec => []DependenciesDoneFirst
<1>1. OrderInvariant => DependenciesDoneFirst
  BY DEF OrderInvariant
<1> QED
  BY <1>1, OrderInvariantHolds, PTL

\* A task is verified only over the verified tasks of its last decomposition, and
\* one that had to be split was split.
THEOREM DoneIsOverDone == Spec => []DoneOverDone
<1>1. OrderInvariant => DoneOverDone
  BY DEF OrderInvariant
<1> QED
  BY <1>1, OrderInvariantHolds, PTL

\* A failure of one child keeps no other from running but those that depend on it,
\* or were listed before what they depend on.
THEOREM IndependentChildrenAreRun == Spec => []IndependentChildrenRun
<1>1. ASSUME OrderInvariant
      PROVE  IndependentChildrenRun
  <2> SUFFICES ASSUME NEW t \in Tasks, Stage(t) = "returned", NEW c \in Batch(t),
                      tasks[c].kind = tasks[t].kind,
                      \A d \in tasks[c].dependencies : d < c /\ tasks[d].status = "done"
               PROVE  frames[c].result \notin {"none", "blocked"}
    BY DEF IndependentChildrenRun, Stage
  <2>1. TypeOK /\ BatchesAreTasks
    BY <1>1 DEF OrderInvariant, TreeInvariant
  <2>2. c \in Tasks /\ c \in Nat /\ tasks[c].dependencies \subseteq Tasks
    BY <2>1, BatchIsTasks, FieldTypes
  <2>3. frames[c].result # "none"
    BY <1>1 DEF OrderInvariant, BatchesAreCalled
  <2>4. ASSUME frames[c].result = "blocked"
        PROVE  FALSE
    <3>1. PICK d \in tasks[c].dependencies : d >= c \/ frames[d].result \notin {"none", "done"}
      BY <1>1, <2>2, <2>4 DEF OrderInvariant, BlockReasons
    <3>2. d \in Tasks /\ d < c /\ tasks[d].status = "done" /\ d \in Nat
      BY <2>1, <2>2, <3>1, FieldTypes
    <3>3. frames[d].result \notin {"none", "done"}
      BY <2>2, <3>1, <3>2
    <3>4. Fresh(d) \/ Loops(d) \/ Stage(d) = "returned"
      BY <2>1, <3>2, FieldTypes
    <3>5. Stage(d) = "returned"
      BY <1>1, <3>2, <3>3, <3>4 DEF OrderInvariant, Outcomes, Fresh, Loops, Active
    <3> QED
      BY <1>1, <3>2, <3>3, <3>5 DEF OrderInvariant, Outcomes
  <2> QED
    BY <2>3, <2>4
<1> QED
  BY <1>1, OrderInvariantHolds, PTL

-----------------------------------------------------------------------------
(* The node counters.                                                      *)

Open == {"pending", "running"}

DoneTasks == {t \in Tasks : tasks[t].status = "done"}

FailedTasks == {t \in Tasks : tasks[t].status \in {"failed", "blocked", "too_broad"}}

\* A step gives no task an outcome, x among them.
Unmarked(x) ==
  /\ LedgerKept(x) /\ NewUnder(x) /\ Tasks \subseteq Tasks'
  /\ tasks[x].status \in Open /\ tasks'[x].status \in Open
  /\ UNCHANGED counted

\* A step gives x the outcome r, and x had none.
Marked(x, r) ==
  /\ LedgerKept(x) /\ NewUnder(x) /\ Tasks \subseteq Tasks'
  /\ tasks[x].status \in Open /\ tasks'[x].status = r
  /\ counted' = [verified |-> counted.verified + (IF r = "done" THEN 1 ELSE 0),
                 failed   |-> counted.failed + (IF r = "done" THEN 0 ELSE 1),
                 root     |-> counted.root \/ (x = Root /\ r = "done")]

\* A ledger has finitely many tasks.
LEMMA TasksAreFinite ==
  ASSUME TypeOK
  PROVE  /\ IsFiniteSet(DoneTasks) /\ IsFiniteSet(FailedTasks)
         /\ Cardinality(DoneTasks) \in Nat /\ Cardinality(FailedTasks) \in Nat
<1>1. IsFiniteSet(Tasks)
  BY FS_Interval DEF TypeOK, Tasks
<1>2. DoneTasks \subseteq Tasks /\ FailedTasks \subseteq Tasks
  BY DEF DoneTasks, FailedTasks
<1>3. IsFiniteSet(DoneTasks) /\ IsFiniteSet(FailedTasks)
  BY <1>1, <1>2, FS_Subset
<1> QED
  BY <1>3, FS_CardinalityType

\* The counters after a step that gives no task an outcome.
LEMMA CountsUnmarked ==
  ASSUME TypeOK, CountsMatchLedger, NEW x \in Tasks, Unmarked(x)
  PROVE  CountsMatchLedger'
<1>1. ASSUME NEW c \in Tasks'
      PROVE  /\ tasks'[c].status = "done" <=> c \in DoneTasks
             /\ tasks'[c].status \in {"failed", "blocked", "too_broad"} <=> c \in FailedTasks
  <2>1. CASE c \notin Tasks
    BY <2>1 DEF Unmarked, NewUnder, DoneTasks, FailedTasks
  <2>2. CASE c = x
    BY <2>2 DEF Unmarked, Open, DoneTasks, FailedTasks
  <2>3. CASE c \in Tasks /\ c # x
    BY <2>3 DEF Unmarked, LedgerKept, DoneTasks, FailedTasks
  <2> QED
    BY <2>1, <2>2, <2>3
<1>2. {t \in Tasks' : tasks'[t].status = "done"} = DoneTasks
  BY <1>1 DEF DoneTasks, Unmarked
<1>3. {t \in Tasks' : tasks'[t].status \in {"failed", "blocked", "too_broad"}} = FailedTasks
  BY <1>1 DEF FailedTasks, Unmarked
<1>4. tasks'[Root].status = "done" <=> tasks[Root].status = "done"
  <2>1. Root \in Tasks /\ Root \in Tasks'
    BY FieldTypes DEF Unmarked
  <2> QED
    BY <1>1, <2>1 DEF DoneTasks
<1>5. counted' = counted
  BY DEF Unmarked
<1> QED
  BY <1>2, <1>3, <1>4, <1>5 DEF CountsMatchLedger, DoneTasks, FailedTasks

\* The counters after a step that gives x an outcome.
LEMMA CountsMarked ==
  ASSUME TypeOK, CountsMatchLedger, NEW x \in Tasks,
         NEW r \in {"done", "failed", "blocked", "too_broad"}, Marked(x, r)
  PROVE  CountsMatchLedger'
<1>1. ASSUME NEW c \in Tasks'
      PROVE  /\ tasks'[c].status = "done" <=> c \in DoneTasks \/ (c = x /\ r = "done")
             /\ tasks'[c].status \in {"failed", "blocked", "too_broad"}
                  <=> c \in FailedTasks \/ (c = x /\ r # "done")
  <2>1. CASE c \notin Tasks
    BY <2>1 DEF Marked, NewUnder, DoneTasks, FailedTasks
  <2>2. CASE c = x
    BY <2>2 DEF Marked, Open, DoneTasks, FailedTasks
  <2>3. CASE c \in Tasks /\ c # x
    BY <2>3 DEF Marked, LedgerKept, DoneTasks, FailedTasks
  <2> QED
    BY <2>1, <2>2, <2>3
<1>2. x \notin DoneTasks /\ x \notin FailedTasks /\ x \in Tasks' /\ Tasks \subseteq Tasks'
  BY DEF Marked, Open, DoneTasks, FailedTasks
<1>3. /\ IsFiniteSet(DoneTasks) /\ IsFiniteSet(FailedTasks)
      /\ Cardinality(DoneTasks) \in Nat /\ Cardinality(FailedTasks) \in Nat
  BY TasksAreFinite
<1>4. DoneTasks' = IF r = "done" THEN DoneTasks \cup {x} ELSE DoneTasks
  BY <1>1, <1>2 DEF DoneTasks
<1>5. FailedTasks' = IF r = "done" THEN FailedTasks ELSE FailedTasks \cup {x}
  BY <1>1, <1>2 DEF FailedTasks
<1>6. /\ Cardinality(DoneTasks \cup {x}) = Cardinality(DoneTasks) + 1
      /\ Cardinality(FailedTasks \cup {x}) = Cardinality(FailedTasks) + 1
  BY <1>2, <1>3, FS_AddElement
<1>7. /\ counted.verified = Cardinality(DoneTasks) /\ counted.failed = Cardinality(FailedTasks)
      /\ counted.root <=> tasks[Root].status = "done"
  BY DEF CountsMatchLedger, DoneTasks, FailedTasks
<1>8. /\ counted'.verified = Cardinality(DoneTasks') /\ counted'.failed = Cardinality(FailedTasks')
  BY <1>3, <1>4, <1>5, <1>6, <1>7 DEF Marked
<1>9. counted'.root <=> tasks'[Root].status = "done"
  <2>1. Root \in Tasks /\ Root \in Tasks'
    BY <1>2, FieldTypes
  <2>2. tasks'[Root].status = "done" <=> tasks[Root].status = "done" \/ (Root = x /\ r = "done")
    BY <1>1, <2>1 DEF DoneTasks
  <2>3. counted'.root <=> counted.root \/ (x = Root /\ r = "done")
    BY DEF Marked
  <2> QED
    BY <1>7, <2>2, <2>3
<1> QED
  BY <1>8, <1>9 DEF CountsMatchLedger, DoneTasks, FailedTasks
-----------------------------------------------------------------------------
(* Every step gives at most one task an outcome.                           *)

\* The call for x is over, with its result marked.
LEMMA MarkIsMarked ==
  ASSUME OrderInvariant, NEW x \in Tasks, tasks[x].status \in Open, NEW n \in Nat,
         NEW ledger \in [Tasks -> TaskRecords(Tasks)], SameLedger(ledger, x),
         NEW accepted \in BOOLEAN, tasksCreated' = tasksCreated + n, NEW r,
         Mark(Grow(ledger, x, n, tasks[x].kind, NoDependencies(n), accepted), x, r)
  PROVE  Marked(x, r)
<1> DEFINE kind == tasks[x].kind
           d == NoDependencies(n)
<1>1. TypeOK /\ kind \in Kinds
  BY FieldTypes DEF OrderInvariant, TreeInvariant
<1>2. d \in [tasksCreated + 1 .. tasksCreated + n -> SUBSET (tasksCreated + 1 .. tasksCreated + n)]
  BY DEF NoDependencies
<1>3. Mark(Grow(ledger, x, n, kind, d, accepted), x, r)
  OBVIOUS
<1> HIDE DEF kind, d
<1>4. LedgerKept(x) /\ NewUnder(x) /\ tasks'[x].status = r
  BY <1>1, <1>2, <1>3, LedgerMarked
<1>5. Tasks \subseteq Tasks'
  BY <1>1 DEF Tasks, TypeOK
<1> QED
  BY <1>3, <1>4, <1>5 DEF Marked, Mark

\* The same, of a ledger that does not grow.
LEMMA MarkAloneIsMarked ==
  ASSUME OrderInvariant, NEW x \in Tasks, tasks[x].status \in Open,
         NEW ledger \in [Tasks -> TaskRecords(Tasks)], SameLedger(ledger, x),
         UNCHANGED tasksCreated, NEW r, Mark(ledger, x, r)
  PROVE  Marked(x, r)
<1> DEFINE kind == tasks[x].kind
           d == NoDependencies(0)
<1>1. TypeOK
  BY DEF OrderInvariant, TreeInvariant
<1>2. Grow(ledger, x, 0, kind, d, TRUE) = ledger /\ tasksCreated = tasksCreated + 0
  <2> HIDE DEF kind, d
  <2> QED
    BY <1>1, GrowsByNothing
<1>3. /\ tasksCreated' = tasksCreated + 0 /\ 0 \in Nat /\ TRUE \in BOOLEAN
      /\ Mark(Grow(ledger, x, 0, tasks[x].kind, NoDependencies(0), TRUE), x, r)
  BY <1>2
<1> QED
  BY <1>3, MarkIsMarked

\* The innermost call is running, and the next child of its loop is pending.
LEMMA OpenTasks ==
  ASSUME OrderInvariant, NEW t \in Tasks, current = t
  PROVE  /\ tasks[t].status = "running"
         /\ Loops(t) /\ NextChild(t) \in Batch(t) =>
              NextChild(t) \in Tasks /\ tasks[NextChild(t)].status = "pending"
<1>1. TypeOK /\ BatchesAreTasks /\ Batch(t) \subseteq Tasks
  BY BatchIsTasks DEF OrderInvariant, TreeInvariant
<1>2. tasks[t].status = "running"
  BY <1>1, FieldTypes DEF OrderInvariant, CallChain, Outcomes, NoTask
<1>3. ASSUME Loops(t), NextChild(t) \in Batch(t)
      PROVE  NextChild(t) \in Tasks /\ tasks[NextChild(t)].status = "pending"
  BY <1>1, <1>3 DEF OrderInvariant, Positions, Outcomes
<1> QED
  BY <1>2, <1>3

\* A step that leaves the ledger alone, or grows it, gives no task an outcome.
LEMMA GrowIsUnmarked ==
  ASSUME OrderInvariant, NEW t \in Tasks, current = t, NEW n \in Nat, tasksCreated' = tasksCreated + n,
         NEW ledger, SameLedger(ledger, t), NEW kind, NEW accepted,
         NEW d \in [tasksCreated + 1 .. tasksCreated + n
                     -> SUBSET (tasksCreated + 1 .. tasksCreated + n)],
         Grows(ledger, t, n, kind, d, accepted), UNCHANGED counted
  PROVE  Unmarked(t)
<1>1. TypeOK
  BY DEF OrderInvariant, TreeInvariant
<1>2. LedgerKept(t) /\ NewUnder(t) /\ tasks'[t].status = tasks[t].status
  BY <1>1, LedgerGrows
<1>3. Tasks \subseteq Tasks'
  BY <1>1 DEF Tasks, TypeOK
<1> QED
  BY <1>2, <1>3, OpenTasks DEF Unmarked, Open

\* The same, of an unchanged ledger.
LEMMA UnchangedIsUnmarked ==
  ASSUME OrderInvariant, NEW t \in Tasks, current = t, UNCHANGED <<tasksCreated, tasks, counted>>
  PROVE  Unmarked(t)
<1>1. tasks[t].status = "running" /\ Tasks' = Tasks
  BY OpenTasks DEF Tasks
<1>2. LedgerKept(t)
  BY LedgersAreSame DEF LedgerKept, SameLedger, Parent
<1>3. NewUnder(t)
  BY <1>1 DEF NewUnder
<1> QED
  BY <1>1, <1>2, <1>3 DEF Unmarked, Open

\* The same, of the ledger in which x is called.
LEMMA EntersIsUnmarked ==
  ASSUME OrderInvariant, NEW x \in Tasks, tasks[x].status = "pending", NEW at, Enters(x, at)
  PROVE  Unmarked(x)
<1>1. /\ tasks' = [tasks EXCEPT ![x].status = "running"] /\ Tasks' = Tasks
      /\ UNCHANGED counted
  BY DEF Enters, Tasks
<1>2. tasks \in [Tasks -> TaskRecords(Tasks)]
  BY DEF OrderInvariant, TreeInvariant, TypeOK
<1>3. ASSUME NEW c \in Tasks
      PROVE  /\ tasks'[c].parent = tasks[c].parent /\ tasks'[c].kind = tasks[c].kind
             /\ tasks'[c].dependencies = tasks[c].dependencies /\ tasks'[c].branch = tasks[c].branch
             /\ tasks'[c].alternatives = tasks[c].alternatives
             /\ tasks'[c].status = IF c = x THEN "running" ELSE tasks[c].status
  <2>1. tasks[c] \in TaskRecords(Tasks)
    BY <1>2
  <2>2. CASE c = x
    <3>1. tasks'[c] = [tasks[c] EXCEPT !.status = "running"]
      BY <1>1, <1>2, <2>2
    <3> QED
      BY <2>1, <2>2, <3>1 DEF TaskRecords
  <2>3. CASE c # x
    BY <1>1, <1>2, <2>3
  <2> QED
    BY <2>2, <2>3
<1>4. \A c \in Tasks : tasks[c].alternatives \in Nat
  BY FieldTypes DEF OrderInvariant, TreeInvariant
<1>5. LedgerKept(x) /\ NewUnder(x)
  BY <1>1, <1>3, <1>4 DEF LedgerKept, NewUnder, Parent
<1> QED
  BY <1>1, <1>3, <1>5 DEF Unmarked, Open

\* A step over new tasks leaves the counters as they were.
LEMMA RunsIsUnmarked ==
  ASSUME OrderInvariant, NEW t \in Tasks,
         Splits(t) \/ Resplits(t) \/ AlternativeRuns(t) \/ FindsConflicts(t)
  PROVE  Unmarked(t)
<1>1. /\ current = t /\ UNCHANGED counted
      /\ AlternativeRuns(t) => tasks[t].alternatives < MaxAlternatives
  BY DEF Splits, Resplits, AlternativeRuns, FindsConflicts, ChildrenOver, Backtracks, At
<1>2. PICK n \in Nat, kind \in Kinds, accepted \in BOOLEAN :
        /\ tasksCreated' = tasksCreated + n
        /\ \E d \in [tasksCreated + 1 .. tasksCreated + n
                      -> SUBSET (tasksCreated + 1 .. tasksCreated + n)] :
             \/ Grows(tasks, t, n, kind, d, accepted)
             \/ AlternativeRuns(t) /\ Grows(Tried(t), t, n, kind, d, accepted)
  <2>1. tasks[t].kind \in Kinds /\ "implementation" \in Kinds /\ "integration" \in Kinds
    BY FieldTypes DEF OrderInvariant, TreeInvariant, Kinds
  <2>2. \A n \in Nat : NoDependencies(n) \in [tasksCreated + 1 .. tasksCreated + n
                                               -> SUBSET (tasksCreated + 1 .. tasksCreated + n)]
    BY DEF NoDependencies
  <2>3. CASE Splits(t)
    <3>1. PICK n \in 1 .. Smaller(MaxChildren, Remaining) :
            /\ tasksCreated' = tasksCreated + n
            /\ \E d \in Dependencies(n) : Grows(tasks, t, n, tasks[t].kind, d, TRUE)
      BY <2>3 DEF Splits, Runs, Grows
    <3>2. n \in Nat /\ TRUE \in BOOLEAN
      OBVIOUS
    <3> QED
      BY <2>1, <3>1, <3>2 DEF Dependencies
  <2>4. CASE Resplits(t)
    <3>1. PICK n \in 2 .. Smaller(MaxChildren, Remaining), accepted \in BOOLEAN :
            /\ tasksCreated' = tasksCreated + n
            /\ \E d \in Dependencies(n) : Grows(tasks, t, n, tasks[t].kind, d, accepted)
      BY <2>4 DEF Resplits, Runs, Grows
    <3>2. n \in Nat
      OBVIOUS
    <3> QED
      BY <2>1, <3>1, <3>2 DEF Dependencies
  <2>5. CASE AlternativeRuns(t)
    <3>1. PICK n \in 2 .. MaxChildren :
            /\ tasksCreated' = tasksCreated + n
            /\ Grows(Tried(t), t, n, "implementation", NoDependencies(n), TRUE)
      BY <2>5 DEF AlternativeRuns, Runs, Grows
    <3>2. n \in Nat /\ TRUE \in BOOLEAN
      OBVIOUS
    <3> QED
      BY <2>1, <2>2, <2>5, <3>1, <3>2
  <2>6. CASE FindsConflicts(t)
    <3>1. PICK n \in 1 .. Smaller(MaxChildren, Remaining) :
            /\ tasksCreated' = tasksCreated + n
            /\ Grows(tasks, t, n, "integration", NoDependencies(n), TRUE)
      BY <2>6 DEF FindsConflicts, Runs, Grows
    <3>2. n \in Nat /\ TRUE \in BOOLEAN
      OBVIOUS
    <3> QED
      BY <2>1, <2>2, <3>1, <3>2
  <2> QED
    BY <2>3, <2>4, <2>5, <2>6
<1>3. PICK d \in [tasksCreated + 1 .. tasksCreated + n
                  -> SUBSET (tasksCreated + 1 .. tasksCreated + n)] :
        \/ Grows(tasks, t, n, kind, d, accepted)
        \/ AlternativeRuns(t) /\ Grows(Tried(t), t, n, kind, d, accepted)
  BY <1>2
<1>4. CASE Grows(tasks, t, n, kind, d, accepted)
  <2>1. SameLedger(tasks, t)
    BY LedgersAreSame
  <2> QED
    BY <1>1, <1>2, <1>4, <2>1, GrowIsUnmarked
<1>5. CASE AlternativeRuns(t) /\ Grows(Tried(t), t, n, kind, d, accepted)
  <2> DEFINE ledger == Tried(t)
  <2>1. SameLedger(ledger, t) /\ Grows(ledger, t, n, kind, d, accepted)
    BY <1>1, <1>5, LedgersAreSame
  <2> HIDE DEF ledger
  <2> QED
    BY <1>1, <1>2, <2>1, GrowIsUnmarked
<1> QED
  BY <1>3, <1>4, <1>5

\* Every action gives at most one task an outcome.
LEMMA ActionMarksOne ==
  ASSUME OrderInvariant, Next
  PROVE  \E x \in Tasks :
           Unmarked(x) \/ \E r \in {"done", "failed", "blocked", "too_broad"} : Marked(x, r)
<1>1. ASSUME NEW t \in Tasks, current = t,
             NEW r \in {"done", "failed", "blocked", "too_broad"}, Returns(t, r)
      PROVE  Marked(t, r)
  <2>1. tasks \in [Tasks -> TaskRecords(Tasks)] /\ SameLedger(tasks, t) /\ tasks[t].status \in Open
    BY <1>1, LedgersAreSame, OpenTasks DEF Open
  <2>2. Mark(tasks, t, r) /\ UNCHANGED tasksCreated
    BY <1>1 DEF Returns
  <2> QED
    BY <2>1, <2>2, MarkAloneIsMarked
<1>2. ASSUME NEW t \in Tasks,
             \/ FitFails(t) \/ SplitFails(t) \/ (NoSplit(t) /\ frames[t].fit = "required")
             \/ LeafEnds(t) \/ LeafTooBroad(t)
             \/ ChildrenFail(t) \/ Aggregates(t) \/ Integrates(t) \/ IntegrationFails(t)
      PROVE  \E r \in {"done", "failed", "blocked", "too_broad"} : Marked(t, r)
  <2>1. current = t /\ \E r \in {"done", "failed", "blocked", "too_broad"} : Returns(t, r)
    BY <1>2 DEF FitFails, SplitFails, NoSplit, LeafEnds, LeafTooBroad, ChildrenFail, Aggregates,
                Integrates, IntegrationFails, ChildrenOver, At
  <2> QED
    BY <1>1, <2>1
<1>3. ASSUME NEW t \in Tasks, SplitRefused(t) \/ ResplitMerged(t)
      PROVE  \E r \in {"done", "failed", "blocked", "too_broad"} : Marked(t, r)
  <2>1. /\ tasks \in [Tasks -> TaskRecords(Tasks)] /\ SameLedger(tasks, t)
        /\ tasks[t].status \in Open
    BY <1>3, LedgersAreSame, OpenTasks DEF SplitRefused, ResplitMerged, At, Open
  <2>2. CASE SplitRefused(t)
    <3>1. PICK n \in 2 .. Smaller(MaxChildren, Remaining) :
            /\ tasksCreated' = tasksCreated + n
            /\ Mark(Grow(tasks, t, n, tasks[t].kind, NoDependencies(n), FALSE), t, "failed")
      BY <2>2 DEF SplitRefused
    <3>2. n \in Nat /\ FALSE \in BOOLEAN
      OBVIOUS
    <3>3. Marked(t, "failed")
      BY <2>1, <3>1, <3>2, MarkIsMarked
    <3> QED
      BY <3>3
  <2>3. CASE ResplitMerged(t)
    <3>1. PICK r \in {"failed", "too_broad"} :
            Mark(Grow(tasks, t, 1, tasks[t].kind, NoDependencies(1), TRUE), t, r)
      BY <2>3 DEF ResplitMerged
    <3>2. tasksCreated' = tasksCreated + 1 /\ 1 \in Nat /\ TRUE \in BOOLEAN
      BY <2>3 DEF ResplitMerged
    <3>3. Marked(t, r)
      BY <2>1, <3>1, <3>2, MarkIsMarked
    <3> QED
      BY <3>3
  <2> QED
    BY <1>3, <2>2, <2>3
<1>4. ASSUME NEW t \in Tasks, AlternativeRejected(t)
      PROVE  Marked(t, "failed")
  <2> DEFINE ledger == Tried(t)
  <2>1. /\ current = t /\ tasks[t].alternatives < MaxAlternatives
        /\ Mark(ledger, t, "failed") /\ UNCHANGED tasksCreated
    BY <1>4 DEF AlternativeRejected, Backtracks, ChildrenOver, At
  <2>2. /\ ledger \in [Tasks -> TaskRecords(Tasks)] /\ SameLedger(ledger, t)
        /\ tasks[t].status \in Open
    BY <2>1, LedgersAreSame, OpenTasks DEF Open
  <2> HIDE DEF ledger
  <2> QED
    BY <2>1, <2>2, MarkAloneIsMarked
<1>5. ASSUME NEW t \in Tasks, Blocks(t)
      PROVE  \E x \in Tasks : Marked(x, "blocked")
  <2> DEFINE x == NextChild(t)
  <2>1. /\ current = t /\ Loops(t) /\ x \in Batch(t)
        /\ Mark(tasks, x, "blocked") /\ UNCHANGED tasksCreated
    BY <1>5 DEF Blocks, At, Loops, Stage
  <2>2. x \in Tasks /\ tasks[x].status \in Open
    BY <2>1, OpenTasks DEF Open
  <2> HIDE DEF x
  <2>3. tasks \in [Tasks -> TaskRecords(Tasks)] /\ SameLedger(tasks, x)
    BY <2>2, LedgersAreSame
  <2>4. Marked(x, "blocked")
    BY <2>1, <2>2, <2>3, MarkAloneIsMarked
  <2> QED
    BY <2>2, <2>4
<1>6. ASSUME NEW t \in Tasks,
             FitDecides(t) \/ ResplitFails(t) \/ (NoSplit(t) /\ frames[t].fit # "required")
      PROVE  Unmarked(t)
  <2>1. current = t /\ UNCHANGED <<tasksCreated, tasks, counted>>
    BY <1>6 DEF FitDecides, ResplitFails, NoSplit, Executes, At
  <2> QED
    BY <2>1, UnchangedIsUnmarked
<1>7. ASSUME NEW t \in Tasks, StartsChild(t) \/ StartsIntegrationTask(t)
      PROVE  \E x \in Tasks : Unmarked(x)
  <2> DEFINE x == NextChild(t)
  <2>1. current = t /\ Loops(t) /\ x \in Batch(t) /\ \E at : Enters(x, at)
    BY <1>7 DEF StartsChild, StartsIntegrationTask, At, Loops, Stage
  <2>2. x \in Tasks /\ tasks[x].status = "pending"
    BY <2>1, OpenTasks
  <2> HIDE DEF x
  <2> QED
    BY <2>1, <2>2, EntersIsUnmarked
<1>8. ASSUME NEW t \in Tasks,
             Splits(t) \/ Resplits(t) \/ AlternativeRuns(t) \/ FindsConflicts(t)
      PROVE  Unmarked(t)
  BY <1>8, RunsIsUnmarked
<1> QED
  BY <1>2, <1>3, <1>4, <1>5, <1>6, <1>7, <1>8 DEF Next

\* Initially nothing is counted.
LEMMA InitCounts == Init => CountsMatchLedger
<1> SUFFICES ASSUME Init
             PROVE  CountsMatchLedger
  OBVIOUS
<1>1. /\ Tasks = {1} /\ tasks[1].status = "running"
      /\ counted = [verified |-> 0, failed |-> 0, root |-> FALSE]
  BY DEF Init, Tasks, MakeTask
<1>2. /\ {t \in Tasks : tasks[t].status = "done"} = {}
      /\ {t \in Tasks : tasks[t].status \in {"failed", "blocked", "too_broad"}} = {}
  BY <1>1
<1> QED
  BY <1>1, <1>2, FS_EmptySet DEF CountsMatchLedger, Root

\* The node counters are those of the ledger, whatever the limits: every task that
\* has an outcome was counted once.
THEOREM CountsAreOfTheLedger == Spec => []CountsMatchLedger
<1>1. ASSUME OrderInvariant, CountsMatchLedger, [Next]_vars
      PROVE  CountsMatchLedger'
  <2>1. TypeOK
    BY <1>1 DEF OrderInvariant, TreeInvariant
  <2>2. CASE UNCHANGED vars
    BY <1>1, <2>2 DEF vars, CountsMatchLedger, Tasks
  <2>3. CASE Next
    <3>1. PICK x \in Tasks :
            Unmarked(x) \/ \E r \in {"done", "failed", "blocked", "too_broad"} : Marked(x, r)
      BY <1>1, <2>3, ActionMarksOne
    <3> QED
      BY <1>1, <2>1, <3>1, CountsUnmarked, CountsMarked
  <2> QED
    BY <1>1, <2>2, <2>3
<1>2. OrderInvariant /\ CountsMatchLedger /\ [Next]_vars => CountsMatchLedger'
  BY <1>1
<1> QED
  BY <1>2, InitCounts, OrderInvariantHolds, PTL DEF Spec
=============================================================================
