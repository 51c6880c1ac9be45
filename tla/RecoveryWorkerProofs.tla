------------------------ MODULE RecoveryWorkerProofs ------------------------
(* Proofs about RecoveryWorker, for every set of legal mechanisms, every set *)
(* of files and every budget and limit: the state has its type, the offered  *)
(* tools follow the strategy, and every adaptation has its cause in the      *)
(* history of the Worker.                                                    *)
EXTENDS RecoveryWorker, TLAPS

-----------------------------------------------------------------------------
(* What an observer leaves alone of the recovery state.                    *)

StrategyKept(r, s) ==
  /\ s.epoch = r.epoch /\ s.allowed = r.allowed
  /\ s.suppressed = r.suppressed /\ s.selected = r.selected
FailuresKept(r, s)  == s.failed = r.failed /\ s.failures = r.failures
AmbiguityKept(r, s) == s.ambiguous = r.ambiguous /\ s.ambiguities = r.ambiguities
RequestsKept(r, s)  == s.stale = r.stale /\ s.requests = r.requests
PhaseKept(r, s)     == s.entered = r.entered /\ s.repairs = r.repairs /\ s.repairsHere = r.repairsHere
SearchKept(r, s)    == s.quiet = r.quiet /\ s.reoriented = r.reoriented

\* The count of a repeated failure stays in its range, and reaches the
\* threshold only when the failure before it was the same.
LEMMA CountFacts ==
  ASSUME NEW same \in BOOLEAN, NEW before \in 0..Threshold
  PROVE  /\ Count(same, before) \in 0..Threshold
         /\ Count(same, before) >= Threshold => same
BY DEF Count, AtMost, Threshold

\* The mechanism a switch selects is one of those that are left.
LEMMA FirstFacts ==
  ASSUME NEW S \in SUBSET Mechanisms, S # {}
  PROVE  First(S) \in S
<1>1. \E m \in S : \A n \in S : Rank[m] <= Rank[n]
  <2>1. Rank["write_file"] = 1 /\ Rank["edit_file"] = 2 /\ Rank["edit_file_range"] = 3
    BY DEF Rank
  <2>2. CASE "write_file" \in S
    BY <2>1, <2>2 DEF Mechanisms
  <2>3. CASE "write_file" \notin S /\ "edit_file" \in S
    BY <2>1, <2>3 DEF Mechanisms
  <2>4. CASE S = {"edit_file_range"}
    BY <2>1, <2>4
  <2> QED
    BY <2>2, <2>3, <2>4 DEF Mechanisms
<1> QED
  BY <1>1 DEF First

\* What a request of a mutation does to the state.
LEMMA SoughtFacts ==
  ASSUME NEW r \in RecoveryState
  PROVE  /\ Sought(r) \in RecoveryState
         /\ StrategyKept(r, Sought(r)) /\ FailuresKept(r, Sought(r))
         /\ AmbiguityKept(r, Sought(r)) /\ RequestsKept(r, Sought(r))
         /\ Sought(r).guided = r.guided /\ Sought(r).reanchored = r.reanchored
         /\ Sought(r).quiet = 0 /\ Sought(r).reoriented = r.reoriented
         /\ Sought(r).terminal = r.terminal /\ Sought(r).repairs = r.repairs
         /\ r.entered \/ r.terminal # None =>
              Sought(r).entered = r.entered /\ Sought(r).repairsHere = r.repairsHere
         /\ ~(r.entered \/ r.terminal # None) => Sought(r).entered /\ Sought(r).repairsHere = 0
<1> DEFINE a == [r EXCEPT !.quiet = 0]
<1>1. a \in RecoveryState
  <2>1. 0 \in 0..SearchLimit
    BY RecoveryAssumption
  <2> QED
    BY <2>1 DEF RecoveryState
<1>2. CASE r.entered \/ r.terminal # None
  <2>1. Sought(r) = a
    BY <1>2 DEF Sought
  <2> QED
    BY <1>1, <1>2, <2>1
    DEF RecoveryState, StrategyKept, FailuresKept, AmbiguityKept, RequestsKept
<1>3. CASE ~(r.entered \/ r.terminal # None)
  <2> DEFINE b == [a EXCEPT !.entered = TRUE, !.repairsHere = 0]
  <2>1. Sought(r) = b
    BY <1>3 DEF Sought
  <2>2. b \in RecoveryState
    <3> HIDE DEF a
    <3>1. \A e \in BOOLEAN, h \in 0..1 :
            [a EXCEPT !.entered = e, !.repairsHere = h] \in RecoveryState
      BY <1>1 DEF RecoveryState
    <3>2. 0 \in 0..1
      OBVIOUS
    <3> QED
      BY <3>1, <3>2, Zenon
  <2> QED
    BY <1>3, <2>1, <2>2
    DEF RecoveryState, StrategyKept, FailuresKept, AmbiguityKept, RequestsKept
<1> QED
  BY <1>2, <1>3

\* What a call that changes no source does to the state.
LEMMA SearchedFacts ==
  ASSUME NEW r \in RecoveryState
  PROVE  /\ Searched(r) \in RecoveryState
         /\ StrategyKept(r, Searched(r)) /\ FailuresKept(r, Searched(r))
         /\ AmbiguityKept(r, Searched(r)) /\ RequestsKept(r, Searched(r)) /\ PhaseKept(r, Searched(r))
         /\ Searched(r).guided = r.guided /\ Searched(r).reanchored = r.reanchored
         /\ Searched(r).terminal = r.terminal
         /\ ~Reorients(r) => Searched(r).reoriented = r.reoriented
         /\ Reorients(r) => Searched(r).quiet = 0 /\ r.quiet + 1 >= SearchLimit
         /\ r.reoriented => Searched(r).quiet = 0
         /\ Searched(r).quiet <= AtMost(SearchLimit, r.quiet + 1)
<1>0. SearchLimit \in Nat
  BY RecoveryAssumption
<1>1. r.quiet \in 0..SearchLimit
  BY DEF RecoveryState
<1>2. AtMost(SearchLimit, r.quiet + 1) \in 0..SearchLimit
  BY <1>0, <1>1 DEF AtMost
<1>3. CASE SearchBlocked(r) \/ r.reoriented
  <2>1. Searched(r) = [r EXCEPT !.quiet = 0]
    BY <1>3 DEF Searched
  <2>2. ~Reorients(r)
    BY <1>3 DEF Reorients
  <2>3. 0 \in 0..SearchLimit
    BY <1>0
  <2>4. [r EXCEPT !.quiet = 0] \in RecoveryState
    BY <2>3 DEF RecoveryState
  <2> QED
    BY <1>2, <2>1, <2>2, <2>4 DEF RecoveryState, StrategyKept, FailuresKept,
      AmbiguityKept, RequestsKept, PhaseKept
<1>4. CASE ~(SearchBlocked(r) \/ r.reoriented) /\ Reorients(r)
  <2>1. Searched(r) = [r EXCEPT !.quiet = 0, !.reoriented = TRUE]
    BY <1>4 DEF Searched
  <2>2. 0 \in 0..SearchLimit
    BY <1>0
  <2>3. \A q \in 0..SearchLimit, e \in BOOLEAN :
          [r EXCEPT !.quiet = q, !.reoriented = e] \in RecoveryState
    BY DEF RecoveryState
  <2>4. Searched(r) \in RecoveryState
    BY <2>1, <2>2, <2>3, Zenon
  <2>5. r.quiet + 1 >= SearchLimit
    BY <1>4 DEF Reorients
  <2>6. Searched(r).quiet = 0 /\ 0 <= AtMost(SearchLimit, r.quiet + 1)
    BY <1>2, <2>1 DEF RecoveryState
  <2> QED
    BY <1>4, <2>1, <2>4, <2>5, <2>6 DEF RecoveryState, StrategyKept, FailuresKept,
      AmbiguityKept, RequestsKept, PhaseKept
<1>5. CASE ~(SearchBlocked(r) \/ r.reoriented) /\ ~Reorients(r)
  BY <1>0, <1>2, <1>5 DEF Searched, RecoveryState, StrategyKept, FailuresKept,
    AmbiguityKept, RequestsKept, PhaseKept
<1> QED
  BY <1>3, <1>4, <1>5

\* What an accepted mutation does to the state.
LEMMA CommittedFacts ==
  ASSUME NEW r \in RecoveryState
  PROVE  /\ MutationCommitted(r) \in RecoveryState
         /\ StrategyKept(r, MutationCommitted(r)) /\ AmbiguityKept(r, MutationCommitted(r))
         /\ RequestsKept(r, MutationCommitted(r)) /\ PhaseKept(r, MutationCommitted(r))
         /\ SearchKept(r, MutationCommitted(r))
         /\ MutationCommitted(r).guided = r.guided
         /\ MutationCommitted(r).reanchored = r.reanchored
         /\ MutationCommitted(r).terminal = r.terminal
         /\ MutationCommitted(r).failed = NoKey
<1>1. NoKey \in Keys /\ 0 \in 0..Threshold
  BY DEF Keys, Threshold
<1>2. \A k \in Keys, n \in 0..Threshold : [r EXCEPT !.failed = k, !.failures = n] \in RecoveryState
  BY DEF RecoveryState
<1>3. MutationCommitted(r) \in RecoveryState
  BY <1>1, <1>2, Zenon DEF MutationCommitted
<1> QED
  BY <1>3 DEF MutationCommitted, RecoveryState, StrategyKept, AmbiguityKept, RequestsKept,
    PhaseKept, SearchKept

\* What a counted failure does to the state; it reaches the threshold only
\* when the failure before it was the same.
LEMMA FailedFacts ==
  ASSUME NEW r \in RecoveryState, NEW t \in Targets, NEW m \in Mechanisms
  PROVE  /\ MutationFailed(r, t, m) \in RecoveryState
         /\ StrategyKept(r, MutationFailed(r, t, m)) /\ AmbiguityKept(r, MutationFailed(r, t, m))
         /\ RequestsKept(r, MutationFailed(r, t, m)) /\ PhaseKept(r, MutationFailed(r, t, m))
         /\ SearchKept(r, MutationFailed(r, t, m))
         /\ MutationFailed(r, t, m).guided = r.guided
         /\ MutationFailed(r, t, m).reanchored = r.reanchored
         /\ MutationFailed(r, t, m).terminal = r.terminal
         /\ MutationFailed(r, t, m).failed = <<t, m>>
         /\ Stagnates(MutationFailed(r, t, m)) => t = Goal /\ r.failed = <<t, m>>
<1> DEFINE same == r.failed = <<t, m>>
           n    == Count(same, r.failures)
<1>1. n \in 0..Threshold /\ (n >= Threshold => same)
  <2>1. r.failures \in 0..Threshold /\ same \in BOOLEAN
    BY DEF RecoveryState
  <2> QED
    BY <2>1, CountFacts
<1>2. <<t, m>> \in Keys
  BY DEF Keys
<1>3. MutationFailed(r, t, m) = [r EXCEPT !.failed = <<t, m>>, !.failures = n]
  BY DEF MutationFailed, RecoveryState
<1> HIDE DEF n
<1>4. \A k \in Keys, i \in 0..Threshold : [r EXCEPT !.failed = k, !.failures = i] \in RecoveryState
  BY DEF RecoveryState
<1>5. MutationFailed(r, t, m) \in RecoveryState
  BY <1>1, <1>2, <1>3, <1>4, Zenon
<1>6. MutationFailed(r, t, m).failures = n /\ MutationFailed(r, t, m).failed = <<t, m>>
  BY <1>3 DEF RecoveryState
<1>7. Stagnates(MutationFailed(r, t, m)) => t = Goal /\ r.failed = <<t, m>>
  BY <1>1, <1>6 DEF Stagnates
<1> QED
  BY <1>3, <1>5, <1>6, <1>7 DEF RecoveryState, StrategyKept, AmbiguityKept, RequestsKept,
    PhaseKept, SearchKept

\* What a candidate with a syntax error does when it leads to no switch: the
\* search is exhausted only by a repeated failure of the selected mechanism.
LEMMA ObservedFacts ==
  ASSUME NEW r \in RecoveryState, NEW t \in Targets, NEW m \in Mechanisms
  PROVE  /\ Observed(r, t, m) \in RecoveryState
         /\ StrategyKept(r, Observed(r, t, m)) /\ AmbiguityKept(r, Observed(r, t, m))
         /\ RequestsKept(r, Observed(r, t, m)) /\ PhaseKept(r, Observed(r, t, m))
         /\ SearchKept(r, Observed(r, t, m))
         /\ Observed(r, t, m).guided = r.guided
         /\ Observed(r, t, m).reanchored = r.reanchored
         /\ Observed(r, t, m).failed = <<t, m>>
         /\ \/ Observed(r, t, m).terminal = r.terminal
            \/ /\ Observed(r, t, m).terminal = "SEARCH_EXHAUSTED"
               /\ r.epoch = 1 /\ r.failed = <<Goal, r.selected>>
<1> DEFINE f == MutationFailed(r, t, m)
<1>0. f \in RecoveryState
  BY FailedFacts
<1>1. CASE Exhausts(f)
  <2>1. Observed(r, t, m) = [f EXCEPT !.terminal = "SEARCH_EXHAUSTED"]
    BY <1>1 DEF Observed
  <2>2. r.epoch = 1 /\ r.failed = <<Goal, r.selected>>
    BY <1>1, FailedFacts DEF Exhausts, StrategyKept
  <2> HIDE DEF f
  <2>3. [f EXCEPT !.terminal = "SEARCH_EXHAUSTED"] \in RecoveryState
    BY <1>0 DEF RecoveryState, Terminals
  <2> USE DEF f
  <2> QED
    BY <1>0, <2>1, <2>2, <2>3, FailedFacts
    DEF RecoveryState, StrategyKept, AmbiguityKept, RequestsKept, PhaseKept, SearchKept
<1>2. CASE ~Exhausts(f)
  <2>1. Observed(r, t, m) = f
    BY <1>2 DEF Observed
  <2> QED
    BY <2>1, FailedFacts
<1> QED
  BY <1>1, <1>2

\* A switch follows two failures in a row of one mechanism on the goal; it
\* leaves the other offered mechanisms, and there is one.
LEMMA SwitchedFacts ==
  ASSUME NEW r \in RecoveryState, NEW t \in Targets, NEW m \in Mechanisms,
         offered \in SUBSET Mechanisms, Switches(MutationFailed(r, t, m))
  PROVE  LET s == Switched(MutationFailed(r, t, m)) IN
         /\ s \in RecoveryState
         /\ r.epoch = 0 /\ r.failed = <<Goal, m>>
         /\ s.epoch = 1 /\ s.allowed = offered \ {m} /\ s.suppressed = {m}
         /\ offered \ {m} # {}
         /\ AmbiguityKept(r, s) /\ RequestsKept(r, s) /\ PhaseKept(r, s) /\ SearchKept(r, s)
         /\ s.guided = r.guided /\ s.reanchored = r.reanchored /\ s.terminal = r.terminal
         /\ s.failed = NoKey
<1> DEFINE f    == MutationFailed(r, t, m)
           rest == offered \ {m}
           s    == Switched(f)
<1>1. f \in RecoveryState /\ f.failed = <<t, m>> /\ f.epoch = r.epoch
  BY FailedFacts DEF StrategyKept
<1>2. f.epoch = 0 /\ Stagnates(f) /\ rest # {}
  BY <1>1 DEF Switches
<1>3. r.epoch = 0 /\ r.failed = <<Goal, m>>
  BY <1>1, <1>2, FailedFacts
<1>4. rest \in SUBSET Mechanisms /\ {m} \in SUBSET Mechanisms /\ First(rest) \in Mechanisms
  BY <1>2, FirstFacts
<1>5. s = [f EXCEPT !.epoch = 1, !.allowed = rest, !.suppressed = {m},
                    !.selected = First(rest), !.failed = NoKey, !.failures = 0]
  BY <1>1 DEF Switched
<1> HIDE DEF f, rest, s
<1>7. 1 \in 0..1 /\ 0 \in 0..Threshold /\ NoKey \in Keys
  BY DEF Keys, Threshold
<1>8. s \in RecoveryState
  <2> DEFINE g == [f EXCEPT !.epoch = 1, !.allowed = rest, !.suppressed = {m}]
             h == [g EXCEPT !.selected = First(rest), !.failed = NoKey, !.failures = 0]
  <2>1. \A e \in 0..1, a \in SUBSET Mechanisms, b \in SUBSET Mechanisms :
          [f EXCEPT !.epoch = e, !.allowed = a, !.suppressed = b] \in RecoveryState
    BY <1>1 DEF RecoveryState
  <2>2. g \in RecoveryState
    BY <1>4, <1>7, <2>1, Zenon
  <2>3. s = h
    BY <1>1, <1>5 DEF RecoveryState
  <2> HIDE DEF g
  <2>4. \A c \in Mechanisms \cup {None}, k \in Keys, n \in 0..Threshold :
          [g EXCEPT !.selected = c, !.failed = k, !.failures = n] \in RecoveryState
    BY <2>2 DEF RecoveryState
  <2>5. First(rest) \in Mechanisms \cup {None}
    BY <1>4
  <2>6. h \in RecoveryState
    BY <1>7, <2>4, <2>5, Zenon
  <2> QED
    BY <2>3, <2>6
<1>9. /\ s.epoch = 1 /\ s.allowed = rest /\ s.suppressed = {m} /\ s.failed = NoKey
      /\ AmbiguityKept(f, s) /\ RequestsKept(f, s) /\ PhaseKept(f, s) /\ SearchKept(f, s)
      /\ s.guided = f.guided /\ s.reanchored = f.reanchored /\ s.terminal = f.terminal
  BY <1>1, <1>5 DEF RecoveryState, AmbiguityKept, RequestsKept, PhaseKept, SearchKept
<1>10. /\ AmbiguityKept(r, f) /\ RequestsKept(r, f) /\ PhaseKept(r, f) /\ SearchKept(r, f)
       /\ f.guided = r.guided /\ f.reanchored = r.reanchored /\ f.terminal = r.terminal
  BY FailedFacts DEF f
<1>11. AmbiguityKept(r, s) /\ RequestsKept(r, s) /\ PhaseKept(r, s) /\ SearchKept(r, s)
  BY <1>9, <1>10 DEF AmbiguityKept, RequestsKept, PhaseKept, SearchKept
<1> QED
  BY <1>2, <1>3, <1>8, <1>9, <1>10, <1>11 DEF f, rest, s

\* The guidance is given only when the call before was the same ambiguous edit.
LEMMA AmbiguousFacts ==
  ASSUME NEW r \in RecoveryState, NEW t \in Targets
  PROVE  /\ Ambiguous(r, t) \in RecoveryState
         /\ StrategyKept(r, Ambiguous(r, t)) /\ FailuresKept(r, Ambiguous(r, t))
         /\ RequestsKept(r, Ambiguous(r, t)) /\ PhaseKept(r, Ambiguous(r, t))
         /\ SearchKept(r, Ambiguous(r, t))
         /\ Ambiguous(r, t).reanchored = r.reanchored
         /\ Ambiguous(r, t).ambiguous = <<r.epoch, t>>
         /\ Ambiguous(r, t).guided # r.guided => r.ambiguous = <<r.epoch, t>>
         /\ Ambiguous(r, t).terminal \in {r.terminal, "GUIDANCE_SPENT"}
<1> DEFINE same == r.ambiguous = <<r.epoch, t>>
           n    == Count(same, r.ambiguities)
           c    == [r EXCEPT !.ambiguous = <<r.epoch, t>>, !.ambiguities = n]
<1>1. n \in 0..Threshold /\ (n >= Threshold => same)
  <2>1. r.ambiguities \in 0..Threshold /\ same \in BOOLEAN
    BY DEF RecoveryState
  <2> QED
    BY <2>1, CountFacts
<1>2. Ambiguous(r, t) = IF n < Threshold THEN c
                        ELSE IF ~r.guided THEN [c EXCEPT !.guided = TRUE]
                        ELSE [c EXCEPT !.terminal = "GUIDANCE_SPENT"]
  BY DEF Ambiguous
<1> HIDE DEF n
<1>3. c \in RecoveryState
  <2>1. <<r.epoch, t>> \in (0..1) \X (Targets \cup {None})
    BY DEF RecoveryState
  <2>2. \A k \in (0..1) \X (Targets \cup {None}), i \in 0..Threshold :
          [r EXCEPT !.ambiguous = k, !.ambiguities = i] \in RecoveryState
    BY DEF RecoveryState
  <2> QED
    BY <1>1, <2>1, <2>2, Zenon
<1>4. /\ StrategyKept(r, c) /\ FailuresKept(r, c) /\ RequestsKept(r, c) /\ PhaseKept(r, c)
      /\ SearchKept(r, c) /\ c.reanchored = r.reanchored /\ c.guided = r.guided
      /\ c.terminal = r.terminal /\ c.ambiguous = <<r.epoch, t>>
  BY DEF RecoveryState, StrategyKept, FailuresKept, RequestsKept, PhaseKept, SearchKept
<1> HIDE DEF c
<1>5. [c EXCEPT !.guided = TRUE] \in RecoveryState
  BY <1>3 DEF RecoveryState
<1>6. [c EXCEPT !.terminal = "GUIDANCE_SPENT"] \in RecoveryState
  BY <1>3 DEF RecoveryState, Terminals
<1>7. CASE n < Threshold
  BY <1>2, <1>3, <1>4, <1>7
<1>8. CASE ~(n < Threshold) /\ ~r.guided
  <2>1. same
    BY <1>1, <1>8 DEF Threshold
  <2> QED
    BY <1>2, <1>3, <1>4, <1>5, <1>8, <2>1
    DEF RecoveryState, StrategyKept, FailuresKept, RequestsKept, PhaseKept, SearchKept
<1>9. CASE ~(n < Threshold) /\ r.guided
  <2>1. Ambiguous(r, t) = [c EXCEPT !.terminal = "GUIDANCE_SPENT"]
    BY <1>2, <1>9
  <2> QED
    BY <1>3, <1>4, <1>6, <2>1 DEF RecoveryState, StrategyKept, FailuresKept, RequestsKept, PhaseKept, SearchKept
<1> QED
  BY <1>7, <1>8, <1>9

\* Any other observed call ends the sequence of ambiguous edits.
LEMMA UnambiguousFacts ==
  ASSUME NEW r \in RecoveryState
  PROVE  /\ Unambiguous(r) \in RecoveryState
         /\ StrategyKept(r, Unambiguous(r)) /\ FailuresKept(r, Unambiguous(r))
         /\ RequestsKept(r, Unambiguous(r)) /\ PhaseKept(r, Unambiguous(r))
         /\ SearchKept(r, Unambiguous(r))
         /\ Unambiguous(r).guided = r.guided /\ Unambiguous(r).reanchored = r.reanchored
         /\ Unambiguous(r).terminal = r.terminal
         /\ Unambiguous(r).ambiguous = <<0, None>>
<1>1. <<0, None>> \in (0..1) \X (Targets \cup {None}) /\ 0 \in 0..Threshold
  BY DEF Threshold
<1>2. \A k \in (0..1) \X (Targets \cup {None}), i \in 0..Threshold :
        [r EXCEPT !.ambiguous = k, !.ambiguities = i] \in RecoveryState
  BY DEF RecoveryState
<1>3. Unambiguous(r) \in RecoveryState
  BY <1>1, <1>2, Zenon DEF Unambiguous
<1> QED
  BY <1>3 DEF Unambiguous, RecoveryState, StrategyKept, FailuresKept, RequestsKept,
    PhaseKept, SearchKept

\* What a request of a suppressed tool does to the state.
LEMMA RequestedFacts ==
  ASSUME NEW r \in RecoveryState, NEW t \in Targets, NEW m \in Mechanisms
  PROVE  /\ Requested(r, t, m) \in RecoveryState
         /\ StrategyKept(r, Requested(r, t, m)) /\ FailuresKept(r, Requested(r, t, m))
         /\ AmbiguityKept(r, Requested(r, t, m)) /\ PhaseKept(r, Requested(r, t, m))
         /\ SearchKept(r, Requested(r, t, m))
         /\ Requested(r, t, m).guided = r.guided
         /\ Requested(r, t, m).terminal \in {r.terminal, "REANCHOR_SPENT"}
<1> DEFINE same == r.stale = <<t, m>>
           n    == Count(same, r.requests)
           c    == [r EXCEPT !.stale = <<t, m>>, !.requests = n]
<1>1. n \in 0..Threshold
  <2>1. r.requests \in 0..Threshold /\ same \in BOOLEAN
    BY DEF RecoveryState
  <2> QED
    BY <2>1, CountFacts
<1>2. Requested(r, t, m) \in {c, [c EXCEPT !.reanchored = TRUE],
                              [c EXCEPT !.terminal = "REANCHOR_SPENT"]}
  BY DEF Requested
<1> HIDE DEF n
<1>3. c \in RecoveryState
  <2>1. <<t, m>> \in Keys
    BY DEF Keys
  <2>2. \A k \in Keys, i \in 0..Threshold : [r EXCEPT !.stale = k, !.requests = i] \in RecoveryState
    BY DEF RecoveryState
  <2> QED
    BY <1>1, <2>1, <2>2, Zenon
<1>4. /\ StrategyKept(r, c) /\ FailuresKept(r, c) /\ AmbiguityKept(r, c) /\ PhaseKept(r, c)
      /\ SearchKept(r, c) /\ c.guided = r.guided /\ c.terminal = r.terminal
  BY DEF RecoveryState, StrategyKept, FailuresKept, AmbiguityKept, PhaseKept, SearchKept
<1> HIDE DEF c
<1>5. [c EXCEPT !.reanchored = TRUE] \in RecoveryState
  BY <1>3 DEF RecoveryState
<1>6. [c EXCEPT !.terminal = "REANCHOR_SPENT"] \in RecoveryState
  BY <1>3 DEF RecoveryState, Terminals
<1>7. CASE Requested(r, t, m) = c
  BY <1>3, <1>4, <1>7
<1>8. CASE Requested(r, t, m) = [c EXCEPT !.reanchored = TRUE]
  BY <1>3, <1>4, <1>5, <1>8
  DEF RecoveryState, StrategyKept, FailuresKept, AmbiguityKept, PhaseKept, SearchKept
<1>9. CASE Requested(r, t, m) = [c EXCEPT !.terminal = "REANCHOR_SPENT"]
  BY <1>3, <1>4, <1>6, <1>9
  DEF RecoveryState, StrategyKept, FailuresKept, AmbiguityKept, PhaseKept, SearchKept
<1> QED
  BY <1>2, <1>7, <1>8, <1>9

\* A completion is repaired only when the phase has had no repair.
LEMMA RepairedFacts ==
  ASSUME NEW r \in RecoveryState, Denial(r) = None
  PROVE  /\ Repaired(r) \in RecoveryState
         /\ r.repairsHere = 0
         /\ StrategyKept(r, Repaired(r)) /\ FailuresKept(r, Repaired(r))
         /\ AmbiguityKept(r, Repaired(r)) /\ RequestsKept(r, Repaired(r)) /\ SearchKept(r, Repaired(r))
         /\ Repaired(r).guided = r.guided /\ Repaired(r).reanchored = r.reanchored
         /\ Repaired(r).terminal = r.terminal /\ Repaired(r).entered = r.entered
         /\ Repaired(r).repairs = r.repairs + 1 /\ Repaired(r).repairsHere = 1
<1>1. r.repairs \in 0..MaxRepairs /\ r.repairsHere \in 0..1
  BY DEF RecoveryState
<1>2. ~(r.repairs >= MaxRepairs) /\ ~(r.repairsHere >= 1)
  BY DEF Denial, None
<1>3. r.repairs + 1 \in 0..MaxRepairs /\ r.repairsHere = 0 /\ r.repairsHere + 1 = 1 /\ 1 \in 0..1
  BY <1>1, <1>2 DEF MaxRepairs
<1>4. \A n \in 0..MaxRepairs, i \in 0..1 :
        [r EXCEPT !.repairs = n, !.repairsHere = i] \in RecoveryState
  BY DEF RecoveryState
<1>5. Repaired(r) = [r EXCEPT !.repairs = r.repairs + 1, !.repairsHere = 1]
  BY <1>3 DEF Repaired, RecoveryState
<1>6. Repaired(r) \in RecoveryState
  <2> DEFINE k == r.repairs + 1
  <2>1. k \in 0..MaxRepairs /\ 1 \in 0..1 /\ Repaired(r) = [r EXCEPT !.repairs = k, !.repairsHere = 1]
    BY <1>3, <1>5
  <2> HIDE DEF k
  <2> QED
    BY <1>4, <2>1, Zenon
<1> QED
  BY <1>3, <1>5, <1>6 DEF RecoveryState, StrategyKept, FailuresKept, AmbiguityKept,
    RequestsKept, SearchKept

-----------------------------------------------------------------------------
(* The recovery state and the history.                                     *)

\* The counters of the observers say what the history says; an ambiguous edit counts in
\* its epoch, until another call follows.
Agree(r, s) ==
  /\ r.failed = s.streak
  /\ r.ambiguous[1] <= r.epoch
  /\ r.ambiguous[1] = r.epoch /\ r.ambiguous[2] # None =>
       s.edit = r.ambiguous[2] /\ "call" \notin s.since
  /\ r.quiet <= s.search

\* Where the repairs of the completion were given: before the mutation path is
\* entered they are all of the first phase, and a repair of another phase is one
\* of before any request.  Only a standing terminal keeps a request from
\* entering the path.
Phase(r, s) ==
  /\ ~r.entered => r.repairsHere = r.repairs
  /\ r.entered => s.sought
  /\ r.entered /\ r.repairs >= 1 /\ r.repairsHere = 0 => s.early
  /\ ~r.entered /\ r.terminal = None /\ r.repairs >= 1 => s.early
  /\ ~r.entered /\ s.sought => r.terminal # None

Good(r, s) == r \in RecoveryState /\ s \in History /\ Agree(r, s) /\ Phase(r, s)

LEMMA RangeFacts ==
  ASSUME NEW r \in RecoveryState
  PROVE  /\ r.repairs \in 0..2 /\ r.repairsHere \in 0..1 /\ r.entered \in BOOLEAN
         /\ r.quiet \in 0..SearchLimit /\ r.reoriented \in BOOLEAN
BY DEF RecoveryState, MaxRepairs

\* A note leaves the rest of the history alone.
LEMMA NoteFacts ==
  ASSUME NEW s \in History
  PROVE  /\ \A kind \in Uncounted :
              /\ Noted(s, kind) \in History /\ Noted(s, kind).edit = s.edit
              /\ Noted(s, kind).search = s.search /\ Noted(s, kind).sought = s.sought
              /\ Noted(s, kind).streak = s.streak /\ Noted(s, kind).early = s.early
              /\ "call" \notin s.since => "call" \notin Noted(s, kind).since
         /\ SawCall(s) \in History
         /\ SawCall(s).search = s.search /\ SawCall(s).sought = s.sought
         /\ SawCall(s).streak = s.streak /\ SawCall(s).early = s.early
<1>1. ASSUME NEW kind \in Uncounted
      PROVE  /\ Noted(s, kind) \in History /\ Noted(s, kind).edit = s.edit
             /\ Noted(s, kind).search = s.search /\ Noted(s, kind).sought = s.sought
             /\ Noted(s, kind).streak = s.streak /\ Noted(s, kind).early = s.early
             /\ "call" \notin s.since => "call" \notin Noted(s, kind).since
  <2>1. kind \in Interludes /\ kind # "call"
    BY DEF Interludes, Uncounted
  <2> QED
    BY <2>1 DEF Noted, History
<1>2. "call" \in Interludes
  BY DEF Interludes
<1> QED
  BY <1>1, <1>2 DEF SawCall, History

\* What is no observed call keeps them in agreement.
LEMMA NoteIsGood ==
  ASSUME NEW r, NEW s, Good(r, s), NEW kind \in Uncounted
  PROVE  Good(r, Noted(s, kind))
BY NoteFacts DEF Good, Agree, Phase

\* A request of a mutation keeps them in agreement.
LEMMA RequestIsGood ==
  ASSUME NEW r, NEW s, Good(r, s)
  PROVE  Good(Sought(r), SawRequest(s))
<1> DEFINE q == Sought(r)
           z == SawRequest(s)
<1>0. r \in RecoveryState /\ s \in History /\ SearchLimit \in Nat
  BY RecoveryAssumption DEF Good
<1>1. /\ z \in History /\ z.search = 0 /\ z.sought /\ z.streak = s.streak
      /\ z.edit = s.edit /\ z.since = s.since /\ z.early = s.early
  <2>1. \A i \in 0..SearchLimit, b \in BOOLEAN : [s EXCEPT !.search = i, !.sought = b] \in History
    BY <1>0 DEF History
  <2>2. 0 \in 0..SearchLimit
    BY <1>0
  <2>3. z \in History
    BY <2>1, <2>2, Zenon DEF SawRequest
  <2> QED
    BY <1>0, <2>3 DEF SawRequest, History
<1>2. q \in RecoveryState
  BY <1>0, SoughtFacts
<1>3. Agree(q, z)
  BY <1>0, <1>1, SoughtFacts DEF Good, Agree, FailuresKept, AmbiguityKept, StrategyKept
<1>4. CASE r.entered \/ r.terminal # None
  <2>1. /\ q.entered = r.entered /\ q.repairsHere = r.repairsHere
        /\ q.repairs = r.repairs /\ q.terminal = r.terminal
    BY <1>0, <1>4, SoughtFacts
  <2>2. Phase(q, z)
    BY <1>1, <1>4, <2>1 DEF Good, Phase
  <2> QED
    BY <1>1, <1>2, <1>3, <2>2 DEF Good
<1>5. CASE ~(r.entered \/ r.terminal # None)
  <2>1. q.entered /\ q.repairsHere = 0 /\ q.repairs = r.repairs /\ q.terminal = r.terminal
    BY <1>0, <1>5, SoughtFacts
  <2>2. Phase(q, z)
    BY <1>1, <1>5, <2>1 DEF Good, Phase
  <2> QED
    BY <1>1, <1>2, <1>3, <2>2 DEF Good
<1> QED
  BY <1>4, <1>5

\* An observed call that is no ambiguous edit keeps them in agreement.
LEMMA CallIsGood ==
  ASSUME NEW r, NEW s, Good(r, s)
  PROVE  Good(Unambiguous(r), SawCall(s))
<1>0. r \in RecoveryState /\ s \in History
  BY DEF Good
<1>1. /\ SawCall(s) \in History
      /\ SawCall(s).search = s.search /\ SawCall(s).sought = s.sought
      /\ SawCall(s).streak = s.streak /\ SawCall(s).early = s.early
  BY <1>0, NoteFacts
<1>2. r.epoch \in 0..1 /\ StrategyKept(r, Unambiguous(r)) /\ Unambiguous(r).ambiguous = <<0, None>>
  BY <1>0, UnambiguousFacts DEF RecoveryState
<1>3. /\ Unambiguous(r).ambiguous[1] <= Unambiguous(r).epoch
      /\ Unambiguous(r).ambiguous[2] = None
  BY <1>2 DEF StrategyKept
<1>4. /\ Unambiguous(r) \in RecoveryState /\ Unambiguous(r).terminal = r.terminal
      /\ FailuresKept(r, Unambiguous(r)) /\ PhaseKept(r, Unambiguous(r))
      /\ SearchKept(r, Unambiguous(r))
  BY <1>0, UnambiguousFacts
<1> QED
  BY <1>0, <1>1, <1>3, <1>4
  DEF Good, Agree, Phase, FailuresKept, PhaseKept, SearchKept

\* An accepted mutation keeps them in agreement.
LEMMA CommitIsGood ==
  ASSUME NEW r, NEW s, Good(r, s)
  PROVE  Good(MutationCommitted(r), [s EXCEPT !.streak = NoKey])
<1> DEFINE z == [s EXCEPT !.streak = NoKey]
<1>0. r \in RecoveryState /\ s \in History
  BY DEF Good
<1>1. /\ z \in History /\ z.edit = s.edit /\ z.search = s.search /\ z.sought = s.sought
      /\ z.streak = NoKey /\ z.early = s.early /\ z.since = s.since
  BY <1>0 DEF History, Keys
<1> HIDE DEF z
<1>2. Good(MutationCommitted(r), z)
  BY <1>0, <1>1, CommittedFacts
  DEF Good, Agree, Phase, AmbiguityKept, PhaseKept, SearchKept, StrategyKept
<1> QED
  BY <1>2 DEF z

\* A candidate with a syntax error keeps them in agreement.
LEMMA SyntaxFailureIsGood ==
  ASSUME NEW r, NEW s, Good(r, s), NEW t \in Targets, NEW m \in Mechanisms
  PROVE  Good(Observed(r, t, m), [s EXCEPT !.streak = <<t, m>>])
<1> DEFINE z == [s EXCEPT !.streak = <<t, m>>]
           q == Observed(r, t, m)
<1>0. r \in RecoveryState /\ s \in History
  BY DEF Good
<1>1. /\ z \in History /\ z.edit = s.edit /\ z.search = s.search /\ z.sought = s.sought
      /\ z.streak = <<t, m>> /\ z.early = s.early /\ z.since = s.since
  BY <1>0 DEF History, Keys
<1>2. q \in RecoveryState /\ q.failed = <<t, m>>
  BY <1>0, ObservedFacts
<1>3. StrategyKept(r, q) /\ AmbiguityKept(r, q) /\ PhaseKept(r, q) /\ SearchKept(r, q)
  BY <1>0, ObservedFacts
<1>4. q.terminal = r.terminal \/ q.terminal = "SEARCH_EXHAUSTED"
  BY <1>0, ObservedFacts
<1> HIDE DEF z, q
<1>5. Good(q, z)
  BY <1>0, <1>1, <1>2, <1>3, <1>4
  DEF Good, Agree, Phase, AmbiguityKept, PhaseKept, SearchKept, StrategyKept, None
<1> QED
  BY <1>5 DEF z, q

\* A switch keeps them in agreement.
LEMMA SwitchIsGood ==
  ASSUME NEW r, NEW s, Good(r, s), NEW t \in Targets, NEW m \in Mechanisms,
         offered \in SUBSET Mechanisms, Switches(MutationFailed(r, t, m))
  PROVE  Good(Switched(MutationFailed(r, t, m)), [SawCall(s) EXCEPT !.streak = NoKey])
<1> DEFINE z == [SawCall(s) EXCEPT !.streak = NoKey]
           q == Switched(MutationFailed(r, t, m))
<1>0. r \in RecoveryState /\ s \in History
  BY DEF Good
<1>1. /\ z \in History /\ z.search = s.search /\ z.sought = s.sought
      /\ z.streak = NoKey /\ z.early = s.early
  BY <1>0, NoteFacts DEF History, Keys
<1>2. q \in RecoveryState /\ q.failed = NoKey /\ q.terminal = r.terminal /\ q.epoch = 1
  BY <1>0, SwitchedFacts
<1>3. AmbiguityKept(r, q) /\ PhaseKept(r, q) /\ SearchKept(r, q)
  BY <1>0, SwitchedFacts
<1>a. r.epoch = 0
  BY <1>0, SwitchedFacts
<1>b. r.ambiguous[1] \in 0..1 /\ r.ambiguous[1] <= 0
  BY <1>0, <1>a DEF Good, Agree, RecoveryState
<1> HIDE DEF z, q
<1>c. q.ambiguous[1] <= q.epoch /\ q.ambiguous[1] # q.epoch
  BY <1>2, <1>3, <1>b DEF AmbiguityKept
<1>4. Good(q, z)
  BY <1>0, <1>1, <1>2, <1>3, <1>c DEF Good, Agree, Phase, AmbiguityKept, PhaseKept, SearchKept
<1> QED
  BY <1>4 DEF z, q

\* An ambiguous edit keeps them in agreement.
LEMMA AmbiguityIsGood ==
  ASSUME NEW r, NEW s, Good(r, s), NEW t \in Targets
  PROVE  Good(Ambiguous(r, t), [s EXCEPT !.edit = t, !.since = {}])
<1> DEFINE z == [s EXCEPT !.edit = t, !.since = {}]
           q == Ambiguous(r, t)
<1>0. r \in RecoveryState /\ s \in History
  BY DEF Good
<1>1. /\ z \in History /\ z.edit = t /\ z.since = {}
      /\ z.search = s.search /\ z.sought = s.sought
      /\ z.streak = s.streak /\ z.early = s.early
  BY <1>0 DEF History
<1>2. /\ q \in RecoveryState /\ q.ambiguous = <<q.epoch, t>> /\ q.epoch \in 0..1
      /\ q.terminal \in {r.terminal, "GUIDANCE_SPENT"}
  BY <1>0, AmbiguousFacts DEF StrategyKept, RecoveryState
<1>3. FailuresKept(r, q) /\ PhaseKept(r, q) /\ SearchKept(r, q)
  BY <1>0, AmbiguousFacts
<1> HIDE DEF z, q
<1>4. Good(q, z)
  BY <1>0, <1>1, <1>2, <1>3 DEF Good, Agree, Phase, FailuresKept, PhaseKept, SearchKept, None
<1> QED
  BY <1>4 DEF z, q

\* A request of a suppressed tool keeps them in agreement.
LEMMA SuppressedIsGood ==
  ASSUME NEW r, NEW s, Good(r, s), NEW t \in Targets, NEW m \in Mechanisms
  PROVE  Good(Requested(r, t, m), s)
<1> DEFINE q == Requested(r, t, m)
<1>0. r \in RecoveryState /\ s \in History
  BY DEF Good
<1>1. q \in RecoveryState /\ q.terminal \in {r.terminal, "REANCHOR_SPENT"}
  BY <1>0, RequestedFacts
<1>2. /\ StrategyKept(r, q) /\ FailuresKept(r, q) /\ AmbiguityKept(r, q)
      /\ PhaseKept(r, q) /\ SearchKept(r, q)
  BY <1>0, RequestedFacts
<1> HIDE DEF q
<1>3. Good(q, s)
  BY <1>0, <1>1, <1>2
  DEF Good, Agree, Phase, StrategyKept, FailuresKept, AmbiguityKept, PhaseKept, SearchKept, None
<1> QED
  BY <1>3 DEF q

\* A call that changes no source keeps them in agreement.
LEMMA SearchIsGood ==
  ASSUME Good(rec, seen)
  PROVE  /\ Good(Searched(rec), SawQuiet(seen))
         /\ Reorients(rec) => Good(Searched(rec), [seen EXCEPT !.search = 0])
<1> DEFINE q == Searched(rec)
           z == SawQuiet(seen)
           y == [seen EXCEPT !.search = 0]
<1>0. rec \in RecoveryState /\ seen \in History /\ SearchLimit \in Nat
  BY RecoveryAssumption DEF Good
<1>1. /\ q \in RecoveryState /\ q.terminal = rec.terminal /\ StrategyKept(rec, q)
      /\ FailuresKept(rec, q) /\ AmbiguityKept(rec, q) /\ PhaseKept(rec, q)
  BY <1>0, SearchedFacts
<1>2. /\ q.quiet \in 0..SearchLimit
      /\ q.quiet <= AtMost(SearchLimit, rec.quiet + 1)
      /\ rec.reoriented => q.quiet = 0
      /\ Reorients(rec) => q.quiet = 0
  BY <1>0, <1>1, SearchedFacts, RangeFacts
<1>3. /\ rec.quiet \in 0..SearchLimit /\ seen.search \in 0..SearchLimit
      /\ rec.quiet <= seen.search /\ rec.failed = seen.streak
  BY <1>0, RangeFacts DEF Good, Agree, History
<1>4. /\ z \in History /\ z.edit = seen.edit /\ z.since = seen.since /\ z.sought = seen.sought
      /\ z.streak = seen.streak /\ z.early = seen.early
      /\ z.search = IF rec.reoriented THEN seen.search ELSE AtMost(SearchLimit, seen.search + 1)
  <2>1. AtMost(SearchLimit, seen.search + 1) \in 0..SearchLimit
    BY <1>0, <1>3 DEF AtMost
  <2> QED
    BY <1>0, <2>1 DEF SawQuiet, History
<1>5. /\ y \in History /\ y.edit = seen.edit /\ y.since = seen.since /\ y.sought = seen.sought
      /\ y.streak = seen.streak /\ y.early = seen.early /\ y.search = 0
  BY <1>0 DEF History
<1>6. q.quiet <= z.search
  <2>1. CASE rec.reoriented
    BY <1>2, <1>3, <1>4, <2>1
  <2>2. CASE ~rec.reoriented
    <3>1. AtMost(SearchLimit, rec.quiet + 1) <= AtMost(SearchLimit, seen.search + 1)
      BY <1>0, <1>3 DEF AtMost
    <3>2. /\ AtMost(SearchLimit, rec.quiet + 1) \in Nat
          /\ AtMost(SearchLimit, seen.search + 1) \in Nat
      BY <1>0, <1>3 DEF AtMost
    <3> QED
      BY <1>2, <1>4, <2>2, <3>1, <3>2
  <2> QED
    BY <2>1, <2>2
<1>7. Agree(rec, seen) /\ Phase(rec, seen)
  BY DEF Good
<1> HIDE DEF q, z, y
<1>8. Good(q, z)
  BY <1>1, <1>3, <1>4, <1>6, <1>7
  DEF Good, Agree, Phase, StrategyKept, FailuresKept, AmbiguityKept, PhaseKept
<1>9. ASSUME Reorients(rec) PROVE Good(q, y)
  BY <1>1, <1>2, <1>3, <1>5, <1>7, <1>9
  DEF Good, Agree, Phase, StrategyKept, FailuresKept, AmbiguityKept, PhaseKept
<1> QED
  BY <1>8, <1>9 DEF q, z, y

\* A repair keeps them in agreement, and the second one is earned.
LEMMA RepairIsGood ==
  ASSUME NEW r, NEW s, Good(r, s), Denial(r) = None
  PROVE  /\ Good(Repaired(r), [s EXCEPT !.early = @ \/ ~s.sought])
         /\ r.repairs = 0 \/ (s.early /\ s.sought)
<1> DEFINE q == Repaired(r)
           z == [s EXCEPT !.early = s.early \/ ~s.sought]
<1>0. r \in RecoveryState /\ s \in History
  BY DEF Good
<1>1. r.repairs \in 0..2 /\ r.repairsHere = 0
  BY <1>0, RangeFacts, RepairedFacts
<1>2. s.early \in BOOLEAN /\ s.sought \in BOOLEAN
  BY <1>0 DEF History
<1>3. /\ z \in History /\ z.edit = s.edit /\ z.search = s.search /\ z.sought = s.sought
      /\ z.streak = s.streak /\ z.since = s.since /\ z.early = (s.early \/ ~s.sought)
  <2>1. (s.early \/ ~s.sought) \in BOOLEAN
    BY <1>2
  <2> QED
    BY <1>0, <2>1 DEF History
<1>4. /\ q \in RecoveryState /\ q.terminal = r.terminal /\ q.entered = r.entered
      /\ q.repairs = r.repairs + 1 /\ q.repairsHere = 1
      /\ FailuresKept(r, q) /\ AmbiguityKept(r, q) /\ SearchKept(r, q)
  BY <1>0, RepairedFacts
<1>5. r.repairs = 0 \/ (s.early /\ s.sought)
  BY <1>1, <1>2 DEF Good, Phase
<1>s. StrategyKept(r, q)
  BY <1>0, RepairedFacts
<1>6. Agree(q, z)
  BY <1>3, <1>4, <1>s DEF Good, Agree, StrategyKept, FailuresKept, AmbiguityKept, SearchKept
<1> HIDE DEF q, z
<1>7. Phase(q, z)
  <2>1. Phase(r, s) /\ r.entered \in BOOLEAN
    BY <1>0, RangeFacts DEF Good
  <2>2. ~q.entered => q.repairsHere = q.repairs
    BY <1>1, <1>4, <2>1 DEF Phase
  <2>3. q.entered => z.sought
    BY <1>3, <1>4, <2>1 DEF Phase
  <2>4. ~q.entered /\ q.terminal = None => z.early
    BY <1>2, <1>3, <1>4, <2>1 DEF Phase
  <2>5. ~q.entered /\ z.sought => q.terminal # None
    BY <1>3, <1>4, <2>1 DEF Phase
  <2>6. q.repairsHere # 0
    BY <1>4
  <2> QED
    BY <2>2, <2>3, <2>4, <2>5, <2>6 DEF Phase
<1>8. Good(q, z)
  BY <1>3, <1>4, <1>6, <1>7 DEF Good
<1>9. z = [s EXCEPT !.early = @ \/ ~s.sought]
  BY <1>0 DEF z, History
<1> QED
  BY <1>5, <1>8, <1>9 DEF q

-----------------------------------------------------------------------------
(* The inductive invariant.                                                *)

\* The strategy leaves a legal mechanism.
Strategy(r) == r.allowed \subseteq Legal /\ r.allowed \ r.suppressed # {}

\* The tools are those of the strategy and the gates.
Offer == offered = Project(rec, ctx, impact)

\* What TypeOK says of the rest of the state.
Locals ==
  /\ pc \in {"answer", "calls", "spent", "end"}
  /\ left \in 0..(Budget - 1)
  /\ ctx \in BOOLEAN /\ impact \in BOOLEAN
  /\ idle \in BOOLEAN /\ acted \in BOOLEAN
  /\ failedEdits \in [Targets -> 0..(FailLimit - 1)]
  /\ stagnant \in 0..(StagnationLimit - 1)
  /\ outcome \in [status : Statuses, terminal : Terminals]

IInv == Good(rec, seen) /\ Strategy(rec) /\ Offer /\ Locals

Earned == SwitchIsEarned /\ GuidanceIsEarned /\ ReorientationIsEarned /\ RepairIsEarned

\* It contains the type invariant and what is promised of the tools.
LEMMA InvImplies ==
  ASSUME IInv
  PROVE  TypeOK /\ OfferedFollowsStrategy
<1>1. rec \in RecoveryState /\ seen \in History
  BY DEF IInv, Good
<1>2. rec.allowed \in SUBSET Mechanisms
  BY <1>1 DEF RecoveryState
<1>3. offered \in SUBSET Mechanisms
  BY <1>2 DEF IInv, Offer, Project
<1>4. TypeOK
  BY <1>1, <1>3 DEF IInv, Locals, TypeOK
<1>5. OfferedFollowsStrategy
  BY DEF IInv, Offer, Project, Strategy, OfferedFollowsStrategy
<1> QED
  BY <1>4, <1>5

\* A Worker starts with it.
LEMMA InitEstablishesInv == Init => IInv
<1> SUFFICES ASSUME Init PROVE IInv
  OBVIOUS
<1>0. /\ SearchLimit \in Nat /\ Budget \in Nat \ {0} /\ FailLimit \in Nat \ {0}
      /\ StagnationLimit \in Nat \ {0} /\ Legal \in SUBSET Mechanisms /\ Legal # {}
  BY RecoveryAssumption
<1>1. 0 \in 0..SearchLimit /\ Budget - 1 \in 0..(Budget - 1)
      /\ 0 \in 0..(FailLimit - 1) /\ 0 \in 0..(StagnationLimit - 1)
  BY <1>0
<1>2. Fresh \in RecoveryState
  BY <1>0, <1>1 DEF Fresh, RecoveryState, Keys, Threshold, MaxRepairs, Terminals
<1>3. Unseen \in History
  BY <1>1 DEF Unseen, History, Keys
<1>4. Agree(Fresh, Unseen) /\ Phase(Fresh, Unseen)
  BY DEF Agree, Phase, Fresh, Unseen
<1>5. Strategy(Fresh)
  BY <1>0 DEF Strategy, Fresh
<1>6. Offer
  BY DEF Init, Offer, Project
<1>7. Locals
  BY <1>1 DEF Init, Locals, Statuses, Terminals
<1> QED
  BY <1>2, <1>3, <1>4, <1>5, <1>6, <1>7 DEF Init, IInv, Good

\* The end of the Worker and the top of the loop keep the types.
LEMMA ReturnsLocals ==
  ASSUME Locals, NEW status \in Statuses, NEW terminal \in Terminals, Returns(status, terminal)
  PROVE  Locals' /\ UNCHANGED <<ctx, impact, offered>>
<1>1. "failed" \in Statuses
  BY DEF Statuses
<1>2. (IF ~ctx \/ (~impact /\ status # "provider_failure") THEN "failed" ELSE status) \in Statuses
  BY <1>1
<1>3. outcome' \in [status : Statuses, terminal : Terminals]
  BY <1>2 DEF Returns
<1> QED
  BY <1>3 DEF Returns, Locals, gates, locals

LEMMA AskLocals ==
  ASSUME Locals, AsksModel
  PROVE  pc' \in {"answer", "calls", "spent", "end"} /\ left' \in 0..(Budget - 1)
         /\ outcome' \in [status : Statuses, terminal : Terminals]
<1>1. Budget \in Nat \ {0}
  BY RecoveryAssumption
<1> QED
  BY <1>1 DEF AsksModel, Locals

LEMMA FailedEditLocals ==
  ASSUME Locals, NEW t \in Targets, FailedEditCounts(t), acted' \in BOOLEAN, idle' \in BOOLEAN
  PROVE  Locals' /\ UNCHANGED <<ctx, impact, offered>>
<1>1. FailLimit \in Nat \ {0}
  BY RecoveryAssumption
<1>2. failedEdits' \in [Targets -> 0..(FailLimit - 1)]
  <2>1. CASE ctx
    <3>1. failedEdits[t] \in 0..(FailLimit - 1) /\ ~(failedEdits[t] + 1 >= FailLimit)
      BY <2>1 DEF Locals, FailedEditCounts, TooBroad
    <3>2. failedEdits[t] + 1 \in 0..(FailLimit - 1)
      BY <1>1, <3>1
    <3> QED
      BY <2>1, <3>2 DEF Locals, FailedEditCounts
  <2>2. CASE ~ctx
    BY <2>2 DEF Locals, FailedEditCounts
  <2> QED
    BY <2>1, <2>2
<1> QED
  BY <1>2 DEF Locals, FailedEditCounts, Continue, gates

LEMMA GivesUpLocals ==
  ASSUME Locals, NEW t \in Targets, GivesUp(t)
  PROVE  Locals' /\ UNCHANGED <<ctx, impact, offered>>
<1>1. "too_broad" \in Statuses /\ None \in Terminals
  BY DEF Statuses, Terminals
<1> QED
  BY <1>1, ReturnsLocals DEF GivesUp

LEMMA ForgetsLocals ==
  ASSUME Locals, ForgetsFailures
  PROVE  /\ failedEdits' \in [Targets -> 0..(FailLimit - 1)]
         /\ stagnant' \in 0..(StagnationLimit - 1)
<1>1. FailLimit \in Nat \ {0} /\ StagnationLimit \in Nat \ {0}
  BY RecoveryAssumption
<1>2. 0 \in 0..(FailLimit - 1) /\ 0 \in 0..(StagnationLimit - 1)
  BY <1>1
<1> QED
  BY <1>2 DEF ForgetsFailures

-----------------------------------------------------------------------------
(* The steps.                                                              *)

\* A step that adapts nothing.
Calm(r, s) ==
  /\ StrategyKept(r, s)
  /\ s.guided = r.guided /\ s.reoriented = r.reoriented /\ s.repairs = r.repairs
  /\ s.terminal = r.terminal \/ s.terminal # "SEARCH_EXHAUSTED"

LEMMA CalmFacts ==
  ASSUME NEW r \in RecoveryState
  PROVE  /\ Calm(r, Sought(r)) /\ Calm(r, Unambiguous(r)) /\ Calm(r, MutationCommitted(r))
         /\ ~Reorients(r) => Calm(r, Searched(r))
<1>1. Calm(r, Sought(r))
  BY SoughtFacts DEF Calm
<1>2. Calm(r, Unambiguous(r))
  BY UnambiguousFacts DEF Calm, PhaseKept, SearchKept
<1>3. Calm(r, MutationCommitted(r))
  BY CommittedFacts DEF Calm, PhaseKept, SearchKept
<1>4. ~Reorients(r) => Calm(r, Searched(r))
  BY SearchedFacts DEF Calm, PhaseKept
<1> QED
  BY <1>1, <1>2, <1>3, <1>4

LEMMA CalmTransitive ==
  ASSUME NEW r, NEW s, NEW u, Calm(r, s), Calm(s, u)
  PROVE  Calm(r, u)
BY DEF Calm, StrategyKept

LEMMA CalmIsEarned ==
  ASSUME Calm(rec, rec')
  PROVE  Earned
BY DEF Calm, StrategyKept, Earned, SwitchIsEarned, GuidanceIsEarned, ReorientationIsEarned,
  RepairIsEarned

\* A strategy that is kept goes on being offered, whether the tools are
\* projected again or not.
LEMMA StrategyStays ==
  ASSUME Strategy(rec), Offer, StrategyKept(rec, rec'),
         UNCHANGED <<ctx, impact, offered>> \/ offered' = Project(rec', ctx', impact')
  PROVE  Strategy(rec') /\ Offer'
BY DEF Strategy, Offer, Project, StrategyKept

\* A step that ends the Worker, or changes nothing but its locals.
LEMMA StillStep ==
  ASSUME IInv, UNCHANGED <<rec, seen>>, Locals',
         UNCHANGED <<ctx, impact, offered>>
  PROVE  IInv' /\ Earned
<1>1. Calm(rec, rec') /\ StrategyKept(rec, rec')
  BY DEF Calm, StrategyKept
<1>2. Strategy(rec') /\ Offer'
  BY <1>1, StrategyStays DEF IInv
<1> QED
  BY <1>1, <1>2, CalmIsEarned DEF IInv

\* A step that adapts nothing.
LEMMA CalmStep ==
  ASSUME IInv, Good(rec', seen'), Calm(rec, rec'), Locals',
         UNCHANGED <<ctx, impact, offered>> \/ offered' = Project(rec', ctx', impact')
  PROVE  IInv' /\ Earned
<1>1. StrategyKept(rec, rec')
  BY DEF Calm
<1>2. Strategy(rec') /\ Offer'
  BY <1>1, StrategyStays DEF IInv
<1> QED
  BY <1>2, CalmIsEarned DEF IInv

LEMMA AnswerSteps ==
  ASSUME IInv, BudgetEnds \/ AnswerStep
  PROVE  IInv' /\ Earned
<1>0. /\ Locals /\ Good(rec, seen) /\ rec \in RecoveryState /\ seen \in History
      /\ None \in Terminals /\ {"failed", "done", "provider_failure", "budget_exhausted"} \subseteq Statuses
  BY DEF IInv, Good, Terminals, Statuses
<1>1. CASE BudgetEnds \/ ProviderFails \/ StopsBehindClosedGate
  <2>1. Locals' /\ UNCHANGED <<ctx, impact, offered>> /\ UNCHANGED <<rec, seen>>
    BY <1>0, <1>1, ReturnsLocals DEF BudgetEnds, ProviderFails, StopsBehindClosedGate
  <2> QED
    BY <2>1, StillStep
<1>2. CASE Finishes
  <2>1. (IF acted THEN "done" ELSE "failed") \in Statuses
    BY <1>0
  <2>2. Locals' /\ UNCHANGED <<ctx, impact, offered>> /\ UNCHANGED <<rec, seen>>
    BY <1>0, <1>2, <2>1, ReturnsLocals DEF Finishes
  <2> QED
    BY <2>2, StillStep
<1>3. CASE Nudged \/ EndAnswer
  <2>1. /\ AsksModel /\ idle' \in BOOLEAN /\ UNCHANGED <<rec, ctx, impact, offered>>
        /\ UNCHANGED <<acted, failedEdits, stagnant>>
        /\ seen' \in {seen, Noted(seen, "answer")}
    BY <1>0, <1>3 DEF Nudged, EndAnswer, Restart, gates, locals, Locals
  <2>2. Locals'
    BY <1>0, <2>1, AskLocals DEF Locals
  <2>3. Good(rec', seen')
    BY <1>0, <2>1, NoteIsGood DEF Uncounted
  <2>4. Calm(rec, rec')
    BY <2>1 DEF Calm, StrategyKept
  <2> QED
    BY <2>1, <2>2, <2>3, <2>4, CalmStep
<1>4. CASE CompletionRepaired
  <2>1. /\ Denial(rec) = None /\ rec' = Repaired(rec)
        /\ seen' = Noted([seen EXCEPT !.early = @ \/ ~seen.sought], "answer")
        /\ AsksModel /\ idle' = FALSE /\ UNCHANGED <<ctx, impact, offered, acted, failedEdits, stagnant>>
    BY <1>4 DEF CompletionRepaired, Restart, gates
  <2>2. Locals'
    BY <1>0, <2>1, AskLocals DEF Locals
  <2>3. Good(rec', seen') /\ (rec.repairs = 0 \/ (seen.early /\ seen.sought))
    BY <1>0, <2>1, RepairIsGood, NoteIsGood DEF Uncounted
  <2>4. /\ StrategyKept(rec, rec') /\ rec'.guided = rec.guided /\ rec'.terminal = rec.terminal
        /\ rec'.reoriented = rec.reoriented
    BY <1>0, <2>1, RepairedFacts DEF SearchKept
  <2>5. Strategy(rec') /\ Offer'
    BY <2>1, <2>4, StrategyStays DEF IInv
  <2>6. Earned
    BY <2>3, <2>4 DEF Earned, SwitchIsEarned, GuidanceIsEarned, ReorientationIsEarned,
      RepairIsEarned, StrategyKept
  <2> QED
    BY <2>2, <2>3, <2>5, <2>6 DEF IInv
<1>5. CASE CompletionDenied
  <2> DEFINE d == Denial(rec)
  <2>1. d \in Terminals /\ d # None /\ d # "SEARCH_EXHAUSTED"
    BY <1>5 DEF CompletionDenied, Denial, Terminals
  <2>2. rec' = [rec EXCEPT !.terminal = d] /\ Returns("failed", d) /\ seen' = seen
    BY <1>5 DEF CompletionDenied
  <2> HIDE DEF d
  <2>3. Locals' /\ UNCHANGED <<ctx, impact, offered>>
    BY <1>0, <2>1, <2>2, ReturnsLocals
  <2>4. rec' \in RecoveryState
    BY <1>0, <2>1, <2>2 DEF RecoveryState
  <2>5. /\ Calm(rec, rec') /\ FailuresKept(rec, rec') /\ AmbiguityKept(rec, rec')
        /\ SearchKept(rec, rec') /\ PhaseKept(rec, rec') /\ rec'.terminal # None
    BY <1>0, <2>1, <2>2
    DEF RecoveryState, Calm, StrategyKept, FailuresKept, AmbiguityKept, SearchKept, PhaseKept
  <2>6. Good(rec', seen')
    BY <1>0, <2>2, <2>4, <2>5
    DEF Good, Agree, Phase, FailuresKept, AmbiguityKept, SearchKept, PhaseKept
  <2> QED
    BY <2>3, <2>5, <2>6, CalmStep
<1> QED
  BY <1>1, <1>2, <1>3, <1>4, <1>5 DEF AnswerStep

\* The request of a mutation, and what follows it.
LEMMA RequestedMutation ==
  ASSUME IInv
  PROVE  /\ Locals /\ offered \in SUBSET Mechanisms
         /\ rec \in RecoveryState /\ seen \in History
         /\ Sought(rec) \in RecoveryState /\ SawRequest(seen) \in History
         /\ Good(Sought(rec), SawRequest(seen)) /\ Calm(rec, Sought(rec))
         /\ SawRequest(seen).edit = seen.edit /\ SawRequest(seen).since = seen.since
         /\ SawRequest(seen).streak = seen.streak
         /\ Good(rec, seen)
<1>1. rec \in RecoveryState /\ seen \in History /\ Good(rec, seen) /\ Locals
  BY DEF IInv, Good
<1>2. offered \in SUBSET Mechanisms
  BY InvImplies DEF TypeOK
<1>3. Good(Sought(rec), SawRequest(seen))
  BY <1>1, RequestIsGood
<1> QED
  BY <1>1, <1>2, <1>3, CalmFacts DEF Good, SawRequest, History

LEMMA SwitchStep ==
  ASSUME IInv, NEW t \in Targets, NEW m \in Mechanisms, SwitchesStrategy(t, m)
  PROVE  IInv' /\ Earned
<1> DEFINE q == Sought(rec)
           z == SawRequest(seen)
<1>1. /\ m \in offered /\ Switches(MutationFailed(q, t, m)) /\ rec' = Switched(MutationFailed(q, t, m))
      /\ offered' = Project(rec', ctx, impact) /\ seen' = [SawCall(z) EXCEPT !.streak = NoKey]
      /\ AsksModel /\ idle' = FALSE /\ ForgetsFailures
      /\ ctx' = ctx /\ impact' = impact /\ acted' = acted
  BY DEF SwitchesStrategy, Restart, gates
<1>2. /\ Locals /\ offered \in SUBSET Mechanisms /\ rec \in RecoveryState /\ q \in RecoveryState
      /\ Good(q, z) /\ Calm(rec, q) /\ FailuresKept(rec, q) /\ rec.failed = seen.streak
  BY RequestedMutation, SoughtFacts DEF Good, Agree
<1> HIDE DEF q, z
<1>3. Good(rec', seen')
  BY <1>1, <1>2, SwitchIsGood
<1>4. /\ rec'.epoch = 1 /\ q.failed = <<Goal, m>>
      /\ rec'.allowed = offered \ {m} /\ rec'.suppressed = {m} /\ offered \ {m} # {}
      /\ rec'.guided = q.guided /\ rec'.terminal = q.terminal
      /\ rec'.reoriented = q.reoriented /\ rec'.repairs = q.repairs
  BY <1>1, <1>2, SwitchedFacts DEF SearchKept, PhaseKept
<1>5. Earned
  BY <1>2, <1>4 DEF Earned, SwitchIsEarned, GuidanceIsEarned, ReorientationIsEarned,
    RepairIsEarned, Calm, FailuresKept
<1>6. offered \subseteq Legal
  BY InvImplies DEF OfferedFollowsStrategy
<1>7. Strategy(rec') /\ Offer'
  BY <1>1, <1>4, <1>6 DEF Strategy, Offer, Project
<1>8. Locals'
  BY <1>1, <1>2, AskLocals, ForgetsLocals DEF Locals
<1> QED
  BY <1>3, <1>5, <1>7, <1>8 DEF IInv

LEMMA SyntaxSteps ==
  ASSUME IInv, NEW t \in Targets, NEW m \in Mechanisms,
         SyntaxFailureEnds(t, m) \/ SyntaxInvalid(t, m)
  PROVE  IInv' /\ Earned
<1> DEFINE q == Sought(rec)
           z == SawRequest(seen)
           o == Observed(q, t, m)
           y == [z EXCEPT !.streak = <<t, m>>]
<1>1. /\ Locals /\ rec \in RecoveryState /\ q \in RecoveryState /\ z \in History
      /\ Good(q, z) /\ Calm(rec, q) /\ FailuresKept(rec, q) /\ rec.failed = seen.streak
      /\ q.terminal = rec.terminal
  BY RequestedMutation, SoughtFacts DEF Good, Agree
<1>2. Good(o, y) /\ o \in RecoveryState
  BY <1>1, SyntaxFailureIsGood DEF Good
<1>3. /\ StrategyKept(q, o) /\ PhaseKept(q, o) /\ SearchKept(q, o) /\ o.guided = q.guided
      /\ o.terminal = q.terminal \/ ( o.terminal = "SEARCH_EXHAUSTED" /\ q.epoch = 1
                                      /\ q.failed = <<Goal, q.selected>> )
  BY <1>1, ObservedFacts
<1>4. CASE SyntaxFailureEnds(t, m)
  <2>1. rec' = o /\ seen' = y /\ Returns("failed", rec'.terminal)
    BY <1>4 DEF SyntaxFailureEnds
  <2> HIDE DEF q, z, o, y
  <2>2. o.terminal \in Terminals /\ "failed" \in Statuses
    BY <1>2 DEF RecoveryState, Statuses
  <2>3. Locals' /\ UNCHANGED <<ctx, impact, offered>>
    BY <1>1, <2>1, <2>2, ReturnsLocals
  <2>4. StrategyKept(rec, rec')
    BY <1>1, <1>3, <2>1 DEF StrategyKept, Calm
  <2>5. Strategy(rec') /\ Offer'
    BY <2>3, <2>4, StrategyStays DEF IInv
  <2>6. /\ rec'.epoch = rec.epoch /\ rec'.guided = rec.guided
        /\ rec'.reoriented = rec.reoriented /\ rec'.repairs = rec.repairs
    BY <1>1, <1>3, <2>1 DEF StrategyKept, Calm, SearchKept, PhaseKept
  <2>7. rec'.terminal # rec.terminal => rec.epoch = 1 /\ seen.streak = <<Goal, rec.selected>>
    BY <1>1, <1>3, <2>1 DEF StrategyKept, Calm, FailuresKept
  <2>8. Earned
    BY <2>6, <2>7 DEF Earned, SwitchIsEarned, GuidanceIsEarned, ReorientationIsEarned,
      RepairIsEarned
  <2> QED
    BY <1>2, <2>1, <2>3, <2>5, <2>8 DEF IInv
<1>5. CASE SyntaxInvalid(t, m)
  <2>1. /\ rec' = Unambiguous(o) /\ o.terminal = None
        /\ seen' = [SawCall(z) EXCEPT !.streak = <<t, m>>]
        /\ (Failed /\ FailedEditCounts(t)) \/ GivesUp(t)
    BY <1>5 DEF SyntaxInvalid
  <2>2. seen' = SawCall(y)
    BY <1>1, <2>1 DEF SawCall, History
  <2> HIDE DEF q, z, o, y
  <2>3. Good(rec', seen')
    BY <1>2, <2>1, <2>2, CallIsGood
  <2>4. Calm(q, o)
    BY <1>1, <1>3, <2>1 DEF Calm, SearchKept, PhaseKept, None
  <2>5. Calm(rec, rec')
    <3>1. Calm(o, rec')
      BY <1>2, <2>1, CalmFacts
    <3> QED
      BY <1>1, <2>4, <3>1, CalmTransitive
  <2>6. Locals' /\ UNCHANGED <<ctx, impact, offered>>
    BY <1>1, <2>1, FailedEditLocals, GivesUpLocals DEF Failed
  <2> QED
    BY <2>3, <2>5, <2>6, CalmStep
<1> QED
  BY <1>4, <1>5

LEMMA AcceptedSteps ==
  ASSUME IInv, MutationUnwanted \/ Mutates
  PROVE  IInv' /\ Earned
<1> DEFINE q == Sought(rec)
           z == SawRequest(seen)
           c == MutationCommitted(q)
           y == [z EXCEPT !.streak = NoKey]
<1>1. /\ Locals /\ rec \in RecoveryState /\ q \in RecoveryState /\ z \in History
      /\ Good(q, z) /\ Calm(rec, q)
  BY RequestedMutation
<1>2. Good(c, y) /\ c \in RecoveryState /\ Calm(q, c)
  BY <1>1, CommitIsGood, CalmFacts DEF Good
<1>3. Calm(rec, c)
  BY <1>1, <1>2, CalmTransitive
<1>4. CASE MutationUnwanted
  <2>1. rec' = c /\ seen' = y /\ Returns("failed", rec.terminal)
    BY <1>4 DEF MutationUnwanted
  <2>2. rec.terminal \in Terminals /\ "failed" \in Statuses
    BY <1>1 DEF RecoveryState, Statuses
  <2>3. Locals' /\ UNCHANGED <<ctx, impact, offered>>
    BY <1>1, <2>1, <2>2, ReturnsLocals
  <2> QED
    BY <1>2, <1>3, <2>1, <2>3, CalmStep
<1>5. CASE Mutates
  <2>1. /\ rec' = Unambiguous(c) /\ seen' = [SawCall(z) EXCEPT !.streak = NoKey]
        /\ Passed /\ Continue /\ UNCHANGED <<failedEdits, stagnant>>
    BY <1>5 DEF Mutates
  <2>2. seen' = SawCall(y)
    BY <1>1, <2>1 DEF SawCall, History
  <2> HIDE DEF q, z, c, y
  <2>3. Good(rec', seen') /\ Calm(rec, rec')
    <3>1. Calm(c, rec')
      BY <1>2, <2>1, CalmFacts
    <3> QED
      BY <1>2, <1>3, <2>1, <2>2, <3>1, CallIsGood, CalmTransitive
  <2>4. Locals' /\ UNCHANGED <<ctx, impact, offered>>
    BY <1>1, <2>1 DEF Locals, Passed, Continue, gates
  <2> QED
    BY <2>3, <2>4, CalmStep
<1> QED
  BY <1>4, <1>5

LEMMA FailedMutationSteps ==
  ASSUME IInv, NEW t \in Targets, MutationRejected(t) \/ EditAmbiguous(t) \/ MutationUnavailable(t)
  PROVE  IInv' /\ Earned
<1> DEFINE q == Sought(rec)
           z == SawRequest(seen)
<1>1. /\ Locals /\ rec \in RecoveryState /\ q \in RecoveryState /\ z \in History
      /\ Good(rec, seen) /\ Good(q, z) /\ Calm(rec, q) /\ AmbiguityKept(rec, q)
      /\ z.edit = seen.edit /\ z.since = seen.since
  BY RequestedMutation, SoughtFacts
<1>2. CASE MutationRejected(t)
  <2>1. /\ rec' = Unambiguous(q) /\ seen' = SawCall(z)
        /\ (Failed /\ FailedEditCounts(t)) \/ GivesUp(t)
    BY <1>2 DEF MutationRejected
  <2> HIDE DEF q, z
  <2>2. Calm(q, rec')
    BY <1>1, <2>1, CalmFacts
  <2>3. Good(rec', seen') /\ Calm(rec, rec')
    BY <1>1, <2>1, <2>2, CallIsGood, CalmTransitive
  <2>4. Locals' /\ UNCHANGED <<ctx, impact, offered>>
    BY <1>1, <2>1, FailedEditLocals, GivesUpLocals DEF Failed
  <2> QED
    BY <2>3, <2>4, CalmStep
<1>3. CASE EditAmbiguous(t)
  <2>1. /\ rec' = Ambiguous(q, t) /\ seen' = [z EXCEPT !.edit = t, !.since = {}]
        /\ (FailedEditCounts(t) /\ acted' \in BOOLEAN /\ idle' \in BOOLEAN) \/ GivesUp(t)
    BY <1>3 DEF EditAmbiguous
  <2> HIDE DEF q, z
  <2>2. Good(rec', seen')
    BY <1>1, <2>1, AmbiguityIsGood
  <2>3. Locals' /\ UNCHANGED <<ctx, impact, offered>>
    BY <1>1, <2>1, FailedEditLocals, GivesUpLocals
  <2>4. /\ StrategyKept(q, rec') /\ PhaseKept(q, rec') /\ SearchKept(q, rec')
        /\ rec'.guided # q.guided => q.ambiguous = <<q.epoch, t>>
        /\ rec'.terminal \in {q.terminal, "GUIDANCE_SPENT"}
    BY <1>1, <2>1, AmbiguousFacts
  <2>5. StrategyKept(rec, rec')
    BY <1>1, <2>4 DEF Calm, StrategyKept
  <2>6. Strategy(rec') /\ Offer'
    BY <2>3, <2>5, StrategyStays DEF IInv
  <2>7. GuidanceIsEarned
    <3>1. SUFFICES ASSUME rec'.guided # rec.guided
                   PROVE  /\ seen.edit # None /\ seen'.edit = seen.edit
                          /\ seen.since \subseteq Uncounted
      BY DEF GuidanceIsEarned
    <3>2. q.ambiguous = <<q.epoch, t>>
      BY <1>1, <2>4, <3>1 DEF Calm
    <3>3. seen.edit = t /\ "call" \notin seen.since
      BY <1>1, <3>2, RecoveryAssumption DEF Good, Agree
    <3>a. seen.since \subseteq Uncounted
      BY <1>1, <3>3 DEF Good, History, Interludes
    <3>4. seen'.edit = t
      BY <1>1, <2>1 DEF History
    <3> QED
      BY <3>3, <3>a, <3>4, RecoveryAssumption
  <2>8. /\ rec'.epoch = rec.epoch /\ rec'.reoriented = rec.reoriented /\ rec'.repairs = rec.repairs
        /\ rec'.terminal # rec.terminal => rec'.terminal # "SEARCH_EXHAUSTED"
    BY <1>1, <2>4 DEF Calm, StrategyKept, SearchKept, PhaseKept
  <2>9. Earned
    BY <2>7, <2>8 DEF Earned, SwitchIsEarned, ReorientationIsEarned, RepairIsEarned
  <2> QED
    BY <2>2, <2>3, <2>6, <2>9 DEF IInv
<1>4. CASE MutationUnavailable(t)
  <2>1. /\ rec' = Unambiguous(rec) /\ seen' = SawCall(seen)
        /\ (Failed /\ FailedEditCounts(t)) \/ GivesUp(t)
    BY <1>4 DEF MutationUnavailable
  <2>2. Good(rec', seen') /\ Calm(rec, rec')
    BY <1>1, <2>1, CallIsGood, CalmFacts
  <2>3. Locals' /\ UNCHANGED <<ctx, impact, offered>>
    BY <1>1, <2>1, FailedEditLocals, GivesUpLocals DEF Failed
  <2> QED
    BY <2>2, <2>3, CalmStep
<1> QED
  BY <1>2, <1>3, <1>4

LEMMA SuppressedSteps ==
  ASSUME IInv, NEW t \in Targets, NEW m \in Mechanisms,
         Reanchored(t, m) \/ SuppressedRequest(t, m)
  PROVE  IInv' /\ Earned
<1> DEFINE q == Sought(rec)
           z == SawRequest(seen)
           u == Unambiguous(q)
<1>1. /\ Locals /\ rec \in RecoveryState /\ q \in RecoveryState /\ Good(q, z) /\ Calm(rec, q)
  BY RequestedMutation
<1>2. Good(u, SawCall(z)) /\ u \in RecoveryState /\ Calm(q, u)
  BY <1>1, CallIsGood, CalmFacts DEF Good
<1>3. rec' = Requested(u, t, m) /\ seen' = SawCall(z)
  BY DEF Reanchored, SuppressedRequest
<1>a. Reanchored(t, m) =>
        /\ offered' = Project(rec', ctx', impact') /\ acted' = TRUE /\ AsksModel /\ idle' = FALSE
        /\ UNCHANGED <<ctx, impact, failedEdits, stagnant>>
  BY DEF Reanchored, Restart, gates
<1>b. SuppressedRequest(t, m) =>
        (acted' \in BOOLEAN /\ idle' \in BOOLEAN /\ FailedEditCounts(t)) \/ GivesUp(t)
  BY DEF SuppressedRequest
<1> HIDE DEF q, z, u
<1>4. Good(rec', seen')
  BY <1>2, <1>3, SuppressedIsGood
<1>5. Calm(u, rec')
  <2>1. /\ StrategyKept(u, rec') /\ PhaseKept(u, rec') /\ SearchKept(u, rec')
        /\ rec'.guided = u.guided /\ rec'.terminal \in {u.terminal, "REANCHOR_SPENT"}
    BY <1>2, <1>3, RequestedFacts
  <2> QED
    BY <2>1 DEF Calm, PhaseKept, SearchKept
<1>6. Calm(rec, rec')
  BY <1>1, <1>2, <1>5, CalmTransitive
<1>7. CASE Reanchored(t, m)
  <2>1. Locals'
    BY <1>1, <1>7, <1>a, AskLocals DEF Locals
  <2> QED
    BY <1>4, <1>6, <1>7, <1>a, <2>1, CalmStep
<1>8. CASE SuppressedRequest(t, m)
  <2>1. Locals' /\ UNCHANGED <<ctx, impact, offered>>
    BY <1>1, <1>8, <1>b, FailedEditLocals, GivesUpLocals
  <2> QED
    BY <1>4, <1>6, <2>1, CalmStep
<1> QED
  BY <1>7, <1>8

\* A call that changes no source, whether it leads to the reorientation or not.
LEMMA SearchStep ==
  ASSUME IInv, rec' = Searched(rec)
  PROVE  StrategyKept(rec, rec') /\ Earned
<1>1. rec \in RecoveryState /\ seen \in History /\ rec.quiet <= seen.search /\ SearchLimit \in Nat
  BY RecoveryAssumption DEF IInv, Good, Agree
<1>2. /\ StrategyKept(rec, rec') /\ PhaseKept(rec, rec')
      /\ rec'.guided = rec.guided /\ rec'.terminal = rec.terminal
      /\ rec'.reoriented # rec.reoriented => rec.quiet + 1 >= SearchLimit
  BY <1>1, SearchedFacts
<1>3. ReorientationIsEarned
  <2>1. rec.quiet \in 0..SearchLimit /\ seen.search \in 0..SearchLimit
    BY <1>1, RangeFacts DEF History
  <2> QED
    BY <1>1, <1>2, <2>1 DEF ReorientationIsEarned
<1>4. rec'.epoch = rec.epoch /\ rec'.repairs = rec.repairs
  BY <1>2 DEF StrategyKept, PhaseKept
<1> QED
  BY <1>2, <1>3, <1>4 DEF Earned, SwitchIsEarned, GuidanceIsEarned, RepairIsEarned

LEMMA QuietSteps ==
  ASSUME IInv, QuietStep
  PROVE  IInv' /\ Earned
<1>0. /\ Locals /\ Good(rec, seen) /\ rec \in RecoveryState /\ seen \in History
      /\ None \in Terminals /\ "done" \in Statuses /\ "too_broad" \in Statuses
  BY DEF IInv, Good, Terminals, Statuses
<1>1. CASE Reoriented
  <2>1. /\ Reorients(rec) /\ rec' = Searched(rec)
        /\ seen' = Noted([seen EXCEPT !.search = 0], "reoriented")
        /\ acted' = TRUE /\ AsksModel /\ idle' = FALSE /\ ForgetsFailures
        /\ UNCHANGED <<ctx, impact, offered>>
    BY <1>1 DEF Reoriented, Restart, gates
  <2>2. Good(rec', seen')
    BY <1>0, <2>1, SearchIsGood, NoteIsGood DEF Uncounted
  <2>3. StrategyKept(rec, rec') /\ Earned
    BY <2>1, SearchStep
  <2>4. Strategy(rec') /\ Offer'
    BY <2>1, <2>3, StrategyStays DEF IInv
  <2>5. Locals'
    BY <1>0, <2>1, AskLocals, ForgetsLocals DEF Locals
  <2> QED
    BY <2>2, <2>3, <2>4, <2>5 DEF IInv
<1>2. CASE ContextChecked
  <2>1. /\ rec' = Searched(rec) /\ ctx' \in BOOLEAN
        /\ impact' \in IF ctx' THEN {impact, TRUE} ELSE {impact}
        /\ offered' = Project(rec', ctx', impact')
        /\ acted' = TRUE /\ AsksModel /\ idle' = FALSE /\ UNCHANGED <<failedEdits, stagnant>>
        /\ seen' = Noted(IF Reorients(rec) THEN [seen EXCEPT !.search = 0] ELSE SawQuiet(seen),
                         "context")
    BY <1>2 DEF ContextChecked, Restart
  <2>2. Good(rec', seen')
    BY <1>0, <2>1, SearchIsGood, NoteIsGood DEF Uncounted
  <2>3. StrategyKept(rec, rec') /\ Earned
    BY <2>1, SearchStep
  <2>4. Strategy(rec') /\ Offer'
    BY <2>1, <2>3, StrategyStays DEF IInv
  <2>5. impact' \in BOOLEAN
    BY <1>0, <2>1 DEF Locals
  <2>6. Locals'
    BY <1>0, <2>1, <2>5, AskLocals DEF Locals
  <2> QED
    BY <2>2, <2>3, <2>4, <2>6 DEF IInv
<1>3. ASSUME Quiet PROVE Good(rec', seen') /\ Calm(rec, rec')
  <2>1. /\ ~Reorients(rec) /\ rec' = Unambiguous(Searched(rec))
        /\ seen' = SawCall(SawQuiet(seen))
    BY <1>3 DEF Quiet
  <2>2. Good(Searched(rec), SawQuiet(seen)) /\ Calm(rec, Searched(rec))
    BY <1>0, <2>1, SearchIsGood, CalmFacts
  <2>3. Calm(Searched(rec), rec')
    BY <2>1, <2>2, CalmFacts DEF Good
  <2> QED
    BY <2>1, <2>2, <2>3, CallIsGood, CalmTransitive
<1>4. CASE Reads \/ VerificationPasses
  <2>1. /\ Quiet /\ acted' \in BOOLEAN /\ idle' \in BOOLEAN /\ Continue
        /\ UNCHANGED <<failedEdits, stagnant>>
    BY <1>4 DEF Reads, VerificationPasses, Failed
  <2>2. Locals' /\ UNCHANGED <<ctx, impact, offered>>
    BY <1>0, <2>1 DEF Locals, Continue, gates
  <2> QED
    BY <1>3, <2>1, <2>2, CalmStep
<1>5. CASE BrowserPasses
  <2>1. Quiet /\ Returns("done", None)
    BY <1>5 DEF BrowserPasses
  <2>2. Locals' /\ UNCHANGED <<ctx, impact, offered>>
    BY <1>0, <2>1, ReturnsLocals
  <2> QED
    BY <1>3, <2>1, <2>2, CalmStep
<1>6. CASE BrowserFails
  <2>1. Quiet
    BY <1>6 DEF BrowserFails
  <2>2. PICK n \in {0, 1, stagnant + 1} :
          IF n >= StagnationLimit THEN Returns("too_broad", None)
          ELSE stagnant' = n /\ Failed /\ Continue /\ UNCHANGED failedEdits
    BY <1>6 DEF BrowserFails
  <2>3. CASE n >= StagnationLimit
    <3>1. Locals' /\ UNCHANGED <<ctx, impact, offered>>
      BY <1>0, <2>2, <2>3, ReturnsLocals
    <3> QED
      BY <1>3, <2>1, <3>1, CalmStep
  <2>4. CASE ~(n >= StagnationLimit)
    <3>1. n \in 0..(StagnationLimit - 1)
      <4>1. StagnationLimit \in Nat \ {0} /\ stagnant \in 0..(StagnationLimit - 1)
        BY <1>0, RecoveryAssumption DEF Locals
      <4> QED
        BY <2>2, <2>4, <4>1
    <3>2. /\ stagnant' = n /\ acted' \in BOOLEAN /\ idle' \in BOOLEAN /\ Continue
          /\ failedEdits' = failedEdits
      BY <2>2, <2>4 DEF Failed
    <3>3. Locals' /\ UNCHANGED <<ctx, impact, offered>>
      BY <1>0, <3>1, <3>2 DEF Locals, Continue, gates
    <3> QED
      BY <1>3, <2>1, <3>3, CalmStep
  <2> QED
    BY <2>3, <2>4
<1>7. CASE UnknownTool
  <2>1. /\ rec' = Unambiguous(rec) /\ seen' = SawCall(seen) /\ Failed /\ Continue
        /\ UNCHANGED <<failedEdits, stagnant>>
    BY <1>7 DEF UnknownTool
  <2>2. Good(rec', seen') /\ Calm(rec, rec')
    BY <1>0, <2>1, CallIsGood, CalmFacts
  <2>3. Locals' /\ UNCHANGED <<ctx, impact, offered>>
    BY <1>0, <2>1 DEF Locals, Failed, Continue, gates
  <2> QED
    BY <2>2, <2>3, CalmStep
<1>8. CASE Malformed
  <2>1. /\ Passed /\ Continue /\ seen' = Noted(seen, "unnamed")
        /\ UNCHANGED <<rec, failedEdits, stagnant>>
    BY <1>8 DEF Malformed
  <2>3. Good(rec', seen') /\ Calm(rec, rec')
    BY <1>0, <2>1, NoteIsGood DEF Uncounted, Calm, StrategyKept
  <2>2. Locals' /\ UNCHANGED <<ctx, impact, offered>>
    BY <1>0, <2>1 DEF Locals, Passed, Continue, gates
  <2> QED
    BY <2>2, <2>3, CalmStep
<1> QED
  BY <1>1, <1>2, <1>4, <1>5, <1>6, <1>7, <1>8 DEF QuietStep

\* Every step of the Worker preserves the invariant, and adapts the Worker only
\* for a cause in its history.
LEMMA NextIsEarned ==
  ASSUME IInv, Next
  PROVE  IInv' /\ Earned
<1>1. CASE BudgetEnds \/ AnswerStep
  BY <1>1, AnswerSteps
<1>2. ASSUME NEW t \in Targets, MutationStep(t) PROVE IInv' /\ Earned
  <2>1. CASE MutationRejected(t) \/ EditAmbiguous(t) \/ MutationUnavailable(t)
    BY <2>1, FailedMutationSteps
  <2>2. ASSUME NEW m \in Mechanisms, SwitchesStrategy(t, m) PROVE IInv' /\ Earned
    BY <2>2, SwitchStep
  <2>3. ASSUME NEW m \in Mechanisms, SyntaxFailureEnds(t, m) \/ SyntaxInvalid(t, m)
        PROVE  IInv' /\ Earned
    BY <2>3, SyntaxSteps
  <2>4. ASSUME NEW m \in Mechanisms, Reanchored(t, m) \/ SuppressedRequest(t, m)
        PROVE  IInv' /\ Earned
    BY <2>4, SuppressedSteps
  <2> QED
    BY <1>2, <2>1, <2>2, <2>3, <2>4 DEF MutationStep
<1>3. CASE MutationUnwanted \/ Mutates
  BY <1>3, AcceptedSteps
<1>4. CASE QuietStep
  BY <1>4, QuietSteps
<1> QED
  BY <1>1, <1>2, <1>3, <1>4 DEF Next

LEMMA StepIsEarned ==
  ASSUME IInv, [Next]_vars
  PROVE  IInv' /\ [Earned]_vars
<1>1. CASE Next
  BY <1>1, NextIsEarned
<1>2. CASE UNCHANGED vars
  BY <1>2 DEF IInv, Good, Agree, Phase, Strategy, Offer, Project, Locals, vars, locals, gates
<1> QED
  BY <1>1, <1>2

LEMMA Invariance == Spec => []IInv
<1>1. IInv /\ [Next]_vars => IInv'
  BY StepIsEarned
<1> QED
  BY <1>1, InitEstablishesInv, PTL DEF Spec

\* The state of a Worker under a recovery strategy keeps the shape
\* execute_agent_task and the observers give it.
THEOREM TypeCorrect == Spec => []TypeOK
<1>1. IInv => TypeOK
  BY InvImplies
<1> QED
  BY <1>1, Invariance, PTL

\* The model is offered exactly the legal mechanisms its strategy does not
\* suppress, behind open gates at least one, behind a closed gate none.
THEOREM ToolsFollowStrategy == Spec => []OfferedFollowsStrategy
<1>1. IInv => OfferedFollowsStrategy
  BY InvImplies
<1> QED
  BY <1>1, Invariance, PTL

\* A switch, a guidance, a reorientation, a second repair and an exhausted
\* search each have their cause in what the Worker did before.
THEOREM AdaptationsHaveCauses == Spec => AdaptationsAreEarned
<1>1. IInv /\ [Next]_vars => [Earned]_vars
  BY StepIsEarned
<1>2. Spec => [][Earned]_vars
  BY <1>1, Invariance, PTL DEF Spec
<1> QED
  BY <1>2, PTL DEF AdaptationsAreEarned, Earned

=============================================================================
