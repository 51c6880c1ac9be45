------------------------ MODULE VerifiedStateProofs ------------------------
(***************************************************************************)
(* Theorems about VerifiedState, for every value of its constants.         *)
(*                                                                         *)
(* The argument for the evidence follows the bytes a check ran on, less    *)
(* those written before its receipt.  Until then they are on the disk, so  *)
(* the receipt of the child records them (ChecksStand).  The receipt of    *)
(* the parent may cite a child's check and still record other bytes: a     *)
(* write between the readiness gate and the receipt does that.  But a      *)
(* promotion asks that the receipts of the parent and of the children are  *)
(* all fresh, so for a task with a row in the table both agree             *)
(* (ReceiptsStand, RowsStand).  When a Task Brain is filled, a test is     *)
(* taken only while its receipt is fresh: its check ran on what is there.  *)
(***************************************************************************)
EXTENDS VerifiedState, TLAPS

\* The bytes a check ran on are among those recorded.
Agrees(tested, state) == \A p \in DOMAIN tested : p \in DOMAIN state /\ state[p] = tested[p]

\* The checks no receipt cites yet are good for the disk, those of children for their receipts.
ChecksStand ==
  /\ \A c \in Children :
       /\ children[c].status = "ran" =>
            Agrees(children[c].tested, disk) /\ DOMAIN children[c].tested \subseteq Dependencies(c)
       /\ Verified(c) => Agrees(children[c].tested, children[c].state)
       /\ children[c].proof = "pass" => Verified(c)
  /\ Agrees(check, disk) /\ DOMAIN check \subseteq ParentPaths
  /\ gate # "checked" => DOMAIN check = {}

\* A task has one receipt at most, made by its integration; it cites a check good for itself
\* or for the receipt of a child.
ReceiptsStand ==
  /\ \A t \in Tasks : /\ t > task \/ (t = task /\ gate # "integrated") => ~receipts[t].verified
                      /\ receipts[t].verified => DOMAIN receipts[t].state = ParentPaths
  /\ task \in Tasks /\ receipts[task].verified =>
       \/ Agrees(receipts[task].tested, receipts[task].state)
       \/ \E c \in Children : Verified(c) /\ Agrees(receipts[task].tested, children[c].state)

\* A test in the table was run on the bytes its receipt records.
RowsStand ==
  \A f \in Rows : /\ receipts[f.task].verified
                  /\ StateBound(f) => Agrees(receipts[f.task].tested, receipts[f.task].state)

EvidenceStands == ChecksStand /\ ReceiptsStand /\ RowsStand

-----------------------------------------------------------------------------
(* Types.                                                                  *)

LEMMA DependenciesArePaths ==
  /\ \A c \in Children : Dependencies(c) \subseteq Paths
  /\ ParentPaths \subseteq Paths
BY VerifiedStateAssumption DEF Dependencies, ParentPaths

LEMMA FactTypes ==
  ASSUME TypeOK
  PROVE  /\ Rows \subseteq Facts /\ Active \subseteq Rows /\ Active \subseteq Facts
         /\ task \in Tasks => CandidateFacts \subseteq Facts /\ NewFacts \subseteq Facts
<1>1. Rows \subseteq Facts /\ Active \subseteq Rows /\ Active \subseteq Facts
  BY DEF Rows, Active
<1>2. ASSUME task \in Tasks PROVE CandidateFacts \subseteq Facts
  <2>1. contract \subseteq [topic : Topics, claim : Claims]
    BY VerifiedStateAssumption DEF TypeOK
  <2> QED BY <1>2, <2>1 DEF CandidateFacts, Facts
<1> QED BY <1>1, <1>2 DEF NewFacts

ChildRecords == [status : {"pending", "ran", "verified", "unverified"},
                 proof : {"pass", "fail", "none"}, state : States, tested : States]

\* What ReturnChild makes of a child.
Returned(c, outcome) ==
  [status |-> outcome.status, proof |-> outcome.proof,
   state  |-> IF outcome.status = "verified" THEN Fingerprint(Dependencies(c)) ELSE <<>>,
   tested |-> IF outcome.proof = "pass" THEN children[c].tested ELSE <<>>]

LEMMA FunctionIsAState ==
  /\ \A ps \in SUBSET Paths : [ps -> Versions] \subseteq States
  /\ <<>> \in States
<1>1. <<>> \in [{} -> Versions] /\ {} \in SUBSET Paths
  OBVIOUS
<1> QED BY <1>1 DEF States

LEMMA WithoutIsAState == \A f \in States : \A p : Without(f, p) \in States
<1> SUFFICES ASSUME NEW ps \in SUBSET Paths, NEW f \in [ps -> Versions], NEW p
             PROVE  Without(f, p) \in States
  BY DEF States
<1>1. Without(f, p) \in [ps \ {p} -> Versions] /\ ps \ {p} \in SUBSET Paths
  BY DEF Without
<1> QED BY <1>1, FunctionIsAState

LEMMA InitTypeOK == Init => TypeOK
<1> SUFFICES ASSUME Init PROVE TypeOK
  OBVIOUS
<1>1. task \in 1 .. MaxTasks + 1
  BY VerifiedStateAssumption DEF Init
<1>2. <<>> \in States
  BY FunctionIsAState
<1> QED BY <1>1, <1>2 DEF Init, TypeOK, Statuses, NoFacts, NoReceipt, NotRun, Verified

LEMMA TypeStep == TypeOK /\ [Next]_vars => TypeOK'
<1> SUFFICES ASSUME TypeOK, [Next]_vars PROVE TypeOK'
  OBVIOUS
<1>1. ASSUME NEW p \in Paths, NEW v \in Versions, Edit(p, v) PROVE TypeOK'
  <2>1. \A f \in States : Without(f, p) \in States
    BY WithoutIsAState
  <2>2. \A c \in Children : children'[c] = children[c]
                           \/ children'[c] = [children[c] EXCEPT !.tested = Without(@, p)]
    BY <1>1 DEF Edit
  <2>3. \A c \in Children :
          /\ children'[c] \in ChildRecords /\ children'[c].status = children[c].status
          /\ children'[c].state = children[c].state
    <3>1. children \in [Children -> ChildRecords]
      BY DEF TypeOK, ChildRecords
    <3>2. \A child \in ChildRecords : child.tested \in States
      BY DEF ChildRecords
    <3>3. ASSUME NEW c \in Children
          PROVE  /\ children'[c] \in ChildRecords /\ children'[c].status = children[c].status
                 /\ children'[c].state = children[c].state
      <4>1. children[c] \in ChildRecords /\ Without(children[c].tested, p) \in States
        BY <2>1, <3>1, <3>2
      <4>2. CASE children'[c] = [children[c] EXCEPT !.tested = Without(children[c].tested, p)]
        BY <4>1, <4>2 DEF ChildRecords
      <4> QED BY <2>2, <4>1, <4>2
    <3> QED BY <3>3
  <2>4. children' \in [Children -> ChildRecords]
    BY <1>1, <2>3 DEF Edit
  <2>5. \A c \in Children : Verified(c)' => children'[c].state \in [Dependencies(c) -> Versions]
    BY <2>3 DEF TypeOK, Verified
  <2>6. disk' \in [Paths -> Versions] /\ check' \in States
    BY <1>1, <2>1 DEF Edit, TypeOK
  <2> QED BY <1>1, <2>4, <2>5, <2>6 DEF Edit, TypeOK, Brain, ChildRecords
<1>2. ASSUME NEW c \in Children, RunChild(c) PROVE TypeOK'
  <2> DEFINE tested == [p \in Dependencies(c) |-> disk'[p]]
             made == [NotRun EXCEPT !.status = "ran", !.tested = tested]
  <2>1. children' = [children EXCEPT ![c] = made]
    BY <1>2 DEF RunChild
  <2>2. disk' \in [Paths -> Versions]
    BY <1>2 DEF RunChild, TypeOK
  <2>3. tested \in States
    BY <2>2, DependenciesArePaths, FunctionIsAState
  <2>4. made \in ChildRecords /\ made.status = "ran"
    BY <2>3, FunctionIsAState DEF NotRun, ChildRecords
  <2>5. children' \in [Children -> ChildRecords]
    BY <2>1, <2>4 DEF TypeOK, ChildRecords
  <2>6. \A d \in Children : Verified(d)' => children'[d].state \in [Dependencies(d) -> Versions]
    BY <2>1, <2>4 DEF TypeOK, Verified
  <2> QED BY <1>2, <2>2, <2>5, <2>6 DEF RunChild, TypeOK, Brain, ChildRecords
<1>8. ASSUME NEW c \in Children, ReturnChild(c) PROVE TypeOK'
  <2>1. PICK outcome \in Outcomes : children' = [children EXCEPT ![c] = Returned(c, outcome)]
    BY <1>8 DEF ReturnChild, Returned
  <2>2. Fingerprint(Dependencies(c)) \in [Dependencies(c) -> Versions] /\ Fingerprint(Dependencies(c)) \in States
    BY DependenciesArePaths, FunctionIsAState DEF Fingerprint, TypeOK
  <2>3. /\ Returned(c, outcome) \in ChildRecords
        /\ Returned(c, outcome).status = "verified" =>
             Returned(c, outcome).state \in [Dependencies(c) -> Versions]
    BY <2>2, FunctionIsAState DEF Returned, Outcomes, ChildRecords, TypeOK
  <2>4. children' \in [Children -> ChildRecords]
    BY <2>1, <2>3 DEF TypeOK, ChildRecords
  <2>5. \A d \in Children : Verified(d)' => children'[d].state \in [Dependencies(d) -> Versions]
    BY <2>1, <2>3 DEF TypeOK, Verified
  <2> QED BY <1>8, <2>4, <2>5 DEF ReturnChild, TypeOK, Brain, ChildRecords
<1>9. CASE OpenGate
  BY <1>9 DEF OpenGate, TypeOK, Brain, Verified
<1>10. CASE CheckParent
  <2>1. check' \in States
    BY <1>10, DependenciesArePaths, FunctionIsAState DEF CheckParent, Fingerprint, TypeOK
  <2> QED BY <1>10, <2>1 DEF CheckParent, TypeOK, Brain, Verified
<1>3. CASE Integrate
  <2>1. ASSUME NEW tested \in Proofs PROVE ParentReceipt(tested) \in [verified : BOOLEAN, state : States, tested : States]
    <3>1. Fingerprint(ParentPaths) \in States
      BY DependenciesArePaths, FunctionIsAState DEF Fingerprint, TypeOK
    <3>2. tested \in States
      BY <2>1 DEF Proofs, TypeOK
    <3> QED BY <3>1, <3>2 DEF ParentReceipt
  <2>2. receipts' \in [Tasks -> [verified : BOOLEAN, state : States, tested : States]]
    <3>1. CASE receipts' = receipts
      BY <3>1 DEF TypeOK
    <3>2. CASE receipts' # receipts
      <4>1. PICK tested \in Proofs : receipts' = [receipts EXCEPT ![task] = ParentReceipt(tested)]
        BY <1>3, <3>2 DEF Integrate
      <4> QED BY <2>1, <4>1 DEF TypeOK
    <3> QED BY <3>1, <3>2
  <2>3. <<>> \in States
    BY FunctionIsAState
  <2>4. \A c \in Children : /\ children'[c] \in ChildRecords /\ children'[c].status = children[c].status
                            /\ children'[c].state = children[c].state
    <3>1. children \in [Children -> ChildRecords]
      BY DEF TypeOK, ChildRecords
    <3>2. \A c \in Children : children'[c] = [children[c] EXCEPT !.tested = <<>>]
      BY <1>3 DEF Integrate
    <3>3. ASSUME NEW c \in Children
          PROVE  /\ children'[c] \in ChildRecords /\ children'[c].status = children[c].status
                 /\ children'[c].state = children[c].state
      <4>1. children[c] \in ChildRecords
        BY <3>1
      <4>2. children'[c] = [children[c] EXCEPT !.tested = <<>>]
        BY <3>2
      <4> QED BY <2>3, <4>1, <4>2 DEF ChildRecords
    <3> QED BY <3>3
  <2>5. children' \in [Children -> ChildRecords]
    BY <1>3, <2>4 DEF Integrate
  <2>6. \A c \in Children : Verified(c)' => children'[c].state \in [Dependencies(c) -> Versions]
    BY <2>4 DEF TypeOK, Verified
  <2> QED BY <1>3, <2>2, <2>3, <2>5, <2>6 DEF Integrate, TypeOK, Brain, ChildRecords
<1>4. ASSUME NEW change \in Facts \cup {NoChange}, Promote(change) PROVE TypeOK'
  <2>1. task \in Tasks /\ NewFacts \subseteq Facts
    BY <1>4, FactTypes DEF Promote, Eligible
  <2>2. CASE AlreadyPromoted(change)
    <3>1. PICK p \in Promoted(change) : completions' = [completions EXCEPT ![task] = Rebuilt(p)]
      BY <2>2 DEF AlreadyPromoted
    <3>2. Rebuilt(p) \in [completed : BOOLEAN, records : SUBSET Facts]
      BY <3>1 DEF Promoted, Rebuilt, TypeOK
    <3>3. completions' \in [Tasks -> [completed : BOOLEAN, records : SUBSET Facts]]
      BY <2>1, <3>1, <3>2 DEF TypeOK
    <3> QED BY <1>4, <2>2, <3>3 DEF Promote, AlreadyPromoted, TypeOK, Verified
  <2>3. ASSUME NEW last \in LastActive, Commit(change, last) PROVE TypeOK'
    <3>1. status' \in [Facts -> Statuses]
      BY <2>3 DEF Commit, TypeOK, Statuses
    <3>2. \A f \in Facts : SupersededBy(f, last) \subseteq Facts
      BY <2>3 DEF SupersededBy, Active, LastActive
    <3>3. supersedes' \in [Facts -> SUBSET Facts]
      BY <2>3, <3>2 DEF Commit, TypeOK
    <3>4. promotions' \in SUBSET [task : Tasks, change : Facts \cup {NoChange}, records : SUBSET Facts]
      BY <2>1, <2>3 DEF Commit, TypeOK
    <3>5. [completed |-> TRUE, records |-> NewFacts] \in [completed : BOOLEAN, records : SUBSET Facts]
      BY <2>1
    <3>6. completions' \in [Tasks -> [completed : BOOLEAN, records : SUBSET Facts]]
      BY <2>1, <2>3, <3>5 DEF Commit, TypeOK
    <3> QED BY <1>4, <3>1, <3>3, <3>4, <3>6 DEF Promote, TypeOK, Verified
  <2> QED BY <1>4, <2>2, <2>3 DEF Promote
<1>5. ASSUME NEW ps \in SUBSET Paths, MarkStale(ps) PROVE TypeOK'
  <2>1. status' \in [Facts -> Statuses]
    BY <1>5 DEF MarkStale, TypeOK, Statuses
  <2> QED BY <1>5, <2>1 DEF MarkStale, TypeOK, Verified
<1>6. ASSUME NEW facts \in Contracts, Reenter(facts) PROVE TypeOK'
  <2>1. brain' \in SUBSET Facts
    BY <1>6, FactTypes DEF Reenter, Considered, Current
  <2>2. task' \in 1 .. MaxTasks + 1
    BY <1>6, VerifiedStateAssumption DEF Reenter, Tasks
  <2>3. NotRun \in ChildRecords /\ NotRun.status = "pending" /\ <<>> \in States
    BY FunctionIsAState DEF NotRun, ChildRecords
  <2>4. children' \in [Children -> ChildRecords] /\ \A c \in Children : ~Verified(c)'
    BY <1>6, <2>3 DEF Reenter, Verified
  <2> QED BY <1>6, <2>1, <2>2, <2>3, <2>4 DEF Reenter, TypeOK, Brain, ChildRecords
<1>7. CASE UNCHANGED vars
  BY <1>7 DEF vars, TypeOK, Verified
<1> QED BY <1>1, <1>2, <1>3, <1>4, <1>5, <1>6, <1>7, <1>8, <1>9, <1>10 DEF Next, Rows

\* Type correctness.
THEOREM TypeCorrect == Spec => []TypeOK
BY InitTypeOK, TypeStep, PTL DEF Spec

-----------------------------------------------------------------------------
(* The facts table, step by step.                                          *)

\* What a commit does to one row.
LEMMA CommitRows ==
  ASSUME TypeOK, task \in Tasks, NEW change, NEW last \in LastActive, Commit(change, last)
  PROVE  /\ Superseded(last) \subseteq Active
         /\ NewFacts \subseteq Facts /\ NewFacts \cap Active = {} /\ NewFacts \cap Rows = {}
         /\ \A f \in Facts : status'[f] = IF f \in Superseded(last) THEN "SUPERSEDED"
                                         ELSE IF f \in NewFacts THEN "ACTIVE" ELSE status[f]
         /\ \A f \in NewFacts : status'[f] = "ACTIVE"
<1>1. Superseded(last) \subseteq Active
  BY DEF Superseded, SupersededBy, LastActive
<1>2. NewFacts \subseteq Facts /\ NewFacts \cap Active = {} /\ NewFacts \cap Rows = {}
  BY FactTypes DEF NewFacts, Commit, Insertable, Rows
<1>3. \A f \in Facts : status'[f] = IF f \in Superseded(last) THEN "SUPERSEDED"
                                   ELSE IF f \in NewFacts THEN "ACTIVE" ELSE status[f]
  BY DEF Commit
<1> QED BY <1>1, <1>2, <1>3

\* A step that is no commit leaves the rows as they are, or marks tests stale.
OtherStep ==
  /\ \A f \in Facts : status'[f] = status[f] \/ (StateBound(f) /\ status[f] = "ACTIVE" /\ status'[f] = "STALE")
  /\ promotions' = promotions

LEMMA StepOfTable ==
  ASSUME TypeOK, [Next]_vars
  PROVE  \/ OtherStep
         \/ /\ task \in Tasks
            /\ \E change \in Facts \cup {NoChange} : \E last \in LastActive :
                 Commit(change, last) /\ Promoted(change) = {}
<1>1. ASSUME NEW ps \in SUBSET Paths, MarkStale(ps) PROVE OtherStep
  BY <1>1 DEF MarkStale, OtherStep, TypeOK
<1>2. ASSUME NEW change \in Facts \cup {NoChange}, Promote(change)
      PROVE  \/ OtherStep
             \/ task \in Tasks /\ \E last \in LastActive : Commit(change, last) /\ Promoted(change) = {}
  BY <1>2 DEF Promote, AlreadyPromoted, OtherStep, Eligible
<1>3. CASE UNCHANGED <<status, promotions>>
  BY <1>3 DEF OtherStep
<1> QED BY <1>1, <1>2, <1>3 DEF Next, vars, Edit, RunChild, ReturnChild, OpenGate, CheckParent,
       Integrate, Reenter, Brain, Rows

-----------------------------------------------------------------------------
(* Evidence.                                                               *)

LEMMA InitEvidence == Init => EvidenceStands
BY DEF Init, EvidenceStands, ChecksStand, ReceiptsStand, RowsStand, Agrees, NotRun, NoReceipt, Verified, Rows

\* A write leaves what is known of a check good for the disk.
LEMMA WriteAgrees ==
  ASSUME NEW p, NEW v, NEW tested, NEW f, Agrees(tested, f)
  PROVE  /\ Agrees(Without(tested, p), [f EXCEPT ![p] = v])
         /\ DOMAIN Without(tested, p) \subseteq DOMAIN tested
BY DEF Agrees, Without

LEMMA ChecksStep == TypeOK /\ ChecksStand /\ [Next]_vars => ChecksStand'
<1> SUFFICES ASSUME TypeOK, ChecksStand, [Next]_vars PROVE ChecksStand'
  OBVIOUS
<1>1. ASSUME NEW p \in Paths, NEW v \in Versions, Edit(p, v) PROVE ChecksStand'
  <2>1. disk' = [disk EXCEPT ![p] = v]
    BY <1>1 DEF Edit
  <2>2. /\ Agrees(check', disk') /\ DOMAIN check' \subseteq ParentPaths
        /\ gate' # "checked" => DOMAIN check' = {}
    <3>1. check' = Without(check, p)
      BY <1>1 DEF Edit
    <3>2. /\ Agrees(check, disk) /\ DOMAIN check \subseteq ParentPaths
          /\ gate' # "checked" => DOMAIN check = {}
      BY <1>1 DEF ChecksStand, Edit
    <3> QED BY <2>1, <3>1, <3>2, WriteAgrees
  <2>3. ASSUME NEW c \in Children, children[c].status = "ran"
        PROVE  /\ Agrees(children'[c].tested, disk') /\ DOMAIN children'[c].tested \subseteq Dependencies(c)
               /\ children'[c].status = "ran" /\ children'[c].proof = children[c].proof
    <3>1. children'[c] = [children[c] EXCEPT !.tested = Without(children[c].tested, p)]
      BY <1>1, <2>3 DEF Edit
    <3>2. /\ children'[c].tested = Without(children[c].tested, p)
          /\ children'[c].status = "ran" /\ children'[c].proof = children[c].proof
      BY <2>3, <3>1 DEF TypeOK
    <3>3. Agrees(children[c].tested, disk) /\ DOMAIN children[c].tested \subseteq Dependencies(c)
      BY <2>3 DEF ChecksStand
    <3>4. /\ Agrees(Without(children[c].tested, p), [disk EXCEPT ![p] = v])
          /\ DOMAIN Without(children[c].tested, p) \subseteq DOMAIN children[c].tested
      BY <3>3, WriteAgrees
    <3> QED BY <2>1, <3>2, <3>3, <3>4
  <2>4. \A c \in Children : children[c].status # "ran" => children'[c] = children[c]
    BY <1>1 DEF Edit
  <2> QED BY <2>2, <2>3, <2>4 DEF ChecksStand, Verified
<1>2. ASSUME NEW c \in Children, RunChild(c) PROVE ChecksStand'
  <2> DEFINE tested == [p \in Dependencies(c) |-> disk'[p]]
             made == [NotRun EXCEPT !.status = "ran", !.tested = tested]
  <2>1. children' = [children EXCEPT ![c] = made] /\ check' = check
    BY <1>2 DEF RunChild
  <2>2. disk' \in [Paths -> Versions] /\ gate = "closed" /\ \A d \in Children : children[d].status # "ran"
    BY <1>2 DEF RunChild, TypeOK
  <2>3. made.status = "ran" /\ made.tested = tested /\ made.proof = "none"
    BY DEF NotRun
  <2>4. Agrees(tested, disk') /\ DOMAIN tested = Dependencies(c)
    BY <2>2, DependenciesArePaths DEF Agrees
  <2>5. DOMAIN check = {} /\ gate' = "closed"
    BY <1>2, <2>2 DEF ChecksStand, RunChild
  <2>6. Agrees(check', disk') /\ DOMAIN check' \subseteq ParentPaths
    BY <2>1, <2>5 DEF Agrees
  <2>7. ASSUME NEW d \in Children, d # c
        PROVE  children'[d] = children[d] /\ children[d].status # "ran"
    BY <2>1, <2>2, <2>7 DEF TypeOK
  <2>8. children'[c] = made
    BY <2>1 DEF TypeOK
  <2> HIDE DEF made, tested
  <2> QED BY <2>3, <2>1, <2>4, <2>5, <2>6, <2>7, <2>8 DEF ChecksStand, Verified
<1>3. ASSUME NEW c \in Children, ReturnChild(c) PROVE ChecksStand'
  <2>1. PICK outcome \in Outcomes : children' = [children EXCEPT ![c] = Returned(c, outcome)]
    BY <1>3 DEF ReturnChild, Returned
  <2>2. UNCHANGED <<disk, check, gate>> /\ children[c].status = "ran"
    BY <1>3 DEF ReturnChild
  <2>3. children'[c] = Returned(c, outcome) /\ \A d \in Children : d # c => children'[d] = children[d]
    BY <2>1 DEF TypeOK
  <2>4. /\ Agrees(children[c].tested, disk) /\ DOMAIN children[c].tested \subseteq Dependencies(c)
        /\ Agrees(check, disk) /\ DOMAIN check \subseteq ParentPaths
    BY <2>2 DEF ChecksStand
  <2>5. Agrees(children[c].tested, Fingerprint(Dependencies(c))) /\ Agrees(<<>>, Fingerprint(Dependencies(c)))
    BY <2>4 DEF Agrees, Fingerprint
  <2>6. /\ Returned(c, outcome).status # "ran"
        /\ Returned(c, outcome).proof = "pass" => Returned(c, outcome).status = "verified"
        /\ Returned(c, outcome).status = "verified" =>
             Agrees(Returned(c, outcome).tested, Returned(c, outcome).state)
    BY <2>5 DEF Returned, Outcomes
  <2> QED BY <2>2, <2>3, <2>4, <2>6 DEF ChecksStand, Verified
<1>4. CASE CheckParent
  <2>1. check' = [p \in ParentPaths |-> disk[p]] /\ UNCHANGED <<disk, children>>
    BY <1>4 DEF CheckParent, Fingerprint
  <2>2. Agrees(check', disk') /\ DOMAIN check' = ParentPaths /\ gate' = "checked"
    BY <1>4, <2>1, DependenciesArePaths DEF Agrees, TypeOK, CheckParent
  <2> QED BY <2>1, <2>2 DEF ChecksStand, Verified
<1>5. CASE Integrate
  <2>1. Agrees(check', disk') /\ DOMAIN check' \subseteq ParentPaths /\ DOMAIN check' = {}
    BY <1>5 DEF Integrate, Agrees
  <2>2. ASSUME NEW c \in Children
        PROVE  /\ children'[c].tested = <<>> /\ children'[c].status = children[c].status
               /\ children'[c].proof = children[c].proof
    BY <1>5 DEF Integrate, TypeOK
  <2>3. \A state : Agrees(<<>>, state)
    BY DEF Agrees
  <2> QED BY <2>1, <2>2, <2>3 DEF ChecksStand, Verified
<1>6. ASSUME NEW facts \in Contracts, Reenter(facts) PROVE ChecksStand'
  <2>1. Agrees(check', disk') /\ DOMAIN check' \subseteq ParentPaths /\ DOMAIN check' = {}
    BY <1>6 DEF Reenter, Agrees
  <2>2. \A c \in Children : children'[c].status = "pending" /\ children'[c].proof = "none"
    BY <1>6 DEF Reenter, NotRun
  <2> QED BY <2>1, <2>2 DEF ChecksStand, Verified
<1>7. CASE UNCHANGED <<disk, children, check>> /\ (UNCHANGED gate \/ OpenGate)
  BY <1>7 DEF ChecksStand, Verified, OpenGate
<1> QED BY <1>1, <1>2, <1>3, <1>4, <1>5, <1>6, <1>7 DEF Next, vars, OpenGate, Promote, MarkStale

LEMMA ReceiptsStep ==
  TypeOK /\ ChecksStand /\ ReceiptsStand /\ [Next]_vars => ReceiptsStand'
<1> SUFFICES ASSUME TypeOK, ChecksStand, ReceiptsStand, [Next]_vars PROVE ReceiptsStand'
  OBVIOUS
<1>1. CASE Integrate
  <2>1. task \in Tasks /\ task' = task /\ gate # "integrated" /\ gate' = "integrated"
    BY <1>1 DEF Integrate
  <2>2. ~receipts[task].verified
    BY <2>1 DEF ReceiptsStand
  <2>3. \A c \in Children : (Verified(c) => Verified(c)') /\ children'[c].state = children[c].state
    BY <1>1 DEF Integrate, Verified, TypeOK
  <2>4. ASSUME receipts' # receipts PROVE ReceiptsStand'
    <3>1. PICK tested \in Proofs : receipts' = [receipts EXCEPT ![task] = ParentReceipt(tested)]
      BY <1>1, <2>4 DEF Integrate
    <3>2. /\ receipts'[task] = ParentReceipt(tested)
          /\ \A t \in Tasks : t # task => receipts'[t] = receipts[t]
      BY <2>1, <3>1 DEF TypeOK
    <3>3. /\ ParentReceipt(tested).tested = tested
          /\ ParentReceipt(tested).state = [p \in ParentPaths |-> disk[p]]
      BY DEF ParentReceipt, Fingerprint
    <3>4. \/ Agrees(tested, ParentReceipt(tested).state)
          \/ \E c \in Children : Verified(c) /\ Agrees(tested, children[c].state)
      <4>1. CASE gate = "checked"
        <5>1. tested = check
          BY <3>1, <4>1 DEF Proofs
        <5> QED BY <3>3, <5>1 DEF ChecksStand, Agrees
      <4>2. CASE gate # "checked"
        <5>1. PICK c \in Children : children[c].proof = "pass" /\ tested = children[c].tested
          BY <3>1, <4>2 DEF Proofs
        <5> QED BY <5>1 DEF ChecksStand
      <4> QED BY <4>1, <4>2
    <3>5. \/ Agrees(receipts'[task].tested, receipts'[task].state)
          \/ \E c \in Children : Verified(c)' /\ Agrees(receipts'[task].tested, children'[c].state)
      BY <2>3, <3>2, <3>3, <3>4
    <3>6. \A t \in Tasks : /\ t > task => ~receipts'[t].verified
                           /\ receipts'[t].verified => DOMAIN receipts'[t].state = ParentPaths
      <4>1. DOMAIN receipts'[task].state = ParentPaths
        BY <3>2, <3>3
      <4>2. ~(task > task)
        BY DEF TypeOK
      <4> QED BY <3>2, <4>1, <4>2 DEF ReceiptsStand
    <3> QED BY <2>1, <3>5, <3>6 DEF ReceiptsStand
  <2>5. ASSUME receipts' = receipts PROVE ReceiptsStand'
    BY <2>1, <2>2, <2>5 DEF ReceiptsStand
  <2> QED BY <2>4, <2>5
<1>2. ASSUME NEW facts \in Contracts, Reenter(facts) PROVE ReceiptsStand'
  <2>1. task \in Nat /\ task' = task + 1 /\ receipts' = receipts
    BY <1>2 DEF Reenter, TypeOK
  <2>2. \A t \in Tasks : t > task => ~receipts[t].verified
    BY DEF ReceiptsStand
  <2>3. \A t \in Tasks : t > task' \/ t = task' => ~receipts'[t].verified
    BY <2>1, <2>2 DEF Tasks
  <2>4. \A t \in Tasks : receipts'[t].verified => DOMAIN receipts'[t].state = ParentPaths
    BY <2>1 DEF ReceiptsStand
  <2> QED BY <2>3, <2>4 DEF ReceiptsStand
<1>3. ASSUME UNCHANGED <<task, receipts>>, gate = "integrated" => gate' = "integrated",
             \A c \in Children : Verified(c) => Verified(c)' /\ children'[c].state = children[c].state
      PROVE  ReceiptsStand'
  <2>1. task' \in Tasks /\ receipts'[task'].verified =>
           \/ Agrees(receipts'[task'].tested, receipts'[task'].state)
           \/ \E c \in Children : Verified(c)' /\ Agrees(receipts'[task'].tested, children'[c].state)
    BY <1>3 DEF ReceiptsStand
  <2> QED BY <1>3, <2>1 DEF ReceiptsStand
<1>4. ASSUME NEW p \in Paths, NEW v \in Versions, Edit(p, v)
      PROVE  \A c \in Children : Verified(c) => Verified(c)' /\ children'[c].state = children[c].state
  BY <1>4 DEF Edit, Verified
<1>5. ASSUME NEW d \in Children, RunChild(d) \/ ReturnChild(d)
      PROVE  \A c \in Children : Verified(c) => Verified(c)' /\ children'[c].state = children[c].state
  <2>1. ~Verified(d)
    BY <1>5 DEF RunChild, ReturnChild, Verified
  <2>2. \A c \in Children : c # d => children'[c] = children[c]
    BY <1>5 DEF RunChild, ReturnChild, TypeOK
  <2> QED BY <2>1, <2>2 DEF Verified
<1>6. ASSUME UNCHANGED children
      PROVE  \A c \in Children : Verified(c) => Verified(c)' /\ children'[c].state = children[c].state
  BY <1>6 DEF Verified
<1>7. ASSUME NEW p \in Paths, NEW v \in Versions, Edit(p, v) PROVE ReceiptsStand'
  BY <1>3, <1>4, <1>7 DEF Edit
<1>8. ASSUME NEW d \in Children, RunChild(d) \/ ReturnChild(d) PROVE ReceiptsStand'
  BY <1>3, <1>5, <1>8 DEF RunChild, ReturnChild
<1>9. CASE UNCHANGED <<task, receipts, children>> /\ (UNCHANGED gate \/ OpenGate \/ CheckParent)
  BY <1>3, <1>6, <1>9 DEF OpenGate, CheckParent
<1> QED BY <1>1, <1>2, <1>7, <1>8, <1>9 DEF Next, vars, OpenGate, CheckParent, Promote, MarkStale

\* What may be promoted was checked on the bytes its receipt records.
LEMMA EligibleAgrees ==
  ASSUME TypeOK, ReceiptsStand, Eligible
  PROVE  Agrees(receipts[task].tested, receipts[task].state)
<1>1. /\ task \in Tasks /\ receipts[task].verified /\ Fresh(receipts[task].state)
      /\ DOMAIN receipts[task].state = ParentPaths
  BY DEF Eligible, ReceiptsStand
<1>2. ASSUME NEW c \in Children, Verified(c), Agrees(receipts[task].tested, children[c].state)
      PROVE  Agrees(receipts[task].tested, receipts[task].state)
  <2>1. Fresh(children[c].state) /\ DOMAIN children[c].state = Dependencies(c)
    BY <1>2 DEF Eligible, TypeOK
  <2> QED BY <1>1, <1>2, <2>1 DEF Agrees, Fresh, ParentPaths
<1> QED BY <1>1, <1>2 DEF ReceiptsStand

LEMMA RowsStep ==
  TypeOK /\ ReceiptsStand /\ RowsStand /\ [Next]_vars => RowsStand'
<1> SUFFICES ASSUME TypeOK, ReceiptsStand, RowsStand, [Next]_vars, NEW f \in Rows'
             PROVE  /\ receipts'[f.task].verified
                    /\ StateBound(f) => Agrees(receipts'[f.task].tested, receipts'[f.task].state)
  BY DEF RowsStand, StateBound
<1>1. ASSUME f \in Rows, receipts'[f.task] = receipts[f.task]
      PROVE  /\ receipts'[f.task].verified
             /\ StateBound(f) => Agrees(receipts'[f.task].tested, receipts'[f.task].state)
  BY <1>1 DEF RowsStand
<1>2. CASE Integrate
  <2>1. f \in Rows /\ f.task \in Tasks
    BY <1>2 DEF Integrate, Brain, Rows, Facts
  <2>2. f.task # task
    BY <1>2, <2>1 DEF Integrate, ReceiptsStand, RowsStand
  <2>3. receipts'[f.task] = receipts[f.task]
    BY <1>2, <2>1, <2>2 DEF Integrate, TypeOK
  <2> QED BY <1>1, <2>1, <2>3
<1>3. ASSUME NEW change \in Facts \cup {NoChange}, Promote(change), NEW last \in LastActive,
             Commit(change, last), f \notin Rows
      PROVE  /\ receipts'[f.task].verified
             /\ StateBound(f) => Agrees(receipts'[f.task].tested, receipts'[f.task].state)
  <2>1. Eligible /\ receipts' = receipts /\ task \in Tasks
    BY <1>3 DEF Promote, Eligible
  <2>2. f \in Facts /\ status[f] = "absent" /\ status'[f] # "absent"
    BY <1>3 DEF Rows
  <2>3. f \in NewFacts
    BY <1>3, <2>1, <2>2, CommitRows DEF Active
  <2>4. f.task = task
    BY <2>3 DEF NewFacts, CandidateFacts
  <2> QED BY <2>1, <2>4, EligibleAgrees DEF Eligible
<1>4. CASE OtherStep /\ UNCHANGED receipts
  <2>1. f \in Rows
    BY <1>4 DEF OtherStep, Rows
  <2> QED BY <1>1, <1>4, <2>1
<1>5. ASSUME NEW change \in Facts \cup {NoChange}, Promote(change)
      PROVE  \/ OtherStep /\ UNCHANGED receipts
             \/ \E last \in LastActive : Commit(change, last)
  BY <1>5 DEF Promote, AlreadyPromoted, OtherStep
<1>6. ASSUME NEW ps \in SUBSET Paths, MarkStale(ps) PROVE OtherStep /\ UNCHANGED receipts
  BY <1>6 DEF MarkStale, OtherStep, TypeOK
<1>7. CASE UNCHANGED <<status, promotions, receipts>>
  BY <1>4, <1>7 DEF OtherStep
<1>8. ASSUME NEW change \in Facts \cup {NoChange}, Promote(change)
      PROVE  /\ receipts'[f.task].verified
             /\ StateBound(f) => Agrees(receipts'[f.task].tested, receipts'[f.task].state)
  <2>1. receipts' = receipts
    BY <1>8 DEF Promote
  <2> QED BY <1>1, <1>3, <1>4, <1>5, <1>8, <2>1
<1>9. \A change \in {g \in Rows : ~StateBound(g)} \cup {NoChange} : change \in Facts \cup {NoChange}
  BY DEF Rows
<1> QED BY <1>2, <1>4, <1>6, <1>7, <1>8, <1>9 DEF Next, vars, Edit, RunChild, ReturnChild, OpenGate,
       CheckParent, Reenter, Brain

LEMMA EvidenceStandsStep == TypeOK /\ EvidenceStands /\ [Next]_vars => EvidenceStands'
BY ChecksStep, ReceiptsStep, RowsStep DEF EvidenceStands

\* The action of EvidenceStandsOnCurrentBytes.
EvidenceStep ==
  task' # task =>
    \A f \in brain' : StateBound(f) =>
      \A p \in DOMAIN receipts[f.task].tested : disk[p] = receipts[f.task].tested[p]

LEMMA EvidenceHolds == TypeOK /\ EvidenceStands /\ [Next]_vars => EvidenceStep
<1> SUFFICES ASSUME TypeOK, RowsStand, NEW facts \in Contracts, Reenter(facts),
                    NEW f \in brain', StateBound(f),
                    NEW p \in DOMAIN receipts[f.task].tested
             PROVE  disk[p] = receipts[f.task].tested[p]
  BY DEF EvidenceStands, EvidenceStep, Next, vars, Edit, RunChild, ReturnChild, OpenGate, CheckParent,
         Integrate, Promote, MarkStale
<1>1. f \in Rows /\ Fresh(receipts[f.task].state)
  BY DEF Reenter, Considered, Current
<1>2. Agrees(receipts[f.task].tested, receipts[f.task].state)
  BY <1>1 DEF RowsStand
<1> QED BY <1>1, <1>2 DEF Agrees, Fresh

\* A test a new task takes as passed was run on the files on the disk, but for those written
\* before its receipt.
THEOREM EvidenceIsCurrent == Spec => EvidenceStandsOnCurrentBytes
<1>1. TypeOK /\ EvidenceStands /\ [Next]_vars => [EvidenceStep]_vars
  BY EvidenceHolds
<1>2. Init /\ [][Next]_vars => [][EvidenceStep]_vars
  BY <1>1, InitTypeOK, TypeStep, InitEvidence, EvidenceStandsStep, PTL
<1> QED BY <1>2 DEF Spec, EvidenceStandsOnCurrentBytes, EvidenceStep

-----------------------------------------------------------------------------
(* The facts table.                                                        *)

LEMMA OneActiveStep == TypeOK /\ OneActivePerSemantic /\ [Next]_vars => OneActivePerSemantic'
<1> SUFFICES ASSUME TypeOK, OneActivePerSemantic, [Next]_vars,
                    NEW f \in Facts, NEW g \in Facts,
                    status'[f] = "ACTIVE", status'[g] = "ACTIVE", SameSemantic(f, g)
             PROVE  f = g
  BY DEF OneActivePerSemantic, Active, SameSemantic
<1>1. CASE OtherStep
  BY <1>1 DEF OtherStep, OneActivePerSemantic, Active
<1>2. ASSUME task \in Tasks, NEW change, NEW last \in LastActive, Commit(change, last) PROVE f = g
  <2>1. \A x, y \in CandidateFacts : SameSemantic(x, y) => x = y
    BY DEF CandidateFacts, SameSemantic
  <2>2. ASSUME NEW x \in NewFacts, NEW y \in Active, SameSemantic(x, y) PROVE y \in Superseded(last)
    <3>1. y \in SupersededBy(x, last)
      BY <2>2 DEF SupersededBy
    <3>2. y \notin CandidateFacts
      BY <1>2, <2>1, <2>2, CommitRows DEF NewFacts
    <3> QED BY <3>1, <3>2 DEF Superseded
  <2>3. \A x \in Facts : status'[x] = "ACTIVE" => x \in NewFacts \/ (x \in Active /\ x \notin Superseded(last))
    BY <1>2, CommitRows DEF Active
  <2>4. SameSemantic(g, f)
    BY DEF SameSemantic
  <2>5. CASE f \in NewFacts /\ g \in NewFacts
    BY <2>1, <2>5 DEF NewFacts
  <2> QED BY <2>2, <2>3, <2>4, <2>5 DEF OneActivePerSemantic
<1> QED BY <1>1, <1>2, StepOfTable

\* However often a task is promoted, a fact is ACTIVE once.
THEOREM OneActive == Spec => []OneActivePerSemantic
<1>1. Init => OneActivePerSemantic
  BY DEF Init, OneActivePerSemantic, Active
<1> QED BY <1>1, InitTypeOK, TypeStep, OneActiveStep, PTL DEF Spec

HistoryStep == \A f \in Rows : status[f] # "ACTIVE" => status'[f] = status[f]

LEMMA HistoryHolds == TypeOK /\ [Next]_vars => HistoryStep
<1> SUFFICES ASSUME TypeOK, [Next]_vars, NEW f \in Rows, status[f] # "ACTIVE"
             PROVE  status'[f] = status[f]
  BY DEF HistoryStep
<1>1. f \in Facts
  BY DEF Rows
<1>2. CASE OtherStep
  BY <1>1, <1>2 DEF OtherStep
<1>3. ASSUME task \in Tasks, NEW change, NEW last \in LastActive, Commit(change, last)
      PROVE  status'[f] = status[f]
  BY <1>1, <1>3, CommitRows DEF Active
<1> QED BY <1>2, <1>3, StepOfTable

\* A row that is history is never ACTIVE again.
THEOREM HistoryStays == Spec => HistoryIsFinal
<1>1. TypeOK /\ [Next]_vars => [HistoryStep]_vars
  BY HistoryHolds
<1>2. Init /\ [][Next]_vars => [][HistoryStep]_vars
  BY <1>1, InitTypeOK, TypeStep, PTL
<1> QED BY <1>2 DEF Spec, HistoryIsFinal, HistoryStep

AuthorityStep ==
  \A f \in Active :
    ~StateBound(f) /\ status'[f] # "ACTIVE" =>
      \/ \E g \in Facts : SameSemantic(f, g) /\ g # f /\ status'[g] = "ACTIVE"
      \/ \E p \in promotions' \ promotions : p.change = f

LEMMA AuthorityHolds == TypeOK /\ [Next]_vars => AuthorityStep
<1> SUFFICES ASSUME TypeOK, [Next]_vars, NEW f \in Active, ~StateBound(f), status'[f] # "ACTIVE"
             PROVE  \/ \E g \in Facts : SameSemantic(f, g) /\ g # f /\ status'[g] = "ACTIVE"
                    \/ \E p \in promotions' \ promotions : p.change = f
  BY DEF AuthorityStep
<1>1. f \in Facts /\ status[f] = "ACTIVE"
  BY DEF Active
<1>2. ~OtherStep
  BY <1>1 DEF OtherStep
<1>3. PICK change \in Facts \cup {NoChange}, last \in LastActive :
        task \in Tasks /\ Commit(change, last) /\ Promoted(change) = {}
  BY <1>2, StepOfTable
<1>4. f \in Superseded(last)
  BY <1>1, <1>3, CommitRows
<1>5. PICK n \in NewFacts : f \in SupersededBy(n, last)
  BY <1>4 DEF Superseded
<1>6. n \in Facts /\ status'[n] = "ACTIVE" /\ n # f
  BY <1>3, <1>5, CommitRows
<1>7. CASE SameSemantic(n, f)
  BY <1>6, <1>7 DEF SameSemantic
<1>8. CASE ~SameSemantic(n, f)
  <2>1. Contradicts(n, f) /\ \E k \in DOMAIN last : f = last[k]
    BY <1>5, <1>8 DEF SupersededBy
  <2>2. n.topic \in DOMAIN last /\ last[n.topic] = f
    BY <2>1 DEF LastActive, Contradicts
  <2>3. f = change
    BY <1>3, <2>1, <2>2 DEF Commit, Conflicts
  <2>4. [task |-> task, change |-> change, records |-> NewFacts] \in promotions' \ promotions
    BY <1>3 DEF Commit, Promoted
  <2> QED BY <2>3, <2>4
<1> QED BY <1>7, <1>8

\* A requirement gives way to the same requirement or to an approved change.
THEOREM AuthorityStands == Spec => AuthorityChangesOnlyByApproval
<1>1. TypeOK /\ [Next]_vars => [AuthorityStep]_vars
  BY AuthorityHolds
<1>2. Init /\ [][Next]_vars => [][AuthorityStep]_vars
  BY <1>1, InitTypeOK, TypeStep, PTL
<1> QED BY <1>2 DEF Spec, AuthorityChangesOnlyByApproval, AuthorityStep

LEMMA NeverContradictoryStep == TypeOK /\ NeverContradictory /\ [Next]_vars => NeverContradictory'
<1> SUFFICES ASSUME TypeOK, NeverContradictory, [Next]_vars PROVE NeverContradictory'
  OBVIOUS
<1>1. ASSUME NEW facts \in Contracts, Reenter(facts), NEW f \in brain', NEW g \in brain', Contradicts(f, g)
      PROVE  FALSE
  <2>1. PICK considered \in Considered : f \in Current(considered) /\ g \in Current(considered)
    BY <1>1 DEF Reenter
  <2>2. f \in Facts /\ g \in Facts /\ g \in considered /\ status[g] = "ACTIVE"
    BY <2>1, FactTypes DEF Current, Considered
  <2>3. ~StateBound(f)
    BY <1>1, <2>2, VerifiedStateAssumption DEF StateBound, Contradicts, Facts
  <2> QED BY <1>1, <2>1, <2>2, <2>3 DEF Current, Contradicted
<1>2. CASE UNCHANGED brain
  BY <1>2 DEF NeverContradictory, Contradicts
<1> QED BY <1>1, <1>2 DEF NeverContradictory, Contradicts, Next, vars, Edit, RunChild, ReturnChild,
       OpenGate, CheckParent, Integrate, Promote, MarkStale

\* What a new task starts from never contradicts itself.
THEOREM StartsConsistent == Spec => []NeverContradictory
<1>1. Init => NeverContradictory
  BY DEF Init, NeverContradictory
<1> QED BY <1>1, InitTypeOK, TypeStep, NeverContradictoryStep, PTL DEF Spec

\* What a promotion inserted stays in the table.
PromotionsBacked == \A p \in promotions : p.records \subseteq Rows

LEMMA RowsStay == TypeOK /\ [Next]_vars => Rows \subseteq Rows'
<1> SUFFICES ASSUME TypeOK, [Next]_vars, NEW f \in Rows PROVE status'[f] # "absent"
  BY DEF Rows
<1>1. f \in Facts /\ status[f] # "absent"
  BY DEF Rows
<1>2. ASSUME task \in Tasks, NEW change, NEW last \in LastActive, Commit(change, last)
      PROVE  status'[f] # "absent"
  BY <1>1, <1>2, CommitRows
<1> QED BY <1>1, <1>2, StepOfTable DEF OtherStep

LEMMA BackedStep ==
  TypeOK /\ PromotionsBacked /\ CompletionBacked /\ [Next]_vars => (PromotionsBacked /\ CompletionBacked)'
<1> SUFFICES ASSUME TypeOK, PromotionsBacked, CompletionBacked, [Next]_vars
             PROVE  PromotionsBacked' /\ CompletionBacked'
  OBVIOUS
<1>1. Rows \subseteq Rows'
  BY RowsStay
<1>2. CASE UNCHANGED <<promotions, completions>>
  BY <1>1, <1>2 DEF PromotionsBacked, CompletionBacked
<1>3. ASSUME NEW change \in Facts \cup {NoChange}, Promote(change), AlreadyPromoted(change)
      PROVE  PromotionsBacked' /\ CompletionBacked'
  <2>1. PICK p \in Promoted(change) : completions' = [completions EXCEPT ![task] = Rebuilt(p)]
    BY <1>3 DEF AlreadyPromoted
  <2>2. p \in promotions /\ p.task = task /\ promotions' = promotions
    BY <1>3 DEF AlreadyPromoted, Promoted
  <2>3. PromotionsBacked'
    BY <1>1, <2>2 DEF PromotionsBacked
  <2>4. ASSUME NEW t \in Tasks, completions'[t].completed
        PROVE  \E q \in promotions' : /\ q.task = t /\ q.records = completions'[t].records
                                      /\ q.records \subseteq Rows'
    <3>1. CASE t = task
      BY <1>1, <2>1, <2>2, <3>1 DEF PromotionsBacked, Rebuilt, TypeOK
    <3>2. CASE t # task
      BY <1>1, <2>1, <2>2, <2>4, <3>2 DEF CompletionBacked, TypeOK
    <3> QED BY <3>1, <3>2
  <2> QED BY <2>3, <2>4 DEF CompletionBacked
<1>4. ASSUME NEW change \in Facts \cup {NoChange}, NEW last \in LastActive, task \in Tasks, Commit(change, last)
      PROVE  PromotionsBacked' /\ CompletionBacked'
  <2> DEFINE made == [task |-> task, change |-> change, records |-> NewFacts]
  <2>1. promotions' = promotions \cup {made} /\ NewFacts \subseteq Rows'
    BY <1>4, CommitRows DEF Commit, Rows
  <2>4. made.task = task /\ made.records = NewFacts
    OBVIOUS
  <2>2. PromotionsBacked'
    BY <1>1, <2>1 DEF PromotionsBacked
  <2>3. ASSUME NEW t \in Tasks, completions'[t].completed
        PROVE  \E q \in promotions' : /\ q.task = t /\ q.records = completions'[t].records
                                      /\ q.records \subseteq Rows'
    <3>1. CASE completions'[t] = completions[t]
      BY <1>1, <2>1, <2>3, <3>1 DEF CompletionBacked
    <3>2. CASE completions'[t] # completions[t]
      <4>1. t = task /\ completions'[t].records = NewFacts
        BY <1>4, <3>2 DEF Commit, TypeOK
      <4> QED BY <2>1, <2>4, <4>1
    <3> QED BY <3>1, <3>2
  <2> QED BY <2>2, <2>3 DEF CompletionBacked
<1> QED BY <1>2, <1>3, <1>4 DEF Next, vars, Edit, RunChild, ReturnChild, OpenGate, CheckParent,
       Integrate, MarkStale, Reenter, Brain, Rows, Promote, Eligible

\* A completed task points to rows one promotion of it inserted.
THEOREM CompletionsBacked == Spec => []CompletionBacked
<1>1. Init => PromotionsBacked /\ CompletionBacked
  BY DEF Init, PromotionsBacked, CompletionBacked, NoFacts
<1> QED BY <1>1, InitTypeOK, TypeStep, BackedStep, PTL DEF Spec

=============================================================================
