--------------------- MODULE WorkspaceTransactionProofs ---------------------
(***************************************************************************)
(* Proofs about WorkspaceTransaction, for every set of files and texts.    *)
(***************************************************************************)
EXTENDS WorkspaceTransaction, TLAPS

\* The tool call that waits for update_memory is a call of the leaf under way.
PendingInLeaf == pending # None => txn = "active"

\* A leaf runs inside a run.
LeafInRun == txn # "none" => proc = "run"

\* A captured file can be restored from its snapshot; any other file has the
\* bytes it had when the leaf began, or its failed restore is on record.
SnapshotsAreBase ==
  /\ InLeaf => \A f \in Files :
       IF f \in Captured THEN snap[f] = base[f]
                         ELSE disk[f] = base[f] \/ f \in lost
  /\ txn = "none" => Captured = {}

\* Restores fail during a rollback only.
NothingLostYet == txn = "active" => lost = {}

\* A commit is the only way into the epilogue of a commit.
CommittedIsDone == txn = "committed" => outcome = "done"

\* With TypeOK, the inductive invariant of the transaction.
TxnPart == PendingInLeaf /\ LeafInRun /\ SnapshotsAreBase /\ NothingLostYet
           /\ CommittedIsDone /\ RollbackRestores

\* The user's texts are texts.
LEMMA UserStoredType == UserStored \subseteq Stored
  BY DEF UserStored, Stored, Content

\* The initial states satisfy the type invariant.
LEMMA InitTypeOK == Init => TypeOK
  BY UserStoredType DEF Init, TypeOK

\* A row that update_memory writes is a row, whatever tool and role called.
LEMMA MarkOwnershipType ==
  ASSUME TypeOK, pending \in Call
  PROVE  MarkOwnership(pending) \in [Files -> Row \cup {None}]
<1> DEFINE f == pending.file
<1>1. f \in Files
  BY DEF Call
<1>2. ASSUME Exists(f) PROVE disk[f] \in Content
  BY <1>1, <1>2 DEF TypeOK, Exists, Stored
<1>3. ASSUME Exists(f)
      PROVE  [verified |-> FALSE, sha |-> disk[f]] \in Row
  BY <1>2, <1>3 DEF Row
<1>4. ASSUME Exists(f), ledger[f] # None
      PROVE  [ledger[f] EXCEPT !.sha = disk[f]] \in Row
  <2>1. ledger[f] \in Row
    BY <1>1, <1>4 DEF TypeOK
  <2> QED
    BY <1>2, <1>4, <2>1 DEF Row
<1>5. ledger \in [Files -> Row \cup {None}]
  BY DEF TypeOK
<1>6. CASE ~Exists(f) \/ pending.role # "Builder"
  BY <1>5, <1>6 DEF MarkOwnership
<1>7. CASE Exists(f) /\ pending.role = "Builder" /\ pending.tool = "write_file"
  BY <1>1, <1>3, <1>5, <1>7 DEF MarkOwnership
<1>8. CASE Exists(f) /\ pending.role = "Builder" /\ pending.tool = "edit_file"
  BY <1>1, <1>4, <1>5, <1>8 DEF MarkOwnership
<1> QED
  BY <1>6, <1>7, <1>8 DEF Call

\* So is a row after a rollback's reconciliation.
LEMMA ReconcileType ==
  ASSUME TypeOK, NEW f \in Captured
  PROVE  Reconcile(f) \in [Files -> Row \cup {None}]
<1>1. f \in Files /\ snap[f] \in Stored
  BY DEF TypeOK, Captured
<1>2. ASSUME ledger[f] # None, snap[f] # Absent
      PROVE  [ledger[f] EXCEPT !.sha = snap[f]] \in Row
  <2>1. ledger[f] \in Row /\ snap[f] \in Content
    BY <1>1, <1>2 DEF TypeOK, Stored
  <2> QED
    BY <2>1 DEF Row
<1> QED
  BY <1>1, <1>2 DEF TypeOK, Reconcile

\* A focused edit of a text gives a text.
LEMMA EditedContent ==
  ASSUME TypeOK, NEW f \in Files, NEW v \in Versions, Exists(f)
  PROVE  [disk[f] EXCEPT !.v = v] \in Content
<1>1. disk[f] \in Content
  BY DEF TypeOK, Exists, Stored
<1> QED
  BY <1>1 DEF Content

-----------------------------------------------------------------------------
\* What the transaction captures is the bytes the file has.
LEMMA CaptureType ==
  ASSUME TypeOK, NEW f \in Files, TransactionCapture(f)
  PROVE  /\ snap' \in [Files -> Stored \cup {Uncaptured}]
         /\ snap'[f] = IF f \in Captured THEN snap[f] ELSE disk[f]
         /\ \A g \in Files : g # f => snap'[g] = snap[g]
  BY DEF TypeOK, TransactionCapture

\* A backup keeps the backups well typed.
LEMMA BackupType ==
  ASSUME TypeOK, NEW f \in Files, NEW needed \in BOOLEAN, Backup(f, needed)
  PROVE  kept' \in [Files -> SUBSET Stored] /\ savedHere' \subseteq Files
<1>1. disk[f] \in Stored /\ kept[f] \in SUBSET Stored
  BY DEF TypeOK
<1> QED
  BY <1>1 DEF TypeOK, Backup

\* A tool that writes a text to a file keeps the state well typed.
LEMMA MutateType ==
  ASSUME TypeOK, NEW f \in Files, NEW content \in Content, NEW call \in Call,
         NEW needed \in BOOLEAN, Backup(f, needed), Mutate(f, content, call)
  PROVE  TypeOK'
<1>1. kept' \in [Files -> SUBSET Stored] /\ savedHere' \subseteq Files
  BY BackupType
<1>2. snap' \in [Files -> Stored \cup {Uncaptured}]
  BY CaptureType DEF Mutate
<1>3. disk' \in [Files -> Stored] /\ pending' \in Call \cup {None}
  BY DEF TypeOK, Mutate, Stored
<1> QED
  BY <1>1, <1>2, <1>3 DEF TypeOK, Mutate

\* Every step keeps the state well typed.
LEMMA NextTypeOK == TypeOK /\ [Next]_vars => TypeOK'
<1> SUFFICES ASSUME TypeOK, [Next]_vars PROVE TypeOK'
  OBVIOUS
<1>1. CASE StartProcess
  <2>1. ASSUME NEW f \in Files PROVE RecoverInterruptedArtifacts[f] \in Row \cup {None}
    <3>1. CASE f \in orphaned /\ ledger[f] = None /\ Exists(f)
      <4>1. disk[f] \in Content
        BY <3>1 DEF TypeOK, Exists, Stored
      <4> QED
        BY <3>1, <4>1 DEF RecoverInterruptedArtifacts, Row
    <3>2. CASE ~(f \in orphaned /\ ledger[f] = None /\ Exists(f))
      BY <3>2 DEF RecoverInterruptedArtifacts, TypeOK
    <3> QED
      BY <3>1, <3>2
  <2>2. ledger' \in [Files -> Row \cup {None}]
    BY <1>1, <2>1 DEF StartProcess, RecoverInterruptedArtifacts
  <2> QED
    BY <1>1, <2>2 DEF StartProcess, TypeOK, storage, control
<1>2. CASE BeginRun
  BY <1>2 DEF BeginRun, TypeOK, memory, control
<1>3. CASE FinishRun
  BY <1>3 DEF FinishRun, TypeOK, storage, control
<1>4. CASE Crash
  BY <1>4 DEF Crash, TypeOK, storage
<1>5. CASE UpdateMemory
  <2>1. pending \in Call
    BY <1>5 DEF UpdateMemory, TypeOK
  <2>2. pending.file \in Files
    BY <2>1 DEF Call
  <2>3. ledger' \in [Files -> Row \cup {None}]
    BY <1>5, <2>1, MarkOwnershipType DEF UpdateMemory, TypeOK
  <2>4. written' \subseteq Files
    BY <1>5, <2>2 DEF UpdateMemory, TypeOK
  <2> QED
    BY <1>5, <2>3, <2>4 DEF UpdateMemory, TypeOK, storage
<1>6. CASE BeginTransaction
  BY <1>6 DEF BeginTransaction, TypeOK, storage, memory
<1>7. CASE CommitTransaction
  BY <1>7 DEF CommitTransaction, TypeOK, storage
<1>8. CASE RememberVerifiedOutcome
  <2>1. ASSUME NEW f \in Files, ledger[f] # None
        PROVE  [ledger[f] EXCEPT !.verified = TRUE] \in Row
    <3>1. ledger[f] \in Row
      BY <2>1 DEF TypeOK
    <3> QED
      BY <3>1 DEF Row
  <2>2. ledger' \in [Files -> Row \cup {None}]
    BY <1>8, <2>1 DEF RememberVerifiedOutcome, TypeOK
  <2> QED
    BY <1>8, <2>2 DEF RememberVerifiedOutcome, TypeOK, storage
<1>9. CASE RollbackTransaction
  BY <1>9 DEF RollbackTransaction, TypeOK, storage, memory
<1>10. CASE EndRollback
  BY <1>10 DEF EndRollback, TypeOK, storage, memory
<1>11. ASSUME NEW f \in Files, RestoreFile(f) PROVE TypeOK'
  <2>1. snap[f] \in Stored
    BY <1>11 DEF RestoreFile, TypeOK, Captured
  <2>2. ledger' \in [Files -> Row \cup {None}]
    BY <1>11, ReconcileType DEF RestoreFile
  <2> QED
    BY <1>11, <2>1, <2>2 DEF RestoreFile, TypeOK
<1>12. ASSUME NEW f \in Files, RestoreFails(f) PROVE TypeOK'
  BY <1>12 DEF RestoreFails, TypeOK, storage, memory
<1>13. ASSUME NEW f \in Files, RestoreAborts(f) PROVE TypeOK'
  <2>1. snap[f] \in Stored
    BY <1>13 DEF RestoreAborts, TypeOK, Captured
  <2> QED
    BY <1>13, <2>1 DEF RestoreAborts, TypeOK
<1>14. ASSUME NEW f \in Files, NEW v \in Versions, WriteFile(f, v) PROVE TypeOK'
  <2> DEFINE call == [tool |-> "write_file", role |-> "Builder", file |-> f]
  <2>1. [user |-> FALSE, v |-> v] \in Content /\ call \in Call
    BY DEF Content, Call
  <2>2. (Exists(f) /\ f \notin CreatedHere) \in BOOLEAN
    OBVIOUS
  <2> QED
    BY <1>14, <2>1, <2>2, MutateType DEF WriteFile
<1>15. ASSUME NEW f \in Files, NEW v \in Versions, NEW role \in {"Builder", "Repairer"},
              EditFile(role, f, v)
       PROVE  TypeOK'
  <2> DEFINE call == [tool |-> "edit_file", role |-> role, file |-> f]
  <2>1. call \in Call
    BY DEF Call
  <2>2. [disk[f] EXCEPT !.v = v] \in Content
    BY <1>15, EditedContent DEF EditFile
  <2>3. (f \notin CreatedHere) \in BOOLEAN
    OBVIOUS
  <2> QED
    BY <1>15, <2>1, <2>2, <2>3, MutateType DEF EditFile
<1>16. ASSUME NEW f \in Files, NEW text \in UserStored, UserEdit(f, text) PROVE TypeOK'
  BY <1>16, UserStoredType DEF UserEdit, TypeOK, memory
<1>17. CASE UNCHANGED vars
  BY <1>17 DEF vars, storage, memory, control, TypeOK
<1> QED
  BY <1>1, <1>2, <1>3, <1>4, <1>5, <1>6, <1>7, <1>8, <1>9, <1>10, <1>11, <1>12,
     <1>13, <1>14, <1>15, <1>16, <1>17 DEF Next

\* Type correctness, for every set of files, of texts and of moments at which
\* the user edits: TypeOK is inductive.
THEOREM TypeCorrect == Spec => []TypeOK
  BY InitTypeOK, NextTypeOK, PTL DEF Spec

-----------------------------------------------------------------------------
\* A tool call leaves every snapshot equal to the bytes at the leaf's start:
\* the first call on a file captures bytes that are still those.
LEMMA MutatePart ==
  ASSUME TypeOK, TxnPart, txn = "active", NEW f \in Files, NEW content \in Content,
         NEW call \in Call, Mutate(f, content, call)
  PROVE  TxnPart'
<1>1. txn' = "active" /\ base' = base /\ lost' = lost
  BY DEF Mutate
<1>2. /\ snap' \in [Files -> Stored \cup {Uncaptured}]
      /\ snap'[f] = IF f \in Captured THEN snap[f] ELSE disk[f]
      /\ \A g \in Files : g # f => snap'[g] = snap[g]
  BY CaptureType DEF Mutate
<1>3. snap'[f] = base[f] /\ snap'[f] # Uncaptured
  <2>1. disk[f] # Uncaptured
    BY ConstantsAssumption DEF TypeOK, Stored
  <2> QED
    BY <1>2, <2>1 DEF TxnPart, SnapshotsAreBase, NothingLostYet, InLeaf, Captured
<1>4. \A g \in Files : IF g \in Captured' THEN snap'[g] = base'[g]
                                        ELSE disk'[g] = base'[g] \/ g \in lost'
  <2> SUFFICES ASSUME NEW g \in Files
               PROVE  IF g \in Captured' THEN snap'[g] = base'[g]
                                         ELSE disk'[g] = base'[g] \/ g \in lost'
    OBVIOUS
  <2>1. CASE g = f
    BY <1>1, <1>3, <2>1 DEF Captured
  <2>2. CASE g # f
    <3>1. disk'[g] = disk[g] /\ snap'[g] = snap[g]
      BY <1>2, <2>2 DEF Mutate, TypeOK
    <3> QED
      BY <1>1, <3>1 DEF TxnPart, SnapshotsAreBase, InLeaf, Captured
  <2> QED
    BY <2>1, <2>2
<1> QED
  BY <1>1, <1>4 DEF TxnPart, Mutate, PendingInLeaf, LeafInRun, SnapshotsAreBase, NothingLostYet,
                    CommittedIsDone, RollbackRestores, InLeaf

\* Every step preserves the transaction's invariant.
LEMMA NextTxnPart == TypeOK /\ TxnPart /\ [Next]_vars => TxnPart'
<1> SUFFICES ASSUME TypeOK, TxnPart, [Next]_vars PROVE TxnPart'
  OBVIOUS
<1> USE DEF TxnPart, PendingInLeaf, LeafInRun, SnapshotsAreBase, NothingLostYet, CommittedIsDone,
            RollbackRestores, InLeaf, Captured
<1>1. CASE StartProcess
  BY <1>1 DEF StartProcess, storage, control
<1>2. CASE BeginRun
  BY <1>2 DEF BeginRun, control
<1>3. CASE FinishRun
  BY <1>3 DEF FinishRun, storage, control
<1>4. CASE Crash
  <2>1. pending' = None /\ txn' = "none" /\ UNCHANGED <<disk, base, lost>>
    BY <1>4 DEF Crash, storage
  <2>2. Captured' = {}
    BY <1>4 DEF Crash
  <2>3. outcome' = "failed" => txn = "none" /\ outcome = "failed"
    BY <1>4 DEF Crash, TypeOK
  <2> QED
    BY <2>1, <2>2, <2>3
<1>5. CASE UpdateMemory
  <2>1. pending' = None /\ UNCHANGED <<proc, disk, txn, snap, base, outcome, lost>>
    BY <1>5 DEF UpdateMemory, storage
  <2> QED
    BY <2>1
<1>6. CASE BeginTransaction
  BY <1>6 DEF BeginTransaction, storage
<1>7. CASE CommitTransaction
  BY <1>7 DEF CommitTransaction
<1>8. CASE RememberVerifiedOutcome
  <2>1. txn = "committed" /\ txn' = "none" /\ outcome' = outcome /\ pending' = pending
    BY <1>8 DEF RememberVerifiedOutcome
  <2>2. Captured' = {}
    BY <1>8 DEF RememberVerifiedOutcome
  <2> QED
    BY <2>1, <2>2
<1>9. CASE RollbackTransaction
  BY <1>9 DEF RollbackTransaction, storage
<1>10. CASE EndRollback
  BY <1>10 DEF EndRollback, storage
<1>11. ASSUME NEW f \in Files, RestoreFile(f) PROVE TxnPart'
  BY <1>11 DEF RestoreFile, TypeOK
<1>12. ASSUME NEW f \in Files, RestoreFails(f) PROVE TxnPart'
  BY <1>12 DEF RestoreFails, storage, TypeOK
<1>13. ASSUME NEW f \in Files, RestoreAborts(f) PROVE TxnPart'
  <2>1. pending' = pending /\ txn = "restoring" /\ txn' = "none" /\ outcome' = "torn"
    BY <1>13 DEF RestoreAborts
  <2>2. Captured' = {}
    BY <1>13 DEF RestoreAborts
  <2> QED
    BY <2>1, <2>2
<1>14. ASSUME NEW f \in Files, NEW v \in Versions, WriteFile(f, v) PROVE TxnPart'
  <2>1. /\ [user |-> FALSE, v |-> v] \in Content
        /\ [tool |-> "write_file", role |-> "Builder", file |-> f] \in Call
    BY DEF Content, Call
  <2> QED
    BY <1>14, <2>1, MutatePart DEF WriteFile
<1>15. ASSUME NEW f \in Files, NEW v \in Versions, NEW role \in {"Builder", "Repairer"},
              EditFile(role, f, v)
       PROVE  TxnPart'
  <2>1. /\ [disk[f] EXCEPT !.v = v] \in Content
        /\ [tool |-> "edit_file", role |-> role, file |-> f] \in Call
    BY <1>15, EditedContent DEF EditFile, Call
  <2> QED
    BY <1>15, <2>1, MutatePart DEF EditFile
<1>16. ASSUME NEW f \in Files, NEW text \in UserStored, UserEdit(f, text) PROVE TxnPart'
  BY <1>16 DEF UserEdit, TypeOK
<1>17. CASE UNCHANGED vars
  BY <1>17 DEF vars, storage, control
<1> QED
  BY <1>1, <1>2, <1>3, <1>4, <1>5, <1>6, <1>7, <1>8, <1>9, <1>10, <1>11, <1>12,
     <1>13, <1>14, <1>15, <1>16, <1>17 DEF Next

\* The initial states satisfy the transaction's invariant.
LEMMA InitTxnPart == Init => TxnPart
  BY DEF Init, TxnPart, PendingInLeaf, LeafInRun, SnapshotsAreBase, NothingLostYet,
         CommittedIsDone, RollbackRestores, InLeaf, Captured

\* The transaction's invariant holds of every reachable state.
THEOREM TxnInvariant == Spec => [](TypeOK /\ TxnPart)
  BY InitTypeOK, InitTxnPart, NextTypeOK, NextTxnPart, PTL DEF Spec

\* A rolled-back leaf leaves no trace in the files that could be restored,
\* whatever the number of files, edits, crashes and user edits.
THEOREM RollbackRestoresFiles == Spec => []RollbackRestores
<1>1. TxnPart => RollbackRestores
  BY DEF TxnPart
<1> QED
  BY <1>1, TxnInvariant, PTL

-----------------------------------------------------------------------------
(* A user who leaves the files alone while a leaf runs.                    *)

\* A path the leaf found occupied stays occupied, and the only verified row
\* that waits to be made a draft is that of a path the leaf found empty.
DraftsOnly ==
  /\ txn = "active" => \A f \in Captured : snap[f] # Absent => Exists(f)
  /\ pending # None /\ pending.tool = "write_file" =>
       LET f == pending.file IN
         ledger[f] # None /\ ledger[f].verified => snap[f] = Absent

\* The invariant behind VerifiedRowKept is inductive when the user does not
\* edit in a leaf.
LEMMA NextDraftsOnly ==
  ASSUME "in_leaf" \notin UserMoments, TypeOK, TxnPart, DraftsOnly, [Next]_vars
  PROVE  DraftsOnly'
<1> USE DEF DraftsOnly, Captured, Exists
<1>1. CASE StartProcess \/ BeginRun \/ FinishRun
  <2>1. CASE StartProcess
    <3>1. ASSUME NEW f \in Files, ledger'[f] # None, ledger'[f].verified
          PROVE  ledger[f] # None /\ ledger[f].verified
      BY <2>1, <3>1 DEF StartProcess, RecoverInterruptedArtifacts
    <3>2. UNCHANGED <<disk, txn, snap, pending>>
      BY <2>1 DEF StartProcess, storage, control
    <3>3. pending # None => pending.file \in Files
      BY DEF TypeOK, Call
    <3> QED
      BY <3>1, <3>2, <3>3
  <2>2. CASE BeginRun \/ FinishRun
    BY <2>2 DEF BeginRun, FinishRun, storage, memory, control
  <2> QED
    BY <1>1, <2>1, <2>2
<1>2. CASE Crash
  BY <1>2 DEF Crash
<1>3. CASE UpdateMemory
  <2>1. pending' = None /\ UNCHANGED <<disk, txn, snap>>
    BY <1>3 DEF UpdateMemory, storage
  <2> QED
    BY <2>1
<1>4. CASE BeginTransaction
  <2>1. Captured' = {} /\ pending' = pending /\ pending = None
    BY <1>4 DEF BeginTransaction, TxnPart, SnapshotsAreBase, PendingInLeaf
  <2> QED
    BY <2>1
<1>5. CASE CommitTransaction \/ RememberVerifiedOutcome \/ RollbackTransaction \/ EndRollback
  <2>1. txn' # "active" /\ pending' = pending
    BY <1>5 DEF CommitTransaction, RememberVerifiedOutcome, RollbackTransaction, EndRollback
  <2>2. pending = None
    BY <1>5 DEF CommitTransaction, RememberVerifiedOutcome, RollbackTransaction, EndRollback,
                TxnPart, PendingInLeaf
  <2> QED
    BY <2>1, <2>2
<1>6. ASSUME NEW f \in Files, RestoreFile(f) \/ RestoreFails(f) \/ RestoreAborts(f)
      PROVE  DraftsOnly'
  <2>1. txn' # "active" /\ pending' = pending /\ pending = None
    BY <1>6 DEF RestoreFile, RestoreFails, RestoreAborts, TxnPart, PendingInLeaf
  <2> QED
    BY <2>1
<1>7. ASSUME NEW f \in Files, NEW v \in Versions, WriteFile(f, v) PROVE DraftsOnly'
  <2> DEFINE content == [user |-> FALSE, v |-> v]
             call == [tool |-> "write_file", role |-> "Builder", file |-> f]
  <2>1. TransactionCapture(f) /\ disk' = [disk EXCEPT ![f] = content] /\ pending' = call
        /\ ledger' = ledger /\ txn = "active" /\ txn' = "active"
    BY <1>7 DEF WriteFile, Mutate
  <2>2. /\ snap'[f] = IF f \in Captured THEN snap[f] ELSE disk[f]
        /\ \A g \in Files : g # f => snap'[g] = snap[g]
    BY <2>1, CaptureType
  <2>c. content \in Content
    BY DEF Content
  <2>3. disk'[f] = content /\ content # Absent /\ \A g \in Files : g # f => disk'[g] = disk[g]
    BY <2>1, <2>c, ConstantsAssumption DEF TypeOK
  <2>4. \A g \in Captured' : snap'[g] # Absent => Exists(g)'
    BY <2>1, <2>2, <2>3
  <2>5. ledger[f] # None /\ ledger[f].verified => snap'[f] = Absent
    <3>1. CASE Exists(f)
      <4>1. f \in CreatedHere \/ Resumable(f)
        BY <1>7, <3>1 DEF WriteFile
      <4>2. f \in CreatedHere => f \in Captured /\ snap[f] = Absent
        BY ConstantsAssumption DEF CreatedHere
      <4> QED
        BY <2>2, <4>1, <4>2 DEF Resumable
    <3>2. CASE ~Exists(f)
      BY <2>1, <2>2, <3>2
    <3> QED
      BY <3>1, <3>2
  <2> QED
    BY <2>1, <2>4, <2>5
<1>8. ASSUME NEW f \in Files, NEW v \in Versions, NEW role \in {"Builder", "Repairer"},
             EditFile(role, f, v)
      PROVE  DraftsOnly'
  <2> DEFINE content == [disk[f] EXCEPT !.v = v]
             call == [tool |-> "edit_file", role |-> role, file |-> f]
  <2>1. TransactionCapture(f) /\ disk' = [disk EXCEPT ![f] = content] /\ pending' = call
        /\ txn = "active" /\ txn' = "active"
    BY <1>8 DEF EditFile, Mutate
  <2>2. /\ snap'[f] = IF f \in Captured THEN snap[f] ELSE disk[f]
        /\ \A g \in Files : g # f => snap'[g] = snap[g]
    BY <2>1, CaptureType
  <2>3. content \in Content
    BY <1>8, EditedContent DEF EditFile
  <2>4. disk'[f] = content /\ content # Absent /\ \A g \in Files : g # f => disk'[g] = disk[g]
    BY <2>1, <2>3, ConstantsAssumption DEF TypeOK
  <2>5. \A g \in Captured' : snap'[g] # Absent => Exists(g)'
    BY <2>1, <2>2, <2>4
  <2>6. pending'.tool # "write_file"
    BY <2>1
  <2> QED
    BY <2>1, <2>5, <2>6
<1>9. ASSUME NEW f \in Files, NEW text \in UserStored, UserEdit(f, text) PROVE DraftsOnly'
  <2>1. txn = "none" /\ txn' = txn /\ pending' = pending
    BY <1>9 DEF UserEdit, UserMayEdit, TxnPart, LeafInRun
  <2>2. pending = None
    BY <2>1 DEF TxnPart, PendingInLeaf
  <2> QED
    BY <2>1, <2>2
<1>10. CASE UNCHANGED vars
  BY <1>10 DEF vars, storage, memory, control
<1> QED
  BY <1>1, <1>2, <1>3, <1>4, <1>5, <1>6, <1>7, <1>8, <1>9, <1>10 DEF Next

\* The initial states satisfy DraftsOnly.
LEMMA InitDraftsOnly == Init => DraftsOnly
  BY DEF Init, DraftsOnly

\* A step that takes the mark of a verified row is the ledger update of a
\* write_file to a path the leaf found empty.
LEMMA VerifiedRowStep ==
  ASSUME TypeOK, DraftsOnly, [Next]_vars, NEW f \in Files,
         ledger[f] # None, ledger[f].verified, ledger'[f] # ledger[f]
  PROVE  snap[f] = Absent
<1>0. ledger[f] \in Row
  BY DEF TypeOK
<1>1. CASE StartProcess
  BY <1>1 DEF StartProcess, RecoverInterruptedArtifacts
<1>2. CASE BeginRun \/ FinishRun \/ Crash \/ BeginTransaction \/ CommitTransaction
           \/ RollbackTransaction \/ EndRollback
  BY <1>2 DEF BeginRun, FinishRun, Crash, BeginTransaction, CommitTransaction,
              RollbackTransaction, EndRollback, memory
<1>3. CASE UpdateMemory
  <2>1. pending \in Call /\ ledger' = MarkOwnership(pending)
    BY <1>3 DEF UpdateMemory, TypeOK
  <2>2. pending.file = f /\ pending.tool = "write_file"
    <3>1. pending.tool \in {"write_file", "edit_file"}
      BY <2>1 DEF Call
    <3> QED
      BY <2>1, <3>1 DEF MarkOwnership, TypeOK
  <2> QED
    BY <1>3, <2>2 DEF DraftsOnly, UpdateMemory
<1>4. CASE RememberVerifiedOutcome
  <2>1. [ledger[f] EXCEPT !.verified = TRUE] = ledger[f]
    BY <1>0 DEF Row
  <2> QED
    BY <1>4, <2>1 DEF RememberVerifiedOutcome
<1>5. ASSUME NEW g \in Files, RestoreFile(g) PROVE FALSE
  <2>1. ledger' = Reconcile(g)
    BY <1>5 DEF RestoreFile
  <2>2. g # f => Reconcile(g)[f] = ledger[f]
    BY DEF Reconcile, TypeOK
  <2>3. Reconcile(f) = ledger
    BY DEF Reconcile
  <2> QED
    BY <2>1, <2>2, <2>3
<1>6. ASSUME NEW g \in Files, RestoreFails(g) \/ RestoreAborts(g) PROVE FALSE
  BY <1>6 DEF RestoreFails, RestoreAborts, memory
<1>7. ASSUME NEW g \in Files, NEW v \in Versions,
             WriteFile(g, v) \/ \E role \in {"Builder", "Repairer"} : EditFile(role, g, v)
      PROVE  FALSE
  BY <1>7 DEF WriteFile, EditFile, Mutate
<1>8. ASSUME NEW g \in Files, NEW text \in UserStored, UserEdit(g, text) PROVE FALSE
  BY <1>8 DEF UserEdit, memory
<1>9. CASE UNCHANGED vars
  BY <1>9 DEF vars, memory
<1> QED
  BY <1>1, <1>2, <1>3, <1>4, <1>5, <1>6, <1>7, <1>8, <1>9 DEF Next

\* When the user does not edit in a leaf, a verified file's mark survives
\* restarts, recoveries, rollbacks and edits: write_file never takes it from a
\* file that is there.
THEOREM VerifiedRowsAreKept ==
  ASSUME "in_leaf" \notin UserMoments
  PROVE  Spec => VerifiedRowKept
<1> DEFINE Kept == \A f \in Files :
              ledger[f] # None /\ ledger[f].verified /\ ledger'[f] # ledger[f]
                => snap[f] = Absent
<1>1. DraftsOnly /\ TypeOK /\ TxnPart /\ [Next]_vars => DraftsOnly'
  BY NextDraftsOnly
<1>2. DraftsOnly /\ TypeOK /\ [Next]_vars => Kept
  BY VerifiedRowStep
<1>3. DraftsOnly /\ TypeOK /\ [Next]_vars => [Kept]_vars
  BY <1>2
<1>4. VerifiedRowKept <=> [][Kept]_vars
  BY DEF VerifiedRowKept
<1> HIDE DEF Kept
<1> QED
  BY <1>1, <1>3, <1>4, InitDraftsOnly, TxnInvariant, PTL DEF Spec

-----------------------------------------------------------------------------
(* A user who edits between runs.                                          *)

\* Once a run has backed a file up, or a leaf holds a snapshot of it, the
\* user's text needs the disk no longer.
TextKept(f) == userText[f] # Absent => userText[f] \in kept[f]

KeptBeforeReplaced ==
  /\ UserTextRecoverable
  /\ proc = "run" => \A f \in savedHere \cup Captured : TextKept(f)

\* A backup leaves the user's text in the backups.
LEMMA BackupKeeps ==
  ASSUME TypeOK, TxnPart, KeptBeforeReplaced, txn = "active", NEW f \in Files,
         NEW needed \in BOOLEAN, Backup(f, needed),
         needed \/ f \in Captured \/ ~Exists(f), UNCHANGED userText
  PROVE  /\ TextKept(f)'
         /\ \A g \in Files : g # f => kept'[g] = kept[g]
         /\ savedHere' \subseteq savedHere \cup {f}
<1>1. proc = "run"
  BY DEF TxnPart, LeafInRun
<1>2. CASE needed /\ f \notin savedHere
  <2>1. kept' = [kept EXCEPT ![f] = @ \cup {disk[f]}] /\ savedHere' = savedHere \cup {f}
    BY <1>2 DEF Backup
  <2>2. kept'[f] = kept[f] \cup {disk[f]}
    BY <2>1 DEF TypeOK
  <2> QED
    BY <2>1, <2>2 DEF KeptBeforeReplaced, UserTextRecoverable, TextKept, TypeOK
<1>3. CASE ~(needed /\ f \notin savedHere)
  <2>1. kept' = kept /\ savedHere' = savedHere
    BY <1>3 DEF Backup
  <2>2. TextKept(f)
    <3>1. CASE f \in savedHere \cup Captured
      BY <1>1, <3>1 DEF KeptBeforeReplaced
    <3>2. CASE ~Exists(f)
      BY <3>2 DEF KeptBeforeReplaced, UserTextRecoverable, TextKept, Exists
    <3> QED
      BY <1>3, <3>1, <3>2
  <2> QED
    BY <2>1, <2>2 DEF TextKept
<1> QED
  BY <1>2, <1>3

\* A tool call that backs the file up, or need not, keeps the invariant.
LEMMA MutateKeeps ==
  ASSUME TypeOK, TxnPart, KeptBeforeReplaced, txn = "active", NEW f \in Files,
         NEW content, NEW call, NEW needed \in BOOLEAN, Backup(f, needed),
         needed \/ f \in Captured \/ ~Exists(f), Mutate(f, content, call)
  PROVE  KeptBeforeReplaced'
<1>1. userText' = userText /\ proc' = proc /\ disk' = [disk EXCEPT ![f] = content]
      /\ TransactionCapture(f)
  BY DEF Mutate
<1>2. /\ TextKept(f)'
      /\ \A g \in Files : g # f => kept'[g] = kept[g]
      /\ savedHere' \subseteq savedHere \cup {f}
  BY <1>1, BackupKeeps
<1>3. \A g \in Files : g # f => disk'[g] = disk[g]
  BY <1>1 DEF TypeOK
<1>4. \A g \in Files : g # f => snap'[g] = snap[g]
  BY <1>1, CaptureType
<1>5. UserTextRecoverable'
  BY <1>1, <1>2, <1>3 DEF KeptBeforeReplaced, UserTextRecoverable, TextKept
<1>6. Captured' \subseteq Captured \cup {f}
  BY <1>4 DEF Captured
<1>7. \A g \in savedHere \cup Captured : g # f /\ TextKept(g) => TextKept(g)'
  BY <1>1, <1>2 DEF TextKept, TypeOK, Captured
<1> QED
  BY <1>1, <1>2, <1>5, <1>6, <1>7 DEF KeptBeforeReplaced

\* The invariant behind UserTextRecoverable is inductive when the user edits
\* between runs only.
LEMMA NextKeptBeforeReplaced ==
  ASSUME UserMoments \subseteq {"between_runs"}, TypeOK, TxnPart, KeptBeforeReplaced,
         [Next]_vars
  PROVE  KeptBeforeReplaced'
<1> USE DEF KeptBeforeReplaced, UserTextRecoverable, TextKept
<1>1. CASE StartProcess
  BY <1>1 DEF StartProcess, storage
<1>2. CASE BeginRun
  <2>1. txn = "none"
    BY <1>2 DEF BeginRun, TxnPart, LeafInRun
  <2>2. Captured' = {} /\ savedHere' = {}
    BY <1>2, <2>1 DEF BeginRun, control, TxnPart, SnapshotsAreBase, Captured
  <2> QED
    BY <1>2, <2>2 DEF BeginRun
<1>3. CASE FinishRun \/ Crash
  BY <1>3 DEF FinishRun, Crash, storage
<1>4. CASE UpdateMemory
  <2>1. UNCHANGED <<proc, storage, snap>>
    BY <1>4 DEF UpdateMemory
  <2> QED
    BY <2>1 DEF storage, Captured
<1>5. CASE BeginTransaction \/ CommitTransaction \/ RollbackTransaction \/ EndRollback
  <2>1. UNCHANGED <<proc, storage, snap>>
    BY <1>5 DEF BeginTransaction, CommitTransaction, RollbackTransaction, EndRollback
  <2> QED
    BY <2>1 DEF storage, Captured
<1>6. CASE RememberVerifiedOutcome
  <2>1. UNCHANGED <<proc, storage>>
    BY <1>6 DEF RememberVerifiedOutcome
  <2>2. Captured' = {}
    BY <1>6 DEF RememberVerifiedOutcome, Captured
  <2> QED
    BY <2>1, <2>2 DEF storage
<1>7. ASSUME NEW f \in Files, RestoreFile(f) PROVE KeptBeforeReplaced'
  <2>1. proc = "run" /\ TextKept(f)
    BY <1>7 DEF RestoreFile, TxnPart, LeafInRun
  <2>2. UNCHANGED <<proc, kept, savedHere, userText>> /\ Captured' \subseteq Captured
    BY <1>7 DEF RestoreFile, Captured, TypeOK
  <2>3. \A g \in Files : g # f => disk'[g] = disk[g]
    BY <1>7 DEF RestoreFile, TypeOK
  <2> QED
    BY <2>1, <2>2, <2>3
<1>8. ASSUME NEW f \in Files, RestoreFails(f) PROVE KeptBeforeReplaced'
  BY <1>8 DEF RestoreFails, storage, Captured, TypeOK
<1>9. ASSUME NEW f \in Files, RestoreAborts(f) PROVE KeptBeforeReplaced'
  <2>1. TextKept(f)
    BY <1>9 DEF RestoreAborts, TxnPart, LeafInRun
  <2>2. UNCHANGED <<kept, userText>> /\ proc' = "down"
    BY <1>9 DEF RestoreAborts
  <2>3. \A g \in Files : g # f => disk'[g] = disk[g]
    BY <1>9 DEF RestoreAborts, TypeOK
  <2> QED
    BY <2>1, <2>2, <2>3
<1>10. ASSUME NEW f \in Files, NEW v \in Versions, WriteFile(f, v)
       PROVE  KeptBeforeReplaced'
  <2>1. f \in CreatedHere => f \in Captured
    BY ConstantsAssumption DEF CreatedHere, Captured
  <2> DEFINE needed == Exists(f) /\ f \notin CreatedHere
  <2>2. needed \/ f \in Captured \/ ~Exists(f)
    BY <2>1
  <2>3. needed \in BOOLEAN
    OBVIOUS
  <2> QED
    BY <1>10, <2>2, <2>3, MutateKeeps DEF WriteFile
<1>11. ASSUME NEW f \in Files, NEW v \in Versions, NEW role \in {"Builder", "Repairer"},
              EditFile(role, f, v)
       PROVE  KeptBeforeReplaced'
  <2>1. f \in CreatedHere => f \in Captured
    BY ConstantsAssumption DEF CreatedHere, Captured
  <2>2. (f \notin CreatedHere) \in BOOLEAN
    OBVIOUS
  <2> QED
    BY <1>11, <2>1, <2>2, MutateKeeps DEF EditFile
<1>12. ASSUME NEW f \in Files, NEW text \in UserStored, UserEdit(f, text)
       PROVE  KeptBeforeReplaced'
  <2>1. proc # "run"
    BY <1>12 DEF UserEdit, UserMayEdit, TxnPart, LeafInRun
  <2> QED
    BY <1>12, <2>1 DEF UserEdit, TypeOK
<1>13. CASE UNCHANGED vars
  BY <1>13 DEF vars, storage, control, Captured
<1> QED
  BY <1>1, <1>2, <1>3, <1>4, <1>5, <1>6, <1>7, <1>8, <1>9, <1>10, <1>11, <1>12, <1>13
  DEF Next

\* The initial states satisfy it.
LEMMA InitKeptBeforeReplaced == Init => KeptBeforeReplaced
  BY DEF Init, KeptBeforeReplaced, UserTextRecoverable, TextKept

\* A user who edits between runs finds the latest text of every file on disk
\* or in a backup, though the ledger may take that text for the model's own.
THEOREM UserTextIsRecoverable ==
  ASSUME UserMoments \subseteq {"between_runs"}
  PROVE  Spec => []UserTextRecoverable
<1>1. KeptBeforeReplaced /\ TypeOK /\ TxnPart /\ [Next]_vars => KeptBeforeReplaced'
  BY NextKeptBeforeReplaced
<1>2. KeptBeforeReplaced => UserTextRecoverable
  BY DEF KeptBeforeReplaced
<1> QED
  BY <1>1, <1>2, InitKeptBeforeReplaced, TxnInvariant, PTL DEF Spec

-----------------------------------------------------------------------------
(* The transaction implements AtomicLeaf.                                  *)

\* The abstract variables: a step that leaves them alone is a stutter.
AbstractVars == <<Visible, InLeaf, outcome, lost, userText>>

\* The abstract project is well typed.
LEMMA VisibleType == TypeOK => Visible \in [Files -> Stored]
  BY DEF TypeOK, Visible, Captured

\* Outside a leaf the project is what is on disk.
LEMMA VisibleOutsideLeaf ==
  TypeOK /\ (~InLeaf \/ Captured = {}) => Visible = disk
  BY DEF TypeOK, Visible

\* No tool call shows before the commit.
LEMMA MutateInvisible ==
  ASSUME TypeOK, TypeOK', txn = "active", NEW f \in Files, NEW content, NEW call,
         Mutate(f, content, call)
  PROVE  UNCHANGED AbstractVars
<1>1. TransactionCapture(f) /\ disk' = [disk EXCEPT ![f] = content]
      /\ UNCHANGED <<txn, outcome, lost, userText>>
  BY DEF Mutate
<1>2. /\ snap'[f] = IF f \in Captured THEN snap[f] ELSE disk[f]
      /\ \A g \in Files : g # f => snap'[g] = snap[g] /\ disk'[g] = disk[g]
  BY <1>1, CaptureType DEF TypeOK
<1>3. snap'[f] # Uncaptured
  BY <1>2, ConstantsAssumption DEF Captured, TypeOK, Stored
<1>4. InLeaf /\ InLeaf'
  BY <1>1 DEF InLeaf
<1>5. ASSUME NEW g \in Files PROVE Visible'[g] = Visible[g]
  BY <1>2, <1>3, <1>4, <1>5 DEF Visible, Captured
<1>6. Visible' = Visible
  BY <1>5 DEF Visible
<1> QED
  BY <1>1, <1>4, <1>6 DEF AbstractVars

\* The initial states map to initial states of AtomicLeaf.
LEMMA AbstractInit == Init => Abstract!Init
<1> SUFFICES ASSUME Init PROVE Abstract!Init
  OBVIOUS
<1>1. TypeOK /\ ~InLeaf
  BY InitTypeOK DEF Init, InLeaf
<1>2. Visible = disk
  BY <1>1, VisibleOutsideLeaf
<1> QED
  BY <1>1, <1>2 DEF Init, InLeaf, Abstract!Init, TypeOK

\* Every step maps to a step of AtomicLeaf or to a stutter.
LEMMA AbstractStep ==
  ASSUME TypeOK, TypeOK', TxnPart, TxnPart', [Next]_vars
  PROVE  Abstract!Next \/ UNCHANGED AbstractVars
<1> USE DEF AbstractVars
<1>0. /\ ~InLeaf \/ Captured = {} => Visible = disk
      /\ ~InLeaf' \/ Captured' = {} => Visible' = disk'
      /\ Visible \in [Files -> Stored] /\ Visible' \in [Files -> Stored]
  BY VisibleOutsideLeaf, VisibleType DEF TypeOK, Visible, Captured
<1>1. CASE StartProcess \/ BeginRun \/ FinishRun \/ UpdateMemory \/ RollbackTransaction
  <2>1. UNCHANGED <<disk, snap, InLeaf, outcome, lost, userText>>
    BY <1>1 DEF StartProcess, BeginRun, FinishRun, UpdateMemory, RollbackTransaction,
                storage, control, InLeaf
  <2> QED
    BY <2>1 DEF Visible, Captured
<1>2. CASE Crash
  <2>1. ~InLeaf' /\ UNCHANGED <<disk, lost, userText>>
    BY <1>2 DEF Crash, InLeaf, storage
  <2>2. Visible' = disk
    BY <1>0, <2>1
  <2>3. CASE InLeaf
    <3>1. outcome' = "torn"
      BY <1>2, <2>3 DEF Crash, InLeaf
    <3>2. Abstract!Tear
      BY <1>0, <2>1, <2>3, <3>1 DEF Abstract!Tear
    <3> QED
      BY <3>2 DEF Abstract!Next
  <2>4. CASE ~InLeaf
    <3>1. outcome' = outcome /\ InLeaf' = InLeaf
      BY <1>2, <2>4 DEF Crash, InLeaf
    <3> QED
      BY <1>0, <2>1, <2>2, <2>4, <3>1
  <2> QED
    BY <2>3, <2>4
<1>3. CASE BeginTransaction
  <2>1. ~InLeaf /\ InLeaf' /\ outcome' = "none" /\ lost' = {} /\ UNCHANGED <<disk, snap, userText>>
    BY <1>3 DEF BeginTransaction, InLeaf, storage
  <2>2. Captured = {} /\ Captured' = {}
    BY <1>3, <2>1 DEF BeginTransaction, TxnPart, SnapshotsAreBase, Captured
  <2>3. Visible' = Visible
    BY <1>0, <2>1, <2>2
  <2>4. Abstract!Begin
    BY <2>1, <2>3 DEF Abstract!Begin
  <2> QED
    BY <2>4 DEF Abstract!Next
<1>4. CASE CommitTransaction
  <2>1. InLeaf /\ ~InLeaf' /\ outcome' = "done" /\ UNCHANGED <<lost, userText>>
    BY <1>4 DEF CommitTransaction, InLeaf, storage
  <2>2. Abstract!Commit
    BY <1>0, <2>1 DEF Abstract!Commit
  <2> QED
    BY <2>2 DEF Abstract!Next
<1>5. CASE RememberVerifiedOutcome
  <2>1. ~InLeaf /\ ~InLeaf' /\ UNCHANGED <<InLeaf, disk, outcome, lost, userText>>
    BY <1>5 DEF RememberVerifiedOutcome, InLeaf, storage
  <2> QED
    BY <1>0, <2>1
<1>6. CASE EndRollback
  <2>1. InLeaf /\ ~InLeaf' /\ Captured = {} /\ outcome' = "failed"
        /\ UNCHANGED <<disk, lost, userText>>
    BY <1>6 DEF EndRollback, InLeaf, storage
  <2>2. Abstract!Fail
    BY <1>0, <2>1 DEF Abstract!Fail
  <2> QED
    BY <2>2 DEF Abstract!Next
<1>7. ASSUME NEW f \in Files, RestoreFile(f) PROVE UNCHANGED AbstractVars
  <2>1. InLeaf /\ InLeaf' /\ f \in Captured /\ UNCHANGED <<outcome, lost, userText>>
    BY <1>7 DEF RestoreFile, InLeaf
  <2>2. /\ snap'[f] = Uncaptured /\ disk'[f] = snap[f]
        /\ \A g \in Files : g # f => snap'[g] = snap[g] /\ disk'[g] = disk[g]
    BY <1>7 DEF RestoreFile, TypeOK
  <2>3. ASSUME NEW g \in Files PROVE Visible'[g] = Visible[g]
    BY <2>1, <2>2, <2>3 DEF Visible, Captured
  <2>4. Visible' = Visible
    BY <2>3 DEF Visible
  <2> QED
    BY <2>1, <2>4
<1>8. ASSUME NEW f \in Files, RestoreFails(f) PROVE Abstract!Next
  <2>1. InLeaf /\ InLeaf' /\ f \in Captured /\ lost' = lost \cup {f}
        /\ UNCHANGED <<disk, outcome, userText>>
    BY <1>8 DEF RestoreFails, InLeaf, storage
  <2>2. snap'[f] = Uncaptured /\ \A g \in Files : g # f => snap'[g] = snap[g]
    BY <1>8 DEF RestoreFails, TypeOK
  <2>3. ASSUME NEW g \in Files PROVE Visible'[g] = [Visible EXCEPT ![f] = disk[f]][g]
    BY <2>1, <2>2, <2>3 DEF Visible, Captured
  <2>4. Visible' = [Visible EXCEPT ![f] = disk[f]]
    BY <2>3 DEF Visible
  <2>5. disk[f] \in Stored
    BY DEF TypeOK
  <2>6. Abstract!Break(f)
    BY <2>1, <2>4, <2>5 DEF Abstract!Break
  <2> QED
    BY <2>6 DEF Abstract!Next
<1>9. ASSUME NEW f \in Files, RestoreAborts(f) PROVE Abstract!Next
  <2>1. InLeaf /\ ~InLeaf' /\ outcome' = "torn" /\ UNCHANGED <<lost, userText>>
    BY <1>9 DEF RestoreAborts, InLeaf
  <2>2. Abstract!Tear
    BY <1>0, <2>1 DEF Abstract!Tear
  <2> QED
    BY <2>2 DEF Abstract!Next
<1>10. ASSUME NEW f \in Files, NEW v \in Versions, WriteFile(f, v)
       PROVE  UNCHANGED AbstractVars
  BY <1>10, MutateInvisible DEF WriteFile
<1>11. ASSUME NEW f \in Files, NEW v \in Versions, NEW role \in {"Builder", "Repairer"},
              EditFile(role, f, v)
       PROVE  UNCHANGED AbstractVars
  BY <1>11, MutateInvisible DEF EditFile
<1>12. ASSUME NEW f \in Files, NEW text \in UserStored, UserEdit(f, text)
       PROVE  Abstract!Next
  <2>1. disk' = [disk EXCEPT ![f] = text] /\ userText' = [userText EXCEPT ![f] = text]
        /\ UNCHANGED <<InLeaf, snap, outcome, lost>>
    BY <1>12 DEF UserEdit, InLeaf
  <2>2. text \in Stored
    BY UserStoredType
  <2>3. Visible' \in {Visible, [Visible EXCEPT ![f] = text]}
    <3>1. \A g \in Files : g # f => Visible'[g] = Visible[g]
      BY <2>1 DEF Visible, Captured, TypeOK
    <3>2. CASE InLeaf /\ f \in Captured
      <4>1. Visible'[f] = Visible[f]
        BY <2>1, <3>2 DEF Visible, Captured
      <4>2. Visible' = Visible
        BY <3>1, <4>1 DEF Visible
      <4> QED
        BY <4>2
    <3>3. CASE ~(InLeaf /\ f \in Captured)
      <4>1. Visible'[f] = text
        BY <2>1, <3>3 DEF Visible, Captured, TypeOK
      <4>2. \A g \in Files : Visible'[g] = [Visible EXCEPT ![f] = text][g]
        BY <3>1, <4>1 DEF Visible
      <4>3. Visible' = [Visible EXCEPT ![f] = text]
        BY <4>2 DEF Visible
      <4> QED
        BY <4>3
    <3> QED
      BY <3>2, <3>3
  <2>4. Abstract!UserEdit(f)
    BY <2>1, <2>2, <2>3 DEF Abstract!UserEdit
  <2> QED
    BY <2>4 DEF Abstract!Next
<1>13. CASE UNCHANGED vars
  BY <1>13 DEF vars, storage, control, Visible, InLeaf, Captured
<1> QED
  BY <1>1, <1>2, <1>3, <1>4, <1>5, <1>6, <1>7, <1>8, <1>9, <1>10, <1>11, <1>12, <1>13
  DEF Next

\* The refinement: for every set of files, a leaf's changes appear at once at
\* its commit or not at all, but for the breaches AtomicLeaf names.
THEOREM TransactionImplementsAtomicLeaf == Spec => ImplementsAtomicLeaf
<1>1. TypeOK /\ TxnPart /\ TypeOK' /\ TxnPart' /\ [Next]_vars => [Abstract!Next]_(Abstract!vars)
  BY AbstractStep DEF AbstractVars, Abstract!vars
<1> QED
  BY <1>1, AbstractInit, TxnInvariant, PTL DEF Spec, ImplementsAtomicLeaf, Abstract!Spec
=============================================================================
