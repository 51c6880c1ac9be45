------------------------ MODULE WorkspaceTransaction ------------------------
(***************************************************************************)
(* The storage side of one leaf of mini_hivo: the files of the workspace,  *)
(* the in-memory transaction that captures a file before its first change, *)
(* the three mutation tools, the durable ledger of model-authored drafts   *)
(* (.hivo/memory.sqlite3), the managed backups, the user who edits the     *)
(* same files, and the process that may die between any two steps.         *)
(*                                                                         *)
(* When a leaf commits or rolls back is decided by module LeafEngine; here *)
(* either may happen whenever the code could reach it.                     *)
(***************************************************************************)
EXTENDS FiniteSets

CONSTANTS
  Files,        \* paths of the workspace
  Versions,     \* distinguishes the texts a writer may produce
  UserMoments,  \* when the user edits: subset of {"between_runs", "between_leaves", "in_leaf"}
  Absent,       \* the content of a path with no file
  Uncaptured,   \* the snapshot of a path the transaction has not touched
  None          \* no ledger row, no tool call to record

\* The bytes of a file.  A text keeps the mark of the user's hand until it is
\* replaced as a whole: a focused edit preserves it.
Content == [user : BOOLEAN, v : Versions]

Stored == Content \cup {Absent}

\* What the user may leave at a path.
UserStored == {Absent} \cup [user : {TRUE}, v : Versions]

Row == [verified : BOOLEAN, sha : Content]

Call == [tool : {"write_file", "edit_file"}, role : {"Builder", "Repairer"}, file : Files]

ASSUME ConstantsAssumption ==
  /\ Absent # Uncaptured /\ Absent # None /\ Uncaptured # None
  /\ Absent \notin Content /\ Uncaptured \notin Content /\ None \notin Content
  /\ None \notin Row /\ None \notin Call
  /\ UserMoments \subseteq {"between_runs", "between_leaves", "in_leaf"}

VARIABLES
  proc,       \* "down", "idle" (no run), "run" (a run row with status 'running')
  disk,       \* the bytes at each path
  txn,        \* ACTIVE_TRANSACTION: "none", "active"; or the epilogue under way
  snap,       \* ACTIVE_TRANSACTION["files"]
  pending,    \* the tool call whose update_memory has not run yet
  ledger,     \* table artifacts, owner 'model'
  written,    \* succeeded write_file events of the current run
  orphaned,   \* the same for killed runs, whose status stays 'running'
  kept,       \* backups at a run's unsuffixed path
  savedHere   \* paths with such a backup in the current run

\* What the code does not store but the properties speak about.
VARIABLES
  base,       \* the bytes when the current leaf's transaction began
  outcome,    \* how the latest leaf ended: "none", "done", "failed", "torn"
  lost,       \* paths whose restore failed with an OSError in the latest leaf
  userText    \* the latest text the user left at a path

storage == <<disk, kept, savedHere, userText>>
memory  == <<ledger, written, orphaned>>
control == <<txn, snap, pending, base, outcome, lost>>
vars    == <<proc, storage, memory, control>>

-----------------------------------------------------------------------------
Captured    == {f \in Files : snap[f] # Uncaptured}
CreatedHere == {f \in Files : snap[f] = Absent}
Exists(f)   == disk[f] # Absent

\* is_unverified_model_artifact: the row is a draft and still matches the bytes.
Resumable(f) ==
  /\ ledger[f] # None
  /\ ~ledger[f].verified
  /\ disk[f] = ledger[f].sha

Init ==
  /\ proc = "down"
  /\ disk \in [Files -> UserStored]
  /\ txn = "none"
  /\ snap = [f \in Files |-> Uncaptured]
  /\ pending = None
  /\ ledger = [f \in Files |-> None]
  /\ written = {}
  /\ orphaned = {}
  /\ kept = [f \in Files |-> {}]
  /\ savedHere = {}
  /\ base = disk
  /\ outcome = "none"
  /\ lost = {}
  /\ userText = disk

-----------------------------------------------------------------------------
(* Processes and runs.                                                     *)

\* Mutant: INSERT OR REPLACE.
RecoverReplacingRows ==
  [f \in Files |->
     IF f \in orphaned /\ Exists(f) THEN [verified |-> FALSE, sha |-> disk[f]] ELSE ledger[f]]

\* A path with a write_file event of a run that never finished becomes a
\* draft again, with the digest of whatever bytes it has now, unless it has a
\* row already (INSERT OR IGNORE).
RecoverInterruptedArtifacts ==
  [f \in Files |->
     IF f \in orphaned /\ ledger[f] = None /\ Exists(f)
       THEN [verified |-> FALSE, sha |-> disk[f]]
       ELSE ledger[f]]

StartProcess ==
  /\ proc = "down"
  /\ proc' = "idle"
  /\ ledger' = RecoverInterruptedArtifacts
  /\ UNCHANGED <<storage, written, orphaned, control>>

BeginRun ==
  /\ proc = "idle"
  /\ proc' = "run"
  /\ savedHere' = {}
  /\ UNCHANGED <<disk, kept, userText, memory, control>>

\* finish_run gives the run its final status, or fails and is ignored.
FinishRun ==
  /\ proc = "run" /\ txn = "none"
  /\ proc' = "idle"
  /\ written' = {}
  /\ orphaned' \in {orphaned, orphaned \cup written}
  /\ UNCHANGED <<storage, ledger, control>>

\* Nothing of the transaction is durable.
Crash ==
  /\ proc # "down"
  /\ proc' = "down"
  /\ txn' = "none"
  /\ snap' = [f \in Files |-> Uncaptured]
  /\ pending' = None
  /\ orphaned' = orphaned \cup written
  /\ written' = {}
  /\ outcome' = IF txn \in {"active", "restoring"} THEN "torn" ELSE outcome
  /\ UNCHANGED <<storage, ledger, base, lost>>

-----------------------------------------------------------------------------
(* The mutation tools.  A rejected call (outside the workspace, no match,  *)
(* invalid syntax, failed backup) changes nothing and is no step.          *)

\* Mutant: a model's draft needs no backup.
BackupButDrafts(f, needed) ==
  IF needed /\ ~Resumable(f) /\ f \notin savedHere
    THEN /\ kept' = [kept EXCEPT ![f] = @ \cup {disk[f]}]
         /\ savedHere' = savedHere \cup {f}
    ELSE UNCHANGED <<kept, savedHere>>

\* A backup made later in the same run goes to a name stamped with the
\* second, which the next one in that second overwrites: it is not counted.
Backup(f, needed) ==
  IF needed /\ f \notin savedHere
    THEN /\ kept' = [kept EXCEPT ![f] = @ \cup {disk[f]}]
         /\ savedHere' = savedHere \cup {f}
    ELSE UNCHANGED <<kept, savedHere>>

\* Mutant: the file is captured before every change, not before its first.
TransactionRecapture(f) == snap' = [snap EXCEPT ![f] = disk[f]]

TransactionCapture(f) ==
  snap' = IF f \in Captured THEN snap ELSE [snap EXCEPT ![f] = disk[f]]

Mutate(f, content, call) ==
  /\ TransactionCapture(f)
  /\ disk' = [disk EXCEPT ![f] = content]
  /\ pending' = call
  /\ UNCHANGED <<proc, userText, ledger, written, orphaned, txn, base, outcome, lost>>

\* Only a Builder reaches write_file: the Falsifier and the Repairer do not.
WriteFile(f, v) ==
  /\ txn = "active" /\ pending = None
  /\ Exists(f) => f \in CreatedHere \/ Resumable(f)
  /\ Backup(f, Exists(f) /\ f \notin CreatedHere)
  /\ Mutate(f, [user |-> FALSE, v |-> v],
            [tool |-> "write_file", role |-> "Builder", file |-> f])

\* edit_file and edit_file_range.
EditFile(role, f, v) ==
  /\ txn = "active" /\ pending = None
  /\ Exists(f)
  /\ Backup(f, f \notin CreatedHere)
  /\ Mutate(f, [disk[f] EXCEPT !.v = v],
            [tool |-> "edit_file", role |-> role, file |-> f])

\* The ledger after a tool call of which the store keeps part: the event and
\* the ownership are two SQLite transactions, and an exception is swallowed.
MarkOwnership(call) ==
  LET f == call.file IN
  IF ~Exists(f) \/ call.role # "Builder" THEN ledger
  ELSE CASE call.tool = "write_file" ->
              [ledger EXCEPT ![f] = [verified |-> FALSE, sha |-> disk[f]]]
         [] call.tool = "edit_file" ->
              IF ledger[f] # None /\ ~ledger[f].verified
                THEN [ledger EXCEPT ![f].sha = disk[f]]
                ELSE ledger

UpdateMemory ==
  /\ pending # None
  /\ pending' = None
  /\ \E stored \in {"nothing", "event", "both"} :
       /\ written' = IF pending.tool = "write_file" /\ stored # "nothing"
                       THEN written \cup {pending.file}
                       ELSE written
       /\ ledger' = IF stored = "both" THEN MarkOwnership(pending) ELSE ledger
  /\ UNCHANGED <<proc, storage, orphaned, txn, snap, base, outcome, lost>>

-----------------------------------------------------------------------------
(* The transaction.                                                        *)

BeginTransaction ==
  /\ proc = "run" /\ txn = "none"
  /\ txn' = "active"
  /\ base' = disk
  /\ outcome' = "none"
  /\ lost' = {}
  /\ UNCHANGED <<proc, storage, memory, snap, pending>>

CommitTransaction ==
  /\ txn = "active" /\ pending = None
  /\ txn' = "committed"
  /\ outcome' = "done"
  /\ UNCHANGED <<proc, storage, ledger, written, orphaned, snap, pending, base, lost>>

\* mark_artifacts_verified for the changed files, or an exception swallowed
\* by remember_verified_outcome.
RememberVerifiedOutcome ==
  /\ txn = "committed"
  /\ txn' = "none"
  /\ snap' = [f \in Files |-> Uncaptured]
  /\ \/ ledger' = [f \in Files |-> IF f \in Captured /\ ledger[f] # None
                                    THEN [ledger[f] EXCEPT !.verified = TRUE]
                                    ELSE ledger[f]]
     \/ UNCHANGED ledger
  /\ UNCHANGED <<proc, storage, written, orphaned, pending, base, outcome, lost>>

RollbackTransaction ==
  /\ txn = "active" /\ pending = None
  /\ txn' = "restoring"
  /\ UNCHANGED <<proc, storage, memory, snap, pending, base, outcome, lost>>

\* reconcile_rolled_back_artifact.
Reconcile(f) ==
  IF ledger[f] = None \/ ledger[f].verified THEN ledger
  ELSE IF snap[f] = Absent THEN [ledger EXCEPT ![f] = None]
  ELSE [ledger EXCEPT ![f].sha = snap[f]]

\* Mutant: a file the leaf created is not unlinked.
RestoreUnlinksNothing(f) ==
  /\ txn = "restoring" /\ f \in Captured
  /\ disk' = IF snap[f] = Absent THEN disk ELSE [disk EXCEPT ![f] = snap[f]]
  /\ ledger' = Reconcile(f)
  /\ snap' = [snap EXCEPT ![f] = Uncaptured]
  /\ UNCHANGED <<proc, kept, savedHere, userText, written, orphaned,
                 txn, pending, base, outcome, lost>>

RestoreFile(f) ==
  /\ txn = "restoring" /\ f \in Captured
  /\ disk' = [disk EXCEPT ![f] = snap[f]]
  /\ ledger' = Reconcile(f)
  /\ snap' = [snap EXCEPT ![f] = Uncaptured]
  /\ UNCHANGED <<proc, kept, savedHere, userText, written, orphaned,
                 txn, pending, base, outcome, lost>>

\* An OSError is printed and the loop goes on with the next file.
RestoreFails(f) ==
  /\ txn = "restoring" /\ f \in Captured
  /\ snap' = [snap EXCEPT ![f] = Uncaptured]
  /\ lost' = lost \cup {f}
  /\ UNCHANGED <<proc, storage, memory, txn, pending, base, outcome>>

\* A SQLite error of the ledger is no OSError: it leaves rollback_transaction
\* with the bytes of f restored and the files after it as they are, and ends
\* the process.
RestoreAborts(f) ==
  /\ txn = "restoring" /\ f \in Captured
  /\ proc' = "down"
  /\ disk' = [disk EXCEPT ![f] = snap[f]]
  /\ txn' = "none"
  /\ snap' = [g \in Files |-> Uncaptured]
  /\ orphaned' = orphaned \cup written
  /\ written' = {}
  /\ outcome' = "torn"
  /\ UNCHANGED <<kept, savedHere, userText, ledger, pending, base, lost>>

EndRollback ==
  /\ txn = "restoring" /\ Captured = {}
  /\ txn' = "none"
  /\ outcome' = "failed"
  /\ UNCHANGED <<proc, storage, memory, snap, pending, base, lost>>

-----------------------------------------------------------------------------
(* The user, in an editor of their own.                                    *)

UserMayEdit ==
  \/ proc # "run" /\ "between_runs" \in UserMoments
  \/ proc = "run" /\ txn = "none" /\ "between_leaves" \in UserMoments
  \/ txn # "none" /\ "in_leaf" \in UserMoments

UserEdit(f, text) ==
  /\ UserMayEdit
  /\ text # disk[f]
  /\ disk' = [disk EXCEPT ![f] = text]
  /\ userText' = [userText EXCEPT ![f] = text]
  /\ base' = IF f \in Captured THEN base ELSE [base EXCEPT ![f] = text]
  /\ UNCHANGED <<proc, kept, savedHere, memory, txn, snap, pending, outcome, lost>>

-----------------------------------------------------------------------------
Next ==
  \/ StartProcess \/ BeginRun \/ FinishRun \/ Crash
  \/ UpdateMemory
  \/ BeginTransaction \/ CommitTransaction \/ RememberVerifiedOutcome
  \/ RollbackTransaction \/ EndRollback
  \/ \E f \in Files :
       \/ RestoreFile(f) \/ RestoreFails(f) \/ RestoreAborts(f)
       \/ \E v \in Versions :
            \/ WriteFile(f, v)
            \/ \E role \in {"Builder", "Repairer"} : EditFile(role, f, v)
       \/ \E text \in UserStored : UserEdit(f, text)

Spec == Init /\ [][Next]_vars
-----------------------------------------------------------------------------
(* Properties.                                                             *)

\* The type invariant of the module.
TypeOK ==
  /\ proc \in {"down", "idle", "run"}
  /\ disk \in [Files -> Stored]
  /\ txn \in {"none", "active", "committed", "restoring"}
  /\ snap \in [Files -> Stored \cup {Uncaptured}]
  /\ pending \in Call \cup {None}
  /\ ledger \in [Files -> Row \cup {None}]
  /\ written \subseteq Files
  /\ orphaned \subseteq Files
  /\ kept \in [Files -> SUBSET Stored]
  /\ savedHere \subseteq Files
  /\ base \in [Files -> Stored]
  /\ outcome \in {"none", "done", "failed", "torn"}
  /\ lost \subseteq Files
  /\ userText \in [Files -> Stored]

\* A leaf that ended with a rollback leaves every file with the bytes it had
\* when the leaf began, whatever was written, created, edited several times or
\* deleted in between, but for the files whose restore failed.  (The user's own
\* edits of files the leaf has not touched move the reference point.)
RollbackRestores ==
  txn = "none" /\ outcome = "failed" => \A f \in Files \ lost : disk[f] = base[f]

\* Whatever the tools, a crash or a mistaken ledger row do to a file, the latest
\* text a user who edits between runs left in it is on disk or in a backup.
UserTextRecoverable ==
  \A f \in Files : userText[f] # Absent => userText[f] \in kept[f] \cup {disk[f]}

\* A file marked verified loses its mark only in a leaf that found no file at
\* its path: neither a restart's recovery, nor a rollback, nor an edit makes
\* it a draft that write_file may replace.
VerifiedRowKept ==
  [][\A f \in Files :
       ledger[f] # None /\ ledger[f].verified /\ ledger'[f] # ledger[f]
         => snap[f] = Absent]_vars

-----------------------------------------------------------------------------
(* Refinement.                                                             *)

\* The project as the transaction defines it: a file it holds a snapshot of
\* still counts as unchanged until the leaf commits.
InLeaf == txn \in {"active", "restoring"}

Visible == [f \in Files |-> IF InLeaf /\ f \in Captured THEN snap[f] ELSE disk[f]]

Abstract == INSTANCE AtomicLeaf
  WITH Contents <- Stored, files <- Visible, leaf <- InLeaf, result <- outcome,
       broken <- lost, hand <- userText

\* Only the outcomes AtomicLeaf names change the project under a leaf: each
\* tool call, ledger update and single-file restore is invisible.
ImplementsAtomicLeaf == Abstract!Spec
=============================================================================
