----------------------------- MODULE AtomicLeaf -----------------------------
(***************************************************************************)
(* What a leaf's transaction promises to the rest of the system: the files *)
(* of the project move from the state before the leaf to the state it      *)
(* commits in one step, or not at all.  Three things break the promise and *)
(* each has an action of its own here, so that nothing else may: a file    *)
(* that cannot be restored, a process that dies inside a leaf, and the     *)
(* user.                                                                   *)
(***************************************************************************)
CONSTANTS Files, Contents

VARIABLES
  files,   \* the project as the tasks that follow may rely on it
  leaf,    \* whether a leaf is under way
  result,  \* how the latest leaf ended
  broken,  \* files the latest leaf could not restore
  hand     \* the latest text the user gave each file

vars == <<files, leaf, result, broken, hand>>

Init ==
  /\ files \in [Files -> Contents]
  /\ leaf = FALSE
  /\ result = "none"
  /\ broken = {}
  /\ hand = files

Begin ==
  /\ ~leaf
  /\ leaf' = TRUE
  /\ result' = "none"
  /\ broken' = {}
  /\ UNCHANGED <<files, hand>>

\* All changes of the leaf appear at once.
Commit ==
  /\ leaf
  /\ leaf' = FALSE
  /\ result' = "done"
  /\ files' \in [Files -> Contents]
  /\ UNCHANGED <<broken, hand>>

\* One file keeps the leaf's bytes; it is on record.
Break(f) ==
  /\ leaf
  /\ \E c \in Contents : files' = [files EXCEPT ![f] = c]
  /\ broken' = broken \cup {f}
  /\ UNCHANGED <<leaf, result, hand>>

\* No file changes.
Fail ==
  /\ leaf
  /\ leaf' = FALSE
  /\ result' = "failed"
  /\ UNCHANGED <<files, broken, hand>>

\* The process died: anything may have been written.
Tear ==
  /\ leaf
  /\ leaf' = FALSE
  /\ result' = "torn"
  /\ files' \in [Files -> Contents]
  /\ UNCHANGED <<broken, hand>>

\* The leaf may already hold the file, and then the text does not show.
UserEdit(f) ==
  /\ \E c \in Contents :
       /\ hand' = [hand EXCEPT ![f] = c]
       /\ files' \in {files, [files EXCEPT ![f] = c]}
  /\ UNCHANGED <<leaf, result, broken>>

Next ==
  \/ Begin \/ Commit \/ Fail \/ Tear
  \/ \E f \in Files : Break(f) \/ UserEdit(f)

Spec == Init /\ [][Next]_vars
=============================================================================
