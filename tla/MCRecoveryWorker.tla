-------------------------- MODULE MCRecoveryWorker --------------------------
(* A small instance of RecoveryWorker for TLC. *)
EXTENDS RecoveryWorker

AllLegal == Mechanisms
TwoFiles == {"goal", "other"}
=============================================================================
