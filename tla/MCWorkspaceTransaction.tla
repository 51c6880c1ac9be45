----------------------- MODULE MCWorkspaceTransaction -----------------------
(* A small instance of WorkspaceTransaction for TLC. *)
EXTENDS WorkspaceTransaction

BetweenRuns == {"between_runs"}
=============================================================================
