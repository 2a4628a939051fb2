------------------------- MODULE MCGitOpsExecution --------------------------
(* Instances of GitOpsExecution for TLC.                                     *)
EXTENDS GitOpsExecution
=============================================================================
