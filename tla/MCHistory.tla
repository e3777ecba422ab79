------------------------------ MODULE MCHistory ------------------------------
(***************************************************************************)
(* The runner with its auxiliary variables, and the claims the code does    *)
(* not keep, for TLC.                                                       *)
(***************************************************************************)
EXTENDS RunnerClaims, RunnerConfigs
=============================================================================
