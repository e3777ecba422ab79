------------------------------ MODULE MCRunner ------------------------------
(***************************************************************************)
(* The runner and its refinement of Tally, for TLC.                         *)
(***************************************************************************)
EXTENDS RunnerTally, RunnerConfigs
=============================================================================
