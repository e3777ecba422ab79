---------------------------- MODULE RunnerClaims ----------------------------
(***************************************************************************)
(* What comments and documentation say of the runner and the code does not   *)
(* do.  Each of these is violated by a run of its own.                       *)
(***************************************************************************)
EXTENDS RunnerHistory

(* "If we happen to be currently executing a test function, we should jump   *)
(* directly out of it" (signal.c:61): there is no jump when no test function *)
(* is executing, least of all into the frame of a check_cpu_flag() that has  *)
(* returned.                                                                 *)
JumpsOnlyOutOfTests == pc # "undefined"

(* stats is a "temporary buffer for function measurements" (checkasm.c:75)   *)
(* and current.cycles is "(re)set per function" (checkasm.c:90): what a      *)
(* measurement sums up was produced by the function it is recorded for.      *)
SamplesOfOneFunction ==
    [][BenchFinish => \A i \in DOMAIN samples : samples[i] = func_ver]_<<vars, historyVars>>

(* prev is the "previous function in current report group" (function.h:52):  *)
(* a walk along it, as checkasm_report() and checkasm_check_key() do it,     *)
(* comes to an end.                                                          *)
ChainsEnd == pc # "looping"
=============================================================================
