---------------------------- MODULE RunnerTally ----------------------------
(***************************************************************************)
(* The runner keeps the promises of Tally: a crash followed by a rerun of    *)
(* the test looks like finding one more broken version, and nothing else.    *)
(* The sums set aside between the two belong to the open group all along.    *)
(***************************************************************************)
EXTENDS Runner

Sums == INSTANCE Tally WITH
    open       <- num_checked - prev_checked + saved_checked,
    broken     <- num_failed - prev_failed + saved_failed,
    checked    <- prev_checked,
    unexpected <- prev_failed,
    outcome    <- exit_code

(* Every run of checkasm_run() is a run of Tally: versions are counted once, *)
(* reported once, under the group's expectation, and the exit status follows *)
(* from what was reported (checkasm.c:582-601, 936-1013, 1100-1163).         *)
ImplementsTally == Sums!Spec
=============================================================================
