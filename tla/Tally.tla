------------------------------- MODULE Tally -------------------------------
(***************************************************************************)
(* What a run of checkasm promises to whoever reads its summary: versions   *)
(* are tested once, a tested version may turn out broken once, groups of    *)
(* them are closed by a report that either counts the broken ones or, where *)
(* failure is expected, the others, and the exit status tells whether        *)
(* anything was counted.  There are no crashes, no reruns and no signal      *)
(* handlers here.                                                            *)
(***************************************************************************)
EXTENDS Integers

VARIABLES
    open,        \* versions tested since the last report
    broken,      \* how many of them are broken
    checked,     \* versions reported
    unexpected,  \* unexpected results reported
    outcome      \* how the run ended

tallyVars == <<open, broken, checked, unexpected, outcome>>

Init ==
    open = 0 /\ broken = 0 /\ checked = 0 /\ unexpected = 0 /\ outcome = "running"

Running == outcome = "running"

TestVersion ==
    /\ Running
    /\ open' = open + 1
    /\ UNCHANGED <<broken, checked, unexpected, outcome>>

FindBroken ==
    /\ Running /\ broken < open
    /\ broken' = broken + 1
    /\ UNCHANGED <<open, checked, unexpected, outcome>>

(* An interrupted run still closes the group it is in.                       *)
CloseGroup ==
    /\ Running /\ open > 0
    /\ checked' = checked + open
    /\ unexpected' \in {unexpected + broken, unexpected + (open - broken)}
    /\ open' = 0 /\ broken' = 0
    /\ outcome' \in {"running", "signal"}

NewRun ==
    /\ Running /\ open = 0 /\ unexpected = 0
    /\ checked' = 0
    /\ UNCHANGED <<open, broken, unexpected, outcome>>

Conclude ==
    /\ Running /\ open = 0
    /\ outcome' = IF unexpected > 0 THEN "1" ELSE "0"
    /\ UNCHANGED <<open, broken, checked, unexpected>>

BeInterrupted ==
    /\ Running
    /\ outcome' = "signal"
    /\ UNCHANGED <<open, broken, checked, unexpected>>

Next == TestVersion \/ FindBroken \/ CloseGroup \/ NewRun \/ Conclude \/ BeInterrupted

Spec == Init /\ [][Next]_tallyVars
=============================================================================
