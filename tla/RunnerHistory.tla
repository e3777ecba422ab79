--------------------------- MODULE RunnerHistory ---------------------------
(***************************************************************************)
(* The runner with auxiliary variables that remember what the process       *)
(* itself forgets: which versions were checked since the last report and    *)
(* where, which versions crashed, and whether a reported group came out      *)
(* otherwise than it should.  They never influence a step.                   *)
(***************************************************************************)
EXTENDS Runner

VARIABLES
    group,    \* versions of the open report group, with the place of their check
    crashed,  \* <<function, key>> of every version that ever crashed
    wrong     \* a reported group had an unexpected outcome

historyVars == <<group, crashed, wrong>>

Reporting == ReportGroup \/ ReportRest
Added     == AllVersions(tree') \ AllVersions(tree)
Versioned(g) == { m.version : m \in g }
Broken(g) == { m \in g : VersionAt(m.version).state # "ok" }

HInit == Init /\ group = {} /\ crashed = {} /\ wrong = FALSE

HNext ==
    /\ Next
    /\ group' =
        IF Reporting /\ NewChecked # 0 THEN {}
        ELSE group \cup { [version |-> fv, at |-> ip] : fv \in Added }
    /\ crashed' =
        IF Recover /\ tree' # tree
        THEN crashed \cup {<<func_ver[1], VersionAt(func_ver).key>>}
        ELSE IF NextIteration THEN {} ELSE crashed
    /\ wrong' =
        IF Reporting /\ NewChecked # 0
        THEN wrong \/ Broken(group) # (IF should_fail THEN group ELSE {})
        ELSE wrong

HSpec == HInit /\ [][HNext]_<<vars, historyVars>> /\ WF_<<vars, historyVars>>(Step /\ HNext)

-----------------------------------------------------------------------------
(* The sums describe the open group exactly, at every moment and across any  *)
(* number of crashes and reruns: how many versions wait for a report, and    *)
(* how many of them are broken (checkasm.c:590-594, 962-963, 1122-1153).     *)
GroupIsCounted ==
    ~ cfg.skip_tests =>
        /\ num_checked + saved_checked - prev_checked = Cardinality(group)
        /\ num_failed + saved_failed - prev_failed = Cardinality(Broken(group))

(* Failures before a crash, and the crash itself, are reported by the        *)
(* checkasm_report() that closes the group they belong to, not by one the    *)
(* rerun passes earlier (checkasm.c:587-589).                                *)
RightReport ==
    [][ Reporting /\ NewChecked # 0 =>
          \A m \in group :
              /\ m.at < ip
              /\ \A i \in m.at .. ip - 1 : Tests[test].ops[i].kind # "report" ]_<<vars, historyVars>>

(* A function that crashed is never called again, neither in the rerun of    *)
(* its test nor as a reference in a later CPU's pass (checkasm.c:972-979).   *)
NoCallAfterCrash == Calling => <<func_ver[1], callee>> \notin crashed

(* The exit status tells whether any group had a result it should not have   *)
(* had: a failure, or a success in a block that should fail                  *)
(* (checkasm.c:846, 1126-1128; test.h:291-293).                              *)
ExitStatus ==
    pc = "done" /\ exit_code \in {"0", "1"} => (exit_code = "1" <=> wrong)
=============================================================================
