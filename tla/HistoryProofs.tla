--------------------------- MODULE HistoryProofs ---------------------------
(***************************************************************************)
(* What holds of the runner over a whole run, for every set of tests and     *)
(* whatever the functions under test do: it implements Tally, what a crash  *)
(* sets aside and what its rerun restores being one group all along; and of *)
(* its past, that the sums describe the open group, that a crash is reported *)
(* with the group it belongs to, and that what crashed is never called again.*)
(***************************************************************************)
EXTENDS RunnerHistory, RunnerTally, RunnerProofs

(* Outside of the tests, and whenever a crash is waiting for its rerun, the  *)
(* open group is empty: what was in it has been reported or set aside.       *)
Between == {"init", "flag", "test", "enter", "measure", "summary"}
SettledInv ==
    /\ exit_code = "running" <=> pc # "done"
    /\ prev_failed >= 0
    /\ saved_checked > 0 => NewChecked = 0
    /\ pc \in Between => NewChecked = 0

(* A run that only lists the functions calls none, so nothing fails.         *)
ListingInv ==
    cfg.skip_tests =>
        /\ func_ver = NoVersion /\ NewChecked = 0 /\ num_failed = 0 /\ prev_failed = 0
        /\ saved_checked = 0 /\ saved_failed = 0

TInv == SettledInv /\ ListingInv

(* What the runner's step is in Tally.                                       *)
Maps == [Sums!Next]_Sums!tallyVars

-----------------------------------------------------------------------------
(* The sums as numbers.                                                      *)
LEMMA SumTypes ==
    ASSUME IInv, KInv
    PROVE  /\ num_checked \in Int /\ num_failed \in Int /\ prev_checked \in Int
           /\ prev_failed \in Int /\ saved_checked \in Nat /\ saved_failed \in Nat
           /\ NewFailed \in 0 .. NewChecked /\ NewChecked \in Nat
           /\ saved_failed <= saved_checked
           /\ CrashedVersions = {} => saved_checked = 0 /\ saved_failed = 0
<1>1. /\ num_checked \in Int /\ num_failed \in Int /\ prev_checked \in Int /\ prev_failed \in Int
      /\ saved_checked \in Int /\ saved_failed \in Int
  BY DEF IInv, TypeOK
<1>2. /\ saved_checked > 0 <=> CrashedVersions # {}
      /\ saved_failed \in 0 .. saved_checked /\ NewFailed \in 0 .. NewChecked
  BY DEF KInv, SumsInv
<1> QED
  BY <1>1, <1>2 DEF NewChecked, NewFailed

(* A step that leaves the sums alone is none in Tally.                       *)
LEMMA QuietStep ==
    ASSUME IInv, KInv, TInv,
           UNCHANGED <<cfg, num_checked, num_failed, prev_checked, prev_failed, saved_checked,
                       saved_failed, func_ver, exit_code>>,
           pc' = "done" <=> pc = "done",
           pc' \in Between => pc \in Between \/ NewChecked = 0
    PROVE  TInv' /\ Maps
<1>1. NewChecked' = NewChecked
  BY DEF NewChecked
<1> QED
  BY <1>1 DEF TInv, SettledInv, ListingInv, Maps, Sums!tallyVars

(* The walk over CPUs and tests, and an interrupted one.                     *)
LEMMA RunTestsMaps ==
    ASSUME IInv, KInv, TInv, RunTests
    PROVE  TInv' /\ Maps
<1> USE DEF signalVars, loopVars, cpuVars, keyVars, sumVars, savedVars, statVars,
            currentVars, dataVars
<1>1. UNCHANGED <<cfg, num_checked, num_failed, prev_checked, prev_failed, saved_checked,
                  saved_failed, func_ver>>
  BY DEF RunTests, InitHooks, SkipCpu, EnterCpu, SkipTest, SaveContext, EnterTest, Measure,
         LeaveCpu, UninitHooks
<1>2. NewChecked' = NewChecked
  BY <1>1 DEF NewChecked
<1>3. pc \in Between
  BY DEF Between, RunTests, InitHooks, SkipCpu, EnterCpu, SkipTest, SaveContext, EnterTest,
         Measure, LeaveCpu, UninitHooks
<1>4. CASE exit_code' = exit_code /\ pc' # "done"
  BY <1>1, <1>2, <1>3, <1>4, QuietStep DEF Between
<1>5. CASE Measure /\ pc' = "done" /\ exit_code' = "signal"
  <2>1. TInv'
    BY <1>1, <1>2, <1>5 DEF TInv, SettledInv, ListingInv, Between
  <2>2. Sums!BeInterrupted
    BY <1>1, <1>3, <1>5 DEF Sums!BeInterrupted, Sums!Running, TInv, SettledInv, Between
  <2> QED
    BY <2>1, <2>2 DEF Maps, Sums!Next
<1> QED
  BY <1>4, <1>5 DEF RunTests, InitHooks, SkipCpu, EnterCpu, SkipTest, SaveContext, EnterTest,
                    Measure, LeaveCpu, UninitHooks, HandleInterrupt, Exit, SettledInv, TInv

(* fail_internal() finds one more broken version: in a block, the version    *)
(* that fails is counted in the open group, so its group has one that works. *)
LEMMA FailureMaps ==
    ASSUME IInv, KInv, TInv, IInv', KInv', FailInternal,
           Guarded, key_ref # NoKey, ip \in DOMAIN OpsNow, Op.kind \in BlockKinds,
           UNCHANGED <<cfg, func_ver, num_checked, prev_checked, prev_failed, saved_checked,
                       saved_failed, exit_code>>,
           pc # "done", pc' \notin Between \cup {"done"}
    PROVE  TInv' /\ Maps
<1>1. CrashedVersions = {} /\ Counted
  BY BlockFacts
<1>2. /\ saved_checked = 0 /\ saved_failed = 0 /\ NewChecked \in Nat /\ NewFailed \in 0 .. NewChecked
      /\ num_checked \in Int /\ num_failed \in Int /\ prev_checked \in Int /\ prev_failed \in Int
  BY <1>1, SumTypes
<1>3. CASE Fails
  <2>1. func_ver # NoVersion /\ VersionAt(func_ver).state = "ok" /\ num_failed' = num_failed + 1
    BY <1>3 DEF FailInternal, Fails
  <2>2. NewFailed < NewChecked
    BY <1>1, <2>1 DEF Counted
  <2>3. TInv'
    BY <1>2, <2>1 DEF TInv, SettledInv, ListingInv
  <2>4. Sums!FindBroken
    <3>1. exit_code = "running"
      BY DEF TInv, SettledInv
    <3> QED
      BY <1>2, <2>1, <2>2, <3>1 DEF Sums!FindBroken, Sums!Running, NewChecked, NewFailed
  <2> QED
    BY <2>3, <2>4 DEF Maps, Sums!Next
<1>4. CASE ~ Fails
  <2>1. num_failed' = num_failed
    BY <1>2, <1>4 DEF FailInternal
  <2> QED
    BY <2>1, QuietStep
<1> QED
  BY <1>3, <1>4

(* A crash sets the group aside with the version that crashed among its      *)
(* broken ones; in Tally nothing happens but that.                           *)
LEMMA RecoverMaps ==
    ASSUME IInv, KInv, TInv, IInv', KInv', Recover
    PROVE  TInv' /\ Maps
<1>1. CASE interrupted # None
  <2>1. /\ UNCHANGED <<cfg, num_checked, num_failed, prev_checked, prev_failed, saved_checked,
                       saved_failed, func_ver>>
        /\ pc = "recover" /\ pc' = "done" /\ exit_code' = "signal"
    BY <1>1 DEF Recover, HandleInterrupt, Exit, savedVars
  <2>2. TInv'
    BY <2>1 DEF TInv, SettledInv, ListingInv, NewChecked, Between
  <2>3. Sums!BeInterrupted
    BY <2>1 DEF Sums!BeInterrupted, Sums!Running, TInv, SettledInv
  <2> QED
    BY <2>2, <2>3 DEF Maps, Sums!Next
<1>2. CASE interrupted = None
  <2>1. /\ pc = "recover" /\ pc' = "enter" /\ func_ver # NoVersion /\ SetAside
        /\ UNCHANGED <<cfg, prev_checked, prev_failed, func_ver, exit_code>>
    BY <1>2 DEF Recover, HandleInterrupt
  <2>2. Guarded
    BY <1>2, <2>1 DEF Guarded
  <2>3. key_ref # NoKey /\ ip \in DOMAIN OpsNow /\ Op.kind \in BlockKinds
    BY <2>1, <2>2 DEF KInv, CallsInv
  <2>4. CrashedVersions = {} /\ Counted
    BY <2>2, <2>3, BlockFacts
  <2>5. /\ saved_checked = 0 /\ saved_failed = 0 /\ NewChecked \in Nat
        /\ NewFailed \in 0 .. NewChecked
        /\ num_checked \in Int /\ num_failed \in Int /\ prev_checked \in Int /\ prev_failed \in Int
    BY <2>4, SumTypes
  <2>6. TInv'
    BY <2>1, <2>5 DEF SetAside, TInv, SettledInv, ListingInv, NewChecked
  <2>7. /\ num_checked' - prev_checked' + saved_checked' = num_checked - prev_checked + saved_checked
        /\ num_failed' - prev_failed' + saved_failed'
              = num_failed - prev_failed + saved_failed + IF Fails THEN 1 ELSE 0
    BY <2>1, <2>5 DEF SetAside, Crashes
  <2>8. CASE Fails
    <3>1. NewFailed < NewChecked /\ exit_code = "running"
      BY <2>1, <2>4, <2>8 DEF Counted, Fails, TInv, SettledInv
    <3>2. Sums!FindBroken
      BY <2>1, <2>5, <2>7, <2>8, <3>1 DEF Sums!FindBroken, Sums!Running, NewChecked, NewFailed
    <3> QED
      BY <2>6, <3>2 DEF Maps, Sums!Next
  <2>9. CASE ~ Fails
    <3>1. UNCHANGED Sums!tallyVars
      BY <2>1, <2>5, <2>7, <2>9 DEF Sums!tallyVars
    <3> QED
      BY <2>6, <3>1 DEF Maps
  <2> QED
    BY <2>8, <2>9
<1> QED
  BY <1>1, <1>2

(* checkasm_check_key(): what was set aside is still what it was when it is  *)
(* restored, and only a new version is a step of Tally.                      *)
LEMMA CheckFuncMaps ==
    ASSUME IInv, KInv, TInv, IInv', KInv', CheckFunc
    PROVE  TInv' /\ Maps
<1> USE DEF signalVars, loopVars, cpuVars, keyVars, sumVars, savedVars, statVars,
            currentVars, dataVars
<1>0. /\ num_checked \in Int /\ num_failed \in Int /\ prev_checked \in Int /\ prev_failed \in Int
      /\ saved_checked \in Nat /\ saved_failed \in Nat /\ saved_failed <= saved_checked
  BY SumTypes
<1>1. pc = "body" /\ pc' \in {"body", "looping"} /\ UNCHANGED <<cfg, exit_code>>
  BY DEF CheckFunc, IgnoreKey, SkipKey, NewKey, LoopInCheck, LoopForever, InOp
<1>2. CASE IgnoreKey \/ LoopInCheck
  <2>1. UNCHANGED <<num_checked, num_failed, prev_checked, prev_failed, saved_checked,
                    saved_failed, func_ver>>
    BY <1>2 DEF IgnoreKey, LoopInCheck, LoopForever
  <2> QED
    BY <1>1, <2>1, QuietStep DEF Between
<1>3. CASE SkipKey
  <2> DEFINE f == Op.name
             key == Op.impl[cpu_flags]
  <2>1. /\ RestoreSaved(f, key) /\ UNCHANGED <<prev_checked, prev_failed>>
        /\ num_checked' = num_checked + SavedChecked(f, key)
        /\ num_failed' = num_failed + SavedFailed(f, key)
        /\ ~ Restored(f, key) => func_ver' = func_ver
        /\ InOp("check") /\ tree' = SettledTree(f, key)
    BY <1>3 DEF SkipKey
  <2> HIDE DEF f, key
  <2>2. CASE ~ Restored(f, key)
    <3>1. UNCHANGED <<num_checked, num_failed, saved_checked, saved_failed, func_ver>>
      BY <1>0, <2>1, <2>2 DEF RestoreSaved, SavedChecked, SavedFailed
    <3> QED
      BY <1>1, <2>1, <3>1, QuietStep DEF Between
  <2>3. CASE Restored(f, key)
    <3>1. /\ saved_checked' = 0 /\ saved_failed' = 0
          /\ num_checked' = num_checked + saved_checked
          /\ num_failed' = num_failed + saved_failed
      BY <2>1, <2>3 DEF RestoreSaved, SavedChecked, SavedFailed
    <3>2. f \in Names
      <4>1. test \in 1 .. Len(Tests)
        BY <1>1 DEF InTest, IInv, ControlInv
      <4> QED
        BY <2>1, <4>1, CheckOp DEF IInv, f
    <3>3. CrashedVersions # {}
      BY <2>1, <2>3, <3>2, RestoredAll DEF IInv, KInv
    <3>4. ~ cfg.skip_tests
      <4>1. saved_checked > 0
        BY <3>3 DEF KInv, SumsInv
      <4> QED
        BY <4>1 DEF TInv, ListingInv
    <3>5. TInv'
      BY <1>0, <1>1, <2>1, <3>1, <3>4 DEF TInv, SettledInv, ListingInv, Between
    <3>6. UNCHANGED Sums!tallyVars
      BY <1>0, <1>1, <2>1, <3>1 DEF Sums!tallyVars
    <3> QED
      BY <3>5, <3>6 DEF Maps
  <2> QED
    BY <2>2, <2>3
<1>4. CASE NewKey
  <2>1. /\ CrashedVersions = {} /\ UNCHANGED <<num_failed, saved_checked, saved_failed>>
        /\ ~ cfg.skip_tests => num_checked' = num_checked + 1
        /\ cfg.skip_tests => num_checked' = num_checked
    BY <1>4, NewKeyKeepsKInv
  <2>2. UNCHANGED <<prev_checked, prev_failed>> /\ (cfg.skip_tests => func_ver' = func_ver)
    BY <1>4 DEF NewKey
  <2>3. CASE cfg.skip_tests
    BY <1>1, <2>1, <2>2, <2>3, QuietStep DEF Between
  <2>4. CASE ~ cfg.skip_tests
    <3>1. saved_checked = 0
      BY <2>1, SumTypes
    <3>2. TInv'
      BY <1>1, <2>1, <2>2, <2>4, <3>1 DEF TInv, SettledInv, ListingInv, Between
    <3>3. Sums!TestVersion
      <4>1. exit_code = "running"
        BY <1>1 DEF TInv, SettledInv
      <4> QED
        BY <1>0, <1>1, <2>1, <2>2, <2>4, <4>1 DEF Sums!TestVersion, Sums!Running
    <3> QED
      BY <3>2, <3>3 DEF Maps, Sums!Next
  <2> QED
    BY <2>3, <2>4
<1> QED
  BY <1>2, <1>3, <1>4 DEF CheckFunc

(* The operations of a block: a comparison may find a broken version.        *)
LEMMA TestBlockMaps ==
    ASSUME IInv, KInv, TInv, IInv', KInv', TestBlock
    PROVE  TInv' /\ Maps
<1> USE DEF signalVars, loopVars, cpuVars, keyVars, sumVars, savedVars, statVars,
            currentVars, dataVars
<1>1. CASE Compare
  <2>1. /\ InOp("compare") /\ key_ref # NoKey /\ pc' = pc
        /\ UNCHANGED <<cfg, func_ver, num_checked, prev_checked, prev_failed, saved_checked,
                       saved_failed, exit_code>>
    BY <1>1 DEF Compare, InBlock
  <2>2. pc = "body" /\ ip \in DOMAIN OpsNow /\ Op.kind = "compare"
    BY <2>1, BlockOp
  <2>3. CASE FailInternal
    BY <2>1, <2>2, <2>3, FailureMaps DEF Guarded, BlockKinds, Between
  <2>4. CASE num_failed' = num_failed
    BY <2>1, <2>2, <2>4, QuietStep DEF Between
  <2> QED
    BY <1>1, <2>3, <2>4 DEF Compare
<1>2. CASE SkipBlock \/ CallRef \/ CallNew \/ CallInsteadOfBench
  <2>1. /\ UNCHANGED <<cfg, num_checked, num_failed, prev_checked, prev_failed, saved_checked,
                       saved_failed, func_ver, exit_code>>
        /\ pc = "body" /\ pc' \in {"body", "call", "checked"}
    BY <1>2 DEF SkipBlock, CallRef, CallNew, CallInsteadOfBench, Call, InBlock, InOp
  <2> QED
    BY <2>1, QuietStep DEF Between
<1> QED
  BY <1>1, <1>2 DEF TestBlock

(* Benchmarks count no version.                                              *)
LEMMA BenchMaps ==
    ASSUME IInv, KInv, TInv, Bench
    PROVE  TInv' /\ Maps
<1> USE DEF signalVars, loopVars, cpuVars, keyVars, sumVars, savedVars, statVars,
            currentVars, dataVars
<1>1. /\ UNCHANGED <<cfg, num_checked, num_failed, prev_checked, prev_failed, saved_checked,
                     saved_failed, func_ver, exit_code>>
      /\ pc \in {"body", "arm", "bench"} /\ pc' \in {"body", "arm", "bench"}
  BY DEF Bench, BenchStart, BenchArm, BenchSample, BenchFinish, Call, InBlock, InOp
<1> QED
  BY <1>1, QuietStep DEF Between

(* A call that clobbers a register fails before it jumps.                    *)
LEMMA CalleeMaps ==
    ASSUME IInv, KInv, TInv, IInv', KInv', Callee
    PROVE  TInv' /\ Maps
<1> USE DEF signalVars, loopVars, cpuVars, keyVars, sumVars, savedVars, statVars,
            currentVars, dataVars
<1>1. CASE FailAbort
  <2>1. /\ pc = "checked" /\ pc' \in {"recover", "undefined"} /\ FailInternal
        /\ UNCHANGED <<cfg, func_ver, num_checked, prev_checked, prev_failed, saved_checked,
                       saved_failed, exit_code>>
    BY <1>1 DEF FailAbort, LoadContext
  <2>2. Guarded /\ key_ref # NoKey /\ ip \in DOMAIN OpsNow /\ Op.kind \in BlockKinds
    BY <2>1, CallFacts DEF Calls, Guarded
  <2> QED
    BY <2>1, <2>2, FailureMaps DEF Between
<1>2. CASE Return \/ Crash
  <2>1. /\ UNCHANGED <<cfg, num_checked, num_failed, prev_checked, prev_failed, saved_checked,
                       saved_failed, func_ver, exit_code>>
        /\ pc \in Calls /\ pc' \in {"body", "recover", "undefined", "killed"}
    BY <1>2 DEF Return, Crash, Executing, Calling, Calls, JumpOut, LoadContext
  <2> QED
    BY <2>1, QuietStep DEF Between, Calls
<1> QED
  BY <1>1, <1>2 DEF Callee

(* checkasm_report() closes the group, or there is nothing in it to report.  *)
LEMMA ReportMaps ==
    ASSUME IInv, KInv, TInv, NEW label, NEW next \in {"body", "measure"},
           pc = "body", Report(label, next)
    PROVE  TInv' /\ Maps
<1> USE DEF signalVars, loopVars, cpuVars, keyVars, sumVars, savedVars, statVars
<1>1. /\ num_failed' = prev_failed + GroupFailures /\ prev_checked' = num_checked
      /\ prev_failed' = IF NewChecked # 0 THEN num_failed' ELSE prev_failed
      /\ UNCHANGED <<cfg, num_checked, saved_checked, saved_failed, func_ver>>
      /\ \/ pc' = next /\ exit_code' = exit_code
         \/ pc' = "done" /\ exit_code' = "signal"
  BY DEF Report, HandleInterrupt, Exit
<1>2. /\ num_checked \in Int /\ num_failed \in Int /\ prev_checked \in Int /\ prev_failed \in Int
      /\ saved_checked \in Nat /\ saved_failed \in Nat
      /\ NewFailed \in 0 .. NewChecked /\ NewChecked \in Nat /\ saved_failed <= saved_checked
  BY SumTypes
<1>3. exit_code = "running" /\ prev_failed >= 0 /\ (NewChecked # 0 => saved_checked = 0)
  BY <1>2 DEF TInv, SettledInv
<1>4. /\ GroupFailures \in {NewFailed, NewChecked - NewFailed}
      /\ NewChecked = 0 => GroupFailures = 0
  BY <1>2 DEF GroupFailures
<1>5. NewChecked' = 0
  BY <1>1, <1>2 DEF NewChecked
<1>6. TInv'
  <2>1. SettledInv'
    BY <1>1, <1>2, <1>3, <1>4, <1>5 DEF SettledInv, Between
  <2>2. cfg.skip_tests => num_failed' = 0 /\ prev_failed' = 0
    BY <1>1, <1>2, <1>4 DEF TInv, ListingInv
  <2> QED
    BY <1>1, <1>5, <2>1, <2>2 DEF TInv, ListingInv
<1>7. CASE NewChecked # 0
  <2>1. Sums!CloseGroup
    BY <1>1, <1>2, <1>3, <1>4, <1>7 DEF Sums!CloseGroup, Sums!Running, NewChecked, NewFailed
  <2> QED
    BY <1>6, <2>1 DEF Maps, Sums!Next
<1>8. CASE NewChecked = 0
  <2>1. UNCHANGED <<num_checked - prev_checked + saved_checked,
                    num_failed - prev_failed + saved_failed, prev_checked, prev_failed>>
    BY <1>1, <1>2, <1>4, <1>8 DEF NewChecked, NewFailed
  <2>2. CASE exit_code' = exit_code
    BY <1>6, <2>1, <2>2 DEF Maps, Sums!tallyVars
  <2>3. CASE exit_code' = "signal"
    <3>1. Sums!BeInterrupted
      BY <1>3, <2>1, <2>3 DEF Sums!BeInterrupted, Sums!Running
    <3> QED
      BY <1>6, <3>1 DEF Maps, Sums!Next
  <2> QED
    BY <1>1, <2>2, <2>3
<1> QED
  BY <1>7, <1>8

(* Reports, and the expectation of failure.                                  *)
LEMMA ReportsMap ==
    ASSUME IInv, KInv, TInv, Reports
    PROVE  TInv' /\ Maps
<1> USE DEF signalVars, loopVars, cpuVars, keyVars, sumVars, savedVars, statVars,
            currentVars, dataVars
<1>1. pc = "body"
  BY DEF Reports, ShouldFail, ReportGroup, ReportRest, LoopInReport, InOp
<1>2. CASE ReportGroup \/ ReportRest
  BY <1>1, <1>2, ReportMaps DEF ReportGroup, ReportRest
<1>3. CASE ShouldFail \/ LoopInReport
  <2>1. /\ UNCHANGED <<cfg, num_checked, num_failed, prev_checked, prev_failed, saved_checked,
                       saved_failed, func_ver, exit_code>>
        /\ pc' \in {"body", "looping"}
    BY <1>1, <1>3 DEF ShouldFail, LoopInReport, LoopForever
  <2> QED
    BY <1>1, <2>1, QuietStep DEF Between
<1> QED
  BY <1>2, <1>3 DEF Reports

(* The end of the run, or of an iteration: the exit status says whether      *)
(* anything unexpected was reported, and the next iteration starts afresh.   *)
LEMMA SummaryMaps ==
    ASSUME IInv, KInv, TInv, Summary
    PROVE  TInv' /\ Maps
<1> USE DEF signalVars, loopVars, cpuVars, keyVars, sumVars, savedVars, statVars,
            currentVars, dataVars
<1>1. /\ num_checked \in Int /\ num_failed \in Int /\ prev_checked \in Int /\ prev_failed \in Int
      /\ NewFailed \in 0 .. NewChecked /\ NewChecked \in Nat /\ pc = "summary"
  BY SumTypes DEF Summary, Finish, NextIteration
<1>2. /\ exit_code = "running" /\ prev_failed >= 0
      /\ num_checked = prev_checked /\ num_failed = prev_failed
  BY <1>1 DEF TInv, SettledInv, Between, NewChecked, NewFailed
<1>3. saved_checked = 0 /\ saved_failed = 0
  <2>1. CrashedVersions = {}
    BY <1>1 DEF KInv, RerunInv, Final
  <2> QED
    BY <2>1, SumTypes
<1>4. CASE Finish
  <2>1. /\ pc' = "done"
        /\ exit_code' = IF cfg.skip_tests \/ num_failed = 0 THEN "0" ELSE "1"
        /\ UNCHANGED <<cfg, num_checked, num_failed, prev_checked, prev_failed, saved_checked,
                       saved_failed, func_ver>>
    BY <1>4 DEF Finish, Exit
  <2>2. cfg.skip_tests => num_failed = 0
    BY DEF TInv, ListingInv
  <2>3. TInv'
    BY <1>2, <1>3, <2>1 DEF TInv, SettledInv, ListingInv, Between, NewChecked
  <2>4. Sums!Conclude
    BY <1>1, <1>2, <1>3, <2>1, <2>2 DEF Sums!Conclude, Sums!Running
  <2> QED
    BY <2>3, <2>4 DEF Maps, Sums!Next
<1>5. CASE NextIteration
  <2>1. /\ pc' = "init" /\ exit_code' = exit_code /\ cfg' = cfg /\ func_ver' = NoVersion
        /\ num_failed = 0 /\ ClearSums
    BY <1>5 DEF NextIteration, ClearPointers
  <2>2. TInv'
    BY <1>2, <2>1 DEF TInv, SettledInv, ListingInv, ClearSums, NewChecked
  <2>3. Sums!NewRun
    BY <1>1, <1>2, <1>3, <2>1 DEF ClearSums, Sums!NewRun, Sums!Running
  <2> QED
    BY <2>2, <2>3 DEF Maps, Sums!Next
<1> QED
  BY <1>4, <1>5 DEF Summary

(* A user's signal counts nothing.                                           *)
LEMMA InterruptMaps ==
    ASSUME IInv, KInv, TInv, \E s \in Interrupts : Interrupt(s)
    PROVE  TInv' /\ Maps
<1> USE DEF signalVars, loopVars, cpuVars, keyVars, sumVars, savedVars, statVars,
            currentVars, dataVars
<1>1. /\ UNCHANGED <<cfg, num_checked, num_failed, prev_checked, prev_failed, saved_checked,
                     saved_failed, func_ver, exit_code>>
      /\ pc \notin Final /\ pc' \in {pc, "killed", "recover", "undefined"}
  BY DEF Interrupt, InterruptJump, JumpOut, LoadContext
<1> QED
  BY <1>1, QuietStep DEF Between, Final

(* Every step of the runner is a step of Tally, or none.                     *)
LEMMA StepMaps ==
    ASSUME IInv, KInv, TInv, IInv', KInv', [Next]_vars
    PROVE  TInv' /\ Maps
<1>1. CASE Step
  BY <1>1, RunTestsMaps, RecoverMaps, CheckFuncMaps, TestBlockMaps, BenchMaps, CalleeMaps,
     ReportsMap, SummaryMaps DEF Step
<1>2. CASE \E s \in Interrupts : Interrupt(s)
  BY <1>2, InterruptMaps
<1>3. CASE UNCHANGED vars
  <2>1. UNCHANGED <<cfg, num_checked, num_failed, prev_checked, prev_failed, saved_checked,
                    saved_failed, func_ver, exit_code, pc>>
    BY <1>3 DEF vars, signalVars, loopVars, cpuVars, keyVars, sumVars, savedVars, statVars,
                currentVars, dataVars
  <2> QED
    BY <2>1, QuietStep
<1> QED
  BY <1>1, <1>2, <1>3 DEF Next, Hang, Terminated

(* checkasm_run() starts as Tally does.                                      *)
LEMMA InitMaps ==
    ASSUME Init
    PROVE  TInv /\ Sums!Init
<1>1. TInv
  BY DEF Init, Cleared, TInv, SettledInv, ListingInv, NewChecked
<1>2. Sums!Init
  BY DEF Init, Cleared, Sums!Init
<1> QED
  BY <1>1, <1>2

(* So what the open group holds is settled between the tests.                *)
LEMMA TallyInvariance == Spec => [](IInv /\ KInv /\ TInv)
BY InitMaps, StepMaps, SumsInvariance, PTL DEF Spec

-----------------------------------------------------------------------------
(* The theorem.                                                              *)

(* Every run of checkasm_run(), with any crashes, reruns and interrupts, is  *)
(* a run of Tally: each version is counted once and reported in one group,   *)
(* a crash is one more broken version of its group, and the exit status      *)
(* follows from what was reported (checkasm.c:582-601, 936-1013, 1100-1163). *)
THEOREM RunnerImplementsTally == Spec => ImplementsTally
<1>1. Init => TInv /\ Sums!Init
  BY InitMaps
<1>2. IInv /\ KInv /\ TInv /\ IInv' /\ KInv' /\ [Next]_vars => [Sums!Next]_Sums!tallyVars
  BY StepMaps DEF Maps
<1> QED
  BY <1>1, <1>2, TallyInvariance, PTL DEF Spec, ImplementsTally, Sums!Spec

-----------------------------------------------------------------------------

(* What the sums say of the open group, be it set aside or not.              *)
OpenNow   == num_checked + saved_checked - prev_checked
BrokenNow == num_failed + saved_failed - prev_failed

(* Members of the group name versions of the registry, each version once.    *)
Member(m) ==
    /\ m = [version |-> m.version, at |-> m.at]
    /\ m.version \in AllVersions(tree) /\ m.at \in Nat \ {0}
GroupInv ==
    ~ cfg.skip_tests =>
        /\ IsFiniteSet(group)
        /\ \A m \in group : Member(m)
        /\ \A m, n \in group : m.version = n.version => m = n
        /\ OpenNow = Cardinality(group)
        /\ BrokenNow = Cardinality(Broken(group))

(* m was recorded by a check, and nothing was reported from there to q.      *)
OpenSince(m, q) ==
    /\ m.at <= q /\ OpsNow[m.at].kind = "check"
    /\ \A i \in m.at .. q : OpsNow[i].kind # "report"
PlaceInv ==
    ~ cfg.skip_tests /\ NewChecked # 0 /\ pc \in InTest =>
        \A m \in group : OpenSince(m, ip - 1)

(* No check of the test before c ever walks as far as fv.                    *)
FirstMet(c, fv) ==
    \A p \in 1 .. c - 1 :
        Asks(p) /\ OpsNow[p].name = fv[1] =>
            \E j \in 1 .. fv[2] - 1 : StopsAt(tree[fv[1]].versions[j], KeyAt(p))

(* In a block, func_ver waits for the report of the open group.              *)
WaitsInv ==
    Guarded /\ key_ref # NoKey =>
        \E c \in 1 .. ip - 1 :
            /\ OpsNow[c].kind = "check" /\ FirstMet(c, func_ver)
            /\ \A p \in c + 1 .. ip - 1 : OpsNow[p].kind # "check"
            /\ Waiting(c) => \E m \in group : m.version = func_ver

(* What was set aside waits for the check that recorded the crashed version, *)
(* and no report comes before that one.                                      *)
AsideInv ==
    \A fv \in CrashedVersions :
        pc \in {"enter", "body"} /\ interrupted = None =>
            \E c \in DOMAIN OpsNow :
                /\ Culprit(c, fv) /\ FirstMet(c, fv)
                /\ \A m \in group : OpenSince(m, c)
                /\ pc = "body" => ip <= c

(* A version that crashed does not work, and no other version of its         *)
(* function has its key.                                                     *)
DistinctKeys ==
    \A v, w \in AllVersions(tree) :
        v[1] = w[1] /\ VersionAt(v).key = VersionAt(w).key => v = w
CrashedVersion(x, v) == x = <<v[1], VersionAt(v).key>> /\ VersionAt(v).state # "ok"
CrashedInv ==
    /\ DistinctKeys
    /\ \A x \in crashed : \E v \in AllVersions(tree) : CrashedVersion(x, v)
    /\ Guarded /\ key_ref # NoKey =>
          <<func_ver[1], key_ref>> \notin crashed /\ <<func_ver[1], key_new>> \notin crashed
    /\ Calling => callee \in {key_ref, key_new}

(* Something was counted as unexpected if and only if a group was wrong.     *)
WrongInv ==
    /\ wrong <=> prev_failed > 0
    /\ exit_code \in {"0", "1"} => (exit_code = "1" <=> prev_failed > 0)

HistoryInv == GroupInv /\ PlaceInv /\ WaitsInv /\ AsideInv /\ CrashedInv /\ WrongInv

-----------------------------------------------------------------------------
(* What a step does to the registry and to the open group.                   *)

Works(t, w) == t[w[1]].versions[w[2]].state = "ok"

(* No version is added, none is lost, and those work that did.               *)
Leaves ==
    /\ AllVersions(tree') = AllVersions(tree)
    /\ \A w \in AllVersions(tree) : Works(tree', w) <=> Works(tree, w)
    /\ OpenNow' = OpenNow /\ BrokenNow' = BrokenNow

(* In a block, the version that the last check recorded ceases to work.      *)
FindsBroken ==
    /\ Guarded /\ key_ref # NoKey /\ ip \in DOMAIN OpsNow /\ Op.kind \in BlockKinds
    /\ func_ver \in AllVersions(tree) /\ Works(tree, func_ver) /\ ~ Works(tree', func_ver)
    /\ AllVersions(tree') = AllVersions(tree)
    /\ \A w \in AllVersions(tree) : w # func_ver => (Works(tree', w) <=> Works(tree, w))
    /\ OpenNow' = OpenNow /\ BrokenNow' = BrokenNow + 1

(* A step that changes no version's state finds none broken.                 *)
LEMMA SameStatesLeave ==
    ASSUME SameStates(tree, tree'), OpenNow' = OpenNow, BrokenNow' = BrokenNow
    PROVE  Extends(tree, tree') /\ Leaves
<1>1. Extends(tree, tree')
  BY SameStatesExtend
<1>2. AllVersions(tree') = AllVersions(tree)
  BY SameVersions
<1>3. ASSUME NEW w \in AllVersions(tree) PROVE Works(tree', w) <=> Works(tree, w)
  <2>1. VersionAt(w)'.state = VersionAt(w).state
    BY SameVersions
  <2> QED
    BY <2>1 DEF Works, VersionAt
<1> QED
  BY <1>1, <1>2, <1>3 DEF Leaves

(* fail_internal() in a block (checkasm.c:1054-1067).                        *)
LEMMA FailureEffect ==
    ASSUME IInv, KInv, FailInternal,
           Guarded, key_ref # NoKey, ip \in DOMAIN OpsNow, Op.kind \in BlockKinds,
           UNCHANGED <<func_ver, num_checked, prev_checked, prev_failed, saved_checked,
                       saved_failed>>
    PROVE  Extends(tree, tree') /\ (Leaves \/ FindsBroken)
<1>1. num_failed \in Int /\ prev_failed \in Int /\ saved_failed \in Int
  BY SumTypes
<1>2. CASE Fails
  <2>1. /\ func_ver \in AllVersions(tree) /\ tree' = SetState(tree, func_ver, "failed")
        /\ VersionAt(func_ver).state = "ok" /\ num_failed' = num_failed + 1
    BY <1>2 DEF FailInternal, Fails, IInv, TypeOK
  <2>2. /\ Extends(tree, tree') /\ AllVersions(tree') = AllVersions(tree)
        /\ VersionAt(func_ver)'.state = "failed"
        /\ \A w \in AllVersions(tree) : w # func_ver => VersionAt(w)' = VersionAt(w)
    BY <2>1, SetStateFacts DEF IInv
  <2>3. ASSUME NEW w \in AllVersions(tree), w # func_ver
        PROVE  Works(tree', w) <=> Works(tree, w)
    <3>1. VersionAt(w)' = VersionAt(w)
      BY <2>2, <2>3
    <3> QED
      BY <3>1 DEF Works, VersionAt
  <2>4. Works(tree, func_ver) /\ ~ Works(tree', func_ver)
    BY <2>1, <2>2 DEF Works, VersionAt
  <2>5. OpenNow' = OpenNow /\ BrokenNow' = BrokenNow + 1
    BY <1>1, <2>1 DEF OpenNow, BrokenNow
  <2> QED
    BY <2>1, <2>2, <2>3, <2>4, <2>5 DEF FindsBroken
<1>3. CASE ~ Fails
  <2>1. tree' = tree /\ num_failed' = num_failed
    BY <1>1, <1>3 DEF FailInternal
  <2>2. OpenNow' = OpenNow /\ BrokenNow' = BrokenNow
    BY <2>1 DEF OpenNow, BrokenNow
  <2> QED
    BY <2>1, <2>2, SameTreeSameStates, SameStatesLeave
<1> QED
  BY <1>2, <1>3

(* A crash is a failure that is set aside together with its group.           *)
LEMMA RecoverEffect ==
    ASSUME IInv, KInv, Recover
    PROVE  Extends(tree, tree') /\ (Leaves \/ FindsBroken)
<1>1. CASE interrupted # None
  <2>1. tree' = tree /\ OpenNow' = OpenNow /\ BrokenNow' = BrokenNow
    BY <1>1 DEF Recover, savedVars, OpenNow, BrokenNow
  <2> QED
    BY <2>1, SameTreeSameStates, SameStatesLeave
<1>2. CASE interrupted = None
  <2>1. /\ pc = "recover" /\ func_ver \in AllVersions(tree) /\ func_ver # NoVersion /\ SetAside
        /\ tree' = SetState(tree, func_ver, "crashed")
        /\ UNCHANGED <<prev_checked, prev_failed, func_ver>>
    BY <1>2 DEF Recover, IInv, TypeOK
  <2>2. Guarded
    BY <1>2, <2>1 DEF Guarded
  <2>3. key_ref # NoKey /\ ip \in DOMAIN OpsNow /\ Op.kind \in BlockKinds
    BY <2>1, <2>2 DEF KInv, CallsInv
  <2>4. CrashedVersions = {}
    BY <2>2, <2>3, BlockFacts
  <2>5. /\ num_checked \in Int /\ num_failed \in Int /\ prev_checked \in Int /\ prev_failed \in Int
        /\ saved_checked = 0 /\ saved_failed = 0
    BY <2>4, SumTypes
  <2>6. /\ Extends(tree, tree') /\ AllVersions(tree') = AllVersions(tree)
        /\ VersionAt(func_ver)'.state = "crashed"
        /\ \A w \in AllVersions(tree) : w # func_ver => VersionAt(w)' = VersionAt(w)
    BY <2>1, SetStateFacts DEF IInv
  <2>7. ASSUME NEW w \in AllVersions(tree), w # func_ver
        PROVE  Works(tree', w) <=> Works(tree, w)
    <3>1. VersionAt(w)' = VersionAt(w)
      BY <2>6, <2>7
    <3> QED
      BY <3>1 DEF Works, VersionAt
  <2>8. ~ Works(tree', func_ver)
    BY <2>1, <2>6 DEF Works, VersionAt
  <2>9. OpenNow' = OpenNow /\ BrokenNow' = BrokenNow + IF Fails THEN 1 ELSE 0
    BY <2>1, <2>5 DEF SetAside, Crashes, OpenNow, BrokenNow
  <2>10. CASE Fails
    <3>1. Works(tree, func_ver)
      BY <2>10 DEF Fails, Works, VersionAt
    <3> QED
      BY <2>1, <2>2, <2>3, <2>6, <2>7, <2>8, <2>9, <2>10, <3>1 DEF FindsBroken
  <2>11. CASE ~ Fails
    <3>1. ~ Works(tree, func_ver)
      BY <2>1, <2>11 DEF Fails, Works, VersionAt
    <3>2. BrokenNow' = BrokenNow
      BY <2>5, <2>9, <2>11 DEF BrokenNow
    <3> QED
      BY <2>6, <2>7, <2>8, <2>9, <3>1, <3>2 DEF Leaves
  <2> QED
    BY <2>10, <2>11
<1> QED
  BY <1>1, <1>2

(* A walk over a function's versions that meets the key: a crashed version   *)
(* becomes a failed one (checkasm.c:946-970).                                *)
LEMMA SkipKeyEffect ==
    ASSUME IInv, KInv, SkipKey
    PROVE  Extends(tree, tree') /\ Leaves
<1> DEFINE f == Op.name
           key == Op.impl[cpu_flags]
<1>1. /\ InOp("check") /\ RestoreSaved(f, key) /\ tree' = SettledTree(f, key)
      /\ num_checked' = num_checked + SavedChecked(f, key)
      /\ num_failed' = num_failed + SavedFailed(f, key)
      /\ UNCHANGED <<prev_checked, prev_failed>>
  BY DEF SkipKey
<1>2. f \in Names
  <2>1. test \in 1 .. Len(Tests)
    BY <1>1 DEF InOp, InTest, IInv, ControlInv
  <2> QED
    BY <1>1, <2>1, CheckOp DEF IInv
<1> HIDE DEF f, key
<1>3. Extends(tree, tree') /\ AllVersions(tree') = AllVersions(tree)
  BY <1>1, <1>2, SettledFacts DEF IInv
<1>4. OpenNow' = OpenNow /\ BrokenNow' = BrokenNow
  <2>1. /\ num_checked \in Int /\ num_failed \in Int /\ prev_checked \in Int /\ prev_failed \in Int
        /\ saved_checked \in Int /\ saved_failed \in Int
    BY SumTypes
  <2> QED
    BY <1>1, <2>1 DEF RestoreSaved, SavedChecked, SavedFailed, savedVars, OpenNow, BrokenNow
<1>5. ASSUME NEW w \in AllVersions(tree) PROVE Works(tree', w) <=> Works(tree, w)
  <2>1. w[1] \in Names /\ w[2] \in DOMAIN tree[w[1]].versions
    BY PlaceFacts DEF IInv
  <2>2. CASE w[1] = f
    <3>1. tree'[f].versions = Settle(tree[f].versions, key) /\ tree[f].versions \in Seq(Version)
      BY <1>1, <1>2, SettledFacts DEF IInv, TypeOK, Func
    <3>2. CASE tree[f].versions[w[2]].state # "crashed"
      BY <2>1, <2>2, <3>1, <3>2, SettleKeepsPlaces DEF Works
    <3>3. CASE tree[f].versions[w[2]].state = "crashed"
      BY <1>3, <2>1, <2>2, <3>3 DEF Works, Extends
    <3> QED
      BY <3>2, <3>3
  <2>3. CASE w[1] # f
    BY <1>1, <1>2, <2>1, <2>3, SettledFacts DEF IInv, Works
  <2> QED
    BY <2>2, <2>3
<1> QED
  BY <1>3, <1>4, <1>5 DEF Leaves

(* A report of an empty group, at whatever expectation.                      *)
LEMMA EmptyReportEffect ==
    ASSUME IInv, KInv, NEW label, NEW next, Report(label, next), NewChecked = 0
    PROVE  Extends(tree, tree') /\ Leaves
<1>1. SameStates(tree, tree')
  BY ReportSameStates
<1>2. /\ num_failed' = prev_failed + GroupFailures /\ prev_checked' = num_checked
      /\ prev_failed' = prev_failed
      /\ UNCHANGED <<num_checked, saved_checked, saved_failed>>
  BY DEF Report, savedVars
<1>3. /\ num_checked \in Int /\ num_failed \in Int /\ prev_checked \in Int /\ prev_failed \in Int
      /\ saved_checked \in Int /\ saved_failed \in Int /\ NewFailed \in 0 .. NewChecked
  BY SumTypes
<1>4. GroupFailures = 0 /\ num_checked = prev_checked /\ num_failed = prev_failed
  BY <1>3 DEF GroupFailures, NewChecked, NewFailed
<1>5. OpenNow' = OpenNow /\ BrokenNow' = BrokenNow
  BY <1>2, <1>3, <1>4 DEF OpenNow, BrokenNow
<1> QED
  BY <1>1, <1>5, SameStatesLeave

(* A step that closes a group.                                               *)
Closes == Reporting /\ NewChecked # 0

(* Every other step leaves the registry's versions, and finds one broken or  *)
(* none; but for the check that adds one, and the next iteration.            *)
LEMMA OtherSteps ==
    ASSUME IInv, KInv, [Next]_vars, ~ NewKey, ~ NextIteration, ~ Closes
    PROVE  Extends(tree, tree') /\ (Leaves \/ FindsBroken)
<1> USE DEF signalVars, loopVars, cpuVars, keyVars, sumVars, savedVars, statVars,
            currentVars, dataVars
<1>0. CASE UNCHANGED <<tree, num_checked, num_failed, prev_checked, prev_failed, saved_checked,
                       saved_failed>>
  <2>1. OpenNow' = OpenNow /\ BrokenNow' = BrokenNow
    BY <1>0 DEF OpenNow, BrokenNow
  <2> QED
    BY <1>0, <2>1, SameTreeSameStates, SameStatesLeave
<1>1. CASE UNCHANGED vars \/ Hang \/ Terminated \/ \E s \in Interrupts : Interrupt(s)
  BY <1>0, <1>1 DEF Hang, Terminated, Interrupt, vars
<1>2. CASE RunTests
  BY <1>0, <1>2 DEF RunTests, InitHooks, SkipCpu, EnterCpu, SkipTest, SaveContext, EnterTest,
                    Measure, LeaveCpu, UninitHooks
<1>3. CASE Recover
  BY <1>3, RecoverEffect
<1>4. CASE IgnoreKey \/ LoopInCheck
  BY <1>0, <1>4 DEF IgnoreKey, LoopInCheck, LoopForever
<1>5. CASE SkipKey
  BY <1>5, SkipKeyEffect
<1>6. CASE TestBlock
  <2>1. CASE Compare
    <3>1. pc = "body" /\ key_ref # NoKey /\ ip \in DOMAIN OpsNow /\ Op.kind = "compare"
      BY <2>1, BlockOp DEF Compare, InBlock
    <3>2. CASE FailInternal
      BY <2>1, <3>1, <3>2, FailureEffect DEF Compare, Guarded, BlockKinds
    <3>3. CASE UNCHANGED <<tree, num_failed>>
      BY <1>0, <2>1, <3>3 DEF Compare
    <3> QED
      BY <2>1, <3>2, <3>3 DEF Compare
  <2> QED
    BY <1>0, <1>6, <2>1 DEF TestBlock, SkipBlock, CallRef, CallNew, CallInsteadOfBench, Call
<1>7. CASE Bench
  <2>1. SameStates(tree, tree')
    BY <1>7, BenchSameStates
  <2>2. OpenNow' = OpenNow /\ BrokenNow' = BrokenNow
    BY <1>7 DEF Bench, BenchStart, BenchArm, BenchSample, BenchFinish, Call, OpenNow, BrokenNow
  <2> QED
    BY <2>1, <2>2, SameStatesLeave
<1>8. CASE Callee
  <2>1. CASE FailAbort
    <3>1. Guarded /\ key_ref # NoKey /\ ip \in DOMAIN OpsNow /\ Op.kind \in BlockKinds
      BY <2>1, CallFacts DEF FailAbort, Calls, Guarded
    <3> QED
      BY <2>1, <3>1, FailureEffect DEF FailAbort
  <2> QED
    BY <1>0, <1>8, <2>1 DEF Callee, Return, Crash
<1>9. CASE Reports
  <2>1. CASE Reporting
    <3>1. \E label, next : Report(label, next)
      BY <2>1 DEF Reporting, ReportGroup, ReportRest
    <3> QED
      BY <2>1, <3>1, EmptyReportEffect DEF Closes
  <2> QED
    BY <1>0, <1>9, <2>1 DEF Reports, Reporting, ShouldFail, LoopInReport, LoopForever
<1>10. CASE Finish
  BY <1>0, <1>10 DEF Finish
<1> QED
  BY <1>1, <1>2, <1>3, <1>4, <1>5, <1>6, <1>7, <1>8, <1>9, <1>10
     DEF Next, Step, CheckFunc, Summary

(* Whatever is appended extends the registry.                                *)
LEMMA AddedExtends ==
    ASSUME IInv, IInv', NEW fv, AddsVersion(fv)
    PROVE  Extends(tree, tree')
<1> SUFFICES ASSUME NEW n \in Names, NEW i \in DOMAIN tree[n].versions
             PROVE  /\ i \in DOMAIN tree'[n].versions
                    /\ tree'[n].versions[i] = tree[n].versions[i]
  BY DEF Extends
<1>1. <<n, i>> \in AllVersions(tree)
  BY MemberOfAllVersions
<1>2. tree'[n].versions[i] = tree[n].versions[i] /\ <<n, i>> \in AllVersions(tree')
  BY <1>1 DEF AddsVersion
<1> QED
  BY <1>2, MemberOfAllVersions

(* Reports change no version's state.                                        *)
LEMMA ClosingExtends ==
    ASSUME IInv, Closes
    PROVE  SameStates(tree, tree')
<1>1. \E label, next : Report(label, next)
  BY DEF Closes, Reporting, ReportGroup, ReportRest
<1> QED
  BY <1>1, ReportSameStates

(* So within an iteration versions only come, and those that do not work     *)
(* never work again.                                                         *)
LEMMA StepExtends ==
    ASSUME IInv, KInv, IInv', [Next]_vars, ~ NextIteration
    PROVE  Extends(tree, tree')
<1>1. CASE NewKey
  BY <1>1, NewKeyKeepsKInv, AddedExtends
<1>2. CASE Closes
  BY <1>2, ClosingExtends, SameStatesExtend
<1>3. CASE ~ NewKey /\ ~ Closes
  BY <1>3, OtherSteps
<1> QED
  BY <1>1, <1>2, <1>3

-----------------------------------------------------------------------------
(* The open group.                                                           *)

(* A step of the runner, and what is remembered of it.                       *)
Remembers ==
    /\ [Next]_vars
    /\ group' = IF Closes THEN {}
                ELSE group \cup { [version |-> fv, at |-> ip] : fv \in Added }
    /\ crashed' =
        IF Recover /\ tree' # tree
        THEN crashed \cup {<<func_ver[1], VersionAt(func_ver).key>>}
        ELSE IF NextIteration THEN {} ELSE crashed
    /\ IF Closes
       THEN wrong' = (wrong \/ Broken(group) # (IF should_fail THEN group ELSE {}))
       ELSE wrong' = wrong

(* The auxiliary variables follow the runner's steps.                        *)
LEMMA HistorySteps ==
    ASSUME IInv, [HNext]_<<vars, historyVars>>
    PROVE  Remembers
<1>1. CASE HNext
  <2>1. /\ Closes => wrong' = (wrong \/ Broken(group) # (IF should_fail THEN group ELSE {}))
        /\ ~ Closes => wrong' = wrong
    BY <1>1, Zenon DEF HNext, Closes
  <2> QED
    BY <1>1, <2>1 DEF HNext, Remembers, Closes
<1>2. CASE UNCHANGED <<vars, historyVars>>
  <2>1. UNCHANGED <<vars, tree, report_idx, iter, group, crashed, wrong>>
    BY <1>2 DEF vars, historyVars, dataVars, currentVars, loopVars
  <2>2. ~ Closes
    BY <2>1 DEF Closes, Reporting, ReportGroup, ReportRest, Report, IInv, TypeOK
  <2>3. ~ NextIteration
    BY <2>1 DEF NextIteration, NextIter, IInv, TypeOK
  <2>4. Added = {}
    BY <2>1 DEF Added
  <2> QED
    BY <2>1, <2>2, <2>3, <2>4 DEF Remembers
<1> QED
  BY <1>1, <1>2

(* The configuration of a run does not change.                               *)
LEMMA SameConfig ==
    ASSUME [Next]_vars
    PROVE  cfg' = cfg
<1>1. CASE UNCHANGED vars \/ Hang \/ Terminated \/ \E s \in Interrupts : Interrupt(s)
  BY <1>1 DEF vars, Hang, Terminated, Interrupt
<1>2. CASE RunTests
  BY <1>2 DEF RunTests, InitHooks, SkipCpu, EnterCpu, SkipTest, SaveContext, EnterTest,
              Measure, LeaveCpu, UninitHooks
<1>3. CASE Recover \/ CheckFunc
  BY <1>3 DEF Recover, CheckFunc, IgnoreKey, SkipKey, NewKey, LoopInCheck, LoopForever
<1>4. CASE TestBlock \/ Bench
  BY <1>4 DEF TestBlock, SkipBlock, CallRef, CallNew, CallInsteadOfBench, Call, Compare, Bench,
              BenchStart, BenchArm, BenchSample, BenchFinish
<1>5. CASE Callee \/ Summary
  BY <1>5 DEF Callee, Return, Crash, FailAbort, Summary, Finish, NextIteration
<1>6. CASE Reports
  BY <1>6 DEF Reports, ShouldFail, ReportGroup, ReportRest, Report, LoopInReport, LoopForever
<1> QED
  BY <1>1, <1>2, <1>3, <1>4, <1>5, <1>6 DEF Next, Step

(* Only a new version joins the group, and only a report empties it.         *)
LEMMA SameGroup ==
    ASSUME IInv, KInv, Remembers, ~ Closes, ~ NewKey
    PROVE  group' = group
<1>1. AllVersions(tree') \subseteq AllVersions(tree)
  <2>1. CASE NextIteration
    BY <2>1, EmptyRegistry DEF NextIteration, ClearPointers
  <2>2. CASE ~ NextIteration
    BY <2>2, OnlyNewKeyCounts DEF Remembers, SameCount
  <2> QED
    BY <2>1, <2>2
<1>2. Added = {}
  BY <1>1 DEF Added
<1> QED
  BY <1>2 DEF Remembers

(* The broken ones of a group, before and after a step.                      *)
LEMMA BrokenFacts ==
    /\ Broken(group) = { m \in group : ~ Works(tree, m.version) }
    /\ Broken(group)' = { m \in group' : ~ Works(tree', m.version) }
BY DEF Broken, Works, VersionAt

(* In a block, the version that may fail is one of the open group.           *)
LEMMA BlockVersionWaits ==
    ASSUME IInv, WaitsInv, Guarded, key_ref # NoKey, ip \in DOMAIN OpsNow, Op.kind \in BlockKinds
    PROVE  \E m \in group : m.version = func_ver
<1>1. pc \in InTest /\ (pc = "recover" => interrupted = None)
  BY DEF Guarded, InTest, Calls
<1>2. PICK c \in 1 .. ip - 1 :
        /\ \A p \in c + 1 .. ip - 1 : OpsNow[p].kind # "check"
        /\ Waiting(c) => \E m \in group : m.version = func_ver
  BY DEF WaitsInv
<1>3. Waiting(c)
  BY <1>1, <1>2, GroupStillOpen
<1> QED
  BY <1>2, <1>3

(* Nothing waits outside of the tests.                                       *)
LEMMA NothingWaits ==
    ASSUME IInv, KInv, TInv, GroupInv, ~ cfg.skip_tests,
           CrashedVersions = {}, NewChecked = 0
    PROVE  group = {}
<1>1. OpenNow = 0
  BY SumTypes DEF OpenNow, NewChecked
<1>2. IsFiniteSet(group) /\ Cardinality(group) = 0
  BY <1>1 DEF GroupInv
<1> QED
  BY <1>2, FS_EmptySet

(* The sums describe the open group after every step.                        *)
LEMMA StepKeepsGroup ==
    ASSUME IInv, KInv, TInv, IInv', GroupInv, WaitsInv, Remembers
    PROVE  GroupInv'
<1>0. cfg' = cfg /\ [Next]_vars
  BY SameConfig DEF Remembers
<1> SUFFICES ASSUME ~ cfg.skip_tests PROVE GroupInv'
  BY <1>0 DEF GroupInv
<1>1. /\ IsFiniteSet(group) /\ \A m \in group : Member(m)
      /\ \A m, n \in group : m.version = n.version => m = n
      /\ OpenNow = Cardinality(group) /\ BrokenNow = Cardinality(Broken(group))
  BY DEF GroupInv
<1>2. IsFiniteSet(Broken(group))
  BY <1>1, BrokenFacts, FS_Subset
<1>3. CASE Closes
  <2>1. group' = {}
    BY <1>3 DEF Remembers
  <2>2. \E label, next : Report(label, next)
    BY <1>3 DEF Closes, Reporting, ReportGroup, ReportRest
  <2>3. saved_checked = 0 /\ saved_failed = 0
    BY <1>3, SumTypes DEF TInv, SettledInv, Closes
  <2>4. OpenNow' = 0 /\ BrokenNow' = 0
    <3>1. /\ num_failed' = prev_failed + GroupFailures /\ prev_checked' = num_checked
          /\ prev_failed' = num_failed' /\ UNCHANGED <<num_checked, saved_checked, saved_failed>>
      BY <1>3, <2>2 DEF Report, Closes, savedVars
    <3>2. num_failed' \in Int /\ num_checked \in Int
      BY DEF IInv, TypeOK
    <3> QED
      BY <2>3, <3>1, <3>2 DEF OpenNow, BrokenNow
  <2>5. Broken(group)' = {}
    BY <2>1, BrokenFacts
  <2> QED
    BY <2>1, <2>4, <2>5, FS_EmptySet DEF GroupInv
<1>4. CASE NewKey /\ ~ Closes
  <2>1. PICK fv : fv \notin AllVersions(tree) /\ AddsVersion(fv)
    BY <1>4, NewKeyKeepsKInv
  <2> DEFINE new == [version |-> fv, at |-> ip]
  <2>2. group' = group \cup {new}
    <3>1. Added = {fv}
      BY <2>1 DEF Added, AddsVersion
    <3> QED
      BY <1>4, <3>1 DEF Remembers
  <2>3. new \notin group
    BY <1>1, <2>1 DEF Member
  <2>4. OpenNow' = OpenNow + 1 /\ BrokenNow' = BrokenNow
    <3>1. /\ num_checked' = num_checked + 1
          /\ UNCHANGED <<num_failed, saved_checked, saved_failed>>
      BY <1>4, NewKeyKeepsKInv
    <3>2. UNCHANGED <<prev_checked, prev_failed>>
      BY <1>4 DEF NewKey
    <3> QED
      BY <3>1, <3>2 DEF OpenNow, BrokenNow, IInv, TypeOK
  <2>5. \A m \in group' : Member(m)'
    <3>1. AllVersions(tree') = AllVersions(tree) \cup {fv}
      BY <2>1 DEF AddsVersion
    <3>2. ip \in Nat \ {0}
      BY DEF IInv, TypeOK
    <3> QED
      BY <1>1, <2>2, <3>1, <3>2 DEF Member
  <2>6. \A m, n \in group' : m.version = n.version => m = n
    BY <1>1, <2>1, <2>2 DEF Member
  <2>7. Broken(group)' = Broken(group)
    <3>1. \A m \in group : Works(tree', m.version) <=> Works(tree, m.version)
      BY <1>1, <2>1 DEF AddsVersion, Works, Member
    <3>2. Works(tree', new.version)
      BY <2>1 DEF AddsVersion, Works
    <3> HIDE DEF new
    <3> QED
      BY <2>2, <3>1, <3>2, BrokenFacts
  <2>8. IsFiniteSet(group') /\ Cardinality(group') = Cardinality(group) + 1
    BY <1>1, <2>2, <2>3, FS_AddElement
  <2> QED
    BY <1>1, <2>4, <2>5, <2>6, <2>7, <2>8 DEF GroupInv
<1>5. CASE NextIteration /\ ~ NewKey /\ ~ Closes
  <2>1. CrashedVersions = {} /\ NewChecked = 0
    BY <1>5 DEF NextIteration, KInv, RerunInv, Final, TInv, SettledInv, Between
  <2>2. group' = {}
    BY <1>5, <2>1, NothingWaits, SameGroup
  <2>3. OpenNow' = 0 /\ BrokenNow' = 0
    BY <1>5 DEF NextIteration, ClearSums, OpenNow, BrokenNow
  <2>4. Broken(group)' = {}
    BY <2>2, BrokenFacts
  <2> QED
    BY <2>2, <2>3, <2>4, FS_EmptySet DEF GroupInv
<1>6. CASE ~ NextIteration /\ ~ NewKey /\ ~ Closes
  <2>1. group' = group
    BY <1>6, SameGroup
  <2>2. CASE Leaves
    <3>1. \A m \in group : Works(tree', m.version) <=> Works(tree, m.version)
      BY <1>1, <2>2 DEF Leaves, Member
    <3>2. Broken(group)' = Broken(group)
      BY <2>1, <3>1, BrokenFacts
    <3>3. \A m \in group' : Member(m)'
      BY <1>1, <2>1, <2>2 DEF Member, Leaves
    <3> QED
      BY <1>1, <2>1, <2>2, <3>2, <3>3 DEF GroupInv, Leaves
  <2>3. CASE FindsBroken
    <3>1. PICK m \in group : m.version = func_ver
      BY <2>3, BlockVersionWaits DEF FindsBroken
    <3>2. \A n \in group : n # m => (Works(tree', n.version) <=> Works(tree, n.version))
      BY <1>1, <2>3, <3>1 DEF FindsBroken, Member
    <3>3. Works(tree, m.version) /\ ~ Works(tree', m.version)
      BY <2>3, <3>1 DEF FindsBroken
    <3>4. Broken(group)' = Broken(group) \cup {m} /\ m \notin Broken(group)
      BY <2>1, <3>2, <3>3, BrokenFacts
    <3>5. Cardinality(Broken(group)') = Cardinality(Broken(group)) + 1
      BY <1>2, <3>4, FS_AddElement
    <3>6. \A n \in group' : Member(n)'
      BY <1>1, <2>1, <2>3 DEF Member, FindsBroken
    <3> QED
      BY <1>1, <2>1, <2>3, <3>5, <3>6 DEF GroupInv, FindsBroken
  <2> QED
    BY <1>0, <1>6, <2>2, <2>3, OtherSteps
<1> QED
  BY <1>3, <1>4, <1>5, <1>6

-----------------------------------------------------------------------------
(* The way through a test.                                                   *)

(* A test is entered at its first operation, outside of any block.           *)
LEMMA BetweenMoves ==
    ASSUME [Next]_vars, pc \in Between, pc' \in InTest \ Between
    PROVE  /\ UNCHANGED <<num_checked, prev_checked, tree>>
           /\ \/ EnterTest
              \/ pc' = "recover" /\ interrupted' # None
<1> USE DEF Between, InTest, Calls, signalVars, dataVars, currentVars, sumVars
<1>1. ~ UNCHANGED vars /\ ~ Hang /\ ~ Terminated
  BY DEF vars, Hang, Terminated, Executing, Calling, Final
<1>2. CASE RunTests
  BY <1>2 DEF RunTests, InitHooks, SkipCpu, EnterCpu, SkipTest, SaveContext, EnterTest,
              Measure, LeaveCpu, UninitHooks, HandleInterrupt, Exit
<1>3. CASE Recover \/ CheckFunc \/ Callee
  BY <1>3 DEF Recover, CheckFunc, IgnoreKey, SkipKey, NewKey, LoopInCheck, InOp, Callee, Return,
              Crash, FailAbort, Executing, Calling
<1>4. CASE TestBlock \/ Bench
  BY <1>4 DEF TestBlock, SkipBlock, CallRef, CallNew, CallInsteadOfBench, Compare, InBlock, InOp,
              Bench, BenchStart, BenchArm, BenchSample, BenchFinish
<1>5. CASE Reports \/ Summary
  BY <1>5 DEF Reports, ShouldFail, ReportGroup, ReportRest, LoopInReport, InOp, Summary, Finish,
              NextIteration, Exit
<1>6. CASE \E s \in Interrupts : Interrupt(s)
  <2>1. PICK s \in Interrupts : Interrupt(s)
    BY <1>6
  <2>2. interrupted' = s /\ pc' # pc
    BY <2>1 DEF Interrupt
  <2>3. s # None
    BY InterruptsAssumption
  <2> QED
    BY <2>1, <2>2, <2>3 DEF Interrupt, InterruptJump, JumpOut, LoadContext
<1> QED
  BY <1>1, <1>2, <1>3, <1>4, <1>5, <1>6 DEF Next, Step

(* Inside a test the process goes from one operation to the next; a block    *)
(* begins with a check, and a report is an operation of its own.             *)
Onward ==
    /\ SameTest
    /\ \/ pc \in {"body", "arm"} \cup Calls
       \/ pc = "recover" /\ pc' = "recover" /\ interrupted' # None
    /\ key_ref' = NoKey \/ UNCHANGED <<func_ver, key_ref, key_new>>
    /\ \/ ip' = ip /\ ~ Closes
       \/ /\ ip' = ip + 1 /\ ip \in DOMAIN OpsNow /\ pc' \in {"body", "done"}
          /\ OpsNow[ip].kind = "check" => key_ref' = NoKey
          /\ OpsNow[ip].kind = "report" => NewChecked' = 0
          /\ Closes => OpsNow[ip].kind = "report"
    /\ ~ SkipKey /\ ~ Closes => NewChecked' = NewChecked /\ UNCHANGED <<saved_checked>>

(* A report leaves nothing to report.                                        *)
LEMMA ReportsAll ==
    ASSUME IInv', NEW label, NEW next, Report(label, next)
    PROVE  NewChecked' = 0
BY DEF Report, NewChecked, IInv, TypeOK

(* No other step moves on to the next report.                                *)
LEMMA ClosesMoves ==
    ASSUME IInv, Closes
    PROVE  pc = "body" /\ report_idx' # report_idx
BY DEF Closes, Reporting, ReportGroup, ReportRest, Report, InOp, IInv, TypeOK

(* What else happens in a test.                                              *)
LEMMA InTestMoves ==
    ASSUME IInv, KInv, IInv', [Next]_vars, ~ NewKey, ~ Recover, ~ UNCHANGED vars,
           pc \notin Between, pc' \in InTest \ Between
    PROVE  Onward
<1> USE DEF signalVars, loopVars, cpuVars, keyVars, sumVars, savedVars, statVars,
            currentVars, dataVars
<1>0. /\ Op = OpsNow[ip]
      /\ UNCHANGED <<num_checked, prev_checked>> => NewChecked' = NewChecked
  BY DEF Op, OpsNow, NewChecked
<1>1. ~ RunTests /\ ~ Summary /\ ~ Hang /\ ~ Terminated
  BY DEF RunTests, InitHooks, SkipCpu, EnterCpu, SkipTest, SaveContext, EnterTest, Measure,
         LeaveCpu, UninitHooks, Summary, Finish, NextIteration, Hang, Terminated, Between
<1>2. CASE CheckFunc
  <2>1. (IgnoreKey \/ SkipKey) /\ InOp("check")
    BY <1>2 DEF CheckFunc, LoopInCheck, LoopForever, InTest, Calls, IgnoreKey, SkipKey
  <2>2. ~ Closes
    BY <2>1, ClosesMoves DEF IgnoreKey, SkipKey
  <2>3. ip \in DOMAIN OpsNow /\ pc = "body" /\ Op.kind = "check"
    BY <2>1, BlockOp
  <2> QED
    BY <1>0, <2>1, <2>2, <2>3 DEF IgnoreKey, SkipKey, Onward, SameTest
<1>3. CASE TestBlock
  <2>1. /\ pc = "body" /\ ip \in DOMAIN OpsNow /\ Op.kind \in BlockKinds
        /\ pc' \in {"body"} \cup Calls
    <3>1. pc = "body" /\ ip <= Len(OpsNow) /\ Op.kind \in BlockKinds
      BY <1>3 DEF TestBlock, SkipBlock, CallRef, CallNew, CallInsteadOfBench, Compare, InBlock,
                  InOp, OpsNow, BlockKinds
    <3>2. ip \in DOMAIN OpsNow
      BY <3>1, OpsFacts DEF InTest
    <3> QED
      BY <1>3, <3>1, <3>2 DEF TestBlock, SkipBlock, CallRef, CallNew, CallInsteadOfBench, Call,
                              Compare, Calls
  <2>2. ~ Closes
    BY <1>3, ClosesMoves DEF TestBlock, SkipBlock, CallRef, CallNew, CallInsteadOfBench, Call, Compare
  <2>3. CASE Compare \/ SkipBlock
    BY <1>0, <2>1, <2>2, <2>3 DEF Compare, SkipBlock, Onward, SameTest, BlockKinds
  <2>4. CASE CallRef \/ CallNew \/ CallInsteadOfBench
    BY <1>0, <2>1, <2>2, <2>4 DEF CallRef, CallNew, CallInsteadOfBench, Call, Onward, SameTest
  <2> QED
    BY <1>3, <2>3, <2>4 DEF TestBlock
<1>4. CASE Bench
  <2>1. pc \in {"body", "arm"} \cup Calls
    BY <1>4 DEF Bench, BenchStart, BenchArm, BenchSample, BenchFinish, InBlock, InOp, Calls
  <2>2. CASE BenchFinish
    <3>1. ip \in DOMAIN OpsNow /\ Op.kind \in BlockKinds
      BY <2>2, CallFacts DEF BenchFinish, Calls
    <3>2. ~ Closes
      BY <2>2, ClosesMoves DEF BenchFinish
    <3> QED
      BY <1>0, <2>1, <2>2, <3>1, <3>2 DEF BenchFinish, Onward, SameTest, BlockKinds
  <2>3. CASE BenchStart \/ BenchArm \/ BenchSample
    <3>1. ~ Closes
      BY <2>3, ClosesMoves DEF BenchStart, BenchArm, BenchSample, Call
    <3> QED
      BY <1>0, <2>1, <2>3, <3>1 DEF BenchStart, BenchArm, BenchSample, Call, Onward, SameTest
  <2> QED
    BY <1>4, <2>2, <2>3 DEF Bench
<1>5. CASE Callee
  <2>1. pc \in Calls
    BY <1>5 DEF Callee, Return, Crash, FailAbort, Executing, Calling, Calls
  <2>2. ip \in DOMAIN OpsNow /\ Op.kind \in BlockKinds /\ ~ Closes
    BY <2>1, CallFacts, ClosesMoves DEF Calls
  <2> QED
    BY <1>0, <1>5, <2>1, <2>2 DEF Callee, Return, Crash, FailAbort, Onward, SameTest, BlockKinds
<1>6. CASE Reports
  <2>1. CASE ShouldFail
    <3>1. pc = "body" /\ ip \in DOMAIN OpsNow /\ Op.kind = "should_fail" /\ ip <= Len(OpsNow)
      BY <2>1, BlockOp DEF ShouldFail, InOp, OpsNow
    <3>2. ~ Closes
      BY <2>1, ClosesMoves DEF ShouldFail
    <3> QED
      BY <1>0, <2>1, <3>1, <3>2 DEF ShouldFail, Onward, SameTest
  <2>2. CASE ReportGroup
    <3>1. pc = "body" /\ ip \in DOMAIN OpsNow /\ Op.kind = "report"
      BY <2>2, BlockOp DEF ReportGroup
    <3>2. NewChecked' = 0
      BY <2>2, ReportsAll DEF ReportGroup
    <3>3. ~ Closes => NewChecked = 0
      BY <2>2 DEF Closes, Reporting
    <3> QED
      BY <1>0, <2>2, <3>1, <3>2, <3>3 DEF ReportGroup, Report, HandleInterrupt, Exit, Onward, SameTest
  <2>3. ~ ReportRest /\ ~ LoopInReport
    BY DEF ReportRest, Report, HandleInterrupt, Exit, LoopInReport, LoopForever, InTest, Calls,
           Between
  <2> QED
    BY <1>6, <2>1, <2>2, <2>3 DEF Reports
<1>7. CASE \E s \in Interrupts : Interrupt(s)
  <2>1. PICK s \in Interrupts : Interrupt(s)
    BY <1>7
  <2>2. interrupted' = s /\ s # None
    BY <2>1, InterruptsAssumption DEF Interrupt, InTest, Calls
  <2>3. pc \in {"body", "arm", "recover"} \cup Calls
    BY <2>1 DEF Interrupt, Final, InTest, Between, Calls, IInv, TypeOK, Locations
  <2>4. ~ Closes
    BY <2>1, ClosesMoves DEF Interrupt
  <2>5. pc = "recover" => pc' = "recover"
    BY <2>1 DEF Interrupt, InterruptJump, JumpOut, LoadContext, InTest, Calls
  <2> QED
    BY <1>0, <2>1, <2>2, <2>3, <2>4, <2>5 DEF Interrupt, Onward, SameTest
<1> QED
  BY <1>1, <1>2, <1>3, <1>4, <1>5, <1>6, <1>7 DEF Next, Step

-----------------------------------------------------------------------------
(* Members of the group, and the checks that recorded them.                  *)

(* No check before c comes to walk further than it did.                      *)
LEMMA FirstMetStays ==
    ASSUME TypeOK, SameTest, Extends(tree, tree'), NEW c, NEW fv \in AllVersions(tree),
           FirstMet(c, fv)
    PROVE  FirstMet(c, fv)'
<1>1. OpsNow' = OpsNow /\ \A p : KeyAt(p)' = KeyAt(p) /\ (Asks(p)' <=> Asks(p))
  BY SameTestFacts
<1>2. /\ fv[1] \in Names /\ fv[2] \in DOMAIN tree[fv[1]].versions
      /\ DOMAIN tree[fv[1]].versions = 1 .. Len(tree[fv[1]].versions)
      /\ Len(tree[fv[1]].versions) \in Nat
  BY PlaceFacts
<1>3. ASSUME NEW p \in 1 .. c - 1, Asks(p), OpsNow[p].name = fv[1]
      PROVE  \E j \in 1 .. fv[2] - 1 : StopsAt(tree'[fv[1]].versions[j], KeyAt(p))
  <2>1. PICK j \in 1 .. fv[2] - 1 : StopsAt(tree[fv[1]].versions[j], KeyAt(p))
    BY <1>3 DEF FirstMet
  <2>2. j \in DOMAIN tree[fv[1]].versions
    BY <1>2
  <2>3. StopsAt(tree'[fv[1]].versions[j], KeyAt(p))
    BY <1>2, <2>1, <2>2 DEF Extends, StopsAt
  <2> QED
    BY <2>3
<1> QED
  BY <1>1, <1>3 DEF FirstMet

(* The version a block is about.                                             *)
LEMMA BlockVersion ==
    ASSUME IInv, pc \in {"body", "arm"} \cup Calls, key_ref # NoKey
    PROVE  func_ver \in AllVersions(tree)
BY DEF IInv, ControlInv, TypeOK

(* A member stays where it is while the test does.                           *)
LEMMA OpenSinceStays ==
    ASSUME SameTest, NEW m, NEW q, OpenSince(m, q)
    PROVE  OpenSince(m, q)'
BY SameTestFacts DEF OpenSince

(* One operation further, unless it is a report.                             *)
LEMMA OpenSinceNext ==
    ASSUME NEW m, m.at \in Nat, NEW q \in Nat \ {0}, OpenSince(m, q - 1), OpsNow[q].kind # "report"
    PROVE  OpenSince(m, q)
<1>1. m.at <= q /\ OpsNow[m.at].kind = "check"
  BY DEF OpenSince
<1>2. \A i \in m.at .. q : i \in m.at .. q - 1 \/ i = q
  OBVIOUS
<1> QED
  BY <1>1, <1>2 DEF OpenSince

(* The group's members have places.                                          *)
LEMMA MemberPlaces ==
    ASSUME GroupInv, ~ cfg.skip_tests, NEW m \in group
    PROVE  m.at \in Nat \ {0} /\ m.version \in AllVersions(tree)
BY DEF GroupInv, Member

(* A new version has been recorded by the check at hand, which no earlier    *)
(* one of the test can walk past.                                            *)
LEMMA NewKeyFacts ==
    ASSUME IInv, KInv, IInv', KInv', NewKey
    PROVE  /\ SameTest /\ pc = "body" /\ pc' = "body" /\ ip' = ip + 1 /\ ip \in DOMAIN OpsNow
           /\ ip \in Nat \ {0} /\ Op = OpsNow[ip] /\ Op.kind = "check" /\ interrupted = None
           /\ CrashedVersions' = {}
           /\ \E fv : /\ fv \notin AllVersions(tree) /\ AddsVersion(fv)
                      /\ \A c \in {ip} : FirstMet(c, fv)'
<1>1. /\ SameTest /\ pc' = "body" /\ ip' = ip + 1 /\ InOp("check") /\ interrupted = None
  BY DEF NewKey, SameTest, InOp, loopVars, cpuVars, Ignored
<1>2. pc = "body" /\ ip \in DOMAIN OpsNow /\ Op = OpsNow[ip] /\ Op.kind = "check"
  BY <1>1, BlockOp
<1>3. PICK fv : fv \notin AllVersions(tree) /\ AddsVersion(fv)
  BY NewKeyKeepsKInv
<1>4. CrashedVersions' = {}
  <2>1. saved_checked' = 0
    BY NewKeyKeepsKInv, SumTypes
  <2> QED
    BY <2>1 DEF KInv, SumsInv
<1>5. \A c \in {ip} : FirstMet(c, fv)'
  <2>1. OpsNow' = OpsNow /\ \A p : KeyAt(p)' = KeyAt(p) /\ (Asks(p)' <=> Asks(p))
    BY <1>1, SameTestFacts
  <2>2. ASSUME NEW p \in 1 .. ip - 1, Asks(p), OpsNow[p].name = fv[1]
        PROVE  \E j \in 1 .. fv[2] - 1 : StopsAt(tree'[fv[1]].versions[j], KeyAt(p))
    <3>1. Visited(p)
      BY <1>1, <1>2 DEF KInv, VisitedInv, Guarded
    <3>2. PICK j \in DOMAIN tree[fv[1]].versions : StopsAt(tree[fv[1]].versions[j], KeyAt(p))
      BY <2>2, <3>1 DEF Visited, Skipped
    <3>3. fv[1] \in Names
      BY <2>2, AskedNames DEF IInv
    <3>4. j \in 1 .. fv[2] - 1
      <4>1. tree[fv[1]].versions \in Seq(Version)
        BY <3>3 DEF IInv, TypeOK, Func
      <4> QED
        BY <1>3, <3>2, <4>1 DEF AddsVersion
    <3>5. tree'[fv[1]].versions[j] = tree[fv[1]].versions[j]
      <4>1. <<fv[1], j>> \in AllVersions(tree)
        BY <3>2, <3>3, MemberOfAllVersions
      <4> QED
        BY <1>3, <4>1 DEF AddsVersion
    <3> QED
      BY <3>2, <3>4, <3>5
  <2> QED
    BY <2>1, <2>2 DEF FirstMet
<1> QED
  BY <1>1, <1>2, <1>3, <1>4, <1>5 DEF IInv, TypeOK

-----------------------------------------------------------------------------
(* What every step keeps of the past.                                        *)

(* While nothing happens, nothing is forgotten.                              *)
LEMMA StutterRemembers ==
    ASSUME IInv, KInv, Remembers, UNCHANGED vars
    PROVE  /\ ~ Closes /\ ~ NewKey /\ ~ NextIteration
           /\ UNCHANGED <<cfg, interrupted, pc, test, ip, callee, exit_code, cpu_flags, func_ver,
                          key_ref, key_new, tree, num_checked, num_failed, prev_checked,
                          prev_failed, saved_checked, saved_failed>>
           /\ UNCHANGED historyVars
<1>1. UNCHANGED <<cfg, interrupted, pc, test, iter, ip, callee, exit_code, cpu_flags, report_idx,
                  func_ver, key_ref, key_new, tree, num_checked, num_failed, prev_checked,
                  prev_failed, saved_checked, saved_failed>>
  BY DEF vars, signalVars, loopVars, cpuVars, keyVars, sumVars, savedVars, currentVars, dataVars
<1>2. ~ Closes
  BY <1>1, ClosesMoves
<1>3. ~ NewKey /\ ~ NextIteration
  BY <1>1 DEF NewKey, NextIteration, NextIter, IInv, TypeOK
<1>4. group' = group
  BY <1>2, <1>3, SameGroup
<1>5. crashed' = crashed /\ wrong' = wrong
  BY <1>1, <1>2, <1>3 DEF Remembers
<1> QED
  BY <1>1, <1>2, <1>3, <1>4, <1>5 DEF historyVars

(* In a block, the version at hand waits for its report after every step.    *)
LEMMA StepKeepsWaits ==
    ASSUME IInv, KInv, TInv, IInv', KInv', WaitsInv, Remembers
    PROVE  WaitsInv'
<1>0. [Next]_vars
  BY DEF Remembers
<1>1. CASE UNCHANGED vars
  BY <1>1, StutterRemembers
     DEF WaitsInv, Guarded, FirstMet, Waiting, OpsNow, KeyAt, Asks, Tests, historyVars
<1>2. CASE ~ UNCHANGED vars
  <2> SUFFICES ASSUME Guarded', key_ref' # NoKey
               PROVE  \E c \in 1 .. ip' - 1 :
                        /\ OpsNow'[c].kind = "check" /\ FirstMet(c, func_ver)'
                        /\ \A p \in c + 1 .. ip' - 1 : OpsNow'[p].kind # "check"
                        /\ Waiting(c)' => \E m \in group' : m.version = func_ver'
    BY DEF WaitsInv
  <2>1. /\ pc' \in InTest \ Between /\ pc' \notin {"enter", "done", "init"}
        /\ pc' = "recover" => interrupted' = None
    BY DEF Guarded, InTest, Between, Calls
  <2>2. ~ NextIteration
    BY <2>1 DEF NextIteration
  <2>3. CASE NewKey
    <3>1. /\ SameTest /\ ip' = ip + 1 /\ ip \in Nat \ {0} /\ Op = OpsNow[ip] /\ Op.kind = "check"
          /\ \E fv : /\ fv \notin AllVersions(tree) /\ AddsVersion(fv)
                     /\ \A c \in {ip} : FirstMet(c, fv)'
      BY <2>3, NewKeyFacts
    <3>2. PICK fv : /\ fv \notin AllVersions(tree) /\ AddsVersion(fv)
                    /\ \A c \in {ip} : FirstMet(c, fv)'
      BY <3>1
    <3>3. [version |-> fv, at |-> ip] \in group'
      <4>1. ~ Closes
        BY <2>3, ClosesMoves DEF NewKey
      <4>2. Added = {fv}
        BY <3>2 DEF Added, AddsVersion
      <4> QED
        BY <4>1, <4>2 DEF Remembers
    <3>4. func_ver' = fv
      <4>1. ~ cfg.skip_tests
        BY <3>1 DEF SameTest, IInv, ControlInv
      <4> QED
        BY <3>2, <4>1 DEF AddsVersion
    <3>5. OpsNow' = OpsNow
      BY <3>1, SameTestFacts
    <3> SUFFICES ASSUME NEW c, c = ip
                 PROVE  /\ c \in 1 .. ip' - 1
                        /\ OpsNow'[c].kind = "check" /\ FirstMet(c, func_ver)'
                        /\ \A p \in c + 1 .. ip' - 1 : OpsNow'[p].kind # "check"
                        /\ \E m \in group' : m.version = func_ver'
      OBVIOUS
    <3>6. FirstMet(c, func_ver)'
      BY <3>2, <3>4 DEF FirstMet
    <3>7. \E m \in group' : m.version = func_ver'
      BY <3>3, <3>4
    <3> QED
      BY <3>1, <3>5, <3>6, <3>7
  <2>4. CASE Recover
    BY <2>1, <2>4 DEF Recover, HandleInterrupt, Exit
  <2>5. CASE pc \in Between
    BY <1>0, <2>1, <2>5, BetweenMoves DEF EnterTest
  <2>6. CASE ~ NewKey /\ ~ Recover /\ pc \notin Between
    <3>1. Onward
      BY <1>0, <1>2, <2>1, <2>6, InTestMoves
    <3>2. /\ SameTest /\ pc \in {"body", "arm"} \cup Calls /\ Guarded
          /\ UNCHANGED <<func_ver, key_ref>> /\ key_ref # NoKey
      BY <2>1, <3>1 DEF Onward, Guarded
    <3>3. OpsNow' = OpsNow /\ ip \in Nat \ {0} /\ Extends(tree, tree') /\ func_ver \in AllVersions(tree)
      BY <1>0, <2>2, <3>2, SameTestFacts, StepExtends, BlockVersion DEF IInv, TypeOK
    <3>4. PICK c \in 1 .. ip - 1 :
            /\ OpsNow[c].kind = "check" /\ FirstMet(c, func_ver)
            /\ \A p \in c + 1 .. ip - 1 : OpsNow[p].kind # "check"
            /\ Waiting(c) => \E m \in group : m.version = func_ver
      BY <3>2 DEF WaitsInv
    <3>5. FirstMet(c, func_ver)'
      BY <3>2, <3>3, <3>4, FirstMetStays DEF IInv
    <3>6. CASE ip' = ip /\ ~ Closes
      <4>1. group' = group
        BY <2>6, <3>6, SameGroup
      <4> QED
        BY <3>2, <3>3, <3>4, <3>5, <3>6, <4>1 DEF Waiting
    <3>7. CASE ip' = ip + 1
      <4>1. OpsNow[ip].kind # "check" /\ (Closes => OpsNow[ip].kind = "report")
        BY <3>1, <3>2, <3>3, <3>7 DEF Onward
      <4>2. /\ c \in 1 .. ip' - 1 /\ c \in Nat
            /\ \A p \in c + 1 .. ip' - 1 : OpsNow'[p].kind # "check"
            /\ ip \in c + 1 .. ip' - 1
        BY <3>3, <3>4, <3>7, <4>1
      <4>3. Waiting(c)' => ~ Closes /\ Waiting(c)
        BY <3>3, <3>7, <4>1, <4>2 DEF Waiting
      <4>4. ~ Closes => group' = group
        BY <2>6, SameGroup
      <4> QED
        BY <3>2, <3>3, <3>4, <3>5, <4>2, <4>3, <4>4
    <3> QED
      BY <3>1, <3>6, <3>7 DEF Onward
  <2> QED
    BY <2>3, <2>4, <2>5, <2>6
<1> QED
  BY <1>1, <1>2

(* A walk that restores what was set aside ends at the check that recorded   *)
(* the crash: no earlier one comes that far.                                 *)
LEMMA RestoredAtLast ==
    ASSUME IInv, KInv, AsideInv, SkipKey, Restored(Op.name, Op.impl[cpu_flags])
    PROVE  \A m \in group : OpenSince(m, ip)
<1> DEFINE f == Op.name
           key == Op.impl[cpu_flags]
<1>1. InOp("check") /\ ~ Ignored(Op) /\ interrupted = None
  BY DEF SkipKey, Ignored
<1>2. /\ pc = "body" /\ ip \in DOMAIN OpsNow /\ Op = OpsNow[ip] /\ Op.kind = "check"
      /\ DOMAIN OpsNow = 1 .. Len(OpsNow) /\ Len(OpsNow) \in Nat /\ ip \in Nat \ {0}
  BY <1>1, BlockOp, OpsFacts DEF InTest
<1>3. f \in Names /\ Asks(ip) /\ f = OpsNow[ip].name /\ key = KeyAt(ip)
  BY <1>1, <1>2, AskedNames DEF IInv, Ignored, Asks, KeyAt
<1> HIDE DEF f, key
<1>4. PICK i \in Recovered(tree[f].versions, key) : TRUE
  BY DEF Restored, f, key
<1>5. <<f, i>> \in CrashedVersions /\ i \in Walked(tree[f].versions, key)
  BY <1>3, RecoveredFacts DEF Recovered, IInv
<1>6. PICK c \in DOMAIN OpsNow :
        FirstMet(c, <<f, i>>) /\ (\A m \in group : OpenSince(m, c)) /\ ip <= c
  BY <1>1, <1>2, <1>5 DEF AsideInv
<1>7. ASSUME ip # c PROVE FALSE
  <2>1. ip \in 1 .. c - 1
    BY <1>2, <1>6, <1>7
  <2>2. PICK j \in 1 .. i - 1 : StopsAt(tree[f].versions[j], KeyAt(ip))
    BY <1>3, <1>6, <2>1 DEF FirstMet
  <2> QED
    BY <1>3, <1>5, <2>2 DEF Walked
<1> QED
  BY <1>6, <1>7

(* What is known of the group at some place is known of it after the step.   *)
LEMMA OpenSinceMoves ==
    ASSUME SameTest, NEW m, NEW q, q = ip' - 1, OpenSince(m, q)
    PROVE  OpenSince(m, ip - 1)'
BY SameTestFacts DEF OpenSince

(* The group's members were recorded in this test, since its last report.    *)
LEMMA StepKeepsPlace ==
    ASSUME IInv, KInv, TInv, IInv', KInv', TInv', GroupInv, PlaceInv, AsideInv, Remembers
    PROVE  PlaceInv'
<1>0. [Next]_vars /\ cfg' = cfg
  BY SameConfig DEF Remembers
<1>1. CASE UNCHANGED vars
  BY <1>1, StutterRemembers DEF PlaceInv, OpenSince, OpsNow, Tests, NewChecked, historyVars
<1>2. CASE ~ UNCHANGED vars
  <2> SUFFICES ASSUME ~ cfg.skip_tests, NewChecked' # 0, pc' \in InTest, NEW m \in group'
               PROVE  OpenSince(m, ip - 1)'
    BY <1>0 DEF PlaceInv
  <2>1. /\ pc' \in InTest \ Between /\ pc' \notin {"enter", "done", "init"}
        /\ ip \in Nat \ {0}
    BY DEF TInv, SettledInv, InTest, Between, Calls, IInv, TypeOK
  <2>2. ~ NextIteration /\ ~ Recover
    BY <2>1 DEF NextIteration, Recover, HandleInterrupt, Exit
  <2>3. ~ Closes
    <3>1. ASSUME Closes PROVE NewChecked' = 0
      <4>1. \E label, next : Report(label, next)
        BY <3>1 DEF Closes, Reporting, ReportGroup, ReportRest
      <4> QED
        BY <4>1, ReportsAll
    <3> QED
      BY <3>1
  <2>4. CASE NewKey
    <3>1. /\ SameTest /\ pc = "body" /\ ip' = ip + 1 /\ Op = OpsNow[ip] /\ Op.kind = "check"
          /\ \E fv : fv \notin AllVersions(tree) /\ AddsVersion(fv)
      BY <2>4, NewKeyFacts
    <3>2. PICK fv : fv \notin AllVersions(tree) /\ AddsVersion(fv)
      BY <3>1
    <3>3. group' = group \cup {[version |-> fv, at |-> ip]}
      <4>1. Added = {fv}
        BY <3>2 DEF Added, AddsVersion
      <4> QED
        BY <2>3, <4>1 DEF Remembers
    <3>4. CASE m \in group
      <4>1. NewChecked # 0
        BY <2>4, <3>4, NothingWaits, NewKeyKeepsKInv
      <4>2. OpenSince(m, ip - 1)
        BY <3>1, <3>4, <4>1 DEF PlaceInv, InTest
      <4>3. OpenSince(m, ip)
        BY <2>1, <3>1, <3>4, <4>2, MemberPlaces, OpenSinceNext
      <4> QED
        BY <2>1, <3>1, <4>3, OpenSinceMoves
    <3>5. CASE m = [version |-> fv, at |-> ip]
      <4>1. m.at = ip
        BY <3>5
      <4>2. OpenSince(m, ip)
        BY <2>1, <3>1, <4>1 DEF OpenSince
      <4> QED
        BY <2>1, <3>1, <4>2, OpenSinceMoves
    <3> QED
      BY <3>3, <3>4, <3>5
  <2>5. CASE pc \in Between
    <3>1. NewChecked = 0 /\ UNCHANGED <<num_checked, prev_checked>>
      BY <1>0, <2>1, <2>5, BetweenMoves DEF TInv, SettledInv
    <3> QED
      BY <3>1 DEF NewChecked
  <2>6. CASE ~ NewKey /\ pc \notin Between
    <3>1. Onward /\ group' = group
      BY <1>0, <1>2, <2>1, <2>2, <2>3, <2>6, InTestMoves, SameGroup
    <3>2. SameTest /\ pc \in InTest
      BY <3>1 DEF Onward, InTest
    <3>3. CASE SkipKey /\ Restored(Op.name, Op.impl[cpu_flags])
      <4>1. OpenSince(m, ip) /\ ip' = ip + 1
        BY <3>1, <3>3, RestoredAtLast DEF SkipKey
      <4> QED
        BY <2>1, <3>2, <4>1, OpenSinceMoves
    <3>4. CASE ~ (SkipKey /\ Restored(Op.name, Op.impl[cpu_flags]))
      <4>1. NewChecked' = NewChecked
        <5>1. CASE SkipKey
          BY <3>4, <5>1 DEF SkipKey, SavedChecked, NewChecked, IInv, TypeOK
        <5>2. CASE ~ SkipKey
          BY <2>3, <3>1, <5>2 DEF Onward
        <5> QED
          BY <5>1, <5>2
      <4>2. OpenSince(m, ip - 1)
        BY <3>1, <3>2, <4>1 DEF PlaceInv
      <4>3. CASE ip' = ip
        BY <2>1, <3>2, <4>2, <4>3, OpenSinceMoves
      <4>4. CASE ip' = ip + 1
        <5>1. OpsNow[ip].kind # "report"
          BY <2>1, <3>1, <4>4 DEF Onward
        <5>2. OpenSince(m, ip)
          BY <2>1, <3>1, <4>2, <5>1, MemberPlaces, OpenSinceNext
        <5> QED
          BY <2>1, <3>2, <4>4, <5>2, OpenSinceMoves
      <4> QED
        BY <3>1, <4>3, <4>4 DEF Onward
    <3> QED
      BY <3>3, <3>4
  <2> QED
    BY <2>4, <2>5, <2>6
<1> QED
  BY <1>1, <1>2

(* A test is entered from the list of tests, or again after a crash.         *)
LEMMA EnterMoves ==
    ASSUME [Next]_vars, ~ UNCHANGED vars, pc' = "enter", interrupted' = None
    PROVE  SaveContext \/ Recover
<1> USE DEF signalVars, loopVars
<1>1. ~ Hang /\ ~ Terminated
  BY DEF Hang, Terminated
<1>2. CASE RunTests
  BY <1>2 DEF RunTests, InitHooks, SkipCpu, EnterCpu, SkipTest, EnterTest, Measure, LeaveCpu,
              UninitHooks, HandleInterrupt, Exit
<1>3. ~ CheckFunc /\ ~ Reports /\ ~ Summary
  BY DEF CheckFunc, IgnoreKey, SkipKey, NewKey, LoopInCheck, LoopForever, InOp, Reports,
         ShouldFail, ReportGroup, ReportRest, Report, HandleInterrupt, Exit, LoopInReport,
         Summary, Finish, NextIteration
<1>4. ~ TestBlock /\ ~ Bench
  BY DEF TestBlock, SkipBlock, CallRef, CallNew, CallInsteadOfBench, Call, Compare, InBlock, InOp,
         Bench, BenchStart, BenchArm, BenchSample, BenchFinish
<1>5. ~ Callee
  BY DEF Callee, Return, Crash, FailAbort, JumpOut, LoadContext
<1>6. ASSUME NEW s \in Interrupts, Interrupt(s) PROVE FALSE
  <2>1. s # None
    BY InterruptsAssumption
  <2> QED
    BY <1>6, <2>1 DEF Interrupt
<1> QED
  BY <1>1, <1>2, <1>3, <1>4, <1>5, <1>6 DEF Next, Step

(* Outside of a block, a test only checks, expects and reports.              *)
LEMMA NoBlockMoves ==
    ASSUME IInv, [Next]_vars, pc = "body", key_ref = NoKey, interrupted = None,
           ~ NewKey, ~ SkipKey
    PROVE  SameStates(tree, tree') /\ (InOp("check") => ~ Asks(ip) \/ ip' = ip)
<1> USE DEF signalVars, loopVars, cpuVars, keyVars, sumVars, savedVars, statVars,
            currentVars, dataVars
<1>1. CASE IgnoreKey
  <2>1. InOp("check") /\ Ignored(Op) /\ tree' = tree
    BY <1>1 DEF IgnoreKey
  <2>2. Op = OpsNow[ip]
    BY <2>1, BlockOp
  <2> QED
    BY <2>1, <2>2, SameTreeSameStates DEF Ignored, Asks, KeyAt
<1>2. CASE TestBlock
  <2>1. SkipBlock
    BY <1>2 DEF TestBlock, CallRef, CallNew, CallInsteadOfBench, Compare, InBlock
  <2> QED
    BY <2>1, SameTreeSameStates DEF SkipBlock, InOp
<1>3. CASE Reports
  <2>1. CASE ShouldFail \/ LoopInReport
    BY <2>1, SameTreeSameStates DEF ShouldFail, LoopInReport, LoopForever, InOp
  <2>2. CASE ReportGroup \/ ReportRest
    <3>1. \E label, next : Report(label, next)
      BY <2>2 DEF ReportGroup, ReportRest
    <3>2. InOp("check") => ip' = ip
      BY <2>2 DEF ReportGroup, ReportRest, InOp
    <3> QED
      BY <3>1, <3>2, ReportSameStates
  <2> QED
    BY <1>3, <2>1, <2>2 DEF Reports
<1>4. CASE LoopInCheck \/ (\E s \in Interrupts : Interrupt(s)) \/ UNCHANGED vars
  BY <1>4, SameTreeSameStates DEF LoopInCheck, LoopForever, Interrupt, vars
<1>5. ~ RunTests /\ ~ Recover /\ ~ Summary
  BY DEF RunTests, InitHooks, SkipCpu, EnterCpu, SkipTest, SaveContext, EnterTest, Measure,
         LeaveCpu, UninitHooks, Recover, Summary, Finish, NextIteration
<1>6. ~ Bench /\ ~ Callee /\ ~ Hang
  BY DEF Bench, BenchStart, BenchArm, BenchSample, BenchFinish, InBlock, Callee, Return, Crash,
         FailAbort, Hang, Executing, Calling, Calls
<1> QED
  BY <1>1, <1>2, <1>3, <1>4, <1>5, <1>6 DEF Next, Step, CheckFunc, Terminated

(* A crash sets the group aside, up to the check that recorded the version.  *)
LEMMA RecoverKeepsAside ==
    ASSUME IInv, KInv, IInv', GroupInv, PlaceInv, WaitsInv, Remembers, Recover, interrupted = None
    PROVE  AsideInv'
<1>1. /\ pc = "recover" /\ pc' = "enter" /\ SameTest /\ SetAside
      /\ func_ver \in AllVersions(tree) /\ func_ver' = func_ver
      /\ tree' = SetState(tree, func_ver, "crashed")
  BY DEF Recover, HandleInterrupt, SameTest, loopVars, cpuVars, IInv, TypeOK
<1>2. Guarded /\ pc \in InTest
  BY <1>1 DEF Guarded, InTest
<1>3. key_ref # NoKey /\ ip \in DOMAIN OpsNow /\ Op.kind \in BlockKinds
  BY <1>1, <1>2 DEF KInv, CallsInv
<1>4. PICK c \in 1 .. ip - 1 :
        /\ Culprit(c, func_ver)
        /\ \A p \in c + 1 .. ip - 1 : OpsNow[p].kind # "check"
  BY <1>2, <1>3, BlockFacts
<1>5. CrashedVersions = {} /\ Counted
  BY <1>2, <1>3, BlockFacts
<1>6. /\ Extends(tree, tree') /\ AllVersions(tree') = AllVersions(tree)
      /\ VersionAt(func_ver)'.key = VersionAt(func_ver).key
      /\ \A w \in AllVersions(tree) : w # func_ver => VersionAt(w)' = VersionAt(w)
      /\ \A j \in 1 .. func_ver[2] - 1 :
            tree'[func_ver[1]].versions[j] = tree[func_ver[1]].versions[j]
  BY <1>1, SetStateFacts DEF IInv
<1>7. ASSUME NEW fv \in CrashedVersions' PROVE fv = func_ver
  <2>1. fv \in AllVersions(tree) /\ VersionAt(fv)'.state = "crashed"
    BY <1>6, <1>7 DEF CrashedVersions
  <2>2. VersionAt(fv).state # "crashed"
    BY <1>5, <2>1 DEF CrashedVersions
  <2> QED
    BY <1>6, <2>1, <2>2
<1>8. /\ DOMAIN OpsNow = 1 .. Len(OpsNow) /\ Len(OpsNow) \in Nat /\ ip \in Nat \ {0}
      /\ OpsNow' = OpsNow
  BY <1>1, <1>2, OpsFacts, SameTestFacts
<1>9. Culprit(c, func_ver)' /\ c \in DOMAIN OpsNow
  BY <1>1, <1>4, <1>6, CulpritStays DEF IInv, Culprit
<1>10. FirstMet(c, func_ver)'
  <2>1. PICK d \in 1 .. ip - 1 :
          /\ OpsNow[d].kind = "check" /\ FirstMet(d, func_ver)
          /\ \A p \in d + 1 .. ip - 1 : OpsNow[p].kind # "check"
    BY <1>2, <1>3 DEF WaitsInv
  <2>2. c = d
    <3>1. OpsNow[c].kind = "check"
      BY <1>4 DEF Culprit, Asks
    <3>2. c \notin d + 1 .. ip - 1 /\ d \notin c + 1 .. ip - 1
      BY <1>4, <2>1, <3>1
    <3> QED
      BY <1>8, <3>2
  <2> QED
    BY <1>1, <1>6, <2>1, <2>2, FirstMetStays DEF IInv
<1>11. ASSUME NEW m \in group' PROVE OpenSince(m, c)'
  <2>1. ~ Closes /\ ~ NewKey
    BY <1>1, ClosesMoves DEF NewKey, InOp
  <2>2. m \in group /\ ~ cfg.skip_tests /\ NewChecked # 0
    BY <1>3, <1>5, <1>11, <2>1, SameGroup DEF IInv, ControlInv, Counted
  <2>3. OpenSince(m, ip - 1) /\ m.at \in Nat
    BY <1>2, <2>2, MemberPlaces DEF PlaceInv
  <2>4. m.at \notin c + 1 .. ip - 1
    BY <1>4, <2>3 DEF OpenSince
  <2>5. m.at <= c /\ \A i \in m.at .. c : i \in m.at .. ip - 1
    BY <1>8, <2>3, <2>4 DEF OpenSince
  <2>6. OpenSince(m, c)
    BY <2>3, <2>5 DEF OpenSince
  <2> QED
    BY <1>1, <2>6, OpenSinceStays
<1> QED
  BY <1>1, <1>7, <1>8, <1>9, <1>10, <1>11 DEF AsideInv

(* What is set aside waits for the check that recorded the crash.            *)
LEMMA StepKeepsAside ==
    ASSUME IInv, KInv, TInv, IInv', KInv', GroupInv, PlaceInv, WaitsInv, AsideInv, Remembers
    PROVE  AsideInv'
<1>0. [Next]_vars
  BY DEF Remembers
<1>1. CASE UNCHANGED vars
  <2>1. /\ SameTest /\ tree' = tree /\ group' = group /\ UNCHANGED <<pc, interrupted, ip>>
        /\ OpsNow' = OpsNow
    BY <1>1, StutterRemembers, SameTestFacts DEF SameTest, historyVars
  <2>2. SameStates(tree, tree') /\ Extends(tree, tree')
    BY <2>1, SameTreeSameStates, SameStatesExtend
  <2> SUFFICES ASSUME NEW fv \in CrashedVersions, pc \in {"enter", "body"}, interrupted = None
               PROVE  \E c \in DOMAIN OpsNow :
                        /\ Culprit(c, fv)' /\ FirstMet(c, fv)'
                        /\ \A m \in group : OpenSince(m, c)'
                        /\ pc = "body" => ip <= c
    BY <2>1, <2>2, SameVersions DEF AsideInv
  <2>3. PICK c \in DOMAIN OpsNow :
          /\ Culprit(c, fv) /\ FirstMet(c, fv)
          /\ \A m \in group : OpenSince(m, c)
          /\ pc = "body" => ip <= c
    BY DEF AsideInv
  <2>4. fv \in AllVersions(tree)
    BY DEF CrashedVersions
  <2> QED
    BY <2>1, <2>2, <2>3, <2>4, SameCulprit, FirstMetStays, OpenSinceStays DEF IInv
<1>2. CASE NewKey
  BY <1>2, NewKeyFacts DEF AsideInv
<1>3. CASE Recover
  <2>1. CASE interrupted = None
    BY <1>3, <2>1, RecoverKeepsAside
  <2>2. CASE interrupted # None
    BY <1>3, <2>2 DEF Recover, HandleInterrupt, Exit, AsideInv
  <2> QED
    BY <2>1, <2>2
<1>4. CASE ~ UNCHANGED vars /\ ~ NewKey /\ ~ Recover
  <2> SUFFICES ASSUME NEW fv \in CrashedVersions', pc' \in {"enter", "body"}, interrupted' = None
               PROVE  \E c \in DOMAIN OpsNow' :
                        /\ Culprit(c, fv)' /\ FirstMet(c, fv)'
                        /\ \A m \in group' : OpenSince(m, c)'
                        /\ pc' = "body" => ip' <= c
    BY DEF AsideInv
  <2>1. interrupted = None
    <3>1. \A s \in Interrupts : Interrupt(s) /\ interrupted' # interrupted => interrupted' = s
      BY DEF Interrupt
    <3> QED
      BY <1>0, <3>1, OnlyUsersInterrupt, InterruptsAssumption
  <2>2. CASE pc' = "enter"
    <3>1. SaveContext
      BY <1>0, <1>4, <2>2, EnterMoves
    <3>2. pc = "test" /\ tree' = tree
      BY <3>1 DEF SaveContext, dataVars, currentVars
    <3>3. CrashedVersions' = CrashedVersions
      BY <3>2, SameTreeSameStates, SameVersions
    <3> QED
      BY <3>2, <3>3 DEF KInv, RerunInv, Final
  <2>3. CASE pc' = "body" /\ pc \in Between
    <3>1. EnterTest
      BY <1>0, <2>3, BetweenMoves DEF Between, InTest
    <3>2. pc = "enter" /\ SameTest /\ tree' = tree /\ ip' = 1
      BY <3>1 DEF EnterTest, SameTest, loopVars, cpuVars
    <3>3. fv \in CrashedVersions /\ fv \in AllVersions(tree) /\ SameStates(tree, tree')
      BY <3>2, SameTreeSameStates, SameVersions DEF CrashedVersions
    <3>4. DOMAIN OpsNow = 1 .. Len(OpsNow) /\ Len(OpsNow) \in Nat /\ OpsNow' = OpsNow
      BY <3>2, OpsFacts, SameTestFacts DEF InTest
    <3>5. PICK c \in DOMAIN OpsNow :
            Culprit(c, fv) /\ FirstMet(c, fv) /\ \A m \in group : OpenSince(m, c)
      BY <2>1, <3>2, <3>3 DEF AsideInv
    <3>6. group' = group
      <4>1. ~ Closes
        BY <3>2, ClosesMoves
      <4> QED
        BY <1>4, <4>1, SameGroup
    <3>7. Culprit(c, fv)' /\ FirstMet(c, fv)' /\ \A m \in group' : OpenSince(m, c)'
      BY <3>2, <3>3, <3>5, <3>6, SameCulprit, FirstMetStays, SameStatesExtend, OpenSinceStays
         DEF IInv
    <3> QED
      BY <3>2, <3>4, <3>5, <3>7
  <2>4. CASE pc' = "body" /\ pc \notin Between
    <3>1. Onward
      BY <1>0, <1>4, <2>4, InTestMoves DEF Between, InTest
    <3>2. SameTest /\ pc \in {"body", "arm"} \cup Calls /\ Guarded
      BY <2>4, <3>1 DEF Onward, Guarded
    <3>3. CrashedVersions # {}
      <4> SUFFICES ASSUME CrashedVersions = {} PROVE FALSE
        OBVIOUS
      <4>1. saved_checked = 0
        BY SumTypes
      <4>2. saved_checked' = 0
        <5>1. CASE SkipKey
          BY <4>1, <5>1 DEF SkipKey, RestoreSaved, savedVars
        <5>2. CASE Closes
          BY <4>1, <5>2 DEF Closes, Reporting, ReportGroup, ReportRest, Report, savedVars
        <5>3. CASE ~ SkipKey /\ ~ Closes
          BY <3>1, <4>1, <5>3 DEF Onward
        <5> QED
          BY <5>1, <5>2, <5>3
      <4> QED
        BY <4>2 DEF KInv, SumsInv
    <3>4. pc = "body" /\ key_ref = NoKey /\ NewChecked = 0
      <4>1. pc = "body"
        BY <3>2, <3>3 DEF KInv, RerunInv, Final, Calls
      <4>2. saved_checked > 0
        BY <3>3 DEF KInv, SumsInv
      <4> QED
        BY <3>2, <3>3, <4>1, <4>2 DEF KInv, BlockInv, TInv, SettledInv
    <3>5. group' = group
      BY <1>4, <3>4, SameGroup DEF Closes
    <3>6. SameStates(tree, tree') /\ (ip' # ip => ~ Culprit(ip, fv))
      <4>1. CASE SkipKey
        <5> DEFINE f == Op.name
                   key == Op.impl[cpu_flags]
        <5>1. InOp("check") /\ tree' = SettledTree(f, key)
          BY <4>1 DEF SkipKey
        <5>2. Op = OpsNow[ip] /\ test \in 1 .. Len(Tests)
          BY <5>1, BlockOp DEF IInv, ControlInv
        <5>3. f \in Names
          BY <5>1, <5>2, CheckOp DEF IInv
        <5>4. ~ Restored(f, key)
          BY <5>1, <5>3, RestoredAll DEF IInv, KInv
        <5>5. SameStates(tree, tree')
          BY <5>1, <5>3, <5>4, NotRestored DEF IInv
        <5>6. fv \in CrashedVersions
          BY <5>5, SameVersions
        <5> QED
          BY <5>2, <5>4, <5>5, <5>6, CulpritRestores DEF IInv, KeyAt
      <4>2. CASE ~ SkipKey
        <5>1. SameStates(tree, tree') /\ (InOp("check") => ~ Asks(ip) \/ ip' = ip)
          BY <1>0, <1>4, <2>1, <3>4, <4>2, NoBlockMoves
        <5>2. Culprit(ip, fv) => InOp("check") /\ Asks(ip)
          <6>1. Op = OpsNow[ip] /\ DOMAIN OpsNow = 1 .. Len(OpsNow)
            BY <3>4, OpsFacts DEF InTest
          <6> QED
            BY <3>4, <6>1 DEF Culprit, Asks, InOp, OpsNow
        <5> QED
          BY <5>1, <5>2
      <4> QED
        BY <4>1, <4>2
    <3>7. fv \in CrashedVersions /\ fv \in AllVersions(tree)
      BY <3>6, SameVersions DEF CrashedVersions
    <3>8. PICK c \in DOMAIN OpsNow :
            Culprit(c, fv) /\ FirstMet(c, fv) /\ (\A m \in group : OpenSince(m, c)) /\ ip <= c
      BY <2>1, <3>4, <3>7 DEF AsideInv
    <3>9. Culprit(c, fv)' /\ FirstMet(c, fv)' /\ \A m \in group' : OpenSince(m, c)'
      BY <3>2, <3>5, <3>6, <3>7, <3>8, SameCulprit, FirstMetStays, SameStatesExtend,
         OpenSinceStays DEF IInv
    <3>10. ip' <= c /\ c \in DOMAIN OpsNow'
      <4>1. OpsNow' = OpsNow /\ DOMAIN OpsNow = 1 .. Len(OpsNow) /\ ip \in Nat
        BY <3>2, <3>4, OpsFacts, SameTestFacts DEF InTest
      <4>2. ip' # ip => c # ip
        BY <3>6, <3>8
      <4>3. ip' = ip \/ ip' = ip + 1
        BY <3>1 DEF Onward
      <4> QED
        BY <3>8, <4>1, <4>2, <4>3
    <3> QED
      BY <3>9, <3>10
  <2> QED
    BY <2>2, <2>3, <2>4
<1> QED
  BY <1>1, <1>2, <1>3, <1>4

-----------------------------------------------------------------------------
(* What crashed, and what is called.                                         *)

(* Keys stay, and so do the versions that ceased to work.                    *)
LEMMA KeysStay ==
    ASSUME TypeOK, Extends(tree, tree'), NEW v \in AllVersions(tree)
    PROVE  /\ v \in AllVersions(tree') /\ VersionAt(v)'.key = VersionAt(v).key
           /\ VersionAt(v).state # "ok" => VersionAt(v)'.state # "ok"
<1>1. v[1] \in Names /\ v[2] \in DOMAIN tree[v[1]].versions /\ v = <<v[1], v[2]>>
  BY PlaceFacts
<1>2. v[2] \in DOMAIN tree'[v[1]].versions
  BY <1>1 DEF Extends
<1>3. v \in AllVersions(tree')
  BY <1>1, <1>2, MemberOfAllVersions
<1> QED
  BY <1>1, <1>3 DEF Extends, VersionAt

(* No two versions of a function get the same key.                           *)
LEMMA StepKeepsKeys ==
    ASSUME IInv, KInv, IInv', DistinctKeys, [Next]_vars
    PROVE  DistinctKeys'
<1>1. CASE NextIteration
  <2>1. AllVersions(tree') = {}
    BY <1>1, EmptyRegistry DEF NextIteration, ClearPointers
  <2> QED
    BY <2>1 DEF DistinctKeys
<1>2. CASE NewKey
  <2>1. PICK fv : fv \notin AllVersions(tree) /\ AddsVersion(fv)
    BY <1>2, NewKeyKeepsKInv
  <2>2. \A v \in AllVersions(tree) : VersionAt(v)' = VersionAt(v)
    BY <2>1 DEF AddsVersion, VersionAt
  <2>3. VersionAt(fv)'.key = KeyAt(ip)
    BY <2>1 DEF AddsVersion, VersionAt
  <2>4. \A v \in AllVersions(tree) : v[1] = fv[1] => VersionAt(v)'.key # VersionAt(fv)'.key
    BY <2>1, <2>2, <2>3 DEF AddsVersion
  <2>5. AllVersions(tree') = AllVersions(tree) \cup {fv}
    BY <2>1 DEF AddsVersion
  <2> QED
    BY <2>2, <2>4, <2>5 DEF DistinctKeys
<1>3. CASE ~ NextIteration /\ ~ NewKey
  <2>1. AllVersions(tree') = AllVersions(tree)
    BY <1>3, OnlyNewKeyCounts DEF SameCount
  <2>2. \A v \in AllVersions(tree) : VersionAt(v)'.key = VersionAt(v).key
    BY <1>3, StepExtends, KeysStay DEF IInv
  <2> QED
    BY <2>1, <2>2 DEF DistinctKeys
<1> QED
  BY <1>1, <1>2, <1>3

(* Every crash is remembered by the version it hit, which does not work.     *)
LEMMA StepKeepsCrashes ==
    ASSUME IInv, KInv, IInv', Remembers,
           \A x \in crashed : \E v \in AllVersions(tree) : CrashedVersion(x, v)
    PROVE  \A x \in crashed' : \E v \in AllVersions(tree') : CrashedVersion(x, v)'
<1>0. [Next]_vars
  BY DEF Remembers
<1>1. CASE NextIteration
  BY <1>1 DEF Remembers, NextIteration, Recover
<1>2. CASE ~ NextIteration
  <2>1. ASSUME NEW x \in crashed
        PROVE  \E v \in AllVersions(tree') : CrashedVersion(x, v)'
    <3>1. PICK v \in AllVersions(tree) : CrashedVersion(x, v)
      OBVIOUS
    <3>2. /\ v \in AllVersions(tree') /\ VersionAt(v)'.key = VersionAt(v).key
          /\ VersionAt(v).state # "ok" => VersionAt(v)'.state # "ok"
      BY <1>0, <1>2, StepExtends, KeysStay DEF IInv
    <3> QED
      BY <3>1, <3>2 DEF CrashedVersion
  <2>2. CASE Recover /\ tree' # tree
    <3>1. /\ func_ver \in AllVersions(tree) /\ func_ver' = func_ver
          /\ tree' = SetState(tree, func_ver, "crashed")
      BY <2>2 DEF Recover, IInv, TypeOK
    <3>2. /\ VersionAt(func_ver)'.state = "crashed"
          /\ VersionAt(func_ver)'.key = VersionAt(func_ver).key
          /\ AllVersions(tree') = AllVersions(tree)
      BY <3>1, SetStateFacts DEF IInv
    <3>3. \A x \in {<<func_ver[1], VersionAt(func_ver).key>>} :
              \E v \in AllVersions(tree') : CrashedVersion(x, v)'
      <4> SUFFICES ASSUME NEW x, x = <<func_ver[1], VersionAt(func_ver).key>>
                   PROVE  \E v \in AllVersions(tree') : CrashedVersion(x, v)'
        OBVIOUS
      <4> SUFFICES ASSUME NEW v, v = func_ver PROVE CrashedVersion(x, v)'
        BY <3>1, <3>2
      <4> QED
        BY <3>1, <3>2 DEF CrashedVersion, VersionAt
    <3> QED
      BY <2>1, <2>2, <3>3 DEF Remembers
  <2>3. CASE ~ (Recover /\ tree' # tree)
    BY <1>2, <2>1, <2>3 DEF Remembers
  <2> QED
    BY <2>2, <2>3
<1> QED
  BY <1>1, <1>2

(* What is called is the reference or the version under test.                *)
LEMMA StepKeepsCallee ==
    ASSUME [Next]_vars, Calling => callee \in {key_ref, key_new}, Calling'
    PROVE  callee' \in {key_ref', key_new'}
<1> USE DEF signalVars, loopVars, keyVars, dataVars, Calling, Calls
<1>1. ~ RunTests /\ ~ Recover
  BY DEF RunTests, InitHooks, SkipCpu, EnterCpu, SkipTest, SaveContext, EnterTest, Measure,
         LeaveCpu, UninitHooks, HandleInterrupt, Exit, Recover
<1>2. ~ CheckFunc /\ ~ Reports /\ ~ Summary
  BY DEF CheckFunc, IgnoreKey, SkipKey, NewKey, LoopInCheck, LoopForever, InOp, Reports,
         ShouldFail, ReportGroup, ReportRest, Report, HandleInterrupt, Exit, LoopInReport,
         Summary, Finish, NextIteration
<1>3. CASE TestBlock
  BY <1>3 DEF TestBlock, SkipBlock, CallRef, CallNew, CallInsteadOfBench, Call, Compare, InBlock,
              InOp
<1>4. CASE Bench
  BY <1>4 DEF Bench, BenchStart, BenchArm, BenchSample, BenchFinish, Call
<1>5. ~ Callee
  BY DEF Callee, Return, Crash, FailAbort, JumpOut, LoadContext
<1>6. CASE \E s \in Interrupts : Interrupt(s)
  BY <1>6 DEF Interrupt, InterruptJump, JumpOut, LoadContext
<1>7. CASE UNCHANGED vars \/ Hang \/ Terminated
  BY <1>7 DEF vars, Hang, Terminated
<1> QED
  BY <1>1, <1>2, <1>3, <1>4, <1>5, <1>6, <1>7 DEF Next, Step

(* Neither of them has crashed.                                              *)
LEMMA StepKeepsUncrashed ==
    ASSUME IInv, KInv, IInv', KInv', CrashedInv, Remembers, Guarded', key_ref' # NoKey
    PROVE  /\ <<func_ver'[1], key_ref'>> \notin crashed'
           /\ <<func_ver'[1], key_new'>> \notin crashed'
<1>0. [Next]_vars
  BY DEF Remembers
<1>1. CASE UNCHANGED vars
  <2>1. Guarded /\ UNCHANGED <<func_ver, key_ref, key_new, crashed>>
    BY <1>1, StutterRemembers DEF Guarded, historyVars
  <2> QED
    BY <2>1 DEF CrashedInv
<1>2. CASE ~ UNCHANGED vars
  <2>1. /\ pc' \in InTest \ Between /\ pc' \notin {"enter", "done", "init"}
        /\ pc' = "recover" => interrupted' = None
    BY DEF Guarded, InTest, Between, Calls
  <2>2. ~ NextIteration /\ ~ Recover
    BY <2>1 DEF NextIteration, Recover, HandleInterrupt, Exit
  <2>3. crashed' = crashed
    BY <2>2 DEF Remembers
  <2>4. CASE NewKey
    <3>1. SameTest /\ \E fv : fv \notin AllVersions(tree) /\ AddsVersion(fv)
      BY <2>4, NewKeyFacts
    <3>2. PICK fv : fv \notin AllVersions(tree) /\ AddsVersion(fv)
      BY <3>1
    <3>3. func_ver' = fv
      <4>1. ~ cfg.skip_tests
        BY <3>1 DEF SameTest, IInv, ControlInv
      <4> QED
        BY <3>2, <4>1 DEF AddsVersion
    <3>4. <<fv[1], KeyAt(ip)>> \notin crashed
      <4>1. ASSUME NEW v \in AllVersions(tree), <<fv[1], KeyAt(ip)>> = <<v[1], VersionAt(v).key>>
            PROVE  FALSE
        BY <3>2, <4>1 DEF AddsVersion
      <4> QED
        BY <4>1 DEF CrashedInv, CrashedVersion
    <3>5. ASSUME NEW w \in AllVersions(tree), w[1] = fv[1], VersionAt(w).state = "ok"
          PROVE  <<fv[1], VersionAt(w).key>> \notin crashed
      BY <3>5 DEF CrashedInv, DistinctKeys, CrashedVersion
    <3> QED
      BY <2>3, <3>2, <3>3, <3>4, <3>5 DEF AddsVersion
  <2>5. CASE pc \in Between
    BY <1>0, <2>1, <2>5, BetweenMoves DEF EnterTest
  <2>6. CASE ~ NewKey /\ pc \notin Between
    <3>1. Onward
      BY <1>0, <1>2, <2>1, <2>2, <2>6, InTestMoves
    <3>2. Guarded /\ UNCHANGED <<func_ver, key_ref, key_new>>
      BY <2>1, <3>1 DEF Onward, Guarded
    <3> QED
      BY <2>3, <3>2 DEF CrashedInv
  <2> QED
    BY <2>4, <2>5, <2>6
<1> QED
  BY <1>1, <1>2

(* What crashed is not called.                                               *)
LEMMA StepKeepsCrashed ==
    ASSUME IInv, KInv, IInv', KInv', CrashedInv, Remembers
    PROVE  CrashedInv'
<1>1. /\ DistinctKeys /\ [Next]_vars
      /\ Calling => callee \in {key_ref, key_new}
      /\ \A x \in crashed : \E v \in AllVersions(tree) : CrashedVersion(x, v)
  BY DEF CrashedInv, Remembers
<1>2. DistinctKeys'
  BY <1>1, StepKeepsKeys
<1>3. \A x \in crashed' : \E v \in AllVersions(tree') : CrashedVersion(x, v)'
  BY <1>1, StepKeepsCrashes
<1>4. Calling' => callee' \in {key_ref', key_new'}
  BY <1>1, StepKeepsCallee
<1> QED
  BY <1>2, <1>3, <1>4, StepKeepsUncrashed DEF CrashedInv

-----------------------------------------------------------------------------
(* What the runner counts as unexpected, and its exit status.                *)

(* The failures counted so far change with a report, and the exit status     *)
(* with the end of the run.                                                  *)
LEMMA SameVerdict ==
    ASSUME [Next]_vars, ~ Closes, ~ NextIteration
    PROVE  prev_failed' = prev_failed /\ (~ Finish => exit_code' \in {exit_code, "signal"})
<1> USE DEF signalVars, loopVars, cpuVars, keyVars, sumVars, savedVars, statVars,
            currentVars, dataVars
<1>1. CASE UNCHANGED vars \/ Hang \/ Terminated \/ \E s \in Interrupts : Interrupt(s)
  BY <1>1 DEF vars, Hang, Terminated, Interrupt
<1>2. CASE RunTests
  BY <1>2 DEF RunTests, InitHooks, SkipCpu, EnterCpu, SkipTest, SaveContext, EnterTest,
              Measure, LeaveCpu, UninitHooks, HandleInterrupt, Exit
<1>3. CASE Recover \/ CheckFunc
  BY <1>3 DEF Recover, HandleInterrupt, Exit, CheckFunc, IgnoreKey, SkipKey, NewKey, LoopInCheck,
              LoopForever
<1>4. CASE TestBlock \/ Bench
  BY <1>4 DEF TestBlock, SkipBlock, CallRef, CallNew, CallInsteadOfBench, Call, Compare, Bench,
              BenchStart, BenchArm, BenchSample, BenchFinish
<1>5. CASE Callee \/ Summary
  BY <1>5 DEF Callee, Return, Crash, FailAbort, Summary, Finish
<1>6. CASE Reports
  <2>1. CASE Reporting
    <3>1. (\E label, next : Report(label, next)) /\ NewChecked = 0
      BY <2>1 DEF Reporting, ReportGroup, ReportRest, Closes
    <3> QED
      BY <3>1 DEF Report, HandleInterrupt, Exit
  <2>2. CASE ShouldFail \/ LoopInReport
    BY <2>2 DEF ShouldFail, LoopInReport, LoopForever
  <2> QED
    BY <1>6, <2>1, <2>2 DEF Reports, Reporting
<1> QED
  BY <1>1, <1>2, <1>3, <1>4, <1>5, <1>6 DEF Next, Step

(* A group that is closed counts as unexpected exactly what it should not    *)
(* have been.                                                                *)
LEMMA ClosingCounts ==
    ASSUME IInv, KInv, TInv, GroupInv, Closes
    PROVE  /\ prev_failed' = prev_failed + GroupFailures /\ GroupFailures \in Nat
           /\ GroupFailures > 0 <=> Broken(group) # (IF should_fail THEN group ELSE {})
           /\ exit_code' \in {"running", "signal"}
<1>1. pc = "body" /\ NewChecked # 0 /\ \E label, next : Report(label, next)
  BY ClosesMoves DEF Closes, Reporting, ReportGroup, ReportRest
<1>2. ~ cfg.skip_tests /\ exit_code = "running"
  BY <1>1 DEF TInv, SettledInv, ListingInv
<1>3. prev_failed' = prev_failed + GroupFailures /\ exit_code' \in {"running", "signal"}
  BY <1>1, <1>2 DEF Report, HandleInterrupt, Exit
<1>4. saved_checked = 0 /\ saved_failed = 0
  BY <1>1, SumTypes DEF TInv, SettledInv
<1>5. /\ IsFiniteSet(group) /\ NewChecked = Cardinality(group)
      /\ NewFailed = Cardinality(Broken(group))
  BY <1>2, <1>4, SumTypes DEF GroupInv, OpenNow, BrokenNow, NewChecked, NewFailed
<1>6. Broken(group) \subseteq group
  BY DEF Broken
<1>7. /\ IsFiniteSet(Broken(group)) /\ Cardinality(Broken(group)) <= Cardinality(group)
      /\ Cardinality(Broken(group)) = Cardinality(group) => Broken(group) = group
  BY <1>5, <1>6, FS_Subset
<1>8. Cardinality(group) \in Nat /\ Cardinality(Broken(group)) \in Nat
  BY <1>5, <1>7, FS_CardinalityType
<1>9. Cardinality(Broken(group)) = 0 <=> Broken(group) = {}
  BY <1>7, FS_EmptySet
<1>10. CASE should_fail
  <2>1. GroupFailures = Cardinality(group) - Cardinality(Broken(group))
    BY <1>1, <1>5, <1>10 DEF GroupFailures
  <2>2. GroupFailures \in Nat /\ (GroupFailures > 0 <=> Broken(group) # group)
    BY <1>7, <1>8, <2>1
  <2> QED
    BY <1>3, <1>10, <2>2
<1>11. CASE ~ should_fail
  <2>1. GroupFailures = Cardinality(Broken(group))
    BY <1>5, <1>11 DEF GroupFailures
  <2>2. GroupFailures \in Nat /\ (GroupFailures > 0 <=> Broken(group) # {})
    BY <1>8, <1>9, <2>1
  <2> QED
    BY <1>3, <1>11, <2>2
<1> QED
  BY <1>10, <1>11

(* Something was counted as unexpected if and only if a group was wrong.     *)
LEMMA StepKeepsWrong ==
    ASSUME IInv, KInv, TInv, GroupInv, WrongInv, Remembers
    PROVE  WrongInv'
<1>0. [Next]_vars /\ (wrong <=> prev_failed > 0) /\ prev_failed \in Nat
  BY SumTypes DEF Remembers, WrongInv, TInv, SettledInv
<1>1. CASE Closes
  <2>1. /\ prev_failed' = prev_failed + GroupFailures /\ GroupFailures \in Nat
        /\ GroupFailures > 0 <=> Broken(group) # (IF should_fail THEN group ELSE {})
        /\ exit_code' \in {"running", "signal"}
    BY <1>1, ClosingCounts
  <2>2. wrong' <=> wrong \/ Broken(group) # (IF should_fail THEN group ELSE {})
    BY <1>1, Zenon DEF Remembers
  <2>3. wrong' <=> wrong \/ GroupFailures > 0
    BY <2>1, <2>2, Zenon
  <2>4. prev_failed' > 0 <=> prev_failed > 0 \/ GroupFailures > 0
    BY <1>0, <2>1
  <2> QED
    BY <1>0, <2>1, <2>3, <2>4 DEF WrongInv
<1>2. CASE NextIteration
  <2>1. /\ pc = "summary" /\ num_failed = 0 /\ prev_failed' = 0 /\ exit_code' = exit_code
    BY <1>2 DEF NextIteration, ClearSums
  <2>2. NewChecked = 0 /\ exit_code = "running" /\ ~ Closes
    BY <2>1, ClosesMoves DEF TInv, SettledInv, Between
  <2>3. prev_failed = 0
    BY <1>0, <2>1, <2>2, SumTypes DEF NewFailed
  <2>4. wrong' <=> wrong
    BY <2>2, Zenon DEF Remembers
  <2> QED
    BY <1>0, <2>1, <2>2, <2>3, <2>4 DEF WrongInv
<1>3. CASE ~ Closes /\ ~ NextIteration
  <2>1. prev_failed' = prev_failed /\ (~ Finish => exit_code' \in {exit_code, "signal"})
    BY <1>0, <1>3, SameVerdict
  <2>2. wrong' <=> wrong
    BY <1>3, Zenon DEF Remembers
  <2>3. exit_code' \in {"0", "1"} => (exit_code' = "1" <=> prev_failed > 0)
    <3>1. CASE Finish
      <4>1. /\ pc = "summary"
            /\ exit_code' = IF cfg.skip_tests \/ num_failed = 0 THEN "0" ELSE "1"
        BY <3>1 DEF Finish, Exit
      <4>2. NewChecked = 0
        BY <4>1 DEF TInv, SettledInv, Between
      <4>3. num_failed = prev_failed
        BY <4>2, SumTypes DEF NewFailed
      <4>4. cfg.skip_tests => prev_failed = 0
        BY DEF TInv, ListingInv
      <4>5. exit_code' = "1" <=> num_failed # 0
        BY <4>1, <4>3, <4>4
      <4> QED
        BY <1>0, <4>3, <4>5
    <3>2. CASE ~ Finish
      BY <2>1, <3>2 DEF WrongInv
    <3> QED
      BY <3>1, <3>2
  <2> QED
    BY <1>0, <2>1, <2>2, <2>3 DEF WrongInv
<1> QED
  BY <1>1, <1>2, <1>3

-----------------------------------------------------------------------------
(* The theorems.                                                             *)

(* Nothing has happened yet.                                                 *)
LEMMA InitHistory ==
    ASSUME HInit
    PROVE  HistoryInv
<1>1. /\ Init /\ group = {} /\ crashed = {} /\ (wrong <=> FALSE)
      /\ num_checked = 0 /\ num_failed = 0 /\ prev_checked = 0 /\ prev_failed = 0
      /\ saved_checked = 0 /\ saved_failed = 0 /\ pc = "init" /\ exit_code = "running"
  BY DEF HInit, Init, Cleared
<1>2. AllVersions(tree) = {}
  BY <1>1, EmptyRegistry DEF Init, Cleared
<1>3. GroupInv
  <2>1. Broken(group) = {}
    BY <1>1 DEF Broken
  <2> QED
    BY <1>1, <2>1, FS_EmptySet DEF GroupInv, OpenNow, BrokenNow
<1>4. PlaceInv /\ WaitsInv /\ AsideInv
  BY <1>1, <1>2 DEF PlaceInv, WaitsInv, AsideInv, CrashedVersions, InTest, Guarded, Calls
<1>5. CrashedInv /\ WrongInv
  BY <1>1, <1>2 DEF CrashedInv, DistinctKeys, WrongInv, Calling, Guarded, Calls
<1> QED
  BY <1>3, <1>4, <1>5 DEF HistoryInv

(* Every step of the runner keeps what is remembered of it true.             *)
LEMMA StepKeepsHistory ==
    ASSUME IInv, KInv, TInv, IInv', KInv', TInv', HistoryInv, [HNext]_<<vars, historyVars>>
    PROVE  HistoryInv'
<1>1. Remembers
  BY HistorySteps
<1> QED
  BY <1>1, StepKeepsGroup, StepKeepsPlace, StepKeepsWaits, StepKeepsAside, StepKeepsCrashed,
     StepKeepsWrong
     DEF HistoryInv

(* A run that is remembered is a run.                                        *)
LEMMA HistoryOfRun == HSpec => [](IInv /\ KInv /\ TInv /\ HistoryInv)
<1>1. HInit => Init
  BY DEF HInit
<1>2. IInv /\ [HNext]_<<vars, historyVars>> => [Next]_vars
  BY HistorySteps DEF Remembers
<1>3. Init => IInv /\ KInv /\ TInv
  BY InitIInv, InitKInv, InitMaps
<1>4. IInv /\ KInv /\ TInv /\ [Next]_vars => IInv' /\ KInv' /\ TInv'
  BY StepKeepsIInv, StepKeepsKInv, StepMaps
<1>5. IInv /\ KInv /\ TInv /\ HistoryInv /\ [HNext]_<<vars, historyVars>>
          => IInv' /\ KInv' /\ TInv' /\ HistoryInv'
  BY <1>2, <1>4, StepKeepsHistory
<1>6. HInit => IInv /\ KInv /\ TInv /\ HistoryInv
  BY <1>1, <1>3, InitHistory
<1> QED
  BY <1>5, <1>6, PTL DEF HSpec

(* However many functions crash, and whatever is restored: the sums are      *)
(* those of the versions recorded since the last report, and of the broken   *)
(* ones among them (checkasm.c:590-594, 962-963, 1122-1153).                 *)
THEOREM SumsDescribeGroup == HSpec => []GroupIsCounted
<1>1. HistoryInv => GroupIsCounted
  BY DEF HistoryInv, GroupInv, GroupIsCounted, OpenNow, BrokenNow
<1> QED
  BY <1>1, HistoryOfRun, PTL

(* Whatever crashed, and failed before it in its group, is reported with the *)
(* report that follows the check that recorded it: the rerun passes every    *)
(* earlier one with the sums set aside (checkasm.c:587-601, 958-970).        *)
THEOREM CrashesReportedInPlace == HSpec => RightReport
<1> DEFINE Right == Reporting /\ NewChecked # 0 =>
                       \A m \in group :
                          /\ m.at < ip
                          /\ \A i \in m.at .. ip - 1 : Tests[test].ops[i].kind # "report"
<1>1. ASSUME IInv, KInv, TInv, HistoryInv PROVE Right
  <2> SUFFICES ASSUME Closes, NEW m \in group
               PROVE  m.at < ip /\ \A i \in m.at .. ip - 1 : OpsNow[i].kind # "report"
    BY DEF Closes, OpsNow
  <2>1. pc \in InTest /\ NewChecked # 0 /\ ip \in Nat /\ ~ cfg.skip_tests
    BY <1>1, ClosesMoves DEF Closes, InTest, IInv, TypeOK, TInv, ListingInv
  <2>2. OpenSince(m, ip - 1) /\ m.at \in Nat
    BY <1>1, <2>1, MemberPlaces DEF HistoryInv, PlaceInv
  <2> QED
    BY <2>1, <2>2 DEF OpenSince
<1>2. IInv /\ KInv /\ TInv /\ HistoryInv /\ [HNext]_<<vars, historyVars>>
          => [Right]_<<vars, historyVars>>
  BY <1>1
<1> HIDE DEF Right
<1>3. HSpec => [][Right]_<<vars, historyVars>>
  BY <1>2, HistoryOfRun, PTL DEF HSpec
<1> QED
  BY <1>3 DEF RightReport, Right

(* A function that crashed is called neither in the rerun of its test nor as *)
(* a reference later in the iteration (checkasm.c:972-979).                  *)
THEOREM CrashedNeverCalled == HSpec => []NoCallAfterCrash
<1>1. ASSUME IInv, HistoryInv PROVE NoCallAfterCrash
  <2> SUFFICES ASSUME Calling PROVE <<func_ver[1], callee>> \notin crashed
    BY DEF NoCallAfterCrash
  <2>1. key_ref # NoKey /\ Guarded /\ callee \in {key_ref, key_new}
    BY <1>1 DEF IInv, ControlInv, Calling, Guarded, HistoryInv, CrashedInv
  <2> QED
    BY <1>1, <2>1 DEF HistoryInv, CrashedInv
<1> QED
  BY <1>1, HistoryOfRun, PTL

(* The program fails exactly when some group had a result it should not have *)
(* had (checkasm.c:846, 1126-1128; test.h:291-293).                          *)
THEOREM StatusTellsResult == HSpec => []ExitStatus
<1>1. HistoryInv => ExitStatus
  BY DEF HistoryInv, WrongInv, ExitStatus
<1> QED
  BY <1>1, HistoryOfRun, PTL
=============================================================================
