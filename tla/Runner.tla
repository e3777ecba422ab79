------------------------------- MODULE Runner -------------------------------
(***************************************************************************)
(* checkasm_run(): the process that walks the CPU flags and the tests, lets *)
(* a test function check, call and benchmark implementations, survives the *)
(* signals they raise, and reports and sums up what failed (checkasm.c,      *)
(* signal.c, stackguard.c and the calling macros of checkasm/test.h).        *)
(*                                                                         *)
(* A test function is data: the straight-line list of the framework calls   *)
(* it makes.  What an implementation does when it is called is Behaviour.    *)
(***************************************************************************)
EXTENDS Versions

CONSTANTS
    Flags,       \* CPU feature flags
    Configs,     \* the CheckasmConfigs a program may run with
    Interrupts,  \* the signals a user sends: SIGINT, SIGTERM
    None,        \* no interrupt so far
    Behaviour,   \* what each implementation may do when it is called
    Value,       \* what each implementation computes
    RefValue,    \* in a comparison: what the reference computes
    SampleLimit  \* samples after which checkasm_bench_runs() returns 0

(* What a test function does, one framework call after the other.  impl is    *)
(* the getter that picks an implementation for the flags in force.           *)
Ops ==
    [ kind : {"check"}, name : Names, variant : BOOLEAN,
      impl : [SUBSET Flags -> Keys \cup {NoKey}] ]
    \cup [ kind : {"ref", "new", "bench"} ]
    \cup [ kind : {"compare"}, want : Int ]
    \cup [ kind : {"should_fail"}, flags : SUBSET Flags ]
    \cup [ kind : {"report"}, label : Labels ]

Test == [ enabled : BOOLEAN, ops : Seq(Ops) ]
CpuInfo == [ flag : SUBSET Flags, mask : SUBSET Flags ]

Config ==
    [ tests : Seq(Test), cpu_flags : Seq(CpuInfo), cpu : SUBSET Flags,
      functions : SUBSET Names, bench : BOOLEAN, repeat : Nat \ {0},
      skip_tests : BOOLEAN ]

(* The block of a check ends before its group is reported: after a report    *)
(* nothing is called, compared or measured until something else is checked   *)
(* (test.h:157-178).                                                         *)
ReportsEndBlocks(ops) ==
    \A r, i \in DOMAIN ops :
        r < i /\ ops[r].kind = "report" /\ ops[i].kind \in {"ref", "new", "compare", "bench"} =>
            \E k \in r + 1 .. i - 1 : ops[k].kind = "check"

ASSUME ConfigsAssumption == Configs \subseteq Config
ASSUME BlocksAssumption ==
    \A c \in Configs : \A t \in DOMAIN c.tests : ReportsEndBlocks(c.tests[t].ops)
ASSUME ValueAssumption == Value \in [Keys -> Int] /\ RefValue \in Int
ASSUME InterruptsAssumption == Interrupts \cap {None, "off", "armed", "fault"} = {}
ASSUME BehaviourAssumption ==
    Behaviour \in [Keys -> (SUBSET {"return", "fault", "clobber", "hang"}) \ {{}}]
ASSUME SampleLimitAssumption == SampleLimit \in Nat \ {0}

VARIABLES
    \* what checkasm_run() was given
    cfg,
    \* static state of signal.c, and the frame checkasm_context was saved in
    sig, interrupted, handlers, context,
    \* control: where the process is, and how it ended
    pc, info, test, ip, callee, iter, exit_code,
    \* current: set by check_cpu_flag()
    cpu, cpu_flags, should_fail, report_idx,
    \* current: set per function, and the statics of the test's own file
    func, func_ver, key_ref, key_new,
    \* current: the registry and the sums over the run
    tree, num_funcs, num_checked, num_failed, num_benched,
    prev_checked, prev_failed, saved_checked, saved_failed,
    \* stats: who produced each sample of the measurement under way
    samples

signalVars == <<sig, interrupted, handlers, context>>
loopVars   == <<info, test, iter>>
cpuVars    == <<cpu, cpu_flags>>
keyVars    == <<key_ref, key_new>>
sumVars    == <<num_checked, num_failed, prev_checked, prev_failed>>
savedVars  == <<saved_checked, saved_failed>>
statVars   == <<num_funcs, num_benched>>
currentVars == <<cpuVars, should_fail, report_idx, func, func_ver, tree,
                 sumVars, savedVars, statVars>>
dataVars == <<currentVars, keyVars, samples>>
vars == <<cfg, signalVars, pc, loopVars, ip, callee, exit_code, dataVars>>

NoVersion == <<>>
Off   == "off"    \* sig = 0
Armed == "armed"  \* sig = SIG_ATOMIC_MAX
Fault == "fault"  \* SIGSEGV and the other fatal signals

(* Control locations: while a function is called, while check_cpu_flag() is  *)
(* inside its loop over the tests, and once the process is gone.             *)
Calls  == {"call", "checked", "bench"}
InTest == {"enter", "body", "arm", "measure", "recover"} \cup Calls
Final  == {"done", "killed", "undefined", "looping"}
Locations == InTest \cup {"init", "flag", "test", "summary"} \cup Final

-----------------------------------------------------------------------------
(* Reading the configuration.                                                *)

Tests == cfg.tests
Op    == Tests[test].ops[ip]
InOp(kind) == pc = "body" /\ ip <= Len(Tests[test].ops) /\ Op.kind = kind

(* The flags check_cpu_flag() puts in force for the i-th CPU of the list, or *)
(* for the C pass when i is 0.                                               *)
FlagsUnchecked(i) ==  \* faulty: a CPU's own flags are taken to be supported
    IF i = 0 THEN cfg.cpu
    ELSE (cpu_flags \ cfg.cpu_flags[i].mask) \cup cfg.cpu_flags[i].flag
FlagsFor(i) ==
    IF i = 0
    THEN cfg.cpu \ UNION { cfg.cpu_flags[j].flag : j \in DOMAIN cfg.cpu_flags }
    ELSE (cpu_flags \ cfg.cpu_flags[i].mask) \cup (cfg.cpu_flags[i].flag \cap cfg.cpu)

(* The version current.func_ver points to.                                   *)
VersionAt(fv) == tree[fv[1]].versions[fv[2]]
SetState(t, fv, s) == [t EXCEPT ![fv[1]].versions[fv[2]].state = s]

(* The versions in the registry, and those whose report is set aside.        *)
AllVersions(t) == UNION { {n} \X DOMAIN t[n].versions : n \in Names }
CrashedVersions == { fv \in AllVersions(tree) : VersionAt(fv).state = "crashed" }

-----------------------------------------------------------------------------
(* checkasm_run() has cleared current and is about to run all tests; so has   *)
(* checkasm_list_functions(), which skips them and installs no handlers.     *)
Cleared ==
    /\ cpu = 0 /\ cpu_flags = {} /\ should_fail = FALSE /\ report_idx = 0
    /\ func = NoFunc /\ func_ver = NoVersion
    /\ tree = [n \in Names |-> NewFunc]
    /\ num_funcs = 0 /\ num_checked = 0 /\ num_failed = 0 /\ num_benched = 0
    /\ prev_checked = 0 /\ prev_failed = 0
    /\ saved_checked = 0 /\ saved_failed = 0

Init ==
    /\ cfg \in Configs
    /\ sig = Off /\ interrupted = None /\ context = "none"
    /\ handlers = IF cfg.skip_tests THEN {} ELSE Interrupts \cup {Fault}
    /\ pc = "init" /\ info = 0 /\ test = 1 /\ ip = 1 /\ callee = NoKey
    /\ iter = 0 /\ exit_code = "running"
    /\ key_ref = NoKey /\ key_new = NoKey
    /\ samples = <<>>
    /\ Cleared
-----------------------------------------------------------------------------
(* Ends of the process.                                                      *)

Exit(code) == pc' = "done" /\ exit_code' = code

(* handle_interrupt(): print the summary and exit(128 + signal), or go on.   *)
HandleInterrupt(next) ==
    IF interrupted # None
    THEN Exit("signal")
    ELSE pc' = next /\ UNCHANGED exit_code

(* checkasm_load_context(): back to check_cpu_flag() as long as its frame    *)
(* exists.                                                                   *)
LoadContext == pc' = IF context = "live" THEN "recover" ELSE "undefined"

(* Which handlers are installed once s was delivered: all are one-shot       *)
(* (SA_RESETHAND), and signal_handler() installs itself again.               *)
DeliveredOnce(s) == handlers \ {s}  \* faulty: signal_handler() does not
Delivered(s) == IF s = Fault THEN handlers ELSE handlers \ {s}

(* What both handlers do when a function under test is being called.         *)
JumpOut(s) == sig' = s /\ LoadContext

-----------------------------------------------------------------------------
(* run_all_tests()                                                           *)

(* The init hooks.                                                           *)
InitHooks ==
    /\ pc = "init"
    /\ pc' = "flag" /\ info' = 0
    /\ UNCHANGED <<cfg, signalVars, test, iter, ip, callee, exit_code, dataVars>>

(* check_cpu_flag(): nothing to do when the CPU changes no flag.             *)
SkipCpu ==
    /\ pc = "flag" /\ info \in 1 .. Len(cfg.cpu_flags)
    /\ FlagsFor(info) = cpu_flags
    /\ info' = info + 1
    /\ UNCHANGED <<cfg, signalVars, pc, test, iter, ip, callee, exit_code, dataVars>>

EnterCpu ==
    /\ pc = "flag" /\ info <= Len(cfg.cpu_flags)
    /\ info > 0 => FlagsFor(info) # cpu_flags
    /\ cpu_flags' = FlagsFor(info) /\ cpu' = info
    /\ func' = NoFunc /\ report_idx' = 1
    /\ pc' = "test" /\ test' = 1
    /\ UNCHANGED <<cfg, signalVars, info, iter, ip, callee, exit_code, should_fail,
                   func_ver, tree, sumVars, savedVars, statVars, keyVars, samples>>

(* A test the pattern leaves out.                                            *)
SkipTest ==
    /\ pc = "test" /\ test <= Len(Tests) /\ ~ Tests[test].enabled
    /\ test' = test + 1
    /\ UNCHANGED <<cfg, signalVars, pc, info, iter, ip, callee, exit_code, dataVars>>

SaveContext ==
    /\ pc = "test" /\ test <= Len(Tests) /\ Tests[test].enabled
    /\ context' = "live" /\ pc' = "enter"
    /\ UNCHANGED <<cfg, sig, interrupted, handlers, loopVars, ip, callee, exit_code,
                   dataVars>>

(* Calling the test function, for the first time or after a crash.  It       *)
(* starts outside of any block that a successful check guards.               *)
EnterTest ==
    /\ pc = "enter"
    /\ should_fail' = FALSE /\ key_ref' = NoKey /\ ip' = 1 /\ pc' = "body"
    /\ UNCHANGED <<cfg, signalVars, loopVars, callee, exit_code, cpuVars, report_idx, func,
                   func_ver, tree, sumVars, savedVars, statVars, key_new, samples>>

(* check_cpu_flag() returns, and its frame with it.                          *)
LeaveCpu ==
    /\ pc = "test" /\ test > Len(Tests)
    /\ context' = "dead" /\ pc' = "flag" /\ info' = info + 1
    /\ UNCHANGED <<cfg, sig, interrupted, handlers, test, iter, ip, callee, exit_code,
                   dataVars>>

(* The uninit hooks.                                                         *)
UninitHooks ==
    /\ pc = "flag" /\ info > Len(cfg.cpu_flags)
    /\ pc' = "summary"
    /\ UNCHANGED <<cfg, signalVars, loopVars, ip, callee, exit_code, dataVars>>

-----------------------------------------------------------------------------
(* Failures and crashes.                                                     *)

(* fail_internal() has an effect: the current version was fine until now.    *)
FailsAgain == func_ver # NoVersion  \* faulty: counts every failure of a version
Fails == func_ver # NoVersion /\ VersionAt(func_ver).state = "ok"

FailInternal ==
    /\ tree' = IF Fails THEN SetState(tree, func_ver, "failed") ELSE tree
    /\ num_failed' = num_failed + IF Fails THEN 1 ELSE 0

(* The group's sums are put aside until the rerun of the test reaches the    *)
(* version that crashed again.                                               *)
Crashes == num_failed + IF Fails THEN 1 ELSE 0

KeepCounting ==  \* faulty: the next report the rerun comes to counts the crash
    num_failed' = Crashes /\ UNCHANGED <<num_checked, savedVars>>
SetAside ==
    /\ saved_checked' = num_checked - prev_checked
    /\ saved_failed'  = Crashes - prev_failed
    /\ num_checked' = prev_checked /\ num_failed' = prev_failed

(* The second return of checkasm_save_context(), after a signal or a         *)
(* checkasm_fail_abort().                                                    *)
Recover ==
    /\ pc = "recover"
    /\ HandleInterrupt("enter")
    /\ IF interrupted # None
       THEN UNCHANGED <<tree, func, num_checked, num_failed, savedVars>>
       ELSE /\ func_ver # NoVersion
            /\ tree' = SetState(tree, func_ver, "crashed")
            /\ SetAside
            /\ func' = NoFunc
    /\ UNCHANGED <<cfg, signalVars, loopVars, ip, callee, cpuVars, should_fail, report_idx,
                   func_ver, prev_checked, prev_failed, statVars, keyVars, samples>>

-----------------------------------------------------------------------------
(* checkasm_check_func(), which is checkasm_check_key() with the results     *)
(* kept in two statics of the test's file.                                   *)

Ignored(op) ==
    \/ interrupted # None
    \/ op.impl[cpu_flags] = NoKey
    \/ op.name \notin cfg.functions

IgnoreKey ==
    /\ InOp("check") /\ Ignored(Op)
    /\ key_new' = Op.impl[cpu_flags] /\ key_ref' = NoKey /\ ip' = ip + 1
    /\ UNCHANGED <<cfg, signalVars, pc, loopVars, callee, exit_code, currentVars, samples>>

(* The walk over f's versions restored a crashed one: the sums put aside     *)
(* count again, for the report group that is open now.                       *)
Restored(f, key) == Recovered(tree[f].versions, key) # {}

SettledTree(f, key) ==
    LET moved == IF Restored(f, key) THEN Chain(tree, f) ELSE {}
        t == [n \in Names |->
                IF n \in moved THEN [tree[n] EXCEPT !.report_idx = report_idx] ELSE tree[n]]
    IN  [t EXCEPT ![f].versions = Settle(tree[f].versions, key)]

RestoreKept(f, key) == UNCHANGED savedVars  \* faulty: restored sums stay set aside
RestoreSaved(f, key) ==
    IF Restored(f, key)
    THEN saved_checked' = 0 /\ saved_failed' = 0
    ELSE UNCHANGED savedVars

NothingSaved(f, key) == 0  \* faulty: the sums set aside are forgotten
SavedChecked(f, key) == IF Restored(f, key) THEN saved_checked ELSE 0
SavedFailed(f, key)  == IF Restored(f, key) THEN saved_failed ELSE 0

(* Nothing to test: the walk met a broken C version or the key itself.       *)
SkipKey ==
    /\ InOp("check") /\ ~ Ignored(Op)
    /\ LET f == Op.name
           key == Op.impl[cpu_flags]
       IN  /\ Skipped(tree[f].versions, key)
           /\ Restored(f, key) => ChainEnds(tree, f)
           /\ tree' = SettledTree(f, key)
           /\ RestoreSaved(f, key)
           /\ num_checked' = num_checked + SavedChecked(f, key)
           /\ num_failed' = num_failed + SavedFailed(f, key)
           /\ IF Restored(f, key)
              THEN func' = f /\ func_ver' = <<f, Max(Recovered(tree[f].versions, key))>>
              ELSE UNCHANGED <<func, func_ver>>
           /\ key_new' = key /\ key_ref' = NoKey /\ ip' = ip + 1
    /\ UNCHANGED <<cfg, signalVars, pc, loopVars, callee, exit_code, cpuVars, should_fail,
                   report_idx, prev_checked, prev_failed, statVars, samples>>

(* A version nobody tested yet is appended; it opens a block of the test and *)
(* joins the open report group, unless the run only lists the functions.     *)
NewKey ==
    /\ InOp("check") /\ ~ Ignored(Op)
    /\ LET f == Op.name
           key == Op.impl[cpu_flags]
           t == SettledTree(f, key)
           vs == t[f].versions
           g == [t[f] EXCEPT !.versions = Append(vs, NewVersion(key, cpu, Op.variant))]
           joins == ~ cfg.skip_tests /\ g.report_idx < report_idx
       IN  /\ ~ Skipped(vs, key)
           /\ Restored(f, key) => ChainEnds(tree, f)
           /\ tree' = [t EXCEPT ![f] =
                  IF joins THEN [g EXCEPT !.report_idx = report_idx, !.prev = func] ELSE g]
           /\ RestoreSaved(f, key)
           /\ num_failed' = num_failed + SavedFailed(f, key)
           /\ num_funcs' = num_funcs + IF Reference(vs, key) = key THEN 1 ELSE 0
           /\ IF cfg.skip_tests
              THEN /\ key_ref' = NoKey
                   /\ UNCHANGED <<num_checked, func, func_ver>>
              ELSE /\ key_ref' = Reference(vs, key)
                   /\ num_checked' = num_checked + SavedChecked(f, key) + 1
                   /\ func' = f /\ func_ver' = <<f, Len(vs) + 1>>
           /\ key_new' = key /\ ip' = ip + 1
    /\ UNCHANGED <<cfg, signalVars, pc, loopVars, callee, exit_code, cpuVars, should_fail,
                   report_idx, prev_checked, prev_failed, num_benched, samples>>

-----------------------------------------------------------------------------
(* The block of a successful check: calls, comparisons, benchmarks.          *)

(* if (checkasm_check_func(...)) { ... } with nothing to test.               *)
SkipBlock ==
    /\ pc = "body" /\ ip <= Len(Tests[test].ops)
    /\ Op.kind \in {"ref", "new", "compare", "bench"} /\ key_ref = NoKey
    /\ ip' = ip + 1
    /\ UNCHANGED <<cfg, signalVars, pc, loopVars, callee, exit_code, dataVars>>

InBlock(kind) == InOp(kind) /\ key_ref # NoKey

(* checkasm_bench_func()                                                     *)
BenchFunc == num_failed = 0 /\ cfg.bench /\ interrupted = None

(* checkasm_call_ref(), and checkasm_call_new() or a checkasm_bench() that   *)
(* does not measure: arm the signal handler, then call.                      *)
Call(key, where) ==
    /\ sig' = Armed /\ callee' = key /\ pc' = where
    /\ UNCHANGED <<cfg, interrupted, handlers, context, loopVars, ip, exit_code, dataVars>>

CallRef == InBlock("ref") /\ Call(key_ref, "call")
CallNew == InBlock("new") /\ Call(key_new, "checked")
CallInsteadOfBench == InBlock("bench") /\ ~ BenchFunc /\ Call(key_new, "checked")

May(what) == what \in Behaviour[callee]
Calling == pc \in Calls

(* checkasm_bench_runs()                                                     *)
BenchRuns == interrupted = None /\ Len(samples) < SampleLimit

(* The function is executing: a benchmark calls it only for another sample.  *)
Executing(what) == Calling /\ (pc = "bench" => BenchRuns) /\ May(what)

(* The call comes back and nothing was clobbered, or nobody looks.           *)
Return ==
    /\ pc \in {"call", "checked"}
    /\ May("return") \/ (pc = "call" /\ May("clobber"))
    /\ sig' = Off /\ pc' = "body" /\ ip' = ip + 1
    /\ UNCHANGED <<cfg, interrupted, handlers, context, loopVars, callee, exit_code,
                   dataVars>>

(* signal_handler() while a function is called.                              *)
Crash ==
    /\ Executing("fault")
    /\ IF Fault \in handlers /\ sig = Armed
       THEN JumpOut(Fault) /\ handlers' = Delivered(Fault)
       ELSE pc' = "killed" /\ UNCHANGED <<sig, handlers>>
    /\ UNCHANGED <<cfg, interrupted, context, loopVars, ip, callee, exit_code, dataVars>>

(* checkasm_fail_abort(): a broken stack guard or a clobbered register.      *)
FailAbort ==
    /\ pc = "checked" /\ May("clobber")
    /\ FailInternal /\ LoadContext
    /\ UNCHANGED <<cfg, signalVars, loopVars, ip, callee, exit_code, cpuVars, should_fail,
                   report_idx, func, func_ver, num_checked, prev_checked, prev_failed,
                   savedVars, statVars, keyVars, samples>>

(* The function does not come back.                                          *)
Hang ==
    /\ Executing("hang")
    /\ UNCHANGED vars

(* The test compares what it got and calls checkasm_fail() on a difference.  *)
Compare ==
    /\ InBlock("compare")
    /\ IF Value[key_new] = (IF Op.want = RefValue THEN Value[key_ref] ELSE Op.want)
       THEN UNCHANGED <<tree, num_failed>>
       ELSE FailInternal
    /\ ip' = ip + 1
    /\ UNCHANGED <<cfg, signalVars, pc, loopVars, callee, exit_code, cpuVars, should_fail,
                   report_idx, func, func_ver, num_checked, prev_checked, prev_failed,
                   savedVars, statVars, keyVars, samples>>

(* checkasm_bench(): decided first, then armed, then measured.               *)
BenchStart ==
    /\ InBlock("bench") /\ BenchFunc
    /\ pc' = "arm"
    /\ UNCHANGED <<cfg, signalVars, loopVars, ip, callee, exit_code, dataVars>>

BenchArm == pc = "arm" /\ Call(key_new, "bench")

(* One turn of the loop: the calls, then checkasm_bench_update().            *)
BenchSample ==
    /\ pc = "bench" /\ BenchRuns /\ (May("return") \/ May("clobber"))
    /\ samples' = Append(samples, func_ver)
    /\ UNCHANGED <<cfg, signalVars, pc, loopVars, ip, callee, exit_code, currentVars,
                   keyVars>>

(* The loop ends: disarm, then checkasm_bench_finish().                      *)
BenchFinish ==
    /\ pc = "bench" /\ ~ BenchRuns
    /\ IF samples # <<>>
       THEN /\ tree' = [tree EXCEPT ![func_ver[1]].versions[func_ver[2]].nb_measurements = @ + 1]
            /\ num_benched' = num_benched + 1
       ELSE UNCHANGED <<tree, num_benched>>
    /\ samples' = <<>> /\ sig' = Off /\ pc' = "body" /\ ip' = ip + 1
    /\ UNCHANGED <<cfg, interrupted, handlers, context, loopVars, callee, exit_code,
                   cpuVars, should_fail, report_idx, func, func_ver, sumVars, savedVars,
                   num_funcs, keyVars>>

(* checkasm_should_fail()                                                    *)
ShouldFail ==
    /\ InOp("should_fail")
    /\ should_fail' = (cpu_flags \cap Op.flags # {})
    /\ ip' = ip + 1
    /\ UNCHANGED <<cfg, signalVars, pc, loopVars, callee, exit_code, cpuVars, report_idx,
                   func, func_ver, tree, sumVars, savedVars, statVars, keyVars, samples>>

-----------------------------------------------------------------------------
(* checkasm_report(): closes the report group.                               *)

NewChecked == num_checked - prev_checked
NewFailed  == num_failed - prev_failed

(* What the group adds to num_failed: in a block that should fail, the       *)
(* versions that did not.                                                    *)
GroupFailed == NewFailed  \* faulty: expected failures count as failures
GroupFailures ==
    IF should_fail /\ NewChecked # 0 THEN NewChecked - NewFailed ELSE NewFailed

Report(label, next) ==
    /\ ChainEnds(tree, func)
    /\ num_failed' = prev_failed + GroupFailures
    /\ prev_checked' = num_checked
    /\ prev_failed' = IF NewChecked # 0 THEN num_failed' ELSE prev_failed
    /\ tree' = [n \in Names |->
                  IF label = "named" /\ func # NoFunc /\ n \in Chain(tree, func)
                  THEN [tree[n] EXCEPT !.report_name = "named"] ELSE tree[n]]
    /\ func' = NoFunc /\ report_idx' = report_idx + 1
    /\ HandleInterrupt(next)
    /\ UNCHANGED <<cfg, signalVars, loopVars, callee, cpuVars, should_fail, func_ver,
                   num_checked, savedVars, statVars, keyVars, samples>>

ReportGroup == InOp("report") /\ Report(Op.label, "body") /\ ip' = ip + 1

(* The test function has returned: checkasm_report(NULL).                    *)
ReportRest ==
    /\ pc = "body" /\ ip > Len(Tests[test].ops)
    /\ Report("unnamed", "measure") /\ UNCHANGED ip

(* A walk along prev that never reaches NULL.                                *)
LoopForever ==
    /\ pc' = "looping"
    /\ UNCHANGED <<cfg, signalVars, loopVars, ip, callee, exit_code, dataVars>>

LoopInReport ==
    /\ InOp("report") \/ (pc = "body" /\ ip > Len(Tests[test].ops))
    /\ ~ ChainEnds(tree, func)
    /\ LoopForever

LoopInCheck ==
    /\ InOp("check") /\ ~ Ignored(Op)
    /\ Restored(Op.name, Op.impl[cpu_flags]) /\ ~ ChainEnds(tree, Op.name)
    /\ LoopForever

(* After each test: measure the timer, which does not touch current, and go  *)
(* on to the next test.                                                      *)
Measure ==
    /\ pc = "measure"
    /\ IF cfg.bench /\ ~ cfg.skip_tests
       THEN HandleInterrupt("test")
       ELSE pc' = "test" /\ UNCHANGED exit_code
    /\ test' = test + 1
    /\ UNCHANGED <<cfg, signalVars, info, iter, ip, callee, dataVars>>

-----------------------------------------------------------------------------
(* print_summary(0) and what checkasm_run() makes of it; the listing mode    *)
(* ends here, too.                                                           *)
ClearSums ==
    /\ num_funcs' = 0 /\ num_checked' = 0 /\ num_failed' = 0 /\ num_benched' = 0
    /\ prev_checked' = 0 /\ prev_failed' = 0 /\ saved_checked' = 0 /\ saved_failed' = 0

(* checkasm_func_tree_uninit() frees what func and func_ver point to.        *)
FreeTree ==  \* faulty: func_ver is left dangling
    tree' = [n \in Names |-> NewFunc] /\ func' = NoFunc /\ UNCHANGED func_ver
ClearPointers ==
    tree' = [n \in Names |-> NewFunc] /\ func' = NoFunc /\ func_ver' = NoVersion

Finish ==
    /\ pc = "summary"
    /\ cfg.skip_tests \/ num_failed > 0 \/ iter + 1 >= cfg.repeat
    /\ Exit(IF cfg.skip_tests \/ num_failed = 0 THEN "0" ELSE "1")
    /\ UNCHANGED <<cfg, signalVars, loopVars, ip, callee, dataVars>>

IterCleared == 0  \* faulty: test_iter is cleared along with current
NextIter == iter + 1

NextIteration ==
    /\ pc = "summary" /\ ~ cfg.skip_tests /\ num_failed = 0 /\ iter + 1 < cfg.repeat
    /\ iter' = NextIter /\ pc' = "init"
    /\ cpu' = 0 /\ cpu_flags' = {} /\ should_fail' = FALSE /\ report_idx' = 0
    /\ ClearPointers /\ ClearSums
    /\ UNCHANGED <<cfg, signalVars, info, test, ip, callee, exit_code, keyVars, samples>>

-----------------------------------------------------------------------------
(* The user's signals, which may arrive between any two steps.  The handler  *)
(* is installed for one delivery; the next one has the default action.       *)
InterruptNoJump(s) == UNCHANGED <<sig, pc>>  \* faulty: the call goes on
InterruptJump(s) == IF sig = Armed THEN JumpOut(s) ELSE UNCHANGED <<sig, pc>>

Interrupt(s) ==
    /\ pc \notin Final
    /\ IF s \in handlers
       THEN interrupted' = s /\ handlers' = Delivered(s) /\ InterruptJump(s)
       ELSE pc' = "killed" /\ UNCHANGED <<sig, interrupted, handlers>>
    /\ UNCHANGED <<cfg, context, loopVars, ip, callee, exit_code, dataVars>>

Terminated == pc \in Final /\ UNCHANGED vars

-----------------------------------------------------------------------------
RunTests == InitHooks \/ SkipCpu \/ EnterCpu \/ SkipTest \/ SaveContext \/ EnterTest
              \/ Measure \/ LeaveCpu \/ UninitHooks
CheckFunc == IgnoreKey \/ SkipKey \/ NewKey \/ LoopInCheck
TestBlock == SkipBlock \/ CallRef \/ CallNew \/ CallInsteadOfBench \/ Compare
Bench == BenchStart \/ BenchArm \/ BenchSample \/ BenchFinish
Callee == Return \/ Crash \/ FailAbort
Reports == ShouldFail \/ ReportGroup \/ ReportRest \/ LoopInReport
Summary == Finish \/ NextIteration

Step == RunTests \/ Recover \/ CheckFunc \/ TestBlock \/ Bench \/ Callee \/ Reports \/ Summary

Next == Step \/ Hang \/ (\E s \in Interrupts : Interrupt(s)) \/ Terminated

-----------------------------------------------------------------------------
(* Every variable holds a value its C counterpart can hold, and func_ver      *)
(* points to a version of the registry (checkasm.c:69-120).                  *)
TypeOK ==
    /\ cfg \in Config
    /\ sig \in {Off, Armed, Fault} \cup Interrupts
    /\ interrupted \in Interrupts \cup {None} /\ handlers \subseteq Interrupts \cup {Fault}
    /\ context \in {"none", "live", "dead"}
    /\ pc \in Locations
    /\ info \in Nat /\ test \in Nat \ {0} /\ ip \in Nat \ {0} /\ iter \in Nat
    /\ callee \in Keys \cup {NoKey}
    /\ exit_code \in {"running", "0", "1", "signal"}
    /\ cpu \in Nat /\ cpu_flags \subseteq Flags /\ should_fail \in BOOLEAN
    /\ report_idx \in Nat
    /\ func \in Names \cup {NoFunc}
    /\ func_ver = NoVersion \/ func_ver \in AllVersions(tree)
    /\ key_ref \in Keys \cup {NoKey} /\ key_new \in Keys \cup {NoKey}
    /\ tree \in [Names -> Func]
    /\ num_funcs \in Int /\ num_checked \in Int /\ num_failed \in Int /\ num_benched \in Int
    /\ prev_checked \in Int /\ prev_failed \in Int
    /\ saved_checked \in Int /\ saved_failed \in Int
    /\ samples \in Seq(Names \X (Nat \ {0}))

(* The process is sequential and nothing in it waits: it keeps taking steps. *)
(* Nobody has to send a signal.                                              *)
Spec == Init /\ [][Next]_vars /\ WF_vars(Step)
-----------------------------------------------------------------------------
(* What the runner promises.                                                 *)

(* A crash is associated with exactly one version until the rerun reaches it *)
(* again, and the sums set aside exist for as long as that version does      *)
(* (checkasm.c:587-595, 958-970): no second crash can overwrite them.        *)
OneCrashAtATime ==
    /\ Cardinality(CrashedVersions) <= 1
    /\ saved_checked > 0 <=> CrashedVersions # {}
    /\ saved_failed \in 0 .. saved_checked

(* When a test function is left for good, the rerun has reached the crashed  *)
(* function again: nothing that was set aside is lost or leaks into the      *)
(* groups of the next test (checkasm.c:587-589, 600-601).                    *)
NothingSetAside ==
    pc \in {"measure", "test", "flag", "summary"} =>
        saved_checked = 0 /\ saved_failed = 0 /\ CrashedVersions = {}

(* Every version ever recorded is counted once, no matter how often its test *)
(* was rerun: either in num_checked or in the sums set aside.                *)
EveryVersionCounted ==
    ~ cfg.skip_tests => num_checked + saved_checked = Cardinality(AllVersions(tree))

(* A fatal signal raised by a function under test brings the process back    *)
(* into check_cpu_flag(), whatever was called and benchmarked before: it     *)
(* never kills it and never jumps into a frame that is gone (signal.c:112).  *)
CrashesAreCaught == [][Crash => pc' = "recover"]_vars

(* A first SIGINT or SIGTERM during a call leaves the call at once           *)
(* (signal.c:61-66).                                                         *)
InterruptLeavesCall ==
    [][Calling /\ interrupted' # interrupted => pc' = "recover"]_vars

(* No CPU's pass ever runs with a flag the host does not have                *)
(* (checkasm.c:554-563), however the list's flags and masks overlap.         *)
FlagsSupported == cpu_flags \subseteq cfg.cpu

(* The walk over the CPUs, tests and reruns comes to an end: each crash      *)
(* rules out the version that crashed.                                       *)
Terminates == <>(pc = "done")
=============================================================================
