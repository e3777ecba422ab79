------------------------------- MODULE Startup -------------------------------
(***************************************************************************)
(* What checkasm_run() does before the first test: install the handlers,     *)
(* pin the thread, and find a timer that works.  Reading a timer may be a    *)
(* privilege, so it is tried with the signal handler armed and a jump out of *)
(* it; the counters of some CPUs must first be started, on every core; and   *)
(* what a system call promises is tried before it is believed (checkasm.c,   *)
(* perf.c, perf/linux.c, perf/macos_kperf.c, perf/arm.c, signal.c).          *)
(*                                                                         *)
(* A host is a record: which timers the build knows and what they do there.  *)
(***************************************************************************)
EXTENDS Integers, FiniteSets

CONSTANTS
    Hosts,      \* the machines and builds the program may run on
    Cores,      \* their cores
    RunConfigs, \* what checkasm_run() is called with: [bench, affinity]
    MaxRuns     \* bound on the calls of checkasm_run() in one process

(* Whether a timer counts, stands still, counts once it was started on the   *)
(* core, may not be read, or is not there.  Only counters of a core are       *)
(* started there; the events of the kernel count for the thread.             *)
Timer == {"counts", "stuck", "unstarted", "faults", "none"}

(* Setting kperf up goes well, fails at one of its steps, or calls the one     *)
(* function that is not looked for before it is called.                      *)
KperfSetup == {"ok", "fails", "null_call"}

(* asm_always: the build does not ask perf.asm_usable before it reads the       *)
(* counter inline; pins: the cores the thread can be pinned to when they are   *)
(* visited (one may have gone offline), none where the call does not exist.   *)
Host ==
    [ clock : BOOLEAN, asm : Timer, asm_always : BOOLEAN, asm_init : BOOLEAN,
      init_faults : SUBSET Cores,
      linux : Timer \ {"unstarted"}, kperf : Timer \ {"unstarted"}, kperf_setup : KperfSetup,
      arm : {"none", "cntvct", "ccnt"}, counter : Timer, frequency : Nat,
      pins : SUBSET Cores ]
ASSUME HostsAssumption == Hosts \subseteq Host
(* Where the counter of the ARM11 is tried, a cycle counter that the build    *)
(* knows is one it can start: perf/arm.h:32 and perf_internal.h:70 ask the    *)
(* same of the compiler.                                                     *)
ASSUME Arm11Assumption ==
    \A h \in Hosts : h.arm = "ccnt" => h.asm = "none" \/ h.asm_init
ASSUME RunConfigsAssumption ==
    RunConfigs \subseteq [ bench : BOOLEAN, affinity : SUBSET Nat ]
ASSUME CoresAssumption == Cores \subseteq Nat /\ Cores # {}

VARIABLES
    host,         \* the machine
    config,       \* cfg
    stage,        \* where checkasm_run() is
    runs,         \* how often it was called
    armed,        \* sig = SIG_ATOMIC_MAX
    frame,        \* the function whose frame checkasm_context was saved in
    resume,       \* where the second return of checkasm_save_context() goes on
    handlers,     \* handlers_set of signal.c, and the one of SIGINT still there
    interrupted,  \* checkasm_interrupted
    affinity,     \* the cores the thread may run on
    kept,         \* the mask checkasm_run_on_all_cores() puts back
    todo,         \* the cores it has yet to visit
    started,      \* cores whose counter was started
    fds,          \* perf_sysfd is open; kperf_init
    perf          \* checkasm_perf

startVars == <<host, config, stage, runs, armed, frame, resume, handlers, interrupted,
               affinity, kept, todo, started, fds, perf>>
signalState == <<armed, frame, resume>>
coreState == <<affinity, kept, todo, started>>

NoPerf == [ start |-> "none", stop |-> "none", unit |-> "none", asm_usable |-> FALSE ]
Ended == {"exit", "killed"}

(* The function that is executing.                                           *)
Executing ==
    IF stage \in {"read_cntvct", "read_ccnt", "start_ccnt", "arm_cores", "arm_chosen"} THEN "arm_init"
    ELSE IF stage \in {"idle", "cpu", "tests"} \cup Ended THEN "run"
    ELSE "perf"

(* What reading a timer of the host on a core comes to.                      *)
Reads(timer, core) ==
    IF timer = "unstarted" THEN IF core \in started THEN "counts" ELSE "stuck"
    ELSE timer

-----------------------------------------------------------------------------
StartInit ==
    /\ host \in Hosts
    /\ config = [bench |-> FALSE, affinity |-> {}]
    /\ stage = "idle" /\ runs = 0
    /\ armed = FALSE /\ frame = "none" /\ resume = "none"
    /\ handlers = [set |-> FALSE, sigint |-> FALSE] /\ interrupted = FALSE
    /\ affinity = Cores /\ kept = {} /\ todo = {} /\ started = {}
    /\ fds = {} /\ perf = NoPerf

(* checkasm_set_signal_handlers() installs them once; set_cpu_affinity()       *)
(* reports a core that does not exist, and the thread stays where it may run. *)
Installed == IF handlers.set THEN handlers ELSE [set |-> TRUE, sigint |-> TRUE]
Pinned(cores) == IF cores # {} /\ cores \subseteq Cores THEN cores ELSE affinity

RunBegin(c) ==
    /\ stage = "idle" /\ runs < MaxRuns
    /\ config' = c /\ runs' = runs + 1
    /\ handlers' = Installed /\ affinity' = Pinned(c.affinity)
    /\ stage' = IF c.bench THEN "clock" ELSE "cpu"
    /\ UNCHANGED <<host, signalState, interrupted, kept, todo, started, fds, perf>>

Go(next) == stage' = next
Chosen(name, unit, asm) ==
    [ start |-> name, stop |-> name, unit |-> unit, asm_usable |-> asm ]

(* checkasm_gettime_nsec() must work, whatever else does.                    *)
Clock ==
    /\ stage = "clock"
    /\ Go(IF ~ host.clock THEN "exit" ELSE IF host.asm = "none" THEN "linux" ELSE "try_asm")
    /\ UNCHANGED <<host, config, runs, signalState, handlers, interrupted, coreState, fds, perf>>

(* checkasm_save_context(), then the handler is armed.                       *)
Try(from, next, function, otherwise) ==
    /\ stage = from
    /\ Go(next)
    /\ armed' = TRUE /\ frame' = function /\ resume' = otherwise
    /\ UNCHANGED <<host, config, runs, handlers, interrupted, coreState, fds, perf>>

DisarmNot == armed' = armed  \* faulty: the handler stays armed
Disarm == armed' = FALSE

TryAsm == Try("try_asm", "read_asm", "perf", "no_asm")
ReadAsm ==
    /\ stage = "read_asm" /\ host.asm # "faults"
    /\ Disarm
    /\ perf' = Chosen("asm", "cycle", TRUE)
    /\ Go(IF host.asm_init THEN "try_init" ELSE "validate_asm")
    /\ UNCHANGED <<host, config, runs, frame, resume, handlers, interrupted, coreState, fds>>

(* Without the cycle counter neither of the next two blocks is entered.      *)
AfterNoAsmValidated == "validate_asm"  \* faulty: asm_usable is not looked at
AfterNoAsm == "linux"
NoAsm ==
    /\ stage = "no_asm"
    /\ perf' = [perf EXCEPT !.asm_usable = FALSE]
    /\ Go(AfterNoAsm)
    /\ UNCHANGED <<host, config, runs, signalState, handlers, interrupted, coreState, fds>>

ToVisitNone == {}  \* faulty: only the core the thread is on is started
ToVisit == affinity

TryInit == Try("try_init", "init_asm", "perf", "validate_asm")
InitAsm(core) ==
    /\ stage = "init_asm" /\ core \in affinity \ host.init_faults
    /\ Disarm
    /\ started' = started \cup {core}
    /\ kept' = affinity /\ todo' = ToVisit
    /\ Go("asm_cores")
    /\ UNCHANGED <<host, config, runs, frame, resume, handlers, interrupted, affinity, fds, perf>>

(* checkasm_run_on_all_cores(): pin the thread to each core of its mask, in    *)
(* order, and start the counter there; a core where that fails ends the visit. *)
AfterCores == IF stage = "asm_cores" THEN "validate_asm" ELSE "arm_chosen"
First(S) == CHOOSE c \in S : \A d \in S : c <= d

VisitCore ==
    /\ stage \in {"asm_cores", "arm_cores"} /\ todo # {} /\ First(todo) \in host.pins
    /\ affinity' = {First(todo)}
    /\ IF First(todo) \in host.init_faults
       THEN Go("killed") /\ UNCHANGED <<todo, started>>
       ELSE todo' = todo \ {First(todo)} /\ started' = started \cup {First(todo)} /\ UNCHANGED stage
    /\ UNCHANGED <<host, config, runs, signalState, handlers, interrupted, kept, fds, perf>>

UnpinAfterLast ==  \* faulty: where a core fails the function returns at once
    affinity' = IF todo = {} THEN kept ELSE affinity
Unpin == affinity' = kept
LeaveCores ==
    /\ stage \in {"asm_cores", "arm_cores"}
    /\ todo # {} => First(todo) \notin host.pins
    /\ Unpin /\ todo' = {} /\ kept' = {}
    /\ Go(AfterCores)
    /\ UNCHANGED <<host, config, runs, signalState, handlers, interrupted, started, fds, perf>>

(* checkasm_perf_validate_start() and _start_stop(): a timer that does not    *)
(* count on the core the thread is on is given up.                           *)
Validated(timer, core, next) == IF Reads(timer, core) = "counts" THEN "cpu" ELSE next

ValidateAsm(core) ==
    /\ stage = "validate_asm" /\ host.asm # "faults" /\ core \in affinity
    /\ Go(Validated(host.asm, core, "linux"))
    /\ perf' = [perf EXCEPT !.asm_usable = (Reads(host.asm, core) = "counts")]
    /\ UNCHANGED <<host, config, runs, signalState, handlers, interrupted, coreState, fds>>

-----------------------------------------------------------------------------
(* checkasm_perf_init_linux(): the event is opened once per process and       *)
(* tried by checkasm_perf_validate_start_stop().                             *)
LinuxPerf(core) ==
    /\ stage = "linux" /\ core \in affinity
    /\ IF host.linux = "none" \/ ("linux" \notin fds /\ host.linux = "faults")
       THEN Go("kperf") /\ UNCHANGED <<fds, perf>>
       ELSE /\ fds' = fds \cup {"linux"}
            /\ perf' = Chosen("linux", "tick", perf.asm_usable)
            /\ Go(Validated(host.linux, core, "kperf"))
    /\ UNCHANGED <<host, config, runs, signalState, handlers, interrupted, coreState>>

(* checkasm_perf_init_macos(): set up once per process.                      *)
Kperf(core) ==
    /\ stage = "kperf" /\ core \in affinity
    /\ IF host.kperf # "none" /\ ("kperf" \in fds \/ host.kperf_setup = "ok")
       THEN /\ fds' = fds \cup {"kperf"}
            /\ perf' = Chosen("kperf", "cycle", perf.asm_usable)
            /\ Go(Validated(host.kperf, core, "arm"))
       ELSE /\ Go(IF host.kperf # "none" /\ host.kperf_setup = "null_call" THEN "killed" ELSE "arm")
            /\ UNCHANGED <<fds, perf>>
    /\ UNCHANGED <<host, config, runs, signalState, handlers, interrupted, coreState>>

-----------------------------------------------------------------------------
(* checkasm_perf_init_arm(), for AArch64 and for ARMv6.                      *)
TryCntvct == host.arm = "cntvct" /\ Try("arm", "read_cntvct", "arm_init", "gettime")
TryCcnt == host.arm = "ccnt" /\ Try("arm", "read_ccnt", "arm_init", "gettime")
NoArm ==
    /\ stage = "arm" /\ host.arm = "none" /\ Go("gettime")
    /\ UNCHANGED <<host, config, runs, signalState, handlers, interrupted, coreState, fds, perf>>

MHz == 1
CntvctUnit == IF host.frequency = 1000 * MHz THEN "nsec" ELSE "tick"

ReadCntvct(core) ==
    /\ stage = "read_cntvct" /\ host.counter # "faults" /\ core \in affinity
    /\ Disarm
    /\ IF host.frequency < 100 * MHz
       THEN Go("gettime") /\ UNCHANGED perf
       ELSE /\ perf' = Chosen("cntvct", CntvctUnit, perf.asm_usable)
            /\ Go(Validated(host.counter, core, "gettime"))
    /\ UNCHANGED <<host, config, runs, frame, resume, handlers, interrupted, coreState, fds>>

ReadCcnt ==
    /\ stage = "read_ccnt" /\ host.counter # "faults"
    /\ armed' = TRUE /\ resume' = "arm_chosen"   \* disarmed, saved and armed again
    /\ Go("start_ccnt")
    /\ UNCHANGED <<host, config, runs, frame, handlers, interrupted, coreState, fds, perf>>

StartCcnt(core) ==
    /\ stage = "start_ccnt" /\ core \in affinity \ host.init_faults
    /\ Disarm
    /\ started' = started \cup {core} /\ kept' = affinity /\ todo' = ToVisit
    /\ Go("arm_cores")
    /\ UNCHANGED <<host, config, runs, frame, resume, handlers, interrupted, affinity, fds, perf>>

ChooseCcnt(core) ==
    /\ stage = "arm_chosen" /\ core \in affinity
    /\ perf' = Chosen("ccnt", "cycle", perf.asm_usable)
    /\ Go(Validated(host.counter, core, "gettime"))
    /\ UNCHANGED <<host, config, runs, signalState, handlers, interrupted, coreState, fds>>

-----------------------------------------------------------------------------
(* The generic fallback replaces whatever was tried before.                  *)
FallbackKeepingUnit ==  \* faulty: the unit of the timer given up remains
    [perf EXCEPT !.start = "gettime", !.stop = "gettime"]
Fallback == [perf EXCEPT !.start = "gettime", !.stop = "gettime", !.unit = "nsec"]
GetTime ==
    /\ stage = "gettime"
    /\ perf' = Fallback
    /\ Go("cpu")
    /\ UNCHANGED <<host, config, runs, signalState, handlers, interrupted, coreState, fds>>

(* checkasm_init_cpu() and print_info(); the frame of the last function that  *)
(* saved a context is gone by now.                                           *)
InitCpu ==
    /\ stage = "cpu" /\ Go("tests")
    /\ UNCHANGED <<host, config, runs, signalState, handlers, interrupted, coreState, fds, perf>>

(* The tests are Runner's; a pending interrupt ends the process at the first  *)
(* report, and otherwise the program may call checkasm_run() again.          *)
RunEnd ==
    /\ stage = "tests"
    /\ Go(IF interrupted THEN "exit" ELSE "idle")
    /\ UNCHANGED <<host, config, runs, signalState, handlers, interrupted, coreState, fds, perf>>

-----------------------------------------------------------------------------
(* Signals: the illegal instruction of a timer the process may not read, on   *)
(* the core it happens to run on, and the user's SIGINT.                     *)
Faults(core) ==
    \/ stage \in {"read_asm", "validate_asm"} /\ host.asm = "faults"
    \/ stage \in {"init_asm", "start_ccnt"} /\ core \in host.init_faults
    \/ stage \in {"read_cntvct", "read_ccnt"} /\ host.counter = "faults"

JumpBack == IF frame = Executing THEN Go(resume) ELSE Go("killed")
TimerFault(core) ==
    /\ core \in affinity /\ Faults(core)
    /\ armed' = FALSE
    /\ IF armed THEN JumpBack ELSE Go("killed")
    /\ UNCHANGED <<host, config, runs, frame, resume, handlers, interrupted, coreState, fds, perf>>

SigInt ==
    /\ stage \notin Ended \cup {"idle"}
    /\ IF ~ handlers.sigint
       THEN Go("killed") /\ UNCHANGED <<armed, handlers, interrupted>>
       ELSE /\ handlers' = [handlers EXCEPT !.sigint = FALSE]
            /\ interrupted' = TRUE /\ armed' = FALSE
            /\ IF armed THEN JumpBack ELSE UNCHANGED stage
    /\ UNCHANGED <<host, config, runs, frame, resume, coreState, fds, perf>>

(* The process has ended, or its program calls checkasm_run() no more.       *)
StartDone == (stage \in Ended \/ (stage = "idle" /\ runs = MaxRuns)) /\ UNCHANGED startVars

OnCore(core) ==
    InitAsm(core) \/ ValidateAsm(core) \/ LinuxPerf(core) \/ Kperf(core)
    \/ ReadCntvct(core) \/ StartCcnt(core) \/ ChooseCcnt(core) \/ TimerFault(core)
PerfInit ==
    \/ Clock \/ TryAsm \/ ReadAsm \/ NoAsm \/ TryInit \/ VisitCore \/ LeaveCores
    \/ TryCntvct \/ TryCcnt \/ NoArm \/ ReadCcnt \/ GetTime \/ InitCpu \/ RunEnd
    \/ \E core \in Cores : OnCore(core)
StartNext == PerfInit \/ (\E c \in RunConfigs : RunBegin(c)) \/ SigInt \/ StartDone

StartSpec == StartInit /\ [][StartNext]_startVars

-----------------------------------------------------------------------------
(* CHECKASM_PERF_BENCH reads the counter itself for 128 calls and more: on most *)
(* machines if perf.asm_usable is set, but where CHECKASM_PERF_ASM_USABLE is  *)
(* defined as 1, for x86 and by MSVC for AArch64, without asking.            *)
ReadsInline == host.asm # "none" /\ (host.asm_always \/ perf.asm_usable)

(* Once the tests run, all of checkasm_perf is about one timer, whichever     *)
(* others were tried and given up before it, in this run or an earlier one:  *)
(* its start, its stop, its unit and asm_usable (perf.c:74-125).  And the     *)
(* benchmarks read the counter inline exactly if it is that timer, but for    *)
(* the builds that do not ask, on a machine where it was given up.           *)
Unit(timer) ==
    CASE timer \in {"asm", "kperf", "ccnt"} -> "cycle"
      [] timer = "linux" -> "tick"
      [] timer = "cntvct" -> CntvctUnit
      [] timer = "gettime" -> "nsec"
TimerIsWhole ==
    stage = "tests" /\ config.bench =>
        /\ perf.stop = perf.start /\ perf.start # "none"
        /\ perf.unit = Unit(perf.start)
        /\ perf.asm_usable <=> perf.start = "asm"
        /\ \/ ReadsInline <=> perf.start = "asm"
           \/ host.asm_always /\ (interrupted \/ host.asm # "counts")

(* "Naive loop; used when ... we have no ASM cycle counters" (test.h:576): a    *)
(* counter that was tried and given up is not what batches are measured with. *)
NaiveLoopWithoutCounter ==
    stage = "tests" /\ config.bench /\ ~ interrupted => (ReadsInline => perf.start = "asm")

(* That timer counts on every core the scheduler may move the thread to, if   *)
(* nobody interrupted the search, the thread can be pinned to every core, and *)
(* the counter may be started on all cores or on none (perf.c:93).            *)
CountsOn(timer, core) ==
    CASE timer = "asm" -> Reads(host.asm, core) = "counts"
      [] timer = "linux" -> host.linux = "counts"
      [] timer = "kperf" -> host.kperf = "counts"
      [] timer \in {"cntvct", "ccnt"} -> Reads(host.counter, core) = "counts"
      [] timer = "gettime" -> host.clock
CountsEverywhere ==
    stage = "tests" /\ config.bench /\ ~ interrupted /\ host.pins = Cores
    /\ host.init_faults \in {{}, Cores} =>
        \A core \in affinity : CountsOn(perf.start, core)

(* A signal may jump to checkasm_context only while the function that saved   *)
(* it is executing, through all the contexts saved one after the other        *)
(* (perf.c:68-93, perf/arm.c:66-70, 121-133).                                *)
ArmedInLiveFrame == armed /\ stage \notin Ended => frame = Executing

(* However far the visit to all cores came before a core failed or the end,   *)
(* the thread ends with the mask it had, the one --affinity asked for         *)
(* (checkasm.c:638-645, 675).                                                *)
AffinityKept ==
    stage \notin {"asm_cores", "arm_cores"} \cup Ended /\ runs > 0 =>
        IF config.affinity # {} /\ config.affinity \subseteq Cores
        THEN affinity = config.affinity
        ELSE runs = 1 => affinity = Cores

(* Trying timers does not kill the process: what does is a second SIGINT, or  *)
(* a counter that may be started on one core and not on another (perf.c:93:   *)
(* all but the first are started unarmed), or a kperf without one function.  *)
SurvivesTimers ==
    stage = "killed" =>
        \/ interrupted
        \/ host.init_faults \notin {{}, Cores}
        \/ host.kperf_setup = "null_call"
=============================================================================
