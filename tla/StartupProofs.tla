---------------------------- MODULE StartupProofs ----------------------------
(***************************************************************************)
(* What holds of the start of the program on every machine, with any number   *)
(* of cores and of calls of checkasm_run(), and a signal at any moment: of    *)
(* the command line, of the search for a timer, of what is asked of the CPU,  *)
(* in whatever order and however often, and of the printing of its name.      *)
(***************************************************************************)
EXTENDS Startup, Args, CpuFeatures, CpuInfo, FiniteSetTheorems, WellFoundedInduction, TLAPS

(* Where a timer is read under the protection of the handler, and where the    *)
(* thread visits the cores.                                                  *)
Trying == {"read_asm", "init_asm", "read_cntvct", "read_ccnt", "start_ccnt"}
Visiting == {"asm_cores", "arm_cores"}
AfterAsm ==
    {"linux", "kperf", "arm", "read_cntvct", "read_ccnt", "start_ccnt", "arm_cores", "arm_chosen", "gettime"}

Timers == {"none", "asm", "linux", "kperf", "cntvct", "ccnt", "gettime"}
Units == {"none", "cycle", "tick", "nsec"}
Perf == [start : Timers, stop : Timers, unit : Units, asm_usable : BOOLEAN]

TypeInv ==
    /\ host \in Host
    /\ config \in [bench : BOOLEAN, affinity : SUBSET Nat] /\ runs \in Nat
    /\ armed \in BOOLEAN /\ interrupted \in BOOLEAN
    /\ handlers \in [set : BOOLEAN, sigint : BOOLEAN]
    /\ perf \in Perf

(* The handler is armed exactly while a timer is tried, with the frame of the  *)
(* function that tries it and the way out that belongs to what is tried.      *)
FrameInv ==
    /\ stage \notin Ended => (armed <=> stage \in Trying)
    /\ stage \in {"read_asm", "init_asm"} => frame = "perf"
    /\ stage \in {"read_cntvct", "read_ccnt", "start_ccnt"} => frame = "arm_init"
    /\ stage = "read_asm" => resume = "no_asm"
    /\ stage = "init_asm" => resume = "validate_asm"
    /\ stage \in {"read_cntvct", "read_ccnt"} => resume = "gettime"
    /\ stage = "start_ccnt" => resume = "arm_chosen"

(* The mask the thread has, or will have once it visited the cores.           *)
Mask == IF stage \in Visiting THEN kept ELSE affinity
MaskInv ==
    /\ stage \notin Ended => Mask \subseteq Cores
    /\ runs = 0 => stage = "idle" /\ affinity = Cores
    /\ stage \notin Ended /\ runs > 0 =>
           IF config.affinity # {} /\ config.affinity \subseteq Cores
           THEN Mask = config.affinity
           ELSE runs = 1 => Mask = Cores

(* The cycle counter is chosen until it is given up, and then it is not usable *)
(* in benchmarks either.                                                     *)
Whole ==
    /\ perf.stop = perf.start /\ perf.start # "none"
    /\ perf.unit = Unit(perf.start)
    /\ perf.asm_usable <=> perf.start = "asm"
    /\ host.asm = "counts" /\ ~ interrupted => perf.start = "asm"
TimerInv ==
    /\ host.asm = "none" => ~ perf.asm_usable
    /\ stage \in {"try_init", "init_asm", "asm_cores", "validate_asm"} =>
           perf = Chosen("asm", "cycle", TRUE) /\ host.asm # "none"
    /\ stage \in {"try_asm", "read_asm"} => host.asm # "none"
    /\ stage = "no_asm" => host.asm = "faults" \/ interrupted
    /\ stage \in AfterAsm => ~ perf.asm_usable /\ (host.asm # "counts" \/ interrupted)
    /\ stage \in {"cpu", "tests"} /\ config.bench => Whole

(* What could kill the process does not: a timer that faults is not read again,*)
(* a counter was started on one core before the others, and a SIGINT finds a   *)
(* handler unless there was one before.                                      *)
AliveInv ==
    /\ stage \in {"try_init", "init_asm", "asm_cores", "validate_asm"} => host.asm # "faults"
    /\ stage \in Visiting => host.init_faults # Cores
    /\ runs > 0 => handlers.set
    /\ handlers.set /\ ~ handlers.sigint => interrupted
    /\ SurvivesTimers

(* Counters are started on all cores the thread may run on, or, where that     *)
(* faults, on none of them; so what a timer does on the core where it is      *)
(* validated it does on all of them.  Calm: what would disturb that.          *)
Calm == ~ interrupted /\ host.pins = Cores /\ host.init_faults \in {{}, Cores}
AsmStarts == host.asm_init /\ host.asm \notin {"none", "faults"}
Sought == {"validate_asm", "linux", "kperf", "arm", "read_cntvct", "read_ccnt", "start_ccnt", "arm_chosen", "gettime"}
StartedInv ==
    /\ host \in Hosts
    /\ host.init_faults = Cores => started = {}
    /\ started # {} => AsmStarts \/ host.arm = "ccnt"
    /\ stage \in {"try_init", "init_asm", "asm_cores"} => AsmStarts
    /\ stage \in {"read_ccnt", "start_ccnt", "arm_cores", "arm_chosen"} => host.arm = "ccnt"
    /\ stage = "read_cntvct" => host.arm = "cntvct"
    /\ stage \in Visiting => todo \subseteq Cores /\ kept \subseteq started \cup todo
    /\ Calm /\ host.init_faults = {} /\ AsmStarts /\ stage \in Sought => affinity \subseteq started
    /\ Calm /\ host.init_faults = {} /\ stage = "arm_chosen" => affinity \subseteq started
    /\ stage \notin {"idle", "clock", "cpu", "tests"} \cup Ended => host.clock
CountsInv ==
    Calm /\ stage \in {"cpu", "tests"} /\ config.bench =>
        \A core \in affinity : CountsOn(perf.start, core)

StartInv == TypeInv /\ FrameInv /\ MaskInv /\ TimerInv /\ AliveInv

-----------------------------------------------------------------------------
(* Both halves of the induction: how the process begins, and every step of it. *)
LEMMA StartInitInv == StartInit => StartInv
<1>1. ASSUME StartInit PROVE TypeInv
  <2>1. perf \in Perf
    BY <1>1 DEF StartInit, NoPerf, Perf, Timers, Units
  <2>2. config \in [bench : BOOLEAN, affinity : SUBSET Nat]
    BY <1>1 DEF StartInit
  <2>3. handlers \in [set : BOOLEAN, sigint : BOOLEAN]
    BY <1>1 DEF StartInit
  <2>4. host \in Host
    BY <1>1, HostsAssumption DEF StartInit
  <2> QED
    BY <1>1, <2>1, <2>2, <2>3, <2>4 DEF StartInit, TypeInv
<1>2. ASSUME StartInit PROVE FrameInv /\ MaskInv /\ TimerInv /\ AliveInv
  BY <1>2 DEF StartInit, FrameInv, MaskInv, Mask, TimerInv, AliveInv, SurvivesTimers, NoPerf,
       Trying, Visiting, AfterAsm, Ended
<1> QED
  BY <1>1, <1>2 DEF StartInv

(* checkasm_perf and the configuration keep their types, whatever is tried.    *)
LEMMA TypesKept == TypeInv /\ [StartNext]_startVars => TypeInv'
<1> SUFFICES ASSUME TypeInv, [StartNext]_startVars PROVE TypeInv'
  OBVIOUS
<1> USE DEF TypeInv, signalState, coreState
<1>1. ASSUME NEW c \in RunConfigs, RunBegin(c) PROVE TypeInv'
  BY <1>1, RunConfigsAssumption DEF RunBegin, Installed
<1>2. ASSUME NEW core \in Cores, TimerFault(core) PROVE TypeInv'
  BY <1>2 DEF TimerFault
<1>3. ASSUME NEW core \in Cores, OnCore(core) PROVE TypeInv'
  <2> USE DEF Chosen, Perf, Timers, Units, CntvctUnit
  <2>1. ASSUME InitAsm(core) \/ StartCcnt(core) PROVE TypeInv'
    BY <2>1 DEF InitAsm, StartCcnt, Disarm
  <2>2. ASSUME ValidateAsm(core) PROVE TypeInv'
    BY <2>2 DEF ValidateAsm
  <2>3. ASSUME LinuxPerf(core) \/ Kperf(core) PROVE TypeInv'
    BY <2>3 DEF LinuxPerf, Kperf
  <2>4. ASSUME ReadCntvct(core) PROVE TypeInv'
    <3>1. perf' = perf \/ \E u \in {"nsec", "tick"} : perf' = Chosen("cntvct", u, perf.asm_usable)
      BY <2>4 DEF ReadCntvct
    <3>2. perf' \in Perf
      BY <3>1
    <3> QED
      BY <2>4, <3>2 DEF ReadCntvct, Disarm
  <2>5. ASSUME ChooseCcnt(core) PROVE TypeInv'
    BY <2>5 DEF ChooseCcnt
  <2> QED
    BY <1>3, <2>1, <2>2, <2>3, <2>4, <2>5, <1>2 DEF OnCore
<1>4. ASSUME TryAsm \/ TryInit \/ TryCntvct \/ TryCcnt PROVE TypeInv'
  BY <1>4 DEF TryAsm, TryInit, TryCntvct, TryCcnt, Try
<1>5. ASSUME ReadAsm \/ NoAsm \/ GetTime PROVE TypeInv'
  <2> USE DEF Perf, Timers, Units
  <2>1. ASSUME ReadAsm PROVE TypeInv'
    BY <2>1 DEF ReadAsm, Disarm, Chosen
  <2>2. ASSUME NoAsm PROVE TypeInv'
    BY <2>2 DEF NoAsm
  <2>3. ASSUME GetTime PROVE TypeInv'
    BY <2>3 DEF GetTime, Fallback
  <2> QED
    BY <1>5, <2>1, <2>2, <2>3
<1>6. ASSUME Clock \/ VisitCore \/ LeaveCores \/ NoArm \/ ReadCcnt \/ InitCpu \/ RunEnd PROVE TypeInv'
  BY <1>6 DEF Clock, VisitCore, LeaveCores, NoArm, ReadCcnt, InitCpu, RunEnd
<1>7. ASSUME SigInt PROVE TypeInv'
  BY <1>7 DEF SigInt
<1>8. ASSUME UNCHANGED startVars PROVE TypeInv'
  BY <1>8 DEF startVars
<1> QED
  BY <1>1, <1>3, <1>4, <1>5, <1>6, <1>7, <1>8 DEF StartNext, PerfInit, StartDone

(* Every step: what a timer does to the process that tries it, a signal at    *)
(* any moment, and another call of checkasm_run().                           *)
LEMMA StartNextInv == StartInv /\ [StartNext]_startVars => StartInv'
<1> SUFFICES ASSUME StartInv, [StartNext]_startVars PROVE StartInv'
  OBVIOUS
<1>0. TypeInv'
  BY TypesKept DEF StartInv
<1> USE DEF StartInv, TypeInv, FrameInv, MaskInv, TimerInv, AliveInv, SurvivesTimers, Mask, Whole, Unit,
        Trying, Visiting, AfterAsm, Ended, Go, signalState, coreState, Chosen, CntvctUnit,
        Perf, Timers, Units
<1>1. ASSUME NEW c \in RunConfigs, RunBegin(c) PROVE (FrameInv /\ MaskInv /\ TimerInv /\ AliveInv)'
  BY <1>1, RunConfigsAssumption DEF RunBegin, Installed, Pinned
<1>2. ASSUME Clock PROVE (FrameInv /\ MaskInv /\ TimerInv /\ AliveInv)'
  BY <1>2, RunConfigsAssumption DEF Clock
<1>3. ASSUME TryAsm PROVE (FrameInv /\ MaskInv /\ TimerInv /\ AliveInv)'
  BY <1>3, RunConfigsAssumption DEF TryAsm, Try
<1>4. ASSUME ReadAsm PROVE (FrameInv /\ MaskInv /\ TimerInv /\ AliveInv)'
  BY <1>4, RunConfigsAssumption DEF ReadAsm, Disarm
<1>5. ASSUME NoAsm PROVE (FrameInv /\ MaskInv /\ TimerInv /\ AliveInv)'
  BY <1>5, RunConfigsAssumption DEF NoAsm, AfterNoAsm
<1>6. ASSUME TryInit PROVE (FrameInv /\ MaskInv /\ TimerInv /\ AliveInv)'
  BY <1>6, RunConfigsAssumption DEF TryInit, Try
<1>7. ASSUME VisitCore PROVE (FrameInv /\ MaskInv /\ TimerInv /\ AliveInv)'
  <2>2. FrameInv'
    BY <1>7 DEF VisitCore
  <2>3. MaskInv'
    BY <1>7 DEF VisitCore
  <2>4. TimerInv'
    BY <1>7 DEF VisitCore
  <2>5. AliveInv'
    BY <1>7 DEF VisitCore
  <2> QED
    BY <2>2, <2>3, <2>4, <2>5
<1>8. ASSUME LeaveCores PROVE (FrameInv /\ MaskInv /\ TimerInv /\ AliveInv)'
  BY <1>8, RunConfigsAssumption DEF LeaveCores, Unpin, AfterCores
<1>9. ASSUME TryCntvct PROVE (FrameInv /\ MaskInv /\ TimerInv /\ AliveInv)'
  BY <1>9, RunConfigsAssumption DEF TryCntvct, Try
<1>10. ASSUME TryCcnt PROVE (FrameInv /\ MaskInv /\ TimerInv /\ AliveInv)'
  BY <1>10, RunConfigsAssumption DEF TryCcnt, Try
<1>11. ASSUME NoArm PROVE (FrameInv /\ MaskInv /\ TimerInv /\ AliveInv)'
  BY <1>11, RunConfigsAssumption DEF NoArm
<1>12. ASSUME ReadCcnt PROVE (FrameInv /\ MaskInv /\ TimerInv /\ AliveInv)'
  BY <1>12, RunConfigsAssumption DEF ReadCcnt
<1>13. ASSUME GetTime PROVE (FrameInv /\ MaskInv /\ TimerInv /\ AliveInv)'
  <2>2. FrameInv'
    BY <1>13 DEF GetTime, Fallback
  <2>3. MaskInv'
    BY <1>13 DEF GetTime, Fallback
  <2>4. TimerInv'
    BY <1>13 DEF GetTime, Fallback
  <2>5. AliveInv'
    BY <1>13 DEF GetTime, Fallback
  <2> QED
    BY <2>2, <2>3, <2>4, <2>5
<1>14. ASSUME InitCpu PROVE (FrameInv /\ MaskInv /\ TimerInv /\ AliveInv)'
  BY <1>14, RunConfigsAssumption DEF InitCpu
<1>15. ASSUME RunEnd PROVE (FrameInv /\ MaskInv /\ TimerInv /\ AliveInv)'
  BY <1>15, RunConfigsAssumption DEF RunEnd
<1>16. ASSUME NEW core \in Cores, InitAsm(core) PROVE (FrameInv /\ MaskInv /\ TimerInv /\ AliveInv)'
  <2>2. FrameInv'
    BY <1>16 DEF InitAsm, Disarm, ToVisit
  <2>3. MaskInv'
    BY <1>16 DEF InitAsm, Disarm, ToVisit
  <2>4. TimerInv'
    BY <1>16 DEF InitAsm, Disarm, ToVisit
  <2>5. AliveInv'
    BY <1>16 DEF InitAsm, Disarm, ToVisit
  <2> QED
    BY <2>2, <2>3, <2>4, <2>5
<1>17. ASSUME NEW core \in Cores, ValidateAsm(core) PROVE (FrameInv /\ MaskInv /\ TimerInv /\ AliveInv)'
  <2>1. host.asm = "counts" => Reads(host.asm, core) = "counts"
    BY DEF Reads
  <2> QED
    BY <1>17, <2>1, RunConfigsAssumption DEF ValidateAsm, Validated
<1>18. ASSUME NEW core \in Cores, LinuxPerf(core) PROVE (FrameInv /\ MaskInv /\ TimerInv /\ AliveInv)'
  BY <1>18, RunConfigsAssumption DEF LinuxPerf, Validated
<1>19. ASSUME NEW core \in Cores, Kperf(core) PROVE (FrameInv /\ MaskInv /\ TimerInv /\ AliveInv)'
  BY <1>19, RunConfigsAssumption DEF Kperf, Validated
<1>20. ASSUME NEW core \in Cores, ReadCntvct(core) PROVE (FrameInv /\ MaskInv /\ TimerInv /\ AliveInv)'
  <2>2. FrameInv'
    BY <1>20 DEF ReadCntvct, Disarm, Validated
  <2>3. MaskInv'
    BY <1>20 DEF ReadCntvct, Disarm, Validated
  <2>4. TimerInv'
    BY <1>20 DEF ReadCntvct, Disarm, Validated
  <2>5. AliveInv'
    BY <1>20 DEF ReadCntvct, Disarm, Validated
  <2> QED
    BY <2>2, <2>3, <2>4, <2>5
<1>21. ASSUME NEW core \in Cores, StartCcnt(core) PROVE (FrameInv /\ MaskInv /\ TimerInv /\ AliveInv)'
  <2>2. FrameInv'
    BY <1>21 DEF StartCcnt, Disarm, ToVisit
  <2>3. MaskInv'
    BY <1>21 DEF StartCcnt, Disarm, ToVisit
  <2>4. TimerInv'
    BY <1>21 DEF StartCcnt, Disarm, ToVisit
  <2>5. AliveInv'
    BY <1>21 DEF StartCcnt, Disarm, ToVisit
  <2> QED
    BY <2>2, <2>3, <2>4, <2>5
<1>22. ASSUME NEW core \in Cores, ChooseCcnt(core) PROVE (FrameInv /\ MaskInv /\ TimerInv /\ AliveInv)'
  BY <1>22, RunConfigsAssumption DEF ChooseCcnt, Validated
<1>23. ASSUME NEW core \in Cores, TimerFault(core) PROVE (FrameInv /\ MaskInv /\ TimerInv /\ AliveInv)'
  <2>2. FrameInv'
    BY <1>23 DEF TimerFault, Faults, JumpBack, Executing
  <2>3. MaskInv'
    BY <1>23 DEF TimerFault, Faults, JumpBack, Executing
  <2>4. TimerInv'
    BY <1>23 DEF TimerFault, Faults, JumpBack, Executing
  <2>5. AliveInv'
    BY <1>23 DEF TimerFault, Faults, JumpBack, Executing
  <2> QED
    BY <2>2, <2>3, <2>4, <2>5
<1>24. ASSUME SigInt PROVE (FrameInv /\ MaskInv /\ TimerInv /\ AliveInv)'
  <2>2. FrameInv'
    BY <1>24 DEF SigInt, JumpBack, Executing
  <2>3. MaskInv'
    BY <1>24 DEF SigInt, JumpBack, Executing
  <2>4. TimerInv'
    BY <1>24 DEF SigInt, JumpBack, Executing
  <2>5. AliveInv'
    BY <1>24 DEF SigInt, JumpBack, Executing
  <2> QED
    BY <2>2, <2>3, <2>4, <2>5
<1>25. ASSUME UNCHANGED startVars PROVE (FrameInv /\ MaskInv /\ TimerInv /\ AliveInv)'
  BY <1>25, RunConfigsAssumption DEF startVars
<1> QED
  BY <1>0, <1>1, <1>2, <1>3, <1>4, <1>5, <1>6, <1>7, <1>8, <1>9, <1>10, <1>11, <1>12, <1>13, <1>14, <1>15, <1>16, <1>17, <1>18, <1>19, <1>20, <1>21, <1>22, <1>23, <1>24, <1>25 DEF StartNext, PerfInit, OnCore, StartDone

LEMMA StartInvariant == StartSpec => []StartInv
BY StartInitInv, StartNextInv, PTL DEF StartSpec

(* There is a first one in every set of cores.                               *)
LEMMA FirstIsMember == ASSUME NEW S, S \subseteq Cores, S # {} PROVE First(S) \in S
<1>1. IsWellFoundedOn(OpToRel(<, Nat), Nat) /\ S \subseteq Nat
  BY NatLessThanWellFounded, CoresAssumption
<1>2. PICK c \in S : \A d \in S : ~ (<<d, c>> \in OpToRel(<, Nat))
  BY <1>1, WFMin
<1>3. \A d \in S : c <= d
  <2> TAKE d \in S
  <2>1. d \in Nat /\ c \in Nat /\ ~ (d < c)
    BY <1>1, <1>2 DEF OpToRel
  <2> QED
    BY <2>1
<1> QED
  BY <1>2, <1>3 DEF First

(* What the search did to the counters and to the mask, step by step.         *)
LEMMA StartedNextInv == StartInv /\ StartedInv /\ [StartNext]_startVars => StartedInv'
<1> SUFFICES ASSUME StartInv, StartedInv, [StartNext]_startVars PROVE StartedInv'
  OBVIOUS
<1> USE Arm11Assumption, CoresAssumption
<1> USE DEF StartInv, StartedInv, Calm, AsmStarts, Sought, Visiting, Ended, Go, signalState, coreState
<1>1. ASSUME NEW c \in RunConfigs, RunBegin(c) PROVE StartedInv'
  BY <1>1 DEF RunBegin
<1>2. ASSUME Clock PROVE StartedInv'
  BY <1>2 DEF Clock
<1>3. ASSUME TryAsm PROVE StartedInv'
  BY <1>3 DEF TryAsm, Try
<1>4. ASSUME ReadAsm PROVE StartedInv'
  BY <1>4 DEF ReadAsm, Disarm, TimerInv
<1>5. ASSUME NoAsm PROVE StartedInv'
  <2>1. host.asm = "faults" \/ interrupted
    BY <1>5 DEF NoAsm, TimerInv
  <2> QED
    BY <1>5, <2>1 DEF NoAsm, AfterNoAsm
<1>6. ASSUME TryInit PROVE StartedInv'
  BY <1>6 DEF TryInit, Try
<1>7. ASSUME VisitCore PROVE StartedInv'
  BY <1>7 DEF VisitCore, AliveInv
<1>8. ASSUME LeaveCores PROVE StartedInv'
  <2>1. Calm => todo = {}
    BY <1>8, FirstIsMember DEF LeaveCores
  <2>2. Calm /\ host.init_faults = {} => affinity' \subseteq started'
    BY <1>8, <2>1 DEF LeaveCores, Unpin
  <2> QED
    BY <1>8, <2>2 DEF LeaveCores, AfterCores
<1>9. ASSUME TryCntvct PROVE StartedInv'
  BY <1>9 DEF TryCntvct, Try
<1>10. ASSUME TryCcnt PROVE StartedInv'
  BY <1>10 DEF TryCcnt, Try
<1>11. ASSUME NoArm PROVE StartedInv'
  BY <1>11 DEF NoArm
<1>12. ASSUME ReadCcnt PROVE StartedInv'
  BY <1>12 DEF ReadCcnt
<1>13. ASSUME GetTime PROVE StartedInv'
  BY <1>13 DEF GetTime
<1>14. ASSUME InitCpu \/ RunEnd PROVE StartedInv'
  BY <1>14 DEF InitCpu, RunEnd
<1>15. ASSUME NEW core \in Cores, InitAsm(core) PROVE StartedInv'
  BY <1>15 DEF InitAsm, Disarm, ToVisit, MaskInv, Mask
<1>16. ASSUME NEW core \in Cores, ValidateAsm(core) PROVE StartedInv'
  BY <1>16 DEF ValidateAsm, Validated
<1>17. ASSUME NEW core \in Cores, LinuxPerf(core) PROVE StartedInv'
  BY <1>17 DEF LinuxPerf, Validated
<1>18. ASSUME NEW core \in Cores, Kperf(core) PROVE StartedInv'
  BY <1>18 DEF Kperf, Validated
<1>19. ASSUME NEW core \in Cores, ReadCntvct(core) PROVE StartedInv'
  BY <1>19 DEF ReadCntvct, Disarm, Validated
<1>20. ASSUME NEW core \in Cores, StartCcnt(core) PROVE StartedInv'
  BY <1>20 DEF StartCcnt, Disarm, ToVisit, MaskInv, Mask
<1>21. ASSUME NEW core \in Cores, ChooseCcnt(core) PROVE StartedInv'
  BY <1>21 DEF ChooseCcnt, Validated
<1>22. ASSUME NEW core \in Cores, TimerFault(core) PROVE StartedInv'
  BY <1>22 DEF TimerFault, Faults, JumpBack, Executing, TypeInv, FrameInv, MaskInv, AliveInv, Trying
<1>23. ASSUME SigInt PROVE StartedInv'
  BY <1>23 DEF SigInt, JumpBack, Executing, FrameInv, Trying
<1>24. ASSUME UNCHANGED startVars PROVE StartedInv'
  BY <1>24 DEF startVars
<1> QED
  BY <1>1, <1>2, <1>3, <1>4, <1>5, <1>6, <1>7, <1>8, <1>9, <1>10, <1>11, <1>12, <1>13, <1>14, <1>15, <1>16, <1>17, <1>18, <1>19, <1>20, <1>21, <1>22, <1>23, <1>24 DEF StartNext, PerfInit, OnCore, StartDone

(* Where a timer is validated, it does the same on every core of the mask.     *)
LEMMA AsmIsUniform ==
  ASSUME StartInv, StartedInv, Calm, stage = "validate_asm",
         NEW core \in affinity, NEW other \in affinity, Reads(host.asm, core) = "counts"
  PROVE  Reads(host.asm, other) = "counts"
<1>1. CASE host.asm = "unstarted"
  <2>1. core \in started
    BY <1>1 DEF Reads
  <2>2. AsmStarts
    BY <2>1, <1>1, Arm11Assumption DEF StartedInv, AsmStarts
  <2>3. affinity \subseteq started
    BY <2>1, <2>2 DEF StartedInv, Calm, Sought
  <2> QED
    BY <1>1, <2>3 DEF Reads
<1> QED
  BY <1>1 DEF Reads

LEMMA CounterIsUniform ==
  ASSUME StartInv, StartedInv, Calm, stage \in {"read_cntvct", "arm_chosen"},
         NEW core \in affinity, NEW other \in affinity, Reads(host.counter, core) = "counts"
  PROVE  Reads(host.counter, other) = "counts"
<1>1. CASE host.counter = "unstarted"
  <2>1. core \in started
    BY <1>1 DEF Reads
  <2>2. affinity \subseteq started
    BY <2>1 DEF StartedInv, Calm, Sought
  <2> QED
    BY <1>1, <2>2 DEF Reads
<1> QED
  BY <1>1 DEF Reads

LEMMA CountsNextInv ==
  StartInv /\ StartedInv /\ CountsInv /\ [StartNext]_startVars => CountsInv'
<1> SUFFICES ASSUME StartInv, StartedInv, CountsInv, [StartNext]_startVars,
                    Calm', (stage \in {"cpu", "tests"})', config'.bench,
                    NEW other \in affinity'
             PROVE  CountsOn(perf.start, other)'
  BY DEF CountsInv
<1> USE DEF Go, Validated, signalState, coreState
<1>1. ASSUME NEW c \in RunConfigs, RunBegin(c) PROVE CountsOn(perf.start, other)'
  BY <1>1 DEF RunBegin
<1>2. ASSUME NEW core \in Cores, ValidateAsm(core) PROVE CountsOn(perf.start, other)'
  <2>1. stage = "validate_asm" /\ Reads(host.asm, core) = "counts" /\ core \in affinity
    BY <1>2 DEF ValidateAsm
  <2>2. Calm /\ other \in affinity
    BY <1>2 DEF ValidateAsm, Calm
  <2>3. Reads(host.asm, other) = "counts"
    BY <2>1, <2>2, AsmIsUniform
  <2>4. perf'.start = "asm" /\ started' = started /\ host' = host
    BY <1>2, <2>1 DEF ValidateAsm, StartInv, TimerInv, Chosen
  <2> QED
    BY <2>3, <2>4 DEF CountsOn, Reads
<1>3. ASSUME NEW core \in Cores, LinuxPerf(core) \/ Kperf(core) PROVE CountsOn(perf.start, other)'
  <2>1. \/ perf'.start = "linux" /\ Reads(host.linux, core) = "counts"
        \/ perf'.start = "kperf" /\ Reads(host.kperf, core) = "counts"
    BY <1>3 DEF LinuxPerf, Kperf, Chosen
  <2>2. host' = host /\ host.linux # "unstarted" /\ host.kperf # "unstarted"
    BY <1>3 DEF LinuxPerf, Kperf, StartInv, TypeInv, Host
  <2> QED
    BY <2>1, <2>2 DEF CountsOn, Reads
<1>4. ASSUME NEW core \in Cores, ReadCntvct(core) \/ ChooseCcnt(core)
      PROVE  CountsOn(perf.start, other)'
  <2>1. /\ stage \in {"read_cntvct", "arm_chosen"} /\ Reads(host.counter, core) = "counts"
        /\ core \in affinity
    BY <1>4 DEF ReadCntvct, ChooseCcnt
  <2>2. Calm /\ other \in affinity
    BY <1>4 DEF ReadCntvct, ChooseCcnt, Calm
  <2>3. Reads(host.counter, other) = "counts"
    BY <2>1, <2>2, CounterIsUniform
  <2>4. perf'.start \in {"cntvct", "ccnt"} /\ started' = started /\ host' = host
    BY <1>4, <2>1 DEF ReadCntvct, ChooseCcnt, Chosen
  <2> QED
    BY <2>3, <2>4 DEF CountsOn, Reads
<1>5. ASSUME GetTime PROVE CountsOn(perf.start, other)'
  BY <1>5 DEF GetTime, Fallback, CountsOn, StartedInv, Ended, StartInv, TypeInv, Perf
<1>6. ASSUME InitCpu \/ UNCHANGED startVars PROVE CountsOn(perf.start, other)'
  <2>1. Calm /\ stage \in {"cpu", "tests"} /\ config.bench /\ other \in affinity
    BY <1>6 DEF InitCpu, Calm, startVars
  <2>2. CountsOn(perf.start, other)
    BY <2>1 DEF CountsInv
  <2> QED
    BY <1>6, <2>2 DEF InitCpu, startVars, CountsOn, Reads
<1>7. ASSUME RunEnd \/ SigInt PROVE FALSE
  <2>1. ~ SigInt
    BY DEF SigInt, Calm, Ended, StartInv, FrameInv, JumpBack
  <2>2. ~ RunEnd
    BY DEF RunEnd
  <2> QED
    BY <1>7, <2>1, <2>2
<1>8. ASSUME \/ Clock \/ TryAsm \/ ReadAsm \/ NoAsm \/ TryInit \/ VisitCore \/ LeaveCores
             \/ TryCntvct \/ TryCcnt \/ NoArm \/ ReadCcnt
      PROVE  FALSE
  BY <1>8 DEF Clock, TryAsm, ReadAsm, NoAsm, AfterNoAsm, TryInit, VisitCore, LeaveCores, AfterCores,
       TryCntvct, TryCcnt, NoArm, ReadCcnt, Try
<1>9. ASSUME NEW core \in Cores, InitAsm(core) \/ StartCcnt(core) \/ TimerFault(core) PROVE FALSE
  BY <1>9 DEF InitAsm, StartCcnt, TimerFault, Faults, JumpBack, StartInv, FrameInv, Trying, Ended
<1> QED
  BY <1>1, <1>2, <1>3, <1>4, <1>5, <1>6, <1>7, <1>8, <1>9 DEF StartNext, PerfInit, OnCore, StartDone

-----------------------------------------------------------------------------
(* No signal jumps into a frame that has returned, whichever timer is tried,   *)
(* in whichever order, and whenever the user interrupts it (perf.c:68-93,     *)
(* perf/arm.c:66-70, 121-133).                                               *)
THEOREM JumpsIntoLiveFrames == StartSpec => []ArmedInLiveFrame
<1>1. StartInv => ArmedInLiveFrame
  BY DEF StartInv, FrameInv, ArmedInLiveFrame, Trying, Executing, Ended
<1> QED
  BY <1>1, StartInvariant, PTL

(* However many cores there are and however many of them could be visited,    *)
(* the tests run with the mask that was asked for (checkasm.c:625-690).       *)
THEOREM MaskIsRestored == StartSpec => []AffinityKept
<1>1. StartInv => AffinityKept
  BY DEF StartInv, TypeInv, MaskInv, AffinityKept, Mask, Visiting, Ended
<1> QED
  BY <1>1, StartInvariant, PTL

(* The timer that the tests use is one timer, in every run of a process and    *)
(* whatever was tried and given up before (perf.c:68-125).                    *)
THEOREM OneTimerChosen == StartSpec => []TimerIsWhole
<1>1. StartInv => TimerIsWhole
  BY DEF StartInv, TimerInv, TimerIsWhole, Whole, ReadsInline
<1> QED
  BY <1>1, StartInvariant, PTL

(* On a machine whose cores are alike only the user kills the process, and     *)
(* not with the first SIGINT of it (perf.c:68-93, signal.c:104-165).          *)
THEOREM TimersDoNotKill == StartSpec => []SurvivesTimers
<1>1. StartInv => SurvivesTimers
  BY DEF StartInv, AliveInv
<1> QED
  BY <1>1, StartInvariant, PTL

(* A timer that was tried on the core where the thread happened to be counts   *)
(* on each core it may be moved to: a counter was started on all of them, by   *)
(* this run or not at all, whatever cores an earlier run started (perf.c:93,  *)
(* perf/arm.c:133, checkasm.c:645-675).                                      *)
THEOREM TimerCountsOnAllCores == StartSpec => []CountsEverywhere
<1>1. StartInit => StartedInv /\ CountsInv
  BY CoresAssumption DEF StartInit, StartedInv, CountsInv, Calm, AsmStarts, Visiting, Sought, Ended
<1>2. StartInv /\ StartedInv /\ CountsInv /\ [StartNext]_startVars => (StartedInv /\ CountsInv)'
  BY StartedNextInv, CountsNextInv
<1>3. StartSpec => [](StartedInv /\ CountsInv)
  BY <1>1, <1>2, StartInvariant, PTL DEF StartSpec
<1>4. CountsInv => CountsEverywhere
  BY DEF CountsInv, CountsEverywhere, Calm
<1> QED
  BY <1>3, <1>4, PTL

-----------------------------------------------------------------------------
(* A machine is of one architecture, and what was looked up is looked up once: *)
(* the warmup that CPU and kernel allow, the flags that kernel and build tell.*)
Machine ==
    \/ machine = [arch |-> "none"]
    \/ \E c \in X86s : machine = [arch |-> "x86", cpu |-> c]
    \/ \E c \in RiscVs : machine = [arch |-> "riscv", cpu |-> c]
    \/ \E c \in Arms : machine = [arch |-> "arm", cpu |-> c]
X86Inv ==
    /\ machine.arch = "none" => simd_warmup = "null"
    /\ machine.arch = "x86" =>
           /\ simd_warmup \in {"null", GetSimdWarmup}
           /\ alive \/ (Cpu.avx /\ ~ Cpu.ymm /\ initialised)
RiscVInv ==
    /\ machine.arch = "none" => cpu_flags = {"unset"} /\ alive
    /\ machine.arch = "riscv" =>
           /\ alive
           /\ cpu_flags # {"unset"} => cpu_flags = HwProbe /\ call_ptr = CheckedCall(HwProbe)
CpuInv == Machine /\ X86Inv /\ RiscVInv

-----------------------------------------------------------------------------
(* get_simd_warmup() never picks registers that cannot be used: its leaves are *)
(* within max_leaf before they are believed (x86/cpu.c:131-160).              *)
LEMMA WarmupCanExecute ==
  ASSUME NEW c \in X86s, machine = [arch |-> "x86", cpu |-> c]
  PROVE  CanExecute(GetSimdWarmup)
<1>1. Cpu = c /\ c \in X86
  BY CpusAssumption DEF Cpu
<1>2. c.max_leaf \in Nat
  BY <1>1 DEF X86
<1>3. /\ CanExecute("noop")
      /\ c.avx /\ c.ymm => CanExecute("avx")
      /\ c.avx /\ c.ymm /\ c.zmm /\ c.max_leaf >= 7 /\ c.avx512f => CanExecute("avx512")
  BY <1>1 DEF CanExecute
<1>4. \/ GetSimdWarmup = "noop"
      \/ GetSimdWarmup = "avx" /\ c.avx /\ c.ymm
      \/ /\ GetSimdWarmup = "avx512"
         /\ c.avx /\ c.ymm /\ c.zmm /\ c.max_leaf >= 7 /\ c.avx512f
  BY <1>1, <1>2 DEF GetSimdWarmup, Leaf7Avx512
<1> QED
  BY <1>3, <1>4

(* Where checkasm_init_x86() executes AVX, xgetbv(1) can be read after it.    *)
LEMMA InitReadsXcr1 ==
  ASSUME LeafExists, Cpu.avx, Leaf13Xcr1
  PROVE  CanReadXcr1
BY DEF LeafExists, Leaf13Xcr1, CanReadXcr1

(* What is probed or assumed always has a checked call, and never the one of   *)
(* another set of registers.                                                 *)
LEMMA EveryFlagsHaveCall ==
  ASSUME NEW c \in RiscVs, machine = [arch |-> "riscv", cpu |-> c]
  PROVE  /\ HwProbe # {"unset"} /\ CheckedCall(HwProbe) # "null"
         /\ CheckedCall(HwProbe) \in {"if", "ifv"} <=> "float" \in HwProbe
         /\ CheckedCall(HwProbe) \in {"iv", "ifv"} <=> "vector" \in HwProbe
<1>1. Cpu = c /\ c \in RiscV /\ (c.soft \/ c.build_f)
  BY CpusAssumption, FloatAbiAssumption DEF Cpu
<1>2. HwProbe \in {{}, {"float"}, {"vector"}, {"float", "vector"}}
  BY DEF HwProbe, Probed, Built
<1>3. "float" \in HwProbe \/ c.soft
  BY <1>1 DEF HwProbe, Built
<1>4. CASE "float" \in HwProbe
  <2>1. HwProbe \in {{"float"}, {"float", "vector"}}
    BY <1>2, <1>4
  <2> QED
    BY <1>4, <2>1 DEF CheckedCall
<1>5. CASE "float" \notin HwProbe
  <2>1. HwProbe \in {{}, {"vector"}} /\ Cpu.soft
    BY <1>1, <1>2, <1>3, <1>5
  <2> QED
    BY <1>5, <2>1 DEF CheckedCall
<1> QED
  BY <1>4, <1>5

(* The flags are what the CPU has, as far as build and kernel tell of it: a    *)
(* bit that says V says Zve32x too.                                          *)
LEMMA FlagsAreOfCpu ==
  ASSUME NEW c \in RiscVs, machine = [arch |-> "riscv", cpu |-> c]
  PROVE  /\ "float" \in HwProbe => "F" \in Cpu.has
         /\ "vector" \in HwProbe => "Zve32x" \in Cpu.has
         /\ "vector" \in HwProbe <=>
                \/ Cpu.build_v
                \/ Cpu.asks = "hwprobe" /\ \E b \in Cpu.macros : TellsOf(b)
                \/ Cpu.asks = "hwcap" /\ TellsOf("HWCAP_V")
<1> DEFINE Floats == {"IMA_FD", "HWCAP_F"}
<1>1. /\ Cpu = c /\ c \in RiscV /\ c.macros \subseteq VectorBits
      /\ "V" \in c.has => "Zve32x" \in c.has
      /\ c.build_f => "F" \in c.has
      /\ c.build_v => "Zve32x" \in c.has
  BY CpusAssumption, ExtensionsAssumption DEF Cpu, RiscV
<1>2. Tested \subseteq Floats \cup VectorBits \cup {"HWCAP_V"}
  BY <1>1 DEF Tested, RiscV, VectorBits
<1>3. \A b \in Floats : TellsOf(b) => "F" \in Cpu.has
  BY DEF TellsOf, Means
<1>4. \A b \in VectorBits \cup {"HWCAP_V"} : b \notin Floats /\ (TellsOf(b) => "Zve32x" \in Cpu.has)
  BY <1>1 DEF TellsOf, Means, VectorBits
<1>5. /\ "float" \in HwProbe <=> Cpu.build_f \/ \E b \in Tested : TellsOf(b) /\ b \in Floats
      /\ "vector" \in HwProbe <=> Cpu.build_v \/ \E b \in Tested : TellsOf(b) /\ b \notin Floats
  BY DEF HwProbe, Probed, Built
<1>6. CASE Cpu.asks = "hwprobe"
  <2>1. Tested = {"IMA_FD"} \cup Cpu.macros
    BY <1>6 DEF Tested
  <2>2. (\E b \in Tested : TellsOf(b) /\ b \notin Floats) <=> \E b \in Cpu.macros : TellsOf(b)
    BY <1>1, <1>4, <2>1
  <2> QED
    BY <1>1, <1>2, <1>3, <1>4, <1>5, <1>6, <2>2
<1>7. CASE Cpu.asks = "hwcap"
  <2>1. Tested = {"HWCAP_F", "HWCAP_V"}
    BY <1>7 DEF Tested
  <2> QED
    BY <1>1, <1>2, <1>3, <1>4, <1>5, <1>7, <2>1
<1>8. CASE Cpu.asks = "nothing"
  <2>1. Tested = {}
    BY <1>8 DEF Tested
  <2> QED
    BY <1>1, <1>5, <1>8, <2>1
<1> QED
  BY <1>1, <1>6, <1>7, <1>8 DEF RiscV

LEMMA CpuInitInv == CpuInit => CpuInv
BY DEF CpuInit, CpuInv, Machine, X86Inv, RiscVInv

LEMMA CpuNextInv == CpuInv /\ [CpuNext \/ CpuStopped]_cpuVars => CpuInv'
<1> SUFFICES ASSUME CpuInv, [CpuNext \/ CpuStopped]_cpuVars PROVE CpuInv'
  OBVIOUS
<1> USE DEF CpuInv, Machine
<1>1. ASSUME NEW c \in X86s \cup RiscVs \cup Arms, machine.arch = "none",
             \/ c \in X86s /\ machine' = [arch |-> "x86", cpu |-> c]
             \/ c \in RiscVs /\ machine' = [arch |-> "riscv", cpu |-> c]
             \/ c \in Arms /\ machine' = [arch |-> "arm", cpu |-> c],
             UNCHANGED <<check_vzeroupper, simd_warmup, cpu_flags, call_ptr, initialised, alive>>
      PROVE  CpuInv'
  BY <1>1 DEF X86Inv, RiscVInv
<1>2. ASSUME InitX86 PROVE CpuInv'
  <2>1. PICK c \in X86s : machine = [arch |-> "x86", cpu |-> c]
    BY <1>2 DEF InitX86
  <2>2. machine' = machine /\ simd_warmup' = simd_warmup /\ initialised' /\ GetSimdWarmup' = GetSimdWarmup
    BY <1>2 DEF InitX86, GetSimdWarmup, Leaf7Avx512, Cpu
  <2>3. alive' \/ (Cpu.avx /\ ~ Cpu.ymm)
    BY <1>2, InitReadsXcr1 DEF InitX86, CanExecute
  <2> QED
    BY <2>1, <2>2, <2>3 DEF X86Inv, RiscVInv, Cpu
<1>3. ASSUME SimdWarmup PROVE CpuInv'
  <2>1. PICK c \in X86s : machine = [arch |-> "x86", cpu |-> c]
    BY <1>3 DEF SimdWarmup
  <2>2. machine' = machine /\ simd_warmup' = GetSimdWarmup /\ GetSimdWarmup' = GetSimdWarmup
    BY <1>3, <2>1 DEF SimdWarmup, X86Inv, GetSimdWarmup, Leaf7Avx512, Cpu
  <2>3. alive'
    BY <1>3, <2>1, <2>2, WarmupCanExecute DEF SimdWarmup
  <2> QED
    BY <2>1, <2>2, <2>3 DEF X86Inv, RiscVInv
<1>4. ASSUME RiscVCheckedCallPtr PROVE CpuInv'
  <2>1. PICK c \in RiscVs : machine = [arch |-> "riscv", cpu |-> c]
    BY <1>4 DEF RiscVCheckedCallPtr
  <2>2. machine' = machine /\ HwProbe' = HwProbe
    BY <1>4 DEF RiscVCheckedCallPtr, HwProbe, Probed, Tested, TellsOf, Means, Built, Cpu
  <2>3. CpuFlags = HwProbe
    BY <2>1 DEF CpuFlags, RiscVInv
  <2>4. cpu_flags' = HwProbe /\ call_ptr' = CheckedCall(HwProbe) /\ alive'
    BY <1>4, <2>1, <2>3, EveryFlagsHaveCall DEF RiscVCheckedCallPtr
  <2>5. CheckedCall(HwProbe)' = CheckedCall(HwProbe)
    BY <2>2 DEF CheckedCall, Cpu
  <2> QED
    BY <2>1, <2>2, <2>4, <2>5 DEF X86Inv, RiscVInv
<1>5. ASSUME InitArm PROVE CpuInv'
  BY <1>5 DEF InitArm, X86Inv, RiscVInv
<1>6. ASSUME UNCHANGED cpuVars PROVE CpuInv'
  <2>1. HwProbe' = HwProbe
    BY <1>6 DEF cpuVars, HwProbe, Probed, Tested, TellsOf, Means, Built, Cpu
  <2>2. CheckedCall(HwProbe)' = CheckedCall(HwProbe)
    BY <1>6, <2>1 DEF cpuVars, CheckedCall, Cpu
  <2> QED
    BY <1>6, <2>1, <2>2 DEF cpuVars, X86Inv, RiscVInv, GetSimdWarmup, Leaf7Avx512, Cpu
<1> QED
  BY <1>1, <1>2, <1>3, <1>4, <1>5, <1>6 DEF CpuNext, CpuStopped, Boot

LEMMA CpuInvariant == CpuSpec => []CpuInv
BY CpuInitInv, CpuNextInv, PTL DEF CpuSpec

-----------------------------------------------------------------------------
(* On every x86 CPU, whatever the leaves above its highest one seem to say, the *)
(* warmup kills no process, and the initialisation only where the kernel saves *)
(* no YMM (x86/cpu.c:106-185).                                               *)
THEOREM WarmupIsLegal == CpuSpec => []NoIllegalInstruction
<1>1. CpuInv => NoIllegalInstruction
  <2>1. ASSUME machine.arch = "x86", CpuInv, ~ Cpu.ymm PROVE GetSimdWarmup = "noop"
    BY <2>1 DEF GetSimdWarmup
  <2> QED
    BY <2>1 DEF CpuInv, X86Inv, NoIllegalInstruction
<1> QED
  BY <1>1, CpuInvariant, PTL

(* Every build of RISC-V has a checked call on every CPU, kernel and set of    *)
(* headers, one that executes nothing the CPU lacks and overwrites the vector *)
(* registers exactly where build and kernel tell of them, and asking again    *)
(* gives the same one (riscv/cpu.c:118-208).                                  *)
THEOREM CallMatchesCpu == CpuSpec => []CheckedCallExists
<1> DEFINE Vectors ==
        \/ Cpu.build_v
        \/ Cpu.asks = "hwprobe" /\ \E b \in Cpu.macros : TellsOf(b)
        \/ Cpu.asks = "hwcap" /\ TellsOf("HWCAP_V")
<1>1. ASSUME CpuInv, machine.arch = "riscv", cpu_flags # {"unset"}
      PROVE  /\ alive
             /\ call_ptr \in {"if", "ifv"} => "F" \in Cpu.has
             /\ call_ptr \in {"iv", "ifv"} => "Zve32x" \in Cpu.has
             /\ call_ptr \in {"iv", "ifv"} <=> Vectors
  <2>1. PICK c \in RiscVs : machine = [arch |-> "riscv", cpu |-> c]
    BY <1>1 DEF CpuInv, Machine
  <2>2. alive /\ call_ptr = CheckedCall(HwProbe)
    BY <1>1 DEF CpuInv, RiscVInv
  <2>3. "float" \in HwProbe => "F" \in Cpu.has
    BY <2>1, FlagsAreOfCpu
  <2>4. "vector" \in HwProbe <=> Vectors
    BY <2>1, FlagsAreOfCpu
  <2>5. "vector" \in HwProbe => "Zve32x" \in Cpu.has
    BY <2>1, FlagsAreOfCpu
  <2> QED
    BY <2>1, <2>2, <2>3, <2>4, <2>5, EveryFlagsHaveCall
<1>2. CpuInv => CheckedCallExists
  BY <1>1 DEF CheckedCallExists
<1> QED
  BY <1>2, CpuInvariant, PTL

-----------------------------------------------------------------------------
(* The position in the buffer of the CPU's name may pass its end, but then     *)
(* nothing more is printed there.                                            *)
PrintInv ==
    /\ room <= BufLen
    /\ cpuStage \in {"idle", "file", "registry"} => pos = 0
    /\ cpuStage = "cores" => pos \in Nat
    /\ cpuStage = "model" => pos \in Nat /\ pos < BufLen

(* A table lookup finds an entry or none.                                    *)
LEMMA EntryOrNone ==
  ASSUME NEW table, DOMAIN table \subseteq Nat, NEW id
  PROVE  Entry(table, id) = None \/ Entry(table, id) \in DOMAIN table
<1> DEFINE S == { i \in DOMAIN table : table[i].id = id }
<1>1. CASE S = {}
  BY <1>1 DEF Entry
<1>2. CASE S # {}
  <2>1. IsWellFoundedOn(OpToRel(<, Nat), Nat) /\ S \subseteq Nat
    BY NatLessThanWellFounded
  <2> HIDE DEF S
  <2>2. PICK i \in S : \A j \in S : ~ (<<j, i>> \in OpToRel(<, Nat))
    BY <2>1, <1>2, WFMin
  <2>3. \A j \in S : i <= j
    <3> TAKE j \in S
    <3>1. i \in Nat /\ j \in Nat /\ ~ (j < i)
      BY <2>1, <2>2 DEF OpToRel
    <3> QED
      BY <3>1
  <2>4. (CHOOSE k \in S : \A j \in S : k <= j) \in S
    BY <2>3
  <2> QED
    BY <1>2, <2>4 DEF Entry, S
<1> QED
  BY <1>1, <1>2

(* So what is printed for a core is a name whose length is known.            *)
LEMMA PrintedNames ==
  ASSUME NEW core
  PROVE  ImplementerName(core) \in Names /\ PartName(core) \in Names
<1> DEFINE i == Entry(Implementers, core.implementer)
<1>1. i = None \/ i \in DOMAIN Implementers
  BY EntryOrNone, NamesAssumption
<1>2. CASE i = None
  BY <1>2 DEF ImplementerName, PartName, Names
<1>3. CASE i # None
  <2> DEFINE j == Entry(Implementers[i].parts, core.part)
  <2>1. i \in DOMAIN Implementers
    BY <1>1, <1>3
  <2>2. j = None \/ j \in DOMAIN Implementers[i].parts
    BY <2>1, EntryOrNone, NamesAssumption
  <2>3. Implementers[i].name \in Names
    BY <2>1 DEF Names
  <2>4. j \in DOMAIN Implementers[i].parts => Implementers[i].parts[j].name \in Names
    BY <2>1 DEF Names
  <2>5. "Part" \in Names
    BY DEF Names
  <2>6. ImplementerName(core) = Implementers[i].name
    BY <1>3 DEF ImplementerName
  <2>7. PartName(core) = IF j = None THEN "Part" ELSE Implementers[i].parts[j].name
    BY <1>3 DEF PartName
  <2> HIDE DEF i, j
  <2> QED
    BY <2>2, <2>3, <2>4, <2>5, <2>6, <2>7
<1> QED
  BY <1>2, <1>3

(* snprintf() is told of what is left of the buffer.                         *)
LEMMA RoomLeft ==
  ASSUME NEW p \in Nat, p < BufLen
  PROVE  (BufLen - p) % (SizeMax + 1) <= BufLen
BY CpuInfoAssumption

LEMMA PrintNextInv == PrintInv /\ [CpuInfoNext \/ CpuInfoDone]_cpuInfoVars => PrintInv'
<1> SUFFICES ASSUME PrintInv, [CpuInfoNext \/ CpuInfoDone]_cpuInfoVars PROVE PrintInv'
  OBVIOUS
<1> USE CpuInfoAssumption DEF PrintInv
<1>1. ASSUME NEW contents, OpenInput("file", contents) \/ OpenInput("registry", contents)
      PROVE  PrintInv'
  BY <1>1 DEF OpenInput
<1>2. ASSUME ReadKey \/ ReadEmpty \/ ReadSubkey \/ EndOfInput \/ CoresPrinted PROVE PrintInv'
  <2>1. ASSUME ReadKey \/ ReadEmpty \/ ReadSubkey PROVE PrintInv'
    <3>1. cpuStage' = cpuStage /\ pos' = pos /\ room' = room
      BY <2>1 DEF ReadKey, ReadEmpty, ReadSubkey
    <3> QED
      BY <3>1
  <2>2. ASSUME EndOfInput PROVE PrintInv'
    <3>1. pos = 0 /\ pos' = pos /\ room' = room /\ cpuStage' \in {"cores", "null", "model"}
      BY <2>2 DEF EndOfInput
    <3> QED
      BY <3>1
  <2>3. ASSUME CoresPrinted PROVE PrintInv'
    <3>1. /\ pos \in Nat /\ pos' = pos /\ room' = room
          /\ cpuStage' = "done" \/ (cpuStage' = "model" /\ pos < BufLen)
      BY <2>3 DEF CoresPrinted, HasRoom
    <3> QED
      BY <3>1
  <2> QED
    BY <1>2, <2>1, <2>2, <2>3
<1>3. ASSUME PrintCore PROVE PrintInv'
  <2> DEFINE i == Len(printed) + 1
             implementer == ImplementerName(cores[i])
             part == PartName(cores[i])
  <2>1. pos \in Nat /\ pos < BufLen /\ cpuStage' = "cores"
    BY <1>3 DEF PrintCore, HasRoom
  <2>2. NameLen[implementer] \in Nat /\ NameLen[part] \in Nat
    BY PrintedNames, NamesAssumption
  <2>3. room' = (BufLen - pos) % (SizeMax + 1)
    BY <1>3 DEF PrintCore, Printed
  <2>4. pos' = pos + ((IF i > 1 THEN 2 ELSE 0) + NameLen[implementer] + 1 + NameLen[part])
    BY <1>3 DEF PrintCore, Printed
  <2> HIDE DEF implementer, part, i
  <2>5. pos' \in Nat
    BY <2>1, <2>2, <2>4
  <2>6. room' <= BufLen
    BY <2>1, <2>3, RoomLeft
  <2> QED
    BY <2>1, <2>5, <2>6
<1>4. ASSUME PrintModel PROVE PrintInv'
  <2>1. pos \in Nat /\ pos < BufLen /\ cpuStage' = "done"
    BY <1>4 DEF PrintModel
  <2>2. room' = (BufLen - pos) % (SizeMax + 1)
    BY <1>4 DEF PrintModel, Printed
  <2> QED
    BY <2>1, <2>2, RoomLeft
<1>5. ASSUME UNCHANGED cpuInfoVars PROVE PrintInv'
  BY <1>5 DEF cpuInfoVars
<1> QED
  BY <1>1, <1>2, <1>3, <1>4, <1>5 DEF CpuInfoNext, CpuInfoDone

(* The name of a CPU never runs past the buffer it is printed into, with any   *)
(* table of names, any number of cores and a buffer of any size               *)
(* (arm/cpu.c:206-217, 296).                                                 *)
THEOREM NameFitsBuffer == CpuInfoSpec => []PrintsInBuffer
<1>1. CpuInfoInit => PrintInv
  <2>1. CpuInfoInit => cpuStage = "idle" /\ pos = 0 /\ room = BufLen
    BY DEF CpuInfoInit
  <2>2. BufLen <= BufLen
    BY CpuInfoAssumption
  <2> QED
    BY <2>1, <2>2 DEF PrintInv
<1>2. PrintInv => PrintsInBuffer
  BY DEF PrintInv, PrintsInBuffer
<1> QED
  BY <1>1, <1>2, PrintNextInv, PTL DEF CpuInfoSpec

-----------------------------------------------------------------------------
(* As far as it was read, the command line means what was made of it, nothing  *)
(* ended the reading, and the next argument is an option.                    *)
ReadInv ==
    /\ main = "idle" => argConfig = DefaultConfig
    /\ main # "idle" => argv \in CmdLines
    /\ main = "parsing" =>
           /\ argi \in Nat \ {0}
           /\ argi <= Len(argv) => argi \in Options(argv)
           /\ \A i \in Stops(argv) : argi <= i
           /\ argConfig = Meaning(argv, argi) /\ SeedAsWritten(argi)
    /\ ConfigAsMeant

(* The argument after an option that takes no operand is an option.           *)
LEMMA OptionAfterNext ==
  ASSUME NEW line, Len(line) \in Nat, NEW n \in Options(line), line[n].opt \notin Takers, n < Len(line)
  PROVE  n + 1 \in Options(line)
<1>1. n \in Nat /\ n + 1 \in 1 .. Len(line)
  BY DEF Options
<1>2. RowBefore(line, n, n + 1) /\ ((n + 1) - 1 - n) % 2 = 0
  BY <1>1 DEF RowBefore
<1> QED
  BY <1>1, <1>2 DEF Options

(* The operand of -t or -f is no option, and the argument after it is one.    *)
LEMMA OperandIsNone ==
  ASSUME NEW line, Len(line) \in Nat, NEW n \in Options(line), line[n].opt \in Takers
  PROVE  /\ n + 1 \notin Options(line)
         /\ n + 2 <= Len(line) => n + 2 \in Options(line)
<1>1. n \in 1 .. Len(line)
  BY DEF Options
<1>2. PICK k \in 0 .. n - 1 : RowBefore(line, k, n) /\ (n - 1 - k) % 2 = 0
  BY DEF Options
<1>3. k # 0 => line[k].opt \notin Takers
  BY <1>2 DEF RowBefore
<1>4. \A j \in k + 1 .. n : line[j].opt \in Takers
  BY <1>1, <1>2 DEF RowBefore
<1>5. (n - k) % 2 = 1
  BY <1>1, <1>2
<1>6. n + 1 \notin Options(line)
  <2>1. ASSUME NEW i \in 0 .. n, RowBefore(line, i, n + 1) PROVE i = k
    <3>1. \A j \in i + 1 .. n : line[j].opt \in Takers
      BY <1>1, <2>1 DEF RowBefore
    <3>2. i # 0 => line[i].opt \notin Takers
      BY <2>1 DEF RowBefore
    <3>3. ~ (i < k)
      BY <1>1, <1>2, <1>3, <3>1
    <3>4. ~ (k < i)
      BY <1>1, <1>2, <1>4, <3>2
    <3> QED
      BY <1>1, <3>3, <3>4
  <2>2. (n + 1) - 1 = n
    BY <1>1
  <2>3. ASSUME n + 1 \in Options(line) PROVE FALSE
    <3>1. PICK i \in 0 .. n : RowBefore(line, i, n + 1) /\ (n - i) % 2 = 0
      BY <2>2, <2>3 DEF Options
    <3> QED
      BY <1>5, <2>1, <3>1
  <2> QED
    BY <2>3
<1>7. ASSUME n + 2 <= Len(line) PROVE n + 2 \in Options(line)
  <2>1. n + 2 \in 1 .. Len(line) /\ (n + 2) - 1 = n + 1
    BY <1>1, <1>7
  <2>2. CASE line[n + 1].opt \in Takers
    <3>1. \A j \in k + 1 .. n + 1 : line[j].opt \in Takers
      BY <1>1, <1>4, <2>2
    <3>2. RowBefore(line, k, n + 2)
      BY <1>3, <2>1, <3>1 DEF RowBefore
    <3>3. (n + 1 - k) % 2 = 0 /\ k \in 0 .. n + 1
      BY <1>1, <1>2, <1>5
    <3> QED
      BY <2>1, <3>2, <3>3 DEF Options
  <2>3. CASE line[n + 1].opt \notin Takers
    <3>1. RowBefore(line, n + 1, n + 2)
      BY <1>1, <2>3 DEF RowBefore
    <3>2. (n + 1 - (n + 1)) % 2 = 0 /\ n + 1 \in 0 .. n + 1
      BY <1>1
    <3> QED
      BY <2>1, <3>1, <3>2 DEF Options
  <2> QED
    BY <2>2, <2>3
<1> QED
  BY <1>6, <1>7

(* What a line says once one more option, the n-th argument, was read.        *)
LEMMA SaysNext ==
  ASSUME NEW line, NEW n \in Options(line), n \in Nat, NEW m,
         \A i \in Options(line) : i < m <=> i < n \/ i = n,
         NEW opts
  PROVE  /\ line[n].opt \in opts => Says(line, m, opts) # {} /\ LastOf(Says(line, m, opts)) = n
         /\ line[n].opt \notin opts => Says(line, m, opts) = Says(line, n, opts)
<1>1. ASSUME line[n].opt \in opts
      PROVE  Says(line, m, opts) # {} /\ LastOf(Says(line, m, opts)) = n
  <2> DEFINE S == Says(line, m, opts)
  <2>1. n \in S
    BY <1>1 DEF Says
  <2>2. \A j \in S : j \in Nat /\ j <= n
    BY DEF Says, Options
  <2> HIDE DEF S
  <2>3. LastOf(S) = n
    <3>1. \A i \in S : (\A j \in S : j <= i) => i = n
      BY <2>1, <2>2
    <3> QED
      BY <2>1, <2>2, <3>1 DEF LastOf
  <2> QED
    BY <2>1, <2>3 DEF S
<1>2. ASSUME line[n].opt \notin opts
      PROVE  Says(line, m, opts) = Says(line, n, opts)
  BY <1>2 DEF Says
<1> QED
  BY <1>1, <1>2

(* So every field is what that option says of it, or what it was.             *)
Told(c, line, n) ==
    LET a == line[n]
        operand == IF n = Len(line) THEN Null ELSE line[n + 1].text.name
    IN  [ bench            |-> IF a.opt \in {"--bench", "-b", "--bench="} THEN TRUE ELSE c.bench,
          verbose          |-> IF a.opt \in {"--verbose", "-v"} THEN TRUE ELSE c.verbose,
          format           |-> IF a.opt = "--html" THEN "html"
                               ELSE IF a.opt \in DOMAIN Formats THEN Formats[a.opt] ELSE c.format,
          bench_usec       |-> IF a.opt = "--duration=" THEN ParseU(a.text, 10) ELSE c.bench_usec,
          repeat           |-> IF a.opt = "--repeat" THEN UIntMax
                               ELSE IF a.opt = "--repeat=" THEN ParseU(a.text, 10) ELSE c.repeat,
          test_pattern     |-> IF a.opt = "-t" THEN operand
                               ELSE IF a.opt = "--test=" THEN a.text.name ELSE c.test_pattern,
          function_pattern |-> IF a.opt = "-f" THEN operand
                               ELSE IF a.opt \in {"--function=", "--bench="} THEN a.text.name
                               ELSE c.function_pattern,
          cpu_affinity_set |-> IF a.opt = "--affinity=" THEN TRUE ELSE c.cpu_affinity_set,
          cpu_affinity     |-> IF a.opt = "--affinity=" THEN ParseU(a.text, 16) ELSE c.cpu_affinity,
          seed_set         |-> IF a.opt = "text" THEN TRUE ELSE c.seed_set,
          seed             |-> IF a.opt = "text" THEN ParseU(a.text, 10) ELSE c.seed ]

LEMMA MeaningNext ==
  ASSUME NEW line, NEW n \in Options(line), n \in Nat, NEW m,
         \A i \in Options(line) : i < m <=> i < n \/ i = n
  PROVE  Meaning(line, m) = Told(Meaning(line, n), line, n)
<1> DEFINE a == line[n]
<1>1. \A opts : /\ a.opt \in opts => Says(line, m, opts) # {} /\ LastOf(Says(line, m, opts)) = n
                /\ a.opt \notin opts => Says(line, m, opts) = Says(line, n, opts)
  BY SaysNext
<1> DEFINE was == Meaning(line, n)
           is == Meaning(line, m)
<1>2. is.bench = IF a.opt \in {"--bench", "-b", "--bench="} THEN TRUE ELSE was.bench
  BY <1>1 DEF Meaning
<1>3. is.verbose = IF a.opt \in {"--verbose", "-v"} THEN TRUE ELSE was.verbose
  BY <1>1 DEF Meaning
<1>4. is.format = IF a.opt = "--html" THEN "html"
                  ELSE IF a.opt \in DOMAIN Formats THEN Formats[a.opt] ELSE was.format
  BY <1>1 DEF Meaning, Formats
<1>5. \A opt, base : Number(line, m, opt, base) =
                         IF a.opt = opt THEN ParseU(a.text, base) ELSE Number(line, n, opt, base)
  BY <1>1 DEF Number
<1>6. is.repeat = IF a.opt = "--repeat" THEN UIntMax
                  ELSE IF a.opt = "--repeat=" THEN ParseU(a.text, 10) ELSE was.repeat
  BY <1>1 DEF Meaning
<1>7. \A opts : Pattern(line, m, opts) =
                    IF a.opt \notin opts THEN Pattern(line, n, opts)
                    ELSE IF a.opt \notin {"-t", "-f"} THEN a.text.name
                    ELSE IF n = Len(line) THEN Null ELSE line[n + 1].text.name
  BY <1>1 DEF Pattern
<1>8. is.cpu_affinity_set = (IF a.opt = "--affinity=" THEN TRUE ELSE was.cpu_affinity_set)
  BY <1>1 DEF Meaning
<1>9. is.seed_set = (IF a.opt = "text" THEN TRUE ELSE was.seed_set)
  BY <1>1 DEF Meaning
<1>10. /\ is.bench_usec = Number(line, m, "--duration=", 10)
       /\ is.cpu_affinity = Number(line, m, "--affinity=", 16)
       /\ is.seed = Number(line, m, "text", 10)
       /\ is.test_pattern = Pattern(line, m, {"-t", "--test="})
       /\ is.function_pattern = Pattern(line, m, {"-f", "--function=", "--bench="})
       /\ was.bench_usec = Number(line, n, "--duration=", 10)
       /\ was.cpu_affinity = Number(line, n, "--affinity=", 16)
       /\ was.seed = Number(line, n, "text", 10)
       /\ was.test_pattern = Pattern(line, n, {"-t", "--test="})
       /\ was.function_pattern = Pattern(line, n, {"-f", "--function=", "--bench="})
  BY DEF Meaning
<1>11. is = [ bench |-> is.bench, verbose |-> is.verbose, format |-> is.format,
              bench_usec |-> is.bench_usec, repeat |-> is.repeat,
              test_pattern |-> is.test_pattern, function_pattern |-> is.function_pattern,
              cpu_affinity_set |-> is.cpu_affinity_set, cpu_affinity |-> is.cpu_affinity,
              seed_set |-> is.seed_set, seed |-> is.seed ]
  BY DEF Meaning
<1> HIDE DEF is, was
<1>12. /\ is.test_pattern = IF a.opt = "-t" THEN IF n = Len(line) THEN Null ELSE line[n + 1].text.name
                            ELSE IF a.opt = "--test=" THEN a.text.name ELSE was.test_pattern
       /\ is.function_pattern = IF a.opt = "-f" THEN IF n = Len(line) THEN Null ELSE line[n + 1].text.name
                                ELSE IF a.opt \in {"--function=", "--bench="} THEN a.text.name
                                ELSE was.function_pattern
  BY <1>7, <1>10
<1> DEFINE told == Told(was, line, n)
<1>13. told = [ bench |-> told.bench, verbose |-> told.verbose, format |-> told.format,
                bench_usec |-> told.bench_usec, repeat |-> told.repeat,
                test_pattern |-> told.test_pattern, function_pattern |-> told.function_pattern,
                cpu_affinity_set |-> told.cpu_affinity_set, cpu_affinity |-> told.cpu_affinity,
                seed_set |-> told.seed_set, seed |-> told.seed ]
  BY DEF Told
<1>14. is.bench = told.bench /\ is.verbose = told.verbose
  BY <1>2, <1>3 DEF Told
<1>15. is.format = told.format
  BY <1>4 DEF Told
<1>16. is.bench_usec = told.bench_usec /\ is.repeat = told.repeat
  BY <1>5, <1>6, <1>10 DEF Told
<1>17. is.test_pattern = told.test_pattern /\ is.function_pattern = told.function_pattern
  BY <1>12 DEF Told
<1>18. is.cpu_affinity_set = told.cpu_affinity_set /\ is.cpu_affinity = told.cpu_affinity
  BY <1>5, <1>8, <1>10 DEF Told
<1>19. is.seed_set = told.seed_set /\ is.seed = told.seed
  BY <1>5, <1>9, <1>10 DEF Told
<1> HIDE DEF told
<1>20. is = told
  BY <1>11, <1>13, <1>14, <1>15, <1>16, <1>17, <1>18, <1>19
<1> QED
  BY <1>20 DEF is, was, told

(* The modulus of a number below the divisor.                                *)
LEMMA SmallModulo ==
  ASSUME NEW d \in Nat, NEW x \in Nat, x < d
  PROVE  x % d = x
OBVIOUS

(* A number that is not refused is the one that is written, unless a minus    *)
(* sign made it another.                                                     *)
LEMMA ParsedAsWritten ==
  ASSUME NEW text \in Texts, ParseU(text, 10) # NaN
  PROVE  IF text.negative THEN text.dec \notin 1 .. ULongMax - UIntMax
         ELSE ParseU(text, 10) = text.dec
<1>1. text.dec \in Nat \cup {NaN} /\ text.negative \in BOOLEAN
  BY ArgsLines
<1>2. /\ text.dec # NaN /\ ~ (text.dec > ULongMax) /\ ~ (StrToUL(text, text.dec) > UIntMax)
      /\ ParseU(text, 10) = StrToUL(text, text.dec)
  BY DEF ParseU
<1>3. ASSUME text.negative, text.dec \in 1 .. ULongMax - UIntMax PROVE FALSE
  <2> DEFINE d == ULongMax + 1
             x == ULongMax + 1 - text.dec
  <2>1. d \in Nat /\ x \in Nat /\ x < d /\ x > UIntMax
    BY <1>3, ArgsWidths
  <2>2. StrToUL(text, text.dec) = x % d
    BY <1>3 DEF StrToUL
  <2> HIDE DEF d, x
  <2>3. x % d = x
    BY <2>1, SmallModulo
  <2> QED
    BY <1>2, <2>1, <2>2, <2>3
<1> QED
  BY <1>1, <1>2, <1>3 DEF StrToUL

(* A configuration has no field but these.                                   *)
IsConfig(c) ==
    c = [ bench |-> c.bench, verbose |-> c.verbose, format |-> c.format,
          bench_usec |-> c.bench_usec, repeat |-> c.repeat,
          test_pattern |-> c.test_pattern, function_pattern |-> c.function_pattern,
          cpu_affinity_set |-> c.cpu_affinity_set, cpu_affinity |-> c.cpu_affinity,
          seed_set |-> c.seed_set, seed |-> c.seed ]

SetOption ==
    \/ SetBench \/ SetBenchOf \/ SetVerbose \/ SetTests \/ SetFunctions \/ SetPattern \/ SetFormat
    \/ SetHtml \/ SetDuration \/ SetAffinity \/ SetRepeat \/ SetForever \/ SetSeed

(* The code does with an option what it tells.                               *)
LEMMA OptionsAreTold ==
  ASSUME IsConfig(argConfig), SetOption, main' = "parsing", argi \in Nat, Len(argv) \in Nat
  PROVE  argConfig' = Told(argConfig, argv, argi)
<1> USE DEF IsConfig, Told, At, Set, Arg, SetOption
<1>1. CASE SetBench
  BY <1>1 DEF SetBench, Formats
<1>2. CASE SetBenchOf
  BY <1>2 DEF SetBenchOf, Formats
<1>3. CASE SetVerbose
  BY <1>3 DEF SetVerbose, Formats
<1>4. CASE SetTests
  BY <1>4 DEF SetTests, Formats
<1>5. CASE SetFunctions
  BY <1>5 DEF SetFunctions, Formats
<1>6. CASE SetPattern
  <2>1. Operand = IF argi = Len(argv) THEN Null ELSE argv[argi + 1].text.name
    BY <1>6 DEF SetPattern, Operand
  <2>2. CASE Arg.opt = "-t"
    <3>1. argConfig' = [argConfig EXCEPT !.test_pattern = Operand]
      BY <1>6, <2>2 DEF SetPattern
    <3> QED
      BY <2>1, <2>2, <3>1 DEF Formats
  <2>3. CASE Arg.opt = "-f"
    <3>1. argConfig' = [argConfig EXCEPT !.function_pattern = Operand]
      BY <1>6, <2>3 DEF SetPattern
    <3> QED
      BY <2>1, <2>3, <3>1 DEF Formats
  <2> QED
    BY <1>6, <2>2, <2>3 DEF SetPattern
<1>7. CASE SetFormat
  BY <1>7 DEF SetFormat, Formats
<1>8. CASE SetHtml
  BY <1>8 DEF SetHtml, Formats, Return
<1>9. CASE SetDuration
  BY <1>9 DEF SetDuration, Formats, SetNumber, Return
<1>10. CASE SetAffinity
  BY <1>10 DEF SetAffinity, Formats, SetNumber, Return
<1>11. CASE SetRepeat
  BY <1>11 DEF SetRepeat, Formats, SetNumber, Return
<1>12. CASE SetForever
  BY <1>12 DEF SetForever, Formats
<1>13. CASE SetSeed
  BY <1>13 DEF SetSeed, Formats, SetNumber, Return
<1> QED
  BY <1>1, <1>2, <1>3, <1>4, <1>5, <1>6, <1>7, <1>8, <1>9, <1>10, <1>11, <1>12, <1>13

(* An option that does not end the reading leads to the next one.             *)
LEMMA OptionsGoOn ==
  ASSUME SetOption, main' = "parsing"
  PROVE  /\ main = "parsing" /\ argi <= Len(argv) /\ argv' = argv
         /\ argi' = IF Arg.opt \in Takers THEN argi + 2 ELSE argi + 1
         /\ Arg.opt \notin Information /\ ~ Bad(Arg)
<1> USE DEF At, Set, SetOption, Takers, Information, Bad, Numeric
<1>1. CASE SetBench
  BY <1>1 DEF SetBench
<1>2. CASE SetBenchOf
  BY <1>2 DEF SetBenchOf
<1>3. CASE SetVerbose
  BY <1>3 DEF SetVerbose
<1>4. CASE SetTests
  BY <1>4 DEF SetTests
<1>5. CASE SetFunctions
  BY <1>5 DEF SetFunctions
<1>6. CASE SetPattern
  BY <1>6 DEF SetPattern, AfterOperand
<1>7. CASE SetFormat
  BY <1>7 DEF SetFormat, Formats
<1>8. CASE SetHtml
  BY <1>8 DEF SetHtml, Return
<1>9. CASE SetDuration
  BY <1>9 DEF SetDuration, SetNumber, Return
<1>10. CASE SetAffinity
  BY <1>10 DEF SetAffinity, SetNumber, Return
<1>11. CASE SetRepeat
  BY <1>11 DEF SetRepeat, SetNumber, Return
<1>12. CASE SetForever
  BY <1>12 DEF SetForever
<1>13. CASE SetSeed
  BY <1>13 DEF SetSeed, SetNumber, Return
<1> QED
  BY <1>1, <1>2, <1>3, <1>4, <1>5, <1>6, <1>7, <1>8, <1>9, <1>10, <1>11, <1>12, <1>13

(* An option sets the fields or is an error.                                 *)
LEMMA OptionOrError ==
  ASSUME SetOption
  PROVE  main = "parsing" /\ argv' = argv /\ main' \in {"parsing", "error"}
<1> USE DEF At, Set, Return, SetNumber
<1>1. CASE SetBench \/ SetBenchOf \/ SetVerbose \/ SetTests \/ SetFunctions
  BY <1>1 DEF SetBench, SetBenchOf, SetVerbose, SetTests, SetFunctions
<1>2. CASE SetPattern \/ SetFormat \/ SetForever
  BY <1>2 DEF SetPattern, SetFormat, SetForever
<1>3. CASE SetHtml
  BY <1>3 DEF SetHtml
<1>4. CASE SetDuration \/ SetRepeat
  BY <1>4 DEF SetDuration, SetRepeat
<1>5. CASE SetAffinity
  BY <1>5 DEF SetAffinity
<1>6. CASE SetSeed
  BY <1>6 DEF SetSeed
<1> QED
  BY <1>1, <1>2, <1>3, <1>4, <1>5, <1>6 DEF SetOption

(* What the arguments of a command line are.                                 *)
LEMMA LineType ==
  ASSUME argv \in CmdLines
  PROVE  Len(argv) \in Nat /\ \A i \in 1 .. Len(argv) : argv[i].text \in Texts
<1> DEFINE Argument == [opt : STRING, text : Texts]
<1>1. argv \in Seq(Argument)
  BY ArgsLines
<1>2. \A a \in Argument : a.text \in Texts
  OBVIOUS
<1> HIDE DEF Argument
<1>3. Len(argv) \in Nat /\ \A i \in 1 .. Len(argv) : argv[i] \in Argument
  BY <1>1
<1> QED
  BY <1>2, <1>3

(* So the reading goes on as it should after every option.                    *)
LEMMA ReadOption ==
  ASSUME ReadInv, SetOption, main' = "parsing"
  PROVE  ReadInv'
<1>1. /\ argi \in Nat \ {0} /\ argi <= Len(argv) /\ argi \in Options(argv)
      /\ \A i \in Stops(argv) : argi <= i
      /\ argConfig = Meaning(argv, argi) /\ SeedAsWritten(argi) /\ argv \in CmdLines
  BY OptionsGoOn DEF ReadInv
<1>2. /\ argv' = argv /\ argi' = IF Arg.opt \in Takers THEN argi + 2 ELSE argi + 1
      /\ Arg.opt \notin Information /\ ~ Bad(Arg)
  BY OptionsGoOn
<1>3. Len(argv) \in Nat /\ Arg.text \in Texts
  BY <1>1, LineType DEF Arg
<1>4. /\ argi' \in Nat \ {0}
      /\ argi' <= Len(argv) => argi' \in Options(argv)
      /\ \A i \in Options(argv) : i < argi' <=> i < argi \/ i = argi
  <2>1. \A i \in Options(argv) : i \in Nat
    BY DEF Options
  <2>2. CASE Arg.opt \in Takers
    BY <1>1, <1>2, <1>3, <2>1, <2>2, OperandIsNone DEF Arg
  <2>3. CASE Arg.opt \notin Takers
    BY <1>1, <1>2, <1>3, <2>1, <2>3, OptionAfterNext DEF Arg
  <2> QED
    BY <2>2, <2>3
<1>5. \A i \in Stops(argv) : argi' <= i
  <2> TAKE i \in Stops(argv)
  <2>1. i \in Options(argv) /\ i \in Nat /\ i # argi /\ argi <= i
    BY <1>1, <1>2 DEF Stops, Options, Arg
  <2> QED
    BY <1>1, <1>4, <2>1
<1>6. IsConfig(argConfig)
  <2> DEFINE c == Meaning(argv, argi)
  <2>1. IsConfig(c)
    BY DEF Meaning, IsConfig
  <2> QED
    BY <1>1, <2>1
<1>7. argConfig' = Told(argConfig, argv, argi)
  BY <1>1, <1>3, <1>6, OptionsAreTold
<1>8. argConfig' = Meaning(argv, argi')
  BY <1>1, <1>4, <1>7, MeaningNext
<1>9. SeedAsWritten(argi)'
  <2> DEFINE text == argv[LastOf(Says(argv, argi', {"text"}))].text
  <2>1. /\ Arg.opt = "text" => LastOf(Says(argv, argi', {"text"})) = argi
        /\ Arg.opt # "text" => Says(argv, argi', {"text"}) = Says(argv, argi, {"text"})
    BY <1>1, <1>4, SaysNext DEF Arg
  <2>2. CASE Arg.opt = "text"
    <3>1. argConfig'.seed = ParseU(Arg.text, 10) /\ ParseU(Arg.text, 10) # NaN
      BY <1>2, <1>7, <2>2 DEF Told, Arg, Bad, Numeric
    <3>2. text = Arg.text
      BY <2>1, <2>2 DEF Arg
    <3> HIDE DEF text
    <3>3. IF text.negative THEN text.dec \notin 1 .. ULongMax - UIntMax
          ELSE argConfig'.seed = text.dec
      BY <1>3, <3>1, <3>2, ParsedAsWritten
    <3> QED
      BY <1>2, <3>3 DEF SeedAsWritten, text
  <2>3. CASE Arg.opt # "text"
    <3>1. argConfig'.seed = argConfig.seed /\ argConfig'.seed_set = argConfig.seed_set
      BY <1>7, <2>3 DEF Told, Arg
    <3> QED
      BY <1>1, <1>2, <2>1, <2>3, <3>1 DEF SeedAsWritten
  <2> QED
    BY <2>2, <2>3
<1> QED
  BY <1>1, <1>2, <1>4, <1>5, <1>8, <1>9 DEF ReadInv, ConfigAsMeant

(* Where the reading ends is where the code returns.                         *)
LEMMA EndAtStop ==
  ASSUME NEW line, NEW n \in Stops(line), \A i \in Stops(line) : n <= i
  PROVE  End(line) = n
<1>1. \A i \in Stops(line) : i \in Nat
  BY DEF Stops, Options
<1>2. \A i \in Stops(line) : (\A j \in Stops(line) : i <= j) => i = n
  BY <1>1
<1> QED
  BY <1>2 DEF End, FirstOr

(* Without such an option it is behind the last argument.                    *)
LEMMA EndOfLine ==
  ASSUME NEW line, Len(line) \in Nat, NEW n \in Nat, n > Len(line), \A i \in Stops(line) : n <= i
  PROVE  End(line) = Len(line) + 1 /\ \A opts : Says(line, n, opts) = Says(line, Len(line) + 1, opts)
<1>1. \A i \in Options(line) : i \in 1 .. Len(line)
  BY DEF Options
<1>2. Stops(line) = {}
  BY <1>1 DEF Stops
<1>3. \A opts : Says(line, n, opts) = Says(line, Len(line) + 1, opts)
  BY <1>1 DEF Says
<1> QED
  BY <1>2, <1>3 DEF End, FirstOr

LEMMA ReadNextInv == ReadInv /\ [ArgsNext \/ MainDone]_argsVars => ReadInv'
<1> SUFFICES ASSUME ReadInv, [ArgsNext \/ MainDone]_argsVars PROVE ReadInv'
  OBVIOUS
<1>1. ASSUME MainBegin PROVE ReadInv'
  <2>1. argi' = 1 /\ argv' \in CmdLines /\ main' = "parsing" /\ argConfig' = DefaultConfig
    BY <1>1 DEF MainBegin, ReadInv
  <2> DEFINE line == argv'
  <2>2. Len(line) \in Nat
    BY <2>1, ArgsLines
  <2> HIDE DEF line
  <2>3. 1 <= Len(line) => 1 \in Options(line)
    <3>1. RowBefore(line, 0, 1) /\ (1 - 1 - 0) % 2 = 0
      BY DEF RowBefore
    <3> QED
      BY <2>2, <3>1 DEF Options
  <2>4. \A i \in Stops(line) : 1 <= i
    BY DEF Stops, Options
  <2>5. \A opts : Says(line, 1, opts) = {}
    BY DEF Says, Options
  <2>6. DefaultConfig = Meaning(line, 1) /\ ~ DefaultConfig.seed_set
    BY <2>5 DEF Meaning, Number, Pattern, DefaultConfig
  <2> QED
    BY <2>1, <2>3, <2>4, <2>6 DEF ReadInv, ConfigAsMeant, SeedAsWritten, line
<1>2. ASSUME Inform PROVE ReadInv'
  <2>1. /\ main = "parsing" /\ argi <= Len(argv) /\ Arg.opt \in Information
        /\ argv' = argv /\ argConfig' = argConfig
        /\ main' = IF Arg.opt \in {"--help", "-h"} THEN "usage" ELSE Arg.opt
    BY <1>2 DEF Inform, At, Return
  <2>2. /\ argi \in Options(argv) /\ \A i \in Stops(argv) : argi <= i
        /\ argConfig = Meaning(argv, argi) /\ SeedAsWritten(argi) /\ argv \in CmdLines
    BY <2>1 DEF ReadInv
  <2>3. End(argv) = argi
    BY <2>1, <2>2, EndAtStop DEF Stops, Arg
  <2>4. ~ (argi > Len(argv))
    BY <2>2, LineType DEF Options
  <2>5. SeedAsWritten(End(argv))'
    BY <2>1, <2>2, <2>3 DEF SeedAsWritten
  <2>6. main' \notin {"idle", "parsing"}
    BY <2>1 DEF Information
  <2> QED
    BY <2>1, <2>2, <2>3, <2>4, <2>5, <2>6 DEF ReadInv, ConfigAsMeant, Arg
<1>3. ASSUME SetOption PROVE ReadInv'
  <2>1. CASE main' = "parsing"
    BY <1>3, <2>1, ReadOption
  <2>2. CASE main' = "error"
    BY <1>3, <2>2, OptionOrError DEF ReadInv, ConfigAsMeant
  <2> QED
    BY <1>3, <2>1, <2>2, OptionOrError
<1>4. ASSUME RunTests PROVE ReadInv'
  <2>1. /\ main = "parsing" /\ argi > Len(argv)
        /\ argv' = argv /\ argConfig' = argConfig /\ main' = "run"
    BY <1>4 DEF RunTests, Return
  <2>2. /\ argi \in Nat /\ \A i \in Stops(argv) : argi <= i
        /\ argConfig = Meaning(argv, argi) /\ SeedAsWritten(argi) /\ argv \in CmdLines
    BY <2>1 DEF ReadInv
  <2>3. Len(argv) \in Nat
    BY <2>2, LineType
  <2>4. /\ End(argv) = Len(argv) + 1
        /\ \A opts : Says(argv, argi, opts) = Says(argv, End(argv), opts)
    BY <2>1, <2>2, <2>3, EndOfLine
  <2>5. Meaning(argv, argi) = Meaning(argv, End(argv))
    BY <2>4 DEF Meaning, Number, Pattern
  <2>6. SeedAsWritten(End(argv))'
    BY <2>1, <2>2, <2>4 DEF SeedAsWritten
  <2> QED
    BY <2>1, <2>2, <2>3, <2>4, <2>5, <2>6 DEF ReadInv, ConfigAsMeant
<1>5. ASSUME UNCHANGED argsVars PROVE ReadInv'
  BY <1>5 DEF argsVars, ReadInv, ConfigAsMeant, SeedAsWritten
<1> QED
  BY <1>1, <1>2, <1>3, <1>4, <1>5 DEF ArgsNext, MainDone, SetOption

(* Every command line, of any length, is taken as a user means it: the last    *)
(* option about a field wins, an operand of -t or -f is never an option, and a *)
(* seed is the one that is written (checkasm.c:1190-1295).                    *)
THEOREM LineIsUnderstood == ArgsSpec => []ConfigAsMeant
<1>1. ArgsInit => ReadInv
  BY DEF ArgsInit, ReadInv, ConfigAsMeant
<1>2. ReadInv => ConfigAsMeant
  BY DEF ReadInv
<1> QED
  BY <1>1, <1>2, ReadNextInv, PTL DEF ArgsSpec

-----------------------------------------------------------------------------
(* Induction, of which the hypothesis is that a set holds what came before.    *)
LEMMA LeastOf ==
  ASSUME NEW S, S \subseteq Nat, S # {}
  PROVE  \E i \in S : \A j \in S : i <= j
<1>1. IsWellFoundedOn(OpToRel(<, Nat), Nat)
  BY NatLessThanWellFounded
<1>2. PICK i \in S : \A j \in S : ~ (<<j, i>> \in OpToRel(<, Nat))
  BY <1>1, WFMin
<1>3. \A j \in S : i <= j
  <2> TAKE j \in S
  <2>1. i \in Nat /\ j \in Nat /\ ~ (j < i)
    BY <1>2 DEF OpToRel
  <2> QED
    BY <2>1
<1> QED
  BY <1>3

(* And a set of them that is bounded above has a greatest.                   *)
LEMMA GreatestOf ==
  ASSUME NEW S, NEW m \in Int, S \subseteq Int, \A i \in S : i <= m, S # {}
  PROVE  \E i \in S : \A j \in S : j <= i
<1> DEFINE T == { m - i : i \in S }
<1>1. T \subseteq Nat /\ T # {}
  <2>1. \A i \in S : i \in Int /\ i <= m
    OBVIOUS
  <2>2. \A i \in S : m - i \in Nat
    BY <2>1
  <2> QED
    BY <2>2
<1>2. \A i \in S : m - i \in T
  OBVIOUS
<1>3. \A t \in T : \E i \in S : t = m - i
  OBVIOUS
<1> HIDE DEF T
<1>4. PICK t \in T : \A u \in T : t <= u
  BY <1>1, LeastOf
<1>5. PICK i \in S : t = m - i
  BY <1>3
<1>6. \A j \in S : j <= i
  <2> TAKE j \in S
  <2>1. t <= m - j
    BY <1>2, <1>4
  <2> QED
    BY <1>5, <2>1
<1> QED
  BY <1>6

(* A block grows by a line, or begins after an empty one.                     *)
LEMMA BlockGrows ==
  ASSUME NEW file, NEW e \in Nat \ {0}, NEW key, key # "empty"
  PROVE  InBlock(file, e + 1, key) =
            IF file[e].key = "empty" THEN None
            ELSE IF file[e].key = key THEN file[e].value ELSE InBlock(file, e, key)
<1> DEFINE Empties(n) == { i \in 1 .. n - 1 : file[i].key = "empty" }
           Keys(n) == { i \in BlockStart(file, n) .. n - 1 : file[i].key = key }
           Latest(S) == CHOOSE i \in S : \A j \in S : j <= i
<1>1. ASSUME NEW S, NEW m \in S, S \subseteq Int, \A j \in S : j <= m
      PROVE  Latest(S) = m
  <2>1. Latest(S) \in S /\ \A j \in S : j <= Latest(S)
    BY <1>1
  <2> HIDE DEF Latest
  <2>2. Latest(S) \in Int /\ m \in Int /\ m <= Latest(S) /\ Latest(S) <= m
    BY <1>1, <2>1
  <2> QED
    BY <2>2
<1>2. \A n : /\ BlockStart(file, n) = IF Empties(n) = {} THEN 1 ELSE 1 + Latest(Empties(n))
             /\ InBlock(file, n, key) = IF Keys(n) = {} THEN None ELSE file[Latest(Keys(n))].value
  BY DEF BlockStart, InBlock
<1> HIDE DEF Latest
<1>3. CASE file[e].key = "empty"
  <2>1. e \in Empties(e + 1) /\ Empties(e + 1) \subseteq Int /\ \A j \in Empties(e + 1) : j <= e
    BY <1>3
  <2>2. Latest(Empties(e + 1)) = e /\ Empties(e + 1) # {}
    <3> HIDE DEF Empties
    <3> QED
      BY <1>1, <2>1
  <2>3. BlockStart(file, e + 1) = 1 + e
    BY <1>2, <2>2
  <2>4. Keys(e + 1) = {}
    BY <2>3
  <2> QED
    BY <1>2, <1>3, <2>4
<1>4. CASE file[e].key # "empty"
  <2>1. Empties(e + 1) = Empties(e)
    BY <1>4
  <2>2. BlockStart(file, e + 1) = BlockStart(file, e)
    <3> HIDE DEF Empties
    <3> QED
      BY <1>2, <2>1
  <2> DEFINE b == BlockStart(file, e)
  <2>3. b \in Int /\ b <= e
    <3>1. Empties(e) # {} => Latest(Empties(e)) \in Empties(e)
      <4>1. Empties(e) \subseteq Int /\ (\A i \in Empties(e) : i <= e) /\ e \in Int
        OBVIOUS
      <4> HIDE DEF Empties
      <4>2. Empties(e) # {} => \E i \in Empties(e) : \A j \in Empties(e) : j <= i
        BY <4>1, GreatestOf
      <4> QED
        BY <4>2 DEF Latest
    <3>2. Empties(e) \subseteq 1 .. e - 1
      OBVIOUS
    <3> HIDE DEF Empties
    <3>3. Empties(e) # {} => Latest(Empties(e)) \in Int /\ Latest(Empties(e)) <= e - 1
      BY <3>1, <3>2
    <3> QED
      BY <1>2, <3>3
  <2> HIDE DEF b
  <2>4. CASE file[e].key = key
    <3>1. e \in Keys(e + 1) /\ Keys(e + 1) \subseteq Int /\ \A j \in Keys(e + 1) : j <= e
      BY <2>2, <2>3, <2>4 DEF b
    <3>2. Latest(Keys(e + 1)) = e /\ Keys(e + 1) # {}
      <4> HIDE DEF Keys
      <4> QED
        BY <1>1, <3>1
    <3> QED
      BY <1>2, <1>4, <2>4, <3>2
  <2>5. CASE file[e].key # key
    <3>1. Keys(e + 1) = Keys(e)
      <4>1. Keys(e + 1) = { i \in b .. e + 1 - 1 : file[i].key = key }
        BY <2>2 DEF b
      <4>2. Keys(e) = { i \in b .. e - 1 : file[i].key = key }
        BY DEF b
      <4> HIDE DEF Keys
      <4> QED
        BY <2>3, <2>5, <4>1, <4>2
    <3> QED
      BY <1>2, <1>4, <2>5, <3>1
  <2> QED
    BY <2>4, <2>5
<1> QED
  BY <1>3, <1>4

-----------------------------------------------------------------------------
(* What is kept of the lines before one: the cores that were the first of      *)
(* their kind there, each at its rank, as many as there is room for.         *)
Firsts(n) == { j \in 1 .. n : FirstOfItsKind(j) }
Entries(c, n) ==
    /\ c \in Seq({ CoreAt(i) : i \in Nat })
    /\ Len(c) = IF Rank(n) <= MaxCores THEN Rank(n) ELSE MaxCores
    /\ \A i \in Firsts(n) : Rank(i) <= Len(c) => c[Rank(i)] = CoreAt(i)
    /\ \A k \in 1 .. Len(c) : \E i \in Firsts(n) : Rank(i) = k
Listed(n) == \A c, m : c = cores /\ m = n => Entries(c, m)

(* The rank of a line counts the first cores of their kind up to it: it      *)
(* grows by one at such a line and stays at any other.                       *)
LEMMA RankGrows ==
  ASSUME NEW n \in Nat
  PROVE  /\ Rank(n) \in Nat /\ Rank(0) = 0
         /\ Rank(n + 1) = IF FirstOfItsKind(n + 1) THEN Rank(n) + 1 ELSE Rank(n)
<1>1. IsFiniteSet(Firsts(n))
  <2>1. IsFiniteSet(1 .. n) /\ Firsts(n) \subseteq 1 .. n
    BY FS_Interval DEF Firsts
  <2> QED
    BY <2>1, FS_Subset
<1>2. Firsts(n + 1) = IF FirstOfItsKind(n + 1) THEN Firsts(n) \cup {n + 1} ELSE Firsts(n)
  <2>1. 1 .. n + 1 = (1 .. n) \cup {n + 1}
    OBVIOUS
  <2> QED
    BY <2>1 DEF Firsts
<1>3. n + 1 \notin Firsts(n)
  BY DEF Firsts
<1>4. Firsts(0) = {}
  BY DEF Firsts
<1>5. \A k : Rank(k) = Cardinality(Firsts(k))
  BY DEF Rank, Firsts
<1>6. Rank(n) \in Nat /\ Rank(0) = 0
  BY <1>1, <1>4, <1>5, FS_CardinalityType, FS_EmptySet
<1>7. FirstOfItsKind(n + 1) => Cardinality(Firsts(n) \cup {n + 1}) = Cardinality(Firsts(n)) + 1
  BY <1>1, <1>3, FS_AddElement
<1> QED
  BY <1>2, <1>5, <1>6, <1>7

(* A kind that occurs has a first occurrence, and ranks do not fall.          *)
LEMMA FirstOccurs ==
  ASSUME NEW n \in Nat, NEW j \in 1 .. n, NamesCore(j)
  PROVE  \E i \in Firsts(n) : CoreAt(i) = CoreAt(j)
<1> DEFINE S == { i \in 1 .. n : NamesCore(i) /\ CoreAt(i) = CoreAt(j) }
<1>1. S \subseteq Nat /\ S # {}
  OBVIOUS
<1> HIDE DEF S
<1>2. PICK i \in S : \A k \in S : i <= k
  BY <1>1, LeastOf
<1>3. FirstOfItsKind(i)
  <2> SUFFICES ASSUME NEW k \in 1 .. i - 1, NamesCore(k), CoreAt(k) = CoreAt(i) PROVE FALSE
    BY DEF FirstOfItsKind, S
  <2>1. i \in 1 .. n /\ k \in 1 .. n /\ k < i
    BY DEF S
  <2>2. k \in S
    BY <2>1 DEF S
  <2> QED
    BY <1>2, <2>1, <2>2
<1> QED
  BY <1>3 DEF Firsts, S

(* So first cores of their kind have ranks of their own, in their order.     *)
LEMMA RanksOrdered ==
  ASSUME NEW n \in Nat
  PROVE  \A i \in Firsts(n) : Rank(i) \in 1 .. Rank(n)
<1> DEFINE S == { m \in Nat : \A i \in Firsts(m) : Rank(i) \in 1 .. Rank(m) }
           T == Nat \ S
<1>1. 0 \in S
  BY DEF Firsts
<1>2. ASSUME NEW m \in S PROVE m + 1 \in S
  <2> SUFFICES ASSUME NEW i \in Firsts(m + 1) PROVE Rank(i) \in 1 .. Rank(m + 1)
    OBVIOUS
  <2>1. /\ Rank(m) \in Nat
        /\ Rank(m + 1) = IF FirstOfItsKind(m + 1) THEN Rank(m) + 1 ELSE Rank(m)
    BY RankGrows
  <2>2. CASE i = m + 1
    <3>1. FirstOfItsKind(m + 1)
      BY <2>2 DEF Firsts
    <3> QED
      BY <2>1, <2>2, <3>1
  <2>3. CASE i # m + 1
    <3>1. i \in Firsts(m)
      BY <2>3 DEF Firsts
    <3>2. Rank(i) \in 1 .. Rank(m)
      BY <3>1
    <3> QED
      BY <2>1, <3>2
  <2> QED
    BY <2>2, <2>3
<1> HIDE DEF S
<1>3. T = {}
  <2> SUFFICES ASSUME T # {} PROVE FALSE
    OBVIOUS
  <2>1. PICK m \in T : \A k \in T : m <= k
    BY LeastOf
  <2>2. m \in Nat /\ m # 0 /\ m - 1 \in Nat
    BY <1>1
  <2>3. m - 1 \in S
    BY <2>1, <2>2
  <2>4. m - 1 + 1 \in S
    BY <1>2, <2>3
  <2> QED
    BY <2>2, <2>4
<1> QED
  BY <1>3 DEF S

(* The next line keeps the list.                                             *)
LEMMA FirstGrows ==
  ASSUME NEW m \in Nat
  PROVE  /\ FirstOfItsKind(m + 1) => Firsts(m + 1) = Firsts(m) \cup {m + 1}
         /\ ~ FirstOfItsKind(m + 1) => Firsts(m + 1) = Firsts(m) /\ Rank(m + 1) = Rank(m)
<1>1. 1 .. m + 1 = (1 .. m) \cup {m + 1}
  OBVIOUS
<1>2. Rank(m + 1) = IF FirstOfItsKind(m + 1) THEN Rank(m) + 1 ELSE Rank(m)
  BY RankGrows
<1> QED
  BY <1>1, <1>2 DEF Firsts

(* A line that names the first core of its kind adds it to the list while    *)
(* there is room, and any other leaves the list as it is                     *)
(* (arm/cpu.c:264-281).                                                      *)
LEMMA ListGrows ==
  ASSUME NEW m \in Nat, NEW c, Entries(c, m), NEW d,
         d = IF ~ NamesCore(m + 1) \/ Len(c) = MaxCores \/ \E k \in DOMAIN c : c[k] = CoreAt(m + 1)
             THEN c ELSE Append(c, CoreAt(m + 1))
  PROVE  Entries(d, m + 1)
<1> DEFINE n == m + 1
           core == CoreAt(n)
<1>0. MaxCores \in Nat \ {0}
  BY CpuInfoAssumption
<1>1. /\ c \in Seq({ CoreAt(i) : i \in Nat }) /\ Len(c) \in Nat
      /\ Len(c) = IF Rank(m) <= MaxCores THEN Rank(m) ELSE MaxCores
      /\ \A i \in Firsts(m) : Rank(i) <= Len(c) => c[Rank(i)] = CoreAt(i)
      /\ \A k \in 1 .. Len(c) : \E i \in Firsts(m) : Rank(i) = k
  BY DEF Entries
<1>2. Rank(m) \in Nat /\ Rank(n) = IF FirstOfItsKind(n) THEN Rank(m) + 1 ELSE Rank(m)
  BY RankGrows
<1>3. \A i \in Firsts(m) : Rank(i) \in 1 .. Rank(m)
  BY RanksOrdered
<1>4. n \in Nat /\ DOMAIN c = 1 .. Len(c)
  BY <1>1
<1>5. ASSUME ~ FirstOfItsKind(n), d = c PROVE Entries(d, n)
  <2>1. Firsts(n) = Firsts(m) /\ Rank(n) = Rank(m)
    BY <1>5, FirstGrows
  <2> HIDE DEF n
  <2> QED
    BY <1>1, <1>5, <2>1 DEF Entries
<1>6. CASE ~ NamesCore(n)
  BY <1>5, <1>6 DEF FirstOfItsKind
<1>7. CASE NamesCore(n) /\ \E k \in DOMAIN c : c[k] = core
  <2>1. PICK k \in 1 .. Len(c) : c[k] = core
    BY <1>4, <1>7
  <2>2. PICK i \in Firsts(m) : Rank(i) = k
    BY <1>1
  <2>3. CoreAt(i) = core
    BY <1>1, <2>1, <2>2
  <2>4. i \in 1 .. n - 1 /\ NamesCore(i)
    BY DEF Firsts, FirstOfItsKind
  <2>5. ~ FirstOfItsKind(n)
    BY <2>3, <2>4 DEF FirstOfItsKind
  <2> QED
    BY <1>5, <1>7, <2>5
<1>8. CASE Len(c) = MaxCores
  <2>1. CASE ~ FirstOfItsKind(n)
    BY <1>5, <1>8, <2>1
  <2>2. CASE FirstOfItsKind(n)
    <3>1. d = c /\ Rank(n) = Rank(m) + 1 /\ MaxCores <= Rank(m)
      BY <1>0, <1>1, <1>2, <1>8, <2>2
    <3>2. Firsts(n) = Firsts(m) \cup {n}
      BY <2>2, FirstGrows
    <3> HIDE DEF n
    <3>3. Len(c) = IF Rank(n) <= MaxCores THEN Rank(n) ELSE MaxCores
      BY <1>0, <1>2, <1>8, <3>1
    <3>4. \A i \in Firsts(n) : Rank(i) <= Len(c) => c[Rank(i)] = CoreAt(i)
      <4> TAKE i \in Firsts(n)
      <4>1. CASE i = n
        BY <1>0, <1>2, <1>8, <3>1, <4>1
      <4>2. CASE i # n
        BY <1>1, <3>2, <4>2
      <4> QED
        BY <4>1, <4>2
    <3>5. \A k \in 1 .. Len(c) : \E i \in Firsts(n) : Rank(i) = k
      BY <1>1, <3>2
    <3>6. Entries(d, n)
      BY <1>1, <3>1, <3>3, <3>4, <3>5 DEF Entries
    <3> QED
      BY <3>6 DEF n
  <2> QED
    BY <2>1, <2>2
<1>9. CASE NamesCore(n) /\ Len(c) # MaxCores /\ ~ \E k \in DOMAIN c : c[k] = core
  <2>1. d = Append(c, core)
    BY <1>9
  <2>2. Len(c) = Rank(m) /\ Rank(m) < MaxCores
    BY <1>0, <1>1, <1>2, <1>9
  <2>3. FirstOfItsKind(n)
    <3> SUFFICES ASSUME NEW j \in 1 .. m, NamesCore(j), CoreAt(j) = core PROVE FALSE
      BY <1>9 DEF FirstOfItsKind
    <3>1. PICK i \in Firsts(m) : CoreAt(i) = core
      BY FirstOccurs
    <3>2. Rank(i) \in 1 .. Len(c)
      BY <1>3, <2>2
    <3>3. c[Rank(i)] = core
      BY <1>1, <1>2, <2>2, <3>1, <3>2
    <3> QED
      BY <1>4, <1>9, <3>2, <3>3
  <2>4. Firsts(n) = Firsts(m) \cup {n} /\ Rank(n) = Rank(m) + 1
    BY <1>2, <2>3, FirstGrows
  <2> DEFINE V == { CoreAt(i) : i \in Nat }
  <2>5. core \in V
    BY <1>4
  <2> HIDE DEF V, core, n
  <2>6. c \in Seq(V)
    BY <1>1 DEF V
  <2>7. /\ d \in Seq(V) /\ Len(d) = Len(c) + 1 /\ d[Len(c) + 1] = core
        /\ \A k \in 1 .. Len(c) : d[k] = c[k]
    BY <2>1, <2>5, <2>6
  <2>8. Len(d) = IF Rank(n) <= MaxCores THEN Rank(n) ELSE MaxCores
    BY <1>0, <1>2, <2>2, <2>4, <2>7
  <2>9. \A i \in Firsts(n) : Rank(i) <= Len(d) => d[Rank(i)] = CoreAt(i)
    <3> TAKE i \in Firsts(n)
    <3>1. CASE i = n
      BY <2>2, <2>4, <2>7, <3>1 DEF core
    <3>2. CASE i # n
      <4>1. i \in Firsts(m)
        BY <2>4, <3>2
      <4>2. Rank(i) \in 1 .. Len(c)
        BY <1>3, <2>2, <4>1
      <4>3. c[Rank(i)] = CoreAt(i)
        BY <1>1, <4>1, <4>2
      <4> QED
        BY <2>7, <4>2, <4>3
    <3> QED
      BY <3>1, <3>2
  <2>10. \A k \in 1 .. Len(d) : \E i \in Firsts(n) : Rank(i) = k
    <3> TAKE k \in 1 .. Len(d)
    <3>1. CASE k = Len(c) + 1
      BY <2>2, <2>4, <3>1
    <3>2. CASE k # Len(c) + 1
      <4>1. k \in 1 .. Len(c)
        BY <1>1, <2>7, <3>2
      <4> QED
        BY <1>1, <2>4, <4>1
    <3> QED
      BY <3>1, <3>2
  <2>11. Entries(d, n)
    BY <2>7, <2>8, <2>9, <2>10 DEF Entries, V
  <2> QED
    BY <2>11 DEF n
<1> QED
  BY <1>6, <1>7, <1>8, <1>9

-----------------------------------------------------------------------------
Reading == {"file", "registry"}
CoresInv ==
    /\ cpuStage = "idle" => cores = << >> /\ lineno = 1 /\ processor = NoProcessor
    /\ cpuStage = "file" =>
           /\ input \in CpuFiles
           /\ processor = [ implementer |-> InBlock(input, lineno, "implementer"),
                            part        |-> InBlock(input, lineno, "part"),
                            processor   |-> InBlock(input, lineno, "processor") ]
    /\ cpuStage = "registry" => input \in Registries
    /\ cpuStage \in Reading => lineno \in 1 .. Len(input) + 1 /\ Listed(lineno - 1)
    /\ cpuStage \notin Reading \cup {"idle"} => Len(input) \in Nat /\ Listed(Len(input))

(* What is read has an end.                                                  *)
LEMMA LengthIs ==
  ASSUME CoresInv, cpuStage \in Reading
  PROVE  Len(input) \in Nat
BY InputsAssumption DEF CoresInv, Reading

(* What a line says does not change.                                          *)
LEMMA KindsKept ==
  ASSUME UNCHANGED <<input, affinityArg>>, NEW c, NEW n
  PROVE  Entries(c, n)' <=> Entries(c, n)
<1>1. ASSUME NEW i PROVE CoreAt(i)' = CoreAt(i)
  BY DEF CoreAt
<1>2. ASSUME NEW i PROVE NamesCore(i)' <=> NamesCore(i)
  BY <1>1 DEF NamesCore
<1>3. ASSUME NEW i PROVE FirstOfItsKind(i)' <=> FirstOfItsKind(i)
  BY <1>1, <1>2 DEF FirstOfItsKind
<1>4. ASSUME NEW i PROVE Firsts(i)' = Firsts(i)
  BY <1>3 DEF Firsts
<1>5. ASSUME NEW i PROVE Rank(i)' = Rank(i)
  <2>1. { j \in 1 .. i : FirstOfItsKind(j)' } = { j \in 1 .. i : FirstOfItsKind(j) }
    BY <1>3
  <2> QED
    BY <2>1 DEF Rank
<1>6. { CoreAt(i)' : i \in Nat } = { CoreAt(i) : i \in Nat }
  BY <1>1
<1> QED
  BY <1>1, <1>4, <1>5, <1>6 DEF Entries

(* So what was kept of the lines before one stays what it was, in the terms  *)
(* of the next state.                                                        *)
LEMMA ListKept ==
  ASSUME UNCHANGED <<input, affinityArg, cores>>, NEW n, Listed(n)
  PROVE  Listed(n)'
<1>1. PICK c : c = cores
  OBVIOUS
<1>2. Entries(c, n)'
  BY <1>1, KindsKept DEF Listed
<1>3. cores' = c
  BY <1>1
<1> HIDE <1>1
<1> QED
  BY <1>2, <1>3 DEF Listed

(* Before the first line nothing is listed.                                  *)
LEMMA NothingListed == Entries(<< >>, 0) /\ Entries(<< >>, 0)'
<1>1. Firsts(0) = {} /\ Firsts(0)' = {}
  BY DEF Firsts
<1>2. Rank(0) = Cardinality(Firsts(0)) /\ Rank(0)' = Cardinality(Firsts(0)')
  BY DEF Rank, Firsts
<1>3. Rank(0) = 0 /\ Rank(0)' = 0
  BY <1>1, <1>2, FS_EmptySet
<1>4. MaxCores \in Nat \ {0}
  BY CpuInfoAssumption
<1> DEFINE e == << >>
<1>5. \A V : e \in Seq(V) /\ Len(e) = 0
  OBVIOUS
<1> HIDE DEF e
<1>6. Entries(e, 0)
  BY <1>1, <1>3, <1>4, <1>5 DEF Entries
<1>7. /\ e \in Seq({ CoreAt(i)' : i \in Nat })
      /\ Len(e) = IF Rank(0)' <= MaxCores THEN Rank(0)' ELSE MaxCores
      /\ \A i \in Firsts(0)' : Rank(i)' <= Len(e) => e[Rank(i)'] = CoreAt(i)'
      /\ \A k \in 1 .. Len(e) : \E i \in Firsts(0)' : Rank(i)' = k
  BY <1>1, <1>3, <1>4, <1>5
<1>8. ASSUME NEW c, c = e PROVE Entries(c, 0)'
  BY <1>7, <1>8 DEF Entries
<1> QED
  BY <1>6, <1>8 DEF e

(* The next line or subkey, of which the core was kept if it names one.        *)
LEMMA NextListed ==
  ASSUME NEW n \in Nat \ {0}, Listed(n - 1), UNCHANGED <<input, affinityArg>>,
         cores' = IF NamesCore(n) THEN AddCore(CoreAt(n)) ELSE cores
  PROVE  Listed(n)'
<1> DEFINE m == n - 1
<1>1. m \in Nat /\ m + 1 = n
  OBVIOUS
<1>2. PICK c, d : c = cores /\ d = cores'
  OBVIOUS
<1>3. Entries(c, m)
  BY <1>2 DEF Listed
<1>4. d = IF ~ NamesCore(n) \/ Len(c) = MaxCores \/ \E k \in DOMAIN c : c[k] = CoreAt(n)
          THEN c ELSE Append(c, CoreAt(n))
  BY <1>2 DEF AddCore
<1> HIDE DEF m
<1>5. Entries(d, n)
  BY <1>1, <1>3, <1>4, ListGrows
<1>6. Entries(d, n)'
  BY <1>5, KindsKept
<1>7. cores' = d
  BY <1>2
<1> HIDE <1>2
<1> QED
  BY <1>6, <1>7 DEF Listed

(* Every line read, of the file or the registry, keeps the list right for    *)
(* the lines so far, and what prints the list leaves it alone.               *)
LEMMA CoresNextInv == CoresInv /\ [CpuInfoNext \/ CpuInfoDone]_cpuInfoVars => CoresInv'
<1> SUFFICES ASSUME CoresInv, [CpuInfoNext \/ CpuInfoDone]_cpuInfoVars PROVE CoresInv'
  OBVIOUS
<1> DEFINE n == lineno
<1>1. ASSUME OpenInput("file", CpuFiles) \/ OpenInput("registry", Registries) PROVE CoresInv'
  <2>1. /\ cores = << >> /\ lineno = 1 /\ processor = NoProcessor
        /\ UNCHANGED <<cores, lineno, processor>>
        /\ \/ cpuStage' = "file" /\ input' \in CpuFiles
           \/ cpuStage' = "registry" /\ input' \in Registries
    BY <1>1 DEF OpenInput, CoresInv
  <2>2. Len(input') \in Nat
    BY <2>1, InputsAssumption
  <2>3. ASSUME NEW file, NEW key PROVE InBlock(file, 1, key) = None
    <3>1. { i \in 1 .. 1 - 1 : file[i].key = "empty" } = {}
      OBVIOUS
    <3>2. BlockStart(file, 1) = 1
      BY <3>1 DEF BlockStart
    <3>3. { i \in 1 .. 1 - 1 : file[i].key = key } = {}
      OBVIOUS
    <3> QED
      BY <3>2, <3>3 DEF InBlock
  <2>4. processor' = [ implementer |-> InBlock(input', 1, "implementer"),
                       part        |-> InBlock(input', 1, "part"),
                       processor   |-> InBlock(input', 1, "processor") ]
    BY <2>1, <2>3 DEF NoProcessor
  <2>5. ASSUME NEW c, c = << >> PROVE Entries(c, 0)'
    BY <2>5, NothingListed
  <2>6. Listed(lineno - 1)'
    <3>1. \A c, m : c = cores' /\ m = lineno' - 1 => Entries(c, m)'
      BY <2>1, <2>5
    <3> QED
      BY <3>1 DEF Listed
  <2> QED
    BY <2>1, <2>2, <2>4, <2>6 DEF CoresInv, Reading
<1>2. ASSUME ReadKey PROVE CoresInv'
  <2>1. /\ cpuStage = "file" /\ cpuStage' = "file" /\ n <= Len(input)
        /\ input[n].key # "empty" /\ lineno' = n + 1
        /\ UNCHANGED <<input, affinityArg, cores>>
        /\ processor' = IF input[n].key \in DOMAIN processor
                        THEN [processor EXCEPT ![input[n].key] = input[n].value] ELSE processor
    BY <1>2 DEF ReadKey, Line
  <2>2. /\ input \in CpuFiles /\ n \in 1 .. Len(input) + 1 /\ Listed(n - 1)
        /\ processor = [ implementer |-> InBlock(input, n, "implementer"),
                         part        |-> InBlock(input, n, "part"),
                         processor   |-> InBlock(input, n, "processor") ]
    BY <2>1 DEF CoresInv, Reading
  <2>3. Len(input) \in Nat /\ n \in 1 .. Len(input)
    BY <2>1, <2>2, InputsAssumption
  <2>4. ~ NamesCore(n)
    <3>1. DOMAIN input[n] = {"key", "value"}
      BY <2>2, <2>3, InputsAssumption
    <3>2. input[n] \notin Subkey
      BY <3>1 DEF Subkey
    <3> QED
      BY <2>1, <3>2 DEF NamesCore
  <2>5. ASSUME NEW r, r = n PROVE Listed(r)'
    BY <2>1, <2>2, <2>3, <2>4, <2>5, NextListed
  <2>6. Listed(lineno - 1)'
    <3>1. lineno' - 1 = n
      BY <2>1, <2>3
    <3>2. \A c, m : c = cores' /\ m = n => Entries(c, m)'
      BY <2>5 DEF Listed
    <3> QED
      BY <3>1, <3>2 DEF Listed
  <2>7. \A key \in {"implementer", "part", "processor"} :
            InBlock(input, n + 1, key) =
                IF input[n].key = key THEN input[n].value ELSE InBlock(input, n, key)
    <3> TAKE key \in {"implementer", "part", "processor"}
    <3>1. n \in Nat \ {0} /\ key # "empty"
      BY <2>3
    <3> QED
      BY <2>1, <3>1, BlockGrows
  <2>8. processor' = [ implementer |-> InBlock(input', lineno', "implementer"),
                       part        |-> InBlock(input', lineno', "part"),
                       processor   |-> InBlock(input', lineno', "processor") ]
    BY <2>1, <2>2, <2>7
  <2> QED
    BY <2>1, <2>2, <2>3, <2>6, <2>8 DEF CoresInv, Reading
<1>3. ASSUME ReadEmpty PROVE CoresInv'
  <2>1. /\ cpuStage = "file" /\ cpuStage' = "file" /\ n <= Len(input)
        /\ input[n].key = "empty" /\ lineno' = n + 1
        /\ UNCHANGED <<input, affinityArg>>
        /\ processor' = NoProcessor
        /\ cores' = IF /\ processor.implementer # None /\ processor.part # None
                       /\ affinityArg \in {None, processor.processor}
                    THEN AddCore([implementer |-> processor.implementer, part |-> processor.part])
                    ELSE cores
    BY <1>3 DEF ReadEmpty, Line, AfterBlock, Forget
  <2>2. /\ input \in CpuFiles /\ n \in 1 .. Len(input) + 1 /\ Listed(n - 1)
        /\ processor = [ implementer |-> InBlock(input, n, "implementer"),
                         part        |-> InBlock(input, n, "part"),
                         processor   |-> InBlock(input, n, "processor") ]
    BY <2>1 DEF CoresInv, Reading
  <2>3. Len(input) \in Nat /\ n \in 1 .. Len(input)
    BY <2>1, <2>2, InputsAssumption
  <2>4. cores' = IF NamesCore(n) THEN AddCore(CoreAt(n)) ELSE cores
    <3>1. DOMAIN input[n] = {"key", "value"}
      BY <2>2, <2>3, InputsAssumption
    <3>2. input[n] \notin Subkey
      BY <3>1 DEF Subkey
    <3>3. /\ processor.implementer = InBlock(input, n, "implementer")
          /\ processor.part = InBlock(input, n, "part")
          /\ processor.processor = InBlock(input, n, "processor")
      BY <2>2
    <3>4. CoreAt(n) = [implementer |-> processor.implementer, part |-> processor.part]
      BY <3>2, <3>3 DEF CoreAt
    <3>5. CoreAt(n).implementer = processor.implementer /\ CoreAt(n).part = processor.part
      BY <3>4
    <3>6. NamesCore(n) <=> /\ processor.implementer # None /\ processor.part # None
                           /\ affinityArg \in {None, processor.processor}
      BY <2>1, <3>2, <3>3, <3>5 DEF NamesCore
    <3> QED
      BY <2>1, <3>4, <3>6
  <2>5. ASSUME NEW r, r = n PROVE Listed(r)'
    BY <2>1, <2>2, <2>3, <2>4, <2>5, NextListed
  <2>6. Listed(lineno - 1)'
    <3>1. lineno' - 1 = n
      BY <2>1, <2>3
    <3>2. \A c, m : c = cores' /\ m = n => Entries(c, m)'
      BY <2>5 DEF Listed
    <3> QED
      BY <3>1, <3>2 DEF Listed
  <2>7. \A key \in {"implementer", "part", "processor"} : InBlock(input, n + 1, key) = None
    <3> TAKE key \in {"implementer", "part", "processor"}
    <3>1. n \in Nat \ {0} /\ key # "empty"
      BY <2>3
    <3> QED
      BY <2>1, <3>1, BlockGrows
  <2>8. processor' = [ implementer |-> InBlock(input', lineno', "implementer"),
                       part        |-> InBlock(input', lineno', "part"),
                       processor   |-> InBlock(input', lineno', "processor") ]
    BY <2>1, <2>2, <2>7 DEF NoProcessor
  <2> QED
    BY <2>1, <2>2, <2>3, <2>6, <2>8 DEF CoresInv, Reading
<1>4. ASSUME ReadSubkey PROVE CoresInv'
  <2>1. /\ cpuStage = "registry" /\ cpuStage' = "registry" /\ n <= Len(input)
        /\ lineno' = n + 1 /\ UNCHANGED <<input, affinityArg>>
        /\ cores' = IF affinityArg \in {None, input[n].processor} /\ input[n].midr # None
                    THEN AddCore(CoreOf(input[n].midr)) ELSE cores
    BY <1>4 DEF ReadSubkey, Line
  <2>2. input \in Registries /\ n \in 1 .. Len(input) + 1 /\ Listed(n - 1)
    BY <2>1 DEF CoresInv, Reading
  <2>3. Len(input) \in Nat /\ n \in 1 .. Len(input)
    BY <2>1, <2>2, InputsAssumption
  <2>4. cores' = IF NamesCore(n) THEN AddCore(CoreAt(n)) ELSE cores
    <3>1. input[n] \in Subkey
      BY <2>2, <2>3, InputsAssumption
    <3> QED
      BY <2>1, <3>1 DEF NamesCore, CoreAt
  <2>5. ASSUME NEW r, r = n PROVE Listed(r)'
    BY <2>1, <2>2, <2>3, <2>4, <2>5, NextListed
  <2>6. Listed(lineno - 1)'
    <3>1. lineno' - 1 = n
      BY <2>1, <2>3
    <3>2. \A c, m : c = cores' /\ m = n => Entries(c, m)'
      BY <2>5 DEF Listed
    <3> QED
      BY <3>1, <3>2 DEF Listed
  <2> QED
    BY <2>1, <2>2, <2>3, <2>6 DEF CoresInv, Reading
<1>5. ASSUME EndOfInput PROVE CoresInv'
  <2>1. /\ cpuStage \in Reading /\ cpuStage' \notin Reading \cup {"idle"} /\ lineno > Len(input)
        /\ UNCHANGED <<input, affinityArg, cores>>
    BY <1>5 DEF EndOfInput, Reading
  <2>2. Len(input) \in Nat /\ lineno - 1 = Len(input) /\ Listed(lineno - 1)
    BY <2>1, LengthIs DEF CoresInv
  <2>3. Listed(Len(input))'
    <3>1. ASSUME NEW r, r = Len(input) PROVE Listed(r)'
      BY <2>1, <2>2, <3>1, ListKept
    <3>2. \A c, m : c = cores' /\ m = Len(input) => Entries(c, m)'
      BY <3>1 DEF Listed
    <3> QED
      BY <2>1, <3>2 DEF Listed
  <2> QED
    BY <2>1, <2>2, <2>3 DEF CoresInv, Reading
<1>6. ASSUME PrintCore \/ CoresPrinted \/ PrintModel PROVE CoresInv'
  <2>1. /\ cpuStage \notin Reading \cup {"idle"} /\ cpuStage' \notin Reading \cup {"idle"}
        /\ UNCHANGED <<input, affinityArg, cores>>
    BY <1>6 DEF PrintCore, CoresPrinted, PrintModel, Reading
  <2>2. Len(input) \in Nat /\ Listed(Len(input))
    BY <2>1 DEF CoresInv
  <2>3. Listed(Len(input))'
    <3>1. ASSUME NEW r, r = Len(input) PROVE Listed(r)'
      BY <2>1, <2>2, <3>1, ListKept
    <3>2. \A c, m : c = cores' /\ m = Len(input) => Entries(c, m)'
      BY <3>1 DEF Listed
    <3> QED
      BY <2>1, <3>2 DEF Listed
  <2> QED
    BY <2>1, <2>2, <2>3 DEF CoresInv, Reading
<1>7. ASSUME UNCHANGED cpuInfoVars PROVE CoresInv'
  <2>1. UNCHANGED <<cpuStage, lineno, processor, input, affinityArg, cores>>
    BY <1>7 DEF cpuInfoVars
  <2>2. ASSUME NEW r, Listed(r) PROVE Listed(r)'
    BY <2>1, <2>2, ListKept
  <2>3. Listed(lineno - 1) => Listed(lineno - 1)'
    <3> SUFFICES ASSUME Listed(lineno - 1) PROVE Listed(lineno - 1)'
      OBVIOUS
    <3>1. ASSUME NEW r, r = lineno - 1 PROVE Listed(r)'
      BY <2>2, <3>1
    <3>2. \A c, m : c = cores' /\ m = lineno - 1 => Entries(c, m)'
      BY <3>1 DEF Listed
    <3> QED
      BY <2>1, <3>2 DEF Listed
  <2>4. Listed(Len(input)) => Listed(Len(input))'
    <3> SUFFICES ASSUME Listed(Len(input)) PROVE Listed(Len(input))'
      OBVIOUS
    <3>1. ASSUME NEW r, r = Len(input) PROVE Listed(r)'
      BY <2>2, <3>1
    <3>2. \A c, m : c = cores' /\ m = Len(input) => Entries(c, m)'
      BY <3>1 DEF Listed
    <3> QED
      BY <2>1, <3>2 DEF Listed
  <2> QED
    BY <2>1, <2>3, <2>4 DEF CoresInv
<1> QED
  BY <1>1, <1>2, <1>3, <1>4, <1>5, <1>6, <1>7 DEF CpuInfoNext, CpuInfoDone

(* What is listed are the first cores of each kind, in the order of the      *)
(* machine and as many as there is room for: never one twice, never one      *)
(* made of the lines of two processors, never one the thread is not pinned   *)
(* to. For files and registries of any length, with the lines of a           *)
(* processor in any order and some of them missing (arm/cpu.c:264-281,       *)
(* 330-351).                                                                 *)
THEOREM CoresAreListed == CpuInfoSpec => []CoresListed
<1>1. CpuInfoInit => CoresInv
  BY DEF CpuInfoInit, CoresInv, Reading
<1>2. CoresInv => CoresListed
  <2> SUFFICES ASSUME CoresInv, cpuStage \notin {"idle", "file", "registry"} PROVE CoresListed
    BY DEF CoresListed
  <2>1. Len(input) \in Nat /\ Listed(Len(input))
    BY DEF CoresInv, Reading
  <2>2. PICK c, n : c = cores /\ n = Len(input)
    OBVIOUS
  <2>3. Entries(c, n) /\ n \in Nat
    BY <2>1, <2>2 DEF Listed
  <2>4. Rank(n) \in Nat /\ MaxCores \in Nat
    BY <2>3, RankGrows, CpuInfoAssumption
  <2>5. \A i \in Firsts(n) : Rank(i) \in 1 .. Rank(n)
    BY <2>3, RanksOrdered
  <2>6. \A i \in Firsts(n) : Rank(i) <= MaxCores => Rank(i) <= Len(c) /\ c[Rank(i)] = CoreAt(i)
    BY <2>3, <2>4, <2>5 DEF Entries
  <2>7. \A k \in 1 .. Len(c) : \E i \in Firsts(n) : Rank(i) <= MaxCores /\ Rank(i) = k
    BY <2>3, <2>4 DEF Entries
  <2> QED
    BY <2>2, <2>6, <2>7 DEF CoresListed, Firsts
<1> QED
  BY <1>1, <1>2, CoresNextInv, PTL DEF CpuInfoSpec
=============================================================================
