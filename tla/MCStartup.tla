----------------------------- MODULE MCStartup -----------------------------
(***************************************************************************)
(* The program until its first test, for TLC: the search for a timer on all   *)
(* kinds of machines, and side by side with it, one per behaviour, the        *)
(* command line, the name of the CPU, the features of the CPU and the random  *)
(* numbers that a test is seeded with.                                       *)
(***************************************************************************)
EXTENDS Startup, Args, CpuInfo, CpuFeatures, MCRng

VARIABLE part

-----------------------------------------------------------------------------
TwoCores == {0, 1}

(* A machine without any special timer.                                      *)
Plain ==
    [ clock |-> TRUE, asm |-> "none", asm_always |-> FALSE, asm_init |-> FALSE, init_faults |-> {},
      linux |-> "none", kperf |-> "none", kperf_setup |-> "ok",
      arm |-> "none", counter |-> "none", frequency |-> 0, pins |-> TwoCores ]

Present == {"counts", "stuck", "faults"}
Startable == Present \cup {"unstarted"}

(* x86, which does not ask, and others under Linux; AArch64 under Linux and    *)
(* macOS; an ARM11.  The thread can be pinned to both cores, to the first     *)
(* one, to the second one, or to none.                                       *)
LinuxHosts ==
    { [Plain EXCEPT !.asm = a, !.asm_always = x, !.linux = l] :
        a \in Present, x \in BOOLEAN, l \in Present \cup {"none"} }
Arm64Hosts ==
    { [Plain EXCEPT !.asm = a, !.asm_init = i, !.init_faults = f, !.linux = l,
                    !.arm = "cntvct", !.counter = c, !.frequency = q, !.pins = p] :
        a \in Startable, i \in BOOLEAN, f \in {{}, {1}, TwoCores}, l \in {"none", "stuck"},
        c \in Present, q \in {50, 200, 1000}, p \in {{0}, TwoCores} }
MacHosts ==
    { [Plain EXCEPT !.asm = "faults", !.kperf = k, !.kperf_setup = s,
                    !.arm = "cntvct", !.counter = c, !.frequency = 1000] :
        k \in {"counts", "stuck"}, s \in KperfSetup, c \in Present }
Arm11Hosts ==
    { [Plain EXCEPT !.asm = a, !.asm_init = TRUE, !.init_faults = f, !.arm = "ccnt",
                    !.counter = c, !.pins = p] :
        a \in {"none", "faults", "unstarted"}, f \in {{}, {1}, TwoCores}, c \in Startable, p \in SUBSET TwoCores }

MCHosts ==
    {Plain, [Plain EXCEPT !.clock = FALSE]} \cup LinuxHosts \cup Arm64Hosts \cup MacHosts \cup Arm11Hosts
InlineHosts == { h \in LinuxHosts : h.asm_always }
MCRunConfigs ==
    { [bench |-> b, affinity |-> a] : b \in BOOLEAN, a \in {{}, {1}, TwoCores, {7}} }

-----------------------------------------------------------------------------
(* Numbers of 4 bits, and 6 for long.  10, 3f and 7f in either base, what is   *)
(* none in either, and values around the two limits.                         *)
Text(n, neg, d, h) == [name |-> n, negative |-> neg, dec |-> d, hex |-> h]
Values ==
    { Text("9", FALSE, 9, 9), Text("10", FALSE, 10, 16), Text("f", FALSE, NaN, 15),
      Text("-1", TRUE, 1, 1), Text("-63", TRUE, 63, 99), Text("x*", FALSE, NaN, NaN) }
Numbers == { t \in Values : t.name \in {"10", "f", "-1", "-63"} }
Flag(o) == [opt |-> o, text |-> Text(o, FALSE, NaN, NaN)]
MCArguments ==
    { Flag(o) : o \in {"--help", "--list-tests", "--bench", "--verbose", "-t", "-f", "--csv",
                       "--json", "--html", "--repeat"} }
    \cup { [opt |-> o, text |-> t] : o \in {"--duration=", "--affinity=", "--repeat="}, t \in Numbers }
    \cup { [opt |-> o, text |-> Text("x*", FALSE, NaN, NaN)] : o \in {"--bench=", "--test=", "--function="} }
    \cup { [opt |-> "text", text |-> t] : t \in Values }
MCTexts == { a.text : a \in MCArguments }
MCCmdLines == UNION { [1 .. n -> MCArguments] : n \in 0 .. 3 }

-----------------------------------------------------------------------------
(* Files of five lines, of two processors of up to three kinds of cores, and    *)
(* one with more kinds than are kept; 65 and 3 are implementers.              *)
Lines ==
    { [key |-> "implementer", value |-> 65], [key |-> "part", value |-> 3],
      [key |-> "part", value |-> 9], [key |-> "processor", value |-> 1],
      [key |-> "empty", value |-> None], [key |-> "other", value |-> None] }
Block(p, i, c) ==
    << [key |-> "processor", value |-> p], [key |-> "implementer", value |-> i],
       [key |-> "part", value |-> c], [key |-> "empty", value |-> None] >>
Model == [key |-> "model", value |-> "board"]
MCCpuFiles ==
    [1 .. 5 -> Lines]
    \cup { Block(0, 65, a) \o Block(1, b, c) \o Block(2, 7, d) \o Block(3, 65, e) \o m :
             a \in {3, 9}, b \in {65, 7}, c \in {3, 9}, d \in {3, 5}, e \in {3, 9},
             m \in {<< >>, <<Model>>, << [Model EXCEPT !.key = "unended"] >>} }
Subkeys ==
    { [processor |-> p, midr |-> r, name |-> n] :
        p \in 0 .. 1, r \in {None, 65 * 2 ^ 24 + 15 * 2 ^ 16 + 3 * 16 + 1, 65 * 2 ^ 24 + 9 * 16},
        n \in {"", "board"} }
MCRegistries == UNION { [1 .. n -> Subkeys] : n \in 1 .. 2 }
MCAffinities == {None, 0, 1}
MCImplementers == << [id |-> 65, name |-> "ARM", parts |-> <<[id |-> 3, name |-> "A53"]>>] >>
MCNameLen ==
    [ n \in {"ARM", "A53", "Implementer", "Part", "board"} |->
        CASE n = "ARM" -> 1 [] n = "A53" -> 3 [] n = "Implementer" -> 6 [] n = "Part" -> 4 [] n = "board" -> 5 ]

-----------------------------------------------------------------------------
MCX86s ==
    { c \in [ max_leaf : {0, 1, 7, 13}, avx : BOOLEAN, avx512f : BOOLEAN, xcr1 : BOOLEAN,
              garbage : BOOLEAN, ymm : BOOLEAN, zmm : BOOLEAN, dirty : BOOLEAN, build_checks : BOOLEAN ] :
        c.zmm => c.ymm }
(* Kernels without hwprobe(), and with more and more bits in it; headers of    *)
(* their own age.  An ABI that passes floats is built for a CPU that has them,*)
(* and a program runs on what it was built for.                              *)
MCRiscVs ==
    { c \in [ has : { {}, {"F"}, {"F", "D"}, {"Zve32x"}, {"F", "Zve32x"}, {"F", "D", "Zve32x"}, Extensions },
              asks : {"hwprobe", "hwcap", "nothing"},
              tells : { {}, {"HWCAP_F"}, {"HWCAP_F", "HWCAP_V"}, {"HWCAP_F", "IMA_FD"},
                        {"HWCAP_F", "HWCAP_V", "IMA_FD", "IMA_V"},
                        {"HWCAP_F", "HWCAP_V", "IMA_FD", "IMA_V", "EXT_ZVE32X"} },
              macros : { {}, {"IMA_V"}, VectorBits },
              build_f : BOOLEAN, build_v : BOOLEAN, soft : BOOLEAN ] :
        /\ c.soft \/ c.build_f
        /\ c.build_f => "F" \in c.has
        /\ c.build_v => "Zve32x" \in c.has }
MCArms == { [vfp |-> b] : b \in BOOLEAN }

-----------------------------------------------------------------------------
MCInit ==
    /\ part \in {"timers", "args", "cpu name", "cpu features", "numbers"}
    /\ StartInit /\ (part # "timers" => host = Plain)
    /\ ArgsInit /\ CpuInfoInit /\ CpuInit
    /\ TwiceInit /\ (part # "numbers" => gen = Seeded(1) /\ genB = Seeded(1))

TimersStep == part = "timers" /\ StartNext /\ UNCHANGED <<part, argsVars, cpuInfoVars, cpuVars, twiceVars>>
ArgsStep == part = "args" /\ ArgsNext /\ UNCHANGED <<part, startVars, cpuInfoVars, cpuVars, twiceVars>>
CpuInfoStep == part = "cpu name" /\ CpuInfoNext /\ UNCHANGED <<part, startVars, argsVars, cpuVars, twiceVars>>
CpuStep == part = "cpu features" /\ CpuNext /\ UNCHANGED <<part, startVars, argsVars, cpuInfoVars, twiceVars>>
NumbersStep == part = "numbers" /\ TwiceNext /\ UNCHANGED <<part, startVars, argsVars, cpuInfoVars, cpuVars>>
Finished ==
    /\ \/ part = "args" /\ MainDone
       \/ part = "cpu name" /\ CpuInfoDone
       \/ part = "cpu features" /\ CpuStopped
    /\ UNCHANGED <<part, startVars, argsVars, cpuInfoVars, cpuVars, twiceVars>>

MCNext == TimersStep \/ ArgsStep \/ CpuInfoStep \/ CpuStep \/ NumbersStep \/ Finished
MCSpec == MCInit /\ [][MCNext]_<<part, startVars, argsVars, cpuInfoVars, cpuVars, twiceVars>>
=============================================================================
