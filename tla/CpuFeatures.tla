---------------------------- MODULE CpuFeatures ----------------------------
(***************************************************************************)
(* What the CPU can do, as far as the harness itself executes instructions    *)
(* of an extension: the warmup and the vzeroupper check of x86 (x86/cpu.c),   *)
(* and the checked call of RISC-V and 32-bit ARM (riscv/cpu.c, arm/cpu.c).    *)
(***************************************************************************)
EXTENDS Integers, Sequences

CONSTANTS
    X86s,     \* x86 CPUs and what their kernels enabled
    RiscVs,   \* RISC-V CPUs, kernels and builds
    Arms      \* [vfp : BOOLEAN]: 32-bit ARM CPUs

(* garbage: what the leaves above max_leaf seem to say; ymm and zmm: the       *)
(* states the kernel enabled in XCR0.                                        *)
X86 ==
    [ max_leaf : Nat, avx : BOOLEAN, avx512f : BOOLEAN, xcr1 : BOOLEAN, garbage : BOOLEAN,
      ymm : BOOLEAN, zmm : BOOLEAN, dirty : BOOLEAN, build_checks : BOOLEAN ]
(* has: the extensions of the CPU; tells: the bits its kernel can set, none    *)
(* where the call fails; asks: how the build asks for them; macros: the bits   *)
(* of vectors that its headers know; build_f, build_v: what the compiler was  *)
(* told to use; soft: the ABI passes no floats.                              *)
Extensions == {"F", "D", "Zve32x", "V"}
VectorBits == {"EXT_ZVE32X", "IMA_V"}
RiscV ==
    [ has : SUBSET Extensions, asks : {"hwprobe", "hwcap", "nothing"},
      tells : SUBSET ({"IMA_FD", "HWCAP_F", "HWCAP_V"} \cup VectorBits), macros : SUBSET VectorBits,
      build_f : BOOLEAN, build_v : BOOLEAN, soft : BOOLEAN ]
ASSUME CpusAssumption == X86s \subseteq X86 /\ RiscVs \subseteq RiscV
(* Extensions imply others, and a program runs on what it was built for.      *)
ASSUME ExtensionsAssumption ==
    \A c \in RiscVs :
        /\ "D" \in c.has => "F" \in c.has
        /\ "V" \in c.has => "Zve32x" \in c.has
        /\ c.build_f => "F" \in c.has
        /\ c.build_v => "Zve32x" \in c.has
(* An ABI that passes floats in registers is one of a build that has them     *)
(* (riscv/cpu.c:158, 190: __riscv_f, __riscv_float_abi_soft).                *)
ASSUME FloatAbiAssumption == \A c \in RiscVs : c.soft \/ c.build_f

VARIABLES
    machine,        \* [arch, cpu]
    check_vzeroupper, \* checkasm_check_vzeroupper
    simd_warmup,    \* the pointer that is looked up once
    cpu_flags,      \* the flags of RISC-V, {"unset"} for INT_MIN
    call_ptr,       \* what checkasm_checked_call_ptr() last returned
    initialised,    \* checkasm_init_cpu() was called
    alive           \* no illegal instruction was executed

cpuVars == <<machine, check_vzeroupper, simd_warmup, cpu_flags, call_ptr, initialised, alive>>
Cpu == machine.cpu

CpuInit ==
    /\ machine = [arch |-> "none"]
    /\ check_vzeroupper = FALSE /\ simd_warmup = "null" /\ cpu_flags = {"unset"}
    /\ call_ptr = "null" /\ initialised = FALSE /\ alive = TRUE

Boot(arch, cpus) ==
    /\ machine.arch = "none"
    /\ \E c \in cpus : machine' = [arch |-> arch, cpu |-> c]
    /\ UNCHANGED <<check_vzeroupper, simd_warmup, cpu_flags, call_ptr, initialised, alive>>

-----------------------------------------------------------------------------
(* CPUID above its highest leaf returns the data of another one.             *)
Leaf13Xcr1 == IF Cpu.max_leaf >= 13 THEN Cpu.xcr1 ELSE Cpu.garbage
Leaf7Avx512 == IF Cpu.max_leaf >= 7 THEN Cpu.avx512f ELSE Cpu.garbage

(* XGETBV needs OSXSAVE, and with ECX = 1 the support of XCR1.               *)
CanReadXcr1 == Cpu.avx /\ Cpu.max_leaf >= 13 /\ Cpu.xcr1
CanExecute(isa) ==
    CASE isa = "noop"   -> TRUE
      [] isa = "avx"    -> Cpu.avx /\ Cpu.ymm
      [] isa = "avx512" -> Cpu.avx /\ Cpu.ymm /\ Cpu.zmm /\ Cpu.max_leaf >= 7 /\ Cpu.avx512f

(* checkasm_init_x86(): three early returns, then checkasm_dirty_ymm_state()   *)
(* executes AVX and xgetbv(1) shows what is left of it.                      *)
LeafExists == Cpu.max_leaf >= 13

InitX86 ==
    /\ machine.arch = "x86" /\ alive
    /\ initialised' = TRUE
    /\ IF LeafExists /\ Cpu.avx /\ Leaf13Xcr1
       THEN /\ alive' = (CanExecute("avx") /\ CanReadXcr1)
            /\ check_vzeroupper' = (check_vzeroupper \/ (alive' /\ ~ Cpu.dirty /\ Cpu.build_checks))
       ELSE UNCHANGED <<alive, check_vzeroupper>>
    /\ UNCHANGED <<machine, simd_warmup, cpu_flags, call_ptr>>

(* get_simd_warmup(): the widest registers that CPU and kernel allow.         *)
GetSimdWarmupByCpu ==  \* faulty: what the kernel saves is not looked at
    IF Cpu.max_leaf < 1 \/ ~ Cpu.avx THEN "noop" ELSE IF Leaf7Avx512 THEN "avx512" ELSE "avx"
GetSimdWarmup ==
    IF Cpu.max_leaf < 1 \/ ~ Cpu.avx \/ ~ Cpu.ymm THEN "noop"
    ELSE IF Cpu.max_leaf < 7 \/ ~ Cpu.zmm \/ ~ Leaf7Avx512 THEN "avx"
    ELSE "avx512"

SimdWarmup ==
    /\ machine.arch = "x86" /\ alive
    /\ simd_warmup' = IF simd_warmup = "null" THEN GetSimdWarmup ELSE simd_warmup
    /\ alive' = CanExecute(simd_warmup')
    /\ UNCHANGED <<machine, check_vzeroupper, cpu_flags, call_ptr, initialised>>

-----------------------------------------------------------------------------
(* What a bit says of the CPU, and whether the kernel sets it.                *)
Means(bit) ==
    CASE bit = "IMA_FD"               -> {"F", "D"}
      [] bit = "HWCAP_F"              -> {"F"}
      [] bit \in {"IMA_V", "HWCAP_V"} -> {"V"}
      [] bit = "EXT_ZVE32X"           -> {"Zve32x"}
TellsOf(bit) == bit \in Cpu.tells /\ Means(bit) \subseteq Cpu.has

(* checkasm_hwprobe(): of a kernel's bits those are tested that the headers     *)
(* know, where some kernels know V but not Zve32x; AT_HWCAP only where there  *)
(* is no hwprobe() to build with; and what the build takes for granted.       *)
TestedZve32x ==  \* faulty: V is taken to be told of by Zve32x
    CASE Cpu.asks = "hwprobe" -> {"IMA_FD"} \cup (Cpu.macros \ {"IMA_V"})
      [] Cpu.asks = "hwcap"   -> {"HWCAP_F", "HWCAP_V"}
      [] Cpu.asks = "nothing" -> {}
Tested ==
    CASE Cpu.asks = "hwprobe" -> {"IMA_FD"} \cup Cpu.macros
      [] Cpu.asks = "hwcap"   -> {"HWCAP_F", "HWCAP_V"}
      [] Cpu.asks = "nothing" -> {}
Probed ==
    { flag \in {"float", "vector"} :
        \E b \in Tested : TellsOf(b) /\ (flag = "float" <=> b \in {"IMA_FD", "HWCAP_F"}) }
Built == (IF Cpu.build_f THEN {"float"} ELSE {}) \cup (IF Cpu.build_v THEN {"vector"} ELSE {})
HwProbe == Probed \cup Built

(* checkasm_cpu_flags(): asked once, then remembered.                        *)
CpuFlags == IF cpu_flags = {"unset"} THEN HwProbe ELSE cpu_flags
CheckedCall(flags) ==
    CASE flags = {} /\ Cpu.soft         -> "i"
      [] flags = {"vector"} /\ Cpu.soft -> "iv"
      [] flags = {"float"}              -> "if"
      [] flags = {"float", "vector"}    -> "ifv"
      [] OTHER                          -> "null"

RiscVCheckedCallPtr ==
    /\ machine.arch = "riscv" /\ alive
    /\ cpu_flags' = CpuFlags
    /\ call_ptr' = CheckedCall(CpuFlags)
    /\ alive' = (call_ptr' # "null")    \* the assertion
    /\ UNCHANGED <<machine, check_vzeroupper, simd_warmup, initialised>>

(* checkasm_init_arm() and checkasm_checked_call_ptr().                       *)
InitArm ==
    /\ machine.arch = "arm"
    /\ call_ptr' = IF Cpu.vfp THEN "vfp" ELSE "novfp"
    /\ initialised' = TRUE
    /\ UNCHANGED <<machine, check_vzeroupper, simd_warmup, cpu_flags, alive>>

-----------------------------------------------------------------------------
CpuNext ==
    \/ Boot("x86", X86s) \/ Boot("riscv", RiscVs) \/ Boot("arm", Arms)
    \/ InitX86 \/ SimdWarmup \/ RiscVCheckedCallPtr \/ InitArm
CpuStopped == ~ alive /\ UNCHANGED cpuVars

CpuSpec == CpuInit /\ [][CpuNext \/ CpuStopped]_cpuVars

-----------------------------------------------------------------------------
(* Neither the warmup nor the initialisation executes an instruction that CPU *)
(* or kernel refuse, in whatever order and however often they are called; but *)
(* the initialisation does not ask whether the kernel saves YMM               *)
(* (x86/cpu.c:106-129).                                                      *)
NoIllegalInstruction ==
    machine.arch = "x86" /\ ~ alive => Cpu.avx /\ ~ Cpu.ymm /\ initialised /\ simd_warmup \in {"null", "noop"}

(* Every build finds a checked call on every CPU it can run on, one that      *)
(* executes nothing the CPU lacks.  It overwrites the vector registers if the *)
(* build uses them or some bit tells of them that kernel and headers both     *)
(* know, by V or by Zve32x alone, and by no bit of the other way of asking    *)
(* (riscv/cpu.c:118-208).                                                    *)
CheckedCallExists ==
    machine.arch = "riscv" /\ cpu_flags # {"unset"} =>
        /\ alive
        /\ call_ptr \in {"if", "ifv"} => "F" \in Cpu.has
        /\ call_ptr \in {"iv", "ifv"} => "Zve32x" \in Cpu.has
        /\ call_ptr \in {"iv", "ifv"} <=>
               \/ Cpu.build_v
               \/ Cpu.asks = "hwprobe" /\ \E b \in Cpu.macros : TellsOf(b)
               \/ Cpu.asks = "hwcap" /\ TellsOf("HWCAP_V")
=============================================================================
