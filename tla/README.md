# checkasm in TLA+

checkasm is a C library that tests and benchmarks hand-written assembly: a test
function asks, for each set of CPU flags, whether an implementation is new, calls it
next to a reference, compares the results and reports. The library survives what the
code under test does to it (fatal signals, clobbered registers, calls that never
return) by jumping out of the call and running the test function again. Around that
core it parses a command line, searches for a timer that works, fills and compares
buffers, and tells the user about it on a terminal and in reports.

This directory holds a TLA+ model of that machinery, TLC runs on small instances, and
proofs checked by TLAPS. Paths below are those of the repository.

## The system

| Part | Code | State | Operations | Status |
|---|---|---|---|---|
| Runner | `src/checkasm.c` `checkasm_run`, `run_all_tests`, `check_cpu_flag` | `cfg`, `state`, `current` | pass over the CPUs of the list, tests, iterations, the crash path, exit status | modelled but for the seed and printed text |
| Version registry | `checkasm_check_key`, `src/function.h` | `current.tree`, `func`, `func_ver`, `report_idx`, `num_*`, `saved_*` | recover, skip, append, join the report group | modelled |
| Reporting | `checkasm_report`, `checkasm_should_fail`, `fail_internal`, `print_summary` | `num_failed`, `prev_*`, `should_fail` | count, invert, close a group, decide the exit status | modelled, text aside |
| Signals | `src/signal.c`, `src/longjmp.h` | `sig`, `checkasm_interrupted`, installed handlers, `checkasm_context` | arm, disarm, deliver, jump | POSIX variant modelled |
| Calling macros | `include/checkasm/test.h`, `src/stackguard.c` | `checkasm_key_ref`, `checkasm_key_new` | call, checked call, benchmark, abort | modelled; the register checks are one behaviour, "clobber" |
| Function tree | `src/function.c` | red-black tree of names | look up or insert, free | modelled on its own; the runner uses a function of the name |
| Statistics | `src/stats.c`, `src/stats.h`, `checkasm_bench_runs`, `checkasm_measure_nop_cycles` | samples, `next_count`, cycles spent | add, grow, decide on the next batch, finish | counts modelled; the floating-point estimate is out of reach |
| Timers | `src/perf.c`, `src/perf/`, `checkasm_run_on_all_cores` | `checkasm_perf`, open descriptors, the thread's affinity | try, start on every core, validate, give up, fall back | the search modelled; what a timer reads is whether it counts |
| Random numbers | `src/utils.c` | generator state, caches of each width, the cached normal variate | seed, draw, fill buffers, `checkasm_init` and its masks | modelled: where each number comes from, not its value |
| Comparison | `src/utils.c`, `include/checkasm/utils.h` | none | compare padded rectangles and floats, hexdump, `BUF_RECT` | modelled but for doubles by a difference |
| Console | `src/utils.c`, the `LOG` calls of `src/checkasm.c` | the status line and whether it is visible | write above it, show, clear | modelled, texts and colours aside |
| Reports | `print_benchmarks`, the JSON writer of `src/utils.c` | nesting level and one bit | push, pop, write a value | JSON, also within HTML; CSV, TSV and the table are text |
| Command line | `checkasm_main`, `parseu`, `wildstrcmp` | the configuration | options to a configuration; glob matching | modelled |
| CPU detection | `src/cpu.c`, `src/arm/cpu.c`, `src/riscv/cpu.c`, `src/x86/cpu.c` | list of cores | the cores of a machine and their names, what the harness may execute | ARM names, x86, RISC-V and ARM features modelled |
| Call checkers | `src/*/*.asm`, `src/*/*.S` | registers | compare registers after a call | not modelled: one behaviour of the runner |

How they interact: `checkasm_main()` makes a configuration of the command line.
`checkasm_run()` copies it, installs the handlers, pins the thread, searches for a timer and
walks CPUs x tests x iterations on one thread. Before each test `check_cpu_flag()`
saves a context. The test function calls `checkasm_check_func()` (a lookup in the
registry that returns a reference), the calling macros (which arm the handlers around
a call), `checkasm_fail()` and `checkasm_report()`. A fatal signal or an abort jumps
back to the saved context; `check_cpu_flag()` then blames the current version, sets
the sums of the open report group aside and calls the test function from its start.
When the rerun's lookup meets the crashed version again, the sums are put back. A
user's SIGINT or SIGTERM may arrive at any moment; it is acted upon at a few places. The
search for a timer uses the same handler and the same context as the tests do.

What is hard: all state is global and is shared by the test function, the signal
handlers and the crash path, which leaves in the middle of anything; a rerun replays a
prefix of the test over a registry that has changed; expected failures invert what is
counted; handlers are one-shot; every function is in a linked chain that is rebuilt
group by group. Timers are tried one after the other, each leaving something behind; two
writers share one terminal; and the pure parts (comparison, masks, matching, parsing) live
from their edge cases. The hazards this leads to, with the code lines, are in `PROJECT.json`.

## Modules

| Module | Models |
|---|---|
| `Versions` | the registry as data, and the decisions of the walk in `checkasm_check_key()`: where it stops, what it restores, which version is the reference, the chains along `prev` |
| `Runner` | the process: one action per step between two points at which a signal matters |
| `RunnerHistory` | auxiliary variables (the open group, who crashed, whether a result was unexpected) and the properties stated with them |
| `Tally` | abstract specification: what the summary and the exit status promise, without crashes, reruns or signals |
| `RunnerTally` | the refinement mapping from `Runner` to `Tally` |
| `RunnerClaims` | what comments say and the code does not do |
| `Startup` | `checkasm_run()` until its first test, several times in a process: handlers, affinity, and the search for a timer through `perf.c`, `perf/linux.c`, `perf/macos_kperf.c` and `perf/arm.c` |
| `Args` | `checkasm_main()`: the command line, read from left to right, next to what it means |
| `CpuInfo` | the cores of an ARM machine, read from `/proc/cpuinfo` or the registry of Windows, and printed into a buffer |
| `CpuFeatures` | what the harness itself executes of x86, how it asks for the features of RISC-V, and the checked call it chooses for RISC-V and ARM |
| `FuncNames` | the order of function names: digit runs by length, then by character |
| `FuncTree` | the left-leaning red-black tree that `checkasm_func_get()` keeps by that order |
| `FuncSet` | abstract specification of the tree: a set of names, each with a node that whoever asks for the name gets |
| `Wildcard` | `wildstrcmp()`, next to what a pattern means |
| `Json`, `Report` | the JSON writer with a reader that looks at every token, and the report that is written with it |
| `StatusLine` | the status line, what is written around it, and what the terminal shows |
| `CheckRect` | `BUF_RECT`, the comparison of rectangles with padding, the hexdump of a difference, and what both read of either buffer |
| `FloatNear` | floats near each other by ulps or by a difference |
| `InitMask` | `checkasm_init()` with a mask: runs of random patterns |
| `Rng` | the generator, its block-wise caches, and the normal variates |
| `RngTwice` | two runs of a test over two copies of `Rng`, seeded alike after different pasts |
| `BenchStats` | the batches of a benchmark: `stats.h`, `checkasm_bench_runs()`, the loop that measures an empty call, and `CHECKASM_PERF_BENCH`, the naive loop and the rounds in assembly |
| `RunnerConfigs`, `MCRunner`, `MCHistory`, `MCReport`, `MCStartup`, `MCRng`, `MCBenchStats` | instances for TLC |
| `RunnerProofs`, `HistoryProofs` | proofs about the registry and the runner, the second on top of the first |
| `StartupProofs`, `RngProofs` | proofs about the start of the program and the random numbers |
| `TreeProofs`, `BenchProofs` | proofs about the order of names and the function tree, and about the loops of a benchmark |
| `ReportProofs`, `BufferProofs` | proofs about the status line, the patterns and the report in JSON, and about the comparison of buffers and what they are filled with |

`MCReport` and `MCStartup` each hold several parts side by side that share no state; `part`
says which of them a behaviour is about, and the others keep their initial values. So a
property of one part is checked in all of that part's behaviours and nothing is
multiplied.

### State and control of the runner

`current`, `state`, the statics of `signal.c` and the two keys of a test file are
variables of the same names. Flags are sets; `num_*` are integers. `tree[name]` is a
`CheckasmFunc` with its versions as a sequence; `func_ver` is a place in one of them.
`stats` is reduced to who produced each sample. `context` says whether the frame
`checkasm_context` was saved in is live, dead or never existed. The program counter is
`pc` with `info` (the CPU of the list, 0 is the C pass), `test`, `ip` (the call of the
test function that comes next) and `callee`.

A test function is data: the straight-line list of its framework calls, each `check`
with a *getter* that picks an implementation for the flags in force. An implementation
may return (with a value), fault, clobber a register or never return, or choose among
these at each call. So a configuration is a program, and TLC enumerates programs.

| Code | Actions of `Runner` |
|---|---|
| `run_all_tests`, `check_cpu_flag` | `InitHooks`, `SkipCpu`, `EnterCpu`, `SkipTest`, `SaveContext`, `EnterTest`, `Measure`, `LeaveCpu`, `UninitHooks` |
| second return of `checkasm_save_context` | `Recover` |
| `checkasm_check_key` | `IgnoreKey`, `SkipKey`, `NewKey`, `LoopInCheck` |
| `checkasm_call_ref`, `checkasm_call_new`, the branches of `checkasm_bench` | `CallRef`, `CallNew`, `CallInsteadOfBench`, `BenchStart`, `BenchArm`, `BenchSample`, `BenchFinish` |
| the callee and `signal_handler` | `Return`, `Crash`, `FailAbort`, `Hang` |
| `checkasm_fail`, `checkasm_should_fail`, `checkasm_report` | `Compare`, `ShouldFail`, `ReportGroup`, `ReportRest`, `LoopInReport` |
| `print_summary`, the loop of `checkasm_run`, `checkasm_list_functions` | `Finish`, `NextIteration` |
| `interrupt_handler` | `Interrupt` |

`killed`, `undefined` and `looping` are ends of the process that should not exist: the
default action of a signal, a jump into a frame that has returned, a walk along a
cyclic chain.

### State and control of the other parts

| Module | Correspondence |
|---|---|
| `Startup` | `stage` is the place in the code, `armed`, `frame` and `resume` are `sig` and the saved context: in which function it was saved, and where its second return goes on. A host says of each timer whether it counts, stands still, counts once it was started on the core, faults or is not there, to which cores the thread can be pinned (`pins`), and whether the build asks `asm_usable` before it reads the counter inline (`asm_always`, `ReadsInline`). `TryAsm` .. `ValidateAsm`, `VisitCore`, `LeaveCores` are `checkasm_perf_init()` and `checkasm_run_on_all_cores()`, which leaves at the first core it cannot be pinned to, after any number of others; `LinuxPerf`, `Kperf` and the `Cntvct`/`Ccnt` actions are the backends; `TimerFault` and `SigInt` are the handlers; `RunBegin` and `RunEnd` allow for another call of `checkasm_run()` |
| `Args` | one action per option; `argi` is the position `argc` and `argv` are moved to. Numbers are read by `StrToUL` with a sign and a wrap at `ULongMax` |
| `CpuInfo` | one action per `fgets()` or subkey, one per step of printing; `processor` is what the lines of a processor have said so far, `pos` may pass `BufLen` as it does in the code |
| `CpuFeatures` | the decisions are operators; an instruction the machine does not have ends the process. A RISC-V machine has extensions, a kernel with the bits it can set, and a build: which way it asks (`hwprobe()`, `AT_HWCAP` or neither), which bits its headers know, and what it takes for granted. `Tested` are the bits that are looked at, `Means` what each says |
| `FuncTree` | one action per operation, `FuncGet` and `TreeUninit`; `asked` and `out` are the argument and the result of the last lookup, which `FuncSet` relates; the recursion of `func_get()` is that of `Get`: what the call on a child returns, with `tree_balance()` on the way up if a node was inserted below |
| `Report` | `Write` performs the next call of the writer, appends its tokens to what the reader has seen, and notes which versions it wrote |
| `StatusLine` | the terminal is a record: what the program believes (`statusline`, `visible`) and what is there (`screen`, `shown`). `Log` knows of the line, `Put` does not |
| `CheckRect` | one of the buffers is uniform, so the other one is the set of the places where it differs; one action per region of the comparison. `read` are the spans of either buffer, each `BUF_RECT` with a width and stride of its own, that were compared or dumped |
| `InitMask` | one action for the first element of a run and one for the next |
| `Rng` | a number is a triple of seed, place in the generator's output and width, so that two numbers are equal exactly if they come from the same bytes |
| `BenchStats` | the time of a batch has a linear cost (a fixed part and one per call), divided by the resolution of the timer, rounded down or up as the readings fall, with a bounded number of disturbances. A batch is two steps or more: `Begin`, then `EndSimple`, or in assembly a `Round` for 32 calls (`Keeps` is the test for outliers) and `EndAsm` |

## Runs

| Run | Instance | Shows |
|---|---|---|
| `groups` | `GroupConfigs` of `RunnerConfigs`: all tests of up to three blocks, each one of two functions with one of six getters (right, wrong, crashing, clobbering, no C version, crashing C version), with or without a report after it; `checkasm_should_fail`, two tests, two iterations; functions checked several times per group and in other orders | types (and `func_ver` never dangles); the sums always describe the open group, a crash is set aside at most once and never beyond its test, it is reported in its own group, and what crashed is not called again; the exit status; every version counted once |
| `interrupt` | `SignalConfigs`: up to two blocks that call, crash, hang, clobber, benchmark or should fail, benchmarks on, two tests, two iterations, one SIGINT and one SIGTERM at any time plus the second one that kills | crashes are caught, calls are left, refinement of `Tally` |
| `cpus` | `CpuConfigs`: three CPU lists with overlapping flags and masks, every set of host flags, functions and tests left out, implementations that fail only sometimes, listing mode | only host flags in force, termination |
| `startup` | several hundred machines (x86, with and without asking `asm_usable`, and AArch64 with Linux, macOS with kperf, an ARM11), with cores the thread cannot be pinned to, two calls of `checkasm_run()` with and without benchmarks and affinity, a SIGINT at any moment; all command lines of up to three arguments out of 31; all files of five lines and 96 of four processors; all combinations of features of x86; RISC-V CPUs, kernels, headers and builds of every age; two runs of a test seeded alike, with random numbers of three widths, two buffer sizes, normal variates with and without rejected pairs, up to three draws before the seeding and six after | one timer is chosen and counts on every core, jumps go to live frames, the affinity is put back wherever the visit to the cores ended, nothing but a second signal kills; the configuration is what the command line means; every kind of core is listed once, within the buffer; no illegal instruction, and for every CPU a checked call that fits what it has and what is told of it; the same random numbers for both runs, no byte twice |
| `report` | all pairs of names of up to three characters over `-01a` and eight numbered names, inserted in every order; 132 reports; sequences of up to four functions with failures, on terminals of all kinds; all patterns and strings of up to four characters; rectangles with and without alignment, with a difference at any place that matters, alone and together with others, buffers of like and unlike strides; all pairs of floats of five bits and arrays of two; all masks of three bits | the tree stays sorted and balanced, and implements `FuncSet`: a lookup returns the node of the name asked for; JSON is well formed and tells each measured version under its function; text and status line never mix; patterns match what they mean; overwrites are caught, shown, and looked for within the buffers; near is close; pixels are never greater than their mask and, if it has no gaps, within it |
| `bench` | budgets of 20 to 190000 ticks, calls of 1 and 40, timers that count every tick or every 500th, counters read in assembly that count every tick or every 20th, two disturbances, an interrupt | each loop ends, with its budget spent and at least 30 samples, before there are 256; the estimate is possible |
| `armed_after_abort` | a clobbering function as the last one of a run | violation, below |
| `stale_samples` | a benchmark that crashes where failure is expected, then another | violation |
| `endless_report` | three functions, two groups, one crash | violation |
| `rng_normal` | the run before also drew normal variates one at a time | violation |
| `estimate_overflow` | a budget of a million calls | violation |
| `inline_timer` | the x86 machines of `startup`, which do not ask `asm_usable` | violation |

Why these bounds are enough to be interesting: two blocks are needed for a rerun to
pass another function before it meets the crashed one, three for a second crash in
the rerun with the first one's group open; two CPUs (or a C pass and a CPU) for a
version that was tested in an earlier pass; two iterations for what survives
`memset(&current)`; three functions for a chain whose order changes between groups.
`SampleLimit` is 2 (256 or a time budget in the code): the samples only matter by
being none, some or all.

In `startup`, two cores are one on which a counter is tried and one on which it is started
unarmed; two calls of `checkasm_run()` show what the first leaves behind in
`checkasm_perf`, the descriptors and the handlers. Numbers of the command line have 4 bits
and 6 for long, with texts around both limits and below zero; three arguments are an option, its
operand, and one that is or is not skipped. `MaxCores` is 3 with files of four processors,
and `BufLen` is 12 with names from 1 to 6, so that the buffer ends within a name, between
names and not at all; `SizeMax` (63) is where `buflen - pos` wraps. In `report`,
lines and columns of a rectangle are small but the padding is that of `BUF_RECT`, and the
terminals of 12, 60 and 80 columns show one element in a line, some, and the whole row. One pair of
buffers has unlike strides, the first wider by more than the padding, as a wider `BUF_RECT` gives it.
Floats have a sign, two bits of exponent and two of mantissa: zeros, denormals, normal numbers, infinities and
NaNs of either sign.

In the random numbers of `startup` (`MCRng`), a cache is two blocks as small as makes one width a cache of
eight numbers and another a cache of one. In `bench` an int has 20 bits, because TLC's own
integers have 32: every limit of the code that depends on the width (`1 << 25`) moves with
it, 30, 128, 256, 1000 and 1024 are those of the code. That 256 samples suffice holds
as long as reading the timer takes little of a 1024th of the budget (the instances have a
quarter) and that 1024th is more than a few cycles; with about 0.8 of it the batches hardly grow and
the limit is reached.
Counters are bounded by the length of the test, so no state
constraint is used; `MaxRuns`, `MaxPrints`, `MaxLen` and `MaxWidth` are bounds in guards.

Fairness: `WF(Step)`, nothing else, in `Runner` and in `BenchStats`. The process is single-threaded and no step waits,
so it keeps running while it can; this is all `Terminates` assumes. `Hang` and the
user's signals get no fairness, and the instance of `Terminates` has no function that
never returns. An implementation that crashes "sometimes" may do so every time. The other
modules state safety only and need none.

### What the code does not keep

* **Armed after an abort.** `checkasm_fail_abort()` jumps without disarming. If nothing
  is called afterwards, `check_cpu_flag()` returns with `sig` armed, and a SIGINT during
  the summary jumps into a dead frame.
* **Samples of someone else.** The crash path does not reset `stats` or
  `current.cycles`; after an *expected* crash in a benchmark the next function's
  measurement contains the crashed one's samples.
* **A report that never ends.** After a crash `checkasm_check_key()` moves a whole chain to the
  open group; a member that joins again may then point back into it, and the walk in
  `checkasm_report()` is endless.
* **A normal variate from another test.** `checkasm_srand()` does not reset the variate
  that `checkasm_rand_norm()` keeps. After a test that drew an odd number of them, the same
  test sees other numbers in the pass of the next CPU.
* **More calls than an int.** The estimate adds up the calls of all samples in an int. A
  `--duration` of a few seconds is enough for a short function to overflow it, and then the
  assertion on the sum fails.
* **A counter given up is read all the same.** On x86, and on AArch64 with MSVC,
  `CHECKASM_PERF_ASM_USABLE` is 1, so `CHECKASM_PERF_BENCH` does not ask whether the search gave
  the counter up. Batches of 128 calls and more are then measured with it, and shorter ones with
  the timer that was chosen. If it faults, `checkasm_measure_nop_cycles()` reads it unarmed, and
  the process dies.

Three more contradict a doc of the repository, but only for inputs that the comments of the
properties, or the assumptions of the theorems, except by name. No run shows them:

* **A coarse counter in assembly.** A round of 32 calls that shows no cycle makes outliers of all
  that show some (`test.h:596`). With a counter that ticks less than once in a round, which the
  validation does not refuse, a batch shows nothing however long it is, and its calls double until
  the int overflows and the benchmark ends. `BudgetsAreSpent` and `EstimatesArePossible` assume a counter
  that `SeesRounds`.
* **A hexdump of other rows.** It starts the second buffer at the stride of the first
  (`utils.c:753`). With a wider first `BUF_RECT`, the dump of the lines above the rectangle reads
  in front of the second one, and the one of the lines below shows other rows than were compared. `ReadsInRect` and
  `DifferencesShown` except these rows.
* **Values outside of the mask.** The high counterpart of a low value is a difference; with a mask
  that has gaps it borrows across them. A mask of 5 and a low value of 2 give 3.
  `PixelsUpToMask` asks for values within the mask only if it has no gaps.

Also seen while modelling, without a run of its own because nothing in the repository says otherwise:

* Runner. Interrupted between a crash of a C version and its rerun, the summary prints
  "-1 tests passed" (`checkasm.c:594`, `:823`). A CPU the host lacks still gets a pass when
  its mask removes a flag (`:551-566`). `num_funcs`, "known functions", counts a second
  variant again (`:97`, `:1001`). With three implementations the third is compared against
  the second rather than the C version (`:977`). A function that rejoins its group cuts the
  members before it off from the report name (`:1009-1013`, `:1152`). `checkasm_run()` looks at
  the `format` of the previous run before it copies the new configuration (`:860`). The growth of a batch
  overflows an int just below its limit (`stats.h:116`, from 33038209 calls on), which costs
  some empty batches; from that very number the count doubles to zero and the benchmark ends.
* Timers. A second `checkasm_run()` does not install the interrupt handlers again
  (`signal.c:134`). A counter that may be started on one core but not on another kills the
  process, because all but the first start unarmed (`perf.c:93`). kperf calls
  `kpc_set_thread_counting` without having looked it up (`macos_kperf.c:119`).
* Command line. `-t` and `-f` as the last argument set a pattern of NULL (`checkasm.c:1253`,
  `:1259`).
* CPU. The initialisation of x86 executes AVX without looking at what the kernel saves
  (`x86/cpu.c:106-126`; `NoIllegalInstruction` makes an exception of it). A line of exactly 1023
  characters makes its newline count as an empty line (`arm/cpu.c:234-240`). The bank of a
  JEDEC vendor is cut to a byte (`cpu.c:161`).
* Output. The status line is not painted again after a failure; a dump outside of a block
  mixes with it. Two versions of one suffix are two equal keys in JSON, and keys are not escaped.
* Buffers. The hexdump never ends on a terminal narrower than 11 columns and an element, width
  0 included (`utils.c:755`); that is the result `endless` of `CheckRect`, which no property
  excludes. The corners of a padded rectangle belong to nobody. A comparison with
  `align_h` of 16 may read behind a `BUF_RECT`. A mask of zero is undefined (`:416`).

## Proofs

For every set of tests, implementations, flags and signals (`RunnerProofs`, `HistoryProofs`),
every machine (`StartupProofs`), every text, terminal, pattern and report (`ReportProofs`),
every buffer (`BufferProofs`), every seed and size (`RngProofs`), all names in every order
(`TreeProofs`), every budget, timer and function (`BenchProofs`):

| Theorem | Module | Says |
|---|---|---|
| `TypeCorrect` | `RunnerProofs` | `Spec => []TypeOK`; its hard part is that `func_ver` always points into the registry, through reruns, restored crashes and iterations |
| `OnlyHostFlags` | | `Spec => []FlagsSupported` |
| `EveryCrashIsCaught` | | `Spec => CrashesAreCaught` |
| `EveryCallIsInterruptible` | | `Spec => InterruptLeavesCall` |
| `CrashesComeOneByOne` | | `Spec => []OneCrashAtATime` |
| `NothingStaysAside` | | `Spec => []NothingSetAside` |
| `AllVersionsCounted` | | `Spec => []EveryVersionCounted` |
| `RunnerImplementsTally` | `HistoryProofs` | `Spec => ImplementsTally`, the refinement of the abstract specification |
| `SumsDescribeGroup` | | `HSpec => []GroupIsCounted` |
| `CrashesReportedInPlace` | | `HSpec => RightReport` |
| `CrashedNeverCalled` | | `HSpec => []NoCallAfterCrash` |
| `StatusTellsResult` | | `HSpec => []ExitStatus` |
| `JumpsIntoLiveFrames` | `StartupProofs` | `StartSpec => []ArmedInLiveFrame` |
| `MaskIsRestored` | | `StartSpec => []AffinityKept` |
| `OneTimerChosen` | | `StartSpec => []TimerIsWhole` |
| `TimersDoNotKill` | | `StartSpec => []SurvivesTimers` |
| `TimerCountsOnAllCores` | | `StartSpec => []CountsEverywhere` |
| `WarmupIsLegal` | | `CpuSpec => []NoIllegalInstruction` |
| `CallMatchesCpu` | | `CpuSpec => []CheckedCallExists` |
| `NameFitsBuffer` | | `CpuInfoSpec => []PrintsInBuffer` |
| `LineIsUnderstood` | | `ArgsSpec => []ConfigAsMeant` |
| `CoresAreListed` | | `CpuInfoSpec => []CoresListed` |
| `NothingIsMixed` | `ReportProofs` | `StatusSpec => []ScreenIsAsNoted` |
| `PatternsMatchAsMeant` | | `WildSpec => []MatchesAsMeant` |
| `ReportIsOneDocument` | | `ReportSpec => []WellFormedJson` |
| `ReportHasTheBenchmarks` | | `ReportSpec => []ReportsBenchmarks` |
| `OverwritesAreCaught` | `BufferProofs` | `RectSpec => []OverwritesCaught` |
| `ReadsStayInside` | | `RectSpec => []ReadsInRect` |
| `DifferencesAreShown` | | `RectSpec => []DifferencesShown` |
| `FloatsAreNear` | | `FloatSpec => []NearIsClose` |
| `PixelsStayBelow` | | `MaskSpec => []PixelsUpToMask` |
| `SeedDeterminesNumbers` | `RngProofs` | `TwiceSpec => []SameNumbers`, if no test before drew normal variates one at a time |
| `BytesAreFresh` | | `TwiceSpec => NoByteTwice`, likewise |
| `TreeKeepsOrder` | `TreeProofs` | `Spec => []SearchTree` |
| `TreeIsRegistry` | | `Spec => ImplementsFuncSet`, the refinement of the set of names: the node returned is that of the name asked for |
| `BudgetsAreSpent` | `BenchProofs` | `Spec => BudgetIsSpent`, if the calls of each budget fit in an int (`AllFit`) and counters read in assembly tick in every round (`AllSeen`) |
| `EstimatesArePossible` | | `Spec => EstimateIsPossible`, likewise |

Runner. The inductive invariant `IInv` is `TypeOK`, `FlagsSupported` and `ControlInv`.
`ControlInv` says what the properties need to know about control: inside a test the saved frame
is live and there is a test to run again; during a call the handlers are armed; inside a block
there is a version the crash can be blamed on; the fatal handler is installed unless the
process only lists functions, and then no block is ever entered. `TypeOK` alone is not
inductive (a failure writes through `func_ver`), and neither action property follows from
`TypeOK`. There is one lemma per group of actions, one step per action. The module begins with
what the walk of `checkasm_check_key()` guarantees for lists of any length: it keeps every
version in its place, leaves none crashed when it runs to the end, and picks a reference that
works.

Sums of the runner. That one crash is dealt with before the next is a fact about where the
rerun is, so `KInv` ties the sums to the test's operations. `RerunInv`: while a
version is crashed, some check at `c`, still ahead, recorded it (`Culprit`: its walk meets that
version before it stops), and every check before `c` would be turned away (`Visited`), so no
block opens on the way there and nothing new is recorded: `NewAfterCrash`. `VisitedInv`: in its
first run the test has left only such checks behind, because a check that finds something new
appends it. `BlockInv`: in a block nothing is set aside, and the version at `func_ver` is
counted in the open group and not yet among its failures if it still works (`Counted`), so that
what a crash sets aside is positive and has no more failures than versions. `SumsInv` is the
bookkeeping, `CallsInv` says that calls are made by a block's operations. Two relations carry
this through changes of the registry: `SameStates` (reports, measurements, walks that restore
nothing) and `Extends` (failures, crashes, restores, new versions: what did not work does not
work afterwards). `AllVersionsCounted` adds `CountInv`: `NewKey` adds one version and counts
it, no other step but the next iteration changes either side (`OnlyNewKeyCounts`).

Refinement of `Tally`. The mapping adds what is set aside to what is counted, so a crash and
the restore that answers it must cancel out. `TInv` (`HistoryProofs`) adds to `IInv` and `KInv`
what makes each step of the runner one step of `Tally` or none: `SettledInv`, while something
is set aside, and between two tests, the open group is empty, so that nothing is reported twice
and nothing crosses from one test into the next; `ListingInv`, a process that lists functions
fails none. The step simulation has a lemma per group of actions: `FailureMaps` and
`CalleeMaps` are the abstract failure, a lookup records a version or is a stutter, a report
closes a group, `Measure` and an interrupt may end the process.

History of the runner. `HistoryInv` (`HistoryProofs`) is about the set of versions that
`RunnerHistory` keeps of the open group. `GroupInv` says that it has one member for each
version the sums count, set aside or not, and one broken member for each failure. That is not
inductive: a failure adds one to a sum, and whether it breaks a member depends on `func_ver`.
So `WaitsInv` ties a block's `func_ver` to a member of the group, as long as the check that
opened the block is not yet reported. `PlaceInv` and `AsideInv` say where the members come
from: no report lies between their checks and the present, or, with a crash set aside, between
them and the check of the rerun that will restore it. That it is this check and no earlier one
is `FirstMet`: every earlier walk of the same function stops before it comes to the crashed
version, in the registry of the first run and, because of `Extends`, in that of the rerun.
`CrashedInv` says that what crashed stays broken and that no other version of the function has
its key (`DistinctKeys`), hence a reference, which works, cannot be it; `WrongInv` follows the
exit status.

Start. `StartInv` has five parts. `FrameInv`: the handler is armed exactly while a timer is
tried, with the frame of the function that tries it and the way out that belongs to it;
`MaskInv`: the mask of the thread, or, while it is pinned to one core after the other, the one it
will get back wherever that ends, is the one it was told to have;
`TimerInv`: `checkasm_perf` belongs to the cycle counter until it is given up and has no claim
to it afterwards, and what was given up did not count or was interrupted, so that where the build
does not ask, only such a machine reads inline what was not chosen; `AliveInv`: what faults is not read again unarmed, and the cores are only
visited if one of them could be started; and `TypeInv`. None of the four properties is
inductive alone: `SurvivesTimers` needs to know where a jump leads, and that is `FrameInv`.
`TimerCountsOnAllCores` needs to know which cores were started, by this run or an earlier one
with another mask: `StartedInv` says that a counter that starts at all is started on the whole
mask before anything is validated (what is yet to do is in `todo`), and that otherwise none was
ever started. So what one core shows holds for all (`AsmIsUniform`, `CounterIsUniform`).

CPU. `CpuInv`: what was looked up is a function of the machine, so a second question gets the
first answer. Which checked call follows from the bits that were tested is then a matter of
cases: what a set bit says is true of the CPU (`TellsOf`), and a build that asks for none or whose
headers know none is left with what it takes for granted. `PrintInv`: the position passes the end of the buffer only where printing stops.
`CoresInv`: what is listed before line `n` are the first cores of their kind among the lines
before it, each at its rank (`Entries`), and what is remembered of a processor is what the
lines since the last empty one say. A rank is a cardinality, so one more line is a fact about
the cardinality of a set with one more element (`RankGrows`); that a core is listed once follows
from first cores having ranks of their own (`RanksOrdered`).

Command line. `ReadInv`: while `checkasm_main()` reads, `*config` is the `Meaning` of the line
as far as the argument it is at, that argument is an option, and nothing before it ended the
reading. What an argument is depends on the row of `-t` and `-f` before it: `Options` says so
by the length of the row, so that it needs no recursion. `OperandIsNone` shows that the
argument after `-t` or `-f` is no option and the next one is, and `MeaningNext` that one more
option changes the fields it tells of and no other. `ParsedAsWritten` is about `parseu()`: what
is not refused is the number that is written, unless it was negated modulo the width of `long`.

Random numbers. After the seeding both runs have equal generators and equal cached variates
(`TwiceInv`), and a call is a function of the two: also the draw of Marsaglia's method, however
many pairs it rejects (`SameMarsaglia`). That no byte serves twice is not inductive: what is
left in the caches was drawn long ago. `SpentInv` adds that the caches hold bytes that were
drawn and not handed out, no two of them the same (`Unspent`). Each refill and each buffer
begins behind all that was drawn (`FreshBlocks`), a number leaves its cache (`FreshNumber`), and
the pairs of Marsaglia's method follow by induction over the rejected ones (`TriesAre`).

Status line. `StatusInv` says that between two lines of output the terminal shows exactly what
the program believes, and that where plain text is written (before the first test, after a
failure until the next function, after the summary) there is no status line. The lemmas say
what each writer makes of a terminal that is between two lines, within one, or cleared.

Patterns. The matcher is a recursive function from the end of the pattern. `MeansAfter` says
what the rest of a pattern means after a given part of the string, one character of the pattern
at a time (`MeansAfterOneMore`); a stretch of characters and a row of `*` follow by induction
over their length, and `MatcherIsRight` by induction over the rest of the pattern. It never
tries the empty rest of the string after a `*`, and the proof shows why that is no loss.

Report. `ReportInv`: the calls made so far lead somewhere along the report (`Leads`), and the
writer and the reader are both there. The writer's level and bit are a function of the stack of
objects and arrays that are open (`JsonOf`), so what it forgets it does not need; `Moves` says
what a call may do to that stack, and `MovesAsWritten` that the tokens of the call make the
reader do the same and never fail. The report itself is put together like the code that writes
it: `Part` says of a piece that it adds no keys but those of `K` and finds the benchmarks `A` in every
object that has none of those keys yet, `Body` the same of a piece that finds none. Pieces
follow each other (`PartAfterPart`), stand in brackets under a key (`KeyedIsPart`), in an array
(`ArrayIsPart`) and in a loop (`EachIsPart`, by induction), and so from the values upwards to a
version, a function and the document (`VersionIsPart`, `FunctionIsPart`, `ScriptLeads`). That a
function without a benchmark leaves no key is part of it (`Named`, `NoVersions`).

Rectangles. `RectInv`: every region before this one is free of differences or was recorded and
shown, and the call ended as it should. The rest is geometry. Every watched element is in a
region (`WatchedInRegion`), every element of a region is watched or in a corner of the padding
(`RegionWatched`), and none of those is tolerated under another name: two elements closer than a
line is long, at one index, are the same one (`OneLine`, `NoneTolerated`). The pieces of a row
cover it (`PiecesCover`). The rows of a region lie between the first and the last line of either
buffer (`RegionBounds`), and a span of such rows inside of it, whatever its width (`SpanBounds`); that
of the hexdump too if it begins at row 0 or the strides are alike. Otherwise it does not,
and the theorem does not say so. Products of rows and strides are linear facts once their factors are hidden.

Floats. `FloatInv` keeps what was compared. Of floats of one sign the bits are ordered as the
values are (`SignAndMagnitude`, `PassedAre`), so their distance is how many are passed on the
way (`DistanceIs`). The lengths of arrays, the tolerances and eps are arbitrary; the format of a
float is the small one of the model.

Masks. `MaskInv`: the mask of a run and the last pixel are no greater than the mask of the
pixels. `&` is taken bit by bit (`AndIs`); by induction over the bits, what comes out of it is no
greater than the mask (`AndBound`), and a mask without gaps takes nothing from what is no greater
(`AndOfLow`). That values have no bit outside of the mask is proved for such masks only; of the
others it is not so (3 for a mask of 5).

Names. `cmp_func_names()` remembers one place, the first where two names differ, and looks at the
digits around it; that this is an order at all is the first half of `TreeProofs`. `Lt` says where
two names differ and which is before the other, with every character that is not zero and every
run of digits having an end (`EndIs`). `CmpIs`: the comparison has the sign of `Lt`, and is zero
for equal names only. `LtTransitive` looks at three names at the first place where two of them
differ: what a later difference says is already true there, of the runs of digits
(`NumbersAgree`), and a shorter run decides wherever in it the names differ (`ShorterFirst`).
`LtIsNatural`: it is the order over tokens, `NaturalLess`.

Tree. `TreeInv`: below `root` there is a red-black tree of exactly the nodes that were allocated,
and the root is black. `Sub` says that there is one, with which names and how many black nodes, as
the least relation that holds of NULL and of every node over two subtrees with its names between
theirs that is coloured as it should be (`Proper`). So an induction over trees is `SubInduction`,
a subtree only depends on its own nodes (`SubFrame`), and the recursion of the code needs no
measure. Below the root an insertion may leave a subtree that is not quite one: a red node with a
red left child (`Weak`). `Grows` is the invariant of the way up, one level at a time: what the
call on a child returned, good or weak, `tree_balance()` turns into a good or a weak one with the
same number of black nodes (`Balances`, with `Flip`, `RotateLeft`, `RotateRight` and `Unchanged`
for its branches), and a weak one only where a red node was; at the root the color is set, and
`Blackened` makes a good one of either. Nothing outside of the subtree is touched. `Get` and the
walks over the tree are limited to as many levels as there are nodes; that this is enough follows
from the numbers of names (`OverCounts`), and `GetFinds`, `WalkIs`, `HeightIs` then say by
induction over the tree what they return.

Benchmarks. That a loop never ends early is that its count of calls never becomes zero, and that
can only come from an overflow; a count just below its limit would do it (`stats.h:116`). So
`BenchInv` bounds the count and the calls by the time that passed. `GrowthInv`: the next batch
takes no longer than where doubling ends (a 1024th of the budget is a limit for that) and a 64th
of all that was measured since; and with at most 30 samples, which may exceed the budget, less
than three times that start. `CallsInv` is the same for the sum. `Sampled` says how wrong a
measurement can be: by a cycle of the timer, in assembly by half of what the rounds show and by a
round or two. The naive loop has that by arithmetic (`SimpleIs`). In assembly it takes an invariant
of the batch under way, `RoundsInv`: the rounds that were kept are all so far, but for the first if it does
not count and one more for time lost in it, and each shows at least `Low`, what a round takes. A round shows
`Low` or one cycle more (`ShownIs`), so, since `Low` is not zero, none but one with time lost is
four times the mean of those kept (`RoundIs`). `NothingOverflows` puts them together under `Fits`:
two and a half times the calls the budget is enough for fit in an int, twice because of almost
two units of time a timer may show one. TLC evaluates that all instances of
`bench` fit and see rounds, and that the one of `estimate_overflow`, where the estimate is not
possible, does not fit (`LengthsAssumption`).

Where a definition is recursive, over the characters of a pattern, the levels of a tree, the bits
of a number or the rejected pairs, it is a function `f[n] == ... f[n - 1] ...`, that is, a
`CHOOSE`, and that there is such a function is proved by induction. Induction itself is
`SetInduction`: a set of numbers that holds `n` as soon as it holds all before `n` holds them all,
since `<` is well-founded.

The proofs assume the named assumptions on the constants, which say no more than what a
configuration, an implementation, a signal and a machine are; TLC evaluates them in the runs.
Some say more than a type. `BlocksAssumption` (`Runner`) is about the tests: between a
report and the next call, comparison or benchmark there is a check, as in every example of
`test.h` (`:172-178`). A function called in the rest of a block after its group was reported
would crash with nothing to set aside, and `OneCrashAtATime` would not hold. `Arm11Assumption`
(`Startup`): a build that tries the counter of the ARM11 can start the cycle counter if it has
one, as `perf/arm.h:32` and `perf_internal.h:70` have the same condition. Otherwise a core that
an earlier run started would make a counter look alive that stands still on the others.
`FloatAbiAssumption` (`CpuFeatures`): a build whose ABI passes floats in registers has them.
`ExtensionsAssumption`: D includes F and V includes Zve32x, and a program runs only on a CPU that
has what it was built for.
`NamesAssumption` (`CpuInfo`): the tables are sequences and their names have a length.
`ArgsLines` (`Args`): a command line is a sequence of arguments, and a text has a sign and a
number in either base, or none. `LinesAssumption` and `PartsAssumption` (`CheckRect`): each of the
two buffers is part of a `BUF_RECT` of its own width that leaves room for the padding, up to 16 lines above and below
and the width of a line beside it, as `utils.h:683-690` declares it; without the first, one
index would be two elements. `RejectedAssumption` (`Rng`): Marsaglia's method rejects finitely
many pairs, within `MaxTries`; it would not return otherwise. `InputsAssumption` (`CpuInfo`):
lines have a key and a value, and a subkey a number, a register and a name.
`StringsAssumption` (`Wildcard`): strings are sequences of characters. `PoolsAssumption`
(`FuncTree`): names are not empty, as `checkasm_check_key()` returns before it asks for such a
name (`checkasm.c:944`). `ReportsAssumption` and
`LabelsAssumption` (`Report`): flags, functions and versions are sequences of records, and a
name or a suffix is not the absence of a key. `KeysDiffer` (`Report`): the functions of a report
have names of their own, as in the tree, and so do its flags and the versions of a function; a
test that checks two functions of one name for one CPU gives that up, and gets two equal keys.

`AllFit` and `AllSeen` (`BenchProofs`) are assumptions of the two theorems about
benchmarks and not of the module: `Fits` bounds the budget, and `SeesRounds` says that no counter read
in assembly is coarser than a round of 32 calls. Time is lost at most once in a batch, in as many
batches as one likes; two disturbances among the first rounds of one batch are not covered.

Only model-checked, and why:

* `Terminates` of `Runner` and `BenchStats`: liveness.
* `LimitUnreached`: it holds of the budgets a run can be given and not of every number. Below
  4096 cycles a 1024th of the budget is rounded to a few cycles; with 2047 cycles and a
  timer whose reading takes half a cycle, the limit is reached.

## Not modelled

Windows' exception handler; `pthread_setaffinity_np()` failing to put the mask back
(`checkasm.c:645`), whose result the code does not look at, or `pthread_getaffinity_np()` failing before the
visit, which then leaves at once like one whose first core fails; the choice of the seed; measured times and all that is floating
point (the scale of a timer, means, variances, the comparison of doubles by a difference);
`checkasm_check_key()` in steps smaller than one; CSV, TSV and the table for readers, which are
text without structure; the brand string of x86, the tables of vendors and parts beyond a
lookup, the lengths of vectors, LoongArch: single instructions, system calls or lookups without
a decision; the assembly of the call checkers, whose outcome is the behaviour "clobber" of the
runner; the alignment of stack buffers; the `func_variant` string (a flag of the check); the
tests and documentation, which use the framework.

## Plan

1. `checkasm_check_key()` in smaller steps, for an interrupt in the middle of it; the handler
   of Windows, which unwinds instead of jumping.
