----------------------------- MODULE BenchStats -----------------------------
(***************************************************************************)
(* How often a benchmark calls the function it measures: the loops of        *)
(* checkasm_bench() and checkasm_measure_nop_cycles() around the growth of   *)
(* the batch in stats.h.  A batch is so many calls between two readings of   *)
(* the timer, or rounds of 32 calls with readings in assembly around each;    *)
(* the loops end when their budget of cycles is spent.                       *)
(*                                                                         *)
(* The estimate itself is floating point and left out.                       *)
(***************************************************************************)
EXTENDS Integers

CONSTANTS
    MaxInt,     \* the greatest int, one less than a power of two
    Loops,      \* the measurements, see LoopsAssumption
    Spike       \* what the process may lose to others, once in a batch

(* fixed and call are what two readings of the timer and each call between    *)
(* them take, in some fine unit; the timer counts resolution of them as one   *)
(* cycle.  asm is the use of inline assembly to read it.  spikes bounds how   *)
(* often the process loses time to others.                                   *)
ASSUME LoopsAssumption ==
    \A b \in Loops :
        /\ b.kind \in {"bench", "nop"} /\ b.asm \in BOOLEAN
        /\ b.target \in Nat \ {0} /\ b.resolution \in Nat \ {0}
        /\ b.fixed \in Nat /\ b.call \in Nat \ {0} /\ b.spikes \in Nat
ASSUME IntAssumption == MaxInt \in Nat
ASSUME SpikeAssumption == Spike \in Nat

VARIABLES
    loop,        \* the measurement that runs
    stats,       \* CheckasmStats: the samples as their number and their calls
    cycles,      \* current.cycles, or total_cycles of the other loop
    batch,       \* the rounds of the batch under way: titer, tcount_trim, tsum_trim
    interrupted, \* checkasm_interrupted
    spikes,
    finished

vars == <<loop, stats, cycles, batch, interrupted, spikes, finished>>

CHECKASM_STATS_SAMPLES == 256
MinSamples == 30
SlowLimit  == (MaxInt + 1) \div 64    \* 1 << 25

(* What the arithmetic of an int gives when it overflows.                    *)
AsInt(n) == ((n + MaxInt + 1) % (2 * (MaxInt + 1))) - MaxInt - 1

NoBatch == [on |-> FALSE, todo |-> 0, kept |-> 0, sum |-> 0, delayed |-> FALSE]
Reset(first) == [nb_samples |-> 0, calls |-> 0, next_count |-> first]

Init ==
    /\ loop \in Loops
    /\ stats = Reset(IF loop.kind = "nop" THEN 128 ELSE 1)
    /\ cycles = 0 /\ interrupted = FALSE /\ spikes = 0 /\ finished = FALSE
    /\ batch = NoBatch

-----------------------------------------------------------------------------
StatsAdd(s, sample) ==
    IF sample.sum > 0 /\ sample.count > 0
    THEN [s EXCEPT !.nb_samples = @ + 1, !.calls = @ + sample.count]
    ELSE s

(* checkasm_stats_count_grow(): twice the calls for a batch below a 1024th of *)
(* the budget, else a 64th more, rounded up.                                 *)
GrowOnly64th(s, sum, target) ==  \* faulty: never twice, and rounded down
    [s EXCEPT !.next_count = AsInt(65 * @) \div 64]
GrowTooFast(s, sum, target) ==  \* faulty: twice until a batch spends the budget
    IF sum < target
    THEN [s EXCEPT !.next_count = AsInt(2 * @)]
    ELSE IF s.next_count < SlowLimit
    THEN [s EXCEPT !.next_count = AsInt(65 * @ + 63) \div 64]
    ELSE s
CountGrow(s, sum, target) ==
    IF sum < target \div 1024
    THEN [s EXCEPT !.next_count = AsInt(2 * @)]
    ELSE IF s.next_count < SlowLimit
    THEN [s EXCEPT !.next_count = AsInt(65 * @ + 63) \div 64]
    ELSE s

(* checkasm_bench_runs(), the number of calls of the next batch.             *)
BenchRuns ==
    IF /\ ~ interrupted /\ stats.nb_samples # CHECKASM_STATS_SAMPLES
       /\ cycles < loop.target \/ stats.nb_samples < MinSamples
    THEN stats.next_count ELSE 0

Continues ==
    /\ ~ finished
    /\ IF loop.kind = "bench" THEN BenchRuns # 0
       ELSE cycles < loop.target /\ stats.nb_samples # CHECKASM_STATS_SAMPLES

-----------------------------------------------------------------------------
(* What the timer may show of some elapsed time, whole units of its own: they *)
(* begin where they will, one reading's after another's.                     *)
Shown(elapsed) ==
    {elapsed \div loop.resolution, (elapsed + loop.resolution - 1) \div loop.resolution}
Elapsed(calls) == loop.fixed + (IF calls > 0 THEN calls ELSE 0) * loop.call

(* The process loses no time to others, or a spike.                          *)
Delays == IF spikes < loop.spikes THEN {0, Spike} ELSE {0}
Lost(delay) == spikes' = IF delay > 0 THEN spikes + 1 ELSE spikes

(* checkasm_bench_update()                                                   *)
Update(sample) ==
    /\ stats' = CountGrow(StatsAdd(stats, sample), sample.sum, loop.target)
    /\ cycles' = cycles + sample.sum
    /\ UNCHANGED <<loop, interrupted, finished>>

(* CHECKASM_PERF_BENCH chooses between the naive loop, which reads the timer   *)
(* before all calls and after them, and assembly, which times 32 at a time.   *)
InAssembly == loop.asm /\ stats.next_count >= 128
Rounds == (stats.next_count + 31) \div 32

Begin ==
    /\ Continues /\ ~ batch.on
    /\ batch' = [NoBatch EXCEPT !.on = TRUE, !.todo = IF InAssembly THEN Rounds ELSE 0]
    /\ UNCHANGED <<loop, stats, cycles, interrupted, spikes, finished>>

EndSimple ==
    /\ batch.on /\ ~ InAssembly
    /\ \E delay \in Delays : \E t \in Shown(Elapsed(stats.next_count) + delay) :
           Lost(delay) /\ Update([sum |-> t, count |-> stats.next_count])
    /\ batch' = NoBatch

(* Of 1000 calls and more the first 32 do not count, nor do any that took     *)
(* more than four times as long as those that did.                           *)
Warm == batch.todo < Rounds \/ stats.next_count < 1000
KeepsButFirst(t) ==  \* faulty: the round itself is among those it is compared with
    t * (batch.kept + 1) <= batch.sum * 4 /\ Warm
Keeps(t) == t * batch.kept <= batch.sum * 4 /\ Warm

Round ==
    /\ batch.on /\ batch.todo > 0
    /\ \E delay \in IF batch.delayed THEN {0} ELSE Delays :
         \E t \in Shown(Elapsed(32) + delay) :
           /\ Lost(delay)
           /\ batch' = [ on |-> TRUE, todo |-> batch.todo - 1,
                         kept |-> IF Keeps(t) THEN batch.kept + 1 ELSE batch.kept,
                         sum |-> IF Keeps(t) THEN batch.sum + t ELSE batch.sum,
                         delayed |-> batch.delayed \/ delay > 0 ]
    /\ UNCHANGED <<loop, stats, cycles, interrupted, finished>>

EndAsm ==
    /\ batch.on /\ InAssembly /\ batch.todo = 0
    /\ Update([sum |-> batch.sum, count |-> 32 * batch.kept])
    /\ batch' = NoBatch
    /\ UNCHANGED spikes

(* checkasm_bench_finish(), or the end of checkasm_measure_nop_cycles().     *)
Finish ==
    /\ ~ Continues /\ ~ batch.on /\ ~ finished
    /\ finished' = TRUE /\ stats' = Reset(1) /\ cycles' = 0
    /\ UNCHANGED <<loop, interrupted, spikes, batch>>

(* SIGINT.  Once the loop of checkasm_bench() has armed the handler, SIGINT   *)
(* leaves it by a jump, which is Runner's; the other loop is not armed.       *)
Interrupt ==
    /\ ~ finished /\ ~ interrupted /\ interrupted' = TRUE
    /\ loop.kind = "bench" => stats = Reset(1) /\ ~ batch.on
    /\ UNCHANGED <<loop, stats, cycles, spikes, finished, batch>>

Finished == finished /\ UNCHANGED vars

Step == Begin \/ EndSimple \/ Round \/ EndAsm \/ Finish
Next == Step \/ Interrupt \/ Finished

(* A loop runs on one thread and nothing in it waits.                        *)
Spec == Init /\ [][Next]_vars /\ WF_vars(Step)

-----------------------------------------------------------------------------
(* "The --duration parameter controls how long (in microseconds) each         *)
(* function is benchmarked" (docs/benchmarking.md:61), and 30 samples are     *)
(* gathered even beyond it: a loop that nobody interrupts has spent its       *)
(* budget, unless there is no room for another sample.  Not so with a counter  *)
(* read in assembly that is coarser than a round (not SeesRounds): all rounds  *)
(* that show a cycle may be outliers (test.h:596), and the batch shows none.  *)
BudgetIsSpent ==
    [][ Finish =>
            \/ interrupted /\ loop.kind = "bench"
            \/ stats.nb_samples = CHECKASM_STATS_SAMPLES
            \/ /\ cycles >= loop.target
               /\ loop.kind = "bench" => stats.nb_samples >= MinSamples ]_vars

(* "This limit should be impossible to hit in practice" (checkasm.c:476):     *)
(* the budget is spent before there are 256 samples, because batches grow     *)
(* as fast as they do.                                                       *)
LimitUnreached == stats.nb_samples < CHECKASM_STATS_SAMPLES

(* checkasm_stats_estimate(), asked for if any time passed, adds up the calls *)
(* of all samples in an int and asserts that there are some (stats.c:119);    *)
(* "256 samples can effectively represent many billions of data points"      *)
(* (stats.h:87).                                                            *)
EstimateIsPossible ==
    [][ Finish /\ cycles > 0 => stats.calls \in 1 .. MaxInt ]_vars

(* Twice the calls the budget is enough for, and half of them more, fit in an *)
(* int: of almost two units a timer may show one.                            *)
Fits(b) ==
    5 * (b.target * b.resolution) + 800 * b.resolution <= 2 * (b.call * (MaxInt - 45000))

(* No round of 32 calls is shorter than a unit of the timer: a round that      *)
(* shows none makes outliers of all that show some (test.h:596).             *)
SeesRounds(b) == b.asm => b.resolution <= b.fixed + 32 * b.call

(* Every measurement ends, even with a timer that does not see short batches, *)
(* or a budget below its resolution.                                         *)
Terminates == <> finished

=============================================================================
