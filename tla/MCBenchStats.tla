---------------------------- MODULE MCBenchStats ----------------------------
(***************************************************************************)
(* Benchmarks for TLC, with an int of 20 bits: batches stop to grow at 8192   *)
(* calls instead of 2^25, and the calls of a benchmark are as much smaller.  *)
(***************************************************************************)
EXTENDS BenchStats

(* A reading of the timer takes no more than a quarter of a 1024th of the     *)
(* budget, 250 ns with the default duration.                                 *)
LoopOf(kind, target, call, resolution, asm, lost) ==
    [ kind |-> kind, target |-> target, fixed |-> target \div 4096, call |-> call,
      resolution |-> resolution, asm |-> asm, spikes |-> lost ]
Kinds == {"bench", "nop"}

(* Budgets from less than a call to the most an int can count, and timers     *)
(* from one that sees every call to one that sees nothing but many.          *)
Naive ==
    { LoopOf(k, target, call, 1, FALSE, 2) : k \in Kinds, target \in {20, 5000, 190000}, call \in {1, 40} }
    \cup { LoopOf(k, target, 40, 500, FALSE, 0) : k \in Kinds, target \in {20, 5000} }
    \cup { LoopOf(k, 20, 1, 10, FALSE, 0) : k \in Kinds }

(* In assembly: a few rounds or hundreds in a batch, with a counter that sees *)
(* each cycle and with one whose unit is more than half of a round.          *)
Assembly ==
    { LoopOf(k, 10000, 1, 1, TRUE, 2) : k \in Kinds }
    \cup { LoopOf(k, 190000, call, 1, TRUE, 1) : k \in Kinds, call \in {1, 40} }
    \cup { LoopOf("nop", 250, 1, 20, TRUE, 0) }
NaiveAndAssembly == Naive \cup Assembly

(* A budget of a million calls is to an int of 20 bits what four billion are  *)
(* to one of 32: one to two seconds for a function of one cycle.             *)
Long == { LoopOf("bench", 1000000, 1, 1, FALSE, 0) }

(* Benchmarks as short and counters as fine as the proofs assume, and one that *)
(* is too long.                                                              *)
ASSUME LengthsAssumption ==
    \/ Loops = NaiveAndAssembly /\ \A b \in Loops : Fits(b) /\ SeesRounds(b)
    \/ Loops = Long /\ \A b \in Loops : ~ Fits(b) /\ SeesRounds(b)
=============================================================================
