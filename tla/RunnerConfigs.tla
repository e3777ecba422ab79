---------------------------- MODULE RunnerConfigs ----------------------------
(***************************************************************************)
(* Instances of the runner for TLC.  A configuration is built from blocks,  *)
(* each one check of a function and what the test does when it succeeds; the *)
(* families below put the blocks together in every order.                    *)
(***************************************************************************)
EXTENDS Runner, SequencesExt

(* Implementations, named for what they do: c, a and b are right, bad gives a *)
(* wrong result, seg always crashes, flaky only at times, clob breaks the     *)
(* calling convention, hang does not return.                                  *)
MCKeys == {"c", "a", "b", "bad", "seg", "flaky", "clob", "hang"}
MCBehaviour ==
    [k \in MCKeys |-> CASE k = "seg"   -> {"fault"}
                        [] k = "flaky" -> {"return", "fault"}
                        [] k = "clob"  -> {"clobber"}
                        [] k = "hang"  -> {"hang"}
                        [] OTHER       -> {"return"}]
MCValue == [k \in MCKeys |-> IF k = "bad" THEN 2 ELSE 1]

TwoFunctions == {"f", "g"}
ThreeFunctions == {"f", "g", "h"}
OneFlag == {"A"}
TwoFlags == {"A", "B"}

-----------------------------------------------------------------------------
(* Building blocks.                                                          *)

(* A getter that knows a C version and, with the flag A, an optimised one.   *)
Getter(c, a) == [fl \in SUBSET Flags |-> IF "A" \in fl THEN a ELSE c]

CheckOp(n, impl, variant) ==
    [kind |-> "check", name |-> n, impl |-> impl, variant |-> variant]
CompareOp == [kind |-> "compare", want |-> RefValue]
CompareTo(x) == [kind |-> "compare", want |-> x]
ReportOp == [kind |-> "report", label |-> "named"]
BareReportOp == [kind |-> "report", label |-> "unnamed"]
ShouldFailOp(fl) == [kind |-> "should_fail", flags |-> fl]
Plain(kind) == [kind |-> kind]

Block(n, impl) ==
    <<CheckOp(n, impl, FALSE), Plain("ref"), Plain("new"), CompareOp>>
NewOnlyBlock(n, impl) == <<CheckOp(n, impl, FALSE), Plain("new")>>
VariantBlock(n, impl) == <<CheckOp(n, impl, TRUE), Plain("new"), CompareTo(1)>>
BenchBlock(n, impl) ==
    <<CheckOp(n, impl, FALSE), Plain("new"), CompareTo(1), Plain("bench")>>

Ends == {<<>>, <<ReportOp>>}
Sequences(S, m) == { FlattenSeq(p) : p \in UNION { [1 .. n -> S] : n \in 1 .. m } }

CpuA == [flag |-> {"A"}, mask |-> {}]
CpuB == [flag |-> {"B"}, mask |-> {}]
CpuBNotA == [flag |-> {"B"}, mask |-> {"A"}]

TestOf(ops) == [enabled |-> TRUE, ops |-> ops]
Base ==
    [ tests |-> <<>>, cpu_flags |-> <<CpuA>>, cpu |-> {"A"}, functions |-> Names,
      bench |-> FALSE, repeat |-> 1, skip_tests |-> FALSE ]
OneTest(ops) == [Base EXCEPT !.tests = <<TestOf(ops)>>]
-----------------------------------------------------------------------------
(* Families of configurations.                                               *)

(* Crashes: every test of up to three blocks on two functions, with a report *)
(* after any of them, run without and with the flag A.  Functions are         *)
(* interchangeable, so the first block is always one of f.                   *)
CrashBlocks(names) ==
    { Block(n, g) \o e :
        n \in names, e \in Ends,
        g \in { Getter("c", "a"), Getter("c", "bad"), Getter("c", "seg"),
                Getter("c", "clob"), Getter(NoKey, "seg"), Getter("seg", "a") } }
CrashConfigs ==
    { OneTest(b \o p) : b \in CrashBlocks({"f"}), p \in Sequences(CrashBlocks({"f", "g"}), 2) }

(* Expected failures: the same with blocks that should fail once the flag A  *)
(* is set, and a second test whose group must not inherit any of it.         *)
ExpectParts ==
    { <<ShouldFailOp({"A"})>> } \cup
    { NewOnlyBlock(n, g) \o <<CompareTo(1)>> \o e :
        n \in {"f", "g"}, e \in Ends,
        g \in { Getter("c", "a"), Getter("c", "bad"), Getter("c", "seg"),
                Getter("bad", "a") } }
ExpectConfigs ==
    { [OneTest(p) EXCEPT !.tests = Append(@, TestOf(VariantBlock("f", Getter(NoKey, "b")))),
                         !.repeat = 2] :
        p \in Sequences(ExpectParts, 3) }

(* Interrupts: short tests with every kind of call, some expected to fail, so *)
(* that the signals can be tried between any two steps; a second test        *)
(* follows.  And the groups that tie themselves into a cycle, see below.     *)
InterruptBlocks ==
    { Block("f", Getter("c", k)) \o e : k \in {"a", "bad", "seg", "clob", "hang"}, e \in Ends }
    \cup { BenchBlock(n, Getter("c", k)) : n \in {"f", "g"}, k \in {"a", "seg", "hang"} }
    \cup { <<ShouldFailOp({"A"})>> }
InterruptConfigs ==
    { [OneTest(p) EXCEPT !.tests = Append(@, TestOf(NewOnlyBlock("g", Getter("c", "b")))),
                         !.bench = TRUE, !.repeat = 2] :
        p \in Sequences(InterruptBlocks, 2) }

(* CPU lists: both flags on or off, with and without a mask, a test that is  *)
(* left out, functions that are left out, and implementations that crash now *)
(* and then; also the listing mode.                                          *)
WideGetter(c, a, b, ab) ==
    [fl \in SUBSET Flags |->
        IF fl = {} THEN c ELSE IF fl = {"A"} THEN a ELSE IF fl = {"B"} THEN b ELSE ab]
CpuTests ==
    { Block("f", g) \o e \o NewOnlyBlock("g", h) :
        e \in Ends,
        g \in { WideGetter("c", "a", "b", "b"), WideGetter("c", "flaky", "b", "bad"),
                WideGetter("flaky", "a", "b", "seg"), WideGetter(NoKey, "a", "clob", "b") },
        h \in { WideGetter("c", "c", "flaky", "a"), WideGetter("c", "b", NoKey, "flaky") } }
CpuConfigs ==
    { [ tests |-> <<TestOf(p), [enabled |-> FALSE, ops |-> p], TestOf(VariantBlock("f", q))>>,
        cpu_flags |-> l, cpu |-> fl, functions |-> fs, bench |-> FALSE, repeat |-> r,
        skip_tests |-> skip ] :
        p \in CpuTests, q \in { WideGetter("a", "flaky", "a", "b"), WideGetter("c", NoKey, "a", "seg") },
        l \in { <<CpuA, CpuB>>, <<CpuA, CpuBNotA>>, <<CpuB, CpuBNotA, CpuA>> },
        fl \in SUBSET Flags, fs \in { Names, {"f"} }, r \in {1, 2}, skip \in BOOLEAN }

(* Report groups in which a function is checked more than once, or in another *)
(* order once the flag A is set: the chains along prev grow across groups.    *)
ChainBlocks(names) ==
    { NewOnlyBlock(n, g) : n \in names,
        g \in { Getter("c", "c"), Getter("c", "seg"), Getter(NoKey, "a"), Getter("b", NoKey) } }
CrossedGroups ==
    { NewOnlyBlock("f", Getter("c", "c")) \o NewOnlyBlock("g", Getter("c", "seg")) \o
      <<ReportOp>> \o NewOnlyBlock("f", Getter("b", NoKey)) \o
      NewOnlyBlock("h", Getter("c", "a")) \o NewOnlyBlock("f", Getter(NoKey, k)) :
        k \in {"a", "seg"} }
ChainConfigs ==
    { OneTest(b \o p \o e) :
        b \in ChainBlocks({"f"}), p \in Sequences(ChainBlocks(Names), 2), e \in Ends }
    \cup { OneTest(p \o e) : p \in CrossedGroups, e \in Ends }
GroupConfigs == CrashConfigs \cup ExpectConfigs \cup ChainConfigs
SignalConfigs == InterruptConfigs \cup { OneTest(p) : p \in CrossedGroups }

-----------------------------------------------------------------------------
(* The smallest configurations that show a claim the code does not keep.     *)

(* A calling convention broken by the last function of the last test.        *)
AbortConfigs == { OneTest(NewOnlyBlock("f", Getter("c", "clob")) \o <<ReportOp>>) }

(* A function that should fail does so in the middle of its benchmark; the   *)
(* next one is benchmarked, too.                                             *)
StaleSampleConfigs ==
    { [ OneTest(<<ShouldFailOp({"A"})>> \o BenchBlock("f", Getter(NoKey, "flaky")) \o <<ReportOp>>
                \o <<ShouldFailOp({})>> \o BenchBlock("g", Getter(NoKey, "a")) \o <<ReportOp>>)
        EXCEPT !.bench = TRUE ] }

(* One function more than once in a group: first again after the group of its *)
(* chain was reported.                                                       *)
EndlessConfigs == { OneTest(p) : p \in CrossedGroups }
=============================================================================
