------------------------------ MODULE MCReport ------------------------------
(***************************************************************************)
(* What is said about the functions, for TLC: the tree that keeps them, the   *)
(* patterns that select them, the buffers they are called with and how those  *)
(* are compared, the report of their benchmarks, and the status line above     *)
(* which it is written, one of them per behaviour.  The trees hold all pairs   *)
(* of short names over an alphabet with digits and characters before and      *)
(* after them, and names in number enough to rebalance on several levels.     *)
(***************************************************************************)
EXTENDS FuncTree, Report, StatusLine, Wildcard, CheckRect, FloatNear, InitMask

VARIABLE part

Alphabet == {45, 48, 49, 97}  \* "-", "0", "1", "a"
ShortNames == UNION { [1 .. n -> Alphabet] : n \in 1 .. 3 }
PairsOfNames == { {s, t} : s, t \in ShortNames }

Numbered(n) == <<97>> \o (IF n < 10 THEN <<48 + n>> ELSE <<49, 38 + n>>) \o <<95, 99>>
ManyNames == { Numbered(n) : n \in 7 .. 14 } \* a7_c to a14_c

MCPools == PairsOfNames \cup {ManyNames}

-----------------------------------------------------------------------------
MCVersion(s, n) == [suffix |-> s, measured |-> n > 0, samples |-> n - 1]
MCFunction(name, ns, reported) ==
    [ name |-> name, reported |-> reported,
      versions |-> [i \in DOMAIN ns |-> MCVersion(<<"c", "sse2", "avx2">>[i], ns[i])] ]
NoneAreMeasured == MCFunction("copy", <<0, 0>>, TRUE)
FunctionLists ==
    { << >>, << NoneAreMeasured >> }
    \cup { << NoneAreMeasured, MCFunction("add", <<a, b>>, a = b) >> : a, b \in 0 .. 3 }
    \cup { << MCFunction("add", <<1>>, TRUE), MCFunction("mul", <<a, 1, b>>, FALSE) >> : a, b \in 0 .. 1 }
Configurations ==
    { [ test_pattern |-> b, function_pattern |-> b <=> n = 1, affinity |-> ~ b, infos |-> 2 - n,
        tests |-> n, nop_samples |-> n, scale_samples |-> IF b THEN 0 ELSE 1,
        flags |-> SubSeq(<< [suffix |-> "sse2", mask |-> FALSE, masks |-> 0],
                            [suffix |-> "avx2", mask |-> TRUE, masks |-> IF b THEN 2 ELSE 0] >>, 1, n) ] :
      b \in BOOLEAN, n \in 0 .. 2 }
MCLabels == {"copy", "add", "mul", "c", "sse2", "avx2"}
MCReports ==
    { [ functions |-> l, test_pattern |-> c.test_pattern, function_pattern |-> c.function_pattern,
        affinity |-> c.affinity, infos |-> c.infos, tests |-> c.tests,
        nop_samples |-> c.nop_samples, scale_samples |-> c.scale_samples, flags |-> c.flags ] :
      l \in FunctionLists, c \in Configurations }

-----------------------------------------------------------------------------
MCSymbols == {"a", "b", "*"}
MCStrings == UNION { [1 .. n -> {"a", "b"}] : n \in 0 .. 4 }
MCPatterns == UNION { [1 .. n -> MCSymbols] : n \in 0 .. 4 }
MCReported == {"name", "other"}

-----------------------------------------------------------------------------
(* Rectangles of one line and more, whole buffers and parts of them; without   *)
(* and with alignment; one line without a stride; two unlike strides; and     *)
(* terminals from too narrow for one element to wide enough for a row.        *)
MCRects ==
    { InRect(3, 2, w, h, 1, 1, 8, 7) : w \in {1, 3}, h \in {1, 2} }
    \cup { InRect(20, 2, 17, 2, 16, a, 8, 21) : a \in {0, 1, 8} }
    \cup { [InRect(20, 1, 20, 1, a, 0, p, 7) EXCEPT !.stride1 = 0, !.stride2 = 0] : a \in {1, 16}, p \in {8, 16} }
    \cup { [InRect(20, 2, 20, 2, 1, 1, 8, 7) EXCEPT !.buf_w1 = 200, !.stride1 = RectStride(200)], InRect(4, 2, 4, 2, 0, 0, 0, 17) }
(* What an implementation may write wrongly: an element of the regions or around   *)
(* them, and some of three: in the rectangle, below, and above it.           *)
Places(c) ==
    LET ys == {- c.padding - 1, - c.padding, -1, 0, c.h - 1, c.h, Round(c.h, c.align_h),
               Round(c.h, c.align_h) + c.padding - 1}
        xs == {- c.padding, -1, 0, c.w - 1, c.w, Round(c.w, c.align_w),
               c.w + c.padding, Round(c.w, c.align_w) + c.padding - 1}
    IN  { y * c.stride2 + x : y \in ys, x \in xs }

Companions(c) == {(c.h - 1) * c.stride2 + c.w - 1, Round(c.h, c.align_h) * c.stride2, - c.stride2 - 1}
MCOverwrites == [c \in MCRects |-> { {i} \cup d : i \in Places(c), d \in SUBSET Companions(c) }]
MCOutputs ==
    { [term |-> t, verbose |-> TRUE] : t \in {12, 60, 80} } \cup { [term |-> 80, verbose |-> FALSE] }

MCUlps == {0, 1, 3}
MCEpsilons == {0, 5}

-----------------------------------------------------------------------------
bufferVars == <<rectVars, near, maskVars>>

MCInit ==
    /\ part \in {"tree", "report", "status line", "patterns", "rect", "floats", "mask"}
    /\ Init /\ (part # "tree" => pool = ManyNames)
    /\ StatusInit /\ (part # "status line" => ~ use_color /\ ~ out_color /\ ~ verbose)
    /\ ReportInit /\ WildInit /\ RectInit /\ FloatInit
    /\ MaskInit /\ (part # "mask" => init_mask = [width |-> 0, mask_pixel |-> 0])

TreeStep == part = "tree" /\ Next /\ UNCHANGED <<part, reportVars, statusVars, match, bufferVars>>
ReportStep == part = "report" /\ ReportNext /\ UNCHANGED <<part, vars, statusVars, match, bufferVars>>
StatusStep == part = "status line" /\ StatusNext /\ UNCHANGED <<part, vars, reportVars, match, bufferVars>>
WildStep == part = "patterns" /\ WildNext /\ UNCHANGED <<part, vars, reportVars, statusVars, bufferVars>>
BufferStep ==
    /\ \/ part = "rect" /\ RectNext /\ UNCHANGED <<near, maskVars>>
       \/ part = "floats" /\ FloatNext /\ UNCHANGED <<rectVars, maskVars>>
       \/ part = "mask" /\ MaskNext /\ UNCHANGED <<rectVars, near>>
    /\ UNCHANGED <<part, vars, reportVars, statusVars, match>>
Finished ==
    /\ \/ part = "report" /\ ReportDone
       \/ part = "status line" /\ StatusDone
       \/ part = "patterns" /\ Compared
       \/ part = "rect" /\ RectDone
       \/ part = "floats" /\ FloatsCompared
       \/ part = "mask" /\ MaskDone
    /\ UNCHANGED <<part, vars, reportVars, statusVars, match, bufferVars>>

MCNext == TreeStep \/ ReportStep \/ StatusStep \/ WildStep \/ BufferStep \/ Finished
MCSpec == MCInit /\ [][MCNext]_<<part, vars, reportVars, statusVars, match, bufferVars>>
=============================================================================
