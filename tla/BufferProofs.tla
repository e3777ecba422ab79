---------------------------- MODULE BufferProofs ----------------------------
(***************************************************************************)
(* What holds of the comparison of buffers: of rectangles for all sizes,     *)
(* paddings and alignments and whatever they differ in, and of floats for    *)
(* all lengths, tolerances and pairs; and of what buffers are filled with,   *)
(* for all masks.                                                            *)
(***************************************************************************)
EXTENDS CheckRect, FloatNear, InitMask, FiniteSetTheorems, WellFoundedInduction, TLAPS

-----------------------------------------------------------------------------
(* Rectangles.                                                               *)
(* What is known of a call.                                                  *)
Called(c) ==
    /\ c.w \in Nat /\ c.h \in Nat /\ c.align_w \in Nat /\ c.align_h \in Nat /\ c.padding \in Nat
    /\ c.buf_w1 \in Nat /\ c.buf_w2 \in Nat /\ c.buf_h \in Nat /\ c.elem_size \in Nat \ {0}
    /\ c.stride1 \in Int /\ c.stride2 \in Int
    /\ c.term \in Int /\ c.verbose \in BOOLEAN /\ c.differ \subseteq Int
    /\ c.align_h > 0 =>
           c.stride2 > c.w + 2 * c.padding /\ c.stride2 > Round(c.w, c.align_w) + 2 * c.padding
    /\ c.stride1 \in {0, RectStride(c.buf_w1)} /\ c.stride2 \in {0, RectStride(c.buf_w2)}
    /\ \A w \in {c.buf_w1, c.buf_w2} :
           /\ c.w + c.padding <= RectStride(w)
           /\ Round(c.w, c.align_w) + c.padding <= RectStride(w)
    /\ c.padding <= 16 /\ c.h <= c.buf_h
    /\ Round(c.h, c.align_h) + c.padding <= c.buf_h + 16

(* What / and % of C are for numbers that are not negative.                  *)
LEMMA Quotient ==
  ASSUME NEW n \in Nat, NEW d \in Nat \ {0}
  PROVE  /\ n \div d \in Nat /\ n % d \in Nat /\ n % d < d
         /\ n = (n \div d) * d + (n % d)
OBVIOUS

(* An alignment rounds up.                                                   *)
LEMMA RoundsUp ==
  ASSUME NEW x \in Nat, NEW a \in Nat
  PROVE  Round(x, a) \in Nat /\ (a > 0 => x <= Round(x, a))
<1>1. CASE a = 0
  BY <1>1 DEF Round
<1>2. CASE a > 0
  <2> DEFINE n == x + a - 1
             q == n \div a
  <2>1. n \in Nat
    BY <1>2
  <2>2. q \in Nat /\ n % a \in Nat /\ n % a < a /\ n = q * a + (n % a)
    BY <1>2, <2>1, Quotient
  <2> DEFINE p == q * a
  <2>3. p \in Nat
    BY <2>2
  <2>4. n = p + (n % a)
    BY <2>2
  <2> HIDE DEF p
  <2>5. x <= p
    BY <1>2, <2>2, <2>3, <2>4
  <2> QED
    BY <1>2, <2>3, <2>5 DEF Round, p
<1> QED
  BY <1>1, <1>2

(* Min takes the least element of a set of integers that is bounded below.   *)
LEMMA LeastElement ==
  ASSUME NEW S, NEW m \in Int, S \subseteq Int, \A i \in S : m <= i, S # {}
  PROVE  Min(S) \in S /\ \A i \in S : Min(S) <= i
<1> DEFINE T == { i - m : i \in S }
<1>0. T \subseteq Nat /\ T # {}
  <2>1. \A i \in S : i \in Int /\ m <= i
    OBVIOUS
  <2>2. \A i \in S : i - m \in Nat
    BY <2>1
  <2> QED
    BY <2>2
<1>1. IsWellFoundedOn(OpToRel(<, Nat), Nat)
  BY NatLessThanWellFounded
<1>2. PICK t \in T : \A u \in T : ~ (<<u, t>> \in OpToRel(<, Nat))
  BY <1>0, <1>1, WFMin
<1>3. PICK i \in S : t = i - m
  OBVIOUS
<1>4. \A j \in S : i <= j
  <2> TAKE j \in S
  <2>1. j - m \in Nat /\ t \in Nat /\ ~ (j - m < t)
    BY <1>0, <1>2 DEF OpToRel
  <2> QED
    BY <1>3, <2>1
<1> HIDE DEF T
<1> QED
  BY <1>4 DEF Min

(* The regions.                                                              *)
LEMMA RegionsOf ==
  ASSUME NEW c, c.align_h \in Nat
  PROVE  /\ Len(Regions(c)) = IF c.align_h > 0 THEN 5 ELSE 3
         /\ c.align_h > 0 =>
                /\ Regions(c)[1] = Inner(c) /\ Regions(c)[2] = Above(c) /\ Regions(c)[3] = Below(c)
                /\ Regions(c)[4] = Left(c) /\ Regions(c)[5] = Right(c)
         /\ c.align_h = 0 =>
                Regions(c)[1] = Inner(c) /\ Regions(c)[2] = Left(c) /\ Regions(c)[3] = Right(c)
<1>1. CASE c.align_h > 0
  <2>1. Regions(c) = << Inner(c), Above(c), Below(c), Left(c), Right(c) >>
    BY <1>1 DEF Regions
  <2> QED
    BY <1>1, <2>1
<1>2. CASE c.align_h = 0
  <2>1. Regions(c) = << Inner(c), Left(c), Right(c) >>
    BY <1>2 DEF Regions
  <2> QED
    BY <1>2, <2>1
<1> QED
  BY <1>1, <1>2

(* So each of the regions is one of five.                                    *)
LEMMA RegionIsOne ==
  ASSUME NEW c, c.align_h \in Nat, NEW k \in 1 .. Len(Regions(c))
  PROVE  \/ Regions(c)[k] \in {Inner(c), Left(c), Right(c)}
         \/ c.align_h > 0 /\ Regions(c)[k] \in {Above(c), Below(c)}
<1>1. CASE c.align_h > 0
  <2>1. k = 1 \/ k = 2 \/ k = 3 \/ k = 4 \/ k = 5
    <3>1. Len(Regions(c)) = 5
      BY <1>1, RegionsOf
    <3> QED
      BY <3>1
  <2>2. /\ Regions(c)[1] = Inner(c) /\ Regions(c)[2] = Above(c) /\ Regions(c)[3] = Below(c)
        /\ Regions(c)[4] = Left(c) /\ Regions(c)[5] = Right(c)
    BY <1>1, RegionsOf
  <2> QED
    BY <1>1, <2>1, <2>2
<1>2. CASE c.align_h = 0
  <2>1. k = 1 \/ k = 2 \/ k = 3
    <3>1. Len(Regions(c)) = 3
      BY <1>2, RegionsOf
    <3> QED
      BY <3>1
  <2>2. Regions(c)[1] = Inner(c) /\ Regions(c)[2] = Left(c) /\ Regions(c)[3] = Right(c)
    BY <1>2, RegionsOf
  <2> QED
    BY <2>1, <2>2
<1> QED
  BY <1>1, <1>2

(* A region has rows and columns, or none.                                    *)
LEMMA RegionShape ==
  ASSUME NEW c, Called(c), NEW k \in 1 .. Len(Regions(c))
  PROVE  LET r == Regions(c)[k]
         IN  /\ r.ystart \in Int /\ r.yend \in Int /\ r.xstart \in Int /\ r.xend \in Int
             /\ r.ystart <= r.yend /\ r.xstart <= r.xend
<1> DEFINE aw == Round(c.w, c.align_w)
           ah == Round(c.h, c.align_h)
           Shape(r) == /\ r.ystart \in Int /\ r.yend \in Int /\ r.xstart \in Int /\ r.xend \in Int
                       /\ r.ystart <= r.yend /\ r.xstart <= r.xend
<1>1. aw \in Nat /\ ah \in Nat
  BY RoundsUp DEF Called
<1>2. c.w \in Nat /\ c.h \in Nat /\ c.padding \in Nat /\ c.align_h \in Nat
  BY DEF Called
<1>3. Shape(Inner(c)) /\ Shape(Above(c)) /\ Shape(Left(c))
  BY <1>2 DEF Inner, Above, Left, Region
<1>4. Shape(Below(c)) /\ Shape(Right(c))
  BY <1>1, <1>2 DEF Below, Right, Region
<1>5. Regions(c)[k] \in {Inner(c), Above(c), Below(c), Left(c), Right(c)}
  BY <1>2, RegionIsOne
<1> QED
  BY <1>3, <1>4, <1>5

Yprint(c, r) == LET y == Min(DifferingRows(c, r)) IN IF y < 0 THEN y ELSE r.ystart
Differs(k) == DifferingRows(check, Regions(check)[k]) # {}
Shown(r) == DisplayElems(check, r) > 0 /\ Marked(check, r, Yprint(check, r)) \subseteq marked
WasRead(i) ==
    \E k \in 1 .. Len(Regions(check)) :
        LET r == Regions(check)[k]
        IN  /\ r.ystart < r.yend /\ r.xstart < r.xend
            /\ \E buf \in {1, 2}, dump \in BOOLEAN,
                  from \in r.ystart .. r.yend - 1, to \in r.ystart .. r.yend - 1 :
                   from <= to /\ i = Span(check, r, buf, dump, from, to)

(* Every region before this one is free of differences or was reported and     *)
(* shown, and a call that came to an end came to the one it should.           *)
RectInv ==
    /\ turn \in Nat /\ err \in BOOLEAN
    /\ turn = 0 => result = "none" /\ ~ err /\ read = {}
    /\ turn > 0 =>
           /\ Called(check) /\ turn <= Len(Regions(check)) + 1
           /\ \A k \in 1 .. turn - 1 : Differs(k) => err /\ Shown(Regions(check)[k])
           /\ err \/ result = "differs" => \E k \in 1 .. Len(Regions(check)) : Differs(k)
           /\ result = "same" => turn = Len(Regions(check)) + 1 /\ ~ err
           /\ result = "differs" /\ check.verbose => turn = Len(Regions(check)) + 1
           /\ \A i \in read : WasRead(i)

(* Whatever the test compares, it is a part of a BUF_RECT.                   *)
LEMMA CallIsCalled ==
  ASSUME NEW c \in Rects, NEW o \in Outputs, NEW differ \in Overwrites[c],
         NEW call,
         call = [ w |-> c.w, h |-> c.h, align_w |-> c.align_w, align_h |-> c.align_h,
                  padding |-> c.padding,
                  buf_w1 |-> c.buf_w1, buf_w2 |-> c.buf_w2, buf_h |-> c.buf_h,
                  stride1 |-> c.stride1, stride2 |-> c.stride2,
                  elem_size |-> c.elem_size, term |-> o.term, verbose |-> o.verbose,
                  differ |-> differ ]
  PROVE  Called(call)
<1>1. c \in Rect /\ o.term \in Int /\ o.verbose \in BOOLEAN /\ differ \subseteq Int
  BY RectsAssumption
<1>2. /\ c.w \in Nat /\ c.h \in Nat /\ c.align_w \in Nat /\ c.align_h \in Nat /\ c.padding \in Nat
      /\ c.buf_w1 \in Nat /\ c.buf_w2 \in Nat /\ c.buf_h \in Nat /\ c.elem_size \in Nat \ {0}
      /\ c.stride1 \in Int /\ c.stride2 \in Int
  BY <1>1 DEF Rect
<1>3. c.align_h > 0 =>
          c.stride2 > c.w + 2 * c.padding /\ c.stride2 > Round(c.w, c.align_w) + 2 * c.padding
  BY LinesAssumption
<1>4. /\ c.stride1 \in {0, RectStride(c.buf_w1)} /\ c.stride2 \in {0, RectStride(c.buf_w2)}
      /\ \A w \in {c.buf_w1, c.buf_w2} :
             /\ c.w + c.padding <= RectStride(w)
             /\ Round(c.w, c.align_w) + c.padding <= RectStride(w)
      /\ c.padding <= 16 /\ c.h <= c.buf_h
      /\ Round(c.h, c.align_h) + c.padding <= c.buf_h + 16
  BY PartsAssumption
<1> QED
  BY <1>1, <1>2, <1>3, <1>4 DEF Called

(* A piece of a row is no longer than the row.                               *)
LEMMA DisplayWidth ==
  ASSUME NEW c, Called(c), NEW r, r.xstart \in Int, r.xend \in Int
  PROVE  DisplayElems(c, r) \in Int /\ DisplayElems(c, r) <= r.xend - r.xstart
<1> DEFINE a == (c.term - 11) \div c.elem_size
           b == r.xend - r.xstart
<1>1. a \in Int
  <2>1. c.term - 11 \in Int /\ c.elem_size \in Nat \ {0}
    BY DEF Called
  <2> QED
    BY <2>1
<1>2. b \in Int
  OBVIOUS
<1> HIDE DEF a, b
<1>3. Min({a, b}) \in {a, b} /\ Min({a, b}) <= b
  <2> DEFINE m == IF a <= b THEN a ELSE b
  <2>1. m \in {a, b} /\ m \in Int /\ \A i \in {a, b} : m <= i
    BY <1>1, <1>2
  <2> HIDE DEF m
  <2> QED
    BY <1>1, <1>2, <2>1, LeastElement
<1> QED
  BY <1>1, <1>2, <1>3 DEF DisplayElems, a, b

(* One region: with no difference there the call goes on as it was; with     *)
(* one it fails at once, or shows it and goes on (utils.c:780-797).          *)
LEMMA CheckRegionInv == RectInv /\ CheckRegion => RectInv'
<1> SUFFICES ASSUME RectInv, CheckRegion PROVE RectInv'
  OBVIOUS
<1> DEFINE n == Len(Regions(check))
           r == Regions(check)[turn]
           rows == DifferingRows(check, r)
           y == Min(rows)
<1>1. /\ turn \in Nat /\ turn > 0 /\ result = "none" /\ turn <= n /\ check' = check
      /\ Called(check) /\ err \in BOOLEAN
  BY DEF CheckRegion, RectInv
<1>2. n \in Nat
  BY <1>1, RegionsOf DEF Called
<1>3. /\ r.ystart \in Int /\ r.yend \in Int /\ r.xstart \in Int /\ r.xend \in Int
      /\ r.ystart <= r.yend /\ r.xstart <= r.xend
  BY <1>1, <1>2, RegionShape
<1>4. rows # {} => y \in r.ystart .. r.yend - 1
  <2>1. rows \subseteq r.ystart .. r.yend - 1
    BY DEF DifferingRows
  <2> QED
    BY <1>3, <2>1, LeastElement
<1>5. \A i \in read' : WasRead(i)
  <2>1. \A i \in read : WasRead(i)
    BY <1>1 DEF RectInv
  <2> DEFINE none == r.ystart = r.yend \/ r.xstart = r.xend
             last == IF rows = {} THEN r.yend - 1 ELSE y
             yprint == IF y < 0 THEN y ELSE r.ystart
  <2>2. /\ read' \subseteq read \cup (IF none THEN {} ELSE SpansCompared(check, r, last))
                                 \cup (IF rows = {} THEN {} ELSE SpansDumped(check, r, yprint))
    BY DEF CheckRegion
  <2>3. rows # {} => ~ none
    <3>1. rows \subseteq r.ystart .. r.yend - 1 /\ rows \subseteq { j \in Int : RowDiffers(check, r, j) }
      BY <1>3 DEF DifferingRows
    <3>2. Columns(r) = {} => rows = {}
      BY <3>1 DEF RowDiffers
    <3>3. r.xstart = r.xend => Columns(r) = {}
      BY <1>3 DEF Columns
    <3>4. r.ystart = r.yend => rows = {}
      BY <1>3, <3>1
    <3> QED
      BY <3>2, <3>3, <3>4
  <2>4. ASSUME ~ none, NEW buf \in {1, 2}, NEW dump \in BOOLEAN,
               NEW from \in r.ystart .. r.yend - 1, NEW to \in r.ystart .. r.yend - 1, from <= to
        PROVE  WasRead(Span(check, r, buf, dump, from, to))
    <3>1. r.ystart < r.yend /\ r.xstart < r.xend
      BY <1>3, <2>4
    <3>2. turn \in 1 .. n
      BY <1>1, <1>2
    <3> QED
      BY <2>4, <3>1, <3>2 DEF WasRead
  <2>5. ASSUME ~ none PROVE \A i \in SpansCompared(check, r, last) : WasRead(i)
    <3>1. /\ r.ystart \in r.ystart .. r.yend - 1 /\ last \in r.ystart .. r.yend - 1
          /\ r.ystart <= last
      BY <1>3, <1>4, <2>5
    <3> HIDE DEF last, r
    <3> QED
      BY <2>4, <2>5, <3>1 DEF SpansCompared
  <2>6. ASSUME rows # {} PROVE \A i \in SpansDumped(check, r, yprint) : WasRead(i)
    <3>1. y \in r.ystart .. r.yend - 1 /\ ~ none
      BY <1>4, <2>3, <2>6
    <3>2. /\ yprint \in r.ystart .. r.yend - 1 /\ r.yend - 1 \in r.ystart .. r.yend - 1
          /\ yprint <= r.yend - 1
      <4> HIDE DEF y
      <4> QED
        BY <1>3, <3>1
    <3> HIDE DEF yprint, r, none
    <3> QED
      BY <2>4, <3>1, <3>2 DEF SpansDumped
  <2> HIDE DEF none, last, yprint, rows
  <2> QED
    BY <2>1, <2>2, <2>5, <2>6
<1>6. \A i : WasRead(i)' <=> WasRead(i)
  BY <1>1 DEF WasRead
<1>7. /\ \A k \in 1 .. turn - 1 : Differs(k) => err /\ Shown(Regions(check)[k])
      /\ err => \E k \in 1 .. n : Differs(k)
  BY <1>1 DEF RectInv
<1>8. /\ \A k : Differs(k)' <=> Differs(k)
      /\ Regions(check)' = Regions(check)
  BY <1>1 DEF Differs
<1>9. rows = {} <=> ~ Differs(turn)
  BY DEF Differs
<1>10. CASE rows = {}
  <2>1. turn' = turn + 1 /\ err' = err /\ result' = result /\ marked' = marked
    BY <1>10 DEF CheckRegion
  <2>2. \A k \in 1 .. turn' - 1 : Differs(k) => err /\ Shown(Regions(check)[k])
    BY <1>1, <1>7, <1>9, <1>10, <2>1
  <2>3. \A q : Shown(q)' <=> Shown(q)
    BY <1>1, <2>1 DEF Shown
  <2> HIDE DEF n, r, rows, y
  <2> QED
    BY <1>1, <1>2, <1>5, <1>6, <1>7, <1>8, <2>1, <2>2, <2>3 DEF RectInv, n
<1>11. CASE rows # {} /\ ~ err /\ ~ check.verbose
  <2>1. result' = "differs" /\ turn' = turn /\ err' = err /\ marked' = marked
    BY <1>11 DEF CheckRegion
  <2>2. \E k \in 1 .. n : Differs(k)
    BY <1>1, <1>2, <1>9, <1>11
  <2>3. \A q : Shown(q)' <=> Shown(q)
    BY <1>1, <2>1 DEF Shown
  <2> QED
    BY <1>1, <1>2, <1>5, <1>6, <1>7, <1>8, <1>11, <2>1, <2>2, <2>3 DEF RectInv
<1>12. CASE rows # {} /\ (err \/ check.verbose) /\ DisplayElems(check, r) <= 0
  <2>1. result' = "endless" /\ turn' = turn /\ err' = TRUE /\ marked' = marked
    BY <1>12 DEF CheckRegion
  <2>2. \E k \in 1 .. n : Differs(k)
    BY <1>1, <1>2, <1>9, <1>12
  <2>3. \A q : Shown(q)' <=> Shown(q)
    BY <1>1, <2>1 DEF Shown
  <2> QED
    BY <1>1, <1>2, <1>5, <1>6, <1>7, <1>8, <1>12, <2>1, <2>2, <2>3 DEF RectInv
<1>13. CASE rows # {} /\ (err \/ check.verbose) /\ ~ (DisplayElems(check, r) <= 0)
  <2>1. /\ result' = result /\ turn' = turn + 1 /\ err' = TRUE
        /\ marked' = marked \cup Marked(check, r, Yprint(check, r))
    BY <1>13 DEF CheckRegion, Yprint
  <2>2. \E k \in 1 .. n : Differs(k)
    BY <1>1, <1>2, <1>9, <1>13
  <2>3. \A q : Shown(q) => Shown(q)'
    BY <1>1, <2>1 DEF Shown
  <2>4. ASSUME NEW q, q = r PROVE Shown(q)'
    <3>1. DisplayElems(check, q) > 0
      <4>1. DisplayElems(check, r) \in Int
        BY <1>1, <1>3, DisplayWidth
      <4> QED
        BY <1>13, <2>4, <4>1
    <3>2. DisplayElems(check, q)' = DisplayElems(check, q)
      BY <1>1
    <3>3. Marked(check, q, Yprint(check, q))' = Marked(check, q, Yprint(check, q))
      BY <1>1
    <3>4. Marked(check, q, Yprint(check, q)) \subseteq marked'
      BY <2>1, <2>4
    <3> QED
      BY <3>1, <3>2, <3>3, <3>4 DEF Shown
  <2>5. \A k \in 1 .. turn' - 1 : Differs(k) => Shown(Regions(check)[k])'
    <3> TAKE k \in 1 .. turn' - 1
    <3> SUFFICES ASSUME Differs(k) PROVE \A q : q = Regions(check)[k] => Shown(q)'
      BY <1>1, <1>8
    <3>1. CASE k = turn
      BY <2>4, <3>1
    <3>2. CASE k # turn
      BY <1>1, <1>7, <2>1, <2>3, <3>2
    <3> QED
      BY <3>1, <3>2
  <2> QED
    BY <1>1, <1>2, <1>5, <1>6, <1>7, <1>8, <2>1, <2>2, <2>5 DEF RectInv
<1> QED
  BY <1>1, <1>10, <1>11, <1>12, <1>13 DEF Called

(* The invariant of a call.                                                  *)
LEMMA RectSteps == RectSpec => []RectInv
<1>1. RectInit => RectInv
  <2> SUFFICES ASSUME turn = 0, err = FALSE, result = "none", read = {} PROVE RectInv
    BY DEF RectInit
  <2>1. turn \in Nat /\ ~ (turn > 0)
    OBVIOUS
  <2>2. err \in BOOLEAN /\ ~ err
    OBVIOUS
  <2> QED
    BY <2>1, <2>2, Zenon DEF RectInv
<1>2. RectInv /\ [RectNext \/ RectDone]_rectVars => RectInv'
  <2> SUFFICES ASSUME RectInv, [RectNext \/ RectDone]_rectVars PROVE RectInv'
    OBVIOUS
  <2>1. CASE CallCheck
    <3>1. /\ turn = 0 /\ turn' = 1 /\ err' = err /\ result' = result /\ marked' = marked
          /\ read' = read /\ read = {} /\ result = "none" /\ ~ err /\ err \in BOOLEAN
      BY <2>1 DEF CallCheck, RectInv
    <3>2. Called(check')
      <4>1. PICK c \in Rects, o \in Outputs : \E differ \in Overwrites[c] :
                check' = [ w |-> c.w, h |-> c.h, align_w |-> c.align_w, align_h |-> c.align_h,
                     padding |-> c.padding,
                     buf_w1 |-> c.buf_w1, buf_w2 |-> c.buf_w2, buf_h |-> c.buf_h,
                     stride1 |-> c.stride1, stride2 |-> c.stride2,
                     elem_size |-> c.elem_size, term |-> o.term, verbose |-> o.verbose,
                     differ |-> differ ]
        BY <2>1 DEF CallCheck
      <4> QED
        BY <4>1, CallIsCalled
    <3>3. Len(Regions(check')) \in Nat
      <4>1. check'.align_h \in Nat
        BY <3>2 DEF Called
      <4> QED
        BY <4>1, RegionsOf
    <3>4. turn' \in Nat /\ turn' # 0 /\ turn' <= Len(Regions(check')) + 1 /\ 1 .. turn' - 1 = {}
      BY <3>1, <3>3
    <3>5. err' = FALSE /\ result' = "none" /\ read' = {}
      BY <3>1
    <3> QED
      BY <3>2, <3>4, <3>5 DEF RectInv
  <2>2. CASE CheckRegion
    BY <2>2, CheckRegionInv
  <2>3. CASE ReturnCheck
    <3>1. /\ turn > 0 /\ turn = Len(Regions(check)) + 1
          /\ result' = IF err THEN "differs" ELSE "same"
          /\ check' = check /\ turn' = turn /\ err' = err /\ marked' = marked /\ read' = read
      BY <2>3 DEF ReturnCheck
    <3>2. /\ \A k : Differs(k)' <=> Differs(k)
          /\ Called(check)' <=> Called(check)
          /\ \A i : WasRead(i)' <=> WasRead(i)
          /\ \A q : Shown(q)' <=> Shown(q)
          /\ Regions(check)' = Regions(check)
      BY <3>1 DEF Differs, Called, WasRead, Shown
    <3> QED
      BY <3>1, <3>2 DEF RectInv
  <2>4. CASE RectDone \/ UNCHANGED rectVars
    <3>1. /\ check' = check /\ turn' = turn /\ err' = err /\ result' = result
          /\ marked' = marked /\ read' = read
      BY <2>4 DEF RectDone, rectVars
    <3>2. /\ \A k : Differs(k)' <=> Differs(k)
          /\ Called(check)' <=> Called(check)
          /\ \A i : WasRead(i)' <=> WasRead(i)
          /\ \A q : Shown(q)' <=> Shown(q)
          /\ Regions(check)' = Regions(check)
      BY <3>1 DEF Differs, Called, WasRead, Shown
    <3> QED
      BY <3>1, <3>2 DEF RectInv
  <2> QED
    BY <2>1, <2>2, <2>3, <2>4 DEF RectNext
<1> QED
  BY <1>1, <1>2, PTL DEF RectSpec

(* Two elements closer to each other than a line is long, at one index, are in *)
(* one line.                                                                 *)
LEMMA OneLine ==
  ASSUME NEW y \in Int, NEW x \in Int, NEW v \in Int, NEW u \in Int, NEW s \in Int,
         y * s + x = v * s + u, x - u < s, u - x < s
  PROVE  y = v
<1>1. ASSUME NEW a \in Int, NEW b \in Int, a > b PROVE a * s >= b * s + s
  <2> DEFINE d == a - b - 1
  <2>1. d \in Nat /\ s \in Nat
    BY <1>1
  <2>2. a = b + 1 + d
    BY <1>1
  <2>3. d * s \in Nat
    BY <2>1
  <2> HIDE DEF d
  <2>4. a * s = b * s + s + d * s
    BY <2>1, <2>2
  <2> QED
    BY <2>1, <2>3, <2>4
<1> DEFINE p == y * s
           q == v * s
<1>2. p \in Int /\ q \in Int /\ p + x = q + u
  OBVIOUS
<1>3. (y > v => p >= q + s) /\ (v > y => q >= p + s)
  BY <1>1
<1> HIDE DEF p, q
<1> QED
  BY <1>2, <1>3

(* Max and Min of two numbers.                                               *)
LEMMA LargerOfTwo ==
  ASSUME NEW a \in Int, NEW b \in Int, a <= b
  PROVE  Max({a, b}) = b
BY DEF Max

(* Of any two.                                                               *)
LEMMA SmallerOfTwo ==
  ASSUME NEW a \in Int, NEW b \in Int
  PROVE  Min({a, b}) = IF a <= b THEN a ELSE b
BY DEF Min

InRegion(e, r) == e[1] \in r.ystart .. r.yend - 1 /\ e[2] \in r.xstart .. r.xend - 1

(* Every watched element is in a region, and one beside the rows in a region    *)
(* that begins at the first of them.                                         *)
LEMMA WatchedInRegion ==
  ASSUME Called(check), NEW e \in Watched
  PROVE  /\ e[1] \in Int /\ e[2] \in Int /\ e = <<e[1], e[2]>>
         /\ \E k \in 1 .. Len(Regions(check)) :
                /\ InRegion(e, Regions(check)[k])
                /\ e[1] \in 0 .. check.h - 1 => Regions(check)[k].ystart = 0
<1> DEFINE n == Len(Regions(check))
<1>1. /\ check.w \in Nat /\ check.h \in Nat /\ check.padding \in Nat /\ check.align_h \in Nat
      /\ check.align_w \in Nat
  BY DEF Called
<1>2. AlignedW \in Nat /\ AlignedH \in Nat /\ (check.align_h > 0 => check.h <= AlignedH)
  BY <1>1, RoundsUp DEF AlignedW, AlignedH
<1>3. /\ n = IF check.align_h > 0 THEN 5 ELSE 3
      /\ \E k \in 1 .. n : Regions(check)[k] = Inner(check)
      /\ \E k \in 1 .. n : Regions(check)[k] = Left(check)
      /\ \E k \in 1 .. n : Regions(check)[k] = Right(check)
      /\ check.align_h > 0 => \E k \in 1 .. n : Regions(check)[k] = Above(check)
      /\ check.align_h > 0 => \E k \in 1 .. n : Regions(check)[k] = Below(check)
  <2>1. CASE check.align_h > 0
    <3>1. n = 5
      BY <1>1, <2>1, RegionsOf
    <3>2. 1 \in 1 .. n /\ 2 \in 1 .. n /\ 3 \in 1 .. n /\ 4 \in 1 .. n /\ 5 \in 1 .. n
      BY <3>1
    <3> QED
      BY <1>1, <2>1, <3>1, <3>2, RegionsOf
  <2>2. CASE check.align_h = 0
    <3>1. n = 3
      BY <1>1, <2>2, RegionsOf
    <3>2. 1 \in 1 .. n /\ 2 \in 1 .. n /\ 3 \in 1 .. n
      BY <3>1
    <3> QED
      BY <1>1, <2>2, <3>1, <3>2, RegionsOf
  <2> QED
    BY <1>1, <2>1, <2>2
<1> HIDE DEF n
<1>4. CASE e \in (0 .. check.h - 1) \X (0 .. check.w - 1)
  <2>1. InRegion(e, Inner(check)) /\ Inner(check).ystart = 0
    BY <1>1, <1>4 DEF InRegion, Inner, Region
  <2> QED
    BY <1>3, <1>4, <2>1 DEF n
<1>5. CASE e \in (0 .. check.h - 1) \X (- check.padding .. -1)
  <2>1. InRegion(e, Left(check)) /\ Left(check).ystart = 0
    BY <1>1, <1>5 DEF InRegion, Left, Region
  <2> QED
    BY <1>1, <1>3, <1>5, <2>1 DEF n
<1>6. CASE e \in (0 .. check.h - 1) \X (AlignedW .. AlignedW + check.padding - 1)
  <2>1. InRegion(e, Right(check)) /\ Right(check).ystart = 0
    BY <1>1, <1>2, <1>6 DEF InRegion, Right, Region, AlignedW
  <2> QED
    BY <1>1, <1>2, <1>3, <1>6, <2>1 DEF n
<1>7. CASE check.align_h > 0 /\ e \in (- check.padding .. -1) \X (0 .. check.w - 1)
  <2>1. InRegion(e, Above(check)) /\ e[1] \notin 0 .. check.h - 1
    BY <1>1, <1>7 DEF InRegion, Above, Region
  <2> QED
    BY <1>1, <1>3, <1>7, <2>1 DEF n
<1>8. CASE check.align_h > 0 /\ e \in (AlignedH .. AlignedH + check.padding - 1) \X (0 .. check.w - 1)
  <2>1. InRegion(e, Below(check)) /\ e[1] \notin 0 .. check.h - 1
    BY <1>1, <1>2, <1>8 DEF InRegion, Below, Region, AlignedH
  <2> QED
    BY <1>1, <1>2, <1>3, <1>8, <2>1 DEF n
<1> QED
  BY <1>1, <1>4, <1>5, <1>6, <1>7, <1>8 DEF Watched

(* And an element of a region is watched, unless it is above or below the      *)
(* padding of the columns.                                                   *)
LEMMA RegionWatched ==
  ASSUME Called(check), NEW k \in 1 .. Len(Regions(check)), NEW y \in Int, NEW x \in Int,
         InRegion(<<y, x>>, Regions(check)[k])
  PROVE  \/ <<y, x>> \in Watched
         \/ /\ check.align_h > 0 /\ x \in - check.padding .. check.w + check.padding - 1
            /\ y \in (- check.padding .. -1) \cup (AlignedH .. AlignedH + check.padding - 1)
<1>1. /\ check.w \in Nat /\ check.h \in Nat /\ check.padding \in Nat /\ check.align_h \in Nat
      /\ check.align_w \in Nat
  BY DEF Called
<1>2. AlignedW \in Nat /\ AlignedH \in Nat
  BY <1>1, RoundsUp DEF AlignedW, AlignedH
<1> DEFINE r == Regions(check)[k]
<1>3. \/ r \in {Inner(check), Left(check), Right(check)}
      \/ check.align_h > 0 /\ r \in {Above(check), Below(check)}
  BY <1>1, RegionIsOne
<1>4. CASE r = Inner(check)
  <2>1. y \in 0 .. check.h - 1 /\ x \in 0 .. check.w - 1
    BY <1>4 DEF InRegion, Inner, Region
  <2> QED
    BY <2>1 DEF Watched
<1>5. CASE r = Left(check)
  <2>1. y \in 0 .. check.h - 1 /\ x \in - check.padding .. -1
    BY <1>1, <1>5 DEF InRegion, Left, Region
  <2> QED
    BY <2>1 DEF Watched
<1>6. CASE r = Right(check)
  <2>1. r.ystart = 0 /\ r.yend = check.h /\ r.xstart = AlignedW /\ r.xend = AlignedW + check.padding
    BY <1>6 DEF Right, Region, AlignedW
  <2>2. y \in r.ystart .. r.yend - 1 /\ x \in r.xstart .. r.xend - 1
    <3>1. <<y, x>>[1] = y /\ <<y, x>>[2] = x
      OBVIOUS
    <3> QED
      BY <3>1, Zenon DEF InRegion
  <2>3. y \in 0 .. check.h - 1 /\ x \in AlignedW .. AlignedW + check.padding - 1
    BY <1>1, <1>2, <2>1, <2>2
  <2> QED
    BY <2>3 DEF Watched
<1>7. CASE check.align_h > 0 /\ r = Above(check)
  BY <1>1, <1>7 DEF InRegion, Above, Region
<1>8. CASE check.align_h > 0 /\ r = Below(check)
  BY <1>1, <1>2, <1>8 DEF InRegion, Below, Region, AlignedH
<1> QED
  BY <1>3, <1>4, <1>5, <1>6, <1>7, <1>8

(* No element that the caller tolerates is at an index of these.              *)
LEMMA NoneTolerated ==
  ASSUME Called(check), check.align_h > 0, NEW t \in Tolerated, NEW y \in Int, NEW x \in Int,
         x \in - check.padding .. check.w + check.padding - 1,
         y \in (- check.padding .. -1) \cup (AlignedH .. AlignedH + check.padding - 1),
         Element(t[1], t[2]) = Element(y, x)
  PROVE  FALSE
<1>1. /\ check.w \in Nat /\ check.h \in Nat /\ check.padding \in Nat /\ check.align_h \in Nat
      /\ check.align_w \in Nat /\ check.stride2 \in Int
      /\ check.stride2 > check.w + 2 * check.padding
  BY DEF Called
<1>2. check.stride2 > AlignedW + 2 * check.padding
  BY DEF Called, AlignedW
<1>3. AlignedW \in Nat /\ AlignedH \in Nat /\ check.h <= AlignedH
  BY <1>1, RoundsUp DEF AlignedW, AlignedH
<1>4. Max({check.h, AlignedH}) = AlignedH
  BY <1>1, <1>3, LargerOfTwo
<1>5. t[1] \in Int /\ t[2] \in Int
  BY <1>1, <1>3 DEF Tolerated
<1>6. \/ t[1] \in 0 .. AlignedH - 1 /\ t[2] \in 0 .. AlignedW - 1
      \/ t[1] < - check.padding /\ t[2] \in - check.padding - 1 .. AlignedW + check.padding
  BY <1>1, <1>3, <1>4, <1>5 DEF Tolerated
<1>7. t[2] - x < check.stride2 /\ x - t[2] < check.stride2
  BY <1>1, <1>2, <1>3, <1>5, <1>6
<1>8. t[1] * check.stride2 + t[2] = y * check.stride2 + x
  BY DEF Element
<1>9. t[1] = y
  BY <1>1, <1>5, <1>7, <1>8, OneLine
<1> QED
  BY <1>1, <1>3, <1>5, <1>6, <1>9

(* A difference in the rectangle or in its padding fails, with or without    *)
(* output and wherever else the buffers differ, and a write that the         *)
(* alignment allows does not: for rectangles, alignments and paddings of     *)
(* any size that leave a line room for its padding, and buffers that differ  *)
(* anywhere (utils.c:780-821).                                               *)
THEOREM OverwritesAreCaught == RectSpec => []OverwritesCaught
<1>1. RectInv => OverwritesCaught
  <2> SUFFICES ASSUME RectInv, result \in {"same", "differs"} PROVE OverwritesCaught
    BY DEF OverwritesCaught
  <2>1. /\ Called(check) /\ turn > 0
        /\ result = "same" => \A k \in 1 .. Len(Regions(check)) : ~ Differs(k)
        /\ result = "differs" => \E k \in 1 .. Len(Regions(check)) : Differs(k)
    <3>1. turn > 0 /\ turn \in Nat
      BY DEF RectInv
    <3>2. Called(check)
      BY <3>1 DEF RectInv
    <3>3. Len(Regions(check)) \in Nat
      BY <3>2, RegionsOf DEF Called
    <3>4. result = "same" => turn - 1 = Len(Regions(check)) /\ ~ err
      BY <3>1, <3>3 DEF RectInv
    <3> QED
      BY <3>1, <3>2, <3>4 DEF RectInv
  <2>2. \A e \in Watched : Element(e[1], e[2]) \in check.differ => result = "differs"
    <3> TAKE e \in Watched
    <3> SUFFICES ASSUME Element(e[1], e[2]) \in check.differ, result = "same" PROVE FALSE
      OBVIOUS
    <3>1. PICK k \in 1 .. Len(Regions(check)) : InRegion(e, Regions(check)[k])
      BY <2>1, WatchedInRegion
    <3> DEFINE r == Regions(check)[k]
    <3>2. e[1] \in DifferingRows(check, r)
      <4>1. e[2] \in Columns(r) /\ e[1] \in r.ystart .. r.yend - 1
        BY <3>1 DEF InRegion, Columns
      <4>2. e[1] * check.stride2 + e[2] \in check.differ
        BY DEF Element
      <4> HIDE DEF r
      <4> QED
        BY <4>1, <4>2 DEF DifferingRows, RowDiffers
    <3> QED
      BY <2>1, <3>2 DEF Differs
  <2>3. ASSUME check.differ \subseteq { Element(e[1], e[2]) : e \in Tolerated }, result = "differs"
        PROVE  \E e \in Watched : Element(e[1], e[2]) \in check.differ
    <3>1. PICK k \in 1 .. Len(Regions(check)) : Differs(k)
      BY <2>1, <2>3
    <3> DEFINE r == Regions(check)[k]
    <3>2. PICK y \in DifferingRows(check, r) : TRUE
      BY <3>1 DEF Differs
    <3>3. y \in r.ystart .. r.yend - 1 /\ RowDiffers(check, r, y)
      BY <3>2 DEF DifferingRows
    <3>4. PICK x \in Columns(r) : y * check.stride2 + x \in check.differ
      BY <3>3 DEF RowDiffers
    <3>5. y \in Int /\ x \in Int /\ InRegion(<<y, x>>, r)
      <4>1. /\ r.ystart \in Int /\ r.yend \in Int /\ r.xstart \in Int /\ r.xend \in Int
        BY <2>1, RegionShape
      <4>2. x \in r.xstart .. r.xend - 1
        BY <3>4 DEF Columns
      <4> HIDE DEF r
      <4> QED
        BY <3>3, <4>1, <4>2 DEF InRegion
    <3>6. CASE <<y, x>> \in Watched
      <4>1. Element(<<y, x>>[1], <<y, x>>[2]) \in check.differ
        BY <3>4 DEF Element
      <4> QED
        BY <3>6, <4>1
    <3>7. CASE <<y, x>> \notin Watched
      <4>1. /\ check.align_h > 0 /\ x \in - check.padding .. check.w + check.padding - 1
            /\ y \in (- check.padding .. -1) \cup (AlignedH .. AlignedH + check.padding - 1)
        BY <2>1, <3>5, <3>7, RegionWatched
      <4>2. PICK t \in Tolerated : y * check.stride2 + x = Element(t[1], t[2])
        BY <2>3, <3>4
      <4>3. Element(t[1], t[2]) = Element(y, x)
        BY <4>2 DEF Element
      <4> QED
        BY <2>1, <3>5, <4>1, <4>3, NoneTolerated
    <3> QED
      BY <3>6, <3>7
  <2> QED
    BY <2>2, <2>3 DEF OverwritesCaught
<1> QED
  BY <1>1, RectSteps, PTL

(* Where lines have no negative length a later line begins later.            *)
LEMMA Product ==
  ASSUME NEW a \in Int, NEW b \in Int, NEW s \in Nat, a <= b
  PROVE  a * s \in Int /\ b * s \in Int /\ a * s <= b * s
<1> DEFINE d == b - a
<1>1. d \in Nat /\ b = a + d
  OBVIOUS
<1>2. d * s \in Nat
  BY <1>1
<1> HIDE DEF d
<1> QED
  BY <1>1, <1>2

(* The lines of a BUF_RECT are such lines.                                   *)
LEMMA StrideIsNat ==
  ASSUME NEW w \in Nat
  PROVE  RectStride(w) \in Nat
<1>1. Round(w, 64) \in Nat
  BY RoundsUp
<1> QED
  BY <1>1 DEF RectStride

(* Where a region can be.                                                    *)
LEMMA RegionBounds ==
  ASSUME NEW c, Called(c), NEW k \in 1 .. Len(Regions(c)), NEW w \in {c.buf_w1, c.buf_w2}
  PROVE  LET r == Regions(c)[k]
         IN  /\ r.ystart >= -16 /\ r.yend <= c.buf_h + 16
             /\ r.xstart >= -16 /\ r.xend <= RectStride(w)
<1> DEFINE aw == Round(c.w, c.align_w)
           ah == Round(c.h, c.align_h)
           s == RectStride(w)
           In(r) == /\ r.ystart >= -16 /\ r.yend <= c.buf_h + 16
                    /\ r.xstart >= -16 /\ r.xend <= s
<1>1. /\ c.w \in Nat /\ c.h \in Nat /\ c.padding \in Nat /\ c.align_h \in Nat /\ c.buf_h \in Nat
      /\ w \in Nat /\ aw \in Nat /\ ah \in Nat /\ s \in Nat
  BY RoundsUp, StrideIsNat DEF Called
<1>2. /\ c.w + c.padding <= s /\ aw + c.padding <= s /\ c.padding <= 16 /\ c.h <= c.buf_h
      /\ ah + c.padding <= c.buf_h + 16
  BY DEF Called
<1>3. In(Inner(c))
  <2> HIDE DEF aw, ah, s
  <2> QED
    BY <1>1, <1>2 DEF Inner, Region
<1>4. In(Left(c))
  <2>1. /\ Left(c).ystart = 0 /\ Left(c).yend = c.h /\ Left(c).xstart = - c.padding /\ Left(c).xend = 0
    BY DEF Left, Region
  <2> HIDE DEF aw, ah, s
  <2>2. Left(c).ystart >= -16
    BY <2>1
  <2>3. Left(c).yend <= c.buf_h + 16
    <3>1. c.h \in Nat /\ c.buf_h \in Nat /\ c.h <= c.buf_h
      BY <1>1, <1>2
    <3>2. c.h <= c.buf_h + 16
      BY <3>1
    <3> QED
      BY <2>1, <3>2
  <2>4. Left(c).xstart >= -16
    BY <1>1, <1>2, <2>1
  <2>5. Left(c).xend <= s
    BY <1>1, <2>1
  <2> QED
    BY <2>2, <2>3, <2>4, <2>5
<1>5. In(Above(c))
  <2> HIDE DEF aw, ah, s
  <2> QED
    BY <1>1, <1>2 DEF Above, Region
<1>6. In(Below(c))
  <2>1. Below(c) = Region(ah, ah + c.padding, - c.padding, c.w + c.padding)
    BY DEF Below
  <2> HIDE DEF aw, ah, s
  <2> QED
    BY <1>1, <1>2, <2>1 DEF Region
<1>7. In(Right(c))
  <2>1. Right(c) = Region(0, c.h, aw, aw + c.padding)
    BY DEF Right
  <2> HIDE DEF aw, ah, s
  <2> QED
    BY <1>1, <1>2, <2>1 DEF Region
<1> QED
  BY <1>1, <1>3, <1>4, <1>5, <1>6, <1>7, RegionIsOne

(* Rows of a buffer whose lines are all as long begin and end in it.          *)
LEMMA SpanBounds ==
  ASSUME NEW w \in Nat, NEW h \in Nat, NEW s \in {0, RectStride(w)},
         NEW from \in Int, NEW to \in Int, from >= -16, to <= h + 15,
         NEW x1 \in Int, NEW x2 \in Int, x1 >= -16, x2 <= RectStride(w)
  PROVE  /\ from * s + x1 >= - Origin(w)
         /\ to * s + x2 - 1 < BufSize(w, h) - Origin(w)
<1> DEFINE S == RectStride(w)
           A == (h + 15) * S
           B == to * s
           C == from * s
<1>1. S \in Nat /\ s \in Nat /\ s <= S
  BY StrideIsNat
<1>2. Origin(w) = S * 16 + 64 /\ BufSize(w, h) = (h + 32) * S + 64
  BY DEF Origin, BufSize
<1> HIDE DEF S
<1>3. C >= - (S * 16) /\ C \in Int
  <2>1. C \in Int /\ (-16) * s <= C
    BY <1>1, Product
  <2> HIDE DEF C
  <2> QED
    BY <1>1, <2>1
<1>4. B <= A /\ B \in Int /\ A \in Int
  <2> DEFINE i == h + 15
             b == i * s
  <2>1. i \in Nat
    OBVIOUS
  <2> HIDE DEF i
  <2>2. B \in Int /\ B <= b
    BY <1>1, <2>1, Product DEF i
  <2>3. s * i <= S * i
    BY <1>1, <2>1, Product
  <2>4. s * i = b /\ S * i = i * S /\ b \in Int /\ i * S \in Int
    BY <1>1, <2>1
  <2> DEFINE d == i * S
  <2> HIDE DEF b, B, d
  <2>5. B <= d
    BY <2>2, <2>3, <2>4 DEF d
  <2> QED
    BY <2>2, <2>4, <2>5 DEF d, i, B
<1>5. (h + 32) * S = A + 17 * S
  BY <1>1
<1> HIDE DEF A, B, C
<1>6. C + x1 >= - Origin(w)
  BY <1>1, <1>2, <1>3
<1>7. B + x2 - 1 < BufSize(w, h) - Origin(w)
  BY <1>1, <1>2, <1>4, <1>5 DEF S
<1> QED
  BY <1>6, <1>7 DEF B, C

(* The rows below the first one that is printed, by their distance from it.  *)
LEMMA Distributes ==
  ASSUME NEW a \in Int, NEW b \in Int, NEW s \in Int
  PROVE  b * s + (a - b) * s = a * s
<1> DEFINE d == a - b
<1>1. d \in Int /\ a = b + d
  OBVIOUS
<1> HIDE DEF d
<1>2. (b + d) * s = b * s + d * s
  BY <1>1
<1> QED
  BY <1>1, <1>2 DEF d

(* Neither the comparison nor the hexdump reads outside of the BUF_RECT of    *)
(* either buffer for a part of it, of any size and at any alignment, whose    *)
(* padding and alignment keep to the lines around it; with unlike strides     *)
(* this is proved of the comparison and of the hexdump of the rectangle       *)
(* (utils.h:683-690, utils.c:750-821).                                       *)
THEOREM ReadsStayInside == RectSpec => []ReadsInRect
<1>1. RectInv => ReadsInRect
  <2> SUFFICES ASSUME RectInv, turn > 0, NEW i \in read,
                      i.dump => check.stride1 = check.stride2 \/ i.from = 0
               PROVE  Within(i)
    BY DEF ReadsInRect
  <2>1. Called(check) /\ WasRead(i)
    BY DEF RectInv
  <2>2. PICK k \in 1 .. Len(Regions(check)) :
            \E buf \in {1, 2}, dump \in BOOLEAN,
               from \in Regions(check)[k].ystart .. Regions(check)[k].yend - 1,
               to \in Regions(check)[k].ystart .. Regions(check)[k].yend - 1 :
                  from <= to /\ i = Span(check, Regions(check)[k], buf, dump, from, to)
    BY <2>1 DEF WasRead
  <2> DEFINE r == Regions(check)[k]
  <2>3. PICK buf \in {1, 2}, dump \in BOOLEAN,
             from \in r.ystart .. r.yend - 1, to \in r.ystart .. r.yend - 1 :
                 i = Span(check, r, buf, dump, from, to)
    BY <2>2
  <2> DEFINE w == IF buf = 1 THEN check.buf_w1 ELSE check.buf_w2
             s == IF buf = 1 THEN check.stride1 ELSE check.stride2
             u == from * (IF dump THEN check.stride1 ELSE s)
  <2>4. /\ w \in {check.buf_w1, check.buf_w2} /\ w \in Nat /\ s \in {0, RectStride(w)}
        /\ check.buf_h \in Nat /\ check.stride1 \in Int /\ s \in Int
    BY <2>1, StrideIsNat DEF Called
  <2>5. /\ r.ystart \in Int /\ r.yend \in Int /\ r.xstart \in Int /\ r.xend \in Int
        /\ r.ystart >= -16 /\ r.yend <= check.buf_h + 16
        /\ r.xstart >= -16 /\ r.xend <= RectStride(w)
    BY <2>1, <2>4, RegionShape, RegionBounds
  <2>6. /\ i.buf = buf /\ i.dump = dump /\ i.from = from
        /\ i.first = u + r.xstart /\ i.last = u + (to - from) * s + r.xend - 1
    BY <2>3 DEF Span
  <2> HIDE DEF r
  <2>7. from \in Int /\ to \in Int /\ from >= -16 /\ to <= check.buf_h + 15
    <3> DEFINE a == r.ystart
               b == r.yend
               h == check.buf_h
    <3>1. from \in a .. b - 1 /\ to \in a .. b - 1
      OBVIOUS
    <3>2. a \in Int /\ b \in Int /\ h \in Nat /\ a >= -16 /\ b <= h + 16
      BY <2>4, <2>5
    <3> HIDE DEF a, b, h, w, s, u
    <3> QED
      BY <3>1, <3>2 DEF h
  <2>8. u = from * s
    <3>1. CASE ~ dump \/ check.stride1 = check.stride2
      BY <3>1
    <3>2. CASE from = 0
      BY <2>4, <3>2
    <3> QED
      BY <2>6, <3>1, <3>2
  <2>9. u + (to - from) * s = to * s
    BY <2>4, <2>7, <2>8, Distributes
  <2> HIDE DEF w, s, u
  <2>10. /\ from * s + r.xstart >= - Origin(w)
         /\ to * s + r.xend - 1 < BufSize(w, check.buf_h) - Origin(w)
    BY <2>4, <2>5, <2>7, SpanBounds
  <2> QED
    BY <2>6, <2>8, <2>9, <2>10 DEF Within, w
<1> QED
  BY <1>1, RectSteps, PTL

(* The pieces of a row that is printed are all of its columns.                *)
LEMMA PiecesCover ==
  ASSUME NEW c, Called(c), NEW r, r.xstart \in Int, r.xend \in Int,
         DisplayElems(c, r) > 0, NEW x \in Columns(r)
  PROVE  x \in Pieces(c, r)
<1> DEFINE d == DisplayElems(c, r)
           n == x - r.xstart
           x0 == x - (n % d)
<1>1. d \in Nat \ {0}
  BY DisplayWidth
<1>2. x \in Int /\ r.xstart <= x /\ x < r.xend /\ n \in Nat
  BY DEF Columns
<1> HIDE DEF d
<1>3. /\ n \div d \in Nat /\ n % d \in Nat /\ n % d < d
      /\ n = (n \div d) * d + (n % d)
  BY <1>1, <1>2, Quotient
<1> DEFINE p == (n \div d) * d
           m == n % d
<1>4. p \in Nat /\ m \in Nat /\ m < d /\ n = p + m
  BY <1>1, <1>3
<1>5. x0 - r.xstart = p
  <2>1. x0 = x - m
    OBVIOUS
  <2> HIDE DEF p, m, x0
  <2> QED
    BY <1>2, <1>4, <2>1 DEF n
<1>6. p % d = 0
  <2> DEFINE q == n \div d
             q2 == p \div d
             m2 == p % d
  <2>1. q \in Nat /\ p = q * d
    BY <1>3
  <2> HIDE DEF p, q
  <2>2. q2 \in Nat /\ m2 \in Nat /\ m2 < d /\ p = q2 * d + m2
    BY <1>1, <1>4, Quotient
  <2> HIDE DEF q2, m2
  <2>3. q * d + 0 = q2 * d + m2
    BY <2>1, <2>2
  <2>4. q = q2
    BY <1>1, <2>1, <2>2, <2>3, OneLine
  <2>5. m2 = 0
    <3> DEFINE pp == q * d
    <3>1. pp \in Int /\ pp + 0 = pp + m2
      BY <1>1, <2>1, <2>3, <2>4
    <3> HIDE DEF pp
    <3> QED
      BY <2>2, <3>1
  <2> QED
    BY <2>5 DEF m2
<1>7. x0 \in Int /\ x0 <= x /\ x < x0 + d /\ r.xstart <= x0 /\ x0 < r.xend
  <2>1. x0 = x - m
    OBVIOUS
  <2> HIDE DEF p, m, x0
  <2> QED
    BY <1>1, <1>2, <1>4, <2>1 DEF n
<1> HIDE DEF x0, p, m, n
<1>8. x0 \in { u \in Columns(r) : (u - r.xstart) % DisplayElems(c, r) = 0 }
  <2>1. x0 \in Columns(r)
    BY <1>7 DEF Columns
  <2>2. (x0 - r.xstart) % d = 0
    BY <1>5, <1>6
  <2> QED
    BY <2>1, <2>2 DEF d
<1>9. x \in x0 .. Min({x0 + DisplayElems(c, r), r.xend}) - 1
  <2>1. Min({x0 + d, r.xend}) = IF x0 + d <= r.xend THEN x0 + d ELSE r.xend
    BY <1>1, <1>7, SmallerOfTwo
  <2>2. x \in x0 .. Min({x0 + d, r.xend}) - 1
    BY <1>1, <1>2, <1>7, <2>1
  <2> QED
    BY <2>2 DEF d
<1> QED
  BY <1>8, <1>9 DEF Pieces

(* The hexdump of a failure shows every difference of the watched elements,  *)
(* for every width of the terminal that leaves room for one of them, and     *)
(* however the rows are broken into lines; with buffers of unlike strides    *)
(* this goes for the rectangle alone (utils.c:750-778).                      *)
THEOREM DifferencesAreShown == RectSpec => []DifferencesShown
<1>1. RectInv => DifferencesShown
  <2> SUFFICES ASSUME RectInv, result = "differs", check.verbose, NEW e \in Watched,
                      check.stride1 = check.stride2 \/ e[1] \in 0 .. check.h - 1,
                      Element(e[1], e[2]) \in check.differ
               PROVE  e \in marked
    BY DEF DifferencesShown
  <2>1. turn \in Nat /\ turn > 0
    BY DEF RectInv
  <2>2. Called(check) /\ turn = Len(Regions(check)) + 1
    BY <2>1 DEF RectInv
  <2>3. PICK k \in 1 .. Len(Regions(check)) :
            /\ InRegion(e, Regions(check)[k])
            /\ e[1] \in 0 .. check.h - 1 => Regions(check)[k].ystart = 0
    BY <2>2, WatchedInRegion
  <2>4. e[1] \in Int /\ e[2] \in Int /\ e = <<e[1], e[2]>>
    BY <2>2, WatchedInRegion
  <2> DEFINE r == Regions(check)[k]
             rows == DifferingRows(check, r)
             yprint == Yprint(check, r)
             s == check.stride2
  <2>5. e[1] * s + e[2] \in check.differ
    BY DEF Element
  <2>6. e[1] \in rows
    <3>1. e[2] \in Columns(r) /\ e[1] \in r.ystart .. r.yend - 1
      BY <2>3 DEF InRegion, Columns
    <3> HIDE DEF r
    <3> QED
      BY <2>5, <3>1 DEF DifferingRows, RowDiffers
  <2>7. Shown(r)
    <3>1. Differs(k)
      BY <2>6 DEF Differs
    <3>2. k \in 1 .. turn - 1
      <4>1. Len(Regions(check)) \in Nat
        BY <2>2, RegionsOf DEF Called
      <4> QED
        BY <2>2, <4>1
    <3> QED
      BY <2>1, <3>1, <3>2 DEF RectInv
  <2>8. r.ystart \in Int /\ r.yend \in Int /\ r.xstart \in Int /\ r.xend \in Int
    BY <2>2, RegionShape
  <2>9. rows \subseteq r.ystart .. r.yend - 1
    BY DEF DifferingRows
  <2>10. e[2] \in Pieces(check, r)
    <3>1. e[2] \in Columns(r)
      BY <2>3 DEF InRegion, Columns
    <3>2. DisplayElems(check, r) > 0
      BY <2>7 DEF Shown
    <3> HIDE DEF r
    <3> QED
      BY <2>2, <2>8, <3>1, <3>2, PiecesCover
  <2>11. s \in Int /\ check.stride1 \in Int
    BY <2>2 DEF Called
  <2>12. e[1] \in 0 .. check.h - 1 => r.ystart = 0
    BY <2>3
  <2> HIDE DEF r, rows, s
  <2>13. Min(rows) \in rows /\ Min(rows) <= e[1]
    <3>1. rows \subseteq Int /\ (\A i \in rows : r.ystart <= i) /\ rows # {}
      BY <2>6, <2>8, <2>9
    <3> QED
      BY <2>6, <2>8, <3>1, LeastElement
  <2>14. yprint = IF Min(rows) < 0 THEN Min(rows) ELSE r.ystart
    BY DEF Yprint, rows
  <2>15. /\ yprint \in Int /\ e[1] \in yprint .. r.yend - 1
         /\ r.ystart = 0 => yprint = 0
    <3> DEFINE m == Min(rows)
    <3>1. m \in Int /\ m <= e[1] /\ r.ystart <= m
      <4>1. m \in r.ystart .. r.yend - 1 /\ m <= e[1]
        BY <2>9, <2>13
      <4> HIDE DEF m
      <4> QED
        BY <2>8, <4>1
    <3>2. e[1] \in r.ystart .. r.yend - 1
      BY <2>6, <2>9
    <3>3. yprint = IF m < 0 THEN m ELSE r.ystart
      BY <2>14
    <3> HIDE DEF m, yprint
    <3> QED
      BY <2>4, <2>8, <3>1, <3>2, <3>3
  <2> HIDE DEF yprint
  <2>16. yprint * check.stride1 + (e[1] - yprint) * s + e[2] = e[1] * s + e[2]
    <3>1. CASE check.stride1 = s
      <4>1. yprint * s + (e[1] - yprint) * s = e[1] * s
        BY <2>4, <2>11, <2>15, Distributes
      <4> QED
        BY <3>1, <4>1
    <3>2. CASE yprint = 0
      <4>1. 0 * check.stride1 = 0 /\ e[1] - 0 = e[1] /\ e[1] * s \in Int
        BY <2>4, <2>11
      <4>2. 0 + e[1] * s = e[1] * s
        BY <4>1
      <4> QED
        BY <3>2, <4>1, <4>2
    <3> QED
      BY <2>12, <2>15, <3>1, <3>2 DEF s
  <2>17. e \in Marked(check, r, yprint)
    <3>1. e \in (yprint .. r.yend - 1) \X Pieces(check, r)
      BY <2>4, <2>10, <2>15
    <3>2. yprint * check.stride1 + (e[1] - yprint) * check.stride2 + e[2] \in check.differ
      BY <2>5, <2>16 DEF s
    <3> QED
      BY <3>1, <3>2 DEF Marked
  <2> QED
    BY <2>7, <2>17 DEF Shown, yprint
<1> QED
  BY <1>1, RectSteps, PTL

-----------------------------------------------------------------------------
(* Floats.                                                                   *)
(* The values of the floats without a sign, the largest of them infinity.    *)
LEMMA ValuesAre ==
  /\ Value(0) = 0 /\ Value(1) = 1 /\ Value(2) = 2 /\ Value(3) = 3
  /\ Value(4) = 4 /\ Value(5) = 5 /\ Value(6) = 6 /\ Value(7) = 7
  /\ Value(8) = 8 /\ Value(9) = 10 /\ Value(10) = 12 /\ Value(11) = 14 /\ Value(12) = 16
BY DEF Value, Magnitude, SignBit, IsNegative

(* Those with a sign are the same below zero.                                *)
LEMMA Negated ==
  ASSUME NEW i \in 0 .. 12
  PROVE  /\ Value(i) \in Nat /\ Value(i + 16) = - Value(i)
         /\ IsNegative(i + 16) /\ ~ IsNegative(i) /\ ~ IsNaN(i) /\ ~ IsNaN(i + 16)
         /\ i + 16 \in Floats /\ i \in Floats
<1>1. i % 16 = i /\ (i + 16) % 16 = i
  OBVIOUS
<1> DEFINE v == IF i \div 4 = 0 THEN i % 4 ELSE (4 + (i % 4)) * <<1, 2, 4>>[i \div 4]
<1>2. Value(i) = v /\ Value(i + 16) = - v
  BY <1>1 DEF Value, Magnitude, SignBit, IsNegative
<1>3. Value(i) \in Nat
  BY ValuesAre
<1> HIDE DEF v
<1> QED
  BY <1>1, <1>2, <1>3 DEF Magnitude, SignBit, IsNegative, IsNaN, Floats

(* The order of the bits is the order of the values.                         *)
LEMMA Increasing ==
  ASSUME NEW i \in 0 .. 12, NEW j \in 0 .. 12
  PROVE  Value(i) <= Value(j) <=> i <= j
BY ValuesAre

(* What is a number or an infinity, by its sign and its magnitude.            *)
LEMMA SignAndMagnitude ==
  ASSUME NEW c \in Floats, ~ IsNaN(c)
  PROVE  \/ ~ IsNegative(c) /\ c \in 0 .. 12
         \/ IsNegative(c) /\ \E i \in 0 .. 12 : c = i + 16
<1>1. CASE c < 16
  <2>1. c % 16 = c
    BY <1>1 DEF Floats
  <2> QED
    BY <1>1, <2>1 DEF Floats, IsNaN, IsNegative, Magnitude, SignBit
<1>2. CASE c >= 16
  <2>1. c % 16 = c - 16
    BY <1>2 DEF Floats
  <2>2. c - 16 \in 0 .. 12 /\ c = (c - 16) + 16
    BY <1>2, <2>1 DEF Floats, IsNaN, Magnitude, SignBit
  <2> QED
    BY <1>2, <2>2 DEF IsNegative, SignBit
<1> QED
  BY <1>1, <1>2 DEF Floats

(* Of floats of one sign those between two are passed, one of the two among    *)
(* them, and by which they are apart are their bits.                         *)
LEMMA PassedAre ==
  ASSUME NEW a \in Floats, NEW b \in Floats, ~ IsNaN(a), ~ IsNaN(b),
         IsNegative(a) = IsNegative(b)
  PROVE  /\ Passed(a, b) = (IF a <= b THEN a + 1 .. b ELSE b .. a - 1)
         /\ Value(a) = Value(b) <=> a = b
<1> DEFINE Between == IF a <= b THEN a + 1 .. b ELSE b .. a - 1
<1>1. CASE ~ IsNegative(a)
  <2>1. a \in 0 .. 12 /\ b \in 0 .. 12
    BY <1>1, SignAndMagnitude
  <2>2. ASSUME NEW c \in 0 .. 12
        PROVE  /\ Value(a) < Value(c) <=> a < c
               /\ Value(c) <= Value(b) <=> c <= b
               /\ Value(b) <= Value(c) <=> b <= c
               /\ Value(c) < Value(a) <=> c < a
    <3>1. Value(a) \in Nat /\ Value(b) \in Nat /\ Value(c) \in Nat
      BY <2>1, Negated
    <3>2. /\ Value(c) <= Value(a) <=> c <= a
          /\ Value(c) <= Value(b) <=> c <= b
          /\ Value(b) <= Value(c) <=> b <= c
          /\ Value(a) <= Value(c) <=> a <= c
      BY <2>1, Increasing
    <3> QED
      BY <2>1, <3>1, <3>2
  <2>3. ASSUME NEW c \in Passed(a, b) PROVE c \in Between
    <3>1. c \in 0 .. 12
      BY <1>1, <2>3, SignAndMagnitude DEF Passed
    <3>2. \/ Value(a) < Value(c) /\ Value(c) <= Value(b)
          \/ Value(b) <= Value(c) /\ Value(c) < Value(a)
      BY <2>3 DEF Passed
    <3>3. (a < c /\ c <= b) \/ (b <= c /\ c < a)
      BY <2>2, <3>1, <3>2
    <3> QED
      BY <2>1, <3>1, <3>3
  <2>4. ASSUME NEW c \in Between PROVE c \in Passed(a, b)
    <3>1. c \in 0 .. 12 /\ ((a < c /\ c <= b) \/ (b <= c /\ c < a))
      BY <2>1
    <3>2. c \in Floats /\ ~ IsNaN(c) /\ ~ IsNegative(c)
      BY <3>1, Negated
    <3>3. \/ Value(a) < Value(c) /\ Value(c) <= Value(b)
          \/ Value(b) <= Value(c) /\ Value(c) < Value(a)
      BY <2>2, <3>1
    <3>4. IsNegative(c) = IsNegative(a)
      BY <1>1, <3>2 DEF IsNegative
    <3> QED
      BY <3>2, <3>3, <3>4 DEF Passed
  <2>5. Value(a) = Value(b) => a = b
    <3>1. /\ Value(a) <= Value(b) <=> a <= b
          /\ Value(b) <= Value(a) <=> b <= a
      BY <2>1, Increasing
    <3>2. Value(a) \in Nat /\ Value(b) \in Nat
      BY <2>1, Negated
    <3> QED
      BY <2>1, <3>1, <3>2
  <2> HIDE DEF Between
  <2>6. Passed(a, b) = Between
    BY <2>3, <2>4
  <2> QED
    BY <2>5, <2>6 DEF Between
<1>2. CASE IsNegative(a)
  <2>1. PICK i \in 0 .. 12 : a = i + 16
    BY <1>2, SignAndMagnitude
  <2>2. PICK j \in 0 .. 12 : b = j + 16
    BY <1>2, SignAndMagnitude
  <2>3. ASSUME NEW k \in 0 .. 12
        PROVE  /\ Value(a) < Value(k + 16) <=> k < i
               /\ Value(k + 16) <= Value(b) <=> j <= k
               /\ Value(b) <= Value(k + 16) <=> k <= j
               /\ Value(k + 16) < Value(a) <=> i < k
    <3>1. /\ Value(i) \in Nat /\ Value(j) \in Nat /\ Value(k) \in Nat
          /\ Value(a) = - Value(i) /\ Value(b) = - Value(j) /\ Value(k + 16) = - Value(k)
      BY <2>1, <2>2, Negated
    <3>2. /\ Value(k) <= Value(i) <=> k <= i
          /\ Value(k) <= Value(j) <=> k <= j
          /\ Value(j) <= Value(k) <=> j <= k
          /\ Value(i) <= Value(k) <=> i <= k
      BY Increasing
    <3> QED
      BY <3>1, <3>2
  <2>4. ASSUME NEW c \in Passed(a, b) PROVE c \in Between
    <3>1. PICK k \in 0 .. 12 : c = k + 16
      BY <1>2, <2>4, SignAndMagnitude DEF Passed
    <3>2. \/ Value(a) < Value(c) /\ Value(c) <= Value(b)
          \/ Value(b) <= Value(c) /\ Value(c) < Value(a)
      BY <2>4 DEF Passed
    <3>3. (k < i /\ j <= k) \/ (k <= j /\ i < k)
      BY <2>3, <3>1, <3>2
    <3> QED
      BY <2>1, <2>2, <3>1, <3>3
  <2>5. ASSUME NEW c \in Between PROVE c \in Passed(a, b)
    <3> DEFINE k == c - 16
    <3>1. k \in 0 .. 12 /\ c = k + 16 /\ ((k < i /\ j <= k) \/ (k <= j /\ i < k))
      BY <2>1, <2>2
    <3> HIDE DEF k
    <3>2. c \in Floats /\ ~ IsNaN(c) /\ IsNegative(c)
      BY <3>1, Negated
    <3>3. \/ Value(a) < Value(c) /\ Value(c) <= Value(b)
          \/ Value(b) <= Value(c) /\ Value(c) < Value(a)
      BY <2>3, <3>1
    <3>4. IsNegative(c) = IsNegative(a)
      BY <1>2, <3>2 DEF IsNegative
    <3> QED
      BY <3>2, <3>3, <3>4 DEF Passed
  <2>6. Value(a) = Value(b) => a = b
    <3>1. /\ Value(i) <= Value(j) <=> i <= j
          /\ Value(j) <= Value(i) <=> j <= i
      BY Increasing
    <3>2. /\ Value(i) \in Nat /\ Value(j) \in Nat
          /\ Value(a) = - Value(i) /\ Value(b) = - Value(j)
      BY <2>1, <2>2, Negated
    <3> QED
      BY <2>1, <2>2, <3>1, <3>2
  <2> HIDE DEF Between
  <2>7. Passed(a, b) = Between
    BY <2>4, <2>5
  <2> QED
    BY <2>6, <2>7 DEF Between
<1> QED
  BY <1>1, <1>2

(* So the distance of the bits counts the floats between (utils.c:651-672).  *)
LEMMA DistanceIs ==
  ASSUME NEW a \in Floats, NEW b \in Floats, ~ IsNaN(a), ~ IsNaN(b),
         IsNegative(a) = IsNegative(b)
  PROVE  Cardinality(Passed(a, b)) = BitDistance(a, b)
<1>1. a \in Nat /\ b \in Nat
  BY DEF Floats
<1>2. CASE a <= b
  <2>1. Cardinality(a + 1 .. b) = IF a + 1 > b THEN 0 ELSE b - (a + 1) + 1
    BY <1>1, FS_Interval
  <2> QED
    BY <1>1, <1>2, <2>1, PassedAre DEF BitDistance, Abs
<1>3. CASE ~ (a <= b)
  <2>1. Cardinality(b .. a - 1) = IF b > a - 1 THEN 0 ELSE a - 1 - b + 1
    BY <1>1, FS_Interval
  <2> QED
    BY <1>1, <1>3, <2>1, PassedAre DEF BitDistance, Abs
<1> QED
  BY <1>2, <1>3

(* One pair of floats is near if and only if it is close.                     *)
LEMMA PairIsClose ==
  ASSUME NEW a \in Floats, NEW b \in Floats, ~ IsNaN(a), ~ IsNaN(b),
         NEW eps, NEW max_ulp \in Nat
  PROVE  NearAbsEpsUlp(a, b, eps, max_ulp) <=> Close(a, b, eps, max_ulp)
<1>1. CASE IsNegative(a) # IsNegative(b)
  BY <1>1 DEF NearAbsEpsUlp, NearUlp, NearAbsEps, EqualFloats, Close
<1>2. CASE IsNegative(a) = IsNegative(b)
  <2>1. NearUlp(a, b, max_ulp) <=> Cardinality(Passed(a, b)) <= max_ulp
    BY <1>2, DistanceIs DEF NearUlp
  <2>2. Value(a) = Value(b) => Cardinality(Passed(a, b)) <= max_ulp
    <3> SUFFICES ASSUME Value(a) = Value(b) PROVE BitDistance(a, b) <= max_ulp
      BY <1>2, DistanceIs
    <3>1. a = b /\ a \in Nat
      BY <1>2, PassedAre DEF Floats
    <3> QED
      BY <3>1 DEF BitDistance, Abs
  <2> QED
    BY <1>2, <2>1, <2>2 DEF NearAbsEpsUlp, NearAbsEps, Close
<1> QED
  BY <1>1, <1>2

-----------------------------------------------------------------------------
(* What is known of a comparison: its arrays are floats, and its result the    *)
(* one of the source.                                                        *)
IsComparison(r) ==
    /\ \A i \in DOMAIN r.a : r.a[i] \in Floats /\ r.b[i] \in Floats
    /\ r.max_ulp \in Nat
    /\ r.result <=> NearArray(r.a, r.b, r.eps, r.max_ulp)
FloatInv == near # << >> => IsComparison(near)

(* A comparison of arrays compares the pairs, all of them.                   *)
LEMMA FloatStep ==
  ASSUME FloatInv, [FloatNext \/ FloatsCompared]_near
  PROVE  FloatInv'
<1>1. CASE CompareFloats
  <2>1. PICK len \in 0 .. MaxLen, eps \in Epsilons, max_ulp \in MaxUlps :
          \E a, b \in [1 .. len -> IF len > 1 THEN {0, 1, 11, 12, 13, 16, 17} ELSE Floats] :
              near' = [ a |-> a, b |-> b, eps |-> eps, max_ulp |-> max_ulp,
                        result |-> NearArray(a, b, eps, max_ulp) ]
    BY <1>1 DEF CompareFloats
  <2> DEFINE Chosen == IF len > 1 THEN {0, 1, 11, 12, 13, 16, 17} ELSE Floats
  <2>2. Chosen \subseteq Floats
    BY DEF Floats
  <2>3. PICK a \in [1 .. len -> Chosen], b \in [1 .. len -> Chosen] :
              near' = [ a |-> a, b |-> b, eps |-> eps, max_ulp |-> max_ulp,
                        result |-> NearArray(a, b, eps, max_ulp) ]
    BY <2>1
  <2> HIDE DEF Chosen
  <2>4. \A i \in DOMAIN a : a[i] \in Floats /\ b[i] \in Floats
    BY <2>2
  <2>5. max_ulp \in Nat
    BY UlpsAssumption
  <2> DEFINE r == [ a |-> a, b |-> b, eps |-> eps, max_ulp |-> max_ulp,
                    result |-> NearArray(a, b, eps, max_ulp) ]
  <2>6. /\ r.a = a /\ r.b = b /\ r.eps = eps /\ r.max_ulp = max_ulp
        /\ r.result = NearArray(a, b, eps, max_ulp)
    OBVIOUS
  <2>7. near' = r
    BY <2>3
  <2> HIDE DEF r
  <2>8. IsComparison(r)
    BY <2>4, <2>5, <2>6 DEF IsComparison
  <2> QED
    BY <2>7, <2>8 DEF FloatInv, IsComparison, NearArray, NearAbsEpsUlp, NearUlp, NearAbsEps
<1>2. CASE UNCHANGED near
  BY <1>2 DEF FloatInv, IsComparison, NearArray, NearAbsEpsUlp, NearUlp, NearAbsEps
<1> QED
  BY <1>1, <1>2 DEF FloatNext, FloatsCompared

(* Arrays of any length are near each other if and only if every pair of     *)
(* their floats is close: passed by at most max_ulp floats, equal zeros, or  *)
(* less than eps apart, whichever is the greater one, with infinities and    *)
(* denormals as with all others, for every max_ulp, eps and length           *)
(* (utils.c:651-709).                                                        *)
THEOREM FloatsAreNear == FloatSpec => []NearIsClose
<1>1. FloatInit => FloatInv
  BY DEF FloatInit, FloatInv
<1>2. FloatInv /\ [FloatNext \/ FloatsCompared]_near => FloatInv'
  BY FloatStep
<1>3. FloatInv => NearIsClose
  <2> SUFFICES ASSUME FloatInv, near # << >>,
                      \A i \in DOMAIN near.a : ~ IsNaN(near.a[i]) /\ ~ IsNaN(near.b[i])
               PROVE  near.result <=> \A i \in DOMAIN near.a :
                          Close(near.a[i], near.b[i], near.eps, near.max_ulp)
    BY DEF NearIsClose
  <2>1. IsComparison(near)
    BY DEF FloatInv
  <2>2. \A i \in DOMAIN near.a :
            NearAbsEpsUlp(near.a[i], near.b[i], near.eps, near.max_ulp)
            <=> Close(near.a[i], near.b[i], near.eps, near.max_ulp)
    <3> TAKE i \in DOMAIN near.a
    <3>1. near.a[i] \in Floats /\ near.b[i] \in Floats /\ near.max_ulp \in Nat
      BY <2>1 DEF IsComparison
    <3> QED
      BY <3>1, PairIsClose
  <2>3. near.result <=> \A i \in DOMAIN near.a :
            NearAbsEpsUlp(near.a[i], near.b[i], near.eps, near.max_ulp)
    BY <2>1 DEF IsComparison, NearArray
  <2> QED
    BY <2>2, <2>3
<1> QED
  BY <1>1, <1>2, <1>3, PTL DEF FloatSpec

-----------------------------------------------------------------------------
(* Masks.                                                                    *)
(* Induction from one number to the next.                                     *)
LEMMA StepByStep ==
  ASSUME NEW S, 0 \in S, \A n \in Nat : n \in S => n + 1 \in S
  PROVE  Nat \subseteq S
<1> DEFINE T == Nat \ S
<1> SUFFICES ASSUME T # {} PROVE FALSE
  OBVIOUS
<1> DEFINE m == Min(T)
<1>1. m \in T /\ \A i \in T : m <= i
  <2>1. T \subseteq Int /\ (\A i \in T : 0 <= i) /\ 0 \in Int
    OBVIOUS
  <2>2. T # {}
    OBVIOUS
  <2> HIDE DEF T
  <2> QED
    BY <2>1, <2>2, LeastElement
<1>2. m \in Nat /\ m \notin S
  BY <1>1
<1> HIDE DEF m
<1>5. m # 0 /\ m - 1 \in Nat
  BY <1>2
<1>3. m - 1 \in S
  <2>1. ~ (m <= m - 1)
    BY <1>2
  <2> QED
    BY <1>1, <1>5, <2>1
<1>4. m - 1 + 1 = m
  BY <1>2
<1> QED
  BY <1>2, <1>3, <1>4, <1>5

(* The powers of two.                                                        *)
LEMMA TwoToIs ==
  /\ TwoTo[0] = 1
  /\ \A n \in 1 .. IntBits - 1 : TwoTo[n] = 2 * TwoTo[n - 1]
  /\ \A n \in 0 .. IntBits - 1 : TwoTo[n] \in Nat \ {0}
<1> DEFINE Powers(f, t) == f = [n \in 0 .. t |-> IF n = 0 THEN 1 ELSE 2 * f[n - 1]]
           S == { t \in Nat : \E f : Powers(f, t) }
           l == IntBits - 1
<1>0. l \in Nat
  BY DEF IntBits
<1>1. 0 \in S
  <2> DEFINE f == [n \in 0 .. 0 |-> 1]
  <2>1. f = [n \in 0 .. 0 |-> IF n = 0 THEN 1 ELSE 2 * f[n - 1]]
    OBVIOUS
  <2> HIDE DEF f
  <2> QED
    BY <2>1
<1>2. ASSUME NEW t \in Nat, t \in S PROVE t + 1 \in S
  <2>1. PICK f : Powers(f, t)
    BY <1>2
  <2>2. \A n \in 0 .. t : f[n] = IF n = 0 THEN 1 ELSE 2 * f[n - 1]
    BY <2>1
  <2> HIDE DEF Powers
  <2> DEFINE u == t + 1
             h == [n \in 0 .. u |-> IF n = u THEN 2 * f[t] ELSE f[n]]
  <2>3. u \in Nat /\ u - 1 = t /\ u # 0
    OBVIOUS
  <2>4. \A n \in 0 .. u : n # u => n \in 0 .. t
    OBVIOUS
  <2>5. \A n \in 0 .. u : n # 0 => n - 1 \in 0 .. u /\ n - 1 # u
    OBVIOUS
  <2> HIDE DEF u
  <2>6. ASSUME NEW n \in 0 .. u
        PROVE  h[n] = IF n = 0 THEN 1 ELSE 2 * h[n - 1]
    <3>1. n # 0 => h[n - 1] = f[n - 1]
      BY <2>5
    <3>2. CASE n = u
      <4>1. h[n] = 2 * f[n - 1] /\ n # 0
        BY <2>3, <3>2
      <4> HIDE DEF h
      <4> QED
        BY <3>1, <4>1
    <3>3. CASE n # u
      <4>1. h[n] = f[n] /\ n \in 0 .. t
        BY <2>4, <3>3
      <4> HIDE DEF h
      <4> QED
        BY <2>2, <3>1, <4>1
    <3> QED
      BY <3>2, <3>3
  <2>7. h = [n \in 0 .. u |-> IF n = 0 THEN 1 ELSE 2 * h[n - 1]]
    <3>1. h = [n \in 0 .. u |-> h[n]]
      OBVIOUS
    <3> HIDE DEF h
    <3> QED
      BY <2>6, <3>1
  <2> HIDE DEF h
  <2>8. u \in S
    BY <2>3, <2>7 DEF Powers
  <2> QED
    BY <2>8 DEF u
<1>3. Nat \subseteq S
  <2> HIDE DEF S
  <2> QED
    BY <1>1, <1>2, StepByStep
<1>4. \E f : Powers(f, l)
  <2>1. l \in S
    <3> HIDE DEF S
    <3> QED
      BY <1>0, <1>3
  <2> QED
    BY <2>1
<1> DEFINE e == TwoTo
<1>5. e = [n \in 0 .. l |-> IF n = 0 THEN 1 ELSE 2 * e[n - 1]]
  BY <1>4 DEF TwoTo
<1> HIDE DEF e
<1>6. e[0] = 1 /\ \A n \in 1 .. l : e[n] = 2 * e[n - 1]
  BY <1>0, <1>5
<1> DEFINE P == { n \in Nat : n <= l => e[n] \in Nat \ {0} }
<1>7. 0 \in P
  BY <1>6
<1>8. ASSUME NEW n \in Nat, n \in P PROVE n + 1 \in P
  <2>1. CASE n + 1 <= l
    <3>1. n + 1 \in 1 .. l /\ n <= l /\ (n + 1) - 1 = n
      BY <1>0, <2>1
    <3>2. e[n + 1] = 2 * e[n] /\ e[n] \in Nat \ {0}
      BY <1>6, <1>8, <3>1
    <3> QED
      BY <3>2
  <2> QED
    BY <2>1
<1>9. Nat \subseteq P
  <2> HIDE DEF P
  <2> QED
    BY <1>7, <1>8, StepByStep
<1>10. \A n \in 0 .. l : e[n] \in Nat \ {0}
  <2> TAKE n \in 0 .. l
  <2>1. n \in P /\ n <= l
    BY <1>0, <1>9
  <2> QED
    BY <2>1
<1> QED
  BY <1>6, <1>10 DEF e

(* The upper bits of a number, and the lowest one.                             *)
Halved(a) == a \div 2
LEMMA Halves ==
  ASSUME NEW a \in Nat
  PROVE  /\ Halved(a) \in Nat /\ Halved(a) <= a /\ a % 2 \in {0, 1}
         /\ a = 2 * Halved(a) + (a % 2)
BY DEF Halved

(* The pixels.                                                               *)
LEMMA PixelsAre ==
  /\ 0 \in Pixels /\ Pixels \subseteq Nat
  /\ \A a \in Pixels : Halved(a) \in Pixels /\ 0 .. a \subseteq Pixels
<1> DEFINE w == TwoTo[Bits]
<1>1. w \in Nat \ {0}
  BY TwoToIs, BitsAssumption DEF IntBits
<1> HIDE DEF w
<1>2. Pixels = 0 .. w - 1
  BY DEF Pixels, w
<1>3. ASSUME NEW a \in Pixels PROVE Halved(a) \in Pixels
  <2>1. a \in Nat /\ a <= w - 1
    BY <1>1, <1>2
  <2>2. Halved(a) \in Nat /\ Halved(a) <= a
    BY <2>1, Halves
  <2> QED
    BY <1>1, <1>2, <2>1, <2>2
<1> QED
  BY <1>1, <1>2, <1>3

(* a & b bit by bit, from the lowest one.                                     *)
LEMMA AndIs ==
  /\ \A a, b \in Pixels : And[0][a][b] = 0
  /\ \A n \in 1 .. Bits : \A a, b \in Pixels :
        And[n][a][b] = 2 * And[n - 1][Halved(a)][Halved(b)] + (a % 2) * (b % 2)
<1> DEFINE One(f, n) == [ a \in Pixels |-> [ b \in Pixels |->
                IF n = 0 THEN 0 ELSE 2 * f[n - 1][Halved(a)][Halved(b)] + (a % 2) * (b % 2) ] ]
           Ands(f, t) == f = [n \in 0 .. t |-> One(f, n)]
           S == { t \in Nat : \E f : Ands(f, t) }
<1>0. Bits \in Nat
  BY BitsAssumption DEF IntBits
<1>1. 0 \in S
  <2> DEFINE f == [n \in 0 .. 0 |-> [ a \in Pixels |-> [ b \in Pixels |-> 0 ] ]]
  <2>1. \A n \in 0 .. 0 : f[n] = One(f, n)
    OBVIOUS
  <2>2. f = [n \in 0 .. 0 |-> f[n]]
    OBVIOUS
  <2> HIDE DEF f, One
  <2>3. Ands(f, 0)
    BY <2>1, <2>2
  <2> QED
    BY <2>3
<1>2. ASSUME NEW t \in Nat, t \in S PROVE t + 1 \in S
  <2>1. PICK f : Ands(f, t)
    BY <1>2
  <2>2. \A n \in 0 .. t : f[n] = One(f, n)
    <3> HIDE DEF One
    <3> QED
      BY <2>1
  <2> HIDE DEF Ands
  <2> DEFINE u == t + 1
             h == [n \in 0 .. u |-> IF n = u THEN One(f, u) ELSE f[n]]
  <2>3. u \in Nat /\ u - 1 = t /\ u # 0
    OBVIOUS
  <2>4. \A n \in 0 .. u : n # u => n \in 0 .. t
    OBVIOUS
  <2>5. \A n \in 0 .. u : n # 0 => n - 1 \in 0 .. u /\ n - 1 # u
    OBVIOUS
  <2> HIDE DEF u
  <2>6. ASSUME NEW n \in 0 .. u
        PROVE  h[n] = One(h, n)
    <3>0. n # 0 => h[n - 1] = f[n - 1]
      <4> HIDE DEF One
      <4> QED
        BY <2>5
    <3>1. One(h, n) = One(f, n)
      <4> HIDE DEF h
      <4> QED
        BY <3>0
    <3> HIDE DEF One
    <3>2. CASE n = u
      BY <3>1, <3>2
    <3>3. CASE n # u
      BY <2>2, <2>4, <3>1, <3>3
    <3> QED
      BY <3>2, <3>3
  <2>7. h = [n \in 0 .. u |-> One(h, n)]
    <3>1. h = [n \in 0 .. u |-> h[n]]
      OBVIOUS
    <3> HIDE DEF h, One
    <3> QED
      BY <2>6, <3>1
  <2> HIDE DEF h, One
  <2>8. u \in S
    BY <2>3, <2>7 DEF Ands
  <2> QED
    BY <2>8 DEF u
<1>3. Nat \subseteq S
  <2> HIDE DEF S
  <2> QED
    BY <1>1, <1>2, StepByStep
<1>4. \E f : Ands(f, Bits)
  <2>1. Bits \in S
    <3> HIDE DEF S
    <3> QED
      BY <1>0, <1>3
  <2> QED
    BY <2>1
<1> DEFINE e == And
<1>5. e = [n \in 0 .. Bits |-> One(e, n)]
  BY <1>4 DEF And, Halved
<1> HIDE DEF e
<1>6. \A n \in 0 .. Bits : e[n] = One(e, n)
  <2> HIDE DEF One
  <2> QED
    BY <1>5
<1>7. \A a, b \in Pixels : e[0][a][b] = 0
  <2>1. 0 \in 0 .. Bits
    BY <1>0
  <2>2. e[0] = One(e, 0)
    BY <1>6, <2>1
  <2> QED
    BY <2>2
<1>8. ASSUME NEW n \in 1 .. Bits, NEW a \in Pixels, NEW b \in Pixels
      PROVE  e[n][a][b] = 2 * e[n - 1][Halved(a)][Halved(b)] + (a % 2) * (b % 2)
  <2>1. n \in 0 .. Bits /\ n # 0
    BY <1>0
  <2>2. e[n] = One(e, n)
    BY <1>6, <2>1
  <2> QED
    BY <2>1, <2>2
<1> QED
  BY <1>7, <1>8 DEF e

(* No bit comes out of & that is not in the mask.                             *)
LEMMA AndBound ==
  ASSUME NEW a \in Pixels, NEW b \in Pixels
  PROVE  And[Bits][a][b] \in 0 .. b
<1> DEFINE S == { n \in Nat : n <= Bits => \A x, y \in Pixels : And[n][x][y] \in 0 .. y }
<1>0. Bits \in Nat
  BY BitsAssumption DEF IntBits
<1>1. 0 \in S
  BY AndIs, PixelsAre
<1>2. ASSUME NEW t \in Nat, t \in S PROVE t + 1 \in S
  <2> DEFINE n == t + 1
  <2>1. CASE n <= Bits
    <3>1. n \in 1 .. Bits /\ n - 1 = t /\ t <= Bits
      BY <1>0, <2>1
    <3>2. \A x, y \in Pixels : And[t][x][y] \in 0 .. y
      BY <1>2, <3>1
    <3> HIDE DEF n
    <3>3. ASSUME NEW x \in Pixels, NEW y \in Pixels PROVE And[n][x][y] \in 0 .. y
      <4> DEFINE r == And[t][Halved(x)][Halved(y)]
                 p == x % 2
                 q == y % 2
      <4>1. And[n][x][y] = 2 * r + p * q
        BY <3>1, AndIs
      <4>2. r \in 0 .. Halved(y)
        BY <3>2, PixelsAre
      <4>3. p \in {0, 1} /\ q \in {0, 1} /\ y = 2 * Halved(y) + q /\ Halved(y) \in Nat
        BY Halves, PixelsAre
      <4> HIDE DEF r, p, q
      <4>4. p * q \in Nat /\ p * q <= q
        <5>1. CASE p = 0
          BY <4>3, <5>1
        <5>2. CASE p = 1
          BY <4>3, <5>2
        <5> QED
          BY <4>3, <5>1, <5>2
      <4> DEFINE pq == p * q
      <4> HIDE DEF pq
      <4>5. pq \in Nat /\ pq <= q /\ And[n][x][y] = 2 * r + pq
        BY <4>1, <4>4 DEF pq
      <4> QED
        BY <4>2, <4>3, <4>5
    <3>4. n \in S
      BY <3>1, <3>3
    <3> QED
      BY <3>4 DEF n
  <2> QED
    BY <2>1
<1>3. Nat \subseteq S
  <2> HIDE DEF S
  <2> QED
    BY <1>1, <1>2, StepByStep
<1>4. Bits \in S
  <2> HIDE DEF S
  <2> QED
    BY <1>0, <1>3
<1> QED
  BY <1>0, <1>4

(* A mask without gaps takes nothing from what is no greater.                  *)
LEMMA AndOfLow ==
  ASSUME NEW a \in Pixels, NEW b \in Pixels, NEW k \in 0 .. Bits, b + 1 = TwoTo[k], a <= b
  PROVE  And[Bits][a][b] = a
<1> DEFINE S == { n \in Nat : n <= Bits => \A x, y \in Pixels : \A j \in 0 .. n :
                      y + 1 = TwoTo[j] /\ x <= y => And[n][x][y] = x }
<1>0. Bits \in Nat /\ Bits <= IntBits - 1 /\ IntBits \in Nat
  BY BitsAssumption DEF IntBits
<1>1. 0 \in S
  <2> SUFFICES ASSUME NEW x \in Pixels, NEW y \in Pixels, y + 1 = TwoTo[0], x <= y
               PROVE  And[0][x][y] = x
    OBVIOUS
  <2>1. x \in Nat /\ y \in Nat /\ TwoTo[0] = 1
    BY PixelsAre, TwoToIs
  <2> QED
    BY <2>1, AndIs
<1>2. ASSUME NEW t \in Nat, t \in S PROVE t + 1 \in S
  <2> DEFINE n == t + 1
  <2>1. CASE n <= Bits
    <3>1. n \in 1 .. Bits /\ n - 1 = t /\ t <= Bits
      BY <1>0, <2>1
    <3>2. \A x, y \in Pixels : \A j \in 0 .. t : y + 1 = TwoTo[j] /\ x <= y => And[t][x][y] = x
      BY <1>2, <3>1
    <3>a. \A j \in 0 .. n : j # 0 => j - 1 \in 0 .. t /\ j \in 1 .. IntBits - 1
      BY <1>0, <3>1
    <3> HIDE DEF n
    <3>3. ASSUME NEW x \in Pixels, NEW y \in Pixels, NEW j \in 0 .. n, y + 1 = TwoTo[j], x <= y
          PROVE  And[n][x][y] = x
      <4> DEFINE hx == Halved(x)
                 hy == Halved(y)
                 p == x % 2
                 q == y % 2
                 r == And[t][hx][hy]
      <4>1. And[n][x][y] = 2 * r + p * q
        BY <3>1, AndIs
      <4>2. /\ p \in {0, 1} /\ x = 2 * hx + p /\ hx \in Nat /\ x \in Nat /\ hx \in Pixels
            /\ q \in {0, 1} /\ y = 2 * hy + q /\ hy \in Nat /\ y \in Nat /\ hy \in Pixels
        BY Halves, PixelsAre
      <4> HIDE DEF hx, hy, p, q
      <4>3. CASE j = 0
        <5>1. y = 0 /\ TwoTo[0] = 1
          BY <3>3, <4>2, <4>3, TwoToIs
        <5>2. x = 0 /\ hx = 0 /\ hy = 0 /\ p = 0 /\ q = 0
          BY <3>3, <4>2, <5>1
        <5>3. r = 0
          BY <3>2, <4>2, <5>1, <5>2
        <5> QED
          BY <4>1, <5>2, <5>3
      <4>4. CASE j # 0
        <5>1. j - 1 \in 0 .. t /\ j \in 1 .. IntBits - 1
          BY <3>a, <4>4
        <5> DEFINE w == TwoTo[j - 1]
        <5>2. TwoTo[j] = 2 * w /\ w \in Nat
          <6>1. j - 1 \in 0 .. IntBits - 1
            BY <1>0, <5>1
          <6> QED
            BY <5>1, <6>1, TwoToIs
        <5> HIDE DEF w
        <5>3. y + 1 = 2 * w
          BY <3>3, <5>2
        <5>4. q = 1 /\ hy + 1 = w /\ hx <= hy
          BY <3>3, <4>2, <5>2, <5>3
        <5>5. r = hx
          BY <3>2, <4>2, <5>1, <5>4 DEF w
        <5>6. p * q = p
          BY <4>2, <5>4
        <5> DEFINE pq == p * q
        <5> HIDE DEF pq
        <5>7. And[n][x][y] = 2 * hx + pq /\ pq = p
          BY <4>1, <5>5, <5>6 DEF pq
        <5> QED
          BY <4>2, <5>7
      <4> QED
        BY <4>3, <4>4
    <3>4. n \in S
      BY <3>1, <3>3
    <3> QED
      BY <3>4 DEF n
  <2> QED
    BY <2>1
<1>3. Nat \subseteq S
  <2> HIDE DEF S
  <2> QED
    BY <1>1, <1>2, StepByStep
<1>4. Bits \in S
  <2> HIDE DEF S
  <2> QED
    BY <1>0, <1>3
<1> QED
  BY <1>0, <1>4

(* A mask that is shifted down is not greater.                                *)
LEMMA ShiftedDown ==
  ASSUME NEW x \in Nat, NEW y \in ShiftRand(x)
  PROVE  y \in 0 .. x
<1>1. PICK s \in 0 .. IntBits - 2 : y = x \div TwoTo[s]
  BY DEF ShiftRand
<1> DEFINE d == TwoTo[s]
<1>2. d \in Nat \ {0}
  BY TwoToIs DEF IntBits
<1> HIDE DEF d
<1> DEFINE z == x \div d
<1>3. z \in Nat /\ x = z * d + (x % d) /\ x % d \in Nat
  BY <1>2
<1> HIDE DEF z
<1>4. z <= z * d
  BY <1>2, <1>3
<1>5. z * d \in Nat
  BY <1>2, <1>3
<1> QED
  BY <1>1, <1>3, <1>4, <1>5 DEF z, d

-----------------------------------------------------------------------------
(* The mask of a run is not greater than that of the pixels, and no pixel is.  *)
MaskInv ==
    /\ init_mask.mask_pixel \in Pixels
    /\ mask \in 0 .. init_mask.mask_pixel /\ mode \in Patterns8
    /\ pixel \in 0 .. init_mask.mask_pixel

(* One element, whatever the run.                                             *)
LEMMA FillStep ==
  ASSUME MaskInv, NEW length, NEW m, NEW k \in 0 .. init_mask.mask_pixel, Fill(length, m, k),
         m \in Patterns8
  PROVE  MaskInv'
<1> DEFINE top == init_mask.mask_pixel
<1>1. top \in Pixels /\ top \in Nat /\ k \in Pixels
  BY PixelsAre DEF MaskInv
<1>2. init_mask' = init_mask /\ mask' = k /\ mode' = m
  BY DEF Fill
<1>3. PICK low \in Masked[k] : pixel' \in Drawn(m, pos, low, top)
  BY DEF Fill
<1> HIDE DEF top
<1>4. Masked[k] \subseteq 0 .. k /\ Masked[top] \subseteq 0 .. top
  BY <1>1, AndBound DEF Masked
<1>5. low \in 0 .. top /\ High(top, low) \in 0 .. top
  <2>1. k \in Nat /\ k <= top /\ low \in 0 .. k
    BY <1>1, <1>4 DEF top
  <2> QED
    BY <1>1, <2>1 DEF High
<1>6. pixel' \in 0 .. top
  <2>1. 0 \in 0 .. top /\ top \in 0 .. top
    BY <1>1
  <2> DEFINE R == 0 .. top
             high == High(top, low)
  <2>2. 0 \in R /\ top \in R /\ low \in R /\ high \in R /\ Masked[top] \subseteq R
    BY <1>4, <1>5, <2>1
  <2> HIDE DEF R, high
  <2>3. Drawn(m, pos, low, top) \subseteq R
    <3>1. CASE m = "zero"
      BY <2>2, <3>1 DEF Drawn
    <3>2. CASE m = "one"
      BY <2>2, <3>2 DEF Drawn
    <3>3. CASE m = "rand"
      BY <2>2, <3>3 DEF Drawn
    <3>4. CASE m = "low"
      BY <2>2, <3>4 DEF Drawn
    <3>5. CASE m = "high"
      BY <2>2, <3>5 DEF Drawn, high
    <3>6. CASE m = "altlo"
      BY <2>2, <3>6 DEF Drawn, high
    <3>7. CASE m = "althi"
      BY <2>2, <3>7 DEF Drawn, high
    <3>8. CASE m = "mix"
      BY <2>2, <3>8 DEF Drawn, high
    <3> QED
      BY <3>1, <3>2, <3>3, <3>4, <3>5, <3>6, <3>7, <3>8 DEF Patterns8
  <2> QED
    BY <1>3, <2>3 DEF R
<1> QED
  BY <1>1, <1>2, <1>6 DEF MaskInv, top

(* Whatever the mask of the pixels and the masks and patterns of the runs, no  *)
(* value is greater than the mask of the pixels; if it has no gaps, all values *)
(* are within it, the low ones, their high counterparts and all others        *)
(* (utils.c:434-462).                                                         *)
THEOREM PixelsStayBelow == MaskSpec => []PixelsUpToMask
<1>1. MaskInit => MaskInv
  <2> SUFFICES ASSUME MaskInit PROVE MaskInv
    OBVIOUS
  <2>1. init_mask.mask_pixel \in Pixels /\ mask = init_mask.mask_pixel /\ pixel = 0 /\ mode \in Patterns8
    BY DEF MaskInit, Patterns8
  <2>2. \A n \in Nat : 0 \in 0 .. n /\ n \in 0 .. n
    OBVIOUS
  <2>3. init_mask.mask_pixel \in Nat
    BY <2>1, PixelsAre
  <2> QED
    BY <2>1, <2>2, <2>3 DEF MaskInv
<1>2. MaskInv /\ [MaskNext \/ MaskDone]_maskVars => MaskInv'
  <2> SUFFICES ASSUME MaskInv, [MaskNext \/ MaskDone]_maskVars PROVE MaskInv'
    OBVIOUS
  <2>1. CASE BeginRun
    <3>1. PICK n \in ShiftRand(init_mask.width), m \in Patterns8, k \in ShiftRand(init_mask.mask_pixel) :
              Fill(IF n < 1 THEN 1 ELSE n, m, k)
      BY <2>1 DEF BeginRun
    <3>2. k \in 0 .. init_mask.mask_pixel
      BY ShiftedDown, PixelsAre DEF MaskInv
    <3> QED
      BY <3>1, <3>2, FillStep
  <2>2. CASE ContinueRun
    BY <2>2, FillStep DEF ContinueRun, MaskInv
  <2>3. CASE MaskDone \/ UNCHANGED maskVars
    BY <2>3 DEF MaskDone, maskVars, MaskInv
  <2> QED
    BY <2>1, <2>2, <2>3 DEF MaskNext
<1>3. MaskInv => PixelsUpToMask
  <2> SUFFICES ASSUME MaskInv PROVE PixelsUpToMask
    OBVIOUS
  <2> DEFINE top == init_mask.mask_pixel
  <2>1. top \in Pixels /\ top \in Nat /\ pixel \in 0 .. top /\ pixel \in Pixels
    BY PixelsAre DEF MaskInv
  <2> HIDE DEF top
  <2>2. ASSUME NEW k \in 0 .. Bits, top + 1 = TwoTo[k] PROVE pixel \in Masked[top]
    <3>1. And[Bits][pixel][top] = pixel
      BY <2>1, <2>2, AndOfLow
    <3> QED
      BY <2>1, <3>1 DEF Masked
  <2> QED
    BY <2>1, <2>2 DEF PixelsUpToMask, top
<1> QED
  BY <1>1, <1>2, <1>3, PTL DEF MaskSpec
=============================================================================
