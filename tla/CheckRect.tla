----------------------------- MODULE CheckRect -----------------------------
(***************************************************************************)
(* The comparison of two rectangular buffers with their padding (utils.c),    *)
(* and the buffers that BUF_RECT declares for it (utils.h).  One buffer is    *)
(* uniform; the other one differs from it in a set of elements, so a buffer   *)
(* is the set of the indices, from its origin, at which it differs.          *)
(***************************************************************************)
EXTENDS Integers, FiniteSetsExt, Sequences

CONSTANTS
    Rects,      \* the calls and their buffers, see Rect
    Overwrites, \* for each of them the sets of indices, from the origin, that may differ
    Outputs     \* [term, verbose]: get_terminal_width() and what fail_internal() returns

(* CHECKASM_ROUND for an alignment, which is a power of two, and without one.  *)
Round(x, a) == IF a = 0 THEN 0 ELSE ((x + a - 1) \div a) * a

(* BUF_RECT: how many elements a buffer has before and after its origin.      *)
RectStride(w) == Round(w, 64) + 64
OriginUnpadded(w) == 64  \* faulty: no lines above the usable region
Origin(w) == RectStride(w) * 16 + 64
BufSize(w, h) == (h + 32) * RectStride(w) + 64

Rect ==
    [ w : Nat, h : Nat, align_w : Nat, align_h : Nat, padding : Nat,
      buf_w1 : Nat, buf_w2 : Nat, buf_h : Nat, stride1 : Int, stride2 : Int, elem_size : Nat \ {0} ]
ASSUME RectsAssumption ==
    /\ Rects \subseteq Rect /\ Overwrites \in [Rects -> SUBSET SUBSET Int]
    /\ Outputs \subseteq [term : Int, verbose : BOOLEAN]
(* Where lines are compared above and below, a line with its padding and the   *)
(* elements beside it ends before the next one begins.                       *)
ASSUME LinesAssumption ==
    \A c \in Rects : c.align_h > 0 =>
        c.stride2 > c.w + 2 * c.padding /\ c.stride2 > Round(c.w, c.align_w) + 2 * c.padding
(* Each buffer is a part of a BUF_RECT of its own width that leaves room for   *)
(* the padding, and below it for the alignment, or a line that needs no        *)
(* stride; of their heights buf_h is the lesser one.                         *)
ASSUME PartsAssumption ==
    \A c \in Rects :
        /\ c.stride1 \in {0, RectStride(c.buf_w1)} /\ c.stride2 \in {0, RectStride(c.buf_w2)}
        /\ \A w \in {c.buf_w1, c.buf_w2} :
               /\ c.w + c.padding <= RectStride(w)
               /\ Round(c.w, c.align_w) + c.padding <= RectStride(w)
        /\ c.padding <= 16 /\ c.h <= c.buf_h
        /\ Round(c.h, c.align_h) + c.padding <= c.buf_h + 16

VARIABLES
    check,  \* the call: one of Rects, and the width of the terminal, verbosity and
            \* the differing indices
    turn,   \* the region of the buffer that comes next, 0 before the call
    err,    \* a failure was recorded and its regions are printed
    result, \* "none"; "same" for 0 and "differs" for 1; "endless": the hexdump does not end
    marked,  \* elements that are marked as different in the hexdump
    read    \* indices of the buffers that were read, as spans

rectVars == <<check, turn, err, result, marked, read>>

-----------------------------------------------------------------------------
(* Two buffers of the same rectangle.                                        *)
InRect(W, H, w, h, align_w, align_h, padding, elem_size) ==
    [ w |-> w, h |-> h, align_w |-> align_w, align_h |-> align_h, padding |-> padding,
      buf_w1 |-> W, buf_w2 |-> W, buf_h |-> H, stride1 |-> RectStride(W), stride2 |-> RectStride(W),
      elem_size |-> elem_size ]

(* The regions that are compared, in their order (DEF_CHECKASM_CHECK_BODY).   *)
Region(y1, y2, x1, x2) == [ystart |-> y1, yend |-> y2, xstart |-> x1, xend |-> x2]
RightAtWidth(c) == Region(0, c.h, c.w, c.w + c.padding)  \* faulty: no overwrite is tolerated
Right(c) ==
    LET aligned_w == Round(c.w, c.align_w)
    IN  Region(0, c.h, aligned_w, aligned_w + c.padding)
Inner(c) == Region(0, c.h, 0, c.w)
Above(c) == Region(- c.padding, 0, - c.padding, c.w + c.padding)
Below(c) ==
    LET aligned_h == Round(c.h, c.align_h)
    IN  Region(aligned_h, aligned_h + c.padding, - c.padding, c.w + c.padding)
Left(c) == Region(0, c.h, - c.padding, 0)
Regions(c) ==
    IF c.align_h >= 1 THEN << Inner(c), Above(c), Below(c), Left(c), Right(c) >>
    ELSE << Inner(c), Left(c), Right(c) >>

Columns(r) == r.xstart .. r.xend - 1
RowDiffers(c, r, y) == \E x \in Columns(r) : y * c.stride2 + x \in c.differ
DifferingRows(c, r) == { y \in r.ystart .. r.yend - 1 : RowDiffers(c, r, y) }

(* PRINT_RECT: the rows from yprint on, each in pieces that fit the terminal.  *)
(* The second buffer begins at ystart * stride1.                             *)
DisplayElems(c, r) == Min({(c.term - 11) \div c.elem_size, r.xend - r.xstart})
PiecesOnce(c, r) == { x \in Columns(r) : x < r.xstart + DisplayElems(c, r) }  \* faulty: one piece only
Pieces(c, r) ==
    UNION { x .. Min({x + DisplayElems(c, r), r.xend}) - 1 :
            x \in { x \in Columns(r) : (x - r.xstart) % DisplayElems(c, r) = 0 } }
Marked(c, r, yprint) ==
    { e \in (yprint .. r.yend - 1) \X Pieces(c, r) :
        yprint * c.stride1 + (e[1] - yprint) * c.stride2 + e[2] \in c.differ }

(* The indices that rows of a region have in a buffer, from its origin: those   *)
(* that are compared, and those of the hexdump, where both buffers begin at    *)
(* the stride of the first one.                                              *)
Span(c, r, buf, dump, from, to) ==
    LET stride == IF buf = 1 THEN c.stride1 ELSE c.stride2
        start  == from * (IF dump THEN c.stride1 ELSE stride)
    IN  [ buf |-> buf, dump |-> dump, from |-> from,
          first |-> start + r.xstart, last |-> start + (to - from) * stride + r.xend - 1 ]
SpansCompared(c, r, last) == { Span(c, r, buf, FALSE, r.ystart, last) : buf \in {1, 2} }
SpansDumped(c, r, yprint) == { Span(c, r, buf, TRUE, yprint, r.yend - 1) : buf \in {1, 2} }

-----------------------------------------------------------------------------
RectInit ==
    /\ check = << >> /\ turn = 0 /\ err = FALSE /\ result = "none"
    /\ marked = {} /\ read = {}

CallCheck ==
    /\ turn = 0 /\ turn' = 1
    /\ \E c \in Rects, o \in Outputs : \E differ \in Overwrites[c] :
          check' = [ w |-> c.w, h |-> c.h, align_w |-> c.align_w, align_h |-> c.align_h,
                     padding |-> c.padding,
                     buf_w1 |-> c.buf_w1, buf_w2 |-> c.buf_w2, buf_h |-> c.buf_h,
                     stride1 |-> c.stride1, stride2 |-> c.stride2,
                     elem_size |-> c.elem_size, term |-> o.term, verbose |-> o.verbose,
                     differ |-> differ ]
    /\ UNCHANGED <<err, result, marked, read>>

(* CHECK_RECT of one region: its rows until the first that differs.  Unless   *)
(* check_err() ends the call, the region is printed from there or, below the  *)
(* top, as a whole.                                                          *)
CheckRegion ==
    /\ turn > 0 /\ result = "none" /\ turn <= Len(Regions(check))
    /\ LET r == Regions(check)[turn]
           rows == DifferingRows(check, r)
           y == Min(rows)
           yprint == IF y < 0 THEN y ELSE r.ystart
           none == r.ystart = r.yend \/ r.xstart = r.xend
           compared == IF none THEN {} ELSE SpansCompared(check, r, IF rows = {} THEN r.yend - 1 ELSE y)
       IN  IF rows = {} THEN
               /\ turn' = turn + 1 /\ read' = read \cup compared
               /\ UNCHANGED <<err, result, marked>>
           ELSE IF ~ err /\ ~ check.verbose THEN
               /\ result' = "differs" /\ read' = read \cup compared
               /\ UNCHANGED <<turn, err, marked>>
           ELSE
               /\ err' = TRUE
               /\ IF DisplayElems(check, r) <= 0 THEN
                      /\ result' = "endless" /\ read' = read \cup compared
                      /\ UNCHANGED <<turn, marked>>
                  ELSE
                      /\ marked' = marked \cup Marked(check, r, yprint)
                      /\ read' = read \cup compared \cup SpansDumped(check, r, yprint)
                      /\ turn' = turn + 1 /\ UNCHANGED result
    /\ UNCHANGED check
ReturnCheck ==
    /\ turn > 0 /\ result = "none" /\ turn = Len(Regions(check)) + 1
    /\ result' = IF err THEN "differs" ELSE "same"
    /\ UNCHANGED <<check, turn, err, marked, read>>

RectNext == CallCheck \/ CheckRegion \/ ReturnCheck
RectDone == result # "none" /\ UNCHANGED rectVars
RectSpec == RectInit /\ [][RectNext \/ RectDone]_rectVars

-----------------------------------------------------------------------------
Element(y, x) == y * check.stride2 + x
AlignedW == Round(check.w, check.align_w)
AlignedH == Round(check.h, check.align_h)

(* What the caller asks for: the rectangle, and the padding beside its rows    *)
(* and above and below its columns, past the alignment.                      *)
Watched ==
    LET rows == 0 .. check.h - 1
        columns == 0 .. check.w - 1
        beside == (- check.padding .. -1) \cup (AlignedW .. AlignedW + check.padding - 1)
        above  == IF check.align_h = 0 THEN {}
                  ELSE (- check.padding .. -1) \cup (AlignedH .. AlignedH + check.padding - 1)
    IN  (rows \X columns) \cup (rows \X beside) \cup (above \X columns)
(* And what it allows: to write up to the alignment, and far away.            *)
Tolerated ==
    { e \in (- check.padding - 1 .. AlignedH + check.padding)
            \X (- check.padding - 1 .. AlignedW + check.padding) :
        \/ e[1] \in 0 .. Max({check.h, AlignedH}) - 1 /\ e[2] \in check.w .. AlignedW - 1
        \/ check.align_h > 0 /\ e[1] \in check.h .. AlignedH - 1 /\ e[2] \in 0 .. AlignedW - 1
        \/ check.align_h = 0 /\ e[1] \notin 0 .. check.h - 1
        \/ e[1] < - check.padding }

(* A difference in the rectangle or in its padding fails, with or without      *)
(* output and wherever else the buffers differ; a write that the alignment     *)
(* allows does not (utils.c:780-821).  Of the corners of the padding neither  *)
(* is said.                                                                  *)
OverwritesCaught ==
    result \in {"same", "differs"} =>
        /\ (\E e \in Watched : Element(e[1], e[2]) \in check.differ) => result = "differs"
        /\ check.differ \subseteq { Element(e[1], e[2]) : e \in Tolerated } =>
              result = "same" \/ \E e \in Watched : Element(e[1], e[2]) \in check.differ

Within(i) ==
    LET w == IF i.buf = 1 THEN check.buf_w1 ELSE check.buf_w2
    IN  i.first >= - Origin(w) /\ i.last < BufSize(w, check.buf_h) - Origin(w)

(* Neither the comparison nor the hexdump reads outside of the BUF_RECT of     *)
(* either buffer, for a part of it with its padding and any alignment up to   *)
(* half of the lines around it (utils.h:683-690, utils.c:750-797).  With       *)
(* unlike strides this is not asked of the hexdump of lines above or below    *)
(* the rectangle: it starts the second buffer at the stride of the first       *)
(* (utils.c:753) and reads outside of it.                                    *)
ReadsInRect ==
    turn > 0 =>
        \A i \in read :
            (i.dump => check.stride1 = check.stride2 \/ i.from = 0) => Within(i)

(* The hexdump of a failure shows every difference of the watched elements,    *)
(* however the rows are broken into lines; with buffers of unlike strides this *)
(* goes for the rectangle alone (utils.c:750-778).                           *)
DifferencesShown ==
    result = "differs" /\ check.verbose =>
        \A e \in Watched :
            (check.stride1 = check.stride2 \/ e[1] \in 0 .. check.h - 1) =>
                (Element(e[1], e[2]) \in check.differ => e \in marked)
=============================================================================
