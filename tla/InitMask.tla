------------------------------ MODULE InitMask ------------------------------
(***************************************************************************)
(* checkasm_init() and its masked variants (utils.c): runs of a random        *)
(* length, each of a random pattern with a mask of random width, whose low     *)
(* and high values are drawn anew for every element.                         *)
(***************************************************************************)
EXTENDS Integers

CONSTANTS
    Bits,     \* width of an element
    MaxWidth  \* bound on the elements of a buffer

IntBits == 32
ASSUME BitsAssumption == Bits \in 1 .. IntBits - 1

TwoTo[n \in 0 .. IntBits - 1] == IF n = 0 THEN 1 ELSE 2 * TwoTo[n - 1]
Pixels == 0 .. TwoTo[Bits] - 1
Patterns8 == {"zero", "one", "rand", "low", "high", "altlo", "althi", "mix"}

VARIABLES
    init_mask,  \* [width, mask_pixel], the arguments
    pos,        \* elements that are initialised
    step,       \* how many of the run are left
    mode,       \* the pattern of the run
    mask,       \* its mask
    pixel       \* the last element that was initialised

maskVars == <<init_mask, pos, step, mode, mask, pixel>>

(* a & b, of numbers of n bits.                                              *)
And[n \in 0 .. Bits] ==
    [ a \in Pixels |-> [ b \in Pixels |->
          IF n = 0 THEN 0 ELSE 2 * And[n - 1][a \div 2][b \div 2] + (a % 2) * (b % 2) ] ]

(* A random number & m.                                                      *)
Masked == [m \in Pixels |-> { And[Bits][r][m] : r \in Pixels }]

(* shift_rand(): x shifted down by less than its bits.                        *)
ShiftRand(x) == { x \div TwoTo[s] : s \in { s \in 0 .. IntBits - 2 : s = 0 \/ TwoTo[s] <= x } }

(* The greater counterpart of a low value.                                   *)
HighComplement(mask_pixel, low) == TwoTo[Bits] - 1 - low  \* faulty: of all bits
High(mask_pixel, low) == mask_pixel - low

(* What an element may become in a run.                                      *)
Drawn(m, at, low, mask_pixel) ==
    LET high == High(mask_pixel, low)
    IN  CASE m = "zero"  -> {0}
          [] m = "one"   -> {mask_pixel}
          [] m = "rand"  -> Masked[mask_pixel]
          [] m = "low"   -> {low}
          [] m = "high"  -> {high}
          [] m = "altlo" -> { IF at % 2 = 1 THEN high ELSE low }
          [] m = "althi" -> { IF at % 2 = 1 THEN low ELSE high }
          [] m = "mix"   -> {low, high}

-----------------------------------------------------------------------------
MaskInit ==
    /\ init_mask \in [width : 0 .. MaxWidth, mask_pixel : Pixels]
    /\ pos = 0 /\ step = 0 /\ mode = "zero" /\ mask = init_mask.mask_pixel /\ pixel = 0

(* One turn of the loop, the first of a run or another one.                   *)
Fill(length, m, k) ==
    /\ \E low \in Masked[k] : pixel' \in Drawn(m, pos, low, init_mask.mask_pixel)
    /\ pos' = pos + 1 /\ step' = length - 1 /\ mode' = m /\ mask' = k
    /\ UNCHANGED init_mask
BeginRun ==
    /\ pos < init_mask.width /\ step = 0
    /\ \E n \in ShiftRand(init_mask.width), m \in Patterns8, k \in ShiftRand(init_mask.mask_pixel) :
          Fill(IF n < 1 THEN 1 ELSE n, m, k)
ContinueRun == pos < init_mask.width /\ step # 0 /\ Fill(step, mode, mask)

MaskNext == BeginRun \/ ContinueRun
MaskDone == pos >= init_mask.width /\ UNCHANGED maskVars
MaskSpec == MaskInit /\ [][MaskNext \/ MaskDone]_maskVars

-----------------------------------------------------------------------------
(* No value is greater than the mask.  So if the mask has no gaps, as those of *)
(* pixels of 8 to 16 bits have none, every value is within it: both the low    *)
(* values of a run, of whatever width, and their high counterparts             *)
(* (utils.c:442-461).  That every value is "within a mask" (utils.h:315-318)   *)
(* is not so of a mask with gaps: of 5 less a low value of 2 the high one is  *)
(* 3, which has a bit that the mask has not.                                 *)
PixelsUpToMask ==
    /\ pixel <= init_mask.mask_pixel
    /\ init_mask.mask_pixel + 1 \in { TwoTo[k] : k \in 0 .. Bits } =>
           pixel \in Masked[init_mask.mask_pixel]
=============================================================================
