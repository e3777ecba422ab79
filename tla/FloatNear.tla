----------------------------- MODULE FloatNear -----------------------------
(***************************************************************************)
(* float_near_ulp() and its variants (utils.c), for floats of a sign, two     *)
(* bits of exponent and two of mantissa.  A float is its bits, and what is    *)
(* between two floats is counted by their values.                            *)
(***************************************************************************)
EXTENDS Integers, FiniteSets, Sequences

CONSTANTS
    MaxUlps,  \* max_ulp
    Epsilons, \* eps, in units of the smallest float
    MaxLen    \* bound on len

ASSUME UlpsAssumption == MaxUlps \subseteq Nat

VARIABLE near  \* what was compared and how, once it was

FloatInit == near = << >>

Floats == 0 .. 31
SignBit == 16
Magnitude(i) == i % SignBit
IsNegative(i) == i >= SignBit
IsNaN(i) == Magnitude(i) > 12
IsInfinite(i) == Magnitude(i) = 12
IsNumber(i) == Magnitude(i) < 12

(* The value of a float, and of what lies beyond the largest.                 *)
Value(i) ==
    LET e == Magnitude(i) \div 4
        m == Magnitude(i) % 4
        v == IF e = 0 THEN m ELSE (4 + m) * <<1, 2, 4>>[e]
    IN  IF IsNegative(i) THEN - v ELSE v
EqualFloats(a, b) == ~ IsNaN(a) /\ ~ IsNaN(b) /\ Value(a) = Value(b)

Abs(x) == IF x < 0 THEN - x ELSE x

(* checkasm_float_near_ulp(): the distance of the bits as a 64-bit integer.    *)
BitDistance32(a, b) == (a - b) % 32  \* faulty: the width of the bits, unsigned
BitDistance(a, b) == Abs(a - b)
NearUlp(a, b, max_ulp) ==
    IF IsNegative(a) # IsNegative(b) THEN EqualFloats(a, b)
    ELSE BitDistance(a, b) <= max_ulp

(* checkasm_float_near_abs_eps(): a difference with an infinity or without a   *)
(* value is less than nothing.                                               *)
NearAbsEps(a, b, eps) == IsNumber(a) /\ IsNumber(b) /\ Abs(Value(a) - Value(b)) < eps

NearAbsEpsUlp(a, b, eps, max_ulp) == NearUlp(a, b, max_ulp) \/ NearAbsEps(a, b, eps)

(* checkasm_float_near_abs_eps_array_ulp(), of which the other array functions *)
(* are special cases.                                                        *)
NearArray(a, b, eps, max_ulp) == \A i \in DOMAIN a : NearAbsEpsUlp(a[i], b[i], eps, max_ulp)

CompareFloats ==
    /\ near = << >>
    /\ \E len \in 0 .. MaxLen, eps \in Epsilons, max_ulp \in MaxUlps :
          \E a, b \in [1 .. len -> IF len > 1 THEN {0, 1, 11, 12, 13, 16, 17} ELSE Floats] :
              near' = [ a |-> a, b |-> b, eps |-> eps, max_ulp |-> max_ulp,
                        result |-> NearArray(a, b, eps, max_ulp) ]
FloatsCompared == near # << >> /\ UNCHANGED near

FloatNext == CompareFloats
FloatSpec == FloatInit /\ [][FloatNext \/ FloatsCompared]_near

-----------------------------------------------------------------------------
(* Of numbers of one sign at most max_ulp floats are passed on the way from    *)
(* one to the other; zeros of both signs are equal; or the difference is less *)
(* than eps.                                                                 *)
Passed(a, b) ==
    { c \in Floats : ~ IsNaN(c) /\ IsNegative(c) = IsNegative(a)
                     /\ \/ Value(a) < Value(c) /\ Value(c) <= Value(b)
                        \/ Value(b) <= Value(c) /\ Value(c) < Value(a) }
Close(a, b, eps, max_ulp) ==
    \/ Value(a) = Value(b)
    \/ IsNegative(a) = IsNegative(b) /\ Cardinality(Passed(a, b)) <= max_ulp
    \/ IsNumber(a) /\ IsNumber(b) /\ Abs(Value(a) - Value(b)) < eps

(* Arrays of floats, infinities among them, are near each other if and only    *)
(* if every pair of them is close, whichever is the greater one, with zeros    *)
(* and denormals as with all others (utils.c:651-709).  Of what is no number   *)
(* nothing is said.                                                          *)
NearIsClose ==
    near # << >> /\ (\A i \in DOMAIN near.a : ~ IsNaN(near.a[i]) /\ ~ IsNaN(near.b[i])) =>
        (near.result <=> \A i \in DOMAIN near.a : Close(near.a[i], near.b[i], near.eps, near.max_ulp))
=============================================================================
