----------------------------- MODULE FuncNames -----------------------------
(***************************************************************************)
(* The order in which functions are kept and listed: ASCII, except that     *)
(* numbers inside of names compare by their value (function.c,              *)
(* cmp_func_names).  A name is a sequence of character codes.               *)
(***************************************************************************)
EXTENDS Integers, Sequences, FiniteSetsExt

Characters == 1 .. 255
Digits == 48 .. 57
Names == Seq(Characters) \ {<<>>}

(* The character at a place of a name, which ends with a zero.               *)
CharAt(s, i) == IF i \in DOMAIN s THEN s[i] ELSE 0

(* is_digit(): 1 or 0.                                                       *)
IsDigit(s, i) == IF CharAt(s, i) \in Digits THEN 1 ELSE 0

(* The first loop of cmp_func_names() stops at the first difference, or at    *)
(* the end of both names; the second one leaves the digits both have next.   *)
FirstDifference(a, b) ==
    Min({ i \in 1 .. Len(a) + 1 : CharAt(a, i) # CharAt(b, i) \/ CharAt(a, i) = 0 })
EndOfDigits(a, b, from) ==
    Min({ i \in from .. Len(a) + 1 : IsDigit(a, i) = 0 \/ IsDigit(b, i) = 0 })

CmpFuncNames(a, b) ==
    LET i == FirstDifference(a, b)
        j == EndOfDigits(a, b, i)
        ascii_diff == CharAt(a, i) - CharAt(b, i)
        digit_diff == IsDigit(a, j) - IsDigit(b, j)
    IN  IF j > 1 /\ IsDigit(a, j - 1) = 1 /\ digit_diff # 0 THEN digit_diff ELSE ascii_diff

-----------------------------------------------------------------------------
(* What the order is meant to be: lexicographic over tokens, a token being    *)
(* one character or a whole number, and numbers compared by their length     *)
(* before their digits.  The tokens before the first different one are the   *)
(* same, so that it starts at one place in both names.                       *)
TokenStarts(s) ==
    { i \in DOMAIN s : i = 1 \/ IsDigit(s, i) = 0 \/ IsDigit(s, i - 1) = 0 }
(* The token at a place, the empty one past the end.                         *)
TokenAt(s, i) ==
    SubSeq(s, i, Max({ j \in i - 1 .. Len(s) : \A l \in i + 1 .. j : l \notin TokenStarts(s) }))

TokenLess(t, u) ==
    \/ t = <<>> /\ u # <<>>
    \/ t # <<>> /\ u # <<>> /\
       IF t[1] \in Digits /\ u[1] \in Digits /\ Len(t) # Len(u)
       THEN Len(t) < Len(u)
       ELSE \E i \in DOMAIN t :
                /\ t[i] < u[i]
                /\ \A j \in 1 .. i - 1 : t[j] = u[j]

NaturalLess(a, b) ==
    \E i \in (TokenStarts(a) \cup {Len(a) + 1}) \cap (TokenStarts(b) \cup {Len(b) + 1}) :
        /\ \A j \in 1 .. i - 1 : a[j] = b[j]
        /\ TokenLess(TokenAt(a, i), TokenAt(b, i))
=============================================================================
