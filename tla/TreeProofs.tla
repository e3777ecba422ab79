----------------------------- MODULE TreeProofs -----------------------------
(***************************************************************************)
(* What holds of the function tree for every set of names and every order in *)
(* which a program asks for them.                                            *)
(***************************************************************************)
EXTENDS FuncTree, FiniteSetTheorems, SequenceTheorems, WellFoundedInduction, TLAPS

-----------------------------------------------------------------------------
(* Names, as the zero-terminated strings they are.                           *)
Positions == Nat \ {0}

LEMMA CharsAre ==
  ASSUME NEW s \in Names, NEW i \in Positions
  PROVE  /\ CharAt(s, i) \in 0 .. 255
         /\ CharAt(s, i) = 0 <=> i > Len(s)
         /\ i \in 1 .. Len(s) => CharAt(s, i) = s[i]
         /\ Len(s) \in Positions
<1>1. s \in Seq(Characters) /\ Len(s) \in Nat /\ DOMAIN s = 1 .. Len(s) /\ s # <<>>
  BY DEF Names
<1>2. Len(s) # 0
  BY <1>1
<1> DEFINE l == Len(s)
           c == CharAt(s, i)
<1>3. i \in 1 .. Len(s) => s[i] \in 1 .. 255
  <2>1. i \in 1 .. Len(s) => s[i] \in Characters
    BY <1>1
  <2> QED
    BY <2>1 DEF Characters
<1>4. l \in Nat /\ l # 0
  BY <1>1, <1>2
<1>5. i \in 1 .. l => c = s[i]
  BY <1>1 DEF CharAt
<1>6. i \notin 1 .. l => c = 0
  BY <1>1 DEF CharAt
<1>7. i \in 1 .. l => c \in 1 .. 255
  BY <1>3, <1>5
<1> HIDE DEF l, c
<1>8. i \in 1 .. l <=> ~ (i > l)
  BY <1>4 DEF Positions
<1>9. c \in 0 .. 255 /\ (c = 0 <=> i > l) /\ l \in Positions
  BY <1>4, <1>6, <1>7, <1>8 DEF Positions
<1> QED
  BY <1>5, <1>9 DEF c, l

LEMMA SameName ==
  ASSUME NEW a \in Names, NEW b \in Names,
         \A i \in 1 .. Len(a) : CharAt(a, i) = CharAt(b, i), Len(a) = Len(b)
  PROVE  a = b
<1>1. a \in Seq(Characters) /\ b \in Seq(Characters)
  BY DEF Names
<1>2. ASSUME NEW i \in 1 .. Len(a) PROVE a[i] = b[i]
  <2>1. i \in Positions
    BY <1>1 DEF Positions
  <2> QED
    BY <2>1, CharsAre
<1> QED
  BY <1>1, <1>2

(* Min takes the least of numbers that are not negative.                     *)
LEMMA LeastNumber ==
  ASSUME NEW S \in SUBSET Nat, S # {}
  PROVE  Min(S) \in S /\ \A i \in S : Min(S) <= i
<1>1. IsWellFoundedOn(OpToRel(<, Nat), Nat)
  BY NatLessThanWellFounded
<1>2. PICK t \in S : \A u \in S : ~ (<<u, t>> \in OpToRel(<, Nat))
  BY <1>1, WFMin
<1>3. \A u \in S : t <= u
  <2> TAKE u \in S
  <2>1. t \in Nat /\ u \in Nat /\ ~ (u < t)
    BY <1>2 DEF OpToRel
  <2> QED
    BY <2>1
<1> QED
  BY <1>3 DEF Min

-----------------------------------------------------------------------------
(* The order of names.                                                       *)
Digit(s, i) == CharAt(s, i) \in Digits

LEMMA DigitIs ==
  ASSUME NEW s \in Names, NEW i \in Positions
  PROVE  /\ IsDigit(s, i) \in {0, 1} /\ (IsDigit(s, i) = 1 <=> Digit(s, i))
         /\ (IsDigit(s, i) = 0 <=> ~ Digit(s, i))
         /\ Digit(s, i) => CharAt(s, i) \in 48 .. 57 /\ i <= Len(s)
         /\ ~ Digit(s, i) => CharAt(s, i) < 48 \/ CharAt(s, i) > 57
<1> DEFINE c == CharAt(s, i)
           l == Len(s)
<1>1. c \in 0 .. 255 /\ (c = 0 <=> i > l) /\ l \in Positions
  BY CharsAre
<1>2. Digit(s, i) <=> c \in 48 .. 57
  BY DEF Digit, Digits
<1>3. IsDigit(s, i) = IF c \in 48 .. 57 THEN 1 ELSE 0
  BY DEF IsDigit, Digits
<1> HIDE DEF c, l
<1>4. c \in 48 .. 57 => i <= l
  BY <1>1 DEF Positions
<1>5. c \notin 48 .. 57 => c < 48 \/ c > 57
  BY <1>1
<1>6. /\ Digit(s, i) => c \in 48 .. 57 /\ i <= l
      /\ ~ Digit(s, i) => c < 48 \/ c > 57
  BY <1>2, <1>4, <1>5
<1>7. IsDigit(s, i) = IF Digit(s, i) THEN 1 ELSE 0
  BY <1>2, <1>3
<1> QED
  BY <1>6, <1>7 DEF c, l

(* e is where the digits end that begin at p.                                *)
Ends(s, p, e) ==
    /\ p <= e /\ ~ Digit(s, e)
    /\ \A i \in Positions : p <= i /\ i < e => Digit(s, i)
End(s, p) == CHOOSE e \in Positions : Ends(s, p, e)

LEMMA EndIs ==
  ASSUME NEW s \in Names, NEW p \in Positions
  PROVE  /\ End(s, p) \in Positions /\ Ends(s, p, End(s, p))
         /\ End(s, p) > p <=> Digit(s, p)
<1> DEFINE S == { i \in Positions : p <= i /\ ~ Digit(s, i) }
           m == p + Len(s) + 1
           e == Min(S)
<1>1. m \in Positions /\ p <= m
  BY CharsAre DEF Positions
<1>2. ~ Digit(s, m)
  <2>1. m > Len(s)
    BY CharsAre DEF Positions
  <2> HIDE DEF m
  <2> QED
    BY <1>1, <2>1, DigitIs, CharsAre DEF Positions
<1>3. S \in SUBSET Nat /\ S # {}
  <2> HIDE DEF m
  <2> QED
    BY <1>1, <1>2 DEF Positions
<1>4. e \in S /\ \A i \in S : e <= i
  <2> HIDE DEF S
  <2> QED
    BY <1>3, LeastNumber
<1>5. e \in Positions /\ Ends(s, p, e)
  <2>1. e \in Positions /\ p <= e /\ ~ Digit(s, e)
    BY <1>4
  <2>2. \A i \in Positions : p <= i /\ ~ Digit(s, i) => e <= i
    BY <1>4
  <2> HIDE DEF e, S
  <2>3. \A i \in Positions : p <= i /\ i < e => Digit(s, i)
    BY <2>1, <2>2 DEF Positions
  <2> QED
    BY <2>1, <2>3 DEF Ends
<1> HIDE DEF e
<1>6. End(s, p) \in Positions /\ Ends(s, p, End(s, p))
  BY <1>5 DEF End
<1> DEFINE f == End(s, p)
<1> HIDE DEF f
<1>7. f \in Positions /\ Ends(s, p, f)
  BY <1>6 DEF f
<1>8. f > p <=> Digit(s, p)
  BY <1>7 DEF Ends, Positions
<1> QED
  BY <1>6, <1>8 DEF f

LEMMA EndIsOne ==
  ASSUME NEW s \in Names, NEW p \in Positions, NEW e \in Positions, Ends(s, p, e)
  PROVE  e = End(s, p)
<1> DEFINE f == End(s, p)
<1>1. f \in Positions /\ Ends(s, p, f)
  BY EndIs
<1> HIDE DEF f
<1>2. ~ (e < f) /\ ~ (f < e)
  BY <1>1 DEF Ends
<1>3. e = f
  BY <1>1, <1>2 DEF Positions
<1> QED
  BY <1>3 DEF f

(* From one position on to a later one through digits only.                  *)
LEMMA EndFurther ==
  ASSUME NEW s \in Names, NEW p \in Positions, NEW q \in Positions, p <= q,
         \A i \in Positions : p <= i /\ i < q => Digit(s, i)
  PROVE  End(s, p) = End(s, q)
<1> DEFINE f == End(s, q)
<1>1. f \in Positions /\ Ends(s, q, f)
  BY EndIs
<1> HIDE DEF f
<1>2. Ends(s, p, f)
  BY <1>1 DEF Ends, Positions
<1> QED
  BY <1>1, <1>2, EndIsOne DEF f

(* What comes before p is the same in both.                                  *)
Same(a, b, p) == \A i \in Positions : i < p => CharAt(a, i) = CharAt(b, i)
(* The characters at p are compared, or the lengths of the numbers there.    *)
InNumber(a, b, p) == (p > 1 /\ Digit(a, p - 1)) \/ (Digit(a, p) /\ Digit(b, p))
Before(a, b, p) ==
    IF InNumber(a, b, p) /\ End(a, p) # End(b, p) THEN End(a, p) < End(b, p)
    ELSE CharAt(a, p) < CharAt(b, p)
Differ(a, b, p) == Same(a, b, p) /\ CharAt(a, p) # CharAt(b, p)
Lt(a, b) == \E p \in Positions : Differ(a, b, p) /\ Before(a, b, p)

LEMMA DifferenceIs ==
  ASSUME NEW a \in Names, NEW b \in Names
  PROVE  LET p == FirstDifference(a, b)
         IN  /\ p \in Positions /\ p <= Len(a) + 1 /\ Same(a, b, p)
             /\ CharAt(a, p) # CharAt(b, p) \/ CharAt(a, p) = 0
<1> DEFINE S == { i \in 1 .. Len(a) + 1 : CharAt(a, i) # CharAt(b, i) \/ CharAt(a, i) = 0 }
           n == Len(a) + 1
           p == Min(S)
<1>1. Len(a) \in Nat /\ n \in Positions /\ n \in 1 .. Len(a) + 1 /\ n > Len(a)
  <2>1. 1 \in Positions
    BY DEF Positions
  <2> QED
    BY <2>1, CharsAre DEF Positions
<1>2. n \in S
  <2>1. CharAt(a, n) = 0
    BY <1>1, CharsAre
  <2> QED
    BY <1>1, <2>1
<1>3. S \in SUBSET Nat /\ S # {}
  BY <1>1, <1>2
<1>4. p \in S /\ \A i \in S : p <= i
  <2> HIDE DEF S
  <2> QED
    BY <1>3, LeastNumber
<1>5. p \in 1 .. Len(a) + 1 /\ (CharAt(a, p) # CharAt(b, p) \/ CharAt(a, p) = 0)
  BY <1>4
<1>6. \A i \in 1 .. Len(a) + 1 : i \in S \/ CharAt(a, i) = CharAt(b, i)
  OBVIOUS
<1>7. p = FirstDifference(a, b)
  BY DEF FirstDifference
<1> HIDE DEF p, S, n
<1>8. Same(a, b, p)
  <2> SUFFICES ASSUME NEW i \in Positions, i < p PROVE CharAt(a, i) = CharAt(b, i)
    BY DEF Same
  <2>1. i \in 1 .. Len(a) + 1 /\ ~ (p <= i)
    BY <1>1, <1>5 DEF Positions
  <2> QED
    BY <2>1, <1>4, <1>6
<1>9. p \in Positions /\ p <= Len(a) + 1
  BY <1>1, <1>5 DEF Positions
<1> QED
  BY <1>5, <1>7, <1>8, <1>9

(* Two names that end together are the same.                                 *)
LEMMA EndTogether ==
  ASSUME NEW a \in Names, NEW b \in Names, NEW p \in Positions, Same(a, b, p),
         CharAt(a, p) = 0, CharAt(b, p) = 0
  PROVE  a = b
<1> DEFINE k == Len(a)
           l == Len(b)
<1>1. /\ k \in Positions /\ l \in Positions
      /\ \A i \in Positions : CharAt(a, i) = 0 <=> i > k
      /\ \A i \in Positions : CharAt(b, i) = 0 <=> i > l
  BY CharsAre
<1>2. \A i \in Positions : i < p => CharAt(a, i) = CharAt(b, i)
  BY DEF Same
<1>3. p > k /\ p > l
  BY <1>1
<1> HIDE DEF k, l
<1>4. ~ (k < l)
  <2> SUFFICES ASSUME k < l PROVE FALSE
    OBVIOUS
  <2>1. l \in Positions /\ l < p /\ l > k /\ ~ (l > l)
    BY <1>1, <1>3 DEF Positions
  <2> QED
    BY <2>1, <1>1, <1>2
<1>5. ~ (l < k)
  <2> SUFFICES ASSUME l < k PROVE FALSE
    OBVIOUS
  <2>1. k \in Positions /\ k < p /\ k > l /\ ~ (k > k)
    BY <1>1, <1>3 DEF Positions
  <2> QED
    BY <2>1, <1>1, <1>2
<1>6. k = l
  BY <1>1, <1>4, <1>5 DEF Positions
<1>7. \A i \in 1 .. k : i \in Positions /\ i < p
  BY <1>1, <1>3 DEF Positions
<1>8. \A i \in 1 .. Len(a) : CharAt(a, i) = CharAt(b, i)
  BY <1>2, <1>7 DEF k
<1> QED
  BY <1>6, <1>8, SameName DEF k, l

LEMMA OneDifference ==
  ASSUME NEW a, NEW b, NEW p \in Positions, NEW q \in Positions,
         Differ(a, b, p), Differ(a, b, q)
  PROVE  p = q
<1>1. ~ (p < q) /\ ~ (q < p)
  BY DEF Differ, Same
<1> QED
  BY <1>1 DEF Positions

(* The digits both have from p on end where the first of the two ends.        *)
LEMMA EndOfDigitsIs ==
  ASSUME NEW a \in Names, NEW b \in Names, NEW p \in Positions, p <= Len(a) + 1
  PROVE  LET j == EndOfDigits(a, b, p)
         IN  /\ j \in Positions /\ p <= j
             /\ j = IF End(a, p) <= End(b, p) THEN End(a, p) ELSE End(b, p)
<1> DEFINE S == { i \in p .. Len(a) + 1 : IsDigit(a, i) = 0 \/ IsDigit(b, i) = 0 }
           e == End(a, p)
           f == End(b, p)
           n == Len(a) + 1
           j == Min(S)
<1>1. n \in Positions /\ n > Len(a) /\ n \in p .. Len(a) + 1 /\ Len(a) \in Nat
  <2>1. Len(a) \in Positions
    BY CharsAre
  <2> QED
    BY <2>1 DEF Positions
<1>2. n \in S
  <2>1. ~ Digit(a, n)
    BY <1>1, DigitIs DEF Positions
  <2>2. IsDigit(a, n) = 0
    BY <1>1, <2>1, DigitIs
  <2> QED
    BY <1>1, <2>2
<1>3. S \in SUBSET Nat /\ S # {} /\ S \subseteq Positions
  BY <1>1, <1>2 DEF Positions
<1>4. j \in S /\ \A i \in S : j <= i
  <2> HIDE DEF S
  <2> QED
    BY <1>3, LeastNumber
<1>5. j \in p .. Len(a) + 1 /\ (IsDigit(a, j) = 0 \/ IsDigit(b, j) = 0) /\ j \in Positions
  BY <1>3, <1>4
<1>6. /\ e \in Positions /\ p <= e /\ ~ Digit(a, e)
      /\ \A i \in Positions : p <= i /\ i < e => Digit(a, i)
  BY EndIs DEF Ends
<1>7. /\ f \in Positions /\ p <= f /\ ~ Digit(b, f)
      /\ \A i \in Positions : p <= i /\ i < f => Digit(b, i)
  BY EndIs DEF Ends
<1>8. \A i \in p .. Len(a) + 1 : i \in S \/ (IsDigit(a, i) # 0 /\ IsDigit(b, i) # 0)
  OBVIOUS
<1>9. j = EndOfDigits(a, b, p)
  BY DEF EndOfDigits
<1> HIDE DEF e, f, j, S, n
<1>10. ~ Digit(a, j) \/ ~ Digit(b, j)
  BY <1>5, DigitIs
<1>11. e <= j \/ f <= j
  BY <1>5, <1>6, <1>7, <1>10 DEF Positions
<1>12. ASSUME e < j PROVE FALSE
  <2>1. e \in p .. Len(a) + 1 /\ ~ (j <= e)
    BY <1>1, <1>5, <1>6, <1>12 DEF Positions
  <2>2. IsDigit(a, e) = 0
    BY <1>6, DigitIs
  <2> QED
    BY <2>1, <2>2, <1>4, <1>8
<1>13. ASSUME f < j PROVE FALSE
  <2>1. f \in p .. Len(a) + 1 /\ ~ (j <= f)
    BY <1>1, <1>5, <1>7, <1>13 DEF Positions
  <2>2. IsDigit(b, f) = 0
    BY <1>7, DigitIs
  <2> QED
    BY <2>1, <2>2, <1>4, <1>8
<1>14. j = IF e <= f THEN e ELSE f
  BY <1>5, <1>6, <1>7, <1>11, <1>12, <1>13 DEF Positions
<1>15. p <= j
  BY <1>1, <1>5 DEF Positions
<1> QED
  BY <1>5, <1>9, <1>14, <1>15 DEF e, f

LEMMA CmpAt ==
  ASSUME NEW a \in Names, NEW b \in Names
  PROVE  LET p == FirstDifference(a, b)
         IN  /\ CmpFuncNames(a, b) =
                   IF InNumber(a, b, p) /\ End(a, p) # End(b, p)
                   THEN IF End(a, p) < End(b, p) THEN -1 ELSE 1
                   ELSE CharAt(a, p) - CharAt(b, p)
<1> DEFINE p == FirstDifference(a, b)
           j == EndOfDigits(a, b, p)
           e == End(a, p)
           f == End(b, p)
           x == IsDigit(a, j)
           y == IsDigit(b, j)
           c == CharAt(a, p) - CharAt(b, p)
<1>1. p \in Positions /\ p <= Len(a) + 1
  BY DifferenceIs
<1>2. CmpFuncNames(a, b) =
          IF j > 1 /\ IsDigit(a, j - 1) = 1 /\ x - y # 0 THEN x - y ELSE c
  BY DEF CmpFuncNames
<1> HIDE DEF p
<1>3. j \in Positions /\ p <= j /\ j = IF e <= f THEN e ELSE f
  BY <1>1, EndOfDigitsIs
<1>4. /\ e \in Positions /\ p <= e /\ ~ Digit(a, e)
      /\ \A i \in Positions : p <= i /\ i < e => Digit(a, i)
      /\ e > p <=> Digit(a, p)
  BY <1>1, EndIs DEF Ends
<1>5. /\ f \in Positions /\ p <= f /\ ~ Digit(b, f)
      /\ \A i \in Positions : p <= i /\ i < f => Digit(b, i)
      /\ f > p <=> Digit(b, p)
  BY <1>1, EndIs DEF Ends
<1> HIDE DEF e, f, j, c
<1>6. /\ x = IF Digit(a, j) THEN 1 ELSE 0
      /\ y = IF Digit(b, j) THEN 1 ELSE 0
  BY <1>3, DigitIs
<1> HIDE DEF x, y
<1>7. x - y = IF e = f THEN 0 ELSE IF e < f THEN -1 ELSE 1
  <2>1. CASE e = f
    <3>1. x = 0 /\ y = 0
      BY <2>1, <1>3, <1>4, <1>5, <1>6 DEF Positions
    <3> QED
      BY <2>1, <3>1
  <2>2. CASE e < f
    <3>1. j = e
      BY <2>2, <1>3, <1>4, <1>5 DEF Positions
    <3>2. x = 0 /\ y = 1
      BY <2>2, <3>1, <1>4, <1>5, <1>6 DEF Positions
    <3> QED
      BY <2>2, <3>2, <1>4, <1>5 DEF Positions
  <2>3. CASE f < e
    <3>1. j = f
      BY <2>3, <1>3, <1>4, <1>5 DEF Positions
    <3>2. x = 1 /\ y = 0
      BY <2>3, <3>1, <1>4, <1>5, <1>6 DEF Positions
    <3> QED
      BY <2>3, <3>2, <1>4, <1>5 DEF Positions
  <2> QED
    BY <2>1, <2>2, <2>3, <1>4, <1>5 DEF Positions
<1>8. InNumber(a, b, p) <=> j > 1 /\ IsDigit(a, j - 1) = 1
  <2>0. j > 1 => j - 1 \in Positions
    BY <1>3 DEF Positions
  <2>1. CASE j = p
    <3>1. ~ (Digit(a, p) /\ Digit(b, p))
      BY <2>1, <1>1, <1>3, <1>4, <1>5 DEF Positions
    <3>2. j > 1 => (IsDigit(a, j - 1) = 1 <=> Digit(a, j - 1))
      BY <2>0, DigitIs
    <3> QED
      BY <2>1, <3>1, <3>2 DEF InNumber
  <2>2. CASE j # p
    <3>1. j - 1 \in Positions /\ p <= j - 1 /\ j > 1 /\ j - 1 < e /\ e > p /\ f > p
      BY <2>2, <1>1, <1>3, <1>4, <1>5 DEF Positions
    <3>2. Digit(a, j - 1) /\ Digit(a, p) /\ Digit(b, p)
      BY <3>1, <1>4, <1>5
    <3>3. IsDigit(a, j - 1) = 1
      BY <3>1, <3>2, DigitIs
    <3> QED
      BY <3>1, <3>2, <3>3 DEF InNumber
  <2> QED
    BY <2>1, <2>2
<1>9. CmpFuncNames(a, b) = IF InNumber(a, b, p) /\ e # f THEN IF e < f THEN -1 ELSE 1 ELSE c
  BY <1>2, <1>7, <1>8
<1> QED
  BY <1>9 DEF p, e, f, c

(* The comparison is the order.                                              *)
LEMMA CmpIs ==
  ASSUME NEW a \in Names, NEW b \in Names
  PROVE  /\ CmpFuncNames(a, b) \in Int
         /\ CmpFuncNames(a, b) = 0 <=> a = b
         /\ CmpFuncNames(a, b) < 0 <=> Lt(a, b)
         /\ CmpFuncNames(a, b) > 0 <=> Lt(b, a)
<1> DEFINE p == FirstDifference(a, b)
           e == End(a, p)
           f == End(b, p)
           x == CharAt(a, p)
           y == CharAt(b, p)
           c == CmpFuncNames(a, b)
<1>1. p \in Positions /\ Same(a, b, p) /\ (x # y \/ x = 0)
  BY DifferenceIs
<1>2. c = IF InNumber(a, b, p) /\ e # f THEN IF e < f THEN -1 ELSE 1 ELSE x - y
  BY CmpAt
<1> HIDE DEF p
<1>3. e \in Positions /\ f \in Positions
  BY <1>1, EndIs
<1>4. x \in 0 .. 255 /\ y \in 0 .. 255
  BY <1>1, CharsAre
<1>5. /\ Before(a, b, p) <=> IF InNumber(a, b, p) /\ e # f THEN e < f ELSE x < y
      /\ Before(b, a, p) <=> IF InNumber(b, a, p) /\ f # e THEN f < e ELSE y < x
  BY DEF Before
<1>6. InNumber(b, a, p) <=> InNumber(a, b, p)
  <2>1. p > 1 => p - 1 \in Positions /\ p - 1 < p
    BY <1>1 DEF Positions
  <2>2. p > 1 => CharAt(a, p - 1) = CharAt(b, p - 1)
    BY <1>1, <2>1 DEF Same
  <2> QED
    BY <2>2 DEF InNumber, Digit
<1>7. Same(b, a, p)
  BY <1>1 DEF Same
<1>8. CASE x = y
  <2>1. y = 0 /\ x = 0
    BY <1>1, <1>8
  <2>2. a = b
    BY <1>1, <2>1, EndTogether
  <2>3. e = f
    BY <2>2
  <2>4. c = 0
    BY <1>2, <1>8, <2>1, <2>3
  <2>5. ~ Lt(a, a)
    BY DEF Lt, Differ
  <2> HIDE DEF c
  <2>6. c \in Int /\ c = 0 /\ ~ (c < 0) /\ ~ (c > 0)
    BY <2>4
  <2> QED
    BY <2>2, <2>5, <2>6 DEF c
<1>9. CASE x # y
  <2>1. Differ(a, b, p) /\ Differ(b, a, p) /\ a # b
    BY <1>1, <1>7, <1>9 DEF Differ
  <2>2. Lt(a, b) <=> Before(a, b, p)
    <3>1. \A q \in Positions : Differ(a, b, q) => q = p
      BY <1>1, <2>1, OneDifference
    <3> QED
      BY <1>1, <2>1, <3>1 DEF Lt
  <2>3. Lt(b, a) <=> Before(b, a, p)
    <3>1. \A q \in Positions : Differ(b, a, q) => q = p
      BY <1>1, <2>1, OneDifference
    <3> QED
      BY <1>1, <2>1, <3>1 DEF Lt
  <2> HIDE DEF c, e, f, x, y
  <2>4. /\ c \in Int /\ c # 0
        /\ c < 0 <=> IF InNumber(a, b, p) /\ e # f THEN e < f ELSE x < y
        /\ c > 0 <=> IF InNumber(a, b, p) /\ e # f THEN f < e ELSE y < x
    <3>1. CASE InNumber(a, b, p) /\ e # f
      BY <3>1, <1>2, <1>3 DEF Positions
    <3>2. CASE ~ (InNumber(a, b, p) /\ e # f)
      BY <3>2, <1>2, <1>4, <1>9
    <3> QED
      BY <3>1, <3>2
  <2>5. c \in Int /\ c # 0 /\ (c < 0 <=> Lt(a, b)) /\ (c > 0 <=> Lt(b, a))
    BY <1>5, <1>6, <2>2, <2>3, <2>4
  <2> QED
    BY <2>1, <2>5 DEF c
<1> QED
  BY <1>8, <1>9

(* Where two names are the same up to q, the numbers at an earlier p end      *)
(* together, or go on to q.                                                  *)
LEMMA NumbersUpTo ==
  ASSUME NEW a \in Names, NEW b \in Names, NEW p \in Positions, NEW q \in Positions,
         p < q, Same(a, b, q)
  PROVE  \/ End(a, p) = End(b, p)
         \/ /\ End(a, p) = End(a, q) /\ End(b, p) = End(b, q)
            /\ q - 1 \in Positions /\ Digit(a, q - 1) /\ InNumber(a, b, q)
<1> DEFINE e == End(a, p)
<1>1. /\ e \in Positions /\ p <= e /\ ~ Digit(a, e)
      /\ \A i \in Positions : p <= i /\ i < e => Digit(a, i)
  BY EndIs DEF Ends
<1>2. \A i \in Positions : i < q => (Digit(a, i) <=> Digit(b, i))
  BY DEF Same, Digit
<1> HIDE DEF e
<1>3. CASE e < q
  <2>1. Ends(b, p, e)
    BY <1>1, <1>2, <1>3 DEF Ends, Positions
  <2>2. e = End(b, p)
    BY <1>1, <2>1, EndIsOne
  <2> QED
    BY <2>2 DEF e
<1>4. CASE ~ (e < q)
  <2>1. \A i \in Positions : p <= i /\ i < q => Digit(a, i) /\ Digit(b, i)
    BY <1>1, <1>2, <1>4 DEF Positions
  <2>2. p <= q
    BY DEF Positions
  <2>3. End(a, p) = End(a, q)
    BY <2>1, <2>2, EndFurther
  <2>4. End(b, p) = End(b, q)
    BY <2>1, <2>2, EndFurther
  <2>5. q - 1 \in Positions /\ p <= q - 1 /\ q - 1 < q /\ q > 1
    BY DEF Positions
  <2>6. Digit(a, q - 1)
    BY <2>1, <2>5
  <2> QED
    BY <2>3, <2>4, <2>5, <2>6 DEF InNumber
<1> QED
  BY <1>3, <1>4

LEMMA ShorterFirst ==
  ASSUME NEW a \in Names, NEW b \in Names, NEW p \in Positions,
         Same(a, b, p), InNumber(a, b, p), End(a, p) < End(b, p)
  PROVE  Lt(a, b)
<1> DEFINE q == FirstDifference(a, b)
           e == End(a, p)
           f == End(b, p)
<1>1. q \in Positions /\ Same(a, b, q) /\ (CharAt(a, q) # CharAt(b, q) \/ CharAt(a, q) = 0)
  BY DifferenceIs
<1>2. e \in Positions /\ f \in Positions /\ e < f
  BY EndIs
<1> HIDE DEF q
<1>3. CharAt(a, q) # CharAt(b, q)
  <2> SUFFICES ASSUME CharAt(a, q) = CharAt(b, q) PROVE FALSE
    OBVIOUS
  <2>1. a = b
    BY <1>1, EndTogether
  <2>2. e = f
    BY <2>1
  <2> HIDE DEF e, f
  <2> QED
    BY <1>2, <2>2 DEF Positions
<1>4. Differ(a, b, q)
  BY <1>1, <1>3 DEF Differ
<1>5. ~ (q < p)
  BY <1>1, <1>3 DEF Same
<1>6. CASE q = p
  <2>1. e # f
    <3> HIDE DEF e, f
    <3> QED
      BY <1>2 DEF Positions
  <2>2. Before(a, b, p)
    BY <1>2, <2>1 DEF Before
  <2> QED
    BY <1>1, <1>4, <1>6, <2>2 DEF Lt
<1>7. CASE q # p
  <2>1. p < q
    BY <1>1, <1>5, <1>7 DEF Positions
  <2>2. e # f
    <3> HIDE DEF e, f
    <3> QED
      BY <1>2 DEF Positions
  <2>3. e = End(a, q) /\ f = End(b, q) /\ InNumber(a, b, q)
    BY <1>1, <2>1, <2>2, NumbersUpTo
  <2>4. Before(a, b, q)
    BY <1>2, <2>2, <2>3 DEF Before
  <2> QED
    BY <1>1, <1>4, <2>4 DEF Lt
<1> QED
  BY <1>6, <1>7

LEMMA NumbersAgree ==
  ASSUME NEW a \in Names, NEW b \in Names, NEW p \in Positions, NEW q \in Positions,
         p < q, Same(a, b, q), Before(a, b, q)
  PROVE  End(a, p) <= End(b, p)
<1> DEFINE e == End(a, p)
           f == End(b, p)
<1>1. e \in Positions /\ f \in Positions
  BY EndIs
<1>2. CASE e = f
  <2> HIDE DEF e, f
  <2>1. e <= f
    BY <1>1, <1>2 DEF Positions
  <2> QED
    BY <2>1 DEF e, f
<1>3. CASE e # f
  <2>1. e = End(a, q) /\ f = End(b, q) /\ InNumber(a, b, q)
    BY <1>3, NumbersUpTo
  <2>2. e < f
    BY <1>3, <2>1 DEF Before
  <2> HIDE DEF e, f
  <2>3. e <= f
    BY <1>1, <2>2 DEF Positions
  <2> QED
    BY <2>3 DEF e, f
<1> QED
  BY <1>2, <1>3

(* Two names that are first compared at p.                                   *)
LEMMA LtAt ==
  ASSUME NEW a \in Names, NEW b \in Names, NEW p \in Positions, Same(a, b, p),
         IF InNumber(a, b, p) /\ End(a, p) # End(b, p) THEN End(a, p) < End(b, p)
         ELSE CharAt(a, p) < CharAt(b, p)
  PROVE  Lt(a, b)
<1>1. CASE InNumber(a, b, p) /\ End(a, p) # End(b, p)
  BY <1>1, ShorterFirst
<1>2. CASE ~ (InNumber(a, b, p) /\ End(a, p) # End(b, p))
  <2>1. CharAt(a, p) < CharAt(b, p) /\ CharAt(a, p) \in 0 .. 255 /\ CharAt(b, p) \in 0 .. 255
    BY <1>2, CharsAre
  <2>2. CharAt(a, p) # CharAt(b, p)
    BY <2>1
  <2> QED
    BY <1>2, <2>1, <2>2 DEF Lt, Differ, Before
<1> QED
  BY <1>1, <1>2

LEMMA LtTransitive ==
  ASSUME NEW a \in Names, NEW b \in Names, NEW c \in Names, Lt(a, b), Lt(b, c)
  PROVE  Lt(a, c)
<1>1. PICK p \in Positions : Differ(a, b, p) /\ Before(a, b, p)
  BY DEF Lt
<1>2. PICK q \in Positions : Differ(b, c, q) /\ Before(b, c, q)
  BY DEF Lt
<1> DEFINE m == IF p < q THEN p ELSE q
           ea == End(a, m)
           eb == End(b, m)
           ec == End(c, m)
           xa == CharAt(a, m)
           xb == CharAt(b, m)
           xc == CharAt(c, m)
           N  == m > 1 /\ Digit(a, m - 1)
           da == Digit(a, m)
           db == Digit(b, m)
           dc == Digit(c, m)
<1>3. m \in Positions /\ m <= p /\ m <= q /\ (m = p \/ m = q)
  BY DEF Positions
<1>4. Same(a, b, m) /\ Same(b, c, m) /\ Same(a, c, m)
  <2> HIDE DEF m
  <2> QED
    BY <1>1, <1>2, <1>3 DEF Same, Differ, Positions
<1>5. m # p => m < p /\ m = q
  BY <1>3 DEF Positions
<1>6. m # q => m < q /\ m = p
  BY <1>3 DEF Positions
<1> HIDE DEF m
<1>7. m > 1 => (Digit(a, m - 1) <=> Digit(b, m - 1))
  <2>1. m > 1 => m - 1 \in Positions /\ m - 1 < m
    BY <1>3 DEF Positions
  <2> QED
    BY <1>4, <2>1 DEF Same, Digit
<1>8. /\ InNumber(a, b, m) <=> N \/ (da /\ db)
      /\ InNumber(b, c, m) <=> N \/ (db /\ dc)
      /\ InNumber(a, c, m) <=> N \/ (da /\ dc)
  BY <1>7 DEF InNumber
<1>9. /\ ea \in Positions /\ eb \in Positions /\ ec \in Positions
      /\ xa \in 0 .. 255 /\ xb \in 0 .. 255 /\ xc \in 0 .. 255
  BY <1>3, EndIs, CharsAre
<1>10. /\ da <=> xa \in 48 .. 57
       /\ db <=> xb \in 48 .. 57
       /\ dc <=> xc \in 48 .. 57
  BY DEF Digit, Digits
<1>11. (ea > m <=> da) /\ (eb > m <=> db) /\ (ec > m <=> dc) /\ ea >= m /\ eb >= m /\ ec >= m
  BY <1>3, <1>9, EndIs DEF Ends, Positions
<1>12. IF InNumber(a, b, m) /\ ea # eb THEN ea < eb ELSE IF m = p THEN xa < xb ELSE xa = xb
  <2>1. CASE m = p
    BY <2>1, <1>1 DEF Before
  <2>2. CASE m # p
    <3>1. xa = xb
      BY <2>2, <1>1, <1>3, <1>5 DEF Differ, Same
    <3>2. ea <= eb
      BY <2>2, <1>1, <1>3, <1>5, NumbersAgree DEF Differ
    <3> HIDE DEF ea, eb, xa, xb
    <3> QED
      BY <2>2, <3>1, <3>2, <1>9 DEF Positions
  <2> QED
    BY <2>1, <2>2
<1>13. IF InNumber(b, c, m) /\ eb # ec THEN eb < ec ELSE IF m = q THEN xb < xc ELSE xb = xc
  <2>1. CASE m = q
    BY <2>1, <1>2 DEF Before
  <2>2. CASE m # q
    <3>1. xb = xc
      BY <2>2, <1>2, <1>3, <1>6 DEF Differ, Same
    <3>2. eb <= ec
      BY <2>2, <1>2, <1>3, <1>6, NumbersAgree DEF Differ
    <3> HIDE DEF eb, ec, xb, xc
    <3> QED
      BY <2>2, <3>1, <3>2, <1>9 DEF Positions
  <2> QED
    BY <2>1, <2>2
<1>14. IF InNumber(a, c, m) /\ ea # ec THEN ea < ec ELSE xa < xc
  <2> HIDE DEF ea, eb, ec, xa, xb, xc, da, db, dc, N
  <2> QED
    BY <1>3, <1>8, <1>9, <1>10, <1>11, <1>12, <1>13 DEF Positions
<1> QED
  BY <1>3, <1>4, <1>14, LtAt

-----------------------------------------------------------------------------
(* The order is the natural one.                                             *)
LEMMA TokenIs ==
  ASSUME NEW s \in Names, NEW i \in Positions, i <= Len(s)
  PROVE  LET e == IF Digit(s, i) THEN End(s, i) ELSE i + 1
             t == TokenAt(s, i)
         IN  /\ e \in Positions /\ i < e
             /\ Len(t) = e - i /\ DOMAIN t = 1 .. e - i /\ t # <<>>
             /\ \A k \in 1 .. e - i : t[k] = CharAt(s, i + k - 1)
<1> DEFINE e == IF Digit(s, i) THEN End(s, i) ELSE i + 1
           l == e - 1
           S == { j \in i - 1 .. Len(s) : \A k \in i + 1 .. j : k \notin TokenStarts(s) }
<1>1. s \in Seq(Characters) /\ Len(s) \in Nat /\ DOMAIN s = 1 .. Len(s)
  BY DEF Names
<1>2. e \in Positions /\ i < e
  BY EndIs DEF Positions
<1>3. \A k \in Positions : i < k /\ k < e => Digit(s, k) /\ Digit(s, i)
  BY EndIs DEF Ends, Positions
<1>4. e <= Len(s) + 1
  <2> SUFFICES ASSUME Len(s) + 1 < e PROVE FALSE
    BY <1>1, <1>2 DEF Positions
  <2> DEFINE n == Len(s) + 1
  <2>1. n \in Positions /\ i < n /\ n < e /\ n > Len(s)
    BY <1>1 DEF Positions
  <2> HIDE DEF e, n
  <2>2. Digit(s, n)
    BY <2>1, <1>3
  <2> QED
    BY <1>1, <2>1, <2>2, DigitIs DEF Positions
<1>5. ~ Digit(s, e) \/ ~ Digit(s, e - 1)
  <2>1. CASE Digit(s, i)
    BY <2>1, EndIs DEF Ends
  <2>2. CASE ~ Digit(s, i)
    <3>1. e - 1 = i
      BY <2>2 DEF Positions
    <3> QED
      BY <2>2, <3>1
  <2> QED
    BY <2>1, <2>2
<1> HIDE DEF e
<1>6. l \in i - 1 .. Len(s) /\ l \in Int
  BY <1>1, <1>2, <1>4 DEF Positions
<1>7. \A k \in 1 .. Len(s) :
        k \in TokenStarts(s) <=> k = 1 \/ ~ Digit(s, k) \/ ~ Digit(s, k - 1)
  <2> TAKE k \in 1 .. Len(s)
  <2>1. k \in Positions /\ (k # 1 => k - 1 \in Positions)
    BY <1>1 DEF Positions
  <2>2. IsDigit(s, k) = 0 <=> ~ Digit(s, k)
    BY <2>1, DigitIs
  <2>3. k # 1 => (IsDigit(s, k - 1) = 0 <=> ~ Digit(s, k - 1))
    BY <2>1, DigitIs
  <2> QED
    BY <1>1, <2>2, <2>3 DEF TokenStarts
<1>8. ASSUME NEW k \in i + 1 .. l PROVE k \notin TokenStarts(s)
  <2>1. k \in Positions /\ i < k /\ k < e /\ k # 1 /\ k \in 1 .. Len(s)
    BY <1>1, <1>2, <1>4 DEF Positions
  <2>2. k - 1 \in Positions /\ (k - 1 = i \/ (i < k - 1 /\ k - 1 < e))
    BY <2>1, <1>2 DEF Positions
  <2> QED
    BY <1>3, <1>7, <2>1, <2>2
<1>9. l \in S
  BY <1>6, <1>8
<1>10. ASSUME NEW j \in S PROVE j <= l /\ j \in Int
  <2>1. j \in i - 1 .. Len(s) /\ \A k \in i + 1 .. j : k \notin TokenStarts(s)
    OBVIOUS
  <2> SUFFICES ASSUME ~ (j <= l) PROVE FALSE
    BY <2>1, <1>1 DEF Positions
  <2> HIDE DEF S
  <2>2. e \in i + 1 .. j /\ e \in 1 .. Len(s)
    BY <2>1, <1>1, <1>2 DEF Positions
  <2> QED
    BY <1>5, <1>7, <2>1, <2>2
<1>11. Max(S) = l
  <2> HIDE DEF S, l
  <2>1. \E x \in S : \A y \in S : x >= y
    BY <1>6, <1>9, <1>10
  <2>2. Max(S) \in S /\ \A y \in S : Max(S) >= y
    BY <2>1 DEF Max
  <2>3. Max(S) >= l /\ Max(S) <= l /\ Max(S) \in Int
    BY <1>6, <1>9, <1>10, <2>2
  <2> QED
    BY <1>6, <2>3
<1>12. TokenAt(s, i) = SubSeq(s, i, l)
  BY <1>11 DEF TokenAt
<1>13. /\ Len(SubSeq(s, i, l)) = e - i /\ DOMAIN SubSeq(s, i, l) = 1 .. e - i
       /\ \A k \in 1 .. e - i : SubSeq(s, i, l)[k] = s[i + k - 1]
  <2>1. i \in 1 .. Len(s) + 1 /\ l \in i - 1 .. Len(s) /\ ~ (l < i)
    BY <1>1, <1>2, <1>6 DEF Positions
  <2>2. l - i + 1 = e - i
    BY <1>1, <1>2 DEF Positions
  <2> HIDE DEF l
  <2> QED
    BY <1>1, <2>1, <2>2, SubSeqProperties
<1>14. ASSUME NEW k \in 1 .. e - i PROVE s[i + k - 1] = CharAt(s, i + k - 1)
  <2>1. i + k - 1 \in 1 .. Len(s)
    BY <1>1, <1>2, <1>4 DEF Positions
  <2> QED
    BY <1>1, <2>1 DEF CharAt
<1>15. SubSeq(s, i, l) # <<>>
  BY <1>2, <1>13 DEF Positions
<1> HIDE DEF l
<1>16. LET t == TokenAt(s, i)
       IN  /\ Len(t) = e - i /\ DOMAIN t = 1 .. e - i /\ t # <<>>
           /\ \A k \in 1 .. e - i : t[k] = CharAt(s, i + k - 1)
  BY <1>12, <1>13, <1>14, <1>15
<1> QED
  BY <1>2, <1>16 DEF e

LEMMA NoToken ==
  ASSUME NEW s \in Names
  PROVE  TokenAt(s, Len(s) + 1) = <<>>
<1> DEFINE i == Len(s) + 1
           S == { j \in i - 1 .. Len(s) : \A k \in i + 1 .. j : k \notin TokenStarts(s) }
<1>1. s \in Seq(Characters) /\ Len(s) \in Nat
  BY DEF Names
<1>2. S = { Len(s) }
  BY <1>1
<1>3. Max(S) = Len(s)
  <2> HIDE DEF S
  <2>1. \E x \in S : \A y \in S : x >= y
    BY <1>1, <1>2
  <2> QED
    BY <1>2, <2>1 DEF Max
<1>4. TokenAt(s, i) = SubSeq(s, i, Len(s))
  BY <1>3 DEF TokenAt
<1>5. SubSeq(s, i, Len(s)) = <<>>
  BY <1>1
<1> QED
  BY <1>4, <1>5

(* Both names go on to their first difference, or one ends there.            *)
LEMMA WithinBoth ==
  ASSUME NEW a \in Names, NEW b \in Names, NEW p \in Positions, Differ(a, b, p)
  PROVE  p <= Len(a) + 1 /\ p <= Len(b) + 1
<1> DEFINE k == Len(a)
           l == Len(b)
<1>1. /\ k \in Positions /\ l \in Positions
      /\ \A i \in Positions : CharAt(a, i) = 0 <=> i > k
      /\ \A i \in Positions : CharAt(b, i) = 0 <=> i > l
  BY CharsAre
<1>2. \A i \in Positions : i < p => CharAt(a, i) = CharAt(b, i)
  BY DEF Differ, Same
<1>3. ~ (CharAt(a, p) = 0 /\ CharAt(b, p) = 0)
  BY DEF Differ
<1> HIDE DEF k, l
<1>4. ASSUME k + 1 < p PROVE FALSE
  <2>1. k + 1 \in Positions /\ k + 1 > k /\ p > k
    BY <1>1, <1>4 DEF Positions
  <2>2. k + 1 > l
    BY <1>1, <1>2, <1>4, <2>1
  <2>3. p > l
    BY <1>1, <1>4, <2>2 DEF Positions
  <2> QED
    BY <1>1, <1>3, <2>1, <2>3
<1>5. ASSUME l + 1 < p PROVE FALSE
  <2>1. l + 1 \in Positions /\ l + 1 > l /\ p > l
    BY <1>1, <1>5 DEF Positions
  <2>2. l + 1 > k
    BY <1>1, <1>2, <1>5, <2>1
  <2>3. p > k
    BY <1>1, <1>5, <2>2 DEF Positions
  <2> QED
    BY <1>1, <1>3, <2>1, <2>3
<1>6. p <= k + 1 /\ p <= l + 1
  BY <1>1, <1>4, <1>5 DEF Positions
<1> QED
  BY <1>6 DEF k, l

LEMMA StartIs ==
  ASSUME NEW s \in Names, NEW i \in Positions, i <= Len(s) + 1,
         i = 1 \/ ~ Digit(s, i) \/ ~ Digit(s, i - 1)
  PROVE  i \in TokenStarts(s) \cup {Len(s) + 1}
<1>1. s \in Seq(Characters) /\ Len(s) \in Nat /\ DOMAIN s = 1 .. Len(s)
  BY DEF Names
<1>2. i # Len(s) + 1 => i \in 1 .. Len(s)
  BY <1>1 DEF Positions
<1>3. IsDigit(s, i) = 0 <=> ~ Digit(s, i)
  BY DigitIs
<1>4. i # 1 => (IsDigit(s, i - 1) = 0 <=> ~ Digit(s, i - 1))
  <2>1. i # 1 => i - 1 \in Positions
    BY DEF Positions
  <2> QED
    BY <2>1, DigitIs
<1> QED
  BY <1>1, <1>2, <1>3, <1>4 DEF TokenStarts

(* Names the same up to i are less by their tokens there.                    *)
LEMMA LessAt ==
  ASSUME NEW a \in Names, NEW b \in Names, NEW i \in Positions,
         i <= Len(a) + 1, i <= Len(b) + 1, Same(a, b, i),
         i = 1 \/ ~ Digit(a, i) \/ ~ Digit(a, i - 1),
         i = 1 \/ ~ Digit(b, i) \/ ~ Digit(b, i - 1),
         TokenLess(TokenAt(a, i), TokenAt(b, i))
  PROVE  NaturalLess(a, b)
<1>1. i \in (TokenStarts(a) \cup {Len(a) + 1}) \cap (TokenStarts(b) \cup {Len(b) + 1})
  BY StartIs
<1>2. Len(a) \in Nat /\ Len(b) \in Nat
  BY DEF Names
<1>3. ASSUME NEW j \in 1 .. i - 1 PROVE a[j] = b[j]
  <2>1. j \in Positions /\ j < i /\ j \in 1 .. Len(a) /\ j \in 1 .. Len(b)
    BY <1>2 DEF Positions
  <2>2. CharAt(a, j) = a[j] /\ CharAt(b, j) = b[j]
    BY <2>1, CharsAre
  <2> QED
    BY <2>1, <2>2 DEF Same
<1> QED
  BY <1>1, <1>3 DEF NaturalLess

(* The first character of a token is the one at its place.                   *)
LEMMA FirstOfToken ==
  ASSUME NEW s \in Names, NEW i \in Positions, i <= Len(s)
  PROVE  LET t == TokenAt(s, i)
         IN  /\ t # <<>> /\ t[1] = CharAt(s, i) /\ 1 \in DOMAIN t
             /\ t[1] \in Digits <=> Digit(s, i)
<1> DEFINE e == IF Digit(s, i) THEN End(s, i) ELSE i + 1
           t == TokenAt(s, i)
<1>1. /\ e \in Positions /\ i < e /\ DOMAIN t = 1 .. e - i /\ t # <<>>
      /\ \A k \in 1 .. e - i : t[k] = CharAt(s, i + k - 1)
  BY TokenIs
<1> HIDE DEF e, t
<1>2. 1 \in 1 .. e - i /\ i + 1 - 1 = i
  BY <1>1 DEF Positions
<1>3. t[1] = CharAt(s, i)
  BY <1>1, <1>2
<1> QED
  BY <1>1, <1>2, <1>3 DEF t, Digit

LEMMA LtIsNatural ==
  ASSUME NEW a \in Names, NEW b \in Names, Lt(a, b)
  PROVE  NaturalLess(a, b)
<1>1. PICK p \in Positions : Differ(a, b, p) /\ Before(a, b, p)
  BY DEF Lt
<1> DEFINE e == End(a, p)
           f == End(b, p)
           x == CharAt(a, p)
           y == CharAt(b, p)
           k == Len(a)
           l == Len(b)
<1>2. p <= k + 1 /\ p <= l + 1 /\ Same(a, b, p) /\ x # y
  BY <1>1, WithinBoth DEF Differ
<1>3. IF InNumber(a, b, p) /\ e # f THEN e < f ELSE x < y
  BY <1>1 DEF Before
<1>4. /\ e \in Positions /\ p <= e /\ (e > p <=> Digit(a, p))
      /\ f \in Positions /\ p <= f /\ (f > p <=> Digit(b, p))
  BY EndIs DEF Ends
<1>5. /\ k \in Positions /\ x \in 0 .. 255 /\ (x = 0 <=> p > k)
      /\ l \in Positions /\ y \in 0 .. 255 /\ (y = 0 <=> p > l)
  BY CharsAre
<1>6. (Digit(a, p) <=> x \in 48 .. 57) /\ (Digit(b, p) <=> y \in 48 .. 57)
  BY DEF Digit, Digits
<1>7. p > 1 => (Digit(a, p - 1) <=> Digit(b, p - 1))
  <2>1. p > 1 => p - 1 \in Positions /\ p - 1 < p
    BY DEF Positions
  <2> QED
    BY <1>2, <2>1 DEF Same, Digit
<1> HIDE DEF e, f, x, y, k, l
(* p begins a token of both.                                                 *)
<1>8. CASE \/ p = 1
           \/ ~ Digit(a, p - 1)
           \/ ~ Digit(a, p) /\ ~ Digit(b, p)
  <2>1. TokenLess(TokenAt(a, p), TokenAt(b, p))
    <3> DEFINE t == TokenAt(a, p)
               u == TokenAt(b, p)
    <3>0. e = f \/ InNumber(a, b, p) \/ ~ (Digit(a, p) /\ Digit(b, p))
      BY DEF InNumber
    <3>1. CASE x = 0
      <4>1. p = k + 1
        BY <3>1, <1>2, <1>5 DEF Positions
      <4>2. t = <<>>
        BY <4>1, NoToken DEF k
      <4>3. p <= l
        BY <3>1, <1>2, <1>5 DEF Positions
      <4>4. u # <<>>
        BY <4>3, FirstOfToken DEF l
      <4> QED
        BY <4>2, <4>4 DEF TokenLess
    <3>2. CASE x # 0
      <4>1. p <= k
        BY <3>2, <1>5 DEF Positions
      <4>2. y # 0
        <5> SUFFICES ASSUME y = 0 PROVE FALSE
          OBVIOUS
        <5>1. ~ Digit(b, p) /\ ~ (x < y)
          BY <1>5, <1>6
        <5>2. InNumber(a, b, p) /\ e < f
          BY <5>1, <1>3
        <5>3. ~ Digit(a, p) \/ e > p
          BY <1>4
        <5>4. f = p
          BY <5>1, <1>4 DEF Positions
        <5> QED
          BY <5>2, <5>4, <1>4 DEF Positions
      <4>3. p <= l
        BY <4>2, <1>5 DEF Positions
      <4>4. /\ t # <<>> /\ t[1] = x /\ 1 \in DOMAIN t /\ (t[1] \in Digits <=> Digit(a, p))
            /\ u # <<>> /\ u[1] = y /\ (u[1] \in Digits <=> Digit(b, p))
        BY <4>1, <4>3, FirstOfToken DEF k, l, x, y
      <4>5. CASE Digit(a, p) /\ Digit(b, p)
        <5>1. Len(t) = e - p /\ Len(u) = f - p
          BY <4>1, <4>3, <4>5, TokenIs DEF k, l, e, f
        <5>2. CASE e # f
          <6>1. e < f
            BY <5>2, <4>5, <1>3 DEF InNumber
          <6>2. Len(t) # Len(u) /\ Len(t) < Len(u)
            BY <5>1, <6>1, <1>4 DEF Positions
          <6> QED
            BY <4>4, <4>5, <6>2 DEF TokenLess
        <5>3. CASE e = f
          <6>1. t[1] < u[1] /\ Len(t) = Len(u)
            BY <5>1, <5>3, <4>4, <1>3
          <6>2. \A j \in 1 .. 1 - 1 : t[j] = u[j]
            OBVIOUS
          <6> HIDE DEF t, u
          <6>3. TokenLess(t, u)
            BY <4>4, <6>1, <6>2 DEF TokenLess
          <6> QED
            BY <6>3 DEF t, u
        <5> QED
          BY <5>2, <5>3
      <4>6. CASE ~ (Digit(a, p) /\ Digit(b, p))
        <5>1. x < y
          BY <4>6, <1>3, <1>4, <1>8 DEF InNumber, Positions
        <5>2. t[1] < u[1] /\ ~ (t[1] \in Digits /\ u[1] \in Digits)
          BY <4>4, <4>6, <5>1
        <5>3. \A j \in 1 .. 1 - 1 : t[j] = u[j]
          OBVIOUS
        <5> HIDE DEF t, u
        <5>4. TokenLess(t, u)
          BY <4>4, <5>2, <5>3 DEF TokenLess
        <5> QED
          BY <5>4 DEF t, u
      <4> QED
        BY <4>5, <4>6
    <3> QED
      BY <3>1, <3>2
  <2>2. p = 1 \/ ~ Digit(a, p) \/ ~ Digit(a, p - 1)
    BY <1>8
  <2>3. p = 1 \/ ~ Digit(b, p) \/ ~ Digit(b, p - 1)
    BY <1>7, <1>8 DEF Positions
  <2> QED
    BY <2>1, <2>2, <2>3, <1>2, LessAt DEF k, l
(* p lies in a number of both, that begins at i.                             *)
<1>9. CASE p # 1 /\ Digit(a, p - 1) /\ (Digit(a, p) \/ Digit(b, p))
  <2> DEFINE S == { i \in Positions : i < p /\ \A j \in Positions : i <= j /\ j < p => Digit(a, j) }
             i == Min(S)
  <2>1. p - 1 \in S
    <3>1. p - 1 \in Positions /\ p - 1 < p
      BY <1>9 DEF Positions
    <3>2. \A j \in Positions : p - 1 <= j /\ j < p => j = p - 1
      BY DEF Positions
    <3> QED
      BY <3>1, <3>2, <1>9
  <2>2. S \in SUBSET Nat /\ S # {}
    BY <2>1 DEF Positions
  <2>3. i \in S /\ \A j \in S : i <= j
    <3> HIDE DEF S
    <3> QED
      BY <2>2, LeastNumber
  <2>4. /\ i \in Positions /\ i < p
        /\ \A j \in Positions : i <= j /\ j < p => Digit(a, j)
    BY <2>3
  <2>5. i = 1 \/ ~ Digit(a, i - 1)
    <3> SUFFICES ASSUME i # 1, Digit(a, i - 1) PROVE FALSE
      OBVIOUS
    <3> DEFINE h == i - 1
    <3>1. h \in Positions /\ h < p /\ ~ (i <= h)
      BY <2>4 DEF Positions
    <3>2. \A j \in Positions : h <= j /\ j < p => j = h \/ (i <= j /\ j < p)
      BY <2>4 DEF Positions
    <3>3. Digit(a, h)
      OBVIOUS
    <3> HIDE DEF h, i
    <3>4. \A j \in Positions : h <= j /\ j < p => Digit(a, j)
      BY <2>4, <3>2, <3>3
    <3>5. h \in S
      BY <3>1, <3>4
    <3> HIDE DEF S
    <3> QED
      BY <2>3, <3>1, <3>5
  <2> HIDE DEF i, S
  <2>6. \A j \in Positions : i <= j /\ j < p => Digit(b, j)
    BY <2>4, <1>2 DEF Same, Digit
  <2>7. End(a, i) = e /\ End(b, i) = f
    <3>1. i <= p
      BY <2>4 DEF Positions
    <3>2. End(a, i) = End(a, p)
      BY <2>4, <3>1, EndFurther
    <3>3. End(b, i) = End(b, p)
      BY <2>4, <2>6, <3>1, EndFurther
    <3> QED
      BY <3>2, <3>3 DEF e, f
  <2>8. Digit(a, i) /\ Digit(b, i) /\ i <= i
    BY <2>4, <2>6 DEF Positions
  <2>9. i <= k /\ i <= l
    BY <2>4, <1>2, <1>5 DEF Positions
  <2> DEFINE t == TokenAt(a, i)
             u == TokenAt(b, i)
  <2>10. /\ t # <<>> /\ u # <<>> /\ t[1] \in Digits /\ u[1] \in Digits
         /\ Len(t) = e - i /\ Len(u) = f - i /\ DOMAIN t = 1 .. e - i
         /\ \A j \in 1 .. e - i : t[j] = CharAt(a, i + j - 1)
         /\ \A j \in 1 .. f - i : u[j] = CharAt(b, i + j - 1)
    BY <2>4, <2>7, <2>8, <2>9, TokenIs, FirstOfToken DEF k, l
  <2> HIDE DEF t, u
  <2>11. InNumber(a, b, p)
    BY <1>9 DEF InNumber, Positions
  <2>12. TokenLess(t, u)
    <3>1. CASE e # f
      <4>1. Len(t) # Len(u) /\ Len(t) < Len(u)
        BY <3>1, <2>4, <2>10, <2>11, <1>3, <1>4 DEF Positions
      <4> QED
        BY <4>1, <2>10 DEF TokenLess
    <3>2. CASE e = f
      <4> DEFINE n == p - i + 1
      <4>1. e > p /\ f > p
        BY <3>2, <1>4, <1>9
      <4>2. n \in 1 .. e - i /\ n \in 1 .. f - i /\ i + n - 1 = p
        BY <4>1, <2>4, <1>4 DEF Positions
      <4>3. \A j \in 1 .. n - 1 : j \in 1 .. e - i /\ j \in 1 .. f - i
                                  /\ i + j - 1 \in Positions /\ i + j - 1 < p
        BY <4>1, <2>4, <1>4 DEF Positions
      <4> HIDE DEF n
      <4>4. t[n] = x /\ u[n] = y
        BY <4>2, <2>10 DEF x, y
      <4>5. x < y
        BY <3>2, <1>3
      <4>6. \A j \in 1 .. n - 1 : t[j] = u[j]
        BY <4>3, <2>10, <1>2 DEF Same
      <4>7. Len(t) = Len(u) /\ n \in DOMAIN t
        BY <3>2, <4>2, <2>10
      <4> QED
        BY <4>4, <4>5, <4>6, <4>7, <2>10 DEF TokenLess
    <3> QED
      BY <3>1, <3>2
  <2>13. Same(a, b, i)
    BY <1>2, <2>4 DEF Same, Positions
  <2>14. i = 1 \/ ~ Digit(b, i - 1)
    <3>1. i # 1 => i - 1 \in Positions /\ i - 1 < i
      BY <2>4 DEF Positions
    <3> QED
      BY <2>5, <2>13, <3>1 DEF Same, Digit
  <2>15. i <= k + 1 /\ i <= l + 1
    BY <2>9, <2>4, <1>5 DEF Positions
  <2> QED
    BY <2>4, <2>5, <2>12, <2>13, <2>14, <2>15, LessAt DEF t, u, k, l
<1> QED
  BY <1>8, <1>9

-----------------------------------------------------------------------------
(* Heaps and the trees in them.                                              *)
NodeType == [child : [Dirs -> Names \cup {NULL}], color : {Red, Black}]
Heap(n)  == DOMAIN n \in SUBSET Names /\ n \in [DOMAIN n -> NodeType]

Left(n, f)  == n[f].child[0]
Right(n, f) == n[f].child[1]

Ordered(f, L, R) == (\A y \in L : Lt(y, f)) /\ (\A y \in R : Lt(f, y))

(* No two red nodes in a row, and a red one to the right has one beside it.   *)
Proper(n, f) ==
    /\ IsRed(n, f) => ~ IsRed(n, Left(n, f)) /\ ~ IsRed(n, Right(n, f))
    /\ IsRed(n, Right(n, f)) => IsRed(n, Left(n, f))

(* f is the top of a tree of the names T with b black nodes on every path:    *)
(* the least relation that holds of no tree and of a node over two trees.     *)
Trees == [top : Names \cup {NULL}, names : SUBSET Names, blacks : Nat]
Tree(f, T, b) == [top |-> f, names |-> T, blacks |-> b]
Closed(n, X) ==
    /\ Tree(NULL, {}, 0) \in X
    /\ \A f \in DOMAIN n : \A L, R \in SUBSET Names : \A x \in Nat :
           /\ Tree(Left(n, f), L, x) \in X /\ Tree(Right(n, f), R, x) \in X
           /\ Ordered(f, L, R) /\ Proper(n, f)
           => Tree(f, L \cup R \cup {f}, x + n[f].color) \in X
Sub(n, f, T, b) ==
    /\ Tree(f, T, b) \in Trees
    /\ \A X \in SUBSET Trees : Closed(n, X) => Tree(f, T, b) \in X

(* f stands over the trees of L and R.                                       *)
Over(n, f, L, R, x) ==
    /\ f \in DOMAIN n /\ L \in SUBSET Names /\ R \in SUBSET Names /\ x \in Nat
    /\ Sub(n, Left(n, f), L, x) /\ Sub(n, Right(n, f), R, x)
    /\ Ordered(f, L, R)

LEMMA NodesAre ==
  ASSUME NEW n, Heap(n), NEW f \in DOMAIN n
  PROVE  /\ f \in Names /\ f # NULL /\ n[f] \in NodeType
         /\ n[f].child \in [Dirs -> Names \cup {NULL}]
         /\ Left(n, f) \in Names \cup {NULL} /\ Right(n, f) \in Names \cup {NULL}
         /\ n[f].color \in {0, 1} /\ (IsRed(n, f) <=> n[f].color = 0)
         /\ (~ IsRed(n, f) <=> n[f].color = 1)
<1>1. f \in Names /\ n[f] \in NodeType
  BY DEF Heap
<1>2. f # NULL
  BY <1>1 DEF Names, NULL
<1>3. n[f].child \in [Dirs -> Names \cup {NULL}] /\ n[f].color \in {0, 1}
  BY <1>1 DEF NodeType, Red, Black
<1> QED
  BY <1>1, <1>2, <1>3 DEF Left, Right, Dirs, IsRed, Red

LEMMA SubNone ==
  ASSUME NEW n
  PROVE  Sub(n, NULL, {}, 0)
<1>1. Tree(NULL, {}, 0) \in Trees
  BY DEF Trees, Tree
<1> QED
  BY <1>1 DEF Sub, Closed

LEMMA SubMade ==
  ASSUME NEW n, Heap(n), NEW f, NEW L, NEW R, NEW x, Over(n, f, L, R, x), Proper(n, f)
  PROVE  Sub(n, f, L \cup R \cup {f}, x + n[f].color)
<1>1. f \in DOMAIN n /\ L \in SUBSET Names /\ R \in SUBSET Names /\ x \in Nat
  BY DEF Over
<1>2. f \in Names /\ n[f].color \in {0, 1}
  BY <1>1, NodesAre
<1>3. L \cup R \cup {f} \in SUBSET Names /\ x + n[f].color \in Nat
  BY <1>1, <1>2
<1>4. Tree(f, L \cup R \cup {f}, x + n[f].color) \in Trees
  BY <1>2, <1>3 DEF Trees, Tree
<1>5. ASSUME NEW X \in SUBSET Trees, Closed(n, X)
      PROVE  Tree(f, L \cup R \cup {f}, x + n[f].color) \in X
  <2>1. Tree(Left(n, f), L, x) \in X /\ Tree(Right(n, f), R, x) \in X /\ Ordered(f, L, R)
    BY <1>5 DEF Over, Sub
  <2> QED
    BY <1>1, <1>5, <2>1 DEF Closed
<1> QED
  BY <1>4, <1>5 DEF Sub

(* What holds of no tree, and of a node when it holds of the trees below it,   *)
(* holds of every tree.                                                      *)
LEMMA SubInduction ==
  ASSUME NEW n, Heap(n), NEW X, Tree(NULL, {}, 0) \in X,
         \A f \in DOMAIN n : \A L, R \in SUBSET Names : \A x \in Nat :
             /\ Over(n, f, L, R, x) /\ Proper(n, f)
             /\ Tree(Left(n, f), L, x) \in X /\ Tree(Right(n, f), R, x) \in X
             => Tree(f, L \cup R \cup {f}, x + n[f].color) \in X,
         NEW f, NEW T, NEW b, Sub(n, f, T, b)
  PROVE  Tree(f, T, b) \in X
<1> DEFINE Y == { t \in Trees : Sub(n, t.top, t.names, t.blacks) /\ t \in X }
<1>1. ASSUME NEW g, NEW S, NEW c
      PROVE  Tree(g, S, c) \in Y <=> Sub(n, g, S, c) /\ Tree(g, S, c) \in X
  <2>1. Sub(n, g, S, c) => Tree(g, S, c) \in Trees
    BY DEF Sub
  <2>2. LET t == Tree(g, S, c) IN t.top = g /\ t.names = S /\ t.blacks = c
    BY DEF Tree
  <2> QED
    BY <2>1, <2>2
<1>2. Y \in SUBSET Trees
  OBVIOUS
<1> HIDE DEF Y
<1>3. Tree(NULL, {}, 0) \in Y
  BY <1>1, SubNone
<1>4. ASSUME NEW g \in DOMAIN n, NEW L \in SUBSET Names, NEW R \in SUBSET Names, NEW x \in Nat,
             Tree(Left(n, g), L, x) \in Y, Tree(Right(n, g), R, x) \in Y,
             Ordered(g, L, R), Proper(n, g)
      PROVE  Tree(g, L \cup R \cup {g}, x + n[g].color) \in Y
  <2>1. Over(n, g, L, R, x)
    BY <1>1, <1>4 DEF Over
  <2>2. Sub(n, g, L \cup R \cup {g}, x + n[g].color)
    BY <2>1, <1>4, SubMade
  <2>3. Tree(Left(n, g), L, x) \in X /\ Tree(Right(n, g), R, x) \in X
    BY <1>1, <1>4
  <2>4. Tree(g, L \cup R \cup {g}, x + n[g].color) \in X
    BY <1>4, <2>1, <2>3
  <2> QED
    BY <1>1, <2>2, <2>4
<1>5. Closed(n, Y)
  BY <1>3, <1>4 DEF Closed
<1>6. Tree(f, T, b) \in Y
  BY <1>2, <1>5 DEF Sub
<1> QED
  BY <1>1, <1>6

Made(n, f, T, b, L, R, x) ==
    Over(n, f, L, R, x) /\ T = L \cup R \cup {f} /\ b = x + n[f].color

LEMMA SubIs ==
  ASSUME NEW n, Heap(n), NEW f, NEW T, NEW b, Sub(n, f, T, b)
  PROVE  \/ f = NULL /\ T = {} /\ b = 0
         \/ /\ f \in DOMAIN n /\ Proper(n, f)
            /\ \E L, R \in SUBSET Names : \E x \in Nat : Made(n, f, T, b, L, R, x)
<1> DEFINE Shape(g, S, c) ==
             \/ g = NULL /\ S = {} /\ c = 0
             \/ /\ g \in DOMAIN n /\ Proper(n, g)
                /\ \E L, R \in SUBSET Names : \E x \in Nat : Made(n, g, S, c, L, R, x)
           X == { t \in Trees : Shape(t.top, t.names, t.blacks) }
<1>1. ASSUME NEW g, NEW S, NEW c, Tree(g, S, c) \in Trees
      PROVE  Tree(g, S, c) \in X <=> Shape(g, S, c)
  <2>1. LET t == Tree(g, S, c) IN t.top = g /\ t.names = S /\ t.blacks = c
    BY DEF Tree
  <2> HIDE DEF Shape
  <2> QED
    BY <1>1, <2>1
<1>2. Tree(NULL, {}, 0) \in X
  <2>1. Tree(NULL, {}, 0) \in Trees
    BY DEF Trees, Tree
  <2> HIDE DEF X
  <2> QED
    BY <1>1, <2>1
<1>3. ASSUME NEW g \in DOMAIN n, NEW L \in SUBSET Names, NEW R \in SUBSET Names, NEW x \in Nat,
             Over(n, g, L, R, x), Proper(n, g)
      PROVE  Tree(g, L \cup R \cup {g}, x + n[g].color) \in X
  <2> DEFINE S == L \cup R \cup {g}
             c == x + n[g].color
  <2>1. Tree(g, S, c) \in Trees
    BY <1>3, SubMade DEF Sub
  <2>2. Made(n, g, S, c, L, R, x)
    BY <1>3 DEF Made
  <2> HIDE DEF X, S, c
  <2>3. Tree(g, S, c) \in X
    BY <1>1, <1>3, <2>1, <2>2
  <2> QED
    BY <2>3 DEF S, c
<1>4. Tree(f, T, b) \in Trees
  BY DEF Sub
<1> HIDE DEF X
<1>5. Tree(f, T, b) \in X
  BY <1>2, <1>3, SubInduction
<1> QED
  BY <1>1, <1>4, <1>5

(* The names of a tree are nodes, finitely many, the top one of them.         *)
LEMMA SubNodes ==
  ASSUME NEW n, Heap(n), NEW f, NEW T, NEW b, Sub(n, f, T, b)
  PROVE  /\ T \subseteq DOMAIN n /\ IsFiniteSet(T) /\ b \in Nat
         /\ f # NULL => f \in T
         /\ T \in SUBSET Names
<1> DEFINE X == { t \in Trees : t.names \subseteq DOMAIN n /\ IsFiniteSet(t.names) }
<1>1. ASSUME NEW g, NEW S, NEW c, Tree(g, S, c) \in Trees
      PROVE  Tree(g, S, c) \in X <=> S \subseteq DOMAIN n /\ IsFiniteSet(S)
  <2>1. LET t == Tree(g, S, c) IN t.names = S
    BY DEF Tree
  <2> QED
    BY <1>1, <2>1
<1>2. \A t \in X : t \in Trees
  OBVIOUS
<1> HIDE DEF X
<1>3. Tree(NULL, {}, 0) \in X
  <2>1. Tree(NULL, {}, 0) \in Trees
    BY DEF Trees, Tree
  <2> QED
    BY <1>1, <2>1, FS_EmptySet
<1>4. ASSUME NEW g \in DOMAIN n, NEW L \in SUBSET Names, NEW R \in SUBSET Names, NEW x \in Nat,
             Over(n, g, L, R, x), Proper(n, g),
             Tree(Left(n, g), L, x) \in X, Tree(Right(n, g), R, x) \in X
      PROVE  Tree(g, L \cup R \cup {g}, x + n[g].color) \in X
  <2>1. Tree(g, L \cup R \cup {g}, x + n[g].color) \in Trees
    BY <1>4, SubMade DEF Sub
  <2>2. /\ L \subseteq DOMAIN n /\ IsFiniteSet(L)
        /\ R \subseteq DOMAIN n /\ IsFiniteSet(R)
    BY <1>1, <1>2, <1>4
  <2>3. IsFiniteSet(L \cup R)
    BY <2>2, FS_Union
  <2>4. IsFiniteSet((L \cup R) \cup {g})
    BY <2>3, FS_AddElement
  <2> QED
    BY <1>1, <2>1, <2>2, <2>4
<1>5. Tree(f, T, b) \in X
  BY <1>3, <1>4, SubInduction
<1>6. Tree(f, T, b) \in Trees
  BY DEF Sub
<1>7. f # NULL => f \in T
  BY SubIs DEF Made
<1>8. b \in Nat /\ T \in SUBSET Names
  BY <1>6 DEF Trees, Tree
<1> QED
  BY <1>1, <1>5, <1>6, <1>7, <1>8

LEMMA NotLess ==
  ASSUME NEW a \in Names
  PROVE  /\ ~ Lt(a, a)
         /\ \A b \in Names : Lt(a, b) => ~ Lt(b, a)
<1>1. ~ Lt(a, a)
  BY DEF Lt, Differ
<1> QED
  BY <1>1, LtTransitive

(* What lies to the left, in the middle and to the right are not the same.   *)
LEMMA OverApart ==
  ASSUME NEW n, Heap(n), NEW f, NEW L, NEW R, NEW x, Over(n, f, L, R, x)
  PROVE  /\ f \in DOMAIN n /\ f \in Names /\ f \notin L /\ f \notin R /\ L \cap R = {}
         /\ L \in SUBSET Names /\ R \in SUBSET Names /\ x \in Nat
         /\ L \subseteq DOMAIN n /\ R \subseteq DOMAIN n
         /\ Left(n, f) = NULL \/ Left(n, f) \in L
         /\ Right(n, f) = NULL \/ Right(n, f) \in R
<1>1. /\ f \in DOMAIN n /\ L \in SUBSET Names /\ R \in SUBSET Names /\ x \in Nat
      /\ Sub(n, Left(n, f), L, x) /\ Sub(n, Right(n, f), R, x)
      /\ \A y \in L : Lt(y, f)
      /\ \A y \in R : Lt(f, y)
  BY DEF Over, Ordered
<1>2. f \in Names
  BY <1>1, NodesAre
<1>3. L \subseteq DOMAIN n /\ (Left(n, f) = NULL \/ Left(n, f) \in L)
  BY <1>1, SubNodes
<1>4. R \subseteq DOMAIN n /\ (Right(n, f) = NULL \/ Right(n, f) \in R)
  BY <1>1, SubNodes
<1>5. f \notin L /\ f \notin R /\ L \cap R = {}
  BY <1>1, <1>2, NotLess
<1> QED
  BY <1>1, <1>2, <1>3, <1>4, <1>5

(* A tree is what its nodes make it.                                         *)
SameOn(n, m, T) == \A y \in T : y \in DOMAIN m /\ m[y] = n[y]

LEMMA SubFrame ==
  ASSUME NEW n, Heap(n), NEW m, Heap(m), NEW f, NEW T, NEW b,
         Sub(n, f, T, b), SameOn(n, m, T)
  PROVE  Sub(m, f, T, b)
<1> DEFINE X == { t \in Trees : SameOn(n, m, t.names) => Sub(m, t.top, t.names, t.blacks) }
<1>1. ASSUME NEW g, NEW S, NEW c, Tree(g, S, c) \in Trees
      PROVE  Tree(g, S, c) \in X <=> (SameOn(n, m, S) => Sub(m, g, S, c))
  <2>1. LET t == Tree(g, S, c) IN t.top = g /\ t.names = S /\ t.blacks = c
    BY DEF Tree
  <2> QED
    BY <1>1, <2>1
<1>2. \A t \in X : t \in Trees
  OBVIOUS
<1> HIDE DEF X
<1>3. Tree(NULL, {}, 0) \in X
  <2>1. Tree(NULL, {}, 0) \in Trees
    BY SubNone DEF Sub
  <2> QED
    BY <1>1, <2>1, SubNone
<1>4. ASSUME NEW g \in DOMAIN n, NEW L \in SUBSET Names, NEW R \in SUBSET Names, NEW x \in Nat,
             Over(n, g, L, R, x), Proper(n, g),
             Tree(Left(n, g), L, x) \in X, Tree(Right(n, g), R, x) \in X
      PROVE  Tree(g, L \cup R \cup {g}, x + n[g].color) \in X
  <2>1. Tree(g, L \cup R \cup {g}, x + n[g].color) \in Trees
    BY <1>4, SubMade DEF Sub
  <2>2. ASSUME SameOn(n, m, L \cup R \cup {g})
        PROVE  Sub(m, g, L \cup R \cup {g}, x + n[g].color)
    <3>1. g \in DOMAIN m /\ m[g] = n[g] /\ SameOn(n, m, L) /\ SameOn(n, m, R)
      BY <2>2 DEF SameOn
    <3>2. Left(m, g) = Left(n, g) /\ Right(m, g) = Right(n, g)
      BY <3>1 DEF Left, Right
    <3>3. Sub(m, Left(m, g), L, x) /\ Sub(m, Right(m, g), R, x)
      BY <1>1, <1>2, <1>4, <3>1, <3>2
    <3>4. Over(m, g, L, R, x)
      BY <1>4, <3>1, <3>3 DEF Over
    <3>5. /\ Left(n, g) = NULL \/ Left(n, g) \in L
          /\ Right(n, g) = NULL \/ Right(n, g) \in R
      BY <1>4, OverApart
    <3>6. /\ IsRed(m, g) <=> IsRed(n, g)
          /\ IsRed(m, Left(m, g)) <=> IsRed(n, Left(n, g))
          /\ IsRed(m, Right(m, g)) <=> IsRed(n, Right(n, g))
      BY <2>2, <3>2, <3>5 DEF IsRed, SameOn
    <3>7. Proper(m, g)
      BY <1>4, <3>6 DEF Proper
    <3> QED
      BY <3>1, <3>4, <3>7, SubMade
  <2> QED
    BY <1>1, <2>1, <2>2
<1>5. Tree(f, T, b) \in X
  BY <1>3, <1>4, SubInduction
<1> QED
  BY <1>1, <1>2, <1>5

(* On the way up a red node may have a red one below it, to the left.        *)
Weak(n, f, T, b) ==
    /\ IsRed(n, f) /\ IsRed(n, Left(n, f)) /\ ~ IsRed(n, Right(n, f))
    /\ \E L, R \in SUBSET Names : \E x \in Nat : Made(n, f, T, b, L, R, x)
Grown(n, f, T, b) == Sub(n, f, T, b) \/ Weak(n, f, T, b)

LEMMA MadeFrame ==
  ASSUME NEW n, Heap(n), NEW m, Heap(m), NEW f, NEW T, NEW b, NEW L, NEW R, NEW x,
         Made(n, f, T, b, L, R, x), SameOn(n, m, T)
  PROVE  /\ Made(m, f, T, b, L, R, x)
         /\ Left(m, f) = Left(n, f) /\ Right(m, f) = Right(n, f)
         /\ IsRed(m, f) <=> IsRed(n, f)
         /\ IsRed(m, Left(m, f)) <=> IsRed(n, Left(n, f))
         /\ IsRed(m, Right(m, f)) <=> IsRed(n, Right(n, f))
<1>1. Over(n, f, L, R, x) /\ T = L \cup R \cup {f} /\ b = x + n[f].color
  BY DEF Made
<1>2. f \in DOMAIN m /\ m[f] = n[f] /\ SameOn(n, m, L) /\ SameOn(n, m, R)
  BY <1>1 DEF SameOn
<1>3. Left(m, f) = Left(n, f) /\ Right(m, f) = Right(n, f)
  BY <1>2 DEF Left, Right
<1>4. Sub(m, Left(m, f), L, x) /\ Sub(m, Right(m, f), R, x)
  BY <1>1, <1>2, <1>3, SubFrame DEF Over
<1>5. Over(m, f, L, R, x)
  BY <1>1, <1>2, <1>4 DEF Over
<1>6. /\ Left(n, f) = NULL \/ Left(n, f) \in L
      /\ Right(n, f) = NULL \/ Right(n, f) \in R
  BY <1>1, OverApart
<1>7. /\ IsRed(m, f) <=> IsRed(n, f)
      /\ IsRed(m, Left(m, f)) <=> IsRed(n, Left(n, f))
      /\ IsRed(m, Right(m, f)) <=> IsRed(n, Right(n, f))
  BY <1>1, <1>3, <1>6 DEF IsRed, SameOn
<1> QED
  BY <1>1, <1>2, <1>3, <1>5, <1>7 DEF Made

LEMMA GrownFrame ==
  ASSUME NEW n, Heap(n), NEW m, Heap(m), NEW f, NEW T, NEW b,
         Grown(n, f, T, b), SameOn(n, m, T)
  PROVE  /\ Grown(m, f, T, b)
         /\ Sub(n, f, T, b) => Sub(m, f, T, b)
<1>1. Sub(n, f, T, b) => Sub(m, f, T, b)
  BY SubFrame
<1>2. ASSUME Weak(n, f, T, b) PROVE Weak(m, f, T, b)
  <2>1. PICK L \in SUBSET Names, R \in SUBSET Names, x \in Nat : Made(n, f, T, b, L, R, x)
    BY <1>2 DEF Weak
  <2>2. /\ Made(m, f, T, b, L, R, x)
        /\ IsRed(m, f) <=> IsRed(n, f)
        /\ IsRed(m, Left(m, f)) <=> IsRed(n, Left(n, f))
        /\ IsRed(m, Right(m, f)) <=> IsRed(n, Right(n, f))
    BY <2>1, MadeFrame
  <2> QED
    BY <1>2, <2>2 DEF Weak
<1> QED
  BY <1>1, <1>2 DEF Grown

(* A red top, whatever may be wrong below it, taken apart.                    *)
LEMMA RedGrown ==
  ASSUME NEW n, Heap(n), NEW f, NEW T, NEW b, Grown(n, f, T, b), IsRed(n, f)
  PROVE  /\ f \in DOMAIN n /\ n[f].color = 0
         /\ ~ IsRed(n, Right(n, f))
         /\ Sub(n, f, T, b) => ~ IsRed(n, Left(n, f))
         /\ ~ Sub(n, f, T, b) => IsRed(n, Left(n, f))
         /\ \E L, R \in SUBSET Names : Made(n, f, T, b, L, R, b)
<1>1. f # NULL
  BY DEF IsRed
<1>2. /\ f \in DOMAIN n
      /\ \E L, R \in SUBSET Names : \E x \in Nat : Made(n, f, T, b, L, R, x)
  <2>1. CASE Sub(n, f, T, b)
    BY <1>1, <2>1, SubIs
  <2>2. CASE Weak(n, f, T, b)
    BY <2>2 DEF Weak, Made, Over
  <2> QED
    BY <2>1, <2>2 DEF Grown
<1>3. n[f].color = 0
  BY <1>2, NodesAre
<1>4. /\ ~ IsRed(n, Right(n, f))
      /\ Sub(n, f, T, b) => ~ IsRed(n, Left(n, f))
      /\ ~ Sub(n, f, T, b) => IsRed(n, Left(n, f))
  <2>1. Sub(n, f, T, b) => Proper(n, f)
    BY <1>1, SubIs
  <2> QED
    BY <2>1 DEF Grown, Weak, Proper
<1>5. \E L, R \in SUBSET Names : Made(n, f, T, b, L, R, b)
  <2>1. PICK L \in SUBSET Names, R \in SUBSET Names, x \in Nat : Made(n, f, T, b, L, R, x)
    BY <1>2
  <2>2. x = b
    BY <1>3, <2>1 DEF Made
  <2> QED
    BY <2>1, <2>2
<1> QED
  BY <1>2, <1>3, <1>4, <1>5

(* Painting the top black.                                                   *)
LEMMA Blackened ==
  ASSUME NEW n, Heap(n), NEW m, Heap(m), NEW f, NEW T, NEW b, Grown(n, f, T, b), IsRed(n, f),
         SameOn(n, m, T \ {f}), f \in DOMAIN m,
         m[f].child = n[f].child, m[f].color = Black
  PROVE  Sub(m, f, T, b + 1)
<1>1. PICK L \in SUBSET Names, R \in SUBSET Names : Made(n, f, T, b, L, R, b)
  BY RedGrown
<1>2. Over(n, f, L, R, b) /\ T = L \cup R \cup {f}
  BY <1>1 DEF Made
<1>3. /\ f \notin L /\ f \notin R
      /\ Left(n, f) = NULL \/ Left(n, f) \in L
      /\ Right(n, f) = NULL \/ Right(n, f) \in R
  BY <1>2, OverApart
<1>4. SameOn(n, m, L) /\ SameOn(n, m, R)
  BY <1>2, <1>3 DEF SameOn
<1>5. Left(m, f) = Left(n, f) /\ Right(m, f) = Right(n, f)
  BY DEF Left, Right
<1>6. Sub(m, Left(m, f), L, b) /\ Sub(m, Right(m, f), R, b)
  BY <1>2, <1>4, <1>5, SubFrame DEF Over
<1>7. Over(m, f, L, R, b)
  BY <1>2, <1>6 DEF Over
<1>8. ~ IsRed(m, Right(m, f))
  <2>1. ~ IsRed(n, Right(n, f))
    BY RedGrown
  <2> QED
    BY <1>3, <1>4, <1>5, <2>1 DEF IsRed, SameOn
<1>9. ~ IsRed(m, f)
  BY DEF IsRed, Red, Black
<1>10. Proper(m, f)
  BY <1>8, <1>9 DEF Proper
<1>11. Sub(m, f, L \cup R \cup {f}, b + m[f].color)
  BY <1>7, <1>10, SubMade
<1>12. b + m[f].color = b + 1
  BY DEF Black
<1> QED
  BY <1>2, <1>11, <1>12

-----------------------------------------------------------------------------
(* Balancing.                                                                *)
LEMMA Painted ==
  ASSUME NEW r \in NodeType, NEW c \in {0, 1}
  PROVE  LET q == [r EXCEPT !.color = c]
         IN  q \in NodeType /\ q.color = c /\ q.child = r.child
BY DEF NodeType, Red, Black

LEMMA Linked ==
  ASSUME NEW r \in NodeType, NEW d \in Dirs, NEW t \in Names \cup {NULL}
  PROVE  LET q == [r EXCEPT !.child[d] = t]
         IN  /\ q \in NodeType /\ q.color = r.color
             /\ q.child[d] = t /\ q.child[1 - d] = r.child[1 - d]
<1> DEFINE e == [r.child EXCEPT ![d] = t]
           q == [r EXCEPT !.child = e]
<1>1. r.child \in [Dirs -> Names \cup {NULL}]
  BY DEF NodeType
<1>2. e \in [Dirs -> Names \cup {NULL}]
  BY <1>1
<1>3. 1 - d \in Dirs /\ 1 - d # d
  BY DEF Dirs
<1>4. e[d] = t /\ e[1 - d] = r.child[1 - d]
  BY <1>1, <1>3
<1> HIDE DEF e
<1>5. q \in NodeType /\ q.color = r.color /\ q.child = e
  BY <1>2 DEF NodeType
<1>6. [r EXCEPT !.child[d] = t] = q
  BY DEF e
<1> HIDE DEF q
<1> QED
  BY <1>4, <1>5, <1>6

LEMMA RotateNodes ==
  ASSUME NEW n, Heap(n), NEW f \in DOMAIN n, NEW dir \in Dirs,
         NEW r \in DOMAIN n, f # r, r = n[f].child[1 - dir]
  PROVE  LET h == TreeRotate(n, f, dir).nodes
         IN  /\ Heap(h) /\ DOMAIN h = DOMAIN n /\ TreeRotate(n, f, dir).top = r
             /\ h[f].child[1 - dir] = n[r].child[dir] /\ h[f].child[dir] = n[f].child[dir]
             /\ h[f].color = 0
             /\ h[r].child[dir] = f /\ h[r].child[1 - dir] = n[r].child[1 - dir]
             /\ h[r].color = n[f].color
             /\ \A y \in DOMAIN n : y \notin {f, r} => h[y] = n[y]
<1> DEFINE e == 1 - dir
           h == TreeRotate(n, f, dir).nodes
           f1 == [n[f] EXCEPT !.child[e] = n[r].child[dir]]
           f2 == [f1 EXCEPT !.color = 0]
           r1 == [n[r] EXCEPT !.child[dir] = f]
           r2 == [r1 EXCEPT !.color = n[f].color]
<1>1. e \in Dirs /\ 1 - e = dir /\ e # dir
  BY DEF Dirs
<1>2. /\ n[f] \in NodeType /\ n[r] \in NodeType
      /\ n[r].child[dir] \in Names \cup {NULL} /\ f \in Names \cup {NULL}
      /\ n[f].color \in {0, 1}
  BY NodesAre
<1>3. h = [n EXCEPT ![f].child[e] = n[r].child[dir], ![f].color = 0,
                    ![r].child[dir] = f, ![r].color = n[f].color]
  BY DEF TreeRotate, Red
<1>4. n \in [DOMAIN n -> NodeType] /\ DOMAIN n \in SUBSET Names
  BY DEF Heap
<1>5. DOMAIN h = DOMAIN n /\ h[f] = f2 /\ h[r] = r2 /\ (\A y \in DOMAIN n : y \notin {f, r} => h[y] = n[y])
  <2> HIDE DEF e
  <2> QED
    BY <1>3
<1> HIDE DEF e
<1>6. f1 \in NodeType /\ f1.color = n[f].color /\ f1.child[e] = n[r].child[dir]
      /\ f1.child[1 - e] = n[f].child[1 - e]
  BY <1>1, <1>2, Linked
<1> HIDE DEF f1
<1>7. f2 \in NodeType /\ f2.color = 0 /\ f2.child = f1.child
  <2>1. 0 \in {0, 1}
    OBVIOUS
  <2> QED
    BY <1>6, <2>1, Painted
<1> HIDE DEF f2
<1>8. r1 \in NodeType /\ r1.color = n[r].color /\ r1.child[dir] = f
      /\ r1.child[1 - dir] = n[r].child[1 - dir]
  BY <1>2, Linked
<1> HIDE DEF r1
<1>9. r2 \in NodeType /\ r2.color = n[f].color /\ r2.child = r1.child
  BY <1>2, <1>8, Painted
<1> HIDE DEF r2
<1>10. h = [y \in DOMAIN n |-> h[y]]
  <2>1. h = [y \in DOMAIN h |-> h[y]]
    BY <1>3
  <2> QED
    BY <1>5, <2>1
<1>11. TreeRotate(n, f, dir).top = r
  BY DEF TreeRotate
<1> HIDE DEF h
<1>12. \A y \in DOMAIN n : h[y] \in NodeType
  BY <1>4, <1>5, <1>7, <1>9
<1>13. Heap(h)
  BY <1>4, <1>5, <1>10, <1>12 DEF Heap
<1> QED
  BY <1>1, <1>5, <1>6, <1>7, <1>8, <1>9, <1>11, <1>13 DEF h, e

LEMMA GrownNodes ==
  ASSUME NEW n, Heap(n), NEW f, NEW T, NEW b, Grown(n, f, T, b)
  PROVE  /\ T \subseteq DOMAIN n /\ T \in SUBSET Names /\ b \in Nat
         /\ f = NULL \/ f \in T
<1>1. CASE Sub(n, f, T, b)
  BY <1>1, SubNodes
<1>2. CASE Weak(n, f, T, b)
  <2>1. PICK L \in SUBSET Names, R \in SUBSET Names : Made(n, f, T, b, L, R, b)
    BY <1>2, RedGrown DEF Weak
  <2>2. Over(n, f, L, R, b) /\ T = L \cup R \cup {f}
    BY <2>1 DEF Made
  <2> QED
    BY <2>2, OverApart
<1> QED
  BY <1>1, <1>2 DEF Grown

(* What a step on the way up leaves behind: t took the place of f.            *)
Settled(n, f, T, b, h, t) ==
    /\ Heap(h) /\ DOMAIN h = DOMAIN n /\ t \in T
    /\ \A y \in DOMAIN n : y \notin T => h[y] = n[y]
    /\ Grown(h, t, T, b)
    /\ IsRed(n, f) => IsRed(h, t)
    /\ ~ IsRed(n, f) => Sub(h, t, T, b)

(* A node over two trees one of which has just grown.                        *)
Uneven(n, f, L, R, x) ==
    /\ f \in DOMAIN n /\ Ordered(f, L, R)
    /\ Grown(n, Left(n, f), L, x) /\ Grown(n, Right(n, f), R, x)

LEMMA UnevenApart ==
  ASSUME NEW n, Heap(n), NEW f, NEW L, NEW R, NEW x, Uneven(n, f, L, R, x)
  PROVE  /\ f \in Names /\ f \notin L /\ f \notin R /\ L \cap R = {}
         /\ L \in SUBSET Names /\ R \in SUBSET Names /\ x \in Nat
         /\ L \subseteq DOMAIN n /\ R \subseteq DOMAIN n
         /\ Left(n, f) = NULL \/ Left(n, f) \in L
         /\ Right(n, f) = NULL \/ Right(n, f) \in R
<1>1. /\ f \in DOMAIN n /\ Grown(n, Left(n, f), L, x) /\ Grown(n, Right(n, f), R, x)
      /\ \A y \in L : Lt(y, f)
      /\ \A y \in R : Lt(f, y)
  BY DEF Uneven, Ordered
<1>2. f \in Names
  BY <1>1, NodesAre
<1>3. L \subseteq DOMAIN n /\ L \in SUBSET Names /\ x \in Nat /\ (Left(n, f) = NULL \/ Left(n, f) \in L)
  BY <1>1, GrownNodes
<1>4. R \subseteq DOMAIN n /\ R \in SUBSET Names /\ (Right(n, f) = NULL \/ Right(n, f) \in R)
  BY <1>1, GrownNodes
<1>5. f \notin L /\ f \notin R /\ L \cap R = {}
  BY <1>1, <1>2, <1>3, <1>4, NotLess
<1> QED
  BY <1>2, <1>3, <1>4, <1>5

LEMMA Flip ==
  ASSUME NEW n, Heap(n), NEW f, NEW L, NEW R, NEW x, Uneven(n, f, L, R, x), ~ IsRed(n, f),
         IsRed(n, Left(n, f)), IsRed(n, Right(n, f))
  PROVE  Settled(n, f, L \cup R \cup {f}, x + n[f].color,
                 TreeBalance(n, f).nodes, TreeBalance(n, f).top)
<1> DEFINE l == Left(n, f)
           r == Right(n, f)
           T == L \cup R \cup {f}
           h == TreeBalance(n, f).nodes
<1>1. f \in DOMAIN n /\ Grown(n, l, L, x) /\ Grown(n, r, R, x) /\ Ordered(f, L, R)
  BY DEF Uneven
<1>2. /\ f \in Names /\ f \notin L /\ f \notin R /\ L \cap R = {}
      /\ L \in SUBSET Names /\ R \in SUBSET Names /\ x \in Nat
      /\ L \subseteq DOMAIN n /\ R \subseteq DOMAIN n
      /\ l = NULL \/ l \in L
      /\ r = NULL \/ r \in R
  BY UnevenApart
<1>3. l \in L /\ r \in R /\ l # r /\ l # f /\ r # f /\ l \in DOMAIN n /\ r \in DOMAIN n
  BY <1>2 DEF IsRed
<1>4. n[f].color = 1 /\ n[f] \in NodeType /\ n[l] \in NodeType /\ n[r] \in NodeType
  BY <1>1, <1>3, NodesAre
<1>5. /\ h = [n EXCEPT ![f].color = 1 - n[f].color, ![l].color = 1, ![r].color = 1]
      /\ TreeBalance(n, f).top = f
  BY DEF TreeBalance, Left, Right, Black
<1> DEFINE hf == [n[f] EXCEPT !.color = 1 - n[f].color]
           hl == [n[l] EXCEPT !.color = 1]
           hr == [n[r] EXCEPT !.color = 1]
<1>6. /\ hf \in NodeType /\ hf.color = 0 /\ hf.child = n[f].child
      /\ hl \in NodeType /\ hl.color = 1 /\ hl.child = n[l].child
      /\ hr \in NodeType /\ hr.color = 1 /\ hr.child = n[r].child
  <2>1. 1 \in {0, 1} /\ 0 \in {0, 1} /\ 1 - n[f].color = 0
    BY <1>4
  <2> QED
    BY <1>4, <2>1, Painted
<1>7. n \in [DOMAIN n -> NodeType] /\ DOMAIN n \in SUBSET Names
  BY DEF Heap
<1>8. /\ DOMAIN h = DOMAIN n /\ h[f] = hf /\ h[l] = hl /\ h[r] = hr
      /\ \A y \in DOMAIN n : y \notin {f, l, r} => h[y] = n[y]
  <2> HIDE DEF l, r
  <2> QED
    BY <1>1, <1>3, <1>5
<1>9. h = [y \in DOMAIN n |-> h[y]]
  <2>1. h = [y \in DOMAIN h |-> h[y]]
    BY <1>5
  <2> QED
    BY <1>8, <2>1
<1> HIDE DEF h, hf, hl, hr, l, r
<1>10. Heap(h)
  <2>1. \A y \in DOMAIN n : h[y] \in NodeType
    BY <1>6, <1>7, <1>8
  <2> QED
    BY <1>7, <1>8, <1>9, <2>1 DEF Heap
<1>11. Sub(h, l, L, x + 1)
  <2>1. SameOn(n, h, L \ {l}) /\ l \in DOMAIN h /\ h[l].child = n[l].child /\ h[l].color = Black
    BY <1>2, <1>3, <1>6, <1>8 DEF SameOn, Black
  <2>2. IsRed(n, l)
    BY DEF l
  <2> QED
    BY <1>1, <1>10, <2>1, <2>2, Blackened
<1>12. Sub(h, r, R, x + 1)
  <2>1. SameOn(n, h, R \ {r}) /\ r \in DOMAIN h /\ h[r].child = n[r].child /\ h[r].color = Black
    BY <1>2, <1>3, <1>6, <1>8 DEF SameOn, Black
  <2>2. IsRed(n, r)
    BY DEF r
  <2> QED
    BY <1>1, <1>10, <2>1, <2>2, Blackened
<1>13. Left(h, f) = l /\ Right(h, f) = r
  BY <1>6, <1>8 DEF Left, Right, l, r
<1>14. Over(h, f, L, R, x + 1)
  <2>1. x + 1 \in Nat
    BY <1>2
  <2> QED
    BY <1>1, <1>2, <1>8, <1>11, <1>12, <1>13, <2>1 DEF Over
<1>15. Proper(h, f)
  BY <1>6, <1>8, <1>13 DEF Proper, IsRed, Red
<1>16. Sub(h, f, T, x + n[f].color)
  <2>1. Sub(h, f, T, (x + 1) + h[f].color)
    BY <1>10, <1>14, <1>15, SubMade
  <2>2. (x + 1) + h[f].color = x + n[f].color
    BY <1>2, <1>4, <1>6, <1>8
  <2> QED
    BY <2>1, <2>2
<1>17. Settled(n, f, T, x + n[f].color, h, f)
  <2>1. \A y \in DOMAIN n : y \notin T => h[y] = n[y]
    BY <1>3, <1>8
  <2> QED
    BY <1>8, <1>10, <1>16, <2>1 DEF Settled, Grown
<1> QED
  BY <1>5, <1>17 DEF h

LEMMA RotateLeft ==
  ASSUME NEW n, Heap(n), NEW f, NEW L, NEW R, NEW x, Uneven(n, f, L, R, x),
         Sub(n, Left(n, f), L, x), Sub(n, Right(n, f), R, x),
         ~ IsRed(n, Left(n, f)), IsRed(n, Right(n, f))
  PROVE  Settled(n, f, L \cup R \cup {f}, x + n[f].color,
                 TreeBalance(n, f).nodes, TreeBalance(n, f).top)
<1> DEFINE l == Left(n, f)
           r == Right(n, f)
           T == L \cup R \cup {f}
           h == TreeBalance(n, f).nodes
<1>1. f \in DOMAIN n /\ Ordered(f, L, R)
  BY DEF Uneven
<1>2. /\ f \in Names /\ f \notin L /\ f \notin R /\ L \cap R = {}
      /\ L \in SUBSET Names /\ R \in SUBSET Names /\ x \in Nat
      /\ L \subseteq DOMAIN n /\ R \subseteq DOMAIN n
      /\ l = NULL \/ l \in L
      /\ r = NULL \/ r \in R
  BY UnevenApart
<1>3. r \in R /\ r # f /\ r \in DOMAIN n
  BY <1>2 DEF IsRed
<1>4. n[f].color \in {0, 1}
  BY <1>1, NodesAre
<1>5. Grown(n, r, R, x)
  BY DEF Grown
<1>6. PICK RL \in SUBSET Names, RR \in SUBSET Names : Made(n, r, R, x, RL, RR, x)
  BY <1>5, RedGrown
<1> DEFINE rl == Left(n, r)
           rr == Right(n, r)
<1>7. ~ IsRed(n, rl) /\ ~ IsRed(n, rr)
  BY <1>5, RedGrown
<1>8. /\ Over(n, r, RL, RR, x) /\ R = RL \cup RR \cup {r}
      /\ r \notin RL /\ r \notin RR /\ RL \cap RR = {}
      /\ rl = NULL \/ rl \in RL
      /\ rr = NULL \/ rr \in RR
  <2>1. Over(n, r, RL, RR, x) /\ R = RL \cup RR \cup {r}
    BY <1>6 DEF Made
  <2> QED
    BY <2>1, OverApart
<1>9. TreeBalance(n, f) = TreeRotate(n, f, 0)
  BY DEF TreeBalance, Left, Right
<1>10. /\ Heap(h) /\ DOMAIN h = DOMAIN n /\ TreeBalance(n, f).top = r
       /\ Right(h, f) = rl /\ Left(h, f) = l /\ h[f].color = 0
       /\ Left(h, r) = f /\ Right(h, r) = rr /\ h[r].color = n[f].color
       /\ \A y \in DOMAIN n : y \notin {f, r} => h[y] = n[y]
  <2>1. 0 \in Dirs /\ 1 - 0 = 1
    BY DEF Dirs
  <2>2. r = n[f].child[1 - 0]
    BY <2>1 DEF Right
  <2> DEFINE g == TreeRotate(n, f, 0).nodes
  <2>3. /\ Heap(g) /\ DOMAIN g = DOMAIN n /\ TreeRotate(n, f, 0).top = r
        /\ g[f].child[1 - 0] = n[r].child[0] /\ g[f].child[0] = n[f].child[0]
        /\ g[f].color = 0
        /\ g[r].child[0] = f /\ g[r].child[1 - 0] = n[r].child[1 - 0]
        /\ g[r].color = n[f].color
        /\ \A y \in DOMAIN n : y \notin {f, r} => g[y] = n[y]
    <3> HIDE DEF r
    <3> QED
      BY <1>1, <1>3, <2>1, <2>2, RotateNodes
  <2>4. g = h
    BY <1>9
  <2> HIDE DEF g, h, r
  <2> QED
    BY <1>9, <2>1, <2>3, <2>4 DEF Left, Right
<1> HIDE DEF h, l, r, rl, rr
<1>11. SameOn(n, h, L) /\ SameOn(n, h, RL) /\ SameOn(n, h, RR)
  BY <1>2, <1>3, <1>8, <1>10 DEF SameOn
<1>12. Sub(h, l, L, x)
  <2>1. Sub(n, l, L, x)
    BY DEF l
  <2> QED
    BY <2>1, <1>10, <1>11, SubFrame
<1>13. Sub(h, rl, RL, x) /\ Sub(h, rr, RR, x)
  <2>1. Sub(n, rl, RL, x) /\ Sub(n, rr, RR, x)
    BY <1>8 DEF Over, rl, rr
  <2> QED
    BY <2>1, <1>10, <1>11, SubFrame
<1>14. ~ IsRed(h, l) /\ ~ IsRed(h, rl) /\ ~ IsRed(h, rr)
  <2>1. ~ IsRed(n, l)
    BY DEF l
  <2> QED
    BY <2>1, <1>2, <1>7, <1>8, <1>11 DEF IsRed, SameOn
<1>15. /\ \A y \in L : Lt(y, f)
       /\ Lt(f, r)
       /\ \A y \in RL : Lt(f, y) /\ Lt(y, r)
       /\ \A y \in RR : Lt(r, y)
  BY <1>1, <1>3, <1>8 DEF Ordered, Over
<1> DEFINE A == L \cup RL \cup {f}
<1>16. Sub(h, f, A, x)
  <2>1. Over(h, f, L, RL, x)
    BY <1>1, <1>2, <1>10, <1>12, <1>13, <1>15 DEF Over, Ordered
  <2>2. Proper(h, f)
    BY <1>10, <1>14 DEF Proper
  <2>3. Sub(h, f, A, x + h[f].color)
    BY <1>10, <2>1, <2>2, SubMade
  <2>4. x + h[f].color = x
    BY <1>2, <1>10
  <2> QED
    BY <2>3, <2>4
<1>17. Over(h, r, A, RR, x)
  <2>1. A \in SUBSET Names
    BY <1>2
  <2>2. ASSUME NEW y \in L PROVE Lt(y, r)
    <3>1. y \in Names /\ r \in Names
      BY <1>2, <1>3
    <3> QED
      BY <1>2, <1>15, <3>1, LtTransitive
  <2>3. Ordered(r, A, RR)
    BY <1>15, <2>2 DEF Ordered
  <2> QED
    BY <1>2, <1>3, <1>10, <1>13, <1>16, <2>1, <2>3 DEF Over
<1>18. T = A \cup RR \cup {r}
  BY <1>8
<1>19. IsRed(h, f)
  <2>1. f # NULL
    BY <1>2 DEF Names, NULL
  <2> QED
    BY <1>10, <2>1 DEF IsRed, Red
<1>20. IsRed(n, f) => n[f].color = 0
  BY DEF IsRed, Red
<1>21. r # NULL
  BY <1>2, <1>3 DEF Names, NULL
<1> HIDE DEF A, T
<1>22. CASE IsRed(n, f)
  <2>1. IsRed(h, r)
    BY <1>10, <1>20, <1>21, <1>22 DEF IsRed, Red
  <2>2. Made(h, r, T, x + n[f].color, A, RR, x)
    BY <1>10, <1>17, <1>18 DEF Made
  <2>3. Weak(h, r, T, x + n[f].color)
    <3>1. IsRed(h, Left(h, r)) /\ ~ IsRed(h, Right(h, r))
      BY <1>10, <1>14, <1>19
    <3>2. A \in SUBSET Names /\ RR \in SUBSET Names /\ x \in Nat
      BY <1>17 DEF Over
    <3> QED
      BY <2>1, <2>2, <3>1, <3>2 DEF Weak
  <2> QED
    BY <1>22, <2>1, <2>3, <1>3, <1>10 DEF Settled, Grown, T, h
<1>23. CASE ~ IsRed(n, f)
  <2>1. n[f].color = 1
    BY <1>1, <1>23, NodesAre
  <2>2. ~ IsRed(h, r)
    BY <1>10, <2>1 DEF IsRed, Red
  <2>3. Proper(h, r)
    BY <1>10, <1>14, <2>2 DEF Proper
  <2>4. Sub(h, r, T, x + n[f].color)
    BY <1>10, <1>17, <1>18, <2>3, SubMade
  <2> QED
    BY <1>23, <2>4, <1>3, <1>10 DEF Settled, Grown, T, h
<1> QED
  BY <1>22, <1>23

LEMMA RotateRight ==
  ASSUME NEW n, Heap(n), NEW f, NEW L, NEW R, NEW x, Uneven(n, f, L, R, x),
         ~ IsRed(n, f), IsRed(n, Left(n, f)), IsRed(n, Left(n, Left(n, f))),
         Sub(n, Right(n, f), R, x), ~ IsRed(n, Right(n, f))
  PROVE  Settled(n, f, L \cup R \cup {f}, x + n[f].color,
                 TreeBalance(n, f).nodes, TreeBalance(n, f).top)
<1> DEFINE l == Left(n, f)
           r == Right(n, f)
           T == L \cup R \cup {f}
           h == TreeBalance(n, f).nodes
<1>1. f \in DOMAIN n /\ Ordered(f, L, R) /\ Grown(n, l, L, x)
  BY DEF Uneven
<1>2. /\ f \in Names /\ f \notin L /\ f \notin R /\ L \cap R = {}
      /\ L \in SUBSET Names /\ R \in SUBSET Names /\ x \in Nat
      /\ L \subseteq DOMAIN n /\ R \subseteq DOMAIN n
      /\ l = NULL \/ l \in L
      /\ r = NULL \/ r \in R
  BY UnevenApart
<1>3. l \in L /\ l # f /\ l \in DOMAIN n
  BY <1>2 DEF IsRed
<1>4. n[f].color = 1
  BY <1>1, NodesAre
<1>6. PICK LL \in SUBSET Names, LR \in SUBSET Names : Made(n, l, L, x, LL, LR, x)
  BY <1>1, RedGrown
<1> DEFINE ll == Left(n, l)
           lr == Right(n, l)
<1>7. IsRed(n, ll) /\ ~ IsRed(n, lr)
  BY <1>1, RedGrown
<1>8. /\ Over(n, l, LL, LR, x) /\ L = LL \cup LR \cup {l}
      /\ l \notin LL /\ l \notin LR /\ LL \cap LR = {}
      /\ ll = NULL \/ ll \in LL
      /\ lr = NULL \/ lr \in LR
  <2>1. Over(n, l, LL, LR, x) /\ L = LL \cup LR \cup {l}
    BY <1>6 DEF Made
  <2> QED
    BY <2>1, OverApart
<1>9. TreeBalance(n, f) = TreeRotate(n, f, 1)
  BY DEF TreeBalance, Left, Right
<1>10. /\ Heap(h) /\ DOMAIN h = DOMAIN n /\ TreeBalance(n, f).top = l
       /\ Left(h, f) = lr /\ Right(h, f) = r /\ h[f].color = 0
       /\ Right(h, l) = f /\ Left(h, l) = ll /\ h[l].color = 1
       /\ \A y \in DOMAIN n : y \notin {f, l} => h[y] = n[y]
  <2>1. 1 \in Dirs /\ 1 - 1 = 0
    BY DEF Dirs
  <2>2. l = n[f].child[1 - 1]
    BY <2>1 DEF Left
  <2> DEFINE g == TreeRotate(n, f, 1).nodes
  <2>3. /\ Heap(g) /\ DOMAIN g = DOMAIN n /\ TreeRotate(n, f, 1).top = l
        /\ g[f].child[1 - 1] = n[l].child[1] /\ g[f].child[1] = n[f].child[1]
        /\ g[f].color = 0
        /\ g[l].child[1] = f /\ g[l].child[1 - 1] = n[l].child[1 - 1]
        /\ g[l].color = n[f].color
        /\ \A y \in DOMAIN n : y \notin {f, l} => g[y] = n[y]
    <3> HIDE DEF l
    <3> QED
      BY <1>1, <1>3, <2>1, <2>2, RotateNodes
  <2>4. g = h
    BY <1>9
  <2> HIDE DEF g, h, l
  <2> QED
    BY <1>4, <1>9, <2>1, <2>3, <2>4 DEF Left, Right
<1> HIDE DEF h, l, r, ll, lr
<1>11. SameOn(n, h, R) /\ SameOn(n, h, LL) /\ SameOn(n, h, LR)
  BY <1>2, <1>3, <1>8, <1>10 DEF SameOn
<1>12. Sub(h, r, R, x)
  <2>1. Sub(n, r, R, x)
    BY DEF r
  <2> QED
    BY <2>1, <1>10, <1>11, SubFrame
<1>13. Sub(h, ll, LL, x) /\ Sub(h, lr, LR, x)
  <2>1. Sub(n, ll, LL, x) /\ Sub(n, lr, LR, x)
    BY <1>8 DEF Over, ll, lr
  <2> QED
    BY <2>1, <1>10, <1>11, SubFrame
<1>14. ~ IsRed(h, r) /\ ~ IsRed(h, lr) /\ IsRed(h, ll)
  <2>1. ~ IsRed(n, r)
    BY DEF r
  <2> QED
    BY <2>1, <1>2, <1>7, <1>8, <1>11 DEF IsRed, SameOn
<1>15. /\ \A y \in R : Lt(f, y)
       /\ Lt(l, f)
       /\ \A y \in LR : Lt(y, f) /\ Lt(l, y)
       /\ \A y \in LL : Lt(y, l)
  BY <1>1, <1>3, <1>8 DEF Ordered, Over
<1> DEFINE A == LR \cup R \cup {f}
<1>16. Sub(h, f, A, x)
  <2>1. Over(h, f, LR, R, x)
    BY <1>1, <1>2, <1>10, <1>12, <1>13, <1>15 DEF Over, Ordered
  <2>2. Proper(h, f)
    BY <1>10, <1>14 DEF Proper
  <2>3. Sub(h, f, A, x + h[f].color)
    BY <1>10, <2>1, <2>2, SubMade
  <2>4. x + h[f].color = x
    BY <1>2, <1>10
  <2> QED
    BY <2>3, <2>4
<1>17. Over(h, l, LL, A, x)
  <2>1. A \in SUBSET Names
    BY <1>2
  <2>2. ASSUME NEW y \in R PROVE Lt(l, y)
    <3>1. y \in Names /\ l \in Names
      BY <1>2, <1>3
    <3> QED
      BY <1>2, <1>15, <3>1, LtTransitive
  <2>3. Ordered(l, LL, A)
    BY <1>15, <2>2 DEF Ordered
  <2> QED
    BY <1>2, <1>3, <1>10, <1>13, <1>16, <2>1, <2>3 DEF Over
<1>18. T = LL \cup A \cup {l}
  BY <1>8
<1> HIDE DEF A, T
<1>19. ~ IsRed(h, l)
  BY <1>10 DEF IsRed, Red
<1>20. Proper(h, l)
  BY <1>10, <1>14, <1>19 DEF Proper
<1>21. Sub(h, l, T, x + n[f].color)
  <2>1. Sub(h, l, T, x + h[l].color)
    BY <1>10, <1>17, <1>18, <1>20, SubMade
  <2> QED
    BY <1>4, <1>10, <2>1
<1> QED
  BY <1>21, <1>3, <1>10 DEF Settled, Grown, T, h

LEMMA Unchanged ==
  ASSUME NEW n, Heap(n), NEW f, NEW L, NEW R, NEW x, Uneven(n, f, L, R, x),
         Sub(n, Left(n, f), L, x), Sub(n, Right(n, f), R, x), ~ IsRed(n, Right(n, f)),
         ~ (IsRed(n, Left(n, f)) /\ IsRed(n, Left(n, Left(n, f))))
  PROVE  Settled(n, f, L \cup R \cup {f}, x + n[f].color,
                 TreeBalance(n, f).nodes, TreeBalance(n, f).top)
<1> DEFINE T == L \cup R \cup {f}
           c == x + n[f].color
<1>1. TreeBalance(n, f).nodes = n /\ TreeBalance(n, f).top = f
  BY DEF TreeBalance, Left, Right
<1>2. f \in DOMAIN n /\ L \in SUBSET Names /\ R \in SUBSET Names /\ x \in Nat
  BY UnevenApart DEF Uneven
<1>3. Over(n, f, L, R, x)
  BY <1>2 DEF Over, Uneven
<1>4. Made(n, f, T, c, L, R, x)
  BY <1>3 DEF Made
<1>5. Proper(n, f) => Sub(n, f, T, c)
  BY <1>3, SubMade
<1>6. ~ Proper(n, f) => Weak(n, f, T, c) /\ IsRed(n, f)
  BY <1>2, <1>4 DEF Proper, Weak
<1>7. f \in T
  OBVIOUS
<1>8. ~ IsRed(n, f) => Sub(n, f, T, c)
  BY <1>5, <1>6
<1>9. Grown(n, f, T, c)
  BY <1>5, <1>6 DEF Grown
<1> HIDE DEF T, c
<1>10. Settled(n, f, T, c, n, f)
  BY <1>7, <1>8, <1>9 DEF Settled
<1> QED
  BY <1>1, <1>10 DEF T, c

(* tree_balance() repairs what one insertion below f may have broken.         *)
LEMMA Balances ==
  ASSUME NEW n, Heap(n), NEW f, NEW L, NEW R, NEW x, Uneven(n, f, L, R, x),
         IsRed(n, f) => /\ Sub(n, Left(n, f), L, x) /\ Sub(n, Right(n, f), R, x)
                        /\ ~ (IsRed(n, Left(n, f)) /\ IsRed(n, Right(n, f))),
         ~ Sub(n, Right(n, f), R, x) => IsRed(n, Left(n, f))
  PROVE  Settled(n, f, L \cup R \cup {f}, x + n[f].color,
                 TreeBalance(n, f).nodes, TreeBalance(n, f).top)
<1> DEFINE l == Left(n, f)
           r == Right(n, f)
<1>1. Grown(n, l, L, x) /\ Grown(n, r, R, x)
  BY DEF Uneven
<1>2. /\ ~ Sub(n, l, L, x) => IsRed(n, l) /\ IsRed(n, Left(n, l))
      /\ ~ Sub(n, r, R, x) => IsRed(n, r)
  BY <1>1 DEF Grown, Weak
<1>3. IsRed(n, l) /\ IsRed(n, Left(n, l)) => ~ Sub(n, l, L, x)
  BY <1>1, RedGrown
<1>4. CASE IsRed(n, l) /\ IsRed(n, r)
  BY <1>4, Flip
<1>5. CASE ~ IsRed(n, l) /\ IsRed(n, r)
  BY <1>2, <1>5, RotateLeft
<1>6. CASE ~ IsRed(n, r) /\ IsRed(n, l) /\ IsRed(n, Left(n, l))
  BY <1>2, <1>3, <1>6, RotateRight
<1>7. CASE ~ IsRed(n, r) /\ ~ (IsRed(n, l) /\ IsRed(n, Left(n, l)))
  BY <1>2, <1>7, Unchanged
<1> QED
  BY <1>4, <1>5, <1>6, <1>7

-----------------------------------------------------------------------------
(* Insertion.                                                                *)
(* What func_get() leaves behind at f when it has inserted the name.          *)
Inserted(n, f, T, b, name, m, t) ==
    /\ Heap(m) /\ DOMAIN m = DOMAIN n \cup {name} /\ t \in T \cup {name}
    /\ \A y \in DOMAIN n : y \notin T => m[y] = n[y]
    /\ Grown(m, t, T \cup {name}, b)
    /\ IsRed(n, f) => IsRed(m, t)
    /\ ~ IsRed(n, f) => Sub(m, t, T \cup {name}, b)

LEMMA NewIsInserted ==
  ASSUME NEW n, Heap(n), NEW name \in Names, name \notin DOMAIN n
  PROVE  Inserted(n, NULL, {}, 0, name,
                  [y \in DOMAIN n \cup {name} |-> IF y = name THEN NewNode ELSE n[y]], name)
<1> DEFINE m == [y \in DOMAIN n \cup {name} |-> IF y = name THEN NewNode ELSE n[y]]
<1>1. m = [y \in DOMAIN n \cup {name} |-> IF y = name THEN NewNode ELSE n[y]]
  OBVIOUS
<1>2. NewNode \in NodeType /\ NewNode.color = 0 /\ NewNode.child[0] = NULL /\ NewNode.child[1] = NULL
  BY DEF NewNode, NodeType, Red, Black, Dirs
<1> HIDE DEF m
<1>3. /\ DOMAIN m = DOMAIN n \cup {name} /\ m[name] = NewNode
      /\ \A y \in DOMAIN n : m[y] = n[y]
  BY <1>1
<1>4. Heap(m)
  <2>1. DOMAIN n \in SUBSET Names /\ \A y \in DOMAIN n : n[y] \in NodeType
    BY DEF Heap
  <2>2. m \in [DOMAIN n \cup {name} -> NodeType]
    BY <1>1, <1>2, <2>1
  <2> QED
    BY <1>3, <2>1, <2>2 DEF Heap
<1>5. Left(m, name) = NULL /\ Right(m, name) = NULL /\ m[name].color = 0
  BY <1>2, <1>3 DEF Left, Right
<1>6. Over(m, name, {}, {}, 0)
  BY <1>3, <1>5, SubNone DEF Over, Ordered
<1>7. Proper(m, name)
  BY <1>5 DEF Proper, IsRed
<1>8. Sub(m, name, {} \cup {} \cup {name}, 0 + m[name].color)
  BY <1>4, <1>6, <1>7, SubMade
<1>9. Sub(m, name, {} \cup {name}, 0)
  BY <1>5, <1>8
<1>10. ~ IsRed(n, NULL)
  BY DEF IsRed
<1>11. Inserted(n, NULL, {}, 0, name, m, name)
  BY <1>3, <1>4, <1>9, <1>10 DEF Inserted, Grown
<1> QED
  BY <1>11 DEF m

LEMMA Grows ==
  ASSUME NEW n, Heap(n), NEW name \in Names, name \notin DOMAIN n,
         NEW f, NEW L, NEW R, NEW x, Over(n, f, L, R, x), Proper(n, f),
         NEW d \in Dirs, d = 0 => Lt(name, f), d = 1 => Lt(f, name),
         NEW m, NEW t,
         Inserted(n, n[f].child[d], IF d = 0 THEN L ELSE R, x, name, m, t)
  PROVE  LET h == TreeBalance([m EXCEPT ![f].child[d] = t], f)
         IN  Inserted(n, f, L \cup R \cup {f}, x + n[f].color, name, h.nodes, h.top)
<1> DEFINE S == IF d = 0 THEN L ELSE R
           c == n[f].child[d]
           q == [n[f] EXCEPT !.child[d] = t]
           o == [m EXCEPT ![f].child[d] = t]
           g == TreeBalance(o, f)
<1>1. /\ f \in DOMAIN n /\ f \in Names /\ f \notin L /\ f \notin R /\ L \cap R = {}
      /\ L \in SUBSET Names /\ R \in SUBSET Names /\ x \in Nat
      /\ L \subseteq DOMAIN n /\ R \subseteq DOMAIN n
      /\ Left(n, f) = NULL \/ Left(n, f) \in L
      /\ Right(n, f) = NULL \/ Right(n, f) \in R
  BY OverApart
<1>2. /\ Heap(m) /\ DOMAIN m = DOMAIN n \cup {name} /\ t \in S \cup {name}
      /\ \A y \in DOMAIN n : y \notin S => m[y] = n[y]
      /\ Grown(m, t, S \cup {name}, x)
      /\ IsRed(n, c) => IsRed(m, t)
      /\ ~ IsRed(n, c) => Sub(m, t, S \cup {name}, x)
  BY DEF Inserted
<1>3. f \notin S /\ f # name /\ m[f] = n[f] /\ f \in DOMAIN m /\ S \in SUBSET Names
  BY <1>1, <1>2
<1>4. n[f] \in NodeType
  BY <1>1, NodesAre
<1>5. t \in Names \cup {NULL}
  BY <1>2, <1>3
<1>6. q \in NodeType /\ q.color = n[f].color /\ q.child[d] = t /\ q.child[1 - d] = n[f].child[1 - d]
  BY <1>4, <1>5, Linked
<1> HIDE DEF S, c
<1>7. /\ DOMAIN o = DOMAIN m /\ o[f] = q
      /\ \A y \in DOMAIN m : y # f => o[y] = m[y]
  BY <1>3
<1>8. Heap(o)
  <2>1. DOMAIN m \in SUBSET Names /\ \A y \in DOMAIN m : m[y] \in NodeType
    BY <1>2 DEF Heap
  <2>2. o = [y \in DOMAIN o |-> o[y]]
    OBVIOUS
  <2> HIDE DEF o, q
  <2>3. \A y \in DOMAIN m : o[y] \in NodeType
    BY <1>6, <1>7, <2>1
  <2> QED
    BY <1>7, <2>1, <2>2, <2>3 DEF Heap
<1> HIDE DEF o, q, g
<1>9. o[f].color = n[f].color /\ (IsRed(o, f) <=> IsRed(n, f))
  BY <1>6, <1>7 DEF IsRed
<1>10. Grown(o, t, S \cup {name}, x) /\ (Sub(m, t, S \cup {name}, x) => Sub(o, t, S \cup {name}, x))
  <2>1. SameOn(m, o, S \cup {name})
    <3>1. S \cup {name} \subseteq DOMAIN m
      BY <1>2, GrownNodes
    <3> QED
      BY <1>3, <1>7, <3>1 DEF SameOn
  <2> QED
    BY <1>2, <1>8, <2>1, GrownFrame
<1>11. IsRed(o, t) <=> IsRed(m, t)
  <2>1. t # f
    BY <1>2, <1>3
  <2>2. t \in DOMAIN m
    BY <1>2, GrownNodes
  <2> QED
    BY <1>7, <2>1, <2>2 DEF IsRed
<1>12. c = n[f].child[d]
  BY DEF c
<1> DEFINE P == IF d = 0 THEN L \cup {name} ELSE L
           Q == IF d = 0 THEN R ELSE R \cup {name}
<1>13. /\ Uneven(o, f, P, Q, x)
       /\ IsRed(o, f) => /\ Sub(o, Left(o, f), P, x) /\ Sub(o, Right(o, f), Q, x)
                         /\ ~ (IsRed(o, Left(o, f)) /\ IsRed(o, Right(o, f)))
       /\ ~ Sub(o, Right(o, f), Q, x) => IsRed(o, Left(o, f))
  <2>1. CASE d = 0
    <3>1. S = L /\ c = Left(n, f) /\ P = L \cup {name} /\ Q = R
      BY <2>1 DEF S, c, Left
    <3>2. Left(o, f) = t /\ Right(o, f) = Right(n, f)
      BY <2>1, <1>6, <1>7 DEF Left, Right
    <3>3. SameOn(n, o, R)
      BY <1>1, <1>2, <1>7, <3>1 DEF SameOn
    <3>4. Sub(o, Right(o, f), R, x)
      BY <1>8, <3>2, <3>3, SubFrame DEF Over
    <3>5. IsRed(o, Right(o, f)) <=> IsRed(n, Right(n, f))
      BY <1>1, <3>2, <3>3 DEF SameOn, IsRed
    <3>6. Ordered(f, P, Q)
      BY <2>1, <3>1 DEF Ordered, Over
    <3>7. Uneven(o, f, P, Q, x)
      BY <1>1, <1>2, <1>7, <1>10, <3>1, <3>2, <3>4, <3>6 DEF Uneven, Grown
    <3>8. ASSUME IsRed(o, f)
          PROVE  /\ Sub(o, Left(o, f), P, x) /\ Sub(o, Right(o, f), Q, x)
                 /\ ~ (IsRed(o, Left(o, f)) /\ IsRed(o, Right(o, f)))
      <4>1. ~ IsRed(n, c) /\ ~ IsRed(n, Right(n, f))
        BY <1>9, <3>1, <3>8 DEF Proper
      <4> QED
        BY <1>2, <1>10, <3>1, <3>2, <3>4, <3>5, <4>1
    <3> QED
      BY <3>1, <3>4, <3>7, <3>8
  <2>2. CASE d = 1
    <3>1. S = R /\ c = Right(n, f) /\ P = L /\ Q = R \cup {name}
      BY <2>2 DEF S, c, Right
    <3>2. Right(o, f) = t /\ Left(o, f) = Left(n, f)
      BY <2>2, <1>6, <1>7 DEF Left, Right
    <3>3. SameOn(n, o, L)
      BY <1>1, <1>2, <1>7, <3>1 DEF SameOn
    <3>4. Sub(o, Left(o, f), L, x)
      BY <1>8, <3>2, <3>3, SubFrame DEF Over
    <3>5. IsRed(o, Left(o, f)) <=> IsRed(n, Left(n, f))
      BY <1>1, <3>2, <3>3 DEF SameOn, IsRed
    <3>6. Ordered(f, P, Q)
      BY <2>2, <3>1 DEF Ordered, Over
    <3>7. Uneven(o, f, P, Q, x)
      BY <1>1, <1>2, <1>7, <1>10, <3>1, <3>2, <3>4, <3>6 DEF Uneven, Grown
    <3>8. ASSUME IsRed(o, f)
          PROVE  /\ Sub(o, Left(o, f), P, x) /\ Sub(o, Right(o, f), Q, x)
                 /\ ~ (IsRed(o, Left(o, f)) /\ IsRed(o, Right(o, f)))
      <4>1. ~ IsRed(n, c) /\ ~ IsRed(n, Left(n, f))
        BY <1>9, <3>1, <3>8 DEF Proper
      <4> QED
        BY <1>2, <1>10, <3>1, <3>2, <3>4, <3>5, <4>1
    <3>9. ~ Sub(o, Right(o, f), Q, x) => IsRed(o, Left(o, f))
      <4>1. ~ Sub(m, t, S \cup {name}, x) => IsRed(n, c)
        BY <1>2
      <4>2. IsRed(n, c) => IsRed(n, Left(n, f))
        BY <3>1 DEF Proper
      <4> QED
        BY <1>10, <3>1, <3>2, <3>5, <4>1, <4>2
    <3> QED
      BY <3>7, <3>8, <3>9
  <2> QED
    BY <2>1, <2>2 DEF Dirs
<1> DEFINE T == L \cup R \cup {f}
           b == x + n[f].color
<1>14. P \cup Q \cup {f} = T \cup {name}
  OBVIOUS
<1>15. Settled(o, f, T \cup {name}, b, g.nodes, g.top)
  <2>1. Settled(o, f, P \cup Q \cup {f}, x + o[f].color, g.nodes, g.top)
    <3> HIDE DEF P, Q
    <3> QED
      BY <1>8, <1>13, Balances DEF g
  <2> HIDE DEF P, Q, T
  <2> QED
    BY <1>9, <1>14, <2>1
<1>16. S \subseteq T
  BY DEF S
<1> HIDE DEF T, b
<1>17. ASSUME NEW y \in DOMAIN n, y \notin T PROVE g.nodes[y] = n[y]
  <2>1. y \notin S /\ y \notin T \cup {name} /\ y # f /\ y \in DOMAIN m /\ y \in DOMAIN o
    BY <1>2, <1>7, <1>16, <1>17 DEF T
  <2> QED
    BY <1>2, <1>7, <1>15, <2>1 DEF Settled
<1>18. Inserted(n, f, T, b, name, g.nodes, g.top)
  BY <1>2, <1>7, <1>9, <1>15, <1>17 DEF Inserted, Settled
<1> QED
  BY <1>18 DEF T, b, g, o

-----------------------------------------------------------------------------
(* The recursions of func_get(), of the walk and of the heights, one level at  *)
(* a time: there is a function of each kind, down to any depth.              *)
Places == Nodes \cup {NULL}

GetStep(name, p, f) ==
    IF CmpFuncNames(name, f) = 0
    THEN [ nodes |-> node, top |-> f, out |-> f, inserted |-> FALSE ]
    ELSE LET d == IF CmpFuncNames(name, f) > 0 THEN 1 ELSE 0
             g == p[node[f].child[d]]
             h == TreeBalance([g.nodes EXCEPT ![f].child[d] = g.top], f)
         IN  IF g.inserted
             THEN [g EXCEPT !.nodes = h.nodes, !.top = h.top]
             ELSE [g EXCEPT !.top = f]
GetNew(name) ==
    [ nodes |-> Allocated(name), top |-> name, out |-> name, inserted |-> TRUE ]
GetAt(name, w, k) ==
    [ f \in Places |-> IF f = NULL \/ k = 0 THEN GetNew(name) ELSE GetStep(name, w[k - 1], f) ]

WalkStep(p, f) == p[node[f].child[0]] \o <<f>> \o p[node[f].child[1]]
WalkAt(w, k) ==
    [ f \in Places |-> IF f = NULL \/ k = 0 THEN <<>> ELSE WalkStep(w[k - 1], f) ]

HeightStep(p, f) ==
    LET l == p[node[f].child[0]]
        r == p[node[f].child[1]]
    IN  IF l # r \/ l = -1 THEN -1
        ELSE l + IF node[f].color = Black THEN 1 ELSE 0
HeightAt(w, k) ==
    [ f \in Places |-> IF f = NULL THEN 0 ELSE IF k = 0 THEN -1 ELSE HeightStep(w[k - 1], f) ]

(* Induction from one number to the next.                                     *)
LEMMA StepByStep ==
  ASSUME NEW S, 0 \in S, \A n \in Nat : n \in S => n + 1 \in S
  PROVE  Nat \subseteq S
<1> DEFINE T == Nat \ S
           m == Min(T)
<1> SUFFICES ASSUME T # {} PROVE FALSE
  OBVIOUS
<1>1. m \in T /\ \A i \in T : m <= i
  <2>1. T \in SUBSET Nat /\ T # {}
    OBVIOUS
  <2> HIDE DEF T
  <2> QED
    BY <2>1, LeastNumber
<1>2. m \in Nat /\ m \notin S
  BY <1>1
<1> HIDE DEF m
<1>3. m # 0 /\ m - 1 \in Nat /\ ~ (m <= m - 1)
  BY <1>2
<1>4. m - 1 \in S
  BY <1>1, <1>3
<1>5. m - 1 + 1 = m
  BY <1>2
<1> QED
  BY <1>2, <1>3, <1>4, <1>5

LEMMA GetRecursion ==
  ASSUME NEW name, NEW t \in Nat
  PROVE  LET w == CHOOSE g : g = [k \in 0 .. t |-> GetAt(name, g, k)]
         IN  \A k \in 0 .. t : w[k] = GetAt(name, w, k)
<1> DEFINE Fits(g, m) == g = [k \in 0 .. m |-> GetAt(name, g, k)]
           S == { m \in Nat : \E g : Fits(g, m) }
<1>1. 0 \in S
  <2> DEFINE g == [k \in 0 .. 0 |-> GetAt(name, <<>>, 0)]
  <2>1. GetAt(name, g, 0) = GetAt(name, <<>>, 0)
    <3> HIDE DEF g
    <3> QED
      BY DEF GetAt
  <2>2. \A k \in 0 .. 0 : GetAt(name, g, k) = GetAt(name, <<>>, 0)
    BY <2>1
  <2>3. g = [k \in 0 .. 0 |-> GetAt(name, g, k)]
    BY <2>2
  <2> HIDE DEF g
  <2> QED
    BY <2>3
<1>2. ASSUME NEW m \in Nat, m \in S PROVE m + 1 \in S
  <2>1. PICK g : Fits(g, m)
    BY <1>2
  <2>2. \A k \in 0 .. m : g[k] = GetAt(name, g, k)
    BY <2>1
  <2> HIDE DEF Fits
  <2> DEFINE u == m + 1
             h == [k \in 0 .. u |-> IF k = u THEN GetAt(name, g, u) ELSE g[k]]
  <2>3. u \in Nat /\ u - 1 = m /\ u # 0
    OBVIOUS
  <2>4. \A k \in 0 .. u : k # u => k \in 0 .. m
    OBVIOUS
  <2>5. \A k \in 0 .. u : k # 0 => k - 1 \in 0 .. u /\ k - 1 # u
    OBVIOUS
  <2> HIDE DEF u
  <2>6. ASSUME NEW k \in 0 .. u
        PROVE  h[k] = GetAt(name, h, k)
    <3>1. k # 0 => h[k - 1] = g[k - 1]
      BY <2>5
    <3>2. GetAt(name, h, k) = GetAt(name, g, k)
      <4> HIDE DEF h
      <4>1. CASE k = 0
        BY <4>1 DEF GetAt
      <4>2. CASE k # 0
        BY <3>1, <4>2 DEF GetAt
      <4> QED
        BY <4>1, <4>2
    <3>3. CASE k = u
      BY <3>2, <3>3
    <3>4. CASE k # u
      BY <2>2, <2>4, <3>2, <3>4
    <3> QED
      BY <3>3, <3>4
  <2>7. h = [k \in 0 .. u |-> GetAt(name, h, k)]
    <3>1. h = [k \in 0 .. u |-> h[k]]
      OBVIOUS
    <3> HIDE DEF h
    <3> QED
      BY <2>6, <3>1
  <2> HIDE DEF h
  <2>8. u \in S
    BY <2>3, <2>7 DEF Fits
  <2> QED
    BY <2>8 DEF u
<1>3. t \in S
  <2> HIDE DEF S
  <2> QED
    BY <1>1, <1>2, StepByStep
<1> DEFINE w == CHOOSE g : Fits(g, t)
<1>4. Fits(w, t)
  <2>1. \E g : Fits(g, t)
    BY <1>3
  <2> HIDE DEF Fits
  <2> QED
    BY <2>1
<1>5. w = CHOOSE g : g = [k \in 0 .. t |-> GetAt(name, g, k)]
  OBVIOUS
<1>6. \A k \in 0 .. t : w[k] = GetAt(name, w, k)
  <2> HIDE DEF w
  <2> QED
    BY <1>4
<1> HIDE DEF w, Fits
<1> QED
  BY <1>5, <1>6

LEMMA WalkRecursion ==
  ASSUME NEW t \in Nat
  PROVE  LET w == CHOOSE g : g = [k \in 0 .. t |-> WalkAt(g, k)]
         IN  \A k \in 0 .. t : w[k] = WalkAt(w, k)
<1> DEFINE Fits(g, m) == g = [k \in 0 .. m |-> WalkAt(g, k)]
           S == { m \in Nat : \E g : Fits(g, m) }
<1>1. 0 \in S
  <2> DEFINE g == [k \in 0 .. 0 |-> WalkAt(<<>>, 0)]
  <2>1. WalkAt(g, 0) = WalkAt(<<>>, 0)
    <3> HIDE DEF g
    <3> QED
      BY DEF WalkAt
  <2>2. \A k \in 0 .. 0 : WalkAt(g, k) = WalkAt(<<>>, 0)
    BY <2>1
  <2>3. g = [k \in 0 .. 0 |-> WalkAt(g, k)]
    BY <2>2
  <2> HIDE DEF g
  <2> QED
    BY <2>3
<1>2. ASSUME NEW m \in Nat, m \in S PROVE m + 1 \in S
  <2>1. PICK g : Fits(g, m)
    BY <1>2
  <2>2. \A k \in 0 .. m : g[k] = WalkAt(g, k)
    BY <2>1
  <2> HIDE DEF Fits
  <2> DEFINE u == m + 1
             h == [k \in 0 .. u |-> IF k = u THEN WalkAt(g, u) ELSE g[k]]
  <2>3. u \in Nat /\ u - 1 = m /\ u # 0
    OBVIOUS
  <2>4. \A k \in 0 .. u : k # u => k \in 0 .. m
    OBVIOUS
  <2>5. \A k \in 0 .. u : k # 0 => k - 1 \in 0 .. u /\ k - 1 # u
    OBVIOUS
  <2> HIDE DEF u
  <2>6. ASSUME NEW k \in 0 .. u
        PROVE  h[k] = WalkAt(h, k)
    <3>1. k # 0 => h[k - 1] = g[k - 1]
      BY <2>5
    <3>2. WalkAt(h, k) = WalkAt(g, k)
      <4> HIDE DEF h
      <4>1. CASE k = 0
        BY <4>1 DEF WalkAt
      <4>2. CASE k # 0
        BY <3>1, <4>2 DEF WalkAt
      <4> QED
        BY <4>1, <4>2
    <3>3. CASE k = u
      BY <3>2, <3>3
    <3>4. CASE k # u
      BY <2>2, <2>4, <3>2, <3>4
    <3> QED
      BY <3>3, <3>4
  <2>7. h = [k \in 0 .. u |-> WalkAt(h, k)]
    <3>1. h = [k \in 0 .. u |-> h[k]]
      OBVIOUS
    <3> HIDE DEF h
    <3> QED
      BY <2>6, <3>1
  <2> HIDE DEF h
  <2>8. u \in S
    BY <2>3, <2>7 DEF Fits
  <2> QED
    BY <2>8 DEF u
<1>3. t \in S
  <2> HIDE DEF S
  <2> QED
    BY <1>1, <1>2, StepByStep
<1> DEFINE w == CHOOSE g : Fits(g, t)
<1>4. Fits(w, t)
  <2>1. \E g : Fits(g, t)
    BY <1>3
  <2> HIDE DEF Fits
  <2> QED
    BY <2>1
<1>5. w = CHOOSE g : g = [k \in 0 .. t |-> WalkAt(g, k)]
  OBVIOUS
<1>6. \A k \in 0 .. t : w[k] = WalkAt(w, k)
  <2> HIDE DEF w
  <2> QED
    BY <1>4
<1> HIDE DEF w, Fits
<1> QED
  BY <1>5, <1>6

LEMMA HeightRecursion ==
  ASSUME NEW t \in Nat
  PROVE  LET w == CHOOSE g : g = [k \in 0 .. t |-> HeightAt(g, k)]
         IN  \A k \in 0 .. t : w[k] = HeightAt(w, k)
<1> DEFINE Fits(g, m) == g = [k \in 0 .. m |-> HeightAt(g, k)]
           S == { m \in Nat : \E g : Fits(g, m) }
<1>1. 0 \in S
  <2> DEFINE g == [k \in 0 .. 0 |-> HeightAt(<<>>, 0)]
  <2>1. HeightAt(g, 0) = HeightAt(<<>>, 0)
    <3> HIDE DEF g
    <3> QED
      BY DEF HeightAt
  <2>2. \A k \in 0 .. 0 : HeightAt(g, k) = HeightAt(<<>>, 0)
    BY <2>1
  <2>3. g = [k \in 0 .. 0 |-> HeightAt(g, k)]
    BY <2>2
  <2> HIDE DEF g
  <2> QED
    BY <2>3
<1>2. ASSUME NEW m \in Nat, m \in S PROVE m + 1 \in S
  <2>1. PICK g : Fits(g, m)
    BY <1>2
  <2>2. \A k \in 0 .. m : g[k] = HeightAt(g, k)
    BY <2>1
  <2> HIDE DEF Fits
  <2> DEFINE u == m + 1
             h == [k \in 0 .. u |-> IF k = u THEN HeightAt(g, u) ELSE g[k]]
  <2>3. u \in Nat /\ u - 1 = m /\ u # 0
    OBVIOUS
  <2>4. \A k \in 0 .. u : k # u => k \in 0 .. m
    OBVIOUS
  <2>5. \A k \in 0 .. u : k # 0 => k - 1 \in 0 .. u /\ k - 1 # u
    OBVIOUS
  <2> HIDE DEF u
  <2>6. ASSUME NEW k \in 0 .. u
        PROVE  h[k] = HeightAt(h, k)
    <3>1. k # 0 => h[k - 1] = g[k - 1]
      BY <2>5
    <3>2. HeightAt(h, k) = HeightAt(g, k)
      <4> HIDE DEF h
      <4>1. CASE k = 0
        BY <4>1 DEF HeightAt
      <4>2. CASE k # 0
        BY <3>1, <4>2 DEF HeightAt
      <4> QED
        BY <4>1, <4>2
    <3>3. CASE k = u
      BY <3>2, <3>3
    <3>4. CASE k # u
      BY <2>2, <2>4, <3>2, <3>4
    <3> QED
      BY <3>3, <3>4
  <2>7. h = [k \in 0 .. u |-> HeightAt(h, k)]
    <3>1. h = [k \in 0 .. u |-> h[k]]
      OBVIOUS
    <3> HIDE DEF h
    <3> QED
      BY <2>6, <3>1
  <2> HIDE DEF h
  <2>8. u \in S
    BY <2>3, <2>7 DEF Fits
  <2> QED
    BY <2>8 DEF u
<1>3. t \in S
  <2> HIDE DEF S
  <2> QED
    BY <1>1, <1>2, StepByStep
<1> DEFINE w == CHOOSE g : Fits(g, t)
<1>4. Fits(w, t)
  <2>1. \E g : Fits(g, t)
    BY <1>3
  <2> HIDE DEF Fits
  <2> QED
    BY <2>1
<1>5. w = CHOOSE g : g = [k \in 0 .. t |-> HeightAt(g, k)]
  OBVIOUS
<1>6. \A k \in 0 .. t : w[k] = HeightAt(w, k)
  <2> HIDE DEF w
  <2> QED
    BY <1>4
<1> HIDE DEF w, Fits
<1> QED
  BY <1>5, <1>6

LEMMA GetIs ==
  ASSUME NEW name
  PROVE  Get(name) = (CHOOSE g : g = [k \in 0 .. Size |-> GetAt(name, g, k)])[Size][root]
BY DEF Get, GetAt, GetStep, GetNew, Places

LEMMA InOrderIs ==
  InOrder = (CHOOSE g : g = [k \in 0 .. Size |-> WalkAt(g, k)])[Size][root]
BY DEF InOrder, WalkAt, WalkStep, Places

LEMMA BlackHeightIs ==
  BlackHeight = (CHOOSE g : g = [k \in 0 .. Size |-> HeightAt(g, k)])[Size][root]
BY DEF BlackHeight, HeightAt, HeightStep, Places

-----------------------------------------------------------------------------
(* What the recursions compute, by induction over the trees.                  *)
LEMMA OverCounts ==
  ASSUME NEW n, Heap(n), NEW f, NEW L, NEW R, NEW x, Over(n, f, L, R, x)
  PROVE  /\ Cardinality(L) \in Nat /\ Cardinality(R) \in Nat
         /\ Cardinality(L \cup R \cup {f}) = Cardinality(L) + Cardinality(R) + 1
<1>1. IsFiniteSet(L) /\ IsFiniteSet(R)
  BY SubNodes DEF Over
<1>2. f \notin L /\ f \notin R /\ L \cap R = {}
  BY OverApart
<1>3. Cardinality(L) \in Nat /\ Cardinality(R) \in Nat
  BY <1>1, FS_CardinalityType
<1>4. IsFiniteSet(L \cup R) /\ Cardinality(L \cup R) = Cardinality(L) + Cardinality(R)
  <2>1. Cardinality(L \cup R) = Cardinality(L) + Cardinality(R) - Cardinality(L \cap R)
    BY <1>1, FS_Union
  <2>2. Cardinality(L \cap R) = 0
    BY <1>2, FS_EmptySet
  <2>3. IsFiniteSet(L \cup R)
    BY <1>1, FS_Union
  <2> QED
    BY <1>3, <2>1, <2>2, <2>3
<1>5. Cardinality((L \cup R) \cup {f}) = Cardinality(L \cup R) + 1
  BY <1>2, <1>4, FS_AddElement
<1> QED
  BY <1>3, <1>4, <1>5

NodesInv == Heap(node) /\ IsFiniteSet(Nodes)

LEMMA SizeIs ==
  ASSUME NodesInv
  PROVE  /\ Size \in Nat /\ Nodes = DOMAIN node
         /\ NULL \in Places /\ (\A f \in Nodes : f \in Places /\ f # NULL)
<1>1. Size \in Nat
  BY FS_CardinalityType DEF Size, NodesInv
<1>2. \A f \in Nodes : f # NULL
  BY NodesAre DEF NodesInv, Nodes
<1> QED
  BY <1>1, <1>2 DEF Places, Nodes

(* func_get() on a tree that has the name, and on one of a program that never  *)
(* asked for it.                                                             *)
Finds(name, f, T, b, g) ==
    /\ name \in T => g = [nodes |-> node, top |-> f, out |-> name, inserted |-> FALSE]
    /\ name \notin Nodes =>
           \E m, t : /\ g = [nodes |-> m, top |-> t, out |-> name, inserted |-> TRUE]
                     /\ Inserted(node, f, T, b, name, m, t)

LEMMA StepFinds ==
  ASSUME NodesInv, NEW name \in Names, NEW p,
         NEW f, NEW L, NEW R, NEW x, Over(node, f, L, R, x), Proper(node, f),
         Finds(name, Left(node, f), L, x, p[Left(node, f)]),
         Finds(name, Right(node, f), R, x, p[Right(node, f)])
  PROVE  Finds(name, f, L \cup R \cup {f}, x + node[f].color, GetStep(name, p, f))
<1> DEFINE T == L \cup R \cup {f}
           b == x + node[f].color
           cmp == CmpFuncNames(name, f)
<1>1. Heap(node) /\ Nodes = DOMAIN node
  BY DEF NodesInv, Nodes
<1>2. /\ f \in DOMAIN node /\ f \in Names
      /\ L \subseteq DOMAIN node /\ R \subseteq DOMAIN node
      /\ \A y \in L : Lt(y, f)
      /\ \A y \in R : Lt(f, y)
  BY <1>1, OverApart DEF Over, Ordered
<1>3. cmp \in Int /\ (cmp = 0 <=> name = f) /\ (cmp < 0 <=> Lt(name, f)) /\ (cmp > 0 <=> Lt(f, name))
  BY <1>2, CmpIs
<1>4. CASE cmp = 0
  <2>1. name = f /\ name \in Nodes
    BY <1>1, <1>2, <1>3, <1>4
  <2>2. GetStep(name, p, f) = [nodes |-> node, top |-> f, out |-> f, inserted |-> FALSE]
    BY <1>4 DEF GetStep
  <2> QED
    BY <2>1, <2>2 DEF Finds
<1>5. CASE cmp # 0
  <2> DEFINE d == IF cmp > 0 THEN 1 ELSE 0
             c == node[f].child[d]
             S == IF d = 0 THEN L ELSE R
             g == p[c]
  <2>1. d \in Dirs /\ (d = 0 => Lt(name, f)) /\ (d = 1 => Lt(f, name))
    <3> HIDE DEF cmp
    <3> QED
      BY <1>3, <1>5 DEF Dirs
  <2>2. Finds(name, c, S, x, g)
    BY <2>1 DEF Left, Right, Dirs
  <2>3. name \in T => name \in S
    <3>1. name # f
      BY <1>3, <1>5
    <3>2. Lt(name, f) => ~ Lt(f, name)
      BY <1>2, NotLess
    <3> QED
      BY <1>2, <2>1, <3>1, <3>2 DEF Dirs
  <2>4. GetStep(name, p, f) =
            LET h == TreeBalance([g.nodes EXCEPT ![f].child[d] = g.top], f)
            IN  IF g.inserted THEN [g EXCEPT !.nodes = h.nodes, !.top = h.top]
                ELSE [g EXCEPT !.top = f]
    BY <1>5 DEF GetStep
  <2>5. ASSUME name \in T
        PROVE  GetStep(name, p, f) = [nodes |-> node, top |-> f, out |-> name, inserted |-> FALSE]
    <3>1. g = [nodes |-> node, top |-> c, out |-> name, inserted |-> FALSE]
      BY <2>2, <2>3, <2>5 DEF Finds
    <3> HIDE DEF g, c, d
    <3>2. ~ g.inserted
      BY <3>1
    <3>3. GetStep(name, p, f) = [g EXCEPT !.top = f]
      BY <2>4, <3>2
    <3> QED
      BY <3>1, <3>3
  <2>6. ASSUME name \notin Nodes
        PROVE  \E m, t : /\ GetStep(name, p, f) =
                              [nodes |-> m, top |-> t, out |-> name, inserted |-> TRUE]
                         /\ Inserted(node, f, T, b, name, m, t)
    <3>1. PICK m, t : /\ g = [nodes |-> m, top |-> t, out |-> name, inserted |-> TRUE]
                      /\ Inserted(node, c, S, x, name, m, t)
      BY <2>2, <2>6 DEF Finds
    <3> DEFINE h == TreeBalance([m EXCEPT ![f].child[d] = t], f)
    <3>2. Inserted(node, f, T, b, name, h.nodes, h.top)
      <4>1. name \notin DOMAIN node
        BY <1>1, <2>6
      <4>2. Inserted(node, node[f].child[d], IF d = 0 THEN L ELSE R, x, name, m, t)
        BY <3>1
      <4> HIDE DEF d
      <4> QED
        BY <1>1, <2>1, <4>1, <4>2, Grows
    <3>3. GetStep(name, p, f) = [nodes |-> h.nodes, top |-> h.top, out |-> name, inserted |-> TRUE]
      <4> HIDE DEF g, c, d
      <4>1. g.inserted /\ g.nodes = m /\ g.top = t
        BY <3>1
      <4>2. GetStep(name, p, f) = [g EXCEPT !.nodes = h.nodes, !.top = h.top]
        BY <2>4, <4>1
      <4> HIDE DEF h
      <4> QED
        BY <3>1, <4>2
    <3> HIDE DEF h, T, b
    <3> QED
      BY <3>2, <3>3
  <2> QED
    BY <2>5, <2>6 DEF Finds
<1> HIDE DEF cmp
<1> QED
  BY <1>4, <1>5

LEMMA GetFinds ==
  ASSUME NodesInv, NEW name \in Names,
         NEW w, \A k \in 0 .. Size : w[k] = GetAt(name, w, k),
         NEW f, NEW T, NEW b, Sub(node, f, T, b),
         NEW k \in 0 .. Size, Cardinality(T) <= k
  PROVE  Finds(name, f, T, b, w[k][f])
<1> DEFINE Holds(g, S, c) ==
             \A i \in 0 .. Size : Cardinality(S) <= i => Finds(name, g, S, c, w[i][g])
           X == { t \in Trees : Holds(t.top, t.names, t.blacks) }
<1>1. ASSUME NEW g, NEW S, NEW c, Tree(g, S, c) \in Trees
      PROVE  Tree(g, S, c) \in X <=> Holds(g, S, c)
  <2>1. LET t == Tree(g, S, c) IN t.top = g /\ t.names = S /\ t.blacks = c
    BY DEF Tree
  <2> HIDE DEF Holds
  <2> QED
    BY <1>1, <2>1
<1>2. \A t \in X : t \in Trees
  OBVIOUS
<1> HIDE DEF X
<1>3. Heap(node) /\ Size \in Nat /\ Nodes = DOMAIN node /\ NULL \in Places
      /\ \A g \in Nodes : g \in Places /\ g # NULL
  BY SizeIs DEF NodesInv
<1>4. Tree(NULL, {}, 0) \in X
  <2>1. Tree(NULL, {}, 0) \in Trees
    BY SubNone DEF Sub
  <2>2. ASSUME NEW i \in 0 .. Size PROVE Finds(name, NULL, {}, 0, w[i][NULL])
    <3>1. w[i][NULL] = [nodes |-> Allocated(name), top |-> name, out |-> name, inserted |-> TRUE]
      BY <1>3 DEF GetAt, GetNew
    <3>2. name \notin Nodes => Inserted(node, NULL, {}, 0, name, Allocated(name), name)
      <4>1. Allocated(name) = [y \in DOMAIN node \cup {name} |-> IF y = name THEN NewNode ELSE node[y]]
        BY <1>3 DEF Allocated
      <4> QED
        BY <1>3, <4>1, NewIsInserted
    <3> QED
      BY <3>1, <3>2 DEF Finds
  <2> QED
    BY <1>1, <2>1, <2>2
<1>5. ASSUME NEW g \in DOMAIN node, NEW L \in SUBSET Names, NEW R \in SUBSET Names, NEW x \in Nat,
             Over(node, g, L, R, x), Proper(node, g),
             Tree(Left(node, g), L, x) \in X, Tree(Right(node, g), R, x) \in X
      PROVE  Tree(g, L \cup R \cup {g}, x + node[g].color) \in X
  <2>1. Tree(g, L \cup R \cup {g}, x + node[g].color) \in Trees
    BY <1>3, <1>5, SubMade DEF Sub
  <2>2. Holds(Left(node, g), L, x) /\ Holds(Right(node, g), R, x)
    <3> HIDE DEF Holds
    <3> QED
      BY <1>1, <1>2, <1>5
  <2>3. /\ Cardinality(L) \in Nat /\ Cardinality(R) \in Nat
        /\ Cardinality(L \cup R \cup {g}) = Cardinality(L) + Cardinality(R) + 1
    BY <1>3, <1>5, OverCounts
  <2>4. ASSUME NEW i \in 0 .. Size, Cardinality(L \cup R \cup {g}) <= i
        PROVE  Finds(name, g, L \cup R \cup {g}, x + node[g].color, w[i][g])
    <3>1. i # 0 /\ i - 1 \in 0 .. Size /\ Cardinality(L) <= i - 1 /\ Cardinality(R) <= i - 1
      BY <1>3, <2>3, <2>4
    <3>2. w[i][g] = GetStep(name, w[i - 1], g)
      BY <1>3, <1>5, <3>1 DEF GetAt
    <3>3. /\ Finds(name, Left(node, g), L, x, w[i - 1][Left(node, g)])
          /\ Finds(name, Right(node, g), R, x, w[i - 1][Right(node, g)])
      BY <2>2, <3>1
    <3>4. Finds(name, g, L \cup R \cup {g}, x + node[g].color, GetStep(name, w[i - 1], g))
      BY <1>5, <3>3, StepFinds
    <3> QED
      BY <3>2, <3>4
  <2> QED
    BY <1>1, <2>1, <2>4
<1>6. Tree(f, T, b) \in X
  <2> HIDE DEF Holds
  <2> QED
    BY <1>3, <1>4, <1>5, SubInduction
<1>7. Holds(f, T, b)
  <2> HIDE DEF Holds
  <2> QED
    BY <1>1, <1>2, <1>6
<1> QED
  BY <1>7

(* A walk lists the names of a tree in their order, each one once.            *)
Walked(T, s) ==
    /\ s \in Seq(Names) /\ Len(s) = Cardinality(T)
    /\ \A i \in 1 .. Len(s) : s[i] \in T
    /\ \A y \in T : \E i \in 1 .. Len(s) : s[i] = y
    /\ \A i, j \in 1 .. Len(s) : i < j => Lt(s[i], s[j])

LEMMA StepWalks ==
  ASSUME NEW n, Heap(n), NEW f, NEW L, NEW R, NEW x, Over(n, f, L, R, x),
         NEW u, NEW v, Walked(L, u), Walked(R, v)
  PROVE  Walked(L \cup R \cup {f}, u \o <<f>> \o v)
<1> DEFINE T == L \cup R \cup {f}
           w == u \o <<f>>
           s == w \o v
           k == Len(u)
           l == Len(v)
<1>1. /\ f \in Names
      /\ L \in SUBSET Names /\ R \in SUBSET Names
      /\ \A y \in L : Lt(y, f)
      /\ \A y \in R : Lt(f, y)
  BY OverApart DEF Over, Ordered
<1>2. u \in Seq(Names) /\ v \in Seq(Names) /\ <<f>> \in Seq(Names) /\ k \in Nat /\ l \in Nat
      /\ Len(<<f>>) = 1 /\ <<f>>[1] = f
  BY <1>1 DEF Walked
<1>3. /\ w \in Seq(Names) /\ Len(w) = k + 1
      /\ \A i \in 1 .. k + 1 : w[i] = IF i <= k THEN u[i] ELSE <<f>>[i - k]
  BY <1>2, ConcatProperties
<1>4. \A i \in 1 .. k + 1 : w[i] = IF i <= k THEN u[i] ELSE f
  <2>1. \A i \in 1 .. k + 1 : ~ (i <= k) => i - k = 1
    BY <1>2
  <2> HIDE DEF w, k
  <2> QED
    BY <1>2, <1>3, <2>1
<1> HIDE DEF w
<1>5. /\ s \in Seq(Names) /\ Len(s) = k + 1 + l
      /\ \A i \in 1 .. k + 1 + l : s[i] = IF i <= k + 1 THEN w[i] ELSE v[i - (k + 1)]
  <2>1. /\ s \in Seq(Names) /\ Len(s) = Len(w) + Len(v)
        /\ \A i \in 1 .. Len(w) + Len(v) : s[i] = IF i <= Len(w) THEN w[i] ELSE v[i - Len(w)]
    <3>1. w \in Seq(Names) /\ v \in Seq(Names)
      BY <1>2, <1>3
    <3> QED
      BY <3>1, ConcatProperties
  <2> HIDE DEF s, k
  <2> QED
    BY <1>3, <2>1
<1> DEFINE N == k + 1 + l
<1> HIDE DEF s, k, l
<1>6. \A i \in 1 .. N :
         \/ i \in 1 .. k /\ s[i] = u[i]
         \/ i = k + 1 /\ s[i] = f
         \/ i > k + 1 /\ i - (k + 1) \in 1 .. l /\ s[i] = v[i - (k + 1)]
  <2> TAKE i \in 1 .. N
  <2>1. CASE i <= k
    <3>1. i \in 1 .. k + 1 /\ i <= k + 1 /\ i \in 1 .. k
      BY <1>2, <2>1
    <3> QED
      BY <2>1, <3>1, <1>4, <1>5
  <2>2. CASE i = k + 1
    <3>1. i \in 1 .. k + 1 /\ i <= k + 1 /\ ~ (i <= k)
      BY <1>2, <2>2
    <3> QED
      BY <2>2, <3>1, <1>4, <1>5
  <2>3. CASE i > k + 1
    <3>1. ~ (i <= k + 1) /\ i - (k + 1) \in 1 .. l
      BY <1>2, <2>3
    <3> QED
      BY <2>3, <3>1, <1>5
  <2> QED
    BY <1>2, <2>1, <2>2, <2>3
<1>7. /\ \A i \in 1 .. k : i \in 1 .. N /\ s[i] = u[i]
      /\ k + 1 \in 1 .. N /\ s[k + 1] = f
      /\ \A i \in 1 .. l : k + 1 + i \in 1 .. N /\ s[k + 1 + i] = v[i]
  <2>1. ASSUME NEW i \in 1 .. k PROVE i \in 1 .. N /\ s[i] = u[i]
    <3>1. i \in 1 .. N /\ i # k + 1 /\ ~ (i > k + 1)
      BY <1>2
    <3> QED
      BY <3>1, <1>6
  <2>2. k + 1 \in 1 .. N /\ s[k + 1] = f
    <3>1. k + 1 \in 1 .. N /\ k + 1 \notin 1 .. k /\ ~ (k + 1 > k + 1)
      BY <1>2
    <3> QED
      BY <3>1, <1>6
  <2>3. ASSUME NEW i \in 1 .. l PROVE k + 1 + i \in 1 .. N /\ s[k + 1 + i] = v[i]
    <3> DEFINE j == k + 1 + i
    <3>1. j \in 1 .. N /\ j \notin 1 .. k /\ j # k + 1 /\ j - (k + 1) = i
      BY <1>2
    <3> HIDE DEF j, N
    <3>2. j \in 1 .. N /\ s[j] = v[i]
      BY <3>1, <1>6
    <3> QED
      BY <3>2 DEF j
  <2> QED
    BY <2>1, <2>2, <2>3
<1>8. /\ \A i \in 1 .. k : u[i] \in L
      /\ \A y \in L : \E i \in 1 .. k : u[i] = y
      /\ \A i, j \in 1 .. k : i < j => Lt(u[i], u[j])
      /\ k = Cardinality(L)
  BY DEF Walked, k
<1>9. /\ \A i \in 1 .. l : v[i] \in R
      /\ \A y \in R : \E i \in 1 .. l : v[i] = y
      /\ \A i, j \in 1 .. l : i < j => Lt(v[i], v[j])
      /\ l = Cardinality(R)
  BY DEF Walked, l
<1>10. N = Cardinality(T)
  <2>1. Cardinality(T) = Cardinality(L) + Cardinality(R) + 1
    BY OverCounts
  <2> QED
    BY <1>2, <1>8, <1>9, <2>1
<1>11. \A i \in 1 .. N : s[i] \in T
  BY <1>6, <1>8, <1>9
<1>12. \A y \in T : \E i \in 1 .. N : s[i] = y
  BY <1>7, <1>8, <1>9
<1>13. ASSUME NEW i \in 1 .. N, NEW j \in 1 .. N, i < j PROVE Lt(s[i], s[j])
  <2>1. CASE i \in 1 .. k /\ j \in 1 .. k
    BY <1>7, <1>8, <1>13, <2>1
  <2>2. CASE i \in 1 .. k /\ j = k + 1
    BY <1>1, <1>7, <1>8, <2>2
  <2>3. CASE i \in 1 .. k /\ j > k + 1
    <3>1. s[i] \in L /\ s[i] \in Names
      BY <1>1, <1>7, <1>8, <2>3
    <3>2. s[j] \in R /\ s[j] \in Names
      BY <1>1, <1>2, <1>6, <1>9, <2>3
    <3> QED
      BY <1>1, <3>1, <3>2, LtTransitive
  <2>4. CASE i = k + 1
    <3>1. j > k + 1
      BY <1>2, <1>13, <2>4
    <3>2. s[j] \in R
      <4>1. j \notin 1 .. k /\ j # k + 1
        BY <1>2, <3>1
      <4> HIDE DEF N
      <4> QED
        BY <1>6, <1>9, <4>1
    <3> QED
      BY <1>1, <1>7, <2>4, <3>2
  <2>5. CASE i > k + 1
    <3> DEFINE a == i - (k + 1)
               c == j - (k + 1)
    <3>1. j > k + 1 /\ i \notin 1 .. k /\ j \notin 1 .. k /\ i # k + 1 /\ j # k + 1
      BY <1>2, <1>13, <2>5
    <3>2. a \in 1 .. l /\ c \in 1 .. l /\ s[i] = v[a] /\ s[j] = v[c]
      BY <1>6, <3>1
    <3>3. a < c
      BY <1>2, <1>13
    <3> HIDE DEF a, c
    <3> QED
      BY <1>9, <3>2, <3>3
  <2>6. i \in 1 .. k \/ i = k + 1 \/ i > k + 1
    BY <1>2
  <2>7. j \in 1 .. k \/ j = k + 1 \/ j > k + 1
    BY <1>2
  <2> QED
    BY <2>1, <2>2, <2>3, <2>4, <2>5, <2>6, <2>7
<1>14. Len(s) = N
  BY <1>5
<1> HIDE DEF N, T
<1>15. Walked(T, s)
  BY <1>5, <1>10, <1>11, <1>12, <1>13, <1>14 DEF Walked
<1> QED
  BY <1>15 DEF T, s, w

LEMMA WalkIs ==
  ASSUME NodesInv,
         NEW w, \A k \in 0 .. Size : w[k] = WalkAt(w, k),
         NEW f, NEW T, NEW b, Sub(node, f, T, b),
         NEW k \in 0 .. Size, Cardinality(T) <= k
  PROVE  Walked(T, w[k][f])
<1> DEFINE Holds(g, S, c) ==
             \A i \in 0 .. Size : Cardinality(S) <= i => Walked(S, w[i][g])
           X == { t \in Trees : Holds(t.top, t.names, t.blacks) }
<1>1. ASSUME NEW g, NEW S, NEW c, Tree(g, S, c) \in Trees
      PROVE  Tree(g, S, c) \in X <=> Holds(g, S, c)
  <2>1. LET t == Tree(g, S, c) IN t.top = g /\ t.names = S /\ t.blacks = c
    BY DEF Tree
  <2> HIDE DEF Holds
  <2> QED
    BY <1>1, <2>1
<1>2. \A t \in X : t \in Trees
  OBVIOUS
<1> HIDE DEF X
<1>3. Heap(node) /\ Size \in Nat /\ Nodes = DOMAIN node /\ NULL \in Places
      /\ \A g \in Nodes : g \in Places /\ g # NULL
  BY SizeIs DEF NodesInv
<1>4. Tree(NULL, {}, 0) \in X
  <2>1. Tree(NULL, {}, 0) \in Trees
    BY SubNone DEF Sub
  <2>2. ASSUME NEW i \in 0 .. Size PROVE Walked({}, w[i][NULL])
    <3>1. w[i][NULL] = <<>>
      BY <1>3 DEF WalkAt
    <3>2. Cardinality({}) = 0
      BY FS_EmptySet
    <3> QED
      BY <3>1, <3>2 DEF Walked
  <2> QED
    BY <1>1, <2>1, <2>2
<1>5. ASSUME NEW g \in DOMAIN node, NEW L \in SUBSET Names, NEW R \in SUBSET Names, NEW x \in Nat,
             Over(node, g, L, R, x), Proper(node, g),
             Tree(Left(node, g), L, x) \in X, Tree(Right(node, g), R, x) \in X
      PROVE  Tree(g, L \cup R \cup {g}, x + node[g].color) \in X
  <2>1. Tree(g, L \cup R \cup {g}, x + node[g].color) \in Trees
    BY <1>3, <1>5, SubMade DEF Sub
  <2>2. Holds(Left(node, g), L, x) /\ Holds(Right(node, g), R, x)
    <3> HIDE DEF Holds
    <3> QED
      BY <1>1, <1>2, <1>5
  <2>3. /\ Cardinality(L) \in Nat /\ Cardinality(R) \in Nat
        /\ Cardinality(L \cup R \cup {g}) = Cardinality(L) + Cardinality(R) + 1
    BY <1>3, <1>5, OverCounts
  <2>4. ASSUME NEW i \in 0 .. Size, Cardinality(L \cup R \cup {g}) <= i
        PROVE  Walked(L \cup R \cup {g}, w[i][g])
    <3> DEFINE y == w[i - 1][Left(node, g)]
               z == w[i - 1][Right(node, g)]
    <3>1. i # 0 /\ i - 1 \in 0 .. Size /\ Cardinality(L) <= i - 1 /\ Cardinality(R) <= i - 1
      BY <1>3, <2>3, <2>4
    <3>2. w[i][g] = WalkStep(w[i - 1], g)
      BY <1>3, <1>5, <3>1 DEF WalkAt
    <3>3. Walked(L, y) /\ Walked(R, z)
      BY <2>2, <3>1
    <3>4. Walked(L \cup R \cup {g}, y \o <<g>> \o z)
      <4> HIDE DEF y, z
      <4> QED
        BY <1>3, <1>5, <3>3, StepWalks
    <3>5. w[i][g] = y \o <<g>> \o z
      BY <3>2 DEF WalkStep, Left, Right
    <3> QED
      BY <3>4, <3>5
  <2> QED
    BY <1>1, <2>1, <2>4
<1>6. Tree(f, T, b) \in X
  <2> HIDE DEF Holds
  <2> QED
    BY <1>3, <1>4, <1>5, SubInduction
<1>7. Holds(f, T, b)
  <2> HIDE DEF Holds
  <2> QED
    BY <1>1, <1>2, <1>6
<1> QED
  BY <1>7

(* The heights are the numbers of black nodes.                               *)
LEMMA HeightIs ==
  ASSUME NodesInv,
         NEW w, \A k \in 0 .. Size : w[k] = HeightAt(w, k),
         NEW f, NEW T, NEW b, Sub(node, f, T, b),
         NEW k \in 0 .. Size, Cardinality(T) <= k
  PROVE  w[k][f] = b
<1> DEFINE Holds(g, S, c) ==
             \A i \in 0 .. Size : Cardinality(S) <= i => w[i][g] = c
           X == { t \in Trees : Holds(t.top, t.names, t.blacks) }
<1>1. ASSUME NEW g, NEW S, NEW c, Tree(g, S, c) \in Trees
      PROVE  Tree(g, S, c) \in X <=> Holds(g, S, c)
  <2>1. LET t == Tree(g, S, c) IN t.top = g /\ t.names = S /\ t.blacks = c
    BY DEF Tree
  <2> HIDE DEF Holds
  <2> QED
    BY <1>1, <2>1
<1>2. \A t \in X : t \in Trees
  OBVIOUS
<1> HIDE DEF X
<1>3. Heap(node) /\ Size \in Nat /\ Nodes = DOMAIN node /\ NULL \in Places
      /\ \A g \in Nodes : g \in Places /\ g # NULL
  BY SizeIs DEF NodesInv
<1>4. Tree(NULL, {}, 0) \in X
  <2>1. Tree(NULL, {}, 0) \in Trees
    BY SubNone DEF Sub
  <2>2. ASSUME NEW i \in 0 .. Size PROVE w[i][NULL] = 0
    BY <1>3 DEF HeightAt
  <2> QED
    BY <1>1, <2>1, <2>2
<1>5. ASSUME NEW g \in DOMAIN node, NEW L \in SUBSET Names, NEW R \in SUBSET Names, NEW x \in Nat,
             Over(node, g, L, R, x), Proper(node, g),
             Tree(Left(node, g), L, x) \in X, Tree(Right(node, g), R, x) \in X
      PROVE  Tree(g, L \cup R \cup {g}, x + node[g].color) \in X
  <2>1. Tree(g, L \cup R \cup {g}, x + node[g].color) \in Trees
    BY <1>3, <1>5, SubMade DEF Sub
  <2>2. Holds(Left(node, g), L, x) /\ Holds(Right(node, g), R, x)
    <3> HIDE DEF Holds
    <3> QED
      BY <1>1, <1>2, <1>5
  <2>3. /\ Cardinality(L) \in Nat /\ Cardinality(R) \in Nat
        /\ Cardinality(L \cup R \cup {g}) = Cardinality(L) + Cardinality(R) + 1
    BY <1>3, <1>5, OverCounts
  <2>4. ASSUME NEW i \in 0 .. Size, Cardinality(L \cup R \cup {g}) <= i
        PROVE  w[i][g] = x + node[g].color
    <3> DEFINE y == w[i - 1][Left(node, g)]
               z == w[i - 1][Right(node, g)]
    <3>1. i # 0 /\ i - 1 \in 0 .. Size /\ Cardinality(L) <= i - 1 /\ Cardinality(R) <= i - 1
      BY <1>3, <2>3, <2>4
    <3>2. w[i][g] = HeightStep(w[i - 1], g)
      BY <1>3, <1>5, <3>1 DEF HeightAt
    <3>3. y = x /\ z = x
      BY <2>2, <3>1
    <3>4. node[g].color \in {0, 1}
      BY <1>3, <1>5, NodesAre
    <3>5. HeightStep(w[i - 1], g) = x + node[g].color
      <4>1. y = x /\ z = x /\ x # -1
        BY <3>3
      <4>2. HeightStep(w[i - 1], g) =
                IF y # z \/ y = -1 THEN -1 ELSE y + IF node[g].color = 1 THEN 1 ELSE 0
        BY DEF HeightStep, Left, Right, Black
      <4> HIDE DEF y, z
      <4> QED
        BY <3>4, <4>1, <4>2
    <3> QED
      BY <3>2, <3>5
  <2> QED
    BY <1>1, <2>1, <2>4
<1>6. Tree(f, T, b) \in X
  <2> HIDE DEF Holds
  <2> QED
    BY <1>3, <1>4, <1>5, SubInduction
<1>7. Holds(f, T, b)
  <2> HIDE DEF Holds
  <2> QED
    BY <1>1, <1>2, <1>6
<1> QED
  BY <1>7

(* Every node of a tree is as it should be.                                   *)
LEMMA AllProper ==
  ASSUME NEW n, Heap(n), NEW f, NEW T, NEW b, Sub(n, f, T, b)
  PROVE  \A y \in T : Proper(n, y)
<1> DEFINE X == { t \in Trees : \A y \in t.names : Proper(n, y) }
<1>1. ASSUME NEW g, NEW S, NEW c, Tree(g, S, c) \in Trees
      PROVE  Tree(g, S, c) \in X <=> \A y \in S : Proper(n, y)
  <2>1. LET t == Tree(g, S, c) IN t.names = S
    BY DEF Tree
  <2> QED
    BY <1>1, <2>1
<1>2. \A t \in X : t \in Trees
  OBVIOUS
<1> HIDE DEF X
<1>3. Tree(NULL, {}, 0) \in X
  <2>1. Tree(NULL, {}, 0) \in Trees
    BY SubNone DEF Sub
  <2> QED
    BY <1>1, <2>1
<1>4. ASSUME NEW g \in DOMAIN n, NEW L \in SUBSET Names, NEW R \in SUBSET Names, NEW x \in Nat,
             Over(n, g, L, R, x), Proper(n, g),
             Tree(Left(n, g), L, x) \in X, Tree(Right(n, g), R, x) \in X
      PROVE  Tree(g, L \cup R \cup {g}, x + n[g].color) \in X
  <2>1. Tree(g, L \cup R \cup {g}, x + n[g].color) \in Trees
    BY <1>4, SubMade DEF Sub
  <2>2. (\A y \in L : Proper(n, y)) /\ (\A y \in R : Proper(n, y))
    BY <1>1, <1>2, <1>4
  <2> QED
    BY <1>1, <1>4, <2>1, <2>2
<1>5. Tree(f, T, b) \in X
  BY <1>3, <1>4, SubInduction
<1> QED
  BY <1>1, <1>2, <1>5

-----------------------------------------------------------------------------
(* The invariant: all nodes are in one tree, and its top is black.            *)
TreeInv ==
    /\ pool \in SUBSET Names
    /\ NodesInv
    /\ \E b \in Nat : Sub(node, root, Nodes, b)
    /\ ~ IsRed(node, root)

LEMMA InitTree == Init => TreeInv
<1> SUFFICES ASSUME Init PROVE TreeInv
  OBVIOUS
<1>1. pool \in SUBSET Names
  BY PoolsAssumption DEF Init
<1>2. node = <<>> /\ root = NULL
  BY DEF Init
<1>3. DOMAIN node = {} /\ Nodes = {}
  BY <1>2 DEF Nodes
<1>4. node = [y \in {} |-> NULL]
  BY <1>2
<1>5. Heap(node)
  BY <1>3, <1>4 DEF Heap
<1>6. NodesInv
  BY <1>3, <1>5, FS_EmptySet DEF NodesInv
<1>7. Sub(node, root, Nodes, 0)
  BY <1>2, <1>3, SubNone
<1>8. ~ IsRed(node, root)
  BY <1>2 DEF IsRed
<1> QED
  BY <1>1, <1>6, <1>7, <1>8 DEF TreeInv

LEMMA GetResult ==
  ASSUME TreeInv, NEW name \in pool, NEW b, Sub(node, root, Nodes, b)
  PROVE  Finds(name, root, Nodes, b, Get(name))
<1> DEFINE w == CHOOSE g : g = [k \in 0 .. Size |-> GetAt(name, g, k)]
<1>1. Size \in Nat /\ name \in Names /\ NodesInv
  BY SizeIs DEF TreeInv
<1>2. \A k \in 0 .. Size : w[k] = GetAt(name, w, k)
  BY <1>1, GetRecursion
<1>3. Get(name) = w[Size][root]
  BY GetIs
<1> HIDE DEF w
<1>4. Size \in 0 .. Size /\ Cardinality(Nodes) <= Size
  BY <1>1 DEF Size
<1>5. Finds(name, root, Nodes, b, w[Size][root])
  BY <1>1, <1>2, <1>4, GetFinds
<1> QED
  BY <1>3, <1>5

(* A lookup returns the node of the name, and adds no other.                  *)
LEMMA LookupTree ==
  ASSUME TreeInv, NEW name \in pool, FuncGet(name)
  PROVE  TreeInv' /\ Nodes' = Nodes \cup {name} /\ asked' = name /\ out' = name
<1> DEFINE g == Get(name)
<1>1. /\ root' = g.top /\ out' = g.out /\ pool' = pool /\ asked' = name
      /\ node' = IF g.inserted THEN [g.nodes EXCEPT ![g.top].color = Black] ELSE node
  BY DEF FuncGet, Found
<1>2. /\ pool \in SUBSET Names /\ name \in Names /\ NodesInv /\ Heap(node) /\ Nodes = DOMAIN node
      /\ ~ IsRed(node, root) /\ IsFiniteSet(Nodes)
  BY DEF TreeInv, NodesInv, Nodes
<1>3. PICK b \in Nat : Sub(node, root, Nodes, b)
  BY DEF TreeInv
<1>4. Finds(name, root, Nodes, b, g)
  BY <1>3, GetResult
<1> HIDE DEF g
<1>5. Nodes' = DOMAIN node'
  BY DEF Nodes
<1>6. CASE name \in Nodes
  <2>1. g = [nodes |-> node, top |-> root, out |-> name, inserted |-> FALSE]
    BY <1>4, <1>6 DEF Finds
  <2>2. node' = node /\ root' = root /\ out' = name
    BY <1>1, <2>1
  <2>3. Nodes' = Nodes
    BY <1>2, <1>5, <2>2
  <2>4. TreeInv'
    BY <1>1, <1>2, <1>3, <2>2, <2>3 DEF TreeInv, NodesInv
  <2> QED
    BY <1>1, <1>6, <2>2, <2>3, <2>4
<1>7. CASE name \notin Nodes
  <2>1. PICK m, t : /\ g = [nodes |-> m, top |-> t, out |-> name, inserted |-> TRUE]
                    /\ Inserted(node, root, Nodes, b, name, m, t)
    BY <1>4, <1>7 DEF Finds
  <2> DEFINE T == Nodes \cup {name}
             h == [m EXCEPT ![t].color = Black]
             q == [m[t] EXCEPT !.color = 1]
  <2>2. node' = h /\ root' = t /\ out' = name
    BY <1>1, <2>1
  <2>3. Heap(m) /\ DOMAIN m = T /\ t \in T /\ Sub(m, t, T, b)
    BY <1>2, <2>1 DEF Inserted
  <2>4. m[t] \in NodeType
    BY <2>3, NodesAre
  <2>5. q \in NodeType /\ q.color = 1 /\ q.child = m[t].child
    <3>1. 1 \in {0, 1}
      OBVIOUS
    <3> QED
      BY <2>4, <3>1, Painted
  <2>6. DOMAIN h = T /\ h[t] = q /\ \A y \in T : y # t => h[y] = m[y]
    BY <2>3 DEF Black
  <2>7. Heap(h)
    <3>1. DOMAIN m \in SUBSET Names /\ \A y \in DOMAIN m : m[y] \in NodeType
      BY <2>3 DEF Heap
    <3>2. h = [y \in DOMAIN h |-> h[y]]
      OBVIOUS
    <3> HIDE DEF h, q
    <3>3. \A y \in T : h[y] \in NodeType
      BY <2>3, <2>5, <2>6, <3>1
    <3> QED
      BY <2>3, <2>6, <3>1, <3>2, <3>3 DEF Heap
  <2> HIDE DEF h, q
  <2>8. \E c \in Nat : Sub(h, t, T, c)
    <3>1. CASE IsRed(m, t)
      <4>1. SameOn(m, h, T \ {t}) /\ h[t].child = m[t].child /\ h[t].color = Black
        BY <2>3, <2>5, <2>6 DEF SameOn, Black
      <4>2. Grown(m, t, T, b) /\ t \in DOMAIN h
        BY <2>3, <2>6 DEF Grown
      <4> HIDE DEF T
      <4>3. Sub(h, t, T, b + 1)
        BY <2>3, <2>7, <3>1, <4>1, <4>2, Blackened
      <4>4. b + 1 \in Nat
        BY <1>3
      <4> QED
        BY <4>3, <4>4
    <3>2. CASE ~ IsRed(m, t)
      <4>1. m[t].color = 1
        BY <2>3, <3>2, NodesAre
      <4>2. q = m[t]
        BY <2>4, <4>1 DEF q, NodeType
      <4>3. SameOn(m, h, T)
        BY <2>3, <2>6, <4>2 DEF SameOn
      <4> HIDE DEF T
      <4>4. Sub(h, t, T, b)
        BY <2>3, <2>7, <4>3, SubFrame
      <4> QED
        BY <1>3, <4>4
    <3> QED
      BY <3>1, <3>2
  <2>9. ~ IsRed(h, t)
    BY <2>5, <2>6 DEF IsRed, Red
  <2>10. Nodes' = T
    BY <1>5, <2>2, <2>6
  <2>11. IsFiniteSet(T)
    BY <1>2, FS_AddElement
  <2> HIDE DEF T
  <2>12. NodesInv'
    BY <2>2, <2>7, <2>10, <2>11 DEF NodesInv
  <2>13. TreeInv'
    BY <1>1, <1>2, <2>2, <2>8, <2>9, <2>10, <2>12 DEF TreeInv
  <2> QED
    BY <1>1, <2>2, <2>10, <2>13 DEF T
<1> QED
  BY <1>6, <1>7

LEMMA UninitTree ==
  ASSUME TreeInv, TreeUninit
  PROVE  TreeInv' /\ Nodes' = {} /\ asked' = NULL /\ out' = NULL
<1>1. pool' \in SUBSET Names /\ node' = <<>> /\ root' = NULL /\ asked' = NULL /\ out' = NULL
  BY DEF TreeInv, TreeUninit
<1>2. DOMAIN node' = {} /\ Nodes' = {}
  BY <1>1 DEF Nodes
<1>3. node' = [y \in {} |-> NULL]
  BY <1>1
<1>4. Heap(node')
  BY <1>2, <1>3 DEF Heap
<1>5. NodesInv'
  BY <1>2, <1>4, FS_EmptySet DEF NodesInv
<1>6. Sub(node', root', Nodes', 0)
  BY <1>1, <1>2, SubNone
<1>7. ~ IsRed(node', root')
  BY <1>1 DEF IsRed
<1> QED
  BY <1>1, <1>2, <1>5, <1>6, <1>7 DEF TreeInv

LEMMA TreeStays == TreeInv /\ [Next]_vars => TreeInv'
<1> SUFFICES ASSUME TreeInv, [Next]_vars PROVE TreeInv'
  OBVIOUS
<1>1. CASE \E name \in pool : FuncGet(name)
  BY <1>1, LookupTree
<1>2. CASE TreeUninit
  BY <1>2, UninitTree
<1>3. CASE UNCHANGED vars
  BY <1>3 DEF vars, TreeInv, NodesInv, Nodes
<1> QED
  BY <1>1, <1>2, <1>3 DEF Next

(* The list of all nodes is what the tree is meant to keep.                   *)
LEMMA ListIs ==
  ASSUME TreeInv
  PROVE  Walked(Nodes, InOrder)
<1> DEFINE w == CHOOSE g : g = [k \in 0 .. Size |-> WalkAt(g, k)]
<1>1. Size \in Nat /\ NodesInv
  BY SizeIs DEF TreeInv
<1>2. \A k \in 0 .. Size : w[k] = WalkAt(w, k)
  BY <1>1, WalkRecursion
<1>3. InOrder = w[Size][root]
  BY InOrderIs
<1>4. PICK b \in Nat : Sub(node, root, Nodes, b)
  BY DEF TreeInv
<1> HIDE DEF w
<1>5. Size \in 0 .. Size /\ Cardinality(Nodes) <= Size
  BY <1>1 DEF Size
<1>6. Walked(Nodes, w[Size][root])
  BY <1>1, <1>2, <1>4, <1>5, WalkIs
<1> QED
  BY <1>3, <1>6

LEMMA HeightIsKnown ==
  ASSUME TreeInv
  PROVE  BlackHeight \in Nat
<1> DEFINE w == CHOOSE g : g = [k \in 0 .. Size |-> HeightAt(g, k)]
<1>1. Size \in Nat /\ NodesInv
  BY SizeIs DEF TreeInv
<1>2. \A k \in 0 .. Size : w[k] = HeightAt(w, k)
  BY <1>1, HeightRecursion
<1>3. BlackHeight = w[Size][root]
  BY BlackHeightIs
<1>4. PICK b \in Nat : Sub(node, root, Nodes, b)
  BY DEF TreeInv
<1> HIDE DEF w
<1>5. Size \in 0 .. Size /\ Cardinality(Nodes) <= Size
  BY <1>1 DEF Size
<1>6. w[Size][root] = b
  BY <1>1, <1>2, <1>4, <1>5, HeightIs
<1> QED
  BY <1>3, <1>4, <1>6

LEMMA TreeIsSearchTree ==
  ASSUME TreeInv
  PROVE  SearchTree
<1>1. Sorted
  <2> DEFINE s == InOrder
  <2>1. Walked(Nodes, s)
    BY ListIs
  <2> HIDE DEF s
  <2>2. s \in Seq(Names) /\ Len(s) = Cardinality(Nodes) /\ Len(s) \in Nat
    BY <2>1 DEF Walked
  <2>3. ASSUME NEW i \in 1 .. Len(s) - 1 PROVE NaturalLess(s[i], s[i + 1])
    <3>1. i \in 1 .. Len(s) /\ i + 1 \in 1 .. Len(s) /\ i < i + 1
      BY <2>2
    <3>2. Lt(s[i], s[i + 1])
      BY <2>1, <3>1 DEF Walked
    <3>3. s[i] \in Names /\ s[i + 1] \in Names
      BY <2>2, <3>1
    <3> QED
      BY <3>2, <3>3, LtIsNatural
  <2>4. Len(s) = Size
    BY <2>2 DEF Size
  <2> QED
    BY <2>3, <2>4 DEF Sorted, s
<1>2. Balanced
  <2>1. BlackHeight # -1
    BY HeightIsKnown
  <2>2. \A f \in Nodes : Proper(node, f)
    BY AllProper DEF TreeInv, NodesInv
  <2>3. ASSUME NEW f \in Nodes, NEW d \in Dirs
        PROVE  ~ (node[f].color = Red /\ IsRed(node, node[f].child[d]))
    <3>1. f # NULL
      BY SizeIs DEF TreeInv
    <3> QED
      BY <2>2, <3>1 DEF Proper, IsRed, Left, Right, Dirs
  <2>4. root # NULL => node[root].color = Black
    <3>1. root # NULL => root \in Nodes
      BY SubNodes DEF TreeInv, NodesInv
    <3> QED
      BY <3>1, NodesAre DEF TreeInv, NodesInv, Nodes, Black
  <2> QED
    BY <2>1, <2>3, <2>4 DEF Balanced
<1> QED
  BY <1>1, <1>2 DEF SearchTree

LEMMA TreeSteps == Spec => []TreeInv
<1>1. Init => TreeInv
  BY InitTree
<1>2. TreeInv /\ [Next]_vars => TreeInv'
  BY TreeStays
<1> QED
  BY <1>1, <1>2, PTL DEF Spec

(* Whatever names a program asks for, in whatever order and however often,    *)
(* the walk over the tree of functions meets each exactly once and in natural *)
(* order, and the tree is a red-black tree: no two red nodes in a row and as   *)
(* many black ones on every path (function.c:68-148).                        *)
THEOREM TreeKeepsOrder == Spec => []SearchTree
<1>1. TreeInv => SearchTree
  BY TreeIsSearchTree
<1> QED
  BY <1>1, TreeSteps, PTL

Known == ToSet(InOrder)
KnownInv == TreeInv /\ Known = Nodes

(* A lookup returns the node of the very name it was given (`asked`), one that *)
(* is known is found again and none is lost, until all are freed             *)
(* (function.c:115-148).                                                     *)
THEOREM TreeIsRegistry == Spec => ImplementsFuncSet
<1>1. TreeInv => KnownInv
  <2> SUFFICES ASSUME TreeInv PROVE Known = Nodes
    BY DEF KnownInv
  <2> DEFINE s == InOrder
  <2>1. Walked(Nodes, s)
    BY ListIs
  <2> HIDE DEF s
  <2>2. DOMAIN s = 1 .. Len(s)
    BY <2>1 DEF Walked
  <2>3. \A y : y \in ToSet(s) <=> y \in Nodes
    BY <2>1, <2>2 DEF Walked, ToSet
  <2>4. ToSet(s) = Nodes
    BY <2>3
  <2> QED
    BY <2>4 DEF s, Known
<1>2. Init /\ KnownInv => Registry!Init
  <2> SUFFICES ASSUME Init, KnownInv PROVE Registry!Init
    OBVIOUS
  <2>1. Known = {} /\ asked = <<>> /\ out = <<>>
    BY DEF Init, KnownInv, Nodes, NULL
  <2> QED
    BY <2>1 DEF Registry!Init, Known
<1>3. KnownInv /\ KnownInv' /\ [Next]_vars => [Registry!Next]_<<Known, asked, out>>
  <2> SUFFICES ASSUME KnownInv, KnownInv', [Next]_vars PROVE [Registry!Next]_<<Known, asked, out>>
    OBVIOUS
  <2>1. TreeInv /\ Known = Nodes /\ Known' = Nodes'
    BY DEF KnownInv
  <2>2. CASE \E name \in pool : FuncGet(name)
    <3>1. PICK name \in pool : FuncGet(name)
      BY <2>2
    <3>2. Nodes' = Nodes \cup {name} /\ asked' = name /\ out' = name
      BY <2>1, <3>1, LookupTree
    <3>3. name # <<>>
      BY <2>1 DEF TreeInv, Names
    <3>4. asked' # <<>> /\ out' = asked' /\ Known' = Known \cup {asked'}
      BY <2>1, <3>2, <3>3
    <3>5. Registry!Get
      BY <3>4 DEF Registry!Get, Known
    <3> QED
      BY <3>5 DEF Registry!Next
  <2>3. CASE TreeUninit
    <3>1. Nodes' = {} /\ asked' = <<>> /\ out' = <<>>
      BY <2>1, <2>3, UninitTree DEF NULL
    <3>2. Known' = {}
      BY <2>1, <3>1
    <3>3. Registry!Uninit
      BY <3>1, <3>2 DEF Registry!Uninit, Known
    <3> QED
      BY <3>3 DEF Registry!Next
  <2>4. CASE UNCHANGED vars
    <3>1. Nodes' = Nodes /\ asked' = asked /\ out' = out
      BY <2>4 DEF vars, Nodes
    <3> QED
      BY <2>1, <3>1
  <2> QED
    BY <2>2, <2>3, <2>4 DEF Next
<1> QED
  BY <1>1, <1>2, <1>3, TreeSteps, PTL DEF Spec, ImplementsFuncSet, Registry!Spec, Known
=============================================================================
