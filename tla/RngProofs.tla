----------------------------- MODULE RngProofs ------------------------------
(***************************************************************************)
(* Why a test draws the same numbers whatever was drawn before it: seeding   *)
(* leaves nothing behind but the cached normal variate. And why no byte of   *)
(* the generator's output serves twice, from one seeding to the next.        *)
(***************************************************************************)
EXTENDS RngTwice, FiniteSetTheorems, WellFoundedInduction, TLAPS

(* Two runs have the same generator from the seeding on, and the same cached   *)
(* variate already before it, as no test of either drew one.                 *)
TwiceInv == norm = normB /\ (seeded => gen = genB /\ out = outB)

-----------------------------------------------------------------------------
(* The operators of run B are those of run A: only the variables are others.  *)
LEMMA SameOperators ==
  ASSUME NEW g, NEW n
  PROVE  /\ B!Seeded(n) = Seeded(n) /\ B!SrandOf(g, n) = SrandOf(g, n)
         /\ B!Prng(g, n) = Prng(g, n) /\ B!Draw(g, n) = Draw(g, n)
         /\ B!DrawTwo(g) = DrawTwo(g) /\ B!Min(n) = Min(n)
<1>1. B!Seeded(n) = Seeded(n) /\ B!SrandOf(g, n) = SrandOf(g, n)
  BY DEF Seeded, B!Seeded, SrandOf, B!SrandOf
<1>2. B!Prng(g, n) = Prng(g, n)
  BY DEF Prng, B!Prng
<1>3. B!Draw(g, n) = Draw(g, n)
  BY DEF Draw, B!Draw, Prng, B!Prng
<1>4. B!DrawTwo(g) = DrawTwo(g)
  BY DEF DrawTwo, B!DrawTwo, Draw, B!Draw, Prng, B!Prng
<1>5. B!Min(n) = Min(n)
  BY DEF Min, B!Min
<1> QED
  BY <1>1, <1>2, <1>3, <1>4, <1>5

(* However many pairs Marsaglia's method rejects, both runs reject the same.   *)
LEMMA SameMarsaglia ==
  ASSUME NEW g
  PROVE  B!Marsaglia(g) = Marsaglia(g)
<1> DEFINE try  == CHOOSE f :
              f = [k \in 0 .. MaxTries |-> DrawTwo(IF k = 0 THEN g ELSE f[k - 1].gen)]
           tryB == CHOOSE f :
              f = [k \in 0 .. MaxTries |-> B!DrawTwo(IF k = 0 THEN g ELSE f[k - 1].gen)]
           accepted  == { k \in 0 .. MaxTries : try[k].value[1][2] \notin Rejected }
           acceptedB == { k \in 0 .. MaxTries : tryB[k].value[1][2] \notin Rejected }
           t  == try[Min(accepted)]
           tB == tryB[B!Min(acceptedB)]
<1>1. tryB = try
  BY SameOperators
<1>2. acceptedB = accepted
  BY <1>1
<1>3. B!Min(acceptedB) = Min(accepted)
  BY <1>2, SameOperators
<1>4. Marsaglia(g) = [ gen |-> t.gen, z1 |-> <<"z1", t.value>>, z2 |-> <<"z2", t.value>> ]
  BY DEF Marsaglia
<1>5. B!Marsaglia(g) = [ gen |-> tB.gen, z1 |-> <<"z1", tB.value>>, z2 |-> <<"z2", tB.value>> ]
  BY DEF B!Marsaglia
<1> HIDE DEF try, tryB, accepted, acceptedB
<1> QED
  BY <1>1, <1>3, <1>4, <1>5

-----------------------------------------------------------------------------
(* Before the seeding the same variate is cached in both runs: none.          *)
LEMMA TwiceInitInv == TwiceInit => norm = normB /\ ~ seeded
BY DEF TwiceInit, Init, B!Init, NoValue, B!NoValue

(* A call of both runs, made in the same state, is the same call.            *)
LEMMA BothAlike ==
  ASSUME TwiceInv, seeded, ~ NormalsBefore, Test
  PROVE  TwiceInv'
<1> USE DEF TwiceInv
<1>1. seeded'
  BY DEF Test
<1>2. ASSUME NEW w \in Widths, Integer(w) PROVE TwiceInv'
  <2>1. B!Draw(gen, w) = Draw(gen, w)
    BY SameOperators
  <2> QED
    BY <1>2, <2>1 DEF Integer, Both, Rand, B!Rand
<1>3. ASSUME NEW n \in Fills, Fill(n) PROVE TwiceInv'
  <2>1. B!Prng(gen, n) = Prng(gen, n)
    BY SameOperators
  <2> QED
    BY <1>3, <2>1 DEF Fill, Both, Randomize, B!Randomize
<1>4. ASSUME Normal PROVE TwiceInv'
  <2>1. B!Marsaglia(gen) = Marsaglia(gen)
    BY SameMarsaglia
  <2>2. RandNorm /\ B!RandNorm
    BY <1>4 DEF Normal, Both
  <2>3. CASE norm.cached
    BY <2>2, <2>3 DEF RandNorm, B!RandNorm
  <2>4. CASE ~ norm.cached
    BY <2>1, <2>2, <2>4 DEF RandNorm, B!RandNorm
  <2> QED
    BY <2>3, <2>4
<1>5. ASSUME TwoNormals PROVE TwiceInv'
  <2>1. B!Marsaglia(gen) = Marsaglia(gen)
    BY SameMarsaglia
  <2> QED
    BY <1>5, <2>1 DEF TwoNormals, Both, RandomizeNorm, B!RandomizeNorm
<1> QED
  BY <1>2, <1>3, <1>4, <1>5 DEF Test

LEMMA TwiceNextInv ==
  ASSUME TwiceInv, ~ NormalsBefore, [TwiceNext]_twiceVars
  PROVE  TwiceInv'
<1> USE DEF TwiceInv
<1>1. ASSUME Test, ~ seeded PROVE TwiceInv'
  <2>1. ~ Normal
    BY <1>1 DEF Normal
  <2>2. ~ seeded' /\ UNCHANGED norm /\ UNCHANGED normB
    BY <1>1, <2>1 DEF Test, Integer, Fill, TwoNormals, Both, Rand, Randomize, RandomizeNorm, varsB
  <2> QED
    BY <2>2
<1>2. ASSUME NEW s \in Seeds, Seed(s) PROVE TwiceInv'
  <2>1. B!SrandOf(genB, s) = SrandOf(gen, s)
    BY SameOperators DEF SrandOf
  <2> QED
    BY <1>2, <2>1 DEF Seed, Srand, B!Srand
<1>3. ASSUME UNCHANGED twiceVars PROVE TwiceInv'
  BY <1>3 DEF twiceVars, vars, varsB
<1> QED
  BY <1>1, <1>2, <1>3, BothAlike DEF TwiceNext, Returned

(* After checkasm_srand() every call returns what it returns in a fresh        *)
(* process, for all seeds, widths, sizes and blocks, and however the calls     *)
(* before and after it are mixed, unless one before it was                    *)
(* checkasm_rand_norm() (utils.c:190-300).                                   *)
THEOREM SeedDeterminesNumbers ==
  ASSUME ~ NormalsBefore PROVE TwiceSpec => []SameNumbers
<1>1. TwiceInit => TwiceInv
  BY TwiceInitInv DEF TwiceInv
<1>2. TwiceInv /\ [TwiceNext]_twiceVars => TwiceInv'
  BY TwiceNextInv
<1>3. TwiceInv => SameNumbers
  BY DEF TwiceInv, SameNumbers
<1> QED
  BY <1>1, <1>2, <1>3, PTL DEF TwiceSpec

-----------------------------------------------------------------------------
(* A generator, the numbers left in its caches, and that none of them and     *)
(* nothing that is still to be drawn was handed out before.                   *)
Generators == [ seed : Seeds, drawn : Nat, cache : [Widths -> [from : Nat, num : Nat]] ]
Left(g, w) == g.cache[w].from .. g.cache[w].from + g.cache[w].num * w - 1
Drawn(g) == 0 .. g.drawn * BlockSize - 1
Unspent(g, bytes) ==
    /\ g \in Generators /\ bytes \subseteq Drawn(g)
    /\ \A w \in Widths : Left(g, w) \subseteq Drawn(g) /\ Left(g, w) \cap bytes = {}
    /\ \A v, w \in Widths : v # w => Left(g, v) \cap Left(g, w) = {}
ValueBytes(v) == v[2] .. v[2] + v[3] - 1

(* What / and % of C are for numbers that are not negative.                  *)
LEMMA QuotientOf ==
  ASSUME NEW n \in Nat, NEW d \in Nat \ {0}
  PROVE  /\ n \div d \in Nat /\ n % d \in Nat /\ n % d < d
         /\ n = (n \div d) * d + (n % d)
OBVIOUS

(* Whole blocks are drawn, at least as many as are asked for.                 *)
LEMMA BlocksSuffice ==
  ASSUME NEW g \in Generators, NEW size \in Nat
  PROVE  /\ Prng(g, size) \in Generators
         /\ Prng(g, size).cache = g.cache /\ Prng(g, size).seed = g.seed
         /\ g.drawn * BlockSize \in Nat /\ Prng(g, size).drawn * BlockSize \in Nat
         /\ g.drawn * BlockSize + size <= Prng(g, size).drawn * BlockSize
<1> DEFINE n == size + BlockSize - 1
           q == n \div BlockSize
           d == g.drawn
<1>1. BlockSize \in Nat \ {0} /\ d \in Nat
  BY SizesAssumption DEF Generators
<1>2. n \in Nat
  BY <1>1
<1>3. q \in Nat /\ n % BlockSize \in Nat /\ n % BlockSize < BlockSize
      /\ n = q * BlockSize + (n % BlockSize)
  BY <1>1, <1>2, QuotientOf
<1>4. Prng(g, size) = [g EXCEPT !.drawn = d + q]
  BY DEF Prng
<1> HIDE DEF q
<1>5. /\ Prng(g, size) \in Generators
      /\ Prng(g, size).cache = g.cache /\ Prng(g, size).seed = g.seed
      /\ Prng(g, size).drawn = d + q
  BY <1>1, <1>3, <1>4 DEF Generators
<1> HIDE DEF d
<1> DEFINE p == q * BlockSize
           e == d * BlockSize
<1>6. p \in Nat /\ e \in Nat /\ (d + q) * BlockSize = e + p
  BY <1>1, <1>3
<1>7. n = p + (n % BlockSize)
  BY <1>3
<1> HIDE DEF p
<1>8. size <= p
  BY <1>1, <1>3, <1>6, <1>7
<1> HIDE DEF e
<1>9. e + size <= e + p
  BY <1>6, <1>8
<1> QED
  BY <1>5, <1>6, <1>9 DEF d, e

(* What is drawn for a buffer was not handed out and is not in a cache.        *)
LEMMA FreshBlocks ==
  ASSUME NEW g, NEW bytes, Unspent(g, bytes), NEW size \in Nat
  PROVE  LET new == g.drawn * BlockSize .. g.drawn * BlockSize + size - 1
         IN  /\ new \cap bytes = {} /\ \A w \in Widths : Left(g, w) \cap new = {}
             /\ new \subseteq Drawn(Prng(g, size))
             /\ Unspent(Prng(g, size), bytes \cup new)
<1> DEFINE e == g.drawn * BlockSize
           h == Prng(g, size)
           f == h.drawn * BlockSize
           new == e .. e + size - 1
<1>1. /\ g \in Generators /\ h \in Generators /\ h.cache = g.cache
      /\ e \in Nat /\ f \in Nat /\ e + size <= f
  BY BlocksSuffice DEF Unspent
<1>2. Drawn(g) = 0 .. e - 1 /\ Drawn(h) = 0 .. f - 1
  BY DEF Drawn
<1>3. \A w : Left(h, w) = Left(g, w)
  BY <1>1 DEF Left
<1>4. /\ bytes \subseteq Drawn(g)
      /\ \A w \in Widths : Left(g, w) \subseteq Drawn(g) /\ Left(g, w) \cap bytes = {}
      /\ \A v, w \in Widths : v # w => Left(g, v) \cap Left(g, w) = {}
  BY DEF Unspent
<1> HIDE DEF e, f, h
<1>5. Drawn(g) \subseteq Drawn(h) /\ new \subseteq Drawn(h) /\ new \cap Drawn(g) = {}
  BY <1>1, <1>2
<1> HIDE DEF new
<1>6. new \cap bytes = {} /\ \A w \in Widths : Left(g, w) \cap new = {}
  BY <1>4, <1>5
<1>7. Unspent(h, bytes \cup new)
  BY <1>1, <1>3, <1>4, <1>5, <1>6 DEF Unspent
<1> QED
  BY <1>5, <1>6, <1>7 DEF new, e, h

(* A number comes from a cache, or from the blocks that fill it.               *)
Filled(g, w) ==
    [Prng(g, CacheSize) EXCEPT !.cache[w] = [from |-> g.drawn * BlockSize, num |-> CacheSize \div w]]

(* The blocks that fill a cache of a width leave the numbers of the others   *)
(* alone (utils.c:194-198).                                                  *)
LEMMA FreshCache ==
  ASSUME NEW g, NEW bytes, Unspent(g, bytes), NEW w \in Widths
  PROVE  Unspent(Filled(g, w), bytes) /\ Filled(g, w).cache[w].num \in Nat \ {0}
<1> DEFINE e == g.drawn * BlockSize
           q == CacheSize \div w
           h == Prng(g, CacheSize)
           k == Filled(g, w)
           new == e .. e + CacheSize - 1
<1>1. /\ CacheSize \in Nat \ {0} /\ w \in Nat \ {0} /\ CacheSize % w = 0 /\ BlockSize \in Nat \ {0}
  BY SizesAssumption
<1>2. q \in Nat /\ q * w = CacheSize /\ q # 0
  <2>1. q \in Nat /\ CacheSize = q * w + (CacheSize % w)
    BY <1>1, QuotientOf
  <2> DEFINE p == q * w
  <2>2. p \in Nat
    BY <1>1, <2>1
  <2>3. CacheSize = p + 0
    BY <1>1, <2>1
  <2>4. q = 0 => p = 0
    BY <1>1
  <2> HIDE DEF p, q
  <2>5. CacheSize = p /\ q # 0
    BY <1>1, <2>2, <2>3, <2>4
  <2> QED
    BY <2>1, <2>5 DEF p
<1>3. g \in Generators /\ h \in Generators /\ h.cache = g.cache /\ e \in Nat
  BY <1>1, BlocksSuffice DEF Unspent
<1>4. k = [h EXCEPT !.cache[w] = [from |-> e, num |-> q]]
  BY DEF Filled
<1> HIDE DEF e, q, h, k
<1>5. /\ k \in Generators /\ k.drawn = h.drawn /\ k.cache[w] = [from |-> e, num |-> q]
      /\ \A v \in Widths : v # w => k.cache[v] = g.cache[v]
  BY <1>2, <1>3, <1>4 DEF Generators
<1>6. k.cache[w].from = e /\ k.cache[w].num = q
  BY <1>5
<1>7. Left(k, w) = new
  BY <1>2, <1>6 DEF Left
<1>8. \A v \in Widths : v # w => Left(k, v) = Left(g, v)
  BY <1>5 DEF Left
<1>9. Drawn(k) = Drawn(h)
  BY <1>5 DEF Drawn
<1>10. /\ new \cap bytes = {} /\ (\A v \in Widths : Left(g, v) \cap new = {})
       /\ new \subseteq Drawn(h) /\ Unspent(h, bytes \cup new)
  BY <1>1, FreshBlocks DEF e, h
<1>11. \A v : Left(h, v) = Left(g, v)
  BY <1>3 DEF Left
<1> HIDE DEF new
<1>12. Unspent(k, bytes)
  <2>1. bytes \subseteq Drawn(k)
    BY <1>9, <1>10 DEF Unspent
  <2>2. \A v \in Widths : Left(k, v) \subseteq Drawn(k) /\ Left(k, v) \cap bytes = {}
    BY <1>7, <1>8, <1>9, <1>10, <1>11 DEF Unspent
  <2>3. \A u, v \in Widths : u # v => Left(k, u) \cap Left(k, v) = {}
    BY <1>7, <1>8, <1>10, <1>11 DEF Unspent
  <2> QED
    BY <1>5, <2>1, <2>2, <2>3 DEF Unspent
<1> QED
  BY <1>2, <1>6, <1>12 DEF k

(* A number that a cache hands out is gone from it, and no other cache       *)
(* holds a byte of it.                                                       *)
LEMMA FreshNumber ==
  ASSUME NEW g, NEW bytes, Unspent(g, bytes), NEW w \in Widths
  PROVE  LET d == Draw(g, w)
         IN  /\ ValueBytes(d.value) \cap bytes = {} /\ ValueBytes(d.value) # {}
             /\ d.value[2] \in ValueBytes(d.value)
             /\ Unspent(d.gen, bytes \cup ValueBytes(d.value))
<1> DEFINE refill == g.cache[w].num = 0
           h == IF refill THEN Filled(g, w) ELSE g
           c == h.cache[w]
           left == c.num - 1
           new == c.from + left * w .. c.from + left * w + w - 1
           k == [h EXCEPT !.cache[w].num = left]
<1>1. w \in Nat \ {0}
  BY SizesAssumption
<1>2. g \in Generators /\ g.cache[w].num \in Nat
  BY DEF Unspent, Generators
<1>3. Unspent(h, bytes) /\ c.num \in Nat \ {0}
  BY <1>2, FreshCache
<1>4. Draw(g, w).gen = k /\ Draw(g, w).value = <<h.seed, c.from + left * w, w>>
  BY DEF Draw, Filled
<1> HIDE DEF h
<1>5. h \in Generators /\ c \in [from : Nat, num : Nat]
  BY <1>3 DEF Unspent, Generators
<1>6. left \in Nat
  BY <1>3
<1>7. /\ k \in Generators /\ k.drawn = h.drawn
      /\ k.cache[w].from = c.from /\ k.cache[w].num = left
      /\ \A v \in Widths : v # w => k.cache[v] = h.cache[v]
  <2> HIDE DEF left
  <2> QED
    BY <1>5, <1>6 DEF Generators
<1>8. c.num * w = left * w + w /\ left * w \in Nat /\ c.from \in Nat
  <2>1. c.num = left + 1
    BY <1>3
  <2> HIDE DEF left
  <2> QED
    BY <1>1, <1>5, <1>6, <2>1
<1> HIDE DEF k, left
<1> DEFINE p == left * w
           a == c.from
<1>9. Left(h, w) = a .. a + (p + w) - 1 /\ Left(k, w) = a .. a + p - 1 /\ new = a + p .. a + p + w - 1
  BY <1>7, <1>8 DEF Left
<1>10. a \in Nat /\ p \in Nat
  BY <1>8
<1> HIDE DEF p, a, c, new
<1>11. /\ Left(k, w) \subseteq Left(h, w) /\ new \subseteq Left(h, w) /\ Left(k, w) \cap new = {}
       /\ a + p \in new
  BY <1>1, <1>9, <1>10
<1>12. \A v \in Widths : v # w => Left(k, v) = Left(h, v)
  BY <1>7 DEF Left
<1>13. Drawn(k) = Drawn(h)
  BY <1>7 DEF Drawn
<1>14. /\ bytes \subseteq Drawn(h)
       /\ \A v \in Widths : Left(h, v) \subseteq Drawn(h) /\ Left(h, v) \cap bytes = {}
       /\ \A u, v \in Widths : u # v => Left(h, u) \cap Left(h, v) = {}
  BY <1>3 DEF Unspent
<1>15. Unspent(k, bytes \cup new)
  <2>1. bytes \cup new \subseteq Drawn(k)
    BY <1>11, <1>13, <1>14
  <2>2. \A v \in Widths : Left(k, v) \subseteq Drawn(k) /\ Left(k, v) \cap (bytes \cup new) = {}
    <3> TAKE v \in Widths
    <3>1. CASE v = w
      BY <1>11, <1>13, <1>14, <3>1
    <3>2. CASE v # w
      BY <1>11, <1>12, <1>13, <1>14, <3>2
    <3> QED
      BY <3>1, <3>2
  <2>3. \A u, v \in Widths : u # v => Left(k, u) \cap Left(k, v) = {}
    BY <1>11, <1>12, <1>14
  <2> QED
    BY <1>7, <2>1, <2>2, <2>3 DEF Unspent
<1>16. ValueBytes(Draw(g, w).value) = new /\ Draw(g, w).value[2] = a + p
  BY <1>4 DEF ValueBytes, new, a, p
<1> QED
  BY <1>4, <1>11, <1>14, <1>15, <1>16

-----------------------------------------------------------------------------
(* Min takes the least element of a set of integers that is bounded below.   *)
LEMMA LeastElement ==
  ASSUME NEW S, NEW m \in Int, S \subseteq Int, \A i \in S : m <= i, S # {}
  PROVE  Min(S) \in S /\ \A i \in S : Min(S) <= i
<1> DEFINE T == { i - m : i \in S }
<1>0. T \subseteq Nat /\ T # {}
  <2>1. \A i \in S : i \in Int /\ m <= i
    OBVIOUS
  <2>2. \A i \in S : i - m \in Nat
    BY <2>1
  <2> QED
    BY <2>2
<1>1. IsWellFoundedOn(OpToRel(<, Nat), Nat)
  BY NatLessThanWellFounded
<1>2. PICK t \in T : \A u \in T : ~ (<<u, t>> \in OpToRel(<, Nat))
  BY <1>0, <1>1, WFMin
<1>3. PICK i \in S : t = i - m
  OBVIOUS
<1>4. \A j \in S : i <= j
  <2> TAKE j \in S
  <2>1. j - m \in Nat /\ t \in Nat /\ ~ (j - m < t)
    BY <1>0, <1>2 DEF OpToRel
  <2> QED
    BY <1>3, <2>1
<1> HIDE DEF T
<1> QED
  BY <1>4 DEF Min

(* Induction, of which the hypothesis is that a set holds what came before.    *)
LEMMA SetInduction ==
  ASSUME NEW S, \A n \in Nat : (\A k \in 0 .. n - 1 : k \in S) => n \in S
  PROVE  Nat \subseteq S
<1> DEFINE T == Nat \ S
<1> SUFFICES ASSUME T # {} PROVE FALSE
  OBVIOUS
<1>1. Min(T) \in T /\ \A i \in T : Min(T) <= i
  <2>1. T \subseteq Int /\ (\A i \in T : 0 <= i) /\ 0 \in Int
    OBVIOUS
  <2>2. T # {}
    OBVIOUS
  <2> HIDE DEF T
  <2> QED
    BY <2>1, <2>2, LeastElement
<1> DEFINE n == Min(T)
<1>2. n \in Nat /\ n \notin S
  BY <1>1
<1>3. \A k \in 0 .. n - 1 : k \in S
  <2> TAKE k \in 0 .. n - 1
  <2>1. k \in Nat /\ ~ (n <= k)
    BY <1>2
  <2> QED
    BY <1>1, <2>1
<1> QED
  BY <1>2, <1>3

(* Two numbers in a row share no byte.                                       *)
LEMMA FreshPair ==
  ASSUME NEW g, NEW bytes, Unspent(g, bytes)
  PROVE  LET t == DrawTwo(g)
         IN  /\ BytesOf(t.value) \cap bytes = {} /\ t.value[1][2] \in BytesOf(t.value)
             /\ Unspent(t.gen, bytes \cup BytesOf(t.value))
<1> DEFINE c == Draw(g, Word)
           d == Draw(c.gen, Word)
           t == DrawTwo(g)
           x == ValueBytes(c.value)
           y == ValueBytes(d.value)
<1>1. Word \in Widths
  BY SizesAssumption
<1>2. x \cap bytes = {} /\ c.value[2] \in x /\ Unspent(c.gen, bytes \cup x)
  BY <1>1, FreshNumber
<1>3. y \cap (bytes \cup x) = {} /\ Unspent(d.gen, (bytes \cup x) \cup y)
  BY <1>1, <1>2, FreshNumber
<1>4. t.gen = d.gen /\ t.value = <<c.value, d.value>>
  BY DEF DrawTwo
<1>5. BytesOf(t.value) = x \cup y
  <2>1. DOMAIN t.value = {1, 2} /\ t.value[1] = c.value /\ t.value[2] = d.value
    BY <1>4
  <2>2. { t.value[i] : i \in DOMAIN t.value } = {c.value, d.value}
    BY <2>1
  <2> QED
    BY <2>2 DEF BytesOf, ValueBytes
<1>6. t.value[1][2] = c.value[2]
  BY <1>4
<1> HIDE DEF c, d, t, x, y
<1>7. (bytes \cup x) \cup y = bytes \cup (x \cup y)
  OBVIOUS
<1> QED
  BY <1>2, <1>3, <1>4, <1>5, <1>6, <1>7 DEF t

(* What is unspent next to some bytes is unspent next to fewer.              *)
LEMMA FewerBytes ==
  ASSUME NEW g, NEW bytes, NEW fewer, Unspent(g, bytes), fewer \subseteq bytes
  PROVE  Unspent(g, fewer)
BY DEF Unspent

(* The pairs that Marsaglia's method draws, one after the other.              *)
Tries(g) == CHOOSE f : f = [k \in 0 .. MaxTries |-> DrawTwo(IF k = 0 THEN g ELSE f[k - 1].gen)]

(* The tries of Marsaglia's method, defined by recursion, exist: each goes   *)
(* on where the one before it ended, and no two draw the same pair of        *)
(* numbers.                                                                  *)
LEMMA TriesAre ==
  ASSUME NEW g
  PROVE  \A k \in 0 .. MaxTries : Tries(g)[k] = DrawTwo(IF k = 0 THEN g ELSE Tries(g)[k - 1].gen)
<1> DEFINE Pairs(f, t) == f = [k \in 0 .. t |-> DrawTwo(IF k = 0 THEN g ELSE f[k - 1].gen)]
           S == { t \in Nat : \E f : Pairs(f, t) }
<1>1. ASSUME NEW t \in Nat, \A k \in 0 .. t - 1 : k \in S
      PROVE  \E f : Pairs(f, t)
  <2>1. CASE t = 0
    <3> DEFINE f == [k \in 0 .. 0 |-> DrawTwo(g)]
    <3>1. f = [k \in 0 .. 0 |-> DrawTwo(IF k = 0 THEN g ELSE f[k - 1].gen)]
      OBVIOUS
    <3> HIDE DEF f
    <3> QED
      BY <2>1, <3>1
  <2>2. CASE t > 0
    <3>1. t - 1 \in S
      BY <1>1, <2>2
    <3>2. PICK f : Pairs(f, t - 1)
      BY <3>1
    <3>3. \A k \in 0 .. t - 1 : f[k] = DrawTwo(IF k = 0 THEN g ELSE f[k - 1].gen)
      BY <3>2
    <3> HIDE DEF Pairs
    <3> DEFINE h == [k \in 0 .. t |-> IF k = t THEN DrawTwo(f[t - 1].gen) ELSE f[k]]
    <3>4. ASSUME NEW k \in 0 .. t
          PROVE  h[k] = DrawTwo(IF k = 0 THEN g ELSE h[k - 1].gen)
      <4>1. k # 0 => k - 1 \in 0 .. t /\ k - 1 # t
        OBVIOUS
      <4>2. k # 0 => h[k - 1] = f[k - 1]
        BY <4>1
      <4>3. CASE k = t
        <5>1. h[k] = DrawTwo(f[k - 1].gen) /\ k # 0
          BY <2>2, <4>3
        <5> HIDE DEF h
        <5> QED
          BY <4>2, <5>1
      <4>4. CASE k # t
        <5>1. h[k] = f[k] /\ k \in 0 .. t - 1
          BY <4>4
        <5> HIDE DEF h
        <5> QED
          BY <3>3, <4>2, <5>1
      <4> QED
        BY <4>3, <4>4
    <3>5. h = [k \in 0 .. t |-> DrawTwo(IF k = 0 THEN g ELSE h[k - 1].gen)]
      <4>1. h = [k \in 0 .. t |-> h[k]]
        OBVIOUS
      <4> HIDE DEF h
      <4> QED
        BY <3>4, <4>1
    <3> HIDE DEF h
    <3> QED
      BY <3>5 DEF Pairs
  <2> QED
    BY <2>1, <2>2
<1>2. \A t \in Nat : (\A k \in 0 .. t - 1 : k \in S) => t \in S
  BY <1>1
<1>3. Nat \subseteq S
  <2> HIDE DEF S
  <2> QED
    BY <1>2, SetInduction
<1>4. \E f : Pairs(f, MaxTries)
  <2>1. MaxTries \in S
    <3> HIDE DEF S
    <3> QED
      BY <1>3, RejectedAssumption
  <2> QED
    BY <2>1
<1> DEFINE e == Tries(g)
<1>5. e = [k \in 0 .. MaxTries |-> DrawTwo(IF k = 0 THEN g ELSE e[k - 1].gen)]
  BY <1>4 DEF Tries
<1> HIDE DEF e
<1>6. \A k \in 0 .. MaxTries : e[k] = DrawTwo(IF k = 0 THEN g ELSE e[k - 1].gen)
  BY <1>5
<1> QED
  BY <1>6 DEF e

(* Each of them is of bytes of its own, one of them is accepted, and what is    *)
(* left was not handed out, the rejected pairs among it or not.               *)
LEMMA FreshVariates ==
  ASSUME NEW g, NEW bytes, Unspent(g, bytes)
  PROVE  LET m == Marsaglia(g)
         IN  /\ BytesOfPair(m.z1) \cap bytes = {} /\ BytesOfPair(m.z2) = BytesOfPair(m.z1)
             /\ Unspent(m.gen, bytes \cup BytesOfPair(m.z1))
<1> DEFINE N == MaxTries
           try == Tries(g)
           before(k) == IF k = 0 THEN g ELSE try[k - 1].gen
           Bytes(k) == BytesOf(try[k].value)
           used_(k) == bytes \cup UNION { Bytes(l) : l \in 0 .. k - 1 }
           place(k) == try[k].value[1][2]
           S == { k \in Nat : k <= N + 1 => Unspent(before(k), used_(k)) }
           accepted == { k \in 0 .. N : place(k) \notin Rejected }
<1>1. N \in Nat /\ IsFiniteSet(Rejected) /\ Cardinality(Rejected) <= N
  BY RejectedAssumption
<1>2. ASSUME NEW k \in 0 .. N, Unspent(before(k), used_(k))
      PROVE  /\ Bytes(k) \cap used_(k) = {} /\ place(k) \in Bytes(k)
             /\ Unspent(try[k].gen, used_(k) \cup Bytes(k))
  <2>1. try[k] = DrawTwo(before(k))
    BY <1>1, TriesAre
  <2> HIDE DEF try, before, used_
  <2> QED
    BY <1>2, <2>1, FreshPair
<1>3. ASSUME NEW k \in Nat
      PROVE  used_(k) \cup Bytes(k) = used_(k + 1)
  <2>1. 0 .. k + 1 - 1 = (0 .. k - 1) \cup {k}
    OBVIOUS
  <2> HIDE DEF Bytes
  <2> QED
    BY <2>1
<1>4. ASSUME NEW k \in Nat, \A l \in 0 .. k - 1 : l \in S, k <= N + 1
      PROVE  Unspent(before(k), used_(k))
  <2>1. CASE k = 0
    <3>1. before(k) = g
      BY <2>1
    <3>2. 0 .. k - 1 = {}
      BY <2>1
    <3>3. used_(k) = bytes
      BY <3>2
    <3> HIDE DEF before, used_
    <3> QED
      BY <3>1, <3>3
  <2>2. CASE k > 0
    <3> DEFINE l == k - 1
    <3>1. l \in Nat /\ l \in 0 .. k - 1 /\ l \in 0 .. N /\ l + 1 = k /\ l <= N + 1
      BY <1>1, <1>4, <2>2
    <3>2. before(k) = try[l].gen
      BY <2>2
    <3> HIDE DEF l, before, used_, Bytes
    <3>3. Unspent(before(l), used_(l))
      BY <1>4, <3>1
    <3>4. Unspent(try[l].gen, used_(l) \cup Bytes(l))
      BY <1>2, <3>1, <3>3
    <3> QED
      BY <1>3, <3>1, <3>2, <3>4
  <2> QED
    BY <2>1, <2>2
<1> HIDE DEF before, used_, Bytes, place, try
<1>5. \A k \in Nat : (\A l \in 0 .. k - 1 : l \in S) => k \in S
  BY <1>4
<1>6. Nat \subseteq S
  <2> HIDE DEF S
  <2> QED
    BY <1>5, SetInduction
<1>7. ASSUME NEW k \in 0 .. N
      PROVE  /\ Bytes(k) \cap used_(k) = {} /\ place(k) \in Bytes(k)
             /\ Unspent(try[k].gen, used_(k + 1))
  <2>1. k \in Nat /\ k <= N + 1
    BY <1>1
  <2>2. Unspent(before(k), used_(k))
    BY <1>6, <2>1
  <2> QED
    BY <1>2, <1>3, <2>1, <2>2
<1>8. ASSUME NEW k \in 0 .. N, NEW l \in 0 .. k - 1
      PROVE  place(l) # place(k)
  <2>1. l \in 0 .. N
    BY <1>1
  <2>2. place(l) \in used_(k)
    BY <1>7, <2>1 DEF used_
  <2> QED
    BY <1>7, <2>2
<1>9. accepted # {}
  <2> SUFFICES ASSUME \A k \in 0 .. N : place(k) \in Rejected PROVE FALSE
    OBVIOUS
  <2> DEFINE f == [k \in 0 .. N |-> place(k)]
  <2>1. f \in [0 .. N -> Rejected]
    OBVIOUS
  <2>2. IsFiniteSet(0 .. N) /\ Cardinality(0 .. N) = N + 1
    BY <1>1, FS_Interval
  <2>3. Cardinality(Rejected) < Cardinality(0 .. N)
    <3>1. Cardinality(Rejected) \in Nat
      BY <1>1, FS_CardinalityType
    <3> QED
      BY <1>1, <2>2, <3>1
  <2> HIDE DEF f
  <2>4. PICK x \in 0 .. N, y \in 0 .. N : x # y /\ f[x] = f[y]
    BY <1>1, <2>1, <2>2, <2>3, FS_PigeonHole
  <2>5. place(x) = place(y)
    BY <2>4 DEF f
  <2>6. x \in 0 .. y - 1 \/ y \in 0 .. x - 1
    BY <1>1, <2>4
  <2> QED
    BY <1>8, <2>5, <2>6
<1> DEFINE k == Min(accepted)
<1>10. k \in 0 .. N
  <2>1. accepted \subseteq 0 .. N
    OBVIOUS
  <2> HIDE DEF accepted
  <2>2. accepted \subseteq Int /\ (\A i \in accepted : 0 <= i) /\ 0 \in Int
    BY <1>1, <2>1
  <2>3. Min(accepted) \in accepted
    BY <1>9, <2>2, LeastElement
  <2> QED
    BY <2>1, <2>3
<1>11. Marsaglia(g) = [gen |-> try[k].gen, z1 |-> <<"z1", try[k].value>>, z2 |-> <<"z2", try[k].value>>]
  BY DEF Marsaglia, try, Tries, place
<1> HIDE DEF k
<1>12. /\ Marsaglia(g).gen = try[k].gen
       /\ BytesOfPair(Marsaglia(g).z1) = Bytes(k) /\ BytesOfPair(Marsaglia(g).z2) = Bytes(k)
  BY <1>11 DEF BytesOfPair, Bytes
<1>13. bytes \subseteq used_(k) /\ bytes \cup Bytes(k) \subseteq used_(k + 1)
  <2>1. k \in 0 .. k + 1 - 1
    BY <1>1, <1>10
  <2> QED
    BY <2>1 DEF used_
<1>14. Unspent(try[k].gen, bytes \cup Bytes(k))
  BY <1>7, <1>10, <1>13, FewerBytes
<1>15. Bytes(k) \cap bytes = {}
  BY <1>7, <1>10, <1>13
<1> QED
  BY <1>12, <1>14, <1>15

-----------------------------------------------------------------------------
(* Nothing that was drawn since the seeding is left anywhere, but for the       *)
(* bytes of the cached variate, which its pair has used.                      *)
SpentInv ==
    /\ Unspent(gen, used)
    /\ norm = [cached |-> norm.cached, cache |-> norm.cache]
    /\ ~ seeded => ~ norm.cached
    /\ norm.cached => BytesOfPair(norm.cache) \subseteq used

(* After checkasm_srand() nothing was drawn and the caches are empty.        *)
LEMMA SeededIsFresh ==
  ASSUME NEW s \in Seeds
  PROVE  Unspent(Seeded(s), {})
<1>1. Seeded(s) \in Generators
  BY DEF Seeded, Generators
<1>2. \A w \in Widths : w \in Nat /\ Left(Seeded(s), w) = {}
  <2> TAKE w \in Widths
  <2>1. w \in Nat
    BY SizesAssumption
  <2>2. Seeded(s).cache[w].from = 0 /\ Seeded(s).cache[w].num = 0
    BY DEF Seeded
  <2> QED
    BY <2>1, <2>2 DEF Left
<1> QED
  BY <1>1, <1>2 DEF Unspent

(* The bytes of one number, and of one buffer.                               *)
LEMMA OneValue ==
  ASSUME NEW v
  PROVE  BytesOf(<<v>>) = ValueBytes(v)
<1>1. { <<v>>[i] : i \in DOMAIN <<v>> } = {v}
  <2>1. DOMAIN <<v>> = {1} /\ <<v>>[1] = v
    OBVIOUS
  <2> DEFINE s == <<v>>
  <2> HIDE DEF s
  <2>2. DOMAIN s = {1} /\ s[1] = v
    BY <2>1 DEF s
  <2>3. { s[i] : i \in DOMAIN s } = {v}
    BY <2>2
  <2> QED
    BY <2>3 DEF s
<1> QED
  BY <1>1 DEF BytesOf, ValueBytes

(* What the calls return is fresh, and they leave nothing of it.              *)
LEMMA IntegerIsFresh ==
  ASSUME Unspent(gen, used), NEW w \in Widths, Integer(w)
  PROVE  /\ BytesOf(out') \cap used = {} /\ Unspent(gen', used')
         /\ norm' = norm /\ used \subseteq used'
<1> DEFINE d == Draw(gen, w)
<1>1. /\ gen' = d.gen /\ out' = <<d.value>> /\ norm' = norm
      /\ used' = used \cup BytesOf(out')
  BY DEF Integer, Both, Rand
<1> HIDE DEF d
<1>2. BytesOf(out') = ValueBytes(d.value)
  BY <1>1, OneValue
<1>3. /\ ValueBytes(d.value) \cap used = {}
      /\ Unspent(d.gen, used \cup ValueBytes(d.value))
  BY FreshNumber DEF d
<1> QED
  BY <1>1, <1>2, <1>3

(* A buffer is filled with whole blocks past what is in the caches           *)
(* (utils.c:290-293).                                                        *)
LEMMA FillIsFresh ==
  ASSUME Unspent(gen, used), NEW n \in Fills, Fill(n)
  PROVE  /\ BytesOf(out') \cap used = {} /\ Unspent(gen', used')
         /\ norm' = norm /\ used \subseteq used'
<1> DEFINE e == gen.drawn * BlockSize
           new == e .. e + n - 1
           v == <<gen.seed, e, n>>
<1>1. /\ gen' = Prng(gen, n) /\ out' = <<v>> /\ norm' = norm
      /\ used' = used \cup BytesOf(out')
  BY DEF Fill, Both, Randomize
<1>2. n \in Nat
  BY FillsAssumption
<1>3. new \cap used = {} /\ Unspent(Prng(gen, n), used \cup new)
  BY <1>2, FreshBlocks
<1>4. ValueBytes(v) = new
  BY DEF ValueBytes
<1>5. BytesOf(out') = ValueBytes(v)
  <2> HIDE DEF v
  <2> QED
    BY <1>1, OneValue
<1> HIDE DEF new, v
<1> QED
  BY <1>1, <1>3, <1>4, <1>5

(* A pair of variates is made of new numbers, however many were rejected     *)
(* before.                                                                   *)
LEMMA NewPairIsFresh ==
  ASSUME Unspent(gen, used), TwoNormals \/ (Normal /\ ~ norm.cached)
  PROVE  /\ BytesOfPair(out'[1]) \cap used = {} /\ Unspent(gen', used')
         /\ used \subseteq used'
         /\ TwoNormals => norm' = norm
         /\ Normal /\ ~ norm.cached =>
               /\ norm' = [cached |-> norm'.cached, cache |-> norm'.cache]
               /\ BytesOfPair(norm'.cache) \subseteq used'
<1> DEFINE m == Marsaglia(gen)
<1>1. /\ BytesOfPair(m.z1) \cap used = {} /\ BytesOfPair(m.z2) = BytesOfPair(m.z1)
      /\ Unspent(m.gen, used \cup BytesOfPair(m.z1))
  BY FreshVariates
<1>2. TwoNormals => /\ gen' = m.gen /\ out' = <<m.z1, m.z2>> /\ norm' = norm
                    /\ used' = used \cup BytesOfPair(out'[1])
  BY DEF TwoNormals, Both, RandomizeNorm
<1>3. Normal /\ ~ norm.cached =>
         /\ gen' = m.gen /\ out' = <<m.z1>> /\ norm' = [cached |-> TRUE, cache |-> m.z2]
         /\ used' = used \cup BytesOfPair(out'[1])
  BY DEF Normal, Both, RandNorm
<1> HIDE DEF m
<1>4. out'[1] = m.z1 /\ gen' = m.gen /\ used' = used \cup BytesOfPair(m.z1)
  BY <1>2, <1>3
<1>5. Normal /\ ~ norm.cached =>
         norm'.cache = m.z2 /\ norm' = [cached |-> norm'.cached, cache |-> norm'.cache]
  BY <1>3
<1>6. TwoNormals => norm' = norm
  BY <1>2
<1> QED
  BY <1>1, <1>4, <1>5, <1>6

(* The cached variate is of a pair whose bytes were spent before.            *)
LEMMA OldVariate ==
  ASSUME SpentInv, Normal, norm.cached
  PROVE  /\ Unspent(gen', used') /\ ~ norm'.cached
         /\ norm' = [cached |-> norm'.cached, cache |-> norm'.cache]
<1>1. gen' = gen /\ out' = <<norm.cache>> /\ norm' = [norm EXCEPT !.cached = FALSE]
      /\ used' = used \cup BytesOfPair(out'[1])
  BY DEF Normal, Both, RandNorm
<1>2. out'[1] = norm.cache
  BY <1>1
<1>3. used' = used
  BY <1>1, <1>2 DEF SpentInv
<1>4. norm' = [cached |-> FALSE, cache |-> norm.cache]
  BY <1>1 DEF SpentInv
<1> QED
  BY <1>1, <1>3, <1>4 DEF SpentInv

(* Before the seeding no normal variate is kept.                             *)
LEMMA SpentInit == TwiceInit => SpentInv
<1> SUFFICES ASSUME TwiceInit PROVE SpentInv
  OBVIOUS
<1>1. PICK s \in Seeds : gen = Seeded(s)
  BY DEF TwiceInit, Init
<1>2. used = {} /\ norm = [cached |-> FALSE, cache |-> NoValue]
  BY DEF TwiceInit, Init
<1>3. ~ norm.cached /\ norm = [cached |-> norm.cached, cache |-> norm.cache]
  BY <1>2
<1> QED
  BY <1>1, <1>2, <1>3, SeededIsFresh DEF SpentInv

(* Every call of run A hands out bytes that were not handed out before;      *)
(* what run B does is nothing to it.                                         *)
LEMMA SpentNext ==
  ASSUME SpentInv, ~ NormalsBefore, [TwiceNext]_twiceVars
  PROVE  SpentInv'
<1>1. ASSUME UNCHANGED twiceVars PROVE SpentInv'
  BY <1>1 DEF twiceVars, vars, SpentInv, Unspent, Generators, Left, Drawn
<1>2. ASSUME Test PROVE SpentInv'
  <2>1. seeded' = seeded /\ (Normal => seeded)
    BY <1>2 DEF Test, Normal
  <2>2. ASSUME NEW w \in Widths, Integer(w) PROVE SpentInv'
    BY <2>1, <2>2, IntegerIsFresh DEF SpentInv
  <2>3. ASSUME NEW n \in Fills, Fill(n) PROVE SpentInv'
    BY <2>1, <2>3, FillIsFresh DEF SpentInv
  <2>4. CASE Normal /\ norm.cached
    BY <2>1, <2>4, OldVariate DEF SpentInv
  <2>5. CASE Normal /\ ~ norm.cached
    BY <2>1, <2>5, NewPairIsFresh DEF SpentInv
  <2>6. CASE TwoNormals
    BY <2>1, <2>6, NewPairIsFresh DEF SpentInv
  <2> QED
    BY <1>2, <2>2, <2>3, <2>4, <2>5, <2>6 DEF Test
<1>3. ASSUME NEW s \in Seeds, Seed(s) PROVE SpentInv'
  <2>1. gen' = Seeded(s) /\ norm' = norm /\ used' = {} /\ ~ seeded
    BY <1>3 DEF Seed, Srand, SrandOf
  <2>2. Unspent(gen', used')
    BY <2>1, SeededIsFresh
  <2> QED
    BY <2>1, <2>2 DEF SpentInv
<1> QED
  BY <1>1, <1>2, <1>3 DEF TwiceNext, Returned

(* The bytes of the generator's output behind an integer, a buffer or a pair    *)
(* of normal variates are those of no other, for all widths, sizes and blocks  *)
(* and however the calls are mixed: not those left in a cache when a buffer is *)
(* filled past it, nor those of the pairs that Marsaglia's method rejects     *)
(* (utils.c:190-300).                                                        *)
THEOREM BytesAreFresh ==
  ASSUME ~ NormalsBefore PROVE TwiceSpec => NoByteTwice
<1>1. TwiceInit => SpentInv
  BY SpentInit
<1>2. SpentInv /\ [TwiceNext]_twiceVars => SpentInv'
  BY SpentNext
<1>3. SpentInv =>
        (Test =>
          /\ \A w \in Widths : Integer(w) => BytesOf(out') \cap used = {}
          /\ \A n \in Fills : Fill(n) => BytesOf(out') \cap used = {}
          /\ TwoNormals \/ (Normal /\ ~ norm.cached) =>
                BytesOfPair(out'[1]) \cap used = {})
  <2> SUFFICES ASSUME SpentInv
               PROVE  /\ \A w \in Widths : Integer(w) => BytesOf(out') \cap used = {}
                      /\ \A n \in Fills : Fill(n) => BytesOf(out') \cap used = {}
                      /\ TwoNormals \/ (Normal /\ ~ norm.cached) =>
                            BytesOfPair(out'[1]) \cap used = {}
    OBVIOUS
  <2>1. Unspent(gen, used)
    BY DEF SpentInv
  <2> QED
    BY <2>1, IntegerIsFresh, FillIsFresh, NewPairIsFresh
<1> QED
  BY <1>1, <1>2, <1>3, PTL DEF TwiceSpec, NoByteTwice
=============================================================================
