-------------------------------- MODULE Rng --------------------------------
(***************************************************************************)
(* The random numbers a test draws (utils.c): a seeded generator that works  *)
(* in blocks, one cache of unused numbers for each width, and a cached       *)
(* second normal variate.                                                    *)
(*                                                                         *)
(* What a number is does not matter, only where it comes from: a value is    *)
(* the seed, the place of its first byte in the generator's output since     *)
(* checkasm_srand(), and its width.                                          *)
(***************************************************************************)
EXTENDS Integers, FiniteSetsExt

CONSTANTS
    Seeds,      \* what checkasm_srand() is called with
    BlockSize,  \* bytes of a round of the generator
    CacheSize,  \* PRNG_CACHE_SIZE, the bytes of each cache
    Widths,     \* bytes of the integers that are drawn
    Word,       \* the width checkasm_rand_norm() draws, that of uint32_t
    Rejected,   \* places at which Marsaglia's method rejects the pair it drew
    MaxTries    \* pairs within which it accepts one

ASSUME SizesAssumption ==
    /\ BlockSize \in Nat \ {0} /\ CacheSize \in Nat \ {0}
    /\ CacheSize % BlockSize = 0
    /\ Widths \subseteq Nat \ {0} /\ \A w \in Widths : CacheSize % w = 0
    /\ Word \in Widths
ASSUME RejectedAssumption ==
    /\ Rejected \subseteq Nat /\ MaxTries \in Nat
    /\ IsFiniteSet(Rejected) /\ Cardinality(Rejected) <= MaxTries

VARIABLES
    gen,   \* checkasm_prng and prng_cache
    norm,  \* the statics of checkasm_rand_norm()
    out    \* the values that were drawn last, in their order

vars == <<gen, norm, out>>

NoValue == <<>>

(* drawn counts the blocks since the generator was seeded.  A cache remembers *)
(* which output filled it and how many numbers of it are left.               *)
Seeded(s) ==
    [ seed |-> s, drawn |-> 0, cache |-> [w \in Widths |-> [from |-> 0, num |-> 0]] ]

Init ==
    /\ gen \in { Seeded(s) : s \in Seeds }
    /\ norm = [cached |-> FALSE, cache |-> NoValue]
    /\ out = <<>>

-----------------------------------------------------------------------------
(* prng(): whole blocks are drawn, the rest of the last one is lost.         *)
PrngLost(g, size) == g  \* faulty: the generator's state is not written back
Prng(g, size) ==
    [g EXCEPT !.drawn = g.drawn + (size + BlockSize - 1) \div BlockSize]

(* checkasm_rand_uint8() and its siblings: the caches are used up from their  *)
(* ends.                                                                     *)
Draw(g, w) ==
    LET refill == g.cache[w].num = 0
        h == IF refill
             THEN [Prng(g, CacheSize) EXCEPT
                      !.cache[w] = [from |-> g.drawn * BlockSize, num |-> CacheSize \div w]]
             ELSE g
        left == h.cache[w].num - 1
    IN  [ gen   |-> [h EXCEPT !.cache[w].num = left],
          value |-> <<h.seed, h.cache[w].from + left * w, w>> ]

DrawTwo(g) ==
    LET first  == Draw(g, Word)
        second == Draw(first.gen, Word)
    IN  [ gen |-> second.gen, value |-> <<first.value, second.value>> ]

(* marsaglia(): pairs are drawn until one lies in the unit circle; its two    *)
(* variates are z1 and z2.                                                   *)
Marsaglia(g) ==
    LET try[k \in 0 .. MaxTries] == DrawTwo(IF k = 0 THEN g ELSE try[k - 1].gen)
        accepted == { k \in 0 .. MaxTries : try[k].value[1][2] \notin Rejected }
        t == try[Min(accepted)]
    IN  [ gen |-> t.gen, z1 |-> <<"z1", t.value>>, z2 |-> <<"z2", t.value>> ]

-----------------------------------------------------------------------------
(* checkasm_srand(): the numbers left in the caches are thrown away.         *)
SrandKeeping(g, s) ==  \* faulty: they are not
    [g EXCEPT !.seed = s, !.drawn = 0]
SrandOf(g, s) == Seeded(s)

Srand(s) == gen' = SrandOf(gen, s) /\ out' = <<>> /\ UNCHANGED norm

Rand(w) ==
    LET d == Draw(gen, w)
    IN  gen' = d.gen /\ out' = <<d.value>> /\ UNCHANGED norm

(* checkasm_randomize() and its masking variants fill a buffer directly.     *)
Randomize(size) ==
    /\ gen' = Prng(gen, size)
    /\ out' = <<<<gen.seed, gen.drawn * BlockSize, size>>>>
    /\ UNCHANGED norm

(* checkasm_rand_norm(): every other call returns the cached variate.        *)
RandNorm ==
    IF norm.cached
    THEN /\ norm' = [norm EXCEPT !.cached = FALSE]
         /\ out' = <<norm.cache>> /\ UNCHANGED gen
    ELSE LET m == Marsaglia(gen)
         IN  /\ gen' = m.gen
             /\ norm' = [cached |-> TRUE, cache |-> m.z2]
             /\ out' = <<m.z1>>

(* checkasm_randomize_norm() for two elements: no variate is left over.  An   *)
(* odd number of them begins with a checkasm_rand_norm().                    *)
RandomizeNorm ==
    LET m == Marsaglia(gen)
    IN  gen' = m.gen /\ out' = <<m.z1, m.z2>> /\ UNCHANGED norm

=============================================================================
