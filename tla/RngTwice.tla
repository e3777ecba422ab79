------------------------------ MODULE RngTwice ------------------------------
(***************************************************************************)
(* Two runs of the same test function, as the passes of two CPUs or a test   *)
(* and its rerun: run A drew other numbers before, run B is fresh.  Then     *)
(* both are seeded with the same seed and make the same calls.               *)
(***************************************************************************)
EXTENDS Rng

CONSTANTS
    Fills,          \* buffer sizes
    NormalsBefore,  \* run A also called checkasm_rand_norm() before
    MaxBefore,      \* calls of run A before the seeding
    MaxCalls        \* and of both runs after it

ASSUME FillsAssumption == Fills \subseteq Nat

VARIABLES
    genB, normB, outB,  \* those of run B; run A has gen, norm and out
    seeded,             \* both runs have called checkasm_srand()
    calls,              \* calls since the start or since the seeding
    used                \* bytes of the generator's output that run A used since then

B == INSTANCE Rng WITH gen <- genB, norm <- normB, out <- outB

varsB     == <<genB, normB, outB>>
twiceVars == <<vars, varsB, seeded, calls, used>>

TwiceInit == Init /\ B!Init /\ seeded = FALSE /\ calls = 0 /\ used = {}

(* The bytes behind integers and buffers, and behind a pair of variates.     *)
BytesOf(values) ==
    UNION { v[2] .. v[2] + v[3] - 1 : v \in { values[i] : i \in DOMAIN values } }
BytesOfPair(z) == BytesOf(z[2])

Both(callA, callB) == callA /\ IF seeded THEN callB ELSE UNCHANGED varsB

Integer(w) == Both(Rand(w), B!Rand(w)) /\ used' = used \cup BytesOf(out')
Fill(size) ==
    Both(Randomize(size), B!Randomize(size)) /\ used' = used \cup BytesOf(out')
TwoNormals ==
    Both(RandomizeNorm, B!RandomizeNorm) /\ used' = used \cup BytesOfPair(out'[1])
Normal ==
    /\ seeded \/ NormalsBefore
    /\ Both(RandNorm, B!RandNorm) /\ used' = used \cup BytesOfPair(out'[1])

Test ==
    /\ calls < (IF seeded THEN MaxCalls ELSE MaxBefore)
    /\ calls' = calls + 1 /\ UNCHANGED seeded
    /\ (\E w \in Widths : Integer(w)) \/ (\E n \in Fills : Fill(n)) \/ Normal \/ TwoNormals

Seed(s) ==
    /\ ~ seeded
    /\ Srand(s) /\ B!Srand(s)
    /\ seeded' = TRUE /\ calls' = 0 /\ used' = {}

Returned == seeded /\ calls = MaxCalls /\ UNCHANGED twiceVars

TwiceNext == Test \/ (\E s \in Seeds : Seed(s)) \/ Returned

TwiceSpec == TwiceInit /\ [][TwiceNext]_twiceVars

-----------------------------------------------------------------------------
(* The generator is "re-seeded at the start of each test case [...] so that   *)
(* different CPU flags see the same sequence of random numbers"              *)
(* (checkasm/utils.h:55): what was drawn before does not matter.             *)
SameNumbers == seeded => out = outB

(* No random byte is handed out twice, however draws of different widths and  *)
(* buffers are mixed: the caches never overlap each other or a buffer.       *)
NoByteTwice ==
    [][ Test =>
          /\ \A w \in Widths : Integer(w) => BytesOf(out') \cap used = {}
          /\ \A n \in Fills : Fill(n) => BytesOf(out') \cap used = {}
          /\ TwoNormals \/ (Normal /\ ~ norm.cached) =>
                BytesOfPair(out'[1]) \cap used = {} ]_twiceVars
=============================================================================
