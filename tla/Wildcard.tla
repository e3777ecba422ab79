------------------------------ MODULE Wildcard ------------------------------
(***************************************************************************)
(* wildstrcmp() (checkasm.c), which --test and --function select by, next to   *)
(* what a pattern means.  Strings are sequences of characters.               *)
(***************************************************************************)
EXTENDS Integers, FiniteSetsExt, Sequences

CONSTANTS
    Symbols,   \* characters
    Strings,   \* names of tests and functions
    Patterns,  \* patterns of the command line
    Star       \* the character *

ASSUME StringsAssumption ==
    Strings \subseteq Seq(Symbols) /\ Patterns \subseteq Seq(Symbols)

VARIABLE match  \* [str, pattern, equal] once they were compared

WildInit == match = << >>

IsPrefixOf(s, t) == Len(s) <= Len(t) /\ SubSeq(t, 1, Len(s)) = s
From(s, i) == SubSeq(s, i, Len(s))

(* The first * from i on, and the first character after a row of them.        *)
NextStar(p, i) ==
    LET stars == { k \in i .. Len(p) : p[k] = Star }
    IN  IF stars = {} THEN 0 ELSE Min(stars)
AfterStars(p, i) == Min({ k \in i .. Len(p) + 1 : k = Len(p) + 1 \/ p[k] # Star })

(* Where the search for the rest of the pattern begins and ends: it tries all  *)
(* that is left of the string but the empty rest.                            *)
TailsOnce(s, i) == {i} \cap 1 .. Len(s)  \* faulty: the rest is tried in one place only
Tails(s, i) == i .. Len(s)

(* wildstrcmp(str + i, pattern + j) = 0 for the i in equal[j].                 *)
MatchesFrom(str, pattern, equal, j) ==
    LET wild == NextStar(pattern, j)
        start == SubSeq(pattern, j, wild - 1)
        next == AfterStars(pattern, wild)
    IN  { i \in 1 .. Len(str) + 1 :
            IF wild = 0 THEN From(str, i) = From(pattern, j)
            ELSE /\ IsPrefixOf(start, From(str, i))
                 /\ next = Len(pattern) + 1 \/ \E k \in Tails(str, i + Len(start)) : k \in equal[next] }
EqualFrom(str, pattern) ==
    LET equal[j \in 1 .. Len(pattern) + 1] == MatchesFrom(str, pattern, equal, j) IN equal
WildStrCmp(str, pattern) == 1 \in EqualFrom(str, pattern)[1]

Compare ==
    /\ match = << >>
    /\ \E s \in Strings, p \in Patterns :
          match' = [str |-> s, pattern |-> p, equal |-> WildStrCmp(s, p)]
Compared == match # << >> /\ UNCHANGED match

WildNext == Compare
WildSpec == WildInit /\ [][WildNext \/ Compared]_match

-----------------------------------------------------------------------------
(* A pattern is a string in which each * stands for any text: its characters  *)
(* stand in the string in their order, and apart from the gaps that a * may    *)
(* fill one follows the other.  However many and wherever they are, at the    *)
(* ends or in a row, the matcher says so and stops (checkasm.c:523-540).      *)
Means(str, pattern) ==
    LET m == Len(pattern)
        at == [0 .. m -> 0 .. Len(str)]  \* how much of the string is used up
    IN  \E f \in at :
            /\ f[0] = 0 /\ f[m] = Len(str)
            /\ \A j \in 1 .. m :
                  IF pattern[j] = Star THEN f[j] >= f[j - 1]
                  ELSE f[j] = f[j - 1] + 1 /\ str[f[j]] = pattern[j]
MatchesAsMeant == match # << >> => match.equal = Means(match.str, match.pattern)
=============================================================================
