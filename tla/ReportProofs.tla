---------------------------- MODULE ReportProofs ----------------------------
(***************************************************************************)
(* What holds of the status line for every text it may show, any number of   *)
(* functions, failures and summaries, and any terminal; of the patterns that *)
(* select what is reported, for every string; and of the report in JSON,     *)
(* whatever it is about.                                                     *)
(***************************************************************************)
EXTENDS StatusLine, Wildcard, Report, SequenceTheorems, WellFoundedInduction, TLAPS

Texts == Reported \cup {NoName, "test"}
Screens ==
    [ statusline : Texts, visible : BOOLEAN,
      screen : {"clear", "status", "text", "mixed"}, shown : Texts ]

(* A terminal that is as the program believes, between two lines of output     *)
(* and within one; without a terminal there is no line.                      *)
Between(t) ==
    /\ t \in Screens
    /\ t.screen \in {"clear", "status"}
    /\ t.visible <=> t.screen = "status"
    /\ t.visible => use_color /\ t.shown = t.statusline /\ t.statusline # NoName
Within(t) == t \in Screens /\ t.screen = "text" /\ ~ t.visible
Cleared(t) == Between(t) /\ t.screen = "clear"

(* Where plain text is written there is no status line: before the first test, *)
(* after a failure until the next function, and after the summary.            *)
StatusInv ==
    /\ use_color \in BOOLEAN
    /\ Between(Terminal)
    /\ phase = "start" => statusline = NoName
    /\ phase = "check" /\ failed => screen = "clear"
    /\ phase = "summary" => screen = "clear"

-----------------------------------------------------------------------------
(* What the writers make of a terminal.                                      *)

(* Plain text needs a line without the status line (utils.c:477).             *)
LEMMA PutLine ==
    ASSUME NEW t, Cleared(t) \/ Within(t)
    PROVE  Cleared(Put(t, TRUE)) /\ Within(Put(t, FALSE)) /\ Put(t, TRUE).statusline = t.statusline
           /\ Put(t, FALSE).statusline = t.statusline
BY DEF Cleared, Within, Between, Put, Screens

LEMMA ClearLine ==
    ASSUME NEW t, Between(t)
    PROVE  Cleared(Clear(t)) /\ Clear(t).statusline = t.statusline
BY DEF Cleared, Between, Clear, Screens

LEMMA ShowLine ==
    ASSUME NEW t, Cleared(t), use_color, t.statusline # NoName
    PROVE  Between(Show(t)) /\ Show(t).statusline = t.statusline
BY DEF Cleared, Between, Show, Screens

(* checkasm_vfprintf() clears the line, writes, and restores the line if a     *)
(* newline ended what it wrote (utils.c:473-499).                            *)
LEMMA LogLine ==
    ASSUME use_color \in BOOLEAN, NEW t, Between(t) \/ Within(t)
    PROVE  /\ Between(Log(t, TRUE)) /\ Log(t, TRUE).statusline = t.statusline
           /\ Within(Log(t, FALSE)) /\ Log(t, FALSE).statusline = t.statusline
           /\ t.statusline = NoName \/ ~ use_color => Cleared(Log(t, TRUE))
<1> DEFINE u == IF t.visible THEN Clear(t) ELSE t
<1>1. Cleared(u) \/ Within(u)
  BY ClearLine DEF Cleared, Within, Between
<1>2. u.statusline = t.statusline
  BY ClearLine DEF Within
<1>3. ~ use_color => u = t
  BY DEF Within, Between
<1> HIDE DEF u
<1>4. Cleared(Put(u, TRUE)) /\ Within(Put(u, FALSE))
      /\ Put(u, TRUE).statusline = t.statusline /\ Put(u, FALSE).statusline = t.statusline
  BY <1>1, <1>2, PutLine
<1>5. CASE ~ use_color
  BY <1>3, <1>4, <1>5 DEF Log, Cleared
<1>6. CASE use_color
  <2>1. Log(t, FALSE) = Put(u, FALSE)
    BY <1>6 DEF Log, u
  <2>2. Log(t, TRUE) = IF t.statusline # NoName THEN Show(Put(u, TRUE)) ELSE Put(u, TRUE)
    BY <1>6 DEF Log, u
  <2>3. t.statusline # NoName => Between(Show(Put(u, TRUE))) /\ Show(Put(u, TRUE)).statusline = t.statusline
    BY <1>4, <1>6, ShowLine
  <2> QED
    BY <1>4, <1>6, <2>1, <2>2, <2>3 DEF Cleared
<1> QED
  BY <1>5, <1>6

(* checkasm_statusline() (utils.c:501-520).                                  *)
LEMMA SetLine ==
    ASSUME use_color \in BOOLEAN, NEW t, Between(t), NEW text \in Texts
    PROVE  /\ Between(SetStatus(t, text))
           /\ SetStatus(t, text).statusline = text \/ ~ use_color
<1> DEFINE u == [t EXCEPT !.statusline = text]
           new == IF t.visible THEN Clear(u) ELSE u
<1>1. Cleared(new) /\ new.statusline = text
  BY DEF Cleared, Between, Clear, Screens
<1>2. SetStatus(t, text) =
        IF ~ use_color \/ t.statusline = text THEN t
        ELSE IF text # NoName THEN Show(new) ELSE new
  BY DEF SetStatus, ClearOld, Between, Screens
<1> HIDE DEF new
<1>3. use_color /\ text # NoName => Between(Show(new)) /\ Show(new).statusline = text
  BY <1>1, ShowLine
<1> QED
  BY <1>1, <1>2, <1>3 DEF Cleared

-----------------------------------------------------------------------------
(* fail_internal() leaves nothing on the line, and no status line below        *)
(* (checkasm.c:1047-1063), and neither does a dump (utils.c:734).             *)
LEMMA AnnounceLine ==
    ASSUME use_color \in BOOLEAN, NEW t, Between(t), NEW cpu \in BOOLEAN
    PROVE  Cleared(Announce(t, cpu))
<1> DEFINE u == IF cpu THEN Log(t, TRUE) ELSE t
           v == Log(Log(u, FALSE), FALSE)
<1>1. Between(u)
  BY LogLine
<1> HIDE DEF u
<1>2. Within(v)
  BY <1>1, LogLine
<1> HIDE DEF v
<1>3. Announce(t, cpu) = Put(Put(v, FALSE), TRUE)
  BY DEF Announce, u, v
<1> QED
  BY <1>2, <1>3, PutLine

LEMMA DumpLine ==
    ASSUME use_color \in BOOLEAN, NEW t, Cleared(t)
    PROVE  Cleared(Dump(t))
BY PutLine, LogLine DEF Dump, Cleared

(* Every call of the runner leaves the terminal as the program believes it.    *)
LEMMA StatusStep ==
    ASSUME StatusInv, [StatusNext \/ StatusDone]_statusVars
    PROVE  StatusInv'
<1>0. ASSUME NEW t, Becomes(t), Between(t) PROVE Terminal' = t
  BY <1>0 DEF Becomes, Terminal, Between, Screens
<1>i. ASSUME NEW t, Becomes(t), Between(t), UNCHANGED modes
      PROVE  Between(Terminal)' /\ screen' = t.screen /\ use_color' \in BOOLEAN
  <2>1. Terminal' = t /\ screen' = t.screen /\ use_color' = use_color
    BY <1>i, <1>0 DEF Becomes, modes
  <2> QED
    BY <1>i, <2>1 DEF Between, StatusInv
<1>u. Between(Terminal) /\ use_color \in BOOLEAN
  BY DEF StatusInv
<1>1. CASE PrintInfo
  <2>1. Cleared(Log(Terminal, TRUE))
    BY <1>1, <1>u, LogLine DEF StatusInv, PrintInfo, Terminal
  <2>2. Between(Log(Put(Log(Terminal, TRUE), TRUE), TRUE))
    BY <2>1, <1>u, PutLine, LogLine DEF Cleared
  <2> QED
    BY <1>1, <1>i, <2>2 DEF PrintInfo, StatusInv
<1>2. CASE EnterTest
  <2>1. Between(SetStatus(Terminal, "test"))
    BY <1>u, SetLine DEF Texts
  <2> QED
    BY <1>2, <1>i, <2>1 DEF EnterTest, StatusInv
<1>3. ASSUME NEW n \in Reported \cup {"test"}, CheckFunction(n) PROVE StatusInv'
  <2>1. Between(SetStatus(Terminal, n))
    BY <1>u, SetLine DEF Texts
  <2> QED
    BY <1>3, <1>i, <2>1 DEF CheckFunction, StatusInv
<1>4. CASE FailCheck
  <2>1. PICK cpu \in BOOLEAN, dump \in BOOLEAN :
          LET told == IF failed THEN Terminal ELSE Announce(Terminal, cpu)
          IN  Becomes(IF verbose /\ dump THEN Dump(told) ELSE told)
    BY <1>4 DEF FailCheck
  <2> DEFINE told == IF failed THEN Terminal ELSE Announce(Terminal, cpu)
  <2>2. failed => Cleared(Terminal)
    BY <1>4, <1>u DEF FailCheck, StatusInv, Cleared, Terminal
  <2>3. Cleared(told)
    BY <1>u, <2>2, AnnounceLine
  <2> HIDE DEF told
  <2>4. PICK t : Becomes(t) /\ Cleared(t)
    BY <2>1, <2>3, <1>u, DumpLine DEF told
  <2> QED
    BY <1>4, <1>i, <2>4 DEF FailCheck, StatusInv, Cleared
<1>5. CASE PrintReport
  <2>1. Within(Log(Log(Log(Terminal, FALSE), FALSE), FALSE))
    BY <1>u, LogLine
  <2>2. Between(Log(Log(Log(Log(Terminal, FALSE), FALSE), FALSE), TRUE))
    BY <1>u, <2>1, LogLine
  <2> QED
    BY <1>5, <1>i, <2>2 DEF PrintReport, StatusInv
<1>6. CASE LeaveTest
  BY <1>6 DEF LeaveTest, StatusInv, modes, Terminal, Between
<1>7. CASE PrintSummary
  <2> DEFINE t == SetStatus(Terminal, NoName)
  <2>1. Between(t) /\ (t.statusline = NoName \/ ~ use_color)
    BY <1>u, SetLine DEF Texts
  <2> HIDE DEF t
  <2>2. Within(Log(t, FALSE)) /\ Log(t, FALSE).statusline = t.statusline
    BY <1>u, <2>1, LogLine
  <2>3. Cleared(Log(Log(t, FALSE), TRUE))
    BY <1>u, <2>1, <2>2, LogLine
  <2> QED
    BY <1>7, <1>i, <2>3 DEF PrintSummary, StatusInv, Cleared, t
<1>8. CASE PrintBenchmark
  <2>1. Cleared(Terminal)
    BY <1>8, <1>u DEF PrintBenchmark, StatusInv, Cleared, Terminal
  <2>2. Between(IF out_color THEN Put(Put(Terminal, FALSE), TRUE) ELSE Terminal)
    BY <2>1, PutLine DEF Cleared
  <2> QED
    BY <1>8, <1>i, <2>2 DEF PrintBenchmark, StatusInv
<1>9. CASE UNCHANGED statusVars
  BY <1>9 DEF statusVars, modes, StatusInv, Terminal, Between
<1> QED
  BY <1>1, <1>2, <1>3, <1>4, <1>5, <1>6, <1>7, <1>8, <1>9 DEF StatusNext, StatusDone

-----------------------------------------------------------------------------
(* No message is ever written behind the status line, and the line on the      *)
(* screen is the one the program believes is there (utils.c:473-520,          *)
(* checkasm.c:1047-1063, 816-844).                                           *)
THEOREM NothingIsMixed == StatusSpec => []ScreenIsAsNoted
<1>1. StatusInit => StatusInv
  BY DEF StatusInit, StatusInv, Terminal, Between, Screens, Texts
<1>2. StatusInv /\ [StatusNext \/ StatusDone]_statusVars => StatusInv'
  BY StatusStep
<1>3. StatusInv => ScreenIsAsNoted
  BY DEF StatusInv, ScreenIsAsNoted, Between, Terminal
<1> QED
  BY <1>1, <1>2, <1>3, PTL DEF StatusSpec

-----------------------------------------------------------------------------
(* Min takes the least element of a set of integers that is bounded below.   *)
LEMMA LeastElement ==
  ASSUME NEW S, NEW m \in Int, S \subseteq Int, \A i \in S : m <= i, S # {}
  PROVE  Min(S) \in S /\ \A i \in S : Min(S) <= i
<1> DEFINE T == { i - m : i \in S }
<1>0. T \subseteq Nat /\ T # {}
  <2>1. \A i \in S : i \in Int /\ m <= i
    OBVIOUS
  <2>2. \A i \in S : i - m \in Nat
    BY <2>1
  <2> QED
    BY <2>2
<1>1. IsWellFoundedOn(OpToRel(<, Nat), Nat)
  BY NatLessThanWellFounded
<1>2. PICK t \in T : \A u \in T : ~ (<<u, t>> \in OpToRel(<, Nat))
  BY <1>0, <1>1, WFMin
<1>3. PICK i \in S : t = i - m
  OBVIOUS
<1>4. \A j \in S : i <= j
  <2> TAKE j \in S
  <2>1. j - m \in Nat /\ t \in Nat /\ ~ (j - m < t)
    BY <1>0, <1>2 DEF OpToRel
  <2> QED
    BY <1>3, <2>1
<1> HIDE DEF T
<1> QED
  BY <1>4 DEF Min

(* Induction, of which the hypothesis is that a set holds what came before.    *)
LEMMA SetInduction ==
  ASSUME NEW S, \A n \in Nat : (\A k \in 0 .. n - 1 : k \in S) => n \in S
  PROVE  Nat \subseteq S
<1> DEFINE T == Nat \ S
<1> SUFFICES ASSUME T # {} PROVE FALSE
  OBVIOUS
<1>1. Min(T) \in T /\ \A i \in T : Min(T) <= i
  <2>1. T \subseteq Int /\ (\A i \in T : 0 <= i) /\ 0 \in Int
    OBVIOUS
  <2>2. T # {}
    OBVIOUS
  <2> HIDE DEF T
  <2> QED
    BY <2>1, <2>2, LeastElement
<1> DEFINE n == Min(T)
<1>2. n \in Nat /\ n \notin S
  BY <1>1
<1>3. \A k \in 0 .. n - 1 : k \in S
  <2> TAKE k \in 0 .. n - 1
  <2>1. k \in Nat /\ ~ (n <= k)
    BY <1>2
  <2> QED
    BY <1>1, <2>1
<1> QED
  BY <1>2, <1>3

-----------------------------------------------------------------------------
(* What the rest of a pattern after j of its characters means for the rest of  *)
(* a string after q.                                                         *)
Follows(str, pattern, f, l) ==
    IF pattern[l] = Star THEN f[l] >= f[l - 1]
    ELSE f[l] = f[l - 1] + 1 /\ str[f[l]] = pattern[l]
MeansAfter(str, pattern, q, j) ==
    LET m == Len(pattern)
    IN  \E f \in [j .. m -> 0 .. Len(str)] :
            /\ f[j] = q /\ f[m] = Len(str)
            /\ \A l \in j + 1 .. m : Follows(str, pattern, f, l)

(* Before the first character this is what the pattern means.                *)
LEMMA MeansAfterNothing ==
  ASSUME NEW str, NEW pattern, Len(pattern) \in Nat
  PROVE  Means(str, pattern) <=> MeansAfter(str, pattern, 0, 0)
<1>1. 0 + 1 = 1
  OBVIOUS
<1> QED
  BY <1>1, Zenon DEF Means, MeansAfter, Follows

(* After the last one nothing of the string may be left.                     *)
LEMMA MeansAfterAll ==
  ASSUME NEW str, NEW pattern, Len(pattern) \in Nat, Len(str) \in Nat, NEW q \in 0 .. Len(str)
  PROVE  MeansAfter(str, pattern, q, Len(pattern)) <=> q = Len(str)
<1> DEFINE m == Len(pattern)
           n == Len(str)
<1>1. MeansAfter(str, pattern, q, m) => q = n
  BY DEF MeansAfter
<1>2. ASSUME q = n PROVE MeansAfter(str, pattern, q, m)
  <2> DEFINE f == [l \in m .. m |-> n]
  <2>1. f \in [m .. m -> 0 .. n]
    OBVIOUS
  <2>2. f[m] = q /\ f[m] = n
    BY <1>2
  <2>3. m + 1 .. m = {}
    OBVIOUS
  <2> HIDE DEF f
  <2> QED
    BY <2>1, <2>2, <2>3 DEF MeansAfter
<1> QED
  BY <1>1, <1>2

(* One character of the pattern.                                             *)
LEMMA MeansAfterOneMore ==
  ASSUME NEW str, NEW pattern, Len(pattern) \in Nat, Len(str) \in Nat,
         NEW j \in 0 .. Len(pattern) - 1, NEW q \in 0 .. Len(str)
  PROVE  MeansAfter(str, pattern, q, j) <=>
             \E u \in 0 .. Len(str) :
                 /\ MeansAfter(str, pattern, u, j + 1)
                 /\ IF pattern[j + 1] = Star THEN u >= q
                    ELSE u = q + 1 /\ str[u] = pattern[j + 1]
<1> DEFINE m == Len(pattern)
           n == Len(str)
<1>1. ASSUME MeansAfter(str, pattern, q, j)
      PROVE  \E u \in 0 .. n :
                 /\ MeansAfter(str, pattern, u, j + 1)
                 /\ IF pattern[j + 1] = Star THEN u >= q
                    ELSE u = q + 1 /\ str[u] = pattern[j + 1]
  <2>1. PICK f \in [j .. m -> 0 .. n] :
            /\ f[j] = q /\ f[m] = n
            /\ \A l \in j + 1 .. m : Follows(str, pattern, f, l)
    BY <1>1 DEF MeansAfter
  <2> DEFINE g == [l \in j + 1 .. m |-> f[l]]
  <2>2. g \in [j + 1 .. m -> 0 .. n] /\ g[j + 1] = f[j + 1] /\ g[m] = n
    BY <2>1
  <2>3. \A l \in j + 1 + 1 .. m : Follows(str, pattern, g, l)
    <3> TAKE l \in j + 1 + 1 .. m
    <3>1. Follows(str, pattern, f, l)
      BY <2>1
    <3>2. g[l] = f[l] /\ g[l - 1] = f[l - 1]
      OBVIOUS
    <3> HIDE DEF g
    <3> QED
      BY <3>1, <3>2 DEF Follows
  <2>4. f[j + 1] \in 0 .. n
    OBVIOUS
  <2>5. MeansAfter(str, pattern, f[j + 1], j + 1)
    <3> HIDE DEF g
    <3> QED
      BY <2>2, <2>3 DEF MeansAfter
  <2>6. j + 1 \in j + 1 .. m /\ j + 1 - 1 = j
    OBVIOUS
  <2>7. Follows(str, pattern, f, j + 1)
    BY <2>1, <2>6
  <2> QED
    BY <2>1, <2>4, <2>5, <2>6, <2>7 DEF Follows
<1>2. ASSUME NEW u \in 0 .. n, MeansAfter(str, pattern, u, j + 1),
             IF pattern[j + 1] = Star THEN u >= q ELSE u = q + 1 /\ str[u] = pattern[j + 1]
      PROVE  MeansAfter(str, pattern, q, j)
  <2>1. PICK g \in [j + 1 .. m -> 0 .. n] :
            /\ g[j + 1] = u /\ g[m] = n
            /\ \A l \in j + 1 + 1 .. m : Follows(str, pattern, g, l)
    BY <1>2 DEF MeansAfter
  <2> DEFINE f == [l \in j .. m |-> IF l = j THEN q ELSE g[l]]
  <2>2. f \in [j .. m -> 0 .. n] /\ f[j] = q /\ f[m] = n /\ f[j + 1] = u
    BY <2>1
  <2>3. \A l \in j + 1 .. m : Follows(str, pattern, f, l)
    <3> TAKE l \in j + 1 .. m
    <3>1. CASE l = j + 1
      <4>1. f[l] = u /\ f[l - 1] = q /\ pattern[l] = pattern[j + 1]
        BY <2>2, <3>1
      <4> HIDE DEF f
      <4> QED
        BY <1>2, <3>1, <4>1 DEF Follows
    <3>2. CASE l # j + 1
      <4>1. l \in j + 1 + 1 .. m /\ f[l] = g[l] /\ f[l - 1] = g[l - 1]
        BY <3>2
      <4> HIDE DEF f
      <4> QED
        BY <2>1, <4>1 DEF Follows
    <3> QED
      BY <3>1, <3>2
  <2> HIDE DEF f
  <2> QED
    BY <2>2, <2>3 DEF MeansAfter
<1> QED
  BY <1>1, <1>2

(* Some characters of the pattern, none of them a *.                          *)
LEMMA MeansAfterCharacters ==
  ASSUME NEW str, NEW pattern, Len(pattern) \in Nat, Len(str) \in Nat,
         NEW j \in 0 .. Len(pattern), NEW q \in 0 .. Len(str), NEW d \in Nat,
         j + d <= Len(pattern), \A c \in 1 .. d : pattern[j + c] # Star
  PROVE  MeansAfter(str, pattern, q, j) <=>
             /\ q + d <= Len(str) /\ \A c \in 1 .. d : str[q + c] = pattern[j + c]
             /\ MeansAfter(str, pattern, q + d, j + d)
<1> DEFINE m == Len(pattern)
           n == Len(str)
           Claim(e) ==
               MeansAfter(str, pattern, q, j) <=>
                   /\ q + e <= n /\ \A c \in 1 .. e : str[q + c] = pattern[j + c]
                   /\ MeansAfter(str, pattern, q + e, j + e)
           S == { e \in Nat : e <= d => Claim(e) }
<1>1. ASSUME NEW e \in Nat, \A k \in 0 .. e - 1 : k \in S, e <= d
      PROVE  Claim(e)
  <2>1. CASE e = 0
    <3>1. q + e = q /\ j + e = j /\ 1 .. e = {} /\ q <= n
      BY <2>1
    <3> QED
      BY <3>1
  <2>2. CASE e > 0
    <3> DEFINE k == e - 1
    <3>1. k \in 0 .. e - 1 /\ k \in Nat /\ k <= d
      BY <1>1, <2>2
    <3>2. Claim(k)
      BY <1>1, <3>1
    <3>3. ASSUME q + k <= n
          PROVE  MeansAfter(str, pattern, q + k, j + k) <=>
                     /\ q + e <= n /\ str[q + e] = pattern[j + e]
                     /\ MeansAfter(str, pattern, q + e, j + e)
      <4>1. q + k \in 0 .. n /\ j + k \in 0 .. m - 1 /\ j + k + 1 = j + e /\ q + k + 1 = q + e
        BY <1>1, <2>2, <3>3
      <4>2. pattern[j + e] # Star
        <5>1. e \in 1 .. d
          BY <1>1, <2>2
        <5> QED
          BY <5>1
      <4>3. MeansAfter(str, pattern, q + k, j + k) <=>
                \E u \in 0 .. n : /\ MeansAfter(str, pattern, u, j + e)
                                 /\ u = q + e /\ str[u] = pattern[j + e]
        <5> HIDE DEF k
        <5> QED
          BY <4>1, <4>2, MeansAfterOneMore
      <4>4. q + e <= n <=> q + e \in 0 .. n
        BY <1>1
      <4> HIDE DEF k
      <4> QED
        BY <4>3, <4>4
    <3>4. (\A c \in 1 .. e : str[q + c] = pattern[j + c]) <=>
              (\A c \in 1 .. k : str[q + c] = pattern[j + c]) /\ str[q + e] = pattern[j + e]
      <4>1. 1 .. e = (1 .. k) \cup {e}
        BY <2>2
      <4> HIDE DEF k
      <4> QED
        BY <4>1
    <3>5. q + e <= n => q + k <= n
      BY <2>2
    <3> HIDE DEF k
    <3> QED
      BY <3>2, <3>3, <3>4, <3>5
  <2> QED
    BY <1>1, <2>1, <2>2
<1>2. \A e \in Nat : (\A k \in 0 .. e - 1 : k \in S) => e \in S
  BY <1>1
<1>3. Nat \subseteq S
  <2> HIDE DEF S
  <2> QED
    BY <1>2, SetInduction
<1>4. d \in S
  BY <1>3
<1> QED
  BY <1>4

(* And some, all of them *.                                                  *)
LEMMA MeansAfterStars ==
  ASSUME NEW str, NEW pattern, Len(pattern) \in Nat, Len(str) \in Nat,
         NEW j \in 0 .. Len(pattern), NEW q \in 0 .. Len(str), NEW d \in Nat \ {0},
         j + d <= Len(pattern), \A c \in 1 .. d : pattern[j + c] = Star
  PROVE  MeansAfter(str, pattern, q, j) <=>
             \E u \in q .. Len(str) : MeansAfter(str, pattern, u, j + d)
<1> DEFINE m == Len(pattern)
           n == Len(str)
           Claim(e) ==
               MeansAfter(str, pattern, q, j) <=> \E u \in q .. n : MeansAfter(str, pattern, u, j + e)
           S == { e \in Nat : e > 0 /\ e <= d => Claim(e) }
<1>1. ASSUME NEW k \in Nat, k < d, NEW v \in 0 .. n
      PROVE  MeansAfter(str, pattern, v, j + k) <=>
                 \E u \in v .. n : MeansAfter(str, pattern, u, j + k + 1)
  <2>1. j + k \in 0 .. m - 1 /\ k + 1 \in 1 .. d /\ j + (k + 1) = j + k + 1
    BY <1>1
  <2>2. pattern[j + k + 1] = Star
    <3> DEFINE x == k + 1
    <3>1. x \in 1 .. d /\ j + x = j + k + 1
      BY <2>1
    <3> HIDE DEF x
    <3>2. pattern[j + x] = Star
      BY <3>1
    <3> QED
      BY <3>1, <3>2
  <2>3. MeansAfter(str, pattern, v, j + k) <=>
            \E u \in 0 .. n : MeansAfter(str, pattern, u, j + k + 1) /\ u >= v
    BY <2>1, <2>2, MeansAfterOneMore
  <2>4. \A u : u \in v .. n <=> u \in 0 .. n /\ u >= v
    BY <1>1
  <2> QED
    BY <2>3, <2>4
<1>2. ASSUME NEW e \in Nat, \A k \in 0 .. e - 1 : k \in S, e > 0, e <= d
      PROVE  Claim(e)
  <2> DEFINE k == e - 1
  <2>1. k \in Nat /\ k < d /\ j + k + 1 = j + e /\ k \in 0 .. e - 1
    BY <1>2
  <2>2. \A v \in 0 .. n : MeansAfter(str, pattern, v, j + k) <=>
            \E u \in v .. n : MeansAfter(str, pattern, u, j + e)
    BY <1>1, <2>1
  <2>3. CASE k = 0
    <3>1. j + k = j
      BY <2>3
    <3> HIDE DEF k
    <3> QED
      BY <2>2, <3>1
  <2>4. CASE k > 0
    <3>1. MeansAfter(str, pattern, q, j) <=> \E v \in q .. n : MeansAfter(str, pattern, v, j + k)
      <4>1. k \in S /\ k > 0 /\ k <= d
        BY <1>2, <2>1, <2>4
      <4> HIDE DEF k
      <4> QED
        BY <4>1
    <3>2. ASSUME NEW v \in q .. n, NEW u \in v .. n PROVE v \in 0 .. n /\ u \in q .. n
      OBVIOUS
    <3>3. ASSUME NEW u \in q .. n PROVE u \in u .. n /\ u \in 0 .. n
      OBVIOUS
    <3> HIDE DEF k
    <3>4. (\E v \in q .. n : MeansAfter(str, pattern, v, j + k)) =>
              \E u \in q .. n : MeansAfter(str, pattern, u, j + e)
      BY <2>2, <3>2
    <3>5. (\E u \in q .. n : MeansAfter(str, pattern, u, j + e)) =>
              \E v \in q .. n : MeansAfter(str, pattern, v, j + k)
      BY <2>2, <3>3
    <3> QED
      BY <3>1, <3>4, <3>5
  <2> QED
    BY <2>1, <2>3, <2>4
<1>3. \A e \in Nat : (\A k \in 0 .. e - 1 : k \in S) => e \in S
  BY <1>2
<1>4. Nat \subseteq S
  <2> HIDE DEF S
  <2> QED
    BY <1>3, SetInduction
<1>5. d \in S
  BY <1>4
<1> QED
  BY <1>5

-----------------------------------------------------------------------------
(* What the matcher compares.                                                *)
LEMMA PartOf ==
  ASSUME NEW s \in Seq(Symbols), NEW a \in 1 .. Len(s) + 1, NEW b \in a - 1 .. Len(s)
  PROVE  /\ SubSeq(s, a, b) \in Seq(Symbols)
         /\ Len(SubSeq(s, a, b)) = b - a + 1
         /\ \A c \in 1 .. b - a + 1 : SubSeq(s, a, b)[c] = s[a - 1 + c]
<1>1. /\ SubSeq(s, a, b) \in Seq(Symbols)
      /\ Len(SubSeq(s, a, b)) = IF a <= b THEN b - a + 1 ELSE 0
      /\ \A c \in 1 .. b - a + 1 : SubSeq(s, a, b)[c] = s[a + c - 1]
  <2>1. \A c \in a .. b : s[c] \in Symbols
    OBVIOUS
  <2> QED
    BY <2>1, SubSeqProperties
<1>2. \A c \in 1 .. b - a + 1 : a + c - 1 = a - 1 + c
  OBVIOUS
<1> QED
  BY <1>1, <1>2

(* strcmp() of the rests of the two strings, character by character.         *)
LEMMA RestsAreEqual ==
  ASSUME NEW str \in Seq(Symbols), NEW pattern \in Seq(Symbols),
         NEW i \in 1 .. Len(str) + 1, NEW j \in 1 .. Len(pattern) + 1
  PROVE  From(str, i) = From(pattern, j) <=>
             /\ Len(str) - i = Len(pattern) - j
             /\ \A c \in 1 .. Len(pattern) - j + 1 : str[i - 1 + c] = pattern[j - 1 + c]
<1> DEFINE x == From(str, i)
           y == From(pattern, j)
           d == Len(pattern) - j + 1
           e == Len(str) - i + 1
<1>1. /\ x \in Seq(Symbols) /\ Len(x) = e /\ \A c \in 1 .. e : x[c] = str[i - 1 + c]
  BY PartOf DEF From
<1>2. /\ y \in Seq(Symbols) /\ Len(y) = d /\ \A c \in 1 .. d : y[c] = pattern[j - 1 + c]
  BY PartOf DEF From
<1>3. x = y <=> e = d /\ \A c \in 1 .. d : x[c] = y[c]
  <2> HIDE DEF x, y
  <2>1. e = d /\ (\A c \in 1 .. d : x[c] = y[c]) => x = y
    BY <1>1, <1>2, SeqEqual
  <2> QED
    BY <1>1, <1>2, <2>1
<1>4. e = d <=> Len(str) - i = Len(pattern) - j
  OBVIOUS
<1> HIDE DEF x, y
<1> QED
  BY <1>1, <1>2, <1>3, <1>4 DEF x, y

(* strncmp() of the characters before a *, which fails where the string      *)
(* ends first.                                                               *)
LEMMA StartIsEqual ==
  ASSUME NEW str \in Seq(Symbols), NEW pattern \in Seq(Symbols), NEW i \in 1 .. Len(str) + 1,
         NEW j \in 1 .. Len(pattern), NEW wild \in j .. Len(pattern)
  PROVE  /\ Len(SubSeq(pattern, j, wild - 1)) = wild - j
         /\ IsPrefixOf(SubSeq(pattern, j, wild - 1), From(str, i)) <=>
                /\ i - 1 + (wild - j) <= Len(str)
                /\ \A c \in 1 .. wild - j : str[i - 1 + c] = pattern[j - 1 + c]
<1> DEFINE x == From(str, i)
           y == SubSeq(pattern, j, wild - 1)
           d == wild - j
           e == Len(str) - i + 1
<1>1. /\ x \in Seq(Symbols) /\ Len(x) = e /\ \A c \in 1 .. e : x[c] = str[i - 1 + c]
  BY PartOf DEF From
<1>2. /\ y \in Seq(Symbols) /\ Len(y) = d /\ \A c \in 1 .. d : y[c] = pattern[j - 1 + c]
  <2>1. wild - 1 \in j - 1 .. Len(pattern) /\ wild - 1 - j + 1 = d /\ j \in 1 .. Len(pattern) + 1
    OBVIOUS
  <2> HIDE DEF d
  <2> QED
    BY <2>1, PartOf
<1>3. ASSUME d <= e
      PROVE  SubSeq(x, 1, d) = y <=> \A c \in 1 .. d : x[c] = y[c]
  <2> DEFINE z == SubSeq(x, 1, d)
  <2>1. /\ z \in Seq(Symbols) /\ Len(z) = d /\ \A c \in 1 .. d : z[c] = x[c]
    <3>1. 1 \in 1 .. Len(x) + 1 /\ d \in 1 - 1 .. Len(x) /\ d - 1 + 1 = d
      BY <1>1, <1>3
    <3>2. \A c \in 1 .. d : 1 - 1 + c = c
      OBVIOUS
    <3> HIDE DEF x, d
    <3> QED
      BY <1>1, <3>1, <3>2, PartOf
  <2> HIDE DEF x, y, z, d
  <2>2. (\A c \in 1 .. d : x[c] = y[c]) => z = y
    BY <1>2, <2>1, SeqEqual
  <2> QED
    BY <1>2, <2>1, <2>2 DEF z
<1>4. d <= e <=> i - 1 + d <= Len(str)
  OBVIOUS
<1>5. d <= e => \A c \in 1 .. d : c \in 1 .. e
  OBVIOUS
<1> HIDE DEF x, y, d, e
<1>6. IsPrefixOf(y, x) <=> d <= e /\ SubSeq(x, 1, d) = y
  BY <1>1, <1>2 DEF IsPrefixOf
<1>7. IsPrefixOf(y, x) <=>
          i - 1 + d <= Len(str) /\ \A c \in 1 .. d : str[i - 1 + c] = pattern[j - 1 + c]
  BY <1>1, <1>2, <1>3, <1>4, <1>5, <1>6
<1> QED
  BY <1>2, <1>7 DEF x, y, d

(* The next *, and the first character after a row of them.                  *)
LEMMA StarComes ==
  ASSUME NEW p, Len(p) \in Nat, NEW j \in 1 .. Len(p) + 1
  PROVE  LET wild == NextStar(p, j)
             next == AfterStars(p, wild)
         IN  \/ wild = 0 /\ \A k \in j .. Len(p) : p[k] # Star
             \/ /\ wild \in j .. Len(p) /\ \A k \in j .. wild - 1 : p[k] # Star
                /\ next \in wild + 1 .. Len(p) + 1 /\ \A k \in wild .. next - 1 : p[k] = Star
                /\ next # Len(p) + 1 => p[next] # Star
<1> DEFINE m == Len(p)
           stars == { k \in j .. m : p[k] = Star }
           wild == NextStar(p, j)
           others == { k \in wild .. m + 1 : k = m + 1 \/ p[k] # Star }
           next == AfterStars(p, wild)
<1>1. CASE stars = {}
  BY <1>1 DEF NextStar
<1>2. CASE stars # {}
  <2>1. wild = Min(stars)
    BY <1>2 DEF NextStar
  <2>2. wild \in stars /\ \A k \in stars : wild <= k
    <3>1. stars \subseteq Int /\ (\A k \in stars : j <= k) /\ j \in Int
      OBVIOUS
    <3> HIDE DEF stars, wild
    <3> QED
      BY <1>2, <2>1, <3>1, LeastElement
  <2>3. wild \in j .. m /\ p[wild] = Star
    BY <2>2
  <2>4. \A k \in j .. wild - 1 : p[k] # Star
    <3> HIDE DEF wild
    <3> QED
      BY <2>2, <2>3
  <2>5. next = Min(others)
    BY DEF AfterStars
  <2> HIDE DEF wild
  <2>6. next \in others /\ \A k \in others : next <= k
    <3>1. others \subseteq Int /\ (\A k \in others : wild <= k) /\ wild \in Int /\ m + 1 \in others
      BY <2>3
    <3> HIDE DEF others, next
    <3> QED
      BY <2>5, <3>1, LeastElement
  <2> HIDE DEF next
  <2>7. next \in wild .. m + 1 /\ (next # m + 1 => p[next] # Star)
    BY <2>6
  <2>8. next # wild
    BY <2>3, <2>7
  <2>9. \A k \in wild .. next - 1 : p[k] = Star
    BY <2>3, <2>6, <2>7
  <2> QED
    BY <2>3, <2>4, <2>7, <2>8, <2>9 DEF wild, next
<1> QED
  BY <1>1, <1>2

-----------------------------------------------------------------------------
(* The matcher of the rest of a pattern rests on those of shorter rests.       *)
LEMMA ShorterRests ==
  ASSUME NEW str, NEW p, Len(p) \in Nat, NEW j \in 1 .. Len(p) + 1, NEW f, NEW g,
         \A l \in j + 1 .. Len(p) + 1 : f[l] = g[l]
  PROVE  MatchesFrom(str, p, f, j) = MatchesFrom(str, p, g, j)
<1> DEFINE wild == NextStar(p, j)
           start == SubSeq(p, j, wild - 1)
           next == AfterStars(p, wild)
<1>1. CASE wild = 0
  BY <1>1 DEF MatchesFrom
<1>2. CASE wild # 0
  <2>1. wild \in j .. Len(p) /\ next \in wild + 1 .. Len(p) + 1
    BY <1>2, StarComes
  <2>2. next \in j + 1 .. Len(p) + 1
    <3> HIDE DEF wild, next
    <3> QED
      BY <2>1
  <2>3. f[next] = g[next]
    BY <2>2
  <2> QED
    BY <2>3 DEF MatchesFrom
<1> QED
  BY <1>1, <1>2

(* The places from which the matcher finds a match, defined by recursion     *)
(* over the pattern from its end, exist for every pattern.                   *)
LEMMA EqualFromIs ==
  ASSUME NEW str, NEW p, Len(p) \in Nat
  PROVE  \A j \in 1 .. Len(p) + 1 :
             EqualFrom(str, p)[j] = MatchesFrom(str, p, EqualFrom(str, p), j)
<1> DEFINE m == Len(p)
           J == 1 .. m + 1
           D == SUBSET (1 .. Len(str) + 1)
           Up(f, t) == \A j \in J : j > m + 1 - t => f[j] = MatchesFrom(str, p, f, j)
           S == { t \in Nat : \E f \in [J -> D] : Up(f, t) }
<1>1. ASSUME NEW t \in Nat, \A k \in 0 .. t - 1 : k \in S
      PROVE  \E f \in [J -> D] : Up(f, t)
  <2>1. CASE t = 0
    <3> DEFINE f == [j \in J |-> {}]
    <3>1. f \in [J -> D]
      OBVIOUS
    <3>2. Up(f, t)
      BY <2>1
    <3> QED
      BY <3>1, <3>2
  <2>2. CASE t > 0
    <3> DEFINE j0 == m + 2 - t
    <3>1. t - 1 \in S
      BY <1>1, <2>2
    <3>2. PICK f \in [J -> D] : Up(f, t - 1)
      BY <3>1
    <3>3. j0 \in Int /\ m + 1 - (t - 1) = j0 /\ m + 1 - t = j0 - 1
      OBVIOUS
    <3>4. \A j \in J : j > j0 => f[j] = MatchesFrom(str, p, f, j)
      BY <3>2, <3>3
    <3> HIDE DEF j0
    <3>5. CASE j0 \notin J
      <4>1. \A j \in J : j > j0 - 1 => j > j0
        BY <3>3, <3>5
      <4> QED
        BY <3>3, <3>4, <4>1
    <3>6. CASE j0 \in J
      <4> DEFINE g == [f EXCEPT ![j0] = MatchesFrom(str, p, f, j0)]
      <4>1. MatchesFrom(str, p, f, j0) \in D
        BY DEF MatchesFrom
      <4>2. g \in [J -> D] /\ g[j0] = MatchesFrom(str, p, f, j0) /\ \A j \in J : j > j0 => g[j] = f[j]
        BY <3>3, <3>6, <4>1
      <4> HIDE DEF g
      <4>3. ASSUME NEW j \in J, j > j0 - 1
            PROVE  g[j] = MatchesFrom(str, p, g, j)
        <5>1. \A l \in j + 1 .. m + 1 : f[l] = g[l]
          BY <3>3, <4>2, <4>3
        <5>2. MatchesFrom(str, p, f, j) = MatchesFrom(str, p, g, j)
          BY <5>1, ShorterRests
        <5>3. j = j0 \/ j > j0
          BY <3>3, <4>3
        <5> QED
          BY <3>4, <4>2, <5>2, <5>3
      <4>4. Up(g, t)
        BY <3>3, <4>3
      <4> QED
        BY <4>2, <4>4
    <3> QED
      BY <3>5, <3>6
  <2> QED
    BY <2>1, <2>2
<1>2. \A t \in Nat : (\A k \in 0 .. t - 1 : k \in S) => t \in S
  BY <1>1
<1>3. Nat \subseteq S
  <2> HIDE DEF S
  <2> QED
    BY <1>2, SetInduction
<1>4. m + 1 \in S
  <2>1. m + 1 \in Nat
    OBVIOUS
  <2> HIDE DEF S
  <2> QED
    BY <1>3, <2>1
<1>5. PICK f \in [J -> D] : Up(f, m + 1)
  BY <1>4
<1>6. f = [j \in J |-> MatchesFrom(str, p, f, j)]
  <2>1. \A j \in J : j > m + 1 - (m + 1)
    OBVIOUS
  <2>2. \A j \in J : f[j] = MatchesFrom(str, p, f, j)
    BY <1>5, <2>1
  <2> QED
    BY <2>2
<1>7. EqualFrom(str, p) = CHOOSE e : e = [j \in J |-> MatchesFrom(str, p, e, j)]
  BY DEF EqualFrom
<1> DEFINE e == EqualFrom(str, p)
<1>8. e = [j \in J |-> MatchesFrom(str, p, e, j)]
  BY <1>6, <1>7
<1> HIDE DEF e
<1>9. \A j \in J : e[j] = MatchesFrom(str, p, e, j)
  BY <1>8
<1> QED
  BY <1>9 DEF e

(* By induction over what is left of the pattern, the matcher finds a match  *)
(* from a place if and only if the rest of the pattern means the rest of     *)
(* the string; that it never tries the empty rest after a * loses nothing,   *)
(* as a pattern that goes on after its last * wants a character.             *)
LEMMA MatcherIsRight ==
  ASSUME NEW str \in Seq(Symbols), NEW p \in Seq(Symbols)
  PROVE  WildStrCmp(str, p) <=> Means(str, p)
<1> DEFINE m == Len(p)
           n == Len(str)
           equal == EqualFrom(str, p)
           Right(j) == \A i \in 1 .. n + 1 : i \in equal[j] <=> MeansAfter(str, p, i - 1, j - 1)
           S == { t \in Nat : m + 1 - t \in 1 .. m + 1 => Right(m + 1 - t) }
<1>1. m \in Nat /\ n \in Nat
  OBVIOUS
<1>2. ASSUME NEW j \in 1 .. m + 1, \A l \in j + 1 .. m + 1 : Right(l)
      PROVE  Right(j)
  <2> DEFINE wild == NextStar(p, j)
             start == SubSeq(p, j, wild - 1)
             next == AfterStars(p, wild)
  <2> SUFFICES ASSUME NEW i \in 1 .. n + 1
               PROVE  i \in equal[j] <=> MeansAfter(str, p, i - 1, j - 1)
    OBVIOUS
  <2>1. i \in equal[j] <=>
            IF wild = 0 THEN From(str, i) = From(p, j)
            ELSE /\ IsPrefixOf(start, From(str, i))
                 /\ next = m + 1 \/ \E k \in Tails(str, i + Len(start)) : k \in equal[next]
    <3>1. equal[j] = MatchesFrom(str, p, equal, j)
      BY <1>1, EqualFromIs
    <3> HIDE DEF equal
    <3> QED
      BY <3>1 DEF MatchesFrom
  <2>2. i - 1 \in 0 .. n /\ j - 1 \in 0 .. m
    BY <1>1
  <2>3. CASE wild = 0
    <3> DEFINE d == m - j + 1
    <3>1. d \in Nat /\ j - 1 + d = m
      BY <1>1
    <3>2. \A c \in 1 .. d : p[j - 1 + c] # Star
      <4>1. \A k \in j .. m : p[k] # Star
        BY <1>1, <2>3, StarComes
      <4>2. \A c \in 1 .. d : j - 1 + c \in j .. m
        BY <1>1
      <4> QED
        BY <4>1, <4>2
    <3>3. MeansAfter(str, p, i - 1, j - 1) <=>
              /\ i - 1 + d <= n /\ \A c \in 1 .. d : str[i - 1 + c] = p[j - 1 + c]
              /\ MeansAfter(str, p, i - 1 + d, m)
      <4> DEFINE q == i - 1
                 l == j - 1
      <4>1. q \in 0 .. n /\ l \in 0 .. m /\ l + d = m /\ \A c \in 1 .. d : p[l + c] # Star
        BY <2>2, <3>1, <3>2
      <4> HIDE DEF q, l, d
      <4>2. MeansAfter(str, p, q, l) <=>
              /\ q + d <= n /\ \A c \in 1 .. d : str[q + c] = p[l + c]
              /\ MeansAfter(str, p, q + d, m)
        <5>1. d \in Nat /\ l + d <= m
          BY <1>1, <3>1, <4>1
        <5>2. MeansAfter(str, p, q, l) <=>
                /\ q + d <= n /\ \A c \in 1 .. d : str[q + c] = p[l + c]
                /\ MeansAfter(str, p, q + d, l + d)
          BY <1>1, <4>1, <5>1, MeansAfterCharacters, Zenon
        <5> QED
          BY <4>1, <5>2
      <4> QED
        BY <4>2 DEF q, l
    <3>4. i - 1 + d <= n => (MeansAfter(str, p, i - 1 + d, m) <=> i - 1 + d = n)
      <4> DEFINE v == i - 1 + d
      <4> SUFFICES ASSUME v <= n PROVE MeansAfter(str, p, v, m) <=> v = n
        OBVIOUS
      <4>1. v \in 0 .. n
        BY <1>1, <2>2, <3>1
      <4> HIDE DEF v
      <4> QED
        BY <1>1, <4>1, MeansAfterAll
    <3>5. From(str, i) = From(p, j) <=>
              n - i = m - j /\ \A c \in 1 .. d : str[i - 1 + c] = p[j - 1 + c]
      <4>1. str \in Seq(Symbols) /\ p \in Seq(Symbols) /\ i \in 1 .. Len(str) + 1 /\ j \in 1 .. Len(p) + 1
        OBVIOUS
      <4> QED
        BY <4>1, RestsAreEqual, Zenon
    <3>6. n - i = m - j <=> i - 1 + d = n
      BY <1>1
    <3>7. i - 1 + d = n => i - 1 + d <= n
      BY <1>1
    <3> HIDE DEF d
    <3> QED
      BY <2>1, <2>3, <3>3, <3>4, <3>5, <3>6, <3>7
  <2>4. CASE wild # 0
    <3>1. /\ wild \in j .. m /\ \A k \in j .. wild - 1 : p[k] # Star
          /\ next \in wild + 1 .. m + 1 /\ \A k \in wild .. next - 1 : p[k] = Star
          /\ next # m + 1 => p[next] # Star
      BY <1>1, <2>4, StarComes
    <3>2. /\ Len(start) = wild - j
          /\ IsPrefixOf(start, From(str, i)) <=>
                 /\ i - 1 + (wild - j) <= n
                 /\ \A c \in 1 .. wild - j : str[i - 1 + c] = p[j - 1 + c]
      <4>1. j \in 1 .. m
        BY <1>1, <3>1
      <4> HIDE DEF wild
      <4> QED
        <5>1. str \in Seq(Symbols) /\ p \in Seq(Symbols) /\ i \in 1 .. Len(str) + 1 /\ wild \in j .. Len(p)
          BY <3>1
        <5> QED
          BY <4>1, <5>1, StartIsEqual, Zenon
    <3> DEFINE d == wild - j
               q == i - 1
               u == q + d
               l == j - 1
               e == next - wild
    <3>3. d \in Nat /\ l + d = wild - 1 /\ e \in Nat \ {0} /\ wild - 1 + e = next - 1 /\ i + d = u + 1
      <4> HIDE DEF wild, next
      <4> QED
        BY <1>1, <3>1
    <3>4. MeansAfter(str, p, q, l) <=>
              /\ u <= n /\ \A c \in 1 .. d : str[q + c] = p[l + c]
              /\ MeansAfter(str, p, u, wild - 1)
      <4>1. \A c \in 1 .. d : p[l + c] # Star
        <5> HIDE DEF wild
        <5>1. \A c \in 1 .. d : l + c \in j .. wild - 1
          BY <1>1, <3>1
        <5> QED
          BY <3>1, <5>1
      <4>2. q \in 0 .. n /\ l \in 0 .. m
        BY <2>2
      <4>3. l + d <= m
        <5> HIDE DEF wild, l, d
        <5> QED
          BY <1>1, <3>1, <3>3
      <4> HIDE DEF d, q, l, wild
      <4> QED
        <5>1. MeansAfter(str, p, q, l) <=>
                /\ q + d <= n /\ \A c \in 1 .. d : str[q + c] = p[l + c]
                /\ MeansAfter(str, p, q + d, l + d)
          BY <1>1, <3>3, <4>1, <4>2, <4>3, MeansAfterCharacters, Zenon
        <5> QED
          BY <3>3, <5>1
    <3>5. ASSUME u <= n
          PROVE  MeansAfter(str, p, u, wild - 1) <=> \E v \in u .. n : MeansAfter(str, p, v, next - 1)
      <4> DEFINE w == wild - 1
      <4>1. \A c \in 1 .. e : p[w + c] = Star
        <5> HIDE DEF wild, next
        <5>1. \A c \in 1 .. e : w + c \in wild .. next - 1
          BY <1>1, <3>1
        <5> QED
          BY <3>1, <5>1
      <4>2. u \in 0 .. n
        <5> HIDE DEF d
        <5> QED
          BY <1>1, <2>2, <3>3, <3>5
      <4>3. w \in 0 .. m /\ w + e = next - 1 /\ next - 1 <= m
        <5> HIDE DEF wild, next, e
        <5> QED
          BY <1>1, <3>1, <3>3
      <4> HIDE DEF u, e, w, next
      <4> QED
        BY <1>1, <3>3, <4>1, <4>2, <4>3, MeansAfterStars DEF w
    <3>6. u \in Nat
      <4> HIDE DEF d
      <4> QED
        BY <2>2, <3>3
    <3>7. ASSUME u <= n
          PROVE  (next = m + 1 \/ \E k \in Tails(str, u + 1) : k \in equal[next]) <=>
                     \E v \in u .. n : MeansAfter(str, p, v, next - 1)
      <4> HIDE DEF wild, d, u
      <4>1. CASE next = m + 1
        <5>1. n \in u .. n /\ n \in 0 .. n /\ next - 1 = m
          BY <1>1, <3>6, <3>7, <4>1
        <5>2. MeansAfter(str, p, n, m)
          BY <1>1, <5>1, MeansAfterAll
        <5> QED
          BY <4>1, <5>1, <5>2
      <4>2. CASE next # m + 1
        <5>1. next \in j + 1 .. m + 1 /\ next - 1 \in 0 .. m - 1 /\ next - 1 + 1 = next /\ p[next] # Star
          <6> HIDE DEF next
          <6> QED
            BY <1>1, <3>1, <4>2
        <5>2. Right(next)
          BY <1>2, <5>1
        <5>3. ~ MeansAfter(str, p, n, next - 1)
          <6> DEFINE w == next - 1
          <6>1. w \in 0 .. m - 1 /\ p[w + 1] # Star /\ n \in 0 .. n
            BY <1>1, <5>1
          <6> HIDE DEF w
          <6>2. MeansAfter(str, p, n, w) =>
                    \E v \in 0 .. n : v = n + 1
            BY <1>1, <6>1, MeansAfterOneMore
          <6>3. \A v \in 0 .. n : v # n + 1
            BY <1>1
          <6> QED
            BY <6>2, <6>3 DEF w
        <5> HIDE DEF next, equal
        <5>4. \A k \in u + 1 .. n : k \in equal[next] <=> MeansAfter(str, p, k - 1, next - 1)
          <6>1. \A k \in u + 1 .. n : k \in 1 .. n + 1
            BY <1>1, <3>6
          <6> QED
            BY <5>2, <6>1
        <5>5. \A k \in u + 1 .. n : k - 1 \in u .. n
          BY <1>1, <3>6
        <5>6. \A v \in u .. n : v = n \/ (v + 1 \in u + 1 .. n /\ v + 1 - 1 = v)
          BY <1>1, <3>6
        <5>7. (\E v \in u .. n : MeansAfter(str, p, v, next - 1)) =>
                  \E k \in u + 1 .. n : k \in equal[next]
          <6> SUFFICES ASSUME NEW v \in u .. n, MeansAfter(str, p, v, next - 1)
                       PROVE  \E k \in u + 1 .. n : k \in equal[next]
            OBVIOUS
          <6>1. v # n
            BY <5>3
          <6>2. v + 1 \in u + 1 .. n /\ v + 1 - 1 = v
            BY <5>6, <6>1
          <6>3. v + 1 \in equal[next]
            <7> DEFINE k == v + 1
            <7>1. k \in u + 1 .. n /\ MeansAfter(str, p, k - 1, next - 1)
              BY <6>2
            <7> HIDE DEF k
            <7>2. k \in equal[next]
              BY <5>4, <7>1
            <7> QED
              BY <7>2 DEF k
          <6> QED
            BY <6>2, <6>3
        <5> QED
          BY <4>2, <5>4, <5>5, <5>7 DEF Tails
      <4> QED
        BY <4>1, <4>2
    <3>8. i + Len(start) = u + 1
      BY <3>2, <3>3
    <3>9. MeansAfter(str, p, i - 1, j - 1) <=>
              /\ u <= n /\ \A c \in 1 .. d : str[i - 1 + c] = p[j - 1 + c]
              /\ MeansAfter(str, p, u, wild - 1)
      BY <3>4
    <3>10. i \in equal[j] <=>
              /\ u <= n /\ \A c \in 1 .. d : str[i - 1 + c] = p[j - 1 + c]
              /\ next = m + 1 \/ \E k \in Tails(str, u + 1) : k \in equal[next]
      <4> HIDE DEF start, next, equal, wild
      <4> QED
        BY <2>1, <2>4, <3>2, <3>8
    <3> HIDE DEF u, d, wild, next, equal
    <3> QED
      BY <3>5, <3>7, <3>9, <3>10
  <2> QED
    BY <2>3, <2>4
<1> HIDE DEF Right
<1>3. ASSUME NEW t \in Nat, \A k \in 0 .. t - 1 : k \in S, m + 1 - t \in 1 .. m + 1
      PROVE  Right(m + 1 - t)
  <2> DEFINE j == m + 1 - t
  <2>1. ASSUME NEW l \in j + 1 .. m + 1
        PROVE  Right(l)
    <3> DEFINE k == m + 1 - l
    <3>1. k \in 0 .. t - 1 /\ m + 1 - k = l /\ l \in 1 .. m + 1
      BY <1>1, <1>3
    <3> HIDE DEF k
    <3>2. k \in S
      BY <1>3, <3>1
    <3> QED
      BY <3>1, <3>2
  <2> HIDE DEF j
  <2>2. j \in 1 .. m + 1
    BY <1>3 DEF j
  <2>3. Right(j)
    BY <1>2, <2>1, <2>2
  <2> QED
    BY <2>3 DEF j
<1>4. \A t \in Nat : (\A k \in 0 .. t - 1 : k \in S) => t \in S
  BY <1>3
<1>5. Nat \subseteq S
  <2> HIDE DEF S
  <2> QED
    BY <1>4, SetInduction
<1>6. Right(1)
  <2>1. m \in S /\ m + 1 - m = 1 /\ 1 \in 1 .. m + 1
    BY <1>1, <1>5
  <2> QED
    BY <2>1
<1>7. 1 \in equal[1] <=> MeansAfter(str, p, 0, 0)
  <2>1. 1 \in 1 .. n + 1 /\ 1 - 1 = 0
    BY <1>1
  <2> HIDE DEF equal
  <2> QED
    BY <1>6, <2>1 DEF Right
<1> QED
  BY <1>1, <1>7, MeansAfterNothing DEF WildStrCmp

(* wildstrcmp() says that a string matches if and only if it does when each  *)
(* * stands for any text, for strings and patterns of any characters and     *)
(* any length, with as many * as one likes at the ends, in the middle or in  *)
(* a row (checkasm.c:523-540).                                               *)
THEOREM PatternsMatchAsMeant == WildSpec => []MatchesAsMeant
<1>1. WildInit => MatchesAsMeant
  BY DEF WildInit, MatchesAsMeant
<1>2. MatchesAsMeant /\ [WildNext \/ Compared]_match => MatchesAsMeant'
  <2>1. CASE Compare
    <3>1. PICK s \in Strings, p \in Patterns :
              match' = [str |-> s, pattern |-> p, equal |-> WildStrCmp(s, p)]
      BY <2>1 DEF Compare
    <3>2. match'.str = s /\ match'.pattern = p /\ match'.equal = WildStrCmp(s, p)
      BY <3>1
    <3>3. s \in Seq(Symbols) /\ p \in Seq(Symbols)
      BY StringsAssumption
    <3>4. WildStrCmp(s, p) \in BOOLEAN /\ Means(s, p) \in BOOLEAN
      BY DEF WildStrCmp, Means
    <3>5. WildStrCmp(s, p) = Means(s, p)
      BY <3>3, <3>4, MatcherIsRight
    <3> QED
      BY <3>2, <3>5 DEF MatchesAsMeant
  <2>2. CASE Compared \/ match' = match
    BY <2>2 DEF Compared, MatchesAsMeant
  <2> QED
    BY <2>1, <2>2 DEF WildNext
<1> QED
  BY <1>1, <1>2, PTL DEF WildSpec

-----------------------------------------------------------------------------
(* The report in JSON.  Its keys: labels, and those that the source names.    *)
FixedKeys ==
    { "mode", "median", "mean", "lowerCI", "upperCI", "stdDev", "logMean", "logVar", "unit", "numMeasurements",
      "regressionSlope", "rawData", "mask", "name", "available", "checkasmVersion", "numChecked", "numFailed",
      "targetCycles", "numBenchmarks", "config", "testPattern", "functionPattern", "benchUsec", "seed", "repeat",
      "cpuAffinity", "cpuInfo", "cpuFlags", "tests", "nopCycles", "timerScale", "nopTime", "numFunctions",
      "functions", "rawCycles", "rawTime", "adjustedCycles", "adjustedTime", "ratio", "testName", "reportName",
      "versions", "averageError", "maximumError" }
Keys == Labels \cup FixedKeys
LEMMA NoKeyIsNoKey == NoKey \notin Keys
BY LabelsAssumption DEF Keys, FixedKeys, NoKey

(* What is said of the reader is said of its stack: the levels that are open,  *)
(* outermost first, and the benchmarks it has found.  Between two calls of the *)
(* writer the top waits for an entry or its end.                             *)
Frames == [ kind : {"root", "object", "array"}, wants : {"first", "entry", "value", "next"},
            keys : SUBSET Keys, key : Keys \cup {NoKey} ]
Call == [ call : {"push", "pop", "item"}, key : Keys \cup {NoKey}, type : {"object", "array", "value"} ]
At(base, top, fd) == [open |-> Append(base, top), found |-> fd]

(* A level after an entry with a key or without one, and whether it takes it.  *)
Filled(top, key) ==
    [ kind |-> top.kind, wants |-> "next",
      keys |-> IF key = NoKey THEN top.keys ELSE top.keys \cup {key},
      key |-> IF key = NoKey THEN top.key ELSE key ]
Takes(top, key) ==
    \/ key = NoKey /\ top.kind = "root" /\ top.wants = "value"
    \/ key = NoKey /\ top.kind = "array" /\ top.wants \in {"first", "next"}
    \/ key \in Keys /\ top.kind = "object" /\ top.wants \in {"first", "next"} /\ key \notin top.keys

(* The benchmark inside of which everything on top of these levels is.        *)
Inside(base) ==
    IF Len(base) >= 5 /\ base[2].key = "functions" /\ base[4].key = "versions"
    THEN {<<base[3].key, base[5].key>>} ELSE {}

Moves(p, c, q) ==
    \E base \in Seq(Frames), top \in Frames :
        /\ p.open = Append(base, top)
        /\ \/ /\ c.call = "item" /\ Takes(top, c.key)
              /\ q = At(base, Filled(top, c.key), p.found \cup Inside(base))
           \/ /\ c.call = "push" /\ Takes(top, c.key) /\ c.type \in {"object", "array"}
              /\ LET b == Append(base, Filled(top, c.key))
                 IN  q = At(b, Context(c.type), p.found \cup Inside(b))
           \/ /\ c.call = "pop" /\ top.kind = c.type /\ top.wants \in {"first", "next"}
              /\ \E b \in Seq(Frames), outer \in Frames :
                    /\ base = Append(b, outer) /\ outer.wants = "next"
                    /\ q = At(b, outer, p.found \cup Inside(b))

(* No function without a benchmark, at the level of the functions.            *)
Named(p) ==
    Len(p.open) = 3 /\ p.open[2].key = "functions" => p.open[3].keys \subseteq { b[1] : b \in p.found }

(* The calls s lead from p to q, past no function without a benchmark.         *)
Path(f, s, p, q) ==
    /\ f[0] = p /\ f[Len(s)] = q /\ p.found \subseteq q.found /\ Named(p)
    /\ \A k \in 1 .. Len(s) : Moves(f[k - 1], s[k], f[k]) /\ Named(f[k]) /\ f[k].found \subseteq q.found
Goes(s, p, q) == \E f : Path(f, s, p, q)

LEMMA GoesNowhere ==
  ASSUME NEW p, Named(p)
  PROVE  Goes(<< >>, p, p)
<1> DEFINE f == [k \in 0 .. 0 |-> p]
<1>1. f[0] = p /\ Len(<< >>) = 0
  OBVIOUS
<1> HIDE DEF f
<1> HIDE DEF Named
<1>2. Path(f, << >>, p, p)
  BY <1>1 DEF Path
<1> HIDE DEF Path
<1> QED
  BY <1>2 DEF Goes

LEMMA StaysThere ==
  ASSUME NEW p, NEW q, Goes(<< >>, p, q)
  PROVE  p = q
BY DEF Goes, Path

LEMMA GoesOnce ==
  ASSUME NEW c, NEW p, NEW q, Moves(p, c, q), Named(p), Named(q), p.found \subseteq q.found
  PROVE  Goes(<< c >>, p, q)
<1> DEFINE f == [k \in 0 .. 1 |-> IF k = 0 THEN p ELSE q]
           s == << c >>
<1>1. f[0] = p /\ f[1] = q /\ Len(s) = 1 /\ s[1] = c
  OBVIOUS
<1> HIDE DEF f, s
<1>2. ASSUME NEW k \in 1 .. Len(s) PROVE Moves(f[k - 1], s[k], f[k]) /\ Named(f[k]) /\ f[k].found \subseteq q.found
  <2>1. k = 1 /\ k - 1 = 0
    BY <1>1
  <2> HIDE DEF Moves, Named
  <2> QED
    BY <1>1, <2>1
<1> HIDE DEF Moves, Named
<1>3. Path(f, s, p, q)
  BY <1>1, <1>2 DEF Path
<1> HIDE DEF Path
<1> QED
  BY <1>3 DEF Goes, s

LEMMA GoesOn ==
  ASSUME NEW s \in Seq(Call), NEW t \in Seq(Call), NEW p, NEW q, NEW r, Goes(s, p, q), Goes(t, q, r)
  PROVE  Goes(s \o t, p, r)
<1>1. PICK f : Path(f, s, p, q)
  BY DEF Goes
<1>2. PICK g : Path(g, t, q, r)
  BY DEF Goes
<1> DEFINE m == Len(s)
           n == Len(t)
           u == s \o t
           h == [k \in 0 .. m + n |-> IF k <= m THEN f[k] ELSE g[k - m]]
<1>3. /\ m \in Nat /\ n \in Nat /\ Len(u) = m + n
      /\ \A k \in 1 .. m : u[k] = s[k]
      /\ \A k \in m + 1 .. m + n : u[k] = t[k - m]
  OBVIOUS
<1>4. /\ f[0] = p /\ f[m] = q /\ g[0] = q /\ g[n] = r
      /\ p.found \subseteq q.found /\ q.found \subseteq r.found /\ Named(p)
      /\ \A k \in 1 .. m : Moves(f[k - 1], s[k], f[k]) /\ Named(f[k]) /\ f[k].found \subseteq q.found
      /\ \A k \in 1 .. n : Moves(g[k - 1], t[k], g[k]) /\ Named(g[k]) /\ g[k].found \subseteq r.found
  BY <1>1, <1>2 DEF Path
<1>5. /\ \A k \in 0 .. m : h[k] = f[k]
      /\ \A k \in m .. m + n : h[k] = g[k - m]
  <2>1. \A k \in 0 .. m : h[k] = f[k]
    BY <1>3
  <2>2. ASSUME NEW k \in m .. m + n PROVE h[k] = g[k - m]
    <3>1. k = m => k - m = 0 /\ h[k] = f[m]
      BY <1>3
    <3>2. k # m => h[k] = g[k - m]
      BY <1>3
    <3> HIDE DEF h, m
    <3> QED
      BY <1>4, <3>1, <3>2
  <2> QED
    BY <2>1, <2>2
<1> HIDE DEF h, u, m, n, Moves, Named
<1>6. ASSUME NEW k \in 1 .. m + n
      PROVE  Moves(h[k - 1], u[k], h[k]) /\ Named(h[k]) /\ h[k].found \subseteq r.found
  <2>1. CASE k <= m
    <3>1. k \in 1 .. m /\ k \in 0 .. m /\ k - 1 \in 0 .. m
      BY <1>3, <2>1
    <3> QED
      BY <1>3, <1>4, <1>5, <3>1
  <2>2. CASE k > m
    <3> DEFINE j == k - m
    <3>1. /\ k \in m + 1 .. m + n /\ k \in m .. m + n /\ k - 1 \in m .. m + n
          /\ j \in 1 .. n /\ k - 1 - m = j - 1
      BY <1>3, <2>2
    <3>2. h[k - 1] = g[j - 1] /\ h[k] = g[j] /\ u[k] = t[j]
      BY <1>3, <1>5, <3>1
    <3> HIDE DEF j
    <3> QED
      BY <1>4, <3>1, <3>2
  <2> QED
    BY <1>3, <2>1, <2>2
<1>7. h[0] = p /\ h[m + n] = r
  <2>1. 0 \in 0 .. m /\ m + n \in m .. m + n /\ m + n - m = n
    BY <1>3
  <2>2. h[0] = f[0]
    BY <1>5, <2>1
  <2>3. h[m + n] = g[n]
    <3> DEFINE e == m + n
    <3>1. e \in m .. e /\ e - m = n /\ \A k \in m .. e : h[k] = g[k - m]
      BY <1>3, <1>5, <2>1
    <3> HIDE DEF e
    <3>2. h[e] = g[n]
      BY <3>1
    <3> QED
      BY <3>2 DEF e
  <2> QED
    BY <1>4, <2>1, <2>2, <2>3
<1>8. Path(h, u, p, r)
  BY <1>3, <1>4, <1>6, <1>7 DEF Path
<1> HIDE DEF Path
<1> QED
  BY <1>8 DEF Goes, u

-----------------------------------------------------------------------------
(* A part of what is written in an object: whatever the keys there, if those of *)
(* the part are not among them, it is written, and the benchmarks A are found. *)
InObject == { t \in Frames : t.kind = "object" /\ t.wants \in {"first", "next"} }
Part(s, base, K, A) ==
    /\ s \in Seq(Call)
    /\ \A top \in InObject : \A fd :
          K \cap top.keys = {} /\ Inside(base) \subseteq fd /\ Named(At(base, top, fd))
          => \E t \in InObject : /\ t.keys \subseteq top.keys \cup K
                                 /\ Goes(s, At(base, top, fd), At(base, t, fd \cup A))
(* No name is missed at this level.                                           *)
Free(base) == Len(base) # 2 \/ base[2].key # "functions"

LEMMA NamedIs ==
  ASSUME NEW base \in Seq(Frames), NEW u \in Frames, NEW fd
  PROVE  Named(At(base, u, fd)) <=> (Free(base) \/ u.keys \subseteq { b[1] : b \in fd })
<1> DEFINE a == Len(base)
           st == Append(base, u)
<1>1. a \in Nat /\ Len(st) = a + 1 /\ (a = 2 => st[2] = base[2] /\ st[3] = u)
  OBVIOUS
<1>2. At(base, u, fd) = [open |-> st, found |-> fd]
  BY DEF At
<1>3. Free(base) <=> a # 2 \/ base[2].key # "functions"
  BY DEF Free
<1> HIDE DEF a, st
<1>4. Len(st) = 3 <=> a = 2
  BY <1>1
<1>5. Named(At(base, u, fd)) <=> (Len(st) = 3 /\ st[2].key = "functions" => st[3].keys \subseteq { b[1] : b \in fd })
  BY <1>2 DEF Named
<1> QED
  BY <1>1, <1>3, <1>4, <1>5

LEMMA GoesIsNamed ==
  ASSUME NEW s, NEW p, NEW q, Goes(s, p, q), Len(s) \in Nat
  PROVE  Named(p) /\ Named(q) /\ p.found \subseteq q.found
<1>1. PICK f : Path(f, s, p, q)
  BY DEF Goes
<1> DEFINE n == Len(s)
<1> HIDE DEF n, Named, Moves
<1>2. /\ f[0] = p /\ f[n] = q /\ p.found \subseteq q.found /\ Named(p)
      /\ \A k \in 1 .. n : Named(f[k])
  BY <1>1 DEF Path, n
<1>3. n = 0 \/ n \in 1 .. n
  BY DEF n
<1> QED
  BY <1>2, <1>3

LEMMA NothingWritten ==
  ASSUME NEW base
  PROVE  Part(<< >>, base, {}, {})
<1> SUFFICES ASSUME NEW top \in InObject, NEW fd, Named(At(base, top, fd))
             PROVE  Goes(<< >>, At(base, top, fd), At(base, top, fd \cup {}))
  BY DEF Part
<1>1. fd \cup {} = fd
  OBVIOUS
<1> HIDE DEF Named, Goes, At
<1> QED
  BY <1>1, GoesNowhere

LEMMA PartAfterPart ==
  ASSUME NEW s, NEW t, NEW base, NEW K, NEW L, NEW A, NEW B,
         Part(s, base, K, A), Part(t, base, L, B), K \cap L = {}
  PROVE  Part(s \o t, base, K \cup L, A \cup B)
<1>1. s \in Seq(Call) /\ t \in Seq(Call) /\ s \o t \in Seq(Call) /\ Len(s) \in Nat
  BY DEF Part
<1>2. ASSUME NEW top \in InObject, NEW fd, (K \cup L) \cap top.keys = {}, Inside(base) \subseteq fd,
             Named(At(base, top, fd))
      PROVE  \E u \in InObject : /\ u.keys \subseteq top.keys \cup (K \cup L)
                                 /\ Goes(s \o t, At(base, top, fd), At(base, u, fd \cup (A \cup B)))
  <2> HIDE DEF Named, Goes, Inside, At
  <2>1. PICK v \in InObject : /\ v.keys \subseteq top.keys \cup K
                              /\ Goes(s, At(base, top, fd), At(base, v, fd \cup A))
    BY <1>2 DEF Part
  <2>2. Named(At(base, v, fd \cup A))
    BY <1>1, <2>1, GoesIsNamed
  <2>3. L \cap v.keys = {} /\ Inside(base) \subseteq fd \cup A
    BY <1>2, <2>1
  <2>4. PICK u \in InObject : /\ u.keys \subseteq v.keys \cup L
                              /\ Goes(t, At(base, v, fd \cup A), At(base, u, (fd \cup A) \cup B))
    BY <2>2, <2>3 DEF Part
  <2>5. (fd \cup A) \cup B = fd \cup (A \cup B)
    OBVIOUS
  <2>6. Goes(s \o t, At(base, top, fd), At(base, u, fd \cup (A \cup B)))
    BY <1>1, <2>1, <2>4, <2>5, GoesOn
  <2>7. u.keys \subseteq top.keys \cup (K \cup L)
    BY <2>1, <2>4
  <2> QED
    BY <2>6, <2>7
<1> QED
  BY <1>1, <1>2 DEF Part

LEMMA PartOfMore ==
  ASSUME NEW s, NEW base, NEW K, NEW L, NEW A, Part(s, base, K, A), K \subseteq L
  PROVE  Part(s, base, L, A)
<1>1. ASSUME NEW top \in InObject, NEW fd, L \cap top.keys = {}, Inside(base) \subseteq fd,
             Named(At(base, top, fd))
      PROVE  \E u \in InObject : /\ u.keys \subseteq top.keys \cup L
                                 /\ Goes(s, At(base, top, fd), At(base, u, fd \cup A))
  <2> HIDE DEF Named, Goes, Inside, At
  <2>1. K \cap top.keys = {}
    BY <1>1
  <2>2. PICK v \in InObject : /\ v.keys \subseteq top.keys \cup K
                              /\ Goes(s, At(base, top, fd), At(base, v, fd \cup A))
    BY <1>1, <2>1 DEF Part
  <2> QED
    BY <2>2
<1> QED
  BY <1>1 DEF Part

(* An entry in an object.                                                     *)
LEMMA FilledIs ==
  ASSUME NEW top \in InObject, NEW key \in Keys, key \notin top.keys
  PROVE  /\ Filled(top, key) \in InObject /\ Filled(top, key).wants = "next" /\ Filled(top, key).key = key
         /\ Filled(top, key).keys = top.keys \cup {key} /\ top \in Frames /\ Filled(top, key) \in Frames
         /\ Takes(top, key)
<1> DEFINE f == Filled(top, key)
<1>1. top \in Frames /\ top.kind = "object" /\ top.wants \in {"first", "next"}
  BY DEF InObject
<1>2. key # NoKey
  BY NoKeyIsNoKey
<1>3. Takes(top, key)
  BY <1>1 DEF Takes
<1>4. f = [kind |-> top.kind, wants |-> "next", keys |-> top.keys \cup {key}, key |-> key]
  BY <1>2 DEF Filled
<1> HIDE DEF f
<1>5. f.kind = "object" /\ f.wants = "next" /\ f.keys = top.keys \cup {key} /\ f.key = key
  BY <1>1, <1>4
<1>6. f \in Frames
  BY <1>1, <1>2, <1>4 DEF Frames
<1>7. f \in InObject
  BY <1>5, <1>6 DEF InObject
<1> QED
  BY <1>1, <1>3, <1>5, <1>6, <1>7 DEF f

LEMMA ItemIsPart ==
  ASSUME NEW base \in Seq(Frames), Free(base), NEW key \in Keys
  PROVE  Part(<< Item(key) >>, base, {key}, {})
<1>1. << Item(key) >> \in Seq(Call)
  <2>1. Item(key) \in Call
    BY DEF Item, Call
  <2> HIDE DEF Item, Call
  <2> QED
    BY <2>1
<1>2. ASSUME NEW top \in InObject, NEW fd, {key} \cap top.keys = {}, Inside(base) \subseteq fd,
             Named(At(base, top, fd))
      PROVE  \E u \in InObject : /\ u.keys \subseteq top.keys \cup {key}
                                 /\ Goes(<< Item(key) >>, At(base, top, fd), At(base, u, fd \cup {}))
  <2> DEFINE u == Filled(top, key)
  <2>1. /\ u \in InObject /\ u.keys = top.keys \cup {key} /\ Takes(top, key) /\ top \in Frames /\ u \in Frames
    BY <1>2, FilledIs
  <2>2. fd \cup {} = fd /\ fd \cup Inside(base) = fd
    BY <1>2
  <2>3. Moves(At(base, top, fd), Item(key), At(base, u, fd))
    <3> HIDE DEF Inside, Takes, Filled
    <3>1. At(base, top, fd).open = Append(base, top) /\ At(base, top, fd).found = fd
      BY DEF At
    <3>2. Item(key).call = "item" /\ Item(key).key = key
      BY DEF Item
    <3> QED
      BY <2>1, <2>2, <3>1, <3>2 DEF Moves
  <2>4. Named(At(base, u, fd))
    BY <2>1, NamedIs
  <2>5. At(base, top, fd).found \subseteq At(base, u, fd).found
    BY DEF At
  <2> HIDE DEF u, Named, Goes, Inside, At, Moves
  <2>6. Goes(<< Item(key) >>, At(base, top, fd), At(base, u, fd \cup {}))
    BY <1>2, <2>2, <2>3, <2>4, <2>5, GoesOnce
  <2> QED
    BY <2>1, <2>6
<1> QED
  BY <1>1, <1>2 DEF Part

(* An object or an array with a key, where it is known what is in it.          *)
LEMMA BracketsArePart ==
  ASSUME NEW base \in Seq(Frames), NEW key \in Keys, NEW type \in {"object", "array"},
         NEW body \in Seq(Call), NEW B,
         \A x \in InObject : \A fd :
            x.key = key /\ Inside(base) \subseteq fd
            => \E t \in Frames :
                  /\ t.kind = type /\ t.wants \in {"first", "next"}
                  /\ Goes(body, At(Append(base, x), Context(type), fd \cup Inside(Append(base, x))),
                                At(Append(base, x), t, fd \cup B)),
         Free(base) \/ \E n : <<key, n>> \in B
  PROVE  Part(<< Push(key, type) >> \o body \o << Pop(type) >>, base, {key}, B)
<1> DEFINE push == Push(key, type)
           pop == Pop(type)
           all == << push >> \o body \o << pop >>
<1>1. push \in Call /\ pop \in Call
  BY DEF Push, Pop, Call
<1>2. /\ push.call = "push" /\ push.key = key /\ push.type = type
      /\ pop.call = "pop" /\ pop.type = type
  BY DEF Push, Pop
<1> HIDE DEF push, pop
<1>3. << push >> \in Seq(Call) /\ << pop >> \in Seq(Call) /\ << push >> \o body \in Seq(Call) /\ all \in Seq(Call)
  BY <1>1
<1>4. ASSUME NEW top \in InObject, NEW fd, {key} \cap top.keys = {}, Inside(base) \subseteq fd,
             Named(At(base, top, fd))
      PROVE  \E u \in InObject : /\ u.keys \subseteq top.keys \cup {key}
                                 /\ Goes(all, At(base, top, fd), At(base, u, fd \cup B))
  <2> DEFINE u == Filled(top, key)
             b == Append(base, u)
             gd == fd \cup Inside(b)
             p == At(base, top, fd)
  <2>1. /\ u \in InObject /\ u.keys = top.keys \cup {key} /\ Takes(top, key) /\ top \in Frames /\ u \in Frames
        /\ u.key = key /\ u.wants = "next"
    BY <1>4, FilledIs
  <2> DEFINE q == At(b, Context(type), gd)
  <2>2. PICK t \in Frames : /\ t.kind = type /\ t.wants \in {"first", "next"}
                            /\ Goes(body, q, At(b, t, fd \cup B))
    <3> HIDE DEF u, Goes, Inside, At
    <3> QED
      BY <1>4, <2>1
  <2> DEFINE v == At(b, t, fd \cup B)
             e == At(base, u, fd \cup B)
  <2>3. Moves(p, push, q)
    <3>1. p.open = Append(base, top) /\ p.found = fd
      BY DEF At
    <3> HIDE DEF Inside, Takes, Filled, p
    <3> QED
      BY <1>2, <2>1, <3>1 DEF Moves
  <2>4. Moves(v, pop, e)
    <3>1. v.open = Append(b, t) /\ v.found = fd \cup B
      BY DEF At
    <3>2. b \in Seq(Frames)
      BY <2>1
    <3>3. (fd \cup B) \cup Inside(base) = fd \cup B
      BY <1>4
    <3> DEFINE outers(w) == \E c \in Seq(Frames), outer \in Frames :
                    /\ b = Append(c, outer) /\ outer.wants = "next" /\ w = At(c, outer, v.found \cup Inside(c))
    <3>4. outers(e)
      <4> HIDE DEF u, v, Inside, At
      <4> QED
        BY <2>1, <3>1, <3>3
    <3>5. v.open = Append(b, t) /\ pop.call = "pop" /\ t.kind = pop.type /\ t.wants \in {"first", "next"} /\ outers(e)
      BY <1>2, <2>2, <3>1, <3>4
    <3> HIDE DEF b, v, e, Inside, At
    <3> QED
      BY <2>2, <3>2, <3>5 DEF Moves
  <2>5. b \in Seq(Frames) /\ Context(type) \in Frames /\ Context(type).keys = {}
    <3>1. Context(type) = [kind |-> type, wants |-> "first", keys |-> {}, key |-> NoKey]
      BY DEF Context
    <3>2. Context(type) \in Frames
      BY <3>1 DEF Frames
    <3> QED
      BY <2>1, <3>1, <3>2
  <2>6. Named(q)
    <3> HIDE DEF b, gd
    <3> QED
      BY <2>5, NamedIs
  <2>7. Named(e)
    <3>1. CASE Free(base)
      <4> HIDE DEF u
      <4> QED
        BY <2>1, <3>1, NamedIs
    <3>2. CASE ~ Free(base)
      <4>1. PICK n : <<key, n>> \in B
        BY <3>2
      <4>2. <<key, n>>[1] = key
        OBVIOUS
      <4>3. top.keys \subseteq { c[1] : c \in fd }
        BY <1>4, <2>1, <3>2, NamedIs
      <4> HIDE DEF u
      <4>4. u.keys \subseteq { c[1] : c \in fd \cup B }
        BY <2>1, <4>1, <4>2, <4>3
      <4> QED
        BY <2>1, <4>4, NamedIs
    <3> QED
      BY <3>1, <3>2
  <2>8. Named(v) /\ q.found \subseteq v.found
    <3>1. Len(body) \in Nat
      OBVIOUS
    <3>2. Goes(body, q, v)
      BY <2>2
    <3> HIDE DEF q, v, Goes, Named
    <3> QED
      BY <3>1, <3>2, GoesIsNamed
  <2>9. p.found \subseteq q.found /\ v.found \subseteq e.found
    BY DEF At
  <2> HIDE DEF p, q, v, e, u, Goes, Named, Moves
  <2>10. Goes(<< push >>, p, q) /\ Goes(<< pop >>, v, e)
    BY <1>4, <2>3, <2>4, <2>6, <2>7, <2>8, <2>9, GoesOnce DEF p
  <2>11. Goes(<< push >> \o body, p, v)
    BY <1>3, <2>2, <2>10, GoesOn DEF v
  <2>12. Goes(all, p, e)
    BY <1>3, <2>10, <2>11, GoesOn
  <2> QED
    BY <2>1, <2>12 DEF p, e
<1>5. Part(all, base, {key}, B)
  <2> HIDE DEF all
  <2> QED
    BY <1>3, <1>4 DEF Part
<1> QED
  BY <1>5 DEF push, pop

LEMMA KeyedIsPart ==
  ASSUME NEW base \in Seq(Frames), NEW key \in Keys, NEW body \in Seq(Call), NEW K, NEW A, NEW B,
         \A x \in InObject : x.key = key => Part(body, Append(base, x), K, A),
         \A x \in InObject : \A fd :
            x.key = key /\ Inside(base) \subseteq fd
            => (fd \cup Inside(Append(base, x))) \cup A = fd \cup B,
         Free(base) \/ \E n : <<key, n>> \in B
  PROVE  Part(Keyed(key, body), base, {key}, B)
<1>1. ASSUME NEW x \in InObject, NEW fd, x.key = key, Inside(base) \subseteq fd
      PROVE  \E t \in Frames :
                  /\ t.kind = "object" /\ t.wants \in {"first", "next"}
                  /\ Goes(body, At(Append(base, x), Context("object"), fd \cup Inside(Append(base, x))),
                                At(Append(base, x), t, fd \cup B))
  <2> DEFINE b == Append(base, x)
             top == Context("object")
             gd == fd \cup Inside(b)
  <2>1. Part(body, b, K, A) /\ gd \cup A = fd \cup B /\ Inside(b) \subseteq gd
    BY <1>1
  <2>2. top \in InObject /\ top.keys = {}
    <3>1. top = [kind |-> "object", wants |-> "first", keys |-> {}, key |-> NoKey]
      BY DEF Context
    <3>2. top \in Frames
      BY <3>1 DEF Frames
    <3> HIDE DEF top
    <3>3. top.kind = "object" /\ top.wants = "first" /\ top.keys = {}
      BY <3>1
    <3> QED
      BY <3>2, <3>3 DEF InObject
  <2>3. b \in Seq(Frames) /\ top \in Frames
    BY <2>2 DEF InObject
  <2> HIDE DEF b, top, gd, Inside
  <2>4. Named(At(b, top, gd))
    BY <2>2, <2>3, NamedIs
  <2> HIDE DEF Named, Goes, At
  <2>5. PICK t \in InObject : Goes(body, At(b, top, gd), At(b, t, gd \cup A))
    BY <2>1, <2>2, <2>4 DEF Part
  <2>6. t \in Frames /\ t.kind = "object" /\ t.wants \in {"first", "next"}
    BY DEF InObject
  <2> QED
    BY <2>1, <2>5, <2>6 DEF b, top, gd
<1>2. key # NoKey
  BY NoKeyIsNoKey
<1>3. Keyed(key, body) = << Push(key, "object") >> \o body \o << Pop("object") >>
  BY <1>2 DEF Keyed
<1>4. "object" \in {"object", "array"}
  OBVIOUS
<1> HIDE DEF Goes, Part, Inside, At, Free
<1>5. \A x \in InObject : \A fd :
            x.key = key /\ Inside(base) \subseteq fd
            => \E t \in Frames :
                  /\ t.kind = "object" /\ t.wants \in {"first", "next"}
                  /\ Goes(body, At(Append(base, x), Context("object"), fd \cup Inside(Append(base, x))),
                                At(Append(base, x), t, fd \cup B))
  BY <1>1
<1> QED
  BY <1>3, <1>4, <1>5, BracketsArePart

LEMMA ArrayIsPart ==
  ASSUME NEW base \in Seq(Frames), NEW key \in Keys, NEW n \in Nat, Free(base),
         \A x \in InObject : x.key = key => Inside(Append(base, x)) \subseteq Inside(base)
  PROVE  Part(Array(key, n), base, {key}, {})
<1> DEFINE body == [i \in 1 .. n |-> Item(NoKey)]
           T == "array"
<1>1. body \in Seq(Call) /\ Len(body) = n /\ \A i \in 1 .. n : body[i] = Item(NoKey)
  <2>1. Item(NoKey) \in Call
    BY DEF Item, Call
  <2> HIDE DEF Item, Call
  <2> QED
    BY <2>1
<1>2. ASSUME NEW x \in InObject, NEW fd, x.key = key, Inside(base) \subseteq fd
      PROVE  \E t \in Frames :
                  /\ t.kind = T /\ t.wants \in {"first", "next"}
                  /\ Goes(body, At(Append(base, x), Context(T), fd \cup Inside(Append(base, x))),
                                At(Append(base, x), t, fd \cup {}))
  <2> DEFINE b == Append(base, x)
             top == Context(T)
             u == Filled(top, NoKey)
             p == At(b, top, fd)
             q == At(b, u, fd)
             f == [k \in 0 .. n |-> IF k = 0 THEN p ELSE q]
             t == IF n = 0 THEN top ELSE u
  <2>1. fd \cup Inside(b) = fd /\ fd \cup {} = fd
    BY <1>2
  <2>2. top = [kind |-> T, wants |-> "first", keys |-> {}, key |-> NoKey]
    BY DEF Context
  <2>3. u = [kind |-> T, wants |-> "next", keys |-> {}, key |-> NoKey]
    BY DEF Context, Filled
  <2> HIDE DEF top, u
  <2>4. /\ top \in Frames /\ u \in Frames /\ top.keys = {} /\ u.keys = {} /\ top.kind = T /\ u.kind = T
        /\ top.wants = "first" /\ u.wants = "next"
    BY <2>2, <2>3 DEF Frames
  <2>5. u = Filled(top, NoKey) /\ u = Filled(u, NoKey) /\ Takes(top, NoKey) /\ Takes(u, NoKey)
    BY <2>2, <2>3 DEF Filled, Takes
  <2>6. b \in Seq(Frames)
    BY DEF InObject
  <2>7. p.open = Append(b, top) /\ q.open = Append(b, u) /\ p.found = fd /\ q.found = fd
    BY DEF At
  <2>8. Named(p) /\ Named(q)
    <3> HIDE DEF b
    <3> QED
      BY <2>4, <2>6, NamedIs
  <2>9. Item(NoKey).call = "item" /\ Item(NoKey).key = NoKey
    BY DEF Item
  <2>10. Moves(p, Item(NoKey), q) /\ Moves(q, Item(NoKey), q)
    <3>1. q = At(b, u, fd)
      OBVIOUS
    <3> HIDE DEF b, p, q, Inside, Takes, Filled, Item
    <3> QED
      BY <2>1, <2>4, <2>5, <2>6, <2>7, <2>9, <3>1 DEF Moves
  <2>11. f[0] = p /\ f[n] = At(b, t, fd)
    <3>1. f[0] = p /\ f[n] = IF n = 0 THEN p ELSE q
      OBVIOUS
    <3>2. CASE n = 0
      <4>1. t = top
        BY <3>2
      <4> HIDE DEF f, t, b
      <4> QED
        BY <3>1, <3>2, <4>1
    <3>3. CASE n # 0
      <4>1. t = u
        BY <3>3
      <4> HIDE DEF f, t, b
      <4> QED
        BY <3>1, <3>3, <4>1
    <3> QED
      BY <3>2, <3>3
  <2>12. ASSUME NEW k \in 1 .. n
         PROVE  Moves(f[k - 1], body[k], f[k]) /\ Named(f[k]) /\ f[k].found = fd
    <3>1. f[k] = q /\ (f[k - 1] = p \/ f[k - 1] = q)
      OBVIOUS
    <3> HIDE DEF f, body, p, q, Moves, Named
    <3> QED
      BY <1>1, <2>7, <2>8, <2>10, <3>1
  <2>13. At(b, t, fd).found = fd
    BY DEF At
  <2>14. Path(f, body, p, At(b, t, fd))
    <3> HIDE DEF f, body, p, Moves, Named, b, t
    <3> QED
      BY <1>1, <2>7, <2>8, <2>11, <2>12, <2>13 DEF Path
  <2>15. Goes(body, p, At(b, t, fd))
    <3> HIDE DEF Path, f, body, p, b, t
    <3> QED
      BY <2>14 DEF Goes
  <2>16. t \in Frames /\ t.kind = T /\ t.wants \in {"first", "next"}
    BY <2>4
  <2> HIDE DEF t, Goes, Inside, At, body
  <2>17. Goes(body, At(b, Context(T), fd \cup Inside(b)), At(b, t, fd \cup {}))
    BY <2>1, <2>15 DEF top
  <2> QED
    BY <2>16, <2>17
<1>3. Array(key, n) = << Push(key, T) >> \o body \o << Pop(T) >>
  BY DEF Array
<1>4. T \in {"object", "array"}
  OBVIOUS
<1> HIDE DEF T, body, Goes, Part, Inside, At
<1>5. \A x \in InObject : \A fd :
            x.key = key /\ Inside(base) \subseteq fd
            => \E t \in Frames :
                  /\ t.kind = T /\ t.wants \in {"first", "next"}
                  /\ Goes(body, At(Append(base, x), Context(T), fd \cup Inside(Append(base, x))),
                                At(Append(base, x), t, fd \cup {}))
  BY <1>2
<1> QED
  BY <1>1, <1>3, <1>4, <1>5, BracketsArePart

LEMMA ItemsArePart ==
  ASSUME NEW base \in Seq(Frames), Free(base), NEW keys \in Seq(Keys),
         \A i, j \in 1 .. Len(keys) : keys[i] = keys[j] => i = j
  PROVE  Part(Items(keys), base, { keys[i] : i \in 1 .. Len(keys) }, {})
<1> DEFINE n == Len(keys)
           K == { keys[i] : i \in 1 .. n }
           body == Items(keys)
<1>1. n \in Nat /\ \A i \in 1 .. n : keys[i] \in Keys
  OBVIOUS
<1>2. body \in Seq(Call) /\ Len(body) = n /\ \A i \in 1 .. n : body[i] = Item(keys[i])
  <2>1. body = [i \in 1 .. n |-> Item(keys[i])]
    BY DEF Items
  <2>2. \A i \in 1 .. n : Item(keys[i]) \in Call
    BY <1>1 DEF Item, Call
  <2> HIDE DEF body, Item, Call, n
  <2> QED
    BY <1>1, <2>1, <2>2
<1>3. ASSUME NEW top \in InObject, NEW fd, K \cap top.keys = {}, Inside(base) \subseteq fd,
             Named(At(base, top, fd))
      PROVE  \E u \in InObject : /\ u.keys \subseteq top.keys \cup K
                                 /\ Goes(body, At(base, top, fd), At(base, u, fd \cup {}))
  <2> DEFINE T(k) == [ kind |-> "object", wants |-> "next",
                       keys |-> top.keys \cup { keys[i] : i \in 1 .. k }, key |-> keys[k] ]
             u == [k \in 0 .. n |-> IF k = 0 THEN top ELSE T(k)]
             f == [k \in 0 .. n |-> At(base, u[k], fd)]
  <2>1. fd \cup Inside(base) = fd /\ fd \cup {} = fd
    BY <1>3
  <2>2. u[0] = top /\ \A k \in 1 .. n : u[k] = T(k)
    BY <1>1
  <2>3. \A k \in 0 .. n : f[k] = At(base, u[k], fd)
    OBVIOUS
  <2> HIDE DEF u, f, n
  <2>4. top \in Frames /\ top.kind = "object" /\ top.wants \in {"first", "next"} /\ top.keys \subseteq Keys
    BY DEF InObject, Frames
  <2>5. ASSUME NEW k \in 0 .. n
        PROVE  /\ u[k] \in InObject /\ u[k] \in Frames
               /\ u[k].keys = top.keys \cup { keys[i] : i \in 1 .. k }
    <3>1. CASE k = 0
      <4>1. { keys[i] : i \in 1 .. k } = {}
        BY <3>1
      <4> QED
        BY <2>2, <2>4, <3>1, <4>1 DEF InObject
    <3>2. CASE k # 0
      <4> DEFINE t == u[k]
                 ks == top.keys \cup { keys[i] : i \in 1 .. k }
      <4>1. k \in 1 .. n /\ 1 .. k \subseteq 1 .. n
        BY <1>1, <3>2
      <4>2. t = [kind |-> "object", wants |-> "next", keys |-> ks, key |-> keys[k]]
        BY <2>2, <4>1
      <4>3. ks \in SUBSET Keys /\ keys[k] \in Keys
        BY <1>1, <2>4, <4>1
      <4> HIDE DEF t, ks
      <4>4. t \in Frames
        BY <4>2, <4>3 DEF Frames
      <4>5. t.kind = "object" /\ t.wants = "next" /\ t.keys = ks
        BY <4>2
      <4>6. t \in InObject
        BY <4>4, <4>5 DEF InObject
      <4> QED
        BY <4>4, <4>5, <4>6 DEF t, ks
    <3> QED
      BY <3>1, <3>2
  <2>6. ASSUME NEW k \in 1 .. n
        PROVE  Moves(f[k - 1], body[k], f[k]) /\ Named(f[k]) /\ f[k].found \subseteq fd
    <3> DEFINE t == u[k - 1]
               key == keys[k]
    <3>1. k - 1 \in 0 .. n /\ k \in 0 .. n /\ 1 .. k = (1 .. k - 1) \cup {k} /\ k \notin 1 .. k - 1
          /\ 1 .. k - 1 \subseteq 1 .. n
      BY <1>1
    <3>2. { keys[i] : i \in 1 .. k } = { keys[i] : i \in 1 .. k - 1 } \cup {key}
      BY <3>1
    <3>3. t \in InObject /\ t \in Frames /\ u[k] \in Frames /\ t.keys = top.keys \cup { keys[i] : i \in 1 .. k - 1 }
      BY <2>5, <3>1
    <3>4. key \in Keys /\ key \in K /\ key \notin { keys[i] : i \in 1 .. k - 1 }
      BY <1>1, <3>1 DEF n
    <3>5. key \notin t.keys
      BY <1>3, <3>3, <3>4
    <3>6. u[k] = Filled(t, key) /\ Takes(t, key)
      <4>1. t.kind = "object" /\ key # NoKey
        BY <3>3, <3>4, NoKeyIsNoKey DEF InObject
      <4>2. u[k] = [kind |-> "object", wants |-> "next", keys |-> top.keys \cup { keys[i] : i \in 1 .. k }, key |-> key]
        BY <2>2
      <4>3. top.keys \cup { keys[i] : i \in 1 .. k } = t.keys \cup {key}
        BY <3>2, <3>3
      <4>4. Filled(t, key) = [kind |-> "object", wants |-> "next", keys |-> t.keys \cup {key}, key |-> key]
        BY <4>1 DEF Filled
      <4> HIDE DEF t, key
      <4> QED
        BY <3>3, <3>4, <3>5, <4>2, <4>3, <4>4, FilledIs
    <3>7. f[k - 1] = At(base, t, fd) /\ f[k] = At(base, u[k], fd)
      BY <2>3, <3>1
    <3> HIDE DEF t, key
    <3>8. f[k - 1].open = Append(base, t) /\ f[k - 1].found = fd /\ f[k].found = fd
      BY <3>7 DEF At
    <3>9. body[k] = Item(key) /\ Item(key).call = "item" /\ Item(key).key = key
      BY <1>2 DEF Item, key
    <3> HIDE DEF Item, Filled, Takes, Inside, At, body
    <3>10. f[k] = At(base, Filled(t, key), fd \cup Inside(base))
      BY <2>1, <3>6, <3>7
    <3>11. Moves(f[k - 1], body[k], f[k])
      BY <3>3, <3>6, <3>8, <3>9, <3>10 DEF Moves
    <3>12. Named(f[k])
      BY <3>3, <3>7, NamedIs
    <3> QED
      BY <3>8, <3>11, <3>12
  <2>7. f[0] = At(base, top, fd) /\ f[n] = At(base, u[n], fd) /\ u[n] \in InObject
        /\ u[n].keys \subseteq top.keys \cup K
    BY <1>1, <2>2, <2>3, <2>5
  <2> DEFINE p == At(base, top, fd)
             q == At(base, u[n], fd)
  <2>8. p.found = fd /\ q.found = fd
    BY DEF At
  <2> HIDE DEF p, q, body, K
  <2>9. Path(f, body, p, q)
    <3>1. f[0] = p /\ f[n] = q /\ Named(p)
      BY <1>3, <2>7 DEF p, q
    <3> HIDE DEF Named, Moves
    <3> QED
      BY <1>2, <2>6, <2>8, <3>1 DEF Path
  <2>10. Goes(body, p, q)
    <3> HIDE DEF Path
    <3> QED
      BY <2>9 DEF Goes
  <2>11. Goes(body, At(base, top, fd), At(base, u[n], fd \cup {}))
    <3> HIDE DEF Goes, At
    <3> QED
      BY <2>1, <2>10 DEF p, q
  <2> HIDE DEF Goes
  <2> QED
    BY <2>7, <2>11
<1>4. Part(body, base, K, {})
  <2> HIDE DEF body, K
  <2> QED
    BY <1>2, <1>3 DEF Part
<1> QED
  BY <1>4

-----------------------------------------------------------------------------
(* Induction from one number to the next.                                     *)
LEMMA StepByStep ==
  ASSUME NEW S, 0 \in S, \A n \in Nat : n \in S => n + 1 \in S
  PROVE  Nat \subseteq S
<1>1. ASSUME NEW n \in Nat, \A k \in 0 .. n - 1 : k \in S PROVE n \in S
  <2>1. CASE n = 0
    BY <2>1
  <2>2. CASE n # 0
    <3>1. n - 1 \in Nat /\ n - 1 \in 0 .. n - 1 /\ n - 1 + 1 = n
      BY <2>2
    <3>2. n - 1 \in S
      BY <1>1, <3>1
    <3> QED
      BY <3>1, <3>2
  <2> QED
    BY <2>1, <2>2
<1> QED
  BY <1>1, SetInduction

(* What FlattenSeq puts together, piece after piece.                          *)
LEMMA PieceByPiece ==
  ASSUME NEW seqs \in Seq(Seq(Call))
  PROVE  \E f : /\ f[0] = << >> /\ FlattenSeq(seqs) = f[Len(seqs)]
                /\ \A i \in 1 .. Len(seqs) : f[i] = f[i - 1] \o seqs[i]
<1> DEFINE N == Len(seqs)
           One(f, i) == IF i = 1 THEN seqs[i] ELSE f[i - 1] \o seqs[i]
           Flattens(f, n) == f = [i \in 1 .. n |-> One(f, i)]
           S == { n \in Nat : \E f : Flattens(f, n) }
<1>1. N \in Nat /\ \A i \in 1 .. N : seqs[i] \in Seq(Call)
  OBVIOUS
<1>2. 0 \in S
  <2> DEFINE f == [i \in 1 .. 0 |-> 0]
  <2>1. f = [i \in 1 .. 0 |-> One(f, i)]
    OBVIOUS
  <2> HIDE DEF f, One
  <2>2. Flattens(f, 0)
    BY <2>1
  <2> HIDE DEF Flattens
  <2> QED
    BY <2>2
<1>3. ASSUME NEW n \in Nat, n \in S PROVE n + 1 \in S
  <2>1. PICK f : Flattens(f, n)
    BY <1>3
  <2>2. \A i \in 1 .. n : f[i] = One(f, i)
    BY <2>1
  <2> DEFINE h == [i \in 1 .. n + 1 |-> IF i = n + 1 THEN One(f, n + 1) ELSE f[i]]
  <2>3. \A i \in 1 .. n : h[i] = f[i]
    OBVIOUS
  <2>4. h[n + 1] = One(f, n + 1)
    OBVIOUS
  <2>5. h = [i \in 1 .. n + 1 |-> h[i]]
    OBVIOUS
  <2> HIDE DEF h
  <2>6. ASSUME NEW i \in 1 .. n + 1 PROVE h[i] = One(h, i)
    <3>1. CASE i = 1
      <4>1. CASE n = 0
        BY <2>4, <3>1, <4>1
      <4>2. CASE n # 0
        <5>1. 1 \in 1 .. n
          BY <4>2
        <5> QED
          BY <2>2, <2>3, <3>1, <5>1
      <4> QED
        BY <4>1, <4>2
    <3>2. CASE i # 1
      <4>1. i - 1 \in 1 .. n
        BY <3>2
      <4>2. h[i - 1] = f[i - 1]
        BY <2>3, <4>1
      <4>3. One(h, i) = One(f, i)
        BY <3>2, <4>2
      <4>4. h[i] = One(f, i)
        <5>1. i = n + 1 \/ i \in 1 .. n
          OBVIOUS
        <5> HIDE DEF One
        <5> QED
          BY <2>2, <2>3, <2>4, <5>1
      <4> HIDE DEF One
      <4> QED
        BY <4>3, <4>4
    <3> QED
      BY <3>1, <3>2
  <2> HIDE DEF One
  <2>7. h = [i \in 1 .. n + 1 |-> One(h, i)]
    BY <2>5, <2>6
  <2>8. Flattens(h, n + 1)
    BY <2>7
  <2> HIDE DEF Flattens
  <2> QED
    BY <2>8
<1>4. N \in S
  <2> HIDE DEF S
  <2>1. \A n \in Nat : n \in S => n + 1 \in S
    BY <1>3
  <2> QED
    BY <1>1, <1>2, <2>1, StepByStep
<1> DEFINE g == CHOOSE g : g = [i \in 1 .. N |-> IF i = 1 THEN seqs[i] ELSE g[i - 1] \o seqs[i]]
           f == [i \in 0 .. N |-> IF i = 0 THEN << >> ELSE g[i]]
<1>5. g = [i \in 1 .. N |-> IF i = 1 THEN seqs[i] ELSE g[i - 1] \o seqs[i]]
  BY <1>4
<1>6. FlattenSeq(seqs) = IF N = 0 THEN seqs ELSE g[N]
  BY DEF FlattenSeq
<1> HIDE DEF g
<1>7. f[0] = << >> /\ \A i \in 1 .. N : f[i] = g[i]
  BY <1>1
<1>8. FlattenSeq(seqs) = f[N]
  <2>1. N = 0 => seqs = << >>
    OBVIOUS
  <2>2. N # 0 => N \in 1 .. N
    BY <1>1
  <2> HIDE DEF f, N
  <2> QED
    BY <1>6, <1>7, <2>1, <2>2
<1>9. ASSUME NEW i \in 1 .. N PROVE f[i] = f[i - 1] \o seqs[i]
  <2>1. f[i] = IF i = 1 THEN seqs[i] ELSE g[i - 1] \o seqs[i]
    <3>1. g[i] = IF i = 1 THEN seqs[i] ELSE g[i - 1] \o seqs[i]
      BY <1>5
    <3> HIDE DEF f
    <3> QED
      BY <1>7, <3>1
  <2> HIDE DEF f
  <2>2. CASE i = 1
    <3>1. f[i - 1] = << >>
      BY <1>7, <2>2
    <3>2. << >> \o seqs[i] = seqs[i]
      BY <1>1
    <3> QED
      BY <2>1, <2>2, <3>1, <3>2
  <2>3. CASE i # 1
    <3>1. i - 1 \in 1 .. N
      BY <1>1, <2>3
    <3>2. f[i - 1] = g[i - 1]
      BY <1>7, <3>1
    <3> QED
      BY <2>1, <2>3, <3>2
  <2> QED
    BY <2>2, <2>3
<1> HIDE DEF f
<1> QED
  BY <1>7, <1>8, <1>9

LEMMA NothingFlattened ==
  ASSUME NEW seqs \in Seq(Seq(Call)), \A i \in 1 .. Len(seqs) : seqs[i] = << >>
  PROVE  FlattenSeq(seqs) = << >>
<1> DEFINE n == Len(seqs)
<1>1. PICK f : /\ f[0] = << >> /\ FlattenSeq(seqs) = f[n]
               /\ \A i \in 1 .. n : f[i] = f[i - 1] \o seqs[i]
  BY PieceByPiece
<1> DEFINE S == { k \in Nat : k <= n => f[k] = << >> }
<1>2. n \in Nat
  OBVIOUS
<1>3. 0 \in S
  BY <1>1
<1>4. ASSUME NEW k \in Nat, k \in S PROVE k + 1 \in S
  <2>1. CASE k + 1 <= n
    <3> DEFINE j == k + 1
    <3>1. j \in 1 .. n /\ j - 1 = k /\ f[k] = << >>
      BY <1>2, <1>4, <2>1
    <3>2. << >> \o << >> = << >>
      OBVIOUS
    <3> HIDE DEF j
    <3>3. f[j] = << >>
      BY <1>1, <3>1, <3>2
    <3> QED
      BY <3>3 DEF j
  <2>2. CASE ~ (k + 1 <= n)
    BY <2>2
  <2> QED
    BY <2>1, <2>2
<1>5. n \in S
  <2> HIDE DEF S, n
  <2>1. \A k \in Nat : k \in S => k + 1 \in S
    BY <1>4
  <2> QED
    BY <1>2, <1>3, <2>1, StepByStep
<1> QED
  BY <1>1, <1>2, <1>5

LEMMA FlattenedIsCalls ==
  ASSUME NEW seqs \in Seq(Seq(Call))
  PROVE  FlattenSeq(seqs) \in Seq(Call)
<1> DEFINE n == Len(seqs)
<1>1. PICK f : /\ f[0] = << >> /\ FlattenSeq(seqs) = f[n]
               /\ \A i \in 1 .. n : f[i] = f[i - 1] \o seqs[i]
  BY PieceByPiece
<1> DEFINE S == { k \in Nat : k <= n => f[k] \in Seq(Call) }
<1>2. n \in Nat /\ \A i \in 1 .. n : seqs[i] \in Seq(Call)
  OBVIOUS
<1>3. 0 \in S
  <2>1. f[0] \in Seq(Call)
    BY <1>1
  <2> QED
    BY <2>1
<1>4. ASSUME NEW k \in Nat, k \in S PROVE k + 1 \in S
  <2>1. CASE k + 1 <= n
    <3> DEFINE j == k + 1
    <3>1. j \in 1 .. n /\ j - 1 = k /\ f[k] \in Seq(Call)
      BY <1>2, <1>4, <2>1
    <3> HIDE DEF j
    <3>2. f[j] = f[k] \o seqs[j]
      BY <1>1, <3>1
    <3>3. f[j] \in Seq(Call)
      BY <1>2, <3>1, <3>2
    <3> QED
      BY <3>3 DEF j
  <2>2. CASE ~ (k + 1 <= n)
    BY <2>2
  <2> QED
    BY <2>1, <2>2
<1>5. n \in S
  <2> HIDE DEF S, n
  <2>1. \A k \in Nat : k \in S => k + 1 \in S
    BY <1>4
  <2> QED
    BY <1>2, <1>3, <2>1, StepByStep
<1> QED
  BY <1>1, <1>2, <1>5

Together(K, n) == UNION { K[i] : i \in 1 .. n }
(* The sets up to one index, and those before it.                             *)
LEMMA OneMoreTogether ==
  ASSUME NEW K, NEW j, NEW k, 1 .. j = (1 .. k) \cup {j}
  PROVE  Together(K, j) = Together(K, k) \cup K[j]
BY DEF Together

(* Parts with keys of their own, one after the other.                         *)
LEMMA EachIsPart ==
  ASSUME NEW base, NEW seqs \in Seq(Seq(Call)), NEW K, NEW A,
         \A i \in 1 .. Len(seqs) : Part(seqs[i], base, K[i], A[i]),
         \A i, j \in 1 .. Len(seqs) : i # j => K[i] \cap K[j] = {}
  PROVE  Part(FlattenSeq(seqs), base, Together(K, Len(seqs)), Together(A, Len(seqs)))
<1> DEFINE n == Len(seqs)
           Ks(k) == Together(K, k)
           As(k) == Together(A, k)
<1>1. PICK f : /\ f[0] = << >> /\ FlattenSeq(seqs) = f[n]
               /\ \A i \in 1 .. n : f[i] = f[i - 1] \o seqs[i]
  BY PieceByPiece
<1> DEFINE S == { k \in Nat : k <= n => Part(f[k], base, Ks(k), As(k)) }
<1>2. n \in Nat
  OBVIOUS
<1>3. 0 \in S
  <2>1. Ks(0) = {} /\ As(0) = {}
    BY DEF Together
  <2> HIDE DEF Part, Ks, As
  <2>2. Part(f[0], base, Ks(0), As(0))
    BY <1>1, <2>1, NothingWritten
  <2> QED
    BY <2>2
<1>4. ASSUME NEW k \in Nat, k \in S PROVE k + 1 \in S
  <2>1. CASE k + 1 <= n
    <3> DEFINE j == k + 1
    <3>1. j \in 1 .. n /\ j - 1 = k /\ 1 .. j = (1 .. k) \cup {j} /\ 1 .. k \subseteq 1 .. n /\ j \notin 1 .. k
      BY <1>2, <2>1
    <3>2. Part(f[k], base, Ks(k), As(k))
      <4>1. k <= n
        BY <1>2, <2>1
      <4> HIDE DEF Part, Ks, As
      <4> QED
        BY <1>4, <4>1
    <3> HIDE DEF j
    <3>3. f[j] = f[k] \o seqs[j]
      BY <1>1, <3>1
    <3>4. Ks(j) = Ks(k) \cup K[j] /\ As(j) = As(k) \cup A[j]
      BY <3>1, OneMoreTogether
    <3>5. Ks(k) \cap K[j] = {}
      <4>1. \A i \in 1 .. k : K[i] \cap K[j] = {}
        BY <3>1
      <4> QED
        BY <4>1 DEF Together
    <3>6. Part(seqs[j], base, K[j], A[j])
      BY <3>1
    <3> HIDE DEF Part, Ks, As
    <3>7. Part(f[k] \o seqs[j], base, Ks(k) \cup K[j], As(k) \cup A[j])
      BY <3>2, <3>5, <3>6, PartAfterPart
    <3>8. Part(f[j], base, Ks(j), As(j))
      BY <3>3, <3>4, <3>7
    <3> QED
      BY <3>8 DEF j
  <2>2. CASE ~ (k + 1 <= n)
    BY <2>2
  <2> QED
    BY <2>1, <2>2
<1>5. n \in S
  <2> HIDE DEF S, n
  <2>1. \A k \in Nat : k \in S => k + 1 \in S
    BY <1>4
  <2> QED
    BY <1>2, <1>3, <2>1, StepByStep
<1> HIDE DEF Part
<1> QED
  BY <1>1, <1>2, <1>5

-----------------------------------------------------------------------------
(* Parts that are not a function's versions: they find nothing, in an object of *)
(* any level but that of the functions and that of what is in one of them.    *)
Quiet(base, K) ==
    \/ Len(base) = 1 /\ "functions" \notin K
    \/ Len(base) >= 2 /\ base[2].key # "functions"
    \/ Len(base) >= 5
Body(s, K) == s \in Seq(Call) /\ \A base \in Seq(Frames) : Quiet(base, K) => Part(s, base, K, {})

LEMMA AppendIs ==
  ASSUME NEW base \in Seq(Frames), NEW x \in InObject
  PROVE  /\ Append(base, x) \in Seq(Frames) /\ Len(Append(base, x)) = Len(base) + 1 /\ Len(base) \in Nat
         /\ \A i \in 1 .. Len(base) : Append(base, x)[i] = base[i]
         /\ Append(base, x)[Len(base) + 1] = x
BY DEF InObject

LEMMA QuietInside ==
  ASSUME NEW base \in Seq(Frames), NEW K, Quiet(base, K), NEW x \in InObject, x.key \in K
  PROVE  /\ Inside(Append(base, x)) \subseteq Inside(base)
         /\ \A L : Quiet(Append(base, x), L)
<1> DEFINE b == Append(base, x)
           n == Len(base)
<1>1. /\ b \in Seq(Frames) /\ Len(b) = n + 1 /\ n \in Nat
      /\ \A i \in 1 .. n : b[i] = base[i]
      /\ b[n + 1] = x
  BY AppendIs
<1> HIDE DEF b
<1>2. CASE n = 1 /\ "functions" \notin K
  <2>1. Len(b) = 2 /\ b[2].key # "functions"
    BY <1>1, <1>2
  <2> QED
    BY <2>1 DEF Quiet, Inside, b
<1>3. CASE n >= 2 /\ base[2].key # "functions"
  <2>1. Len(b) >= 2 /\ b[2].key # "functions"
    BY <1>1, <1>3
  <2> QED
    BY <2>1 DEF Quiet, Inside, b
<1>4. CASE n >= 5
  <2>1. Len(b) >= 5 /\ b[2] = base[2] /\ b[3] = base[3] /\ b[4] = base[4] /\ b[5] = base[5]
    BY <1>1, <1>4
  <2> HIDE DEF n
  <2>2. Inside(b) = Inside(base)
    BY <1>4, <2>1 DEF Inside, n
  <2> QED
    BY <2>1, <2>2 DEF Quiet, b
<1> QED
  BY <1>2, <1>3, <1>4 DEF Quiet

LEMMA QuietIsFree ==
  ASSUME NEW base \in Seq(Frames), NEW K, Quiet(base, K)
  PROVE  Free(base)
<1> DEFINE n == Len(base)
<1>1. n \in Nat /\ (n = 1 \/ (n >= 2 /\ base[2].key # "functions") \/ n >= 5)
  BY DEF Quiet
<1> HIDE DEF n
<1>2. n # 2 \/ base[2].key # "functions"
  BY <1>1
<1> QED
  BY <1>2 DEF Free, n

LEMMA ItemsAreBody ==
  ASSUME NEW keys \in Seq(Keys), \A i, j \in 1 .. Len(keys) : keys[i] = keys[j] => i = j
  PROVE  Body(Items(keys), { keys[i] : i \in 1 .. Len(keys) })
<1> DEFINE K == { keys[i] : i \in 1 .. Len(keys) }
<1>1. ASSUME NEW base \in Seq(Frames), Quiet(base, K) PROVE Part(Items(keys), base, K, {})
  <2> HIDE DEF Part
  <2> QED
    BY <1>1, QuietIsFree, ItemsArePart
<1>2. Items(keys) \in Seq(Call)
  <2>1. \A i \in 1 .. Len(keys) : Item(keys[i]) \in Call
    BY DEF Item, Call
  <2>2. Items(keys) = [i \in 1 .. Len(keys) |-> Item(keys[i])]
    BY DEF Items
  <2> HIDE DEF Items, Item, Call
  <2> QED
    BY <2>1, <2>2
<1> HIDE DEF Part
<1> QED
  BY <1>1, <1>2 DEF Body

LEMMA ItemIsBody ==
  ASSUME NEW key \in Keys
  PROVE  Body(<< Item(key) >>, {key})
<1>1. << Item(key) >> \in Seq(Call)
  <2>1. Item(key) \in Call
    BY DEF Item, Call
  <2> HIDE DEF Item, Call
  <2> QED
    BY <2>1
<1>2. ASSUME NEW base \in Seq(Frames), Quiet(base, {key}) PROVE Part(<< Item(key) >>, base, {key}, {})
  <2> HIDE DEF Part
  <2> QED
    BY <1>2, QuietIsFree, ItemIsPart
<1> HIDE DEF Part
<1> QED
  BY <1>1, <1>2 DEF Body

LEMMA BodyAfterBody ==
  ASSUME NEW s, NEW t, NEW K, NEW L, Body(s, K), Body(t, L), K \cap L = {}
  PROVE  Body(s \o t, K \cup L)
<1>1. ASSUME NEW base \in Seq(Frames), Quiet(base, K \cup L) PROVE Part(s \o t, base, K \cup L, {})
  <2>1. Quiet(base, K) /\ Quiet(base, L)
    BY <1>1 DEF Quiet
  <2> HIDE DEF Part, Quiet
  <2>2. Part(s, base, K, {}) /\ Part(t, base, L, {})
    BY <2>1 DEF Body
  <2>3. {} \cup {} = {}
    OBVIOUS
  <2> QED
    BY <2>2, <2>3, PartAfterPart
<1>2. s \o t \in Seq(Call)
  BY DEF Body
<1> HIDE DEF Part
<1> QED
  BY <1>1, <1>2 DEF Body

LEMMA NothingIsBody ==
  ASSUME NEW K
  PROVE  Body(<< >>, K)
<1> HIDE DEF Part
<1>1. \A base : Part(<< >>, base, K, {})
  BY NothingWritten, PartOfMore
<1> QED
  BY <1>1 DEF Body

LEMMA OptionalIsBody ==
  ASSUME NEW s, NEW K, Body(s, K), NEW c
  PROVE  Body(Optional(c, s), K)
<1>1. Optional(c, s) = s \/ Optional(c, s) = << >>
  BY DEF Optional
<1> HIDE DEF Body, Optional
<1> QED
  BY <1>1, NothingIsBody

LEMMA BracketsAreCalls ==
  ASSUME NEW key \in Keys, NEW type \in {"object", "array"}, NEW body \in Seq(Call)
  PROVE  << Push(key, type) >> \o body \o << Pop(type) >> \in Seq(Call)
<1>1. Push(key, type) \in Call /\ Pop(type) \in Call
  BY DEF Push, Pop, Call
<1> HIDE DEF Push, Pop, Call
<1> QED
  BY <1>1

LEMMA KeyedIsCalls ==
  ASSUME NEW key \in Keys, NEW body \in Seq(Call)
  PROVE  Keyed(key, body) \in Seq(Call)
<1>1. Keyed(key, body) = << Push(key, "object") >> \o body \o << Pop("object") >>
  BY NoKeyIsNoKey DEF Keyed
<1>2. "object" \in {"object", "array"}
  OBVIOUS
<1> QED
  BY <1>1, <1>2, BracketsAreCalls

LEMMA KeyedIsBody ==
  ASSUME NEW key \in Keys, NEW body, NEW L, Body(body, L)
  PROVE  Body(Keyed(key, body), {key})
<1>1. ASSUME NEW base \in Seq(Frames), Quiet(base, {key}) PROVE Part(Keyed(key, body), base, {key}, {})
  <2>1. ASSUME NEW x \in InObject, x.key = key
        PROVE  Part(body, Append(base, x), L, {}) /\ Inside(Append(base, x)) \subseteq Inside(base)
    <3>1. x.key \in {key} /\ Append(base, x) \in Seq(Frames)
      BY <2>1, AppendIs
    <3> HIDE DEF Part, Quiet, Inside
    <3>2. Inside(Append(base, x)) \subseteq Inside(base) /\ \A M : Quiet(Append(base, x), M)
      BY <1>1, <3>1, QuietInside
    <3> QED
      BY <3>1, <3>2 DEF Body
  <2> HIDE DEF Part, Quiet, Inside
  <2>2. \A x \in InObject : \A fd :
            x.key = key /\ Inside(base) \subseteq fd
            => (fd \cup Inside(Append(base, x))) \cup {} = fd \cup {}
    BY <2>1
  <2>3. body \in Seq(Call)
    BY DEF Body
  <2>4. \A x \in InObject : x.key = key => Part(body, Append(base, x), L, {})
    BY <2>1
  <2>5. Free(base)
    BY <1>1, QuietIsFree
  <2> QED
    BY <2>2, <2>3, <2>4, <2>5, KeyedIsPart
<1>2. Keyed(key, body) \in Seq(Call)
  BY KeyedIsCalls DEF Body
<1> HIDE DEF Part
<1> QED
  BY <1>1, <1>2 DEF Body

LEMMA ArrayIsBody ==
  ASSUME NEW key \in Keys, NEW n \in Nat
  PROVE  Body(Array(key, n), {key})
<1>1. ASSUME NEW base \in Seq(Frames), Quiet(base, {key}) PROVE Part(Array(key, n), base, {key}, {})
  <2>1. \A x \in InObject : x.key = key => Inside(Append(base, x)) \subseteq Inside(base)
    <3> HIDE DEF Quiet, Inside
    <3> QED
      BY <1>1, QuietInside
  <2>2. Free(base)
    BY <1>1, QuietIsFree
  <2> HIDE DEF Part, Inside, Free
  <2> QED
    BY <2>1, <2>2, ArrayIsPart
<1>2. Array(key, n) \in Seq(Call)
  <2> DEFINE body == [i \in 1 .. n |-> Item(NoKey)]
             T == "array"
  <2>1. Item(NoKey) \in Call
    BY DEF Item, Call
  <2>2. body \in Seq(Call)
    <3> HIDE DEF Item, Call
    <3> QED
      BY <2>1
  <2>3. Array(key, n) = << Push(key, T) >> \o body \o << Pop(T) >>
    BY DEF Array
  <2>4. T \in {"object", "array"}
    OBVIOUS
  <2> HIDE DEF body, T
  <2> QED
    BY <2>2, <2>3, <2>4, BracketsAreCalls
<1> HIDE DEF Part
<1> QED
  BY <1>1, <1>2 DEF Body

LEMMA EachIsBody ==
  ASSUME NEW seqs \in Seq(Seq(Call)), NEW K,
         \A i \in 1 .. Len(seqs) : Body(seqs[i], K[i]),
         \A i, j \in 1 .. Len(seqs) : i # j => K[i] \cap K[j] = {}
  PROVE  Body(FlattenSeq(seqs), Together(K, Len(seqs)))
<1> DEFINE n == Len(seqs)
           A == [i \in 1 .. n |-> {}]
           U == Together(K, n)
<1>1. ASSUME NEW base \in Seq(Frames), Quiet(base, U) PROVE Part(FlattenSeq(seqs), base, U, {})
  <2>1. ASSUME NEW i \in 1 .. n PROVE Part(seqs[i], base, K[i], A[i])
    <3>1. Quiet(base, K[i])
      BY <1>1 DEF Quiet, Together
    <3> HIDE DEF Part, Quiet
    <3> QED
      BY <3>1 DEF Body
  <2>2. Together(A, n) = {}
    BY DEF Together
  <2> HIDE DEF Part, A
  <2>a. \A i \in 1 .. Len(seqs) : Part(seqs[i], base, K[i], A[i])
    BY <2>1
  <2>3. Part(FlattenSeq(seqs), base, U, Together(A, n))
    BY <2>a, EachIsPart
  <2> QED
    BY <2>2, <2>3
<1>2. FlattenSeq(seqs) \in Seq(Call)
  BY FlattenedIsCalls
<1> HIDE DEF Part
<1> QED
  BY <1>1, <1>2 DEF Body

-----------------------------------------------------------------------------
(* What the functions of checkasm.c write: keys that differ.                  *)
Listed(keys, K) ==
    /\ keys \in Seq(Keys) /\ \A i, j \in 1 .. Len(keys) : keys[i] = keys[j] => i = j
    /\ \A i \in 1 .. Len(keys) : keys[i] \in K

LEMMA BodyOfMore ==
  ASSUME NEW s, NEW K, NEW L, Body(s, K), K \subseteq L
  PROVE  Body(s, L)
<1>1. ASSUME NEW base \in Seq(Frames), Quiet(base, L) PROVE Part(s, base, L, {})
  <2>1. Quiet(base, K)
    BY <1>1 DEF Quiet
  <2> HIDE DEF Part, Quiet
  <2> QED
    BY <2>1, PartOfMore DEF Body
<1> HIDE DEF Part
<1> QED
  BY <1>1 DEF Body

LEMMA ListIsBody ==
  ASSUME NEW keys, NEW K, Listed(keys, K)
  PROVE  Body(Items(keys), K)
<1> DEFINE L == { keys[i] : i \in 1 .. Len(keys) }
<1>1. keys \in Seq(Keys) /\ (\A i, j \in 1 .. Len(keys) : keys[i] = keys[j] => i = j) /\ L \subseteq K
  BY DEF Listed
<1>2. Body(Items(keys), L)
  <2> HIDE DEF Body, Items
  <2> QED
    BY <1>1, ItemsAreBody
<1> HIDE DEF Body, L
<1> QED
  BY <1>1, <1>2, BodyOfMore

VarSet == { "mode", "median", "mean", "lowerCI", "upperCI", "stdDev", "logMean", "logVar" }
LEMMA VarKeysListed == Listed(VarKeys, VarSet)
BY DEF Listed, VarKeys, VarSet, Keys, FixedKeys

LEMMA UnkeyedVarIsBody ==
  ASSUME NEW unit
  PROVE  Body(Var(NoKey, unit), VarSet \cup {"unit"})
<1>1. "unit" \in Keys /\ {"unit"} \cap VarSet = {}
  BY DEF Keys, FixedKeys, VarSet
<1> HIDE DEF Body, Items, Optional
<1>2. Body(Optional(unit, << Item("unit") >>), {"unit"})
  BY <1>1, ItemIsBody, OptionalIsBody
<1>3. Body(Items(VarKeys), VarSet)
  BY VarKeysListed, ListIsBody
<1>4. Body(Optional(unit, << Item("unit") >>) \o Items(VarKeys), {"unit"} \cup VarSet)
  BY <1>1, <1>2, <1>3, BodyAfterBody
<1>5. {"unit"} \cup VarSet = VarSet \cup {"unit"}
  OBVIOUS
<1>6. Var(NoKey, unit) = Optional(unit, << Item("unit") >>) \o Items(VarKeys)
  BY DEF Var, Keyed
<1> QED
  BY <1>4, <1>5, <1>6

LEMMA VarIsBody ==
  ASSUME NEW key \in Keys, NEW unit
  PROVE  Body(Var(key, unit), {key})
<1> DEFINE body == Optional(unit, << Item("unit") >>) \o Items(VarKeys)
<1>1. Var(NoKey, unit) = body /\ Var(key, unit) = Keyed(key, body)
  BY DEF Var, Keyed
<1> HIDE DEF Body, body
<1> QED
  BY <1>1, UnkeyedVarIsBody, KeyedIsBody

LEMMA MeasurementIsBody ==
  ASSUME NEW key \in Keys, NEW samples \in Int
  PROVE  Body(Measurement(key, samples), {key})
<1> DEFINE num == << Item("numMeasurements") >>
           more == Var("regressionSlope", TRUE) \o Array("rawData", samples)
           body == Var(NoKey, TRUE) \o num \o Optional(samples > 0, more)
           S == VarSet \cup {"unit"}
           L == {"regressionSlope"} \cup {"rawData"}
<1>1. /\ {"numMeasurements", "regressionSlope", "rawData"} \subseteq Keys
      /\ S \cap {"numMeasurements"} = {} /\ (S \cup {"numMeasurements"}) \cap L = {}
      /\ {"regressionSlope"} \cap {"rawData"} = {}
  BY DEF Keys, FixedKeys, VarSet
<1>2. Measurement(key, samples) = Keyed(key, body)
  BY DEF Measurement
<1>3. Body(Optional(samples > 0, more), L)
  <2>1. CASE samples > 0
    <3> HIDE DEF Body
    <3>1. samples \in Nat
      BY <2>1
    <3>2. Body(Var("regressionSlope", TRUE), {"regressionSlope"}) /\ Body(Array("rawData", samples), {"rawData"})
      BY <1>1, <3>1, VarIsBody, ArrayIsBody
    <3>3. Body(more, L)
      BY <1>1, <3>2, BodyAfterBody
    <3> HIDE DEF more, L
    <3> QED
      BY <3>3, OptionalIsBody
  <2>2. CASE ~ (samples > 0)
    <3>1. Optional(samples > 0, more) = << >>
      BY <2>2 DEF Optional
    <3> HIDE DEF Body
    <3> QED
      BY <3>1, NothingIsBody
  <2> QED
    BY <2>1, <2>2
<1> DEFINE rest == Optional(samples > 0, more)
<1> HIDE DEF Body, rest, S, L
<1>4. Body(Var(NoKey, TRUE), S) /\ Body(num, {"numMeasurements"}) /\ Body(rest, L)
  BY <1>1, <1>3, UnkeyedVarIsBody, ItemIsBody DEF S, rest
<1> HIDE DEF num
<1>5. Body(Var(NoKey, TRUE) \o num, S \cup {"numMeasurements"})
  BY <1>1, <1>4, BodyAfterBody
<1>6. Body(Var(NoKey, TRUE) \o num \o rest, (S \cup {"numMeasurements"}) \cup L)
  BY <1>1, <1>4, <1>5, BodyAfterBody
<1>7. Body(body, (S \cup {"numMeasurements"}) \cup L)
  BY <1>6 DEF rest
<1> HIDE DEF body
<1> QED
  BY <1>2, <1>7, KeyedIsBody

LEMMA CpuFlagIsBody ==
  ASSUME NEW info \in FlagInfo
  PROVE  Body(CpuFlag(info), {info.suffix})
<1> DEFINE names == <<"name", "available">>
           N == {"name", "available"}
<1>1. Listed(names, N) /\ "mask" \in Keys /\ N \cap {"mask"} = {}
  BY DEF Listed, Keys, FixedKeys
<1>2. info.suffix \in Keys /\ info.masks \in Nat
  BY DEF FlagInfo, Keys
<1> HIDE DEF Body, names, N
<1>3. Body(Items(names), N)
  BY <1>1, ListIsBody
<1>4. Body(CpuMask(info), {"mask"})
  BY <1>1, <1>2, ArrayIsBody, OptionalIsBody DEF CpuMask
<1>5. Body(Items(names) \o CpuMask(info), N \cup {"mask"})
  BY <1>1, <1>3, <1>4, BodyAfterBody
<1>6. Body(Keyed(info.suffix, Items(names) \o CpuMask(info)), {info.suffix})
  BY <1>2, <1>5, KeyedIsBody
<1> QED
  BY <1>6 DEF CpuFlag, names

LEMMA ConfigIsBody ==
  ASSUME NEW tests, NEW functions, NEW affinity
  PROVE  Body(Keyed("config",
                Optional(tests, << Item("testPattern") >>)
                \o Optional(functions, << Item("functionPattern") >>)
                \o Items(<<"benchUsec", "seed", "repeat">>)
                \o Optional(affinity, << Item("cpuAffinity") >>)), {"config"})
<1> DEFINE A == {"testPattern"}
           F == {"functionPattern"}
           b == <<"benchUsec", "seed", "repeat">>
           B == {"benchUsec", "seed", "repeat"}
           C == {"cpuAffinity"}
           a == << Item("testPattern") >>
           f == << Item("functionPattern") >>
           c == << Item("cpuAffinity") >>
<1>1. /\ Listed(b, B) /\ "cpuAffinity" \in Keys /\ "config" \in Keys
      /\ "testPattern" \in Keys /\ "functionPattern" \in Keys
      /\ A \cap F = {} /\ (A \cup F) \cap B = {} /\ ((A \cup F) \cup B) \cap C = {}
  BY DEF Listed, Keys, FixedKeys
<1> HIDE DEF Body, b, B
<1>2. Body(a, A) /\ Body(f, F) /\ Body(c, C)
  BY <1>1, ItemIsBody
<1> HIDE DEF a, f, c, A, F, C
<1>3. /\ Body(Optional(tests, a), A) /\ Body(Optional(functions, f), F)
      /\ Body(Items(b), B) /\ Body(Optional(affinity, c), C)
  BY <1>1, <1>2, ListIsBody, OptionalIsBody
<1>4. Body(Optional(tests, a) \o Optional(functions, f), A \cup F)
  BY <1>1, <1>3, BodyAfterBody
<1>5. Body(Optional(tests, a) \o Optional(functions, f) \o Items(b), (A \cup F) \cup B)
  BY <1>1, <1>3, <1>4, BodyAfterBody
<1>6. Body(Optional(tests, a) \o Optional(functions, f) \o Items(b) \o Optional(affinity, c),
           ((A \cup F) \cup B) \cup C)
  BY <1>1, <1>3, <1>5, BodyAfterBody
<1>7. Body(Keyed("config", Optional(tests, a) \o Optional(functions, f) \o Items(b)
                           \o Optional(affinity, c)), {"config"})
  BY <1>1, <1>6, KeyedIsBody
<1> QED
  BY <1>7 DEF a, b, c, f

LEMMA CpuFlagsAreBody ==
  ASSUME NEW r \in Reports
  PROVE  Body(Keyed("cpuFlags", ForEach(r.flags, CpuFlag)), {"cpuFlags"})
<1> DEFINE n == Len(r.flags)
           seqs == [i \in DOMAIN r.flags |-> CpuFlag(r.flags[i])]
           K == [i \in DOMAIN r.flags |-> {r.flags[i].suffix}]
<1>1. r.flags \in Seq(FlagInfo) /\ \A i, j \in DOMAIN r.flags : r.flags[i].suffix = r.flags[j].suffix => i = j
  BY ReportsAssumption, KeysDiffer
<1>2. n \in Nat /\ DOMAIN r.flags = 1 .. n /\ \A i \in 1 .. n : r.flags[i] \in FlagInfo
  BY <1>1
<1>3. \A i \in 1 .. n : Body(CpuFlag(r.flags[i]), {r.flags[i].suffix})
  BY <1>2, CpuFlagIsBody
<1>4. \A i \in 1 .. n : CpuFlag(r.flags[i]) \in Seq(Call)
  BY <1>3 DEF Body
<1> HIDE DEF Body
<1>5. seqs \in Seq(Seq(Call)) /\ Len(seqs) = n
  <2> HIDE DEF CpuFlag, FlagInfo, Call
  <2> QED
    BY <1>2, <1>4
<1>6. \A i \in 1 .. n : seqs[i] = CpuFlag(r.flags[i]) /\ K[i] = {r.flags[i].suffix}
  BY <1>2
<1>7. ForEach(r.flags, CpuFlag) = FlattenSeq(seqs)
  BY DEF ForEach
<1> HIDE DEF seqs, K
<1>8. \A i \in 1 .. n : Body(seqs[i], K[i])
  BY <1>3, <1>6
<1>9. \A i, j \in 1 .. n : i # j => K[i] \cap K[j] = {}
  BY <1>1, <1>2, <1>6
<1>10. Body(FlattenSeq(seqs), Together(K, n))
  BY <1>5, <1>8, <1>9, EachIsBody
<1>11. "cpuFlags" \in Keys
  BY DEF Keys, FixedKeys
<1> QED
  BY <1>7, <1>10, <1>11, KeyedIsBody

SettingKeys ==
    { "checkasmVersion", "numChecked", "numFailed", "targetCycles", "numBenchmarks", "config", "cpuInfo",
      "cpuFlags", "tests", "nopCycles", "timerScale", "nopTime", "numFunctions" }
LEMMA SettingsAreBody ==
  ASSUME NEW r \in Reports
  PROVE  Body(Settings(r), SettingKeys)
<1> DEFINE k1 == <<"checkasmVersion", "numChecked", "numFailed", "targetCycles", "numBenchmarks">>
           s1 == Items(k1)
           s2 == Keyed("config",
                   Optional(r.test_pattern, << Item("testPattern") >>)
                   \o Optional(r.function_pattern, << Item("functionPattern") >>)
                   \o Items(<<"benchUsec", "seed", "repeat">>)
                   \o Optional(r.affinity, << Item("cpuAffinity") >>))
           s3 == Array("cpuInfo", r.infos)
           s4 == Keyed("cpuFlags", ForEach(r.flags, CpuFlag))
           s5 == Array("tests", r.tests)
           s6 == Measurement("nopCycles", r.nop_samples)
           s7 == Measurement("timerScale", r.scale_samples)
           s8 == Var("nopTime", TRUE)
           s9 == << Item("numFunctions") >>
           D1 == {"checkasmVersion", "numChecked", "numFailed", "targetCycles", "numBenchmarks"}
           D2 == D1 \cup {"config"}
           D3 == D2 \cup {"cpuInfo"}
           D4 == D3 \cup {"cpuFlags"}
           D5 == D4 \cup {"tests"}
           D6 == D5 \cup {"nopCycles"}
           D7 == D6 \cup {"timerScale"}
           D8 == D7 \cup {"nopTime"}
           D9 == D8 \cup {"numFunctions"}
<1>1. r.infos \in Nat /\ r.tests \in Nat /\ r.nop_samples \in Int /\ r.scale_samples \in Int
  BY ReportsAssumption
<1>2. /\ Listed(k1, D1)
      /\ {"cpuInfo", "tests", "nopCycles", "timerScale", "nopTime", "numFunctions"} \subseteq Keys
  BY DEF Listed, Keys, FixedKeys
<1>3. /\ D1 \cap {"config"} = {} /\ D2 \cap {"cpuInfo"} = {} /\ D3 \cap {"cpuFlags"} = {}
      /\ D4 \cap {"tests"} = {} /\ D5 \cap {"nopCycles"} = {} /\ D6 \cap {"timerScale"} = {}
      /\ D7 \cap {"nopTime"} = {} /\ D8 \cap {"numFunctions"} = {} /\ D9 = SettingKeys
  BY DEF SettingKeys
<1>4. Settings(r) = s1 \o s2 \o s3 \o s4 \o s5 \o s6 \o s7 \o s8 \o s9
  BY DEF Settings
<1> HIDE DEF Body, k1, D1, D2, D3, D4, D5, D6, D7, D8, D9
<1>5. Body(s1, D1) /\ Body(s2, {"config"})
  BY <1>2, ListIsBody, ConfigIsBody
<1>6. Body(s3, {"cpuInfo"}) /\ Body(s5, {"tests"})
  BY <1>1, <1>2, ArrayIsBody
<1>7. Body(s4, {"cpuFlags"}) /\ Body(s6, {"nopCycles"}) /\ Body(s7, {"timerScale"})
  BY <1>1, <1>2, CpuFlagsAreBody, MeasurementIsBody
<1>8. Body(s8, {"nopTime"}) /\ Body(s9, {"numFunctions"})
  BY <1>2, VarIsBody, ItemIsBody
<1> HIDE DEF s1, s2, s3, s4, s5, s6, s7, s8, s9
<1>a. Body(s1 \o s2, D2)
  BY <1>3, <1>5, BodyAfterBody DEF D2
<1>b. Body(s1 \o s2 \o s3, D3)
  BY <1>3, <1>6, <1>a, BodyAfterBody DEF D3
<1>c. Body(s1 \o s2 \o s3 \o s4, D4)
  BY <1>3, <1>7, <1>b, BodyAfterBody DEF D4
<1>d. Body(s1 \o s2 \o s3 \o s4 \o s5, D5)
  BY <1>3, <1>6, <1>c, BodyAfterBody DEF D5
<1>e. Body(s1 \o s2 \o s3 \o s4 \o s5 \o s6, D6)
  BY <1>3, <1>7, <1>d, BodyAfterBody DEF D6
<1>f. Body(s1 \o s2 \o s3 \o s4 \o s5 \o s6 \o s7, D7)
  BY <1>3, <1>7, <1>e, BodyAfterBody DEF D7
<1>g. Body(s1 \o s2 \o s3 \o s4 \o s5 \o s6 \o s7 \o s8, D8)
  BY <1>3, <1>8, <1>f, BodyAfterBody DEF D8
<1>h. Body(s1 \o s2 \o s3 \o s4 \o s5 \o s6 \o s7 \o s8 \o s9, D9)
  BY <1>3, <1>8, <1>g, BodyAfterBody DEF D9
<1> QED
  BY <1>3, <1>4, <1>h

-----------------------------------------------------------------------------
(* A version, whose object is the one that is found.                          *)
LEMMA VersionIsPart ==
  ASSUME NEW base \in Seq(Frames), Len(base) = 4, base[2].key = "functions", base[4].key = "versions",
         NEW f \in ReportedFunction, base[3].key = f.name, NEW v \in FunctionVersion
  PROVE  Part(Version(f, v), base, {v.suffix}, {<<f.name, v.suffix>>})
<1> DEFINE s1 == Measurement("rawCycles", v.samples)
           s2 == Var("rawTime", TRUE)
           s3 == Var("adjustedCycles", TRUE)
           s4 == Var("adjustedTime", TRUE)
           s5 == Optional(Ratio(f, v), Var("ratio", FALSE))
           body == s1 \o s2 \o s3 \o s4 \o s5
           D2 == {"rawCycles"} \cup {"rawTime"}
           D3 == D2 \cup {"adjustedCycles"}
           D4 == D3 \cup {"adjustedTime"}
           D5 == D4 \cup {"ratio"}
           B == {<<f.name, v.suffix>>}
<1>1. v.suffix \in Keys /\ v.samples \in Int
  BY DEF FunctionVersion, Keys
<1>2. /\ {"rawCycles", "rawTime", "adjustedCycles", "adjustedTime", "ratio"} \subseteq Keys
      /\ {"rawCycles"} \cap {"rawTime"} = {} /\ D2 \cap {"adjustedCycles"} = {}
      /\ D3 \cap {"adjustedTime"} = {} /\ D4 \cap {"ratio"} = {}
  BY DEF Keys, FixedKeys
<1>3. Version(f, v) = Keyed(v.suffix, body)
  BY DEF Version
<1> HIDE DEF Body, D2, D3, D4, D5
<1>4. Body(s1, {"rawCycles"}) /\ Body(s2, {"rawTime"}) /\ Body(s3, {"adjustedCycles"})
  BY <1>1, <1>2, MeasurementIsBody, VarIsBody
<1>5. Body(s4, {"adjustedTime"}) /\ Body(s5, {"ratio"})
  BY <1>2, VarIsBody, OptionalIsBody
<1> HIDE DEF s1, s2, s3, s4, s5
<1>a. Body(s1 \o s2, D2)
  BY <1>2, <1>4, BodyAfterBody DEF D2
<1>b. Body(s1 \o s2 \o s3, D3)
  BY <1>2, <1>4, <1>a, BodyAfterBody DEF D3
<1>c. Body(s1 \o s2 \o s3 \o s4, D4)
  BY <1>2, <1>5, <1>b, BodyAfterBody DEF D4
<1>d. Body(body, D5)
  BY <1>2, <1>5, <1>c, BodyAfterBody DEF D5
<1> HIDE DEF body
<1>6. ASSUME NEW x \in InObject, x.key = v.suffix
      PROVE  Inside(Append(base, x)) = B /\ Part(body, Append(base, x), D5, {})
  <2> DEFINE b == Append(base, x)
  <2>1. /\ b \in Seq(Frames) /\ Len(b) = 4 + 1
        /\ b[2] = base[2] /\ b[3] = base[3] /\ b[4] = base[4] /\ b[5] = x
    <3>1. /\ b \in Seq(Frames) /\ Len(b) = Len(base) + 1
          /\ \A i \in 1 .. Len(base) : b[i] = base[i]
          /\ b[Len(base) + 1] = x
      BY AppendIs
    <3> HIDE DEF b
    <3> QED
      BY <3>1
  <2> HIDE DEF b
  <2>2. Len(b) >= 5 /\ Inside(b) = B
    BY <1>6, <2>1 DEF Inside
  <2>3. Quiet(b, D5)
    BY <2>2 DEF Quiet
  <2> HIDE DEF Part, Quiet, Inside, B
  <2>4. Part(body, b, D5, {})
    BY <1>d, <2>1, <2>3 DEF Body
  <2> QED
    BY <2>2, <2>4 DEF b
<1>7. body \in Seq(Call) /\ Free(base)
  BY <1>d DEF Body, Free
<1> HIDE DEF Part, Inside, Free, B
<1>8. \A x \in InObject : \A fd :
            x.key = v.suffix /\ Inside(base) \subseteq fd
            => (fd \cup Inside(Append(base, x))) \cup {} = fd \cup B
  BY <1>6
<1>9. \A x \in InObject : x.key = v.suffix => Part(body, Append(base, x), D5, {})
  BY <1>6
<1>10. Part(Keyed(v.suffix, body), base, {v.suffix}, B)
  BY <1>1, <1>7, <1>8, <1>9, KeyedIsPart
<1> QED
  BY <1>3, <1>10 DEF B

BenchmarksOf(f) == { <<f.name, v.suffix>> : v \in { v \in ToSet(f.versions) : v.measured } }
VersionsOf(f) == ForEach(f.versions, LAMBDA v : VersionIfMeasured(f, v))
Differ(f) == \A a, b \in DOMAIN f.versions : f.versions[a].suffix = f.versions[b].suffix => a = b

LEMMA BenchmarksAre ==
  ASSUME NEW f \in ReportedFunction
  PROVE  \A b : b \in BenchmarksOf(f) <=>
                   \E i \in 1 .. Len(f.versions) : f.versions[i].measured /\ b = <<f.name, f.versions[i].suffix>>
<1>1. f.versions \in Seq(FunctionVersion)
  BY DEF ReportedFunction
<1>2. ToSet(f.versions) = { f.versions[i] : i \in 1 .. Len(f.versions) }
  BY <1>1 DEF ToSet
<1> QED
  BY <1>2 DEF BenchmarksOf

LEMMA SomeLevels ==
  ASSUME NEW f \in ReportedFunction
  PROVE  \E base \in Seq(Frames) :
            Len(base) = 4 /\ base[2].key = "functions" /\ base[3].key = f.name /\ base[4].key = "versions"
<1> DEFINE R(key) == [kind |-> "object", wants |-> "next", keys |-> {}, key |-> key]
           base == << R("name"), R("functions"), R(f.name), R("versions") >>
<1>1. f.name \in Keys /\ {"name", "functions", "versions"} \subseteq Keys
  BY DEF ReportedFunction, Keys, FixedKeys
<1>2. \A key \in Keys : R(key) \in Frames /\ R(key).key = key
  BY DEF Frames
<1> HIDE DEF R
<1>3. base \in Seq(Frames) /\ Len(base) = 4
  BY <1>1, <1>2
<1>4. base[2].key = "functions" /\ base[3].key = f.name /\ base[4].key = "versions"
  BY <1>1, <1>2
<1> QED
  BY <1>3, <1>4

LEMMA VersionsAre ==
  ASSUME NEW f \in ReportedFunction
  PROVE  \E seqs \in Seq(Seq(Call)) :
            /\ Len(seqs) = Len(f.versions) /\ VersionsOf(f) = FlattenSeq(seqs)
            /\ \A i \in 1 .. Len(seqs) :
                  seqs[i] = IF f.versions[i].measured THEN Version(f, f.versions[i]) ELSE << >>
<1> DEFINE n == Len(f.versions)
           seqs == [i \in DOMAIN f.versions |-> VersionIfMeasured(f, f.versions[i])]
<1>1. f.versions \in Seq(FunctionVersion)
  BY DEF ReportedFunction
<1>2. n \in Nat /\ DOMAIN f.versions = 1 .. n /\ \A i \in 1 .. n : f.versions[i] \in FunctionVersion
  BY <1>1
<1>3. VersionsOf(f) = FlattenSeq(seqs)
  BY DEF VersionsOf, ForEach
<1>4. ASSUME NEW v \in FunctionVersion
      PROVE  /\ VersionIfMeasured(f, v) \in Seq(Call)
             /\ VersionIfMeasured(f, v) = IF v.measured THEN Version(f, v) ELSE << >>
  <2>1. VersionIfMeasured(f, v) = IF v.measured THEN Version(f, v) ELSE << >>
    BY DEF VersionIfMeasured, Optional
  <2>2. Version(f, v) \in Seq(Call)
    <3>1. PICK base \in Seq(Frames) :
             /\ Len(base) = 4 /\ base[2].key = "functions" /\ base[3].key = f.name /\ base[4].key = "versions"
      BY SomeLevels
    <3> HIDE DEF Part
    <3>5. Part(Version(f, v), base, {v.suffix}, {<<f.name, v.suffix>>})
      BY <3>1, VersionIsPart
    <3> QED
      BY <3>5 DEF Part
  <2> QED
    BY <2>1, <2>2
<1>5. \A i \in 1 .. n : seqs[i] = VersionIfMeasured(f, f.versions[i])
  BY <1>2
<1>6. seqs \in Seq(Seq(Call)) /\ Len(seqs) = n
  <2>1. \A i \in 1 .. n : VersionIfMeasured(f, f.versions[i]) \in Seq(Call)
    BY <1>2, <1>4
  <2> HIDE DEF VersionIfMeasured, Call
  <2> QED
    BY <1>2, <2>1
<1> HIDE DEF seqs
<1> QED
  BY <1>2, <1>3, <1>4, <1>5, <1>6

LEMMA NoVersions ==
  ASSUME NEW f \in ReportedFunction, BenchmarksOf(f) = {}
  PROVE  VersionsOf(f) = << >>
<1>1. PICK seqs \in Seq(Seq(Call)) :
            /\ Len(seqs) = Len(f.versions) /\ VersionsOf(f) = FlattenSeq(seqs)
            /\ \A i \in 1 .. Len(seqs) :
                  seqs[i] = IF f.versions[i].measured THEN Version(f, f.versions[i]) ELSE << >>
  BY VersionsAre
<1>2. \A i \in 1 .. Len(f.versions) : ~ f.versions[i].measured
  BY BenchmarksAre
<1>3. \A i \in 1 .. Len(seqs) : seqs[i] = << >>
  BY <1>1, <1>2
<1> QED
  BY <1>1, <1>3, NothingFlattened

LEMMA VersionsArePart ==
  ASSUME NEW base \in Seq(Frames), Len(base) = 4, base[2].key = "functions", base[4].key = "versions",
         NEW f \in ReportedFunction, base[3].key = f.name, Differ(f)
  PROVE  Part(VersionsOf(f), base, Keys, BenchmarksOf(f))
<1>1. PICK seqs \in Seq(Seq(Call)) :
            /\ Len(seqs) = Len(f.versions) /\ VersionsOf(f) = FlattenSeq(seqs)
            /\ \A i \in 1 .. Len(seqs) :
                  seqs[i] = IF f.versions[i].measured THEN Version(f, f.versions[i]) ELSE << >>
  BY VersionsAre
<1> DEFINE n == Len(seqs)
           K == [i \in 1 .. n |-> IF f.versions[i].measured THEN {f.versions[i].suffix} ELSE {}]
           A == [i \in 1 .. n |-> IF f.versions[i].measured THEN {<<f.name, f.versions[i].suffix>>} ELSE {}]
<1>2. f.versions \in Seq(FunctionVersion)
  BY DEF ReportedFunction
<1>3. n \in Nat /\ DOMAIN f.versions = 1 .. n /\ \A i \in 1 .. n : f.versions[i] \in FunctionVersion
  BY <1>1, <1>2
<1>4. \A i \in 1 .. n : /\ K[i] = IF f.versions[i].measured THEN {f.versions[i].suffix} ELSE {}
                        /\ A[i] = IF f.versions[i].measured THEN {<<f.name, f.versions[i].suffix>>} ELSE {}
  OBVIOUS
<1> HIDE DEF K, A
<1>5. ASSUME NEW i \in 1 .. n PROVE Part(seqs[i], base, K[i], A[i])
  <2> DEFINE v == f.versions[i]
  <2>1. CASE v.measured
    <3>1. seqs[i] = Version(f, v) /\ K[i] = {v.suffix} /\ A[i] = {<<f.name, v.suffix>>} /\ v \in FunctionVersion
      BY <1>1, <1>3, <1>4, <2>1
    <3> HIDE DEF v, Part
    <3> QED
      BY <3>1, VersionIsPart
  <2>2. CASE ~ v.measured
    <3>1. seqs[i] = << >> /\ K[i] = {} /\ A[i] = {}
      BY <1>1, <1>4, <2>2
    <3> HIDE DEF v, Part
    <3> QED
      BY <3>1, NothingWritten
  <2> QED
    BY <2>1, <2>2
<1>6. ASSUME NEW i \in 1 .. n, NEW j \in 1 .. n, i # j PROVE K[i] \cap K[j] = {}
  <2>1. f.versions[i].suffix # f.versions[j].suffix
    BY <1>3, <1>6 DEF Differ
  <2>2. K[i] \subseteq {f.versions[i].suffix} /\ K[j] \subseteq {f.versions[j].suffix}
    <3>1. K[i] \subseteq {f.versions[i].suffix}
      BY <1>4
    <3>2. K[j] \subseteq {f.versions[j].suffix}
      BY <1>4
    <3> QED
      BY <3>1, <3>2
  <2> QED
    BY <2>1, <2>2
<1>7. Together(A, n) = BenchmarksOf(f)
  <2>1. \A b : b \in Together(A, n) <=> \E i \in 1 .. n : b \in A[i]
    BY DEF Together
  <2>2. ASSUME NEW b, NEW i \in 1 .. n
        PROVE  b \in A[i] <=> f.versions[i].measured /\ b = <<f.name, f.versions[i].suffix>>
    <3>1. CASE f.versions[i].measured
      <4>1. A[i] = {<<f.name, f.versions[i].suffix>>}
        BY <1>4, <3>1
      <4> QED
        BY <3>1, <4>1
    <3>2. CASE ~ f.versions[i].measured
      <4>1. A[i] = {}
        BY <1>4, <3>2
      <4> QED
        BY <3>2, <4>1
    <3> QED
      BY <3>1, <3>2
  <2>3. \A b : b \in Together(A, n) <=> \E i \in 1 .. n : f.versions[i].measured /\ b = <<f.name, f.versions[i].suffix>>
    BY <2>1, <2>2
  <2> QED
    <3>1. \A b : b \in Together(A, n) <=> b \in BenchmarksOf(f)
      BY <1>1, <2>3, BenchmarksAre
    <3> QED
      BY <3>1
<1> HIDE DEF Part
<1>8. Part(FlattenSeq(seqs), base, Together(K, n), Together(A, n))
  BY <1>5, <1>6, EachIsPart
<1>9. Part(VersionsOf(f), base, Together(K, n), BenchmarksOf(f))
  BY <1>1, <1>7, <1>8
<1>10. Together(K, n) \subseteq Keys
  <2>1. ASSUME NEW i \in 1 .. n PROVE K[i] \subseteq Keys
    <3>1. f.versions[i].suffix \in Keys
      BY <1>3 DEF FunctionVersion, Keys
    <3> QED
      BY <1>4, <3>1
  <2> QED
    BY <2>1 DEF Together
<1> QED
  BY <1>9, <1>10, PartOfMore

LEMMA NoBenchmarks ==
  ASSUME NEW f \in ReportedFunction, Differ(f), VersionsOf(f) = << >>
  PROVE  BenchmarksOf(f) = {}
<1>1. PICK base \in Seq(Frames) :
             /\ Len(base) = 4 /\ base[2].key = "functions" /\ base[3].key = f.name /\ base[4].key = "versions"
  BY SomeLevels
<1> DEFINE top == Context("object")
           A == BenchmarksOf(f)
<1>2. top \in InObject /\ top \in Frames /\ top.keys = {}
  <2>1. top = [kind |-> "object", wants |-> "first", keys |-> {}, key |-> NoKey]
    BY DEF Context
  <2>2. top \in Frames
    BY <2>1 DEF Frames
  <2> HIDE DEF top
  <2>3. top.kind = "object" /\ top.wants = "first" /\ top.keys = {}
    BY <2>1
  <2> QED
    BY <2>2, <2>3 DEF InObject
<1>3. Inside(base) = {} /\ Free(base)
  BY <1>1 DEF Inside, Free
<1>4. Part(<< >>, base, Keys, A)
  <2> HIDE DEF Part, A
  <2> QED
    BY <1>1, VersionsArePart DEF A
<1> HIDE DEF top
<1>5. Named(At(base, top, {}))
  BY <1>2, <1>3, NamedIs
<1> HIDE DEF Named, Goes, At, Inside, A
<1>6. PICK t \in InObject : Goes(<< >>, At(base, top, {}), At(base, t, {} \cup A))
  <2>1. Keys \cap top.keys = {} /\ Inside(base) \subseteq {}
    BY <1>2, <1>3
  <2> QED
    BY <1>2, <1>4, <1>5, <2>1 DEF Part
<1>7. At(base, top, {}) = At(base, t, {} \cup A)
  BY <1>6, StaysThere
<1>8. {} = {} \cup A
  BY <1>7 DEF At
<1> QED
  BY <1>8 DEF A

LEMMA FunctionIsPart ==
  ASSUME NEW base \in Seq(Frames), Len(base) = 2, base[2].key = "functions",
         NEW f \in ReportedFunction, Differ(f)
  PROVE  Part(Function(f), base, {f.name}, BenchmarksOf(f))
<1> DEFINE vs == VersionsOf(f)
           A == BenchmarksOf(f)
           names == << Item("testName") >> \o Optional(f.reported, << Item("reportName") >>)
           body == names \o Keyed("versions", vs)
           K2 == {"testName"} \cup {"reportName"}
           K3 == K2 \cup {"versions"}
<1>1. Function(f) = IF vs # << >> THEN Keyed(f.name, body) ELSE << >>
  BY DEF Function, FunctionVersions, VersionsOf, Optional
<1>2. f.name \in Keys /\ {"testName", "reportName", "versions"} \subseteq Keys
      /\ {"testName"} \cap {"reportName"} = {} /\ K2 \cap {"versions"} = {}
  BY DEF ReportedFunction, Keys, FixedKeys
<1>3. CASE vs = << >>
  <2>1. A = {} /\ Function(f) = << >>
    BY <1>1, <1>3, NoBenchmarks
  <2>2. Part(<< >>, base, {}, {})
    BY NothingWritten
  <2>3. {} \subseteq {f.name}
    OBVIOUS
  <2> HIDE DEF Part, A
  <2>4. Part(<< >>, base, {f.name}, {})
    BY <2>2, <2>3, PartOfMore
  <2> QED
    BY <2>1, <2>4 DEF A
<1>4. CASE vs # << >>
  <2>1. \E n : <<f.name, n>> \in A
    <3>1. A # {}
      BY <1>4, NoVersions
    <3>2. PICK b : b \in A
      BY <3>1
    <3>3. \E n : b = <<f.name, n>>
      BY <3>2, BenchmarksAre
    <3> HIDE DEF A
    <3> QED
      BY <3>2, <3>3
  <2>2. vs \in Seq(Call)
    BY VersionsAre, FlattenedIsCalls
  <2>3. ASSUME NEW x \in InObject, x.key = f.name
        PROVE  Part(body, Append(base, x), K3, A) /\ Inside(Append(base, x)) = {}
    <3> DEFINE b == Append(base, x)
    <3>1. b \in Seq(Frames) /\ Len(b) = 3 /\ b[2].key = "functions" /\ b[3].key = f.name
      <4>1. /\ b \in Seq(Frames) /\ Len(b) = Len(base) + 1
            /\ \A i \in 1 .. Len(base) : b[i] = base[i]
            /\ b[Len(base) + 1] = x
        BY AppendIs
      <4> HIDE DEF b
      <4> QED
        BY <2>3, <4>1
    <3> HIDE DEF b
    <3>2. Free(b) /\ Inside(b) = {}
      BY <3>1 DEF Free, Inside
    <3>3. ASSUME NEW y \in InObject, y.key = "versions"
          PROVE  Part(vs, Append(b, y), Keys, A) /\ Inside(Append(b, y)) = {}
      <4> DEFINE d == Append(b, y)
      <4>1. /\ d \in Seq(Frames) /\ Len(d) = 4 /\ d[2].key = "functions" /\ d[3].key = f.name
            /\ d[4].key = "versions"
        <5>1. /\ d \in Seq(Frames) /\ Len(d) = Len(b) + 1
              /\ \A i \in 1 .. Len(b) : d[i] = b[i]
              /\ d[Len(b) + 1] = y
          BY <3>1, AppendIs
        <5> HIDE DEF d
        <5> QED
          BY <3>1, <3>3, <5>1
      <4> HIDE DEF d
      <4>2. Inside(d) = {}
        BY <4>1 DEF Inside
      <4> HIDE DEF Part
      <4>3. Part(vs, d, Keys, A)
        BY <4>1, VersionsArePart
      <4> QED
        BY <4>2, <4>3 DEF d
    <3> HIDE DEF Part, vs, A, Inside, Free
    <3>4. Part(Keyed("versions", vs), b, {"versions"}, A)
      <4>1. \A y \in InObject : \A fd :
               y.key = "versions" /\ Inside(b) \subseteq fd => (fd \cup Inside(Append(b, y))) \cup A = fd \cup A
        BY <3>3
      <4>2. \A y \in InObject : y.key = "versions" => Part(vs, Append(b, y), Keys, A)
        BY <3>3
      <4>3. "versions" \in Keys
        BY <1>2
      <4> QED
        BY <2>2, <3>1, <3>2, <4>1, <4>2, <4>3, KeyedIsPart
    <3>5. Part(<< Item("testName") >>, b, {"testName"}, {})
      BY <1>2, <3>1, <3>2, ItemIsPart
    <3>6. Part(Optional(f.reported, << Item("reportName") >>), b, {"reportName"}, {})
      <4>1. Part(<< Item("reportName") >>, b, {"reportName"}, {})
        BY <1>2, <3>1, <3>2, ItemIsPart
      <4>2. Part(<< >>, b, {"reportName"}, {})
        BY NothingWritten, PartOfMore
      <4>3. \/ Optional(f.reported, << Item("reportName") >>) = << Item("reportName") >>
            \/ Optional(f.reported, << Item("reportName") >>) = << >>
        BY DEF Optional
      <4> HIDE DEF Optional
      <4> QED
        BY <4>1, <4>2, <4>3
    <3>7. Part(names, b, K2, {} \cup {})
      BY <1>2, <3>5, <3>6, PartAfterPart
    <3> HIDE DEF names, K2
    <3>8. Part(body, b, K3, ({} \cup {}) \cup A)
      BY <1>2, <3>4, <3>7, PartAfterPart
    <3>9. ({} \cup {}) \cup A = A
      OBVIOUS
    <3> QED
      BY <3>2, <3>8, <3>9 DEF b
  <2> DEFINE x == [kind |-> "object", wants |-> "next", keys |-> {}, key |-> f.name]
  <2>4. body \in Seq(Call)
    <3>1. x \in Frames
      BY <1>2 DEF Frames
    <3>2. x \in InObject /\ x.key = f.name
      BY <3>1 DEF InObject
    <3> HIDE DEF x, body
    <3> QED
      BY <2>3, <3>2 DEF Part
  <2> HIDE DEF Part, A, Inside, body, Free, K3
  <2>5. \A y \in InObject : \A fd :
           y.key = f.name /\ Inside(base) \subseteq fd => (fd \cup Inside(Append(base, y))) \cup A = fd \cup A
    BY <2>3
  <2>6. \A y \in InObject : y.key = f.name => Part(body, Append(base, y), K3, A)
    BY <2>3
  <2>7. Part(Keyed(f.name, body), base, {f.name}, A)
    BY <1>2, <2>1, <2>4, <2>5, <2>6, KeyedIsPart
  <2> QED
    BY <1>1, <1>4, <2>7 DEF A
<1> QED
  BY <1>3, <1>4

-----------------------------------------------------------------------------
(* The whole report.                                                          *)
LEMMA Pushes ==
  ASSUME NEW base \in Seq(Frames), NEW top \in Frames, NEW fd, NEW key \in Keys \cup {NoKey},
         Takes(top, key), NEW u \in Frames, u = Filled(top, key), NEW type \in {"object", "array"},
         Named(At(base, top, fd)), Inside(Append(base, u)) \subseteq fd
  PROVE  Goes(<< Push(key, type) >>, At(base, top, fd), At(Append(base, u), Context(type), fd))
<1> DEFINE c == Push(key, type)
           p == At(base, top, fd)
           b == Append(base, u)
           q == At(b, Context(type), fd)
<1>1. c.call = "push" /\ c.key = key /\ c.type = type
  BY DEF Push
<1>2. p.open = Append(base, top) /\ p.found = fd /\ q.found = fd
  BY DEF At
<1>3. q = At(b, Context(type), fd \cup Inside(b))
  <2>1. fd \cup Inside(b) = fd
    OBVIOUS
  <2> QED
    BY <2>1
<1>4. Named(q)
  <2>1. Context(type) = [kind |-> type, wants |-> "first", keys |-> {}, key |-> NoKey]
    BY DEF Context
  <2>2. Context(type) \in Frames /\ Context(type).keys = {}
    BY <2>1 DEF Frames
  <2>3. b \in Seq(Frames)
    OBVIOUS
  <2> HIDE DEF b
  <2> QED
    BY <2>2, <2>3, NamedIs
<1>5. Named(p)
  OBVIOUS
<1> HIDE DEF c, p, q, Inside, At, Takes, Filled
<1>6. Moves(p, c, q)
  BY <1>1, <1>2, <1>3 DEF Moves
<1> HIDE DEF Moves, Named, Goes
<1>7. Goes(<< c >>, p, q)
  BY <1>2, <1>4, <1>5, <1>6, GoesOnce
<1> QED
  BY <1>7 DEF c, p, q

LEMMA Pops ==
  ASSUME NEW base \in Seq(Frames), NEW outer \in Frames, outer.wants = "next", NEW top \in InObject, NEW fd,
         Named(At(Append(base, outer), top, fd)), Named(At(base, outer, fd)), Inside(base) \subseteq fd
  PROVE  Goes(<< Pop("object") >>, At(Append(base, outer), top, fd), At(base, outer, fd))
<1> DEFINE c == Pop("object")
           b == Append(base, outer)
           p == At(b, top, fd)
           q == At(base, outer, fd)
<1>1. c.call = "pop" /\ c.type = "object"
  BY DEF Pop
<1>2. p.open = Append(b, top) /\ p.found = fd /\ q.found = fd
  BY DEF At
<1>3. b \in Seq(Frames) /\ top \in Frames /\ top.kind = "object" /\ top.wants \in {"first", "next"}
  BY DEF InObject
<1> DEFINE outers(w) == \E d \in Seq(Frames), o \in Frames :
                    /\ b = Append(d, o) /\ o.wants = "next" /\ w = At(d, o, p.found \cup Inside(d))
<1>4. outers(q)
  <2>1. q = At(base, outer, p.found \cup Inside(base))
    <3>1. fd \cup Inside(base) = fd
      OBVIOUS
    <3> HIDE DEF Inside
    <3> QED
      BY <1>2, <3>1
  <2> HIDE DEF p, q, Inside, At
  <2> QED
    BY <2>1
<1>5. Named(p) /\ Named(q)
  OBVIOUS
<1> HIDE DEF c, p, q, b, Inside, At
<1>6. Moves(p, c, q)
  BY <1>1, <1>2, <1>3, <1>4 DEF Moves
<1> HIDE DEF Moves, Named, Goes, outers
<1>7. Goes(<< c >>, p, q)
  BY <1>2, <1>5, <1>6, GoesOnce
<1> QED
  BY <1>7 DEF c, p, q, b

LEMMA FunctionsArePart ==
  ASSUME NEW base \in Seq(Frames), Len(base) = 2, base[2].key = "functions", NEW r \in Reports
  PROVE  Part(ForEach(r.functions, Function), base, Keys, Benchmarked(r))
<1> DEFINE n == Len(r.functions)
           seqs == [i \in DOMAIN r.functions |-> Function(r.functions[i])]
           K == [i \in DOMAIN r.functions |-> {r.functions[i].name}]
           A == [i \in DOMAIN r.functions |-> BenchmarksOf(r.functions[i])]
<1>1. r.functions \in Seq(ReportedFunction)
  BY ReportsAssumption
<1>2. n \in Nat /\ DOMAIN r.functions = 1 .. n /\ \A i \in 1 .. n : r.functions[i] \in ReportedFunction
  BY <1>1
<1>3. /\ \A i, j \in 1 .. n : r.functions[i].name = r.functions[j].name => i = j
      /\ \A i \in 1 .. n : Differ(r.functions[i])
  BY <1>2, KeysDiffer DEF Differ
<1>4. \A i \in 1 .. n : /\ seqs[i] = Function(r.functions[i]) /\ K[i] = {r.functions[i].name}
                        /\ A[i] = BenchmarksOf(r.functions[i])
  BY <1>2
<1>5. ForEach(r.functions, Function) = FlattenSeq(seqs)
  BY DEF ForEach
<1>6. \A i \in 1 .. n : Part(Function(r.functions[i]), base, {r.functions[i].name}, BenchmarksOf(r.functions[i]))
  <2> HIDE DEF Part
  <2> QED
    BY <1>2, <1>3, FunctionIsPart
<1>7. seqs \in Seq(Seq(Call)) /\ Len(seqs) = n
  <2>1. \A i \in 1 .. n : Function(r.functions[i]) \in Seq(Call)
    BY <1>6 DEF Part
  <2> HIDE DEF Function, Call
  <2> QED
    BY <1>2, <2>1
<1> HIDE DEF seqs, K, A, Part
<1>8. \A i \in 1 .. n : Part(seqs[i], base, K[i], A[i])
  BY <1>4, <1>6
<1>9. \A i, j \in 1 .. n : i # j => K[i] \cap K[j] = {}
  BY <1>3, <1>4
<1>10. Part(FlattenSeq(seqs), base, Together(K, n), Together(A, n))
  BY <1>7, <1>8, <1>9, EachIsPart
<1>11. Together(A, n) = Benchmarked(r)
  <2>1. \A b : b \in Together(A, n) <=> \E i \in 1 .. n : b \in BenchmarksOf(r.functions[i])
    BY <1>4 DEF Together
  <2>2. ToSet(r.functions) = { r.functions[i] : i \in 1 .. n }
    BY <1>2 DEF ToSet
  <2>3. \A b : b \in Benchmarked(r) <=> \E f \in ToSet(r.functions) : b \in BenchmarksOf(f)
    BY DEF Benchmarked, BenchmarksOf
  <2>4. \A b : b \in Together(A, n) <=> b \in Benchmarked(r)
    <3> HIDE DEF BenchmarksOf, Benchmarked
    <3> QED
      BY <2>1, <2>2, <2>3
  <2> HIDE DEF Benchmarked
  <2> QED
    BY <2>4
<1>12. Together(K, n) \subseteq Keys
  <2>1. \A i \in 1 .. n : r.functions[i].name \in Keys
    BY <1>2 DEF ReportedFunction, Keys
  <2> QED
    BY <1>4, <2>1 DEF Together
<1> QED
  BY <1>5, <1>10, <1>11, <1>12, PartOfMore

LEMMA ScriptLeads ==
  ASSUME NEW r \in Reports
  PROVE  /\ Script[r] \in Seq(Call)
         /\ \E t \in Frames : /\ t.wants = "next"
                              /\ Goes(Script[r], At(<< >>, Outside, {}), At(<< >>, t, Benchmarked(r)))
<1> DEFINE e == << >>
           R == Filled(Outside, NoKey)
           b1 == Append(e, R)
           C == Context("object")
           p0 == At(e, Outside, {})
           p1 == At(b1, C, {})
           fs == ForEach(r.functions, Function)
           B == Benchmarked(r)
           open1 == << Push(NoKey, "object") >>
           open2 == << Push("functions", "object") >>
           errors == <<"averageError", "maximumError">>
           E == {"averageError", "maximumError"}
           closed == << Pop("object") >>
           obj == "object"
<1>1. /\ Outside \in Frames /\ R \in Frames /\ Takes(Outside, NoKey) /\ R.wants = "next" /\ R.key = NoKey
  <2>1. Outside = [kind |-> "root", wants |-> "value", keys |-> {}, key |-> NoKey]
    BY DEF Outside, Context
  <2>2. R = [kind |-> "root", wants |-> "next", keys |-> {}, key |-> NoKey]
    BY <2>1 DEF Filled
  <2> QED
    BY <2>1, <2>2 DEF Frames, Takes
<1>2. C \in InObject /\ C \in Frames /\ C.keys = {}
  <2>1. C = [kind |-> "object", wants |-> "first", keys |-> {}, key |-> NoKey]
    BY DEF Context
  <2>2. C \in Frames
    BY <2>1 DEF Frames
  <2> HIDE DEF C
  <2>3. C.kind = "object" /\ C.wants = "first" /\ C.keys = {}
    BY <2>1
  <2> QED
    BY <2>2, <2>3 DEF InObject
<1>3. e \in Seq(Frames) /\ Len(e) = 0 /\ b1 \in Seq(Frames) /\ Len(b1) = 1 /\ b1[1] = R
  <2> HIDE DEF R
  <2> QED
    BY <1>1
<1> HIDE DEF e, R, b1, C
<1>4. Inside(e) = {} /\ Inside(b1) = {} /\ Free(e) /\ Free(b1)
  BY <1>3 DEF Inside, Free
<1>5. "functions" \notin SettingKeys /\ E \cap (SettingKeys \cup {"functions"}) = {} /\ "functions" \notin E
      /\ Listed(errors, E) /\ "functions" \in Keys /\ obj \in {"object", "array"}
  BY DEF SettingKeys, Listed, Keys, FixedKeys
<1>6. Body(Settings(r), SettingKeys) /\ Body(Items(errors), E)
  <2> HIDE DEF Body, errors, E
  <2> QED
    BY <1>5, SettingsAreBody, ListIsBody
<1>7. Part(Settings(r), b1, SettingKeys, {}) /\ Part(Items(errors), b1, E, {})
  <2>1. Quiet(b1, SettingKeys) /\ Quiet(b1, E)
    <3> HIDE DEF E, errors
    <3> QED
      BY <1>3, <1>5 DEF Quiet
  <2> HIDE DEF Part, Quiet, errors, E
  <2> QED
    BY <1>3, <1>6, <2>1 DEF Body
<1>8. Settings(r) \in Seq(Call) /\ Items(errors) \in Seq(Call)
  BY <1>6 DEF Body
<1>9. open1 \in Seq(Call) /\ open2 \in Seq(Call) /\ closed \in Seq(Call)
  <2>1. Push(NoKey, "object") \in Call /\ Push("functions", "object") \in Call /\ Pop("object") \in Call
    BY <1>5 DEF Push, Pop, Call
  <2> HIDE DEF Push, Pop, Call
  <2> QED
    BY <2>1
<1> HIDE DEF E, errors
<1>10. Named(p0) /\ Named(p1)
  <2>1. Named(p0)
    BY <1>1, <1>3, <1>4, NamedIs
  <2>2. Named(p1)
    BY <1>2, <1>3, <1>4, NamedIs
  <2> QED
    BY <2>1, <2>2
<1>11. Goes(open1, p0, p1)
  <2>1. R = Filled(Outside, NoKey) /\ Inside(Append(e, R)) \subseteq {} /\ NoKey \in Keys \cup {NoKey}
    BY <1>4 DEF R, b1
  <2> HIDE DEF Goes, At, Inside, Filled, Takes, Named
  <2> QED
    BY <1>1, <1>3, <1>5, <1>10, <2>1, Pushes DEF b1, C
<1> HIDE DEF Goes, Named, Inside, At, Part, Body
<1>12. PICK t1 \in InObject : t1.keys \subseteq SettingKeys /\ Goes(Settings(r), p1, At(b1, t1, {}))
  <2>1. SettingKeys \cap C.keys = {} /\ Inside(b1) \subseteq {}
    BY <1>2, <1>4
  <2>2. PICK t1 \in InObject : t1.keys \subseteq C.keys \cup SettingKeys /\ Goes(Settings(r), p1, At(b1, t1, {} \cup {}))
    BY <1>2, <1>7, <1>10, <2>1 DEF Part
  <2>3. {} \cup {} = {}
    OBVIOUS
  <2> QED
    BY <1>2, <2>2, <2>3
<1> DEFINE F == Filled(t1, "functions")
           b2 == Append(b1, F)
           p2 == At(b1, t1, {})
           p3 == At(b2, C, {})
<1>13. /\ F \in InObject /\ F \in Frames /\ F.wants = "next" /\ F.key = "functions"
       /\ F.keys = t1.keys \cup {"functions"} /\ t1 \in Frames /\ Takes(t1, "functions")
  <2>1. "functions" \notin t1.keys
    BY <1>5, <1>12
  <2> HIDE DEF Filled, Takes
  <2> QED
    BY <1>5, <2>1, FilledIs
<1> HIDE DEF F
<1>14. b2 \in Seq(Frames) /\ Len(b2) = 2 /\ b2[2] = F
  <2>1. /\ b2 \in Seq(Frames) /\ Len(b2) = Len(b1) + 1 /\ b2[Len(b1) + 1] = F
    BY <1>3, <1>13, AppendIs
  <2> HIDE DEF b2
  <2> QED
    BY <1>3, <2>1
<1> HIDE DEF b2
<1>15. Inside(b2) = {}
  BY <1>14 DEF Inside
<1>16. Named(p2)
  BY <1>3, <1>4, <1>13, NamedIs
<1>17. Goes(open2, p2, p3)
  <2>1. F = Filled(t1, "functions") /\ Inside(Append(b1, F)) \subseteq {} /\ "functions" \in Keys \cup {NoKey}
    BY <1>5, <1>15 DEF F, b2
  <2> HIDE DEF Filled, Takes
  <2> QED
    BY <1>3, <1>5, <1>13, <1>16, <2>1, Pushes DEF b2, C
<1>18. Named(p3)
  BY <1>2, <1>14, NamedIs
<1>19. Part(fs, b2, Keys, B)
  BY <1>13, <1>14, FunctionsArePart
<1> HIDE DEF fs, B
<1>20. PICK t2 \in InObject : Goes(fs, p3, At(b2, t2, B))
  <2>1. Keys \cap C.keys = {} /\ Inside(b2) \subseteq {}
    BY <1>2, <1>15
  <2>2. PICK t2 \in InObject : Goes(fs, p3, At(b2, t2, {} \cup B))
    BY <1>2, <1>18, <1>19, <2>1 DEF Part
  <2>3. {} \cup B = B
    OBVIOUS
  <2> QED
    BY <2>2, <2>3
<1> DEFINE p4 == At(b2, t2, B)
           p5 == At(b1, F, B)
<1>21. fs \in Seq(Call) /\ Len(fs) \in Nat
  BY <1>19 DEF Part
<1>22. Named(p4) /\ Named(p5)
  <2>1. Named(p4)
    BY <1>20, <1>21, GoesIsNamed
  <2>2. Named(p5)
    BY <1>3, <1>4, <1>13, NamedIs
  <2> QED
    BY <2>1, <2>2
<1>23. Goes(closed, p4, p5)
  <2>1. Inside(b1) \subseteq B
    BY <1>4
  <2> QED
    BY <1>3, <1>13, <1>22, <2>1, Pops DEF b2
<1>24. PICK t3 \in InObject : Goes(Items(errors), p5, At(b1, t3, B))
  <2>1. E \cap F.keys = {} /\ Inside(b1) \subseteq B
    BY <1>4, <1>5, <1>12, <1>13
  <2>2. PICK t3 \in InObject : Goes(Items(errors), p5, At(b1, t3, B \cup {}))
    BY <1>7, <1>13, <1>22, <2>1 DEF Part
  <2>3. B \cup {} = B
    OBVIOUS
  <2> QED
    BY <2>2, <2>3
<1> DEFINE p6 == At(b1, t3, B)
           p7 == At(e, R, B)
<1>25. Goes(closed, p6, p7)
  <2>1. t3 \in Frames
    BY DEF InObject
  <2>2. Named(p6) /\ Named(p7)
    BY <1>1, <1>3, <1>4, <2>1, NamedIs
  <2>3. Inside(e) \subseteq B
    BY <1>4
  <2> QED
    BY <1>1, <1>3, <2>2, <2>3, Pops DEF b1
<1> HIDE DEF p0, p1, p2, p3, p4, p5, p6, p7, open1, open2, closed
<1>a. Goes(open1 \o Settings(r), p0, p2) /\ open1 \o Settings(r) \in Seq(Call)
  BY <1>8, <1>9, <1>11, <1>12, GoesOn DEF p2
<1>b. Goes(Header(r), p0, p3) /\ Header(r) \in Seq(Call)
  <2> DEFINE h == open1 \o Settings(r)
  <2>1. Goes(h, p0, p2) /\ h \in Seq(Call)
    BY <1>a
  <2> HIDE DEF h
  <2>2. Goes(h \o open2, p0, p3) /\ h \o open2 \in Seq(Call)
    BY <1>9, <1>17, <2>1, GoesOn
  <2> QED
    BY <2>2 DEF Header, h, open1, open2
<1>c. Goes(Header(r) \o fs, p0, p4) /\ Header(r) \o fs \in Seq(Call)
  BY <1>20, <1>21, <1>b, GoesOn DEF p4
<1>d. Goes(closed \o Items(errors), p4, p6) /\ closed \o Items(errors) \in Seq(Call)
  BY <1>8, <1>9, <1>23, <1>24, GoesOn DEF p6
<1>e. Goes(Footer, p4, p7) /\ Footer \in Seq(Call)
  <2> DEFINE h == closed \o Items(errors)
  <2>1. Goes(h, p4, p6) /\ h \in Seq(Call)
    BY <1>d
  <2> HIDE DEF h
  <2>2. Goes(h \o closed, p4, p7) /\ h \o closed \in Seq(Call)
    BY <1>9, <1>25, <2>1, GoesOn
  <2> QED
    BY <2>2 DEF Footer, h, closed, errors
<1>f. Goes(Header(r) \o fs \o Footer, p0, p7) /\ Header(r) \o fs \o Footer \in Seq(Call)
  <2> DEFINE h == Header(r) \o fs
  <2>1. Goes(h, p0, p4) /\ h \in Seq(Call)
    BY <1>c
  <2> HIDE DEF h
  <2>2. Goes(h \o Footer, p0, p7) /\ h \o Footer \in Seq(Call)
    BY <1>e, <2>1, GoesOn
  <2> QED
    BY <2>2 DEF h
<1>g. Script[r] = Header(r) \o fs \o Footer
  BY DEF Script, fs
<1> QED
  BY <1>1, <1>f, <1>g DEF p0, p7, e, B

-----------------------------------------------------------------------------
(* What is read of tokens is read of one after the other.                     *)
LEMMA ReadInOrder ==
  ASSUME NEW r, NEW tokens, Len(tokens) \in Nat
  PROVE  \E f : /\ f[0] = r /\ ReadAll(r, tokens) = f[Len(tokens)]
                /\ \A i \in 1 .. Len(tokens) :
                       f[i] = IF f[i - 1].ok THEN Read(f[i - 1], tokens[i]) ELSE f[i - 1]
<1> DEFINE Next_(f, i) == IF f[i - 1].ok THEN Read(f[i - 1], tokens[i]) ELSE f[i - 1]
           Reads(f, n) == f = [i \in 0 .. n |-> IF i = 0 THEN r ELSE Next_(f, i)]
           S == { n \in Nat : \E f : Reads(f, n) }
           N == Len(tokens)
<1>1. 0 \in S
  <2> DEFINE f == [i \in 0 .. 0 |-> r]
  <2>1. Reads(f, 0)
    <3>1. f = [i \in 0 .. 0 |-> IF i = 0 THEN r ELSE Next_(f, i)]
      OBVIOUS
    <3> HIDE DEF f
    <3> QED
      BY <3>1
  <2> QED
    BY <2>1
<1>2. ASSUME NEW n \in Nat, n \in S PROVE n + 1 \in S
  <2>1. PICK f : Reads(f, n)
    BY <1>2
  <2>2. f[0] = r /\ \A i \in 1 .. n : f[i] = Next_(f, i)
    BY <2>1
  <2> DEFINE h == [i \in 0 .. n + 1 |-> IF i = n + 1 THEN Next_(f, i) ELSE f[i]]
  <2>3. \A i \in 0 .. n : h[i] = f[i]
    OBVIOUS
  <2>4. h[n + 1] = Next_(f, n + 1) /\ n + 1 - 1 = n /\ n \in 0 .. n
    OBVIOUS
  <2>5. h = [i \in 0 .. n + 1 |-> h[i]]
    OBVIOUS
  <2> HIDE DEF h
  <2>6. ASSUME NEW i \in 0 .. n + 1 PROVE h[i] = IF i = 0 THEN r ELSE Next_(h, i)
    <3>1. CASE i = n + 1
      <4>1. h[i - 1] = f[i - 1]
        BY <2>3, <2>4, <3>1
      <4> QED
        BY <2>4, <3>1, <4>1
    <3>2. CASE i # n + 1 /\ i # 0
      <4>1. i \in 1 .. n /\ i - 1 \in 0 .. n /\ i \in 0 .. n
        BY <3>2
      <4>2. h[i - 1] = f[i - 1] /\ h[i] = f[i]
        BY <2>3, <4>1
      <4> QED
        BY <2>2, <3>2, <4>1, <4>2
    <3>3. CASE i = 0
      BY <2>2, <2>3, <3>3
    <3> QED
      BY <3>1, <3>2, <3>3
  <2>7. h = [i \in 0 .. n + 1 |-> IF i = 0 THEN r ELSE Next_(h, i)]
    BY <2>5, <2>6
  <2>8. Reads(h, n + 1)
    BY <2>7
  <2> HIDE DEF Reads
  <2>9. \E g : Reads(g, n + 1)
    BY <2>8
  <2> QED
    BY <2>9
<1>3. N \in S
  <2> HIDE DEF S
  <2>1. \A n \in Nat : n \in S => n + 1 \in S
    BY <1>2
  <2> QED
    BY <1>1, <2>1, StepByStep
<1> DEFINE f == CHOOSE f : f = [i \in 0 .. N |-> IF i = 0 THEN r ELSE Next_(f, i)]
<1>4. f = [i \in 0 .. N |-> IF i = 0 THEN r ELSE Next_(f, i)]
  BY <1>3
<1>5. ReadAll(r, tokens) = f[N]
  BY DEF ReadAll
<1> HIDE DEF f
<1>6. f[0] = r /\ \A i \in 1 .. N : f[i] = Next_(f, i)
  BY <1>4
<1> QED
  BY <1>5, <1>6

LEMMA OneToken ==
  ASSUME NEW r, r.ok, NEW a
  PROVE  ReadAll(r, <<a>>) = Read(r, a)
<1> DEFINE ts == <<a>>
<1>1. Len(ts) = 1 /\ Len(ts) \in Nat /\ ts[1] = a
  OBVIOUS
<1> HIDE DEF ts
<1>2. PICK f : /\ f[0] = r /\ ReadAll(r, ts) = f[Len(ts)]
               /\ \A i \in 1 .. Len(ts) :
                      f[i] = IF f[i - 1].ok THEN Read(f[i - 1], ts[i]) ELSE f[i - 1]
  <2>1. Len(ts) \in Nat
    BY <1>1
  <2> QED
    BY <2>1, ReadInOrder
<1>3. f[1] = Read(r, a)
  BY <1>1, <1>2
<1> QED
  BY <1>1, <1>2, <1>3 DEF ts

LEMMA TwoTokens ==
  ASSUME NEW r, r.ok, NEW a, NEW b, Read(r, a).ok
  PROVE  ReadAll(r, <<a, b>>) = Read(Read(r, a), b)
<1> DEFINE ts == <<a, b>>
<1>1. Len(ts) = 2 /\ Len(ts) \in Nat /\ ts[1] = a /\ ts[2] = b
  OBVIOUS
<1> HIDE DEF ts
<1>2. PICK f : /\ f[0] = r /\ ReadAll(r, ts) = f[Len(ts)]
               /\ \A i \in 1 .. Len(ts) :
                      f[i] = IF f[i - 1].ok THEN Read(f[i - 1], ts[i]) ELSE f[i - 1]
  <2>1. Len(ts) \in Nat
    BY <1>1
  <2> QED
    BY <2>1, ReadInOrder
<1>3. f[1] = Read(r, a)
  BY <1>1, <1>2
<1>4. f[2] = Read(f[1], b)
  BY <1>1, <1>2, <1>3
<1> QED
  BY <1>1, <1>2, <1>3, <1>4 DEF ts

LEMMA ThreeTokens ==
  ASSUME NEW r, r.ok, NEW a, NEW b, NEW c, Read(r, a).ok, Read(Read(r, a), b).ok
  PROVE  ReadAll(r, <<a, b, c>>) = Read(Read(Read(r, a), b), c)
<1> DEFINE ts == <<a, b, c>>
<1>1. Len(ts) = 3 /\ Len(ts) \in Nat /\ ts[1] = a /\ ts[2] = b /\ ts[3] = c
  OBVIOUS
<1> HIDE DEF ts
<1>2. PICK f : /\ f[0] = r /\ ReadAll(r, ts) = f[Len(ts)]
               /\ \A i \in 1 .. Len(ts) :
                      f[i] = IF f[i - 1].ok THEN Read(f[i - 1], ts[i]) ELSE f[i - 1]
  <2>1. Len(ts) \in Nat
    BY <1>1
  <2> QED
    BY <2>1, ReadInOrder
<1>3. f[1] = Read(r, a)
  BY <1>1, <1>2
<1>4. f[2] = Read(f[1], b)
  BY <1>1, <1>2, <1>3
<1>5. f[3] = Read(f[2], c)
  BY <1>1, <1>2, <1>3, <1>4
<1> QED
  BY <1>1, <1>2, <1>3, <1>4, <1>5 DEF ts

(* The reader with a level on top of others, and the tokens it reads there.    *)
Reading(base, top) == Opened(Append(base, top))
Wanting(top, wants) == [kind |-> top.kind, wants |-> wants, keys |-> top.keys, key |-> top.key]
WithKey(top, key) == [kind |-> top.kind, wants |-> "value", keys |-> top.keys \cup {key}, key |-> key]
Comma == Lexeme("comma", NoKey)

LEMMA ReadingIs ==
  ASSUME NEW base \in Seq(Frames), NEW top \in Frames
  PROVE  /\ Top(Reading(base, top)) = top /\ Front(Reading(base, top).open) = base
         /\ Reading(base, top).ok
         /\ \A t : SetTop(Reading(base, top), t) = Reading(base, t)
<1> DEFINE s == Append(base, top)
           r == Reading(base, top)
<1>1. s \in Seq(Frames) /\ Len(s) = Len(base) + 1 /\ s[Len(s)] = top /\ Len(base) \in Nat
  OBVIOUS
<1>2. \A i \in 1 .. Len(base) : s[i] = base[i]
  OBVIOUS
<1>3. r.open = s /\ r.ok
  BY DEF Reading, Opened
<1> HIDE DEF s, r
<1>4. SubSeq(s, 1, Len(s) - 1) = base
  BY <1>1, <1>2
<1>5. Top(r) = top /\ Front(r.open) = base
  BY <1>1, <1>3, <1>4 DEF Top, Last, Front
<1>6. \A t : SetTop(r, t) = Reading(base, t)
  BY <1>5 DEF SetTop, Reading
<1> QED
  BY <1>3, <1>5, <1>6 DEF r

LEMMA FrameIs ==
  ASSUME NEW top \in Frames, NEW key, NEW wants
  PROVE  /\ [top EXCEPT !.wants = wants] = Wanting(top, wants)
         /\ [top EXCEPT !.wants = "value", !.key = key, !.keys = @ \cup {key}] = WithKey(top, key)
<1>1. [top EXCEPT !.wants = wants] = Wanting(top, wants)
  BY DEF Frames, Wanting
<1> DEFINE t == [top EXCEPT !.wants = "value", !.key = key, !.keys = @ \cup {key}]
<1>2. t = [x \in {"kind", "wants", "keys", "key"} |-> t[x]] /\ WithKey(top, key) = [x \in {"kind", "wants", "keys", "key"} |-> WithKey(top, key)[x]]
  BY DEF Frames, WithKey
<1>3. t.kind = top.kind /\ t.wants = "value" /\ t.keys = top.keys \cup {key} /\ t.key = key
  BY DEF Frames
<1>4. t = WithKey(top, key)
  <2> HIDE DEF t
  <2> QED
    BY <1>2, <1>3 DEF WithKey
<1> QED
  BY <1>1, <1>4

LEMMA ReadsComma ==
  ASSUME NEW base \in Seq(Frames), NEW top \in Frames, top.wants = "next", top.kind # "root"
  PROVE  Read(Reading(base, top), Comma) = Reading(base, Wanting(top, "entry"))
<1> DEFINE r == Reading(base, top)
<1>1. Top(r) = top /\ \A t : SetTop(r, t) = Reading(base, t)
  BY ReadingIs
<1>2. Comma.sort = "comma"
  BY DEF Comma, Lexeme
<1>3. [top EXCEPT !.wants = "entry"] = Wanting(top, "entry")
  BY FrameIs
<1> HIDE DEF r, Comma
<1>4. Read(r, Comma) = SetTop(r, [top EXCEPT !.wants = "entry"])
  BY <1>1, <1>2 DEF Read
<1> QED
  BY <1>1, <1>3, <1>4 DEF r

LEMMA ReadsKey ==
  ASSUME NEW base \in Seq(Frames), NEW top \in Frames, top.wants \in {"first", "entry"},
         top.kind = "object", NEW key, key \notin top.keys
  PROVE  Read(Reading(base, top), Lexeme("key", key)) = Reading(base, WithKey(top, key))
<1> DEFINE r == Reading(base, top)
           k == Lexeme("key", key)
<1>1. Top(r) = top /\ \A t : SetTop(r, t) = Reading(base, t)
  BY ReadingIs
<1>2. k.sort = "key" /\ k.text = key
  BY DEF Lexeme
<1>3. [top EXCEPT !.wants = "value", !.key = key, !.keys = @ \cup {key}] = WithKey(top, key)
  BY FrameIs
<1> HIDE DEF r, k
<1>4. Read(r, k) = SetTop(r, [top EXCEPT !.wants = "value", !.key = key, !.keys = @ \cup {key}])
  BY <1>1, <1>2 DEF Read
<1> QED
  BY <1>1, <1>3, <1>4 DEF r, k

LEMMA ReadsValue ==
  ASSUME NEW base \in Seq(Frames), NEW top \in Frames, TakesValue(top)
  PROVE  Read(Reading(base, top), Lexeme("value", NoKey)) = Reading(base, Wanting(top, "next"))
<1> DEFINE r == Reading(base, top)
           k == Lexeme("value", NoKey)
<1>1. Top(r) = top /\ \A t : SetTop(r, t) = Reading(base, t)
  BY ReadingIs
<1>2. k.sort = "value"
  BY DEF Lexeme
<1>3. [top EXCEPT !.wants = "next"] = Wanting(top, "next")
  BY FrameIs
<1> HIDE DEF r, k, TakesValue
<1>4. Read(r, k) = SetTop(r, [top EXCEPT !.wants = "next"])
  BY <1>1, <1>2 DEF Read
<1> QED
  BY <1>1, <1>3, <1>4 DEF r, k

LEMMA ReadsOpening ==
  ASSUME NEW base \in Seq(Frames), NEW top \in Frames, TakesValue(top), NEW kind
  PROVE  Read(Reading(base, top), Lexeme("open", kind)) = Reading(Append(base, Wanting(top, "next")), Context(kind))
<1> DEFINE r == Reading(base, top)
           k == Lexeme("open", kind)
           s == SetTop(r, [top EXCEPT !.wants = "next"])
<1>1. Top(r) = top /\ \A t : SetTop(r, t) = Reading(base, t)
  BY ReadingIs
<1>2. k.sort = "open" /\ k.text = kind
  BY DEF Lexeme
<1>3. [top EXCEPT !.wants = "next"] = Wanting(top, "next")
  BY FrameIs
<1> HIDE DEF r, k, TakesValue
<1>4. s.open = Append(base, Wanting(top, "next"))
  BY <1>1, <1>3 DEF Reading, Opened
<1>5. Read(r, k) = Opened(Append(s.open, Context(kind)))
  BY <1>1, <1>2 DEF Read
<1> HIDE DEF s
<1> QED
  BY <1>4, <1>5 DEF r, k, Reading

LEMMA ReadsClosing ==
  ASSUME NEW base \in Seq(Frames), NEW top \in Frames, top.wants \in {"first", "next"}
  PROVE  Read(Reading(base, top), Lexeme("close", top.kind)) = Opened(base)
<1> DEFINE r == Reading(base, top)
           k == Lexeme("close", top.kind)
<1>1. Top(r) = top /\ Front(r.open) = base
  BY ReadingIs
<1>2. k.sort = "close" /\ k.text = top.kind
  BY DEF Lexeme
<1> HIDE DEF r, k
<1>3. Read(r, k) = Opened(Front(r.open))
  BY <1>1, <1>2 DEF Read
<1> QED
  BY <1>1, <1>3 DEF r, k

LEMMA TuplesTogether ==
  ASSUME NEW a, NEW b, NEW c
  PROVE  /\ << a >> \o << >> \o << c >> = << a, c >>
         /\ << >> \o << b >> \o << c >> = << b, c >>
         /\ << a >> \o << b >> \o << c >> = << a, b, c >>
<1> DEFINE S == {a, b, c}
<1>1. << a >> \in Seq(S) /\ << b >> \in Seq(S) /\ << c >> \in Seq(S) /\ << >> \in Seq(S)
  OBVIOUS
<1>2. << a >> \o << >> = << a >> /\ << >> \o << b >> = << b >>
  BY <1>1
<1>3. ASSUME NEW x \in S, NEW y \in S PROVE << x >> \o << y >> = << x, y >>
  <2> DEFINE u == << x >> \o << y >>
             v == << x, y >>
  <2>1. u \in Seq(S) /\ Len(u) = 2 /\ u[1] = x /\ u[2] = y
    OBVIOUS
  <2>2. v \in Seq(S) /\ Len(v) = 2 /\ v[1] = x /\ v[2] = y
    OBVIOUS
  <2>3. \A i \in 1 .. 2 : i = 1 \/ i = 2
    OBVIOUS
  <2> HIDE DEF u, v, S
  <2>4. u = v
    BY <2>1, <2>2, <2>3, SeqEqual
  <2> QED
    BY <2>4 DEF u, v
<1>4. << a, b >> \o << c >> = << a, b, c >>
  <2> DEFINE t == << a, b >>
             d == << c >>
             u == t \o d
             v == << a, b, c >>
  <2>1. t \in Seq(S) /\ Len(t) = 2 /\ t[1] = a /\ t[2] = b
    OBVIOUS
  <2>2. v \in Seq(S) /\ Len(v) = 3 /\ v[1] = a /\ v[2] = b /\ v[3] = c
    OBVIOUS
  <2>d. d \in Seq(S) /\ Len(d) = 1 /\ d[1] = c
    OBVIOUS
  <2> HIDE DEF t, d, S
  <2>3. u \in Seq(S) /\ Len(u) = 3 /\ u[1] = a /\ u[2] = b /\ u[3] = c
    <3>0. t \in Seq(S) /\ d \in Seq(S)
      BY <2>1, <2>d
    <3>1. u \in Seq(S) /\ Len(u) = Len(t) + Len(d)
      BY <3>0, ConcatProperties
    <3>2. \A i \in 1 .. Len(t) + Len(d) : u[i] = IF i <= Len(t) THEN t[i] ELSE d[i - Len(t)]
      BY <3>0, ConcatProperties
    <3> HIDE DEF u
    <3>3. \A i \in 1 .. 3 : u[i] = IF i <= 2 THEN t[i] ELSE d[i - 2]
      BY <2>1, <2>d, <3>2
    <3>4. u[3] = d[3 - 2] /\ 3 - 2 = 1
      BY <3>3
    <3> QED
      BY <2>1, <2>d, <3>1, <3>3, <3>4
  <2>4. \A i \in 1 .. 3 : i = 1 \/ i = 2 \/ i = 3
    OBVIOUS
  <2> HIDE DEF u, v, S
  <2>5. u = v
    BY <2>2, <2>3, <2>4, SeqEqual
  <2> QED
    BY <2>5 DEF t, d, u, v
<1>5. << a >> \o << b >> = << a, b >> /\ << a >> \o << c >> = << a, c >> /\ << b >> \o << c >> = << b, c >>
  <2>1. a \in S /\ b \in S /\ c \in S
    OBVIOUS
  <2> HIDE DEF S
  <2> QED
    BY <1>3, <2>1
<1> QED
  BY <1>2, <1>4, <1>5

(* An entry that is taken is read, with the comma and the key before it.       *)
LEMMA ReadsEntry ==
  ASSUME NEW base \in Seq(Frames), NEW top \in Frames, NEW key \in Keys \cup {NoKey}, Takes(top, key), NEW entry
  PROVE  \E v \in Frames :
            /\ TakesValue(v) /\ Wanting(v, "next") = Filled(top, key)
            /\ ReadAll(Reading(base, top),
                       (IF top.wants = "next" THEN << Comma >> ELSE << >>)
                       \o (IF key = NoKey THEN << >> ELSE << Lexeme("key", key) >>) \o << entry >>)
               = Read(Reading(base, v), entry)
<1> DEFINE r == Reading(base, top)
           k == Lexeme("key", key)
           tokens == (IF top.wants = "next" THEN << Comma >> ELSE << >>)
                     \o (IF key = NoKey THEN << >> ELSE << k >>) \o << entry >>
           Goal(v) == /\ v \in Frames /\ TakesValue(v) /\ Wanting(v, "next") = Filled(top, key)
                      /\ ReadAll(r, tokens) = Read(Reading(base, v), entry)
<1> SUFFICES \E v : Goal(v)
  OBVIOUS
<1>1. r.ok
  BY ReadingIs
<1>2. \A v : Reading(base, v).ok
  BY DEF Reading, Opened
<1> HIDE DEF r, k, Comma
<1>3. CASE key = NoKey /\ top.wants # "next"
  <2>1. tokens = << entry >>
    BY <1>3
  <2>2. TakesValue(top)
    BY <1>3, NoKeyIsNoKey DEF Takes, TakesValue
  <2>3. Wanting(top, "next") = Filled(top, key)
    BY <1>3 DEF Wanting, Filled
  <2> HIDE DEF tokens, TakesValue, Wanting, Filled
  <2>4. Goal(top)
    BY <1>1, <2>1, <2>2, <2>3, OneToken DEF r
  <2> HIDE DEF Goal
  <2> QED
    BY <2>4
<1>4. CASE key = NoKey /\ top.wants = "next"
  <2> DEFINE v == Wanting(top, "entry")
  <2>1. tokens = << Comma, entry >>
    BY <1>4, TuplesTogether
  <2>2. top.kind = "array"
    BY <1>4, NoKeyIsNoKey DEF Takes
  <2>3. v \in Frames /\ TakesValue(v)
    BY <2>2 DEF Frames, Wanting, TakesValue
  <2>4. Wanting(v, "next") = Filled(top, key)
    BY <1>4 DEF Wanting, Filled
  <2>5. Read(r, Comma) = Reading(base, v)
    BY <1>4, <2>2, ReadsComma DEF r
  <2> HIDE DEF tokens, TakesValue, Wanting, Filled, v
  <2>6. Goal(v)
    BY <1>1, <1>2, <2>1, <2>3, <2>4, <2>5, TwoTokens
  <2> HIDE DEF Goal
  <2> QED
    BY <2>6
<1>5. ASSUME key # NoKey
      PROVE  key \in Keys /\ top.kind = "object" /\ top.wants \in {"first", "next"} /\ key \notin top.keys
  BY <1>5 DEF Takes
<1>6. CASE key # NoKey /\ top.wants # "next"
  <2> DEFINE v == WithKey(top, key)
  <2>1. tokens = << k, entry >>
    BY <1>6, TuplesTogether
  <2>2. v \in Frames /\ TakesValue(v)
    BY <1>5, <1>6 DEF Frames, WithKey, TakesValue
  <2>3. Wanting(v, "next") = Filled(top, key)
    BY <1>6 DEF Wanting, Filled, WithKey
  <2>4. Read(r, k) = Reading(base, v)
    BY <1>5, <1>6, ReadsKey DEF r, k
  <2> HIDE DEF tokens, TakesValue, Wanting, Filled, v
  <2>5. Goal(v)
    BY <1>1, <1>2, <2>1, <2>2, <2>3, <2>4, TwoTokens
  <2> HIDE DEF Goal
  <2> QED
    BY <2>5
<1>7. CASE key # NoKey /\ top.wants = "next"
  <2> DEFINE u == Wanting(top, "entry")
             v == WithKey(u, key)
  <2>1. tokens = << Comma, k, entry >>
    BY <1>7, TuplesTogether
  <2>2. u \in Frames /\ u.kind = "object" /\ u.wants = "entry" /\ u.keys = top.keys
    BY <1>5, <1>7 DEF Frames, Wanting
  <2>3. Wanting(v, "next") = Filled(top, key)
    BY <1>7 DEF Wanting, Filled, WithKey
  <2>4. Read(r, Comma) = Reading(base, u)
    BY <1>5, <1>7, ReadsComma DEF r
  <2> HIDE DEF u
  <2>5. v \in Frames /\ TakesValue(v)
    BY <1>5, <1>7, <2>2 DEF Frames, WithKey, TakesValue
  <2>6. Read(Reading(base, u), k) = Reading(base, v)
    BY <1>5, <1>7, <2>2, ReadsKey DEF k
  <2> HIDE DEF tokens, TakesValue, Wanting, Filled, v
  <2>7. Goal(v)
    BY <1>1, <1>2, <2>1, <2>3, <2>4, <2>5, <2>6, ThreeTokens
  <2> HIDE DEF Goal
  <2> QED
    BY <2>7
<1> HIDE DEF Goal
<1> QED
  BY <1>3, <1>4, <1>6, <1>7

(* The benchmark that is found where the reader is.                           *)
LEMMA FindsInside ==
  ASSUME NEW base \in Seq(Frames), NEW top \in Frames, NEW fd
  PROVE  LET r == Reading(base, top)
         IN  (IF r.ok /\ IsVersion(Where(r)) THEN fd \cup {<<Where(r)[3], Where(r)[5]>>} ELSE fd)
             = fd \cup Inside(base)
<1> DEFINE s == Append(base, top)
           r == Reading(base, top)
           path == Where(r)
           n == Len(base)
<1>1. n \in Nat /\ Len(s) = n + 1 /\ s \in Seq(Frames) /\ DOMAIN s = 1 .. n + 1
      /\ \A i \in 1 .. n : s[i] = base[i]
  OBVIOUS
<1>2. r.ok /\ r.open = s
  BY DEF Reading, Opened
<1> HIDE DEF s, r
<1>3. path = [i \in 1 .. n + 1 |-> s[i].key]
  BY <1>1, <1>2 DEF Where
<1>4. Len(path) = n + 1 /\ \A i \in 1 .. n : path[i] = base[i].key
  <2>1. Len(path) = n + 1
    BY <1>1, <1>3
  <2>2. \A i \in 1 .. n : path[i] = base[i].key
    BY <1>1, <1>3
  <2> QED
    BY <2>1, <2>2
<1> HIDE DEF path
<1>5. CASE n >= 5
  <2>1. path[2] = base[2].key /\ path[3] = base[3].key /\ path[4] = base[4].key /\ path[5] = base[5].key
    BY <1>1, <1>4, <1>5
  <2>2. IsVersion(path) <=> base[2].key = "functions" /\ base[4].key = "versions"
    BY <1>1, <1>4, <1>5, <2>1 DEF IsVersion
  <2>3. Inside(base) = IF base[2].key = "functions" /\ base[4].key = "versions"
                       THEN {<<base[3].key, base[5].key>>} ELSE {}
    BY <1>5 DEF Inside
  <2> QED
    BY <1>2, <2>1, <2>2, <2>3 DEF path, r
<1>6. CASE ~ (n >= 5)
  <2>1. ~ IsVersion(path)
    BY <1>1, <1>4, <1>6 DEF IsVersion
  <2>2. Inside(base) = {}
    BY <1>6 DEF Inside
  <2> QED
    BY <2>1, <2>2 DEF path, r
<1> QED
  BY <1>5, <1>6

-----------------------------------------------------------------------------
(* The writer knows of the stack its height, and whether the top had an entry. *)
JsonOf(stack) == [level |-> 2 * (Len(stack) - 1), nonempty |-> Last(stack).wants = "next"]
Finds(r, fd) == IF r.ok /\ IsVersion(Where(r)) THEN fd \cup {<<Where(r)[3], Where(r)[5]>>} ELSE fd

LEMMA JsonIs ==
  ASSUME NEW base \in Seq(Frames), NEW top \in Frames
  PROVE  JsonOf(Append(base, top)) = [level |-> 2 * Len(base), nonempty |-> top.wants = "next"]
<1> DEFINE s == Append(base, top)
           n == Len(base)
<1>1. n \in Nat /\ Len(s) = n + 1 /\ s[n + 1] = top
  OBVIOUS
<1> HIDE DEF s
<1>2. Last(s) = top
  BY <1>1 DEF Last
<1>3. 2 * (Len(s) - 1) = 2 * n
  BY <1>1
<1> QED
  BY <1>2, <1>3 DEF JsonOf, s

(* What a call moves is what is written and read.                             *)
LEMMA MovesAsWritten ==
  ASSUME NEW p, NEW c, NEW q, Moves(p, c, q), c.key \in Keys \cup {NoKey}
  PROVE  LET j == JsonOf(p.open)
             r == ReadAll(Opened(p.open), Tokens(j, c))
         IN  Written(j, c) = JsonOf(q.open) /\ r = Opened(q.open) /\ q.found = Finds(r, p.found)
<1>1. PICK base \in Seq(Frames), top \in Frames :
        /\ p.open = Append(base, top)
        /\ \/ /\ c.call = "item" /\ Takes(top, c.key)
              /\ q = At(base, Filled(top, c.key), p.found \cup Inside(base))
           \/ /\ c.call = "push" /\ Takes(top, c.key) /\ c.type \in {"object", "array"}
              /\ LET b == Append(base, Filled(top, c.key))
                 IN  q = At(b, Context(c.type), p.found \cup Inside(b))
           \/ /\ c.call = "pop" /\ top.kind = c.type /\ top.wants \in {"first", "next"}
              /\ \E b \in Seq(Frames), outer \in Frames :
                    /\ base = Append(b, outer) /\ outer.wants = "next"
                    /\ q = At(b, outer, p.found \cup Inside(b))
  BY DEF Moves
<1> DEFINE j == JsonOf(p.open)
           u == Filled(top, c.key)
           n == Len(base)
<1>2. j = [level |-> 2 * n, nonempty |-> top.wants = "next"] /\ n \in Nat
  BY <1>1, JsonIs
<1>3. Opened(p.open) = Reading(base, top)
  BY <1>1 DEF Reading
<1>4. ASSUME Takes(top, c.key) PROVE u \in Frames /\ u.wants = "next"
  <2>1. u = [kind |-> top.kind, wants |-> "next", keys |-> u.keys, key |-> u.key]
        /\ u.keys \in SUBSET Keys /\ u.key \in Keys \cup {NoKey} /\ top.kind \in {"root", "object", "array"}
    BY DEF Filled, Frames
  <2> HIDE DEF u
  <2> QED
    BY <2>1 DEF Frames
<1> HIDE DEF j, u
<1>5. CASE c.call = "item"
  <2>1. Takes(top, c.key) /\ q = At(base, u, p.found \cup Inside(base))
    BY <1>1, <1>5 DEF u
  <2>2. Tokens(j, c) = (IF top.wants = "next" THEN << Comma >> ELSE << >>)
                       \o (IF c.key = NoKey THEN << >> ELSE << Lexeme("key", c.key) >>) \o << Lexeme("value", NoKey) >>
    <3>1. j.nonempty <=> top.wants = "next"
      BY <1>2
    <3> QED
      BY <1>5, <3>1 DEF Tokens, Comma
  <2>3. PICK v \in Frames :
            /\ TakesValue(v) /\ Wanting(v, "next") = u
            /\ ReadAll(Reading(base, top), Tokens(j, c)) = Read(Reading(base, v), Lexeme("value", NoKey))
    <3> HIDE DEF ReadAll, Tokens, Reading, Takes, TakesValue, Wanting, Filled, Read
    <3> QED
      BY <2>1, <2>2, ReadsEntry DEF u
  <2>4. ReadAll(Opened(p.open), Tokens(j, c)) = Reading(base, u)
    BY <1>3, <2>3, ReadsValue
  <2>5. q.open = Append(base, u) /\ q.found = p.found \cup Inside(base)
    BY <2>1 DEF At
  <2>6. Written(j, c) = [level |-> 2 * n, nonempty |-> TRUE]
    BY <1>2, <1>5 DEF Written
  <2>7. JsonOf(q.open) = [level |-> 2 * n, nonempty |-> TRUE]
    BY <1>4, <2>1, <2>5, JsonIs
  <2>8. Finds(Reading(base, u), p.found) = q.found
    BY <1>4, <2>1, <2>5, FindsInside DEF Finds
  <2> QED
    BY <2>4, <2>5, <2>6, <2>7, <2>8 DEF Reading, j
<1>6. CASE c.call = "push"
  <2> DEFINE b == Append(base, u)
             C == Context(c.type)
  <2>1. Takes(top, c.key) /\ q = At(b, C, p.found \cup Inside(b)) /\ c.type \in {"object", "array"}
    BY <1>1, <1>6 DEF u
  <2>2. Tokens(j, c) = (IF top.wants = "next" THEN << Comma >> ELSE << >>)
                       \o (IF c.key = NoKey THEN << >> ELSE << Lexeme("key", c.key) >>) \o << Lexeme("open", c.type) >>
    <3>1. j.nonempty <=> top.wants = "next"
      BY <1>2
    <3> QED
      BY <1>6, <3>1 DEF Tokens, Comma
  <2>3. PICK v \in Frames :
            /\ TakesValue(v) /\ Wanting(v, "next") = u
            /\ ReadAll(Reading(base, top), Tokens(j, c)) = Read(Reading(base, v), Lexeme("open", c.type))
    <3> HIDE DEF ReadAll, Tokens, Reading, Takes, TakesValue, Wanting, Filled, Read
    <3> QED
      BY <2>1, <2>2, ReadsEntry DEF u
  <2>4. ReadAll(Opened(p.open), Tokens(j, c)) = Reading(b, C)
    BY <1>3, <2>3, ReadsOpening
  <2>5. q.open = Append(b, C) /\ q.found = p.found \cup Inside(b)
    BY <2>1 DEF At
  <2>6. Written(j, c) = [level |-> 2 * n + 2, nonempty |-> FALSE]
    BY <1>2, <1>6 DEF Written
  <2>7. C \in Frames /\ C.wants = "first"
    <3>1. C = [kind |-> c.type, wants |-> "first", keys |-> {}, key |-> NoKey]
      BY DEF Context
    <3> QED
      BY <2>1, <3>1 DEF Frames
  <2>8. b \in Seq(Frames) /\ Len(b) = n + 1
    BY <1>4, <2>1
  <2> HIDE DEF b, C
  <2>9. JsonOf(q.open) = [level |-> 2 * n + 2, nonempty |-> FALSE]
    <3>1. JsonOf(q.open) = [level |-> 2 * Len(b), nonempty |-> C.wants = "next"]
      BY <2>5, <2>7, <2>8, JsonIs
    <3>2. 2 * Len(b) = 2 * n + 2
      BY <1>2, <2>8
    <3> QED
      BY <2>7, <3>1, <3>2
  <2>10. Finds(Reading(b, C), p.found) = q.found
    BY <2>5, <2>7, <2>8, FindsInside DEF Finds
  <2> QED
    BY <2>4, <2>5, <2>6, <2>9, <2>10 DEF Reading, j
<1>7. CASE c.call = "pop"
  <2>1. /\ top.kind = c.type /\ top.wants \in {"first", "next"}
        /\ \E b \in Seq(Frames), outer \in Frames :
              base = Append(b, outer) /\ outer.wants = "next" /\ q = At(b, outer, p.found \cup Inside(b))
    BY <1>1, <1>7
  <2>2. PICK b \in Seq(Frames), outer \in Frames :
              base = Append(b, outer) /\ outer.wants = "next" /\ q = At(b, outer, p.found \cup Inside(b))
    BY <2>1
  <2>3. Tokens(j, c) = << Lexeme("close", top.kind) >>
    BY <1>7, <2>1 DEF Tokens
  <2>4. ReadAll(Opened(p.open), Tokens(j, c)) = Reading(b, outer)
    <3>1. Reading(base, top).ok
      BY ReadingIs
    <3>2. Read(Reading(base, top), Lexeme("close", top.kind)) = Opened(base)
      BY <2>1, ReadsClosing
    <3> HIDE DEF Read, ReadAll, Lexeme
    <3>3. ReadAll(Reading(base, top), << Lexeme("close", top.kind) >>) = Opened(base)
      BY <3>1, <3>2, OneToken
    <3> QED
      BY <1>3, <2>2, <2>3, <3>3 DEF Reading
  <2>5. q.open = Append(b, outer) /\ q.found = p.found \cup Inside(b)
    BY <2>2 DEF At
  <2>6. Written(j, c) = [level |-> 2 * n - 2, nonempty |-> TRUE]
    BY <1>2, <1>7 DEF Written, AfterPop
  <2>7. JsonOf(q.open) = [level |-> 2 * n - 2, nonempty |-> TRUE]
    <3>1. JsonOf(q.open) = [level |-> 2 * Len(b), nonempty |-> outer.wants = "next"]
      BY <2>5, JsonIs
    <3>2. Len(b) \in Nat /\ n = Len(b) + 1
      BY <2>2
    <3>3. 2 * Len(b) = 2 * n - 2
      BY <3>2
    <3> QED
      BY <2>2, <3>1, <3>3
  <2>8. Finds(Reading(b, outer), p.found) = q.found
    BY <2>5, FindsInside DEF Finds
  <2> QED
    BY <2>4, <2>5, <2>6, <2>7, <2>8 DEF Reading, j
<1> QED
  BY <1>1, <1>5, <1>6, <1>7

-----------------------------------------------------------------------------
(* The calls made so far lead to where the writer and the reader are.          *)
Started == At(<< >>, Outside, {})
Ended(t, r) == At(<< >>, t, Benchmarked(r))
Leads(f, t) ==
    /\ t \in Frames /\ t.wants = "next"
    /\ Path(f, Script[report], Started, Ended(t, report))
    /\ json = JsonOf(f[calls].open) /\ reader = Opened(f[calls].open) /\ found = f[calls].found
Writing ==
    /\ report \in Reports /\ Script[report] \in Seq(Call)
    /\ calls \in Nat /\ calls <= Len(Script[report])
    /\ \E f, t : Leads(f, t)
Waiting == calls = 0 /\ json = Empty /\ reader = NewReader /\ found = {}
ReportInv ==
    /\ report = NoReport => Waiting
    /\ report # NoReport => Writing

LEMMA StartedIs ==
  /\ Started.open = << Outside >> /\ Started.found = {}
  /\ Empty = JsonOf(<< Outside >>) /\ NewReader = Opened(<< Outside >>)
<1>1. Outside = [kind |-> "root", wants |-> "value", keys |-> {}, key |-> NoKey]
  BY DEF Outside, Context
<1>2. Outside \in Frames /\ Outside.wants = "value"
  BY <1>1 DEF Frames
<1> DEFINE e == << >>
<1> HIDE DEF Outside
<1>3. Append(<< >>, Outside) = << Outside >> /\ << >> \in Seq(Frames) /\ Len(<< >>) = 0
  BY <1>2
<1>4. Started.open = << Outside >> /\ Started.found = {}
  BY <1>3 DEF Started, At
<1>5. JsonOf(<< Outside >>) = [level |-> 0, nonempty |-> FALSE]
  <2>1. JsonOf(Append(<< >>, Outside)) = [level |-> 2 * Len(<< >>), nonempty |-> Outside.wants = "next"]
    BY <1>2, <1>3, JsonIs
  <2>2. 2 * Len(<< >>) = 0
    OBVIOUS
  <2>3. (Outside.wants = "next") = FALSE
    BY <1>2
  <2> QED
    BY <1>3, <2>1, <2>2, <2>3
<1> QED
  BY <1>4, <1>5 DEF Empty, NewReader, Opened

LEMMA WritesOn ==
  ASSUME ReportInv, Write
  PROVE  ReportInv'
<1> DEFINE s == Script[report]
           c == s[calls + 1]
<1>1. report # NoReport /\ Writing /\ calls < Len(s) /\ report' = report /\ calls' = calls + 1
  BY DEF ReportInv, Write
<1>2. PICK f, t : Leads(f, t)
  BY <1>1 DEF Writing
<1>3. calls + 1 \in 1 .. Len(s) /\ calls + 1 - 1 = calls /\ c \in Call
  BY <1>1 DEF Writing
<1> DEFINE p == f[calls]
           q == f[calls + 1]
<1>4. Moves(p, c, q)
  <2> DEFINE k == calls + 1
  <2>1. k \in 1 .. Len(s) /\ k - 1 = calls
    BY <1>1, <1>3 DEF Writing
  <2>2. \A i \in 1 .. Len(s) : Moves(f[i - 1], s[i], f[i])
    BY <1>2 DEF Leads, Path
  <2> HIDE DEF k, Moves, s
  <2>3. Moves(f[calls], s[k], f[k])
    BY <2>1, <2>2
  <2> QED
    BY <2>3 DEF k, s
<1>5. c.key \in Keys \cup {NoKey}
  BY <1>3 DEF Call
<1>6. json = JsonOf(p.open) /\ reader = Opened(p.open) /\ found = p.found
  BY <1>2 DEF Leads
<1>7. /\ json' = Written(json, c)
      /\ reader' = ReadAll(reader, Tokens(json, c))
      /\ found' = IF reader'.ok /\ IsVersion(Where(reader'))
                  THEN found \cup {<<Where(reader')[3], Where(reader')[5]>>} ELSE found
  BY DEF Write
<1> HIDE DEF s, c, p, q
<1>8. /\ Written(json, c) = JsonOf(q.open) /\ ReadAll(reader, Tokens(json, c)) = Opened(q.open)
      /\ q.found = Finds(Opened(q.open), found)
  <2> HIDE DEF Moves
  <2>1. LET j == JsonOf(p.open)
            r == ReadAll(Opened(p.open), Tokens(j, c))
        IN  Written(j, c) = JsonOf(q.open) /\ r = Opened(q.open) /\ q.found = Finds(r, p.found)
    BY <1>4, <1>5, MovesAsWritten
  <2> QED
    BY <1>6, <2>1
<1>9. json' = JsonOf(q.open) /\ reader' = Opened(q.open) /\ found' = q.found
  BY <1>7, <1>8 DEF Finds
<1>10. Leads(f, t)'
  <2>1. /\ t \in Frames /\ t.wants = "next" /\ Path(f, Script[report], Started, Ended(t, report))
    BY <1>2 DEF Leads
  <2> HIDE DEF Path, Ended, Started
  <2> QED
    BY <1>1, <1>9, <2>1 DEF Leads, q
<1>11. Writing'
  <2>1. (\E g, u : Leads(g, u))'
    <3> HIDE DEF Leads
    <3> QED
      BY <1>10
  <2>2. calls' \in Nat /\ calls' <= Len(Script[report'])
    BY <1>1, <1>3 DEF Writing, s
  <2>3. report' \in Reports /\ Script[report'] \in Seq(Call)
    BY <1>1 DEF Writing
  <2> HIDE DEF Leads, Script
  <2> QED
    BY <2>1, <2>2, <2>3 DEF Writing
<1> QED
  BY <1>1, <1>11 DEF ReportInv

LEMMA StartsWriting ==
  ASSUME ReportInv, PrintBenchmarks
  PROVE  ReportInv'
<1>1. /\ report = NoReport /\ report' \in Reports /\ Waiting
      /\ calls' = calls /\ json' = json /\ reader' = reader /\ found' = found
  BY DEF ReportInv, PrintBenchmarks
<1> DEFINE r == report'
<1>2. PICK t \in Frames : t.wants = "next" /\ Goes(Script[r], Started, Ended(t, r))
  BY <1>1, ScriptLeads DEF Started, Ended
<1>3. Script[r] \in Seq(Call)
  BY <1>1, ScriptLeads
<1>4. PICK f : Path(f, Script[r], Started, Ended(t, r))
  BY <1>2 DEF Goes
<1>5. f[0] = Started
  BY <1>4 DEF Path
<1>6. calls' = 0 /\ json' = JsonOf(f[0].open) /\ reader' = Opened(f[0].open) /\ found' = f[0].found
  BY <1>1, <1>5, StartedIs DEF Waiting
<1>7. Leads(f, t)'
  <2> HIDE DEF Path, Ended, Started
  <2> QED
    BY <1>2, <1>4, <1>6 DEF Leads
<1>8. Writing'
  <2>1. (\E g, u : Leads(g, u))'
    <3> HIDE DEF Leads
    <3> QED
      BY <1>7
  <2>2. calls' \in Nat /\ calls' <= Len(Script[report'])
    BY <1>3, <1>6
  <2> HIDE DEF Leads, Script
  <2> QED
    BY <1>1, <1>3, <2>1, <2>2 DEF Writing
<1>9. Waiting'
  BY <1>1 DEF Waiting
<1> QED
  BY <1>8, <1>9 DEF ReportInv

LEMMA ReportInvHolds == ReportSpec => []ReportInv
<1>1. ReportInit => ReportInv
  BY DEF ReportInit, ReportInv, Waiting
<1>2. ReportInv /\ [ReportNext \/ ReportDone]_reportVars => ReportInv'
  <2> SUFFICES ASSUME ReportInv, [ReportNext \/ ReportDone]_reportVars PROVE ReportInv'
    OBVIOUS
  <2>1. CASE PrintBenchmarks
    BY <2>1, StartsWriting
  <2>2. CASE Write
    BY <2>2, WritesOn
  <2>3. CASE ReportDone \/ UNCHANGED reportVars
    <3>1. UNCHANGED <<report, calls, json, reader, found>>
      BY <2>3 DEF ReportDone, reportVars
    <3>2. Waiting => Waiting'
      BY <3>1 DEF Waiting
    <3>3. Writing => Writing'
      <4>1. \A f, t : Leads(f, t) <=> Leads(f, t)'
        <5> HIDE DEF Path, Ended, Started, JsonOf, Opened
        <5> QED
          BY <3>1 DEF Leads
      <4> HIDE DEF Leads, Script
      <4> QED
        BY <3>1, <4>1 DEF Writing
    <3> QED
      BY <3>1, <3>2, <3>3 DEF ReportInv
  <2> QED
    BY <2>1, <2>2, <2>3 DEF ReportNext
<1> QED
  BY <1>1, <1>2, PTL DEF ReportSpec

(* Where the calls made so far lead: to a stack of levels, none of whose       *)
(* functions is without a benchmark, and in the end to the end.                *)
LEMMA LeadsTo ==
  ASSUME NEW f, NEW t, Leads(f, t), Writing
  PROVE  /\ Named(f[calls]) /\ found \subseteq Benchmarked(report)
         /\ calls = Len(Script[report]) => f[calls] = Ended(t, report)
<1> DEFINE n == Len(Script[report])
           q == Ended(t, report)
<1>1. /\ f[0] = Started /\ f[n] = q /\ Named(Started) /\ Started.found \subseteq q.found
      /\ \A k \in 1 .. n : Named(f[k]) /\ f[k].found \subseteq q.found
  BY DEF Leads, Path
<1>2. calls = 0 \/ calls \in 1 .. n
  BY DEF Writing
<1>3. q.found = Benchmarked(report) /\ found = f[calls].found
  BY DEF Leads, Ended, At
<1> HIDE DEF q, n, Started, Named
<1> QED
  BY <1>1, <1>2, <1>3 DEF q, n

(* Whatever was benchmarked and configured, what is written is one document of *)
(* JSON, in an object every value with a key of its own, although the writer   *)
(* remembers one bit and a level (utils.c:570-638, checkasm.c:462).            *)
THEOREM ReportIsOneDocument == ReportSpec => []WellFormedJson
<1>1. ReportInv => WellFormedJson
  <2> SUFFICES ASSUME ReportInv PROVE WellFormedJson
    OBVIOUS
  <2>1. CASE report = NoReport
    <3>1. json = JsonOf(<< Outside >>) /\ reader = Opened(<< Outside >>)
      BY <2>1, StartedIs DEF ReportInv, Waiting
    <3> QED
      BY <2>1, <3>1 DEF WellFormedJson, JsonOf, Opened
  <2>2. CASE report # NoReport
    <3>1. Writing
      BY <2>2 DEF ReportInv
    <3>2. PICK f, t : Leads(f, t)
      BY <3>1 DEF Writing
    <3>3. json = JsonOf(f[calls].open) /\ reader = Opened(f[calls].open) /\ t \in Frames /\ t.wants = "next"
      BY <3>2 DEF Leads
    <3>4. reader.ok /\ json.level = 2 * (Len(reader.open) - 1)
      BY <3>3 DEF JsonOf, Opened
    <3>5. ASSUME calls = Len(Script[report]) PROVE ReadDocument(reader)
      <4>1. f[calls] = Ended(t, report)
        BY <3>1, <3>2, <3>5, LeadsTo
      <4>2. reader.open = << t >> /\ reader.ok
        BY <3>3, <4>1 DEF Ended, At, Opened
      <4> QED
        BY <3>3, <4>2 DEF ReadDocument, Top, Last
    <3> QED
      BY <3>4, <3>5 DEF WellFormedJson
  <2> QED
    BY <2>1, <2>2
<1> QED
  BY <1>1, ReportInvHolds, PTL

(* The benchmarks in the report are those that were made, each under its        *)
(* function, and no function is there without one (checkasm.c:383-451).         *)
THEOREM ReportHasTheBenchmarks == ReportSpec => []ReportsBenchmarks
<1>1. ReportInv => ReportsBenchmarks
  <2> SUFFICES ASSUME ReportInv PROVE ReportsBenchmarks
    OBVIOUS
  <2>1. CASE report = NoReport
    <3>1. reader = Opened(<< Outside >>) /\ found = {}
      BY <2>1, StartedIs DEF ReportInv, Waiting
    <3>2. FunctionKeys = {}
      BY <3>1 DEF FunctionKeys, Opened
    <3> QED
      BY <2>1, <3>1, <3>2 DEF ReportsBenchmarks
  <2>2. CASE report # NoReport
    <3>1. Writing
      BY <2>2 DEF ReportInv
    <3>2. PICK f, t : Leads(f, t)
      BY <3>1 DEF Writing
    <3>3. reader.open = f[calls].open /\ found = f[calls].found
      BY <3>2 DEF Leads, Opened
    <3>4. Named(f[calls]) /\ found \subseteq Benchmarked(report)
      BY <3>1, <3>2, LeadsTo
    <3>5. FunctionKeys \subseteq { b[1] : b \in found }
      BY <3>3, <3>4 DEF FunctionKeys, Named
    <3>6. ASSUME calls = Len(Script[report]) PROVE found = Benchmarked(report)
      <4>1. f[calls] = Ended(t, report)
        BY <3>1, <3>2, <3>6, LeadsTo
      <4> QED
        BY <3>3, <4>1 DEF Ended, At
    <3> QED
      BY <3>4, <3>5, <3>6 DEF ReportsBenchmarks
  <2> QED
    BY <2>1, <2>2
<1> QED
  BY <1>1, ReportInvHolds, PTL
=============================================================================
