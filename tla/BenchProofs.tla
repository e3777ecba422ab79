---------------------------- MODULE BenchProofs ----------------------------
(***************************************************************************)
(* What holds of a benchmark for every budget, timer and function, as long   *)
(* as the calls that the budget is enough for fit in an int.                 *)
(***************************************************************************)
EXTENDS BenchStats, TLAPS

-----------------------------------------------------------------------------
(* An int, the timer and the batches.                                        *)
LEMMA IntIs ==
  ASSUME NEW n \in Nat, n <= MaxInt
  PROVE  AsInt(n) = n
<1> DEFINE d == 2 * (MaxInt + 1)
           m == n + MaxInt + 1
<1>1. d \in Nat \ {0} /\ m \in Nat /\ m < d
  BY IntAssumption
<1> HIDE DEF d, m
<1>2. m % d = m
  BY <1>1
<1>3. AsInt(n) = (m % d) - MaxInt - 1
  BY DEF AsInt, d, m
<1> QED
  BY <1>2, <1>3, IntAssumption DEF m

(* What a batch of x calls is taken for: the timer is wrong by less than one   *)
(* cycle, in assembly by half of what a round shows, and by a round or two.   *)
Sampled(b, x, s) ==
    /\ s = [sum |-> s.sum, count |-> s.count] /\ s.sum \in Nat /\ s.count \in Nat \ {0}
    /\ s.count <= x + 31
    /\ b.call * x <= 2 * (b.resolution * s.sum) + b.resolution + 64 * b.call
    /\ b.call * s.count <= 2 * (b.resolution * s.sum) + b.resolution
    /\ s.sum = 0 => b.call * x <= b.resolution

LEMMA LoopIs ==
  ASSUME NEW b \in Loops
  PROVE  /\ b.target \in Nat \ {0} /\ b.resolution \in Nat \ {0} /\ b.call \in Nat \ {0}
         /\ b.fixed \in Nat /\ b.kind \in {"bench", "nop"} /\ b.asm \in BOOLEAN
  BY LoopsAssumption

LEMMA LessIs ==
  ASSUME NEW r \in Nat, NEW a \in Nat, NEW b \in Nat, r * a < r * b
  PROVE  a < b
<1> SUFFICES ASSUME b <= a PROVE FALSE
  OBVIOUS
<1>1. r * b <= r * a
  OBVIOUS
<1> QED
  BY <1>1

(* What a timer of unit r shows of the time e, whole units of its own.        *)
LEMMA ShownIs ==
  ASSUME NEW e \in Nat, NEW r \in Nat \ {0}, NEW t \in {e \div r, (e + r - 1) \div r}
  PROVE  /\ t \in Nat /\ e < r * t + r
         /\ e \div r \in Nat /\ e \div r <= t /\ t <= e \div r + 1
<1> DEFINE q == e \div r
           u == (e + r - 1) \div r
<1>1. q \in Nat /\ u \in Nat /\ q <= u /\ u <= q + 1
  <2>1. e + r - 1 \in Nat
    OBVIOUS
  <2>2. q \in Nat /\ r * q <= e /\ e < r * q + r
    OBVIOUS
  <2>3. u \in Nat /\ r * u <= e + r - 1 /\ e + r - 1 < r * u + r
    <3> DEFINE g == e + r - 1
    <3>1. g \in Nat
      BY <2>1
    <3> HIDE DEF g
    <3>2. g \div r \in Nat /\ r * (g \div r) <= g /\ g < r * (g \div r) + r
      BY <3>1
    <3> QED
      BY <3>2 DEF g
  <2> HIDE DEF q, u
  <2>4. r * (q + 1) = r * q + r /\ r * (u + 1) = r * u + r /\ r * (q + 2) = r * q + 2 * r
    BY <2>2, <2>3
  <2>5. r * q < r * (u + 1)
    BY <2>2, <2>3, <2>4
  <2>6. r * u < r * (q + 2)
    BY <2>2, <2>3, <2>4
  <2>7. q < u + 1
    BY <2>2, <2>3, <2>5, LessIs
  <2>8. u < q + 2
    BY <2>2, <2>3, <2>6, LessIs
  <2> QED
    BY <2>2, <2>3, <2>7, <2>8
<1>2. e < r * q + r
  OBVIOUS
<1>3. t \in {q, u}
  OBVIOUS
<1> HIDE DEF q, u
<1>4. t \in Nat /\ q <= t /\ t <= q + 1
  BY <1>1, <1>3
<1>5. r * q <= r * t /\ r * q \in Nat /\ r * t \in Nat
  BY <1>1, <1>4
<1>6. e < r * t + r
  BY <1>2, <1>5
<1> QED
  BY <1>1, <1>4, <1>6 DEF q

(* The naive loop, for so long or longer.                                    *)
LEMMA SimpleIs ==
  ASSUME loop \in Loops, NEW x \in Nat \ {0}, NEW delay \in Nat,
         NEW t \in Shown(Elapsed(x) + delay)
  PROVE  Sampled(loop, x, [sum |-> t, count |-> x])
<1> DEFINE f == loop.fixed
           c == loop.call
           r == loop.resolution
           e == Elapsed(x) + delay
           y == c * x
           z == r * t
<1>1. f \in Nat /\ c \in Nat \ {0} /\ r \in Nat \ {0}
  BY LoopIs
<1>2. y \in Nat /\ e = f + y + delay
  BY <1>1 DEF Elapsed
<1>3. e \in Nat
  BY <1>1, <1>2
<1>4. t \in {e \div r, (e + r - 1) \div r}
  BY DEF Shown
<1> HIDE DEF e
<1>5. t \in Nat /\ e < z + r
  BY <1>1, <1>3, <1>4, ShownIs
<1>6. z \in Nat /\ (t = 0 => z = 0)
  BY <1>1, <1>5
<1> HIDE DEF f, c, r, y, z
<1>7. y <= 2 * z + r + 64 * c /\ y <= 2 * z + r /\ (t = 0 => y <= r)
  BY <1>1, <1>2, <1>5, <1>6
<1>8. x <= x + 31
  OBVIOUS
<1> QED
  BY <1>5, <1>7, <1>8 DEF Sampled, c, r, y, z

StatsType == [nb_samples : Nat, calls : Nat, next_count : Nat \ {0}]

LEMMA GrowthIs ==
  ASSUME NEW st \in StatsType, NEW sum \in Nat, NEW target \in Nat,
         65 * st.next_count + 63 <= MaxInt
  PROVE  \E n \in Nat \ {0} :
           /\ CountGrow(st, sum, target) = [st EXCEPT !.next_count = n]
           /\ \/ sum < target \div 1024 /\ n = 2 * st.next_count
              \/ 64 * n <= 65 * st.next_count + 63
<1> DEFINE x == st.next_count
           n == IF sum < target \div 1024 THEN 2 * x
                ELSE IF x < SlowLimit THEN (65 * x + 63) \div 64 ELSE x
<1>1. x \in Nat \ {0}
  BY DEF StatsType
<1>2. AsInt(2 * x) = 2 * x /\ AsInt(65 * x + 63) = 65 * x + 63
  <2>1. 2 * x \in Nat /\ 2 * x <= MaxInt /\ 65 * x + 63 \in Nat /\ 65 * x + 63 <= MaxInt
    BY <1>1, IntAssumption
  <2> QED
    BY <2>1, IntIs
<1>3. CountGrow(st, sum, target) = [st EXCEPT !.next_count = n]
  <2>1. st = [st EXCEPT !.next_count = x]
    BY DEF StatsType
  <2> QED
    BY <1>2, <2>1 DEF CountGrow
<1>4. /\ n \in Nat \ {0}
      /\ (sum < target \div 1024 /\ n = 2 * x) \/ 64 * n <= 65 * x + 63
  <2> HIDE DEF x
  <2> QED
    BY <1>1
<1> QED
  BY <1>3, <1>4

-----------------------------------------------------------------------------
(* What doubling can lead to, in 64ths of the timer's finest unit: the batch   *)
(* after one below a 1024th of the budget, or one that took less than a cycle. *)
Cost   == loop.call
Budget == loop.target * loop.resolution
Start  == Budget \div 4 + 65 * loop.resolution + 8192 * Cost
Spent  == loop.resolution * cycles

(* A batch may take as long as a 32nd of the time so far and where it started *)
(* from; with few samples, less than three times that start.                 *)
GrowthInv ==
    /\ 64 * (Cost * stats.next_count)
         <= Start + 2 * Spent + stats.nb_samples * (loop.resolution + 128 * Cost)
    /\ stats.nb_samples <= 30 =>
         16 * (64 * (Cost * stats.next_count)) <= (16 + stats.nb_samples) * Start

(* All the calls, likewise; an int counts them.                              *)
CallsInv ==
    /\ Cost * stats.calls <= 2 * Spent + stats.nb_samples * loop.resolution
    /\ stats.nb_samples <= 30 =>
         64 * (Cost * stats.calls) <= stats.nb_samples * (3 * Start + 1984 * Cost)
    /\ stats.calls <= MaxInt
    /\ cycles > 0 => stats.calls > 0

RunInv ==
    /\ stats \in StatsType /\ stats.nb_samples <= CHECKASM_STATS_SAMPLES
    /\ cycles \in Nat
    /\ GrowthInv /\ CallsInv

(* The rounds of a batch: the first may be left out, and one more for time    *)
(* lost in it.  Each of the others shows what a round takes, or one cycle     *)
(* more; neither is four times as much as another.                           *)
Low == Elapsed(32) \div loop.resolution
BatchType == [on : BOOLEAN, todo : Nat, kept : Nat, sum : Nat, delayed : BOOLEAN]
RoundsInv ==
    /\ batch.todo + batch.kept <= Rounds
    /\ Rounds <= batch.todo + batch.kept
                   + (IF stats.next_count >= 1000 /\ batch.todo < Rounds THEN 1 ELSE 0)
                   + (IF batch.delayed THEN 1 ELSE 0)
    /\ Low * batch.kept <= batch.sum
BatchInv ==
    /\ batch \in BatchType
    /\ batch.on => Continues
    /\ batch.on /\ InAssembly => RoundsInv
BenchInv ==
    /\ loop \in Loops /\ finished \in BOOLEAN
    /\ ~ finished => RunInv
    /\ BatchInv

(* The same as numbers: y is what a batch takes, z what the samples took, and *)
(* the batch under way is measured as u.                                     *)
LEMMA FastNumbers ==
  ASSUME NEW t \in Nat, NEW r \in Nat \ {0}, NEW c \in Nat, NEW s \in Nat, s < t \div 1024
  PROVE  256 * (r * s + r) <= (t * r) \div 4
<1> DEFINE q == t \div 1024
           v == r * (s + 1)
<1>1. q \in Nat /\ 1024 * q <= t /\ s + 1 <= q
  OBVIOUS
<1> HIDE DEF q
<1>2. v <= r * q /\ v = r * s + r /\ v \in Nat
  BY <1>1
<1>3. 1024 * (r * q) = r * (1024 * q) /\ r * (1024 * q) <= r * t /\ r * q \in Nat /\ r * t = t * r
  BY <1>1
<1> HIDE DEF v
<1> DEFINE w == t * r
<1>4. w \in Nat
  OBVIOUS
<1>5. 1024 * v <= w
  BY <1>2, <1>3
<1> HIDE DEF w
<1>6. 256 * v <= w \div 4
  BY <1>2, <1>4, <1>5
<1> QED
  BY <1>2, <1>6 DEF w

LEMMA StartIs ==
  ASSUME loop \in Loops
  PROVE  /\ Cost \in Nat \ {0} /\ Budget \in Nat /\ Start \in Nat
         /\ 4 * Start <= Budget + 260 * loop.resolution + 32768 * Cost
         /\ Start >= 65 * loop.resolution + 8192 * Cost
<1>1. loop.call \in Nat \ {0} /\ loop.target \in Nat \ {0} /\ loop.resolution \in Nat \ {0}
  BY LoopIs
<1> DEFINE b == Budget
           r == loop.resolution
           c == Cost
<1>2. b \in Nat /\ c \in Nat \ {0} /\ r \in Nat
  BY <1>1 DEF Budget, Cost
<1> HIDE DEF b, r, c
<1>3. b \div 4 \in Nat /\ 4 * (b \div 4) <= b
  BY <1>2
<1>4. Start = b \div 4 + 65 * r + 8192 * c
  BY DEF Start, b, r, c
<1> HIDE DEF Start
<1>5. Start \in Nat /\ 4 * Start <= b + 260 * r + 32768 * c /\ Start >= 65 * r + 8192 * c
  BY <1>2, <1>3, <1>4
<1> QED
  BY <1>2, <1>5 DEF b, r, c

(* A loop that goes on has time left, or few samples.                        *)
LEMMA Room ==
  ASSUME BenchInv, Continues
  PROVE  /\ RunInv /\ stats.nb_samples <= 255
         /\ cycles < loop.target \/ stats.nb_samples <= 29
<1>1. RunInv /\ loop \in Loops
  BY DEF BenchInv, Continues
<1>2. stats.nb_samples # CHECKASM_STATS_SAMPLES
  <2>1. loop.kind = "bench" => BenchRuns # 0
    BY DEF Continues
  <2>2. loop.kind # "bench" => stats.nb_samples # CHECKASM_STATS_SAMPLES
    BY DEF Continues
  <2> QED
    BY <2>1, <2>2 DEF BenchRuns
<1>3. cycles < loop.target \/ stats.nb_samples < MinSamples
  BY DEF Continues, BenchRuns
<1>4. stats.nb_samples \in Nat /\ stats.nb_samples <= 256
  BY <1>1 DEF RunInv, StatsType, CHECKASM_STATS_SAMPLES
<1> QED
  BY <1>1, <1>2, <1>3, <1>4 DEF CHECKASM_STATS_SAMPLES, MinSamples

LEMMA Products ==
  ASSUME NEW c \in Nat, NEW x \in Int, NEW k \in Int
  PROVE  /\ c * (65 * x + 63) = 65 * (c * x) + 63 * c
         /\ c * (k + x + 31) = c * k + c * x + 31 * c
         /\ c * (x - 45000) = c * x - 45000 * c
         /\ c * (k + 1) = c * k + c
<1>1. c * (65 * x + 63) = 65 * (c * x) + 63 * c
  OBVIOUS
<1>2. c * (k + x + 31) = c * k + c * x + 31 * c
  OBVIOUS
<1>3. c * (x - 45000) = c * x - 45000 * c
  OBVIOUS
<1>4. c * (k + 1) = c * k + c
  OBVIOUS
<1> QED
  BY <1>1, <1>2, <1>3, <1>4

LEMMA OneMore ==
  ASSUME NEW k \in Nat, NEW g \in Nat
  PROVE  (k + 1) * g = k * g + g /\ g * 0 = 0
  OBVIOUS

LEMMA NoMoreThan ==
  ASSUME NEW c \in Nat, NEW d \in Nat, NEW x \in Nat, d <= x + 31
  PROVE  c * d <= c * x + 31 * c
<1>1. c * d <= c * (x + 31) /\ c * (x + 31) = c * x + 31 * c
  OBVIOUS
<1> QED
  BY <1>1

(* Then the next batch is far from the limit of an int, and so are the calls. *)
LEMMA NothingOverflows ==
  ASSUME BenchInv, Continues, Fits(loop)
  PROVE  /\ 65 * stats.next_count + 63 <= MaxInt
         /\ stats.calls + stats.next_count + 31 <= MaxInt
<1> DEFINE b == Budget
           r == loop.resolution
           c == Cost
           s == Start
           p == Spent
           x == stats.next_count
           k == stats.calls
           n == stats.nb_samples
           y == c * x
           z == c * k
           m == c * MaxInt
<1>1. RunInv /\ loop \in Loops /\ n <= 255 /\ (cycles < loop.target \/ n <= 29)
  BY Room DEF BenchInv
<1>2. /\ r \in Nat \ {0} /\ c \in Nat \ {0} /\ b \in Nat /\ s \in Nat
      /\ 4 * s <= b + 260 * r + 32768 * c
  BY <1>1, LoopIs, StartIs
<1>3. x \in Nat \ {0} /\ k \in Nat /\ n \in Nat /\ cycles \in Nat
  BY <1>1 DEF RunInv, StatsType
<1>4. m \in Nat /\ y \in Nat /\ z \in Nat
  BY <1>2, <1>3, IntAssumption
<1>5. 5 * b + 800 * r <= 2 * m - 90000 * c
  <2>1. 5 * b + 800 * r <= 2 * (c * (MaxInt - 45000))
    BY DEF Fits, Budget, Cost
  <2>2. c * (MaxInt - 45000) = m - 45000 * c
    <3> HIDE DEF c
    <3> QED
      BY <1>2, Products, IntAssumption DEF m
  <2> HIDE DEF b, r, c, m
  <2> QED
    BY <1>2, <1>4, <2>1, <2>2
<1>6. ASSUME n <= 29 PROVE 65 * y + 63 * c <= m /\ z + y + 31 * c <= m
  <2>1. 16 * (64 * y) <= (16 + n) * s
    BY <1>1, <1>6, <1>3 DEF RunInv, GrowthInv
  <2>2. 64 * z <= n * (3 * s + 1984 * c)
    BY <1>1, <1>6, <1>3 DEF RunInv, CallsInv
  <2>3. (16 + n) * s <= 45 * s
    BY <1>2, <1>3, <1>6
  <2>4. n * (3 * s + 1984 * c) <= 29 * (3 * s + 1984 * c)
    BY <1>2, <1>3, <1>6
  <2> HIDE DEF b, r, c, s, y, z, m, x, k
  <2>5. 16 * (64 * y) <= 45 * s /\ 64 * z <= 29 * (3 * s + 1984 * c)
    BY <1>2, <1>3, <1>4, <2>1, <2>2, <2>3, <2>4
  <2>6. 65 * y + 63 * c <= m /\ z + y + 31 * c <= m
    BY <1>2, <1>4, <1>5, <2>5
  <2> QED
    BY <2>6
<1>7. ASSUME cycles < loop.target PROVE 65 * y + 63 * c <= m /\ z + y + 31 * c <= m
  <2>1. p <= b
    BY <1>1, <1>3, <1>7, LoopIs DEF Spent, Budget
  <2>2. p \in Nat
    BY <1>1, <1>3, LoopIs DEF Spent
  <2>3. 64 * y <= s + 2 * p + n * (r + 128 * c)
    BY <1>1 DEF RunInv, GrowthInv
  <2>4. z <= 2 * p + n * r
    BY <1>1 DEF RunInv, CallsInv
  <2>5. n * (r + 128 * c) <= 255 * (r + 128 * c) /\ n * r <= 255 * r
    BY <1>1, <1>2, <1>3
  <2>6. n * (r + 128 * c) \in Nat /\ n * r \in Nat
    BY <1>2, <1>3
  <2> HIDE DEF b, r, c, s, p, y, z, m, x, k
  <2>7. 64 * y <= s + 2 * p + 255 * (r + 128 * c) /\ z <= 2 * p + 255 * r
    BY <1>2, <1>4, <2>2, <2>3, <2>4, <2>5, <2>6
  <2>8. 65 * y + 63 * c <= m /\ z + y + 31 * c <= m
    BY <1>2, <1>4, <1>5, <2>1, <2>2, <2>7
  <2> QED
    BY <2>8
<1>8. 65 * y + 63 * c <= m /\ z + y + 31 * c <= m
  BY <1>1, <1>6, <1>7
<1>9. c * (65 * x + 63) <= c * MaxInt /\ c * (k + x + 31) <= c * MaxInt
  <2> HIDE DEF c, x, k
  <2>1. c * (65 * x + 63) = 65 * y + 63 * c
    BY <1>2, <1>3, Products DEF y
  <2>2. c * (k + x + 31) = z + y + 31 * c
    BY <1>2, <1>3, Products DEF y, z
  <2> QED
    BY <1>8, <2>1, <2>2
<1>10. ASSUME NEW i \in Nat, c * i <= c * MaxInt PROVE i <= MaxInt
  <2>1. SUFFICES ASSUME MaxInt + 1 <= i PROVE FALSE
    BY IntAssumption
  <2>2. c * (MaxInt + 1) <= c * i /\ c * (MaxInt + 1) = c * MaxInt + c
    BY <1>2, <2>1, IntAssumption
  <2> QED
    BY <1>2, <1>4, <1>10, <2>2
<1>11. 65 * x + 63 \in Nat /\ k + x + 31 \in Nat
  BY <1>3
<1> HIDE DEF c, x, k
<1>12. 65 * x + 63 <= MaxInt /\ k + x + 31 <= MaxInt
  BY <1>9, <1>10, <1>11
<1> QED
  BY <1>12 DEF x, k

-----------------------------------------------------------------------------
(* What one batch does to the sums.                                          *)
Taken(s, n) ==
    /\ stats' = [ nb_samples |-> stats.nb_samples + (IF s.sum > 0 THEN 1 ELSE 0),
                  calls      |-> stats.calls + (IF s.sum > 0 THEN s.count ELSE 0),
                  next_count |-> n ]
    /\ cycles' = cycles + s.sum /\ loop' = loop /\ finished' = finished

LEMMA UpdateIs ==
  ASSUME BenchInv, Continues, Fits(loop),
         NEW s, Sampled(loop, stats.next_count, s), Update(s)
  PROVE  \E n \in Nat \ {0} :
           /\ Taken(s, n)
           /\ \/ s.sum < loop.target \div 1024 /\ n = 2 * stats.next_count
              \/ 64 * n <= 65 * stats.next_count + 63
<1> DEFINE t == StatsAdd(stats, s)
<1>1. /\ stats \in StatsType /\ s.sum \in Nat /\ s.count \in Nat \ {0}
      /\ loop.target \in Nat
  BY Room, LoopIs DEF RunInv, Sampled, BenchInv
<1>2. t = [ nb_samples |-> stats.nb_samples + (IF s.sum > 0 THEN 1 ELSE 0),
            calls      |-> stats.calls + (IF s.sum > 0 THEN s.count ELSE 0),
            next_count |-> stats.next_count ]
  <2>1. /\ stats = [ nb_samples |-> stats.nb_samples, calls |-> stats.calls,
                     next_count |-> stats.next_count ]
        /\ stats.nb_samples \in Nat /\ stats.calls \in Nat
    BY <1>1 DEF StatsType
  <2>2. s.count > 0
    BY <1>1
  <2>3. CASE s.sum > 0
    <3>1. t = [stats EXCEPT !.nb_samples = @ + 1, !.calls = @ + s.count]
      BY <2>2, <2>3 DEF StatsAdd
    <3> QED
      BY <2>1, <2>3, <3>1
  <2>4. CASE ~ (s.sum > 0)
    <3>1. t = stats
      BY <2>4 DEF StatsAdd
    <3> QED
      BY <2>1, <2>4, <3>1
  <2> QED
    BY <2>3, <2>4
<1>3. t \in StatsType /\ t.next_count = stats.next_count
  BY <1>1, <1>2 DEF StatsType
<1>4. 65 * t.next_count + 63 <= MaxInt
  BY <1>3, NothingOverflows
<1> HIDE DEF t
<1>5. PICK n \in Nat \ {0} :
          /\ CountGrow(t, s.sum, loop.target) = [t EXCEPT !.next_count = n]
          /\ \/ s.sum < loop.target \div 1024 /\ n = 2 * t.next_count
             \/ 64 * n <= 65 * t.next_count + 63
  BY <1>1, <1>3, <1>4, GrowthIs
<1>6. stats' = [t EXCEPT !.next_count = n]
  BY <1>5 DEF Update, t
<1>7. Taken(s, n)
  BY <1>2, <1>6 DEF Update, Taken
<1> QED
  BY <1>3, <1>5, <1>7

(* The next batch, in numbers: the one measured took y and z of the time were *)
(* seen, and w are those of the batch that follows.                           *)
LEMMA NextBatch ==
  ASSUME loop \in Loops, NEW x \in Nat \ {0}, NEW s, Sampled(loop, x, s), NEW n \in Nat \ {0},
         \/ s.sum < loop.target \div 1024 /\ n = 2 * x
         \/ 64 * n <= 65 * x + 63
  PROVE  \/ 64 * (Cost * n) <= Start
         \/ /\ s.sum > 0
            /\ 64 * (Cost * n) <= 65 * (Cost * x) + 63 * Cost
            /\ Cost * x <= 2 * (loop.resolution * s.sum) + loop.resolution + 64 * Cost
<1> DEFINE c == Cost
           r == loop.resolution
           z == r * s.sum
           y == c * x
           w == c * n
           b == Budget
<1>1. /\ c \in Nat \ {0} /\ r \in Nat \ {0} /\ Start \in Nat /\ loop.target \in Nat
      /\ s.sum \in Nat
      /\ Start = b \div 4 + 65 * r + 8192 * c
  BY StartIs, LoopIs DEF Start, Sampled
<1>2. y <= 2 * z + r + 64 * c /\ (s.sum = 0 => y <= r)
  BY DEF Sampled, Cost
<1>3. y \in Nat /\ z \in Nat /\ w \in Nat /\ b \in Nat
  BY <1>1 DEF Budget
<1>4. CASE s.sum < loop.target \div 1024 /\ n = 2 * x
  <2>1. 256 * (z + r) <= b \div 4
    BY <1>1, <1>4, FastNumbers DEF Budget
  <2>2. w = 2 * y
    BY <1>1, <1>4
  <2>3. b \div 4 \in Nat
    BY <1>3
  <2> HIDE DEF c, r, z, y, w, b
  <2>4. 64 * w <= Start
    BY <1>1, <1>2, <1>3, <2>1, <2>2, <2>3
  <2> QED
    BY <2>4 DEF c, w
<1>5. CASE 64 * n <= 65 * x + 63
  <2>1. c * (64 * n) <= c * (65 * x + 63)
    BY <1>1, <1>5
  <2>2. c * (64 * n) = 64 * w
    BY <1>1
  <2>3. c * (65 * x + 63) = 65 * y + 63 * c
    <3> HIDE DEF c
    <3> QED
      BY <1>1, Products
  <2> HIDE DEF y, w
  <2>4. 64 * w <= 65 * y + 63 * c
    BY <2>1, <2>2, <2>3
  <2>5. CASE s.sum = 0
    <3>1. b \div 4 \in Nat
      BY <1>3
    <3> HIDE DEF c, r, z, b
    <3>2. 64 * w <= Start
      BY <1>1, <1>2, <1>3, <2>4, <2>5, <3>1
    <3> QED
      BY <3>2 DEF c, w
  <2>6. CASE s.sum # 0
    <3>1. s.sum > 0
      BY <1>1, <2>6
    <3> QED
      BY <1>2, <2>4, <3>1 DEF c, w, y, r, z
  <2> QED
    BY <2>5, <2>6
<1> QED
  BY <1>4, <1>5

LEMMA GrowthStays ==
  ASSUME BenchInv, Continues, Fits(loop), NEW s, Sampled(loop, stats.next_count, s),
         NEW n \in Nat \ {0}, Taken(s, n),
         \/ s.sum < loop.target \div 1024 /\ n = 2 * stats.next_count
         \/ 64 * n <= 65 * stats.next_count + 63
  PROVE  GrowthInv'
<1> DEFINE c == Cost
           r == loop.resolution
           p == Spent
           z == r * s.sum
           x == stats.next_count
           y == c * x
           w == c * n
           k == stats.nb_samples
           l == stats'.nb_samples
           g == r + 128 * c
           S == Start
           a == k * g
           e == l * g
           h == k * S
           i == l * S
<1>1. /\ loop \in Loops /\ RunInv /\ s.sum \in Nat /\ x \in Nat \ {0} /\ k \in Nat
      /\ cycles \in Nat
  BY Room DEF BenchInv, RunInv, StatsType, Sampled
<1>2. /\ c \in Nat \ {0} /\ r \in Nat \ {0} /\ S \in Nat /\ S >= 65 * r + 8192 * c
  BY <1>1, StartIs, LoopIs
<1>3. 64 * y <= S + 2 * p + a /\ (k <= 30 => 16 * (64 * y) <= (16 + k) * S)
  BY <1>1 DEF RunInv, GrowthInv
<1>4. \/ 64 * w <= S
      \/ s.sum > 0 /\ 64 * w <= 65 * y + 63 * c /\ y <= 2 * z + r + 64 * c
  BY <1>1, NextBatch
<1>5. l = k + (IF s.sum > 0 THEN 1 ELSE 0) /\ stats'.next_count = n
  BY DEF Taken
<1>6. Cost' = c /\ Start' = S /\ loop'.resolution = r /\ Spent' = p + z /\ p \in Nat /\ z \in Nat
  <2>1. loop' = loop /\ cycles' = cycles + s.sum
    BY DEF Taken
  <2>2. Cost' = c /\ Start' = S /\ loop'.resolution = r
    BY <2>1 DEF Cost, Start, Budget
  <2>3. Spent' = r * (cycles + s.sum)
    BY <2>1 DEF Spent
  <2> QED
    BY <1>1, <1>2, <2>2, <2>3 DEF Spent
<1>7. /\ y \in Nat /\ w \in Nat /\ g \in Nat /\ a \in Nat /\ h \in Nat /\ l \in Nat
      /\ e \in Nat /\ i \in Nat /\ l >= k
  BY <1>1, <1>2, <1>5
<1>8. s.sum > 0 => l = k + 1 /\ e = a + g /\ i = h + S
  <2>1. (k + 1) * g = k * g + g /\ (k + 1) * S = k * S + S
    BY <1>1, <1>2
  <2> QED
    BY <1>5, <2>1
<1>9. (16 + k) * S = 16 * S + h /\ (16 + l) * S = 16 * S + i
  BY <1>1, <1>2, <1>7
<1>10. k <= 29 => h <= 29 * S
  BY <1>1, <1>2
<1> HIDE DEF c, r, p, z, x, y, w, k, l, S, a, e, h, i
<1>11. 64 * w <= S + 2 * (p + z) + e /\ (l <= 30 => 16 * (64 * w) <= 16 * S + i)
  <2>1. CASE 64 * w <= S
    BY <2>1, <1>2, <1>6, <1>7
  <2>2. CASE s.sum > 0 /\ 64 * w <= 65 * y + 63 * c /\ y <= 2 * z + r + 64 * c
    <3>1. 64 * w <= S + 2 * (p + z) + e
      BY <2>2, <1>2, <1>3, <1>6, <1>7, <1>8
    <3>2. ASSUME l <= 30 PROVE 16 * (64 * w) <= 16 * S + i
      <4>1. k <= 29 /\ k <= 30
        BY <3>2, <2>2, <1>1, <1>8 DEF k
      <4>2. 1024 * y <= 16 * S + h /\ h <= 29 * S
        BY <4>1, <1>3, <1>7, <1>9, <1>10
      <4> QED
        BY <4>2, <2>2, <1>2, <1>6, <1>7, <1>8
    <3> QED
      BY <3>1, <3>2
  <2> QED
    BY <2>1, <2>2, <1>4
<1> QED
  BY <1>5, <1>6, <1>9, <1>11 DEF GrowthInv, w, l, e, c, r

LEMMA CallsStay ==
  ASSUME BenchInv, Continues, Fits(loop), NEW s, Sampled(loop, stats.next_count, s),
         NEW n \in Nat \ {0}, Taken(s, n)
  PROVE  CallsInv'
<1> DEFINE c == Cost
           r == loop.resolution
           p == Spent
           z == r * s.sum
           x == stats.next_count
           y == c * x
           f == stats.calls
           d == IF s.sum > 0 THEN s.count ELSE 0
           u == c * f
           v == c * d
           k == stats.nb_samples
           l == stats'.nb_samples
           S == Start
           g == 3 * S + 1984 * c
           a == k * r
           e == l * r
           h == k * g
           i == l * g
<1>1. /\ loop \in Loops /\ RunInv /\ s.sum \in Nat /\ s.count \in Nat \ {0}
      /\ x \in Nat \ {0} /\ k \in Nat /\ f \in Nat /\ cycles \in Nat
      /\ s.count <= x + 31
  BY Room DEF BenchInv, RunInv, StatsType, Sampled
<1>2. c \in Nat \ {0} /\ r \in Nat \ {0} /\ S \in Nat
  BY <1>1, StartIs, LoopIs
<1>3. /\ u <= 2 * p + a /\ (k <= 30 => 64 * u <= h)
      /\ k <= 30 => 16 * (64 * y) <= (16 + k) * S
      /\ cycles > 0 => f > 0
  BY <1>1 DEF RunInv, GrowthInv, CallsInv
<1>4. c * s.count <= 2 * z + r
  BY DEF Sampled, Cost
<1>5. l = k + (IF s.sum > 0 THEN 1 ELSE 0) /\ stats'.calls = f + d
  BY DEF Taken
<1>6. Cost' = c /\ Start' = S /\ loop'.resolution = r /\ Spent' = p + z /\ p \in Nat /\ z \in Nat
  <2>1. loop' = loop /\ cycles' = cycles + s.sum
    BY DEF Taken
  <2>2. Cost' = c /\ Start' = S /\ loop'.resolution = r
    BY <2>1 DEF Cost, Start, Budget
  <2>3. Spent' = r * (cycles + s.sum)
    BY <2>1 DEF Spent
  <2> QED
    BY <1>1, <1>2, <2>2, <2>3 DEF Spent
<1>7. /\ d \in Nat /\ y \in Nat /\ u \in Nat /\ v \in Nat /\ g \in Nat /\ a \in Nat /\ h \in Nat
      /\ l \in Nat /\ e \in Nat /\ i \in Nat
  BY <1>1, <1>2, <1>5
<1>8. /\ s.sum > 0 => l = k + 1 /\ e = a + r /\ i = h + g
      /\ ~ (s.sum > 0) => l = k /\ e = a /\ i = h /\ d = 0 /\ v = 0
  <2> HIDE DEF c, r, g, k
  <2>1. k \in Nat /\ g \in Nat /\ r \in Nat /\ c \in Nat
    BY <1>1, <1>2, <1>7
  <2>2. (k + 1) * g = k * g + g
    BY <2>1, OneMore
  <2>3. (k + 1) * r = k * r + r
    BY <2>1, OneMore
  <2>4. c * 0 = 0
    BY <2>1, OneMore
  <2>5. s.sum > 0 => l = k + 1
    BY <1>5
  <2>6. ~ (s.sum > 0) => l = k + 0 /\ d = 0
    BY <1>5
  <2>7. k + 0 = k
    BY <2>1
  <2> HIDE DEF d, l
  <2> QED
    BY <2>2, <2>3, <2>4, <2>5, <2>6, <2>7
<1>9. k <= 29 => (16 + k) * S <= 45 * S
  BY <1>1, <1>2
<1>10. c * (f + d) = u + v
  BY <1>1, <1>2, <1>7
<1>11. v <= y + 31 * c /\ (s.sum > 0 => v <= 2 * z + r)
  <2>1. d <= x + 31
    BY <1>1
  <2>2. s.sum > 0 => v <= 2 * z + r
    BY <1>4
  <2> HIDE DEF c, d, x, v, z, r
  <2>3. c * d <= c * x + 31 * c
    BY <1>1, <1>2, <1>7, <2>1, NoMoreThan
  <2> QED
    BY <2>2, <2>3 DEF v
<1>12. f + d <= MaxInt
  BY <1>1, NothingOverflows, IntAssumption
<1>13. cycles' > 0 => f + d > 0
  BY <1>1, <1>3 DEF Taken
<1> HIDE DEF c, r, p, z, x, y, u, v, f, d, k, l, S, a, e, h, i
<1>14. u + v <= 2 * (p + z) + e
  BY <1>2, <1>3, <1>6, <1>7, <1>8, <1>11
<1>15. ASSUME l <= 30 PROVE 64 * (u + v) <= i
  <2>1. CASE s.sum > 0
    <3>1. k <= 29 /\ k <= 30
      BY <1>15, <2>1, <1>1, <1>8
    <3>2. (16 + k) * S <= 45 * S /\ 1024 * y <= (16 + k) * S /\ (16 + k) * S \in Int
      BY <3>1, <1>1, <1>2, <1>3, <1>7, <1>9
    <3>3. 64 * v <= g
      BY <3>2, <1>2, <1>7, <1>11
    <3> HIDE DEF g
    <3> QED
      BY <3>1, <3>3, <2>1, <1>3, <1>7, <1>8
  <2>2. CASE ~ (s.sum > 0)
    BY <1>15, <2>2, <1>3, <1>7, <1>8
  <2> QED
    BY <2>1, <2>2
<1> QED
  BY <1>5, <1>6, <1>10, <1>12, <1>13, <1>14, <1>15 DEF CallsInv, e, i, l, c, r

LEMMA NoneIsOn ==
  NoBatch \in BatchType /\ ~ NoBatch.on
BY DEF NoBatch, BatchType

LEMMA UpdateKeeps ==
  ASSUME BenchInv, Continues, Fits(loop), batch' = NoBatch,
         NEW s, Sampled(loop, stats.next_count, s), Update(s)
  PROVE  BenchInv'
<1>1. PICK n \in Nat \ {0} :
          /\ Taken(s, n)
          /\ \/ s.sum < loop.target \div 1024 /\ n = 2 * stats.next_count
             \/ 64 * n <= 65 * stats.next_count + 63
  BY UpdateIs
<1>2. GrowthInv' /\ CallsInv'
  BY <1>1, GrowthStays, CallsStay
<1>3. /\ stats.nb_samples \in Nat /\ stats.nb_samples <= 255 /\ stats.calls \in Nat
      /\ s.sum \in Nat /\ s.count \in Nat /\ cycles \in Nat /\ loop \in Loops
  BY Room DEF RunInv, StatsType, Sampled, BenchInv
<1>4. stats' \in StatsType /\ stats'.nb_samples <= CHECKASM_STATS_SAMPLES
  <2>1. stats.nb_samples + (IF s.sum > 0 THEN 1 ELSE 0) \in Nat
    BY <1>3
  <2>2. stats.nb_samples + (IF s.sum > 0 THEN 1 ELSE 0) <= 256
    BY <1>3
  <2>3. stats.calls + (IF s.sum > 0 THEN s.count ELSE 0) \in Nat
    BY <1>3
  <2> QED
    BY <1>1, <2>1, <2>2, <2>3 DEF Taken, StatsType, CHECKASM_STATS_SAMPLES
<1>5. cycles' \in Nat /\ loop' = loop /\ finished' = finished /\ finished \in BOOLEAN
  BY <1>1, <1>3 DEF Taken, BenchInv
<1>6. BatchInv'
  BY NoneIsOn DEF BatchInv
<1> QED
  BY <1>2, <1>3, <1>4, <1>5, <1>6 DEF BenchInv, RunInv

-----------------------------------------------------------------------------
AllFit  == \A b \in Loops : Fits(b)
AllSeen == \A b \in Loops : SeesRounds(b)

(* The rounds of a batch in assembly.                                        *)
LEMMA RoundTakes ==
  ASSUME loop \in Loops, loop.asm, SeesRounds(loop)
  PROVE  /\ Low \in Nat \ {0} /\ Elapsed(32) \in Nat
         /\ 32 * loop.call <= 2 * (loop.resolution * Low)
<1> DEFINE d == Elapsed(32)
           c == loop.call
           r == loop.resolution
           z == r * Low
<1>1. c \in Nat \ {0} /\ r \in Nat \ {0} /\ loop.fixed \in Nat
  BY LoopIs
<1>2. d = loop.fixed + 32 * c /\ d \in Nat /\ r <= d /\ 32 * c <= d
  BY <1>1 DEF Elapsed, SeesRounds
<1> HIDE DEF d
<1>3. Low = d \div r
  BY DEF Low, d
<1>4. Low \in Nat /\ z <= d /\ d < z + r
  BY <1>1, <1>2, <1>3
<1>5. Low # 0
  BY <1>1, <1>2, <1>4
<1>6. r <= z /\ z \in Nat
  BY <1>1, <1>4, <1>5
<1> HIDE DEF c, r, z
<1>7. 32 * c <= 2 * z
  BY <1>1, <1>2, <1>4, <1>6
<1> QED
  BY <1>2, <1>4, <1>5, <1>7 DEF c, r, z, d

LEMMA RoundIs ==
  ASSUME loop \in Loops, loop.asm, SeesRounds(loop), NEW delay \in Nat,
         NEW t \in Shown(Elapsed(32) + delay)
  PROVE  t \in Nat /\ Low <= t /\ (delay = 0 => t <= Low + 1)
<1> DEFINE d == Elapsed(32)
           e == d + delay
           r == loop.resolution
<1>1. d \in Nat /\ e \in Nat /\ r \in Nat \ {0}
  BY RoundTakes, LoopIs
<1>2. t \in {e \div r, (e + r - 1) \div r}
  BY DEF Shown
<1> HIDE DEF d
<1>3. d <= e /\ (delay = 0 => e = d)
  BY <1>1
<1> HIDE DEF e
<1>4. t \in Nat /\ e < r * t + r /\ t <= e \div r + 1
  BY <1>1, <1>2, ShownIs
<1>5. Low = d \div r
  BY DEF Low, d
<1>6. d \div r <= t
  <2>1. d \div r \in Nat /\ r * (d \div r) <= d /\ r * (t + 1) = r * t + r
    BY <1>1, <1>4
  <2>2. r * (d \div r) \in Nat /\ r * (t + 1) \in Nat
    BY <1>1, <1>4, <2>1
  <2>3. r * (d \div r) < r * (t + 1)
    BY <1>1, <1>3, <1>4, <2>1, <2>2
  <2>4. d \div r < t + 1
    BY <1>1, <1>4, <2>1, <2>3, LessIs
  <2> QED
    BY <1>4, <2>1, <2>4
<1> QED
  BY <1>3, <1>4, <1>5, <1>6

LEMMA BeginKeeps ==
  ASSUME BenchInv, AllSeen, Begin
  PROVE  BatchInv'
<1>1. loop \in Loops /\ stats.next_count \in Nat \ {0} /\ Continues
  BY Room DEF Begin, BenchInv, RunInv, StatsType
<1>2. Rounds \in Nat
  BY <1>1 DEF Rounds
<1> DEFINE n == IF InAssembly THEN Rounds ELSE 0
<1>3. batch' = [on |-> TRUE, todo |-> n, kept |-> 0, sum |-> 0, delayed |-> FALSE]
  BY DEF Begin, NoBatch
<1>4. n \in Nat
  BY <1>2
<1>5. Continues' /\ InAssembly' = InAssembly /\ Rounds' = Rounds /\ Low' = Low
  BY <1>1 DEF Begin, Continues, BenchRuns, InAssembly, Rounds, Low, Elapsed
<1>6. InAssembly => RoundsInv'
  <2> SUFFICES ASSUME InAssembly PROVE RoundsInv'
    OBVIOUS
  <2>1. Low * 0 = 0
    BY <1>1, RoundTakes DEF AllSeen, InAssembly
  <2>2. stats' = stats
    BY DEF Begin
  <2> HIDE DEF n
  <2>3. n = Rounds
    BY DEF n
  <2> QED
    BY <1>2, <1>3, <1>4, <1>5, <2>1, <2>2, <2>3 DEF RoundsInv
<1> HIDE DEF n
<1>7. batch' \in BatchType
  BY <1>3, <1>4 DEF BatchType
<1> QED
  BY <1>5, <1>6, <1>7 DEF BatchInv

(* A round that lost no time is never an outlier.                            *)
LEMMA RoundKeeps ==
  ASSUME BenchInv, AllSeen, Round
  PROVE  BatchInv'
<1> DEFINE k == batch.kept
           m == batch.sum
           n == batch.todo
           R == Rounds
           q == Low * k
           big == stats.next_count >= 1000
<1>1. /\ batch \in BatchType /\ Continues /\ loop \in Loops
      /\ batch.on /\ n > 0
  BY DEF BenchInv, BatchInv, Round
<1>2. stats.next_count \in Nat \ {0}
  BY <1>1, Room DEF RunInv, StatsType
<1>3. /\ Continues' /\ InAssembly' = InAssembly /\ Rounds' = R /\ Low' = Low
      /\ stats' = stats
  BY <1>1 DEF Round, Continues, BenchRuns, InAssembly, Rounds, Low, Elapsed
<1>4. PICK delay \in IF batch.delayed THEN {0} ELSE Delays : \E t \in Shown(Elapsed(32) + delay) :
           batch' = [ on |-> TRUE, todo |-> n - 1,
                      kept |-> IF Keeps(t) THEN k + 1 ELSE k,
                      sum |-> IF Keeps(t) THEN m + t ELSE m,
                      delayed |-> batch.delayed \/ delay > 0 ]
  BY DEF Round
<1>5. PICK t \in Shown(Elapsed(32) + delay) :
           batch' = [ on |-> TRUE, todo |-> n - 1,
                      kept |-> IF Keeps(t) THEN k + 1 ELSE k,
                      sum |-> IF Keeps(t) THEN m + t ELSE m,
                      delayed |-> batch.delayed \/ delay > 0 ]
  BY <1>4
<1>6. delay \in Nat /\ (batch.delayed => delay = 0)
  BY <1>4, SpikeAssumption DEF Delays
<1>7. k \in Nat /\ m \in Nat /\ n \in Nat /\ batch.delayed \in BOOLEAN
  BY <1>1 DEF BatchType
<1>8. t \in Nat
  <2> DEFINE e == Elapsed(32) + delay
  <2>1. e \in Nat /\ loop.resolution \in Nat \ {0}
    BY <1>1, <1>6, LoopIs DEF Elapsed
  <2>2. t \in {e \div loop.resolution, (e + loop.resolution - 1) \div loop.resolution}
    BY DEF Shown
  <2> HIDE DEF e
  <2> QED
    BY <2>1, <2>2, ShownIs
<1>9. batch' \in BatchType
  <2>1. n - 1 \in Nat /\ k + 1 \in Nat /\ m + t \in Nat
    BY <1>1, <1>7, <1>8
  <2> QED
    BY <1>5, <1>7, <2>1 DEF BatchType
<1>10. InAssembly => RoundsInv'
  <2> SUFFICES ASSUME InAssembly PROVE RoundsInv'
    OBVIOUS
  <2>1. /\ n + k <= R /\ q <= m
        /\ R <= n + k + (IF big /\ n < R THEN 1 ELSE 0) + (IF batch.delayed THEN 1 ELSE 0)
    BY <1>1 DEF BenchInv, BatchInv, RoundsInv
  <2>2. Low \in Nat \ {0} /\ Low <= t /\ (delay = 0 => t <= Low + 1)
    BY <1>1, <1>6, RoundTakes, RoundIs DEF AllSeen, InAssembly
  <2>3. R \in Nat
    BY <1>2 DEF Rounds
  <2>4. q \in Nat /\ Low * (k + 1) = q + Low
    BY <1>7, <2>2
  <2>5. ASSUME delay = 0, Warm PROVE Keeps(t)
    <3>1. t <= 2 * Low
      BY <1>8, <2>2, <2>5
    <3>2. t * k <= (2 * Low) * k /\ (2 * Low) * k = 2 * q /\ t * k \in Nat
      BY <1>7, <1>8, <2>2, <3>1
    <3> DEFINE u == t * k
    <3> HIDE DEF q, m, u
    <3>3. u <= m * 4
      BY <1>7, <2>1, <2>4, <3>2 DEF u
    <3> QED
      BY <2>5, <3>3 DEF Keeps, u, m
  <2>6. Keeps(t) => Warm
    BY DEF Keeps
  <2>7. Warm <=> (n < R \/ ~ big)
    BY <1>2 DEF Warm
  <2> DEFINE l == IF Keeps(t) THEN k + 1 ELSE k
             o == IF Keeps(t) THEN m + t ELSE m
  <2>8. Low * l <= o
    BY <1>7, <1>8, <2>1, <2>2, <2>4
  <2>9. n - 1 + l <= R
    BY <1>7, <2>1, <2>3
  <2>10. R <= n - 1 + l + (IF big /\ n - 1 < R THEN 1 ELSE 0)
                        + (IF batch.delayed \/ delay > 0 THEN 1 ELSE 0)
    <3>1. CASE Keeps(t)
      <4>1. l = k + 1
        BY <3>1
      <4> HIDE DEF l, k, n, R, big
      <4> QED
        BY <4>1, <1>6, <1>7, <2>1, <2>3
    <3>2. CASE ~ Keeps(t) /\ delay > 0
      <4>1. l = k /\ ~ batch.delayed
        BY <3>2, <1>6
      <4> HIDE DEF l, k, n, R, big
      <4> QED
        BY <4>1, <3>2, <1>6, <1>7, <2>1, <2>3
    <3>3. CASE ~ Keeps(t) /\ delay = 0
      <4>1. l = k /\ ~ (n < R) /\ big
        BY <3>3, <2>5, <2>7
      <4> HIDE DEF l, k, n, R, big
      <4>2. n = R
        BY <4>1, <1>7, <2>1, <2>3
      <4> QED
        BY <4>1, <4>2, <1>6, <1>7, <2>1, <2>3
    <3> QED
      BY <3>1, <3>2, <3>3, <1>6
  <2>11. /\ batch'.todo = n - 1 /\ batch'.kept = l /\ batch'.sum = o
         /\ batch'.delayed = (batch.delayed \/ delay > 0)
    BY <1>5
  <2> HIDE DEF l, o, n, R
  <2>12. stats'.next_count >= 1000 <=> big
    BY <1>3
  <2> QED
    BY <1>3, <2>8, <2>9, <2>10, <2>11, <2>12 DEF RoundsInv
<1> QED
  BY <1>3, <1>9, <1>10, <1>5 DEF BatchInv

(* A batch in assembly, when its rounds are over.                            *)
LEMMA AssemblyIs ==
  ASSUME BenchInv, AllSeen, EndAsm
  PROVE  Sampled(loop, stats.next_count, [sum |-> batch.sum, count |-> 32 * batch.kept])
<1> DEFINE x == stats.next_count
           k == batch.kept
           m == batch.sum
           R == Rounds
           c == loop.call
           r == loop.resolution
           y == c * x
           z == r * m
           w == c * k
<1>1. /\ batch \in BatchType /\ Continues /\ loop \in Loops /\ RoundsInv
      /\ batch.todo = 0 /\ loop.asm /\ x >= 128
  BY DEF BenchInv, BatchInv, EndAsm, InAssembly
<1>2. x \in Nat /\ k \in Nat /\ m \in Nat
  BY <1>1, Room DEF RunInv, StatsType, BatchType
<1>3. c \in Nat \ {0} /\ r \in Nat \ {0} /\ Low \in Nat \ {0} /\ 32 * c <= 2 * (r * Low)
  BY <1>1, LoopIs, RoundTakes DEF AllSeen
<1>4. R \in Nat /\ R >= 4 /\ 32 * R <= x + 31 /\ x <= 32 * R
  BY <1>1, <1>2 DEF Rounds
<1>5. k <= R /\ R <= k + 2 /\ Low * k <= m
  BY <1>1, <1>2, <1>4 DEF RoundsInv
<1>6. k \in Nat \ {0} /\ 32 * k <= x + 31 /\ x <= 32 * k + 64
  BY <1>2, <1>4, <1>5
<1>7. m # 0
  <2>1. Low * k \in Nat \ {0}
    BY <1>3, <1>6
  <2> QED
    BY <1>2, <1>5, <2>1
<1>8. 32 * w <= 2 * z
  <2> DEFINE a == r * Low
             b == a * k
  <2>1. a \in Nat
    BY <1>3
  <2>2. (32 * c) * k <= (2 * a) * k
    BY <1>2, <1>3, <2>1
  <2>3. (32 * c) * k = 32 * w /\ (2 * a) * k = 2 * b
    BY <1>2, <1>3, <2>1
  <2>4. b = r * (Low * k)
    BY <1>2, <1>3
  <2>5. r * (Low * k) <= r * m
    <3> DEFINE v == Low * k
    <3>1. v \in Nat /\ v <= m
      BY <1>2, <1>3, <1>5
    <3> HIDE DEF v
    <3> QED
      BY <1>2, <1>3, <3>1 DEF v
  <2>6. b \in Nat /\ z \in Nat /\ w \in Nat
    BY <1>2, <1>3, <2>1
  <2> HIDE DEF a, b, z, w
  <2> QED
    BY <2>2, <2>3, <2>4, <2>5, <2>6 DEF z
<1>9. y <= c * (32 * k + 64) /\ c * (32 * k + 64) = 32 * w + 64 * c /\ c * (32 * k) = 32 * w
  <2>1. y <= c * (32 * k + 64)
    BY <1>2, <1>3, <1>6
  <2>2. c * (32 * k + 64) = 32 * w + 64 * c /\ c * (32 * k) = 32 * w
    BY <1>2, <1>3
  <2> QED
    BY <2>1, <2>2
<1>10. y \in Nat /\ z \in Nat /\ w \in Nat /\ 32 * k \in Nat \ {0}
  BY <1>2, <1>3, <1>6
<1> HIDE DEF x, k, m, R, c, r, y, z, w
<1>11. y <= 2 * z + r + 64 * c /\ 32 * w <= 2 * z + r
  BY <1>3, <1>8, <1>9, <1>10
<1> QED
  BY <1>2, <1>6, <1>7, <1>9, <1>10, <1>11 DEF Sampled, c, r, x, y, z, m, k

LEMMA BenchInit == Init => BenchInv
<1> SUFFICES ASSUME Init PROVE BenchInv
  OBVIOUS
<1> DEFINE x == IF loop.kind = "nop" THEN 128 ELSE 1
           c == Cost
           y == c * x
<1>1. loop \in Loops /\ finished = FALSE /\ cycles = 0
  BY DEF Init
<1>2. stats = [nb_samples |-> 0, calls |-> 0, next_count |-> x]
  BY DEF Init, Reset
<1>3. c \in Nat \ {0} /\ Start \in Nat /\ Start >= 65 * loop.resolution + 8192 * c
  BY <1>1, StartIs
<1>4. loop.resolution \in Nat \ {0}
  BY <1>1, LoopIs
<1>5. y <= 128 * c /\ y \in Nat
  BY <1>3
<1>6. Spent = 0 /\ c * 0 = 0
  BY <1>1, <1>3, <1>4 DEF Spent
<1>7. GrowthInv
  <2> HIDE DEF y, c
  <2>1. 64 * y <= Start /\ 16 * (64 * y) <= 16 * Start
    BY <1>3, <1>4, <1>5
  <2>2. 0 * (loop.resolution + 128 * c) = 0
    BY <1>3, <1>4
  <2>3. 64 * y <= Start + 0 + 0 * (loop.resolution + 128 * c)
    BY <1>3, <2>1, <2>2
  <2> QED
    BY <1>2, <1>6, <2>1, <2>3 DEF GrowthInv, y, c
<1>8. CallsInv
  <2>1. 0 * loop.resolution = 0 /\ 0 * (3 * Start + 1984 * c) = 0
    BY <1>3, <1>4
  <2> HIDE DEF c
  <2> QED
    BY <1>1, <1>2, <1>6, <2>1, IntAssumption DEF CallsInv, c
<1>9. stats \in StatsType /\ stats.nb_samples = 0
  <2>1. x \in Nat \ {0}
    OBVIOUS
  <2> HIDE DEF x
  <2> QED
    BY <1>2, <2>1 DEF StatsType
<1>10. RunInv
  <2>1. stats.nb_samples <= CHECKASM_STATS_SAMPLES
    BY <1>9 DEF CHECKASM_STATS_SAMPLES
  <2> QED
    BY <1>1, <1>7, <1>8, <1>9, <2>1 DEF RunInv
<1>11. BatchInv
  BY NoneIsOn DEF Init, BatchInv
<1> QED
  BY <1>1, <1>10, <1>11 DEF BenchInv

LEMMA BenchStays ==
  ASSUME AllFit, AllSeen, BenchInv, [Next]_vars
  PROVE  BenchInv'
<1>1. loop \in Loops /\ Fits(loop)
  BY DEF BenchInv, AllFit
<1>2. batch.on => Continues
  BY DEF BenchInv, BatchInv
<1>3. ASSUME UNCHANGED <<loop, stats, cycles, finished>>, BatchInv' PROVE BenchInv'
  BY <1>3 DEF BenchInv, RunInv, GrowthInv, CallsInv, Cost, Start, Spent, Budget
<1>4. CASE Begin
  <2>1. UNCHANGED <<loop, stats, cycles, finished>>
    BY <1>4 DEF Begin
  <2> QED
    BY <1>3, <1>4, <2>1, BeginKeeps
<1>5. CASE EndSimple
  <2>1. PICK delay \in Delays : \E t \in Shown(Elapsed(stats.next_count) + delay) :
           Update([sum |-> t, count |-> stats.next_count])
    BY <1>5 DEF EndSimple
  <2>2. PICK t \in Shown(Elapsed(stats.next_count) + delay) :
           Update([sum |-> t, count |-> stats.next_count])
    BY <2>1
  <2>3. Continues /\ batch' = NoBatch
    BY <1>2, <1>5 DEF EndSimple
  <2>4. stats.next_count \in Nat \ {0} /\ delay \in Nat
    BY <2>1, <2>3, Room, SpikeAssumption DEF RunInv, StatsType, Delays
  <2>5. Sampled(loop, stats.next_count, [sum |-> t, count |-> stats.next_count])
    BY <1>1, <2>4, SimpleIs
  <2> QED
    BY <1>1, <2>2, <2>3, <2>5, UpdateKeeps
<1>6. CASE Round
  <2>1. UNCHANGED <<loop, stats, cycles, finished>>
    BY <1>6 DEF Round
  <2> QED
    BY <1>3, <1>6, <2>1, RoundKeeps
<1>7. CASE EndAsm
  <2> DEFINE s == [sum |-> batch.sum, count |-> 32 * batch.kept]
  <2>1. Continues /\ batch' = NoBatch /\ Update(s)
    BY <1>2, <1>7 DEF EndAsm
  <2>2. Sampled(loop, stats.next_count, s)
    BY <1>7, AssemblyIs
  <2> HIDE DEF s
  <2> QED
    BY <1>1, <2>1, <2>2, UpdateKeeps
<1>8. CASE Finish
  <2>1. loop' = loop /\ finished' = TRUE /\ batch' = batch /\ ~ batch.on
    BY <1>8 DEF Finish
  <2>2. BatchInv'
    BY <2>1 DEF BenchInv, BatchInv
  <2> QED
    BY <2>1, <2>2 DEF BenchInv
<1>9. CASE Interrupt
  <2>1. UNCHANGED <<loop, stats, cycles, finished, batch>> /\ (batch.on => loop.kind # "bench")
    BY <1>9 DEF Interrupt
  <2>2. batch.on => Continues'
    BY <1>2, <2>1 DEF Continues
  <2>3. BatchInv'
    BY <2>1, <2>2 DEF BenchInv, BatchInv, InAssembly, RoundsInv, Rounds, Low, Elapsed
  <2> QED
    BY <1>3, <2>1, <2>3
<1>10. CASE Finished \/ UNCHANGED vars
  <2>1. UNCHANGED vars
    BY <1>10 DEF Finished
  <2>2. BatchInv'
    BY <2>1 DEF vars, BenchInv, BatchInv, Continues, BenchRuns, InAssembly, RoundsInv, Rounds, Low, Elapsed
  <2> QED
    BY <1>3, <2>1, <2>2 DEF vars
<1> QED
  BY <1>4, <1>5, <1>6, <1>7, <1>8, <1>9, <1>10 DEF Next, Step

(* If the calls that its budget is enough for fit in an int, and no counter    *)
(* read in assembly is coarser than a round, every benchmark that nobody      *)
(* interrupts spends its budget, and gathers its samples, for all timers,     *)
(* functions and times lost, once in a batch (checkasm.c:469-485,             *)
(* stats.h:111-121, test.h:586-604).                                         *)
THEOREM BudgetsAreSpent ==
  ASSUME AllFit, AllSeen PROVE Spec => BudgetIsSpent
<1>1. BenchInv /\ [Next]_vars =>
        [ Finish =>
            \/ interrupted /\ loop.kind = "bench"
            \/ stats.nb_samples = CHECKASM_STATS_SAMPLES
            \/ /\ cycles >= loop.target
               /\ loop.kind = "bench" => stats.nb_samples >= MinSamples ]_vars
  <2> SUFFICES ASSUME BenchInv, Finish
               PROVE  \/ interrupted /\ loop.kind = "bench"
                      \/ stats.nb_samples = CHECKASM_STATS_SAMPLES
                      \/ /\ cycles >= loop.target
                         /\ loop.kind = "bench" => stats.nb_samples >= MinSamples
    OBVIOUS
  <2>1. ~ finished /\ ~ Continues /\ loop \in Loops
    BY DEF Finish, BenchInv
  <2>2. stats.next_count # 0 /\ cycles \in Nat /\ loop.target \in Nat /\ stats.nb_samples \in Nat
    BY <2>1, LoopIs DEF BenchInv, RunInv, StatsType
  <2>3. CASE loop.kind = "bench"
    <3>1. BenchRuns = 0
      BY <2>1, <2>3 DEF Continues
    <3>2. ~ (/\ ~ interrupted /\ stats.nb_samples # CHECKASM_STATS_SAMPLES
             /\ cycles < loop.target \/ stats.nb_samples < MinSamples)
      BY <2>2, <3>1 DEF BenchRuns
    <3>3. /\ ~ (cycles < loop.target) => cycles >= loop.target
          /\ ~ (stats.nb_samples < MinSamples) => stats.nb_samples >= MinSamples
      BY <2>2 DEF MinSamples
    <3> QED
      BY <2>3, <3>2, <3>3
  <2>4. CASE loop.kind # "bench"
    <3>1. ~ (cycles < loop.target /\ stats.nb_samples # CHECKASM_STATS_SAMPLES)
      BY <2>1, <2>4 DEF Continues
    <3>2. ~ (cycles < loop.target) => cycles >= loop.target
      BY <2>2
    <3> QED
      BY <2>4, <3>1, <3>2
  <2> QED
    BY <2>3, <2>4
<1> QED
  BY <1>1, BenchInit, BenchStays, PTL DEF Spec, BudgetIsSpent

(* Under the same conditions the estimate is possible whenever a benchmark     *)
(* ends: there are calls to divide by if any time passed, and an int counts    *)
(* them (stats.c:119, stats.h:87).                                           *)
THEOREM EstimatesArePossible ==
  ASSUME AllFit, AllSeen PROVE Spec => EstimateIsPossible
<1>1. BenchInv /\ [Next]_vars =>
        [Finish /\ cycles > 0 => stats.calls \in 1 .. MaxInt]_vars
  <2> SUFFICES ASSUME BenchInv, Finish, cycles > 0
               PROVE  stats.calls \in 1 .. MaxInt
    OBVIOUS
  <2>1. stats \in StatsType /\ CallsInv
    BY DEF Finish, BenchInv, RunInv
  <2>2. stats.calls \in Nat /\ stats.calls <= MaxInt /\ stats.calls > 0
    BY <2>1 DEF CallsInv, StatsType
  <2> QED
    BY <2>2, IntAssumption
<1> QED
  BY <1>1, BenchInit, BenchStays, PTL DEF Spec, EstimateIsPossible
=============================================================================
