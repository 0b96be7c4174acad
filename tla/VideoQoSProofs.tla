--------------------------- MODULE VideoQoSProofs ---------------------------
(***************************************************************************)
(* VIDEO_QOS for any number of users and displays, any delays, rates,      *)
(* qualities and bitrates.                                                 *)
(***************************************************************************)
EXTENDS VideoQoS, WellFoundedInduction, TLAPS

-----------------------------------------------------------------------------
(* Least and greatest elements.                                            *)

\* Every set of natural numbers that is not empty has a least element.
LEMMA LeastExists ==
  ASSUME NEW S \in SUBSET Nat, S # {}
  PROVE  \E x \in S : \A y \in S : x <= y
<1>1. \E x \in S : \A y \in S : <<y, x>> \notin OpToRel(<, Nat)
  BY NatLessThanWellFounded, WFMin
<1>2. \A x, y \in Nat : <<y, x>> \in OpToRel(<, Nat) <=> y < x
  BY DEF OpToRel
<1>3. \A x, y \in S : <<y, x>> \in OpToRel(<, Nat) <=> y < x
  BY <1>2, Zenon
<1>4. \E x \in S : \A y \in S : ~(y < x)
  BY <1>1, <1>3, Zenon
<1>5. \A x, y \in S : ~(y < x) => x <= y
  OBVIOUS
<1> QED BY <1>4, <1>5, Zenon

\* Min is the least element of a set of natural numbers.
LEMMA MinIsLeast ==
  ASSUME NEW S \in SUBSET Nat, S # {}
  PROVE  Min(S) \in S /\ \A y \in S : Min(S) <= y
BY LeastExists DEF Min

\* Max is the greatest element of a bounded one.
LEMMA MaxIsGreatest ==
  ASSUME NEW S \in SUBSET Nat, S # {}, NEW m \in Nat, \A y \in S : y <= m
  PROVE  Max(S) \in S /\ \A y \in S : Max(S) >= y
<1> DEFINE T == {m - y : y \in S}
<1>1. T \in SUBSET Nat /\ T # {}
  <2>1. \A y \in S : y \in Nat /\ m - y \in Nat
    OBVIOUS
  <2>2. PICK z : z \in S
    OBVIOUS
  <2>3. m - z \in T
    BY <2>2
  <2> QED BY <2>1, <2>3
<1>2. PICK t \in T : \A u \in T : t <= u
  BY <1>1, LeastExists
<1>3. PICK x \in S : t = m - x
  OBVIOUS
<1>4. \A y \in S : x >= y
  <2> SUFFICES ASSUME NEW y \in S PROVE x >= y
    OBVIOUS
  <2>1. m - x <= m - y
    BY <1>2, <1>3
  <2> QED BY <2>1
<1> QED BY <1>4 DEF Max
-----------------------------------------------------------------------------
(* What the methods compute.                                               *)

\* A user's own limit.
LEMMA UserFpsInRange ==
  ASSUME NEW d \in UserData
  PROVE  user_fps(d) \in MIN_FPS .. MAX_FPS
BY DEF UserData, user_fps, Smaller, None, FPS, MIN_FPS, MAX_FPS

\* The limit of all users together.
LEMMA HighestInRange ==
  ASSUME NEW us \in SUBSET Conns, NEW ud \in [Conns -> UserData]
  PROVE  highest_fps(us, ud) \in MIN_FPS .. MAX_FPS
<1> DEFINE S == {user_fps(ud[c]) : c \in us}
<1>1. S \subseteq MIN_FPS .. MAX_FPS
  BY UserFpsInRange
<1>2. CASE us = {}
  BY <1>2 DEF highest_fps, FPS, MIN_FPS, MAX_FPS
<1>3. CASE us # {}
  <2>1. S \in SUBSET Nat /\ S # {}
    BY <1>1, <1>3 DEF MIN_FPS, MAX_FPS
  <2>2. Min(S) \in S
    BY <2>1, MinIsLeast
  <2> QED BY <1>1, <1>3, <2>2 DEF highest_fps
<1> QED BY <1>2, <1>3

\* The rate is in range, and almost nothing while an answer is overdue.
LEMMA AdjustedFps ==
  ASSUME NEW us \in SUBSET Conns, NEW ud \in [Conns -> UserData], NEW new \in BOOLEAN
  PROVE  /\ adjusted_fps(us, ud, new) \in MIN_FPS .. MAX_FPS
         /\ (\E c \in us : ud[c].response_delayed) => adjusted_fps(us, ud, new) <= MIN_FPS + 1
<1> DEFINE S == {IF ud[c].fps = None THEN INIT_FPS ELSE ud[c].fps : c \in us}
           slowest == IF us = {} THEN INIT_FPS ELSE Min(S)
           late == \E c \in us : ud[c].response_delayed
           delayed == IF late THEN Smaller(slowest, MIN_FPS + 1) ELSE slowest
           fresh == IF new THEN Smaller(delayed, INIT_FPS) ELSE delayed
           h == highest_fps(us, ud)
<1>1. slowest \in Nat
  <2>1. \A c \in us : ud[c].fps \in Nat
    BY DEF UserData, MAX_FPS
  <2>2. S \in SUBSET Nat
    BY <2>1 DEF INIT_FPS
  <2>3. CASE us # {}
    <3>1. S # {}
      BY <2>3
    <3> HIDE DEF S
    <3> QED BY <2>2, <2>3, <3>1, MinIsLeast
  <2> QED BY <2>3 DEF INIT_FPS
<1>2. h \in 1 .. 120
  BY HighestInRange DEF MIN_FPS, MAX_FPS
<1>3. adjusted_fps(us, ud, new) = Clamp(fresh, MIN_FPS, h)
  BY DEF adjusted_fps
<1> HIDE DEF slowest, h, late
<1>4. fresh \in Nat /\ (late => fresh <= 2)
  BY <1>1 DEF Smaller, MIN_FPS, INIT_FPS
<1> HIDE DEF fresh
<1>5. Clamp(fresh, MIN_FPS, h) \in 1 .. 120 /\ (late => Clamp(fresh, MIN_FPS, h) <= 2)
  BY <1>2, <1>4 DEF Clamp, Larger, Smaller, MIN_FPS
<1> QED BY <1>3, <1>5 DEF late, MIN_FPS, MAX_FPS

\* adjust_ratio's lower bound is never above its upper one, whatever the encoder reports.
LEMMA MinRatioBelow ==
  ASSUME NEW target \in BR_MIN .. BR_MAX, NEW bitrate \in Nat, ratio \in Nat
  PROVE  MinRatio(target, bitrate) \in BR_MIN_HIGH_RESOLUTION .. target
<1> DEFINE q == (ratio * 1000) \div bitrate
           ratio_1mbps == Larger(q, BR_MIN_HIGH_RESOLUTION)
           AtMost(r) == IF bitrate > 0 THEN Smaller(r, ratio_1mbps) ELSE r
<1>1. bitrate > 0 => q \in Int
  OBVIOUS
<1> HIDE DEF q
<1>2. \A r \in Nat : AtMost(r) \in Int /\ AtMost(r) <= r
  BY <1>1 DEF Larger, Smaller, BR_MIN_HIGH_RESOLUTION
<1>3. (BR_BEST * 2) \div 5 = 600 /\ BR_BALANCED \div 2 = 335
  BY DEF BR_BEST, BR_BALANCED
<1>4. MinRatio(target, bitrate) =
        CASE target = BR_BEST -> Larger(AtMost((BR_BEST * 2) \div 5), BR_MIN)
          [] target = BR_BALANCED -> Larger(AtMost(BR_BALANCED \div 2), BR_MIN_HIGH_RESOLUTION)
          [] target \notin {BR_BEST, BR_BALANCED} -> BR_MIN_HIGH_RESOLUTION
  BY DEF MinRatio, q
<1>5. AtMost(600) \in Int /\ AtMost(600) <= 600 /\ AtMost(335) \in Int /\ AtMost(335) <= 335
  BY <1>2
<1> HIDE DEF AtMost
<1>6. CASE target = BR_BEST
  BY <1>3, <1>4, <1>5, <1>6 DEF Larger, BR_BEST, BR_MIN, BR_MIN_HIGH_RESOLUTION
<1>7. CASE target = BR_BALANCED
  BY <1>3, <1>4, <1>5, <1>7 DEF Larger, BR_BEST, BR_BALANCED, BR_MIN_HIGH_RESOLUTION
<1>8. CASE target # BR_BEST /\ target # BR_BALANCED
  <2>1. MinRatio(target, bitrate) = BR_MIN_HIGH_RESOLUTION
    BY <1>4, <1>8
  <2>2. BR_MIN_HIGH_RESOLUTION \in BR_MIN_HIGH_RESOLUTION .. target
    <3>1. /\ BR_MIN_HIGH_RESOLUTION \in Nat /\ BR_MIN \in Nat /\ BR_MAX \in Nat
          /\ BR_MIN_HIGH_RESOLUTION <= BR_MIN
      BY ONLY DEF BR_MIN, BR_MAX, BR_MIN_HIGH_RESOLUTION
    <3>2. target \in BR_MIN .. BR_MAX
      OBVIOUS
    <3> QED BY ONLY <3>1, <3>2
  <2> QED BY <2>1, <2>2
<1> QED BY <1>6, <1>7, <1>8

\* Only delays below the threshold raise the ratio.
LEMMA FactorInRange ==
  ASSUME NEW d \in Nat, NEW b \in BOOLEAN
  PROVE  Factor(d, b) \in 80 .. 115 /\ (Factor(d, b) > 100 => d < DELAY_THRESHOLD_150MS)
BY DEF Factor, DELAY_THRESHOLD_150MS

\* The worst delay decides.
LEMMA WorstDecides ==
  ASSUME NEW D, NEW m \in Nat, D \subseteq 0 .. m, D # {}, NEW dyn \in BOOLEAN
  PROVE  /\ Factor(Max(D), dyn) \in 80 .. 115
         /\ Factor(Max(D), dyn) > 100 => \A y \in D : y < DELAY_THRESHOLD_150MS
<1>1. D \in SUBSET Nat /\ \A y \in D : y <= m
  OBVIOUS
<1>2. PICK x \in Nat : x = Max(D) /\ \A y \in D : x >= y
  BY <1>1, MaxIsGreatest
<1>3. Factor(x, dyn) \in 80 .. 115 /\ (Factor(x, dyn) > 100 => \A y \in D : y < 150)
  BY <1>1, <1>2, FactorInRange DEF DELAY_THRESHOLD_150MS
<1> QED BY <1>2, <1>3 DEF DELAY_THRESHOLD_150MS

\* A clamped value is between the bounds, and does not pass another on its own.
LEMMA ClampStays ==
  ASSUME NEW v \in Int, NEW high \in Int, NEW low \in Int, low <= high, NEW r \in Int
  PROVE  /\ Clamp(v, low, high) \in low .. high
         /\ low <= r /\ Clamp(v, low, high) > r => v > r
         /\ \A a, d \in Int : a <= low /\ high <= d => Clamp(v, low, high) \in a .. d
BY DEF Clamp, Larger, Smaller

\* The arithmetic of adjust_ratio: the result is in range, and above the ratio before
\* only for a factor above one.
LEMMA ClampedRatio ==
  ASSUME NEW r \in Nat, NEW f \in 80 .. 115, NEW b \in Nat,
         NEW target \in BR_MIN .. BR_MAX, NEW low \in BR_MIN_HIGH_RESOLUTION .. target
  PROVE  LET v == (r * f) \div 100
             add_150kbps == ((b + 150) * r) \div b
             limited == IF b > 0 /\ v > add_150kbps /\ add_150kbps > r /\ r >= BR_SPEED
                        THEN add_150kbps ELSE v
             x == Clamp(limited, low, target)
         IN  /\ x \in BR_MIN_HIGH_RESOLUTION .. BR_MAX
             /\ low <= r /\ x > r => f > 100
<1> DEFINE v == (r * f) \div 100
           add_150kbps == ((b + 150) * r) \div b
           limited == IF b > 0 /\ v > add_150kbps /\ add_150kbps > r /\ r >= BR_SPEED
                      THEN add_150kbps ELSE v
<1>1. v \in Int /\ (v > r => f > 100)
  <2>1. r * f \in Int
    OBVIOUS
  <2>2. f <= 100 => r * f <= r * 100
    OBVIOUS
  <2> QED BY <2>1, <2>2
<1>2. b > 0 => add_150kbps \in Int
  OBVIOUS
<1> HIDE DEF v, add_150kbps
<1>3. limited \in Int /\ (limited > r => v > r)
  BY <1>1, <1>2
<1> HIDE DEF limited
<1>4. PICK x : x = Clamp(limited, low, target)
  OBVIOUS
<1>5. low \in Int /\ target \in Int /\ low <= target
      /\ BR_MIN_HIGH_RESOLUTION \in Int /\ BR_MAX \in Int
      /\ BR_MIN_HIGH_RESOLUTION <= low /\ target <= BR_MAX
  BY DEF BR_MIN, BR_MAX, BR_MIN_HIGH_RESOLUTION
<1>6. x \in low .. target /\ (low <= r /\ x > r => limited > r)
  BY <1>3, <1>4, <1>5, ClampStays
<1>7. x \in BR_MIN_HIGH_RESOLUTION .. BR_MAX
  BY <1>3, <1>4, <1>5, ClampStays, Zenon
<1> QED BY <1>1, <1>3, <1>4, <1>6, <1>7 DEF limited, v, add_150kbps

\* The ratio after adjust_ratio.
LEMMA AdjustedRatio ==
  ASSUME ratio \in Nat, NEW ud, NEW b \in Nat, NEW dyn \in BOOLEAN, users # {},
         NEW target \in BR_MIN .. BR_MAX, target = latest_quality(ud, recent),
         NEW m \in Nat, {ud[c].avg_delay : c \in users} \subseteq 0 .. m, in_vbr_state
  PROVE  LET r == adjusted_ratio(ud, b, dyn)
         IN  /\ r \in BR_MIN_HIGH_RESOLUTION .. BR_MAX
             /\ MinRatio(target, b) <= ratio /\ r > ratio =>
                  \A c \in users : ud[c].avg_delay < DELAY_THRESHOLD_150MS
<1> DEFINE D == {ud[c].avg_delay : c \in users}
           f == Factor(Max(D), dyn)
           low == MinRatio(target, b)
<1>1. D # {} /\ \A c \in users : ud[c].avg_delay \in D
  OBVIOUS
<1>2. f \in 80 .. 115 /\ (f > 100 => \A y \in D : y < DELAY_THRESHOLD_150MS)
  <2> HIDE DEF D
  <2> QED BY <1>1, WorstDecides DEF D
<1>3. low \in BR_MIN_HIGH_RESOLUTION .. target
  BY MinRatioBelow
<1> DEFINE v == (ratio * f) \div 100
           add_150kbps == ((b + 150) * ratio) \div b
           limited == IF b > 0 /\ v > add_150kbps /\ add_150kbps > ratio /\ ratio >= BR_SPEED
                      THEN add_150kbps ELSE v
           x == Clamp(limited, low, target)
<1>4. adjusted_ratio(ud, b, dyn) = x
  BY Zenon DEF adjusted_ratio
<1>5. x \in BR_MIN_HIGH_RESOLUTION .. BR_MAX /\ (low <= ratio /\ x > ratio => f > 100)
  <2> HIDE DEF f, low
  <2>1. f \in 80 .. 115
    BY <1>2
  <2> QED BY <2>1, <1>3, ClampedRatio, ZenonT(60)
<1> HIDE DEF x, f, low, D
<1>6. /\ adjusted_ratio(ud, b, dyn) \in BR_MIN_HIGH_RESOLUTION .. BR_MAX
      /\ low <= ratio /\ adjusted_ratio(ud, b, dyn) > ratio =>
           \A c \in users : ud[c].avg_delay < DELAY_THRESHOLD_150MS
  BY <1>1, <1>2, <1>4, <1>5, Zenon
<1> QED BY <1>6, Zenon DEF low

\* The rate one sample suggests, and the user's data after it.
LEMMA DelayFpsIsInt ==
  ASSUME NEW d \in UserData, NEW avg \in Nat \ {0}, NEW target, fps \in Nat
  PROVE  DelayFps(d, avg, target) \in Int
<1> DEFINE min_fps == MinFps(target)
           step == IF fps < NormalFps(target) THEN 1 ELSE 0
           devide_fps == (fps * DELAY_THRESHOLD_150MS + avg - 1) \div avg
           dividend == (DELAY_THRESHOLD_150MS * min_fps) \div avg
<1>1. min_fps \in Nat
  BY DEF MinFps
<1>2. step \in Nat
  OBVIOUS
<1>3. devide_fps \in Int
  BY DEF DELAY_THRESHOLD_150MS
<1> HIDE DEF min_fps
<1>4. dividend \in Int
  BY <1>1 DEF DELAY_THRESHOLD_150MS
<1>5. /\ (fps + IF d.quick = 2 THEN 5 ELSE step) \in Int
      /\ (fps + IF avg < d.avg_delay THEN step ELSE 0) \in Int
  BY <1>2
<1> DEFINE e1 == fps + IF d.quick = 2 THEN 5 ELSE step
           e2 == fps + IF avg < d.avg_delay THEN step ELSE 0
<1> HIDE DEF step, devide_fps, dividend, e1, e2
<1>6. \A x, y \in Int : Larger(x, y) \in Int /\ Smaller(x, y) \in Int
  BY DEF Larger, Smaller
<1>7. e1 \in Int /\ e2 \in Int /\ min_fps \in Int /\ fps \in Int
  BY <1>1, <1>5 DEF e1, e2
<1> DEFINE a1 == Larger(min_fps, e1)
           a2 == Larger(min_fps, e2)
           a3 == Larger(min_fps, fps)
           a4 == Larger(min_fps, devide_fps)
           a5 == Smaller(min_fps, devide_fps)
           a7 == Smaller(dividend, devide_fps)
<1>8. DelayFps(d, avg, target) =
        CASE avg < 50 -> a1 [] avg \in 50 .. 99 -> a2 [] avg \in 100 .. 149 -> a3
          [] avg \in 150 .. 199 -> a4 [] avg \in 200 .. 299 -> a5
          [] avg \in 300 .. 599 -> dividend [] avg >= 600 -> a7
  BY Zenon DEF DelayFps, min_fps, step, devide_fps, dividend, e1, e2
<1>9. a1 \in Int /\ a2 \in Int /\ a3 \in Int /\ a4 \in Int /\ a5 \in Int /\ a7 \in Int
  BY <1>3, <1>4, <1>6, <1>7, Zenon
<1> HIDE DEF a1, a2, a3, a4, a5, a7
<1> DEFINE x == CASE avg < 50 -> a1 [] avg \in 50 .. 99 -> a2 [] avg \in 100 .. 149 -> a3
                  [] avg \in 150 .. 199 -> a4 [] avg \in 200 .. 299 -> a5
                  [] avg \in 300 .. 599 -> dividend [] avg >= 600 -> a7
<1>10. x \in Int
  BY <1>4, <1>9
<1> QED BY <1>8, <1>10, Zenon

\* A sample changes one user's rate and counters within their types.
LEMMA SampleKeepsType ==
  ASSUME NEW d \in UserData, NEW avg \in AvgDelays, NEW target,
         NEW highest \in MIN_FPS .. MAX_FPS, fps \in Nat
  PROVE  LET e == WithDelay(d, avg, target, highest)
         IN  /\ e \in UserData /\ e.avg_delay = avg /\ e.quality = d.quality
             /\ e.response_delayed = d.response_delayed
<1> DEFINE stable == avg < DELAY_THRESHOLD_150MS
           bonus == IF stable /\ d.increase = 2 THEN 1 ELSE 0
           x == DelayFps(d, avg, target)
           quick == IF avg > 50 THEN 0 ELSE IF avg < 50 THEN (d.quick + 1) % 3 ELSE d.quick
           increase == IF stable THEN (d.increase + 1) % 3 ELSE 0
           f == Clamp(x + bonus, MIN_FPS, highest)
<1>1. x \in Int
  BY AvgDelaysAssumption, DelayFpsIsInt
<1>2. quick \in 0 .. 2 /\ increase \in 0 .. 2
  BY AvgDelaysAssumption DEF UserData
<1> HIDE DEF x
<1>3. x + bonus \in Int
  BY <1>1
<1>4. f \in 0 .. MAX_FPS
  <2> DEFINE y == x + bonus
  <2>1. y \in Int
    BY <1>3
  <2> HIDE DEF y
  <2>2. Clamp(y, MIN_FPS, highest) \in 0 .. MAX_FPS
    BY <2>1 DEF Clamp, Larger, Smaller, MIN_FPS, MAX_FPS
  <2> QED BY <2>2 DEF y
<1>5. WithDelay(d, avg, target, highest) =
        [d EXCEPT !.avg_delay = avg, !.quick = quick, !.increase = increase, !.fps = f]
  BY DEF WithDelay, x
<1> HIDE DEF quick, increase, f
<1>6. LET e == [d EXCEPT !.avg_delay = avg, !.quick = quick, !.increase = increase, !.fps = f]
      IN  /\ e \in UserData /\ e.avg_delay = avg /\ e.quality = d.quality
          /\ e.response_delayed = d.response_delayed
  BY <1>2, <1>4 DEF UserData
<1> QED BY <1>5, <1>6

\* RemoveAt leaves the elements before the index and moves the others down.
LEMMA RemoveAtShifts ==
  ASSUME NEW S, NEW q \in Seq(S), NEW k \in 1 .. Len(q)
  PROVE  LET r == RemoveAt(q, k)
         IN  /\ r \in Seq(S) /\ Len(r) = Len(q) - 1
             /\ \A i \in 1 .. Len(q) - 1 : r[i] = IF i < k THEN q[i] ELSE q[i + 1]
<1>0. ASSUME NEW x \in Seq(S), NEW y \in Seq(S)
      PROVE  /\ x \o y \in Seq(S) /\ Len(x \o y) = Len(x) + Len(y)
             /\ \A i \in 1 .. Len(x) + Len(y) :
                  (x \o y)[i] = IF i <= Len(x) THEN x[i] ELSE y[i - Len(x)]
  OBVIOUS
<1> DEFINE a == SubSeq(q, 1, k - 1)
           b == SubSeq(q, k + 1, Len(q))
<1>1. a \in Seq(S) /\ Len(a) = k - 1 /\ \A i \in 1 .. k - 1 : a[i] = q[i]
  OBVIOUS
<1>2. b \in Seq(S) /\ Len(b) = Len(q) - k /\ \A i \in 1 .. Len(q) - k : b[i] = q[k + i]
  OBVIOUS
<1> HIDE DEF a, b
<1>3. /\ a \o b \in Seq(S) /\ Len(a \o b) = Len(q) - 1
      /\ \A i \in 1 .. Len(q) - 1 : (a \o b)[i] = IF i < k THEN q[i] ELSE q[i + 1]
  <2>1. /\ a \o b \in Seq(S) /\ Len(a \o b) = Len(a) + Len(b)
        /\ \A i \in 1 .. Len(a) + Len(b) :
             (a \o b)[i] = IF i <= Len(a) THEN a[i] ELSE b[i - Len(a)]
    BY <1>0, <1>1, <1>2
  <2>2. Len(a) + Len(b) = Len(q) - 1 /\ Len(q) \in Nat
    BY <1>1, <1>2
  <2> SUFFICES ASSUME NEW i \in 1 .. Len(q) - 1
               PROVE  (a \o b)[i] = IF i < k THEN q[i] ELSE q[i + 1]
    BY <2>1, <2>2
  <2>3. CASE i < k
    BY <1>1, <2>1, <2>2, <2>3
  <2>4. CASE ~(i < k)
    <3>1. i - Len(a) \in 1 .. Len(q) - k /\ k + (i - Len(a)) = i + 1 /\ ~(i <= Len(a))
      BY <1>1, <2>2, <2>4
    <3> QED BY <1>2, <2>1, <2>2, <2>4, <3>1
  <2> QED BY <2>3, <2>4
<1>4. RemoveAt(q, k) = a \o b
  BY DEF RemoveAt, a, b
<1> QED BY <1>3, <1>4

\* Nobody is in the list twice.
Distinct(rec) == \A i, j \in 1 .. Len(rec) : rec[i] = rec[j] => i = j

\* Everybody in the list `r' is in the list `rec'.
Within(r, rec) == \A i \in 1 .. Len(r) : \E j \in 1 .. Len(rec) : r[i] = rec[j]

\* The list of choices without one user.
LEMMA WithoutDrops ==
  ASSUME NEW us, NEW rec \in Seq(us), NEW c, Distinct(rec)
  PROVE  /\ Without(rec, c) \in Seq(us \ {c})
         /\ Distinct(Without(rec, c)) /\ Within(Without(rec, c), rec)
<1>0. DOMAIN rec = 1 .. Len(rec)
  OBVIOUS
<1>1. CASE \E i \in DOMAIN rec : rec[i] = c
  <2> DEFINE k == CHOOSE i \in DOMAIN rec : rec[i] = c
             r == RemoveAt(rec, k)
  <2>1. k \in 1 .. Len(rec) /\ rec[k] = c
    BY <1>0, <1>1
  <2>2. Without(rec, c) = r
    BY <1>1 DEF Without
  <2> HIDE DEF k
  <2>5. /\ r \in Seq(us) /\ Len(r) = Len(rec) - 1
        /\ \A i \in 1 .. Len(rec) - 1 : r[i] = IF i < k THEN rec[i] ELSE rec[i + 1]
    BY <2>1, RemoveAtShifts
  <2> HIDE DEF r
  <2> DEFINE At(i) == IF i < k THEN i ELSE i + 1
  <2>3. Len(rec) \in Nat /\ k \in Nat
    BY <2>1
  <2>4. /\ \A i \in 1 .. Len(r) : At(i) \in 1 .. Len(rec) /\ At(i) # k
        /\ \A i, j \in 1 .. Len(r) : At(i) = At(j) => i = j
    BY ONLY <2>3, <2>5
  <2>6. \A i \in 1 .. Len(r) : r[i] = rec[At(i)]
    BY ONLY <2>5
  <2> HIDE DEF At
  <2>7. \A i, j \in 1 .. Len(r) : r[i] = r[j] => i = j
    BY <2>4, <2>6 DEF Distinct
  <2>8. \A i \in 1 .. Len(r) : r[i] \in us \ {c}
    <3>1. \A j \in 1 .. Len(rec) : j # k => rec[j] # c
      BY <2>1 DEF Distinct
    <3>2. \A i \in 1 .. Len(r) : r[i] \in us
      BY <2>5
    <3> QED BY <2>4, <2>6, <3>1, <3>2
  <2>9. r \in Seq(us \ {c})
    BY <2>5, <2>8
  <2> QED BY <2>2, <2>4, <2>6, <2>7, <2>9 DEF Distinct, Within
<1>2. CASE ~\E i \in DOMAIN rec : rec[i] = c
  <2>1. Without(rec, c) = rec
    BY <1>2 DEF Without
  <2>2. rec \in Seq(us \ {c})
    BY <1>0, <1>2
  <2>3. Within(rec, rec)
    BY DEF Within
  <2> QED BY <2>1, <2>2, <2>3
<1> QED BY <1>1, <1>2
-----------------------------------------------------------------------------
(* The inductive invariant.                                                *)

\* Nobody is listed twice, and what a listed user chose was converted.
Listed ==
  /\ \A i, j \in 1 .. Len(recent) : recent[i] = recent[j] => i = j
  /\ \A i \in 1 .. Len(recent) : user[recent[i]].quality \in BR_MIN .. BR_MAX

\* The delays have a bound, so that the worst of them exists.
Bounded == \E m \in Nat : \A c \in Conns : user[c].avg_delay \in 0 .. m

QosIInv ==
  /\ TypeOK /\ Listed /\ Bounded
  /\ DelayedThrottles
  /\ ratio \in BR_MIN_HIGH_RESOLUTION .. BR_MAX

\* The presets are valid ratios.
LEMMA PresetsInRange ==
  /\ BR_BEST \in BR_MIN .. BR_MAX /\ BR_BALANCED \in BR_MIN .. BR_MAX
  /\ BR_SPEED \in BR_MIN .. BR_MAX
BY DEF BR_BEST, BR_BALANCED, BR_SPEED, BR_MIN, BR_MAX

\* What a user may choose, the ratio may be.
LEMMA InRangeIsRatio ==
  ASSUME NEW x \in BR_MIN .. BR_MAX
  PROVE  x \in Nat /\ x \in BR_MIN_HIGH_RESOLUTION .. BR_MAX
<1>1. BR_MIN \in Nat /\ BR_MAX \in Int
      /\ BR_MIN_HIGH_RESOLUTION \in Int /\ BR_MIN_HIGH_RESOLUTION <= BR_MIN
  BY DEF BR_MIN, BR_MAX, BR_MIN_HIGH_RESOLUTION
<1>2. ASSUME NEW a \in Int, NEW b \in Nat, NEW c \in Int, a <= b, NEW y \in b .. c
      PROVE  y \in Nat /\ y \in a .. c
  BY <1>2
<1> QED BY <1>1, <1>2, Zenon

\* What is chosen last, from choices that were converted.
LEMMA TargetInRange ==
  ASSUME NEW ud, NEW us, NEW rec \in Seq(us),
         \A i \in 1 .. Len(rec) : ud[rec[i]].quality \in BR_MIN .. BR_MAX
  PROVE  latest_quality(ud, rec) \in BR_MIN .. BR_MAX
<1>1. BR_BALANCED \in BR_MIN .. BR_MAX
  BY PresetsInRange
<1>2. rec # <<>> => Len(rec) \in 1 .. Len(rec)
  OBVIOUS
<1>3. rec # <<>> => ud[rec[Len(rec)]].quality \in BR_MIN .. BR_MAX
  BY <1>2, Zenon
<1> QED BY <1>1, <1>3, Zenon DEF latest_quality

\* The quality a user chooses is converted to one in range.
LEMMA ConvertedInRange ==
  ASSUME NEW q \in Nat
  PROVE  convert_quality(q) \in BR_MIN .. BR_MAX
<1>1. q \in Presets => q \in BR_MIN .. BR_MAX
  BY PresetsInRange DEF Presets
<1>2. BR_MIN \in Int /\ BR_MAX \in Int /\ BR_MIN <= BR_MAX
  BY DEF BR_MIN, BR_MAX
<1>3. q \in Int
  OBVIOUS
<1>4. Clamp(q, BR_MIN, BR_MAX) \in BR_MIN .. BR_MAX
  BY <1>2, <1>3, ClampStays
<1> QED BY <1>1, <1>4, Zenon DEF convert_quality

\* The record of one user changes.
LEMMA UserChange ==
  ASSUME QosIInv, NEW c \in Conns, NEW d \in UserData, user' = [user EXCEPT ![c] = d]
  PROVE  /\ user' \in [Conns -> UserData] /\ Bounded'
         /\ user'[c] = d /\ \A e \in Conns : e # c => user'[e] = user[e]
<1>1. user \in [Conns -> UserData] /\ Bounded
  BY DEF QosIInv, TypeOK
<1>2. user' \in [Conns -> UserData] /\ user'[c] = d /\ \A e \in Conns : e # c => user'[e] = user[e]
  BY <1>1
<1>3. PICK m \in Nat : \A e \in Conns : user[e].avg_delay \in 0 .. m
  BY <1>1 DEF Bounded
<1>4. PICK n \in Nat : n = d.avg_delay
  BY AvgDelaysAssumption DEF UserData, DELAY_THRESHOLD_150MS
<1>5. m + n \in Nat /\ n \in 0 .. m + n /\ 0 .. m \subseteq 0 .. m + n
  OBVIOUS
<1>6. \A e \in Conns : user'[e].avg_delay \in 0 .. m + n
  BY <1>2, <1>3, <1>4, <1>5
<1> QED BY <1>2, <1>5, <1>6 DEF Bounded

\* A valid ratio is a natural number.
LEMMA RatioIsNat ==
  ASSUME NEW x \in BR_MIN_HIGH_RESOLUTION .. BR_MAX
  PROVE  x \in Nat
<1>1. BR_MIN_HIGH_RESOLUTION \in Nat /\ BR_MAX \in Nat
  BY DEF BR_MAX, BR_MIN_HIGH_RESOLUTION
<1>2. \A a, b \in Nat : \A y \in a .. b : y \in Nat
  OBVIOUS
<1> QED BY ONLY <1>1, <1>2, x \in BR_MIN_HIGH_RESOLUTION .. BR_MAX

\* Sufficient conditions for a step of a connection to keep the invariant.
LEMMA UserStep ==
  ASSUME QosIInv, UNCHANGED <<abr_config, users, displayVars>>,
         UNCHANGED <<bitrate_store, new_user>>,
         user' \in [Conns -> UserData], Bounded',
         recent' \in Seq(users), Listed', fps' \in MIN_FPS .. MAX_FPS, DelayedThrottles',
         ratio' \in BR_MIN_HIGH_RESOLUTION .. BR_MAX
  PROVE  QosIInv'
<1>1. ratio' \in Nat
  BY RatioIsNat
<1>2. /\ bitrate_store' \in Bitrates \cup {0} /\ abr_config' \in BOOLEAN /\ new_user' \in BOOLEAN
      /\ users' = users /\ users' \in SUBSET Conns
      /\ displays' \in SUBSET Displays /\ support' \in SUBSET displays'
      /\ dynamic' \in SUBSET displays' /\ running' \in SUBSET Displays
  BY DEF QosIInv, TypeOK, displayVars
<1>3. TypeOK'
  BY <1>1, <1>2 DEF TypeOK
<1> QED BY <1>3 DEF QosIInv

\* A new user owes no answer.
LEMMA NewUserIsData == NewUser \in UserData /\ ~NewUser.response_delayed
BY DEF NewUser, UserData, None, MAX_FPS

\* A connection opens.
LEMMA OpenKeeps ==
  ASSUME QosIInv, NEW c \in Conns, on_connection_open(c)
  PROVE  QosIInv'
<1>1. TypeOK /\ Listed /\ DelayedThrottles /\ ratio \in BR_MIN_HIGH_RESOLUTION .. BR_MAX
      /\ recent \in Seq(users) /\ users \in SUBSET Conns
  BY DEF QosIInv, TypeOK
<1>2. /\ c \notin users /\ users' = users \cup {c} /\ user' = [user EXCEPT ![c] = NewUser]
      /\ abr_config' = EnableAbr /\ new_user' = TRUE
      /\ fps' = fps /\ ratio' = ratio /\ bitrate_store' = bitrate_store /\ recent' = recent
      /\ displays' = displays /\ support' = support /\ dynamic' = dynamic /\ running' = running
  BY DEF on_connection_open, displayVars
<1>3. /\ user' \in [Conns -> UserData] /\ Bounded' /\ user'[c] = NewUser
      /\ \A e \in Conns : e # c => user'[e] = user[e]
  BY <1>2, NewUserIsData, UserChange
<1>4. recent' \in Seq(users')
  BY <1>1, <1>2
<1>5. TypeOK'
  BY <1>1, <1>2, <1>3, <1>4, EnableAbrAssumption DEF TypeOK
<1>6. \A i \in 1 .. Len(recent) : recent[i] \in users
  BY <1>1
<1>7. Listed'
  BY <1>1, <1>2, <1>3, <1>6 DEF Listed
<1>8. DelayedThrottles'
  BY <1>1, <1>2, <1>3, NewUserIsData DEF DelayedThrottles
<1> QED BY <1>1, <1>2, <1>3, <1>5, <1>7, <1>8 DEF QosIInv

\* A connection closes; the last one resets everything.
LEMMA CloseKeeps ==
  ASSUME QosIInv, NEW c \in Conns, on_connection_close(c)
  PROVE  QosIInv'
<1>1. TypeOK /\ Listed /\ DelayedThrottles /\ ratio \in BR_MIN_HIGH_RESOLUTION .. BR_MAX
      /\ recent \in Seq(users) /\ users \in SUBSET Conns
  BY DEF QosIInv, TypeOK
<1>2. /\ users' = users \ {c} /\ user' = [user EXCEPT ![c] = NewUser]
      /\ recent' = Without(recent, c) /\ running' = running
  BY DEF on_connection_close, displayVars
<1>3. /\ user' \in [Conns -> UserData] /\ Bounded' /\ user'[c] = NewUser
      /\ \A e \in Conns : e # c => user'[e] = user[e]
  BY <1>2, NewUserIsData, UserChange
<1>4. /\ recent' \in Seq(users \ {c})
      /\ \A i, j \in 1 .. Len(recent') : recent'[i] = recent'[j] => i = j
      /\ \A i \in 1 .. Len(recent') : \E j \in 1 .. Len(recent) : recent'[i] = recent[j]
  <2>1. Distinct(recent)
    BY <1>1 DEF Listed, Distinct
  <2>2. recent' \in Seq(users \ {c}) /\ Distinct(recent') /\ Within(recent', recent)
    BY <1>1, <1>2, <2>1, WithoutDrops
  <2> QED BY <2>2 DEF Distinct, Within
<1>5. Listed'
  <2>1. \A i \in 1 .. Len(recent') : recent'[i] \in users \ {c}
    BY <1>4
  <2>2. \A i \in 1 .. Len(recent') : user'[recent'[i]] = user[recent'[i]]
    BY <1>1, <1>3, <2>1
  <2>3. \A i \in 1 .. Len(recent') : user[recent'[i]].quality \in BR_MIN .. BR_MAX
    <3> SUFFICES ASSUME NEW i \in 1 .. Len(recent')
                 PROVE  user[recent'[i]].quality \in BR_MIN .. BR_MAX
      OBVIOUS
    <3>1. PICK j \in 1 .. Len(recent) : recent'[i] = recent[j]
      BY <1>4
    <3> QED BY <1>1, <3>1 DEF Listed
  <2> QED BY <1>4, <2>2, <2>3 DEF Listed
<1>6. \A e \in users' : user'[e] = user[e] /\ e \in users
  BY <1>1, <1>2, <1>3
<1>7. CASE users' # {}
  <2>1. /\ fps' = fps /\ ratio' = ratio /\ bitrate_store' = bitrate_store
        /\ abr_config' = abr_config /\ new_user' = new_user
        /\ displays' = displays /\ support' = support /\ dynamic' = dynamic
    BY <1>7 DEF on_connection_close, displayVars
  <2>2. TypeOK'
    BY <1>1, <1>2, <1>3, <1>4, <2>1 DEF TypeOK
  <2>3. DelayedThrottles'
    BY <1>1, <1>6, <2>1 DEF DelayedThrottles
  <2> QED BY <1>1, <1>3, <1>5, <2>1, <2>2, <2>3 DEF QosIInv
<1>8. CASE users' = {}
  <2>1. /\ fps' = FPS /\ ratio' = BR_BALANCED /\ bitrate_store' = 0
        /\ abr_config' = TRUE /\ new_user' = TRUE
        /\ displays' = {} /\ support' = {} /\ dynamic' = {}
    BY <1>8 DEF on_connection_close
  <2>2. FPS \in MIN_FPS .. MAX_FPS /\ BR_BALANCED \in Nat
        /\ BR_BALANCED \in BR_MIN_HIGH_RESOLUTION .. BR_MAX
    BY DEF FPS, MIN_FPS, MAX_FPS, BR_BALANCED, BR_MIN_HIGH_RESOLUTION, BR_MAX
  <2>3. TypeOK'
    BY <1>1, <1>2, <1>3, <1>4, <2>1, <2>2 DEF TypeOK
  <2>4. DelayedThrottles'
    BY <1>8 DEF DelayedThrottles
  <2> QED BY <1>3, <1>5, <2>1, <2>2, <2>3, <2>4 DEF QosIInv
<1> QED BY <1>7, <1>8

\* A user asks for a rate, or its client reports one.
LEMMA FpsKeeps ==
  ASSUME QosIInv, NEW c \in Conns, NEW f, user_custom_fps(c, f) \/ user_auto_adjust_fps(c, f)
  PROVE  QosIInv'
<1>1. TypeOK /\ Listed /\ DelayedThrottles /\ ratio \in BR_MIN_HIGH_RESOLUTION .. BR_MAX
      /\ recent \in Seq(users) /\ users \in SUBSET Conns /\ user[c] \in UserData
      /\ fps \in MIN_FPS .. MAX_FPS /\ user \in [Conns -> UserData]
  BY DEF QosIInv, TypeOK
<1>2. /\ f \in MIN_FPS .. MAX_FPS
      /\ UNCHANGED <<abr_config, users, displayVars>> /\ UNCHANGED <<bitrate_store, new_user>>
      /\ fps' = fps /\ ratio' = ratio /\ recent' = recent
  BY DEF user_custom_fps, user_auto_adjust_fps
<1>3. PICK d \in UserData : /\ user' = [user EXCEPT ![c] = d]
                            /\ d.quality = user[c].quality
                            /\ d.response_delayed = user[c].response_delayed
  <2>0. f \in 0 .. MAX_FPS
    BY <1>2 DEF MIN_FPS, MAX_FPS
  <2>1. CASE user_custom_fps(c, f)
    <3> DEFINE d == [user[c] EXCEPT !.custom_fps = f]
    <3>1. d \in UserData /\ d.quality = user[c].quality
          /\ d.response_delayed = user[c].response_delayed
      BY <1>1, <2>0 DEF UserData
    <3>2. user' = [user EXCEPT ![c] = d]
      BY <1>1, <2>1 DEF user_custom_fps
    <3> HIDE DEF d
    <3> QED BY <3>1, <3>2
  <2>2. CASE user_auto_adjust_fps(c, f)
    <3> DEFINE d == [user[c] EXCEPT !.auto_adjust_fps = f]
    <3>1. d \in UserData /\ d.quality = user[c].quality
          /\ d.response_delayed = user[c].response_delayed
      BY <1>1, <2>0 DEF UserData
    <3>2. user' = [user EXCEPT ![c] = d]
      BY <1>1, <2>2 DEF user_auto_adjust_fps
    <3> HIDE DEF d
    <3> QED BY <3>1, <3>2
  <2> QED BY <2>1, <2>2
<1>4. /\ user' \in [Conns -> UserData] /\ Bounded' /\ user'[c] = d
      /\ \A e \in Conns : e # c => user'[e] = user[e]
  BY <1>3, UserChange
<1>5. \A e \in Conns : user'[e].quality = user[e].quality
                       /\ user'[e].response_delayed = user[e].response_delayed
  BY <1>3, <1>4
<1>6. Listed'
  <2>1. \A i \in 1 .. Len(recent) : recent[i] \in Conns
    BY <1>1
  <2> QED BY <1>1, <1>2, <1>5, <2>1 DEF Listed
<1>7. DelayedThrottles'
  BY <1>1, <1>2, <1>5 DEF DelayedThrottles
<1> QED BY <1>1, <1>2, <1>4, <1>6, <1>7, UserStep

\* A user chooses a quality.
LEMMA QualityKeeps ==
  ASSUME QosIInv, NEW c \in Conns, NEW q \in Qualities, user_image_quality(c, q)
  PROVE  QosIInv'
<1>1. TypeOK /\ Listed /\ DelayedThrottles
      /\ recent \in Seq(users) /\ users \in SUBSET Conns /\ user[c] \in UserData
      /\ fps \in MIN_FPS .. MAX_FPS /\ user \in [Conns -> UserData]
  BY DEF QosIInv, TypeOK
<1>2. PICK x \in BR_MIN .. BR_MAX : x = convert_quality(q)
  BY QualitiesAssumption, ConvertedInRange
<1>3. /\ UNCHANGED <<abr_config, users, displayVars>> /\ UNCHANGED <<bitrate_store, new_user>>
      /\ fps' = fps /\ ratio' = x /\ recent' = Append(Without(recent, c), c)
      /\ user' = [user EXCEPT ![c].quality = x] /\ c \in users /\ users' = users
  BY <1>2 DEF user_image_quality
<1> DEFINE d == [user[c] EXCEPT !.quality = x]
<1>4. /\ d \in UserData /\ d.quality = x /\ d.response_delayed = user[c].response_delayed
      /\ x \in BR_MIN_HIGH_RESOLUTION .. BR_MAX
  <2>1. x \in Nat /\ x \in BR_MIN_HIGH_RESOLUTION .. BR_MAX
    BY InRangeIsRatio
  <2> QED BY <1>1, <2>1 DEF UserData
<1>5. user' = [user EXCEPT ![c] = d]
  BY <1>1, <1>3
<1> HIDE DEF d
<1>6. /\ user' \in [Conns -> UserData] /\ Bounded' /\ user'[c] = d
      /\ \A e \in Conns : e # c => user'[e] = user[e]
  BY <1>4, <1>5, UserChange
<1> DEFINE r == Without(recent, c)
<1>7. /\ r \in Seq(users \ {c})
      /\ \A i, j \in 1 .. Len(r) : r[i] = r[j] => i = j
      /\ \A i \in 1 .. Len(r) : \E j \in 1 .. Len(recent) : r[i] = recent[j]
  <2>1. Distinct(recent)
    BY <1>1 DEF Listed, Distinct
  <2>2. recent \in Seq(users)
    BY <1>1
  <2>3. r \in Seq(users \ {c}) /\ Distinct(r) /\ Within(r, recent)
    BY <2>1, <2>2, WithoutDrops
  <2> HIDE DEF r
  <2> QED BY <2>3 DEF Distinct, Within
<1>8. recent' = Append(r, c)
  BY <1>3
<1> HIDE DEF r
<1>9. /\ recent' \in Seq(users) /\ Len(recent') = Len(r) + 1 /\ recent'[Len(r) + 1] = c
      /\ \A i \in 1 .. Len(r) : recent'[i] = r[i] /\ r[i] \in users /\ r[i] # c
  <2>1. r \in Seq(users) /\ \A i \in 1 .. Len(r) : r[i] \in users /\ r[i] # c
    BY <1>7
  <2> QED BY <1>3, <1>8, <2>1
<1>10. \A i \in 1 .. Len(recent') : i \in 1 .. Len(r) \/ i = Len(r) + 1
  BY <1>7, <1>9
<1>11. Listed'
  <2>1. \A i, j \in 1 .. Len(recent') : recent'[i] = recent'[j] => i = j
    BY <1>7, <1>9, <1>10
  <2>2. \A i \in 1 .. Len(recent') : user'[recent'[i]].quality \in BR_MIN .. BR_MAX
    <3> SUFFICES ASSUME NEW i \in 1 .. Len(recent')
                 PROVE  user'[recent'[i]].quality \in BR_MIN .. BR_MAX
      OBVIOUS
    <3>1. CASE i = Len(r) + 1
      BY <1>4, <1>6, <1>9, <3>1
    <3>2. CASE i \in 1 .. Len(r)
      <4>1. PICK j \in 1 .. Len(recent) : r[i] = recent[j]
        BY <1>7, <3>2
      <4>2. user[recent[j]].quality \in BR_MIN .. BR_MAX
        BY <1>1 DEF Listed
      <4>3. recent'[i] = recent[j] /\ user'[recent'[i]] = user[recent[j]]
        BY <1>1, <1>6, <1>9, <3>2, <4>1
      <4> QED BY <4>2, <4>3
    <3> QED BY <1>10, <3>1, <3>2
  <2> QED BY <2>1, <2>2 DEF Listed
<1>12. \A e \in Conns : user'[e].response_delayed = user[e].response_delayed
  BY <1>4, <1>6
<1>13. DelayedThrottles'
  BY <1>1, <1>3, <1>12 DEF DelayedThrottles
<1> QED BY <1>1, <1>3, <1>4, <1>6, <1>9, <1>11, <1>13, UserStep

\* The users' choices only matter through their qualities.
LEMMA SameTarget ==
  ASSUME QosIInv, NEW ud, \A e \in Conns : ud[e].quality = user[e].quality
  PROVE  /\ latest_quality(ud, recent) = latest_quality(user, recent)
         /\ latest_quality(user, recent) \in BR_MIN .. BR_MAX
<1>1. recent \in Seq(users) /\ users \in SUBSET Conns
      /\ \A i \in 1 .. Len(recent) : user[recent[i]].quality \in BR_MIN .. BR_MAX
  BY DEF QosIInv, TypeOK, Listed
<1>2. recent # <<>> => recent[Len(recent)] \in Conns
  BY <1>1
<1>3. latest_quality(ud, recent) = latest_quality(user, recent)
  BY <1>2, Zenon DEF latest_quality
<1>4. latest_quality(user, recent) \in BR_MIN .. BR_MAX
  BY <1>1, TargetInRange
<1> QED BY <1>3, <1>4

\* adjust_ratio, for any state of the invariant.
LEMMA RatioAdjusts ==
  ASSUME QosIInv, NEW ud, \A e \in Conns : ud[e].quality = user[e].quality,
         NEW m \in Nat, \A e \in Conns : ud[e].avg_delay \in 0 .. m,
         NEW b \in Nat, NEW dyn \in BOOLEAN
  PROVE  LET r == adjusted_ratio(ud, b, dyn)
         IN  /\ r \in BR_MIN_HIGH_RESOLUTION .. BR_MAX
             /\ in_vbr_state /\ MinRatio(latest_quality(user, recent), b) <= ratio /\ r > ratio =>
                  \A c \in users : ud[c].avg_delay < DELAY_THRESHOLD_150MS
<1>1. ratio \in BR_MIN_HIGH_RESOLUTION .. BR_MAX /\ users \in SUBSET Conns /\ ratio \in Nat
  BY DEF QosIInv, TypeOK
<1>2. CASE ~in_vbr_state \/ users = {}
  <2>1. adjusted_ratio(ud, b, dyn) = ratio
    BY <1>2, Zenon DEF adjusted_ratio
  <2>2. ~(ratio > ratio)
    BY <1>1
  <2> QED BY <1>1, <2>1, <2>2, Zenon
<1>3. CASE in_vbr_state /\ users # {}
  <2>1. PICK target \in BR_MIN .. BR_MAX :
          target = latest_quality(ud, recent) /\ target = latest_quality(user, recent)
    BY SameTarget
  <2>2. {ud[c].avg_delay : c \in users} \subseteq 0 .. m
    BY <1>1
  <2>3. LET r == adjusted_ratio(ud, b, dyn)
        IN  /\ r \in BR_MIN_HIGH_RESOLUTION .. BR_MAX
            /\ MinRatio(target, b) <= ratio /\ r > ratio =>
                 \A c \in users : ud[c].avg_delay < DELAY_THRESHOLD_150MS
    BY <1>1, <1>3, <2>1, <2>2, AdjustedRatio, Zenon
  <2> QED BY <2>1, <2>3, Zenon
<1> QED BY <1>2, <1>3

\* The users' data after an answer of `c'.
LEMMA AnswerFacts ==
  ASSUME QosIInv, NEW c \in Conns, NEW avg \in AvgDelays, user_network_delay(c, avg)
  PROVE  /\ user' \in [Conns -> UserData] /\ Bounded'
         /\ \A e \in Conns : user'[e].quality = user[e].quality
                             /\ user'[e].response_delayed = user[e].response_delayed
<1>1. user \in [Conns -> UserData] /\ users \in SUBSET Conns /\ fps \in Nat /\ Bounded
  BY DEF QosIInv, TypeOK, MIN_FPS, MAX_FPS
<1> DEFINE target == latest_quality(user, recent)
           highest == highest_fps(users, user)
           d == WithDelay(user[c], avg, target, highest)
<1>2. user' = IF c \in users THEN [user EXCEPT ![c] = d] ELSE user
  BY DEF user_network_delay
<1>3. highest \in MIN_FPS .. MAX_FPS
  BY <1>1, HighestInRange
<1>4. d \in UserData /\ d.quality = user[c].quality
      /\ d.response_delayed = user[c].response_delayed
  <2> HIDE DEF highest, target
  <2>1. user[c] \in UserData
    BY <1>1
  <2> QED BY <1>1, <1>3, <2>1, SampleKeepsType
<1> HIDE DEF d
<1>5. CASE c \in users
  <2>1. /\ user' \in [Conns -> UserData] /\ Bounded' /\ user'[c] = d
        /\ \A e \in Conns : e # c => user'[e] = user[e]
    BY <1>2, <1>4, <1>5, UserChange
  <2> QED BY <1>4, <2>1
<1>6. CASE c \notin users
  <2>1. user' = user
    BY <1>2, <1>6
  <2> QED BY <1>1, <2>1 DEF Bounded
<1> QED BY <1>5, <1>6

\* A test delay is answered.
LEMMA AnswerKeeps ==
  ASSUME QosIInv, NEW c \in Conns, NEW avg \in AvgDelays, user_network_delay(c, avg)
  PROVE  QosIInv'
<1>1. TypeOK /\ Listed /\ DelayedThrottles /\ ratio \in BR_MIN_HIGH_RESOLUTION .. BR_MAX
      /\ recent \in Seq(users) /\ users \in SUBSET Conns /\ new_user \in BOOLEAN
      /\ bitrate_store \in Nat
  BY BitratesAssumption DEF QosIInv, TypeOK
<1>2. /\ UNCHANGED <<abr_config, users, displayVars>> /\ UNCHANGED <<bitrate_store, new_user>>
      /\ recent' = recent /\ users' = users
      /\ fps' = adjusted_fps(users, user', new_user)
      /\ \/ ratio' = ratio
         \/ ratio' = adjusted_ratio(user', bitrate_store, FALSE)
  BY DEF user_network_delay
<1>3. /\ user' \in [Conns -> UserData] /\ Bounded'
      /\ \A e \in Conns : user'[e].quality = user[e].quality
                          /\ user'[e].response_delayed = user[e].response_delayed
  BY AnswerFacts
<1>4. PICK m \in Nat : \A e \in Conns : user'[e].avg_delay \in 0 .. m
  BY <1>3 DEF Bounded
<1>5. ratio' \in BR_MIN_HIGH_RESOLUTION .. BR_MAX
  <2>1. adjusted_ratio(user', bitrate_store, FALSE) \in BR_MIN_HIGH_RESOLUTION .. BR_MAX
    BY <1>1, <1>3, <1>4, RatioAdjusts
  <2> QED BY <1>1, <1>2, <2>1, Zenon
<1>6. Listed'
  <2>1. \A i \in 1 .. Len(recent) : recent[i] \in Conns
    BY <1>1
  <2> QED BY <1>1, <1>2, <1>3, <2>1 DEF Listed
<1>7. fps' \in MIN_FPS .. MAX_FPS /\ DelayedThrottles'
  <2>1. /\ adjusted_fps(users, user', new_user) \in MIN_FPS .. MAX_FPS
        /\ (\E e \in users : user'[e].response_delayed) =>
             adjusted_fps(users, user', new_user) <= MIN_FPS + 1
    BY <1>1, <1>3, AdjustedFps
  <2> QED BY <1>2, <2>1, Zenon DEF DelayedThrottles
<1> QED BY <1>1, <1>2, <1>3, <1>5, <1>6, <1>7, UserStep

\* An answer is overdue, or no longer.
LEMMA ElapsedKeeps ==
  ASSUME QosIInv, NEW c \in Conns, NEW late \in BOOLEAN, NEW avg \in AvgDelays,
         user_delay_response_elapsed(c, late, avg)
  PROVE  QosIInv'
<1>1. TypeOK /\ Listed /\ DelayedThrottles /\ ratio \in BR_MIN_HIGH_RESOLUTION .. BR_MAX
      /\ recent \in Seq(users) /\ users \in SUBSET Conns /\ new_user \in BOOLEAN
      /\ user \in [Conns -> UserData] /\ user[c] \in UserData /\ fps \in MIN_FPS .. MAX_FPS
  BY DEF QosIInv, TypeOK
<1>2. /\ UNCHANGED <<abr_config, users, displayVars>> /\ UNCHANGED <<bitrate_store, new_user>>
      /\ recent' = recent /\ users' = users /\ ratio' = ratio
      /\ fps' = IF late THEN adjusted_fps(users, user', new_user) ELSE fps
  BY DEF user_delay_response_elapsed
<1>3. PICK d \in UserData : /\ user' = [user EXCEPT ![c] = d]
                            /\ d.quality = user[c].quality
                            /\ ~late => ~d.response_delayed
  <2>1. CASE late
    <3> DEFINE d == [user[c] EXCEPT !.response_delayed = TRUE, !.avg_delay = avg]
    <3>1. d \in UserData /\ d.quality = user[c].quality
      BY <1>1 DEF UserData
    <3>2. user' = [user EXCEPT ![c] = d]
      BY <1>1, <2>1 DEF user_delay_response_elapsed
    <3> HIDE DEF d
    <3> QED BY <2>1, <3>1, <3>2
  <2>2. CASE ~late
    <3> DEFINE d == [user[c] EXCEPT !.response_delayed = FALSE]
    <3>1. d \in UserData /\ d.quality = user[c].quality /\ ~d.response_delayed
      BY <1>1 DEF UserData
    <3>2. user' = [user EXCEPT ![c] = d]
      BY <1>1, <2>2 DEF user_delay_response_elapsed
    <3> HIDE DEF d
    <3> QED BY <2>2, <3>1, <3>2
  <2> QED BY <2>1, <2>2
<1>4. /\ user' \in [Conns -> UserData] /\ Bounded' /\ user'[c] = d
      /\ \A e \in Conns : e # c => user'[e] = user[e]
  BY <1>3, UserChange
<1>5. Listed'
  <2>1. \A i \in 1 .. Len(recent) : recent[i] \in Conns
    BY <1>1
  <2>2. \A e \in Conns : user'[e].quality = user[e].quality
    BY <1>3, <1>4
  <2> QED BY <1>1, <1>2, <2>1, <2>2 DEF Listed
<1>6. fps' \in MIN_FPS .. MAX_FPS /\ DelayedThrottles'
  <2>1. /\ adjusted_fps(users, user', new_user) \in MIN_FPS .. MAX_FPS
        /\ (\E e \in users : user'[e].response_delayed) =>
             adjusted_fps(users, user', new_user) <= MIN_FPS + 1
    BY <1>1, <1>4, AdjustedFps
  <2>2. CASE late
    BY <1>2, <2>1, <2>2, Zenon DEF DelayedThrottles
  <2>3. CASE ~late
    <3>1. fps' = fps
      BY <1>2, <2>3
    <3>2. \A e \in users : user'[e].response_delayed => user[e].response_delayed
      BY <1>1, <1>3, <1>4, <2>3
    <3>3. DelayedThrottles'
      BY <1>1, <1>2, <3>1, <3>2 DEF DelayedThrottles
    <3> QED BY <1>1, <3>1, <3>3
  <2> QED BY <2>2, <2>3
<1> QED BY <1>1, <1>2, <1>4, <1>5, <1>6, UserStep

\* Sufficient conditions for a step of a video thread, or of time, to keep the invariant.
LEMMA ThreadStep ==
  ASSUME QosIInv, UNCHANGED <<abr_config, users, user, recent>>,
         bitrate_store' \in Bitrates \cup {0}, new_user' \in BOOLEAN,
         displays' \in SUBSET Displays, support' \in SUBSET displays',
         dynamic' \in SUBSET displays', running' \in SUBSET Displays,
         fps' \in MIN_FPS .. MAX_FPS, DelayedThrottles',
         ratio' \in BR_MIN_HIGH_RESOLUTION .. BR_MAX
  PROVE  QosIInv'
<1>1. ratio' \in Nat
  BY RatioIsNat
<1>2. /\ abr_config' \in BOOLEAN /\ users' \in SUBSET Conns
      /\ user' \in [Conns -> UserData] /\ recent' \in Seq(users')
  BY DEF QosIInv, TypeOK
<1>3. TypeOK'
  BY <1>1, <1>2 DEF TypeOK
<1>4. Listed' /\ Bounded'
  BY DEF QosIInv, Listed, Bounded
<1> QED BY <1>3, <1>4 DEF QosIInv

\* The steps that leave the rate and the ratio alone.
LEMMA QuietSteps ==
  ASSUME QosIInv,
         \/ SecondPasses
         \/ \E s \in Displays :
              \/ new_display(s) \/ remove_display(s)
              \/ \E b \in Bitrates : store_bitrate(s, b)
              \/ \E x \in BOOLEAN : set_support_changing_quality(s, x)
  PROVE  QosIInv' /\ ratio' = ratio
<1>1. /\ UNCHANGED <<abr_config, users, user, recent>>
      /\ fps' = fps /\ ratio' = ratio
  BY DEF new_display, remove_display, store_bitrate, set_support_changing_quality, SecondPasses
<1>2. /\ bitrate_store' \in Bitrates \cup {0} /\ new_user' \in BOOLEAN
  BY DEF QosIInv, TypeOK, new_display, remove_display, store_bitrate,
         set_support_changing_quality, SecondPasses
<1>3. /\ displays' \in SUBSET Displays /\ support' \in SUBSET displays'
      /\ dynamic' \in SUBSET displays' /\ running' \in SUBSET Displays
  BY DEF QosIInv, TypeOK, displayVars, new_display, remove_display, store_bitrate,
         set_support_changing_quality, SecondPasses
<1>4. fps' \in MIN_FPS .. MAX_FPS /\ DelayedThrottles'
  BY <1>1 DEF QosIInv, TypeOK, DelayedThrottles
<1>5. ratio' \in BR_MIN_HIGH_RESOLUTION .. BR_MAX
  BY <1>1 DEF QosIInv
<1> QED BY <1>1, <1>2, <1>3, <1>4, <1>5, ThreadStep

\* What check_qos does to the ratio.
LEMMA CheckedRatio ==
  ASSUME QosIInv, NEW s \in Displays, NEW b \in Bitrates \cup {bitrate_store},
         NEW second \in BOOLEAN, check_qos(s, b, second)
  PROVE  \/ ratio' = ratio
         \/ ~in_vbr_state /\ ratio' = latest_quality(user, recent)
         \/ \E dyn \in BOOLEAN : ratio' = adjusted_ratio(user, b, dyn)
<1>1. CASE ~second
  BY <1>1 DEF check_qos
<1>2. CASE second
  <2>1. PICK many, three_seconds \in BOOLEAN : update_display_data(s, b, many, three_seconds)
    BY <1>2 DEF check_qos
  <2> DEFINE counted == IF many /\ s \in displays THEN dynamic \cup {s} ELSE dynamic
  <2>2. \/ ratio' = adjusted_ratio(user, b, counted # {})
        \/ ratio' = ratio
        \/ ~in_vbr_state /\ ratio' = latest_quality(user, recent)
    BY <2>1, Zenon DEF update_display_data
  <2>3. (counted # {}) \in BOOLEAN
    OBVIOUS
  <2> HIDE DEF counted
  <2> QED BY <2>2, <2>3, Zenon
<1> QED BY <1>1, <1>2

\* A video thread checks.
LEMMA CheckKeeps ==
  ASSUME QosIInv, NEW s \in Displays, NEW b \in Bitrates \cup {bitrate_store},
         NEW second \in BOOLEAN, check_qos(s, b, second)
  PROVE  QosIInv'
<1>1. /\ DelayedThrottles /\ ratio \in BR_MIN_HIGH_RESOLUTION .. BR_MAX
      /\ users \in SUBSET Conns /\ new_user \in BOOLEAN /\ user \in [Conns -> UserData]
      /\ b \in Bitrates \cup {0} /\ b \in Nat /\ Bounded /\ fps \in MIN_FPS .. MAX_FPS
  BY BitratesAssumption DEF QosIInv, TypeOK
<1>2. /\ UNCHANGED <<abr_config, users, user, recent>> /\ bitrate_store' = b
      /\ new_user' = new_user /\ displays' = displays /\ support' = support
      /\ running' = running
  BY DEF check_qos
<1>3. fps' = fps \/ fps' = adjusted_fps(users, user, new_user)
  BY DEF check_qos, update_display_data
<1>4. dynamic' \in SUBSET displays
  BY DEF check_qos, update_display_data, QosIInv, TypeOK
<1>5. fps' \in MIN_FPS .. MAX_FPS /\ DelayedThrottles'
  <2>1. /\ adjusted_fps(users, user, new_user) \in MIN_FPS .. MAX_FPS
        /\ (\E e \in users : user[e].response_delayed) =>
             adjusted_fps(users, user, new_user) <= MIN_FPS + 1
    BY <1>1, AdjustedFps
  <2>2. CASE fps' = fps
    BY <1>1, <1>2, <2>2 DEF DelayedThrottles
  <2>3. CASE fps' = adjusted_fps(users, user, new_user)
    BY <1>2, <2>1, <2>3, Zenon DEF DelayedThrottles
  <2> QED BY <1>3, <2>2, <2>3
<1>6. ratio' \in BR_MIN_HIGH_RESOLUTION .. BR_MAX
  <2>1. PICK m \in Nat : \A e \in Conns : user[e].avg_delay \in 0 .. m
    BY <1>1 DEF Bounded
  <2>2. \A dyn \in BOOLEAN : adjusted_ratio(user, b, dyn) \in BR_MIN_HIGH_RESOLUTION .. BR_MAX
    BY <1>1, <2>1, RatioAdjusts
  <2>3. latest_quality(user, recent) \in BR_MIN_HIGH_RESOLUTION .. BR_MAX
    <3>1. PICK x \in BR_MIN .. BR_MAX : x = latest_quality(user, recent)
      BY SameTarget
    <3> QED BY <3>1, InRangeIsRatio, Zenon
  <2> QED BY <1>1, <2>2, <2>3, CheckedRatio, Zenon
<1>7. /\ displays' \in SUBSET Displays /\ support' \in SUBSET displays'
      /\ running' \in SUBSET Displays /\ dynamic' \in SUBSET displays'
  BY <1>2, <1>4 DEF QosIInv, TypeOK
<1> QED BY <1>1, <1>2, <1>5, <1>6, <1>7, ThreadStep
-----------------------------------------------------------------------------
(* The theorems.                                                           *)

\* Initially nobody is connected and the ratio is the balanced one.
LEMMA QosInit ==
  ASSUME Init
  PROVE  QosIInv
<1>1. NewUser \in UserData /\ NewUser.avg_delay = DELAY_THRESHOLD_150MS
  BY NewUserIsData DEF NewUser
<1>2. user = [c \in Conns |-> NewUser]
  BY DEF Init
<1>3. user \in [Conns -> UserData] /\ \A c \in Conns : user[c] = NewUser
  BY <1>1, <1>2
<1>4. Bounded
  <2>1. DELAY_THRESHOLD_150MS \in Nat /\ DELAY_THRESHOLD_150MS \in 0 .. DELAY_THRESHOLD_150MS
    BY DEF DELAY_THRESHOLD_150MS
  <2> QED BY <1>1, <1>3, <2>1 DEF Bounded
<1>5. fps \in MIN_FPS .. MAX_FPS
  BY DEF Init, FPS, MIN_FPS, MAX_FPS
<1>6. ratio \in Nat /\ ratio \in BR_MIN_HIGH_RESOLUTION .. BR_MAX
  <2>1. BR_BALANCED \in Nat /\ BR_BALANCED \in BR_MIN_HIGH_RESOLUTION .. BR_MAX
    BY PresetsInRange, InRangeIsRatio
  <2>2. ratio = BR_BALANCED
    BY DEF Init
  <2> QED BY <2>1, <2>2
<1>7. recent = <<>> /\ recent \in Seq(users) /\ Len(recent) = 0
  BY DEF Init
<1>8. Listed
  BY <1>7 DEF Listed
<1>9. DelayedThrottles
  BY DEF Init, DelayedThrottles
<1>10. TypeOK
  BY <1>3, <1>5, <1>6, <1>7 DEF Init, TypeOK
<1> QED BY <1>4, <1>6, <1>8, <1>9, <1>10 DEF QosIInv

\* Every step keeps the invariant.
LEMMA QosStep ==
  ASSUME QosIInv, [Next]_vars
  PROVE  QosIInv'
<1>1. ASSUME NEW c \in Conns, Connection(c) PROVE QosIInv'
  <2>1. \A f \in FpsOptions : f \in Nat
    BY FpsOptionsAssumption
  <2>2. \A q \in Qualities : q \in Nat
    BY QualitiesAssumption
  <2> QED BY <1>1, <2>1, <2>2, OpenKeeps, CloseKeeps, FpsKeeps, QualityKeeps DEF Connection
<1>2. ASSUME NEW c \in Conns, Network(c) PROVE QosIInv'
  BY <1>2, AnswerKeeps, ElapsedKeeps DEF Network
<1>3. ASSUME NEW s \in Displays, VideoThread(s) PROVE QosIInv'
  BY <1>3, QuietSteps, CheckKeeps DEF VideoThread
<1>4. CASE SecondPasses
  BY <1>4, QuietSteps
<1>5. CASE UNCHANGED vars
  <2>1. UNCHANGED <<fps, ratio, bitrate_store, abr_config, users, user, recent, displays>>
        /\ UNCHANGED <<support, dynamic, new_user, running>>
    BY <1>5 DEF vars
  <2> QED BY <2>1 DEF QosIInv, TypeOK, Listed, Bounded, DelayedThrottles
<1> QED BY <1>1, <1>2, <1>3, <1>4, <1>5 DEF Next

\* The invariant holds throughout.
THEOREM QosInductive == Spec => []QosIInv
BY QosInit, QosStep, PTL DEF Spec

\* The variables keep their types; above all, the choices of quality listed are always
\* those of connected users.
THEOREM QosTypeCorrect == Spec => []TypeOK
<1>1. QosIInv => TypeOK
  BY DEF QosIInv
<1> QED BY <1>1, QosInductive, PTL

\* While an answer is overdue, frames go out at MIN_FPS + 1 at most, for any number of
\* users and any sequence of their calls (adjust_fps).
THEOREM DelayedAlwaysThrottles == Spec => []DelayedThrottles
<1>1. QosIInv => DelayedThrottles
  BY DEF QosIInv
<1> QED BY <1>1, QosInductive, PTL

\* The clamp of adjust_ratio always has a lower bound no larger than its upper one, for
\* any bitrate an encoder reports, and the ratio stays in range.
THEOREM RatioAlwaysInRange == Spec => []RatioInRange
<1>1. ASSUME QosIInv PROVE RatioInRange
  <2>1. PICK target \in BR_MIN .. BR_MAX : target = latest_quality(user, recent)
    BY <1>1, SameTarget
  <2>2. bitrate_store \in Nat /\ ratio \in Nat /\ ratio \in BR_MIN_HIGH_RESOLUTION .. BR_MAX
    BY <1>1, BitratesAssumption DEF QosIInv, TypeOK
  <2>3. MinRatio(target, bitrate_store) \in BR_MIN_HIGH_RESOLUTION .. target
    BY <2>2, MinRatioBelow
  <2>4. ASSUME NEW a \in Int, NEW b \in Int, NEW x \in a .. b PROVE x <= b
    OBVIOUS
  <2>5. BR_MIN_HIGH_RESOLUTION \in Int /\ target \in Int
    BY DEF BR_MIN_HIGH_RESOLUTION, BR_MIN, BR_MAX
  <2>6. MinRatio(target, bitrate_store) <= target
    BY <2>3, <2>4, <2>5, Zenon
  <2> QED BY <2>1, <2>2, <2>6, Zenon DEF RatioInRange
<1> QED BY <1>1, QosInductive, PTL

\* A step that raises the ratio is somebody's choice, the departure of the last user, an
\* answer or a check.
LEMMA WhoRaises ==
  ASSUME QosIInv, Next, ratio' > ratio, users' # {},
         ~\E c \in users, q \in Qualities : user_image_quality(c, q)
  PROVE  \/ \E c \in Conns, avg \in AvgDelays : user_network_delay(c, avg)
         \/ \E s \in Displays, b \in Bitrates \cup {bitrate_store}, second \in BOOLEAN :
              check_qos(s, b, second)
<1>1. ratio \in Nat /\ ratio' # ratio
  BY DEF QosIInv, TypeOK
<1>2. ASSUME NEW c \in Conns, Connection(c) PROVE FALSE
  <2>1. \A q \in Qualities : user_image_quality(c, q) => c \in users
    BY DEF user_image_quality
  <2>2. ~on_connection_open(c) /\ ~on_connection_close(c)
    BY <1>1 DEF on_connection_open, on_connection_close
  <2>3. \A f \in FpsOptions : ~user_custom_fps(c, f) /\ ~user_auto_adjust_fps(c, f)
    BY <1>1 DEF user_custom_fps, user_auto_adjust_fps
  <2> QED BY <1>2, <2>1, <2>2, <2>3 DEF Connection
<1>3. ASSUME NEW c \in Conns, Network(c)
      PROVE  \E avg \in AvgDelays : user_network_delay(c, avg)
  BY <1>1, <1>3 DEF Network, user_delay_response_elapsed
<1>4. ASSUME NEW s \in Displays, VideoThread(s)
      PROVE  \E b \in Bitrates \cup {bitrate_store}, second \in BOOLEAN : check_qos(s, b, second)
  BY <1>1, <1>4, QuietSteps DEF VideoThread
<1>5. ~SecondPasses
  BY <1>1 DEF SecondPasses
<1> QED BY <1>2, <1>3, <1>4, <1>5 DEF Next

\* Unless somebody chooses a quality, a ratio that may vary and is not below its minimum
\* only grows while the delay of every one of the users is good: whatever the others
\* answer, the worst network decides (adjust_ratio).
THEOREM AlwaysRaisedOnlyWhenAllGood == Spec => RaisedOnlyWhenAllGood
<1> DEFINE Raised == /\ in_vbr_state
                     /\ ~\E c \in users, q \in Qualities : user_image_quality(c, q)
                     /\ users' # {}
                     /\ ratio >= MinRatio(latest_quality(user, recent), bitrate_store')
                     /\ ratio' > ratio
           AllGood == \A c \in users : user'[c].avg_delay < DELAY_THRESHOLD_150MS
<1>1. ASSUME QosIInv, Next, Raised PROVE AllGood
  <2>1. /\ ratio \in Nat /\ ~(ratio > ratio) /\ Bounded /\ bitrate_store \in Nat
        /\ \A b \in Bitrates : b \in Nat
    BY <1>1, BitratesAssumption DEF QosIInv, TypeOK
  <2>2. ASSUME NEW ud, NEW m \in Nat, NEW b \in Nat, NEW dyn \in BOOLEAN,
               \A e \in Conns : ud[e].quality = user[e].quality,
               \A e \in Conns : ud[e].avg_delay \in 0 .. m,
               user' = ud, bitrate_store' = b, ratio' = adjusted_ratio(ud, b, dyn)
        PROVE  AllGood
    <3>1. PICK low : low = MinRatio(latest_quality(user, recent), b)
      OBVIOUS
    <3>2. ratio >= low => low <= ratio
      OBVIOUS
    <3>3. MinRatio(latest_quality(user, recent), b) <= ratio
      BY <1>1, <2>2, <3>1, <3>2, Zenon
    <3>4. in_vbr_state /\ adjusted_ratio(ud, b, dyn) > ratio
      BY <1>1, <2>2, Zenon
    <3>5. \A c \in users : ud[c].avg_delay < DELAY_THRESHOLD_150MS
      BY <1>1, <2>2, <3>3, <3>4, RatioAdjusts, Zenon
    <3> QED BY <2>2, <3>5
  <2>3. CASE \E c \in Conns, avg \in AvgDelays : user_network_delay(c, avg)
    <3>1. PICK c \in Conns, avg \in AvgDelays : user_network_delay(c, avg)
      BY <2>3
    <3>2. /\ bitrate_store' = bitrate_store
          /\ ratio' = ratio \/ ratio' = adjusted_ratio(user', bitrate_store, FALSE)
      BY <3>1 DEF user_network_delay
    <3>3. ratio' = adjusted_ratio(user', bitrate_store, FALSE)
      BY <1>1, <2>1, <3>2, Zenon
    <3>4. Bounded' /\ \A e \in Conns : user'[e].quality = user[e].quality
      BY <1>1, <3>1, AnswerFacts
    <3>5. PICK m \in Nat : \A e \in Conns : user'[e].avg_delay \in 0 .. m
      BY <3>4 DEF Bounded
    <3>6. FALSE \in BOOLEAN
      OBVIOUS
    <3> HIDE DEF AllGood
    <3> QED BY <2>1, <2>2, <3>2, <3>3, <3>4, <3>5, <3>6, Zenon
  <2>4. CASE \E s \in Displays, b \in Bitrates \cup {bitrate_store}, second \in BOOLEAN :
               check_qos(s, b, second)
    <3>1. PICK s \in Displays, b \in Bitrates \cup {bitrate_store}, second \in BOOLEAN :
            check_qos(s, b, second)
      BY <2>4
    <3>2. bitrate_store' = b /\ user' = user /\ b \in Nat
      BY <2>1, <3>1 DEF check_qos
    <3>3. \/ ratio' = ratio
          \/ ~in_vbr_state
          \/ \E dyn \in BOOLEAN : ratio' = adjusted_ratio(user, b, dyn)
      BY <1>1, <3>1, CheckedRatio, Zenon
    <3>4. PICK dyn \in BOOLEAN : ratio' = adjusted_ratio(user, b, dyn)
      BY <1>1, <2>1, <3>3, Zenon
    <3>5. PICK m \in Nat : \A e \in Conns : user[e].avg_delay \in 0 .. m
      BY <2>1 DEF Bounded
    <3> HIDE DEF AllGood
    <3> QED BY <2>2, <3>2, <3>4, <3>5, Zenon
  <2>5. /\ ratio' > ratio /\ users' # {}
        /\ ~\E c \in users, q \in Qualities : user_image_quality(c, q)
    BY <1>1
  <2> HIDE DEF AllGood
  <2> QED BY <1>1, <2>3, <2>4, <2>5, WhoRaises, Zenon
<1>2. QosIInv /\ [Next]_vars => [Raised => AllGood]_vars
  BY <1>1, Zenon
<1>3. RaisedOnlyWhenAllGood <=> [][Raised => AllGood]_vars
  BY DEF RaisedOnlyWhenAllGood
<1> QED BY <1>2, <1>3, QosInductive, PTL DEF Spec
=============================================================================
