---------------------------- MODULE FiguresProofs ---------------------------
(***************************************************************************)
(* What the API computes and tells of what it keeps, for every value of    *)
(* the constants: the requests it admits, the replays, the journals, the   *)
(* agents, the two books, the portfolio and the market; and how a schema   *)
(* comes to be.                                                            *)
(***************************************************************************)
EXTENDS RequestGate, Backtests, Journals, Migrations, AgentCycles, AuditTrail,
        PortfolioViews, MarketViews, SequenceTheorems, FiniteSetTheorems, WellFoundedInduction, TLAPS

-----------------------------------------------------------------------------
(* Sums.                                                                   *)

\* A set of natural numbers that is not empty has a least element: of the sets below its
\* elements one has no smaller one among them.
LEMMA LeastElement ==
  ASSUME NEW S, S \subseteq Nat, S # {}
  PROVE  \E n \in S : \A m \in S : n <= m
<1> DEFINE T == {0..n : n \in S}
<1>1. T \subseteq FiniteSubsetsOf(Nat) /\ T # {}
  <2>1. \A n \in S : IsFiniteSet(0..n) /\ 0..n \in SUBSET Nat
    BY FS_Interval
  <2>2. QED  BY <2>1 DEF FiniteSubsetsOf
<1>2. PICK x \in T : \A y \in T : ~ (<<y, x>> \in StrictSubsetOrdering(Nat))
  <2> HIDE DEF T
  <2>1. QED BY <1>1, FS_StrictSubsetOrderingWellFounded, WFMin
<1>3. PICK n \in S : x = 0..n
  OBVIOUS
<1>4. \A m \in S : n <= m
  <2> SUFFICES ASSUME NEW m \in S, m < n PROVE FALSE
    OBVIOUS
  <2>1. 0..m \in SUBSET Nat /\ 0..n \in SUBSET Nat /\ 0..m \subseteq 0..n /\ n \in 0..n /\ n \notin 0..m
    OBVIOUS
  <2>2. <<0..m, 0..n>> \in StrictSubsetOrdering(Nat)
    BY <2>1 DEF StrictSubsetOrdering
  <2>3. QED  BY <1>2, <1>3, <2>2
<1>5. QED  BY <1>4

\* Induction, over a set.
LEMMA SetInduction ==
  ASSUME NEW S, 0 \in S, \A n \in Nat : n \in S => n + 1 \in S
  PROVE  Nat \subseteq S
<1> SUFFICES ASSUME Nat \ S # {} PROVE FALSE
  OBVIOUS
<1>1. PICK n \in Nat \ S : \A m \in Nat \ S : n <= m
  BY LeastElement
<1>2. n - 1 \in Nat /\ n - 1 \in S
  BY <1>1
<1>3. QED  BY <1>1, <1>2

\* The same, for the places of a list.
LEMMA UpTo ==
  ASSUME NEW N \in Nat, NEW S, 0 \in S, \A n \in 0..N - 1 : n \in S => n + 1 \in S
  PROVE  0..N \subseteq S
<1> DEFINE T == {n \in Nat : n <= N => n \in S}
<1>1. 0 \in T /\ \A n \in Nat : n \in T => n + 1 \in T
  OBVIOUS
<1> HIDE DEF T
<1>2. Nat \subseteq T
  BY <1>1, SetInduction
<1>3. QED  BY <1>2 DEF T

\* The running sums of a list.
Running(g, f, n) == g = [k \in 0..n |-> IF k = 0 THEN 0 ELSE g[k - 1] + f[k]]

LEMMA RunningExist == ASSUME NEW f, NEW n \in Nat PROVE \E g : Running(g, f, n)
<1> DEFINE S == {m \in Nat : \E g : Running(g, f, m)}
<1>1. 0 \in S
  <2>1. Running([k \in 0..0 |-> 0], f, 0)
    BY DEF Running
  <2>2. QED  BY <2>1
<1>2. \A m \in Nat : m \in S => m + 1 \in S
  <2> SUFFICES ASSUME NEW m \in Nat, NEW g, Running(g, f, m) PROVE m + 1 \in S
    OBVIOUS
  <2> DEFINE h == [k \in 0..m + 1 |-> IF k = m + 1 THEN g[m] + f[k] ELSE g[k]]
  <2>1. \A k \in 0..m : g[k] = IF k = 0 THEN 0 ELSE g[k - 1] + f[k]
    BY DEF Running
  <2>2. \A k \in 0..m + 1 : h[k] = IF k = 0 THEN 0 ELSE h[k - 1] + f[k]
    BY <2>1
  <2>3. Running(h, f, m + 1)
    BY <2>2 DEF Running
  <2>4. QED  BY <2>3
<1> HIDE DEF S
<1>3. n \in S
  BY <1>1, <1>2, SetInduction
<1>4. QED  BY <1>3 DEF S

LEMMA RunningAgree ==
  ASSUME NEW n \in Nat, NEW f, NEW e, NEW g, NEW h, Running(g, f, n), Running(h, e, n),
         \A k \in 1..n : e[k] = f[k]
  PROVE  g[n] = h[n]
<1> DEFINE S == {k \in Nat : g[k] = h[k]}
<1>1. \A k \in 0..n : g[k] = IF k = 0 THEN 0 ELSE g[k - 1] + f[k]
  BY DEF Running
<1>2. \A k \in 0..n : h[k] = IF k = 0 THEN 0 ELSE h[k - 1] + e[k]
  BY DEF Running
<1>3. 0 \in S /\ \A k \in 0..n - 1 : k \in S => k + 1 \in S
  BY <1>1, <1>2
<1> HIDE DEF S
<1>4. n \in S
  BY <1>3, UpTo
<1>5. QED  BY <1>4 DEF S

LEMMA RunningShorter ==
  ASSUME NEW n \in Nat, NEW f, NEW g, Running(g, f, n + 1)
  PROVE  Running([k \in 0..n |-> g[k]], f, n) /\ g[n + 1] = g[n] + f[n + 1]
<1>1. \A k \in 0..n + 1 : g[k] = IF k = 0 THEN 0 ELSE g[k - 1] + f[k]
  BY DEF Running
<1> DEFINE h == [k \in 0..n |-> g[k]]
<1>2. \A k \in 0..n : h[k] = IF k = 0 THEN 0 ELSE h[k - 1] + f[k]
  BY <1>1
<1>3. Running(h, f, n)
  BY <1>2 DEF Running
<1>4. QED  BY <1>1, <1>3

LEMMA SumRuns == ASSUME NEW f, NEW n \in Nat PROVE \E g : Running(g, f, n) /\ SumTo(f, n) = g[n]
<1> DEFINE g == CHOOSE g : Running(g, f, n)
<1>1. Running(g, f, n)
  BY RunningExist
<1>2. SumTo(f, n) = g[n]
  BY DEF SumTo, Running
<1>3. QED  BY <1>1, <1>2

\* Nothing sums up to 0, and the sum of one more is the sum and one more.
LEMMA SumNone == \A f : SumTo(f, 0) = 0
<1> SUFFICES ASSUME NEW f PROVE SumTo(f, 0) = 0
  OBVIOUS
<1>1. PICK g : Running(g, f, 0) /\ SumTo(f, 0) = g[0]
  BY SumRuns
<1>2. QED  BY <1>1 DEF Running

LEMMA SumNext == ASSUME NEW f, NEW n \in Nat PROVE SumTo(f, n + 1) = SumTo(f, n) + f[n + 1]
<1>1. PICK g : Running(g, f, n) /\ SumTo(f, n) = g[n]
  BY SumRuns
<1>2. PICK h : Running(h, f, n + 1) /\ SumTo(f, n + 1) = h[n + 1]
  BY SumRuns
<1> DEFINE e == [k \in 0..n |-> h[k]]
<1>3. Running(e, f, n) /\ h[n + 1] = h[n] + f[n + 1] /\ e[n] = h[n]
  BY <1>2, RunningShorter
<1> HIDE DEF e
<1>4. \A k \in 1..n : f[k] = f[k]
  OBVIOUS
<1>5. g[n] = e[n]
  BY <1>1, <1>3, <1>4, RunningAgree
<1>6. QED  BY <1>1, <1>2, <1>3, <1>5

\* A sum looks at no more than it says.
LEMMA SumSame ==
  ASSUME NEW n \in Nat, NEW f, NEW e, \A k \in 1..n : e[k] = f[k]
  PROVE  SumTo(e, n) = SumTo(f, n)
<1>1. PICK g : Running(g, f, n) /\ SumTo(f, n) = g[n]
  BY SumRuns
<1>2. PICK h : Running(h, e, n) /\ SumTo(e, n) = h[n]
  BY SumRuns
<1>3. QED  BY <1>1, <1>2, RunningAgree

LEMMA SumInt ==
  ASSUME NEW n \in Nat, NEW f, \A k \in 1..n : f[k] \in Int
  PROVE  SumTo(f, n) \in Int
<1> DEFINE S == {m \in Nat : SumTo(f, m) \in Int}
<1>1. 0 \in S
  BY SumNone
<1>2. \A m \in 0..n - 1 : m \in S => m + 1 \in S
  BY SumNext
<1> HIDE DEF S
<1>3. 0..n \subseteq S
  BY <1>1, <1>2, UpTo
<1>4. QED  BY <1>3 DEF S

\* A list that is nowhere above another has no larger sum.
LEMMA SumBelow ==
  ASSUME NEW n \in Nat, NEW f, NEW e, \A k \in 1..n : f[k] \in Int /\ e[k] \in Int /\ f[k] <= e[k]
  PROVE  SumTo(f, n) <= SumTo(e, n)
<1> DEFINE S == {m \in Nat : SumTo(f, m) <= SumTo(e, m)}
<1>1. 0 \in S
  BY SumNone
<1>2. \A m \in 0..n - 1 : m \in S => m + 1 \in S
  <2> SUFFICES ASSUME NEW m \in 0..n - 1, m \in S PROVE m + 1 \in S
    OBVIOUS
  <2>1. SumTo(f, m) \in Int /\ SumTo(e, m) \in Int /\ SumTo(f, m) <= SumTo(e, m)
    BY SumInt
  <2>2. SumTo(f, m + 1) = SumTo(f, m) + f[m + 1] /\ SumTo(e, m + 1) = SumTo(e, m) + e[m + 1]
    BY SumNext
  <2>3. QED  BY <2>1, <2>2
<1> HIDE DEF S
<1>3. 0..n \subseteq S
  BY <1>1, <1>2, UpTo
<1>4. QED  BY <1>3 DEF S

\* The sum of zeros is 0.
LEMMA SumZeros ==
  ASSUME NEW n \in Nat, NEW f, \A k \in 1..n : f[k] = 0
  PROVE  SumTo(f, n) = 0
<1> DEFINE S == {m \in Nat : SumTo(f, m) = 0}
<1>1. 0 \in S
  BY SumNone
<1>2. \A m \in 0..n - 1 : m \in S => m + 1 \in S
  BY SumNext
<1> HIDE DEF S
<1>3. 0..n \subseteq S
  BY <1>1, <1>2, UpTo
<1>4. QED  BY <1>3 DEF S

\* Two lists are added place by place.
LEMMA SumAdds ==
  ASSUME NEW n \in Nat, NEW f, NEW e, NEW h,
         \A k \in 1..n : f[k] \in Int /\ e[k] \in Int /\ h[k] = f[k] + e[k]
  PROVE  SumTo(h, n) = SumTo(f, n) + SumTo(e, n)
<1> DEFINE S == {m \in Nat : SumTo(h, m) = SumTo(f, m) + SumTo(e, m)}
<1>1. 0 \in S
  BY SumNone
<1>2. \A m \in 0..n - 1 : m \in S => m + 1 \in S
  <2> SUFFICES ASSUME NEW m \in 0..n - 1, m \in S PROVE m + 1 \in S
    OBVIOUS
  <2>1. SumTo(f, m) \in Int /\ SumTo(e, m) \in Int /\ SumTo(h, m) = SumTo(f, m) + SumTo(e, m)
    BY SumInt
  <2>2. /\ SumTo(f, m + 1) = SumTo(f, m) + f[m + 1] /\ SumTo(e, m + 1) = SumTo(e, m) + e[m + 1]
        /\ SumTo(h, m + 1) = SumTo(h, m) + h[m + 1]
    BY SumNext
  <2>3. QED  BY <2>1, <2>2
<1> HIDE DEF S
<1>3. 0..n \subseteq S
  BY <1>1, <1>2, UpTo
<1>4. QED  BY <1>3 DEF S

LEMMA TwoMin == ASSUME NEW a \in Int, NEW b \in Int PROVE Min({a, b}) = IF a <= b THEN a ELSE b
<1>1. Min({a, b}) \in {a, b} /\ \A y \in {a, b} : Min({a, b}) <= y
  BY DEF Min
<1>2. QED  BY <1>1

LEMMA TwoMax == ASSUME NEW a \in Int, NEW b \in Int PROVE Max({a, b}) = IF a >= b THEN a ELSE b
<1>1. Max({a, b}) \in {a, b} /\ \A y \in {a, b} : Max({a, b}) >= y
  BY DEF Max
<1>2. QED  BY <1>1

LEMMA GreatestElement ==
  ASSUME NEW N \in Nat, NEW S, S \subseteq 0..N, S # {}
  PROVE  Max(S) \in S /\ \A y \in S : Max(S) >= y
<1> DEFINE T == {N - x : x \in S}
<1>1. T \subseteq Nat /\ T # {}
  <2>1. \A x \in S : N - x \in Nat
    OBVIOUS
  <2>2. PICK x \in S : TRUE
    OBVIOUS
  <2>3. N - x \in T
    BY <2>2
  <2>4. QED  BY <2>1, <2>3
<1>2. PICK t \in T : \A u \in T : t <= u
  <2> HIDE DEF T
  <2>1. QED  BY <1>1, LeastElement
<1>3. PICK x \in S : t = N - x
  OBVIOUS
<1>4. \A y \in S : x >= y
  <2> SUFFICES ASSUME NEW y \in S PROVE x >= y
    OBVIOUS
  <2>1. N - y \in T /\ x \in 0..N /\ y \in 0..N
    OBVIOUS
  <2>2. N - x <= N - y
    BY <1>2, <1>3, <2>1
  <2>3. QED  BY <2>1, <2>2
<1>5. QED  BY <1>4 DEF Max

LEMMA SmallestElement ==
  ASSUME NEW S, S \subseteq Nat, S # {}
  PROVE  Min(S) \in S /\ \A y \in S : Min(S) <= y
  BY LeastElement DEF Min

\* More bins hold no less.
LEMMA SumNat ==
  ASSUME NEW n \in Nat, NEW f, \A k \in 1..n : f[k] \in Nat
  PROVE  \A m \in 0..n : SumTo(f, m) \in Nat
<1> DEFINE S == {m \in Nat : SumTo(f, m) \in Nat}
<1>1. 0 \in S
  BY SumNone
<1>2. \A m \in 0..n - 1 : m \in S => m + 1 \in S
  <2> SUFFICES ASSUME NEW m \in 0..n - 1, m \in S PROVE m + 1 \in S
    OBVIOUS
  <2>1. SumTo(f, m + 1) = SumTo(f, m) + f[m + 1]
    BY SumNext
  <2>2. QED  BY <2>1
<1> HIDE DEF S
<1>3. 0..n \subseteq S
  BY <1>1, <1>2, UpTo
<1>4. QED  BY <1>3 DEF S

LEMMA SumGrows ==
  ASSUME NEW n \in Nat, NEW f, \A k \in 1..n : f[k] \in Nat, NEW a \in 0..n, NEW b \in 0..n, a <= b
  PROVE  SumTo(f, a) \in Nat /\ SumTo(f, b) \in Nat /\ SumTo(f, a) <= SumTo(f, b)
<1> DEFINE S == {m \in Nat : SumTo(f, m) \in Nat /\ (a <= m => SumTo(f, a) <= SumTo(f, m))}
<1>4. \A m \in 0..n : SumTo(f, m) \in Nat
  BY SumNat
<1>1. 0 \in S
  BY SumNone
<1>2. \A m \in 0..n - 1 : m \in S => m + 1 \in S
  <2> SUFFICES ASSUME NEW m \in 0..n - 1, m \in S PROVE m + 1 \in S
    OBVIOUS
  <2>1. SumTo(f, m + 1) = SumTo(f, m) + f[m + 1]
    BY SumNext
  <2>2. f[m + 1] \in Nat
    OBVIOUS
  <2>3. CASE a = m + 1
    BY <2>1, <2>2, <2>3
  <2>4. CASE a # m + 1
    <3>1. a <= m + 1 => a <= m
      BY <2>4
    <3>2. SumTo(f, m) \in Nat /\ (a <= m => SumTo(f, a) <= SumTo(f, m))
      OBVIOUS
    <3>3. PICK x \in Nat, y \in Nat : x = SumTo(f, m) /\ y = SumTo(f, m + 1) /\ x <= y
      BY <2>1, <2>2, <3>2
    <3>4. a <= m => SumTo(f, a) \in Nat
      BY <1>4
    <3>5. a <= m + 1 => SumTo(f, a) <= y
      BY <3>1, <3>2, <3>3, <3>4
    <3>6. QED  BY <3>3, <3>5
  <2>5. QED  BY <2>3, <2>4
<1> HIDE DEF S
<1>3. 0..n \subseteq S
  BY <1>1, <1>2, UpTo
<1>5. a \in S /\ b \in S
  BY <1>3
<1>6. QED  BY <1>5 DEF S

\* No sum is more than as many of the highest.
LEMMA SumAtMost ==
  ASSUME NEW n \in Nat, NEW f, NEW c \in Nat, \A k \in 1..n : f[k] \in Nat /\ f[k] <= c
  PROVE  SumTo(f, n) <= n * c
<1> DEFINE S == {m \in Nat : SumTo(f, m) \in Nat /\ SumTo(f, m) <= m * c}
<1>1. 0 \in S
  BY SumNone
<1>2. \A m \in 0..n - 1 : m \in S => m + 1 \in S
  <2> SUFFICES ASSUME NEW m \in 0..n - 1, m \in S PROVE m + 1 \in S
    OBVIOUS
  <2>1. SumTo(f, m + 1) = SumTo(f, m) + f[m + 1]
    BY SumNext
  <2>2. f[m + 1] \in Nat /\ f[m + 1] <= c
    OBVIOUS
  <2>3. (m + 1) * c = m * c + c
    OBVIOUS
  <2>4. m * c \in Nat
    OBVIOUS
  <2>5. PICK x \in Nat, y \in Nat : x = m * c /\ y = (m + 1) * c /\ y = x + c
    BY <2>3, <2>4
  <2>6. SumTo(f, m) \in Nat /\ SumTo(f, m) <= x
    BY <2>5
  <2>7. SumTo(f, m + 1) \in Nat /\ SumTo(f, m + 1) <= y
    BY <2>1, <2>2, <2>5, <2>6
  <2>8. QED  BY <2>5, <2>7
<1> HIDE DEF S
<1>3. 0..n \subseteq S /\ n \in 0..n
  BY <1>1, <1>2, UpTo
<1>4. n \in S
  BY <1>3
<1>5. QED  BY <1>4 DEF S

\* What follows the last number that counts adds nothing.
LEMMA SumPrefix ==
  ASSUME NEW n \in Nat, NEW m \in 0..n, NEW f, \A k \in 1..n : f[k] \in Int, \A k \in m + 1..n : f[k] = 0
  PROVE  SumTo(f, n) = SumTo(f, m)
<1> DEFINE S == {j \in Nat : m <= j => SumTo(f, j) = SumTo(f, m)}
<1>1. 0 \in S
  OBVIOUS
<1>2. \A j \in 0..n - 1 : j \in S => j + 1 \in S
  <2> SUFFICES ASSUME NEW j \in 0..n - 1, j \in S, m <= j + 1 PROVE SumTo(f, j + 1) = SumTo(f, m)
    OBVIOUS
  <2>1. CASE m = j + 1
    BY <2>1
  <2>2. CASE m # j + 1
    <3>1. m <= j /\ j + 1 \in m + 1..n
      BY <2>2
    <3>2. SumTo(f, j) = SumTo(f, m) /\ f[j + 1] = 0
      BY <3>1
    <3>3. SumTo(f, j) \in Int
      <4>1. \A k \in 1..j : f[k] \in Int
        OBVIOUS
      <4>2. QED  BY <4>1, SumInt
    <3>4. QED  BY <3>2, <3>3, SumNext
  <2>3. QED  BY <2>1, <2>2
<1> HIDE DEF S
<1>3. 0..n \subseteq S /\ n \in 0..n
  BY <1>1, <1>2, UpTo
<1>4. n \in S
  BY <1>3
<1>5. QED  BY <1>4 DEF S

\* The running maxima of a list.
Peaks(g, f, n) == g = [k \in 0..n |-> IF k = 0 THEN f[0] ELSE Higher(g[k - 1], f[k])]

LEMMA PeaksExist == ASSUME NEW f, NEW n \in Nat PROVE \E g : Peaks(g, f, n)
<1> DEFINE S == {m \in Nat : \E g : Peaks(g, f, m)}
<1>1. 0 \in S
  <2>1. Peaks([k \in 0..0 |-> f[0]], f, 0)
    BY DEF Peaks
  <2>2. QED  BY <2>1
<1>2. \A m \in Nat : m \in S => m + 1 \in S
  <2> SUFFICES ASSUME NEW m \in Nat, NEW g, Peaks(g, f, m) PROVE m + 1 \in S
    OBVIOUS
  <2> DEFINE h == [k \in 0..m + 1 |-> IF k = m + 1 THEN Higher(g[m], f[k]) ELSE g[k]]
  <2>1. \A k \in 0..m : g[k] = IF k = 0 THEN f[0] ELSE Higher(g[k - 1], f[k])
    BY DEF Peaks
  <2>2. \A k \in 0..m + 1 : h[k] = IF k = 0 THEN f[0] ELSE Higher(h[k - 1], f[k])
    BY <2>1
  <2>3. Peaks(h, f, m + 1)
    BY <2>2 DEF Peaks
  <2>4. QED  BY <2>3
<1> HIDE DEF S
<1>3. n \in S
  BY <1>1, <1>2, SetInduction
<1>4. QED  BY <1>3 DEF S

\* The highest is one of the numbers, and none is higher.
LEMMA MaxToIs ==
  ASSUME NEW n \in Nat, NEW f, \A k \in 0..n : f[k] \in Int
  PROVE  /\ \E k \in 0..n : MaxTo(f, n) = f[k]
         /\ \A k \in 0..n : MaxTo(f, n) >= f[k]
<1> DEFINE g == CHOOSE g : Peaks(g, f, n)
<1>1. Peaks(g, f, n)
  BY PeaksExist
<1>2. MaxTo(f, n) = g[n]
  BY DEF MaxTo, Peaks
<1>3. \A k \in 0..n : g[k] = IF k = 0 THEN f[0] ELSE Higher(g[k - 1], f[k])
  BY <1>1 DEF Peaks
<1> HIDE DEF g
<1> DEFINE S == {m \in Nat : (\E k \in 0..m : g[m] = f[k]) /\ (\A k \in 0..m : g[m] >= f[k])}
<1>4. 0 \in S
  BY <1>3
<1>5. \A m \in 0..n - 1 : m \in S => m + 1 \in S
  <2> SUFFICES ASSUME NEW m \in 0..n - 1, m \in S PROVE m + 1 \in S
    OBVIOUS
  <2>1. PICK j \in 0..m : g[m] = f[j] /\ \A k \in 0..m : g[m] >= f[k]
    OBVIOUS
  <2>2. g[m + 1] = Higher(g[m], f[m + 1])
    BY <1>3
  <2>3. PICK a \in Int, b \in Int : a = g[m] /\ b = f[m + 1]
    BY <2>1
  <2>4. g[m + 1] >= a /\ g[m + 1] >= b /\ (g[m + 1] = a \/ g[m + 1] = b)
    BY <2>2, <2>3 DEF Higher
  <2>5. \A k \in 0..m + 1 : k = m + 1 \/ k \in 0..m
    OBVIOUS
  <2>6. g[m + 1] \in Int
    BY <2>3, <2>4
  <2>7. \A k \in 0..m + 1 : g[m + 1] >= f[k]
    <3>1. \A k \in 0..m : f[k] \in Int /\ a >= f[k]
      BY <2>1, <2>3
    <3>2. QED  BY <2>3, <2>4, <2>5, <2>6, <3>1
  <2>8. \E k \in 0..m + 1 : g[m + 1] = f[k]
    <3>1. j \in 0..m + 1 /\ m + 1 \in 0..m + 1
      OBVIOUS
    <3>2. QED  BY <2>1, <2>3, <2>4, <3>1
  <2>9. QED  BY <2>7, <2>8
<1> HIDE DEF S
<1>6. 0..n \subseteq S /\ n \in 0..n
  BY <1>4, <1>5, UpTo
<1>7. n \in S
  BY <1>6
<1>8. QED  BY <1>2, <1>7 DEF S

LEMMA MaxIs ==
  ASSUME NEW S, S \subseteq Int, NEW m \in S, \A y \in S : m >= y
  PROVE  Max(S) = m
<1>1. \E x \in S : \A y \in S : x >= y
  OBVIOUS
<1>2. Max(S) \in S /\ \A y \in S : Max(S) >= y
  BY <1>1 DEF Max
<1>3. PICK a \in Int, b \in Int : a = Max(S) /\ b = m
  BY <1>2
<1>4. a >= b /\ b >= a
  BY <1>2, <1>3
<1>5. a = b
  BY <1>4
<1>6. QED  BY <1>3, <1>5

\* A list of pages ends within a page.
LEMMA Quotient ==
  ASSUME NEW a \in Nat, NEW b \in Nat \ {0}
  PROVE  a \div b \in Nat /\ (a \div b) * b <= a /\ a < (a \div b) * b + b
  OBVIOUS

-----------------------------------------------------------------------------
(* Requests: the rate limiter and the gate.                                *)

-----------------------------------------------------------------------------
(* The rate limiter.                                                       *)

\* Of the hits that Redis admitted within a window of ticks, those of the last k ticks
\* belong to the present key, whose counter they do not exceed, and those before to one
\* other key at most.
Split(k) ==
  /\ k \in 0..Window
  /\ SumTo(past, k) + (IF calling = {} THEN 0 ELSE 1) <= Limit
  /\ SumTo(past, k) + (IF calling = {} THEN 0 ELSE 1) <= count
  /\ Total(past) - SumTo(past, k) <= Limit
  /\ ttl > 0 => k = Window - ttl + 1
  /\ count > 0 => k > 0
  /\ count = 0 => past[1] = 0
  /\ calling # {} => k = 1

LimiterInv ==
  /\ limiter \in [Replicas -> {"down", "memory", "redis"}]
  /\ bucket \in [Replicas -> [Ages -> Nat]] /\ past \in [Ages -> Nat] /\ missed \in [Ages -> Nat]
  /\ count \in 0..(Limit + 1) /\ ttl \in 0..Window /\ calling \subseteq Replicas
  /\ errors \in 0..MaxErrors /\ stranded \in BOOLEAN
  /\ Total(missed) <= errors
  /\ \A r \in Replicas : Total(bucket[r]) <= Limit
  /\ \A r, q \in calling : r = q
  /\ calling # {} => ttl = 0 /\ count > 0
  /\ count = 0 => ttl = 0
  /\ count > 0 /\ calling = {} /\ ~stranded => ttl > 0
  /\ \E k \in 0..Window : Split(k)

LEMMA TotalHit ==
  ASSUME NEW b \in [Ages -> Nat]
  PROVE  /\ Hit(b) \in [Ages -> Nat]
         /\ \A k \in 1..Window : SumTo(Hit(b), k) = SumTo(b, k) + 1
         /\ SumTo(Hit(b), 0) = 0
         /\ Hit(b)[1] = b[1] + 1
<1> DEFINE one == [a \in Ages |-> IF a = 1 THEN 1 ELSE 0]
<1>1. Window \in Nat /\ Window >= 1 /\ Ages = 1..Window
  BY GateAssumption DEF Ages
<1>2. Hit(b) \in [Ages -> Nat] /\ Hit(b)[1] = b[1] + 1
  BY <1>1 DEF Hit
<1>3. \A a \in 1..Window : b[a] \in Int /\ one[a] \in Int /\ Hit(b)[a] = b[a] + one[a]
  BY <1>1 DEF Hit
<1>7. one[1] = 1 /\ \A k \in 1..Window - 1 : one[k + 1] = 0
  BY <1>1
<1> HIDE DEF one
<1>4. \A k \in 0..Window : SumTo(Hit(b), k) = SumTo(b, k) + SumTo(one, k)
  <2> SUFFICES ASSUME NEW k \in 0..Window PROVE SumTo(Hit(b), k) = SumTo(b, k) + SumTo(one, k)
    OBVIOUS
  <2>1. k \in Nat /\ \A a \in 1..k : b[a] \in Int /\ one[a] \in Int /\ Hit(b)[a] = b[a] + one[a]
    BY <1>1, <1>3
  <2>2. QED  BY <2>1, SumAdds
<1>5. \A k \in 1..Window : SumTo(one, k) = 1
  <2> DEFINE S == {k \in Nat : k > 0 => SumTo(one, k) = 1}
  <2>1. \A k \in 0..Window - 1 : SumTo(one, k + 1) = SumTo(one, k) + one[k + 1]
    BY SumNext
  <2>3. 0 \in S
    OBVIOUS
  <2>4. \A k \in 0..Window - 1 : k \in S => k + 1 \in S
    BY <1>7, <2>1, SumNone
  <2> HIDE DEF S
  <2>5. 0..Window \subseteq S
    BY <1>1, <2>3, <2>4, UpTo
  <2>6. QED  BY <2>5 DEF S
<1>6. QED  BY <1>1, <1>2, <1>4, <1>5, SumNone

LEMMA TotalOlder ==
  ASSUME NEW b \in [Ages -> Nat]
  PROVE  /\ Older(b) \in [Ages -> Nat]
         /\ \A k \in 0..Window - 1 : SumTo(Older(b), k + 1) = SumTo(b, k)
         /\ Older(b)[1] = 0
<1>1. Window \in Nat /\ Window >= 1 /\ Ages = 1..Window
  BY GateAssumption DEF Ages
<1>2. Older(b) \in [Ages -> Nat] /\ Older(b)[1] = 0
  BY <1>1 DEF Older
<1> DEFINE S == {k \in Nat : SumTo(Older(b), k + 1) = SumTo(b, k)}
<1>3. 0 \in S
  <2>1. SumTo(Older(b), 0 + 1) = SumTo(Older(b), 0) + Older(b)[0 + 1]
    BY SumNext
  <2>2. QED  BY <1>2, <2>1, SumNone
<1>4. \A k \in 0..Window - 2 : k \in S => k + 1 \in S
  <2> SUFFICES ASSUME NEW k \in 0..Window - 2, k \in S PROVE k + 1 \in S
    OBVIOUS
  <2>1. SumTo(Older(b), k + 1) = SumTo(b, k) /\ k \in Nat /\ k + 1 \in Nat
    BY <1>1
  <2>2. SumTo(Older(b), (k + 1) + 1) = SumTo(Older(b), k + 1) + Older(b)[(k + 1) + 1]
    BY <2>1, SumNext
  <2>3. SumTo(b, k + 1) = SumTo(b, k) + b[k + 1]
    BY <2>1, SumNext
  <2>4. Older(b)[(k + 1) + 1] = b[k + 1]
    BY <1>1 DEF Older
  <2>5. QED  BY <2>1, <2>2, <2>3, <2>4
<1> HIDE DEF S
<1>5. 0..Window - 1 \subseteq S
  <2>1. PICK w \in Nat : w = Window - 1
    BY <1>1
  <2>2. \A k \in 0..w - 1 : k \in S => k + 1 \in S
    BY <1>1, <1>4, <2>1
  <2>3. 0..w \subseteq S
    BY <1>3, <2>2, UpTo
  <2>4. QED  BY <2>1, <2>3
<1>6. QED  BY <1>2, <1>5 DEF S

LEMMA TotalsGrow ==
  ASSUME NEW b \in [Ages -> Nat]
  PROVE  /\ \A k \in 0..Window : SumTo(b, k) \in Nat
         /\ \A k \in 0..Window - 1 : SumTo(b, k) <= SumTo(b, k + 1)
         /\ \A k \in 0..Window : SumTo(b, k) <= Total(b)
<1>1. Window \in Nat /\ Window >= 1 /\ Ages = 1..Window
  BY GateAssumption DEF Ages
<1>2. \A k \in 0..Window - 1 : SumTo(b, k + 1) = SumTo(b, k) + b[k + 1] /\ b[k + 1] \in Nat
  BY <1>1, SumNext
<1>3. \A k \in 0..Window : SumTo(b, k) \in Nat
  <2> DEFINE S == {k \in Nat : SumTo(b, k) \in Nat}
  <2>1. 0 \in S /\ \A k \in 0..Window - 1 : k \in S => k + 1 \in S
    BY <1>2, SumNone
  <2> HIDE DEF S
  <2>2. 0..Window \subseteq S
    BY <1>1, <2>1, UpTo
  <2>3. QED  BY <2>2 DEF S
<1>4. \A k \in 0..Window : SumTo(b, k) <= SumTo(b, Window)
  <2> DEFINE S == {k \in Nat : k <= Window => SumTo(b, Window - k) <= SumTo(b, Window)}
  <2>1. 0 \in S
    BY <1>1, <1>3
  <2>2. \A k \in 0..Window - 1 : k \in S => k + 1 \in S
    <3> SUFFICES ASSUME NEW k \in 0..Window - 1, k \in S PROVE k + 1 \in S
      OBVIOUS
    <3>1. PICK m \in 0..Window - 1 : m + 1 = Window - k /\ m = Window - (k + 1)
      BY <1>1
    <3>2. SumTo(b, m) <= SumTo(b, m + 1) /\ SumTo(b, m + 1) <= SumTo(b, Window)
      BY <1>1, <1>2, <1>3, <3>1
    <3>3. QED  BY <1>1, <1>3, <3>1, <3>2
  <2> HIDE DEF S
  <2>3. 0..Window \subseteq S
    BY <1>1, <2>1, <2>2, UpTo
  <2>4. \A k \in 0..Window : Window - k \in S /\ Window - (Window - k) = k
    BY <1>1, <2>3
  <2>5. QED  BY <1>1, <2>4 DEF S
<1>5. QED  BY <1>1, <1>2, <1>3, <1>4 DEF Total

-----------------------------------------------------------------------------
LEMMA LimiterInitOK == LimiterInit => LimiterInv
<1> SUFFICES ASSUME LimiterInit PROVE LimiterInv
  OBVIOUS
<1>1. Window \in Nat /\ Window >= 1 /\ Ages = 1..Window /\ Limit \in Nat /\ Limit >= 1 /\ MaxErrors \in Nat
  BY GateAssumption DEF Ages
<1>2. NoHits \in [Ages -> Nat] /\ \A k \in 1..Window : NoHits[k] = 0
  BY <1>1 DEF NoHits
<1>3. \A k \in 0..Window : SumTo(NoHits, k) = 0
  BY <1>1, <1>2, SumZeros
<1>4. Split(0)
  BY <1>1, <1>2, <1>3 DEF LimiterInit, Split, Total
<1>5. \A r \in Replicas : bucket[r] = NoHits /\ Total(bucket[r]) = 0
  BY <1>1, <1>3 DEF LimiterInit, Total
<1>6. \E k \in 0..Window : Split(k)
  BY <1>1, <1>4
<1>7. /\ limiter \in [Replicas -> {"down", "memory", "redis"}] /\ stranded \in BOOLEAN /\ stranded = FALSE
  BY DEF LimiterInit
<1>8. /\ bucket \in [Replicas -> [Ages -> Nat]] /\ past \in [Ages -> Nat] /\ count = 0 /\ ttl = 0
      /\ missed \in [Ages -> Nat] /\ Total(missed) = 0 /\ calling = {} /\ errors = 0
  BY <1>1, <1>2, <1>3 DEF LimiterInit, Total
<1>9. QED  BY <1>1, <1>5, <1>6, <1>7, <1>8 DEF LimiterInv

\* What leaves the key and the hits of Redis alone.
LEMMA SplitStays ==
  ASSUME UNCHANGED <<past, count, ttl, calling>>, NEW k, Split(k)
  PROVE  Split(k)'
  BY DEF Split, Total

LEMMA StartReplicaOK ==
  ASSUME LimiterInv, NEW r \in Replicas, NEW backend \in {"memory", "redis"}, StartReplica(r, backend)
  PROVE  LimiterInv'
<1>1. /\ limiter' = [limiter EXCEPT ![r] = backend]
      /\ UNCHANGED <<bucket, count, ttl, calling, past, missed, errors, stranded>>
  BY DEF StartReplica
<1>2. PICK k \in 0..Window : Split(k)'
  BY <1>1, SplitStays DEF LimiterInv
<1>3. QED  BY <1>1, <1>2 DEF LimiterInv

LEMMA AllowInMemoryOK ==
  ASSUME LimiterInv, NEW r \in Replicas, AllowInMemory(r)
  PROVE  LimiterInv'
<1>1. /\ Total(bucket[r]) < Limit /\ bucket' = [bucket EXCEPT ![r] = Hit(bucket[r])]
      /\ UNCHANGED <<limiter, count, ttl, calling, past, missed, errors, stranded>>
  BY DEF AllowInMemory
<1>2. bucket[r] \in [Ages -> Nat] /\ Window \in 1..Window /\ Limit \in Nat
  BY GateAssumption DEF LimiterInv
<1>3. Hit(bucket[r]) \in [Ages -> Nat] /\ Total(Hit(bucket[r])) = Total(bucket[r]) + 1
  BY <1>2, TotalHit DEF Total
<1>4. Total(bucket[r]) \in Nat
  BY <1>2, TotalsGrow DEF Total
<1>5. bucket' \in [Replicas -> [Ages -> Nat]] /\ \A q \in Replicas : Total(bucket'[q]) <= Limit
  BY <1>1, <1>2, <1>3, <1>4 DEF LimiterInv
<1>6. PICK k \in 0..Window : Split(k)'
  BY <1>1, SplitStays DEF LimiterInv
<1>7. QED  BY <1>1, <1>5, <1>6 DEF LimiterInv

\* A hit of the present key.
LEMMA SplitHit ==
  ASSUME past \in [Ages -> Nat], past' = Hit(past), NEW k \in 1..Window
  PROVE  /\ past' \in [Ages -> Nat]
         /\ SumTo(past', k) = SumTo(past, k) + 1 /\ Total(past') = Total(past) + 1
         /\ SumTo(past, k) \in Nat /\ Total(past) \in Nat
<1>1. Window \in 1..Window /\ k \in 0..Window /\ Window \in 0..Window
  BY GateAssumption
<1>2. QED  BY <1>1, TotalHit, TotalsGrow DEF Total

LEMMA IncrFirstOK ==
  ASSUME LimiterInv, NEW r \in Replicas, IncrFirst(r)
  PROVE  LimiterInv'
<1>1. /\ count = 0 /\ count' = 1 /\ calling' = calling \union {r} /\ r \notin calling
      /\ UNCHANGED <<limiter, bucket, ttl, past, missed, errors, stranded>>
  BY GateAssumption DEF IncrFirst, Counted
<1>2. calling = {} /\ ttl = 0 /\ past[1] = 0 /\ past \in [Ages -> Nat]
  BY <1>1 DEF LimiterInv, Split
<1>3. PICK k \in 0..Window : Split(k)
  BY DEF LimiterInv
<1>4. Window \in Nat /\ Window >= 1 /\ Limit \in Nat /\ Limit >= 1 /\ 1 \in Ages
  BY GateAssumption DEF Ages
<1>5. SumTo(past, 0) = 0 /\ SumTo(past, 1) = 0
  <2>1. SumTo(past, 0 + 1) = SumTo(past, 0) + past[0 + 1]
    BY SumNext
  <2>2. QED  BY <1>2, <2>1, SumNone
<1>6. SumTo(past, k) = 0 /\ Total(past) \in Nat
  BY <1>1, <1>2, <1>3, <1>4, TotalsGrow DEF Split, Total
<1>7. Split(1)'
  BY <1>1, <1>2, <1>3, <1>4, <1>5, <1>6 DEF Split, Total
<1>8. QED  BY <1>1, <1>2, <1>4, <1>7 DEF LimiterInv

\* The count fails: a key in Redis may be a hit older, or new and without its expiry.
LEMMA IncrFailsOK ==
  ASSUME LimiterInv, NEW r \in Replicas, IncrFails(r)
  PROVE  LimiterInv'
<1>1. /\ errors < MaxErrors /\ errors' = errors + 1 /\ missed' = Hit(missed)
      /\ \/ UNCHANGED <<count, stranded>>
         \/ count' = Counted /\ stranded' = (stranded \/ count = 0)
      /\ UNCHANGED <<limiter, bucket, ttl, calling, past>>
  BY DEF IncrFails
<1>2. /\ Window \in Nat /\ Window >= 1 /\ Limit \in Nat /\ Limit >= 1 /\ MaxErrors \in Nat
      /\ count \in 0..Limit + 1 /\ errors \in 0..MaxErrors
      /\ past \in [Ages -> Nat] /\ missed \in [Ages -> Nat] /\ Total(missed) <= errors
  BY GateAssumption DEF LimiterInv
<1>3. /\ missed' \in [Ages -> Nat] /\ Total(missed') <= errors' /\ errors' \in 0..MaxErrors
  <2>1. Window \in 1..Window /\ Window \in 0..Window
    BY <1>2
  <2>2. Total(missed') = Total(missed) + 1 /\ Total(missed) \in Nat /\ missed' \in [Ages -> Nat]
    BY <1>1, <1>2, <2>1, TotalHit, TotalsGrow DEF Total
  <2>3. QED  BY <1>1, <1>2, <2>2
<1>4. PICK k \in 0..Window : Split(k)
  BY DEF LimiterInv
<1>5. CASE UNCHANGED <<count, stranded>>
  <2>1. Split(k)'
    BY <1>1, <1>4, <1>5, SplitStays
  <2>2. QED  BY <1>1, <1>3, <1>5, <2>1 DEF LimiterInv
<1>6. CASE count' = Counted /\ stranded' = (stranded \/ count = 0)
  <2>1. count' \in 1..Limit + 1 /\ count' >= count /\ (count = 0 => count' = 1)
    BY <1>2, <1>6 DEF Counted
  <2>2. \E m \in 0..Window : Split(m)'
    <3>1. \A m \in 0..Window : SumTo(past, m) \in Nat
      BY <1>2, TotalsGrow
    <3>2. CASE count = 0
      <4>1. calling = {} /\ ttl = 0 /\ past[1] = 0
        BY <1>4, <3>2 DEF LimiterInv, Split
      <4>2. SumTo(past, 1) = 0 /\ 1 \in 0..Window
        <5>1. SumTo(past, 0 + 1) = SumTo(past, 0) + past[0 + 1]
          BY SumNext
        <5>2. QED  BY <1>2, <4>1, <5>1, SumNone
      <4>3. SumTo(past, k) = 0 /\ Total(past) \in Nat
        BY <1>2, <1>4, <3>1, <3>2, <4>1 DEF Split, Total
      <4>4. Split(1)'
        BY <1>1, <1>2, <1>4, <2>1, <3>2, <4>1, <4>2, <4>3 DEF Split, Total
      <4>5. QED  BY <4>2, <4>4
    <3>3. CASE count # 0
      <4>1. SumTo(past, k) \in Nat /\ Total(past) \in Nat
        BY <1>2, <3>1 DEF Total
      <4>2. Split(k)'
        BY <1>1, <1>2, <1>4, <2>1, <3>3, <4>1 DEF Split, Total
      <4>3. QED  BY <4>2
    <3>4. QED  BY <3>2, <3>3
  <2>3. /\ calling' # {} => ttl' = 0 /\ count' > 0
        /\ count' > 0 /\ calling' = {} /\ ~stranded' => ttl' > 0
        /\ stranded' \in BOOLEAN /\ count' \in 0..Limit + 1
    <3>1. /\ stranded \in BOOLEAN /\ ttl \in 0..Window
          /\ calling # {} => ttl = 0
          /\ count > 0 /\ calling = {} /\ ~stranded => ttl > 0
      BY DEF LimiterInv
    <3>2. stranded' \in BOOLEAN /\ (~stranded' => ~stranded /\ count > 0)
      <4>1. stranded' \in BOOLEAN /\ (~stranded' => ~stranded /\ count # 0)
        BY <1>6, <3>1, Zenon
      <4>2. QED  BY <1>2, <4>1
    <3>3. calling' = calling /\ ttl' = ttl /\ count' > 0
      BY <1>1, <1>2, <2>1
    <3>4. QED  BY <2>1, <3>1, <3>2, <3>3
  <2> HIDE DEF Split
  <2>4. QED  BY <1>1, <1>2, <1>3, <2>1, <2>2, <2>3 DEF LimiterInv
<1>7. QED  BY <1>1, <1>5, <1>6

LEMMA IncrAgainOK ==
  ASSUME LimiterInv, NEW r \in Replicas, IncrAgain(r)
  PROVE  LimiterInv'
<1>1. /\ count > 0 /\ count' = Counted /\ past' = (IF Counted <= Limit THEN Hit(past) ELSE past)
      /\ UNCHANGED <<limiter, bucket, ttl, calling, missed, errors, stranded>>
  BY DEF IncrAgain
<1>2. Window \in Nat /\ Window >= 1 /\ Limit \in Nat /\ Limit >= 1 /\ count \in 0..Limit + 1
  BY GateAssumption DEF LimiterInv
<1>3. PICK k \in 0..Window : Split(k)
  BY DEF LimiterInv
<1>4. k \in 1..Window /\ past \in [Ages -> Nat]
  BY <1>1, <1>2, <1>3 DEF Split, LimiterInv
<1>5. CASE Counted <= Limit
  <2>1. count' = count + 1 /\ count + 1 <= Limit /\ past' = Hit(past)
    BY <1>1, <1>2, <1>5 DEF Counted
  <2>2. /\ past' \in [Ages -> Nat] /\ SumTo(past', k) = SumTo(past, k) + 1 /\ Total(past') = Total(past) + 1
        /\ SumTo(past, k) \in Nat /\ Total(past) \in Nat
    BY <1>4, <2>1, SplitHit
  <2>3. Split(k)'
    BY <1>1, <1>2, <1>3, <1>4, <2>1, <2>2 DEF Split, Total
  <2>4. QED  BY <1>1, <1>2, <2>1, <2>2, <2>3 DEF LimiterInv
<1>6. CASE ~(Counted <= Limit)
  <2>1. past' = past /\ count' \in 1..Limit + 1 /\ count' >= count
    BY <1>1, <1>2, <1>6 DEF Counted
  <2>2. Split(k)'
    <3>1. SumTo(past, k) \in Nat /\ Total(past) \in Nat
      BY <1>2, <1>4, TotalsGrow DEF Total
    <3>2. QED  BY <1>1, <1>2, <1>3, <1>4, <2>1, <3>1 DEF Split, Total
  <2>3. QED  BY <1>1, <1>2, <2>1, <2>2 DEF LimiterInv
<1>7. QED  BY <1>5, <1>6

\* The second call, or its loss: the first hit is in, and nobody waits.
LEMMA SecondCallOK ==
  ASSUME LimiterInv, NEW r \in calling, calling' = calling \ {r}, past' = Hit(past), count' = count,
         ttl' \in {ttl, Window}
  PROVE  /\ calling' = {} /\ past' \in [Ages -> Nat] /\ count > 0
         /\ \E k \in 0..Window : Split(k)'
<1>1. calling' = {} /\ calling # {} /\ past \in [Ages -> Nat] /\ count > 0 /\ ttl = 0 /\ count \in 0..Limit + 1
  BY DEF LimiterInv
<1>2. Window \in Nat /\ Window >= 1 /\ Limit \in Nat /\ Limit >= 1
  BY GateAssumption
<1>3. Split(1)
  BY <1>1 DEF LimiterInv, Split
<1>4. /\ past' \in [Ages -> Nat] /\ SumTo(past', 1) = SumTo(past, 1) + 1 /\ Total(past') = Total(past) + 1
      /\ SumTo(past, 1) \in Nat /\ Total(past) \in Nat
  BY <1>1, <1>2, SplitHit
<1>5. Split(1)'
  <2>1. /\ SumTo(past, 1) + 1 <= Limit /\ SumTo(past, 1) + 1 <= count
        /\ Total(past) - SumTo(past, 1) <= Limit
    BY <1>1, <1>3 DEF Split
  <2>2. SumTo(past', 1) \in Int /\ SumTo(past', 1) <= Limit /\ SumTo(past', 1) <= count /\ Total(past') - SumTo(past', 1) <= Limit
    BY <1>1, <1>2, <1>4, <2>1
  <2>3. ttl' = 0 \/ ttl' = Window
    BY <1>1
  <2>4. (SumTo(past, 1))' = SumTo(past', 1) /\ Total(past)' = Total(past')
    BY DEF Total
  <2>5. 1 \in 0..Window /\ count' > 0
    BY <1>1, <1>2
  <2>6. ttl' > 0 => ttl' = Window
    BY <1>1, <1>2, <2>3
  <2>7. 1 = Window - Window + 1
    BY <1>2
  <2>8. ttl' > 0 => 1 = Window - ttl' + 1
    BY <2>6, <2>7
  <2>9. QED  BY <1>1, <2>2, <2>4, <2>5, <2>8 DEF Split
<1>6. 1 \in 0..Window
  BY <1>2
<1>7. QED  BY <1>1, <1>4, <1>5, <1>6

LEMMA PexpireOK ==
  ASSUME LimiterInv, NEW r \in Replicas, Pexpire(r)
  PROVE  LimiterInv'
<1>1. /\ r \in calling /\ calling' = calling \ {r} /\ ttl' = Window /\ past' = Hit(past)
      /\ UNCHANGED <<limiter, bucket, count, missed, errors, stranded>>
  BY DEF Pexpire
<1>2. calling' = {} /\ past' \in [Ages -> Nat] /\ count > 0 /\ \E k \in 0..Window : Split(k)'
  BY <1>1, SecondCallOK
<1>3. Window \in Nat /\ Window > 0
  BY GateAssumption
<1>4. QED  BY <1>1, <1>2, <1>3 DEF LimiterInv

\* A failure that lets nothing through uncounted.
LEMMA FailuresGrow ==
  ASSUME LimiterInv, errors < MaxErrors, errors' = errors + 1, missed' = missed
  PROVE  errors' \in 0..MaxErrors /\ Total(missed') <= errors'
<1>1. MaxErrors \in Nat /\ errors \in 0..MaxErrors /\ missed \in [Ages -> Nat] /\ Total(missed) <= errors
  BY GateAssumption DEF LimiterInv
<1>2. Window \in 0..Window
  BY GateAssumption
<1>3. Total(missed) \in Nat
  BY <1>1, <1>2, TotalsGrow DEF Total
<1>4. QED  BY <1>1, <1>3

LEMMA PexpireLostOK ==
  ASSUME LimiterInv, NEW r \in Replicas, PexpireLost(r)
  PROVE  LimiterInv'
<1>1. /\ r \in calling /\ calling' = calling \ {r} /\ ttl' = ttl /\ past' = Hit(past) /\ stranded' = TRUE
      /\ errors' = errors + 1 /\ errors < MaxErrors /\ UNCHANGED <<limiter, bucket, count, missed>>
  BY DEF PexpireLost
<1>2. calling' = {} /\ past' \in [Ages -> Nat] /\ count > 0 /\ \E k \in 0..Window : Split(k)'
  BY <1>1, SecondCallOK
<1>3. errors' \in 0..MaxErrors /\ Total(missed') <= errors'
  BY <1>1, FailuresGrow DEF LimiterInv
<1>4. QED  BY <1>1, <1>2, <1>3 DEF LimiterInv

LEMMA ReplicaDiesOK ==
  ASSUME LimiterInv, NEW r \in Replicas, ReplicaDies(r)
  PROVE  LimiterInv'
<1>1. /\ errors' = errors + 1 /\ errors < MaxErrors
      /\ limiter' = [limiter EXCEPT ![r] = "down"] /\ bucket' = [bucket EXCEPT ![r] = NoHits]
      /\ calling' = calling \ {r} /\ stranded' = (stranded \/ r \in calling)
      /\ UNCHANGED <<count, ttl, past, missed>>
  BY DEF ReplicaDies
<1>2. errors' \in 0..MaxErrors /\ Total(missed') <= errors'
  BY <1>1, FailuresGrow DEF LimiterInv
<1>3. Window \in Nat /\ Limit \in Nat /\ NoHits \in [Ages -> Nat] /\ \A k \in 1..Window : NoHits[k] = 0
  BY GateAssumption DEF NoHits, Ages
<1>4. Total(NoHits) = 0
  BY <1>3, SumZeros DEF Total
<1>5. bucket' \in [Replicas -> [Ages -> Nat]] /\ \A q \in Replicas : Total(bucket'[q]) <= Limit
  BY <1>1, <1>3, <1>4 DEF LimiterInv
<1>6. PICK k \in 0..Window : Split(k)
  BY DEF LimiterInv
<1>7. Split(k)'
  <2>1. SumTo(past, k) \in Nat /\ count \in Nat
    BY GateAssumption, TotalsGrow DEF LimiterInv
  <2>2. QED  BY <1>1, <1>3, <1>6, <2>1 DEF Split, Total
<1>8. /\ calling' \subseteq calling /\ stranded' \in BOOLEAN
      /\ (calling' = {} /\ ~stranded') => (calling = {} /\ ~stranded)
  BY <1>1 DEF LimiterInv
<1>9. limiter' \in [Replicas -> {"down", "memory", "redis"}]
  BY <1>1 DEF LimiterInv
<1> HIDE DEF Split
<1>10. QED  BY <1>1, <1>2, <1>5, <1>7, <1>8, <1>9 DEF LimiterInv

\* A tick: the present key is one tick older; if it expires, its hits are those before.
LEMMA TickOK == ASSUME LimiterInv, Tick PROVE LimiterInv'
<1>1. /\ calling = {} /\ calling' = {} /\ bucket' = [r \in Replicas |-> Older(bucket[r])]
      /\ past' = Older(past) /\ missed' = Older(missed) /\ ttl' = (IF ttl > 0 THEN ttl - 1 ELSE 0)
      /\ count' = (IF ttl = 1 THEN 0 ELSE count) /\ UNCHANGED <<limiter, errors, stranded>>
  BY DEF Tick
<1>2. /\ Window \in Nat /\ Window >= 1 /\ Limit \in Nat /\ Limit >= 1 /\ past \in [Ages -> Nat]
      /\ count \in 0..Limit + 1 /\ ttl \in 0..Window
  BY GateAssumption DEF LimiterInv
<1>3. \A b \in [Ages -> Nat] :
        /\ Older(b) \in [Ages -> Nat] /\ Older(b)[1] = 0 /\ Total(b) \in Nat
        /\ \A k \in 0..Window - 1 : SumTo(Older(b), k + 1) = SumTo(b, k)
        /\ Total(Older(b)) = SumTo(b, Window - 1) /\ SumTo(b, Window - 1) <= Total(b)
        /\ \A k \in 0..Window : SumTo(b, k) \in Nat
  <2> SUFFICES ASSUME NEW b \in [Ages -> Nat]
               PROVE  /\ Older(b) \in [Ages -> Nat] /\ Older(b)[1] = 0 /\ Total(b) \in Nat
                      /\ \A k \in 0..Window - 1 : SumTo(Older(b), k + 1) = SumTo(b, k)
                      /\ Total(Older(b)) = SumTo(b, Window - 1) /\ SumTo(b, Window - 1) <= Total(b)
                      /\ \A k \in 0..Window : SumTo(b, k) \in Nat
    OBVIOUS
  <2>1. /\ Older(b) \in [Ages -> Nat] /\ Older(b)[1] = 0
        /\ \A k \in 0..Window - 1 : SumTo(Older(b), k + 1) = SumTo(b, k)
    BY TotalOlder
  <2>2. Window - 1 \in 0..Window - 1 /\ Window - 1 \in 0..Window /\ (Window - 1) + 1 = Window /\ Window \in 0..Window
    BY <1>2
  <2>3. SumTo(b, Window - 1) <= Total(b) /\ Total(b) \in Nat /\ \A k \in 0..Window : SumTo(b, k) \in Nat
    BY <2>2, TotalsGrow DEF Total
  <2>4. QED  BY <2>1, <2>2, <2>3 DEF Total
<1>4. bucket' \in [Replicas -> [Ages -> Nat]] /\ \A r \in Replicas : Total(bucket'[r]) <= Limit
  <2> SUFFICES ASSUME NEW r \in Replicas
               PROVE  Older(bucket[r]) \in [Ages -> Nat] /\ Total(Older(bucket[r])) <= Limit
    BY <1>1
  <2>1. bucket[r] \in [Ages -> Nat] /\ Total(bucket[r]) <= Limit
    BY DEF LimiterInv
  <2>2. PICK b \in [Ages -> Nat] : b = bucket[r]
    BY <2>1
  <2>3. /\ Older(b) \in [Ages -> Nat] /\ Total(b) \in Nat /\ SumTo(b, Window - 1) <= Total(b)
        /\ Total(Older(b)) = SumTo(b, Window - 1) /\ SumTo(b, Window - 1) \in Nat
    BY <1>2, <1>3
  <2>4. QED  BY <1>2, <2>1, <2>2, <2>3
<1>5. PICK k \in 0..Window : Split(k)
  BY DEF LimiterInv
<1>6. /\ past' \in [Ages -> Nat] /\ past'[1] = 0 /\ SumTo(past', 0) = 0
      /\ Total(past') = SumTo(past, Window - 1) /\ SumTo(past, Window - 1) <= Total(past)
      /\ Total(past) \in Nat /\ SumTo(past, k) \in Nat /\ SumTo(past, Window - 1) \in Nat
      /\ k < Window => SumTo(past', k + 1) = SumTo(past, k)
  BY <1>1, <1>2, <1>3, <1>5, SumNone
<1>7. \E j \in 0..Window : Split(j)'
  <2>1. CASE count' = 0 
    <3>1. Total(past') <= Limit
      <4>1. CASE count = 0
        <5>1. SumTo(past, k) = 0
          BY <1>1, <1>2, <1>5, <1>6, <4>1 DEF Split
        <5>2. QED  BY <1>2, <1>5, <1>6, <5>1 DEF Split
      <4>2. CASE count # 0
        <5>1. ttl = 1 /\ k = Window
          BY <1>1, <1>2, <1>5, <2>1, <4>2 DEF Split
        <5>2. QED  BY <1>1, <1>2, <1>5, <1>6, <5>1 DEF Split, Total
      <4>3. QED  BY <4>1, <4>2
    <3>2. ttl' = 0
      BY <1>1, <1>2, <2>1 DEF LimiterInv
    <3>3. Split(0)'
      BY <1>1, <1>2, <1>6, <2>1, <3>1, <3>2 DEF Split, Total
    <3>4. QED  BY <1>2, <3>3
  <2>2. CASE count' # 0 /\ k < Window
    <3>1. Split(k + 1)'
      BY <1>1, <1>2, <1>5, <1>6, <2>2 DEF Split, Total
    <3>2. QED  BY <1>2, <2>2, <3>1
  <2>3. CASE count' # 0 /\ k = Window
    <3>1. ttl = 0 /\ ttl' = 0
      BY <1>1, <1>2, <1>5, <2>3 DEF Split
    <3>2. SumTo(past', Window) <= SumTo(past, Window)
      BY <1>6, <2>3 DEF Total
    <3>3. Split(Window)'
      BY <1>1, <1>2, <1>5, <1>6, <2>3, <3>1, <3>2 DEF Split, Total
    <3>4. QED  BY <1>2, <3>3
  <2>4. QED  BY <1>2, <2>1, <2>2, <2>3
<1> HIDE DEF Split
<1>8. count' \in 0..Limit + 1 /\ ttl' \in 0..Window
  BY <1>1, <1>2
<1>10. missed' \in [Ages -> Nat] /\ Total(missed') <= errors'
  <2>1. missed \in [Ages -> Nat] /\ Total(missed) <= errors /\ errors \in Nat
    BY DEF LimiterInv
  <2>2. /\ missed' \in [Ages -> Nat] /\ Total(missed) \in Nat /\ SumTo(missed, Window - 1) \in Nat
        /\ Total(missed') = SumTo(missed, Window - 1) /\ SumTo(missed, Window - 1) <= Total(missed)
    BY <1>1, <1>2, <1>3, <2>1
  <2>3. QED  BY <1>1, <2>1, <2>2
<1>9. /\ count' = 0 => ttl' = 0
      /\ count' > 0 /\ ~stranded => ttl' > 0
  BY <1>1, <1>2 DEF LimiterInv
<1>11. QED  BY <1>1, <1>4, <1>6, <1>7, <1>8, <1>9, <1>10 DEF LimiterInv

LEMMA LimiterStep ==
  ASSUME LimiterInv, LimiterNext
  PROVE  LimiterInv'
  BY StartReplicaOK, AllowInMemoryOK, IncrFirstOK, IncrAgainOK, IncrFailsOK, PexpireOK, PexpireLostOK, ReplicaDiesOK,
     TickOK DEF LimiterNext

LEMMA LimiterIdle ==
  ASSUME LimiterInv, UNCHANGED limiterVars
  PROVE  LimiterInv'
<1>1. UNCHANGED <<limiter, bucket, count, ttl, calling, past, missed, errors, stranded>>
  BY DEF limiterVars
<1>2. PICK k \in 0..Window : Split(k)'
  BY <1>1, SplitStays DEF LimiterInv
<1>3. QED  BY <1>1, <1>2 DEF LimiterInv

-----------------------------------------------------------------------------
(* The gate.                                                               *)

GateInv ==
  /\ settings \in Settings /\ Starts(settings)
  /\ DOMAIN served = {"kind", "role", "perm"}
  /\ ProductionIsClosed

LEMMA GateInitOK == GateInit => GateInv
  BY DEF GateInit, GateInv, NoRequest, ProductionIsClosed

\* Nobody without the permission passes the three checks of a deployment that started.
LEMMA ServeOK ==
  ASSUME GateInv, NEW who \in Principals, NEW perm \in DOMAIN PERMISSIONS, NEW form \in BOOLEAN,
         Serve(who, perm, form)
  PROVE  GateInv'
<1> DEFINE p == Resolved(who, settings.mode)
<1>1. /\ PassesMiddleware(p) /\ PassesPerm(p, perm) /\ settings' = settings
      /\ served' = [kind |-> p.kind, role |-> p.role, perm |-> perm]
  BY DEF Serve
<1> HIDE DEF p
<1>2. ASSUME settings.production
      PROVE  HasPerm(p, perm)
  <2>1. settings.keys \/ settings.mode # "off"
    BY <1>2 DEF GateInv, Starts
  <2>2. (settings.mode = "off" /\ settings.keys) => p.kind = "machine"
    BY <1>1 DEF PassesMiddleware
  <2>3. QED  BY <1>1, <2>1, <2>2 DEF PassesPerm
<1>3. HasPerm(p, perm) =>
        /\ p.kind \in {"machine", "user"} /\ p.role \in PERMISSIONS[perm]
        /\ perm = "manage_users" => p.kind = "user"
  BY DEF HasPerm, MACHINE_PERMS
<1>4. served'.kind = p.kind /\ served'.role = p.role /\ served'.perm = perm
      /\ DOMAIN served' = {"kind", "role", "perm"}
  BY <1>1
<1>5. ProductionIsClosed'
  BY <1>1, <1>2, <1>3, <1>4 DEF ProductionIsClosed
<1>6. QED  BY <1>1, <1>4, <1>5 DEF GateInv

LEMMA RedeployOK == ASSUME GateInv, NEW s \in Settings, Redeploy(s) PROVE GateInv'
  BY DEF Redeploy, GateInv, NoRequest, ProductionIsClosed

LEMMA GateStep ==
  ASSUME GateInv, GateNext \/ UNCHANGED gateVars
  PROVE  GateInv'
<1>1. CASE GateNext
  BY <1>1, ServeOK, RedeployOK DEF GateNext
<1>2. CASE UNCHANGED gateVars
  BY <1>2 DEF gateVars, GateInv, ProductionIsClosed
<1>3. QED  BY <1>1, <1>2

LEMMA LimiterLeavesGate == ASSUME LimiterNext PROVE UNCHANGED gateVars
  BY DEF LimiterNext, StartReplica, AllowInMemory, IncrFirst, IncrAgain, IncrFails, Pexpire, PexpireLost,
         ReplicaDies, Tick

LEMMA GateLeavesLimiter == ASSUME GateNext PROVE UNCHANGED limiterVars
  BY DEF GateNext, Serve, Redeploy

LEMMA RequestInvHolds == RequestSpec => [](LimiterInv /\ GateInv)
<1>1. RequestInit => LimiterInv /\ GateInv
  BY LimiterInitOK, GateInitOK DEF RequestInit
<1>2. LimiterInv /\ GateInv /\ [LimiterNext \/ GateNext]_requestVars => (LimiterInv /\ GateInv)'
  <2> SUFFICES ASSUME LimiterInv, GateInv, [LimiterNext \/ GateNext]_requestVars
               PROVE  LimiterInv' /\ GateInv'
    OBVIOUS
  <2>1. CASE LimiterNext
    BY <2>1, LimiterStep, LimiterLeavesGate, GateStep
  <2>2. CASE GateNext
    BY <2>2, GateStep, GateLeavesLimiter, LimiterIdle
  <2>3. CASE UNCHANGED requestVars
    <3>1. UNCHANGED limiterVars /\ UNCHANGED gateVars
      BY <2>3 DEF requestVars
    <3>2. QED  BY <3>1, LimiterIdle, GateStep
  <2>4. QED  BY <2>1, <2>2, <2>3
<1>3. QED  BY <1>1, <1>2, PTL DEF RequestSpec

\* The counters, the calls under way and the settings have their types, whatever the number of
\* replicas, the limit and the window.
THEOREM RequestTypes == RequestSpec => []RequestTypeOK
<1>1. LimiterInv /\ GateInv => RequestTypeOK
  BY DEF LimiterInv, GateInv, RequestTypeOK
<1>2. QED  BY <1>1, RequestInvHolds, PTL

\* For any limit, window, number of replicas and number of failures, no replica admits more than
\* the limit on its own memory, nor do all of them count through more than twice the limit on
\* Redis; what they admit in all is at most that and one request per failed call; and a key
\* without an expiry is left by a lost call only (core/ratelimit.py).
THEOREM RequestWithinWindow == RequestSpec => []WithinWindow
<1>1. LimiterInv => WithinWindow
  <2> SUFFICES ASSUME LimiterInv PROVE WithinWindow
    OBVIOUS
  <2>1. PICK k \in 0..Window : Split(k)
    BY DEF LimiterInv
  <2>2. past \in [Ages -> Nat] /\ Limit \in Nat /\ Window \in 0..Window
    BY GateAssumption DEF LimiterInv
  <2>3. SumTo(past, k) \in Nat /\ Total(past) \in Nat
    BY <2>2, TotalsGrow DEF Total
  <2>4. SumTo(past, k) <= Limit /\ Total(past) - SumTo(past, k) <= Limit
    BY <2>1, <2>2, <2>3 DEF Split
  <2>5. Total(past) <= 2 * Limit
    BY <2>2, <2>3, <2>4
  <2>6. Total(past) + Total(missed) <= 2 * Limit + errors
    <3>1. missed \in [Ages -> Nat] /\ Total(missed) <= errors /\ errors \in Int
      BY DEF LimiterInv
    <3>2. Total(missed) \in Nat
      BY <2>2, <3>1, TotalsGrow DEF Total
    <3>3. QED  BY <2>2, <2>3, <2>5, <3>1, <3>2
  <2>7. QED  BY <2>5, <2>6 DEF LimiterInv, WithinWindow
<1>2. QED  BY <1>1, RequestInvHolds, PTL

\* A production deployment that has started serves nobody without the permission of the route,
\* whatever its settings (api/main.py, api/authn.py).
THEOREM RequestProductionIsClosed == RequestSpec => []ProductionIsClosed
<1>1. GateInv => ProductionIsClosed
  BY DEF GateInv
<1>2. QED  BY <1>1, RequestInvHolds, PTL

-----------------------------------------------------------------------------
(* Backtests.                                                              *)

-----------------------------------------------------------------------------
(* Backtests.                                                              *)

JobsInv ==
  /\ jobRow \in [Jobs -> {"none", "running", "done", "error"}]
  /\ task \subseteq Jobs /\ lost \subseteq Jobs /\ faults \in 0..MaxFaults
  /\ RunningIsAlive

LEMMA JobsStep ==
  ASSUME JobsInv, JobsNext \/ UNCHANGED jobVars
  PROVE  JobsInv'
<1>1. MaxFaults \in Nat
  BY BacktestsAssumption
<1>2. CASE \E j \in Jobs : RunBacktest(j)
  BY <1>2 DEF RunBacktest, JobsInv, RunningIsAlive
<1>3. ASSUME NEW j \in Jobs, NEW st \in {"done", "error"}, EndJob(j, st)
      PROVE  JobsInv'
  BY <1>3 DEF EndJob, JobsInv, RunningIsAlive
<1>4. ASSUME NEW j \in Jobs, LoseJob(j)
      PROVE  JobsInv'
  BY <1>1, <1>4 DEF LoseJob, JobsInv, RunningIsAlive
<1>5. CASE RestartJobs
  <2>1. /\ faults < MaxFaults /\ faults' = faults + 1 /\ task' = {} /\ lost' = {}
        /\ \E asked \in SUBSET Jobs :
             jobRow' = Reconciled([j \in Jobs |-> IF j \in asked THEN "running" ELSE jobRow[j]])
    BY <1>5 DEF RestartJobs
  <2>2. jobRow' \in [Jobs -> {"none", "running", "done", "error"}] /\ \A j \in Jobs : jobRow'[j] # "running"
    BY <2>1 DEF JobsInv, Reconciled
  <2>3. QED  BY <1>1, <2>1, <2>2 DEF JobsInv, RunningIsAlive
<1>6. CASE UNCHANGED jobVars
  BY <1>6 DEF jobVars, JobsInv, RunningIsAlive
<1>7. QED  BY <1>2, <1>3, <1>4, <1>5, <1>6 DEF JobsNext

-----------------------------------------------------------------------------
(* The accounts of a replay: its trades in order, and the curve beside them. *)

EngineBooks(capital, ts, curve, j, ended) ==
  /\ ts \in Seq(Trade) /\ curve \in Seq(Int) /\ capital \in Int
  /\ capital = SumTo(Gains(ts), Len(ts))
  /\ \A k \in 1..Len(ts) :
       /\ ts[k].out <= j
       /\ ts[k].why # "end_of_data" =>
            k <= Len(curve) /\ ts[k].in < ts[k].out /\ curve[k] = SumTo(Gains(ts), k)
       /\ k < Len(ts) => ts[k].why # "end_of_data" /\ ts[k].out <= ts[k + 1].in
       /\ ~ended => ts[k].why # "end_of_data"
  /\ ~ended => Len(curve) = Len(ts)

Before(ts, open, j) ==
  /\ \A p, q \in open : p = q
  /\ \A p \in open : p \in Position /\ p.in <= j /\ \A k \in 1..Len(ts) : ts[k].out <= p.in

ReplayOK(run) ==
  /\ run \in [i: 0..MaxCandles, last: Prices \union {0}, open: SUBSET Position, capital: Int,
              trades: Seq(Trade), curve: Seq(Int), over: BOOLEAN]
  /\ run.i > 0 => run.last \in Prices
  /\ run.open # {} => run.i > 0
  /\ EngineBooks(run.capital, run.trades, run.curve, run.i, run.over)
  /\ Before(run.trades, run.open, run.i)
ReplayInv == ReplayOK(replay)

LEMMA GainInt == ASSUME NEW t \in Trade PROVE Gain(t) \in Int
<1>1. t.exit \in Int /\ t.entry \in Int /\ t.side \in Int
  <2>1. Prices \subseteq Int
    BY BacktestsAssumption
  <2>2. t.exit \in Prices /\ t.entry \in Prices /\ t.side \in {1, -1}
    BY DEF Trade
  <2>3. t.exit \in Int /\ t.entry \in Int
    BY <2>1, <2>2
  <2>4. t.side = 1 \/ t.side = -1
    BY <2>2
  <2>5. t.side \in Int
    BY <2>4
  <2>6. QED  BY <2>3, <2>5
<1>2. PICK d \in Int : d = t.exit - t.entry
  BY <1>1
<1>3. \A a, b \in Int : a * b \in Int
  OBVIOUS
<1>4. t.side * d \in Int
  BY <1>1, <1>2, <1>3
<1>5. Gain(t) = t.side * d
  BY <1>2 DEF Gain
<1>6. QED  BY <1>4, <1>5

\* One trade more.
LEMMA TradeAdded ==
  ASSUME NEW c, NEW ts, NEW curve, NEW j \in Nat, EngineBooks(c, ts, curve, j, FALSE),
         NEW t \in Trade, NEW m \in Nat, j <= m, t.out = m, \A k \in 1..Len(ts) : ts[k].out <= t.in
  PROVE  /\ (t.why # "end_of_data" /\ t.in < t.out)
              => EngineBooks(c + Gain(t), Append(ts, t), Append(curve, c + Gain(t)), m, FALSE)
         /\ t.why = "end_of_data" => EngineBooks(c + Gain(t), Append(ts, t), curve, m, TRUE)
<1> DEFINE n == Len(ts)
           us == Append(ts, t)
<1>1. /\ ts \in Seq(Trade) /\ curve \in Seq(Int) /\ c \in Int /\ Len(curve) = n /\ n \in Nat
      /\ us \in Seq(Trade) /\ Len(us) = n + 1 /\ us[n + 1] = t /\ \A k \in 1..n : us[k] = ts[k]
  BY AppendProperties DEF EngineBooks
<1>2. Gain(t) \in Int
  BY GainInt
<1>3. DOMAIN ts = 1..n /\ DOMAIN us = 1..n + 1
  BY <1>1
<1>4. \A k \in 1..n : Gains(us)[k] = Gains(ts)[k]
  BY <1>1, <1>3 DEF Gains
<1>5. Gains(us)[n + 1] = Gain(t)
  BY <1>1, <1>3 DEF Gains
<1>6. \A k \in 0..n : SumTo(Gains(us), k) = SumTo(Gains(ts), k)
  <2> SUFFICES ASSUME NEW k \in 0..n PROVE SumTo(Gains(us), k) = SumTo(Gains(ts), k)
    OBVIOUS
  <2>1. k \in Nat /\ \A l \in 1..k : Gains(us)[l] = Gains(ts)[l]
    BY <1>1, <1>4
  <2>2. QED  BY <2>1, SumSame
<1>7. SumTo(Gains(us), n + 1) = c + Gain(t)
  <2>1. SumTo(Gains(us), n + 1) = SumTo(Gains(us), n) + Gain(t)
    BY <1>1, <1>5, SumNext
  <2>2. SumTo(Gains(us), n) = c
    BY <1>1, <1>6 DEF EngineBooks
  <2>3. QED  BY <2>1, <2>2
<1>8. \A k \in 1..n : /\ ts[k].out <= j /\ ts[k].out \in Nat /\ ts[k].why # "end_of_data"
                      /\ ts[k].in < ts[k].out /\ curve[k] = SumTo(Gains(ts), k)
                      /\ k < n => ts[k].out <= ts[k + 1].in
  <2>1. \A k \in 1..n : ts[k] \in Trade
    BY <1>1, <1>3
  <2>2. QED  BY <2>1 DEF EngineBooks, Trade
<1>9. c + Gain(t) \in Int /\ c + Gain(t) = SumTo(Gains(us), Len(us))
  BY <1>1, <1>2, <1>7
<1>10. \A k \in 1..n : /\ us[k].out <= m /\ us[k].why # "end_of_data" /\ us[k].in < us[k].out
                       /\ us[k].out <= us[k + 1].in /\ curve[k] = SumTo(Gains(us), k)
  <2> SUFFICES ASSUME NEW k \in 1..n
               PROVE  /\ us[k].out <= m /\ us[k].why # "end_of_data" /\ us[k].in < us[k].out
                      /\ us[k].out <= us[k + 1].in /\ curve[k] = SumTo(Gains(us), k)
    OBVIOUS
  <2>1. us[k] = ts[k] /\ SumTo(Gains(us), k) = SumTo(Gains(ts), k)
    BY <1>1, <1>6
  <2>2. us[k + 1] = IF k = n THEN t ELSE ts[k + 1]
    BY <1>1
  <2>3. ts[k].out <= m
    BY <1>8
  <2>4. us[k].out <= us[k + 1].in
    BY <1>8, <2>1, <2>2
  <2>5. QED  BY <1>8, <2>1, <2>3, <2>4
<1> HIDE DEF us
<1>11. ASSUME t.why # "end_of_data", t.in < t.out
       PROVE  EngineBooks(c + Gain(t), us, Append(curve, c + Gain(t)), m, FALSE)
  <2> DEFINE line == Append(curve, c + Gain(t))
  <2>1. line \in Seq(Int) /\ Len(line) = n + 1 /\ line[n + 1] = c + Gain(t) /\ \A k \in 1..n : line[k] = curve[k]
    BY <1>1, <1>2, AppendProperties
  <2> HIDE DEF line
  <2>2. \A k \in 1..n + 1 :
          /\ us[k].out <= m /\ us[k].why # "end_of_data" /\ us[k].in < us[k].out
          /\ line[k] = SumTo(Gains(us), k) /\ (k < n + 1 => us[k].out <= us[k + 1].in)
    <3> SUFFICES ASSUME NEW k \in 1..n + 1
                 PROVE  /\ us[k].out <= m /\ us[k].why # "end_of_data" /\ us[k].in < us[k].out
                        /\ line[k] = SumTo(Gains(us), k) /\ (k < n + 1 => us[k].out <= us[k + 1].in)
      OBVIOUS
    <3>1. CASE k = n + 1
      BY <1>1, <1>7, <1>11, <2>1, <3>1
    <3>2. CASE k \in 1..n
      BY <1>10, <2>1, <3>2
    <3>3. QED  BY <1>1, <3>1, <3>2
  <2>3. QED  BY <1>1, <1>9, <2>1, <2>2 DEF EngineBooks, line
<1>12. ASSUME t.why = "end_of_data"
       PROVE  EngineBooks(c + Gain(t), us, curve, m, TRUE)
  <2>1. \A k \in 1..n + 1 : k \in 1..n \/ k = n + 1
    BY <1>1
  <2>2. \A k \in 1..n + 1 :
          /\ us[k].out <= m
          /\ us[k].why # "end_of_data" =>
               k <= Len(curve) /\ us[k].in < us[k].out /\ curve[k] = SumTo(Gains(us), k)
          /\ k < n + 1 => us[k].why # "end_of_data" /\ us[k].out <= us[k + 1].in
    BY <1>1, <1>10, <1>12, <2>1
  <2>3. QED  BY <1>1, <1>9, <2>2 DEF EngineBooks
<1>13. QED  BY <1>11, <1>12 DEF us

\* What the exits of a candle leave: at most what was there, one trade further.
LEMMA ExitedOK ==
  ASSUME ReplayInv, ~replay.over, NEW low \in Prices, NEW high \in Prices
  PROVE  LET run == Exited(replay, replay.i + 1, low, high)
         IN /\ run \in [i: 0..MaxCandles, last: Prices \union {0}, open: SUBSET Position, capital: Int,
                        trades: Seq(Trade), curve: Seq(Int), over: BOOLEAN]
            /\ ~run.over
            /\ EngineBooks(run.capital, run.trades, run.curve, replay.i + 1, FALSE)
            /\ Before(run.trades, run.open, replay.i + 1)
<1> DEFINE i == replay.i + 1
           hit == {p \in replay.open : Exit(p, low, high)[1] # 0}
           RunType == [i: 0..MaxCandles, last: Prices \union {0}, open: SUBSET Position, capital: Int,
                       trades: Seq(Trade), curve: Seq(Int), over: BOOLEAN]
<1>1. /\ replay \in RunType /\ replay.i \in Nat /\ i \in Nat /\ replay.i <= i /\ replay.over = FALSE
      /\ EngineBooks(replay.capital, replay.trades, replay.curve, replay.i, FALSE)
      /\ Before(replay.trades, replay.open, replay.i)
  <2>1. replay \in RunType /\ Before(replay.trades, replay.open, replay.i)
    BY DEF ReplayInv, ReplayOK
  <2>2. replay.over = FALSE /\ replay.i \in 0..MaxCandles
    BY <2>1
  <2>3. EngineBooks(replay.capital, replay.trades, replay.curve, replay.i, FALSE)
    BY <2>2 DEF ReplayInv, ReplayOK
  <2> HIDE DEF RunType
  <2>4. replay.i \in Nat /\ i \in Nat /\ replay.i <= i
    <3>1. MaxCandles \in Nat
      BY BacktestsAssumption
    <3>2. QED  BY <2>2, <3>1
  <2>5. QED  BY <2>1, <2>2, <2>3, <2>4
<1>2. /\ replay.trades \in Seq(Trade) /\ replay.curve \in Seq(Int) /\ replay.capital \in Int
      /\ Len(replay.trades) \in Nat /\ \A k \in 1..Len(replay.trades) : replay.trades[k] \in Trade
  <2>1. replay.trades \in Seq(Trade) /\ replay.curve \in Seq(Int) /\ replay.capital \in Int
    BY <1>1
  <2>2. QED  BY <2>1, ElementOfSeq, LenProperties
<1>3. CASE hit = {}
  <2>1. Exited(replay, i, low, high) = replay
    BY <1>3 DEF Exited
  <2>2. \A k \in 1..Len(replay.trades) : replay.trades[k].out \in Nat
    BY <1>2 DEF Trade
  <2>3. EngineBooks(replay.capital, replay.trades, replay.curve, i, FALSE)
    <3>1. \A k \in 1..Len(replay.trades) : replay.trades[k].out <= replay.i => replay.trades[k].out <= i
      BY <1>1, <2>2
    <3>2. QED  BY <1>1, <3>1 DEF EngineBooks
  <2>4. Before(replay.trades, replay.open, i)
    BY <1>1 DEF Before, Position
  <2>5. QED  BY <1>1, <2>1, <2>3, <2>4
<1>4. CASE hit # {}
  <2> DEFINE p == CHOOSE p \in hit : TRUE
             x == Exit(p, low, high)
             t == TradeOf(p, i, x)
  <2>1. p \in replay.open /\ x[1] # 0
    BY <1>4
  <2>2. Exited(replay, i, low, high) = Close(replay, t, TRUE)
    BY <1>4 DEF Exited
  <2> HIDE DEF p
  <2>3. p \in Position /\ p.in <= replay.i /\ \A k \in 1..Len(replay.trades) : replay.trades[k].out <= p.in
    BY <1>1, <2>1 DEF Before
  <2>4. x[1] \in Prices /\ x[2] \in {"stop_loss", "take_profit"}
    BY <2>1, <2>3 DEF Exit, Position
  <2> HIDE DEF x
  <2>5. /\ t \in Trade /\ t.in = p.in /\ t.out = i /\ t.why # "end_of_data" /\ t.in < t.out
    BY <1>1, <2>3, <2>4 DEF TradeOf, Trade, Position
  <2> HIDE DEF t
  <2>6. \A k \in 1..Len(replay.trades) : replay.trades[k].out <= t.in
    BY <2>3, <2>5
  <2> DEFINE c == replay.capital + Gain(t)
             ts == Append(replay.trades, t)
             line == Append(replay.curve, c)
  <2>7. EngineBooks(c, ts, line, i, FALSE)
    BY <1>1, <2>5, <2>6, TradeAdded
  <2>8. Gain(t) \in Int /\ c \in Int /\ ts \in Seq(Trade) /\ line \in Seq(Int)
    BY <2>5, <2>7, GainInt DEF EngineBooks
  <2>9. Close(replay, t, TRUE) = [[[[replay EXCEPT !.open = {}] EXCEPT !.capital = c] EXCEPT !.trades = ts]
                                     EXCEPT !.curve = line]
    BY <1>1 DEF Close
  <2> HIDE DEF c, ts, line
  <2> DEFINE run == Close(replay, t, TRUE)
  <2>10. /\ run \in RunType /\ run.open = {} /\ run.capital = c /\ run.trades = ts /\ run.curve = line
         /\ run.over = FALSE
    BY <1>1, <2>8, <2>9
  <2> HIDE DEF run
  <2>11. Before(ts, {}, i)
    BY DEF Before
  <2>12. QED  BY <2>2, <2>7, <2>10, <2>11 DEF run
<1>5. QED  BY <1>3, <1>4

\* One candle: what was open may leave, and one position may come.
LEMMA CandleStep ==
  ASSUME ReplayInv, NEW low \in Prices, NEW close \in Prices, NEW high \in Prices,
         NEW answer \in Advice, ReplayCandle(low, close, high, answer)
  PROVE  ReplayInv'
<1> DEFINE i == replay.i + 1
           RunType == [i: 0..MaxCandles, last: Prices \union {0}, open: SUBSET Position, capital: Int,
                       trades: Seq(Trade), curve: Seq(Int), over: BOOLEAN]
           run == Exited(replay, i, low, high)
           entry == {[in |-> i, side |-> a.side, entry |-> close, stop |-> a.stop, target |-> a.target]
                       : a \in answer}
           held == IF run.open = {} THEN entry ELSE run.open
<1>1. /\ ~replay.over /\ replay.i < MaxCandles
      /\ replay' = [run EXCEPT !.i = i, !.last = close,
                               !.open = IF run.open = {} THEN entry ELSE @]
  BY DEF ReplayCandle
<1>2. run \in RunType /\ ~run.over /\ EngineBooks(run.capital, run.trades, run.curve, i, FALSE) /\ Before(run.trades, run.open, i)
  BY <1>1, ExitedOK
<1>3. i \in 0..MaxCandles /\ i \in Nat /\ i > 0
  <2>1. replay.i \in 0..MaxCandles /\ MaxCandles \in Nat
    BY BacktestsAssumption DEF ReplayInv, ReplayOK
  <2>2. QED  BY <1>1, <2>1
<1> HIDE DEF run, i
<1>4. \A p, q \in entry : p = q
  BY DEF Advice
<1>5. \A p \in entry : p \in Position /\ p.in = i
  <2>1. \A a \in answer : a.side \in {1, -1} /\ a.stop \in Prices \union {0} /\ a.target \in Prices \union {0}
    <3>1. \A b \in Brackets : b[1] \in Prices \union {0} /\ b[2] \in Prices \union {0}
      BY BacktestsAssumption
    <3>2. QED  BY <3>1 DEF Advice
  <2>2. QED  BY <1>3, <2>1 DEF Position
<1> HIDE DEF entry
<1>6. \A k \in 1..Len(run.trades) : run.trades[k].out <= i
  BY <1>2 DEF EngineBooks
<1>7. Before(run.trades, held, i) /\ held \subseteq Position
  <2>1. CASE run.open = {}
    BY <1>3, <1>4, <1>5, <1>6, <2>1 DEF Before
  <2>2. CASE run.open # {}
    BY <1>2, <2>2
  <2>3. QED  BY <2>1, <2>2
<1> HIDE DEF held
<1>8. /\ replay' \in RunType /\ replay'.i = i /\ replay'.last = close /\ replay'.open = held
      /\ replay'.capital = run.capital /\ replay'.trades = run.trades /\ replay'.curve = run.curve
      /\ replay'.over = FALSE
  <2>1. replay' = [[[run EXCEPT !.i = i] EXCEPT !.last = close] EXCEPT !.open = held]
    BY <1>1, <1>2 DEF held
  <2>2. run.over = FALSE
    BY <1>2
  <2>3. QED  BY <1>2, <1>3, <1>7, <2>1, <2>2
<1>9. QED
  <2>1. EngineBooks(replay'.capital, replay'.trades, replay'.curve, replay'.i, replay'.over)
    BY <1>2, <1>8
  <2>2. Before(replay'.trades, replay'.open, replay'.i)
    BY <1>7, <1>8
  <2>3. replay'.i > 0 /\ replay'.last \in Prices
    BY <1>3, <1>8
  <2>4. QED  BY <1>8, <2>1, <2>2, <2>3 DEF ReplayInv, ReplayOK

\* The end of the data: what is open is closed, and the curve stays.
LEMMA EndStep ==
  ASSUME ReplayInv, EndReplay
  PROVE  ReplayInv'
<1> DEFINE RunType == [i: 0..MaxCandles, last: Prices \union {0}, open: SUBSET Position, capital: Int,
                       trades: Seq(Trade), curve: Seq(Int), over: BOOLEAN]
<1>1. /\ replay \in RunType /\ replay.i \in Nat /\ replay.i > 0 /\ replay.last \in Prices /\ replay.over = FALSE
      /\ EngineBooks(replay.capital, replay.trades, replay.curve, replay.i, FALSE)
      /\ Before(replay.trades, replay.open, replay.i)
  <2>1. replay \in RunType /\ Before(replay.trades, replay.open, replay.i) /\ (replay.i > 0 => replay.last \in Prices)
    BY DEF ReplayInv, ReplayOK
  <2>2. ~replay.over /\ replay.i > 0
    BY DEF EndReplay
  <2>3. replay.over = FALSE /\ replay.i \in 0..MaxCandles
    BY <2>1, <2>2
  <2>4. EngineBooks(replay.capital, replay.trades, replay.curve, replay.i, FALSE)
    BY <2>3 DEF ReplayInv, ReplayOK
  <2> HIDE DEF RunType
  <2>5. replay.i \in Nat
    <3>1. MaxCandles \in Nat
      BY BacktestsAssumption
    <3>2. QED  BY <2>3, <3>1
  <2>6. QED  BY <2>1, <2>2, <2>3, <2>4, <2>5
<1>2. CASE replay.open = {}
  <2>1. replay' = [replay EXCEPT !.over = TRUE]
    BY <1>2 DEF EndReplay
  <2>2. /\ replay' \in RunType /\ replay'.i = replay.i /\ replay'.last = replay.last /\ replay'.open = {}
        /\ replay'.capital = replay.capital /\ replay'.trades = replay.trades /\ replay'.curve = replay.curve
        /\ replay'.over = TRUE
    BY <1>1, <1>2, <2>1
  <2>3. EngineBooks(replay.capital, replay.trades, replay.curve, replay.i, TRUE)
    <3>1. \A k \in 1..Len(replay.trades) : replay.trades[k].why # "end_of_data"
      BY <1>1 DEF EngineBooks
    <3>2. QED  BY <1>1, <3>1 DEF EngineBooks
  <2>4. Before(replay.trades, {}, replay.i)
    BY DEF Before
  <2>5. EngineBooks(replay'.capital, replay'.trades, replay'.curve, replay'.i, replay'.over)
    BY <2>2, <2>3
  <2>6. Before(replay'.trades, replay'.open, replay'.i)
    BY <2>2, <2>4
  <2>7. QED  BY <1>1, <2>2, <2>5, <2>6 DEF ReplayInv, ReplayOK
<1>3. CASE replay.open # {}
  <2> DEFINE p == CHOOSE p \in replay.open : TRUE
             t == TradeOf(p, replay.i, <<replay.last, "end_of_data">>)
             c == replay.capital + Gain(t)
             ts == Append(replay.trades, t)
  <2>1. p \in replay.open
    BY <1>3
  <2>2. replay' = [Close(replay, t, FALSE) EXCEPT !.over = TRUE]
    BY <1>3 DEF EndReplay
  <2> HIDE DEF p
  <2>3. p \in Position /\ p.in <= replay.i /\ \A k \in 1..Len(replay.trades) : replay.trades[k].out <= p.in
    BY <1>1, <2>1 DEF Before
  <2>4. t \in Trade /\ t.in = p.in /\ t.out = replay.i /\ t.why = "end_of_data"
    BY <1>1, <2>3 DEF TradeOf, Trade, Position
  <2> HIDE DEF t
  <2>5. \A k \in 1..Len(replay.trades) : replay.trades[k].out <= t.in
    BY <2>3, <2>4
  <2>6. replay.i <= replay.i
    BY <1>1
  <2>7. EngineBooks(c, ts, replay.curve, replay.i, TRUE)
    BY <1>1, <2>4, <2>5, <2>6, TradeAdded
  <2>8. c \in Int /\ ts \in Seq(Trade) /\ replay.curve \in Seq(Int)
    BY <2>7 DEF EngineBooks
  <2>9. replay' = [[[[replay EXCEPT !.open = {}] EXCEPT !.capital = c] EXCEPT !.trades = ts] EXCEPT !.over = TRUE]
    <3>1. Close(replay, t, FALSE) = [[[replay EXCEPT !.open = {}] EXCEPT !.capital = c] EXCEPT !.trades = ts]
      BY <1>1 DEF Close
    <3>2. QED  BY <2>2, <3>1
  <2> HIDE DEF c, ts
  <2>10. /\ replay' \in RunType /\ replay'.i = replay.i /\ replay'.last = replay.last /\ replay'.open = {}
         /\ replay'.capital = c /\ replay'.trades = ts /\ replay'.curve = replay.curve
         /\ replay'.over = TRUE
    BY <1>1, <2>8, <2>9
  <2>11. Before(ts, {}, replay.i)
    BY DEF Before
  <2>12. EngineBooks(replay'.capital, replay'.trades, replay'.curve, replay'.i, replay'.over)
    BY <2>7, <2>10
  <2>13. Before(replay'.trades, replay'.open, replay'.i)
    BY <2>10, <2>11
  <2>14. QED  BY <1>1, <2>10, <2>12, <2>13 DEF ReplayInv, ReplayOK
<1>4. QED  BY <1>2, <1>3

LEMMA FreshOK == ReplayOK(Fresh)
<1>1. /\ Fresh.i = 0 /\ Fresh.last = 0 /\ Fresh.open = {} /\ Fresh.capital = 0 /\ Fresh.trades = <<>>
      /\ Fresh.curve = <<>> /\ Fresh.over = FALSE
  BY DEF Fresh
<1>2. Gains(<<>>) = Gains(<<>>) /\ SumTo(Gains(<<>>), 0) = 0
  BY SumNone
<1>3. EngineBooks(0, <<>>, <<>>, 0, FALSE) /\ Before(<<>>, {}, 0)
  BY <1>2 DEF EngineBooks, Before
<1>4. MaxCandles \in Nat
  BY BacktestsAssumption
<1>5. 0 \in 0..MaxCandles /\ <<>> \in Seq(Trade) /\ <<>> \in Seq(Int) /\ FALSE \in BOOLEAN
  BY <1>4
<1>6. Fresh \in [i: 0..MaxCandles, last: Prices \union {0}, open: SUBSET Position, capital: Int,
                 trades: Seq(Trade), curve: Seq(Int), over: BOOLEAN]
  BY <1>5 DEF Fresh
<1>7. EngineBooks(Fresh.capital, Fresh.trades, Fresh.curve, Fresh.i, Fresh.over)
  BY <1>1, <1>3
<1>8. Before(Fresh.trades, Fresh.open, Fresh.i)
  BY <1>1, <1>3
<1>9. ~(Fresh.i > 0) /\ ~(Fresh.open # {})
  BY <1>1
<1>10. QED  BY <1>6, <1>7, <1>8, <1>9 DEF ReplayOK

BacktestsInv == JobsInv /\ ReplayInv

LEMMA BacktestsInvHolds == BacktestsSpec => []BacktestsInv
<1>1. BacktestsInit => BacktestsInv
  <2>1. BacktestsInit => JobsInv
    BY BacktestsAssumption DEF BacktestsInit, JobsInv, RunningIsAlive
  <2>2. QED  BY <2>1, FreshOK DEF BacktestsInit, BacktestsInv, ReplayInv
<1>2. BacktestsInv /\ [BacktestsNext]_btVars => BacktestsInv'
  <2> SUFFICES ASSUME JobsInv, ReplayInv, [BacktestsNext]_btVars PROVE JobsInv' /\ ReplayInv'
    BY DEF BacktestsInv
  <2>1. CASE JobsNext
    <3>1. UNCHANGED replay
      BY <2>1 DEF JobsNext, RunBacktest, EndJob, LoseJob, RestartJobs
    <3>2. ReplayInv'
      BY <3>1 DEF ReplayInv, ReplayOK
    <3>3. QED  BY <2>1, <3>2, JobsStep
  <2>2. CASE ReplayNext
    <3>1. UNCHANGED jobVars
      BY <2>2 DEF ReplayNext, ReplayCandle, EndReplay, ReplayAgain
    <3>2. ReplayInv'
      BY <2>2, CandleStep, EndStep, FreshOK DEF ReplayNext, ReplayAgain, ReplayInv
    <3>3. QED  BY <3>1, <3>2, JobsStep
  <2>3. CASE UNCHANGED btVars
    <3>1. UNCHANGED jobVars /\ UNCHANGED replay
      BY <2>3 DEF btVars, jobVars
    <3>2. ReplayInv'
      BY <3>1 DEF ReplayInv, ReplayOK
    <3>3. QED  BY <3>1, <3>2, JobsStep
  <2>4. QED  BY <2>1, <2>2, <2>3 DEF BacktestsNext
<1>3. QED  BY <1>1, <1>2, PTL DEF BacktestsSpec

\* At every moment of every behaviour jobs, rows and the engine are well formed, and the
\* engine holds at most one position (backtest/engine.py:108).
THEOREM BacktestsTypes == BacktestsSpec => []BacktestsTypeOK
<1>1. BacktestsInv => BacktestsTypeOK
  <2> SUFFICES ASSUME JobsInv, ReplayInv PROVE BacktestsTypeOK
    BY DEF BacktestsInv
  <2>1. /\ replay.i \in 0..MaxCandles /\ replay.last \in Prices \union {0} /\ replay.open \subseteq Position
        /\ replay.trades \in Seq(Trade) /\ replay.curve \in Seq(Int) /\ \A p, q \in replay.open : p = q
    BY DEF ReplayInv, ReplayOK, Before
  <2>2. Cardinality(replay.open) <= 1
    <3>1. CASE replay.open = {}
      BY <3>1, FS_EmptySet
    <3>2. CASE replay.open # {}
      <4>1. PICK p : p \in replay.open
        BY <3>2
      <4>2. replay.open = {p}
        BY <2>1, <4>1
      <4>3. Cardinality({p}) = 1
        BY FS_Singleton
      <4>4. QED  BY <4>2, <4>3
    <3>3. QED  BY <3>1, <3>2
  <2>3. QED  BY <2>1, <2>2 DEF JobsInv, BacktestsTypeOK
<1>2. QED  BY <1>1, BacktestsInvHolds, PTL

\* A job whose row says running has a task, unless both of the task's last writes failed, for
\* any jobs and number of faults (api/routes/backtest.py).
THEOREM BacktestsRunningIsAlive == BacktestsSpec => []RunningIsAlive
<1>1. BacktestsInv => RunningIsAlive
  BY DEF BacktestsInv, JobsInv
<1>2. QED  BY <1>1, BacktestsInvHolds, PTL

\* A replay of any candles holds one position at a time, and its equity is what it started with
\* and what its trades gained (backtest/engine.py).
THEOREM BacktestsRunIsSound == BacktestsSpec => []RunIsSound
<1>1. BacktestsInv => RunIsSound
  <2> SUFFICES ASSUME ReplayInv PROVE RunIsSound
    BY DEF BacktestsInv
  <2> DEFINE ts == replay.trades
  <2>1. ts \in Seq(Trade) /\ DOMAIN ts = 1..Len(ts) /\ Len(ts) \in Nat
    BY LenProperties DEF ReplayInv, ReplayOK
  <2>2. EngineBooks(replay.capital, ts, replay.curve, replay.i, replay.over) /\ Before(ts, replay.open, replay.i)
    BY DEF ReplayInv, ReplayOK
  <2> HIDE DEF ts
  <2>3. replay.capital = SumTo(Gains(ts), Len(ts))
    BY <2>2 DEF EngineBooks
  <2>4. \A k \in DOMAIN ts :
          /\ ts[k].why # "end_of_data" => ts[k].in < ts[k].out /\ replay.curve[k] = SumTo(Gains(ts), k)
          /\ k + 1 \in DOMAIN ts => ts[k].why # "end_of_data" /\ ts[k].out <= ts[k + 1].in
    BY <2>1, <2>2 DEF EngineBooks
  <2>5. \A p \in replay.open : \A k \in DOMAIN ts : ts[k].out <= p.in
    BY <2>1, <2>2 DEF Before
  <2>6. QED  BY <2>3, <2>4, <2>5 DEF RunIsSound, ts
<1>2. QED  BY <1>1, BacktestsInvHolds, PTL

-----------------------------------------------------------------------------
(* The journals.                                                           *)

Books == [OrderIds -> Trades]
Shelves == [memory : Books, file : Books, readable : BOOLEAN, told : Books, behind : BOOLEAN, lost : BOOLEAN]
EntryRows == [emotion : Emotions, followed : BOOLEAN, judged : BOOLEAN, pnl : Outcomes]

JournalInv == book \in Shelves /\ entries \in Seq(EntryRows) /\ SavedIsReadBack

LEMMA TradesOK ==
  /\ NoTrade \in Trades /\ OpenTrade \in Trades /\ NoBook \in Books
  /\ \A pnl \in Outcomes, followed \in BOOLEAN : ClosedTrade(pnl, followed) \in Trades
<1>1. NoTrade \in Trades /\ OpenTrade \in Trades
  <2>1. NoTrade \in Trades
    BY DEF Trades
  <2>2. OpenTrade \in Trades
    BY DEF Trades
  <2>3. QED  BY <2>1, <2>2
<1>2. \A pnl \in Outcomes, followed \in BOOLEAN : ClosedTrade(pnl, followed) \in Trades
  <2>1. SUFFICES ASSUME NEW pnl \in Outcomes, NEW followed \in BOOLEAN PROVE ClosedTrade(pnl, followed) \in Trades
    OBVIOUS
  <2>2. ClosedTrade(pnl, followed) \in [state : {"closed"}, pnl : Outcomes, followed : BOOLEAN]
    BY DEF ClosedTrade
  <2>3. QED  BY <2>2 DEF Trades
<1>3. NoBook \in Books
  BY <1>1 DEF NoBook, Books
<1>4. QED  BY <1>1, <1>2, <1>3

LEMMA ShelfBuilt ==
  ASSUME NEW m \in Books, NEW f \in Books, NEW t \in Books, NEW r \in BOOLEAN, NEW b \in BOOLEAN, NEW l \in BOOLEAN
  PROVE  [memory |-> m, told |-> t, behind |-> b, lost |-> l, file |-> f, readable |-> r] \in Shelves
  BY Zenon DEF Shelves

\* What is saved is what memory has, unless the save failed.
LEMMA SaveStep ==
  ASSUME JournalInv, NEW m \in Books, Save(m), entries' = entries
  PROVE  JournalInv'
<1>1. book.file \in Books /\ book.readable \in BOOLEAN /\ book.lost \in BOOLEAN
  BY DEF JournalInv, Shelves
<1>2. PICK fate \in {"saved", "refused", "cut"} :
        book' = [memory |-> m, told |-> m, behind |-> fate # "saved", lost |-> book.lost,
                 file |-> IF fate = "saved" THEN m ELSE book.file,
                 readable |-> fate = "saved" \/ (fate = "refused" /\ book.readable)]
  BY DEF Save
<1>3. PICK f \in Books : f = IF fate = "saved" THEN m ELSE book.file
  BY <1>1
<1>4. PICK b \in BOOLEAN : b = (fate # "saved")
  OBVIOUS
<1>5. PICK r \in BOOLEAN : r = (fate = "saved" \/ (fate = "refused" /\ book.readable))
  OBVIOUS
<1>6. book' = [memory |-> m, told |-> m, behind |-> b, lost |-> book.lost, file |-> f, readable |-> r]
  BY <1>2, <1>3, <1>4, <1>5, Zenon
<1>7. book' \in Shelves
  BY <1>1, <1>6, ShelfBuilt
<1>8. book'.memory = m /\ book'.told = m /\ book'.file = f
  BY <1>6
<1>9. book'.behind = b /\ book'.readable = r
  BY <1>6
<1>10. ~b => f = m /\ r
  BY <1>3, <1>4, <1>5
<1>11. QED  BY <1>7, <1>8, <1>9, <1>10 DEF JournalInv, SavedIsReadBack

LEMMA RestartStep ==
  ASSUME JournalInv, NEW cut \in BOOLEAN, RestartJournal(cut)
  PROVE  JournalInv'
<1>1. book \in Shelves
  BY DEF JournalInv
<1>2. PICK m \in Books : m = IF cut \/ ~book.readable THEN NoBook ELSE book.file
  BY <1>1, TradesOK DEF Shelves
<1>3. PICK r \in BOOLEAN : r = (~cut /\ book.readable)
  OBVIOUS
<1>4. PICK b \in BOOLEAN : b = (cut \/ ~book.readable)
  OBVIOUS
<1>5. PICK l \in BOOLEAN : l = (book.lost \/ cut \/ book.behind)
  OBVIOUS
<1>6. book' = [book EXCEPT !.memory = m, !.readable = r, !.behind = b, !.lost = l] /\ entries' = entries
  BY <1>2, <1>3, <1>4, <1>5, Zenon DEF RestartJournal
<1>7. PICK x : x = [book EXCEPT !.memory = m]
  OBVIOUS
<1>8. x \in Shelves /\ x.memory = m /\ x.told = book.told /\ x.file = book.file
  BY <1>1, <1>7, SMT DEF Shelves
<1>9. PICK y : y = [x EXCEPT !.readable = r]
  OBVIOUS
<1>10. y \in Shelves /\ y.memory = m /\ y.told = book.told /\ y.file = book.file
  BY <1>8, <1>9, SMT DEF Shelves
<1>11. y.readable = r
  BY <1>8, <1>9 DEF Shelves
<1>12. PICK z : z = [y EXCEPT !.behind = b]
  OBVIOUS
<1>13. z \in Shelves /\ z.memory = m /\ z.told = book.told /\ z.file = book.file
  BY <1>10, <1>12, SMT DEF Shelves
<1>14. z.readable = r /\ z.behind = b
  BY <1>10, <1>11, <1>12 DEF Shelves
<1>15. PICK w : w = [z EXCEPT !.lost = l]
  OBVIOUS
<1>16. w \in Shelves /\ w.memory = m /\ w.told = book.told /\ w.file = book.file
  BY <1>13, <1>15, SMT DEF Shelves
<1>17. w.readable = r /\ w.behind = b /\ w.lost = l
  BY <1>13, <1>14, <1>15 DEF Shelves
<1>18. book' = w
  BY <1>6, <1>7, <1>9, <1>12, <1>15
<1>19. ~l => m = book.told
  BY <1>2, <1>5 DEF JournalInv, SavedIsReadBack
<1>20. ~b => r /\ m = book.file
  BY <1>2, <1>3, <1>4
<1>21. QED  BY <1>6, <1>16, <1>17, <1>18, <1>19, <1>20 DEF JournalInv, SavedIsReadBack

LEMMA JournalStart == ASSUME JournalInit PROVE JournalInv
<1>1. book \in Shelves
  BY TradesOK, ShelfBuilt DEF JournalInit
<1>2. entries \in Seq(EntryRows)
  BY DEF JournalInit
<1>3. SavedIsReadBack
  BY DEF JournalInit, SavedIsReadBack
<1>4. QED  BY <1>1, <1>2, <1>3 DEF JournalInv

LEMMA JournalStep == ASSUME JournalInv, [JsonNext \/ RowsNext]_journalVars PROVE JournalInv'
<1>1. book.memory \in Books
  BY DEF JournalInv, Shelves
<1>2. ASSUME NEW id \in OrderIds, RecordEntry(id)
      PROVE  JournalInv'
  <2>1. [book.memory EXCEPT ![id] = OpenTrade] \in Books
    BY <1>1, TradesOK DEF Books
  <2>2. QED  BY <1>2, <2>1, SaveStep DEF RecordEntry
<1>3. ASSUME NEW id \in OrderIds, NEW pnl \in Outcomes, NEW followed \in BOOLEAN, CloseTrade(id, pnl, followed)
      PROVE  JournalInv'
  <2>1. [book.memory EXCEPT ![id] = ClosedTrade(pnl, followed)] \in Books
    BY <1>1, TradesOK DEF Books
  <2>2. QED  BY <1>3, <2>1, SaveStep DEF CloseTrade
<1>4. ASSUME NEW cut \in BOOLEAN, RestartJournal(cut)
      PROVE  JournalInv'
  BY <1>4, RestartStep
<1>5. ASSUME NEW emotion \in Emotions, NEW followed \in BOOLEAN, NEW judged \in BOOLEAN, NEW pnl \in Outcomes,
             CreateEntry(emotion, followed, judged, pnl)
      PROVE  JournalInv'
  <2>1. PICK e \in EntryRows : e = [emotion |-> emotion, followed |-> followed, judged |-> judged, pnl |-> pnl]
    BY Zenon DEF EntryRows
  <2>2. entries' = Append(entries, e) /\ book' = book
    BY <1>5, <2>1 DEF CreateEntry
  <2>3. entries' \in Seq(EntryRows)
    BY <2>2 DEF JournalInv
  <2>4. QED  BY <2>2, <2>3 DEF JournalInv, SavedIsReadBack
<1>6. CASE UNCHANGED journalVars
  BY <1>6 DEF journalVars, JournalInv, SavedIsReadBack
<1>7. QED  BY <1>2, <1>3, <1>4, <1>5, <1>6 DEF JsonNext, RowsNext

LEMMA JournalInvHolds == JournalSpec => []JournalInv
  BY JournalStart, JournalStep, PTL DEF JournalSpec

LEMMA FourSum == ASSUME NEW f, \A i \in 1..4 : f[i] \in Nat
                 PROVE  SumTo(f, 4) = f[1] + f[2] + f[3] + f[4]
<1>1. SumTo(f, 0) = 0
  BY SumNone
<1>2. SumTo(f, 0 + 1) = SumTo(f, 0) + f[0 + 1]
  BY SumNext
<1>3. SumTo(f, 1 + 1) = SumTo(f, 1) + f[1 + 1]
  BY SumNext
<1>4. SumTo(f, 2 + 1) = SumTo(f, 2) + f[2 + 1]
  BY SumNext
<1>5. SumTo(f, 3 + 1) = SumTo(f, 3) + f[3 + 1]
  BY SumNext
<1>6. f[1] \in Nat /\ f[2] \in Nat /\ f[3] \in Nat /\ f[4] \in Nat
  OBVIOUS
<1>7. SumTo(f, 1) = f[1]
  BY <1>1, <1>2, <1>6
<1>8. SumTo(f, 2) = f[1] + f[2]
  BY <1>3, <1>7, <1>6
<1>9. SumTo(f, 3) = f[1] + f[2] + f[3]
  BY <1>4, <1>8, <1>6
<1>10. QED  BY <1>5, <1>9, <1>6

LEMMA DisjointUnion ==
  ASSUME NEW S, NEW T, IsFiniteSet(S), IsFiniteSet(T), S \cap T = {}
  PROVE  IsFiniteSet(S \cup T) /\ Cardinality(S \cup T) = Cardinality(S) + Cardinality(T)
<1>1. Cardinality(S) \in Nat /\ Cardinality(T) \in Nat
  BY FS_CardinalityType
<1>2. Cardinality(S \cap T) = 0
  BY FS_EmptySet
<1>3. IsFiniteSet(S \cup T)
  BY FS_Union
<1>4. Cardinality(S \cup T) = Cardinality(S) + Cardinality(T) - Cardinality(S \cap T)
  BY FS_Union
<1>5. PICK a, b, c, d : a = Cardinality(S) /\ b = Cardinality(T) /\ c = Cardinality(S \cap T) /\ d = Cardinality(S \cup T)
  OBVIOUS
<1>6. d = a + b
  BY <1>1, <1>2, <1>4, <1>5
<1>7. QED  BY <1>3, <1>5, <1>6

\* The rows of a set are those of its bands.
LEMMA BandsCover ==
  ASSUME NEW S, IsFiniteSet(S), NEW A, NEW B, NEW C, NEW D, S = A \cup B \cup C \cup D,
         A \cap B = {}, A \cap C = {}, A \cap D = {}, B \cap C = {}, B \cap D = {}, C \cap D = {}
  PROVE  Cardinality(S) = Cardinality(A) + Cardinality(B) + Cardinality(C) + Cardinality(D)
<1>1. IsFiniteSet(A) /\ IsFiniteSet(B) /\ IsFiniteSet(C) /\ IsFiniteSet(D)
  BY FS_Subset
<1>2. PICK X : X = A \cup B
  OBVIOUS
<1>3. IsFiniteSet(X) /\ Cardinality(X) = Cardinality(A) + Cardinality(B)
  BY <1>1, <1>2, DisjointUnion
<1>4. PICK Y : Y = X \cup C
  OBVIOUS
<1>5. IsFiniteSet(Y) /\ Cardinality(Y) = Cardinality(X) + Cardinality(C)
  BY <1>1, <1>2, <1>3, <1>4, DisjointUnion
<1>6. S = Y \cup D /\ Y \cap D = {}
  BY <1>2, <1>4
<1>7. Cardinality(S) = Cardinality(Y) + Cardinality(D)
  BY <1>1, <1>5, <1>6, DisjointUnion
<1>8. QED  BY <1>3, <1>5, <1>7

LEMMA BandsOK ==
  /\ DOMAIN Bands = 1..4 /\ Len(Bands) = 4
  /\ Bands[1] = <<1, 3>> /\ Bands[2] = <<4, 6>> /\ Bands[3] = <<7, 9>> /\ Bands[4] = <<10, 10>>
  BY DEF Bands

LEMMA JudgedFinite == ASSUME JournalInv PROVE IsFiniteSet(Judged) /\ \A n \in Judged : entries[n].emotion \in 1..10
<1>1. entries \in Seq(EntryRows)
  BY DEF JournalInv
<1>2. Judged \in SUBSET (1..Len(entries)) /\ Len(entries) \in Nat
  BY <1>1 DEF Judged
<1>3. IsFiniteSet(1..Len(entries))
  BY <1>2, FS_Interval
<1>4. \A n \in 1..Len(entries) : entries[n] \in EntryRows
  BY <1>1
<1>5. \A n \in 1..Len(entries) : entries[n].emotion \in 1..10
  BY <1>4, JournalAssumption DEF EntryRows
<1>6. QED  BY <1>2, <1>3, <1>5, FS_Subset

LEMMA FiguresHold == ASSUME JournalInv PROVE FiguresAddUp
<1>1. IsFiniteSet(Judged) /\ \A n \in Judged : entries[n].emotion \in 1..10
  BY JudgedFinite
<1>2. Wins(Judged) \in SUBSET Judged
  BY DEF Wins
<1>3. IsFiniteSet(Wins(Judged))
  BY <1>1, <1>2, FS_Subset
<1>4. ASSUME NEW i \in 1..4
      PROVE  /\ InBand(i) \in SUBSET Judged /\ IsFiniteSet(InBand(i)) /\ Cardinality(InBand(i)) \in Nat
             /\ Wins(InBand(i)) \in SUBSET InBand(i) /\ Cardinality(Wins(InBand(i))) \in Nat
             /\ InBand(i) = {} => Cardinality(InBand(i)) = 0 /\ Cardinality(Wins(InBand(i))) = 0
  <2>1. InBand(i) \in SUBSET Judged /\ Wins(InBand(i)) \in SUBSET InBand(i)
    BY DEF InBand, Wins
  <2>2. IsFiniteSet(InBand(i)) /\ IsFiniteSet(Wins(InBand(i)))
    BY <1>1, <2>1, FS_Subset
  <2>3. Cardinality(InBand(i)) \in Nat /\ Cardinality(Wins(InBand(i))) \in Nat
    BY <2>2, FS_CardinalityType
  <2>4. InBand(i) = {} => Wins(InBand(i)) = {}
    BY <2>1
  <2>5. QED  BY <2>1, <2>2, <2>3, <2>4, FS_EmptySet
<1>5. /\ InBand(1) = {n \in Judged : 1 <= entries[n].emotion /\ entries[n].emotion <= 3}
      /\ InBand(2) = {n \in Judged : 4 <= entries[n].emotion /\ entries[n].emotion <= 6}
      /\ InBand(3) = {n \in Judged : 7 <= entries[n].emotion /\ entries[n].emotion <= 9}
      /\ InBand(4) = {n \in Judged : 10 <= entries[n].emotion /\ entries[n].emotion <= 10}
  BY BandsOK DEF InBand
<1>6. /\ Judged = InBand(1) \cup InBand(2) \cup InBand(3) \cup InBand(4)
      /\ InBand(1) \cap InBand(2) = {} /\ InBand(1) \cap InBand(3) = {} /\ InBand(1) \cap InBand(4) = {}
      /\ InBand(2) \cap InBand(3) = {} /\ InBand(2) \cap InBand(4) = {} /\ InBand(3) \cap InBand(4) = {}
  BY <1>1, <1>5
<1>7. Cardinality(Judged) = Cardinality(InBand(1)) + Cardinality(InBand(2)) + Cardinality(InBand(3)) + Cardinality(InBand(4))
  BY <1>1, <1>6, BandsCover
<1>8. /\ Wins(Judged) = Wins(InBand(1)) \cup Wins(InBand(2)) \cup Wins(InBand(3)) \cup Wins(InBand(4))
      /\ Wins(InBand(1)) \cap Wins(InBand(2)) = {} /\ Wins(InBand(1)) \cap Wins(InBand(3)) = {}
      /\ Wins(InBand(1)) \cap Wins(InBand(4)) = {} /\ Wins(InBand(2)) \cap Wins(InBand(3)) = {}
      /\ Wins(InBand(2)) \cap Wins(InBand(4)) = {} /\ Wins(InBand(3)) \cap Wins(InBand(4)) = {}
  BY <1>6 DEF Wins
<1>9. Cardinality(Wins(Judged)) = Cardinality(Wins(InBand(1))) + Cardinality(Wins(InBand(2)))
                                    + Cardinality(Wins(InBand(3))) + Cardinality(Wins(InBand(4)))
  BY <1>3, <1>8, BandsCover
<1>10. PICK t : t = [i \in DOMAIN Bands |-> IF i \in DOMAIN ByEmotion THEN ByEmotion[i].trades ELSE 0]
  OBVIOUS
<1>11. PICK w : w = [i \in DOMAIN Bands |-> IF i \in DOMAIN ByEmotion THEN ByEmotion[i].wins ELSE 0]
  OBVIOUS
<1>12. ASSUME NEW i \in 1..4
       PROVE  t[i] = Cardinality(InBand(i)) /\ w[i] = Cardinality(Wins(InBand(i)))
  <2>1. i \in DOMAIN ByEmotion <=> InBand(i) # {}
    BY BandsOK DEF ByEmotion
  <2>2. InBand(i) # {} => /\ ByEmotion[i].trades = Cardinality(InBand(i))
                          /\ ByEmotion[i].wins = Cardinality(Wins(InBand(i)))
    BY BandsOK DEF ByEmotion
  <2>3. /\ t[i] = IF i \in DOMAIN ByEmotion THEN ByEmotion[i].trades ELSE 0
        /\ w[i] = IF i \in DOMAIN ByEmotion THEN ByEmotion[i].wins ELSE 0
    BY <1>10, <1>11, BandsOK
  <2>4. QED  BY <1>4, <2>1, <2>2, <2>3
<1>13. SumTo(t, 4) = t[1] + t[2] + t[3] + t[4] /\ SumTo(w, 4) = w[1] + w[2] + w[3] + w[4]
  BY <1>4, <1>12, FourSum
<1>14. SumTo(t, 4) = Cardinality(Judged)
  BY <1>7, <1>12, <1>13
<1>15. SumTo(w, 4) = Cardinality(Wins(Judged))
  BY <1>9, <1>12, <1>13
<1>16. QED  BY <1>10, <1>11, <1>14, <1>15, BandsOK DEF FiguresAddUp

\* The types of both journals.
THEOREM JournalTypes == JournalSpec => []JournalTypeOK
<1>1. JournalInv => JournalTypeOK
  BY DEF JournalInv, JournalTypeOK, Shelves, Books, EntryRows
<1>2. QED  BY <1>1, JournalInvHolds, PTL

\* Whatever saves fail and wherever the process ends, the JSON journal forgets nothing it told
\* but with a process whose last save had failed (journal/trade_journal.py).
THEOREM JournalSavedIsReadBack == JournalSpec => []SavedIsReadBack
<1>1. JournalInv => SavedIsReadBack
  BY DEF JournalInv
<1>2. QED  BY <1>1, JournalInvHolds, PTL

\* The lines by emotion are figures of all judged rows, each counted once, for any number of
\* rows (api/routes/journal.py).
THEOREM JournalFiguresAddUp == JournalSpec => []FiguresAddUp
<1>1. JournalInv => FiguresAddUp
  BY FiguresHold
<1>2. QED  BY <1>1, JournalInvHolds, PTL

-----------------------------------------------------------------------------
(* The migrations (core/db.py).                                            *)

Boots == [at : {"down", "migrating", "committing", "up", "failed"}, done : SUBSET Versions,
          version : Nat, next : Nat]
Schemas == [applied : SUBSET Statements, recorded : SUBSET Versions]
Txs == [owner : SUBSET Processes, applied : SUBSET Statements, recorded : SUBSET Versions]

Clean == bootMishaps.crashes = 0 /\ ~bootMishaps.overlap
Own(p) == IF p \in tx.owner THEN tx.applied ELSE {}
OwnRecords(p) == IF p \in tx.owner THEN tx.recorded ELSE {}

MigrationsTyped ==
  /\ schema \in Schemas /\ tx \in Txs /\ boot \in [Processes -> Boots]
  /\ bootMishaps \in [crashes : 0 .. MaxCrashes, overlap : BOOLEAN]

\* A transaction has one owner, which is in init_db; without one it is empty.
TxOwned ==
  /\ tx.owner = {} => tx.applied = {} /\ tx.recorded = {}
  /\ \A p \in tx.owner : tx.owner = {p} /\ InInitDb(p)

\* What is recorded has been applied.
RecordsOf ==
  /\ \A v \in schema.recorded : StatementsOf(v) \subseteq schema.applied
  /\ \A v \in tx.recorded : StatementsOf(v) \subseteq schema.applied \cup tx.applied

\* Where a process that migrates has come to.
Halfway(p) ==
  /\ boot[p].version \in Versions /\ boot[p].next >= 1
  /\ boot[p].done \subseteq schema.recorded
  /\ \A n \in DOMAIN Scripts[boot[p].version] :
       n < boot[p].next => <<boot[p].version, n>> \in schema.applied \cup Own(p)
  /\ \A w \in Versions : w < boot[p].version => w \in boot[p].done \cup OwnRecords(p)
  /\ \A w \in OwnRecords(p) : w < boot[p].version

Progress ==
  \A p \in Processes :
    /\ Migrating(p) => Halfway(p)
    /\ boot[p].at = "committing" => p \in tx.owner /\ Versions \subseteq schema.recorded \cup tx.recorded
    /\ boot[p].at = "up" => schema.recorded = Versions
    /\ boot[p].at = "failed" => ~Clean

\* Without a crash and with one process at a time, nothing is applied that is not on
\* record but the statements of the script that is run.
Orderly ==
  Clean =>
    /\ \A p, q \in Processes : InInitDb(p) /\ InInitDb(q) => p = q
    /\ \A p \in Processes : Migrating(p) =>
         boot[p].version \notin schema.recorded \cup tx.recorded /\ boot[p].done = schema.recorded
    /\ \A s \in schema.applied \cup tx.applied :
         \/ s[1] \in schema.recorded \cup tx.recorded
         \/ \E p \in Processes : Migrating(p) /\ s[1] = boot[p].version /\ s[2] < boot[p].next

MigrationsInv == MigrationsTyped /\ TxOwned /\ RecordsOf /\ Progress /\ Orderly

LEMMA StatementNamed == ASSUME NEW s \in Statements
                        PROVE  s[1] \in Versions /\ s[2] \in DOMAIN Scripts[s[1]] /\ s = <<s[1], s[2]>>
<1>1. PICK v \in Versions : s \in StatementsOf(v)
  BY DEF Statements
<1>2. PICK n \in DOMAIN Scripts[v] : s = <<v, n>>
  BY <1>1 DEF StatementsOf
<1>3. QED  BY <1>2

LEMMA StatementIn == ASSUME NEW v \in Versions, NEW n \in DOMAIN Scripts[v]
                     PROVE  <<v, n>> \in StatementsOf(v) /\ <<v, n>> \in Statements
  BY DEF Statements, StatementsOf

LEMMA VersionsOK ==
  /\ Versions = 1..Len(Scripts) /\ Len(Scripts) \in Nat /\ Versions \subseteq Nat
  /\ \A v \in Versions : Len(Scripts[v]) \in Nat /\ DOMAIN Scripts[v] = 1..Len(Scripts[v])
<1>1. Scripts \in Seq(Seq({"create", "add"}))
  BY MigrationsAssumption
<1>2. Versions = 1..Len(Scripts) /\ Len(Scripts) \in Nat
  BY <1>1 DEF Versions
<1>3. \A v \in Versions : Scripts[v] \in Seq({"create", "add"})
  BY <1>1 DEF Versions
<1>4. QED  BY <1>2, <1>3

LEMMA LeastIs == ASSUME NEW S, S \subseteq Nat, S # {}
                 PROVE  Least(S) \in S /\ \A u \in S : Least(S) <= u
<1>1. \E w \in S : \A u \in S : w <= u
  BY LeastElement
<1>2. QED  BY <1>1 DEF Least

LEMMA PendingOK == ASSUME NEW v \in Nat, NEW D
                   PROVE  /\ PendingFrom(v, D) \subseteq Versions
                          /\ \A w \in Versions : w >= v /\ w \notin D <=> w \in PendingFrom(v, D)
  BY DEF PendingFrom

LEMMA AtRestOK == ASSUME NEW where \in {"down", "committing", "up", "failed"}
                  PROVE  AtRest(where) \in Boots /\ AtRest(where).at = where
  BY DEF AtRest, Boots

LEMMA StartedOK ==
  ASSUME NEW D \in SUBSET Versions, NEW v \in Versions
  PROVE  /\ Started(D, v) \in Boots /\ Started(D, v).at = "migrating"
         /\ Started(D, v).done = D /\ Started(D, v).version = v /\ Started(D, v).next = 1
  BY VersionsOK DEF Started, Boots

\* Of one process: the others are where they were.
LEMMA BootSet ==
  ASSUME MigrationsInv, NEW p \in Processes, NEW b \in Boots, boot' = [boot EXCEPT ![p] = b]
  PROVE  boot' \in [Processes -> Boots] /\ boot'[p] = b /\ \A q \in Processes : q # p => boot'[q] = boot[q]
  BY DEF MigrationsInv, MigrationsTyped

LEMMA ReadDoneStep == ASSUME MigrationsInv, NEW p \in Processes, ReadDone(p) PROVE MigrationsInv'
<1> DEFINE todo == PendingFrom(1, schema.recorded)
<1>1. schema.recorded \in SUBSET Versions /\ bootMishaps \in [crashes : 0 .. MaxCrashes, overlap : BOOLEAN]
  BY DEF MigrationsInv, MigrationsTyped, Schemas
<1>2. todo \subseteq Versions /\ todo \subseteq Nat /\ \A w \in Versions : w \notin schema.recorded <=> w \in todo
  BY PendingOK, VersionsOK
<1>3. PICK b \in Boots :
        /\ boot' = [boot EXCEPT ![p] = b]
        /\ \/ todo = {} /\ b.at = "up"
           \/ todo # {} /\ b.at = "migrating" /\ b.done = schema.recorded /\ b.version = Least(todo) /\ b.next = 1
  <2>1. CASE todo = {}
    BY <2>1, AtRestOK DEF ReadDone
  <2>2. CASE todo # {}
    <3>1. Least(todo) \in Versions
      BY <1>2, <2>2, LeastIs
    <3>2. boot' = [boot EXCEPT ![p] = Started(schema.recorded, Least(todo))]
      BY <2>2 DEF ReadDone
    <3>3. PICK b : b = Started(schema.recorded, Least(todo))
      OBVIOUS
    <3>4. /\ b \in Boots /\ b.at = "migrating" /\ b.done = schema.recorded
          /\ b.version = Least(todo) /\ b.next = 1
      BY <1>1, <3>1, <3>3, StartedOK
    <3>5. QED  BY <2>2, <3>2, <3>3, <3>4
  <2>3. QED  BY <2>1, <2>2
<1>4. /\ boot' \in [Processes -> Boots] /\ boot'[p] = b
      /\ \A q \in Processes : q # p => boot'[q] = boot[q]
  BY <1>3, BootSet
<1>5. boot[p].at \in {"down", "failed"} /\ schema' = schema /\ tx' = tx
  BY DEF ReadDone
<1>6. p \notin tx.owner
  BY <1>5 DEF MigrationsInv, TxOwned, InInitDb
<1>7. bootMishaps' \in [crashes : 0 .. MaxCrashes, overlap : BOOLEAN] /\ bootMishaps'.crashes = bootMishaps.crashes
      /\ bootMishaps'.overlap = (bootMishaps.overlap \/ (b.at = "migrating" /\ \E q \in Processes \ {p} : InInitDb(q)))
  <2>1. PICK o \in BOOLEAN : o = (bootMishaps.overlap \/ (b.at = "migrating" /\ \E q \in Processes \ {p} : InInitDb(q)))
    BY <1>1
  <2>2. bootMishaps' = [bootMishaps EXCEPT !.overlap = o]
    BY <1>4, <2>1 DEF ReadDone
  <2>3. QED  BY <1>1, <2>1, <2>2
<1>8. MigrationsTyped'
  BY <1>4, <1>5, <1>7 DEF MigrationsInv, MigrationsTyped
<1>9. TxOwned'
  BY <1>4, <1>5, <1>6 DEF MigrationsInv, MigrationsTyped, TxOwned, InInitDb, Txs
<1>10. RecordsOf'
  BY <1>5 DEF MigrationsInv, RecordsOf
<1>11. Clean' => Clean
  BY <1>7 DEF Clean
<1>12. ASSUME Migrating(p)' PROVE Halfway(p)'
  <2>1. todo # {} /\ b.done = schema.recorded /\ b.version = Least(todo) /\ b.next = 1
    BY <1>3, <1>4, <1>12 DEF Migrating
  <2>2. Least(todo) \in todo /\ \A u \in todo : Least(todo) <= u
    BY <1>2, <2>1, LeastIs
  <2>3. OwnRecords(p)' = {}
    BY <1>5, <1>6 DEF OwnRecords
  <2>4. boot'[p].version \in Versions /\ boot'[p].next = 1 /\ boot'[p].done = schema.recorded
    BY <1>2, <1>4, <2>1, <2>2
  <2>5. \A w \in Versions : w < boot'[p].version => w \in boot'[p].done
    BY <1>2, <1>4, <2>1, <2>2, VersionsOK
  <2>6. \A n \in DOMAIN Scripts[boot'[p].version] : ~(n < 1)
    BY <2>4, VersionsOK
  <2>7. QED  BY <1>5, <2>3, <2>4, <2>5, <2>6 DEF Halfway
<1>13. ASSUME NEW q \in Processes, q # p
       PROVE  Halfway(q)' = Halfway(q) /\ Migrating(q)' = Migrating(q) /\ InInitDb(q)' = InInitDb(q)
  BY <1>4, <1>5, <1>13 DEF Halfway, Migrating, InInitDb, Own, OwnRecords
<1>14. Progress'
  <2> SUFFICES ASSUME NEW q \in Processes
               PROVE  /\ Migrating(q)' => Halfway(q)'
                      /\ boot'[q].at = "committing" => q \in tx.owner /\ Versions \subseteq schema.recorded \cup tx.recorded
                      /\ boot'[q].at = "up" => schema.recorded = Versions
                      /\ boot'[q].at = "failed" => ~Clean'
    BY <1>5 DEF Progress
  <2>1. CASE q = p
    <3>1. boot'[p].at # "committing" /\ boot'[p].at # "failed" /\ (boot'[p].at = "up" => todo = {})
      BY <1>3, <1>4
    <3>2. todo = {} => schema.recorded = Versions
      BY <1>1, <1>2
    <3>3. QED  BY <1>12, <2>1, <3>1, <3>2
  <2>2. CASE q # p
    BY <1>4, <1>11, <1>13, <2>2 DEF MigrationsInv, Progress
  <2>3. QED  BY <2>1, <2>2
<1>15. Orderly'
  <2> SUFFICES ASSUME Clean' PROVE
        /\ \A q, r \in Processes : InInitDb(q)' /\ InInitDb(r)' => q = r
        /\ \A q \in Processes : Migrating(q)' =>
             boot'[q].version \notin schema.recorded \cup tx.recorded /\ boot'[q].done = schema.recorded
        /\ \A s \in schema.applied \cup tx.applied :
             \/ s[1] \in schema.recorded \cup tx.recorded
             \/ \E q \in Processes : Migrating(q)' /\ s[1] = boot'[q].version /\ s[2] < boot'[q].next
    BY <1>5 DEF Orderly
  <2>1. Clean
    BY <1>11
  <2>2. InInitDb(p)' => \A q \in Processes \ {p} : ~InInitDb(q)
    <3>1. b.at \in {"up", "migrating"}
      BY <1>3
    <3>2. InInitDb(p)' => b.at = "migrating"
      BY <1>4, <3>1 DEF InInitDb
    <3>3. ~bootMishaps'.overlap
      BY DEF Clean
    <3>4. QED  BY <1>7, <3>2, <3>3
  <2>3. \A q, r \in Processes : InInitDb(q)' /\ InInitDb(r)' => q = r
    BY <2>1, <2>2, <1>13 DEF MigrationsInv, Orderly
  <2>4. ASSUME Migrating(p)'
        PROVE  boot'[p].version \notin schema.recorded \cup tx.recorded /\ boot'[p].done = schema.recorded
    <3>1. todo # {} /\ b.done = schema.recorded /\ b.version = Least(todo)
      BY <1>3, <1>4, <2>4 DEF Migrating
    <3>2. Least(todo) \in todo
      BY <1>2, <3>1, LeastIs
    <3>3. \A q \in Processes : ~InInitDb(q)
      BY <2>2, <2>4, <1>5 DEF InInitDb, Migrating
    <3>4. tx.owner = {} /\ tx.recorded = {}
      BY <3>3 DEF MigrationsInv, MigrationsTyped, TxOwned, Txs
    <3>5. QED  BY <1>2, <1>4, <3>1, <3>2, <3>4
  <2>5. ASSUME NEW s \in schema.applied \cup tx.applied
        PROVE  \/ s[1] \in schema.recorded \cup tx.recorded
               \/ \E q \in Processes : Migrating(q)' /\ s[1] = boot'[q].version /\ s[2] < boot'[q].next
    <3>1. \/ s[1] \in schema.recorded \cup tx.recorded
          \/ \E q \in Processes : Migrating(q) /\ s[1] = boot[q].version /\ s[2] < boot[q].next
      BY <2>1 DEF MigrationsInv, Orderly
    <3>2. ~Migrating(p)
      BY <1>5 DEF Migrating
    <3>3. QED  BY <1>4, <1>13, <3>1, <3>2
  <2>6. \A q \in Processes : Migrating(q)' =>
             boot'[q].version \notin schema.recorded \cup tx.recorded /\ boot'[q].done = schema.recorded
    BY <1>4, <1>13, <2>1, <2>4 DEF MigrationsInv, Orderly
  <2>7. QED  BY <2>3, <2>5, <2>6
<1>16. QED  BY <1>8, <1>9, <1>10, <1>14, <1>15 DEF MigrationsInv

\* A process leaves init_db without a commit: a failure or a death.
LEMMA DropStep ==
  ASSUME MigrationsInv, NEW p \in Processes, NEW where \in {"down", "failed"},
         boot' = [boot EXCEPT ![p] = AtRest(where)], tx' = IF p \in tx.owner THEN NoTx ELSE tx,
         schema' = schema, bootMishaps' \in [crashes : 0 .. MaxCrashes, overlap : BOOLEAN], ~Clean'
  PROVE  MigrationsInv'
<1>1. PICK b \in Boots : b = AtRest(where) /\ b.at = where
  BY AtRestOK
<1>2. /\ boot' \in [Processes -> Boots] /\ boot'[p] = b
      /\ \A q \in Processes : q # p => boot'[q] = boot[q]
  BY <1>1, BootSet
<1>3. tx' \in Txs
  BY DEF NoTx, Txs, MigrationsInv, MigrationsTyped
<1>4. MigrationsTyped'
  BY <1>2, <1>3 DEF MigrationsInv, MigrationsTyped
<1>5. tx' = tx \/ (tx'.owner = {} /\ tx'.applied = {} /\ tx'.recorded = {})
  BY DEF NoTx
<1>6. p \notin tx'.owner
  BY DEF NoTx
<1>7. \A q \in tx'.owner : q # p /\ q \in Processes
  BY <1>3, <1>6 DEF Txs
<1>8. TxOwned'
  BY <1>2, <1>5, <1>7 DEF MigrationsInv, TxOwned, InInitDb
<1>9. RecordsOf'
  BY <1>5 DEF MigrationsInv, RecordsOf
<1>10. ASSUME NEW q \in Processes, q # p
       PROVE  Own(q)' = Own(q) /\ OwnRecords(q)' = OwnRecords(q) /\ (q \in tx.owner <=> q \in tx'.owner)
  <2>1. p \in tx.owner => q \notin tx.owner
    BY <1>10 DEF MigrationsInv, TxOwned
  <2>2. q \in tx.owner <=> q \in tx'.owner
    BY <2>1 DEF NoTx
  <2>3. q \in tx.owner => tx' = tx
    BY <2>1
  <2>4. QED  BY <2>2, <2>3 DEF Own, OwnRecords
<1>11. ASSUME NEW q \in Processes, q # p, Halfway(q)
       PROVE  Halfway(q)'
  BY <1>2, <1>10, <1>11 DEF Halfway
<1>12. ASSUME NEW q \in Processes, q # p, boot[q].at = "committing"
       PROVE  q \in tx'.owner /\ Versions \subseteq schema.recorded \cup tx'.recorded
  <2>1. q \in tx.owner /\ Versions \subseteq schema.recorded \cup tx.recorded
    BY <1>12 DEF MigrationsInv, Progress
  <2>2. tx' = tx
    BY <1>5, <1>10, <1>12, <2>1
  <2>3. QED  BY <2>1, <2>2
<1>13. Progress'
  <2> SUFFICES ASSUME NEW q \in Processes
               PROVE  /\ Migrating(q)' => Halfway(q)'
                      /\ boot'[q].at = "committing" => q \in tx'.owner /\ Versions \subseteq schema.recorded \cup tx'.recorded
                      /\ boot'[q].at = "up" => schema.recorded = Versions
    BY DEF Progress
  <2>1. CASE q = p
    BY <1>1, <1>2, <2>1 DEF Migrating
  <2>2. CASE q # p
    BY <1>2, <1>11, <1>12, <2>2 DEF MigrationsInv, Progress, Migrating
  <2>3. QED  BY <2>1, <2>2
<1>14. Orderly'
  BY DEF Orderly
<1>15. QED  BY <1>4, <1>8, <1>9, <1>13, <1>14 DEF MigrationsInv

LEMMA FailStep == ASSUME MigrationsInv, NEW p \in Processes, ~Clean, Fail(p) PROVE MigrationsInv'
<1>1. bootMishaps' = bootMishaps /\ schema' = schema
  BY DEF Fail
<1>2. ~Clean' /\ bootMishaps' \in [crashes : 0 .. MaxCrashes, overlap : BOOLEAN]
  BY <1>1 DEF Clean, MigrationsInv, MigrationsTyped
<1>3. boot' = [boot EXCEPT ![p] = AtRest("failed")] /\ tx' = IF p \in tx.owner THEN NoTx ELSE tx
  BY DEF Fail
<1>4. "failed" \in {"down", "failed"}
  OBVIOUS
<1>5. QED  BY <1>1, <1>2, <1>3, <1>4, DropStep

LEMMA LockedStep == ASSUME MigrationsInv, NEW p \in Processes, Locked(p) PROVE MigrationsInv'
<1>1. Migrating(p) /\ tx.owner \notin {{}, {p}} /\ Fail(p)
  BY DEF Locked
<1>2. PICK q \in tx.owner : TRUE
  BY <1>1
<1>3. tx.owner = {q} /\ InInitDb(q) /\ q \in Processes /\ q # p
  BY <1>1, <1>2 DEF MigrationsInv, MigrationsTyped, TxOwned, Txs
<1>4. ~Clean
  BY <1>1, <1>3 DEF MigrationsInv, Orderly, InInitDb, Migrating
<1>5. QED  BY <1>1, <1>4, FailStep

\* A process that is up leaves no trace in the database when it dies.
LEMMA UpDies ==
  ASSUME MigrationsInv, NEW p \in Processes, boot[p].at = "up", boot' = [boot EXCEPT ![p] = AtRest("down")],
         tx' = tx, schema' = schema, bootMishaps' = bootMishaps
  PROVE  MigrationsInv'
<1>1. PICK b \in Boots : b = AtRest("down") /\ b.at = "down"
  BY AtRestOK
<1>2. /\ boot' \in [Processes -> Boots] /\ boot'[p] = b
      /\ \A q \in Processes : q # p => boot'[q] = boot[q]
  BY <1>1, BootSet
<1>3. \A q \in Processes : Migrating(q) => q # p
  BY DEF Migrating
<1>4. \A q \in Processes : InInitDb(q) => q # p
  BY DEF InInitDb
<1>5. \A q \in Processes : Migrating(q)' <=> Migrating(q)
  BY <1>1, <1>2 DEF Migrating
<1>6. \A q \in Processes : InInitDb(q)' <=> InInitDb(q)
  BY <1>1, <1>2 DEF InInitDb
<1>7. MigrationsTyped'
  BY <1>2 DEF MigrationsInv, MigrationsTyped
<1>8. tx.owner \subseteq Processes
  BY DEF MigrationsInv, MigrationsTyped, Txs
<1>9. TxOwned' /\ RecordsOf'
  BY <1>6, <1>8 DEF MigrationsInv, TxOwned, RecordsOf
<1>10. ASSUME NEW q \in Processes, q # p, Halfway(q) PROVE Halfway(q)'
  BY <1>2, <1>10 DEF Halfway, Own, OwnRecords
<1>11. Progress'
  <2> SUFFICES ASSUME NEW q \in Processes
               PROVE  /\ Migrating(q)' => Halfway(q)'
                      /\ boot'[q].at = "committing" => q \in tx.owner /\ Versions \subseteq schema.recorded \cup tx.recorded
                      /\ boot'[q].at = "up" => schema.recorded = Versions
                      /\ boot'[q].at = "failed" => ~Clean
    BY DEF Progress, Clean
  <2>1. CASE q = p
    BY <1>1, <1>2, <2>1 DEF Migrating
  <2>2. CASE q # p
    BY <1>2, <1>5, <1>10, <2>2 DEF MigrationsInv, Progress
  <2>3. QED  BY <2>1, <2>2
<1>12. Orderly'
  <2>1. SUFFICES ASSUME Clean PROVE Orderly'
    BY DEF Orderly, Clean
  <2>2. \A q, r \in Processes : InInitDb(q)' /\ InInitDb(r)' => q = r
    BY <1>6, <2>1 DEF MigrationsInv, Orderly
  <2>3. \A q \in Processes : Migrating(q)' =>
           boot'[q].version \notin schema.recorded \cup tx.recorded /\ boot'[q].done = schema.recorded
    BY <1>2, <1>3, <1>5, <2>1 DEF MigrationsInv, Orderly
  <2>4. \A s \in schema.applied \cup tx.applied :
           \/ s[1] \in schema.recorded \cup tx.recorded
           \/ \E q \in Processes : Migrating(q)' /\ s[1] = boot'[q].version /\ s[2] < boot'[q].next
    BY <1>2, <1>3, <1>5, <2>1 DEF MigrationsInv, Orderly
  <2>5. QED  BY <2>2, <2>3, <2>4 DEF Orderly
<1>13. QED  BY <1>7, <1>9, <1>11, <1>12 DEF MigrationsInv

LEMMA CrashStep == ASSUME MigrationsInv, NEW p \in Processes, Crash(p) PROVE MigrationsInv'
<1>1. /\ boot' = [boot EXCEPT ![p] = AtRest("down")] /\ tx' = IF p \in tx.owner THEN NoTx ELSE tx
      /\ schema' = schema
  BY DEF Crash
<1>2. CASE boot[p].at = "up" /\ UNCHANGED bootMishaps
  <2>1. p \notin tx.owner
    BY <1>2 DEF MigrationsInv, TxOwned, InInitDb
  <2>2. QED  BY <1>1, <1>2, <2>1, UpDies
<1>3. CASE bootMishaps.crashes < MaxCrashes /\ bootMishaps' = [bootMishaps EXCEPT !.crashes = @ + 1]
  <2>1. bootMishaps \in [crashes : 0 .. MaxCrashes, overlap : BOOLEAN]
    BY DEF MigrationsInv, MigrationsTyped
  <2>2. bootMishaps' \in [crashes : 0 .. MaxCrashes, overlap : BOOLEAN] /\ bootMishaps'.crashes > 0
    BY <1>3, <2>1, MigrationsAssumption
  <2>3. ~Clean'
    BY <2>1, <2>2 DEF Clean
  <2>4. "down" \in {"down", "failed"}
    OBVIOUS
  <2>5. QED  BY <1>1, <2>2, <2>3, <2>4, DropStep
<1>4. QED  BY <1>2, <1>3 DEF Crash

\* A statement takes effect once, in the transaction or outside of one.
LEMMA StatementStep == ASSUME MigrationsInv, NEW p \in Processes, Statement(p) PROVE MigrationsInv'
<1>1. PICK s : s = <<boot[p].version, boot[p].next>>
  OBVIOUS
<1>2. Migrating(p) /\ Halfway(p) /\ InInitDb(p)
  BY DEF Statement, MigrationsInv, Progress, InInitDb, Migrating
<1>3. s[1] = boot[p].version /\ s[2] = boot[p].next /\ s[1] \in Versions /\ s[2] \in DOMAIN Scripts[s[1]]
  BY <1>1, <1>2 DEF Statement, Halfway
<1>4. s \in Statements
  BY <1>1, <1>3, StatementIn
<1>5. CASE s \in schema.applied \cup Own(p) /\ Fail(p)
  <2>1. s \in schema.applied \cup tx.applied
    BY <1>5 DEF Own
  <2>2. ASSUME Clean PROVE FALSE
    <3>1. s[1] \notin schema.recorded \cup tx.recorded
      BY <1>2, <1>3, <2>2 DEF MigrationsInv, Orderly
    <3>2. PICK q \in Processes : Migrating(q) /\ s[1] = boot[q].version /\ s[2] < boot[q].next
      BY <2>1, <2>2, <3>1 DEF MigrationsInv, Orderly
    <3>3. q = p
      BY <1>2, <2>2, <3>2 DEF MigrationsInv, Orderly, InInitDb, Migrating
    <3>4. boot[p].next \in Nat
      BY DEF MigrationsInv, MigrationsTyped, Boots
    <3>5. QED  BY <1>3, <3>2, <3>3, <3>4
  <2>3. QED  BY <1>5, <2>2, FailStep
<1>6. CASE /\ boot' = [boot EXCEPT ![p].next = @ + 1]
           /\ IF p \in tx.owner
              THEN tx' = [tx EXCEPT !.applied = @ \cup {s}] /\ UNCHANGED schema
              ELSE schema' = [schema EXCEPT !.applied = @ \cup {s}] /\ UNCHANGED tx
           /\ UNCHANGED bootMishaps
  <2>1. PICK b \in Boots : /\ boot' = [boot EXCEPT ![p] = b]
                           /\ b.at = boot[p].at /\ b.done = boot[p].done
                           /\ b.version = boot[p].version /\ b.next = boot[p].next + 1
    <3>1. PICK a \in Boots : a = boot[p]
      BY DEF MigrationsInv, MigrationsTyped
    <3>2. PICK n \in Nat : n = a.next + 1
      BY DEF Boots
    <3>3. PICK b : b = [a EXCEPT !.next = n]
      OBVIOUS
    <3>4. b \in Boots /\ b.at = a.at /\ b.done = a.done /\ b.version = a.version /\ b.next = n
      BY <3>3, SMT DEF Boots
    <3>5. boot' = [boot EXCEPT ![p] = b]
      BY <1>6, <3>1, <3>2, <3>3
    <3>6. QED  BY <3>1, <3>2, <3>4, <3>5
  <2>2. /\ boot' \in [Processes -> Boots] /\ boot'[p] = b
        /\ \A q \in Processes : q # p => boot'[q] = boot[q]
    BY <2>1, BootSet
  <2>3. schema \in Schemas /\ tx \in Txs
    BY DEF MigrationsInv, MigrationsTyped
  <2>4. /\ schema' \in Schemas /\ tx' \in Txs
        /\ schema'.recorded = schema.recorded /\ tx'.recorded = tx.recorded /\ tx'.owner = tx.owner
        /\ schema.applied \subseteq schema'.applied /\ tx.applied \subseteq tx'.applied
        /\ schema'.applied \cup tx'.applied = schema.applied \cup tx.applied \cup {s}
        /\ (p \notin tx.owner => tx'.applied = tx.applied /\ s \in schema'.applied)
        /\ (p \in tx.owner => s \in tx'.applied)
    <3>1. CASE p \in tx.owner
      <4>1. tx' = [tx EXCEPT !.applied = @ \cup {s}] /\ schema' = schema
        BY <1>6, <3>1
      <4>2. tx' \in Txs /\ tx'.recorded = tx.recorded /\ tx'.owner = tx.owner /\ tx'.applied = tx.applied \cup {s}
        BY <1>4, <2>3, <4>1 DEF Txs
      <4>3. QED  BY <2>3, <3>1, <4>1, <4>2
    <3>2. CASE p \notin tx.owner
      <4>1. schema' = [schema EXCEPT !.applied = @ \cup {s}] /\ tx' = tx
        BY <1>6, <3>2
      <4>2. schema' \in Schemas /\ schema'.recorded = schema.recorded /\ schema'.applied = schema.applied \cup {s}
        BY <1>4, <2>3, <4>1 DEF Schemas
      <4>3. QED  BY <2>3, <3>2, <4>1, <4>2
    <3>3. QED  BY <3>1, <3>2
  <2>5. MigrationsTyped'
    BY <1>6, <2>2, <2>4 DEF MigrationsInv, MigrationsTyped
  <2>6. \A q \in Processes : boot'[q].at = boot[q].at /\ boot'[q].version = boot[q].version /\ boot'[q].done = boot[q].done
    BY <2>1, <2>2
  <2>7. tx.owner # {} \/ (tx'.applied = {} /\ tx'.recorded = {})
    BY <2>4 DEF MigrationsInv, TxOwned
  <2>8. \A q \in tx.owner : q \in Processes
    BY <2>3 DEF Txs
  <2>9. TxOwned'
    BY <2>4, <2>6, <2>7, <2>8 DEF MigrationsInv, TxOwned, InInitDb
  <2>10. RecordsOf'
    BY <2>4 DEF MigrationsInv, RecordsOf
  <2>11. \A q \in Processes : Own(q) \subseteq Own(q)' /\ OwnRecords(q)' = OwnRecords(q)
    BY <2>4 DEF Own, OwnRecords
  <2>12. s \in schema'.applied \cup Own(p)'
    BY <2>4 DEF Own
  <2>13. ASSUME NEW q \in Processes, Migrating(q) PROVE Halfway(q)'
    <3>1. Halfway(q)
      BY <2>13 DEF MigrationsInv, Progress
    <3>2. boot[q].next \in Nat /\ boot'[q].next \in Nat /\ boot'[q].next >= boot[q].next
      BY <2>1, <2>2 DEF MigrationsInv, MigrationsTyped, Boots
    <3>3. ASSUME NEW n \in DOMAIN Scripts[boot[q].version], n < boot'[q].next
          PROVE  <<boot[q].version, n>> \in schema'.applied \cup Own(q)'
      <4>1. n \in Nat
        BY <3>1, <3>3, VersionsOK DEF Halfway
      <4>2. CASE n < boot[q].next
        BY <2>4, <2>11, <3>1, <4>2 DEF Halfway
      <4>3. CASE ~(n < boot[q].next)
        <5>1. q = p /\ n = boot[p].next
          BY <2>1, <2>2, <3>2, <3>3, <4>1, <4>3
        <5>2. QED  BY <1>1, <2>12, <5>1
      <4>4. QED  BY <4>2, <4>3
    <3>4. boot'[q].next >= 1
      BY <3>1, <3>2 DEF Halfway
    <3>5. QED  BY <2>4, <2>6, <2>11, <3>1, <3>3, <3>4 DEF Halfway
  <2>14. Clean' = Clean
    BY <1>6 DEF Clean
  <2>15. Progress'
    BY <2>4, <2>6, <2>13, <2>14 DEF MigrationsInv, Progress, Migrating
  <2>16. Orderly'
    <3> SUFFICES ASSUME Clean PROVE
          /\ \A q, r \in Processes : InInitDb(q)' /\ InInitDb(r)' => q = r
          /\ \A q \in Processes : Migrating(q)' =>
               boot'[q].version \notin schema'.recorded \cup tx'.recorded /\ boot'[q].done = schema'.recorded
          /\ \A t \in schema'.applied \cup tx'.applied :
               \/ t[1] \in schema'.recorded \cup tx'.recorded
               \/ \E q \in Processes : Migrating(q)' /\ t[1] = boot'[q].version /\ t[2] < boot'[q].next
      BY <2>14 DEF Orderly
    <3>1. \A q \in Processes : InInitDb(q)' = InInitDb(q) /\ Migrating(q)' = Migrating(q)
      BY <2>6 DEF InInitDb, Migrating
    <3>2. ASSUME NEW t \in schema'.applied \cup tx'.applied
          PROVE  \/ t[1] \in schema'.recorded \cup tx'.recorded
                 \/ \E q \in Processes : Migrating(q)' /\ t[1] = boot'[q].version /\ t[2] < boot'[q].next
      <4>1. boot[p].next \in Nat
        BY DEF MigrationsInv, MigrationsTyped, Boots
      <4>2. CASE t = s
        BY <1>2, <1>3, <2>1, <2>2, <3>1, <4>1, <4>2
      <4>3. CASE t # s
        <5>1. t \in schema.applied \cup tx.applied
          BY <2>4, <4>3
        <5>2. CASE t[1] \in schema.recorded \cup tx.recorded
          BY <2>4, <5>2
        <5>3. CASE \E q \in Processes : Migrating(q) /\ t[1] = boot[q].version /\ t[2] < boot[q].next
          <6>1. PICK q \in Processes : Migrating(q) /\ t[1] = boot[q].version /\ t[2] < boot[q].next
            BY <5>3
          <6>2. t \in Statements
            BY <2>3, <5>1 DEF Schemas, Txs
          <6>3. t[2] \in Nat
            BY <6>2, StatementNamed, VersionsOK
          <6>4. boot[q].next \in Nat /\ boot'[q].next \in Nat /\ boot'[q].next >= boot[q].next
            BY <2>1, <2>2 DEF MigrationsInv, MigrationsTyped, Boots
          <6>5. QED  BY <2>6, <3>1, <6>1, <6>3, <6>4
        <5>4. QED  BY <5>1, <5>2, <5>3 DEF MigrationsInv, Orderly
      <4>4. QED  BY <4>2, <4>3
    <3>3. QED  BY <2>4, <2>6, <3>1, <3>2 DEF MigrationsInv, Orderly
  <2>17. QED  BY <2>5, <2>9, <2>10, <2>15, <2>16 DEF MigrationsInv
<1>7. QED  BY <1>1, <1>5, <1>6 DEF Statement, Own

\* A script is recorded in the transaction, once all its statements are in the schema.
LEMMA RecordVersionStep == ASSUME MigrationsInv, NEW p \in Processes, Record(p) PROVE MigrationsInv'
<1> DEFINE v == boot[p].version
           D == boot[p].done
           todo == PendingFrom(v + 1, D)
<1>1. Migrating(p) /\ Halfway(p) /\ InInitDb(p) /\ tx.owner \in {{}, {p}} /\ boot[p].next > Len(Scripts[v])
  BY DEF Record, ScriptDone, MigrationsInv, Progress, InInitDb, Migrating
<1>2. v \in Versions /\ v \in Nat /\ D \in SUBSET Versions /\ D \subseteq schema.recorded
  BY <1>1, VersionsOK DEF Halfway, MigrationsInv, MigrationsTyped, Boots
<1>3. tx \in Txs /\ schema \in Schemas
  BY DEF MigrationsInv, MigrationsTyped
<1>4. todo \subseteq Versions /\ todo \subseteq Nat /\ \A w \in Versions : w >= v + 1 /\ w \notin D <=> w \in todo
  BY <1>2, PendingOK, VersionsOK
<1>5. PICK b \in Boots :
        /\ boot' = [boot EXCEPT ![p] = b]
        /\ \/ todo = {} /\ b.at = "committing"
           \/ todo # {} /\ b.at = "migrating" /\ b.done = D /\ b.version = Least(todo) /\ b.next = 1
  <2>1. CASE todo = {}
    BY <2>1, AtRestOK DEF Record
  <2>2. CASE todo # {}
    <3>1. Least(todo) \in Versions
      BY <1>4, <2>2, LeastIs
    <3>2. boot' = [boot EXCEPT ![p] = Started(D, Least(todo))]
      BY <2>2 DEF Record, MigrationsInv, MigrationsTyped
    <3>3. PICK b : b = Started(D, Least(todo))
      OBVIOUS
    <3>4. /\ b \in Boots /\ b.at = "migrating" /\ b.done = D /\ b.version = Least(todo) /\ b.next = 1
      BY <1>2, <3>1, <3>3, StartedOK
    <3>5. QED  BY <2>2, <3>2, <3>3, <3>4
  <2>3. QED  BY <2>1, <2>2
<1>6. /\ boot' \in [Processes -> Boots] /\ boot'[p] = b
      /\ \A q \in Processes : q # p => boot'[q] = boot[q]
  BY <1>5, BootSet
<1>7. /\ tx' \in Txs /\ tx'.owner = {p} /\ tx'.applied = tx.applied /\ tx'.recorded = tx.recorded \cup {v}
      /\ schema' = schema /\ bootMishaps' = bootMishaps
  <2>1. tx' = [tx EXCEPT !.owner = {p}, !.recorded = @ \cup {v}] /\ schema' = schema /\ bootMishaps' = bootMishaps
    BY DEF Record
  <2>2. QED  BY <1>2, <1>3, <2>1 DEF Txs
<1>8. tx.owner = {p} \/ (tx.owner = {} /\ tx.applied = {} /\ tx.recorded = {})
  BY <1>1 DEF MigrationsInv, TxOwned
<1>9. Own(p) = tx.applied /\ OwnRecords(p) = tx.recorded /\ Own(p)' = tx.applied
      /\ OwnRecords(p)' = tx.recorded \cup {v}
  BY <1>7, <1>8 DEF Own, OwnRecords
<1>10. b.at \in {"committing", "migrating"}
  BY <1>5
<1>11. MigrationsTyped'
  BY <1>6, <1>7 DEF MigrationsInv, MigrationsTyped
<1>12. TxOwned'
  BY <1>6, <1>7, <1>10 DEF TxOwned, InInitDb
<1>13. RecordsOf'
  <2>1. ASSUME NEW s \in StatementsOf(v) PROVE s \in schema.applied \cup tx.applied
    <3>1. PICK n \in DOMAIN Scripts[v] : s = <<v, n>>
      BY DEF StatementsOf
    <3>2. n < boot[p].next
      BY <1>1, <1>2, VersionsOK DEF MigrationsInv, MigrationsTyped, Boots
    <3>3. QED  BY <1>1, <1>9, <3>1, <3>2 DEF Halfway
  <2>2. QED  BY <1>7, <2>1 DEF MigrationsInv, RecordsOf
<1>14. ASSUME NEW w \in Versions, w <= v PROVE w \in D \cup tx.recorded \cup {v}
  BY <1>1, <1>2, <1>9, <1>14, VersionsOK DEF Halfway
<1>15. ASSUME NEW w \in tx.recorded \cup {v} PROVE w <= v
  <2>1. w \in Nat
    BY <1>2, <1>3, VersionsOK DEF Txs
  <2>2. QED  BY <1>1, <1>2, <1>9, <2>1 DEF Halfway
<1>16. ASSUME Migrating(p)'
       PROVE  /\ Halfway(p)' /\ b.done = D /\ b.version \in Versions /\ b.version > v /\ b.version \notin D
              /\ b.version \notin tx.recorded \cup {v}
  <2>1. todo # {} /\ b.done = D /\ b.version = Least(todo) /\ b.next = 1
    BY <1>5, <1>6, <1>16 DEF Migrating
  <2>2. b.version \in todo /\ \A u \in todo : b.version <= u
    BY <1>4, <2>1, LeastIs
  <2>3. b.version \in Versions /\ b.version \in Nat /\ b.version > v /\ b.version \notin D
    BY <1>2, <1>4, <2>2 DEF PendingFrom
  <2>4. b.version \notin tx.recorded \cup {v}
    BY <1>2, <1>15, <2>3
  <2>5. ASSUME NEW w \in Versions, w < b.version PROVE w \in D \cup tx.recorded \cup {v}
    <3>1. w \in Nat
      BY VersionsOK
    <3>2. CASE w <= v
      BY <1>14, <3>2
    <3>3. CASE ~(w <= v)
      <4>1. w >= v + 1 /\ w \notin todo
        BY <1>2, <2>2, <2>3, <2>5, <3>1, <3>3
      <4>2. QED  BY <1>4, <4>1
    <3>4. QED  BY <3>2, <3>3
  <2>6. ASSUME NEW w \in tx.recorded \cup {v} PROVE w < b.version
    <3>1. w \in Nat
      BY <1>2, <1>3, VersionsOK DEF Txs
    <3>2. QED  BY <1>2, <1>15, <2>3, <3>1
  <2>7. \A n \in DOMAIN Scripts[b.version] : ~(n < 1)
    BY <2>3, VersionsOK
  <2>8. Halfway(p)'
    BY <1>2, <1>6, <1>7, <1>9, <2>1, <2>3, <2>5, <2>6, <2>7 DEF Halfway
  <2>9. QED  BY <2>1, <2>3, <2>4, <2>8
<1>17. ASSUME NEW q \in Processes, q # p
       PROVE  /\ q \notin tx.owner /\ Halfway(q)' = Halfway(q) /\ Migrating(q)' = Migrating(q)
              /\ InInitDb(q)' = InInitDb(q)
  <2>1. q \notin tx.owner /\ q \notin tx'.owner
    BY <1>7, <1>8, <1>17
  <2>2. Own(q)' = Own(q) /\ OwnRecords(q)' = OwnRecords(q)
    BY <2>1 DEF Own, OwnRecords
  <2>3. QED  BY <1>6, <1>7, <1>17, <2>1, <2>2 DEF Halfway, Migrating, InInitDb
<1>18. Clean' = Clean
  BY <1>7 DEF Clean
<1>19. Progress'
  <2> SUFFICES ASSUME NEW q \in Processes
               PROVE  /\ Migrating(q)' => Halfway(q)'
                      /\ boot'[q].at = "committing" => q \in tx'.owner /\ Versions \subseteq schema.recorded \cup tx'.recorded
                      /\ boot'[q].at = "up" => schema.recorded = Versions
                      /\ boot'[q].at = "failed" => ~Clean
    BY <1>7, <1>18 DEF Progress
  <2>1. CASE q = p
    <3>1. ASSUME b.at = "committing" PROVE Versions \subseteq schema.recorded \cup tx'.recorded
      <4>1. todo = {}
        BY <1>5, <3>1
      <4>2. ASSUME NEW w \in Versions PROVE w \in D \cup tx.recorded \cup {v}
        <5>1. w \in Nat
          BY VersionsOK
        <5>2. CASE w <= v
          BY <1>14, <5>2
        <5>3. CASE ~(w <= v)
          <6>1. w >= v + 1
            BY <1>2, <5>1, <5>3
          <6>2. QED  BY <1>4, <4>1, <6>1
        <5>4. QED  BY <5>2, <5>3
      <4>3. QED  BY <1>2, <1>7, <4>2
    <3>2. b.at # "up" /\ b.at # "failed"
      BY <1>10
    <3>3. QED  BY <1>6, <1>7, <1>16, <2>1, <3>1, <3>2
  <2>2. CASE q # p
    BY <1>6, <1>17, <2>2 DEF MigrationsInv, Progress
  <2>3. QED  BY <2>1, <2>2
<1>20. Orderly'
  <2> SUFFICES ASSUME Clean PROVE
        /\ \A q, r \in Processes : InInitDb(q)' /\ InInitDb(r)' => q = r
        /\ \A q \in Processes : Migrating(q)' =>
             boot'[q].version \notin schema.recorded \cup tx'.recorded /\ boot'[q].done = schema.recorded
        /\ \A s \in schema.applied \cup tx'.applied :
             \/ s[1] \in schema.recorded \cup tx'.recorded
             \/ \E q \in Processes : Migrating(q)' /\ s[1] = boot'[q].version /\ s[2] < boot'[q].next
    BY <1>7, <1>18 DEF Orderly
  <2>1. \A q \in Processes : q # p => ~InInitDb(q)
    BY <1>1 DEF MigrationsInv, Orderly
  <2>2. \A q, r \in Processes : InInitDb(q)' /\ InInitDb(r)' => q = r
    BY <1>17, <2>1
  <2>3. D = schema.recorded
    BY <1>1 DEF MigrationsInv, Orderly
  <2>4. \A q \in Processes : Migrating(q)' => q = p
    BY <1>17, <2>1 DEF Migrating, InInitDb
  <2>5. Migrating(p)' => boot'[p].version \notin schema.recorded \cup tx'.recorded /\ boot'[p].done = schema.recorded
    BY <1>6, <1>7, <1>16, <2>3
  <2>6. ASSUME NEW s \in schema.applied \cup tx.applied PROVE s[1] \in schema.recorded \cup tx'.recorded
    <3>1. \/ s[1] \in schema.recorded \cup tx.recorded
          \/ \E q \in Processes : Migrating(q) /\ s[1] = boot[q].version
      BY DEF MigrationsInv, Orderly
    <3>2. \A q \in Processes : Migrating(q) => q = p
      BY <2>1 DEF Migrating, InInitDb
    <3>3. QED  BY <1>7, <3>1, <3>2
  <2>7. QED  BY <1>7, <2>2, <2>4, <2>5, <2>6
<1>21. QED  BY <1>11, <1>12, <1>13, <1>19, <1>20 DEF MigrationsInv

\* The commit: what was recorded is on disk with its statements.
LEMMA CommitStep == ASSUME MigrationsInv, NEW p \in Processes, Commit(p) PROVE MigrationsInv'
<1>1. /\ boot[p].at = "committing" /\ tx' = NoTx /\ bootMishaps' = bootMishaps
      /\ boot' = [boot EXCEPT ![p] = AtRest("up")]
      /\ schema' = [applied |-> schema.applied \cup tx.applied, recorded |-> schema.recorded \cup tx.recorded]
  BY DEF Commit
<1>2. schema \in Schemas /\ tx \in Txs
  BY DEF MigrationsInv, MigrationsTyped
<1>3. p \in tx.owner /\ Versions \subseteq schema.recorded \cup tx.recorded
  BY <1>1 DEF MigrationsInv, Progress
<1>4. tx.owner = {p} /\ InInitDb(p)
  BY <1>3 DEF MigrationsInv, TxOwned
<1>5. /\ schema' \in Schemas /\ schema'.applied = schema.applied \cup tx.applied
      /\ schema'.recorded = schema.recorded \cup tx.recorded /\ schema'.recorded = Versions
  BY <1>1, <1>2, <1>3 DEF Schemas, Txs
<1>6. tx' \in Txs /\ tx'.owner = {} /\ tx'.applied = {} /\ tx'.recorded = {}
  BY <1>1 DEF NoTx, Txs
<1>7. PICK b \in Boots : b = AtRest("up") /\ b.at = "up"
  <2>1. "up" \in {"down", "committing", "up", "failed"}
    OBVIOUS
  <2>2. QED  BY <2>1, AtRestOK
<1>8. /\ boot' \in [Processes -> Boots] /\ boot'[p] = b
      /\ \A q \in Processes : q # p => boot'[q] = boot[q]
  BY <1>1, <1>7, BootSet
<1>9. MigrationsTyped'
  BY <1>1, <1>5, <1>6, <1>8 DEF MigrationsInv, MigrationsTyped
<1>10. TxOwned'
  BY <1>6 DEF TxOwned
<1>11. RecordsOf'
  BY <1>5, <1>6 DEF MigrationsInv, RecordsOf
<1>12. Clean' = Clean
  BY <1>1 DEF Clean
<1>13. ASSUME NEW q \in Processes, q # p, Migrating(q)
       PROVE  Halfway(q)'
  <2>1. Halfway(q)
    BY <1>13 DEF MigrationsInv, Progress
  <2>2. Own(q) = {} /\ OwnRecords(q) = {} /\ Own(q)' = {} /\ OwnRecords(q)' = {}
    BY <1>4, <1>6, <1>13 DEF Own, OwnRecords
  <2>3. QED  BY <1>5, <1>8, <1>13, <2>1, <2>2 DEF Halfway
<1>14. ASSUME NEW q \in Processes, boot[q].at = "committing" PROVE q = p
  BY <1>4, <1>14 DEF MigrationsInv, Progress
<1>15. Progress'
  <2> SUFFICES ASSUME NEW q \in Processes
               PROVE  /\ Migrating(q)' => Halfway(q)'
                      /\ boot'[q].at = "committing" => q \in tx'.owner /\ Versions \subseteq schema'.recorded \cup tx'.recorded
                      /\ boot'[q].at = "up" => schema'.recorded = Versions
                      /\ boot'[q].at = "failed" => ~Clean
    BY <1>12 DEF Progress
  <2>1. CASE q = p
    BY <1>5, <1>7, <1>8, <2>1 DEF Migrating
  <2>2. CASE q # p
    BY <1>5, <1>8, <1>13, <1>14, <2>2 DEF MigrationsInv, Progress, Migrating
  <2>3. QED  BY <2>1, <2>2
<1>16. Orderly'
  <2> SUFFICES ASSUME Clean PROVE
        /\ \A q, r \in Processes : InInitDb(q)' /\ InInitDb(r)' => q = r
        /\ \A q \in Processes : Migrating(q)' =>
             boot'[q].version \notin schema'.recorded \cup tx'.recorded /\ boot'[q].done = schema'.recorded
        /\ \A s \in schema'.applied \cup tx'.applied :
             \/ s[1] \in schema'.recorded \cup tx'.recorded
             \/ \E q \in Processes : Migrating(q)' /\ s[1] = boot'[q].version /\ s[2] < boot'[q].next
    BY <1>12 DEF Orderly
  <2>1. \A q \in Processes : ~InInitDb(q)'
    <3>1. \A q \in Processes : q # p => ~InInitDb(q)
      BY <1>4 DEF MigrationsInv, Orderly
    <3>2. QED  BY <1>7, <1>8, <3>1 DEF InInitDb
  <2>2. \A q \in Processes : ~Migrating(q)'
    BY <2>1 DEF InInitDb, Migrating
  <2>3. ASSUME NEW s \in schema.applied \cup tx.applied PROVE s[1] \in schema'.recorded
    <3>1. s \in Statements
      BY <1>2 DEF Schemas, Txs
    <3>2. QED  BY <1>5, <3>1, StatementNamed
  <2>4. QED  BY <1>5, <1>6, <2>1, <2>2, <2>3
<1>17. QED  BY <1>9, <1>10, <1>11, <1>15, <1>16 DEF MigrationsInv

LEMMA MigrationsStart == ASSUME MigrationsInit PROVE MigrationsInv
<1>1. PICK k \in 0..Len(Scripts) : schema = [applied |-> {s \in Statements : s[1] <= k}, recorded |-> 1..k]
  BY DEF MigrationsInit
<1>2. 1..k \subseteq Versions
  BY VersionsOK
<1>3. schema \in Schemas /\ schema.recorded = 1..k /\ schema.applied = {s \in Statements : s[1] <= k}
  <2>1. {s \in Statements : s[1] <= k} \in SUBSET Statements /\ 1..k \in SUBSET Versions
    BY <1>2
  <2>2. PICK A : A = {s \in Statements : s[1] <= k}
    OBVIOUS
  <2>3. A \in SUBSET Statements /\ schema = [applied |-> A, recorded |-> 1..k]
    BY <1>1, <2>1, <2>2
  <2>4. schema \in Schemas /\ schema.applied = A /\ schema.recorded = 1..k
    BY <2>1, <2>3 DEF Schemas
  <2>5. QED  BY <2>2, <2>4
<1>4. tx \in Txs /\ tx.owner = {} /\ tx.applied = {} /\ tx.recorded = {}
  BY DEF MigrationsInit, NoTx, Txs
<1>5. "down" \in {"down", "committing", "up", "failed"}
  OBVIOUS
<1>6. boot \in [Processes -> Boots] /\ \A p \in Processes : boot[p].at = "down"
  BY <1>5, AtRestOK DEF MigrationsInit
<1>7. bootMishaps \in [crashes : 0 .. MaxCrashes, overlap : BOOLEAN]
  BY MigrationsAssumption DEF MigrationsInit
<1>8. MigrationsTyped /\ TxOwned
  BY <1>3, <1>4, <1>6, <1>7 DEF MigrationsTyped, TxOwned
<1>9. RecordsOf
  <2>1. ASSUME NEW v \in 1..k, NEW s \in StatementsOf(v) PROVE s \in Statements /\ s[1] <= k
    <3>1. PICK n \in DOMAIN Scripts[v] : s = <<v, n>>
      BY <2>1 DEF StatementsOf
    <3>2. s \in Statements
      BY <1>2, <3>1, StatementIn
    <3>3. QED  BY <1>1, <3>1, <3>2, VersionsOK
  <2>2. QED  BY <1>3, <1>4, <2>1 DEF RecordsOf
<1>10. Progress
  BY <1>6 DEF Progress, Migrating
<1>11. Orderly
  <2>1. ASSUME NEW s \in schema.applied \cup tx.applied PROVE s[1] \in schema.recorded
    <3>1. s \in Statements /\ s[1] <= k
      BY <1>3, <1>4
    <3>2. s[1] \in Versions
      BY <3>1, StatementNamed
    <3>3. s[1] >= 1 /\ s[1] \in Nat
      BY <3>2, VersionsOK
    <3>4. QED  BY <1>3, <3>1, <3>3, VersionsOK
  <2>2. QED  BY <1>6, <2>1 DEF Orderly, InInitDb, Migrating
<1>12. QED  BY <1>8, <1>9, <1>10, <1>11 DEF MigrationsInv

LEMMA MigrationsStep == ASSUME MigrationsInv, [MigrationsNext]_migrationVars PROVE MigrationsInv'
<1>1. ASSUME NEW p \in Processes,
             ReadDone(p) \/ Statement(p) \/ Locked(p) \/ Record(p) \/ Commit(p) \/ Crash(p)
      PROVE  MigrationsInv'
  BY <1>1, ReadDoneStep, StatementStep, LockedStep, RecordVersionStep, CommitStep, CrashStep
<1>2. CASE UNCHANGED migrationVars
  <2>1. schema' = schema /\ tx' = tx /\ boot' = boot /\ bootMishaps' = bootMishaps
    BY <1>2 DEF migrationVars
  <2>2. \A p \in Processes : Halfway(p)' = Halfway(p) /\ Migrating(p)' = Migrating(p) /\ InInitDb(p)' = InInitDb(p)
    BY <2>1 DEF Halfway, Migrating, InInitDb, Own, OwnRecords
  <2>3. MigrationsTyped' /\ TxOwned' /\ RecordsOf' /\ Clean' = Clean
    BY <2>1 DEF MigrationsInv, MigrationsTyped, TxOwned, RecordsOf, Clean, InInitDb
  <2>4. Progress'
    BY <2>1, <2>2, <2>3 DEF MigrationsInv, Progress
  <2>5. Orderly'
    BY <2>1, <2>2, <2>3 DEF MigrationsInv, Orderly
  <2>6. QED  BY <2>3, <2>4, <2>5 DEF MigrationsInv
<1>3. QED  BY <1>1, <1>2 DEF MigrationsNext

LEMMA MigrationsInvHolds == MigrationsSpec => []MigrationsInv
  BY MigrationsStart, MigrationsStep, PTL DEF MigrationsSpec

\* The types of the schema, the transaction and the processes.
THEOREM MigrationsTypes == MigrationsSpec => []MigrationsTypeOK
<1>1. MigrationsInv => MigrationsTypeOK
  <2> SUFFICES ASSUME MigrationsInv PROVE MigrationsTypeOK
    OBVIOUS
  <2>1. schema.applied \subseteq Statements /\ schema.recorded \subseteq Versions
    BY DEF MigrationsInv, MigrationsTyped, Schemas
  <2>2. tx.owner \in {{}} \cup {{p} : p \in Processes}
    BY DEF MigrationsInv, MigrationsTyped, TxOwned, Txs
  <2>3. \A p \in Processes : boot[p].at \in {"down", "migrating", "committing", "up", "failed"}
    BY DEF MigrationsInv, MigrationsTyped, Boots
  <2>4. \A p \in Processes : Migrating(p) => boot[p].version \in Versions
    BY DEF MigrationsInv, Progress, Halfway
  <2>5. QED  BY <2>1, <2>2, <2>3, <2>4 DEF MigrationsTypeOK, MigrationsInv, MigrationsTyped
<1>2. QED  BY <1>1, MigrationsInvHolds, PTL

\* A process that is up has the whole schema, whatever processes migrate at once and wherever
\* one is stopped, as far as BootedIsMigrated promises it (core/db.py).
THEOREM MigrationsBooted == MigrationsSpec => []BootedIsMigrated
<1>1. MigrationsInv => BootedIsMigrated
  <2> SUFFICES ASSUME MigrationsInv PROVE BootedIsMigrated
    OBVIOUS
  <2>1. bootMishaps.crashes \in Nat
    BY DEF MigrationsInv, MigrationsTyped
  <2>2. QED  BY <2>1 DEF MigrationsInv, RecordsOf, Progress, Clean, BootedIsMigrated
<1>2. QED  BY <1>1, MigrationsInvHolds, PTL

-----------------------------------------------------------------------------
(* The status of the agents (agents/registry.py).                          *)

Counts == [CycleDays -> 0 .. MaxCycles]
Statuses == [at : {"idle", "counted", "told"}, asked : CycleDays, cycles : 0 .. MaxCycles,
             last : CycleDays \cup {NoDay}]

\* The days that are kept have the rows that were written, and what the API has counted of
\* today is still there when it looks for the last action.
CyclesInv ==
  /\ CyclesTypeOK /\ CyclesAreCounted
  /\ status.asked <= clock
  /\ status.at = "counted" /\ status.asked = clock => status.cycles <= events[clock]

LEMMA DaysOK == /\ CycleDays \subseteq Int /\ LastCycleDay \in Nat /\ Retention \in Nat /\ Retention > 0
                /\ MaxCycles \in Nat /\ 0 \in CycleDays /\ 0 \in 0 .. MaxCycles
  BY CyclesAssumption DEF CycleDays

LEMMA PruneOK ==
  ASSUME CyclesInv, NEW kept \in Prune(events)
  PROVE  kept \in Counts /\ \A d \in CycleDays : d > clock - Retention => kept[d] = events[d]
<1>1. clock \in Int
  BY DaysOK DEF CyclesInv, CyclesTypeOK
<1>2. kept \in [CycleDays -> 0 .. MaxCycles]
  BY DEF Prune
<1>3. \A d \in CycleDays : \/ d > clock - Retention /\ kept[d] = events[d]
                           \/ d = clock - Retention /\ kept[d] <= events[d]
                           \/ d < clock - Retention /\ kept[d] = 0
  BY DEF Prune
<1>4. QED  BY <1>1, <1>2, <1>3, DaysOK DEF Counts

LEMMA RecordStep ==
  ASSUME CyclesInv, NEW inserted \in BOOLEAN, RecordCycle(inserted)
  PROVE  CyclesInv'
<1>1. /\ clock \in CycleDays /\ clock \in Int /\ events \in Counts /\ ran \in Counts
      /\ counter \in [cycles : 0 .. MaxCycles, date : CycleDays] /\ status \in Statuses
  BY DaysOK DEF CyclesInv, CyclesTypeOK, Counts, Statuses
<1>2. clock' = clock /\ status' = status /\ events[clock] < MaxCycles
  BY DEF RecordCycle
<1>3. counter' \in [cycles : 0 .. MaxCycles, date : CycleDays]
  <2>1. PICK n : n = IF clock > counter.date THEN 1 ELSE counter.cycles + 1
    OBVIOUS
  <2>2. events[clock] \in 0 .. MaxCycles /\ counter.cycles \in 0 .. MaxCycles
    BY <1>1 DEF Counts
  <2>3. counter.cycles < MaxCycles \/ clock > counter.date
    BY DEF RecordCycle
  <2>4. n \in 0 .. MaxCycles
    BY <1>2, <2>1, <2>2, <2>3, DaysOK
  <2>5. counter' = [cycles |-> n, date |-> clock]
    BY <2>1 DEF RecordCycle
  <2>6. QED  BY <1>1, <2>4, <2>5
<1>4. PICK kept \in Counts : /\ \A d \in CycleDays : d > clock - Retention => kept[d] = events[d]
                             /\ events' = IF inserted THEN [kept EXCEPT ![clock] = @ + 1] ELSE kept
  BY <1>1, PruneOK DEF RecordCycle
<1>5. ran' = IF inserted THEN [ran EXCEPT ![clock] = @ + 1] ELSE ran
  BY DEF RecordCycle
<1>6. clock > clock - Retention
  BY <1>1, DaysOK
<1>7. kept[clock] = events[clock] /\ ran[clock] = events[clock]
  BY <1>1, <1>4, <1>6 DEF CyclesInv, CyclesAreCounted
<1>8. events[clock] \in 0 .. MaxCycles /\ events[clock] + 1 \in 0 .. MaxCycles
  BY <1>1, <1>2, DaysOK DEF Counts
<1>9. events' \in Counts /\ ran' \in Counts
  BY <1>1, <1>4, <1>5, <1>7, <1>8 DEF Counts
<1>10. ASSUME NEW d \in CycleDays, d > clock - Retention PROVE events'[d] = ran'[d]
  <2>1. kept[d] = events[d] /\ events[d] = ran[d]
    BY <1>4, <1>10 DEF CyclesInv, CyclesAreCounted
  <2>2. QED  BY <1>1, <1>4, <1>5, <2>1 DEF Counts
<1>11. events'[clock] >= events[clock]
  BY <1>1, <1>4, <1>7, <1>8 DEF Counts
<1>12. CyclesTypeOK'
  BY <1>1, <1>2, <1>3, <1>9 DEF CyclesTypeOK, Counts, Statuses
<1>13. CyclesAreCounted'
  BY <1>2, <1>10 DEF CyclesInv, CyclesAreCounted
<1>14. status.at = "counted" /\ status.asked = clock => status.cycles <= events'[clock]
  <2>1. status.cycles \in Int /\ events'[clock] \in Int
    BY <1>1, <1>9 DEF Statuses, Counts
  <2>2. QED  BY <1>8, <1>11, <2>1 DEF CyclesInv
<1>15. QED  BY <1>2, <1>12, <1>13, <1>14 DEF CyclesInv

LEMMA CyclesStep == ASSUME CyclesInv, [CyclesNext]_cycleVars PROVE CyclesInv'
<1>1. /\ clock \in CycleDays /\ clock \in Int /\ events \in Counts /\ ran \in Counts
      /\ counter \in [cycles : 0 .. MaxCycles, date : CycleDays] /\ status \in Statuses
  BY DaysOK DEF CyclesInv, CyclesTypeOK, Counts, Statuses
<1>2. clock > clock - Retention
  BY <1>1, DaysOK
<1>3. ASSUME NEW inserted \in BOOLEAN, RecordCycle(inserted)
      PROVE  CyclesInv'
  BY <1>3, RecordStep
<1>4. CASE RestartLoop
  <2>1. events' \in Counts /\ \A d \in CycleDays : d > clock - Retention => events'[d] = events[d]
    BY <1>4, PruneOK DEF RestartLoop
  <2>2. clock' = clock /\ status' = status /\ ran' = ran /\ counter' = [cycles |-> 0, date |-> clock]
    BY <1>4 DEF RestartLoop
  <2>3. counter' \in [cycles : 0 .. MaxCycles, date : CycleDays]
    BY <1>1, <2>2, DaysOK
  <2>4. CyclesTypeOK'
    BY <1>1, <2>1, <2>2, <2>3 DEF CyclesTypeOK, Counts, Statuses
  <2>5. CyclesAreCounted'
    BY <2>1, <2>2 DEF CyclesInv, CyclesAreCounted
  <2>6. events'[clock] = events[clock]
    BY <1>1, <1>2, <2>1
  <2>7. QED  BY <2>2, <2>4, <2>5, <2>6 DEF CyclesInv
<1>5. CASE Midnight
  <2>1. clock' = clock + 1 /\ clock < LastCycleDay /\ events' = events /\ counter' = counter
        /\ status' = status /\ ran' = ran
    BY <1>5 DEF Midnight
  <2>2. clock' \in CycleDays
    BY <1>1, <2>1, DaysOK DEF CycleDays
  <2>3. CyclesTypeOK'
    BY <2>1, <2>2 DEF CyclesInv, CyclesTypeOK
  <2>4. status.asked \in Int /\ status.asked < clock'
    <3>1. status.asked \in Int
      BY <1>1, DaysOK DEF Statuses
    <3>2. status.asked <= clock
      BY DEF CyclesInv
    <3>3. QED  BY <1>1, <2>1, <3>1, <3>2
  <2>5. \A d \in CycleDays : d > clock' - Retention => d > clock - Retention
    BY <1>1, <2>1, DaysOK
  <2>6. CyclesAreCounted'
    BY <2>1, <2>4, <2>5 DEF CyclesInv, CyclesAreCounted
  <2>7. QED  BY <1>1, <2>1, <2>3, <2>4, <2>6 DEF CyclesInv
<1>6. CASE CyclesToday
  <2>1. PICK n \in 0 .. MaxCycles : n = events[clock]
    BY <1>1 DEF Counts
  <2>2. PICK o \in Statuses : o = NoStatus
    BY DaysOK DEF NoStatus, Statuses
  <2>3. status' = [o EXCEPT !.at = "counted", !.asked = clock, !.cycles = n]
        /\ clock' = clock /\ events' = events /\ counter' = counter /\ ran' = ran
    BY <1>6, <2>1, <2>2 DEF CyclesToday
  <2>4. PICK x : x = [o EXCEPT !.at = "counted"]
    OBVIOUS
  <2>5. x \in Statuses /\ x.at = "counted"
    BY <2>4, SMT DEF Statuses
  <2>6. PICK y : y = [x EXCEPT !.asked = clock]
    OBVIOUS
  <2>7. y \in Statuses /\ y.at = "counted" /\ y.asked = clock
    BY <1>1, <2>5, <2>6, SMT DEF Statuses
  <2>8. PICK z : z = [y EXCEPT !.cycles = n]
    OBVIOUS
  <2>9. z \in Statuses /\ z.at = "counted" /\ z.asked = clock /\ z.cycles = n
    BY <2>1, <2>7, <2>8, SMT DEF Statuses
  <2>10. status' = z
    BY <2>3, <2>4, <2>6, <2>8
  <2>11. CyclesTypeOK'
    BY <2>3, <2>9, <2>10 DEF CyclesInv, CyclesTypeOK, Statuses
  <2>12. QED  BY <1>1, <2>1, <2>3, <2>9, <2>10, <2>11 DEF CyclesInv, CyclesAreCounted
<1>7. CASE LastActionAt
  <2>1. PICK l \in CycleDays \cup {NoDay} : l = IF events[clock] > 0 THEN clock ELSE NoDay
    BY <1>1
  <2>2. status' = [status EXCEPT !.at = "told", !.last = l]
        /\ clock' = clock /\ events' = events /\ counter' = counter /\ ran' = ran /\ status.at = "counted"
    BY <1>7, <2>1 DEF LastActionAt
  <2>3. /\ status' \in Statuses /\ status'.at = "told" /\ status'.last = l
        /\ status'.asked = status.asked /\ status'.cycles = status.cycles
    <3>1. PICK x : x = [status EXCEPT !.at = "told"]
      OBVIOUS
    <3>2. x \in Statuses /\ x.at = "told" /\ x.asked = status.asked /\ x.cycles = status.cycles
      BY <1>1, <3>1, SMT DEF Statuses
    <3>3. PICK y : y = [x EXCEPT !.last = l]
      OBVIOUS
    <3>4. y \in Statuses /\ y.last = l /\ y.at = x.at /\ y.asked = x.asked /\ y.cycles = x.cycles
      BY <3>2, <3>3, SMT DEF Statuses
    <3>5. QED  BY <2>2, <3>1, <3>2, <3>3, <3>4
  <2>4. CyclesTypeOK'
    BY <2>2, <2>3 DEF CyclesInv, CyclesTypeOK, Statuses
  <2>6. status.cycles \in Int /\ events[clock] \in Int
    BY <1>1 DEF Statuses, Counts
  <2>7. status'.asked = clock /\ status'.cycles > 0 => status'.last = clock
    BY <2>1, <2>2, <2>3, <2>6 DEF CyclesInv
  <2>8. status'.last \in {clock, NoDay}
    BY <2>1, <2>3
  <2>9. CyclesAreCounted'
    BY <2>2, <2>7, <2>8 DEF CyclesInv, CyclesAreCounted
  <2>10. QED  BY <2>2, <2>3, <2>4, <2>9 DEF CyclesInv
<1>8. CASE GetAgent
  <2>1. status' = NoStatus /\ clock' = clock /\ events' = events /\ counter' = counter /\ ran' = ran
    BY <1>8 DEF GetAgent
  <2>2. NoStatus \in Statuses /\ NoStatus.at = "idle" /\ NoStatus.asked = 0
    BY DaysOK DEF NoStatus, Statuses
  <2>3. CyclesTypeOK'
    BY <2>1, <2>2 DEF CyclesInv, CyclesTypeOK, Statuses
  <2>4. 0 <= clock
    BY <1>1 DEF CycleDays
  <2>5. QED  BY <2>1, <2>2, <2>3, <2>4 DEF CyclesInv, CyclesAreCounted
<1>9. CASE UNCHANGED cycleVars
  BY <1>9 DEF cycleVars, CyclesInv, CyclesTypeOK, CyclesAreCounted
<1>10. QED  BY <1>3, <1>4, <1>5, <1>6, <1>7, <1>8, <1>9 DEF CyclesNext

LEMMA CyclesStart == ASSUME CyclesInit PROVE CyclesInv
<1>1. events = [d \in CycleDays |-> 0] /\ ran = events /\ clock = 0 /\ counter = [cycles |-> 0, date |-> 0]
      /\ status = NoStatus
  BY DEF CyclesInit
<1>2. NoStatus \in Statuses /\ NoStatus.at = "idle" /\ NoStatus.asked = 0
  BY DaysOK DEF NoStatus, Statuses
<1>3. CyclesTypeOK
  BY <1>1, <1>2, DaysOK DEF CyclesTypeOK, Statuses
<1>4. QED  BY <1>1, <1>2, <1>3 DEF CyclesInv, CyclesAreCounted

LEMMA CyclesInvHolds == CyclesSpec => []CyclesInv
  BY CyclesStart, CyclesStep, PTL DEF CyclesSpec

\* The types of the counters and of the agent's status.
THEOREM CyclesTypes == CyclesSpec => []CyclesTypeOK
<1>1. CyclesInv => CyclesTypeOK
  BY DEF CyclesInv
<1>2. QED  BY <1>1, CyclesInvHolds, PTL

\* What the status of an agent tells of its cycles are the rows written on the day it was asked
\* for, however cycles, midnight and the purge interleave with it (agents/registry.py).
THEOREM CyclesCounted == CyclesSpec => []CyclesAreCounted
<1>1. CyclesInv => CyclesAreCounted
  BY DEF CyclesInv
<1>2. QED  BY <1>1, CyclesInvHolds, PTL

-----------------------------------------------------------------------------
(* The two books and their readers (audit/normalize.py, core/alerts.py).   *)

\* A list of the elements of S, the newest first.
Falling(s, S) == s \in [1..Cardinality(S) -> S] /\ \A m, n \in DOMAIN s : m < n => s[m] > s[n]

\* What a reader of the list relies on.
ListOf(s, S) ==
  /\ s \in Seq(S)
  /\ \A m, n \in 1..Len(s) : m < n => s[m] > s[n]
  /\ \A x \in S : \E n \in 1..Len(s) : s[n] = x

Elements(s) == {s[n] : n \in 1..Len(s)}
Between(s, a, b) == {s[k] : k \in a + 1 .. b}
NotOlder(S, i) == {j \in S : j >= i}

LEMMA FallingAll ==
  ASSUME NEW S, IsFiniteSet(S), S \subseteq Nat, NEW s, Falling(s, S)
  PROVE  ListOf(s, S)
<1>1. Cardinality(S) \in Nat
  BY FS_CardinalityType
<1>2. s \in Seq(S) /\ Len(s) = Cardinality(S) /\ DOMAIN s = 1..Len(s)
  BY <1>1 DEF Falling
<1> DEFINE T == {s[n] : n \in DOMAIN s}
<1>3. s \in [DOMAIN s -> T]
  BY <1>2
<1>4. T \subseteq S
  BY <1>2 DEF Falling
<1>5. \A a, b \in DOMAIN s : s[a] = s[b] => a = b
  <2> SUFFICES ASSUME NEW a \in DOMAIN s, NEW b \in DOMAIN s, s[a] = s[b], a < b PROVE FALSE
    BY <1>2
  <2>1. s[a] > s[b] /\ s[a] \in Nat /\ s[b] \in Nat
    BY <1>2 DEF Falling
  <2>2. QED  BY <2>1
<1>6. s \in Bijection(1..Len(s), T)
  <2>1. s \in [1..Len(s) -> T]
    BY <1>2, <1>3
  <2>2. \A t \in T : \E n \in 1..Len(s) : s[n] = t
    BY <1>2
  <2>3. s \in Surjection(1..Len(s), T)
    <3> HIDE DEF T
    <3>1. QED  BY <2>1, <2>2 DEF Surjection
  <2>4. s \in Injection(1..Len(s), T)
    <3> HIDE DEF T
    <3>1. QED  BY <2>1, <1>2, <1>5 DEF Injection, IsInjective
  <2>5. QED  BY <2>3, <2>4 DEF Bijection
<1>7. IsFiniteSet(1..Len(s)) /\ Cardinality(1..Len(s)) = Len(s)
  BY <1>1, <1>2, FS_Interval
<1>8. Cardinality(T) = Len(s)
  BY <1>6, <1>7, FS_Bijection DEF ExistsBijection
<1>9. T = S
  BY <1>2, <1>4, <1>8, FS_Subset
<1>10. \A x \in S : \E n \in 1..Len(s) : s[n] = x
  BY <1>2, <1>9
<1>11. \A m, n \in 1..Len(s) : m < n => s[m] > s[n]
  BY <1>2 DEF Falling
<1>12. QED  BY <1>2, <1>10, <1>11 DEF ListOf

LEMMA FallingExists ==
  ASSUME NEW S, IsFiniteSet(S), S \subseteq Nat
  PROVE  \E s : Falling(s, S)
<1> DEFINE Bad == {n \in Nat : \E T \in SUBSET Nat : IsFiniteSet(T) /\ Cardinality(T) = n /\ ~ \E s : Falling(s, T)}
<1>1. Bad = {}
  <2> SUFFICES ASSUME Bad # {} PROVE FALSE
    OBVIOUS
  <2>1. PICK c \in Bad : \A m \in Bad : c <= m
    <3> HIDE DEF Bad
    <3>1. Bad \subseteq Nat
      BY DEF Bad
    <3>2. QED  BY <3>1, LeastElement
  <2>2. PICK T \in SUBSET Nat : IsFiniteSet(T) /\ Cardinality(T) = c /\ ~ \E s : Falling(s, T)
    OBVIOUS
  <2>3. c # 0
    <3> SUFFICES ASSUME c = 0 PROVE FALSE
      OBVIOUS
    <3>1. T = {}
      BY <2>2, FS_EmptySet
    <3>2. Falling(<<>>, T)
      BY <2>2, <3>1 DEF Falling
    <3>3. QED  BY <2>2, <3>2
  <2>4. T # {}
    BY <2>2, <2>3, FS_EmptySet
  <2>5. PICK x \in T : \A y \in T : x <= y
    BY <2>4, LeastElement
  <2>6. IsFiniteSet(T \ {x}) /\ Cardinality(T \ {x}) = c - 1
    BY <2>2, FS_RemoveElement
  <2>7. c - 1 \in Nat /\ c - 1 \notin Bad
    <3> HIDE DEF Bad
    <3>1. c \in Nat
      BY DEF Bad
    <3>2. QED  BY <2>1, <2>3, <3>1
  <2>8. PICK s : Falling(s, T \ {x})
    BY <2>6, <2>7
  <2> DEFINE t == [n \in 1..c |-> IF n = c THEN x ELSE s[n]]
  <2>9. s \in [1..c - 1 -> T \ {x}] /\ \A m, n \in 1..c - 1 : m < n => s[m] > s[n]
    BY <2>6, <2>8 DEF Falling
  <2>10. c \in Nat /\ \A n \in 1..c : n # c => n \in 1..c - 1
    OBVIOUS
  <2>11. t \in [1..c -> T]
    BY <2>9, <2>10
  <2>12. \A m, n \in 1..c : m < n => t[m] > t[n]
    <3> SUFFICES ASSUME NEW m \in 1..c, NEW n \in 1..c, m < n PROVE t[m] > t[n]
      OBVIOUS
    <3>1. m \in 1..c - 1 /\ t[m] = s[m]
      BY <2>10
    <3>2. CASE n = c
      <4>1. s[m] \in T \ {x}
        BY <2>9, <3>1
      <4>2. x \in Nat /\ s[m] \in Nat /\ x <= s[m] /\ s[m] # x
        BY <2>2, <2>5, <4>1
      <4>3. t[n] = x
        BY <3>2
      <4>4. QED  BY <3>1, <4>2, <4>3
    <3>3. CASE n # c
      BY <2>9, <2>10, <3>1, <3>3
    <3>4. QED  BY <3>2, <3>3
  <2>13. Falling(t, T)
    BY <2>2, <2>11, <2>12 DEF Falling
  <2>14. QED  BY <2>2, <2>13
<1>2. Cardinality(S) \in Nat
  BY FS_CardinalityType
<1>3. QED  BY <1>1, <1>2

LEMMA NewestFirstOK ==
  ASSUME NEW S, IsFiniteSet(S), S \subseteq Nat
  PROVE  ListOf(NewestFirst(S), S)
<1>1. Falling(NewestFirst(S), S)
  BY FallingExists DEF Falling, NewestFirst
<1>2. QED  BY <1>1, FallingAll

-----------------------------------------------------------------------------
(* What SQL selects is what Python shows.                                   *)

OtherNames == {"hitl_approval", "config_changed", "hitl_level_changed", "order_executed", "order_fill"} \cup LoopTypes

EntryKind(e) ==
  /\ \/ e.family = "auth" /\ e.name \in {"login", "logout", "password_reset", "user_deleted"}
     \/ e.family \in {"connection", "apikey"} /\ e.name = "added"
     \/ e.family = "none" /\ e.name \in OtherNames
  /\ e.approved \in BOOLEAN

LEMMA EntryKinds == ASSUME NEW e \in LedgerEntries PROVE EntryKind(e)
<1>1. CASE \E n \in {"login", "logout", "password_reset", "user_deleted"}, p \in People : e = AuthEvent(n, p)
  BY <1>1 DEF EntryKind, AuthEvent, BlankEvent
<1>2. CASE \E f \in {"connection", "apikey"}, p \in People : e = KeyEvent(f, p)
  BY <1>2 DEF EntryKind, KeyEvent, BlankEvent
<1>3. CASE \E yes \in BOOLEAN, p \in People : e = Approval(yes, p)
  BY <1>3 DEF EntryKind, Approval, BlankEvent, OtherNames
<1>4. CASE \E n \in {"config_changed", "hitl_level_changed"}, p \in People : e = ConfigEvent(n, p)
  BY <1>4 DEF EntryKind, ConfigEvent, BlankEvent, OtherNames
<1>5. CASE e = ExecutionEvent \/ e = FillEvent
  BY <1>5 DEF EntryKind, ExecutionEvent, FillEvent, BlankEvent, OtherNames
<1>6. CASE \E n \in LoopTypes : e = LoopEvent(n)
  BY <1>6 DEF EntryKind, LoopEvent, BlankEvent, OtherNames
<1>7. QED
  <2> DEFINE F(p) == {AuthEvent(n, p) : n \in {"login", "logout", "password_reset", "user_deleted"}}
                     \cup {KeyEvent(f, p) : f \in {"connection", "apikey"}}
                     \cup {Approval(yes, p) : yes \in BOOLEAN}
                     \cup {ConfigEvent(n, p) : n \in {"config_changed", "hitl_level_changed"}}
  <2>1. CASE e \in {ExecutionEvent, FillEvent} \cup {LoopEvent(n) : n \in LoopTypes}
    BY <2>1, <1>5, <1>6
  <2>2. CASE \E p \in People : e \in F(p)
    BY <2>2, <1>1, <1>2, <1>3, <1>4
  <2>3. LedgerEntries = (UNION {F(p) : p \in People}) \cup {ExecutionEvent, FillEvent} \cup {LoopEvent(n) : n \in LoopTypes}
    BY DEF LedgerEntries
  <2> HIDE DEF F
  <2>4. e \in UNION {F(p) : p \in People} => \E p \in People : e \in F(p)
    OBVIOUS
  <2>5. QED  BY <2>1, <2>2, <2>3, <2>4

LEMMA ShownAsSelected ==
  ASSUME NEW e \in LedgerEntries, NEW a \in AUDIT_ACTIONS
  PROVE  Auditable(e) /\ ActionPredicate(a, e) <=> ActionOf(e) = a
<1>1. PICK f, n, y : f = e.family /\ n = e.name /\ y = e.approved
  OBVIOUS
<1>2. CASE f = "auth" /\ n \in {"login", "logout", "password_reset", "user_deleted"}
  BY <1>1, <1>2, SMT DEF Auditable, ActionPredicate, ActionOf, AUDIT_ACTIONS
<1>3. CASE f \in {"connection", "apikey"} /\ n = "added"
  BY <1>1, <1>3, SMT DEF Auditable, ActionPredicate, ActionOf, AUDIT_ACTIONS
<1>4. CASE f = "none" /\ n \in OtherNames /\ y \in BOOLEAN
  BY <1>1, <1>4, SMT DEF Auditable, ActionPredicate, ActionOf, AUDIT_ACTIONS, AUDITABLE, LoopTypes, OtherNames
<1>5. EntryKind(e)
  BY EntryKinds
<1>6. \/ f = "auth" /\ n \in {"login", "logout", "password_reset", "user_deleted"}
      \/ f \in {"connection", "apikey"} /\ n = "added"
      \/ f = "none" /\ n \in OtherNames /\ y \in BOOLEAN
  BY <1>1, <1>5 DEF EntryKind
<1>7. QED  BY <1>2, <1>3, <1>4, <1>6

LEMMA SelectedIsShown ==
  ASSUME NEW e \in LedgerEntries
  PROVE  Auditable(e) <=> ActionOf(e) \in AUDIT_ACTIONS
<1>1. PICK f, n, y : f = e.family /\ n = e.name /\ y = e.approved
  OBVIOUS
<1>2. CASE f = "auth" /\ n \in {"login", "logout", "password_reset", "user_deleted"}
  BY <1>1, <1>2, SMT DEF Auditable, ActionOf, AUDIT_ACTIONS
<1>3. CASE f \in {"connection", "apikey"} /\ n = "added"
  BY <1>1, <1>3, SMT DEF Auditable, ActionOf, AUDIT_ACTIONS
<1>4. CASE f = "none" /\ n \in OtherNames /\ y \in BOOLEAN
  BY <1>1, <1>4, SMT DEF Auditable, ActionOf, AUDIT_ACTIONS, AUDITABLE, LoopTypes, OtherNames
<1>5. EntryKind(e)
  BY EntryKinds
<1>6. \/ f = "auth" /\ n \in {"login", "logout", "password_reset", "user_deleted"}
      \/ f \in {"connection", "apikey"} /\ n = "added"
      \/ f = "none" /\ n \in OtherNames /\ y \in BOOLEAN
  BY <1>1, <1>5 DEF EntryKind
<1>7. QED  BY <1>2, <1>3, <1>4, <1>6

-----------------------------------------------------------------------------
(* The readers.                                                             *)

Walks == [kind : {"none", "pages", "export", "event", "history", "stream"}, asked : Questions \cup AlertQuestions,
          ids : SUBSET Nat, offset : Nat, total : Nat, shown : Seq(Nat), left : Seq(Nat),
          phase : {"idle", "asks", "counted", "done", "live"}]

\* What the question means of the book as it is, of it what was there when the reader began,
\* what the reader has been shown, and what an export has still to fetch.
Matching == IF walk.kind \in AuditWalks THEN {i \in DOMAIN trail : Selected(trail[i], walk.asked)}
            ELSE {i \in DOMAIN alerts : walk.asked.severity \in {"any", alerts[i]}}
Meant == walk.ids \cap Matching
Seen == Elements(walk.shown)
Rest == Elements(walk.left)
Upto(i) == NotOlder(Matching, i)

BooksTyped ==
  /\ trail \in Seq(LedgerEntries) /\ Len(trail) <= MaxEvents
  /\ alerts \in Seq(Severities) /\ Len(alerts) <= MaxAlerts /\ tornLine \in BOOLEAN

WalkTyped ==
  /\ walk \in Walks
  /\ walk.kind \in AuditWalks => walk.asked \in Questions /\ walk.ids \subseteq DOMAIN trail
  /\ walk.kind \in {"history", "stream"} => walk.asked \in AlertQuestions /\ walk.ids \subseteq DOMAIN alerts
  /\ walk.kind = "none" => walk.ids = {} /\ walk.shown = <<>> /\ walk.phase = "idle"
  /\ walk.kind # "export" => walk.left = <<>>

\* The entries shown are of those meant; none between them is left out.
ShownInOrder == Seen \subseteq Matching /\ \A i \in Meant, j \in Seen : j < i => i \in Seen

\* A page begins at or above the first entry that is still to be shown, whatever was added.
PagesInOrder ==
  walk.kind \in {"pages", "history"} /\ walk.phase \in {"asks", "counted"} =>
    \A i \in Meant : i \in Seen \/ Cardinality(Upto(i)) > walk.offset

ExportInOrder ==
  walk.kind = "export" =>
    /\ Rest \subseteq Matching /\ Meant \subseteq Seen \cup Rest
    /\ \A m, n \in 1..Len(walk.left) : m < n => walk.left[m] > walk.left[n]
    /\ \A i \in Seen, j \in Rest : i > j

EndSeen == walk.phase = "done" => Meant \subseteq Seen

AuditInv == BooksTyped /\ WalkTyped /\ ShownInOrder /\ PagesInOrder /\ ExportInOrder /\ EndSeen

LEMMA MatchingOK ==
  ASSUME BooksTyped
  PROVE  /\ IsFiniteSet(Matching) /\ Matching \subseteq Nat
         /\ walk.kind \in AuditWalks => Matching \subseteq DOMAIN trail
         /\ walk.kind \notin AuditWalks => Matching \subseteq DOMAIN alerts
<1>1. IsFiniteSet(1..Len(trail)) /\ IsFiniteSet(1..Len(alerts))
  BY FS_Interval DEF BooksTyped
<1>2. DOMAIN trail = 1..Len(trail) /\ DOMAIN alerts = 1..Len(alerts)
  BY DEF BooksTyped
<1>3. walk.kind \in AuditWalks => Matching \subseteq DOMAIN trail
  BY DEF Matching
<1>4. walk.kind \notin AuditWalks => Matching \subseteq DOMAIN alerts
  BY DEF Matching
<1>5. IsFiniteSet(Matching)
  BY <1>1, <1>2, <1>3, <1>4, FS_Subset
<1>6. Matching \subseteq Nat
  BY <1>2, <1>3, <1>4
<1>7. QED  BY <1>3, <1>4, <1>5, <1>6

LEMMA ListingOK == ASSUME BooksTyped PROVE ListOf(NewestFirst(Matching), Matching)
  BY MatchingOK, NewestFirstOK

\* The place of an entry in the list is the number of those that are not older.
LEMMA PlaceOK ==
  ASSUME NEW S, NEW s, ListOf(s, S), S \subseteq Nat, NEW n \in 1..Len(s)
  PROVE  Cardinality(NotOlder(S, s[n])) = n
<1>1. /\ s \in Seq(S) /\ \A a, b \in 1..Len(s) : a < b => s[a] > s[b]
      /\ \A x \in S : \E k \in 1..Len(s) : s[k] = x
  BY DEF ListOf
<1>2. Len(s) \in Nat /\ n \in Nat /\ \A k \in 1..Len(s) : s[k] \in S /\ s[k] \in Nat
  <2>1. Len(s) \in Nat
    BY <1>1
  <2>2. \A k \in 1..Len(s) : s[k] \in S
    BY <1>1
  <2>3. \A k \in 1..Len(s) : s[k] \in Nat
    BY <2>2
  <2>4. QED  BY <2>1, <2>2, <2>3
<1> DEFINE T == {j \in S : j >= s[n]}
           t == [k \in 1..n |-> s[k]]
<1>3. \A k \in 1..n : t[k] \in T
  <2> SUFFICES ASSUME NEW k \in 1..n PROVE s[k] \in S /\ s[k] >= s[n]
    OBVIOUS
  <2>1. k \in 1..Len(s)
    BY <1>2
  <2>2. CASE k = n
    BY <1>2, <2>1, <2>2
  <2>3. CASE k < n
    BY <1>1, <1>2, <2>1, <2>3
  <2>4. QED  BY <1>2, <2>2, <2>3
<1>4. \A x \in T : \E k \in 1..n : t[k] = x
  <2> SUFFICES ASSUME NEW x \in T PROVE \E k \in 1..n : s[k] = x
    OBVIOUS
  <2>1. PICK k \in 1..Len(s) : s[k] = x
    BY <1>1
  <2>2. k <= n
    <3> SUFFICES ASSUME n < k PROVE FALSE
      BY <1>2
    <3>1. s[n] > s[k] /\ s[k] >= s[n]
      BY <1>1, <2>1
    <3>2. QED  BY <1>2, <3>1
  <2>3. QED  BY <2>1, <2>2
<1>5. \A a, b \in 1..n : t[a] = t[b] => a = b
  <2> SUFFICES ASSUME NEW a \in 1..n, NEW b \in 1..n, s[a] = s[b], a < b PROVE FALSE
    BY <1>2
  <2>1. s[a] > s[b] /\ s[a] \in Nat
    BY <1>1, <1>2
  <2>2. QED  BY <2>1
<1>6. t \in Bijection(1..n, T)
  <2>1. t \in [1..n -> T] /\ DOMAIN t = 1..n
    BY <1>3
  <2> HIDE DEF T, t
  <2>2. t \in Surjection(1..n, T)
    BY <2>1, <1>4 DEF Surjection
  <2>3. t \in Injection(1..n, T)
    BY <2>1, <1>5 DEF Injection, IsInjective
  <2>4. QED  BY <2>2, <2>3 DEF Bijection
<1>7. IsFiniteSet(1..n) /\ Cardinality(1..n) = n
  BY <1>2, FS_Interval
<1>8. QED  BY <1>6, <1>7, FS_Bijection DEF ExistsBijection, NotOlder

LEMMA ElementsOfConcat ==
  ASSUME NEW s \in Seq(Nat), NEW t \in Seq(Nat)
  PROVE  Elements(s \o t) = Elements(s) \cup Elements(t)
<1>1. PICK u : u = s \o t
  OBVIOUS
<1>2. PICK m \in Nat, n \in Nat : m = Len(s) /\ n = Len(t)
  OBVIOUS
<1>3. Len(u) = m + n
  BY <1>1, <1>2
<1>4. \A k \in 1..m + n : u[k] = IF k <= m THEN s[k] ELSE t[k - m]
  BY <1>1, <1>2, ConcatProperties
<1>5. ASSUME NEW k \in 1..m + n PROVE u[k] \in Elements(s) \cup Elements(t)
  <2>1. CASE k <= m
    BY <1>2, <1>4, <2>1 DEF Elements
  <2>2. CASE ~(k <= m)
    <3>1. k - m \in 1..n /\ u[k] = t[k - m]
      BY <1>4, <2>2
    <3>2. QED  BY <1>2, <3>1 DEF Elements
  <2>3. QED  BY <2>1, <2>2
<1>6. ASSUME NEW k \in 1..m PROVE s[k] \in Elements(u)
  <2>1. k \in 1..m + n /\ u[k] = s[k]
    BY <1>4
  <2>2. QED  BY <1>3, <2>1 DEF Elements
<1>7. ASSUME NEW k \in 1..n PROVE t[k] \in Elements(u)
  <2>1. PICK j \in Nat : j = m + k
    OBVIOUS
  <2>2. j \in 1..m + n /\ ~(j <= m) /\ j - m = k
    BY <2>1
  <2>3. u[j] = t[k]
    BY <1>4, <2>2
  <2>4. QED  BY <1>3, <2>2, <2>3 DEF Elements
<1>8. Elements(u) = {u[k] : k \in 1..m + n} /\ Elements(s) = {s[k] : k \in 1..m} /\ Elements(t) = {t[k] : k \in 1..n}
  BY <1>2, <1>3 DEF Elements
<1>9. QED  BY <1>1, <1>5, <1>6, <1>7, <1>8

LEMMA ElementsOfPart ==
  ASSUME NEW s \in Seq(Nat), NEW a \in Nat, NEW b \in Nat, b <= Len(s)
  PROVE  /\ SubSeq(s, a + 1, b) \in Seq(Nat)
         /\ Len(SubSeq(s, a + 1, b)) = IF a < b THEN b - a ELSE 0
         /\ \A k \in 1..b - a : SubSeq(s, a + 1, b)[k] = s[a + k]
         /\ Elements(SubSeq(s, a + 1, b)) = Between(s, a, b)
<1>1. PICK u : u = SubSeq(s, a + 1, b)
  OBVIOUS
<1>2. \A k \in a + 1 .. b : s[k] \in Nat
  OBVIOUS
<1>3. u \in Seq(Nat)
  BY <1>1, <1>2, SubSeqProperties
<1>4. Len(u) = (IF a + 1 <= b THEN b - (a + 1) + 1 ELSE 0)
  BY <1>1, <1>2, SubSeqProperties
<1>5. \A k \in 1..b - (a + 1) + 1 : u[k] = s[a + 1 + k - 1]
  BY <1>1, <1>2, SubSeqProperties
<1>6. Len(u) = IF a < b THEN b - a ELSE 0
  BY <1>4
<1>7. \A k \in 1..b - a : u[k] = s[a + k]
  BY <1>5
<1>8. Elements(u) = Between(s, a, b)
  <2>1. ASSUME NEW k \in 1..Len(u) PROVE \E j \in a + 1 .. b : u[k] = s[j]
    <3>1. a + k \in a + 1 .. b /\ k \in 1..b - a
      BY <1>6
    <3>2. QED  BY <1>7, <3>1
  <2>2. ASSUME NEW j \in a + 1 .. b PROVE \E k \in 1..Len(u) : u[k] = s[j]
    <3>1. PICK k \in Nat : k = j - a
      OBVIOUS
    <3>2. k \in 1..b - a /\ k \in 1..Len(u) /\ a + k = j
      BY <1>6, <3>1
    <3>3. QED  BY <1>7, <3>2
  <2>3. Elements(u) \subseteq Between(s, a, b)
    BY <2>1 DEF Elements, Between
  <2>4. Between(s, a, b) \subseteq Elements(u)
    BY <2>2 DEF Elements, Between
  <2>5. QED  BY <2>3, <2>4
<1>9. QED  BY <1>1, <1>3, <1>6, <1>7, <1>8

\* What is added to a book leaves its readers where they are.
LEMMA BooksGrow ==
  ASSUME AuditInv, walk' = walk, BooksTyped',
         DOMAIN trail \subseteq DOMAIN trail', \A i \in DOMAIN trail : trail'[i] = trail[i],
         DOMAIN alerts \subseteq DOMAIN alerts', \A i \in DOMAIN alerts : alerts'[i] = alerts[i]
  PROVE  AuditInv'
<1>1. Matching \subseteq Matching' /\ Seen' = Seen /\ Rest' = Rest
  BY DEF Matching, Seen, Rest, Elements
<1>2. walk.kind = "none" => Seen = {} /\ Meant' = {}
  BY DEF AuditInv, WalkTyped, Seen, Meant, Elements
<1>3. walk.kind # "none" => Meant' = Meant
  <2> SUFFICES ASSUME walk.kind # "none" PROVE Meant' = Meant
    OBVIOUS
  <2>1. CASE walk.kind \in AuditWalks
    <3>1. walk.ids \subseteq DOMAIN trail
      BY <2>1 DEF AuditInv, WalkTyped
    <3>2. \A i \in walk.ids : i \in Matching' <=> i \in Matching
      BY <2>1, <3>1 DEF Matching
    <3>3. QED  BY <3>2 DEF Meant
  <2>2. CASE walk.kind \notin AuditWalks
    <3>1. walk.ids \subseteq DOMAIN alerts
      BY <2>2 DEF AuditInv, WalkTyped, Walks, AuditWalks
    <3>2. \A i \in walk.ids : i \in Matching' <=> i \in Matching
      BY <2>2, <3>1 DEF Matching
    <3>3. QED  BY <3>2 DEF Meant
  <2>3. QED  BY <2>1, <2>2
<1>4. WalkTyped'
  BY DEF AuditInv, WalkTyped
<1>5. ShownInOrder'
  <2>1. CASE walk.kind = "none"
    BY <1>1, <1>2, <2>1 DEF ShownInOrder
  <2>2. CASE walk.kind # "none"
    BY <1>1, <1>3, <2>2 DEF AuditInv, ShownInOrder
  <2>3. QED  BY <2>1, <2>2
<1>6. PagesInOrder'
  <2> SUFFICES ASSUME walk.kind \in {"pages", "history"}, walk.phase \in {"asks", "counted"}, NEW i \in Meant, i \notin Seen
               PROVE  Cardinality(Upto(i)') > walk.offset
    BY <1>1, <1>3 DEF PagesInOrder
  <2>1. Cardinality(Upto(i)) > walk.offset
    BY DEF AuditInv, PagesInOrder
  <2>2. Upto(i) \subseteq Upto(i)'
    BY <1>1 DEF Upto, NotOlder
  <2>3. IsFiniteSet(Matching') /\ IsFiniteSet(Matching)
    <3>1. IsFiniteSet(1..Len(trail')) /\ IsFiniteSet(1..Len(alerts'))
      BY FS_Interval DEF BooksTyped
    <3>2. DOMAIN trail' = 1..Len(trail') /\ DOMAIN alerts' = 1..Len(alerts')
      BY DEF BooksTyped
    <3>3. Matching' \subseteq DOMAIN trail' \/ Matching' \subseteq DOMAIN alerts'
      BY DEF Matching
    <3>4. IsFiniteSet(Matching')
      BY <3>1, <3>2, <3>3, FS_Subset
    <3>5. IsFiniteSet(Matching)
      BY MatchingOK DEF AuditInv
    <3>6. QED  BY <3>4, <3>5
  <2>4. Upto(i)' \subseteq Matching' /\ Upto(i) \subseteq Matching
    BY DEF Upto, NotOlder
  <2>5. IsFiniteSet(Upto(i)') /\ IsFiniteSet(Upto(i))
    BY <2>3, <2>4, FS_Subset
  <2>6. Cardinality(Upto(i)) <= Cardinality(Upto(i)') /\ Cardinality(Upto(i)) \in Nat /\ Cardinality(Upto(i)') \in Nat
    BY <2>2, <2>5, FS_Subset, FS_CardinalityType
  <2>7. walk.offset \in Nat
    BY DEF AuditInv, WalkTyped, Walks
  <2>8. QED  BY <2>1, <2>6, <2>7
<1>7. ExportInOrder'
  BY <1>1, <1>3 DEF AuditInv, ExportInOrder
<1>8. EndSeen'
  BY <1>1, <1>2, <1>3 DEF AuditInv, EndSeen, WalkTyped
<1>9. QED  BY <1>4, <1>5, <1>6, <1>7, <1>8 DEF AuditInv

\* The next page: no entry that is still to be shown is above it.
LEMMA TurnOK ==
  ASSUME AuditInv, walk.kind \in {"pages", "history"}, walk.phase \in {"asks", "counted"}, walk' \in Walks,
         UNCHANGED <<trail, alerts, tornLine>>,
         walk'.kind = walk.kind, walk'.asked = walk.asked, walk'.ids = walk.ids, walk'.left = walk.left,
         NEW r, r = Slice(NewestFirst(Matching), walk.offset),
         walk'.shown = walk.shown \o r, walk'.offset = walk.offset + PageSize,
         walk'.phase = IF Len(r) < PageSize THEN "done" ELSE "asks"
  PROVE  AuditInv'
<1>1. PICK L : L = NewestFirst(Matching)
  OBVIOUS
<1>2. ListOf(L, Matching) /\ Matching \subseteq Nat
  BY <1>1, ListingOK, MatchingOK DEF AuditInv
<1>3. L \in Seq(Nat) /\ Len(L) \in Nat /\ \A n \in 1..Len(L) : L[n] \in Matching
  <2>1. L \in Seq(Matching)
    BY <1>2 DEF ListOf
  <2>2. Len(L) \in Nat
    BY <2>1
  <2>3. \A n \in 1..Len(L) : L[n] \in Matching
    BY <2>1
  <2>4. L \in Seq(Nat)
    BY <1>2, <2>1, SeqMonotonic
  <2>5. QED  BY <2>2, <2>3, <2>4
<1>4. PICK o \in Nat : o = walk.offset
  BY DEF AuditInv, WalkTyped, Walks
<1>5. PICK z \in Nat : z = (IF o + PageSize < Len(L) THEN o + PageSize ELSE Len(L))
  <2>1. (IF o + PageSize < Len(L) THEN o + PageSize ELSE Len(L)) \in Nat
    BY <1>3, AuditAssumption
  <2>2. QED  BY <2>1
<1>6. r = SubSeq(L, o + 1, z)
  BY <1>1, <1>4, <1>5 DEF Slice
<1>7. z <= Len(L) /\ PageSize \in Nat /\ PageSize > 0
  BY <1>3, <1>5, AuditAssumption
<1>8. r \in Seq(Nat) /\ Len(r) = (IF o < z THEN z - o ELSE 0) /\ Seen' = Seen \cup {L[n] : n \in o + 1 .. z}
  <2>1. r \in Seq(Nat)
    BY <1>3, <1>6, <1>7, ElementsOfPart
  <2>2. Len(r) = (IF o < z THEN z - o ELSE 0)
    BY <1>3, <1>6, <1>7, ElementsOfPart
  <2>3. Elements(r) = Between(L, o, z)
    BY <1>3, <1>6, <1>7, ElementsOfPart
  <2>4. walk.shown \in Seq(Nat)
    BY DEF AuditInv, WalkTyped, Walks
  <2>5. Elements(walk'.shown) = Elements(walk.shown) \cup Elements(r)
    BY <2>1, <2>4, ElementsOfConcat
  <2>6. QED  BY <2>1, <2>2, <2>3, <2>5 DEF Seen, Between
<1>9. Matching' = Matching /\ Meant' = Meant
  BY DEF Matching, Meant
<1>10. \A i : Upto(i)' = Upto(i)
  BY <1>9 DEF Upto, NotOlder
\* An entry that was not shown is below what was.
<1>11. \A i \in Meant : i \notin Seen => \E m \in 1..Len(L) : m > o /\ L[m] = i /\ m = Cardinality(Upto(i))
  <2> SUFFICES ASSUME NEW i \in Meant, i \notin Seen
               PROVE  \E m \in 1..Len(L) : m > o /\ L[m] = i /\ m = Cardinality(Upto(i))
    OBVIOUS
  <2>1. PICK m \in 1..Len(L) : L[m] = i
    BY <1>2 DEF ListOf, Meant
  <2>2. Cardinality(Upto(i)) = m
    <3>1. Cardinality(NotOlder(Matching, L[m])) = m
      BY <1>2, PlaceOK
    <3>2. QED  BY <2>1, <3>1 DEF Upto
  <2>3. Cardinality(Upto(i)) > o
    BY <1>4 DEF AuditInv, PagesInOrder
  <2>4. QED  BY <2>1, <2>2, <2>3
<1>12. \A m, n \in 1..Len(L) : m < n => L[m] > L[n]
  BY <1>2 DEF ListOf
<1>14. ShownInOrder'
  <2>1. Seen' \subseteq Matching'
    BY <1>3, <1>8, <1>9, <1>7 DEF AuditInv, ShownInOrder
  <2>2. ASSUME NEW i \in Meant, NEW j \in Seen', j < i PROVE i \in Seen'
    <3>1. CASE j \in Seen
      BY <1>8, <2>2, <3>1 DEF AuditInv, ShownInOrder
    <3>2. CASE i \notin Seen /\ \E n \in o + 1 .. z : j = L[n]
      <4>1. PICK n \in o + 1 .. z : j = L[n]
        BY <3>2
      <4>2. PICK m \in 1..Len(L) : m > o /\ L[m] = i
        BY <1>11, <3>2
      <4>3. ~(n < m)
        <5> SUFFICES ASSUME n < m PROVE FALSE
          OBVIOUS
        <5>1. n \in 1..Len(L) /\ L[n] \in Nat /\ L[m] \in Nat
          BY <1>3, <1>7
        <5>2. L[n] > L[m]
          BY <1>12, <5>1
        <5>3. QED  BY <2>2, <4>1, <4>2, <5>1, <5>2
      <4>4. m \in o + 1 .. z
        BY <4>2, <4>3
      <4>5. QED  BY <1>8, <4>2, <4>4
    <3>3. QED  BY <1>8, <3>1, <3>2
  <2>3. QED  BY <2>1, <2>2, <1>9 DEF ShownInOrder
<1>15. PagesInOrder'
  <2> SUFFICES ASSUME walk'.phase = "asks", NEW i \in Meant, i \notin Seen' PROVE Cardinality(Upto(i)) > o + PageSize
    BY <1>4, <1>9, <1>10 DEF PagesInOrder
  <2>1. ~(Len(r) < PageSize)
    OBVIOUS
  <2>2. z = o + PageSize
    BY <1>3, <1>5, <1>7, <1>8, <2>1
  <2>3. PICK m \in 1..Len(L) : m > o /\ L[m] = i /\ m = Cardinality(Upto(i))
    BY <1>8, <1>11
  <2>4. m \notin o + 1 .. z
    BY <1>8, <2>3
  <2>5. QED  BY <2>2, <2>3, <2>4
<1>16. EndSeen'
  <2> SUFFICES ASSUME walk'.phase = "done", NEW i \in Meant PROVE i \in Seen'
    BY <1>9 DEF EndSeen
  <2>1. Len(r) < PageSize
    OBVIOUS
  <2>2. z = Len(L)
    BY <1>3, <1>5, <1>7, <1>8, <2>1
  <2>3. CASE i \in Seen
    BY <1>8, <2>3
  <2>4. CASE i \notin Seen
    <3>1. PICK m \in 1..Len(L) : m > o /\ L[m] = i
      BY <1>11, <2>4
    <3>2. QED  BY <1>8, <2>2, <3>1
  <2>5. QED  BY <2>3, <2>4
<1>17. WalkTyped' /\ ExportInOrder' /\ BooksTyped'
  BY DEF AuditInv, WalkTyped, ExportInOrder, BooksTyped
<1>18. QED  BY <1>14, <1>15, <1>16, <1>17 DEF AuditInv

LEMMA GoneOK ==
  /\ Gone \in Walks /\ Gone.kind = "none" /\ Gone.ids = {} /\ Gone.shown = <<>> /\ Gone.phase = "idle"
  /\ Gone.asked \in Questions /\ Gone.left = <<>>
  BY DEF Gone, Walks, Questions

LEMMA AsksOK ==
  ASSUME NEW k \in {"pages", "export", "event", "history", "stream"}, NEW q \in Questions \cup AlertQuestions,
         NEW ids \in SUBSET Nat
  PROVE  /\ Asks(k, q, ids) \in Walks
         /\ Asks(k, q, ids).kind = k /\ Asks(k, q, ids).asked = q /\ Asks(k, q, ids).ids = ids
         /\ Asks(k, q, ids).offset = 0 /\ Asks(k, q, ids).shown = <<>> /\ Asks(k, q, ids).left = <<>>
         /\ Asks(k, q, ids).phase = "asks"
<1>1. Gone \in Walks
  BY GoneOK
<1>2. Asks(k, q, ids).offset = 0 /\ Asks(k, q, ids).shown = <<>> /\ Asks(k, q, ids).left = <<>>
  BY DEF Asks, Gone
<1>3. Asks(k, q, ids).kind = k /\ Asks(k, q, ids).asked = q /\ Asks(k, q, ids).ids = ids /\ Asks(k, q, ids).phase = "asks"
  BY DEF Asks, Gone
<1>4. Asks(k, q, ids) \in Walks
  <2>1. PICK a \in Walks : a = [Gone EXCEPT !.kind = k]
    BY <1>1 DEF Walks
  <2>2. PICK b \in Walks : b = [a EXCEPT !.asked = q]
    BY DEF Walks
  <2>3. PICK c \in Walks : c = [b EXCEPT !.ids = ids]
    BY DEF Walks
  <2>4. PICK d \in Walks : d = [c EXCEPT !.phase = "asks"]
    BY DEF Walks
  <2>5. QED  BY <2>1, <2>2, <2>3, <2>4 DEF Asks
<1>5. QED  BY <1>2, <1>3, <1>4

LEMMA EmptyElements == Elements(<<>>) = {}
  BY DEF Elements

LEMMA AuditStart == AuditInit => AuditInv
<1> SUFFICES ASSUME AuditInit PROVE AuditInv
  OBVIOUS
<1>1. BooksTyped
  <2>1. trail \in Seq(LedgerEntries) /\ Len(trail) = 0
    BY DEF AuditInit
  <2>2. alerts \in Seq(Severities) /\ Len(alerts) = 0
    BY DEF AuditInit
  <2>3. 0 <= MaxEvents /\ 0 <= MaxAlerts
    BY AuditAssumption
  <2>4. tornLine \in BOOLEAN
    BY DEF AuditInit
  <2>5. QED  BY <2>1, <2>2, <2>3, <2>4 DEF BooksTyped
<1>2. walk \in Walks /\ walk.kind = "none" /\ walk.ids = {} /\ walk.shown = <<>> /\ walk.left = <<>> /\ walk.phase = "idle"
  BY GoneOK DEF AuditInit
<1>3. WalkTyped
  BY <1>2 DEF WalkTyped, AuditWalks
<1>4. Seen = {} /\ Meant = {}
  BY <1>2, EmptyElements DEF Seen, Meant
<1>5. ShownInOrder /\ PagesInOrder /\ ExportInOrder /\ EndSeen
  BY <1>2, <1>4 DEF ShownInOrder, PagesInOrder, ExportInOrder, EndSeen
<1>6. QED  BY <1>1, <1>3, <1>5 DEF AuditInv

LEMMA LeaveOK == ASSUME AuditInv, walk' = Gone, UNCHANGED <<trail, alerts, tornLine>> PROVE AuditInv'
<1>1. BooksTyped'
  BY DEF AuditInv, BooksTyped
<1>2. walk' \in Walks /\ walk'.kind = "none" /\ walk'.ids = {} /\ walk'.shown = <<>> /\ walk'.left = <<>> /\ walk'.phase = "idle"
  BY GoneOK
<1>3. WalkTyped'
  BY <1>2 DEF WalkTyped, AuditWalks
<1>4. Seen' = {} /\ Meant' = {}
  BY <1>2, EmptyElements DEF Seen, Meant
<1>5. ShownInOrder' /\ PagesInOrder' /\ ExportInOrder' /\ EndSeen'
  BY <1>2, <1>4 DEF ShownInOrder, PagesInOrder, ExportInOrder, EndSeen
<1>6. QED  BY <1>1, <1>3, <1>5 DEF AuditInv

LEMMA LogDecisionOK == ASSUME AuditInv, NEW e \in LedgerEntries, LogDecision(e) PROVE AuditInv'
<1>1. trail' = Append(trail, e) /\ Len(trail) < MaxEvents /\ UNCHANGED <<alerts, tornLine, walk>>
  BY DEF LogDecision
<1>2. trail \in Seq(LedgerEntries)
  BY DEF AuditInv, BooksTyped
<1>3. trail' \in Seq(LedgerEntries) /\ Len(trail') = Len(trail) + 1 /\ \A i \in 1..Len(trail) : trail'[i] = trail[i]
  BY <1>1, <1>2, AppendProperties
<1>4. BooksTyped'
  BY <1>1, <1>2, <1>3, AuditAssumption DEF AuditInv, BooksTyped
<1>5. DOMAIN trail \subseteq DOMAIN trail' /\ \A i \in DOMAIN trail : trail'[i] = trail[i]
  BY <1>2, <1>3
<1>6. QED  BY <1>1, <1>4, <1>5, BooksGrow

LEMMA AppendAlertOK == ASSUME AuditInv, NEW v \in Severities, AppendAlert(v) PROVE AuditInv'
<1>1. alerts' = Append(alerts, v) /\ Len(alerts) < MaxAlerts /\ UNCHANGED <<trail, tornLine, walk>>
  BY DEF AppendAlert
<1>2. alerts \in Seq(Severities)
  BY DEF AuditInv, BooksTyped
<1>3. alerts' \in Seq(Severities) /\ Len(alerts') = Len(alerts) + 1 /\ \A i \in 1..Len(alerts) : alerts'[i] = alerts[i]
  BY <1>1, <1>2, AppendProperties
<1>4. BooksTyped'
  BY <1>1, <1>2, <1>3, AuditAssumption DEF AuditInv, BooksTyped
<1>5. DOMAIN alerts \subseteq DOMAIN alerts' /\ \A i \in DOMAIN alerts : alerts'[i] = alerts[i]
  BY <1>2, <1>3
<1>6. QED  BY <1>1, <1>4, <1>5, BooksGrow

LEMMA TearAlertOK == ASSUME AuditInv, UNCHANGED <<trail, alerts, walk>>, tornLine' \in BOOLEAN PROVE AuditInv'
<1>1. BooksTyped'
  BY DEF AuditInv, BooksTyped
<1>2. QED  BY <1>1, BooksGrow

\* A reader that begins has been shown nothing: its first page begins at the newest entry.
LEMMA BeginOK ==
  ASSUME AuditInv, NEW k \in {"pages", "history"}, NEW q, NEW ids \in SUBSET Nat,
         k = "pages" => q \in Questions /\ ids \subseteq DOMAIN trail,
         k = "history" => q \in AlertQuestions /\ ids \subseteq DOMAIN alerts,
         walk' = Asks(k, q, ids), UNCHANGED <<trail, alerts, tornLine>>
  PROVE  AuditInv'
<1>1. walk' \in Walks
  BY AsksOK
<1>2. walk'.kind = k /\ walk'.asked = q /\ walk'.ids = ids /\ walk'.offset = 0
  <2>1. walk'.kind = k
    BY AsksOK
  <2>2. walk'.asked = q
    BY AsksOK
  <2>3. walk'.ids = ids
    BY AsksOK
  <2>4. walk'.offset = 0
    BY AsksOK
  <2>5. QED  BY <2>1, <2>2, <2>3, <2>4
<1>3. walk'.shown = <<>> /\ walk'.left = <<>> /\ walk'.phase = "asks"
  <2>1. walk'.shown = <<>>
    BY AsksOK
  <2>2. walk'.phase = "asks"
    BY AsksOK
  <2>3. walk'.left = <<>>
    BY AsksOK
  <2>4. QED  BY <2>1, <2>2, <2>3
<1>4. BooksTyped'
  BY DEF AuditInv, BooksTyped
<1>5. WalkTyped'
  BY <1>1, <1>2, <1>3 DEF WalkTyped, AuditWalks
<1>6. Seen' = {}
  BY <1>3, EmptyElements DEF Seen
<1>7. ASSUME NEW i \in Meant' PROVE Cardinality(Upto(i)') > 0
  <2>1. i \in Matching'
    BY DEF Meant
  <2>2. Matching' \subseteq DOMAIN trail \/ Matching' \subseteq DOMAIN alerts
    BY DEF Matching
  <2>3. DOMAIN trail = 1..Len(trail) /\ DOMAIN alerts = 1..Len(alerts) /\ Len(trail) \in Nat /\ Len(alerts) \in Nat
    BY DEF AuditInv, BooksTyped
  <2>4. IsFiniteSet(1..Len(trail)) /\ IsFiniteSet(1..Len(alerts))
    BY <2>3, FS_Interval
  <2>5. IsFiniteSet(Matching') /\ i \in Nat
    BY <2>1, <2>2, <2>3, <2>4, FS_Subset
  <2>6. Upto(i)' \subseteq Matching' /\ i \in Upto(i)'
    BY <2>1, <2>5 DEF Upto, NotOlder
  <2>7. IsFiniteSet(Upto(i)') /\ Upto(i)' # {}
    BY <2>5, <2>6, FS_Subset
  <2>8. Cardinality(Upto(i)') \in Nat /\ Cardinality(Upto(i)') # 0
    BY <2>7, FS_CardinalityType, FS_EmptySet
  <2>9. QED  BY <2>8
<1>8. ShownInOrder' /\ PagesInOrder' /\ ExportInOrder' /\ EndSeen'
  BY <1>2, <1>3, <1>6, <1>7 DEF ShownInOrder, PagesInOrder, ExportInOrder, EndSeen
<1>9. QED  BY <1>4, <1>5, <1>8 DEF AuditInv

LEMMA BeginPagesOK == ASSUME AuditInv, NEW q \in Questions, BeginPages(q) PROVE AuditInv'
<1>1. walk' = Asks("pages", q, DOMAIN trail) /\ UNCHANGED <<trail, alerts, tornLine>>
  BY DEF BeginPages
<1>2. DOMAIN trail \in SUBSET Nat
  BY DEF AuditInv, BooksTyped
<1>3. QED  BY <1>1, <1>2, BeginOK

LEMMA BeginHistoryOK == ASSUME AuditInv, NEW q \in AlertQuestions, BeginHistory(q) PROVE AuditInv'
<1>1. walk' = Asks("history", q, DOMAIN alerts) /\ UNCHANGED <<trail, alerts, tornLine>>
  BY DEF BeginHistory
<1>2. DOMAIN alerts \in SUBSET Nat
  BY DEF AuditInv, BooksTyped
<1>3. QED  BY <1>1, <1>2, BeginOK

LEMMA ListedMatching ==
  /\ walk.kind = "pages" => ListedEvents(walk.asked) = NewestFirst(Matching)
  /\ walk.kind = "history" => ListedAlerts(walk.asked) = NewestFirst(Matching)
  BY DEF ListedEvents, ListedAlerts, Matching, AuditWalks

LEMMA CountPageOK == ASSUME AuditInv, CountPage PROVE AuditInv'
<1>1. /\ walk.kind = "pages" /\ walk.phase = "asks" /\ UNCHANGED <<trail, alerts, tornLine>>
      /\ walk' = [walk EXCEPT !.total = Len(ListedEvents(walk.asked)), !.phase = "counted"]
  BY DEF CountPage
<1>2. walk \in Walks
  BY DEF AuditInv, WalkTyped
<1>3. PICK t \in Nat : t = Len(ListedEvents(walk.asked))
  <2>1. ListedEvents(walk.asked) \in Seq(Matching)
    BY <1>1, ListedMatching, ListingOK DEF AuditInv, ListOf
  <2>2. QED  BY <2>1
<1>4. PICK a \in Walks : a = [walk EXCEPT !.total = t]
  BY <1>2 DEF Walks
<1>5. PICK b \in Walks : b = [a EXCEPT !.phase = "counted"]
  BY DEF Walks
<1>6. walk' = b
  BY <1>1, <1>3, <1>4, <1>5
<1>7. walk' \in Walks
  BY <1>6
<1>8. /\ walk'.kind = walk.kind /\ walk'.asked = walk.asked /\ walk'.ids = walk.ids /\ walk'.shown = walk.shown
      /\ walk'.left = walk.left /\ walk'.offset = walk.offset /\ walk'.phase = "counted"
  BY <1>1, <1>2 DEF Walks
<1>9. Matching' = Matching
  BY <1>1, <1>8 DEF Matching
<1>10. Meant' = Meant /\ Seen' = Seen
  BY <1>8, <1>9 DEF Meant, Seen
<1>11. \A i : Upto(i)' = Upto(i)
  BY <1>9 DEF Upto
<1>12. BooksTyped'
  BY <1>1 DEF AuditInv, BooksTyped
<1>13. WalkTyped'
  BY <1>1, <1>7, <1>8 DEF AuditInv, WalkTyped
<1>14. ShownInOrder'
  BY <1>9, <1>10 DEF AuditInv, ShownInOrder
<1>15. PagesInOrder'
  BY <1>1, <1>8, <1>10, <1>11 DEF AuditInv, PagesInOrder
<1>16. ExportInOrder' /\ EndSeen'
  BY <1>1, <1>8 DEF ExportInOrder, EndSeen
<1>17. QED  BY <1>12, <1>13, <1>14, <1>15, <1>16 DEF AuditInv

LEMMA SliceTyped == ASSUME NEW s \in Seq(Nat), NEW o \in Nat PROVE Slice(s, o) \in Seq(Nat)
<1>1. PICK z \in Nat : z = (IF o + PageSize < Len(s) THEN o + PageSize ELSE Len(s)) /\ z <= Len(s)
  <2>1. PICK p \in Nat : p = PageSize
    BY AuditAssumption
  <2>2. PICK z \in Nat : z = IF o + p < Len(s) THEN o + p ELSE Len(s)
    OBVIOUS
  <2>3. QED  BY <2>1, <2>2
<1>2. SubSeq(s, o + 1, z) \in Seq(Nat)
  BY <1>1, ElementsOfPart
<1>3. QED  BY <1>1, <1>2 DEF Slice

\* The fields of a page's answer.
LEMMA TurnedOK ==
  ASSUME AuditInv, NEW r \in Seq(Nat)
  PROVE  /\ Turned(r) \in Walks
         /\ Turned(r).kind = walk.kind /\ Turned(r).asked = walk.asked /\ Turned(r).ids = walk.ids
         /\ Turned(r).left = walk.left
         /\ Turned(r).shown = walk.shown \o r /\ Turned(r).offset = walk.offset + PageSize
         /\ Turned(r).phase = (IF Len(r) < PageSize THEN "done" ELSE "asks")
<1>1. walk \in Walks
  BY DEF AuditInv, WalkTyped
<1>2. PICK s \in Seq(Nat) : s = walk.shown \o r
  <2>1. walk.shown \in Seq(Nat)
    BY <1>1 DEF Walks
  <2>2. walk.shown \o r \in Seq(Nat)
    BY <2>1, ConcatProperties
  <2>3. QED  BY <2>2
<1>3. PICK o \in Nat : o = walk.offset + PageSize
  <2>1. walk.offset \in Nat /\ PageSize \in Nat
    BY <1>1, AuditAssumption DEF Walks
  <2>2. QED  BY <2>1
<1>4. PICK p \in {"done", "asks"} : p = (IF Len(r) < PageSize THEN "done" ELSE "asks")
  OBVIOUS
<1>5. PICK a \in Walks : a = [walk EXCEPT !.shown = s]
  BY <1>1 DEF Walks
<1>6. PICK b \in Walks : b = [a EXCEPT !.offset = o]
  BY DEF Walks
<1>7. PICK c \in Walks : c = [b EXCEPT !.phase = p]
  BY DEF Walks
<1>8. Turned(r) = c
  BY <1>2, <1>3, <1>4, <1>5, <1>6, <1>7 DEF Turned, Walks
<1>9. c.kind = walk.kind /\ c.asked = walk.asked /\ c.ids = walk.ids /\ c.left = walk.left /\ c.shown = s /\ c.offset = o /\ c.phase = p
  BY <1>1, <1>5, <1>6, <1>7 DEF Walks
<1>10. QED  BY <1>2, <1>3, <1>4, <1>8, <1>9

LEMMA ListingTyped == ASSUME AuditInv PROVE NewestFirst(Matching) \in Seq(Nat)
<1>1. NewestFirst(Matching) \in Seq(Matching) /\ Matching \subseteq Nat
  BY ListingOK, MatchingOK DEF AuditInv, ListOf
<1>2. QED  BY <1>1, SeqMonotonic

LEMMA ReadPageOK == ASSUME AuditInv, ReadPage PROVE AuditInv'
<1>1. PICK r : r = Slice(NewestFirst(Matching), walk.offset)
  OBVIOUS
<1>2. /\ walk.kind = "pages" /\ walk.phase = "counted" /\ UNCHANGED <<trail, alerts, tornLine>>
      /\ walk' = Turned(r)
  BY <1>1, ListedMatching DEF ReadPage
<1>3. r \in Seq(Nat)
  BY <1>1, ListingTyped, SliceTyped DEF AuditInv, WalkTyped, Walks
<1>4. walk' \in Walks
  BY <1>2, <1>3, TurnedOK
<1>5. walk'.kind = walk.kind /\ walk'.asked = walk.asked /\ walk'.ids = walk.ids /\ walk'.left = walk.left
  <2>1. walk'.kind = walk.kind
    BY <1>2, <1>3, TurnedOK
  <2>2. walk'.asked = walk.asked
    BY <1>2, <1>3, TurnedOK
  <2>3. walk'.ids = walk.ids
    BY <1>2, <1>3, TurnedOK
  <2>4. walk'.left = walk.left
    BY <1>2, <1>3, TurnedOK
  <2>5. QED  BY <2>1, <2>2, <2>3, <2>4
<1>6. walk'.shown = walk.shown \o r
  BY <1>2, <1>3, TurnedOK
<1>7. walk'.offset = walk.offset + PageSize
  BY <1>2, <1>3, TurnedOK
<1>8. walk'.phase = IF Len(r) < PageSize THEN "done" ELSE "asks"
  BY <1>2, <1>3, TurnedOK
<1>9. QED  BY <1>1, <1>2, <1>4, <1>5, <1>6, <1>7, <1>8, TurnOK

LEMMA ReadHistoryOK == ASSUME AuditInv, ReadHistory PROVE AuditInv'
<1>1. PICK r : r = Slice(NewestFirst(Matching), walk.offset)
  OBVIOUS
<1>2. walk.kind = "history" /\ walk.phase = "asks" /\ UNCHANGED <<trail, alerts, tornLine>>
  BY DEF ReadHistory
<1>3. CASE tornLine
  BY <1>2, <1>3, LeaveOK DEF ReadHistory
<1>4. CASE ~tornLine
  <2>1. r \in Seq(Nat)
    BY <1>1, ListingTyped, SliceTyped DEF AuditInv, WalkTyped, Walks
  <2>2. PICK t \in Nat : t = Len(NewestFirst(Matching))
    BY ListingTyped
  <2>3. PICK w : w = Turned(r)
    OBVIOUS
  <2>4. walk' = [w EXCEPT !.total = t]
    BY <1>1, <1>2, <1>4, <2>2, <2>3, ListedMatching DEF ReadHistory
  <2>5. w \in Walks
    BY <2>1, <2>3, TurnedOK
  <2>6. w.kind = walk.kind
    BY <2>1, <2>3, TurnedOK
  <2>7. w.asked = walk.asked
    BY <2>1, <2>3, TurnedOK
  <2>8. w.ids = walk.ids
    BY <2>1, <2>3, TurnedOK
  <2>9. w.shown = walk.shown \o r
    BY <2>1, <2>3, TurnedOK
  <2>10. w.offset = walk.offset + PageSize
    BY <2>1, <2>3, TurnedOK
  <2>11. w.phase = IF Len(r) < PageSize THEN "done" ELSE "asks"
    BY <2>1, <2>3, TurnedOK
  <2>15. w.left = walk.left
    BY <2>1, <2>3, TurnedOK
  <2>12. walk' \in Walks
    BY <2>4, <2>5 DEF Walks
  <2>13. /\ walk'.kind = w.kind /\ walk'.asked = w.asked /\ walk'.ids = w.ids /\ walk'.shown = w.shown /\ walk'.left = w.left
         /\ walk'.offset = w.offset /\ walk'.phase = w.phase
    BY <2>4, <2>5 DEF Walks
  <2>14. QED
    BY <1>1, <1>2, <2>6, <2>7, <2>8, <2>9, <2>10, <2>11, <2>12, <2>13, <2>15, TurnOK
<1>5. QED  BY <1>3, <1>4

\* What is listed is what matches.
LEMMA ElementsOfList ==
  ASSUME NEW S, NEW s, ListOf(s, S), S \subseteq Nat
  PROVE  s \in Seq(Nat) /\ Elements(s) = S
<1>1. s \in Seq(S) /\ \A x \in S : \E n \in 1..Len(s) : s[n] = x
  BY DEF ListOf
<1>2. s \in Seq(Nat)
  BY <1>1, SeqMonotonic
<1>3. Elements(s) \subseteq S
  BY <1>1 DEF Elements
<1>4. S \subseteq Elements(s)
  BY <1>1 DEF Elements
<1>5. QED  BY <1>2, <1>3, <1>4

LEMMA BeginExportOK == ASSUME AuditInv, NEW q \in Questions, BeginExport(q) PROVE AuditInv'
<1> DEFINE S == {i \in DOMAIN trail : Selected(trail[i], q)}
<1>1. PICK L : L = NewestFirst(S)
  OBVIOUS
<1>2. PICK w : w = Asks("export", q, DOMAIN trail)
  OBVIOUS
<1>3. walk' = [w EXCEPT !.left = L] /\ UNCHANGED <<trail, alerts, tornLine>>
  BY <1>1, <1>2 DEF BeginExport, ListedEvents
<1>4. DOMAIN trail = 1..Len(trail) /\ Len(trail) \in Nat
  BY DEF AuditInv, BooksTyped
<1>5. IsFiniteSet(S) /\ S \subseteq Nat
  <2>1. IsFiniteSet(DOMAIN trail) /\ S \subseteq DOMAIN trail
    BY <1>4, FS_Interval
  <2>2. IsFiniteSet(S)
    BY <2>1, FS_Subset
  <2>3. QED  BY <1>4, <2>1, <2>2
<1>6. ListOf(L, S)
  <2> HIDE DEF S
  <2>1. QED  BY <1>1, <1>5, NewestFirstOK
<1>7. L \in Seq(Nat) /\ Elements(L) = S
  <2> HIDE DEF S
  <2>1. QED  BY <1>5, <1>6, ElementsOfList
<1>8. w \in Walks /\ DOMAIN trail \in SUBSET Nat
  BY <1>2, <1>4, AsksOK
<1>9. w.kind = "export"
  BY <1>2, <1>8, AsksOK
<1>10. w.asked = q
  BY <1>2, <1>8, AsksOK
<1>11. w.ids = DOMAIN trail
  BY <1>2, <1>8, AsksOK
<1>12. w.shown = <<>>
  BY <1>2, <1>8, AsksOK
<1>13. w.phase = "asks"
  BY <1>2, <1>8, AsksOK
<1>14. walk' \in Walks
  BY <1>3, <1>7, <1>8 DEF Walks
<1>15. /\ walk'.kind = "export" /\ walk'.asked = q /\ walk'.ids = DOMAIN trail /\ walk'.shown = <<>>
       /\ walk'.phase = "asks" /\ walk'.left = L
  BY <1>3, <1>8, <1>9, <1>10, <1>11, <1>12, <1>13 DEF Walks
<1>16. Matching' = S
  BY <1>3, <1>15 DEF Matching, AuditWalks
<1>17. Seen' = {} /\ Rest' = S
  BY <1>7, <1>15, EmptyElements DEF Seen, Rest
<1>18. \A m, n \in 1..Len(L) : m < n => L[m] > L[n]
  BY <1>6 DEF ListOf
<1> HIDE DEF S
<1>19. BooksTyped'
  BY <1>3 DEF AuditInv, BooksTyped
<1>20. WalkTyped'
  BY <1>3, <1>14, <1>15 DEF WalkTyped, AuditWalks
<1>21. ExportInOrder'
  BY <1>15, <1>16, <1>17, <1>18 DEF ExportInOrder, Meant
<1>22. ShownInOrder' /\ PagesInOrder' /\ EndSeen'
  BY <1>15, <1>17 DEF ShownInOrder, PagesInOrder, EndSeen
<1>23. QED  BY <1>19, <1>20, <1>21, <1>22 DEF AuditInv

\* What an export fetches next is newer than what it leaves for later.
LEMMA FetchBatchOK == ASSUME AuditInv, FetchBatch PROVE AuditInv'
<1>1. walk \in Walks /\ walk.kind = "export" /\ walk.phase = "asks" /\ UNCHANGED <<trail, alerts, tornLine>>
  BY DEF FetchBatch, AuditInv, WalkTyped
<1>2. PICK L \in Seq(Nat), l \in Nat : L = walk.left /\ l = Len(L)
  BY <1>1 DEF Walks
<1>3. PICK n \in Nat : n = (IF Batch < l THEN Batch ELSE l) /\ n <= l
  <2>1. PICK b \in Nat : b = Batch
    BY AuditAssumption
  <2>2. QED  BY <2>1
<1>4. PICK one, m : one = 0 + 1 /\ m = n + 1 /\ one = 1
  OBVIOUS
<1>5. PICK F : F = SubSeq(L, 1, n)
  OBVIOUS
<1>6. PICK R : R = SubSeq(L, n + 1, l)
  OBVIOUS
<1>7. F \in Seq(Nat) /\ Elements(F) = Between(L, 0, n)
  <2>1. F = SubSeq(L, 0 + 1, n)
    BY <1>5
  <2>2. 0 \in Nat /\ n <= Len(L)
    BY <1>2, <1>3
  <2>3. SubSeq(L, 0 + 1, n) \in Seq(Nat)
    BY <2>2, ElementsOfPart
  <2>4. Elements(SubSeq(L, 0 + 1, n)) = Between(L, 0, n)
    BY <2>2, ElementsOfPart
  <2>5. QED  BY <2>1, <2>3, <2>4
<1>8. /\ R \in Seq(Nat) /\ Elements(R) = Between(L, n, l) /\ Len(R) = IF n < l THEN l - n ELSE 0
      /\ \A k \in 1..l - n : R[k] = L[n + k]
  <2>1. l \in Nat /\ l <= Len(L)
    BY <1>2
  <2>2. R \in Seq(Nat)
    BY <1>6, <2>1, ElementsOfPart
  <2>3. Elements(R) = Between(L, n, l)
    BY <1>6, <2>1, ElementsOfPart
  <2>4. Len(R) = IF n < l THEN l - n ELSE 0
    BY <1>6, <2>1, ElementsOfPart
  <2>5. \A k \in 1..l - n : R[k] = L[n + k]
    BY <1>6, <2>1, ElementsOfPart
  <2>6. QED  BY <2>2, <2>3, <2>4, <2>5
<1>9. PICK p \in {"done", "asks"} : p = IF n = 0 THEN "done" ELSE "asks"
  OBVIOUS
<1>10. PICK s \in Seq(Nat) : s = walk.shown \o F
  <2>1. walk.shown \in Seq(Nat)
    BY <1>1 DEF Walks
  <2>2. walk.shown \o F \in Seq(Nat)
    BY <1>7, <2>1, ConcatProperties
  <2>3. QED  BY <2>2
<1>11. PICK a \in Walks : a = [walk EXCEPT !.shown = s]
  BY <1>1 DEF Walks
<1>12. PICK b \in Walks : b = [a EXCEPT !.left = R]
  BY <1>8 DEF Walks
<1>13. PICK c \in Walks : c = [b EXCEPT !.phase = p]
  BY DEF Walks
<1>14. walk' = c
  <2>1. n = IF Batch < Len(walk.left) THEN Batch ELSE Len(walk.left)
    BY <1>2, <1>3
  <2>2. walk' = [walk EXCEPT !.shown = walk.shown \o SubSeq(walk.left, 1, n),
                             !.left = SubSeq(walk.left, n + 1, Len(walk.left)),
                             !.phase = IF n = 0 THEN "done" ELSE "asks"]
    BY <1>1, <2>1 DEF FetchBatch
  <2>3. walk' = [walk EXCEPT !.shown = s, !.left = R, !.phase = p]
    BY <1>2, <1>5, <1>6, <1>9, <1>10, <2>2
  <2>4. QED  BY <1>1, <1>11, <1>12, <1>13, <2>3 DEF Walks
<1>15. /\ walk' \in Walks /\ walk'.kind = "export" /\ walk'.asked = walk.asked /\ walk'.ids = walk.ids
       /\ walk'.shown = s /\ walk'.left = R /\ walk'.phase = p
  BY <1>1, <1>11, <1>12, <1>13, <1>14 DEF Walks
<1>16. Matching' = Matching
  BY <1>1, <1>15 DEF Matching
<1>17. Meant' = Meant
  BY <1>15, <1>16 DEF Meant
<1>18. Seen' = Seen \cup Between(L, 0, n)
  <2>1. walk.shown \in Seq(Nat)
    BY <1>1 DEF Walks
  <2>2. Elements(s) = Elements(walk.shown) \cup Elements(F)
    BY <1>7, <1>10, <2>1, ElementsOfConcat
  <2>3. QED  BY <1>7, <1>15, <2>2 DEF Seen
<1>19. Rest = Elements(L) /\ Rest' = Between(L, n, l)
  BY <1>2, <1>8, <1>15 DEF Rest
<1>20. Elements(L) = Between(L, 0, n) \cup Between(L, n, l)
  <2>1. 1..l = (0 + 1 .. n) \cup (n + 1 .. l)
    BY <1>3
  <2>2. {L[k] : k \in 1..l} = {L[k] : k \in 0 + 1 .. n} \cup {L[k] : k \in n + 1 .. l}
    BY <2>1
  <2>3. QED  BY <1>2, <2>2 DEF Elements, Between
<1>21. \A i, j \in 1..l : i < j => L[i] > L[j]
  BY <1>1, <1>2 DEF AuditInv, ExportInOrder
<1>22. \A i \in Between(L, 0, n), j \in Between(L, n, l) : i > j
  <2> SUFFICES ASSUME NEW x \in 0 + 1 .. n, NEW y \in n + 1 .. l PROVE L[x] > L[y]
    BY DEF Between
  <2>1. x \in 1..l /\ y \in 1..l /\ x < y
    BY <1>3
  <2>2. QED  BY <1>21, <2>1
<1>23. /\ Rest \subseteq Matching /\ Meant \subseteq Seen \cup Rest /\ \A i \in Seen, j \in Rest : i > j
       /\ Seen \subseteq Matching
  BY <1>1 DEF AuditInv, ExportInOrder, ShownInOrder
<1>24. \A i, j \in 1..Len(R) : i < j => R[i] > R[j]
  <2> SUFFICES ASSUME NEW i \in 1..Len(R), NEW j \in 1..Len(R), i < j PROVE R[i] > R[j]
    OBVIOUS
  <2>1. i \in 1..l - n /\ j \in 1..l - n /\ n + i \in 1..l /\ n + j \in 1..l /\ n + i < n + j
    BY <1>3, <1>8
  <2>2. R[i] = L[n + i] /\ R[j] = L[n + j]
    BY <1>8, <2>1
  <2>3. L[n + i] > L[n + j]
    BY <1>21, <2>1
  <2>4. QED  BY <2>2, <2>3
<1>25. \A i \in Seen', j \in Rest' : i > j
  BY <1>18, <1>19, <1>20, <1>22, <1>23
<1>26. Rest' \subseteq Matching' /\ Meant' \subseteq Seen' \cup Rest' /\ Seen' \subseteq Matching'
  BY <1>16, <1>17, <1>18, <1>19, <1>20, <1>23
<1>27. ExportInOrder'
  BY <1>15, <1>24, <1>25, <1>26 DEF ExportInOrder
<1>28. ShownInOrder'
  <2>1. \A i \in Meant', j \in Seen' : j < i => i \in Seen'
    <3> SUFFICES ASSUME NEW i \in Meant', NEW j \in Seen', j < i, i \notin Seen' PROVE FALSE
      OBVIOUS
    <3>1. i \in Rest' /\ i \in Matching' /\ j \in Matching'
      BY <1>26 DEF Meant
    <3>2. j > i
      BY <1>25, <3>1
    <3>3. i \in Nat /\ j \in Nat
      BY <1>16, <3>1, MatchingOK DEF AuditInv
    <3>4. QED  BY <3>2, <3>3
  <2>2. QED  BY <1>26, <2>1 DEF ShownInOrder
<1>29. EndSeen'
  <2> SUFFICES ASSUME p = "done" PROVE Meant' \subseteq Seen'
    BY <1>15 DEF EndSeen
  <2>1. n = 0 /\ Batch \in Nat /\ Batch # 0
    BY <1>9, AuditAssumption
  <2>2. l = 0
    BY <1>3, <2>1
  <2>3. Between(L, n, l) = {}
    BY <2>1, <2>2 DEF Between
  <2>4. QED  BY <1>19, <1>26, <2>3
<1>30. BooksTyped'
  BY <1>1 DEF AuditInv, BooksTyped
<1>31. WalkTyped'
  BY <1>1, <1>15 DEF AuditInv, WalkTyped, AuditWalks
<1>32. PagesInOrder'
  BY <1>15 DEF PagesInOrder
<1>33. QED  BY <1>27, <1>28, <1>29, <1>30, <1>31, <1>32 DEF AuditInv

LEMMA GetAuditEventOK == ASSUME AuditInv, NEW i \in DOMAIN trail, GetAuditEvent(i) PROVE AuditInv'
<1>1. PICK q \in Questions : q = Gone.asked /\ q.action = "any" /\ q.actor = "any"
  <2>1. Gone.asked \in Questions
    BY GoneOK
  <2>2. Gone.asked.action = "any" /\ Gone.asked.actor = "any"
    BY DEF Gone
  <2>3. QED  BY <2>1, <2>2
<1>2. DOMAIN trail \subseteq Nat
  BY DEF AuditInv, BooksTyped
<1>3. PICK w : w = Asks("event", q, {i})
  OBVIOUS
<1>4. PICK s \in Seq(Nat) : s = IF Selected(trail[i], q) THEN <<i>> ELSE <<>>
  <2>1. i \in Nat
    BY <1>2
  <2>2. <<i>> \in Seq(Nat) /\ <<>> \in Seq(Nat)
    BY <2>1
  <2>3. QED  BY <2>2
<1>5. walk' = [w EXCEPT !.shown = s, !.phase = "done"] /\ UNCHANGED <<trail, alerts, tornLine>>
  BY <1>1, <1>3, <1>4 DEF GetAuditEvent
<1>6. w \in Walks /\ {i} \in SUBSET Nat
  BY <1>2, <1>3, AsksOK
<1>7. w.kind = "event"
  BY <1>3, <1>6, AsksOK
<1>8. w.asked = q
  BY <1>3, <1>6, AsksOK
<1>9. w.ids = {i}
  BY <1>3, <1>6, AsksOK
<1>22. w.left = <<>>
  BY <1>3, <1>6, AsksOK
<1>10. PICK a \in Walks : a = [w EXCEPT !.shown = s]
  BY <1>6 DEF Walks
<1>11. PICK b \in Walks : b = [a EXCEPT !.phase = "done"]
  BY DEF Walks
<1>12. walk' = b
  BY <1>5, <1>6, <1>10, <1>11 DEF Walks
<1>13. /\ walk' \in Walks /\ walk'.kind = "event" /\ walk'.asked = q /\ walk'.ids = {i}
       /\ walk'.shown = s /\ walk'.left = <<>> /\ walk'.phase = "done"
  BY <1>6, <1>7, <1>8, <1>9, <1>10, <1>11, <1>12, <1>22 DEF Walks
<1>14. Matching' = {k \in DOMAIN trail : Selected(trail[k], q)}
  BY <1>5, <1>13 DEF Matching, AuditWalks
<1>15. Seen' = IF Selected(trail[i], q) THEN {i} ELSE {}
  <2>1. Elements(<<i>>) = {i}
    BY DEF Elements
  <2>2. QED  BY <1>4, <1>13, <2>1, EmptyElements DEF Seen
<1>16. Meant' = IF Selected(trail[i], q) THEN {i} ELSE {}
  BY <1>13, <1>14 DEF Meant
<1>17. ShownInOrder'
  BY <1>14, <1>15, <1>16 DEF ShownInOrder
<1>18. BooksTyped'
  BY <1>5 DEF AuditInv, BooksTyped
<1>19. WalkTyped'
  BY <1>5, <1>13 DEF WalkTyped, AuditWalks
<1>20. PagesInOrder' /\ ExportInOrder' /\ EndSeen'
  BY <1>13, <1>15, <1>16 DEF PagesInOrder, ExportInOrder, EndSeen
<1>21. QED  BY <1>17, <1>18, <1>19, <1>20 DEF AuditInv

LEMMA ReverseOK ==
  ASSUME NEW s \in Seq(Nat)
  PROVE  Reverse(s) \in Seq(Nat) /\ Elements(Reverse(s)) = Elements(s)
<1>1. PICK n \in Nat : n = Len(s)
  OBVIOUS
<1>2. PICK r : r = [k \in 1..n |-> s[(n - k) + 1]]
  OBVIOUS
<1>3. Reverse(s) = r
  BY <1>1, <1>2 DEF Reverse
<1>4. \A k \in 1..n : (n - k) + 1 \in 1..n /\ (n - ((n - k) + 1)) + 1 = k
  OBVIOUS
<1>5. r \in [1..n -> Nat]
  BY <1>1, <1>2, <1>4
<1>6. r \in Seq(Nat) /\ Len(r) = n
  BY <1>5
<1>7. Elements(r) = {r[k] : k \in 1..n} /\ Elements(s) = {s[k] : k \in 1..n}
  BY <1>1, <1>6 DEF Elements
<1>8. \A k \in 1..n : r[k] = s[(n - k) + 1] /\ r[(n - k) + 1] = s[k]
  BY <1>2, <1>4
<1>9. Elements(r) = Elements(s)
  <2>1. ASSUME NEW x \in Elements(r) PROVE x \in Elements(s)
    BY <1>4, <1>7, <1>8
  <2>2. ASSUME NEW x \in Elements(s) PROVE x \in Elements(r)
    BY <1>4, <1>7, <1>8
  <2>3. QED  BY <2>1, <2>2
<1>10. QED  BY <1>3, <1>6, <1>9

LEMMA StreamAlertsOK == ASSUME AuditInv, NEW q \in AlertQuestions, StreamAlerts(q) PROVE AuditInv'
<1> DEFINE S == {i \in DOMAIN alerts : q.severity \in {"any", alerts[i]}}
<1>1. PICK L : L = NewestFirst(S)
  OBVIOUS
<1>2. PICK w : w = Asks("stream", q, DOMAIN alerts)
  OBVIOUS
<1>3. DOMAIN alerts = 1..Len(alerts) /\ Len(alerts) \in Nat
  BY DEF AuditInv, BooksTyped
<1>4. IsFiniteSet(S) /\ S \subseteq Nat
  <2>1. IsFiniteSet(DOMAIN alerts) /\ S \subseteq DOMAIN alerts
    BY <1>3, FS_Interval
  <2>2. IsFiniteSet(S)
    BY <2>1, FS_Subset
  <2>3. QED  BY <1>3, <2>1, <2>2
<1>5. ListOf(L, S)
  <2> HIDE DEF S
  <2>1. QED  BY <1>1, <1>4, NewestFirstOK
<1>6. L \in Seq(Nat) /\ Elements(L) = S
  <2> HIDE DEF S
  <2>1. QED  BY <1>4, <1>5, ElementsOfList
<1>7. PICK l \in Nat : l = Len(L)
  BY <1>6
<1>8. PICK n \in Nat : n = (IF Replay < l THEN Replay ELSE l) /\ n <= l
  <2>1. PICK b \in Nat : b = Replay
    BY AuditAssumption
  <2>2. QED  BY <2>1
<1>9. PICK F : F = SubSeq(L, 1, n)
  OBVIOUS
<1>10. F \in Seq(Nat) /\ Elements(F) = Between(L, 0, n)
  <2>1. F = SubSeq(L, 0 + 1, n)
    BY <1>9
  <2>2. 0 \in Nat /\ n <= Len(L)
    BY <1>7, <1>8
  <2>3. SubSeq(L, 0 + 1, n) \in Seq(Nat)
    BY <1>6, <2>2, ElementsOfPart
  <2>4. Elements(SubSeq(L, 0 + 1, n)) = Between(L, 0, n)
    BY <1>6, <2>2, ElementsOfPart
  <2>5. QED  BY <2>1, <2>3, <2>4
<1>11. PICK r \in Seq(Nat) : r = Reverse(F) /\ Elements(r) = Between(L, 0, n)
  BY <1>10, ReverseOK
<1>12. walk' = [w EXCEPT !.shown = r, !.phase = "live"] /\ UNCHANGED <<trail, alerts, tornLine>>
  <2>1. L = ListedAlerts(q)
    BY <1>1 DEF ListedAlerts
  <2>2. QED  BY <1>2, <1>7, <1>8, <1>9, <1>11, <2>1 DEF StreamAlerts
<1>13. w \in Walks /\ DOMAIN alerts \in SUBSET Nat
  BY <1>2, <1>3, AsksOK
<1>14. w.kind = "stream"
  BY <1>2, <1>13, AsksOK
<1>15. w.asked = q
  BY <1>2, <1>13, AsksOK
<1>16. w.ids = DOMAIN alerts
  BY <1>2, <1>13, AsksOK
<1>30. w.left = <<>>
  BY <1>2, <1>13, AsksOK
<1>17. PICK a \in Walks : a = [w EXCEPT !.shown = r]
  BY <1>13 DEF Walks
<1>18. PICK b \in Walks : b = [a EXCEPT !.phase = "live"]
  BY DEF Walks
<1>19. walk' = b
  BY <1>12, <1>13, <1>17, <1>18 DEF Walks
<1>20. /\ walk' \in Walks /\ walk'.kind = "stream" /\ walk'.asked = q /\ walk'.ids = DOMAIN alerts
       /\ walk'.shown = r /\ walk'.left = <<>> /\ walk'.phase = "live"
  BY <1>13, <1>14, <1>15, <1>16, <1>17, <1>18, <1>19, <1>30 DEF Walks
<1>21. Matching' = S
  BY <1>12, <1>20 DEF Matching, AuditWalks
<1>22. Seen' = Between(L, 0, n)
  BY <1>11, <1>20 DEF Seen
<1> HIDE DEF S
<1>23. /\ \A x, y \in 1..l : x < y => L[x] > L[y]
       /\ \A z \in S : \E x \in 1..l : L[x] = z
       /\ \A x \in 1..l : L[x] \in S
  BY <1>5, <1>7 DEF ListOf
<1>24. Between(L, 0, n) \subseteq S
  BY <1>8, <1>23 DEF Between
<1>25. ShownInOrder'
  <2>1. ASSUME NEW i \in S, NEW j \in Between(L, 0, n), j < i PROVE i \in Between(L, 0, n)
    <3>1. PICK x \in 1..l : L[x] = i
      BY <1>23
    <3>2. PICK y \in 0 + 1 .. n : L[y] = j
      BY DEF Between
    <3>3. x <= n
      <4> SUFFICES ASSUME n < x PROVE FALSE
        BY <1>8
      <4>1. y \in 1..l /\ y < x
        BY <1>8
      <4>2. j > i /\ i \in Nat /\ j \in Nat
        BY <1>4, <1>23, <1>24, <3>1, <3>2, <4>1
      <4>3. QED  BY <2>1, <4>2
    <3>4. QED  BY <3>1, <3>3 DEF Between
  <2>2. QED  BY <1>21, <1>22, <1>24, <2>1 DEF ShownInOrder, Meant
<1>26. BooksTyped'
  BY <1>12 DEF AuditInv, BooksTyped
<1>27. WalkTyped'
  BY <1>12, <1>20 DEF WalkTyped, AuditWalks
<1>28. PagesInOrder' /\ ExportInOrder' /\ EndSeen'
  BY <1>20 DEF PagesInOrder, ExportInOrder, EndSeen
<1>29. QED  BY <1>25, <1>26, <1>27, <1>28 DEF AuditInv

LEMMA AuditStep == AuditInv /\ [TrailNext \/ AlertNext]_auditVars => AuditInv'
<1> SUFFICES ASSUME AuditInv, [TrailNext \/ AlertNext]_auditVars PROVE AuditInv'
  OBVIOUS
<1>1. CASE TrailNext
  <2>1. ASSUME NEW e \in LedgerEntries, LogDecision(e) PROVE AuditInv'
    BY <2>1, LogDecisionOK
  <2>2. ASSUME NEW q \in Questions, BeginPages(q) \/ BeginExport(q) PROVE AuditInv'
    BY <2>2, BeginPagesOK, BeginExportOK
  <2>3. CASE CountPage
    BY <2>3, CountPageOK
  <2>4. CASE ReadPage
    BY <2>4, ReadPageOK
  <2>5. CASE FetchBatch
    BY <2>5, FetchBatchOK
  <2>6. ASSUME NEW i \in DOMAIN trail, GetAuditEvent(i) PROVE AuditInv'
    BY <2>6, GetAuditEventOK
  <2>7. CASE Leave
    BY <2>7, LeaveOK DEF Leave
  <2>8. QED  BY <1>1, <2>1, <2>2, <2>3, <2>4, <2>5, <2>6, <2>7 DEF TrailNext
<1>2. CASE AlertNext
  <2>1. ASSUME NEW v \in Severities, AppendAlert(v) PROVE AuditInv'
    BY <2>1, AppendAlertOK
  <2>2. CASE TearAlert
    BY <2>2, TearAlertOK DEF TearAlert
  <2>3. ASSUME NEW q \in AlertQuestions, BeginHistory(q) \/ StreamAlerts(q) PROVE AuditInv'
    BY <2>3, BeginHistoryOK, StreamAlertsOK
  <2>4. CASE ReadHistory
    BY <2>4, ReadHistoryOK
  <2>5. CASE Leave
    BY <2>5, LeaveOK DEF Leave
  <2>6. QED  BY <1>2, <2>1, <2>2, <2>3, <2>4, <2>5 DEF AlertNext
<1>3. CASE UNCHANGED auditVars
  <2>1. UNCHANGED <<trail, alerts, walk>> /\ tornLine' = tornLine
    BY <1>3 DEF auditVars
  <2>2. tornLine' \in BOOLEAN
    BY <2>1 DEF AuditInv, BooksTyped
  <2>3. QED  BY <2>1, <2>2, TearAlertOK
<1>4. QED  BY <1>1, <1>2, <1>3

\* Whatever is written while the reader turns its pages, what it has seen is in order.
THEOREM AuditInvHolds == AuditSpec => []AuditInv
<1>1. QED  BY AuditStart, AuditStep, PTL DEF AuditSpec

LEMMA ShownInBooks == ASSUME AuditInv PROVE AuditTypeOK
<1>1. walk \in Walks /\ trail \in Seq(LedgerEntries) /\ alerts \in Seq(Severities)
  BY DEF AuditInv, WalkTyped, BooksTyped
<1>2. Range(trail) \subseteq LedgerEntries /\ Range(alerts) \subseteq Severities
  BY <1>1 DEF Range
<1>3. Len(trail) <= MaxEvents /\ Len(alerts) <= MaxAlerts
  BY DEF AuditInv, BooksTyped
<1>4. tornLine \in BOOLEAN
  BY DEF AuditInv, BooksTyped
<1>5. walk.kind \in AuditWalks \cup {"none", "history", "stream"}
  BY <1>1 DEF Walks, AuditWalks
<1>6. walk.asked \in Questions \cup AlertQuestions /\ walk.phase \in {"idle", "asks", "counted", "done", "live"}
  BY <1>1 DEF Walks
<1>7. walk.total \in Nat /\ walk.offset \in Nat
  BY <1>1 DEF Walks
<1>8. PICK B \in Nat : B = MaxEvents + MaxAlerts /\ Len(trail) <= B /\ Len(alerts) <= B
  <2>1. PICK a \in Nat, b \in Nat, c \in Nat, d \in Nat : a = MaxEvents /\ b = MaxAlerts /\ c = Len(trail) /\ d = Len(alerts)
    BY <1>1, AuditAssumption
  <2>2. QED  BY <1>3, <2>1
<1>9. DOMAIN trail \subseteq 1..B /\ DOMAIN alerts \subseteq 1..B
  BY <1>1, <1>8
<1>10. Matching \subseteq 1..B
  BY <1>9, MatchingOK DEF AuditInv
<1>11. walk.ids \subseteq 1..B
  <2>1. walk.kind = "none" => walk.ids = {}
    BY DEF AuditInv, WalkTyped
  <2>2. walk.kind \in AuditWalks => walk.ids \subseteq DOMAIN trail
    BY DEF AuditInv, WalkTyped
  <2>3. walk.kind \in {"history", "stream"} => walk.ids \subseteq DOMAIN alerts
    BY DEF AuditInv, WalkTyped
  <2>4. QED  BY <1>5, <1>9, <2>1, <2>2, <2>3
<1>12. walk.shown \in Seq(Nat) /\ walk.left \in Seq(Nat) /\ Seen \subseteq 1..B
  BY <1>1, <1>10 DEF Walks, AuditInv, ShownInOrder
<1>13. Rest \subseteq 1..B
  <2>1. walk.kind # "export" => Rest = {}
    BY EmptyElements DEF AuditInv, WalkTyped, Rest
  <2>2. walk.kind = "export" => Rest \subseteq Matching
    BY DEF AuditInv, ExportInOrder
  <2>3. QED  BY <1>10, <2>1, <2>2
<1>14. Range(walk.shown \o walk.left) \subseteq 1..B
  <2>1. PICK s : s = walk.shown \o walk.left
    OBVIOUS
  <2>2. s \in Seq(Nat)
    BY <1>12, <2>1, ConcatProperties
  <2>3. Range(s) = Elements(s)
    BY <2>2 DEF Range, Elements
  <2>4. Elements(s) = Seen \cup Rest
    BY <1>12, <2>1, ElementsOfConcat DEF Seen, Rest
  <2>5. QED  BY <1>12, <1>13, <2>1, <2>3, <2>4
<1>15. walk.ids \cup Range(walk.shown \o walk.left) \subseteq 1..(MaxEvents + MaxAlerts)
  BY <1>8, <1>11, <1>14
<1>16. QED  BY <1>2, <1>3, <1>4, <1>5, <1>6, <1>7, <1>15 DEF AuditTypeOK

\* The books hold what may be written, and a reader only ids of theirs (audit/normalize.py,
\* core/alerts.py).
THEOREM AuditTypes == AuditSpec => []AuditTypeOK
<1>1. QED  BY AuditInvHolds, ShownInBooks, PTL

\* An entry means what was asked exactly if SQL selects it.
LEMMA MeansMatching ==
  ASSUME AuditInv, walk.kind # "none", NEW i \in walk.ids \cup Matching
  PROVE  Means(i) <=> i \in Matching
<1>1. walk \in Walks /\ trail \in Seq(LedgerEntries) /\ alerts \in Seq(Severities)
  BY DEF AuditInv, WalkTyped, BooksTyped
<1>2. CASE walk.kind \in AuditWalks
  <2>1. walk.asked \in Questions /\ i \in DOMAIN trail
    BY <1>2, MatchingOK DEF AuditInv, WalkTyped
  <2>2. PICK e \in LedgerEntries : e = trail[i]
    BY <1>1, <2>1
  <2>3. PICK q \in Questions : q = walk.asked
    BY <2>1
  <2>4. q.action \in AUDIT_ACTIONS \/ q.action = "any"
    BY DEF Questions
  <2>5. i \in Matching <=> Selected(e, q)
    BY <1>2, <2>1, <2>2, <2>3 DEF Matching
  <2>6. Means(i) <=> /\ ActionOf(e) \in (IF q.action = "any" THEN AUDIT_ACTIONS ELSE {q.action})
                     /\ q.actor \in {"any", ActorOf(e)}
    BY <1>2, <2>2, <2>3 DEF Means
  <2>7. q.actor \in {"any", ActorOf(e)} <=> (q.actor # "any" => ActorOf(e) = q.actor)
    OBVIOUS
  <2>8. CASE q.action = "any"
    <3>1. Auditable(e) <=> ActionOf(e) \in AUDIT_ACTIONS
      BY SelectedIsShown
    <3>2. QED  BY <2>5, <2>6, <2>7, <2>8, <3>1 DEF Selected
  <2>9. CASE q.action # "any"
    <3>1. q.action \in AUDIT_ACTIONS
      BY <2>4, <2>9
    <3>2. Auditable(e) /\ ActionPredicate(q.action, e) <=> ActionOf(e) = q.action
      BY <3>1, ShownAsSelected
    <3>3. QED  BY <2>5, <2>6, <2>7, <2>9, <3>2 DEF Selected
  <2>10. QED  BY <2>8, <2>9
<1>3. CASE walk.kind \notin AuditWalks
  <2>1. walk.kind \in {"history", "stream"}
    BY <1>1, <1>3 DEF Walks, AuditWalks
  <2>2. i \in DOMAIN alerts
    BY <1>3, <2>1, MatchingOK DEF AuditInv, WalkTyped
  <2>3. QED  BY <1>3, <2>2 DEF Matching, Means
<1>4. QED  BY <1>2, <1>3

\* A reader is shown only what its question means, nothing is left out between two entries it was
\* shown, and at the end it has seen all that was there when it began (audit/normalize.py).
THEOREM AuditTrailIsComplete == AuditSpec => []TrailIsComplete
<1>1. ASSUME AuditInv PROVE TrailIsComplete
  <2>1. PICK got : got = Range(walk.shown)
    OBVIOUS
  <2>2. PICK meant : meant = {i \in walk.ids : Means(i)}
    OBVIOUS
  <2>3. got = Seen
    <3>1. walk.shown \in Seq(Nat)
      BY <1>1 DEF AuditInv, WalkTyped, Walks
    <3>2. QED  BY <2>1, <3>1 DEF Range, Seen, Elements
  <2> SUFFICES ASSUME walk.kind # "none"
               PROVE  /\ \A i \in got : Means(i)
                      /\ \A i \in meant : (\E j, k \in got : j < i /\ i < k) => i \in got
                      /\ walk.phase = "done" => meant \subseteq got
    BY <2>1, <2>2 DEF TrailIsComplete
  <2>4. \A i \in walk.ids \cup Matching : Means(i) <=> i \in Matching
    BY <1>1, MeansMatching
  <2>5. meant = Meant
    BY <2>2, <2>4 DEF Meant
  <2>6. got \subseteq Matching /\ \A i \in meant, j \in got : j < i => i \in got
    BY <1>1, <2>3, <2>5 DEF AuditInv, ShownInOrder
  <2>7. \A i \in got : Means(i)
    BY <2>4, <2>6
  <2>8. walk.phase = "done" => meant \subseteq got
    BY <1>1, <2>3, <2>5 DEF AuditInv, EndSeen
  <2>9. QED  BY <2>6, <2>7, <2>8
<1>2. QED  BY <1>1, AuditInvHolds, PTL

-----------------------------------------------------------------------------
(* The market (api/routes/market.py).                                      *)

\* The sum of what speaks for the action is the score of its side.
LEMMA ScoreShown ==
  ASSUME NEW i \in Indicators, NEW a \in {1, -1}, a = Action(i), NEW shown, shown = [f \in Factors |-> Contribution(i, a, f)]
  PROVE  /\ Score(i, a) \in 4..10 /\ i.regime # "chaotic"
         /\ Balance([f \in Factors |-> IF shown[f] > 0 THEN shown[f] ELSE 0]) = Score(i, a)
         /\ Balance(shown) > 0
<1>1. PICK r \in {-1, 0, 1} : r = Direction(i)["rsi"]
  BY DEF Direction
<1>2. PICK m \in {-1, 0, 1} : m = Direction(i)["macd"]
  BY DEF Direction
<1>3. PICK g \in {-1, 0, 1} : g = Direction(i)["regime"]
  BY DEF Direction
<1>4. Weight["rsi"] = 4 /\ Weight["macd"] = 3 /\ Weight["regime"] = 3
  BY DEF Weight
<1>5. shown["rsi"] = a * r * 4 /\ shown["macd"] = a * m * 3 /\ shown["regime"] = a * g * 3
  BY <1>1, <1>2, <1>3, <1>4 DEF Contribution, Factors
<1>6. \A side \in {1, -1} : Score(i, side) =
        IF i.regime = "chaotic" THEN 0
        ELSE (IF r = side THEN 4 ELSE 0) + (IF m = side THEN 3 ELSE 0) + (IF g = side THEN 3 ELSE 0)
  BY <1>1, <1>2, <1>3, <1>4 DEF Score, Balance, Factors
<1>7. Score(i, a) >= 4 /\ Score(i, a) > Score(i, 0 - a)
  BY DEF Action
<1>8. i.regime # "chaotic"
  BY <1>6, <1>7
<1>9. PICK p : p = [f \in Factors |-> IF shown[f] > 0 THEN shown[f] ELSE 0]
  OBVIOUS
<1>10. PICK x, y, z : x = shown["rsi"] /\ y = shown["macd"] /\ z = shown["regime"]
  OBVIOUS
<1>11. p["rsi"] = (IF x > 0 THEN x ELSE 0) /\ p["macd"] = (IF y > 0 THEN y ELSE 0) /\ p["regime"] = IF z > 0 THEN z ELSE 0
  BY <1>9, <1>10 DEF Factors
<1>12. Balance(p) = (IF x > 0 THEN x ELSE 0) + (IF y > 0 THEN y ELSE 0) + (IF z > 0 THEN z ELSE 0)
  BY <1>11 DEF Balance
<1>13. Balance(shown) = x + y + z
  BY <1>10 DEF Balance
<1>14. PICK s \in Int, t \in Int : s = Score(i, a) /\ t = Score(i, 0 - a)
  <2>1. 0 - a \in {1, -1}
    OBVIOUS
  <2>2. QED  BY <1>6, <2>1
<1>15. s = (IF r = a THEN 4 ELSE 0) + (IF m = a THEN 3 ELSE 0) + (IF g = a THEN 3 ELSE 0)
  BY <1>6, <1>8, <1>14
<1>16. t = (IF r = 0 - a THEN 4 ELSE 0) + (IF m = 0 - a THEN 3 ELSE 0) + (IF g = 0 - a THEN 3 ELSE 0)
  <2>1. 0 - a \in {1, -1}
    OBVIOUS
  <2>2. QED  BY <1>6, <1>8, <1>14, <2>1
<1>17. s >= 4 /\ s > t
  BY <1>7, <1>14
<1>23. ASSUME NEW d \in {-1, 0, 1}, NEW w \in {3, 4}, NEW u, u = a * d * w
       PROVE  /\ (IF u > 0 THEN u ELSE 0) = (IF d = a THEN w ELSE 0)
              /\ u = (IF d = a THEN w ELSE 0) - (IF d = 0 - a THEN w ELSE 0)
  <2>1. CASE a = 1
    BY <1>23, <2>1
  <2>2. CASE a = -1
    BY <1>23, <2>2
  <2>3. QED  BY <2>1, <2>2
<1>24. (IF x > 0 THEN x ELSE 0) = (IF r = a THEN 4 ELSE 0) /\ x = (IF r = a THEN 4 ELSE 0) - (IF r = 0 - a THEN 4 ELSE 0)
  BY <1>5, <1>10, <1>23
<1>25. (IF y > 0 THEN y ELSE 0) = (IF m = a THEN 3 ELSE 0) /\ y = (IF m = a THEN 3 ELSE 0) - (IF m = 0 - a THEN 3 ELSE 0)
  BY <1>5, <1>10, <1>23
<1>26. (IF z > 0 THEN z ELSE 0) = (IF g = a THEN 3 ELSE 0) /\ z = (IF g = a THEN 3 ELSE 0) - (IF g = 0 - a THEN 3 ELSE 0)
  BY <1>5, <1>10, <1>23
<1>18. Balance(p) = s
  BY <1>12, <1>15, <1>24, <1>25, <1>26
<1>19. Balance(shown) = s - t
  BY <1>13, <1>15, <1>16, <1>24, <1>25, <1>26
<1>20. s \in 4..10
  BY <1>15, <1>17
<1>21. Balance(shown) > 0
  BY <1>17, <1>19
<1>22. QED  BY <1>8, <1>9, <1>14, <1>18, <1>20, <1>21

\* Rounding moves a price by half a cent at most.
LEMMA RoundedNear == ASSUME NEW x \in Int, NEW y \in Rounded(x) PROVE y \in Int /\ y - x <= 5 /\ x - y <= 5
<1>1. PICK q \in Int : q = x \div 10 /\ 10 * q <= x /\ x < 10 * q + 10
  OBVIOUS
<1>2. PICK below \in Int : below = q * 10
  OBVIOUS
<1>3. below = (x \div 10) * 10
  BY <1>1, <1>2
<1>4. y = below \/ y = below + 10
  BY <1>3 DEF Rounded
<1>5. y = below => x - below <= 5
  BY <1>1, <1>2, <1>3 DEF Rounded
<1>6. y = below + 10 => x - below >= 5
  BY <1>1, <1>2, <1>3 DEF Rounded
<1>7. QED  BY <1>1, <1>2, <1>4, <1>5, <1>6

LEMMA Offsets ==
  ASSUME NEW i \in Indicators
  PROVE  Offset(i, 3) \in Nat /\ Offset(i, 6) \in Nat /\ Offset(i, 3) <= Offset(i, 6)
<1>1. i.price \in Nat /\ i.atr \in Nat
  BY MarketAssumption DEF Indicators
<1>2. PICK a \in Nat : a = IF i.atr = 0 THEN i.price \div 50 ELSE i.atr
  <2>1. i.price \div 50 \in Nat
    BY <1>1
  <2>2. QED  BY <1>1, <2>1
<1>3. Offset(i, 3) = (a * 3) \div 2 /\ Offset(i, 6) = (a * 6) \div 2
  BY <1>2 DEF Offset
<1>4. (a * 3) \div 2 \in Nat /\ (a * 6) \div 2 \in Nat /\ (a * 3) \div 2 <= (a * 6) \div 2
  OBVIOUS
<1>5. QED  BY <1>3, <1>4

LEMMA SignalServed == ASSUME ServeSignal PROVE SignalExplained' /\ seen'.kind = "signal"
<1>1. PICK i \in Indicators :
        LET action == Action(i)
            confidence == IF action = 0 THEN 30 ELSE Min({95, 10 * Score(i, action)})
            shown == [f \in Factors |-> Contribution(i, action, f)]
        IN  \E stop \in Rounded(i.price - action * Offset(i, 3)), target \in Rounded(i.price + action * Offset(i, 6)) :
              Tell([kind |-> "signal", given |-> i, action |-> action, confidence |-> confidence, shown |-> shown,
                    levels |-> IF action = 0 THEN <<>> ELSE <<stop, target>>])
  BY DEF ServeSignal
<1>2. PICK a \in {-1, 0, 1} : a = Action(i)
  BY DEF Action
<1>3. PICK shown : shown = [f \in Factors |-> Contribution(i, a, f)]
  OBVIOUS
<1>4. PICK c : c = IF a = 0 THEN 30 ELSE Min({95, 10 * Score(i, a)})
  OBVIOUS
<1>5. PICK stop \in Rounded(i.price - a * Offset(i, 3)), target \in Rounded(i.price + a * Offset(i, 6)) :
        seen' = [kind |-> "signal", given |-> i, action |-> a, confidence |-> c, shown |-> shown,
                 levels |-> IF a = 0 THEN <<>> ELSE <<stop, target>>]
  BY <1>1, <1>2, <1>3, <1>4 DEF Tell
<1>6. seen'.kind = "signal" /\ seen'.given = i /\ seen'.action = a /\ seen'.confidence = c /\ seen'.shown = shown
  BY <1>5
<1>7. seen'.levels = IF a = 0 THEN <<>> ELSE <<stop, target>>
  BY <1>5
<1>8. CASE a = 0
  <2>1. seen'.levels = <<>> /\ c = 30
    BY <1>4, <1>7, <1>8
  <2>2. \A f \in Factors : shown[f] = 0
    BY <1>3, <1>8 DEF Contribution
  <2>3. QED  BY <1>6, <1>8, <2>1, <2>2 DEF SignalExplained
<1>9. CASE a # 0
  <2>1. a \in {1, -1}
    BY <1>9
  <2>2. PICK s \in 4..10 : s = Score(i, a)
    BY <1>2, <1>3, <2>1, ScoreShown
  <2>3. i.regime # "chaotic"
    BY <1>2, <1>3, <2>1, ScoreShown
  <2>4. Balance([f \in Factors |-> IF shown[f] > 0 THEN shown[f] ELSE 0]) = s
    BY <1>2, <1>3, <2>1, <2>2, ScoreShown
  <2>5. Balance(shown) > 0
    BY <1>2, <1>3, <2>1, ScoreShown
  <2>6. c = Min({95, 10 * s})
    BY <1>4, <1>9, <2>2
  <2>7. PICK price \in Nat, near \in Nat, far \in Nat : price = i.price /\ near = Offset(i, 3) /\ far = Offset(i, 6) /\ near <= far
    BY Offsets, MarketAssumption DEF Indicators
  <2>8. PICK x \in Int, y \in Int : x = price - a * near /\ y = price + a * far
    BY <2>1
  <2>9. stop \in Int /\ stop - x <= 5 /\ x - stop <= 5
    BY <1>5, <2>7, <2>8, RoundedNear
  <2>10. target \in Int /\ target - y <= 5 /\ y - target <= 5
    BY <1>5, <2>7, <2>8, RoundedNear
  <2>11. near > 5 => a * (price - stop) > 0 /\ a * (target - price) > 0
    <3>1. CASE a = 1
      BY <2>7, <2>8, <2>9, <2>10, <3>1
    <3>2. CASE a = -1
      BY <2>7, <2>8, <2>9, <2>10, <3>2
    <3>3. QED  BY <2>1, <3>1, <3>2
  <2>12. seen'.levels[1] = stop /\ seen'.levels[2] = target
    BY <1>7, <1>9
  <2>13. PICK w : w = seen'
    OBVIOUS
  <2>14. PICK for : for = Balance([f \in Factors |-> IF w.shown[f] > 0 THEN w.shown[f] ELSE 0])
    OBVIOUS
  <2>15. for = s
    BY <1>6, <2>4, <2>13, <2>14
  <2>16. for >= 4 /\ Balance(w.shown) > 0 /\ w.confidence = Min({95, 10 * for})
    BY <1>6, <2>5, <2>6, <2>13, <2>15
  <2>17. /\ w.given.regime # "chaotic"
         /\ Offset(w.given, 3) > 5 => /\ w.action * (w.given.price - w.levels[1]) > 0
                                     /\ w.action * (w.levels[2] - w.given.price) > 0
    BY <1>6, <2>3, <2>7, <2>11, <2>12, <2>13
  <2>18. w.action # 0
    BY <1>6, <1>9, <2>13
  <2>19. QED
    BY <1>6, <2>13, <2>14, <2>16, <2>17, <2>18 DEF SignalExplained
<1>10. QED  BY <1>6, <1>8, <1>9

-----------------------------------------------------------------------------
LEMMA RegimeServed == ASSUME ServeRegime PROVE HistoryExact' /\ seen'.kind = "regime"
<1>1. PICK B \in Nat \ {0}, C \in Nat \ {0} : B = Bars /\ C = HistoryCap
  BY MarketAssumption
<1>2. PICK before \in [1..B - 1 -> Regimes], last \in Readings :
        seen' = [kind |-> "regime", given |-> Append(before, DetectRegime(last)), regime |-> DetectRegime(last),
                 told |-> HistoryOf(Append(before, DetectRegime(last)), DetectRegime(last))]
  BY <1>1 DEF ServeRegime, Tell
<1>3. PICK now \in Regimes : now = DetectRegime(last)
  BY DEF DetectRegime, Regimes
<1>4. PICK s : s = Append(before, now)
  OBVIOUS
<1>5. s \in Seq(Regimes) /\ Len(s) = B /\ s[B] = now /\ \A k \in 1..B : s[k] \in Regimes
  <2>1. before \in Seq(Regimes) /\ Len(before) = B - 1
    BY <1>1
  <2>2. s \in Seq(Regimes) /\ Len(s) = (B - 1) + 1 /\ s[(B - 1) + 1] = now
    BY <1>4, <2>1, AppendProperties
  <2>3. (B - 1) + 1 = B
    OBVIOUS
  <2>4. s \in Seq(Regimes) /\ Len(s) = B /\ s[B] = now
    BY <2>2, <2>3
  <2>5. QED  BY <2>4
<1>6. PICK oldest : oldest = Max({1, B - C + 1})
  OBVIOUS
<1>7. oldest = (IF 1 >= B - C + 1 THEN 1 ELSE B - C + 1) /\ oldest \in 1..B
  <2>1. PICK x \in Int : x = B - C + 1
    OBVIOUS
  <2>2. 1 \in Int /\ Max({1, x}) = IF 1 >= x THEN 1 ELSE x
    BY TwoMax
  <2>3. oldest = IF 1 >= x THEN 1 ELSE x
    BY <1>6, <2>1, <2>2
  <2>4. QED  BY <2>1, <2>3
<1>8. PICK most \in Nat : most = Min({B, C}) /\ most = B - oldest + 1
  <2>1. Min({B, C}) = IF B <= C THEN B ELSE C
    BY TwoMin
  <2>2. QED  BY <1>7, <2>1
<1>9. PICK others : others = {n \in oldest..B : s[n] # now}
  OBVIOUS
<1>10. PICK told : told = HistoryOf(s, now)
  OBVIOUS
<1>11. told = IF others = {} THEN [bars |-> B - oldest + 1, from |-> "none"]
              ELSE [bars |-> B - Max(others), from |-> s[Max(others)]]
  BY <1>1, <1>5, <1>6, <1>9, <1>10 DEF HistoryOf
<1>12. PICK w : w = seen'
  OBVIOUS
<1>13. w.kind = "regime" /\ w.given = s /\ w.regime = now /\ w.told = told
  BY <1>2, <1>3, <1>4, <1>10, <1>12
<1>14. /\ told.bars \in 1..most
       /\ \A k \in B - told.bars + 1..B : s[k] = now
       /\ IF told.from = "none" THEN told.bars = most
          ELSE told.from = s[B - told.bars] /\ told.from # now
  <2>1. CASE others = {}
    <3>1. told.bars = most /\ told.from = "none"
      BY <1>8, <1>11, <2>1
    <3>2. \A k \in oldest..B : s[k] = now
      BY <1>9, <2>1
    <3>3. most >= 1 /\ B - most + 1 = oldest
      BY <1>7, <1>8
    <3>4. QED  BY <3>1, <3>2, <3>3
  <2>2. CASE others # {}
    <3>1. others \subseteq 0..B
      BY <1>7, <1>9
    <3>2. PICK m : m = Max(others)
      OBVIOUS
    <3>3. m \in others /\ \A y \in others : m >= y
      BY <2>2, <3>1, <3>2, GreatestElement
    <3>4. m \in oldest..B /\ s[m] # now
      BY <1>9, <3>3
    <3>5. m # B
      BY <1>5, <3>4
    <3>6. told.bars = B - m /\ told.from = s[m]
      BY <1>11, <2>2, <3>2
    <3>7. s[m] # "none"
      BY <1>5, <1>7, <3>4 DEF Regimes
    <3>8. B - m \in 1..most /\ B - (B - m) = m
      BY <1>7, <1>8, <3>4, <3>5
    <3>9. \A k \in B - (B - m) + 1..B : s[k] = now
      <4> SUFFICES ASSUME NEW k \in m + 1 .. B PROVE s[k] = now
        BY <3>8
      <4>1. k \notin others
        BY <1>7, <3>3, <3>4
      <4>2. k \in oldest..B
        BY <1>7, <3>4
      <4>3. QED  BY <1>9, <4>1, <4>2
    <3>10. QED  BY <3>4, <3>6, <3>7, <3>8, <3>9
  <2>3. QED  BY <2>1, <2>2
<1>15. QED
  BY <1>1, <1>8, <1>12, <1>13, <1>14 DEF HistoryExact

LEMMA ConfluenceServed == ASSUME ServeConfluence PROVE AlignedMeansAll' /\ seen'.kind = "confluence"
<1> DEFINE Frames == {"1h", "4h", "1d"}
<1>1. PICK t \in [Frames -> Trends] :
        LET known == {t[f] : f \in DOMAIN t} \ {"unknown"}
            aligned == Cardinality(known) = 1 /\ \A f \in DOMAIN t : t[f] # "unknown"
        IN  seen' = [kind |-> "confluence", given |-> t, aligned |-> aligned,
                     direction |-> IF aligned THEN t["1h"] ELSE "none"]
  BY DEF ServeConfluence, Tell
<1>2. PICK known : known = {t[f] : f \in Frames} \ {"unknown"}
  OBVIOUS
<1>3. PICK aligned \in BOOLEAN : aligned = (Cardinality(known) = 1 /\ \A f \in Frames : t[f] # "unknown")
  OBVIOUS
<1>4. seen'.kind = "confluence" /\ seen'.given = t /\ seen'.aligned = aligned
  BY <1>1, <1>2, <1>3
<1>5. IsFiniteSet(known)
  <2>1. known \subseteq {"bullish", "bearish"}
    BY <1>2 DEF Trends
  <2>2. IsFiniteSet({"bullish", "bearish"})
    <3>1. IsFiniteSet({"bullish"})
      BY FS_Singleton
    <3>2. IsFiniteSet({"bullish"} \cup {"bearish"})
      BY <3>1, FS_AddElement
    <3>3. QED  BY <3>2
  <2>3. QED  BY <2>1, <2>2, FS_Subset
<1>6. Cardinality(known) = 1 <=> \E x : known = {x}
  BY <1>5, FS_Singleton
<1>7. aligned <=> \A f, g \in Frames : t[f] = t[g] /\ t[f] # "unknown"
  <2>1. ASSUME aligned PROVE \A f, g \in Frames : t[f] = t[g] /\ t[f] # "unknown"
    <3>1. PICK x : known = {x}
      BY <1>3, <1>6, <2>1
    <3>2. \A f \in Frames : t[f] # "unknown" /\ t[f] \in known
      BY <1>2, <1>3, <2>1
    <3>3. QED  BY <3>1, <3>2
  <2>2. ASSUME \A f, g \in Frames : t[f] = t[g] /\ t[f] # "unknown" PROVE aligned
    <3>1. known = {t["1h"]}
      BY <1>2, <2>2
    <3>2. Cardinality(known) = 1
      BY <1>6, <3>1
    <3>3. QED  BY <1>3, <2>2, <3>2
  <2>3. QED  BY <2>1, <2>2
<1>8. QED  BY <1>4, <1>7 DEF AlignedMeansAll

-----------------------------------------------------------------------------
Profiles == [1..Bins -> 0..MaxVolume]
Areas == [lo : 1..Bins, hi : 1..Bins]

LEMMA PocOK == ASSUME NEW v \in Profiles PROVE Poc(v) \in 1..Bins /\ \A m \in 1..Bins : v[m] <= v[Poc(v)]
<1> DEFINE H == {v[n] : n \in 1..Bins}
           S == {n \in 1..Bins : \A m \in 1..Bins : v[m] <= v[n]}
<1>1. H \subseteq 0..MaxVolume /\ H # {} /\ MaxVolume \in Nat
  <2>1. \A n \in 1..Bins : v[n] \in 0..MaxVolume
    BY DEF Profiles
  <2>2. 1 \in 1..Bins
    BY MarketAssumption
  <2>3. v[1] \in H
    BY <2>2
  <2>4. QED  BY <2>1, <2>3, MarketAssumption
<1>2. Max(H) \in H /\ \A y \in H : Max(H) >= y
  <2> HIDE DEF H
  <2>1. QED  BY <1>1, GreatestElement
<1>3. PICK n \in 1..Bins : Max(H) = v[n]
  <2> PICK x : x = Max(H)
    OBVIOUS
  <2>1. x \in H
    BY <1>2
  <2>2. QED  BY <2>1
<1>4. \A m \in 1..Bins : v[m] \in Nat /\ v[n] >= v[m]
  <2>1. \A m \in 1..Bins : v[m] \in H /\ v[m] \in Nat
    BY DEF Profiles
  <2> HIDE DEF H
  <2>2. QED  BY <1>2, <1>3, <2>1
<1>5. n \in S
  BY <1>4
<1>6. S \subseteq Nat
  OBVIOUS
<1>7. Min(S) \in S
  <2> HIDE DEF S
  <2>1. QED  BY <1>5, <1>6, SmallestElement
<1>8. Poc(v) = Min(S)
  BY DEF Poc
<1> HIDE DEF S
<1>9. Poc(v) \in S
  BY <1>7, <1>8
<1>10. QED  BY <1>9 DEF S

\* An area about the heaviest bin, from which an end cannot be taken.
Tight(v, a) ==
  a.lo < a.hi => \/ a.lo < Poc(v) /\ ~Reached(v, [a EXCEPT !.lo = @ + 1])
                 \/ a.hi > Poc(v) /\ ~Reached(v, [a EXCEPT !.hi = @ - 1])
About(v, a) == a \in Areas /\ a.lo <= Poc(v) /\ Poc(v) <= a.hi /\ Tight(v, a)

LEMMA WholeReached == ASSUME NEW v \in Profiles, NEW a \in Areas, a.lo = 1, a.hi = Bins PROVE Reached(v, a)
<1>1. Bins \in Nat /\ \A k \in 1..Bins : v[k] \in Nat
  BY MarketAssumption DEF Profiles
<1>2. 0 \in 0..Bins /\ Bins \in 0..Bins
  BY <1>1
<1>3. SumTo(v, 0) \in Nat /\ SumTo(v, Bins) \in Nat /\ SumTo(v, 0) <= SumTo(v, Bins)
  BY <1>1, <1>2, SumGrows
<1>4. PICK x : x = VolumeOf(v, 1, Bins)
  OBVIOUS
<1>5. x \in Nat
  <2>1. 1 - 1 = 0
    OBVIOUS
  <2>2. x = SumTo(v, Bins) - SumTo(v, 0)
    BY <1>4, <2>1 DEF VolumeOf
  <2>3. QED  BY <1>3, <2>2
<1>6. 10 * x >= 7 * x
  BY <1>5
<1>7. QED  BY <1>4, <1>6 DEF Reached

LEMMA WidenedOK ==
  ASSUME NEW v \in Profiles, NEW a, About(v, a)
  PROVE  /\ About(v, Widened(v, a))
         /\ Reached(v, a) => Widened(v, a) = a
         /\ ~Reached(v, a) => Widened(v, a).hi - Widened(v, a).lo = a.hi - a.lo + 1
<1>1. a \in Areas /\ a.lo <= Poc(v) /\ Poc(v) <= a.hi /\ Poc(v) \in 1..Bins /\ Bins \in Nat
  BY PocOK, MarketAssumption DEF About
<1>2. PICK l \in 1..Bins, h \in 1..Bins : l = a.lo /\ h = a.hi /\ a = [lo |-> l, hi |-> h]
  BY <1>1 DEF Areas
<1>3. CASE Reached(v, a)
  BY <1>3 DEF Widened
<1>4. CASE ~Reached(v, a) /\ Beside(v, h + 1) >= Beside(v, l - 1)
  <2>1. h + 1 \in 1..Bins
    <3> SUFFICES ASSUME h = Bins PROVE FALSE
      BY <1>1
    <3>1. l # 1
      BY <1>1, <1>2, <1>4, WholeReached
    <3>2. l - 1 \in 1..Bins /\ h + 1 \notin 1..Bins
      BY <1>1, <3>1
    <3>3. Beside(v, l - 1) \in Nat /\ Beside(v, h + 1) = -1
      BY <3>2 DEF Beside, Profiles
    <3>4. QED  BY <1>4, <3>3
  <2>2. PICK b : b = [lo |-> l, hi |-> h + 1]
    OBVIOUS
  <2>3. Widened(v, a) = b
    BY <1>2, <1>4, <2>2 DEF Widened
  <2>4. b \in Areas /\ b.lo = l /\ b.hi = h + 1
    BY <2>1, <2>2 DEF Areas
  <2>5. [b EXCEPT !.hi = @ - 1] = a
    <3>1. (h + 1) - 1 = h
      OBVIOUS
    <3>2. [b EXCEPT !.hi = @ - 1] = [lo |-> l, hi |-> (h + 1) - 1]
      BY <2>2
    <3>3. QED  BY <1>2, <3>1, <3>2
  <2>6. h + 1 > Poc(v)
    BY <1>1, <1>2
  <2>7. Tight(v, b)
    BY <1>4, <2>4, <2>5, <2>6 DEF Tight
  <2>8. About(v, b)
    BY <1>1, <1>2, <2>4, <2>7 DEF About
  <2>9. b.hi - b.lo = a.hi - a.lo + 1
    BY <1>2, <2>4
  <2>10. QED  BY <1>4, <2>3, <2>8, <2>9
<1>5. CASE ~Reached(v, a) /\ ~(Beside(v, h + 1) >= Beside(v, l - 1))
  <2>1. l - 1 \in 1..Bins
    <3> SUFFICES ASSUME l - 1 \notin 1..Bins PROVE FALSE
      OBVIOUS
    <3>1. Beside(v, l - 1) = -1
      BY DEF Beside
    <3>2. Beside(v, h + 1) \in Nat \/ Beside(v, h + 1) = -1
      BY DEF Beside, Profiles
    <3>3. QED  BY <1>5, <3>1, <3>2
  <2>2. PICK b : b = [lo |-> l - 1, hi |-> h]
    OBVIOUS
  <2>3. Widened(v, a) = b
    BY <1>2, <1>5, <2>2 DEF Widened
  <2>4. b \in Areas /\ b.lo = l - 1 /\ b.hi = h
    BY <2>1, <2>2 DEF Areas
  <2>5. [b EXCEPT !.lo = @ + 1] = a
    <3>1. (l - 1) + 1 = l
      OBVIOUS
    <3>2. [b EXCEPT !.lo = @ + 1] = [lo |-> (l - 1) + 1, hi |-> h]
      BY <2>2
    <3>3. QED  BY <1>2, <3>1, <3>2
  <2>6. l - 1 < Poc(v)
    BY <1>1, <1>2
  <2>7. Tight(v, b)
    BY <1>5, <2>4, <2>5, <2>6 DEF Tight
  <2>8. About(v, b)
    BY <1>1, <1>2, <2>4, <2>7 DEF About
  <2>9. b.hi - b.lo = a.hi - a.lo + 1
    BY <1>2, <2>4
  <2>10. QED  BY <1>5, <2>3, <2>8, <2>9
<1>6. QED  BY <1>3, <1>4, <1>5

\* The areas on the way.
Widening(g, v, n) ==
  g = [k \in 0..n |-> IF k = 0 THEN [lo |-> Poc(v), hi |-> Poc(v)] ELSE Widened(v, g[k - 1])]

LEMMA WideningExists == ASSUME NEW v, NEW n \in Nat PROVE \E g : Widening(g, v, n)
<1> DEFINE S == {m \in Nat : \E g : Widening(g, v, m)}
           a == [lo |-> Poc(v), hi |-> Poc(v)]
<1>1. 0 \in S
  <2>1. Widening([k \in 0..0 |-> a], v, 0)
    BY DEF Widening
  <2>2. QED  BY <2>1
<1>2. \A m \in Nat : m \in S => m + 1 \in S
  <2> SUFFICES ASSUME NEW m \in Nat, NEW g, Widening(g, v, m) PROVE m + 1 \in S
    OBVIOUS
  <2> DEFINE h == [k \in 0..m + 1 |-> IF k = m + 1 THEN Widened(v, g[m]) ELSE g[k]]
  <2>1. \A k \in 0..m : g[k] = IF k = 0 THEN a ELSE Widened(v, g[k - 1])
    BY DEF Widening
  <2> HIDE DEF a
  <2>2. \A k \in 0..m + 1 : h[k] = IF k = 0 THEN a ELSE Widened(v, h[k - 1])
    BY <2>1
  <2>3. Widening(h, v, m + 1)
    BY <2>2 DEF Widening, a
  <2>4. QED  BY <2>3
<1> HIDE DEF S
<1>3. n \in S
  BY <1>1, <1>2, SetInduction
<1>4. QED  BY <1>3 DEF S

LEMMA ValueAreaOK == ASSUME NEW v \in Profiles PROVE About(v, ValueArea(v)) /\ Reached(v, ValueArea(v))
<1>1. PICK B \in Nat : B = Bins
  BY MarketAssumption
<1>2. PICK g : Widening(g, v, B) /\ ValueArea(v) = g[B]
  <2> DEFINE g == CHOOSE g : Widening(g, v, B)
  <2>1. Widening(g, v, B)
    BY WideningExists
  <2>2. ValueArea(v) = g[B]
    BY <1>1 DEF ValueArea, Widening
  <2>3. QED  BY <2>1, <2>2
<1>3. PICK z : z = [lo |-> Poc(v), hi |-> Poc(v)]
  OBVIOUS
<1>4. \A k \in 0..B : g[k] = IF k = 0 THEN z ELSE Widened(v, g[k - 1])
  BY <1>2, <1>3 DEF Widening
<1> DEFINE S == {n \in Nat : About(v, g[n]) /\ (Reached(v, g[n]) \/ g[n].hi - g[n].lo >= n)}
<1>5. 0 \in S
  <2>1. g[0] = z
    BY <1>4
  <2>2. z \in Areas /\ z.lo = Poc(v) /\ z.hi = Poc(v) /\ Poc(v) \in Nat
    BY <1>3, PocOK DEF Areas
  <2>3. About(v, z) /\ z.hi - z.lo >= 0
    BY <2>2 DEF About, Tight
  <2>4. QED  BY <2>1, <2>3
<1>6. \A n \in 0..B - 1 : n \in S => n + 1 \in S
  <2> SUFFICES ASSUME NEW n \in 0..B - 1, n \in S PROVE n + 1 \in S
    OBVIOUS
  <2>1. PICK a : a = g[n]
    OBVIOUS
  <2>2. g[n + 1] = Widened(v, a)
    BY <1>4, <2>1
  <2>3. About(v, a) /\ (Reached(v, a) \/ a.hi - a.lo >= n)
    BY <2>1
  <2>4. About(v, Widened(v, a))
    BY <2>3, WidenedOK
  <2>5. Reached(v, a) => Widened(v, a) = a
    BY <2>3, WidenedOK
  <2>6. ~Reached(v, a) => Widened(v, a).hi - Widened(v, a).lo = a.hi - a.lo + 1
    BY <2>3, WidenedOK
  <2>7. a.hi \in Nat /\ a.lo \in Nat
    BY <1>1, <2>3 DEF About, Areas
  <2>8. ~Reached(v, a) => Widened(v, a).hi - Widened(v, a).lo >= n + 1
    BY <2>3, <2>6, <2>7
  <2>9. QED  BY <2>2, <2>3, <2>4, <2>5, <2>8
<1> HIDE DEF S
<1>7. B \in S
  BY <1>5, <1>6, UpTo
<1>8. About(v, g[B]) /\ (Reached(v, g[B]) \/ g[B].hi - g[B].lo >= B)
  BY <1>7 DEF S
<1>9. g[B].hi \in 1..B /\ g[B].lo \in 1..B
  BY <1>1, <1>8 DEF About, Areas
<1>10. QED  BY <1>2, <1>8, <1>9

\* The heaviest bin is never one of low volume.
LEMMA PocIsHeavy ==
  ASSUME NEW v \in Profiles, VolumeOf(v, 1, Bins) > 0
  PROVE  Poc(v) \notin LowVolume(v)
<1>1. PICK B \in Nat : B = Bins
  BY MarketAssumption
<1>2. PICK c \in Nat : c = v[Poc(v)] /\ \A k \in 1..B : v[k] \in Nat /\ v[k] <= c
  <2>1. \A k \in 1..B : v[k] \in Nat
    BY <1>1 DEF Profiles
  <2>2. PICK p \in 1..B : p = Poc(v) /\ \A k \in 1..B : v[k] <= v[p]
    BY <1>1, PocOK
  <2>3. QED  BY <2>1, <2>2
<1>3. SumTo(v, B) <= B * c
  BY <1>2, SumAtMost
<1>4. PICK t : t = VolumeOf(v, 1, Bins)
  OBVIOUS
<1>5. PICK m \in Nat : m = B * c
  OBVIOUS
<1>6. t \in Int /\ t <= m
  <2>1. 1 - 1 = 0 /\ 0 \in 0..B /\ B \in 0..B
    OBVIOUS
  <2>2. SumTo(v, 0) \in Nat /\ SumTo(v, B) \in Nat
    BY <1>2, <2>1, SumGrows
  <2>3. t = SumTo(v, B) - SumTo(v, 0)
    BY <1>1, <1>4, <2>1 DEF VolumeOf
  <2>4. QED  BY <1>3, <1>5, <2>2, <2>3
<1>7. 10 * Bins * v[Poc(v)] = 10 * m
  <2>1. 10 * B * c = 10 * (B * c)
    OBVIOUS
  <2>2. QED  BY <1>1, <1>2, <1>5, <2>1
<1>8. ~(10 * m < 3 * t)
  BY <1>4, <1>6
<1>9. QED  BY <1>4, <1>7, <1>8 DEF LowVolume, ThinBins

LEMMA ProfileServed == ASSUME ServeProfile PROVE AreaTight' /\ seen'.kind = "profile"
<1>1. PICK v \in Profiles :
        seen' = [kind |-> "profile", given |-> v, poc |-> Poc(v), area |-> ValueArea(v), lvn |-> LowVolume(v)]
  BY DEF ServeProfile, Tell, Profiles
<1>2. PICK w : w = seen'
  OBVIOUS
<1>3. PICK a : a = ValueArea(v)
  OBVIOUS
<1>4. w.kind = "profile" /\ w.given = v /\ w.poc = Poc(v) /\ w.area = a /\ w.lvn = LowVolume(v)
  BY <1>1, <1>2, <1>3
<1>5. About(v, a) /\ Reached(v, a)
  BY <1>3, ValueAreaOK
<1>6. 1 <= a.lo /\ a.lo <= Poc(v) /\ Poc(v) <= a.hi /\ a.hi <= Bins
  BY <1>5, MarketAssumption DEF About, Areas
<1>7. a.lo < a.hi => \/ a.lo < Poc(v) /\ ~Reached(v, [a EXCEPT !.lo = @ + 1])
                     \/ a.hi > Poc(v) /\ ~Reached(v, [a EXCEPT !.hi = @ - 1])
  BY <1>5 DEF About, Tight
<1>8. VolumeOf(v, 1, Bins) > 0 => Poc(v) \notin LowVolume(v)
  BY PocIsHeavy
<1>9. QED
  BY <1>2, <1>4, <1>5, <1>6, <1>7, <1>8 DEF AreaTight

-----------------------------------------------------------------------------
MarketInv == MarketTypeOK /\ ViewsExplain

LEMMA OtherKinds ==
  /\ seen.kind # "signal" => SignalExplained
  /\ seen.kind # "regime" => HistoryExact
  /\ seen.kind # "confluence" => AlignedMeansAll
  /\ seen.kind # "profile" => AreaTight
  BY DEF SignalExplained, HistoryExact, AlignedMeansAll, AreaTight

LEMMA MarketStart == MarketInit => MarketInv
  BY OtherKinds DEF MarketInit, Unasked, MarketInv, MarketTypeOK, ViewsExplain

LEMMA MarketStep == ASSUME MarketInv, [MarketNext]_seen PROVE MarketInv'
<1>1. /\ seen'.kind # "signal" => SignalExplained'
      /\ seen'.kind # "regime" => HistoryExact'
      /\ seen'.kind # "confluence" => AlignedMeansAll'
      /\ seen'.kind # "profile" => AreaTight'
  BY DEF SignalExplained, HistoryExact, AlignedMeansAll, AreaTight
<1>2. CASE ServeSignal
  BY <1>1, <1>2, SignalServed DEF MarketInv, MarketTypeOK, ViewsExplain
<1>3. CASE ServeRegime
  BY <1>1, <1>3, RegimeServed DEF MarketInv, MarketTypeOK, ViewsExplain
<1>4. CASE ServeConfluence
  BY <1>1, <1>4, ConfluenceServed DEF MarketInv, MarketTypeOK, ViewsExplain
<1>5. CASE ServeProfile
  BY <1>1, <1>5, ProfileServed DEF MarketInv, MarketTypeOK, ViewsExplain
<1>6. ASSUME NEW pair \in AskedPairs, RefusePair(pair) PROVE MarketInv'
  <2>1. seen'.kind = "refused"
    BY <1>6 DEF RefusePair
  <2>2. QED  BY <1>1, <2>1 DEF MarketInv, MarketTypeOK, ViewsExplain
<1>7. CASE Served
  <2>1. seen'.kind = "none"
    BY <1>7 DEF Served, Unasked
  <2>2. QED  BY <1>1, <2>1 DEF MarketInv, MarketTypeOK, ViewsExplain
<1>8. CASE seen' = seen
  BY <1>8 DEF MarketInv, MarketTypeOK, ViewsExplain, SignalExplained, HistoryExact, AlignedMeansAll, AreaTight
<1>9. QED  BY <1>2, <1>3, <1>4, <1>5, <1>6, <1>7, <1>8 DEF MarketNext

LEMMA MarketInvHolds == MarketSpec => []MarketInv
  BY MarketStart, MarketStep, PTL DEF MarketSpec

\* Every answer is of a kind the routes have (api/routes/market.py).
THEOREM MarketTypes == MarketSpec => []MarketTypeOK
<1>1. MarketInv => MarketTypeOK
  BY DEF MarketInv
<1>2. QED  BY <1>1, MarketInvHolds, PTL

\* What the four views show is what they were computed from: the factors account for the signal's
\* confidence and the stop is on the losing side, the regime's bars are counted to the last, the
\* value area is tight about the heaviest bin, aligned means all three (api/routes/market.py,
\* analysis/volume_profile.py).
THEOREM MarketExplains == MarketSpec => []ViewsExplain
<1>1. MarketInv => ViewsExplain
  BY DEF MarketInv
<1>2. QED  BY <1>1, MarketInvHolds, PTL

-----------------------------------------------------------------------------
(* The portfolio: the loop and the table (core/metrics.py).                *)

LotRows == [symbol : Symbols, quantity : 1..Size]
BookOK(b) == DOMAIN b \subseteq 1..MaxLots /\ b \in [DOMAIN b -> LotRows]

\* What the readers may rely on of the closes: their days follow each other.
InTime(s) ==
  /\ \A n \in 1..Len(s) : s[n].day <= today
  /\ \A m, n \in 1..Len(s) : m < n => s[m].day <= s[n].day

\* A lot that was closed is no longer in a book, unless its row could not be deleted, nor is the
\* one whose close is to be written; a part is of one that is, and leaves something of it.
ClosedIsGone(s, b) == \A n \in 1..Len(s) : s[n].whole => s[n].lot \notin DOMAIN b \ undeleted
UnderWay(c) ==
  IF c.whole THEN c.lot \notin DOMAIN memory \ undeleted /\ c.lot \notin DOMAIN lots \ undeleted
  ELSE c.lot \in DOMAIN memory /\ memory[c.lot].quantity > 1

LoopInv ==
  /\ today \in 0..LastDay /\ misses \in 0..MaxMisses /\ undeleted \subseteq 1..MaxLots
  /\ closes \in Seq(Closes) /\ Len(closes) <= MaxCloses
  /\ closing = <<>> \/ \E c \in Closes : closing = <<c>> /\ UnderWay(c) /\ (c.whole => Len(closes) < MaxCloses)
  /\ BookOK(memory) /\ BookOK(lots) /\ ClosedIsGone(closes, memory) /\ ClosedIsGone(closes, lots) /\ InTime(closes)

\* What a request has read of the ledger is how it began.
ViewInv ==
  /\ \E p, c, b : p \in {"none", "ledger", "answered"} /\ c \in Seq(Closes) /\ view = [phase |-> p, closes |-> c, lots |-> b] /\ BookOK(b)
  /\ Len(view.closes) <= Len(closes) /\ \A n \in 1..Len(view.closes) : view.closes[n] = closes[n]
  /\ view.phase = "answered" => ClosedIsGone(view.closes, view.lots)

PortfolioInv == LoopInv /\ ViewInv

LEMMA OfAClose == ASSUME NEW c \in Closes PROVE c.lot \in 1..MaxLots /\ c.day \in 0..LastDay
  BY DEF Closes

LEMMA NewViewOK ==
  ASSUME NEW p \in {"none", "ledger"}, NEW c, c = <<>> \/ c = closes', closes' \in Seq(Closes),
         view' = [phase |-> p, closes |-> c, lots |-> <<>>]
  PROVE  ViewInv'
<1>1. PICK b : b = <<>>
  OBVIOUS
<1>2. BookOK(b)
  BY <1>1 DEF BookOK
<1>3. PICK w : w = view' /\ w = [phase |-> p, closes |-> c, lots |-> b]
  BY <1>1
<1>4. c \in Seq(Closes)
  <2>1. CASE c = <<>>
    BY <2>1
  <2>2. CASE c = closes'
    BY <2>2
  <2>3. QED  BY <2>1, <2>2
<1>5. PICK n \in Nat, m \in Nat : n = Len(closes') /\ m = Len(c)
  BY <1>4
<1>6. m <= n /\ \A i \in 1..m : c[i] = closes'[i]
  <2>1. CASE c = <<>>
    BY <1>5, <2>1
  <2>2. CASE c = closes'
    BY <1>5, <2>2
  <2>3. QED  BY <2>1, <2>2
<1>7. \E pp, cc, bb : pp \in {"none", "ledger", "answered"} /\ cc \in Seq(Closes) /\ w = [phase |-> pp, closes |-> cc, lots |-> bb] /\ BookOK(bb)
  BY <1>2, <1>3, <1>4
<1>8. w.phase # "answered" /\ w.closes = c
  BY <1>3
<1>9. QED  BY <1>3, <1>5, <1>6, <1>7, <1>8 DEF ViewInv, BookOK

LEMMA PortfolioStart == PortfolioInit => PortfolioInv
<1> SUFFICES ASSUME PortfolioInit PROVE PortfolioInv
  OBVIOUS
<1>1. /\ closes \in Seq(Closes) /\ Len(closes) = 0 /\ closing = <<>> /\ today \in 0..LastDay
      /\ misses \in 0..MaxMisses /\ undeleted \subseteq 1..MaxLots
  BY PortfolioAssumption DEF PortfolioInit
<1>2. BookOK(<<>>)
  BY DEF BookOK
<1>3. Len(closes) <= MaxCloses
  BY <1>1, PortfolioAssumption
<1>4. ClosedIsGone(closes, memory) /\ ClosedIsGone(closes, lots) /\ InTime(closes)
  BY <1>1 DEF ClosedIsGone, InTime
<1>5. LoopInv
  BY <1>1, <1>2, <1>3, <1>4 DEF LoopInv, PortfolioInit
<1>6. PICK c, b : c = <<>> /\ b = <<>> /\ view = [phase |-> "none", closes |-> c, lots |-> b]
  BY DEF PortfolioInit, NoFigures
<1>7. c \in Seq(Closes) /\ c = closes
  BY <1>6 DEF PortfolioInit
<1>8. BookOK(b)
  BY <1>2, <1>6
<1>9. Len(view.closes) <= Len(closes) /\ (\A n \in 1..Len(view.closes) : view.closes[n] = closes[n])
  BY <1>1, <1>6, <1>7
<1>10. view.phase = "none"
  BY <1>6
<1>11. \E p, cc, bb : p \in {"none", "ledger", "answered"} /\ cc \in Seq(Closes) /\ view = [phase |-> p, closes |-> cc, lots |-> bb] /\ BookOK(bb)
  BY <1>6, <1>7, <1>8
<1>12. ViewInv
  BY <1>9, <1>10, <1>11 DEF ViewInv
<1>13. QED  BY <1>5, <1>12 DEF PortfolioInv

(* The books.                                                              *)

LEMMA WithRowOK ==
  ASSUME NEW b, BookOK(b), NEW l \in 1..MaxLots, NEW r \in LotRows
  PROVE  BookOK(WithRow(b, l, r)) /\ DOMAIN WithRow(b, l, r) = {l} \cup DOMAIN b
<1>1. PICK d : d = WithRow(b, l, r) /\ d = [k \in {l} \cup DOMAIN b |-> IF k = l THEN r ELSE b[k]]
  BY DEF WithRow
<1>2. DOMAIN d = {l} \cup DOMAIN b /\ \A k \in DOMAIN d : d[k] \in LotRows
  BY <1>1 DEF BookOK
<1>3. DOMAIN d \subseteq 1..MaxLots
  BY <1>2 DEF BookOK
<1>4. d \in [DOMAIN d -> LotRows]
  BY <1>1, <1>2
<1>5. QED  BY <1>1, <1>2, <1>3, <1>4 DEF BookOK

LEMMA WithoutOK ==
  ASSUME NEW b, BookOK(b), NEW l
  PROVE  BookOK(Without(b, l)) /\ DOMAIN Without(b, l) = DOMAIN b \ {l}
  BY DEF Without, BookOK

\* The table is what was written, or what it was; what is read of it, all or nothing.
LEMMA MirroredOK ==
  ASSUME NEW t, BookOK(t), BookOK(lots), misses \in 0..MaxMisses, Mirrored(t)
  PROVE  BookOK(lots)' /\ misses' \in 0..MaxMisses /\ (lots' = t \/ (lots' = lots /\ misses' # misses))
<1>1. CASE lots' = t /\ UNCHANGED misses
  BY <1>1 DEF BookOK
<1>2. CASE UNCHANGED lots /\ Misses
  <2>1. misses' \in 0..MaxMisses /\ misses' # misses
    BY <1>2, PortfolioAssumption DEF Misses
  <2>2. QED  BY <1>2, <2>1 DEF BookOK
<1>3. QED  BY <1>1, <1>2 DEF Mirrored

LEMMA LoadedOK ==
  ASSUME NEW t, BookOK(lots), misses \in 0..MaxMisses, Loaded(t)
  PROVE  BookOK(t) /\ misses' \in 0..MaxMisses /\ (t = lots \/ DOMAIN t = {})
<1>1. CASE t = lots /\ UNCHANGED misses
  BY <1>1
<1>2. CASE t = <<>> /\ Misses
  <2>1. misses' \in 0..MaxMisses
    BY <1>2, PortfolioAssumption DEF Misses
  <2>2. BookOK(t) /\ DOMAIN t = {}
    BY <1>2 DEF BookOK
  <2>3. QED  BY <2>1, <2>2
<1>3. QED  BY <1>1, <1>2 DEF Loaded

LEMMA ClosesOK ==
  ASSUME NEW l \in 1..MaxLots, NEW s \in Symbols, NEW p \in Results, NEW w \in BOOLEAN, NEW d \in 0..LastDay
  PROVE  [lot |-> l, symbol |-> s, pnl |-> p, whole |-> w, day |-> d] \in Closes
  BY Zenon DEF Closes

LEMMA CloseOfOK ==
  ASSUME LoopInv, NEW l \in DOMAIN memory, NEW pnl \in Results, NEW w \in BOOLEAN
  PROVE  /\ CloseOf(l, pnl, w) \in Closes
         /\ CloseOf(l, pnl, w).lot = l /\ CloseOf(l, pnl, w).whole = w /\ CloseOf(l, pnl, w).day = today
<1>1. l \in 1..MaxLots /\ memory[l] \in LotRows /\ today \in 0..LastDay
  BY DEF LoopInv, BookOK
<1>2. PICK s \in Symbols : s = memory[l].symbol
  BY <1>1 DEF LotRows
<1>3. CloseOf(l, pnl, w) = [lot |-> l, symbol |-> s, pnl |-> pnl, whole |-> w, day |-> today]
  BY <1>2 DEF CloseOf
<1>4. QED  BY <1>1, <1>3, ClosesOK

\* What is written at the end of the ledger leaves the request under way alone.
LEMMA LedgerGrows ==
  ASSUME ViewInv, view' = ViewLeft, closes \in Seq(Closes), closes' \in Seq(Closes),
         Len(closes) <= Len(closes'), \A n \in 1..Len(closes) : closes'[n] = closes[n]
  PROVE  ViewInv'
<1>1. CASE view.phase = "answered"
  <2>1. PICK c : c = <<>> /\ view' = [phase |-> "none", closes |-> c, lots |-> <<>>]
    BY <1>1 DEF ViewLeft, NoFigures
  <2>2. QED  BY <2>1, NewViewOK
<1>2. CASE view.phase # "answered"
  <2>1. view' = view
    BY <1>2 DEF ViewLeft
  <2>2. PICK m \in Nat, n \in Nat, k \in Nat : m = Len(view.closes) /\ n = Len(closes) /\ k = Len(closes')
    BY DEF ViewInv
  <2>3. Len(view'.closes) <= Len(closes')
    BY <2>1, <2>2 DEF ViewInv
  <2>4. \A i \in 1..Len(view'.closes) : view'.closes[i] = closes'[i]
    BY <2>1, <2>2 DEF ViewInv
  <2>5. view'.phase # "answered"
    BY <1>2, <2>1
  <2>6. QED  BY <2>1, <2>3, <2>4, <2>5 DEF ViewInv, BookOK
<1>3. QED  BY <1>1, <1>2

\* A close that is written belongs to today, and to a lot that is gone if it is of all of it.
LEMMA CloseWritten ==
  ASSUME LoopInv, ViewInv, Len(closes) < MaxCloses, NEW c \in Closes, c.day = today,
         c.whole => c.lot \notin DOMAIN memory \ undeleted /\ c.lot \notin DOMAIN lots \ undeleted,
         closes' = Append(closes, c), view' = ViewLeft, UNCHANGED <<memory, lots, undeleted, today>>
  PROVE  /\ closes' \in Seq(Closes) /\ Len(closes') <= MaxCloses
         /\ ClosedIsGone(closes, memory)' /\ ClosedIsGone(closes, lots)' /\ InTime(closes)' /\ ViewInv'
<1>1. closes \in Seq(Closes)
  BY DEF LoopInv
<1>2. PICK n \in Nat : n = Len(closes)
  BY <1>1
<1>3. closes' \in Seq(Closes) /\ Len(closes') = n + 1 /\ closes'[n + 1] = c /\ \A i \in 1..n : closes'[i] = closes[i]
  BY <1>1, <1>2, AppendProperties
<1>4. Len(closes') <= MaxCloses
  BY <1>2, <1>3, PortfolioAssumption
<1>5. \A i \in 1..n + 1 : i = n + 1 \/ i \in 1..n
  OBVIOUS
<1>6. ClosedIsGone(closes, memory)' /\ ClosedIsGone(closes, lots)'
  <2>1. ClosedIsGone(closes, memory)'
    BY <1>2, <1>3, <1>5 DEF LoopInv, ClosedIsGone
  <2>2. ClosedIsGone(closes, lots)'
    BY <1>2, <1>3, <1>5 DEF LoopInv, ClosedIsGone
  <2>3. QED  BY <2>1, <2>2
<1>7. InTime(closes)'
  <2>1. \A i \in 1..n + 1 : closes'[i].day <= today
    BY <1>2, <1>3, <1>5 DEF LoopInv, InTime, Closes
  <2>2. \A i, j \in 1..n + 1 : i < j => closes'[i].day <= closes'[j].day
    <3> SUFFICES ASSUME NEW i \in 1..n + 1, NEW j \in 1..n + 1, i < j PROVE closes'[i].day <= closes'[j].day
      OBVIOUS
    <3>1. CASE j = n + 1
      BY <1>3, <2>1, <3>1
    <3>2. CASE j \in 1..n
      <4>1. i \in 1..n
        BY <3>2
      <4>2. QED  BY <1>2, <1>3, <3>2, <4>1 DEF LoopInv, InTime
    <3>3. QED  BY <1>5, <3>1, <3>2
  <2>3. QED  BY <1>3, <2>1, <2>2 DEF InTime
<1>8. ViewInv'
  <2>1. Len(closes) <= Len(closes')
    BY <1>2, <1>3
  <2>2. QED  BY <1>1, <1>2, <1>3, <2>1, LedgerGrows
<1>9. QED  BY <1>3, <1>4, <1>6, <1>7, <1>8

\* A row written to both books is of a lot that was in memory, or never closed.
LEMMA RowWritten ==
  ASSUME LoopInv, ViewInv, NEW l \in 1..MaxLots, NEW r \in LotRows,
         \A n \in 1..Len(closes) : closes[n].whole /\ closes[n].lot = l => l \in undeleted,
         memory' = WithRow(memory, l, r), Mirrored(WithRow(lots, l, r)), closing' = <<>>,
         UNCHANGED <<closes, undeleted, today>>, view' = ViewLeft
  PROVE  LoopInv' /\ ViewInv'
<1>1. closes \in Seq(Closes) /\ BookOK(memory) /\ BookOK(lots) /\ misses \in 0..MaxMisses
  BY DEF LoopInv
<1>2. PICK m : m = WithRow(memory, l, r)
  OBVIOUS
<1>3. PICK t : t = WithRow(lots, l, r)
  OBVIOUS
<1>4. BookOK(m) /\ DOMAIN m = {l} \cup DOMAIN memory
  BY <1>1, <1>2, WithRowOK
<1>5. BookOK(t) /\ DOMAIN t = {l} \cup DOMAIN lots
  BY <1>1, <1>3, WithRowOK
<1>6. BookOK(lots)' /\ misses' \in 0..MaxMisses /\ (lots' = t \/ lots' = lots)
  BY <1>1, <1>3, <1>5, MirroredOK
<1>7. memory' = m /\ BookOK(memory)'
  BY <1>2, <1>4 DEF BookOK
<1>8. ClosedIsGone(closes, memory)'
  BY <1>4, <1>7 DEF LoopInv, ClosedIsGone
<1>9. ClosedIsGone(closes, lots)'
  BY <1>5, <1>6 DEF LoopInv, ClosedIsGone
<1>10. InTime(closes)' /\ today' \in 0..LastDay /\ undeleted' \subseteq 1..MaxLots /\ Len(closes') <= MaxCloses
  BY DEF LoopInv, InTime
<1>11. LoopInv'
  BY <1>1, <1>6, <1>7, <1>8, <1>9, <1>10 DEF LoopInv
<1>12. ViewInv'
  BY <1>1, LedgerGrows
<1>13. QED  BY <1>11, <1>12

LEMMA OpenLotOK == ASSUME PortfolioInv, NEW s \in Symbols, OpenLot(s) PROVE PortfolioInv'
<1>1. PICK n : n = NextLot
  OBVIOUS
<1>2. PICK r : r = [symbol |-> s, quantity |-> Size]
  OBVIOUS
<1>3. /\ closing = <<>> /\ n <= MaxLots /\ closing' = <<>> /\ UNCHANGED <<closes, undeleted, today>> /\ view' = ViewLeft
      /\ memory' = WithRow(memory, n, r) /\ Mirrored(WithRow(lots, n, r))
  BY <1>1, <1>2 DEF OpenLot
<1>4. /\ closes \in Seq(Closes) /\ BookOK(memory) /\ BookOK(lots) /\ MaxLots \in Nat /\ Size \in Nat \ {0}
  BY PortfolioAssumption DEF PortfolioInv, LoopInv
<1> DEFINE S == {0} \cup DOMAIN memory \cup DOMAIN lots \cup {closes[k].lot : k \in DOMAIN closes} \cup {closing[k].lot : k \in DOMAIN closing}
<1>5. S \subseteq 0..MaxLots /\ 0 \in S
  <2>1. DOMAIN lots \subseteq 0..MaxLots /\ DOMAIN memory \subseteq 0..MaxLots
    BY <1>4 DEF BookOK
  <2>2. \A k \in DOMAIN closes : closes[k].lot \in 0..MaxLots
    <3>1. \A k \in DOMAIN closes : closes[k] \in Closes
      BY <1>4
    <3>2. 1..MaxLots \subseteq 0..MaxLots
      BY <1>4
    <3>3. QED  BY <3>1, <3>2, OfAClose
  <2>3. DOMAIN closing = {}
    BY <1>3
  <2>4. {closing[k].lot : k \in DOMAIN closing} = {}
    BY <2>3
  <2>5. {closes[k].lot : k \in DOMAIN closes} \subseteq 0..MaxLots
    BY <2>2
  <2>6. 0 \in 0..MaxLots
    BY <1>4
  <2>7. QED  BY <2>1, <2>4, <2>5, <2>6
<1>6. n = 1 + Max(S)
  BY <1>1 DEF NextLot
<1>7. Max(S) \in S /\ \A y \in S : Max(S) >= y
  <2> HIDE DEF S
  <2>1. QED  BY <1>4, <1>5, GreatestElement
<1>8. n \in 1..MaxLots /\ n \notin S
  <2> HIDE DEF S
  <2>1. PICK m \in 0..MaxLots : m = Max(S)
    BY <1>5, <1>7
  <2>2. n = m + 1 /\ n <= MaxLots
    BY <1>3, <1>6, <2>1
  <2>3. n \notin S
    BY <1>4, <1>7, <2>1, <2>2
  <2>4. QED  BY <1>4, <2>1, <2>2, <2>3
<1>9. \A k \in 1..Len(closes) : closes[k].lot # n
  BY <1>4, <1>8
<1> HIDE DEF S
<1>10. r \in LotRows
  <2>1. Size \in 1..Size
    BY <1>4
  <2>2. QED  BY <1>2, <2>1 DEF LotRows
<1>11. QED  BY <1>3, <1>8, <1>9, <1>10, RowWritten DEF PortfolioInv

LEMMA DeleteRowOK ==
  ASSUME PortfolioInv, NEW l \in 1..MaxLots, NEW pnl \in Results, DeleteRow(l, pnl)
  PROVE  PortfolioInv'
<1>1. PICK c : c = CloseOf(l, pnl, TRUE)
  OBVIOUS
<1>2. PICK t : t = Without(lots, l)
  OBVIOUS
<1>3. /\ l \in DOMAIN memory /\ closing' = <<c>> /\ Len(closes) < MaxCloses /\ UNCHANGED <<closes, today>>
      /\ view' = ViewLeft /\ memory' = Without(memory, l) /\ Mirrored(t)
      /\ undeleted' = IF misses' = misses THEN undeleted ELSE undeleted \cup {l}
  BY <1>1, <1>2 DEF DeleteRow
<1>4. c \in Closes /\ c.lot = l /\ c.whole = TRUE
  BY <1>1, <1>3, CloseOfOK DEF PortfolioInv
<1>5. /\ BookOK(lots) /\ BookOK(memory) /\ closes \in Seq(Closes) /\ misses \in 0..MaxMisses
      /\ undeleted \subseteq 1..MaxLots
  BY DEF PortfolioInv, LoopInv
<1>6. BookOK(memory)' /\ DOMAIN memory' = DOMAIN memory \ {l}
  BY <1>3, <1>5, WithoutOK DEF BookOK
<1>7. BookOK(t) /\ DOMAIN t = DOMAIN lots \ {l}
  BY <1>2, <1>5, WithoutOK
<1>8. BookOK(lots)' /\ misses' \in 0..MaxMisses /\ (lots' = t \/ (lots' = lots /\ misses' # misses))
  BY <1>3, <1>5, <1>7, MirroredOK
<1>9. undeleted \subseteq undeleted' /\ undeleted' \subseteq 1..MaxLots /\ (lots' = t \/ (lots' = lots /\ l \in undeleted'))
  BY <1>3, <1>5, <1>8
<1>10. ClosedIsGone(closes, memory)' /\ ClosedIsGone(closes, lots)'
  <2>1. ClosedIsGone(closes, memory)'
    BY <1>3, <1>6, <1>9 DEF PortfolioInv, LoopInv, ClosedIsGone
  <2>2. ClosedIsGone(closes, lots)'
    BY <1>3, <1>7, <1>9 DEF PortfolioInv, LoopInv, ClosedIsGone
  <2>3. QED  BY <2>1, <2>2
<1>11. UnderWay(c)'
  BY <1>4, <1>6, <1>7, <1>9 DEF UnderWay
<1>12. LoopInv'
  BY <1>3, <1>4, <1>5, <1>6, <1>8, <1>9, <1>10, <1>11 DEF PortfolioInv, LoopInv, InTime
<1>13. ViewInv'
  BY <1>3, <1>5, LedgerGrows DEF PortfolioInv
<1>14. QED  BY <1>12, <1>13 DEF PortfolioInv

LEMMA LogPartOK ==
  ASSUME PortfolioInv, NEW l \in 1..MaxLots, NEW pnl \in Results, LogPart(l, pnl)
  PROVE  PortfolioInv'
<1>1. PICK c : c = CloseOf(l, pnl, FALSE)
  OBVIOUS
<1>2. /\ l \in DOMAIN memory /\ memory[l].quantity > 1 /\ closing' = <<c>> /\ Len(closes) < MaxCloses
      /\ closes' = Append(closes, c) /\ UNCHANGED <<memory, lots, undeleted, misses, today>> /\ view' = ViewLeft
  BY <1>1 DEF LogPart
<1>3. c \in Closes /\ c.lot = l /\ c.whole = FALSE /\ c.day = today
  BY <1>1, <1>2, CloseOfOK DEF PortfolioInv
<1>4. /\ closes' \in Seq(Closes) /\ Len(closes') <= MaxCloses
      /\ ClosedIsGone(closes, memory)' /\ ClosedIsGone(closes, lots)' /\ InTime(closes)' /\ ViewInv'
  BY <1>2, <1>3, CloseWritten DEF PortfolioInv
<1>5. UnderWay(c)'
  BY <1>2, <1>3 DEF UnderWay
<1>6. BookOK(memory)' /\ BookOK(lots)' /\ today' \in 0..LastDay /\ misses' \in 0..MaxMisses /\ undeleted' \subseteq 1..MaxLots
  BY <1>2 DEF PortfolioInv, LoopInv, BookOK
<1>7. LoopInv'
  BY <1>2, <1>3, <1>4, <1>5, <1>6 DEF LoopInv
<1>8. QED  BY <1>4, <1>7 DEF PortfolioInv

LEMMA LogCloseOK == ASSUME PortfolioInv, LogClose PROVE PortfolioInv'
<1>1. PICK c \in Closes : closing = <<c>> /\ UnderWay(c) /\ (c.whole => Len(closes) < MaxCloses)
  BY DEF LogClose, PortfolioInv, LoopInv
<1>2. PICK e : e = [c EXCEPT !.day = today]
  OBVIOUS
<1>3. /\ c.whole /\ closing' = <<>> /\ UNCHANGED <<memory, lots, undeleted, misses, today>> /\ view' = ViewLeft
      /\ closes' = Append(closes, e) \/ closes' = closes
  BY <1>1, <1>2 DEF LogClose
<1>4. e \in Closes /\ e.day = today /\ e.lot = c.lot /\ e.whole = c.whole
  BY <1>2 DEF PortfolioInv, LoopInv, Closes
<1>5. BookOK(memory)' /\ BookOK(lots)' /\ today' \in 0..LastDay /\ misses' \in 0..MaxMisses /\ undeleted' \subseteq 1..MaxLots
  BY <1>3 DEF PortfolioInv, LoopInv, BookOK
<1>6. CASE closes' = Append(closes, e)
  <2>1. e.lot \notin DOMAIN memory \ undeleted /\ e.lot \notin DOMAIN lots \ undeleted
    BY <1>1, <1>3, <1>4 DEF UnderWay
  <2>2. Len(closes) < MaxCloses
    BY <1>1, <1>3
  <2>3. /\ closes' \in Seq(Closes) /\ Len(closes') <= MaxCloses
        /\ ClosedIsGone(closes, memory)' /\ ClosedIsGone(closes, lots)' /\ InTime(closes)' /\ ViewInv'
    BY <1>3, <1>4, <1>6, <2>1, <2>2, CloseWritten DEF PortfolioInv
  <2>4. LoopInv'
    BY <1>3, <1>5, <2>3 DEF LoopInv
  <2>5. QED  BY <2>3, <2>4 DEF PortfolioInv
<1>7. CASE closes' = closes
  <2>1. closes \in Seq(Closes)
    BY DEF PortfolioInv, LoopInv
  <2>2. ViewInv'
    BY <1>3, <1>7, <2>1, LedgerGrows DEF PortfolioInv
  <2>3. LoopInv'
    BY <1>3, <1>5, <1>7 DEF PortfolioInv, LoopInv, ClosedIsGone, InTime
  <2>4. QED  BY <2>2, <2>3 DEF PortfolioInv
<1>8. QED  BY <1>3, <1>6, <1>7

\* A row that shrinks is of a lot in memory, and what is left of it is still worth a row.
LEMMA ShrinkRowOK == ASSUME PortfolioInv, ShrinkRow PROVE PortfolioInv'
<1>1. PICK c \in Closes : closing = <<c>> /\ UnderWay(c)
  BY DEF ShrinkRow, PortfolioInv, LoopInv
<1>2. PICK l : l = c.lot
  OBVIOUS
<1>3. PICK r : r = [symbol |-> memory[l].symbol, quantity |-> memory[l].quantity - 1]
  OBVIOUS
<1>4. /\ ~c.whole /\ closing' = <<>> /\ UNCHANGED <<closes, undeleted, today>> /\ view' = ViewLeft
      /\ memory' = WithRow(memory, l, r) /\ Mirrored(WithRow(lots, l, r))
  BY <1>1, <1>2, <1>3 DEF ShrinkRow
<1>5. l \in DOMAIN memory /\ memory[l].quantity > 1
  BY <1>1, <1>2, <1>4 DEF UnderWay
<1>6. BookOK(memory) /\ Size \in Nat
  BY PortfolioAssumption DEF PortfolioInv, LoopInv
<1>7. PICK q \in 1..Size, s \in Symbols : memory[l] = [symbol |-> s, quantity |-> q]
  BY <1>5, <1>6 DEF BookOK, LotRows
<1>8. q - 1 \in 1..Size
  BY <1>5, <1>6, <1>7
<1>9. r \in LotRows /\ l \in 1..MaxLots
  BY <1>3, <1>5, <1>6, <1>7, <1>8 DEF LotRows, BookOK
<1>10. \A n \in 1..Len(closes) : closes[n].whole /\ closes[n].lot = l => l \in undeleted
  BY <1>5 DEF PortfolioInv, LoopInv, ClosedIsGone
<1>11. QED  BY <1>4, <1>9, <1>10, RowWritten DEF PortfolioInv

\* What the next loop has in memory is in the table.
LEMMA LoopRestartsOK == ASSUME PortfolioInv, LoopRestarts PROVE PortfolioInv'
<1>1. PICK t : Loaded(t) /\ memory' = t
  BY DEF LoopRestarts
<1>2. closing' = <<>> /\ UNCHANGED <<closes, lots, undeleted, today>> /\ view' = ViewLeft
  BY DEF LoopRestarts
<1>3. closes \in Seq(Closes) /\ BookOK(lots) /\ misses \in 0..MaxMisses
  BY DEF PortfolioInv, LoopInv
<1>4. BookOK(t) /\ misses' \in 0..MaxMisses /\ (t = lots \/ DOMAIN t = {})
  BY <1>1, <1>3, LoadedOK
<1>5. BookOK(memory)' /\ BookOK(lots)'
  BY <1>1, <1>2, <1>3, <1>4 DEF BookOK
<1>6. ClosedIsGone(closes, memory)' /\ ClosedIsGone(closes, lots)' /\ InTime(closes)'
  BY <1>1, <1>2, <1>4 DEF PortfolioInv, LoopInv, ClosedIsGone, InTime
<1>7. LoopInv'
  BY <1>2, <1>4, <1>5, <1>6 DEF PortfolioInv, LoopInv
<1>8. ViewInv'
  BY <1>2, <1>3, LedgerGrows DEF PortfolioInv
<1>9. QED  BY <1>7, <1>8 DEF PortfolioInv

LEMMA NextDayOK == ASSUME PortfolioInv, NextDay PROVE PortfolioInv'
<1>1. today < LastDay /\ today' = today + 1 /\ UNCHANGED <<closes, memory, lots, undeleted, misses, closing>> /\ view' = ViewLeft
  BY DEF NextDay, LoopUnchanged
<1>2. closes \in Seq(Closes) /\ today \in 0..LastDay /\ LastDay \in Nat
  BY PortfolioAssumption DEF PortfolioInv, LoopInv
<1>3. today' \in 0..LastDay /\ today' \in Int /\ today \in Int
  BY <1>1, <1>2
<1>4. \A n \in 1..Len(closes) : closes[n].day \in Int
  <2>1. \A n \in 1..Len(closes) : closes[n] \in Closes
    BY <1>2
  <2>2. QED  BY <1>2, <2>1, OfAClose
<1>5. InTime(closes)'
  BY <1>1, <1>3, <1>4 DEF PortfolioInv, LoopInv, InTime
<1>6. LoopInv'
  BY <1>1, <1>3, <1>5 DEF PortfolioInv, LoopInv, BookOK, ClosedIsGone, UnderWay
<1>7. ViewInv'
  BY <1>1, <1>2, LedgerGrows DEF PortfolioInv
<1>8. QED  BY <1>6, <1>7 DEF PortfolioInv

LEMMA LoopStays == ASSUME LoopInv, LoopUnchanged, today' = today, misses' \in 0..MaxMisses PROVE LoopInv'
  BY DEF LoopInv, LoopUnchanged, BookOK, ClosedIsGone, InTime, UnderWay

LEMMA ReadLedgerOK == ASSUME PortfolioInv, ReadLedger PROVE PortfolioInv'
<1>1. misses' \in 0..MaxMisses /\ today' = today /\ LoopUnchanged
  BY DEF ReadLedger, PortfolioInv, LoopInv
<1>2. LoopInv'
  BY <1>1, LoopStays DEF PortfolioInv
<1>3. closes' \in Seq(Closes) /\ closes' = closes
  BY <1>1 DEF LoopUnchanged, PortfolioInv, LoopInv
<1>4. view' = [phase |-> "ledger", closes |-> closes', lots |-> <<>>]
  BY <1>3 DEF ReadLedger, NoFigures
<1>5. ViewInv'
  BY <1>3, <1>4, NewViewOK
<1>6. QED  BY <1>2, <1>5 DEF PortfolioInv

\* The table read after the ledger holds none of the lots the ledger tells the end of.
LEMMA ReadPositionsOK == ASSUME PortfolioInv, ReadPositions PROVE PortfolioInv'
<1>1. PICK t : Loaded(t) /\ view' = [view EXCEPT !.phase = "answered", !.lots = t]
  BY DEF ReadPositions
<1>2. BookOK(lots) /\ misses \in 0..MaxMisses /\ LoopUnchanged /\ today' = today
  BY DEF ReadPositions, PortfolioInv, LoopInv
<1>3. BookOK(t) /\ misses' \in 0..MaxMisses /\ (t = lots \/ DOMAIN t = {})
  BY <1>1, <1>2, LoadedOK
<1>4. LoopInv'
  BY <1>2, <1>3, LoopStays DEF PortfolioInv
<1>5. PICK p, c, b : p \in {"none", "ledger", "answered"} /\ c \in Seq(Closes) /\ view = [phase |-> p, closes |-> c, lots |-> b] /\ BookOK(b)
  BY DEF PortfolioInv, ViewInv
<1>6. PICK w : w = view' /\ w = [phase |-> "answered", closes |-> c, lots |-> t]
  BY <1>1, <1>5
<1>7. closes' = closes /\ undeleted' = undeleted /\ closes \in Seq(Closes) /\ ClosedIsGone(closes, lots)
  BY <1>2 DEF LoopUnchanged, PortfolioInv, LoopInv
<1>8. PICK n \in Nat, m \in Nat : n = Len(closes) /\ m = Len(c)
  BY <1>5, <1>7
<1>9. \E pp, cc, bb : pp \in {"none", "ledger", "answered"} /\ cc \in Seq(Closes) /\ w = [phase |-> pp, closes |-> cc, lots |-> bb] /\ BookOK(bb)
  BY <1>3, <1>5, <1>6
<1>10. Len(c) <= Len(closes) /\ \A i \in 1..Len(c) : c[i] = closes[i]
  BY <1>5 DEF PortfolioInv, ViewInv
<1>11. ClosedIsGone(c, t)
  BY <1>3, <1>7, <1>8, <1>10 DEF ClosedIsGone
<1>12. w.closes = c /\ w.lots = t
  BY <1>6
<1>13. ViewInv'
  BY <1>6, <1>7, <1>9, <1>10, <1>11, <1>12 DEF ViewInv, BookOK, ClosedIsGone
<1>14. QED  BY <1>4, <1>13 DEF PortfolioInv

LEMMA PortfolioStep == PortfolioInv /\ [PortfolioNext]_portfolioVars => PortfolioInv'
<1> SUFFICES ASSUME PortfolioInv, [PortfolioNext]_portfolioVars PROVE PortfolioInv'
  OBVIOUS
<1>1. CASE UNCHANGED portfolioVars
  BY <1>1 DEF portfolioVars, PortfolioInv, LoopInv, ViewInv, BookOK, ClosedIsGone, InTime, UnderWay
<1>2. ASSUME NEW s \in Symbols, OpenLot(s) PROVE PortfolioInv'
  BY <1>2, OpenLotOK
<1>3. ASSUME NEW l \in 1..MaxLots, NEW pnl \in Results, DeleteRow(l, pnl) PROVE PortfolioInv'
  BY <1>3, DeleteRowOK
<1>4. ASSUME NEW l \in 1..MaxLots, NEW pnl \in Results, LogPart(l, pnl) PROVE PortfolioInv'
  BY <1>4, LogPartOK
<1>5. QED
  BY <1>1, <1>2, <1>3, <1>4, LogCloseOK, ShrinkRowOK, LoopRestartsOK, NextDayOK, ReadLedgerOK, ReadPositionsOK
     DEF PortfolioNext

LEMMA PortfolioInvHolds == PortfolioSpec => []PortfolioInv
  BY PortfolioStart, PortfolioStep, PTL DEF PortfolioSpec

\* Every close, every lot and every answer is well formed, in the process of the loop as in the
\* one of the API, whatever the one has done between two reads of the other (core/metrics.py).
THEOREM PortfolioTypes == PortfolioSpec => []PortfolioTypeOK
<1> SUFFICES ASSUME PortfolioInv PROVE PortfolioTypeOK
  BY PortfolioInvHolds, PTL
<1>1. /\ today \in 0..LastDay /\ closes \in Seq(Closes) /\ Len(closes) <= MaxCloses /\ BookOK(memory) /\ BookOK(lots)
      /\ misses \in 0..MaxMisses /\ undeleted \subseteq 1..MaxLots
  BY DEF PortfolioInv, LoopInv
<1>2. PICK p, c, b : p \in {"none", "ledger", "answered"} /\ c \in Seq(Closes) /\ view = [phase |-> p, closes |-> c, lots |-> b] /\ BookOK(b)
  BY DEF PortfolioInv, ViewInv
<1>3. view.closes = c /\ view.lots = b /\ view.phase = p
  BY <1>2
<1>4. closing \in Seq(Closes) /\ Len(closing) <= 1
  <2>1. CASE closing = <<>>
    BY <2>1
  <2>2. CASE closing # <<>>
    <3>1. PICK k \in Closes : closing = <<k>>
      BY <2>2 DEF PortfolioInv, LoopInv
    <3>2. QED  BY <3>1
  <2>3. QED  BY <2>1, <2>2
<1>5. \A s \in Seq(Closes) : Range(s) \subseteq Closes
  BY DEF Range
<1>6. \A table : BookOK(table) => DOMAIN table \subseteq 1..MaxLots /\ Range(table) \subseteq [symbol : Symbols, quantity : 1..Size]
  BY DEF BookOK, Range, LotRows
<1>7. Range(closes) \cup Range(closing) \cup Range(view.closes) \subseteq Closes
  BY <1>1, <1>2, <1>3, <1>4, <1>5
<1>8. QED  BY <1>1, <1>2, <1>3, <1>4, <1>6, <1>7 DEF PortfolioTypeOK

LEMMA NoLotTwiceNow == ASSUME PortfolioInv PROVE NoLotTwice
<1>1. PICK c \in Seq(Closes) : view.closes = c
  BY DEF PortfolioInv, ViewInv
<1>2. QED  BY <1>1 DEF PortfolioInv, ViewInv, ClosedIsGone, NoLotTwice, Range

-----------------------------------------------------------------------------
(* The portfolio: its figures (metrics.py, risk.py, trades.py, desk.py).   *)

(* What some of the closes made adds up.                                   *)

Part(s, S) == [n \in 1..Len(s) |-> IF n \in S THEN s[n].pnl ELSE 0]

LEMMA PartOK ==
  ASSUME NEW s \in Seq(Closes), NEW S
  PROVE  /\ Len(s) \in Nat
         /\ ProfitOf(s, S) = SumTo(Part(s, S), Len(s)) /\ ProfitOf(s, S) \in Int
         /\ \A n \in 1..Len(s) : s[n].pnl \in Int /\ Part(s, S)[n] \in Int /\ Part(s, S)[n] = IF n \in S THEN s[n].pnl ELSE 0
<1>1. PICK L \in Nat : L = Len(s)
  OBVIOUS
<1>2. \A n \in 1..L : s[n] \in Closes
  BY <1>1
<1>3. \A n \in 1..L : s[n].pnl \in Int
  BY <1>2, PortfolioAssumption DEF Closes
<1>4. \A n \in 1..L : Part(s, S)[n] \in Int /\ Part(s, S)[n] = IF n \in S THEN s[n].pnl ELSE 0
  BY <1>1, <1>3 DEF Part
<1>5. ProfitOf(s, S) = SumTo(Part(s, S), L)
  BY <1>1 DEF ProfitOf, Part
<1>6. ProfitOf(s, S) \in Int
  BY <1>4, <1>5, SumInt
<1>7. QED  BY <1>1, <1>3, <1>4, <1>5, <1>6

LEMMA ProfitSame ==
  ASSUME NEW s \in Seq(Closes), NEW A, NEW B, \A n \in 1..Len(s) : n \in A <=> n \in B
  PROVE  ProfitOf(s, A) = ProfitOf(s, B)
<1>1. Part(s, A) = Part(s, B)
  BY DEF Part
<1>2. QED  BY <1>1, PartOK

LEMMA ProfitSplits ==
  ASSUME NEW s \in Seq(Closes), NEW A, NEW B, A \cap B = {}
  PROVE  ProfitOf(s, A \cup B) = ProfitOf(s, A) + ProfitOf(s, B)
<1>1. PICK L \in Nat : L = Len(s)
  OBVIOUS
<1>2. \A n \in 1..L : /\ Part(s, A)[n] \in Int /\ Part(s, B)[n] \in Int
                      /\ Part(s, A)[n] = IF n \in A THEN s[n].pnl ELSE 0
                      /\ Part(s, B)[n] = IF n \in B THEN s[n].pnl ELSE 0
                      /\ Part(s, A \cup B)[n] = IF n \in A \cup B THEN s[n].pnl ELSE 0
                      /\ s[n].pnl \in Int
  BY <1>1, PartOK
<1>3. \A n \in 1..L : Part(s, A)[n] \in Int /\ Part(s, B)[n] \in Int /\ Part(s, A \cup B)[n] = Part(s, A)[n] + Part(s, B)[n]
  <2> SUFFICES ASSUME NEW n \in 1..L
               PROVE  Part(s, A)[n] \in Int /\ Part(s, B)[n] \in Int /\ Part(s, A \cup B)[n] = Part(s, A)[n] + Part(s, B)[n]
    OBVIOUS
  <2>1. PICK x \in Int : x = s[n].pnl
    BY <1>2
  <2>2. CASE n \in A
    <3>1. n \in A \cup B /\ n \notin B
      BY <2>2
    <3>2. Part(s, A)[n] = x /\ Part(s, B)[n] = 0 /\ Part(s, A \cup B)[n] = x
      BY <1>2, <2>1, <2>2, <3>1
    <3>3. QED  BY <2>1, <3>2
  <2>3. CASE n \notin A
    <3>1. n \in A \cup B <=> n \in B
      BY <2>3
    <3>2. Part(s, A)[n] = 0 /\ Part(s, A \cup B)[n] = Part(s, B)[n]
      BY <1>2, <2>3, <3>1
    <3>3. Part(s, B)[n] \in Int
      BY <1>2
    <3>4. QED  BY <3>2, <3>3
  <2>4. QED  BY <2>2, <2>3
<1>4. SumTo(Part(s, A \cup B), L) = SumTo(Part(s, A), L) + SumTo(Part(s, B), L)
  BY <1>3, SumAdds
<1>5. QED  BY <1>1, <1>4, PartOK

LEMMA ProfitNone ==
  ASSUME NEW s \in Seq(Closes), NEW A, \A n \in 1..Len(s) : n \in A => s[n].pnl = 0
  PROVE  ProfitOf(s, A) = 0
<1>1. \A n \in 1..Len(s) : Part(s, A)[n] = 0
  BY PartOK
<1>2. SumTo(Part(s, A), Len(s)) = 0
  BY <1>1, SumZeros, PartOK
<1>3. QED  BY <1>2, PartOK

LEMMA ProfitOfOne ==
  ASSUME NEW s \in Seq(Closes), NEW m \in 1..Len(s)
  PROVE  ProfitOf(s, {m}) = s[m].pnl
<1>1. PICK L \in Nat, j \in Nat : L = Len(s) /\ m = j + 1 /\ j + 1 <= L
  <2>1. Len(s) \in Nat /\ m - 1 \in Nat /\ m = (m - 1) + 1
    OBVIOUS
  <2>2. QED  BY <2>1
<1> DEFINE f == Part(s, {m})
<1>2. \A n \in 1..L : f[n] \in Int /\ f[n] = IF n = m THEN s[n].pnl ELSE 0
  BY <1>1, PartOK
<1>3. SumTo(f, L) = ProfitOf(s, {m})
  BY <1>1, PartOK
<1> HIDE DEF f
<1>4. SumTo(f, L) = SumTo(f, j + 1)
  <2>1. j + 1 \in 0..L /\ \A k \in 1..L : f[k] \in Int
    BY <1>1, <1>2
  <2>2. \A k \in (j + 1) + 1..L : f[k] = 0
    <3> SUFFICES ASSUME NEW k \in (j + 1) + 1..L PROVE f[k] = 0
      OBVIOUS
    <3>1. k \in 1..L /\ k # m
      BY <1>1
    <3>2. QED  BY <1>2, <3>1
  <2>3. QED  BY <2>1, <2>2, SumPrefix
<1>5. SumTo(f, j + 1) = SumTo(f, j) + f[j + 1]
  BY SumNext
<1>6. SumTo(f, j) = 0
  BY <1>1, <1>2, SumZeros
<1>7. f[j + 1] \in Int /\ f[j + 1] = s[m].pnl
  BY <1>1, <1>2
<1>8. QED  BY <1>3, <1>4, <1>5, <1>6, <1>7

LEMMA ProfitLossy ==
  ASSUME NEW s \in Seq(Closes), NEW A, \A n \in 1..Len(s) : n \in A => s[n].pnl <= 0
  PROVE  ProfitOf(s, A) <= 0
<1>1. PICK L \in Nat : L = Len(s)
  OBVIOUS
<1> DEFINE zeros == [n \in 1..L |-> 0]
<1>2. \A n \in 1..L : zeros[n] = 0
  OBVIOUS
<1> HIDE DEF zeros
<1>3. \A n \in 1..L : Part(s, A)[n] \in Int /\ zeros[n] \in Int /\ Part(s, A)[n] <= zeros[n]
  <2>1. \A n \in 1..L : Part(s, A)[n] \in Int /\ Part(s, A)[n] = IF n \in A THEN s[n].pnl ELSE 0
    BY <1>1, PartOK
  <2>2. QED  BY <1>1, <1>2, <2>1
<1>4. SumTo(Part(s, A), L) <= SumTo(zeros, L)
  BY <1>3, SumBelow
<1>5. SumTo(zeros, L) = 0
  BY <1>2, SumZeros
<1>6. QED  BY <1>1, <1>4, <1>5, PartOK

LEMMA PnlIsInt == ASSUME NEW s \in Seq(Closes), NEW n \in 1..Len(s) PROVE s[n].pnl \in Int
<1>1. s[n] \in Closes
  OBVIOUS
<1>2. QED  BY <1>1, PortfolioAssumption DEF Closes

LEMMA EquitySteps ==
  ASSUME NEW s \in Seq(Closes)
  PROVE  /\ \A n \in Nat : EquityAt(s, n) \in Int
         /\ EquityAt(s, 0) = Capital /\ EquityAt(s, Len(s)) = PortfolioValue(s)
         /\ \A n \in 1..Len(s) : EquityAt(s, n) = EquityAt(s, n - 1) + s[n].pnl
<1>1. \A n \in Nat : EquityAt(s, n) \in Int
  BY PartOK, PortfolioAssumption DEF EquityAt
<1>2. EquityAt(s, 0) = Capital
  <2>1. ProfitOf(s, 1..0) = 0
    BY ProfitNone
  <2>2. QED  BY <2>1, PortfolioAssumption DEF EquityAt
<1>3. EquityAt(s, Len(s)) = PortfolioValue(s)
  BY DEF EquityAt, PortfolioValue, Profit
<1>4. ASSUME NEW n \in 1..Len(s) PROVE EquityAt(s, n) = EquityAt(s, n - 1) + s[n].pnl
  <2>1. 1..n = (1..n - 1) \cup {n} /\ (1..n - 1) \cap {n} = {}
    OBVIOUS
  <2>2. ProfitOf(s, (1..n - 1) \cup {n}) = ProfitOf(s, 1..n - 1) + ProfitOf(s, {n})
    BY <2>1, ProfitSplits
  <2>3. ProfitOf(s, {n}) = s[n].pnl
    BY ProfitOfOne
  <2>4. ProfitOf(s, 1..n - 1) \in Int /\ s[n].pnl \in Int
    BY PartOK
  <2>5. ProfitOf(s, 1..n) = ProfitOf(s, 1..n - 1) + s[n].pnl
    BY <2>1, <2>2, <2>3
  <2>6. PICK x \in Int, y \in Int : x = ProfitOf(s, 1..n - 1) /\ y = s[n].pnl
    BY <2>4
  <2>7. EquityAt(s, n) = Capital + (x + y) /\ EquityAt(s, n - 1) = Capital + x
    BY <2>5, <2>6 DEF EquityAt
  <2>8. QED  BY <2>6, <2>7, PortfolioAssumption
<1>5. QED  BY <1>1, <1>2, <1>3, <1>4

(* The pages list every close, from the last.                              *)

LEMMA PageOK ==
  ASSUME NEW s \in Seq(Closes), NEW limit \in 1..Len(s), NEW n \in 1..Len(s)
  PROVE  LET page == (n - 1) \div limit
         IN ClosedTrades(s, limit, page * limit)[n - page * limit] = s[Len(s) + 1 - n]
<1>1. PICK L \in Nat : L = Len(s)
  OBVIOUS
<1>2. PICK o \in Nat : o = ((n - 1) \div limit) * limit /\ o <= n - 1 /\ n - 1 < o + limit
  <2>1. n - 1 \in Nat /\ limit \in Nat \ {0}
    OBVIOUS
  <2>2. PICK q \in Nat : q = (n - 1) \div limit /\ q * limit <= n - 1 /\ n - 1 < q * limit + limit
    BY <2>1, Quotient
  <2>3. q * limit \in Nat
    BY <2>1
  <2>4. QED  BY <2>2, <2>3
<1>3. PICK h : h = IF o + limit < L THEN o + limit ELSE L
  OBVIOUS
<1>4. h \in 0..L /\ n - o \in 1..h - o /\ o + 1 <= n /\ n <= h
  BY <1>1, <1>2, <1>3
<1> DEFINE t == Reverse(s)
<1>5. t = [i \in 1..L |-> s[(L - i) + 1]]
  BY <1>1 DEF Reverse
<1>6. SubSeq(t, o + 1, h) = [i \in 1..h - o |-> t[i + o]]
  <2>1. SubSeq(t, o + 1, h) = [i \in 1..(1 + h - (o + 1)) |-> t[i + (o + 1) - 1]]
    BY <1>4 DEF SubSeq
  <2>2. 1 + h - (o + 1) = h - o
    BY <1>4
  <2>3. \A i \in 1..h - o : i + (o + 1) - 1 = i + o
    OBVIOUS
  <2>4. QED  BY <2>1, <2>2, <2>3
<1>7. SubSeq(t, o + 1, h)[n - o] = t[n]
  <2>1. (n - o) + o = n
    BY <1>1
  <2>2. QED  BY <1>4, <1>6, <2>1
<1>8. t[n] = s[L + 1 - n]
  <2>1. (L - n) + 1 = L + 1 - n
    BY <1>1
  <2>2. QED  BY <1>1, <1>5, <2>1
<1>9. ClosedTrades(s, limit, o) = SubSeq(t, o + 1, h)
  BY <1>1, <1>3 DEF ClosedTrades
<1>10. QED  BY <1>1, <1>2, <1>7, <1>8, <1>9

(* The pairs' results add up, in whatever order they are taken.            *)

LEMMA PairsOK ==
  ASSUME NEW s \in Seq(Closes), NEW order \in Bijection(1..Cardinality(Symbols), Symbols)
  PROVE  SumTo([k \in 1..Cardinality(Symbols) |-> ProfitOf(s, Only(s, order[k]))], Cardinality(Symbols)) = Profit(s)
<1>1. PICK N \in Nat : N = Cardinality(Symbols)
  BY PortfolioAssumption, FS_CardinalityType
<1>2. /\ order \in [1..N -> Symbols]
      /\ \A x \in Symbols : \E k \in 1..N : order[k] = x
      /\ \A j, k \in 1..N : order[j] = order[k] => j = k
  BY <1>1 DEF Bijection, Injection, Surjection, IsInjective
<1>3. PICK L \in Nat : L = Len(s)
  OBVIOUS
<1> DEFINE f == [k \in 1..N |-> ProfitOf(s, Only(s, order[k]))]
           Of(j) == {n \in 1..L : \E k \in 1..j : s[n].symbol = order[k]}
           S == {j \in Nat : SumTo(f, j) = ProfitOf(s, Of(j))}
<1>4. \A k \in 1..N : f[k] = ProfitOf(s, Only(s, order[k]))
  OBVIOUS
<1>5. \A j \in 0..N - 1 : /\ Of(j + 1) = Of(j) \cup Only(s, order[j + 1])
                          /\ Of(j) \cap Only(s, order[j + 1]) = {}
  <2> SUFFICES ASSUME NEW j \in 0..N - 1
               PROVE  /\ Of(j + 1) = Of(j) \cup Only(s, order[j + 1])
                      /\ Of(j) \cap Only(s, order[j + 1]) = {}
    OBVIOUS
  <2>1. Only(s, order[j + 1]) = {n \in 1..L : s[n].symbol = order[j + 1]}
    BY <1>3 DEF Only
  <2>2. \A k \in 1..j + 1 : k = j + 1 \/ k \in 1..j
    OBVIOUS
  <2>3. 1..j \subseteq 1..j + 1 /\ j + 1 \in 1..j + 1
    OBVIOUS
  <2>4. Of(j + 1) = Of(j) \cup Only(s, order[j + 1])
    BY <2>1, <2>2, <2>3
  <2>5. \A k \in 1..j : order[k] # order[j + 1]
    <3>1. \A k \in 1..j : k \in 1..N /\ k # j + 1
      OBVIOUS
    <3>2. j + 1 \in 1..N
      OBVIOUS
    <3>3. QED  BY <1>2, <3>1, <3>2
  <2>6. QED  BY <2>1, <2>4, <2>5
<1>6. \A n \in 1..L : n \in Of(N)
  <2> SUFFICES ASSUME NEW n \in 1..L PROVE n \in Of(N)
    OBVIOUS
  <2>1. s[n].symbol \in Symbols
    <3>1. s[n] \in Closes
      BY <1>3
    <3>2. QED  BY <3>1 DEF Closes
  <2>2. QED  BY <1>2, <2>1
<1>7. \A n \in 1..L : n \notin Of(0)
  OBVIOUS
<1> HIDE DEF f, Of
<1>8. 0 \in S
  BY <1>3, <1>7, SumNone, ProfitNone
<1>9. \A j \in 0..N - 1 : j \in S => j + 1 \in S
  <2> SUFFICES ASSUME NEW j \in 0..N - 1, SumTo(f, j) = ProfitOf(s, Of(j))
               PROVE  SumTo(f, j + 1) = ProfitOf(s, Of(j + 1))
    OBVIOUS
  <2>1. f[j + 1] = ProfitOf(s, Only(s, order[j + 1]))
    <3>1. j + 1 \in 1..N
      OBVIOUS
    <3>2. QED  BY <1>4, <3>1
  <2>2. ProfitOf(s, Of(j) \cup Only(s, order[j + 1])) = ProfitOf(s, Of(j)) + ProfitOf(s, Only(s, order[j + 1]))
    BY <1>5, ProfitSplits
  <2>3. SumTo(f, j + 1) = SumTo(f, j) + f[j + 1]
    BY SumNext
  <2>4. QED  BY <1>5, <2>1, <2>2, <2>3
<1> HIDE DEF S
<1>10. 0..N \subseteq S /\ N \in 0..N
  BY <1>8, <1>9, UpTo
<1>11. N \in S
  BY <1>10
<1>12. SumTo(f, N) = ProfitOf(s, Of(N))
  BY <1>11 DEF S
<1>13. ProfitOf(s, Of(N)) = ProfitOf(s, 1..Len(s))
  BY <1>3, <1>6, ProfitSame
<1>14. QED  BY <1>1, <1>12, <1>13 DEF f, Profit

LEMMA LevelIs ==
  ASSUME NEW s \in Seq(Closes), NEW n \in 0..Len(s)
  PROVE  Level(s, n) = EquityAt(s, n)
<1>1. PICK L \in Nat : L = Len(s)
  OBVIOUS
<1>2. CASE n = 0
  BY <1>2, EquitySteps DEF Level
<1>3. CASE n # 0
  <2>1. n \in 1..L /\ s # <<>>
    BY <1>1, <1>3
  <2>2. EquityCurve(s) = [k \in 1..L |-> EquityAt(s, k)]
    BY <1>1, <2>1 DEF EquityCurve
  <2>3. QED  BY <1>3, <2>1, <2>2 DEF Level
<1>4. QED  BY <1>2, <1>3

(* The breaker's view is triggered by the losses at the end.               *)

LosingFrom(s, n) == \A k \in n..Len(s) : s[k].pnl < 0

LEMMA StreakIs ==
  ASSUME NEW s \in Seq(Closes)
  PROVE  \E t \in 1..Len(s) + 1 : /\ ConsecutiveLosses(s) = Len(s) + 1 - t
                                  /\ \A n \in 1..Len(s) : LosingFrom(s, n) <=> t <= n
<1>1. PICK L \in Nat : L = Len(s)
  OBVIOUS
<1> DEFINE T == {n \in 1..L : LosingFrom(s, n)}
           U == T \cup {L + 1}
<1>2. U \subseteq Nat /\ U # {}
  OBVIOUS
<1>3. PICK t : t = Min(U)
  OBVIOUS
<1>4. t \in U /\ \A y \in U : t <= y
  <2> HIDE DEF U
  <2>1. QED  BY <1>2, <1>3, SmallestElement
<1>5. t \in 1..L + 1
  BY <1>1, <1>4
<1>6. \A n \in 1..L : LosingFrom(s, n) => t <= n
  BY <1>4
<1>7. \A n \in 1..L : t <= n => LosingFrom(s, n)
  <2> SUFFICES ASSUME NEW n \in 1..L, t <= n PROVE LosingFrom(s, n)
    OBVIOUS
  <2>1. t # L + 1
    OBVIOUS
  <2>2. LosingFrom(s, t)
    BY <1>4, <2>1
  <2>3. \A k \in n..L : k \in t..L
    BY <1>5
  <2>4. QED  BY <1>1, <2>2, <2>3 DEF LosingFrom
<1>8. T = t..L
  BY <1>5, <1>6, <1>7
<1>9. ConsecutiveLosses(s) = Cardinality(T)
  BY <1>1 DEF ConsecutiveLosses, LosingFrom
<1>10. Cardinality(t..L) = L + 1 - t
  <2>1. t \in Int /\ L \in Int
    BY <1>5
  <2>2. Cardinality(t..L) = IF t > L THEN 0 ELSE L - t + 1
    BY <2>1, FS_Interval
  <2>3. QED  BY <1>5, <2>2
<1> HIDE DEF T, U
<1>11. QED  BY <1>1, <1>5, <1>6, <1>7, <1>8, <1>9, <1>10

\* No close is of the day, as _daily_loss_pct looks for them.
LEMMA NothingStamped == ASSUME NEW s \in Seq(Closes) PROVE DailyPnl(s) = 0
<1>1. \A n \in 1..Len(s) : n \notin {k \in Stamped(s) : s[k].day = today}
  BY DEF Stamped
<1>2. QED  BY <1>1, ProfitNone DEF DailyPnl

LEMMA BreakerIsTheStreak ==
  ASSUME NEW s \in Seq(Closes), NEW enabled \in BOOLEAN
  PROVE  BreakerView(s, enabled) = "triggered" <=>
           enabled /\ \A n \in Len(s) - LossLimit + 1..Len(s) : n > 0 /\ EquityAt(s, n) < EquityAt(s, n - 1)
<1>1. PICK L \in Nat : L = Len(s)
  OBVIOUS
<1>2. PICK t \in 1..L + 1 : ConsecutiveLosses(s) = L + 1 - t /\ \A n \in 1..L : LosingFrom(s, n) <=> t <= n
  BY <1>1, StreakIs
<1>3. LossLimit \in Nat \ {0}
  BY PortfolioAssumption
<1>4. PICK a \in Int : a = L - LossLimit + 1 /\ a <= L
  BY <1>3
<1>5. \A n \in 1..L : EquityAt(s, n) < EquityAt(s, n - 1) <=> s[n].pnl < 0
  <2> SUFFICES ASSUME NEW n \in 1..L PROVE EquityAt(s, n) < EquityAt(s, n - 1) <=> s[n].pnl < 0
    OBVIOUS
  <2>1. PICK x \in Int, y \in Int : x = EquityAt(s, n - 1) /\ y = s[n].pnl
    <3>1. s[n].pnl \in Int
      BY <1>1, PnlIsInt
    <3>2. n - 1 \in Nat
      OBVIOUS
    <3>3. EquityAt(s, n - 1) \in Int
      BY <3>2, EquitySteps
    <3>4. QED  BY <3>1, <3>3
  <2>2. EquityAt(s, n) = x + y
    BY <1>1, <2>1, EquitySteps
  <2>3. QED  BY <2>1, <2>2
<1>6. BreakerView(s, enabled) = "triggered" <=> enabled /\ t <= a
  <2>1. ~(100 * Higher(0, -0) >= TriggerPct * Capital)
    <3>1. PICK k \in Nat \ {0} : k = TriggerPct * Capital
      BY PortfolioAssumption
    <3>2. QED  BY <3>1 DEF Higher
  <2>2. BreakerView(s, enabled) = "triggered" <=> enabled /\ L + 1 - t >= LossLimit
    BY <1>2, <2>1, NothingStamped DEF BreakerView
  <2>3. L + 1 - t >= LossLimit <=> t <= a
    BY <1>3, <1>4
  <2>4. QED  BY <2>2, <2>3
<1>7. ASSUME t <= a PROVE \A n \in a..L : n > 0 /\ EquityAt(s, n) < EquityAt(s, n - 1)
  <2> SUFFICES ASSUME NEW n \in a..L PROVE n > 0 /\ EquityAt(s, n) < EquityAt(s, n - 1)
    OBVIOUS
  <2>1. n \in 1..L /\ t <= n
    BY <1>4, <1>7
  <2>2. LosingFrom(s, n) /\ n \in n..L
    BY <1>2, <2>1
  <2>3. s[n].pnl < 0
    BY <1>1, <2>2 DEF LosingFrom
  <2>4. QED  BY <1>5, <2>1, <2>3
<1>8. ASSUME \A n \in a..L : n > 0 /\ EquityAt(s, n) < EquityAt(s, n - 1) PROVE t <= a
  <2>1. a \in a..L
    BY <1>4
  <2>2. a \in 1..L
    BY <1>4, <1>8, <2>1
  <2>3. \A k \in a..L : k \in 1..L
    BY <2>2
  <2>4. LosingFrom(s, a)
    BY <1>1, <1>5, <1>8, <2>3 DEF LosingFrom
  <2>5. QED  BY <1>2, <2>2, <2>4
<1>9. QED  BY <1>1, <1>4, <1>6, <1>7, <1>8

(* A period's protection pauses on what the curve fell since it began.     *)

\* The closes before a day are the first ones, as their days follow each other.
LEMMA OldOnesComeFirst ==
  ASSUME NEW s \in Seq(Closes), InTime(s), NEW d \in Int
  PROVE  \E b \in 0..Len(s) : /\ Cardinality({n \in 1..Len(s) : s[n].day < d}) = b
                              /\ \A n \in 1..Len(s) : s[n].day < d <=> n <= b
<1>1. PICK L \in Nat : L = Len(s)
  OBVIOUS
<1>2. \A n \in 1..L : s[n].day \in Int
  <2>1. \A n \in 1..L : s[n] \in Closes
    BY <1>1
  <2>2. LastDay \in Nat
    BY PortfolioAssumption
  <2>3. QED  BY <2>1, <2>2, OfAClose
<1> DEFINE U == {n \in 1..L : s[n].day >= d} \cup {L + 1}
           T == {n \in 1..L : s[n].day < d}
<1>3. U \subseteq Nat /\ U # {}
  OBVIOUS
<1>4. PICK t : t = Min(U)
  OBVIOUS
<1>5. t \in U /\ \A y \in U : t <= y
  <2> HIDE DEF U
  <2>1. QED  BY <1>3, <1>4, SmallestElement
<1>6. t \in 1..L + 1
  BY <1>5
<1>7. PICK b \in 0..L : t = b + 1
  BY <1>6
<1>8. \A n \in 1..L : s[n].day < d => n <= b
  <2> SUFFICES ASSUME NEW n \in 1..L, s[n].day < d, n > b PROVE FALSE
    OBVIOUS
  <2>1. t \in 1..L /\ t <= n
    BY <1>7
  <2>2. s[t].day >= d
    BY <1>5, <2>1
  <2>3. s[t].day <= s[n].day
    BY <1>1, <1>2, <2>1 DEF InTime
  <2>4. QED  BY <1>2, <2>1, <2>2, <2>3
<1>9. \A n \in 1..L : n <= b => s[n].day < d
  <2> SUFFICES ASSUME NEW n \in 1..L, n <= b, ~(s[n].day < d) PROVE FALSE
    OBVIOUS
  <2>1. n \in U
    BY <1>2
  <2>2. QED  BY <1>5, <1>7, <2>1
<1>10. T = 1..b
  BY <1>8, <1>9
<1>11. Cardinality(1..b) = b
  <2>1. Cardinality(1..b) = IF 1 > b THEN 0 ELSE b - 1 + 1
    BY FS_Interval
  <2>2. QED  BY <2>1
<1>12. QED  BY <1>1, <1>8, <1>9, <1>10, <1>11

\* What is rounded to the nearest reaches a bound from half below it.
LEMMA RoundedReaches ==
  ASSUME NEW a \in Nat, NEW c \in Nat \ {0}, NEW k \in Nat
  PROVE  (a + c) \div (2 * c) >= k <=> a + c >= (2 * k) * c
<1>1. PICK b \in Nat, d \in Nat \ {0} : b = a + c /\ d = 2 * c
  OBVIOUS
<1>2. PICK m \in Nat : m = b \div d /\ m * d <= b /\ b < m * d + d
  BY <1>1, Quotient
<1>3. (2 * k) * c = k * d /\ k * d \in Nat /\ m * d \in Nat
  BY <1>1
<1>4. CASE m >= k
  <2>1. PICK j \in Nat : m = k + j
    BY <1>4
  <2>2. m * d = k * d + j * d /\ j * d \in Nat
    BY <2>1
  <2>3. QED  BY <1>1, <1>2, <1>3, <1>4, <2>2
<1>5. CASE ~(m >= k)
  <2>1. PICK j \in Nat : k = (m + 1) + j
    BY <1>5
  <2>2. k * d = (m * d + d) + j * d /\ j * d \in Nat
    BY <2>1
  <2>3. QED  BY <1>1, <1>2, <1>3, <1>5, <2>2
<1>6. QED  BY <1>4, <1>5

LEMMA ProtectionIsTheFall ==
  ASSUME NEW s \in Seq(Closes), InTime(s), today \in Int, NEW days \in Int,
         NEW b, b = Cardinality({n \in 1..Len(s) : s[n].day < today - days})
  PROVE  /\ b \in 0..Len(s)
         /\ 100 * (EquityAt(s, b) - PortfolioValue(s)) >= MaxLossPct * Capital => Protection(s, days, MaxLossPct) = "paused"
         /\ Protection(s, days, MaxLossPct) = "paused" =>
              2000000 * (EquityAt(s, b) - PortfolioValue(s)) >= (20000 * MaxLossPct - 1) * Capital
<1>1. PICK L \in Nat, d \in Int : L = Len(s) /\ d = today - days
  OBVIOUS
<1>2. b \in 0..L /\ \A n \in 1..L : s[n].day < d <=> n <= b
  <2>1. PICK a \in 0..L : /\ Cardinality({n \in 1..L : s[n].day < d}) = a
                          /\ \A n \in 1..L : s[n].day < d <=> n <= a
    BY <1>1, OldOnesComeFirst
  <2>2. a = b
    BY <1>1, <2>1
  <2>3. QED  BY <2>1, <2>2
<1>3. \A n \in 1..L : s[n].day \in Int
  <2>1. \A n \in 1..L : s[n] \in Closes
    BY <1>1
  <2>2. LastDay \in Nat
    BY PortfolioAssumption
  <2>3. QED  BY <2>1, <2>2, OfAClose
<1>4. Recent(s, days) = {n \in 1..L : s[n].day >= d}
  BY <1>1 DEF Recent
<1>5. /\ \A n \in 1..L : n \in 1..L <=> n \in (1..b) \cup Recent(s, days)
      /\ (1..b) \cap Recent(s, days) = {}
  BY <1>2, <1>3, <1>4
<1>6. PICK p, r, c : /\ p \in Int /\ p = ProfitOf(s, 1..b) /\ r \in Int /\ r = ProfitOf(s, Recent(s, days))
                     /\ c \in Nat \ {0} /\ c = Capital
  BY PartOK, PortfolioAssumption
<1>7. Profit(s) = p + r
  <2>1. ProfitOf(s, 1..L) = ProfitOf(s, (1..b) \cup Recent(s, days))
    BY <1>1, <1>5, ProfitSame
  <2>2. ProfitOf(s, (1..b) \cup Recent(s, days)) = p + r
    BY <1>5, <1>6, ProfitSplits
  <2>3. QED  BY <1>1, <2>1, <2>2 DEF Profit
<1>8. EquityAt(s, b) - PortfolioValue(s) = -r
  <2>1. EquityAt(s, b) = c + p /\ PortfolioValue(s) = c + (p + r)
    BY <1>6, <1>7 DEF EquityAt, PortfolioValue
  <2>2. QED  BY <1>6, <2>1
<1>9. PICK k \in Nat \ {0} : k = MaxLossPct
  BY PortfolioAssumption
<1>10. PICK x \in Nat : x = Higher(0, -r)
  BY <1>6 DEF Higher
<1>11. PICK y \in Nat : y = (2 * (10000 * k)) * c /\ y = 20000 * k * c /\ y >= c /\ y > c
  <2>1. PICK i \in Nat : k = i + 1
    BY <1>9
  <2>2. PICK j \in Nat : j = 20000 * i
    BY <2>1
  <2>3. (2 * (10000 * k)) * c = j * c + 20000 * c /\ 20000 * k * c = j * c + 20000 * c /\ j * c \in Nat
    BY <1>6, <2>1, <2>2
  <2>4. QED  BY <1>6, <2>3
<1>12. Protection(s, days, MaxLossPct) = "paused" <=> 2000000 * x + c >= y
  <2>1. Millionths(x) = (2000000 * x + c) \div (2 * c)
    BY <1>6 DEF Millionths
  <2>2. Millionths(x) >= 10000 * k <=> 2000000 * x + c >= (2 * (10000 * k)) * c
    <3>1. PICK a \in Nat, h \in Nat : a = 2000000 * x /\ h = 10000 * k
      BY <1>9, <1>10
    <3>2. (a + c) \div (2 * c) >= h <=> a + c >= (2 * h) * c
      BY <1>6, RoundedReaches
    <3>3. QED  BY <2>1, <3>1, <3>2
  <2>3. Protection(s, days, MaxLossPct) = "paused" <=> Millionths(x) >= 10000 * k
    BY <1>6, <1>9, <1>10 DEF Protection
  <2>4. QED  BY <1>11, <2>2, <2>3
<1>13. PICK v \in Int : v = -r
  BY <1>6
<1>14. x = v \/ (x = 0 /\ v <= 0)
  BY <1>6, <1>10, <1>13 DEF Higher
<1>15. PICK z \in Nat : z = k * c
  BY <1>6, <1>9
<1>16. y = 20000 * z
  <2>1. 20000 * k * c = 20000 * (k * c)
    BY <1>6, <1>9
  <2>2. QED  BY <1>11, <1>15, <2>1
<1>17. 100 * v >= z => 2000000 * x + c >= y
  BY <1>6, <1>11, <1>14, <1>15, <1>16
<1>18. 2000000 * x + c >= y => 2000000 * v >= y - c
  BY <1>6, <1>11, <1>14
<1>19. (20000 * k - 1) * c = y - c
  BY <1>6, <1>9, <1>11
<1>20. EquityAt(s, b) - PortfolioValue(s) = v
  BY <1>8, <1>13
<1>21. b \in 0..Len(s) /\ z = MaxLossPct * Capital /\ (20000 * MaxLossPct - 1) * Capital = y - c
  BY <1>1, <1>2, <1>6, <1>9, <1>15, <1>19
<1>22. QED  BY <1>12, <1>17, <1>18, <1>20, <1>21

(* Kelly bets on a pair only if money was made.                            *)

LEMMA FewerAtLess ==
  ASSUME NEW a \in Nat \ {0}, NEW r \in Nat, a <= r, NEW w \in Int, NEW y \in Nat, w * a > r * y
  PROVE  w > y
<1>1. PICK k \in Nat : r = a + k
  OBVIOUS
<1>2. r * y = a * y + k * y
  BY <1>1
<1>3. k * y \in Nat /\ a * y \in Nat /\ w * a \in Int
  OBVIOUS
<1>4. w * a > a * y
  BY <1>2, <1>3
<1>5. SUFFICES ASSUME w <= y PROVE FALSE
  OBVIOUS
<1>6. PICK j \in Nat : y = w + j
  BY <1>5
<1>7. a * y = w * a + j * a
  BY <1>6
<1>8. j * a \in Nat
  OBVIOUS
<1>9. QED  BY <1>3, <1>4, <1>7, <1>8

LEMMA KellyOnlyOnGain ==
  ASSUME NEW s \in Seq(Closes), KellyPositive(s)
  PROVE  PortfolioValue(s) > Capital
<1>1. PICK L \in Nat : L = Len(s)
  OBVIOUS
<1>2. \A n \in 1..L : s[n].pnl \in Int
  BY <1>1, PnlIsInt
<1>3. Won(s) = {n \in 1..L : s[n].pnl > 0} /\ Lost(s) = {n \in 1..L : s[n].pnl < 0}
  BY <1>1 DEF Won, Lost
<1>4. IsFiniteSet(1..L) /\ Cardinality(1..L) = L
  <2>1. IsFiniteSet(1..L) /\ Cardinality(1..L) = IF 1 > L THEN 0 ELSE L - 1 + 1
    BY FS_Interval
  <2>2. QED  BY <2>1
<1>5. Won(s) \subseteq 1..L /\ Lost(s) \subseteq 1..L /\ Won(s) \cap Lost(s) = {}
  BY <1>2, <1>3
<1>6. PICK w, l : /\ w \in Nat /\ w = Cardinality(Won(s)) /\ l \in Nat /\ l = Cardinality(Lost(s)) /\ w + l <= L
                  /\ (l = 0 => Lost(s) = {})
  <2>1. IsFiniteSet(Won(s)) /\ IsFiniteSet(Lost(s))
    BY <1>4, <1>5, FS_Subset
  <2>2. Cardinality(Won(s)) \in Nat /\ Cardinality(Lost(s)) \in Nat
    BY <2>1, FS_CardinalityType
  <2>3. Cardinality(Won(s) \cup Lost(s)) = Cardinality(Won(s)) + Cardinality(Lost(s)) - Cardinality({})
    BY <1>5, <2>1, FS_Union
  <2>4. Cardinality({}) = 0
    BY FS_EmptySet
  <2>5. Won(s) \cup Lost(s) \subseteq 1..L
    BY <1>5
  <2>6. Cardinality(Won(s) \cup Lost(s)) <= L
    BY <1>4, <2>5, FS_Subset
  <2>7. Cardinality(Lost(s)) = 0 => Lost(s) = {}
    BY <2>1, FS_EmptySet
  <2>8. QED  BY <2>2, <2>3, <2>4, <2>6, <2>7
<1>7. PICK W, X : W \in Int /\ W = ProfitOf(s, Won(s)) /\ X \in Int /\ X = ProfitOf(s, Lost(s))
  BY PartOK
<1>8. X <= 0 /\ (Lost(s) = {} => X = 0)
  <2>1. \A n \in 1..L : n \in Lost(s) => s[n].pnl <= 0
    BY <1>2, <1>3
  <2>2. X <= 0
    BY <1>1, <1>7, <2>1, ProfitLossy
  <2>3. Lost(s) = {} => X = 0
    BY <1>7, ProfitNone
  <2>4. QED  BY <2>2, <2>3
<1>9. Profit(s) = W + X
  <2> DEFINE rest == {n \in 1..L : s[n].pnl = 0}
  <2>1. /\ \A n \in 1..L : n \in 1..L <=> n \in (Won(s) \cup Lost(s)) \cup rest
        /\ (Won(s) \cup Lost(s)) \cap rest = {}
    BY <1>2, <1>3
  <2>2. \A n \in 1..L : n \in rest => s[n].pnl = 0
    OBVIOUS
  <2> HIDE DEF rest
  <2>3. ProfitOf(s, 1..L) = ProfitOf(s, (Won(s) \cup Lost(s)) \cup rest)
    BY <1>1, <2>1, ProfitSame
  <2>4. ProfitOf(s, (Won(s) \cup Lost(s)) \cup rest) = ProfitOf(s, Won(s) \cup Lost(s)) + ProfitOf(s, rest)
    BY <2>1, ProfitSplits
  <2>5. ProfitOf(s, Won(s) \cup Lost(s)) = W + X
    BY <1>5, <1>7, ProfitSplits
  <2>6. ProfitOf(s, rest) = 0
    BY <1>1, <2>2, ProfitNone
  <2>7. QED  BY <1>1, <1>7, <2>3, <2>4, <2>5, <2>6 DEF Profit
<1>10. PICK c : c \in Nat /\ c = Capital
  BY PortfolioAssumption
<1>11. IF l > 0 THEN W * l > (L - w) * (-X) ELSE 100 * W > (L - w) * c
  BY <1>1, <1>6, <1>7, <1>10 DEF KellyPositive
<1>12. W + X > 0
  <2>1. PICK y \in Nat : y = -X
    BY <1>7, <1>8
  <2>2. PICK r \in Nat : r = L - w /\ l <= r
    BY <1>6
  <2>3. CASE l > 0
    <3>1. W * l > r * y
      BY <1>11, <2>1, <2>2, <2>3
    <3>2. l \in Nat \ {0} /\ W \in Int /\ l <= r
      BY <1>6, <1>7, <2>2, <2>3
    <3>3. W > y
      BY <3>1, <3>2, FewerAtLess, Zenon
    <3>4. QED  BY <1>7, <2>1, <3>3
  <2>4. CASE ~(l > 0)
    <3>1. r * c \in Nat
      BY <1>10
    <3>2. 100 * W > r * c
      BY <1>11, <2>2, <2>4
    <3>3. X = 0
      BY <1>6, <1>8, <2>4
    <3>4. QED  BY <1>7, <3>1, <3>2, <3>3
  <2>5. QED  BY <2>3, <2>4
<1>13. QED  BY <1>7, <1>9, <1>10, <1>12 DEF PortfolioValue

(* What one answer says of the closes.                                     *)

LEMMA FiguresOK ==
  ASSUME NEW s \in Seq(Closes), InTime(s), today \in Int
  PROVE  FiguresAgree(s)
<1>1. PICK L \in Nat : L = Len(s)
  OBVIOUS
<1>2. \A n \in 0..L : Level(s, n) = EquityAt(s, n)
  BY <1>1, LevelIs
<1>3. PagesListAll(s)
  BY PageOK DEF PagesListAll
<1>4. PairsAddUp(s)
  BY PairsOK DEF PairsAddUp
<1>5. BreakerFollowsCurve(s)
  <2> SUFFICES ASSUME NEW enabled \in BOOLEAN
               PROVE  BreakerView(s, enabled) = "triggered" <=>
                        enabled /\ \A n \in Len(s) - LossLimit + 1..Len(s) : n > 0 /\ Level(s, n) < Level(s, n - 1)
    BY DEF BreakerFollowsCurve
  <2>1. PICK a : a = Len(s) - LossLimit + 1
    OBVIOUS
  <2>2. BreakerView(s, enabled) = "triggered" <=> enabled /\ \A n \in a..L : n > 0 /\ EquityAt(s, n) < EquityAt(s, n - 1)
    BY <1>1, <2>1, BreakerIsTheStreak
  <2>3. a \in Int
    BY <1>1, <2>1, PortfolioAssumption
  <2>4. \A n \in a..L : n > 0 => Level(s, n) = EquityAt(s, n) /\ Level(s, n - 1) = EquityAt(s, n - 1)
    <3>1. \A n \in a..L : n > 0 => n \in 0..L /\ n - 1 \in 0..L
      BY <2>3
    <3>2. QED  BY <1>2, <3>1
  <2>5. (\A n \in a..L : n > 0 /\ EquityAt(s, n) < EquityAt(s, n - 1)) <=> (\A n \in a..L : n > 0 /\ Level(s, n) < Level(s, n - 1))
    BY <2>4
  <2>6. QED  BY <1>1, <2>1, <2>2, <2>5
<1>6. ProtectionFollowsCurve(s)
  <2>1. {0, LastDay} \subseteq Int
    BY PortfolioAssumption
  <2>2. ASSUME NEW days \in {0, LastDay}
        PROVE  /\ 100 * FallSince(s, today - days) >= MaxLossPct * Capital => Protection(s, days, MaxLossPct) = "paused"
               /\ Protection(s, days, MaxLossPct) = "paused" =>
                    2000000 * FallSince(s, today - days) >= (20000 * MaxLossPct - 1) * Capital
    <3>1. PICK k \in Int : k = days
      BY <2>1
    <3>2. PICK b : b = Cardinality({n \in 1..Len(s) : s[n].day < today - k})
      OBVIOUS
    <3>3. /\ b \in 0..Len(s)
          /\ 100 * (EquityAt(s, b) - PortfolioValue(s)) >= MaxLossPct * Capital => Protection(s, k, MaxLossPct) = "paused"
          /\ Protection(s, k, MaxLossPct) = "paused" =>
               2000000 * (EquityAt(s, b) - PortfolioValue(s)) >= (20000 * MaxLossPct - 1) * Capital
      BY <3>2, ProtectionIsTheFall
    <3>4. Level(s, b) = EquityAt(s, b)
      BY <1>1, <1>2, <3>3
    <3>5. FallSince(s, today - k) = EquityAt(s, b) - PortfolioValue(s)
      BY <3>2, <3>4 DEF FallSince
    <3>6. QED  BY <3>1, <3>3, <3>5
  <2>3. QED  BY <2>2 DEF ProtectionFollowsCurve
<1>7. QED  BY <1>3, <1>4, <1>5, <1>6, KellyOnlyOnGain DEF FiguresAgree

(* What it says of the table.                                              *)

HeldLots(table, symbols) == [l \in 1..MaxLots |-> IF l \in DOMAIN table /\ table[l].symbol \in symbols THEN table[l].quantity ELSE 0]

LEMMA HeldOK ==
  ASSUME NEW table, BookOK(table), NEW symbols
  PROVE  \A l \in 1..MaxLots :
           /\ HeldLots(table, symbols)[l] \in Nat /\ HeldLots(table, symbols)[l] <= Size
           /\ HeldLots(table, symbols)[l] = IF l \in DOMAIN table /\ table[l].symbol \in symbols THEN table[l].quantity ELSE 0
<1> SUFFICES ASSUME NEW l \in 1..MaxLots
             PROVE  /\ HeldLots(table, symbols)[l] \in Nat /\ HeldLots(table, symbols)[l] <= Size
                    /\ HeldLots(table, symbols)[l] = IF l \in DOMAIN table /\ table[l].symbol \in symbols THEN table[l].quantity ELSE 0
  OBVIOUS
<1>1. HeldLots(table, symbols)[l] = IF l \in DOMAIN table /\ table[l].symbol \in symbols THEN table[l].quantity ELSE 0
  BY DEF HeldLots
<1>2. l \in DOMAIN table => table[l].quantity \in 1..Size
  BY DEF BookOK, LotRows
<1>3. Size \in Nat
  BY PortfolioAssumption
<1>4. QED  BY <1>1, <1>2, <1>3

LEMMA LessIsListed ==
  ASSUME NEW table, BookOK(table)
  PROVE  CapitalFree(table, Symbols) <= CapitalFree(table, Listed)
<1>1. PICK N \in Nat : N = MaxLots
  BY PortfolioAssumption
<1>2. \A l \in 1..N : /\ HeldLots(table, Listed)[l] \in Int /\ HeldLots(table, Symbols)[l] \in Int
                      /\ HeldLots(table, Listed)[l] <= HeldLots(table, Symbols)[l]
  <2>1. \A l \in 1..N :
          /\ HeldLots(table, Listed)[l] \in Nat
          /\ HeldLots(table, Listed)[l] = IF l \in DOMAIN table /\ table[l].symbol \in Listed THEN table[l].quantity ELSE 0
    BY <1>1, HeldOK
  <2>2. \A l \in 1..N :
          /\ HeldLots(table, Symbols)[l] \in Nat
          /\ HeldLots(table, Symbols)[l] = IF l \in DOMAIN table /\ table[l].symbol \in Symbols THEN table[l].quantity ELSE 0
    BY <1>1, HeldOK
  <2>3. Listed \subseteq Symbols
    BY PortfolioAssumption
  <2>4. QED  BY <2>1, <2>2, <2>3
<1>3. SumTo(HeldLots(table, Listed), N) <= SumTo(HeldLots(table, Symbols), N)
  BY <1>2, SumBelow
<1>4. SumTo(HeldLots(table, Listed), N) \in Int /\ SumTo(HeldLots(table, Symbols), N) \in Int
  BY <1>2, SumInt
<1>5. PICK x \in Int, y \in Int : x = Notional(table, Listed) /\ y = Notional(table, Symbols) /\ x <= y
  BY <1>1, <1>3, <1>4 DEF Notional, HeldLots
<1>6. QED  BY <1>5, PortfolioAssumption DEF CapitalFree, Higher

LEMMA SlotsHoldAll ==
  ASSUME NEW table, BookOK(table)
  PROVE  Slots(table) * Size >= Notional(table, Symbols)
<1>1. PICK N \in Nat : N = MaxLots
  BY PortfolioAssumption
<1>2. PICK z \in Nat : z = Size
  BY PortfolioAssumption
<1>3. PICK f : f = HeldLots(table, Symbols)
  OBVIOUS
<1>4. \A l \in 1..N : /\ f[l] \in Nat /\ f[l] <= z
                      /\ l \notin DOMAIN table => f[l] = 0
  BY <1>1, <1>2, <1>3, HeldOK
<1> DEFINE Below(j) == DOMAIN table \cap (1..j)
           S == {j \in Nat : SumTo(f, j) \in Nat /\ SumTo(f, j) <= Cardinality(Below(j)) * z}
<1>5. \A j \in Nat : IsFiniteSet(Below(j)) /\ Cardinality(Below(j)) \in Nat
  <2> SUFFICES ASSUME NEW j \in Nat PROVE IsFiniteSet(Below(j)) /\ Cardinality(Below(j)) \in Nat
    OBVIOUS
  <2>1. IsFiniteSet(1..j)
    BY FS_Interval
  <2>2. Below(j) \in SUBSET (1..j)
    OBVIOUS
  <2>3. IsFiniteSet(Below(j))
    BY <2>1, <2>2, FS_Subset
  <2>4. QED  BY <2>3, FS_CardinalityType
<1>6. \A j \in Nat : Below(j + 1) = IF j + 1 \in DOMAIN table THEN Below(j) \cup {j + 1} ELSE Below(j)
  <2> SUFFICES ASSUME NEW j \in Nat PROVE Below(j + 1) = IF j + 1 \in DOMAIN table THEN Below(j) \cup {j + 1} ELSE Below(j)
    OBVIOUS
  <2>1. 1..j + 1 = (1..j) \cup {j + 1}
    OBVIOUS
  <2>2. QED  BY <2>1
<1>7. \A j \in Nat : j + 1 \notin Below(j)
  OBVIOUS
<1>8. Below(N) = DOMAIN table
  BY <1>1 DEF BookOK
<1> HIDE DEF Below
<1>9. 0 \in S
  <2>1. Cardinality(Below(0)) * z \in Nat
    <3>1. Cardinality(Below(0)) \in Nat
      BY <1>5
    <3>2. QED  BY <3>1
  <2>2. QED  BY <2>1, SumNone
<1>10. \A j \in 0..N - 1 : j \in S => j + 1 \in S
  <2> SUFFICES ASSUME NEW j \in 0..N - 1, j \in S PROVE j + 1 \in S
    OBVIOUS
  <2>1. j \in Nat /\ j + 1 \in 1..N
    OBVIOUS
  <2>2. PICK c, x : c \in Nat /\ c = Cardinality(Below(j)) /\ x \in Nat /\ x = SumTo(f, j) /\ x <= c * z
    BY <1>5, <2>1
  <2>3. PICK y \in Nat : y = f[j + 1] /\ y <= z /\ (j + 1 \notin DOMAIN table => y = 0)
    BY <1>4, <2>1
  <2>4. SumTo(f, j + 1) = x + y
    BY <2>1, <2>2, <2>3, SumNext
  <2>5. CASE j + 1 \in DOMAIN table
    <3>1. Below(j + 1) = Below(j) \cup {j + 1}
      BY <1>6, <2>1, <2>5
    <3>2. Cardinality(Below(j + 1)) = c + 1
      <4>1. IsFiniteSet(Below(j)) /\ j + 1 \notin Below(j)
        BY <1>5, <1>7, <2>1
      <4>2. Cardinality(Below(j) \cup {j + 1}) = IF j + 1 \in Below(j) THEN Cardinality(Below(j)) ELSE Cardinality(Below(j)) + 1
        BY <4>1, FS_AddElement
      <4>3. QED  BY <2>2, <3>1, <4>1, <4>2
    <3>3. (c + 1) * z = c * z + z /\ c * z \in Nat
      BY <2>2
    <3>4. x + y <= (c + 1) * z
      BY <2>2, <2>3, <3>3
    <3>5. QED  BY <2>2, <2>4, <3>2, <3>4
  <2>6. CASE j + 1 \notin DOMAIN table
    <3>1. Below(j + 1) = Below(j)
      BY <1>6, <2>1, <2>6
    <3>2. y = 0
      BY <2>3, <2>6
    <3>3. QED  BY <2>2, <2>4, <3>1, <3>2
  <2>7. QED  BY <2>5, <2>6
<1> HIDE DEF S
<1>11. 0..N \subseteq S /\ N \in 0..N
  BY <1>9, <1>10, UpTo
<1>12. N \in S
  BY <1>11
<1>13. SumTo(f, N) \in Nat /\ SumTo(f, N) <= Cardinality(DOMAIN table) * z
  BY <1>8, <1>12 DEF S
<1>14. PICK k, v : k \in Nat /\ k = Cardinality(DOMAIN table) /\ v \in Nat /\ v = SumTo(f, N) /\ v <= k * z
  <2>1. Cardinality(DOMAIN table) \in Nat
    BY <1>5, <1>8
  <2>2. QED  BY <1>13, <2>1
<1>15. Notional(table, Symbols) = v /\ Slots(table) = k
  BY <1>1, <1>3, <1>14 DEF Notional, Slots, HeldLots
<1>16. k * z >= v
  BY <1>2, <1>14
<1>17. QED  BY <1>2, <1>15, <1>16

\* The figures that different end points compute from the ledger and the table, each with code of
\* its own, agree in every answer, and no lot is in it twice unless its row could not be deleted,
\* whatever the loop did between the two reads (core/metrics.py; metrics.py, risk.py, trades.py and desk.py of api/routes).
THEOREM PortfolioViewsAgree == PortfolioSpec => []ViewsAgree
<1> SUFFICES ASSUME PortfolioInv PROVE ViewsAgree
  BY PortfolioInvHolds, PTL
<1>1. PICK p, c, b : c \in Seq(Closes) /\ view = [phase |-> p, closes |-> c, lots |-> b] /\ BookOK(b)
  BY DEF PortfolioInv, ViewInv
<1>2. view.closes = c /\ view.lots = b
  BY <1>1
<1>3. PICK m \in Nat, n \in Nat : m = Len(c) /\ n = Len(closes)
  BY <1>1 DEF PortfolioInv, LoopInv
<1>4. m <= n /\ \A i \in 1..m : c[i] = closes[i]
  BY <1>2, <1>3 DEF PortfolioInv, ViewInv
<1>5. InTime(c) /\ today \in Int
  <2>1. today \in Int
    BY PortfolioAssumption DEF PortfolioInv, LoopInv
  <2>2. \A i \in 1..m : i \in 1..n
    BY <1>4
  <2>3. InTime(c)
    BY <1>3, <1>4, <2>2 DEF PortfolioInv, LoopInv, InTime
  <2>4. QED  BY <2>1, <2>3
<1>6. FiguresAgree(c)
  BY <1>1, <1>5, FiguresOK
<1>7. CapitalFree(b, Symbols) <= CapitalFree(b, Listed) /\ Slots(b) * Size >= Notional(b, Symbols)
  BY <1>1, LessIsListed, SlotsHoldAll
<1>8. NoLotTwice
  BY NoLotTwiceNow
<1>9. QED  BY <1>2, <1>6, <1>7, <1>8 DEF ViewsAgree

=============================================================================
