----------------------------- MODULE RulesProofs -----------------------------
(***************************************************************************)
(* What is proved of the pure rules, for every input: a call is asked of an *)
(* arbitrary environment, history or market instead of one from the small   *)
(* sets of the runs.  The rules that walk along a list are folds; a fold    *)
(* over a list of any length is the loop it looks like, step by step        *)
(* (FoldIsLoop), and an invariant of the loop goes through by induction on  *)
(* the number of steps (Upwards).                                           *)
(***************************************************************************)
EXTENDS StartupChecks, MarketChecks, FiniteSetTheorems, SequenceTheorems,
        NaturalsInduction, WellFoundedInduction, TLAPS

-----------------------------------------------------------------------------
(* Folds.                                                                   *)

\* Every set of naturals that is not empty has a least element.
LEMMA Least == ASSUME NEW N \in SUBSET Nat, N # {} PROVE \E n \in N : \A m \in N : n <= m
<1> DEFINE R == {p \in Nat \X Nat : p[1] < p[2]}
<1>1. IsWellFoundedOn(R, Nat)
    <2>1. OpToRel(<, Nat) = R
        BY DEF OpToRel
    <2> HIDE DEF R
    <2> QED  BY <2>1, NatLessThanWellFounded, Zenon
<1>2. \A m, n \in Nat : m < n => <<m, n>> \in R
    OBVIOUS
<1> HIDE DEF R
<1>3. PICK n \in N : \A m \in N : <<m, n>> \notin R
    BY <1>1, WFMin
<1>4. ASSUME NEW m \in N PROVE n <= m
    <2>1. m \in Nat /\ n \in Nat /\ ~(m < n)
        BY <1>2, <1>3
    <2> QED  BY <2>1
<1> QED  BY <1>4

\* What holds at 0 and passes from each number to the next holds up to n.
LEMMA Upwards ==
    ASSUME NEW n \in Nat, NEW G, 0 \in G, \A k \in 1 .. n : k - 1 \in G => k \in G
    PROVE  0 .. n \subseteq G
<1> DEFINE Bad == {k \in 0 .. n : k \notin G}
<1>1. SUFFICES ASSUME Bad # {} PROVE FALSE
    OBVIOUS
<1>2. PICK k \in Bad : \A j \in Bad : k <= j
    <2>1. Bad \in SUBSET Nat
        OBVIOUS
    <2> HIDE DEF Bad
    <2> QED  BY <1>1, <2>1, Least
<1>3. k \in 1 .. n /\ k - 1 \in 0 .. n /\ k - 1 \notin Bad
    <2>1. k \in 0 .. n /\ k # 0
        OBVIOUS
    <2> HIDE DEF Bad
    <2> QED  BY <1>2, <2>1
<1>4. k - 1 \in G
    BY <1>3
<1> QED  BY <1>3, <1>4

\* The largest of the first n numbers, and what is left without it.
LEMMA LargestOfFirst ==
    ASSUME NEW n \in Nat \ {0}
    PROVE  Max(1 .. n) = n /\ (1 .. n) \ {n} = 1 .. (n - 1) /\ 1 .. n # {}
<1>1. n \in 1 .. n /\ \A k \in 1 .. n : n >= k
    OBVIOUS
<1>2. \A m \in 1 .. n : (\A k \in 1 .. n : m >= k) => m = n
    OBVIOUS
<1>3. Max(1 .. n) = n
    BY <1>1, <1>2 DEF Max
<1> QED  BY <1>1, <1>3

\* Some element of a finite set of numbers is the largest.
LEMMA LargestIsThere ==
    ASSUME NEW n \in Nat, NEW x \in SUBSET (1 .. n), x # {}
    PROVE  Max(x) \in x /\ \A k \in x : k <= Max(x)
<1> DEFINE D == {d \in Nat : \E k \in x : d = n - k}
<1>1. D # {} /\ D \in SUBSET Nat
    <2>1. PICK k \in x : TRUE
        OBVIOUS
    <2>2. n - k \in D
        OBVIOUS
    <2> QED  BY <2>2
<1>2. PICK d \in D : \A c \in D : d <= c
    <2> HIDE DEF D
    <2> QED  BY <1>1, Least
<1>3. PICK m \in x : d = n - m
    OBVIOUS
<1>4. ASSUME NEW k \in x PROVE m >= k
    <2>1. n - k \in D
        OBVIOUS
    <2>2. n - m <= n - k
        BY <1>2, <1>3, <2>1
    <2> QED  BY <2>2
<1> QED  BY <1>3, <1>4 DEF Max

\* The steps of a fold over n elements, whose results stay in S, ...
Folds(f, n, S, base, step) ==
    /\ f \in [SUBSET (1 .. n) -> S]
    /\ f[{}] = base
    /\ \A x \in SUBSET (1 .. n) : x # {} => f[x] = step[<<Max(x), f[x \ {Max(x)}]>>]

\* ... and such a fold exists.
LEMMA FoldExists ==
    ASSUME NEW S, NEW n \in Nat, NEW base \in S, NEW step \in [(1 .. n) \X S -> S]
    PROVE  \E f : Folds(f, n, S, base, step)
<1> DEFINE Upto(k) == SUBSET (1 .. k)
           Works(f, k) ==
               /\ f \in [Upto(k) -> S]
               /\ f[{}] = base
               /\ \A x \in Upto(k) : x # {} => f[x] = step[<<Max(x), f[x \ {Max(x)}]>>]
           G == {k \in 0 .. n : \E f : Works(f, k)}
<1>1. 0 \in G
    <2> DEFINE f == [x \in Upto(0) |-> base]
    <2>1. Upto(0) = {{}}
        OBVIOUS
    <2>2. Works(f, 0)
        BY <2>1
    <2> HIDE DEF Works, f
    <2> QED  BY <2>2
<1>2. ASSUME NEW k \in 1 .. n, k - 1 \in G PROVE k \in G
    <2>1. PICK f : Works(f, k - 1)
        BY <1>2
    <2> DEFINE g == [x \in Upto(k) |-> IF k \in x THEN step[<<k, f[x \ {k}]>>] ELSE f[x]]
    <2>2. \A x \in Upto(k) : x \ {k} \in Upto(k - 1) /\ x \ {k} \in Upto(k) /\ (k \notin x => x \in Upto(k - 1))
        OBVIOUS
    <2>3. {} \in Upto(k) /\ {} \in Upto(k - 1)
        OBVIOUS
    <2>4. g \in [Upto(k) -> S]
        BY <2>1, <2>2
    <2>5. ASSUME NEW x \in Upto(k), x # {} PROVE g[x] = step[<<Max(x), g[x \ {Max(x)}]>>]
        <3>1. Max(x) \in x /\ \A j \in x : j <= Max(x)
            <4>1. k \in Nat /\ x \in SUBSET (1 .. k)
                OBVIOUS
            <4> QED  BY <2>5, <4>1, LargestIsThere
        <3>2. CASE k \in x
            <4>1. Max(x) = k
                <5>1. Max(x) \in 1 .. k /\ k <= Max(x)
                    BY <3>1, <3>2
                <5> QED  BY <5>1
            <4>2. g[x \ {k}] = f[x \ {k}] /\ g[x] = step[<<k, f[x \ {k}]>>]
                BY <2>2, <3>2
            <4> QED  BY <4>1, <4>2
        <3>3. CASE k \notin x
            <4>1. x \in Upto(k - 1) /\ x \ {Max(x)} \in Upto(k)
                BY <2>2, <3>3
            <4>2. g[x] = f[x] /\ g[x \ {Max(x)}] = f[x \ {Max(x)}]
                BY <3>3, <4>1
            <4> QED  BY <2>1, <2>5, <4>1, <4>2
        <3> QED  BY <3>2, <3>3
    <2>6. g[{}] = base
        BY <2>1, <2>3
    <2>7. Works(g, k)
        <3> HIDE DEF g, Upto
        <3> QED  BY <2>4, <2>5, <2>6
    <2> HIDE DEF Works, g
    <2> QED  BY <2>7
<1>3. n \in G
    <2> HIDE DEF G
    <2> QED  BY <1>1, <1>2, Upwards
<1> QED  BY <1>3 DEF Folds

\* f does what the step does as long as its own results stay in S.
Obeys(f, n, S, step) ==
    /\ f[{}] \in S
    /\ \A x \in SUBSET (1 .. n) :
          x # {} /\ f[x \ {Max(x)}] \in S => f[x] = step[<<Max(x), f[x \ {Max(x)}]>>]

\* f takes the elements one after the other, its results staying in S.
Loops(f, n, S, step) ==
    /\ \A k \in 0 .. n : f[1 .. k] \in S
    /\ \A k \in 1 .. n : f[1 .. k] = step[<<k, f[1 .. (k - 1)]>>]

\* Then its results stay in S, and it takes the elements one after the other.
LEMMA FoldIsLoop ==
    ASSUME NEW S, NEW n \in Nat, NEW step \in [(1 .. n) \X S -> S], NEW f, Obeys(f, n, S, step)
    PROVE  Loops(f, n, S, step)
<1> USE DEF Obeys, Loops
<1> DEFINE G == {k \in 0 .. n : f[1 .. k] \in S}
<1>1. 0 \in G
    <2>1. 1 .. 0 = {}
        OBVIOUS
    <2> QED  BY <2>1
<1>2. ASSUME NEW k \in 1 .. n, f[1 .. (k - 1)] \in S PROVE f[1 .. k] = step[<<k, f[1 .. (k - 1)]>>]
    <2> DEFINE x == 1 .. k
    <2>1. Max(x) = k /\ x \ {Max(x)} = 1 .. (k - 1) /\ x # {}
        BY LargestOfFirst
    <2>2. x \in SUBSET (1 .. n)
        OBVIOUS
    <2> HIDE DEF x
    <2>3. f[x \ {Max(x)}] \in S
        BY <1>2, <2>1
    <2>4. f[x] = step[<<Max(x), f[x \ {Max(x)}]>>]
        BY <2>1, <2>2, <2>3
    <2>5. f[x] = step[<<k, f[1 .. (k - 1)]>>]
        BY <2>1, <2>4
    <2> QED  BY <2>5 DEF x
<1>3. 0 .. n \subseteq G
    <2>1. ASSUME NEW k \in 1 .. n, k - 1 \in G PROVE k \in G
        <3>1. f[1 .. (k - 1)] \in S
            BY <2>1
        <3>2. <<k, f[1 .. (k - 1)]>> \in (1 .. n) \X S
            BY <3>1
        <3>3. f[1 .. k] \in S
            BY <1>2, <3>1, <3>2
        <3> QED  BY <3>3
    <2> HIDE DEF G
    <2> QED  BY <1>1, <2>1, Upwards
<1> QED  BY <1>2, <1>3

\* A fold that obeys a step ends in S.
LEMMA FoldStays ==
    ASSUME NEW S, NEW n \in Nat, NEW step \in [(1 .. n) \X S -> S], NEW f, Obeys(f, n, S, step)
    PROVE  f[1 .. n] \in S
<1>1. Loops(f, n, S, step)
    BY FoldIsLoop
<1> QED  BY <1>1 DEF Loops

-----------------------------------------------------------------------------
(* The history of candles.                                                  *)

\* A list of candles whose times lie on one grid, asked about with an interval that is positive.
HistoryAsked(i) ==
    /\ i.interval \in Nat \ {0} /\ i.now \in Int /\ i.maxAge \in Int
    /\ \A g, h \in i.history : g = h
    /\ \A h \in i.history : \A c, d \in ToSet(h) :
          c.at \in Int /\ \E k \in Int : d.at = c.at + k * i.interval

\* One multiple is below another only if the multiplier is.
LEMMA MultiplesOrdered ==
    ASSUME NEW a \in Int, NEW b \in Int, NEW m \in Nat \ {0}, a * m < b * m
    PROVE  a < b
<1>1. SUFFICES ASSUME a >= b PROVE FALSE
    OBVIOUS
<1>2. PICK d \in Nat : a = b + d
    <2>1. a - b \in Nat /\ a = b + (a - b)
        BY <1>1
    <2> QED  BY <2>1
<1>3. a * m = b * m + d * m /\ d * m \in Nat
    BY <1>2
<1> QED  BY <1>3

\* What is a multiple away fits into the quotient.
LEMMA QuotientFits ==
    ASSUME NEW x \in Int, NEW q \in Int, NEW m \in Nat \ {0}, q * m <= x
    PROVE  q <= x \div m
<1>1. x \div m \in Int /\ x < m * (x \div m) + m
    OBVIOUS
<1>2. q * m < (x \div m + 1) * m
    BY <1>1
<1> QED  BY <1>1, <1>2, MultiplesOrdered

\* The last time before t and the first after it follow each other.
LEMMA Around ==
    ASSUME NEW times \in SUBSET Int, NEW t \in Int \ times, NEW s \in times, NEW e \in times, s < t, t < e
    PROVE  \E p, n \in times : p < t /\ t < n /\ MR!Consecutive(p, n, times)
<1> DEFINE Before == {d \in Nat : t - d \in times}
           After  == {d \in Nat : t + d \in times}
<1>1. t - s \in Before /\ e - t \in After
    OBVIOUS
<1>2. PICK b \in Before : \A d \in Before : b <= d
    <2>1. Before \in SUBSET Nat /\ Before # {}
        BY <1>1
    <2> HIDE DEF Before
    <2> QED  BY <2>1, Least
<1>3. PICK a \in After : \A d \in After : a <= d
    <2>1. After \in SUBSET Nat /\ After # {}
        BY <1>1
    <2> HIDE DEF After
    <2> QED  BY <2>1, Least
<1>4. t - b \in times /\ t + a \in times /\ t - b < t /\ t < t + a /\ a \in Nat /\ b \in Nat
    OBVIOUS
<1>5. ASSUME NEW u \in times PROVE u <= t - b \/ t + a <= u
    <2>1. CASE u <= t
        <3>1. t - u \in Before
            BY <2>1
        <3>2. b <= t - u
            BY <1>2, <3>1
        <3> QED  BY <1>4, <3>2
    <2>2. CASE u > t
        <3>1. u - t \in After
            BY <2>2
        <3>2. a <= u - t
            BY <1>3, <3>1
        <3> QED  BY <1>4, <3>2
    <2> QED  BY <2>1, <2>2
<1> QED  BY <1>4, <1>5 DEF MR!Consecutive

\* An accepted history has every candle it should have, whatever its interval and length.
LEMMA HistoryIsComplete ==
    ASSUME topic = "history" => HistoryAsked(input) /\ output = Verdict(input)
    PROVE  AcceptedHistoryIsComplete
<1> SUFFICES ASSUME topic = "history", output = "valid" PROVE AcceptedHistoryIsComplete
    BY DEF AcceptedHistoryIsComplete
<1> DEFINE I == input.interval
           times == {c.at : c \in UNION {ToSet(h) : h \in input.history}}
           Open(t) == input.instrument \in CRYPTO_SYMBOLS \/ MR!IsMarketOpen(t)
<1>1. HistoryAsked(input) /\ Verdict(input) = "valid"
    OBVIOUS
<1>2. PICK h \in input.history : MR!ValidateHistoricalCandles(h, input.instrument, I, input.maxAge, input.now) = "valid"
    BY <1>1 DEF Verdict, MR!GetMarketData
<1>3. times = MR!TimesOf(h)
    <2>1. input.history = {h}
        BY <1>1, <1>2 DEF HistoryAsked
    <2>2. UNION {ToSet(g) : g \in input.history} = ToSet(h)
        BY <2>1
    <2>3. times = {c.at : c \in ToSet(h)}
        BY <2>2
    <2> QED  BY <2>3 DEF MR!TimesOf, MR!ToSet, ToSet
<1>4. ~MR!MissingCandles(times, input.instrument, I) /\ \E t \in times : ~(input.now - t > input.maxAge)
    BY <1>2, <1>3 DEF MR!ValidateHistoricalCandles
<1>5. times \in SUBSET Int /\ I \in Nat \ {0} /\ \A s, t \in times : \E k \in Int : t = s + k * I
    <2>1. times = {c.at : c \in ToSet(h)}
        BY <1>3 DEF MR!TimesOf, MR!ToSet, ToSet
    <2>2. I \in Nat \ {0}
        BY <1>1 DEF HistoryAsked
    <2>3. \A c, d \in ToSet(h) : c.at \in Int /\ \E k \in Int : d.at = c.at + k * I
        BY <1>1, <1>2 DEF HistoryAsked
    <2> HIDE DEF times, I
    <2>4. ASSUME NEW s \in times, NEW t \in times PROVE s \in Int /\ \E k \in Int : t = s + k * I
        <3>1. PICK c, d \in ToSet(h) : s = c.at /\ t = d.at
            BY <2>1
        <3> QED  BY <2>3, <3>1
    <2> QED  BY <2>2, <2>4
<1> HIDE DEF times, I
<1>6. ASSUME NEW s \in times, NEW e \in times, NEW k \in Int, k > 0, s + k * I < e, Open(s + k * I),
             s + k * I \notin times
      PROVE  FALSE
    <2> DEFINE t == s + k * I
    <2>1. t \in Int /\ s < t /\ s \in Int /\ e \in Int
        <3>1. s \in Int /\ e \in Int /\ k \in Nat \ {0} /\ I \in Nat \ {0}
            BY <1>5, <1>6
        <3>2. k * I \in Nat \ {0}
            <4>1. \A a, b \in Nat \ {0} : a * b \in Nat \ {0}
                OBVIOUS
            <4> QED  BY <3>1, <4>1
        <3> QED  BY <3>1, <3>2
    <2>2. PICK p, n \in times : p < t /\ t < n /\ MR!Consecutive(p, n, times)
        <3> HIDE DEF t
        <3> QED  BY <1>5, <1>6, <2>1, Around DEF t
    <2>3. PICK a, b \in Int : p = s + a * I /\ n = s + b * I
        BY <1>5, <2>2
    <2>4. a < k /\ k < b
        <3>1. a * I < k * I /\ k * I < b * I
            BY <1>5, <1>6, <2>2, <2>3
        <3> QED  BY <1>5, <1>6, <2>3, <3>1, MultiplesOrdered
    <2>5. n - p = (b - a) * I /\ (b - a) * I >= 2 * I
        <3>1. PICK d \in Nat : b - a = 2 + d
            <4>1. b - a - 2 \in Nat /\ b - a = 2 + (b - a - 2)
                BY <2>4
            <4> QED  BY <4>1
        <3>2. (b - a) * I = 2 * I + d * I /\ d * I \in Nat
            BY <1>5, <3>1
        <3>3. n - p = (b - a) * I
            BY <1>5, <2>3
        <3> QED  BY <1>5, <3>2, <3>3
    <2>6. <<p, n>> \in MR!WideGaps(times, I)
        <3>1. 2 * (n - p) > 3 * I
            BY <1>5, <2>5
        <3>2. <<p, n>>[1] = p /\ <<p, n>>[2] = n /\ <<p, n>> \in times \X times
            OBVIOUS
        <3> QED  BY <2>2, <3>1, <3>2 DEF MR!WideGaps
    <2>7. input.instrument \notin CRYPTO_SYMBOLS /\ MR!ExplainedByClosure(p, n, I)
        BY <1>4, <2>6 DEF MR!MissingCandles
    <2>8. t \in MR!Boundaries(p, n, I)
        <3>1. k - a \in Int /\ k - a >= 1 /\ t = p + (k - a) * I
            BY <1>5, <2>3, <2>4
        <3>2. (k - a) * I <= n - p - 1 /\ n - p - 1 \in Int
            BY <1>5, <2>1, <2>2, <3>1
        <3>3. k - a <= (n - p - 1) \div I /\ (n - p - 1) \div I \in Int
            <4> DEFINE x == n - p - 1
                       q == k - a
            <4>1. x \div I \in Int
                BY <1>5, <3>2
            <4> HIDE DEF x, q
            <4>2. q <= x \div I
                BY <1>5, <3>1, <3>2, QuotientFits DEF x, q
            <4> QED  BY <4>1, <4>2 DEF x, q
        <3> HIDE DEF t
        <3> QED  BY <3>1, <3>3 DEF MR!Boundaries
    <2>9. ~MR!IsMarketOpen(t)
        <3> HIDE DEF t
        <3> QED  BY <2>7, <2>8 DEF MR!ExplainedByClosure
    <2> QED  BY <1>6, <2>7, <2>9
<1>7. \A s, e \in times : \A k \in 1 .. (e - s) \div I :
          LET t == s + k * I IN t < e /\ Open(t) => t \in times
    <2> SUFFICES ASSUME NEW s \in times, NEW e \in times, NEW k \in 1 .. (e - s) \div I,
                        s + k * I < e, Open(s + k * I)
                 PROVE  s + k * I \in times
        OBVIOUS
    <2>1. (e - s) \div I \in Int
        BY <1>5
    <2>2. k \in Int /\ k > 0
        BY <2>1
    <2> QED  BY <1>6, <2>2
<1>8. \E t \in times : input.now - t <= input.maxAge
    <2>1. PICK t \in times : ~(input.now - t > input.maxAge)
        BY <1>4
    <2>2. input.now - t \in Int /\ input.maxAge \in Int
        BY <1>1, <1>5 DEF HistoryAsked
    <2> QED  BY <2>1, <2>2
<1> QED  BY <1>7, <1>8 DEF AcceptedHistoryIsComplete, times, I

-----------------------------------------------------------------------------
(* The indicators.                                                          *)

\* Fractions between two numbers.
Fraction(low, high) == {q \in Int \X (Nat \ {0}) : low * q[2] <= q[1] /\ q[1] <= high * q[2]}

\* Max is Max under both names.
LEMMA SameMax == ASSUME NEW x PROVE MR!Max(x) = Max(x)
BY DEF MR!Max, Max

\* What a sum of n numbers is.
LEMMA SumWithin ==
    ASSUME NEW s \in Seq(Int), NEW low \in Int, NEW high \in Int,
           \A k \in 1 .. Len(s) : low <= s[k] /\ s[k] <= high
    PROVE  MR!Sum(s) \in Int /\ low * Len(s) <= MR!Sum(s) /\ MR!Sum(s) <= high * Len(s)
<1> DEFINE n == Len(s)
           P(f) == f = [x \in SUBSET (DOMAIN s) |-> IF x = {} THEN 0 ELSE f[x \ {Max(x)}] + s[Max(x)]]
           fold == CHOOSE f : P(f)
           step == [p \in (1 .. n) \X Int |-> p[2] + s[p[1]]]
<1>1. MR!Sum(s) = fold[DOMAIN s]
    BY SameMax DEF MR!Sum, MR!FoldLeft, MR!MapThenFoldSet
<1>2. n \in Nat /\ DOMAIN s = 1 .. n /\ \A k \in 1 .. n : s[k] \in Int
    BY LenProperties
<1>3. step \in [(1 .. n) \X Int -> Int] /\ \A k \in 1 .. n, v \in Int : step[<<k, v>>] = v + s[k]
    <2>1. \A k \in 1 .. n, v \in Int : v + s[k] \in Int
        BY <1>2
    <2> HIDE DEF n
    <2>2. step \in [(1 .. n) \X Int -> Int]
        BY <2>1
    <2>3. \A k \in 1 .. n, v \in Int : step[<<k, v>>] = v + s[k]
        OBVIOUS
    <2> HIDE DEF step
    <2> QED  BY <2>2, <2>3
<1>4. \A x \in SUBSET (1 .. n) : x # {} => Max(x) \in 1 .. n
    BY <1>2, LargestIsThere
<1>5. P(fold)
    <2>1. PICK f : Folds(f, n, Int, 0, step)
        <3>1. 0 \in Int
            OBVIOUS
        <3> HIDE DEF step, n
        <3> QED  BY <1>2, <1>3, <3>1, FoldExists
    <2>2. \A x \in SUBSET (1 .. n) : x # {} => f[x] = f[x \ {Max(x)}] + s[Max(x)]
        BY <1>3, <1>4, <2>1 DEF Folds
    <2>3. P(f)
        BY <1>2, <2>1, <2>2 DEF Folds
    <2> HIDE DEF P
    <2> QED  BY <2>3
<1> HIDE DEF fold
<1>6. fold[{}] = 0 /\ \A x \in SUBSET (1 .. n) : x # {} => fold[x] = fold[x \ {Max(x)}] + s[Max(x)]
    BY <1>2, <1>5
<1>7. Loops(fold, n, Int, step)
    <2>1. ASSUME NEW x \in SUBSET (1 .. n), x # {}, fold[x \ {Max(x)}] \in Int
          PROVE  fold[x] = step[<<Max(x), fold[x \ {Max(x)}]>>]
        <3> HIDE DEF step, n
        <3> QED  BY <1>3, <1>4, <1>6, <2>1
    <2>2. fold[{}] \in Int
        BY <1>6
    <2> HIDE DEF step, n
    <2>3. Obeys(fold, n, Int, step)
        BY <2>1, <2>2 DEF Obeys
    <2> QED  BY <1>2, <1>3, <2>3, FoldIsLoop
<1> DEFINE G == {k \in 0 .. n : fold[1 .. k] \in Int /\ low * k <= fold[1 .. k] /\ fold[1 .. k] <= high * k}
<1>8. 0 \in G
    <2>1. 1 .. 0 = {}
        OBVIOUS
    <2> QED  BY <1>2, <1>6, <2>1
<1>9. ASSUME NEW k \in 1 .. n, k - 1 \in G PROVE k \in G
    <2> HIDE DEF step, n
    <2>2. fold[1 .. k] = step[<<k, fold[1 .. (k - 1)]>>] /\ fold[1 .. (k - 1)] \in Int
        BY <1>7, <1>9 DEF Loops
    <2>3. fold[1 .. k] = fold[1 .. (k - 1)] + s[k] /\ s[k] \in Int
        BY <1>2, <1>3, <2>2
    <2>4. low <= s[k] /\ s[k] <= high /\ low * k = low * (k - 1) + low /\ high * k = high * (k - 1) + high
        BY <1>2 DEF n
    <2>5. low * (k - 1) <= fold[1 .. (k - 1)] /\ fold[1 .. (k - 1)] <= high * (k - 1)
        BY <1>9
    <2> QED  BY <1>2, <2>2, <2>3, <2>4, <2>5
<1>10. n \in G
    <2> HIDE DEF G, n
    <2>1. 0 .. n \subseteq G
        BY <1>2, <1>8, <1>9, Upwards
    <2> QED  BY <1>2, <2>1
<1> QED  BY <1>1, <1>2, <1>10

\* An average lies among its numbers.
LEMMA AverageWithin ==
    ASSUME NEW s \in Seq(Int), s # <<>>, NEW low \in Int, NEW high \in Int,
           \A k \in 1 .. Len(s) : low <= s[k] /\ s[k] <= high
    PROVE  MR!Average(s) \in Fraction(low, high)
<1>1. Len(s) \in Nat \ {0}
    BY EmptySeq, LenProperties
<1> QED  BY <1>1, SumWithin DEF MR!Average, Fraction

\* A factor that is not negative keeps the order.
LEMMA TimesKeepsOrder ==
    ASSUME NEW a \in Int, NEW b \in Int, NEW c \in Nat, a <= b
    PROVE  a * c <= b * c
<1>1. \A d \in Nat : d * c >= 0
    OBVIOUS
<1>2. b - a \in Nat /\ (b - a) * c = b * c - a * c
    OBVIOUS
<1>3. (b - a) * c >= 0
    BY <1>1, <1>2
<1> QED  BY <1>2, <1>3

\* A weighted mean of a number and a fraction between two numbers is between them.
LEMMA WeightedMean ==
    ASSUME NEW low \in Int, NEW high \in Int, NEW v \in Int, low <= v, v <= high,
           NEW u \in Nat \ {0}, NEW w \in Nat, NEW q \in Fraction(low, high)
    PROVE  <<u * v * q[2] + w * q[1], (u + w) * q[2]>> \in Fraction(low, high)
<1>1. PICK n \in Int, d \in Nat \ {0} : q = <<n, d>> /\ q[1] = n /\ q[2] = d /\ low * d <= n /\ n <= high * d
    BY DEF Fraction
<1>2. low * d <= v * d /\ v * d <= high * d
    BY TimesKeepsOrder
<1>3. (u + w) * d \in Nat \ {0}
    <2>1. \A a, b \in Nat \ {0} : a * b \in Nat \ {0}
        OBVIOUS
    <2> QED  BY <2>1
<1> DEFINE a == low * d  b == v * d  c == high * d
<1>4. a \in Int /\ b \in Int /\ c \in Int /\ a <= b /\ b <= c /\ a <= n /\ n <= c
    BY <1>1, <1>2
<1>5. u * v * d = b * u /\ low * ((u + w) * d) = a * u + a * w /\ high * ((u + w) * d) = c * u + c * w
    OBVIOUS
<1> HIDE DEF a, b, c
<1>6. a * u <= b * u /\ b * u <= c * u /\ a * w <= n * w /\ n * w <= c * w
    BY <1>4, TimesKeepsOrder
<1>7. n * w = w * n /\ b * u \in Int /\ n * w \in Int /\ a * u \in Int /\ a * w \in Int /\ c * u \in Int /\ c * w \in Int
    BY <1>4
<1> DEFINE x == u * v * d  y == w * n  z == (u + w) * d
<1>8. x + y \in Int /\ low * z <= x + y /\ x + y <= high * z /\ z \in Nat \ {0}
    BY <1>3, <1>5, <1>6, <1>7
<1> HIDE DEF x, y, z
<1>9. <<x + y, z>> \in Fraction(low, high)
    BY <1>8 DEF Fraction
<1> QED  BY <1>1, <1>9 DEF x, y, z

\* Wilder's smoothing stays among the numbers it smooths, ...
LEMMA SmoothedWithin ==
    ASSUME NEW s \in Seq(Int), NEW low \in Int, NEW high \in Int, NEW period \in Nat \ {0},
           period <= Len(s), \A k \in 1 .. Len(s) : low <= s[k] /\ s[k] <= high
    PROVE  MR!Smoothed(s, period) \in Fraction(low, high)
<1> DEFINE S == Fraction(low, high)
           first == SubSeq(s, 1, period)
           t == SubSeq(s, period + 1, Len(s))
           n == Len(t)
           base == MR!Average(first)
           P(f) == f = [x \in SUBSET (DOMAIN t) |-> IF x = {} THEN base
                          ELSE <<(period - 1) * f[x \ {Max(x)}][1] + t[Max(x)] * f[x \ {Max(x)}][2],
                                 period * f[x \ {Max(x)}][2]>>]
           fold == CHOOSE f : P(f)
           step == [p \in (1 .. n) \X S |-> <<(period - 1) * p[2][1] + t[p[1]] * p[2][2], period * p[2][2]>>]
<1>1. MR!Smoothed(s, period) = fold[DOMAIN t]
    BY SameMax DEF MR!Smoothed, MR!FoldLeft, MR!MapThenFoldSet
<1>2. /\ first \in Seq(Int) /\ Len(first) = period /\ \A k \in 1 .. period : first[k] = s[k]
      /\ t \in Seq(Int) /\ n = Len(s) - period /\ \A k \in 1 .. n : t[k] = s[k + period]
    OBVIOUS
<1>3. base \in S
    <2>1. first # <<>> /\ \A k \in 1 .. Len(first) : low <= first[k] /\ first[k] <= high
        BY <1>2
    <2> HIDE DEF first
    <2> QED  BY <1>2, <2>1, AverageWithin
<1>4. n \in Nat /\ DOMAIN t = 1 .. n /\ \A k \in 1 .. n : t[k] \in Int /\ low <= t[k] /\ t[k] <= high
    BY <1>2
<1> HIDE DEF t, first, base
<1>5. \A k \in 1 .. n, q \in S : step[<<k, q>>] = <<(period - 1) * q[1] + t[k] * q[2], period * q[2]>>
    OBVIOUS
<1>6. ASSUME NEW k \in 1 .. n, NEW q \in S
      PROVE  <<(period - 1) * q[1] + t[k] * q[2], period * q[2]>> \in S
    <2>1. <<1 * t[k] * q[2] + (period - 1) * q[1], (1 + (period - 1)) * q[2]>> \in S
        <3>1. 1 \in Nat \ {0} /\ period - 1 \in Nat
            OBVIOUS
        <3>2. t[k] \in Int /\ low <= t[k] /\ t[k] <= high
            BY <1>4
        <3> QED  BY <3>1, <3>2, WeightedMean
    <2>2. q[1] \in Int /\ q[2] \in Nat
        BY DEF Fraction
    <2>3. 1 * t[k] * q[2] + (period - 1) * q[1] = (period - 1) * q[1] + t[k] * q[2] /\ 1 + (period - 1) = period
        <3>1. \A u, v, w, x \in Int : 1 * u * v + w * x = w * x + u * v
            OBVIOUS
        <3>2. t[k] \in Int /\ q[1] \in Int /\ q[2] \in Int /\ period - 1 \in Int /\ 1 + (period - 1) = period
            BY <1>4, <2>2
        <3> HIDE DEF n
        <3> QED  BY <3>1, <3>2
    <2> QED  BY <2>1, <2>3
<1>7. step \in [(1 .. n) \X S -> S]
    <2> HIDE DEF S, n
    <2> QED  BY <1>6
<1>8. \A x \in SUBSET (1 .. n) : x # {} => Max(x) \in 1 .. n
    BY <1>4, LargestIsThere
<1>9. P(fold)
    <2>1. PICK f : Folds(f, n, S, base, step)
        <3> HIDE DEF step, n, S
        <3> QED  BY <1>3, <1>4, <1>7, FoldExists
    <2>2. \A x \in SUBSET (1 .. n) : x # {} =>
             f[x] = <<(period - 1) * f[x \ {Max(x)}][1] + t[Max(x)] * f[x \ {Max(x)}][2], period * f[x \ {Max(x)}][2]>>
        <3> HIDE DEF step, n, S
        <3> QED  BY <1>5, <1>8, <2>1 DEF Folds
    <2>3. P(f)
        <3> HIDE DEF n, step, S
        <3> QED  BY <1>4, <2>1, <2>2 DEF Folds
    <2> HIDE DEF P
    <2> QED  BY <2>3
<1> HIDE DEF fold
<1>10. fold[{}] = base /\ \A x \in SUBSET (1 .. n) : x # {} =>
          fold[x] = <<(period - 1) * fold[x \ {Max(x)}][1] + t[Max(x)] * fold[x \ {Max(x)}][2], period * fold[x \ {Max(x)}][2]>>
    <2> HIDE DEF n, step, S
    <2> QED  BY <1>4, <1>9
<1>11. Obeys(fold, n, S, step)
    <2>1. ASSUME NEW x \in SUBSET (1 .. n), x # {}, fold[x \ {Max(x)}] \in S
          PROVE  fold[x] = step[<<Max(x), fold[x \ {Max(x)}]>>]
        <3> HIDE DEF step, n, S
        <3> QED  BY <1>5, <1>8, <1>10, <2>1
    <2>2. fold[{}] \in S
        BY <1>3, <1>10
    <2> HIDE DEF step, n, S
    <2> QED  BY <2>1, <2>2 DEF Obeys
<1>12. fold[1 .. n] \in S
    <2> HIDE DEF step, n, S
    <2> QED  BY <1>4, <1>7, <1>11, FoldStays
<1> QED  BY <1>1, <1>4, <1>12

\* ... and so does the exponential average.
LEMMA EmaWithin ==
    ASSUME NEW s \in Seq(Int), NEW low \in Int, NEW high \in Int, NEW period \in Nat \ {0},
           s # <<>>, \A k \in 1 .. Len(s) : low <= s[k] /\ s[k] <= high
    PROVE  MR!CalculateEma(s, period) \in Fraction(low, high)
<1> DEFINE S == Fraction(low, high)
           first == SubSeq(s, 1, period)
           t == SubSeq(s, period + 1, Len(s))
           n == Len(t)
           base == MR!Average(first)
           P(f) == f = [x \in SUBSET (DOMAIN t) |-> IF x = {} THEN base
                          ELSE <<2 * t[Max(x)] * f[x \ {Max(x)}][2] + (period - 1) * f[x \ {Max(x)}][1],
                                 (period + 1) * f[x \ {Max(x)}][2]>>]
           fold == CHOOSE f : P(f)
           step == [p \in (1 .. n) \X S |-> <<2 * t[p[1]] * p[2][2] + (period - 1) * p[2][1], (period + 1) * p[2][2]>>]
<1>0. SUFFICES ASSUME period <= Len(s) PROVE MR!CalculateEma(s, period) \in Fraction(low, high)
    <2>1. Len(s) < period => MR!CalculateEma(s, period) = MR!Average(s)
        BY DEF MR!CalculateEma
    <2> QED  BY <2>1, AverageWithin
<1>1. MR!CalculateEma(s, period) = fold[DOMAIN t]
    <2>1. ~(Len(s) < period)
        BY <1>0
    <2> QED  BY <2>1, SameMax DEF MR!CalculateEma, MR!FoldLeft, MR!MapThenFoldSet
<1>2. /\ first \in Seq(Int) /\ Len(first) = period /\ \A k \in 1 .. period : first[k] = s[k]
      /\ t \in Seq(Int) /\ n = Len(s) - period /\ \A k \in 1 .. n : t[k] = s[k + period]
    BY <1>0
<1>3. base \in S
    <2>1. first # <<>> /\ \A k \in 1 .. Len(first) : low <= first[k] /\ first[k] <= high
        BY <1>2
    <2> HIDE DEF first
    <2> QED  BY <1>2, <2>1, AverageWithin
<1>4. n \in Nat /\ DOMAIN t = 1 .. n /\ \A k \in 1 .. n : t[k] \in Int /\ low <= t[k] /\ t[k] <= high
    BY <1>2
<1> HIDE DEF t, first, base
<1>5. \A k \in 1 .. n, q \in S : step[<<k, q>>] = <<2 * t[k] * q[2] + (period - 1) * q[1], (period + 1) * q[2]>>
    OBVIOUS
<1>6. ASSUME NEW k \in 1 .. n, NEW q \in S
      PROVE  <<2 * t[k] * q[2] + (period - 1) * q[1], (period + 1) * q[2]>> \in S
    <2>1. <<2 * t[k] * q[2] + (period - 1) * q[1], (2 + (period - 1)) * q[2]>> \in S
        <3>1. 2 \in Nat \ {0} /\ period - 1 \in Nat
            OBVIOUS
        <3>2. t[k] \in Int /\ low <= t[k] /\ t[k] <= high
            BY <1>4
        <3> QED  BY <3>1, <3>2, WeightedMean
    <2>2. q[1] \in Int /\ q[2] \in Nat
        BY DEF Fraction
    <2>3. 2 + (period - 1) = period + 1
        BY <1>4, <2>2
    <2> QED  BY <2>1, <2>3
<1>7. step \in [(1 .. n) \X S -> S]
    <2> HIDE DEF S, n
    <2> QED  BY <1>6
<1>8. \A x \in SUBSET (1 .. n) : x # {} => Max(x) \in 1 .. n
    BY <1>4, LargestIsThere
<1>9. P(fold)
    <2>1. PICK f : Folds(f, n, S, base, step)
        <3> HIDE DEF step, n, S
        <3> QED  BY <1>3, <1>4, <1>7, FoldExists
    <2>2. \A x \in SUBSET (1 .. n) : x # {} =>
             f[x] = <<2 * t[Max(x)] * f[x \ {Max(x)}][2] + (period - 1) * f[x \ {Max(x)}][1], (period + 1) * f[x \ {Max(x)}][2]>>
        <3> HIDE DEF step, n, S
        <3> QED  BY <1>5, <1>8, <2>1 DEF Folds
    <2>3. P(f)
        <3> HIDE DEF n, step, S
        <3> QED  BY <1>4, <2>1, <2>2 DEF Folds
    <2> HIDE DEF P
    <2> QED  BY <2>3
<1> HIDE DEF fold
<1>10. fold[{}] = base /\ \A x \in SUBSET (1 .. n) : x # {} =>
          fold[x] = <<2 * t[Max(x)] * fold[x \ {Max(x)}][2] + (period - 1) * fold[x \ {Max(x)}][1], (period + 1) * fold[x \ {Max(x)}][2]>>
    <2> HIDE DEF n, step, S
    <2> QED  BY <1>4, <1>9
<1>11. Obeys(fold, n, S, step)
    <2>1. ASSUME NEW x \in SUBSET (1 .. n), x # {}, fold[x \ {Max(x)}] \in S
          PROVE  fold[x] = step[<<Max(x), fold[x \ {Max(x)}]>>]
        <3> HIDE DEF step, n, S
        <3> QED  BY <1>5, <1>8, <1>10, <2>1
    <2>2. fold[{}] \in S
        BY <1>3, <1>10
    <2> HIDE DEF step, n, S
    <2> QED  BY <2>1, <2>2 DEF Obeys
<1>12. fold[1 .. n] \in S
    <2> HIDE DEF step, n, S
    <2> QED  BY <1>4, <1>7, <1>11, FoldStays
<1> QED  BY <1>1, <1>4, <1>12

\* Among finitely many numbers there is a smallest and a largest.
LEMMA ExtremesExist ==
    ASSUME NEW n \in Nat \ {0}, NEW f \in [1 .. n -> Int]
    PROVE  \E a, b \in 1 .. n : \A k \in 1 .. n : f[a] <= f[k] /\ f[k] <= f[b]
<1> DEFINE G == {m \in 0 .. n : m = 0 \/ \E a, b \in 1 .. m : \A k \in 1 .. m : f[a] <= f[k] /\ f[k] <= f[b]}
<1>1. 0 \in G
    OBVIOUS
<1>2. ASSUME NEW m \in 1 .. n, m - 1 \in G
      PROVE  \E a, b \in 1 .. m : \A k \in 1 .. m : f[a] <= f[k] /\ f[k] <= f[b]
    <2>1. CASE m = 1
        <3>1. \A k \in 1 .. m : f[1] <= f[k] /\ f[k] <= f[1]
            BY <2>1
        <3>2. 1 \in 1 .. m
            BY <2>1
        <3> QED  BY <3>1, <3>2
    <2>2. CASE m # 1
        <3>1. PICK a, b \in 1 .. (m - 1) : \A k \in 1 .. (m - 1) : f[a] <= f[k] /\ f[k] <= f[b]
            BY <1>2, <2>2
        <3>2. /\ \A k \in 1 .. m : k = m \/ k \in 1 .. (m - 1)
              /\ {a, b, m} \subseteq 1 .. m /\ {f[a], f[b], f[m]} \subseteq Int
            OBVIOUS
        <3> DEFINE a2 == IF f[m] < f[a] THEN m ELSE a
                   b2 == IF f[m] > f[b] THEN m ELSE b
        <3>3. /\ f[a2] <= f[m] /\ f[a2] <= f[a] /\ f[m] <= f[b2] /\ f[b] <= f[b2]
              /\ a2 \in 1 .. m /\ b2 \in 1 .. m /\ f[a2] \in Int /\ f[b2] \in Int
            BY <3>2
        <3> HIDE DEF a2, b2
        <3>4. ASSUME NEW k \in 1 .. m PROVE f[a2] <= f[k] /\ f[k] <= f[b2]
            <4>1. CASE k = m
                BY <3>3, <4>1
            <4>2. CASE k # m
                <5>1. f[a] <= f[k] /\ f[k] <= f[b] /\ f[k] \in Int
                    BY <3>1, <3>2, <4>2
                <5>2. f[a] \in Int /\ f[b] \in Int
                    BY <3>2
                <5>3. \A x, y, z \in Int : x <= y /\ y <= z => x <= z
                    OBVIOUS
                <5>4. f[a2] <= f[k]
                    BY <3>3, <5>1, <5>2, <5>3
                <5>5. f[k] <= f[b2]
                    BY <3>3, <5>1, <5>2, <5>3
                <5> QED  BY <5>4, <5>5
            <4> QED  BY <4>1, <4>2
        <3> QED  BY <3>3, <3>4
    <2> QED  BY <2>1, <2>2
<1>3. n \in G
    <2>1. n \in Nat /\ n \in 0 .. n
        OBVIOUS
    <2>3. ASSUME NEW m \in 1 .. n, m - 1 \in G PROVE m \in G
        <3>1. \E a, b \in 1 .. m : \A k \in 1 .. m : f[a] <= f[k] /\ f[k] <= f[b]
            <4> HIDE DEF G
            <4> QED  BY <1>2, <2>3
        <3>2. m \in 0 .. n
            OBVIOUS
        <3> QED  BY <3>1, <3>2
    <2> HIDE DEF G
    <2>2. 0 .. n \subseteq G
        BY <1>1, <2>1, <2>3, Upwards
    <2> QED  BY <2>1, <2>2
<1> QED  BY <1>3

\* So Min and Max of a list's numbers are two of them and bound them all.
LEMMA ExtremesBound ==
    ASSUME NEW s, NEW n \in Nat \ {0}, NEW f \in [1 .. n -> Int], s = {f[k] : k \in 1 .. n}
    PROVE  /\ Min(s) \in s /\ Max(s) \in s /\ Min(s) \in Int /\ Max(s) \in Int
           /\ \A k \in 1 .. n : Min(s) <= f[k] /\ f[k] <= Max(s)
<1>1. PICK a, b \in 1 .. n : \A k \in 1 .. n : f[a] <= f[k] /\ f[k] <= f[b]
    BY ExtremesExist
<1>2. \E x \in s : \A y \in s : x <= y
    <2>1. f[a] \in s /\ \A y \in s : f[a] <= y
        BY <1>1
    <2> QED  BY <2>1
<1>3. \E x \in s : \A y \in s : x >= y
    <2>1. f[b] \in s /\ f[b] \in Int /\ \A y \in s : y \in Int /\ y <= f[b]
        BY <1>1
    <2>2. \A y \in s : f[b] >= y
        BY <2>1
    <2> QED  BY <2>1, <2>2
<1>4. Min(s) \in s /\ \A y \in s : Min(s) <= y
    BY <1>2 DEF Min
<1>5. Max(s) \in s /\ \A y \in s : Max(s) >= y
    BY <1>3 DEF Max
<1>6. s \subseteq Int /\ \A k \in 1 .. n : f[k] \in s
    OBVIOUS
<1>7. ASSUME NEW k \in 1 .. n PROVE Min(s) <= f[k] /\ f[k] <= Max(s)
    <2>1. Min(s) \in Int /\ Max(s) \in Int /\ f[k] \in Int /\ Max(s) >= f[k] /\ Min(s) <= f[k]
        BY <1>4, <1>5, <1>6
    <2> QED  BY <2>1
<1> QED  BY <1>4, <1>5, <1>6, <1>7

\* Smoothed gains and losses are fractions that are not negative.
LEMMA SmoothedNotNegative ==
    ASSUME NEW s \in Seq(Nat), NEW period \in Nat \ {0}, period <= Len(s)
    PROVE  MR!Smoothed(s, period) \in Nat \X (Nat \ {0})
<1>1. Len(s) \in Nat \ {0} /\ s \in [1 .. Len(s) -> Int] /\ s \in Seq(Int)
    OBVIOUS
<1>2. PICK b \in 1 .. Len(s) : \A k \in 1 .. Len(s) : s[k] <= s[b]
    BY <1>1, ExtremesExist
<1>3. MR!Smoothed(s, period) \in Fraction(0, s[b])
    <2>1. s[b] \in Int /\ \A k \in 1 .. Len(s) : 0 <= s[k] /\ s[k] <= s[b]
        BY <1>2
    <2> QED  BY <1>1, <2>1, SmoothedWithin
<1>4. \A q \in Fraction(0, s[b]) : q \in Nat \X (Nat \ {0})
    <2>1. ASSUME NEW q \in Fraction(0, s[b]) PROVE q \in Nat \X (Nat \ {0})
        <3>1. PICK x \in Int, d \in Nat \ {0} : q = <<x, d>> /\ 0 * d <= x
            BY DEF Fraction
        <3>2. x \in Nat
            BY <3>1
        <3> QED  BY <3>1, <3>2
    <2> QED  BY <2>1
<1> QED  BY <1>3, <1>4

\* RSI is between 0 and 100.
LEMMA RsiWithin ==
    ASSUME NEW s \in Seq(Int), NEW period \in Nat \ {0}
    PROVE  MR!CalculateRsi(s, period) \in Fraction(0, 100)
<1> DEFINE gains == [i \in DOMAIN MR!Changes(s) |-> MR!Gain(MR!Changes(s)[i])]
           losses == [i \in DOMAIN MR!Changes(s) |-> MR!Loss(MR!Changes(s)[i])]
           gain == MR!Smoothed(gains, period)
           loss == MR!Smoothed(losses, period)
<1>1. CASE Len(s) < period + 1
    <2>1. MR!CalculateRsi(s, period) = <<50, 1>>
        BY <1>1 DEF MR!CalculateRsi
    <2> QED  BY <2>1 DEF Fraction
<1>2. CASE ~(Len(s) < period + 1)
    <2>1. \A c \in Int : MR!Gain(c) \in Nat /\ MR!Loss(c) \in Nat
        BY DEF MR!Gain, MR!Loss
    <2>2. DOMAIN MR!Changes(s) = 1 .. (Len(s) - 1) /\ \A i \in 1 .. (Len(s) - 1) : MR!Changes(s)[i] \in Int
        BY DEF MR!Changes
    <2>3. Len(s) - 1 \in Nat /\ period <= Len(s) - 1
        BY <1>2
    <2>4. gains \in [1 .. (Len(s) - 1) -> Nat] /\ losses \in [1 .. (Len(s) - 1) -> Nat]
        BY <2>1, <2>2
    <2>5. gains \in Seq(Nat) /\ Len(gains) = Len(s) - 1 /\ losses \in Seq(Nat) /\ Len(losses) = Len(s) - 1
        <3>1. \A m \in Nat : \A f \in [1 .. m -> Nat] : f \in Seq(Nat) /\ Len(f) = m
            OBVIOUS
        <3> HIDE DEF gains, losses
        <3> QED  BY <2>3, <2>4, <3>1
    <2>6. gain \in Nat \X (Nat \ {0}) /\ loss \in Nat \X (Nat \ {0})
        <3> HIDE DEF gains, losses
        <3> QED  BY <2>3, <2>5, SmoothedNotNegative
    <2>7. MR!CalculateRsi(s, period) = IF loss[1] = 0 THEN <<100, 1>> ELSE <<100 * gain[1], gain[1] + loss[1]>>
        BY <1>2 DEF MR!CalculateRsi
    <2> HIDE DEF gain, loss
    <2> QED  BY <2>6, <2>7 DEF Fraction
<1> QED  BY <1>1, <1>2

\* Candles a history may be made of.
Candle == [at : Int, open : Nat, high : Nat, low : Nat, close : Nat, volume : SUBSET Int]

\* What a decision is asked about: at least two candles, none malformed.
DecisionAsked(i) ==
    /\ i.candles \in Seq(Candle) /\ Len(i.candles) >= 2
    /\ \A k \in 1 .. Len(i.candles) : ~MR!IsMalformed(i.candles[k])

\* The prices of a candle that is not malformed.
Priced(c) ==
    /\ {c.open, c.high, c.low, c.close} \subseteq Nat \ {0}
    /\ c.low <= c.close /\ c.close <= c.high

\* A candle that is not malformed has its close between its low and its high.
LEMMA SoundIsPriced ==
    ASSUME NEW c \in Candle, ~MR!IsMalformed(c)
    PROVE  Priced(c)
BY DEF Candle, Priced, MR!IsMalformed

\* The largest of five numbers is one of them.
LEMMA LargestOfFive ==
    ASSUME NEW a \in Int, NEW b \in Int, NEW c \in Int, NEW d \in Int, NEW e \in Int
    PROVE  MR!Max({a, b, c, d, e}) \in {a, b, c, d, e} /\ MR!Max({a, b, c, d, e}) >= a
<1> DEFINE s == {a, b, c, d, e}
<1>1. \E x \in s : \A y \in s : x >= y
    OBVIOUS
<1>2. MR!Max(s) \in s /\ \A y \in s : MR!Max(s) >= y
    <2> HIDE DEF s
    <2> QED  BY <1>1 DEF MR!Max
<1>3. a \in s
    OBVIOUS
<1> QED  BY <1>2, <1>3

\* No true range is below the narrowest candle, nor above the whole range.
LEMMA TrueRangeWithin ==
    ASSUME NEW c, NEW p, Priced(c), Priced(p), NEW narrow \in Int, NEW top \in Int, NEW bottom \in Int,
           narrow <= c.high - c.low,
           c.high <= top, p.high <= top, bottom <= c.low, bottom <= p.low
    PROVE  LET r == MR!Max({c.high - c.low, c.high - p.close, p.close - c.high, c.low - p.close, p.close - c.low})
           IN  r \in Int /\ narrow <= r /\ r <= top - bottom
<1> DEFINE s == {c.high - c.low, c.high - p.close, p.close - c.high, c.low - p.close, p.close - c.low}
<1>1. {c.high, c.low, c.close, p.high, p.low, p.close} \subseteq Int
    BY DEF Priced
<1>2. MR!Max(s) \in s /\ MR!Max(s) >= c.high - c.low
    <2> DEFINE v == c.high - c.low  w == c.high - p.close  x == p.close - c.high
               y == c.low - p.close  z == p.close - c.low
    <2>1. v \in Int /\ w \in Int /\ x \in Int /\ y \in Int /\ z \in Int /\ s = {v, w, x, y, z}
        BY <1>1
    <2> HIDE DEF v, w, x, y, z, s
    <2>2. MR!Max({v, w, x, y, z}) \in {v, w, x, y, z} /\ MR!Max({v, w, x, y, z}) >= v
        BY <2>1, LargestOfFive
    <2>3. MR!Max(s) \in s /\ MR!Max(s) >= v
        BY <2>1, <2>2
    <2> QED  BY <2>3 DEF v
<1>3. \A x \in s : x \in Int /\ x <= top - bottom
    BY <1>1 DEF Priced
<1>4. MR!Max(s) \in Int /\ MR!Max(s) <= top - bottom
    <2> HIDE DEF s
    <2> QED  BY <1>2, <1>3
<1>5. narrow <= MR!Max(s)
    <2> HIDE DEF s
    <2> QED  BY <1>1, <1>2, <1>4
<1> QED  BY <1>4, <1>5

\* So ATR is neither.
LEMMA AtrWithin ==
    ASSUME NEW s \in Seq(Candle), Len(s) >= 2, \A k \in 1 .. Len(s) : Priced(s[k]), NEW period \in Nat \ {0},
           NEW narrow \in Int, NEW top \in Int, NEW bottom \in Int,
           \A k \in 1 .. Len(s) : narrow <= s[k].high - s[k].low /\ s[k].high <= top /\ bottom <= s[k].low
    PROVE  MR!CalculateAtr(s, period) \in Fraction(narrow, top - bottom)
<1> DEFINE ranges == MR!TrueRanges(s)
           n == Len(s) - 1
<1>1. n \in Nat \ {0}
    OBVIOUS
<1>2. DOMAIN ranges = 1 .. n /\ ranges = [i \in 1 .. n |-> ranges[i]]
    BY DEF MR!TrueRanges
<1>3. ASSUME NEW i \in 1 .. n PROVE ranges[i] \in Int /\ narrow <= ranges[i] /\ ranges[i] <= top - bottom
    <2>1. i \in 1 .. Len(s) /\ i + 1 \in 1 .. Len(s)
        BY <1>1
    <2>2. ranges[i] = LET c == s[i + 1]  p == s[i]
                      IN  MR!Max({c.high - c.low, c.high - p.close, p.close - c.high, c.low - p.close, p.close - c.low})
        BY DEF MR!TrueRanges
    <2>3. Priced(s[i + 1]) /\ Priced(s[i]) /\ narrow <= s[i + 1].high - s[i + 1].low
          /\ s[i + 1].high <= top /\ bottom <= s[i + 1].low /\ s[i].high <= top /\ bottom <= s[i].low
        BY <2>1
    <2> DEFINE c == s[i + 1]  p == s[i]
    <2>4. ranges[i] = MR!Max({c.high - c.low, c.high - p.close, p.close - c.high, c.low - p.close, p.close - c.low})
        BY <2>2
    <2>5. Priced(c) /\ Priced(p) /\ narrow <= c.high - c.low
          /\ c.high <= top /\ bottom <= c.low /\ p.high <= top /\ bottom <= p.low
        BY <2>3
    <2> HIDE DEF ranges, n, c, p
    <2> QED  BY <2>4, <2>5, TrueRangeWithin
<1>4. ranges \in Seq(Int) /\ Len(ranges) = n /\ ranges # <<>>
    <2>1. ranges \in [1 .. n -> Int]
        <3> HIDE DEF ranges, n
        <3> QED  BY <1>2, <1>3
    <2> HIDE DEF ranges, n
    <2>2. ranges \in Seq(Int) /\ Len(ranges) = n
        BY <1>1, <2>1
    <2> QED  BY <1>1, <2>2
<1>5. top - bottom \in Int /\ \A k \in 1 .. Len(ranges) : narrow <= ranges[k] /\ ranges[k] <= top - bottom
    BY <1>3, <1>4
<1>6. CASE n < period
    <2>1. MR!CalculateAtr(s, period) = MR!Average(ranges)
        BY <1>6 DEF MR!CalculateAtr
    <2> HIDE DEF ranges, n
    <2> QED  BY <1>4, <1>5, <2>1, AverageWithin
<1>7. CASE ~(n < period)
    <2>1. MR!CalculateAtr(s, period) = MR!Smoothed(ranges, period)
        BY <1>7 DEF MR!CalculateAtr
    <2>2. period <= n
        BY <1>1, <1>7
    <2> HIDE DEF ranges, n
    <2> QED  BY <1>4, <1>5, <2>1, <2>2, SmoothedWithin
<1> QED  BY <1>6, <1>7

\* A decision's context is within its market.
LEMMA ContextWithin ==
    ASSUME NEW i, DecisionAsked(i)
    PROVE  LET c == Context(i)
               candles == ToSet(i.candles)
               closes == {k.close : k \in candles}
           IN  /\ c.ema20 \in Fraction(Min(closes), Max(closes)) /\ c.ema50 \in Fraction(Min(closes), Max(closes))
               /\ c.rsi14 \in Fraction(0, 100)
               /\ c.atr14 \in Fraction(Min({k.high - k.low : k \in candles}),
                                       Max({k.high : k \in candles}) - Min({k.low : k \in candles}))
               /\ Min(closes) \in Nat \ {0} /\ Max(closes) \in Int
<1> DEFINE s == i.candles
           n == Len(s)
           candles == ToSet(s)
           closes == [k \in 1 .. n |-> s[k].close]
           widths == [k \in 1 .. n |-> s[k].high - s[k].low]
           highs  == [k \in 1 .. n |-> s[k].high]
           lows   == [k \in 1 .. n |-> s[k].low]
           C == {k.close : k \in candles}
           W == {k.high - k.low : k \in candles}
           H == {k.high : k \in candles}
           L == {k.low : k \in candles}
<1>1. s \in Seq(Candle) /\ n \in Nat \ {0} /\ n >= 2 /\ DOMAIN s = 1 .. n /\ \A k \in 1 .. n : s[k] \in Candle
    BY DEF DecisionAsked
<1>2. \A k \in 1 .. n : Priced(s[k])
    <2>1. \A k \in 1 .. n : ~MR!IsMalformed(s[k])
        BY DEF DecisionAsked
    <2> HIDE DEF s, n
    <2> QED  BY <1>1, <2>1, SoundIsPriced
<1>3. candles = {s[k] : k \in 1 .. n}
    BY <1>1 DEF ToSet
<1> HIDE DEF s, n, candles
<1>4. /\ closes \in [1 .. n -> Int] /\ widths \in [1 .. n -> Int]
      /\ highs \in [1 .. n -> Int] /\ lows \in [1 .. n -> Int]
    BY <1>2 DEF Priced
<1>5. /\ C = {closes[k] : k \in 1 .. n} /\ W = {widths[k] : k \in 1 .. n}
      /\ H = {highs[k] : k \in 1 .. n} /\ L = {lows[k] : k \in 1 .. n}
    BY <1>3
<1>6. /\ \A k \in 1 .. n : closes[k] = s[k].close /\ widths[k] = s[k].high - s[k].low
      /\ \A k \in 1 .. n : highs[k] = s[k].high /\ lows[k] = s[k].low
    OBVIOUS
<1>7. closes = [k \in DOMAIN s |-> s[k].close]
    BY <1>1
<1> HIDE DEF closes, widths, highs, lows, C, W, H, L
<1>8. /\ Min(C) \in C /\ Min(C) \in Int /\ Max(C) \in Int /\ \A k \in 1 .. n : Min(C) <= closes[k] /\ closes[k] <= Max(C)
      /\ Min(W) \in Int /\ \A k \in 1 .. n : Min(W) <= widths[k]
      /\ Max(H) \in Int /\ \A k \in 1 .. n : highs[k] <= Max(H)
      /\ Min(L) \in Int /\ \A k \in 1 .. n : Min(L) <= lows[k]
    BY <1>1, <1>4, <1>5, ExtremesBound
<1>9. closes \in Seq(Int) /\ Len(closes) = n /\ closes # <<>>
    <2>1. \A m \in Nat \ {0} : \A f \in [1 .. m -> Int] : f \in Seq(Int) /\ Len(f) = m /\ f # <<>>
        OBVIOUS
    <2> QED  BY <1>1, <1>4, <2>1
<1>10. EMA_SHORT_PERIOD \in Nat \ {0} /\ EMA_LONG_PERIOD \in Nat \ {0}
       /\ RSI_PERIOD \in Nat \ {0} /\ ATR_PERIOD \in Nat \ {0}
    BY MarketAssumption
<1>11. /\ MR!CalculateEma(closes, EMA_SHORT_PERIOD) \in Fraction(Min(C), Max(C))
       /\ MR!CalculateEma(closes, EMA_LONG_PERIOD) \in Fraction(Min(C), Max(C))
    BY <1>8, <1>9, <1>10, EmaWithin
<1>12. MR!CalculateRsi(closes, RSI_PERIOD) \in Fraction(0, 100)
    BY <1>9, <1>10, RsiWithin
<1>13. MR!CalculateAtr(s, ATR_PERIOD) \in Fraction(Min(W), Max(H) - Min(L))
    <2>1. \A k \in 1 .. Len(s) : Min(W) <= s[k].high - s[k].low /\ s[k].high <= Max(H) /\ Min(L) <= s[k].low
        BY <1>6, <1>8 DEF n
    <2> QED  BY <1>1, <1>2, <1>8, <1>10, <2>1, AtrWithin DEF n
<1>14. Min(C) \in Nat \ {0}
    <2>1. C \subseteq Nat \ {0}
        BY <1>2, <1>5, <1>6 DEF Priced
    <2> QED  BY <1>8, <2>1
<1>15. /\ Context(i).ema20 = MR!CalculateEma(closes, EMA_SHORT_PERIOD)
       /\ Context(i).ema50 = MR!CalculateEma(closes, EMA_LONG_PERIOD)
       /\ Context(i).rsi14 = MR!CalculateRsi(closes, RSI_PERIOD)
       /\ Context(i).atr14 = MR!CalculateAtr(s, ATR_PERIOD)
    BY <1>7 DEF Context, MR!BuildContext, s
<1> HIDE DEF Context
<1> QED  BY <1>8, <1>11, <1>12, <1>13, <1>14, <1>15 DEF C, W, H, L, candles, s

\* Indicators are in range, whatever the market did.
LEMMA IndicatorsHold ==
    ASSUME topic = "decision" => DecisionAsked(input) /\ output = Decided(input)
    PROVE  IndicatorsInRange
<1> SUFFICES ASSUME topic = "decision" PROVE IndicatorsInRange
    BY DEF IndicatorsInRange
<1> DEFINE c == Context(input)
           candles == ToSet(input.candles)
           closes == {k.close : k \in candles}
<1>1. DecisionAsked(input) /\ output.context = c
    BY DEF Decided
<1>2. /\ c.ema20 \in Fraction(Min(closes), Max(closes)) /\ c.ema50 \in Fraction(Min(closes), Max(closes))
      /\ c.rsi14 \in Fraction(0, 100)
      /\ c.atr14 \in Fraction(Min({k.high - k.low : k \in candles}),
                              Max({k.high : k \in candles}) - Min({k.low : k \in candles}))
    BY <1>1, ContextWithin
<1>3. \A low, high : \A q \in Fraction(low, high) : low * q[2] <= q[1] /\ q[1] <= high * q[2]
    BY DEF Fraction
<1> HIDE DEF c, closes, candles
<1>4. /\ Min(closes) * c.ema20[2] <= c.ema20[1] /\ c.ema20[1] <= Max(closes) * c.ema20[2]
      /\ Min(closes) * c.ema50[2] <= c.ema50[1] /\ c.ema50[1] <= Max(closes) * c.ema50[2]
      /\ 0 * c.rsi14[2] <= c.rsi14[1] /\ c.rsi14[1] <= 100 * c.rsi14[2]
    BY <1>2, <1>3
<1>5. LET low == Min({k.high - k.low : k \in candles})
          high == Max({k.high : k \in candles}) - Min({k.low : k \in candles})
      IN  low * c.atr14[2] <= c.atr14[1] /\ c.atr14[1] <= high * c.atr14[2]
    BY <1>2, <1>3
<1> QED  BY <1>1, <1>4, <1>5 DEF IndicatorsInRange, closes, candles

-----------------------------------------------------------------------------
(* The decisions.                                                           *)

\* A clamped score is between 0 and 100.
LEMMA ClampedWithin == ASSUME NEW n \in Int PROVE MR!Clamped(n) \in 0 .. 100
<1>1. \E x \in {0, n} : \A y \in {0, n} : x >= y
    OBVIOUS
<1>2. MR!Max({0, n}) \in {0, n} /\ \A y \in {0, n} : MR!Max({0, n}) >= y
    BY <1>1 DEF MR!Max
<1> DEFINE m == MR!Max({0, n})
<1>3. m \in Nat
    BY <1>2
<1> HIDE DEF m
<1>4. \E x \in {100, m} : \A y \in {100, m} : x <= y
    BY <1>3
<1>5. MR!Min({100, m}) \in {100, m} /\ \A y \in {100, m} : MR!Min({100, m}) <= y
    BY <1>4 DEF MR!Min
<1>6. MR!Min({100, m}) \in 0 .. 100
    BY <1>3, <1>5
<1> QED  BY <1>6 DEF MR!Clamped, m

\* A fraction of positive numbers is a pair of them.
LEMMA PositiveFraction ==
    ASSUME NEW low \in Nat \ {0}, NEW high \in Int, NEW q \in Fraction(low, high)
    PROVE  q[1] \in Nat \ {0} /\ q[2] \in Nat \ {0}
<1>1. PICK n \in Int, d \in Nat \ {0} : q = <<n, d>> /\ low * d <= n
    BY DEF Fraction
<1>2. \A a, b \in Nat \ {0} : a * b \in Nat \ {0}
    OBVIOUS
<1>3. low * d \in Nat \ {0}
    BY <1>2
<1> QED  BY <1>1, <1>3

\* The confidence of the demo strategy's own decisions.
LEMMA ConfidenceWithin ==
    ASSUME NEW c, c.ema20 \in (Nat \ {0}) \X (Nat \ {0}), c.ema50 \in (Nat \ {0}) \X (Nat \ {0}),
           c.rsi14 \in Int \X (Nat \ {0})
    PROVE  MR!EntryConfidence(c) \in 60 .. 100 /\ MR!ExitConfidence(c) \in 75 .. 95
<1> DEFINE a1 == c.ema20[1]  a2 == c.ema20[2]  b1 == c.ema50[1]  b2 == c.ema50[2]
           r1 == c.rsi14[1]  r2 == c.rsi14[2]
<1>1. a1 \in Nat \ {0} /\ a2 \in Nat \ {0} /\ b1 \in Nat \ {0} /\ b2 \in Nat \ {0} /\ r1 \in Int /\ r2 \in Nat \ {0}
    OBVIOUS
<1>2. b1 * a2 \in Nat \ {0}
    <2>1. \A x, y \in Nat \ {0} : x * y \in Nat \ {0}
        OBVIOUS
    <2> QED  BY <2>1
<1>3. \A x \in Int, y \in Nat \ {0} : x \div y \in Int
    OBVIOUS
<1>4. MR!EmaScore(c.ema20, c.ema50) \in 0 .. 100
    <2> DEFINE x == 5000 * (a1 * b2 - b1 * a2)
               y == b1 * a2
    <2>1. x \in Int /\ y \in Nat \ {0}
        BY <1>2
    <2>2. MR!EmaScore(c.ema20, c.ema50) = MR!Clamped(x \div y)
        BY <1>1 DEF MR!EmaScore
    <2> HIDE DEF x, y
    <2> QED  BY <1>3, <2>1, <2>2, ClampedWithin
<1>5. MR!ExitGap(c) \in 0 .. 100
    <2> DEFINE x == 5000 * (b1 * a2 - a1 * b2)
               y == b1 * a2
    <2>1. x \in Int /\ y \in Nat \ {0}
        BY <1>2
    <2>2. MR!ExitGap(c) = MR!Clamped(x \div y)
        BY <1>1 DEF MR!ExitGap
    <2> HIDE DEF x, y
    <2> QED  BY <1>3, <2>1, <2>2, ClampedWithin
<1>6. MR!RsiScore(c.rsi14) \in 0 .. 100
    <2> DEFINE away == IF r1 > 55 * r2 THEN r1 - 55 * r2 ELSE 55 * r2 - r1
               x == 10 * away
    <2>1. x \in Int
        OBVIOUS
    <2>2. MR!RsiScore(c.rsi14) = 100 - MR!Clamped(x \div r2)
        BY <1>1 DEF MR!RsiScore
    <2> HIDE DEF x
    <2>3. MR!Clamped(x \div r2) \in 0 .. 100
        BY <1>3, <2>1, ClampedWithin
    <2> QED  BY <2>2, <2>3
<1> DEFINE e == MR!EmaScore(c.ema20, c.ema50)
           g == MR!ExitGap(c)
           r == MR!RsiScore(c.rsi14)
<1>7. MR!EntryConfidence(c) = (6000 + 25 * r + 15 * e + 50) \div 100 /\ MR!ExitConfidence(c) = (7500 + 20 * g + 50) \div 100
    BY DEF MR!EntryConfidence, MR!ExitConfidence
<1> HIDE DEF e, g, r
<1>8. e \in 0 .. 100 /\ g \in 0 .. 100 /\ r \in 0 .. 100
    BY <1>4, <1>5, <1>6 DEF e, g, r
<1> QED  BY <1>7, <1>8

\* What the strategies decide, ...
LEMMA DemoDecides ==
    ASSUME NEW c
    PROVE  LET d == MR!Demo0001(c) IN
           /\ d.action \in {"BUY", "SELL", "HOLD"}
           /\ d.action = "BUY" => ~c.positionOpen /\ d.confidence = MR!EntryConfidence(c)
           /\ d.action = "SELL" => c.positionOpen /\ d.confidence = MR!ExitConfidence(c)
BY DEF MR!Demo0001, MR!Decision

\* ... and what the agent's do.
LEMMA AgentDecides ==
    ASSUME NEW c, NEW proposals, c.positionOpen \in BOOLEAN
    PROVE  LET d == MR!HermesAgent(c, proposals) IN
           /\ d.action \in {"BUY", "SELL", "HOLD"}
           /\ d.action = "BUY" => ~c.positionOpen
           /\ d.action = "SELL" => c.positionOpen
BY DEF MR!HermesAgent, MR!Decision

\* A decision fits what is held.
LEMMA DecisionsFit ==
    ASSUME topic = "decision" => DecisionAsked(input) /\ output = Decided(input)
    PROVE  DecisionFitsBook
<1> SUFFICES ASSUME topic = "decision" PROVE DecisionFitsBook
    BY DEF DecisionFitsBook
<1> DEFINE c == Context(input)
           closes == {k.close : k \in ToSet(input.candles)}
           held == input.instrument \in input.positions
<1>1. /\ DecisionAsked(input)
      /\ output.demo = MR!Demo0001(c) /\ output.hermes = MR!HermesAgent(c, input.proposals)
    BY DEF Decided
<1>2. c.positionOpen = held
    BY DEF Context, MR!BuildContext
<1>3. MR!EntryConfidence(c) \in 60 .. 100 /\ MR!ExitConfidence(c) \in 75 .. 95
    <2>1. /\ c.ema20 \in Fraction(Min(closes), Max(closes)) /\ c.ema50 \in Fraction(Min(closes), Max(closes))
          /\ c.rsi14 \in Fraction(0, 100) /\ Min(closes) \in Nat \ {0} /\ Max(closes) \in Int
        BY <1>1, ContextWithin
    <2> HIDE DEF c, closes
    <2>2. c.ema20[1] \in Nat \ {0} /\ c.ema20[2] \in Nat \ {0} /\ c.ema50[1] \in Nat \ {0} /\ c.ema50[2] \in Nat \ {0}
        BY <2>1, PositiveFraction
    <2>3. c.ema20 \in Int \X (Nat \ {0}) /\ c.ema50 \in Int \X (Nat \ {0}) /\ c.rsi14 \in Int \X (Nat \ {0})
        BY <2>1 DEF Fraction
    <2>4. c.ema20 \in (Nat \ {0}) \X (Nat \ {0}) /\ c.ema50 \in (Nat \ {0}) \X (Nat \ {0})
        BY <2>2, <2>3
    <2> QED  BY <2>3, <2>4, ConfidenceWithin
<1> HIDE DEF c
<1>4. \A d \in {output.demo, output.hermes} :
         /\ d.action \in {"BUY", "SELL", "HOLD"}
         /\ d.action = "BUY" => ~held
         /\ d.action = "SELL" => held
    <2>1. c.positionOpen \in BOOLEAN
        BY <1>2
    <2>2. LET d == output.demo IN
          d.action \in {"BUY", "SELL", "HOLD"} /\ (d.action = "BUY" => ~held) /\ (d.action = "SELL" => held)
        BY <1>1, <1>2, DemoDecides
    <2>3. LET d == output.hermes IN
          d.action \in {"BUY", "SELL", "HOLD"} /\ (d.action = "BUY" => ~held) /\ (d.action = "SELL" => held)
        <3> DEFINE d == MR!HermesAgent(c, input.proposals)
        <3>1. /\ d.action \in {"BUY", "SELL", "HOLD"}
              /\ d.action = "BUY" => ~c.positionOpen
              /\ d.action = "SELL" => c.positionOpen
            BY <2>1, AgentDecides
        <3> HIDE DEF d
        <3>2. d.action \in {"BUY", "SELL", "HOLD"} /\ (d.action = "BUY" => ~held) /\ (d.action = "SELL" => held)
            BY <1>2, <3>1
        <3> QED  BY <1>1, <3>2 DEF d
    <2> QED  BY <2>2, <2>3
<1>5. ASSUME NEW d \in {output.demo, output.hermes}
      PROVE  MR!RunMarketDecisionCycle(d, FALSE, input.instrument, input.positions) # "error"
    BY <1>4 DEF MR!RunMarketDecisionCycle
<1>6. output.demo.action = "BUY" => output.demo.confidence \in 60 .. 100
    BY <1>1, <1>3, DemoDecides
<1>7. output.demo.action = "SELL" => output.demo.confidence \in 75 .. 95
    BY <1>1, <1>3, DemoDecides
<1> QED  BY <1>4, <1>5, <1>6, <1>7 DEF DecisionFitsBook

-----------------------------------------------------------------------------
(* Startup.                                                                 *)

\* The times of a session setting, well formed or not.
Clock == ((0 .. 23) \X (0 .. 59)) \cup {ST!Malformed}

\* What the runtime is started with: settings that are numbers or not given, session times, and
\* documents, none of which has the agent's own id when it is valid (STRATEGY_ID_PATTERN).
StartupAsked(i) ==
    /\ \A s \in DOMAIN ST!Minimum : i.env.number[s] \in SUBSET Int
    /\ i.env.sessionStart \in SUBSET Clock /\ i.env.sessionEnd \in SUBSET Clock
    /\ \E symbols : i.env.universe \in Seq(symbols)
    /\ \E documents : i.documents \in Seq(documents)
    /\ \A k \in DOMAIN i.documents :
          i.documents[k].readable /\ i.documents[k].valid => i.documents[k].id # ST!HermesAgent

\* What a runtime that gets built has passed.
LEMMA BuiltPassed ==
    ASSUME NEW i, StartupOutput(i) = "built"
    PROVE  /\ ST!Problems(i.env) = {}
           /\ ST!ValidateStartup(Configured(i), ST!LoadEnabledStrategies(i.documents, Configured(i).demoMode)) = {}
BY DEF StartupOutput, Configured, ST!Main, ST!BuildRuntimeDependencies

\* It trades with play money.
LEMMA StartsDemo ==
    ASSUME topic = "startup" => StartupAsked(input) /\ output = StartupOutput(input)
    PROVE  StartsOnlyDemoTrading
<1> SUFFICES ASSUME topic = "startup", output = "built" PROVE StartsOnlyDemoTrading
    BY DEF StartsOnlyDemoTrading
<1> DEFINE env == input.env
           c == Configured(input)
<1>1. /\ ST!Problems(env) = {}
      /\ ST!ValidateStartup(c, ST!LoadEnabledStrategies(input.documents, c.demoMode)) = {}
    BY BuiltPassed
<1>2. ST!EnumProblems(env) = {} /\ ST!AutonomyProblems(env) = {}
    BY <1>1 DEF ST!Problems
<1>3. /\ c.broker = ST!Text(env.text.broker, "local") /\ c.runtimeMode = ST!Text(env.text.runtimeMode, "paper")
      /\ c.approval = ST!Text(env.text.approval, "MANUAL")
    BY DEF Configured, ST!Config
<1>4. /\ env.text["broker"] \in ST!BrokerProviders \cup {""}
      /\ env.text["runtimeMode"] \in ST!RuntimeModes \cup {""}
      /\ env.text["approval"] \in {"MANUAL", "AUTO_DEMO", "AUTO_LIVE", ""}
    <2>1. {"broker", "runtimeMode", "approval"} \subseteq DOMAIN ST!Admissible
        BY DEF ST!Admissible
    <2>2. /\ ST!Admissible["broker"] = ST!BrokerProviders /\ ST!Admissible["runtimeMode"] = ST!RuntimeModes
          /\ ST!Admissible["approval"] = {"MANUAL", "AUTO_DEMO", "AUTO_LIVE"}
        BY DEF ST!Admissible
    <2>3. \A s \in DOMAIN ST!Admissible : env.text[s] \in ST!Admissible[s] \cup {""}
        BY <1>2 DEF ST!EnumProblems
    <2> QED  BY <2>1, <2>2, <2>3
<1>5. c.broker \in ST!BrokerProviders /\ c.runtimeMode \in ST!RuntimeModes
    BY <1>3, <1>4 DEF ST!Text, ST!BrokerProviders, ST!RuntimeModes
<1>6. c.approval \in {"MANUAL", "AUTO_DEMO"}
    <2>1. env.text.approval # "AUTO_LIVE"
        BY <1>2 DEF ST!AutonomyProblems
    <2> QED  BY <1>3, <1>4, <2>1 DEF ST!Text
<1>7. /\ c.broker # "trading212-demo"
      /\ c.runtimeMode \in ST!Capabilities[c.broker].modes
      /\ c.marketData = "live" => ST!Capabilities[c.broker].liveRates
    BY <1>1 DEF ST!ValidateStartup
<1> HIDE DEF c
<1>8. c.runtimeMode \in {"demo", "paper", "testnet"}
    BY <1>5 DEF ST!RuntimeModes
<1> QED  BY <1>6, <1>7, <1>8 DEF StartsOnlyDemoTrading, c

\* No opposing signal closes a position at once.
LEMMA ExitStaysSlow ==
    ASSUME topic = "startup" => StartupAsked(input) /\ output = StartupOutput(input)
    PROVE  OpposingExitNeverImmediate
<1> SUFFICES ASSUME topic = "startup", output = "built" PROVE OpposingExitNeverImmediate
    BY DEF OpposingExitNeverImmediate
<1> DEFINE number == input.env.number
<1>1. ST!IntegerProblems(input.env) = {}
    BY BuiltPassed DEF ST!Problems
<1>2. /\ {"opposingHold", "opposingConfirmations"} \subseteq DOMAIN ST!Minimum
      /\ ST!Minimum["opposingHold"] = 60000 /\ ST!Minimum["opposingConfirmations"] = 2
    BY DEF ST!Minimum
<1>3. \A s \in DOMAIN ST!Minimum : number[s] \in SUBSET Int /\ \A n \in number[s] : ~(n < ST!Minimum[s])
    BY <1>1 DEF ST!IntegerProblems, StartupAsked
<1>4. /\ \A n \in number["opposingHold"] : n \in Int /\ n >= 60000
      /\ \A n \in number["opposingConfirmations"] : n \in Int /\ n >= 2
    <2>1. ASSUME NEW n \in number["opposingHold"] PROVE n \in Int /\ n >= 60000
        <3>1. n \in Int /\ ~(n < 60000)
            BY <1>2, <1>3
        <3> QED  BY <3>1
    <2>2. ASSUME NEW n \in number["opposingConfirmations"] PROVE n \in Int /\ n >= 2
        <3>1. n \in Int /\ ~(n < 2)
            BY <1>2, <1>3
        <3> QED  BY <3>1
    <2> QED  BY <2>1, <2>2
<1>5. /\ Configured(input).opposingHold = ST!Given(number["opposingHold"], 300000)
      /\ Configured(input).opposingConfirmations = ST!Given(number["opposingConfirmations"], 2)
    BY DEF Configured, ST!Config, ST!Default
<1>6. ST!Given(number["opposingHold"], 300000) >= 60000 /\ ST!Given(number["opposingConfirmations"], 2) >= 2
    <2> HIDE DEF number
    <2> QED  BY <1>4 DEF ST!Given
<1> QED  BY <1>5, <1>6 DEF OpposingExitNeverImmediate

\* A session that begins before it ends as a text does so in minutes.
LEMMA TextsAreTimes ==
    ASSUME NEW a \in Clock, NEW b \in Clock, a # ST!Malformed, b # ST!Malformed, ST!TextBefore(a, b)
    PROVE  ST!MinutesOfDay(a) < ST!MinutesOfDay(b)
<1>1. a \in (0 .. 23) \X (0 .. 59) /\ b \in (0 .. 23) \X (0 .. 59)
    BY DEF Clock
<1>2. a[1] < b[1] \/ (a[1] = b[1] /\ a[2] < b[2])
    BY DEF ST!TextBefore
<1>3. a[1] \in 0 .. 23 /\ a[2] \in 0 .. 59 /\ b[1] \in 0 .. 23 /\ b[2] \in 0 .. 59
    BY <1>1
<1>4. \A g, h \in 0 .. 23, m, n \in 0 .. 59 : g < h \/ (g = h /\ m < n) => g * 60 + m < h * 60 + n
    OBVIOUS
<1> QED  BY <1>2, <1>3, <1>4 DEF ST!MinutesOfDay

\* The symbols of a universe, each once: never none.
LEMMA UniverseIsThere ==
    ASSUME NEW env, NEW symbols, env.universe \in Seq(symbols)
    PROVE  ST!Universe(env) # <<>>
<1> DEFINE s == env.universe
           n == Len(s)
           T == {Upper[e] : e \in symbols}
           S == Seq(T)
           P(f) == f = [x \in SUBSET (DOMAIN s) |-> IF x = {} THEN <<>>
                          ELSE ST!AddSymbol(f[x \ {Max(x)}], s[Max(x)])]
           fold == CHOOSE f : P(f)
           step == [p \in (1 .. n) \X S |-> ST!AddSymbol(p[2], s[p[1]])]
<1>0. \A x : ST!Max(x) = Max(x)
    BY DEF ST!Max, Max
<1>1. SUFFICES ASSUME s # <<>> PROVE fold[DOMAIN s] # <<>>
    <2>1. ST!FoldLeft(ST!AddSymbol, <<>>, s) = fold[DOMAIN s]
        BY <1>0 DEF ST!FoldLeft, ST!MapThenFoldSet
    <2>2. s = <<>> => ST!Universe(env) # <<>>
        BY DEF ST!Universe, ST!Default
    <2> HIDE DEF fold
    <2> QED  BY <2>1, <2>2 DEF ST!Universe
<1>2. n \in Nat \ {0} /\ DOMAIN s = 1 .. n /\ \A k \in 1 .. n : Upper[s[k]] \in T
    BY <1>1
<1>3. \A q \in S, t \in T : Append(q, t) \in S /\ Append(q, t) # <<>>
    <2> HIDE DEF T
    <2> QED  OBVIOUS
<1>4. <<>> \in S
    OBVIOUS
<1> HIDE DEF s, n, T, S
<1>5. \A k \in 1 .. n, q \in S :
         step[<<k, q>>] = ST!AddSymbol(q, s[k])
    OBVIOUS
<1>6. step \in [(1 .. n) \X S -> S]
    BY <1>2, <1>3 DEF ST!AddSymbol
<1>7. \A x \in SUBSET (1 .. n) : x # {} => Max(x) \in 1 .. n
    BY <1>2, LargestIsThere
<1> HIDE DEF step
<1>8. P(fold)
    <2>1. PICK f : Folds(f, n, S, <<>>, step)
        BY <1>2, <1>4, <1>6, FoldExists
    <2>2. \A x \in SUBSET (1 .. n) : x # {} =>
             f[x] = ST!AddSymbol(f[x \ {Max(x)}], s[Max(x)])
        BY <1>5, <1>7, <2>1 DEF Folds
    <2>3. P(f)
        BY <1>2, <2>1, <2>2 DEF Folds
    <2> HIDE DEF P
    <2> QED  BY <2>3
<1> HIDE DEF fold
<1>9. fold[{}] = <<>> /\ \A x \in SUBSET (1 .. n) : x # {} =>
          fold[x] = ST!AddSymbol(fold[x \ {Max(x)}], s[Max(x)])
    BY <1>2, <1>8
<1>10. Loops(fold, n, S, step)
    <2>1. ASSUME NEW x \in SUBSET (1 .. n), x # {}, fold[x \ {Max(x)}] \in S
          PROVE  fold[x] = step[<<Max(x), fold[x \ {Max(x)}]>>]
        BY <1>5, <1>7, <1>9, <2>1
    <2>2. Obeys(fold, n, S, step)
        BY <1>4, <1>9, <2>1 DEF Obeys
    <2> QED  BY <1>2, <1>6, <2>2, FoldIsLoop
<1>11. fold[1 .. n] # <<>>
    <2>1. fold[1 .. (n - 1)] \in S /\ fold[1 .. n] = step[<<n, fold[1 .. (n - 1)]>>]
        BY <1>2, <1>10 DEF Loops
    <2> DEFINE kept == fold[1 .. (n - 1)]
    <2>2. kept \in S /\ fold[1 .. n] = ST!AddSymbol(kept, s[n]) /\ Upper[s[n]] \in T
        BY <1>2, <1>5, <2>1
    <2>3. ~ST!Contains(<<>>, Upper[s[n]])
        BY DEF ST!Contains
    <2> HIDE DEF kept
    <2>4. CASE ST!Contains(kept, Upper[s[n]])
        <3>1. ST!AddSymbol(kept, s[n]) = kept
            BY <2>4 DEF ST!AddSymbol
        <3> QED  BY <2>2, <2>3, <2>4, <3>1
    <2>5. CASE ~ST!Contains(kept, Upper[s[n]])
        <3>1. ST!AddSymbol(kept, s[n]) = Append(kept, Upper[s[n]])
            BY <2>5 DEF ST!AddSymbol
        <3> QED  BY <1>3, <2>2, <3>1
    <2> QED  BY <2>4, <2>5
<1> QED  BY <1>2, <1>11

\* No factory fails on what the checks at the start let through.
LEMMA ChecksAreComplete ==
    ASSUME topic = "startup" => StartupAsked(input) /\ output = StartupOutput(input)
    PROVE  NoLateStartupFailure
<1> SUFFICES ASSUME topic = "startup", output \in {"marketDataProvider", "marketHours", "universe"} PROVE FALSE
    BY DEF NoLateStartupFailure
<1> DEFINE env == input.env
           c == Configured(input)
           strategies == ST!LoadEnabledStrategies(input.documents, c.demoMode)
<1>1. /\ StartupAsked(input) /\ ST!Problems(env) = {}
      /\ output = ST!BuildRuntimeDependencies(c, input.documents, input.connects, input.resolvable)
    BY DEF StartupOutput, Configured, ST!Main
<1>2. ST!ValidateStartup(c, strategies) = {}
    <2> HIDE DEF c, env
    <2> QED  BY <1>1 DEF ST!BuildRuntimeDependencies, strategies
<1>3. ~ST!MarketDataRefuses(c)
    <2>1. "marketDataProvider" \notin ST!ValidateStartup(c, strategies)
        BY <1>2
    <2> HIDE DEF c, strategies
    <2> QED  BY <2>1 DEF ST!ValidateStartup, ST!MarketDataRefuses
<1>4. ~ST!HoursRefuse(c)
    <2>1. ST!SessionProblems(env) = {}
        BY <1>1 DEF ST!Problems
    <2> DEFINE a == ST!SessionStart(env)  b == ST!SessionEnd(env)
    <2>2. a # ST!Malformed /\ b # ST!Malformed /\ ST!TextBefore(a, b)
        BY <2>1 DEF ST!SessionProblems
    <2>3. a \in Clock /\ b \in Clock
        <3>1. <<9, 30>> \in Clock /\ <<16, 0>> \in Clock
            BY DEF Clock
        <3>2. \A setting \in SUBSET Clock, t \in Clock : ST!Given(setting, t) \in Clock
            BY DEF ST!Given
        <3> QED  BY <1>1, <3>1, <3>2 DEF StartupAsked, ST!SessionStart, ST!SessionEnd, ST!Default
    <2>4. c.scheduler.start = a /\ c.scheduler.end = b
        BY DEF Configured, ST!Config
    <2> HIDE DEF a, b, c
    <2>5. ST!MinutesOfDay(a) < ST!MinutesOfDay(b) /\ ST!MinutesOfDay(a) \in Int /\ ST!MinutesOfDay(b) \in Int
        <3>1. a \in (0 .. 23) \X (0 .. 59) /\ b \in (0 .. 23) \X (0 .. 59)
            BY <2>2, <2>3 DEF Clock
        <3>2. a[1] \in Int /\ a[2] \in Int /\ b[1] \in Int /\ b[2] \in Int
            BY <3>1
        <3>3. ST!MinutesOfDay(a) < ST!MinutesOfDay(b)
            BY <2>2, <2>3, TextsAreTimes
        <3> QED  BY <3>2, <3>3 DEF ST!MinutesOfDay
    <2> QED  BY <2>4, <2>5 DEF ST!HoursRefuse
<1>5. c.universe # <<>>
    BY <1>1, UniverseIsThere DEF StartupAsked, Configured, ST!Config
<1> HIDE DEF c, strategies, env
<1> QED  BY <1>1, <1>3, <1>4, <1>5 DEF ST!BuildRuntimeDependencies

\* A document that is valid, and one that is the first valid one of its id and active.
ValidAt(docs, k) == docs[k].readable /\ docs[k].valid /\ docs[k].schema = "1.0.0"
WantedAt(docs, k) ==
    /\ ValidAt(docs, k) /\ docs[k].status = "active"
    /\ \A j \in 1 .. (k - 1) : ~(ValidAt(docs, j) /\ docs[j].id = docs[k].id)

\* What a list has, and an id it has not.
Has(list, x) == \E i \in 1 .. Len(list) : list[i] = x
NewTo(list, id) == \A i \in 1 .. Len(list) : list[i].id # id

\* No id is there twice.
DistinctIds(list) == \A i, j \in 1 .. Len(list) : list[i].id = list[j].id => i = j

\* After k documents: the ids of the valid ones have been seen, and the list has those wanted.
ActiveAfter(docs, k, acc) ==
    /\ \A id : id \in acc.seen <=> \E j \in 1 .. k : ValidAt(docs, j) /\ docs[j].id = id
    /\ DistinctIds(acc.active)
    /\ \A x : Has(acc.active, x) <=> \E j \in 1 .. k : WantedAt(docs, j) /\ docs[j] = x

\* Appending an element whose id is new.
LEMMA AppendDistinct ==
    ASSUME NEW D, NEW list \in Seq(D), NEW d \in D, DistinctIds(list), NewTo(list, d.id)
    PROVE  /\ Append(list, d) \in Seq(D) /\ DistinctIds(Append(list, d))
           /\ \A x : Has(Append(list, d), x) <=> x = d \/ Has(list, x)
<1> DEFINE n == Len(list)
           new == Append(list, d)
<1>1. /\ n \in Nat /\ new \in Seq(D) /\ Len(new) = n + 1 /\ new[n + 1] = d
      /\ \A i \in 1 .. n : new[i] = list[i]
    OBVIOUS
<1> HIDE DEF new
<1>2. \A i \in 1 .. (n + 1) : i = n + 1 \/ i \in 1 .. n
    BY <1>1
<1>3. ASSUME NEW i \in 1 .. (n + 1), NEW j \in 1 .. (n + 1), new[i].id = new[j].id PROVE i = j
    BY <1>1, <1>2, <1>3 DEF DistinctIds, NewTo
<1>4. n + 1 \in 1 .. (n + 1) /\ \A i \in 1 .. n : i \in 1 .. (n + 1)
    BY <1>1
<1>5. DistinctIds(new)
    BY <1>1, <1>3 DEF DistinctIds
<1>6. \A x : Has(new, x) <=> x = d \/ Has(list, x)
    BY <1>1, <1>2, <1>4 DEF Has
<1> QED  BY <1>1, <1>5, <1>6 DEF new

\* One document more.
LEMMA TakenKeeps ==
    ASSUME NEW D, NEW docs \in Seq(D), NEW k \in 1 .. Len(docs),
           NEW acc \in [seen : SUBSET {d.id : d \in D}, active : Seq(D)], ActiveAfter(docs, k - 1, acc)
    PROVE  /\ ST!ReadDocument(acc, docs[k]) \in [seen : SUBSET {d.id : d \in D}, active : Seq(D)]
           /\ ActiveAfter(docs, k, ST!ReadDocument(acc, docs[k]))
<1> DEFINE d == docs[k]
           new == ST!ReadDocument(acc, d)
<1>1. d \in D /\ d.id \in {e.id : e \in D} /\ \A j \in 1 .. k : j = k \/ j \in 1 .. (k - 1)
    OBVIOUS
<1>2. \A j \in 1 .. (k - 1) : j \in 1 .. k
    OBVIOUS
<1>3. k \in 1 .. k
    OBVIOUS
<1>4. CASE ~ValidAt(docs, k)
    <2>1. new = acc /\ ~WantedAt(docs, k)
        BY <1>4 DEF ST!ReadDocument, ValidAt, WantedAt
    <2>2. ActiveAfter(docs, k, acc)
        <3>1. \A id : id \in acc.seen <=> \E j \in 1 .. k : ValidAt(docs, j) /\ docs[j].id = id
            BY <1>1, <1>2, <1>4 DEF ActiveAfter
        <3>2. \A x : Has(acc.active, x) <=> \E j \in 1 .. k : WantedAt(docs, j) /\ docs[j] = x
            BY <1>1, <1>2, <2>1 DEF ActiveAfter
        <3> QED  BY <3>1, <3>2 DEF ActiveAfter
    <2> QED  BY <2>1, <2>2
<1>5. CASE ValidAt(docs, k) /\ d.id \in acc.seen
    <2>1. new = acc
        BY <1>5 DEF ST!ReadDocument
    <2>2. ~WantedAt(docs, k)
        BY <1>5 DEF ActiveAfter, WantedAt
    <2>3. ActiveAfter(docs, k, acc)
        <3>1. \A id : id \in acc.seen <=> \E j \in 1 .. k : ValidAt(docs, j) /\ docs[j].id = id
            BY <1>1, <1>2, <1>5 DEF ActiveAfter
        <3>2. \A x : Has(acc.active, x) <=> \E j \in 1 .. k : WantedAt(docs, j) /\ docs[j] = x
            BY <1>1, <1>2, <2>2 DEF ActiveAfter
        <3> QED  BY <3>1, <3>2 DEF ActiveAfter
    <2> QED  BY <2>1, <2>3
<1>6. CASE ValidAt(docs, k) /\ d.id \notin acc.seen
    <2>1. new = [seen |-> acc.seen \cup {d.id},
                 active |-> IF d.status = "active" THEN Append(acc.active, d) ELSE acc.active]
        BY <1>6 DEF ST!ReadDocument, ValidAt
    <2>2. \A j \in 1 .. (k - 1) : ~(ValidAt(docs, j) /\ docs[j].id = d.id)
        BY <1>6 DEF ActiveAfter
    <2>3. WantedAt(docs, k) <=> d.status = "active"
        BY <1>6, <2>2 DEF WantedAt
    <2>4. \A id : id \in acc.seen \cup {d.id} <=> \E j \in 1 .. k : ValidAt(docs, j) /\ docs[j].id = id
        BY <1>1, <1>2, <1>3, <1>6 DEF ActiveAfter
    <2>5. NewTo(acc.active, d.id)
        <3>1. ASSUME NEW i \in 1 .. Len(acc.active), acc.active[i].id = d.id PROVE FALSE
            <4>1. Has(acc.active, acc.active[i])
                BY DEF Has
            <4>2. PICK j \in 1 .. (k - 1) : WantedAt(docs, j) /\ docs[j] = acc.active[i]
                BY <4>1 DEF ActiveAfter
            <4> QED  BY <2>2, <3>1, <4>2 DEF WantedAt
        <3> QED  BY <3>1 DEF NewTo
    <2>6. DistinctIds(acc.active) /\ acc.active \in Seq(D)
        BY DEF ActiveAfter
    <2>7. CASE d.status = "active"
        <3> DEFINE list == Append(acc.active, d)
        <3>1. new = [seen |-> acc.seen \cup {d.id}, active |-> list]
            BY <2>1, <2>7
        <3>2. /\ list \in Seq(D) /\ DistinctIds(list)
              /\ \A x : Has(list, x) <=> x = d \/ Has(acc.active, x)
            <4> HIDE DEF d
            <4>1. Append(acc.active, d) \in Seq(D) /\ DistinctIds(Append(acc.active, d))
                BY <1>1, <2>5, <2>6, AppendDistinct
            <4>2. \A x : Has(Append(acc.active, d), x) <=> x = d \/ Has(acc.active, x)
                BY <1>1, <2>5, <2>6, AppendDistinct
            <4> QED  BY <4>1, <4>2
        <3> HIDE DEF list, new
        <3>3. \A x : Has(list, x) <=> \E j \in 1 .. k : WantedAt(docs, j) /\ docs[j] = x
            BY <1>1, <1>2, <1>3, <2>3, <2>7, <3>2 DEF ActiveAfter
        <3>4. ActiveAfter(docs, k, new)
            BY <2>4, <3>1, <3>2, <3>3 DEF ActiveAfter
        <3>5. acc.seen \cup {d.id} \in SUBSET {e.id : e \in D}
            BY <1>1
        <3> QED  BY <3>1, <3>2, <3>4, <3>5 DEF new
    <2>8. CASE d.status # "active"
        <3>1. new = [seen |-> acc.seen \cup {d.id}, active |-> acc.active]
            BY <2>1, <2>8
        <3> HIDE DEF new
        <3>2. ActiveAfter(docs, k, new)
            BY <1>1, <1>2, <2>3, <2>4, <2>8, <3>1 DEF ActiveAfter
        <3>3. acc.seen \cup {d.id} \in SUBSET {e.id : e \in D}
            BY <1>1
        <3> QED  BY <2>6, <3>1, <3>2, <3>3 DEF new
    <2> QED  BY <2>7, <2>8
<1> QED  BY <1>4, <1>5, <1>6

\* listActiveStrategies lists the documents that are wanted, each id once.
LEMMA ActiveAreWanted ==
    ASSUME NEW D, NEW docs \in Seq(D)
    PROVE  LET list == ST!ListActiveStrategies(docs) IN
           /\ list \in Seq(D) /\ DistinctIds(list)
           /\ \A x : Has(list, x) <=> \E j \in 1 .. Len(docs) : WantedAt(docs, j) /\ docs[j] = x
<1> DEFINE n == Len(docs)
           S == [seen : SUBSET {d.id : d \in D}, active : Seq(D)]
           base == [seen |-> {}, active |-> <<>>]
           P(f) == f = [x \in SUBSET (DOMAIN docs) |-> IF x = {} THEN base
                          ELSE ST!ReadDocument(f[x \ {Max(x)}], docs[Max(x)])]
           fold == CHOOSE f : P(f)
           step == [p \in (1 .. n) \X S |-> ST!ReadDocument(p[2], docs[p[1]])]
<1>1. ST!ListActiveStrategies(docs) = fold[DOMAIN docs].active
    <2>1. \A x : ST!Max(x) = Max(x)
        BY DEF ST!Max, Max
    <2> QED  BY <2>1 DEF ST!ListActiveStrategies, ST!FoldLeft, ST!MapThenFoldSet
<1>2. n \in Nat /\ DOMAIN docs = 1 .. n /\ \A k \in 1 .. n : docs[k] \in D
    OBVIOUS
<1>3. base \in S
    OBVIOUS
<1>4. \A k \in 1 .. n, acc \in S : ST!ReadDocument(acc, docs[k]) \in S
    BY <1>2 DEF ST!ReadDocument
<1>5. ASSUME NEW k \in 1 .. n, NEW acc \in S, ActiveAfter(docs, k - 1, acc)
      PROVE  ActiveAfter(docs, k, ST!ReadDocument(acc, docs[k]))
    BY <1>5, TakenKeeps
<1>6. ActiveAfter(docs, 0, base)
    BY DEF ActiveAfter, DistinctIds, Has
<1> HIDE DEF n, S, base
<1>7. step \in [(1 .. n) \X S -> S] /\ \A k \in 1 .. n, acc \in S : step[<<k, acc>>] = ST!ReadDocument(acc, docs[k])
    BY <1>4
<1>8. \A x \in SUBSET (1 .. n) : x # {} => Max(x) \in 1 .. n
    BY <1>2, LargestIsThere
<1> HIDE DEF step
<1>9. P(fold)
    <2>1. PICK f : Folds(f, n, S, base, step)
        BY <1>2, <1>3, <1>7, FoldExists
    <2>2. \A x \in SUBSET (1 .. n) : x # {} => f[x] = ST!ReadDocument(f[x \ {Max(x)}], docs[Max(x)])
        BY <1>7, <1>8, <2>1 DEF Folds
    <2>3. P(f)
        BY <1>2, <2>1, <2>2 DEF Folds
    <2> HIDE DEF P
    <2> QED  BY <2>3
<1> HIDE DEF fold
<1>10. fold[{}] = base /\ \A x \in SUBSET (1 .. n) : x # {} => fold[x] = ST!ReadDocument(fold[x \ {Max(x)}], docs[Max(x)])
    BY <1>2, <1>9
<1>11. Loops(fold, n, S, step)
    <2>1. ASSUME NEW x \in SUBSET (1 .. n), x # {}, fold[x \ {Max(x)}] \in S
          PROVE  fold[x] = step[<<Max(x), fold[x \ {Max(x)}]>>]
        BY <1>7, <1>8, <1>10, <2>1
    <2>2. Obeys(fold, n, S, step)
        BY <1>3, <1>10, <2>1 DEF Obeys
    <2> QED  BY <1>2, <1>7, <2>2, FoldIsLoop
<1> DEFINE G == {k \in 0 .. n : ActiveAfter(docs, k, fold[1 .. k])}
<1>12. 0 \in G
    <2>1. 1 .. 0 = {} /\ 0 \in 0 .. n
        BY <1>2
    <2> QED  BY <1>6, <1>10, <2>1
<1>13. ASSUME NEW k \in 1 .. n, k - 1 \in G PROVE k \in G
    <2>1. fold[1 .. (k - 1)] \in S /\ fold[1 .. k] = step[<<k, fold[1 .. (k - 1)]>>]
        BY <1>2, <1>11 DEF Loops
    <2>2. fold[1 .. k] = ST!ReadDocument(fold[1 .. (k - 1)], docs[k])
        BY <1>7, <2>1
    <2>3. ActiveAfter(docs, k, fold[1 .. k])
        BY <1>5, <1>13, <2>1, <2>2
    <2> QED  BY <2>3
<1>14. n \in G
    <2> HIDE DEF G
    <2>1. 0 .. n \subseteq G
        BY <1>2, <1>12, <1>13, Upwards
    <2> QED  BY <1>2, <2>1
<1>15. fold[1 .. n] \in S
    BY <1>2, <1>11 DEF Loops
<1> QED  BY <1>1, <1>2, <1>14, <1>15 DEF ActiveAfter, S, n

\* After k active documents: those that can be executed, each id once.
ApprovedAfter(list, k, kept) ==
    /\ DistinctIds(kept)
    /\ \A x : Has(kept, x) <=> \E j \in 1 .. k : ST!IsExecutable(list[j]) /\ list[j] = x

\* One active document more.
LEMMA ApprovedKeeps ==
    ASSUME NEW D, NEW list \in Seq(D), DistinctIds(list), NEW k \in 1 .. Len(list),
           NEW kept \in Seq(D), ApprovedAfter(list, k - 1, kept)
    PROVE  ST!KeepExecutable(kept, list[k]) \in Seq(D) /\ ApprovedAfter(list, k, ST!KeepExecutable(kept, list[k]))
<1> DEFINE d == list[k]
<1>1. d \in D /\ k \in 1 .. k /\ \A j \in 1 .. k : j = k \/ j \in 1 .. (k - 1)
    OBVIOUS
<1>2. \A j \in 1 .. (k - 1) : j \in 1 .. k
    OBVIOUS
<1>3. CASE ST!IsExecutable(d)
    <2>1. NewTo(kept, d.id)
        <3>1. ASSUME NEW i \in 1 .. Len(kept), kept[i].id = d.id PROVE FALSE
            <4>1. PICK j \in 1 .. (k - 1) : list[j] = kept[i]
                BY DEF ApprovedAfter, Has
            <4>2. j \in 1 .. Len(list) /\ j # k
                OBVIOUS
            <4> QED  BY <3>1, <4>1, <4>2 DEF DistinctIds
        <3> QED  BY <3>1 DEF NewTo
    <2>2. DistinctIds(kept)
        BY DEF ApprovedAfter
    <2> HIDE DEF d
    <2>3. Append(kept, d) \in Seq(D) /\ DistinctIds(Append(kept, d))
        BY <1>1, <2>1, <2>2, AppendDistinct
    <2>4. \A x : Has(Append(kept, d), x) <=> x = d \/ Has(kept, x)
        BY <1>1, <2>1, <2>2, AppendDistinct
    <2>5. \A x : Has(Append(kept, d), x) <=> \E j \in 1 .. k : ST!IsExecutable(list[j]) /\ list[j] = x
        BY <1>1, <1>2, <1>3, <2>4 DEF ApprovedAfter, d
    <2>6. ST!KeepExecutable(kept, d) = Append(kept, d)
        BY <1>3 DEF ST!KeepExecutable
    <2>7. ST!KeepExecutable(kept, d) \in Seq(D) /\ ApprovedAfter(list, k, ST!KeepExecutable(kept, d))
        BY <2>3, <2>5, <2>6 DEF ApprovedAfter
    <2> QED  BY <2>7 DEF d
<1>4. CASE ~ST!IsExecutable(d)
    <2>1. ST!KeepExecutable(kept, list[k]) = kept
        BY <1>4 DEF ST!KeepExecutable
    <2>2. \A x : Has(kept, x) <=> \E j \in 1 .. k : ST!IsExecutable(list[j]) /\ list[j] = x
        BY <1>1, <1>2, <1>4 DEF ApprovedAfter
    <2>3. ApprovedAfter(list, k, kept)
        BY <2>2 DEF ApprovedAfter
    <2> QED  BY <2>1, <2>3
<1> QED  BY <1>3, <1>4

\* The approved strategies are those of the active ones that can be executed, each id once.
LEMMA LoadedAreExecutable ==
    ASSUME NEW D, NEW docs \in Seq(D)
    PROVE  \E kept \in Seq(D) :
              /\ DistinctIds(kept)
              /\ \A x : Has(kept, x) <=> \E j \in 1 .. Len(docs) : WantedAt(docs, j) /\ docs[j] = x /\ ST!IsExecutable(x)
              /\ ST!LoadEnabledStrategies(docs, FALSE) =
                    <<ST!Listed(ST!HermesAgent, "HERMES_APPROVED")>>
                      \o [i \in DOMAIN kept |-> ST!Listed(kept[i].id, "HERMES_APPROVED")] \o <<>>
<1> DEFINE list == ST!ListActiveStrategies(docs)
           n == Len(list)
           S == Seq(D)
           P(f) == f = [x \in SUBSET (DOMAIN list) |-> IF x = {} THEN <<>>
                          ELSE ST!KeepExecutable(f[x \ {Max(x)}], list[Max(x)])]
           fold == CHOOSE f : P(f)
           step == [p \in (1 .. n) \X S |-> ST!KeepExecutable(p[2], list[p[1]])]
<1>1. ST!LoadEnabledStrategies(docs, FALSE) =
         LET kept == fold[DOMAIN list] IN
         <<ST!Listed(ST!HermesAgent, "HERMES_APPROVED")>>
           \o [i \in DOMAIN kept |-> ST!Listed(kept[i].id, "HERMES_APPROVED")] \o <<>>
    <2>1. \A x : ST!Max(x) = Max(x)
        BY DEF ST!Max, Max
    <2>2. ST!FoldLeft(ST!KeepExecutable, <<>>, list) = fold[DOMAIN list]
        BY <2>1 DEF ST!FoldLeft, ST!MapThenFoldSet
    <2> HIDE DEF fold, list
    <2> QED  BY <2>2 DEF ST!LoadEnabledStrategies, list
<1>2. /\ list \in Seq(D) /\ DistinctIds(list)
      /\ \A x : Has(list, x) <=> \E j \in 1 .. Len(docs) : WantedAt(docs, j) /\ docs[j] = x
    BY ActiveAreWanted
<1> HIDE DEF list
<1>3. n \in Nat /\ DOMAIN list = 1 .. n /\ \A k \in 1 .. n : list[k] \in D
    BY <1>2
<1>4. <<>> \in S
    OBVIOUS
<1>5. \A k \in 1 .. n, kept \in S : ST!KeepExecutable(kept, list[k]) \in S
    BY <1>3 DEF ST!KeepExecutable
<1>6. ASSUME NEW k \in 1 .. n, NEW kept \in S, ApprovedAfter(list, k - 1, kept)
      PROVE  ApprovedAfter(list, k, ST!KeepExecutable(kept, list[k]))
    BY <1>2, <1>6, ApprovedKeeps
<1>7. ApprovedAfter(list, 0, <<>>)
    BY DEF ApprovedAfter, DistinctIds, Has
<1> HIDE DEF n, S
<1>8. step \in [(1 .. n) \X S -> S] /\ \A k \in 1 .. n, kept \in S : step[<<k, kept>>] = ST!KeepExecutable(kept, list[k])
    BY <1>5
<1>9. \A x \in SUBSET (1 .. n) : x # {} => Max(x) \in 1 .. n
    BY <1>3, LargestIsThere
<1> HIDE DEF step
<1>10. P(fold)
    <2>1. PICK f : Folds(f, n, S, <<>>, step)
        BY <1>3, <1>4, <1>8, FoldExists
    <2>2. \A x \in SUBSET (1 .. n) : x # {} => f[x] = ST!KeepExecutable(f[x \ {Max(x)}], list[Max(x)])
        BY <1>8, <1>9, <2>1 DEF Folds
    <2>3. P(f)
        BY <1>3, <2>1, <2>2 DEF Folds
    <2> HIDE DEF P
    <2> QED  BY <2>3
<1> HIDE DEF fold
<1>11. fold[{}] = <<>>
       /\ \A x \in SUBSET (1 .. n) : x # {} => fold[x] = ST!KeepExecutable(fold[x \ {Max(x)}], list[Max(x)])
    BY <1>3, <1>10
<1>12. Loops(fold, n, S, step)
    <2>1. ASSUME NEW x \in SUBSET (1 .. n), x # {}, fold[x \ {Max(x)}] \in S
          PROVE  fold[x] = step[<<Max(x), fold[x \ {Max(x)}]>>]
        BY <1>8, <1>9, <1>11, <2>1
    <2>2. Obeys(fold, n, S, step)
        BY <1>4, <1>11, <2>1 DEF Obeys
    <2> QED  BY <1>3, <1>8, <2>2, FoldIsLoop
<1> DEFINE G == {k \in 0 .. n : ApprovedAfter(list, k, fold[1 .. k])}
<1>13. 0 \in G
    <2>1. 1 .. 0 = {} /\ 0 \in 0 .. n
        BY <1>3
    <2> QED  BY <1>7, <1>11, <2>1
<1>14. ASSUME NEW k \in 1 .. n, k - 1 \in G PROVE k \in G
    <2>1. fold[1 .. (k - 1)] \in S /\ fold[1 .. k] = step[<<k, fold[1 .. (k - 1)]>>]
        BY <1>3, <1>12 DEF Loops
    <2>2. fold[1 .. k] = ST!KeepExecutable(fold[1 .. (k - 1)], list[k])
        BY <1>8, <2>1
    <2>3. ApprovedAfter(list, k, fold[1 .. k])
        BY <1>6, <1>14, <2>1, <2>2
    <2> QED  BY <2>3
<1>15. n \in G
    <2> HIDE DEF G
    <2>1. 0 .. n \subseteq G
        BY <1>3, <1>13, <1>14, Upwards
    <2> QED  BY <1>3, <2>1
<1> DEFINE kept == fold[1 .. n]
<1>16. kept \in S /\ ApprovedAfter(list, n, kept)
    BY <1>3, <1>12, <1>15 DEF Loops
<1>17. \A x : Has(kept, x) <=> \E j \in 1 .. Len(docs) : WantedAt(docs, j) /\ docs[j] = x /\ ST!IsExecutable(x)
    <2>1. \A x : Has(kept, x) <=> Has(list, x) /\ ST!IsExecutable(x)
        BY <1>16 DEF ApprovedAfter, Has, n
    <2> HIDE DEF kept
    <2> QED  BY <1>2, <2>1
<1> QED  BY <1>1, <1>3, <1>16, <1>17 DEF ApprovedAfter, S

\* What is loaded is what the registry has for this engine, and the agent.
LEMMA LoadedAreFirst ==
    ASSUME topic = "startup" => StartupAsked(input) /\ output = StartupOutput(input)
    PROVE  LoadedAreFirstOfTheirId
<1> SUFFICES ASSUME topic = "startup" PROVE LoadedAreFirstOfTheirId
    BY DEF LoadedAreFirstOfTheirId
<1> DEFINE docs == input.documents
           loaded == ST!LoadEnabledStrategies(docs, FALSE)
           agent == ST!HermesAgent
<1>1. PICK D : docs \in Seq(D)
    BY DEF StartupAsked
<1>2. \A k \in 1 .. Len(docs) : WantedAt(docs, k) => docs[k].id # agent
    BY <1>1 DEF StartupAsked, WantedAt, ValidAt
<1> HIDE DEF docs
<1>3. PICK kept \in Seq(D) :
         /\ DistinctIds(kept)
         /\ \A x : Has(kept, x) <=> \E j \in 1 .. Len(docs) : WantedAt(docs, j) /\ docs[j] = x /\ ST!IsExecutable(x)
         /\ loaded = <<ST!Listed(agent, "HERMES_APPROVED")>>
                        \o [i \in DOMAIN kept |-> ST!Listed(kept[i].id, "HERMES_APPROVED")] \o <<>>
    <2> HIDE DEF agent
    <2> QED  BY <1>1, LoadedAreExecutable DEF agent
<1> HIDE DEF loaded, agent
<1> DEFINE n == Len(kept)
<1>4. n \in Nat /\ DOMAIN loaded = 1 .. (n + 1) /\ loaded[1].id = agent /\ \A i \in 1 .. n : loaded[i + 1].id = kept[i].id
    <2> DEFINE rest == [i \in 1 .. n |-> ST!Listed(kept[i].id, "HERMES_APPROVED")]
               first == ST!Listed(agent, "HERMES_APPROVED")
               T == {first} \cup {rest[i] : i \in 1 .. n}
    <2>1. n \in Nat /\ DOMAIN kept = 1 .. n
        OBVIOUS
    <2>2. rest \in Seq(T) /\ Len(rest) = n /\ \A i \in 1 .. n : rest[i].id = kept[i].id
        BY <2>1 DEF ST!Listed
    <2>3. first \in T /\ first.id = agent
        BY DEF ST!Listed
    <2>4. loaded = <<first>> \o rest \o <<>>
        BY <1>3, <2>1
    <2> HIDE DEF rest, first, T
    <2>5. loaded \in Seq(T) /\ Len(loaded) = n + 1 /\ loaded[1] = first /\ \A i \in 1 .. n : loaded[i + 1] = rest[i]
        BY <2>1, <2>2, <2>3, <2>4
    <2> QED  BY <2>1, <2>2, <2>3, <2>5
<1> HIDE DEF n
<1>5. \A i \in 1 .. n : kept[i].id # agent
    <2>1. ASSUME NEW i \in 1 .. n PROVE kept[i].id # agent
        <3>1. Has(kept, kept[i])
            BY DEF Has, n
        <3> QED  BY <1>2, <1>3, <3>1
    <2> QED  BY <2>1
<1>6. ASSUME NEW i \in 1 .. (n + 1), NEW j \in 1 .. (n + 1), loaded[i].id = loaded[j].id PROVE i = j
    <2>1. i = 1 \/ (i - 1 \in 1 .. n /\ loaded[i].id = kept[i - 1].id)
        BY <1>4
    <2>2. j = 1 \/ (j - 1 \in 1 .. n /\ loaded[j].id = kept[j - 1].id)
        BY <1>4
    <2>3. CASE i = 1 \/ j = 1
        BY <1>4, <1>5, <1>6, <2>1, <2>2, <2>3
    <2>4. CASE i # 1 /\ j # 1
        <3>1. i - 1 = j - 1
            BY <1>3, <1>6, <2>1, <2>2, <2>4 DEF DistinctIds, n
        <3> QED  BY <3>1
    <2> QED  BY <2>3, <2>4
<1> DEFINE Valid(i) == docs[i].readable /\ docs[i].valid /\ docs[i].schema = "1.0.0"
           First(i) == \A j \in 1 .. (i - 1) : ~(Valid(j) /\ docs[j].id = docs[i].id)
           own == {docs[i].id : i \in {k \in DOMAIN docs :
                       Valid(k) /\ First(k) /\ docs[k].status = "active" /\ ST!IsExecutable(docs[k])}}
<1>7. \A id : id \in own <=> \E i \in 1 .. n : kept[i].id = id
    <2>1. \A id : id \in own <=> \E k \in 1 .. Len(docs) : WantedAt(docs, k) /\ ST!IsExecutable(docs[k]) /\ docs[k].id = id
        BY <1>1 DEF WantedAt, ValidAt
    <2> HIDE DEF own
    <2>2. \A id : (\E i \in 1 .. n : kept[i].id = id) <=> \E x : Has(kept, x) /\ x.id = id
        BY DEF Has, n
    <2>3. \A id : (\E x : Has(kept, x) /\ x.id = id)
                   <=> \E k \in 1 .. Len(docs) : WantedAt(docs, k) /\ ST!IsExecutable(docs[k]) /\ docs[k].id = id
        BY <1>3
    <2> QED  BY <2>1, <2>2, <2>3
<1>8. {s.id : s \in ToSet(loaded)} = {agent} \cup own
    <2> HIDE DEF own
    <2>1. \A id : (\E i \in 1 .. (n + 1) : loaded[i].id = id) <=> id = agent \/ \E i \in 1 .. n : kept[i].id = id
        <3>1. \A i \in 1 .. (n + 1) : i = 1 \/ (i - 1 \in 1 .. n /\ i = (i - 1) + 1)
            BY <1>4
        <3>2. 1 \in 1 .. (n + 1) /\ \A i \in 1 .. n : i + 1 \in 1 .. (n + 1)
            BY <1>4
        <3>3. ASSUME NEW id, NEW i \in 1 .. (n + 1), loaded[i].id = id
              PROVE  id = agent \/ \E k \in 1 .. n : kept[k].id = id
            BY <1>4, <3>1, <3>3
        <3>4. \A i \in 1 .. n : \E k \in 1 .. (n + 1) : loaded[k].id = kept[i].id
            BY <1>4, <3>2
        <3>5. \E k \in 1 .. (n + 1) : loaded[k].id = agent
            BY <1>4, <3>2
        <3> QED  BY <3>3, <3>4, <3>5
    <2>2. {s.id : s \in ToSet(loaded)} = {loaded[i].id : i \in 1 .. (n + 1)}
        BY <1>4 DEF ToSet
    <2> QED  BY <1>7, <2>1, <2>2
<1> QED  BY <1>4, <1>6, <1>8 DEF LoadedAreFirstOfTheirId, docs, loaded, agent

-----------------------------------------------------------------------------
(* Calls with any such input.                                              *)

AskAny ==
    \/ \E i : StartupAsked(i) /\ Ask("startup", {i}, StartupOutput)
    \/ \E i : HistoryAsked(i) /\ Ask("history", {i}, Verdict)
    \/ \E i : DecisionAsked(i) /\ Ask("decision", {i}, Decided)
AskSpec == NothingAsked /\ [][AskAny]_call

\* What was asked was proper, and has been answered by the rule.
Answered ==
    /\ topic = "startup" => StartupAsked(input) /\ output = StartupOutput(input)
    /\ topic = "history" => HistoryAsked(input) /\ output = Verdict(input)
    /\ topic = "decision" => DecisionAsked(input) /\ output = Decided(input)

\* Every call is answered by its rule.
LEMMA AnsweredCorrect ==
    ASSUME None \notin {"startup", "history", "decision"}
    PROVE  AskSpec => []Answered
<1>1. NothingAsked => Answered
    BY DEF NothingAsked, Answered, topic, input, output
<1>2. Answered /\ [AskAny]_call => Answered'
    <2> SUFFICES ASSUME Answered, [AskAny]_call PROVE Answered'
        OBVIOUS
    <2>1. CASE UNCHANGED call
        BY <2>1 DEF Answered, topic, input, output
    <2>2. ASSUME NEW i, StartupAsked(i), Ask("startup", {i}, StartupOutput) PROVE Answered'
        <3>1. topic' = "startup" /\ input' = i /\ output' = StartupOutput(i)
            BY <2>2 DEF Ask, topic, input, output
        <3> QED  BY <2>2, <3>1 DEF Answered
    <2>3. ASSUME NEW i, HistoryAsked(i), Ask("history", {i}, Verdict) PROVE Answered'
        <3>1. topic' = "history" /\ input' = i /\ output' = Verdict(i)
            BY <2>3 DEF Ask, topic, input, output
        <3> QED  BY <2>3, <3>1 DEF Answered
    <2>4. ASSUME NEW i, DecisionAsked(i), Ask("decision", {i}, Decided) PROVE Answered'
        <3>1. topic' = "decision" /\ input' = i /\ output' = Decided(i)
            BY <2>4 DEF Ask, topic, input, output
        <3> QED  BY <2>4, <3>1 DEF Answered
    <2> QED  BY <2>1, <2>2, <2>3, <2>4 DEF AskAny
<1> QED  BY <1>1, <1>2, PTL DEF AskSpec

\* Whatever the settings and the strategy documents: a runtime that gets built trades with play
\* money, in a mode its broker declares; no later factory refuses what the checks let through; no
\* opposing signal closes at once; and the strategies loaded are the agent and the first valid
\* document of each id, active and executable.
THEOREM StartsAreSafe ==
    ASSUME None \notin {"startup", "history", "decision"}
    PROVE  AskSpec => []StartupIsSafe
<1>1. Answered => StartupIsSafe
    BY StartsDemo, ChecksAreComplete, ExitStaysSlow, LoadedAreFirst DEF Answered, StartupIsSafe
<1> QED  BY <1>1, AnsweredCorrect, PTL

\* Whatever the market: an accepted history misses no candle of an open market, the indicators
\* stay within what the candles say, and the decisions fit what is held, that of Demo0001 with a
\* confidence in its own band.
THEOREM DecisionsAreGrounded ==
    ASSUME None \notin {"startup", "history", "decision"}
    PROVE  AskSpec => []DecisionIsGrounded
<1>1. Answered => DecisionIsGrounded
    BY HistoryIsComplete, IndicatorsHold, DecisionsFit DEF Answered, DecisionIsGrounded
<1> QED  BY <1>1, AnsweredCorrect, PTL
=============================================================================
