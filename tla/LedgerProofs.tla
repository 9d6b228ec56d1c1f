---------------------------- MODULE LedgerProofs ----------------------------
(***************************************************************************)
(* Proof of what the ledger reports, for any table of results and any set   *)
(* of lifecycle records: the drawdown of a strategy, the row of a trade,    *)
(* the answers of the database and the count of entries.                    *)
(***************************************************************************)
EXTENDS IntegrationProofs, LedgerChecks

-----------------------------------------------------------------------------
(* The drawdown of a strategy.                                             *)

\* Both names of what the ledger's rules are built from.
LEMMA LedgerNames ==
    /\ \A S : LG!Cardinality(S) = Cardinality(S)
    /\ \A S : LG!Max(S) = Max(S)
BY DEF LG!Cardinality, Cardinality, LG!Max, Max

\* Values whose exit times and results are whole numbers.
Booked(values) ==
    /\ \E V : values \in Seq(V)
    /\ \A k \in DOMAIN values : values[k].exitTime \in Int /\ values[k].net \in Int

\* Those of some places, in the order of their exits, are some of the values.
LEMMA OrderedAreBooked ==
    ASSUME NEW values, Booked(values), NEW W \in SUBSET (DOMAIN values),
           NEW own, own = LG!ByExitTimeAscending(values, W)
    PROVE  /\ Booked(own) /\ Len(own) = Cardinality(W) /\ Cardinality(W) \in Nat
           /\ \A k \in 1 .. Len(own) : LG!AtPlace(values, W, k) \in W
<1> DEFINE n == Len(values)
           before == [i \in W |-> {j \in W : LG!Earlier(values, j, i)}]
<1>1. n \in Nat /\ DOMAIN values = 1 .. n /\ IsFiniteSet(W)
    <2>1. n \in Nat /\ DOMAIN values = 1 .. n
        BY DEF Booked
    <2>2. IsFiniteSet(1 .. n)
        BY <2>1, FS_Interval
    <2> QED  BY <2>1, <2>2, FS_Subset
<1>2. \A i \in W : i \in Int /\ values[i].exitTime \in Int
    BY <1>1 DEF Booked
<1>3. Ranked(W, before)
    <2> HIDE DEF n
    <2>1. before \in [W -> SUBSET W] /\ \A i, j \in W : j \in before[i] <=> LG!Earlier(values, j, i)
        OBVIOUS
    <2>2. \A i, j \in W : LG!Earlier(values, j, i) <=>
              values[j].exitTime < values[i].exitTime \/ (values[j].exitTime = values[i].exitTime /\ j < i)
        BY DEF LG!Earlier
    <2>3. \A i \in W : ~LG!Earlier(values, i, i)
        BY <1>2, <2>2
    <2>4. \A i, j \in W : i # j => LG!Earlier(values, i, j) \/ LG!Earlier(values, j, i)
        BY <1>2, <2>2
    <2>5. \A i, j, k \in W : LG!Earlier(values, k, j) /\ LG!Earlier(values, j, i) => LG!Earlier(values, k, i)
        BY <1>2, <2>2
    <2>6. \A i, j \in W : j \in before[i] => before[j] \subseteq before[i]
        <3> SUFFICES ASSUME NEW i \in W, NEW j \in W, j \in before[i], NEW k \in before[j] PROVE k \in before[i]
            OBVIOUS
        <3>1. k \in W
            BY <2>1
        <3> HIDE DEF before
        <3> QED  BY <2>1, <2>5, <3>1
    <2> HIDE DEF before
    <2> QED  BY <2>1, <2>3, <2>4, <2>6 DEF Ranked
<1>4. Cardinality(W) \in Nat /\ \A k \in 0 .. Cardinality(W) - 1 : \E i \in W : Cardinality(before[i]) = k
    <2> HIDE DEF before
    <2> QED  BY <1>1, <1>3, EveryRankIsHeld
<1>5. ASSUME NEW k \in 1 .. Cardinality(W) PROVE LG!AtPlace(values, W, k) \in W
    <2>1. k - 1 \in 0 .. Cardinality(W) - 1
        BY <1>4
    <2>2. PICK i \in W : Cardinality(before[i]) = k - 1
        BY <1>4, <2>1
    <2>3. LG!Cardinality({j \in W : LG!Earlier(values, j, i)}) = k - 1
        BY <2>2, LedgerNames
    <2> DEFINE P(i_1) == LG!Cardinality({j \in W : LG!Earlier(values, j, i_1)}) = k - 1
    <2>4. LG!AtPlace(values, W, k) = CHOOSE i_1 \in W : P(i_1)
        BY DEF LG!AtPlace
    <2>5. \E i_1 \in W : P(i_1)
        BY <2>3
    <2> HIDE DEF P
    <2> QED  BY <2>4, <2>5
<1>6. own = [k \in 1 .. Cardinality(W) |-> values[LG!AtPlace(values, W, k)]]
    BY LedgerNames DEF LG!ByExitTimeAscending
<1>7. Len(own) = Cardinality(W) /\ DOMAIN own = 1 .. Cardinality(W)
    BY <1>4, <1>6
<1>8. \A k \in 1 .. Cardinality(W) : LG!AtPlace(values, W, k) \in DOMAIN values /\ own[k] = values[LG!AtPlace(values, W, k)]
    BY <1>5, <1>6
<1>9. PICK V : values \in Seq(V)
    BY DEF Booked
<1>10. \A k \in DOMAIN values : values[k] \in V
    BY <1>9
<1>11. own \in Seq(V)
    <2>1. \A k \in 1 .. Cardinality(W) : own[k] \in V
        BY <1>8, <1>10
    <2> QED  BY <1>4, <1>6, <1>7, <2>1
<1> QED  BY <1>4, <1>5, <1>7, <1>8, <1>11 DEF Booked

Nets(values) == [k \in 1 .. Len(values) |-> values[k].net]
Added(values) == FoldLeft(LAMBDA sum, v : sum + v.net, 0, values)

\* What the first k of some results add up to.
LEMMA FirstResults ==
    ASSUME NEW own, Booked(own), NEW total, Totals(Nets(own), 0, total), NEW k \in 0 .. Len(own)
    PROVE  Added(SubSeq(own, 1, k)) = total[k]
<1> DEFINE q == SubSeq(own, 1, k)
           r == [j \in 1 .. k |-> Nets(own)[j]]
           P(f) == f = [x \in SUBSET (DOMAIN q) |-> IF x = {} THEN 0 ELSE f[x \ {Max(x)}] + q[Max(x)].net]
           Q(f) == f = [x \in SUBSET (DOMAIN r) |-> IF x = {} THEN 0 ELSE IG!Plus(f[x \ {Max(x)}], r[Max(x)])]
<1>1. Len(own) \in Nat /\ k \in Nat /\ DOMAIN own = 1 .. Len(own) /\ \A j \in 1 .. k : j \in 1 .. Len(own) /\ own[j].net \in Int
    BY DEF Booked
<1>2. DOMAIN q = 1 .. k /\ \A j \in 1 .. k : q[j] = own[j]
    <2>1. PICK V : own \in Seq(V)
        BY DEF Booked
    <2> QED  BY <1>1, <2>1
<1>3. DOMAIN r = 1 .. k /\ \A j \in 1 .. k : r[j] = own[j].net
    BY <1>1 DEF Nets
<1>4. Added(q) = (CHOOSE f : P(f))[1 .. k]
    <2>1. Added(q) = (CHOOSE f : P(f))[DOMAIN q]
        BY DEF Added, FoldLeft, MapThenFoldSet
    <2> HIDE DEF P, q
    <2> QED  BY <1>2, <2>1
<1>5. FoldLeft(IG!Plus, 0, r) = (CHOOSE f : Q(f))[1 .. k]
    <2>1. FoldLeft(IG!Plus, 0, r) = (CHOOSE f : Q(f))[DOMAIN r]
        BY DEF FoldLeft, MapThenFoldSet
    <2> HIDE DEF Q, r
    <2> QED  BY <1>3, <2>1
<1>6. \A f : P(f) <=> Q(f)
    <2>1. \A x \in SUBSET (1 .. k) : x # {} => Max(x) \in 1 .. k
        BY <1>1, LargestIsThere
    <2> HIDE DEF q, r
    <2> SUFFICES ASSUME NEW f PROVE P(f) <=> Q(f)
        OBVIOUS
    <2>2. ASSUME NEW x \in SUBSET (1 .. k), x # {} PROVE f[x \ {Max(x)}] + q[Max(x)].net = IG!Plus(f[x \ {Max(x)}], r[Max(x)])
        BY <1>2, <1>3, <2>1, <2>2 DEF IG!Plus
    <2>3. [x \in SUBSET (DOMAIN q) |-> IF x = {} THEN 0 ELSE f[x \ {Max(x)}] + q[Max(x)].net]
            = [x \in SUBSET (DOMAIN r) |-> IF x = {} THEN 0 ELSE IG!Plus(f[x \ {Max(x)}], r[Max(x)])]
        BY <1>2, <1>3, <2>2
    <2> QED  BY <2>3
<1>7. (CHOOSE f : P(f)) = (CHOOSE f : Q(f))
    <2> HIDE DEF P, Q
    <2> QED  BY <1>6
<1>8. FoldLeft(IG!Plus, 0, r) = total[k]
    <2>1. Nets(own) \in Seq(Int) /\ Len(Nets(own)) = Len(own)
        <3>1. \A j \in 1 .. Len(own) : own[j].net \in Int
            BY <1>1 DEF Booked
        <3> QED  BY <1>1, <3>1 DEF Nets
    <2> HIDE DEF r
    <2> QED  BY <2>1, FirstOfSum DEF r
<1> HIDE DEF P, Q
<1> QED  BY <1>4, <1>5, <1>7, <1>8

\* Nothing falls deeper, from one point to a later one, and something falls as deep.
DeepestFall(total, n, fall) ==
    /\ \A k \in 0 .. n : \A j \in 0 .. k : total[j] - total[k] <= fall
    /\ \E k \in 0 .. n : \E j \in 0 .. k : total[j] - total[k] = fall

\* Where a walk stands after k results.
Walked(acc, total, k) ==
    /\ acc = [sum |-> acc.sum, peak |-> acc.peak, fall |-> acc.fall]
    /\ acc.sum = total[k] /\ acc.peak \in Int /\ acc.fall \in Int
    /\ \A j \in 0 .. k : total[j] <= acc.peak
    /\ \E j \in 0 .. k : total[j] = acc.peak
    /\ DeepestFall(total, k, acc.fall)

Walk(acc, v) ==
    LET sum == acc.sum + v.net  peak == LG!Larger(acc.peak, sum)
    IN  [sum |-> sum, peak |-> peak, fall |-> LG!Larger(acc.fall, peak - sum)]

\* One more result.
LEMMA OneMoreResult ==
    ASSUME NEW k \in Nat \ {0}, NEW total, \A j \in 0 .. k : total[j] \in Int, NEW v, v.net \in Int,
           total[k] = total[k - 1] + v.net, NEW acc, Walked(acc, total, k - 1)
    PROVE  Walked(Walk(acc, v), total, k)
<1> DEFINE sum == acc.sum + v.net
           peak == LG!Larger(acc.peak, sum)
           fall == LG!Larger(acc.fall, peak - sum)
<1>1. k - 1 \in 0 .. k /\ k \in 0 .. k /\ 0 .. k = (0 .. (k - 1)) \cup {k} /\ 0 .. (k - 1) \subseteq 0 .. k
    OBVIOUS
<1>2. acc.sum \in Int /\ acc.peak \in Int /\ acc.fall \in Int /\ sum = total[k] /\ sum \in Int
    BY <1>1 DEF Walked
<1>3. peak \in Int /\ peak >= acc.peak /\ peak >= sum /\ (peak = acc.peak \/ peak = sum)
    BY <1>2 DEF LG!Larger
<1>4. fall \in Int /\ fall >= acc.fall /\ fall >= peak - sum /\ (fall = acc.fall \/ fall = peak - sum)
    BY <1>2, <1>3 DEF LG!Larger
<1> HIDE DEF fall, peak, sum
<1>5. \A j \in 0 .. k : total[j] <= peak
    <2>1. \A j \in 0 .. (k - 1) : total[j] <= acc.peak
        BY DEF Walked
    <2> QED  BY <1>1, <1>2, <1>3, <2>1
<1>6. \E j \in 0 .. k : total[j] = peak
    <2>1. \E j \in 0 .. (k - 1) : total[j] = acc.peak
        BY DEF Walked
    <2> QED  BY <1>1, <1>2, <1>3, <2>1
<1>7. ASSUME NEW i \in 0 .. k, NEW j \in 0 .. i PROVE total[j] - total[i] <= fall
    <2>1. CASE i = k
        <3>1. total[j] <= peak /\ total[j] \in Int
            BY <1>5, <2>1
        <3> QED  BY <1>2, <1>3, <1>4, <2>1, <3>1
    <2>2. CASE i # k
        <3>1. i \in 0 .. (k - 1) /\ total[i] \in Int /\ total[j] \in Int
            BY <2>2
        <3>2. total[j] - total[i] <= acc.fall
            BY <3>1 DEF Walked, DeepestFall
        <3> QED  BY <1>2, <1>4, <3>1, <3>2
    <2> QED  BY <2>1, <2>2
<1>8. \E i \in 0 .. k : \E j \in 0 .. i : total[j] - total[i] = fall
    <2>1. CASE fall = acc.fall
        <3>1. \E i \in 0 .. (k - 1) : \E j \in 0 .. i : total[j] - total[i] = acc.fall
            BY DEF Walked, DeepestFall
        <3> QED  BY <1>1, <2>1, <3>1
    <2>2. CASE fall = peak - sum
        <3>1. PICK j \in 0 .. k : total[j] = peak
            BY <1>6
        <3> QED  BY <1>1, <1>2, <2>2, <3>1
    <2> QED  BY <1>4, <2>1, <2>2
<1>9. Walk(acc, v) = [sum |-> sum, peak |-> peak, fall |-> fall]
    BY DEF Walk, fall, peak, sum
<1> QED  BY <1>2, <1>3, <1>4, <1>5, <1>6, <1>7, <1>8, <1>9 DEF Walked, DeepestFall

\* Where a walk may stand at all.
Walks == [sum : Int, peak : Int, fall : Int]

\* The drawdown of some results is the deepest fall of their running sum.
LEMMA DrawdownFits ==
    ASSUME NEW own, Booked(own), NEW total, Totals(Nets(own), 0, total)
    PROVE  DeepestFall(total, Len(own), LG!ComputeMaxDrawdown(own))
<1> DEFINE n == Len(own)
           base == [sum |-> 0, peak |-> 0, fall |-> 0]
           step == [p \in (1 .. n) \X Walks |-> Walk(p[2], own[p[1]])]
           P(f) == f = [x \in SUBSET (DOMAIN own) |-> IF x = {} THEN base ELSE Walk(f[x \ {Max(x)}], own[Max(x)])]
           fold == CHOOSE f : P(f)
<1>1. LG!ComputeMaxDrawdown(own) = fold[DOMAIN own].fall
    <2>1. \A x : LG!Max(x) = Max(x)
        BY LedgerNames
    <2>2. LG!ComputeMaxDrawdown(own) = LG!FoldLeft(Walk, base, own).fall
        BY DEF LG!ComputeMaxDrawdown, Walk
    <2>3. LG!FoldLeft(Walk, base, own) = fold[DOMAIN own]
        BY <2>1 DEF LG!FoldLeft, LG!MapThenFoldSet
    <2> HIDE DEF base, fold
    <2> QED  BY <2>2, <2>3
<1>2. n \in Nat /\ DOMAIN own = 1 .. n /\ \A k \in 1 .. n : own[k].net \in Int
    BY DEF Booked
<1>3. \A k \in 1 .. n, acc \in Walks : Walk(acc, own[k]) \in Walks
    <2> SUFFICES ASSUME NEW k \in 1 .. n, NEW acc \in Walks PROVE Walk(acc, own[k]) \in Walks
        OBVIOUS
    <2>1. acc.sum + own[k].net \in Int /\ acc.peak \in Int /\ acc.fall \in Int
        BY <1>2 DEF Walks
    <2>2. \A a, b \in Int : LG!Larger(a, b) \in Int /\ a - b \in Int
        BY DEF LG!Larger
    <2> QED  BY <2>1, <2>2 DEF Walk, Walks
<1>4. step \in [(1 .. n) \X Walks -> Walks] /\ \A k \in 1 .. n, acc \in Walks : step[<<k, acc>>] = Walk(acc, own[k])
    <2> HIDE DEF n
    <2> QED  BY <1>3
<1>5. base \in Walks
    BY DEF Walks
<1>6. base.sum = 0 /\ base.peak = 0 /\ base.fall = 0 /\ base = [sum |-> base.sum, peak |-> base.peak, fall |-> base.fall]
    OBVIOUS
<1> HIDE DEF base, step, n
<1>7. \A x \in SUBSET (1 .. n) : x # {} => Max(x) \in 1 .. n
    BY <1>2, LargestIsThere
<1>8. P(fold)
    <2>1. PICK f : Folds(f, n, Walks, base, step)
        BY <1>2, <1>4, <1>5, FoldExists
    <2>2. \A x \in SUBSET (1 .. n) : x # {} => f[x] = Walk(f[x \ {Max(x)}], own[Max(x)])
        BY <1>4, <1>7, <2>1 DEF Folds
    <2>3. P(f)
        BY <1>2, <2>1, <2>2 DEF Folds
    <2> HIDE DEF P
    <2> QED  BY <2>3
<1> HIDE DEF fold
<1>9. fold[{}] = base /\ \A x \in SUBSET (1 .. n) : x # {} => fold[x] = Walk(fold[x \ {Max(x)}], own[Max(x)])
    BY <1>2, <1>8
<1>10. Loops(fold, n, Walks, step)
    <2>1. ASSUME NEW x \in SUBSET (1 .. n), x # {}, fold[x \ {Max(x)}] \in Walks
          PROVE  fold[x] = step[<<Max(x), fold[x \ {Max(x)}]>>]
        BY <1>4, <1>7, <1>9, <2>1
    <2>2. Obeys(fold, n, Walks, step)
        BY <1>5, <1>9, <2>1 DEF Obeys
    <2> QED  BY <1>2, <1>4, <2>2, FoldIsLoop
<1>11. /\ total[0] = 0 /\ \A k \in 0 .. n : total[k] \in Int
       /\ \A k \in 1 .. n : total[k] = total[k - 1] + own[k].net
    <2>1. Len(Nets(own)) = n /\ \A k \in 1 .. n : Nets(own)[k] = own[k].net
        BY <1>2 DEF Nets, n
    <2> QED  BY <2>1 DEF Totals
<1> DEFINE G == {k \in 0 .. n : Walked(fold[1 .. k], total, k)}
<1>12. 0 \in G
    <2>1. fold[1 .. 0] = base
        <3>1. 1 .. 0 = {}
            OBVIOUS
        <3> QED  BY <1>9, <3>1
    <2>2. 0 .. 0 = {0}
        OBVIOUS
    <2>3. DeepestFall(total, 0, 0)
        BY <1>11, <2>2 DEF DeepestFall
    <2>4. Walked(base, total, 0)
        BY <1>6, <1>11, <2>2, <2>3 DEF Walked
    <2> QED  BY <1>2, <2>1, <2>4
<1>13. ASSUME NEW k \in 1 .. n, k - 1 \in G PROVE k \in G
    <2>1. k \in Nat \ {0} /\ k \in 0 .. n /\ k - 1 \in 0 .. n /\ \A j \in 0 .. k : j \in 0 .. n
        BY <1>2
    <2>2. Walked(fold[1 .. (k - 1)], total, k - 1)
        BY <1>13
    <2>3. fold[1 .. k] = Walk(fold[1 .. (k - 1)], own[k])
        BY <1>4, <1>10, <2>1 DEF Loops
    <2>4. Walked(Walk(fold[1 .. (k - 1)], own[k]), total, k)
        BY <1>2, <1>11, <2>1, <2>2, OneMoreResult
    <2> QED  BY <2>1, <2>3, <2>4
<1>14. n \in G
    <2> HIDE DEF G
    <2>1. 0 .. n \subseteq G
        BY <1>2, <1>12, <1>13, Upwards
    <2> QED  BY <1>2, <2>1
<1>15. Walked(fold[1 .. n], total, n)
    BY <1>14
<1> QED  BY <1>1, <1>2, <1>15 DEF Walked, n

-----------------------------------------------------------------------------
(* A table with any rows.                                                  *)

\* The rows UpsertPerformance makes of what BuildTradePerformanceInput computes.
TableAsked(table) ==
    /\ \E R : table \in Seq(R)
    /\ \A k \in DOMAIN table : table[k].value.exitTime \in Int /\ table[k].value.net \in Int
Figures(table) == [table |-> table, strategies |-> LG!ComputeAllStrategyPerformance(LG!Values(table))]
TableSpec == NothingAsked /\ [][\E t : TableAsked(t) /\ Ask("ledger", {t}, Figures)]_call

\* Each strategy's drawdown is of its own results.
LEMMA StrategyFallsDeepest ==
    ASSUME NEW table, TableAsked(table), NEW s, s \in Figures(table).strategies,
           NEW own, own = LG!OfStrategy(LG!Values(table), s.strategy)
    PROVE  /\ \A k \in 0 .. Len(own) : \A j \in 0 .. k : Added(SubSeq(own, 1, j)) - Added(SubSeq(own, 1, k)) <= s.maximumDrawdown
           /\ \E k \in 0 .. Len(own) : \E j \in 0 .. k : Added(SubSeq(own, 1, j)) - Added(SubSeq(own, 1, k)) = s.maximumDrawdown
<1> DEFINE values == LG!Values(table)
<1>1. PICK strategy : s = LG!ComputeStrategyPerformance(strategy, values)
    BY DEF Figures, LG!ComputeAllStrategyPerformance
<1>2. s.strategy = strategy /\ s.maximumDrawdown = LG!ComputeMaxDrawdown(LG!OfStrategy(values, strategy))
    <2> HIDE DEF values
    <2> QED  BY <1>1 DEF LG!ComputeStrategyPerformance
<1>3. s.maximumDrawdown = LG!ComputeMaxDrawdown(own)
    BY <1>2
<1>4. Booked(values)
    <2>1. PICK R : table \in Seq(R)
        BY DEF TableAsked
    <2>2. Len(table) \in Nat /\ DOMAIN table = 1 .. Len(table)
        BY <2>1
    <2>3. values = [k \in 1 .. Len(table) |-> table[k].value]
        BY <2>2 DEF LG!Values
    <2>4. values \in Seq({table[k].value : k \in 1 .. Len(table)})
        BY <2>2, <2>3
    <2>5. \A k \in DOMAIN values : values[k].exitTime \in Int /\ values[k].net \in Int
        BY <2>2, <2>3 DEF TableAsked
    <2> HIDE DEF values
    <2> QED  BY <2>4, <2>5 DEF Booked
<1>5. Booked(own)
    <2> DEFINE W == {i \in DOMAIN values : values[i].strategy = s.strategy}
    <2>1. W \in SUBSET (DOMAIN values) /\ own = LG!ByExitTimeAscending(values, W)
        BY DEF LG!OfStrategy
    <2> HIDE DEF W, values
    <2> QED  BY <1>4, <2>1, OrderedAreBooked
<1>6. PICK total : Totals(Nets(own), 0, total)
    <2>1. Nets(own) \in Seq(Int)
        <3>1. Len(own) \in Nat /\ DOMAIN own = 1 .. Len(own)
            BY <1>5 DEF Booked
        <3>2. \A k \in 1 .. Len(own) : own[k].net \in Int
            BY <1>5, <3>1 DEF Booked
        <3> QED  BY <3>1, <3>2 DEF Nets
    <2> QED  BY <2>1, SumAdds
<1>7. DeepestFall(total, Len(own), s.maximumDrawdown)
    BY <1>3, <1>5, <1>6, DrawdownFits
<1>8. \A k \in 0 .. Len(own) : Added(SubSeq(own, 1, k)) = total[k]
    BY <1>5, <1>6, FirstResults
<1>9. \A k \in 0 .. Len(own) : \A j \in 0 .. k : j \in 0 .. Len(own)
    <2>1. Len(own) \in Nat
        BY <1>5 DEF Booked
    <2> QED  BY <2>1
<1> QED  BY <1>7, <1>8, <1>9 DEF DeepestFall

\* Whatever trades a table holds, of however many strategies: the drawdown reported for a strategy is the
\* deepest fall between two points of its own equity curve, the first of them the beginning.
THEOREM DrawdownsAreDeepest == ASSUME None # "ledger" PROVE TableSpec => []DrawdownIsDeepestFall
<1> DEFINE Reported == topic = "ledger" => TableAsked(input) /\ output = Figures(input)
<1>1. NothingAsked => Reported
    BY DEF NothingAsked, topic
<1>2. Reported /\ [\E t : TableAsked(t) /\ Ask("ledger", {t}, Figures)]_call => Reported'
    <2> SUFFICES ASSUME Reported, [\E t : TableAsked(t) /\ Ask("ledger", {t}, Figures)]_call PROVE Reported'
        OBVIOUS
    <2>1. CASE UNCHANGED call
        BY <2>1 DEF topic, input, output
    <2>2. ASSUME NEW t, TableAsked(t), Ask("ledger", {t}, Figures) PROVE Reported'
        <3>1. topic' = "ledger" /\ input' = t /\ output' = Figures(t)
            BY <2>2 DEF Ask, topic, input, output
        <3> QED  BY <2>2, <3>1
    <2> QED  BY <2>1, <2>2
<1>3. Reported => DrawdownIsDeepestFall
    <2> SUFFICES ASSUME Reported, topic = "ledger", NEW s \in output.strategies,
                        NEW own, own = LG!OfStrategy(LG!Values(output.table), s.strategy)
                 PROVE  /\ \A k \in 0 .. Len(own) : \A j \in 0 .. k :
                              Added(SubSeq(own, 1, j)) - Added(SubSeq(own, 1, k)) <= s.maximumDrawdown
                        /\ \E k \in 0 .. Len(own) : \E j \in 0 .. k :
                              Added(SubSeq(own, 1, j)) - Added(SubSeq(own, 1, k)) = s.maximumDrawdown
        BY DEF DrawdownIsDeepestFall, Added
    <2>1. TableAsked(input) /\ output.table = input /\ s \in Figures(input).strategies
        BY DEF Figures
    <2> QED  BY <2>1, StrategyFallsDeepest
<1> QED  BY <1>1, <1>2, <1>3, PTL DEF TableSpec

-----------------------------------------------------------------------------
(* Any set of records.                                                     *)

\* What every lifecycle record has, and no column called as the document that holds the rest.
RecordsAsked(records) ==
    /\ IsFiniteSet(records)
    /\ \A r \in records :
          /\ r = [f \in DOMAIN r |-> r[f]]
          /\ LG!DetailFields \cup LG!StoreTimes
                \cup {"side", "status", "sizing", "strategy", "instrument", "position", "openedAt", "submittedAt"} \subseteq DOMAIN r
          /\ "detail" \notin DOMAIN r
          /\ r.openedAt = {} \/ \E at \in Int : r.openedAt = {at}

\* What comes back of a record: all of it but when it was submitted, and the times of the store for its own.
ReadBack(r, created, updated) ==
    [f \in DOMAIN r |-> IF f = "submittedAt" THEN {} ELSE IF f = "createdAt" THEN created
                        ELSE IF f = "updatedAt" THEN updated ELSE r[f]]

\* Nothing else of a record is lost in its row.
LEMMA RowKeepsRecord ==
    ASSUME NEW records, RecordsAsked(records), NEW r \in records, NEW created, NEW updated,
           NEW row, row = LG!Stored(r, created, updated), NEW back, back = ReadBack(r, created, updated)
    PROVE  /\ LG!FromRow(row) = back
           /\ row.status = back.status /\ row.strategy = back.strategy /\ row.instrument = back.instrument
           /\ row.position = back.position /\ row.updatedAt = back.updatedAt
<1> DEFINE D == DOMAIN r
           F == LG!DetailFields
           T == LG!StoreTimes
           C == D \ (F \cup T \cup {"submittedAt"})
           columns == LG!ToRow(r)
<1>1. F \cup T \cup {"status", "strategy", "instrument", "position", "submittedAt"} \subseteq D /\ "detail" \notin D
    BY DEF RecordsAsked
<1>2. /\ F \cap T = {} /\ "submittedAt" \notin F \cup T /\ T = {"createdAt", "updatedAt"}
      /\ {"status", "strategy", "instrument", "position"} \cap (F \cup T \cup {"submittedAt"}) = {}
      /\ "detail" \notin F \cup T
    BY DEF LG!DetailFields, LG!StoreTimes
<1>3. /\ DOMAIN columns = C \cup {"detail"} /\ columns.detail = [d \in F |-> r[d]]
      /\ \A f \in C : columns[f] = r[f]
    BY <1>1 DEF LG!ToRow
<1>4. row = [f \in DOMAIN columns \cup T |-> IF f = "createdAt" THEN created ELSE IF f = "updatedAt" THEN updated ELSE columns[f]]
    BY DEF LG!Stored
<1>5. back = [f \in D |-> IF f = "submittedAt" THEN {} ELSE IF f = "createdAt" THEN created
                          ELSE IF f = "updatedAt" THEN updated ELSE r[f]]
    BY DEF ReadBack
<1> HIDE DEF columns, T, F, D
<1>6. /\ DOMAIN row = C \cup {"detail"} \cup T
      /\ row.createdAt = created /\ row.updatedAt = updated /\ row.detail = [d \in F |-> r[d]]
      /\ \A f \in C : row[f] = r[f]
    BY <1>1, <1>2, <1>3, <1>4
<1>7. /\ DOMAIN back = D /\ back.submittedAt = {} /\ back.createdAt = created /\ back.updatedAt = updated
      /\ \A f \in D \ (T \cup {"submittedAt"}) : back[f] = r[f]
    BY <1>1, <1>2, <1>5
<1>8. LG!FromRow(row) = [f \in (DOMAIN row \ {"detail"}) \cup F \cup {"submittedAt"} |->
                            IF f = "submittedAt" THEN {} ELSE IF f \in F THEN row.detail[f] ELSE row[f]]
    BY DEF LG!FromRow, F
<1>9. (DOMAIN row \ {"detail"}) \cup F \cup {"submittedAt"} = D
    BY <1>1, <1>2, <1>6
<1>10. ASSUME NEW f \in D
       PROVE  (IF f = "submittedAt" THEN {} ELSE IF f \in F THEN row.detail[f] ELSE row[f]) = back[f]
    <2>1. f \in C \/ f \in F \/ f \in T \/ f = "submittedAt"
        OBVIOUS
    <2> HIDE DEF C
    <2>2. CASE f \in C
        BY <1>2, <1>6, <1>7, <2>2 DEF C
    <2>3. CASE f \in F
        BY <1>2, <1>6, <1>7, <2>3
    <2>4. CASE f \in T
        BY <1>2, <1>6, <1>7, <2>4
    <2> QED  BY <1>7, <2>1, <2>2, <2>3, <2>4
<1>11. back = [f \in D |-> back[f]]
    BY <1>5, <1>7
<1>12. LG!FromRow(row) = back
    BY <1>8, <1>9, <1>10, <1>11
<1>13. row.status = back.status /\ row.strategy = back.strategy /\ row.instrument = back.instrument
       /\ row.position = back.position
    <2>1. \A f \in {"status", "strategy", "instrument", "position"} : f \in C /\ f \in D \ (T \cup {"submittedAt"})
        BY <1>1, <1>2
    <2> HIDE DEF C
    <2> QED  BY <1>6, <1>7, <2>1
<1> QED  BY <1>6, <1>7, <1>12, <1>13

\* A query of the database answers with the records the memory would, or does not answer.
Answers(found, InMemory, rows) ==
    \/ found = {InMemory}
    \/ found = {} /\ \E row \in rows : LG!Corrupted(row) /\ LG!FromRow(row) \in InMemory

\* Whatever records were written and whenever they were stored: each is read back whole but for the time it was
\* submitted and with the store's times for its own, and of what can be read back the database finds by scope, by
\* age and by the broker's position what the store in memory would; it answers nothing only when a row it
\* found is corrupted.
THEOREM StoresAnswerAlike ==
    ASSUME NEW records, RecordsAsked(records), NEW created, NEW updated,
           NEW rows, rows = {LG!Stored(r, created[r], updated[r]) : r \in records},
           NEW back, back = {ReadBack(r, created[r], updated[r]) : r \in records},
           NEW scope, NEW before, NEW position
    PROVE  /\ \A r \in records : LG!FromRow(LG!Stored(r, created[r], updated[r])) = ReadBack(r, created[r], updated[r])
           /\ Answers(LG!ListActive(rows, scope), LG!MemoryListActive(back, scope), rows)
           /\ Answers(LG!ListRecoverable(rows, scope, before), LG!MemoryListRecoverable(back, scope, before), rows)
           /\ Answers(LG!FindByBrokerPositionId(rows, position), LG!MemoryFindByBrokerPositionId(back, position), rows)
<1>1. ASSUME NEW r \in records, NEW row, row = LG!Stored(r, created[r], updated[r]),
             NEW b, b = ReadBack(r, created[r], updated[r])
      PROVE  /\ LG!FromRow(row) = b
             /\ LG!InScope(row, scope) <=> LG!InScope(b, scope)
             /\ row.updatedAt = b.updatedAt /\ row.position = b.position
    BY <1>1, RowKeepsRecord DEF LG!InScope
<1>2. \A row \in rows : /\ LG!FromRow(row) \in back
                        /\ LG!InScope(row, scope) <=> LG!InScope(LG!FromRow(row), scope)
                        /\ row.updatedAt = LG!FromRow(row).updatedAt /\ row.position = LG!FromRow(row).position
    <2> TAKE row \in rows
    <2>1. PICK r \in records : row = LG!Stored(r, created[r], updated[r])
        OBVIOUS
    <2> DEFINE b == ReadBack(r, created[r], updated[r])
    <2>2. b \in back
        OBVIOUS
    <2>3. /\ LG!FromRow(row) = b
          /\ LG!InScope(row, scope) <=> LG!InScope(b, scope)
          /\ row.updatedAt = b.updatedAt /\ row.position = b.position
        BY <1>1, <2>1
    <2> HIDE DEF b
    <2> QED  BY <2>2, <2>3
<1>3. \A b \in back : \E row \in rows : LG!FromRow(row) = b
    <2> TAKE b \in back
    <2>1. PICK r \in records : b = ReadBack(r, created[r], updated[r])
        OBVIOUS
    <2>2. LG!FromRow(LG!Stored(r, created[r], updated[r])) = b
        BY <1>1, <2>1
    <2> QED  BY <2>2
<1>4. ASSUME NEW found \in SUBSET rows, NEW own \in SUBSET back, \A row \in rows : row \in found <=> LG!FromRow(row) \in own,
             NEW answer, answer = (IF \E row \in found : LG!Corrupted(row) THEN {} ELSE {{LG!FromRow(row) : row \in found}})
      PROVE  Answers(answer, own, rows)
    <2>1. CASE \E row \in found : LG!Corrupted(row)
        BY <1>4, <2>1 DEF Answers
    <2>2. CASE ~\E row \in found : LG!Corrupted(row)
        <3>1. {LG!FromRow(row) : row \in found} = own
            BY <1>3, <1>4
        <3> QED  BY <1>4, <2>2, <3>1 DEF Answers
    <2> QED  BY <2>1, <2>2
<1>5. Answers(LG!ListActive(rows, scope), LG!MemoryListActive(back, scope), rows)
    <2> DEFINE found == {row \in rows : LG!InScope(row, scope)}
               own == {b \in back : LG!InScope(b, scope)}
    <2>1. \A row \in rows : row \in found <=> LG!FromRow(row) \in own
        BY <1>2
    <2>2. LG!ListActive(rows, scope) = (IF \E row \in found : LG!Corrupted(row) THEN {} ELSE {{LG!FromRow(row) : row \in found}})
        BY DEF LG!ListActive, LG!Query
    <2>3. found \in SUBSET rows /\ own \in SUBSET back /\ own = LG!MemoryListActive(back, scope)
        BY DEF LG!MemoryListActive
    <2> HIDE DEF found, own
    <2> QED  BY <1>4, <2>1, <2>2, <2>3
<1>6. Answers(LG!ListRecoverable(rows, scope, before), LG!MemoryListRecoverable(back, scope, before), rows)
    <2> DEFINE found == {row \in rows : LG!InScope(row, scope) /\ row.updatedAt <= before}
               own == {b \in back : LG!InScope(b, scope) /\ b.updatedAt <= before}
    <2>1. \A row \in rows : row \in found <=> LG!FromRow(row) \in own
        BY <1>2
    <2>2. LG!ListRecoverable(rows, scope, before)
            = (IF \E row \in found : LG!Corrupted(row) THEN {} ELSE {{LG!FromRow(row) : row \in found}})
        BY DEF LG!ListRecoverable, LG!Query
    <2>3. found \in SUBSET rows /\ own \in SUBSET back /\ own = LG!MemoryListRecoverable(back, scope, before)
        BY DEF LG!MemoryListRecoverable
    <2> HIDE DEF found, own
    <2> QED  BY <1>4, <2>1, <2>2, <2>3
<1>7. Answers(LG!FindByBrokerPositionId(rows, position), LG!MemoryFindByBrokerPositionId(back, position), rows)
    <2> DEFINE found == {row \in rows : row.position = {position}}
               own == {b \in back : b.position = {position}}
    <2>1. \A row \in rows : row \in found <=> LG!FromRow(row) \in own
        BY <1>2
    <2>2. LG!FindByBrokerPositionId(rows, position)
            = (IF \E row \in found : LG!Corrupted(row) THEN {} ELSE {{LG!FromRow(row) : row \in found}})
        BY DEF LG!FindByBrokerPositionId, LG!Query
    <2>3. found \in SUBSET rows /\ own \in SUBSET back /\ own = LG!MemoryFindByBrokerPositionId(back, position)
        BY DEF LG!MemoryFindByBrokerPositionId
    <2> HIDE DEF found, own
    <2> QED  BY <1>4, <2>1, <2>2, <2>3
<1>8. \A r \in records : LG!FromRow(LG!Stored(r, created[r], updated[r])) = ReadBack(r, created[r], updated[r])
    BY <1>1
<1> QED  BY <1>5, <1>6, <1>7, <1>8

\* The entries of two days that follow one another are those of both together, or none of the three is
\* counted; and what a trade became after it was opened does not matter to the count.
THEOREM EntriesAddUp ==
    ASSUME NEW records, RecordsAsked(records), NEW strategy,
           NEW a \in Int, NEW b \in Int, NEW c \in Int, a <= b, b <= c,
           NEW first, first = LG!CountConfirmedEntries(records, strategy, a, b),
           NEW second, second = LG!CountConfirmedEntries(records, strategy, b, c),
           NEW both, both = LG!CountConfirmedEntries(records, strategy, a, c)
    PROVE  \/ first = {} /\ second = {} /\ both = {}
           \/ \E m, n \in Nat : first = {m} /\ second = {n} /\ both = {m + n}
<1> DEFINE own == {r \in records : r.strategy = strategy}
           Unsaid == \E r \in own : r.status \in LG!EverReachedOpen /\ r.openedAt = {}
           E(x, y) == {r \in own : r.openedAt # {} /\ LG!The(r.openedAt) >= x /\ LG!The(r.openedAt) < y}
<1>1. /\ first = IF Unsaid THEN {} ELSE {Cardinality(E(a, b))}
      /\ second = IF Unsaid THEN {} ELSE {Cardinality(E(b, c))}
      /\ both = IF Unsaid THEN {} ELSE {Cardinality(E(a, c))}
    BY LedgerNames DEF LG!CountConfirmedEntries
<1>2. \A r \in records : r.openedAt # {} => LG!The(r.openedAt) \in Int
    BY DEF RecordsAsked, LG!The
<1>3. E(a, c) = E(a, b) \cup E(b, c) /\ E(a, b) \cap E(b, c) = {}
    BY <1>2
<1>4. IsFiniteSet(E(a, b)) /\ IsFiniteSet(E(b, c))
    <2>1. E(a, b) \in SUBSET records /\ E(b, c) \in SUBSET records
        OBVIOUS
    <2> HIDE DEF E, own
    <2> QED  BY <2>1, FS_Subset DEF RecordsAsked
<1> HIDE DEF E, Unsaid, own
<1>5. Cardinality(E(a, b)) \in Nat /\ Cardinality(E(b, c)) \in Nat
    BY <1>4, FS_CardinalityType
<1>6. Cardinality(E(a, c)) = Cardinality(E(a, b)) + Cardinality(E(b, c))
    <2>1. Cardinality({}) = 0
        BY FS_EmptySet
    <2>2. Cardinality(E(a, b) \cup E(b, c)) = Cardinality(E(a, b)) + Cardinality(E(b, c)) - Cardinality(E(a, b) \cap E(b, c))
        BY <1>4, FS_Union
    <2>3. Cardinality(E(a, b) \cap E(b, c)) = 0
        BY <1>3, <2>1
    <2>4. Cardinality(E(a, c)) = Cardinality(E(a, b) \cup E(b, c))
        BY <1>3
    <2> QED  BY <1>5, <2>2, <2>3, <2>4
<1> QED  BY <1>1, <1>5, <1>6

-----------------------------------------------------------------------------
(* The performance table, by what is recorded in it.                       *)

\* A trade has one row, and a row is known by its place.
OneRowEach(table) ==
    /\ \E R : table \in Seq(R)
    /\ \A i, j \in DOMAIN table : table[i].value.trade = table[j].value.trade => i = j
    /\ \A i \in DOMAIN table : table[i].id = i /\ {"updatedAt", "value"} \subseteq DOMAIN table[i]

\* However often a trade is recorded: it keeps one row, with its number and the time it was first recorded, that
\* row says what was recorded last, and no other trade's row is touched.
THEOREM TradesKeepOneRow ==
    ASSUME NEW table, OneRowEach(table), NEW new, NEW now, NEW next, next = LG!UpsertPerformance(table, new, now)
    PROVE  /\ OneRowEach(next)
           /\ \A i \in DOMAIN table : /\ i \in DOMAIN next /\ next[i].id = table[i].id /\ next[i].createdAt = table[i].createdAt
                                      /\ table[i].value.trade # new.trade => next[i] = table[i]
           /\ \E i \in DOMAIN next : next[i].value = new /\ next[i].updatedAt = now
           /\ \A i \in DOMAIN next : i \in DOMAIN table \/ next[i].value = new
<1> DEFINE n == Len(table)
           old == {i \in DOMAIN table : table[i].value.trade = new.trade}
<1>1. PICK R : table \in Seq(R)
    BY DEF OneRowEach
<1>2. n \in Nat /\ DOMAIN table = 1 .. n /\ \A i \in 1 .. n : table[i] \in R
    BY <1>1
<1>3. CASE old = {}
    <2> DEFINE row == [id |-> n + 1, createdAt |-> now, updatedAt |-> now, value |-> new]
    <2>1. next = Append(table, row)
        BY <1>3 DEF LG!UpsertPerformance
    <2>2. row.id = n + 1 /\ row.updatedAt = now /\ row.value = new /\ {"updatedAt", "value"} \subseteq DOMAIN row
        OBVIOUS
    <2> HIDE DEF row
    <2>3. /\ next \in Seq(R \cup {row}) /\ DOMAIN next = 1 .. n + 1
          /\ next[n + 1] = row /\ \A i \in 1 .. n : next[i] = table[i]
        <3>1. table \in Seq(R \cup {row})
            BY <1>2, <1>1
        <3> HIDE DEF n
        <3> QED  BY <1>2, <2>1, <3>1 DEF n
    <2>4. \A i \in 1 .. n + 1 : i \in 1 .. n \/ i = n + 1
        BY <1>2
    <2>5. \A i \in 1 .. n : table[i].value.trade # new.trade
        BY <1>2, <1>3
    <2> HIDE DEF n, old
    <2>6. \A i, j \in DOMAIN next : next[i].value.trade = next[j].value.trade => i = j
        BY <1>2, <2>2, <2>3, <2>4, <2>5 DEF OneRowEach
    <2>7. \A i \in DOMAIN next : next[i].id = i /\ {"updatedAt", "value"} \subseteq DOMAIN next[i]
        BY <1>2, <2>2, <2>3, <2>4 DEF OneRowEach
    <2>8. OneRowEach(next)
        BY <2>3, <2>6, <2>7 DEF OneRowEach
    <2>9. \A i \in DOMAIN table : i \in DOMAIN next /\ next[i] = table[i]
        BY <1>2, <2>3
    <2>10. n + 1 \in DOMAIN next
        BY <1>2, <2>3
    <2> QED  BY <1>2, <2>2, <2>3, <2>4, <2>8, <2>9, <2>10
<1>4. CASE old # {}
    <2>1. PICK k \in DOMAIN table : old = {k}
        <3>1. PICK k \in old : TRUE
            BY <1>4
        <3>2. \A i \in old : i = k
            BY DEF OneRowEach
        <3> QED  BY <3>1, <3>2
    <2>2. LG!The(old) = k /\ table[k].value.trade = new.trade
        BY <2>1 DEF LG!The
    <2> DEFINE row == [table[k] EXCEPT !.updatedAt = now, !.value = new]
    <2>3. next = [table EXCEPT ![k] = row]
        BY <1>2, <1>4, <2>2 DEF LG!UpsertPerformance
    <2>4. row.id = k /\ row.createdAt = table[k].createdAt /\ row.updatedAt = now /\ row.value = new
          /\ {"updatedAt", "value"} \subseteq DOMAIN row
        BY DEF OneRowEach
    <2> HIDE DEF row
    <2>5. /\ next \in Seq(R \cup {row}) /\ DOMAIN next = DOMAIN table
          /\ next[k] = row /\ \A i \in DOMAIN table : i # k => next[i] = table[i]
        <3>1. table \in Seq(R \cup {row})
            BY <1>1, <1>2
        <3> QED  BY <1>2, <2>3, <3>1
    <2>6. \A i \in DOMAIN table : next[i].value.trade = table[i].value.trade
        BY <2>2, <2>4, <2>5
    <2>7. \A i, j \in DOMAIN next : next[i].value.trade = next[j].value.trade => i = j
        BY <2>5, <2>6 DEF OneRowEach
    <2>8. \A i \in DOMAIN next : next[i].id = i /\ {"updatedAt", "value"} \subseteq DOMAIN next[i]
        BY <2>4, <2>5 DEF OneRowEach
    <2>9. OneRowEach(next)
        BY <2>5, <2>7, <2>8 DEF OneRowEach
    <2>10. \A i \in DOMAIN table : next[i].id = table[i].id /\ next[i].createdAt = table[i].createdAt
        BY <2>4, <2>5 DEF OneRowEach
    <2> HIDE DEF old
    <2> QED  BY <2>2, <2>4, <2>5, <2>9, <2>10
<1> QED  BY <1>3, <1>4
=============================================================================
