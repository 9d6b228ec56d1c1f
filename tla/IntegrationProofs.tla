------------------------- MODULE IntegrationProofs -------------------------
(***************************************************************************)
(* Proof that the routes of the integration API tell the truth, for any     *)
(* log, any answers of the broker and any run of the process manager, of    *)
(* every length: the runs ask them of small ones.  What is proved about is  *)
(* the route's answer to an input that satisfies DecisionsAsked,            *)
(* SummaryAsked, SnapshotAsked or RunAsked, which say what the code that    *)
(* writes the log, and the services that answer, guarantee.                 *)
(***************************************************************************)
EXTENDS RulesProofs, IntegrationChecks

-----------------------------------------------------------------------------
(* The integration API.                                                     *)

\* Cardinality is Cardinality under both names.
LEMMA SameCardinality == ASSUME NEW S PROVE IG!Cardinality(S) = Cardinality(S)
BY DEF IG!Cardinality, Cardinality

\* before[i] is what comes before i in a strict order of W.
Ranked(W, before) ==
    /\ before \in [W -> SUBSET W]
    /\ \A i \in W : i \notin before[i]
    /\ \A i, j \in W : i # j => i \in before[j] \/ j \in before[i]
    /\ \A i, j \in W : j \in before[i] => before[j] \subseteq before[i]

\* In a finite set each rank is held by one member.
LEMMA EveryRankIsHeld ==
    ASSUME NEW W, IsFiniteSet(W), NEW before, Ranked(W, before)
    PROVE  /\ Cardinality(W) \in Nat
           /\ \A i \in W : Cardinality(before[i]) \in 0 .. Cardinality(W) - 1
           /\ \A i, j \in W : Cardinality(before[i]) = Cardinality(before[j]) => i = j
           /\ \A k \in 0 .. Cardinality(W) - 1 : \E i \in W : Cardinality(before[i]) = k
<1>1. Cardinality(W) \in Nat
    BY FS_CardinalityType
<1>2. \A i \in W : before[i] \in SUBSET W /\ IsFiniteSet(before[i]) /\ Cardinality(before[i]) \in Nat
    BY FS_Subset, FS_CardinalityType DEF Ranked
<1>3. \A x, y : x \in SUBSET y /\ IsFiniteSet(y) /\ x # y => Cardinality(x) < Cardinality(y)
    <2> SUFFICES ASSUME NEW x, NEW y, x \in SUBSET y, IsFiniteSet(y), x # y PROVE Cardinality(x) < Cardinality(y)
        OBVIOUS
    <2>1. IsFiniteSet(x) /\ Cardinality(x) <= Cardinality(y) /\ Cardinality(x) # Cardinality(y)
        BY FS_Subset
    <2>2. Cardinality(x) \in Nat /\ Cardinality(y) \in Nat
        BY <2>1, FS_CardinalityType
    <2> QED  BY <2>1, <2>2
<1>4. ASSUME NEW i \in W PROVE Cardinality(before[i]) \in 0 .. Cardinality(W) - 1
    <2>1. before[i] # W
        BY DEF Ranked
    <2>2. Cardinality(before[i]) < Cardinality(W)
        BY <1>2, <1>3, <2>1
    <2> QED  BY <1>1, <1>2, <2>2
<1>5. ASSUME NEW i \in W, NEW j \in W, i \in before[j] PROVE Cardinality(before[i]) < Cardinality(before[j])
    <2>1. before[i] \in SUBSET before[j] /\ before[i] # before[j]
        BY <1>5 DEF Ranked
    <2> QED  BY <1>2, <1>3, <2>1
<1>6. ASSUME NEW i \in W, NEW j \in W, Cardinality(before[i]) = Cardinality(before[j]) PROVE i = j
    <2>1. ~(Cardinality(before[i]) < Cardinality(before[j])) /\ ~(Cardinality(before[j]) < Cardinality(before[i]))
        BY <1>2, <1>6
    <2>2. i \notin before[j] /\ j \notin before[i]
        BY <1>5, <2>1
    <2> QED  BY <2>2 DEF Ranked
<1>7. ASSUME NEW V \in SUBSET W, V # {} PROVE \E v \in V : \A j \in V : j \notin before[v]
    <2> DEFINE N == {Cardinality(before[i]) : i \in V}
    <2>1. N \in SUBSET Nat /\ N # {}
        BY <1>2, <1>7
    <2>2. PICK n \in N : \A m \in N : n <= m
        <3> HIDE DEF N
        <3> QED  BY <2>1, Least
    <2>3. PICK v \in V : n = Cardinality(before[v])
        OBVIOUS
    <2>4. ASSUME NEW j \in V, j \in before[v] PROVE FALSE
        <3>1. Cardinality(before[j]) < Cardinality(before[v])
            BY <1>5, <2>4
        <3>2. Cardinality(before[v]) <= Cardinality(before[j])
            BY <2>2, <2>3
        <3> QED  BY <1>2, <3>1, <3>2
    <2> QED  BY <2>4
<1> DEFINE c == Cardinality(W)
           Held(k) == \E i \in W : Cardinality(before[i]) = k
           G == {k \in 0 .. c : k < c => Held(k)}
<1>8. 0 \in G
    <2>1. ASSUME 0 < c PROVE Held(0)
        <3>1. W # {}
            BY <2>1, FS_EmptySet
        <3>2. PICK i \in W : \A j \in W : j \notin before[i]
            BY <1>7, <3>1
        <3>3. before[i] = {}
            BY <1>2, <3>2
        <3> QED  BY <3>3, FS_EmptySet
    <2> HIDE DEF Held
    <2> QED  BY <1>1, <2>1
<1>9. ASSUME NEW k \in 1 .. c, k - 1 \in G PROVE k \in G
    <2>1. ASSUME k < c PROVE Held(k)
        <3>1. k - 1 < c
            BY <1>1, <2>1
        <3>2. PICK i \in W : Cardinality(before[i]) = k - 1
            BY <1>9, <3>1
        <3> DEFINE T == before[i] \cup {i}
                   V == W \ T
        <3>3. IsFiniteSet(T) /\ Cardinality(T) = k /\ T \in SUBSET W
            <4>1. IsFiniteSet(before[i]) /\ before[i] \in SUBSET W /\ i \notin before[i]
                BY <1>2 DEF Ranked
            <4>2. IsFiniteSet(T) /\ Cardinality(T) = (k - 1) + 1
                BY <3>2, <4>1, FS_AddElement
            <4> QED  BY <4>1, <4>2
        <3>4. V # {}
            BY <1>1, <2>1, <3>3
        <3>5. PICK v \in V : \A j \in V : j \notin before[v]
            <4>1. V \in SUBSET W
                OBVIOUS
            <4> HIDE DEF V
            <4> QED  BY <1>7, <3>4, <4>1
        <3>6. before[v] = T
            <4>1. v \in W /\ v # i /\ v \notin before[i]
                OBVIOUS
            <4>2. i \in before[v] /\ before[i] \subseteq before[v]
                BY <4>1 DEF Ranked
            <4>3. \A j \in before[v] : j \in T
                BY <1>2, <3>5, <4>1
            <4> QED  BY <4>2, <4>3
        <3> QED  BY <3>3, <3>6
    <2> HIDE DEF Held
    <2> QED  BY <2>1
<1>10. \A k \in 0 .. c - 1 : Held(k)
    <2>1. 0 .. c \subseteq G
        <3> HIDE DEF G
        <3> QED  BY <1>1, <1>8, <1>9, Upwards
    <2> HIDE DEF Held
    <2> QED  BY <1>1, <2>1
<1> QED  BY <1>1, <1>4, <1>6, <1>10

\* Those of a set of numbers that are larger.
Above(W, i) == {j \in W : j > i}

\* Among the first n numbers each rank is held by one member of a set.
LEMMA RanksAreHeld ==
    ASSUME NEW n \in Nat, NEW W \in SUBSET (1 .. n)
    PROVE  /\ IsFiniteSet(W) /\ Cardinality(W) \in Nat
           /\ \A i \in W : Cardinality(Above(W, i)) \in 0 .. Cardinality(W) - 1
           /\ \A i, j \in W : Cardinality(Above(W, i)) = Cardinality(Above(W, j)) => i = j
           /\ \A k \in 0 .. Cardinality(W) - 1 : \E i \in W : Cardinality(Above(W, i)) = k
<1> DEFINE before == [i \in W |-> Above(W, i)]
<1>1. IsFiniteSet(W) /\ W \subseteq Int
    <2>1. IsFiniteSet(1 .. n)
        BY FS_Interval
    <2>2. IsFiniteSet(W)
        BY <2>1, FS_Subset
    <2> QED  BY <2>2
<1>2. Ranked(W, before)
    <2>1. before \in [W -> SUBSET W]
        BY DEF Above
    <2>2. \A i, j \in W : j \in before[i] <=> j > i
        BY DEF Above
    <2>3. \A i, j \in W : j \in before[i] => before[j] \subseteq before[i]
        <3>1. \A i, j, k \in W : j > i /\ k > j => k > i
            BY <1>1
        <3> HIDE DEF before
        <3> QED  BY <2>1, <2>2, <3>1
    <2> HIDE DEF before
    <2>4. \A i, j \in W : ~(i > i) /\ (i # j => i > j \/ j > i)
        BY <1>1
    <2> QED  BY <2>1, <2>2, <2>3, <2>4 DEF Ranked
<1>3. \A i \in W : before[i] = Above(W, i)
    OBVIOUS
<1> HIDE DEF before
<1>4. /\ Cardinality(W) \in Nat
      /\ \A i \in W : Cardinality(before[i]) \in 0 .. Cardinality(W) - 1
      /\ \A i, j \in W : Cardinality(before[i]) = Cardinality(before[j]) => i = j
      /\ \A k \in 0 .. Cardinality(W) - 1 : \E i \in W : Cardinality(before[i]) = k
    BY <1>1, <1>2, EveryRankIsHeld
<1> QED  BY <1>1, <1>3, <1>4

\* Those members of W that fewer than limit others are above of.
Uppermost(W, limit, U) == U \in SUBSET W /\ \A i \in W : i \in U <=> Cardinality(Above(W, i)) < limit

\* The upper ranks of a set are those of its upper members.
LEMMA UpperRanks ==
    ASSUME NEW n \in Nat, NEW W \in SUBSET (1 .. n), NEW limit \in Nat, NEW U, Uppermost(W, limit, U)
    PROVE  /\ U \in SUBSET (1 .. n)
           /\ \A i \in U : Above(U, i) = Above(W, i)
           /\ Cardinality(U) = IF limit < Cardinality(W) THEN limit ELSE Cardinality(W)
<1>0. U \in SUBSET W /\ \A i \in W : i \in U <=> Cardinality(Above(W, i)) < limit
    BY DEF Uppermost
<1>1. W \subseteq Int /\ U \in SUBSET W /\ U \in SUBSET (1 .. n)
    BY <1>0
<1>2. /\ IsFiniteSet(W) /\ Cardinality(W) \in Nat
      /\ \A i \in W : Cardinality(Above(W, i)) \in 0 .. Cardinality(W) - 1
      /\ \A k \in 0 .. Cardinality(W) - 1 : \E i \in W : Cardinality(Above(W, i)) = k
    BY RanksAreHeld
<1>3. /\ IsFiniteSet(U) /\ Cardinality(U) \in Nat
      /\ \A i \in U : Cardinality(Above(U, i)) \in 0 .. Cardinality(U) - 1
      /\ \A k \in 0 .. Cardinality(U) - 1 : \E i \in U : Cardinality(Above(U, i)) = k
    <2>1. U \in SUBSET (1 .. n)
        BY <1>1
    <2> QED  BY <2>1, RanksAreHeld
<1>4. ASSUME NEW i \in W, NEW j \in W, i < j PROVE Cardinality(Above(W, j)) <= Cardinality(Above(W, i))
    <2>1. \A k \in W : k > j => k > i
        BY <1>1, <1>4
    <2>2. Above(W, j) \in SUBSET Above(W, i) /\ Above(W, i) \in SUBSET W
        BY <2>1 DEF Above
    <2>3. IsFiniteSet(Above(W, i))
        BY <1>2, <2>2, FS_Subset
    <2> QED  BY <2>2, <2>3, FS_Subset
<1>5. ASSUME NEW i \in U PROVE Above(U, i) = Above(W, i)
    <2>1. ASSUME NEW j \in W, i < j PROVE j \in U
        <3>1. Cardinality(Above(W, j)) <= Cardinality(Above(W, i)) /\ Cardinality(Above(W, i)) < limit
            BY <1>0, <1>4, <2>1
        <3>2. Cardinality(Above(W, j)) \in Int /\ Cardinality(Above(W, i)) \in Int
            BY <1>0, <1>2
        <3> QED  BY <1>0, <3>1, <3>2
    <2> QED  BY <1>1, <2>1 DEF Above
<1>6. Cardinality(U) <= Cardinality(W)
    BY <1>1, <1>2, FS_Subset
<1>7. Cardinality(U) <= limit
    <2>1. ASSUME limit < Cardinality(U) PROVE FALSE
        <3>1. limit \in 0 .. Cardinality(U) - 1
            BY <1>3, <2>1
        <3>2. PICK i \in U : Cardinality(Above(U, i)) = limit
            BY <1>3, <3>1
        <3> QED  BY <1>0, <1>5, <3>2
    <2> QED  BY <1>3, <2>1
<1>8. ASSUME Cardinality(U) < limit, Cardinality(U) < Cardinality(W) PROVE FALSE
    <2>1. Cardinality(U) \in 0 .. Cardinality(W) - 1
        BY <1>2, <1>3, <1>8
    <2>2. PICK i \in W : Cardinality(Above(W, i)) = Cardinality(U)
        BY <1>2, <2>1
    <2>3. i \in U
        BY <1>0, <1>8, <2>2
    <2>4. Cardinality(Above(U, i)) < Cardinality(U)
        BY <1>3, <2>3
    <2> QED  BY <1>3, <1>5, <2>2, <2>3, <2>4
<1> QED  BY <1>1, <1>2, <1>3, <1>5, <1>6, <1>7, <1>8

\* The latest and the earliest of some of the first n numbers.
LEMMA EndsAreThere ==
    ASSUME NEW n \in Nat, NEW W \in SUBSET (1 .. n), W # {}
    PROVE  /\ IG!Latest(W) \in W /\ \A j \in W : j <= IG!Latest(W)
           /\ IG!Earliest(W) \in W /\ \A j \in W : IG!Earliest(W) <= j
<1>1. \E i \in W : \A j \in W : j <= i
    <2>1. Max(W) \in W /\ \A j \in W : j <= Max(W)
        BY LargestIsThere
    <2> QED  BY <2>1
<1>2. \E i \in W : \A j \in W : i <= j
    <2>1. W \in SUBSET Nat
        OBVIOUS
    <2> QED  BY <2>1, Least
<1> QED  BY <1>1, <1>2 DEF IG!Latest, IG!Earliest

\* A log whose events are in the order of their times.
ProperLog(log) ==
    /\ \E E : log \in Seq(E)
    /\ \A k \in DOMAIN log : log[k].at \in Nat /\ \A j \in 1 .. k : log[j].at <= log[k].at

Statuses == {"TRADE_CANDIDATE_APPROVED", "TRADE_CANDIDATE_REJECTED", "TRADE_CANDIDATE_EXPIRED",
             "TRADE_CANDIDATE_EXECUTION_FAILED", "TRADE_CANDIDATE_EXECUTED"}

\* The log of a runtime that records its decisions per instrument: a candidate is created once, and
\* none of its steps follows its execution or ended it before.
RecordedLog(log) ==
    /\ \E k \in DOMAIN log : log[k].type = "HERMES_INSTRUMENT_DECISION_RECORDED"
    /\ \A k \in DOMAIN log :
          /\ log[k].type # "MARKET_DECISION_RECEIVED"
          /\ \A c, d \in log[k].candidate : c = d
          /\ log[k].type = "HERMES_INSTRUMENT_DECISION_RECORDED" =>
                log[k].action \in {"BUY", "SELL", "HOLD"} /\ \E s : log[k].instrument = {s}
    /\ \A j, k \in DOMAIN log : log[j].candidate # {} /\ log[j].candidate = log[k].candidate /\ j # k =>
          /\ ~(log[j].type = "TRADE_CANDIDATE_CREATED" /\ log[k].type = "TRADE_CANDIDATE_CREATED")
          /\ log[j].type = "TRADE_CANDIDATE_EXECUTED" /\ log[k].type \in Statuses =>
                k < j /\ log[k].type \in {"TRADE_CANDIDATE_APPROVED", "TRADE_CANDIDATE_EXECUTED"}

\* What a query for decisions may ask of.
DecisionsAsked(i) ==
    /\ i = [log |-> i.log, limit |-> i.limit] /\ i.limit \in Nat \ {0}
    /\ ProperLog(i.log) /\ RecordedLog(i.log)

\* Of such a log the newest events come in the order of their places.
LEMMA NewestByPlace ==
    ASSUME NEW log, ProperLog(log), NEW W \in SUBSET (DOMAIN log)
    PROVE  /\ IsFiniteSet(W) /\ Cardinality(W) \in Nat
           /\ DOMAIN IG!NewestFirst(log, W) = 1 .. Cardinality(W)
           /\ \A k \in 1 .. Cardinality(W) :
                 /\ IG!NewestFirst(log, W)[k] \in W
                 /\ Cardinality(Above(W, IG!NewestFirst(log, W)[k])) = k - 1
<1>1. Len(log) \in Nat /\ DOMAIN log = 1 .. Len(log)
    BY DEF ProperLog
<1>2. /\ IsFiniteSet(W) /\ Cardinality(W) \in Nat
      /\ \A k \in 0 .. Cardinality(W) - 1 : \E i \in W : Cardinality(Above(W, i)) = k
    BY <1>1, RanksAreHeld
<1>3. ASSUME NEW i \in DOMAIN log, NEW j \in DOMAIN log PROVE IG!Newer(log, j, i) <=> j > i
    <2>1. i \in Nat /\ j \in Nat /\ log[i].at \in Nat /\ log[j].at \in Nat
        BY <1>1 DEF ProperLog
    <2>2. CASE j > i
        <3>1. log[i].at <= log[j].at
            BY <1>1, <2>1, <2>2 DEF ProperLog
        <3> QED  BY <2>1, <2>2, <3>1 DEF IG!Newer
    <2>3. CASE ~(j > i)
        <3>1. log[j].at <= log[i].at
            BY <1>1, <2>1, <2>3 DEF ProperLog
        <3> QED  BY <2>1, <2>3, <3>1 DEF IG!Newer
    <2> QED  BY <2>2, <2>3
<1>4. \A i \in W : {j \in W : IG!Newer(log, j, i)} = Above(W, i)
    BY <1>3 DEF Above
<1>5. ASSUME NEW k \in 1 .. Cardinality(W)
      PROVE  IG!NewestFirst(log, W)[k] \in W /\ Cardinality(Above(W, IG!NewestFirst(log, W)[k])) = k - 1
    <2> DEFINE P(i) == Cardinality({j \in W : IG!Newer(log, j, i)}) = k - 1
    <2>1. IG!NewestFirst(log, W)[k] = IG!AtRank(log, W, k) /\ IG!AtRank(log, W, k) = CHOOSE i \in W : P(i)
        BY SameCardinality DEF IG!NewestFirst, IG!AtRank
    <2>2. \E i \in W : P(i)
        <3>1. k - 1 \in 0 .. Cardinality(W) - 1
            BY <1>2
        <3>2. PICK i \in W : Cardinality(Above(W, i)) = k - 1
            BY <1>2, <3>1
        <3> QED  BY <1>4, <3>2
    <2>3. \A i \in W : P(i) => Cardinality(Above(W, i)) = k - 1
        BY <1>4
    <2> HIDE DEF P
    <2> QED  BY <2>1, <2>2, <2>3
<1>6. DOMAIN IG!NewestFirst(log, W) = 1 .. Cardinality(W)
    BY SameCardinality DEF IG!NewestFirst
<1> QED  BY <1>2, <1>5, <1>6

\* A list of the newest of some decisions, at most limit of them.
Lists(log, D, limit, list) ==
    \E U : /\ Uppermost(D, limit, U)
          /\ list = [k \in 1 .. Cardinality(U) |-> IG!DescribeDecision(log, D, IG!NewestFirst(log, U)[k])]

\* What the query without filters returns of such a log.
LEMMA ListedAsRecorded ==
    ASSUME NEW log, NEW limit \in Nat, ProperLog(log), RecordedLog(log),
           NEW D, D = {i \in DOMAIN log : log[i].type = "HERMES_INSTRUMENT_DECISION_RECORDED"},
           NEW list, list = IG!ListDecisions(log, [limit |-> limit, symbol |-> {}, outcome |-> {}, since |-> 0])
    PROVE  Lists(log, D, limit, list)
<1> DEFINE filters == [limit |-> limit, symbol |-> {}, outcome |-> {}, since |-> 0]
           wanted == {i \in D : IG!Wanted(log[i], IG!Symbol(log[i]), filters)}
           U == {i \in wanted : IG!Cardinality({j \in wanted : j > i}) < filters.limit}
<1>1. {i \in IG!Indices(log, IG!DecisionSourceTypes(log)) : log[i].action \in {"BUY", "SELL", "HOLD"}} = D
    <2>1. IG!Indices(log, {"HERMES_INSTRUMENT_DECISION_RECORDED"}) # {}
        BY DEF RecordedLog, IG!Indices
    <2>2. IG!DecisionSourceTypes(log) = {"MARKET_DECISION_RECEIVED", "HERMES_INSTRUMENT_DECISION_RECORDED"}
        BY <2>1 DEF IG!DecisionSourceTypes
    <2> QED  BY <2>2 DEF IG!Indices, RecordedLog
<1>2. wanted = D
    <2>1. \A i \in D : log[i].at \in Nat
        BY DEF ProperLog
    <2>2. \A i \in D : IG!Wanted(log[i], IG!Symbol(log[i]), filters)
        BY <2>1 DEF IG!Wanted
    <2> QED  BY <2>2
<1>3. list = [k \in DOMAIN IG!NewestFirst(log, U) |-> IG!DescribeDecision(log, D, IG!NewestFirst(log, U)[k])]
    BY <1>1 DEF IG!ListDecisions
<1>4. Uppermost(D, limit, U)
    BY <1>2, SameCardinality DEF Above, Uppermost
<1> HIDE DEF U
<1>5. DOMAIN IG!NewestFirst(log, U) = 1 .. Cardinality(U)
    BY SameCardinality DEF IG!NewestFirst
<1> QED  BY <1>3, <1>4, <1>5 DEF Lists

\* What is said of a decision: its candidate was created for its symbol in its time, is executed
\* if the log says so anywhere, and closed only with the profit a closure was logged with.
SaidOf(log, from, boundary, symbol, r) ==
    /\ r.candidate # {} =>
          /\ \E i \in DOMAIN log : /\ log[i].type = "TRADE_CANDIDATE_CREATED" /\ log[i].candidate = r.candidate
                                   /\ from < i /\ i < boundary /\ log[i].instrument = {symbol}
          /\ r.executed <=> \E i \in DOMAIN log : log[i].type = "TRADE_CANDIDATE_EXECUTED" /\ log[i].candidate = r.candidate
    /\ r.status = "CLOSED" =>
          \E i \in DOMAIN log : /\ log[i].type = "TRADE_CLOSED" /\ log[i].pnl = r.pnl
                                /\ r.candidate # {} => log[i].record = r.record

\* A candidate is followed to the end.
LEMMA FollowedToTheEnd ==
    ASSUME NEW log, ProperLog(log), RecordedLog(log), NEW c, NEW r, r = IG!FollowCandidate(log, c)
    PROVE  /\ r.candidate = {c}
           /\ r.executed <=> \E i \in DOMAIN log : log[i].type = "TRADE_CANDIDATE_EXECUTED" /\ log[i].candidate = {c}
           /\ r.status = "CLOSED" => \E i \in DOMAIN log : log[i].type = "TRADE_CLOSED" /\ log[i].pnl = r.pnl /\ log[i].record = r.record
<1> DEFINE steps  == IG!Transitions(log, c)
           own    == {i \in DOMAIN log : log[i].type \in Statuses /\ log[i].candidate = {c}}
           status == IF steps = {} THEN "PENDING" ELSE IG!StatusAfter[log[IG!Latest(steps)].type]
           closes == {i \in IG!Indices(log, {"TRADE_CLOSED"}) : log[i].record # {} /\ log[i].record = r.record}
           closed == status = "OPENED" /\ closes # {}
<1>1. Len(log) \in Nat /\ DOMAIN log = 1 .. Len(log)
    BY DEF ProperLog
<1>2. /\ DOMAIN IG!StatusAfter = Statuses
      /\ \A t \in Statuses : /\ IG!StatusAfter[t] = "OPENED" <=> t = "TRADE_CANDIDATE_EXECUTED"
                             /\ IG!StatusAfter[t] # "CLOSED"
                             /\ t \in {"TRADE_CANDIDATE_APPROVED", "TRADE_CANDIDATE_EXECUTED"}
                                   => IG!StatusAfter[t] \notin {"REJECTED", "EXPIRED", "FAILED"}
    BY DEF IG!StatusAfter, Statuses
<1>3. steps = {i \in own : \A t \in own : IG!StatusAfter[log[t].type] \in {"REJECTED", "EXPIRED", "FAILED"} => i <= t}
    <2>1. {i \in IG!Indices(log, DOMAIN IG!StatusAfter) : log[i].candidate = {c}} = own
        BY <1>2 DEF IG!Indices
    <2> HIDE DEF own
    <2> QED  BY <2>1 DEF IG!Transitions
<1>4. /\ r.candidate = {c} /\ r.executed = (status = "OPENED")
      /\ r.status = IF closed THEN "CLOSED" ELSE status
      /\ r.pnl = IF closed THEN log[IG!Latest(closes)].pnl ELSE {}
    BY DEF IG!FollowCandidate
<1> HIDE DEF steps
<1>5. steps \in SUBSET (1 .. Len(log)) /\ steps \in SUBSET own /\ \A i \in own : log[i].type \in Statuses /\ log[i].candidate = {c}
    BY <1>1, <1>3
<1>6. steps # {} => IG!Latest(steps) \in steps /\ \A j \in steps : j <= IG!Latest(steps)
    BY <1>1, <1>5, EndsAreThere
<1>7. ASSUME NEW i \in own, log[i].type = "TRADE_CANDIDATE_EXECUTED" PROVE steps # {} /\ IG!Latest(steps) = i
    <2>1. \A k \in own : k # i => k < i /\ log[k].type \in {"TRADE_CANDIDATE_APPROVED", "TRADE_CANDIDATE_EXECUTED"}
        BY <1>7 DEF RecordedLog
    <2>2. i \in steps
        <3>1. \A t \in own : IG!StatusAfter[log[t].type] \notin {"REJECTED", "EXPIRED", "FAILED"}
            <4>1. \A t \in own : log[t].type \in Statuses /\ log[t].type \in {"TRADE_CANDIDATE_APPROVED", "TRADE_CANDIDATE_EXECUTED"}
                BY <1>5, <1>7, <2>1
            <4> HIDE DEF own
            <4> QED  BY <1>2, <4>1
        <3> HIDE DEF own
        <3> QED  BY <1>3, <3>1
    <2>3. IG!Latest(steps) \in own /\ i <= IG!Latest(steps)
        BY <1>5, <1>6, <2>2
    <2>4. i \in Int /\ IG!Latest(steps) \in Int
        BY <1>1, <1>5, <1>6, <2>2
    <2> HIDE DEF own
    <2> QED  BY <2>1, <2>2, <2>3, <2>4
<1>8. status = "OPENED" <=> \E i \in own : log[i].type = "TRADE_CANDIDATE_EXECUTED"
    <2>1. ASSUME NEW i \in own, log[i].type = "TRADE_CANDIDATE_EXECUTED" PROVE status = "OPENED"
        BY <1>2, <1>5, <1>7, <2>1
    <2>2. ASSUME status = "OPENED" PROVE \E i \in own : log[i].type = "TRADE_CANDIDATE_EXECUTED"
        <3>1. steps # {}
            BY <2>2
        <3>2. IG!Latest(steps) \in own /\ log[IG!Latest(steps)].type \in Statuses
            BY <1>5, <1>6, <3>1
        <3> HIDE DEF own
        <3> QED  BY <1>2, <2>2, <3>1, <3>2
    <2> QED  BY <2>1, <2>2
<1>9. (\E i \in own : log[i].type = "TRADE_CANDIDATE_EXECUTED")
         <=> \E i \in DOMAIN log : log[i].type = "TRADE_CANDIDATE_EXECUTED" /\ log[i].candidate = {c}
    BY DEF Statuses
<1>10. status # "CLOSED"
    <2>1. steps # {} => log[IG!Latest(steps)].type \in Statuses
        BY <1>5, <1>6
    <2> HIDE DEF own
    <2> QED  BY <1>2, <2>1
<1>11. ASSUME r.status = "CLOSED"
       PROVE  \E i \in DOMAIN log : log[i].type = "TRADE_CLOSED" /\ log[i].pnl = r.pnl /\ log[i].record = r.record
    <2>1. closed
        BY <1>4, <1>10, <1>11
    <2>2. closes \in SUBSET (1 .. Len(log)) /\ closes # {}
        BY <1>1, <2>1 DEF IG!Indices
    <2>3. IG!Latest(closes) \in closes
        <3> HIDE DEF closes
        <3> QED  BY <1>1, <2>2, EndsAreThere
    <2>4. r.pnl = log[IG!Latest(closes)].pnl
        BY <1>4, <2>1
    <2> QED  BY <2>3, <2>4 DEF IG!Indices
<1> HIDE DEF status
<1> QED  BY <1>4, <1>8, <1>9, <1>11

\* What the older pipeline did with a decision.
LEMMA LegacyFits ==
    ASSUME NEW log, ProperLog(log), NEW i, NEW symbol, NEW r, r = IG!CorrelateViaLegacyImmediateExecution(log, i, symbol)
    PROVE  r.candidate = {} /\ (r.status = "CLOSED" => \E k \in DOMAIN log : log[k].type = "TRADE_CLOSED" /\ log[k].pnl = r.pnl)
<1> DEFINE outcome == [TRADE_RISK_REJECTED |-> "RISK_REJECTED", TRADE_OPENED |-> "OPENED", TRADE_CLOSED |-> "CLOSED",
                       TRADE_EXECUTION_FAILED |-> "EXECUTION_FAILED", TRADE_CLOSE_FAILED |-> "CLOSE_FAILED",
                       EXECUTION_SKIPPED |-> "SKIPPED"]
           window  == {k \in DOMAIN log : k \in i + 1 .. i + 8}
           ends    == window \cap IG!Indices(log, {"TRADING_CYCLE_COMPLETED", "TRADING_CYCLE_FAILED"})
           found   == {k \in window \cap IG!Indices(log, DOMAIN outcome) :
                           log[k].instrument = {symbol} /\ \A e \in ends : k < e}
           event   == log[IG!Earliest(found)]
<1>1. r = IF found = {} THEN IG!Unexecuted("unknown")
          ELSE [IG!Unexecuted(outcome[event.type]) EXCEPT
                  !.executed = event.type \in {"TRADE_OPENED", "TRADE_CLOSED"},
                  !.pnl = IF event.type = "TRADE_CLOSED" THEN event.pnl ELSE {}]
    BY DEF IG!CorrelateViaLegacyImmediateExecution
<1>2. found \in SUBSET (1 .. Len(log)) /\ Len(log) \in Nat /\ \A k \in found : k \in DOMAIN log /\ log[k].type \in DOMAIN outcome
    BY DEF ProperLog, IG!Indices
<1>3. \A t \in DOMAIN outcome : outcome[t] = "CLOSED" <=> t = "TRADE_CLOSED"
    OBVIOUS
<1> HIDE DEF found, outcome
<1>4. CASE found = {}
    BY <1>1, <1>4 DEF IG!Unexecuted
<1>5. CASE found # {}
    <2>1. IG!Earliest(found) \in found
        BY <1>2, <1>5, EndsAreThere
    <2>2. /\ r.candidate = {} /\ r.status = outcome[event.type]
          /\ r.pnl = IF event.type = "TRADE_CLOSED" THEN event.pnl ELSE {}
        BY <1>1, <1>5 DEF IG!Unexecuted
    <2> QED  BY <1>2, <1>3, <2>1, <2>2
<1> QED  BY <1>4, <1>5

\* What is derived for a decision.
LEMMA DerivedFits ==
    ASSUME NEW log, ProperLog(log), RecordedLog(log), NEW i, NEW boundary, NEW symbol, NEW action,
           NEW r, r = IG!DeriveExecutionResult(log, i, boundary, symbol, action)
    PROVE  SaidOf(log, i, boundary, symbol, r)
<1> DEFINE within  == {k \in DOMAIN log : i < k /\ k < boundary /\ log[k].instrument = {symbol}}
           created == {k \in within : log[k].type = "TRADE_CANDIDATE_CREATED" /\ log[k].candidate # {}}
           reasons == {k \in within : log[k].type \in {"KILL_SWITCH_ENTRY_BLOCKED", "DUPLICATE_ENTRY_SUPPRESSED"}
                                        /\ log[k].candidate = {}}
           c       == CHOOSE d \in log[IG!Earliest(created)].candidate : TRUE
           legacy  == IG!CorrelateViaLegacyImmediateExecution(log, i, symbol)
<1>1. \/ r = IG!Unexecuted("HOLD")
      \/ created # {} /\ r = IG!FollowCandidate(log, c)
      \/ r = IG!Unexecuted("SUPPRESSED")
      \/ r = IG!Unexecuted("BLOCKED")
      \/ r = legacy
    BY DEF IG!DeriveExecutionResult
<1>2. created \in SUBSET (1 .. Len(log)) /\ Len(log) \in Nat
    BY DEF ProperLog
<1>3. \A k \in created : /\ k \in DOMAIN log /\ i < k /\ k < boundary /\ log[k].instrument = {symbol}
                         /\ log[k].type = "TRADE_CANDIDATE_CREATED" /\ log[k].candidate # {}
    OBVIOUS
<1> HIDE DEF created, legacy
<1>4. CASE r \in {IG!Unexecuted("HOLD"), IG!Unexecuted("SUPPRESSED"), IG!Unexecuted("BLOCKED")}
    BY <1>4 DEF IG!Unexecuted, SaidOf
<1>5. CASE r = legacy
    BY <1>5, LegacyFits DEF legacy, SaidOf
<1>6. CASE created # {} /\ r = IG!FollowCandidate(log, c)
    <2>1. IG!Earliest(created) \in created
        BY <1>2, <1>6, EndsAreThere
    <2>2. log[IG!Earliest(created)].candidate = {c}
        BY <1>3, <2>1 DEF RecordedLog
    <2> HIDE DEF c
    <2>3. /\ r.candidate = {c}
          /\ r.executed <=> \E k \in DOMAIN log : log[k].type = "TRADE_CANDIDATE_EXECUTED" /\ log[k].candidate = {c}
          /\ r.status = "CLOSED" => \E k \in DOMAIN log : log[k].type = "TRADE_CLOSED" /\ log[k].pnl = r.pnl /\ log[k].record = r.record
        BY <1>6, FollowedToTheEnd
    <2> QED  BY <1>3, <2>1, <2>2, <2>3 DEF SaidOf
<1> QED  BY <1>1, <1>4, <1>5, <1>6

\* d is what is said of decision i, in its own time.
Described(log, D, i, d) ==
    /\ d.decision = i
    /\ \E b \in Nat : /\ \A j \in D : j > i /\ log[j].instrument = {d.symbol} => b <= j
                      /\ SaidOf(log, i, b, d.symbol, d.result)

\* What is shown of a decision is of its own time, up to the next decision for its symbol.
LEMMA DescribedFits ==
    ASSUME NEW log, ProperLog(log), RecordedLog(log),
           NEW D, D = {k \in DOMAIN log : log[k].type = "HERMES_INSTRUMENT_DECISION_RECORDED"},
           NEW i \in D, NEW d, d = IG!DescribeDecision(log, D, i)
    PROVE  Described(log, D, i, d)
<1> DEFINE symbol == IG!Symbol(log[i])
           later  == {j \in D : j > i /\ IG!Symbol(log[j]) = symbol}
           n == Len(log)
           boundary == IF later = {} THEN n + 1 ELSE IG!Earliest(later)
<1>1. d.decision = i /\ d.symbol = symbol
      /\ d.result = IG!DeriveExecutionResult(log, i, boundary, symbol, log[i].action)
    BY DEF IG!DescribeDecision
<1>2. SaidOf(log, i, boundary, d.symbol, d.result)
    <2> HIDE DEF boundary, symbol
    <2> QED  BY <1>1, DerivedFits
<1>3. \A j \in D : log[j].instrument = {symbol} => IG!Symbol(log[j]) = symbol
    BY DEF IG!Symbol
<1>4. n \in Nat /\ later \in SUBSET (1 .. n)
    BY DEF ProperLog
<1>5. boundary \in Nat /\ \A j \in later : boundary <= j
    <2> HIDE DEF later, n
    <2>1. CASE later = {}
        BY <1>4, <2>1
    <2>2. CASE later # {}
        <3>1. IG!Earliest(later) \in later /\ \A j \in later : IG!Earliest(later) <= j
            BY <1>4, <2>2, EndsAreThere
        <3>2. IG!Earliest(later) \in Nat
            <4>1. 1 .. n \subseteq Nat
                BY <1>4
            <4> QED  BY <1>4, <3>1, <4>1
        <3>3. boundary = IG!Earliest(later)
            BY <2>2
        <3> HIDE DEF boundary
        <3> QED  BY <3>1, <3>2, <3>3
    <2> QED  BY <2>1, <2>2
<1>6. \A j \in D : j > i /\ log[j].instrument = {symbol} => j \in later
    BY <1>3
<1> HIDE DEF later, boundary
<1>7. \A j \in D : j > i /\ log[j].instrument = {d.symbol} => boundary <= j
    BY <1>1, <1>5, <1>6
<1> QED  BY <1>1, <1>2, <1>5, <1>7 DEF Described

\* Each decision is shown with its own outcome.
LEMMA OutcomesAreOwn ==
    ASSUME topic = "decisions" => DecisionsAsked(input) /\ output = Listed(input)
    PROVE  OutcomeIsOwn
<1> SUFFICES ASSUME topic = "decisions" PROVE OutcomeIsOwn
    BY DEF OutcomeIsOwn
<1> DEFINE log == input.log
           D == {k \in DOMAIN log : log[k].type = "HERMES_INSTRUMENT_DECISION_RECORDED"}
           shown == {output[k] : k \in DOMAIN output}
           Makes(d, i) == /\ log[i].type = "TRADE_CANDIDATE_CREATED" /\ log[i].candidate = d.result.candidate
                          /\ d.decision < i /\ log[i].instrument = {d.symbol}
                          /\ \A j \in d.decision + 1 .. i - 1 :
                                ~(log[j].type = "HERMES_INSTRUMENT_DECISION_RECORDED" /\ log[j].instrument = {d.symbol})
<1>1. ProperLog(log) /\ RecordedLog(log) /\ input.limit \in Nat
    BY DEF DecisionsAsked
<1>2. Len(log) \in Nat /\ DOMAIN log = 1 .. Len(log)
    BY <1>1 DEF ProperLog
<1>3. PICK U \in SUBSET D : output = [k \in 1 .. Cardinality(U) |-> IG!DescribeDecision(log, D, IG!NewestFirst(log, U)[k])]
    <2>1. output = IG!ListDecisions(log, [limit |-> input.limit, symbol |-> {}, outcome |-> {}, since |-> 0])
        BY DEF Listed
    <2> HIDE DEF log, D
    <2>2. D = {k \in DOMAIN log : log[k].type = "HERMES_INSTRUMENT_DECISION_RECORDED"}
        BY DEF D
    <2>3. Lists(log, D, input.limit, output)
        BY <1>1, <2>1, <2>2, ListedAsRecorded
    <2> QED  BY <2>3 DEF Lists, Uppermost
<1>4. \A d \in shown : \E i \in D : d = IG!DescribeDecision(log, D, i)
    <2>1. \A k \in 1 .. Cardinality(U) : IG!NewestFirst(log, U)[k] \in U
        <3>1. U \in SUBSET (DOMAIN log)
            OBVIOUS
        <3> HIDE DEF log, D
        <3> QED  BY <1>1, <3>1, NewestByPlace
    <2> HIDE DEF log, D
    <2> QED  BY <1>3, <2>1
<1>5. ASSUME NEW d \in shown
      PROVE  /\ d.decision \in D /\ d = IG!DescribeDecision(log, D, d.decision)
             /\ \E b \in Nat : /\ \A j \in D : j > d.decision /\ log[j].instrument = {d.symbol} => b <= j
                               /\ SaidOf(log, d.decision, b, d.symbol, d.result)
    <2>1. PICK i \in D : d = IG!DescribeDecision(log, D, i)
        BY <1>4
    <2>2. D = {k \in DOMAIN log : log[k].type = "HERMES_INSTRUMENT_DECISION_RECORDED"}
        OBVIOUS
    <2> HIDE DEF log, D, shown
    <2>3. Described(log, D, i, d)
        BY <1>1, <2>1, <2>2, DescribedFits
    <2> QED  BY <2>1, <2>3 DEF Described
<1> HIDE DEF shown
<1>6. ASSUME NEW d \in shown, d.result.candidate # {} PROVE \E i \in DOMAIN log : Makes(d, i)
    <2>1. PICK b \in Nat : /\ \A j \in D : j > d.decision /\ log[j].instrument = {d.symbol} => b <= j
                           /\ SaidOf(log, d.decision, b, d.symbol, d.result)
        BY <1>5
    <2>2. PICK i \in DOMAIN log : /\ log[i].type = "TRADE_CANDIDATE_CREATED" /\ log[i].candidate = d.result.candidate
                                  /\ d.decision < i /\ i < b /\ log[i].instrument = {d.symbol}
        BY <1>6, <2>1 DEF SaidOf
    <2>3. ASSUME NEW j \in d.decision + 1 .. i - 1, log[j].type = "HERMES_INSTRUMENT_DECISION_RECORDED",
                 log[j].instrument = {d.symbol}
          PROVE  FALSE
        <3>1. d.decision \in 1 .. Len(log) /\ i \in 1 .. Len(log)
            BY <1>2, <1>5
        <3>2. j \in 1 .. Len(log) /\ j > d.decision /\ j < i
            BY <1>2, <3>1
        <3>3. j \in D
            BY <1>2, <2>3, <3>2
        <3>4. b <= j
            BY <2>1, <2>3, <3>2, <3>3
        <3> QED  BY <2>2, <3>1, <3>2, <3>4
    <2> QED  BY <2>2, <2>3
<1>7. ASSUME NEW d \in shown, NEW e \in shown, d.result.candidate # {}, d.result.candidate = e.result.candidate PROVE d = e
    <2>1. PICK i \in DOMAIN log : Makes(d, i)
        BY <1>6, <1>7
    <2>2. PICK k \in DOMAIN log : Makes(e, k)
        BY <1>6, <1>7
    <2>3. i = k
        BY <1>1, <1>7, <2>1, <2>2 DEF RecordedLog
    <2>4. {d.symbol} = {e.symbol}
        BY <2>1, <2>2, <2>3
    <2>5. /\ d.decision \in 1 .. Len(log) /\ e.decision \in 1 .. Len(log) /\ i \in 1 .. Len(log)
          /\ log[d.decision].type = "HERMES_INSTRUMENT_DECISION_RECORDED"
          /\ log[e.decision].type = "HERMES_INSTRUMENT_DECISION_RECORDED"
        BY <1>2, <1>5
    <2>6. log[d.decision].instrument = {d.symbol} /\ log[e.decision].instrument = {e.symbol}
        <3>1. \A m \in DOMAIN log : log[m].type = "HERMES_INSTRUMENT_DECISION_RECORDED" => log[m].instrument = {IG!Symbol(log[m])}
            BY <1>1 DEF RecordedLog, IG!Symbol
        <3>2. \A m \in D : IG!DescribeDecision(log, D, m).symbol = IG!Symbol(log[m])
            BY DEF IG!DescribeDecision
        <3> HIDE DEF D, log
        <3> QED  BY <1>2, <1>5, <2>5, <3>1, <3>2
    <2>7. d.decision = e.decision
        <3>1. d.decision < i /\ e.decision < i
            BY <2>1, <2>2, <2>3
        <3>2. ~(d.decision < e.decision)
            <4>1. ASSUME d.decision < e.decision PROVE e.decision \in d.decision + 1 .. i - 1
                BY <1>2, <2>5, <3>1, <4>1
            <4> QED  BY <2>1, <2>4, <2>5, <2>6, <4>1
        <3>3. ~(e.decision < d.decision)
            <4>1. ASSUME e.decision < d.decision PROVE d.decision \in e.decision + 1 .. k - 1
                BY <1>2, <2>3, <2>5, <3>1, <4>1
            <4> QED  BY <2>2, <2>4, <2>5, <2>6, <4>1
        <3> QED  BY <1>2, <2>5, <3>2, <3>3
    <2> QED  BY <1>5, <2>7
<1>8. ASSUME NEW d \in shown
      PROVE  /\ d.result.candidate # {} =>
                  (d.result.executed <=> \E i \in DOMAIN log :
                        log[i].type = "TRADE_CANDIDATE_EXECUTED" /\ log[i].candidate = d.result.candidate)
             /\ d.result.status = "CLOSED" =>
                  \E i \in DOMAIN log : /\ log[i].type = "TRADE_CLOSED" /\ log[i].pnl = d.result.pnl
                                        /\ d.result.candidate # {} => log[i].record = d.result.record
    BY <1>5 DEF SaidOf
<1> HIDE DEF D
<1> QED  BY <1>6, <1>7, <1>8 DEF OutcomeIsOwn, shown

\* The newest decision is the first one listed.
LEMMA NewestIsFirst ==
    ASSUME topic = "decisions" => DecisionsAsked(input) /\ output = Listed(input)
    PROVE  NewestDecisionFirst
<1> SUFFICES ASSUME topic = "decisions" PROVE NewestDecisionFirst
    BY DEF NewestDecisionFirst
<1> DEFINE log == input.log
           n == Len(log)
           limit == input.limit
           D == {k \in DOMAIN log : log[k].type = "HERMES_INSTRUMENT_DECISION_RECORDED"}
           all == Listed([input EXCEPT !.limit = n])
           At(W, k) == IG!NewestFirst(log, W)[k]
           List(W) == [k \in 1 .. Cardinality(W) |-> IG!DescribeDecision(log, D, At(W, k))]
<1>1. ProperLog(log) /\ RecordedLog(log) /\ limit \in Nat \ {0}
    BY DEF DecisionsAsked
<1>2. n \in Nat /\ DOMAIN log = 1 .. n /\ D \in SUBSET (1 .. n)
    BY <1>1 DEF ProperLog
<1>3. [input EXCEPT !.limit = n].log = log /\ [input EXCEPT !.limit = n].limit = n
    <2>1. input = [log |-> log, limit |-> limit]
        BY DEF DecisionsAsked
    <2> HIDE DEF n, log, limit
    <2> QED  BY <2>1
<1>4. /\ output = IG!ListDecisions(log, [limit |-> limit, symbol |-> {}, outcome |-> {}, since |-> 0])
      /\ all = IG!ListDecisions(log, [limit |-> n, symbol |-> {}, outcome |-> {}, since |-> 0])
    BY <1>3 DEF Listed
<1>5. D = {k \in DOMAIN log : log[k].type = "HERMES_INSTRUMENT_DECISION_RECORDED"}
    OBVIOUS
<1> HIDE DEF n, log, limit, D, all
<1>6. PICK U : Uppermost(D, limit, U) /\ output = List(U)
    <2>1. Lists(log, D, limit, output)
        BY <1>1, <1>4, <1>5, ListedAsRecorded
    <2> QED  BY <2>1 DEF Lists
<1>7. PICK V : Uppermost(D, n, V) /\ all = List(V)
    <2>1. Lists(log, D, n, all)
        BY <1>1, <1>2, <1>4, <1>5, ListedAsRecorded
    <2> QED  BY <2>1 DEF Lists
<1>8. /\ IsFiniteSet(D) /\ Cardinality(D) \in Nat /\ Cardinality(D) <= n
      /\ \A i \in D : Cardinality(Above(D, i)) \in 0 .. Cardinality(D) - 1
      /\ \A i, j \in D : Cardinality(Above(D, i)) = Cardinality(Above(D, j)) => i = j
    <2>1. IsFiniteSet(1 .. n) /\ Cardinality(1 .. n) = n
        BY <1>2, FS_Interval
    <2>2. Cardinality(D) <= Cardinality(1 .. n)
        BY <1>2, <2>1, FS_Subset
    <2>3. Cardinality(D) <= n
        BY <2>1, <2>2
    <2> QED  BY <1>2, <2>3, RanksAreHeld
<1>9. V = D
    <2>1. \A i \in D : Cardinality(Above(D, i)) < n
        BY <1>2, <1>8
    <2> QED  BY <1>7, <2>1 DEF Uppermost
<1>10. /\ U \in SUBSET D
       /\ \A i \in U : Above(U, i) = Above(D, i)
       /\ Cardinality(U) = IF limit < Cardinality(D) THEN limit ELSE Cardinality(D)
    <2>1. limit \in Nat
        BY <1>1
    <2>2. U \in SUBSET D
        BY <1>6 DEF Uppermost
    <2> QED  BY <1>2, <1>6, <2>1, <2>2, UpperRanks
<1>11. ASSUME NEW W \in SUBSET D
       PROVE  /\ Cardinality(W) \in Nat
              /\ \A k \in 1 .. Cardinality(W) : At(W, k) \in W /\ Cardinality(Above(W, At(W, k))) = k - 1
    <2>1. W \in SUBSET (DOMAIN log)
        BY <1>2
    <2> QED  BY <1>1, <2>1, NewestByPlace
<1>12. \A k \in 1 .. Cardinality(U) : k \in 1 .. Cardinality(D) /\ At(U, k) = At(D, k)
    <2>1. Cardinality(U) \in Nat /\ Cardinality(U) <= Cardinality(D)
        BY <1>1, <1>8, <1>10
    <2> SUFFICES ASSUME NEW k \in 1 .. Cardinality(U) PROVE k \in 1 .. Cardinality(D) /\ At(U, k) = At(D, k)
        OBVIOUS
    <2>2. k \in 1 .. Cardinality(D)
        BY <1>8, <2>1
    <2>3. At(U, k) \in U /\ Cardinality(Above(D, At(U, k))) = k - 1
        BY <1>10, <1>11
    <2>4. At(D, k) \in D /\ Cardinality(Above(D, At(D, k))) = k - 1
        BY <1>11, <2>2
    <2> HIDE DEF At
    <2>5. At(U, k) \in D /\ At(D, k) \in D
        BY <1>10, <2>3, <2>4
    <2> QED  BY <1>8, <2>2, <2>3, <2>4, <2>5
<1>13. Len(all) = Cardinality(D) /\ Len(output) = Cardinality(U) /\ DOMAIN output = 1 .. Cardinality(U)
    <2>1. Cardinality(D) \in Nat /\ Cardinality(U) \in Nat
        BY <1>10, <1>11
    <2> HIDE DEF At
    <2>2. Len(List(D)) = Cardinality(D) /\ Len(List(U)) = Cardinality(U) /\ DOMAIN List(U) = 1 .. Cardinality(U)
        BY <2>1
    <2> HIDE DEF List
    <2> QED  BY <1>6, <1>7, <1>9, <2>2
<1>14. \A k \in DOMAIN output : output[k] = all[k]
    BY <1>6, <1>7, <1>9, <1>12
<1>15. ASSUME NEW i \in D PROVE i <= output[1].decision
    <2>1. Cardinality(D) # 0
        BY <1>8, FS_EmptySet
    <2>2. 1 \in 1 .. Cardinality(U)
        BY <1>1, <1>8, <1>10, <2>1
    <2>3. At(U, 1) \in U /\ Cardinality(Above(D, At(U, 1))) = 0
        BY <1>10, <1>11, <2>2
    <2>4. Above(D, At(U, 1)) = {}
        <3>1. Above(D, At(U, 1)) \in SUBSET D
            BY DEF Above
        <3> QED  BY <1>8, <2>3, <3>1, FS_Subset, FS_EmptySet
    <2>5. output[1].decision = At(U, 1)
        BY <1>6, <2>2 DEF IG!DescribeDecision
    <2> HIDE DEF At
    <2>6. i \in Int /\ At(U, 1) \in Int
        <3>1. 1 .. n \subseteq Int
            BY <1>2
        <3> QED  BY <1>2, <1>10, <2>3, <3>1
    <2>7. ~(i > At(U, 1))
        BY <2>4 DEF Above
    <2> QED  BY <2>5, <2>6, <2>7
<1> QED  BY <1>10, <1>13, <1>14, <1>15 DEF NewestDecisionFirst, D, all, n, log, limit

\* What a summary may be asked of: a list of events, a damaged file, or none yet.
SummaryAsked(i) ==
    /\ \E E : i.log \in Seq(E)
    /\ i.found \in {"list", "damaged"} \/ (i.found = "missing" /\ i.log = <<>>)

\* start is the last of the past starts, or 0.
LastOf(past, start) ==
    /\ past = {} => start = 0
    /\ past # {} => start \in past /\ start > 0 /\ \A j \in past : j <= start

\* The last start is the last one.
LEMMA LastStart ==
    ASSUME NEW E, NEW log \in Seq(E), NEW past, past = {i \in DOMAIN log : log[i].type = "TRADING_RUNTIME_STARTED"},
           NEW start, start = IG!FindLastRuntimeStartIndex(log)
    PROVE  LastOf(past, start)
<1>1. past = IG!Indices(log, {"TRADING_RUNTIME_STARTED"})
    BY DEF IG!Indices
<1>2. start = IF past = {} THEN 0 ELSE IG!Latest(past)
    BY <1>1 DEF IG!FindLastRuntimeStartIndex
<1> DEFINE n == Len(log)
<1>3. n \in Nat /\ past \in SUBSET (1 .. n)
    OBVIOUS
<1> HIDE DEF n
<1>4. ASSUME past # {} PROVE IG!Latest(past) \in past /\ IG!Latest(past) > 0 /\ \A j \in past : j <= IG!Latest(past)
    <2>1. IG!Latest(past) \in past /\ \A j \in past : j <= IG!Latest(past)
        BY <1>3, <1>4, EndsAreThere
    <2>2. \A k \in 1 .. n : k > 0
        OBVIOUS
    <2> QED  BY <1>3, <2>1, <2>2
<1> QED  BY <1>2, <1>4 DEF LastOf

\* The failure that is shown is of this run.
LEMMA FailureIsNew ==
    ASSUME NEW E, NEW log \in Seq(E), NEW start \in Nat, NEW i \in IG!LatestFailureOrWarning(log, start)
    PROVE  i \in DOMAIN log /\ i >= start /\ log[i].type # "TRADING_RUNTIME_STARTED"
<1> DEFINE failures == {k \in IG!Indices(log, IG!FailureTypes) : k >= start}
           n == Len(log)
<1>1. failures # {} /\ i = IG!Latest(failures)
    BY DEF IG!LatestFailureOrWarning
<1>2. \A k \in failures : k \in DOMAIN log /\ k >= start /\ log[k].type # "TRADING_RUNTIME_STARTED"
    BY DEF IG!Indices, IG!FailureTypes
<1>3. n \in Nat /\ failures \in SUBSET (1 .. n)
    BY <1>2
<1> HIDE DEF n, failures
<1>4. i \in failures
    BY <1>1, <1>3, EndsAreThere
<1> QED  BY <1>2, <1>4

\* A summary shows this run.
LEMMA SummaryFits ==
    ASSUME topic = "summary" => SummaryAsked(input) /\ output = Summarised(input)
    PROVE  SummaryIsOfThisRun
<1> SUFFICES ASSUME topic = "summary" PROVE SummaryIsOfThisRun
    BY DEF SummaryIsOfThisRun
<1> DEFINE log == input.log
           snapshot == IG!GetBrokerSnapshot(input.broker, input.universe, {})
           durable  == IG!GetDurableRealisedPnlSummary(input.store)
           read     == IG!ReadHermesRuntimeAuditLog([found |-> input.found, events |-> log])
           start    == IG!FindLastRuntimeStartIndex(log)
           past     == {i \in DOMAIN log : log[i].type = "TRADING_RUNTIME_STARTED"}
           now      == {i \in DOMAIN log : \A j \in past : j <= i}
<1>1. output = IG!GetSummary(input.configured, snapshot, durable, read)
    BY DEF Summarised
<1>2. CASE input.found = "damaged"
    <2>1. ~read.available
        BY <1>2 DEF IG!ReadHermesRuntimeAuditLog
    <2> HIDE DEF read, snapshot, durable
    <2>2. output.runtime = {} /\ "log" \in output.warnings
        BY <1>1, <2>1 DEF IG!GetSummary
    <2> QED  BY <1>2, <2>2 DEF SummaryIsOfThisRun
<1>3. CASE input.found # "damaged"
    <2>1. read.available = TRUE /\ read.events = log
        BY <1>3 DEF IG!ReadHermesRuntimeAuditLog, SummaryAsked
    <2>2. PICK E : log \in Seq(E)
        BY DEF SummaryAsked
    <2>3. snapshot.ok <=> input.broker.connects /\ input.broker.portfolio # "unreadable"
        BY DEF IG!GetBrokerSnapshot
    <2> HIDE DEF read, snapshot, durable
    <2>4. /\ output.failure = IG!LatestFailureOrWarning(log, start)
          /\ output.closures = IG!ListUnreconciledClosures(log)
          /\ output.runtime = {IG!DeriveObservedRuntimeState(log)}
          /\ (output.portfolio # {} <=> snapshot.ok)
          /\ output.closures # {} => "closures" \in output.warnings
        BY <1>1, <2>1 DEF IG!GetSummary
    <2>5. /\ past = {} => start = 0
          /\ past # {} => start \in past /\ start > 0 /\ \A j \in past : j <= start
        <3>1. past = {i \in DOMAIN log : log[i].type = "TRADING_RUNTIME_STARTED"}
            OBVIOUS
        <3>2. start = IG!FindLastRuntimeStartIndex(log)
            OBVIOUS
        <3> HIDE DEF past, log, start
        <3>3. LastOf(past, start)
            BY <2>2, <3>1, <3>2, LastStart
        <3> QED  BY <3>3 DEF LastOf
    <2> DEFINE n == Len(log)
    <2>6. n \in Nat /\ DOMAIN log = 1 .. n
        BY <2>2
    <2>7. start \in Nat /\ past \subseteq DOMAIN log
        <3>1. past \subseteq DOMAIN log
            OBVIOUS
        <3> HIDE DEF start, past, n
        <3> QED  BY <2>5, <2>6, <3>1
    <2>8. ASSUME NEW i \in output.failure, NEW j \in i .. Len(log) PROVE log[j].type # "TRADING_RUNTIME_STARTED"
        <3>1. i \in DOMAIN log /\ i >= start /\ log[i].type # "TRADING_RUNTIME_STARTED"
            BY <2>2, <2>4, <2>7, FailureIsNew
        <3>2. j \in DOMAIN log
            BY <2>6, <3>1
        <3> SUFFICES ASSUME j \in past PROVE FALSE
            BY <3>2
        <3>3. start \in past /\ j <= start /\ start \in Nat /\ i \in Nat /\ j \in Nat /\ i <= j
            <4> HIDE DEF start, past
            <4> QED  BY <2>5, <2>6, <2>7, <3>1, <3>2
        <3>4. i = start
            <4> HIDE DEF start, past
            <4> QED  BY <3>1, <3>3
        <3> QED  BY <3>1, <3>3, <3>4
    <2>9. IG!DeriveObservedRuntimeState(log).successful =
             IF past = {} THEN 0 ELSE Cardinality({i \in now : log[i].type = "TRADING_CYCLE_COMPLETED"})
        <3> DEFINE counted == {i \in IG!Indices(log, {"TRADING_CYCLE_COMPLETED"}) : start > 0 /\ i >= start}
        <3>1. IG!DeriveObservedRuntimeState(log).successful = Cardinality(counted)
            BY SameCardinality DEF IG!DeriveObservedRuntimeState
        <3>2. CASE past = {}
            <4>1. counted = {}
                BY <2>5, <3>2
            <4> QED  BY <3>1, <3>2, <4>1, FS_EmptySet
        <3>3. CASE past # {}
            <4>1. \A i \in DOMAIN log : i >= start <=> \A j \in past : j <= i
                <5> SUFFICES ASSUME NEW i \in DOMAIN log PROVE i >= start <=> \A j \in past : j <= i
                    OBVIOUS
                <5> HIDE DEF start, past, n
                <5>1. 1 .. n \subseteq Int
                    BY <2>6
                <5>2. i \in Int /\ start \in Int /\ \A j \in past : j \in Int
                    BY <2>6, <2>7, <5>1
                <5> QED  BY <2>5, <3>3, <5>2
            <4>2. counted = {i \in now : log[i].type = "TRADING_CYCLE_COMPLETED"}
                <5> HIDE DEF start, past
                <5> QED  BY <2>5, <3>3, <4>1 DEF IG!Indices
            <4> HIDE DEF counted, now
            <4> QED  BY <3>1, <3>3, <4>2
        <3> QED  BY <3>2, <3>3
    <2>10. output.closures = {i \in DOMAIN log : /\ log[i].type = "BROKER_RECONCILIATION_MISMATCH"
                                                /\ log[i].action = "reconciled-closed-unreconciled"}
        BY <2>4 DEF IG!ListUnreconciledClosures, IG!Indices
    <2>11. \A r \in output.runtime : r.successful =
             IF past = {} THEN 0 ELSE Cardinality({i \in now : log[i].type = "TRADING_CYCLE_COMPLETED"})
        <3> HIDE DEF past, now
        <3> QED  BY <2>4, <2>9
    <2>12. output.portfolio # {} <=> input.broker.connects /\ input.broker.portfolio # "unreadable"
        BY <2>3, <2>4
    <2> QED  BY <1>3, <2>4, <2>8, <2>10, <2>11, <2>12, Zenon DEF SummaryIsOfThisRun
<1> QED  BY <1>2, <1>3

\* What a snapshot may be asked of: brokers whose answers are whole numbers, at most one each.
BrokerAsked(broker) ==
    /\ \E P : broker.positions \in Seq(P)
    /\ \A i \in DOMAIN broker.positions :
          LET p == broker.positions[i]
          IN  /\ p = [symbol |-> p.symbol, id |-> p.id, side |-> p.side, units |-> p.units, entry |-> p.entry, amount |-> p.amount]
              /\ p.units \subseteq Int /\ p.entry \subseteq Int /\ p.amount \in Int
              /\ \A u, v \in p.units : u = v
              /\ \A e, f \in p.entry : e = f
    /\ \A s \in DOMAIN broker.rates : \A r, q \in broker.rates[s] : r = q /\ r.bid \in Int /\ r.ask \in Int
SnapshotAsked(i) == BrokerAsked(i.brokers[1]) /\ BrokerAsked(i.brokers[2]) /\ i.cash \in Int

\* A position under a name: all but the name and the number are those of the broker.
NamedAs(p, raw) == /\ p.side = raw.side /\ p.units = raw.units /\ p.entry = raw.entry /\ p.amount = raw.amount
                   /\ p.id \in {raw.id, {}}

\* A position with a price is the broker's own, priced at what closing it brings.
PricedFits(broker, p, out) ==
    /\ out.position = p
    /\ out.source = "broker" <=> out.pnl # {}
    /\ out.pnl # {} =>
          /\ broker.resolves /\ p.id # {} => broker.ids[p.symbol] = p.id
          /\ \A rate \in broker.rates[p.symbol], units \in p.units, entry \in p.entry :
                out.pnl = {units * (IF p.side = "BUY" THEN rate.bid - entry ELSE entry - rate.ask)}
          /\ \E n \in Int : out.pnl = {n}

\* Pricing one position.
LEMMA PositionFits ==
    ASSUME NEW broker, BrokerAsked(broker), NEW i \in DOMAIN broker.positions, NEW p, NamedAs(p, broker.positions[i]),
           NEW out, out = IG!PriceOpenPosition(broker, p)
    PROVE  PricedFits(broker, p, out)
<1> DEFINE quotable == /\ broker.quotes
                       /\ p.side # "unknown" /\ p.units # {} /\ p.entry # {}
                       /\ IG!EnsureResolvedForPricing(broker, p)
                       /\ p.symbol \in DOMAIN broker.rates /\ broker.rates[p.symbol] # {}
           rate     == CHOOSE r \in broker.rates[p.symbol] : TRUE
           price    == IF p.side = "BUY" THEN rate.bid ELSE rate.ask
           units    == CHOOSE u \in p.units : TRUE
           entry    == CHOOSE e \in p.entry : TRUE
           gain     == IF p.side = "BUY" THEN price - entry ELSE entry - price
<1>1. /\ out.position = p
      /\ out.source = IF quotable THEN "broker" ELSE "unavailable"
      /\ out.pnl = IF quotable THEN {gain * units} ELSE {}
    BY DEF IG!PriceOpenPosition
<1>2. /\ p.units \subseteq Int /\ p.entry \subseteq Int
      /\ \A u, v \in p.units : u = v
      /\ \A e, f \in p.entry : e = f
    <2> DEFINE raw == broker.positions[i]
    <2>1. /\ raw.units \subseteq Int /\ raw.entry \subseteq Int
          /\ \A u, v \in raw.units : u = v
          /\ \A e, f \in raw.entry : e = f
        BY DEF BrokerAsked
    <2>2. p.units = raw.units /\ p.entry = raw.entry
        BY DEF NamedAs
    <2> HIDE DEF raw
    <2> QED  BY <2>1, <2>2
<1>3. p.symbol \in DOMAIN broker.rates => \A r, q \in broker.rates[p.symbol] : r = q /\ r.bid \in Int /\ r.ask \in Int
    BY DEF BrokerAsked
<1>4. ASSUME quotable
      PROVE  /\ broker.resolves /\ p.id # {} => broker.ids[p.symbol] = p.id
             /\ \A r \in broker.rates[p.symbol], u \in p.units, e \in p.entry :
                   out.pnl = {u * (IF p.side = "BUY" THEN r.bid - e ELSE e - r.ask)}
             /\ \E n \in Int : out.pnl = {n}
    <2>1. broker.resolves /\ p.id # {} => broker.ids[p.symbol] = p.id
        BY <1>4 DEF IG!EnsureResolvedForPricing
    <2>2. /\ rate \in broker.rates[p.symbol] /\ units \in p.units /\ entry \in p.entry
          /\ \A r \in broker.rates[p.symbol] : r = rate
          /\ \A u \in p.units : u = units
          /\ \A e \in p.entry : e = entry
        BY <1>2, <1>3, <1>4
    <2> HIDE DEF rate, units, entry
    <2>3. gain = (IF p.side = "BUY" THEN rate.bid - entry ELSE entry - rate.ask) /\ gain \in Int /\ units \in Int
        BY <1>2, <1>3, <1>4, <2>2
    <2>4. \A a, b \in Int : a * b = b * a /\ a * b \in Int
        OBVIOUS
    <2>5. out.pnl = {gain * units}
        BY <1>1, <1>4
    <2> HIDE DEF gain, quotable
    <2>6. out.pnl = {units * gain} /\ units * gain \in Int
        BY <2>3, <2>4, <2>5
    <2>7. \A r \in broker.rates[p.symbol], u \in p.units, e \in p.entry :
             units * gain = u * (IF p.side = "BUY" THEN r.bid - e ELSE e - r.ask)
        BY <2>2, <2>3
    <2> QED  BY <2>1, <2>6, <2>7
<1>5. out.source = "broker" <=> out.pnl # {}
    <2> HIDE DEF gain
    <2> QED  BY <1>1
<1>6. out.pnl # {} => quotable
    <2> HIDE DEF gain
    <2> QED  BY <1>1
<1> HIDE DEF quotable
<1> QED  BY <1>1, <1>4, <1>5, <1>6 DEF PricedFits

\* A snapshot shows the broker's positions, as they are or not at all.
SnapshotOf(broker, s) ==
    /\ s.ok <=> broker.connects /\ broker.portfolio # "unreadable"
    /\ s.ok =>
          /\ DOMAIN s.positions = 1 .. Len(broker.positions) /\ Len(s.positions) = Len(broker.positions)
          /\ \A i \in DOMAIN broker.positions :
                /\ PricedFits(broker, s.positions[i].position, s.positions[i])
                /\ s.positions[i].position.amount \in Int
                /\ broker.portfolio = "raw" => s.positions[i].position.id = broker.positions[i].id
          /\ s.complete <=> \A i \in DOMAIN broker.positions : s.positions[i].source = "broker"

\* Whatever names an earlier request left behind.
LEMMA SnapshotFits ==
    ASSUME NEW broker, BrokerAsked(broker), NEW universe, NEW cache,
           NEW s, s = IG!GetBrokerSnapshot(broker, universe, cache)
    PROVE  SnapshotOf(broker, s)
<1> DEFINE map    == IG!ResolveInstrumentIdMap(broker, universe, cache)
           Raw(i) == broker.positions[i]
           Named(i) == IF broker.portfolio = "raw" THEN IG!NamePosition(Raw(i), map) ELSE [Raw(i) EXCEPT !.id = {}]
           Shown(i) == IG!PriceOpenPosition(broker, Named(i))
           n == Len(broker.positions)
<1>1. n \in Nat /\ DOMAIN broker.positions = 1 .. n
    BY DEF BrokerAsked
<1>2. s = IF ~broker.connects \/ broker.portfolio = "unreadable" THEN [ok |-> FALSE, positions |-> <<>>, complete |-> FALSE]
          ELSE [ok |-> TRUE, positions |-> [i \in 1 .. n |-> Shown(i)], complete |-> \A i \in 1 .. n : Shown(i).source = "broker"]
    <2> HIDE DEF map, n
    <2>1. CASE broker.portfolio = "raw"
        BY <1>1, <2>1 DEF IG!GetBrokerSnapshot, map
    <2>2. CASE broker.portfolio # "raw"
        BY <1>1, <2>2 DEF IG!GetBrokerSnapshot, map
    <2> QED  BY <2>1, <2>2
<1>3. ASSUME NEW i \in 1 .. n
      PROVE  NamedAs(Named(i), Raw(i)) /\ (broker.portfolio = "raw" => Named(i).id = Raw(i).id)
    <2>1. Raw(i) = [symbol |-> Raw(i).symbol, id |-> Raw(i).id, side |-> Raw(i).side, units |-> Raw(i).units,
                    entry |-> Raw(i).entry, amount |-> Raw(i).amount]
        BY <1>1 DEF BrokerAsked
    <2> HIDE DEF Raw, map
    <2> QED  BY <2>1 DEF NamedAs, IG!NamePosition
<1>4. ASSUME NEW i \in 1 .. n
      PROVE  /\ PricedFits(broker, Named(i), Shown(i)) /\ Shown(i).position = Named(i)
             /\ Named(i).amount \in Int
    <2>1. Raw(i).amount \in Int /\ i \in DOMAIN broker.positions
        BY <1>1 DEF BrokerAsked
    <2>2. PricedFits(broker, Named(i), Shown(i))
        <3>1. NamedAs(Named(i), broker.positions[i])
            BY <1>3
        <3>2. Shown(i) = IG!PriceOpenPosition(broker, Named(i))
            OBVIOUS
        <3> HIDE DEF Named, Shown
        <3> QED  BY <2>1, <3>1, <3>2, PositionFits
    <2> HIDE DEF Named, Shown
    <2> QED  BY <1>3, <2>1, <2>2 DEF PricedFits, NamedAs
<1> HIDE DEF Named, Shown, n
<1>5. CASE ~broker.connects \/ broker.portfolio = "unreadable"
    BY <1>2, <1>5 DEF SnapshotOf
<1>6. CASE broker.connects /\ broker.portfolio # "unreadable"
    <2>1. /\ s.ok /\ s.positions = [i \in 1 .. n |-> Shown(i)]
          /\ s.complete <=> \A i \in 1 .. n : Shown(i).source = "broker"
        BY <1>2, <1>6
    <2>2. Len(s.positions) = n /\ DOMAIN s.positions = 1 .. n /\ \A i \in 1 .. n : s.positions[i] = Shown(i)
        BY <1>1, <2>1
    <2>3. \A i \in 1 .. n : /\ PricedFits(broker, s.positions[i].position, s.positions[i])
                            /\ s.positions[i].position.amount \in Int
                            /\ broker.portfolio = "raw" => s.positions[i].position.id = Raw(i).id
        BY <1>3, <1>4, <2>2
    <2>4. s.complete <=> \A i \in 1 .. n : s.positions[i].source = "broker"
        BY <2>1, <2>2
    <2> QED  BY <1>1, <1>6, <2>1, <2>2, <2>3, <2>4 DEF SnapshotOf, n
<1> QED  BY <1>5, <1>6

\* Both requests of a process.
LEMMA BothSnapshotsFit ==
    ASSUME NEW i, SnapshotAsked(i)
    PROVE  \A n \in 1 .. 2 : SnapshotOf(i.brokers[n], Snapshots(i)[n])
<1>1. SnapshotOf(i.brokers[1], Snapshots(i)[1])
    BY SnapshotFits DEF SnapshotAsked, Snapshots
<1>2. SnapshotOf(i.brokers[2], Snapshots(i)[2])
    BY SnapshotFits DEF SnapshotAsked, Snapshots
<1>3. \A n \in 1 .. 2 : n = 1 \/ n = 2
    OBVIOUS
<1> QED  BY <1>1, <1>2, <1>3

\* A position is priced as itself.
LEMMA PricesFit ==
    ASSUME topic = "snapshot" => SnapshotAsked(input) /\ output = Snapshots(input)
    PROVE  PricedAsItself
<1> SUFFICES ASSUME topic = "snapshot", NEW n \in 1 .. 2, output[n].ok
    PROVE  LET broker == input.brokers[n]
               priced(i) == output[n].positions[i].source = "broker"
           IN  /\ \A i \in DOMAIN output[n].positions : priced(i) =>
                     LET p == output[n].positions[i].position
                     IN  /\ broker.resolves /\ p.id # {} => broker.ids[p.symbol] = p.id
                         /\ \A rate \in broker.rates[p.symbol], units \in p.units, entry \in p.entry :
                               output[n].positions[i].pnl = {units * (IF p.side = "BUY" THEN rate.bid - entry ELSE entry - rate.ask)}
               /\ output[n].complete <=> \A i \in DOMAIN output[n].positions : priced(i)
               /\ Len(output[n].positions) = Len(broker.positions)
               /\ broker.portfolio = "raw" => \A i \in DOMAIN broker.positions : output[n].positions[i].position.id = broker.positions[i].id
    BY DEF PricedAsItself
<1>1. SnapshotOf(input.brokers[n], output[n])
    BY BothSnapshotsFit
<1>2. DOMAIN input.brokers[n].positions = 1 .. Len(input.brokers[n].positions)
    <2>1. BrokerAsked(input.brokers[n])
        <3>1. n = 1 \/ n = 2
            OBVIOUS
        <3> QED  BY <3>1 DEF SnapshotAsked
    <2> QED  BY <2>1 DEF BrokerAsked
<1> DEFINE s == output[n]
           broker == input.brokers[n]
<1>3. s.ok /\ SnapshotOf(broker, s) /\ DOMAIN broker.positions = 1 .. Len(broker.positions)
    BY <1>1, <1>2
<1> HIDE DEF s, broker
<1>4. /\ DOMAIN s.positions = DOMAIN broker.positions /\ Len(s.positions) = Len(broker.positions)
      /\ s.complete <=> \A i \in DOMAIN s.positions : s.positions[i].source = "broker"
      /\ broker.portfolio = "raw" => \A i \in DOMAIN broker.positions : s.positions[i].position.id = broker.positions[i].id
      /\ \A i \in DOMAIN s.positions : PricedFits(broker, s.positions[i].position, s.positions[i])
    BY <1>3 DEF SnapshotOf
<1>5. ASSUME NEW i \in DOMAIN s.positions, NEW p, p = s.positions[i].position, s.positions[i].source = "broker"
      PROVE  /\ broker.resolves /\ p.id # {} => broker.ids[p.symbol] = p.id
             /\ \A rate \in broker.rates[p.symbol], units \in p.units, entry \in p.entry :
                   s.positions[i].pnl = {units * (IF p.side = "BUY" THEN rate.bid - entry ELSE entry - rate.ask)}
    BY <1>4, <1>5 DEF PricedFits
<1> QED  BY <1>4, <1>5 DEF s, broker

\* total[k] is what base and the first k numbers of s make together.
Totals(s, base, total) ==
    /\ total \in [0 .. Len(s) -> Int] /\ total[0] = base
    /\ \A k \in 1 .. Len(s) : total[k] = total[k - 1] + s[k]

\* A sum adds one number after the other.
LEMMA SumAdds ==
    ASSUME NEW s \in Seq(Int), NEW base \in Int
    PROVE  \E total : /\ Totals(s, base, total)
                      /\ IG!FoldLeft(IG!Plus, base, s) = total[Len(s)] /\ FoldLeft(IG!Plus, base, s) = total[Len(s)]
<1> DEFINE n == Len(s)
           P(f) == f = [x \in SUBSET (DOMAIN s) |-> IF x = {} THEN base ELSE IG!Plus(f[x \ {Max(x)}], s[Max(x)])]
           fold == CHOOSE f : P(f)
           step == [p \in (1 .. n) \X Int |-> p[2] + s[p[1]]]
<1>1. IG!FoldLeft(IG!Plus, base, s) = fold[DOMAIN s]
    <2>1. \A x : IG!Max(x) = Max(x)
        BY DEF IG!Max, Max
    <2> QED  BY <2>1 DEF IG!FoldLeft, IG!MapThenFoldSet
<1>2. FoldLeft(IG!Plus, base, s) = fold[DOMAIN s]
    BY DEF FoldLeft, MapThenFoldSet
<1>3. n \in Nat /\ DOMAIN s = 1 .. n /\ \A k \in 1 .. n : s[k] \in Int
    BY LenProperties
<1>4. step \in [(1 .. n) \X Int -> Int] /\ \A k \in 1 .. n, v \in Int : step[<<k, v>>] = v + s[k]
    <2>1. \A k \in 1 .. n, v \in Int : v + s[k] \in Int
        BY <1>3
    <2> HIDE DEF n
    <2>2. step \in [(1 .. n) \X Int -> Int]
        BY <2>1
    <2>3. \A k \in 1 .. n, v \in Int : step[<<k, v>>] = v + s[k]
        OBVIOUS
    <2> HIDE DEF step
    <2> QED  BY <2>2, <2>3
<1>5. \A x \in SUBSET (1 .. n) : x # {} => Max(x) \in 1 .. n
    BY <1>3, LargestIsThere
<1>6. P(fold)
    <2>1. PICK f : Folds(f, n, Int, base, step)
        <3> HIDE DEF step, n
        <3> QED  BY <1>3, <1>4, FoldExists
    <2>2. \A x \in SUBSET (1 .. n) : x # {} => f[x] = IG!Plus(f[x \ {Max(x)}], s[Max(x)])
        BY <1>4, <1>5, <2>1 DEF Folds, IG!Plus
    <2>3. P(f)
        BY <1>3, <2>1, <2>2 DEF Folds
    <2> HIDE DEF P
    <2> QED  BY <2>3
<1> HIDE DEF fold
<1>7. fold[{}] = base /\ \A x \in SUBSET (1 .. n) : x # {} => fold[x] = fold[x \ {Max(x)}] + s[Max(x)]
    BY <1>3, <1>6 DEF IG!Plus
<1>8. Loops(fold, n, Int, step)
    <2>1. ASSUME NEW x \in SUBSET (1 .. n), x # {}, fold[x \ {Max(x)}] \in Int
          PROVE  fold[x] = step[<<Max(x), fold[x \ {Max(x)}]>>]
        <3> HIDE DEF step, n
        <3> QED  BY <1>4, <1>5, <1>7, <2>1
    <2>2. fold[{}] \in Int
        BY <1>7
    <2> HIDE DEF step, n
    <2>3. Obeys(fold, n, Int, step)
        BY <2>1, <2>2 DEF Obeys
    <2> QED  BY <1>3, <1>4, <2>3, FoldIsLoop
<1> DEFINE total == [k \in 0 .. n |-> fold[1 .. k]]
<1> HIDE DEF step
<1>9. total \in [0 .. n -> Int] /\ total[0] = base /\ total[n] = fold[DOMAIN s]
    <2>1. \A k \in 0 .. n : fold[1 .. k] \in Int
        BY <1>8 DEF Loops
    <2>2. 1 .. 0 = {} /\ 0 \in 0 .. n /\ n \in 0 .. n
        BY <1>3
    <2> HIDE DEF n
    <2> QED  BY <1>3, <1>7, <2>1, <2>2
<1>10. \A k \in 1 .. n : total[k] = total[k - 1] + s[k]
    <2> SUFFICES ASSUME NEW k \in 1 .. n PROVE total[k] = total[k - 1] + s[k]
        OBVIOUS
    <2> HIDE DEF n
    <2>1. k \in 0 .. n /\ k - 1 \in 0 .. n
        BY <1>3
    <2>2. fold[1 .. k] = step[<<k, fold[1 .. (k - 1)]>>] /\ fold[1 .. (k - 1)] \in Int
        BY <1>8, <2>1 DEF Loops
    <2> QED  BY <1>4, <2>1, <2>2
<1> HIDE DEF total, fold
<1> QED  BY <1>1, <1>2, <1>9, <1>10 DEF Totals, n

\* The sum of c from cash on is cash and the sums of a and b.
AddUp(cash, a, b, c) == cash + IG!FoldLeft(IG!Plus, 0, a) + IG!FoldLeft(IG!Plus, 0, b) = FoldLeft(IG!Plus, cash, c)

\* Two sums together are the sum of the numbers together.
LEMMA SumsTogether ==
    ASSUME NEW n \in Nat, NEW a \in [1 .. n -> Int], NEW b \in [1 .. n -> Int], NEW cash \in Int,
           NEW c \in [1 .. n -> Int], \A k \in 1 .. n : c[k] = a[k] + b[k]
    PROVE  AddUp(cash, a, b, c)
<1>1. /\ a \in Seq(Int) /\ b \in Seq(Int) /\ c \in Seq(Int)
      /\ Len(a) = n /\ Len(b) = n /\ Len(c) = n
    OBVIOUS
<1>2. PICK A : Totals(a, 0, A) /\ IG!FoldLeft(IG!Plus, 0, a) = A[n]
    <2>1. 0 \in Int /\ a \in Seq(Int)
        BY <1>1
    <2>2. PICK A : Totals(a, 0, A) /\ IG!FoldLeft(IG!Plus, 0, a) = A[Len(a)]
        BY <2>1, SumAdds
    <2> QED  BY <1>1, <2>2
<1>3. PICK B : Totals(b, 0, B) /\ IG!FoldLeft(IG!Plus, 0, b) = B[n]
    <2>1. 0 \in Int /\ b \in Seq(Int)
        BY <1>1
    <2>2. PICK B : Totals(b, 0, B) /\ IG!FoldLeft(IG!Plus, 0, b) = B[Len(b)]
        BY <2>1, SumAdds
    <2> QED  BY <1>1, <2>2
<1>4. PICK C : Totals(c, cash, C) /\ FoldLeft(IG!Plus, cash, c) = C[n]
    <2>1. cash \in Int /\ c \in Seq(Int)
        BY <1>1
    <2>2. PICK C : Totals(c, cash, C) /\ FoldLeft(IG!Plus, cash, c) = C[Len(c)]
        BY <2>1, SumAdds
    <2> QED  BY <1>1, <2>2
<1> DEFINE G == {k \in 0 .. n : cash + A[k] + B[k] = C[k]}
<1>5. /\ A \in [0 .. n -> Int] /\ B \in [0 .. n -> Int] /\ C \in [0 .. n -> Int]
      /\ A[0] = 0 /\ B[0] = 0 /\ C[0] = cash
      /\ \A k \in 1 .. n : A[k] = A[k - 1] + a[k] /\ B[k] = B[k - 1] + b[k] /\ C[k] = C[k - 1] + c[k]
    BY <1>1, <1>2, <1>3, <1>4 DEF Totals
<1>6. 0 \in G
    BY <1>5
<1>7. ASSUME NEW k \in 1 .. n, k - 1 \in G PROVE k \in G
    <2>1. k \in 0 .. n /\ k - 1 \in 0 .. n
        OBVIOUS
    <2>2. A[k - 1] \in Int /\ B[k - 1] \in Int /\ C[k - 1] \in Int /\ a[k] \in Int /\ b[k] \in Int /\ c[k] = a[k] + b[k]
        BY <1>5, <2>1
    <2>3. cash + A[k - 1] + B[k - 1] = C[k - 1]
        BY <1>7
    <2>4. A[k] = A[k - 1] + a[k] /\ B[k] = B[k - 1] + b[k] /\ C[k] = C[k - 1] + c[k]
        BY <1>5
    <2>5. cash + A[k] + B[k] = C[k]
        BY <2>2, <2>3, <2>4
    <2> QED  BY <2>1, <2>5
<1>8. n \in G
    <2> HIDE DEF G
    <2>1. 0 .. n \subseteq G
        BY <1>6, <1>7, Upwards
    <2> QED  BY <2>1
<1>9. cash + A[n] + B[n] = C[n]
    BY <1>8
<1> QED  BY <1>2, <1>3, <1>4, <1>9 DEF AddUp

\* The whole account at live prices, or nothing.
WholeEquity(cash, s) ==
    IF s.ok /\ \A i \in DOMAIN s.positions : s.positions[i].pnl # {}
    THEN {FoldLeft(IG!Plus, cash, [i \in DOMAIN s.positions |-> s.positions[i].position.amount + (CHOOSE n \in s.positions[i].pnl : TRUE)])}
    ELSE {}

\* The equity of an account is given whole.
LEMMA EquityFits ==
    ASSUME NEW cash \in Int, NEW broker, NEW s, SnapshotOf(broker, s), \E P : broker.positions \in Seq(P)
    PROVE  IG!GetPortfolio(cash, s, {}).equity = WholeEquity(cash, s)
<1> DEFINE n == Len(broker.positions)
           a == [i \in DOMAIN s.positions |-> s.positions[i].position.amount]
           b == [i \in DOMAIN s.positions |-> IG!Known(s.positions[i].pnl)]
           c == [i \in DOMAIN s.positions |-> s.positions[i].position.amount + (CHOOSE m \in s.positions[i].pnl : TRUE)]
           whole == \A i \in DOMAIN s.positions : s.positions[i].pnl # {}
<1>1. IG!GetPortfolio(cash, s, {}).equity =
         IF ~s.ok THEN {} ELSE IF s.complete THEN {cash + IG!FoldLeft(IG!Plus, 0, a) + IG!FoldLeft(IG!Plus, 0, b)} ELSE {}
    BY DEF IG!GetPortfolio
<1>0. WholeEquity(cash, s) = IF s.ok /\ whole THEN {FoldLeft(IG!Plus, cash, c)} ELSE {}
    BY DEF WholeEquity
<1>2. CASE ~s.ok
    BY <1>0, <1>1, <1>2
<1>3. CASE s.ok
    <2>1. n \in Nat /\ DOMAIN broker.positions = 1 .. n /\ DOMAIN s.positions = 1 .. n
        BY <1>3 DEF SnapshotOf
    <2>2. \A i \in 1 .. n : PricedFits(broker, s.positions[i].position, s.positions[i]) /\ s.positions[i].position.amount \in Int
        BY <1>3, <2>1 DEF SnapshotOf
    <2>3. s.complete <=> \A i \in 1 .. n : s.positions[i].source = "broker"
        BY <1>3, <2>1 DEF SnapshotOf
    <2> HIDE DEF n
    <2>4. s.complete <=> whole
        BY <2>1, <2>2, <2>3 DEF PricedFits
    <2>5. CASE ~whole
        <3> HIDE DEF a, b, c, whole
        <3> QED  BY <1>0, <1>1, <1>3, <2>4, <2>5
    <2>6. CASE whole
        <3>1. ASSUME NEW i \in 1 .. n
              PROVE  /\ a[i] \in Int /\ b[i] \in Int
                     /\ s.positions[i].position.amount + (CHOOSE m \in s.positions[i].pnl : TRUE) = a[i] + b[i]
            <4>1. s.positions[i].pnl # {}
                BY <2>1, <2>6
            <4>2. PICK m \in Int : s.positions[i].pnl = {m}
                BY <2>2, <4>1 DEF PricedFits
            <4>3. IG!Known(s.positions[i].pnl) = m /\ (CHOOSE k \in s.positions[i].pnl : TRUE) = m
                BY <4>2 DEF IG!Known
            <4> QED  BY <2>1, <2>2, <4>3
        <3>2. c \in [1 .. n -> Int] /\ \A i \in 1 .. n : c[i] = a[i] + b[i]
            <4>1. c = [i \in 1 .. n |-> s.positions[i].position.amount + (CHOOSE m \in s.positions[i].pnl : TRUE)]
                BY <2>1
            <4> HIDE DEF c
            <4>2. \A i \in 1 .. n : c[i] = a[i] + b[i] /\ c[i] \in Int
                <5> HIDE DEF a, b
                <5> QED  BY <3>1, <4>1
            <4> HIDE DEF a, b
            <4> QED  BY <4>1, <4>2
        <3>3. a \in [1 .. n -> Int] /\ b \in [1 .. n -> Int]
            BY <2>1, <3>1
        <3> HIDE DEF a, b, c, whole
        <3>4. AddUp(cash, a, b, c)
            <4>1. n \in Nat
                BY <2>1
            <4> QED  BY <3>2, <3>3, <4>1, SumsTogether
        <3> QED  BY <1>0, <1>1, <1>3, <2>4, <2>6, <3>4 DEF AddUp
    <2> QED  BY <2>5, <2>6
<1> QED  BY <1>2, <1>3

\* What cannot be read is not healthy.
LEMMA HealthFits ==
    ASSUME NEW s, NEW log, IG!GetHealth(TRUE, "live", s, log).status = "healthy"
    PROVE  s.ok
<1> SUFFICES ASSUME ~s.ok PROVE FALSE
    OBVIOUS
<1>1. PICK severities : IG!GetHealth(TRUE, "live", s, log).status = IG!Worst(severities) /\ "unavailable" \in severities
    BY DEF IG!GetHealth
<1> DEFINE ranked == <<"unavailable", "degraded", "unknown", "healthy">>
           W == {i \in 1 .. 4 : ranked[i] \in severities}
<1>2. IG!Worst(severities) = ranked[IG!Earliest(W)]
    BY DEF IG!Worst
<1>3. 1 \in W /\ W \in SUBSET (1 .. 4)
    BY <1>1
<1>4. ranked[1] = "unavailable"
    OBVIOUS
<1> HIDE DEF W, ranked
<1>5. IG!Earliest(W) \in W /\ IG!Earliest(W) <= 1
    <2>1. 4 \in Nat
        OBVIOUS
    <2> QED  BY <1>3, <2>1, EndsAreThere
<1>6. IG!Earliest(W) = 1
    <2>1. \A k \in 1 .. 4 : k <= 1 => k = 1
        OBVIOUS
    <2> QED  BY <1>3, <1>5, <2>1
<1> QED  BY <1>1, <1>2, <1>4, <1>6

\* The account is shown whole.
LEMMA AccountFits ==
    ASSUME topic = "portfolio" => SnapshotAsked(input) /\ output = Portfolios(input)
    PROVE  EquityIsWhole
<1> SUFFICES ASSUME topic = "portfolio" PROVE EquityIsWhole
    BY DEF EquityIsWhole
<1> DEFINE s == Snapshots(input)[2]
           broker == input.brokers[2]
           up == [available |-> TRUE, events |-> <<Plain("TRADING_RUNTIME_STARTED")>>]
<1>1. output.snapshot = s /\ output.portfolio = IG!GetPortfolio(input.cash, s, {}) /\ output.health = IG!GetHealth(TRUE, "live", s, up)
    <2>1. output = Portfolios(input)
        OBVIOUS
    <2>2. Portfolios(input).snapshot = s
        BY DEF Portfolios
    <2>3. Portfolios(input).portfolio = IG!GetPortfolio(input.cash, s, {})
        BY DEF Portfolios
    <2>4. Portfolios(input).health = IG!GetHealth(TRUE, "live", s, up)
        BY Zenon DEF Portfolios
    <2> QED  BY <2>1, <2>2, <2>3, <2>4
<1>2. SnapshotOf(broker, s)
    BY BothSnapshotsFit
<1>3. input.cash \in Int /\ \E P : broker.positions \in Seq(P)
    BY DEF SnapshotAsked, BrokerAsked
<1> HIDE DEF s, broker, up
<1>4. output.health.status = "healthy" => output.snapshot.ok /\ broker.portfolio # "unreadable"
    BY <1>1, <1>2, HealthFits DEF SnapshotOf
<1>5. output.portfolio.equity = WholeEquity(input.cash, output.snapshot)
    BY <1>1, <1>2, <1>3, EquityFits
<1> QED  BY <1>4, <1>5 DEF EquityIsWhole, WholeEquity, broker

\* What the process list may be asked of: events of a run of pm2, and the entries it printed.
RunAsked(i) ==
    /\ \E E : i.events \in Seq(E)
    /\ \A k \in DOMAIN i.events : i.events[k].type \in {"data", "timer", "error", "close"} /\ i.events[k].size \in Nat
    /\ i.limit \in Nat
    /\ \E E : i.entries \in Seq(E)
    /\ \A k \in DOMAIN i.entries : i.entries[k] = [name |-> i.entries[k].name, status |-> i.entries[k].status]

Runs == [result : {"running", "timeout", "spawn-error", "oversized-stdout", "non-zero-exit", "ok"}, size : Int, oversized : BOOLEAN]

\* The run ended well with event number last.
EndsWell(events, limit, total, last) ==
    /\ events[last].type = "close" /\ events[last].code = 0
    /\ \A j \in 1 .. last - 1 : events[j].type = "data"
    /\ total[last - 1] <= limit

\* After k events: while it runs there was only output, counted until it is too much; it is ok only
\* if it ended well.
RunAfter(events, limit, total, k, run) ==
    /\ run.result = "running" =>
          /\ \A j \in 1 .. k : events[j].type = "data"
          /\ ~run.oversized => run.size = total[k] /\ total[k] <= limit
    /\ run.result = "ok" => \E last \in 1 .. k : EndsWell(events, limit, total, last)

\* A run stays a run.
LEMMA RunStays ==
    ASSUME NEW run \in Runs, NEW event, NEW limit \in Nat, event.size \in Nat,
           event.type \in {"data", "timer", "error", "close"}
    PROVE  IG!JlistStep(run, event, limit) \in Runs
<1>1. /\ run = [result |-> run.result, size |-> run.size, oversized |-> run.oversized]
      /\ run.result \in {"running", "timeout", "spawn-error", "oversized-stdout", "non-zero-exit", "ok"}
      /\ run.size \in Int /\ run.oversized \in BOOLEAN
    BY DEF Runs
<1>2. \A result \in {"timeout", "spawn-error", "oversized-stdout", "non-zero-exit", "ok"} :
         [run EXCEPT !.result = result] \in Runs
    <2>1. \A result : [run EXCEPT !.result = result] = [result |-> result, size |-> run.size, oversized |-> run.oversized]
        BY <1>1
    <2> QED  BY <1>1, <2>1 DEF Runs
<1>3. [run EXCEPT !.size = @ + event.size, !.oversized = run.size + event.size > limit] \in Runs
    <2> DEFINE size == run.size + event.size
               over == size > limit
    <2>1. size \in Int /\ over \in BOOLEAN
        BY <1>1
    <2> HIDE DEF size, over
    <2>2. [run EXCEPT !.size = size, !.oversized = over] \in Runs
        BY <2>1 DEF Runs
    <2> QED  BY <2>2 DEF size, over
<1>4. CASE run.result # "running"
    BY <1>4 DEF IG!JlistStep
<1>5. CASE run.result = "running"
    BY <1>2, <1>3, <1>5 DEF IG!JlistStep
<1> QED  BY <1>4, <1>5

\* The next event keeps it so.
LEMMA NextEventFits ==
    ASSUME NEW events, NEW limit \in Nat, NEW k \in Nat \ {0}, NEW total, total[k - 1] \in Int,
           total[k] = total[k - 1] + events[k].size,
           events[k].type \in {"data", "timer", "error", "close"}, events[k].size \in Nat,
           NEW run \in Runs, RunAfter(events, limit, total, k - 1, run),
           NEW next, next = IG!JlistStep(run, events[k], limit)
    PROVE  RunAfter(events, limit, total, k, next)
<1> DEFINE event == events[k]
           settled(result) == [run EXCEPT !.result = result]
<1>1. /\ run = [result |-> run.result, size |-> run.size, oversized |-> run.oversized]
      /\ run.result \in {"running", "timeout", "spawn-error", "oversized-stdout", "non-zero-exit", "ok"}
      /\ run.size \in Int /\ run.oversized \in BOOLEAN
    BY DEF Runs
<1>2. \A j \in 1 .. k - 1 : j \in 1 .. k
    OBVIOUS
<1>3. \A j \in 1 .. k : j \in 1 .. k - 1 \/ j = k
    OBVIOUS
<1>4. CASE run.result # "running"
    <2>1. next = run
        BY <1>4 DEF IG!JlistStep
    <2> QED  BY <1>2, <1>4, <2>1 DEF RunAfter
<1>5. CASE run.result = "running" /\ event.type \in {"timer", "error"}
    <2>1. next = settled("timeout") \/ next = settled("spawn-error")
        BY <1>5 DEF IG!JlistStep
    <2> QED  BY <1>1, <2>1 DEF RunAfter
<1>6. CASE run.result = "running" /\ event.type = "data"
    <2>1. next = IF run.oversized THEN run
                 ELSE [run EXCEPT !.size = @ + event.size, !.oversized = run.size + event.size > limit]
        BY <1>6 DEF IG!JlistStep
    <2>2. \A j \in 1 .. k : events[j].type = "data"
        BY <1>3, <1>6 DEF RunAfter
    <2>3. CASE run.oversized
        BY <1>6, <2>1, <2>2, <2>3 DEF RunAfter
    <2>4. CASE ~run.oversized
        <3>1. run.size = total[k - 1] /\ run.size + event.size \in Int
            BY <1>1, <1>6, <2>4 DEF RunAfter
        <3>2. next = [result |-> "running", size |-> run.size + event.size, oversized |-> run.size + event.size > limit]
            BY <1>1, <1>6, <2>1, <2>4
        <3>3. next.result = "running" /\ next.size = total[k] /\ (~next.oversized => total[k] <= limit)
            <4>1. run.size + event.size = total[k] /\ total[k] \in Int
                BY <3>1
            <4> DEFINE over == total[k] > limit
            <4>2. next = [result |-> "running", size |-> total[k], oversized |-> over]
                BY <3>2, <4>1
            <4>3. ~over => total[k] <= limit
                BY <4>1
            <4> HIDE DEF over
            <4> QED  BY <4>2, <4>3
        <3> QED  BY <2>2, <3>3 DEF RunAfter
    <2> QED  BY <2>3, <2>4
<1>7. CASE run.result = "running" /\ event.type = "close"
    <2>1. next = IF run.oversized THEN settled("oversized-stdout")
                 ELSE IF event.code # 0 THEN settled("non-zero-exit") ELSE settled("ok")
        BY <1>7 DEF IG!JlistStep
    <2>2. next.result # "running"
        BY <1>1, <2>1
    <2>3. ASSUME next.result = "ok" PROVE EndsWell(events, limit, total, k)
        <3>1. ~run.oversized /\ event.code = 0
            BY <1>1, <2>1, <2>3
        <3> QED  BY <1>7, <3>1 DEF RunAfter, EndsWell
    <2>4. k \in 1 .. k
        OBVIOUS
    <2> QED  BY <2>2, <2>3, <2>4 DEF RunAfter
<1> QED  BY <1>4, <1>5, <1>6, <1>7

\* A run that is ok ended well.
LEMMA OkEndedWell ==
    ASSUME NEW i, RunAsked(i), IG!Jlist(i.events, i.limit).result = "ok",
           NEW sizes, sizes = [k \in DOMAIN i.events |-> i.events[k].size],
           NEW total, Totals(sizes, 0, total)
    PROVE  \E last \in DOMAIN i.events : EndsWell(i.events, i.limit, total, last)
<1> DEFINE events == i.events
           limit == i.limit
           n == Len(events)
           base == [result |-> "running", size |-> 0, oversized |-> FALSE]
           step == [p \in (1 .. n) \X Runs |-> IG!JlistStep(p[2], events[p[1]], limit)]
           P(f) == f = [x \in SUBSET (DOMAIN events) |-> IF x = {} THEN base ELSE IG!JlistStep(f[x \ {Max(x)}], events[Max(x)], limit)]
           fold == CHOOSE f : P(f)
<1>1. IG!Jlist(events, limit) = fold[DOMAIN events]
    <2>1. \A x : IG!Max(x) = Max(x)
        BY DEF IG!Max, Max
    <2> QED  BY <2>1 DEF IG!Jlist, IG!FoldLeft, IG!MapThenFoldSet
<1>2. n \in Nat /\ DOMAIN events = 1 .. n /\ limit \in Nat
    BY DEF RunAsked
<1>3. \A k \in 1 .. n : events[k].type \in {"data", "timer", "error", "close"} /\ events[k].size \in Nat
    BY <1>2 DEF RunAsked
<1>4. \A k \in 1 .. n, run \in Runs : IG!JlistStep(run, events[k], limit) \in Runs
    <2> HIDE DEF events, limit, n
    <2> QED  BY <1>2, <1>3, RunStays
<1>5. step \in [(1 .. n) \X Runs -> Runs] /\ \A k \in 1 .. n, run \in Runs : step[<<k, run>>] = IG!JlistStep(run, events[k], limit)
    <2> HIDE DEF events, limit, n
    <2> QED  BY <1>4
<1>6. base \in Runs
    BY DEF Runs
<1> HIDE DEF base, step, n, events, limit
<1>7. \A x \in SUBSET (1 .. n) : x # {} => Max(x) \in 1 .. n
    BY <1>2, LargestIsThere
<1>8. P(fold)
    <2>1. PICK f : Folds(f, n, Runs, base, step)
        BY <1>2, <1>5, <1>6, FoldExists
    <2>2. \A x \in SUBSET (1 .. n) : x # {} => f[x] = IG!JlistStep(f[x \ {Max(x)}], events[Max(x)], limit)
        BY <1>5, <1>7, <2>1 DEF Folds
    <2>3. P(f)
        BY <1>2, <2>1, <2>2 DEF Folds
    <2> HIDE DEF P
    <2> QED  BY <2>3
<1> HIDE DEF fold
<1>9. fold[{}] = base
      /\ \A x \in SUBSET (1 .. n) : x # {} => fold[x] = IG!JlistStep(fold[x \ {Max(x)}], events[Max(x)], limit)
    BY <1>2, <1>8
<1>10. Loops(fold, n, Runs, step)
    <2>1. ASSUME NEW x \in SUBSET (1 .. n), x # {}, fold[x \ {Max(x)}] \in Runs
          PROVE  fold[x] = step[<<Max(x), fold[x \ {Max(x)}]>>]
        BY <1>5, <1>7, <1>9, <2>1
    <2>2. Obeys(fold, n, Runs, step)
        BY <1>6, <1>9, <2>1 DEF Obeys
    <2> QED  BY <1>2, <1>5, <2>2, FoldIsLoop
<1>11. /\ total[0] = 0 /\ \A k \in 0 .. n : total[k] \in Int
       /\ \A k \in 1 .. n : total[k] = total[k - 1] + events[k].size
    <2>1. Len(sizes) = n /\ \A k \in 1 .. n : sizes[k] = events[k].size
        BY <1>2 DEF events
    <2> QED  BY <2>1 DEF Totals
<1> DEFINE G == {k \in 0 .. n : RunAfter(events, limit, total, k, fold[1 .. k])}
<1>12. 0 \in G
    <2>1. 1 .. 0 = {} /\ 0 \in 0 .. n
        BY <1>2
    <2>2. RunAfter(events, limit, total, 0, base)
        BY <1>2, <1>11 DEF RunAfter, base
    <2> QED  BY <1>9, <2>1, <2>2
<1>13. ASSUME NEW k \in 1 .. n, k - 1 \in G PROVE k \in G
    <2>1. k \in Nat \ {0} /\ k \in 0 .. n /\ k - 1 \in 0 .. n
        BY <1>2
    <2>2. fold[1 .. (k - 1)] \in Runs /\ fold[1 .. k] = step[<<k, fold[1 .. (k - 1)]>>]
        BY <1>10, <2>1 DEF Loops
    <2>3. fold[1 .. k] = IG!JlistStep(fold[1 .. (k - 1)], events[k], limit)
        BY <1>5, <2>2
    <2>4. RunAfter(events, limit, total, k - 1, fold[1 .. (k - 1)])
        BY <1>13
    <2>5. total[k - 1] \in Int /\ total[k] = total[k - 1] + events[k].size
        BY <1>11, <2>1
    <2>6. RunAfter(events, limit, total, k, fold[1 .. k])
        BY <1>2, <1>3, <2>1, <2>2, <2>3, <2>4, <2>5, NextEventFits
    <2> QED  BY <2>1, <2>6
<1>14. n \in G
    <2> HIDE DEF G
    <2>1. 0 .. n \subseteq G
        BY <1>2, <1>12, <1>13, Upwards
    <2> QED  BY <1>2, <2>1
<1>15. fold[1 .. n].result = "ok"
    BY <1>1, <1>2 DEF events, limit
<1>16. \E last \in 1 .. n : EndsWell(events, limit, total, last)
    BY <1>14, <1>15 DEF RunAfter
<1> QED  BY <1>2, <1>16 DEF events, limit

\* The sum of the first of some numbers is the total so far.
LEMMA FirstOfSum ==
    ASSUME NEW s \in Seq(Int), NEW total, Totals(s, 0, total), NEW m \in 0 .. Len(s),
           NEW r, r = [k \in 1 .. m |-> s[k]]
    PROVE  FoldLeft(IG!Plus, 0, r) = total[m]
<1>1. m \in Nat /\ r \in Seq(Int) /\ Len(r) = m /\ \A k \in 1 .. m : r[k] = s[k] /\ k \in 1 .. Len(s)
    OBVIOUS
<1>2. PICK t : Totals(r, 0, t) /\ FoldLeft(IG!Plus, 0, r) = t[m]
    <2>1. 0 \in Int
        OBVIOUS
    <2>2. PICK t : Totals(r, 0, t) /\ FoldLeft(IG!Plus, 0, r) = t[Len(r)]
        BY <1>1, <2>1, SumAdds
    <2> QED  BY <1>1, <2>2
<1>3. /\ t[0] = 0 /\ total[0] = 0
      /\ \A k \in 1 .. m : t[k] = t[k - 1] + s[k] /\ total[k] = total[k - 1] + s[k]
    BY <1>1, <1>2 DEF Totals
<1> DEFINE G == {k \in 0 .. m : t[k] = total[k]}
<1>4. 0 \in G
    BY <1>1, <1>3
<1>5. ASSUME NEW k \in 1 .. m, k - 1 \in G PROVE k \in G
    BY <1>1, <1>3, <1>5
<1>6. m \in G
    <2> HIDE DEF G
    <2>1. 0 .. m \subseteq G
        BY <1>1, <1>4, <1>5, Upwards
    <2> QED  BY <1>1, <2>1
<1> QED  BY <1>2, <1>6

\* Processes are listed from a complete run.
LEMMA RunsFit ==
    ASSUME topic = "processes" => RunAsked(input) /\ output = Processes(input)
    PROVE  ListedFromACompleteRun
<1> SUFFICES ASSUME topic = "processes", output.ok PROVE ListedFromACompleteRun
    BY DEF ListedFromACompleteRun
<1> DEFINE events == input.events
           entries == input.entries
           sizes == [k \in DOMAIN events |-> events[k].size]
<1>1. /\ IG!Jlist(events, input.limit).result = "ok"
      /\ output.processes = IG!MapPm2ProcessesToOperationsView(entries, {"web", "hermes"})
    BY DEF Processes, IG!GetProcesses
<1>2. Len(events) \in Nat /\ DOMAIN events = 1 .. Len(events) /\ \A k \in DOMAIN events : events[k].size \in Nat
    BY DEF RunAsked
<1>3. sizes \in Seq(Int) /\ Len(sizes) = Len(events)
    BY <1>2
<1>4. PICK total : Totals(sizes, 0, total)
    <2>1. 0 \in Int
        OBVIOUS
    <2> HIDE DEF sizes
    <2> QED  BY <1>3, <2>1, SumAdds
<1>5. PICK last \in DOMAIN events : EndsWell(events, input.limit, total, last)
    <2>1. sizes = [k \in DOMAIN input.events |-> input.events[k].size]
        OBVIOUS
    <2>2. RunAsked(input) /\ IG!Jlist(input.events, input.limit).result = "ok"
        BY <1>1
    <2> HIDE DEF sizes
    <2> QED  BY <1>4, <2>1, <2>2, OkEndedWell
<1>6. FoldLeft(IG!Plus, 0, [k \in 1 .. last - 1 |-> events[k].size]) <= input.limit
    <2>1. last - 1 \in 0 .. Len(sizes) /\ \A k \in 1 .. last - 1 : k \in DOMAIN events
        BY <1>2, <1>3
    <2>2. [k \in 1 .. last - 1 |-> events[k].size] = [k \in 1 .. last - 1 |-> sizes[k]]
        BY <2>1
    <2> HIDE DEF sizes, events
    <2> DEFINE r == [k \in 1 .. last - 1 |-> events[k].size]
    <2>3. FoldLeft(IG!Plus, 0, r) = total[last - 1]
        <3>1. r = [k \in 1 .. last - 1 |-> sizes[k]]
            BY <2>2
        <3> HIDE DEF r
        <3> QED  BY <1>3, <1>4, <2>1, <3>1, FirstOfSum
    <2> QED  BY <1>5, <2>3 DEF EndsWell
<1>7. ASSUME NEW name \in DOMAIN output.processes, output.processes[name].status = "online"
      PROVE  \E k \in DOMAIN entries : entries[k] = [name |-> name, status |-> "online"]
    <2> DEFINE own == {k \in DOMAIN entries : entries[k].name = name}
               n == Len(entries)
    <2>1. n \in Nat /\ own \in SUBSET (1 .. n) /\ \A k \in own : k \in DOMAIN entries /\ entries[k].name = name
        BY DEF RunAsked
    <2>2. name \in {"web", "hermes"}
        BY <1>1 DEF IG!MapPm2ProcessesToOperationsView
    <2>3. output.processes[name].status =
             IF own = {} THEN "unknown"
             ELSE IF entries[IG!Latest(own)].status \in {"online", "stopped", "errored", "launching"} THEN entries[IG!Latest(own)].status
             ELSE "unknown"
        <3> DEFINE status == entries[IG!Latest(own)].status
                   known == IF status \in {"online", "stopped", "errored", "launching"} THEN status ELSE "unknown"
        <3>1. output.processes[name] =
                 IF own = {} THEN [available |-> FALSE, status |-> "unknown", timed |-> FALSE]
                 ELSE [available |-> TRUE, status |-> known, timed |-> known \in {"online", "launching"}]
            <4>1. output.processes[name] = IG!MapPm2ProcessesToOperationsView(entries, {"web", "hermes"})[name]
                BY <1>1
            <4> HIDE DEF entries
            <4> QED  BY <2>2, <4>1 DEF IG!MapPm2ProcessesToOperationsView
        <3> HIDE DEF own, status
        <3> QED  BY <3>1 DEF status
    <2> HIDE DEF own, n
    <2>4. own # {} /\ entries[IG!Latest(own)].status = "online"
        BY <1>7, <2>3
    <2>5. IG!Latest(own) \in own
        BY <2>1, <2>4, EndsAreThere
    <2>6. \A k \in DOMAIN entries : entries[k] = [name |-> entries[k].name, status |-> entries[k].status]
        BY DEF RunAsked
    <2> HIDE DEF entries
    <2> QED  BY <2>1, <2>4, <2>5, <2>6
<1> QED  BY <1>5, <1>6, <1>7 DEF ListedFromACompleteRun, EndsWell

-----------------------------------------------------------------------------
(* Requests with any such input.                                           *)

ViewAny ==
    \/ \E i : DecisionsAsked(i) /\ Ask("decisions", {i}, Listed)
    \/ \E i : SummaryAsked(i) /\ Ask("summary", {i}, Summarised)
    \/ \E i : SnapshotAsked(i) /\ Ask("snapshot", {i}, Snapshots)
    \/ \E i : SnapshotAsked(i) /\ Ask("portfolio", {i}, Portfolios)
    \/ \E i : RunAsked(i) /\ Ask("processes", {i}, Processes)
ViewSpec == NothingAsked /\ [][ViewAny]_call

\* What was asked was proper, and has been answered by the route.
Viewed ==
    /\ topic = "decisions" => DecisionsAsked(input) /\ output = Listed(input)
    /\ topic = "summary" => SummaryAsked(input) /\ output = Summarised(input)
    /\ topic = "snapshot" => SnapshotAsked(input) /\ output = Snapshots(input)
    /\ topic = "portfolio" => SnapshotAsked(input) /\ output = Portfolios(input)
    /\ topic = "processes" => RunAsked(input) /\ output = Processes(input)

\* Whatever the log, the broker and the process manager: a candidate is shown under the one decision
\* that made it and with what became of it, the newest decision comes first, a summary is of the
\* present run, a position is priced as the instrument it is in, an equity is given whole or not at
\* all, and processes are listed from a complete run of pm2.
THEOREM RoutesTellTheTruth ==
    ASSUME None \notin {"decisions", "summary", "snapshot", "portfolio", "processes"}
    PROVE  ViewSpec => []ViewsAreTrue
<1>1. NothingAsked => Viewed
    BY DEF NothingAsked, Viewed, topic, input, output
<1>2. Viewed /\ [ViewAny]_call => Viewed'
    <2> SUFFICES ASSUME Viewed, [ViewAny]_call PROVE Viewed'
        OBVIOUS
    <2>1. CASE UNCHANGED call
        BY <2>1 DEF Viewed, topic, input, output
    <2>2. ASSUME NEW i, DecisionsAsked(i), Ask("decisions", {i}, Listed) PROVE Viewed'
        <3>1. topic' = "decisions" /\ input' = i /\ output' = Listed(i)
            BY <2>2 DEF Ask, topic, input, output
        <3> QED  BY <2>2, <3>1 DEF Viewed
    <2>3. ASSUME NEW i, SummaryAsked(i), Ask("summary", {i}, Summarised) PROVE Viewed'
        <3>1. topic' = "summary" /\ input' = i /\ output' = Summarised(i)
            BY <2>3 DEF Ask, topic, input, output
        <3> QED  BY <2>3, <3>1 DEF Viewed
    <2>4. ASSUME NEW i, SnapshotAsked(i), Ask("snapshot", {i}, Snapshots) PROVE Viewed'
        <3>1. topic' = "snapshot" /\ input' = i /\ output' = Snapshots(i)
            BY <2>4 DEF Ask, topic, input, output
        <3> QED  BY <2>4, <3>1 DEF Viewed
    <2>5. ASSUME NEW i, SnapshotAsked(i), Ask("portfolio", {i}, Portfolios) PROVE Viewed'
        <3>1. topic' = "portfolio" /\ input' = i /\ output' = Portfolios(i)
            BY <2>5 DEF Ask, topic, input, output
        <3> QED  BY <2>5, <3>1 DEF Viewed
    <2>6. ASSUME NEW i, RunAsked(i), Ask("processes", {i}, Processes) PROVE Viewed'
        <3>1. topic' = "processes" /\ input' = i /\ output' = Processes(i)
            BY <2>6 DEF Ask, topic, input, output
        <3> QED  BY <2>6, <3>1 DEF Viewed
    <2> QED  BY <2>1, <2>2, <2>3, <2>4, <2>5, <2>6 DEF ViewAny
<1>3. Viewed => ViewsAreTrue
    BY OutcomesAreOwn, NewestIsFirst, SummaryFits, PricesFit, AccountFits, RunsFit DEF Viewed, ViewsAreTrue
<1> QED  BY <1>1, <1>2, <1>3, PTL DEF ViewSpec
=============================================================================
