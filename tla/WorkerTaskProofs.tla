-------------------------- MODULE WorkerTaskProofs --------------------------
(*************************************************************************)
(* Proofs about one worker_t and the tasks it serves.                    *)
(*                                                                       *)
(* What the accumulating loops of the analytics compute, for every       *)
(* history of trades: bar_t and rollup_bar_t cover exactly the trades of *)
(* the requested period.  The loops are folds, followed turn by turn,    *)
(* and the bar after k trades is shown to cover the trades of the period *)
(* among them.                                                           *)
(*                                                                       *)
(* Then types, that every reply answers its own request, the lock it     *)
(* carries and the volume it states.  The invariant Answers follows a    *)
(* task from its request to its reply: it says what the members that     *)
(* outlive a task hold when they are read.                               *)
(*************************************************************************)
EXTENDS WorkerTask, Loops

(* The values the accumulators, bars and trades of bar_t and             *)
(* rollup_bar_t have.                                                    *)
Sample == [value : Int, empty : BOOLEAN]
Volume == 0..(Word - 1)
Bar == [open : Sample, high : Sample, low : Sample, close : Sample,
        volume : Volume, number_trades : Nat]
Trade == [time : Int, price : Int, volume : Volume]

(* A uint64_t sum is a uint64_t.                                         *)
LEMMA PlusVolume ==
    ASSUME NEW a \in Int, NEW x \in Int
    PROVE  Plus(a, x) \in Volume
  BY AnalyticsAssumption DEF Plus, Volume

(* ... and the sum, if that is one.                                      *)
LEMMA PlusExact ==
    ASSUME NEW a \in Int, NEW x \in Int, a + x \in Volume
    PROVE  Plus(a, x) = a + x
  BY AnalyticsAssumption DEF Plus, Volume

(* vta::bar_t::OnRecord leaves accumulators.                             *)
LEMMA BarOnRecordType ==
    ASSUME NEW b \in Bar, NEW t \in Trade
    PROVE  BarOnRecord(b, t) \in Bar
  <1>1. Plus(b.volume, t.volume) \in Volume
    BY PlusVolume DEF Bar, Trade, Volume
  <1>2. b.open \in Sample /\ b.high \in Sample /\ b.low \in Sample /\ t.price \in Int
        /\ b.number_trades \in Nat
    BY DEF Bar, Trade
  <1>3. FirstValue(b.open, t.price) \in Sample /\ LastValue(b.close, t.price) \in Sample
    BY <1>2 DEF FirstValue, LastValue, Sample
  <1>4. Highest(b.high, t.price) \in Sample /\ Lowest(b.low, t.price) \in Sample
    BY <1>2 DEF Highest, Lowest, LastValue, Sample
  <1> QED BY <1>1, <1>2, <1>3, <1>4 DEF BarOnRecord, Bar

(* A turn of the loop of vta::bar_t::Calculate.                          *)
BarStep(p, a, t) == IF InWindow(p, t) THEN BarOnRecord(a, t) ELSE a

(* r holds the bars of vta::bar_t::Calculate, from b, turn by turn.      *)
BarSteps(r, b, p, seen) ==
    /\ r \in [0..Len(seen) -> Bar]
    /\ r[0] = b /\ r[Len(seen)] = BarCalculate(b, p, seen)
    /\ \A k \in 1..Len(seen) : r[k] = BarStep(p, r[k - 1], seen[k])

(* vta::bar_t::Calculate as that loop.                                   *)
LEMMA BarCalculateSteps ==
    ASSUME NEW b \in Bar, NEW p, NEW seen \in Seq(Trade)
    PROVE  \E r : BarSteps(r, b, p, seen)
  <1> DEFINE n == Len(seen)
             f == [x \in Bar \X Trade |-> BarStep(p, x[1], x[2])]
             Is(g) == g = [s \in SUBSET (1..n) |->
                             IF s = {} THEN b
                             ELSE BarStep(p, g[s \ {Max(s)}], seen[Max(s)])]
             h == CHOOSE g : Is(g)
  <1>1. f \in [Bar \X Trade -> Bar]
    BY BarOnRecordType DEF BarStep
  <1>2. \A a \in Bar, t \in Trade : f[<<a, t>>] = BarStep(p, a, t)
    OBVIOUS
  <1>3. n \in Nat /\ (\A i \in 1..n : seen[i] \in Trade) /\ DOMAIN seen = 1..n
    OBVIOUS
  <1>4. BarCalculate(b, p, seen) = h[1..n]
    BY <1>3 DEF BarCalculate, FoldLeft, MapThenFoldSet, BarStep
  <1> HIDE DEF f, n
  <1>5. \A s \in SUBSET (1..n) : s # {} => seen[Max(s)] \in Trade
    BY <1>3, MaxOfInterval
  <1>6. PICK g : Folds(g, f, b, seen, n, Bar)
    BY <1>1, <1>3, FoldExists
  <1>7. Is(g)
    BY <1>2, <1>5, <1>6 DEF Folds
  <1>8. Is(h)
    <2> HIDE DEF Is
    <2> QED BY <1>7
  <1> HIDE DEF h
  <1>9. FoldsFrom(h, f, b, seen, n, Bar)
    BY <1>2, <1>5, <1>8 DEF FoldsFrom
  <1>10. PICK r : Steps(r, f, b, seen, n, Bar, h[1..n])
    BY <1>1, <1>3, <1>9, FoldSteps
  <1>11. ASSUME NEW k \in 1..n PROVE r[k] = BarStep(p, r[k - 1], seen[k])
    <2>1. k - 1 \in 0..n BY <1>3
    <2>2. r[k - 1] \in Bar /\ seen[k] \in Trade BY <1>3, <1>10, <2>1 DEF Steps
    <2> QED BY <1>2, <1>10, <2>2 DEF Steps
  <1> QED BY <1>4, <1>10, <1>11 DEF n, Steps, BarSteps

(* The first and the last position of a set.                             *)
OpensAt(S, i) == i \in S /\ \A j \in S : i <= j
ClosesAt(S, i) == i \in S /\ \A j \in S : j <= i

(* An accumulator that has a value.                                      *)
Holds(a, x) == ~a.empty /\ a.value = x

(* A bar is of the trades at S: first, last, highest and lowest price.   *)
OfTrades(b, seen, S) ==
    /\ \E i \in S : OpensAt(S, i) /\ Holds(b.open, seen[i].price)
    /\ \E i \in S : ClosesAt(S, i) /\ Holds(b.close, seen[i].price)
    /\ \E i \in S : Holds(b.high, seen[i].price)
    /\ \E i \in S : Holds(b.low, seen[i].price)
    /\ \A i \in S : /\ b.low.value <= seen[i].price
                    /\ seen[i].price <= b.high.value

(* ... their number, and their volume v as far as a uint64_t can tell.   *)
Covers(b, seen, S, v) ==
    /\ b \in Bar
    /\ v \in Nat
    /\ b.number_trades = Cardinality(S)
    /\ v \in Volume => b.volume = v
    /\ S = {} => b = NullBar /\ v = 0
    /\ S # {} => OfTrades(b, seen, S)

(* The bar as Reset leaves it covers no trade.                           *)
LEMMA NullCovers ==
    ASSUME NEW seen
    PROVE  Covers(NullBar, seen, {}, 0)
  <1>1. Cardinality({}) = 0 BY FS_EmptySet
  <1>2. NullBar \in Bar
    BY AnalyticsAssumption DEF NullBar, Bar, NoSample, Sample, Volume
  <1> QED BY <1>1, <1>2 DEF Covers, NullBar, Volume

(* vta::bar_t::OnRecord adds a later trade to those a bar covers.        *)
LEMMA OnRecordCovers ==
    ASSUME NEW seen, NEW S \in SUBSET Nat, IsFiniteSet(S), NEW i \in Nat, seen[i] \in Trade,
           \A j \in S : j < i /\ seen[j] \in Trade,
           NEW b, NEW v, Covers(b, seen, S, v)
    PROVE  Covers(BarOnRecord(b, seen[i]), seen, S \cup {i}, v + seen[i].volume)
  <1> DEFINE t == seen[i]
             c == BarOnRecord(b, t)
             T == S \cup {i}
  <1>1. c \in Bar /\ b \in Bar /\ v \in Nat /\ v + t.volume \in Nat /\ t.volume \in Nat /\ t.price \in Int
    BY BarOnRecordType DEF Covers, Trade, Volume
  <1>2. c.number_trades = Cardinality(T)
    <2>1. Cardinality(T) = Cardinality(S) + 1
      <3>1. i \notin S OBVIOUS
      <3>2. Cardinality(S) \in Nat BY FS_CardinalityType
      <3> QED BY <3>1, <3>2, FS_AddElement
    <2> QED BY <2>1 DEF Covers, BarOnRecord
  <1>3. v + t.volume \in Volume => c.volume = v + t.volume
    <2>1. SUFFICES ASSUME v + t.volume \in Volume PROVE c.volume = v + t.volume
      OBVIOUS
    <2>2. v \in Volume BY <1>1, <2>1, AnalyticsAssumption DEF Volume
    <2>3. b.volume = v BY <2>2 DEF Covers
    <2>4. Plus(v, t.volume) = v + t.volume
      BY <1>1, <2>1, PlusExact
    <2> QED BY <2>3, <2>4 DEF BarOnRecord
  <1>4. ClosesAt(T, i) /\ Holds(c.close, t.price)
    BY DEF ClosesAt, Holds, BarOnRecord, LastValue
  <1>5. \E k \in T : OpensAt(T, k) /\ Holds(c.open, seen[k].price)
    <2>1. CASE S = {}
      <3>1. c.open = [value |-> t.price, empty |-> FALSE]
        BY <2>1 DEF Covers, NullBar, NoSample, BarOnRecord, FirstValue
      <3> QED BY <2>1, <3>1 DEF OpensAt, Holds
    <2>2. CASE S # {}
      <3>1. PICK k \in S : OpensAt(S, k) /\ Holds(b.open, seen[k].price)
        BY <2>2 DEF Covers, OfTrades
      <3>2. c.open = b.open BY <3>1 DEF Holds, BarOnRecord, FirstValue
      <3>3. OpensAt(T, k) BY <3>1 DEF OpensAt
      <3> QED BY <3>1, <3>2, <3>3
    <2> QED BY <2>1, <2>2
  <1>6. /\ \E k \in T : Holds(c.high, seen[k].price)
        /\ \A k \in T : seen[k].price <= c.high.value
    <2>1. CASE S = {}
      <3>1. c.high = [value |-> t.price, empty |-> FALSE]
        BY <2>1 DEF Covers, NullBar, NoSample, BarOnRecord, Highest, LastValue
      <3> QED BY <1>1, <2>1, <3>1 DEF Holds
    <2>2. CASE S # {}
      <3>1. PICK k \in S : Holds(b.high, seen[k].price)
        BY <2>2 DEF Covers, OfTrades
      <3>2. \A j \in S : seen[j].price <= b.high.value /\ seen[j].price \in Int
        BY <2>2 DEF Covers, OfTrades, Trade
      <3>3. b.high.value \in Int BY <3>1, <3>2 DEF Holds
      <3>4. c.high = IF t.price > b.high.value THEN [value |-> t.price, empty |-> FALSE] ELSE b.high
        BY <3>1 DEF Holds, BarOnRecord, Highest, LastValue
      <3>5. CASE t.price > b.high.value
        BY <1>1, <3>2, <3>3, <3>4, <3>5 DEF Holds
      <3>6. CASE ~(t.price > b.high.value)
        BY <1>1, <3>1, <3>2, <3>3, <3>4, <3>6
      <3> QED BY <3>5, <3>6
    <2> QED BY <2>1, <2>2
  <1>7. /\ \E k \in T : Holds(c.low, seen[k].price)
        /\ \A k \in T : c.low.value <= seen[k].price
    <2>1. CASE S = {}
      <3>1. c.low = [value |-> t.price, empty |-> FALSE]
        BY <2>1 DEF Covers, NullBar, NoSample, BarOnRecord, Lowest, LastValue
      <3> QED BY <1>1, <2>1, <3>1 DEF Holds
    <2>2. CASE S # {}
      <3>1. PICK k \in S : Holds(b.low, seen[k].price)
        BY <2>2 DEF Covers, OfTrades
      <3>2. \A j \in S : b.low.value <= seen[j].price /\ seen[j].price \in Int
        BY <2>2 DEF Covers, OfTrades, Trade
      <3>3. b.low.value \in Int BY <3>1, <3>2 DEF Holds
      <3>4. c.low = IF t.price < b.low.value THEN [value |-> t.price, empty |-> FALSE] ELSE b.low
        BY <3>1 DEF Holds, BarOnRecord, Lowest, LastValue
      <3>5. CASE t.price < b.low.value
        BY <1>1, <3>2, <3>3, <3>4, <3>5 DEF Holds
      <3>6. CASE ~(t.price < b.low.value)
        BY <1>1, <3>1, <3>2, <3>3, <3>4, <3>6
      <3> QED BY <3>5, <3>6
    <2> QED BY <2>1, <2>2
  <1>8. T # {} /\ i \in T /\ seen[i] = t OBVIOUS
  <1> HIDE DEF T, c, t
  <1>9. OfTrades(c, seen, T)
    BY <1>4, <1>5, <1>6, <1>7, <1>8 DEF OfTrades
  <1> QED BY <1>1, <1>2, <1>3, <1>8, <1>9 DEF Covers, T, c, t

(* V holds the sums of the volumes at S, position by position.           *)
Sums(V, S, seen) ==
    /\ V \in [0..Len(seen) -> Nat]
    /\ V[0] = 0
    /\ \A k \in 1..Len(seen) :
          V[k] = IF k \in S THEN V[k - 1] + seen[k].volume ELSE V[k - 1]

(* The positions of S after lo, up to hi.                                *)
Between(S, lo, hi) == {i \in S : lo < i /\ i <= hi}

(* vta::bar_t::Calculate from a reset bar covers the trades of the       *)
(* period, all of them and no other, for every history and every period. *)
THEOREM BarCovers ==
    ASSUME NEW seen \in Seq(Trade), NEW p, NEW V, Sums(V, InPeriod(p, seen), seen)
    PROVE  Covers(BarCalculate(NullBar, p, seen), seen, InPeriod(p, seen), V[Len(seen)])
  <1> DEFINE n == Len(seen)
             S == InPeriod(p, seen)
  <1>1. n \in Nat /\ S \subseteq 1..n /\ \A i \in 1..n : seen[i] \in Trade
    BY DEF InPeriod
  <1>2. NullBar \in Bar /\ Covers(NullBar, seen, {}, 0)
    BY NullCovers DEF Covers
  <1>3. PICK r \in [0..n -> Bar] :
              /\ r[0] = NullBar /\ r[n] = BarCalculate(NullBar, p, seen)
              /\ \A k \in 1..n : r[k] = BarStep(p, r[k - 1], seen[k])
    <2>1. NullBar \in Bar BY <1>2
    <2>2. \E r : BarSteps(r, NullBar, p, seen) BY <2>1, BarCalculateSteps
    <2> QED BY <2>2 DEF BarSteps
  <1> DEFINE K == {k \in Nat : Covers(r[k], seen, Between(S, 0, k), V[k])}
  <1>4. 0 \in K
    <2>1. Between(S, 0, 0) = {} BY <1>1 DEF Between
    <2> QED BY <1>2, <1>3, <2>1 DEF Sums
  <1>5. ASSUME NEW k \in 1..n, k - 1 \in K PROVE k \in K
    <2> DEFINE B == Between(S, 0, k - 1)
    <2>1. Covers(r[k - 1], seen, B, V[k - 1]) BY <1>5
    <2>2. CASE k \in S
      <3>1. InWindow(p, seen[k]) BY <2>2 DEF InPeriod
      <3>2. Between(S, 0, k) = B \cup {k} BY <1>1, <2>2 DEF Between
      <3>3. /\ B \in SUBSET Nat /\ IsFiniteSet(B)
            /\ \A j \in B : j < k /\ seen[j] \in Trade
        <4>1. B \subseteq 1..n /\ \A j \in B : j < k BY <1>1 DEF Between
        <4>2. IsFiniteSet(1..n) BY <1>1, FS_Interval
        <4>3. IsFiniteSet(B) BY <4>1, <4>2, FS_Subset
        <4> HIDE DEF B
        <4> QED BY <1>1, <4>1, <4>3
      <3>4. k \in Nat /\ seen[k] \in Trade BY <1>1
      <3> HIDE DEF B
      <3>5. Covers(BarOnRecord(r[k - 1], seen[k]), seen, B \cup {k},
                   V[k - 1] + seen[k].volume)
        BY <2>1, <3>3, <3>4, OnRecordCovers
      <3>6. r[k] = BarOnRecord(r[k - 1], seen[k]) BY <1>3, <3>1 DEF BarStep
      <3>7. V[k] = V[k - 1] + seen[k].volume BY <2>2 DEF Sums
      <3> QED BY <3>2, <3>4, <3>5, <3>6, <3>7
    <2>3. CASE k \notin S
      <3>1. ~InWindow(p, seen[k]) BY <2>3 DEF InPeriod
      <3>2. Between(S, 0, k) = B BY <1>1, <2>3 DEF Between
      <3>3. r[k] = r[k - 1] /\ V[k] = V[k - 1] BY <1>3, <2>3, <3>1 DEF BarStep, Sums
      <3> HIDE DEF B
      <3> QED BY <2>1, <3>2, <3>3
    <2> QED BY <2>2, <2>3
  <1>6. n \in K
    <2> HIDE DEF K, n
    <2>1. \A k \in 0..n : k \in K BY <1>1, <1>4, <1>5, InductionUpTo
    <2> QED BY <1>1, <2>1
  <1>7. Between(S, 0, n) = S
    BY <1>1 DEF Between
  <1> QED BY <1>3, <1>6, <1>7

(* Nothing adds up to 0.                                                 *)
LEMMA SumsOfNothing ==
    ASSUME NEW h, Len(h) \in Nat, NEW V, Sums(V, {}, h)
    PROVE  V[Len(h)] = 0
  <1> DEFINE n == Len(h)
             K == {k \in Nat : V[k] = 0}
  <1>1. 0 \in K BY DEF Sums
  <1>2. ASSUME NEW k \in 1..n, k - 1 \in K PROVE k \in K
    <2>1. V[k] = V[k - 1] BY DEF Sums
    <2> QED BY <1>2, <2>1
  <1>3. \A k \in 0..n : k \in K
    <2> HIDE DEF K, n
    <2>1. n \in Nat BY DEF n
    <2> QED BY <1>1, <1>2, <2>1, InductionUpTo
  <1> QED BY <1>3

(* vta::rollup_bar_t::OnRecord leaves accumulators.                      *)
LEMMA RollupOnRecordType ==
    ASSUME NEW r \in Bar, NEW b \in Bar
    PROVE  RollupOnRecord(r, b) \in Bar
  <1>1. Plus(r.volume, b.volume) \in Volume /\ Plus(r.number_trades, b.number_trades) \in Nat
    BY PlusVolume DEF Bar, Volume
  <1>2. /\ r.open \in Sample /\ r.high \in Sample /\ r.low \in Sample
        /\ b.open.value \in Int /\ b.high.value \in Int /\ b.low.value \in Int
        /\ b.close.value \in Int
    BY DEF Bar, Sample
  <1>3. FirstValue(r.open, b.open.value) \in Sample /\ LastValue(r.close, b.close.value) \in Sample
    BY <1>2 DEF FirstValue, LastValue, Sample
  <1>4. Highest(r.high, b.high.value) \in Sample /\ Lowest(r.low, b.low.value) \in Sample
    BY <1>2 DEF Highest, Lowest, LastValue, Sample
  <1> QED BY <1>1, <1>3, <1>4 DEF RollupOnRecord, Bar

(* Numbers of trades add up when no trade is counted twice.              *)
LEMMA DisjointCardinality ==
    ASSUME NEW S, NEW T, IsFiniteSet(S), IsFiniteSet(T), S \cap T = {}
    PROVE  Cardinality(S \cup T) = Cardinality(S) + Cardinality(T)
  <1>1. Cardinality(S \cap T) = 0 BY FS_EmptySet
  <1>2. Cardinality(S) \in Nat /\ Cardinality(T) \in Nat BY FS_CardinalityType
  <1>3. Cardinality(S \cup T) = Cardinality(S) + Cardinality(T) - Cardinality(S \cap T)
    BY FS_Union
  <1> QED BY <1>1, <1>2, <1>3

(* vta::rollup_bar_t::OnRecord adds a later bar: the trades of both are  *)
(* covered, and the wrapping sums are exact as long as the counts are.   *)
LEMMA RollupOnRecordCovers ==
    ASSUME NEW seen,
           NEW S \in SUBSET Nat, IsFiniteSet(S), NEW T \in SUBSET Nat, IsFiniteSet(T),
           T # {}, \A i \in S, j \in T : i < j,
           \A i \in S \cup T : seen[i] \in Trade,
           Cardinality(S \cup T) < Word,
           NEW r, NEW v, Covers(r, seen, S, v),
           NEW b, NEW w, Covers(b, seen, T, w)
    PROVE  Covers(RollupOnRecord(r, b), seen, S \cup T, v + w)
  <1> DEFINE c == RollupOnRecord(r, b)
             U == S \cup T
  <1>1. c \in Bar /\ r \in Bar /\ b \in Bar /\ v \in Nat /\ w \in Nat /\ v + w \in Nat
    BY RollupOnRecordType DEF Covers
  <1>2. OfTrades(b, seen, T)
    BY DEF Covers
  <1>3. c.number_trades = Cardinality(U)
    <2>1. Cardinality(U) = Cardinality(S) + Cardinality(T)
      <3>1. S \cap T = {} OBVIOUS
      <3> QED BY <3>1, DisjointCardinality
    <2>2. Cardinality(S) \in Nat /\ Cardinality(T) \in Nat BY FS_CardinalityType
    <2>3. Cardinality(S) + Cardinality(T) \in Volume
      BY <2>1, <2>2, AnalyticsAssumption DEF Volume
    <2>4. Plus(Cardinality(S), Cardinality(T)) = Cardinality(S) + Cardinality(T)
      BY <2>2, <2>3, PlusExact
    <2>5. r.number_trades = Cardinality(S) /\ b.number_trades = Cardinality(T)
      BY DEF Covers
    <2> QED BY <2>1, <2>4, <2>5 DEF RollupOnRecord
  <1>4. v + w \in Volume => c.volume = v + w
    <2>1. SUFFICES ASSUME v + w \in Volume PROVE c.volume = v + w
      OBVIOUS
    <2>2. v \in Volume /\ w \in Volume BY <1>1, <2>1, AnalyticsAssumption DEF Volume
    <2>3. r.volume = v /\ b.volume = w BY <2>2 DEF Covers
    <2>4. Plus(v, w) = v + w
      BY <1>1, <2>1, PlusExact
    <2> QED BY <2>3, <2>4 DEF RollupOnRecord
  <1>5. \E k \in U : ClosesAt(U, k) /\ Holds(c.close, seen[k].price)
    <2>1. PICK k \in T : ClosesAt(T, k) /\ Holds(b.close, seen[k].price)
      BY <1>2 DEF OfTrades
    <2>2. ClosesAt(U, k) BY <2>1 DEF ClosesAt
    <2>3. Holds(c.close, seen[k].price)
      BY <2>1 DEF Holds, RollupOnRecord, LastValue
    <2> QED BY <2>2, <2>3
  <1>6. \E k \in U : OpensAt(U, k) /\ Holds(c.open, seen[k].price)
    <2>1. CASE S = {}
      <3>1. PICK k \in T : OpensAt(T, k) /\ Holds(b.open, seen[k].price)
        BY <1>2 DEF OfTrades
      <3>2. c.open = [value |-> b.open.value, empty |-> FALSE]
        BY <2>1 DEF Covers, NullBar, NoSample, RollupOnRecord, FirstValue
      <3> QED BY <2>1, <3>1, <3>2 DEF OpensAt, Holds
    <2>2. CASE S # {}
      <3>1. PICK k \in S : OpensAt(S, k) /\ Holds(r.open, seen[k].price)
        BY <2>2 DEF Covers, OfTrades
      <3>2. c.open = r.open BY <3>1 DEF Holds, RollupOnRecord, FirstValue
      <3>3. OpensAt(U, k) BY <3>1 DEF OpensAt
      <3> QED BY <3>1, <3>2, <3>3
    <2> QED BY <2>1, <2>2
  <1>7. /\ \E k \in U : Holds(c.high, seen[k].price)
        /\ \A k \in U : seen[k].price <= c.high.value
    <2>1. PICK m \in T : Holds(b.high, seen[m].price)
      BY <1>2 DEF OfTrades
    <2>2. \A j \in T : seen[j].price <= b.high.value /\ seen[j].price \in Int
      BY <1>2 DEF OfTrades, Trade
    <2>3. b.high.value \in Int BY <2>1, <2>2 DEF Holds
    <2>4. CASE S = {}
      <3>1. c.high = [value |-> b.high.value, empty |-> FALSE]
        BY <2>4 DEF Covers, NullBar, NoSample, RollupOnRecord, Highest, LastValue
      <3> QED BY <2>1, <2>2, <2>4, <3>1 DEF Holds
    <2>5. CASE S # {}
      <3>1. PICK k \in S : Holds(r.high, seen[k].price)
        BY <2>5 DEF Covers, OfTrades
      <3>2. \A j \in S : seen[j].price <= r.high.value /\ seen[j].price \in Int
        BY <2>5 DEF Covers, OfTrades, Trade
      <3>3. r.high.value \in Int BY <3>1, <3>2 DEF Holds
      <3>4. c.high = IF b.high.value > r.high.value
                       THEN [value |-> b.high.value, empty |-> FALSE] ELSE r.high
        BY <3>1 DEF Holds, RollupOnRecord, Highest, LastValue
      <3>5. CASE b.high.value > r.high.value
        BY <2>1, <2>2, <2>3, <3>2, <3>3, <3>4, <3>5 DEF Holds
      <3>6. CASE ~(b.high.value > r.high.value)
        BY <2>2, <2>3, <3>1, <3>2, <3>3, <3>4, <3>6
      <3> QED BY <3>5, <3>6
    <2> QED BY <2>4, <2>5
  <1>8. /\ \E k \in U : Holds(c.low, seen[k].price)
        /\ \A k \in U : c.low.value <= seen[k].price
    <2>1. PICK m \in T : Holds(b.low, seen[m].price)
      BY <1>2 DEF OfTrades
    <2>2. \A j \in T : b.low.value <= seen[j].price /\ seen[j].price \in Int
      BY <1>2 DEF OfTrades, Trade
    <2>3. b.low.value \in Int BY <2>1, <2>2 DEF Holds
    <2>4. CASE S = {}
      <3>1. c.low = [value |-> b.low.value, empty |-> FALSE]
        BY <2>4 DEF Covers, NullBar, NoSample, RollupOnRecord, Lowest, LastValue
      <3> QED BY <2>1, <2>2, <2>4, <3>1 DEF Holds
    <2>5. CASE S # {}
      <3>1. PICK k \in S : Holds(r.low, seen[k].price)
        BY <2>5 DEF Covers, OfTrades
      <3>2. \A j \in S : r.low.value <= seen[j].price /\ seen[j].price \in Int
        BY <2>5 DEF Covers, OfTrades, Trade
      <3>3. r.low.value \in Int BY <3>1, <3>2 DEF Holds
      <3>4. c.low = IF b.low.value < r.low.value
                      THEN [value |-> b.low.value, empty |-> FALSE] ELSE r.low
        BY <3>1 DEF Holds, RollupOnRecord, Lowest, LastValue
      <3>5. CASE b.low.value < r.low.value
        BY <2>1, <2>2, <2>3, <3>2, <3>3, <3>4, <3>5 DEF Holds
      <3>6. CASE ~(b.low.value < r.low.value)
        BY <2>2, <2>3, <3>1, <3>2, <3>3, <3>4, <3>6
      <3> QED BY <3>5, <3>6
    <2> QED BY <2>4, <2>5
  <1>9. U # {} OBVIOUS
  <1> HIDE DEF U, c
  <1>10. OfTrades(c, seen, U)
    BY <1>5, <1>6, <1>7, <1>8 DEF OfTrades
  <1> QED BY <1>1, <1>3, <1>4, <1>9, <1>10 DEF Covers, U, c

(* The values of the loop of a rollup: the bar it is at and the bar of   *)
(* bars.                                                                 *)
Partial == [bar : Bar, rollup : Bar]

(* A turn of that loop.                                                  *)
RollupStep(p, seen, cuts, a, i) ==
    IF InRollup(p, seen[i]) THEN RollupOnTrade(a, seen[i], i \in cuts) ELSE a

(* r holds its values.                                                   *)
RollupRun(r, p, seen, cuts) ==
    /\ r \in [0..Len(seen) -> Partial]
    /\ r[0] = [bar |-> NullBar, rollup |-> NullBar]
    /\ r[Len(seen)].rollup = RollupCalculate(NullBar, p, seen, cuts)
    /\ \A k \in 1..Len(seen) : r[k] = RollupStep(p, seen, cuts, r[k - 1], k)

(* vta::rollup_bar_t::Calculate as that loop.                            *)
LEMMA RollupCalculateSteps ==
    ASSUME NEW p, NEW seen \in Seq(Trade), NEW cuts
    PROVE  \E r : RollupRun(r, p, seen, cuts)
  <1> DEFINE n == Len(seen)
             seq == [i \in 1..n |-> i]
             null == [bar |-> NullBar, rollup |-> NullBar]
             f == [x \in Partial \X (1..n) |-> RollupStep(p, seen, cuts, x[1], x[2])]
             Is(g) == g = [s \in SUBSET (1..n) |->
                             IF s = {} THEN null
                             ELSE RollupStep(p, seen, cuts, g[s \ {Max(s)}], seq[Max(s)])]
             h == CHOOSE g : Is(g)
  <1>1. f \in [Partial \X (1..n) -> Partial]
    <2>1. ASSUME NEW a \in Partial, NEW i \in 1..n
          PROVE  RollupStep(p, seen, cuts, a, i) \in Partial
      <3>1. a.bar \in Bar /\ a.rollup \in Bar /\ seen[i] \in Trade BY DEF Partial
      <3>2. BarOnRecord(a.bar, seen[i]) \in Bar BY <3>1, BarOnRecordType
      <3>3. RollupOnRecord(a.rollup, BarOnRecord(a.bar, seen[i])) \in Bar
        BY <3>1, <3>2, RollupOnRecordType
      <3>4. NullBar \in Bar BY NullCovers DEF Covers
      <3> QED BY <3>2, <3>1, <3>3, <3>4 DEF RollupStep, RollupOnTrade, Partial
    <2> QED BY <2>1
  <1>2. \A a \in Partial, i \in 1..n : f[<<a, i>>] = RollupStep(p, seen, cuts, a, i)
    OBVIOUS
  <1>3. n \in Nat /\ (\A i \in 1..n : seq[i] \in 1..n /\ seq[i] = i) /\ DOMAIN seq = 1..n
    OBVIOUS
  <1>4. null \in Partial
    BY NullCovers DEF Covers, Partial
  <1>5. RollupCalculate(NullBar, p, seen, cuts) = h[1..n].rollup
    BY <1>3 DEF RollupCalculate, FoldLeft, MapThenFoldSet, RollupStep
  <1> HIDE DEF f, n, seq, null
  <1>6. \A s \in SUBSET (1..n) : s # {} => seq[Max(s)] \in 1..n
    BY <1>3, MaxOfInterval
  <1>7. PICK g : Folds(g, f, null, seq, n, Partial)
    BY <1>1, <1>3, <1>4, FoldExists
  <1>8. Is(g)
    BY <1>2, <1>6, <1>7 DEF Folds
  <1>9. Is(h)
    <2> HIDE DEF Is
    <2> QED BY <1>8
  <1> HIDE DEF h
  <1>10. FoldsFrom(h, f, null, seq, n, Partial)
    <2>1. h[{}] = null
      BY <1>9
    <2>2. \A s \in SUBSET (1..n) : s # {} =>
             h[s] = RollupStep(p, seen, cuts, h[s \ {Max(s)}], seq[Max(s)])
      BY <1>9
    <2>3. ASSUME NEW s \in SUBSET (1..n), s # {}, h[s \ {Max(s)}] \in Partial
          PROVE  h[s] = f[<<h[s \ {Max(s)}], seq[Max(s)]>>]
      <3>1. seq[Max(s)] \in 1..n BY <1>6, <2>3
      <3>2. f[<<h[s \ {Max(s)}], seq[Max(s)]>>]
              = RollupStep(p, seen, cuts, h[s \ {Max(s)}], seq[Max(s)])
        BY <1>2, <2>3, <3>1
      <3> QED BY <2>2, <2>3, <3>2
    <2> QED BY <2>1, <2>3 DEF FoldsFrom
  <1>11. PICK r : Steps(r, f, null, seq, n, Partial, h[1..n])
    BY <1>1, <1>3, <1>4, <1>10, FoldSteps
  <1>12. ASSUME NEW k \in 1..n PROVE r[k] = RollupStep(p, seen, cuts, r[k - 1], k)
    <2>1. k - 1 \in 0..n BY <1>3
    <2>2. r[k - 1] \in Partial /\ seq[k] = k BY <1>3, <1>11, <2>1 DEF Steps
    <2> QED BY <1>2, <1>11, <2>2 DEF Steps
  <1> QED BY <1>5, <1>11, <1>12 DEF n, Steps, null, RollupRun

(* What it leaves is a bar, wherever it is cut.                          *)
LEMMA RollupCalculateType ==
    ASSUME NEW p, NEW seen \in Seq(Trade), NEW cuts
    PROVE  RollupCalculate(NullBar, p, seen, cuts) \in Bar
  <1>1. PICK r : RollupRun(r, p, seen, cuts) BY RollupCalculateSteps
  <1>2. Len(seen) \in 0..Len(seen) OBVIOUS
  <1>3. r[Len(seen)] \in Partial BY <1>1, <1>2 DEF RollupRun
  <1> QED BY <1>1, <1>3 DEF RollupRun, Partial

(* A run of trades is finite, and no longer than the history.            *)
LEMMA BetweenFinite ==
    ASSUME NEW n \in Nat, NEW S \in SUBSET (1..n), NEW lo, NEW hi
    PROVE  /\ Between(S, lo, hi) \in SUBSET (1..n) /\ Between(S, lo, hi) \in SUBSET Nat
           /\ IsFiniteSet(Between(S, lo, hi))
           /\ Cardinality(Between(S, lo, hi)) <= n
  <1>1. Between(S, lo, hi) \in SUBSET (1..n)
    BY DEF Between
  <1>2. IsFiniteSet(1..n) /\ Cardinality(1..n) = n
    BY FS_Interval
  <1>3. Between(S, lo, hi) \in SUBSET Nat
    BY <1>1
  <1> QED BY <1>1, <1>2, <1>3, FS_Subset

(* After k trades: up to some cut c the rollup covers the trades, after  *)
(* it the open bar does.                                                 *)
RollupAt(a, seen, S, V, cuts, k) ==
    \E c \in 0..k :
        /\ Covers(a.rollup, seen, Between(S, 0, c), V[c])
        /\ Covers(a.bar, seen, Between(S, c, k), V[k] - V[c])
        /\ \A j \in cuts : j <= k => j <= c

(* A witness for c.                                                      *)
LEMMA RollupCut ==
    ASSUME NEW a, NEW seen, NEW S, NEW V, NEW cuts, NEW k, NEW c \in 0..k,
           Covers(a.rollup, seen, Between(S, 0, c), V[c]),
           Covers(a.bar, seen, Between(S, c, k), V[k] - V[c]),
           \A j \in cuts : j <= k => j <= c
    PROVE  RollupAt(a, seen, S, V, cuts, k)
  BY DEF RollupAt

(* Every turn of the loop keeps it so: the bar grows, or ends at k.      *)
LEMMA RollupStepCovers ==
    ASSUME NEW p, NEW seen \in Seq(Trade), Len(seen) < Word,
           NEW V, Sums(V, RollupPeriod(p, seen), seen),
           NEW cuts \in SUBSET RollupPeriod(p, seen),
           NEW k \in 1..Len(seen), NEW a,
           RollupAt(a, seen, RollupPeriod(p, seen), V, cuts, k - 1)
    PROVE  RollupAt(RollupStep(p, seen, cuts, a, k), seen, RollupPeriod(p, seen),
                    V, cuts, k)
  <1> DEFINE n == Len(seen)
             S == RollupPeriod(p, seen)
             t == seen[k]
             bar == BarOnRecord(a.bar, t)
  <1>1. n \in Nat /\ S \in SUBSET (1..n) /\ (\A i \in 1..n : seen[i] \in Trade) /\ t \in Trade
    BY DEF RollupPeriod
  <1>2. V \in [0..n -> Nat] /\ n < Word BY DEF Sums
  <1>3. PICK c \in 0..(k - 1) :
           /\ Covers(a.rollup, seen, Between(S, 0, c), V[c])
           /\ Covers(a.bar, seen, Between(S, c, k - 1), V[k - 1] - V[c])
           /\ \A j \in cuts : j <= k - 1 => j <= c
    BY DEF RollupAt
  <1>4. CASE k \notin S
    <2>1. ~InRollup(p, seen[k]) BY <1>4 DEF RollupPeriod
    <2>2. RollupStep(p, seen, cuts, a, k) = a BY <2>1 DEF RollupStep
    <2>3. Between(S, c, k) = Between(S, c, k - 1) BY <1>1, <1>4 DEF Between
    <2>4. V[k] = V[k - 1] BY <1>4 DEF Sums
    <2>5. c \in 0..k /\ \A j \in cuts : j <= k => j <= c
      BY <1>1, <1>3, <1>4
    <2> QED BY <1>3, <2>2, <2>3, <2>4, <2>5 DEF RollupAt
  <1>5. CASE k \in S
    <2>1. InRollup(p, seen[k]) BY <1>5 DEF RollupPeriod
    <2>2. V[k] = V[k - 1] + t.volume BY <1>5 DEF Sums
    <2>3. Between(S, c, k) = Between(S, c, k - 1) \cup {k} BY <1>1, <1>5 DEF Between
    <2>4. /\ V[c] \in Nat /\ V[k - 1] \in Nat /\ V[k] \in Nat /\ t.volume \in Nat
          /\ (V[k - 1] - V[c]) + t.volume = V[k] - V[c]
      <3>1. c \in 0..n /\ k - 1 \in 0..n /\ k \in 0..n BY <1>1, <1>3
      <3>2. V[c] \in Nat /\ V[k - 1] \in Nat /\ V[k] \in Nat BY <1>2, <3>1
      <3>3. t.volume \in Nat BY <1>1 DEF Trade, Volume
      <3> QED BY <2>2, <3>2, <3>3
    <2>5. Covers(bar, seen, Between(S, c, k), V[k] - V[c])
      <3> DEFINE B == Between(S, c, k - 1)
      <3>1. B \in SUBSET Nat /\ IsFiniteSet(B) /\ B \in SUBSET (1..n) BY <1>1, BetweenFinite
      <3>2. \A j \in B : j < k BY <1>1 DEF Between
      <3>3. k \in Nat /\ \A j \in B : j < k /\ seen[j] \in Trade BY <1>1, <3>1, <3>2
      <3> HIDE DEF B
      <3>4. Covers(bar, seen, B \cup {k}, (V[k - 1] - V[c]) + t.volume)
        BY <1>1, <1>3, <3>1, <3>3, OnRecordCovers DEF B
      <3> QED BY <2>3, <2>4, <3>4 DEF B
    <2>6. CASE k \notin cuts
      <3>1. RollupStep(p, seen, cuts, a, k) = [bar |-> bar, rollup |-> a.rollup]
        BY <2>1, <2>6 DEF RollupStep, RollupOnTrade
      <3>2. c \in 0..k /\ \A j \in cuts : j <= k => j <= c
        BY <1>1, <1>3, <2>6
      <3> HIDE DEF bar
      <3> QED BY <1>3, <2>5, <3>1, <3>2 DEF RollupAt
    <2>7. CASE k \in cuts
      <3> DEFINE all == RollupOnRecord(a.rollup, bar)
                 A == Between(S, 0, c)
                 B == Between(S, c, k)
      <3>1. RollupStep(p, seen, cuts, a, k) = [bar |-> NullBar, rollup |-> all]
        BY <2>1, <2>7 DEF RollupStep, RollupOnTrade
      <3>2. A \cup B = Between(S, 0, k) /\ Between(S, k, k) = {}
        BY <1>1, <1>3 DEF Between
      <3>3. /\ A \in SUBSET Nat /\ IsFiniteSet(A) /\ A \in SUBSET (1..n)
            /\ B \in SUBSET Nat /\ IsFiniteSet(B) /\ B \in SUBSET (1..n)
        BY <1>1, BetweenFinite
      <3>4. B # {} /\ \A i \in A, j \in B : i < j
        BY <1>1, <1>5, <1>3 DEF Between
      <3>5. Cardinality(A \cup B) < Word
        <4>1. Cardinality(Between(S, 0, k)) <= n BY <1>1, BetweenFinite
        <4>2. Cardinality(Between(S, 0, k)) \in Nat
          BY <1>1, BetweenFinite, FS_CardinalityType
        <4>3. n \in Nat /\ Word \in Nat /\ n < Word
          BY <1>1, <1>2, AnalyticsAssumption
        <4>4. Cardinality(A \cup B) = Cardinality(Between(S, 0, k))
          BY <3>2
        <4> HIDE DEF A, B, S, n
        <4> QED BY <4>1, <4>2, <4>3, <4>4
      <3>6. \A i \in A \cup B : seen[i] \in Trade BY <1>1, <3>3
      <3>7. Covers(a.rollup, seen, A, V[c]) /\ Covers(bar, seen, B, V[k] - V[c])
        BY <1>3, <2>5
      <3> HIDE DEF A, B, bar
      <3>8. Covers(all, seen, A \cup B, V[c] + (V[k] - V[c]))
        BY <3>3, <3>4, <3>5, <3>6, <3>7, RollupOnRecordCovers
      <3>9. V[c] + (V[k] - V[c]) = V[k] /\ V[k] - V[k] = 0 BY <2>4
      <3>10. Covers(NullBar, seen, Between(S, k, k), V[k] - V[k])
        BY <3>2, <3>9, NullCovers
      <3>11. k \in 0..k /\ \A j \in cuts : j <= k => j <= k BY <1>1
      <3> DEFINE next == [bar |-> NullBar, rollup |-> all]
      <3>12. Covers(next.rollup, seen, Between(S, 0, k), V[k])
        BY <3>2, <3>8, <3>9
      <3>13. Covers(next.bar, seen, Between(S, k, k), V[k] - V[k])
        BY <3>10
      <3> HIDE DEF next
      <3>14. RollupAt(next, seen, S, V, cuts, k)
        BY <3>11, <3>12, <3>13, RollupCut
      <3> QED BY <3>1, <3>14 DEF next
    <2> QED BY <2>6, <2>7
  <1> QED BY <1>4, <1>5

(* The trades from Shift seconds after the start of a period to as many  *)
(* after its end.                                                        *)
Shifted(p, seen) ==
    {i \in 1..Len(seen) : /\ p.open_time + Shift <= seen[i].time
                          /\ seen[i].time <= p.close_time + Shift}

(* A width below 2^32 is left as it is.                                  *)
LEMMA SmallWidth ==
    ASSUME NEW w \in 0..(TimeWord - 1)
    PROVE  w % TimeWord = w
  BY ReaderAssumption

(* Those are the trades a rollup takes when no sum of times wraps.       *)
LEMMA PeriodShifted ==
    ASSUME NEW seen \in Seq(Trade), NEW p \in [open_time : Int, close_time : Int],
           RollupFits(p)
    PROVE  RollupPeriod(p, seen) = Shifted(p, seen)
  <1> DEFINE w == p.close_time - p.open_time + 1
  <1>1. p.open_time \in Int /\ p.close_time \in Int /\ Shift \in Int
    BY ReaderAssumption DEF Shift
  <1>2. \A i \in 1..Len(seen) : seen[i].time \in Int
    <2>1. \A i \in 1..Len(seen) : seen[i] \in Trade OBVIOUS
    <2>2. \A t \in Trade : t.time \in Int BY DEF Trade
    <2> QED BY <2>1, <2>2
  <1>3. /\ w < TimeWord
        /\ RollupFrom(p) = p.close_time + 1
        /\ RollupTill(p) = 2 * p.close_time - p.open_time + 1
    BY DEF RollupFits
  <1>4. CASE w >= 0
    <2>1. w \in 0..(TimeWord - 1) BY <1>1, <1>3, <1>4, ReaderAssumption
    <2>2. RollupWidth(p) = p.close_time - p.open_time + 1
      BY <2>1, SmallWidth DEF RollupWidth
    <2>3. ASSUME NEW i \in 1..Len(seen)
          PROVE  InRollup(p, seen[i]) <=> /\ p.open_time + Shift <= seen[i].time
                                          /\ seen[i].time <= p.close_time + Shift
      <3> DEFINE t == seen[i].time
                 name == t + (p.close_time - p.open_time + 1) - Shift
      <3>1. t \in Int BY <1>2
      <3>2. InRollup(p, seen[i]) <=> /\ p.close_time + 1 <= name
                                     /\ name <= 2 * p.close_time - p.open_time + 1
        BY <1>3, <2>2 DEF InRollup
      <3> HIDE DEF t
      <3> QED BY <1>1, <3>1, <3>2 DEF t
    <2> QED BY <2>3 DEF RollupPeriod, Shifted
  <1>5. CASE w < 0
    <2>1. RollupWidth(p) \in Int BY <1>1, ReaderAssumption DEF RollupWidth
    <2>2. RollupTill(p) < RollupFrom(p) BY <1>1, <1>3, <1>5
    <2>3. \A i \in 1..Len(seen) : ~InRollup(p, seen[i])
      BY <1>1, <1>2, <1>3, <2>1, <2>2 DEF InRollup
    <2>4. \A i \in 1..Len(seen) : ~(/\ p.open_time + Shift <= seen[i].time
                                     /\ seen[i].time <= p.close_time + Shift)
      BY <1>1, <1>2, <1>5
    <2> QED BY <2>3, <2>4 DEF RollupPeriod, Shifted
  <1> QED BY <1>1, <1>4, <1>5

(* vta::rollup_bar_t::Calculate from a reset rollup covers the trades of *)
(* the bars it asks for, wherever the database cuts them, since it cuts  *)
(* after the last; and unless a sum of times wraps in 32 bits, those are *)
(* the trades of the period, moved by the second of BarGenPreference.    *)
THEOREM RollupCovers ==
    ASSUME NEW seen \in Seq(Trade), Len(seen) < Word,
           NEW p \in [open_time : Int, close_time : Int],
           NEW V, Sums(V, RollupPeriod(p, seen), seen),
           NEW cuts \in Cuts(RollupPeriod(p, seen))
    PROVE  /\ Covers(RollupCalculate(NullRollup, p, seen, cuts), seen,
                     RollupPeriod(p, seen), V[Len(seen)])
           /\ RollupFits(p) => RollupPeriod(p, seen) = Shifted(p, seen)
  <1> DEFINE n == Len(seen)
             S == RollupPeriod(p, seen)
  <1>1. n \in Nat /\ S \in SUBSET (1..n) /\ (\A i \in 1..n : seen[i] \in Trade)
    BY DEF RollupPeriod
  <1>2. cuts \in SUBSET S /\ (S = {} \/ Max(S) \in cuts)
    BY DEF Cuts
  <1>3. PICK r : RollupRun(r, p, seen, cuts)
    BY RollupCalculateSteps
  <1> DEFINE K == {k \in Nat : RollupAt(r[k], seen, S, V, cuts, k)}
  <1>4. 0 \in K
    <2>1. Between(S, 0, 0) = {} BY <1>1 DEF Between
    <2>2. V[0] = 0 /\ V[0] - V[0] = 0 BY DEF Sums
    <2>3. \A j \in cuts : j <= 0 => j <= 0 OBVIOUS
    <2>4. r[0].bar = NullBar /\ r[0].rollup = NullBar BY <1>3 DEF RollupRun
    <2>5. /\ Covers(r[0].rollup, seen, Between(S, 0, 0), V[0])
          /\ Covers(r[0].bar, seen, Between(S, 0, 0), V[0] - V[0])
      BY <2>1, <2>2, <2>4, NullCovers
    <2>6. RollupAt(r[0], seen, S, V, cuts, 0)
      <3>1. 0 \in 0..0 OBVIOUS
      <3> QED BY <2>3, <2>5, <3>1, RollupCut
    <2> QED BY <2>6
  <1>5. ASSUME NEW k \in 1..n, k - 1 \in K PROVE k \in K
    <2>1. RollupAt(r[k - 1], seen, S, V, cuts, k - 1) BY <1>5
    <2>2. RollupAt(RollupStep(p, seen, cuts, r[k - 1], k), seen, S, V, cuts, k)
      BY <1>2, <2>1, RollupStepCovers
    <2>3. k \in Nat /\ r[k] = RollupStep(p, seen, cuts, r[k - 1], k)
      BY <1>3 DEF RollupRun
    <2> QED BY <2>2, <2>3
  <1>6. RollupAt(r[n], seen, S, V, cuts, n)
    <2>1. n \in K
      <3> HIDE DEF K, n
      <3>1. \A k \in 0..n : k \in K BY <1>1, <1>4, <1>5, InductionUpTo
      <3> QED BY <1>1, <3>1
    <2> QED BY <2>1
  <1>7. PICK c \in 0..n :
          /\ Covers(r[n].rollup, seen, Between(S, 0, c), V[c])
          /\ Covers(r[n].bar, seen, Between(S, c, n), V[n] - V[c])
          /\ \A j \in cuts : j <= n => j <= c
    BY <1>6 DEF RollupAt
  <1>8. \A i \in S : i <= c
    <2>1. CASE S = {} BY <2>1
    <2>2. CASE S # {}
      <3>1. Max(S) \in S /\ \A i \in S : i <= Max(S) BY <1>1, <2>2, MaxOfInterval
      <3>2. Max(S) <= c BY <1>1, <1>2, <1>7, <2>2, <3>1
      <3> QED BY <1>1, <3>1, <3>2
    <2> QED BY <2>1, <2>2
  <1>9. Between(S, 0, c) = S /\ Between(S, c, n) = {}
    BY <1>1, <1>8 DEF Between
  <1>10. V[n] = V[c]
    <2>1. V[n] - V[c] = 0 BY <1>7, <1>9 DEF Covers
    <2>2. V[n] \in Nat /\ V[c] \in Nat BY <1>1 DEF Sums
    <2> QED BY <2>1, <2>2
  <1>11. RollupFits(p) => RollupPeriod(p, seen) = Shifted(p, seen)
    BY PeriodShifted
  <1> QED BY <1>3, <1>7, <1>9, <1>10, <1>11 DEF NullRollup, RollupRun

-----------------------------------------------------------------------------
(* A parameter of a query, and the parameters of a request.              *)
KeyValue == [key : STRING, value : Int]
Parameters == [open_time : Int, close_time : Int]

(* A parameter leaves parameters.                                        *)
LEMMA ParseParameterType ==
    ASSUME NEW q \in Parameters, NEW kv \in KeyValue
    PROVE  ParseParameter(q, kv) \in Parameters
  <1>1. kv.value \in Int BY DEF KeyValue
  <1>2. [q EXCEPT !.open_time = kv.value] \in Parameters
        /\ [q EXCEPT !.close_time = kv.value] \in Parameters
    BY <1>1 DEF Parameters
  <1> QED BY <1>2 DEF ParseParameter

(* r holds the parameters after each key of the query.                   *)
Parses(r, p, query) ==
    /\ r \in [0..Len(query) -> Parameters]
    /\ r[0] = p
    /\ r[Len(query)] = ParseRequest(p, query)
    /\ \A k \in 1..Len(query) : r[k] = ParseParameter(r[k - 1], query[k])

(* ParseRequest is the loop over the keys.                               *)
LEMMA ParseRequestSteps ==
    ASSUME NEW p \in Parameters, NEW query \in Seq(KeyValue)
    PROVE  \E r : Parses(r, p, query)
  <1> DEFINE n == Len(query)
             f == [x \in Parameters \X KeyValue |-> ParseParameter(x[1], x[2])]
             Is(g) == g = [s \in SUBSET (1..n) |->
                             IF s = {} THEN p
                             ELSE ParseParameter(g[s \ {Max(s)}], query[Max(s)])]
             h == CHOOSE g : Is(g)
  <1>1. f \in [Parameters \X KeyValue -> Parameters]
    BY ParseParameterType
  <1>2. \A a \in Parameters, kv \in KeyValue : f[<<a, kv>>] = ParseParameter(a, kv)
    OBVIOUS
  <1>3. n \in Nat /\ (\A i \in 1..n : query[i] \in KeyValue) /\ DOMAIN query = 1..n
    OBVIOUS
  <1>4. ParseRequest(p, query) = h[1..n]
    BY <1>3 DEF ParseRequest, FoldLeft, MapThenFoldSet
  <1> HIDE DEF f, n
  <1>5. \A s \in SUBSET (1..n) : s # {} => query[Max(s)] \in KeyValue
    BY <1>3, MaxOfInterval
  <1>6. PICK g : Folds(g, f, p, query, n, Parameters)
    BY <1>1, <1>3, FoldExists
  <1>7. Is(g)
    BY <1>2, <1>5, <1>6 DEF Folds
  <1>8. Is(h)
    <2> HIDE DEF Is
    <2> QED BY <1>7
  <1> HIDE DEF h
  <1>9. FoldsFrom(h, f, p, query, n, Parameters)
    BY <1>2, <1>5, <1>8 DEF FoldsFrom
  <1>10. PICK r : Steps(r, f, p, query, n, Parameters, h[1..n])
    BY <1>1, <1>3, <1>9, FoldSteps
  <1>11. ASSUME NEW k \in 1..n PROVE r[k] = ParseParameter(r[k - 1], query[k])
    <2>1. k - 1 \in 0..n BY <1>3
    <2>2. r[k - 1] \in Parameters /\ query[k] \in KeyValue BY <1>3, <1>10, <2>1 DEF Steps
    <2> QED BY <1>2, <1>10, <2>2 DEF Steps
  <1> QED BY <1>4, <1>10, <1>11 DEF n, Steps, Parses

(* ... and leaves parameters, whatever the keys.                         *)
LEMMA ParseRequestType ==
    ASSUME NEW p \in Parameters, NEW query \in Seq(KeyValue)
    PROVE  ParseRequest(p, query) \in Parameters
  <1>1. PICK r : Parses(r, p, query) BY ParseRequestSteps
  <1>2. Len(query) \in 0..Len(query) OBVIOUS
  <1> QED BY <1>1, <1>2 DEF Parses

(* The first k positions of a key.                                       *)
At(query, key, k) == {i \in 1..k : query[i].key = key}

(* The last value for a key among them.                                  *)
Latest(query, key, k) ==
    IF At(query, key, k) = {} THEN Never
    ELSE query[CHOOSE i \in At(query, key, k) : \A j \in At(query, key, k) : j <= i].value

(* One position more.                                                    *)
LEMMA LatestStep ==
    ASSUME NEW query, NEW key, NEW k \in Nat \ {0}
    PROVE  Latest(query, key, k) = IF query[k].key = key THEN query[k].value
                                   ELSE Latest(query, key, k - 1)
  <1>1. CASE query[k].key = key
    <2>1. k \in At(query, key, k) /\ \A j \in At(query, key, k) : j \in Nat /\ j <= k
      BY <1>1 DEF At
    <2>2. (CHOOSE i \in At(query, key, k) : \A j \in At(query, key, k) : j <= i) = k
      BY <2>1
    <2> QED BY <1>1, <2>1, <2>2 DEF Latest
  <1>2. CASE query[k].key # key
    <2>1. At(query, key, k) = At(query, key, k - 1) BY <1>2 DEF At
    <2> QED BY <1>2, <2>1 DEF Latest
  <1> QED BY <1>1, <1>2

(* ParseRequest leaves the last value of each key, and an unset one      *)
(* without.                                                              *)
LEMMA ParseRequestLast ==
    ASSUME NEW query \in Seq(KeyValue)
    PROVE  /\ ParseRequest(Unset, query).open_time = Parameter(query, "open")
           /\ ParseRequest(Unset, query).close_time = Parameter(query, "close")
  <1> DEFINE n == Len(query)
  <1>1. n \in Nat /\ \A i \in 1..n : query[i] \in KeyValue
    OBVIOUS
  <1>2. Unset \in Parameters BY AnalyticsAssumption DEF Unset, Parameters
  <1>3. PICK r : Parses(r, Unset, query) BY <1>2, ParseRequestSteps
  <1> DEFINE K == {k \in Nat : /\ r[k].open_time = Latest(query, "open", k)
                               /\ r[k].close_time = Latest(query, "close", k)}
  <1>4. 0 \in K
    <2>1. At(query, "open", 0) = {} /\ At(query, "close", 0) = {} BY DEF At
    <2> QED BY <1>3, <2>1 DEF Parses, Latest, Unset
  <1>5. ASSUME NEW k \in 1..n, k - 1 \in K PROVE k \in K
    <2>1. k \in Nat \ {0} /\ k - 1 \in 0..n /\ query[k] \in KeyValue BY <1>1
    <2>2. r[k - 1] \in Parameters /\ r[k] = ParseParameter(r[k - 1], query[k])
      BY <1>3, <2>1 DEF Parses
    <2>3. /\ Latest(query, "open", k) = IF query[k].key = "open" THEN query[k].value
                                        ELSE Latest(query, "open", k - 1)
          /\ Latest(query, "close", k) = IF query[k].key = "close" THEN query[k].value
                                         ELSE Latest(query, "close", k - 1)
      BY <2>1, LatestStep
    <2>4. /\ r[k].open_time = IF query[k].key = "open" THEN query[k].value
                              ELSE r[k - 1].open_time
          /\ r[k].close_time = IF query[k].key = "close" THEN query[k].value
                               ELSE r[k - 1].close_time
      BY <2>2 DEF ParseParameter, Parameters
    <2> QED BY <1>5, <2>1, <2>3, <2>4
  <1>6. \A k \in 0..n : k \in K
    <2> HIDE DEF K, n
    <2> QED BY <1>1, <1>4, <1>5, InductionUpTo
  <1>7. r[n] = ParseRequest(Unset, query) BY <1>3 DEF Parses
  <1>8. Latest(query, "open", n) = Parameter(query, "open")
        /\ Latest(query, "close", n) = Parameter(query, "close")
    BY DEF Latest, At, Parameter
  <1> QED BY <1>1, <1>6, <1>7, <1>8

(* OnTask is past the parts of the item name.                            *)
Serving == pc \in {"symbol", "query", "lock", "calculate", "write"}

(* The buffer holds the message of this task.                            *)
Answered == pc = "reply" \/ (pc = "recv" /\ reply # NoMessage)

(* The parameters the query asks for.                                    *)
Asked(query) == IF query = NoQuery THEN Unset ELSE ParseRequest(Unset, query)

(* The selected analytic is what it makes of the history from a reset:   *)
(* no trace of an earlier request is left. (test_t has none.)            *)
Sound ==
    \/ analytic = "test"
    \/ LET file == task.file
           p == params[analytic]
       IN  CASE ~plugin -> vta[analytic] = IF analytic = "close" THEN NullClose ELSE NullBar
             [] plugin /\ analytic = "bar" ->
                  vta.bar = BarCalculate(NullBar, p, trades[file])
             [] plugin /\ analytic = "rollup" ->
                  \E cuts \in Cuts(RollupPeriod(p, trades[file])) :
                     vta.rollup = RollupCalculate(NullBar, p, trades[file], cuts)
             [] plugin /\ analytic = "close" ->
                  vta.close = CloseCalculate(NullClose, p, trades[file])

(* The task is a request for an item.                                    *)
Selected ==
    Serving \/ (Answered /\ why = "") =>
        task \in Requests /\ task.file \in Symbols

(* The selected analytic is empty until it calculates.                   *)
Reset ==
    pc \in {"symbol", "query", "lock", "calculate"} =>
        vta[analytic] = CASE analytic = "close" -> NullClose
                          [] analytic = "test" -> vta.test
                          [] OTHER -> NullBar

(* ... its parameters are unset until the query is parsed, and the       *)
(* query's after.                                                        *)
Parsed ==
    /\ pc \in {"symbol", "query"} => params[analytic] = Unset
    /\ pc \in {"lock", "calculate", "write"} \/ (Answered /\ why = "") =>
          (analytic = "test" \/ params[analytic] = Asked(task.query))

(* ... and it is sound once it has calculated.                           *)
Computed == pc = "write" \/ (Answered /\ why = "") => Sound

(* dacs_lock_ is the item's, if that has one, once it is read.           *)
Locked ==
    pc \in {"calculate", "write"} \/ (Answered /\ why = "") =>
        (plugin /\ task.file \in permdata => dacs_lock_ = task.file)

(* The message is a refresh if and only if no check failed; it is what   *)
(* WriteRaw makes of the members, and the reply is made of it.           *)
Written ==
    /\ Serving => why = ""
    /\ pc = "decompose" => why = "" /\ task \in Requests
    /\ Answered =>
          /\ (rssl_buf_.kind = "refresh") <=> why = ""
          /\ why = "" => rssl_buf_ = Message
    /\ pc = "recv" /\ reply # NoMessage =>
          reply = DecodeReply(task, rssl_buf_, rssl_length_)

(* The inductive invariant of a task, from its request to its reply.     *)
(* Together it says why members used again are no hazard: each is        *)
(* overwritten, or reset, on the way to the message that reads it.       *)
Answers == Selected /\ Reset /\ Parsed /\ Computed /\ Locked /\ Written

(* What the assumption on requests says of the task.                     *)
LEMMA RequestTypes ==
    ASSUME TypeOK
    PROVE  /\ task.length \in 0..255
           /\ task.file \in Symbols \cup {NoFile}
           /\ task.query = NoQuery \/ task.query \in Seq(KeyValue)
  <1>1. CASE task \in Requests
    BY <1>1, TaskAssumption DEF KeyValue
  <1>2. CASE task = NoTask
    <2>1. task.length = 0 /\ task.file = NoFile /\ task.query = NoQuery
      BY <1>2 DEF NoTask
    <2> QED BY <2>1
  <1> QED BY <1>1, <1>2 DEF TypeOK

(* Every way out through provider_t::WriteRawClose leaves a status or    *)
(* nothing.                                                              *)
LEMMA CloseTypes ==
    ASSUME TypeOK, NEW code, NEW recover, NEW reason, WriteRawClose(code, recover, reason)
    PROVE  /\ rssl_buf_'.kind \in {"none", "refresh", "status"}
           /\ rssl_length_' \in 0..MAX_MSG_SIZE
           /\ pc' \in {"reply", "exited"}
           /\ why' = reason
           /\ pc' = "reply" => rssl_buf_'.kind = "status"
  <1>1. why' = reason BY DEF WriteRawClose
  <1>2. CASE /\ StatusBytes <= rssl_length_
             /\ rssl_buf_' = Status(code, recover)
             /\ rssl_length_' = StatusBytes
             /\ pc' = "reply"
    <2>1. rssl_buf_'.kind = "status" BY <1>2 DEF Status
    <2>2. StatusBytes \in Nat
      <3>1. task.length \in 0..255 BY RequestTypes
      <3>2. StatusLength \in Nat BY TaskAssumption
      <3> QED BY <3>1, <3>2 DEF StatusBytes
    <2>3. rssl_length_ \in 0..MAX_MSG_SIZE BY DEF TypeOK
    <2>4. rssl_length_' \in 0..MAX_MSG_SIZE
      BY <1>2, <2>2, <2>3 DEF MAX_MSG_SIZE
    <2> QED BY <1>1, <1>2, <2>1, <2>4
  <1>3. CASE pc' = "exited" /\ UNCHANGED buffer
    BY <1>1, <1>3 DEF buffer, TypeOK
  <1> QED BY <1>2, <1>3 DEF WriteRawClose

(* worker_t's constructor.                                               *)
LEMMA TypeInit ==
    ASSUME Init
    PROVE  TypeOK
  <1>1. Unset \in Parameters BY AnalyticsAssumption DEF Unset, Parameters
  <1>2. params \in [Kinds -> Parameters] BY <1>1 DEF Init
  <1>3. DOMAIN vta = Kinds BY DEF Init, Kinds
  <1>4. permdata \subseteq Symbols BY TaskAssumption DEF Init
  <1>5. rssl_buf_.kind = "none" BY DEF Init, NoMessage
  <1>6. analytic \in Kinds BY DEF Init, Kinds
  <1>7. rssl_length_ \in 0..MAX_MSG_SIZE
    <2>1. rssl_length_ = 0 BY DEF Init
    <2> QED BY <2>1 DEF MAX_MSG_SIZE
  <1> QED BY <1>2, <1>3, <1>4, <1>5, <1>6, <1>7 DEF Init, TypeOK, Parameters

(* One step per action.                                                  *)
LEMMA TypeStep ==
    ASSUME TypeOK, [Next]_vars
    PROVE  TypeOK'
  <1>1. CASE \E r \in Requests : Receive(r)
    <2>1. rssl_length_' = MAX_MSG_SIZE BY <1>1 DEF Receive
    <2>2. rssl_length_' \in 0..MAX_MSG_SIZE BY <2>1 DEF MAX_MSG_SIZE
    <2> QED BY <1>1, <2>2 DEF Receive, TypeOK, db, members
  <1>2. CASE ReceiveAbort
    BY <1>2 DEF ReceiveAbort, TypeOK, db, members, buffer
  <1>3. CASE Decompose
    <2>1. CASE task.file = NoFile
      <3>1. WriteRawClose("NOT_FOUND", FALSE, "malformed")
            /\ UNCHANGED <<db, task, analytic, vta, params, dacs_lock_>>
        BY <1>3, <2>1 DEF Decompose
      <3>2. /\ rssl_buf_'.kind \in {"none", "refresh", "status"}
            /\ rssl_length_' \in 0..MAX_MSG_SIZE
            /\ pc' \in {"reply", "exited"} /\ why' = "malformed"
        BY <3>1, CloseTypes
      <3> QED BY <3>1, <3>2 DEF TypeOK, db
    <2>2. CASE task.file # NoFile
      <3> DEFINE kind == Select(task.ref)
      <3>1. /\ analytic' = kind
            /\ vta' = [vta EXCEPT ![kind] = ResetAnalytic(kind)]
            /\ params' = [params EXCEPT ![kind] = Unset]
            /\ pc' = IF plugin THEN "symbol" ELSE "query"
            /\ UNCHANGED <<db, task, dacs_lock_, buffer, why>>
        BY <1>3, <2>2 DEF Decompose
      <3>2. kind \in Kinds BY DEF Select, Kinds
      <3> HIDE DEF kind
      <3>3. DOMAIN vta' = Kinds BY <3>1 DEF TypeOK
      <3>4. params' \in [Kinds -> Parameters]
        <4>1. Unset \in Parameters BY AnalyticsAssumption DEF Unset, Parameters
        <4>2. params \in [Kinds -> Parameters] BY DEF TypeOK, Parameters
        <4> QED BY <3>1, <4>1, <4>2
      <3> QED BY <3>1, <3>2, <3>3, <3>4 DEF TypeOK, Parameters, db, buffer
    <2> QED BY <2>1, <2>2
  <1>4. CASE CheckSymbol
    <2>1. CASE task.file \in Inventory
      BY <1>4, <2>1 DEF CheckSymbol, TypeOK, db, members, buffer
    <2>2. CASE task.file \notin Inventory
      <3>1. WriteRawClose("NOT_FOUND", FALSE, "unknown")
            /\ UNCHANGED <<db, task, analytic, members>>
        BY <1>4, <2>2 DEF CheckSymbol
      <3>2. /\ rssl_buf_'.kind \in {"none", "refresh", "status"}
            /\ rssl_length_' \in 0..MAX_MSG_SIZE
            /\ pc' \in {"reply", "exited"} /\ why' = "unknown"
        BY <3>1, CloseTypes
      <3> QED BY <3>1, <3>2 DEF TypeOK, db, members
    <2> QED BY <2>1, <2>2
  <1>5. CASE ParseQuery
    <2>1. params' \in [Kinds -> Parameters]
      <3>1. params \in [Kinds -> Parameters] /\ analytic \in Kinds BY DEF TypeOK, Parameters
      <3>2. CASE task.query = NoQuery \/ analytic = "test"
        BY <1>5, <3>1, <3>2 DEF ParseQuery
      <3>3. CASE ~(task.query = NoQuery \/ analytic = "test")
        <4>1. params' = [params EXCEPT ![analytic] = ParseRequest(params[analytic], task.query)]
          BY <1>5, <3>3 DEF ParseQuery
        <4>2. ParseRequest(params[analytic], task.query) \in Parameters
          BY <3>1, <3>3, RequestTypes, ParseRequestType
        <4> QED BY <3>1, <4>1, <4>2
      <3> QED BY <3>2, <3>3
    <2>2. pc' = "lock" /\ UNCHANGED <<db, task, analytic, vta, dacs_lock_, buffer, why>>
      BY <1>5 DEF ParseQuery
    <2> QED BY <2>1, <2>2 DEF TypeOK, Parameters, db, buffer
  <1>6. CASE GetDacsLock
    <2>1. UNCHANGED <<db, task, analytic, vta, params>>
      BY <1>6 DEF GetDacsLock
    <2>2. CASE /\ dacs_lock_' = IF plugin /\ task.file \in permdata THEN task.file
                                                                    ELSE dacs_lock_
               /\ pc' = "calculate"
               /\ UNCHANGED <<buffer, why>>
      BY <2>1, <2>2 DEF TypeOK, db, buffer
    <2>3. CASE WriteRawClose("NOT_ENTITLED", FALSE, "permission") /\ UNCHANGED dacs_lock_
      <3>1. /\ rssl_buf_'.kind \in {"none", "refresh", "status"}
            /\ rssl_length_' \in 0..MAX_MSG_SIZE
            /\ pc' \in {"reply", "exited"} /\ why' = "permission"
        BY <2>3, CloseTypes
      <3> QED BY <2>1, <2>3, <3>1 DEF TypeOK, db
    <2> QED BY <1>6, <2>2, <2>3 DEF GetDacsLock
  <1>7. CASE Calculate
    <2>1. UNCHANGED <<db, task, analytic, params, dacs_lock_>>
      BY <1>7 DEF Calculate
    <2>2. CASE /\ \E cuts \in Cuts(RollupPeriod(params[analytic], trades[task.file])) :
                     vta' = IF plugin
                              THEN [vta EXCEPT ![analytic] = Calculated(analytic, cuts)]
                              ELSE vta
               /\ pc' = "write"
               /\ UNCHANGED <<buffer, why>>
      <3>1. DOMAIN vta' = Kinds BY <2>2 DEF TypeOK
      <3> QED BY <2>1, <2>2, <3>1 DEF TypeOK, db, buffer
    <2>3. CASE WriteRawClose("ERROR", TRUE, "calculate") /\ UNCHANGED vta
      <3>1. /\ rssl_buf_'.kind \in {"none", "refresh", "status"}
            /\ rssl_length_' \in 0..MAX_MSG_SIZE
            /\ pc' \in {"reply", "exited"} /\ why' = "calculate"
        BY <2>3, CloseTypes
      <3> QED BY <2>1, <2>3, <3>1 DEF TypeOK, db
    <2> QED BY <1>7, <2>2, <2>3 DEF Calculate
  <1>8. CASE WriteRaw
    <2>1. UNCHANGED <<db, task, analytic, members>>
      BY <1>8 DEF WriteRaw
    <2>2. CASE /\ RefreshBytes <= rssl_length_
               /\ rssl_buf_' = Message
               /\ rssl_length_' = RefreshBytes
               /\ pc' = "reply"
               /\ UNCHANGED why
      <3>1. RefreshBytes \in Nat
        <4>1. task.length \in 0..255 BY RequestTypes
        <4>2. LockLength \in Nat /\ RefreshLength \in Nat BY TaskAssumption
        <4> DEFINE lock == IF Message.lock = "" THEN 0 ELSE LockLength
        <4>3. lock \in Nat BY <4>2
        <4>4. RefreshBytes = RefreshLength + task.length + lock
          BY DEF RefreshBytes
        <4> HIDE DEF lock
        <4> QED BY <4>1, <4>2, <4>3, <4>4
      <3>2. rssl_length_' \in 0..MAX_MSG_SIZE
        <4>1. rssl_length_ \in 0..MAX_MSG_SIZE BY DEF TypeOK
        <4> QED BY <2>2, <3>1, <4>1 DEF MAX_MSG_SIZE
      <3>3. Message.kind = "refresh"
        BY DEF Message, BarWriteRaw, RollupWriteRaw, CloseWriteRaw, TestWriteRaw,
               Refresh, TypeOK, Kinds
      <3> QED BY <2>1, <2>2, <3>2, <3>3 DEF TypeOK, db, members
    <2>3. CASE WriteRawClose("ERROR", TRUE, "write")
      <3>1. /\ rssl_buf_'.kind \in {"none", "refresh", "status"}
            /\ rssl_length_' \in 0..MAX_MSG_SIZE
            /\ pc' \in {"reply", "exited"} /\ why' = "write"
        BY <2>3, CloseTypes
      <3> QED BY <2>1, <2>3, <3>1 DEF TypeOK, db, members
    <2> QED BY <1>8, <2>2, <2>3 DEF WriteRaw
  <1>9. CASE SendReply
    BY <1>9 DEF SendReply, TypeOK, db, members, buffer
  <1>10. CASE UNCHANGED vars
    BY <1>10 DEF vars, TypeOK, db, members, buffer
  <1> QED BY <1>1, <1>2, <1>3, <1>4, <1>5, <1>6, <1>7, <1>8, <1>9, <1>10 DEF Next

(* Types, among them the bound that no write goes past rssl_buf_: the    *)
(* length is back at its capacity before each message and never above    *)
(* it.                                                                   *)
THEOREM TaskTypes == Spec => []TypeOK
  <1>1. Init => TypeOK BY TypeInit
  <1>2. TypeOK /\ [Next]_vars => TypeOK' BY TypeStep
  <1> QED BY <1>1, <1>2, PTL DEF Spec

(* Sound is about these variables only.                                  *)
LEMMA SoundFrame ==
    ASSUME UNCHANGED <<plugin, trades, task, analytic, vta, params>>
    PROVE  Sound' <=> Sound
  BY DEF Sound

(* ... and the message about these.                                      *)
LEMMA MessageFrame ==
    ASSUME UNCHANGED <<analytic, vta, dacs_lock_>>
    PROVE  Message' = Message
  BY DEF Message

(* WriteRaw of every analytic writes a refresh.                          *)
LEMMA MessageKind ==
    ASSUME TypeOK
    PROVE  Message.kind = "refresh"
  BY DEF Message, BarWriteRaw, RollupWriteRaw, CloseWriteRaw, TestWriteRaw,
         Refresh, TypeOK, Kinds

(* A task a check ended is answered with a status.                       *)
LEMMA CloseAnswers ==
    ASSUME TypeOK, NEW code, NEW recover, NEW reason,
           WriteRawClose(code, recover, reason), reason # ""
    PROVE  Answers'
  <1>1. /\ pc' \in {"reply", "exited"}
        /\ why' = reason
        /\ pc' = "reply" => rssl_buf_'.kind = "status"
    BY CloseTypes
  <1>2. ~Serving' /\ ~(Answered' /\ why' = "") /\ pc' \notin {"recv", "decompose"}
    BY <1>1 DEF Serving, Answered
  <1>3. Written'
    BY <1>1, <1>2 DEF Written, Answered
  <1> QED BY <1>2, <1>3
          DEF Answers, Selected, Reset, Parsed, Computed, Locked, Serving

(* No task, no reply.                                                    *)
LEMMA AnswersInit ==
    ASSUME Init
    PROVE  Answers
  <1>1. pc = "recv" /\ reply = NoMessage BY DEF Init
  <1>2. ~Serving /\ ~Answered BY <1>1 DEF Serving, Answered
  <1> QED BY <1>1, <1>2
          DEF Answers, Selected, Reset, Parsed, Computed, Locked, Written, Serving

(* A task is received.                                                   *)
LEMMA AnswersReceive ==
    ASSUME TypeOK, Answers, \E r \in Requests : Receive(r)
    PROVE  Answers'
  <1>1. pc' = "decompose" /\ why' = "" /\ task' \in Requests BY DEF Receive
  <1>2. ~Serving' /\ ~Answered' BY <1>1 DEF Serving, Answered
  <1> QED BY <1>1, <1>2
          DEF Answers, Selected, Reset, Parsed, Computed, Locked, Written, Serving

(* Decompose resets the analytic it selects.                             *)
LEMMA AnswersDecompose ==
    ASSUME TypeOK, Answers, Decompose
    PROVE  Answers'
  <1>1. CASE task.file = NoFile
    <2>1. WriteRawClose("NOT_FOUND", FALSE, "malformed") BY <1>1 DEF Decompose
    <2> QED BY <2>1, CloseAnswers
  <1>2. CASE task.file # NoFile
    <2>1. /\ pc = "decompose"
          /\ analytic' = Select(task.ref)
          /\ vta' = [vta EXCEPT ![Select(task.ref)] = ResetAnalytic(Select(task.ref))]
          /\ params' = [params EXCEPT ![Select(task.ref)] = Unset]
          /\ pc' = IF plugin THEN "symbol" ELSE "query"
          /\ UNCHANGED <<task, why>>
      BY <1>2 DEF Decompose
    <2>2. pc' \in {"symbol", "query"} BY <2>1
    <2>3. Select(task.ref) \in Kinds BY DEF Select, Kinds
    <2>4. params'[analytic'] = Unset
      <3>1. params \in [Kinds -> Parameters] BY DEF TypeOK, Parameters
      <3> QED BY <2>1, <2>3, <3>1
    <2>5. vta'[analytic'] = ResetAnalytic(analytic')
      <3>1. DOMAIN vta = Kinds BY DEF TypeOK
      <3> QED BY <2>1, <2>3, <3>1
    <2>6. analytic' = "test" => vta'.test = vta.test
      BY <2>1, <2>5 DEF ResetAnalytic
    <2>7. Reset'
      BY <2>1, <2>3, <2>5, <2>6
         DEF Reset, ResetAnalytic, Kinds, BarReset, RollupReset, CloseReset, NullRollup
    <2>8. task \in Requests /\ why = "" BY <2>1 DEF Answers, Written
    <2>9. task.file \in Symbols BY <1>2, RequestTypes
    <2>10. ~Answered' /\ pc' \notin {"lock", "calculate", "write", "recv", "decompose"}
      BY <2>2 DEF Answered
    <2> QED BY <2>1, <2>4, <2>7, <2>8, <2>9, <2>10
            DEF Answers, Selected, Parsed, Computed, Locked, Written
  <1> QED BY <1>1, <1>2

(* CheckSymbol leaves the members alone.                                 *)
LEMMA AnswersCheckSymbol ==
    ASSUME TypeOK, Answers, CheckSymbol
    PROVE  Answers'
  <1>1. CASE task.file \in Inventory
    <2>1. /\ pc = "symbol" /\ pc' = "query"
          /\ UNCHANGED <<task, analytic, vta, params, why>>
      BY <1>1 DEF CheckSymbol, members
    <2>2. Serving /\ Serving' /\ ~Answered'
      BY <2>1 DEF Serving, Answered
    <2> QED BY <2>1, <2>2
            DEF Answers, Selected, Reset, Parsed, Computed, Locked, Written
  <1>2. CASE task.file \notin Inventory
    <2>1. WriteRawClose("NOT_FOUND", FALSE, "unknown") BY <1>2 DEF CheckSymbol
    <2> QED BY <2>1, CloseAnswers
  <1> QED BY <1>1, <1>2

(* ParseRequest finds its parameters unset.                              *)
LEMMA AnswersParseQuery ==
    ASSUME TypeOK, Answers, ParseQuery
    PROVE  Answers'
  <1>1. /\ pc = "query" /\ pc' = "lock"
        /\ UNCHANGED <<task, analytic, vta, why>>
    BY DEF ParseQuery
  <1>2. Serving /\ Serving' /\ ~Answered' BY <1>1 DEF Serving, Answered
  <1>3. params[analytic] = Unset BY <1>1 DEF Answers, Parsed
  <1>4. analytic' = "test" \/ params'[analytic'] = Asked(task'.query)
    <2>1. CASE analytic # "test" /\ task.query # NoQuery
      <3>1. params' = [params EXCEPT ![analytic] = ParseRequest(params[analytic], task.query)]
        BY <2>1 DEF ParseQuery
      <3>2. params \in [Kinds -> Parameters] /\ analytic \in Kinds BY DEF TypeOK, Parameters
      <3>3. params'[analytic] = ParseRequest(Unset, task.query)
        BY <1>3, <3>1, <3>2
      <3> QED BY <1>1, <2>1, <3>3 DEF Asked
    <2>2. CASE task.query = NoQuery
      <3>1. params' = params BY <2>2 DEF ParseQuery
      <3> QED BY <1>1, <1>3, <2>2, <3>1 DEF Asked
    <2> QED BY <1>1, <2>1, <2>2
  <1>5. Parsed' BY <1>1, <1>4 DEF Parsed
  <1> QED BY <1>1, <1>2, <1>5
          DEF Answers, Selected, Reset, Computed, Locked, Written

(* GetDacsLock replaces the lock of the last item.                       *)
LEMMA AnswersGetDacsLock ==
    ASSUME TypeOK, Answers, GetDacsLock
    PROVE  Answers'
  <1>1. pc = "lock" /\ UNCHANGED <<db, task, analytic, vta, params>> BY DEF GetDacsLock
  <1>2. CASE /\ dacs_lock_' = IF plugin /\ task.file \in permdata THEN task.file
                                                                  ELSE dacs_lock_
             /\ pc' = "calculate"
             /\ UNCHANGED <<buffer, why>>
    <2>1. Serving /\ Serving' /\ ~Answered' BY <1>1, <1>2 DEF Serving, Answered
    <2>2. Locked' BY <1>1, <1>2 DEF Locked, db
    <2> QED BY <1>1, <1>2, <2>1, <2>2
            DEF Answers, Selected, Reset, Parsed, Computed, Written
  <1>3. CASE WriteRawClose("NOT_ENTITLED", FALSE, "permission")
    BY <1>3, CloseAnswers
  <1> QED BY <1>2, <1>3 DEF GetDacsLock

(* Calculate finds its analytic empty.                                   *)
LEMMA AnswersCalculate ==
    ASSUME TypeOK, Answers, Calculate
    PROVE  Answers'
  <1>1. pc = "calculate" /\ UNCHANGED <<db, task, analytic, params, dacs_lock_>>
    BY DEF Calculate
  <1>2. CASE /\ \E cuts \in Cuts(RollupPeriod(params[analytic], trades[task.file])) :
                   vta' = IF plugin
                            THEN [vta EXCEPT ![analytic] = Calculated(analytic, cuts)]
                            ELSE vta
             /\ pc' = "write"
             /\ UNCHANGED <<buffer, why>>
    <2>1. Serving /\ Serving' /\ ~Answered' BY <1>1, <1>2 DEF Serving, Answered
    <2>2. PICK cuts \in Cuts(RollupPeriod(params[analytic], trades[task.file])) :
             vta' = IF plugin
                      THEN [vta EXCEPT ![analytic] = Calculated(analytic, cuts)]
                      ELSE vta
      BY <1>2
    <2>3. analytic \in Kinds /\ DOMAIN vta = Kinds BY DEF TypeOK
    <2>4. vta[analytic] = CASE analytic = "close" -> NullClose
                            [] analytic = "test" -> vta.test
                            [] OTHER -> NullBar
      BY <1>1 DEF Answers, Reset
    <2>5. Sound'
      <3>1. CASE ~plugin /\ analytic # "test"
        <4>1. ~plugin' /\ analytic' = analytic /\ vta' = vta
          BY <1>1, <2>2, <3>1 DEF db
        <4>2. vta'[analytic'] = IF analytic' = "close" THEN NullClose ELSE NullBar
          BY <2>4, <3>1, <4>1
        <4> QED BY <4>1, <4>2 DEF Sound
      <3>2. CASE plugin /\ analytic # "test"
        <4>1. vta'[analytic] = Calculated(analytic, cuts)
          BY <2>2, <2>3, <3>2
        <4>2. UNCHANGED <<plugin, trades, task, analytic, params>> BY <1>1 DEF db
        <4>3. CASE analytic = "bar"
          BY <2>4, <3>2, <4>1, <4>2, <4>3 DEF Sound, Calculated
        <4>4. CASE analytic = "rollup"
          <5>1. vta'.rollup = RollupCalculate(NullBar, params.rollup, trades[task.file], cuts)
            BY <2>4, <4>1, <4>4 DEF Calculated
          <5> QED BY <2>2, <3>2, <4>2, <4>4, <5>1 DEF Sound
        <4>5. CASE analytic = "close"
          BY <2>4, <3>2, <4>1, <4>2, <4>5 DEF Sound, Calculated
        <4> QED BY <2>3, <3>2, <4>3, <4>4, <4>5 DEF Kinds
      <3>3. CASE analytic = "test"
        BY <1>1, <3>3 DEF Sound
      <3> QED BY <3>1, <3>2, <3>3
    <2>6. UNCHANGED <<plugin, permdata>> BY <1>1 DEF db
    <2> QED BY <1>1, <1>2, <2>1, <2>5, <2>6
            DEF Answers, Selected, Reset, Parsed, Computed, Locked, Written
  <1>3. CASE WriteRawClose("ERROR", TRUE, "calculate")
    BY <1>3, CloseAnswers
  <1> QED BY <1>2, <1>3 DEF Calculate

(* WriteRaw writes what Calculate left.                                  *)
LEMMA AnswersWriteRaw ==
    ASSUME TypeOK, Answers, WriteRaw
    PROVE  Answers'
  <1>1. pc = "write" /\ UNCHANGED <<db, task, analytic, members, reply>>
    BY DEF WriteRaw
  <1>2. CASE /\ rssl_buf_' = Message
             /\ pc' = "reply"
             /\ UNCHANGED why
    <2>1. Serving /\ ~Serving' /\ Answered' BY <1>1, <1>2 DEF Serving, Answered
    <2>2. why = "" BY <2>1 DEF Answers, Written
    <2>3. UNCHANGED <<plugin, trades, permdata, vta, params, dacs_lock_>>
      BY <1>1 DEF db, members
    <2>4. rssl_buf_' = Message' BY <1>1, <1>2, <2>3, MessageFrame
    <2>5. Message.kind = "refresh" BY MessageKind
    <2>6. Sound' BY <1>1, <2>3, SoundFrame DEF Answers, Computed
    <2>7. Written' BY <1>2, <2>1, <2>2, <2>4, <2>5 DEF Written
    <2> QED BY <1>1, <1>2, <2>1, <2>2, <2>3, <2>6, <2>7
            DEF Answers, Selected, Reset, Parsed, Computed, Locked
  <1>3. CASE WriteRawClose("ERROR", TRUE, "write")
    BY <1>3, CloseAnswers
  <1> QED BY <1>2, <1>3 DEF WriteRaw

(* SendReply sends what WriteRaw wrote.                                  *)
LEMMA AnswersSendReply ==
    ASSUME TypeOK, Answers, SendReply
    PROVE  Answers'
  <1>1. /\ pc = "reply"
        /\ UNCHANGED <<plugin, trades, permdata, task, analytic, vta, params,
                       dacs_lock_, rssl_buf_, rssl_length_, why>>
    BY DEF SendReply, db, members, buffer
  <1>2. Answered BY <1>1 DEF Answered
  <1>3. CASE pc' = "exited"
    <2>1. ~Serving' /\ ~Answered' BY <1>3 DEF Serving, Answered
    <2> QED BY <1>3, <2>1
            DEF Answers, Selected, Reset, Parsed, Computed, Locked, Written, Serving
  <1>4. CASE reply' = DecodeReply(task, rssl_buf_, rssl_length_) /\ pc' = "recv"
    <2>1. ~Serving' BY <1>4 DEF Serving
    <2>2. Message' = Message BY <1>1, MessageFrame
    <2>3. Sound' <=> Sound BY <1>1, SoundFrame
    <2>4. Written'
      <3>1. reply' = DecodeReply(task', rssl_buf_', rssl_length_')
        BY <1>1, <1>4 DEF DecodeReply
      <3> QED BY <1>1, <1>2, <1>4, <2>1, <2>2, <3>1 DEF Answers, Written
    <2> QED BY <1>1, <1>2, <1>4, <2>1, <2>3, <2>4
            DEF Answers, Selected, Reset, Parsed, Computed, Locked
  <1> QED BY <1>3, <1>4 DEF SendReply

(* All the actions.                                                      *)
LEMMA AnswersStep ==
    ASSUME TypeOK, Answers, [Next]_vars
    PROVE  Answers'
  <1>1. CASE ReceiveAbort
    <2>1. pc' = "exited" BY <1>1 DEF ReceiveAbort
    <2>2. ~Serving' /\ ~Answered' BY <2>1 DEF Serving, Answered
    <2> QED BY <2>1, <2>2
            DEF Answers, Selected, Reset, Parsed, Computed, Locked, Written, Serving
  <1>2. CASE UNCHANGED vars
    <2>1. UNCHANGED <<plugin, trades, permdata, pc, task, analytic, vta, params,
                      dacs_lock_, rssl_buf_, rssl_length_, why, reply>>
      BY <1>2 DEF vars, db, members, buffer
    <2>2. Message' = Message BY <2>1, MessageFrame
    <2>3. Sound' <=> Sound BY <2>1, SoundFrame
    <2>4. (Serving' <=> Serving) /\ (Answered' <=> Answered)
      BY <2>1 DEF Serving, Answered
    <2>5. Written' BY <2>1, <2>2, <2>4 DEF Answers, Written, DecodeReply
    <2> QED BY <2>1, <2>3, <2>4, <2>5
            DEF Answers, Selected, Reset, Parsed, Computed, Locked
  <1> QED BY <1>1, <1>2, AnswersReceive, AnswersDecompose, AnswersCheckSymbol,
             AnswersParseQuery, AnswersGetDacsLock, AnswersCalculate,
             AnswersWriteRaw, AnswersSendReply
          DEF Next

(* Every task of a worker is answered from its own request: the          *)
(* inductive invariant holds in every reachable state.                   *)
THEOREM WorkerAnswers == Spec => [](TypeOK /\ Answers)
  <1>1. Init => TypeOK /\ Answers BY TypeInit, AnswersInit
  <1>2. TypeOK /\ Answers /\ [Next]_vars => (TypeOK /\ Answers)'
    BY TypeStep, AnswersStep
  <1> QED BY <1>1, <1>2, PTL DEF Spec

(* WantedVolume is the last of the sums of the wanted volumes.           *)
LEMMA WantedVolumeSums ==
    ASSUME trades[task.file] \in Seq(Trade)
    PROVE  \E V : /\ Sums(V, Wanted, trades[task.file])
                  /\ V[Len(trades[task.file])] = WantedVolume
  <1> DEFINE h == trades[task.file]
             n == Len(h)
             seq == [i \in 1..n |-> i]
             Add(a, i) == IF i \in Wanted THEN a + VolumeOf(i) ELSE a
             f == [x \in Nat \X (1..n) |-> Add(x[1], x[2])]
             Is(g) == g = [s \in SUBSET (1..n) |->
                             IF s = {} THEN 0 ELSE Add(g[s \ {Max(s)}], seq[Max(s)])]
             k == CHOOSE g : Is(g)
  <1>1. f \in [Nat \X (1..n) -> Nat]
    <2>1. ASSUME NEW a \in Nat, NEW i \in 1..n PROVE Add(a, i) \in Nat
      <3>1. h[i] \in Trade OBVIOUS
      <3>2. h[i].volume \in Nat BY <3>1, AnalyticsAssumption DEF Trade, Volume
      <3>3. VolumeOf(i) \in Nat BY <3>2 DEF VolumeOf
      <3> QED BY <3>3
    <2> QED BY <2>1
  <1>2. \A a \in Nat, i \in 1..n : f[<<a, i>>] = Add(a, i)
    OBVIOUS
  <1>3. n \in Nat /\ (\A i \in 1..n : seq[i] \in 1..n /\ seq[i] = i) /\ DOMAIN seq = 1..n
    OBVIOUS
  <1>4. WantedVolume = k[1..n]
    BY <1>3 DEF WantedVolume, FoldLeft, MapThenFoldSet
  <1>5. \A i \in 1..n : VolumeOf(i) = h[i].volume
    BY DEF VolumeOf
  <1> HIDE DEF f, n, seq, h, Add
  <1>6. \A s \in SUBSET (1..n) : s # {} => seq[Max(s)] \in 1..n
    BY <1>3, MaxOfInterval
  <1>7. PICK g : Folds(g, f, 0, seq, n, Nat)
    BY <1>1, <1>3, FoldExists
  <1>8. Is(g)
    BY <1>2, <1>6, <1>7 DEF Folds
  <1>9. Is(k)
    <2> HIDE DEF Is
    <2> QED BY <1>8
  <1> HIDE DEF k
  <1>10. FoldsFrom(k, f, 0, seq, n, Nat)
    BY <1>2, <1>6, <1>9 DEF FoldsFrom
  <1>11. PICK V : Steps(V, f, 0, seq, n, Nat, k[1..n])
    BY <1>1, <1>3, <1>10, FoldSteps
  <1>12. ASSUME NEW i \in 1..n PROVE V[i] = Add(V[i - 1], i)
    <2>1. i - 1 \in 0..n BY <1>3
    <2>2. V[i - 1] \in Nat /\ seq[i] = i BY <1>3, <1>11, <2>1 DEF Steps
    <2> QED BY <1>2, <1>11, <2>2 DEF Steps
  <1>13. \A i \in 1..n : V[i] = IF i \in Wanted THEN V[i - 1] + h[i].volume ELSE V[i - 1]
    BY <1>5, <1>12 DEF Add
  <1>14. V \in [0..n -> Nat] /\ V[0] = 0 /\ V[n] = WantedVolume
    BY <1>4, <1>11 DEF Steps
  <1>15. Sums(V, Wanted, h)
    BY <1>13, <1>14 DEF Sums, n
  <1> QED BY <1>14, <1>15 DEF n, h

(* What the assumption on histories says of the item's trades.           *)
LEMMA HistoryTypes ==
    ASSUME TypeOK, task.file \in Symbols
    PROVE  /\ trades[task.file] \in Seq(Trade)
           /\ Len(trades[task.file]) \in Nat
           /\ Len(trades[task.file]) < Word
           /\ \A i \in 1..Len(trades[task.file]) :
                 trades[task.file][i].time \notin {Never, Never + 1}
  <1> DEFINE h == trades[task.file]
  <1>1. h \in Histories BY DEF TypeOK
  <1> HIDE DEF h
  <1>2. /\ h \in Seq(Trade) /\ Len(h) < Word
        /\ \A i \in 1..Len(h) : h[i].time \notin {Never, Never + 1}
    BY <1>1, HistoryAssumption DEF Trade, Volume
  <1>3. Len(h) \in Nat BY <1>2
  <1> QED BY <1>2, <1>3 DEF h

(* No trade is at the time of a request without a query, moved or not.   *)
LEMMA NoneAtNever ==
    ASSUME TypeOK, task.file \in Symbols, NEW d \in {0, 1},
           NEW i \in 1..Len(trades[task.file])
    PROVE  ~(/\ Never + d <= trades[task.file][i].time
             /\ trades[task.file][i].time <= Never + d)
  <1>1. trades[task.file][i].time \in Int
        /\ trades[task.file][i].time \notin {Never, Never + 1}
    <2>1. /\ trades[task.file] \in Seq(Trade)
          /\ \A j \in 1..Len(trades[task.file]) :
                trades[task.file][j].time \notin {Never, Never + 1}
      BY HistoryTypes
    <2>2. trades[task.file][i] \in Trade BY <2>1
    <2> QED BY <2>1, <2>2 DEF Trade
  <1>2. Never \in Int BY AnalyticsAssumption
  <1> QED BY <1>1, <1>2

(* The parameters are the times the query asks for.                      *)
LEMMA ParametersAsked ==
    ASSUME TypeOK, task \in Requests, params[analytic] = Asked(task.query)
    PROVE  params[analytic] = [open_time |-> AskedTime("open"),
                               close_time |-> AskedTime("close")]
  <1>1. CASE task.query = NoQuery
    BY <1>1 DEF Asked, AskedTime, Unset
  <1>2. CASE task.query # NoQuery
    <2>1. task.query \in Seq(KeyValue) BY <1>2, RequestTypes
    <2>2. params[analytic] = ParseRequest(Unset, task.query) BY <1>2 DEF Asked
    <2>3. /\ params[analytic].open_time = AskedTime("open")
          /\ params[analytic].close_time = AskedTime("close")
      BY <1>2, <2>1, <2>2, ParseRequestLast DEF AskedTime
    <2>4. params[analytic] \in Parameters BY DEF TypeOK, Parameters
    <2> QED BY <2>3, <2>4 DEF Parameters
  <1> QED BY <1>1, <1>2

(* The trades the request wants are those in the period its parameters   *)
(* name: without a query the times are unset, and no trade is at such a  *)
(* time.                                                                 *)
LEMMA WantedIsPeriod ==
    ASSUME TypeOK, task.file \in Symbols, task \in Requests, plugin,
           params[analytic] = Asked(task.query), analytic # "rollup"
    PROVE  Wanted = InPeriod(params[analytic], trades[task.file])
  <1>1. /\ params[analytic].open_time = AskedTime("open")
        /\ params[analytic].close_time = AskedTime("close")
    BY ParametersAsked
  <1>2. Never \in Int BY AnalyticsAssumption
  <1>3. CASE task.query = NoQuery
    <2>1. Never + 0 = Never BY <1>2
    <2>2. AskedTime("open") = Never /\ AskedTime("close") = Never
      BY <1>3 DEF AskedTime
    <2>3. \A i \in 1..Len(trades[task.file]) :
             ~InWindow(params[analytic], trades[task.file][i])
      BY <1>1, <2>1, <2>2, NoneAtNever DEF InWindow
    <2> QED BY <1>3, <2>3 DEF Wanted, InPeriod
  <1>4. CASE task.query # NoQuery
    <2>1. /\ AskedTime("open") \in Int /\ AskedTime("close") \in Int
          /\ Moved = 0
      <3>1. params[analytic] \in Parameters BY DEF TypeOK, Parameters
      <3> QED BY <1>1, <3>1 DEF Parameters, Moved
    <2> QED BY <1>1, <1>4, <2>1 DEF Wanted, InPeriod, InWindow
  <1> QED BY <1>3, <1>4

(* A rollup wants those of the moved period, which are those of its bars *)
(* unless a sum of times wraps.                                          *)
LEMMA WantedIsRollup ==
    ASSUME TypeOK, task.file \in Symbols, task \in Requests, plugin,
           params[analytic] = Asked(task.query), analytic = "rollup", ~Wraps
    PROVE  Wanted = RollupPeriod(params[analytic], trades[task.file])
  <1> DEFINE p == params[analytic]
             h == trades[task.file]
  <1>1. p = [open_time |-> AskedTime("open"), close_time |-> AskedTime("close")]
    BY ParametersAsked
  <1>2. RollupFits(p) BY <1>1 DEF Wraps
  <1>3. p \in [open_time : Int, close_time : Int] /\ h \in Seq(Trade)
    BY HistoryTypes DEF TypeOK
  <1>4. RollupPeriod(p, h) = Shifted(p, h)
    <2> HIDE DEF p, h
    <2> QED BY <1>2, <1>3, PeriodShifted
  <1>5. p.open_time = AskedTime("open") /\ p.close_time = AskedTime("close")
    BY <1>1
  <1>6. Moved = Shift BY DEF Moved
  <1>7. CASE task.query = NoQuery
    <2>1. AskedTime("open") = Never /\ AskedTime("close") = Never
      BY <1>7 DEF AskedTime
    <2>2. Shift \in {0, 1} BY ReaderAssumption DEF Shift
    <2>3. Shifted(p, h) = {} BY <1>5, <2>1, <2>2, NoneAtNever DEF Shifted
    <2> QED BY <1>4, <1>7, <2>3 DEF Wanted
  <1>8. CASE task.query # NoQuery
    BY <1>4, <1>5, <1>6, <1>8 DEF Wanted, Shifted
  <1> QED BY <1>7, <1>8

(* Rounding keeps the order of prices.                                   *)
LEMMA Monotone ==
    ASSUME NEW x \in Int, NEW y \in Int, x <= y
    PROVE  RoundHalfUp(x) <= RoundHalfUp(y)
  BY DEF RoundHalfUp

(* The fields of a bar b.                                                *)
FieldsOf(fields, b) ==
    /\ fields.HIGH_1 = PriceReal(b.number_trades, b.high)
    /\ fields.LOW_1 = PriceReal(b.number_trades, b.low)
    /\ fields.OPEN_PRC = PriceReal(b.number_trades, b.open)
    /\ fields.HST_CLOSE = PriceReal(b.number_trades, b.close)
    /\ fields.ACVOL_1 = VolumeReal(b.volume)
    /\ fields.NUM_MOVES = CountReal(b.number_trades)

(* The fields of a bar that covers the wanted trades are as              *)
(* AnswersOwnRequest says.                                               *)
LEMMA OwnFields ==
    ASSUME trades[task.file] \in Seq(Trade), NEW b, NEW v,
           Covers(b, trades[task.file], Wanted, v),
           NEW fields, FieldsOf(fields, b)
    PROVE  OwnClose(fields) /\ OwnBar(fields)
  <1> DEFINE h == trades[task.file]
  <1>1. Wanted \subseteq 1..Len(h) /\ IsFiniteSet(Wanted)
    <2>1. Wanted \subseteq 1..Len(h) BY DEF Wanted
    <2>2. Len(h) \in Nat OBVIOUS
    <2>3. IsFiniteSet(1..Len(h)) BY <2>2, FS_Interval
    <2> QED BY <2>1, <2>3, FS_Subset
  <1>2. \A i \in Wanted : i \in Int /\ h[i].price \in Int
    <2>1. \A i \in 1..Len(h) : i \in Int /\ h[i] \in Trade OBVIOUS
    <2>2. \A t \in Trade : t.price \in Int BY DEF Trade
    <2> QED BY <1>1, <2>1, <2>2
  <1>3. b.number_trades = Cardinality(Wanted) BY DEF Covers
  <1>4. fields.NUM_MOVES.value = Cardinality(Wanted)
    BY <1>3 DEF FieldsOf, CountReal
  <1>5. CASE Wanted = {}
    <2>1. b.number_trades = 0 BY <1>3, <1>5, FS_EmptySet
    <2>2. /\ fields.HIGH_1.blank /\ fields.LOW_1.blank
          /\ fields.OPEN_PRC.blank /\ fields.HST_CLOSE.blank
      BY <2>1 DEF FieldsOf, PriceReal, Blank
    <2> QED BY <1>4, <1>5, <2>2 DEF OwnClose, OwnBar
  <1>6. CASE Wanted # {}
    <2>1. b.number_trades # 0 BY <1>1, <1>3, <1>6, FS_EmptySet
    <2>2. OfTrades(b, h, Wanted) BY <1>6 DEF Covers
    <2>3. /\ fields.HIGH_1 = Real(b.high) /\ fields.LOW_1 = Real(b.low)
          /\ fields.OPEN_PRC = Real(b.open) /\ fields.HST_CLOSE = Real(b.close)
      BY <2>1 DEF FieldsOf, PriceReal
    <2>4. \A a, field : \A i \in Wanted :
             (Holds(a, h[i].price) /\ field = Real(a)) => IsPrice(field, i)
      BY DEF Holds, Real, IsPrice
    <2>5. IsPrice(fields.HST_CLOSE, CHOOSE i \in Wanted : \A j \in Wanted : j <= i)
      <3>1. PICK k \in Wanted : ClosesAt(Wanted, k) /\ Holds(b.close, h[k].price)
        BY <2>2 DEF OfTrades
      <3>2. (CHOOSE i \in Wanted : \A j \in Wanted : j <= i) = k
        <4>1. \A j \in Wanted : j <= k BY <3>1 DEF ClosesAt
        <4>2. \A i \in Wanted : (\A j \in Wanted : j <= i) => i = k
          BY <1>2, <4>1
        <4> QED BY <4>1, <4>2
      <3> QED BY <2>3, <2>4, <3>1, <3>2
    <2>6. IsPrice(fields.OPEN_PRC, CHOOSE i \in Wanted : \A j \in Wanted : i <= j)
      <3>1. PICK k \in Wanted : OpensAt(Wanted, k) /\ Holds(b.open, h[k].price)
        BY <2>2 DEF OfTrades
      <3>2. (CHOOSE i \in Wanted : \A j \in Wanted : i <= j) = k
        <4>1. \A j \in Wanted : k <= j BY <3>1 DEF OpensAt
        <4>2. \A i \in Wanted : (\A j \in Wanted : i <= j) => i = k
          BY <1>2, <4>1
        <4> QED BY <4>1, <4>2
      <3> QED BY <2>3, <2>4, <3>1, <3>2
    <2>7. /\ \E i \in Wanted : IsPrice(fields.HIGH_1, i)
          /\ \E i \in Wanted : IsPrice(fields.LOW_1, i)
      BY <2>2, <2>3, <2>4 DEF OfTrades
    <2>8. ASSUME NEW i \in Wanted
          PROVE  /\ fields.LOW_1.value <= RoundHalfUp(h[i].price)
                 /\ RoundHalfUp(h[i].price) <= fields.HIGH_1.value
      <3>1. b.low.value <= h[i].price /\ h[i].price <= b.high.value
        BY <2>2 DEF OfTrades
      <3>2. b.low.value \in Int /\ b.high.value \in Int
        BY <1>2, <2>2 DEF OfTrades, Holds
      <3>3. /\ RoundHalfUp(b.low.value) <= RoundHalfUp(h[i].price)
            /\ RoundHalfUp(h[i].price) <= RoundHalfUp(b.high.value)
        BY <1>2, <3>1, <3>2, Monotone
      <3> QED BY <2>3, <3>3 DEF Real
    <2> QED BY <1>4, <1>6, <2>5, <2>6, <2>7, <2>8 DEF OwnClose, OwnBar
  <1> QED BY <1>5, <1>6

(* No check failed.                                                      *)
Fine == why = ""

(* What the invariant says of a reply that is a refresh.                 *)
LEMMA ReplyIsMessage ==
    ASSUME Answers, Replied, Fine
    PROVE  /\ Answered
           /\ reply.message = Message
           /\ task \in Requests /\ task.file \in Symbols
           /\ analytic # "test" => params[analytic] = Asked(task.query)
           /\ Sound
           /\ plugin /\ task.file \in permdata => dacs_lock_ = task.file
  <1>1. Answered BY DEF Replied, Answered
  <1>2. reply = DecodeReply(task, rssl_buf_, rssl_length_) /\ rssl_buf_ = Message
    BY <1>1 DEF Answers, Written, Replied, Fine
  <1>3. reply.message = Message BY <1>2 DEF DecodeReply
  <1> QED BY <1>1, <1>3 DEF Answers, Selected, Parsed, Computed, Locked, Fine

(* What WriteRaw of each analytic writes.                                *)
LEMMA MessageOf ==
    /\ analytic = "bar" =>
          /\ Message.lock = dacs_lock_
          /\ Message.fields = BarFields(vta.bar)
    /\ analytic = "rollup" =>
          /\ Message.lock = dacs_lock_
          /\ Message.fields = RollupFields(vta.rollup)
    /\ analytic = "close" =>
          /\ Message.lock = dacs_lock_
          /\ Message.fields = CloseFields(vta.close)
    /\ analytic = "test" => Message.lock = ""
  <1>1. CASE analytic = "bar"
    <2>1. Message = BarWriteRaw(vta.bar, dacs_lock_) BY <1>1 DEF Message
    <2> QED BY <1>1, <2>1 DEF BarWriteRaw, Refresh
  <1>2. CASE analytic = "rollup"
    <2>1. Message = RollupWriteRaw(vta.rollup, dacs_lock_) BY <1>2 DEF Message
    <2> QED BY <1>2, <2>1 DEF RollupWriteRaw, Refresh
  <1>3. CASE analytic = "close"
    <2>1. Message = CloseWriteRaw(vta.close, dacs_lock_) BY <1>3 DEF Message
    <2> QED BY <1>3, <2>1 DEF CloseWriteRaw, Refresh
  <1>4. CASE analytic = "test"
    <2>1. Message = TestWriteRaw BY <1>4 DEF Message
    <2> QED BY <1>4, <2>1 DEF TestWriteRaw, Refresh
  <1> QED BY <1>1, <1>2, <1>3, <1>4

(* A reply to a bar or rollup request holds the fields of a bar that     *)
(* covers the wanted trades, unless a sum of times wraps.                *)
LEMMA BarReply ==
    ASSUME TypeOK, Answers, Replied, Fine, analytic \in {"bar", "rollup"}
    PROVE  \E b \in Bar :
              /\ ~Wraps => Covers(b, trades[task.file], Wanted, WantedVolume)
              /\ FieldsOf(reply.message.fields, b)
  <1> DEFINE h == trades[task.file]
             n == Len(h)
             b == vta[analytic]
  <1>1. /\ reply.message = Message
        /\ task \in Requests /\ task.file \in Symbols
        /\ params[analytic] = Asked(task.query)
        /\ Sound
    BY ReplyIsMessage
  <1>2. FieldsOf(reply.message.fields, b)
    <2>1. CASE analytic = "bar"
      <3>1. reply.message.fields = BarFields(vta.bar) BY <1>1, <2>1, MessageOf
      <3>2. FieldsOf(BarFields(vta.bar), vta.bar) BY DEF FieldsOf, BarFields
      <3> QED BY <2>1, <3>1, <3>2
    <2>2. CASE analytic = "rollup"
      <3>1. reply.message.fields = RollupFields(vta.rollup)
        BY <1>1, <2>2, MessageOf
      <3>2. FieldsOf(RollupFields(vta.rollup), vta.rollup)
        BY DEF FieldsOf, RollupFields
      <3> QED BY <2>2, <3>1, <3>2
    <2> QED BY <2>1, <2>2
  <1>3. h \in Seq(Trade) /\ n \in Nat /\ n < Word BY <1>1, HistoryTypes
  <1>4. PICK V : Sums(V, Wanted, h) /\ V[n] = WantedVolume
    BY <1>3, WantedVolumeSums
  <1>5. b \in Bar /\ (~Wraps => Covers(b, h, Wanted, WantedVolume))
    <2>1. CASE ~plugin
      <3>1. Wanted = {} BY <2>1 DEF Wanted
      <3>2. n \in Nat BY <1>3
      <3>3. WantedVolume = 0 BY <1>4, <3>1, <3>2, SumsOfNothing
      <3>4. b = NullBar BY <1>1, <2>1 DEF Sound
      <3>5. Covers(b, h, Wanted, WantedVolume) BY <3>1, <3>3, <3>4, NullCovers
      <3> QED BY <3>5 DEF Covers
    <2>2. CASE plugin /\ analytic = "bar"
      <3> DEFINE p == params[analytic]
      <3>1. Wanted = InPeriod(p, h) BY <1>1, <2>2, WantedIsPeriod
      <3>2. Sums(V, InPeriod(p, h), h) BY <1>4, <3>1
      <3>3. b = BarCalculate(NullBar, p, h) BY <1>1, <2>2 DEF Sound
      <3>4. Covers(BarCalculate(NullBar, p, h), h, InPeriod(p, h), V[n])
        BY <1>3, <3>2, BarCovers
      <3>5. Covers(b, h, Wanted, WantedVolume) BY <1>4, <3>1, <3>3, <3>4
      <3> QED BY <3>5 DEF Covers
    <2>3. CASE plugin /\ analytic = "rollup"
      <3> DEFINE p == params[analytic]
      <3>1. PICK cuts \in Cuts(RollupPeriod(p, h)) :
               b = RollupCalculate(NullBar, p, h, cuts)
        BY <1>1, <2>3 DEF Sound
      <3>2. p \in [open_time : Int, close_time : Int] BY DEF TypeOK
      <3>3. b \in Bar BY <1>3, <3>1, RollupCalculateType
      <3>4. ASSUME ~Wraps PROVE Covers(b, h, Wanted, WantedVolume)
        <4>1. Wanted = RollupPeriod(p, h) BY <1>1, <2>3, <3>4, WantedIsRollup
        <4>2. Sums(V, RollupPeriod(p, h), h) BY <1>4, <4>1
        <4>3. Covers(RollupCalculate(NullRollup, p, h, cuts), h,
                     RollupPeriod(p, h), V[n])
          BY <1>3, <3>1, <3>2, <4>2, RollupCovers
        <4> QED BY <1>4, <3>1, <4>1, <4>3 DEF NullRollup
      <3> QED BY <3>3, <3>4
    <2> QED BY <2>1, <2>2, <2>3
  <1> QED BY <1>2, <1>5

(* A reply to a close request holds the price of the last wanted trade.  *)
LEMMA CloseReply ==
    ASSUME TypeOK, Answers, Replied, Fine, analytic = "close"
    PROVE  OwnClose(reply.message.fields)
  <1> DEFINE h == trades[task.file]
             c == vta.close
             p == params.close
  <1>1. /\ reply.message = Message
        /\ task \in Requests /\ task.file \in Symbols
        /\ params[analytic] = Asked(task.query)
        /\ Sound
    BY ReplyIsMessage
  <1>2. reply.message.fields.HST_CLOSE = PriceReal(c.number_trades, c.close)
    <2>1. reply.message.fields = CloseFields(c) BY <1>1, MessageOf
    <2> QED BY <2>1 DEF CloseFields
  <1>3. CASE Wanted = {}
    <2>1. c = NullClose
      <3>1. CASE ~plugin BY <1>1, <3>1 DEF Sound
      <3>2. CASE plugin
        <4>1. InPeriod(p, h) = {} BY <1>1, <1>3, <3>2, WantedIsPeriod
        <4>2. c = CloseCalculate(NullClose, p, h) BY <1>1, <3>2 DEF Sound
        <4> QED BY <4>1, <4>2 DEF CloseCalculate
      <3> QED BY <3>1, <3>2
    <2> QED BY <1>2, <1>3, <2>1 DEF OwnClose, NullClose, PriceReal, Blank
  <1>4. CASE Wanted # {}
    <2>1. plugin BY <1>4 DEF Wanted
    <2>2. Wanted = InPeriod(p, h) BY <1>1, <2>1, WantedIsPeriod
    <2>3. c = CloseOnRecord(NullClose, h[Max(Wanted)])
      <3>1. c = CloseCalculate(NullClose, p, h) BY <1>1, <2>1 DEF Sound
      <3> QED BY <1>4, <2>2, <3>1 DEF CloseCalculate
    <2>4. ASSUME NEW x
          PROVE  /\ CloseOnRecord(NullClose, x).number_trades = 1
                 /\ CloseOnRecord(NullClose, x).close = [value |-> x.price, empty |-> FALSE]
      BY DEF CloseOnRecord, NullClose, NoSample, FirstValue
    <2>5. IsPrice(reply.message.fields.HST_CLOSE, Max(Wanted))
      <3>1. c.number_trades = 1 /\ c.close = [value |-> h[Max(Wanted)].price, empty |-> FALSE]
        BY <2>3, <2>4
      <3>2. reply.message.fields.HST_CLOSE = Real(c.close)
        BY <1>2, <3>1 DEF PriceReal
      <3> QED BY <3>1, <3>2 DEF Real, IsPrice
    <2>6. (CHOOSE i \in Wanted : \A j \in Wanted : j <= i) = Max(Wanted)
      <3>1. Wanted \in SUBSET (1..Len(h)) /\ Len(h) \in Nat
        <4>1. Len(h) \in Nat BY <1>1, HistoryTypes
        <4> QED BY <4>1 DEF Wanted
      <3>2. Max(Wanted) \in Wanted /\ \A j \in Wanted : j <= Max(Wanted)
        BY <1>4, <3>1, MaxOfInterval
      <3>3. \A i \in Wanted : (\A j \in Wanted : j <= i) => i = Max(Wanted)
        <4> HIDE DEF h
        <4>1. \A i \in 1..Len(h) : i \in Int BY <3>1
        <4>2. \A i \in Wanted : i \in Int BY <3>1, <4>1
        <4> QED BY <3>2, <4>2
      <3> QED BY <3>2, <3>3
    <2> QED BY <1>4, <2>5, <2>6 DEF OwnClose
  <1> QED BY <1>3, <1>4

(* A reply states what its own request asked for, whatever the worker_t  *)
(* served before, for every history, query and sequence of requests, but *)
(* for a rollup_bar_t whose sums of times wrap in 32 bits.               *)
THEOREM ReplyAnswersRequest == Spec => []AnswersOwnRequest
  <1>1. TypeOK /\ Answers => AnswersOwnRequest
    <2>1. SUFFICES ASSUME TypeOK, Answers, Replied PROVE AnswersOwnRequest
      BY DEF AnswersOwnRequest
    <2>2. Answered BY <2>1 DEF Replied, Answered
    <2>3. reply = DecodeReply(task, rssl_buf_, rssl_length_)
      BY <2>1 DEF Answers, Written, Replied
    <2>4. (reply.message.kind = "refresh") <=> why = ""
      BY <2>1, <2>2, <2>3 DEF Answers, Written, DecodeReply
    <2>5. reply.handle = task.handle /\ reply.token = task.token
      BY <2>3 DEF DecodeReply
    <2>6. ASSUME Fine, analytic \in {"bar", "rollup"}, ~Wraps
          PROVE  OwnClose(reply.message.fields) /\ OwnBar(reply.message.fields)
      <3>1. PICK b : /\ Covers(b, trades[task.file], Wanted, WantedVolume)
                     /\ FieldsOf(reply.message.fields, b)
        BY <2>1, <2>6, BarReply
      <3>2. task.file \in Symbols BY <2>1, <2>6, ReplyIsMessage
      <3>3. trades[task.file] \in Seq(Trade) BY <2>1, <3>2, HistoryTypes
      <3> QED BY <3>1, <3>3, OwnFields
    <2>7. ASSUME Fine, analytic = "close" PROVE OwnClose(reply.message.fields)
      BY <2>1, <2>7, CloseReply
    <2>8. analytic \in {"bar", "rollup", "close", "test"} BY <2>1 DEF TypeOK, Kinds
    <2>9. Fine /\ analytic # "test" /\ ~Wraps =>
            /\ OwnClose(reply.message.fields)
            /\ analytic # "close" => OwnBar(reply.message.fields)
      BY <2>6, <2>7, <2>8
    <2> QED BY <2>4, <2>5, <2>9 DEF AnswersOwnRequest, Fine
  <1> QED BY <1>1, WorkerAnswers, PTL

(* A refresh for an item with a PermData record carries its own lock,    *)
(* whatever lock permdata_t::GetDacsLock found in the member.            *)
THEOREM LockIsRecorded == Spec => []LockWhenRecorded
  <1>1. TypeOK /\ Answers => LockWhenRecorded
    <2>1. SUFFICES ASSUME TypeOK, Answers, Replied, Fine, plugin, task.file \in permdata
                   PROVE  reply.message.lock = IF analytic = "test" THEN "" ELSE task.file
      BY DEF LockWhenRecorded, Fine
    <2>2. reply.message = Message /\ dacs_lock_ = task.file BY <2>1, ReplyIsMessage
    <2>3. analytic \in {"bar", "rollup", "close", "test"} BY <2>1 DEF TypeOK, Kinds
    <2> QED BY <2>2, <2>3, MessageOf
  <1> QED BY <1>1, WorkerAnswers, PTL

(* Division rounds down.                                                 *)
LEMMA Division ==
    ASSUME NEW a \in Nat, NEW e \in Nat \ {0}
    PROVE  /\ a \div e \in Nat
           /\ (a \div e) * e <= a
           /\ a < (a \div e + 1) * e
  OBVIOUS

(* A quotient of less than m + 1 times e is at most m.                   *)
LEMMA QuotientBelow ==
    ASSUME NEW a \in Nat, NEW d \in Nat, NEW m \in Nat, NEW e \in Nat \ {0},
           d * e <= a, a < (m + 1) * e
    PROVE  d <= m
  OBVIOUS

(* The double a uint64_t becomes is at most half a spacing away.         *)
LEMMA NearestIsNear ==
    ASSUME NEW x \in Volume
    PROVE  /\ NearestDouble(x) \in Nat
           /\ 2 * (NearestDouble(x) - x) <= Spacing[x]
           /\ 2 * (x - NearestDouble(x)) <= Spacing[x]
  <1> DEFINE s == Spacing[x]
             rest == x % s
  <1>1. x \in Nat /\ s \in Nat \ {0}
    BY AnalyticsAssumption, SpacingAssumption DEF Volume
  <1>2. rest \in 0..(s - 1) /\ x - rest \in Nat
    <2> HIDE DEF s
    <2>1. rest \in 0..(s - 1) BY <1>1
    <2>2. rest <= x BY <1>1
    <2> HIDE DEF rest
    <2> QED BY <1>1, <2>1, <2>2
  <1>3. \/ NearestDouble(x) = x - rest /\ 2 * x <= (x - rest) + ((x - rest) + s)
        \/ NearestDouble(x) = (x - rest) + s /\ (x - rest) + ((x - rest) + s) <= 2 * x
    <2> DEFINE even == ((x - rest) \div s) % 2 = 0
               half == (x - rest) + ((x - rest) + s)
    <2>1. NearestDouble(x) = IF 2 * x < half \/ (2 * x = half /\ even)
                               THEN x - rest ELSE (x - rest) + s
      BY DEF NearestDouble
    <2> HIDE DEF even
    <2>2. half \in Int /\ 2 * x \in Int BY <1>1, <1>2
    <2> HIDE DEF half, rest, s
    <2>3. 2 * x < half \/ 2 * x = half \/ half < 2 * x BY <2>2
    <2>4. CASE 2 * x < half \/ (2 * x = half /\ even)
      <3>1. 2 * x <= half BY <2>2, <2>4
      <3>2. NearestDouble(x) = x - rest BY <2>1, <2>4
      <3> QED BY <3>1, <3>2 DEF half
    <2>5. CASE ~(2 * x < half \/ (2 * x = half /\ even))
      <3>1. half <= 2 * x BY <2>2, <2>5
      <3>2. NearestDouble(x) = (x - rest) + s BY <2>1, <2>5
      <3> QED BY <3>1, <3>2 DEF half
    <2> QED BY <2>4, <2>5
  <1> HIDE DEF rest
  <1>4. /\ NearestDouble(x) \in Nat
        /\ 2 * (NearestDouble(x) - x) <= s
        /\ 2 * (x - NearestDouble(x)) <= s
    <2> HIDE DEF s
    <2> QED BY <1>1, <1>2, <1>3
  <1> QED BY <1>4

(* Division of d by e to the nearest is at most half of e away.          *)
LEMMA Rounded ==
    ASSUME NEW d \in Nat, NEW e \in Nat \ {0},
           NEW q, q = (d + e \div 2) \div e
    PROVE  /\ q \in Nat /\ q * e \in Nat
           /\ 2 * (q * e - d) <= e
           /\ 2 * (d - q * e) <= e - 1
  <1> DEFINE h == e \div 2
             m == q * e
  <1>1. h \in Nat /\ 2 * h <= e /\ e <= 2 * h + 1 OBVIOUS
  <1> HIDE DEF h
  <1>2. d + h \in Nat BY <1>1
  <1>3. q \in Nat /\ q * e <= d + h /\ d + h < (q + 1) * e
    <2>1. q = (d + h) \div e BY DEF h
    <2> QED BY <1>2, <2>1, Division
  <1>4. m \in Nat /\ (q + 1) * e = m + e BY <1>3
  <1>5. m <= d + h /\ d + h < m + e BY <1>3, <1>4
  <1> HIDE DEF m
  <1>6. 2 * (m - d) <= e /\ 2 * (d - m) <= e - 1 BY <1>1, <1>4, <1>5
  <1> QED BY <1>3, <1>4, <1>6 DEF m

(* ACVOL_1 of a uint64_t: seven bytes hold its value, exact or scaled.   *)
LEMMA VolumeRealExact ==
    ASSUME NEW x \in Volume
    PROVE  /\ VolumeReal(x).value <= RealMax
           /\ x <= RealMax => VolumeReal(x).hint = 0 /\ VolumeReal(x).value = x
           /\ RealMax < x =>
                 /\ VolumeReal(x).hint = 7
                 /\ x - Exponent7 < VolumeReal(x).value * Exponent7
                 /\ VolumeReal(x).value * Exponent7 < x + Exponent7
  <1>1. /\ x \in Nat /\ x < Word /\ RealMax \in Nat /\ Exponent7 \in Nat \ {0}
        /\ Word \in Nat
    BY AnalyticsAssumption DEF Volume
  <1>2. CASE x <= RealMax
    BY <1>1, <1>2 DEF VolumeReal
  <1>3. CASE ~(x <= RealMax)
    <2> DEFINE d == NearestDouble(x)
               s == Spacing[x]
               q == (d + Exponent7 \div 2) \div Exponent7
               m == q * Exponent7
    <2>1. VolumeReal(x).value = q /\ VolumeReal(x).hint = 7
      BY <1>3 DEF VolumeReal
    <2>2. d \in Nat /\ 2 * (d - x) <= s /\ 2 * (x - d) <= s
      BY NearestIsNear
    <2>3. s \in 1..(Exponent7 - 1) BY SpacingAssumption DEF Volume
    <2> HIDE DEF d, s
    <2>4. q \in Nat /\ m \in Nat /\ 2 * (m - d) <= Exponent7 /\ 2 * (d - m) <= Exponent7 - 1
      BY <1>1, <2>2, Rounded
    <2> HIDE DEF q
    <2>5. x - Exponent7 < m /\ m < x + Exponent7
      <3> HIDE DEF m
      <3> QED BY <1>1, <2>2, <2>3, <2>4
    <2>6. m < (RealMax + 1) * Exponent7
      <3> DEFINE most == RealMax * Exponent7
      <3>1. most \in Nat /\ (RealMax + 1) * Exponent7 = most + Exponent7 BY <1>1
      <3>2. Word <= most BY AnalyticsAssumption
      <3> HIDE DEF most, m
      <3> QED BY <1>1, <2>4, <2>5, <3>1, <3>2
    <2>7. q <= RealMax
      <3>1. q * Exponent7 <= m BY <1>1, <2>4
      <3> HIDE DEF m
      <3> QED BY <1>1, <2>4, <2>6, <3>1, QuotientBelow
    <2> QED BY <1>1, <1>3, <2>1, <2>5, <2>7
  <1> QED BY <1>2, <1>3

(* ACVOL_1 states the volume of the wanted trades as VolumeFaithful      *)
(* says, for every history whose volume a uint64_t can hold.             *)
THEOREM VolumeIsFaithful == Spec => []VolumeFaithful
  <1>1. TypeOK /\ Answers => VolumeFaithful
    <2>1. SUFFICES ASSUME TypeOK, Answers, Replied, Fine, analytic \in {"bar", "rollup"}
                   PROVE  LET v == reply.message.fields.ACVOL_1
                          IN  /\ v.value <= RealMax
                              /\ WantedVolume <= RealMax /\ ~Wraps =>
                                    v.hint = 0 /\ v.value = WantedVolume
                              /\ RealMax < WantedVolume /\ WantedVolume < Word /\ ~Wraps =>
                                    /\ v.hint = 7
                                    /\ WantedVolume - Exponent7 < v.value * Exponent7
                                    /\ v.value * Exponent7 < WantedVolume + Exponent7
      BY DEF VolumeFaithful, Fine
    <2>2. PICK b \in Bar :
             /\ ~Wraps => Covers(b, trades[task.file], Wanted, WantedVolume)
             /\ FieldsOf(reply.message.fields, b)
      BY <2>1, BarReply
    <2>3. reply.message.fields.ACVOL_1 = VolumeReal(b.volume)
      BY <2>2 DEF FieldsOf
    <2>4. b.volume \in Volume BY <2>2 DEF Bar
    <2>5. ~Wraps => /\ WantedVolume \in Nat
                    /\ WantedVolume \in Volume => b.volume = WantedVolume
      BY <2>2 DEF Covers
    <2>6. ~Wraps /\ WantedVolume < Word => b.volume = WantedVolume
      BY <2>5, AnalyticsAssumption DEF Volume
    <2>7. ~Wraps /\ WantedVolume <= RealMax => b.volume = WantedVolume
      BY <2>5, AnalyticsAssumption DEF Volume
    <2>8. VolumeReal(b.volume).value <= RealMax BY <2>4, VolumeRealExact
    <2>9. ASSUME ~Wraps, WantedVolume <= RealMax
          PROVE  VolumeReal(b.volume).hint = 0 /\ VolumeReal(b.volume).value = WantedVolume
      BY <2>4, <2>7, <2>9, VolumeRealExact
    <2>10. ASSUME ~Wraps, RealMax < WantedVolume, WantedVolume < Word
           PROVE  /\ VolumeReal(b.volume).hint = 7
                  /\ WantedVolume - Exponent7 < VolumeReal(b.volume).value * Exponent7
                  /\ VolumeReal(b.volume).value * Exponent7 < WantedVolume + Exponent7
      BY <2>4, <2>6, <2>10, VolumeRealExact
    <2> QED BY <2>3, <2>8, <2>9, <2>10
  <1> QED BY <1>1, WorkerAnswers, PTL
=============================================================================
