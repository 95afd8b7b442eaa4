------------------------- MODULE Backtest_proofs --------------------------
(***************************************************************************)
(* The backtest of any strategy, over any bars: the types, the average of  *)
(* the engine against that of its trades, the stops that never loosen, the *)
(* ledger, and the bars to come that no book has read.                     *)
(*                                                                         *)
(* A book is good for its account (LongBook, ShortBook) when what it holds *)
(* is what derivePosition makes of its trades, when an entry that waits is *)
(* paid for, and when a position of the ladder is the holding.  Each part  *)
(* of the engine keeps it so, and what the bar booked is paid for (Kept).  *)
(***************************************************************************)
EXTENDS BacktestParts_proofs

---------------------------------------------------------------------------
(* The folds of a bar: rules, sales and purchases, and of a ledger.        *)

\* What a trade leaves of a ledger, as the ledger has it.
Settled(Credit, acc, t) ==
  IF t.side = "buy"
  THEN [acc EXCEPT !.cash = @ - t.qty * t.price * (100 + Commission), !.held = @ + t.qty, !.ok = @ /\ (Credit \/ t.qty * t.price * (100 + Commission) <= acc.cash)]
  ELSE [acc EXCEPT !.cash = @ + t.qty * t.price * (100 - Commission), !.held = @ - t.qty, !.ok = @ /\ t.qty <= acc.held]
SettledAll(Credit, base, trades) == FoldLeft(LAMBDA a, t : Settled(Credit, a, t), base, trades)
\* The folds of a bar's rules and of its sales and purchases, by name.
Simply(base, acc, bars, i, rules) == FoldLeft(LAMBDA acct, rule : SimpleRule(acct, acc, bars, i, rule), base, rules)
Plainly(base, acc, bars, i, rules) == FoldLeft(LAMBDA acct, rule : PlainRule(acct, acc, bars, i, rule), base, rules)
SoldEach(base, price, sizes, i) == FoldLeft(LAMBDA acct, q : Sold(acct, Under(price), q, i), base, sizes)
BoughtEach(base, price, sizes, i) == FoldLeft(LAMBDA acct, q : Bought(acct, Over(price), q, i), base, sizes)

LEMMA SimpleIs ==
  ASSUME NEW b, NEW acc, NEW bars, NEW i, NEW active
  PROVE  LET sl == Or(active.sl, acc.risk.sl)
             tp == Or(active.tp, acc.risk.tp)
         IN  SimplePath(b, acc, bars, i, active) =
               IF StopsOut(b, acc, bars[i], sl, tp) THEN StoppedOut(b, acc, bars[i], i, sl)
               ELSE Simply(b, acc, bars, i, active.rules)
BY DEF SimplePath, Simply, FoldLeft, MapThenFoldSet

\* The fold of a ledger over the trades of a bar.
SettleSteps(Credit, trades, base, A) ==
  \E v \in [0..Len(trades) -> A] :
    /\ v[0] = base /\ v[Len(trades)] = SettledAll(Credit, base, trades)
    /\ \A k \in 1..Len(trades) : v[k] = Settled(Credit, v[k - 1], trades[k])
SettleStays(Credit, trades, base, A) ==
  /\ base \in A /\ Len(trades) \in Nat /\ DOMAIN trades = 1..Len(trades)
  /\ \A a \in A, k \in 1..Len(trades) : Settled(Credit, a, trades[k]) \in A
LEMMA SettleFold == ASSUME NEW Credit, NEW trades, NEW base, NEW A, SettleStays(Credit, trades, base, A) PROVE SettleSteps(Credit, trades, base, A)
<1> USE DEF SettleStays
<1> DEFINE n == Len(trades)
           o == [x \in A \X (1..n) |-> Settled(Credit, x[1], trades[x[2]])]
           g == TheFold(o, base, 1..n)
           E(f) == f = [s \in SUBSET (1..n) |-> IF s = {} THEN base ELSE Settled(Credit, f[s \ {Max(s)}], trades[Max(s)])]
           h == CHOOSE f : E(f)
<1>1. ASSUME NEW a \in A, NEW k \in 1..n PROVE o[<<a, k>>] = Settled(Credit, a, trades[k]) /\ o[<<a, k>>] \in A
  OBVIOUS
<1>2. SettledAll(Credit, base, trades) = h[1..n]
  BY DEF SettledAll, FoldLeft, MapThenFoldSet
<1> HIDE DEF o, n
<1> HIDE DEF SettleStays
<1>3. Within(o, base, n, A) /\ n \in Nat
  BY <1>1 DEF Within, n, SettleStays
<1>4. Given(o, base, n, A, g)
  BY <1>3, FoldGiven
<1> HIDE DEF g
<1>5. E(g)
  <2>1. ASSUME NEW s \in SUBSET (1..n)
        PROVE  (IF s = {} THEN base ELSE o[<<g[s \ {Max(s)}], Max(s)>>]) = (IF s = {} THEN base ELSE Settled(Credit, g[s \ {Max(s)}], trades[Max(s)]))
    BY <1>1, <1>4 DEF Given
  <2>2. [s \in SUBSET (1..n) |-> IF s = {} THEN base ELSE o[<<g[s \ {Max(s)}], Max(s)>>]] =
        [s \in SUBSET (1..n) |-> IF s = {} THEN base ELSE Settled(Credit, g[s \ {Max(s)}], trades[Max(s)])]
    BY <2>1
  <2> QED
    BY <1>4, <2>2 DEF Given
<1>6. E(h)
  BY <1>5
<1> HIDE DEF h
<1>7. ASSUME NEW s \in SUBSET (1..n) PROVE h[s] = IF s = {} THEN base ELSE Settled(Credit, h[s \ {Max(s)}], trades[Max(s)])
  BY <1>6
<1>8. ASSUME NEW s \in SUBSET (1..n), s # {}, h[Butlast(s)] \in A PROVE h[s] = o[<<h[Butlast(s)], Max(s)>>]
  BY <1>1, <1>4, <1>7, <1>8 DEF Butlast, Given
<1>9. Runs(o, base, n, A, h[1..n])
  BY <1>3, <1>7, <1>8, FoldRuns
<1>10. PICK v \in [0..n -> A] : v[0] = base /\ v[n] = h[1..n] /\ \A k \in 1..n : v[k] = o[<<v[k - 1], k>>]
  BY <1>9 DEF Runs
<1>11. ASSUME NEW k \in 1..n PROVE v[k] = Settled(Credit, v[k - 1], trades[k])
  <2>1. k - 1 \in 0..n
    BY <1>3
  <2>2. v[k - 1] \in A /\ v[k] = o[<<v[k - 1], k>>]
    BY <1>10, <2>1
  <2> QED
    BY <1>1, <2>2
<1> QED
  BY <1>2, <1>10, <1>11 DEF n, SettleSteps

\* The fold of a sum.
SumSteps(terms, A) ==
  \E v \in [0..Len(terms) -> A] :
    /\ v[0] = 0 /\ v[Len(terms)] = SumOf(terms)
    /\ \A k \in 1..Len(terms) : v[k] = v[k - 1] + terms[k]
SumStays(terms, A) ==
  /\ 0 \in A /\ Len(terms) \in Nat /\ DOMAIN terms = 1..Len(terms)
  /\ \A a \in A, k \in 1..Len(terms) : a + terms[k] \in A
LEMMA SumFold == ASSUME NEW terms, NEW A, SumStays(terms, A) PROVE SumSteps(terms, A)
<1> USE DEF SumStays
<1> DEFINE n == Len(terms)
           o == [x \in A \X (1..n) |-> x[1] + terms[x[2]]]
           g == TheFold(o, 0, 1..n)
           E(f) == f = [s \in SUBSET (1..n) |-> IF s = {} THEN 0 ELSE f[s \ {Max(s)}] + terms[Max(s)]]
           h == CHOOSE f : E(f)
<1>1. ASSUME NEW a \in A, NEW k \in 1..n PROVE o[<<a, k>>] = a + terms[k] /\ o[<<a, k>>] \in A
  OBVIOUS
<1>2. SumOf(terms) = h[1..n]
  BY DEF SumOf, FoldLeft, MapThenFoldSet
<1> HIDE DEF o, n
<1> HIDE DEF SumStays
<1>3. Within(o, 0, n, A) /\ n \in Nat
  BY <1>1 DEF Within, n, SumStays
<1>4. Given(o, 0, n, A, g)
  BY <1>3, FoldGiven
<1> HIDE DEF g
<1>5. E(g)
  <2>1. ASSUME NEW s \in SUBSET (1..n)
        PROVE  (IF s = {} THEN 0 ELSE o[<<g[s \ {Max(s)}], Max(s)>>]) = (IF s = {} THEN 0 ELSE g[s \ {Max(s)}] + terms[Max(s)])
    BY <1>1, <1>4 DEF Given
  <2>2. [s \in SUBSET (1..n) |-> IF s = {} THEN 0 ELSE o[<<g[s \ {Max(s)}], Max(s)>>]] =
        [s \in SUBSET (1..n) |-> IF s = {} THEN 0 ELSE g[s \ {Max(s)}] + terms[Max(s)]]
    BY <2>1
  <2> QED
    BY <1>4, <2>2 DEF Given
<1>6. E(h)
  BY <1>5
<1> HIDE DEF h
<1>7. ASSUME NEW s \in SUBSET (1..n) PROVE h[s] = IF s = {} THEN 0 ELSE h[s \ {Max(s)}] + terms[Max(s)]
  BY <1>6
<1>8. ASSUME NEW s \in SUBSET (1..n), s # {}, h[Butlast(s)] \in A PROVE h[s] = o[<<h[Butlast(s)], Max(s)>>]
  BY <1>1, <1>4, <1>7, <1>8 DEF Butlast, Given
<1>9. Runs(o, 0, n, A, h[1..n])
  BY <1>3, <1>7, <1>8, FoldRuns
<1>10. PICK v \in [0..n -> A] : v[0] = 0 /\ v[n] = h[1..n] /\ \A k \in 1..n : v[k] = o[<<v[k - 1], k>>]
  BY <1>9 DEF Runs
<1>11. ASSUME NEW k \in 1..n PROVE v[k] = v[k - 1] + terms[k]
  <2>1. k - 1 \in 0..n
    BY <1>3
  <2>2. v[k - 1] \in A /\ v[k] = o[<<v[k - 1], k>>]
    BY <1>10, <2>1
  <2> QED
    BY <1>1, <2>2
<1> QED
  BY <1>2, <1>10, <1>11 DEF n, SumSteps

\* The fold of the rules on the simple path.
SimpleSteps(acc, bars, i, rules, base, A) ==
  \E v \in [0..Len(rules) -> A] :
    /\ v[0] = base /\ v[Len(rules)] = Simply(base, acc, bars, i, rules)
    /\ \A k \in 1..Len(rules) : v[k] = SimpleRule(v[k - 1], acc, bars, i, rules[k])
SimpleStays(acc, bars, i, rules, base, A) ==
  /\ base \in A /\ Len(rules) \in Nat /\ DOMAIN rules = 1..Len(rules)
  /\ \A a \in A, k \in 1..Len(rules) : SimpleRule(a, acc, bars, i, rules[k]) \in A
LEMMA SimpleFold == ASSUME NEW acc, NEW bars, NEW i, NEW rules, NEW base, NEW A, SimpleStays(acc, bars, i, rules, base, A) PROVE SimpleSteps(acc, bars, i, rules, base, A)
<1> USE DEF SimpleStays
<1> DEFINE n == Len(rules)
           o == [x \in A \X (1..n) |-> SimpleRule(x[1], acc, bars, i, rules[x[2]])]
           g == TheFold(o, base, 1..n)
           E(f) == f = [s \in SUBSET (1..n) |-> IF s = {} THEN base ELSE SimpleRule(f[s \ {Max(s)}], acc, bars, i, rules[Max(s)])]
           h == CHOOSE f : E(f)
<1>1. ASSUME NEW a \in A, NEW k \in 1..n PROVE o[<<a, k>>] = SimpleRule(a, acc, bars, i, rules[k]) /\ o[<<a, k>>] \in A
  OBVIOUS
<1>2. Simply(base, acc, bars, i, rules) = h[1..n]
  BY DEF Simply, FoldLeft, MapThenFoldSet
<1> HIDE DEF o, n
<1> HIDE DEF SimpleStays
<1>3. Within(o, base, n, A) /\ n \in Nat
  BY <1>1 DEF Within, n, SimpleStays
<1>4. Given(o, base, n, A, g)
  BY <1>3, FoldGiven
<1> HIDE DEF g
<1>5. E(g)
  <2>1. ASSUME NEW s \in SUBSET (1..n)
        PROVE  (IF s = {} THEN base ELSE o[<<g[s \ {Max(s)}], Max(s)>>]) = (IF s = {} THEN base ELSE SimpleRule(g[s \ {Max(s)}], acc, bars, i, rules[Max(s)]))
    BY <1>1, <1>4 DEF Given
  <2>2. [s \in SUBSET (1..n) |-> IF s = {} THEN base ELSE o[<<g[s \ {Max(s)}], Max(s)>>]] =
        [s \in SUBSET (1..n) |-> IF s = {} THEN base ELSE SimpleRule(g[s \ {Max(s)}], acc, bars, i, rules[Max(s)])]
    BY <2>1
  <2> QED
    BY <1>4, <2>2 DEF Given
<1>6. E(h)
  BY <1>5
<1> HIDE DEF h
<1>7. ASSUME NEW s \in SUBSET (1..n) PROVE h[s] = IF s = {} THEN base ELSE SimpleRule(h[s \ {Max(s)}], acc, bars, i, rules[Max(s)])
  BY <1>6
<1>8. ASSUME NEW s \in SUBSET (1..n), s # {}, h[Butlast(s)] \in A PROVE h[s] = o[<<h[Butlast(s)], Max(s)>>]
  BY <1>1, <1>4, <1>7, <1>8 DEF Butlast, Given
<1>9. Runs(o, base, n, A, h[1..n])
  BY <1>3, <1>7, <1>8, FoldRuns
<1>10. PICK v \in [0..n -> A] : v[0] = base /\ v[n] = h[1..n] /\ \A k \in 1..n : v[k] = o[<<v[k - 1], k>>]
  BY <1>9 DEF Runs
<1>11. ASSUME NEW k \in 1..n PROVE v[k] = SimpleRule(v[k - 1], acc, bars, i, rules[k])
  <2>1. k - 1 \in 0..n
    BY <1>3
  <2>2. v[k - 1] \in A /\ v[k] = o[<<v[k - 1], k>>]
    BY <1>10, <2>1
  <2> QED
    BY <1>1, <2>2
<1> QED
  BY <1>2, <1>10, <1>11 DEF n, SimpleSteps

\* The fold of the rules of a single strategy.
PlainSteps(acc, bars, i, rules, base, A) ==
  \E v \in [0..Len(rules) -> A] :
    /\ v[0] = base /\ v[Len(rules)] = Plainly(base, acc, bars, i, rules)
    /\ \A k \in 1..Len(rules) : v[k] = PlainRule(v[k - 1], acc, bars, i, rules[k])
PlainStays(acc, bars, i, rules, base, A) ==
  /\ base \in A /\ Len(rules) \in Nat /\ DOMAIN rules = 1..Len(rules)
  /\ \A a \in A, k \in 1..Len(rules) : PlainRule(a, acc, bars, i, rules[k]) \in A
LEMMA PlainFold == ASSUME NEW acc, NEW bars, NEW i, NEW rules, NEW base, NEW A, PlainStays(acc, bars, i, rules, base, A) PROVE PlainSteps(acc, bars, i, rules, base, A)
<1> USE DEF PlainStays
<1> DEFINE n == Len(rules)
           o == [x \in A \X (1..n) |-> PlainRule(x[1], acc, bars, i, rules[x[2]])]
           g == TheFold(o, base, 1..n)
           E(f) == f = [s \in SUBSET (1..n) |-> IF s = {} THEN base ELSE PlainRule(f[s \ {Max(s)}], acc, bars, i, rules[Max(s)])]
           h == CHOOSE f : E(f)
<1>1. ASSUME NEW a \in A, NEW k \in 1..n PROVE o[<<a, k>>] = PlainRule(a, acc, bars, i, rules[k]) /\ o[<<a, k>>] \in A
  OBVIOUS
<1>2. Plainly(base, acc, bars, i, rules) = h[1..n]
  BY DEF Plainly, FoldLeft, MapThenFoldSet
<1> HIDE DEF o, n
<1> HIDE DEF PlainStays
<1>3. Within(o, base, n, A) /\ n \in Nat
  BY <1>1 DEF Within, n, PlainStays
<1>4. Given(o, base, n, A, g)
  BY <1>3, FoldGiven
<1> HIDE DEF g
<1>5. E(g)
  <2>1. ASSUME NEW s \in SUBSET (1..n)
        PROVE  (IF s = {} THEN base ELSE o[<<g[s \ {Max(s)}], Max(s)>>]) = (IF s = {} THEN base ELSE PlainRule(g[s \ {Max(s)}], acc, bars, i, rules[Max(s)]))
    BY <1>1, <1>4 DEF Given
  <2>2. [s \in SUBSET (1..n) |-> IF s = {} THEN base ELSE o[<<g[s \ {Max(s)}], Max(s)>>]] =
        [s \in SUBSET (1..n) |-> IF s = {} THEN base ELSE PlainRule(g[s \ {Max(s)}], acc, bars, i, rules[Max(s)])]
    BY <2>1
  <2> QED
    BY <1>4, <2>2 DEF Given
<1>6. E(h)
  BY <1>5
<1> HIDE DEF h
<1>7. ASSUME NEW s \in SUBSET (1..n) PROVE h[s] = IF s = {} THEN base ELSE PlainRule(h[s \ {Max(s)}], acc, bars, i, rules[Max(s)])
  BY <1>6
<1>8. ASSUME NEW s \in SUBSET (1..n), s # {}, h[Butlast(s)] \in A PROVE h[s] = o[<<h[Butlast(s)], Max(s)>>]
  BY <1>1, <1>4, <1>7, <1>8 DEF Butlast, Given
<1>9. Runs(o, base, n, A, h[1..n])
  BY <1>3, <1>7, <1>8, FoldRuns
<1>10. PICK v \in [0..n -> A] : v[0] = base /\ v[n] = h[1..n] /\ \A k \in 1..n : v[k] = o[<<v[k - 1], k>>]
  BY <1>9 DEF Runs
<1>11. ASSUME NEW k \in 1..n PROVE v[k] = PlainRule(v[k - 1], acc, bars, i, rules[k])
  <2>1. k - 1 \in 0..n
    BY <1>3
  <2>2. v[k - 1] \in A /\ v[k] = o[<<v[k - 1], k>>]
    BY <1>10, <2>1
  <2> QED
    BY <1>1, <2>2
<1> QED
  BY <1>2, <1>10, <1>11 DEF n, PlainSteps

\* The fold that books what a bar sells.
SoldSteps(price, i, sizes, base, A) ==
  \E v \in [0..Len(sizes) -> A] :
    /\ v[0] = base /\ v[Len(sizes)] = SoldEach(base, price, sizes, i)
    /\ \A k \in 1..Len(sizes) : v[k] = Sold(v[k - 1], Under(price), sizes[k], i)
SoldStays(price, i, sizes, base, A) ==
  /\ base \in A /\ Len(sizes) \in Nat /\ DOMAIN sizes = 1..Len(sizes)
  /\ \A a \in A, k \in 1..Len(sizes) : Sold(a, Under(price), sizes[k], i) \in A
LEMMA SoldFold == ASSUME NEW price, NEW i, NEW sizes, NEW base, NEW A, SoldStays(price, i, sizes, base, A) PROVE SoldSteps(price, i, sizes, base, A)
<1> USE DEF SoldStays
<1> DEFINE n == Len(sizes)
           o == [x \in A \X (1..n) |-> Sold(x[1], Under(price), sizes[x[2]], i)]
           g == TheFold(o, base, 1..n)
           E(f) == f = [s \in SUBSET (1..n) |-> IF s = {} THEN base ELSE Sold(f[s \ {Max(s)}], Under(price), sizes[Max(s)], i)]
           h == CHOOSE f : E(f)
<1>1. ASSUME NEW a \in A, NEW k \in 1..n PROVE o[<<a, k>>] = Sold(a, Under(price), sizes[k], i) /\ o[<<a, k>>] \in A
  OBVIOUS
<1>2. SoldEach(base, price, sizes, i) = h[1..n]
  BY DEF SoldEach, FoldLeft, MapThenFoldSet
<1> HIDE DEF o, n
<1> HIDE DEF SoldStays
<1>3. Within(o, base, n, A) /\ n \in Nat
  BY <1>1 DEF Within, n, SoldStays
<1>4. Given(o, base, n, A, g)
  BY <1>3, FoldGiven
<1> HIDE DEF g
<1>5. E(g)
  <2>1. ASSUME NEW s \in SUBSET (1..n)
        PROVE  (IF s = {} THEN base ELSE o[<<g[s \ {Max(s)}], Max(s)>>]) = (IF s = {} THEN base ELSE Sold(g[s \ {Max(s)}], Under(price), sizes[Max(s)], i))
    BY <1>1, <1>4 DEF Given
  <2>2. [s \in SUBSET (1..n) |-> IF s = {} THEN base ELSE o[<<g[s \ {Max(s)}], Max(s)>>]] =
        [s \in SUBSET (1..n) |-> IF s = {} THEN base ELSE Sold(g[s \ {Max(s)}], Under(price), sizes[Max(s)], i)]
    BY <2>1
  <2> QED
    BY <1>4, <2>2 DEF Given
<1>6. E(h)
  BY <1>5
<1> HIDE DEF h
<1>7. ASSUME NEW s \in SUBSET (1..n) PROVE h[s] = IF s = {} THEN base ELSE Sold(h[s \ {Max(s)}], Under(price), sizes[Max(s)], i)
  BY <1>6
<1>8. ASSUME NEW s \in SUBSET (1..n), s # {}, h[Butlast(s)] \in A PROVE h[s] = o[<<h[Butlast(s)], Max(s)>>]
  BY <1>1, <1>4, <1>7, <1>8 DEF Butlast, Given
<1>9. Runs(o, base, n, A, h[1..n])
  BY <1>3, <1>7, <1>8, FoldRuns
<1>10. PICK v \in [0..n -> A] : v[0] = base /\ v[n] = h[1..n] /\ \A k \in 1..n : v[k] = o[<<v[k - 1], k>>]
  BY <1>9 DEF Runs
<1>11. ASSUME NEW k \in 1..n PROVE v[k] = Sold(v[k - 1], Under(price), sizes[k], i)
  <2>1. k - 1 \in 0..n
    BY <1>3
  <2>2. v[k - 1] \in A /\ v[k] = o[<<v[k - 1], k>>]
    BY <1>10, <2>1
  <2> QED
    BY <1>1, <2>2
<1> QED
  BY <1>2, <1>10, <1>11 DEF n, SoldSteps

\* The fold that books what a bar buys.
BoughtSteps(price, i, sizes, base, A) ==
  \E v \in [0..Len(sizes) -> A] :
    /\ v[0] = base /\ v[Len(sizes)] = BoughtEach(base, price, sizes, i)
    /\ \A k \in 1..Len(sizes) : v[k] = Bought(v[k - 1], Over(price), sizes[k], i)
BoughtStays(price, i, sizes, base, A) ==
  /\ base \in A /\ Len(sizes) \in Nat /\ DOMAIN sizes = 1..Len(sizes)
  /\ \A a \in A, k \in 1..Len(sizes) : Bought(a, Over(price), sizes[k], i) \in A
LEMMA BoughtFold == ASSUME NEW price, NEW i, NEW sizes, NEW base, NEW A, BoughtStays(price, i, sizes, base, A) PROVE BoughtSteps(price, i, sizes, base, A)
<1> USE DEF BoughtStays
<1> DEFINE n == Len(sizes)
           o == [x \in A \X (1..n) |-> Bought(x[1], Over(price), sizes[x[2]], i)]
           g == TheFold(o, base, 1..n)
           E(f) == f = [s \in SUBSET (1..n) |-> IF s = {} THEN base ELSE Bought(f[s \ {Max(s)}], Over(price), sizes[Max(s)], i)]
           h == CHOOSE f : E(f)
<1>1. ASSUME NEW a \in A, NEW k \in 1..n PROVE o[<<a, k>>] = Bought(a, Over(price), sizes[k], i) /\ o[<<a, k>>] \in A
  OBVIOUS
<1>2. BoughtEach(base, price, sizes, i) = h[1..n]
  BY DEF BoughtEach, FoldLeft, MapThenFoldSet
<1> HIDE DEF o, n
<1> HIDE DEF BoughtStays
<1>3. Within(o, base, n, A) /\ n \in Nat
  BY <1>1 DEF Within, n, BoughtStays
<1>4. Given(o, base, n, A, g)
  BY <1>3, FoldGiven
<1> HIDE DEF g
<1>5. E(g)
  <2>1. ASSUME NEW s \in SUBSET (1..n)
        PROVE  (IF s = {} THEN base ELSE o[<<g[s \ {Max(s)}], Max(s)>>]) = (IF s = {} THEN base ELSE Bought(g[s \ {Max(s)}], Over(price), sizes[Max(s)], i))
    BY <1>1, <1>4 DEF Given
  <2>2. [s \in SUBSET (1..n) |-> IF s = {} THEN base ELSE o[<<g[s \ {Max(s)}], Max(s)>>]] =
        [s \in SUBSET (1..n) |-> IF s = {} THEN base ELSE Bought(g[s \ {Max(s)}], Over(price), sizes[Max(s)], i)]
    BY <2>1
  <2> QED
    BY <1>4, <2>2 DEF Given
<1>6. E(h)
  BY <1>5
<1> HIDE DEF h
<1>7. ASSUME NEW s \in SUBSET (1..n) PROVE h[s] = IF s = {} THEN base ELSE Bought(h[s \ {Max(s)}], Over(price), sizes[Max(s)], i)
  BY <1>6
<1>8. ASSUME NEW s \in SUBSET (1..n), s # {}, h[Butlast(s)] \in A PROVE h[s] = o[<<h[Butlast(s)], Max(s)>>]
  BY <1>1, <1>4, <1>7, <1>8 DEF Butlast, Given
<1>9. Runs(o, base, n, A, h[1..n])
  BY <1>3, <1>7, <1>8, FoldRuns
<1>10. PICK v \in [0..n -> A] : v[0] = base /\ v[n] = h[1..n] /\ \A k \in 1..n : v[k] = o[<<v[k - 1], k>>]
  BY <1>9 DEF Runs
<1>11. ASSUME NEW k \in 1..n PROVE v[k] = Bought(v[k - 1], Over(price), sizes[k], i)
  <2>1. k - 1 \in 0..n
    BY <1>3
  <2>2. v[k - 1] \in A /\ v[k] = o[<<v[k - 1], k>>]
    BY <1>10, <2>1
  <2> QED
    BY <1>1, <2>2
<1> QED
  BY <1>2, <1>10, <1>11 DEF n, BoughtSteps

---------------------------------------------------------------------------
(* What is paid for: the trades new take a ledger from one state to the    *)
(* next and stay good all along.                                           *)
Balances == [cash : Int, held : Int, ok : BOOLEAN]
Balance(cash, held) == [cash |-> cash, held |-> held, ok |-> TRUE]
Paid(Credit, c0, h0, t0, cash, held, trades) ==
  \E new \in Seq(Fills) : trades = t0 \o new /\ SettledAll(Credit, Balance(c0, h0), new) = Balance(cash, held)

LEMMA CostIn ==
  ASSUME NEW qty \in Nat, NEW price \in Nat
  PROVE  qty * price * (100 + Commission) \in Nat /\ qty * price * (100 - Commission) \in Int
<1>1. Commission \in Nat
  BY BacktestAssumption
<1> DEFINE p == qty * price
           c == 100 + Commission
           d == 100 - Commission
<1>2. p \in Nat /\ c \in Nat /\ d \in Int
  BY <1>1
<1> HIDE DEF p, c, d
<1>3. p * c \in Nat /\ p * d \in Int
  BY <1>2
<1> QED
  BY <1>3 DEF p, c, d

LEMMA SettledIn ==
  ASSUME NEW Credit \in BOOLEAN, NEW a \in Balances, NEW t \in Fills
  PROVE  Settled(Credit, a, t) \in Balances
<1>1. t.qty \in Nat /\ t.price \in Nat
  BY DEF Fills
<1> DEFINE cost == t.qty * t.price * (100 + Commission)
           gain == t.qty * t.price * (100 - Commission)
<1>2. cost \in Nat /\ gain \in Int
  BY <1>1, CostIn
<1>3. Settled(Credit, a, t) =
        IF t.side = "buy"
        THEN [a EXCEPT !.cash = @ - cost, !.held = @ + t.qty, !.ok = @ /\ (Credit \/ cost <= a.cash)]
        ELSE [a EXCEPT !.cash = @ + gain, !.held = @ - t.qty, !.ok = @ /\ t.qty <= a.held]
  BY DEF Settled
<1> HIDE DEF cost, gain
<1>4. a.cash - cost \in Int /\ a.held + t.qty \in Int /\ a.cash + gain \in Int /\ a.held - t.qty \in Int
  BY <1>1, <1>2 DEF Balances
<1>5. (a.ok /\ (Credit \/ cost <= a.cash)) \in BOOLEAN /\ (a.ok /\ t.qty <= a.held) \in BOOLEAN
  OBVIOUS
<1> QED
  BY <1>3, <1>4, <1>5 DEF Balances

LEMMA SettleRuns ==
  ASSUME NEW Credit \in BOOLEAN, NEW trades \in Seq(Fills), NEW base \in Balances
  PROVE  SettleSteps(Credit, trades, base, Balances)
<1>1. Len(trades) \in Nat /\ DOMAIN trades = 1..Len(trades) /\ \A k \in 1..Len(trades) : trades[k] \in Fills
  BY SeqIs
<1>2. \A a \in Balances, k \in 1..Len(trades) : Settled(Credit, a, trades[k]) \in Balances
  BY <1>1, SettledIn
<1> QED
  BY <1>1, <1>2, SettleFold DEF SettleStays

LEMMA SettleNone ==
  ASSUME NEW Credit \in BOOLEAN, NEW base \in Balances
  PROVE  SettledAll(Credit, base, <<>>) = base
<1> DEFINE none == <<>>
<1>1. none \in Seq(Fills) /\ Len(none) = 0
  OBVIOUS
<1> HIDE DEF none
<1>2. PICK v \in [0..Len(none) -> Balances] : v[0] = base /\ v[Len(none)] = SettledAll(Credit, base, none)
  <2>1. SettleSteps(Credit, none, base, Balances)
    BY <1>1, SettleRuns
  <2> QED
    BY <2>1 DEF SettleSteps
<1>3. SettledAll(Credit, base, none) = base
  BY <1>1, <1>2
<1> QED
  BY <1>3 DEF none

LEMMA SettleMore ==
  ASSUME NEW Credit \in BOOLEAN, NEW trades \in Seq(Fills), NEW base \in Balances, NEW t \in Fills
  PROVE  SettledAll(Credit, base, Append(trades, t)) = Settled(Credit, SettledAll(Credit, base, trades), t)
<1> DEFINE more == Append(trades, t)
           n == Len(trades)
<1>1. more \in Seq(Fills) /\ Len(more) = n + 1 /\ n \in Nat /\ more[n + 1] = t /\ \A k \in 1..n : more[k] = trades[k]
  OBVIOUS
<1> HIDE DEF more
<1>5. PICK v \in [0..Len(trades) -> Balances] :
        /\ v[0] = base /\ v[Len(trades)] = SettledAll(Credit, base, trades)
        /\ \A k \in 1..Len(trades) : v[k] = Settled(Credit, v[k - 1], trades[k])
  BY SettleRuns DEF SettleSteps
<1>6. PICK w \in [0..Len(more) -> Balances] :
        /\ w[0] = base /\ w[Len(more)] = SettledAll(Credit, base, more)
        /\ \A k \in 1..Len(more) : w[k] = Settled(Credit, w[k - 1], more[k])
  BY ZenonT(40), <1>1, SettleRuns DEF SettleSteps
<1> DEFINE G == {k \in 0..n : v[k] = w[k]}
<1>7. 0 \in G
  BY <1>1, <1>5, <1>6
<1>8. ASSUME NEW k \in 1..n, k - 1 \in G PROVE k \in G
  <2>1. v[k] = Settled(Credit, v[k - 1], trades[k])
    BY <1>5
  <2>2. k \in 1..Len(more)
    BY <1>1
  <2>3. w[k] = Settled(Credit, w[k - 1], more[k])
    BY <1>6, <2>2
  <2>4. k \in 0..n /\ v[k - 1] = w[k - 1] /\ more[k] = trades[k]
    BY <1>1, <1>8
  <2> QED
    BY <2>1, <2>3, <2>4
<1> HIDE DEF G
<1>9. \A k \in 0..n : k \in G
  BY <1>1, <1>7, <1>8, UpInduct
<1>10. n \in 0..n /\ n + 1 \in 1..Len(more) /\ (n + 1) - 1 = n
  BY <1>1
<1>11. v[n] = w[n]
  BY <1>9, <1>10 DEF G
<1>12. w[n + 1] = Settled(Credit, w[n], more[n + 1])
  BY <1>6, <1>10
<1> QED
  BY <1>1, <1>5, <1>6, <1>11, <1>12 DEF more

Appends(S, s, t, e) == Append(t, e) \in Seq(S) /\ Append(s \o t, e) = s \o Append(t, e)
LEMMA AppendConcat ==
  ASSUME NEW S, NEW s \in Seq(S), NEW t \in Seq(S), NEW e \in S
  PROVE  Appends(S, s, t, e)
<1>1. <<e>> \in Seq(S) /\ Append(t, e) = t \o <<e>> /\ Append(s \o t, e) = (s \o t) \o <<e>>
  OBVIOUS
<1>2. (s \o t) \o <<e>> = s \o (t \o <<e>>)
  BY <1>1
<1>3. Append(t, e) \in Seq(S)
  OBVIOUS
<1> QED
  BY <1>1, <1>2, <1>3 DEF Appends

LEMMA PaidNone ==
  ASSUME NEW Credit \in BOOLEAN, NEW cash \in Int, NEW held \in Int, NEW trades \in Seq(Fills)
  PROVE  Paid(Credit, cash, held, trades, cash, held, trades)
<1>1. Balance(cash, held) \in Balances
  BY DEF Balance, Balances
<1>2. SettledAll(Credit, Balance(cash, held), <<>>) = Balance(cash, held)
  BY <1>1, SettleNone
<1>3. trades = trades \o <<>> /\ <<>> \in Seq(Fills)
  OBVIOUS
<1> QED
  BY <1>2, <1>3 DEF Paid

LEMMA PaidMore ==
  ASSUME NEW Credit \in BOOLEAN, NEW c0 \in Int, NEW h0 \in Int, NEW t0 \in Seq(Fills),
         NEW cash \in Int, NEW held \in Int, NEW trades, Paid(Credit, c0, h0, t0, cash, held, trades), NEW t \in Fills,
         NEW more, NEW left, Settled(Credit, Balance(cash, held), t) = Balance(more, left)
  PROVE  Paid(Credit, c0, h0, t0, more, left, Append(trades, t))
<1>1. PICK new \in Seq(Fills) : trades = t0 \o new /\ SettledAll(Credit, Balance(c0, h0), new) = Balance(cash, held)
  BY DEF Paid
<1>2. Balance(c0, h0) \in Balances
  BY DEF Balance, Balances
<1>3. SettledAll(Credit, Balance(c0, h0), Append(new, t)) = Balance(more, left)
  BY <1>1, <1>2, SettleMore
<1>4. Append(new, t) \in Seq(Fills) /\ Append(t0 \o new, t) = t0 \o Append(new, t)
  <2>1. Appends(Fills, t0, new, t)
    BY AppendConcat
  <2> QED
    BY <2>1 DEF Appends
<1> QED
  BY <1>1, <1>3, <1>4 DEF Paid

LEMMA PaidBuy ==
  ASSUME NEW Credit \in BOOLEAN, NEW c0 \in Int, NEW h0 \in Int, NEW t0 \in Seq(Fills),
         NEW cash \in Int, NEW held \in Int, NEW trades, Paid(Credit, c0, h0, t0, cash, held, trades),
         NEW price \in Sizes, NEW qty \in Sizes, NEW i \in Nat,
         Credit \/ qty * price * (100 + Commission) <= cash
  PROVE  Paid(Credit, c0, h0, t0, cash - qty * price * (100 + Commission), held + qty, Append(trades, Trade("buy", price, qty, i)))
<1> DEFINE t == Trade("buy", price, qty, i)
           cost == qty * price * (100 + Commission)
<1>1. t \in Fills
  BY TradeIn
<1>2. Settled(Credit, Balance(cash, held), t) = Balance(cash - cost, held + qty)
  <2>1. t.side = "buy" /\ t.qty = qty /\ t.price = price
    BY DEF Trade
  <2>2. (TRUE /\ (Credit \/ cost <= cash)) = TRUE
    OBVIOUS
  <2>3. Settled(Credit, Balance(cash, held), t) =
          [Balance(cash, held) EXCEPT !.cash = @ - cost, !.held = @ + qty, !.ok = @ /\ (Credit \/ cost <= Balance(cash, held).cash)]
    BY <2>1 DEF Settled
  <2> HIDE DEF t, cost
  <2> QED
    BY <2>2, <2>3 DEF Balance
<1> QED
  BY <1>1, <1>2, PaidMore

LEMMA PaidSell ==
  ASSUME NEW Credit \in BOOLEAN, NEW c0 \in Int, NEW h0 \in Int, NEW t0 \in Seq(Fills),
         NEW cash \in Int, NEW held \in Int, NEW trades, Paid(Credit, c0, h0, t0, cash, held, trades),
         NEW price \in Sizes, NEW qty \in Sizes, NEW i \in Nat, qty <= held
  PROVE  Paid(Credit, c0, h0, t0, cash + qty * price * (100 - Commission), held - qty, Append(trades, Trade("sell", price, qty, i)))
<1> DEFINE t == Trade("sell", price, qty, i)
           gain == qty * price * (100 - Commission)
<1>1. t \in Fills
  BY TradeIn
<1>2. Settled(Credit, Balance(cash, held), t) = Balance(cash + gain, held - qty)
  <2>1. t.side = "sell" /\ t.qty = qty /\ t.price = price
    BY DEF Trade
  <2>2. (TRUE /\ qty <= held) = TRUE
    OBVIOUS
  <2>3. Settled(Credit, Balance(cash, held), t) =
          [Balance(cash, held) EXCEPT !.cash = @ + gain, !.held = @ - qty, !.ok = @ /\ qty <= Balance(cash, held).held]
    BY <2>1 DEF Settled
  <2> HIDE DEF t, gain
  <2> QED
    BY <2>2, <2>3 DEF Balance
<1> QED
  BY <1>1, <1>2, PaidMore

---------------------------------------------------------------------------
(* What the book of an account that buys holds, and that its trades are    *)
(* paid for since it was b0.                                               *)
Booked == {t \in Fills : t.bar \in 1..Length}
Shorts == [avg : Fractions, qty : Nat, sl : Nat, tp : Nat, trail : Nat, trough : Int, lev : Nat \ {0}, funding : Int]
Pendings == [bar : 0..Length, price : Nat, qty : Nat, sl : Int]
BookSet == [cash : Int, held : Int, avg : Fractions, pos : Positions, short : Shorts, pending : Pendings, trades : Seq(Booked)]

AccountOK(a) ==
  /\ a.engine \in {"trees", "plain", "short"} /\ (a.engine = "plain" => a.tree.type = "leaf")
  /\ TreeOK(a.tree)
  /\ a.capital \in Nat /\ a.funding \in Int /\ a.leverage \in Nat \ {0} /\ a.gap \in {"close", "worst"}
  /\ TypedRisk(a.risk) /\ LaddersOK(a.risk.L) /\ TypedSizing(a.sizing) /\ Executing(a.exec)
  /\ a.seed.qty \in Nat /\ a.seed.price \in Nat /\ (a.seed.qty > 0 => ~Laddered(a.risk))
Seed(a) == [qty |-> a.seed.qty, avg |-> Price(a.seed.price)]
Credit(a) == a.seed.qty > 0 \/ Laddered(a.risk)

Cost(qty, price) == qty * price * (100 + Commission)
Fits(d, held, avg) == d.qty = held /\ (held > 0 => d.avg = avg)
Waiting(b) ==
  b.pending # NoPending =>
    /\ b.held = 0 /\ b.pending.bar \in 1..Length /\ b.pending.price \in Sizes /\ b.pending.qty \in Sizes
    /\ Cost(b.pending.qty, b.pending.price) <= b.cash
Positioned(b, a) ==
  /\ b.pos # NoPosition => b.pos.left = b.held /\ b.pos.avg = b.avg
  /\ b.held = 0 => b.pos = NoPosition
  /\ b.held > 0 /\ OnLadders(a) => b.pos # NoPosition
  /\ ~OnLadders(a) => b.pos = NoPosition
LongBook(b, a) ==
  /\ b \in BookSet /\ b.held \in Nat /\ b.short = NoShort
  /\ Fits(DerivePosition(b.trades, Seed(a)), b.held, b.avg)
  /\ Positioned(b, a) /\ Waiting(b)
PaidSince(b0, a, cash, held, trades) == Paid(Credit(a), b0.cash, b0.held, b0.trades, cash, held, trades)
Kept(b0, a) == {b \in BookSet : LongBook(b, a) /\ PaidSince(b0, a, b.cash, b.held, b.trades)}

LEMMA BookIs ==
  ASSUME NEW b \in BookSet
  PROVE  /\ b = [cash |-> b.cash, held |-> b.held, avg |-> b.avg, pos |-> b.pos, short |-> b.short, pending |-> b.pending, trades |-> b.trades]
         /\ b.cash \in Int /\ b.held \in Int /\ b.avg \in Fractions /\ b.pos \in Positions /\ b.short \in Shorts /\ b.pending \in Pendings
         /\ b.trades \in Seq(Booked) /\ b.trades \in Seq(Fills)
<1>1. Booked \subseteq Fills
  BY DEF Booked
<1>2. b.trades \in Seq(Booked)
  BY DEF BookSet
<1>3. Seq(Booked) \subseteq Seq(Fills)
  BY <1>1
<1> QED
  BY <1>2, <1>3 DEF BookSet

LEMMA SeedIn == ASSUME NEW a, AccountOK(a) PROVE Seed(a) \in Holdings /\ Credit(a) \in BOOLEAN
<1>1. Price(a.seed.price) \in Fractions /\ Price(a.seed.price)[2] = 1
  BY DEF Price, Fractions, AccountOK
<1> QED
  BY <1>1 DEF Seed, Holdings, Credit, AccountOK

LEMMA KeptIs ==
  ASSUME NEW b0, NEW a, NEW b \in Kept(b0, a)
  PROVE  b \in BookSet /\ LongBook(b, a) /\ PaidSince(b0, a, b.cash, b.held, b.trades)
BY DEF Kept

LEMMA KeptSelf == ASSUME NEW a, AccountOK(a), NEW b, LongBook(b, a) PROVE b \in Kept(b, a)
<1>1. b \in BookSet /\ Credit(a) \in BOOLEAN
  BY SeedIn DEF LongBook
<1>2. PaidSince(b, a, b.cash, b.held, b.trades)
  BY <1>1, BookIs, PaidNone DEF PaidSince
<1> QED
  BY <1>1, <1>2 DEF Kept

LEMMA SetPctIn == SetPct(0) = 0 /\ \A pct \in Int : SetPct(pct) \in Nat
BY DEF SetPct

LEMMA NothingIn ==
  /\ NoPosition \in Positions /\ NoPosition.left = 0 /\ NoShort \in Shorts /\ NoShort.qty = 0
  /\ NoPending \in Pendings /\ NoPending.bar = 0 /\ NoPending.qty = 0 /\ Price(0) \in Fractions
<1>1. Price(0) \in Fractions
  BY DEF Price, Fractions
<1>2. Length \in Nat
  BY BacktestAssumption
<1> HIDE DEF Fractions
<1>3. NoPosition \in Positions /\ NoPosition.left = 0
  BY <1>1, SetPctIn DEF NoPosition, OpenPosition, Positions
<1>4. NoShort \in Shorts /\ NoShort.qty = 0
  BY <1>1, SetPctIn DEF NoShort, OpenShort, Shorts
<1>5. NoPending \in Pendings /\ NoPending.bar = 0 /\ NoPending.qty = 0
  BY <1>2 DEF NoPending, Pendings
<1> QED
  BY <1>1, <1>3, <1>4, <1>5

LEMMA CashIn == ASSUME NEW cash \in Int, NEW qty \in Nat, NEW price \in Nat
  PROVE  /\ cash - qty * price * (100 + Commission) \in Int /\ cash + qty * price * (100 - Commission) \in Int
         /\ Cost(qty, price) \in Nat
<1> DEFINE c == qty * price * (100 + Commission)
           g == qty * price * (100 - Commission)
<1>1. c \in Nat /\ g \in Int
  BY CostIn
<1>2. Cost(qty, price) = c
  BY DEF Cost
<1> HIDE DEF c, g
<1>3. cash - c \in Int /\ cash + g \in Int
  BY <1>1
<1> QED
  BY <1>1, <1>2, <1>3 DEF c, g

LEMMA TradedIn ==
  ASSUME NEW side \in {"buy", "sell"}, NEW price \in Sizes, NEW qty \in Sizes, NEW i \in 1..Length
  PROVE  Trade(side, price, qty, i) \in Booked /\ Trade(side, price, qty, i) \in Fills
<1>1. i \in Nat
  BY BacktestAssumption
<1>2. Trade(side, price, qty, i) \in Fills
  BY <1>1, TradeIn
<1>3. Trade(side, price, qty, i).bar = i
  BY DEF Trade
<1> QED
  BY <1>2, <1>3 DEF Booked

\* What buying and selling make of a book.
LEMMA BoughtIs ==
  ASSUME NEW b \in BookSet, NEW price \in Sizes, NEW qty \in Sizes, NEW i \in 1..Length
  PROVE  /\ Bought(b, price, qty, i) =
              [cash |-> b.cash - qty * price * (100 + Commission), held |-> b.held, avg |-> b.avg, pos |-> b.pos, short |-> b.short,
               pending |-> b.pending, trades |-> Append(b.trades, Trade("buy", price, qty, i))]
         /\ Bought(b, price, qty, i) \in BookSet
<1> DEFINE cash == b.cash - qty * price * (100 + Commission)
           trades == Append(b.trades, Trade("buy", price, qty, i))
<1>1. Bought(b, price, qty, i) = [b EXCEPT !.cash = cash, !.trades = trades]
  BY BookIs DEF Bought
<1>2. cash \in Int
  BY BookIs, CashIn DEF Sizes
<1>3. trades \in Seq(Booked)
  BY BookIs, TradedIn
<1> HIDE DEF cash, trades
<1>4. Bought(b, price, qty, i) = [cash |-> cash, held |-> b.held, avg |-> b.avg, pos |-> b.pos, short |-> b.short, pending |-> b.pending, trades |-> trades]
  BY <1>1 DEF BookSet
<1>5. Bought(b, price, qty, i) \in BookSet
  BY <1>2, <1>3, <1>4, BookIs DEF BookSet
<1> QED
  BY <1>4, <1>5 DEF cash, trades

LEMMA SoldIs ==
  ASSUME NEW b \in BookSet, NEW price \in Sizes, NEW qty \in Sizes, NEW i \in 1..Length
  PROVE  /\ Sold(b, price, qty, i) =
              [cash |-> b.cash + qty * price * (100 - Commission), held |-> b.held, avg |-> b.avg, pos |-> b.pos, short |-> b.short,
               pending |-> b.pending, trades |-> Append(b.trades, Trade("sell", price, qty, i))]
         /\ Sold(b, price, qty, i) \in BookSet
<1> DEFINE cash == b.cash + qty * price * (100 - Commission)
           trades == Append(b.trades, Trade("sell", price, qty, i))
<1>1. Sold(b, price, qty, i) = [b EXCEPT !.cash = cash, !.trades = trades]
  BY BookIs DEF Sold
<1>2. cash \in Int
  BY BookIs, CashIn DEF Sizes
<1>3. trades \in Seq(Booked)
  BY BookIs, TradedIn
<1> HIDE DEF cash, trades
<1>4. Sold(b, price, qty, i) = [cash |-> cash, held |-> b.held, avg |-> b.avg, pos |-> b.pos, short |-> b.short, pending |-> b.pending, trades |-> trades]
  BY <1>1 DEF BookSet
<1>5. Sold(b, price, qty, i) \in BookSet
  BY <1>2, <1>3, <1>4, BookIs DEF BookSet
<1> QED
  BY <1>4, <1>5 DEF cash, trades

---------------------------------------------------------------------------
(* What an entry and an exit make of a book that is good.                  *)

LEMMA NatBar == ASSUME NEW i \in 1..Length PROVE i \in Nat
BY BacktestAssumption

\* What derivePosition makes of one trade more.
LEMMA DerivedMore ==
  ASSUME NEW a, AccountOK(a), NEW trades \in Seq(Fills), NEW t \in Fills
  PROVE  /\ DerivePosition(trades, Seed(a)) \in Holdings
         /\ DerivePosition(Append(trades, t), Seed(a)) = DeriveTrade(DerivePosition(trades, Seed(a)), t)
BY SeedIn, DeriveIn, DeriveMore

BookOf(cash, held, avg, pos, short, pending, trades) ==
  [cash |-> cash, held |-> held, avg |-> avg, pos |-> pos, short |-> short, pending |-> pending, trades |-> trades]

LEMMA SinceBuy ==
  ASSUME NEW a, AccountOK(a), NEW b0 \in BookSet, NEW cash \in Int, NEW held \in Int, NEW trades,
         PaidSince(b0, a, cash, held, trades), NEW price \in Sizes, NEW qty \in Sizes, NEW i \in Nat,
         Credit(a) \/ Cost(qty, price) <= cash
  PROVE  PaidSince(b0, a, cash - qty * price * (100 + Commission), held + qty, Append(trades, Trade("buy", price, qty, i)))
<1>1. Credit(a) \in BOOLEAN /\ b0.cash \in Int /\ b0.held \in Int /\ b0.trades \in Seq(Fills)
  BY SeedIn, BookIs
<1>2. Paid(Credit(a), b0.cash, b0.held, b0.trades, cash, held, trades)
  BY DEF PaidSince
<1>3. Credit(a) \/ qty * price * (100 + Commission) <= cash
  BY DEF Cost
<1> QED
  BY <1>1, <1>2, <1>3, PaidBuy DEF PaidSince

LEMMA SinceSell ==
  ASSUME NEW a, AccountOK(a), NEW b0 \in BookSet, NEW cash \in Int, NEW held \in Int, NEW trades,
         PaidSince(b0, a, cash, held, trades), NEW price \in Sizes, NEW qty \in Sizes, NEW i \in Nat, qty <= held
  PROVE  PaidSince(b0, a, cash + qty * price * (100 - Commission), held - qty, Append(trades, Trade("sell", price, qty, i)))
<1>1. Credit(a) \in BOOLEAN /\ b0.cash \in Int /\ b0.held \in Int /\ b0.trades \in Seq(Fills)
  BY SeedIn, BookIs
<1>2. Paid(Credit(a), b0.cash, b0.held, b0.trades, cash, held, trades)
  BY DEF PaidSince
<1> QED
  BY <1>1, <1>2, PaidSell DEF PaidSince

LEMMA SoldOutIn ==
  ASSUME NEW a, AccountOK(a), NEW b0 \in BookSet, NEW b \in Kept(b0, a), b.held > 0, NEW price \in Sizes, NEW i \in 1..Length
  PROVE  SoldOut(b, price, i) \in Kept(b0, a)
<1> DEFINE t == Trade("sell", price, b.held, i)
           cash == b.cash + b.held * price * (100 - Commission)
           trades == Append(b.trades, t)
           c == SoldOut(b, price, i)
<1>1. b \in BookSet /\ LongBook(b, a) /\ PaidSince(b0, a, b.cash, b.held, b.trades)
  BY KeptIs
<1>2. b.held \in Nat /\ b.held \in Sizes /\ b.short = NoShort /\ b.pending = NoPending
  BY <1>1 DEF LongBook, Sizes, Waiting
<1>3. Sold(b, price, b.held, i) =
        [cash |-> cash, held |-> b.held, avg |-> b.avg, pos |-> b.pos, short |-> b.short, pending |-> b.pending, trades |-> trades]
      /\ Sold(b, price, b.held, i) \in BookSet
  BY <1>1, <1>2, SoldIs
<1>4. cash \in Int /\ trades \in Seq(Booked) /\ trades \in Seq(Fills) /\ t \in Fills
  <2>1. Sold(b, price, b.held, i).cash = cash /\ Sold(b, price, b.held, i).trades = trades
    BY <1>3
  <2>2. cash \in Int /\ trades \in Seq(Booked) /\ trades \in Seq(Fills)
    BY <1>3, <2>1, BookIs
  <2> QED
    BY <1>2, <2>2, TradedIn
<1>5. PaidSince(b0, a, cash, 0, trades)
  <2>1. b.cash \in Int /\ b.held \in Int /\ i \in Nat /\ b.held <= b.held
    BY <1>1, BookIs, NatBar
  <2>2. PaidSince(b0, a, cash, b.held - b.held, trades)
    BY <1>1, <1>2, <2>1, SinceSell
  <2>3. b.held - b.held = 0
    BY <1>2
  <2> QED
    BY <2>2, <2>3
<1>6. Fits(DerivePosition(trades, Seed(a)), 0, Price(0))
  <2> DEFINE d == DerivePosition(b.trades, Seed(a))
  <2>1. d \in Holdings /\ DerivePosition(trades, Seed(a)) = DeriveTrade(d, t)
    BY <1>1, <1>4, BookIs, DerivedMore
  <2>2. d.qty = b.held
    BY <1>1 DEF LongBook, Fits
  <2> HIDE DEF d
  <2>3. DeriveTrade(d, t).qty = 0
    BY <1>2, <2>2 DEF DeriveTrade, Trade
  <2> QED
    BY <2>1, <2>3 DEF Fits
<1> HIDE DEF cash, trades, t
<1>7. c = [cash |-> cash, held |-> 0, avg |-> Price(0), pos |-> NoPosition, short |-> NoShort, pending |-> NoPending, trades |-> trades]
  <2>1. Sold(b, price, b.held, i) = BookOf(cash, b.held, b.avg, b.pos, NoShort, NoPending, trades)
    BY <1>2, <1>3 DEF BookOf
  <2>2. c = [BookOf(cash, b.held, b.avg, b.pos, NoShort, NoPending, trades) EXCEPT !.held = 0, !.avg = Price(0), !.pos = NoPosition]
    BY <2>1 DEF SoldOut, Flat
  <2> HIDE DEF c
  <2> QED
    BY <2>2 DEF BookOf
<1>8. c \in BookSet
  BY <1>4, <1>7, NothingIn DEF BookSet
<1>9. c.cash = cash /\ c.held = 0 /\ c.avg = Price(0) /\ c.pos = NoPosition /\ c.short = NoShort /\ c.pending = NoPending /\ c.trades = trades
  BY <1>7
<1> HIDE DEF c
<1>10. Positioned(c, a) /\ Waiting(c)
  BY <1>9 DEF Positioned, Waiting
<1>11. LongBook(c, a)
  BY <1>6, <1>8, <1>9, <1>10 DEF LongBook
<1>12. c \in Kept(b0, a)
  BY <1>5, <1>8, <1>9, <1>11 DEF Kept
<1> QED
  BY <1>12 DEF c

LEMMA OpenPositionIn ==
  ASSUME NEW price \in Nat, NEW qty \in Sizes, NEW sl \in Int, NEW trail \in Int
  PROVE  /\ OpenPosition(price, qty, sl, trail) \in Positions /\ OpenPosition(price, qty, sl, trail) # NoPosition
         /\ OpenPosition(price, qty, sl, trail).left = qty /\ OpenPosition(price, qty, sl, trail).avg = Price(price)
<1>1. Price(price) \in Fractions
  BY DEF Price, Fractions
<1> HIDE DEF Fractions
<1>2. OpenPosition(price, qty, sl, trail).left = qty /\ OpenPosition(price, qty, sl, trail).avg = Price(price)
  BY DEF OpenPosition
<1>3. OpenPosition(price, qty, sl, trail) # NoPosition
  BY <1>2, NothingIn DEF Sizes
<1>4. OpenPosition(price, qty, sl, trail) \in Positions
  BY <1>1, SetPctIn DEF OpenPosition, Positions, Sizes
<1> QED
  BY <1>2, <1>3, <1>4

LEMMA OpenedIn ==
  ASSUME NEW a, AccountOK(a), NEW b0 \in BookSet, NEW b \in Kept(b0, a), b.held = 0, NEW price \in Sizes, NEW qty \in Sizes,
         NEW sl \in Int, NEW i \in 1..Length, Cost(qty, price) <= b.cash
  PROVE  Opened(b, a, price, qty, sl, i) \in Kept(b0, a)
<1> DEFINE t == Trade("buy", price, qty, i)
           cash == b.cash - qty * price * (100 + Commission)
           trades == Append(b.trades, t)
           pos == IF OnLadders(a) THEN OpenPosition(price, qty, sl, a.risk.trail) ELSE NoPosition
           c == Opened(b, a, price, qty, sl, i)
<1>1. b \in BookSet /\ LongBook(b, a) /\ PaidSince(b0, a, b.cash, b.held, b.trades)
  BY KeptIs
<1>2. b.short = NoShort
  BY <1>1 DEF LongBook
<1>3. Bought(b, price, qty, i) =
        [cash |-> cash, held |-> b.held, avg |-> b.avg, pos |-> b.pos, short |-> b.short, pending |-> b.pending, trades |-> trades]
      /\ Bought(b, price, qty, i) \in BookSet
  BY <1>1, BoughtIs
<1>4. cash \in Int /\ trades \in Seq(Booked) /\ trades \in Seq(Fills) /\ t \in Fills
  <2>1. Bought(b, price, qty, i).cash = cash /\ Bought(b, price, qty, i).trades = trades
    BY <1>3
  <2>2. cash \in Int /\ trades \in Seq(Booked) /\ trades \in Seq(Fills)
    BY ZenonT(40), <1>3, <2>1, BookIs
  <2> QED
    BY <2>2, TradedIn
<1>5. PaidSince(b0, a, cash, qty, trades)
  <2>1. b.cash \in Int /\ b.held \in Int /\ i \in Nat
    BY <1>1, BookIs, NatBar
  <2>2. PaidSince(b0, a, cash, b.held + qty, trades)
    BY <1>1, <2>1, SinceBuy
  <2>3. b.held + qty = qty
    BY DEF Sizes
  <2> QED
    BY <2>2, <2>3
<1>6. Fits(DerivePosition(trades, Seed(a)), qty, Price(price))
  <2> DEFINE d == DerivePosition(b.trades, Seed(a))
  <2>1. d \in Holdings /\ DerivePosition(trades, Seed(a)) = DeriveTrade(d, t)
    BY <1>1, <1>4, BookIs, DerivedMore
  <2>2. d.qty = 0
    BY <1>1 DEF LongBook, Fits
  <2> HIDE DEF d
  <2>3. d.avg \in Fractions /\ d.avg[2] = 1
    BY <2>1, <2>2 DEF Holdings
  <2>4. Averaged(d.avg, 0, price, qty) = Price(price)
    BY <2>3, AveragedFirst DEF Sizes
  <2>5. DeriveTrade(d, t) = [qty |-> 0 + qty, avg |-> Price(price)]
    BY <2>2, <2>4 DEF DeriveTrade, Trade
  <2> QED
    BY <2>1, <2>5 DEF Fits, Sizes
<1>7. /\ pos \in Positions
      /\ pos # NoPosition => pos.left = qty /\ pos.avg = Price(price)
      /\ OnLadders(a) => pos # NoPosition
      /\ ~OnLadders(a) => pos = NoPosition
  <2>1. a.risk.trail \in Int
    BY DEF AccountOK, TypedRisk
  <2>2. price \in Nat
    BY DEF Sizes
  <2> QED
    BY ZenonT(40), <2>1, <2>2, OpenPositionIn, NothingIn
<1> HIDE DEF cash, trades, t, pos
<1>8. c = [cash |-> cash, held |-> qty, avg |-> Price(price), pos |-> pos, short |-> NoShort, pending |-> NoPending, trades |-> trades]
  <2>1. Bought(b, price, qty, i) = BookOf(cash, b.held, b.avg, b.pos, NoShort, b.pending, trades)
    BY <1>2, <1>3 DEF BookOf
  <2>2. c = [BookOf(cash, b.held, b.avg, b.pos, NoShort, b.pending, trades) EXCEPT
                !.held = qty, !.avg = Price(price), !.pending = NoPending, !.pos = pos]
    BY <2>1 DEF Opened, pos
  <2> HIDE DEF c
  <2> QED
    BY <2>2 DEF BookOf
<1>9. c \in BookSet /\ qty \in Nat /\ qty # 0
  <2>1. Price(price) \in Fractions
    BY DEF Price, Fractions, Sizes
  <2>2. qty \in Int /\ qty \in Nat /\ qty # 0
    BY DEF Sizes
  <2> QED
    BY <1>4, <1>7, <1>8, <2>1, <2>2, NothingIn DEF BookSet
<1>10. c.cash = cash /\ c.held = qty /\ c.avg = Price(price) /\ c.pos = pos /\ c.short = NoShort /\ c.pending = NoPending /\ c.trades = trades
  BY <1>8
<1> HIDE DEF c
<1>11. Positioned(c, a) /\ Waiting(c)
  BY <1>7, <1>9, <1>10 DEF Positioned, Waiting
<1>12. LongBook(c, a)
  BY <1>6, <1>9, <1>10, <1>11 DEF LongBook
<1>13. c \in Kept(b0, a)
  BY <1>5, <1>9, <1>10, <1>12 DEF Kept
<1> QED
  BY <1>13 DEF c

\* An entry that fills later is paid for by the cash there is until it does.
LEMMA EnteredIn ==
  ASSUME NEW a, AccountOK(a), NEW b0 \in BookSet, NEW b \in Kept(b0, a), b.held = 0, NEW i \in 1..Length,
         NEW fill, fill.price \in Sizes, fill.bar \in i..Length, NEW sl \in Int,
         NEW qty \in Nat, qty > 0 => Cost(qty, fill.price) <= b.cash
  PROVE  Entered(b, a, fill, qty, sl, i) \in Kept(b0, a)
<1>1. CASE qty = 0
  BY <1>1 DEF Entered
<1>2. CASE qty # 0 /\ fill.bar = i
  <2>1. qty \in Sizes /\ Cost(qty, fill.price) <= b.cash
    BY <1>2 DEF Sizes
  <2>2. Opened(b, a, fill.price, qty, sl, i) \in Kept(b0, a)
    BY <2>1, OpenedIn
  <2> QED
    BY <1>2, <2>2 DEF Entered
<1>3. CASE qty # 0 /\ fill.bar # i
  <2> DEFINE p == [bar |-> fill.bar, price |-> fill.price, qty |-> qty, sl |-> sl]
             c == [b EXCEPT !.pending = p]
  <2>1. b \in BookSet /\ LongBook(b, a) /\ PaidSince(b0, a, b.cash, b.held, b.trades)
    BY KeptIs
  <2>2. qty \in Sizes /\ Cost(qty, fill.price) <= b.cash
    BY <1>3 DEF Sizes
  <2>3. fill.bar \in 1..Length /\ fill.bar \in 0..Length
    BY NatBar, BacktestAssumption
  <2>4. p \in Pendings /\ p.bar = fill.bar /\ p.price = fill.price /\ p.qty = qty
    BY <2>3 DEF Pendings, Sizes
  <2> HIDE DEF p
  <2>5. c \in BookSet /\ c.cash = b.cash /\ c.held = b.held /\ c.avg = b.avg /\ c.pos = b.pos /\ c.short = b.short /\ c.pending = p /\ c.trades = b.trades
    BY <2>1, <2>4 DEF BookSet
  <2>6. Entered(b, a, fill, qty, sl, i) = c
    BY <1>3 DEF Entered, p
  <2> HIDE DEF c
  <2>7. Waiting(c)
    BY <2>2, <2>3, <2>4, <2>5 DEF Waiting
  <2>8. Positioned(c, a)
    BY <2>1, <2>5 DEF LongBook, Positioned
  <2>9. LongBook(c, a)
    BY <2>1, <2>5, <2>7, <2>8 DEF LongBook
  <2>10. c \in Kept(b0, a)
    BY <2>1, <2>5, <2>9 DEF Kept
  <2> QED
    BY <2>6, <2>10
<1> QED
  BY <1>1, <1>2, <1>3

---------------------------------------------------------------------------
(* What the ladder makes of it.                                            *)

---------------------------------------------------------------------------
(* What a bar of the path of ladders books.  While it does, only the cash  *)
(* and the trades move: d is what derivePosition makes of them.            *)
Booking(b0, a, b, d) ==
  /\ b \in BookSet /\ b.short = NoShort /\ b.pending = NoPending /\ d \in Holdings
  /\ DerivePosition(b.trades, Seed(a)) = d
  /\ PaidSince(b0, a, b.cash, d.qty, b.trades)

LEMMA BookingSold ==
  ASSUME NEW a, AccountOK(a), NEW b0 \in BookSet, NEW b, NEW d, Booking(b0, a, b, d),
         NEW price \in Sizes, NEW q \in Sizes, NEW i \in 1..Length, q <= d.qty
  PROVE  Booking(b0, a, Sold(b, price, q, i), DeriveTrade(d, Trade("sell", price, q, i)))
<1> DEFINE c == Sold(b, price, q, i)
           t == Trade("sell", price, q, i)
           e == DeriveTrade(d, t)
<1>1. b \in BookSet /\ b.short = NoShort /\ b.pending = NoPending /\ d \in Holdings /\ d.qty \in Nat
  BY DEF Booking, Holdings
<1>2. /\ c \in BookSet /\ c.short = b.short /\ c.pending = b.pending
      /\ c.cash = b.cash + q * price * (100 - Commission) /\ c.trades = Append(b.trades, t)
  <2>1. /\ c = [cash |-> b.cash + q * price * (100 - Commission), held |-> b.held, avg |-> b.avg, pos |-> b.pos, short |-> b.short,
               pending |-> b.pending, trades |-> Append(b.trades, t)]
        /\ c \in BookSet
    BY <1>1, SoldIs
  <2> HIDE DEF c, t
  <2> QED
    BY <2>1
<1>3. t \in Fills /\ e \in Holdings
  BY <1>1, TradedIn, DeriveTradeIn
<1>4. DerivePosition(c.trades, Seed(a)) = e
  BY <1>1, <1>2, <1>3, BookIs, DerivedMore DEF Booking
<1>5. e.qty = d.qty - q
  BY <1>1 DEF DeriveTrade, Trade, Sizes
<1>6. PaidSince(b0, a, c.cash, d.qty - q, c.trades)
  <2>1. b.cash \in Int /\ d.qty \in Int /\ i \in Nat
    BY <1>1, BookIs, NatBar
  <2>2. PaidSince(b0, a, b.cash, d.qty, b.trades)
    BY DEF Booking
  <2> QED
    BY <1>2, <2>1, <2>2, SinceSell
<1> HIDE DEF c, e
<1>7. Booking(b0, a, c, e)
  BY <1>1, <1>2, <1>3, <1>4, <1>5, <1>6 DEF Booking
<1> QED
  BY <1>7 DEF c, e

LEMMA BookingBought ==
  ASSUME NEW a, AccountOK(a), Credit(a), NEW b0 \in BookSet, NEW b, NEW d, Booking(b0, a, b, d),
         NEW price \in Sizes, NEW q \in Sizes, NEW i \in 1..Length
  PROVE  Booking(b0, a, Bought(b, price, q, i), DeriveTrade(d, Trade("buy", price, q, i)))
<1> DEFINE c == Bought(b, price, q, i)
           t == Trade("buy", price, q, i)
           e == DeriveTrade(d, t)
<1>1. b \in BookSet /\ b.short = NoShort /\ b.pending = NoPending /\ d \in Holdings /\ d.qty \in Nat
  BY DEF Booking, Holdings
<1>2. /\ c \in BookSet /\ c.short = b.short /\ c.pending = b.pending
      /\ c.cash = b.cash - q * price * (100 + Commission) /\ c.trades = Append(b.trades, t)
  <2>1. /\ c = [cash |-> b.cash - q * price * (100 + Commission), held |-> b.held, avg |-> b.avg, pos |-> b.pos, short |-> b.short,
               pending |-> b.pending, trades |-> Append(b.trades, t)]
        /\ c \in BookSet
    BY <1>1, BoughtIs
  <2> HIDE DEF c, t
  <2> QED
    BY <2>1
<1>3. t \in Fills /\ e \in Holdings
  BY <1>1, TradedIn, DeriveTradeIn
<1>4. DerivePosition(c.trades, Seed(a)) = e
  BY <1>1, <1>2, <1>3, BookIs, DerivedMore DEF Booking
<1>5. e.qty = d.qty + q
  BY <1>1 DEF DeriveTrade, Trade, Sizes
<1>6. PaidSince(b0, a, c.cash, d.qty + q, c.trades)
  <2>1. b.cash \in Int /\ d.qty \in Int /\ i \in Nat
    BY <1>1, BookIs, NatBar
  <2>2. PaidSince(b0, a, b.cash, d.qty, b.trades)
    BY DEF Booking
  <2> QED
    BY <1>2, <2>1, <2>2, SinceBuy
<1> HIDE DEF c, e
<1>7. Booking(b0, a, c, e)
  BY <1>1, <1>2, <1>3, <1>4, <1>5, <1>6 DEF Booking
<1> QED
  BY <1>7 DEF c, e

LEMMA SoldAllIn ==
  ASSUME NEW a, AccountOK(a), NEW b0 \in BookSet, NEW b, NEW d, Booking(b0, a, b, d),
         NEW price \in Quotes, NEW i \in 1..Length, NEW sizes, NEW l, Draws(d, "sell", Under(price), i, sizes, l)
  PROVE  Booking(b0, a, SoldEach(b, price, sizes, i), l)
<1> DEFINE n == Len(sizes)
           sp == Under(price)
<1>0. sp \in Sizes
  BY OverIn
<1>1. sizes \in Seq(Sizes) /\ b \in BookSet
  BY DEF Draws, Booking
<1>2. Len(sizes) \in Nat /\ DOMAIN sizes = 1..Len(sizes) /\ \A k \in 1..Len(sizes) : sizes[k] \in Sizes
  BY <1>1, SeqIs
<1>3. \A x \in BookSet, k \in 1..Len(sizes) : Sold(x, Under(price), sizes[k], i) \in BookSet
  BY <1>0, <1>2, SoldIs
<1>4. SoldSteps(price, i, sizes, b, BookSet)
  BY <1>1, <1>2, <1>3, SoldFold DEF SoldStays
<1>5. PICK v \in [0..Len(sizes) -> BookSet] :
        /\ v[0] = b /\ v[Len(sizes)] = SoldEach(b, price, sizes, i)
        /\ \A k \in 1..Len(sizes) : v[k] = Sold(v[k - 1], Under(price), sizes[k], i)
  BY <1>4 DEF SoldSteps
<1>6. PICK w \in [0..Len(sizes) -> Holdings] :
        /\ w[0] = d /\ w[Len(sizes)] = l
        /\ \A k \in 1..Len(sizes) : /\ "sell" = "sell" => sizes[k] <= w[k - 1].qty
                                   /\ w[k] = DeriveTrade(w[k - 1], Trade("sell", Under(price), sizes[k], i))
  BY DEF Draws
<1> HIDE DEF n, sp
<1> DEFINE G == {k \in 0..n : Booking(b0, a, v[k], w[k])}
<1>7. 0 \in G
  BY <1>2, <1>5, <1>6 DEF n
<1>8. ASSUME NEW k \in 1..n, k - 1 \in G PROVE k \in G
  <2>1. Booking(b0, a, v[k - 1], w[k - 1]) /\ k \in 0..n
    BY <1>8
  <2>2. sizes[k] \in Sizes /\ sizes[k] <= w[k - 1].qty
    BY <1>2, <1>6 DEF n
  <2>3. Booking(b0, a, Sold(v[k - 1], sp, sizes[k], i), DeriveTrade(w[k - 1], Trade("sell", sp, sizes[k], i)))
    BY <1>0, <2>1, <2>2, BookingSold
  <2>4. v[k] = Sold(v[k - 1], sp, sizes[k], i) /\ w[k] = DeriveTrade(w[k - 1], Trade("sell", sp, sizes[k], i))
    BY <1>5, <1>6 DEF n, sp
  <2> QED
    BY <2>1, <2>3, <2>4
<1> HIDE DEF G
<1>9. n \in G
  <2>1. n \in Nat /\ n \in 0..n
    BY <1>2 DEF n
  <2>2. \A k \in 0..n : k \in G
    BY <1>7, <1>8, <2>1, UpInduct
  <2> QED
    BY <2>1, <2>2
<1> QED
  BY <1>5, <1>6, <1>9 DEF G, n

LEMMA BoughtAllIn ==
  ASSUME NEW a, AccountOK(a), Credit(a), NEW b0 \in BookSet, NEW b, NEW d, Booking(b0, a, b, d),
         NEW price \in Quotes, NEW i \in 1..Length, NEW sizes, NEW l, Draws(d, "buy", Over(price), i, sizes, l)
  PROVE  Booking(b0, a, BoughtEach(b, price, sizes, i), l)
<1> DEFINE n == Len(sizes)
           paid == Over(price)
<1>0. paid \in Sizes
  BY OverIn
<1>1. sizes \in Seq(Sizes) /\ b \in BookSet
  BY DEF Draws, Booking
<1>2. Len(sizes) \in Nat /\ DOMAIN sizes = 1..Len(sizes) /\ \A k \in 1..Len(sizes) : sizes[k] \in Sizes
  BY <1>1, SeqIs
<1>3. \A x \in BookSet, k \in 1..Len(sizes) : Bought(x, Over(price), sizes[k], i) \in BookSet
  BY <1>0, <1>2, BoughtIs
<1>4. BoughtSteps(price, i, sizes, b, BookSet)
  BY <1>1, <1>2, <1>3, BoughtFold DEF BoughtStays
<1>5. PICK v \in [0..Len(sizes) -> BookSet] :
        /\ v[0] = b /\ v[Len(sizes)] = BoughtEach(b, price, sizes, i)
        /\ \A k \in 1..Len(sizes) : v[k] = Bought(v[k - 1], Over(price), sizes[k], i)
  BY <1>4 DEF BoughtSteps
<1>6. PICK w \in [0..Len(sizes) -> Holdings] :
        /\ w[0] = d /\ w[Len(sizes)] = l
        /\ \A k \in 1..Len(sizes) : /\ "buy" = "sell" => sizes[k] <= w[k - 1].qty
                                   /\ w[k] = DeriveTrade(w[k - 1], Trade("buy", Over(price), sizes[k], i))
  BY DEF Draws
<1> HIDE DEF n, paid
<1> DEFINE G == {k \in 0..n : Booking(b0, a, v[k], w[k])}
<1>7. 0 \in G
  BY <1>2, <1>5, <1>6 DEF n
<1>8. ASSUME NEW k \in 1..n, k - 1 \in G PROVE k \in G
  <2>1. Booking(b0, a, v[k - 1], w[k - 1]) /\ k \in 0..n
    BY <1>8
  <2>2. sizes[k] \in Sizes
    BY <1>2 DEF n
  <2>3. Booking(b0, a, Bought(v[k - 1], paid, sizes[k], i), DeriveTrade(w[k - 1], Trade("buy", paid, sizes[k], i)))
    BY <1>0, <2>1, <2>2, BookingBought
  <2>4. v[k] = Bought(v[k - 1], paid, sizes[k], i) /\ w[k] = DeriveTrade(w[k - 1], Trade("buy", paid, sizes[k], i))
    BY <1>5, <1>6 DEF n, paid
  <2> QED
    BY <2>1, <2>3, <2>4
<1> HIDE DEF G
<1>9. n \in G
  <2>1. n \in Nat /\ n \in 0..n
    BY <1>2 DEF n
  <2>2. \A k \in 0..n : k \in G
    BY <1>7, <1>8, <2>1, UpInduct
  <2> QED
    BY <2>1, <2>2
<1> QED
  BY <1>5, <1>6, <1>9 DEF G, n

LEMMA LadderExitsIs ==
  ASSUME NEW b, NEW price, NEW i, NEW tick
  PROVE  LET moved == BoughtEach(SoldEach(b, price, tick.exits, i), price, tick.adds, i)
         IN  LadderExits(b, price, i, tick) =
               IF tick.next.left = 0 THEN Flat(moved)
               ELSE [moved EXCEPT !.held = tick.next.left, !.avg = tick.next.avg, !.pos = tick.next]
BY DEF LadderExits, SoldEach, BoughtEach, FoldLeft, MapThenFoldSet

Holding(b, held, avg, pos) == [b EXCEPT !.held = held, !.avg = avg, !.pos = pos]
LEMMA HoldingIs ==
  ASSUME NEW b \in BookSet, NEW held \in Int, NEW avg \in Fractions, NEW pos \in Positions
  PROVE  /\ Holding(b, held, avg, pos) \in BookSet
         /\ Holding(b, held, avg, pos).cash = b.cash /\ Holding(b, held, avg, pos).held = held
         /\ Holding(b, held, avg, pos).avg = avg /\ Holding(b, held, avg, pos).pos = pos
         /\ Holding(b, held, avg, pos).short = b.short /\ Holding(b, held, avg, pos).pending = b.pending
         /\ Holding(b, held, avg, pos).trades = b.trades
<1> DEFINE c == Holding(b, held, avg, pos)
<1>3. c \in BookSet
  BY DEF BookSet, Holding
<1>4. c.cash = b.cash /\ c.held = held /\ c.avg = avg /\ c.pos = pos /\ c.short = b.short /\ c.pending = b.pending /\ c.trades = b.trades
  BY DEF BookSet, Holding
<1> QED
  BY <1>3, <1>4

\* What the book has of the position once a tick of it is booked.
Carries(c, tick) ==
  /\ c.pos = NoPosition \/ (tick.next.left # 0 /\ c.pos = tick.next /\ c.avg = tick.next.avg)
  /\ c.pending = NoPending

LEMMA LadderExitsIn ==
  ASSUME NEW a, AccountOK(a), OnLadders(a), NEW b0 \in BookSet, NEW b \in Kept(b0, a), b.held > 0,
         NEW price \in Quotes, NEW i \in 1..Length, NEW tick, Decides(b.pos, Under(price), Over(price), i, tick)
  PROVE  LadderExits(b, price, i, tick) \in Kept(b0, a) /\ Carries(LadderExits(b, price, i, tick), tick)
<1> DEFINE d == DerivePosition(b.trades, Seed(a))
           sold == SoldEach(b, price, tick.exits, i)
           moved == BoughtEach(sold, price, tick.adds, i)
           next == tick.next
           l == Held(next.left, next.avg)
           c == LadderExits(b, price, i, tick)
<1>1. b \in BookSet /\ LongBook(b, a) /\ PaidSince(b0, a, b.cash, b.held, b.trades)
  BY KeptIs
<1>2. b.held \in Nat /\ b.short = NoShort /\ b.pending = NoPending /\ b.pos # NoPosition /\ b.pos.left = b.held /\ b.pos.avg = b.avg
  BY <1>1 DEF LongBook, Waiting, Positioned
<1>3. d \in Holdings /\ d.qty = b.held /\ d.avg = b.avg
  BY <1>1, <1>2, BookIs, SeedIn, DeriveIn DEF LongBook, Fits
<1>4. d = Held(b.pos.left, b.pos.avg)
  BY <1>2, <1>3 DEF Held, Holdings
<1>5. Booking(b0, a, b, d)
  BY <1>1, <1>2, <1>3 DEF Booking
<1>6. Credit(a)
  BY DEF Credit, OnLadders
<1> HIDE DEF d
<1>7. /\ next \in Positions
      /\ \E mid \in Holdings : Draws(d, "sell", Under(price), i, tick.exits, mid) /\ Draws(mid, "buy", Over(price), i, tick.adds, l)
  BY <1>4 DEF Decides
<1>8. PICK mid \in Holdings : Draws(d, "sell", Under(price), i, tick.exits, mid) /\ Draws(mid, "buy", Over(price), i, tick.adds, l)
  BY <1>7
<1>9. Booking(b0, a, sold, mid)
  BY <1>5, <1>8, SoldAllIn
<1>10. Booking(b0, a, moved, l)
  BY <1>6, <1>8, <1>9, BoughtAllIn
<1>11. c = IF next.left = 0 THEN Flat(moved) ELSE [moved EXCEPT !.held = next.left, !.avg = next.avg, !.pos = next]
  BY LadderExitsIs
<1> HIDE DEF moved, c, next
<1>12. /\ moved \in BookSet /\ moved.short = NoShort /\ moved.pending = NoPending
       /\ DerivePosition(moved.trades, Seed(a)) = l /\ PaidSince(b0, a, moved.cash, l.qty, moved.trades)
  BY <1>10 DEF Booking
<1>13. next.left \in Nat /\ next.avg \in Fractions /\ l.qty = next.left /\ (next.left > 0 => l.avg = next.avg)
  BY <1>7 DEF Positions, Held
<1> HIDE DEF l
<1>14. CASE next.left = 0
  <2>1. c = Holding(moved, 0, Price(0), NoPosition)
    BY <1>11, <1>14 DEF Flat, Holding
  <2>2. /\ c \in BookSet /\ c.cash = moved.cash /\ c.held = 0 /\ c.avg = Price(0) /\ c.pos = NoPosition
        /\ c.short = NoShort /\ c.pending = NoPending /\ c.trades = moved.trades
    BY <1>12, <2>1, NothingIn, HoldingIs
  <2>3. Positioned(c, a) /\ Waiting(c)
    BY <2>2 DEF Positioned, Waiting
  <2>4. Fits(DerivePosition(c.trades, Seed(a)), c.held, c.avg)
    BY <1>12, <1>13, <1>14, <2>2 DEF Fits
  <2>5. LongBook(c, a)
    BY <2>2, <2>3, <2>4 DEF LongBook
  <2>6. PaidSince(b0, a, c.cash, c.held, c.trades)
    BY <1>12, <1>13, <1>14, <2>2
  <2> QED
    BY <2>2, <2>5, <2>6 DEF Kept, Carries, c
<1>15. CASE next.left # 0
  <2>1. c = Holding(moved, next.left, next.avg, next)
    BY <1>11, <1>15 DEF Holding
  <2>2. /\ c \in BookSet /\ c.cash = moved.cash /\ c.held = next.left /\ c.avg = next.avg /\ c.pos = next
        /\ c.short = NoShort /\ c.pending = NoPending /\ c.trades = moved.trades
    BY <1>7, <1>12, <1>13, <2>1, HoldingIs
  <2>3. next # NoPosition
    BY <1>15, NothingIn
  <2>4. Positioned(c, a) /\ Waiting(c)
    BY <1>15, <2>2, <2>3 DEF Positioned, Waiting
  <2>5. Fits(DerivePosition(c.trades, Seed(a)), c.held, c.avg)
    BY <1>12, <1>13, <2>2 DEF Fits
  <2>6. LongBook(c, a)
    BY <1>13, <2>2, <2>4, <2>5 DEF LongBook
  <2>7. PaidSince(b0, a, c.cash, c.held, c.trades)
    BY <1>12, <1>13, <2>2
  <2> QED
    BY <1>15, <2>2, <2>6, <2>7 DEF Kept, Carries, c, next
<1> QED
  BY <1>14, <1>15

---------------------------------------------------------------------------
(* The rules of a bar, on the simple path and for a single strategy.       *)
RuleOK(rule) == rule.action \in {"buy", "sell"} /\ rule.percent \in 0..100 /\ rule.limit \in BOOLEAN /\ rule.offset \in Int

LEMMA RulesAre ==
  ASSUME NEW s, StrategyOK(s)
  PROVE  Len(s.rules) \in Nat /\ DOMAIN s.rules = 1..Len(s.rules) /\ \A k \in 1..Len(s.rules) : RuleOK(s.rules[k])
<1>1. Len(s.rules) \in Nat /\ DOMAIN s.rules = 1..Len(s.rules)
  BY SeqIs DEF StrategyOK
<1> QED
  BY <1>1 DEF StrategyOK, RuleOK

Legacy == [method |-> "legacy"]
LEMMA QtyIn ==
  ASSUME NEW m, TypedSizing(m), NEW equity \in Int, NEW price \in Nat, NEW percent \in 0..100,
         NEW q, q = OrderQty(m, equity, price, Commission, percent, 1, 1)
  PROVE  q \in Nat /\ (q > 0 => price \in Sizes /\ Cost(q, price) <= equity)
<1>1. q \in Nat /\ (q > 0 => price > 0 /\ q * price * (100 + Commission) <= equity)
  BY OrderQtyIn
<1> QED
  BY <1>1 DEF Cost, Sizes

LEMMA QuotesIn == ASSUME NEW p \in Quotes PROVE p \in Sizes /\ p \in Nat
BY DEF Quotes, Sizes

LEMMA SimpleRuleIn ==
  ASSUME NEW a, AccountOK(a), NEW b0 \in BookSet, NEW b \in Kept(b0, a), NEW bars \in Paths, NEW i \in 1..Length, i <= Len(bars),
         NEW rule, RuleOK(rule)
  PROVE  SimpleRule(b, a, bars, i, rule) \in Kept(b0, a)
<1> DEFINE fill == ResolveEntryFill(bars, i, a.exec, Slippage)
           qty  == OrderQty(a.sizing, b.cash, fill.price, Commission, rule.percent, 1, 1)
           c == SimpleRule(b, a, bars, i, rule)
<1>1. b \in BookSet /\ b.cash \in Int /\ b.held \in Nat
  BY KeptIs, BookIs DEF LongBook
<1>2. fill.price \in Sizes /\ fill.bar \in i..Length
  BY FillIn DEF AccountOK
<1>3. c = IF b.pending # NoPending \/ ~RuleFires(rule, a.ctx, bars, i) THEN b
          ELSE CASE rule.action = "buy" /\ b.held = 0  -> Entered(b, a, fill, qty, 0, i)
                 [] rule.action = "sell" /\ b.held > 0 -> SoldOut(b, Under(bars[i].close), i)
                 [] OTHER                              -> b
  BY DEF SimpleRule
<1> HIDE DEF fill
<1>4. qty \in Nat /\ (qty > 0 => Cost(qty, fill.price) <= b.cash)
  <2>1. TypedSizing(a.sizing) /\ rule.percent \in 0..100 /\ fill.price \in Nat
    BY <1>2 DEF AccountOK, RuleOK, Sizes
  <2> QED
    BY <1>1, <2>1, QtyIn
<1> HIDE DEF qty, c
<1>5. b.held = 0 => Entered(b, a, fill, qty, 0, i) \in Kept(b0, a)
  BY <1>2, <1>4, EnteredIn
<1>6. b.held > 0 => SoldOut(b, Under(bars[i].close), i) \in Kept(b0, a)
  <2>1. Under(bars[i].close) \in Sizes
    BY BarsAre, OverIn
  <2> QED
    BY <2>1, SoldOutIn
<1>7. c \in Kept(b0, a)
  BY <1>1, <1>3, <1>5, <1>6
<1> QED
  BY <1>7 DEF c

LEMMA PlainRuleIn ==
  ASSUME NEW a, AccountOK(a), NEW b0 \in BookSet, NEW b \in Kept(b0, a), NEW bars \in Paths, NEW i \in 1..Length, i <= Len(bars),
         NEW rule, RuleOK(rule)
  PROVE  PlainRule(b, a, bars, i, rule) \in Kept(b0, a)
<1> DEFINE price == RuleFill(rule, bars[i])
           qty  == OrderQty(a.sizing, b.cash, price, Commission, rule.percent, 1, 1)
           c == PlainRule(b, a, bars, i, rule)
<1>1. b \in BookSet /\ b.cash \in Int /\ b.held \in Nat
  BY KeptIs, BookIs DEF LongBook
<1>2. price \in Nat
  BY BarsAre, RuleFillIn DEF RuleOK
<1>3. c = IF ~RuleFires(rule, a.ctx, bars, i) \/ price = 0 THEN b
          ELSE CASE rule.action = "buy" /\ b.held = 0 /\ qty > 0 -> Opened(b, a, price, qty, 0, i)
                 [] rule.action = "sell" /\ b.held > 0           -> SoldOut(b, price, i)
                 [] OTHER                                        -> b
  BY DEF PlainRule
<1> HIDE DEF price
<1>4. qty \in Nat /\ (qty > 0 => price \in Sizes /\ Cost(qty, price) <= b.cash)
  <2>1. TypedSizing(a.sizing) /\ rule.percent \in 0..100
    BY DEF AccountOK, RuleOK
  <2> QED
    BY <1>1, <1>2, <2>1, QtyIn
<1> HIDE DEF qty, c
<1>5. b.held = 0 /\ qty > 0 => Opened(b, a, price, qty, 0, i) \in Kept(b0, a)
  <2>1. qty > 0 => qty \in Sizes /\ price \in Sizes /\ Cost(qty, price) <= b.cash
    BY <1>4 DEF Sizes
  <2> QED
    BY <2>1, OpenedIn
<1>6. b.held > 0 /\ price # 0 => SoldOut(b, price, i) \in Kept(b0, a)
  <2>1. price # 0 => price \in Sizes
    BY <1>2 DEF Sizes
  <2> QED
    BY <2>1, SoldOutIn
<1>7. c \in Kept(b0, a)
  BY <1>1, <1>3, <1>5, <1>6
<1> QED
  BY <1>7 DEF c

---------------------------------------------------------------------------
(* The three paths a bar of an account that buys can take.                 *)
LEMMA StopOut ==
  ASSUME NEW a, AccountOK(a), NEW b0 \in BookSet, NEW b \in Kept(b0, a), NEW bars \in Paths, NEW i \in 1..Length, i <= Len(bars),
         NEW sl \in Int, NEW tp, StopsOut(b, a, bars[i], sl, tp)
  PROVE  StoppedOut(b, a, bars[i], i, sl) \in Kept(b0, a)
<1>1. b.avg \in Fractions /\ a.gap \in {"close", "worst"} /\ bars[i] \in Candles /\ bars[i].close \in Sizes
  BY KeptIs, BookIs, BarsAre, QuotesIn DEF AccountOK
<1>2. StopHit(b, a, bars[i], sl) => StopPrice(b, a, bars[i], sl) \in Sizes
  BY <1>1, StopPriceIn
<1> DEFINE price == IF StopHit(b, a, bars[i], sl) THEN StopPrice(b, a, bars[i], sl) ELSE bars[i].close
<1>3. price \in Sizes /\ b.held > 0
  BY <1>1, <1>2 DEF StopsOut
<1>4. StoppedOut(b, a, bars[i], i, sl) = SoldOut(b, price, i)
  BY DEF StoppedOut
<1> HIDE DEF price
<1> QED
  BY <1>3, <1>4, SoldOutIn

LEMMA SimpleRulesIn ==
  ASSUME NEW a, AccountOK(a), NEW b0 \in BookSet, NEW b \in Kept(b0, a), NEW bars \in Paths, NEW i \in 1..Length, i <= Len(bars),
         NEW s, StrategyOK(s)
  PROVE  Simply(b, a, bars, i, s.rules) \in Kept(b0, a)
<1> DEFINE rules == s.rules
<1>1. Len(rules) \in Nat /\ DOMAIN rules = 1..Len(rules) /\ \A k \in 1..Len(rules) : RuleOK(rules[k])
  BY RulesAre
<1> HIDE DEF rules
<1>2. \A x \in Kept(b0, a), k \in 1..Len(rules) : SimpleRule(x, a, bars, i, rules[k]) \in Kept(b0, a)
  BY <1>1, SimpleRuleIn
<1>3. SimpleSteps(a, bars, i, rules, b, Kept(b0, a))
  BY <1>1, <1>2, SimpleFold DEF SimpleStays
<1>4. PICK v \in [0..Len(rules) -> Kept(b0, a)] : v[Len(rules)] = Simply(b, a, bars, i, rules)
  BY <1>3 DEF SimpleSteps
<1>5. Len(rules) \in 0..Len(rules)
  BY <1>1
<1> QED
  BY <1>4, <1>5 DEF rules

LEMMA PlainRulesIn ==
  ASSUME NEW a, AccountOK(a), NEW b0 \in BookSet, NEW b \in Kept(b0, a), NEW bars \in Paths, NEW i \in 1..Length, i <= Len(bars),
         NEW s, StrategyOK(s)
  PROVE  Plainly(b, a, bars, i, s.rules) \in Kept(b0, a)
<1> DEFINE rules == s.rules
<1>1. Len(rules) \in Nat /\ DOMAIN rules = 1..Len(rules) /\ \A k \in 1..Len(rules) : RuleOK(rules[k])
  BY RulesAre
<1> HIDE DEF rules
<1>2. \A x \in Kept(b0, a), k \in 1..Len(rules) : PlainRule(x, a, bars, i, rules[k]) \in Kept(b0, a)
  BY <1>1, PlainRuleIn
<1>3. PlainSteps(a, bars, i, rules, b, Kept(b0, a))
  BY <1>1, <1>2, PlainFold DEF PlainStays
<1>4. PICK v \in [0..Len(rules) -> Kept(b0, a)] : v[Len(rules)] = Plainly(b, a, bars, i, rules)
  BY <1>3 DEF PlainSteps
<1>5. Len(rules) \in 0..Len(rules)
  BY <1>1
<1> QED
  BY <1>4, <1>5 DEF rules

LEMMA ActiveOK == ASSUME NEW a, AccountOK(a), NEW bars, NEW i PROVE StrategyOK(Active(a, bars, i))
BY ActiveIn, StrategiesOK DEF Active, AccountOK

LEMMA OrIn == ASSUME NEW x \in Int, NEW y \in Int PROVE Or(x, y) \in Int
BY DEF Or

LEMMA SimplePathIn ==
  ASSUME NEW a, AccountOK(a), NEW b0 \in BookSet, NEW b \in Kept(b0, a), NEW bars \in Paths, NEW i \in 1..Length, i <= Len(bars),
         NEW s, StrategyOK(s)
  PROVE  SimplePath(b, a, bars, i, s) \in Kept(b0, a)
<1> DEFINE sl == Or(s.sl, a.risk.sl)
           tp == Or(s.tp, a.risk.tp)
           c == SimplePath(b, a, bars, i, s)
<1>1. sl \in Int
  BY OrIn DEF StrategyOK, AccountOK, TypedRisk
<1>2. c = IF StopsOut(b, a, bars[i], sl, tp) THEN StoppedOut(b, a, bars[i], i, sl)
          ELSE Simply(b, a, bars, i, s.rules)
  BY SimpleIs
<1> HIDE DEF sl, tp, c
<1>3. Simply(b, a, bars, i, s.rules) \in Kept(b0, a)
  BY SimpleRulesIn
<1>4. c \in Kept(b0, a)
  BY <1>1, <1>2, <1>3, StopOut
<1> QED
  BY <1>4 DEF c

LEMMA PlainIs ==
  ASSUME NEW b, NEW acc, NEW bars, NEW i
  PROVE  LET strategy == acc.tree.strategy
             out == IF StopsOut(b, acc, bars[i], strategy.sl, strategy.tp) THEN StoppedOut(b, acc, bars[i], i, strategy.sl) ELSE b
         IN  PlainPath(b, acc, bars, i) = Plainly(out, acc, bars, i, strategy.rules)
BY DEF PlainPath, Plainly, FoldLeft, MapThenFoldSet

LEMMA PlainPathIn ==
  ASSUME NEW a, AccountOK(a), a.engine = "plain", NEW b0 \in BookSet, NEW b \in Kept(b0, a), NEW bars \in Paths, NEW i \in 1..Length, i <= Len(bars)
  PROVE  PlainPath(b, a, bars, i) \in Kept(b0, a)
<1> DEFINE s == a.tree.strategy
           out == IF StopsOut(b, a, bars[i], s.sl, s.tp) THEN StoppedOut(b, a, bars[i], i, s.sl) ELSE b
<1>1. StrategyOK(s)
  <2>1. a.tree \in Nodes(a.tree) /\ a.tree.type = "leaf" /\ TreeOK(a.tree)
    BY NodesClosed DEF AccountOK, TreeOK
  <2>2. s \in Strategies(a.tree)
    BY <2>1 DEF Strategies
  <2> QED
    BY <2>1, <2>2, StrategiesOK
<1>2. s.sl \in Int
  BY <1>1 DEF StrategyOK
<1>3. PlainPath(b, a, bars, i) = Plainly(out, a, bars, i, s.rules)
  BY PlainIs
<1> HIDE DEF s
<1>4. out \in Kept(b0, a)
  BY <1>2, StopOut
<1> HIDE DEF out
<1> QED
  BY <1>1, <1>3, <1>4, PlainRulesIn

LEMMA LadderEntryIn ==
  ASSUME NEW a, AccountOK(a), NEW b0 \in BookSet, NEW b \in Kept(b0, a), b.held = 0, NEW bars \in Paths, NEW i \in 1..Length, i <= Len(bars),
         NEW rule, RuleOK(rule), NEW sl \in Int
  PROVE  LadderEntry(b, a, bars, i, rule, sl) \in Kept(b0, a)
<1> DEFINE fill == ResolveEntryFill(bars, i, a.exec, Slippage)
           qty  == OrderQty(Legacy, b.cash, fill.price, Commission, rule.percent, 1, 1)
<1>1. b \in BookSet /\ b.cash \in Int
  BY KeptIs, BookIs
<1>2. fill.price \in Sizes /\ fill.bar \in i..Length
  BY FillIn DEF AccountOK
<1>3. LadderEntry(b, a, bars, i, rule, sl) = Entered(b, a, fill, qty, sl, i)
  BY DEF LadderEntry, Legacy
<1> HIDE DEF fill
<1>4. qty \in Nat /\ (qty > 0 => Cost(qty, fill.price) <= b.cash)
  <2>1. TypedSizing(Legacy) /\ rule.percent \in 0..100 /\ fill.price \in Nat
    BY <1>2 DEF RuleOK, Sizes, TypedSizing, Legacy
  <2> QED
    BY <1>1, <2>1, QtyIn
<1> HIDE DEF qty
<1> QED
  BY <1>2, <1>3, <1>4, EnteredIn

LEMMA LadderPathIn ==
  ASSUME NEW a, AccountOK(a), OnLadders(a), NEW b0 \in BookSet, NEW b \in Kept(b0, a), NEW bars \in Paths, NEW i \in 1..Length, i <= Len(bars),
         NEW s, StrategyOK(s)
  PROVE  LadderPath(b, a, bars, i, s) \in Kept(b0, a)
<1> DEFINE price == bars[i].close
           buys == Firing(s, "buy", a, bars, i)
           sell == Firing(s, "sell", a, bars, i) # {}
           tick == EvaluateLadderTick(b.pos, price, a.risk.L, sell, Over(price))
           c == LadderPath(b, a, bars, i, s)
           sl == Or(s.sl, a.risk.sl)
<1>1. b \in BookSet /\ LongBook(b, a) /\ b.held \in Nat
  BY KeptIs DEF LongBook
<1>2. price \in Quotes /\ price \in Nat /\ Over(price) \in Sizes /\ Under(price) \in Sizes
  BY BarsAre, QuotesIn, OverIn
<1>3. c = CASE b.held > 0  -> LadderExits(b, price, i, tick)
            [] b.held <= 0 /\ buys # {} -> LadderEntry(b, a, bars, i, s.rules[Min(buys)], sl)
            [] OTHER       -> b
  BY DEF LadderPath
<1>4. sl \in Int
  BY OrIn DEF StrategyOK, AccountOK, TypedRisk
<1>5. buys # {} => RuleOK(s.rules[Min(buys)])
  <2>1. DOMAIN s.rules = 1..Len(s.rules) /\ Len(s.rules) \in Nat /\ \A k \in 1..Len(s.rules) : RuleOK(s.rules[k])
    BY RulesAre
  <2>2. buys \subseteq 1..Len(s.rules)
    BY <2>1 DEF Firing
  <2>3. buys \in SUBSET Nat
    BY <2>1, <2>2
  <2> HIDE DEF buys
  <2>4. buys # {} => Min(buys) \in buys
    BY <2>3, MinIn
  <2> QED
    BY <2>1, <2>2, <2>4
<1> HIDE DEF price, buys, sell, sl, c
<1>6. CASE b.held > 0
  <2>1. b.pos \in Positions /\ b.pos.left > 0 /\ LaddersOK(a.risk.L) /\ i \in Nat
    BY <1>1, <1>6, BookIs, NatBar DEF LongBook, Positioned, AccountOK
  <2>2. Decides(b.pos, Under(price), Over(price), i, tick)
    BY <1>2, <2>1, TickDecides
  <2> HIDE DEF tick
  <2>3. LadderExits(b, price, i, tick) \in Kept(b0, a)
    BY <1>2, <1>6, <2>2, LadderExitsIn
  <2>4. c \in Kept(b0, a)
    BY <1>1, <1>3, <1>6, <2>3
  <2> QED
    BY <2>4 DEF c
<1>7. CASE ~(b.held > 0)
  <2> HIDE DEF tick
  <2>1. b.held = 0
    BY <1>1, <1>7
  <2>2. buys # {} => LadderEntry(b, a, bars, i, s.rules[Min(buys)], sl) \in Kept(b0, a)
    BY <1>4, <1>5, <2>1, LadderEntryIn
  <2>3. c \in Kept(b0, a)
    BY <1>1, <1>3, <1>7, <2>2
  <2> QED
    BY <2>3 DEF c
<1> QED
  BY <1>6, <1>7

---------------------------------------------------------------------------
(* An entry that waited.                                                   *)

\* An entry that waited fills in the bar it waited for, out of the market until then.
LEMMA OpenedPendingIn ==
  ASSUME NEW a, AccountOK(a), NEW b0 \in BookSet, NEW b \in Kept(b0, a), NEW i \in 1..Length, b.pending.bar = i
  PROVE  OpenedPending(b, a, i) \in Kept(b0, a)
<1>1. b \in BookSet /\ LongBook(b, a)
  BY KeptIs
<1>2. b.pending \in Pendings /\ b.pending.sl \in Int
  BY <1>1, BookIs DEF Pendings
<1>3. b.pending # NoPending
  BY NothingIn, NatBar
<1>4. b.held = 0 /\ b.pending.price \in Sizes /\ b.pending.qty \in Sizes /\ Cost(b.pending.qty, b.pending.price) <= b.cash
  BY <1>1, <1>3 DEF LongBook, Waiting
<1>5. Opened(b, a, b.pending.price, b.pending.qty, b.pending.sl, i) \in Kept(b0, a)
  BY <1>2, <1>4, OpenedIn
<1> QED
  BY <1>5 DEF OpenedPending

---------------------------------------------------------------------------
(* The book of an account that sells short.                                *)
ShortBook(b) ==
  /\ b \in BookSet /\ b.pending = NoPending /\ b.pos = NoPosition
  /\ b.short # NoShort => b.short.qty \in Sizes /\ b.short.qty = 0 - b.held

LEMMA ShortCashIn ==
  ASSUME NEW b \in BookSet, NEW price \in Int, NEW funding \in Int
  PROVE  ShortNet(b, price, funding) \in Int
<1>1. b.short \in Shorts
  BY BookIs
<1>2. b.short.avg[1] \in Int /\ b.short.qty \in Int /\ Commission \in Int
  BY <1>1, BacktestAssumption DEF Shorts, Fractions
<1> DEFINE e == b.short.avg[1]
           q == b.short.qty
<1>3. e - price \in Int /\ e + price \in Int
  BY <1>2
<1>4. ShortNet(b, price, funding) = 100 * (e - price) * q - (e + price) * q * Commission + funding
  BY DEF ShortNet
<1>5. \A x, y, c \in Int : 100 * x * q - y * q * c + funding \in Int
  BY <1>2
<1> QED
  BY <1>2, <1>3, <1>4, <1>5

LEMMA FundingIn == ASSUME NEW b \in BookSet, NEW a, AccountOK(a) PROVE Funding(b, a) \in Int
<1>1. b.short \in Shorts
  BY BookIs
<1>2. b.short.avg[1] \in Int /\ b.short.qty \in Int /\ a.funding \in Int
  BY <1>1 DEF Shorts, Fractions, AccountOK
<1>3. \A x, y, z \in Int : x * y * z \in Int
  OBVIOUS
<1> QED
  BY <1>2, <1>3 DEF Funding

LEMMA ShortTickIn ==
  ASSUME NEW pos \in Shorts, NEW price \in Nat, NEW cover, NEW funding \in Int
  PROVE  LET next == EvaluateShortTick(pos, price, cover, funding).next
         IN  next \in Shorts /\ next.qty = pos.qty /\ next.funding \in Int
<1> DEFINE trough == IF price < pos.trough THEN price ELSE pos.trough
           next == [pos EXCEPT !.trough = trough, !.funding = @ + funding]
<1>1. EvaluateShortTick(pos, price, cover, funding).next = next
  BY DEF EvaluateShortTick
<1>2. trough \in Int /\ pos.funding + funding \in Int
  BY DEF Shorts
<1> HIDE DEF trough
<1>3. next \in Shorts /\ next.qty = pos.qty /\ next.funding \in Int
  BY <1>2 DEF Shorts
<1> QED
  BY <1>1, <1>3

LEMMA ShortExitIn ==
  ASSUME NEW a, AccountOK(a), NEW b, ShortBook(b), b.short # NoShort, NEW price \in Quotes, NEW i \in 1..Length, NEW cover
  PROVE  ShortBook(ShortExit(b, price, i, EvaluateShortTick(b.short, price, cover, Funding(b, a))))
<1> DEFINE tick == EvaluateShortTick(b.short, price, cover, Funding(b, a))
           c == ShortExit(b, price, i, tick)
<1>1. b \in BookSet /\ b.short \in Shorts /\ b.pending = NoPending /\ b.pos = NoPosition /\ b.short.qty \in Sizes /\ b.short.qty = 0 - b.held
  BY BookIs DEF ShortBook
<1>2. Funding(b, a) \in Int /\ price \in Nat /\ Over(price) \in Sizes /\ Over(price) \in Int
  BY <1>1, FundingIn, OverIn, QuotesIn DEF Sizes
<1>3. tick.next \in Shorts /\ tick.next.qty = b.short.qty /\ tick.next.funding \in Int
  BY <1>1, <1>2, ShortTickIn
<1> HIDE DEF tick
<1>4. CASE ~tick.exit
  <2>1. c = [b EXCEPT !.short = tick.next]
    BY <1>4 DEF ShortExit
  <2> HIDE DEF c
  <2>2. c \in BookSet /\ c.pending = b.pending /\ c.pos = b.pos /\ c.short = tick.next /\ c.held = b.held
    BY <1>1, <1>3, <2>1 DEF BookSet
  <2>3. ShortBook(c)
    BY <1>1, <1>3, <2>2 DEF ShortBook
  <2> QED
    BY <2>3 DEF c, tick
<1>5. CASE tick.exit
  <2> DEFINE net == ShortNet(b, Over(price), tick.next.funding)
             trades == Append(b.trades, Trade("buy", Over(price), b.short.qty, i))
             cash == b.cash + net
             flat == 0
             none == NoShort
  <2>1. net \in Int
    BY <1>1, <1>2, <1>3, ShortCashIn
  <2>2. cash \in Int
    <3> HIDE DEF net
    <3> QED
      BY <1>1, <2>1, BookIs
  <2>3. trades \in Seq(Booked)
    BY <1>1, <1>2, TradedIn, BookIs
  <2>4. c = [b EXCEPT !.cash = cash, !.held = flat, !.short = none, !.trades = trades]
    BY <1>5 DEF ShortExit
  <2>5. flat \in Int /\ none \in Shorts /\ none = NoShort
    BY NothingIn
  <2> HIDE DEF c, cash, trades, flat, none
  <2>6. c \in BookSet /\ c.pending = b.pending /\ c.pos = b.pos /\ c.short = none
    BY <1>1, <2>2, <2>3, <2>4, <2>5 DEF BookSet
  <2>7. ShortBook(c)
    BY <1>1, <2>5, <2>6 DEF ShortBook
  <2> QED
    BY <2>7 DEF c, tick
<1> QED
  BY <1>4, <1>5

LEMMA ShortEntryIn ==
  ASSUME NEW a, AccountOK(a), NEW b, ShortBook(b), NEW price \in Sizes, NEW qty \in Nat, NEW i \in 1..Length, NEW sell
  PROVE  ShortBook(ShortEntry(b, a, price, qty, i, sell))
<1> DEFINE c == ShortEntry(b, a, price, qty, i, sell)
           pos == OpenShort(price, qty, a.risk.sl, a.risk.tp, a.risk.trail, a.leverage)
           trades == Append(b.trades, Trade("sell", price, qty, i))
           held == 0 - qty
<1>1. b \in BookSet /\ b.pending = NoPending /\ b.pos = NoPosition
  BY DEF ShortBook
<1>2. CASE b.short # NoShort \/ ~sell \/ qty = 0
  BY <1>2 DEF ShortEntry
<1>3. CASE ~(b.short # NoShort \/ ~sell \/ qty = 0)
  <2>1. qty \in Sizes /\ price \in Nat
    BY <1>3 DEF Sizes
  <2>2. pos \in Shorts /\ pos.qty = qty
    <3>1. Price(price) \in Fractions
      BY <2>1 DEF Price, Fractions
    <3>2. a.risk.sl \in Int /\ a.risk.tp \in Int /\ a.risk.trail \in Int /\ a.leverage \in Nat \ {0}
      BY DEF AccountOK, TypedRisk
    <3> HIDE DEF Fractions
    <3> QED
      BY <2>1, <3>1, <3>2, SetPctIn DEF OpenShort, Shorts
  <2>3. trades \in Seq(Booked)
    BY <1>1, <2>1, TradedIn, BookIs
  <2>4. held \in Int /\ qty = 0 - held
    OBVIOUS
  <2>5. c = [b EXCEPT !.held = held, !.trades = trades, !.short = pos]
    BY <1>3 DEF ShortEntry
  <2> HIDE DEF c, pos, trades, held
  <2>6. c \in BookSet /\ c.pending = b.pending /\ c.pos = b.pos /\ c.short = pos /\ c.held = held
    BY <1>1, <2>2, <2>3, <2>4, <2>5 DEF BookSet
  <2>7. ShortBook(c)
    BY <1>1, <2>1, <2>2, <2>4, <2>6 DEF ShortBook
  <2> QED
    BY <2>7 DEF c
<1> QED
  BY <1>2, <1>3

LEMMA ShortPathIn ==
  ASSUME NEW a, AccountOK(a), NEW b, ShortBook(b), NEW bars \in Paths, NEW i \in 1..Length, i <= Len(bars), NEW active
  PROVE  ShortBook(ShortPath(b, a, bars, i, active))
<1> DEFINE cover == Firing(active, "buy", a, bars, i) # {}
           sell == Firing(active, "sell", a, bars, i) # {}
           price == bars[i].close
           after == IF b.short = NoShort THEN b
                    ELSE ShortExit(b, price, i, EvaluateShortTick(b.short, price, cover, Funding(b, a)))
<1>1. price \in Quotes /\ Under(price) \in Sizes
  BY BarsAre, OverIn
<1>2. ShortQty(a, Under(price)) \in Nat
  BY <1>1, ShortQtyIn DEF AccountOK
<1>3. ShortBook(after)
  BY <1>1, ShortExitIn
<1>4. ShortPath(b, a, bars, i, active) = ShortEntry(after, a, Under(price), ShortQty(a, Under(price)), i, sell /\ ~cover)
  BY DEF ShortPath, ShortSignals
<1> HIDE DEF after, price
<1> QED
  BY <1>1, <1>2, <1>3, <1>4, ShortEntryIn

---------------------------------------------------------------------------
(* What sequences of sequences are flattened to.                           *)
FlatOf(seqs, m, g) == g = [k \in 1..m |-> IF k = 1 THEN seqs[k] ELSE g[k - 1] \o seqs[k]]

LEMMA FlatExists == ASSUME NEW seqs, NEW m \in Nat PROVE \E g : FlatOf(seqs, m, g)
<1> DEFINE G == {k \in 0..m : \E g : FlatOf(seqs, k, g)}
<1>1. 0 \in G
  <2> DEFINE g == [k \in 1..0 |-> seqs[k]]
  <2>1. g = [k \in 1..0 |-> IF k = 1 THEN seqs[k] ELSE g[k - 1] \o seqs[k]]
    OBVIOUS
  <2> HIDE DEF g
  <2>2. FlatOf(seqs, 0, g)
    BY <2>1 DEF FlatOf
  <2>3. 0 \in 0..m
    OBVIOUS
  <2> QED
    BY <2>2, <2>3
<1>2. ASSUME NEW k \in 1..m, k - 1 \in G PROVE k \in G
  <2>1. PICK f : FlatOf(seqs, k - 1, f)
    BY <1>2
  <2> DEFINE more == IF k = 1 THEN seqs[k] ELSE f[k - 1] \o seqs[k]
             g == [d \in 1..k |-> IF d = k THEN more ELSE f[d]]
  <2>2. ASSUME NEW d \in 1..k PROVE g[d] = IF d = 1 THEN seqs[d] ELSE g[d - 1] \o seqs[d]
    <3>1. CASE d = k
      <4>1. d # 1 => k - 1 \in 1..k /\ k - 1 # k
        BY <3>1
      <4>2. (d # 1 => g[k - 1] = f[k - 1]) /\ g[d] = more
        BY <3>1, <4>1
      <4> QED
        BY <3>1, <4>2
    <3>2. CASE d # k
      <4>1. d \in 1..(k - 1)
        BY <3>2
      <4>2. f[d] = IF d = 1 THEN seqs[d] ELSE f[d - 1] \o seqs[d]
        BY <2>1, <4>1 DEF FlatOf
      <4>3. d # 1 => d - 1 \in 1..k /\ d - 1 # k
        BY <4>1
      <4>4. g[d] = f[d] /\ (d # 1 => g[d - 1] = f[d - 1])
        BY <3>2, <4>3
      <4> QED
        BY <4>2, <4>4
    <3> QED
      BY <3>1, <3>2
  <2>3. DOMAIN g = 1..k /\ g = [d \in 1..k |-> g[d]]
    OBVIOUS
  <2> HIDE DEF g
  <2>4. [d \in 1..k |-> g[d]] = [d \in 1..k |-> IF d = 1 THEN seqs[d] ELSE g[d - 1] \o seqs[d]]
    BY <2>2
  <2>5. FlatOf(seqs, k, g)
    BY <2>3, <2>4 DEF FlatOf
  <2>6. k \in 0..m
    OBVIOUS
  <2> QED
    BY <2>5, <2>6
<1> HIDE DEF G
<1>3. \A k \in 0..m : k \in G
  BY <1>1, <1>2, UpInduct
<1> QED
  BY <1>3 DEF G

LEMMA FlattenIn ==
  ASSUME NEW S, NEW n \in Nat, NEW seqs, Len(seqs) = n, seqs \in [1..n -> Seq(S)]
  PROVE  FlattenSeq(seqs) \in Seq(S)
<1>1. CASE n = 0
  <2>1. seqs \in [1..0 -> Seq(S)]
    BY <1>1
  <2>2. FlattenSeq(seqs) = seqs
    BY <1>1 DEF FlattenSeq
  <2>3. seqs \in Seq(S)
    BY <2>1
  <2> QED
    BY <2>2, <2>3
<1>2. CASE n # 0
  <2> DEFINE flatten == CHOOSE g : FlatOf(seqs, n, g)
             G == {k \in 0..n : k = 0 \/ flatten[k] \in Seq(S)}
  <2>1. FlatOf(seqs, n, flatten)
    BY FlatExists
  <2>2. FlattenSeq(seqs) = flatten[n]
    BY <1>2 DEF FlattenSeq, FlatOf
  <2> HIDE DEF flatten
  <2>3. \A k \in 1..n : flatten[k] = IF k = 1 THEN seqs[k] ELSE flatten[k - 1] \o seqs[k]
    BY <2>1 DEF FlatOf
  <2>4. 0 \in G
    OBVIOUS
  <2>5. ASSUME NEW k \in 1..n, k - 1 \in G PROVE k \in G
    <3>1. seqs[k] \in Seq(S) /\ k \in 0..n
      OBVIOUS
    <3>2. CASE k = 1
      BY <2>3, <3>1, <3>2
    <3>3. CASE k # 1
      <4>1. flatten[k - 1] \in Seq(S)
        BY <2>5, <3>3
      <4>2. flatten[k - 1] \o seqs[k] \in Seq(S)
        BY <3>1, <4>1
      <4>3. flatten[k] = flatten[k - 1] \o seqs[k]
        BY <2>3, <3>3
      <4> QED
        BY <3>1, <4>2, <4>3
    <3> QED
      BY <3>2, <3>3
  <2> HIDE DEF G
  <2>6. \A k \in 0..n : k \in G
    BY <2>4, <2>5, UpInduct
  <2>7. n \in 0..n
    OBVIOUS
  <2>8. n \in G
    BY <2>6, <2>7
  <2> QED
    BY <1>2, <2>2, <2>8 DEF G
<1> QED
  BY <1>1, <1>2

---------------------------------------------------------------------------
(* The accounts of a strategy.                                             *)
Sound(s) == Parameters \subseteq DOMAIN s /\ AccountOK(s)

LEMMA ChildCapitalIn ==
  ASSUME NEW capital \in Nat, NEW weights, weights \in Seq(Int), NEW n \in Nat, n # 0, NEW k \in 1..n
  PROVE  ChildCapital(capital, weights, n, k) \in Nat
<1>1. \A j \in 1..n : Weight(weights, j) \in Nat
  <2>1. TAKE j \in 1..n
  <2>2. Len(weights) \in Nat /\ (j <= Len(weights) => weights[j] \in Int)
    OBVIOUS
  <2> QED
    BY <2>2 DEF Weight
<1> DEFINE terms == [j \in 1..n |-> Weight(weights, j)]
           total == SumOf(terms)
<1>2. Len(terms) = n /\ DOMAIN terms = 1..n /\ \A j \in 1..n : terms[j] \in Nat
  BY <1>1
<1> HIDE DEF terms
<1>3. SumStays(terms, Nat)
  BY <1>2 DEF SumStays
<1>4. SumSteps(terms, Nat)
  BY <1>3, SumFold
<1>5. PICK v \in [0..n -> Nat] : v[n] = total
  BY <1>2, <1>4 DEF SumSteps
<1>6. total \in Nat
  BY <1>5
<1>7. ChildCapital(capital, weights, n, k) = IF total = 0 THEN capital \div n ELSE (capital * Weight(weights, k)) \div total
  BY DEF ChildCapital, terms
<1> HIDE DEF total
<1>8. capital * Weight(weights, k) \in Nat
  BY <1>1, ProductOf
<1>9. capital \div n \in Nat
  <2>1. n > 0
    OBVIOUS
  <2> QED
    BY <2>1, DivBack
<1>10. total # 0 => (capital * Weight(weights, k)) \div total \in Nat
  <2> DEFINE p == capital * Weight(weights, k)
  <2>1. p \in Nat
    BY <1>8
  <2> HIDE DEF p
  <2>2. total # 0 => p \div total \in Nat
    BY SMTT(20), <1>6, <2>1, DivBack
  <2> QED
    BY <2>2 DEF p
<1> QED
  BY <1>7, <1>9, <1>10

LEMMA NoRiskIn == TypedRisk(NoRisk) /\ LaddersOK(NoRisk.L) /\ ~Laddered(NoRisk)
<1>1. <<>> \in Seq([pct : Int, sell : Int]) /\ <<>> \in Seq([pct : Int, add : Int]) /\ Len(<<>>) = 0
  OBVIOUS
<1>2. /\ NoRisk.sl \in Int /\ NoRisk.tp \in Int /\ NoRisk.trail \in Int
      /\ NoRisk.L.tp = <<>> /\ NoRisk.L.si.ladder = <<>> /\ NoRisk.L.py.ladder = <<>> /\ NoRisk.L.si.max = 1 /\ NoRisk.L.py.max = 1
  BY DEF NoRisk, Unset
<1>3. TypedRisk(NoRisk)
  <2>1. NoRisk.L.tp \in Seq([pct : Int, sell : Int])
    BY <1>1, <1>2
  <2>2. NoRisk.L.si.ladder \in Seq([pct : Int, add : Int]) /\ NoRisk.L.py.ladder \in Seq([pct : Int, add : Int])
    BY <1>1, <1>2
  <2>3. NoRisk.L.si.max \in Int /\ NoRisk.L.py.max \in Int
    BY <1>2
  <2> QED
    BY <1>2, <2>1, <2>2, <2>3 DEF TypedRisk
<1>4. LaddersOK(NoRisk.L)
  BY <1>1, <1>2 DEF LaddersOK, Adding
<1>5. ~Laddered(NoRisk)
  BY <1>2 DEF Laddered
<1> QED
  BY <1>3, <1>4, <1>5

AllSound(q) == q \in Seq(Range(q)) /\ \A x \in Range(q) : Sound(x)

LEMMA SoundIn == ASSUME NEW S, \A x \in S : Sound(x), NEW q \in Seq(S) PROVE AllSound(q)
<1>1. Len(q) \in Nat /\ DOMAIN q = 1..Len(q) /\ q = [k \in 1..Len(q) |-> q[k]] /\ \A k \in 1..Len(q) : q[k] \in S
  OBVIOUS
<1>2. Range(q) \subseteq S /\ \A k \in 1..Len(q) : q[k] \in Range(q)
  BY <1>1 DEF Range
<1>3. q \in Seq(Range(q))
  BY <1>1, <1>2
<1> QED
  BY <1>2, <1>3 DEF AllSound

LEMMA SoundAll ==
  ASSUME NEW q, AllSound(q)
  PROVE  Len(q) \in Nat /\ DOMAIN q = 1..Len(q) /\ \A k \in 1..Len(q) : Sound(q[k])
<1>1. Len(q) \in Nat /\ DOMAIN q = 1..Len(q)
  BY DEF AllSound
<1>2. \A k \in 1..Len(q) : q[k] \in Range(q)
  BY <1>1 DEF Range
<1> QED
  BY <1>1, <1>2 DEF AllSound

LEMMA NoneSound == AllSound(<<>>)
<1>1. <<>> \in Seq({})
  OBVIOUS
<1> QED
  BY <1>1, SoundIn

LEMMA OneSound == ASSUME NEW s, Sound(s) PROVE AllSound(<<s>>)
<1>1. <<s>> \in Seq({s})
  OBVIOUS
<1> QED
  BY <1>1, SoundIn

LEMMA FlattenSound ==
  ASSUME NEW n \in Nat, NEW seqs, Len(seqs) = n, DOMAIN seqs = 1..n, seqs = [k \in 1..n |-> seqs[k]],
         \A k \in 1..n : AllSound(seqs[k])
  PROVE  AllSound(FlattenSeq(seqs))
<1> DEFINE S == UNION {Range(seqs[k]) : k \in 1..n}
<1>1. \A x \in S : Sound(x)
  BY DEF AllSound
<1>2. ASSUME NEW k \in 1..n PROVE seqs[k] \in Seq(S)
  <2> DEFINE R == Range(seqs[k])
             q == seqs[k]
  <2>1. q \in Seq(R) /\ R \subseteq S
    BY DEF AllSound
  <2> HIDE DEF R, S, q
  <2>2. q \in Seq(S)
    BY <2>1
  <2> QED
    BY <2>2 DEF q
<1> HIDE DEF S
<1>3. seqs \in [1..n -> Seq(S)]
  BY <1>2
<1>4. FlattenSeq(seqs) \in Seq(S)
  BY <1>3, FlattenIn
<1> QED
  BY <1>1, <1>4, SoundIn

ChildOf(s, k) ==
  [s EXCEPT !.tree = s.tree.children[k], !.capital = ChildCapital(s.capital, s.tree.weights, Len(s.tree.children), k), !.risk = NoRisk, !.seed = NoSeed]
LEMMA ChildSound ==
  ASSUME NEW s, Sound(s), Splits(s), NEW k \in 1..Len(s.tree.children)
  PROVE  Sound(ChildOf(s, k)) /\ Len(s.tree.children) \in Nat
<1> DEFINE root == s.tree
           n == Len(root.children)
           c == ChildOf(s, k)
           share == ChildCapital(s.capital, root.weights, n, k)
           sub == root.children[k]
<1>1. /\ s.engine = "trees" /\ root.type = "composite" /\ root.mode = "weighted" /\ TreeOK(root) /\ Parameters \subseteq DOMAIN s /\ AccountOK(s)
      /\ s.capital \in Nat
  BY DEF Sound, Splits, AccountOK
<1>2. root \in Nodes(root)
  BY <1>1, NodesClosed DEF TreeOK
<1>3. root.weights \in Seq(Int) /\ root.children \in Seq(Range(root.children)) /\ root.children # <<>>
  BY <1>1, <1>2 DEF TreeOK, TypedNode, ValidNode
<1>4. n \in Nat /\ n # 0 /\ DOMAIN root.children = 1..n
  BY <1>3
<1>5. share \in Nat
  BY <1>1, <1>3, <1>4, ChildCapitalIn
<1>6. TreeOK(sub)
  <2>1. sub \in Below(root)
    BY <1>1, <1>4 DEF Below, Range
  <2> QED
    BY <1>1, <2>1, ChildOK
<1>7. c = [s EXCEPT !.tree = sub, !.capital = share, !.risk = NoRisk, !.seed = NoSeed]
  BY DEF ChildOf
<1> HIDE DEF root, n, c, share, sub
<1>8. DOMAIN c = DOMAIN s /\ Parameters \subseteq DOMAIN s
  BY <1>1, <1>7
<1>9. c.tree = sub /\ c.capital = share /\ c.risk = NoRisk /\ c.seed = NoSeed
  BY <1>7, <1>8 DEF Parameters
<1>10. c.engine = s.engine /\ c.funding = s.funding /\ c.leverage = s.leverage /\ c.gap = s.gap /\ c.sizing = s.sizing /\ c.exec = s.exec
  BY <1>7, <1>8 DEF Parameters
<1>11. NoSeed.qty = 0 /\ NoSeed.price = 0
  BY DEF NoSeed
<1>12. AccountOK(c)
  BY <1>1, <1>5, <1>6, <1>9, <1>10, <1>11, NoRiskIn DEF AccountOK
<1>13. Sound(c)
  BY <1>8, <1>12 DEF Sound
<1> QED
  BY <1>4, <1>13 DEF c, n, root

LEMMA SharesSound == ASSUME NEW s, Sound(s), Splits(s) PROVE AllSound(Shares(s))
<1> DEFINE n == Len(s.tree.children)
           share(k) == ChildCapital(s.capital, s.tree.weights, n, k)
           seqs == [k \in 1..n |-> IF share(k) = 0 THEN <<>> ELSE <<ChildOf(s, k)>>]
<1>1. n \in Nat
  <2>1. TreeOK(s.tree) /\ s.tree.type = "composite"
    BY DEF Sound, AccountOK, Splits
  <2>2. TypedNode(s.tree)
    BY <2>1, NodesClosed DEF TreeOK
  <2> QED
    BY <2>1, <2>2 DEF TypedNode
<1>2. \A k \in 1..n : AllSound(seqs[k])
  <2>1. TAKE k \in 1..n
  <2>2. AllSound(<<ChildOf(s, k)>>)
    BY ChildSound, OneSound
  <2> QED
    BY <2>2, NoneSound
<1>3. Shares(s) = FlattenSeq(seqs)
  BY DEF Shares, ChildOf
<1>4. Len(seqs) = n /\ DOMAIN seqs = 1..n /\ seqs = [k \in 1..n |-> seqs[k]]
  BY <1>1
<1> HIDE DEF n, seqs
<1>5. AllSound(FlattenSeq(seqs))
  BY <1>1, <1>2, <1>4, FlattenSound
<1> QED
  BY <1>3, <1>5

SplitUp(q) == FlattenSeq([k \in DOMAIN q |-> IF Splits(q[k]) THEN Shares(q[k]) ELSE <<q[k]>>])
Unsplit(q) == FlattenSeq([k \in DOMAIN q |-> IF Splits(q[k]) THEN <<>> ELSE <<q[k]>>])
SplitOf(s, m, g) == g = [d \in 0..m |-> IF d = 0 THEN <<s>> ELSE SplitUp(g[d - 1])]

LEMMA SplitUpSound == ASSUME NEW q, AllSound(q) PROVE AllSound(SplitUp(q)) /\ AllSound(Unsplit(q))
<1> DEFINE up == [k \in DOMAIN q |-> IF Splits(q[k]) THEN Shares(q[k]) ELSE <<q[k]>>]
           whole == [k \in DOMAIN q |-> IF Splits(q[k]) THEN <<>> ELSE <<q[k]>>]
           n == Len(q)
<1>1. n \in Nat /\ DOMAIN q = 1..n /\ \A k \in 1..n : Sound(q[k])
  BY SoundAll
<1>2. \A k \in 1..n : AllSound(up[k])
  BY <1>1, SharesSound, OneSound
<1>3. \A k \in 1..n : AllSound(whole[k])
  BY <1>1, NoneSound, OneSound
<1>4. Len(up) = n /\ DOMAIN up = 1..n /\ up = [k \in 1..n |-> up[k]]
  BY <1>1
<1>5. Len(whole) = n /\ DOMAIN whole = 1..n /\ whole = [k \in 1..n |-> whole[k]]
  BY <1>1
<1>6. SplitUp(q) = FlattenSeq(up) /\ Unsplit(q) = FlattenSeq(whole)
  BY DEF SplitUp, Unsplit
<1> HIDE DEF up, whole, n
<1>7. AllSound(FlattenSeq(up)) /\ AllSound(FlattenSeq(whole))
  BY <1>1, <1>2, <1>3, <1>4, <1>5, FlattenSound
<1> QED
  BY <1>6, <1>7

LEMMA SplitExists == ASSUME NEW s, NEW m \in Nat PROVE \E g : SplitOf(s, m, g)
<1> DEFINE G == {k \in 0..m : \E g : SplitOf(s, k, g)}
<1>1. 0 \in G
  <2> DEFINE g == [d \in 0..0 |-> <<s>>]
  <2>1. g = [d \in 0..0 |-> IF d = 0 THEN <<s>> ELSE SplitUp(g[d - 1])]
    OBVIOUS
  <2> HIDE DEF g
  <2>2. SplitOf(s, 0, g)
    BY <2>1 DEF SplitOf
  <2>3. 0 \in 0..m
    OBVIOUS
  <2> QED
    BY <2>2, <2>3
<1>2. ASSUME NEW k \in 1..m, k - 1 \in G PROVE k \in G
  <2>1. PICK f : SplitOf(s, k - 1, f)
    BY <1>2
  <2> DEFINE more == SplitUp(f[k - 1])
             g == [d \in 0..k |-> IF d = k THEN more ELSE f[d]]
  <2>2. ASSUME NEW d \in 0..k PROVE g[d] = IF d = 0 THEN <<s>> ELSE SplitUp(g[d - 1])
    <3>1. CASE d = k
      <4>1. k - 1 \in 0..k /\ k - 1 # k /\ k # 0
        OBVIOUS
      <4>2. g[k - 1] = f[k - 1] /\ g[d] = more
        BY <3>1, <4>1
      <4> QED
        BY <3>1, <4>1, <4>2
    <3>2. CASE d # k
      <4>1. d \in 0..(k - 1)
        BY <3>2
      <4>2. f[d] = IF d = 0 THEN <<s>> ELSE SplitUp(f[d - 1])
        BY <2>1, <4>1 DEF SplitOf
      <4>3. d # 0 => d - 1 \in 0..k /\ d - 1 # k
        BY <4>1
      <4>4. g[d] = f[d] /\ (d # 0 => g[d - 1] = f[d - 1])
        BY <3>2, <4>3
      <4> QED
        BY <4>2, <4>4
    <3> QED
      BY <3>1, <3>2
  <2>3. DOMAIN g = 0..k /\ g = [d \in 0..k |-> g[d]]
    OBVIOUS
  <2> HIDE DEF g
  <2>4. [d \in 0..k |-> g[d]] = [d \in 0..k |-> IF d = 0 THEN <<s>> ELSE SplitUp(g[d - 1])]
    BY <2>2
  <2>5. SplitOf(s, k, g)
    BY <2>3, <2>4 DEF SplitOf
  <2>6. k \in 0..m
    OBVIOUS
  <2> QED
    BY <2>5, <2>6
<1> HIDE DEF G
<1>3. \A k \in 0..m : k \in G
  BY <1>1, <1>2, UpInduct
<1> QED
  BY <1>3 DEF G

\* Whatever a sound strategy is split into is sound, and each share a capital.
LEMMA AccountsSound == ASSUME NEW s, Sound(s) PROVE AllSound(Accounts(s))
<1> DEFINE split == CHOOSE g : SplitOf(s, MaxDepth, g)
           G == {d \in 0..MaxDepth : AllSound(split[d])}
<1>1. MaxDepth \in Nat
  BY BacktestAssumption
<1>2. SplitOf(s, MaxDepth, split)
  BY <1>1, SplitExists
<1>3. Accounts(s) = Unsplit(split[MaxDepth])
  BY DEF Accounts, SplitOf, SplitUp, Unsplit
<1> HIDE DEF split
<1>4. \A d \in 0..MaxDepth : split[d] = IF d = 0 THEN <<s>> ELSE SplitUp(split[d - 1])
  BY <1>2 DEF SplitOf
<1>5. 0 \in G
  <2>1. 0 \in 0..MaxDepth
    BY <1>1
  <2>2. split[0] = <<s>>
    BY <1>4, <2>1
  <2>3. AllSound(<<s>>)
    BY OneSound
  <2> QED
    BY <2>1, <2>2, <2>3
<1>6. ASSUME NEW d \in 1..MaxDepth, d - 1 \in G PROVE d \in G
  <2>1. d \in 0..MaxDepth /\ d # 0
    BY <1>1
  <2>2. split[d] = SplitUp(split[d - 1])
    BY <1>4, <2>1
  <2>3. AllSound(SplitUp(split[d - 1]))
    BY <1>6, SplitUpSound
  <2> QED
    BY <2>1, <2>2, <2>3
<1> HIDE DEF G
<1>7. \A d \in 0..MaxDepth : d \in G
  BY <1>1, <1>5, <1>6, UpInduct
<1>8. MaxDepth \in G
  <2>1. MaxDepth \in 0..MaxDepth
    BY <1>1
  <2> QED
    BY <1>7, <2>1
<1>9. AllSound(split[MaxDepth])
  BY <1>8 DEF G
<1>10. AllSound(Unsplit(split[MaxDepth]))
  BY <1>9, SplitUpSound
<1> QED
  BY <1>3, <1>10

---------------------------------------------------------------------------
(* A strategy that is configured and valid is sound.                       *)
LEMMA ContextSound ==
  ASSUME NEW n \in DOMAIN Setups, Valid(Setups[n])
  PROVE  Sound(WithContext(Setups[n]))
<1> DEFINE s == Setups[n]
           c == WithContext(s)
<1>1. Configured(s) /\ Valid(s)
  BY BacktestAssumption
<1> HIDE DEF s
<1>2. Parameters \subseteq DOMAIN c
  BY <1>1 DEF WithContext, Configured
<1>3. \A f \in Parameters : c[f] = s[f]
  BY <1>1 DEF WithContext, Configured, Parameters
<1> HIDE DEF c
<1>4. /\ c.engine = s.engine /\ c.tree = s.tree /\ c.capital = s.capital /\ c.risk = s.risk /\ c.seed = s.seed /\ c.gap = s.gap
      /\ c.exec = s.exec /\ c.sizing = s.sizing /\ c.funding = s.funding /\ c.leverage = s.leverage
  BY <1>3 DEF Parameters
<1>5. TreeOK(s.tree)
  BY <1>1 DEF Valid, ValidateRootNode, Configured, TreeOK, Deepest
<1>6. LaddersOK(s.risk.L)
  <2>1. TypedRisk(s.risk) /\ ValidLadders(s.risk.L)
    BY <1>1 DEF Valid, Configured
  <2> QED
    BY <2>1 DEF TypedRisk, ValidLadders, LaddersOK, Adding
<1>7. AccountOK(s)
  BY <1>1, <1>5, <1>6 DEF Configured, AccountOK, Executing
<1>8. AccountOK(c)
  BY <1>4, <1>7 DEF AccountOK
<1>9. Sound(c)
  BY <1>2, <1>8 DEF Sound
<1> QED
  BY <1>9 DEF c, s

---------------------------------------------------------------------------
(* The book an account begins with, and what a book is good for.           *)
BookFor(b, a) == IF a.engine = "short" THEN ShortBook(b) ELSE LongBook(b, a)

LEMMA NewBookIn ==
  ASSUME NEW a, AccountOK(a)
  PROVE  LET b == NewBook(a)
         IN  /\ b \in BookSet /\ b.trades = <<>> /\ b.pending = NoPending /\ b.pos = NoPosition /\ b.short = NoShort
             /\ b.held = a.seed.qty /\ (b.held > 0 => b.avg = Price(a.seed.price)) /\ (b.held > 0 => ~Laddered(a.risk))
<1> DEFINE cash == 100 * a.capital
           empty == [cash |-> cash, held |-> 0, avg |-> Price(0), pos |-> NoPosition, short |-> NoShort, pending |-> NoPending, trades |-> <<>>]
           held == a.seed.qty
           avg == Price(a.seed.price)
           left == cash - a.seed.qty * a.seed.price * (100 + Commission)
           b == NewBook(a)
<1>1. a.capital \in Nat /\ held \in Nat /\ a.seed.price \in Nat /\ (held > 0 => ~Laddered(a.risk))
  BY DEF AccountOK
<1>2. cash \in Int /\ avg \in Fractions
  BY <1>1 DEF Price, Fractions
<1>3. left \in Int
  BY <1>1, <1>2, CashIn
<1>4. b = IF held = 0 \/ Laddered(a.risk) THEN empty ELSE [empty EXCEPT !.held = held, !.avg = avg, !.cash = left]
  BY DEF NewBook
<1>5. <<>> \in Seq(Booked)
  OBVIOUS
<1> HIDE DEF b, cash, left, avg, held
<1>6. empty \in BookSet
  BY <1>2, <1>5, NothingIn DEF BookSet
<1>7. empty.trades = <<>> /\ empty.pending = NoPending /\ empty.pos = NoPosition /\ empty.short = NoShort /\ empty.held = 0
  OBVIOUS
<1> HIDE DEF empty
<1>8. CASE held = 0 \/ Laddered(a.risk)
  <2>1. b = empty /\ held = 0
    BY <1>1, <1>4, <1>8
  <2> QED
    BY <1>6, <1>7, <2>1 DEF b, held, avg
<1>9. CASE ~(held = 0 \/ Laddered(a.risk))
  <2>1. b = [empty EXCEPT !.held = held, !.avg = avg, !.cash = left]
    BY <1>4, <1>9
  <2>2. held \in Int
    BY <1>1
  <2>3. /\ b \in BookSet /\ b.trades = empty.trades /\ b.pending = empty.pending /\ b.pos = empty.pos /\ b.short = empty.short
        /\ b.held = held /\ b.avg = avg
    BY <1>2, <1>3, <1>6, <2>1, <2>2 DEF BookSet
  <2> QED
    BY <1>7, <1>9, <2>3 DEF b, held, avg
<1> QED
  BY <1>8, <1>9

LEMMA NewBookFor == ASSUME NEW a, AccountOK(a) PROVE BookFor(NewBook(a), a)
<1> DEFINE b == NewBook(a)
<1>1. /\ b \in BookSet /\ b.trades = <<>> /\ b.pending = NoPending /\ b.pos = NoPosition /\ b.short = NoShort
      /\ b.held = a.seed.qty /\ (b.held > 0 => b.avg = Price(a.seed.price)) /\ (b.held > 0 => ~Laddered(a.risk))
  BY NewBookIn
<1> HIDE DEF b
<1>2. ShortBook(b)
  BY <1>1 DEF ShortBook
<1>3. b.held \in Nat
  BY <1>1 DEF AccountOK
<1>4. DerivePosition(b.trades, Seed(a)) = Seed(a)
  BY <1>1, SeedIn, DeriveNone
<1>5. Fits(DerivePosition(b.trades, Seed(a)), b.held, b.avg)
  BY <1>1, <1>4 DEF Fits, Seed
<1>6. Positioned(b, a) /\ Waiting(b)
  BY <1>1 DEF Positioned, Waiting, OnLadders
<1>7. LongBook(b, a)
  BY <1>1, <1>3, <1>5, <1>6 DEF LongBook
<1>8. BookFor(b, a)
  BY <1>2, <1>7 DEF BookFor
<1> QED
  BY <1>8 DEF b

LEMMA BookForOK == ASSUME NEW a, NEW b, BookFor(b, a) PROVE BookOK(b) /\ b \in BookSet
<1>1. b \in BookSet
  BY DEF BookFor, ShortBook, LongBook
<1>2. b.cash \in Int /\ b.held \in Int /\ b.avg \in Fractions /\ b.pending \in Pendings /\ b.trades \in Seq(Booked)
  BY <1>1, BookIs
<1>3. b.avg[1] \in Nat /\ b.avg[2] \in Nat \ {0}
  BY <1>2 DEF Fractions
<1>4. b.pending.bar \in 0..Length /\ b.pending.qty \in Nat
  BY <1>2 DEF Pendings
<1>5. (b.held = 0 \/ b.pending = NoPending) /\ (b.pos # NoPosition => b.pos.left = b.held)
  BY DEF BookFor, ShortBook, LongBook, Waiting, Positioned
<1>6. b.short # NoShort => b.short.qty = 0 - b.held
  BY DEF BookFor, ShortBook, LongBook
<1>7. ASSUME NEW k \in 1..Len(b.trades) PROVE b.trades[k].qty > 0 /\ b.trades[k].price > 0 /\ b.trades[k].bar \in 1..Length
  <2>1. b.trades[k] \in Booked
    BY <1>2
  <2> QED
    BY <2>1 DEF Booked, Fills, Sizes
<1> QED
  BY <1>1, <1>2, <1>3, <1>4, <1>5, <1>6, <1>7 DEF BookOK

---------------------------------------------------------------------------
(* The stop of a position that is held over a bar.                         *)

\* A book that stays as it is.
LEMMA StaysTight == ASSUME NEW b \in BookSet PROVE StopTightens(b, b)
<1>1. b.pos \in Positions /\ b.short \in Shorts
  BY BookIs
<1>2. Fixed(b.pos) \in Signed /\ Trailing(b.pos) \in Signed /\ LongStop(b) = Higher(Fixed(b.pos), Trailing(b.pos))
  BY <1>1, StopsAre DEF LongStop
<1>3. LongStop(b) \in Signed
  BY <1>2, HigherIs
<1>4. Leq(LongStop(b), LongStop(b))
  BY <1>3, LeqEither
<1>5. /\ b.short.avg \in Fractions /\ b.short.sl \in Nat /\ b.short.trail \in Nat /\ b.short.trough \in Int
      /\ b.short.trough <= b.short.trough
  BY <1>1 DEF Shorts
<1>6. Leq(ShortStop(b), ShortStop(b))
  BY <1>5, ShortStopFalls DEF ShortStop
<1> QED
  BY <1>4, <1>6 DEF StopTightens

\* Without a position of the ladder before or after the bar there is nothing
\* to loosen in an account that buys.
LEMMA NothingToLoosen ==
  ASSUME NEW b, NEW c, b.short = NoShort, b.pos = NoPosition \/ c.pos = NoPosition
  PROVE  StopTightens(b, c)
BY DEF StopTightens

\* A bar of the ladder follows the position it holds, and one that holds
\* nothing has no position.
LEMMA LadderTight ==
  ASSUME NEW a, AccountOK(a), OnLadders(a), NEW b, LongBook(b, a), NEW bars \in Paths, NEW i \in 1..Length, i <= Len(bars), NEW s
  PROVE  StopTightens(b, LadderPath(b, a, bars, i, s))
<1> DEFINE price == bars[i].close
           sell == Firing(s, "sell", a, bars, i) # {}
           tick == EvaluateLadderTick(b.pos, price, a.risk.L, sell, Over(price))
           next == tick.next
           c == LadderPath(b, a, bars, i, s)
<1>1. b \in BookSet /\ b.held \in Nat /\ b.short = NoShort /\ b.pos \in Positions
  BY BookIs DEF LongBook
<1>2. CASE b.held = 0
  <2>1. b.pos = NoPosition
    BY <1>2 DEF LongBook, Positioned
  <2> QED
    BY <1>1, <2>1, NothingToLoosen
<1>3. CASE b.pos = NoPosition
  BY <1>1, <1>3, NothingToLoosen
<1>4. CASE b.held # 0 /\ b.pos # NoPosition
  <2>1. b.held > 0 /\ b.pos.left = b.held /\ b.pos.avg = b.avg
    BY <1>1, <1>4 DEF LongBook, Positioned
  <2>2. price \in Nat /\ Over(price) \in Sizes /\ Under(price) \in Sizes /\ LaddersOK(a.risk.L) /\ i \in Nat
    BY BarsAre, QuotesIn, OverIn, NatBar DEF AccountOK
  <2>3. b.pos.left > 0
    BY <2>1
  <2>4. next \in Positions
    BY <1>1, <2>2, <2>3, TickDecides DEF Decides
  <2>5. next.left # 0 => Follows(b.pos, next)
    BY <1>1, <2>2, TickFollows
  <2>6. c = LadderExits(b, price, i, tick)
    <3> DEFINE buys == Firing(s, "buy", a, bars, i)
               sl == Or(s.sl, a.risk.sl)
    <3>1. c = CASE b.held > 0  -> LadderExits(b, price, i, tick)
                [] b.held <= 0 /\ buys # {} -> LadderEntry(b, a, bars, i, s.rules[Min(buys)], sl)
                [] OTHER       -> b
      BY DEF LadderPath
    <3> HIDE DEF c, buys, sl, tick, price
    <3> QED
      BY <1>1, <2>1, <3>1
  <2>7. b \in Kept(b, a) /\ Decides(b.pos, Under(price), Over(price), i, tick)
    BY <1>1, <2>2, <2>3, KeptSelf, TickDecides
  <2> HIDE DEF tick, price
  <2>8. price \in Quotes
    BY BarsAre DEF price
  <2>9. Carries(LadderExits(b, price, i, tick), tick)
    BY <1>1, <2>1, <2>7, <2>8, LadderExitsIn
  <2>10. c.pos = NoPosition \/ (next.left # 0 /\ c.pos = next /\ c.avg = next.avg)
    BY <2>6, <2>9 DEF Carries
  <2> HIDE DEF c, next
  <2>11. CASE c.pos = NoPosition
    <3>1. StopTightens(b, c)
      BY <1>1, <2>11, NothingToLoosen
    <3> QED
      BY <3>1 DEF c
  <2>12. CASE next.left # 0 /\ c.pos = next /\ c.avg = next.avg
    <3>1. Leq(b.avg, c.avg) /\ LongStop(b)[1] > 0 => Leq(LongStop(b), LongStop(c))
      BY <1>1, <2>1, <2>4, <2>5, <2>12, LongStopRises DEF LongStop
    <3>2. StopTightens(b, c)
      BY <1>1, <3>1 DEF StopTightens
    <3> QED
      BY <3>2 DEF c
  <2> QED
    BY <2>10, <2>11, <2>12
<1> QED
  BY <1>2, <1>3, <1>4

\* A tick of a short position moves nothing of its stop but the trough, down.
LEMMA ShortTickFollows ==
  ASSUME NEW pos \in Shorts, NEW price \in Nat, NEW cover, NEW funding \in Int
  PROVE  LET next == EvaluateShortTick(pos, price, cover, funding).next
         IN  next.avg = pos.avg /\ next.sl = pos.sl /\ next.trail = pos.trail /\ next.trough \in Int /\ next.trough <= pos.trough
<1> DEFINE trough == IF price < pos.trough THEN price ELSE pos.trough
           next == [pos EXCEPT !.trough = trough, !.funding = @ + funding]
<1>1. EvaluateShortTick(pos, price, cover, funding).next = next
  BY DEF EvaluateShortTick
<1>2. trough \in Int /\ trough <= pos.trough
  BY DEF Shorts
<1> HIDE DEF trough
<1>3. next.avg = pos.avg /\ next.sl = pos.sl /\ next.trail = pos.trail /\ next.trough = trough
  BY DEF Shorts
<1> HIDE DEF next
<1> QED
  BY <1>1, <1>2, <1>3

\* What opens a short position is a trade.
LEMMA ShortEntryTrades ==
  ASSUME NEW b \in BookSet, NEW a, NEW price, NEW qty, NEW i, NEW sell
  PROVE  ShortEntry(b, a, price, qty, i, sell) = b \/ Len(ShortEntry(b, a, price, qty, i, sell).trades) = Len(b.trades) + 1
<1> DEFINE pos == OpenShort(price, qty, a.risk.sl, a.risk.tp, a.risk.trail, a.leverage)
           t == Trade("sell", price, qty, i)
           c == [b EXCEPT !.held = 0 - qty, !.trades = Append(@, t), !.short = pos]
<1>1. ShortEntry(b, a, price, qty, i, sell) = b \/ ShortEntry(b, a, price, qty, i, sell) = c
  BY DEF ShortEntry
<1> HIDE DEF pos, t
<1>2. c.trades = Append(b.trades, t)
  BY DEF BookSet
<1>3. Len(Append(b.trades, t)) = Len(b.trades) + 1
  BY BookIs
<1> HIDE DEF c
<1> QED
  BY <1>1, <1>2, <1>3

\* What covers one is a trade too; a bar that trades nothing has a tick behind it.
LEMMA ShortTight ==
  ASSUME NEW a, AccountOK(a), NEW b, ShortBook(b), NEW bars \in Paths, NEW i \in 1..Length, i <= Len(bars), NEW active
  PROVE  StopTightens(b, ShortPath(b, a, bars, i, active))
<1> DEFINE cover == Firing(active, "buy", a, bars, i) # {}
           sell == Firing(active, "sell", a, bars, i) # {}
           price == bars[i].close
           funding == Funding(b, a)
           tick == EvaluateShortTick(b.short, price, cover, funding)
           after == IF b.short = NoShort THEN b ELSE ShortExit(b, price, i, tick)
           qty == ShortQty(a, Under(price))
           c == ShortPath(b, a, bars, i, active)
<1>1. b \in BookSet /\ b.pos = NoPosition /\ b.short \in Shorts /\ Len(b.trades) \in Nat
  BY BookIs, SeqIs DEF ShortBook
<1>2. price \in Quotes /\ price \in Nat /\ funding \in Int
  BY <1>1, BarsAre, QuotesIn, FundingIn
<1>3. c = ShortEntry(after, a, Under(price), qty, i, sell /\ ~cover)
  BY DEF ShortPath, ShortSignals
<1>4. after \in BookSet
  <2>1. ShortBook(after)
    BY <1>2, ShortExitIn
  <2> QED
    BY <2>1 DEF ShortBook
<1> HIDE DEF c, qty, funding
<1> SUFFICES ASSUME b.short # NoShort, c.short # NoShort, c.short.avg = b.short.avg, Len(c.trades) = Len(b.trades)
             PROVE  Leq(ShortStop(c), ShortStop(b))
  BY <1>1 DEF StopTightens, c
<1>5. after = ShortExit(b, price, i, tick)
  OBVIOUS
<1>6. tick.next.avg = b.short.avg /\ tick.next.sl = b.short.sl /\ tick.next.trail = b.short.trail
      /\ tick.next.trough \in Int /\ tick.next.trough <= b.short.trough
  BY <1>1, <1>2, ShortTickFollows
<1> HIDE DEF tick, after, price, cover, sell
<1>7. Len(after.trades) = Len(b.trades) + 1 \/ (after.short = tick.next /\ after.trades = b.trades)
  <2> DEFINE t == Trade("buy", Over(price), b.short.qty, i)
             cash == b.cash + ShortNet(b, Over(price), tick.next.funding)
             out == [b EXCEPT !.cash = cash, !.held = 0, !.short = NoShort, !.trades = Append(b.trades, t)]
             on == [b EXCEPT !.short = tick.next]
  <2>1. ShortExit(b, price, i, tick) = IF ~tick.exit THEN on ELSE out
    BY DEF ShortExit
  <2> HIDE DEF t, cash
  <2>2. out.trades = Append(b.trades, t) /\ on.short = tick.next /\ on.trades = b.trades
    BY <1>1 DEF BookSet
  <2>3. Len(Append(b.trades, t)) = Len(b.trades) + 1
    BY <1>1, BookIs
  <2> HIDE DEF out, on
  <2> QED
    BY <1>5, <2>1, <2>2, <2>3
<1>8. c = after \/ Len(c.trades) = Len(after.trades) + 1
  BY <1>3, <1>4, ShortEntryTrades
<1>9. c.short = tick.next
  BY <1>1, <1>7, <1>8
<1>10. b.short.avg \in Fractions /\ b.short.sl \in Nat /\ b.short.trail \in Nat /\ b.short.trough \in Int
  BY <1>1 DEF Shorts
<1>11. Leq(EffectiveShortStop(tick.next, tick.next.trough), EffectiveShortStop(b.short, b.short.trough))
  BY <1>6, <1>10, ShortStopFalls
<1> QED
  BY <1>9, <1>11 DEF ShortStop

---------------------------------------------------------------------------
(* A bar, whatever part of the engine it goes through, keeps the book good *)
(* and, of an account that buys, what it paid for, and loosens no stop.    *)
Continues(b, c, a) == BookFor(c, a) /\ (a.engine # "short" => PaidSince(b, a, c.cash, c.held, c.trades)) /\ StopTightens(b, c)

LEMMA ContinuesLong ==
  ASSUME NEW a, AccountOK(a), a.engine # "short", NEW b, NEW c \in Kept(b, a), StopTightens(b, c)
  PROVE  Continues(b, c, a)
BY KeptIs DEF Continues, BookFor

LEMMA PartsAre ==
  ASSUME NEW a, AccountOK(a), NEW b, BookFor(b, a), NEW i \in 1..Length
  PROVE  /\ Part(b, a, i) = "open" => b.pending.bar = i /\ a.engine # "short"
         /\ Part(b, a, i) = "plain" => a.engine = "plain"
         /\ Part(b, a, i) = "short" => a.engine = "short"
         /\ Part(b, a, i) = "ladder" => a.engine = "trees" /\ Laddered(a.risk)
         /\ Part(b, a, i) = "simple" => a.engine = "trees" /\ ~Laddered(a.risk)
<1>1. b.pending.bar \in Nat /\ i \in Nat /\ i >= 1
  BY BookForOK, BacktestAssumption DEF BookOK
<1>2. a.engine = "short" => b.pending.bar = 0
  BY NothingIn DEF BookFor, ShortBook
<1>3. a.engine \in {"trees", "plain", "short"}
  BY DEF AccountOK
<1>4. CASE b.pending.bar > i
  <2>1. Part(b, a, i) = "wait"
    BY <1>1, <1>4 DEF Part
  <2> QED
    BY <2>1
<1>5. CASE b.pending.bar = i
  <2>1. Part(b, a, i) = "open"
    BY <1>1, <1>5 DEF Part
  <2> QED
    BY <1>1, <1>2, <1>5, <2>1
<1>6. CASE b.pending.bar < i
  <2>1. Part(b, a, i) = IF a.engine # "trees" THEN a.engine ELSE IF Laddered(a.risk) THEN "ladder" ELSE "simple"
    BY <1>1, <1>6 DEF Part
  <2> QED
    BY <1>3, <2>1
<1> QED
  BY <1>1, <1>4, <1>5, <1>6

LEMMA WaitContinues == ASSUME NEW a, AccountOK(a), NEW b, BookFor(b, a) PROVE Continues(b, b, a)
<1>0. StopTightens(b, b)
  BY BookForOK, StaysTight
<1>1. CASE a.engine = "short"
  BY <1>0, <1>1 DEF Continues
<1>2. CASE a.engine # "short"
  <2>1. LongBook(b, a)
    BY <1>2 DEF BookFor
  <2> QED
    BY <1>0, <1>2, <2>1, KeptSelf, ContinuesLong
<1> QED
  BY <1>1, <1>2

LEMMA OpenContinues ==
  ASSUME NEW a, AccountOK(a), NEW b, BookFor(b, a), NEW i \in 1..Length, Part(b, a, i) = "open"
  PROVE  Continues(b, OpenedPending(b, a, i), a)
<1>1. b.pending.bar = i /\ a.engine # "short"
  BY PartsAre
<1>2. LongBook(b, a) /\ b \in BookSet
  BY <1>1, BookForOK DEF BookFor
<1>3. OpenedPending(b, a, i) \in Kept(b, a)
  BY <1>1, <1>2, KeptSelf, OpenedPendingIn
<1>4. b.pos = NoPosition /\ b.short = NoShort
  <2>1. b.pending # NoPending
    BY <1>1, NothingIn, NatBar
  <2> QED
    BY <1>2, <2>1 DEF LongBook, Waiting, Positioned
<1>5. StopTightens(b, OpenedPending(b, a, i))
  BY <1>4, NothingToLoosen
<1> QED
  BY <1>1, <1>3, <1>5, ContinuesLong

LEMMA PlainContinues ==
  ASSUME NEW a, AccountOK(a), NEW b, BookFor(b, a), NEW bars \in Paths, NEW i \in 1..Length, i <= Len(bars), Part(b, a, i) = "plain"
  PROVE  Continues(b, PlainPath(b, a, bars, i), a)
<1>1. a.engine = "plain" /\ a.engine # "short" /\ ~OnLadders(a)
  BY PartsAre DEF OnLadders
<1>2. LongBook(b, a) /\ b \in BookSet
  BY <1>1, BookForOK DEF BookFor
<1>3. PlainPath(b, a, bars, i) \in Kept(b, a)
  BY <1>1, <1>2, KeptSelf, PlainPathIn
<1>4. StopTightens(b, PlainPath(b, a, bars, i))
  BY <1>1, <1>2, NothingToLoosen DEF LongBook, Positioned
<1> QED
  BY <1>1, <1>3, <1>4, ContinuesLong

LEMMA ShortContinues ==
  ASSUME NEW a, AccountOK(a), NEW b, BookFor(b, a), NEW bars \in Paths, NEW i \in 1..Length, i <= Len(bars), Part(b, a, i) = "short", NEW active
  PROVE  Continues(b, ShortPath(b, a, bars, i, active), a)
<1>1. a.engine = "short"
  BY PartsAre
<1>2. ShortBook(b)
  BY <1>1 DEF BookFor
<1>3. ShortBook(ShortPath(b, a, bars, i, active))
  BY <1>2, ShortPathIn
<1>4. StopTightens(b, ShortPath(b, a, bars, i, active))
  BY <1>2, ShortTight
<1> QED
  BY <1>1, <1>3, <1>4 DEF Continues, BookFor

LEMMA LadderContinues ==
  ASSUME NEW a, AccountOK(a), NEW b, BookFor(b, a), NEW bars \in Paths, NEW i \in 1..Length, i <= Len(bars), Part(b, a, i) = "ladder",
         NEW active, StrategyOK(active)
  PROVE  Continues(b, LadderPath(b, a, bars, i, active), a)
<1>1. a.engine # "short" /\ OnLadders(a)
  BY PartsAre DEF OnLadders
<1>2. LongBook(b, a) /\ b \in BookSet
  BY <1>1, BookForOK DEF BookFor
<1>3. LadderPath(b, a, bars, i, active) \in Kept(b, a)
  BY <1>1, <1>2, KeptSelf, LadderPathIn
<1>4. StopTightens(b, LadderPath(b, a, bars, i, active))
  BY <1>1, <1>2, LadderTight
<1> QED
  BY <1>1, <1>3, <1>4, ContinuesLong

LEMMA SimpleContinues ==
  ASSUME NEW a, AccountOK(a), NEW b, BookFor(b, a), NEW bars \in Paths, NEW i \in 1..Length, i <= Len(bars), Part(b, a, i) = "simple",
         NEW active, StrategyOK(active)
  PROVE  Continues(b, SimplePath(b, a, bars, i, active), a)
<1>1. a.engine # "short" /\ ~OnLadders(a)
  BY PartsAre DEF OnLadders
<1>2. LongBook(b, a) /\ b \in BookSet
  BY <1>1, BookForOK DEF BookFor
<1>3. SimplePath(b, a, bars, i, active) \in Kept(b, a)
  BY <1>1, <1>2, KeptSelf, SimplePathIn
<1>4. StopTightens(b, SimplePath(b, a, bars, i, active))
  BY <1>1, <1>2, NothingToLoosen DEF LongBook, Positioned
<1> QED
  BY <1>1, <1>3, <1>4, ContinuesLong

---------------------------------------------------------------------------
(* The inductive invariant: the path is of bars, every account is sound,   *)
(* and every book is good for its account.                                 *)
EachKept == \A k \in 1..Len(books) : BookFor(books[k], accounts[k])
IInv ==
  /\ path \in [1..Length -> DOMAIN Kinds]
  /\ AllSound(accounts)
  /\ books \in Seq(BookSet) /\ Len(books) = Len(accounts)
  /\ at \in [account : 1..(Len(books) + 1), bar : 1..Length]
  /\ EachKept

LEMMA InitKept == Init => IInv
<1> SUFFICES ASSUME Init PROVE IInv
  OBVIOUS
<1>1. PICK n \in DOMAIN Setups : Valid(Setups[n]) /\ accounts = Accounts(WithContext(Setups[n]))
  BY DEF Init
<1>2. AllSound(accounts)
  BY <1>1, ContextSound, AccountsSound
<1>3. Len(accounts) \in Nat /\ \A k \in 1..Len(accounts) : Sound(accounts[k])
  BY <1>2, SoundAll
<1>4. books = [k \in 1..Len(accounts) |-> NewBook(accounts[k])]
  BY DEF Init
<1>5. \A k \in 1..Len(accounts) : BookFor(NewBook(accounts[k]), accounts[k]) /\ NewBook(accounts[k]) \in BookSet
  BY <1>3, NewBookFor, BookForOK DEF Sound
<1>6. books \in Seq(BookSet) /\ Len(books) = Len(accounts)
  BY <1>3, <1>4, <1>5
<1>7. EachKept
  BY <1>4, <1>5, <1>6 DEF EachKept
<1>8. at \in [account : 1..(Len(books) + 1), bar : 1..Length]
  <2>1. at = [account |-> 1, bar |-> 1] /\ Len(books) \in Nat /\ 1 \in 1..Length
    BY <1>3, <1>6, BacktestAssumption DEF Init
  <2> QED
    BY <2>1
<1> QED
  BY <1>2, <1>6, <1>7, <1>8 DEF IInv, Init

LEMMA BarsIn == ASSUME IInv PROVE Bars \in Paths /\ Len(Bars) = Length
<1>1. path \in [1..Length -> DOMAIN Kinds] /\ Length \in Nat
  BY BacktestAssumption DEF IInv
<1>2. Len(path) = Length
  BY <1>1
<1>3. \A i \in 1..Length : Kinds[path[i]] \in Candles
  BY <1>1, BacktestAssumption DEF Candles
<1>4. Bars \in Seq(Candles) /\ Len(Bars) = Length
  BY <1>1, <1>2, <1>3 DEF Bars
<1>5. Length \in 1..Length
  BY BacktestAssumption
<1> QED
  BY <1>4, <1>5 DEF Paths

LEMMA AtBook ==
  ASSUME IInv, Running
  PROVE  at.account \in 1..Len(books) /\ at.bar \in 1..Length /\ AccountOK(Acct) /\ BookFor(Book, Acct)
<1>1. at.account \in 1..Len(books) /\ at.bar \in 1..Length
  BY DEF IInv, Running
<1>2. Sound(accounts[at.account])
  BY <1>1, SoundAll DEF IInv
<1>3. BookFor(books[at.account], accounts[at.account])
  BY <1>1 DEF IInv, EachKept
<1> QED
  BY <1>1, <1>2, <1>3 DEF Acct, Book, Sound

\* What a step leaves alone, and what becomes of the book it is at.
Moved ==
  /\ at' = IF at.bar < Length THEN [at EXCEPT !.bar = @ + 1] ELSE [account |-> at.account + 1, bar |-> 1]
  /\ UNCHANGED <<path, accounts>>

LEMMA NextBooks ==
  ASSUME IInv, Next
  PROVE  Running /\ Moved /\ \E c : books' = [books EXCEPT ![at.account] = c] /\ Continues(Book, c, Acct)
<1>1. ASSUME NEW part, NEW c, Step(part, c), Continues(Book, c, Acct)
      PROVE  Running /\ Moved /\ \E d : books' = [books EXCEPT ![at.account] = d] /\ Continues(Book, d, Acct)
  BY <1>1 DEF Step, Moved
<1>2. Running
  BY DEF Next, WaitForFill, OpenPending, StepPlain, StepShort, StepLadder, StepSimple, Step
<1>3. at.bar \in 1..Length /\ at.bar <= Len(Bars) /\ AccountOK(Acct) /\ BookFor(Book, Acct) /\ Bars \in Paths
  <2>1. at.bar \in 1..Length /\ Len(Bars) = Length
    BY <1>2, AtBook, BarsIn
  <2> QED
    BY <1>2, <2>1, AtBook, BarsIn
<1>4. StrategyOK(Active(Acct, Bars, at.bar))
  BY <1>3, ActiveOK
<1>5. CASE WaitForFill
  <2>1. Continues(Book, Book, Acct)
    BY <1>3, WaitContinues
  <2> QED
    BY <1>1, <1>5, <2>1 DEF WaitForFill
<1>6. CASE OpenPending
  <2>1. Part(Book, Acct, at.bar) = "open"
    BY <1>6 DEF OpenPending, Step
  <2>2. Continues(Book, OpenedPending(Book, Acct, at.bar), Acct)
    BY <1>3, <2>1, OpenContinues
  <2> QED
    BY <1>1, <1>6, <2>2 DEF OpenPending
<1>7. CASE StepPlain
  <2>1. Part(Book, Acct, at.bar) = "plain"
    BY <1>7 DEF StepPlain, Step
  <2>2. Continues(Book, PlainPath(Book, Acct, Bars, at.bar), Acct)
    BY <1>3, <2>1, PlainContinues
  <2> QED
    BY <1>1, <1>7, <2>2 DEF StepPlain
<1>8. CASE StepShort
  <2>1. Part(Book, Acct, at.bar) = "short"
    BY <1>8 DEF StepShort, Step
  <2>2. Continues(Book, ShortPath(Book, Acct, Bars, at.bar, Active(Acct, Bars, at.bar)), Acct)
    BY <1>3, <2>1, ShortContinues
  <2> QED
    BY <1>1, <1>8, <2>2 DEF StepShort
<1>9. CASE StepLadder
  <2>1. Part(Book, Acct, at.bar) = "ladder"
    BY <1>9 DEF StepLadder, Step
  <2>2. Continues(Book, LadderPath(Book, Acct, Bars, at.bar, Active(Acct, Bars, at.bar)), Acct)
    BY <1>3, <1>4, <2>1, LadderContinues
  <2> QED
    BY <1>1, <1>9, <2>2 DEF StepLadder
<1>10. CASE StepSimple
  <2>1. Part(Book, Acct, at.bar) = "simple"
    BY <1>10 DEF StepSimple, Step
  <2>2. Continues(Book, SimplePath(Book, Acct, Bars, at.bar, Active(Acct, Bars, at.bar)), Acct)
    BY <1>3, <1>4, <2>1, SimpleContinues
  <2> QED
    BY <1>1, <1>10, <2>2 DEF StepSimple
<1> QED
  BY <1>5, <1>6, <1>7, <1>8, <1>9, <1>10 DEF Next

LEMMA NextKept == IInv /\ [Next]_vars => IInv'
<1> SUFFICES ASSUME IInv, [Next]_vars PROVE IInv'
  OBVIOUS
<1>1. CASE UNCHANGED vars
  BY <1>1 DEF IInv, EachKept, vars
<1>2. CASE Next
  <2>1. Running /\ Moved
    BY <1>2, NextBooks
  <2>2. PICK c : books' = [books EXCEPT ![at.account] = c] /\ Continues(Book, c, Acct)
    BY <1>2, NextBooks
  <2>3. at.account \in 1..Len(books) /\ at.bar \in 1..Length
    BY <2>1, AtBook
  <2>4. c \in BookSet /\ BookFor(c, Acct)
    BY <2>2, BookForOK DEF Continues
  <2>5. books' \in Seq(BookSet) /\ Len(books') = Len(books) /\ Len(books) \in Nat
    BY <2>2, <2>3, <2>4 DEF IInv
  <2>6. accounts' = accounts /\ path' = path
    BY <2>1 DEF Moved
  <2>7. EachKept'
    <3>1. \A k \in 1..Len(books) : BookFor(books'[k], accounts[k])
      <4>1. TAKE k \in 1..Len(books)
      <4>2. books'[k] = IF k = at.account THEN c ELSE books[k]
        BY <2>2 DEF IInv
      <4> QED
        BY <2>4, <4>2 DEF IInv, EachKept, Acct
    <3> QED
      BY <2>5, <2>6, <3>1 DEF EachKept
  <2>8. at' \in [account : 1..(Len(books) + 1), bar : 1..Length]
    <3>1. at \in [account : 1..(Len(books) + 1), bar : 1..Length] /\ Length \in Nat /\ 1 \in 1..Length
      BY BacktestAssumption DEF IInv
    <3>2. CASE at.bar < Length
      <4>1. at' = [at EXCEPT !.bar = at.bar + 1]
        BY <2>1, <3>2 DEF Moved
      <4>2. at.bar + 1 \in 1..Length
        BY <2>3, <3>1, <3>2
      <4> QED
        BY <3>1, <4>1, <4>2
    <3>3. CASE ~(at.bar < Length)
      <4>1. at' = [account |-> at.account + 1, bar |-> 1]
        BY <2>1, <3>3 DEF Moved
      <4>2. at.account + 1 \in 1..(Len(books) + 1)
        BY <2>3, <2>5
      <4> QED
        BY <3>1, <4>1, <4>2
    <3> QED
      BY <3>2, <3>3
  <2> QED
    BY <2>5, <2>6, <2>7, <2>8 DEF IInv
<1> QED
  BY <1>1, <1>2

\* Whatever the strategy, however it is split, whatever the bars: the books
\* hold what they can.
THEOREM BacktestTyped == Spec => []TypeOK
<1>1. IInv => TypeOK
  <2> SUFFICES ASSUME IInv PROVE TypeOK
    OBVIOUS
  <2>1. \A k \in 1..Len(books) : BookOK(books[k])
    BY BookForOK DEF IInv, EachKept
  <2> QED
    BY <2>1 DEF IInv, TypeOK
<1> QED
  BY <1>1, InitKept, NextKept, PTL DEF Spec

\* What the engine keeps of a position is what derivePosition reads out of
\* its trades, for every account that buys.
THEOREM AverageDerived == Spec => []AverageIsDerived
<1>1. IInv => AverageIsDerived
  <2> SUFFICES ASSUME IInv PROVE AverageIsDerived
    OBVIOUS
  <2>1. ASSUME NEW k \in Ledgers
        PROVE  Fits(DerivePosition(books[k].trades, Seed(accounts[k])), books[k].held, books[k].avg)
    <3>1. k \in 1..Len(books) /\ accounts[k].engine # "short"
      BY DEF Ledgers
    <3>2. LongBook(books[k], accounts[k])
      BY <3>1 DEF IInv, EachKept, BookFor
    <3> QED
      BY <3>2 DEF LongBook
  <2> QED
    BY <2>1 DEF AverageIsDerived, Fits, Seed
<1> QED
  BY <1>1, InitKept, NextKept, PTL DEF Spec

\* While a position is held no bar moves its stop away from the price, unless
\* it buys more below the average: of a long one of the ladder, whatever its
\* stop, its trail and its levels, and of a short one.
THEOREM StopsNeverLoosen == Spec => StopNeverLoosens
<1> DEFINE All == \A k \in 1..Len(books) : StopTightens(books[k], books'[k])
<1>1. IInv /\ [Next]_vars => [All]_books
  <2> SUFFICES ASSUME IInv, [Next]_vars, books' # books PROVE All
    OBVIOUS
  <2>0. Next
    BY DEF vars
  <2>1. Running
    BY <2>0, NextBooks
  <2>2. PICK c : books' = [books EXCEPT ![at.account] = c] /\ Continues(Book, c, Acct)
    BY <2>0, NextBooks
  <2>3. ASSUME NEW k \in 1..Len(books) PROVE StopTightens(books[k], books'[k])
    <3>1. books'[k] = IF k = at.account THEN c ELSE books[k]
      BY <2>2 DEF IInv
    <3>2. books[k] \in BookSet
      BY DEF IInv
    <3>3. CASE k = at.account
      BY <2>2, <3>1, <3>3 DEF Continues, Book
    <3>4. CASE k # at.account
      BY <3>1, <3>2, <3>4, StaysTight
    <3> QED
      BY <3>3, <3>4
  <2> QED
    BY <2>3
<1>2. StopNeverLoosens <=> [][All]_books
  BY DEF StopNeverLoosens
<1> HIDE DEF All
<1> QED
  BY <1>1, <1>2, InitKept, NextKept, PTL DEF Spec

---------------------------------------------------------------------------
(* The ledger.                                                             *)

\* What was paid for is what the ledger settles: the trades since, at a bar.
Settles(credit, c0, h0, t0, cash, held, trades) ==
  LET new == SubSeq(trades, Len(t0) + 1, Len(trades))
      after == SettledAll(credit, Balance(c0, h0), new)
  IN  t0 # trades /\ IsPrefix(t0, trades) /\ after.ok /\ cash = after.cash /\ held = after.held

LEMMA PaidSettles ==
  ASSUME NEW credit \in BOOLEAN, NEW c0 \in Int, NEW h0 \in Int, NEW t0 \in Seq(Fills), NEW cash, NEW held, NEW trades,
         Paid(credit, c0, h0, t0, cash, held, trades)
  PROVE  (cash = c0 /\ held = h0 /\ trades = t0) \/ Settles(credit, c0, h0, t0, cash, held, trades)
<1>1. PICK new \in Seq(Fills) : trades = t0 \o new /\ SettledAll(credit, Balance(c0, h0), new) = Balance(cash, held)
  BY DEF Paid
<1>2. Balance(c0, h0) \in Balances
  BY DEF Balance, Balances
<1>3. CASE new = <<>>
  <2>1. trades = t0
    BY <1>1, <1>3
  <2>2. Balance(cash, held) = Balance(c0, h0)
    BY <1>1, <1>2, <1>3, SettleNone
  <2>3. cash = c0 /\ held = h0
    <3>1. Balance(cash, held).cash = cash /\ Balance(cash, held).held = held /\ Balance(c0, h0).cash = c0 /\ Balance(c0, h0).held = h0
      BY DEF Balance
    <3> QED
      BY <2>2, <3>1
  <2> QED
    BY <2>1, <2>3
<1>4. CASE new # <<>>
  <2>1. Len(new) \in Nat /\ Len(new) # 0 /\ Len(t0) \in Nat /\ Len(trades) = Len(t0) + Len(new)
    BY <1>1, <1>4
  <2>2. t0 # trades
    BY <2>1
  <2>3. IsPrefix(t0, trades)
    BY <1>1, <2>1 DEF IsPrefix
  <2>4. SubSeq(trades, Len(t0) + 1, Len(trades)) = new
    BY <1>1, <2>1
  <2>5. Balance(cash, held).ok /\ Balance(cash, held).cash = cash /\ Balance(cash, held).held = held
    BY DEF Balance
  <2> QED
    BY <1>1, <2>2, <2>3, <2>4, <2>5 DEF Settles
<1> QED
  BY <1>3, <1>4

CreditOf(k) == k \in Ledgers /\ Credit(accounts[k])

\* The books of an account before and after a step, as its ledger has them.
LEMMA LedgerMoves ==
  ASSUME IInv, Next, NEW k \in Nat
  PROVE  /\ CreditOf(k)' = CreditOf(k)
         /\ \/ LedgerOf(k).cash' = LedgerOf(k).cash /\ LedgerOf(k).held' = LedgerOf(k).held /\ LedgerOf(k).trades' = LedgerOf(k).trades
            \/ Settles(CreditOf(k), LedgerOf(k).cash, LedgerOf(k).held, LedgerOf(k).trades,
                       LedgerOf(k).cash', LedgerOf(k).held', LedgerOf(k).trades')
<1>1. Running /\ Moved
  BY NextBooks
<1>2. PICK c : books' = [books EXCEPT ![at.account] = c] /\ Continues(Book, c, Acct)
  BY NextBooks
<1>3. at.account \in 1..Len(books) /\ AccountOK(Acct) /\ BookFor(Book, Acct)
  BY <1>1, AtBook
<1>4. accounts' = accounts /\ Len(books') = Len(books) /\ DOMAIN books = 1..Len(books)
  BY <1>1, <1>2, <1>3 DEF IInv, Moved
<1>5. Ledgers' = Ledgers
  BY <1>4 DEF Ledgers
<1>6. CreditOf(k)' = CreditOf(k)
  BY <1>4, <1>5 DEF CreditOf
<1>7. CASE k \notin Ledgers
  <2>1. LedgerOf(k) = Idle /\ LedgerOf(k)' = Idle
    BY <1>5, <1>7 DEF LedgerOf, Idle
  <2> QED
    BY <1>6, <2>1
<1>8. CASE k \in Ledgers /\ k # at.account
  <2>1. k \in 1..Len(books) /\ books'[k] = books[k]
    BY <1>2, <1>4, <1>8 DEF Ledgers
  <2>2. LedgerOf(k) = books[k] /\ LedgerOf(k)' = books[k]
    BY <1>5, <1>8, <2>1 DEF LedgerOf
  <2> QED
    BY <1>6, <2>2
<1>9. CASE k \in Ledgers /\ k = at.account
  <2>1. books'[k] = c /\ Acct.engine # "short" /\ Book = books[k] /\ Acct = accounts[k]
    BY <1>2, <1>3, <1>4, <1>9 DEF Ledgers, Book, Acct
  <2>2. LedgerOf(k) = Book /\ LedgerOf(k)' = c
    BY <1>5, <1>9, <2>1 DEF LedgerOf
  <2>3. CreditOf(k) = Credit(Acct) /\ Credit(Acct) \in BOOLEAN
    BY <1>3, <1>9, <2>1, SeedIn DEF CreditOf
  <2>4. Paid(Credit(Acct), Book.cash, Book.held, Book.trades, c.cash, c.held, c.trades)
    BY <1>2, <2>1 DEF Continues, PaidSince
  <2>5. Book.cash \in Int /\ Book.held \in Int /\ Book.trades \in Seq(Fills)
    BY <1>3, BookForOK, BookIs
  <2>6. \/ c.cash = Book.cash /\ c.held = Book.held /\ c.trades = Book.trades
        \/ Settles(Credit(Acct), Book.cash, Book.held, Book.trades, c.cash, c.held, c.trades)
    BY <2>3, <2>4, <2>5, PaidSettles
  <2> QED
    BY <1>6, <2>2, <2>3, <2>6
<1> QED
  BY <1>7, <1>8, <1>9

LEMMA LedgerBegins ==
  ASSUME Init, NEW k \in Nat
  PROVE  /\ LedgerOf(k).trades = <<>> /\ CreditOf(k) \in BOOLEAN /\ LedgerOf(k).cash \in Int /\ LedgerOf(k).held \in Nat
         /\ CreditOf(k) \/ LedgerOf(k).held = 0
<1>1. IInv
  BY InitKept
<1>2. books = [j \in 1..Len(accounts) |-> NewBook(accounts[j])] /\ Len(books) = Len(accounts)
  BY <1>1 DEF Init, IInv
<1>3. CASE k \notin Ledgers
  <2>1. LedgerOf(k) = Idle
    BY <1>3 DEF LedgerOf
  <2> QED
    BY <1>3, <2>1 DEF Idle, CreditOf
<1>4. CASE k \in Ledgers
  <2>1. k \in 1..Len(accounts) /\ LedgerOf(k) = NewBook(accounts[k])
    BY <1>2, <1>4 DEF LedgerOf, Ledgers
  <2>2. AccountOK(accounts[k])
    BY <1>1, <2>1, SoundAll DEF IInv, Sound
  <2>3. NewBook(accounts[k]) \in BookSet /\ NewBook(accounts[k]).trades = <<>> /\ NewBook(accounts[k]).held = accounts[k].seed.qty
    BY <2>2, NewBookIn
  <2>4. NewBook(accounts[k]).cash \in Int
    BY <2>3, BookIs
  <2>5. accounts[k].seed.qty \in Nat /\ CreditOf(k) = Credit(accounts[k]) /\ Credit(accounts[k]) \in BOOLEAN
    BY <1>4, <2>2, SeedIn DEF CreditOf, AccountOK
  <2>6. Credit(accounts[k]) \/ accounts[k].seed.qty = 0
    BY <2>5 DEF Credit
  <2> QED
    BY <2>1, <2>3, <2>4, <2>5, <2>6
<1> QED
  BY <1>3, <1>4

LEMMA FirstSettles ==
  ASSUME NEW base, NEW trades
  PROVE  First!FoldLeft(First!Settle, base, trades) = SettledAll(CreditOf(1), base, trades)
BY DEF First!FoldLeft, First!MapThenFoldSet, First!Settle, First!Cost, First!Proceeds, SettledAll, Settled, FoldLeft, MapThenFoldSet, First!Max, Max,
       CreditOf, OnCredit, Credit
LEMMA SecondSettles ==
  ASSUME NEW base, NEW trades
  PROVE  Second!FoldLeft(Second!Settle, base, trades) = SettledAll(CreditOf(2), base, trades)
BY DEF Second!FoldLeft, Second!MapThenFoldSet, Second!Settle, Second!Cost, Second!Proceeds, SettledAll, Settled, FoldLeft, MapThenFoldSet, Second!Max, Max,
       CreditOf, OnCredit, Credit

LEMMA FirstBooks ==
  ASSUME IInv, Next
  PROVE  [First!Book]_(First!vars)
<1>1. CreditOf(1) = OnCredit(1) /\ CreditOf(1)' = OnCredit(1)'
  BY DEF CreditOf, OnCredit, Credit
<1>2. OnCredit(1)' = OnCredit(1)
  BY <1>1, LedgerMoves
<1>3. CASE LedgerOf(1).cash' = LedgerOf(1).cash /\ LedgerOf(1).held' = LedgerOf(1).held /\ LedgerOf(1).trades' = LedgerOf(1).trades
  BY <1>2, <1>3 DEF First!vars
<1>4. CASE Settles(CreditOf(1), LedgerOf(1).cash, LedgerOf(1).held, LedgerOf(1).trades,
                   LedgerOf(1).cash', LedgerOf(1).held', LedgerOf(1).trades')
  <2> DEFINE new == SubSeq(LedgerOf(1).trades', Len(LedgerOf(1).trades) + 1, Len(LedgerOf(1).trades'))
             base == Balance(LedgerOf(1).cash, LedgerOf(1).held)
             after == First!FoldLeft(First!Settle, base, new)
  <2>1. /\ LedgerOf(1).trades # LedgerOf(1).trades' /\ IsPrefix(LedgerOf(1).trades, LedgerOf(1).trades')
        /\ LET done == SettledAll(CreditOf(1), base, new)
           IN  done.ok /\ LedgerOf(1).cash' = done.cash /\ LedgerOf(1).held' = done.held
    BY <1>4 DEF Settles
  <2>2. after = SettledAll(CreditOf(1), base, new)
    BY FirstSettles
  <2>3. First!IsPrefix(LedgerOf(1).trades, LedgerOf(1).trades')
    BY <2>1 DEF First!IsPrefix, IsPrefix
  <2>4. after.ok /\ LedgerOf(1).cash' = after.cash /\ LedgerOf(1).held' = after.held
    BY <2>1, <2>2
  <2>5. First!Book
    BY <1>2, <2>1, <2>3, <2>4 DEF First!Book, Balance
  <2> QED
    BY <2>5
<1> QED
  BY <1>3, <1>4, LedgerMoves

LEMMA SecondBooks ==
  ASSUME IInv, Next
  PROVE  [Second!Book]_(Second!vars)
<1>1. CreditOf(2) = OnCredit(2) /\ CreditOf(2)' = OnCredit(2)'
  BY DEF CreditOf, OnCredit, Credit
<1>2. OnCredit(2)' = OnCredit(2)
  BY <1>1, LedgerMoves
<1>3. CASE LedgerOf(2).cash' = LedgerOf(2).cash /\ LedgerOf(2).held' = LedgerOf(2).held /\ LedgerOf(2).trades' = LedgerOf(2).trades
  BY <1>2, <1>3 DEF Second!vars
<1>4. CASE Settles(CreditOf(2), LedgerOf(2).cash, LedgerOf(2).held, LedgerOf(2).trades,
                   LedgerOf(2).cash', LedgerOf(2).held', LedgerOf(2).trades')
  <2> DEFINE new == SubSeq(LedgerOf(2).trades', Len(LedgerOf(2).trades) + 1, Len(LedgerOf(2).trades'))
             base == Balance(LedgerOf(2).cash, LedgerOf(2).held)
             after == Second!FoldLeft(Second!Settle, base, new)
  <2>1. /\ LedgerOf(2).trades # LedgerOf(2).trades' /\ IsPrefix(LedgerOf(2).trades, LedgerOf(2).trades')
        /\ LET done == SettledAll(CreditOf(2), base, new)
           IN  done.ok /\ LedgerOf(2).cash' = done.cash /\ LedgerOf(2).held' = done.held
    BY <1>4 DEF Settles
  <2>2. after = SettledAll(CreditOf(2), base, new)
    BY SecondSettles
  <2>3. Second!IsPrefix(LedgerOf(2).trades, LedgerOf(2).trades')
    BY <2>1 DEF Second!IsPrefix, IsPrefix
  <2>4. after.ok /\ LedgerOf(2).cash' = after.cash /\ LedgerOf(2).held' = after.held
    BY <2>1, <2>2
  <2>5. Second!Book
    BY <1>2, <2>1, <2>3, <2>4 DEF Second!Book, Balance
  <2> QED
    BY <2>5
<1> QED
  BY <1>3, <1>4, LedgerMoves

\* Every account that buys keeps the ledger, whatever the strategy and the
\* bars: its trades only grow, its cash and its holding are what they leave,
\* nothing is sold that is not held or bought that is not paid for.
THEOREM BacktestRefinesLedger == Spec => KeepsTheLedger
<1>1. Init => First!Init /\ Second!Init
  <2> SUFFICES ASSUME Init PROVE First!Init /\ Second!Init
    OBVIOUS
  <2>1. CreditOf(1) = OnCredit(1) /\ CreditOf(2) = OnCredit(2)
    BY DEF CreditOf, OnCredit, Credit
  <2>2. First!Init
    BY <2>1, LedgerBegins DEF First!Init
  <2>3. Second!Init
    BY <2>1, LedgerBegins DEF Second!Init
  <2> QED
    BY <2>2, <2>3
<1>2. IInv /\ [Next]_vars => [First!Book]_(First!vars)
  <2> SUFFICES ASSUME IInv, [Next]_vars PROVE [First!Book]_(First!vars)
    OBVIOUS
  <2>1. CASE UNCHANGED vars
    BY <2>1 DEF vars, First!vars, LedgerOf, OnCredit, Ledgers, Idle
  <2> QED
    BY <2>1, FirstBooks
<1>3. IInv /\ [Next]_vars => [Second!Book]_(Second!vars)
  <2> SUFFICES ASSUME IInv, [Next]_vars PROVE [Second!Book]_(Second!vars)
    OBVIOUS
  <2>1. CASE UNCHANGED vars
    BY <2>1 DEF vars, Second!vars, LedgerOf, OnCredit, Ledgers, Idle
  <2> QED
    BY <2>1, SecondBooks
<1> QED
  BY <1>1, <1>2, <1>3, InitKept, NextKept, PTL DEF Spec, KeepsTheLedger, First!Spec, Second!Spec

\* The ledger of any account, however many the capital is split among: a step
\* leaves it alone or settles the trades of the bar it is at.
SettlesOrStays(k) ==
  /\ CreditOf(k)' = CreditOf(k)
  /\ \/ LedgerOf(k).cash' = LedgerOf(k).cash /\ LedgerOf(k).held' = LedgerOf(k).held /\ LedgerOf(k).trades' = LedgerOf(k).trades
     \/ Settles(CreditOf(k), LedgerOf(k).cash, LedgerOf(k).held, LedgerOf(k).trades,
                LedgerOf(k).cash', LedgerOf(k).held', LedgerOf(k).trades')

\* KeepsTheLedger speaks of two accounts; this, of each of them.
THEOREM EveryAccountPays == Spec => [][\A k \in Nat : SettlesOrStays(k)]_vars
<1>1. IInv /\ [Next]_vars => [\A k \in Nat : SettlesOrStays(k)]_vars
  <2> SUFFICES ASSUME IInv, Next PROVE \A k \in Nat : SettlesOrStays(k)
    OBVIOUS
  <2> QED
    BY LedgerMoves DEF SettlesOrStays
<1> QED
  BY <1>1, InitKept, NextKept, PTL DEF Spec

---------------------------------------------------------------------------
(* The bars so far, run: a bar makes of a book what it makes of it when    *)
(* the later bars are known, but for an entry that is to fill in them.     *)
LEMMA FiringSoFar ==
  ASSUME NEW bars, NEW pre, NEW n, Begins(pre, bars, n), NEW i \in 1..n, NEW a, AccountOK(a), NEW s \in Strategies(a.tree), NEW side
  PROVE  Firing(s, side, a, pre, i) = Firing(s, side, a, bars, i)
<1>1. \A k \in DOMAIN s.rules : RuleFires(s.rules[k], a.ctx, pre, i) <=> RuleFires(s.rules[k], a.ctx, bars, i)
  <2>1. TAKE k \in DOMAIN s.rules
  <2>2. \A j \in 1..Len(s.rules[k].conditions) : TypedCondition(s.rules[k].conditions[j])
    BY RulesTyped DEF AccountOK
  <2> QED
    BY <2>2, FiresSoFar
<1> QED
  BY <1>1 DEF Firing

Ahead(a, bars, i, n) == ResolveEntryFill(bars, i, a.exec, Slippage).bar > n
Out(b) == b.held = 0 /\ b.pending = NoPending

\* An entry that fills after the bars so far is pending, or was out of reach.
LEMMA EnteredSoFar ==
  ASSUME NEW bars, NEW pre, NEW n, Begins(pre, bars, n), NEW i \in 1..n, NEW a, AccountOK(a), NEW m, NEW percent, NEW sl, NEW b \in BookSet
  PROVE  LET fill(s) == ResolveEntryFill(s, i, a.exec, Slippage)
             into(s) == Entered(b, a, fill(s), OrderQty(m, b.cash, fill(s).price, Commission, percent, 1, 1), sl, i)
         IN  \/ into(bars) = into(pre)
             \/ into(bars).pending.bar > n
             \/ Ahead(a, bars, i, n) /\ into(bars) = b
<1> DEFINE fill(s) == ResolveEntryFill(s, i, a.exec, Slippage)
           qty(s) == OrderQty(m, b.cash, fill(s).price, Commission, percent, 1, 1)
           into(s) == Entered(b, a, fill(s), qty(s), sl, i)
<1>1. i \in 1..Length /\ i <= Len(bars) /\ i <= n /\ i \in Int /\ n \in Int /\ bars \in Paths /\ Length \in Nat
  BY BeginsAt, BacktestAssumption DEF Begins
<1>2. fill(bars).bar \in Int /\ fill(bars).bar >= i
  <2>1. fill(bars).bar \in i..Length
    BY <1>1, FillIn DEF AccountOK
  <2> HIDE DEF fill
  <2> QED
    BY <1>1, <2>1
<1>3. CASE fill(bars).bar <= n
  <2>1. fill(pre) = fill(bars)
    BY <1>3, FillSoFar DEF AccountOK
  <2> HIDE DEF fill
  <2> QED
    BY <2>1 DEF fill
<1>4. CASE fill(bars).bar > n /\ qty(bars) = 0
  <2>1. into(bars) = b
    BY <1>4 DEF Entered
  <2>2. Ahead(a, bars, i, n)
    BY <1>4 DEF Ahead
  <2> QED
    BY <2>1, <2>2
<1>5. CASE fill(bars).bar > n /\ qty(bars) # 0
  <2> HIDE DEF fill, qty
  <2>1. fill(bars).bar # i
    BY <1>1, <1>2, <1>5
  <2>2. into(bars) = [b EXCEPT !.pending = [bar |-> fill(bars).bar, price |-> fill(bars).price, qty |-> qty(bars), sl |-> sl]]
    BY <1>5, <2>1 DEF Entered
  <2> HIDE DEF into
  <2>3. into(bars).pending.bar = fill(bars).bar
    BY <2>2 DEF BookSet
  <2>4. into(bars).pending.bar > n
    BY <1>5, <2>3
  <2> QED
    BY <2>4 DEF into, fill, qty
<1> QED
  BY <1>1, <1>2, <1>3, <1>4, <1>5

\* What the simple path has made of the same book over both.
Apart(a, bars, i, n, b, c, bought) ==
  \/ b = c
  \/ b.pending.bar > n
  \/ Ahead(a, bars, i, n) /\ Out(b) /\ bought

LEMMA SimpleRuleSoFar ==
  ASSUME NEW bars, NEW pre, NEW n, Begins(pre, bars, n), NEW i \in 1..n, NEW a, AccountOK(a), NEW b \in BookSet, NEW c,
         NEW rule, RuleFires(rule, a.ctx, pre, i) <=> RuleFires(rule, a.ctx, bars, i),
         NEW bought \in BOOLEAN, RuleFires(rule, a.ctx, bars, i) /\ rule.action = "buy" => bought,
         Apart(a, bars, i, n, b, c, bought)
  PROVE  Apart(a, bars, i, n, SimpleRule(b, a, bars, i, rule), SimpleRule(c, a, pre, i, rule), bought)
<1> DEFINE fill(s) == ResolveEntryFill(s, i, a.exec, Slippage)
           into(s) == Entered(b, a, fill(s), OrderQty(a.sizing, b.cash, fill(s).price, Commission, rule.percent, 1, 1), 0, i)
           fires == RuleFires(rule, a.ctx, bars, i)
           d == SimpleRule(b, a, bars, i, rule)
<1>1. n \in Nat /\ pre[i] = bars[i]
  <2>1. n \in 1..Length
    BY DEF Begins
  <2> QED
    BY <2>1, BeginsAt, NatBar
<1>2. d = IF b.pending # NoPending \/ ~fires THEN b
          ELSE CASE rule.action = "buy" /\ b.held = 0  -> into(bars)
                 [] rule.action = "sell" /\ b.held > 0 -> SoldOut(b, Under(bars[i].close), i)
                 [] OTHER                              -> b
  BY DEF SimpleRule
<1>3. SimpleRule(b, a, pre, i, rule) =
          IF b.pending # NoPending \/ ~fires THEN b
          ELSE CASE rule.action = "buy" /\ b.held = 0  -> into(pre)
                 [] rule.action = "sell" /\ b.held > 0 -> SoldOut(b, Under(bars[i].close), i)
                 [] OTHER                              -> b
  BY <1>1 DEF SimpleRule
<1>4. into(bars) = into(pre) \/ into(bars).pending.bar > n \/ (Ahead(a, bars, i, n) /\ into(bars) = b)
  BY EnteredSoFar
<1>5. b.pending.bar > n => b.pending # NoPending
  BY <1>1, NothingIn
<1> HIDE DEF into, d
<1>6. CASE b = c
  <2>1. CASE b.pending # NoPending \/ ~fires
    <3>1. d = b /\ SimpleRule(c, a, pre, i, rule) = b
      BY <1>2, <1>3, <1>6, <2>1
    <3> QED
      BY <3>1 DEF Apart, d
  <2>2. CASE b.pending = NoPending /\ fires /\ rule.action = "buy" /\ b.held = 0
    <3>1. d = into(bars) /\ SimpleRule(c, a, pre, i, rule) = into(pre)
      BY <1>2, <1>3, <1>6, <2>2
    <3>2. bought /\ Out(b)
      BY <2>2 DEF Out
    <3> HIDE DEF fires
    <3> QED
      BY <1>4, <3>1, <3>2 DEF Apart, d
  <2>3. CASE b.pending = NoPending /\ fires /\ ~(rule.action = "buy" /\ b.held = 0)
    <3>1. d = SimpleRule(c, a, pre, i, rule)
      BY <1>2, <1>3, <1>6, <2>3
    <3> QED
      BY <3>1 DEF Apart, d
  <2> HIDE DEF fires
  <2> QED
    BY <2>1, <2>2, <2>3
<1>7. CASE b.pending.bar > n
  <2>1. d = b
    BY <1>2, <1>5, <1>7
  <2> QED
    BY <1>7, <2>1 DEF Apart, d
<1>8. CASE Ahead(a, bars, i, n) /\ Out(b) /\ bought
  <2>1. b.pending = NoPending /\ b.held = 0 /\ ~(b.held > 0)
    BY <1>8 DEF Out
  <2>2. d = b \/ d = into(bars)
    BY <1>2, <2>1
  <2>3. CASE d = b
    BY <1>8, <2>3 DEF Apart, d
  <2>4. CASE d = into(bars)
    <3>1. CASE into(bars).pending.bar > n
      BY <2>4, <3>1 DEF Apart, d
    <3>2. CASE into(bars) = b
      BY <1>8, <2>4, <3>2 DEF Apart, d
    <3>3. CASE into(bars) = into(pre) /\ ~(into(bars).pending.bar > n) /\ into(bars) # b
      <4>1. fill(bars).bar > n
        BY <1>8 DEF Ahead
      <4>2. fill(bars).bar # i
        BY <1>1, <4>1
      <4>3. into(bars) = [b EXCEPT !.pending = [bar |-> fill(bars).bar, price |-> fill(bars).price,
                            qty |-> OrderQty(a.sizing, b.cash, fill(bars).price, Commission, rule.percent, 1, 1), sl |-> 0]]
        BY <3>3, <4>2 DEF into, Entered
      <4> HIDE DEF fill
      <4>4. into(bars).pending.bar = fill(bars).bar
        BY <4>3 DEF BookSet
      <4> QED
        BY <3>3, <4>1, <4>4 DEF fill
    <3> QED
      BY <1>4, <3>1, <3>2, <3>3
  <2> QED
    BY <2>2, <2>3, <2>4
<1> QED
  BY <1>6, <1>7, <1>8 DEF Apart

\* The rules of a strategy of the tree: sound, and firing alike.
LEMMA RulesSoFar ==
  ASSUME NEW bars, NEW pre, NEW n, Begins(pre, bars, n), NEW i \in 1..n, NEW a, AccountOK(a), NEW s \in Strategies(a.tree)
  PROVE  /\ StrategyOK(s) /\ Len(s.rules) \in Nat /\ DOMAIN s.rules = 1..Len(s.rules) /\ \A k \in 1..Len(s.rules) : RuleOK(s.rules[k])
         /\ \A k \in 1..Len(s.rules) : RuleFires(s.rules[k], a.ctx, pre, i) <=> RuleFires(s.rules[k], a.ctx, bars, i)
<1>1. StrategyOK(s)
  BY StrategiesOK DEF AccountOK
<1>2. Len(s.rules) \in Nat /\ DOMAIN s.rules = 1..Len(s.rules) /\ \A k \in 1..Len(s.rules) : RuleOK(s.rules[k])
  BY <1>1, RulesAre
<1>3. ASSUME NEW k \in 1..Len(s.rules) PROVE RuleFires(s.rules[k], a.ctx, pre, i) <=> RuleFires(s.rules[k], a.ctx, bars, i)
  <2>1. \A j \in 1..Len(s.rules[k].conditions) : TypedCondition(s.rules[k].conditions[j])
    BY <1>2, RulesTyped DEF AccountOK
  <2> QED
    BY <2>1, FiresSoFar
<1> QED
  BY <1>1, <1>2, <1>3

LEMMA SimplePathSoFar ==
  ASSUME NEW bars, NEW pre, NEW n, Begins(pre, bars, n), NEW i \in 1..n, NEW a, AccountOK(a), NEW s \in Strategies(a.tree),
         NEW b, LongBook(b, a)
  PROVE  Apart(a, bars, i, n, SimplePath(b, a, bars, i, s), SimplePath(b, a, pre, i, s), Firing(s, "buy", a, bars, i) # {})
<1> DEFINE rules == s.rules
           bought == Firing(s, "buy", a, bars, i) # {}
           sl == Or(s.sl, a.risk.sl)
           tp == Or(s.tp, a.risk.tp)
<1>1. /\ StrategyOK(s) /\ Len(rules) \in Nat /\ DOMAIN rules = 1..Len(rules) /\ \A k \in 1..Len(rules) : RuleOK(rules[k])
      /\ \A k \in 1..Len(rules) : RuleFires(rules[k], a.ctx, pre, i) <=> RuleFires(rules[k], a.ctx, bars, i)
  BY RulesSoFar
<1>2. /\ bars \in Paths /\ pre \in Paths /\ i \in 1..Length /\ i <= Len(bars) /\ i <= Len(pre) /\ pre[i] = bars[i]
  BY BeginsAt DEF Begins
<1>3. \A k \in 1..Len(rules) : RuleFires(rules[k], a.ctx, bars, i) /\ rules[k].action = "buy" => bought
  BY <1>1 DEF Firing
<1>4. b \in Kept(b, a) /\ b \in BookSet
  BY KeptSelf DEF LongBook
<1>5. ASSUME NEW t PROVE SimplePath(b, a, t, i, s) = IF StopsOut(b, a, t[i], sl, tp) THEN StoppedOut(b, a, t[i], i, sl) ELSE Simply(b, a, t, i, rules)
  BY SimpleIs
<1> HIDE DEF rules, bought, sl, tp
<1>6. CASE StopsOut(b, a, bars[i], sl, tp)
  <2>1. SimplePath(b, a, bars, i, s) = SimplePath(b, a, pre, i, s)
    BY <1>2, <1>5, <1>6
  <2> QED
    BY <2>1 DEF Apart
<1>7. CASE ~StopsOut(b, a, bars[i], sl, tp)
  <2>1. SimplePath(b, a, bars, i, s) = Simply(b, a, bars, i, rules) /\ SimplePath(b, a, pre, i, s) = Simply(b, a, pre, i, rules)
    BY <1>2, <1>5, <1>7
  <2>2. \A x \in Kept(b, a), k \in 1..Len(rules) : SimpleRule(x, a, bars, i, rules[k]) \in Kept(b, a) /\ SimpleRule(x, a, pre, i, rules[k]) \in Kept(b, a)
    BY <1>1, <1>2, <1>4, SimpleRuleIn
  <2>3. SimpleSteps(a, bars, i, rules, b, Kept(b, a)) /\ SimpleSteps(a, pre, i, rules, b, Kept(b, a))
    BY <1>1, <1>4, <2>2, SimpleFold DEF SimpleStays
  <2>4. PICK v \in [0..Len(rules) -> Kept(b, a)] :
          /\ v[0] = b /\ v[Len(rules)] = Simply(b, a, bars, i, rules)
          /\ \A k \in 1..Len(rules) : v[k] = SimpleRule(v[k - 1], a, bars, i, rules[k])
    BY <2>3 DEF SimpleSteps
  <2>5. PICK w \in [0..Len(rules) -> Kept(b, a)] :
          /\ w[0] = b /\ w[Len(rules)] = Simply(b, a, pre, i, rules)
          /\ \A k \in 1..Len(rules) : w[k] = SimpleRule(w[k - 1], a, pre, i, rules[k])
    BY <2>3 DEF SimpleSteps
  <2> DEFINE m == Len(rules)
             G == {k \in 0..m : Apart(a, bars, i, n, v[k], w[k], bought)}
  <2>6. m \in Nat
    BY <1>1
  <2>7. 0 \in G
    BY <2>4, <2>5, <2>6 DEF Apart
  <2>8. ASSUME NEW k \in 1..m, k - 1 \in G PROVE k \in G
    <3>1. k \in 0..m /\ k - 1 \in 0..m /\ Apart(a, bars, i, n, v[k - 1], w[k - 1], bought)
      BY <2>6, <2>8
    <3>2. v[k - 1] \in BookSet
      BY <3>1, KeptIs
    <3>3. bought \in BOOLEAN
      BY DEF bought
    <3>4. Apart(a, bars, i, n, SimpleRule(v[k - 1], a, bars, i, rules[k]), SimpleRule(w[k - 1], a, pre, i, rules[k]), bought)
      BY <1>1, <1>3, <3>1, <3>2, <3>3, SimpleRuleSoFar
    <3>5. v[k] = SimpleRule(v[k - 1], a, bars, i, rules[k]) /\ w[k] = SimpleRule(w[k - 1], a, pre, i, rules[k])
      BY <2>4, <2>5
    <3> QED
      BY <3>1, <3>4, <3>5
  <2> HIDE DEF G, m
  <2>9. \A k \in 0..m : k \in G
    BY <2>6, <2>7, <2>8, UpInduct
  <2>10. m \in G
    BY <2>6, <2>9
  <2> QED
    BY <2>1, <2>4, <2>5, <2>10 DEF G, m, bought
<1> QED
  BY <1>6, <1>7

\* The engine for a single strategy fills within the bar.
LEMMA PlainRuleSoFar ==
  ASSUME NEW bars, NEW pre, NEW n, Begins(pre, bars, n), NEW i \in 1..n, NEW a, NEW b,
         NEW rule, RuleFires(rule, a.ctx, pre, i) <=> RuleFires(rule, a.ctx, bars, i)
  PROVE  PlainRule(b, a, bars, i, rule) = PlainRule(b, a, pre, i, rule)
<1>1. pre[i] = bars[i]
  BY BeginsAt
<1> QED
  BY <1>1 DEF PlainRule

LEMMA PlainPathSoFar ==
  ASSUME NEW bars, NEW pre, NEW n, Begins(pre, bars, n), NEW i \in 1..n, NEW a, AccountOK(a), a.engine = "plain", NEW b, LongBook(b, a)
  PROVE  PlainPath(b, a, bars, i) = PlainPath(b, a, pre, i)
<1> DEFINE s == a.tree.strategy
           rules == s.rules
           out(t) == IF StopsOut(b, a, t[i], s.sl, s.tp) THEN StoppedOut(b, a, t[i], i, s.sl) ELSE b
           o == out(bars)
<1>1. s \in Strategies(a.tree)
  <2>1. a.tree \in Nodes(a.tree) /\ a.tree.type = "leaf"
    BY NodesClosed DEF AccountOK, TreeOK
  <2> QED
    BY <2>1 DEF Strategies
<1>2. /\ bars \in Paths /\ pre \in Paths /\ i \in 1..Length /\ i <= Len(bars) /\ i <= Len(pre) /\ pre[i] = bars[i]
  BY BeginsAt DEF Begins
<1>3. PlainPath(b, a, bars, i) = Plainly(out(bars), a, bars, i, rules) /\ PlainPath(b, a, pre, i) = Plainly(out(pre), a, pre, i, rules)
  BY PlainIs
<1>4. out(pre) = o
  BY <1>2
<1> HIDE DEF s
<1>5. /\ StrategyOK(s) /\ Len(rules) \in Nat /\ DOMAIN rules = 1..Len(rules) /\ \A k \in 1..Len(rules) : RuleOK(rules[k])
      /\ \A k \in 1..Len(rules) : RuleFires(rules[k], a.ctx, pre, i) <=> RuleFires(rules[k], a.ctx, bars, i)
  BY <1>1, RulesSoFar
<1>6. o \in Kept(b, a) /\ b \in BookSet
  <2>1. b \in Kept(b, a) /\ b \in BookSet /\ s.sl \in Int
    BY <1>5, KeptSelf DEF LongBook, StrategyOK
  <2> QED
    BY <1>2, <2>1, StopOut
<1> HIDE DEF rules, out, o
<1>7. \A x \in Kept(b, a), k \in 1..Len(rules) : PlainRule(x, a, bars, i, rules[k]) \in Kept(b, a) /\ PlainRule(x, a, pre, i, rules[k]) \in Kept(b, a)
  BY <1>2, <1>5, <1>6, PlainRuleIn
<1>8. PlainSteps(a, bars, i, rules, o, Kept(b, a)) /\ PlainSteps(a, pre, i, rules, o, Kept(b, a))
  BY <1>5, <1>6, <1>7, PlainFold DEF PlainStays
<1>9. PICK v \in [0..Len(rules) -> Kept(b, a)] :
        /\ v[0] = o /\ v[Len(rules)] = Plainly(o, a, bars, i, rules)
        /\ \A k \in 1..Len(rules) : v[k] = PlainRule(v[k - 1], a, bars, i, rules[k])
  BY <1>8 DEF PlainSteps
<1>10. PICK w \in [0..Len(rules) -> Kept(b, a)] :
        /\ w[0] = o /\ w[Len(rules)] = Plainly(o, a, pre, i, rules)
        /\ \A k \in 1..Len(rules) : w[k] = PlainRule(w[k - 1], a, pre, i, rules[k])
  BY <1>8 DEF PlainSteps
<1> DEFINE m == Len(rules)
           G == {k \in 0..m : v[k] = w[k]}
<1>11. m \in Nat
  BY <1>5
<1>12. 0 \in G
  BY <1>9, <1>10, <1>11
<1>13. ASSUME NEW k \in 1..m, k - 1 \in G PROVE k \in G
  <2>1. k \in 0..m /\ v[k - 1] = w[k - 1]
    BY <1>11, <1>13
  <2>2. PlainRule(v[k - 1], a, bars, i, rules[k]) = PlainRule(v[k - 1], a, pre, i, rules[k])
    BY <1>5, PlainRuleSoFar
  <2>3. v[k] = PlainRule(v[k - 1], a, bars, i, rules[k]) /\ w[k] = PlainRule(w[k - 1], a, pre, i, rules[k])
    BY <1>9, <1>10
  <2> QED
    BY <2>1, <2>2, <2>3
<1> HIDE DEF G, m
<1>14. \A k \in 0..m : k \in G
  BY <1>11, <1>12, <1>13, UpInduct
<1>15. m \in G
  BY <1>11, <1>14
<1> QED
  BY <1>3, <1>4, <1>9, <1>10, <1>15 DEF G, m, o, rules

LEMMA ShortPathSoFar ==
  ASSUME NEW bars, NEW pre, NEW n, Begins(pre, bars, n), NEW i \in 1..n, NEW a, AccountOK(a), NEW s \in Strategies(a.tree), NEW b
  PROVE  ShortPath(b, a, bars, i, s) = ShortPath(b, a, pre, i, s)
<1>1. pre[i] = bars[i]
  BY BeginsAt
<1>2. Firing(s, "buy", a, pre, i) = Firing(s, "buy", a, bars, i) /\ Firing(s, "sell", a, pre, i) = Firing(s, "sell", a, bars, i)
  BY FiringSoFar
<1> QED
  BY <1>1, <1>2 DEF ShortPath, ShortSignals

\* A pending entry is of a bar to come.
Fresh(b, i) == b.pending = NoPending \/ b.pending.bar >= i

LEMMA LadderPathSoFar ==
  ASSUME NEW bars, NEW pre, NEW n, Begins(pre, bars, n), NEW i \in 1..n, NEW a, AccountOK(a), NEW s \in Strategies(a.tree),
         NEW b, LongBook(b, a), b.pending = NoPending
  PROVE  Apart(a, bars, i, n, LadderPath(b, a, bars, i, s), LadderPath(b, a, pre, i, s), Firing(s, "buy", a, bars, i) # {})
<1> DEFINE buys == Firing(s, "buy", a, bars, i)
           sells == Firing(s, "sell", a, bars, i)
           rule == s.rules[Min(buys)]
           sl == Or(s.sl, a.risk.sl)
           fill(t) == ResolveEntryFill(t, i, a.exec, Slippage)
           into(t) == Entered(b, a, fill(t), OrderQty(Legacy, b.cash, fill(t).price, Commission, rule.percent, 1, 1), sl, i)
           price == bars[i].close
           tick == EvaluateLadderTick(b.pos, price, a.risk.L, sells # {}, Over(price))
           path_(t) == CASE b.held > 0  -> LadderExits(b, price, i, tick)
                         [] b.held <= 0 /\ buys # {} -> into(t)
                         [] OTHER       -> b
<1>1. pre[i] = bars[i]
  BY BeginsAt
<1>2. Firing(s, "buy", a, pre, i) = buys /\ Firing(s, "sell", a, pre, i) = sells
  BY FiringSoFar
<1>3. LadderPath(b, a, bars, i, s) = path_(bars)
  BY DEF LadderPath, LadderEntry, Legacy
<1>4. LadderPath(b, a, pre, i, s) = path_(pre)
  BY <1>1, <1>2 DEF LadderPath, LadderEntry, Legacy
<1>5. into(bars) = into(pre) \/ into(bars).pending.bar > n \/ (Ahead(a, bars, i, n) /\ into(bars) = b)
  BY EnteredSoFar DEF LongBook
<1>6. b.held \in Nat
  BY DEF LongBook
<1> HIDE DEF into, buys, tick
<1>7. CASE b.held > 0
  <2>1. path_(bars) = path_(pre)
    BY <1>7
  <2> HIDE DEF path_
  <2> QED
    BY <1>3, <1>4, <2>1 DEF Apart
<1>8. CASE ~(b.held > 0) /\ buys = {}
  <2>1. path_(bars) = path_(pre)
    BY <1>8
  <2> HIDE DEF path_
  <2> QED
    BY <1>3, <1>4, <2>1 DEF Apart
<1>9. CASE ~(b.held > 0) /\ buys # {}
  <2>1. b.held = 0 /\ b.held <= 0
    BY <1>6, <1>9
  <2>2. path_(bars) = into(bars) /\ path_(pre) = into(pre)
    BY <1>9, <2>1
  <2> HIDE DEF path_
  <2>3. Out(b)
    BY <2>1 DEF Out
  <2>4. LadderPath(b, a, bars, i, s) = into(bars) /\ LadderPath(b, a, pre, i, s) = into(pre)
    BY <1>3, <1>4, <2>2
  <2>5. Apart(a, bars, i, n, into(bars), into(pre), buys # {})
    BY <1>5, <1>9, <2>3 DEF Apart
  <2> QED
    BY <2>4, <2>5 DEF buys
<1> QED
  BY <1>7, <1>8, <1>9

\* A ladder's pending entry waits for its bar, and is gone once that has come.
LEMMA LadderFresh ==
  ASSUME NEW a, AccountOK(a), OnLadders(a), NEW b, LongBook(b, a), b.pending = NoPending, NEW bars \in Paths, NEW i \in 1..Length, i <= Len(bars),
         NEW s, StrategyOK(s)
  PROVE  Fresh(LadderPath(b, a, bars, i, s), i + 1)
<1> DEFINE price == bars[i].close
           buys == Firing(s, "buy", a, bars, i)
           sell == Firing(s, "sell", a, bars, i) # {}
           tick == EvaluateLadderTick(b.pos, price, a.risk.L, sell, Over(price))
           sl == Or(s.sl, a.risk.sl)
           fill == ResolveEntryFill(bars, i, a.exec, Slippage)
           qty == OrderQty(Legacy, b.cash, fill.price, Commission, s.rules[Min(buys)].percent, 1, 1)
           into == Entered(b, a, fill, qty, sl, i)
           c == LadderPath(b, a, bars, i, s)
<1>1. b \in Kept(b, a) /\ b \in BookSet /\ b.held \in Nat
  BY KeptSelf DEF LongBook
<1>2. c = CASE b.held > 0  -> LadderExits(b, price, i, tick)
            [] b.held <= 0 /\ buys # {} -> into
            [] OTHER       -> b
  BY DEF LadderPath, LadderEntry, Legacy
<1>3. price \in Quotes /\ Over(price) \in Sizes /\ Under(price) \in Sizes /\ price \in Nat
  BY BarsAre, OverIn, QuotesIn
<1>4. fill.bar \in Int /\ fill.bar >= i /\ i \in Int
  <2>1. fill.bar \in i..Length /\ Length \in Nat
    BY FillIn, BacktestAssumption DEF AccountOK
  <2> HIDE DEF fill
  <2> QED
    BY <2>1, NatBar
<1> HIDE DEF c
<1>5. CASE b.held > 0
  <2>1. b.pos \in Positions /\ b.pos.left > 0 /\ LaddersOK(a.risk.L) /\ i \in Nat
    BY <1>1, <1>5, BookIs, NatBar DEF LongBook, Positioned, AccountOK
  <2> HIDE DEF price, sell, buys, into
  <2>2. Decides(b.pos, Under(price), Over(price), i, tick)
    BY <1>3, <2>1, TickDecides
  <2> HIDE DEF tick
  <2>3. Carries(LadderExits(b, price, i, tick), tick)
    BY <1>1, <1>3, <1>5, <2>2, LadderExitsIn
  <2>4. c = LadderExits(b, price, i, tick)
    BY <1>1, <1>2, <1>5
  <2> QED
    BY <2>3, <2>4 DEF Carries, Fresh, c
<1> HIDE DEF tick, buys, qty, fill
<1>6. CASE ~(b.held > 0)
  <2>1. c = b \/ c = into
    BY <1>1, <1>2, <1>6
  <2>2. Fresh(b, i + 1)
    BY DEF Fresh
  <2>3. Fresh(into, i + 1)
    <3>1. CASE qty = 0
      BY <2>2, <3>1 DEF Entered
    <3>2. CASE qty # 0 /\ fill.bar = i
      <4>1. into = Opened(b, a, fill.price, qty, sl, i)
        BY <3>2 DEF Entered
      <4>2. into.pending = NoPending
        BY <1>1, <4>1 DEF Opened, Bought, BookSet
      <4> QED
        BY <4>2 DEF Fresh
    <3>3. CASE qty # 0 /\ fill.bar # i
      <4>1. into = [b EXCEPT !.pending = [bar |-> fill.bar, price |-> fill.price, qty |-> qty, sl |-> sl]]
        BY <3>3 DEF Entered
      <4> HIDE DEF into
      <4>2. into.pending.bar = fill.bar
        BY <1>1, <4>1 DEF BookSet
      <4>3. fill.bar >= i + 1
        BY <1>4, <3>3
      <4> QED
        BY <4>2, <4>3 DEF Fresh
    <3> QED
      BY <3>1, <3>2, <3>3
  <2> QED
    BY <2>1, <2>2, <2>3 DEF c
<1> QED
  BY <1>5, <1>6

Barwise(base, acc, bars, ks) == FoldLeft(LAMBDA b, i : Bar(b, acc, bars, i), base, ks)

\* The fold of the bars of a path.
BarSteps(acc, bars, ks, base, A) ==
  \E v \in [0..Len(ks) -> A] :
    /\ v[0] = base /\ v[Len(ks)] = Barwise(base, acc, bars, ks)
    /\ \A k \in 1..Len(ks) : v[k] = Bar(v[k - 1], acc, bars, ks[k])
BarStays(acc, bars, ks, base, A) ==
  /\ base \in A /\ Len(ks) \in Nat /\ DOMAIN ks = 1..Len(ks)
  /\ \A a \in A, k \in 1..Len(ks) : Bar(a, acc, bars, ks[k]) \in A
LEMMA BarFold == ASSUME NEW acc, NEW bars, NEW ks, NEW base, NEW A, BarStays(acc, bars, ks, base, A) PROVE BarSteps(acc, bars, ks, base, A)
<1> USE DEF BarStays
<1> DEFINE n == Len(ks)
           o == [x \in A \X (1..n) |-> Bar(x[1], acc, bars, ks[x[2]])]
           g == TheFold(o, base, 1..n)
           E(f) == f = [s \in SUBSET (1..n) |-> IF s = {} THEN base ELSE Bar(f[s \ {Max(s)}], acc, bars, ks[Max(s)])]
           h == CHOOSE f : E(f)
<1>1. ASSUME NEW a \in A, NEW k \in 1..n PROVE o[<<a, k>>] = Bar(a, acc, bars, ks[k]) /\ o[<<a, k>>] \in A
  OBVIOUS
<1>2. Barwise(base, acc, bars, ks) = h[1..n]
  BY DEF Barwise, FoldLeft, MapThenFoldSet
<1> HIDE DEF o, n
<1> HIDE DEF BarStays
<1>3. Within(o, base, n, A) /\ n \in Nat
  BY <1>1 DEF Within, n, BarStays
<1>4. Given(o, base, n, A, g)
  BY <1>3, FoldGiven
<1> HIDE DEF g
<1>5. E(g)
  <2>1. ASSUME NEW s \in SUBSET (1..n)
        PROVE  (IF s = {} THEN base ELSE o[<<g[s \ {Max(s)}], Max(s)>>]) = (IF s = {} THEN base ELSE Bar(g[s \ {Max(s)}], acc, bars, ks[Max(s)]))
    BY <1>1, <1>4 DEF Given
  <2>2. [s \in SUBSET (1..n) |-> IF s = {} THEN base ELSE o[<<g[s \ {Max(s)}], Max(s)>>]] =
        [s \in SUBSET (1..n) |-> IF s = {} THEN base ELSE Bar(g[s \ {Max(s)}], acc, bars, ks[Max(s)])]
    BY <2>1
  <2> QED
    BY <1>4, <2>2 DEF Given
<1>6. E(h)
  BY <1>5
<1> HIDE DEF h
<1>7. ASSUME NEW s \in SUBSET (1..n) PROVE h[s] = IF s = {} THEN base ELSE Bar(h[s \ {Max(s)}], acc, bars, ks[Max(s)])
  BY <1>6
<1>8. ASSUME NEW s \in SUBSET (1..n), s # {}, h[Butlast(s)] \in A PROVE h[s] = o[<<h[Butlast(s)], Max(s)>>]
  BY <1>1, <1>4, <1>7, <1>8 DEF Butlast, Given
<1>9. Runs(o, base, n, A, h[1..n])
  BY <1>3, <1>7, <1>8, FoldRuns
<1>10. PICK v \in [0..n -> A] : v[0] = base /\ v[n] = h[1..n] /\ \A k \in 1..n : v[k] = o[<<v[k - 1], k>>]
  BY <1>9 DEF Runs
<1>11. ASSUME NEW k \in 1..n PROVE v[k] = Bar(v[k - 1], acc, bars, ks[k])
  <2>1. k - 1 \in 0..n
    BY <1>3
  <2>2. v[k - 1] \in A /\ v[k] = o[<<v[k - 1], k>>]
    BY <1>10, <2>1
  <2> QED
    BY <1>1, <2>2
<1> QED
  BY <1>2, <1>10, <1>11 DEF n, BarSteps

---------------------------------------------------------------------------
(* A bar, and the book after the bars so far.                              *)
LEMMA BarIs ==
  ASSUME NEW a, AccountOK(a), NEW b, BookFor(b, a), NEW bars, NEW i \in 1..Length
  PROVE  /\ Part(b, a, i) = "wait" => Bar(b, a, bars, i) = b
         /\ Part(b, a, i) = "open" => Bar(b, a, bars, i) = OpenedPending(b, a, i)
         /\ Part(b, a, i) = "plain" => Bar(b, a, bars, i) = PlainPath(b, a, bars, i)
         /\ Part(b, a, i) = "short" => Bar(b, a, bars, i) = ShortPath(b, a, bars, i, Active(a, bars, i))
         /\ Part(b, a, i) = "ladder" => Bar(b, a, bars, i) = LadderPath(b, a, bars, i, Active(a, bars, i))
         /\ Part(b, a, i) = "simple" => Bar(b, a, bars, i) = SimplePath(b, a, bars, i, Active(a, bars, i))
         /\ Part(b, a, i) \in {"wait", "open", "plain", "short", "ladder", "simple"}
         /\ Part(b, a, i) = "wait" <=> b.pending.bar > i
         /\ Part(b, a, i) = "open" <=> b.pending.bar = i
<1>1. b.pending.bar \in Nat /\ i \in Nat
  BY BookForOK, BacktestAssumption DEF BookOK
<1>2. a.engine \in {"trees", "plain", "short"}
  BY DEF AccountOK
<1>3. Part(b, a, i) = IF b.pending.bar > i THEN "wait" ELSE IF b.pending.bar = i THEN "open"
                      ELSE IF a.engine # "trees" THEN a.engine ELSE IF Laddered(a.risk) THEN "ladder" ELSE "simple"
  BY <1>1 DEF Part
<1>4. Part(b, a, i) \in {"wait", "open", "plain", "short", "ladder", "simple"}
  BY <1>2, <1>3
<1>5. (Part(b, a, i) = "wait" <=> b.pending.bar > i) /\ (Part(b, a, i) = "open" <=> b.pending.bar = i)
  BY <1>1, <1>2, <1>3
<1> QED
  BY <1>4, <1>5 DEF Bar

LEMMA BarContinues ==
  ASSUME NEW a, AccountOK(a), NEW b, BookFor(b, a), NEW bars \in Paths, NEW i \in 1..Length, i <= Len(bars)
  PROVE  Continues(b, Bar(b, a, bars, i), a)
<1>1. StrategyOK(Active(a, bars, i))
  BY ActiveOK
<1>2. CASE Part(b, a, i) = "wait"
  BY <1>2, BarIs, WaitContinues
<1>3. CASE Part(b, a, i) = "open"
  BY <1>3, BarIs, OpenContinues
<1>4. CASE Part(b, a, i) = "plain"
  BY <1>4, BarIs, PlainContinues
<1>5. CASE Part(b, a, i) = "short"
  BY <1>5, BarIs, ShortContinues
<1>6. CASE Part(b, a, i) = "ladder"
  BY <1>1, <1>6, BarIs, LadderContinues
<1>7. CASE Part(b, a, i) = "simple"
  BY <1>1, <1>7, BarIs, SimpleContinues
<1> QED
  BY <1>2, <1>3, <1>4, <1>5, <1>6, <1>7, BarIs

\* On ladders no entry stays pending beyond its bar.
LEMMA BarFresh ==
  ASSUME NEW a, AccountOK(a), OnLadders(a), NEW b, BookFor(b, a), NEW bars \in Paths, NEW i \in 1..Length, i <= Len(bars), Fresh(b, i)
  PROVE  Fresh(Bar(b, a, bars, i), i + 1)
<1>1. i \in Nat /\ b.pending.bar \in Nat /\ b \in BookSet /\ LongBook(b, a) /\ StrategyOK(Active(a, bars, i))
  BY NatBar, BookForOK, ActiveOK DEF BookOK, BookFor, OnLadders
<1>2. CASE Part(b, a, i) = "wait"
  BY <1>1, <1>2, BarIs DEF Fresh
<1>3. CASE Part(b, a, i) = "open"
  <2>1. Bar(b, a, bars, i) = Opened(b, a, b.pending.price, b.pending.qty, b.pending.sl, i)
    BY <1>3, BarIs DEF OpenedPending
  <2>2. Opened(b, a, b.pending.price, b.pending.qty, b.pending.sl, i).pending = NoPending
    BY <1>1 DEF Opened, Bought, BookSet
  <2> QED
    BY <2>1, <2>2 DEF Fresh
<1>4. CASE Part(b, a, i) = "ladder"
  <2>1. ~(b.pending.bar > i) /\ b.pending.bar # i
    BY <1>4, BarIs
  <2>2. b.pending = NoPending
    BY <1>1, <2>1 DEF Fresh
  <2> QED
    BY <1>1, <1>4, <2>2, BarIs, LadderFresh
<1>5. Part(b, a, i) \notin {"plain", "short", "simple"}
  BY PartsAre DEF OnLadders
<1> QED
  BY <1>2, <1>3, <1>4, <1>5, BarIs

\* A bar over the bars so far and over the whole path.
LEMMA BarSoFar ==
  ASSUME NEW bars, NEW pre, NEW n, Begins(pre, bars, n), NEW i \in 1..n, NEW a, AccountOK(a), NEW b, BookFor(b, a),
         OnLadders(a) => Fresh(b, i)
  PROVE  \/ Bar(b, a, bars, i) = Bar(b, a, pre, i)
         \/ Bar(b, a, bars, i).pending.bar > n
         \/ /\ a.engine = "trees" /\ Ahead(a, bars, i, n) /\ Out(Bar(b, a, bars, i))
            /\ Firing(Active(a, bars, i), "buy", a, bars, i) # {}
<1> DEFINE s == Active(a, bars, i)
<1>1. s \in Strategies(a.tree) /\ Active(a, pre, i) = s
  BY ActiveIn, ActiveSoFar DEF Active, AccountOK
<1>2. i \in 1..Length /\ i <= Len(bars) /\ bars \in Paths
  BY BeginsAt DEF Begins
<1> HIDE DEF s
<1>3. CASE Part(b, a, i) \in {"wait", "open"}
  BY <1>2, <1>3, BarIs
<1>4. CASE Part(b, a, i) = "plain"
  <2>1. a.engine = "plain" /\ LongBook(b, a)
    BY <1>2, <1>4, PartsAre DEF BookFor
  <2> QED
    BY <1>2, <1>4, <2>1, BarIs, PlainPathSoFar
<1>5. CASE Part(b, a, i) = "short"
  <2>1. Bar(b, a, bars, i) = ShortPath(b, a, bars, i, s) /\ Bar(b, a, pre, i) = ShortPath(b, a, pre, i, s)
    BY <1>1, <1>2, <1>5, BarIs DEF s
  <2> QED
    BY <1>1, <2>1, ShortPathSoFar
<1>6. CASE Part(b, a, i) = "ladder"
  <2>1. a.engine = "trees" /\ Laddered(a.risk) /\ LongBook(b, a)
    BY <1>2, <1>6, PartsAre DEF BookFor
  <2>2. b.pending = NoPending
    <3>1. b.pending.bar \in Nat /\ i \in Nat
      BY <1>2, BookForOK, BacktestAssumption DEF BookOK
    <3>2. ~(b.pending.bar > i) /\ b.pending.bar # i
      BY <1>2, <1>6, BarIs
    <3> QED
      BY <2>1, <3>1, <3>2 DEF Fresh, OnLadders
  <2>3. Bar(b, a, bars, i) = LadderPath(b, a, bars, i, s) /\ Bar(b, a, pre, i) = LadderPath(b, a, pre, i, s)
    BY <1>1, <1>2, <1>6, BarIs DEF s
  <2>4. Apart(a, bars, i, n, LadderPath(b, a, bars, i, s), LadderPath(b, a, pre, i, s), Firing(s, "buy", a, bars, i) # {})
    BY <1>1, <2>1, <2>2, LadderPathSoFar
  <2> QED
    BY <2>1, <2>3, <2>4 DEF Apart, s
<1>7. CASE Part(b, a, i) = "simple"
  <2>1. a.engine = "trees" /\ LongBook(b, a)
    BY <1>2, <1>7, PartsAre DEF BookFor
  <2>3. Bar(b, a, bars, i) = SimplePath(b, a, bars, i, s) /\ Bar(b, a, pre, i) = SimplePath(b, a, pre, i, s)
    BY <1>1, <1>2, <1>7, BarIs DEF s
  <2>4. Apart(a, bars, i, n, SimplePath(b, a, bars, i, s), SimplePath(b, a, pre, i, s), Firing(s, "buy", a, bars, i) # {})
    BY <1>1, <2>1, SimplePathSoFar
  <2> QED
    BY <2>1, <2>3, <2>4 DEF Apart, s
<1> QED
  BY <1>2, <1>3, <1>4, <1>5, <1>6, <1>7, BarIs

Upwards(n) == [i \in 1..n |-> i]

\* The book after the bars so far, bar by bar.
LEMMA BookRuns ==
  ASSUME NEW a, AccountOK(a), NEW bars \in Paths, NEW n \in Nat, n <= Len(bars)
  PROVE  \E v \in [0..n -> BookSet] :
           /\ v[0] = NewBook(a) /\ v[n] = BookAfter(a, bars, n)
           /\ \A k \in 1..n : v[k] = Bar(v[k - 1], a, bars, k)
<1> DEFINE A == {b \in BookSet : BookFor(b, a)}
           ks == Upwards(n)
<1>1. Len(ks) = n /\ DOMAIN ks = 1..n /\ \A k \in 1..n : ks[k] = k
  BY DEF Upwards
<1>2. NewBook(a) \in A
  BY NewBookFor, BookForOK
<1>3. \A b \in A, k \in 1..n : Bar(b, a, bars, ks[k]) \in A
  <2>1. TAKE b \in A, k \in 1..n
  <2>2. k \in 1..Length /\ k <= Len(bars) /\ ks[k] = k
    <3>1. Len(bars) \in 1..Length /\ Length \in Nat
      BY BarsAre, BacktestAssumption
    <3> QED
      BY <1>1, <3>1
  <2>3. BookFor(Bar(b, a, bars, k), a)
    BY <2>2, BarContinues DEF Continues
  <2> QED
    BY <2>2, <2>3, BookForOK
<1>4. BookAfter(a, bars, n) = Barwise(NewBook(a), a, bars, ks)
  BY DEF BookAfter, Barwise, Upwards, FoldLeft, MapThenFoldSet
<1> HIDE DEF A, ks
<1>5. BarStays(a, bars, ks, NewBook(a), A)
  BY <1>1, <1>2, <1>3 DEF BarStays
<1>6. BarSteps(a, bars, ks, NewBook(a), A)
  BY <1>5, BarFold
<1>7. PICK v \in [0..n -> A] :
        /\ v[0] = NewBook(a) /\ v[n] = Barwise(NewBook(a), a, bars, ks)
        /\ \A k \in 1..n : v[k] = Bar(v[k - 1], a, bars, ks[k])
  BY <1>1, <1>6 DEF BarSteps
<1>8. v \in [0..n -> BookSet]
  BY <1>7 DEF A
<1>9. \A k \in 1..n : v[k] = Bar(v[k - 1], a, bars, k)
  BY <1>1, <1>7
<1> QED
  BY <1>4, <1>7, <1>8, <1>9

LEMMA BookAfterIs ==
  ASSUME NEW a, AccountOK(a), NEW bars \in Paths
  PROVE  /\ BookAfter(a, bars, 0) = NewBook(a)
         /\ \A n \in Nat \ {0} : n <= Len(bars) => BookAfter(a, bars, n) = Bar(BookAfter(a, bars, n - 1), a, bars, n)
<1>1. Len(bars) \in Nat
  BY BarsAre, BacktestAssumption
<1>2. BookAfter(a, bars, 0) = NewBook(a)
  BY <1>1, BookRuns
<1>3. ASSUME NEW n \in Nat \ {0}, n <= Len(bars) PROVE BookAfter(a, bars, n) = Bar(BookAfter(a, bars, n - 1), a, bars, n)
  <2>1. n \in Nat /\ n - 1 \in Nat /\ n - 1 <= Len(bars)
    BY <1>1, <1>3
  <2>2. PICK v \in [0..n -> BookSet] :
          v[0] = NewBook(a) /\ v[n] = BookAfter(a, bars, n) /\ \A k \in 1..n : v[k] = Bar(v[k - 1], a, bars, k)
    BY <1>3, <2>1, BookRuns
  <2>3. PICK w \in [0..(n - 1) -> BookSet] :
          w[0] = NewBook(a) /\ w[n - 1] = BookAfter(a, bars, n - 1) /\ \A k \in 1..(n - 1) : w[k] = Bar(w[k - 1], a, bars, k)
    BY <2>1, BookRuns
  <2> DEFINE G == {k \in 0..(n - 1) : v[k] = w[k]}
  <2>4. 0 \in G
    BY <2>1, <2>2, <2>3
  <2>5. ASSUME NEW k \in 1..(n - 1), k - 1 \in G PROVE k \in G
    <3>1. k \in 1..n /\ k \in 0..(n - 1) /\ v[k - 1] = w[k - 1]
      BY <2>1, <2>5
    <3> QED
      BY <2>2, <2>3, <3>1
  <2> HIDE DEF G
  <2>6. \A k \in 0..(n - 1) : k \in G
    BY <2>1, <2>4, <2>5, UpInduct
  <2>7. n - 1 \in G
    BY <2>1, <2>6
  <2>8. n \in 1..n
    BY <1>3
  <2> QED
    BY <2>2, <2>3, <2>7, <2>8 DEF G
<1> QED
  BY <1>2, <1>3

\* The books of a run are good for its account, and no ladder's entry is overdue.
LEMMA BookAfterFor ==
  ASSUME NEW a, AccountOK(a), NEW bars \in Paths
  PROVE  \A n \in 0..Len(bars) : BookFor(BookAfter(a, bars, n), a) /\ (OnLadders(a) => Fresh(BookAfter(a, bars, n), n + 1))
<1> DEFINE L == Len(bars)
           b(k) == BookAfter(a, bars, k)
           G == {k \in 0..L : BookFor(b(k), a) /\ (OnLadders(a) => Fresh(b(k), k + 1))}
<1>1. L \in Nat /\ L <= Length /\ Length \in Nat
  BY BarsAre, BacktestAssumption
<1>2. 0 \in G
  <2>1. b(0) = NewBook(a) /\ b(0).pending = NoPending
    BY BookAfterIs, NewBookIn
  <2> QED
    BY <1>1, <2>1, NewBookFor DEF Fresh
<1>3. ASSUME NEW k \in 1..L, k - 1 \in G PROVE k \in G
  <2>1. k \in 1..Length /\ k <= Len(bars) /\ k \in Nat \ {0} /\ (k - 1) + 1 = k /\ k \in 0..L
    BY <1>1
  <2>2. b(k) = Bar(b(k - 1), a, bars, k)
    BY <2>1, BookAfterIs
  <2>3. BookFor(b(k - 1), a) /\ (OnLadders(a) => Fresh(b(k - 1), k))
    BY <1>3, <2>1
  <2> HIDE DEF b, L
  <2>4. BookFor(b(k), a)
    BY <2>1, <2>2, <2>3, BarContinues DEF Continues
  <2>5. OnLadders(a) => Fresh(b(k), k + 1)
    BY <2>1, <2>2, <2>3, BarFresh
  <2> QED
    BY <2>1, <2>4, <2>5
<1> HIDE DEF G, L
<1>4. \A k \in 0..L : k \in G
  BY <1>1, <1>2, <1>3, UpInduct
<1> QED
  BY <1>4 DEF G, L

\* The run over the bars so far is the run of the whole path so far, unless an
\* entry is pending beyond them or was sized at a price beyond them.
LEMMA RunSoFar ==
  ASSUME NEW bars, NEW pre, NEW n, Begins(pre, bars, n), NEW a, AccountOK(a),
         BookAfter(a, bars, n).pending = NoPending, \A i \in 1..n : ~StaysOut(a, bars, i, n)
  PROVE  BookAfter(a, pre, n) = BookAfter(a, bars, n)
<1> DEFINE b(k) == BookAfter(a, bars, k)
           p(k) == BookAfter(a, pre, k)
           G == {k \in 0..n : b(k) = p(k) \/ b(k).pending.bar > n}
<1>1. n \in Nat /\ bars \in Paths /\ pre \in Paths /\ n <= Len(bars) /\ Len(pre) = n /\ Len(bars) \in Nat
  BY BarsAre, BacktestAssumption DEF Begins
<1>2. 0 \in G
  BY <1>1, BookAfterIs
<1>3. ASSUME NEW k \in 1..n, k - 1 \in G PROVE k \in G
  <2>1. k \in 1..Length /\ k <= Len(bars) /\ k <= Len(pre) /\ k <= n /\ k \in Nat \ {0} /\ (k - 1) + 1 = k /\ k \in 0..n /\ k - 1 \in 0..Len(bars)
    BY <1>1, BeginsAt
  <2>2. b(k) = Bar(b(k - 1), a, bars, k) /\ p(k) = Bar(p(k - 1), a, pre, k)
    BY <1>1, <2>1, BookAfterIs
  <2>3. BookFor(b(k - 1), a) /\ (OnLadders(a) => Fresh(b(k - 1), k))
    BY <1>1, <2>1, BookAfterFor
  <2>4. b(k - 1) = p(k - 1) \/ b(k - 1).pending.bar > n
    BY <1>3
  <2>5. ~(/\ a.engine = "trees" /\ Ahead(a, bars, k, n) /\ Out(b(k)) /\ Firing(Active(a, bars, k), "buy", a, bars, k) # {})
    BY DEF StaysOut, Ahead, Out
  <2> HIDE DEF b, p
  <2>6. CASE b(k - 1).pending.bar > n
    <3>1. b(k - 1).pending.bar > k
      <4>1. b(k - 1).pending.bar \in Int
        BY <2>3, BookForOK, BacktestAssumption DEF BookOK
      <4> QED
        BY <1>1, <2>1, <2>6, <4>1
    <3>2. b(k) = b(k - 1)
      BY <2>1, <2>2, <2>3, <3>1, BarIs
    <3> QED
      BY <2>1, <2>6, <3>2
  <2>7. CASE b(k - 1) = p(k - 1)
    <3>1. b(k) = p(k) \/ b(k).pending.bar > n
      BY <2>2, <2>3, <2>5, <2>7, BarSoFar
    <3> QED
      BY <2>1, <3>1
  <2> QED
    BY <2>4, <2>6, <2>7
<1> HIDE DEF G
<1>4. \A k \in 0..n : k \in G
  BY <1>1, <1>2, <1>3, UpInduct
<1>5. n \in G
  BY <1>1, <1>4
<1>6. ~(b(n).pending.bar > n)
  BY <1>1, NothingIn
<1> QED
  BY <1>5, <1>6 DEF G

\* Nothing but the bars so far has made the books: every account to come is as
\* it begins, and the one that is run is what its bars have made of it.
Replayed ==
  /\ \A k \in 1..Len(books) : k > at.account => books[k] = NewBook(accounts[k])
  /\ Running => Book = BookAfter(Acct, Bars, at.bar - 1)

LEMMA InitReplayed == Init => Replayed
<1> SUFFICES ASSUME Init PROVE Replayed
  OBVIOUS
<1>1. IInv
  BY InitKept
<1>2. at.account = 1 /\ at.bar - 1 = 0 /\ books = [k \in 1..Len(accounts) |-> NewBook(accounts[k])] /\ Len(books) = Len(accounts)
  BY <1>1 DEF Init, IInv
<1>3. \A k \in 1..Len(books) : books[k] = NewBook(accounts[k])
  BY <1>2
<1>4. ASSUME Running PROVE Book = BookAfter(Acct, Bars, at.bar - 1)
  <2>1. at.account \in 1..Len(books) /\ AccountOK(Acct) /\ Bars \in Paths
    BY <1>1, <1>4, AtBook, BarsIn
  <2>2. BookAfter(Acct, Bars, 0) = NewBook(Acct)
    BY <2>1, BookAfterIs
  <2> QED
    BY <1>2, <1>3, <2>1, <2>2 DEF Book, Acct
<1> QED
  BY <1>3, <1>4 DEF Replayed

\* A step makes of its book what the bar does.
LEMMA NextBar ==
  ASSUME IInv, Next
  PROVE  Running /\ Moved /\ books' = [books EXCEPT ![at.account] = Bar(Book, Acct, Bars, at.bar)]
<1>1. Running /\ Moved
  BY NextBooks
<1>2. at.bar \in 1..Length /\ AccountOK(Acct) /\ BookFor(Book, Acct)
  BY <1>1, AtBook
<1>3. CASE WaitForFill
  <2>1. Part(Book, Acct, at.bar) = "wait" /\ books' = [books EXCEPT ![at.account] = Book]
    BY <1>3 DEF WaitForFill, Step
  <2>2. Bar(Book, Acct, Bars, at.bar) = Book
    BY <1>2, <2>1, BarIs
  <2> QED
    BY <1>1, <2>1, <2>2
<1>4. CASE OpenPending
  <2>1. Part(Book, Acct, at.bar) = "open" /\ books' = [books EXCEPT ![at.account] = OpenedPending(Book, Acct, at.bar)]
    BY <1>4 DEF OpenPending, Step
  <2>2. Bar(Book, Acct, Bars, at.bar) = OpenedPending(Book, Acct, at.bar)
    BY <1>2, <2>1, BarIs
  <2> QED
    BY <1>1, <2>1, <2>2
<1>5. CASE StepPlain
  <2>1. Part(Book, Acct, at.bar) = "plain" /\ books' = [books EXCEPT ![at.account] = PlainPath(Book, Acct, Bars, at.bar)]
    BY <1>5 DEF StepPlain, Step
  <2>2. Bar(Book, Acct, Bars, at.bar) = PlainPath(Book, Acct, Bars, at.bar)
    BY <1>2, <2>1, BarIs
  <2> QED
    BY <1>1, <2>1, <2>2
<1>6. CASE StepShort
  <2>1. Part(Book, Acct, at.bar) = "short" /\ books' = [books EXCEPT ![at.account] = ShortPath(Book, Acct, Bars, at.bar, Active(Acct, Bars, at.bar))]
    BY <1>6 DEF StepShort, Step
  <2>2. Bar(Book, Acct, Bars, at.bar) = ShortPath(Book, Acct, Bars, at.bar, Active(Acct, Bars, at.bar))
    BY <1>2, <2>1, BarIs
  <2> QED
    BY <1>1, <2>1, <2>2
<1>7. CASE StepLadder
  <2>1. Part(Book, Acct, at.bar) = "ladder" /\ books' = [books EXCEPT ![at.account] = LadderPath(Book, Acct, Bars, at.bar, Active(Acct, Bars, at.bar))]
    BY <1>7 DEF StepLadder, Step
  <2>2. Bar(Book, Acct, Bars, at.bar) = LadderPath(Book, Acct, Bars, at.bar, Active(Acct, Bars, at.bar))
    BY <1>2, <2>1, BarIs
  <2> QED
    BY <1>1, <2>1, <2>2
<1>8. CASE StepSimple
  <2>1. Part(Book, Acct, at.bar) = "simple" /\ books' = [books EXCEPT ![at.account] = SimplePath(Book, Acct, Bars, at.bar, Active(Acct, Bars, at.bar))]
    BY <1>8 DEF StepSimple, Step
  <2>2. Bar(Book, Acct, Bars, at.bar) = SimplePath(Book, Acct, Bars, at.bar, Active(Acct, Bars, at.bar))
    BY <1>2, <2>1, BarIs
  <2> QED
    BY <1>1, <2>1, <2>2
<1> QED
  BY <1>1, <1>3, <1>4, <1>5, <1>6, <1>7, <1>8 DEF Next

LEMMA NextReplayed == IInv /\ Replayed /\ [Next]_vars => Replayed'
<1> SUFFICES ASSUME IInv, Replayed, [Next]_vars PROVE Replayed'
  OBVIOUS
<1>1. CASE UNCHANGED vars
  BY <1>1 DEF Replayed, Running, Book, Acct, Bars, vars
<1>2. CASE Next
  <2> DEFINE c == Bar(Book, Acct, Bars, at.bar)
             k == at.account
  <2>1. Running /\ Moved /\ books' = [books EXCEPT ![k] = c]
    BY <1>2, NextBar
  <2>2. k \in 1..Len(books) /\ at.bar \in 1..Length /\ AccountOK(Acct) /\ BookFor(Book, Acct) /\ Bars \in Paths /\ Len(Bars) = Length /\ Length \in Nat
    BY <2>1, AtBook, BarsIn, BacktestAssumption
  <2>3. Len(books) \in Nat /\ Len(books') = Len(books) /\ books \in Seq(BookSet)
    BY <2>1 DEF IInv
  <2>4. Bars' = Bars /\ accounts' = accounts
    BY <2>1 DEF Moved, Bars
  <2>5. Book = BookAfter(Acct, Bars, at.bar - 1) /\ \A j \in 1..Len(books) : j > k => books[j] = NewBook(accounts[j])
    BY <2>1 DEF Replayed
  <2>6. c = BookAfter(Acct, Bars, at.bar)
    <3>1. at.bar \in Nat \ {0} /\ at.bar <= Len(Bars)
      BY <2>2
    <3> QED
      BY <2>2, <2>5, <3>1, BookAfterIs
  <2>7. books'[k] = c /\ \A j \in 1..Len(books) : j # k => books'[j] = books[j]
    BY <2>1, <2>2, <2>3
  <2> HIDE DEF c
  <2>8. CASE at.bar < Length
    <3>1. at' = [at EXCEPT !.bar = at.bar + 1]
      BY <2>1, <2>8 DEF Moved
    <3>2. at'.account = k /\ at'.bar - 1 = at.bar
      BY <2>2, <3>1 DEF IInv
    <3>3. Book' = c /\ Acct' = Acct
      BY <2>4, <2>7, <3>2 DEF Book, Acct
    <3>4. Book' = BookAfter(Acct', Bars', at'.bar - 1)
      BY <2>4, <2>6, <3>2, <3>3
    <3>5. \A j \in 1..Len(books') : j > at'.account => books'[j] = NewBook(accounts'[j])
      BY <2>2, <2>3, <2>4, <2>5, <2>7, <3>2
    <3> QED
      BY <3>4, <3>5 DEF Replayed
  <2>9. CASE ~(at.bar < Length)
    <3>1. at' = [account |-> k + 1, bar |-> 1]
      BY <2>1, <2>9 DEF Moved
    <3>2. at'.account = k + 1 /\ at'.bar - 1 = 0
      BY <3>1
    <3>3. \A j \in 1..Len(books') : j > k => books'[j] = NewBook(accounts'[j])
      BY <2>2, <2>3, <2>4, <2>5, <2>7
    <3>4. \A j \in 1..Len(books') : j > at'.account => books'[j] = NewBook(accounts'[j])
      BY <2>2, <2>3, <3>2, <3>3
    <3>5. ASSUME Running' PROVE Book' = BookAfter(Acct', Bars', at'.bar - 1)
      <4>1. k + 1 \in 1..Len(books')
        BY <2>2, <2>3, <3>2, <3>5 DEF Running
      <4>2. Book' = NewBook(Acct')
        BY <2>2, <3>2, <3>3, <4>1 DEF Book, Acct
      <4>3. AccountOK(accounts[k + 1])
        BY <2>3, <4>1, SoundAll DEF IInv, Sound
      <4>4. BookAfter(accounts[k + 1], Bars, 0) = NewBook(accounts[k + 1])
        BY <2>2, <4>3, BookAfterIs
      <4> QED
        BY <2>4, <3>2, <4>2, <4>4 DEF Acct
    <3> QED
      BY <3>4, <3>5 DEF Replayed
  <2> QED
    BY <2>8, <2>9
<1> QED
  BY <1>1, <1>2

\* Whatever the strategy, its conditions, its fills and its paths, what an
\* account has become by a bar is what the run over the bars so far makes of
\* it: no condition, no choice of the tree and no fill reads a later bar, but
\* for an entry that is pending or that was sized at its price in a later bar.
THEOREM NothingAhead == Spec => []NoLookAhead
<1>1. IInv /\ Replayed => NoLookAhead
  <2> SUFFICES ASSUME IInv, Replayed, Running, at.bar - 1 > 0, Book.pending = NoPending,
                      \A i \in 1..(at.bar - 1) : ~StaysOut(Acct, Bars, i, at.bar - 1)
               PROVE  BookAfter(Acct, SubSeq(Bars, 1, at.bar - 1), at.bar - 1) = Book
    BY DEF NoLookAhead
  <2> DEFINE n == at.bar - 1
             pre == SubSeq(Bars, 1, n)
  <2>1. AccountOK(Acct) /\ Bars \in Paths /\ Len(Bars) = Length /\ at.bar \in 1..Length /\ Length \in Nat
    BY AtBook, BarsIn, BacktestAssumption
  <2>2. n \in 1..Length /\ n <= Len(Bars)
    BY <2>1
  <2>3. Begins(pre, Bars, n)
    BY <2>1, <2>2, SoFar
  <2>4. Book = BookAfter(Acct, Bars, n)
    BY DEF Replayed
  <2>5. BookAfter(Acct, Bars, n).pending = NoPending /\ \A i \in 1..n : ~StaysOut(Acct, Bars, i, n)
    BY <2>4
  <2> HIDE DEF n, pre
  <2>6. BookAfter(Acct, pre, n) = BookAfter(Acct, Bars, n)
    BY <2>1, <2>3, <2>5, RunSoFar
  <2> QED
    BY <2>4, <2>6 DEF n, pre
<1>2. IInv /\ Replayed /\ [Next]_vars => (IInv /\ Replayed)'
  BY NextKept, NextReplayed
<1> QED
  BY <1>1, <1>2, InitKept, InitReplayed, PTL DEF Spec
=============================================================================
