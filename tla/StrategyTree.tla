---------------------------- MODULE StrategyTree ----------------------------
(***************************************************************************)
(* Which strategy a tree of nodes chooses at a bar, and which of its rules *)
(* fire: resolveActiveStrategy and the conditions it reads (engine.ts),    *)
(* the closed bars of a higher timeframe (mtf.ts), the market regime       *)
(* (regime.ts), the calendars, and the validator every tree passes before  *)
(* it is saved (composite-node.ts).                                        *)
(*                                                                         *)
(* Bar i opens at time i - 1 and is a record of open, high, low and close. *)
(* A value is a fraction <<n, d>>; NaN is the value that cannot be told,   *)
(* and no comparison with it holds.  The z-score of a spread and the other *)
(* indicators are left out: they are arithmetic on the same bars.          *)
(***************************************************************************)
EXTENDS Ladder

CONSTANTS MaxDepth,       \* MAX_RECURSION_DEPTH of the engine
          MaxNodeDepth,   \* MAX_NODE_DEPTH of the validator
          HtfSpan,        \* bars of the strategy in a bar of the higher timeframe
          DayBars,        \* bars in a session
          Measure(_)      \* what computeRegime measures of a sequence of bars

NaN == <<0, 0>>
Less(f, g) == f # NaN /\ g # NaN /\ f[1] * g[2] < g[1] * f[2]
AtMost(f, g) == f # NaN /\ g # NaN /\ Leq(f, g)
Highest(S) == CHOOSE x \in S : \A y \in S : y <= x
Total(s) == FoldLeft(LAMBDA a, b : a + b, 0, s)
Closes(bars, from, to) == [k \in 1..(to - from + 1) |-> bars[from + k - 1].close]

---------------------------------------------------------------------------
(* What the conditions read.                                               *)

MovingAverage(closes, n) ==
  LET len == Len(closes) IN IF len < n THEN NaN ELSE Frac(Total(SubSeq(closes, len - n + 1, len)), n)

\* Bars of the higher timeframe: the last one may still be open.
HtfBars(bars) ==
  [j \in 1..((Len(bars) + HtfSpan - 1) \div HtfSpan) |->
     LET first == (j - 1) * HtfSpan + 1
         last  == IF j * HtfSpan < Len(bars) THEN j * HtfSpan ELSE Len(bars)
     IN  [opens |-> first - 1, close |-> bars[last].close]]

\* The last bar of the higher timeframe that has closed when bar i opens; 0
\* when there is none, or fewer than the two bars that give its period.
ClosedHtf_Opened(htf, i) ==
  LET opened == {j \in 1..Len(htf) : htf[j].opens <= i - 1}
  IN  IF Len(htf) < 2 \/ opened = {} THEN 0 ELSE Highest(opened)
ClosedHtf(htf, i) ==
  LET closed == {j \in 1..Len(htf) : htf[j].opens + HtfSpan <= i - 1}
  IN  IF Len(htf) < 2 \/ closed = {} THEN 0 ELSE Highest(closed)

\* Only what the tree asks for is fetched; what cannot be fetched is NaN.
AlignMtf(t, ctx, bars, i) ==
  LET htf == HtfBars(bars)
      j   == ClosedHtf(htf, i)
  IN  IF <<t.kind, t.n>> \notin ctx.needs \/ ~ctx.fetched \/ j = 0 THEN NaN
      ELSE MovingAverage(Closes(htf, 1, j), t.n)

\* The session bar i belongs to, from its first bar up to i.
SessionStart(i) == ((i - 1) \div DayBars) * DayBars + 1
AnchorValue(ref, bars, i) ==
  LET first   == SessionStart(i)
      session == first..i
  IN  CASE ref = "dayOpen"     -> Price(bars[first].open)
        [] ref = "prevClose"   -> IF first = 1 THEN NaN ELSE Price(bars[first - 1].close)
        [] ref = "sessionHigh" -> Price(Highest({bars[j].high : j \in session}))
        [] ref = "sessionLow"  -> Price(0 - Highest({0 - bars[j].low : j \in session}))
        [] ref = "vwapFromOpen" ->
             Frac(Total([k \in 1..(i - first + 1) |->
                           LET b == bars[first + k - 1] IN b.high + b.low + b.close]), 3 * (i - first + 1))

\* A second symbol whose bars are missing or do not match is <<>>.
SpreadValue(expr, a, aux, i) ==
  IF aux = <<>> \/ aux[i] = 0 THEN NaN
  ELSE IF expr = "ratio" THEN Frac(a[i].close, aux[i]) ELSE Frac(100 * (a[i].close - aux[i]), aux[i])

\* Over the window of lookback + 1 closes that ends at i.
PerfMetric(metric, w) ==
  LET n       == Len(w)
      fall(x) == Frac(100 * (w[x[2]] - w[x[1]]), w[x[1]])
      falls   == {fall(x) : x \in {y \in (1..n) \X (1..n) : y[1] <= y[2]}}
  IN  IF n < 2 THEN Price(0)
      ELSE CASE metric = "drawdown"      -> CHOOSE f \in falls : \A g \in falls : Leq(f, g)
             [] metric = "winRate"       -> Frac(100 * Cardinality({k \in 2..n : w[k] > w[k - 1]}), n - 1)
             [] metric = "returnPercent" -> Frac(100 * (w[n] - w[1]), w[1])
Performance(t, bars, i) == IF i <= t.n THEN NaN ELSE PerfMetric(t.ref, Closes(bars, i - t.n, i))

\* Either side of a comparison; m scales it, in percent.
Scaled(v, m) == IF v = NaN THEN NaN ELSE Off(v, m - 100)
TermValue(t, ctx, bars, i) ==
  Scaled(CASE t.kind = "number" -> Price(t.n)
           [] t.kind = "price"  -> Price(bars[i].close)
           [] t.kind = "ma"     -> MovingAverage(Closes(bars, 1, i), t.n)
           [] t.kind = "mtf"    -> AlignMtf(t, ctx, bars, i)
           [] t.kind = "perf"   -> Performance(t, bars, i)
           [] t.kind = "anchor" -> AnchorValue(t.ref, bars, i)
           [] t.kind = "spread" -> SpreadValue(t.ref, bars, ctx.aux, i), t.m)

\* A crossing needs the bar before, where the sides were the other way round;
\* a performance never crosses.
Crosses == {"cross_above", "cross_below"}
Related(op, l, r) ==
  CASE op = "gt"  -> Less(r, l)
    [] op = "lt"  -> Less(l, r)
    [] op = "gte" -> AtMost(r, l)
    [] op = "lte" -> AtMost(l, r)
    [] op = "cross_above" -> Less(r, l)
    [] op = "cross_below" -> Less(l, r)
Before(op, l, r) == IF op = "cross_above" THEN AtMost(l, r) ELSE AtMost(r, l)
Compare(c, ctx, bars, i) ==
  /\ Related(c.op, TermValue(c.left, ctx, bars, i), TermValue(c.right, ctx, bars, i))
  /\ c.op \in Crosses => /\ i > 1 /\ c.left.kind # "perf"
                         /\ Before(c.op, TermValue(c.left, ctx, bars, i - 1), TermValue(c.right, ctx, bars, i - 1))

\* m: adx and the efficiency ratio in percent, the percentile of the range,
\* and the slope of the average: 1 up, -1 down, 0 flat.
RegimeLabel(m) ==
  LET trend == (IF m.adx > 25 THEN 2 ELSE IF m.adx > 20 THEN 1 ELSE 0) + (IF m.er > 35 THEN 2 ELSE IF m.er > 20 THEN 1 ELSE 0)
      score == [trend_up   |-> trend + (IF m.slope = 1 THEN 2 ELSE 0),
                trend_down |-> trend + (IF m.slope = -1 THEN 2 ELSE 0),
                range      |-> (IF m.adx < 20 THEN 2 ELSE 0) + (IF m.er < 20 THEN 2 ELSE 0) + (IF m.slope = 0 THEN 1 ELSE 0),
                high_vol   |-> IF m.vol > 80 THEN 2 ELSE IF m.vol > 60 THEN 1 ELSE 0]
      best  == {k \in DOMAIN score : \A j \in DOMAIN score : score[j] <= score[k]}
      order == <<"range", "trend_up", "trend_down", "high_vol">>
  IN  IF m.vol > 80 /\ trend < 2 THEN "high_vol"
      ELSE order[CHOOSE k \in 1..4 : order[k] \in best /\ \A j \in 1..(k - 1) : order[j] \notin best]

\* Of the bars so far, or of the closed bars of the higher timeframe.
Regime(c, ctx, bars, i) ==
  LET j == ClosedHtf(HtfBars(bars), i)
  IN  IF ~c.htf THEN RegimeLabel(Measure(Closes(bars, 1, i)))
      ELSE IF <<"regime", 0>> \notin ctx.needs \/ ~ctx.fetched \/ j = 0 THEN "none"
      ELSE RegimeLabel(Measure(Closes(HtfBars(bars), 1, j)))

\* A calendar that is not known holds no event.
InWindow(c, ctx, i) ==
  \E e \in c.times \union (IF c.calendar \in DOMAIN ctx.calendars THEN ctx.calendars[c.calendar] ELSE {}) :
     e - c.before <= i - 1 /\ i - 1 <= e + c.after

Holds(c, ctx, bars, i) ==
  CASE c.type = "compare" -> Compare(c, ctx, bars, i)
    [] c.type = "regime"  -> Regime(c, ctx, bars, i) \in c.in
    [] c.type = "event"   -> InWindow(c, ctx, i)
    [] c.type = "time"    -> LET hour == (i - 1) % DayBars
                             IN  IF c.op = "between" THEN c.values[1] <= hour /\ hour <= c.values[2]
                                 ELSE \E k \in 1..Len(c.values) : c.values[k] = hour

---------------------------------------------------------------------------
(* The tree.  Leaves hold a strategy: its own stop and target (Unset, or a *)
(* percentage whose 0 says none) and rules.                                *)
Unset == -1
NoStrategy == [name |-> "none", sl |-> Unset, tp |-> Unset, rules |-> <<>>]
Or(a, b) == IF a = Unset THEN b ELSE a

\* The first child of the highest weight; with no weights, the first child.
Heaviest(node) ==
  LET W(k) == IF k <= Len(node.weights) THEN node.weights[k] ELSE 0
  IN  Min({k \in DOMAIN node.children : \A j \in DOMAIN node.children : W(j) <= W(k)})

\* The nodes a walk from the root meets, depth by depth; the validator walks
\* one depth beyond what it accepts, and nothing walks further.
Below(node) ==
  CASE node.type = "condition" -> {node.then, node.else}
    [] node.type = "composite" -> Range(node.children)
    [] OTHER                   -> {}
NodesAt(root, depth) ==
  LET level[d \in 0..(MaxNodeDepth + 1)] == IF d = 0 THEN {root} ELSE UNION {Below(n) : n \in level[d - 1]}
  IN  level[depth]
Nodes(root) == UNION {NodesAt(root, d) : d \in 0..MaxNodeDepth}

\* What a node chooses, given what each node below it does.
Chosen(node, below, ctx, bars, i) ==
  LET found == {k \in DOMAIN node.children : below[node.children[k]].name # "none"}
  IN  CASE node.type = "none"       -> NoStrategy
        [] node.type = "leaf"       -> node.strategy
        [] node.type = "condition"  -> IF Holds(node.condition, ctx, bars, i) THEN below[node.then] ELSE below[node.else]
        [] node.type = "composite" /\ node.mode = "priority" ->
             IF found = {} THEN NoStrategy ELSE below[node.children[Min(found)]]
        [] node.type = "composite" /\ node.mode = "weighted" -> below[node.children[Heaviest(node)]]

\* left is how much deeper the recursion may go.
ResolveActiveStrategy(root, ctx, bars, i) ==
  LET active[left \in 0..(MaxDepth + 1)] ==
        [n \in Nodes(root) |-> IF left = 0 THEN NoStrategy ELSE Chosen(n, active[left - 1], ctx, bars, i)]
  IN  active[MaxDepth + 1][root]

RuleFires(rule, ctx, bars, i) == \A k \in 1..Len(rule.conditions) : Holds(rule.conditions[k], ctx, bars, i)

\* The series of the higher timeframe the conditions of a tree need.
NeedsOf(c) ==
  CASE c.type = "regime"  -> IF c.htf THEN {<<"regime", 0>>} ELSE {}
    [] c.type = "compare" -> IF c.left.kind = "mtf" THEN {<<"mtf", c.left.n>>} ELSE {}
    [] OTHER              -> {}
Needs(root) == UNION {NeedsOf(n.condition) : n \in {m \in Nodes(root) : m.type = "condition"}}

---------------------------------------------------------------------------
(* What the validator accepts.                                             *)
ValidCondition(c) ==
  CASE c.type = "time"    -> c.op = "between" => Len(c.values) >= 2 /\ c.values[1] <= c.values[2]
    [] c.type = "regime"  -> c.in # {}
    [] c.type = "event"   -> (c.times # {} \/ c.calendar # "") /\ c.before >= 0 /\ c.after >= 0
    [] c.type = "compare" -> c.left.m > 0 /\ c.right.m > 0 /\ (c.left.kind \in {"ma", "mtf", "perf"} => c.left.n >= 1)
ValidStrategy(s) ==
  \A k \in 1..Len(s.rules) : s.rules[k].conditions # <<>> /\ s.rules[k].percent \in 0..100

ValidNode(node) ==
  CASE node.type = "none"      -> TRUE
    [] node.type = "leaf"      -> ValidStrategy(node.strategy)
    [] node.type = "condition" -> ValidCondition(node.condition)
    [] node.type = "composite" -> node.children # <<>>
ValidateRootNode(root) == NodesAt(root, MaxNodeDepth + 1) = {} /\ \A n \in Nodes(root) : ValidNode(n)

\* Levels in strictly rising order, and a cap on the position within reason.
Ascending(ladder) == Len(ladder) <= 20 /\ \A k \in 2..Len(ladder) : ladder[k - 1].pct < ladder[k].pct
ValidLadders(L) ==
  /\ Ascending(L.tp) /\ Ascending(L.si.ladder) /\ Ascending(L.py.ladder)
  /\ \A k \in 1..Len(L.tp) : L.tp[k].sell \in 1..100
  /\ L.si.max \in 1..10 /\ L.py.max \in 1..10
=============================================================================
