----------------------------- MODULE MCBacktest -----------------------------
(* Every path of bars of four kinds through a strategy of each kind.       *)
EXTENDS Backtest

\* The closes are 100, 200 or 300; one bar opens below what it closes at.
MCKinds == [mid  |-> [open |-> 200, high |-> 200, low |-> 200, close |-> 200],
            up   |-> [open |-> 200, high |-> 300, low |-> 200, close |-> 300],
            down |-> [open |-> 200, high |-> 200, low |-> 100, close |-> 100],
            dip  |-> [open |-> 100, high |-> 200, low |-> 100, close |-> 200]]

\* A stand-in for the indicators: a sequence that only rises, or only falls,
\* trends; one that has been to both ends is volatile.
MCMeasure(closes) ==
  LET n    == Len(closes)
      rise == \A k \in 2..n : closes[k] >= closes[k - 1]
      fall == \A k \in 2..n : closes[k] <= closes[k - 1]
  IN  [adx |-> IF rise \/ fall THEN 30 ELSE 15, er |-> IF rise THEN 40 ELSE IF fall THEN 25 ELSE 10,
       vol   |-> IF {closes[k] : k \in 1..n} = {100, 200, 300} THEN 90 ELSE 50,
       slope |-> IF closes[n] > closes[1] THEN 1 ELSE IF closes[n] < closes[1] THEN -1 ELSE 0]

Term(kind, n, ref) == [kind |-> kind, n |-> n, ref |-> ref, m |-> 100]
Num(n) == Term("number", n, "")
Px == Term("price", 0, "")
If(l, op, r) == [type |-> "compare", left |-> l, op |-> op, right |-> r]
During(op, values) == [type |-> "time", op |-> op, values |-> values]
In(labels, htf) == [type |-> "regime", in |-> labels, htf |-> htf]
Around(times, calendar) == [type |-> "event", times |-> times, calendar |-> calendar, before |-> 0, after |-> 1]

Rule(action, c, percent) == [action |-> action, conditions |-> <<c>>, percent |-> percent, limit |-> FALSE, offset |-> 0]
At(rule, offset) == [rule EXCEPT !.limit = TRUE, !.offset = offset]
Nothing == [type |-> "none"]
Leaf(name, sl, tp, rules) == [type |-> "leaf", strategy |-> [name |-> name, sl |-> sl, tp |-> tp, rules |-> rules]]
When(c, then, else) == [type |-> "condition", condition |-> c, then |-> then, else |-> else]
All(mode, weights, children) == [type |-> "composite", mode |-> mode, weights |-> weights, children |-> children]

Swing == <<Rule("buy", If(Px, "lte", Num(200)), 100), Rule("sell", If(Px, "gt", Num(200)), 0)>>
Momentum == <<Rule("buy", If(Px, "cross_above", Term("ma", 2, "")), 50), Rule("sell", If(Px, "cross_below", Num(150)), 0)>>
Always == <<Rule("buy", If(Px, "gt", Num(0)), 60)>>
Weak == <<Rule("sell", If(Px, "lt", Num(300)), 100), Rule("buy", If(Px, "gte", Num(300)), 100)>>

Base(tree) == [engine |-> "trees", tree |-> tree, capital |-> 2000, risk |-> NoRisk, seed |-> NoSeed, gap |-> "close",
               exec |-> [type |-> "market", offset |-> 0, timeout |-> 1, cap |-> 0], sizing |-> [method |-> "legacy"],
               aux |-> <<>>, fetched |-> TRUE, calendars |-> [fomc |-> {2}], funding |-> 0, leverage |-> 1]
Laddering(tp, si, py, sl, trail) ==
  [NoRisk EXCEPT !.sl = sl, !.trail = trail, !.L = [tp |-> tp, si |-> [ladder |-> si, max |-> 3], py |-> [ladder |-> py, max |-> 2]]]
Limit(timeout) == [type |-> "limit", offset |-> -5, timeout |-> timeout, cap |-> 5]
Short(tree, sl, tp, trail) ==
  [Base(tree) EXCEPT !.engine = "short", !.risk = [NoRisk EXCEPT !.sl = sl, !.tp = tp, !.trail = trail]]

MCSetups ==
  [swing   |-> [Base(Leaf("s", 20, Unset, Swing)) EXCEPT !.risk = [NoRisk EXCEPT !.sl = 50, !.tp = 30]],
   worst   |-> [Base(Leaf("s", Unset, 0, Swing)) EXCEPT !.gap = "worst", !.risk = [NoRisk EXCEPT !.sl = 20, !.tp = 30]],
   limit   |-> [Base(Leaf("s", 20, 30, Swing)) EXCEPT !.exec = Limit(2)],
   poor    |-> [Base(Leaf("s", 20, 30, Swing)) EXCEPT !.exec = Limit(2), !.capital = 250],
   slow    |-> [Base(Leaf("s", Unset, Unset, Momentum)) EXCEPT !.exec = Limit(1)],
   seeded  |-> [Base(Leaf("s", 20, 30, Swing)) EXCEPT !.seed = [qty |-> 3, price |-> 200]],
   closed  |-> Base(When(If(Term("mtf", 1, ""), "gt", Num(150)), Leaf("s", 20, 30, Always), Nothing)),
   regime  |-> Base(When(In({"trend_up", "range"}, FALSE), Leaf("a", 20, 30, Always),
                         When(In({"high_vol", "trend_down"}, TRUE), Leaf("b", 10, 10, Swing), Nothing))),
   lost    |-> [Base(When(In({"range"}, TRUE), Leaf("a", 20, 30, Always), Leaf("b", Unset, Unset, Swing))) EXCEPT !.fetched = FALSE],
   anchors |-> Base(All("priority", <<>>,
                 <<When(If(Px, "cross_above", Term("anchor", 0, "prevClose")), Leaf("a", 20, Unset, Always), Nothing),
                   When(If(Term("anchor", 0, "vwapFromOpen"), "lt", Term("anchor", 0, "sessionHigh")), Leaf("b", Unset, 20, Swing), Nothing),
                   When(If(Term("anchor", 0, "sessionLow"), "gte", Term("anchor", 0, "dayOpen")), Leaf("c", Unset, 20, Momentum), Nothing)>>)),
   hours   |-> Base(All("priority", <<>>,
                 <<When(During("between", <<1, 2>>), Leaf("a", 20, Unset, Always), Nothing),
                   When(Around({4}, "fomc"), Leaf("b", 0, 20, Swing), Nothing),
                   When(Around({}, "unknown"), Leaf("c", 0, 20, Always), Leaf("d", 20, 30, Weak))>>)),
   backward |-> Base(When(During("between", <<2, 1>>), Leaf("a", 20, Unset, Always), Nothing)),
   deep    |-> Base(When(During("in", <<0, 1, 2>>), When(If(Px, "gt", Num(0)), All("priority", <<>>,
                 <<When(If(Px, "gt", Num(0)), Leaf("a", 20, 20, Always), Nothing)>>), Nothing), Leaf("b", Unset, 20, Swing))),
   split   |-> Base(All("weighted", <<2, 1>>,
                 <<When(If(Term("perf", 2, "returnPercent"), "gt", Num(0)), Leaf("a", 20, Unset, Always), Leaf("b", 30, 30, Swing)),
                   When(If(Term("perf", 1, "drawdown"), "lt", Num(0)), Leaf("c", Unset, 50, Always), Leaf("d", 20, 30, Momentum))>>)),
   nested  |-> Base(All("priority", <<>>, <<All("weighted", <<1, 3>>, <<Leaf("a", 20, 20, Swing),
                 When(If(Term("perf", 1, "winRate"), "gte", Num(100)), Leaf("b", Unset, 20, Always), Nothing)>>)>>)),
   pair    |-> [Base(When(If(Term("spread", 0, "diffPct"), "lt", Num(0)), Leaf("a", 20, 30, Always), Leaf("b", Unset, Unset, Weak)))
                  EXCEPT !.aux = <<200, 100, 300, 200, 0>>],
   alone   |-> Base(When(If(Term("spread", 0, "ratio"), "cross_above", Num(1)), Leaf("a", 20, 30, Always), Nothing)),
   atr     |-> [Base(Leaf("s", 20, 30, Swing)) EXCEPT !.sizing = [method |-> "atr", risk |-> 20, atr |-> 50, mult |-> 2]],
   vol     |-> [Base(Leaf("s", 20, 30, Swing)) EXCEPT !.sizing = [method |-> "vol_target", target |-> 20, vol |-> 25, cap |-> 100]],
   kelly   |-> [Base(Leaf("s", 20, 30, Swing)) EXCEPT !.sizing = [method |-> "kelly", win |-> 60, ratio |-> 150, fraction |-> 50, sample |-> 100]],
   ladder  |-> [Base(Leaf("s", 50, Unset, Always)) EXCEPT
                  !.risk = Laddering(<<[pct |-> 30, sell |-> 50], [pct |-> 40, sell |-> 50]>>, <<>>, <<>>, Unset, 0)],
   averaging |-> [Base(Leaf("s", Unset, Unset, Swing)) EXCEPT
                  !.risk = Laddering(<<[pct |-> 50, sell |-> 40]>>, <<[pct |-> 20, add |-> 50], [pct |-> 30, add |-> 100]>>, <<>>, 70, 0)],
   pyramid |-> [Base(Leaf("s", Unset, Unset, Always)) EXCEPT !.risk = Laddering(<<>>, <<>>, <<[pct |-> 20, add |-> 50]>>, 50, 40)],
   patient |-> [Base(Leaf("s", Unset, Unset, Swing)) EXCEPT !.exec = Limit(2), !.risk = Laddering(<<[pct |-> 30, sell |-> 50]>>, <<>>, <<>>, 30, 0)],
   plain   |-> [Base(Leaf("s", 20, 30, Swing)) EXCEPT !.engine = "plain", !.gap = "worst"],
   plimit  |-> [Base(Leaf("s", 20, Unset, <<At(Rule("buy", If(Px, "gt", Num(0)), 100), -10), At(Rule("sell", If(Px, "gt", Num(200)), 0), 10)>>))
                  EXCEPT !.engine = "plain"],
   short   |-> Short(Leaf("s", Unset, Unset, Weak), 20, 30, 0),
   trailed |-> [Short(Leaf("s", Unset, Unset, Weak), 0, 0, 60) EXCEPT !.leverage = 3, !.funding = 1]]
=============================================================================
