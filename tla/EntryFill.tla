------------------------------ MODULE EntryFill ------------------------------
(***************************************************************************)
(* What a signal's entry costs (execution/entry.ts): the model of the      *)
(* backtest, and the parts of it the runner shares.  bars is a sequence of *)
(* records with a low and a close; exec is a market order or a limit with  *)
(* an offset below the close, a timeout in bars and a cap on the slippage. *)
(***************************************************************************)
EXTENDS Integers, Sequences, FiniteSets, FiniteSetsExt

Bounded(x, low, high) == IF x < low THEN low ELSE IF x > high THEN high ELSE x
ClampTimeoutBars(n) == Bounded(n, 1, 50)
ClampMaxSlippage(pct) == Bounded(pct, 0, 5)
ClampLimitOffset(pct) == Bounded(pct, -5, 0)

\* Prices are multiples of 100 wherever a percentage of them is taken.
Percent(price, pct) == (price * (100 + pct)) \div 100
ComputeLimitPrice(close, offset) == Percent(close, ClampLimitOffset(offset))

\* The closed bars since the one an order was placed in.
ElapsedClosedBars(placed, now) == IF now > placed THEN now - placed ELSE 0

\* Whether a market order at quote would pay no more than the cap above limit.
SlippageWithinCap(limit, quote, cap) == 100 * (quote - limit) <= ClampMaxSlippage(cap) * limit

\* A market entry fills in the signal's own bar s.  A limit fills in the first
\* bar from s on that trades through it, or else when the timeout has passed,
\* at the cap above that bar's close.  The window of bars is [s, s+timeout-1].
ResolveEntryFill(bars, s, exec, slip) ==
  LET limit    == ComputeLimitPrice(bars[s].close, exec.offset)
      timeout  == ClampTimeoutBars(exec.timeout)
      last     == Len(bars)
      crossed  == {j \in s..Bounded(s + timeout - 1, s, last) : bars[j].low < limit}
      late     == Bounded(s + timeout, s, last)
      fallback == Percent(bars[late].close, ClampMaxSlippage(exec.cap))
  IN  IF exec.type = "market" THEN [price |-> Percent(bars[s].close, slip), bar |-> s]
      ELSE IF crossed # {} THEN [price |-> limit, bar |-> Min(crossed)]
      ELSE [price |-> IF fallback > limit THEN fallback ELSE limit, bar |-> late]
=============================================================================
