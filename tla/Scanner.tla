------------------------------ MODULE Scanner ------------------------------
(***************************************************************************)
(* The scanner bot at Binance (runner.ts:1330-1450, scanner/rank.ts): at   *)
(* every tick it ranks a universe of symbols, sells what has left the top  *)
(* or what its strategy no longer wants, and buys what has come in, one    *)
(* order after the other, each entry through the portfolio gate            *)
(* (runner.ts:893-955, risk/portfolio.ts).  The tick works on a copy of    *)
(* the map of positions and saves it once, when it ends.                   *)
(*                                                                         *)
(* A price is that of the last closed bar, at which orders are executed.   *)
(* Kinds names what may go wrong, Trouble how often in all: "data" fails   *)
(* to fetch some symbols, "refused" refuses an order (or the gate, or a    *)
(* limit), "part" executes a part of it, "lost" loses its answer and the   *)
(* lookup after it, "crash" ends the process.                              *)
(***************************************************************************)
EXTENDS Sizing

CONSTANTS Symbols,        \* the universe, in the order of the names
          Top, Order,     \* how many are held, and which end of the ranking
          Capital,        \* of this bot
          Others,         \* notionals of the positions of the other running bots
          OthersCapital,  \* their capital
          Gates,          \* configurations of the portfolio gate
          Markets,        \* what a bar may bring: a price, score and wish per symbol
          Bars,           \* bound: the last bar
          Kinds, Trouble

ASSUME ScannerAssumption ==
  /\ IsFiniteSet(Symbols) /\ Symbols # {} /\ Symbols \subseteq Nat
  /\ Top \in Nat \ {0} /\ Order \in {"desc", "asc"}
  /\ Capital \in Nat /\ OthersCapital \in Nat /\ Bars \in Nat /\ Trouble \in Nat
  /\ Others \in Seq(Nat)
  /\ \A m \in Markets : \A s \in Symbols : m.price[s] \in Nat \ {0} /\ m.score[s] \in Int
  /\ \A g \in Gates : g.heat \in Nat /\ \A t \in g.tiers : t.mult \in Nat

VARIABLES saved,     \* position_state: a position of each symbol
          work,      \* the tick's copy of it
          todo,      \* what the tick still has to order
          fill,      \* what fillOrder has returned, to be booked
          keys,      \* the idempotency keys of this bar that are booked
          net,       \* what the booked live trades leave of each symbol
          curve,     \* the realised profit, and its highest value
          sent,      \* exchange: what this bar's orders have executed, by client id
          held,      \* exchange: what the account holds by this bot's orders
          market, bar,
          gate,      \* the gate's configuration
          stuck,     \* what could not be sold when it should have been
          adrift,    \* symbols of which an execution is known to nobody any more
          left       \* how often something may still go wrong

vars == <<saved, work, todo, fill, keys, net, curve, sent, held, market, bar, gate, stuck, adrift, left>>
exchange == <<sent, held>>
book == <<keys, net, curve>>

Sides    == {"sell", "buy"}
NoPos    == [qty |-> 0, avg |-> 0, live |-> FALSE]
NoFill   == [qty |-> 0, live |-> FALSE, failed |-> FALSE]
Flat     == [s \in Symbols |-> NoPos]
NoScore  == 0
Slots    == IF Top < Cardinality(Symbols) THEN Top ELSE Cardinality(Symbols)
HeldIn(positions) == {s \in Symbols : positions[s].qty > 0}

Init == /\ saved = Flat /\ work = Flat /\ todo = <<>> /\ fill = NoFill
        /\ keys = {} /\ net = [s \in Symbols |-> 0] /\ curve = [realized |-> 0, peak |-> 0]
        /\ sent = [o \in Sides \X Symbols |-> 0] /\ held = [s \in Symbols |-> 0]
        /\ market \in Markets /\ bar = 0 /\ gate \in Gates
        /\ stuck = {} /\ adrift = {} /\ left = Trouble

Trips(kind)  == {FALSE} \cup (IF kind \in Kinds /\ left > 0 THEN {TRUE} ELSE {})
Spend(trips) == left' = IF trips THEN left - 1 ELSE left

-----------------------------------------------------------------------------
(* What the tick decides.                                                  *)

\* The symbols that have a score, the best first, ties by name.
Better(a, b) ==
  LET x == market.score[a] y == market.score[b]
  IN  IF x = y THEN a < b ELSE IF Order = "desc" THEN x > y ELSE x < y
RankUniverse(fetched) ==
  LET scored == {s \in fetched : market.score[s] # NoScore}
  IN  {s \in scored : Cardinality({t \in scored : Better(t, s)}) < Top}

\* A symbol without data is not wanted.
WantHold(fetched) == {s \in fetched : market.want[s]}

\* Outside the hours of its schedule the bot opens nothing, and what has left
\* the top stays until the strategy sells it.
ToClose_RidesThrough(positions, top, want) == {s \in HeldIn(positions) : s \notin want}
ToClose(positions, top, want) ==
  {s \in HeldIn(positions) : (market.active /\ s \notin top) \/ s \notin want}
ToOpen(positions, top, want) ==
  {s \in top : market.active /\ s \notin HeldIn(positions) /\ s \in want}

\* The orders of a tick: the sales first, by name, then the entries by rank.
Sooner(a, b) == \/ a[1] = "sell" /\ b[1] = "buy"
                \/ a[1] = "sell" /\ b[1] = "sell" /\ a[2] < b[2]
                \/ a[1] = "buy" /\ b[1] = "buy" /\ Better(a[2], b[2])
Jobs(closes, opens) ==
  LET jobs == ({"sell"} \X closes) \cup ({"buy"} \X opens)
  IN  {q \in [1..Cardinality(jobs) -> jobs] : \A i, j \in DOMAIN q : i < j => Sooner(q[i], q[j])}

-----------------------------------------------------------------------------
(* The portfolio gate.                                                     *)

Notional(pos) == pos.avg * pos.qty
Notionals(positions, symbols) == [k \in 1..Cardinality(symbols) |-> Notional(positions[SetToSeq(symbols)[k]])]
Exposures(positions) == Notionals(positions, HeldIn(positions))

Equity     == Clamp(Capital + OthersCapital + curve.realized, 1, Capital + OthersCapital + curve.peak)
PeakEquity == Capital + OthersCapital + curve.peak

\* What is held is what the store says of the running bots: of this one, what it
\* was before the tick.
Snapshot_NoOthers(pending) == <<pending>>
Snapshot(pending) == Others \o Exposures(saved) \o <<pending>>

\* heat = 0, budget = 0 and no tiers: a limit that is not set.
Allows(pending) ==
  LET risks == Snapshot(pending)
  IN  /\ gate.heat > 0 => 100 * Heat(risks) <= gate.heat * Equity
      /\ gate.budget > 0 => 100 * EffectiveRiskSquared(risks, gate.corr) <= gate.budget * gate.budget * Equity * Equity
      /\ SizeMultiplier(Equity, PeakEquity, gate.tiers) > 0

\* A new entry, shrunk in a drawdown and never enlarged (safety.ts:236), or
\* nothing.
ApplyGate(qty, price) ==
  IF ~Allows(qty * price) THEN 0
  ELSE (qty * Clamp(SizeMultiplier(Equity, PeakEquity, gate.tiers), 0, 100)) \div 100

EntryQty(s) == ApplyGate((Capital \div Slots) \div market.price[s], market.price[s])

-----------------------------------------------------------------------------
(* The tick.                                                               *)

\* Too few symbols with data: nothing is done.  What should be sold but has no
\* price waits for a later tick.
TickStarts ==
  /\ todo = <<>>
  /\ \E lost \in (IF TRUE \in Trips("data") THEN SUBSET Symbols ELSE {{}}) :
       LET fetched == Symbols \ lost
           top     == RankUniverse(fetched)
           want    == WantHold(fetched)
           closes  == ToClose(saved, top, want)
       IN  /\ Spend(lost # {})
           /\ Cardinality(fetched) >= 2
           /\ todo' \in Jobs(closes \ lost, ToOpen(saved, top, want)) /\ todo' # <<>>
           /\ work' = saved
           /\ stuck' = (stuck \cap HeldIn(saved)) \cup (closes \cap lost)
  /\ UNCHANGED <<saved, fill, book, exchange, market, bar, gate, adrift>>

Side == todo[1][1]
Sym  == todo[1][2]

\* The order is done with; after the last one the map is saved.
Pops(positions) ==
  /\ todo' = Tail(todo) /\ fill' = NoFill
  /\ work' = positions
  /\ saved' = IF Len(todo) = 1 THEN positions ELSE saved

Wanted == IF Side = "sell" THEN work[Sym].qty ELSE EntryQty(Sym)

\* No quantity: too dear, or blocked by the gate.
Skip ==
  /\ todo # <<>> /\ fill = NoFill /\ Wanted = 0
  /\ Pops(work)
  /\ UNCHANGED <<book, exchange, market, bar, gate, stuck, adrift, left>>

\* A position opened on paper is sold on paper.
OnPaper ==
  /\ todo # <<>> /\ fill = NoFill /\ Side = "sell" /\ Wanted > 0 /\ ~work[Sym].live
  /\ fill' = [qty |-> Wanted, live |-> FALSE, failed |-> FALSE]
  /\ UNCHANGED <<saved, work, todo, book, exchange, market, bar, gate, stuck, adrift, left>>

Live == todo # <<>> /\ fill = NoFill /\ Wanted > 0 /\ (Side = "sell" => work[Sym].live)

\* An order this bar has executed before under the same client id is adopted.
Adopt ==
  /\ Live /\ sent[todo[1]] > 0
  /\ fill' = [qty |-> sent[todo[1]], live |-> TRUE, failed |-> FALSE]
  /\ UNCHANGED <<saved, work, todo, book, exchange, market, bar, gate, stuck, adrift, left>>

\* A refused entry is taken on paper, a refused sale is left for the next tick;
\* so is one for more than the account holds.
Refused ==
  /\ Live /\ sent[todo[1]] = 0
  /\ \/ TRUE \in Trips("refused") /\ Spend(TRUE)
     \/ Side = "sell" /\ held[Sym] < Wanted /\ Spend(FALSE)
  /\ fill' = [qty |-> Wanted, live |-> FALSE, failed |-> (Side = "sell")]
  /\ UNCHANGED <<saved, work, todo, book, exchange, market, bar, gate, stuck, adrift>>

\* Executed, wholly or in part.  When neither the answer nor the lookup after it
\* arrives, nothing is booked; nor when the bar has booked the same side of the
\* symbol before, on paper: its key is taken.
Executed ==
  /\ Live /\ sent[todo[1]] = 0
  /\ Side = "sell" => held[Sym] >= Wanted
  /\ \E part \in Trips("part"), lost \in Trips("lost") :
       /\ ~(part /\ lost) /\ (part => Wanted > 1)
       /\ Spend(part \/ lost)
       /\ LET qty == IF part THEN Wanted - 1 ELSE Wanted
          IN  /\ sent' = [sent EXCEPT ![todo[1]] = qty]
              /\ held' = [held EXCEPT ![Sym] = IF Side = "sell" THEN @ - qty ELSE @ + qty]
              /\ fill' = [qty |-> qty, live |-> TRUE, failed |-> lost]
  /\ adrift' = IF todo[1] \in keys THEN adrift \cup {Sym} ELSE adrift
  /\ UNCHANGED <<saved, work, todo, book, market, bar, gate, stuck>>

-----------------------------------------------------------------------------
(* Booking.                                                                *)

BookTrade(signed, pnl) ==
  /\ keys' = keys \cup {todo[1]}
  /\ net' = IF fill.live THEN [net EXCEPT ![Sym] = @ + signed] ELSE net
  /\ LET total == curve.realized + pnl
     IN  curve' = [realized |-> total, peak |-> IF total > curve.peak THEN total ELSE curve.peak]

NotDone == /\ fill.failed \/ todo[1] \in keys
           /\ Pops(work) /\ UNCHANGED book
           /\ stuck' = IF Side = "sell" THEN stuck \cup {Sym} ELSE stuck

\* What was bought is what was executed, at its price.
Bought_AsWanted == [qty |-> (Capital \div Slots) \div market.price[Sym], avg |-> market.price[Sym], live |-> fill.live]
Bought == [qty |-> fill.qty, avg |-> market.price[Sym], live |-> fill.live]
BookBuy == /\ ~fill.failed /\ todo[1] \notin keys /\ Side = "buy"
           /\ Pops([work EXCEPT ![Sym] = Bought])
           /\ BookTrade(fill.qty, 0)
           /\ stuck' = stuck \ {Sym}

\* A position sold in part stays with what is left.
Rest_Kept(pos, qty) == [pos EXCEPT !.qty = @ - qty]
Rest(pos, qty) == IF qty < pos.qty THEN [pos EXCEPT !.qty = @ - qty] ELSE NoPos
BookSell == /\ ~fill.failed /\ todo[1] \notin keys /\ Side = "sell"
            /\ Pops([work EXCEPT ![Sym] = Rest(@, fill.qty)])
            /\ BookTrade(0 - fill.qty, (market.price[Sym] - work[Sym].avg) * fill.qty)
            /\ stuck' = IF fill.qty < work[Sym].qty THEN stuck \cup {Sym} ELSE stuck \ {Sym}

Book == /\ todo # <<>> /\ fill # NoFill
        /\ NotDone \/ BookBuy \/ BookSell
        /\ UNCHANGED <<exchange, market, bar, gate, adrift, left>>

-----------------------------------------------------------------------------
(* The world.                                                              *)

Unbooked(side, s) == IF <<side, s>> \in keys THEN 0 ELSE sent[<<side, s>>]

\* A tick takes less than a bar.  In the next one the client ids are other ones:
\* what was executed and not booked is not looked up again.
NewBar ==
  /\ todo = <<>> /\ bar < Bars
  /\ bar' = bar + 1 /\ market' \in Markets
  /\ keys' = {} /\ sent' = [o \in Sides \X Symbols |-> 0]
  /\ adrift' = adrift \cup {s \in Symbols : \E side \in Sides : Unbooked(side, s) > 0}
  /\ UNCHANGED <<saved, work, todo, fill, net, curve, held, gate, stuck, left>>

\* What was saved survives, and the booked trades, the positions of which are lost.
Crash ==
  /\ todo # <<>> /\ TRUE \in Trips("crash") /\ Spend(TRUE)
  /\ todo' = <<>> /\ fill' = NoFill
  /\ adrift' = adrift \cup {s \in Symbols : work[s] # saved[s]}
  /\ UNCHANGED <<saved, work, book, exchange, market, bar, gate, stuck>>

Next == TickStarts \/ Skip \/ OnPaper \/ Adopt \/ Refused \/ Executed \/ Book \/ NewBar \/ Crash
Spec == Init /\ [][Next]_vars

-----------------------------------------------------------------------------
PositionOK(p) == p = NoPos \/ (p.qty \in Nat \ {0} /\ p.avg \in Nat \ {0} /\ p.live \in BOOLEAN)

\* The states a run can be in; a symbol sold out leaves nothing in the map.  The
\* booked trades of a symbol may add up to less than nothing: a position whose
\* sale died with the tick is sold again when the account holds enough.
TypeOK ==
  /\ \A s \in Symbols : PositionOK(saved[s]) /\ PositionOK(work[s])
  /\ Range(todo) \subseteq Sides \X Symbols
  /\ fill \in [qty : Nat, live : BOOLEAN, failed : BOOLEAN]
  /\ keys \subseteq Sides \X Symbols
  /\ net \in [Symbols -> Int] /\ held \in [Symbols -> Nat] /\ sent \in [Sides \X Symbols -> Nat]
  /\ curve.realized \in Int /\ curve.peak \in Nat /\ curve.realized <= curve.peak
  /\ market \in Markets /\ bar \in 0..Bars /\ gate \in Gates
  /\ stuck \subseteq Symbols /\ adrift \subseteq Symbols /\ left \in 0..Trouble

\* Positions, booked trades and account agree on every symbol at every moment, but
\* for what is executed and not booked yet, also after partial executions, lost
\* answers that the same bar adopts, refusals and restarts; excepted are a
\* symbol whose booked position died with the tick, one whose lost answer was
\* not adopted in its bar, and one whose key of this bar a paper trade had taken
\* (runner.ts:88, :140-153, :1413, :1440).
LiveQty(pos) == IF pos.live THEN pos.qty ELSE 0
Now == IF todo = <<>> THEN saved ELSE work
BookIsReal ==
  \A s \in Symbols \ adrift :
    /\ LiveQty(Now[s]) = net[s]
    /\ held[s] = net[s] + Unbooked("buy", s) - Unbooked("sell", s)

\* The capital is split into as many parts as symbols are held: the bot holds
\* more only by those it should have sold and could not, or whose sale died with
\* the tick (runner.ts:1373-1375).
SlotsKept == Cardinality(HeldIn(Now) \ (stuck \cup adrift)) <= Slots

\* With a limit on the heat, the entries of a tick exceed it by no more than
\* each other: the gate sees what was held before the tick, and one entry.
Total(positions) == SumOf(Others) + SumOf(Exposures(positions))
Opened == {s \in Symbols : saved[s].qty = 0 /\ saved'[s].qty > 0}
SumNew == SumOf(Notionals(saved', Opened))
HeatBounded ==
  [][gate.heat > 0 =>
       \A s \in Opened : 100 * (Total(saved') - (SumNew - Notional(saved'[s]))) <= gate.heat * Equity']_saved
=============================================================================
