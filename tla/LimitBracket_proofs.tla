------------------------ MODULE LimitBracket_proofs -------------------------
(***************************************************************************)
(* The persisted state of a limit-bracket bot stays coherent and only      *)
(* moves forward, for every quantity, debounce, cooldown and cap, whatever *)
(* the broker answers and wherever the process dies.  It never buys too    *)
(* much, under every set of faults in which the broker's indexes lag       *)
(* behind by less than the bot looks; it then books and sells no more than *)
(* what its orders brought the account, and the owner's purchases at its   *)
(* price, and implements its contract.  And its orders in a session are    *)
(* capped, whatever the indexes do.  The last part proves the types.       *)
(***************************************************************************)
EXTENDS LimitBracket, FiniteSetTheorems, WellFoundedInduction, TLAPS

Order == [id : Int, side : {"none", "buy", "sell"}, rem : Int, exec : Int]

\* What one tick can see.
Observation ==
  [grace : BOOLEAN, open : BOOLEAN, session : Int, paper : BOOLEAN, crossed : BOOLEAN,
   buy : Order, sell : Order, delta : Int]

State ==
  [phase : Phases, status : {"open", "closed"}, qty : Int, live : BOOLEAN,
   baseline : Int, filled : Int, sold : Int, entryId : Int, exitId : Int,
   session : Int, count : Int, cooldown : Int,
   buyMisses : Int, sellMisses : Int, doneMisses : Int]

\* A state the decision may start from and must end in.
Good(s) == /\ s \in State
           /\ 0 <= s.sold /\ s.filled <= Qty
           /\ Coherent(s)

\* From s to t nothing is taken back.
Onward(s, t) ==
  /\ t.baseline = s.baseline
  /\ t.filled >= s.filled /\ t.sold >= s.sold
  /\ ~Buying(s) => ~Buying(t)
  /\ s.phase = "done" => t.phase = "done"

\* s and t differ in nothing that Coherent or Onward look at.
Alike(s, t) ==
  /\ t.phase = s.phase /\ t.status = s.status /\ t.qty = s.qty
  /\ t.filled = s.filled /\ t.sold = s.sold /\ t.baseline = s.baseline

LEMMA ClampBounds ==
  ASSUME NEW v \in Int, NEW lo \in Int, NEW hi \in Int, lo <= hi
  PROVE  /\ Clamp(v, lo, hi) \in Int
         /\ lo <= Clamp(v, lo, hi) /\ Clamp(v, lo, hi) <= hi
         /\ \A w \in Int : w <= v /\ w <= hi => w <= Clamp(v, lo, hi)
  BY DEF Clamp

LEMMA LargerBounds ==
  ASSUME NEW a \in Int, NEW b \in Int
  PROVE  Larger(a, b) \in Int /\ Larger(a, b) >= a /\ Larger(a, b) >= b
  BY DEF Larger

LEMMA AlikeGood ==
  ASSUME NEW s, Good(s), NEW t \in State, Alike(s, t)
  PROVE  Good(t) /\ Onward(s, t)
<1>1. s.filled \in Int /\ s.sold \in Int
  BY DEF Good, State
<1>2. QED
  BY <1>1 DEF Good, Coherent, Onward, Alike, Buying

LEMMA EnteredGood ==
  ASSUME NEW s, Good(s), NEW o \in Observation
  PROVE  Entered(s, o) \in State /\ Alike(s, Entered(s, o))
<1>1. s \in State /\ o.session \in Int /\ o.buy.id \in Int /\ o.sell.id \in Int
  BY DEF Good, Observation, Order
<1>2. s.count \in Int /\ s.cooldown \in Int /\ s.entryId \in Int /\ s.exitId \in Int
  BY <1>1 DEF State
<1>3. /\ Counted(s, o) \in Int /\ Cooled(s) \in Int
      /\ Adopted(s.entryId, o.buy) \in Int /\ Adopted(s.exitId, o.sell) \in Int
  BY <1>1, <1>2 DEF Counted, Cooled, Adopted
<1>4. QED
  BY <1>1, <1>3 DEF State, Entered, Alike

LEMMA BuyTotalBounds ==
  ASSUME BracketAssumption, NEW s, Good(s), NEW o \in Observation
  PROVE  BuyTotal(s, o) \in Int /\ s.filled <= BuyTotal(s, o) /\ BuyTotal(s, o) <= Qty
<1>1. /\ s.filled \in Int /\ 0 <= s.filled /\ s.filled <= Qty /\ Qty \in Int
      /\ o.delta \in Int /\ o.buy.exec \in Int
  BY DEF Good, State, Coherent, Observation, Order, BracketAssumption
<1>2. CASE o.paper
  BY <1>1, <1>2 DEF BuyTotal, Larger
<1>3. CASE ~o.paper /\ o.buy # NoOrder
  <2>1. BuyTotal(s, o) = Clamp(Larger(s.filled, o.buy.exec), 0, Qty)
    BY <1>3 DEF BuyTotal
  <2>2. QED
    BY <2>1, <1>1 DEF Clamp, Larger
<1>4. CASE ~o.paper /\ o.buy = NoOrder
  <2>1. BuyTotal(s, o) = IF o.delta > s.filled THEN Clamp(o.delta, 0, Qty) ELSE s.filled
    BY <1>4 DEF BuyTotal
  <2>2. QED
    BY <2>1, <1>1 DEF Clamp
<1>5. QED
  BY <1>2, <1>3, <1>4

LEMMA SellTotalBounds ==
  ASSUME NEW s, Good(s), NEW o \in Observation
  PROVE  SellTotal(s, o) \in Int /\ s.sold <= SellTotal(s, o) /\ SellTotal(s, o) <= s.filled
<1>1. /\ s.filled \in Int /\ s.sold \in Int /\ 0 <= s.sold /\ s.sold <= s.filled
      /\ o.delta \in Int /\ o.sell.exec \in Int
  BY DEF Good, State, Coherent, Observation, Order
<1>2. CASE o.paper
  BY <1>1, <1>2 DEF SellTotal
<1>3. CASE ~o.paper
  <2> DEFINE c == Clamp(s.filled - o.delta, 0, s.filled)
             m == Larger(Larger(s.sold, c), o.sell.exec)
  <2>1. SellTotal(s, o) = Clamp(m, 0, s.filled)
    BY <1>3 DEF SellTotal
  <2>2. c \in Int
    BY <1>1 DEF Clamp
  <2> HIDE DEF c
  <2>3. m \in Int /\ s.sold <= m
    BY <1>1, <2>2 DEF Larger
  <2> HIDE DEF m
  <2>4. QED
    BY <2>1, <2>3, <1>1 DEF Clamp
<1>4. QED
  BY <1>2, <1>3

-----------------------------------------------------------------------------
(* Every state a decision saves or goes on with is good and onward.        *)

LEMMA BuyFilledGood ==
  ASSUME BracketAssumption, NEW s, Good(s), NEW o \in Observation,
         Buying(s), BuyTotal(s, o) > s.filled
  PROVE  Good(BuyFilled(s, o)) /\ Onward(s, BuyFilled(s, o))
<1> DEFINE total == BuyTotal(s, o)
           ph == IF total >= Qty THEN "bought" ELSE "buy_resting"
           t == BuyFilled(s, o)
<1>1. /\ s \in State /\ s.sold = 0 /\ s.filled \in Int /\ 0 <= s.filled
      /\ Qty \in Int /\ o.paper \in BOOLEAN
  BY DEF Good, State, Coherent, Observation, BracketAssumption
<1>2. total \in Int /\ s.filled < total /\ total <= Qty
  BY BuyTotalBounds, <1>1
<1> HIDE DEF total
<1>3. StatusFor(total - s.sold) = "open" /\ total - s.sold = total
  BY <1>1, <1>2 DEF StatusFor
<1>4. ph \in Phases
  BY DEF Phases
<1>5. t = [s EXCEPT !.filled = total, !.qty = total, !.live = ~o.paper,
                    !.status = "open", !.buyMisses = 0, !.phase = ph]
  BY <1>3 DEF BuyFilled, total
<1> HIDE DEF ph
<1>6. t \in State
  BY ZenonT(40), <1>1, <1>2, <1>4, <1>5 DEF State
<1>7. /\ t.filled = total /\ t.qty = total /\ t.status = "open" /\ t.phase = ph
      /\ t.sold = 0 /\ t.baseline = s.baseline
  BY <1>1, <1>5 DEF State
<1>8. \/ ph = "bought" /\ total = Qty
      \/ ph = "buy_resting" /\ total < Qty
  <2>1. CASE total = Qty
    BY <2>1, <1>1 DEF ph
  <2>2. CASE total < Qty
    <3>1. ~(total >= Qty)
      BY <2>2, <1>1, <1>2
    <3>2. ph = "buy_resting"
      BY <3>1 DEF ph
    <3>3. QED
      BY <2>2, <3>2
  <2>3. QED
    BY <2>1, <2>2, <1>1, <1>2
<1>9. s.phase # "done"
  BY DEF Buying
<1>10. QED
  BY <1>1, <1>2, <1>6, <1>7, <1>8, <1>9 DEF Good, Coherent, Onward, Buying

LEMMA SellFilledGood ==
  ASSUME NEW s, Good(s), NEW o \in Observation,
         s.phase = "sell_resting", SellTotal(s, o) > s.sold
  PROVE  Good(SellFilled(s, o)) /\ Onward(s, SellFilled(s, o))
<1> DEFINE total == SellTotal(s, o)
           status2 == IF s.filled - total > 0 THEN s.status ELSE "closed"
           q == s.filled - total
           t == SellFilled(s, o)
<1>1. /\ s \in State /\ s.sold \in Int /\ s.filled \in Int /\ 0 <= s.sold
      /\ s.filled <= Qty /\ s.status \in {"open", "closed"}
  BY DEF Good, State, Coherent
<1>2. total \in Int /\ s.sold < total /\ total <= s.filled
  BY SellTotalBounds, <1>1
<1>3. status2 \in {"open", "closed"}
  BY <1>1
<1>a. status2 = "open" <=> s.filled - total > 0
  BY <1>1, <1>2 DEF Good, Coherent
<1>4. t = [s EXCEPT !.sold = total, !.qty = q, !.sellMisses = 0, !.status = status2]
  BY DEF SellFilled
<1>5. q \in Int
  BY <1>1, <1>2
<1> HIDE DEF total, status2, q
<1>b. s \in State /\ total \in Int
  BY <1>1, <1>2
<1>6. t \in State
  <2> DEFINE u == [s EXCEPT !.sold = total, !.qty = q]
             v == [u EXCEPT !.sellMisses = 0]
  <2>1. u \in State
    BY <1>b, <1>5 DEF State
  <2>2. t = [v EXCEPT !.status = status2]
    BY <1>4
  <2> HIDE DEF u
  <2>3. v \in State
    BY <2>1 DEF State
  <2> HIDE DEF v
  <2>4. QED
    BY <2>2, <2>3, <1>3 DEF State
<1>7. /\ t.filled = s.filled /\ t.qty = q /\ t.status = status2
      /\ t.phase = "sell_resting" /\ t.sold = total /\ t.baseline = s.baseline
  BY <1>1, <1>4 DEF State
<1>8. s.filled = Qty
  BY DEF Good, Coherent
<1>9. QED
  BY <1>1, <1>2, <1>a, <1>5, <1>6, <1>7, <1>8 DEF Good, Coherent, Onward, Buying, q

LEMMA OnwardTransitive ==
  ASSUME NEW s, Good(s), NEW t, Good(t), NEW u, Good(u), Onward(s, t), Onward(t, u)
  PROVE  Onward(s, u)
<1>1. /\ s.filled \in Int /\ t.filled \in Int /\ u.filled \in Int
      /\ s.sold \in Int /\ t.sold \in Int /\ u.sold \in Int
  BY DEF Good, State
<1>2. QED
  BY <1>1 DEF Onward

LEMMA OnwardReflexive ==
  ASSUME NEW s, Good(s)
  PROVE  Onward(s, s)
  BY DEF Onward, Good, State

LEMMA InitGood ==
  ASSUME BracketAssumption, NEW b \in Int
  PROVE  Good(InitState(b))
<1>1. Larger(0, b) \in Int
  BY DEF Larger
<1>2. InitState(b) \in State
  BY <1>1 DEF InitState, State, Phases, None
<1>3. QED
  BY <1>2 DEF Good, Coherent, InitState, Buying, BracketAssumption

\* The misses are counters.
LEMMA MissesType ==
  ASSUME BracketAssumption, NEW s, Good(s), NEW o
  PROVE  BuyMisses(s, o) \in Int /\ SellMisses(s, o) \in Int /\ Bump(s.doneMisses) \in Int
<1>1. s.buyMisses \in Int /\ s.sellMisses \in Int /\ s.doneMisses \in Int /\ Debounce \in Int
  BY DEF Good, State, BracketAssumption
<1>2. Bump(s.buyMisses) \in Int /\ Bump(s.sellMisses) \in Int /\ Bump(s.doneMisses) \in Int
  BY <1>1 DEF Bump
<1>3. QED
  BY <1>2 DEF BuyMisses, SellMisses

\* While buying, the phase may become buy_resting.
LEMMA RestingGood ==
  ASSUME NEW s, Good(s), Buying(s), NEW t \in State,
         t.phase = "buy_resting", t.status = s.status, t.qty = s.qty,
         t.filled = s.filled, t.sold = s.sold, t.baseline = s.baseline
  PROVE  Good(t) /\ Onward(s, t)
<1>1. s.filled \in Int /\ s.sold \in Int
  BY DEF Good, State
<1>2. QED
  BY <1>1 DEF Good, Coherent, Onward, Buying

\* Having bought, the phase may become sell_resting.
LEMMA SellingGood ==
  ASSUME NEW s, Good(s), s.phase \in {"bought", "sell_resting"}, NEW t \in State,
         t.phase = "sell_resting", t.status = s.status, t.qty = s.qty,
         t.filled = s.filled, t.sold = s.sold, t.baseline = s.baseline
  PROVE  Good(t) /\ Onward(s, t)
<1>1. s.filled \in Int /\ s.sold \in Int
  BY DEF Good, State
<1>2. QED
  BY <1>1 DEF Good, Coherent, Onward, Buying

\* A bot without a sell price, or with nothing left to sell, may be done.
LEMMA DoneGood ==
  ASSUME NEW s, Good(s), ~Buying(s), HasSell => s.qty = 0, NEW t \in State,
         t.phase = "done", t.status = "closed", t.qty = s.qty,
         t.filled = s.filled, t.sold = s.sold, t.baseline = s.baseline
  PROVE  Good(t) /\ Onward(s, t)
<1>1. s.filled \in Int /\ s.sold \in Int
  BY DEF Good, State
<1>2. QED
  BY <1>1 DEF Good, Coherent, Onward, Buying

LEMMA OrderedFields ==
  ASSUME BracketAssumption, NEW s \in State, NEW ph \in Phases
  PROVE  /\ Ordered(s, ph) \in State
         /\ Ordered(s, ph).phase = ph
         /\ Ordered(s, ph).status = s.status /\ Ordered(s, ph).qty = s.qty
         /\ Ordered(s, ph).filled = s.filled /\ Ordered(s, ph).sold = s.sold
         /\ Ordered(s, ph).baseline = s.baseline
<1> DEFINE n == s.count + 1
<1>1. n \in Int /\ Cooldown \in Int
  BY DEF State, BracketAssumption
<1>2. Ordered(s, ph) = [s EXCEPT !.phase = ph, !.cooldown = Cooldown, !.count = n]
  BY DEF Ordered
<1> HIDE DEF n
<1>3. QED
  BY ZenonT(40), <1>1, <1>2 DEF State

-----------------------------------------------------------------------------
(* One decision: it saves a state, or goes on to place with a state.       *)

Saves(t) == st' = t /\ pc' \in {"idle", "cleanup"} /\ UNCHANGED next
Places(t) == /\ pc' = "order" /\ next' = t /\ UNCHANGED st
             /\ request'.side \in {"buy", "sell"} /\ request'.qty \in Int
Results(t) == (Saves(t) /\ UNCHANGED request) \/ Places(t)

LEMMA AskForResults ==
  ASSUME NEW s, NEW side \in {"buy", "sell"}, NEW qty \in Int, ledger \in Int,
         AskFor(s, side, qty)
  PROVE  Results(s)
<1>1. Capped(side, qty) \in Int
  BY DEF Capped
<1>2. QED
  BY <1>1 DEF AskFor, Results, Saves, Places, Keep, Save

LEMMA BuyPlaceOrHoldResults ==
  ASSUME BracketAssumption, NEW s, Good(s), NEW o \in Observation, ledger \in Int,
         BuyPlaceOrHold(s, o)
  PROVE  \E t : Good(t) /\ Onward(s, t) /\ Results(t)
<1> DEFINE r == [s EXCEPT !.buyMisses = 0]
           h == [s EXCEPT !.buyMisses = BuyMisses(s, o)]
<1>1. s \in State /\ Buying(s) /\ s.filled \in Int /\ Qty \in Int
  BY DEF BuyPlaceOrHold, Good, State, BracketAssumption
<1>2. CASE AskFor(Ordered(r, "buy_resting"), "buy", Qty - s.filled)
  <2>1. r \in State /\ r.status = s.status /\ r.qty = s.qty /\ r.filled = s.filled
        /\ r.sold = s.sold /\ r.baseline = s.baseline
    BY <1>1 DEF State
  <2> HIDE DEF r
  <2> DEFINE t == Ordered(r, "buy_resting")
  <2>2. /\ t \in State /\ t.phase = "buy_resting" /\ t.status = s.status /\ t.qty = s.qty
        /\ t.filled = s.filled /\ t.sold = s.sold /\ t.baseline = s.baseline
    BY <2>1, OrderedFields DEF Phases
  <2>3. Results(t)
    BY <1>1, <1>2, AskForResults
  <2>4. QED
    BY <1>1, <2>2, <2>3, RestingGood
<1>3. CASE Keep(h)
  <2>1. h \in State /\ Alike(s, h)
    BY <1>1, MissesType DEF State, Alike
  <2>2. Results(h)
    BY <1>3 DEF Keep, Save, Results, Saves
  <2>3. QED
    BY <2>1, <2>2, AlikeGood
<1>4. QED
  BY <1>2, <1>3 DEF BuyPlaceOrHold

LEMMA BoughtStepResults ==
  ASSUME BracketAssumption, NEW s, Good(s), NEW o \in Observation, ledger \in Int,
         BoughtStep(s, o)
  PROVE  \E t : Good(t) /\ Onward(s, t) /\ Results(t)
<1> DEFINE d == [s EXCEPT !.phase = "done", !.status = "closed"]
           t == Ordered(s, "sell_resting")
<1>1. s \in State /\ s.phase = "bought" /\ s.qty \in Int
  BY DEF BoughtStep, Good, State
<1>2. CASE ~HasSell /\ Finish(d)
  <2>1. /\ d \in State /\ d.phase = "done" /\ d.status = "closed" /\ d.qty = s.qty
        /\ d.filled = s.filled /\ d.sold = s.sold /\ d.baseline = s.baseline
    BY <1>1 DEF State, Phases
  <2>2. Results(d)
    BY <1>2 DEF Finish, Results, Saves
  <2>3. QED
    BY <1>1, <1>2, <2>1, <2>2, DoneGood DEF Buying
<1>3. CASE AskFor(t, "sell", s.qty)
  <2>1. /\ t \in State /\ t.phase = "sell_resting" /\ t.status = s.status /\ t.qty = s.qty
        /\ t.filled = s.filled /\ t.sold = s.sold /\ t.baseline = s.baseline
    BY <1>1, OrderedFields DEF Phases
  <2>2. Results(t)
    BY <1>1, <1>3, AskForResults
  <2>3. QED
    BY <1>1, <2>1, <2>2, SellingGood
<1>4. CASE Keep(s)
  <2>1. Results(s)
    BY <1>4 DEF Keep, Save, Results, Saves
  <2>2. QED
    BY <2>1, OnwardReflexive
<1>5. QED
  BY <1>2, <1>3, <1>4 DEF BoughtStep

LEMMA SellOverResults ==
  ASSUME BracketAssumption, NEW s, Good(s), NEW o \in Observation, SellOver(s, o)
  PROVE  \E t : Good(t) /\ Onward(s, t) /\ Results(t)
<1> DEFINE t == [s EXCEPT !.sellMisses = SellMisses(s, o), !.doneMisses = Bump(@)]
           d == [t EXCEPT !.phase = "done", !.status = "closed"]
<1>1. s \in State /\ s.phase = "sell_resting" /\ s.qty = 0
  BY DEF SellOver, Good
<1>2. t = [s EXCEPT !.sellMisses = SellMisses(s, o), !.doneMisses = Bump(s.doneMisses)]
  OBVIOUS
<1>3. t \in State /\ Alike(s, t)
  BY <1>1, <1>2, MissesType DEF State, Alike
<1>4. Finish(d) \/ Keep(t)
  BY DEF SellOver
<1> HIDE DEF t
<1>5. CASE Finish(d)
  <2>1. /\ d \in State /\ d.phase = "done" /\ d.status = "closed" /\ d.qty = s.qty
        /\ d.filled = s.filled /\ d.sold = s.sold /\ d.baseline = s.baseline
    BY <1>3 DEF State, Phases, Alike
  <2>2. Results(d)
    BY <1>5 DEF Finish, Results, Saves
  <2>3. QED
    BY <1>1, <2>1, <2>2, DoneGood DEF Buying
<1>6. CASE Keep(t)
  <2>1. Results(t)
    BY <1>6 DEF Keep, Save, Results, Saves
  <2>2. QED
    BY <1>3, <2>1, AlikeGood
<1>7. QED
  BY <1>4, <1>5, <1>6

LEMMA SellPlaceOrHoldResults ==
  ASSUME BracketAssumption, NEW s, Good(s), NEW o \in Observation, ledger \in Int,
         SellPlaceOrHold(s, o)
  PROVE  \E t : Good(t) /\ Onward(s, t) /\ Results(t)
<1> DEFINE t == [s EXCEPT !.sellMisses = SellMisses(s, o), !.doneMisses = 0]
           r == [t EXCEPT !.sellMisses = 0]
           u == Ordered(r, "sell_resting")
<1>1. s \in State /\ s.phase = "sell_resting" /\ s.qty \in Int
  BY DEF SellPlaceOrHold, Good, State
<1>2. t \in State /\ Alike(s, t)
  <2> DEFINE m == SellMisses(s, o)
             v == [s EXCEPT !.sellMisses = m]
  <2>1. m \in Int
    BY MissesType
  <2> HIDE DEF m
  <2>2. v \in State /\ Alike(s, v)
    BY <1>1, <2>1 DEF State, Alike
  <2>3. t = [v EXCEPT !.doneMisses = 0]
    BY DEF m
  <2> HIDE DEF v
  <2> HIDE DEF t
  <2>4. t \in State
    BY <2>2, <2>3 DEF State
  <2>5. Alike(v, t)
    BY <2>2, <2>3 DEF State, Alike
  <2>6. QED
    BY <2>2, <2>4, <2>5 DEF Alike
<1>3. AskFor(u, "sell", s.qty) \/ Keep(t)
  BY DEF SellPlaceOrHold
<1> HIDE DEF t
<1>4. CASE AskFor(u, "sell", s.qty)
  <2>1. r \in State /\ Alike(s, r)
    BY <1>2 DEF State, Alike
  <2> HIDE DEF r
  <2>2. /\ u \in State /\ u.phase = "sell_resting" /\ u.status = s.status /\ u.qty = s.qty
        /\ u.filled = s.filled /\ u.sold = s.sold /\ u.baseline = s.baseline
    BY <2>1, OrderedFields DEF Phases, Alike
  <2>3. Results(u)
    BY <1>1, <1>4, AskForResults
  <2>4. QED
    BY <1>1, <2>2, <2>3, SellingGood
<1>5. CASE Keep(t)
  <2>1. Results(t)
    BY <1>5 DEF Keep, Save, Results, Saves
  <2>2. QED
    BY <1>2, <2>1, AlikeGood
<1>6. QED
  BY <1>3, <1>4, <1>5

LEMMA DecideResults ==
  ASSUME BracketAssumption, NEW s, Good(s), NEW o \in Observation, ledger \in Int,
         Decide(s, o)
  PROVE  \E t : Good(t) /\ Onward(s, t) /\ Results(t)
<1>1. CASE BuyFill(s, o)
  <2>1. Results(BuyFilled(s, o))
    BY <1>1 DEF BuyFill, BookFill, Save, Results, Saves
  <2>2. QED
    BY <1>1, <2>1, BuyFilledGood DEF BuyFill
<1>2. CASE BuyWait(s, o)
  <2> DEFINE v == [s EXCEPT !.buyMisses = 0]
             t == [v EXCEPT !.phase = "buy_resting"]
  <2>a. s \in State
    BY DEF Good
  <2>b. v \in State /\ Alike(s, v)
    BY <2>a DEF State, Alike
  <2> HIDE DEF v
  <2>1. /\ t \in State /\ t.phase = "buy_resting" /\ t.status = s.status /\ t.qty = s.qty
        /\ t.filled = s.filled /\ t.sold = s.sold /\ t.baseline = s.baseline
    BY <2>b DEF State, Phases, Alike
  <2>2. Results(t)
    BY <1>2 DEF BuyWait, Keep, Save, Results, Saves, v
  <2>3. QED
    BY <1>2, <2>1, <2>2, RestingGood DEF BuyWait
<1>3. CASE BuyPlaceOrHold(s, o)
  BY <1>3, BuyPlaceOrHoldResults
<1>4. CASE BoughtStep(s, o)
  BY <1>4, BoughtStepResults
<1>5. CASE SellFill(s, o)
  <2>1. Results(SellFilled(s, o))
    BY <1>5 DEF SellFill, BookFill, Save, Results, Saves
  <2>2. QED
    BY <1>5, <2>1, SellFilledGood DEF SellFill
<1>6. CASE SellOver(s, o)
  BY <1>6, SellOverResults
<1>7. CASE SellPlaceOrHold(s, o)
  BY <1>7, SellPlaceOrHoldResults
<1>8. CASE Done(s, o)
  <2>1. Results(s)
    BY <1>8 DEF Done, Finish, Results, Saves
  <2>2. QED
    BY <2>1, OnwardReflexive
<1>9. QED
  BY <1>1, <1>2, <1>3, <1>4, <1>5, <1>6, <1>7, <1>8 DEF Decide

LEMMA DecideLedger ==
  ASSUME BracketAssumption, NEW s, Good(s), NEW o \in Observation, ledger \in Int,
         Decide(s, o)
  PROVE  ledger' \in Int
<1>1. /\ BuyTotal(s, o) \in Int /\ SellTotal(s, o) \in Int /\ s.filled \in Int /\ s.sold \in Int
  BY BuyTotalBounds, SellTotalBounds DEF Good, State
<1>2. \A c \in Int : Larger(0, ledger + c) \in Int
  BY DEF Larger
<1>3. CASE BuyFill(s, o)
  <2>1. BookFill(BuyFilled(s, o), o, BuyTotal(s, o) - s.filled)
    BY <1>3 DEF BuyFill
  <2>2. BuyTotal(s, o) - s.filled \in Int
    BY <1>1
  <2>3. QED
    BY <1>2, <2>1, <2>2 DEF BookFill
<1>4. CASE SellFill(s, o)
  <2>1. BookFill(SellFilled(s, o), o, s.sold - SellTotal(s, o))
    BY <1>4 DEF SellFill
  <2>2. s.sold - SellTotal(s, o) \in Int
    BY <1>1
  <2>3. QED
    BY <1>2, <2>1, <2>2 DEF BookFill
<1>5. CASE BuyWait(s, o)
  BY <1>5 DEF BuyWait, Keep
<1>6. CASE BuyPlaceOrHold(s, o)
  BY <1>6 DEF BuyPlaceOrHold, Keep, AskFor
<1>7. CASE BoughtStep(s, o)
  BY <1>7 DEF BoughtStep, Finish, Keep, AskFor
<1>8. CASE SellOver(s, o)
  BY <1>8 DEF SellOver, Finish, Keep
<1>9. CASE SellPlaceOrHold(s, o)
  BY <1>9 DEF SellPlaceOrHold, Keep, AskFor
<1>10. CASE Done(s, o)
  BY <1>10 DEF Done, Finish
<1>11. QED
  BY <1>3, <1>4, <1>5, <1>6, <1>7, <1>8, <1>9, <1>10 DEF Decide

-----------------------------------------------------------------------------
(* The inductive invariant: the persisted state is good, and so is the one *)
(* that an order in flight will save, which is onward of the first.        *)

World ==
  /\ gate \in BOOLEAN /\ booted \in BOOLEAN /\ open \in BOOLEAN /\ session \in Int
  /\ clock \in [session : Int, open : BOOLEAN]
  /\ seen \subseteq Order /\ shown \subseteq Order /\ book \subseteq Order
  /\ bought \in Int /\ sold \in Int /\ byHand \in Int
  /\ placed \in Int /\ ledger \in Int /\ shownHeld \in Int
  /\ request.side \in {"buy", "sell"} /\ request.qty \in Int

Persisted == st # NoState => Good(st)
InFlight == pc \in {"order", "answer"} => Good(next) /\ (st # NoState => Onward(st, next))
IInv == World /\ Persisted /\ InFlight

\* What every step does to the persisted state.
Ahead == st # NoState => Onward(st, st')

LEMMA MineIsOrder ==
  ASSUME NEW side, NEW id, seen \subseteq Order
  PROVE  Mine(side, id) \in Order
<1>1. NoOrder \in Order
  BY DEF NoOrder, Order, None
<1>2. Known(side, id) \subseteq Order /\ Candidates(side) \subseteq Order
  BY DEF Known, Candidates
<1>3. CASE Known(side, id) # {}
  BY <1>2, <1>3 DEF Mine
<1>4. CASE Known(side, id) = {} /\ Cardinality(Candidates(side)) = 1
  <2>1. Candidates(side) # {}
    BY <1>4, FS_EmptySet
  <2>2. Mine(side, id) = CHOOSE x \in Candidates(side) : TRUE
    BY <1>4 DEF Mine
  <2>3. QED
    BY <2>1, <2>2, <1>2
<1>5. CASE Known(side, id) = {} /\ Cardinality(Candidates(side)) # 1
  BY <1>1, <1>5 DEF Mine
<1>6. QED
  BY <1>3, <1>4, <1>5

LEMMA ResultsKept ==
  ASSUME Persisted, NEW t, Good(t), st # NoState => Onward(st, t), Results(t)
  PROVE  Persisted' /\ InFlight' /\ Ahead
<1>1. CASE Saves(t)
  BY <1>1 DEF Saves, Persisted, InFlight, Ahead
<1>2. CASE Places(t)
  BY <1>2, OnwardReflexive DEF Places, Persisted, InFlight, Ahead
<1>3. QED
  BY <1>1, <1>2 DEF Results

\* A decision of the state the tick loaded, or of the state it created.
LEMMA DecisionKept ==
  ASSUME BracketAssumption, IInv, NEW s, Good(s), st # NoState => s = st,
         NEW o \in Observation, Decide(Entered(s, o), o)
  PROVE  /\ Persisted' /\ InFlight' /\ Ahead
         /\ ledger' \in Int /\ request'.side \in {"buy", "sell"} /\ request'.qty \in Int
<1> DEFINE e == Entered(s, o)
<1>1. Good(e) /\ Onward(s, e)
  BY EnteredGood, AlikeGood
<1>2. ledger \in Int /\ request.side \in {"buy", "sell"} /\ request.qty \in Int
  BY DEF IInv, World
<1> HIDE DEF e
<1>3. Decide(e, o)
  BY DEF e
<1>4. PICK t : Good(t) /\ Onward(e, t) /\ Results(t)
  BY <1>1, <1>2, <1>3, DecideResults
<1>5. st # NoState => Onward(st, t)
  BY <1>1, <1>4, OnwardTransitive
<1>6. Persisted' /\ InFlight' /\ Ahead
  BY <1>4, <1>5, ResultsKept DEF IInv
<1>7. ledger' \in Int
  BY <1>1, <1>2, <1>3, DecideLedger
<1>8. request'.side \in {"buy", "sell"} /\ request'.qty \in Int
  BY <1>2, <1>4 DEF Results, Places, Saves
<1>9. QED
  BY <1>6, <1>7, <1>8

\* A step that leaves the bot's own state and its tick alone keeps it good.
LEMMA Untouched ==
  ASSUME IInv, UNCHANGED st, pc' \in {"order", "answer"} => pc \in {"order", "answer"} /\ UNCHANGED next
  PROVE  Persisted' /\ InFlight' /\ Ahead
<1>1. Persisted' /\ InFlight'
  BY DEF IInv, Persisted, InFlight
<1>2. Ahead
  BY OnwardReflexive DEF IInv, Persisted, Ahead
<1>3. QED
  BY <1>1, <1>2

LEMMA ObserveKept ==
  ASSUME BracketAssumption, IInv, Observe
  PROVE  IInv' /\ Ahead
<1> DEFINE s == IF st = NoState THEN InitState(shownHeld') ELSE st
           b == Mine("buy", s.entryId)
           l == IF HasSell THEN Mine("sell", s.exitId) ELSE NoOrder
           dl == Larger(0, shownHeld' - s.baseline)
           o == [grace |-> ~booted, open |-> clock.open, session |-> clock.session,
                 paper |-> FALSE, crossed |-> FALSE, buy |-> b, sell |-> l, delta |-> dl]
<1>1. shownHeld' \in Int
  BY DEF Observe, ListHoldings, Held, IInv, World, BracketAssumption
<1>2. Good(s) /\ (st # NoState => s = st)
  BY <1>1, InitGood DEF IInv, Persisted
<1> HIDE DEF s
<1>3. s.baseline \in Int
  BY <1>2 DEF Good, State
<1>4. b \in Order /\ l \in Order
  BY MineIsOrder DEF IInv, World, NoOrder, Order, None
<1>5. dl \in Int
  BY <1>1, <1>3 DEF Larger
<1>6. clock.open \in BOOLEAN /\ clock.session \in Int /\ (~booted) \in BOOLEAN
  BY DEF IInv, World
<1>o. \/ Keep(s) /\ UNCHANGED booted
      \/ Decide(Entered(s, o), o) /\ booted' = TRUE
  BY DEF Observe, s
<1> HIDE DEF b, l, dl
<1>7. o \in Observation
  BY <1>4, <1>5, <1>6 DEF Observation
<1> HIDE DEF o
<1>8. /\ Persisted' /\ InFlight' /\ Ahead /\ booted' \in BOOLEAN
      /\ ledger' \in Int /\ request'.side \in {"buy", "sell"} /\ request'.qty \in Int
  <2>1. CASE Keep(s) /\ UNCHANGED booted
    <3>1. Results(s)
      BY <2>1 DEF Keep, Save, Results, Saves
    <3>2. st # NoState => Onward(st, s)
      BY <1>2, OnwardReflexive
    <3>3. Persisted' /\ InFlight' /\ Ahead
      BY <1>2, <3>1, <3>2, ResultsKept DEF IInv
    <3>4. QED
      BY <2>1, <3>3 DEF Keep, Save, IInv, World
  <2>2. CASE Decide(Entered(s, o), o) /\ booted' = TRUE
    BY <2>2, <1>2, <1>7, DecisionKept
  <2>3. QED
    BY <1>o, <2>1, <2>2
<1>9. UNCHANGED <<clock, seen>>
  BY <1>o DEF Keep, Save, Decide, BuyFill, BuyWait, BuyPlaceOrHold, BoughtStep, SellFill,
     SellOver, SellPlaceOrHold, Done, Finish, AskFor, BookFill
<1>10. World'
  BY <1>1, <1>8, <1>9 DEF Observe, IInv, World, brokerVars, worldVars
<1>11. QED
  BY <1>8, <1>10 DEF IInv

LEMMA TickPaperKept ==
  ASSUME BracketAssumption, IInv, TickPaper
  PROVE  IInv' /\ Ahead
<1> DEFINE s == IF st = NoState THEN InitState(0) ELSE st
           o(c) == [grace |-> ~booted, open |-> open, session |-> session,
                    paper |-> TRUE, crossed |-> c, buy |-> NoOrder, sell |-> NoOrder, delta |-> 0]
<1>1. PICK c \in BOOLEAN : Decide(Entered(s, o(c)), o(c))
  BY DEF TickPaper
<1>2. Good(s) /\ (st # NoState => s = st)
  BY InitGood DEF IInv, Persisted
<1> HIDE DEF s
<1>3. NoOrder \in Order /\ open \in BOOLEAN /\ session \in Int /\ (~booted) \in BOOLEAN
  BY DEF NoOrder, Order, None, IInv, World
<1>4. o(c) \in Observation
  BY <1>3 DEF Observation
<1> HIDE DEF o
<1>5. /\ Persisted' /\ InFlight' /\ Ahead
      /\ ledger' \in Int /\ request'.side \in {"buy", "sell"} /\ request'.qty \in Int
  BY <1>1, <1>2, <1>4, DecisionKept
<1>6. UNCHANGED <<clock, seen>>
  BY <1>1 DEF Keep, Save, Decide, BuyFill, BuyWait, BuyPlaceOrHold, BoughtStep, SellFill,
     SellOver, SellPlaceOrHold, Done, Finish, AskFor, BookFill
<1>7. World'
  BY <1>5, <1>6 DEF TickPaper, IInv, World, brokerVars, worldVars, indexVars
<1>8. QED
  BY <1>5, <1>7 DEF IInv

\* The answer of an order adds its id to the state in flight.
LEMMA AnsweredKept ==
  ASSUME BracketAssumption, IInv, OrderAnswered
  PROVE  IInv' /\ Ahead
<1> DEFINE t == IF request.side = "buy" THEN [next EXCEPT !.entryId = placed]
                                        ELSE [next EXCEPT !.exitId = placed]
<1>1. Good(next) /\ (st # NoState => Onward(st, next)) /\ placed \in Int
  BY DEF IInv, InFlight, World, OrderAnswered
<1>2. next \in State
  BY <1>1 DEF Good
<1>3. t \in State
  BY <1>1, <1>2 DEF State
<1>4. Alike(next, t)
  BY <1>2 DEF State, Alike
<1>5. Keep(t)
  BY DEF OrderAnswered
<1> HIDE DEF t
<1>6. Good(t) /\ Onward(next, t)
  BY <1>1, <1>3, <1>4, AlikeGood
<1>7. st # NoState => Onward(st, t)
  BY <1>1, <1>6, OnwardTransitive DEF IInv, Persisted
<1>8. Results(t)
  BY <1>5 DEF Keep, Save, Results, Saves
<1>9. Persisted' /\ InFlight' /\ Ahead
  BY <1>6, <1>7, <1>8, ResultsKept DEF IInv
<1>10. World'
  BY <1>5 DEF Keep, Save, OrderAnswered, IInv, World, brokerVars, indexVars, worldVars
<1>11. QED
  BY <1>9, <1>10 DEF IInv

\* An order refused, or without an answer, saves the state in flight as it is.
LEMMA UnansweredKept ==
  ASSUME IInv, OrderRefused \/ AnswerLost
  PROVE  IInv' /\ Ahead
<1>1. /\ Keep(next) /\ Good(next) /\ (st # NoState => Onward(st, next))
      /\ UNCHANGED <<booted, brokerVars, indexVars, worldVars>>
  BY DEF OrderRefused, AnswerLost, IInv, InFlight
<1>2. Results(next)
  BY <1>1 DEF Keep, Save, Results, Saves
<1>3. Persisted' /\ InFlight' /\ Ahead
  BY <1>1, <1>2, ResultsKept DEF IInv
<1>4. World'
  BY <1>1 DEF Keep, Save, IInv, World, brokerVars, indexVars, worldVars
<1>5. QED
  BY <1>3, <1>4 DEF IInv

\* What the execution of n of an order brings to whom.
Brings(x, n) ==
  \/ x.id \in Strangers /\ byHand' = byHand + n /\ UNCHANGED <<bought, sold>>
  \/ x.id \notin Strangers /\ x.side = "buy" /\ bought' = bought + n /\ UNCHANGED <<sold, byHand>>
  \/ x.id \notin Strangers /\ x.side = "sell" /\ sold' = sold + n /\ UNCHANGED <<bought, byHand>>

LEMMA ExecuteBrings ==
  ASSUME NEW x, Execute(x)
  PROVE  \E n \in 1..x.rem :
           /\ book' = (book \ {x}) \cup
                (IF n = x.rem THEN {} ELSE {[x EXCEPT !.rem = @ - n, !.exec = @ + n]})
           /\ Brings(x, n)
BY DEF Execute, Brings

LEMMA ExecuteKeepsBook ==
  ASSUME IInv, NEW x \in book, Execute(x)
  PROVE  book' \subseteq Order /\ bought' \in Int /\ sold' \in Int /\ byHand' \in Int
<1>1. x \in Order /\ bought \in Int /\ sold \in Int /\ byHand \in Int /\ book \subseteq Order
  BY DEF IInv, World
<1>2. x.rem \in Int /\ x.exec \in Int
  BY <1>1 DEF Order
<1>3. PICK n \in 1..x.rem :
        /\ book' = (book \ {x}) \cup
             (IF n = x.rem THEN {} ELSE {[x EXCEPT !.rem = @ - n, !.exec = @ + n]})
        /\ Brings(x, n)
  BY ExecuteBrings
<1> DEFINE r == x.rem - n
           k == x.exec + n
<1>4. n \in Int /\ r \in Int /\ k \in Int
  BY <1>2, <1>3
<1>5. book' \subseteq book \cup {[x EXCEPT !.rem = r, !.exec = k]}
  BY <1>3
<1> HIDE DEF r, k
<1>6. [x EXCEPT !.rem = r, !.exec = k] \in Order
  BY <1>1, <1>4 DEF Order
<1>7. book' \subseteq Order
  BY <1>1, <1>5, <1>6
<1>8. bought' \in Int /\ sold' \in Int /\ byHand' \in Int
  BY <1>1, <1>3, <1>4 DEF Brings
<1>9. QED
  BY <1>7, <1>8

LEMMA InitIInv == BracketAssumption /\ Init => IInv
<1> SUFFICES ASSUME BracketAssumption, Init PROVE IInv
  OBVIOUS
<1>1. gate \in BOOLEAN /\ Baseline \in Int
  <2>1. CASE "gate" \in faults
    BY <2>1 DEF Init, BracketAssumption
  <2>2. CASE "gate" \notin faults
    BY <2>2 DEF Init, BracketAssumption
  <2>3. QED
    BY <2>1, <2>2
<1>2. /\ clock \in [session : Int, open : BOOLEAN]
      /\ request.side \in {"buy", "sell"} /\ request.qty \in Int
  BY DEF Init
<1>a. World
  BY <1>1, <1>2 DEF Init, World
<1>3. QED
  BY <1>a DEF Init, IInv, Persisted, InFlight

LEMMA StepKept ==
  ASSUME BracketAssumption, IInv, [Next]_vars
  PROVE  IInv' /\ Ahead
<1>1. CASE TickLive
  <2>1. World'
    BY <1>1 DEF TickLive, ListOrders, IInv, World, brokerVars, worldVars
  <2>2. QED
    BY <1>1, <2>1, Untouched DEF TickLive, IInv
<1>2. CASE QueryFails
  <2>1. World'
    BY <1>2 DEF QueryFails, IInv, World, brokerVars, indexVars, worldVars
  <2>2. QED
    BY <1>2, <2>1, Untouched DEF QueryFails, IInv
<1>3. CASE Observe
  BY <1>3, ObserveKept
<1>4. CASE TickPaper
  BY <1>4, TickPaperKept
<1>5. CASE OrderRefused \/ AnswerLost
  BY <1>5, UnansweredKept
<1>6. CASE OrderAccepted
  <2> DEFINE x == [id |-> placed + 1, side |-> request.side, rem |-> request.qty, exec |-> 0]
  <2>1. x \in Order
    BY DEF IInv, World, Order
  <2>2. book' \subseteq Order
    BY <1>6, <2>1 DEF OrderAccepted, IInv, World
  <2>3. World'
    BY <1>6, <2>2 DEF OrderAccepted, IInv, World, indexVars, worldVars
  <2>4. QED
    BY <1>6, <2>3, Untouched DEF OrderAccepted, IInv
<1>7. CASE OrderAnswered
  BY <1>7, AnsweredKept
<1>8. CASE CleanedUp
  <2>1. World'
    BY <1>8 DEF CleanedUp, IInv, World, brokerVars, indexVars, worldVars
  <2>2. QED
    BY <1>8, <2>1, Untouched DEF CleanedUp, IInv
<1>9. CASE StopBot \/ StartBot
  <2>1. World'
    BY <1>9 DEF StopBot, StartBot, IInv, World, brokerVars, indexVars, worldVars, tickVars
  <2>2. QED
    BY <1>9, <2>1, Untouched DEF StopBot, StartBot, IInv, tickVars
<1>10. CASE \E id \in cancels : CancelResting(id)
  <2>1. PICK id \in cancels : CancelResting(id)
    BY <1>10
  <2>2. World'
    BY <2>1 DEF CancelResting, IInv, World, indexVars, worldVars, tickVars
  <2>3. QED
    BY <2>1, <2>2, Untouched DEF CancelResting, IInv, tickVars
<1>11. CASE Crash
  <2>1. World'
    BY <1>11 DEF Crash, IInv, World, brokerVars, indexVars
  <2>2. QED
    BY <1>11, <2>1, Untouched DEF Crash, IInv
<1>12. CASE \E x \in book : Execute(x) \/ Expire(x)
  <2>1. PICK x \in book : Execute(x) \/ Expire(x)
    BY <1>12
  <2>2. CASE Execute(x)
    <3>1. World'
      BY <2>2, ExecuteKeepsBook DEF Execute, IInv, World, indexVars, worldVars, tickVars
    <3>2. QED
      BY <2>2, <3>1, Untouched DEF Execute, IInv, tickVars
  <2>3. CASE Expire(x)
    <3>1. World'
      BY <2>3 DEF Expire, IInv, World, indexVars, worldVars, tickVars
    <3>2. QED
      BY <2>3, <3>1, Untouched DEF Expire, IInv, tickVars
  <2>4. QED
    BY <2>1, <2>2, <2>3
<1>13. CASE EnterByHand
  <2>1. PICK id \in Strangers, n \in 1..Qty :
          book' = book \cup {[id |-> id, side |-> "buy", rem |-> n, exec |-> 0]}
    BY <1>13 DEF EnterByHand
  <2>n. id \in Int /\ n \in Int
    BY DEF Strangers
  <2>o. [id |-> id, side |-> "buy", rem |-> n, exec |-> 0] \in Order
    BY <2>n DEF Order
  <2>b. book' \subseteq Order
    BY <2>1, <2>o DEF IInv, World
  <2>2. World'
    BY <1>13, <2>b DEF EnterByHand, IInv, World, indexVars, worldVars, tickVars
  <2>3. QED
    BY <1>13, <2>2, Untouched DEF EnterByHand, IInv, tickVars
<1>14. CASE MarketTurns \/ NewSession \/ GateTurns
  <2>1. open' \in BOOLEAN /\ gate' \in BOOLEAN /\ session' \in Int
    <3>1. CASE MarketTurns
      BY <3>1 DEF MarketTurns, IInv, World
    <3>2. CASE NewSession
      BY <3>2 DEF NewSession, IInv, World
    <3>3. CASE GateTurns
      BY <3>3 DEF GateTurns, IInv, World
    <3>4. QED
      BY <1>14, <3>1, <3>2, <3>3
  <2>a. UNCHANGED <<st, tickVars, booted, ledger, book, bought, sold, byHand, placed, indexVars>>
    BY <1>14 DEF MarketTurns, NewSession, GateTurns, brokerVars
  <2>b. World'
    BY <2>1, <2>a DEF IInv, World, indexVars, tickVars
  <2>2. QED
    BY <2>a, <2>b, Untouched DEF IInv, tickVars
<1>15. CASE UNCHANGED vars
  <2>1. World'
    BY <1>15 DEF vars, IInv, World, brokerVars, indexVars, worldVars, tickVars
  <2>2. QED
    BY <1>15, <2>1, Untouched DEF vars, IInv
<1>16. QED
  BY <1>1, <1>2, <1>3, <1>4, <1>5, <1>6, <1>7, <1>8, <1>9, <1>10, <1>11, <1>12, <1>13, <1>14,
     <1>15 DEF Next, Bot

-----------------------------------------------------------------------------
\* The book is kept: whatever the broker shows and wherever the process dies,
\* the persisted figures of the bot agree with each other and its phase.
THEOREM BookIsKept == ASSUME BracketAssumption PROVE Spec => []BookKept
<1>1. IInv => BookKept
  BY DEF IInv, Persisted, Good, BookKept
<1>2. IInv /\ [Next]_vars => IInv'
  BY StepKept
<1>3. QED
  BY <1>1, <1>2, InitIInv, PTL DEF Spec

\* The state only moves forward: its baseline stays, its fills are never
\* taken back, it never buys again once it has bought all.
THEOREM StateMovesForward == ASSUME BracketAssumption PROVE Spec => Forward
<1>1. IInv /\ [Next]_vars => IInv'
  BY StepKept
<1> DEFINE Step == st # NoState => /\ st'.baseline = st.baseline
                                   /\ st'.filled >= st.filled /\ st'.sold >= st.sold
                                   /\ ~Buying(st) => ~Buying(st')
                                   /\ st.phase = "done" => st'.phase = "done"
<1>2. IInv /\ [Next]_vars => [Step]_st
  BY StepKept DEF Ahead, Onward
<1> HIDE DEF Step
<1>3. Spec => [][Step]_st
  BY <1>1, <1>2, InitIInv, PTL DEF Spec
<1>4. QED
  BY <1>3 DEF Forward, Step

-----------------------------------------------------------------------------
(* What is assumed of the environment.                                     *)

\* Looks a new order of the bot is preceded by: with a death between the
\* sending and the saving only the grace tick and the one that orders.
Looks(F) == IF "crash_in_order" \in F /\ Debounce > 2 THEN 2 ELSE Debounce

\* Live trading stays on, and the broker's indexes together lag behind by
\* fewer answers than the bot looks before it orders again.
Watchful == \A F \in FaultSets : "gate" \notin F /\ OrdersLag + HoldingsLag < Looks(F)

\* Nor does the process die between an order's sending and its saving.
Careful == Watchful /\ \A F \in FaultSets : "crash_in_order" \notin F

-----------------------------------------------------------------------------
(* The invariant of the buying side.                                       *)

Unsaved == "crash_in_order" \in faults
Shows(side) == \E x \in shown : x.side = side
Waiting == pc \in {"order", "answer"}
Pending == IF pc = "holdings" THEN 1 ELSE 0

\* The looks that have counted since the last buy order was placed.
BuyLooks(s) == IF Unsaved THEN IF booted /\ s.buyMisses > 0 THEN 1 ELSE 0 ELSE s.buyMisses

\* What the account gained by orders at the bot's buy price: its own, and the
\* owner's, which it cannot tell from its own.
Gained == bought + byHand

Executed(x) == IF x.id \in Strangers THEN byHand ELSE IF x.side = "buy" THEN bought ELSE sold

OrderFits(x) ==
  /\ x.side \in {"buy", "sell"} /\ (x.id \in Strangers => x.side = "buy")
  /\ 1 <= x.rem /\ 0 <= x.exec /\ x.exec + x.rem <= Qty
  /\ x.exec <= Executed(x)

Broker ==
  /\ faults \in FaultSets /\ gate = TRUE
  /\ IsFiniteSet(book) /\ IsFiniteSet(shown)
  /\ \A x \in book \cup shown : OrderFits(x)
  /\ shownAge \in 0..OrdersLag /\ heldAge \in 0..HoldingsLag
  /\ bought \in 0..Qty /\ 0 <= sold /\ 0 <= byHand /\ 0 <= placed
  /\ shownHeld - Baseline <= Gained
  /\ pc = "holdings" => seen = shown

\* What the state, and the one in flight, say of the account.  What the owner
\* bought before the first tick is in the baseline it saw.
Account ==
  /\ st # NoState => /\ Baseline <= st.baseline /\ st.baseline <= Baseline + byHand
                     /\ st.filled <= Gained /\ st.sold <= sold
  /\ Waiting => next.filled <= Gained /\ next.sold <= sold
  /\ Waiting => 0 < request.qty /\ request.qty <= Qty

\* Before the first tick decides the bot has done nothing.
Unborn == st = NoState => /\ ~booted /\ ~Waiting /\ bought = 0 /\ sold = 0
                          /\ (\A x \in book : x.id \in Strangers)
                          /\ Baseline <= shownHeld

\* A bot that still buys has sold nothing, and asks for buys only.
StillBuys == st # NoState /\ Buying(st) =>
  /\ st.buyMisses >= 0
  /\ sold = 0 /\ OwnLive("sell") = {}
  /\ Waiting => request.side = "buy"

\* Above the baseline b the account has gained Qty, and holdings h show it.
Covered(b, h) == Qty <= Baseline + Gained - b /\ Qty - sold <= h - b

\* One past buying asks for sells only.  The account gained Qty since the
\* baseline, and the holdings show it; a buy order may still rest, when it was
\* the owner's purchases that made the count up.
HasBought == st # NoState /\ ~Buying(st) =>
  /\ Covered(st.baseline, shownHeld)
  /\ Waiting => request.side = "sell"

\* The buy orders: one at a time, within the quantity.
BuyOrders ==
  /\ \A x, y \in OwnLive("buy") : x = y
  /\ \A x \in OwnLive("buy") : bought + x.rem <= Qty

\* Before the first order nothing is bought.
FirstBuy == st # NoState /\ st.phase = "awaiting_buy" =>
  /\ ~Unsaved /\ pc # "answer" => bought = 0 /\ OwnLive("buy") = {}
  /\ booted => st.buyMisses > 0

\* As long as an order rests, or an execution is not recorded, the looks that
\* have counted are no more than what the indexes may lag behind.
BuySeen == st # NoState /\ Buying(st) /\ ~Waiting =>
  /\ OwnLive("buy") # {} => /\ Shows("buy") \/ BuyLooks(st) + Pending <= shownAge
                            /\ BuyLooks(st) <= OrdersLag
  /\ bought > st.filled => \/ BuyLooks(st) <= OrdersLag + heldAge
                           \/ shownHeld - st.baseline > st.filled

\* An order is sent when nothing rests and everything is recorded.
BuyAsked == Waiting /\ request.side = "buy" =>
  /\ next.buyMisses = 0 /\ next.phase = "buy_resting"
  /\ pc = "order" => /\ OwnLive("buy") = {} /\ bought <= next.filled
                     /\ request.qty = Qty - next.filled

BInv == /\ Broker /\ Account /\ Unborn /\ StillBuys /\ HasBought
        /\ BuyOrders /\ FirstBuy /\ BuySeen /\ BuyAsked

-----------------------------------------------------------------------------
(* The invariant of the selling side.                                      *)

SellOrders ==
  /\ sold <= Gained
  /\ \A x, y \in OwnLive("sell") : x = y
  /\ \A x \in OwnLive("sell") : sold + x.rem <= Gained

\* Before the first order nothing is sold.
FirstSell == st # NoState =>
  /\ Buying(st) \/ st.phase = "bought" => st.sellMisses = 0
  /\ st.phase = "bought" /\ pc # "answer" => sold = 0 /\ OwnLive("sell") = {}
  /\ st.phase = "sell_resting" => HasSell /\ st.sellMisses >= 0

\* What is left to sell is less than the state says: a sale is not recorded,
\* and the owner has not bought as much again.
Oversold(s) == Gained - sold < Qty - s.sold

SellSeen == st # NoState /\ st.phase = "sell_resting" /\ ~Waiting =>
  /\ OwnLive("sell") # {} => /\ Shows("sell") \/ st.sellMisses + Pending <= shownAge
                             /\ st.sellMisses <= OrdersLag
  /\ Oversold(st) => \/ st.sellMisses <= OrdersLag + heldAge
                     \/ shownHeld - st.baseline < Qty - st.sold

SellAsked == Waiting /\ request.side = "sell" =>
  /\ HasSell
  /\ next.sellMisses = 0 /\ next.phase = "sell_resting"
  /\ pc = "order" => OwnLive("sell") = {} /\ request.qty <= Gained - sold

\* A bot that asks for a buy has no miss of a sell order counted.
BuyAsksFirst == Waiting /\ request.side = "buy" => next.sellMisses = 0

SInv == SellOrders /\ FirstSell /\ SellSeen /\ SellAsked /\ BuyAsksFirst

-----------------------------------------------------------------------------
(* What a decision makes of the state, with live trading on.               *)

\* The fields of the state the invariant speaks of, but for one side's.
SameSale(s, t) ==
  t.baseline = s.baseline /\ t.sold = s.sold /\ t.sellMisses = s.sellMisses

BuyRecorded(s, o, t) ==
  /\ Saves(t) /\ SameSale(s, t) /\ UNCHANGED request
  /\ BuyTotal(s, o) > s.filled /\ t.filled = BuyTotal(s, o) /\ t.buyMisses = 0
  /\ t.phase = IF BuyTotal(s, o) >= Qty THEN "bought" ELSE "buy_resting"
BuyRests(s, o, t) ==
  /\ Saves(t) /\ SameSale(s, t) /\ UNCHANGED request
  /\ o.buy # NoOrder /\ t.filled = s.filled /\ t.buyMisses = 0 /\ t.phase = "buy_resting"
BuyHeld(s, o, t) ==
  /\ Saves(t) /\ SameSale(s, t) /\ UNCHANGED request
  /\ o.buy = NoOrder /\ BuyTotal(s, o) = s.filled
  /\ t.filled = s.filled /\ t.buyMisses = BuyMisses(s, o) /\ t.phase = s.phase
BuyAsks(s, o, t) ==
  /\ Places(t) /\ SameSale(s, t)
  /\ o.buy = NoOrder /\ BuyTotal(s, o) = s.filled
  /\ CanPlace(s, o) /\ BuyReady(s, BuyMisses(s, o))
  /\ t.filled = s.filled /\ t.buyMisses = 0 /\ t.phase = "buy_resting"
  /\ request'.side = "buy" /\ request'.qty = Qty - s.filled /\ Qty > s.filled

BuyMoves(s, o, t) ==
  BuyRecorded(s, o, t) \/ BuyRests(s, o, t) \/ BuyHeld(s, o, t) \/ BuyAsks(s, o, t)

LEMMA BuyFillMoves ==
  ASSUME BracketAssumption, NEW s, Good(s), NEW o \in Observation, BuyFill(s, o)
  PROVE  BuyRecorded(s, o, BuyFilled(s, o))
<1> DEFINE total == BuyTotal(s, o)
           ph == IF total >= Qty THEN "bought" ELSE "buy_resting"
           q == total - s.sold
           stat == StatusFor(q)
           lv == ~o.paper
           t == BuyFilled(s, o)
<1>1. s \in State
  BY DEF Good, State
<1>3. t = [s EXCEPT !.filled = total, !.qty = q, !.live = lv, !.status = stat,
                    !.buyMisses = 0, !.phase = ph]
  BY DEF BuyFilled
<1>5. Saves(t) /\ UNCHANGED request /\ total > s.filled
  BY DEF BuyFill, BookFill, Save, Saves
<1> HIDE DEF ph, stat, lv, q
<1>6. /\ t.filled = total /\ t.buyMisses = 0 /\ t.phase = ph
      /\ t.baseline = s.baseline /\ t.sold = s.sold /\ t.sellMisses = s.sellMisses
  BY <1>1, <1>3 DEF State
<1>7. QED
  BY <1>5, <1>6 DEF BuyRecorded, SameSale, ph

LEMMA BuyWaitMoves ==
  ASSUME NEW s, Good(s), NEW o, BuyWait(s, o)
  PROVE  \E t : BuyRests(s, o, t)
<1> DEFINE t == [s EXCEPT !.buyMisses = 0, !.phase = "buy_resting"]
<1>1. s \in State
  BY DEF Good
<1>2. Saves(t) /\ UNCHANGED request /\ o.buy # NoOrder
  BY DEF BuyWait, Keep, Save, Saves
<1>3. /\ t.filled = s.filled /\ t.buyMisses = 0 /\ t.phase = "buy_resting"
      /\ t.baseline = s.baseline /\ t.sold = s.sold /\ t.sellMisses = s.sellMisses
  BY <1>1 DEF State
<1> HIDE DEF t
<1>4. QED
  BY <1>2, <1>3 DEF BuyRests, SameSale

LEMMA BuyPlaceOrHoldMoves ==
  ASSUME BracketAssumption, gate = TRUE, NEW s, Good(s), NEW o \in Observation,
         BuyPlaceOrHold(s, o)
  PROVE  \E t : BuyHeld(s, o, t) \/ BuyAsks(s, o, t)
<1> DEFINE m == BuyMisses(s, o)
           h == [s EXCEPT !.buyMisses = m]
           r == [s EXCEPT !.buyMisses = 0]
           u == Ordered(r, "buy_resting")
<1>1. s \in State /\ s.filled \in Int /\ Qty \in Int /\ s.count \in Int /\ Cooldown \in Int
  BY DEF Good, State, BracketAssumption
<1>2. o.buy = NoOrder /\ BuyTotal(s, o) = s.filled
  BY DEF BuyPlaceOrHold
<1>3. CASE /\ CanPlace(s, o) /\ BuyReady(s, m) /\ Qty > s.filled
           /\ AskFor(u, "buy", Qty - s.filled)
  <2>1. /\ r \in State /\ r.baseline = s.baseline /\ r.filled = s.filled /\ r.buyMisses = 0
        /\ r.sold = s.sold
        /\ r.sellMisses = s.sellMisses /\ r.qty = s.qty /\ r.count = s.count
    BY <1>1 DEF State
  <2> HIDE DEF r
  <2>2. u = [r EXCEPT !.phase = "buy_resting", !.cooldown = Cooldown, !.count = r.count + 1]
    BY DEF Ordered
  <2>3. /\ u.baseline = s.baseline /\ u.filled = s.filled /\ u.buyMisses = 0
        /\ u.phase = "buy_resting"
        /\ u.sold = s.sold /\ u.sellMisses = s.sellMisses
    BY <1>1, <2>1, <2>2 DEF State
  <2> HIDE DEF u
  <2>4. /\ pc' = "order" /\ next' = u /\ UNCHANGED st
        /\ request' = [side |-> "buy", qty |-> Capped("buy", Qty - s.filled)]
    BY <1>3 DEF AskFor
  <2>5. request' = [side |-> "buy", qty |-> Qty - s.filled]
    BY <2>4 DEF Capped
  <2>6. Places(u)
    BY <1>1, <2>4, <2>5 DEF Places
  <2>7. BuyAsks(s, o, u)
    BY <1>2, <1>3, <2>3, <2>5, <2>6 DEF BuyAsks, SameSale
  <2>8. QED
    BY <2>7
<1>4. CASE Keep(h)
  <2>1. Saves(h) /\ UNCHANGED request
    BY <1>4 DEF Keep, Save, Saves
  <2> HIDE DEF m
  <2>2. /\ h.baseline = s.baseline /\ h.filled = s.filled /\ h.buyMisses = m /\ h.phase = s.phase
        /\ h.sold = s.sold /\ h.sellMisses = s.sellMisses
    BY <1>1 DEF State
  <2> HIDE DEF h
  <2>3. BuyHeld(s, o, h)
    BY <1>2, <2>1, <2>2 DEF BuyHeld, SameSale, m
  <2>4. QED
    BY <2>3
<1>5. QED
  BY <1>3, <1>4 DEF BuyPlaceOrHold

LEMMA BuyingMoves ==
  ASSUME BracketAssumption, gate = TRUE, NEW s, Good(s), NEW o \in Observation,
         Buying(s), Decide(s, o)
  PROVE  \E t : BuyMoves(s, o, t)
<1>1. BuyFill(s, o) \/ BuyWait(s, o) \/ BuyPlaceOrHold(s, o)
  BY DEF Decide, Buying, BoughtStep, SellFill, SellOver, SellPlaceOrHold, Done
<1>2. QED
  BY <1>1, BuyFillMoves, BuyWaitMoves, BuyPlaceOrHoldMoves DEF BuyMoves

SameBuy(s, t) ==
  t.baseline = s.baseline /\ t.filled = s.filled /\ t.buyMisses = s.buyMisses

SaleRecorded(s, o, t) ==
  /\ Saves(t) /\ SameBuy(s, t) /\ UNCHANGED request
  /\ s.phase = "sell_resting" /\ t.phase = "sell_resting"
  /\ SellTotal(s, o) > s.sold /\ t.sold = SellTotal(s, o) /\ t.sellMisses = 0
SaleHeld(s, o, t) ==
  /\ Saves(t) /\ SameBuy(s, t) /\ UNCHANGED request
  /\ t.sold = s.sold /\ t.phase \in {s.phase, "done"}
  /\ s.phase = "bought" => t.sellMisses = s.sellMisses
  /\ s.phase = "sell_resting" => SellTotal(s, o) = s.sold /\ t.sellMisses = SellMisses(s, o)
SaleAsks(s, o, t) ==
  /\ Places(t) /\ SameBuy(s, t)
  /\ o.sell = NoOrder /\ CanPlace(s, o)
  /\ t.sold = s.sold /\ t.phase = "sell_resting"
  /\ request'.side = "sell" /\ 0 < request'.qty /\ request'.qty <= s.qty
  /\ \/ s.phase = "bought" /\ HasSell /\ t.sellMisses = s.sellMisses
     \/ /\ s.phase = "sell_resting" /\ t.sellMisses = 0
        /\ SellTotal(s, o) = s.sold /\ SellReady(SellMisses(s, o))

SaleMoves(s, o, t) == SaleRecorded(s, o, t) \/ SaleHeld(s, o, t) \/ SaleAsks(s, o, t)

\* An order to sell asks for no more than what is left.
LEMMA AskForSale ==
  ASSUME gate = TRUE, NEW u, NEW qty \in Int, qty > 0, ledger \in Int, AskFor(u, "sell", qty)
  PROVE  /\ Places(u) /\ request'.side = "sell"
         /\ 0 < request'.qty /\ request'.qty <= qty
<1> DEFINE q == Capped("sell", qty)
<1>1. q \in Int /\ 0 < q /\ q <= qty
  BY DEF Capped
<1>2. /\ pc' = "order" /\ next' = u /\ UNCHANGED st
      /\ request' = [side |-> "sell", qty |-> q]
  BY DEF AskFor
<1> HIDE DEF q
<1>3. QED
  BY <1>1, <1>2 DEF Places

\* Placing an order leaves the figures alone.
LEMMA OrderedKeeps ==
  ASSUME NEW s \in State, NEW ph
  PROVE  /\ Ordered(s, ph).phase = ph /\ Ordered(s, ph).baseline = s.baseline
         /\ Ordered(s, ph).filled = s.filled /\ Ordered(s, ph).sold = s.sold
         /\ Ordered(s, ph).buyMisses = s.buyMisses /\ Ordered(s, ph).sellMisses = s.sellMisses
<1> DEFINE n == s.count + 1
<1>1. Ordered(s, ph) = [s EXCEPT !.phase = ph, !.cooldown = Cooldown, !.count = n]
  BY DEF Ordered
<1> HIDE DEF n
<1>2. QED
  BY <1>1 DEF State

LEMMA BoughtStepMoves ==
  ASSUME BracketAssumption, gate = TRUE, ledger \in Int, NEW s, Good(s), NEW o, BoughtStep(s, o)
  PROVE  \E t : SaleMoves(s, o, t)
<1> DEFINE d == [s EXCEPT !.phase = "done", !.status = "closed"]
           u == Ordered(s, "sell_resting")
<1>1. s \in State /\ s.phase = "bought" /\ s.qty \in Int /\ s.qty > 0
  BY DEF BoughtStep, Good, State, Coherent, BracketAssumption
<1>2. CASE Finish(d)
  <2>1. /\ d.phase = "done" /\ d.filled = s.filled /\ d.sold = s.sold
        /\ d.baseline = s.baseline /\ d.buyMisses = s.buyMisses /\ d.sellMisses = s.sellMisses
    BY <1>1 DEF State
  <2>2. Saves(d) /\ UNCHANGED request
    BY <1>2 DEF Finish, Saves
  <2> HIDE DEF d
  <2>3. SaleHeld(s, o, d)
    BY <1>1, <2>1, <2>2 DEF SaleHeld, SameBuy
  <2>4. QED
    BY <2>3 DEF SaleMoves
<1>3. CASE HasSell /\ CanPlace(s, o) /\ o.sell = NoOrder /\ AskFor(u, "sell", s.qty)
  <2>1. /\ u.phase = "sell_resting" /\ u.filled = s.filled /\ u.sold = s.sold
        /\ u.baseline = s.baseline /\ u.buyMisses = s.buyMisses /\ u.sellMisses = s.sellMisses
    BY <1>1, OrderedKeeps
  <2> HIDE DEF u
  <2>2. /\ Places(u) /\ request'.side = "sell" /\ 0 < request'.qty /\ request'.qty <= s.qty
    BY <1>1, <1>3, AskForSale
  <2>3. SaleAsks(s, o, u)
    BY <1>1, <1>3, <2>1, <2>2 DEF SaleAsks, SameBuy
  <2>4. QED
    BY <2>3 DEF SaleMoves
<1>4. CASE Keep(s)
  <2>1. SaleHeld(s, o, s)
    BY <1>1, <1>4 DEF SaleHeld, SameBuy, Keep, Save, Saves
  <2>2. QED
    BY <2>1 DEF SaleMoves
<1>5. QED
  BY <1>2, <1>3, <1>4 DEF BoughtStep

LEMMA SellFillMoves ==
  ASSUME NEW s, Good(s), NEW o, SellFill(s, o)
  PROVE  \E t : SaleMoves(s, o, t)
<1> DEFINE total == SellTotal(s, o)
           q == s.filled - total
           stat == IF s.filled - total > 0 THEN s.status ELSE "closed"
           t == SellFilled(s, o)
<1>1. s \in State /\ s.phase = "sell_resting"
  BY DEF Good, SellFill
<1>2. t = [s EXCEPT !.sold = total, !.qty = q, !.sellMisses = 0, !.status = stat]
  BY DEF SellFilled
<1>3. Saves(t) /\ UNCHANGED request /\ total > s.sold
  BY DEF SellFill, BookFill, Save, Saves
<1> HIDE DEF q, stat
<1>4. /\ t.phase = "sell_resting" /\ t.filled = s.filled /\ t.sold = total
      /\ t.baseline = s.baseline /\ t.buyMisses = s.buyMisses /\ t.sellMisses = 0
  BY <1>1, <1>2 DEF State
<1>5. SaleRecorded(s, o, t)
  BY <1>1, <1>3, <1>4 DEF SaleRecorded, SameBuy
<1>6. QED
  BY <1>5 DEF SaleMoves

\* Counting the misses leaves the rest alone.
Missed(s, m, k) == [s EXCEPT !.sellMisses = m, !.doneMisses = k]

LEMMA MissedKeeps ==
  ASSUME NEW s \in State, NEW m \in Int, NEW k \in Int
  PROVE  /\ Missed(s, m, k) \in State /\ Missed(s, m, k).phase = s.phase
         /\ Missed(s, m, k).baseline = s.baseline
         /\ Missed(s, m, k).filled = s.filled /\ Missed(s, m, k).sold = s.sold
         /\ Missed(s, m, k).buyMisses = s.buyMisses /\ Missed(s, m, k).sellMisses = m
<1> DEFINE v == [s EXCEPT !.sellMisses = m]
<1>1. /\ v \in State /\ v.phase = s.phase /\ v.filled = s.filled /\ v.sold = s.sold
      /\ v.baseline = s.baseline /\ v.buyMisses = s.buyMisses /\ v.sellMisses = m
  BY DEF State
<1>2. Missed(s, m, k) = [v EXCEPT !.doneMisses = k]
  BY DEF Missed
<1> HIDE DEF v
<1>3. QED
  BY <1>1, <1>2 DEF State

\* A sale that is not recorded: the misses are counted, the bot waits or is done.
LEMMA SellOverMoves ==
  ASSUME BracketAssumption, NEW s, Good(s), NEW o, SellOver(s, o)
  PROVE  \E t : SaleMoves(s, o, t)
<1> DEFINE m == SellMisses(s, o)
           k == Bump(s.doneMisses)
           t == [s EXCEPT !.sellMisses = m, !.doneMisses = k]
           d == [t EXCEPT !.phase = "done", !.status = "closed"]
<1>m. m \in Int /\ k \in Int
  BY MissesType
<1>1. s \in State /\ s.phase = "sell_resting" /\ SellTotal(s, o) = s.sold
  BY DEF Good, SellOver
<1>2. Finish(d) \/ Keep(t)
  BY DEF SellOver
<1>e. t = Missed(s, m, k)
  BY DEF Missed
<1> HIDE DEF m, k, t
<1>3. /\ t \in State /\ t.phase = s.phase /\ t.filled = s.filled /\ t.sold = s.sold
      /\ t.baseline = s.baseline /\ t.buyMisses = s.buyMisses /\ t.sellMisses = m
  BY <1>1, <1>m, <1>e, MissedKeeps
<1>4. CASE Finish(d)
  <2>1. /\ d.phase = "done" /\ d.filled = s.filled /\ d.sold = s.sold
        /\ d.baseline = s.baseline /\ d.buyMisses = s.buyMisses /\ d.sellMisses = m
    BY <1>3 DEF State
  <2>2. Saves(d) /\ UNCHANGED request
    BY <1>4 DEF Finish, Saves
  <2> HIDE DEF d
  <2>3. SaleHeld(s, o, d)
    BY <1>1, <2>1, <2>2 DEF SaleHeld, SameBuy, m
  <2>4. QED
    BY <2>3 DEF SaleMoves
<1>5. CASE Keep(t)
  <2>1. Saves(t) /\ UNCHANGED request
    BY <1>5 DEF Keep, Save, Saves
  <2>2. SaleHeld(s, o, t)
    BY <1>1, <1>3, <2>1 DEF SaleHeld, SameBuy, m
  <2>3. QED
    BY <2>2 DEF SaleMoves
<1>6. QED
  BY <1>2, <1>4, <1>5

LEMMA SellPlaceOrHoldMoves ==
  ASSUME BracketAssumption, gate = TRUE, ledger \in Int, NEW s, Good(s), NEW o,
         SellPlaceOrHold(s, o)
  PROVE  \E t : SaleMoves(s, o, t)
<1> DEFINE m == SellMisses(s, o)
           t == [s EXCEPT !.sellMisses = m, !.doneMisses = 0]
           r == [t EXCEPT !.sellMisses = 0]
           u == Ordered(r, "sell_resting")
<1>1. s \in State /\ s.phase = "sell_resting" /\ SellTotal(s, o) = s.sold /\ s.qty \in Int
  BY DEF Good, SellPlaceOrHold, State
<1>m. m \in Int /\ 0 \in Int
  BY MissesType
<1>2. t = Missed(s, m, 0)
  BY DEF Missed
<1> HIDE DEF m
<1>3. /\ t \in State /\ t.phase = s.phase /\ t.filled = s.filled /\ t.sold = s.sold
      /\ t.baseline = s.baseline /\ t.buyMisses = s.buyMisses /\ t.sellMisses = m
  <2> HIDE DEF t
  <2>1. s \in State
    BY <1>1
  <2>2. 0 \in Int
    OBVIOUS
  <2>3. /\ Missed(s, m, 0) \in State /\ Missed(s, m, 0).phase = s.phase
        /\ Missed(s, m, 0).baseline = s.baseline
        /\ Missed(s, m, 0).filled = s.filled /\ Missed(s, m, 0).sold = s.sold
        /\ Missed(s, m, 0).buyMisses = s.buyMisses /\ Missed(s, m, 0).sellMisses = m
    BY <2>1, <2>2, <1>m, MissedKeeps
  <2>4. QED
    BY <2>3, <1>2
<1>4. \/ /\ o.sell = NoOrder /\ SellReady(m) /\ CanPlace(s, o) /\ s.qty > 0
         /\ AskFor(u, "sell", s.qty)
      \/ Keep(t)
  BY <1>3 DEF SellPlaceOrHold, m
<1> HIDE DEF t
<1>5. CASE /\ o.sell = NoOrder /\ SellReady(m) /\ CanPlace(s, o) /\ s.qty > 0
           /\ AskFor(u, "sell", s.qty)
  <2>1. /\ r \in State /\ r.filled = s.filled /\ r.sold = s.sold
        /\ r.baseline = s.baseline /\ r.buyMisses = s.buyMisses /\ r.sellMisses = 0
    BY <1>3 DEF State
  <2> HIDE DEF r
  <2>2. /\ u.phase = "sell_resting" /\ u.filled = s.filled /\ u.sold = s.sold
        /\ u.baseline = s.baseline /\ u.buyMisses = s.buyMisses /\ u.sellMisses = 0
    BY <2>1, OrderedKeeps
  <2> HIDE DEF u
  <2>3. /\ Places(u) /\ request'.side = "sell" /\ 0 < request'.qty /\ request'.qty <= s.qty
    BY <1>1, <1>5, AskForSale
  <2>4. SaleAsks(s, o, u)
    BY <1>1, <1>5, <2>2, <2>3 DEF SaleAsks, SameBuy, m
  <2>5. QED
    BY <2>4 DEF SaleMoves
<1>6. CASE Keep(t)
  <2>1. Saves(t) /\ UNCHANGED request
    BY <1>6 DEF Keep, Save, Saves
  <2>2. SaleHeld(s, o, t)
    BY <1>1, <1>3, <2>1 DEF SaleHeld, SameBuy, m
  <2>3. QED
    BY <2>2 DEF SaleMoves
<1>7. QED
  BY <1>4, <1>5, <1>6

LEMMA SellingMoves ==
  ASSUME BracketAssumption, gate = TRUE, ledger \in Int, NEW s, Good(s), NEW o,
         ~Buying(s), Decide(s, o)
  PROVE  \E t : SaleMoves(s, o, t)
<1>1. CASE Done(s, o)
  <2>1. SaleHeld(s, o, s)
    BY <1>1 DEF Done, Finish, SaleHeld, SameBuy, Saves
  <2>2. QED
    BY <2>1 DEF SaleMoves
<1>2. CASE BoughtStep(s, o) \/ SellFill(s, o) \/ SellOver(s, o) \/ SellPlaceOrHold(s, o)
  BY <1>2, BoughtStepMoves, SellFillMoves, SellOverMoves, SellPlaceOrHoldMoves
<1>3. QED
  BY <1>1, <1>2 DEF Decide, BuyFill, BuyWait, BuyPlaceOrHold

-----------------------------------------------------------------------------
(* What a tick finds in the listing it has read.                           *)

LEMMA MineFound ==
  ASSUME IsFiniteSet(seen), NEW side \in {"buy", "sell"}, NEW id
  PROVE  /\ Mine(side, id) = NoOrder \/ (Mine(side, id) \in seen /\ Mine(side, id).side = side)
         /\ Mine(side, id) = NoOrder /\ ~Ambiguous(side, id) => \A x \in seen : x.side # side
<1> DEFINE C == Candidates(side)
           K == Known(side, id)
<1>1. C = {x \in seen : x.side = side} /\ K \subseteq C
  BY DEF Candidates, Known
<1>2. NoOrder.side = "none"
  BY DEF NoOrder
<1>3. IsFiniteSet(C)
  BY <1>1, FS_Subset
<1>4. CASE K # {}
  <2>1. Mine(side, id) \in C
    BY <1>1, <1>4 DEF Mine
  <2>2. QED
    BY <2>1, <1>1, <1>2
<1>5. CASE K = {} /\ Cardinality(C) = 1
  <2>1. C # {}
    BY <1>5, FS_EmptySet
  <2>2. Mine(side, id) = CHOOSE x \in C : TRUE
    BY <1>5 DEF Mine
  <2>3. Mine(side, id) \in C
    BY <2>1, <2>2
  <2>4. QED
    BY <2>3, <1>1, <1>2
<1>6. CASE K = {} /\ Cardinality(C) # 1
  <2>1. Mine(side, id) = NoOrder
    BY <1>6 DEF Mine
  <2>2. ASSUME ~Ambiguous(side, id) PROVE C = {}
    <3>1. ~(Cardinality(C) > 1)
      BY <1>6, <2>2 DEF Ambiguous
    <3>2. Cardinality(C) \in Nat
      BY <1>3, FS_CardinalityType
    <3>3. Cardinality(C) = 0
      BY <1>6, <3>1, <3>2
    <3>4. QED
      BY <1>3, <3>3, FS_EmptySet
  <2>3. QED
    BY <1>1, <2>1, <2>2
<1>7. QED
  BY <1>4, <1>5, <1>6

-----------------------------------------------------------------------------
(* The steps of the environment keep the invariant of the buying side.     *)

\* A tick that ends without a decision, and the operator, change nothing that
\* the invariant speaks of but where the tick is; a death loses a tick.
LEMMA QuietKeepsBuys ==
  ASSUME BracketAssumption, IInv, BInv,
         UNCHANGED <<st, next, request, faults, gate, book, bought, sold, byHand, placed,
                     indexVars>>,
         booted' => booted,
         \/ pc' = pc /\ seen' = seen
         \/ pc' \notin {"holdings", "order", "answer"} /\ (Waiting => Unsaved /\ ~booted')
  PROVE  BInv'
<1>u. /\ st' = st /\ next' = next /\ request' = request /\ faults' = faults /\ gate' = gate
      /\ book' = book /\ bought' = bought /\ sold' = sold /\ byHand' = byHand
      /\ placed' = placed
      /\ shown' = shown /\ shownAge' = shownAge /\ shownHeld' = shownHeld /\ heldAge' = heldAge
  BY DEF indexVars
<1>w. Waiting' => Waiting
  BY DEF Waiting
<1>1. Broker'
  BY <1>u DEF BInv, Broker, OrderFits, Executed, Gained
<1>a. Account' /\ Unborn' /\ HasBought' /\ BuyOrders' /\ StillBuys'
  BY <1>u, <1>w DEF BInv, Account, Unborn, StillBuys, HasBought, BuyOrders, OwnLive, Buying, Gained, Covered
<1>2. FirstBuy'
  BY <1>u, <1>w DEF BInv, FirstBuy, Waiting, Unsaved, OwnLive
<1>3. BuySeen'
  <2> SUFFICES ASSUME st # NoState, Buying(st), ~Waiting'
               PROVE  /\ OwnLive("buy") # {} =>
                           /\ Shows("buy") \/ BuyLooks(st)' + Pending' <= shownAge
                           /\ BuyLooks(st)' <= OrdersLag
                      /\ bought > st.filled =>
                           \/ BuyLooks(st)' <= OrdersLag + heldAge
                           \/ shownHeld - st.baseline > st.filled
    BY <1>u DEF BuySeen, OwnLive, Shows, Buying
  <2>1. /\ st.buyMisses \in Int /\ st.buyMisses >= 0 /\ shownAge \in Nat /\ heldAge \in Nat
        /\ OrdersLag \in Nat
    BY DEF BInv, StillBuys, Broker, IInv, Persisted, Good, State, BracketAssumption
  <2>2. CASE Waiting
    <3>1. BuyLooks(st)' = 0 /\ Pending' = 0
      BY <1>u, <2>2 DEF BuyLooks, Unsaved, Pending, Waiting
    <3>2. QED
      BY <2>1, <3>1
  <2>3. CASE ~Waiting
    <3>1. BuyLooks(st)' <= BuyLooks(st) /\ BuyLooks(st) \in Int /\ BuyLooks(st)' \in Int
      <4>1. CASE Unsaved
        BY <1>u, <2>1, <4>1 DEF BuyLooks, Unsaved
      <4>2. CASE ~Unsaved
        BY <1>u, <2>1, <4>2 DEF BuyLooks, Unsaved
      <4>3. QED
        BY <4>1, <4>2
    <3>2. Pending' <= Pending /\ Pending \in Int /\ Pending' \in Int
      BY DEF Pending
    <3>3. QED
      BY <2>1, <2>3, <3>1, <3>2 DEF BInv, BuySeen
  <2>4. QED
    BY <2>2, <2>3
<1>4. BuyAsked'
  BY <1>u, <1>w DEF BInv, BuyAsked, Waiting, OwnLive
<1>5. QED
  BY <1>1, <1>a, <1>2, <1>3, <1>4 DEF BInv

\* So does an order that lapses or is cancelled.
LEMMA ShrinkingKeepsBuys ==
  ASSUME BInv, book' \subseteq book,
         UNCHANGED <<st, pc, seen, next, request, booted, faults, gate, bought, sold, byHand, placed,
                   indexVars>>
  PROVE  BInv'
<1>1. \A side : OwnLive(side)' \subseteq OwnLive(side)
  BY DEF OwnLive
<1>2. IsFiniteSet(book')
  BY FS_Subset DEF BInv, Broker
<1>3. Broker'
  BY <1>2 DEF BInv, Broker, OrderFits, Executed, Gained, indexVars
<1>4. Account' /\ Unborn' /\ StillBuys' /\ HasBought' /\ BuyOrders'
  BY <1>1 DEF BInv, Account, Unborn, StillBuys, HasBought, BuyOrders, Waiting, Gained, Covered, indexVars
<1>5. FirstBuy' /\ BuySeen' /\ BuyAsked'
  BY <1>1 DEF BInv, FirstBuy, BuySeen, BuyAsked, Waiting, Unsaved, Shows, BuyLooks, Pending,
              indexVars
<1>6. QED
  BY <1>3, <1>4, <1>5 DEF BInv

\* The owner rests an order, or has one executed: the bot's own orders stay.
Owners ==
  /\ IsFiniteSet(book')
  /\ \A x \in book' : (x \in book \/ x.id \in Strangers) /\ OrderFits(x)'
  /\ \A x \in book : x.id \notin Strangers => x \in book'
  /\ byHand' \in Int /\ byHand <= byHand'
  /\ UNCHANGED <<st, pc, seen, next, request, booted, faults, gate, bought, sold, placed, indexVars>>

LEMMA OwnersStep ==
  ASSUME IInv, BInv, EnterByHand \/ \E x \in book : x.id \in Strangers /\ Execute(x)
  PROVE  Owners
<1>f. byHand \in Int /\ 0 <= byHand /\ IsFiniteSet(book) /\ book \subseteq Order
  BY DEF IInv, World, BInv, Broker
<1>1. CASE EnterByHand
  <2>1. PICK id \in Strangers, n \in 1..Qty :
          book' = book \cup {[id |-> id, side |-> "buy", rem |-> n, exec |-> 0]}
    BY <1>1 DEF EnterByHand
  <2>2. UNCHANGED <<st, pc, seen, next, request, booted, faults, gate, bought, sold, byHand,
                    placed, indexVars>>
    BY <1>1 DEF EnterByHand, tickVars, worldVars
  <2> DEFINE z == [id |-> id, side |-> "buy", rem |-> n, exec |-> 0]
  <2>3. z.id = id /\ z.side = "buy" /\ z.rem = n /\ z.exec = 0 /\ book' = book \cup {z}
    BY <2>1
  <2> HIDE DEF z
  <2>4. n \in Int /\ 1 <= n /\ 0 + n <= Qty
    OBVIOUS
  <2>5. OrderFits(z)'
    BY <1>f, <2>2, <2>3, <2>4 DEF OrderFits, Executed
  <2>6. \A x \in book : OrderFits(x)'
    BY <2>2 DEF BInv, Broker, OrderFits, Executed
  <2>7. IsFiniteSet(book')
    BY <1>f, <2>3, FS_AddElement
  <2>8. byHand' \in Int /\ byHand <= byHand'
    BY <1>f, <2>2
  <2>9. QED
    BY <2>2, <2>3, <2>5, <2>6, <2>7, <2>8 DEF Owners
<1>2. CASE \E x \in book : x.id \in Strangers /\ Execute(x)
  <2>1. PICK x \in book : x.id \in Strangers /\ Execute(x)
    BY <1>2
  <2>2. PICK n \in 1..x.rem :
          /\ book' = (book \ {x}) \cup
               (IF n = x.rem THEN {} ELSE {[x EXCEPT !.rem = @ - n, !.exec = @ + n]})
          /\ Brings(x, n)
    BY <2>1, ExecuteBrings
  <2>3. /\ x \in Order /\ x.rem \in Int /\ x.exec \in Int /\ OrderFits(x)
        /\ byHand' = byHand + n /\ bought' = bought /\ sold' = sold
    BY <1>f, <2>1, <2>2 DEF Order, BInv, Broker, Brings
  <2>4. UNCHANGED <<st, pc, seen, next, request, booted, faults, gate, bought, sold,
                    placed, indexVars>>
    BY <2>1, <2>3 DEF Execute, tickVars, worldVars
  <2> DEFINE r == x.rem - n
             k == x.exec + n
             y == [x EXCEPT !.rem = r, !.exec = k]
  <2>5. n \in Int /\ 1 <= n /\ n <= x.rem /\ r \in Int /\ k \in Int
    BY <2>2, <2>3
  <2>6. book' = (book \ {x}) \cup (IF n = x.rem THEN {} ELSE {y})
    BY <2>2
  <2> HIDE DEF r, k
  <2>7. y.id = x.id /\ y.side = x.side /\ y.rem = r /\ y.exec = k
    BY <2>3 DEF Order
  <2> HIDE DEF y
  <2>8. IsFiniteSet(book')
    <3>1. IsFiniteSet(book \ {x})
      BY <1>f, FS_Subset
    <3>2. IsFiniteSet((book \ {x}) \cup {y})
      BY <3>1, FS_AddElement
    <3>3. QED
      BY <2>6, <3>1, <3>2, FS_Subset
  <2>9. ASSUME NEW z \in book PROVE OrderFits(z)'
    <3>1. OrderFits(z) /\ z.exec \in Int
      BY <1>f DEF BInv, Broker, Order
    <3>2. QED
      BY <1>f, <2>3, <2>5, <3>1 DEF OrderFits, Executed
  <2>10. n # x.rem => OrderFits(y)'
    <3>1. n # x.rem => 1 <= r /\ 0 <= k /\ k + r <= Qty
      BY <2>3, <2>5 DEF OrderFits, r, k
    <3>2. k <= byHand'
      BY <1>f, <2>1, <2>3, <2>5 DEF OrderFits, Executed, k
    <3>3. QED
      BY <2>1, <2>3, <2>7, <3>1, <3>2 DEF OrderFits, Executed
  <2>11. \A z \in book' : (z \in book \/ z.id \in Strangers) /\ OrderFits(z)'
    BY <2>1, <2>6, <2>7, <2>9, <2>10
  <2>12. \A z \in book : z.id \notin Strangers => z \in book'
    BY <2>1, <2>6
  <2>13. byHand' \in Int /\ byHand <= byHand'
    BY <1>f, <2>3, <2>5
  <2>14. QED
    BY <2>4, <2>8, <2>11, <2>12, <2>13 DEF Owners
<1>3. QED
  BY <1>1, <1>2

LEMMA OwnersKeepBuys ==
  ASSUME BracketAssumption, IInv, BInv, Owners
  PROVE  BInv'
<1>1. /\ UNCHANGED <<st, pc, seen, next, request, booted, faults, gate, bought, sold, placed,
                     shown, shownAge, shownHeld, heldAge>>
      /\ byHand' \in Int /\ byHand <= byHand' /\ byHand \in Int /\ 0 <= byHand
      /\ bought \in Int /\ sold \in Int /\ shownHeld \in Int /\ Baseline \in Int /\ Qty \in Int
  BY DEF Owners, indexVars, IInv, World, BInv, Broker, BracketAssumption
<1>2. \A side : OwnLive(side)' = OwnLive(side)
  BY DEF Owners, OwnLive
<1>3. Gained \in Int /\ Gained' \in Int /\ Gained <= Gained'
  BY <1>1 DEF Gained
<1>4. Broker'
  <2>1. \A x \in shown' : OrderFits(x)'
    <3> SUFFICES ASSUME NEW x \in shown PROVE OrderFits(x)'
      BY <1>1
    <3>1. OrderFits(x) /\ x.exec \in Int
      BY DEF BInv, Broker, IInv, World, Order
    <3>2. QED
      BY <1>1, <3>1 DEF OrderFits, Executed
  <2>2. shownHeld' - Baseline <= Gained'
    BY <1>1, <1>3 DEF BInv, Broker
  <2>3. IsFiniteSet(book') /\ \A x \in book' : OrderFits(x)'
    BY DEF Owners
  <2>4. 0 <= byHand'
    BY <1>1
  <2>5. QED
    BY <1>1, <2>1, <2>2, <2>3, <2>4 DEF BInv, Broker
<1>5. Account'
  <2>1. ASSUME st # NoState
        PROVE  Baseline <= st.baseline /\ st.baseline <= Baseline + byHand'
               /\ st.filled <= Gained' /\ st.sold <= sold
    <3>1. /\ st.baseline \in Int /\ st.filled \in Int
          /\ Baseline <= st.baseline /\ st.baseline <= Baseline + byHand
          /\ st.filled <= Gained /\ st.sold <= sold
      BY <2>1 DEF BInv, Account, IInv, Persisted, Good, State
    <3>2. QED
      BY <1>1, <1>3, <3>1
  <2>2. ASSUME Waiting PROVE next.filled <= Gained' /\ next.sold <= sold
    <3>1. next.filled \in Int /\ next.filled <= Gained /\ next.sold <= sold
      BY <2>2 DEF BInv, Account, Waiting, IInv, InFlight, Good, State
    <3>2. QED
      BY <1>3, <3>1
  <2>3. QED
    BY <1>1, <2>1, <2>2 DEF BInv, Account, Waiting
<1>6. Unborn'
  <2>1. \A x \in book' : x \in book \/ x.id \in Strangers
    BY DEF Owners
  <2>2. QED
    BY <1>1, <2>1 DEF BInv, Unborn, Waiting
<1>7. StillBuys' /\ BuyOrders' /\ FirstBuy' /\ BuyAsked'
  BY <1>1, <1>2 DEF BInv, StillBuys, BuyOrders, FirstBuy, BuyAsked, Waiting, Unsaved, Buying
<1>8. HasBought'
  <2> SUFFICES ASSUME st # NoState, ~Buying(st)
               PROVE  Qty <= Baseline + Gained' - st.baseline
    BY <1>1 DEF BInv, HasBought, Covered, Waiting, Buying
  <2>1. st.baseline \in Int /\ Qty <= Baseline + Gained - st.baseline
    BY DEF BInv, HasBought, Covered, IInv, Persisted, Good, State
  <2>2. QED
    BY <1>1, <1>3, <2>1
<1>9. BuySeen'
  BY <1>1, <1>2 DEF BInv, BuySeen, Waiting, Shows, BuyLooks, Unsaved, Pending, Buying
<1>10. QED
  BY <1>4, <1>5, <1>6, <1>7, <1>8, <1>9 DEF BInv

\* A listing shows what rests, or is one older.
LEMMA ListingKeepsBuys ==
  ASSUME BracketAssumption, IInv, BInv, TickLive
  PROVE  BInv'
<1>1. /\ pc = "idle" /\ pc' = "holdings"
      /\ UNCHANGED <<st, next, request, booted, faults, gate, book, bought, sold, byHand,
                     placed, shownHeld, heldAge>>
  BY DEF TickLive, brokerVars, worldVars
<1>2. \/ shown' = book /\ shownAge' = 0 /\ seen' = book
      \/ shownAge < OrdersLag /\ shownAge' = shownAge + 1 /\ seen' = shown /\ shown' = shown
  BY DEF TickLive, ListOrders
<1>3. Broker'
  BY <1>1, <1>2 DEF BInv, Broker, OrderFits, Executed, Gained, BracketAssumption
<1>4. Account' /\ Unborn' /\ StillBuys' /\ HasBought' /\ BuyOrders'
  BY <1>1 DEF BInv, Account, Unborn, StillBuys, HasBought, BuyOrders, Waiting, OwnLive, Gained, Covered
<1>5. FirstBuy' /\ BuyAsked'
  BY <1>1 DEF BInv, FirstBuy, BuyAsked, Waiting, Unsaved, OwnLive
<1>6. BuySeen'
  <2> SUFFICES ASSUME st # NoState, Buying(st)
               PROVE  /\ OwnLive("buy") # {} =>
                           /\ Shows("buy")' \/ BuyLooks(st) + 1 <= shownAge'
                           /\ BuyLooks(st) <= OrdersLag
                      /\ bought > st.filled =>
                           \/ BuyLooks(st) <= OrdersLag + heldAge
                           \/ shownHeld - st.baseline > st.filled
    BY <1>1 DEF BuySeen, OwnLive, Buying, BuyLooks, Unsaved, Pending
  <2>1. st.buyMisses \in Int /\ shownAge \in Int /\ ~Waiting /\ Pending = 0
    BY <1>1 DEF BInv, Broker, IInv, Persisted, Good, State, Waiting, Pending
  <2>2. BuyLooks(st) \in Int
    BY <2>1 DEF BuyLooks
  <2>3. /\ OwnLive("buy") # {} => /\ Shows("buy") \/ BuyLooks(st) <= shownAge
                                  /\ BuyLooks(st) <= OrdersLag
        /\ bought > st.filled => \/ BuyLooks(st) <= OrdersLag + heldAge
                                 \/ shownHeld - st.baseline > st.filled
    BY <2>1, <2>2 DEF BInv, BuySeen
  <2>4. CASE shown' = book
    <3>1. OwnLive("buy") # {} => Shows("buy")'
      BY <2>4 DEF OwnLive, Shows
    <3>2. QED
      BY <2>3, <3>1
  <2>5. CASE shownAge' = shownAge + 1 /\ shown' = shown
    <3>1. Shows("buy") => Shows("buy")'
      BY <2>5 DEF Shows
    <3>2. QED
      BY <2>1, <2>2, <2>3, <2>5, <3>1
  <2>6. QED
    BY <1>2, <2>4, <2>5
<1>7. QED
  BY <1>3, <1>4, <1>5, <1>6 DEF BInv

\* What is left of an order that is executed in part or in full.
Rest(x, n, y) ==
  /\ n \in Int /\ 1 <= n /\ n <= x.rem
  /\ y.id = x.id /\ y.side = x.side /\ y.rem = x.rem - n /\ y.exec = x.exec + n
  /\ \A z \in book' : z \in book \ {x} \/ (z = y /\ n < x.rem)

LEMMA ExecutionLeaves ==
  ASSUME IInv, BInv, NEW x \in book, x.id \notin Strangers, Execute(x)
  PROVE  /\ IsFiniteSet(book') /\ byHand' = byHand
         /\ x.side \in {"buy", "sell"} /\ x \in OwnLive(x.side)
         /\ x.rem \in Int /\ x.exec \in Int /\ 0 <= x.exec /\ x.exec + x.rem <= Qty
         /\ \E n, y : /\ Rest(x, n, y)
                      /\ bought' = bought + (IF x.side = "buy" THEN n ELSE 0)
                      /\ sold' = sold + (IF x.side = "buy" THEN 0 ELSE n)
<1>1. /\ x \in Order /\ OrderFits(x) /\ bought \in Int /\ sold \in Int /\ IsFiniteSet(book)
  BY DEF IInv, World, BInv, Broker
<1>2. /\ x.side \in {"buy", "sell"} /\ x \in OwnLive(x.side)
      /\ x.rem \in Int /\ x.exec \in Int /\ 0 <= x.exec /\ x.exec + x.rem <= Qty
  BY <1>1 DEF OrderFits, OwnLive, Order
<1>3. PICK n \in 1..x.rem :
        /\ book' = (book \ {x}) \cup
             (IF n = x.rem THEN {} ELSE {[x EXCEPT !.rem = @ - n, !.exec = @ + n]})
        /\ Brings(x, n)
  BY ExecuteBrings
<1> DEFINE r == x.rem - n
           k == x.exec + n
           y == [x EXCEPT !.rem = r, !.exec = k]
<1>4. n \in Int /\ 1 <= n /\ n <= x.rem /\ r \in Int /\ k \in Int
  BY <1>2, <1>3
<1>5. book' = (book \ {x}) \cup (IF n = x.rem THEN {} ELSE {y})
  BY <1>3
<1> HIDE DEF r, k
<1>6. y.id = x.id /\ y.side = x.side /\ y.rem = r /\ y.exec = k
  BY <1>1 DEF Order
<1> HIDE DEF y
<1>7. IsFiniteSet(book')
  <2>1. IsFiniteSet(book \ {x})
    BY <1>1, FS_Subset
  <2>2. IsFiniteSet((book \ {x}) \cup {y})
    BY <2>1, FS_AddElement
  <2>3. QED
    BY <1>5, <2>1, <2>2, FS_Subset
<1>8. \A z \in book' : z \in book \ {x} \/ (z = y /\ n < x.rem)
  BY <1>2, <1>4, <1>5
<1>9. Rest(x, n, y)
  BY <1>4, <1>6, <1>8 DEF Rest, r, k
<1>10. /\ bought' = bought + (IF x.side = "buy" THEN n ELSE 0)
       /\ sold' = sold + (IF x.side = "buy" THEN 0 ELSE n)
       /\ byHand' = byHand
  BY <1>1, <1>2, <1>3, <1>4 DEF Brings
<1>11. QED
  BY <1>2, <1>7, <1>9, <1>10

\* An execution of the bot's is one of an order that rests, and within the
\* quantity.
LEMMA ExecutionKeepsBuys ==
  ASSUME BracketAssumption, IInv, BInv, NEW x \in book, x.id \notin Strangers, Execute(x)
  PROVE  BInv'
<1>u. UNCHANGED <<st, pc, seen, next, request, booted, faults, gate, placed, shown, shownAge,
                  shownHeld, heldAge>>
  BY DEF Execute, tickVars, indexVars, worldVars
<1>1. /\ IsFiniteSet(book') /\ byHand' = byHand
      /\ x.side \in {"buy", "sell"} /\ x \in OwnLive(x.side)
      /\ x.rem \in Int /\ x.exec \in Int /\ 0 <= x.exec /\ x.exec + x.rem <= Qty
  BY ExecutionLeaves
<1>2. PICK n, y : /\ Rest(x, n, y)
                  /\ bought' = bought + (IF x.side = "buy" THEN n ELSE 0)
                  /\ sold' = sold + (IF x.side = "buy" THEN 0 ELSE n)
  BY ExecutionLeaves
<1>n. /\ n \in Int /\ 1 <= n /\ bought \in Int /\ sold \in Int /\ byHand \in Int
      /\ Qty \in Int /\ Baseline \in Int
  BY <1>2 DEF Rest, IInv, World, BracketAssumption
<1>3. \A side : OwnLive(side) = {} => OwnLive(side)' = {}
  BY <1>1, <1>2 DEF Rest, OwnLive
<1>4. /\ bought' \in Int /\ sold' \in Int /\ bought <= bought' /\ sold <= sold'
      /\ bought # bought' => OwnLive("buy") # {}
      /\ sold # sold' => OwnLive("sell") # {}
  BY <1>1, <1>2, <1>n
<1>g. Gained \in Int /\ Gained' \in Int /\ Gained <= Gained'
  <2>1. PICK b \in Int : b = bought'
    BY <1>4
  <2>2. b \in Int /\ bought <= b
    BY <1>4, <2>1
  <2>3. Gained = bought + byHand /\ Gained' = b + byHand
    BY <1>1, <2>1 DEF Gained
  <2>4. QED
    BY <1>n, <2>2, <2>3
<1>5. bought' <= Qty /\ \A z \in OwnLive("buy")' : bought' + z.rem <= Qty
  <2>1. CASE x.side = "buy"
    <3>1. bought + x.rem <= Qty /\ \A z \in OwnLive("buy") : z = x
      BY <1>1, <2>1 DEF BInv, BuyOrders
    <3>2. \A z \in OwnLive("buy")' : z = y
      BY <1>2, <3>1 DEF OwnLive, Rest
    <3>3. QED
      BY <1>1, <1>2, <1>n, <2>1, <3>1, <3>2 DEF Rest
  <2>2. CASE x.side = "sell"
    <3>1. bought' = bought
      BY <1>2, <1>n, <2>2
    <3>2. \A z \in OwnLive("buy")' : z \in OwnLive("buy")
      BY <1>2, <2>2 DEF OwnLive, Rest
    <3>3. QED
      BY <3>1, <3>2 DEF BInv, BuyOrders, Broker
  <2>3. QED
    BY <1>1, <2>1, <2>2
<1>6. Broker'
  <2>1. ASSUME NEW z \in book \cup shown PROVE OrderFits(z)'
    <3>1. OrderFits(z) /\ z.exec \in Int
      BY DEF BInv, Broker, IInv, World, Order
    <3>2. QED
      BY <1>1, <1>4, <3>1 DEF OrderFits, Executed, IInv, World
  <2>2. ASSUME y \in book' PROVE y \in book \/ OrderFits(y)'
    <3>1. CASE n < x.rem
      <4>1. y.id \notin Strangers /\ y.side = x.side /\ y.rem = x.rem - n /\ y.exec = x.exec + n
        BY <1>2 DEF Rest
      <4>2. OrderFits(x)
        BY DEF BInv, Broker
      <4>3. x.exec <= Executed(x) /\ Executed(x) \in Int
        BY <1>n, <4>2 DEF OrderFits, Executed
      <4>4. y.exec <= Executed(y)'
        BY <1>1, <1>2, <1>n, <4>1, <4>3 DEF Executed
      <4>5. QED
        BY <1>1, <1>n, <3>1, <4>1, <4>4 DEF OrderFits
    <3>2. CASE ~(n < x.rem)
      BY <3>2, <2>2, <1>2 DEF Rest
    <3>3. QED
      BY <3>1, <3>2
  <2>3. \A z \in book' \cup shown' : OrderFits(z)'
    BY <1>u, <1>2, <2>1, <2>2 DEF Rest
  <2>4. bought' \in 0..Qty /\ 0 <= sold' /\ 0 <= byHand' /\ shownHeld' - Baseline <= Gained'
    <3>1. /\ bought \in 0..Qty /\ 0 <= sold /\ 0 <= byHand
          /\ shownHeld - Baseline <= Gained /\ shownHeld \in Int /\ shownHeld' = shownHeld
      BY <1>u DEF BInv, Broker, IInv, World
    <3>2. QED
      BY <1>1, <1>n, <1>4, <1>g, <1>5, <3>1
  <2>5. QED
    BY <1>u, <1>1, <2>3, <2>4 DEF BInv, Broker
<1>7. Account'
  BY <1>u, <1>1, <1>4, <1>g, <1>n DEF BInv, Account, Waiting, IInv, Persisted, InFlight, Good, State
<1>8. Unborn'
  BY <1>u, <1>1, <1>2 DEF BInv, Unborn, OwnLive, Waiting
<1>9. StillBuys' /\ HasBought'
  <2>1. StillBuys'
    BY <1>u, <1>3, <1>4 DEF BInv, StillBuys, Waiting
  <2>2. shownHeld \in Int
    BY DEF IInv, World
  <2>3. ASSUME st # NoState, ~Buying(st)
        PROVE  Qty <= Baseline + Gained' - st.baseline /\ Qty - sold' <= shownHeld - st.baseline
    <3>1. /\ Qty <= Baseline + Gained - st.baseline /\ Qty - sold <= shownHeld - st.baseline
          /\ st.baseline \in Int
      BY <2>3 DEF BInv, HasBought, Covered, IInv, Persisted, Good, State
    <3>2. Qty <= Baseline + Gained' - st.baseline
      BY <1>g, <1>n, <3>1
    <3>3. PICK c \in Int : c = sold'
      BY <1>4
    <3>4. c \in Int /\ sold <= c
      BY <1>4, <3>3
    <3>5. Qty - c <= shownHeld - st.baseline
      BY <3>1, <3>4, <1>n, <2>2
    <3>6. QED
      BY <3>2, <3>3, <3>5
  <2>4. HasBought'
    BY <1>u, <2>3 DEF BInv, HasBought, Covered, Waiting, Buying
  <2>5. QED
    BY <2>1, <2>4
<1>10. BuyOrders'
  <2>1. ASSUME NEW z \in OwnLive("buy")', NEW w \in OwnLive("buy")' PROVE z = w
    <3>1. /\ (z \in OwnLive("buy") /\ z # x) \/ z = y
          /\ (w \in OwnLive("buy") /\ w # x) \/ w = y
      BY <1>2 DEF OwnLive, Rest
    <3>2. \A a, b \in OwnLive("buy") : a = b
      BY DEF BInv, BuyOrders
    <3>3. CASE x.side = "buy"
      BY <1>1, <3>1, <3>2, <3>3
    <3>4. CASE x.side # "buy"
      BY <1>2, <3>1, <3>2, <3>4 DEF Rest, OwnLive
    <3>5. QED
      BY <3>3, <3>4
  <2>2. QED
    BY <1>5, <2>1 DEF BuyOrders
<1>11. FirstBuy' /\ BuyAsked'
  BY <1>u, <1>3, <1>4 DEF BInv, FirstBuy, BuyAsked, Waiting, Unsaved
<1>12. BuySeen'
  <2> SUFFICES ASSUME st # NoState, Buying(st), ~Waiting
               PROVE  /\ OwnLive("buy")' # {} => /\ Shows("buy") \/ BuyLooks(st) + Pending <= shownAge
                                                 /\ BuyLooks(st) <= OrdersLag
                      /\ bought' > st.filled =>
                           \/ BuyLooks(st) <= OrdersLag + heldAge
                           \/ shownHeld - st.baseline > st.filled
    BY <1>u DEF BuySeen, Buying, Waiting, BuyLooks, Unsaved, Pending, Shows
  <2>1. /\ OwnLive("buy") # {} => /\ Shows("buy") \/ BuyLooks(st) + Pending <= shownAge
                                  /\ BuyLooks(st) <= OrdersLag
        /\ bought > st.filled => \/ BuyLooks(st) <= OrdersLag + heldAge
                                 \/ shownHeld - st.baseline > st.filled
    BY DEF BInv, BuySeen
  <2>2. OrdersLag \in Nat /\ heldAge \in Nat /\ BuyLooks(st) \in Int
    BY DEF BracketAssumption, BInv, Broker, IInv, Persisted, Good, State, BuyLooks
  <2>3. QED
    BY <1>3, <1>4, <2>1, <2>2
<1>13. QED
  BY <1>6, <1>7, <1>8, <1>9, <1>10, <1>11, <1>12 DEF BInv

\* An accepted order is the only one of its side.
LEMMA AcceptedKeepsBuys ==
  ASSUME BracketAssumption, IInv, BInv, OrderAccepted
  PROVE  BInv'
<1>1. /\ pc = "order" /\ pc' = "answer" /\ placed' = placed + 1
      /\ UNCHANGED <<st, seen, next, request, booted, faults, gate, bought, sold, byHand, shown, shownAge,
                     shownHeld, heldAge>>
  BY DEF OrderAccepted, indexVars, worldVars
<1>2. PICK z : /\ book' = book \cup {z}
               /\ z.id = placed + 1 /\ z.side = request.side /\ z.rem = request.qty /\ z.exec = 0
  <2> DEFINE z == [id |-> placed + 1, side |-> request.side, rem |-> request.qty, exec |-> 0]
  <2>1. book' = book \cup {z}
    BY DEF OrderAccepted
  <2>2. z.id = placed + 1 /\ z.side = request.side /\ z.rem = request.qty /\ z.exec = 0
    OBVIOUS
  <2> HIDE DEF z
  <2>3. QED
    BY <2>1, <2>2
<1>3. /\ request.side \in {"buy", "sell"} /\ request.qty \in Int /\ Qty \in Int
      /\ placed \in Int /\ 0 <= placed
  BY DEF IInv, World, BracketAssumption, BInv, Broker
<1>w. Waiting /\ Waiting'
  BY <1>1 DEF Waiting
<1>4. /\ bought \in Int /\ sold \in Int /\ bought \in 0..Qty /\ 0 <= sold
      /\ 0 < request.qty /\ request.qty <= Qty
  BY <1>1, <1>w DEF BInv, Broker, Account, IInv, World
<1>5. OrderFits(z)'
  <2>1. z.id \notin Strangers
    BY <1>2, <1>3 DEF Strangers
  <2>2. 0 <= Executed(z)'
    BY <1>1, <1>2, <1>4, <2>1 DEF Executed
  <2>3. QED
    BY <1>2, <1>3, <1>4, <2>1, <2>2 DEF OrderFits
<1>6. Broker'
  <2>1. IsFiniteSet(book') /\ Gained' = Gained
    BY <1>1, <1>2, FS_AddElement DEF BInv, Broker, Gained
  <2>2. \A x \in book \cup shown : OrderFits(x)'
    BY <1>1 DEF BInv, Broker, OrderFits, Executed, Gained
  <2>3. \A x \in book' \cup shown' : OrderFits(x)'
    BY <1>1, <1>2, <1>5, <2>2
  <2>4. QED
    BY <1>1, <1>3, <2>1, <2>3 DEF BInv, Broker
<1>7. st # NoState /\ Account' /\ Unborn'
  BY <1>1, <1>w DEF BInv, Account, Unborn, Gained
<1>8. CASE request.side = "buy"
  <2>1. Buying(st)
    BY <1>7, <1>w, <1>8 DEF BInv, HasBought
  <2>a. next.filled \in Int
    BY <1>1 DEF IInv, InFlight, Good, State
  <2>2. OwnLive("buy") = {} /\ bought + request.qty <= Qty
    BY <1>1, <1>3, <1>4, <1>8, <1>w, <2>a DEF BInv, BuyAsked
  <2>3. OwnLive("sell")' = OwnLive("sell") /\ OwnLive("buy")' \subseteq {z}
    BY <1>1, <1>2, <1>8, <2>2 DEF OwnLive
  <2>4. StillBuys' /\ HasBought'
    BY <1>1, <1>8, <2>1, <2>3 DEF BInv, StillBuys, HasBought, Buying
  <2>5. BuyOrders'
    BY <1>1, <1>2, <2>2, <2>3 DEF BuyOrders
  <2>6. FirstBuy' /\ BuySeen' /\ BuyAsked'
    BY <1>1, <1>w, <1>7, <1>8 DEF BInv, FirstBuy, BuySeen, BuyAsked
  <2>7. QED
    BY <1>6, <1>7, <2>4, <2>5, <2>6 DEF BInv
<1>9. CASE request.side = "sell"
  <2>1. ~Buying(st)
    BY <1>7, <1>w, <1>9 DEF BInv, StillBuys
  <2>2. OwnLive("buy")' = OwnLive("buy")
    BY <1>1, <1>2, <1>9 DEF OwnLive
  <2>3. StillBuys' /\ HasBought'
    BY <1>1, <1>9, <2>1, <2>2 DEF BInv, StillBuys, HasBought, Covered, Gained, Buying
  <2>4. BuyOrders'
    BY <1>1, <2>2 DEF BInv, BuyOrders
  <2>5. FirstBuy' /\ BuySeen' /\ BuyAsked'
    BY <1>1, <1>w, <1>9, <2>1 DEF BInv, FirstBuy, BuySeen, BuyAsked, Buying
  <2>6. QED
    BY <1>6, <1>7, <2>3, <2>4, <2>5 DEF BInv
<1>10. QED
  BY <1>3, <1>8, <1>9

\* The state in flight is saved: with the order's id, or without.
SavesNext(t) ==
  /\ Waiting /\ pc' = "idle" /\ st' = t
  /\ t.phase = next.phase /\ t.baseline = next.baseline
  /\ t.filled = next.filled /\ t.sold = next.sold
  /\ t.buyMisses = next.buyMisses /\ t.sellMisses = next.sellMisses
  /\ UNCHANGED <<seen, next, request, booted, faults, gate, book, bought, sold, byHand, placed, shown,
                 shownAge, shownHeld, heldAge>>

LEMMA SavesWhatIsInFlight ==
  ASSUME IInv, OrderRefused \/ OrderAnswered \/ AnswerLost
  PROVE  \E t \in State : SavesNext(t)
<1>1. Waiting /\ next \in State /\ placed \in Int
  BY DEF OrderRefused, OrderAnswered, AnswerLost, Waiting, IInv, InFlight, Good, World
<1>2. CASE OrderRefused \/ AnswerLost
  <2>1. SavesNext(next)
    BY <1>1, <1>2 DEF OrderRefused, AnswerLost, SavesNext, Keep, Save, brokerVars, indexVars,
                      worldVars
  <2>2. QED
    BY <1>1, <2>1
<1>3. CASE OrderAnswered
  <2> DEFINE t == IF request.side = "buy" THEN [next EXCEPT !.entryId = placed]
                                          ELSE [next EXCEPT !.exitId = placed]
  <2>1. /\ t \in State
        /\ t.phase = next.phase /\ t.baseline = next.baseline
        /\ t.filled = next.filled /\ t.sold = next.sold
        /\ t.buyMisses = next.buyMisses /\ t.sellMisses = next.sellMisses
    BY <1>1 DEF State
  <2>2. Keep(t)
    BY <1>3 DEF OrderAnswered
  <2> HIDE DEF t
  <2>3. SavesNext(t)
    BY <1>1, <1>3, <2>1, <2>2 DEF OrderAnswered, SavesNext, Keep, Save, brokerVars, indexVars,
                                  worldVars
  <2>4. QED
    BY <2>1, <2>3
<1>4. QED
  BY <1>2, <1>3

LEMMA SavingKeepsBuys ==
  ASSUME BracketAssumption, IInv, BInv, NEW t \in State, SavesNext(t)
  PROVE  BInv'
<1>1. /\ Waiting /\ ~Waiting' /\ pc' = "idle" /\ st' = t
      /\ UNCHANGED <<seen, next, request, booted, faults, gate, book, bought, sold, byHand, placed,
                     shown, shownAge, shownHeld, heldAge>>
      /\ t.phase = next.phase /\ t.baseline = next.baseline
      /\ t.filled = next.filled /\ t.sold = next.sold /\ t.buyMisses = next.buyMisses
  BY DEF SavesNext, Waiting
<1>2. st # NoState /\ t # NoState
  <2>1. "baseline" \in DOMAIN t /\ "baseline" \notin DOMAIN NoState
    BY DEF State, NoState
  <2>2. QED
    BY <1>1, <2>1 DEF BInv, Unborn
<1>3. t.baseline = st.baseline /\ (~Buying(st) => ~Buying(t))
  BY <1>1, <1>2 DEF IInv, InFlight, Waiting, Onward, Buying
<1>4. Broker' /\ Account' /\ Unborn' /\ BuyOrders'
  BY <1>1, <1>2, <1>3 DEF BInv, Broker, OrderFits, Executed, Gained, Account, Unborn,
                             BuyOrders, OwnLive
<1>5. OrdersLag \in Nat /\ heldAge \in Nat /\ shownAge \in Nat
  BY DEF BracketAssumption, BInv, Broker
<1>6. CASE request.side = "buy"
  <2>1. Buying(st) /\ Buying(t) /\ t.buyMisses = 0 /\ t.phase = "buy_resting"
    BY <1>1, <1>2, <1>6 DEF BInv, HasBought, BuyAsked, Buying
  <2>2. BuyLooks(st)' = 0 /\ Pending' = 0
    BY <1>1, <2>1 DEF BuyLooks, Pending
  <2>3. StillBuys' /\ HasBought' /\ FirstBuy' /\ BuyAsked'
    BY <1>1, <1>2, <2>1 DEF BInv, StillBuys, HasBought, FirstBuy, BuyAsked, OwnLive
  <2>4. BuySeen'
    BY <1>5, <1>1, <2>2 DEF BuySeen
  <2>5. QED
    BY <1>4, <2>3, <2>4 DEF BInv
<1>7. CASE request.side = "sell"
  <2>1. ~Buying(t)
    BY <1>1, <1>2, <1>3, <1>7 DEF BInv, StillBuys
  <2>2. StillBuys' /\ HasBought' /\ FirstBuy' /\ BuySeen' /\ BuyAsked'
    <3>1. ~Buying(st)
      BY <1>1, <1>2, <1>7 DEF BInv, StillBuys
    <3>2. QED
      BY <1>1, <1>2, <1>3, <2>1, <3>1
        DEF BInv, StillBuys, HasBought, Covered, Gained, FirstBuy, BuySeen, BuyAsked, OwnLive,
            Buying
  <2>3. QED
    BY <1>4, <2>2 DEF BInv
<1>8. request.side \in {"buy", "sell"}
  BY DEF IInv, World
<1>9. QED
  BY <1>6, <1>7, <1>8

-----------------------------------------------------------------------------
(* The decision, made of what the two indexes show.                        *)

\* The holdings show what is executed, or are one answer older.
LEMMA HoldingsRead ==
  ASSUME BracketAssumption, IInv, BInv, pc = "holdings", ListHoldings
  PROVE  /\ shownHeld' \in Int /\ heldAge' \in 0..HoldingsLag
         /\ shownHeld' - Baseline <= Gained
         /\ st = NoState => Baseline <= shownHeld' /\ shownHeld' <= Baseline + byHand
         /\ st # NoState /\ ~Buying(st) => Covered(st.baseline, shownHeld')
         /\ st # NoState /\ Buying(st) /\ bought > st.filled =>
              BuyLooks(st) + 1 <= OrdersLag + heldAge' \/ shownHeld' - st.baseline > st.filled
<1>1. /\ Qty \in Int /\ Baseline \in Int /\ OrdersLag \in Nat /\ HoldingsLag \in Nat
      /\ bought \in Int /\ sold \in Int /\ byHand \in Int /\ 0 <= sold /\ 0 <= byHand
      /\ shownHeld \in Int /\ heldAge \in 0..HoldingsLag /\ shownHeld - Baseline <= Gained
      /\ Gained = bought + byHand /\ Gained \in Int
  BY DEF BracketAssumption, IInv, World, BInv, Broker, Gained
<1>2. st # NoState => /\ st.filled \in Int /\ st.buyMisses \in Int /\ BuyLooks(st) \in Int
                      /\ st.baseline \in Int /\ st.baseline <= Baseline + byHand
  BY DEF IInv, Persisted, Good, State, BuyLooks, BInv, Account
<1>3. ~Waiting
  BY DEF Waiting
<1>4. CASE shownHeld' = Held /\ heldAge' = 0
  <2>1. PICK h \in Int : h = shownHeld' /\ h = Baseline + bought + byHand - sold
    BY <1>1, <1>4 DEF Held
  <2>2. /\ st = NoState => bought = 0 /\ sold = 0
        /\ st # NoState /\ Buying(st) => sold = 0
        /\ st # NoState /\ ~Buying(st) => Qty <= Baseline + Gained - st.baseline
    BY DEF BInv, Unborn, StillBuys, HasBought, Covered
  <2>3. /\ h - Baseline <= Gained
        /\ st = NoState => Baseline <= h /\ h <= Baseline + byHand
        /\ st # NoState /\ ~Buying(st) => Qty - sold <= h - st.baseline
        /\ st # NoState /\ Buying(st) /\ bought > st.filled => h - st.baseline > st.filled
    BY <1>1, <1>2, <2>1, <2>2
  <2>4. heldAge' \in 0..HoldingsLag
    BY <1>1, <1>4
  <2>5. QED
    BY <2>1, <2>2, <2>3, <2>4 DEF Covered
<1>5. CASE heldAge < HoldingsLag /\ heldAge' = heldAge + 1 /\ shownHeld' = shownHeld
  <2>1. heldAge' \in 0..HoldingsLag /\ heldAge' = heldAge + 1 /\ heldAge \in Int
    BY <1>1, <1>5
  <2>2. /\ st = NoState => Baseline <= shownHeld /\ bought = 0
        /\ st # NoState /\ ~Buying(st) => Covered(st.baseline, shownHeld)
        /\ st # NoState /\ Buying(st) /\ bought > st.filled =>
             BuyLooks(st) <= OrdersLag + heldAge \/ shownHeld - st.baseline > st.filled
    BY <1>3 DEF BInv, Unborn, HasBought, BuySeen
  <2>3. st # NoState /\ Buying(st) /\ bought > st.filled =>
          BuyLooks(st) + 1 <= OrdersLag + heldAge' \/ shownHeld - st.baseline > st.filled
    BY <1>1, <1>2, <2>1, <2>2
  <2>4. st = NoState => shownHeld <= Baseline + byHand
    BY <1>1, <2>2
  <2>5. QED
    BY <1>1, <1>5, <2>1, <2>2, <2>3, <2>4
<1>6. QED
  BY <1>4, <1>5 DEF ListHoldings

\* The state the tick decides on: the persisted one, or the one it creates
\* with what the holdings show for its baseline.
Loaded(s) ==
  /\ Good(s) /\ Baseline <= s.baseline /\ s.baseline <= Baseline + byHand
  /\ st # NoState => /\ s.phase = st.phase /\ s.filled = st.filled /\ s.sold = st.sold
                     /\ s.buyMisses = st.buyMisses /\ s.sellMisses = st.sellMisses
                     /\ s.baseline = st.baseline
  /\ st = NoState => /\ s.phase = "awaiting_buy" /\ s.filled = 0 /\ s.sold = 0
                     /\ s.buyMisses = 0 /\ s.sellMisses = 0
                     /\ s.baseline = shownHeld'

\* What it has seen when it decides.
Sees(s, o) ==
  /\ o \in Observation /\ ~o.paper /\ (o.grace <=> ~booted)
  /\ o.delta = Larger(0, shownHeld' - s.baseline)
  /\ o.buy = NoOrder \/ (o.buy \in shown /\ o.buy.side = "buy")
  /\ o.sell = NoOrder \/ (o.sell \in shown /\ o.sell.side = "sell")
  /\ o.buy = NoOrder => ~Shows("buy")
  /\ HasSell /\ o.sell = NoOrder => ~Shows("sell")

LEMMA EnteredKeeps ==
  ASSUME NEW s, Good(s), NEW o \in Observation
  PROVE  Entered(s, o).buyMisses = s.buyMisses /\ Entered(s, o).sellMisses = s.sellMisses
<1> DEFINE c == Counted(s, o)
           d == Cooled(s)
           b == Adopted(s.entryId, o.buy)
           l == Adopted(s.exitId, o.sell)
<1>1. Entered(s, o) = [s EXCEPT !.count = c, !.session = o.session, !.cooldown = d,
                                !.entryId = b, !.exitId = l]
  BY DEF Entered
<1> HIDE DEF c, d, b, l
<1>2. s \in State
  BY DEF Good
<1>3. QED
  BY <1>1, <1>2 DEF State

\* A tick keeps the state it has loaded, or decides on it.
LEMMA Observed ==
  ASSUME BracketAssumption, IInv, BInv, Observe
  PROVE  \E s : /\ Loaded(s)
                /\ \/ Keep(s) /\ booted' = booted
                   \/ booted' = TRUE /\ \E o : Sees(s, o) /\ Decide(s, o)
<1> DEFINE s == IF st = NoState THEN InitState(shownHeld') ELSE st
           b == Mine("buy", s.entryId)
           l == IF HasSell THEN Mine("sell", s.exitId) ELSE NoOrder
           dl == Larger(0, shownHeld' - s.baseline)
           o == [grace |-> ~booted, open |-> clock.open, session |-> clock.session,
                 paper |-> FALSE, crossed |-> FALSE, buy |-> b, sell |-> l, delta |-> dl]
           amb == Ambiguous("buy", s.entryId) \/ (HasSell /\ Ambiguous("sell", s.exitId))
<1>1. pc = "holdings" /\ seen = shown /\ IsFiniteSet(seen) /\ shownHeld' \in Int
      /\ (st = NoState => Baseline <= shownHeld' /\ shownHeld' <= Baseline + byHand)
  BY HoldingsRead DEF Observe, BInv, Broker
<1>2. Loaded(s)
  <2>1. CASE st = NoState
    <3>1. s = InitState(shownHeld') /\ Good(s)
      BY <1>1, <2>1, InitGood
    <3>2. PICK h \in Int : h = shownHeld' /\ Baseline <= h /\ h <= Baseline + byHand
      BY <1>1, <2>1
    <3>3. Larger(0, h) = h
      BY <3>2 DEF Larger, BracketAssumption
    <3>4. QED
      BY <2>1, <3>1, <3>2, <3>3 DEF InitState, Loaded
  <2>2. CASE st # NoState
    BY <2>2 DEF Loaded, IInv, Persisted, BInv, Account
  <2>3. QED
    BY <2>1, <2>2
<1>o. \/ Keep(s) /\ UNCHANGED booted
      \/ ~amb /\ Decide(Entered(s, o), o) /\ booted' = TRUE
  BY DEF Observe
<1> HIDE DEF s
<1>3. /\ b = NoOrder \/ (b \in shown /\ b.side = "buy")
      /\ l = NoOrder \/ (l \in shown /\ l.side = "sell")
      /\ ~amb /\ b = NoOrder => ~Shows("buy")
      /\ ~amb /\ HasSell /\ l = NoOrder => ~Shows("sell")
  <2>1. /\ b = NoOrder \/ (b \in shown /\ b.side = "buy")
        /\ ~Ambiguous("buy", s.entryId) /\ b = NoOrder => ~Shows("buy")
    BY <1>1, MineFound DEF Shows
  <2>2. CASE HasSell
    <3>1. /\ l = NoOrder \/ (l \in shown /\ l.side = "sell")
          /\ ~Ambiguous("sell", s.exitId) /\ l = NoOrder => ~Shows("sell")
      BY <1>1, <2>2, MineFound DEF Shows
    <3>2. QED
      BY <2>1, <3>1
  <2>3. CASE ~HasSell
    BY <2>1, <2>3
  <2>4. QED
    BY <2>1, <2>2, <2>3
<1>4. b \in Order /\ l \in Order
  BY MineIsOrder DEF IInv, World, NoOrder, Order, None
<1>5. s.baseline \in Int /\ dl = Larger(0, shownHeld' - s.baseline)
  BY <1>2 DEF Loaded, Good, State
<1>6. dl \in Int
  BY <1>1, <1>5 DEF Larger
<1>7. clock.open \in BOOLEAN /\ clock.session \in Int /\ (~booted) \in BOOLEAN
  BY DEF IInv, World
<1> HIDE DEF b, l, dl, amb
<1>8. o \in Observation /\ ~o.paper /\ (o.grace <=> ~booted) /\ o.delta = dl /\ o.buy = b
    /\ o.sell = l
  BY <1>4, <1>6, <1>7 DEF Observation
<1> HIDE DEF o
<1>9. CASE ~amb /\ Decide(Entered(s, o), o) /\ booted' = TRUE
  <2>a. Entered(s, o).baseline = s.baseline
    BY <1>2, <1>8, EnteredGood DEF Loaded, Alike
  <2>1. Sees(Entered(s, o), o)
    BY <1>3, <1>5, <1>8, <1>9, <2>a DEF Sees
  <2>2. Loaded(Entered(s, o))
    <3>1. Good(s)
      BY <1>2 DEF Loaded
    <3>2. Good(Entered(s, o)) /\ Alike(s, Entered(s, o))
      BY <1>8, <3>1, EnteredGood, AlikeGood
    <3>3. Entered(s, o).buyMisses = s.buyMisses /\ Entered(s, o).sellMisses = s.sellMisses
      BY <1>8, <3>1, EnteredKeeps
    <3>4. QED
      BY <1>2, <3>2, <3>3 DEF Loaded, Alike
  <2>3. QED
    BY <1>9, <2>1, <2>2
<1>10. QED
  BY <1>2, <1>o, <1>9

\* The holdings above the baseline are what was gained, as far as they show.
LEMMA DeltaReal ==
  ASSUME BracketAssumption, IInv, BInv, Observe, NEW s, Loaded(s), NEW o, Sees(s, o)
  PROVE  /\ o.delta \in Int /\ 0 <= o.delta /\ o.delta <= Gained
         /\ \A k \in Int : 0 < k /\ k <= o.delta => k <= shownHeld' - s.baseline
         /\ \A k \in Int : k < shownHeld' - s.baseline => k < o.delta
         /\ \A k \in Int : k <= shownHeld' - s.baseline => k <= o.delta
<1>1. PICK h \in Int : h = shownHeld' /\ h - Baseline <= Gained
  BY HoldingsRead DEF Observe
<1>2. /\ Baseline \in Int /\ Gained \in Int /\ 0 <= Gained
      /\ s.baseline \in Int /\ Baseline <= s.baseline
  BY DEF BracketAssumption, IInv, World, BInv, Broker, Gained, Loaded, Good, State
<1> DEFINE d == h - s.baseline
<1>3. o.delta = Larger(0, d) /\ shownHeld' - s.baseline = d
  BY <1>1 DEF Sees
<1>4. d \in Int /\ d <= Gained
  <2>1. h \in Int /\ h - Baseline <= Gained
    BY <1>1
  <2>2. QED
    BY <1>2, <2>1
<1> HIDE DEF d
<1>5. /\ Larger(0, d) \in Int /\ 0 <= Larger(0, d) /\ Larger(0, d) <= Gained
      /\ \A k \in Int : 0 < k /\ k <= Larger(0, d) => k <= d
      /\ \A k \in Int : k < d => k < Larger(0, d)
      /\ \A k \in Int : k <= d => k <= Larger(0, d)
  BY <1>2, <1>4 DEF Larger
<1>6. QED
  <2> DEFINE l == Larger(0, d)
  <2>1. o.delta = l
    BY <1>3
  <2>2. /\ l \in Int /\ 0 <= l /\ l <= Gained
        /\ \A k \in Int : 0 < k /\ k <= l => k <= d
        /\ \A k \in Int : k < d => k < l
        /\ \A k \in Int : k <= d => k <= l
    BY <1>5
  <2> HIDE DEF l
  <2>3. QED
    BY <1>3, <2>1, <2>2

\* Facts of a bot that buys, when it has seen its own side of the account.
LEMMA BuyingLoaded ==
  ASSUME BracketAssumption, IInv, BInv, NEW s, Loaded(s), Buying(s), ~Waiting
  PROVE  /\ s.filled \in Int /\ 0 <= s.filled /\ s.filled < Qty /\ s.filled <= Gained
         /\ s.buyMisses \in Int /\ 0 <= s.buyMisses /\ BuyLooks(s) \in Int /\ 0 <= BuyLooks(s)
         /\ s.sold = 0 /\ sold = 0 /\ OwnLive("sell") = {}
         /\ st = NoState \/ Buying(st)
<1>1. /\ s.filled \in Int /\ 0 <= s.filled /\ s.filled < Qty /\ s.buyMisses \in Int /\ s.sold = 0
  BY DEF Loaded, Good, State, Coherent
<1>2. CASE st = NoState
  <2>1. s.filled = 0 /\ s.buyMisses = 0 /\ bought = 0 /\ sold = 0 /\ OwnLive("sell") = {}
    BY <1>2 DEF Loaded, BInv, Unborn, OwnLive
  <2>2. 0 <= Gained
    BY DEF BInv, Broker, IInv, World, Gained
  <2>3. QED
    BY <1>1, <1>2, <2>1, <2>2 DEF BuyLooks
<1>3. CASE st # NoState
  <2>1. Buying(st) /\ s.filled = st.filled /\ s.buyMisses = st.buyMisses
    BY <1>3 DEF Loaded, Buying
  <2>2. /\ 0 <= s.buyMisses /\ sold = 0 /\ OwnLive("sell") = {} /\ s.filled <= Gained
    BY <1>3, <2>1 DEF BInv, StillBuys, Account
  <2>3. QED
    BY <1>1, <2>1, <2>2 DEF BuyLooks
<1>4. QED
  BY <1>2, <1>3

\* What is found bought was bought, and all of it only when the holdings say so.
LEMMA BuyTotalReal ==
  ASSUME BracketAssumption, IInv, BInv, Observe, NEW s, Loaded(s), Buying(s), NEW o, Sees(s, o)
  PROVE  /\ BuyTotal(s, o) \in Int /\ BuyTotal(s, o) <= Gained
         /\ BuyTotal(s, o) >= Qty => Covered(s.baseline, shownHeld')
<1>1. /\ s.filled \in Int /\ 0 <= s.filled /\ s.filled < Qty /\ s.filled <= Gained /\ sold = 0
  BY BuyingLoaded DEF Observe, Waiting
<1>2. /\ Qty \in Int /\ 0 < Qty /\ bought \in Int /\ byHand \in Int /\ 0 <= bought /\ 0 <= byHand
      /\ Gained \in Int /\ Gained = bought + byHand
  BY DEF BracketAssumption, BInv, Broker, IInv, World, Gained
<1>3. o \in Observation /\ ~o.paper /\ o.delta \in Int /\ 0 <= o.delta /\ o.delta <= Gained
  BY DeltaReal DEF Sees
<1>4. CASE o.buy # NoOrder
  <2>1. /\ o.buy \in shown /\ o.buy.side = "buy" /\ OrderFits(o.buy)
        /\ o.buy.exec \in Int /\ o.buy.rem \in Int
    BY <1>4 DEF Sees, BInv, Broker, IInv, World, Order
  <2>2. o.buy.exec <= Gained /\ o.buy.exec < Qty
    BY <1>2, <2>1 DEF OrderFits, Executed
  <2>3. BuyTotal(s, o) = Clamp(Larger(s.filled, o.buy.exec), 0, Qty)
    BY <1>3, <1>4 DEF BuyTotal
  <2>4. PICK e \in Int : e = o.buy.exec
    BY <2>1
  <2>5. /\ Clamp(Larger(s.filled, e), 0, Qty) \in Int
        /\ Clamp(Larger(s.filled, e), 0, Qty) <= Gained
        /\ Clamp(Larger(s.filled, e), 0, Qty) < Qty
    BY <1>1, <1>2, <2>2, <2>4 DEF Clamp, Larger
  <2>6. QED
    BY <1>2, <2>3, <2>4, <2>5
<1>5. CASE o.buy = NoOrder
  <2>1. BuyTotal(s, o) = IF o.delta > s.filled THEN Clamp(o.delta, 0, Qty) ELSE s.filled
    BY <1>3, <1>5 DEF BuyTotal
  <2>2. PICK d \in Int : d = o.delta
    BY <1>3
  <2>3. /\ BuyTotal(s, o) \in Int /\ BuyTotal(s, o) <= Gained
        /\ BuyTotal(s, o) >= Qty => o.delta >= Qty
    <3>1. CASE d > s.filled
      <4>1. Clamp(d, 0, Qty) = IF d > Qty THEN Qty ELSE d
        BY <1>2, <1>3, <2>2 DEF Clamp
      <4>2. QED
        BY <1>2, <1>3, <2>1, <2>2, <3>1, <4>1
    <3>2. CASE ~(d > s.filled)
      BY <1>1, <1>2, <2>1, <2>2, <3>2
    <3>3. QED
      BY <3>1, <3>2
  <2>4. ASSUME o.delta >= Qty
        PROVE  Covered(s.baseline, shownHeld')
    <3>1. PICK h \in Int : h = shownHeld' /\ h - Baseline <= Gained
      BY HoldingsRead DEF Observe
    <3>2. Qty <= h - s.baseline
      BY <1>2, <1>3, <2>4, <3>1, DeltaReal
    <3>3. Baseline \in Int /\ s.baseline \in Int
      BY DEF BracketAssumption, Loaded, Good, State
    <3>4. Qty <= Baseline + Gained - s.baseline /\ Qty - sold <= h - s.baseline
      BY <1>1, <1>2, <3>1, <3>2, <3>3
    <3>5. QED
      BY <3>1, <3>4 DEF Covered
  <2>5. QED
    BY <2>3, <2>4
<1>6. QED
  BY <1>4, <1>5

\* A bot that sees neither an order nor a fill has looked no more often since
\* than the indexes may lag behind, if there is one.
LEMMA BuyLooked ==
  ASSUME BracketAssumption, IInv, BInv, Observe, NEW s, Loaded(s), Buying(s), NEW o, Sees(s, o),
         o.buy = NoOrder, BuyTotal(s, o) = s.filled
  PROVE  /\ BuyMisses(s, o) = Bump(s.buyMisses)
         /\ OwnLive("buy") # {} => BuyLooks(s) + 1 <= shownAge
         /\ bought > s.filled => BuyLooks(s) + 1 <= OrdersLag + heldAge'
<1>1. /\ s.filled \in Int /\ 0 <= s.filled /\ s.filled < Qty /\ BuyLooks(s) \in Int
      /\ pc = "holdings" /\ ~Waiting
  BY BuyingLoaded DEF Observe, Waiting
<1>2. o \in Observation /\ ~o.paper /\ o.delta \in Int /\ ~Shows("buy") /\ Qty \in Int
  BY DeltaReal DEF Sees, BracketAssumption
<1>3. ~(o.delta > s.filled)
  <2>1. BuyTotal(s, o) = IF o.delta > s.filled THEN Clamp(o.delta, 0, Qty) ELSE s.filled
    BY <1>2 DEF BuyTotal
  <2>2. PICK d \in Int : d = o.delta
    BY <1>2
  <2>3. d > s.filled => Clamp(d, 0, Qty) # s.filled
    BY <1>1, <1>2 DEF Clamp
  <2>4. QED
    BY <2>1, <2>2, <2>3
<1>4. BuyMisses(s, o) = Bump(s.buyMisses)
  BY <1>1, <1>2, <1>3 DEF BuyMisses
<1>5. ASSUME OwnLive("buy") # {} PROVE BuyLooks(s) + 1 <= shownAge
  <2>1. st # NoState
    BY <1>5 DEF BInv, Unborn, OwnLive
  <2>2. Buying(st) /\ BuyLooks(s) = BuyLooks(st) /\ Pending = 1
    BY <1>1, <2>1 DEF Loaded, Buying, BuyLooks, Pending
  <2>3. QED
    BY <1>1, <1>2, <1>5, <2>1, <2>2 DEF BInv, BuySeen
<1>6. ASSUME bought > s.filled PROVE BuyLooks(s) + 1 <= OrdersLag + heldAge'
  <2>1. st # NoState
    BY <1>6 DEF BInv, Unborn, Loaded
  <2>2. /\ Buying(st) /\ BuyLooks(s) = BuyLooks(st) /\ s.filled = st.filled
        /\ s.baseline = st.baseline
    BY <2>1 DEF Loaded, Buying, BuyLooks
  <2>3. BuyLooks(st) + 1 <= OrdersLag + heldAge' \/ st.filled < shownHeld' - s.baseline
    <3>1. PICK h \in Int : h = shownHeld'
      BY HoldingsRead DEF Observe
    <3>2. BuyLooks(st) + 1 <= OrdersLag + heldAge' \/ h - st.baseline > st.filled
      BY <1>1, <1>6, <2>1, <2>2, <3>1, HoldingsRead DEF Observe
    <3>3. st.baseline \in Int /\ st.filled \in Int
      BY <1>1, <2>2 DEF Loaded, Good, State
    <3>4. QED
      BY <2>2, <3>1, <3>2, <3>3
  <2>4. QED
    BY <1>1, <1>2, <1>3, <2>2, <2>3, DeltaReal
<1>7. QED
  BY <1>4, <1>5, <1>6

\* What a tick leaves alone.
Watched ==
  /\ pc = "holdings" /\ ~Waiting
  /\ UNCHANGED <<faults, gate, book, bought, sold, byHand, placed, shown, shownAge>>

\* The parts of the invariant that no decision of the bot bears on.
LEMMA ObserveKeepsBroker ==
  ASSUME BracketAssumption, IInv, BInv, Observe, pc' # "holdings"
  PROVE  Watched /\ Broker' /\ BuyOrders'
<1>1. Watched
  BY DEF Observe, Watched, Waiting, brokerVars, worldVars
<1>2. shownHeld' - Baseline <= Gained /\ heldAge' \in 0..HoldingsLag
  BY HoldingsRead DEF Observe
<1>3. Broker'
  BY <1>1, <1>2 DEF Watched, BInv, Broker, OrderFits, Executed, Gained
<1>4. BuyOrders'
  BY <1>1 DEF Watched, BInv, BuyOrders, OwnLive
<1>5. QED
  BY <1>1, <1>3, <1>4

\* The parts that the state, or the one in flight, bears on.
BuyKept ==
  /\ Account' /\ Unborn' /\ StillBuys' /\ HasBought' /\ FirstBuy' /\ BuySeen' /\ BuyAsked'

\* A bot that buys saves a state.
LEMMA BuyingSaved ==
  ASSUME BracketAssumption, IInv, BInv, Observe, Watched, NEW s, Loaded(s), Buying(s),
         NEW t, Saves(t), t.baseline = s.baseline, t.sold = s.sold,
         t.phase \in {"awaiting_buy", "buy_resting", "bought"},
         t.filled \in Int, t.filled <= Gained, t.buyMisses \in Int, 0 <= t.buyMisses,
         t.phase = "bought" => Covered(s.baseline, shownHeld'),
         t.phase = "awaiting_buy" =>
           /\ s.phase = "awaiting_buy"
           /\ (booted' = booted /\ t.buyMisses = s.buyMisses) \/ t.buyMisses > 0,
         t.phase # "bought" =>
           /\ OwnLive("buy") # {} =>
                /\ Shows("buy") \/ BuyLooks(t)' <= shownAge
                /\ BuyLooks(t)' <= OrdersLag
           /\ bought > t.filled =>
                BuyLooks(t)' <= OrdersLag + heldAge' \/ t.filled < shownHeld' - s.baseline
  PROVE  BuyKept
<1>1. /\ st' = t /\ pc' \in {"idle", "cleanup"} /\ ~Waiting' /\ Pending' = 0
      /\ UNCHANGED <<faults, gate, book, bought, sold, byHand, placed, shown, shownAge>>
  BY DEF Saves, Waiting, Pending, Watched
<1>2. t # NoState
  BY DEF NoState
<1>3. s.sold = 0 /\ sold = 0 /\ OwnLive("sell") = {} /\ (st = NoState \/ Buying(st))
  BY BuyingLoaded DEF Watched
<1>4. OwnLive("buy")' = OwnLive("buy") /\ OwnLive("sell")' = OwnLive("sell")
  BY <1>1 DEF OwnLive
<1>g. Gained' = Gained
  BY <1>1 DEF Gained
<1>5. Account' /\ Unborn'
  BY <1>1, <1>2, <1>3, <1>g DEF Account, Unborn, Loaded
<1>6. StillBuys' /\ HasBought'
  BY <1>1, <1>3, <1>4, <1>g DEF StillBuys, HasBought, Covered, Buying
<1>7. FirstBuy'
  <2> SUFFICES ASSUME t.phase = "awaiting_buy"
               PROVE  /\ ~Unsaved => bought = 0 /\ OwnLive("buy") = {}
                      /\ booted' => t.buyMisses > 0
    BY <1>1, <1>4 DEF FirstBuy, Unsaved
  <2>1. s.phase = "awaiting_buy"
    OBVIOUS
  <2>2. CASE st = NoState
    BY <2>2 DEF BInv, Unborn, OwnLive
  <2>3. CASE st # NoState
    BY <1>1, <2>1, <2>3 DEF BInv, FirstBuy, Loaded, Watched
  <2>4. QED
    BY <2>2, <2>3
<1>8. BuySeen'
  <2> SUFFICES ASSUME t.phase # "bought"
               PROVE  /\ OwnLive("buy") # {} => /\ Shows("buy") \/ BuyLooks(t)' + 0 <= shownAge
                                                /\ BuyLooks(t)' <= OrdersLag
                      /\ bought > t.filled =>
                           BuyLooks(t)' <= OrdersLag + heldAge' \/ shownHeld' - t.baseline > t.filled
    BY <1>1, <1>4 DEF BuySeen, Buying, Shows, BuyLooks, Unsaved
  <2>1. BuyLooks(t)' \in Int
    BY DEF BuyLooks
  <2>2. PICK h \in Int : h = shownHeld'
    BY HoldingsRead DEF Observe
  <2>3. t.baseline = s.baseline /\ (t.filled < h - s.baseline => h - s.baseline > t.filled)
    BY DEF Loaded, Good, State
  <2>4. QED
    BY <2>1, <2>2, <2>3
<1>9. BuyAsked'
  BY <1>1 DEF BuyAsked
<1>10. QED
  BY <1>5, <1>6, <1>7, <1>8, <1>9 DEF BuyKept

LEMMA BuyRecordedKept ==
  ASSUME BracketAssumption, IInv, BInv, Observe, Watched, booted' = TRUE,
         NEW s, Loaded(s), Buying(s), NEW o, Sees(s, o), NEW t,
         BuyRecorded(s, o, t) \/ BuyRests(s, o, t)
  PROVE  BuyKept
<1>1. /\ OrdersLag \in Nat /\ shownAge \in Nat /\ heldAge' \in Nat
  BY HoldingsRead DEF BracketAssumption, BInv, Broker, Observe
<1>2. s.filled \in Int /\ s.filled <= Gained /\ s.sold = 0
  BY BuyingLoaded DEF Watched
<1>3. /\ BuyTotal(s, o) \in Int /\ BuyTotal(s, o) <= Gained
      /\ BuyTotal(s, o) >= Qty => Covered(s.baseline, shownHeld')
  BY BuyTotalReal
<1>4. /\ Saves(t) /\ t.baseline = s.baseline /\ t.sold = s.sold /\ t.buyMisses = 0
      /\ t.filled \in Int /\ t.filled <= Gained
      /\ t.phase = "bought" => BuyTotal(s, o) >= Qty
      /\ t.phase \in {"buy_resting", "bought"}
  BY <1>2, <1>3 DEF BuyRecorded, BuyRests, SameSale, Loaded
<1>5. BuyLooks(t)' = 0
  BY <1>4 DEF BuyLooks
<1>6. /\ OwnLive("buy") # {} => BuyLooks(t)' <= shownAge /\ BuyLooks(t)' <= OrdersLag
      /\ bought > t.filled => BuyLooks(t)' <= OrdersLag + heldAge'
  <2>1. BuyLooks(t)' <= shownAge /\ BuyLooks(t)' <= OrdersLag
    BY <1>1, <1>5
  <2>2. PICK b \in Nat : b = heldAge'
    BY <1>1
  <2>3. b \in Nat /\ OrdersLag \in Nat
    BY <1>1
  <2>4. 0 <= OrdersLag + b
    BY <2>3
  <2>5. 0 <= OrdersLag + heldAge'
    BY <2>2, <2>4
  <2>6. BuyLooks(t)' <= OrdersLag + heldAge'
    BY <1>5, <2>5
  <2>7. QED
    BY <2>1, <2>6
<1>7. t.buyMisses \in Int /\ 0 <= t.buyMisses
  BY <1>4
<1>8. QED
  BY <1>3, <1>4, <1>6, <1>7, BuyingSaved

\* A bot that looks in vain has looked once more.
LEMMA BuyHeldKept ==
  ASSUME BracketAssumption, IInv, BInv, Observe, Watched, booted' = TRUE,
         NEW s, Loaded(s), Buying(s), NEW o, Sees(s, o), NEW t, BuyHeld(s, o, t)
  PROVE  BuyKept
<1>1. /\ s.filled \in Int /\ s.filled <= Gained
      /\ s.buyMisses \in Int /\ 0 <= s.buyMisses /\ BuyLooks(s) \in Int /\ 0 <= BuyLooks(s)
      /\ Debounce \in Int /\ 0 < Debounce /\ OrdersLag \in Int /\ shownAge \in 0..OrdersLag
      /\ heldAge' \in Int
  BY BuyingLoaded, HoldingsRead DEF Watched, BracketAssumption, BInv, Broker, Observe
<1>2. /\ BuyMisses(s, o) = Bump(s.buyMisses)
      /\ OwnLive("buy") # {} => BuyLooks(s) + 1 <= shownAge
      /\ bought > s.filled => BuyLooks(s) + 1 <= OrdersLag + heldAge'
  BY BuyLooked DEF BuyHeld
<1>3. /\ Saves(t) /\ t.baseline = s.baseline /\ t.sold = s.sold /\ t.filled = s.filled
      /\ t.buyMisses = Bump(s.buyMisses) /\ t.phase = s.phase
  BY <1>2 DEF BuyHeld, SameSale, Loaded
<1>4. /\ t.buyMisses \in Int /\ 0 < t.buyMisses /\ t.buyMisses <= s.buyMisses + 1
  BY <1>1, <1>3 DEF Bump
<1>5. BuyLooks(t)' \in Int /\ BuyLooks(t)' <= BuyLooks(s) + 1
  <2>1. CASE Unsaved
    <3>1. BuyLooks(t)' = 1
      BY <1>4, <2>1 DEF BuyLooks, Unsaved, Watched
    <3>2. QED
      BY <1>1, <3>1
  <2>2. CASE ~Unsaved
    <3>1. BuyLooks(t)' = t.buyMisses /\ BuyLooks(s) = s.buyMisses
      BY <2>2 DEF BuyLooks, Unsaved, Watched
    <3>2. QED
      BY <1>4, <3>1
  <2>3. QED
    BY <2>1, <2>2
<1>6. s.phase \in {"awaiting_buy", "buy_resting"}
  BY DEF Buying
<1>7. /\ OwnLive("buy") # {} => BuyLooks(t)' <= shownAge /\ BuyLooks(t)' <= OrdersLag
      /\ bought > t.filled => BuyLooks(t)' <= OrdersLag + heldAge'
  BY <1>1, <1>2, <1>3, <1>5
<1>8. t.filled \in Int /\ t.filled <= Gained /\ t.phase \in {"awaiting_buy", "buy_resting"}
      /\ 0 <= t.buyMisses
  BY <1>1, <1>3, <1>4, <1>6
<1>9. QED
  BY <1>3, <1>4, <1>7, <1>8, BuyingSaved

\* Facts of a bot that has bought all.
LEMMA SellingLoaded ==
  ASSUME BracketAssumption, IInv, BInv, NEW s, Loaded(s), ~Buying(s)
  PROVE  /\ st # NoState /\ ~Buying(st) /\ Qty <= Gained
         /\ s.filled \in Int /\ s.sold \in Int /\ 0 <= s.sold /\ s.sold <= sold
         /\ s.filled <= Gained
         /\ s.phase # "done" => s.filled = Qty
<1>1. st # NoState /\ ~Buying(st)
  BY DEF Loaded, Buying
<1>2. Qty <= Baseline + Gained - st.baseline /\ s.sold <= sold /\ s.filled <= Gained
  BY <1>1 DEF BInv, HasBought, Covered, Account, Loaded
<1>a. /\ Qty \in Int /\ Baseline \in Int /\ Gained \in Int /\ st.baseline \in Int
      /\ Baseline <= st.baseline
  BY <1>1 DEF BracketAssumption, IInv, World, Gained, Persisted, Good, State, BInv, Account
<1>b. Qty <= Gained
  BY <1>2, <1>a
<1>3. s \in State /\ s.phase \in Phases
  BY DEF Loaded, Good, State
<1>4. s.filled \in Int /\ s.sold \in Int /\ 0 <= s.sold
  BY DEF Loaded, Good, State
<1>5. s.phase # "done" => s.filled = Qty
  BY <1>3 DEF Loaded, Good, Coherent, Buying, Phases
<1>6. QED
  BY <1>1, <1>2, <1>b, <1>4, <1>5

\* Such a bot saves a state, or asks for a sell.
LEMMA SellingKept ==
  ASSUME BracketAssumption, IInv, BInv, Observe, Watched, NEW s, Loaded(s), ~Buying(s),
         NEW t, t.baseline = s.baseline, t.filled = s.filled, t.sold <= sold,
         t.phase \in {"bought", "sell_resting", "done"},
         \/ Saves(t)
         \/ /\ Places(t) /\ request'.side = "sell"
            /\ 0 < request'.qty /\ request'.qty <= Qty
  PROVE  BuyKept
<1>1. /\ st # NoState /\ ~Buying(st) /\ s.filled <= Gained /\ s.baseline = st.baseline
  BY SellingLoaded DEF Loaded
<1>2. UNCHANGED <<faults, gate, book, bought, sold, byHand, placed, shown, shownAge>>
  BY DEF Watched
<1>3. Gained' = Gained /\ sold' = sold
  BY <1>2 DEF Gained
<1>4. Covered(s.baseline, shownHeld')
  BY <1>1, HoldingsRead DEF Observe
<1>5. t # NoState /\ ~Buying(t) /\ t.phase # "awaiting_buy"
  BY DEF NoState, Buying
<1>6. CASE Saves(t)
  <2>1. st' = t /\ ~Waiting'
    BY <1>6 DEF Saves, Waiting
  <2>2. st' # NoState /\ ~Buying(st)' /\ st'.phase # "awaiting_buy"
    BY <1>5, <2>1 DEF Buying
  <2>3. HasBought'
    BY <1>1, <1>3, <1>4, <2>1, <2>2 DEF HasBought, Covered
  <2>4. Account'
    BY <1>1, <1>2, <1>3, <2>1 DEF Account, Loaded
  <2>5. Unborn' /\ StillBuys' /\ FirstBuy' /\ BuySeen' /\ BuyAsked'
    BY <2>1, <2>2 DEF Unborn, StillBuys, FirstBuy, BuySeen, BuyAsked
  <2>6. QED
    BY <2>3, <2>4, <2>5 DEF BuyKept
<1>7. CASE Places(t) /\ request'.side = "sell" /\ 0 < request'.qty /\ request'.qty <= Qty
  <2>1. st' = st /\ next' = t
    BY <1>7 DEF Places
  <2>2. st' # NoState /\ ~Buying(st)' /\ st'.phase # "awaiting_buy"
    BY <1>1, <2>1 DEF Buying
  <2>3. HasBought'
    BY <1>1, <1>3, <1>4, <1>7, <2>1, <2>2 DEF HasBought, Covered
  <2>4. Account'
    BY <1>1, <1>2, <1>3, <1>7, <2>1 DEF Account, BInv
  <2>5. Unborn' /\ StillBuys' /\ FirstBuy' /\ BuySeen' /\ BuyAsked'
    BY <1>7, <2>1, <2>2 DEF Unborn, StillBuys, FirstBuy, BuySeen, BuyAsked
  <2>6. QED
    BY <2>3, <2>4, <2>5 DEF BuyKept
<1>8. QED
  BY <1>6, <1>7

\* What is found sold was sold.
LEMMA SellTotalReal ==
  ASSUME BracketAssumption, IInv, BInv, Observe, NEW s, Loaded(s), s.phase = "sell_resting",
         NEW o, Sees(s, o)
  PROVE  SellTotal(s, o) \in Int /\ SellTotal(s, o) <= sold
<1>1. /\ st # NoState /\ ~Buying(st) /\ s.baseline = st.baseline
      /\ s.filled = Qty /\ s.sold \in Int /\ 0 <= s.sold /\ s.sold <= sold
  BY SellingLoaded DEF Buying, Loaded
<1>2. Qty \in Int /\ 0 < Qty /\ sold \in Int /\ 0 <= sold
  BY DEF BracketAssumption, BInv, Broker, IInv, World
<1>3. ~o.paper /\ o.delta \in Int /\ Qty - sold <= o.delta
  <2>1. Qty - sold <= shownHeld' - s.baseline
    BY <1>1, HoldingsRead DEF Observe, Covered
  <2>2. PICK k \in Int : k = Qty - sold
    BY <1>2
  <2>3. k <= o.delta
    BY <2>1, <2>2, DeltaReal
  <2>4. QED
    BY <2>2, <2>3, DeltaReal DEF Sees
<1>4. o.sell.exec \in Int /\ o.sell.exec <= sold
  <2>1. CASE o.sell = NoOrder
    BY <1>2, <2>1 DEF NoOrder
  <2>2. CASE o.sell # NoOrder
    <3>1. o.sell \in shown /\ o.sell.side = "sell" /\ OrderFits(o.sell) /\ o.sell.exec \in Int
      BY <2>2 DEF Sees, BInv, Broker, IInv, World, Order
    <3>2. QED
      BY <3>1 DEF OrderFits, Executed
  <2>3. QED
    BY <2>1, <2>2
<1> DEFINE c == Clamp(Qty - o.delta, 0, Qty)
           m == Larger(Larger(s.sold, c), o.sell.exec)
<1>5. c \in Int /\ c <= sold
  BY <1>2, <1>3 DEF Clamp
<1>6. SellTotal(s, o) = Clamp(m, 0, Qty)
  BY <1>1, <1>3 DEF SellTotal
<1> HIDE DEF c
<1>7. m \in Int /\ m <= sold
  BY <1>1, <1>4, <1>5 DEF Larger
<1> HIDE DEF m
<1>8. Clamp(m, 0, Qty) \in Int /\ Clamp(m, 0, Qty) <= sold
  BY <1>2, <1>7 DEF Clamp
<1>9. QED
  BY <1>6, <1>8

LEMMA SaleKept ==
  ASSUME BracketAssumption, IInv, BInv, Observe, Watched, NEW s, Loaded(s), ~Buying(s),
         NEW o, Sees(s, o), NEW t, SaleMoves(s, o, t)
  PROVE  BuyKept
<1>1. /\ s.sold \in Int /\ 0 <= s.sold /\ s.sold <= sold /\ s.filled <= Gained
      /\ s.filled \in Int /\ s.filled <= Qty /\ s.qty = s.filled - s.sold
      /\ s.phase \in {"bought", "sell_resting", "done"}
  BY SellingLoaded DEF Loaded, Good, State, Coherent, Phases, Buying
<1>2. CASE SaleRecorded(s, o, t)
  <2>1. /\ Saves(t) /\ t.baseline = s.baseline /\ t.filled = s.filled /\ t.phase = "sell_resting"
        /\ t.sold = SellTotal(s, o) /\ s.phase = "sell_resting"
    BY <1>1, <1>2 DEF SaleRecorded, SameBuy
  <2>2. t.sold <= sold
    BY <2>1, SellTotalReal
  <2>3. QED
    BY <2>1, <2>2, SellingKept
<1>3. CASE SaleHeld(s, o, t)
  <2>1. /\ Saves(t) /\ t.baseline = s.baseline /\ t.filled = s.filled /\ t.sold = s.sold
        /\ t.phase \in {"bought", "sell_resting", "done"}
    BY <1>1, <1>3 DEF SaleHeld, SameBuy
  <2>2. QED
    BY <1>1, <2>1, SellingKept
<1>4. CASE SaleAsks(s, o, t)
  <2>1. /\ Places(t) /\ t.baseline = s.baseline /\ t.filled = s.filled /\ t.sold = s.sold
        /\ t.phase = "sell_resting"
        /\ request'.side = "sell" /\ 0 < request'.qty /\ request'.qty <= s.qty
    BY <1>1, <1>4 DEF SaleAsks, SameBuy
  <2>2. request'.qty \in Int
    BY ObserveKept DEF IInv, World
  <2>3. request'.qty <= Qty
    <3>1. PICK q \in Int : q = request'.qty
      BY <2>2
    <3>2. q <= s.filled - s.sold /\ Qty \in Int
      BY <1>1, <2>1, <3>1 DEF BracketAssumption
    <3>3. QED
      BY <1>1, <3>1, <3>2
  <2>4. QED
    BY <1>1, <2>1, <2>3, SellingKept
<1>5. QED
  BY <1>2, <1>3, <1>4 DEF SaleMoves

\* The bot orders only when it has looked more often than the indexes lag behind.
LEMMA OrdersAfterLooking ==
  ASSUME BracketAssumption, Watchful, IInv, BInv, Observe, Watched,
         NEW s, Loaded(s), Buying(s), NEW o, Sees(s, o), CanPlace(s, o),
         BuyReady(s, BuyMisses(s, o)), o.buy = NoOrder, BuyTotal(s, o) = s.filled
  PROVE  /\ st # NoState /\ OwnLive("buy") = {} /\ bought <= s.filled
         /\ st.phase = "awaiting_buy" => st.buyMisses > 0
<1>1. /\ s.filled \in Int /\ 0 <= s.filled
      /\ s.buyMisses \in Int /\ 0 <= s.buyMisses /\ BuyLooks(s) \in Int /\ 0 <= BuyLooks(s)
      /\ Debounce \in Int /\ 0 < Debounce /\ bought \in Int
  BY BuyingLoaded DEF Watched, BracketAssumption, IInv, World
<1>l. /\ OrdersLag \in Int /\ HoldingsLag \in Int /\ shownAge \in 0..OrdersLag
      /\ heldAge' \in 0..HoldingsLag /\ faults \in FaultSets
  BY HoldingsRead DEF BracketAssumption, BInv, Broker, Observe
<1>2. /\ BuyMisses(s, o) = Bump(s.buyMisses)
      /\ OwnLive("buy") # {} => BuyLooks(s) + 1 <= shownAge
      /\ bought > s.filled => BuyLooks(s) + 1 <= OrdersLag + heldAge'
  BY BuyLooked
<1>3. booted /\ st # NoState
  BY DEF CanPlace, Sees, BInv, Unborn
<1>4. s.phase = st.phase /\ s.buyMisses = st.buyMisses /\ s.filled = st.filled
  BY <1>3 DEF Loaded
<1>5. st.phase = "awaiting_buy" => st.buyMisses > 0
  BY <1>3 DEF BInv, FirstBuy
<1>6. CASE s.phase = "awaiting_buy" /\ ~Unsaved
  <2>1. bought = 0 /\ OwnLive("buy") = {}
    BY <1>3, <1>4, <1>6 DEF BInv, FirstBuy, Watched
  <2>2. QED
    BY <1>1, <1>3, <1>5, <2>1
<1>7. CASE ~(s.phase = "awaiting_buy" /\ ~Unsaved)
  <2>1. OrdersLag + HoldingsLag < Looks(faults)
    BY <1>l DEF Watchful
  <2>2. Looks(faults) \in Int /\ Looks(faults) <= BuyLooks(s) + 1
    <3>1. CASE s.phase = "awaiting_buy" /\ Unsaved
      <4>1. BuyLooks(s) = 1
        BY <1>1, <1>3, <1>4, <1>5, <3>1 DEF BuyLooks
      <4>2. Looks(faults) = IF Debounce > 2 THEN 2 ELSE Debounce
        BY <3>1 DEF Looks, Unsaved
      <4>3. QED
        BY <1>1, <4>1, <4>2
    <3>2. CASE s.phase # "awaiting_buy"
      <4>1. Bump(s.buyMisses) >= Debounce
        BY <1>2, <3>2 DEF BuyReady
      <4>2. s.buyMisses + 1 >= Debounce
        BY <1>1, <4>1 DEF Bump
      <4>3. CASE Unsaved
        <5>1. BuyLooks(s) = IF s.buyMisses > 0 THEN 1 ELSE 0
          BY <1>3, <4>3 DEF BuyLooks
        <5>2. Looks(faults) = IF Debounce > 2 THEN 2 ELSE Debounce
          BY <4>3 DEF Looks, Unsaved
        <5>3. QED
          BY <1>1, <4>2, <5>1, <5>2
      <4>4. CASE ~Unsaved
        <5>1. BuyLooks(s) = s.buyMisses /\ Looks(faults) = Debounce
          BY <4>4 DEF BuyLooks, Looks, Unsaved
        <5>2. QED
          BY <1>1, <4>2, <5>1
      <4>5. QED
        BY <4>3, <4>4
    <3>3. QED
      BY <1>7, <3>1, <3>2
  <2>3. PICK a \in Int : a = heldAge' /\ a <= HoldingsLag
    BY <1>l
  <2>4. /\ ~(BuyLooks(s) + 1 <= shownAge)
        /\ ~(BuyLooks(s) + 1 <= OrdersLag + a)
    BY <1>1, <1>l, <2>1, <2>2, <2>3
  <2>5. OwnLive("buy") = {} /\ ~(bought > s.filled)
    BY <1>2, <2>3, <2>4
  <2>6. QED
    BY <1>1, <1>3, <1>5, <2>5
<1>8. QED
  BY <1>6, <1>7

LEMMA BuyAsksKept ==
  ASSUME BracketAssumption, Watchful, IInv, BInv, Observe, Watched, booted' = TRUE,
         NEW s, Loaded(s), Buying(s), NEW o, Sees(s, o), NEW t, BuyAsks(s, o, t)
  PROVE  BuyKept
<1>1. /\ st # NoState /\ OwnLive("buy") = {} /\ bought <= s.filled
      /\ st.phase = "awaiting_buy" => st.buyMisses > 0
  BY OrdersAfterLooking DEF BuyAsks
<1>2. /\ pc' = "order" /\ next' = t /\ st' = st /\ Waiting' /\ request'.side = "buy"
      /\ t.filled = s.filled /\ t.sold = s.sold /\ t.buyMisses = 0 /\ t.phase = "buy_resting"
      /\ request'.qty = Qty - s.filled /\ Qty > s.filled
      /\ UNCHANGED <<faults, gate, book, bought, sold, byHand, placed, shown, shownAge>>
  BY DEF BuyAsks, Places, SameSale, Watched, Waiting
<1>3. /\ s.filled \in Int /\ 0 <= s.filled /\ s.filled <= Gained /\ Qty \in Int
      /\ s.sold = 0 /\ sold = 0 /\ OwnLive("sell") = {} /\ Buying(st)
  BY <1>1, BuyingLoaded DEF Watched, BracketAssumption
<1>4. OwnLive("buy")' = OwnLive("buy") /\ OwnLive("sell")' = OwnLive("sell")
  BY <1>2 DEF OwnLive
<1>5. 0 < request'.qty /\ request'.qty <= Qty /\ request'.qty = Qty - t.filled
  <2>1. PICK q \in Int : q = request'.qty /\ q = Qty - s.filled
    BY <1>2, <1>3
  <2>2. 0 < q /\ q <= Qty
    BY <1>2, <1>3, <2>1
  <2>3. QED
    BY <1>2, <2>1, <2>2
<1>6. Account'
  BY <1>1, <1>2, <1>3, <1>5 DEF BInv, Account, Loaded, Gained
<1>7. Unborn' /\ StillBuys' /\ HasBought' /\ BuySeen'
  BY <1>1, <1>2, <1>3, <1>4 DEF BInv, Unborn, StillBuys, HasBought, BuySeen, Buying
<1>8. FirstBuy'
  <2> SUFFICES ASSUME st.phase = "awaiting_buy"
               PROVE  /\ ~Unsaved => bought = 0 /\ OwnLive("buy") = {}
                      /\ st.buyMisses > 0
    BY <1>2, <1>4 DEF FirstBuy, Unsaved
  <2>1. QED
    BY <1>1 DEF BInv, FirstBuy, Watched
<1>9. BuyAsked'
  BY <1>1, <1>2, <1>4, <1>5 DEF BuyAsked
<1>10. QED
  BY <1>6, <1>7, <1>8, <1>9 DEF BuyKept

\* An ambiguous listing leaves the state as it is, or creates it.
LEMMA AmbiguousKept ==
  ASSUME BracketAssumption, IInv, BInv, Observe, Watched, NEW s, Loaded(s), Keep(s),
         booted' = booted
  PROVE  BuyKept
<1>1. st' = s /\ pc' = "idle" /\ Saves(s) /\ Pending' = 0 /\ ~Waiting'
  BY DEF Keep, Save, Saves, Pending, Waiting
<1>2. CASE Buying(s)
  <2>1. /\ s.filled \in Int /\ s.filled <= Gained
        /\ s.buyMisses \in Int /\ 0 <= s.buyMisses /\ BuyLooks(s) \in Int /\ 0 <= BuyLooks(s)
        /\ st = NoState \/ Buying(st)
    BY <1>2, BuyingLoaded DEF Watched
  <2>2. s.baseline \in Int /\ s.phase \in {"awaiting_buy", "buy_resting"}
    BY <1>2 DEF Loaded, Good, State, Buying
  <2>3. BuyLooks(s)' = BuyLooks(s)
    <3>1. s' = s
      BY <1>1, <1>2
    <3>2. QED
      BY <3>1 DEF BuyLooks, Unsaved, Watched
  <2>4. OwnLive("buy") # {} => /\ Shows("buy") \/ BuyLooks(s) <= shownAge
                               /\ BuyLooks(s) <= OrdersLag
    <3>1. CASE st = NoState
      BY <3>1 DEF BInv, Unborn, OwnLive
    <3>2. CASE st # NoState
      <4>1. BuyLooks(s) = BuyLooks(st) /\ Pending = 1 /\ Buying(st)
        BY <2>1, <3>2 DEF Loaded, BuyLooks, Pending, Watched
      <4>2. shownAge \in Int
        BY DEF BInv, Broker
      <4>3. QED
        BY <2>1, <3>2, <4>1, <4>2 DEF BInv, BuySeen, Watched
    <3>3. QED
      BY <3>1, <3>2
  <2>5. bought > s.filled =>
          BuyLooks(s) <= OrdersLag + heldAge' \/ s.filled < shownHeld' - s.baseline
    <3>1. PICK h \in Int : h = shownHeld'
      BY HoldingsRead DEF Observe
    <3>2. PICK a \in Int : a = heldAge'
      BY HoldingsRead DEF Observe
    <3>3. CASE st = NoState
      BY <3>3 DEF BInv, Unborn, Loaded
    <3>4. CASE st # NoState
      <4>1. /\ BuyLooks(s) = BuyLooks(st) /\ Buying(st) /\ s.filled = st.filled
            /\ s.baseline = st.baseline
        BY <2>1, <3>4 DEF Loaded, BuyLooks
      <4>2. bought > st.filled => BuyLooks(st) + 1 <= OrdersLag + a \/ h - st.baseline > st.filled
        BY <3>1, <3>2, <3>4, <4>1, HoldingsRead DEF Observe, Watched
      <4>3. st.baseline \in Int /\ OrdersLag \in Int /\ BuyLooks(st) \in Int /\ st.filled \in Int
        BY <2>1, <2>2, <4>1 DEF BracketAssumption
      <4>4. bought > st.filled => BuyLooks(st) <= OrdersLag + a \/ st.filled < h - st.baseline
        BY <3>1, <3>2, <4>2, <4>3
      <4>5. QED
        BY <3>1, <3>2, <4>1, <4>4
    <3>5. QED
      BY <3>3, <3>4
  <2>6. /\ OwnLive("buy") # {} => /\ Shows("buy") \/ BuyLooks(s)' <= shownAge
                                 /\ BuyLooks(s)' <= OrdersLag
        /\ bought > s.filled =>
             BuyLooks(s)' <= OrdersLag + heldAge' \/ s.filled < shownHeld' - s.baseline
    BY <2>3, <2>4, <2>5
  <2>7. s.phase # "bought" /\ s.phase \in {"awaiting_buy", "buy_resting", "bought"}
    BY <2>2
  <2>8. s.filled \in Int /\ s.filled <= Gained /\ s.buyMisses \in Int /\ 0 <= s.buyMisses
    BY <2>1
  <2>9. s.phase = "awaiting_buy" =>
          /\ s.phase = "awaiting_buy"
          /\ (booted' = booted /\ s.buyMisses = s.buyMisses) \/ s.buyMisses > 0
    OBVIOUS
  <2>10. s.phase = "bought" => Covered(s.baseline, shownHeld')
    BY <2>7
  <2>11. Saves(s) /\ s.baseline = s.baseline /\ s.sold = s.sold
    BY <1>1
  <2>12. s.phase # "bought" =>
           /\ OwnLive("buy") # {} => /\ Shows("buy") \/ BuyLooks(s)' <= shownAge
                                     /\ BuyLooks(s)' <= OrdersLag
           /\ bought > s.filled =>
                BuyLooks(s)' <= OrdersLag + heldAge' \/ s.filled < shownHeld' - s.baseline
    BY <2>6
  <2>13. s.phase \in {"awaiting_buy", "buy_resting", "bought"}
    BY <2>7
  <2>14. QED
    BY <1>2, <2>8, <2>9, <2>10, <2>11, <2>12, <2>13, BuyingSaved, Zenon
<1>3. CASE ~Buying(s)
  <2>1. s.phase \in {"bought", "sell_resting", "done"}
    BY <1>3 DEF Loaded, Good, State, Phases, Buying
  <2>2. s.sold <= sold
    BY <1>3, SellingLoaded
  <2>3. QED
    BY <1>1, <1>3, <2>1, <2>2, SellingKept
<1>4. QED
  BY <1>2, <1>3

\* A tick keeps the buying side's invariant.
LEMMA ObserveKeepsBuys ==
  ASSUME BracketAssumption, Watchful, IInv, BInv, Observe
  PROVE  BInv'
<1>1. PICK s : /\ Loaded(s)
               /\ \/ Keep(s) /\ booted' = booted
                  \/ booted' = TRUE /\ \E o : Sees(s, o) /\ Decide(s, o)
  BY Observed
<1>2. pc = "holdings" /\ ~Waiting /\ gate = TRUE /\ ledger \in Int /\ Good(s)
  BY <1>1 DEF Observe, Waiting, BInv, Broker, IInv, World, Loaded
<1>3. Watched
  BY DEF Observe, Watched, Waiting, brokerVars, worldVars
<1>4. BuyKept /\ pc' # "holdings"
  <2>1. CASE Keep(s) /\ booted' = booted
    <3>1. pc' # "holdings"
      BY <2>1 DEF Keep, Save
    <3>2. QED
      BY <1>1, <1>3, <2>1, <3>1, AmbiguousKept
  <2>2. ASSUME NEW o, booted' = TRUE, Sees(s, o), Decide(s, o)
        PROVE  BuyKept /\ pc' # "holdings"
    <3>1. CASE Buying(s)
      <4>1. PICK t : BuyMoves(s, o, t)
        BY <1>2, <2>2, <3>1, BuyingMoves DEF Sees
      <4>2. CASE BuyRecorded(s, o, t) \/ BuyRests(s, o, t)
        <5>1. pc' # "holdings"
          BY <4>2 DEF BuyRecorded, BuyRests, Saves
        <5>2. QED
          BY <1>1, <1>3, <2>2, <3>1, <4>2, <5>1, BuyRecordedKept
      <4>3. CASE BuyHeld(s, o, t)
        <5>1. pc' # "holdings"
          BY <4>3 DEF BuyHeld, Saves
        <5>2. QED
          BY <1>1, <1>3, <2>2, <3>1, <4>3, <5>1, BuyHeldKept
      <4>4. CASE BuyAsks(s, o, t)
        <5>1. pc' # "holdings"
          BY <4>4 DEF BuyAsks, Places
        <5>2. QED
          BY <1>1, <1>3, <2>2, <3>1, <4>4, <5>1, BuyAsksKept
      <4>5. QED
        BY <4>1, <4>2, <4>3, <4>4 DEF BuyMoves
    <3>2. CASE ~Buying(s)
      <4>1. PICK t : SaleMoves(s, o, t)
        BY <1>2, <2>2, <3>2, SellingMoves
      <4>2. pc' # "holdings"
        BY <4>1 DEF SaleMoves, SaleRecorded, SaleHeld, SaleAsks, Saves, Places
      <4>3. QED
        BY <1>1, <1>3, <2>2, <3>2, <4>1, <4>2, SaleKept
    <3>3. QED
      BY <3>1, <3>2
  <2>3. QED
    BY <1>1, <2>1, <2>2
<1>5. Broker' /\ BuyOrders'
  BY <1>4, ObserveKeepsBroker
<1>6. QED
  BY <1>4, <1>5 DEF BInv, BuyKept

-----------------------------------------------------------------------------
(* The buying side: every step.                                            *)

LEMMA InitBInv ==
  ASSUME BracketAssumption, Watchful, Init
  PROVE  BInv
<1>1. gate = TRUE
  BY DEF Init, Watchful
<1>2. OwnLive("buy") = {} /\ OwnLive("sell") = {} /\ ~Waiting /\ IsFiniteSet({})
  BY FS_EmptySet DEF Init, OwnLive, Waiting
<1>3. /\ Qty \in Int /\ 0 < Qty /\ 0 \in 0..OrdersLag /\ 0 \in 0..HoldingsLag
      /\ Baseline - Baseline = 0 /\ 0 \in 0..Qty
  BY DEF BracketAssumption
<1>4. Broker
  BY <1>1, <1>2, <1>3 DEF Init, Broker, Gained
<1>5. QED
  BY <1>2, <1>4 DEF Init, BInv, Account, Unborn, StillBuys, HasBought, BuyOrders, FirstBuy,
                    BuySeen, BuyAsked

LEMMA BuysKept ==
  ASSUME BracketAssumption, Watchful, IInv, BInv, [Next]_vars
  PROVE  BInv'
<1>g. gate = TRUE /\ faults \in FaultSets /\ "gate" \notin faults
  BY DEF BInv, Broker, Watchful
<1>1. CASE TickLive
  BY <1>1, ListingKeepsBuys
<1>2. CASE QueryFails
  BY <1>2, QuietKeepsBuys DEF QueryFails, brokerVars, worldVars, Waiting
<1>3. CASE Observe
  BY <1>3, ObserveKeepsBuys
<1>4. CASE TickPaper
  BY <1>4, <1>g DEF TickPaper
<1>5. CASE OrderRefused \/ OrderAnswered \/ AnswerLost
  BY <1>5, SavesWhatIsInFlight, SavingKeepsBuys
<1>6. CASE OrderAccepted
  BY <1>6, AcceptedKeepsBuys
<1>7. CASE CleanedUp
  BY <1>7, QuietKeepsBuys DEF CleanedUp, brokerVars, worldVars, Waiting
<1>8. CASE StopBot \/ StartBot
  BY <1>8, QuietKeepsBuys DEF StopBot, StartBot, brokerVars, worldVars, tickVars
<1>9. CASE \E id \in cancels : CancelResting(id)
  <2>1. PICK id : CancelResting(id)
    BY <1>9
  <2>2. QED
    BY <2>1, ShrinkingKeepsBuys DEF CancelResting, worldVars, tickVars
<1>10. CASE Crash
  <2>1. Waiting => Unsaved
    BY <1>10 DEF Crash, Waiting, Unsaved
  <2>2. QED
    BY <1>10, <2>1, QuietKeepsBuys DEF Crash, brokerVars
<1>11. CASE \E x \in book : Execute(x) \/ Expire(x)
  <2>1. PICK x \in book : Execute(x) \/ Expire(x)
    BY <1>11
  <2>2. CASE Execute(x)
    BY <2>2, ExecutionKeepsBuys, OwnersStep, OwnersKeepBuys
  <2>3. CASE Expire(x)
    BY <2>3, ShrinkingKeepsBuys DEF Expire, worldVars, tickVars
  <2>4. QED
    BY <2>1, <2>2, <2>3
<1>12. CASE EnterByHand
  BY <1>12, OwnersStep, OwnersKeepBuys
<1>13. CASE MarketTurns \/ NewSession
  BY <1>13, QuietKeepsBuys DEF MarketTurns, NewSession, brokerVars, tickVars
<1>14. CASE GateTurns
  BY <1>14, <1>g DEF GateTurns
<1>15. CASE UNCHANGED vars
  BY <1>15, QuietKeepsBuys DEF vars, brokerVars, tickVars, indexVars
<1>16. QED
  BY <1>1, <1>2, <1>3, <1>4, <1>5, <1>6, <1>7, <1>8, <1>9, <1>10, <1>11, <1>12, <1>13, <1>14,
     <1>15 DEF Next, Bot

\* A set without two different members has at most one.
LEMMA AtMostOne ==
  ASSUME NEW S, \A x, y \in S : x = y
  PROVE  Cardinality(S) \in Nat /\ Cardinality(S) <= 1
<1>1. CASE S = {}
  BY <1>1, FS_EmptySet
<1>2. CASE S # {}
  <2>1. PICK x \in S : TRUE
    BY <1>2
  <2>2. S = {x}
    BY <2>1
  <2>3. QED
    BY <2>2, FS_Singleton
<1>3. QED
  BY <1>1, <1>2

-----------------------------------------------------------------------------
\* No double buy: with indexes that lag behind by less than the bot looks,
\* there is never a second buy order at the broker, and what is bought with
\* what rests stays within the quantity, even when the process dies between
\* sending and saving (kr#2 in limit-bracket.ts).
THEOREM NeverOverBuys == ASSUME BracketAssumption, Watchful PROVE Spec => []NoOverBuy
<1>1. IInv /\ BInv => NoOverBuy
  BY AtMostOne DEF BInv, BuyOrders, Broker, NoOverBuy
<1>2. IInv /\ BInv /\ [Next]_vars => IInv' /\ BInv'
  BY StepKept, BuysKept
<1>3. Init => IInv /\ BInv
  BY InitIInv, InitBInv
<1>4. QED
  BY <1>1, <1>2, <1>3, PTL DEF Spec

\* What the state says was bought was executed at the broker, by the bot's
\* orders or by the owner's at its price, and what it says was sold was sold by
\* the bot: a vanished order is never taken for a fill.
THEOREM BooksWhatIsReal == ASSUME BracketAssumption, Watchful PROVE Spec => []FillsAreReal
<1>1. IInv /\ BInv => FillsAreReal
  BY DEF BInv, Account, Gained, FillsAreReal
<1>2. IInv /\ BInv /\ [Next]_vars => IInv' /\ BInv'
  BY StepKept, BuysKept
<1>3. Init => IInv /\ BInv
  BY InitIInv, InitBInv
<1>4. QED
  BY <1>1, <1>2, <1>3, PTL DEF Spec

-----------------------------------------------------------------------------
(* The selling side: the steps that leave the state alone.                 *)

LEMMA CarefulSaves ==
  ASSUME Careful, BInv
  PROVE  ~Unsaved
BY DEF Careful, BInv, Broker, Unsaved

\* A bot with a sell order at the broker has bought all.
LEMMA SellsWhenBought ==
  ASSUME BInv, OwnLive("sell") # {}
  PROVE  st # NoState /\ ~Buying(st)
<1>1. st # NoState
  BY DEF BInv, Unborn, OwnLive
<1>2. QED
  BY <1>1 DEF BInv, StillBuys

\* A step that brings no order in, and ends a tick only between two orders.
LEMMA QuietKeepsSells ==
  ASSUME BracketAssumption, IInv, BInv, SInv, OwnLive("sell")' \subseteq OwnLive("sell"),
         UNCHANGED <<st, next, request, sold, indexVars>>, Gained' \in Int, Gained <= Gained',
         pc' = pc \/ (pc' \notin {"holdings", "order", "answer"} /\ ~Waiting)
  PROVE  SInv'
<1>u. /\ st' = st /\ next' = next /\ request' = request /\ sold' = sold
      /\ shown' = shown /\ shownAge' = shownAge /\ shownHeld' = shownHeld /\ heldAge' = heldAge
  BY DEF indexVars
<1>g. /\ Gained \in Int /\ Gained' \in Int /\ Gained <= Gained' /\ sold \in Int /\ Qty \in Int
      /\ shownAge \in Int
      /\ st # NoState => st.sold \in Int /\ st.sellMisses \in Int
  BY DEF Gained, IInv, World, Persisted, Good, State, BracketAssumption, BInv, Broker
<1>w. Waiting' => Waiting
  BY DEF Waiting
<1>p. pc' = "order" => pc = "order"
  OBVIOUS
<1>1. SellOrders'
  <2>1. sold <= Gained'
    BY <1>g DEF SInv, SellOrders
  <2>2. ASSUME NEW x \in OwnLive("sell")' PROVE sold + x.rem <= Gained'
    <3>1. sold + x.rem <= Gained /\ x.rem \in Int
      BY DEF SInv, SellOrders, OwnLive, IInv, World, Order
    <3>2. QED
      BY <1>g, <3>1
  <2>3. \A x, y \in OwnLive("sell")' : x = y
    BY DEF SInv, SellOrders
  <2>4. QED
    BY <1>u, <2>1, <2>2, <2>3 DEF SellOrders
<1>2. FirstSell'
  BY <1>u DEF SInv, FirstSell, Waiting, Buying
<1>3. SellSeen'
  <2> SUFFICES ASSUME st # NoState, st.phase = "sell_resting", ~Waiting'
               PROVE  /\ OwnLive("sell")' # {} =>
                           /\ Shows("sell") \/ st.sellMisses + Pending' <= shownAge
                           /\ st.sellMisses <= OrdersLag
                      /\ Gained' - sold < Qty - st.sold =>
                           \/ st.sellMisses <= OrdersLag + heldAge
                           \/ shownHeld - st.baseline < Qty - st.sold
    BY <1>u DEF SellSeen, Shows, Oversold
  <2>1. ~Waiting
    BY DEF Waiting
  <2>2. Pending' \in Int /\ Pending \in Int /\ Pending' <= Pending
    BY DEF Pending
  <2>3. /\ OwnLive("sell") # {} => /\ Shows("sell") \/ st.sellMisses + Pending <= shownAge
                                   /\ st.sellMisses <= OrdersLag
        /\ Gained - sold < Qty - st.sold => \/ st.sellMisses <= OrdersLag + heldAge
                                            \/ shownHeld - st.baseline < Qty - st.sold
    BY <2>1 DEF SInv, SellSeen, Oversold
  <2>4. OwnLive("sell")' # {} => OwnLive("sell") # {}
    OBVIOUS
  <2>5. st.sellMisses + Pending <= shownAge => st.sellMisses + Pending' <= shownAge
    BY <1>g, <2>2
  <2>6. Gained' - sold < Qty - st.sold => Gained - sold < Qty - st.sold
    <3>1. PICK g \in Int : g = Gained'
      BY <1>g
    <3>2. g \in Int /\ Gained <= g
      BY <1>g, <3>1
    <3>3. g - sold < Qty - st.sold => Gained - sold < Qty - st.sold
      BY <1>g, <3>2
    <3>4. QED
      BY <3>1, <3>3
  <2>7. QED
    BY <2>3, <2>4, <2>5, <2>6
<1>4. SellAsked'
  <2>1. ASSUME pc = "order", OwnLive("sell") = {}, request.qty <= Gained - sold
        PROVE  request.qty <= Gained' - sold
    <3>1. request.qty \in Int
      BY DEF IInv, World
    <3>2. PICK g \in Int : g = Gained'
      BY <1>g
    <3>3. g \in Int /\ Gained <= g
      BY <1>g, <3>2
    <3>4. request.qty <= g - sold
      BY <1>g, <2>1, <3>1, <3>3
    <3>5. QED
      BY <3>2, <3>4
  <2>2. QED
    BY <1>u, <1>w, <1>p, <2>1 DEF SInv, SellAsked
<1>5. BuyAsksFirst'
  BY <1>u, <1>w DEF SInv, BuyAsksFirst
<1>6. QED
  BY <1>1, <1>2, <1>3, <1>4, <1>5 DEF SInv

\* So does a step of the owner's.
LEMMA OwnersKeepSells ==
  ASSUME BracketAssumption, IInv, BInv, SInv, Owners
  PROVE  SInv'
<1>1. OwnLive("sell")' \subseteq OwnLive("sell")
  BY DEF Owners, OwnLive
<1>2. PICK b \in Int : b = byHand' /\ byHand <= b
  BY DEF Owners
<1>3. /\ bought \in Int /\ byHand \in Int /\ Gained = bought + byHand
      /\ Gained' = bought + b
  BY <1>2 DEF IInv, World, Owners, Gained
<1>4. Gained' \in Int /\ Gained <= Gained'
  <2>1. b \in Int /\ byHand <= b
    BY <1>2
  <2>2. bought + b \in Int /\ bought + byHand <= bought + b
    BY <1>3, <2>1
  <2>3. QED
    BY <1>3, <2>2
<1>5. QED
  BY <1>1, <1>4, QuietKeepsSells DEF Owners

\* A listing shows every order, or is one answer older.
LEMMA ListingKeepsSells ==
  ASSUME BracketAssumption, IInv, BInv, SInv, TickLive
  PROVE  SInv'
<1>1. /\ pc = "idle" /\ pc' = "holdings"
      /\ st' = st /\ bought' = bought /\ sold' = sold /\ byHand' = byHand /\ book' = book
      /\ shownHeld' = shownHeld /\ heldAge' = heldAge
  BY DEF TickLive, brokerVars
<1>2. \/ shown' = book
      \/ shownAge' = shownAge + 1 /\ shown' = shown
  BY DEF TickLive, ListOrders
<1>3. OwnLive("sell")' = OwnLive("sell") /\ ~Waiting /\ ~Waiting' /\ Pending = 0 /\ Pending' = 1
  BY <1>1 DEF OwnLive, Waiting, Pending
<1>4. SellOrders' /\ FirstSell' /\ SellAsked' /\ BuyAsksFirst'
  BY <1>1, <1>3 DEF SInv, SellOrders, FirstSell, SellAsked, BuyAsksFirst, Buying, Gained
<1>5. SellSeen'
  <2> SUFFICES ASSUME st # NoState, st.phase = "sell_resting"
               PROVE  /\ OwnLive("sell") # {} =>
                           /\ Shows("sell")' \/ st.sellMisses + 1 <= shownAge'
                           /\ st.sellMisses <= OrdersLag
                      /\ Oversold(st) => \/ st.sellMisses <= OrdersLag + heldAge
                                           \/ shownHeld - st.baseline < Qty - st.sold
    BY <1>1, <1>3 DEF SellSeen, Oversold, Gained
  <2>1. st.sellMisses \in Int /\ shownAge \in Int
    BY DEF IInv, Persisted, Good, State, BInv, Broker
  <2>2. /\ OwnLive("sell") # {} => /\ Shows("sell") \/ st.sellMisses <= shownAge
                                   /\ st.sellMisses <= OrdersLag
        /\ Oversold(st) => \/ st.sellMisses <= OrdersLag + heldAge
                             \/ shownHeld - st.baseline < Qty - st.sold
    BY <1>3, <2>1 DEF SInv, SellSeen
  <2>3. CASE shown' = book
    <3>1. OwnLive("sell") # {} => Shows("sell")'
      BY <2>3 DEF OwnLive, Shows
    <3>2. QED
      BY <2>2, <3>1
  <2>4. CASE shownAge' = shownAge + 1 /\ shown' = shown
    <3>1. Shows("sell")' <=> Shows("sell")
      BY <2>4 DEF Shows
    <3>2. st.sellMisses <= shownAge => st.sellMisses + 1 <= shownAge'
      BY <2>1, <2>4
    <3>3. QED
      BY <2>2, <3>1, <3>2
  <2>5. QED
    BY <1>2, <2>3, <2>4
<1>6. QED
  BY <1>4, <1>5 DEF SInv

\* A sale is one of an order that rests, of what was bought.
LEMMA ExecutionKeepsSells ==
  ASSUME BracketAssumption, IInv, BInv, SInv, NEW x \in book, x.id \notin Strangers, Execute(x)
  PROVE  SInv'
<1>u. /\ st' = st /\ pc' = pc /\ next' = next /\ request' = request /\ shown' = shown
      /\ shownAge' = shownAge /\ shownHeld' = shownHeld /\ heldAge' = heldAge
  BY DEF Execute, tickVars, indexVars
<1>1. /\ x.side \in {"buy", "sell"} /\ x \in OwnLive(x.side)
      /\ x.rem \in Int /\ byHand' = byHand
  BY ExecutionLeaves
<1>2. PICK n, y : /\ Rest(x, n, y)
                  /\ bought' = bought + (IF x.side = "buy" THEN n ELSE 0)
                  /\ sold' = sold + (IF x.side = "buy" THEN 0 ELSE n)
  BY ExecutionLeaves
<1>n. /\ n \in Int /\ 1 <= n /\ n <= x.rem /\ bought \in Int /\ sold \in Int /\ byHand \in Int
      /\ Gained = bought + byHand
  BY <1>2 DEF Rest, IInv, World, Gained
<1>3. \A z \in OwnLive("sell")' : z \in OwnLive("sell") \ {x} \/ (z = y /\ n < x.rem)
  BY <1>2 DEF OwnLive, Rest
<1>4. CASE x.side = "buy"
  <2>1. OwnLive("sell")' \subseteq OwnLive("sell")
    BY <1>2, <1>3, <1>4 DEF OwnLive, Rest
  <2>2. sold' = sold /\ bought' = bought + n
    BY <1>2, <1>4, <1>n
  <2>3. Gained' = bought + n + byHand
    BY <1>1, <2>2 DEF Gained
  <2>4. Gained' \in Int /\ Gained <= Gained'
    BY <1>n, <2>3
  <2>5. QED
    BY <1>u, <2>1, <2>2, <2>4, QuietKeepsSells DEF indexVars
<1>5. CASE x.side = "sell"
  <2>1. OwnLive("sell") # {} /\ x \in OwnLive("sell")
    BY <1>1, <1>5
  <2>2. st # NoState /\ ~Buying(st)
    BY <2>1, SellsWhenBought
  <2>3. sold' = sold + n /\ bought' = bought
    BY <1>2, <1>5, <1>n
  <2>4. sold + x.rem <= Gained /\ (\A a, b \in OwnLive("sell") : a = b)
    BY <2>1 DEF SInv, SellOrders
  <2>g. Gained' = Gained /\ Gained \in Int
    BY <1>1, <1>n, <2>3 DEF Gained
  <2>5. SellOrders'
    <3>1. sold + n <= Gained
      BY <1>1, <1>n, <2>4, <2>g
    <3>2. \A z \in OwnLive("sell")' : z = y /\ z.rem = x.rem - n
      BY <1>2, <1>3, <2>1, <2>4 DEF Rest
    <3>3. sold + n + (x.rem - n) <= Gained
      BY <1>1, <1>n, <2>4, <2>g
    <3>4. QED
      BY <2>3, <2>g, <3>1, <3>2, <3>3 DEF SellOrders
  <2>6. FirstSell'
    BY <1>u, <2>1, <2>2 DEF SInv, FirstSell, Buying
  <2>7. SellAsked' /\ BuyAsksFirst'
    BY <1>u, <2>1 DEF SInv, SellAsked, BuyAsksFirst, Waiting
  <2>8. SellSeen'
    <3> SUFFICES ASSUME st.phase = "sell_resting", ~Waiting
                 PROVE  /\ /\ Shows("sell") \/ st.sellMisses + Pending <= shownAge
                           /\ st.sellMisses <= OrdersLag
                        /\ st.sellMisses <= OrdersLag + heldAge
      BY <1>u, <2>2 DEF SellSeen, Waiting, Shows, Pending
    <3>1. /\ Shows("sell") \/ st.sellMisses + Pending <= shownAge
          /\ st.sellMisses <= OrdersLag
      BY <2>1, <2>2 DEF SInv, SellSeen
    <3>2. st.sellMisses \in Int /\ OrdersLag \in Int /\ heldAge \in Int /\ 0 <= heldAge
      BY <2>2 DEF IInv, Persisted, Good, State, BInv, Broker, BracketAssumption
    <3>3. QED
      BY <3>1, <3>2
  <2>9. QED
    BY <2>5, <2>6, <2>7, <2>8 DEF SInv
<1>6. QED
  BY <1>1, <1>4, <1>5

\* An accepted sell order is the only one, of what is left to sell.
LEMMA AcceptedKeepsSells ==
  ASSUME BracketAssumption, IInv, BInv, SInv, OrderAccepted
  PROVE  SInv'
<1>1. /\ pc = "order" /\ pc' = "answer" /\ Waiting /\ Waiting'
      /\ st' = st /\ next' = next /\ request' = request /\ bought' = bought /\ sold' = sold /\ byHand' = byHand
  BY DEF OrderAccepted, Waiting
<1>2. PICK z : book' = book \cup {z} /\ z.side = request.side /\ z.rem = request.qty
  <2> DEFINE z == [id |-> placed + 1, side |-> request.side, rem |-> request.qty, exec |-> 0]
  <2>1. book' = book \cup {z}
    BY DEF OrderAccepted
  <2>2. z.side = request.side /\ z.rem = request.qty
    OBVIOUS
  <2> HIDE DEF z
  <2>3. QED
    BY <2>1, <2>2
<1>3. FirstSell' /\ SellSeen' /\ SellAsked' /\ BuyAsksFirst'
  BY <1>1 DEF SInv, FirstSell, SellSeen, SellAsked, BuyAsksFirst, Buying, Gained
<1>4. SellOrders'
  <2>g. Gained' = Gained
    BY <1>1 DEF Gained
  <2>1. CASE request.side = "sell"
    <3>1. OwnLive("sell") = {} /\ request.qty <= Gained - sold
      BY <1>1, <2>1 DEF SInv, SellAsked
    <3>2. \A x \in OwnLive("sell")' : x = z
      BY <1>2, <3>1 DEF OwnLive
    <3>3. sold \in Int /\ Gained \in Int /\ request.qty \in Int
      BY DEF IInv, World, Gained
    <3>4. sold + request.qty <= Gained
      BY <3>1, <3>3
    <3>5. QED
      BY <1>1, <1>2, <3>2, <3>4, <2>g DEF SInv, SellOrders
  <2>2. CASE request.side # "sell"
    <3>1. \A x \in OwnLive("sell")' : x \in OwnLive("sell")
      BY <1>2, <2>2 DEF OwnLive
    <3>2. QED
      BY <1>1, <3>1, <2>g DEF SInv, SellOrders
  <2>3. QED
    BY <2>1, <2>2
<1>5. QED
  BY <1>3, <1>4 DEF SInv

\* A state that is saved with its order placed has counted no miss yet.
LEMMA SavingKeepsSells ==
  ASSUME BracketAssumption, IInv, BInv, SInv, NEW t \in State, SavesNext(t)
  PROVE  SInv'
<1>1. /\ Waiting /\ ~Waiting' /\ pc' = "idle" /\ st' = t /\ Pending' = 0
      /\ next' = next /\ request' = request /\ book' = book /\ bought' = bought /\ sold' = sold /\ byHand' = byHand
      /\ shown' = shown /\ shownAge' = shownAge /\ shownHeld' = shownHeld /\ heldAge' = heldAge
      /\ t.phase = next.phase /\ t.sellMisses = next.sellMisses
  BY DEF SavesNext, Waiting, Pending
<1>2. OwnLive("sell")' = OwnLive("sell")
  BY <1>1 DEF OwnLive
<1>3. SellOrders' /\ SellAsked' /\ BuyAsksFirst'
  BY <1>1, <1>2 DEF SInv, SellOrders, SellAsked, BuyAsksFirst, Gained
<1>4. CASE request.side = "buy"
  <2>1. t.phase = "buy_resting" /\ t.sellMisses = 0
    BY <1>1, <1>4 DEF BInv, BuyAsked, SInv, BuyAsksFirst
  <2>2. FirstSell' /\ SellSeen'
    BY <1>1, <2>1 DEF FirstSell, SellSeen, Buying
  <2>3. QED
    BY <1>3, <2>2 DEF SInv
<1>5. CASE request.side = "sell"
  <2>1. t.phase = "sell_resting" /\ t.sellMisses = 0 /\ HasSell
    BY <1>1, <1>5 DEF SInv, SellAsked
  <2>2. FirstSell'
    BY <1>1, <2>1 DEF FirstSell, Buying
  <2>3. shownAge \in Int /\ 0 <= shownAge /\ OrdersLag \in Int /\ 0 <= OrdersLag
        /\ heldAge \in Int /\ 0 <= heldAge
    BY DEF BInv, Broker, BracketAssumption
  <2>4. 0 + 0 <= shownAge /\ 0 <= OrdersLag /\ 0 <= OrdersLag + heldAge
    BY <2>3
  <2>5. SellSeen'
    BY <1>1, <2>1, <2>4 DEF SellSeen
  <2>6. QED
    BY <1>3, <2>2, <2>5 DEF SInv
<1>6. QED
  BY <1>4, <1>5 DEF IInv, World

-----------------------------------------------------------------------------
(* The selling side: the decision.                                         *)

\* The holdings show a sale, or are one answer older.
LEMMA SaleShown ==
  ASSUME BracketAssumption, IInv, BInv, SInv, pc = "holdings", ListHoldings,
         st # NoState, st.phase = "sell_resting", Oversold(st)
  PROVE  st.sellMisses + 1 <= OrdersLag + heldAge' \/ shownHeld' - st.baseline < Qty - st.sold
<1>1. /\ Qty \in Int /\ Baseline \in Int /\ OrdersLag \in Int
      /\ sold \in Int /\ st.sold \in Int /\ st.sellMisses \in Int /\ heldAge \in Int
      /\ st.baseline \in Int /\ Baseline <= st.baseline
      /\ bought \in Int /\ byHand \in Int /\ bought + byHand - sold < Qty - st.sold
  BY DEF BracketAssumption, IInv, World, Persisted, Good, State, BInv, Account, Broker,
         Oversold, Gained
<1>2. CASE shownHeld' = Held
  <2>1. PICK h \in Int : h = shownHeld' /\ h = Baseline + bought + byHand - sold
    BY <1>1, <1>2 DEF Held
  <2>2. h - st.baseline < Qty - st.sold
    BY <1>1, <2>1
  <2>3. QED
    BY <2>1, <2>2
<1>3. CASE heldAge' = heldAge + 1 /\ shownHeld' = shownHeld
  <2>1. st.sellMisses <= OrdersLag + heldAge \/ shownHeld - st.baseline < Qty - st.sold
    BY DEF SInv, SellSeen, Waiting
  <2>2. PICK a \in Int : a = heldAge' /\ a = heldAge + 1
    BY <1>1, <1>3
  <2>3. st.sellMisses <= OrdersLag + heldAge => st.sellMisses + 1 <= OrdersLag + a
    BY <1>1, <2>2
  <2>4. QED
    BY <1>3, <2>1, <2>2, <2>3
<1>4. QED
  BY <1>2, <1>3 DEF ListHoldings

\* A bot that sees neither its sell order nor a sale has looked no more often
\* since than the indexes may lag behind, if there is one.
LEMMA SaleLooked ==
  ASSUME BracketAssumption, IInv, BInv, SInv, Observe, NEW s, Loaded(s),
         s.phase = "sell_resting", NEW o, Sees(s, o), o.sell = NoOrder, SellTotal(s, o) = s.sold
  PROVE  /\ SellMisses(s, o) = Bump(s.sellMisses)
         /\ OwnLive("sell") # {} => s.sellMisses + 1 <= shownAge
         /\ Oversold(s) => s.sellMisses + 1 <= OrdersLag + heldAge'
<1>1. /\ st # NoState /\ st.phase = "sell_resting" /\ st.sellMisses = s.sellMisses
      /\ s.sold = st.sold /\ s.filled = Qty
      /\ s.baseline = st.baseline /\ s.baseline \in Int
      /\ s.sold \in Int /\ 0 <= s.sold
  BY SellingLoaded DEF Loaded, Good, State, Buying
<1>2. HasSell /\ ~Waiting /\ Pending = 1 /\ ~Shows("sell") /\ ~o.paper
  BY <1>1 DEF SInv, FirstSell, Observe, Waiting, Pending, Sees
<1>3. SellMisses(s, o) = Bump(s.sellMisses)
  BY <1>2 DEF SellMisses
<1>4. OwnLive("sell") # {} => s.sellMisses + 1 <= shownAge
  BY <1>1, <1>2 DEF SInv, SellSeen
<1>5. ASSUME Oversold(s) PROVE s.sellMisses + 1 <= OrdersLag + heldAge'
  <2>g. /\ Gained \in Int /\ sold \in Int /\ sold <= Gained /\ Gained - sold < Qty - s.sold
        /\ Qty \in Int /\ 0 < Qty
    BY <1>5 DEF IInv, World, SInv, SellOrders, Oversold, Gained, BracketAssumption
  <2>1. /\ o.delta \in Int /\ 0 <= o.delta /\ Qty \in Int /\ 0 < Qty /\ s.sold < Qty
    BY <1>1, <2>g, DeltaReal
  <2>2. Qty - s.sold <= o.delta
    <3> DEFINE c == Clamp(Qty - o.delta, 0, Qty)
               l == Larger(s.sold, c)
               m == Larger(l, o.sell.exec)
    <3>1. o.sell.exec = 0
      BY DEF NoOrder
    <3>2. c \in Int /\ 0 <= c /\ (c <= s.sold => Qty - o.delta <= s.sold)
      BY <1>1, <2>1 DEF Clamp
    <3>3. SellTotal(s, o) = Clamp(m, 0, Qty)
      BY <1>1, <1>2 DEF SellTotal
    <3> HIDE DEF c
    <3>4. l \in Int /\ c <= l /\ 0 <= l
      BY <1>1, <3>2 DEF Larger
    <3> HIDE DEF l
    <3>5. m = l
      BY <3>1, <3>4 DEF Larger
    <3> HIDE DEF m
    <3>6. Clamp(l, 0, Qty) = s.sold => l = s.sold
      BY <1>1, <2>1, <3>4 DEF Clamp
    <3>7. l = s.sold
      BY <3>3, <3>5, <3>6
    <3>8. QED
      BY <1>1, <2>1, <3>2, <3>4, <3>7
  <2>3. PICK k \in Int : k = Qty - s.sold /\ 0 < k /\ k <= o.delta
    BY <1>1, <2>1, <2>2
  <2>4. k <= shownHeld' - s.baseline
    BY <2>3, DeltaReal
  <2>5. s.sellMisses + 1 <= OrdersLag + heldAge' \/ shownHeld' - s.baseline < Qty - s.sold
    BY <1>1, <1>5, SaleShown DEF Observe, Oversold
  <2>6. ~(shownHeld' - s.baseline < Qty - s.sold)
    <3>1. PICK h \in Int : h = shownHeld'
      BY HoldingsRead DEF Observe
    <3>2. ~(h - s.baseline < Qty - s.sold)
      BY <1>1, <2>3, <2>4, <3>1
    <3>3. QED
      BY <3>1, <3>2
  <2>7. QED
    BY <2>5, <2>6
<1>6. QED
  BY <1>3, <1>4, <1>5

\* The parts that the state, or the one in flight, bears on.
SellKept == FirstSell' /\ SellSeen' /\ SellAsked' /\ BuyAsksFirst'

\* A state is saved: while it sells, its misses are within the lag.
LEMMA SellSaved ==
  ASSUME BracketAssumption, IInv, BInv, SInv, Observe, Watched, NEW t, Saves(t),
         Buying(t) \/ t.phase = "bought" => t.sellMisses = 0,
         t.phase = "bought" => sold = 0 /\ OwnLive("sell") = {},
         t.phase = "sell_resting" =>
           /\ HasSell /\ t.sellMisses \in Int /\ t.sellMisses >= 0
           /\ OwnLive("sell") # {} => /\ Shows("sell") \/ t.sellMisses <= shownAge
                                      /\ t.sellMisses <= OrdersLag
           /\ Oversold(t) => \/ t.sellMisses <= OrdersLag + heldAge'
                               \/ shownHeld' - t.baseline < Qty - t.sold
  PROVE  SellKept
<1>1. /\ st' = t /\ ~Waiting' /\ Pending' = 0
      /\ book' = book /\ bought' = bought /\ sold' = sold /\ byHand' = byHand /\ shown' = shown /\ shownAge' = shownAge
  BY DEF Saves, Waiting, Pending, Watched
<1>2. OwnLive("sell")' = OwnLive("sell") /\ Shows("sell")' = Shows("sell")
  BY <1>1 DEF OwnLive, Shows
<1>3. FirstSell'
  BY <1>1, <1>2 DEF FirstSell, Buying
<1>4. SellSeen'
  <2>0. Oversold(st)' <=> Oversold(t)
    BY <1>1 DEF Oversold, Gained
  <2> SUFFICES ASSUME t.phase = "sell_resting"
               PROVE  /\ OwnLive("sell") # {} => /\ Shows("sell") \/ t.sellMisses + 0 <= shownAge
                                                 /\ t.sellMisses <= OrdersLag
                      /\ Oversold(t) => \/ t.sellMisses <= OrdersLag + heldAge'
                                          \/ shownHeld' - t.baseline < Qty - t.sold
    BY <1>1, <1>2, <2>0 DEF SellSeen
  <2>1. t.sellMisses + 0 = t.sellMisses
    OBVIOUS
  <2>2. QED
    BY <2>1
<1>5. SellAsked' /\ BuyAsksFirst'
  BY <1>1 DEF SellAsked, BuyAsksFirst
<1>6. QED
  BY <1>3, <1>4, <1>5 DEF SellKept

\* The misses of the state a tick decides on.
LEMMA MissesLoaded ==
  ASSUME IInv, SInv, BInv, ~Waiting, NEW s, Loaded(s)
  PROVE  /\ s.sellMisses \in Int
         /\ Buying(s) \/ s.phase = "bought" => s.sellMisses = 0
         /\ s.phase = "bought" => sold = 0 /\ OwnLive("sell") = {} /\ s.sold = 0 /\ s.filled = Qty
         /\ s.phase = "sell_resting" => HasSell /\ 0 <= s.sellMisses
<1>1. s.sellMisses \in Int
  BY DEF Loaded, Good, State
<1>2. s.phase = "bought" => s.sold = 0 /\ s.filled = Qty
  BY DEF Loaded, Good, Coherent
<1>3. CASE st = NoState
  BY <1>1, <1>3 DEF Loaded
<1>4. CASE st # NoState
  <2>1. s.phase = st.phase /\ s.sellMisses = st.sellMisses /\ pc # "answer"
    BY <1>4 DEF Loaded, Waiting
  <2>2. /\ Buying(st) \/ st.phase = "bought" => st.sellMisses = 0
        /\ st.phase = "bought" => sold = 0 /\ OwnLive("sell") = {}
        /\ st.phase = "sell_resting" => HasSell /\ 0 <= st.sellMisses
    BY <1>4, <2>1 DEF SInv, FirstSell
  <2>3. QED
    BY <1>1, <1>2, <2>1, <2>2 DEF Buying
<1>5. QED
  BY <1>3, <1>4

LEMMA BuyingKeepsSells ==
  ASSUME BracketAssumption, IInv, BInv, SInv, Observe, Watched, NEW s, Loaded(s), Buying(s),
         NEW o, NEW t, BuyMoves(s, o, t)
  PROVE  SellKept
<1>1. /\ sold = 0 /\ OwnLive("sell") = {} /\ s.sellMisses = 0
      /\ s.phase \in {"awaiting_buy", "buy_resting"} /\ (st = NoState \/ Buying(st))
  BY BuyingLoaded, MissesLoaded DEF Watched, Buying
<1>2. CASE BuyRecorded(s, o, t) \/ BuyRests(s, o, t) \/ BuyHeld(s, o, t)
  <2>1. /\ Saves(t) /\ t.sellMisses = 0 /\ t.phase # "sell_resting"
    BY <1>1, <1>2 DEF BuyRecorded, BuyRests, BuyHeld, SameSale
  <2>2. QED
    BY <1>1, <2>1, SellSaved
<1>3. CASE BuyAsks(s, o, t)
  <2>1. /\ Waiting' /\ st' = st /\ next' = t /\ t.sellMisses = 0 /\ request'.side = "buy"
        /\ sold' = sold /\ book' = book
    BY <1>1, <1>3 DEF BuyAsks, Places, SameSale, Waiting, Watched
  <2>2. st # NoState => /\ Buying(st) \/ st.phase = "bought" => st.sellMisses = 0
                        /\ st.phase # "bought" /\ st.phase # "sell_resting"
    BY <1>1 DEF SInv, FirstSell, Buying
  <2>3. FirstSell' /\ SellSeen' /\ SellAsked' /\ BuyAsksFirst'
    BY <2>1, <2>2 DEF FirstSell, SellSeen, SellAsked, BuyAsksFirst, Buying
  <2>4. QED
    BY <2>3 DEF SellKept
<1>4. QED
  BY <1>2, <1>3 DEF BuyMoves

\* The bot orders a sale only when it has looked more often than the indexes
\* lag behind.
LEMMA SaleAsksKept ==
  ASSUME BracketAssumption, Careful, IInv, BInv, SInv, Observe, Watched,
         NEW s, Loaded(s), ~Buying(s), NEW o, Sees(s, o), NEW t, SaleAsks(s, o, t)
  PROVE  SellKept
<1>1. /\ st # NoState /\ ~Buying(st) /\ s.sold \in Int /\ s.phase = st.phase
      /\ s.sellMisses = st.sellMisses /\ Qty <= Gained
  BY SellingLoaded DEF Loaded
<1>2. /\ Waiting' /\ pc' = "order" /\ st' = st /\ next' = t /\ t.sold = s.sold
      /\ t.phase = "sell_resting" /\ request'.side = "sell" /\ request'.qty <= s.qty
      /\ book' = book /\ sold' = sold /\ bought' = bought /\ byHand' = byHand
      /\ request'.qty \in Int
      /\ s.phase \in {"bought", "sell_resting"} /\ o.sell = NoOrder
  BY ObserveKept DEF SaleAsks, Places, Waiting, Watched, IInv, World
<1>3. /\ s.qty = Qty - s.sold
      /\ Buying(s) \/ s.phase = "bought" => s.sellMisses = 0
      /\ s.phase = "bought" => sold = 0 /\ OwnLive("sell") = {} /\ s.sold = 0
      /\ s.phase = "sell_resting" => HasSell /\ 0 <= s.sellMisses
      /\ s.sellMisses \in Int /\ sold \in Int /\ Gained \in Int /\ Qty \in Int
  <2>1. s.filled = Qty /\ s.qty = s.filled - s.sold
    BY <1>2, SellingLoaded DEF Loaded, Good, Coherent
  <2>2. QED
    BY <2>1, MissesLoaded DEF Watched, IInv, World, Gained, BracketAssumption
<1>4. t.sellMisses = 0 /\ HasSell
  BY <1>2, <1>3 DEF SaleAsks
<1>5. OwnLive("sell") = {} /\ Qty - s.sold <= Gained - sold
  <2>1. CASE s.phase = "bought"
    BY <1>1, <1>3, <2>1
  <2>2. CASE s.phase = "sell_resting"
    <3>1. SellTotal(s, o) = s.sold /\ SellReady(SellMisses(s, o))
      BY <2>2 DEF SaleAsks
    <3>2. /\ SellMisses(s, o) = Bump(s.sellMisses)
          /\ OwnLive("sell") # {} => s.sellMisses + 1 <= shownAge
          /\ Oversold(s) => s.sellMisses + 1 <= OrdersLag + heldAge'
      BY <1>2, <2>2, <3>1, SaleLooked
    <3>3. PICK a \in Int : a = heldAge' /\ a <= HoldingsLag
      BY HoldingsRead DEF Observe, BracketAssumption
    <3>4. /\ OrdersLag \in Int /\ HoldingsLag \in Int /\ 0 <= HoldingsLag /\ Debounce \in Int
          /\ shownAge \in Int /\ shownAge <= OrdersLag
      BY DEF BracketAssumption, BInv, Broker
    <3>5. OrdersLag + HoldingsLag < Debounce
      <4>1. faults \in FaultSets /\ "crash_in_order" \notin faults
        BY DEF BInv, Broker, Careful
      <4>2. QED
        BY <4>1 DEF Careful, Watchful, Looks
    <3>6. s.sellMisses + 1 >= Debounce
      BY <1>3, <3>1, <3>2, <3>4 DEF SellReady, Bump
    <3>7. ~(s.sellMisses + 1 <= shownAge) /\ ~(s.sellMisses + 1 <= OrdersLag + a)
      BY <1>3, <3>3, <3>4, <3>5, <3>6
    <3>8. QED
      BY <1>1, <1>3, <3>2, <3>3, <3>7 DEF Oversold
  <2>3. QED
    BY <1>2, <2>1, <2>2
<1>6. request'.qty <= Gained - sold
  <2>1. PICK q \in Int : q = request'.qty
    BY <1>2
  <2>2. q <= Qty - s.sold
    BY <1>2, <1>3, <2>1
  <2>3. q <= Gained - sold
    BY <1>1, <1>3, <1>5, <2>2
  <2>4. QED
    BY <2>1, <2>3
<1>7. OwnLive("sell")' = {}
  BY <1>2, <1>5 DEF OwnLive
<1>8. SellAsked' /\ SellSeen' /\ BuyAsksFirst'
  BY <1>2, <1>4, <1>5, <1>6, <1>7 DEF SellAsked, SellSeen, BuyAsksFirst, Gained
<1>9. FirstSell'
  BY <1>1, <1>2, <1>3, <1>5, <1>7 DEF FirstSell, Buying
<1>10. QED
  BY <1>8, <1>9 DEF SellKept

LEMMA SellingKeepsSells ==
  ASSUME BracketAssumption, Careful, IInv, BInv, SInv, Observe, Watched,
         NEW s, Loaded(s), ~Buying(s), NEW o, Sees(s, o), NEW t, SaleMoves(s, o, t)
  PROVE  SellKept
<1>1. /\ s.sellMisses \in Int
      /\ s.phase = "bought" => sold = 0 /\ OwnLive("sell") = {} /\ s.sellMisses = 0
      /\ s.phase = "sell_resting" => HasSell /\ 0 <= s.sellMisses
  BY MissesLoaded DEF Watched
<1>2. /\ OrdersLag \in Int /\ 0 <= OrdersLag /\ shownAge \in Int /\ 0 <= shownAge
      /\ shownAge <= OrdersLag /\ Debounce \in Int
  BY DEF BracketAssumption, BInv, Broker
<1>3. PICK a \in Int : a = heldAge' /\ 0 <= a
  BY HoldingsRead DEF Observe, BracketAssumption
<1>4. 0 <= shownAge /\ 0 <= OrdersLag /\ 0 <= OrdersLag + heldAge'
  <2>0. a \in Int /\ 0 <= a
    BY <1>3
  <2>1. 0 <= OrdersLag + a
    BY <1>2, <2>0
  <2>2. a = heldAge'
    BY <1>3
  <2>3. 0 <= OrdersLag + heldAge'
    BY <2>1, <2>2
  <2>4. QED
    BY <1>2, <2>3
<1>5. CASE SaleRecorded(s, o, t)
  <2>1. Saves(t) /\ t.phase = "sell_resting" /\ t.sellMisses = 0 /\ HasSell /\ ~Buying(t)
    BY <1>1, <1>5 DEF SaleRecorded, Buying
  <2>2. t.sellMisses <= shownAge /\ t.sellMisses <= OrdersLag
        /\ t.sellMisses <= OrdersLag + heldAge'
        /\ t.sellMisses \in Int /\ t.sellMisses >= 0
    BY <1>4, <2>1
  <2>3. QED
    BY <2>1, <2>2, SellSaved
<1>6. CASE SaleHeld(s, o, t)
  <2>1. Saves(t) /\ t.phase \in {s.phase, "done"} /\ (Oversold(t) <=> Oversold(s)) /\ ~Buying(t)
    BY <1>6 DEF SaleHeld, Oversold, Buying
  <2>2. CASE t.phase # "sell_resting"
    <3>1. t.phase = "bought" => s.phase = "bought" /\ t.sellMisses = s.sellMisses
      BY <1>6, <2>1 DEF SaleHeld
    <3>2. QED
      BY <1>1, <2>1, <2>2, <3>1, SellSaved
  <2>3. CASE t.phase = "sell_resting"
    <3>1. s.phase = "sell_resting" /\ SellTotal(s, o) = s.sold /\ t.sellMisses = SellMisses(s, o)
      BY <1>6, <2>1, <2>3 DEF SaleHeld
    <3>2. CASE o.sell = NoOrder
      <4>1. /\ SellMisses(s, o) = Bump(s.sellMisses)
            /\ OwnLive("sell") # {} => s.sellMisses + 1 <= shownAge
            /\ Oversold(s) => s.sellMisses + 1 <= OrdersLag + heldAge'
        BY <3>1, <3>2, SaleLooked
      <4>2. t.sellMisses \in Int /\ 0 <= t.sellMisses /\ t.sellMisses <= s.sellMisses + 1
        BY <1>1, <1>2, <3>1, <4>1 DEF Bump
      <4>3. /\ OwnLive("sell") # {} => t.sellMisses <= shownAge /\ t.sellMisses <= OrdersLag
            /\ Oversold(t) => t.sellMisses <= OrdersLag + a
        BY <1>1, <1>2, <1>3, <2>1, <4>1, <4>2
      <4>4. QED
        BY <1>1, <1>3, <2>1, <2>3, <3>1, <4>2, <4>3, SellSaved
    <3>3. CASE o.sell # NoOrder
      <4>1. t.sellMisses = 0
        BY <3>1, <3>3 DEF SellMisses
      <4>2. t.sellMisses <= shownAge /\ t.sellMisses <= OrdersLag
            /\ t.sellMisses <= OrdersLag + heldAge'
            /\ t.sellMisses \in Int /\ t.sellMisses >= 0
        BY <1>4, <4>1
      <4>3. QED
        BY <1>1, <2>1, <2>3, <3>1, <4>2, SellSaved
    <3>4. QED
      BY <3>2, <3>3
  <2>4. QED
    BY <2>2, <2>3
<1>7. CASE SaleAsks(s, o, t)
  BY <1>7, SaleAsksKept
<1>8. QED
  BY <1>5, <1>6, <1>7 DEF SaleMoves

LEMMA ObserveKeepsSells ==
  ASSUME BracketAssumption, Careful, IInv, BInv, SInv, Observe
  PROVE  SInv'
<1>1. PICK s : /\ Loaded(s)
               /\ \/ Keep(s) /\ booted' = booted
                  \/ booted' = TRUE /\ \E o : Sees(s, o) /\ Decide(s, o)
  BY Observed
<1>2. pc = "holdings" /\ ~Waiting /\ gate = TRUE /\ ledger \in Int /\ Good(s)
  BY <1>1 DEF Observe, Waiting, BInv, Broker, IInv, World, Loaded
<1>3. Watched
  BY DEF Observe, Watched, Waiting, brokerVars, worldVars
<1>4. SellOrders'
  BY <1>3 DEF SInv, SellOrders, Watched, OwnLive, Gained
<1>5. CASE Keep(s) /\ booted' = booted
  <2>1. Saves(s)
    BY <1>5 DEF Keep, Save, Saves
  <2>2. /\ s.sellMisses \in Int
        /\ Buying(s) \/ s.phase = "bought" => s.sellMisses = 0
        /\ s.phase = "bought" => sold = 0 /\ OwnLive("sell") = {}
        /\ s.phase = "sell_resting" => HasSell /\ s.sellMisses >= 0
    BY <1>1, <1>2, MissesLoaded
  <2>3. ASSUME s.phase = "sell_resting"
        PROVE  /\ OwnLive("sell") # {} => /\ Shows("sell") \/ s.sellMisses <= shownAge
                                          /\ s.sellMisses <= OrdersLag
               /\ Oversold(s) => \/ s.sellMisses <= OrdersLag + heldAge'
                                 \/ shownHeld' - s.baseline < Qty - s.sold
    <3>1. /\ st # NoState /\ st.phase = "sell_resting" /\ st.sellMisses = s.sellMisses
          /\ st.sold = s.sold /\ st.baseline = s.baseline /\ (Oversold(st) <=> Oversold(s))
      BY <1>1, <2>3 DEF Loaded, Oversold
    <3>2. /\ OwnLive("sell") # {} => /\ Shows("sell") \/ st.sellMisses + 1 <= shownAge
                                     /\ st.sellMisses <= OrdersLag
      BY <1>2, <3>1 DEF SInv, SellSeen, Pending
    <3>3. shownAge \in Int /\ OrdersLag \in Int
      BY DEF BInv, Broker, BracketAssumption
    <3>4. st.sellMisses + 1 <= shownAge => st.sellMisses <= shownAge
      BY <2>2, <3>1, <3>3
    <3>5. Oversold(s) => st.sellMisses + 1 <= OrdersLag + heldAge'
                         \/ shownHeld' - st.baseline < Qty - st.sold
      BY <1>2, <3>1, SaleShown DEF Observe
    <3>6. st.sellMisses + 1 <= OrdersLag + heldAge' => st.sellMisses <= OrdersLag + heldAge'
      <4>1. PICK a \in Int : a = heldAge'
        BY HoldingsRead DEF Observe
      <4>2. a \in Int
        OBVIOUS
      <4>3. st.sellMisses + 1 <= OrdersLag + a => st.sellMisses <= OrdersLag + a
        BY <2>2, <3>1, <3>3, <4>2
      <4>4. QED
        BY <4>1, <4>3
    <3>7. QED
      BY <3>1, <3>2, <3>4, <3>5, <3>6
  <2>4. SellKept
    BY <1>3, <2>1, <2>2, <2>3, SellSaved
  <2>5. QED
    BY <1>4, <2>4 DEF SInv, SellKept
<1>6. ASSUME NEW o, booted' = TRUE, Sees(s, o), Decide(s, o)
      PROVE  SInv'
  <2>1. CASE Buying(s)
    <3>1. PICK t : BuyMoves(s, o, t)
      BY <1>2, <1>6, <2>1, BuyingMoves DEF Sees
    <3>2. SellKept
      BY <1>1, <1>3, <2>1, <3>1, BuyingKeepsSells
    <3>3. QED
      BY <1>4, <3>2 DEF SInv, SellKept
  <2>2. CASE ~Buying(s)
    <3>1. PICK t : SaleMoves(s, o, t)
      BY <1>2, <1>6, <2>2, SellingMoves
    <3>2. SellKept
      BY <1>1, <1>3, <1>6, <2>2, <3>1, SellingKeepsSells
    <3>3. QED
      BY <1>4, <3>2 DEF SInv, SellKept
  <2>3. QED
    BY <2>1, <2>2
<1>7. QED
  BY <1>1, <1>5, <1>6

-----------------------------------------------------------------------------
(* The selling side: every step.                                           *)

LEMMA InitSInv ==
  ASSUME Init
  PROVE  SInv
<1>1. OwnLive("sell") = {} /\ ~Waiting
  BY DEF Init, OwnLive, Waiting
<1>2. sold <= Gained
  BY DEF Init, Gained
<1>3. QED
  BY <1>1, <1>2 DEF Init, SInv, SellOrders, FirstSell, SellSeen, SellAsked, BuyAsksFirst

LEMMA SellsKept ==
  ASSUME BracketAssumption, Careful, IInv, BInv, SInv, [Next]_vars
  PROVE  SInv'
<1>g. gate = TRUE /\ "gate" \notin faults /\ ~Unsaved
  BY CarefulSaves DEF BInv, Broker, Careful, Watchful
<1>q. bought' = bought /\ byHand' = byHand => Gained' \in Int /\ Gained <= Gained'
  BY DEF IInv, World, Gained
<1>b. book' \subseteq book => OwnLive("sell")' \subseteq OwnLive("sell")
  BY DEF OwnLive
<1>1. CASE TickLive
  BY <1>1, ListingKeepsSells
<1>2. CASE QueryFails
  BY <1>2, <1>q, <1>b, QuietKeepsSells DEF QueryFails, brokerVars, Waiting
<1>3. CASE Observe
  BY <1>3, ObserveKeepsSells
<1>4. CASE TickPaper
  BY <1>4, <1>g DEF TickPaper
<1>5. CASE OrderRefused \/ OrderAnswered \/ AnswerLost
  BY <1>5, SavesWhatIsInFlight, SavingKeepsSells
<1>6. CASE OrderAccepted
  BY <1>6, AcceptedKeepsSells
<1>7. CASE CleanedUp
  BY <1>7, <1>q, <1>b, QuietKeepsSells DEF CleanedUp, brokerVars, Waiting
<1>8. CASE StopBot \/ StartBot
  BY <1>8, <1>q, <1>b, QuietKeepsSells DEF StopBot, StartBot, brokerVars, tickVars
<1>9. CASE \E id \in cancels : CancelResting(id)
  <2>1. PICK id : CancelResting(id)
    BY <1>9
  <2>2. book' \subseteq book
    BY <2>1 DEF CancelResting
  <2>3. QED
    BY <2>1, <2>2, <1>q, <1>b, QuietKeepsSells DEF CancelResting, tickVars
<1>10. CASE Crash
  <2>1. ~Waiting
    BY <1>10, <1>g DEF Crash, Waiting, Unsaved
  <2>2. QED
    BY <1>10, <2>1, <1>q, <1>b, QuietKeepsSells DEF Crash, brokerVars
<1>11. CASE \E x \in book : Execute(x) \/ Expire(x)
  <2>1. PICK x \in book : Execute(x) \/ Expire(x)
    BY <1>11
  <2>2. CASE Execute(x)
    BY <2>2, ExecutionKeepsSells, OwnersStep, OwnersKeepSells
  <2>3. CASE Expire(x)
    <3>1. book' \subseteq book
      BY <2>3 DEF Expire
    <3>2. QED
      BY <2>3, <3>1, <1>q, <1>b, QuietKeepsSells DEF Expire, tickVars
  <2>4. QED
    BY <2>1, <2>2, <2>3
<1>12. CASE EnterByHand
  BY <1>12, OwnersStep, OwnersKeepSells
<1>13. CASE MarketTurns \/ NewSession
  BY <1>13, <1>q, <1>b, QuietKeepsSells DEF MarketTurns, NewSession, brokerVars, tickVars
<1>14. CASE GateTurns
  BY <1>14, <1>g DEF GateTurns
<1>15. CASE UNCHANGED vars
  BY <1>15, <1>q, <1>b, QuietKeepsSells DEF vars, indexVars
<1>16. QED
  BY <1>1, <1>2, <1>3, <1>4, <1>5, <1>6, <1>7, <1>8, <1>9, <1>10, <1>11, <1>12, <1>13, <1>14,
     <1>15 DEF Next, Bot

LEMMA CarefulIsWatchful == Careful => Watchful
BY DEF Careful

\* The whole of what is needed at once.
Safe == IInv /\ BInv /\ SInv

LEMMA SafeKept ==
  ASSUME BracketAssumption, Careful
  PROVE  (Init => Safe) /\ (Safe /\ [Next]_vars => Safe')
<1>1. Init => Safe
  BY InitIInv, InitBInv, InitSInv, CarefulIsWatchful DEF Safe
<1>2. ASSUME Safe, [Next]_vars PROVE Safe'
  BY <1>2, StepKept, BuysKept, SellsKept, CarefulIsWatchful DEF Safe
<1>3. QED
  BY <1>1, <1>2

-----------------------------------------------------------------------------
\* No more is sold than the bot's orders and the owner's by hand have bought,
\* and no second sell order is sent while one rests or its execution has not
\* shown: the holdings the account had before the bot stay untouched (kr#1 in
\* limit-bracket.ts).  What the owner bought at the bot's price may be sold.
THEOREM NeverOverSells == ASSUME BracketAssumption, Careful PROVE Spec => []NoOverSell
<1>1. Safe => NoOverSell
  <2> SUFFICES ASSUME Safe PROVE NoOverSell
    OBVIOUS
  <2>1. Cardinality(OwnLive("sell")) <= 1
    BY AtMostOne DEF Safe, SInv, SellOrders
  <2>2. sold <= bought + byHand /\ \A x \in OwnLive("sell") : sold + x.rem <= bought + byHand
    BY DEF Safe, SInv, SellOrders, Gained
  <2>3. QED
    BY <2>1, <2>2 DEF NoOverSell
<1>2. QED
  BY <1>1, SafeKept, PTL DEF Spec

\* What a step does at the broker is a step of the contract, or none.
LEMMA ExecutionIsContract ==
  ASSUME BracketAssumption, IInv, BInv, SInv, NEW x \in book, Execute(x)
  PROVE  Contract!Next
<1>i. /\ bought \in Int /\ sold \in Int /\ byHand \in Int /\ 0 <= byHand
      /\ Qty \in Int /\ Baseline \in Int
      /\ Gained = bought + byHand /\ Gained \in Int
  BY DEF IInv, World, BInv, Broker, BracketAssumption, Gained
<1>1. CASE x.id \in Strangers
  <2>1. PICK n \in 1..x.rem : Brings(x, n)
    BY ExecuteBrings
  <2>2. n \in Int /\ 1 <= n
    BY DEF IInv, World, Order
  <2>3. PICK b \in Int : b = byHand' /\ b = byHand + n /\ bought' = bought /\ sold' = sold
    BY <1>i, <1>1, <2>1, <2>2 DEF Brings
  <2>4. b > byHand
    BY <1>i, <2>2, <2>3
  <2>5. QED
    BY <2>3, <2>4 DEF Contract!Next, Contract!BuyByHand
<1>2. CASE x.id \notin Strangers
  <2>1. /\ x.side \in {"buy", "sell"} /\ x \in OwnLive(x.side) /\ x.rem \in Int
        /\ byHand' = byHand
    BY <1>2, ExecutionLeaves
  <2>2. PICK n, y : /\ Rest(x, n, y)
                    /\ bought' = bought + (IF x.side = "buy" THEN n ELSE 0)
                    /\ sold' = sold + (IF x.side = "buy" THEN 0 ELSE n)
    BY <1>2, ExecutionLeaves
  <2>n. n \in Int /\ 1 <= n /\ n <= x.rem
    BY <2>2 DEF Rest
  <2>3. CASE x.side = "buy"
    <3>1. x \in OwnLive("buy") /\ bought + x.rem <= Qty
      BY <2>1, <2>3 DEF BInv, BuyOrders
    <3>2. st # NoState
      BY <3>1 DEF BInv, Unborn, OwnLive
    <3>3. sold = 0 \/ byHand > 0
      <4>1. CASE Buying(st)
        BY <3>2, <4>1 DEF BInv, StillBuys
      <4>2. CASE ~Buying(st)
        <5>1. /\ st.baseline \in Int /\ Baseline <= st.baseline
              /\ Qty <= Baseline + Gained - st.baseline
          BY <3>2, <4>2 DEF IInv, Persisted, Good, State, BInv, Account, HasBought, Covered
        <5>2. Qty <= bought + byHand
          BY <1>i, <5>1
        <5>3. QED
          BY <1>i, <2>1, <2>n, <3>1, <5>2
      <4>3. QED
        BY <4>1, <4>2
    <3>4. n \in 1..(Qty - bought) /\ bought' = bought + n /\ sold' = sold
      BY <1>i, <2>1, <2>2, <2>3, <2>n, <3>1
    <3>5. QED
      BY <2>1, <3>3, <3>4 DEF Contract!Next, Contract!Buy
  <2>4. CASE x.side = "sell"
    <3>1. x \in OwnLive("sell") /\ sold + x.rem <= Gained
      BY <2>1, <2>4 DEF SInv, SellOrders
    <3>2. st # NoState /\ ~Buying(st)
      BY <3>1, SellsWhenBought
    <3>3. /\ st.baseline \in Int /\ Baseline <= st.baseline
          /\ Qty <= Baseline + Gained - st.baseline
      BY <3>2 DEF IInv, Persisted, Good, State, BInv, Account, HasBought, Covered
    <3>4. bought + byHand >= Qty
      BY <1>i, <3>3
    <3>5. n \in 1..(bought + byHand - sold) /\ sold' = sold + n /\ bought' = bought
      BY <1>i, <2>1, <2>2, <2>4, <2>n, <3>1
    <3>6. QED
      BY <2>1, <3>4, <3>5 DEF Contract!Next, Contract!Sell
  <2>5. QED
    BY <2>1, <2>3, <2>4
<1>3. QED
  BY <1>1, <1>2

\* Every other step leaves the executions alone.
LEMMA StepIsContract ==
  ASSUME BracketAssumption, IInv, BInv, SInv, [Next]_vars
  PROVE  [Contract!Next]_<<bought, sold, byHand>>
<1>1. CASE \E x \in book : Execute(x) \/ Expire(x)
  BY <1>1, ExecutionIsContract DEF Expire
<1>2. CASE Bot
  BY <1>2 DEF Bot, TickLive, QueryFails, Observe, TickPaper, OrderRefused, OrderAccepted,
              OrderAnswered, AnswerLost, CleanedUp, brokerVars
<1>3. CASE \/ StopBot \/ StartBot \/ (\E id \in cancels : CancelResting(id))
           \/ Crash \/ EnterByHand \/ MarketTurns \/ NewSession \/ GateTurns
  BY <1>3 DEF StopBot, StartBot, CancelResting, Crash, EnterByHand, MarketTurns, NewSession,
              GateTurns, brokerVars
<1>4. CASE UNCHANGED vars
  BY <1>4 DEF vars, brokerVars
<1>5. QED
  BY <1>1, <1>2, <1>3, <1>4 DEF Next

\* Seen from the broker the bot is a bracket: Qty is bought, in portions,
\* before anything is sold, and no more is sold than that; of an account whose
\* owner buys by hand at its price, these figures count those purchases too.
THEOREM IsABracket == ASSUME BracketAssumption, Careful PROVE Spec => Bracket
<1>1. Init => Contract!Init
  BY DEF Init, Contract!Init
<1>2. Safe /\ [Next]_vars => [Contract!Next]_<<bought, sold, byHand>>
  BY StepIsContract DEF Safe
<1>3. Spec => Contract!Spec
  BY <1>1, <1>2, SafeKept, PTL DEF Spec, Contract!Spec
<1>4. QED
  BY <1>3 DEF Bracket

-----------------------------------------------------------------------------
(* The session cap.                                                        *)

\* The orders a state owns up to in the present session.
Allowed(s) == IF s # NoState /\ s.session = session THEN s.count ELSE 0
\* What the tick under way counts in the session it has read.
Standing == IF st # NoState /\ st.session = clock.session THEN st.count ELSE 0

CapInv ==
  /\ crashes \in Nat /\ inSession \in Int /\ 0 <= session
  /\ st # NoState => 0 <= st.count /\ st.count <= Cap /\ st.session <= session
  /\ pc \in {"holdings", "order", "answer"} =>
       clock.session <= session /\ (st # NoState => st.session <= clock.session)
  /\ pc \in {"order", "answer"} =>
       /\ next.session = clock.session /\ next.count = Standing + 1 /\ next.count <= Cap
  /\ inSession <= crashes + (IF pc = "answer" THEN Allowed(next) ELSE Allowed(st))

\* A decision saves a state, or goes on to send an order with one, and counts
\* the order in either case; live trading off, it counts what it does not send.
Tallies(s, t) ==
  /\ t \in State /\ t.session = s.session
  /\ t.count = s.count \/ (t.count = s.count + 1 /\ s.count < Cap)
  /\ \/ st' = t /\ pc' \in {"idle", "cleanup"}
     \/ /\ gate /\ pc' = "order" /\ next' = t /\ st' = st
        /\ t.count = s.count + 1 /\ s.count < Cap

LEMMA OrderedTallies ==
  ASSUME BracketAssumption, NEW s \in State, s.count < Cap, NEW r \in State,
         r.session = s.session, r.count = s.count, NEW ph \in Phases,
         NEW side, NEW qty, AskFor(Ordered(r, ph), side, qty)
  PROVE  Tallies(s, Ordered(r, ph))
<1> DEFINE n == r.count + 1
           t == Ordered(r, ph)
<1>1. n \in Int /\ Cooldown \in Int
  BY DEF State, BracketAssumption
<1>2. t = [r EXCEPT !.phase = ph, !.cooldown = Cooldown, !.count = n]
  BY DEF Ordered
<1> HIDE DEF n
<1>3. t \in State /\ t.session = r.session /\ t.count = n
  BY ZenonT(40), <1>1, <1>2 DEF State
<1>4. t.count = s.count + 1
  BY <1>3 DEF n
<1>5. \/ st' = t /\ pc' = "idle"
      \/ gate /\ pc' = "order" /\ next' = t /\ st' = st
  BY DEF AskFor, Keep, Save
<1>6. QED
  BY <1>3, <1>4, <1>5 DEF Tallies

\* A state that is saved with the count it had.
LEMMA SavedTallies ==
  ASSUME NEW s \in State, NEW t \in State, t.session = s.session, t.count = s.count,
         Save(t) \/ Finish(t)
  PROVE  Tallies(s, t)
BY DEF Tallies, Save, Finish

LEMMA BuyTallies ==
  ASSUME BracketAssumption, NEW s, Good(s), NEW o \in Observation,
         BuyFill(s, o) \/ BuyWait(s, o) \/ BuyPlaceOrHold(s, o)
  PROVE  \E t : Tallies(s, t)
<1>1. s \in State /\ s.sold \in Int
  BY DEF Good, State
<1>2. CASE BuyFill(s, o)
  <2>1. BuyFilled(s, o) \in State
    BY <1>2, BuyFilledGood DEF BuyFill, Good
  <2> DEFINE total == BuyTotal(s, o)
             q == total - s.sold
             stat == StatusFor(q)
             lv == ~o.paper
             ph == IF total >= Qty THEN "bought" ELSE "buy_resting"
             t == BuyFilled(s, o)
  <2>2. t = [s EXCEPT !.filled = total, !.qty = q, !.live = lv, !.status = stat,
                      !.buyMisses = 0, !.phase = ph]
    BY DEF BuyFilled
  <2> HIDE DEF total, q, stat, lv, ph
  <2>3. t.session = s.session /\ t.count = s.count
    BY <1>1, <2>2 DEF State
  <2>4. Save(t)
    BY <1>2 DEF BuyFill, BookFill
  <2> HIDE DEF t
  <2>5. t \in State
    BY <2>1 DEF t
  <2>6. QED
    BY <1>1, <2>3, <2>4, <2>5, SavedTallies
<1>3. CASE BuyWait(s, o)
  <2> DEFINE v == [s EXCEPT !.buyMisses = 0]
             t == [v EXCEPT !.phase = "buy_resting"]
  <2>1. v \in State /\ v.session = s.session /\ v.count = s.count
    BY <1>1 DEF State
  <2>2. Save(t)
    BY <1>3 DEF BuyWait, Keep
  <2> HIDE DEF v
  <2>3. t \in State /\ t.session = s.session /\ t.count = s.count
    BY <2>1 DEF State, Phases
  <2> HIDE DEF t
  <2>4. QED
    BY <1>1, <2>2, <2>3, SavedTallies
<1>4. CASE BuyPlaceOrHold(s, o)
  <2> DEFINE r == [s EXCEPT !.buyMisses = 0]
             m == BuyMisses(s, o)
             h == [s EXCEPT !.buyMisses = m]
  <2>1. m \in Int
    BY MissesType
  <2>2. \/ CanPlace(s, o) /\ AskFor(Ordered(r, "buy_resting"), "buy", Qty - s.filled)
        \/ Keep(h)
    BY <1>4 DEF BuyPlaceOrHold
  <2> HIDE DEF m
  <2>3. /\ r \in State /\ r.session = s.session /\ r.count = s.count
        /\ h \in State /\ h.session = s.session /\ h.count = s.count
    BY <1>1, <2>1 DEF State
  <2> HIDE DEF r, h
  <2>4. CASE CanPlace(s, o) /\ AskFor(Ordered(r, "buy_resting"), "buy", Qty - s.filled)
    <3>1. s.count < Cap /\ "buy_resting" \in Phases
      BY <2>4 DEF CanPlace, Phases
    <3>2. QED
      BY <1>1, <2>3, <2>4, <3>1, OrderedTallies
  <2>5. CASE Keep(h)
    BY <1>1, <2>3, <2>5, SavedTallies DEF Keep
  <2>6. QED
    BY <2>2, <2>4, <2>5
<1>5. QED
  BY <1>2, <1>3, <1>4

LEMMA SaleTallies ==
  ASSUME BracketAssumption, NEW s, Good(s), NEW o \in Observation,
         BoughtStep(s, o) \/ SellFill(s, o) \/ SellOver(s, o) \/ SellPlaceOrHold(s, o)
         \/ Done(s, o)
  PROVE  \E t : Tallies(s, t)
<1>1. s \in State /\ "sell_resting" \in Phases
  BY DEF Good, Phases
<1>2. CASE BoughtStep(s, o)
  <2> DEFINE d == [s EXCEPT !.phase = "done", !.status = "closed"]
  <2>1. \/ Finish(d) \/ Keep(s)
        \/ CanPlace(s, o) /\ AskFor(Ordered(s, "sell_resting"), "sell", s.qty)
    BY <1>2 DEF BoughtStep
  <2>2. d \in State /\ d.session = s.session /\ d.count = s.count
    BY <1>1 DEF State, Phases
  <2> HIDE DEF d
  <2>3. CASE Finish(d) \/ Keep(s)
    BY <1>1, <2>2, <2>3, SavedTallies DEF Keep
  <2>4. CASE CanPlace(s, o) /\ AskFor(Ordered(s, "sell_resting"), "sell", s.qty)
    <3>1. s.count < Cap
      BY <2>4 DEF CanPlace
    <3>2. QED
      BY <1>1, <2>4, <3>1, OrderedTallies
  <2>5. QED
    BY <2>1, <2>3, <2>4
<1>3. CASE SellFill(s, o)
  <2>1. SellFilled(s, o) \in State
    BY <1>3, SellFilledGood DEF SellFill, Good
  <2> DEFINE total == SellTotal(s, o)
             q == s.filled - total
             stat == IF s.filled - total > 0 THEN s.status ELSE "closed"
             t == SellFilled(s, o)
  <2>2. t = [s EXCEPT !.sold = total, !.qty = q, !.sellMisses = 0, !.status = stat]
    BY DEF SellFilled
  <2> HIDE DEF total, q, stat
  <2>3. t.session = s.session /\ t.count = s.count
    BY <1>1, <2>2 DEF State
  <2>4. Save(t)
    BY <1>3 DEF SellFill, BookFill
  <2>5. QED
    BY <1>1, <2>1, <2>3, <2>4, SavedTallies
<1>4. CASE SellOver(s, o)
  <2> DEFINE m == SellMisses(s, o)
             k == Bump(s.doneMisses)
             t == [s EXCEPT !.sellMisses = m, !.doneMisses = k]
             d == [t EXCEPT !.phase = "done", !.status = "closed"]
  <2>1. m \in Int /\ k \in Int
    BY MissesType
  <2>2. Finish(d) \/ Keep(t)
    BY <1>4 DEF SellOver
  <2> HIDE DEF m, k
  <2>3. t \in State /\ t.session = s.session /\ t.count = s.count
    BY <1>1, <2>1 DEF State
  <2> HIDE DEF t
  <2>4. d \in State /\ d.session = s.session /\ d.count = s.count
    BY <2>3 DEF State, Phases
  <2> HIDE DEF d
  <2>5. QED
    BY <1>1, <2>2, <2>3, <2>4, SavedTallies DEF Keep
<1>5. CASE SellPlaceOrHold(s, o)
  <2> DEFINE m == SellMisses(s, o)
             t == [s EXCEPT !.sellMisses = m, !.doneMisses = 0]
             r == [t EXCEPT !.sellMisses = 0]
  <2>1. m \in Int
    BY MissesType
  <2>2. \/ CanPlace(s, o) /\ AskFor(Ordered(r, "sell_resting"), "sell", s.qty)
        \/ Keep(t)
    BY <1>5 DEF SellPlaceOrHold
  <2> HIDE DEF m
  <2>3. t \in State /\ t.session = s.session /\ t.count = s.count
    <3> DEFINE v == [s EXCEPT !.sellMisses = m]
    <3>1. v \in State /\ v.session = s.session /\ v.count = s.count
      BY <1>1, <2>1 DEF State
    <3>2. t = [v EXCEPT !.doneMisses = 0]
      OBVIOUS
    <3> HIDE DEF v, t
    <3>3. QED
      BY <3>1, <3>2 DEF State
  <2> HIDE DEF t
  <2>4. r \in State /\ r.session = s.session /\ r.count = s.count
    BY <2>3 DEF State
  <2> HIDE DEF r
  <2>5. CASE CanPlace(s, o) /\ AskFor(Ordered(r, "sell_resting"), "sell", s.qty)
    <3>1. s.count < Cap
      BY <2>5 DEF CanPlace
    <3>2. QED
      BY <1>1, <2>4, <2>5, <3>1, OrderedTallies
  <2>6. CASE Keep(t)
    BY <1>1, <2>3, <2>6, SavedTallies DEF Keep
  <2>7. QED
    BY <2>2, <2>5, <2>6
<1>6. CASE Done(s, o)
  BY <1>1, <1>6, SavedTallies DEF Done
<1>7. QED
  BY <1>2, <1>3, <1>4, <1>5, <1>6

\* What a tick counts from: the orders of the session it has read.
LEMMA EnteredCounts ==
  ASSUME NEW s \in State, NEW o \in Observation
  PROVE  /\ Entered(s, o).session = o.session
         /\ Entered(s, o).count = IF s.session = o.session THEN s.count ELSE 0
<1> DEFINE c == Counted(s, o)
           d == Cooled(s)
           b == Adopted(s.entryId, o.buy)
           l == Adopted(s.exitId, o.sell)
<1>1. Entered(s, o) = [s EXCEPT !.count = c, !.session = o.session, !.cooldown = d,
                                !.entryId = b, !.exitId = l]
  BY DEF Entered
<1>2. c = IF s.session = o.session THEN s.count ELSE 0
  BY DEF Counted
<1> HIDE DEF c, d, b, l
<1>3. Entered(s, o).session = o.session /\ Entered(s, o).count = c
  BY <1>1 DEF State
<1>4. QED
  BY <1>2, <1>3

\* A tick's decision in session k is within the cap.
LEMMA TallyKept ==
  ASSUME BracketAssumption, IInv, CapInv, NEW k \in Int, k <= session,
         st # NoState => st.session <= k,
         NEW s, Good(s), st # NoState => s = st, st = NoState => s.count = 0,
         NEW o \in Observation, o.session = k, Decide(Entered(s, o), o),
         gate => pc = "holdings" /\ k = clock.session, pc # "answer",
         UNCHANGED <<clock, session, crashes, inSession>>
  PROVE  CapInv'
<1> DEFINE e == Entered(s, o)
           c == IF st # NoState /\ st.session = k THEN st.count ELSE 0
<1>1. Good(e)
  BY EnteredGood, AlikeGood
<1>2. PICK t : Tallies(e, t)
  BY <1>1, BuyTallies, SaleTallies DEF Decide
<1>3. e.session = k /\ e.count = c
  <2>1. s \in State /\ e.session = k /\ e.count = IF s.session = k THEN s.count ELSE 0
    BY EnteredCounts DEF Good
  <2>2. QED
    BY <2>1
<1>4. /\ c \in Int /\ 0 <= c /\ c <= Cap /\ Cap \in Int /\ session \in Int
      /\ st # NoState => st.session \in Int /\ st.count \in Int /\ 0 <= st.count
      /\ crashes \in Int /\ inSession \in Int /\ 0 <= session
      /\ inSession <= crashes + Allowed(st)
      /\ Allowed(st) \in Int
  <2>1. st # NoState => /\ st.session \in Int /\ st.count \in Int /\ 0 <= st.count
                        /\ st.count <= Cap
    BY DEF IInv, Persisted, Good, State, CapInv
  <2>2. Cap \in Int /\ 0 <= Cap /\ session \in Int /\ crashes \in Int /\ inSession \in Int
        /\ 0 <= session
    BY DEF BracketAssumption, IInv, World, CapInv
  <2>3. QED
    BY <2>1, <2>2 DEF CapInv, Allowed
<1> HIDE DEF e
<1>5. /\ t \in State /\ t.session = k /\ t.count \in Int /\ c <= t.count /\ t.count <= Cap
  BY <1>2, <1>3, <1>4 DEF Tallies, State
<1>6. t # NoState
  BY <1>5 DEF State, NoState
<1>7. Allowed(st) <= (IF k = session THEN t.count ELSE 0)
  BY <1>4, <1>5 DEF Allowed
<1>8. CASE st' = t /\ pc' \in {"idle", "cleanup"}
  <2>1. Allowed(st)' = IF k = session THEN t.count ELSE 0
    BY <1>5, <1>6, <1>8 DEF Allowed
  <2>2. PICK a \in Int : a = Allowed(st)' /\ Allowed(st) <= a
    BY <1>5, <1>7, <2>1
  <2>3. inSession <= crashes + a
    BY <1>4, <2>2
  <2>4. QED
    BY <1>4, <1>5, <1>8, <2>2, <2>3 DEF CapInv
<1>9. CASE gate /\ pc' = "order" /\ next' = t /\ st' = st /\ t.count = e.count + 1
  <2>1. Standing = c /\ Standing' = Standing /\ clock' = clock /\ k = clock.session
    BY <1>9 DEF Standing
  <2>2. Allowed(st)' = Allowed(st)
    BY <1>9 DEF Allowed
  <2>3. next'.session = clock'.session /\ next'.count = Standing' + 1 /\ next'.count <= Cap
    BY <1>3, <1>5, <1>9, <2>1
  <2>4. QED
    BY <1>4, <1>9, <2>1, <2>2, <2>3 DEF CapInv
<1>10. QED
  BY <1>2, <1>8, <1>9 DEF Tallies

\* The numbers the cap is about.
LEMMA CapNumbers ==
  ASSUME BracketAssumption, IInv, CapInv
  PROVE  /\ Cap \in Int /\ 0 < Cap /\ session \in Int /\ clock.session \in Int
         /\ crashes \in Int /\ 0 <= crashes /\ inSession \in Int /\ 0 <= session
         /\ st # NoState => st.session \in Int /\ st.count \in Int
         /\ Allowed(st) \in Int /\ 0 <= Allowed(st) /\ Allowed(st) <= Cap
         /\ Standing \in Int /\ 0 <= Standing
         /\ pc \in {"order", "answer"} =>
              /\ next \in State /\ next # NoState /\ next.session = clock.session
              /\ next.count = Standing + 1 /\ next.count <= Cap
              /\ Allowed(next) = (IF clock.session = session THEN Standing + 1 ELSE 0)
              /\ Allowed(next) \in Int /\ Allowed(st) <= Allowed(next)
              /\ Allowed(next) <= Cap
              /\ Allowed(next) <= Allowed(st) + 1
              /\ clock.session = session => Allowed(next) = Allowed(st) + 1
<1>1. /\ Cap \in Int /\ 0 < Cap /\ session \in Int /\ clock.session \in Int
      /\ crashes \in Int /\ 0 <= crashes /\ inSession \in Int /\ 0 <= session
  BY DEF BracketAssumption, IInv, World, CapInv
<1>2. st # NoState => /\ st.session \in Int /\ st.count \in Int
                      /\ 0 <= st.count /\ st.count <= Cap /\ st.session <= session
  BY DEF IInv, Persisted, Good, State, CapInv
<1>3. /\ Allowed(st) \in Int /\ 0 <= Allowed(st) /\ Allowed(st) <= Cap
      /\ Standing \in Int /\ 0 <= Standing
  BY <1>1, <1>2 DEF Allowed, Standing
<1>4. ASSUME pc \in {"order", "answer"}
      PROVE  /\ next \in State /\ next # NoState /\ next.session = clock.session
             /\ next.count = Standing + 1 /\ next.count <= Cap
             /\ Allowed(next) = (IF clock.session = session THEN Standing + 1 ELSE 0)
             /\ Allowed(next) \in Int /\ Allowed(st) <= Allowed(next)
             /\ Allowed(next) <= Cap
             /\ Allowed(next) <= Allowed(st) + 1
             /\ clock.session = session => Allowed(next) = Allowed(st) + 1
  <2>1. next \in State /\ next # NoState
    BY <1>4 DEF IInv, InFlight, Good, State, NoState
  <2>2. /\ next.session = clock.session /\ next.count = Standing + 1 /\ next.count <= Cap
        /\ clock.session <= session /\ (st # NoState => st.session <= clock.session)
    BY <1>4 DEF CapInv
  <2>3. Allowed(next) = (IF clock.session = session THEN Standing + 1 ELSE 0)
    BY <2>1, <2>2 DEF Allowed
  <2>4. Allowed(st) = (IF clock.session = session THEN Standing ELSE 0)
    BY <1>1, <1>2, <2>2 DEF Allowed, Standing
  <2>5. QED
    BY <1>1, <1>3, <2>1, <2>2, <2>3, <2>4
<1>5. QED
  BY <1>1, <1>2, <1>3, <1>4

\* The state in flight is saved, and what it counts with it.
LEMMA SavingKeepsCap ==
  ASSUME BracketAssumption, IInv, CapInv, OrderRefused \/ OrderAnswered \/ AnswerLost
  PROVE  CapInv'
<1>1. /\ pc \in {"order", "answer"} /\ pc' = "idle"
      /\ session' = session /\ crashes' = crashes /\ inSession' = inSession
      /\ \E t : st' = t /\ t # NoState /\ t.session = next.session /\ t.count = next.count
  <2>1. next \in State /\ placed \in Int
    BY DEF OrderRefused, OrderAnswered, AnswerLost, IInv, World, InFlight, Good
  <2>2. CASE OrderRefused \/ AnswerLost
    <3>1. st' = next /\ next # NoState
      BY <2>1, <2>2 DEF OrderRefused, AnswerLost, Keep, Save, State, NoState
    <3>2. QED
      BY <2>2, <3>1 DEF OrderRefused, AnswerLost, Keep, Save, brokerVars, worldVars
  <2>3. CASE OrderAnswered
    <3> DEFINE t == IF request.side = "buy" THEN [next EXCEPT !.entryId = placed]
                                            ELSE [next EXCEPT !.exitId = placed]
    <3>1. t \in State /\ t.session = next.session /\ t.count = next.count
      BY <2>1 DEF State
    <3>2. t # NoState
      BY <3>1 DEF State, NoState
    <3>3. Keep(t)
      BY <2>3 DEF OrderAnswered
    <3> HIDE DEF t
    <3>4. QED
      BY <2>3, <3>1, <3>2, <3>3 DEF OrderAnswered, Keep, Save, brokerVars, worldVars
  <2>4. QED
    BY <2>2, <2>3
<1>2. PICK t : st' = t /\ t # NoState /\ t.session = next.session /\ t.count = next.count
  BY <1>1
<1>3. /\ next.session = clock.session /\ next.count = Standing + 1 /\ next.count <= Cap
      /\ clock.session <= session /\ 0 <= next.count
  BY <1>1, CapNumbers DEF CapInv
<1>4. Allowed(st)' = Allowed(next) /\ next # NoState
  BY <1>1, <1>2, CapNumbers DEF Allowed
<1>5. inSession <= crashes + Allowed(next)
  <2>1. /\ inSession \in Int /\ crashes \in Int /\ Allowed(st) \in Int /\ Allowed(next) \in Int
        /\ Allowed(st) <= Allowed(next)
    BY <1>1, CapNumbers
  <2>2. inSession <= crashes + (IF pc = "answer" THEN Allowed(next) ELSE Allowed(st))
    BY DEF CapInv
  <2>3. QED
    BY <2>1, <2>2
<1>6. crashes \in Nat /\ inSession \in Int /\ 0 <= session
  BY DEF CapInv
<1>7. QED
  BY <1>1, <1>2, <1>3, <1>4, <1>5, <1>6 DEF CapInv

LEMMA AcceptedKeepsCap ==
  ASSUME BracketAssumption, IInv, CapInv, OrderAccepted
  PROVE  CapInv'
<1>1. /\ pc = "order" /\ pc' = "answer" /\ st' = st /\ next' = next /\ clock' = clock
      /\ session' = session /\ crashes' = crashes
      /\ inSession' = IF clock.session = session THEN inSession + 1 ELSE inSession
  BY DEF OrderAccepted, worldVars
<1>2. /\ Allowed(st)' = Allowed(st) /\ Allowed(next)' = Allowed(next) /\ Standing' = Standing
  BY <1>1 DEF Allowed, Standing
<1>3. /\ inSession \in Int /\ crashes \in Int /\ Allowed(st) \in Int /\ Allowed(next) \in Int
      /\ Allowed(st) <= Allowed(next)
      /\ clock.session = session => Allowed(next) = Allowed(st) + 1
      /\ inSession <= crashes + Allowed(st)
  BY <1>1, CapNumbers DEF CapInv
<1>4. inSession' \in Int /\ inSession' <= crashes + Allowed(next)
  <2>1. CASE clock.session = session
    <3>1. inSession' = inSession + 1 /\ Allowed(next) = Allowed(st) + 1
      BY <1>1, <1>3, <2>1
    <3>2. QED
      BY <1>3, <3>1
  <2>2. CASE clock.session # session
    <3>1. inSession' = inSession
      BY <1>1, <2>2
    <3>2. QED
      BY <1>3, <3>1
  <2>3. QED
    BY <2>1, <2>2
<1>5. QED
  BY <1>1, <1>2, <1>4 DEF CapInv

\* A tick counts in the session that it has read, or keeps what there is.
LEMMA ObserveKeepsCap ==
  ASSUME BracketAssumption, IInv, CapInv, Observe
  PROVE  CapInv'
<1> DEFINE s == IF st = NoState THEN InitState(shownHeld') ELSE st
           b == Mine("buy", s.entryId)
           l == IF HasSell THEN Mine("sell", s.exitId) ELSE NoOrder
           dl == Larger(0, shownHeld' - s.baseline)
           o == [grace |-> ~booted, open |-> clock.open, session |-> clock.session,
                 paper |-> FALSE, crossed |-> FALSE, buy |-> b, sell |-> l, delta |-> dl]
<1>1. /\ pc = "holdings" /\ UNCHANGED <<session, crashes, inSession>>
      /\ shownHeld' \in Int
  <2>1. pc = "holdings" /\ UNCHANGED <<session, crashes, inSession>>
    BY DEF Observe, brokerVars, worldVars
  <2>2. shownHeld' \in Int
    BY ObserveKept DEF IInv, World
  <2>3. QED
    BY <2>1, <2>2
<1>2. /\ Good(s) /\ (st # NoState => s = st)
      /\ (st = NoState => s.count = 0 /\ s.session = 0)
  <2>1. CASE st = NoState
    <3>1. s.count = 0 /\ s.session = 0
      BY <2>1 DEF InitState
    <3>2. QED
      BY <1>1, <2>1, <3>1, InitGood
  <2>2. CASE st # NoState
    BY <2>2 DEF IInv, Persisted
  <2>3. QED
    BY <2>1, <2>2
<1>3. Keep(s) \/ (Decide(Entered(s, o), o) /\ UNCHANGED clock)
  <2>1. Keep(s) \/ Decide(Entered(s, o), o)
    BY DEF Observe
  <2>2. Decide(Entered(s, o), o) => UNCHANGED clock
    BY DEF Decide, BuyFill, BuyWait, BuyPlaceOrHold, BoughtStep, SellFill, SellOver,
           SellPlaceOrHold, Done, BookFill, AskFor, Keep, Save, Finish
  <2>3. QED
    BY <2>1, <2>2
<1> HIDE DEF s
<1>4. o \in Observation /\ o.session = clock.session
  <2>1. b \in Order /\ l \in Order
    BY MineIsOrder DEF IInv, World, NoOrder, Order, None
  <2>2. s.baseline \in Int
    BY <1>2 DEF Good, State
  <2>3. dl \in Int
    BY <1>1, <2>2 DEF Larger
  <2>4. clock.open \in BOOLEAN /\ clock.session \in Int /\ (~booted) \in BOOLEAN
    BY DEF IInv, World
  <2> HIDE DEF b, l, dl
  <2>5. QED
    BY <2>1, <2>3, <2>4 DEF Observation
<1> HIDE DEF o
<1>5. CASE Keep(s)
  <2>1. st' = s /\ pc' = "idle"
    BY <1>5 DEF Keep, Save
  <2>2. s # NoState
    BY <1>2 DEF Good, State, NoState
  <2>3. /\ 0 <= s.count /\ s.count <= Cap /\ s.session <= session
        /\ Allowed(s) = Allowed(st)
    <3>1. CASE st = NoState
      BY <1>2, <3>1, CapNumbers DEF Allowed
    <3>2. CASE st # NoState
      BY <1>2, <3>2 DEF CapInv
    <3>3. QED
      BY <3>1, <3>2
  <2>4. Allowed(st)' = Allowed(st)
    BY <1>1, <2>1, <2>3 DEF Allowed
  <2>5. QED
    BY <1>1, <2>1, <2>2, <2>3, <2>4 DEF CapInv
<1>6. CASE Decide(Entered(s, o), o) /\ UNCHANGED clock
  <2>1. /\ clock.session \in Int /\ clock.session <= session
        /\ st # NoState => st.session <= clock.session
    BY <1>1, CapNumbers DEF CapInv
  <2>2. QED
    BY <1>1, <1>2, <1>4, <1>6, <2>1, TallyKept
<1>7. QED
  BY <1>3, <1>5, <1>6

\* The simulated tick counts too, and sends nothing.
LEMMA PaperKeepsCap ==
  ASSUME BracketAssumption, IInv, CapInv, TickPaper
  PROVE  CapInv'
<1> DEFINE s == IF st = NoState THEN InitState(0) ELSE st
           o(c) == [grace |-> ~booted, open |-> open, session |-> session,
                    paper |-> TRUE, crossed |-> c, buy |-> NoOrder, sell |-> NoOrder, delta |-> 0]
<1>1. PICK c \in BOOLEAN : Decide(Entered(s, o(c)), o(c))
  BY DEF TickPaper
<1>2. UNCHANGED clock
  BY <1>1 DEF Decide, BuyFill, BuyWait, BuyPlaceOrHold, BoughtStep, SellFill, SellOver,
              SellPlaceOrHold, Done, BookFill, AskFor, Keep, Save, Finish
<1>3. /\ pc = "idle" /\ ~gate /\ UNCHANGED <<clock, session, crashes, inSession>>
  BY <1>2 DEF TickPaper, brokerVars, worldVars
<1>4. Good(s) /\ (st # NoState => s = st) /\ (st = NoState => s.count = 0)
  <2>1. CASE st = NoState
    <3>1. s.count = 0
      BY <2>1 DEF InitState
    <3>2. QED
      BY <2>1, <3>1, InitGood
  <2>2. CASE st # NoState
    BY <2>2 DEF IInv, Persisted
  <2>3. QED
    BY <2>1, <2>2
<1> HIDE DEF s
<1>5. o(c) \in Observation /\ o(c).session = session
  <2>1. NoOrder \in Order /\ 0 \in Int /\ (~booted) \in BOOLEAN /\ open \in BOOLEAN
        /\ session \in Int
    BY DEF NoOrder, Order, None, IInv, World
  <2>2. QED
    BY <1>1, <2>1 DEF Observation
<1>6. /\ session \in Int /\ session <= session /\ (st # NoState => st.session <= session)
  BY CapNumbers DEF CapInv
<1> HIDE DEF o
<1>7. QED
  BY <1>1, <1>3, <1>4, <1>5, <1>6, TallyKept

\* A step that leaves the counts alone, and ends no tick that has an order out.
LEMMA QuietKeepsCap ==
  ASSUME CapInv, UNCHANGED <<st, next, clock, session, crashes, inSession>>,
         pc' = pc \/ (pc' \notin {"holdings", "order", "answer"} /\ pc # "answer")
  PROVE  CapInv'
<1>1. Allowed(st)' = Allowed(st) /\ Allowed(next)' = Allowed(next) /\ Standing' = Standing
  BY DEF Allowed, Standing
<1>2. pc' = "answer" <=> pc = "answer"
  OBVIOUS
<1>3. QED
  BY <1>1, <1>2 DEF CapInv

LEMMA CapKept ==
  ASSUME BracketAssumption, IInv, CapInv, [Next]_vars
  PROVE  CapInv'
<1>1. CASE TickLive
  <2>1. /\ pc = "idle" /\ pc' = "holdings" /\ st' = st /\ clock'.session = session
        /\ session' = session /\ crashes' = crashes /\ inSession' = inSession
    BY <1>1 DEF TickLive, brokerVars, worldVars
  <2>2. Allowed(st)' = Allowed(st) /\ session <= session
    BY <2>1, CapNumbers DEF Allowed
  <2>3. QED
    BY <2>1, <2>2 DEF CapInv
<1>2. CASE QueryFails \/ CleanedUp
  BY <1>2, QuietKeepsCap DEF QueryFails, CleanedUp, brokerVars, worldVars
<1>3. CASE Observe
  BY <1>3, ObserveKeepsCap
<1>4. CASE TickPaper
  BY <1>4, PaperKeepsCap
<1>5. CASE OrderRefused \/ OrderAnswered \/ AnswerLost
  BY <1>5, SavingKeepsCap
<1>6. CASE OrderAccepted
  BY <1>6, AcceptedKeepsCap
<1>7. CASE StopBot \/ StartBot \/ \E id \in cancels : CancelResting(id)
  BY <1>7, QuietKeepsCap DEF StopBot, StartBot, CancelResting, brokerVars, worldVars, tickVars
<1>8. CASE Crash
  <2>1. /\ pc' = "idle" /\ st' = st /\ session' = session /\ inSession' = inSession
        /\ crashes' = crashes + 1
    BY <1>8 DEF Crash, brokerVars
  <2>2. Allowed(st)' = Allowed(st)
    BY <2>1 DEF Allowed
  <2>3. /\ inSession \in Int /\ crashes \in Nat /\ Allowed(st) \in Int
        /\ inSession <= crashes + 1 + Allowed(st)
    <3>1. inSession \in Int /\ crashes \in Nat /\ Allowed(st) \in Int
      BY CapNumbers DEF CapInv
    <3>2. CASE pc = "answer"
      <4>1. Allowed(next) \in Int /\ Allowed(next) <= Allowed(st) + 1
        BY <3>2, CapNumbers
      <4>2. inSession <= crashes + Allowed(next)
        BY <3>2 DEF CapInv
      <4>3. QED
        BY <3>1, <4>1, <4>2
    <3>3. CASE pc # "answer"
      <4>1. inSession <= crashes + Allowed(st)
        BY <3>3 DEF CapInv
      <4>2. QED
        BY <3>1, <4>1
    <3>4. QED
      BY <3>1, <3>2, <3>3
  <2>4. QED
    BY <2>1, <2>2, <2>3 DEF CapInv
<1>9. CASE \E x \in book : Execute(x) \/ Expire(x)
  BY <1>9, QuietKeepsCap DEF Execute, Expire, worldVars, tickVars
<1>10. CASE EnterByHand \/ MarketTurns \/ GateTurns
  BY <1>10, QuietKeepsCap DEF EnterByHand, MarketTurns, GateTurns, brokerVars, worldVars, tickVars
<1>11. CASE NewSession
  <2>1. /\ pc' = pc /\ st' = st /\ next' = next /\ clock' = clock
        /\ session' = session + 1 /\ inSession' = 0 /\ crashes' = crashes
    BY <1>11 DEF NewSession, tickVars
  <2>2. /\ session \in Int /\ 0 <= session /\ clock.session \in Int
        /\ st # NoState => st.session \in Int /\ st.session <= session
    BY CapNumbers DEF CapInv
  <2>3. Allowed(st)' = 0 /\ Standing' = Standing
    BY <2>1, <2>2 DEF Allowed, Standing
  <2>4. pc \in {"order", "answer"} => Allowed(next)' = 0
    <3>1. pc \in {"order", "answer"} => next.session = clock.session /\ clock.session <= session
      BY DEF CapInv
    <3>2. QED
      BY <2>1, <2>2, <3>1 DEF Allowed
  <2>5. crashes \in Nat /\ 0 <= crashes + 0 /\ inSession' \in Int /\ 0 <= session'
        /\ (clock.session <= session => clock.session <= session')
        /\ (st # NoState => st.session <= session')
    BY <2>1, <2>2 DEF CapInv
  <2>6. QED
    BY <2>1, <2>3, <2>4, <2>5 DEF CapInv
<1>12. CASE UNCHANGED vars
  BY <1>12, QuietKeepsCap DEF vars
<1>13. QED
  BY <1>1, <1>2, <1>3, <1>4, <1>5, <1>6, <1>7, <1>8, <1>9, <1>10, <1>11, <1>12 DEF Next, Bot

\* In a trading session the broker sees at most Cap orders of the bot, and
\* one more for each death of the process: whatever is lost, shown late or
\* refused, also while live trading is switched on and off (safety#5).
THEOREM CapIsKept == ASSUME BracketAssumption PROVE Spec => []OrdersCapped
<1>1. IInv /\ CapInv => OrdersCapped
  <2> SUFFICES ASSUME IInv, CapInv PROVE OrdersCapped
    OBVIOUS
  <2>1. /\ inSession \in Int /\ crashes \in Int /\ Cap \in Int /\ Allowed(st) \in Int
        /\ Allowed(st) <= Cap
    BY CapNumbers
  <2>2. pc = "answer" => Allowed(next) \in Int /\ Allowed(next) <= Cap
    BY CapNumbers
  <2>3. inSession <= crashes + (IF pc = "answer" THEN Allowed(next) ELSE Allowed(st))
    BY DEF CapInv
  <2>4. inSession <= Cap + crashes
    BY <2>1, <2>2, <2>3
  <2>5. QED
    BY <2>4 DEF OrdersCapped
<1>2. IInv /\ CapInv /\ [Next]_vars => IInv' /\ CapInv'
  BY StepKept, CapKept
<1>3. Init => IInv /\ CapInv
  <2> SUFFICES ASSUME Init PROVE IInv /\ CapInv
    OBVIOUS
  <2>1. /\ st = NoState /\ pc = "idle" /\ session = 1 /\ inSession = 0 /\ crashes = 0
    BY DEF Init
  <2>2. Allowed(st) = 0
    BY <2>1 DEF Allowed
  <2>3. CapInv
    BY <2>1, <2>2 DEF CapInv
  <2>4. QED
    BY <2>3, InitIInv
<1>4. QED
  BY <1>1, <1>2, <1>3, PTL DEF Spec

-----------------------------------------------------------------------------
(* What the resting sales reserve: a sum over a finite set.  The library   *)
(* adds up by a recursive function, and a set on which a fact about it     *)
(* failed would have a smallest subset on which it fails.                  *)

\* A family of subsets of a finite set has a smallest member.
LEMMA Smallest ==
  ASSUME NEW S, IsFiniteSet(S), NEW F \in SUBSET SUBSET S, F # {}
  PROVE  \E T \in F : \A U \in F : U \subseteq T => U = T
<1>1. F \subseteq FiniteSubsetsOf(S)
  BY FS_Subset DEF FiniteSubsetsOf
<1>2. IsWellFoundedOn(StrictSubsetOrdering(S), FiniteSubsetsOf(S))
  BY FS_StrictSubsetOrderingWellFounded
<1>3. PICK T \in F : \A U \in F : ~(<<U, T>> \in StrictSubsetOrdering(S))
  BY <1>1, <1>2, WFMin
<1> QED
  BY <1>3 DEF StrictSubsetOrdering

\* What the orders of S may still execute, and those of a book that sell.
Rems(S) == MapThenSumSet(LAMBDA x : x.rem, S)
Sells(b) == {x \in b : x.side = "sell"}

\* The member the library takes first, and what it goes on with.
One(S) == CHOOSE x \in S : TRUE
Others(S) == S \ {One(S)}

LEMMA OneIn == ASSUME NEW S, S # {} PROVE One(S) \in S /\ Others(S) \subseteq S /\ Others(S) # S
BY DEF One, Others

\* What the library's recursive function is to be on the subsets of S.
Adds(S, g) == [T \in SUBSET S |-> IF T = {} THEN 0 ELSE One(T).rem + g[Others(T)]]
Sums(S, g) == g = Adds(S, g)
TheSum(S) == CHOOSE g : Sums(S, g)

LEMMA RemsIs == \A S : Rems(S) = TheSum(S)[S]
BY DEF Rems, MapThenSumSet, MapThenFoldSet, TheSum, Sums, Adds, One, Others

LEMMA SumsAt ==
  ASSUME NEW S, NEW g, Sums(S, g), NEW T \in SUBSET S
  PROVE  g[T] = IF T = {} THEN 0 ELSE One(T).rem + g[Others(T)]
BY DEF Sums, Adds

\* Two such functions agree where both are defined.
LEMMA SumsAgree ==
  ASSUME NEW S, IsFiniteSet(S), NEW R \in SUBSET S, NEW g, Sums(S, g), NEW h, Sums(R, h)
  PROVE  \A T \in SUBSET R : g[T] = h[T]
<1> DEFINE F == {T \in SUBSET R : g[T] # h[T]}
<1> SUFFICES ASSUME F # {} PROVE FALSE
  OBVIOUS
<1>1. IsFiniteSet(R)
  BY FS_Subset
<1>2. PICK T \in F : \A U \in F : U \subseteq T => U = T
  <2>1. F \in SUBSET SUBSET R
    OBVIOUS
  <2> HIDE DEF F
  <2> QED
    BY <1>1, <2>1, Smallest
<1>3. T \in SUBSET R /\ T \in SUBSET S
  OBVIOUS
<1>4. g[T] = IF T = {} THEN 0 ELSE One(T).rem + g[Others(T)]
  BY <1>3, SumsAt
<1>5. h[T] = IF T = {} THEN 0 ELSE One(T).rem + h[Others(T)]
  BY <1>3, SumsAt
<1>6. T # {} => Others(T) \in SUBSET R /\ Others(T) \subseteq T /\ Others(T) # T
  BY <1>3, OneIn
<1>7. T # {} => Others(T) \notin F
  BY <1>2, <1>6
<1> QED
  BY <1>4, <1>5, <1>6, <1>7

\* There is such a function.
LEMMA SumExists == ASSUME NEW S, IsFiniteSet(S) PROVE \E g : Sums(S, g)
<1> DEFINE F == {T \in SUBSET S : ~\E g : Sums(T, g)}
<1> SUFFICES ASSUME F # {} PROVE FALSE
  OBVIOUS
<1>1. PICK T \in F : \A U \in F : U \subseteq T => U = T
  <2>1. F \in SUBSET SUBSET S
    OBVIOUS
  <2> HIDE DEF F
  <2> QED
    BY <2>1, Smallest
<1>2. T \in SUBSET S /\ ~\E g : Sums(T, g)
  OBVIOUS
<1>3. ASSUME NEW U \in SUBSET T, U # T PROVE Sums(U, TheSum(U)) /\ IsFiniteSet(U)
  <2>1. U \in SUBSET S /\ U \notin F
    BY <1>1, <1>2, <1>3
  <2>2. \E g : Sums(U, g)
    BY <2>1
  <2>3. Sums(U, TheSum(U))
    BY <2>2 DEF TheSum
  <2> QED
    BY <2>1, <2>3, FS_Subset
<1> HIDE DEF F
<1> DEFINE v(U) == TheSum(U)[U]
           g == [s \in SUBSET T |-> IF s = {} THEN 0 ELSE One(s).rem + v(Others(s))]
<1>4. ASSUME NEW U \in SUBSET T, U # T, U # {} PROVE v(U) = One(U).rem + v(Others(U))
  <2> DEFINE R == Others(U)
  <2>1. R \in SUBSET U /\ R \in SUBSET T /\ R # T
    BY <1>4, OneIn
  <2>2. Sums(U, TheSum(U)) /\ IsFiniteSet(U)
    BY <1>3, <1>4
  <2>3. Sums(R, TheSum(R))
    BY <1>3, <2>1
  <2>4. v(U) = One(U).rem + TheSum(U)[R]
    BY <1>4, <2>2, SumsAt
  <2>5. \A W \in SUBSET R : TheSum(U)[W] = TheSum(R)[W]
    BY <2>1, <2>2, <2>3, SumsAgree
  <2>6. TheSum(U)[R] = TheSum(R)[R]
    BY <2>5
  <2> QED
    BY <2>4, <2>6
<1>5. {} # T => v({}) = 0
  <2>1. ASSUME {} # T PROVE Sums({}, TheSum({}))
    BY <1>3, <2>1
  <2>2. ASSUME {} # T PROVE TheSum({})[{}] = 0
    BY <2>1, <2>2, SumsAt
  <2> QED
    BY <2>2
<1> HIDE DEF v
<1>6. ASSUME NEW s \in SUBSET T PROVE g[s] = IF s = {} THEN 0 ELSE One(s).rem + g[Others(s)]
  <2>1. CASE s = {}
    BY <2>1
  <2>2. CASE s # {}
    <3>1. Others(s) \in SUBSET T /\ Others(s) # T
      BY <2>2, OneIn
    <3>2. g[s] = One(s).rem + v(Others(s))
      BY <2>2
    <3>3. g[Others(s)] = v(Others(s))
      BY <1>4, <1>5, <3>1
    <3> QED
      BY <2>2, <3>2, <3>3
  <2> QED
    BY <2>1, <2>2
<1>7. Sums(T, g)
  <2>1. g = [s \in SUBSET T |-> g[s]]
    OBVIOUS
  <2> HIDE DEF g
  <2> QED
    BY <1>6, <2>1 DEF Sums, Adds
<1> QED
  BY <1>2, <1>7

\* The sum over a set is what its first element adds to the sum over the others.
LEMMA RemsStep ==
  ASSUME NEW S, IsFiniteSet(S)
  PROVE  Rems(S) = IF S = {} THEN 0 ELSE One(S).rem + Rems(Others(S))
<1>1. Sums(S, TheSum(S))
  BY SumExists DEF TheSum
<1>2. Rems(S) = IF S = {} THEN 0 ELSE One(S).rem + TheSum(S)[Others(S)]
  BY <1>1, SumsAt, RemsIs
<1>3. ASSUME S # {} PROVE TheSum(S)[Others(S)] = Rems(Others(S))
  <2>1. Others(S) \in SUBSET S
    BY <1>3, OneIn
  <2>2. IsFiniteSet(Others(S))
    BY <2>1, FS_Subset
  <2>3. Sums(Others(S), TheSum(Others(S)))
    BY <2>2, SumExists DEF TheSum
  <2>4. \A W \in SUBSET Others(S) : TheSum(S)[W] = TheSum(Others(S))[W]
    BY <1>1, <2>1, <2>3, SumsAgree
  <2> QED
    BY <2>4, RemsIs
<1> QED
  BY <1>2, <1>3

\* Orders of which something rests, or nothing.
Resting(S) == IsFiniteSet(S) /\ \A x \in S : x.rem \in Nat

LEMMA RemsNat == ASSUME NEW S, Resting(S) PROVE \A T \in SUBSET S : Rems(T) \in Nat
<1> DEFINE F == {T \in SUBSET S : Rems(T) \notin Nat}
<1> SUFFICES ASSUME F # {} PROVE FALSE
  OBVIOUS
<1>1. PICK T \in F : \A U \in F : U \subseteq T => U = T
  <2>1. F \in SUBSET SUBSET S
    OBVIOUS
  <2> HIDE DEF F
  <2> QED
    BY <2>1, Smallest DEF Resting
<1>2. T \in SUBSET S /\ Rems(T) \notin Nat /\ IsFiniteSet(T)
  BY FS_Subset DEF Resting
<1>3. Rems(T) = IF T = {} THEN 0 ELSE One(T).rem + Rems(Others(T))
  BY <1>2, RemsStep
<1>4. T # {} => One(T) \in T /\ Others(T) \in SUBSET S /\ Others(T) \subseteq T /\ Others(T) # T
  BY <1>2, OneIn
<1>5. T # {} => Rems(Others(T)) \in Nat
  BY <1>1, <1>2, <1>4
<1>6. T # {} => One(T).rem \in Nat
  BY <1>2, <1>4 DEF Resting
<1> QED
  BY <1>2, <1>3, <1>5, <1>6

\* Any of the orders may be taken first.
LEMMA RemsWithout ==
  ASSUME NEW S, Resting(S), NEW p \in S
  PROVE  Rems(S) = p.rem + Rems(S \ {p})
<1> DEFINE F == {T \in SUBSET S : \E x \in T : Rems(T) # x.rem + Rems(T \ {x})}
<1>a. ASSUME F # {} PROVE FALSE
  <2>1. PICK T \in F : \A U \in F : U \subseteq T => U = T
    <3>1. F \in SUBSET SUBSET S
      OBVIOUS
    <3> HIDE DEF F
    <3> QED
      BY <1>a, <3>1, Smallest DEF Resting
  <2>2. PICK x \in T : Rems(T) # x.rem + Rems(T \ {x})
    OBVIOUS
  <2> DEFINE q == One(T)
  <2>3. T \in SUBSET S /\ IsFiniteSet(T) /\ T # {}
    BY FS_Subset DEF Resting
  <2>4. Rems(T) = q.rem + Rems(T \ {q}) /\ q \in T
    BY <2>3, RemsStep, OneIn DEF Others
  <2>5. x # q
    BY <2>2, <2>4
  <2>6. T \ {q} \notin F /\ T \ {x} \notin F
    BY <2>1, <2>3, <2>4
  <2>7. T \ {q} \in SUBSET S /\ T \ {x} \in SUBSET S /\ x \in T \ {q} /\ q \in T \ {x}
    BY <2>3, <2>4, <2>5
  <2>8. Rems(T \ {q}) = x.rem + Rems((T \ {q}) \ {x})
    BY <2>6, <2>7
  <2>9. Rems(T \ {x}) = q.rem + Rems((T \ {x}) \ {q})
    BY <2>6, <2>7
  <2>10. (T \ {q}) \ {x} = (T \ {x}) \ {q}
    OBVIOUS
  <2> DEFINE both == (T \ {x}) \ {q}
  <2>11. Rems(both) \in Nat /\ x.rem \in Nat /\ q.rem \in Nat
    BY <2>3, <2>4, RemsNat DEF Resting
  <2>12. Rems(T \ {q}) = x.rem + Rems(both) /\ Rems(T \ {x}) = q.rem + Rems(both)
    BY <2>8, <2>9, <2>10, Zenon
  <2> DEFINE a == Rems(both)
             c == x.rem
             d == q.rem
  <2>13. Rems(T) = d + (c + a) /\ Rems(T \ {x}) = d + a
    BY <2>4, <2>12, Zenon
  <2>14. a \in Nat /\ c \in Nat /\ d \in Nat
    BY <2>11
  <2> HIDE DEF a, c, d, both, q, F
  <2>15. d + (c + a) = c + (d + a)
    BY <2>14
  <2> QED
    BY <2>2, <2>13, <2>15 DEF c
<1> QED
  BY <1>a

\* Fewer orders reserve no more.
LEMMA RemsFewer ==
  ASSUME NEW S, Resting(S), NEW p \in S
  PROVE  Rems(S \ {p}) = Rems(S) - p.rem /\ Rems(S) \in Nat /\ p.rem \in Nat
<1>1. Rems(S) \in Nat /\ Rems(S \ {p}) \in Nat /\ p.rem \in Nat
  BY RemsNat DEF Resting
<1> QED
  BY <1>1, RemsWithout

LEMMA RemsMore ==
  ASSUME NEW S, Resting(S), NEW y, y.rem \in Nat
  PROVE  Resting(S \cup {y}) /\ Rems(S \cup {y}) <= Rems(S) + y.rem
<1>1. Resting(S \cup {y}) /\ Rems(S) \in Nat
  BY FS_AddElement, RemsNat DEF Resting
<1>2. CASE y \in S
  <2>1. S \cup {y} = S
    BY <1>2
  <2>2. Rems(S \cup {y}) = Rems(S)
    BY <2>1, Zenon
  <2> QED
    BY <1>1, <2>2
<1>3. CASE y \notin S
  <2>1. (S \cup {y}) \ {y} = S
    BY <1>3
  <2>2. Rems(S) = Rems(S \cup {y}) - y.rem /\ Rems(S \cup {y}) \in Nat
    BY <1>1, <2>1, RemsFewer
  <2> QED
    BY <1>1, <2>2
<1> QED
  BY <1>2, <1>3

\* A subset reserves no more than the set.
LEMMA RemsSubset ==
  ASSUME NEW S, Resting(S)
  PROVE  \A T \in SUBSET S : Rems(T) <= Rems(S)
<1> DEFINE F == {T \in SUBSET S : \E U \in SUBSET T : ~(Rems(U) <= Rems(T))}
<1>1. ASSUME F # {} PROVE FALSE
  <2>1. PICK T \in F : \A U \in F : U \subseteq T => U = T
    <3>1. F \in SUBSET SUBSET S
      OBVIOUS
    <3> HIDE DEF F
    <3> QED
      BY <1>1, <3>1, Smallest DEF Resting
  <2>2. PICK U \in SUBSET T : ~(Rems(U) <= Rems(T))
    OBVIOUS
  <2>3. T \in SUBSET S /\ U \in SUBSET S /\ Resting(T) /\ Rems(U) \in Nat /\ Rems(T) \in Nat
    BY RemsNat, FS_Subset DEF Resting
  <2>4. U # T
    BY <2>2, <2>3
  <2>5. PICK p \in T : p \notin U
    BY <2>4
  <2>6. Rems(T \ {p}) = Rems(T) - p.rem /\ p.rem \in Nat
    BY <2>3, RemsFewer
  <2>7. T \ {p} \notin F /\ T \ {p} \in SUBSET S /\ U \in SUBSET (T \ {p})
    BY <2>1, <2>3, <2>5
  <2>8. Rems(U) <= Rems(T \ {p})
    BY <2>7
  <2> HIDE DEF F
  <2> QED
    BY <2>2, <2>3, <2>6, <2>8
<1>2. F = {}
  BY <1>1
<1>3. S \notin F
  BY <1>2
<1> QED
  BY <1>3

-----------------------------------------------------------------------------
(* The figures of the persisted state keep their ranges: what Good leaves  *)
(* open of them.                                                           *)
Ranged(s) ==
  /\ s.baseline \in Nat /\ s.session \in Nat /\ s.entryId \in OrderIds /\ s.exitId \in OrderIds
  /\ s.count \in 0..Cap /\ s.cooldown \in 0..Cooldown
  /\ s.buyMisses \in 0..Debounce /\ s.sellMisses \in 0..Debounce /\ s.doneMisses \in 0..Debounce
Seen(o) == o \in Observation /\ o.session \in Nat /\ o.buy.id \in OrderIds /\ o.sell.id \in OrderIds
Requests == [side : {"buy", "sell"}, qty : 0..Qty]

\* How a decision ends that has come to t.
Ends(t) ==
  \/ st' = t /\ UNCHANGED <<next, request>>
  \/ pc' = "order" /\ next' = t /\ request' \in Requests /\ UNCHANGED st

LEMMA StatesAre == ASSUME BracketAssumption, NEW s, Good(s), Ranged(s) PROVE s \in StateSet
<1>1. s \in State /\ s.qty \in 0..Qty /\ s.filled \in 0..Qty /\ s.sold \in 0..Qty
  BY DEF Good, State, Coherent, BracketAssumption
<1> QED
  BY <1>1 DEF State, StateSet, Ranged

LEMMA StatesRange == \A s \in StateSet : Ranged(s)
BY DEF StateSet, Ranged

LEMMA Bumped == ASSUME BracketAssumption, NEW n \in 0..Debounce PROVE Bump(n) \in 0..Debounce
BY DEF Bump, BracketAssumption

LEMMA MissesRange ==
  ASSUME BracketAssumption, NEW s, Ranged(s), NEW o
  PROVE  BuyMisses(s, o) \in 0..Debounce /\ SellMisses(s, o) \in 0..Debounce /\ 0 \in 0..Debounce
<1>1. s.buyMisses \in 0..Debounce /\ s.sellMisses \in 0..Debounce /\ 0 \in 0..Debounce
  BY DEF Ranged, BracketAssumption
<1> QED
  BY <1>1, Bumped DEF BuyMisses, SellMisses

LEMMA EnteredRange ==
  ASSUME BracketAssumption, NEW s, Good(s), Ranged(s), NEW o, Seen(o)
  PROVE  Ranged(Entered(s, o))
<1>1. s \in State /\ o.session \in Nat /\ o.buy.id \in OrderIds /\ o.sell.id \in OrderIds
  BY DEF Good, Seen
<1>2. /\ Counted(s, o) \in 0..Cap /\ Cooled(s) \in 0..Cooldown
      /\ Adopted(s.entryId, o.buy) \in OrderIds /\ Adopted(s.exitId, o.sell) \in OrderIds
  BY <1>1 DEF Counted, Cooled, Adopted, Ranged, BracketAssumption
<1> QED
  BY <1>1, <1>2 DEF Entered, Ranged, State

LEMMA OrderedRange ==
  ASSUME BracketAssumption, NEW s \in State, Ranged(s), s.count < Cap, NEW phase
  PROVE  Ranged(Ordered(s, phase))
<1>1. s.count + 1 \in 0..Cap /\ Cooldown \in 0..Cooldown
  BY DEF Ranged, BracketAssumption
<1> QED
  BY <1>1 DEF Ordered, Ranged, State

LEMMA AskForEnds ==
  ASSUME BracketAssumption, NEW s, NEW side \in {"buy", "sell"}, NEW qty \in 0..Qty, ledger \in Nat,
         AskFor(s, side, qty)
  PROVE  Ends(s) /\ UNCHANGED <<ledger, cancels>> /\ pc' \in {"idle", "order"}
<1>1. Capped(side, qty) \in 0..Qty
  BY DEF Capped, BracketAssumption
<1>2. CASE gate
  <2>1. request' = [side |-> side, qty |-> Capped(side, qty)]
    BY <1>2 DEF AskFor
  <2>2. request' \in Requests
    BY <1>1, <2>1 DEF Requests
  <2> QED
    BY <1>2, <2>2 DEF AskFor, Ends
<1>3. CASE ~gate
  BY <1>3 DEF AskFor, Keep, Save, Ends
<1> QED
  BY <1>2, <1>3

\* A decision ends with figures in their ranges.
Ended ==
  /\ \E t : Ranged(t) /\ Ends(t)
  /\ ledger' \in Nat /\ cancels' \subseteq OrderIds /\ pc' \in {"idle", "order", "cleanup"}

LEMMA BuyEnds ==
  ASSUME BracketAssumption, NEW s, Good(s), Ranged(s), NEW o \in Observation,
         ledger \in Nat, cancels \subseteq OrderIds,
         BuyFill(s, o) \/ BuyWait(s, o) \/ BuyPlaceOrHold(s, o)
  PROVE  Ended
<1>1. /\ s \in State /\ Qty \in Nat /\ s.filled \in 0..Qty
      /\ BuyTotal(s, o) \in Int
  BY BuyTotalBounds DEF Good, State, Coherent, BracketAssumption
<1>2. BuyMisses(s, o) \in 0..Debounce /\ 0 \in 0..Debounce
  BY MissesRange
<1>3. CASE BuyFill(s, o)
  <2> DEFINE t == BuyFilled(s, o)
  <2>1. Ranged(t)
    BY <1>1, <1>2 DEF BuyFilled, Ranged, State
  <2> HIDE DEF t
  <2>2. BookFill(t, o, BuyTotal(s, o) - s.filled)
    BY <1>3 DEF BuyFill, t
  <2>3. Larger(0, ledger + (BuyTotal(s, o) - s.filled)) \in Nat
    BY <1>1 DEF Larger
  <2> QED
    BY <2>1, <2>2, <2>3 DEF BookFill, Save, Ended, Ends
<1>4. CASE BuyWait(s, o)
  <2> DEFINE t == [s EXCEPT !.buyMisses = 0, !.phase = "buy_resting"]
  <2>1. Ranged(t)
    BY <1>1, <1>2 DEF Ranged, State
  <2> HIDE DEF t
  <2>2. Keep(t)
    BY <1>4 DEF BuyWait, t
  <2> QED
    BY <2>1, <2>2 DEF Keep, Save, Ended, Ends
<1>5. CASE BuyPlaceOrHold(s, o)
  <2> DEFINE u == [s EXCEPT !.buyMisses = 0]
             h == [s EXCEPT !.buyMisses = BuyMisses(s, o)]
             t == Ordered(u, "buy_resting")
  <2>1. Ranged(h) /\ Ranged(u) /\ u \in State /\ u.count = s.count
    BY <1>1, <1>2 DEF Ranged, State
  <2>2. CASE CanPlace(s, o) /\ AskFor(t, "buy", Qty - s.filled)
    <3>1. Ranged(t)
      BY <2>1, <2>2, OrderedRange DEF CanPlace
    <3>2. Qty - s.filled \in 0..Qty
      BY <1>1
    <3> HIDE DEF t, u, h
    <3>3. Ends(t) /\ UNCHANGED <<ledger, cancels>> /\ pc' \in {"idle", "order"}
      BY <2>2, <3>2, AskForEnds
    <3> QED
      BY <3>1, <3>3 DEF Ended
  <2>3. CASE Keep(h)
    <3> HIDE DEF h
    <3> QED
      BY <2>1, <2>3 DEF Keep, Save, Ended, Ends
  <2> QED
    BY <1>5, <2>2, <2>3 DEF BuyPlaceOrHold
<1> QED
  BY <1>3, <1>4, <1>5

LEMMA FinishEnds ==
  ASSUME NEW s, Ranged(s), ledger \in Nat, cancels \subseteq OrderIds, Finish(s)
  PROVE  Ended
<1>1. {s.entryId, s.exitId} \ {None} \subseteq OrderIds
  BY DEF Ranged
<1> QED
  BY <1>1 DEF Finish, Ended, Ends

LEMMA SellEnds ==
  ASSUME BracketAssumption, NEW s, Good(s), Ranged(s), NEW o \in Observation,
         ledger \in Nat, cancels \subseteq OrderIds,
         BoughtStep(s, o) \/ SellFill(s, o) \/ SellOver(s, o) \/ SellPlaceOrHold(s, o) \/ Done(s, o)
  PROVE  Ended
<1>1. /\ s \in State /\ Qty \in Nat /\ s.qty \in 0..Qty /\ s.sold \in Int
      /\ SellTotal(s, o) \in Int
  BY SellTotalBounds DEF Good, State, Coherent, BracketAssumption
<1>2. /\ SellMisses(s, o) \in 0..Debounce /\ 0 \in 0..Debounce /\ Bump(s.doneMisses) \in 0..Debounce
      /\ 0..Debounce \subseteq Int
  BY MissesRange, Bumped DEF Ranged
<1>a. ASSUME NEW m \in 0..Debounce, NEW n \in 0..Debounce
      PROVE  LET t == [s EXCEPT !.sellMisses = m, !.doneMisses = n]
             IN  t \in State /\ Ranged(t) /\ t.count = s.count
  BY <1>1, <1>2, <1>a DEF State, Ranged
<1>3. ASSUME NEW t, Ranged(t), Keep(t) PROVE Ended
  BY <1>3 DEF Keep, Save, Ended, Ends
<1>4. ASSUME NEW t \in State, Ranged(t), CanPlace(s, o), t.count = s.count,
             AskFor(Ordered(t, "sell_resting"), "sell", s.qty)
      PROVE  Ended
  <2> DEFINE r == Ordered(t, "sell_resting")
  <2>1. Ranged(r)
    BY <1>4, OrderedRange DEF CanPlace
  <2> HIDE DEF r
  <2>2. Ends(r) /\ UNCHANGED <<ledger, cancels>> /\ pc' \in {"idle", "order"}
    BY <1>1, <1>4, AskForEnds DEF r
  <2> QED
    BY <2>1, <2>2 DEF Ended
<1>5. ASSUME NEW t \in State, Ranged(t), Finish([t EXCEPT !.phase = "done", !.status = "closed"]) PROVE Ended
  <2> DEFINE d == [t EXCEPT !.phase = "done", !.status = "closed"]
  <2>1. Ranged(d)
    BY <1>5 DEF Ranged, State
  <2> HIDE DEF d
  <2> QED
    BY <1>5, <2>1, FinishEnds DEF d
<1>6. CASE BoughtStep(s, o)
  BY <1>1, <1>3, <1>4, <1>5, <1>6 DEF BoughtStep
<1>7. CASE SellFill(s, o)
  <2> DEFINE t == SellFilled(s, o)
  <2>1. Ranged(t)
    BY <1>1, <1>2 DEF SellFilled, Ranged, State
  <2> HIDE DEF t
  <2>2. BookFill(t, o, s.sold - SellTotal(s, o))
    BY <1>7 DEF SellFill, t
  <2>3. Larger(0, ledger + (s.sold - SellTotal(s, o))) \in Nat
    BY <1>1 DEF Larger
  <2> QED
    BY <2>1, <2>2, <2>3 DEF BookFill, Save, Ended, Ends
<1>8. CASE SellOver(s, o)
  <2> DEFINE t == [s EXCEPT !.sellMisses = SellMisses(s, o), !.doneMisses = Bump(@)]
  <2>1. t \in State /\ Ranged(t)
    BY <1>2, <1>a
  <2>2. Finish([t EXCEPT !.phase = "done", !.status = "closed"]) \/ Keep(t)
    BY <1>8 DEF SellOver
  <2> HIDE DEF t
  <2> QED
    BY <1>3, <1>5, <2>1, <2>2
<1>9. CASE SellPlaceOrHold(s, o)
  <2> DEFINE t == [s EXCEPT !.sellMisses = SellMisses(s, o), !.doneMisses = 0]
             u == [t EXCEPT !.sellMisses = 0]
  <2>1. t \in State /\ Ranged(t) /\ t.count = s.count
    BY <1>2, <1>a
  <2>2. (CanPlace(s, o) /\ AskFor(Ordered(u, "sell_resting"), "sell", s.qty)) \/ Keep(t)
    BY <1>9 DEF SellPlaceOrHold
  <2> HIDE DEF t
  <2>3. u \in State /\ Ranged(u) /\ u.count = s.count
    BY <1>2, <2>1 DEF Ranged, State
  <2> HIDE DEF u
  <2> QED
    BY <1>3, <1>4, <2>1, <2>2, <2>3
<1>10. CASE Done(s, o)
  BY <1>10, FinishEnds DEF Done
<1> QED
  BY <1>6, <1>7, <1>8, <1>9, <1>10

LEMMA DecideEnds ==
  ASSUME BracketAssumption, NEW s, Good(s), Ranged(s), NEW o, Seen(o),
         ledger \in Nat, cancels \subseteq OrderIds, Decide(Entered(s, o), o)
  PROVE  Ended
<1> DEFINE e == Entered(s, o)
<1>1. Good(e) /\ Ranged(e) /\ o \in Observation
  BY EnteredGood, AlikeGood, EnteredRange DEF Seen
<1> HIDE DEF e
<1>2. Decide(e, o)
  BY DEF e
<1> QED
  BY <1>1, <1>2, BuyEnds, SellEnds DEF Decide

-----------------------------------------------------------------------------
(* The types.  The broker's index of the holdings is of a natural number   *)
(* because the resting sales reserve no more than the account holds.       *)
Reserved ==
  /\ IsFiniteSet(book) /\ \A x \in book : x.rem + x.exec <= Qty /\ x.side # "none"
  /\ Rems(Sells(book)) <= Held
TypedInv == TypeOK /\ placed <= MaxOrders /\ Reserved

LEMMA SellableIs == Sellable = Held - Rems(Sells(book))
BY DEF Sellable, Rems, Sells

LEMMA SellsRest ==
  ASSUME BracketAssumption, NEW B, IsFiniteSet(B), B \subseteq OrderSet
  PROVE  Resting(Sells(B)) /\ Rems(Sells(B)) \in Nat
<1>1. Sells(B) \subseteq B
  BY DEF Sells
<1>2. IsFiniteSet(Sells(B))
  BY <1>1, FS_Subset
<1>3. \A x \in Sells(B) : x.rem \in Nat
  BY <1>1 DEF OrderSet, BracketAssumption
<1>4. Resting(Sells(B))
  BY <1>2, <1>3 DEF Resting
<1> QED
  BY <1>4, RemsNat

\* Orders go from the book.
LEMMA Shrunk ==
  ASSUME BracketAssumption, TypedInv, book' \subseteq book, UNCHANGED <<bought, sold, byHand>>
  PROVE  Reserved' /\ book' \subseteq OrderSet
<1>1. book \subseteq OrderSet /\ IsFiniteSet(book) /\ bought \in Nat /\ sold \in Nat /\ byHand \in Nat /\ Baseline \in Nat
  BY DEF TypedInv, TypeOK, Reserved, BracketAssumption
<1>2. IsFiniteSet(book') /\ book' \subseteq OrderSet /\ \A x \in book' : x.rem + x.exec <= Qty /\ x.side # "none"
  BY <1>1, FS_Subset DEF TypedInv, Reserved
<1>3. Sells(book') \in SUBSET Sells(book)
  BY DEF Sells
<1>4. Rems(Sells(book)) \in Nat /\ Rems(Sells(book')) \in Nat /\ Resting(Sells(book))
  BY <1>1, <1>2, SellsRest
<1>5. Rems(Sells(book')) <= Rems(Sells(book))
  BY <1>3, <1>4, RemsSubset
<1>6. Held' = Held /\ Held \in Int
  BY <1>1 DEF Held
<1>7. Rems(Sells(book')) <= Held'
  BY <1>4, <1>5, <1>6 DEF TypedInv, Reserved
<1> QED
  BY <1>2, <1>7 DEF Reserved, Sells

\* One order comes into it that the account can cover.
LEMMA Grown ==
  ASSUME BracketAssumption, TypedInv, NEW y \in OrderSet, book' = book \cup {y}, y.rem + y.exec <= Qty, y.side # "none",
         y.side = "sell" => y.rem <= Held - Rems(Sells(book)), UNCHANGED <<bought, sold, byHand>>
  PROVE  Reserved' /\ book' \subseteq OrderSet
<1>1. book \subseteq OrderSet /\ IsFiniteSet(book) /\ bought \in Nat /\ sold \in Nat /\ byHand \in Nat /\ Baseline \in Nat
  BY DEF TypedInv, TypeOK, Reserved, BracketAssumption
<1>2. IsFiniteSet(book') /\ book' \subseteq OrderSet /\ \A x \in book' : x.rem + x.exec <= Qty /\ x.side # "none"
  BY <1>1, FS_AddElement DEF TypedInv, Reserved
<1>3. Resting(Sells(book)) /\ Rems(Sells(book)) \in Nat /\ Rems(Sells(book')) \in Nat /\ y.rem \in Nat
  BY <1>1, <1>2, SellsRest DEF OrderSet, BracketAssumption
<1>4. Held' = Held /\ Held \in Int /\ Rems(Sells(book)) <= Held
  BY <1>1 DEF Held, TypedInv, Reserved
<1>5. CASE y.side = "sell"
  <2>1. Sells(book') = Sells(book) \cup {y}
    BY <1>5 DEF Sells
  <2>2. Rems(Sells(book) \cup {y}) <= Rems(Sells(book)) + y.rem
    BY <1>3, RemsMore
  <2>3. Rems(Sells(book')) <= Rems(Sells(book)) + y.rem
    BY <2>1, <2>2, Zenon
  <2>4. Rems(Sells(book')) <= Held'
    BY <1>3, <1>4, <1>5, <2>3
  <2> QED
    BY <1>2, <2>4 DEF Reserved, Sells
<1>6. CASE y.side # "sell"
  <2>1. Sells(book') = Sells(book)
    BY <1>6 DEF Sells
  <2>2. Rems(Sells(book')) = Rems(Sells(book))
    BY <2>1, Zenon
  <2>3. Rems(Sells(book')) <= Held'
    BY <1>4, <2>2
  <2> QED
    BY <1>2, <2>3 DEF Reserved, Sells
<1> QED
  BY <1>5, <1>6

\* An order is executed, in part or wholly: a sale takes from the account
\* what it had reserved.
LEMMA ExecutedReserves ==
  ASSUME BracketAssumption, TypedInv, NEW x \in book, Execute(x)
  PROVE  Reserved' /\ book' \subseteq OrderSet /\ bought' \in Nat /\ sold' \in Nat /\ byHand' \in Nat
<1>1. /\ book \subseteq OrderSet /\ IsFiniteSet(book)
      /\ bought \in Nat /\ sold \in Nat /\ byHand \in Nat /\ Baseline \in Nat
      /\ x \in OrderSet /\ x.rem \in Nat /\ x.exec \in Nat /\ x.rem + x.exec <= Qty /\ x.side # "none" /\ Qty \in Nat
  BY DEF TypedInv, TypeOK, Reserved, BracketAssumption, OrderSet
<1>2. PICK n \in 1..x.rem :
        /\ book' = (book \ {x}) \cup
             (IF n = x.rem THEN {} ELSE {[x EXCEPT !.rem = @ - n, !.exec = @ + n]})
        /\ Brings(x, n)
  BY ExecuteBrings
<1> DEFINE r == x.rem - n
           k == x.exec + n
           y == [x EXCEPT !.rem = r, !.exec = k]
<1>3. n \in Nat /\ n >= 1 /\ r \in 0..Qty /\ k \in 0..Qty /\ r + k <= Qty /\ r + n = x.rem
  BY <1>1, <1>2
<1>4. book' = book \ {x} \/ book' = (book \ {x}) \cup {y}
  BY <1>2
<1> HIDE DEF r, k
<1>5. y \in OrderSet /\ y.rem = r /\ y.exec = k /\ y.side = x.side
  BY <1>1, <1>3 DEF OrderSet
<1> HIDE DEF y
<1>6. IsFiniteSet(book') /\ book' \subseteq OrderSet /\ \A z \in book' : z.rem + z.exec <= Qty /\ z.side # "none"
  <2>1. IsFiniteSet(book \ {x}) /\ IsFiniteSet((book \ {x}) \cup {y})
    BY <1>1, FS_RemoveElement, FS_AddElement
  <2> QED
    BY <1>1, <1>3, <1>4, <1>5, <2>1 DEF TypedInv, Reserved
<1>7. Resting(Sells(book)) /\ Rems(Sells(book)) \in Nat /\ Rems(Sells(book)) <= Held /\ Rems(Sells(book')) \in Nat
  BY <1>1, <1>6, SellsRest DEF TypedInv, Reserved
<1>b. \/ byHand' = byHand + n /\ bought' = bought /\ sold' = sold
      \/ x.side = "buy" /\ bought' = bought + n /\ sold' = sold /\ byHand' = byHand
      \/ x.side = "sell" /\ sold' = sold + n /\ bought' = bought /\ byHand' = byHand
  BY <1>1, <1>2, <1>3 DEF Brings, OrderSet
<1>8. bought' \in Nat /\ sold' \in Nat /\ byHand' \in Nat
  BY <1>1, <1>3, <1>b
<1>9. Rems(Sells(book')) <= Held'
  <2>1. CASE x.side = "sell"
    <3>1. x \in Sells(book)
      BY <2>1 DEF Sells
    <3>h. /\ Held \in Int /\ Held' \in Int
          /\ Held' = Held - n \/ Held' = Held + n
      BY <1>1, <1>3, <1>b, <2>1 DEF Held
    <3> DEFINE rest == Sells(book) \ {x}
    <3>2. Rems(rest) = Rems(Sells(book)) - x.rem /\ Resting(rest) /\ Rems(rest) \in Nat
      <4>1. Resting(rest)
        BY <1>7, <3>1, FS_RemoveElement DEF Resting
      <4> QED
        BY <1>7, <3>1, <4>1, RemsFewer, RemsNat
    <3>3. Sells(book') = rest \/ Sells(book') = rest \cup {y}
      BY <1>4, <1>5, <2>1 DEF Sells
    <3> HIDE DEF rest
    <3>4. Rems(rest \cup {y}) <= Rems(rest) + r
      <4>1. Resting(rest) /\ y.rem \in Nat /\ y.rem = r
        BY <1>3, <1>5, <3>2
      <4>2. Rems(rest \cup {y}) <= Rems(rest) + y.rem
        BY <4>1, RemsMore, Zenon
      <4> QED
        BY <4>1, <4>2
    <3>5. CASE Sells(book') = rest
      <4>1. Rems(Sells(book')) = Rems(rest)
        BY <3>5, Zenon
      <4> QED
        BY <1>1, <1>3, <1>7, <3>h, <3>2, <4>1
    <3>6. CASE Sells(book') = rest \cup {y}
      <4>1. Rems(Sells(book')) = Rems(rest \cup {y})
        BY <3>6, Zenon
      <4>2. r \in Int
        BY <1>3
      <4> QED
        BY <1>1, <1>3, <1>7, <3>h, <3>2, <3>4, <4>1, <4>2
    <3> QED
      BY <3>3, <3>5, <3>6
  <2>2. CASE x.side # "sell"
    <3>1. Sells(book') = Sells(book)
      BY <1>4, <1>5, <2>2 DEF Sells
    <3>2. Rems(Sells(book')) = Rems(Sells(book))
      BY <3>1, Zenon
    <3>3. x.side = "buy"
      BY <1>1, <2>2 DEF OrderSet
    <3>4. Held' = Held + n /\ Held \in Int
      BY <1>1, <1>3, <1>b, <3>3 DEF Held
    <3> QED
      BY <1>3, <1>7, <3>2, <3>4
  <2> QED
    BY <2>1, <2>2
<1> QED
  BY <1>6, <1>8, <1>9 DEF Reserved, Sells

\* The bot takes an order for its own only if the listing shows it.
LEMMA MineSeen == ASSUME NEW side, NEW id PROVE Mine(side, id) \in seen \cup {NoOrder}
<1>1. Known(side, id) \subseteq seen /\ Candidates(side) \subseteq seen
  BY DEF Known, Candidates
<1>2. CASE Known(side, id) # {}
  BY <1>1, <1>2 DEF Mine
<1>3. CASE Known(side, id) = {} /\ Cardinality(Candidates(side)) = 1
  <2>1. Candidates(side) # {}
    BY <1>3, FS_EmptySet
  <2>2. Mine(side, id) = CHOOSE x \in Candidates(side) : TRUE
    BY <1>3 DEF Mine
  <2> QED
    BY <2>1, <2>2, <1>1
<1>4. CASE Known(side, id) = {} /\ Cardinality(Candidates(side)) # 1
  BY <1>4 DEF Mine
<1> QED
  BY <1>2, <1>3, <1>4

LEMMA InitRange == ASSUME BracketAssumption, NEW b \in Nat PROVE Ranged(InitState(b))
<1>1. Larger(0, b) \in Nat
  BY DEF Larger
<1> QED
  BY <1>1 DEF InitState, Ranged, OrderIds, None, BracketAssumption

LEMMA DecideFrame ==
  ASSUME NEW s, NEW o, Decide(s, o)
  PROVE  UNCHANGED <<clock, seen, status>>
BY DEF Keep, Save, Decide, BuyFill, BuyWait, BuyPlaceOrHold, BoughtStep, SellFill,
   SellOver, SellPlaceOrHold, Done, Finish, AskFor, BookFill

\* What a decision leaves of the bot has its type.
BotTypes ==
  /\ st \in StateSet \cup {NoState} /\ next \in StateSet \cup {NoState} /\ request \in Requests
  /\ ledger \in Nat /\ cancels \subseteq OrderIds /\ pc \in {"idle", "holdings", "order", "answer", "cleanup"}

LEMMA BotIs == ASSUME TypedInv PROVE BotTypes
BY DEF TypedInv, TypeOK, BotTypes, Requests

LEMMA EndsTyped ==
  ASSUME BracketAssumption, IInv', TypedInv, Ended
  PROVE  BotTypes'
<1>1. PICK t : Ranged(t) /\ Ends(t)
  BY DEF Ended
<1>2. BotTypes
  BY BotIs
<1>3. CASE st' = t /\ UNCHANGED <<next, request>>
  <2>1. st' # NoState => Good(t)
    BY <1>3 DEF IInv, Persisted
  <2>2. st' \in StateSet \cup {NoState}
    BY <1>1, <1>3, <2>1, StatesAre
  <2> QED
    BY <1>2, <1>3, <2>2 DEF BotTypes, Ended
<1>4. CASE pc' = "order" /\ next' = t /\ request' \in Requests /\ UNCHANGED st
  <2>1. Good(t)
    BY <1>4 DEF IInv, InFlight
  <2>2. next' \in StateSet \cup {NoState}
    BY <1>1, <1>4, <2>1, StatesAre
  <2> QED
    BY <1>2, <1>4, <2>2 DEF BotTypes, Ended
<1> QED
  BY <1>1, <1>3, <1>4 DEF Ends

\* Saving an order's state, with the order's id or without it.
LEMMA SavedTyped ==
  ASSUME BracketAssumption, TypedInv, NEW t \in StateSet \cup {NoState}, Keep(t)
  PROVE  BotTypes' /\ UNCHANGED <<clock, seen, status>>
BY BotIs DEF Keep, Save, BotTypes

\* The rest of the types.
WorldTypes ==
  /\ status \in {"running", "stopped"} /\ clock \in [session : Nat, open : BOOLEAN]
  /\ seen \subseteq OrderSet /\ shown \subseteq OrderSet /\ book \subseteq OrderSet
  /\ booted \in BOOLEAN /\ gate \in BOOLEAN /\ open \in BOOLEAN /\ session \in Nat
  /\ bought \in Nat /\ sold \in Nat /\ byHand \in Nat /\ shownAge \in Nat /\ shownHeld \in Nat /\ heldAge \in Nat
  /\ placed \in Nat /\ inSession \in Nat /\ crashes \in Nat /\ stops \in Nat /\ faults \in FaultSets

LEMMA TypesAre == (BotTypes /\ WorldTypes) <=> TypeOK
BY DEF TypeOK, BotTypes, WorldTypes, Requests

LEMMA TypesAreNext == (BotTypes' /\ WorldTypes') <=> TypeOK'
BY DEF TypeOK, BotTypes, WorldTypes, Requests

LEMMA StillReserved == ASSUME TypedInv, UNCHANGED <<book, bought, sold, byHand>> PROVE Reserved'
BY DEF TypedInv, Reserved, Held, Sells

LEMMA HeldIs == ASSUME BracketAssumption, TypedInv PROVE Held \in Nat
<1>1. bought \in Nat /\ sold \in Nat /\ byHand \in Nat /\ Baseline \in Nat /\ book \subseteq OrderSet /\ IsFiniteSet(book)
  BY DEF TypedInv, TypeOK, Reserved, BracketAssumption
<1>2. Rems(Sells(book)) \in Nat /\ Rems(Sells(book)) <= Held /\ Held \in Int
  BY <1>1, SellsRest DEF TypedInv, Reserved, Held
<1> QED
  BY <1>2

LEMMA OrdersAre ==
  ASSUME OrderIds \subseteq Int
  PROVE  OrderSet \subseteq Order /\ \A x \in OrderSet : x.id \in OrderIds
<1>1. 0..Qty \subseteq Int
  OBVIOUS
<1>2. ASSUME NEW x \in OrderSet PROVE x \in Order /\ x.id \in OrderIds
  <2>1. x = [id |-> x.id, side |-> x.side, rem |-> x.rem, exec |-> x.exec]
    BY DEF OrderSet
  <2>2. x.id \in OrderIds /\ x.side \in {"none", "buy", "sell"} /\ x.rem \in 0..Qty /\ x.exec \in 0..Qty
    BY DEF OrderSet
  <2> QED
    BY <1>1, <2>1, <2>2 DEF Order
<1> QED
  BY <1>2

LEMMA ObserveTyped ==
  ASSUME BracketAssumption, IInv, IInv', TypedInv, Observe
  PROVE  TypedInv'
<1> DEFINE s == IF st = NoState THEN InitState(shownHeld') ELSE st
           b == Mine("buy", s.entryId)
           l == IF HasSell THEN Mine("sell", s.exitId) ELSE NoOrder
           dl == Larger(0, shownHeld' - s.baseline)
           o == [grace |-> ~booted, open |-> clock.open, session |-> clock.session,
                 paper |-> FALSE, crossed |-> FALSE, buy |-> b, sell |-> l, delta |-> dl]
<1>1. WorldTypes /\ BotTypes
  BY TypesAre DEF TypedInv
<1>2. shownHeld' \in Nat /\ heldAge' \in Nat
  BY <1>1, HeldIs DEF Observe, ListHoldings, WorldTypes
<1>3. Good(s) /\ Ranged(s)
  BY <1>1, <1>2, InitGood, InitRange, StatesRange DEF IInv, Persisted, BotTypes
<1> HIDE DEF s
<1>4. b \in OrderSet /\ l \in OrderSet /\ OrderSet \subseteq Order /\ \A x \in OrderSet : x.id \in OrderIds
  <2>1. NoOrder \in OrderSet
    BY DEF NoOrder, OrderSet, OrderIds, None, BracketAssumption
  <2>2. OrderIds \subseteq Int
    BY DEF OrderIds, None, Strangers, BracketAssumption
  <2>3. OrderSet \subseteq Order /\ \A x \in OrderSet : x.id \in OrderIds
    BY <2>2, OrdersAre
  <2>4. seen \subseteq OrderSet
    BY <1>1 DEF WorldTypes
  <2>5. b \in OrderSet /\ Mine("sell", s.exitId) \in OrderSet
    BY <2>1, <2>4, MineSeen
  <2> QED
    BY <2>1, <2>3, <2>5
<1>5. dl \in Int
  BY <1>2, <1>3 DEF Larger, Ranged
<1>6. clock.open \in BOOLEAN /\ clock.session \in Nat /\ (~booted) \in BOOLEAN
  BY <1>1 DEF WorldTypes
<1>7. \/ Keep(s) /\ UNCHANGED booted
      \/ Decide(Entered(s, o), o) /\ booted' = TRUE
  BY DEF Observe, s
<1> HIDE DEF b, l, dl
<1>8. Seen(o)
  BY <1>4, <1>5, <1>6 DEF Seen, Observation
<1> HIDE DEF o
<1>9. BotTypes' /\ UNCHANGED <<clock, seen, status>> /\ booted' \in BOOLEAN
  <2>1. CASE Keep(s) /\ UNCHANGED booted
    BY <1>1, <1>3, <2>1, SavedTyped, StatesAre DEF WorldTypes
  <2>2. CASE Decide(Entered(s, o), o) /\ booted' = TRUE
    <3>1. Ended
      BY <1>1, <1>3, <1>8, <2>2, DecideEnds DEF BotTypes
    <3> QED
      BY <2>2, <3>1, EndsTyped, DecideFrame
  <2> QED
    BY <1>7, <2>1, <2>2
<1>10. UNCHANGED <<shown, shownAge, brokerVars, worldVars>>
  BY DEF Observe
<1>11. WorldTypes'
  BY <1>1, <1>2, <1>9, <1>10 DEF WorldTypes, brokerVars, worldVars
<1>12. Reserved' /\ placed' <= MaxOrders
  BY <1>10, StillReserved DEF brokerVars, TypedInv
<1> QED
  BY <1>9, <1>11, <1>12, TypesAreNext DEF TypedInv

LEMMA TickPaperTyped ==
  ASSUME BracketAssumption, IInv, IInv', TypedInv, TickPaper
  PROVE  TypedInv'
<1> DEFINE s == IF st = NoState THEN InitState(0) ELSE st
           o(c) == [grace |-> ~booted, open |-> open, session |-> session,
                    paper |-> TRUE, crossed |-> c, buy |-> NoOrder, sell |-> NoOrder, delta |-> 0]
<1>1. PICK c \in BOOLEAN : Decide(Entered(s, o(c)), o(c))
  BY DEF TickPaper
<1>2. WorldTypes /\ BotTypes
  BY TypesAre DEF TypedInv
<1>3. Good(s) /\ Ranged(s)
  BY <1>2, InitGood, InitRange, StatesRange DEF IInv, Persisted, BotTypes
<1> HIDE DEF s
<1>4. NoOrder \in Order /\ NoOrder.id \in OrderIds /\ open \in BOOLEAN /\ session \in Nat /\ (~booted) \in BOOLEAN
  BY <1>2 DEF NoOrder, Order, OrderIds, None, WorldTypes
<1>5. Seen(o(c))
  BY <1>4 DEF Seen, Observation
<1> HIDE DEF o
<1>6. Ended
  BY <1>1, <1>2, <1>3, <1>5, DecideEnds DEF BotTypes
<1>7. BotTypes' /\ UNCHANGED <<clock, seen, status>>
  BY <1>1, <1>6, EndsTyped, DecideFrame
<1>8. WorldTypes'
  BY <1>2, <1>7 DEF TickPaper, WorldTypes, brokerVars, worldVars, indexVars
<1>9. Reserved' /\ placed' <= MaxOrders
  BY StillReserved DEF TickPaper, brokerVars, TypedInv
<1> QED
  BY <1>7, <1>8, <1>9, TypesAreNext DEF TypedInv

LEMMA AnsweredTyped ==
  ASSUME BracketAssumption, IInv, TypedInv, OrderAnswered \/ OrderRefused \/ AnswerLost
  PROVE  TypedInv'
<1>1. WorldTypes /\ BotTypes
  BY TypesAre DEF TypedInv
<1>2. UNCHANGED <<booted, brokerVars, indexVars, worldVars>> /\ pc \in {"order", "answer"}
  BY DEF OrderAnswered, OrderRefused, AnswerLost
<1>3. next \in StateSet
  <2>1. Good(next)
    BY <1>2 DEF IInv, InFlight
  <2>2. next # NoState
    BY <2>1 DEF Good, State, NoState, Phases
  <2> QED
    BY <1>1, <2>2 DEF BotTypes
<1>4. PICK t \in StateSet : Keep(t)
  <2>1. placed \in OrderIds
    BY <1>1 DEF WorldTypes, TypedInv, OrderIds, None, BracketAssumption
  <2> DEFINE e == [next EXCEPT !.entryId = placed]
             x == [next EXCEPT !.exitId = placed]
  <2>2. e \in StateSet /\ x \in StateSet
    BY <1>3, <2>1 DEF StateSet
  <2>3. Keep(next) \/ Keep(e) \/ Keep(x)
    BY DEF OrderAnswered, OrderRefused, AnswerLost
  <2> HIDE DEF e, x
  <2> QED
    BY <1>3, <2>2, <2>3
<1>5. BotTypes' /\ UNCHANGED <<clock, seen, status>>
  BY <1>4, SavedTyped
<1>6. WorldTypes'
  BY <1>1, <1>2, <1>5 DEF WorldTypes, brokerVars, indexVars, worldVars
<1>7. Reserved' /\ placed' <= MaxOrders
  BY <1>2, StillReserved DEF brokerVars, TypedInv
<1> QED
  BY <1>5, <1>6, <1>7, TypesAreNext DEF TypedInv

LEMMA AcceptedTyped ==
  ASSUME BracketAssumption, TypedInv, OrderAccepted
  PROVE  TypedInv'
<1>1. WorldTypes /\ BotTypes
  BY TypesAre DEF TypedInv
<1> DEFINE y == [id |-> placed + 1, side |-> request.side, rem |-> request.qty, exec |-> 0]
<1>2. y \in OrderSet /\ y.rem + y.exec <= Qty /\ y.side # "none"
  <2>1. placed + 1 \in OrderIds
    BY <1>1 DEF OrderAccepted, WorldTypes, OrderIds, BracketAssumption
  <2>2. request.side \in {"buy", "sell"} /\ request.qty \in 0..Qty /\ Qty \in Nat
    BY <1>1 DEF BotTypes, Requests, BracketAssumption
  <2> QED
    BY <2>1, <2>2 DEF OrderSet
<1>3. book' = book \cup {y} /\ UNCHANGED <<bought, sold, byHand>>
  BY DEF OrderAccepted
<1>4. y.side = "sell" => y.rem <= Held - Rems(Sells(book))
  BY SellableIs DEF OrderAccepted, Accepts
<1> HIDE DEF y
<1>5. Reserved' /\ book' \subseteq OrderSet
  BY <1>2, <1>3, <1>4, Grown
<1>6. placed' \in Nat /\ placed' <= MaxOrders /\ inSession' \in Nat
  BY <1>1 DEF OrderAccepted, WorldTypes, BracketAssumption
<1>7. WorldTypes' /\ BotTypes'
  BY <1>1, <1>5, <1>6 DEF OrderAccepted, WorldTypes, BotTypes, indexVars, worldVars
<1> QED
  BY <1>5, <1>6, <1>7, TypesAreNext DEF TypedInv

\* The operator, the process and the broker.
LEMMA CancelsTyped ==
  ASSUME BracketAssumption, TypedInv, StopBot \/ StartBot \/ CleanedUp
  PROVE  TypedInv'
<1>1. WorldTypes /\ BotTypes
  BY TypesAre DEF TypedInv
<1>2. status' \in {"running", "stopped"} /\ cancels' \subseteq OrderIds /\ stops' \in Nat /\ pc' \in {pc, "idle"}
  <2>1. CASE StopBot
    <3>1. /\ st # NoState => {st.entryId, st.exitId} \ {None} \subseteq OrderIds
          /\ cancels \subseteq OrderIds
      BY <1>1 DEF BotTypes, StateSet
    <3>2. cancels' \subseteq OrderIds
      BY <2>1, <3>1 DEF StopBot
    <3>3. status' = "stopped" /\ stops' = stops + 1 /\ pc' = pc
      BY <2>1 DEF StopBot, tickVars
    <3> QED
      BY <1>1, <3>2, <3>3 DEF WorldTypes
  <2>2. CASE StartBot
    BY <1>1, <2>2 DEF StartBot, BotTypes, WorldTypes, worldVars, tickVars
  <2>3. CASE CleanedUp
    BY <1>1, <2>3 DEF CleanedUp, BotTypes, WorldTypes, worldVars
  <2> QED
    BY <2>1, <2>2, <2>3
<1>3. UNCHANGED <<st, clock, seen, next, request, booted, ledger, book, bought, sold, byHand, placed, inSession,
                  indexVars, gate, session, open, crashes, faults>>
  BY DEF StopBot, StartBot, CleanedUp, brokerVars, worldVars, tickVars
<1>4. WorldTypes' /\ BotTypes'
  BY <1>1, <1>2, <1>3 DEF WorldTypes, BotTypes, indexVars
<1> QED
  BY <1>3, <1>4, StillReserved, TypesAreNext DEF TypedInv

LEMMA WorldTyped ==
  ASSUME BracketAssumption, TypedInv, Crash \/ MarketTurns \/ NewSession \/ GateTurns \/ QueryFails \/ UNCHANGED vars
  PROVE  TypedInv'
<1>1. WorldTypes /\ BotTypes
  BY TypesAre DEF TypedInv
<1>2. UNCHANGED <<st, status, clock, seen, next, request, ledger, book, bought, sold, byHand, placed,
                  shown, shownAge, shownHeld, heldAge, stops, faults>>
  BY DEF Crash, MarketTurns, NewSession, GateTurns, QueryFails, vars, brokerVars, indexVars, worldVars, tickVars
<1>3. /\ pc' \in {pc, "idle"} /\ booted' \in BOOLEAN /\ cancels' \in {cancels, {}} /\ gate' \in BOOLEAN
      /\ open' \in BOOLEAN /\ session' \in Nat /\ inSession' \in Nat /\ crashes' \in Nat
  <2>1. CASE Crash
    <3>1. pc' = "idle" /\ booted' = FALSE /\ cancels' = {} /\ crashes' = crashes + 1
          /\ gate' = gate /\ open' = open /\ session' = session /\ inSession' = inSession
      BY <2>1 DEF Crash, brokerVars
    <3>2. booted' \in BOOLEAN /\ gate' \in BOOLEAN /\ open' \in BOOLEAN
      BY <1>1, <3>1, Zenon DEF WorldTypes
    <3>3. session' \in Nat /\ inSession' \in Nat /\ crashes' \in Nat
      BY <1>1, <3>1 DEF WorldTypes
    <3>4. pc' \in {pc, "idle"} /\ cancels' \in {cancels, {}}
      BY <3>1
    <3> QED
      BY <3>2, <3>3, <3>4
  <2>2. CASE MarketTurns
    BY <1>1, <2>2 DEF MarketTurns, WorldTypes, BotTypes, brokerVars, tickVars
  <2>3. CASE NewSession
    BY <1>1, <2>3 DEF NewSession, WorldTypes, BotTypes, tickVars
  <2>4. CASE GateTurns
    BY <1>1, <2>4 DEF GateTurns, WorldTypes, BotTypes, brokerVars, tickVars
  <2>5. CASE QueryFails
    BY <1>1, <2>5 DEF QueryFails, WorldTypes, BotTypes, brokerVars, worldVars
  <2>6. CASE UNCHANGED vars
    BY <1>1, <2>6 DEF vars, WorldTypes, BotTypes
  <2> QED
    BY <2>1, <2>2, <2>3, <2>4, <2>5, <2>6
<1>4. WorldTypes' /\ BotTypes'
  BY <1>1, <1>2, <1>3 DEF WorldTypes, BotTypes
<1> QED
  BY <1>2, <1>4, StillReserved, TypesAreNext DEF TypedInv

LEMMA ListedTyped ==
  ASSUME BracketAssumption, TypedInv, TickLive
  PROVE  TypedInv'
<1>1. WorldTypes /\ BotTypes
  BY TypesAre DEF TypedInv
<1>2. shown' \subseteq OrderSet /\ seen' \subseteq OrderSet /\ shownAge' \in Nat
  BY <1>1 DEF TickLive, ListOrders, WorldTypes
<1>3. clock' \in [session : Nat, open : BOOLEAN] /\ pc' = "holdings"
  BY <1>1 DEF TickLive, WorldTypes
<1>4. UNCHANGED <<st, status, next, request, booted, ledger, cancels, shownHeld, heldAge, brokerVars, worldVars>>
  BY DEF TickLive
<1>5. WorldTypes' /\ BotTypes'
  BY <1>1, <1>2, <1>3, <1>4 DEF WorldTypes, BotTypes, brokerVars, worldVars
<1> QED
  BY <1>4, <1>5, StillReserved, TypesAreNext DEF TypedInv, brokerVars

LEMMA BookTyped ==
  ASSUME BracketAssumption, TypedInv,
         EnterByHand \/ (\E id \in cancels : CancelResting(id)) \/ (\E x \in book : Execute(x) \/ Expire(x))
  PROVE  TypedInv'
<1>1. WorldTypes /\ BotTypes
  BY TypesAre DEF TypedInv
<1>2. /\ UNCHANGED <<st, status, tickVars, booted, ledger, placed, inSession, indexVars, worldVars>>
      /\ cancels' \subseteq cancels
  BY DEF EnterByHand, CancelResting, Execute, Expire
<1>3. Reserved' /\ book' \subseteq OrderSet /\ bought' \in Nat /\ sold' \in Nat /\ byHand' \in Nat
  <2>1. CASE EnterByHand
    <3>n. PICK id \in Strangers, n \in 1..Qty :
            book' = book \cup {[id |-> id, side |-> "buy", rem |-> n, exec |-> 0]}
      BY <2>1 DEF EnterByHand
    <3> DEFINE y == [id |-> id, side |-> "buy", rem |-> n, exec |-> 0]
    <3>1. y \in OrderSet /\ y.rem + y.exec <= Qty /\ y.side = "buy"
      BY DEF OrderSet, OrderIds, BracketAssumption
    <3>2. book' = book \cup {y} /\ UNCHANGED <<bought, sold, byHand>>
      BY <2>1, <3>n DEF EnterByHand
    <3> HIDE DEF y
    <3> QED
      BY <1>1, <3>1, <3>2, Grown DEF WorldTypes
  <2>2. CASE \E id \in cancels : CancelResting(id)
    <3>1. book' \subseteq book /\ UNCHANGED <<bought, sold, byHand>>
      BY <2>2 DEF CancelResting
    <3> QED
      BY <1>1, <3>1, Shrunk DEF WorldTypes
  <2>3. CASE \E x \in book : Execute(x)
    BY <2>3, ExecutedReserves
  <2>4. CASE \E x \in book : Expire(x)
    <3>1. book' \subseteq book /\ UNCHANGED <<bought, sold, byHand>>
      BY <2>4 DEF Expire
    <3> QED
      BY <1>1, <3>1, Shrunk DEF WorldTypes
  <2> QED
    BY <2>1, <2>2, <2>3, <2>4
<1>4. WorldTypes' /\ BotTypes'
  BY <1>1, <1>2, <1>3 DEF WorldTypes, BotTypes, indexVars, worldVars, tickVars
<1> QED
  BY <1>2, <1>3, <1>4, TypesAreNext DEF TypedInv

LEMMA TypesKept ==
  ASSUME BracketAssumption, IInv, IInv', TypedInv, [Next]_vars
  PROVE  TypedInv'
BY ObserveTyped, TickPaperTyped, AnsweredTyped, AcceptedTyped, CancelsTyped, WorldTyped, ListedTyped,
   BookTyped DEF Next, Bot

LEMMA InitTyped == BracketAssumption /\ Init => TypedInv
<1> SUFFICES ASSUME BracketAssumption, Init PROVE TypedInv
  OBVIOUS
<1>1. BotTypes
  BY DEF Init, BotTypes, Requests, BracketAssumption
<1>2. gate \in BOOLEAN
  BY DEF Init
<1>3. clock \in [session : Nat, open : BOOLEAN]
  BY DEF Init
<1>4. WorldTypes
  BY <1>2, <1>3 DEF Init, WorldTypes, BracketAssumption
<1>5. Rems(Sells(book)) = 0 /\ IsFiniteSet(book)
  <2>1. Sells(book) = {} /\ book = {}
    BY DEF Init, Sells
  <2>2. Rems({}) = 0
    BY FS_EmptySet, RemsStep
  <2> QED
    BY <2>1, <2>2, FS_EmptySet
<1>6. Reserved /\ placed <= MaxOrders
  BY <1>5 DEF Init, Reserved, Held, BracketAssumption
<1> QED
  BY <1>1, <1>4, <1>6, TypesAre DEF TypedInv

\* Every variable keeps its type and every counter its limit, for every value
\* of the constants and every set of faults: the account never holds less
\* than its resting sales reserve, so that no listing shows a debt.
THEOREM BracketTyped == ASSUME BracketAssumption PROVE Spec => []TypeOK
<1>1. Init => IInv /\ TypedInv
  BY InitIInv, InitTyped
<1>2. IInv /\ TypedInv /\ [Next]_vars => (IInv /\ TypedInv)'
  BY StepKept, TypesKept
<1>3. TypedInv => TypeOK
  BY DEF TypedInv
<1> QED
  BY <1>1, <1>2, <1>3, PTL DEF Spec
=============================================================================
