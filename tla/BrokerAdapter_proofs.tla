------------------------ MODULE BrokerAdapter_proofs ------------------------
(***************************************************************************)
(* That no adapter orders twice in one call or sends a token that has run  *)
(* out, that its results are true of the exchange and its orders leave as  *)
(* asked, for every set of requests, number of tries, life of a token and  *)
(* margin the adapter keeps from its end.                                  *)
(***************************************************************************)
EXTENDS BrokerAdapter, FiniteSetTheorems, TLAPS

-----------------------------------------------------------------------------
(* The rounding of limit prices does what the Korean exchange wants of it, *)
(* for every price: a rounded price that reaches the next band lies on     *)
(* that band's grid too, and no grid is missed by more than half a step.   *)

\* The steps of the grid (krxTick).
TickSteps == {1, 5, 10, 50, 100, 500, 1000}

\* What rounding to a step of t returns: the multiple k * t nearest to p.
LEMMA RoundToIsNearest ==
  ASSUME NEW p \in Nat, NEW t \in TickSteps
  PROVE  /\ \E k \in Nat : RoundTo(p, t) = k * t
         /\ 2 * RoundTo(p, t) <= 2 * p + t
         /\ 2 * p - t < 2 * RoundTo(p, t)
<1> DEFINE k == (2 * p + t) \div (2 * t)
<1>1. k \in Nat /\ RoundTo(p, t) = k * t
  BY SMT DEF RoundTo, TickSteps
<1>2. 2 * (k * t) <= 2 * p + t /\ 2 * p - t < 2 * (k * t)
  <2>1. CASE t = 1    BY SMT, <2>1
  <2>2. CASE t = 5    BY SMT, <2>2
  <2>3. CASE t = 10   BY SMT, <2>3
  <2>4. CASE t = 50   BY SMT, <2>4
  <2>5. CASE t = 100  BY SMT, <2>5
  <2>6. CASE t = 500  BY SMT, <2>6
  <2>7. CASE t = 1000 BY SMT, <2>7
  <2> QED BY SMT, <2>1, <2>2, <2>3, <2>4, <2>5, <2>6, <2>7 DEF TickSteps
<1> HIDE DEF k
<1> QED BY SMT, <1>1, <1>2

\* A price rounded on the grid of its own band stays in the band or is the
\* first price of the next one, whose step divides it.
LEMMA BandKept ==
  ASSUME NEW p \in Nat, p > 0, NEW k \in Nat, NEW r, r = k * KrxTick(p),
         2 * r <= 2 * p + KrxTick(p), 2 * p - KrxTick(p) < 2 * r
  PROVE  r % KrxTick(r) = 0
<1>1. CASE p < 2000
  <2>1. KrxTick(p) = 1 BY SMT, <1>1 DEF KrxTick
  <2>2. r = p BY SMT, <2>1
  <2> QED BY SMT, <2>1, <2>2
<1>2. CASE p >= 2000 /\ p < 5000
  <2>1. KrxTick(p) = 5 BY SMT, <1>2 DEF KrxTick
  <2>2. r = 5 * k /\ r \in Nat /\ r >= 2000 /\ r <= 5000 BY SMT, <2>1, <1>2
  <2>3. KrxTick(r) = IF r < 5000 THEN 5 ELSE 10 BY SMT, <2>2 DEF KrxTick
  <2> QED BY SMT, <2>2, <2>3
<1>3. CASE p >= 5000 /\ p < 20000
  <2>1. KrxTick(p) = 10 BY SMT, <1>3 DEF KrxTick
  <2>2. r = 10 * k /\ r \in Nat /\ r >= 5000 /\ r <= 20000 BY SMT, <2>1, <1>3
  <2>3. KrxTick(r) = IF r < 20000 THEN 10 ELSE 50 BY SMT, <2>2 DEF KrxTick
  <2> QED BY SMT, <2>2, <2>3
<1>4. CASE p >= 20000 /\ p < 50000
  <2>1. KrxTick(p) = 50 BY SMT, <1>4 DEF KrxTick
  <2>2. r = 50 * k /\ r \in Nat /\ r >= 20000 /\ r <= 50000 BY SMT, <2>1, <1>4
  <2>3. KrxTick(r) = IF r < 50000 THEN 50 ELSE 100 BY SMT, <2>2 DEF KrxTick
  <2> QED BY SMT, <2>2, <2>3
<1>5. CASE p >= 50000 /\ p < 200000
  <2>1. KrxTick(p) = 100 BY SMT, <1>5 DEF KrxTick
  <2>2. r = 100 * k /\ r \in Nat /\ r >= 50000 /\ r <= 200000 BY SMT, <2>1, <1>5
  <2>3. KrxTick(r) = IF r < 200000 THEN 100 ELSE 500 BY SMT, <2>2 DEF KrxTick
  <2> QED BY SMT, <2>2, <2>3
<1>6. CASE p >= 200000 /\ p < 500000
  <2>1. KrxTick(p) = 500 BY SMT, <1>6 DEF KrxTick
  <2>2. r = 500 * k /\ r \in Nat /\ r >= 200000 /\ r <= 500000 BY SMT, <2>1, <1>6
  <2>3. KrxTick(r) = IF r < 500000 THEN 500 ELSE 1000 BY SMT, <2>2 DEF KrxTick
  <2> QED BY SMT, <2>2, <2>3
<1>7. CASE p >= 500000
  <2>1. KrxTick(p) = 1000 BY SMT, <1>7 DEF KrxTick
  <2>2. r = 1000 * k /\ r \in Nat /\ r >= 500000 BY SMT, <2>1, <1>7
  <2>3. KrxTick(r) = 1000 BY SMT, <2>2 DEF KrxTick
  <2> QED BY SMT, <2>2, <2>3
<1> QED BY SMT, <1>1, <1>2, <1>3, <1>4, <1>5, <1>6, <1>7

\* Every price has one of these steps.
LEMMA Steps ==
  ASSUME NEW p \in Nat
  PROVE  KrxTick(p) \in TickSteps
BY SMT DEF KrxTick, TickSteps

\* Every positive limit price the Korean adapters round (krx-tick.ts) ends up
\* on the grid of the band it then lies in: the exchange never refuses it for
\* its grid (RC4003 in krx-tick.ts:3), also at the edge of a band.
THEOREM RoundedOnTick ==
  \A p \in Nat \ {0} : RoundToKrxTick(p) % KrxTick(RoundToKrxTick(p)) = 0
<1> TAKE p \in Nat \ {0}
<1>1. RoundToKrxTick(p) = RoundTo(p, KrxTick(p)) BY SMT DEF RoundToKrxTick
<1>2. KrxTick(p) \in TickSteps BY SMT, Steps
<1>3. PICK k \in Nat : RoundTo(p, KrxTick(p)) = k * KrxTick(p)
  BY SMT, <1>2, RoundToIsNearest
<1>4. /\ 2 * RoundTo(p, KrxTick(p)) <= 2 * p + KrxTick(p)
      /\ 2 * p - KrxTick(p) < 2 * RoundTo(p, KrxTick(p))
  BY SMT, <1>2, RoundToIsNearest
<1> QED BY SMT, <1>1, <1>3, <1>4, BandKept

\* And it is the nearest such price: within half a step of the one asked for.
THEOREM RoundedIsNear ==
  \A p \in Nat \ {0} : /\ 2 * RoundToKrxTick(p) <= 2 * p + KrxTick(p)
                       /\ 2 * p - KrxTick(p) < 2 * RoundToKrxTick(p)
<1> TAKE p \in Nat \ {0}
<1>1. RoundToKrxTick(p) = RoundTo(p, KrxTick(p)) BY SMT DEF RoundToKrxTick
<1>2. KrxTick(p) \in TickSteps BY SMT, Steps
<1> QED BY SMT, <1>1, <1>2, RoundToIsNearest

-----------------------------------------------------------------------------
(* The invariant of the adapters.                                          *)

Stages == {"idle", "filters", "hash", "token", "joined", "minting", "send", "sent", "done"}
Verdicts == {"none", "threw", "null", "true", "false", "oco", "seen", "zero", "cashless", "filled", "pending", "rejected"}
Asks   == {Nothing} \cup UNION {Requests[c] : c \in Calls}
Bodies == {Nothing} \cup {Body(b, a, f) : b \in Brokers, a \in Asks, f \in {"none", "real", "blank"}}
                    \cup {OcoBody(a, f) : a \in Asks, f \in {"none", "real", "blank"}}

CallRecords == [pc : Stages, ask : Asks, tries : 0..(Attempts - 1), age : 0..1, good : 0..Ttl,
                kind : Verdicts, ex : 0..2]
Adapters    == [exp : 0..Ttl, real : 0..Ttl, minter : SUBSET Calls, filters : {"none", "real", "blank"}]
Taken       == [st : {"none", "refused", "open", "filled", "dead", "done"}, ex : 0..2, n : 0..1,
                legs : SUBSET {"tp", "sl"}, body : Bodies]

Types ==
  /\ setup \in Setups
  /\ call \in [Calls -> CallRecords]
  /\ inst \in [Calls -> Adapters]
  /\ net \in [Calls -> {"no", "flying", "in"}]
  /\ book \in [Calls -> Taken]

\* A POST is on its way at most once: what has left is waited for or given up,
\* never sent again, and only what has arrived makes an order.
SentOnce(c) ==
  /\ net[c] # "no" => call[c].pc \in {"sent", "done"} /\ call[c].ask.op \in Posts
  /\ book[c].n = 1 => net[c] = "in"

\* The adapter dates a token at most one timeout later than the exchange does,
\* so one it still uses has two timeouts to go when the request leaves.
TokenDated(i) == inst[i].exp > 0 => inst[i].real >= inst[i].exp - 1
TokenLasts(c) ==
  /\ call[c].pc = "filters" => setup.broker \in Binance
  /\ call[c].pc = "minting" => call[c].good = Ttl - call[c].age
  /\ call[c].pc = "send" /\ setup.broker \in Minters => call[c].good >= 2
  /\ call[c].pc = "sent" /\ setup.broker \in Minters => call[c].good >= 2 - call[c].age

AInv == Types /\ \A c \in Calls : SentOnce(c) /\ TokenDated(c) /\ TokenLasts(c)

-----------------------------------------------------------------------------
LEMMA OtherIsCall == ASSUME NEW c \in Calls PROVE Other(c) \in Calls /\ Other(c) # c
<1>1. \E d \in Calls : d # c
  <2> SUFFICES ASSUME \A d \in Calls : d = c PROVE FALSE
    OBVIOUS
  <2>1. Calls = {c}
    OBVIOUS
  <2>2. Cardinality({c}) = 1
    BY FS_Singleton
  <2> QED BY <2>1, <2>2, Bounds
<1> QED BY <1>1 DEF Other

LEMMA ObjectIsCall == ASSUME NEW c \in Calls PROVE Object(c) \in Calls
  BY DEF Object

LEMMA BrokerKnown ==
  ASSUME setup \in Setups
  PROVE  setup.broker \in Binance \cup Minters /\ ~(setup.broker \in Binance /\ setup.broker \in Minters)
  BY Bounds DEF Setups, Binance, Minters

\* A call that ends has the result it was given.
LEMMA EndsIsRecord ==
  ASSUME Types, NEW c \in Calls, NEW k \in Verdicts, NEW e \in 0..2
  PROVE  /\ Ends(c, k, e) \in CallRecords
         /\ Ends(c, k, e).pc = "done" /\ Ends(c, k, e).ask = call[c].ask
<1>1. call[c] \in CallRecords
  BY DEF Types
<1>2. 0 \in 0..(Attempts - 1) /\ 0 \in 0..Ttl /\ 0 \in 0..1 /\ "done" \in Stages
  BY Bounds DEF Stages
<1> QED BY <1>1, <1>2 DEF Ends, CallRecords

\* Whatever the answer, a request that is not tried again ends its call.
LEMMA ResultEnds ==
  ASSUME Types, NEW c \in Calls, NEW ans
  PROVE  \E k \in Verdicts, e \in 0..2 : Result(c, ans) = Ends(c, k, e)
<1> DEFINE Over(r) == \E k \in Verdicts, e \in 0..2 : r = Ends(c, k, e)
<1>1. book[c].ex \in 0..2 /\ book[Other(c)].ex \in 0..2 /\ 0 \in 0..2
  BY OtherIsCall DEF Types, Taken
<1>2. ASSUME NEW k \in Verdicts, NEW e \in 0..2 PROVE Over(Ends(c, k, e))
  OBVIOUS
<1> HIDE DEF Over
<1>3. \A w : MapStatus(w) \in Verdicts /\ Placed(w, book[c].ex) \in Verdicts
  BY DEF MapStatus, Placed, Verdicts
<1>4. Over(BinanceOrder(c, ans)) /\ Over(KisOrder(c, ans)) /\ Over(KiwoomOrder(c, ans)) /\ Over(TossOrder(c, ans))
  BY <1>1, <1>2, <1>3 DEF BinanceOrder, KisOrder, KiwoomOrder, TossOrder, Verdicts
<1>5. Over(BinanceCancel(c, ans)) /\ Over(KisCancel(c, ans)) /\ Over(KiwoomCancel(c, ans)) /\ Over(TossCancel(c, ans))
  BY <1>1, <1>2 DEF BinanceCancel, KisCancel, KiwoomCancel, ByItsWord, TossCancel, Verdicts
<1>6. Over(BinanceQuery(c, ans))
  BY <1>1, <1>2, <1>3 DEF BinanceQuery, Queried, Verdicts
<1>7. Over(TossQuery(c, ans))
  BY <1>1, <1>2 DEF TossQuery, Queried, Verdicts
<1>8. Over(OcoResult(c, ans)) /\ Over(OpenOco(c, ans))
  BY <1>1, <1>2 DEF OcoResult, OpenOco, Verdicts
<1>9. Over(BinanceRead(c, ans)) /\ Over(KisRead(c, ans)) /\ Over(KiwoomRead(c, ans)) /\ Over(TossRead(c, ans))
  BY <1>1, <1>2 DEF BinanceRead, KisRead, KiwoomRead, TossRead, Verdicts
<1>10. Over(Result(c, ans))
  BY <1>4, <1>5, <1>6, <1>7, <1>8, <1>9 DEF Result
<1> QED BY <1>10 DEF Over
-----------------------------------------------------------------------------
LEMMA InitKeeps == Init => AInv
<1> SUFFICES ASSUME Init PROVE AInv
  OBVIOUS
<1>1. Fresh \in CallRecords /\ NewAdapter \in Adapters /\ NoOrder \in Taken
  <2>1. Nothing \in Asks /\ Nothing \in Bodies
    BY DEF Asks, Bodies
  <2>2. 0 \in 0..(Attempts - 1) /\ 0 \in 0..Ttl
    BY Bounds
  <2> QED BY <2>1, <2>2 DEF Fresh, NewAdapter, NoOrder, CallRecords, Adapters, Taken, Stages, Verdicts
<1>2. Types
  BY <1>1 DEF Init, Types
<1>3. \A c \in Calls : SentOnce(c) /\ TokenDated(c) /\ TokenLasts(c)
  BY DEF Init, SentOnce, TokenDated, TokenLasts, Fresh, NewAdapter, NoOrder
<1> QED BY <1>2, <1>3 DEF AInv

\* What a step of one call that leaves the exchange and the adapters alone has
\* to show: that its own record is right.
LEMMA OwnStep ==
  ASSUME AInv, NEW c \in Calls, NEW r \in CallRecords, Put(c, r), UNCHANGED <<setup, inst, net, book>>,
         net[c] # "no" => r.pc \in {"sent", "done"} /\ r.ask.op \in Posts,
         r.pc = "filters" => setup.broker \in Binance,
         r.pc = "minting" => r.good = Ttl - r.age,
         r.pc = "send" /\ setup.broker \in Minters => r.good >= 2,
         r.pc = "sent" /\ setup.broker \in Minters => r.good >= 2 - r.age
  PROVE  AInv'
<1>1. call' \in [Calls -> CallRecords] /\ call'[c] = r /\ \A d \in Calls \ {c} : call'[d] = call[d]
  BY DEF AInv, Types, Put
<1>2. Types'
  BY <1>1 DEF AInv, Types
<1>3. ASSUME NEW d \in Calls PROVE SentOnce(d)' /\ TokenDated(d)' /\ TokenLasts(d)'
  BY <1>1 DEF AInv, SentOnce, TokenDated, TokenLasts
<1> QED BY <1>2, <1>3 DEF AInv

\* Moving on to another await keeps the record's other fields.
LEMMA AtIsRecord ==
  ASSUME Types, NEW c \in Calls, NEW p \in Stages
  PROVE  /\ At(c, p) \in CallRecords
         /\ At(c, p).pc = p /\ At(c, p).age = 0 /\ At(c, p).ask = call[c].ask /\ At(c, p).good = call[c].good
<1>1. call[c] \in CallRecords /\ 0 \in 0..1
  BY DEF Types
<1> QED BY <1>1 DEF At, CallRecords

LEMMA CallKeeps == ASSUME AInv, NEW c \in Calls, Call(c) PROVE AInv'
<1>1. PICK a \in {q \in Requests[c] : Offers(setup.broker, q.op)}, master \in (IF setup.broker = "toss" THEN BOOLEAN ELSE {TRUE}) :
        Put(c, IF Blocked(setup.broker, a, master) THEN [[call[c] EXCEPT !.ask = a] EXCEPT !.pc = "done", !.kind = "threw"]
               ELSE IF a.op = "openOco" /\ setup.broker # "spot" THEN [[call[c] EXCEPT !.ask = a] EXCEPT !.pc = "done", !.kind = "null"]
               ELSE [[call[c] EXCEPT !.ask = a] EXCEPT !.pc = First(setup.broker, a)])
  BY DEF Call
<1>2. call[c] \in CallRecords /\ call[c].pc = "idle" /\ a \in Asks /\ net[c] = "no" /\ UNCHANGED <<setup, inst, net, book>>
  BY DEF Call, AInv, Types, SentOnce, Asks
<1>3. /\ First(setup.broker, a) \in {"hash", "token", "filters", "send"}
      /\ First(setup.broker, a) = "filters" => setup.broker \in Binance
      /\ First(setup.broker, a) = "send" => setup.broker \notin Minters
  BY BrokerKnown DEF First, AInv, Types
<1> DEFINE Began(p, k) == [[call[c] EXCEPT !.ask = a] EXCEPT !.pc = p, !.kind = k]
<1>4. ASSUME NEW p \in Stages, NEW k \in Verdicts
      PROVE  Began(p, k) \in CallRecords /\ Began(p, k).pc = p
  BY <1>2, <1>4 DEF CallRecords
<1>5. /\ Began("done", "threw") \in CallRecords /\ Began("done", "threw").pc = "done"
      /\ Began("done", "null") \in CallRecords /\ Began("done", "null").pc = "done"
  BY <1>4 DEF Stages, Verdicts
<1> DEFINE r == [[call[c] EXCEPT !.ask = a] EXCEPT !.pc = First(setup.broker, a)]
<1>6. r \in CallRecords /\ r.pc = First(setup.broker, a)
  BY <1>2, <1>3 DEF CallRecords, Stages
<1>7. CASE Put(c, Began("done", "threw"))
  <2> HIDE DEF Began
  <2> QED BY <1>2, <1>5, <1>7, OwnStep
<1>8. CASE Put(c, Began("done", "null"))
  <2> HIDE DEF Began
  <2> QED BY <1>2, <1>5, <1>8, OwnStep
<1>9. CASE Put(c, r)
  <2> HIDE DEF r
  <2> QED BY <1>2, <1>3, <1>6, <1>9, OwnStep
<1> QED BY <1>1, <1>7, <1>8, <1>9

LEMMA FiltersKeeps == ASSUME AInv, NEW c \in Calls, Filters(c) PROVE AInv'
<1> DEFINE o == Object(c)
<1>1. o \in Calls /\ call[c] \in CallRecords /\ call[c].pc = "filters" /\ net[c] = "no" /\ setup.broker \in Binance
      /\ setup.broker \notin Minters /\ UNCHANGED <<setup, net, book>>
  BY ObjectIsCall, BrokerKnown DEF Filters, AInv, Types, SentOnce, TokenLasts
<1>2. CASE inst' = inst /\ Put(c, Ends(c, "threw", 0))
  <2>1. Ends(c, "threw", 0) \in CallRecords /\ Ends(c, "threw", 0).pc = "done"
    BY EndsIsRecord DEF AInv, Verdicts
  <2> QED BY <1>1, <1>2, <2>1, OwnStep
<1>3. CASE inst' = inst /\ Put(c, [At(c, "send") EXCEPT !.tries = 0])
  <2>1. At(c, "send") \in CallRecords /\ At(c, "send").pc = "send"
    BY AtIsRecord DEF AInv, Stages
  <2>2. [At(c, "send") EXCEPT !.tries = 0] \in CallRecords /\ [At(c, "send") EXCEPT !.tries = 0].pc = "send"
    BY <2>1, Bounds DEF CallRecords
  <2> QED BY <1>1, <1>3, <2>2, OwnStep
<1>4. CASE \E how \in {"lost", "4xx", "5xx"} : Again(c, how) /\ inst' = inst /\ Put(c, [call[c] EXCEPT !.tries = @ + 1])
  <2>1. [call[c] EXCEPT !.tries = @ + 1] \in CallRecords /\ [call[c] EXCEPT !.tries = @ + 1].pc = "filters"
    BY <1>1, <1>4, Bounds DEF CallRecords, Again
  <2> QED BY <1>1, <1>4, <2>1, OwnStep
<1>5. CASE \E f \in {"real", "blank"} : inst' = [inst EXCEPT ![o].filters = f] /\ UNCHANGED call
  <2>1. inst' \in [Calls -> Adapters] /\ \A d \in Calls : inst'[d].exp = inst[d].exp /\ inst'[d].real = inst[d].real
    BY <1>1, <1>5 DEF AInv, Types, Adapters
  <2>2. Types'
    BY <1>1, <1>5, <2>1 DEF AInv, Types
  <2>3. ASSUME NEW d \in Calls PROVE SentOnce(d)' /\ TokenDated(d)' /\ TokenLasts(d)'
    BY <1>1, <1>5, <2>1 DEF AInv, SentOnce, TokenDated, TokenLasts
  <2> QED BY <2>2, <2>3 DEF AInv
<1>6. \/ inst' = inst /\ Put(c, Ends(c, "threw", 0))
      \/ inst' = inst /\ Put(c, [At(c, "send") EXCEPT !.tries = 0])
      \/ \E how \in {"lost", "4xx", "5xx"} : Again(c, how) /\ inst' = inst /\ Put(c, [call[c] EXCEPT !.tries = @ + 1])
      \/ \E f \in {"real", "blank"} : inst' = [inst EXCEPT ![o].filters = f] /\ UNCHANGED call
  BY DEF Filters
<1> QED BY <1>2, <1>3, <1>4, <1>5, <1>6

LEMMA HashKeeps == ASSUME AInv, NEW c \in Calls, Hash(c) PROVE AInv'
<1>1. call[c].pc = "hash" /\ net[c] = "no" /\ UNCHANGED <<setup, inst, net, book>>
  BY DEF Hash, AInv, Types, SentOnce
<1>2. At(c, "token") \in CallRecords /\ At(c, "token").pc = "token"
  BY AtIsRecord DEF AInv, Stages
<1>3. Ends(c, "threw", 0) \in CallRecords /\ Ends(c, "threw", 0).pc = "done"
  BY EndsIsRecord DEF AInv, Verdicts
<1>4. Put(c, At(c, "token")) \/ Put(c, Ends(c, "threw", 0))
  BY DEF Hash
<1> QED BY <1>1, <1>2, <1>3, <1>4, OwnStep

LEMMA UseTokenKeeps == ASSUME AInv, NEW c \in Calls, UseToken(c) PROVE AInv'
<1> DEFINE r == [At(c, "send") EXCEPT !.good = inst[Object(c)].real]
<1>1. call[c].pc = "token" /\ net[c] = "no" /\ UNCHANGED <<setup, inst, net, book>>
  BY DEF UseToken, AInv, Types, SentOnce
<1>2. inst[Object(c)] \in Adapters /\ inst[Object(c)].exp > Skew /\ inst[Object(c)].real >= inst[Object(c)].exp - 1
  BY ObjectIsCall, Bounds DEF UseToken, TokenValid, AInv, Types, TokenDated, Adapters
<1>3. At(c, "send") \in CallRecords /\ At(c, "send").pc = "send"
  BY AtIsRecord DEF AInv, Stages
<1>4. r \in CallRecords /\ r.pc = "send" /\ r.good >= 2
  BY <1>2, <1>3, Bounds DEF CallRecords, Adapters
<1>5. Put(c, r)
  BY DEF UseToken
<1> HIDE DEF r
<1> QED BY <1>1, <1>4, <1>5, OwnStep

LEMMA JoinMintKeeps == ASSUME AInv, NEW c \in Calls, JoinMint(c) PROVE AInv'
<1>1. call[c].pc = "token" /\ net[c] = "no" /\ Put(c, At(c, "joined")) /\ UNCHANGED <<setup, inst, net, book>>
  BY DEF JoinMint, AInv, Types, SentOnce
<1>2. At(c, "joined") \in CallRecords /\ At(c, "joined").pc = "joined"
  BY AtIsRecord DEF AInv, Stages
<1> QED BY <1>1, <1>2, OwnStep

LEMMA StartMintKeeps == ASSUME AInv, NEW c \in Calls, StartMint(c) PROVE AInv'
<1> DEFINE r == [At(c, "minting") EXCEPT !.good = Ttl]
<1>1. call[c].pc = "token" /\ net[c] = "no" /\ UNCHANGED <<setup, net, book>> /\ call' = [call EXCEPT ![c] = r]
  BY DEF StartMint, Put, AInv, Types, SentOnce
<1>2. At(c, "minting") \in CallRecords /\ At(c, "minting").pc = "minting" /\ At(c, "minting").age = 0
  BY AtIsRecord DEF AInv, Stages
<1>3. r \in CallRecords /\ r.pc = "minting" /\ r.good = Ttl - r.age
  BY <1>2, Bounds DEF CallRecords
<1>4. inst' \in [Calls -> Adapters] /\ \A d \in Calls : inst'[d].exp = inst[d].exp /\ inst'[d].real = inst[d].real
  BY ObjectIsCall DEF StartMint, AInv, Types, Adapters
<1> HIDE DEF r
<1>5. Types' /\ call'[c] = r /\ \A d \in Calls \ {c} : call'[d] = call[d]
  BY <1>1, <1>3, <1>4 DEF AInv, Types
<1>6. ASSUME NEW d \in Calls PROVE SentOnce(d)' /\ TokenDated(d)' /\ TokenLasts(d)'
  BY <1>1, <1>3, <1>4, <1>5 DEF AInv, SentOnce, TokenDated, TokenLasts
<1> QED BY <1>5, <1>6 DEF AInv

\* Who waited for a mint goes on with its token, or fails with it; none of them
\* has sent anything yet.
LEMMA MintedKeeps == ASSUME AInv, NEW c \in Calls, Minted(c) PROVE AInv'
<1> DEFINE i == Object(c)
           born == call[c].good
           r(d) == [At(d, "send") EXCEPT !.good = born]
<1>1. i \in Calls /\ born \in 0..Ttl /\ born >= Ttl - 1 /\ born >= 2 /\ UNCHANGED <<setup, net, book>>
  BY ObjectIsCall, Bounds DEF Minted, AInv, Types, CallRecords, TokenLasts
<1>2. PICK exp \in {born, Ttl} :
        inst' = [inst EXCEPT ![i].exp = exp, ![i].real = born, ![i].minter = @ \ {c}]
  BY DEF Minted, Lifetimes
<1>3. inst' \in [Calls -> Adapters] /\ \A d \in Calls : TokenDated(d)'
  <2>1. exp \in 0..Ttl /\ born >= exp - 1
    BY <1>1, Bounds
  <2>2. inst' \in [Calls -> Adapters]
    <3>1. [inst[i] EXCEPT !.exp = exp, !.real = born, !.minter = inst[i].minter \ {c}] \in Adapters
      <4>1. inst[i] \in Adapters /\ inst[i].minter \ {c} \in SUBSET Calls
        BY <1>1 DEF AInv, Types, Adapters
      <4>2. born \in 0..Ttl /\ exp \in 0..Ttl
        BY <1>1, <2>1
      <4> HIDE DEF born, i
      <4> QED BY <4>1, <4>2 DEF Adapters
    <3> DEFINE a == [inst[i] EXCEPT !.exp = exp, !.real = born, !.minter = inst[i].minter \ {c}]
    <3>2. inst' = [inst EXCEPT ![i] = a]
      BY <1>2
    <3>3. a \in Adapters
      BY <3>1
    <3> HIDE DEF born, i, a
    <3> QED BY <1>1, <3>2, <3>3 DEF AInv, Types
  <2>3. ASSUME NEW d \in Calls PROVE TokenDated(d)'
    <3>1. CASE d = i
      BY <1>1, <1>2, <2>1, <3>1 DEF AInv, Types, Adapters, TokenDated
    <3>2. CASE d # i
      BY <1>2, <3>2 DEF AInv, Types, TokenDated
    <3> QED BY <3>1, <3>2
  <2> QED BY <2>2, <2>3
<1>4. ASSUME NEW d \in Calls
      PROVE  r(d) \in CallRecords /\ r(d).pc = "send" /\ r(d).good >= 2 /\ r(d).ask = call[d].ask
  <2>1. At(d, "send") \in CallRecords /\ At(d, "send").pc = "send" /\ At(d, "send").ask = call[d].ask
    BY AtIsRecord DEF AInv, Stages
  <2> QED BY <1>1, <2>1 DEF CallRecords
<1>5. call' = [d \in Calls |-> IF d \in Woken(c) THEN r(d) ELSE call[d]]
  BY DEF Minted, Wake
<1>6. \A d \in Woken(c) : d \in Calls /\ call[d].pc \in {"minting", "joined"}
  BY DEF Woken, Minted
<1> HIDE DEF r, born, i
<1>7. Types'
  BY <1>1, <1>3, <1>4, <1>5 DEF AInv, Types
<1>8. ASSUME NEW d \in Calls PROVE SentOnce(d)' /\ TokenLasts(d)'
  <2>1. CASE d \in Woken(c)
    <3>1. net[d] = "no" /\ call'[d] = r(d)
      BY <1>5, <1>6, <2>1 DEF AInv, Types, SentOnce
    <3> QED BY <1>1, <1>4, <3>1 DEF AInv, SentOnce, TokenLasts
  <2>2. CASE d \notin Woken(c)
    BY <1>1, <1>5, <2>2 DEF AInv, SentOnce, TokenLasts
  <2> QED BY <2>1, <2>2
<1> QED BY <1>3, <1>7, <1>8 DEF AInv

LEMMA MintFailsKeeps == ASSUME AInv, NEW c \in Calls, MintFails(c) PROVE AInv'
<1> DEFINE r(d) == Ends(d, "threw", 0)
<1>1. UNCHANGED <<setup, net, book>>
  BY DEF MintFails
<1>2. inst' \in [Calls -> Adapters] /\ \A d \in Calls : inst'[d].exp = inst[d].exp /\ inst'[d].real = inst[d].real
  BY ObjectIsCall DEF MintFails, AInv, Types, Adapters
<1>3. ASSUME NEW d \in Calls PROVE r(d) \in CallRecords /\ r(d).pc = "done" /\ r(d).ask = call[d].ask
  BY EndsIsRecord DEF AInv, Verdicts
<1>4. call' = [d \in Calls |-> IF d \in Woken(c) THEN r(d) ELSE call[d]]
  BY DEF MintFails, Wake
<1>5. \A d \in Woken(c) : d \in Calls /\ call[d].pc \in {"minting", "joined"}
  BY DEF Woken, MintFails
<1> HIDE DEF r
<1>6. Types'
  BY <1>1, <1>2, <1>3, <1>4 DEF AInv, Types
<1>7. ASSUME NEW d \in Calls PROVE SentOnce(d)' /\ TokenDated(d)' /\ TokenLasts(d)'
  <2>1. CASE d \in Woken(c)
    <3>1. net[d] = "no" /\ call'[d] = r(d)
      BY <1>4, <1>5, <2>1 DEF AInv, Types, SentOnce
    <3> QED BY <1>1, <1>2, <1>3, <3>1 DEF AInv, SentOnce, TokenDated, TokenLasts
  <2>2. CASE d \notin Woken(c)
    BY <1>1, <1>2, <1>4, <2>2 DEF AInv, SentOnce, TokenDated, TokenLasts
  <2> QED BY <2>1, <2>2
<1> QED BY <1>6, <1>7 DEF AInv

LEMMA SendKeeps == ASSUME AInv, NEW c \in Calls, Send(c) PROVE AInv'
<1> DEFINE r == [call[c] EXCEPT !.pc = "sent", !.age = 0]
<1>1. call[c] \in CallRecords /\ call[c].pc = "send" /\ net[c] = "no" /\ book[c].n # 1 /\ UNCHANGED <<setup, inst>>
  BY DEF Send, AInv, Types, SentOnce
<1>2. r \in CallRecords /\ r.pc = "sent" /\ r.age = 0 /\ r.ask = call[c].ask /\ r.good = call[c].good
  <2>1. "sent" \in Stages /\ 0 \in 0..1
    BY DEF Stages
  <2> QED BY <1>1, <2>1 DEF CallRecords
<1>3. call' = [call EXCEPT ![c] = r]
  BY DEF Send, Put
<1> HIDE DEF r
<1>4. call' \in [Calls -> CallRecords] /\ call'[c] = r /\ \A d \in Calls \ {c} : call'[d] = call[d]
  BY <1>2, <1>3 DEF AInv, Types
<1>5. /\ net' \in [Calls -> {"no", "flying", "in"}] /\ \A d \in Calls \ {c} : net'[d] = net[d]
      /\ net'[c] # "no" => call[c].ask.op \in Posts
  BY <1>1 DEF Send, AInv, Types
<1>6. book' \in [Calls -> Taken] /\ \A d \in Calls : book'[d].n = book[d].n
  <2>1. /\ inst[Object(c)].filters \in {"none", "real", "blank"} /\ call[c].ask \in Asks /\ setup.broker \in Brokers
        /\ \A d \in Calls : book[d] \in Taken
    BY ObjectIsCall DEF AInv, Types, Adapters, CallRecords, Setups
  <2>2. /\ Body(setup.broker, call[c].ask, inst[Object(c)].filters) \in Bodies
        /\ OcoBody(call[c].ask, inst[Object(c)].filters) \in Bodies
    BY <2>1 DEF Bodies
  <2>3. \A x \in Bodies : [book[c] EXCEPT !.body = x] \in Taken /\ [book[c] EXCEPT !.body = x].n = book[c].n
    BY <2>1 DEF Taken
  <2>4. book' = book \/ \E x \in Bodies : book' = [book EXCEPT ![c].body = x]
    BY <2>2 DEF Send
  <2> QED BY <2>3, <2>4 DEF AInv, Types
<1>7. Types'
  BY <1>1, <1>4, <1>5, <1>6 DEF AInv, Types
<1>8. ASSUME NEW d \in Calls PROVE SentOnce(d)' /\ TokenDated(d)' /\ TokenLasts(d)'
  BY <1>1, <1>2, <1>4, <1>5, <1>6 DEF AInv, SentOnce, TokenDated, TokenLasts
<1> QED BY <1>7, <1>8 DEF AInv

LEMMA ReceiveKeeps == ASSUME AInv, NEW c \in Calls, Receive(c) PROVE AInv'
<1> DEFINE o == Other(c)
<1>1. o \in Calls /\ o # c /\ \A d \in Calls : book[d] \in Taken
  BY OtherIsCall DEF AInv, Types
<1>2. net[c] = "flying" /\ net' = [net EXCEPT ![c] = "in"] /\ book[c].n = 0 /\ UNCHANGED <<setup, call, inst>>
  <2>1. net[c] = "flying" /\ net' = [net EXCEPT ![c] = "in"] /\ UNCHANGED <<setup, call, inst>>
    BY DEF Receive
  <2>2. book[c].n \in 0..1 /\ book[c].n # 1
    BY <1>1, <2>1 DEF AInv, SentOnce, Taken
  <2> QED BY <2>1, <2>2
<1> HIDE DEF o
<1>3. book' \in [Calls -> Taken] /\ \A d \in Calls \ {c} : book'[d].n = book[d].n
  <2>1. CASE call[c].ask.op = "place"
    <3>1. PICK w \in Outcomes : book' = [book EXCEPT ![c].st = w[1], ![c].ex = w[2], ![c].n = @ + IF w[1] = "refused" THEN 0 ELSE 1]
      BY <2>1 DEF Receive
    <3> DEFINE b == [book[c] EXCEPT !.st = w[1], !.ex = w[2], !.n = @ + IF w[1] = "refused" THEN 0 ELSE 1]
    <3>2. w[1] \in {"none", "refused", "open", "filled", "dead", "done"} /\ w[2] \in 0..2
      BY DEF Outcomes
    <3>3. book[c].n + (IF w[1] = "refused" THEN 0 ELSE 1) \in 0..1
      BY <1>2
    <3>4. b \in Taken
      BY <1>1, <3>2, <3>3 DEF Taken
    <3>5. book' = [book EXCEPT ![c] = b]
      BY <3>1
    <3> HIDE DEF b
    <3> QED BY <3>4, <3>5 DEF AInv, Types
  <2>2. CASE call[c].ask.op = "oco"
    <3>1. PICK l \in SUBSET {"tp", "sl"} :
            book' = [book EXCEPT ![c].st = IF l = {} THEN "refused" ELSE "open", ![c].legs = l, ![c].n = @ + IF l = {} THEN 0 ELSE 1]
      BY <2>2 DEF Receive
    <3> DEFINE st == IF l = {} THEN "refused" ELSE "open"
               n  == book[c].n + IF l = {} THEN 0 ELSE 1
               b  == [book[c] EXCEPT !.st = st, !.legs = l, !.n = n]
    <3>2. st \in {"none", "refused", "open", "filled", "dead", "done"} /\ n \in 0..1
      BY <1>2
    <3>3. book' = [book EXCEPT ![c] = b]
      BY <3>1
    <3> HIDE DEF st, n
    <3>4. b \in Taken
      BY <1>1, <3>2 DEF Taken
    <3> HIDE DEF b
    <3> QED BY <3>3, <3>4 DEF AInv, Types
  <2>3. CASE call[c].ask.op = "cancel"
    <3>1. book' = [book EXCEPT ![o].st = "dead", ![c].st = "done"] \/ book' = [book EXCEPT ![c].st = "refused"]
      BY <2>3 DEF Receive, o
    <3>2. \A d \in Calls, st \in {"dead", "done", "refused"} :
            [book[d] EXCEPT !.st = st] \in Taken /\ [book[d] EXCEPT !.st = st].n = book[d].n
      BY <1>1 DEF Taken
    <3>3. CASE book' = [book EXCEPT ![c].st = "refused"]
      BY <3>2, <3>3 DEF AInv, Types
    <3>4. CASE book' = [book EXCEPT ![o].st = "dead", ![c].st = "done"]
      BY <1>1, <3>2, <3>4 DEF AInv, Types
    <3> QED BY <3>1, <3>3, <3>4
  <2>4. call[c].ask.op \in Posts
    BY <1>2 DEF AInv, SentOnce
  <2> QED BY <2>1, <2>2, <2>3, <2>4 DEF Posts
<1>4. Types'
  BY <1>2, <1>3 DEF AInv, Types
<1>5. ASSUME NEW d \in Calls PROVE SentOnce(d)' /\ TokenDated(d)' /\ TokenLasts(d)'
  BY <1>2, <1>3 DEF AInv, Types, SentOnce, TokenDated, TokenLasts
<1> QED BY <1>4, <1>5 DEF AInv

LEMMA ExecutesKeeps == ASSUME AInv, NEW c \in Calls, Executes(c) PROVE AInv'
<1>1. UNCHANGED <<setup, call, inst, net>>
  BY DEF Executes
<1>2. book' \in [Calls -> Taken] /\ \A d \in Calls : book'[d].n = book[d].n
  <2>1. book[c] \in Taken /\ 2 \in 0..2 /\ "filled" \in {"none", "refused", "open", "filled", "dead", "done"}
    BY DEF AInv, Types
  <2> DEFINE b == [book[c] EXCEPT !.st = "filled", !.ex = 2]
  <2>2. b \in Taken /\ b.n = book[c].n
    BY <2>1 DEF Taken
  <2>3. book' = [book EXCEPT ![c] = b]
    BY DEF Executes
  <2> HIDE DEF b
  <2> QED BY <2>2, <2>3 DEF AInv, Types
<1>3. Types'
  BY <1>1, <1>2 DEF AInv, Types
<1>4. ASSUME NEW d \in Calls PROVE SentOnce(d)' /\ TokenDated(d)' /\ TokenLasts(d)'
  BY <1>1, <1>2 DEF AInv, SentOnce, TokenDated, TokenLasts
<1> QED BY <1>3, <1>4 DEF AInv

\* Only a reading is tried again, so nothing of it is on its way.
LEMMA AnswerKeeps == ASSUME AInv, NEW c \in Calls, Answer(c) PROVE AInv'
<1>1. call[c] \in CallRecords /\ call[c].pc = "sent" /\ UNCHANGED <<setup, inst, net, book>>
  BY DEF Answer, AInv, Types
<1>2. PICK ans \in Answers(c) :
        Put(c, IF Retried(setup.broker, call[c].ask.op) /\ Again(c, ans.how)
               THEN [call[c] EXCEPT !.pc = IF setup.broker \in Minters THEN "token" ELSE "send", !.tries = @ + 1]
               ELSE Result(c, ans))
  BY DEF Answer
<1>3. CASE Retried(setup.broker, call[c].ask.op) /\ Again(c, ans.how)
  <2> DEFINE p == IF setup.broker \in Minters THEN "token" ELSE "send"
             r == [call[c] EXCEPT !.pc = p, !.tries = @ + 1]
  <2>1. net[c] = "no"
    BY <1>3 DEF Retried, Posts, AInv, Types, SentOnce
  <2>2. p \in {"token", "send"} /\ (p = "send" => setup.broker \notin Minters)
    OBVIOUS
  <2> HIDE DEF p
  <2>3. r \in CallRecords /\ r.pc = p
    <3>1. p \in Stages
      BY <2>2 DEF Stages
    <3>2. call[c].tries + 1 \in 0..(Attempts - 1)
      BY <1>1, <1>3, Bounds DEF CallRecords, Again
    <3> QED BY <1>1, <3>1, <3>2 DEF CallRecords
  <2>4. Put(c, r)
    BY <1>2, <1>3 DEF p
  <2> HIDE DEF r
  <2> QED BY <1>1, <2>1, <2>2, <2>3, <2>4, OwnStep
<1>4. CASE ~(Retried(setup.broker, call[c].ask.op) /\ Again(c, ans.how))
  <2>1. PICK k \in Verdicts, e \in 0..2 : Result(c, ans) = Ends(c, k, e)
    BY ResultEnds DEF AInv
  <2>2. Ends(c, k, e) \in CallRecords /\ Ends(c, k, e).pc = "done" /\ Ends(c, k, e).ask = call[c].ask
    BY EndsIsRecord DEF AInv
  <2>3. Put(c, Ends(c, k, e))
    BY <1>2, <1>4, <2>1
  <2>4. net[c] # "no" => call[c].ask.op \in Posts
    BY DEF AInv, SentOnce
  <2> QED BY <1>1, <2>2, <2>3, <2>4, OwnStep
<1> QED BY <1>3, <1>4

LEMMA TokenRefusedKeeps == ASSUME AInv, NEW c \in Calls, TokenRefused(c) PROVE AInv'
<1>a. PICK k \in Unauthorized(call[c].ask.op) : Put(c, Ends(c, k, 0))
  BY DEF TokenRefused
<1> DEFINE r == Ends(c, k, 0)
<1>1. r \in CallRecords /\ r.pc = "done" /\ r.ask = call[c].ask
  <2>1. k \in Verdicts /\ 0 \in 0..2
    BY DEF Unauthorized, Verdicts
  <2> QED BY <2>1, EndsIsRecord DEF AInv
<1>2. call' = [call EXCEPT ![c] = r] /\ net[c] # "in" /\ net' = [net EXCEPT ![c] = "no"] /\ UNCHANGED <<setup, book>>
  BY <1>a DEF TokenRefused, Put
<1> HIDE DEF r
<1>3. call' \in [Calls -> CallRecords] /\ call'[c] = r /\ \A d \in Calls \ {c} : call'[d] = call[d]
  BY <1>1, <1>2 DEF AInv, Types
<1>4. inst' \in [Calls -> Adapters] /\ \A d \in Calls : TokenDated(d)'
  <2>1. 0 \in 0..Ttl /\ Object(c) \in Calls
    BY Bounds, ObjectIsCall
  <2>2. inst' = [inst EXCEPT ![Object(c)].exp = 0]
    BY DEF TokenRefused
  <2> QED BY <2>1, <2>2 DEF AInv, Types, Adapters, TokenDated
<1>5. Types'
  BY <1>2, <1>3, <1>4 DEF AInv, Types
<1>6. ASSUME NEW d \in Calls PROVE SentOnce(d)' /\ TokenLasts(d)'
  BY <1>1, <1>2, <1>3 DEF AInv, Types, SentOnce, TokenLasts
<1> QED BY <1>4, <1>5, <1>6 DEF AInv

\* Time: no request is a whole timeout old before it, and none waits to leave.
LEMMA TickKeeps == ASSUME AInv, Tick PROVE AInv'
<1> DEFINE r(c) == IF UnderWay(c) THEN [call[c] EXCEPT !.age = 1, !.good = Left(@)] ELSE call[c]
           a(c) == [inst[c] EXCEPT !.exp = Left(@), !.real = Left(@)]
<1>1. /\ call' = [c \in Calls |-> r(c)] /\ inst' = [c \in Calls |-> a(c)]
      /\ \A c \in Calls : (UnderWay(c) => call[c].age = 0) /\ call[c].pc # "send"
      /\ UNCHANGED <<setup, net, book>>
  BY DEF Tick
<1>2. \A t \in 0..Ttl : Left(t) \in 0..Ttl /\ Left(t) >= t - 1 /\ (t > 0 => Left(t) = t - 1)
  BY Bounds DEF Left
<1>3. ASSUME NEW c \in Calls
      PROVE  /\ r(c) \in CallRecords /\ r(c).pc = call[c].pc /\ r(c).ask = call[c].ask
             /\ ~UnderWay(c) => r(c) = call[c]
             /\ UnderWay(c) => r(c).age = 1 /\ r(c).good = Left(call[c].good)
  <2>1. call[c] \in CallRecords /\ call[c].good \in 0..Ttl /\ Left(call[c].good) \in 0..Ttl /\ 1 \in 0..1
    BY <1>2 DEF AInv, Types, CallRecords
  <2> QED BY <2>1 DEF CallRecords
<1>4. ASSUME NEW c \in Calls
      PROVE  a(c) \in Adapters /\ a(c).exp = Left(inst[c].exp) /\ a(c).real = Left(inst[c].real)
  <2>1. inst[c] \in Adapters /\ inst[c].exp \in 0..Ttl /\ inst[c].real \in 0..Ttl
    BY DEF AInv, Types, Adapters
  <2>2. Left(inst[c].exp) \in 0..Ttl /\ Left(inst[c].real) \in 0..Ttl
    BY <1>2, <2>1
  <2> QED BY <2>1, <2>2 DEF Adapters
<1> HIDE DEF r, a
<1>5. Types'
  BY <1>1, <1>3, <1>4 DEF AInv, Types
<1>6. ASSUME NEW c \in Calls PROVE SentOnce(c)'
  BY <1>1, <1>3 DEF AInv, SentOnce
<1>7. ASSUME NEW c \in Calls PROVE TokenDated(c)'
  <2>1. inst[c].exp \in 0..Ttl /\ inst[c].real \in 0..Ttl /\ (inst[c].exp > 0 => inst[c].real >= inst[c].exp - 1)
    BY DEF AInv, Types, Adapters, TokenDated
  <2>2. Left(inst[c].exp) > 0 => Left(inst[c].real) >= Left(inst[c].exp) - 1
    BY <2>1, Bounds DEF Left
  <2> QED BY <1>1, <1>4, <2>2 DEF TokenDated
<1>8. ASSUME NEW c \in Calls PROVE TokenLasts(c)'
  <2>1. call'[c] = r(c) /\ call[c].good \in 0..Ttl /\ TokenLasts(c)
    BY <1>1 DEF AInv, Types, CallRecords
  <2>2. CASE UnderWay(c)
    <3>1. call[c].age = 0 /\ r(c).age = 1 /\ r(c).good = Left(call[c].good) /\ r(c).pc = call[c].pc
      BY <1>1, <1>3, <2>2
    <3>2. call[c].good > 0 => Left(call[c].good) = call[c].good - 1
      BY <1>2, <2>1
    <3>3. call[c].pc = "minting" => call[c].good = Ttl
      BY <2>1, <3>1, Bounds DEF TokenLasts
    <3> QED BY <1>1, <2>1, <3>1, <3>2, <3>3, Bounds DEF TokenLasts
  <2>3. CASE ~UnderWay(c)
    <3>1. r(c) = call[c]
      BY <1>3, <2>3
    <3> QED BY <1>1, <2>1, <3>1 DEF TokenLasts
  <2> QED BY <2>2, <2>3
<1> QED BY <1>5, <1>6, <1>7, <1>8 DEF AInv

LEMMA StepKeeps == AInv /\ [Next]_vars => AInv'
<1> SUFFICES ASSUME AInv, [Next]_vars PROVE AInv'
  OBVIOUS
<1>1. ASSUME NEW c \in Calls, Step(c) PROVE AInv'
  BY <1>1, FiltersKeeps, HashKeeps, UseTokenKeeps, JoinMintKeeps, StartMintKeeps, MintedKeeps, MintFailsKeeps,
     SendKeeps, AnswerKeeps, TokenRefusedKeeps DEF Step, Mints
<1>2. ASSUME NEW c \in Calls, Call(c) \/ Receive(c) \/ Executes(c) PROVE AInv'
  BY <1>2, CallKeeps, ReceiveKeeps, ExecutesKeeps
<1>3. CASE UNCHANGED vars
  <2>1. Types'
    BY <1>3 DEF vars, AInv, Types
  <2>2. ASSUME NEW c \in Calls PROVE SentOnce(c)' /\ TokenDated(c)' /\ TokenLasts(c)'
    BY <1>3 DEF vars, AInv, SentOnce, TokenDated, TokenLasts
  <2> QED BY <2>1, <2>2 DEF AInv
<1> QED BY <1>1, <1>2, <1>3, TickKeeps DEF Next

\* The inductive invariant: types, POSTs sent once, and tokens dated and lasting
\* as long as the requests that carry them.
THEOREM AdapterInvariant == Spec => []AInv
<1> QED BY InitKeeps, StepKeeps, PTL DEF Spec

\* TypeOK for every set of requests, number of tries and life of a token.
THEOREM AdapterTypes == Spec => []TypeOK
<1>1. AInv => TypeOK
  BY DEF AInv, Types, TypeOK, CallRecords, Adapters, Taken, Stages
<1> QED BY <1>1, AdapterInvariant, PTL

\* OneOrderPerCall: neither the retries of base.ts nor a POST that arrives after
\* the adapter gave up on it make two orders of one call.
THEOREM OrdersOnce == Spec => []OneOrderPerCall
<1>1. AInv => OneOrderPerCall
  BY DEF AInv, Types, Taken, OneOrderPerCall
<1> QED BY <1>1, AdapterInvariant, PTL

\* TokenFresh: the margin that getToken keeps covers the time a mint and a request
\* take, also for a call that waited for another call's mint.
THEOREM TokensLast == Spec => []TokenFresh
<1>1. AInv => TokenFresh
  BY DEF AInv, Types, CallRecords, TokenLasts, TokenFresh
<1> QED BY <1>1, AdapterInvariant, PTL

-----------------------------------------------------------------------------
(* That what a call returns is what the exchange has.                      *)

\* What the exchange has of a call's POST: nothing before it arrives, an order
\* that is over for good, and of a cancel that succeeded the other call's end.
OrderIs(c) ==
  /\ net[c] # "in" => book[c].st = "none" /\ book[c].ex = 0 /\ book[c].legs = {}
  /\ net[c] = "in" => book[c].st # "none"
  /\ book[c].st = "filled" => book[c].ex > 0
  /\ book[c].st \in {"refused", "open"} => book[c].ex = 0
  /\ book[c].st \in {"open", "filled", "dead"} => book[c].n = 1
  /\ book[c].st = "done" => book[Other(c)].st = "dead"

\* What a result says of the call's own POST and of the other call's; as the property,
\* but that a cancel done is what the exchange has made of this very call.
TrueOf(b, r, mine, other) ==
  /\ r.ask.op = "place" =>
       /\ r.kind = "filled" => mine.ex > 0
       /\ r.kind = "rejected" => b = "kis" \/ (mine.ex = 0 /\ mine.st \in {"refused", "dead"})
       /\ r.kind = "pending" => mine.n > 0
       /\ r.ex <= mine.ex
  /\ r.kind = "oco" => (IF r.ask.op = "oco" THEN mine ELSE other).legs = {"tp", "sl"}
  /\ r.ask.op = "cancel" /\ r.kind = "true" => b = "toss" \/ mine.st = "done"
  /\ r.ask.op = "order" =>
       /\ r.kind = "filled" => other.ex > 0
       /\ r.kind = "rejected" => other.st = "dead"
       /\ r.ex <= other.ex
  /\ r.ask.op = "balance" /\ r.kind = "zero" => b \in Silent

\* A call has no result before it ends, and then a true one.
Answered(c) ==
  /\ call[c].pc # "done" => call[c].ex = 0 /\ call[c].kind = "none"
  /\ call[c].pc = "done" => TrueOf(setup.broker, call[c], book[c], book[Other(c)])

RInv == \A c \in Calls : OrderIs(c) /\ Answered(c)

\* What is on the exchange's books stays there.
Remains(c) ==
  /\ setup' = setup
  /\ net[c] = "in" => net'[c] = "in" /\ book'[c].legs = book[c].legs /\ book'[c].n = book[c].n
  /\ book[c].st \in {"refused", "dead", "done"} => book'[c].st = book[c].st /\ book'[c].ex = book[c].ex
  /\ book[c].ex <= book'[c].ex

LEMMA TrueRemains ==
  ASSUME AInv, AInv', RInv, NEW c \in Calls, \A d \in Calls : Remains(d), NEW r, TrueOf(setup.broker, r, book[c], book[Other(c)]),
         r.ask.op \in {"place", "order"} => r.ex \in 0..2
  PROVE  TrueOf(setup.broker, r, book'[c], book'[Other(c)])
<1> DEFINE o == Other(c)
<1>1. o \in Calls /\ Remains(c) /\ Remains(o) /\ OrderIs(c) /\ OrderIs(o)
  BY OtherIsCall DEF RInv
<1>2. /\ book[c].n = 1 => net[c] = "in"
      /\ book[c].n \in 0..1 /\ book[c].ex \in 0..2 /\ book[o].ex \in 0..2
      /\ book'[c].n \in 0..1 /\ book'[c].ex \in 0..2 /\ book'[o].ex \in 0..2
  BY <1>1 DEF AInv, SentOnce, Types, Taken
<1>3. ASSUME NEW d \in {c, o}, book[d].legs = {"tp", "sl"} PROVE book'[d].legs = {"tp", "sl"}
  <2>1. {"tp", "sl"} # {}
    OBVIOUS
  <2> QED BY <1>1, <1>3, <2>1 DEF Remains, OrderIs
<1> HIDE DEF o
<1>4. ASSUME r.ask.op = "place"
      PROVE  /\ r.kind = "filled" => book'[c].ex > 0
             /\ r.kind = "rejected" => setup.broker = "kis" \/ (book'[c].ex = 0 /\ book'[c].st \in {"refused", "dead"})
             /\ r.kind = "pending" => book'[c].n > 0
             /\ r.ex <= book'[c].ex
  BY <1>1, <1>2, <1>4 DEF TrueOf, Remains
<1>5. ASSUME r.ask.op = "order"
      PROVE  /\ r.kind = "filled" => book'[o].ex > 0
             /\ r.kind = "rejected" => book'[o].st = "dead"
             /\ r.ex <= book'[o].ex
  BY <1>1, <1>2, <1>5 DEF TrueOf, Remains, o
<1>6. r.kind = "oco" => (IF r.ask.op = "oco" THEN book'[c] ELSE book'[o]).legs = {"tp", "sl"}
  BY <1>3 DEF TrueOf, o
<1>7. r.ask.op = "cancel" /\ r.kind = "true" => setup.broker = "toss" \/ book'[c].st = "done"
  BY <1>1 DEF TrueOf, Remains
<1>8. r.ask.op = "balance" /\ r.kind = "zero" => setup.broker \in Silent
  BY DEF TrueOf
<1> QED BY <1>4, <1>5, <1>6, <1>7, <1>8 DEF TrueOf, o

LEMMA EndsGives ==
  ASSUME AInv, NEW c \in Calls, NEW k, NEW e
  PROVE  /\ Ends(c, k, e).pc = "done" /\ Ends(c, k, e).ask = call[c].ask
         /\ Ends(c, k, e).kind = k /\ Ends(c, k, e).ex = e
<1>1. call[c] \in CallRecords
  BY DEF AInv, Types
<1> QED BY <1>1 DEF Ends, CallRecords

\* An error says nothing, so it is true of whatever the exchange has.
LEMMA ThrewIsTrue ==
  ASSUME AInv, NEW c \in Calls, NEW r, r.kind = "threw", r.ex = 0
  PROVE  TrueOf(setup.broker, r, book[c], book[Other(c)])
<1>1. 0 <= book[c].ex /\ 0 <= book[Other(c)].ex
  BY OtherIsCall DEF AInv, Types, Taken
<1> QED BY <1>1 DEF TrueOf

\* The words of an order by its state.
LEMMA WordsSay ==
  ASSUME NEW c \in Calls, OrderIs(c), NEW w \in Words(book[c])
  PROVE  /\ book[c].st \in {"open", "filled", "dead"} /\ book[c].n = 1
         /\ w = "FILLED" => book[c].ex > 0
         /\ w \in {"CANCELED", "REJECTED", "EXPIRED"} => book[c].st = "dead"
         /\ w = "REJECTED" => book[c].ex = 0
<1>1. book[c].st \in {"open", "filled", "dead"}
  BY DEF Words
<1>2. CASE book[c].st = "open"
  BY <1>2 DEF Words, OrderIs
<1>3. CASE book[c].st = "filled"
  BY <1>3 DEF Words, OrderIs
<1>4. CASE book[c].st = "dead"
  <2>1. w \in {"CANCELED", "EXPIRED", "EXPIRED_IN_MATCH"} \/ (w = "REJECTED" /\ book[c].ex = 0)
    BY <1>4 DEF Words
  <2> QED BY <1>4, <2>1 DEF OrderIs
<1> QED BY <1>1, <1>2, <1>3, <1>4

LEMMA PlacedIsTrue ==
  ASSUME AInv, RInv, NEW c \in Calls, call[c].ask.op = "place", NEW ans \in Answers(c)
  PROVE  /\ TrueOf(setup.broker, BinanceOrder(c, ans), book[c], book[Other(c)])
         /\ setup.broker = "kis" => TrueOf(setup.broker, KisOrder(c, ans), book[c], book[Other(c)])
         /\ TrueOf(setup.broker, KiwoomOrder(c, ans), book[c], book[Other(c)])
         /\ TrueOf(setup.broker, TossOrder(c, ans), book[c], book[Other(c)])
<1>1. /\ ans.how = "good" => ans.word \in Words(book[c])
      /\ ans.how = "errbody" => book[c].st = "refused"
  BY DEF Answers
<1>2. OrderIs(c) /\ book[c].ex \in 0..2 /\ book[c].n \in 0..1
  BY DEF RInv, AInv, Types, Taken
<1>3. ASSUME NEW k, NEW e \in {0, book[c].ex},
             k = "filled" => book[c].ex > 0,
             k = "rejected" => setup.broker = "kis" \/ (book[c].ex = 0 /\ book[c].st \in {"refused", "dead"}),
             k = "pending" => book[c].n > 0, k # "oco"
      PROVE  TrueOf(setup.broker, Ends(c, k, e), book[c], book[Other(c)])
  BY <1>2, <1>3, EndsGives DEF TrueOf
<1>4. TrueOf(setup.broker, Ends(c, "threw", 0), book[c], book[Other(c)])
  BY <1>3
<1>5. ans.how = "errbody" \/ setup.broker = "kis" => TrueOf(setup.broker, Ends(c, "rejected", 0), book[c], book[Other(c)])
  BY <1>1, <1>2, <1>3 DEF OrderIs
<1>6. ans.how = "good" => TrueOf(setup.broker, Ends(c, "pending", 0), book[c], book[Other(c)])
  <2> SUFFICES ASSUME ans.how = "good" PROVE TrueOf(setup.broker, Ends(c, "pending", 0), book[c], book[Other(c)])
    OBVIOUS
  <2>1. book[c].n = 1
    BY <1>1, <1>2, WordsSay
  <2> QED BY <1>2, <1>3, <2>1
<1>7. ans.how = "good" => TrueOf(setup.broker, Ends(c, Placed(ans.word, book[c].ex), book[c].ex), book[c], book[Other(c)])
  <2> SUFFICES ASSUME ans.how = "good"
               PROVE  TrueOf(setup.broker, Ends(c, Placed(ans.word, book[c].ex), book[c].ex), book[c], book[Other(c)])
    OBVIOUS
  <2> DEFINE w == ans.word
             k == Placed(w, book[c].ex)
  <2>1. /\ book[c].n = 1
        /\ w = "FILLED" => book[c].ex > 0
        /\ w \in {"CANCELED", "REJECTED", "EXPIRED"} => book[c].st = "dead"
        /\ w = "REJECTED" => book[c].ex = 0
    BY <1>1, <1>2, WordsSay
  <2>2. k \in {"filled", "rejected", "pending"}
    BY DEF Placed, MapStatus
  <2>3. k = "filled" => book[c].ex > 0
    BY <2>1 DEF Placed, MapStatus
  <2>4. k = "rejected" => book[c].ex = 0 /\ book[c].st = "dead"
    BY <1>2, <2>1 DEF Placed, MapStatus
  <2> HIDE DEF k
  <2>5. TrueOf(setup.broker, Ends(c, k, book[c].ex), book[c], book[Other(c)])
    BY <1>2, <1>3, <2>1, <2>2, <2>3, <2>4
  <2> QED BY <2>5 DEF k
<1> QED BY <1>4, <1>5, <1>6, <1>7 DEF BinanceOrder, KisOrder, KiwoomOrder, TossOrder

LEMMA CancelledIsTrue ==
  ASSUME AInv, NEW c \in Calls, call[c].ask.op = "cancel", NEW ans \in Answers(c)
  PROVE  /\ TrueOf(setup.broker, BinanceCancel(c, ans), book[c], book[Other(c)])
         /\ TrueOf(setup.broker, KisCancel(c, ans), book[c], book[Other(c)])
         /\ TrueOf(setup.broker, KiwoomCancel(c, ans), book[c], book[Other(c)])
         /\ setup.broker = "toss" => TrueOf(setup.broker, TossCancel(c, ans), book[c], book[Other(c)])
<1>1. ans.how = "good" => book[c].st = "done"
  BY DEF Answers, Failures
<1>2. /\ \A k \in {"false", "threw"} : TrueOf(setup.broker, Ends(c, k, 0), book[c], book[Other(c)])
      /\ ans.how = "good" \/ setup.broker = "toss" => TrueOf(setup.broker, Ends(c, "true", 0), book[c], book[Other(c)])
  BY <1>1, EndsGives DEF TrueOf
<1> QED BY <1>2 DEF BinanceCancel, KisCancel, KiwoomCancel, ByItsWord, TossCancel

LEMMA QueriedIsTrue ==
  ASSUME AInv, RInv, NEW c \in Calls, call[c].ask.op = "order", NEW ans \in Answers(c)
  PROVE  /\ TrueOf(setup.broker, BinanceQuery(c, ans), book[c], book[Other(c)])
         /\ TrueOf(setup.broker, TossQuery(c, ans), book[c], book[Other(c)])
<1> DEFINE o == Other(c)
<1>1. ans.how = "good" => ans.word \in Words(book[o])
  BY DEF Answers
<1>2. o \in Calls /\ OrderIs(o) /\ book[o].ex \in 0..2
  BY OtherIsCall DEF RInv, AInv, Types, Taken
<1>3. ASSUME NEW k, NEW e \in {0, book[o].ex},
             k = "filled" => book[o].ex > 0, k = "rejected" => book[o].st = "dead", k # "oco"
      PROVE  TrueOf(setup.broker, Ends(c, k, e), book[c], book[o])
  BY <1>2, <1>3, EndsGives DEF TrueOf
<1> HIDE DEF o
<1>4. TrueOf(setup.broker, Ends(c, "threw", 0), book[c], book[o]) /\ TrueOf(setup.broker, Ends(c, "null", 0), book[c], book[o])
  BY <1>3
<1>5. ASSUME ans.how = "good"
      PROVE  /\ ans.word = "FILLED" => book[o].ex > 0
             /\ ans.word \in {"CANCELED", "REJECTED", "EXPIRED"} => book[o].st = "dead"
  BY <1>1, <1>2, <1>5, WordsSay
<1>6. ans.how = "good" => TrueOf(setup.broker, Ends(c, MapStatus(ans.word), book[o].ex), book[c], book[o])
  BY <1>2, <1>3, <1>5 DEF MapStatus
<1> DEFINE toss(w) == IF w = "FILLED" THEN "filled" ELSE IF w = "REJECTED" THEN "rejected" ELSE "pending"
<1>7. ans.how = "good" => TrueOf(setup.broker, Ends(c, toss(ans.word), book[o].ex), book[c], book[o])
  BY <1>2, <1>3, <1>5
<1>a. TrueOf(setup.broker, Ends(c, "pending", book[o].ex), book[c], book[o])
  BY <1>2, <1>3
<1>8. TrueOf(setup.broker, BinanceQuery(c, ans), book[c], book[o])
  BY <1>4, <1>6 DEF BinanceQuery, Queried, o
<1>9. TrueOf(setup.broker, TossQuery(c, ans), book[c], book[o])
  BY <1>4, <1>7, <1>a DEF TossQuery, Queried, o
<1> QED BY <1>8, <1>9 DEF o

\* Whatever the adapter makes of an answer is true of the exchange at that time.
LEMMA ResultIsTrue ==
  ASSUME AInv, RInv, NEW c \in Calls, NEW ans \in Answers(c)
  PROVE  TrueOf(setup.broker, Result(c, ans), book[c], book[Other(c)])
<1> DEFINE op == call[c].ask.op
           True(r) == TrueOf(setup.broker, r, book[c], book[Other(c)])
<1>1. CASE op = "place"
  <2>1. /\ True(BinanceOrder(c, ans)) /\ True(KiwoomOrder(c, ans)) /\ True(TossOrder(c, ans))
        /\ setup.broker = "kis" => True(KisOrder(c, ans))
    BY <1>1, PlacedIsTrue
  <2> HIDE DEF True
  <2>2. True(Result(c, ans))
    BY <1>1, <2>1 DEF Result
  <2> QED BY <2>2 DEF True
<1>2. CASE op = "cancel"
  <2>0. setup.broker \in Binance \cup {"kis", "kiwoom", "toss"}
    BY BrokerKnown DEF AInv, Types, Minters
  <2>1. /\ True(BinanceCancel(c, ans)) /\ True(KisCancel(c, ans)) /\ True(KiwoomCancel(c, ans))
        /\ setup.broker = "toss" => True(TossCancel(c, ans))
    BY <1>2, CancelledIsTrue
  <2> HIDE DEF True
  <2>2. True(Result(c, ans))
    BY <1>2, <2>0, <2>1 DEF Result
  <2> QED BY <2>2 DEF True
<1>3. CASE op = "order"
  BY <1>3, QueriedIsTrue DEF Result
<1>4. CASE op = "oco"
  <2>1. True(Ends(c, "threw", 0)) /\ (book[c].legs = {"tp", "sl"} => True(Ends(c, "oco", 0)))
    BY <1>4, EndsGives DEF TrueOf
  <2> QED BY <1>4, <2>1 DEF Result, OcoResult, OcoTaken
<1>5. CASE op = "openOco"
  <2>1. /\ True(Ends(c, "threw", 0)) /\ True(Ends(c, "null", 0))
        /\ book[Other(c)].legs = {"tp", "sl"} => True(Ends(c, "oco", 0))
    BY <1>5, EndsGives DEF TrueOf
  <2> QED BY <1>5, <2>1 DEF Result, OpenOco
<1>6. CASE op \notin {"place", "cancel", "order", "oco", "openOco"}
  <2>1. /\ True(Ends(c, "threw", 0)) /\ True(Ends(c, "seen", 0)) /\ True(Ends(c, "cashless", 0))
        /\ op # "balance" \/ setup.broker \in Silent => True(Ends(c, "zero", 0))
    BY <1>6, EndsGives DEF TrueOf
  <2> HIDE DEF True
  <2>2. True(BinanceRead(c, ans)) /\ True(TossRead(c, ans))
    BY <2>1 DEF BinanceRead, TossRead, Checked
  <2>3. setup.broker \in Silent => True(KisRead(c, ans)) /\ True(KiwoomRead(c, ans))
    BY <2>1 DEF KisRead, KiwoomRead
  <2>4. True(Result(c, ans))
    BY <1>6, <2>2, <2>3 DEF Result, Silent
  <2> QED BY <2>4 DEF True
<1> QED BY <1>1, <1>2, <1>3, <1>4, <1>5, <1>6

\* A step that leaves the exchange's side alone keeps every result true if what
\* it lets a call return is.
Told(c) ==
  \/ call'[c] = call[c]
  \/ call'[c].pc # "done" /\ call'[c].ex = 0 /\ call'[c].kind = "none"
  \/ call'[c].pc = "done" /\ TrueOf(setup.broker, call'[c], book[c], book[Other(c)])

SameOrder(c) ==
  /\ setup' = setup
  /\ net'[c] = "in" <=> net[c] = "in"
  /\ book'[c].st = book[c].st /\ book'[c].ex = book[c].ex
  /\ book'[c].legs = book[c].legs /\ book'[c].n = book[c].n

LEMMA QuietKeeps ==
  ASSUME AInv, RInv, \A c \in Calls : SameOrder(c) /\ Told(c)
  PROVE  RInv'
<1>1. ASSUME NEW c \in Calls PROVE OrderIs(c)'
  <2>1. SameOrder(c) /\ SameOrder(Other(c)) /\ OrderIs(c)
    BY OtherIsCall DEF RInv
  <2>2. book[c].st = "done" => book'[Other(c)].st = "dead"
    BY <2>1 DEF SameOrder, OrderIs
  <2> QED BY <2>1, <2>2 DEF SameOrder, OrderIs, Other
<1>2. ASSUME NEW c \in Calls PROVE Answered(c)'
  <2>1. ASSUME NEW r PROVE TrueOf(setup.broker, r, book[c], book[Other(c)]) => TrueOf(setup.broker, r, book'[c], book'[Other(c)])
    BY OtherIsCall DEF TrueOf, SameOrder
  <2>2. setup' = setup
    BY DEF SameOrder
  <2> QED BY <2>1, <2>2 DEF RInv, Answered, Told, Other
<1> QED BY <1>1, <1>2 DEF RInv

LEMMA TwoCalls == ASSUME NEW c \in Calls, NEW d \in Calls PROVE d = c \/ d = Other(c)
<1> DEFINE o == Other(c)
<1>1. o \in Calls /\ o # c
  BY OtherIsCall
<1> HIDE DEF o
<1>2. IsFiniteSet(Calls \ {c}) /\ Cardinality(Calls \ {c}) = 1
  BY Bounds, FS_RemoveElement
<1>3. IsFiniteSet((Calls \ {c}) \ {o}) /\ Cardinality((Calls \ {c}) \ {o}) = 0
  BY <1>1, <1>2, FS_RemoveElement
<1>4. (Calls \ {c}) \ {o} = {}
  BY <1>3, FS_EmptySet
<1> QED BY <1>4 DEF o

LEMMA CallRemains ==
  ASSUME AInv, AInv', RInv, NEW d \in Calls, call' = call, \A c \in Calls : Remains(c)
  PROVE  Answered(d)'
<1>1. call[d].ex \in 0..2 /\ Answered(d)
  BY DEF AInv, Types, CallRecords, RInv
<1>2. call[d].pc = "done" => TrueOf(setup.broker, call[d], book'[d], book'[Other(d)])
  BY <1>1, TrueRemains DEF Answered
<1>3. setup' = setup
  BY DEF Remains
<1> QED BY <1>1, <1>2, <1>3 DEF Answered, Other

LEMMA ReceiveIsTrue == ASSUME AInv, AInv', RInv, NEW c \in Calls, Receive(c) PROVE RInv'
<1> DEFINE o == Other(c)
<1>1. /\ o \in Calls /\ o # c /\ \A d \in Calls : d = c \/ d = o
      /\ net[c] = "flying" /\ net' = [net EXCEPT ![c] = "in"] /\ call' = call /\ setup' = setup
      /\ book[c].st = "none" /\ book[c].ex = 0 /\ book[c].legs = {} /\ book[c].n = 0
  <2>1. o \in Calls /\ o # c /\ net[c] = "flying" /\ net' = [net EXCEPT ![c] = "in"] /\ call' = call /\ setup' = setup
    BY OtherIsCall DEF Receive
  <2>2. book[c].st = "none" /\ book[c].ex = 0 /\ book[c].legs = {} /\ book[c].n = 0
    BY <2>1 DEF RInv, OrderIs, AInv, SentOnce, Types, Taken
  <2>3. \A d \in Calls : d = c \/ d = o
    BY <2>1, TwoCalls
  <2> QED BY <2>1, <2>2, <2>3
<1> HIDE DEF o
<1>2. /\ book' \in [Calls -> Taken] /\ \A d \in Calls : book[d] \in Taken
      /\ net \in [Calls -> {"no", "flying", "in"}] /\ net'[c] = "in" /\ net'[o] = net[o]
  BY <1>1 DEF AInv, Types
<1>3. /\ book'[c].st \in {"refused", "open", "filled", "dead"} \/ (book'[c].st = "done" /\ book'[o].st = "dead")
      /\ book'[c].st = "filled" => book'[c].ex > 0
      /\ book'[c].st \in {"refused", "open"} => book'[c].ex = 0
      /\ book'[c].st \in {"open", "filled", "dead"} => book'[c].n = 1
      /\ \/ book'[o] = book[o]
         \/ /\ book[o].st = "open" /\ book'[o].st = "dead" /\ book'[o].ex = book[o].ex
            /\ book'[o].n = book[o].n /\ book'[o].legs = book[o].legs
  <2>1. CASE call[c].ask.op = "place"
    <3>1. PICK w \in Outcomes : book' = [book EXCEPT ![c].st = w[1], ![c].ex = w[2], ![c].n = @ + IF w[1] = "refused" THEN 0 ELSE 1]
      BY <2>1 DEF Receive
    <3>2. /\ w[1] \in {"refused", "open", "filled", "dead"} /\ (w[1] = "filled" => w[2] > 0)
          /\ w[1] \in {"refused", "open"} => w[2] = 0
      BY DEF Outcomes
    <3>3. book'[c].st = w[1] /\ book'[c].ex = w[2] /\ book'[o] = book[o]
      BY <1>1, <1>2, <3>1 DEF AInv, Types, Taken
    <3>4. w[1] # "refused" => book'[c].n = 1
      BY <1>1, <1>2, <3>1 DEF AInv, Types, Taken
    <3> QED BY <3>2, <3>3, <3>4
  <2>2. CASE call[c].ask.op = "oco"
    <3>1. PICK l \in SUBSET {"tp", "sl"} :
            book' = [book EXCEPT ![c].st = IF l = {} THEN "refused" ELSE "open", ![c].legs = l, ![c].n = @ + IF l = {} THEN 0 ELSE 1]
      BY <2>2 DEF Receive
    <3> DEFINE st == IF l = {} THEN "refused" ELSE "open"
               n  == book[c].n + IF l = {} THEN 0 ELSE 1
    <3>a. book' = [book EXCEPT ![c].st = st, ![c].legs = l, ![c].n = n]
      BY <3>1
    <3>b. ASSUME l # {} PROVE n = 1
      <4>1. n = book[c].n + 1 /\ book[c].n = 0
        BY <1>1, <3>b
      <4> HIDE DEF n
      <4> QED BY <4>1
    <3>c. st = IF l = {} THEN "refused" ELSE "open"
      OBVIOUS
    <3> HIDE DEF st, n
    <3>d. book'[c].st = st /\ book'[c].ex = 0 /\ book'[c].n = n /\ book'[o] = book[o]
      BY <1>1, <1>2, <3>a DEF AInv, Types, Taken
    <3>2. /\ book'[c].st = (IF l = {} THEN "refused" ELSE "open") /\ book'[c].ex = 0 /\ book'[o] = book[o]
          /\ l # {} => book'[c].n = 1
      BY <3>b, <3>c, <3>d
    <3>3. CASE l = {}
      BY <3>2, <3>3
    <3>4. CASE l # {}
      BY <3>2, <3>4
    <3> QED BY <3>3, <3>4
  <2>3. CASE call[c].ask.op = "cancel"
    <3>1. book' = IF book[o].st = "open" THEN [book EXCEPT ![o].st = "dead", ![c].st = "done"]
                  ELSE [book EXCEPT ![c].st = "refused"]
      BY <2>3 DEF Receive, o
    <3>2. CASE book[o].st = "open"
      <4>1. book' = [book EXCEPT ![o].st = "dead", ![c].st = "done"]
        BY <3>1, <3>2
      <4>2. book'[c].st = "done" /\ book'[o] = [book[o] EXCEPT !.st = "dead"]
        BY <1>1, <1>2, <4>1 DEF AInv, Types, Taken
      <4> QED BY <1>1, <1>2, <3>2, <4>2 DEF Taken
    <3>3. CASE book[o].st # "open"
      <4>1. book' = [book EXCEPT ![c].st = "refused"]
        BY <3>1, <3>3
      <4>2. book'[c].st = "refused" /\ book'[c].ex = book[c].ex /\ book'[o] = book[o]
        BY <1>1, <1>2, <4>1 DEF AInv, Types, Taken
      <4> QED BY <1>1, <4>2
    <3> QED BY <3>2, <3>3
  <2>4. call[c].ask.op \in Posts
    BY <1>1 DEF AInv, SentOnce
  <2> QED BY <2>1, <2>2, <2>3, <2>4 DEF Posts
<1>4. OrderIs(c)'
  BY <1>1, <1>2, <1>3 DEF OrderIs, Other, o
<1>5. OrderIs(o)'
  <2>1. Other(o) = c
    BY <1>1, OtherIsCall
  <2>2. OrderIs(o) /\ (book[o].st = "open" => net[o] = "in")
    BY <1>1 DEF RInv, OrderIs
  <2>3. book[o].st # "done"
    BY <1>1, <2>1, <2>2 DEF OrderIs
  <2> QED BY <1>1, <1>2, <1>3, <2>1, <2>2, <2>3 DEF OrderIs, Other
<1>6. Remains(c) /\ Remains(o)
  <2>1. Remains(c)
    BY <1>1, <1>2 DEF Remains, Taken
  <2>2. Remains(o)
    BY <1>1, <1>2, <1>3 DEF Remains, Taken
  <2> QED BY <2>1, <2>2
<1>7. ASSUME NEW d \in Calls PROVE Answered(d)'
  BY <1>1, <1>6, CallRemains
<1> QED BY <1>1, <1>4, <1>5, <1>7 DEF RInv

LEMMA ExecutesIsTrue == ASSUME AInv, AInv', RInv, NEW c \in Calls, Executes(c) PROVE RInv'
<1>1. /\ book[c].st = "open" /\ net[c] = "in" /\ net' = net /\ call' = call /\ setup' = setup
      /\ book' = [book EXCEPT ![c].st = "filled", ![c].ex = 2] /\ \A d \in Calls : book[d] \in Taken
  BY DEF Executes, RInv, OrderIs, AInv, Types
<1>2. /\ book'[c].st = "filled" /\ book'[c].ex = 2 /\ book'[c].n = book[c].n /\ book'[c].legs = book[c].legs
      /\ \A d \in Calls \ {c} : book'[d] = book[d]
  BY <1>1 DEF AInv, Types, Taken
<1>3. ASSUME NEW d \in Calls PROVE OrderIs(d)'
  <2>1. CASE d = c
    BY <1>1, <1>2, <2>1 DEF RInv, OrderIs
  <2>2. CASE d # c
    <3>1. OrderIs(d) /\ book'[d] = book[d] /\ net'[d] = net[d] /\ (book[d].st = "done" => book[Other(d)].st = "dead")
      BY ZenonT(40), <1>1, <1>2, <2>2 DEF RInv, OrderIs
    <3>2. book[d].st = "done" => book'[Other(d)].st = "dead"
      BY <1>1, <1>2, <3>1, OtherIsCall
    <3> QED BY <3>1, <3>2 DEF OrderIs, Other
  <2> QED BY <2>1, <2>2
<1>4. ASSUME NEW d \in Calls PROVE Remains(d)
  <2>1. book[d].ex \in 0..2
    BY <1>1 DEF Taken
  <2>2. CASE d = c
    BY <1>1, <1>2, <2>1, <2>2 DEF Remains
  <2>3. CASE d # c
    <3>1. book'[d] = book[d] /\ net'[d] = net[d]
      BY <1>1, <1>2, <2>3
    <3>2. book[d].ex <= book[d].ex
      BY <2>1
    <3>3. book[d].ex <= book'[d].ex
      BY <3>1, <3>2
    <3> QED BY <1>1, <3>1, <3>3 DEF Remains
  <2> QED BY <2>2, <2>3
<1>5. ASSUME NEW d \in Calls PROVE Answered(d)'
  BY <1>1, <1>4, CallRemains
<1> QED BY <1>3, <1>5 DEF RInv

\* A call that goes on has no result yet; one that fails has an error.
LEMMA GoesOn ==
  ASSUME AInv, RInv, NEW c \in Calls, call[c].pc # "done", NEW p, p # "done", NEW g, NEW t
  PROVE  /\ At(c, p).pc = p /\ At(c, p).ex = 0 /\ At(c, p).kind = "none"
         /\ [At(c, p) EXCEPT !.good = g].pc = p /\ [At(c, p) EXCEPT !.good = g].ex = 0
         /\ [At(c, p) EXCEPT !.good = g].kind = "none"
         /\ [At(c, p) EXCEPT !.tries = t].pc = p /\ [At(c, p) EXCEPT !.tries = t].ex = 0
         /\ [At(c, p) EXCEPT !.tries = t].kind = "none"
<1>1. call[c] \in CallRecords /\ call[c].ex = 0 /\ call[c].kind = "none"
  BY DEF AInv, Types, RInv, Answered
<1>2. At(c, p) = [call[c] EXCEPT !.pc = p, !.age = 0]
  BY DEF At
<1> QED BY <1>1, <1>2 DEF CallRecords

LEMMA Fails ==
  ASSUME AInv, NEW c \in Calls
  PROVE  Ends(c, "threw", 0).pc = "done" /\ TrueOf(setup.broker, Ends(c, "threw", 0), book[c], book[Other(c)])
  BY EndsGives, ThrewIsTrue

\* A step of one call that moves only its own record and what no result speaks of.
LEMMA PutTells ==
  ASSUME AInv, RInv, NEW c \in Calls, NEW r, call' = [call EXCEPT ![c] = r],
         \/ r.pc # "done" /\ r.ex = 0 /\ r.kind = "none"
         \/ r.pc = "done" /\ TrueOf(setup.broker, r, book[c], book[Other(c)]),
         \A d \in Calls : SameOrder(d)
  PROVE  RInv'
<1>1. ASSUME NEW d \in Calls PROVE Told(d)
  BY DEF Told, AInv, Types
<1> QED BY <1>1, QuietKeeps

LEMMA CallTells == ASSUME AInv, RInv, NEW c \in Calls, Call(c) PROVE RInv'
<1>1. PICK a, master :
        Put(c, IF Blocked(setup.broker, a, master) THEN [[call[c] EXCEPT !.ask = a] EXCEPT !.pc = "done", !.kind = "threw"]
               ELSE IF a.op = "openOco" /\ setup.broker # "spot" THEN [[call[c] EXCEPT !.ask = a] EXCEPT !.pc = "done", !.kind = "null"]
               ELSE [[call[c] EXCEPT !.ask = a] EXCEPT !.pc = First(setup.broker, a)])
  BY DEF Call
<1>2. /\ call[c] \in CallRecords /\ call[c].ex = 0 /\ call[c].kind = "none"
      /\ \A d \in Calls : SameOrder(d)
  BY DEF Call, AInv, Types, RInv, Answered, SameOrder
<1>3. First(setup.broker, a) # "done"
  BY BrokerKnown DEF First, AInv, Types
<1> DEFINE x == [[call[c] EXCEPT !.ask = a] EXCEPT !.pc = "done", !.kind = "threw"]
           y == [[call[c] EXCEPT !.ask = a] EXCEPT !.pc = "done", !.kind = "null"]
           z == [[call[c] EXCEPT !.ask = a] EXCEPT !.pc = First(setup.broker, a)]
<1>4. x.pc = "done" /\ TrueOf(setup.broker, x, book[c], book[Other(c)])
  <2>1. x.pc = "done" /\ x.kind = "threw" /\ x.ex = 0
    BY <1>2 DEF CallRecords
  <2> HIDE DEF x
  <2> QED BY <2>1, ThrewIsTrue
<1>5. a.op = "openOco" => y.pc = "done" /\ TrueOf(setup.broker, y, book[c], book[Other(c)])
  <2>1. y.pc = "done" /\ y.kind = "null" /\ y.ask = a
    BY <1>2 DEF CallRecords
  <2> HIDE DEF y
  <2> QED BY <2>1 DEF TrueOf
<1>6. z.pc # "done" /\ z.ex = 0 /\ z.kind = "none"
  BY <1>2, <1>3 DEF CallRecords
<1>7. Put(c, x) \/ (a.op = "openOco" /\ Put(c, y)) \/ Put(c, z)
  BY <1>1
<1> HIDE DEF x, y, z
<1> QED BY <1>2, <1>4, <1>5, <1>6, <1>7, PutTells DEF Put

LEMMA FiltersTells == ASSUME AInv, RInv, NEW c \in Calls, Filters(c) PROVE RInv'
<1>1. call[c] \in CallRecords /\ call[c].pc = "filters" /\ \A d \in Calls : SameOrder(d)
  BY DEF Filters, AInv, Types, SameOrder
<1>2. \/ call' = call
      \/ Put(c, Ends(c, "threw", 0))
      \/ Put(c, [At(c, "send") EXCEPT !.tries = 0])
      \/ Put(c, [call[c] EXCEPT !.tries = @ + 1])
  BY DEF Filters
<1>3. CASE call' = call
  BY <1>1, <1>3, QuietKeeps DEF Told
<1>4. CASE Put(c, Ends(c, "threw", 0))
  BY <1>1, <1>4, Fails, PutTells DEF Put
<1>5. CASE Put(c, [At(c, "send") EXCEPT !.tries = 0])
  <2> DEFINE r == [At(c, "send") EXCEPT !.tries = 0]
  <2>1. r.pc # "done" /\ r.ex = 0 /\ r.kind = "none"
    BY <1>1, GoesOn
  <2>2. call' = [call EXCEPT ![c] = r]
    BY <1>5 DEF Put
  <2> HIDE DEF r
  <2> QED BY <1>1, <2>1, <2>2, PutTells
<1>6. CASE Put(c, [call[c] EXCEPT !.tries = @ + 1])
  <2> DEFINE r == [call[c] EXCEPT !.tries = @ + 1]
  <2>1. call[c].ex = 0 /\ call[c].kind = "none"
    BY <1>1 DEF RInv, Answered
  <2>2. r.pc # "done" /\ r.ex = 0 /\ r.kind = "none"
    BY <1>1, <2>1 DEF CallRecords
  <2>3. call' = [call EXCEPT ![c] = r]
    BY <1>6 DEF Put
  <2> HIDE DEF r
  <2> QED BY <1>1, <2>2, <2>3, PutTells
<1> QED BY <1>2, <1>3, <1>4, <1>5, <1>6

LEMMA TokenTells ==
  ASSUME AInv, RInv, NEW c \in Calls, Hash(c) \/ UseToken(c) \/ JoinMint(c) \/ StartMint(c)
  PROVE  RInv'
<1>1. call[c].pc # "done" /\ \A d \in Calls : SameOrder(d)
  BY DEF Hash, UseToken, JoinMint, StartMint, SameOrder
<1>2. PICK r : /\ call' = [call EXCEPT ![c] = r]
               /\ \/ r = Ends(c, "threw", 0)
                  \/ \E p \in {"token", "joined"} : r = At(c, p)
                  \/ \E p \in {"send", "minting"} : \E g : r = [At(c, p) EXCEPT !.good = g]
  BY DEF Hash, UseToken, JoinMint, StartMint, Put
<1>3. CASE r = Ends(c, "threw", 0)
  BY <1>1, <1>2, <1>3, Fails, PutTells
<1>4. CASE r # Ends(c, "threw", 0)
  <2>1. ASSUME NEW p \in {"token", "joined", "send", "minting"}, NEW g
        PROVE  /\ At(c, p).pc # "done" /\ At(c, p).ex = 0 /\ At(c, p).kind = "none"
               /\ [At(c, p) EXCEPT !.good = g].pc # "done" /\ [At(c, p) EXCEPT !.good = g].ex = 0
               /\ [At(c, p) EXCEPT !.good = g].kind = "none"
    <3>1. p # "done"
      OBVIOUS
    <3> QED BY <1>1, <3>1, GoesOn
  <2>2. r.pc # "done" /\ r.ex = 0 /\ r.kind = "none"
    <3>1. CASE \E p \in {"token", "joined"} : r = At(c, p)
      BY <2>1, <3>1
    <3>2. CASE \E p \in {"send", "minting"} : \E g : r = [At(c, p) EXCEPT !.good = g]
      BY <2>1, <3>2
    <3> QED BY <1>2, <1>4, <3>1, <3>2
  <2> QED BY <1>1, <1>2, <2>2, PutTells
<1> QED BY <1>3, <1>4

LEMMA MintsTells == ASSUME AInv, RInv, NEW c \in Calls, Mints(c) PROVE RInv'
<1>1. /\ \A d \in Calls : SameOrder(d)
      /\ \A d \in Woken(c) : d \in Calls /\ call[d].pc # "done"
  BY DEF Mints, Minted, MintFails, Woken, SameOrder
<1>2. ASSUME NEW d \in Calls PROVE Told(d)
  <2>1. CASE d \notin Woken(c)
    BY <2>1 DEF Mints, Minted, MintFails, Wake, Told
  <2>2. CASE d \in Woken(c) /\ Minted(c)
    <3>1. call'[d] = [At(d, "send") EXCEPT !.good = call[c].good]
      BY <2>2 DEF Minted, Wake
    <3> QED BY <1>1, <2>2, <3>1, GoesOn DEF Told
  <2>3. CASE d \in Woken(c) /\ MintFails(c)
    <3>1. call'[d] = Ends(d, "threw", 0)
      BY <2>3 DEF MintFails, Wake
    <3> QED BY <3>1, Fails DEF Told
  <2> QED BY <2>1, <2>2, <2>3 DEF Mints
<1> QED BY <1>1, <1>2, QuietKeeps

LEMMA SendTells == ASSUME AInv, RInv, NEW c \in Calls, Send(c) PROVE RInv'
<1> DEFINE r == [call[c] EXCEPT !.pc = "sent", !.age = 0]
<1>1. call[c] \in CallRecords /\ call[c].pc = "send" /\ call[c].ex = 0 /\ call[c].kind = "none"
  BY DEF Send, AInv, Types, RInv, Answered
<1>2. r.pc # "done" /\ r.ex = 0 /\ r.kind = "none" /\ call' = [call EXCEPT ![c] = r]
  BY <1>1 DEF Send, Put, CallRecords
<1>3. ASSUME NEW d \in Calls PROVE SameOrder(d)
  <2>1. net[c] = "no" /\ net \in [Calls -> {"no", "flying", "in"}] /\ \A e \in Calls : book[e] \in Taken
    BY <1>1 DEF AInv, Types, SentOnce
  <2>2. book' = book \/ \E x : book' = [book EXCEPT ![c].body = x]
    BY DEF Send
  <2>3. net'[d] = "in" <=> net[d] = "in"
    BY <2>1 DEF Send
  <2>4. /\ book'[d].st = book[d].st /\ book'[d].ex = book[d].ex
        /\ book'[d].legs = book[d].legs /\ book'[d].n = book[d].n
    BY <2>1, <2>2 DEF AInv, Types, Taken
  <2> QED BY <2>3, <2>4 DEF Send, SameOrder
<1> HIDE DEF r
<1> QED BY <1>2, <1>3, PutTells

LEMMA AnswerTells == ASSUME AInv, RInv, NEW c \in Calls, Answer(c) PROVE RInv'
<1>1. /\ call[c] \in CallRecords /\ call[c].pc = "sent" /\ call[c].ex = 0 /\ call[c].kind = "none"
      /\ \A d \in Calls : SameOrder(d)
  BY DEF Answer, AInv, Types, RInv, Answered, SameOrder
<1>2. PICK ans \in Answers(c) :
        Put(c, IF Retried(setup.broker, call[c].ask.op) /\ Again(c, ans.how)
               THEN [call[c] EXCEPT !.pc = IF setup.broker \in Minters THEN "token" ELSE "send", !.tries = @ + 1]
               ELSE Result(c, ans))
  BY DEF Answer
<1>3. CASE Retried(setup.broker, call[c].ask.op) /\ Again(c, ans.how)
  <2> DEFINE p == IF setup.broker \in Minters THEN "token" ELSE "send"
             r == [call[c] EXCEPT !.pc = p, !.tries = @ + 1]
  <2>1. p # "done" /\ call' = [call EXCEPT ![c] = r]
    BY <1>2, <1>3 DEF Put
  <2> HIDE DEF p
  <2>2. r.pc # "done" /\ r.ex = 0 /\ r.kind = "none"
    BY <1>1, <2>1 DEF CallRecords
  <2> HIDE DEF r
  <2> QED BY <1>1, <2>1, <2>2, PutTells
<1>4. CASE ~(Retried(setup.broker, call[c].ask.op) /\ Again(c, ans.how))
  <2>1. call' = [call EXCEPT ![c] = Result(c, ans)]
    BY <1>2, <1>4 DEF Put
  <2>2. PICK k \in Verdicts, e \in 0..2 : Result(c, ans) = Ends(c, k, e)
    BY ResultEnds DEF AInv
  <2>3. Result(c, ans).pc = "done"
    BY <2>2, EndsGives
  <2>4. TrueOf(setup.broker, Result(c, ans), book[c], book[Other(c)])
    BY ResultIsTrue
  <2> QED BY <1>1, <2>1, <2>3, <2>4, PutTells
<1> QED BY <1>3, <1>4

LEMMA TokenRefusedTells == ASSUME AInv, RInv, NEW c \in Calls, TokenRefused(c) PROVE RInv'
<1>1. \A d \in Calls : SameOrder(d)
  BY DEF TokenRefused, SameOrder, AInv, Types
<1>2. PICK k \in Unauthorized(call[c].ask.op) : call' = [call EXCEPT ![c] = Ends(c, k, 0)]
  BY DEF TokenRefused, Put
<1>3. k \in {"false", "cashless", "threw"}
  BY DEF Unauthorized
<1>4. 0 <= book[c].ex /\ 0 <= book[Other(c)].ex
  BY OtherIsCall DEF AInv, Types, Taken
<1>5. Ends(c, k, 0).pc = "done" /\ TrueOf(setup.broker, Ends(c, k, 0), book[c], book[Other(c)])
  BY <1>3, <1>4, EndsGives DEF TrueOf
<1> QED BY <1>1, <1>2, <1>5, PutTells

LEMMA TickTells == ASSUME AInv, RInv, Tick PROVE RInv'
<1>1. \A d \in Calls : SameOrder(d)
  BY DEF Tick, SameOrder
<1>2. ASSUME NEW d \in Calls PROVE Told(d)
  <2>1. CASE ~UnderWay(d)
    BY <2>1 DEF Tick, Told
  <2>2. CASE UnderWay(d)
    <3>1. call[d] \in CallRecords /\ call[d].pc # "done" /\ call[d].ex = 0 /\ call[d].kind = "none"
      BY <2>2 DEF UnderWay, AInv, Types, RInv, Answered
    <3>2. call'[d] = [call[d] EXCEPT !.age = 1, !.good = Left(@)]
      BY <2>2 DEF Tick
    <3> QED BY <3>1, <3>2 DEF Told, CallRecords
  <2> QED BY <2>1, <2>2
<1> QED BY <1>1, <1>2, QuietKeeps

LEMMA ResultsStayTrue == AInv /\ RInv /\ [Next]_vars => RInv'
<1> SUFFICES ASSUME AInv, RInv, [Next]_vars PROVE RInv'
  OBVIOUS
<1>1. AInv'
  BY StepKeeps
<1>2. ASSUME NEW c \in Calls, Step(c) PROVE RInv'
  BY <1>2, FiltersTells, TokenTells, MintsTells, SendTells, AnswerTells, TokenRefusedTells DEF Step
<1>3. ASSUME NEW c \in Calls, Call(c) \/ Receive(c) \/ Executes(c) PROVE RInv'
  BY <1>1, <1>3, CallTells, ReceiveIsTrue, ExecutesIsTrue
<1>4. CASE UNCHANGED vars
  BY <1>4, QuietKeeps DEF vars, SameOrder, Told
<1> QED BY <1>2, <1>3, <1>4, TickTells DEF Next

LEMMA NothingTold == Init => RInv
<1> SUFFICES ASSUME Init PROVE RInv
  OBVIOUS
<1>1. \A c \in Calls : call[c] = Fresh /\ net[c] = "no" /\ book[c] = NoOrder
  BY DEF Init
<1> QED BY <1>1 DEF RInv, OrderIs, Answered, Fresh, NoOrder

\* ResultsAreTrue, for every set of requests and number of tries: an adapter
\* reports a fill, a rejection, a resting order, a cancel or an OCO only if the
\* exchange has it, and what it reported stays so while the other call goes on. Not
\* so a rejection by KIS or a cancel by Toss, which may be neither (the property
\* leaves them out), as no answer's shape is asked for there.
THEOREM ResultsHold == Spec => []ResultsAreTrue
<1>1. RInv => ResultsAreTrue
  BY OtherIsCall DEF RInv, OrderIs, Answered, TrueOf, ResultsAreTrue
<1> QED BY <1>1, InitKeeps, StepKeeps, NothingTold, ResultsStayTrue, PTL DEF Spec

-----------------------------------------------------------------------------
(* That what leaves is what was asked for, on the exchange's grid.         *)

LEMMA FloorBelow == ASSUME NEW a \in Int, NEW b \in Nat \ {0} PROVE (a \div b) * b <= a
  OBVIOUS

\* A price rounded to the grid from at least a step below lies below.
LEMMA StepBelow ==
  ASSUME NEW x \in Int, NEW t \in Nat \ {0}
  PROVE  RoundTo(x - t, t) \in Int /\ RoundTo(x - t, t) < x
<1> DEFINE n == 2 * (x - t) + t
           q == n \div (2 * t)
<1>1. n \in Int /\ n = 2 * x - t /\ 2 * t \in Nat \ {0} /\ q \in Int
  OBVIOUS
<1>2. q * (2 * t) <= n
  BY <1>1, FloorBelow
<1>3. RoundTo(x - t, t) = q * t
  BY DEF RoundTo
<1> HIDE DEF q, n
<1>4. q * (2 * t) = 2 * (q * t) /\ q * t \in Int
  BY <1>1
<1>5. 2 * (q * t) < 2 * x
  BY <1>1, <1>2, <1>4
<1> QED BY <1>3, <1>4, <1>5

\* What leaves for a request is what OrdersAsAsked says of it.
AsSent(c) ==
  LET a == call[c].ask
      sent == book[c].body
  IN /\ a.op = "place" =>
          /\ sent.half <= a.half
          /\ a.type = "limit" /\ a.kr /\ setup.broker \in Minters =>
               /\ sent.price % KrxTick(sent.price) = 0
               /\ 2 * (sent.price - a.price) \in -KrxTick(a.price)..KrxTick(a.price)
     /\ a.op = "oco" => sent.limit < sent.stop /\ sent.stop < sent.tp
     /\ setup.broker = "toss" => setup.env = "live"

\* A request on its way was let through: an OCO only to spot, its prices compared
\* on the grid it will leave on, and nothing written to Toss but live.
LetThrough(c) ==
  LET a == call[c].ask IN
  /\ a \in Requests[c]
  /\ a.op = "oco" => /\ setup.broker = "spot" /\ call[c].pc \in {"filters", "send", "sent"}
                     /\ call[c].pc # "filters" => /\ inst[Object(c)].filters # "none"
                                                  /\ ~OcoCrossed(a, inst[Object(c)].filters)
  /\ setup.broker = "toss" /\ a.op \in {"place", "cancel"} => setup.env = "live"

Asked(c) ==
  /\ call[c].pc \notin {"idle", "done"} => LetThrough(c)
  /\ net[c] # "no" => AsSent(c)
QInv == \A c \in Calls : Asked(c)

LEMMA OnTheGrid ==
  ASSUME NEW p \in Int
  PROVE  /\ RoundToKrxTick(p) % KrxTick(RoundToKrxTick(p)) = 0
         /\ 2 * (RoundToKrxTick(p) - p) \in -KrxTick(p)..KrxTick(p)
<1>1. CASE p > 0
  <2>1. p \in Nat \ {0}
    BY <1>1
  <2>2. RoundToKrxTick(p) \in Int /\ KrxTick(p) \in Int
    <3>1. KrxTick(p) \in TickSteps
      BY <2>1, Steps
    <3>2. KrxTick(p) \in Nat \ {0}
      BY <3>1 DEF TickSteps
    <3>3. RoundToKrxTick(p) = RoundTo(p, KrxTick(p))
      BY <1>1 DEF RoundToKrxTick
    <3> DEFINE k == KrxTick(p)
               q == (2 * p + k) \div (2 * k)
    <3>4. k \in Nat \ {0} /\ RoundTo(p, k) = q * k
      BY <3>2 DEF RoundTo
    <3> HIDE DEF k
    <3>5. q \in Int
      BY <3>4
    <3> HIDE DEF q
    <3>6. q * k \in Int
      BY <3>4, <3>5
    <3> QED BY <3>2, <3>3, <3>4, <3>6 DEF k
  <2>3. RoundToKrxTick(p) % KrxTick(RoundToKrxTick(p)) = 0
    BY <2>1, RoundedOnTick
  <2>4. /\ 2 * RoundToKrxTick(p) <= 2 * p + KrxTick(p)
        /\ 2 * p - KrxTick(p) < 2 * RoundToKrxTick(p)
    BY <2>1, RoundedIsNear
  <2> QED BY <2>2, <2>3, <2>4
<1>2. CASE p <= 0
  <2>1. RoundToKrxTick(p) = p /\ KrxTick(p) = 1
    BY <1>2 DEF RoundToKrxTick, KrxTick
  <2> QED BY <2>1
<1> QED BY <1>1, <1>2

\* The three prices of an OCO that is not crossed.
LEMMA OcoInOrder ==
  ASSUME NEW c \in Calls, NEW a \in Requests[c], a.op = "oco",
         NEW f \in {"real", "blank"}, ~OcoCrossed(a, f)
  PROVE  OcoBody(a, f).limit < OcoBody(a, f).stop /\ OcoBody(a, f).stop < OcoBody(a, f).tp
<1>1. a.tp \in Int /\ a.sl \in Int /\ TickSize \in Nat \ {0}
  BY Figures, Bounds
<1>2. OcoBody(a, f).tp = Grid(a.tp, f) /\ OcoBody(a, f).stop = Grid(a.sl, f) /\ OcoBody(a, f).limit = StopLimit(a.sl, f)
  BY DEF OcoBody
<1>3. \A x \in Int : Grid(x, f) \in Int
  <2>1. ASSUME NEW x \in Int PROVE RoundTo(x, TickSize) \in Int
    <3>1. (2 * x + TickSize) \div (2 * TickSize) \in Int
      BY <1>1
    <3> QED BY <1>1, <3>1 DEF RoundTo
  <2> QED BY <2>1 DEF Grid
<1>4. Grid(a.sl, f) < Grid(a.tp, f)
  BY <1>1, <1>3 DEF OcoCrossed
<1>5. StopLimit(a.sl, f) < Grid(a.sl, f)
  <2> DEFINE near == ((1998 * a.sl + 1000 * TickSize) \div (2000 * TickSize)) * TickSize
             trigger == RoundTo(a.sl, TickSize)
  <2>1. CASE f # "real"
    BY <1>1, <2>1 DEF StopLimit, Grid
  <2>2. CASE f = "real"
    <3>1. near \in Int
      <4>1. (1998 * a.sl + 1000 * TickSize) \div (2000 * TickSize) \in Int
        BY <1>1
      <4> QED BY <1>1, <4>1
    <3>2. trigger \in Int /\ Grid(a.sl, f) = trigger
      BY <1>1, <1>3, <2>2 DEF Grid
    <3>3. StopLimit(a.sl, f) = IF near >= trigger THEN RoundTo(trigger - TickSize, TickSize) ELSE near
      BY <2>2 DEF StopLimit
    <3> HIDE DEF near, trigger
    <3>4. RoundTo(trigger - TickSize, TickSize) < trigger
      BY <1>1, <3>2, StepBelow
    <3> QED BY <3>1, <3>2, <3>3, <3>4
  <2> QED BY <2>1, <2>2
<1> QED BY <1>2, <1>4, <1>5

\* The body that leaves is as asked.
LEMMA BodyIsAsked ==
  ASSUME AInv, QInv, NEW c \in Calls, Send(c)
  PROVE  AsSent(c)' \/ net'[c] = "no"
<1> DEFINE a == call[c].ask
           b == setup.broker
           f == inst[Object(c)].filters
<1>1. /\ call[c] \in CallRecords /\ call[c].pc = "send" /\ LetThrough(c) /\ net[c] = "no"
      /\ f \in {"none", "real", "blank"} /\ book[c] \in Taken /\ setup' = setup
      /\ call'[c].ask = a
  <2>1. call[c] \in CallRecords /\ call[c].pc = "send" /\ net[c] = "no" /\ setup' = setup
    BY DEF Send, AInv, Types, SentOnce
  <2>2. LetThrough(c)
    BY <2>1 DEF QInv, Asked
  <2>3. f \in {"none", "real", "blank"} /\ book[c] \in Taken
    BY ObjectIsCall DEF AInv, Types, Adapters
  <2>4. call'[c].ask = a
    BY <2>1 DEF Send, Put, AInv, Types, CallRecords
  <2> QED BY <2>1, <2>2, <2>3, <2>4
<1>2. CASE a.op = "place"
  <2>1. a.price \in Int /\ a.half \in Int
    BY <1>1, <1>2, Figures DEF LetThrough
  <2>2. book'[c].body = Body(b, a, f)
    BY <1>1, <1>2 DEF Send, AInv, Types, Taken
  <2>3. Body(b, a, f).half <= a.half
    BY <2>1 DEF Body
  <2>4. ASSUME a.type = "limit", b \in Minters
        PROVE  a.kr => Body(b, a, f).price = RoundToKrxTick(a.price)
    BY <2>4, BrokerKnown DEF Body, Price, AInv, Types
  <2>5. b = "toss" => setup.env = "live"
    BY <1>1, <1>2 DEF LetThrough
  <2> HIDE DEF a, b, f
  <2> QED BY <1>1, <1>2, <2>1, <2>2, <2>3, <2>4, <2>5, OnTheGrid DEF AsSent, a, b
<1>3. CASE a.op = "oco"
  <2>1. /\ a \in Requests[c] /\ b = "spot" /\ f \in {"real", "blank"} /\ ~OcoCrossed(a, f)
    BY <1>1, <1>3 DEF LetThrough
  <2>2. book'[c].body = OcoBody(a, f)
    BY <1>1, <1>3 DEF Send, AInv, Types, Taken
  <2>3. OcoBody(a, f).limit < OcoBody(a, f).stop /\ OcoBody(a, f).stop < OcoBody(a, f).tp
    BY <1>3, <2>1, OcoInOrder
  <2> HIDE DEF a, b, f
  <2> QED BY <1>1, <1>3, <2>1, <2>2, <2>3 DEF AsSent, a, b
<1>4. CASE a.op = "cancel"
  BY <1>1, <1>4 DEF AsSent, LetThrough
<1>5. CASE a.op \notin Posts
  BY <1>1, <1>5 DEF Send
<1> QED BY <1>2, <1>3, <1>4, <1>5 DEF Posts

\* What every other step does with a request: it goes on, ends, is received.
Goes(c) ==
  /\ call'[c].ask = call[c].ask
  /\ \/ call'[c].pc = call[c].pc
     \/ call'[c].pc = "done"
     \/ call[c].pc \in {"hash", "token", "joined", "minting"} /\ call'[c].pc # "idle"
     \/ call[c].pc = "sent" /\ call[c].ask.op \notin Posts /\ call'[c].pc # "idle"
  /\ net'[c] # "no" => net[c] # "no"
  /\ book'[c].body = book[c].body
  /\ inst[Object(c)].filters # "none" => inst'[Object(c)].filters = inst[Object(c)].filters

LEMMA GoesKeeps == ASSUME QInv, setup' = setup, NEW c \in Calls, Goes(c) PROVE Asked(c)'
<1>1. Asked(c)
  BY DEF QInv
<1>2. call'[c].pc \notin {"idle", "done"} => LetThrough(c)'
  <2> SUFFICES ASSUME call'[c].pc \notin {"idle", "done"} PROVE LetThrough(c)'
    OBVIOUS
  <2>1. LetThrough(c)
    BY <1>1 DEF Asked, Goes
  <2>2. Object(c)' = Object(c)
    BY DEF Object
  <2> QED BY <2>1, <2>2 DEF LetThrough, Goes, Posts
<1>3. net'[c] # "no" => AsSent(c)'
  BY <1>1 DEF Asked, AsSent, Goes
<1> QED BY <1>2, <1>3 DEF Asked

\* The steps that start, prepare or send the call c; the other call stands still.
LEMMA Alone ==
  ASSUME AInv, QInv, NEW c \in Calls, setup' = setup, Asked(c)',
         \A d \in Calls \ {c} : call'[d] = call[d] /\ net'[d] = net[d] /\ book'[d].body = book[d].body,
         \A i \in Calls : inst[i].filters # "none" => inst'[i].filters = inst[i].filters
  PROVE  QInv'
<1>1. ASSUME NEW d \in Calls, d # c PROVE Goes(d)
  BY <1>1, ObjectIsCall DEF Goes
<1> QED BY <1>1, GoesKeeps DEF QInv

LEMMA CallAsks == ASSUME AInv, QInv, NEW c \in Calls, Call(c) PROVE QInv'
<1>1. PICK a \in {q \in Requests[c] : Offers(setup.broker, q.op)}, master \in (IF setup.broker = "toss" THEN BOOLEAN ELSE {TRUE}) :
        Put(c, IF Blocked(setup.broker, a, master) THEN [[call[c] EXCEPT !.ask = a] EXCEPT !.pc = "done", !.kind = "threw"]
               ELSE IF a.op = "openOco" /\ setup.broker # "spot" THEN [[call[c] EXCEPT !.ask = a] EXCEPT !.pc = "done", !.kind = "null"]
               ELSE [[call[c] EXCEPT !.ask = a] EXCEPT !.pc = First(setup.broker, a)])
  BY DEF Call
<1>2. call[c] \in CallRecords /\ call[c].pc = "idle" /\ UNCHANGED <<setup, inst, net, book>>
  BY DEF Call, AInv, Types
<1>n. net'[c] = "no"
  BY DEF Call, AInv, SentOnce
<1>3. \/ call'[c].pc = "done"
      \/ ~Blocked(setup.broker, a, master) /\ call'[c].ask = a /\ call'[c].pc = First(setup.broker, a)
  BY <1>1, <1>2 DEF Put, AInv, Types, CallRecords
<1>4. ASSUME call'[c].pc = "done" PROVE Asked(c)'
  BY <1>n, <1>4 DEF Asked
<1>5. ASSUME ~Blocked(setup.broker, a, master), call'[c].ask = a, call'[c].pc = First(setup.broker, a)
      PROVE  Asked(c)'
  <2>1. a.op = "oco" => setup.broker = "spot"
    BY <1>5 DEF Blocked
  <2>2. a.op = "oco" => First(setup.broker, a) = "filters"
    BY <2>1 DEF First, Binance, Minters
  <2>3. setup.broker = "toss" /\ a.op \in {"place", "cancel"} => setup.env = "live"
    BY <1>5 DEF Blocked
  <2>4. LetThrough(c)'
    BY <1>2, <1>5, <2>1, <2>2, <2>3 DEF LetThrough
  <2> QED BY <1>n, <2>4 DEF Asked
<1>6. \A d \in Calls \ {c} : call'[d] = call[d]
  BY <1>1 DEF Put, AInv, Types
<1> QED BY <1>2, <1>3, <1>4, <1>5, <1>6, Alone

LEMMA FiltersAsks == ASSUME AInv, QInv, NEW c \in Calls, Filters(c) PROVE QInv'
<1> DEFINE i == Object(c)
<1>1. /\ call[c] \in CallRecords /\ call[c].pc = "filters" /\ net[c] = "no" /\ i \in Calls
      /\ LetThrough(c) /\ UNCHANGED <<setup, net, book>>
  BY ObjectIsCall DEF Filters, AInv, Types, SentOnce, QInv, Asked
<1>2. \A d \in Calls : inst[d].filters # "none" => inst'[d].filters = inst[d].filters
  BY <1>1 DEF Filters, AInv, Types, Adapters
<1>3. \A d \in Calls \ {c} : call'[d] = call[d]
  BY DEF Filters, Put, AInv, Types
<1>4. \/ call'[c].pc = "done"
      \/ call'[c].ask = call[c].ask /\ call'[c].pc = "filters"
      \/ /\ call'[c].ask = call[c].ask /\ call'[c].pc = "send" /\ inst' = inst
         /\ inst[i].filters # "none"
         /\ call[c].ask.op = "oco" => ~OcoCrossed(call[c].ask, inst[i].filters)
  <2>1. \/ Put(c, Ends(c, "threw", 0))
        \/ call' = call
        \/ Put(c, [call[c] EXCEPT !.tries = @ + 1])
        \/ /\ Put(c, [At(c, "send") EXCEPT !.tries = 0]) /\ inst' = inst
           /\ inst[i].filters # "none"
           /\ call[c].ask.op = "oco" => ~OcoCrossed(call[c].ask, inst[i].filters)
    BY DEF Filters
  <2>2. CASE Put(c, Ends(c, "threw", 0))
    BY <2>2, EndsGives DEF Put, AInv, Types
  <2>3. CASE call' = call
    BY <1>1, <2>3
  <2>4. CASE Put(c, [call[c] EXCEPT !.tries = @ + 1])
    BY <1>1, <2>4 DEF Put, AInv, Types, CallRecords
  <2>5. ASSUME Put(c, [At(c, "send") EXCEPT !.tries = 0])
        PROVE  call'[c].ask = call[c].ask /\ call'[c].pc = "send"
    <3>1. At(c, "send") \in CallRecords /\ At(c, "send").pc = "send" /\ At(c, "send").ask = call[c].ask
      BY AtIsRecord DEF AInv, Stages
    <3> QED BY <2>5, <3>1 DEF Put, AInv, Types, CallRecords
  <2> QED BY <2>1, <2>2, <2>3, <2>4, <2>5
<1>5. Asked(c)'
  <2>1. Object(c)' = Object(c)
    BY <1>1 DEF Object
  <2>2. CASE call'[c].pc = "done"
    BY <1>1, <2>2 DEF Asked
  <2>3. CASE call'[c].ask = call[c].ask /\ call'[c].pc = "filters"
    <3>1. LetThrough(c)'
      BY <1>1, <2>3 DEF LetThrough
    <3> QED BY <1>1, <3>1 DEF Asked
  <2>4. CASE /\ call'[c].ask = call[c].ask /\ call'[c].pc = "send" /\ inst' = inst
             /\ inst[i].filters # "none"
             /\ call[c].ask.op = "oco" => ~OcoCrossed(call[c].ask, inst[i].filters)
    <3>1. LetThrough(c)'
      BY <1>1, <2>1, <2>4 DEF LetThrough
    <3> QED BY <1>1, <3>1 DEF Asked
  <2> QED BY <1>4, <2>2, <2>3, <2>4
<1> QED BY <1>1, <1>2, <1>3, <1>5, Alone

LEMMA SendAsks == ASSUME AInv, QInv, NEW c \in Calls, Send(c) PROVE QInv'
<1>1. /\ call[c] \in CallRecords /\ call[c].pc = "send" /\ setup' = setup /\ inst' = inst /\ LetThrough(c)
      /\ \A d \in Calls : book[d] \in Taken
  BY DEF Send, AInv, Types, QInv, Asked
<1>2. call'[c].pc = "sent" /\ call'[c].ask = call[c].ask /\ \A d \in Calls \ {c} : call'[d] = call[d]
  BY <1>1 DEF Send, Put, AInv, Types, CallRecords
<1>3. \A d \in Calls \ {c} : net'[d] = net[d] /\ book'[d] = book[d]
  BY DEF Send, AInv, Types
<1>4. LetThrough(c)'
  <2>1. Object(c)' = Object(c)
    BY <1>1 DEF Object
  <2> QED BY <1>1, <1>2, <2>1 DEF LetThrough
<1>5. Asked(c)'
  BY <1>4, BodyIsAsked DEF Asked
<1> QED BY <1>1, <1>2, <1>3, <1>5, Alone

\* The steps that only move a request on, one call or both.
LEMMA OnwardAsks ==
  ASSUME AInv, QInv, setup' = setup, \A c \in Calls : Goes(c)
  PROVE  QInv'
  BY GoesKeeps DEF QInv

LEMMA TokenAsks ==
  ASSUME AInv, QInv, NEW c \in Calls,
         Hash(c) \/ UseToken(c) \/ JoinMint(c) \/ StartMint(c) \/ TokenRefused(c)
  PROVE  QInv'
<1>1. /\ call[c] \in CallRecords /\ setup' = setup /\ book' = book /\ Object(c) \in Calls
      /\ call[c].pc \in {"hash", "token", "sent"}
  BY ObjectIsCall DEF Hash, UseToken, JoinMint, StartMint, TokenRefused, AInv, Types
<1>2. \A d \in Calls : (net'[d] # "no" => net[d] # "no") /\ inst'[d].filters = inst[d].filters
  BY <1>1 DEF Hash, UseToken, JoinMint, StartMint, TokenRefused, AInv, Types, Adapters
<1>3. \A d \in Calls \ {c} : call'[d] = call[d]
  BY DEF Hash, UseToken, JoinMint, StartMint, TokenRefused, Put, AInv, Types
<1>4. /\ call'[c].ask = call[c].ask /\ call'[c].pc # "idle"
      /\ call'[c].pc = "done" \/ call[c].pc \in {"hash", "token"}
  <2>1. PICK r : /\ call' = [call EXCEPT ![c] = r]
                 /\ \/ \E k : r = Ends(c, k, 0)
                    \/ /\ call[c].pc \in {"hash", "token"}
                       /\ \E p \in {"token", "joined", "send", "minting"} : \E g : r = At(c, p) \/ r = [At(c, p) EXCEPT !.good = g]
    BY DEF Hash, UseToken, JoinMint, StartMint, TokenRefused, Put
  <2>2. call'[c] = r
    BY <2>1 DEF AInv, Types
  <2>3. CASE \E k : r = Ends(c, k, 0)
    BY <2>2, <2>3, EndsGives
  <2>4. ASSUME NEW p \in {"token", "joined", "send", "minting"}, NEW g
        PROVE  /\ At(c, p).ask = call[c].ask /\ At(c, p).pc = p
               /\ [At(c, p) EXCEPT !.good = g].ask = call[c].ask /\ [At(c, p) EXCEPT !.good = g].pc = p
    BY <1>1 DEF At, CallRecords
  <2>5. CASE ~\E k : r = Ends(c, k, 0)
    <3>1. PICK p \in {"token", "joined", "send", "minting"} : \E g : r = At(c, p) \/ r = [At(c, p) EXCEPT !.good = g]
      BY <2>1, <2>5
    <3>2. \A g : /\ At(c, p).ask = call[c].ask /\ At(c, p).pc = p
                  /\ [At(c, p) EXCEPT !.good = g].ask = call[c].ask /\ [At(c, p) EXCEPT !.good = g].pc = p
      BY <2>4
    <3>3. r.ask = call[c].ask /\ r.pc = p
      BY <3>1, <3>2
    <3> QED BY <2>1, <2>2, <2>5, <3>3
  <2> QED BY <2>3, <2>5
<1>5. ASSUME NEW d \in Calls PROVE Goes(d)
  BY <1>1, <1>2, <1>3, <1>4, ObjectIsCall DEF Goes
<1> QED BY <1>1, <1>5, OnwardAsks

LEMMA MintsAsks == ASSUME AInv, QInv, NEW c \in Calls, Mints(c) PROVE QInv'
<1>1. /\ UNCHANGED <<setup, net, book>> /\ Object(c) \in Calls
      /\ \A d \in Woken(c) : d \in Calls /\ call[d].pc \in {"minting", "joined"}
  BY ObjectIsCall DEF Mints, Minted, MintFails, Woken
<1>2. ASSUME NEW d \in Calls PROVE inst'[d].filters = inst[d].filters
  <2>1. inst \in [Calls -> Adapters] /\ inst[d] \in Adapters
    BY DEF AInv, Types
  <2>2. CASE Minted(c)
    <3>1. PICK x, y, m : inst' = [inst EXCEPT ![Object(c)].exp = x, ![Object(c)].real = y, ![Object(c)].minter = m]
      BY <2>2 DEF Minted
    <3> QED BY <1>1, <2>1, <3>1 DEF Adapters
  <2>3. CASE MintFails(c)
    BY <1>1, <2>1, <2>3 DEF MintFails, Adapters
  <2> QED BY <2>2, <2>3 DEF Mints
<1>3. ASSUME NEW d \in Calls PROVE Goes(d)
  <2>1. CASE d \notin Woken(c)
    <3>1. call'[d] = call[d]
      BY <2>1 DEF Mints, Minted, MintFails, Wake
    <3> QED BY <1>1, <1>2, <3>1, ObjectIsCall DEF Goes
  <2>2. CASE d \in Woken(c)
    <3>1. call[d] \in CallRecords
      BY DEF AInv, Types
    <3>2. call'[d] = [At(d, "send") EXCEPT !.good = call[c].good] \/ call'[d] = Ends(d, "threw", 0)
      BY <2>2 DEF Mints, Minted, MintFails, Wake
    <3> DEFINE s == At(d, "send")
    <3>3. s \in CallRecords /\ s.pc = "send" /\ s.ask = call[d].ask
      BY AtIsRecord DEF AInv, Stages
    <3>4. call'[d] = [s EXCEPT !.good = call[c].good] \/ call'[d] = Ends(d, "threw", 0)
      BY <3>2
    <3> HIDE DEF s
    <3>5. call'[d].ask = call[d].ask /\ call'[d].pc \in {"send", "done"}
      <4>1. CASE call'[d] = [s EXCEPT !.good = call[c].good]
        BY <3>3, <4>1 DEF CallRecords
      <4>2. CASE call'[d] = Ends(d, "threw", 0)
        BY <4>2, EndsGives
      <4> QED BY <3>4, <4>1, <4>2
    <3> QED BY <1>1, <1>2, <2>2, <3>5, ObjectIsCall DEF Goes
  <2> QED BY <2>1, <2>2
<1> QED BY <1>1, <1>3, OnwardAsks

LEMMA AnswerAsks == ASSUME AInv, QInv, NEW c \in Calls, Answer(c) PROVE QInv'
<1>1. /\ call[c] \in CallRecords /\ call[c].pc = "sent" /\ UNCHANGED <<setup, inst, net, book>>
      /\ \A d \in Calls \ {c} : call'[d] = call[d]
  BY DEF Answer, Put, AInv, Types
<1>2. PICK ans \in Answers(c) :
        Put(c, IF Retried(setup.broker, call[c].ask.op) /\ Again(c, ans.how)
               THEN [call[c] EXCEPT !.pc = IF setup.broker \in Minters THEN "token" ELSE "send", !.tries = @ + 1]
               ELSE Result(c, ans))
  BY DEF Answer
<1>3. CASE Retried(setup.broker, call[c].ask.op) /\ Again(c, ans.how)
  <2>1. call[c].ask.op \notin Posts
    BY <1>3 DEF Retried, Posts
  <2>2. call'[c].ask = call[c].ask /\ call'[c].pc # "idle"
    BY <1>1, <1>2, <1>3 DEF Put, AInv, Types, CallRecords
  <2>3. Goes(c)
    BY <1>1, <2>1, <2>2 DEF Goes
  <2>4. ASSUME NEW d \in Calls PROVE Goes(d)
    BY <1>1, <2>3 DEF Goes
  <2> QED BY <1>1, <2>4, OnwardAsks
<1>4. CASE ~(Retried(setup.broker, call[c].ask.op) /\ Again(c, ans.how))
  <2>1. PICK k \in Verdicts, e \in 0..2 : Result(c, ans) = Ends(c, k, e)
    BY ResultEnds DEF AInv
  <2>2. call'[c] = Ends(c, k, e)
    BY <1>2, <1>4, <2>1 DEF Put, AInv, Types
  <2>3. call'[c].ask = call[c].ask /\ call'[c].pc = "done"
    BY <2>2, EndsGives
  <2>4. ASSUME NEW d \in Calls PROVE Goes(d)
    BY <1>1, <2>3 DEF Goes
  <2> QED BY <1>1, <2>4, OnwardAsks
<1> QED BY <1>3, <1>4

LEMMA ExchangeAsks ==
  ASSUME AInv, QInv, NEW c \in Calls, Receive(c) \/ Executes(c)
  PROVE  QInv'
<1>1. UNCHANGED <<setup, call, inst>> /\ \A d \in Calls : net'[d] # "no" => net[d] # "no"
  BY DEF Receive, Executes, AInv, Types
<1>2. ASSUME NEW d \in Calls PROVE book'[d].body = book[d].body
  <2>1. \A e \in Calls : book[e] \in Taken
    BY DEF AInv, Types
  <2>2. CASE Executes(c)
    BY <2>1, <2>2 DEF Executes, AInv, Types, Taken
  <2>3. CASE Receive(c)
    <3>1. call[c].ask.op \in Posts /\ book \in [Calls -> Taken]
      BY <2>3 DEF Receive, AInv, SentOnce, Types
    <3>2. CASE call[c].ask.op = "place"
      <4>1. PICK w \in Outcomes : \E k :
              book' = [book EXCEPT ![c].st = w[1], ![c].ex = w[2], ![c].n = @ + k]
        BY <2>3, <3>2 DEF Receive
      <4> QED BY <2>1, <3>1, <4>1 DEF Taken
    <3>3. CASE call[c].ask.op = "oco"
      <4>1. PICK l \in SUBSET {"tp", "sl"} :
              book' = [book EXCEPT ![c].st = IF l = {} THEN "refused" ELSE "open", ![c].legs = l,
                                   ![c].n = @ + IF l = {} THEN 0 ELSE 1]
        BY <2>3, <3>3 DEF Receive
      <4> QED BY <2>1, <3>1, <4>1 DEF Taken
    <3>4. CASE call[c].ask.op = "cancel"
      <4>1. \/ book' = [book EXCEPT ![Other(c)].st = "dead", ![c].st = "done"]
            \/ book' = [book EXCEPT ![c].st = "refused"]
        BY <2>3, <3>4 DEF Receive
      <4> QED BY <2>1, <3>1, <4>1, OtherIsCall DEF Taken
    <3> QED BY <3>1, <3>2, <3>3, <3>4 DEF Posts
  <2> QED BY <2>2, <2>3
<1>3. ASSUME NEW d \in Calls PROVE Goes(d)
  BY <1>1, <1>2 DEF Goes
<1> QED BY <1>1, <1>3, OnwardAsks

LEMMA TickAsks == ASSUME AInv, QInv, Tick PROVE QInv'
<1>1. ASSUME NEW d \in Calls PROVE Goes(d)
  <2>1. call[d] \in CallRecords /\ \A i \in Calls : inst[i] \in Adapters
    BY DEF AInv, Types
  <2>2. call'[d].ask = call[d].ask /\ call'[d].pc = call[d].pc
    BY <2>1 DEF Tick, CallRecords
  <2>3. \A i \in Calls : inst'[i].filters = inst[i].filters
    BY <2>1 DEF Tick, Adapters
  <2> QED BY <2>2, <2>3, ObjectIsCall DEF Tick, Goes
<1> QED BY <1>1, OnwardAsks DEF Tick

LEMMA AskedStays == AInv /\ QInv /\ [Next]_vars => QInv'
<1> SUFFICES ASSUME AInv, QInv, [Next]_vars PROVE QInv'
  OBVIOUS
<1>1. ASSUME NEW c \in Calls, Step(c) PROVE QInv'
  BY <1>1, FiltersAsks, TokenAsks, MintsAsks, SendAsks, AnswerAsks DEF Step
<1>2. ASSUME NEW c \in Calls, Call(c) \/ Receive(c) \/ Executes(c) PROVE QInv'
  BY <1>2, CallAsks, ExchangeAsks
<1>3. CASE UNCHANGED vars
  BY <1>3, OnwardAsks DEF vars, Goes
<1> QED BY <1>1, <1>2, <1>3, TickAsks DEF Next

\* OrdersAsAsked, for every set of requests, step of the grid and number of tries:
\* a Korean limit order leaves on the grid and near its price, no order leaves
\* larger than asked, an OCO's three prices keep their order, and Toss gets an
\* order only when live.
THEOREM OrdersLeaveAsAsked == Spec => []OrdersAsAsked
<1>1. Init => QInv
  BY DEF Init, QInv, Asked, Fresh
<1>2. QInv => OrdersAsAsked
  BY DEF QInv, Asked, AsSent, OrdersAsAsked
<1> QED BY <1>1, <1>2, InitKeeps, StepKeeps, AskedStays, PTL DEF Spec

=============================================================================
