---------------------------- MODULE BrokerAdapter ----------------------------
(* The broker adapters (brokers/binance.ts, kis.ts, kiwoom.ts, toss.ts over     *)
(* base.ts): two calls, of one adapter object or of two, each a chain of HTTP   *)
(* requests with an await between them, against an exchange that may lose,      *)
(* delay, refuse or misanswer any of them.                                      *)
(*   setup    broker, environment and whether the calls share an adapter object *)
(*            (getAdapter makes one per caller)                                 *)
(*   call     where each call stands: pc, tries of the present request, age of  *)
(*            the request under way, what is left of its token, its result      *)
(*   inst     per adapter object: what is left of its token by its own record   *)
(*            and in truth, who mints, what symbolFilters cached                *)
(*   net      the call's POST: not sent, under way, arrived, lost               *)
(*   book     what the exchange made of the POST                                *)
(* A tick is the 10 s timeout of a request. Quantities are halves of a share.   *)
EXTENDS Integers, FiniteSets, KrxTick
CONSTANTS Calls, Requests, Brokers, Attempts, Skew, Ttl, TickSize

ASSUME Bounds == /\ IsFiniteSet(Calls) /\ Cardinality(Calls) = 2
                 /\ Brokers \subseteq {"spot", "futures", "kis", "kiwoom", "toss"}
                 /\ Attempts \in Nat \ {0} /\ TickSize \in Nat \ {0}
                 /\ Skew \in Nat /\ Skew > 1 /\ Ttl \in Nat /\ Ttl > 2
\* The figures of an order are numbers.
ASSUME Figures == \A c \in Calls : \A a \in Requests[c] :
                    /\ a.op = "place" => a.price \in Int /\ a.half \in Int
                    /\ a.op = "oco" => a.tp \in Int /\ a.sl \in Int

VARIABLES setup, call, inst, net, book
vars == <<setup, call, inst, net, book>>

Binance == {"spot", "futures"}
Minters == {"kis", "kiwoom", "toss"}
Nothing == [op |-> "none"]
NoOrder == [st |-> "none", ex |-> 0, n |-> 0, legs |-> {}, body |-> Nothing]
Fresh == [pc |-> "idle", ask |-> Nothing, tries |-> 0, age |-> 0, good |-> 0, kind |-> "none", ex |-> 0]
NewAdapter == [exp |-> 0, real |-> 0, minter |-> {}, filters |-> "none"]

\* Only Toss looks at the environment and, as a call begins, at the master switch.
Setups == {s \in [broker : Brokers, env : {"live", "safe"}, shared : BOOLEAN] : s.broker # "toss" => s.env = "live"}
Init == /\ setup \in Setups
        /\ call = [c \in Calls |-> Fresh] /\ inst = [c \in Calls |-> NewAdapter]
        /\ net = [c \in Calls |-> "no"] /\ book = [c \in Calls |-> NoOrder]

Other(c) == CHOOSE d \in Calls : d # c
Object(c) == IF setup.shared THEN CHOOSE d \in Calls : TRUE ELSE c
Posts == {"place", "cancel", "oco"}
Put(c, r) == call' = [call EXCEPT ![c] = r]
At(c, p) == [call[c] EXCEPT !.pc = p, !.age = 0]
Ends(c, k, e) == [call[c] EXCEPT !.pc = "done", !.kind = k, !.ex = e, !.tries = 0, !.age = 0, !.good = 0]

----
\* base.ts: what withRetry takes for a passing failure, and the requests each
\* adapter sends through it - reads, never a POST or a DELETE.
Retryable(how) == how \in {"lost", "429", "5xx"}
Retried_Writes(b, op) == b \in Binance \cup {"toss"} \/ (b = "kiwoom" /\ op = "candles")
Retried(b, op) == \/ b \in Binance \cup {"toss"} /\ op \notin Posts
                  \/ b = "kiwoom" /\ op = "candles"
Again_Once(c, how) == Retryable(how) /\ call[c].tries < Attempts
Again(c, how) == Retryable(how) /\ call[c].tries + 1 < Attempts

\* The optional methods: an order's state is asked of Binance and Toss, candles of
\* Kiwoom, whose one retried read they are.
Offers(b, op) == CASE op = "order" -> b \in Binance \cup {"toss"}
                   [] op = "candles" -> b = "kiwoom" \* (Toss's are one more retried read)
                   [] op \in {"oco", "openOco"} -> b \in Binance
                   [] OTHER -> TRUE

\* What an adapter refuses before it sends anything: resting stop orders of the
\* Korean brokers, amounts outside US market orders, writes to Toss without live
\* and (for orders) the master switch, OCOs outside spot.
Blocked(b, a, master) ==
  \/ a.op = "place" /\ a.type = "stop" /\ b \notin Binance
  \/ a.op = "place" /\ a.amount /\ b = "toss" /\ (a.kr \/ a.type # "market")
  \/ a.op \in {"place", "cancel"} /\ b = "toss" /\ setup.env # "live"
  \/ a.op = "place" /\ b = "toss" /\ ~master
  \/ a.op = "oco" /\ b # "spot"
  \/ a.op = "open" /\ b = "kis"

\* The body of an order on the wire: price on the grid, quantity in whole shares
\* where the adapter cuts it (KIS always, Toss but for US market orders).
Grid(p, filters) == IF filters = "real" THEN RoundTo(p, TickSize) ELSE p
Price(b, a, filters) ==
  CASE a.type = "market" -> 0
    [] a.type # "market" /\ b \in Binance -> Grid(a.price, filters)
    [] a.type # "market" /\ b \notin Binance -> IF a.kr THEN RoundToKrxTick(a.price) ELSE a.price
Whole(b, a) == b = "kis" \/ (b = "toss" /\ (a.kr \/ a.type # "market"))
Body(b, a, filters) == [op |-> "place", type |-> a.type, price |-> Price(b, a, filters),
                        half |-> IF Whole(b, a) THEN 2 * (a.half \div 2) ELSE a.half]

\* The three prices of an OCO; a stop limit the grid pushed up to the trigger goes
\* one step under it. Without filters the prices go out as they are.
StopLimit_Near(sl, filters) == IF filters # "real" THEN sl - 1 ELSE ((1998 * sl + 1000 * TickSize) \div (2000 * TickSize)) * TickSize
StopLimit(sl, filters) ==
  LET near == ((1998 * sl + 1000 * TickSize) \div (2000 * TickSize)) * TickSize
      trigger == RoundTo(sl, TickSize)
  IN IF filters # "real" THEN sl - 1 ELSE IF near >= trigger THEN RoundTo(trigger - TickSize, TickSize) ELSE near
OcoBody(a, filters) == [op |-> "oco", tp |-> Grid(a.tp, filters), stop |-> Grid(a.sl, filters), limit |-> StopLimit(a.sl, filters)]
OcoCrossed(a, filters) == Grid(a.tp, filters) <= Grid(a.sl, filters)

First(b, a) == CASE b \in Minters -> IF b = "kis" /\ a.op \in {"place", "cancel"} THEN "hash" ELSE "token"
                 [] b \in Binance -> IF a.op = "oco" \/ (a.op = "place" /\ a.type # "market") THEN "filters" ELSE "send"

----
\* A call starts: it is refused, answered at once (no OCO outside spot), or takes
\* its first step.
Call(c) ==
  /\ call[c].pc = "idle"
  /\ \E a \in {q \in Requests[c] : Offers(setup.broker, q.op)}, master \in (IF setup.broker = "toss" THEN BOOLEAN ELSE {TRUE}) :
       LET b == setup.broker
           began == [call[c] EXCEPT !.ask = a]
       IN Put(c, IF Blocked(b, a, master) THEN [began EXCEPT !.pc = "done", !.kind = "threw"]
                 ELSE IF a.op = "openOco" /\ b # "spot" THEN [began EXCEPT !.pc = "done", !.kind = "null"]
                 ELSE [began EXCEPT !.pc = First(b, a)])
  /\ UNCHANGED <<setup, inst, net, book>>

\* symbolFilters: from the adapter's cache, or from the exchange with retries. A
\* 200 without the symbol is cached as no filters at all.
Filters(c) ==
  LET a == call[c].ask IN
  /\ call[c].pc = "filters"
  /\ IF inst[Object(c)].filters # "none"
     THEN /\ Put(c, IF a.op = "oco" /\ OcoCrossed(a, inst[Object(c)].filters) THEN Ends(c, "threw", 0) ELSE [At(c, "send") EXCEPT !.tries = 0])
          /\ UNCHANGED inst
     ELSE \E how \in {"good", "errbody", "lost", "4xx", "5xx"} :
            \/ /\ how \in {"good", "errbody"}
               /\ inst' = [inst EXCEPT ![Object(c)].filters = IF how = "good" THEN "real" ELSE "blank"]
               /\ UNCHANGED call
            \/ /\ how \notin {"good", "errbody"}
               /\ Put(c, IF Again(c, how) THEN [call[c] EXCEPT !.tries = @ + 1] ELSE Ends(c, "threw", 0))
               /\ UNCHANGED inst
  /\ UNCHANGED <<setup, net, book>>

\* KIS signs a POST's body with a hash it asks for first.
Hash(c) ==
  /\ call[c].pc = "hash"
  /\ \E ok \in BOOLEAN : Put(c, IF ok THEN At(c, "token") ELSE Ends(c, "threw", 0))
  /\ UNCHANGED <<setup, inst, net, book>>

----
\* getToken. A token is used until Skew before the expiry recorded with it.
TokenValid_NoSkew(i) == inst[i].exp > 0
TokenValid(i) == inst[i].exp > Skew
UseToken(c) ==
  /\ call[c].pc = "token" /\ TokenValid(Object(c))
  /\ Put(c, [At(c, "send") EXCEPT !.good = inst[Object(c)].real])
  /\ UNCHANGED <<setup, inst, net, book>>

\* Only KIS lets a second call of the object wait for the mint under way.
Joins(c) == setup.broker = "kis" /\ inst[Object(c)].minter # {}
JoinMint(c) ==
  /\ call[c].pc = "token" /\ ~TokenValid(Object(c)) /\ Joins(c)
  /\ Put(c, At(c, "joined"))
  /\ UNCHANGED <<setup, inst, net, book>>

StartMint(c) ==
  /\ call[c].pc = "token" /\ ~TokenValid(Object(c)) /\ ~Joins(c)
  /\ Put(c, [At(c, "minting") EXCEPT !.good = Ttl])
  /\ inst' = [inst EXCEPT ![Object(c)].minter = @ \cup {c}]
  /\ UNCHANGED <<setup, net, book>>

\* The answer of a mint wakes the calls that wait for it, with the token or with the
\* error. The expiry is the answer's time and the lifetime it names; Kiwoom may
\* name the moment instead.
Woken_Self(c) == {c}
Woken(c) == {c} \cup {d \in Calls : call[d].pc = "joined" /\ Object(d) = Object(c)}
Lifetimes(born) == IF setup.broker = "kiwoom" THEN {born, Ttl} ELSE {Ttl}
Wake(c, r(_)) == call' = [d \in Calls |-> IF d \in Woken(c) THEN r(d) ELSE call[d]]
Minted(c) ==
  LET i == Object(c)
      born == call[c].good
  IN /\ call[c].pc = "minting"
     /\ \E exp \in Lifetimes(born) :
          inst' = [inst EXCEPT ![i].exp = exp, ![i].real = born, ![i].minter = @ \ {c}]
     /\ Wake(c, LAMBDA d : [At(d, "send") EXCEPT !.good = born])
     /\ UNCHANGED <<setup, net, book>>
MintFails(c) ==
  /\ call[c].pc = "minting"
  /\ Wake(c, LAMBDA d : Ends(d, "threw", 0))
  /\ inst' = [inst EXCEPT ![Object(c)].minter = @ \ {c}]
  /\ UNCHANGED <<setup, net, book>>

----
\* The request itself leaves.
Send(c) ==
  LET a == call[c].ask
      b == setup.broker
  IN /\ call[c].pc = "send"
     /\ Put(c, [call[c] EXCEPT !.pc = "sent", !.age = 0])
     /\ net' = IF a.op \in Posts THEN [net EXCEPT ![c] = "flying"] ELSE net
     /\ book' = CASE a.op = "place" -> [book EXCEPT ![c].body = Body(b, a, inst[Object(c)].filters)]
                  [] a.op = "oco" -> [book EXCEPT ![c].body = OcoBody(a, inst[Object(c)].filters)]
                  [] OTHER -> book
     /\ UNCHANGED <<setup, inst>>

\* External: the exchange takes a POST in, also after the caller gave up on it. An
\* order is refused, rests, is filled, or ends with or without a fill; of an OCO the
\* exchange may take one leg only.
\* (KIS and Kiwoom report no more of an order than that it was taken.)
Silent == {"kis", "kiwoom"}
Outcomes == {<<"refused", 0>>, <<"open", 0>>} \cup
  IF setup.broker \in Silent THEN {} ELSE {<<"filled", 2>>, <<"dead", 0>>, <<"dead", 1>>}
Receive(c) ==
  LET o == Other(c) IN
  /\ net[c] = "flying" /\ net' = [net EXCEPT ![c] = "in"]
  /\ CASE call[c].ask.op = "place" ->
            \E w \in Outcomes : book' = [book EXCEPT ![c].st = w[1], ![c].ex = w[2], ![c].n = @ + IF w[1] = "refused" THEN 0 ELSE 1]
       [] call[c].ask.op = "oco" ->
            \E l \in SUBSET {"tp", "sl"} :
              book' = [book EXCEPT ![c].st = IF l = {} THEN "refused" ELSE "open", ![c].legs = l, ![c].n = @ + IF l = {} THEN 0 ELSE 1]
       [] call[c].ask.op = "cancel" ->
            book' = IF book[o].st = "open" THEN [book EXCEPT ![o].st = "dead", ![c].st = "done"]
                    ELSE [book EXCEPT ![c].st = "refused"]
  /\ UNCHANGED <<setup, call, inst>>
Executes(c) ==
  /\ book[c].st = "open" /\ setup.broker \notin Silent
  /\ book' = [book EXCEPT ![c].st = "filled", ![c].ex = 2]
  /\ UNCHANGED <<setup, call, inst, net>>

----
\* The answers the exchange can give: a transport failure always, an HTTP refusal, a
\* 200 that carries an error (errbody), one whose order lacks its id or its status
\* (mangled), one without the broker's result code or without an order at all
\* (uncoded), one that reports success and nothing else (bare), an account without
\* its buying power, which is a request of its own (cashless), the answer.
Words(o) == CASE o.st = "open" -> {"NEW", "PARTIALLY_FILLED"}
              [] o.st = "filled" -> {"FILLED"}
              [] o.st = "dead" -> {"CANCELED", "EXPIRED", "EXPIRED_IN_MATCH"} \cup IF o.ex = 0 THEN {"REJECTED"} ELSE {}
              [] OTHER -> {}
Failures == {"lost", "429", "5xx", "4xx"}
Answers(c) ==
  LET o == IF call[c].ask.op = "order" THEN book[Other(c)] ELSE book[c]
      in == net[c] = "in"
      fine == [how : {"good"}, word : Words(o)]
      bad(hows) == [how : hows, word : {"-"}]
      vague == bad({"mangled", "uncoded"})
  IN CASE call[c].ask.op \in {"place", "oco"} ->
            IF ~in THEN bad({"lost", "5xx"})
            ELSE IF o.st = "refused" THEN bad({"lost", "4xx", "5xx", "errbody", "uncoded"})
            ELSE fine \cup vague \cup bad({"lost", "5xx"})
       [] call[c].ask.op = "cancel" ->
            bad({"lost", "5xx"} \cup (IF ~in THEN {} ELSE IF o.st = "done" THEN {"good", "uncoded"}
                                     ELSE {"4xx", "errbody", "uncoded"}))
       [] call[c].ask.op = "order" ->
            bad({"lost", "5xx", "429"}) \cup (IF fine = {} THEN bad({"missing"}) ELSE fine \cup vague)
       [] OTHER -> bad(Failures \cup {"good", "errbody", "bare"} \cup
                       IF setup.broker = "toss" /\ call[c].ask.op = "balance" THEN {"cashless"} ELSE {})

\* mapStatus, and placeOrder's rule for an order that ended part filled.
MapStatus(w) == CASE w = "FILLED" -> "filled"
                  [] w \in {"CANCELED", "REJECTED", "EXPIRED"} -> "rejected"
                  [] OTHER -> "pending"
Placed_Mapped(w, ex) == MapStatus(w)
Placed(w, ex) == IF w \in {"EXPIRED", "EXPIRED_IN_MATCH", "CANCELED"} /\ ex > 0 THEN "filled" ELSE MapStatus(w)

\* What each adapter makes of an answer to an order that is not tried again. A status
\* word or an id that is missing is an error; an error in a 200 is a rejection where
\* the broker has a result code (KIS, Kiwoom), else an error. KIS takes every 200
\* without the code of success for a rejection, also one without any code.
BinanceOrder(c, ans) ==
  IF ans.how = "good" THEN Ends(c, Placed(ans.word, book[c].ex), book[c].ex) ELSE Ends(c, "threw", 0)
KisOrder(c, ans) == Ends(c, CASE ans.how = "good" -> "pending" [] ans.how \in {"errbody", "uncoded"} -> "rejected" [] OTHER -> "threw", 0)
KiwoomOrder(c, ans) == Ends(c, CASE ans.how = "good" -> "pending" [] ans.how = "errbody" -> "rejected" [] OTHER -> "threw", 0)
TossOrder(c, ans) == Ends(c, IF ans.how = "good" THEN "pending" ELSE "threw", 0)
OcoTaken(legs) == legs = {"tp", "sl"}
OcoResult(c, ans) == Ends(c, IF ans.how = "good" /\ OcoTaken(book[c].legs) THEN "oco" ELSE "threw", 0)

\* A cancel: a 200 that does not say it was done is a refusal, but Toss asks no more
\* than a 2xx, and only Toss takes a 4xx for a refusal.
ByItsWord(c, ans) == Ends(c, CASE ans.how = "good" -> "true" [] ans.how \in {"errbody", "uncoded"} -> "false" [] OTHER -> "threw", 0)
BinanceCancel(c, ans) == ByItsWord(c, ans)
KisCancel(c, ans) == ByItsWord(c, ans)
KiwoomCancel(c, ans) == ByItsWord(c, ans)
TossCancel(c, ans) ==
  Ends(c, CASE ans.how \in {"good", "errbody", "uncoded"} -> "true" [] ans.how = "4xx" -> "false" [] OTHER -> "threw", 0)

\* An order's state by id. An answer without an order is none; a status that is missing
\* or unknown is an error to Binance and an order still pending to Toss, which calls
\* an order over only when filled or rejected.
Queried(c, ans, status(_)) == CASE ans.how = "good" -> Ends(c, status(ans.word), book[Other(c)].ex)
                                [] ans.how \in {"missing", "uncoded"} -> Ends(c, "null", 0)
                                [] OTHER -> Ends(c, "threw", 0)
BinanceQuery(c, ans) == Queried(c, ans, MapStatus)
TossQuery(c, ans) ==
  IF ans.how = "mangled" THEN Ends(c, "pending", book[Other(c)].ex)
  ELSE Queried(c, ans, LAMBDA w : IF w = "FILLED" THEN "filled" ELSE IF w = "REJECTED" THEN "rejected" ELSE "pending")

\* Readings. What the schemas check throws on an error body; Binance's price, open
\* orders and open OCO read one as zero and as none, and KIS and Kiwoom so read a
\* success without data. Toss reads an account whose buying power fails as one
\* without cash.
Checked == {"balance", "place", "order", "oco"}
BinanceRead(c, ans) == Ends(c, CASE ans.how = "good" -> "seen"
                                 [] ans.how \in {"errbody", "bare"} /\ call[c].ask.op \notin Checked -> "zero"
                                 [] OTHER -> "threw", 0)
OpenOco(c, ans) ==
  LET o == book[Other(c)]
  IN Ends(c, CASE ans.how = "good" -> IF o.st = "open" /\ o.legs = {"tp", "sl"} THEN "oco" ELSE "null"
               [] ans.how \in {"errbody", "bare"} -> "null"
               [] OTHER -> "threw", 0)
KisRead(c, ans) == Ends(c, CASE ans.how = "good" -> "seen" [] ans.how = "bare" -> "zero" [] OTHER -> "threw", 0)
KiwoomRead(c, ans) == Ends(c, CASE ans.how = "good" -> "seen" [] ans.how = "bare" -> "zero" [] OTHER -> "threw", 0)
TossRead(c, ans) == Ends(c, CASE ans.how = "good" -> "seen" [] ans.how = "cashless" -> "cashless" [] OTHER -> "threw", 0)

Result(c, ans) ==
  LET b == setup.broker
      op == call[c].ask.op
      by(bin, kis, kiwoom, toss) == CASE b \in Binance -> bin [] b = "kis" -> kis [] b = "kiwoom" -> kiwoom [] OTHER -> toss
  IN CASE op = "place" -> by(BinanceOrder(c, ans), KisOrder(c, ans), KiwoomOrder(c, ans), TossOrder(c, ans))
       [] op = "cancel" -> by(BinanceCancel(c, ans), KisCancel(c, ans), KiwoomCancel(c, ans), TossCancel(c, ans))
       [] op = "order" -> IF b = "toss" THEN TossQuery(c, ans) ELSE BinanceQuery(c, ans)
       [] op = "oco" -> OcoResult(c, ans)
       [] op = "openOco" -> OpenOco(c, ans)
       [] OTHER -> by(BinanceRead(c, ans), KisRead(c, ans), KiwoomRead(c, ans), TossRead(c, ans))

Answer(c) ==
  LET a == call[c].ask
      b == setup.broker
  IN /\ call[c].pc = "sent"
     /\ \E ans \in Answers(c) :
          Put(c, IF Retried(b, a.op) /\ Again(c, ans.how)
                 THEN [call[c] EXCEPT !.pc = IF b \in Minters THEN "token" ELSE "send", !.tries = @ + 1]
                 ELSE Result(c, ans))
     /\ UNCHANGED <<setup, inst, net, book>>

\* Toss drops a token the server refuses; the read is not tried again, a cancel reads
\* the 401 as a refusal, and an account whose second request meets it has no cash.
Unauthorized(op) == CASE op = "cancel" -> {"false"} [] op = "balance" -> {"threw", "cashless"} [] OTHER -> {"threw"}
TokenRefused(c) ==
  /\ call[c].pc = "sent" /\ setup.broker = "toss" /\ net[c] # "in"
  /\ \E k \in Unauthorized(call[c].ask.op) : Put(c, Ends(c, k, 0))
  /\ net' = [net EXCEPT ![c] = "no"]
  /\ inst' = [inst EXCEPT ![Object(c)].exp = 0]
  /\ UNCHANGED <<setup, book>>

----
\* Time passes while no request is a whole timeout old; only tokens mind it.
UnderWay(c) == call[c].pc \in {"minting", "sent"}
Left(t) == IF t = 0 THEN 0 ELSE t - 1
Tick == /\ setup.broker \in Minters
        /\ \A c \in Calls : (UnderWay(c) => call[c].age = 0) /\ call[c].pc # "send"
        /\ call' = [c \in Calls |-> IF UnderWay(c) THEN [call[c] EXCEPT !.age = 1, !.good = Left(@)] ELSE call[c]]
        /\ inst' = [i \in Calls |-> [inst[i] EXCEPT !.exp = Left(@), !.real = Left(@)]]
        /\ UNCHANGED <<setup, net, book>>

Mints(c) == Minted(c) \/ MintFails(c)
Step(c) == \/ Filters(c) \/ Hash(c) \/ UseToken(c) \/ JoinMint(c) \/ StartMint(c) \/ Mints(c)
           \/ Send(c) \/ Answer(c) \/ TokenRefused(c)
Next == \/ \E c \in Calls : Call(c) \/ Step(c) \/ Receive(c) \/ Executes(c)
        \/ Tick
Fairness == \A c \in Calls : WF_vars(Step(c))
Spec == Init /\ [][Next]_vars /\ Fairness

----
(* Properties *)

\* The state is well formed.
TypeOK ==
  /\ setup \in Setups
  /\ \A c \in Calls :
       /\ call[c].pc \in {"idle", "filters", "hash", "token", "joined", "minting", "send", "sent", "done"}
       /\ call[c].tries \in 0..(Attempts - 1) /\ call[c].age \in 0..1
       /\ inst[c].filters \in {"none", "real", "blank"} /\ inst[c].minter \subseteq Calls
       /\ net[c] \in {"no", "flying", "in"} /\ book[c].legs \subseteq {"tp", "sl"} /\ book[c].ex \in 0..2
       /\ inst[c].exp \in 0..Ttl /\ inst[c].real \in 0..Ttl /\ call[c].good \in 0..Ttl

\* A call of placeOrder or placeOco leaves at most one order at the exchange, however
\* often its requests fail and whatever arrives after it gave up.
OneOrderPerCall == \A c \in Calls : book[c].n <= 1

\* What a call returned is what the exchange has: a fill happened, a rejection is of
\* an order that is over without one, a pending order exists, an OCO has both legs,
\* a cancelled order no longer rests, and an account is not empty for an error body.
\* Three results promise less, as the code stands: KIS calls an order rejected also
\* for want of a result code, Toss calls a cancel done for any 2xx, and KIS and
\* Kiwoom read a success without data as an empty account.
ResultsAreTrue ==
  \A c \in Calls : call[c].pc = "done" =>
    LET r == call[c]
        mine == book[c]
        other == book[Other(c)]
    IN /\ r.ask.op = "place" =>
            /\ r.kind = "filled" => mine.ex > 0
            /\ r.kind = "rejected" => setup.broker = "kis" \/ (mine.ex = 0 /\ mine.st \in {"refused", "dead"})
            /\ r.kind = "pending" => mine.n > 0
            /\ r.ex <= mine.ex
       /\ r.kind = "oco" => (IF r.ask.op = "oco" THEN mine ELSE other).legs = {"tp", "sl"}
       /\ r.ask.op = "cancel" /\ r.kind = "true" => setup.broker = "toss" \/ other.st # "open"
       /\ r.ask.op = "order" =>
            /\ r.kind = "filled" => other.ex > 0
            /\ r.kind = "rejected" => other.st = "dead"
            /\ r.ex <= other.ex
       /\ r.ask.op = "balance" /\ r.kind = "zero" => setup.broker \in Silent

\* A Korean limit order leaves on the exchange's price grid and no further than half a
\* step from the price asked, an OCO's three prices stay apart and in order on the
\* grid, and nothing is written to Toss unless the environment is live.
OrdersAsAsked ==
  \A c \in Calls : net[c] # "no" =>
    LET a == call[c].ask
        sent == book[c].body
    IN /\ a.op = "place" =>
            /\ sent.half <= a.half
            /\ a.type = "limit" /\ a.kr /\ setup.broker \in Minters =>
                 /\ sent.price % KrxTick(sent.price) = 0
                 /\ 2 * (sent.price - a.price) \in -KrxTick(a.price)..KrxTick(a.price)
       /\ a.op = "oco" => sent.limit < sent.stop /\ sent.stop < sent.tp
       /\ setup.broker = "toss" => setup.env = "live"

\* A request never carries a token past its real expiry, though the adapter dates the
\* token by the answer and the exchange by the mint.
TokenFresh == \A c \in Calls : call[c].pc = "sent" /\ setup.broker \in Minters => call[c].good > 0

\* Every call ends: with an answer, an error or its last try's failure, also when it
\* waited for another call's token.
CallsEnd == \A c \in Calls : call[c].pc # "idle" ~> call[c].pc = "done"

==============================================================================
