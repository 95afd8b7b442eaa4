--------------------------- MODULE Scanner_proofs ---------------------------
(***************************************************************************)
(* That the scanner's positions, its booked trades and the account agree,  *)
(* that it holds no more symbols than it has slots for, and that the       *)
(* entries of a tick exceed the limit on the heat by no more than each     *)
(* other, for every universe, number of slots, market, gate and number of  *)
(* faults.                                                                 *)
(***************************************************************************)
EXTENDS Scanner, FiniteSetTheorems, WellFoundedInduction, TLAPS

Jobbed    == Sides \X Symbols
Positions == [qty : Nat, avg : Nat, live : BOOLEAN]
Fills     == [qty : Nat, live : BOOLEAN, failed : BOOLEAN]

Types ==
  /\ saved \in [Symbols -> Positions] /\ work \in [Symbols -> Positions]
  /\ todo \in Seq(Jobbed) /\ fill \in Fills /\ keys \subseteq Jobbed
  /\ net \in [Symbols -> Int] /\ held \in [Symbols -> Int] /\ sent \in [Jobbed -> Nat]
  /\ market \in Markets /\ gate \in Gates /\ adrift \subseteq Symbols

\* No symbol is ordered twice in a tick, and none is bought that is held.
Planned(q, positions) ==
  /\ \A i, j \in 1..Len(q) : i < j => q[i][2] # q[j][2]
  /\ \A i \in 1..Len(q) : q[i][1] = "buy" => positions[q[i][2]].qty = 0

\* What fillOrder has returned is what the order of its client id has executed;
\* a position on paper is sold on paper, one that is live is not.
FillIsReal ==
  /\ todo = <<>> => fill = NoFill
  /\ todo # <<>> /\ fill # NoFill =>
       /\ fill.live => fill.qty = sent[todo[1]]
       /\ ~fill.live /\ Side = "buy" => sent[todo[1]] = 0
       /\ Side = "sell" /\ ~fill.failed => (fill.live <=> work[Sym].live)

\* A sale executed and not booked is one of a position that is still there.
SaleIsOfPosition(s) == Unbooked("sell", s) > 0 => Now[s].live /\ Unbooked("sell", s) <= Now[s].qty
Agrees(s) == /\ LiveQty(Now[s]) = net[s]
             /\ held[s] = net[s] + Unbooked("buy", s) - Unbooked("sell", s)

SInv == /\ Types /\ Planned(todo, work) /\ FillIsReal
        /\ \A s \in Symbols \ adrift : Agrees(s) /\ SaleIsOfPosition(s)

-----------------------------------------------------------------------------
LEMMA InitKeeps == Init => SInv
<1> SUFFICES ASSUME Init PROVE SInv
  OBVIOUS
<1>1. NoPos \in Positions /\ NoFill \in Fills
  BY DEF NoPos, NoFill, Positions, Fills
<1>2. Types
  BY <1>1 DEF Init, Types, Flat, Jobbed
<1>3. Planned(todo, work) /\ FillIsReal
  BY DEF Init, Planned, FillIsReal
<1>4. \A s \in Symbols : Agrees(s) /\ SaleIsOfPosition(s)
  BY DEF Init, Agrees, SaleIsOfPosition, LiveQty, Now, Flat, NoPos, Unbooked, Sides
<1> QED BY <1>2, <1>3, <1>4 DEF SInv

\* Slots and quantities are whole numbers, whatever the gate makes of them.
LEMMA SlotsPositive == Slots \in Nat \ {0}
<1>1. Cardinality(Symbols) \in Nat /\ Cardinality(Symbols) # 0
  BY ScannerAssumption, FS_CardinalityType, FS_EmptySet
<1> QED BY <1>1, ScannerAssumption DEF Slots

LEMMA DivNat == ASSUME NEW a \in Nat, NEW b \in Nat \ {0} PROVE a \div b \in Nat
  OBVIOUS

LEMMA WantedNat == ASSUME Types, todo # <<>> PROVE Wanted \in Nat
<1>1. Side \in Sides /\ Sym \in Symbols
  BY DEF Types, Side, Sym, Jobbed
<1>2. work[Sym].qty \in Nat
  BY <1>1 DEF Types, Positions
<1>3. market.price[Sym] \in Nat \ {0} /\ Capital \in Nat
  BY <1>1, ScannerAssumption DEF Types
<1> DEFINE mult == Clamp(SizeMultiplier(Equity, PeakEquity, gate.tiers), 0, 100)
           raw  == (Capital \div Slots) \div market.price[Sym]
<1>4. mult \in Nat
  <2>1. SizeMultiplier(Equity, PeakEquity, gate.tiers) \in Nat
    BY ScannerAssumption DEF Types, SizeMultiplier
  <2> QED
    BY <2>1 DEF Clamp
<1>5. raw \in Nat
  BY <1>3, SlotsPositive, DivNat
<1>6. raw * mult \in Nat
  BY <1>4, <1>5
<1>7. (raw * mult) \div 100 \in Nat
  BY <1>6, DivNat
<1>8. EntryQty(Sym) \in Nat
  BY <1>7 DEF EntryQty, ApplyGate
<1> QED BY <1>2, <1>8 DEF Wanted

LEMMA EmptyOf == ASSUME NEW S, NEW q \in Seq(S) PROVE q = <<>> <=> Len(q) = 0
  OBVIOUS

LEMMA TailOf == ASSUME NEW S, NEW q \in Seq(S), Len(q) >= 1
                PROVE  Tail(q) \in Seq(S) /\ Len(Tail(q)) = Len(q) - 1 /\ (Tail(q) = <<>> <=> Len(q) = 1)
<1>1. q # <<>>
  OBVIOUS
<1>2. Tail(q) \in Seq(S) /\ Len(Tail(q)) = Len(q) - 1
  BY <1>1
<1>3. Tail(q) = <<>> <=> Len(Tail(q)) = 0
  BY <1>2, EmptyOf
<1> QED BY <1>2, <1>3

LEMMA JobIsOne == ASSUME Types, todo # <<>>
                  PROVE  Side \in Sides /\ Sym \in Symbols /\ todo[1] = <<Side, Sym>> /\ todo[1] \in Jobbed
  BY DEF Types, Side, Sym, Jobbed

\* The order is done with: the positions are the new ones, and what is still to
\* be ordered is as planned as before, when only this symbol has changed.
LEMMA PopsKeeps ==
  ASSUME SInv, todo # <<>>, NEW P \in [Symbols -> Positions], Pops(P),
         \A s \in Symbols : s # Sym => P[s] = work[s]
  PROVE  /\ saved' \in [Symbols -> Positions] /\ work' \in [Symbols -> Positions]
         /\ todo' \in Seq(Jobbed) /\ fill' \in Fills
         /\ Now' = P /\ Planned(todo, work)' /\ FillIsReal'
<1>1. todo \in Seq(Jobbed) /\ Len(todo) >= 1
  BY DEF SInv, Types
<1>2. Tail(todo) \in Seq(Jobbed) /\ (Tail(todo) = <<>> <=> Len(todo) = 1) /\ Len(Tail(todo)) = Len(todo) - 1
  BY <1>1, TailOf
<1>3. \A i \in 1..Len(Tail(todo)) : Tail(todo)[i] = todo[i + 1] /\ i + 1 \in 1..Len(todo) /\ todo[i + 1][2] \in Symbols
  BY <1>1 DEF Jobbed
<1>4. Now' = P
  BY <1>2 DEF Pops, Now
<1>5. \A i \in 1..Len(Tail(todo)) : Tail(todo)[i][2] # Sym
  BY <1>1, <1>3 DEF SInv, Planned, Sym
<1>6. Planned(todo, work)'
  BY <1>2, <1>3, <1>5 DEF SInv, Planned, Pops
<1>7. FillIsReal'
  BY DEF Pops, FillIsReal
<1>8. NoFill \in Fills
  BY DEF NoFill, Fills
<1> QED BY <1>2, <1>4, <1>6, <1>7, <1>8 DEF SInv, Types, Pops

LEMMA SkipKeeps == ASSUME SInv, Skip PROVE SInv'
<1>1. work \in [Symbols -> Positions] /\ todo # <<>> /\ Pops(work) /\ Now = work
  BY DEF SInv, Types, Skip, Now
<1>2. /\ saved' \in [Symbols -> Positions] /\ work' \in [Symbols -> Positions]
      /\ todo' \in Seq(Jobbed) /\ fill' \in Fills
      /\ Now' = work /\ Planned(todo, work)' /\ FillIsReal'
  BY <1>1, PopsKeeps
<1>3. Types'
  BY <1>2 DEF SInv, Types, Skip, book, exchange
<1>4. \A s \in Symbols : Unbooked("buy", s)' = Unbooked("buy", s) /\ Unbooked("sell", s)' = Unbooked("sell", s)
  BY DEF Skip, book, exchange, Unbooked
<1>5. \A s \in Symbols \ adrift' : Agrees(s)' /\ SaleIsOfPosition(s)'
  BY <1>1, <1>2, <1>4 DEF SInv, Agrees, SaleIsOfPosition, Skip, book, exchange
<1> QED BY <1>2, <1>3, <1>5 DEF SInv

\* What an order returns, before it is booked, changes neither positions nor book.
LEMMA FillKeeps ==
  ASSUME SInv, todo # <<>>, fill' \in Fills, UNCHANGED <<saved, work, todo, book, exchange, market, gate, adrift>>,
         FillIsReal'
  PROVE  SInv'
<1>1. Types' /\ Planned(todo, work)'
  BY DEF SInv, Types, Planned, book, exchange
<1>2. Now' = Now /\ \A s \in Symbols : Unbooked("buy", s)' = Unbooked("buy", s) /\ Unbooked("sell", s)' = Unbooked("sell", s)
  BY DEF Now, Unbooked, book, exchange
<1>3. \A s \in Symbols \ adrift' : Agrees(s)' /\ SaleIsOfPosition(s)'
  BY <1>2 DEF SInv, Agrees, SaleIsOfPosition, book, exchange
<1> QED BY <1>1, <1>3 DEF SInv

LEMMA OnPaperKeeps == ASSUME SInv, OnPaper PROVE SInv'
<1>1. Types /\ todo # <<>>
  BY DEF SInv, OnPaper
<1>2. Wanted \in Nat
  BY <1>1, WantedNat
<1>3. fill' \in Fills
  BY <1>2 DEF OnPaper, Fills
<1>4. work[Sym].live \in BOOLEAN
  BY <1>1, JobIsOne DEF Types, Positions
<1>5. FillIsReal'
  BY <1>1, <1>4 DEF OnPaper, FillIsReal, Side, Sym, NoFill
<1> QED BY <1>1, <1>3, <1>5, FillKeeps DEF OnPaper

LEMMA AdoptKeeps == ASSUME SInv, Adopt PROVE SInv'
<1>1. Types /\ todo # <<>>
  BY DEF SInv, Adopt, Live
<1>2. sent[todo[1]] \in Nat
  BY <1>1, JobIsOne DEF Types
<1>3. fill' \in Fills
  BY <1>2 DEF Adopt, Fills
<1>4. FillIsReal'
  BY <1>1 DEF Adopt, Live, FillIsReal, Side, Sym, exchange
<1> QED BY <1>1, <1>3, <1>4, FillKeeps DEF Adopt

LEMMA RefusedKeeps == ASSUME SInv, Refused PROVE SInv'
<1>1. Types /\ todo # <<>>
  BY DEF SInv, Refused, Live
<1>2. Wanted \in Nat
  BY <1>1, WantedNat
<1>3. fill' \in Fills
  BY <1>2 DEF Refused, Fills
<1>4. FillIsReal'
  BY <1>1 DEF Refused, Live, FillIsReal, Side, Sym, exchange
<1> QED BY <1>1, <1>3, <1>4, FillKeeps DEF Refused

-----------------------------------------------------------------------------
LEMMA JobsFinite ==
  ASSUME NEW closes \in SUBSET Symbols, NEW opens \in SUBSET Symbols
  PROVE  LET jobs == ({"sell"} \X closes) \cup ({"buy"} \X opens)
         IN  IsFiniteSet(jobs) /\ Cardinality(jobs) \in Nat
<1>1. IsFiniteSet(closes) /\ IsFiniteSet(opens) /\ IsFiniteSet({"sell"}) /\ IsFiniteSet({"buy"})
  BY ScannerAssumption, FS_Subset, FS_Singleton
<1>2. IsFiniteSet({"sell"} \X closes) /\ IsFiniteSet({"buy"} \X opens)
  BY <1>1, FS_Product
<1>3. IsFiniteSet(({"sell"} \X closes) \cup ({"buy"} \X opens))
  BY <1>2, FS_Union
<1> QED BY <1>3, FS_CardinalityType

\* The orders of a tick: nothing is sold twice, nothing bought twice, nothing
\* bought that is held.
LEMMA JobsPlanned ==
  ASSUME Types, NEW closes \in SUBSET HeldIn(saved), NEW opens \in SUBSET (Symbols \ HeldIn(saved)), NEW q \in Jobs(closes, opens)
  PROVE  q \in Seq(Jobbed) /\ Planned(q, saved)
<1> DEFINE jobs == ({"sell"} \X closes) \cup ({"buy"} \X opens)
           n    == Cardinality(jobs)
<1>1. closes \subseteq Symbols /\ opens \subseteq Symbols
  BY DEF HeldIn
<1>2. n \in Nat
  BY <1>1, JobsFinite
<1>3. q \in [1..n -> jobs] /\ \A i, j \in 1..n : i < j => Sooner(q[i], q[j])
  BY DEF Jobs
<1>4. jobs \subseteq Jobbed
  BY <1>1 DEF Jobbed, Sides
<1>5. \A a, b \in jobs : Sooner(a, b) => a[2] # b[2]
  <2> SUFFICES ASSUME NEW a \in jobs, NEW b \in jobs, Sooner(a, b), a[2] = b[2] PROVE FALSE
    OBVIOUS
  <2>1. a[2] \in Nat
    BY <1>4, ScannerAssumption DEF Jobbed
  <2>2. CASE a[1] = "sell" /\ b[1] = "buy"
    BY <2>2
  <2>3. CASE a[1] = "sell" /\ b[1] = "sell" /\ a[2] < b[2]
    BY <2>1, <2>3
  <2>4. CASE a[1] = "buy" /\ b[1] = "buy" /\ Better(a[2], b[2])
    BY <2>1, <2>4 DEF Better
  <2> QED BY <2>2, <2>3, <2>4 DEF Sooner
<1>6. \A a \in jobs : a[1] = "buy" => saved[a[2]].qty = 0
  BY <1>1 DEF HeldIn, Types, Positions
<1> HIDE DEF jobs, n
<1>7. q \in Seq(Jobbed) /\ Len(q) = n
  BY <1>2, <1>3, <1>4
<1> QED BY <1>3, <1>5, <1>6, <1>7 DEF Planned

\* And every order is among them: none comes twice, so none is missing.
LEMMA JobsComplete ==
  ASSUME Types, NEW closes \in SUBSET HeldIn(saved), NEW opens \in SUBSET (Symbols \ HeldIn(saved)), NEW q \in Jobs(closes, opens)
  PROVE  \A job \in ({"sell"} \X closes) \cup ({"buy"} \X opens) : \E i \in 1..Len(q) : q[i] = job
<1> DEFINE jobs == ({"sell"} \X closes) \cup ({"buy"} \X opens)
           n    == Cardinality(jobs)
<1>1. closes \in SUBSET Symbols /\ opens \in SUBSET Symbols
  BY DEF HeldIn
<1>2. IsFiniteSet(jobs) /\ n \in Nat
  BY <1>1, JobsFinite
<1>3. q \in [1..n -> jobs]
  BY DEF Jobs
<1>4. q \in Seq(Jobbed) /\ \A i, j \in 1..Len(q) : i < j => q[i][2] # q[j][2]
  BY JobsPlanned DEF Planned
<1> HIDE DEF jobs, n
<1>5. Len(q) = n
  BY <1>2, <1>3, <1>4
<1>6. \A i, j \in 1..n : i # j => q[i] # q[j]
  BY <1>2, <1>4, <1>5
<1>7. IsFiniteSet(1..n) /\ Cardinality(1..n) = n
  <2>1. 1 \in Int /\ n \in Int /\ (IF 1 > n THEN 0 ELSE n - 1 + 1) = n
    BY <1>2
  <2> QED BY <2>1, FS_Interval
<1>8. q \in Injection(1..n, jobs)
  BY <1>3, <1>6 DEF Injection, IsInjective
<1>9. q \in Surjection(1..n, jobs)
  BY <1>2, <1>7, <1>8, FS_Injection DEF n
<1>10. \A job \in jobs : \E i \in 1..Len(q) : q[i] = job
  BY <1>5, <1>9 DEF Surjection
<1> QED BY <1>10 DEF jobs

LEMMA TickStartsKeeps == ASSUME SInv, TickStarts PROVE SInv'
<1> DEFINE top(lost)    == RankUniverse(Symbols \ lost)
           want(lost)   == WantHold(Symbols \ lost)
           closes(lost) == ToClose(saved, top(lost), want(lost)) \ lost
           opens(lost)  == ToOpen(saved, top(lost), want(lost))
<1>1. PICK lost \in SUBSET Symbols : todo' \in Jobs(closes(lost), opens(lost)) /\ todo' # <<>> /\ work' = saved
  BY DEF TickStarts
<1>2. closes(lost) \subseteq HeldIn(saved) /\ opens(lost) \subseteq Symbols \ HeldIn(saved)
  BY DEF ToClose, ToOpen, RankUniverse
<1> HIDE DEF closes, opens
<1>3. todo' \in Seq(Jobbed) /\ Planned(todo', saved)
  BY <1>1, <1>2, JobsPlanned DEF SInv
<1>4. todo = <<>> /\ fill = NoFill /\ UNCHANGED <<saved, fill, book, exchange, market, gate, adrift>>
  BY DEF SInv, FillIsReal, TickStarts
<1>5. Types'
  BY <1>1, <1>3, <1>4 DEF SInv, Types, book, exchange
<1>6. Planned(todo, work)' /\ FillIsReal'
  BY <1>1, <1>3, <1>4 DEF Planned, FillIsReal
<1>7. Now' = Now /\ \A s \in Symbols : Unbooked("buy", s)' = Unbooked("buy", s) /\ Unbooked("sell", s)' = Unbooked("sell", s)
  BY <1>1, <1>4 DEF Now, Unbooked, book, exchange
<1>8. \A s \in Symbols \ adrift' : Agrees(s)' /\ SaleIsOfPosition(s)'
  <2>1. held' = held /\ net' = net /\ adrift' = adrift
    BY <1>4 DEF book, exchange
  <2> QED BY <1>7, <2>1 DEF SInv, Agrees, SaleIsOfPosition
<1> QED BY <1>5, <1>6, <1>8 DEF SInv

-----------------------------------------------------------------------------
LEMMA ExecutedKeeps == ASSUME SInv, Executed PROVE SInv'
<1>1. Types /\ todo # <<>> /\ sent[todo[1]] = 0 /\ Wanted > 0 /\ (Side = "sell" => work[Sym].live)
  BY DEF SInv, Executed, Live
<1>2. Side \in Sides /\ Sym \in Symbols /\ todo[1] = <<Side, Sym>> /\ todo[1] \in Jobbed
  BY <1>1, JobIsOne
<1>3. PICK part \in BOOLEAN, lost \in BOOLEAN :
        LET qty == IF part THEN Wanted - 1 ELSE Wanted
        IN  /\ part => Wanted > 1
            /\ sent' = [sent EXCEPT ![todo[1]] = qty]
            /\ held' = [held EXCEPT ![Sym] = IF Side = "sell" THEN @ - qty ELSE @ + qty]
            /\ fill' = [qty |-> qty, live |-> TRUE, failed |-> lost]
  BY DEF Executed, Trips
<1> DEFINE qty == IF part THEN Wanted - 1 ELSE Wanted
<1>4. qty \in Nat /\ qty <= Wanted
  BY <1>1, <1>3, WantedNat
<1>5. adrift' = (IF todo[1] \in keys THEN adrift \cup {Sym} ELSE adrift)
      /\ UNCHANGED <<saved, work, todo, keys, net, market, gate>>
  BY DEF Executed, book
<1>6. sent' = [sent EXCEPT ![todo[1]] = qty] /\ fill' = [qty |-> qty, live |-> TRUE, failed |-> lost]
      /\ held' = [held EXCEPT ![Sym] = IF Side = "sell" THEN @ - qty ELSE @ + qty]
  BY <1>3
<1>7. Side = "sell" => qty <= work[Sym].qty
  BY <1>4 DEF Wanted
<1> HIDE DEF qty
<1>8. Types'
  <2>1. held' \in [Symbols -> Int] /\ sent' \in [Jobbed -> Nat] /\ fill' \in Fills
    BY <1>1, <1>2, <1>4, <1>6 DEF Types, Fills
  <2> QED BY <1>1, <1>2, <1>5, <2>1 DEF Types
<1>9. Planned(todo, work)' /\ FillIsReal'
  <2>1. sent'[todo[1]] = qty
    BY <1>1, <1>2, <1>6 DEF Types
  <2> QED BY <1>1, <1>5, <1>6, <2>1 DEF SInv, Planned, FillIsReal, Side, Sym
<1>10. Now' = Now /\ Now = work
  BY <1>1, <1>5 DEF Now
<1>11. ASSUME NEW s \in Symbols \ adrift' PROVE Agrees(s)' /\ SaleIsOfPosition(s)'
  <2>1. Agrees(s) /\ SaleIsOfPosition(s)
    BY <1>5 DEF SInv
  <2>2. \A side \in Sides : sent'[<<side, s>>] = IF <<side, s>> = todo[1] THEN qty ELSE sent[<<side, s>>]
    BY <1>1, <1>6 DEF Types, Jobbed
  <2>3. CASE s # Sym
    BY <1>1, <1>2, <1>5, <1>6, <1>10, <2>1, <2>2, <2>3 DEF Types, Agrees, SaleIsOfPosition, Unbooked, Sides
  <2>4. CASE s = Sym
    <3>1. todo[1] \notin keys
      BY <1>5, <2>4
    <3>2. held'[s] = IF Side = "sell" THEN held[s] - qty ELSE held[s] + qty
      BY <1>1, <1>6, <2>4 DEF Types
    <3>3. Unbooked("sell", s)' = IF Side = "sell" THEN qty ELSE Unbooked("sell", s)
      BY <1>2, <1>5, <2>2, <2>4, <3>1 DEF Unbooked, Sides
    <3>4. Unbooked("buy", s)' = IF Side = "buy" THEN qty ELSE Unbooked("buy", s)
      BY <1>2, <1>5, <2>2, <2>4, <3>1 DEF Unbooked, Sides
    <3>5. (Side = "sell" => Unbooked("sell", s) = 0) /\ (Side = "buy" => Unbooked("buy", s) = 0)
      BY <1>1, <1>2, <2>4 DEF Unbooked
    <3>6. Unbooked("sell", s) \in Nat /\ Unbooked("buy", s) \in Nat /\ held[s] \in Int /\ net[s] \in Int
      BY <1>1 DEF Types, Jobbed, Sides, Unbooked
    <3>7. Agrees(s)'
      BY <1>2, <1>4, <1>5, <1>10, <2>1, <3>2, <3>3, <3>4, <3>5, <3>6 DEF Agrees, Sides
    <3>8. SaleIsOfPosition(s)'
      BY <1>1, <1>2, <1>7, <1>10, <2>1, <2>4, <3>3 DEF SaleIsOfPosition, Sides
    <3> QED BY <3>7, <3>8
  <2> QED BY <2>3, <2>4
<1> QED BY <1>8, <1>9, <1>11 DEF SInv

-----------------------------------------------------------------------------
LEMMA NotDoneKeeps == ASSUME SInv, Book, NotDone PROVE SInv'
<1>1. work \in [Symbols -> Positions] /\ todo # <<>> /\ Pops(work) /\ Now = work
  BY DEF SInv, Types, Book, NotDone, Now
<1>2. /\ saved' \in [Symbols -> Positions] /\ work' \in [Symbols -> Positions]
      /\ todo' \in Seq(Jobbed) /\ fill' \in Fills
      /\ Now' = work /\ Planned(todo, work)' /\ FillIsReal'
  BY <1>1, PopsKeeps
<1>3. UNCHANGED <<keys, net, sent, held, market, gate, adrift>>
  BY DEF Book, NotDone, book, exchange
<1>4. Types'
  BY <1>2, <1>3 DEF SInv, Types
<1>5. \A s \in Symbols : Unbooked("buy", s)' = Unbooked("buy", s) /\ Unbooked("sell", s)' = Unbooked("sell", s)
  BY <1>3 DEF Unbooked
<1>6. \A s \in Symbols \ adrift' : Agrees(s)' /\ SaleIsOfPosition(s)'
  BY <1>1, <1>2, <1>3, <1>5 DEF SInv, Agrees, SaleIsOfPosition
<1> QED BY <1>2, <1>4, <1>6 DEF SInv

\* What booking has to show of its symbol: the position and the trades move by
\* the same, and nothing of this order is left unbooked.
LEMMA BookKeeps ==
  ASSUME SInv, Book, fill # NoFill, ~fill.failed, todo[1] \notin keys,
         NEW pos \in Positions, NEW signed \in Int, NEW pnl,
         Pops([work EXCEPT ![Sym] = pos]), BookTrade(signed, pnl),
         Sym \notin adrift =>
           /\ LiveQty(pos) = IF fill.live THEN net[Sym] + signed ELSE net[Sym]
           /\ Side = "buy" => Unbooked("buy", Sym) = (IF fill.live THEN signed ELSE 0) /\ Unbooked("sell", Sym) = 0
           /\ Side = "sell" => Unbooked("sell", Sym) = (IF fill.live THEN 0 - signed ELSE 0)
  PROVE  SInv'
<1> DEFINE P == [work EXCEPT ![Sym] = pos]
<1>1. Types /\ todo # <<>> /\ Now = work
  BY DEF SInv, Book, Now
<1>2. Side \in Sides /\ Sym \in Symbols /\ todo[1] = <<Side, Sym>> /\ todo[1] \in Jobbed
  BY <1>1, JobIsOne
<1>3. P \in [Symbols -> Positions] /\ P[Sym] = pos /\ \A s \in Symbols : s # Sym => P[s] = work[s]
  BY <1>1, <1>2 DEF Types
<1>4. Pops(P)
  OBVIOUS
<1> HIDE DEF P
<1>5. /\ saved' \in [Symbols -> Positions] /\ work' \in [Symbols -> Positions]
      /\ todo' \in Seq(Jobbed) /\ fill' \in Fills
      /\ Now' = P /\ Planned(todo, work)' /\ FillIsReal'
  BY <1>1, <1>3, <1>4, PopsKeeps
<1>6. keys' = keys \cup {todo[1]} /\ net' = (IF fill.live THEN [net EXCEPT ![Sym] = @ + signed] ELSE net)
      /\ UNCHANGED <<sent, held, market, gate, adrift>>
  BY DEF Book, BookTrade, exchange
<1>7. Types'
  <2>1. net \in [Symbols -> Int] /\ net[Sym] + signed \in Int
    BY <1>1, <1>2 DEF Types
  <2>2. net' \in [Symbols -> Int]
    BY <1>2, <1>6, <2>1
  <2>3. keys' \subseteq Jobbed
    BY <1>1, <1>2, <1>6 DEF Types
  <2> QED BY <1>1, <1>5, <1>6, <2>2, <2>3 DEF Types
<1>8. ASSUME NEW s \in Symbols \ adrift' PROVE Agrees(s)' /\ SaleIsOfPosition(s)'
  <2>1. Agrees(s) /\ SaleIsOfPosition(s)
    BY <1>6 DEF SInv
  <2>2. \A side \in Sides : Unbooked(side, s)' = IF <<side, s>> = todo[1] THEN 0 ELSE Unbooked(side, s)
    BY <1>6 DEF Unbooked
  <2>3. CASE s # Sym
    BY <1>1, <1>2, <1>3, <1>5, <1>6, <2>1, <2>2, <2>3 DEF Types, Agrees, SaleIsOfPosition, Sides
  <2>4. CASE s = Sym
    <3>1. net'[s] = (IF fill.live THEN net[s] + signed ELSE net[s]) /\ held'[s] = held[s]
      BY <1>1, <1>2, <1>6, <2>4 DEF Types
    <3>2. Unbooked("sell", s) \in Nat /\ Unbooked("buy", s) \in Nat /\ held[s] \in Int /\ net[s] \in Int
      BY <1>1 DEF Types, Jobbed, Sides, Unbooked
    <3>3. LiveQty(Now'[s]) = net'[s]
      BY <1>3, <1>5, <1>6, <2>4, <3>1
    <3>4. CASE Side = "buy"
      <4>1. Unbooked("buy", s)' = 0 /\ Unbooked("sell", s)' = 0 /\ Unbooked("sell", s) = 0
        BY <1>2, <1>6, <2>2, <2>4, <3>4 DEF Sides
      <4>2. held[s] = net'[s]
        BY <1>6, <2>1, <2>4, <3>1, <3>2, <3>4, <4>1 DEF Agrees
      <4> QED BY <3>1, <3>2, <3>3, <4>1, <4>2 DEF Agrees, SaleIsOfPosition
    <3>5. CASE Side = "sell"
      <4>1. Unbooked("sell", s)' = 0 /\ Unbooked("buy", s)' = Unbooked("buy", s)
        BY <1>2, <2>2, <2>4, <3>5 DEF Sides
      <4>2. held[s] = net'[s] + Unbooked("buy", s)
        BY <1>6, <2>1, <2>4, <3>1, <3>2, <3>5 DEF Agrees
      <4> QED BY <3>1, <3>2, <3>3, <4>1, <4>2 DEF Agrees, SaleIsOfPosition
    <3> QED BY <1>2, <3>4, <3>5 DEF Sides
  <2> QED BY <2>3, <2>4
<1> QED BY <1>5, <1>7, <1>8 DEF SInv

LEMMA BookBuyKeeps == ASSUME SInv, Book, fill # NoFill, BookBuy PROVE SInv'
<1>1. Types /\ todo # <<>> /\ Now = work /\ Sym \in Symbols /\ todo[1] = <<Side, Sym>>
      /\ Side = "buy" /\ ~fill.failed /\ todo[1] \notin keys
  BY JobIsOne DEF SInv, Book, BookBuy, Now
<1>2. Bought \in Positions /\ fill.qty \in Nat /\ fill.live \in BOOLEAN /\ Bought.qty = fill.qty /\ Bought.live = fill.live
  BY <1>1, ScannerAssumption DEF Types, Fills, Positions, Bought
<1>3. work[Sym].qty = 0
  BY <1>1 DEF SInv, Types, Planned, Sym, Side
<1>4. ASSUME Sym \notin adrift
      PROVE  net[Sym] = 0 /\ Unbooked("sell", Sym) = 0
  <2>1. Agrees(Sym) /\ SaleIsOfPosition(Sym)
    BY <1>1, <1>4 DEF SInv
  <2>2. Unbooked("sell", Sym) \in Nat
    BY <1>1 DEF Types, Jobbed, Sides, Unbooked
  <2> QED BY <1>1, <1>3, <2>1, <2>2 DEF Agrees, SaleIsOfPosition, LiveQty
<1>5. Unbooked("buy", Sym) = IF fill.live THEN fill.qty ELSE 0
  BY <1>1 DEF SInv, FillIsReal, Unbooked, Book
<1>6. LiveQty(Bought) = IF fill.live THEN fill.qty ELSE 0
  BY <1>2 DEF LiveQty
<1> HIDE DEF Bought
<1> QED BY <1>1, <1>2, <1>4, <1>5, <1>6, BookKeeps DEF BookBuy

LEMMA BookSellKeeps == ASSUME SInv, Book, fill # NoFill, BookSell PROVE SInv'
<1> DEFINE pos == Rest(work[Sym], fill.qty)
<1>1. Types /\ todo # <<>> /\ Now = work /\ Sym \in Symbols /\ todo[1] = <<Side, Sym>>
      /\ Side = "sell" /\ ~fill.failed /\ todo[1] \notin keys
  BY JobIsOne DEF SInv, Book, BookSell, Now
<1>2. work[Sym] \in Positions /\ fill.qty \in Nat /\ fill.live \in BOOLEAN /\ (fill.live <=> work[Sym].live)
  BY <1>1 DEF SInv, Types, Fills, FillIsReal, Book
<1>3. pos \in Positions /\ pos.qty = (IF fill.qty < work[Sym].qty THEN work[Sym].qty - fill.qty ELSE 0)
      /\ (pos.live => work[Sym].live) /\ (pos.qty > 0 => pos.live = work[Sym].live)
  BY <1>2 DEF Rest, Positions, NoPos
<1> HIDE DEF pos
<1>4. ASSUME Sym \notin adrift
      PROVE  /\ LiveQty(pos) = IF fill.live THEN net[Sym] + (0 - fill.qty) ELSE net[Sym]
             /\ Unbooked("sell", Sym) = IF fill.live THEN 0 - (0 - fill.qty) ELSE 0
  <2>1. Agrees(Sym) /\ SaleIsOfPosition(Sym)
    BY <1>1, <1>4 DEF SInv
  <2>2. Unbooked("sell", Sym) \in Nat /\ net[Sym] \in Int /\ work[Sym].qty \in Nat /\ pos.qty \in Nat
        /\ pos.live \in BOOLEAN /\ work[Sym].live \in BOOLEAN
    BY <1>1, <1>2, <1>3 DEF Types, Jobbed, Sides, Unbooked, Positions
  <2>3. fill.live => Unbooked("sell", Sym) = fill.qty
    BY <1>1 DEF SInv, FillIsReal, Unbooked, Book
  <2>4. CASE fill.live
    BY <1>1, <1>2, <1>3, <2>1, <2>2, <2>3, <2>4 DEF Agrees, SaleIsOfPosition, LiveQty
  <2>5. CASE ~fill.live
    BY <1>1, <1>2, <1>3, <2>1, <2>2, <2>5 DEF Agrees, SaleIsOfPosition, LiveQty
  <2> QED BY <2>4, <2>5
<1>5. Pops([work EXCEPT ![Sym] = pos]) /\ BookTrade(0 - fill.qty, (market.price[Sym] - work[Sym].avg) * fill.qty)
  BY <1>1 DEF BookSell, pos, Types
<1>6. Side # "buy" /\ 0 - fill.qty \in Int
  BY <1>1, <1>2
<1> DEFINE signed == 0 - fill.qty
           pnl    == (market.price[Sym] - work[Sym].avg) * fill.qty
<1>7. /\ Pops([work EXCEPT ![Sym] = pos]) /\ BookTrade(signed, pnl) /\ signed \in Int
      /\ Sym \notin adrift =>
           /\ LiveQty(pos) = IF fill.live THEN net[Sym] + signed ELSE net[Sym]
           /\ Unbooked("sell", Sym) = IF fill.live THEN 0 - signed ELSE 0
  BY <1>4, <1>5, <1>6
<1> HIDE DEF signed, pnl
<1> QED BY <1>1, <1>3, <1>6, <1>7, BookKeeps

-----------------------------------------------------------------------------
LEMMA NewBarKeeps == ASSUME SInv, NewBar PROVE SInv'
<1>1. UNCHANGED <<saved, work, todo, fill, net, held, gate>> /\ todo = <<>> /\ market' \in Markets /\ keys' = {}
      /\ sent' = [o \in Sides \X Symbols |-> 0]
      /\ adrift' = adrift \cup {s \in Symbols : \E side \in Sides : Unbooked(side, s) > 0}
  BY DEF NewBar
<1>2. Types'
  BY <1>1 DEF SInv, Types, Jobbed
<1>3. Planned(todo, work)' /\ FillIsReal'
  BY <1>1 DEF SInv, Planned, FillIsReal
<1>4. Now' = Now
  BY <1>1 DEF Now
<1>5. ASSUME NEW s \in Symbols \ adrift' PROVE Agrees(s)' /\ SaleIsOfPosition(s)'
  <2>1. Agrees(s) /\ s \notin adrift
    BY <1>1 DEF SInv
  <2>2. \A side \in Sides : Unbooked(side, s) \in Nat
    BY DEF SInv, Types, Jobbed, Unbooked
  <2>3. \A side \in Sides : Unbooked(side, s) = 0 /\ Unbooked(side, s)' = 0
    <3>1. \A side \in Sides : ~(Unbooked(side, s) > 0)
      BY <1>1
    <3>2. \A side \in Sides : Unbooked(side, s)' = 0
      BY <1>1 DEF Unbooked
    <3> QED BY <2>2, <3>1, <3>2
  <2>4. Unbooked("buy", s)' = Unbooked("buy", s) /\ Unbooked("sell", s)' = Unbooked("sell", s) /\ Unbooked("sell", s)' = 0
    BY <2>3 DEF Sides
  <2> QED BY <1>1, <1>4, <2>1, <2>4 DEF Agrees, SaleIsOfPosition
<1> QED BY <1>2, <1>3, <1>5 DEF SInv

LEMMA CrashKeeps == ASSUME SInv, Crash PROVE SInv'
<1>1. UNCHANGED <<saved, work, keys, net, sent, held, market, gate>> /\ todo # <<>> /\ todo' = <<>> /\ fill' = NoFill
      /\ adrift' = adrift \cup {s \in Symbols : work[s] # saved[s]}
  BY DEF Crash, book, exchange
<1>2. NoFill \in Fills /\ <<>> \in Seq(Jobbed)
  BY DEF NoFill, Fills
<1>3. Types'
  BY <1>1, <1>2 DEF SInv, Types
<1>4. Planned(todo, work)' /\ FillIsReal'
  BY <1>1 DEF Planned, FillIsReal
<1>5. ASSUME NEW s \in Symbols \ adrift' PROVE Agrees(s)' /\ SaleIsOfPosition(s)'
  <2>1. Now'[s] = Now[s] /\ Agrees(s) /\ SaleIsOfPosition(s)
    BY <1>1 DEF SInv, Now
  <2>2. Unbooked("buy", s)' = Unbooked("buy", s) /\ Unbooked("sell", s)' = Unbooked("sell", s)
    BY <1>1 DEF Unbooked
  <2> QED BY <1>1, <2>1, <2>2 DEF Agrees, SaleIsOfPosition
<1> QED BY <1>3, <1>4, <1>5 DEF SInv

-----------------------------------------------------------------------------
LEMMA StepKeeps == SInv /\ [Next]_vars => SInv'
<1> SUFFICES ASSUME SInv, [Next]_vars PROVE SInv'
  OBVIOUS
<1>1. CASE TickStarts BY <1>1, TickStartsKeeps
<1>2. CASE Skip BY <1>2, SkipKeeps
<1>3. CASE OnPaper BY <1>3, OnPaperKeeps
<1>4. CASE Adopt BY <1>4, AdoptKeeps
<1>5. CASE Refused BY <1>5, RefusedKeeps
<1>6. CASE Executed BY <1>6, ExecutedKeeps
<1>7. CASE Book
  <2>1. fill # NoFill
    BY <1>7 DEF Book
  <2> QED BY <1>7, <2>1, NotDoneKeeps, BookBuyKeeps, BookSellKeeps DEF Book
<1>8. CASE NewBar BY <1>8, NewBarKeeps
<1>9. CASE Crash BY <1>9, CrashKeeps
<1>10. CASE UNCHANGED vars
  BY <1>10 DEF vars, SInv, Types, Planned, FillIsReal, Agrees, SaleIsOfPosition, Now, Unbooked, Side, Sym
<1> QED BY <1>1, <1>2, <1>3, <1>4, <1>5, <1>6, <1>7, <1>8, <1>9, <1>10 DEF Next

\* BookIsReal of every behaviour: whatever the universe, the slots, the market,
\* the gate and the number of faults, positions, booked trades and account agree
\* on every symbol but those the module names.
THEOREM PositionsAreReal == Spec => []BookIsReal
<1>1. Init => SInv
  BY InitKeeps
<1>2. SInv => BookIsReal
  BY DEF SInv, Agrees, BookIsReal
<1> QED BY <1>1, <1>2, StepKeeps, PTL DEF Spec

-----------------------------------------------------------------------------
(* The slots.                                                              *)

Fits(S) == Cardinality(S) <= Slots
Excused == stuck \cup adrift
Touched == {s \in Symbols : work[s] # saved[s]}

\* What the tick will hold when its sales are done, what it has still to buy
\* included, is among the symbols T.
HeadsFor(T) ==
  /\ \A s \in HeldIn(work) \ Excused : s \in T \/ \E i \in 1..Len(todo) : todo[i] = <<"sell", s>>
  /\ \A i \in 1..Len(todo) : todo[i][1] = "buy" => todo[i][2] \in T

\* Sales come before entries; a symbol whose order has still to come is as it
\* was; a tick that dies leaves no more than fits, but for what it has touched.
TickPlan ==
  /\ \A i, j \in 1..Len(todo) : i < j /\ todo[i][1] = "buy" => todo[j][1] = "buy"
  /\ \A i \in 1..Len(todo) : work[todo[i][2]] = saved[todo[i][2]]
  /\ todo # <<>> =>
       /\ Fits(HeldIn(saved) \ (Excused \cup Touched))
       /\ \E T \in SUBSET Symbols : Fits(T) /\ HeadsFor(T)

SlotInv == SlotsKept /\ TickPlan

LEMMA FitsSubset == ASSUME NEW T \in SUBSET Symbols, Fits(T), NEW S \in SUBSET T PROVE Fits(S)
<1>1. IsFiniteSet(T)
  BY ScannerAssumption, FS_Subset
<1>2. Cardinality(S) <= Cardinality(T) /\ Cardinality(S) \in Nat /\ Cardinality(T) \in Nat
  BY <1>1, FS_Subset, FS_CardinalityType
<1> QED BY <1>2, SlotsPositive DEF Fits

\* The ranking is a strict order, so a symbol ahead of another has fewer ahead
\* of it, and no two of the top have the same number.
LEMMA TopFits ==
  ASSUME Types, NEW lost \in SUBSET Symbols
  PROVE  RankUniverse(Symbols \ lost) \in SUBSET Symbols /\ Fits(RankUniverse(Symbols \ lost))
<1> DEFINE scored   == {s \in Symbols \ lost : market.score[s] # NoScore}
           Ahead(s) == {t \in scored : Better(t, s)}
           top      == {s \in scored : Cardinality(Ahead(s)) < Top}
<1>1. RankUniverse(Symbols \ lost) = top
  BY DEF RankUniverse
<1>2. scored \subseteq Symbols /\ IsFiniteSet(scored) /\ top \subseteq Symbols /\ IsFiniteSet(top)
  BY ScannerAssumption, FS_Subset
<1>3. \A s \in scored : market.score[s] \in Int /\ s \in Int
  <2>1. market \in Markets /\ \A s \in scored : s \in Symbols
    BY DEF Types
  <2>2. \A s \in Symbols : market.score[s] \in Int /\ s \in Int
    BY <2>1, ScannerAssumption
  <2> HIDE DEF scored
  <2> QED BY <2>1, <2>2
<1>4. \A a, b, c \in scored : Better(a, b) /\ Better(b, c) => Better(a, c)
  BY <1>3 DEF Better
<1>5. \A a, b \in scored : a # b => Better(a, b) \/ Better(b, a)
  BY <1>3, ScannerAssumption DEF Better
<1>6. \A a \in scored : ~Better(a, a)
  BY <1>3 DEF Better
<1>7. \A a, b \in scored : Better(a, b) => Cardinality(Ahead(a)) # Cardinality(Ahead(b))
  <2> SUFFICES ASSUME NEW a \in scored, NEW b \in scored, Better(a, b)
               PROVE  Cardinality(Ahead(a)) # Cardinality(Ahead(b))
    OBVIOUS
  <2>1. Ahead(a) \in SUBSET Ahead(b) /\ a \in Ahead(b) /\ a \notin Ahead(a)
    BY <1>4, <1>6
  <2>2. IsFiniteSet(Ahead(b))
    BY <1>2, FS_Subset
  <2> HIDE DEF Ahead
  <2> QED BY <2>1, <2>2, FS_Subset
<1>8. \A s \in top : Cardinality(Ahead(s)) \in 0..(Top - 1)
  <2> SUFFICES ASSUME NEW s \in top PROVE Cardinality(Ahead(s)) \in 0..(Top - 1)
    OBVIOUS
  <2>1. IsFiniteSet(Ahead(s))
    BY <1>2, FS_Subset
  <2>2. Cardinality(Ahead(s)) \in Nat
    BY <2>1, FS_CardinalityType
  <2> QED BY <2>2, ScannerAssumption
<1>9. Cardinality(top) <= Top
  <2>1. IsFiniteSet(0..(Top - 1)) /\ Cardinality(0..(Top - 1)) = Top
    <3>1. 0 \in Int /\ Top - 1 \in Int /\ ~(0 > Top - 1) /\ Top - 1 - 0 + 1 = Top
      BY ScannerAssumption
    <3> QED BY <3>1, FS_Interval
  <2>2. Cardinality(top) \in Nat
    BY <1>2, FS_CardinalityType
  <2> SUFFICES ASSUME Cardinality(0..(Top - 1)) < Cardinality(top) PROVE FALSE
    BY <2>1, <2>2, ScannerAssumption
  <2> DEFINE rank == [s \in top |-> Cardinality(Ahead(s))]
  <2>3. rank \in [top -> 0..(Top - 1)]
    BY <1>8
  <2>4. \A x, y \in top : x # y => rank[x] # rank[y]
    BY <1>5, <1>7
  <2> HIDE DEF rank, top
  <2> QED BY <1>2, <2>1, <2>3, <2>4, FS_PigeonHole
<1>10. Cardinality(top) <= Cardinality(Symbols)
  BY <1>2, ScannerAssumption, FS_Subset
<1> HIDE DEF top
<1> QED BY <1>1, <1>2, <1>9, <1>10 DEF Fits, Slots

LEMMA SlotsStart == Init => SlotInv
<1> SUFFICES ASSUME Init PROVE SlotInv
  OBVIOUS
<1>1. HeldIn(Now) \ (stuck \cup adrift) = {}
  BY DEF Init, Now, HeldIn, Flat, NoPos
<1>2. Cardinality({}) = 0
  BY FS_EmptySet
<1>3. SlotsKept
  BY <1>1, <1>2, SlotsPositive DEF SlotsKept
<1>4. TickPlan
  BY DEF Init, TickPlan
<1> QED BY <1>3, <1>4 DEF SlotInv

\* What changes neither the positions nor the orders left, and loses track of
\* symbols at most.
LEMMA SlotsAside ==
  ASSUME SlotInv, SInv, UNCHANGED <<saved, work, todo, stuck>>, adrift \subseteq adrift'
  PROVE  SlotInv'
<1>1. saved \in [Symbols -> Positions] /\ work \in [Symbols -> Positions]
  BY DEF SInv, Types
<1>2. HeldIn(Now) \in SUBSET Symbols /\ HeldIn(saved) \in SUBSET Symbols /\ Now' = Now
  BY DEF HeldIn, Now
<1>3. SlotsKept'
  <2>1. Fits(HeldIn(Now) \ (stuck \cup adrift))
    BY DEF SlotInv, SlotsKept, Fits
  <2>2. (HeldIn(Now) \ (stuck \cup adrift))' \in SUBSET (HeldIn(Now) \ (stuck \cup adrift))
    BY <1>2 DEF HeldIn
  <2>3. Fits((HeldIn(Now) \ (stuck \cup adrift))')
    BY <1>2, <2>1, <2>2, FitsSubset
  <2> QED BY <2>3 DEF Fits, SlotsKept, Slots
<1>4. ASSUME todo # <<>> PROVE Fits(HeldIn(saved) \ (Excused \cup Touched))' /\ \E T \in SUBSET Symbols : Fits(T)' /\ HeadsFor(T)'
  <2>1. (HeldIn(saved) \ (Excused \cup Touched))' \in SUBSET (HeldIn(saved) \ (Excused \cup Touched))
    BY DEF HeldIn, Excused, Touched
  <2>2. Fits((HeldIn(saved) \ (Excused \cup Touched))')
    BY <1>2, <1>4, <2>1, FitsSubset DEF SlotInv, TickPlan
  <2>3. PICK T \in SUBSET Symbols : Fits(T) /\ HeadsFor(T)
    BY <1>4 DEF SlotInv, TickPlan
  <2>4. HeadsFor(T)'
    BY <2>3 DEF HeadsFor, Excused, HeldIn
  <2> QED BY <2>2, <2>3, <2>4 DEF Fits, Slots
<1> QED BY <1>3, <1>4 DEF SlotInv, TickPlan

\* An order that is done with: a sale leaves nothing, or what is excused.
LEMMA SlotsPop ==
  ASSUME SlotInv, SInv, todo # <<>>, NEW P \in [Symbols -> Positions], Pops(P), adrift' = adrift,
         \A s \in Symbols : s # Sym => P[s] = work[s] /\ (s \in stuck' <=> s \in stuck),
         Side = "sell" /\ P[Sym].qty > 0 => Sym \in stuck'
  PROVE  SlotInv'
<1>1. /\ todo \in Seq(Jobbed) /\ Len(todo) >= 1 /\ Sym \in Symbols /\ Side \in Sides /\ todo[1] = <<Side, Sym>>
      /\ work \in [Symbols -> Positions] /\ saved \in [Symbols -> Positions] /\ Now = work
  BY JobIsOne DEF SInv, Types, Now
<1>2. /\ todo' = Tail(todo) /\ todo' \in Seq(Jobbed) /\ Len(todo') = Len(todo) - 1 /\ (todo' = <<>> <=> Len(todo) = 1)
      /\ work' = P /\ saved' = IF Len(todo) = 1 THEN P ELSE saved
  BY <1>1, TailOf DEF Pops
<1>3. \A i \in 1..Len(todo') : todo'[i] = todo[i + 1] /\ i + 1 \in 1..Len(todo) /\ todo'[i][2] # Sym /\ todo'[i][2] \in Symbols
  <2>1. \A i \in 1..Len(todo') : todo'[i] = todo[i + 1] /\ i + 1 \in 1..Len(todo) /\ 1 < i + 1 /\ todo[i + 1] \in Jobbed
    BY <1>1, <1>2
  <2> QED BY <1>1, <2>1 DEF SInv, Planned, Sym, Jobbed
<1>4. Now' = P
  BY <1>2 DEF Now
<1>5. PICK T \in SUBSET Symbols : Fits(T) /\ HeadsFor(T)
  BY DEF SlotInv, TickPlan
<1>6. HeadsFor(T)'
  <2>1. ASSUME NEW s \in HeldIn(P) \ Excused' PROVE s \in T \/ \E i \in 1..Len(todo') : todo'[i] = <<"sell", s>>
    <3>1. CASE s = Sym
      <4>1. Side = "buy"
        BY <1>1, <2>1, <3>1 DEF HeldIn, Excused, Sides
      <4> QED BY <1>1, <1>5, <3>1, <4>1 DEF HeadsFor
    <3>2. CASE s # Sym
      <4>1. s \in HeldIn(work) \ Excused
        BY <2>1, <3>2 DEF HeldIn, Excused
      <4>2. CASE s \notin T
        <5>1. PICK i \in 1..Len(todo) : todo[i] = <<"sell", s>>
          BY <1>5, <4>1, <4>2 DEF HeadsFor
        <5>2. i # 1
          BY <1>1, <3>2, <5>1
        <5>3. i - 1 \in 1..Len(todo') /\ todo'[i - 1] = todo[i]
          <6>1. i - 1 \in 1..Len(todo') /\ i - 1 + 1 = i
            BY <1>1, <1>2, <5>2
          <6> QED BY <1>3, <6>1
        <5> QED BY <5>1, <5>3
      <4> QED BY <4>2
    <3> QED BY <3>1, <3>2
  <2>2. \A i \in 1..Len(todo') : todo'[i][1] = "buy" => todo'[i][2] \in T
    BY <1>3, <1>5 DEF HeadsFor
  <2> QED BY <1>2, <2>1, <2>2 DEF HeadsFor
<1>7. \A i, j \in 1..Len(todo') : i < j /\ todo'[i][1] = "buy" => todo'[j][1] = "buy"
  BY <1>3 DEF SlotInv, TickPlan
<1>8. todo' # <<>> => \A i \in 1..Len(todo') : work'[todo'[i][2]] = saved'[todo'[i][2]]
  BY <1>2, <1>3 DEF SlotInv, TickPlan
<1>9. todo' # <<>> => Fits((HeldIn(saved) \ (Excused \cup Touched))')
  <2> SUFFICES ASSUME todo' # <<>> PROVE Fits((HeldIn(saved) \ (Excused \cup Touched))')
    OBVIOUS
  <2>1. saved' = saved
    BY <1>2
  <2>2. work[Sym] = saved[Sym] /\ (Side = "buy" => work[Sym].qty = 0)
    BY <1>1 DEF SlotInv, TickPlan, SInv, Planned, Sym, Side
  <2>3. ASSUME NEW s \in HeldIn(saved), s \notin Excused', s \notin Touched' PROVE s \notin Excused /\ s \notin Touched
    <3>1. s \in Symbols /\ P[s] = saved[s] /\ saved[s].qty > 0
      BY <1>2, <2>1, <2>3 DEF HeldIn, Touched
    <3>2. s # Sym
      BY <1>1, <2>2, <2>3, <3>1 DEF Excused, Sides
    <3> QED BY <2>3, <3>1, <3>2 DEF Excused, Touched
  <2>4. (HeldIn(saved) \ (Excused \cup Touched))' \in SUBSET (HeldIn(saved) \ (Excused \cup Touched))
    BY <2>1, <2>3 DEF HeldIn
  <2>5. HeldIn(saved) \ (Excused \cup Touched) \in SUBSET Symbols /\ Fits(HeldIn(saved) \ (Excused \cup Touched))
    BY DEF HeldIn, SlotInv, TickPlan
  <2> QED BY <2>4, <2>5, FitsSubset
<1>10. Fits((HeldIn(Now) \ (stuck \cup adrift))')
  <2>1. CASE Side = "sell"
    <3>1. (HeldIn(Now) \ (stuck \cup adrift))' \in SUBSET (HeldIn(Now) \ (stuck \cup adrift))
      BY <1>1, <1>4, <2>1 DEF HeldIn
    <3>2. HeldIn(Now) \ (stuck \cup adrift) \in SUBSET Symbols /\ Fits(HeldIn(Now) \ (stuck \cup adrift))
      BY DEF HeldIn, SlotInv, SlotsKept, Fits
    <3> QED BY <3>1, <3>2, FitsSubset
  <2>2. CASE Side = "buy"
    <3>1. \A i \in 1..Len(todo') : todo'[i][1] = "buy"
      BY <1>1, <1>3, <2>2 DEF SlotInv, TickPlan, Side
    <3>2. (HeldIn(Now) \ (stuck \cup adrift))' \in SUBSET T
      <4> SUFFICES ASSUME NEW s \in HeldIn(P), s \notin Excused' PROVE s \in T
        BY <1>4 DEF Excused, HeldIn
      <4>1. s \in T \/ \E i \in 1..Len(todo') : todo'[i] = <<"sell", s>>
        BY <1>2, <1>6 DEF HeadsFor, Excused, HeldIn
      <4> QED BY <3>1, <4>1
    <3> QED BY <1>5, <3>2, FitsSubset
  <2> QED BY <1>1, <2>1, <2>2 DEF Sides
<1>11. SlotsKept'
  BY <1>10 DEF SlotsKept, Fits, Slots
<1> QED BY <1>2, <1>5, <1>6, <1>7, <1>8, <1>9, <1>11 DEF SlotInv, TickPlan, Fits, Slots

LEMMA SlotsTickStarts == ASSUME SlotInv, SInv, TickStarts PROVE SlotInv'
<1> DEFINE top(lost)    == RankUniverse(Symbols \ lost)
           want(lost)   == WantHold(Symbols \ lost)
           closes(lost) == ToClose(saved, top(lost), want(lost))
           opens(lost)  == ToOpen(saved, top(lost), want(lost))
<1>1. PICK lost \in SUBSET Symbols :
        /\ todo' \in Jobs(closes(lost) \ lost, opens(lost)) /\ todo' # <<>> /\ work' = saved
        /\ stuck' = (stuck \cap HeldIn(saved)) \cup (closes(lost) \cap lost)
  BY DEF TickStarts
<1>2. /\ todo = <<>> /\ saved' = saved /\ adrift' = adrift /\ Now = saved /\ Now' = saved
      /\ HeldIn(saved) \in SUBSET Symbols /\ HeldIn(saved)' = HeldIn(saved)
  BY <1>1 DEF TickStarts, Now, HeldIn
<1>3. top(lost) \in SUBSET Symbols /\ Fits(top(lost))
  BY TopFits DEF SInv
<1>4. /\ closes(lost) = {s \in HeldIn(saved) : (market.active /\ s \notin top(lost)) \/ s \notin want(lost)}
      /\ opens(lost) = {s \in top(lost) : market.active /\ s \notin HeldIn(saved) /\ s \in want(lost)}
  BY DEF ToClose, ToOpen
<1> HIDE DEF top, want, closes, opens
<1> DEFINE jobs == ({"sell"} \X (closes(lost) \ lost)) \cup ({"buy"} \X opens(lost))
           n    == Cardinality(jobs)
           kept == HeldIn(saved) \ (stuck \cup adrift)
<1>5. todo' \in [1..n -> jobs] /\ \A i, j \in 1..n : i < j => Sooner(todo'[i], todo'[j])
  BY <1>1 DEF Jobs
<1>6. todo' \in Seq(Jobbed) /\ Len(todo') \in Nat /\ DOMAIN todo' = 1..Len(todo')
  BY TickStartsKeeps DEF SInv, Types
<1>7. DOMAIN todo' = 1..n
  BY <1>5
<1>8. \A i \in 1..Len(todo') : todo'[i] \in jobs
  BY <1>5, <1>6, <1>7
<1>9. \A i, j \in 1..Len(todo') : i < j /\ todo'[i][1] = "buy" => todo'[j][1] = "buy"
  BY <1>5, <1>6, <1>7 DEF Sooner
<1>10. kept \in SUBSET Symbols /\ Fits(kept)
  BY <1>2 DEF SlotInv, SlotsKept, Fits
<1>11. Fits(HeldIn(saved) \ (stuck' \cup adrift))
  <2>1. HeldIn(saved) \ (stuck' \cup adrift) \in SUBSET kept
    BY <1>1
  <2> QED BY <1>10, <2>1, FitsSubset
<1>12. SlotsKept'
  BY <1>2, <1>11 DEF SlotsKept, Fits, Slots
<1>13. Fits((HeldIn(saved) \ (Excused \cup Touched))')
  <2>1. (HeldIn(saved) \ (Excused \cup Touched))' \in SUBSET kept
    BY <1>1, <1>2 DEF Excused
  <2> QED BY <1>10, <2>1, FitsSubset
<1>14. \E T \in SUBSET Symbols : Fits(T) /\ HeadsFor(T)'
  <2> HIDE DEF kept
  <2>1. \A job \in jobs : \E i \in 1..Len(todo') : todo'[i] = job
    <3>1. closes(lost) \ lost \in SUBSET HeldIn(saved) /\ opens(lost) \in SUBSET (Symbols \ HeldIn(saved))
      BY <1>3, <1>4
    <3> QED BY <1>1, <3>1, JobsComplete DEF SInv
  <2>2. ASSUME NEW s \in HeldIn(saved), s \notin Excused'
        PROVE  s \in closes(lost) => \E i \in 1..Len(todo') : todo'[i] = <<"sell", s>>
    <3> SUFFICES ASSUME s \in closes(lost) PROVE <<"sell", s>> \in jobs
      BY <2>1
    <3> QED BY <1>1, <2>2 DEF Excused
  <2>3. \A i \in 1..Len(todo') : todo'[i][1] = "buy" => todo'[i][2] \in opens(lost)
    BY <1>8
  <2> HIDE DEF jobs, n
  <2>4. CASE market.active
    <3>1. PICK T \in SUBSET Symbols : T = top(lost)
      BY <1>3
    <3>2. \A s \in HeldIn(saved) : s \in T \/ s \in closes(lost)
      BY <1>4, <2>4, <3>1
    <3>3. opens(lost) \subseteq T
      BY <1>4, <3>1
    <3>4. HeadsFor(T)'
      BY <1>1, <1>2, <2>2, <2>3, <3>2, <3>3 DEF HeadsFor
    <3> QED BY <1>3, <3>1, <3>4
  <2>5. CASE ~market.active
    <3>1. PICK T \in SUBSET Symbols : T = HeldIn(saved) \ (stuck' \cup adrift)
      BY <1>2
    <3>2. \A i \in 1..Len(todo') : todo'[i][1] # "buy"
      BY <1>4, <2>3, <2>5
    <3>3. HeadsFor(T)'
      BY <1>1, <1>2, <3>1, <3>2 DEF HeadsFor, Excused
    <3> QED BY <1>11, <3>1, <3>3
  <2> QED BY <2>4, <2>5
<1> QED BY <1>1, <1>2, <1>9, <1>12, <1>13, <1>14 DEF SlotInv, TickPlan, Fits, Slots

LEMMA SlotsSkip == ASSUME SlotInv, SInv, Skip PROVE SlotInv'
<1>1. work \in [Symbols -> Positions] /\ todo # <<>> /\ Pops(work) /\ adrift' = adrift /\ stuck' = stuck
  BY DEF SInv, Types, Skip
<1>2. Side = "sell" => ~(work[Sym].qty > 0)
  BY DEF Skip, Wanted
<1> QED BY <1>1, <1>2, SlotsPop

LEMMA SlotsNotDone == ASSUME SlotInv, SInv, Book, NotDone PROVE SlotInv'
<1>1. work \in [Symbols -> Positions] /\ todo # <<>> /\ Pops(work) /\ adrift' = adrift
      /\ stuck' = IF Side = "sell" THEN stuck \cup {Sym} ELSE stuck
  BY DEF SInv, Types, Book, NotDone
<1> QED BY <1>1, SlotsPop

LEMMA SlotsBookBuy == ASSUME SlotInv, SInv, Book, BookBuy PROVE SlotInv'
<1>1. Types /\ todo # <<>> /\ Sym \in Symbols /\ Side # "sell" /\ adrift' = adrift /\ stuck' = stuck \ {Sym}
  BY JobIsOne DEF SInv, Book, BookBuy
<1>2. Bought \in Positions
  BY <1>1, ScannerAssumption DEF Types, Fills, Positions, Bought
<1> DEFINE P == [work EXCEPT ![Sym] = Bought]
<1>3. P \in [Symbols -> Positions] /\ \A s \in Symbols : s # Sym => P[s] = work[s]
  BY <1>1, <1>2 DEF Types
<1>4. Pops(P)
  BY DEF BookBuy
<1> HIDE DEF P
<1> QED BY <1>1, <1>3, <1>4, SlotsPop

LEMMA SlotsBookSell == ASSUME SlotInv, SInv, Book, BookSell PROVE SlotInv'
<1>1. Types /\ todo # <<>> /\ Sym \in Symbols /\ adrift' = adrift /\ fill.qty \in Nat
      /\ stuck' = IF fill.qty < work[Sym].qty THEN stuck \cup {Sym} ELSE stuck \ {Sym}
  BY JobIsOne DEF SInv, Types, Fills, Book, BookSell
<1>2. work[Sym] \in Positions
  BY <1>1 DEF Types
<1> DEFINE pos == Rest(work[Sym], fill.qty)
           P   == [work EXCEPT ![Sym] = pos]
<1>3. pos \in Positions /\ (fill.qty >= work[Sym].qty => pos.qty = 0)
  BY <1>1, <1>2 DEF Rest, Positions, NoPos
<1> HIDE DEF pos
<1>4. P \in [Symbols -> Positions] /\ P[Sym] = pos /\ \A s \in Symbols : s # Sym => P[s] = work[s]
  BY <1>1, <1>3 DEF Types
<1>5. Pops(P)
  BY <1>1 DEF BookSell, Types, pos
<1>6. P[Sym].qty > 0 => Sym \in stuck'
  BY <1>1, <1>2, <1>3, <1>4 DEF Positions
<1>7. \A s \in Symbols : s # Sym => (s \in stuck' <=> s \in stuck)
  BY <1>1
<1> HIDE DEF P
<1> QED BY <1>1, <1>4, <1>5, <1>6, <1>7, SlotsPop

LEMMA SlotsCrash == ASSUME SlotInv, SInv, Crash PROVE SlotInv'
<1>1. todo # <<>> /\ todo' = <<>> /\ saved' = saved /\ stuck' = stuck /\ adrift' = adrift \cup Touched
  BY DEF Crash, Touched
<1>2. HeldIn(saved) \ (Excused \cup Touched) = (HeldIn(Now) \ (stuck \cup adrift))'
  BY <1>1 DEF Now, HeldIn, Excused
<1>3. Fits(HeldIn(saved) \ (Excused \cup Touched))
  BY <1>1 DEF SlotInv, TickPlan
<1>4. SlotsKept'
  BY <1>2, <1>3 DEF Fits, Slots, SlotsKept
<1>5. TickPlan'
  BY <1>1 DEF TickPlan
<1> QED BY <1>4, <1>5 DEF SlotInv

LEMMA SlotsStep == SlotInv /\ SInv /\ [Next]_vars => SlotInv'
<1> SUFFICES ASSUME SlotInv, SInv, [Next]_vars PROVE SlotInv'
  OBVIOUS
<1>1. CASE TickStarts BY <1>1, SlotsTickStarts
<1>2. CASE Skip BY <1>2, SlotsSkip
<1>3. CASE OnPaper BY <1>3, SlotsAside DEF OnPaper
<1>4. CASE Adopt BY <1>4, SlotsAside DEF Adopt
<1>5. CASE Refused BY <1>5, SlotsAside DEF Refused
<1>6. CASE Executed
  <2>1. UNCHANGED <<saved, work, todo, stuck>> /\ adrift \subseteq adrift'
    BY <1>6 DEF Executed
  <2> QED BY <2>1, SlotsAside
<1>7. CASE Book BY <1>7, SlotsNotDone, SlotsBookBuy, SlotsBookSell DEF Book
<1>8. CASE NewBar
  <2>1. UNCHANGED <<saved, work, todo, stuck>> /\ adrift \subseteq adrift'
    BY <1>8 DEF NewBar
  <2> QED BY <2>1, SlotsAside
<1>9. CASE Crash BY <1>9, SlotsCrash
<1>10. CASE UNCHANGED vars BY <1>10, SlotsAside DEF vars
<1> QED BY <1>1, <1>2, <1>3, <1>4, <1>5, <1>6, <1>7, <1>8, <1>9, <1>10 DEF Next

\* SlotsKept of every behaviour: the bot holds more symbols than the capital is
\* split for only by those it should have sold and could not, or of which an
\* execution is known to nobody, also while a tick is at its orders.
THEOREM SlotsAreKept == Spec => []SlotsKept
<1>1. Init => SInv /\ SlotInv
  BY InitKeeps, SlotsStart
<1>2. SInv /\ SlotInv /\ [Next]_vars => SInv' /\ SlotInv'
  BY StepKeeps, SlotsStep
<1>3. SlotInv => SlotsKept
  BY DEF SlotInv
<1> QED BY <1>1, <1>2, <1>3, PTL DEF Spec

-----------------------------------------------------------------------------
(* The types.                                                              *)

Spent(trips, kind) == (trips => TRUE \in Trips(kind)) /\ Spend(trips)

\* A fill is of something; so is a position.
Marks ==
  /\ \A s \in Symbols : PositionOK(saved[s]) /\ PositionOK(work[s])
  /\ fill # NoFill => fill.qty > 0
  /\ held \in [Symbols -> Nat]
  /\ curve.realized \in Int /\ curve.peak \in Nat /\ curve.realized <= curve.peak
  /\ bar \in 0..Bars /\ stuck \subseteq Symbols /\ left \in 0..Trouble

LEMMA MarksStart == Init => Marks
<1>1. \A s \in Symbols : PositionOK(Flat[s])
  BY DEF Flat, PositionOK
<1> QED BY <1>1, ScannerAssumption DEF Init, Marks, NoFill

\* What may go wrong goes wrong once less.
LEMMA TripsLess == ASSUME left \in 0..Trouble, NEW kind, NEW trips \in Trips(kind), Spend(trips)
                   PROVE  left' \in 0..Trouble
<1>1. Trouble \in Nat
  BY ScannerAssumption
<1>2. trips \in BOOLEAN /\ (trips => left > 0)
  BY DEF Trips
<1>3. left' = left \/ (left > 0 /\ left' = left - 1)
  BY <1>2 DEF Spend
<1> QED BY <1>1, <1>3

\* What an order leaves for the booking.
LEMMA MarksFill ==
  ASSUME Marks, fill'.qty > 0, held' \in [Symbols -> Nat], left' \in 0..Trouble, UNCHANGED <<saved, work, book, bar, stuck>>
  PROVE  Marks'
  BY DEF Marks, book

LEMMA MarksPop ==
  ASSUME Marks, NEW P, Pops(P), \A s \in Symbols : PositionOK(P[s]), held' = held, bar' = bar, left' = left,
         curve'.realized \in Int, curve'.peak \in Nat, curve'.realized <= curve'.peak, stuck' \subseteq Symbols
  PROVE  Marks'
<1>1. \A s \in Symbols : PositionOK(saved'[s]) /\ PositionOK(work'[s])
  BY DEF Marks, Pops
<1> QED BY <1>1 DEF Marks, Pops

LEMMA MarksTickStarts == ASSUME Marks, TickStarts PROVE Marks'
<1> DEFINE top(lost)    == RankUniverse(Symbols \ lost)
           closes(lost) == ToClose(saved, top(lost), WantHold(Symbols \ lost))
<1>1. PICK lost \in (IF TRUE \in Trips("data") THEN SUBSET Symbols ELSE {{}}) :
        /\ Spend(lost # {}) /\ work' = saved /\ stuck' = (stuck \cap HeldIn(saved)) \cup (closes(lost) \cap lost)
  BY DEF TickStarts
<1>2. lost \subseteq Symbols /\ (lost # {}) \in Trips("data")
  <2>1. FALSE \in Trips("data")
    BY DEF Trips
  <2>2. CASE TRUE \in Trips("data")
    BY <1>1, <2>1, <2>2
  <2>3. CASE TRUE \notin Trips("data")
    BY <1>1, <2>1, <2>3
  <2> QED BY <2>2, <2>3
<1>3. left' \in 0..Trouble
  BY <1>1, <1>2, TripsLess DEF Marks
<1>4. stuck' \subseteq Symbols
  BY <1>1, <1>2 DEF HeldIn
<1>5. UNCHANGED <<saved, fill, curve, held, bar>>
  BY DEF TickStarts, book, exchange
<1> QED BY <1>1, <1>3, <1>4, <1>5 DEF Marks

LEMMA MarksSkip == ASSUME Marks, Skip PROVE Marks'
<1>1. /\ Pops(work) /\ held' = held /\ bar' = bar /\ left' = left /\ curve' = curve /\ stuck' = stuck
  BY DEF Skip, book, exchange
<1> QED BY <1>1, MarksPop DEF Marks

\* An order of nothing is not sent.
LEMMA MarksOrder ==
  ASSUME Marks, SInv, todo # <<>>, OnPaper \/ Adopt \/ Refused PROVE Marks'
<1>1. Wanted \in Nat /\ sent[todo[1]] \in Nat
  BY WantedNat, JobIsOne DEF SInv, Types
<1>2. fill'.qty > 0
  <2>1. CASE OnPaper BY <2>1 DEF OnPaper
  <2>2. CASE Adopt BY <2>2 DEF Adopt
  <2>3. CASE Refused BY <2>3 DEF Refused, Live
  <2> QED BY <2>1, <2>2, <2>3
<1>3. left' \in 0..Trouble
  <2>1. CASE OnPaper \/ Adopt
    BY <2>1 DEF OnPaper, Adopt, Marks
  <2>2. CASE Refused
    <3>1. PICK trips \in Trips("refused") : Spend(trips)
      BY <2>2 DEF Refused, Trips
    <3> QED BY <3>1, TripsLess DEF Marks
  <2> QED BY <2>1, <2>2
<1>4. UNCHANGED <<saved, work, book, bar, stuck, held>>
  BY DEF OnPaper, Adopt, Refused, exchange
<1>5. held' \in [Symbols -> Nat]
  BY <1>4 DEF Marks
<1> QED BY <1>2, <1>3, <1>4, <1>5, MarksFill

\* Of a sale the account holds enough.
LEMMA MarksExecuted == ASSUME Marks, SInv, Executed PROVE Marks'
<1>1. todo # <<>> /\ Wanted > 0 /\ (Side = "sell" => held[Sym] >= Wanted)
  BY DEF Executed, Live
<1>2. PICK part \in Trips("part"), lost \in Trips("lost") :
        LET qty == IF part THEN Wanted - 1 ELSE Wanted
        IN  /\ ~(part /\ lost) /\ (part => Wanted > 1) /\ Spend(part \/ lost)
            /\ held' = [held EXCEPT ![Sym] = IF Side = "sell" THEN @ - qty ELSE @ + qty]
            /\ fill' = [qty |-> qty, live |-> TRUE, failed |-> lost]
  BY DEF Executed
<1> DEFINE qty == IF part THEN Wanted - 1 ELSE Wanted
<1>3. part \in BOOLEAN /\ lost \in BOOLEAN
  BY DEF Trips
<1>4. Wanted \in Nat /\ Sym \in Symbols /\ Side \in Sides
  BY <1>1, WantedNat, JobIsOne DEF SInv
<1>5. qty \in Nat /\ qty > 0 /\ qty <= Wanted
  BY <1>1, <1>2, <1>4
<1>6. held' = [held EXCEPT ![Sym] = IF Side = "sell" THEN @ - qty ELSE @ + qty] /\ fill'.qty = qty
  BY <1>2
<1> HIDE DEF qty
<1>7. held' \in [Symbols -> Nat]
  <2>1. held \in [Symbols -> Nat] /\ held[Sym] \in Nat
    BY <1>4 DEF Marks
  <2>2. (IF Side = "sell" THEN held[Sym] - qty ELSE held[Sym] + qty) \in Nat
    BY <1>1, <1>4, <1>5, <2>1
  <2> QED BY <1>6, <2>1, <2>2
<1>8. left' \in 0..Trouble
  <2>1. CASE part
    <3>1. Spend(part)
      BY <1>2, <1>3, <2>1 DEF Spend
    <3> QED BY <3>1, TripsLess DEF Marks
  <2>2. CASE ~part
    <3>1. Spend(lost)
      BY <1>2, <1>3, <2>2 DEF Spend
    <3> QED BY <3>1, TripsLess DEF Marks
  <2> QED BY <1>3, <2>1, <2>2
<1>9. UNCHANGED <<saved, work, book, bar, stuck>>
  BY DEF Executed
<1> QED BY <1>5, <1>6, <1>7, <1>8, <1>9, MarksFill

\* What is booked leaves a position, or nothing.
LEMMA MarksBook == ASSUME Marks, SInv, Book PROVE Marks'
<1>1. /\ todo # <<>> /\ fill # NoFill /\ held' = held /\ bar' = bar /\ left' = left
      /\ Types /\ Sym \in Symbols /\ market.price[Sym] \in Nat \ {0}
  BY JobIsOne, ScannerAssumption DEF Book, SInv, Types, exchange
<1>2. fill.qty \in Nat /\ fill.qty > 0 /\ fill.live \in BOOLEAN /\ work[Sym] \in Positions /\ PositionOK(work[Sym])
      /\ work \in [Symbols -> Positions]
  BY <1>1 DEF Marks, Types, Fills
<1>3. CASE NotDone
  <2>1. Pops(work) /\ curve' = curve /\ stuck' \subseteq Symbols
    BY <1>1, <1>3 DEF NotDone, book, Marks
  <2> QED BY <1>1, <2>1, MarksPop DEF Marks
<1>4. ASSUME NEW signed, NEW pnl \in Int, BookTrade(signed, pnl)
      PROVE  curve'.realized \in Int /\ curve'.peak \in Nat /\ curve'.realized <= curve'.peak
  <2>1. PICK total \in Int : total = curve.realized + pnl
    BY DEF Marks
  <2>2. curve' = [realized |-> total, peak |-> IF total > curve.peak THEN total ELSE curve.peak]
    BY <1>4, <2>1 DEF BookTrade
  <2>3. curve'.realized = total /\ curve'.peak = IF total > curve.peak THEN total ELSE curve.peak
    BY <2>2
  <2> QED BY <2>1, <2>3 DEF Marks
<1>5. CASE BookBuy
  <2> DEFINE P == [work EXCEPT ![Sym] = Bought]
  <2>1. Pops(P) /\ BookTrade(fill.qty, 0) /\ stuck' \subseteq Symbols
    BY <1>5 DEF BookBuy, Marks
  <2>2. PositionOK(Bought)
    BY <1>1, <1>2 DEF Bought, PositionOK
  <2>3. \A s \in Symbols : PositionOK(P[s])
    BY <1>1, <1>2, <2>2 DEF Marks
  <2>4. curve'.realized \in Int /\ curve'.peak \in Nat /\ curve'.realized <= curve'.peak
    BY <1>4, <2>1
  <2> HIDE DEF P
  <2> QED BY <1>1, <2>1, <2>3, <2>4, MarksPop
<1>6. CASE BookSell
  <2> DEFINE pos == Rest(work[Sym], fill.qty)
             P   == [work EXCEPT ![Sym] = pos]
             pnl == (market.price[Sym] - work[Sym].avg) * fill.qty
  <2>1. Pops(P) /\ BookTrade(0 - fill.qty, pnl) /\ stuck' \subseteq Symbols
    BY <1>1, <1>2, <1>6 DEF BookSell, Marks
  <2>2. PositionOK(pos)
    <3>1. CASE fill.qty < work[Sym].qty
      <4>1. work[Sym] # NoPos /\ pos = [work[Sym] EXCEPT !.qty = @ - fill.qty]
        BY <1>2, <3>1 DEF Rest, NoPos
      <4>2. work[Sym].avg \in Nat \ {0} /\ work[Sym].qty - fill.qty \in Nat \ {0}
        BY <1>2, <3>1, <4>1 DEF PositionOK
      <4> QED BY <1>2, <4>1, <4>2 DEF PositionOK, Positions
    <3>2. CASE ~(fill.qty < work[Sym].qty)
      BY <3>2 DEF Rest, PositionOK
    <3> QED BY <3>1, <3>2
  <2>3. \A s \in Symbols : PositionOK(P[s])
    <3> HIDE DEF pos
    <3> QED BY <1>1, <1>2, <2>2 DEF Marks
  <2>4. pnl \in Int
    <3>1. market.price[Sym] - work[Sym].avg \in Int
      BY <1>1, <1>2 DEF Positions
    <3> QED BY <1>2, <3>1
  <2>5. curve'.realized \in Int /\ curve'.peak \in Nat /\ curve'.realized <= curve'.peak
    <3> HIDE DEF pnl
    <3> QED BY <1>4, <2>1, <2>4
  <2> HIDE DEF P
  <2> QED BY <1>1, <2>1, <2>3, <2>5, MarksPop
<1> QED BY <1>3, <1>4, <1>5, <1>6 DEF Book

LEMMA MarksNewBar == ASSUME Marks, NewBar PROVE Marks'
<1>1. bar' \in 0..Bars
  BY ScannerAssumption DEF Marks, NewBar
<1> QED BY <1>1 DEF Marks, NewBar

LEMMA MarksCrash == ASSUME Marks, Crash PROVE Marks'
<1>1. left' \in 0..Trouble
  BY TripsLess DEF Marks, Crash
<1> QED BY <1>1 DEF Marks, Crash, book, exchange

LEMMA MarksStep == Marks /\ SInv /\ [Next]_vars => Marks'
<1> SUFFICES ASSUME Marks, SInv, [Next]_vars PROVE Marks'
  OBVIOUS
<1>1. CASE TickStarts BY <1>1, MarksTickStarts
<1>2. CASE Skip BY <1>2, MarksSkip
<1>3. CASE OnPaper \/ Adopt \/ Refused
  <2>1. todo # <<>>
    BY <1>3 DEF OnPaper, Adopt, Refused, Live
  <2> QED BY <1>3, <2>1, MarksOrder
<1>4. CASE Executed BY <1>4, MarksExecuted
<1>5. CASE Book BY <1>5, MarksBook
<1>6. CASE NewBar BY <1>6, MarksNewBar
<1>7. CASE Crash BY <1>7, MarksCrash
<1>8. CASE UNCHANGED vars BY <1>8 DEF vars, Marks
<1> QED BY <1>1, <1>2, <1>3, <1>4, <1>5, <1>6, <1>7, <1>8 DEF Next

\* TypeOK of every behaviour: no position of nothing is kept, the account never
\* holds less than nothing, and the curve's peak is not below it, whatever is
\* executed in part, lost or refused, and whenever the process dies.
THEOREM ScannerTypes == Spec => []TypeOK
<1>1. Init => SInv /\ Marks
  BY InitKeeps, MarksStart
<1>2. SInv /\ Marks /\ [Next]_vars => SInv' /\ Marks'
  BY StepKeeps, MarksStep
<1>3. SInv /\ Marks => TypeOK
  <2> SUFFICES ASSUME SInv, Marks PROVE TypeOK
    OBVIOUS
  <2>1. Range(todo) \subseteq Sides \X Symbols
    BY DEF SInv, Types, Jobbed, Range
  <2>2. fill \in [qty : Nat, live : BOOLEAN, failed : BOOLEAN]
    BY DEF SInv, Types, Fills
  <2> QED BY <2>1, <2>2 DEF SInv, Types, Marks, TypeOK, Jobbed
<1> QED BY <1>1, <1>2, <1>3, PTL DEF Spec

-----------------------------------------------------------------------------
(* Sums.  The fold of the community modules adds up a sequence from its    *)
(* last member on.  That its sum is the number of members of a set of      *)
(* units, so many for each index, leaves its other properties to the       *)
(* theorems on the cardinalities of finite sets.                           *)
Units(w, T) == {u \in T \X Nat : u[2] < w[u[1]]}

LEMMA UnitsOf ==
  ASSUME NEW x, NEW w, w[x] \in Nat
  PROVE  IsFiniteSet(Units(w, {x})) /\ Cardinality(Units(w, {x})) = w[x]
<1> DEFINE n == w[x]
           I == 0..(n - 1)
           f == [i \in I |-> <<x, i>>]
<1>1. n \in Nat
  OBVIOUS
<1>2. IsFiniteSet(I) /\ Cardinality(I) = n
  <2>1. 0 \in Int /\ n - 1 \in Int /\ (IF 0 > n - 1 THEN 0 ELSE n - 1 - 0 + 1) = n
    BY <1>1
  <2> QED
    BY <2>1, FS_Interval
<1>3. f \in Bijection(I, Units(w, {x}))
  <2>1. \A i \in I : f[i] = <<x, i>> /\ <<x, i>> \in Units(w, {x})
    BY <1>1 DEF Units
  <2>2. f \in Injection(I, Units(w, {x}))
    BY <2>1 DEF Injection, IsInjective
  <2>3. ASSUME NEW u \in Units(w, {x}) PROVE \E i \in I : f[i] = u
    <3>1. u = <<x, u[2]>> /\ u[2] \in I
      BY <1>1 DEF Units
    <3> QED
      BY <2>1, <3>1
  <2> QED
    BY <2>2, <2>3 DEF Bijection, Surjection, Injection
<1> HIDE DEF I, f
<1>4. ExistsBijection(I, Units(w, {x}))
  BY <1>3 DEF ExistsBijection
<1> QED
  BY <1>2, <1>4, FS_Bijection

LEMMA UnitsApart ==
  ASSUME NEW w, NEW S, NEW T, S \cap T = {}, IsFiniteSet(Units(w, S)), IsFiniteSet(Units(w, T))
  PROVE  /\ IsFiniteSet(Units(w, S \cup T))
         /\ Cardinality(Units(w, S \cup T)) = Cardinality(Units(w, S)) + Cardinality(Units(w, T))
<1>1. Units(w, S \cup T) = Units(w, S) \cup Units(w, T) /\ Units(w, S) \cap Units(w, T) = {}
  BY DEF Units
<1>2. Cardinality(Units(w, S)) \in Nat /\ Cardinality(Units(w, T)) \in Nat
  BY FS_CardinalityType
<1>3. Cardinality({}) = 0
  BY FS_EmptySet
<1> HIDE DEF Units
<1>4. /\ IsFiniteSet(Units(w, S) \cup Units(w, T))
      /\ Cardinality(Units(w, S) \cup Units(w, T)) =
           Cardinality(Units(w, S)) + Cardinality(Units(w, T)) - Cardinality(Units(w, S) \cap Units(w, T))
  BY FS_Union
<1>5. Cardinality(Units(w, S) \cap Units(w, T)) = 0
  BY <1>1, <1>3, Zenon
<1>6. /\ IsFiniteSet(Units(w, S) \cup Units(w, T))
      /\ Cardinality(Units(w, S) \cup Units(w, T)) = Cardinality(Units(w, S)) + Cardinality(Units(w, T))
  BY <1>2, <1>4, <1>5
<1> QED
  BY <1>1, <1>6, Zenon

LEMMA UnitsWithout ==
  ASSUME NEW w, NEW T, NEW x \in T, w[x] \in Nat, IsFiniteSet(Units(w, T \ {x}))
  PROVE  /\ IsFiniteSet(Units(w, T))
         /\ Cardinality(Units(w, T)) = Cardinality(Units(w, T \ {x})) + w[x]
<1>1. (T \ {x}) \cap {x} = {} /\ (T \ {x}) \cup {x} = T
  OBVIOUS
<1>2. IsFiniteSet(Units(w, {x})) /\ Cardinality(Units(w, {x})) = w[x]
  BY UnitsOf
<1>3. /\ IsFiniteSet(Units(w, (T \ {x}) \cup {x}))
      /\ Cardinality(Units(w, (T \ {x}) \cup {x})) = Cardinality(Units(w, T \ {x})) + Cardinality(Units(w, {x}))
  BY <1>1, <1>2, UnitsApart
<1> QED
  BY <1>1, <1>2, <1>3

\* A family of subsets of a finite set has a smallest member.
LEMMA SmallestSet ==
  ASSUME NEW S, IsFiniteSet(S), NEW F \in SUBSET SUBSET S, F # {}
  PROVE  \E T \in F : \A U \in F : U \subseteq T => U = T
<1>1. F \subseteq FiniteSubsetsOf(S)
  BY FS_Subset DEF FiniteSubsetsOf
<1>2. IsWellFoundedOn(StrictSubsetOrdering(S), FiniteSubsetsOf(S))
  BY FS_StrictSubsetOrderingWellFounded
<1>3. PICK T \in F : \A U \in F : ~(<<U, T>> \in StrictSubsetOrdering(S))
  BY <1>1, <1>2, WFMin
<1> QED
  BY <1>3 DEF StrictSubsetOrdering

LEMMA UnitsFinite ==
  ASSUME NEW S, IsFiniteSet(S), NEW w, \A x \in S : w[x] \in Nat
  PROVE  IsFiniteSet(Units(w, S)) /\ Cardinality(Units(w, S)) \in Nat
<1> DEFINE F == {T \in SUBSET S : ~IsFiniteSet(Units(w, T))}
<1>1. ASSUME F # {} PROVE FALSE
  <2>1. PICK T \in F : \A U \in F : U \subseteq T => U = T
    <3>1. F \in SUBSET SUBSET S
      OBVIOUS
    <3> HIDE DEF F
    <3> QED
      BY <1>1, <3>1, SmallestSet
  <2>2. T \in SUBSET S /\ ~IsFiniteSet(Units(w, T))
    OBVIOUS
  <2>3. Units(w, {}) = {} /\ IsFiniteSet({})
    BY FS_EmptySet DEF Units
  <2>4. T # {}
    BY <2>2, <2>3
  <2>5. PICK x \in T : TRUE
    BY <2>4
  <2>6. IsFiniteSet(Units(w, T \ {x})) /\ w[x] \in Nat
    BY <2>1, <2>2, <2>5
  <2> HIDE DEF F
  <2> QED
    BY <2>2, <2>6, UnitsWithout
<1>2. IsFiniteSet(Units(w, S))
  BY <1>1
<1> QED
  BY <1>2, FS_CardinalityType

LEMMA UnitsAtMost ==
  ASSUME NEW S, IsFiniteSet(S), NEW w, \A x \in S : w[x] \in Nat,
         NEW T \in SUBSET S, NEW v, \A x \in T : v[x] \in Nat /\ v[x] <= w[x]
  PROVE  IsFiniteSet(Units(v, T)) /\ Cardinality(Units(v, T)) <= Cardinality(Units(w, S))
<1>1. Units(v, T) \in SUBSET Units(w, S)
  BY DEF Units
<1>2. IsFiniteSet(Units(w, S))
  BY UnitsFinite
<1> QED
  BY <1>1, <1>2, FS_Subset

\* The greatest of finitely many numbers.
LEMMA MaxOf ==
  ASSUME NEW n \in Nat, NEW T \in SUBSET (1..n), T # {}
  PROVE  Max(T) \in T
<1> DEFINE D == {n - x : x \in T}
<1>1. D \subseteq Nat /\ D # {}
  <2>1. \A x \in T : n - x \in Nat
    OBVIOUS
  <2> QED
    BY <2>1
<1> HIDE DEF D
<1>2. PICK d \in D : \A e \in D : ~(<<e, d>> \in OpToRel(<, Nat))
  BY <1>1, NatLessThanWellFounded, WFMin
<1>3. d \in Nat /\ \A e \in D : ~(e < d)
  BY <1>1, <1>2 DEF OpToRel
<1>4. PICK x \in T : d = n - x
  BY DEF D
<1>5. ASSUME NEW y \in T PROVE x >= y
  <2>1. n - y \in D
    BY DEF D
  <2>2. x \in 1..n /\ y \in 1..n /\ ~(n - y < n - x)
    BY <1>3, <1>4, <2>1
  <2> QED
    BY <2>2
<1> QED
  BY <1>5 DEF Max

Adds(s, D, g) == [T \in SUBSET D |-> IF T = {} THEN 0 ELSE g[T \ {Max(T)}] + s[Max(T)]]
TheSum(s, D)  == CHOOSE g : g = Adds(s, D, g)

LEMMA SumIs == ASSUME NEW s PROVE SumOf(s) = TheSum(s, DOMAIN s)[DOMAIN s]
  BY DEF SumOf, FoldLeft, MapThenFoldSet, TheSum, Adds

LEMMA SumIsUnits ==
  ASSUME NEW n \in Nat, NEW s \in [1..n -> Nat]
  PROVE  IsFiniteSet(Units(s, 1..n)) /\ SumOf(s) = Cardinality(Units(s, 1..n)) /\ SumOf(s) \in Nat
<1> DEFINE D == 1..n
           c == [T \in SUBSET D |-> Cardinality(Units(s, T))]
           g == TheSum(s, D)
<1>1. IsFiniteSet(D) /\ \A T \in SUBSET D : T # {} => Max(T) \in T
  <2>1. IsFiniteSet(D)
    BY FS_Interval
  <2> QED
    BY <2>1, MaxOf
<1>2. \A x \in D : s[x] \in Nat
  OBVIOUS
<1> HIDE DEF D
<1>3. ASSUME NEW T \in SUBSET D PROVE IsFiniteSet(Units(s, T)) /\ c[T] = Cardinality(Units(s, T)) /\ c[T] \in Nat
  <2>1. IsFiniteSet(T) /\ \A x \in T : s[x] \in Nat
    BY <1>1, <1>2, FS_Subset
  <2> QED
    BY <2>1, UnitsFinite
<1>4. ASSUME NEW T \in SUBSET D PROVE c[T] = IF T = {} THEN 0 ELSE c[T \ {Max(T)}] + s[Max(T)]
  <2>1. CASE T = {}
    <3>1. Units(s, {}) = {} /\ Cardinality({}) = 0
      BY FS_EmptySet DEF Units
    <3> QED
      BY <1>3, <2>1, <3>1
  <2>2. CASE T # {}
    <3>1. Max(T) \in T /\ s[Max(T)] \in Nat /\ T \ {Max(T)} \in SUBSET D
      BY <1>1, <1>2, <2>2
    <3>2. IsFiniteSet(Units(s, T \ {Max(T)})) /\ c[T \ {Max(T)}] = Cardinality(Units(s, T \ {Max(T)}))
      BY <1>3, <3>1
    <3>3. Cardinality(Units(s, T)) = Cardinality(Units(s, T \ {Max(T)})) + s[Max(T)]
      BY <3>1, <3>2, UnitsWithout
    <3> QED
      BY <1>3, <2>2, <3>2, <3>3
  <2> QED
    BY <2>1, <2>2
<1>5. c = Adds(s, D, c)
  <2>1. c = [T \in SUBSET D |-> c[T]]
    OBVIOUS
  <2> HIDE DEF c
  <2> QED
    BY <1>4, <2>1 DEF Adds
<1>6. g = Adds(s, D, g)
  <2> HIDE DEF c
  <2> QED
    BY <1>5 DEF TheSum
<1> HIDE DEF g, c
<1>7. ASSUME NEW T \in SUBSET D PROVE g[T] = IF T = {} THEN 0 ELSE g[T \ {Max(T)}] + s[Max(T)]
  BY <1>6 DEF Adds
<1> DEFINE F == {T \in SUBSET D : g[T] # c[T]}
<1>8. ASSUME F # {} PROVE FALSE
  <2>1. PICK T \in F : \A U \in F : U \subseteq T => U = T
    <3>1. F \in SUBSET SUBSET D
      OBVIOUS
    <3> HIDE DEF F
    <3> QED
      BY <1>1, <1>8, <3>1, SmallestSet
  <2>2. T \in SUBSET D /\ g[T] # c[T]
    OBVIOUS
  <2>3. T # {}
    BY <1>4, <1>7, <2>2
  <2>4. Max(T) \in T /\ T \ {Max(T)} \in SUBSET D /\ T \ {Max(T)} # T /\ T \ {Max(T)} \subseteq T
    BY <1>1, <2>2, <2>3
  <2>5. g[T \ {Max(T)}] = c[T \ {Max(T)}]
    BY <2>1, <2>4
  <2> QED
    BY <1>4, <1>7, <2>2, <2>3, <2>5
<1>9. g[D] = c[D]
  BY <1>8
<1>10. DOMAIN s = D
  BY DEF D
<1>11. SumOf(s) = g[D]
  BY <1>10, SumIs DEF g
<1>12. IsFiniteSet(Units(s, D)) /\ c[D] = Cardinality(Units(s, D)) /\ c[D] \in Nat
  BY <1>3
<1> QED
  BY <1>9, <1>11, <1>12 DEF D

\* The sum of one sequence after another.
LEMMA SumConcat ==
  ASSUME NEW a \in Seq(Nat), NEW b \in Seq(Nat)
  PROVE  SumOf(a \o b) = SumOf(a) + SumOf(b)
<1> DEFINE m == Len(a)
           n == Len(b)
           s == a \o b
           J == (m + 1)..(m + n)
           f == [u \in Units(b, 1..n) |-> <<u[1] + m, u[2]>>]
<1>1. m \in Nat /\ n \in Nat /\ a \in [1..m -> Nat] /\ b \in [1..n -> Nat] /\ s \in [1..(m + n) -> Nat]
  <2>1. m \in Nat /\ n \in Nat /\ a \in [1..m -> Nat] /\ b \in [1..n -> Nat]
    OBVIOUS
  <2>2. s \in Seq(Nat) /\ Len(s) = m + n
    OBVIOUS
  <2> HIDE DEF s, m, n, f, J
  <2>3. s \in [1..Len(s) -> Nat]
    BY <2>2
  <2> QED
    BY <2>1, <2>2, <2>3
<1>2. (\A k \in 1..m : s[k] = a[k]) /\ \A k \in 1..n : s[k + m] = b[k]
  OBVIOUS
<1>3. 1..m \cap J = {} /\ (1..m) \cup J = 1..(m + n)
  BY <1>1
<1> HIDE DEF m, n, s
<1>4. Units(s, 1..m) = Units(a, 1..m)
  BY <1>2 DEF Units
<1>5. f \in Bijection(Units(b, 1..n), Units(s, J))
  <2>1. ASSUME NEW u \in Units(b, 1..n) PROVE f[u] = <<u[1] + m, u[2]>> /\ f[u] \in Units(s, J) /\ u \in (1..n) \X Nat
    <3>1. u[1] \in 1..n /\ u[2] \in Nat /\ u[2] < b[u[1]] /\ u \in (1..n) \X Nat
      BY DEF Units
    <3>2. u[1] + m \in J /\ s[u[1] + m] = b[u[1]]
      BY <1>1, <1>2, <3>1
    <3> QED
      BY <3>1, <3>2 DEF Units
  <2>2. ASSUME NEW u \in Units(b, 1..n), NEW v \in Units(b, 1..n), f[u] = f[v] PROVE u = v
    <3>a. u \in (1..n) \X Nat /\ v \in (1..n) \X Nat
      BY <2>1
    <3>1. u = <<u[1], u[2]>> /\ v = <<v[1], v[2]>> /\ u[1] \in 1..n /\ v[1] \in 1..n
      BY <3>a
    <3>2. u[1] + m = v[1] + m /\ u[2] = v[2]
      BY <2>1, <2>2
    <3>3. u[1] = v[1]
      BY <1>1, <3>1, <3>2
    <3> QED
      BY <3>1, <3>2, <3>3
  <2>3. ASSUME NEW v \in Units(s, J) PROVE \E u \in Units(b, 1..n) : f[u] = v
    <3>1. v[1] \in J /\ v[2] \in Nat /\ v[2] < s[v[1]] /\ v = <<v[1], v[2]>>
      BY DEF Units
    <3> DEFINE k == v[1] - m
    <3>2. k \in 1..n /\ k + m = v[1]
      BY <1>1, <3>1, SMTT(20)
    <3>3. s[v[1]] = b[k]
      BY <1>2, <3>2
    <3> HIDE DEF k
    <3>4. <<k, v[2]>> \in Units(b, 1..n)
      BY <3>1, <3>2, <3>3 DEF Units
    <3>5. f[<<k, v[2]>>] = <<k + m, v[2]>>
      BY <3>4
    <3> QED
      BY <3>1, <3>2, <3>4, <3>5
  <2> HIDE DEF J
  <2>4. f \in [Units(b, 1..n) -> Units(s, J)]
    BY <2>1
  <2> HIDE DEF f
  <2> QED
    BY <2>2, <2>3, <2>4 DEF Bijection, Injection, Surjection, IsInjective
<1> HIDE DEF f, J
<1>6. /\ IsFiniteSet(Units(a, 1..m)) /\ SumOf(a) = Cardinality(Units(a, 1..m))
      /\ IsFiniteSet(Units(b, 1..n)) /\ SumOf(b) = Cardinality(Units(b, 1..n))
      /\ SumOf(s) = Cardinality(Units(s, 1..(m + n)))
  <2>1. m + n \in Nat
    BY <1>1
  <2> QED
    BY <1>1, <2>1, SumIsUnits
<1>7. IsFiniteSet(Units(s, J)) /\ Cardinality(Units(s, J)) = SumOf(b)
  <2>1. ExistsBijection(Units(b, 1..n), Units(s, J))
    BY <1>5 DEF ExistsBijection
  <2> QED
    BY <1>6, <2>1, FS_Bijection
<1>8. Cardinality(Units(s, (1..m) \cup J)) = Cardinality(Units(s, 1..m)) + Cardinality(Units(s, J))
  <2> DEFINE A == 1..m
  <2>1. A \cap J = {} /\ IsFiniteSet(Units(s, A)) /\ IsFiniteSet(Units(s, J))
    BY <1>3, <1>4, <1>6, <1>7
  <2> HIDE DEF A
  <2>2. Cardinality(Units(s, A \cup J)) = Cardinality(Units(s, A)) + Cardinality(Units(s, J))
    BY <2>1, UnitsApart, Zenon
  <2> QED
    BY <2>2, Zenon DEF A
<1>9. SumOf(s) = SumOf(a) + SumOf(b)
  BY <1>3, <1>4, <1>6, <1>7, <1>8, ZenonT(40)
<1> QED
  BY <1>9, Zenon DEF s

LEMMA SumOne == ASSUME NEW x \in Nat PROVE SumOf(<<x>>) = x
<1> DEFINE s == <<x>>
<1>1. s \in [1..1 -> Nat] /\ s[1] = x /\ 1..1 = {1} /\ 1 \in Nat
  OBVIOUS
<1> HIDE DEF s
<1>2. SumOf(s) = Cardinality(Units(s, 1..1))
  BY <1>1, SumIsUnits
<1>3. Cardinality(Units(s, {1})) = s[1]
  BY <1>1, UnitsOf
<1> QED
  BY <1>1, <1>2, <1>3 DEF s

-----------------------------------------------------------------------------
(* The heat.                                                               *)

\* What the capital of a slot buys, before the gate.
Raw(s) == (Capital \div Slots) \div market.price[s]

\* With what was held before the tick, x more is within the limit on the heat.
Before      == SumOf(Others) + SumOf(Exposures(saved))
Admitted(x) == gate.heat > 0 => 100 * (Before + x) <= gate.heat * Equity

\* Within a tick, what was held has only become less, and what is new was
\* admitted by itself, in the order of its booking after all the sales.
HeatPlan ==
  \A s \in Symbols :
    /\ saved[s].qty > 0 => Notional(work[s]) <= Notional(saved[s])
    /\ saved[s].qty = 0 /\ work[s].qty > 0 => Side = "buy" /\ Admitted(Notional(work[s]))

\* An order of this bar was of what the gate lets through at most.
HeatInv ==
  /\ \A s \in Symbols : sent[<<"buy", s>>] <= Raw(s)
  /\ todo # <<>> => HeatPlan
  /\ todo # <<>> /\ fill # NoFill /\ Side = "buy" =>
       fill.qty <= Raw(Sym) /\ Admitted(Raw(Sym) * market.price[Sym])

LEMMA Product == ASSUME NEW a \in Nat, NEW b \in Nat PROVE a * b \in Nat
  OBVIOUS

LEMMA SetInOrder ==
  ASSUME NEW S \in SUBSET Symbols
  PROVE  Cardinality(S) \in Nat /\ IsFiniteSet(S) /\ SetToSeq(S) \in Bijection(1..Cardinality(S), S)
<1> DEFINE n == Cardinality(S)
           q == SetToSeq(S)
<1>1. IsFiniteSet(S)
  BY ScannerAssumption, FS_Subset
<1>2. n \in Nat /\ ExistsBijection(1..n, S)
  BY <1>1, FS_CardinalityType
<1>3. \E f \in [1..n -> S] : IsInjective(f)
  BY <1>2 DEF ExistsBijection, Bijection, Injection
<1>4. q \in [1..n -> S] /\ IsInjective(q)
  BY <1>3 DEF SetToSeq
<1>5. IsFiniteSet(1..n) /\ Cardinality(1..n) = n
  <2>1. 1 \in Int /\ n \in Int /\ (IF 1 > n THEN 0 ELSE n - 1 + 1) = n
    BY <1>2
  <2> QED
    BY <2>1, FS_Interval
<1>6. q \in Injection(1..n, S)
  BY <1>4 DEF Injection
<1> HIDE DEF q
<1>7. q \in Surjection(1..n, S)
  BY <1>1, <1>5, <1>6, FS_Injection DEF n
<1> QED
  BY <1>1, <1>2, <1>6, <1>7 DEF Bijection, q

\* The sum of the notionals of some positions, in whatever order.
Worths(P) == [x \in Symbols |-> Notional(P[x])]

LEMMA WorthsNat == ASSUME NEW P \in [Symbols -> Positions] PROVE \A x \in Symbols : Worths(P)[x] = Notional(P[x]) /\ Notional(P[x]) \in Nat
<1> SUFFICES ASSUME NEW x \in Symbols PROVE Notional(P[x]) \in Nat
  BY DEF Worths
<1>1. P[x].avg \in Nat /\ P[x].qty \in Nat
  BY DEF Positions
<1> QED
  BY <1>1, Product DEF Notional

LEMMA SumOfNotionals ==
  ASSUME NEW P \in [Symbols -> Positions], NEW S \in SUBSET Symbols
  PROVE  /\ Notionals(P, S) \in Seq(Nat) /\ SumOf(Notionals(P, S)) \in Nat
         /\ IsFiniteSet(Units(Worths(P), S)) /\ SumOf(Notionals(P, S)) = Cardinality(Units(Worths(P), S))
<1> DEFINE n == Cardinality(S)
           q == SetToSeq(S)
           s == Notionals(P, S)
           w == Worths(P)
           f == [u \in Units(s, 1..n) |-> <<q[u[1]], u[2]>>]
<1>1. n \in Nat /\ q \in Bijection(1..n, S)
  BY SetInOrder
<1>2. s = [k \in 1..n |-> Notional(P[q[k]])]
  BY DEF Notionals
<1> HIDE DEF n, q, s, w
<1>3. /\ q \in [1..n -> S] /\ (\A i, j \in 1..n : q[i] = q[j] => i = j)
      /\ \A x \in S : \E i \in 1..n : q[i] = x
  BY <1>1 DEF Bijection, Injection, Surjection, IsInjective
<1>4. \A k \in 1..n : s[k] = w[q[k]] /\ s[k] \in Nat
  BY <1>2, <1>3, WorthsNat DEF w
<1>5. s \in [1..n -> Nat]
  BY <1>2, <1>4
<1>6. s \in Seq(Nat)
  BY <1>1, <1>5
<1>7. f \in Bijection(Units(s, 1..n), Units(w, S))
  <2>1. ASSUME NEW u \in Units(s, 1..n) PROVE f[u] = <<q[u[1]], u[2]>> /\ f[u] \in Units(w, S) /\ u \in (1..n) \X Nat
    <3>1. u[1] \in 1..n /\ u[2] \in Nat /\ u[2] < s[u[1]] /\ u \in (1..n) \X Nat
      BY DEF Units
    <3>2. q[u[1]] \in S /\ s[u[1]] = w[q[u[1]]]
      BY <1>3, <1>4, <3>1
    <3> QED
      BY <3>1, <3>2 DEF Units
  <2>2. ASSUME NEW u \in Units(s, 1..n), NEW v \in Units(s, 1..n), f[u] = f[v] PROVE u = v
    <3>1. u \in (1..n) \X Nat /\ v \in (1..n) \X Nat
      BY <2>1
    <3>2. u = <<u[1], u[2]>> /\ v = <<v[1], v[2]>> /\ u[1] \in 1..n /\ v[1] \in 1..n
      BY <3>1
    <3>3. q[u[1]] = q[v[1]] /\ u[2] = v[2]
      BY <2>1, <2>2
    <3>4. u[1] = v[1]
      BY <1>3, <3>2, <3>3
    <3> QED
      BY <3>2, <3>3, <3>4
  <2>3. ASSUME NEW v \in Units(w, S) PROVE \E u \in Units(s, 1..n) : f[u] = v
    <3>1. v[1] \in S /\ v[2] \in Nat /\ v[2] < w[v[1]] /\ v = <<v[1], v[2]>>
      BY DEF Units
    <3>2. PICK k \in 1..n : q[k] = v[1]
      BY <1>3, <3>1
    <3>3. s[k] = w[v[1]]
      BY <1>4, <3>2
    <3>4. <<k, v[2]>> \in Units(s, 1..n)
      BY <3>1, <3>2, <3>3 DEF Units
    <3>5. f[<<k, v[2]>>] = <<q[k], v[2]>>
      BY <3>4
    <3> QED
      BY <3>1, <3>2, <3>4, <3>5
  <2>4. f \in [Units(s, 1..n) -> Units(w, S)]
    BY <2>1
  <2> HIDE DEF f
  <2> QED
    BY <2>2, <2>3, <2>4 DEF Bijection, Injection, Surjection, IsInjective
<1> HIDE DEF f
<1>8. IsFiniteSet(Units(s, 1..n)) /\ SumOf(s) = Cardinality(Units(s, 1..n)) /\ SumOf(s) \in Nat
  BY <1>1, <1>5, SumIsUnits
<1>9. ExistsBijection(Units(s, 1..n), Units(w, S))
  BY <1>7 DEF ExistsBijection
<1>10. IsFiniteSet(Units(w, S)) /\ Cardinality(Units(w, S)) = Cardinality(Units(s, 1..n))
  BY <1>8, <1>9, FS_Bijection
<1> QED
  BY <1>6, <1>8, <1>10 DEF s, w

\* When nothing that was held is worth more, and of what is new one is let be.
LEMMA NewAside ==
  ASSUME NEW P \in [Symbols -> Positions], NEW Q \in [Symbols -> Positions],
         \A s \in Symbols : P[s].qty > 0 => Notional(Q[s]) <= Notional(P[s])
  PROVE  LET new == {s \in Symbols : P[s].qty = 0 /\ Q[s].qty > 0}
         IN  SumOf(Exposures(Q)) - SumOf(Notionals(Q, new)) <= SumOf(Exposures(P))
<1> DEFINE new  == {s \in Symbols : P[s].qty = 0 /\ Q[s].qty > 0}
           kept == {s \in Symbols : P[s].qty > 0 /\ Q[s].qty > 0}
           old  == HeldIn(P)
<1>1. /\ new \in SUBSET Symbols /\ kept \in SUBSET Symbols /\ old \in SUBSET Symbols /\ kept \in SUBSET old
      /\ new \cap kept = {} /\ new \cup kept = HeldIn(Q) /\ HeldIn(Q) \in SUBSET Symbols
  <2>1. \A s \in Symbols : P[s].qty \in Nat
    BY DEF Positions
  <2> QED
    BY <2>1 DEF HeldIn
<1>2. \A s \in kept : Notional(Q[s]) <= Notional(P[s])
  OBVIOUS
<1> HIDE DEF new, kept
<1>3. /\ SumOf(Exposures(Q)) = Cardinality(Units(Worths(Q), HeldIn(Q)))
      /\ SumOf(Notionals(Q, new)) = Cardinality(Units(Worths(Q), new))
      /\ SumOf(Exposures(P)) = Cardinality(Units(Worths(P), old))
  BY <1>1, SumOfNotionals DEF Exposures
<1>4. IsFiniteSet(Units(Worths(Q), new)) /\ IsFiniteSet(Units(Worths(Q), kept)) /\ IsFiniteSet(old)
  BY <1>1, SumOfNotionals, SetInOrder
<1>5. Cardinality(Units(Worths(Q), new \cup kept)) = Cardinality(Units(Worths(Q), new)) + Cardinality(Units(Worths(Q), kept))
  BY <1>1, <1>4, UnitsApart
<1>6. Cardinality(Units(Worths(Q), kept)) <= Cardinality(Units(Worths(P), old))
  <2>1. \A x \in old : Worths(P)[x] \in Nat
    BY <1>1, WorthsNat
  <2>2. \A x \in kept : Worths(Q)[x] \in Nat /\ Worths(Q)[x] <= Worths(P)[x]
    BY <1>1, <1>2, WorthsNat
  <2> HIDE DEF old
  <2> QED
    BY <1>1, <1>4, <2>1, <2>2, UnitsAtMost
<1>7. /\ Cardinality(Units(Worths(Q), new)) \in Nat /\ Cardinality(Units(Worths(Q), kept)) \in Nat
      /\ SumOf(Exposures(P)) \in Nat
  BY <1>1, <1>4, FS_CardinalityType, SumOfNotionals DEF Exposures
<1>8. SumOf(Exposures(Q)) = Cardinality(Units(Worths(Q), new)) + Cardinality(Units(Worths(Q), kept))
  BY <1>1, <1>3, <1>5
<1>9. SumOf(Exposures(Q)) - SumOf(Notionals(Q, new)) <= SumOf(Exposures(P))
  BY <1>3, <1>6, <1>7, <1>8
<1> QED
  BY <1>9 DEF new

-----------------------------------------------------------------------------
LEMMA GateKnown == ASSUME Types PROVE gate.heat \in Nat /\ Others \in Seq(Nat)
  BY ScannerAssumption DEF Types

LEMMA BeforeNat == ASSUME Types PROVE Before \in Nat /\ Exposures(saved) \in Seq(Nat) /\ SumOf(Others) \in Nat /\ SumOf(Exposures(saved)) \in Nat
<1>1. saved \in [Symbols -> Positions] /\ HeldIn(saved) \in SUBSET Symbols
  BY DEF Types, HeldIn
<1>2. Exposures(saved) \in Seq(Nat) /\ SumOf(Exposures(saved)) \in Nat
  BY <1>1, SumOfNotionals DEF Exposures
<1>3. Len(Others) \in Nat /\ Others \in [1..Len(Others) -> Nat]
  BY GateKnown
<1>4. SumOf(Others) \in Nat
  BY <1>3, SumIsUnits
<1> QED
  BY <1>2, <1>4 DEF Before

LEMMA AllowsAdmits == ASSUME Types, NEW x \in Nat, Allows(x) PROVE Admitted(x)
<1> DEFINE e == Exposures(saved)
           r == Snapshot(x)
<1>1. Others \in Seq(Nat) /\ e \in Seq(Nat) /\ <<x>> \in Seq(Nat)
  BY GateKnown, BeforeNat
<1> HIDE DEF e
<1>2. Others \o e \in Seq(Nat) /\ r = (Others \o e) \o <<x>> /\ r \in Seq(Nat)
  BY <1>1 DEF Snapshot, e
<1>3. SumOf(Others \o e) = SumOf(Others) + SumOf(e) /\ SumOf((Others \o e) \o <<x>>) = SumOf(Others \o e) + SumOf(<<x>>)
  BY <1>1, <1>2, SumConcat
<1>4. SumOf(r) = Before + x
  BY <1>2, <1>3, SumOne DEF Before, e
<1> HIDE DEF r
<1>5. [k \in 1..Len(r) |-> Weight(r, k)] = r
  <2>1. \A k \in 1..Len(r) : Weight(r, k) = r[k]
    BY <1>2 DEF Weight
  <2>2. r = [k \in 1..Len(r) |-> r[k]]
    BY <1>2
  <2> QED
    BY <2>1, <2>2
<1>6. Heat(r) = Before + x
  BY <1>4, <1>5 DEF Heat
<1>7. gate.heat > 0 => 100 * Heat(r) <= gate.heat * Equity
  BY DEF Allows, r
<1> QED
  BY <1>6, <1>7 DEF Admitted

\* What the gate leaves of an entry is no more than was asked for.
LEMMA EntryAtMost ==
  ASSUME Types, NEW s \in Symbols
  PROVE  /\ Raw(s) \in Nat /\ market.price[s] \in Nat /\ Raw(s) * market.price[s] \in Nat
         /\ EntryQty(s) \in Nat /\ EntryQty(s) <= Raw(s)
         /\ EntryQty(s) > 0 => Admitted(Raw(s) * market.price[s])
<1>1. market.price[s] \in Nat \ {0} /\ Capital \in Nat
  BY ScannerAssumption DEF Types
<1>2. Capital \div Slots \in Nat
  BY <1>1, SlotsPositive, DivNat
<1>3. Raw(s) \in Nat
  BY <1>1, <1>2, DivNat DEF Raw
<1>4. Raw(s) * market.price[s] \in Nat
  BY <1>1, <1>3, Product
<1> DEFINE mult == SizeMultiplier(Equity, PeakEquity, gate.tiers)
           c    == Clamp(mult, 0, 100)
<1>5. c \in 0..100
  <2>1. mult \in Nat
    BY ScannerAssumption DEF Types, SizeMultiplier
  <2> HIDE DEF mult
  <2> QED
    BY <2>1 DEF Clamp
<1>6. \A r \in Nat : \A k \in 0..100 : (r * k) \div 100 \in Nat /\ (r * k) \div 100 <= r
  <2> SUFFICES ASSUME NEW r \in Nat, NEW k \in 0..100 PROVE (r * k) \div 100 \in Nat /\ (r * k) \div 100 <= r
    OBVIOUS
  <2>1. r * k \in Nat /\ r * k <= 100 * r
    <3>1. (100 - k) * r \in Nat
      BY Product
    <3>2. r * k \in Nat /\ (100 - k) * r = 100 * r - r * k
      OBVIOUS
    <3> QED
      BY <3>1, <3>2
  <2> DEFINE y == r * k
  <2>2. y \in Nat /\ y <= 100 * r
    BY <2>1
  <2> HIDE DEF y
  <2>3. y \div 100 \in Nat /\ y \div 100 <= r
    BY <2>2
  <2> QED
    BY <2>3 DEF y
<1>7. EntryQty(s) = IF ~Allows(Raw(s) * market.price[s]) THEN 0 ELSE (Raw(s) * c) \div 100
  BY DEF EntryQty, ApplyGate, Raw
<1> HIDE DEF c
<1>8. (Raw(s) * c) \div 100 \in Nat /\ (Raw(s) * c) \div 100 <= Raw(s)
  BY <1>3, <1>5, <1>6
<1>9. Allows(Raw(s) * market.price[s]) => Admitted(Raw(s) * market.price[s])
  BY <1>4, AllowsAdmits
<1> QED
  BY <1>1, <1>3, <1>4, <1>7, <1>8, <1>9

HeatStep ==
  gate.heat > 0 =>
    \A s \in Opened : 100 * (Total(saved') - (SumNew - Notional(saved'[s]))) <= gate.heat * Equity'

LEMMA AdmitsLess == ASSUME Types, NEW x \in Nat, NEW y \in Nat, x <= y, Admitted(y), Equity \in Int PROVE Admitted(x)
<1>1. Before \in Nat /\ gate.heat \in Nat
  BY BeforeNat, GateKnown
<1> DEFINE e == gate.heat * Equity
<1>2. e \in Int
  BY <1>1
<1>3. gate.heat > 0 => 100 * (Before + y) <= e
  BY DEF Admitted
<1> HIDE DEF e
<1>4. gate.heat > 0 => 100 * (Before + x) <= e
  BY <1>1, <1>2, <1>3
<1> QED
  BY <1>4 DEF Admitted, e

LEMMA EquityInt == ASSUME Marks PROVE Equity \in Int
<1>1. curve.realized \in Int /\ curve.peak \in Int /\ Capital \in Int /\ OthersCapital \in Int
  BY ScannerAssumption DEF Marks
<1> QED
  BY <1>1 DEF Equity, Clamp

\* An order, before it is booked.
LEMMA HeatAside ==
  ASSUME HeatInv, UNCHANGED <<saved, work, todo, curve, gate, market>>,
         \A s \in Symbols : sent'[<<"buy", s>>] <= Raw(s),
         todo # <<>> /\ fill' # NoFill /\ Side = "buy" => fill'.qty <= Raw(Sym) /\ Admitted(Raw(Sym) * market.price[Sym])
  PROVE  HeatInv'
<1>1. /\ \A s \in Symbols : Raw(s)' = Raw(s)
      /\ Equity' = Equity /\ Before' = Before /\ Side' = Side /\ Sym' = Sym
  BY DEF Raw, Equity, Before, Side, Sym
<1>2. (\A s \in Symbols : sent[<<"buy", s>>] <= Raw(s))'
  BY <1>1
<1>3. (todo # <<>> => HeatPlan)'
  BY <1>1 DEF HeatInv, HeatPlan, Admitted
<1>4. (todo # <<>> /\ fill # NoFill /\ Side = "buy" => fill.qty <= Raw(Sym) /\ Admitted(Raw(Sym) * market.price[Sym]))'
  BY <1>1 DEF Admitted, Raw
<1> QED
  BY <1>2, <1>3, <1>4 DEF HeatInv

LEMMA HeatOnPaper == ASSUME HeatInv, SInv, OnPaper PROVE HeatInv'
  BY HeatAside DEF OnPaper, HeatInv, book, exchange

\* What an entry that is on its way is of.
LEMMA HeatWanted ==
  ASSUME SInv, Live, Side = "buy"
  PROVE  Sym \in Symbols /\ todo[1] = <<"buy", Sym>> /\ Wanted \in Nat /\ Wanted <= Raw(Sym) /\ Admitted(Raw(Sym) * market.price[Sym])
<1>1. Types /\ todo # <<>> /\ Wanted > 0 /\ Wanted = EntryQty(Sym)
  BY DEF SInv, Live, Wanted
<1>2. Sym \in Symbols /\ todo[1] = <<Side, Sym>>
  BY <1>1, JobIsOne
<1> QED
  BY <1>1, <1>2, EntryAtMost

LEMMA HeatAdopt == ASSUME HeatInv, SInv, Adopt PROVE HeatInv'
<1>1. Live /\ fill'.qty = sent[todo[1]] /\ UNCHANGED <<saved, work, todo, curve, gate, market, sent>>
  BY DEF Adopt, book, exchange
<1>2. Side = "buy" => fill'.qty <= Raw(Sym) /\ Admitted(Raw(Sym) * market.price[Sym])
  BY <1>1, HeatWanted DEF HeatInv
<1>3. \A s \in Symbols : sent'[<<"buy", s>>] <= Raw(s)
  BY <1>1 DEF HeatInv
<1> QED
  BY <1>1, <1>2, <1>3, HeatAside

LEMMA HeatRefused == ASSUME HeatInv, SInv, Refused PROVE HeatInv'
<1>1. Live /\ fill'.qty = Wanted /\ UNCHANGED <<saved, work, todo, curve, gate, market, sent>>
  BY DEF Refused, book, exchange
<1>2. Side = "buy" => fill'.qty <= Raw(Sym) /\ Admitted(Raw(Sym) * market.price[Sym])
  BY <1>1, HeatWanted
<1>3. \A s \in Symbols : sent'[<<"buy", s>>] <= Raw(s)
  BY <1>1 DEF HeatInv
<1> QED
  BY <1>1, <1>2, <1>3, HeatAside

LEMMA HeatExecuted == ASSUME HeatInv, SInv, Executed PROVE HeatInv'
<1>1. Live /\ UNCHANGED <<saved, work, todo, curve, gate, market>> /\ todo # <<>> /\ Types
  BY DEF Executed, Live, book, SInv
<1>2. PICK qty : (qty = Wanted \/ qty = Wanted - 1) /\ sent' = [sent EXCEPT ![todo[1]] = qty] /\ fill'.qty = qty
  <2>1. PICK part \in Trips("part"), lost \in Trips("lost") :
          LET qty == IF part THEN Wanted - 1 ELSE Wanted
          IN  sent' = [sent EXCEPT ![todo[1]] = qty] /\ fill' = [qty |-> qty, live |-> TRUE, failed |-> lost]
    BY DEF Executed
  <2> QED
    BY <2>1
<1>3. Side \in Sides /\ Sym \in Symbols /\ todo[1] = <<Side, Sym>> /\ todo[1] \in Jobbed /\ sent \in [Jobbed -> Nat]
  BY <1>1, JobIsOne DEF Types
<1>4. Side = "buy" => qty <= Raw(Sym) /\ Admitted(Raw(Sym) * market.price[Sym])
  <2> SUFFICES ASSUME Side = "buy" PROVE qty <= Raw(Sym) /\ Admitted(Raw(Sym) * market.price[Sym])
    OBVIOUS
  <2>1. Wanted \in Nat /\ Wanted <= Raw(Sym) /\ Admitted(Raw(Sym) * market.price[Sym])
    BY <1>1, HeatWanted
  <2>2. Raw(Sym) \in Nat
    BY <1>1, <1>3, EntryAtMost
  <2> QED
    BY <1>2, <2>1, <2>2
<1>5. \A s \in Symbols : sent'[<<"buy", s>>] <= Raw(s)
  <2> SUFFICES ASSUME NEW s \in Symbols PROVE sent'[<<"buy", s>>] <= Raw(s)
    OBVIOUS
  <2>1. <<"buy", s>> \in Jobbed /\ sent[<<"buy", s>>] <= Raw(s)
    BY DEF Jobbed, Sides, HeatInv
  <2>2. CASE todo[1] = <<"buy", s>>
    <3>1. Side = "buy" /\ Sym = s
      BY <1>3, <2>2
    <3> QED
      BY <1>2, <1>3, <1>4, <2>1, <2>2, <3>1
  <2>3. CASE todo[1] # <<"buy", s>>
    BY <1>2, <1>3, <2>1, <2>3
  <2> QED
    BY <2>2, <2>3
<1> QED
  BY <1>1, <1>2, <1>4, <1>5, HeatAside

LEMMA HeatTickStarts == ASSUME HeatInv, SInv, TickStarts PROVE HeatInv'
<1>1. work' = saved /\ todo = <<>> /\ UNCHANGED <<saved, fill, sent, market>>
  BY DEF TickStarts, exchange
<1>2. fill' = NoFill
  BY <1>1 DEF SInv, FillIsReal
<1>3. (\A s \in Symbols : sent[<<"buy", s>>] <= Raw(s))'
  BY <1>1 DEF HeatInv, Raw
<1>4. HeatPlan'
  <2>1. \A s \in Symbols : Notional(saved[s]) \in Nat
    BY WorthsNat DEF SInv, Types
  <2>2. \A s \in Symbols : Notional(work[s])' = Notional(saved[s]) /\ Notional(saved[s])' = Notional(saved[s])
    BY <1>1
  <2>3. \A s \in Symbols : saved'[s].qty = saved[s].qty /\ work'[s].qty = saved[s].qty /\ saved[s].qty \in Nat
    BY <1>1 DEF SInv, Types, Positions
  <2> QED
    BY <2>1, <2>2, <2>3 DEF HeatPlan
<1> QED
  BY <1>2, <1>3, <1>4 DEF HeatInv

LEMMA HeatNewBar == ASSUME HeatInv, SInv, NewBar PROVE HeatInv'
<1>1. todo' = <<>> /\ market' \in Markets /\ sent' = [o \in Sides \X Symbols |-> 0]
  BY DEF NewBar
<1>2. ASSUME NEW s \in Symbols PROVE sent'[<<"buy", s>>] = 0 /\ Raw(s)' \in Nat
  <2>1. market'.price[s] \in Nat \ {0} /\ Capital \in Nat
    BY <1>1, ScannerAssumption
  <2>2. Capital \div Slots \in Nat
    BY <2>1, SlotsPositive, DivNat
  <2>3. (Capital \div Slots) \div market'.price[s] \in Nat
    BY <2>1, <2>2, DivNat
  <2>4. sent'[<<"buy", s>>] = 0
    BY <1>1 DEF Sides
  <2> QED
    BY <2>3, <2>4 DEF Raw, Slots
<1>3. ASSUME NEW s \in Symbols PROVE sent'[<<"buy", s>>] <= Raw(s)'
  <2> DEFINE r == Raw(s)'
  <2>1. sent'[<<"buy", s>>] = 0 /\ r \in Nat
    BY <1>2
  <2> HIDE DEF r
  <2>2. sent'[<<"buy", s>>] <= r
    BY <2>1
  <2> QED
    BY <2>2, Zenon DEF r
<1>4. (\A s \in Symbols : sent[<<"buy", s>>] <= Raw(s))'
  BY <1>3, Zenon
<1> QED
  BY <1>1, <1>4 DEF HeatInv

LEMMA HeatCrash == ASSUME HeatInv, Crash PROVE HeatInv'
<1>1. todo' = <<>> /\ UNCHANGED <<sent, market>>
  BY DEF Crash, exchange
<1>2. (\A s \in Symbols : sent[<<"buy", s>>] <= Raw(s))'
  BY <1>1 DEF HeatInv, Raw
<1> QED
  BY <1>1, <1>2 DEF HeatInv

\* An order that is done with.
LEMMA HeatPop ==
  ASSUME HeatInv, SInv, SlotInv, Marks, todo # <<>>, NEW P \in [Symbols -> Positions], Pops(P),
         UNCHANGED <<gate, market, sent>>, \A s \in Symbols : s # Sym => P[s] = work[s],
         Side = "sell" => Notional(P[Sym]) <= Notional(work[Sym]) /\ (work[Sym].qty = 0 => P[Sym].qty = 0),
         Side = "buy" => Equity' = Equity /\ (P[Sym].qty > 0 => Admitted(Notional(P[Sym])))
  PROVE  HeatInv' /\ (saved' # saved => HeatStep)
<1>1. /\ Types /\ todo \in Seq(Jobbed) /\ Len(todo) >= 1 /\ Sym \in Symbols /\ Side \in Sides /\ todo[1] = <<Side, Sym>>
      /\ saved \in [Symbols -> Positions] /\ work \in [Symbols -> Positions] /\ HeatPlan
  BY JobIsOne DEF SInv, Types, HeatInv
<1>2. work[Sym] = saved[Sym] /\ (Side = "buy" => saved[Sym].qty = 0)
  BY <1>1 DEF SlotInv, TickPlan, SInv, Planned, Sym, Side
<1>3. ASSUME NEW s \in Symbols, saved[s].qty > 0 PROVE Notional(P[s]) <= Notional(saved[s])
  <2>1. CASE s = Sym
    <3>1. Side = "sell"
      BY <1>1, <1>2, <1>3, <2>1 DEF Sides
    <3> QED
      BY <1>2, <2>1, <3>1
  <2>2. CASE s # Sym
    BY <1>1, <1>3, <2>2 DEF HeatPlan
  <2> QED
    BY <2>1, <2>2
<1>4. ASSUME NEW s \in Symbols, saved[s].qty = 0, P[s].qty > 0
      PROVE  Side = "buy" /\ Admitted(Notional(P[s]))
  <2>1. CASE s = Sym
    <3>1. P[s].qty # 0
      BY <1>4
    <3>2. Side = "buy"
      BY <1>1, <1>2, <1>4, <2>1, <3>1 DEF Sides
    <3> QED
      BY <1>4, <2>1, <3>2
  <2>2. CASE s # Sym
    BY <1>1, <1>4, <2>2 DEF HeatPlan
  <2> QED
    BY <2>1, <2>2
<1>5. /\ todo' = Tail(todo) /\ Len(todo') = Len(todo) - 1 /\ (todo' = <<>> <=> Len(todo) = 1)
      /\ work' = P /\ fill' = NoFill /\ saved' = IF Len(todo) = 1 THEN P ELSE saved
  BY <1>1, TailOf DEF Pops
<1>6. HeatInv'
  <2>1. (\A s \in Symbols : sent[<<"buy", s>>] <= Raw(s))'
    BY DEF HeatInv, Raw
  <2>2. ASSUME todo' # <<>> PROVE HeatPlan'
    <3>1. saved' = saved /\ Len(todo) >= 2 /\ todo'[1] = todo[2]
      BY <1>1, <1>5, <2>2
    <3>2. Side = "buy" => Side' = "buy"
      BY <1>1, <3>1 DEF SlotInv, TickPlan, Side
    <3>3. Before' = Before
      BY <3>1 DEF Before
    <3>4. ASSUME NEW s \in Symbols PROVE (saved[s].qty > 0 => Notional(work[s]) <= Notional(saved[s]))'
      BY <1>3, <1>5, <3>1
    <3>5. ASSUME NEW s \in Symbols, saved'[s].qty = 0, work'[s].qty > 0 PROVE Side' = "buy" /\ Admitted(Notional(work[s]))'
      <4>1. Side = "buy" /\ Admitted(Notional(P[s])) /\ Equity' = Equity
        BY <1>4, <1>5, <3>1, <3>5
      <4> QED
        BY <1>5, <3>2, <3>3, <4>1 DEF Admitted
    <3> QED
      BY <3>4, <3>5 DEF HeatPlan
  <2> QED
    BY <1>5, <2>1, <2>2 DEF HeatInv
<1>7. ASSUME saved' # saved, gate.heat > 0, NEW s \in Opened
      PROVE  100 * (Total(saved') - (SumNew - Notional(saved'[s]))) <= gate.heat * Equity'
  <2>1. saved' = P
    BY <1>5, <1>7
  <2> DEFINE new == {x \in Symbols : saved[x].qty = 0 /\ P[x].qty > 0}
             a == SumOf(Exposures(P))
             b == SumOf(Notionals(P, new))
             c == SumOf(Exposures(saved))
             d == Notional(P[s])
             o == SumOf(Others)
             e == gate.heat * Equity
  <2>2. Opened = new /\ s \in new /\ s \in Symbols
    BY <1>7, <2>1 DEF Opened
  <2>3. Side = "buy" /\ Admitted(d) /\ Equity' = Equity
    BY <1>4, <2>2
  <2>4. 100 * (o + c + d) <= e
    BY <1>7, <2>3 DEF Admitted, Before
  <2>5. a - b <= c
    BY <1>1, <1>3, NewAside
  <2>6. Total(saved') = o + a /\ SumNew = b /\ Notional(saved'[s]) = d
    BY <2>1, <2>2 DEF Total, SumNew
  <2>7. a \in Nat /\ b \in Nat /\ c \in Nat /\ o \in Nat
    <3>1. HeldIn(P) \in SUBSET Symbols /\ new \in SUBSET Symbols
      BY DEF HeldIn
    <3> HIDE DEF new
    <3> QED
      BY <1>1, <3>1, SumOfNotionals, BeforeNat DEF Exposures
  <2>8. d \in Nat /\ e \in Int
    <3>1. gate.heat \in Nat /\ Equity \in Int
      BY <1>1, GateKnown, EquityInt
    <3>2. \A x \in Nat, y \in Int : x * y \in Int
      OBVIOUS
    <3>3. e \in Int
      BY <3>1, <3>2, Zenon
    <3>4. d \in Nat
      BY <2>2, WorthsNat, Zenon
    <3> QED
      BY <3>3, <3>4
  <2> HIDE DEF a, b, c, d, e, o, new
  <2>9. 100 * ((o + a) - (b - d)) <= e
    BY <2>4, <2>5, <2>7, <2>8
  <2> QED
    BY <2>3, <2>6, <2>9 DEF e
<1> QED
  BY <1>6, <1>7 DEF HeatStep

LEMMA HeatIdle ==
  ASSUME HeatInv, SInv, SlotInv, Marks, todo # <<>>, Pops(work), UNCHANGED <<gate, market, sent, curve>>
  PROVE  HeatInv' /\ (saved' # saved => HeatStep)
<1>1. work \in [Symbols -> Positions] /\ Sym \in Symbols /\ Len(todo) >= 1
  BY JobIsOne DEF SInv, Types
<1>2. Notional(work[Sym]) \in Nat /\ Equity' = Equity
  BY <1>1, WorthsNat DEF Equity
<1>3. Side = "buy" => work[Sym].qty = 0
  BY <1>1 DEF SInv, Planned, Sym, Side
<1> QED
  BY <1>1, <1>2, <1>3, HeatPop

LEMMA HeatBookBuy ==
  ASSUME HeatInv, SInv, SlotInv, Marks, Book, BookBuy PROVE HeatInv' /\ (saved' # saved => HeatStep)
<1>1. /\ Types /\ todo # <<>> /\ fill # NoFill /\ Sym \in Symbols /\ Side = "buy" /\ UNCHANGED <<gate, market, sent>>
      /\ work \in [Symbols -> Positions] /\ fill \in Fills
  BY JobIsOne DEF SInv, Types, Book, BookBuy, exchange
<1>2. Bought \in Positions /\ fill.qty \in Nat /\ market.price[Sym] \in Nat
  BY <1>1, ScannerAssumption DEF Types, Fills, Positions, Bought
<1>3. fill.qty <= Raw(Sym) /\ Admitted(Raw(Sym) * market.price[Sym]) /\ Raw(Sym) \in Nat
  BY <1>1, EntryAtMost DEF HeatInv
<1>4. Admitted(Notional(Bought))
  <2> DEFINE p == market.price[Sym]
             q == fill.qty
             r == Raw(Sym)
  <2>1. p * q \in Nat /\ r * p \in Nat /\ p * q <= r * p
    <3>1. (r - q) * p \in Nat
      BY <1>2, <1>3, Product
    <3>2. p * q \in Nat /\ r * p \in Nat
      BY <1>2, <1>3, Product
    <3>3. (r - q) * p = r * p - p * q
      BY <1>2, <1>3
    <3> QED
      BY <3>1, <3>2, <3>3
  <2>2. Notional(Bought) = p * q
    BY DEF Notional, Bought
  <2>3. Admitted(r * p) /\ Equity \in Int
    BY <1>3, EquityInt
  <2> HIDE DEF p, q, r
  <2>4. Admitted(p * q)
    BY <1>1, <2>1, <2>3, AdmitsLess
  <2> QED
    BY <2>2, <2>4
<1>5. Equity' = Equity
  <2>1. curve'.realized = curve.realized + 0 /\ curve'.peak = IF curve.realized + 0 > curve.peak THEN curve.realized + 0 ELSE curve.peak
    BY DEF BookBuy, BookTrade
  <2>2. curve'.realized = curve.realized /\ curve'.peak = curve.peak
    BY <2>1 DEF Marks
  <2> QED
    BY <2>2 DEF Equity
<1> DEFINE P == [work EXCEPT ![Sym] = Bought]
<1>6. P \in [Symbols -> Positions] /\ P[Sym] = Bought /\ \A s \in Symbols : s # Sym => P[s] = work[s]
  BY <1>1, <1>2
<1>7. Pops(P)
  BY DEF BookBuy
<1> HIDE DEF P
<1> QED
  BY <1>1, <1>4, <1>5, <1>6, <1>7, HeatPop

LEMMA HeatBookSell ==
  ASSUME HeatInv, SInv, SlotInv, Marks, Book, BookSell PROVE HeatInv' /\ (saved' # saved => HeatStep)
<1>1. /\ Types /\ todo # <<>> /\ Sym \in Symbols /\ Side = "sell" /\ UNCHANGED <<gate, market, sent>>
      /\ work \in [Symbols -> Positions] /\ work[Sym] \in Positions /\ fill.qty \in Nat
  BY JobIsOne DEF SInv, Types, Fills, Book, BookSell, exchange
<1> DEFINE pos == Rest(work[Sym], fill.qty)
           P   == [work EXCEPT ![Sym] = pos]
<1>2. pos \in Positions /\ pos.qty <= work[Sym].qty /\ (pos.avg = work[Sym].avg \/ pos.qty = 0)
  BY <1>1 DEF Rest, Positions, NoPos
<1>3. Notional(pos) <= Notional(work[Sym])
  <2> DEFINE v == work[Sym].avg
             q == work[Sym].qty
             r == pos.qty
  <2>1. v \in Nat /\ q \in Nat /\ r \in Nat /\ r <= q /\ pos.avg \in Nat /\ (pos.avg = v \/ r = 0)
    BY <1>1, <1>2 DEF Positions
  <2>2. Notional(pos) = pos.avg * r /\ Notional(work[Sym]) = v * q
    BY DEF Notional
  <2> HIDE DEF pos, v, q, r
  <2>3. v * (q - r) \in Nat /\ v * q \in Nat /\ v * r \in Nat
    BY <2>1, Product
  <2>4. v * (q - r) = v * q - v * r
    BY <2>1
  <2>5. CASE r = 0
    <3>1. pos.avg * r = 0
      BY <2>1, <2>5
    <3> QED
      BY <2>2, <2>3, <3>1
  <2>6. CASE pos.avg = v
    BY <2>2, <2>3, <2>4, <2>6
  <2> QED
    BY <2>1, <2>5, <2>6
<1>4. work[Sym].qty = 0 => pos.qty = 0
  BY <1>1, <1>2 DEF Positions
<1> HIDE DEF pos
<1>5. P \in [Symbols -> Positions] /\ P[Sym] = pos /\ \A s \in Symbols : s # Sym => P[s] = work[s]
  BY <1>1, <1>2
<1>6. Pops(P)
  BY <1>1 DEF BookSell, pos
<1> HIDE DEF P
<1> QED
  BY <1>1, <1>3, <1>4, <1>5, <1>6, HeatPop

LEMMA HeatKept ==
  ASSUME HeatInv, SInv, SlotInv, Marks, [Next]_vars
  PROVE  HeatInv' /\ [HeatStep]_saved
<1>1. CASE TickStarts
  BY <1>1, HeatTickStarts DEF TickStarts
<1>2. CASE Skip
  BY <1>2, HeatIdle DEF Skip, book, exchange
<1>3. CASE OnPaper
  BY <1>3, HeatOnPaper DEF OnPaper
<1>4. CASE Adopt
  BY <1>4, HeatAdopt DEF Adopt
<1>5. CASE Refused
  BY <1>5, HeatRefused DEF Refused
<1>6. CASE Executed
  BY <1>6, HeatExecuted DEF Executed
<1>7. CASE Book
  <2>1. CASE NotDone
    BY <1>7, <2>1, HeatIdle DEF Book, NotDone, book, exchange
  <2> QED
    BY <1>7, <2>1, HeatBookBuy, HeatBookSell DEF Book
<1>8. CASE NewBar
  BY <1>8, HeatNewBar DEF NewBar
<1>9. CASE Crash
  BY <1>9, HeatCrash DEF Crash
<1>10. CASE UNCHANGED vars
  <2>1. UNCHANGED <<saved, work, todo, fill, curve, gate, market, sent>>
    BY <1>10 DEF vars, book, exchange
  <2> QED
    BY <2>1, HeatAside DEF HeatInv
<1> QED
  BY <1>1, <1>2, <1>3, <1>4, <1>5, <1>6, <1>7, <1>8, <1>9, <1>10 DEF Next

LEMMA HeatStart == Init => HeatInv
<1> SUFFICES ASSUME Init PROVE HeatInv
  OBVIOUS
<1>1. Types
  BY InitKeeps DEF SInv
<1>2. \A s \in Symbols : sent[<<"buy", s>>] = 0 /\ Raw(s) \in Nat
  BY <1>1, EntryAtMost DEF Init, Sides
<1> QED
  BY <1>2 DEF Init, HeatInv

\* HeatBounded of every behaviour: when a tick has saved what it bought, each
\* entry was within the limit on the heat with all that was held before and the
\* tick kept, so that only the entries of one tick can exceed it together.
THEOREM HeatIsBounded == Spec => HeatBounded
<1>1. Init => SInv /\ SlotInv /\ Marks /\ HeatInv
  BY InitKeeps, SlotsStart, MarksStart, HeatStart
<1>2. SInv /\ SlotInv /\ Marks /\ HeatInv /\ [Next]_vars => SInv' /\ SlotInv' /\ Marks' /\ HeatInv'
  BY StepKeeps, SlotsStep, MarksStep, HeatKept
<1>3. SInv /\ SlotInv /\ Marks /\ HeatInv /\ [Next]_vars => [HeatStep]_saved
  BY HeatKept
<1>4. HeatBounded <=> [][HeatStep]_saved
  BY DEF HeatBounded, HeatStep
<1> QED
  BY <1>1, <1>2, <1>3, <1>4, PTL DEF Spec
=============================================================================
