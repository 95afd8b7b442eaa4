-------------------------- MODULE OrderDesk_proofs --------------------------
(***************************************************************************)
(* That what a confirmation sets off was shown, once, in time, by this     *)
(* process, the types of the desk's state, and that the bots together stay *)
(* within the budget, for any number of calls, bots and events.            *)
(***************************************************************************)
EXTENDS OrderDesk, FiniteSetTheorems, WellFoundedInduction, TLAPS

\* A token that can still be presented was shown by this process.
TokensAreShown == \A u \in tokens : u \in shown /\ u.life = life

\* Every preview has a number of its own.
PreviewsAreNumbered ==
  /\ minted \in Nat
  /\ \A t \in shown : t.id \in Nat /\ t.id <= minted
  /\ \A t1, t2 \in shown : t1.id = t2.id => t1 = t2

\* What was set off belongs to a preview shown in time by the same process.
SentIsShown ==
  \A s \in sent : \E t \in shown :
    t.id = s.tok /\ t.terms = s.terms /\ t.exp > s.at /\ t.life = s.life

\* A token that has set something off cannot be presented again.
SentIsSpent ==
  /\ \A s \in sent, u \in tokens : s.tok # u.id
  /\ \A s1, s2 \in sent : s1.tok = s2.tok => s1 = s2

\* The strengthening that makes OrdersWereShown inductive.
DInv == TokensAreShown /\ PreviewsAreNumbered /\ SentIsShown /\ SentIsSpent

\* A minted token has a number that no order carries: mintToken (safety.ts:249).
LEMMA MintKeeps ==
  ASSUME DInv, NEW terms, MintToken(terms), life' = life
  PROVE  DInv'
<1> DEFINE t == [id |-> minted + 1, terms |-> terms, exp |-> clock + TTL, life |-> life]
<1>1. /\ tokens' = {u \in tokens : u.exp > clock} \cup {t}
      /\ minted' = minted + 1
      /\ shown' = shown \cup {t}
      /\ sent' = sent
  BY DEF MintToken
<1>2. t.id = minted + 1 /\ t.life = life
  OBVIOUS
<1> HIDE DEF t
<1>3. \A s \in sent : s.tok <= minted /\ s.tok \in Nat
  BY DEF DInv, SentIsShown, PreviewsAreNumbered
<1>4. TokensAreShown'
  BY <1>1, <1>2 DEF DInv, TokensAreShown
<1>5. PreviewsAreNumbered'
  BY <1>1, <1>2 DEF DInv, PreviewsAreNumbered
<1>6. SentIsShown'
  BY <1>1 DEF DInv, SentIsShown
<1>7. SentIsSpent'
  BY <1>1, <1>2, <1>3 DEF DInv, SentIsSpent, PreviewsAreNumbered
<1> QED
  BY <1>4, <1>5, <1>6, <1>7 DEF DInv

\* A token presented in vain is gone, and nothing else happens: consumeToken
\* (safety.ts:256).
LEMMA ConsumeKeeps ==
  ASSUME DInv, NEW tok, ConsumeToken(tok), UNCHANGED <<minted, shown, sent, life>>
  PROVE  DInv'
BY DEF DInv, ConsumeToken, TokensAreShown, PreviewsAreNumbered, SentIsShown, SentIsSpent

\* A good token that is presented sets off its own terms and is gone.
LEMMA ConfirmKeeps ==
  ASSUME DInv, NEW tok, NEW terms, NEW cost, Valid(tok, terms),
         ConsumeToken(tok), Record(tok, terms, cost), UNCHANGED <<minted, shown, life>>
  PROVE  DInv'
<1> DEFINE s0 == [no |-> Cardinality(sent) + 1, tok |-> tok, terms |-> terms,
                  cost |-> cost, at |-> clock, life |-> life]
<1>1. sent' = sent \cup {s0}
  BY DEF Record
<1>2. s0.tok = tok /\ s0.terms = terms /\ s0.at = clock /\ s0.life = life
  OBVIOUS
<1> HIDE DEF s0
<1>3. PICK u \in tokens : u.id = tok /\ u.terms = terms /\ u.exp > clock
  BY DEF Valid
<1>4. u \in shown /\ u.life = life
  BY <1>3 DEF DInv, TokensAreShown
<1>5. \A s \in sent : s.tok # tok
  BY <1>3 DEF DInv, SentIsSpent
<1>6. TokensAreShown' /\ PreviewsAreNumbered'
  BY DEF DInv, ConsumeToken, TokensAreShown, PreviewsAreNumbered
<1>7. SentIsShown'
  <2> SUFFICES ASSUME NEW s \in sent'
               PROVE  \E t \in shown : /\ t.id = s.tok /\ t.terms = s.terms
                                       /\ t.exp > s.at /\ t.life = s.life
    BY DEF SentIsShown
  <2>1. CASE s \in sent
    BY <2>1 DEF DInv, SentIsShown
  <2>2. CASE s = s0
    BY <1>2, <1>3, <1>4, <2>2
  <2> QED
    BY <1>1, <2>1, <2>2
<1>8. SentIsSpent'
  BY <1>1, <1>2, <1>5 DEF DInv, SentIsSpent, ConsumeToken
<1> QED
  BY <1>6, <1>7, <1>8 DEF DInv

\* Who leaves the tokens and the history alone keeps the invariant.
LEMMA SafeKeeps ==
  ASSUME DInv, UNCHANGED safe, UNCHANGED life
  PROVE  DInv'
BY DEF DInv, safe, TokensAreShown, PreviewsAreNumbered, SentIsShown, SentIsSpent

\* A preview or a confirmation at the end of a handler (live-handlers.ts:214-234).
LEMMA PresentKeeps ==
  ASSUME DInv, NEW c, NEW terms, NEW cost, Present(c, terms, cost), life' = life
  PROVE  DInv'
<1> DEFINE tok == call[c].tok
<1>1. CASE tok = NoToken
  BY <1>1, MintKeeps DEF Present
<1>2. CASE tok # NoToken /\ Valid(tok, terms) /\ Writable(terms.env)
  <2>1. ConsumeToken(tok) /\ Record(tok, terms, cost) /\ UNCHANGED <<minted, shown>>
    BY <1>2 DEF Present
  <2> QED
    BY <1>2, <2>1, ConfirmKeeps
<1>3. CASE tok # NoToken /\ ~(Valid(tok, terms) /\ Writable(terms.env))
  <2>1. ConsumeToken(tok) /\ UNCHANGED <<minted, shown, sent>>
    BY <1>3 DEF Present
  <2> QED
    BY <2>1, ConsumeKeeps
<1> QED
  BY <1>1, <1>2, <1>3

LEMMA InitHolds == Init => DInv
BY DEF Init, DInv, TokensAreShown, PreviewsAreNumbered, SentIsShown, SentIsSpent

LEMMA StepKeeps == DInv /\ [Next]_vars => DInv'
<1> SUFFICES ASSUME DInv, [Next]_vars PROVE DInv'
  OBVIOUS
<1>1. ASSUME NEW c \in Calls,
             \/ Receive(c) \/ HeldSeen(c) \/ OcoSeen(c) \/ PriceSeen(c) \/ PriceFails(c)
             \/ Executed(c) \/ CancelStarts(c) \/ Cancelled(c)
      PROVE  DInv'
  <2>1. UNCHANGED safe /\ UNCHANGED life
    BY <1>1 DEF Receive, HeldSeen, OcoSeen, PriceSeen, PriceFails, Executed, CancelStarts,
                Cancelled, Refuse, Quiet
  <2> QED
    BY <2>1, SafeKeeps
<1>2. ASSUME NEW c \in Calls, Check(c) PROVE DInv'
  <2>1. life' = life
    BY <1>2 DEF Check, Quiet
  <2>2. \/ UNCHANGED safe
        \/ \E terms, cost : Present(c, terms, cost)
    BY <1>2 DEF Check, Refuse
  <2> QED
    BY <2>1, <2>2, SafeKeeps, PresentKeeps
<1>3. ASSUME NEW c \in Calls, SellableSeen(c) PROVE DInv'
  <2>1. life' = life
    BY <1>3 DEF SellableSeen, Quiet
  <2>2. \/ UNCHANGED safe
        \/ \E terms, cost : Present(c, terms, cost)
    BY <1>3 DEF SellableSeen, Refuse
  <2> QED
    BY <2>1, <2>2, SafeKeeps, PresentKeeps
<1>4. ASSUME NEW c \in Calls, CheckAmount(c) PROVE DInv'
  <2>1. life' = life
    BY <1>4 DEF CheckAmount, Quiet
  <2>2. \/ UNCHANGED safe
        \/ \E terms, cost : Present(c, terms, cost)
    BY <1>4 DEF CheckAmount, Refuse
  <2> QED
    BY <2>1, <2>2, SafeKeeps, PresentKeeps
<1>5. ASSUME NEW b \in Bots, BotOrders(b) \/ BotChecks(b) \/ BotExecuted(b) \/ Booked(b)
      PROVE  DInv'
  <2>1. UNCHANGED safe /\ UNCHANGED life
    BY <1>5 DEF BotOrders, BotChecks, BotExecuted, Booked, BotQuiet, safe
  <2> QED
    BY <2>1, SafeKeeps
<1>6. ASSUME NEW tok \in NoToken..minted, EnableLive(tok) PROVE DInv'
  <2>1. life' = life
    BY <1>6 DEF EnableLive
  <2>2. CASE tok = NoToken
    BY <1>6, <2>1, <2>2, MintKeeps DEF EnableLive
  <2>3. CASE tok # NoToken /\ Valid(tok, EnableTerms)
    BY <1>6, <2>1, <2>3, ConfirmKeeps DEF EnableLive
  <2>4. CASE tok # NoToken /\ ~Valid(tok, EnableTerms)
    BY <1>6, <2>1, <2>4, ConsumeKeeps DEF EnableLive
  <2> QED
    BY <2>2, <2>3, <2>4
<1>7. ASSUME DisableLive \/ TurnHalt \/ TurnEnv \/ Tick \/ NewDay \/ PriceMoves \/ OcoFires
      PROVE  DInv'
  <2>1. UNCHANGED safe /\ UNCHANGED life
    BY <1>7 DEF DisableLive, TurnHalt, TurnEnv, Tick, NewDay, PriceMoves, OcoFires
  <2> QED
    BY <2>1, SafeKeeps
<1>8. CASE Crash
  BY <1>8 DEF Crash, DInv, TokensAreShown, PreviewsAreNumbered, SentIsShown, SentIsSpent
<1>9. CASE UNCHANGED vars
  BY <1>9, SafeKeeps DEF vars, safe
<1> QED
  BY <1>1, <1>2, <1>3, <1>4, <1>5, <1>6, <1>7, <1>8, <1>9 DEF Next

\* What a confirmation sets off was shown: OrdersWereShown of every behaviour,
\* whatever the numbers of calls, bots, prices, limits and events.
THEOREM ConfirmedWasShown == Spec => []OrdersWereShown
<1>1. DInv => OrdersWereShown
  BY DEF DInv, SentIsShown, SentIsSpent, OrdersWereShown
<1> QED
  BY <1>1, InitHolds, StepKeeps, PTL DEF Spec

-----------------------------------------------------------------------------
(* Sums over a finite set: the library adds up by a recursive function, and a  *)
(* set on which a fact about it failed would have a smallest subset on which   *)
(* it fails.                                                                   *)

\* A family of subsets of a finite set has a smallest member.
LEMMA Smallest ==
  ASSUME NEW S, IsFiniteSet(S), NEW F \in SUBSET SUBSET S, F # {}
  PROVE  \E T \in F : \A U \in F : U \subseteq T => U = T
<1>1. F \subseteq FiniteSubsetsOf(S)
  BY FS_Subset DEF FiniteSubsetsOf
<1>2. IsWellFoundedOn(StrictSubsetOrdering(S), FiniteSubsetsOf(S))
  BY FS_StrictSubsetOrderingWellFounded
<1>3. PICK T \in F : \A U \in F : ~(<<U, T>> \in StrictSubsetOrdering(S))
  BY <1>1, <1>2, WFMin
<1> QED
  BY <1>3 DEF StrictSubsetOrdering

Total(f, S) == MapThenSumSet(LAMBDA x : f[x], S)

First(s) == CHOOSE x \in s : TRUE
Rest(s) == s \ {First(s)}

LEMMA FirstIn == ASSUME NEW s, s # {} PROVE First(s) \in s /\ Rest(s) \subseteq s /\ Rest(s) # s
BY DEF First, Rest

\* What the library's recursive function is to be on the subsets of S.
Adds(f, S, g) == [s \in SUBSET S |-> IF s = {} THEN 0 ELSE f[First(s)] + g[Rest(s)]]
Sums(f, S, g) == g = Adds(f, S, g)
TheSum(f, S) == CHOOSE g : Sums(f, S, g)

LEMMA TotalIs == \A f, S : Total(f, S) = TheSum(f, S)[S]
BY DEF Total, MapThenSumSet, MapThenFoldSet, TheSum, Sums, Adds, First, Rest

LEMMA SumsAt ==
  ASSUME NEW f, NEW S, NEW g, Sums(f, S, g), NEW T \in SUBSET S
  PROVE  g[T] = IF T = {} THEN 0 ELSE f[First(T)] + g[Rest(T)]
BY DEF Sums, Adds

\* Two such functions agree where both are defined.
LEMMA SumsAgree ==
  ASSUME NEW S, IsFiniteSet(S), NEW R \in SUBSET S, NEW f,
         NEW g, Sums(f, S, g), NEW h, Sums(f, R, h)
  PROVE  \A T \in SUBSET R : g[T] = h[T]
<1> DEFINE F == {T \in SUBSET R : g[T] # h[T]}
<1> SUFFICES ASSUME F # {} PROVE FALSE
  OBVIOUS
<1>1. IsFiniteSet(R)
  BY FS_Subset
<1>2. PICK T \in F : \A U \in F : U \subseteq T => U = T
  <2>1. F \in SUBSET SUBSET R
    OBVIOUS
  <2> HIDE DEF F
  <2> QED
    BY <1>1, <2>1, Smallest
<1>3. T \in SUBSET R /\ T \in SUBSET S
  OBVIOUS
<1>4. g[T] = IF T = {} THEN 0 ELSE f[First(T)] + g[Rest(T)]
  BY <1>3, SumsAt
<1>5. h[T] = IF T = {} THEN 0 ELSE f[First(T)] + h[Rest(T)]
  BY <1>3, SumsAt
<1>6. T # {} => Rest(T) \in SUBSET R /\ Rest(T) \subseteq T /\ Rest(T) # T
  BY <1>3, FirstIn
<1>7. T # {} => Rest(T) \notin F
  BY <1>2, <1>6
<1> QED
  BY <1>4, <1>5, <1>6, <1>7

\* There is such a function.
LEMMA SumExists == ASSUME NEW S, IsFiniteSet(S), NEW f PROVE \E g : Sums(f, S, g)
<1> DEFINE F == {T \in SUBSET S : ~\E g : Sums(f, T, g)}
<1> SUFFICES ASSUME F # {} PROVE FALSE
  OBVIOUS
<1>1. PICK T \in F : \A U \in F : U \subseteq T => U = T
  <2>1. F \in SUBSET SUBSET S
    OBVIOUS
  <2> HIDE DEF F
  <2> QED
    BY <2>1, Smallest
<1>2. T \in SUBSET S /\ ~\E g : Sums(f, T, g)
  OBVIOUS
<1>3. ASSUME NEW U \in SUBSET T, U # T PROVE Sums(f, U, TheSum(f, U)) /\ IsFiniteSet(U)
  <2>1. U \in SUBSET S /\ U \notin F
    BY <1>1, <1>2, <1>3
  <2>2. \E g : Sums(f, U, g)
    BY <2>1
  <2>3. Sums(f, U, TheSum(f, U))
    BY <2>2 DEF TheSum
  <2> QED
    BY <2>1, <2>3, FS_Subset
<1> HIDE DEF F
<1> DEFINE v(U) == TheSum(f, U)[U]
           g == [s \in SUBSET T |-> IF s = {} THEN 0 ELSE f[First(s)] + v(Rest(s))]
<1>4. ASSUME NEW U \in SUBSET T, U # T, U # {} PROVE v(U) = f[First(U)] + v(Rest(U))
  <2> DEFINE R == Rest(U)
  <2>1. R \in SUBSET U /\ R \in SUBSET T /\ R # T
    BY <1>4, FirstIn
  <2>2. Sums(f, U, TheSum(f, U)) /\ IsFiniteSet(U)
    BY <1>3, <1>4
  <2>3. Sums(f, R, TheSum(f, R))
    BY <1>3, <2>1
  <2>4. v(U) = f[First(U)] + TheSum(f, U)[R]
    BY <1>4, <2>2, SumsAt
  <2>5. \A W \in SUBSET R : TheSum(f, U)[W] = TheSum(f, R)[W]
    BY <2>1, <2>2, <2>3, SumsAgree
  <2>6. TheSum(f, U)[R] = TheSum(f, R)[R]
    BY <2>5
  <2> QED
    BY <2>4, <2>6
<1>5. {} # T => v({}) = 0
  <2>1. ASSUME {} # T PROVE Sums(f, {}, TheSum(f, {}))
    BY <1>3, <2>1
  <2>2. ASSUME {} # T PROVE TheSum(f, {})[{}] = 0
    BY <2>1, <2>2, SumsAt
  <2> QED
    BY <2>2
<1> HIDE DEF v
<1>6. ASSUME NEW s \in SUBSET T PROVE g[s] = IF s = {} THEN 0 ELSE f[First(s)] + g[Rest(s)]
  <2>1. CASE s = {}
    BY <2>1
  <2>2. CASE s # {}
    <3>1. Rest(s) \in SUBSET T /\ Rest(s) # T
      BY <2>2, FirstIn
    <3>2. g[s] = f[First(s)] + v(Rest(s))
      BY <2>2
    <3>3. g[Rest(s)] = v(Rest(s))
      BY <1>4, <1>5, <3>1
    <3> QED
      BY <2>2, <3>2, <3>3
  <2> QED
    BY <2>1, <2>2
<1>7. Sums(f, T, g)
  <2>1. g = [s \in SUBSET T |-> g[s]]
    OBVIOUS
  <2> HIDE DEF g
  <2> QED
    BY <1>6, <2>1 DEF Sums, Adds
<1> QED
  BY <1>2, <1>7

\* The sum over a set is what its first element adds to the sum over the rest.
LEMMA TotalStep ==
  ASSUME NEW S, IsFiniteSet(S), NEW f
  PROVE  Total(f, S) = IF S = {} THEN 0 ELSE f[First(S)] + Total(f, Rest(S))
<1>1. Sums(f, S, TheSum(f, S))
  BY SumExists DEF TheSum
<1>2. Total(f, S) = IF S = {} THEN 0 ELSE f[First(S)] + TheSum(f, S)[Rest(S)]
  BY <1>1, SumsAt, TotalIs
<1>3. ASSUME S # {} PROVE TheSum(f, S)[Rest(S)] = Total(f, Rest(S))
  <2>1. Rest(S) \in SUBSET S
    BY <1>3, FirstIn
  <2>2. IsFiniteSet(Rest(S))
    BY <2>1, FS_Subset
  <2>3. Sums(f, Rest(S), TheSum(f, Rest(S)))
    BY <2>2, SumExists DEF TheSum
  <2>4. \A W \in SUBSET Rest(S) : TheSum(f, S)[W] = TheSum(f, Rest(S))[W]
    BY <1>1, <2>1, <2>3, SumsAgree
  <2> QED
    BY <2>4, TotalIs
<1> QED
  BY <1>2, <1>3

\* Facts about sums, each by the smallest set on which it would fail.
LEMMA TotalIntOn ==
  ASSUME NEW S, IsFiniteSet(S), NEW f \in [S -> Int], NEW R \in SUBSET S
  PROVE  Total(f, R) \in Int
<1> DEFINE F == {T \in SUBSET S : Total(f, T) \notin Int}
<1>1. ASSUME F # {} PROVE FALSE
  <2>1. PICK T \in F : \A U \in F : U \subseteq T => U = T
    <3>1. F \in SUBSET SUBSET S
      OBVIOUS
    <3> HIDE DEF F
    <3> QED
      BY <1>1, <3>1, Smallest
  <2>2. T \in SUBSET S /\ Total(f, T) \notin Int /\ IsFiniteSet(T)
    BY FS_Subset
  <2>3. Total(f, T) = IF T = {} THEN 0 ELSE f[First(T)] + Total(f, Rest(T))
    BY <2>2, TotalStep
  <2>4. T # {} => First(T) \in T /\ Rest(T) \in SUBSET S /\ Rest(T) \subseteq T /\ Rest(T) # T
    BY <2>2, FirstIn
  <2>5. T # {} => Total(f, Rest(T)) \in Int
    BY <2>1, <2>2, <2>4
  <2>6. T # {} => f[First(T)] \in Int
    BY <2>2, <2>4
  <2> QED
    BY <2>2, <2>3, <2>5, <2>6
<1> QED
  BY <1>1

LEMMA TotalPlus ==
  ASSUME NEW S, IsFiniteSet(S), NEW f \in [S -> Int], NEW g \in [S -> Int]
  PROVE  Total([x \in S |-> f[x] + g[x]], S) = Total(f, S) + Total(g, S)
<1> DEFINE h == [x \in S |-> f[x] + g[x]]
           F == {T \in SUBSET S : Total(h, T) # Total(f, T) + Total(g, T)}
<1>1. ASSUME F # {} PROVE FALSE
  <2>1. PICK T \in F : \A U \in F : U \subseteq T => U = T
    <3>1. F \in SUBSET SUBSET S
      OBVIOUS
    <3> HIDE DEF F
    <3> QED
      BY <1>1, <3>1, Smallest
  <2>2. T \in SUBSET S /\ Total(h, T) # Total(f, T) + Total(g, T) /\ IsFiniteSet(T)
    BY FS_Subset
  <2>3. /\ Total(f, T) = IF T = {} THEN 0 ELSE f[First(T)] + Total(f, Rest(T))
        /\ Total(g, T) = IF T = {} THEN 0 ELSE g[First(T)] + Total(g, Rest(T))
        /\ Total(h, T) = IF T = {} THEN 0 ELSE h[First(T)] + Total(h, Rest(T))
    BY <2>2, TotalStep
  <2>4. T # {}
    BY <2>2, <2>3
  <2>5. First(T) \in S /\ Rest(T) \in SUBSET S /\ Rest(T) \subseteq T /\ Rest(T) # T /\ IsFiniteSet(Rest(T))
    BY <2>2, <2>4, FirstIn, FS_Subset
  <2>6. Total(h, Rest(T)) = Total(f, Rest(T)) + Total(g, Rest(T))
    BY <2>1, <2>5
  <2>7. h[First(T)] = f[First(T)] + g[First(T)] /\ f[First(T)] \in Int /\ g[First(T)] \in Int
    BY <2>5
  <2>8. Total(f, Rest(T)) \in Int /\ Total(g, Rest(T)) \in Int
    BY <2>5, TotalIntOn
  <2> HIDE DEF h, F
  <2> QED
    BY <2>2, <2>3, <2>4, <2>6, <2>7, <2>8
<1> QED
  BY <1>1

LEMMA TotalAtMost ==
  ASSUME NEW S, IsFiniteSet(S), NEW f \in [S -> Int], NEW g \in [S -> Int],
         \A x \in S : f[x] <= g[x]
  PROVE  Total(f, S) <= Total(g, S)
<1> DEFINE F == {T \in SUBSET S : ~(Total(f, T) <= Total(g, T))}
<1>1. ASSUME F # {} PROVE FALSE
  <2>1. PICK T \in F : \A U \in F : U \subseteq T => U = T
    <3>1. F \in SUBSET SUBSET S
      OBVIOUS
    <3> HIDE DEF F
    <3> QED
      BY <1>1, <3>1, Smallest
  <2>2. T \in SUBSET S /\ ~(Total(f, T) <= Total(g, T)) /\ IsFiniteSet(T)
    BY FS_Subset
  <2>3. /\ Total(f, T) = IF T = {} THEN 0 ELSE f[First(T)] + Total(f, Rest(T))
        /\ Total(g, T) = IF T = {} THEN 0 ELSE g[First(T)] + Total(g, Rest(T))
    BY <2>2, TotalStep
  <2>4. T # {}
    BY <2>2, <2>3
  <2>5. First(T) \in S /\ Rest(T) \in SUBSET S /\ Rest(T) \subseteq T /\ Rest(T) # T
    BY <2>2, <2>4, FirstIn
  <2>6. Total(f, Rest(T)) <= Total(g, Rest(T))
    BY <2>1, <2>5
  <2>7. f[First(T)] <= g[First(T)] /\ f[First(T)] \in Int /\ g[First(T)] \in Int
    BY <2>5
  <2>8. Total(f, Rest(T)) \in Int /\ Total(g, Rest(T)) \in Int
    BY <2>5, TotalIntOn
  <2> HIDE DEF F
  <2> QED
    BY <2>2, <2>3, <2>4, <2>6, <2>7, <2>8
<1> QED
  BY <1>1

LEMMA TotalOfConstant ==
  ASSUME NEW S, IsFiniteSet(S), NEW c \in Int, NEW f, \A x \in S : f[x] = c
  PROVE  Total(f, S) = Cardinality(S) * c
<1> DEFINE F == {T \in SUBSET S : Total(f, T) # Cardinality(T) * c}
<1>1. ASSUME F # {} PROVE FALSE
  <2>1. PICK T \in F : \A U \in F : U \subseteq T => U = T
    <3>1. F \in SUBSET SUBSET S
      OBVIOUS
    <3> HIDE DEF F
    <3> QED
      BY <1>1, <3>1, Smallest
  <2>2. T \in SUBSET S /\ Total(f, T) # Cardinality(T) * c /\ IsFiniteSet(T) /\ Cardinality(T) \in Nat
    BY FS_Subset, FS_CardinalityType
  <2>3. Total(f, T) = IF T = {} THEN 0 ELSE f[First(T)] + Total(f, Rest(T))
    BY <2>2, TotalStep
  <2>4. T # {}
    BY <2>2, <2>3, FS_EmptySet
  <2>5. First(T) \in T /\ First(T) \in S /\ Rest(T) \in SUBSET S /\ Rest(T) \subseteq T /\ Rest(T) # T
    BY <2>2, <2>4, FirstIn
  <2>6. Total(f, Rest(T)) = Cardinality(Rest(T)) * c
    BY <2>1, <2>5
  <2>7. Cardinality(Rest(T)) = Cardinality(T) - 1
    BY <2>2, <2>5, FS_RemoveElement DEF Rest
  <2>8. Total(f, T) = c + (Cardinality(T) - 1) * c
    BY <2>3, <2>4, <2>5, <2>6, <2>7
  <2>9. PICK n \in Int : n = Cardinality(T)
    BY <2>2
  <2>10. c + (n - 1) * c = n * c
    OBVIOUS
  <2> QED
    BY <2>2, <2>8, <2>9, <2>10
<1> QED
  BY <1>1

LEMMA TotalOfOne ==
  ASSUME NEW S, IsFiniteSet(S), NEW p \in S, NEW v \in Int,
         NEW f \in [S -> Int], f[p] = v, \A x \in S : x # p => f[x] = 0
  PROVE  Total(f, S) = v
<1> DEFINE F == {T \in SUBSET S : Total(f, T) # IF p \in T THEN v ELSE 0}
<1>1. ASSUME F # {} PROVE FALSE
  <2>1. PICK T \in F : \A U \in F : U \subseteq T => U = T
    <3>1. F \in SUBSET SUBSET S
      OBVIOUS
    <3> HIDE DEF F
    <3> QED
      BY <1>1, <3>1, Smallest
  <2>2. T \in SUBSET S /\ (Total(f, T) # IF p \in T THEN v ELSE 0) /\ IsFiniteSet(T)
    BY FS_Subset
  <2>3. Total(f, T) = IF T = {} THEN 0 ELSE f[First(T)] + Total(f, Rest(T))
    BY <2>2, TotalStep
  <2>4. T # {}
    BY <2>2, <2>3
  <2>5. First(T) \in T /\ First(T) \in S /\ Rest(T) \in SUBSET S /\ Rest(T) \subseteq T /\ Rest(T) # T
    BY <2>2, <2>4, FirstIn
  <2>6. Total(f, Rest(T)) = IF p \in Rest(T) THEN v ELSE 0
    BY <2>1, <2>5
  <2>7. p \in Rest(T) <=> p \in T /\ p # First(T)
    BY DEF Rest
  <2>8. CASE p = First(T)
    BY <2>2, <2>3, <2>4, <2>5, <2>6, <2>7, <2>8
  <2>9. CASE p # First(T)
    BY <2>2, <2>3, <2>4, <2>5, <2>6, <2>7, <2>9
  <2> QED
    BY <2>8, <2>9
<1> QED
  BY <1>1

-----------------------------------------------------------------------------
(* Types: what is under way says what the exchange and the trades may be given. *)

Rested == [id : 1..minted, env : Envs, qty : Nat \ {0}]
Cancels == [at : {"cancel"}, oco : Rested]
Orders == [at : {"held", "listed", "price", "size", "sellable", "amount", "sent"}, kind : Kinds,
           qty : Nat \ {0}, tok : 0..minted, env : Envs, price : Nat, held : Nat]
Coherent(x) == /\ x.at = "sent" => x.tok # NoToken
               /\ x.at = "amount" => x.kind = "amount"
UnderWay == {Idle} \cup Cancels \cup {x \in Orders : Coherent(x)}

Sides == {"buy", "sell"}
Asked == [at : {"size"}, side : Sides, qty : Nat, price : Nat, env : Envs]
Sending == [at : {"send"}, side : Sides, qty : Nat, env : Envs, approved : Nat]
Answered == [at : {"answer"}, side : Sides, qty : Nat, cost : Nat, approved : Nat]
Fills == {Idle} \cup Asked \cup Sending \cup Answered

\* A bot sells only what it holds.
SellsItsOwn(b) == fill[b] # Idle /\ fill[b].side = "sell" => ledger[b].qty > 0

Ledgers == [qty : Nat, cost : Nat, unseen : Nat]
Previews == [id : 1..minted, terms : TermSet, exp : Nat, life : Nat]
Sent == [no : Nat \ {0}, tok : 1..minted, terms : TermSet, cost : Nat, at : Nat, life : Nat]

WorldTypes ==
  /\ broker \in Brokers /\ halt \in BOOLEAN /\ master \in BOOLEAN /\ env \in Envs
  /\ px \in Prices /\ free \in [Envs -> Nat] /\ ocos \subseteq Rested
  /\ dayPnl \in Int /\ clock \in Nat /\ life \in Nat /\ left \in [Events -> Nat]
TokenTypes ==
  /\ DInv
  /\ shown \subseteq Previews
  /\ sent \subseteq Sent /\ IsFiniteSet(sent)
BotTypes ==
  /\ ledger \in [Bots -> Ledgers] /\ fill \in [Bots -> Fills]
  /\ \A b \in Bots : SellsItsOwn(b)
DeskTypes == WorldTypes /\ TokenTypes /\ call \in [Calls -> UnderWay] /\ BotTypes

LEMMA TypesAreTypes == DeskTypes => TypeOK
<1> SUFFICES ASSUME DeskTypes PROVE TypeOK
  OBVIOUS
<1>1. \A c \in Calls : call[c] = Idle \/ call[c].at \in
       {"held", "listed", "price", "size", "sellable", "amount", "sent", "cancel"}
  BY DEF DeskTypes, UnderWay, Orders, Cancels
<1>2. \A b \in Bots : fill[b] = Idle \/ fill[b].at \in {"size", "send", "answer"}
  BY DEF DeskTypes, BotTypes, Fills, Asked, Sending, Answered
<1>3. \A o \in ocos : o.id \in 1..minted /\ o.env \in Envs /\ o.qty \in Nat \ {0}
  BY DEF DeskTypes, WorldTypes, Rested
<1>4. tokens \subseteq shown /\ minted \in Nat
  BY DEF DeskTypes, TokenTypes, DInv, TokensAreShown, PreviewsAreNumbered
<1> QED
  BY <1>1, <1>2, <1>3, <1>4 DEF DeskTypes, WorldTypes, TokenTypes, BotTypes, TypeOK, Ledgers, Previews, Sent

LEMMA TypesAtFirst == Init => DeskTypes
<1> SUFFICES ASSUME Init PROVE DeskTypes
  OBVIOUS
<1>1. DInv
  BY InitHolds
<1>2. /\ broker \in Brokers /\ halt = FALSE /\ master = TRUE /\ env = "live" /\ left \in Budgets
      /\ px \in Prices /\ free = [e \in Envs |-> MaxQty] /\ ocos = {}
      /\ ledger = [b \in Bots |-> [qty |-> 0, cost |-> 0, unseen |-> 0]] /\ dayPnl = 0
      /\ clock = 0 /\ life = 0 /\ tokens = {} /\ minted = 0 /\ shown = {} /\ sent = {}
      /\ call = [c \in Calls |-> Idle] /\ fill = [b \in Bots |-> Idle]
  BY DEF Init
<1>3. MaxQty \in Nat /\ left \in [Events -> Nat]
  BY <1>2, DeskAssumption
<1>4. WorldTypes
  <2>1. free \in [Envs -> Nat]
    BY <1>2, <1>3
  <2>2. env \in Envs
    BY <1>2 DEF Envs
  <2>3. halt \in BOOLEAN /\ master \in BOOLEAN
    BY <1>2
  <2>4. ocos \subseteq Rested
    BY <1>2
  <2>5. dayPnl \in Int /\ clock \in Nat /\ life \in Nat
    BY <1>2
  <2> QED
    BY <1>2, <1>3, <2>1, <2>2, <2>3, <2>4, <2>5 DEF WorldTypes
<1>5. TokenTypes
  BY <1>1, <1>2, FS_EmptySet DEF TokenTypes
<1>6. call \in [Calls -> UnderWay]
  BY <1>2 DEF UnderWay
<1>7. ledger \in [Bots -> Ledgers] /\ fill \in [Bots -> Fills]
  BY <1>2 DEF Ledgers, Fills
<1>8. \A b \in Bots : SellsItsOwn(b)
  BY <1>2 DEF SellsItsOwn
<1> QED
  BY <1>4, <1>5, <1>6, <1>7, <1>8 DEF DeskTypes, BotTypes

\* What may be under way, or at rest, may still when more tokens are minted.
LEMMA MoreMinted ==
  ASSUME minted \in Nat, minted' \in Nat, minted <= minted', broker' = broker
  PROVE  UnderWay \subseteq UnderWay' /\ Rested \subseteq Rested'
<1>1. 0..minted \subseteq 0..minted' /\ 1..minted \subseteq 1..minted'
  OBVIOUS
<1>2. Rested \subseteq Rested'
  BY <1>1 DEF Rested
<1>3. Cancels \subseteq Cancels'
  BY <1>2 DEF Cancels
<1>4. Orders \subseteq Orders'
  BY <1>1 DEF Orders, Kinds
<1> QED
  BY <1>2, <1>3, <1>4 DEF UnderWay

\* A preview: its token is numbered and dated.
LEMMA MintTypes ==
  ASSUME TokenTypes, clock \in Nat, life \in Nat, broker' = broker,
         NEW terms \in TermSet, MintToken(terms), life' = life
  PROVE  TokenTypes' /\ minted' \in Nat /\ minted <= minted'
<1> DEFINE t == [id |-> minted + 1, terms |-> terms, exp |-> clock + TTL, life |-> life]
<1>1. /\ minted' = minted + 1 /\ shown' = shown \cup {t} /\ sent' = sent
  BY DEF MintToken
<1>2. minted \in Nat /\ TTL \in Nat
  BY DeskAssumption DEF TokenTypes, DInv, PreviewsAreNumbered
<1>3. 1..minted \subseteq 1..minted' /\ minted + 1 \in 1..minted'
  BY <1>1, <1>2
<1>4. TermSet' = TermSet
  BY DEF TermSet, Kinds
<1>5. t \in Previews'
  BY <1>2, <1>3, <1>4 DEF Previews
<1>6. Previews \subseteq Previews' /\ Sent \subseteq Sent'
  BY <1>3, <1>4 DEF Previews, Sent
<1>7. DInv'
  BY MintKeeps DEF TokenTypes
<1> QED
  BY <1>1, <1>2, <1>5, <1>6, <1>7 DEF TokenTypes

LEMMA ConsumeTypes ==
  ASSUME TokenTypes, broker' = broker, NEW tok, ConsumeToken(tok), UNCHANGED <<minted, shown, sent, life>>
  PROVE  TokenTypes' /\ minted' \in Nat /\ minted <= minted'
<1>1. DInv'
  BY ConsumeKeeps DEF TokenTypes
<1>2. minted \in Nat
  BY DEF TokenTypes, DInv, PreviewsAreNumbered
<1>3. TermSet' = TermSet
  BY DEF TermSet, Kinds
<1> QED
  BY <1>1, <1>2, <1>3 DEF TokenTypes, Previews, Sent

LEMMA ConfirmTypes ==
  ASSUME TokenTypes, clock \in Nat, life \in Nat, broker' = broker,
         NEW tok, NEW terms \in TermSet, NEW cost \in Nat,
         Valid(tok, terms), ConsumeToken(tok), Record(tok, terms, cost), UNCHANGED <<minted, shown, life>>
  PROVE  TokenTypes' /\ minted' \in Nat /\ minted <= minted'
<1> DEFINE s0 == [no |-> Cardinality(sent) + 1, tok |-> tok, terms |-> terms,
                  cost |-> cost, at |-> clock, life |-> life]
<1>1. sent' = sent \cup {s0}
  BY DEF Record
<1>2. DInv' 
  BY ConfirmKeeps DEF TokenTypes
<1>3. minted \in Nat /\ Cardinality(sent) + 1 \in Nat \ {0} /\ IsFiniteSet(sent \cup {s0})
  <2>1. IsFiniteSet(sent) /\ minted \in Nat
    BY DEF TokenTypes, DInv, PreviewsAreNumbered
  <2>2. Cardinality(sent) \in Nat
    BY <2>1, FS_CardinalityType
  <2>3. IsFiniteSet(sent \cup {s0})
    BY <2>1, FS_AddElement
  <2> QED
    BY <2>1, <2>2, <2>3
<1>4. tok \in 1..minted
  <2>1. PICK u \in tokens : u.id = tok
    BY DEF Valid
  <2>2. u \in Previews
    BY <2>1 DEF TokenTypes, DInv, TokensAreShown
  <2> QED
    BY <2>1, <2>2 DEF Previews
<1>5. TermSet' = TermSet
  BY DEF TermSet, Kinds
<1>6. s0 \in Sent
  BY <1>3, <1>4 DEF Sent
<1> QED
  BY <1>1, <1>2, <1>3, <1>5, <1>6 DEF TokenTypes, Previews, Sent

LEMMA SafeTypes ==
  ASSUME TokenTypes, broker' = broker, UNCHANGED safe, UNCHANGED life
  PROVE  TokenTypes' /\ minted' \in Nat /\ minted <= minted'
<1>1. DInv'
  BY SafeKeeps DEF TokenTypes
<1>2. minted \in Nat
  BY DEF TokenTypes, DInv, PreviewsAreNumbered
<1>3. TermSet' = TermSet
  BY DEF TermSet, Kinds
<1> QED
  BY <1>1, <1>2, <1>3 DEF TokenTypes, Previews, Sent, safe

LEMMA SpendTypes ==
  ASSUME NEW e \in Events, left \in [Events -> Nat], Spend(e)
  PROVE  left' \in [Events -> Nat]
<1>1. left[e] \in Nat /\ left[e] > 0
  BY DEF Spend
<1>2. left[e] - 1 \in Nat
  BY <1>1
<1>3. left' = [left EXCEPT ![e] = left[e] - 1]
  BY DEF Spend
<1> QED
  BY <1>2, <1>3

LEMMA WorldStays ==
  ASSUME WorldTypes, minted \in Nat, minted' \in Nat, minted <= minted',
         UNCHANGED <<broker, switches, exchange, dayPnl, clock, life>>, left' \in [Events -> Nat]
  PROVE  WorldTypes'
<1>1. Rested \subseteq Rested'
  BY MoreMinted
<1> QED
  BY <1>1 DEF WorldTypes, switches, exchange

LEMMA BotsStay == ASSUME BotTypes, UNCHANGED <<ledger, fill>> PROVE BotTypes'
BY DEF BotTypes, Fills, Asked, Sending, Answered, Sides, SellsItsOwn

LEMMA CallTypes ==
  ASSUME call \in [Calls -> UnderWay], minted \in Nat, minted' \in Nat, minted <= minted', broker' = broker,
         NEW c \in Calls, NEW v \in UnderWay', call' = [call EXCEPT ![c] = v]
  PROVE  call' \in [Calls -> UnderWay']
<1>1. UnderWay \subseteq UnderWay'
  BY MoreMinted
<1>2. call \in [Calls -> UnderWay']
  BY <1>1
<1> HIDE DEF UnderWay
<1> QED
  BY <1>2

LEMMA CallsStay ==
  ASSUME call \in [Calls -> UnderWay], minted \in Nat, minted' \in Nat, minted <= minted', broker' = broker,
         call' = call
  PROVE  call' \in [Calls -> UnderWay']
<1>1. UnderWay \subseteq UnderWay'
  BY MoreMinted
<1> QED
  BY <1>1

LEMMA MintedNat == ASSUME TokenTypes PROVE minted \in Nat
BY DEF TokenTypes, DInv, PreviewsAreNumbered

\* A step of a call that leaves the tokens alone, and what it is to be.
LEMMA StepOfCall ==
  ASSUME DeskTypes, NEW c \in Calls, NEW v \in UnderWay, call' = [call EXCEPT ![c] = v],
         UNCHANGED <<broker, switches, exchange, trades, clock, life, safe, fill>>, left' \in [Events -> Nat]
  PROVE  DeskTypes'
<1>1. TokenTypes' /\ minted' \in Nat /\ minted \in Nat /\ minted <= minted'
  BY SafeTypes, MintedNat DEF DeskTypes
<1>2. WorldTypes'
  BY <1>1, WorldStays DEF DeskTypes, trades
<1>3. BotTypes'
  BY BotsStay DEF DeskTypes, trades
<1>4. v \in UnderWay'
  BY <1>1, MoreMinted
<1>5. call' \in [Calls -> UnderWay']
  BY <1>1, <1>4, CallTypes DEF DeskTypes
<1> QED
  BY <1>1, <1>2, <1>3, <1>5 DEF DeskTypes

LEMMA ReceiveTypes == ASSUME DeskTypes, NEW c \in Calls, Receive(c) PROVE DeskTypes'
<1>1. PICK kind \in Kinds, qty \in 1..MaxQty, tok \in NoToken..minted :
        call' = [call EXCEPT ![c] = [at |-> FirstAwait(kind), kind |-> kind, qty |-> qty,
                                     tok |-> tok, env |-> env, price |-> 0, held |-> 0]]
  BY DEF Receive
<1>2. Spend("call") /\ UNCHANGED <<broker, switches, exchange, trades, clock, life, safe, fill>>
  BY DEF Receive
<1>3. left' \in [Events -> Nat]
  BY <1>2, SpendTypes DEF DeskTypes, WorldTypes, Events
<1>4. FirstAwait(kind) \in {"held", "amount", "price"} /\ (FirstAwait(kind) = "amount" => kind = "amount")
  BY DEF FirstAwait
<1>5. MaxQty \in Nat /\ qty \in Nat \ {0} /\ tok \in 0..minted /\ env \in Envs
  BY DeskAssumption DEF NoToken, DeskTypes, WorldTypes
<1> DEFINE v == [at |-> FirstAwait(kind), kind |-> kind, qty |-> qty,
                 tok |-> tok, env |-> env, price |-> 0, held |-> 0]
<1>6. v \in Orders /\ v.at # "sent" /\ (v.at = "amount" => v.kind = "amount")
  BY <1>4, <1>5 DEF Orders
<1>7. v \in UnderWay
  BY <1>6 DEF UnderWay, Coherent
<1>8. call' = [call EXCEPT ![c] = v]
  BY <1>1
<1> HIDE DEF v
<1> QED
  BY <1>2, <1>3, <1>7, <1>8, StepOfCall

LEMMA IdleTypes == Idle \in UnderWay
BY DEF UnderWay

\* A call that is not idle and not a cancellation is an order.
LEMMA CallIsOrder ==
  ASSUME DeskTypes, NEW c \in Calls,
         call[c].at \in {"held", "listed", "price", "size", "sellable", "amount", "sent"}
  PROVE  /\ call[c] \in Orders
         /\ call[c].at = "sent" => call[c].tok # NoToken
         /\ call[c].at = "amount" => call[c].kind = "amount"
<1>1. call[c] \in UnderWay
  BY DEF DeskTypes
<1>2. call[c] # Idle
  BY DEF Idle
<1>3. call[c] \notin Cancels
  BY DEF Cancels
<1>4. call[c] \in Orders /\ Coherent(call[c])
  BY <1>1, <1>2, <1>3 DEF UnderWay
<1> QED
  BY <1>4 DEF Coherent

\* An order goes on to another await, which is not yet its sending.
LEMMA GoesOn ==
  ASSUME DeskTypes, NEW c \in Calls, call[c] \in Orders,
         NEW stage \in {"held", "listed", "price", "size", "sellable"},
         Go(c, stage), UNCHANGED <<broker, switches, exchange, trades, clock, life, safe, fill>>,
         left' \in [Events -> Nat]
  PROVE  DeskTypes'
<1> DEFINE v == [call[c] EXCEPT !.at = stage]
<1>1. v \in Orders /\ v.at \notin {"sent", "amount"}
  BY DEF Orders
<1>2. v \in UnderWay
  BY <1>1 DEF UnderWay, Coherent
<1>3. call' = [call EXCEPT ![c] = v]
  BY DEF Go
<1> HIDE DEF v
<1> QED
  BY <1>2, <1>3, StepOfCall

LEMMA Refuses ==
  ASSUME DeskTypes, NEW c \in Calls, Refuse(c),
         UNCHANGED <<broker, switches, exchange, trades, clock, life, fill>>, left' \in [Events -> Nat]
  PROVE  DeskTypes'
<1>1. call' = [call EXCEPT ![c] = Idle] /\ UNCHANGED safe
  BY DEF Refuse, End
<1> QED
  BY <1>1, IdleTypes, StepOfCall

LEMMA HeldSeenTypes == ASSUME DeskTypes, NEW c \in Calls, HeldSeen(c) PROVE DeskTypes'
<1>1. call[c].at = "held" /\ UNCHANGED <<broker, switches, exchange, trades, clock, life, fill>> /\ left' = left
  BY DEF HeldSeen, Quiet
<1>2. call[c] \in Orders
  BY <1>1, CallIsOrder
<1>3. left' \in [Events -> Nat]
  BY <1>1 DEF DeskTypes, WorldTypes
<1>4. CASE call[c].qty <= free[call[c].env]
  <2> DEFINE v == [call[c] EXCEPT !.at = "listed", !.held = free[call[c].env]]
  <2>1. call' = [call EXCEPT ![c] = v] /\ UNCHANGED safe
    BY <1>4 DEF HeldSeen, DeskTypes
  <2>2. free[call[c].env] \in Nat
    BY <1>2 DEF DeskTypes, WorldTypes, Orders
  <2>3. v \in Orders /\ v.at \notin {"sent", "amount"}
    BY <1>2, <2>2 DEF Orders
  <2>4. v \in UnderWay
    BY <2>3 DEF UnderWay, Coherent
  <2> HIDE DEF v
  <2> QED
    BY <1>1, <1>3, <2>1, <2>4, StepOfCall
<1>5. CASE ~(call[c].qty <= free[call[c].env])
  BY <1>1, <1>3, <1>5, Refuses DEF HeldSeen
<1> QED
  BY <1>4, <1>5

LEMMA OcoSeenTypes == ASSUME DeskTypes, NEW c \in Calls, OcoSeen(c) PROVE DeskTypes'
<1>1. call[c].at = "listed" /\ UNCHANGED <<broker, switches, exchange, trades, clock, life, fill>>
  BY DEF OcoSeen, Quiet
<1>2. call[c] \in Orders
  BY <1>1, CallIsOrder
<1>3. left' = left \/ Spend("query")
  BY DEF OcoSeen
<1>4. left' \in [Events -> Nat]
  BY <1>3, SpendTypes DEF DeskTypes, WorldTypes, Events
<1>5. Refuse(c) \/ (Go(c, "price") /\ UNCHANGED safe)
  BY DEF OcoSeen
<1> QED
  BY <1>1, <1>2, <1>4, <1>5, Refuses, GoesOn

LEMMA PriceSeenTypes == ASSUME DeskTypes, NEW c \in Calls, PriceSeen(c) PROVE DeskTypes'
<1>1. call[c].at = "price" /\ UNCHANGED <<broker, switches, exchange, trades, clock, life, fill>> /\ left' = left
  BY DEF PriceSeen, Quiet
<1>2. call[c] \in Orders
  BY <1>1, CallIsOrder
<1>3. left' \in [Events -> Nat]
  BY <1>1 DEF DeskTypes, WorldTypes
<1>4. Refuse(c) \/ (call' = [call EXCEPT ![c].at = "size", ![c].price = px] /\ UNCHANGED safe)
  BY DEF PriceSeen
<1>5. ASSUME call' = [call EXCEPT ![c].at = "size", ![c].price = px], UNCHANGED safe PROVE DeskTypes'
  <2> DEFINE v == [call[c] EXCEPT !.at = "size", !.price = px]
  <2>1. call' = [call EXCEPT ![c] = v]
    BY <1>5 DEF DeskTypes
  <2>2. px \in Nat
    BY DeskAssumption DEF DeskTypes, WorldTypes
  <2>3. v \in Orders /\ v.at \notin {"sent", "amount"}
    BY <1>2, <2>2 DEF Orders
  <2>4. v \in UnderWay
    BY <2>3 DEF UnderWay, Coherent
  <2> HIDE DEF v
  <2> QED
    BY <1>1, <1>3, <1>5, <2>1, <2>4, StepOfCall
<1> QED
  BY <1>1, <1>3, <1>4, <1>5, Refuses

LEMMA PriceFailsTypes == ASSUME DeskTypes, NEW c \in Calls, PriceFails(c) PROVE DeskTypes'
<1>1. call[c].at = "price" /\ UNCHANGED <<broker, switches, exchange, trades, clock, life, fill>> /\ Spend("query")
  BY DEF PriceFails, Quiet
<1>2. call[c] \in Orders
  BY <1>1, CallIsOrder
<1>3. left' \in [Events -> Nat]
  BY <1>1, SpendTypes DEF DeskTypes, WorldTypes, Events
<1>4. Refuse(c) \/ (Go(c, "size") /\ UNCHANGED safe)
  BY DEF PriceFails
<1> QED
  BY <1>1, <1>2, <1>3, <1>4, Refuses, GoesOn

\* A raised quantity is a quantity: normalizeQuantity.
LEMMA NormalIs == ASSUME NEW qty \in Nat, NEW price \in Nat PROVE Normal(qty, price) \in Nat /\ (qty > 0 => Normal(qty, price) > 0)
<1>1. MinNotional \in Nat
  BY DeskAssumption
<1>2. CASE price > 0 /\ qty * price < MinNotional
  <2>1. qty * price \in Nat
    OBVIOUS
  <2>2. MinNotional > 0
    BY <1>1, <1>2, <2>1
  <2>3. MinNotional + price - 1 \in Nat /\ MinNotional + price - 1 >= price
    BY <1>1, <1>2, <2>2
  <2>4. PICK m \in Nat : m = MinNotional + price - 1
    BY <2>3
  <2>5. m \div price \in Nat /\ m \div price >= 1
    BY <1>2, <2>3, <2>4
  <2>6. CeilDiv(MinNotional, price) \in Nat /\ CeilDiv(MinNotional, price) > 0
    BY <2>4, <2>5 DEF CeilDiv
  <2> QED
    BY <2>6 DEF Normal
<1>3. CASE ~(price > 0 /\ qty * price < MinNotional)
  BY <1>3 DEF Normal
<1> QED
  BY <1>2, <1>3

\* What is presented: a preview, a confirmation, or neither.
LEMMA PresentTypes ==
  ASSUME DeskTypes, NEW c \in Calls, call[c] \in Orders, NEW terms \in TermSet, terms.qty > 0,
         NEW cost \in Nat, Present(c, terms, cost),
         UNCHANGED <<broker, switches, exchange, trades, clock, life, fill>>, left' = left
  PROVE  DeskTypes'
<1> DEFINE tok == call[c].tok
           v == [call[c] EXCEPT !.at = "sent", !.qty = terms.qty]
<1>1. clock \in Nat /\ life \in Nat /\ left' \in [Events -> Nat] /\ TokenTypes /\ minted \in Nat
  BY MintedNat DEF DeskTypes, WorldTypes
<1>2. ASSUME TokenTypes', minted' \in Nat, minted <= minted', NEW w \in UnderWay, call' = [call EXCEPT ![c] = w]
      PROVE  DeskTypes'
  <2>1. WorldTypes'
    BY <1>1, <1>2, WorldStays DEF DeskTypes, trades
  <2>2. BotTypes'
    BY BotsStay DEF DeskTypes, trades
  <2>3. w \in UnderWay'
    BY <1>1, <1>2, MoreMinted
  <2>4. call' \in [Calls -> UnderWay']
    BY <1>1, <1>2, <2>3, CallTypes DEF DeskTypes
  <2> QED
    BY <1>2, <2>1, <2>2, <2>4 DEF DeskTypes
<1>3. CASE tok = NoToken
  <2>1. MintToken(terms) /\ call' = [call EXCEPT ![c] = Idle]
    BY <1>3 DEF Present, End
  <2>2. TokenTypes' /\ minted' \in Nat /\ minted <= minted'
    BY <1>1, <2>1, MintTypes
  <2> QED
    BY <1>2, <2>1, <2>2, IdleTypes
<1>4. CASE tok # NoToken /\ Valid(tok, terms) /\ Writable(terms.env)
  <2>1. /\ ConsumeToken(tok) /\ Record(tok, terms, cost) /\ UNCHANGED <<minted, shown>>
        /\ call' = [call EXCEPT ![c].at = "sent", ![c].qty = terms.qty]
    BY <1>4 DEF Present
  <2>2. TokenTypes' /\ minted' \in Nat /\ minted <= minted'
    BY <1>1, <1>4, <2>1, ConfirmTypes
  <2>3. call' = [call EXCEPT ![c] = v]
    BY <2>1 DEF DeskTypes
  <2>4. terms.qty \in Nat \ {0}
    BY DEF TermSet
  <2>5. v \in Orders /\ v.tok # NoToken /\ v.at = "sent"
    BY <1>4, <2>4 DEF Orders
  <2>6. v \in UnderWay
    BY <2>5 DEF UnderWay, Coherent
  <2> HIDE DEF v, tok
  <2> QED
    BY <1>2, <2>2, <2>3, <2>6
<1>5. CASE tok # NoToken /\ ~(Valid(tok, terms) /\ Writable(terms.env))
  <2>1. /\ ConsumeToken(tok) /\ UNCHANGED <<minted, shown, sent>> /\ call' = [call EXCEPT ![c] = Idle]
    BY <1>5 DEF Present, End
  <2>2. TokenTypes' /\ minted' \in Nat /\ minted <= minted'
    BY <1>1, <2>1, ConsumeTypes
  <2> QED
    BY <1>2, <2>1, <2>2, IdleTypes
<1> QED
  BY <1>3, <1>4, <1>5

LEMMA TermsAre ==
  ASSUME NEW kind \in Kinds, NEW qty \in Nat, NEW e \in Envs
  PROVE  Terms(kind, qty, e) \in TermSet /\ Terms(kind, qty, e).qty = qty
BY DEF Terms, TermSet

LEMMA CheckTypes == ASSUME DeskTypes, NEW c \in Calls, Check(c) PROVE DeskTypes'
<1> DEFINE x    == call[c]
           eff  == Normal(x.qty, IF x.kind = "oco" THEN StopPrice ELSE x.price)
           cost == (IF x.kind = "oco" THEN TakeProfit ELSE x.price) * eff
<1>1. call[c].at = "size" /\ UNCHANGED <<broker, switches, exchange, trades, clock, life, fill>> /\ left' = left
  BY DEF Check, Quiet
<1>2. x \in Orders
  BY <1>1, CallIsOrder
<1>3. left' \in [Events -> Nat]
  BY <1>1 DEF DeskTypes, WorldTypes
<1>4. x.qty \in Nat /\ x.qty > 0 /\ x.price \in Nat /\ x.kind \in Kinds /\ x.env \in Envs
  BY <1>2 DEF Orders
<1>5. StopPrice \in Nat /\ TakeProfit \in Nat
  BY DeskAssumption
<1>6. eff \in Nat /\ eff > 0
  <2>1. (IF x.kind = "oco" THEN StopPrice ELSE x.price) \in Nat
    BY <1>4, <1>5
  <2> QED
    BY <1>4, <2>1, NormalIs
<1>7. \/ Refuse(c)
      \/ Go(c, "sellable") /\ UNCHANGED safe
      \/ Present(c, Terms(x.kind, eff, x.env), cost)
  BY DEF Check
<1> HIDE DEF eff
<1>8. cost \in Nat
  <2>1. (IF x.kind = "oco" THEN TakeProfit ELSE x.price) \in Nat
    BY <1>4, <1>5
  <2>2. \A a, b \in Nat : a * b \in Nat
    OBVIOUS
  <2> QED
    BY <1>6, <2>1, <2>2
<1>9. Terms(x.kind, eff, x.env) \in TermSet /\ Terms(x.kind, eff, x.env).qty > 0
  BY <1>4, <1>6, TermsAre
<1> HIDE DEF cost
<1> QED
  BY <1>1, <1>2, <1>3, <1>7, <1>8, <1>9, Refuses, GoesOn, PresentTypes

LEMMA SellableSeenTypes == ASSUME DeskTypes, NEW c \in Calls, SellableSeen(c) PROVE DeskTypes'
<1> DEFINE x == call[c]
<1>1. call[c].at = "sellable" /\ UNCHANGED <<broker, switches, exchange, trades, clock, life, fill>> /\ left' = left
  BY DEF SellableSeen, Quiet
<1>2. x \in Orders
  BY <1>1, CallIsOrder
<1>3. left' \in [Events -> Nat]
  BY <1>1 DEF DeskTypes, WorldTypes
<1>4. x.qty \in Nat /\ x.qty > 0 /\ x.price \in Nat /\ x.env \in Envs /\ "sell" \in Kinds
  BY <1>2 DEF Orders, Kinds
<1>5. Terms("sell", x.qty, x.env) \in TermSet /\ Terms("sell", x.qty, x.env).qty > 0 /\ x.price * x.qty \in Nat
  BY <1>4, TermsAre
<1>6. Refuse(c) \/ Present(c, Terms("sell", x.qty, x.env), x.price * x.qty)
  BY DEF SellableSeen
<1> QED
  BY <1>1, <1>2, <1>3, <1>5, <1>6, Refuses, PresentTypes

LEMMA CheckAmountTypes == ASSUME DeskTypes, NEW c \in Calls, CheckAmount(c) PROVE DeskTypes'
<1> DEFINE x == call[c]
<1>1. call[c].at = "amount" /\ UNCHANGED <<broker, switches, exchange, trades, clock, life, fill>> /\ left' = left
  BY DEF CheckAmount, Quiet
<1>2. x \in Orders /\ x.kind = "amount"
  BY <1>1, CallIsOrder
<1>3. left' \in [Events -> Nat]
  BY <1>1 DEF DeskTypes, WorldTypes
<1>4. x.qty \in Nat /\ x.qty > 0 /\ "amount" \in Kinds /\ x.env \in Envs
  BY <1>2 DEF Orders
<1>5. Terms("amount", x.qty, x.env) \in TermSet /\ Terms("amount", x.qty, x.env).qty > 0
  BY <1>4, TermsAre
<1>6. Refuse(c) \/ Present(c, Terms("amount", x.qty, x.env), x.qty)
  BY DEF CheckAmount
<1> QED
  BY <1>1, <1>2, <1>3, <1>4, <1>5, <1>6, Refuses, PresentTypes

\* What the exchange does with a call's request.
LEMMA AtTheExchange ==
  ASSUME DeskTypes, NEW c \in Calls, End(c), free' \in [Envs -> Nat], ocos' \subseteq Rested,
         UNCHANGED <<broker, switches, px, trades, clock, life, safe, fill, left>>
  PROVE  DeskTypes'
<1>1. TokenTypes' /\ minted' \in Nat /\ minted \in Nat /\ minted <= minted'
  BY SafeTypes, MintedNat DEF DeskTypes
<1>2. Rested \subseteq Rested' /\ Idle \in UnderWay'
  BY <1>1, MoreMinted, IdleTypes
<1>3. WorldTypes'
  BY <1>2 DEF DeskTypes, WorldTypes, switches, trades
<1>4. BotTypes'
  BY BotsStay DEF DeskTypes, trades
<1>5. call' = [call EXCEPT ![c] = Idle]
  BY DEF End
<1>6. call' \in [Calls -> UnderWay']
  BY <1>1, <1>2, <1>5, CallTypes DEF DeskTypes
<1> QED
  BY <1>1, <1>3, <1>4, <1>6 DEF DeskTypes

LEMMA ExecutedTypes == ASSUME DeskTypes, NEW c \in Calls, Executed(c) PROVE DeskTypes'
<1> DEFINE x   == call[c]
           acc == Account(x.env)
           has == x.qty <= free[acc]
           d   == CASE x.kind = "buy"    -> free[acc] + x.qty
                    [] x.kind = "amount" -> free[acc] + x.qty \div px
                    [] OTHER             -> IF has THEN free[acc] - x.qty ELSE free[acc]
<1>1. call[c].at = "sent" /\ End(c) /\ UNCHANGED <<broker, switches, px, trades, clock, life, safe, fill, left>>
  BY DEF Executed
<1>2. x \in Orders /\ x.tok # NoToken
  BY <1>1, CallIsOrder
<1>3. x.qty \in Nat /\ x.qty > 0 /\ x.env \in Envs /\ x.tok \in 1..minted
  <2>1. minted \in Nat
    BY MintedNat DEF DeskTypes
  <2> QED
    BY <1>2, <2>1 DEF Orders, NoToken
<1>4. acc \in Envs /\ free \in [Envs -> Nat] /\ px \in Nat \ {0}
  BY <1>3, DeskAssumption DEF Account, DeskTypes, WorldTypes, Envs
<1>5. /\ free' = [free EXCEPT ![acc] = d]
      /\ ocos' = IF x.kind = "oco" /\ has
                 THEN ocos \cup {[id |-> x.tok, env |-> x.env, qty |-> x.qty]} ELSE ocos
  BY <1>4 DEF Executed
<1>6. d \in Nat
  <2>1. PICK q \in Nat : q = free[acc]
    BY <1>4
  <2>2. x.qty \div px \in Nat
    BY <1>3, <1>4
  <2>3. has => q - x.qty \in Nat
    BY <1>3, <2>1
  <2>4. q + x.qty \in Nat /\ q + x.qty \div px \in Nat
    BY <1>3, <2>1, <2>2
  <2> QED
    BY <2>1, <2>3, <2>4
<1>7. free' \in [Envs -> Nat]
  <2> HIDE DEF d, acc
  <2> QED
    BY <1>4, <1>5, <1>6
<1>8. [id |-> x.tok, env |-> x.env, qty |-> x.qty] \in Rested
  BY <1>3 DEF Rested
<1>9. ocos' \subseteq Rested
  BY <1>5, <1>8 DEF DeskTypes, WorldTypes
<1> QED
  BY <1>1, <1>7, <1>9, AtTheExchange

LEMMA CancelStartsTypes == ASSUME DeskTypes, NEW c \in Calls, CancelStarts(c) PROVE DeskTypes'
<1>1. PICK o \in ocos : call' = [call EXCEPT ![c] = [at |-> "cancel", oco |-> o]]
  BY DEF CancelStarts
<1>2. Spend("cancel") /\ UNCHANGED <<broker, switches, exchange, trades, clock, life, safe, fill>>
  BY DEF CancelStarts, Quiet
<1>3. left' \in [Events -> Nat]
  BY <1>2, SpendTypes DEF DeskTypes, WorldTypes, Events
<1> DEFINE v == [at |-> "cancel", oco |-> o]
<1>4. v \in Cancels
  BY DEF DeskTypes, WorldTypes, Cancels
<1>5. v \in UnderWay
  BY <1>4 DEF UnderWay, Coherent
<1>6. call' = [call EXCEPT ![c] = v]
  BY <1>1
<1> HIDE DEF v
<1> QED
  BY <1>2, <1>3, <1>5, <1>6, StepOfCall

LEMMA CancelledTypes == ASSUME DeskTypes, NEW c \in Calls, Cancelled(c) PROVE DeskTypes'
<1> DEFINE o == call[c].oco
<1>1. call[c].at = "cancel" /\ End(c) /\ UNCHANGED <<broker, switches, px, trades, clock, life, safe, fill, left>>
  BY DEF Cancelled
<1>2. call[c] \in Cancels
  BY <1>1 DEF DeskTypes, UnderWay, Idle, Orders
<1>3. o.env \in Envs /\ o.qty \in Nat
  BY <1>2 DEF Cancels, Rested
<1>4. free \in [Envs -> Nat] /\ ocos \subseteq Rested
  BY DEF DeskTypes, WorldTypes
<1>5. \/ ocos' = ocos \ {o} /\ free' = [free EXCEPT ![o.env] = @ + o.qty]
      \/ UNCHANGED <<ocos, free>>
  BY DEF Cancelled
<1>6. free[o.env] + o.qty \in Nat
  BY <1>3, <1>4
<1>7. free' \in [Envs -> Nat] /\ ocos' \subseteq Rested
  BY <1>3, <1>4, <1>5, <1>6
<1> QED
  BY <1>1, <1>7, AtTheExchange

\* What a bot's step has to leave of its own.
LEMMA StepOfBot ==
  ASSUME BotTypes, NEW b \in Bots, NEW v \in Fills, NEW l \in Ledgers,
         v # Idle /\ v.side = "sell" => l.qty > 0,
         fill' = [fill EXCEPT ![b] = v], ledger' = [ledger EXCEPT ![b] = l]
  PROVE  BotTypes'
<1>1. fill' \in [Bots -> Fills] /\ ledger' \in [Bots -> Ledgers]
  BY DEF BotTypes
<1>2. Fills' = Fills /\ Ledgers' = Ledgers
  BY DEF Fills, Asked, Sending, Answered, Sides, Ledgers
<1>3. ASSUME NEW d \in Bots PROVE SellsItsOwn(d)'
  <2>1. CASE d = b
    <3>1. fill'[b] = v /\ ledger'[b] = l
      BY DEF BotTypes
    <3> QED
      BY <2>1, <3>1 DEF SellsItsOwn
  <2>2. CASE d # b
    <3>1. fill'[d] = fill[d] /\ ledger'[d] = ledger[d] /\ SellsItsOwn(d)
      BY <2>2 DEF BotTypes
    <3> QED
      BY <3>1 DEF SellsItsOwn
  <2> QED
    BY <2>1, <2>2
<1> QED
  BY <1>1, <1>2, <1>3 DEF BotTypes

\* A step of a bot touches neither tokens nor calls.
LEMMA BesideTheCalls ==
  ASSUME DeskTypes, BotTypes', UNCHANGED <<broker, switches, px, ocos, clock, life, safe, call>>,
         free' \in [Envs -> Nat], dayPnl' \in Int, left' \in [Events -> Nat]
  PROVE  DeskTypes'
<1>1. TokenTypes' /\ minted' \in Nat /\ minted \in Nat /\ minted <= minted'
  BY SafeTypes, MintedNat DEF DeskTypes
<1>2. Rested \subseteq Rested'
  BY <1>1, MoreMinted
<1>3. WorldTypes'
  BY <1>2 DEF DeskTypes, WorldTypes, switches
<1>4. call' \in [Calls -> UnderWay']
  BY <1>1, CallsStay DEF DeskTypes
<1> QED
  BY <1>1, <1>3, <1>4 DEF DeskTypes

LEMMA BotOrdersTypes == ASSUME DeskTypes, NEW b \in Bots, BotOrders(b) PROVE DeskTypes'
<1>1. /\ Spend("order")
      /\ UNCHANGED <<broker, switches, exchange, trades, clock, life, safe, call>>
  BY DEF BotOrders
<1>2. left' \in [Events -> Nat]
  BY <1>1, SpendTypes DEF DeskTypes, WorldTypes, Events
<1>3. px \in Nat /\ env \in Envs /\ MaxQty \in Nat
  BY DeskAssumption DEF DeskTypes, WorldTypes
<1>4. ledger[b] \in Ledgers /\ ledger[b].qty \in Nat
  BY DEF DeskTypes, BotTypes, Ledgers
<1>5. ledger' = [ledger EXCEPT ![b] = ledger[b]]
  BY <1>1 DEF DeskTypes, BotTypes, trades
<1>6. ASSUME NEW v \in Asked, fill' = [fill EXCEPT ![b] = v], v.side = "sell" => ledger[b].qty > 0
      PROVE  DeskTypes'
  <2>1. v \in Fills
    BY DEF Fills
  <2>2. BotTypes'
    BY <1>4, <1>5, <1>6, <2>1, StepOfBot DEF DeskTypes
  <2> QED
    BY <1>1, <1>2, <2>2, BesideTheCalls DEF DeskTypes, WorldTypes, exchange, trades
<1>7. ASSUME NEW qty \in 1..MaxQty,
             fill' = [fill EXCEPT ![b] = [at |-> "size", side |-> "buy", qty |-> qty, price |-> px, env |-> env]]
      PROVE  DeskTypes'
  <2> DEFINE v == [at |-> "size", side |-> "buy", qty |-> qty, price |-> px, env |-> env]
  <2>1. qty \in Nat
    BY <1>3
  <2>2. v \in Asked
    BY <1>3, <2>1 DEF Asked, Sides
  <2>3. fill' = [fill EXCEPT ![b] = v] /\ v.side # "sell"
    BY <1>7
  <2> HIDE DEF v
  <2> QED
    BY <1>6, <2>2, <2>3
<1>8. ASSUME ledger[b].qty > 0,
             fill' = [fill EXCEPT ![b] = [at |-> "size", side |-> "sell", qty |-> ledger[b].qty,
                                          price |-> px, env |-> env]]
      PROVE  DeskTypes'
  <2> DEFINE v == [at |-> "size", side |-> "sell", qty |-> ledger[b].qty, price |-> px, env |-> env]
  <2>1. v \in Asked
    BY <1>3, <1>4 DEF Asked, Sides
  <2>2. fill' = [fill EXCEPT ![b] = v]
    BY <1>8
  <2> HIDE DEF v
  <2> QED
    BY <1>6, <1>8, <2>1, <2>2
<1> QED
  BY <1>7, <1>8 DEF BotOrders

LEMMA BotChecksTypes == ASSUME DeskTypes, NEW b \in Bots, BotChecks(b) PROVE DeskTypes'
<1> DEFINE x  == fill[b]
           nq == Normal(x.qty, x.price)
           v  == IF Within(x.side, x.price * nq)
                 THEN [at |-> "send", side |-> x.side, qty |-> nq, env |-> x.env,
                       approved |-> IF master THEN x.price * nq ELSE 0]
                 ELSE Idle
<1>1. /\ fill[b].at = "size" /\ fill' = [fill EXCEPT ![b] = v]
      /\ UNCHANGED <<broker, switches, exchange, trades, clock, life, safe, call, left>>
  BY DEF BotChecks, BotQuiet
<1>2. x \in Asked
  BY <1>1 DEF DeskTypes, BotTypes, Fills, Idle, Sending, Answered
<1>3. x.qty \in Nat /\ x.price \in Nat /\ x.side \in Sides /\ x.env \in Envs /\ x # Idle
  BY <1>2 DEF Asked, Idle
<1>4. nq \in Nat
  BY <1>3, NormalIs
<1>5. x.price * nq \in Nat
  <2>1. \A i, j \in Nat : i * j \in Nat
    OBVIOUS
  <2> HIDE DEF nq
  <2> QED
    BY <1>3, <1>4, <2>1
<1> HIDE DEF nq
<1>6. v \in Fills
  <2>1. [at |-> "send", side |-> x.side, qty |-> nq, env |-> x.env,
         approved |-> IF master THEN x.price * nq ELSE 0] \in Sending
    BY <1>3, <1>4, <1>5 DEF Sending
  <2> QED
    BY <2>1 DEF Fills
<1>7. v # Idle => v.side = x.side
  OBVIOUS
<1>8. x.side = "sell" => ledger[b].qty > 0
  BY <1>3 DEF DeskTypes, BotTypes, SellsItsOwn
<1>9. ledger' = [ledger EXCEPT ![b] = ledger[b]] /\ ledger[b] \in Ledgers
  BY <1>1 DEF DeskTypes, BotTypes, trades
<1> HIDE DEF v
<1>10. BotTypes'
  BY <1>1, <1>6, <1>7, <1>8, <1>9, StepOfBot DEF DeskTypes
<1> QED
  BY <1>1, <1>10, BesideTheCalls DEF DeskTypes, WorldTypes, exchange, trades

LEMMA BotExecutedTypes == ASSUME DeskTypes, NEW b \in Bots, BotExecuted(b) PROVE DeskTypes'
<1> DEFINE x   == fill[b]
           has == x.side = "buy" \/ x.qty <= free[x.env]
           v   == IF has THEN [at |-> "answer", side |-> x.side, qty |-> x.qty,
                               cost |-> px * x.qty, approved |-> x.approved]
                  ELSE Idle
           d   == CASE ~has -> free[x.env] [] x.side = "buy" -> free[x.env] + x.qty
                    [] OTHER -> free[x.env] - x.qty
<1>1. /\ fill[b].at = "send" /\ fill' = [fill EXCEPT ![b] = v]
      /\ UNCHANGED <<broker, switches, px, ocos, trades, clock, life, safe, call, left>>
  BY DEF BotExecuted, BotQuiet
<1>2. x \in Sending
  BY <1>1 DEF DeskTypes, BotTypes, Fills, Idle, Asked, Answered
<1>3. x.qty \in Nat /\ x.side \in Sides /\ x.env \in Envs /\ x.approved \in Nat /\ x # Idle
  BY <1>2 DEF Sending, Idle
<1>4. px \in Nat /\ free \in [Envs -> Nat]
  BY DeskAssumption DEF DeskTypes, WorldTypes
<1>5. px * x.qty \in Nat
  BY <1>3, <1>4
<1>6. v \in Fills
  <2>1. [at |-> "answer", side |-> x.side, qty |-> x.qty, cost |-> px * x.qty, approved |-> x.approved] \in Answered
    BY <1>3, <1>5 DEF Answered
  <2> QED
    BY <2>1 DEF Fills
<1>7. v # Idle => v.side = x.side
  OBVIOUS
<1>8. x.side = "sell" => ledger[b].qty > 0
  BY <1>3 DEF DeskTypes, BotTypes, SellsItsOwn
<1>9. ledger' = [ledger EXCEPT ![b] = ledger[b]] /\ ledger[b] \in Ledgers
  BY <1>1 DEF DeskTypes, BotTypes, trades
<1>10. d \in Nat
  <2>1. PICK q \in Nat : q = free[x.env]
    BY <1>3, <1>4
  <2>2. has /\ x.side # "buy" => q - x.qty \in Nat
    BY <1>3, <2>1
  <2>3. q + x.qty \in Nat
    BY <1>3
  <2> QED
    BY <2>1, <2>2, <2>3
<1>11. free' \in [Envs -> Nat]
  <2>1. free' = [free EXCEPT ![x.env] = d]
    BY <1>3, <1>4 DEF BotExecuted
  <2> HIDE DEF d
  <2> QED
    BY <1>3, <1>4, <1>10, <2>1
<1> HIDE DEF v
<1>12. BotTypes'
  BY <1>1, <1>6, <1>7, <1>8, <1>9, StepOfBot DEF DeskTypes
<1> QED
  BY <1>1, <1>11, <1>12, BesideTheCalls DEF DeskTypes, WorldTypes, trades

LEMMA BookedTypes == ASSUME DeskTypes, NEW b \in Bots, Booked(b) PROVE DeskTypes'
<1> DEFINE x  == fill[b]
           l  == ledger[b]
           l2 == IF x.side = "sell" THEN [qty |-> 0, cost |-> 0, unseen |-> 0]
                 ELSE [qty |-> l.qty + x.qty, cost |-> l.cost + x.cost, unseen |-> l.unseen + Unseen(x)]
<1>1. /\ fill[b].at = "answer" /\ fill' = [fill EXCEPT ![b] = Idle]
      /\ dayPnl' = IF x.side = "sell" THEN dayPnl + x.cost - (l.cost * x.qty) \div l.qty ELSE dayPnl
      /\ UNCHANGED <<broker, switches, exchange, clock, life, safe, call, left>>
  BY DEF Booked
<1>2. ledger' = [ledger EXCEPT ![b] = l2]
  BY DEF Booked
<1>3. x \in Answered
  BY <1>1 DEF DeskTypes, BotTypes, Fills, Idle, Asked, Sending
<1>4. x.qty \in Nat /\ x.side \in Sides /\ x.cost \in Nat /\ x.approved \in Nat /\ x # Idle
  BY <1>3 DEF Answered, Idle
<1>5. l.qty \in Nat /\ l.cost \in Nat /\ l.unseen \in Nat /\ dayPnl \in Int
  BY DEF DeskTypes, BotTypes, WorldTypes, Ledgers
<1>6. x.side = "sell" => l.qty > 0
  BY <1>4 DEF DeskTypes, BotTypes, SellsItsOwn
<1>7. Unseen(x) \in Nat
  BY <1>4 DEF Unseen
<1>8. l2 \in Ledgers
  BY <1>4, <1>5, <1>7 DEF Ledgers
<1>9. dayPnl' \in Int
  <2>1. PICK m \in Nat : m = l.cost * x.qty
    BY <1>4, <1>5
  <2>2. l.qty > 0 => m \div l.qty \in Int
    BY <1>5
  <2> QED
    BY <1>1, <1>4, <1>5, <1>6, <2>1, <2>2
<1>10. Idle \in Fills
  BY DEF Fills
<1> HIDE DEF l2
<1>11. BotTypes'
  BY <1>1, <1>2, <1>8, <1>10, StepOfBot DEF DeskTypes
<1> QED
  BY <1>1, <1>9, <1>11, BesideTheCalls DEF DeskTypes, WorldTypes, exchange

LEMMA EnableLiveTypes == ASSUME DeskTypes, NEW tok, EnableLive(tok) PROVE DeskTypes'
<1>1. /\ Spend("switch")
      /\ UNCHANGED <<broker, halt, env, exchange, trades, clock, life, call, fill>>
  BY DEF EnableLive
<1>2. left' \in [Events -> Nat] /\ clock \in Nat /\ life \in Nat /\ TokenTypes /\ minted \in Nat
  BY <1>1, SpendTypes, MintedNat DEF DeskTypes, WorldTypes, Events
<1>3. EnableTerms \in TermSet
  BY DEF EnableTerms, Terms, TermSet
<1>4. master' \in BOOLEAN /\ TokenTypes' /\ minted' \in Nat /\ minted <= minted'
  <2>1. CASE tok = NoToken
    <3>1. MintToken(EnableTerms) /\ master' = master
      BY <2>1 DEF EnableLive
    <3> QED
      BY <1>1, <1>2, <1>3, <3>1, MintTypes DEF DeskTypes, WorldTypes
  <2>2. CASE tok # NoToken /\ Valid(tok, EnableTerms)
    <3>1. /\ ConsumeToken(tok) /\ UNCHANGED <<minted, shown>>
          /\ master' = TRUE /\ Record(tok, EnableTerms, 0)
      BY <2>2 DEF EnableLive
    <3> QED
      BY <1>1, <1>2, <1>3, <2>2, <3>1, ConfirmTypes
  <2>3. CASE tok # NoToken /\ ~Valid(tok, EnableTerms)
    <3>1. ConsumeToken(tok) /\ UNCHANGED <<minted, shown, sent>> /\ master' = master
      BY <2>3 DEF EnableLive
    <3> QED
      BY <1>1, <1>2, <3>1, ConsumeTypes DEF DeskTypes, WorldTypes
  <2> QED
    BY <2>1, <2>2, <2>3
<1>5. Rested \subseteq Rested'
  BY <1>1, <1>2, <1>4, MoreMinted
<1>6. WorldTypes'
  BY <1>1, <1>2, <1>4, <1>5 DEF DeskTypes, WorldTypes, exchange, trades
<1>7. BotTypes'
  BY <1>1, BotsStay DEF DeskTypes, trades
<1>8. call' \in [Calls -> UnderWay']
  BY <1>1, <1>2, <1>4, CallsStay DEF DeskTypes
<1> QED
  BY <1>4, <1>6, <1>7, <1>8 DEF DeskTypes

LEMMA CrashTypes == ASSUME DeskTypes, Crash PROVE DeskTypes'
<1>1. /\ Spend("crash") /\ life' = life + 1 /\ tokens' = {} /\ halt' = FALSE
      /\ call' = [c \in Calls |-> Idle] /\ fill' = [b \in Bots |-> Idle]
      /\ UNCHANGED <<broker, master, env, exchange, trades, clock, minted, shown, sent>>
  BY DEF Crash
<1>2. left' \in [Events -> Nat]
  BY <1>1, SpendTypes DEF DeskTypes, WorldTypes, Events
<1>3. DInv'
  BY <1>1 DEF DeskTypes, TokenTypes, DInv, TokensAreShown, PreviewsAreNumbered, SentIsShown, SentIsSpent
<1>4. minted \in Nat
  BY MintedNat DEF DeskTypes
<1>5. Rested \subseteq Rested'
  BY <1>1, <1>4, MoreMinted
<1>6. WorldTypes'
  <2>0. life \in Nat
    BY DEF DeskTypes, WorldTypes
  <2>a. life' \in Nat
    BY <1>1, <2>0
  <2>b. halt' \in BOOLEAN
    BY <1>1
  <2>1. halt' \in BOOLEAN /\ life' \in Nat
    BY <2>a, <2>b
  <2>2. UNCHANGED <<broker, master, env, px, free, ocos, dayPnl, clock>>
    BY <1>1 DEF exchange, trades
  <2> QED
    BY <1>2, <1>5, <2>1, <2>2 DEF DeskTypes, WorldTypes
<1>7. TokenTypes'
  <2>1. Previews' = Previews /\ Sent' = Sent
    BY <1>1 DEF Previews, Sent, TermSet, Kinds
  <2> QED
    BY <1>1, <1>3, <2>1 DEF DeskTypes, TokenTypes
<1>8. call' \in [Calls -> UnderWay']
  BY <1>1 DEF UnderWay
<1>9. BotTypes'
  BY <1>1 DEF DeskTypes, BotTypes, Fills, SellsItsOwn, trades, Ledgers
<1> QED
  BY <1>6, <1>7, <1>8, <1>9 DEF DeskTypes

\* A turn of a switch, of the market or of the clock.
LEMMA AroundTypes ==
  ASSUME DeskTypes, DisableLive \/ TurnHalt \/ TurnEnv \/ Tick \/ NewDay \/ PriceMoves \/ OcoFires
  PROVE  DeskTypes'
<1>1. UNCHANGED <<broker, free, ledger, life, safe, call, fill>>
  BY DEF DisableLive, TurnHalt, TurnEnv, Tick, NewDay, PriceMoves, OcoFires, exchange, trades
<1>2. \E e \in Events : Spend(e)
  BY DEF DisableLive, TurnHalt, TurnEnv, Tick, NewDay, PriceMoves, OcoFires, Events
<1>3. left' \in [Events -> Nat]
  BY <1>2, SpendTypes DEF DeskTypes, WorldTypes
<1>4. halt' \in BOOLEAN /\ master' \in BOOLEAN
  BY DEF DisableLive, TurnHalt, TurnEnv, Tick, NewDay, PriceMoves, OcoFires, switches, DeskTypes, WorldTypes
<1>5. env' \in Envs
  BY DEF DisableLive, TurnHalt, TurnEnv, Tick, NewDay, PriceMoves, OcoFires, switches, DeskTypes, WorldTypes
<1>6. px' \in Prices /\ ocos' \subseteq ocos
  BY DEF DisableLive, TurnHalt, TurnEnv, Tick, NewDay, PriceMoves, OcoFires, exchange, DeskTypes, WorldTypes
<1>7. clock' \in Nat /\ dayPnl' \in Int
  BY DEF DisableLive, TurnHalt, TurnEnv, Tick, NewDay, PriceMoves, OcoFires, trades, DeskTypes, WorldTypes
<1>8. TokenTypes' /\ minted' \in Nat /\ minted \in Nat /\ minted <= minted'
  BY <1>1, SafeTypes, MintedNat DEF DeskTypes
<1>9. Rested \subseteq Rested'
  BY <1>1, <1>8, MoreMinted
<1>10. WorldTypes'
  BY <1>1, <1>3, <1>4, <1>5, <1>6, <1>7, <1>9 DEF DeskTypes, WorldTypes
<1>11. BotTypes'
  BY <1>1, BotsStay DEF DeskTypes
<1>12. call' \in [Calls -> UnderWay']
  BY <1>1, <1>8, CallsStay DEF DeskTypes
<1> QED
  BY <1>8, <1>10, <1>11, <1>12 DEF DeskTypes

LEMMA StepTypes == DeskTypes /\ [Next]_vars => DeskTypes'
<1> SUFFICES ASSUME DeskTypes, [Next]_vars PROVE DeskTypes'
  OBVIOUS
<1>1. ASSUME NEW c \in Calls,
             \/ Receive(c) \/ HeldSeen(c) \/ OcoSeen(c) \/ PriceSeen(c) \/ PriceFails(c)
             \/ Check(c) \/ SellableSeen(c) \/ CheckAmount(c) \/ Executed(c)
             \/ CancelStarts(c) \/ Cancelled(c)
      PROVE  DeskTypes'
  BY <1>1, ReceiveTypes, HeldSeenTypes, OcoSeenTypes, PriceSeenTypes, PriceFailsTypes, CheckTypes,
     SellableSeenTypes, CheckAmountTypes, ExecutedTypes, CancelStartsTypes, CancelledTypes
<1>2. ASSUME NEW b \in Bots, BotOrders(b) \/ BotChecks(b) \/ BotExecuted(b) \/ Booked(b)
      PROVE  DeskTypes'
  BY <1>2, BotOrdersTypes, BotChecksTypes, BotExecutedTypes, BookedTypes
<1>3. ASSUME NEW tok \in NoToken..minted, EnableLive(tok) PROVE DeskTypes'
  BY <1>3, EnableLiveTypes
<1>4. CASE UNCHANGED vars
  <2>1. UNCHANGED <<broker, switches, exchange, trades, clock, life, safe, call, fill, left>>
    BY <1>4 DEF vars
  <2>2. BotTypes'
    BY <2>1, BotsStay DEF DeskTypes, trades
  <2> QED
    BY <2>1, <2>2, BesideTheCalls DEF DeskTypes, WorldTypes, exchange, trades
<1> QED
  BY <1>1, <1>2, <1>3, <1>4, AroundTypes, CrashTypes DEF Next

\* The types of the desk's state, for any number of calls and bots, all prices,
\* limits, lives of a token and budgets of events; no account and no bot's holding
\* of the trades is ever negative.
THEOREM OrderTypes == Spec => []TypeOK
<1> QED
  BY TypesAtFirst, StepTypes, TypesAreTypes, PTL DEF Spec

-----------------------------------------------------------------------------
(* The budget: every buy that has passed the limits is counted from then on,   *)
(* at what the limits were shown, until the trades count it at its cost.       *)

\* A buy between the limits and the trades.
Approved(x) == IF x # Idle /\ x.at \in {"send", "answer"} /\ x.side = "buy" THEN x.approved ELSE 0

Costs(l) == [b \in Bots |-> l[b].cost]
Surprises(l) == [b \in Bots |-> l[b].unseen]
Counted(l, f) == [b \in Bots |-> l[b].cost - l[b].unseen + Approved(f[b])]

Slack == TotalCap + (Cardinality(Bots) - 1) * Cap
BudgetKept(l, f) ==
  /\ \A b \in Bots : l[b].unseen <= l[b].cost /\ Approved(f[b]) <= Cap
  /\ Total(Counted(l, f), Bots) <= Slack
BudgetInv == BudgetKept(ledger, fill)

LEMMA DeployedIs == Deployed = Total(Costs(ledger), Bots)
BY DEF Total, MapThenSumSet, MapThenFoldSet, Deployed, Costs
LEMMA SurprisesAre == MapThenSumSet(LAMBDA b : ledger[b].unseen, Bots) = Total(Surprises(ledger), Bots)
BY DEF Total, MapThenSumSet, MapThenFoldSet, Surprises

LEMMA ApprovedNat == ASSUME NEW x \in Fills PROVE Approved(x) \in Nat
<1>1. CASE x # Idle /\ x.at \in {"send", "answer"}
  <2>1. x \in Sending \cup Answered
    BY <1>1 DEF Fills, Asked
  <2>2. x.approved \in Nat
    BY <2>1 DEF Sending, Answered
  <2> QED
    BY <2>2 DEF Approved
<1>2. CASE ~(x # Idle /\ x.at \in {"send", "answer"})
  BY <1>2 DEF Approved
<1> QED
  BY <1>1, <1>2

LEMMA CountedTypes ==
  ASSUME NEW l \in [Bots -> Ledgers], NEW f \in [Bots -> Fills]
  PROVE  /\ \A b \in Bots : l[b].cost \in Nat /\ l[b].unseen \in Nat /\ Approved(f[b]) \in Nat
         /\ Counted(l, f) \in [Bots -> Int] /\ Costs(l) \in [Bots -> Int] /\ Surprises(l) \in [Bots -> Int]
<1>1. ASSUME NEW b \in Bots PROVE l[b].cost \in Nat /\ l[b].unseen \in Nat
  BY DEF Ledgers
<1>2. ASSUME NEW b \in Bots PROVE Approved(f[b]) \in Nat
  BY ApprovedNat
<1>3. ASSUME NEW b \in Bots PROVE l[b].cost - l[b].unseen + Approved(f[b]) \in Int
  BY <1>1, <1>2
<1>4. Counted(l, f) \in [Bots -> Int]
  BY <1>3 DEF Counted
<1>5. Costs(l) \in [Bots -> Int] /\ Surprises(l) \in [Bots -> Int]
  BY <1>1 DEF Costs, Surprises
<1> QED
  BY <1>1, <1>2, <1>4, <1>5

LEMMA BotsFinite == IsFiniteSet(Bots) /\ Cardinality(Bots) \in Nat /\ Cardinality(Bots) >= 1
<1>1. IsFiniteSet(Bots) /\ Bots # {}
  BY DeskAssumption
<1>2. Cardinality(Bots) \in Nat /\ Cardinality(Bots) # 0
  BY <1>1, FS_CardinalityType, FS_EmptySet
<1> QED
  BY <1>1, <1>2

LEMMA SlackInt == Slack \in Int /\ Slack >= 0 /\ Cap \in Nat /\ TotalCap \in Nat
<1>1. Cap \in Nat /\ TotalCap \in Nat
  BY DeskAssumption
<1>2. PICK n \in Nat : n = Cardinality(Bots) - 1
  BY BotsFinite
<1>3. n * Cap \in Nat
  BY <1>1, <1>2
<1> QED
  BY <1>1, <1>2, <1>3 DEF Slack

\* What is counted bounds what is deployed.
LEMMA BudgetOfCount == ASSUME DeskTypes, BudgetInv PROVE BudgetHolds
<1> DEFINE C == Counted(ledger, fill)
           K == Costs(ledger)
           S == Surprises(ledger)
           both == [b \in Bots |-> C[b] + S[b]]
<1>0. ledger \in [Bots -> Ledgers] /\ fill \in [Bots -> Fills]
  BY DEF DeskTypes, BotTypes
<1>1. C \in [Bots -> Int] /\ S \in [Bots -> Int] /\ K \in [Bots -> Int]
  BY <1>0, CountedTypes
<1>2. both \in [Bots -> Int]
  BY <1>1
<1>3. ASSUME NEW b \in Bots PROVE K[b] <= both[b]
  <2>1. ledger[b].cost \in Nat /\ ledger[b].unseen \in Nat /\ Approved(fill[b]) \in Nat
    BY <1>0, CountedTypes
  <2>2. K[b] = ledger[b].cost /\ both[b] = ledger[b].cost - ledger[b].unseen + Approved(fill[b]) + ledger[b].unseen
    BY DEF Costs, Counted, Surprises
  <2> QED
    BY <2>1, <2>2
<1>4. Total(C, Bots) <= Slack
  BY DEF BudgetInv, BudgetKept
<1>5. Deployed = Total(K, Bots) /\ MapThenSumSet(LAMBDA b : ledger[b].unseen, Bots) = Total(S, Bots)
  BY DeployedIs, SurprisesAre
<1> HIDE DEF C, S, K
<1>6. Total(both, Bots) = Total(C, Bots) + Total(S, Bots)
  BY <1>1, BotsFinite, TotalPlus
<1> HIDE DEF both
<1>7. Total(K, Bots) <= Total(both, Bots)
  BY <1>1, <1>2, <1>3, BotsFinite, TotalAtMost
<1>8. Total(C, Bots) \in Int /\ Total(S, Bots) \in Int /\ Total(K, Bots) \in Int
  BY <1>1, BotsFinite, TotalIntOn
<1>9. Total(K, Bots) <= Slack + Total(S, Bots)
  BY <1>4, <1>6, <1>7, <1>8, SlackInt
<1> QED
  BY <1>5, <1>9 DEF BudgetHolds, Slack

LEMMA BudgetAtFirst == Init => BudgetInv
<1> SUFFICES ASSUME Init PROVE BudgetInv
  OBVIOUS
<1>1. ASSUME NEW b \in Bots
      PROVE  ledger[b].unseen = 0 /\ ledger[b].cost = 0 /\ Approved(fill[b]) = 0 /\ Counted(ledger, fill)[b] = 0
  BY DEF Init, Approved, Counted, Idle
<1>2. Total(Counted(ledger, fill), Bots) = Cardinality(Bots) * 0
  BY <1>1, BotsFinite, TotalOfConstant
<1>3. Total(Counted(ledger, fill), Bots) = 0
  BY <1>2, BotsFinite
<1>4. Total(Counted(ledger, fill), Bots) <= Slack
  BY <1>3, SlackInt
<1> QED
  BY <1>1, <1>4, SlackInt DEF BudgetInv, BudgetKept

\* Who counts no more of any bot keeps the budget.
LEMMA CountsNoMore ==
  ASSUME NEW l \in [Bots -> Ledgers], NEW f \in [Bots -> Fills], BudgetKept(l, f),
         NEW m \in [Bots -> Ledgers], NEW g \in [Bots -> Fills],
         \A b \in Bots : /\ m[b].unseen <= m[b].cost /\ Approved(g[b]) <= Cap
                         /\ m[b].cost - m[b].unseen + Approved(g[b])
                              <= l[b].cost - l[b].unseen + Approved(f[b])
  PROVE  BudgetKept(m, g)
<1> DEFINE C == Counted(l, f)
           D == Counted(m, g)
<1>1. C \in [Bots -> Int] /\ D \in [Bots -> Int]
  BY CountedTypes
<1>2. \A b \in Bots : D[b] <= C[b]
  BY DEF Counted
<1>3. Total(C, Bots) <= Slack
  BY DEF BudgetKept
<1> HIDE DEF C, D
<1>4. Total(D, Bots) <= Total(C, Bots)
  BY <1>1, <1>2, BotsFinite, TotalAtMost
<1>5. Total(C, Bots) \in Int /\ Total(D, Bots) \in Int
  BY <1>1, BotsFinite, TotalIntOn
<1>6. Total(D, Bots) <= Slack
  BY <1>3, <1>4, <1>5, SlackInt
<1> QED
  BY <1>6 DEF BudgetKept, D

\* A buy that the limits let through beside the others': checkLimits.
LEMMA LetThroughFits ==
  ASSUME NEW l \in [Bots -> Ledgers], NEW f \in [Bots -> Fills], BudgetKept(l, f),
         NEW b \in Bots, NEW g \in [Bots -> Fills], NEW a \in Nat, Approved(g[b]) = a, a <= Cap,
         \A d \in Bots : d # b => g[d] = f[d],
         Total(Costs(l), Bots) + a <= TotalCap
  PROVE  BudgetKept(l, g)
<1> DEFINE D == Counted(l, g)
           K == Costs(l)
           caps == [d \in Bots |-> Cap]
           own == [d \in Bots |-> IF d = b THEN a - Cap ELSE 0]
           first == [d \in Bots |-> K[d] + caps[d]]
           bound == [d \in Bots |-> first[d] + own[d]]
<1>1. D \in [Bots -> Int] /\ K \in [Bots -> Int]
  BY CountedTypes
<1>2. caps \in [Bots -> Int] /\ own \in [Bots -> Int]
  BY SlackInt
<1>3. first \in [Bots -> Int]
  BY <1>1, <1>2
<1>4. bound \in [Bots -> Int]
  BY <1>2, <1>3
<1>5. ASSUME NEW d \in Bots PROVE D[d] <= bound[d] /\ Approved(g[d]) <= Cap
  <2>1. l[d].cost \in Nat /\ l[d].unseen \in Nat /\ Approved(f[d]) \in Nat /\ Approved(f[d]) <= Cap
    BY CountedTypes DEF BudgetKept
  <2>2. D[d] = l[d].cost - l[d].unseen + Approved(g[d]) /\ K[d] = l[d].cost
    BY DEF Counted, Costs
  <2>3. CASE d = b
    <3>1. bound[d] = l[d].cost + Cap + (a - Cap)
      BY <2>2, <2>3
    <3> QED
      BY <2>1, <2>2, <2>3, <3>1, SlackInt
  <2>4. CASE d # b
    <3>1. bound[d] = l[d].cost + Cap + 0 /\ g[d] = f[d]
      BY <2>2, <2>4
    <3> QED
      BY <2>1, <2>2, <3>1, SlackInt
  <2> QED
    BY <2>3, <2>4
<1>6. \A d \in Bots : caps[d] = Cap
  OBVIOUS
<1>7. own[b] = a - Cap /\ \A d \in Bots : d # b => own[d] = 0
  OBVIOUS
<1>8. Total(first, Bots) = Total(K, Bots) + Total(caps, Bots)
  <2> HIDE DEF K, caps
  <2> QED
    BY <1>1, <1>2, BotsFinite, TotalPlus
<1>9. Total(bound, Bots) = Total(first, Bots) + Total(own, Bots)
  <2> HIDE DEF first, own
  <2> QED
    BY <1>2, <1>3, BotsFinite, TotalPlus
<1>10. Total(K, Bots) + a <= TotalCap
  OBVIOUS
<1> HIDE DEF D, K, caps, own, first, bound
<1>11. Total(caps, Bots) = Cardinality(Bots) * Cap
  BY <1>6, SlackInt, BotsFinite, TotalOfConstant
<1>12. Total(own, Bots) = a - Cap
  <2>1. a - Cap \in Int
    BY SlackInt
  <2> QED
    BY <1>2, <1>7, <2>1, BotsFinite, TotalOfOne
<1>13. Total(D, Bots) <= Total(bound, Bots)
  BY <1>1, <1>4, <1>5, BotsFinite, TotalAtMost
<1>14. Total(D, Bots) \in Int /\ Total(K, Bots) \in Int
  BY <1>1, BotsFinite, TotalIntOn
<1>15. Total(D, Bots) <= Slack
  <2>1. PICK n \in Nat : n = Cardinality(Bots)
    BY BotsFinite
  <2>2. n * Cap \in Int /\ (n - 1) * Cap = n * Cap - Cap
    BY SlackInt
  <2>3. Slack = TotalCap + (n * Cap - Cap)
    BY <2>1, <2>2 DEF Slack
  <2>4. PICK p \in Int : p = n * Cap
    BY <2>2
  <2>5. Total(bound, Bots) = Total(K, Bots) + p + (a - Cap)
    BY <1>8, <1>9, <1>11, <1>12, <2>1, <2>4
  <2> QED
    BY <1>10, <1>13, <1>14, <2>3, <2>4, <2>5, SlackInt
<1> QED
  BY <1>5, <1>15 DEF BudgetKept, D

LEMMA FillsStay == /\ DeskTypes => ledger \in [Bots -> Ledgers] /\ fill \in [Bots -> Fills]
                   /\ DeskTypes' => ledger' \in [Bots -> Ledgers] /\ fill' \in [Bots -> Fills]
BY DEF DeskTypes, BotTypes, Ledgers, Fills, Asked, Sending, Answered, Sides

\* A bot's next step, by what it leaves of its own: others count as before.
LEMMA OneBotSteps ==
  ASSUME DeskTypes, DeskTypes', BudgetInv, NEW b \in Bots, NEW v, NEW m,
         fill' = [fill EXCEPT ![b] = v], ledger' = [ledger EXCEPT ![b] = m],
         m.unseen <= m.cost, Approved(v) <= Cap,
         m.cost - m.unseen + Approved(v) <= ledger[b].cost - ledger[b].unseen + Approved(fill[b])
  PROVE  BudgetInv'
<1>1. /\ ledger \in [Bots -> Ledgers] /\ fill \in [Bots -> Fills]
      /\ ledger' \in [Bots -> Ledgers] /\ fill' \in [Bots -> Fills]
  BY FillsStay
<1>2. ASSUME NEW d \in Bots
      PROVE  /\ ledger'[d].unseen <= ledger'[d].cost /\ Approved(fill'[d]) <= Cap
             /\ ledger'[d].cost - ledger'[d].unseen + Approved(fill'[d])
                  <= ledger[d].cost - ledger[d].unseen + Approved(fill[d])
  <2>1. CASE d = b
    <3>1. ledger'[d] = m /\ fill'[d] = v
      BY <1>1, <2>1
    <3> QED
      BY <2>1, <3>1
  <2>2. CASE d # b
    <3>1. ledger'[d] = ledger[d] /\ fill'[d] = fill[d]
      BY <1>1, <2>2
    <3>2. ledger[d].unseen <= ledger[d].cost /\ Approved(fill[d]) <= Cap
      BY DEF BudgetInv, BudgetKept
    <3>3. ledger[d].cost \in Nat /\ ledger[d].unseen \in Nat /\ Approved(fill[d]) \in Nat
      BY <1>1, CountedTypes
    <3>4. ledger[d].cost - ledger[d].unseen + Approved(fill[d]) <= ledger[d].cost - ledger[d].unseen + Approved(fill[d])
      BY <3>3
    <3> QED
      BY <3>1, <3>2, <3>4
  <2> QED
    BY <2>1, <2>2
<1>3. BudgetKept(ledger, fill)
  BY DEF BudgetInv
<1>4. BudgetKept(ledger', fill')
  BY <1>1, <1>2, <1>3, CountsNoMore
<1> QED
  BY <1>4 DEF BudgetInv, BudgetKept, Counted, Approved

LEMMA BudgetOrders == ASSUME DeskTypes, DeskTypes', BudgetInv, NEW b \in Bots, BotOrders(b) PROVE BudgetInv'
<1>1. ledger' = [ledger EXCEPT ![b] = ledger[b]] /\ fill[b] = Idle
  BY DEF BotOrders, trades, DeskTypes, BotTypes
<1>2. Approved(fill[b]) = 0
  BY <1>1 DEF Approved
<1>3. /\ ledger[b].cost \in Nat /\ ledger[b].unseen \in Nat /\ ledger[b].unseen <= ledger[b].cost
  BY FillsStay, CountedTypes DEF BudgetInv, BudgetKept
<1>4. 0 <= Cap
  BY SlackInt
<1>5. ledger[b].cost - ledger[b].unseen + 0 <= ledger[b].cost - ledger[b].unseen + 0
  BY <1>3
<1>6. ASSUME NEW v, v.at = "size", fill' = [fill EXCEPT ![b] = v] PROVE BudgetInv'
  <2>1. Approved(v) = 0
    BY <1>6 DEF Approved
  <2> QED
    BY <1>1, <1>2, <1>3, <1>4, <1>5, <1>6, <2>1, OneBotSteps
<1>7. ASSUME NEW qty \in 1..MaxQty,
             fill' = [fill EXCEPT ![b] = [at |-> "size", side |-> "buy", qty |-> qty, price |-> px, env |-> env]]
      PROVE  BudgetInv'
  BY <1>6, <1>7
<1>8. ASSUME fill' = [fill EXCEPT ![b] = [at |-> "size", side |-> "sell", qty |-> ledger[b].qty,
                                          price |-> px, env |-> env]]
      PROVE  BudgetInv'
  BY <1>6, <1>8
<1> QED
  BY <1>7, <1>8 DEF BotOrders

LEMMA BudgetChecks == ASSUME DeskTypes, DeskTypes', BudgetInv, NEW b \in Bots, BotChecks(b) PROVE BudgetInv'
<1> DEFINE x  == fill[b]
           nq == Normal(x.qty, x.price)
           a  == IF master THEN x.price * nq ELSE 0
           w  == [at |-> "send", side |-> x.side, qty |-> nq, env |-> x.env, approved |-> a]
<1>1. /\ x.at = "size"
      /\ fill' = [fill EXCEPT ![b] = IF Within(x.side, x.price * nq) THEN w ELSE Idle]
      /\ ledger' = [ledger EXCEPT ![b] = ledger[b]] /\ ledger' = ledger
  BY DEF BotChecks, BotQuiet, trades, DeskTypes, BotTypes
<1>2. Approved(x) = 0
  BY <1>1 DEF Approved
<1>3. /\ ledger[b].cost \in Nat /\ ledger[b].unseen \in Nat /\ ledger[b].unseen <= ledger[b].cost
      /\ ledger[b].cost - ledger[b].unseen + 0 <= ledger[b].cost - ledger[b].unseen + 0
  <2>1. ledger[b].cost \in Nat /\ ledger[b].unseen \in Nat /\ ledger[b].unseen <= ledger[b].cost
    BY FillsStay, CountedTypes DEF BudgetInv, BudgetKept
  <2> QED
    BY <2>1
<1>4. 0 <= Cap
  BY SlackInt
<1> HIDE DEF nq
<1> HIDE DEF a, w
<1>5. ASSUME NEW v, fill' = [fill EXCEPT ![b] = v], Approved(v) = 0 PROVE BudgetInv'
  <2>1. Approved(v) <= Cap
    BY <1>4, <1>5
  <2>2. ledger[b].cost - ledger[b].unseen + Approved(v) <= ledger[b].cost - ledger[b].unseen + Approved(fill[b])
    BY <1>2, <1>3, <1>5
  <2>3. fill' = [fill EXCEPT ![b] = v] /\ ledger' = [ledger EXCEPT ![b] = ledger[b]]
    BY <1>1, <1>5
  <2>4. ledger[b].unseen <= ledger[b].cost
    BY <1>3
  <2> QED
    BY <2>1, <2>2, <2>3, <2>4, OneBotSteps
<1>6. CASE ~Within(x.side, x.price * nq)
  <2>1. Approved(Idle) = 0
    BY DEF Approved
  <2>2. fill' = [fill EXCEPT ![b] = Idle]
    BY <1>1, <1>6
  <2> QED
    BY <1>5, <2>1, <2>2
<1>7. CASE Within(x.side, x.price * nq) /\ (x.side # "buy" \/ ~master)
  <2>1. fill' = [fill EXCEPT ![b] = w]
    BY <1>1, <1>7
  <2>2. Approved(w) = 0
    BY <1>7 DEF Approved, w, a
  <2> QED
    BY <1>5, <2>1, <2>2
<1>8. CASE Within(x.side, x.price * nq) /\ x.side = "buy" /\ master
  <2>1. a = x.price * nq
    BY <1>8 DEF a
  <2>2. a <= Cap /\ Deployed + a <= TotalCap
    BY <1>8, <2>1 DEF Within
  <2>3. fill' = [fill EXCEPT ![b] = w] /\ w # Idle /\ w.at = "send" /\ w.side = "buy" /\ w.approved = a
    BY <1>1, <1>8 DEF Idle, w
  <2>4. Approved(w) = a
    BY <2>3 DEF Approved
  <2>5. /\ ledger \in [Bots -> Ledgers] /\ fill \in [Bots -> Fills] /\ fill' \in [Bots -> Fills]
        /\ BudgetKept(ledger, fill)
    BY FillsStay DEF BudgetInv
  <2>6. fill'[b] = w /\ \A d \in Bots : d # b => fill'[d] = fill[d]
    BY <2>3, <2>5
  <2>7. a \in Nat
    <3>1. Approved(fill'[b]) \in Nat
      BY <2>5, ApprovedNat
    <3> QED
      BY <2>4, <2>6, <3>1
  <2>8. Total(Costs(ledger), Bots) + a <= TotalCap
    BY <2>2, DeployedIs
  <2>9. BudgetKept(ledger, fill')
    BY <2>2, <2>4, <2>5, <2>6, <2>7, <2>8, LetThroughFits
  <2> QED
    BY <1>1, <2>9 DEF BudgetInv, BudgetKept, Counted, Approved
<1> QED
  BY <1>6, <1>7, <1>8

LEMMA BudgetExecuted == ASSUME DeskTypes, DeskTypes', BudgetInv, NEW b \in Bots, BotExecuted(b) PROVE BudgetInv'
<1> DEFINE x == fill[b]
           w == [at |-> "answer", side |-> x.side, qty |-> x.qty, cost |-> px * x.qty, approved |-> x.approved]
<1>1. /\ x.at = "send" /\ ledger' = [ledger EXCEPT ![b] = ledger[b]]
      /\ fill' = [fill EXCEPT ![b] = w] \/ fill' = [fill EXCEPT ![b] = Idle]
  BY DEF BotExecuted, BotQuiet, trades, DeskTypes, BotTypes
<1>2. x # Idle
  BY <1>1 DEF Idle
<1>3. Approved(w) = Approved(x)
  <2>1. w # Idle /\ w.at = "answer" /\ w.side = x.side /\ w.approved = x.approved
    BY DEF Idle
  <2> HIDE DEF w
  <2> QED
    BY <1>1, <1>2, <2>1 DEF Approved
<1>4. /\ ledger[b].cost \in Nat /\ ledger[b].unseen \in Nat /\ ledger[b].unseen <= ledger[b].cost
      /\ Approved(x) \in Nat /\ Approved(x) <= Cap
  BY FillsStay, CountedTypes DEF BudgetInv, BudgetKept
<1>5. Approved(Idle) = 0 /\ 0 <= Cap
  BY SlackInt DEF Approved
<1>6. \A p \in {Approved(x), 0} :
        ledger[b].cost - ledger[b].unseen + p <= ledger[b].cost - ledger[b].unseen + Approved(x)
  BY <1>4
<1> HIDE DEF w
<1>7. ASSUME fill' = [fill EXCEPT ![b] = w] PROVE BudgetInv'
  <2>1. ledger[b].cost - ledger[b].unseen + Approved(w) <= ledger[b].cost - ledger[b].unseen + Approved(fill[b])
    BY <1>3, <1>6
  <2> QED
    BY <1>1, <1>3, <1>4, <1>7, <2>1, OneBotSteps
<1>8. ASSUME fill' = [fill EXCEPT ![b] = Idle] PROVE BudgetInv'
  <2>1. ledger[b].cost - ledger[b].unseen + Approved(Idle) <= ledger[b].cost - ledger[b].unseen + Approved(fill[b])
    BY <1>5, <1>6
  <2> QED
    BY <1>1, <1>4, <1>5, <1>8, <2>1, OneBotSteps
<1> QED
  BY <1>1, <1>7, <1>8

\* insertTrade: a buy is counted at its cost, less what no check could see; a sale
\* leaves nothing.
LEMMA BudgetBooked == ASSUME DeskTypes, DeskTypes', BudgetInv, NEW b \in Bots, Booked(b) PROVE BudgetInv'
<1> DEFINE x == fill[b]
           l == ledger[b]
           none == [qty |-> 0, cost |-> 0, unseen |-> 0]
           more == [qty |-> l.qty + x.qty, cost |-> l.cost + x.cost, unseen |-> l.unseen + Unseen(x)]
<1>1. /\ x.at = "answer" /\ fill' = [fill EXCEPT ![b] = Idle]
      /\ ledger' = [ledger EXCEPT ![b] = IF x.side = "sell" THEN none ELSE more]
  BY DEF Booked
<1>2. x \in Answered
  BY <1>1 DEF DeskTypes, BotTypes, Fills, Idle, Asked, Sending
<1>3. x.side \in Sides /\ x.cost \in Nat /\ x.approved \in Nat /\ x # Idle
  BY <1>2 DEF Answered, Idle
<1>4. /\ l.cost \in Nat /\ l.unseen \in Nat /\ l.unseen <= l.cost /\ Approved(x) \in Nat
  BY FillsStay, CountedTypes DEF BudgetInv, BudgetKept
<1>5. Approved(Idle) = 0 /\ 0 <= Cap
  BY SlackInt DEF Approved
<1>6. CASE x.side = "sell"
  <2>1. ledger' = [ledger EXCEPT ![b] = none] /\ none.cost = 0 /\ none.unseen = 0
    BY <1>1, <1>6
  <2> HIDE DEF none
  <2>2. none.unseen <= none.cost /\ Approved(Idle) <= Cap
    BY <1>5, <2>1
  <2>3. none.cost - none.unseen + Approved(Idle) <= l.cost - l.unseen + Approved(x)
    BY <1>4, <1>5, <2>1
  <2> QED
    BY <1>1, <2>1, <2>2, <2>3, OneBotSteps
<1>7. CASE x.side = "buy"
  <2>1. ledger' = [ledger EXCEPT ![b] = more] /\ more.cost = l.cost + x.cost /\ more.unseen = l.unseen + Unseen(x)
    BY <1>1, <1>7
  <2> HIDE DEF more
  <2>2. Approved(x) = x.approved
    BY <1>1, <1>3, <1>7 DEF Approved
  <2>3. PICK u \in Nat : u = Unseen(x) /\ u <= x.cost /\ x.cost - u <= x.approved
    BY <1>3 DEF Unseen
  <2>4. more.unseen <= more.cost
    BY <1>3, <1>4, <2>1, <2>3
  <2>5. more.cost - more.unseen + Approved(Idle) <= l.cost - l.unseen + Approved(x)
    BY <1>3, <1>4, <1>5, <2>1, <2>2, <2>3
  <2> QED
    BY <1>1, <1>5, <2>1, <2>4, <2>5, OneBotSteps
<1> QED
  BY <1>3, <1>6, <1>7 DEF Sides

LEMMA BudgetCrash == ASSUME DeskTypes, DeskTypes', BudgetInv, Crash PROVE BudgetInv'
<1>1. ledger' = ledger /\ fill' = [b \in Bots |-> Idle]
  BY DEF Crash, trades
<1>2. /\ ledger \in [Bots -> Ledgers] /\ fill \in [Bots -> Fills]
      /\ ledger' \in [Bots -> Ledgers] /\ fill' \in [Bots -> Fills]
      /\ BudgetKept(ledger, fill)
  BY FillsStay DEF BudgetInv
<1>3. ASSUME NEW b \in Bots
      PROVE  /\ ledger'[b].unseen <= ledger'[b].cost /\ Approved(fill'[b]) <= Cap
             /\ ledger'[b].cost - ledger'[b].unseen + Approved(fill'[b])
                  <= ledger[b].cost - ledger[b].unseen + Approved(fill[b])
  <2>1. ledger[b].cost \in Nat /\ ledger[b].unseen \in Nat /\ Approved(fill[b]) \in Nat
    BY <1>2, CountedTypes
  <2>2. ledger[b].unseen <= ledger[b].cost
    BY <1>2 DEF BudgetKept
  <2>3. fill'[b] = Idle /\ ledger'[b] = ledger[b]
    BY <1>1
  <2>4. Approved(fill'[b]) = 0
    BY <2>3 DEF Approved
  <2> QED
    BY <2>1, <2>2, <2>3, <2>4, SlackInt
<1>4. BudgetKept(ledger', fill')
  BY <1>2, <1>3, CountsNoMore
<1> QED
  BY <1>4 DEF BudgetInv, BudgetKept, Counted, Approved

LEMMA BudgetStep == DeskTypes /\ BudgetInv /\ [Next]_vars => BudgetInv'
<1> SUFFICES ASSUME DeskTypes, BudgetInv, [Next]_vars PROVE BudgetInv'
  OBVIOUS
<1>1. DeskTypes'
  BY StepTypes
<1>2. ASSUME UNCHANGED <<ledger, fill>> PROVE BudgetInv'
  BY <1>2 DEF BudgetInv, BudgetKept, Counted, Approved
<1>3. ASSUME NEW c \in Calls,
             \/ Receive(c) \/ HeldSeen(c) \/ OcoSeen(c) \/ PriceSeen(c) \/ PriceFails(c)
             \/ Check(c) \/ SellableSeen(c) \/ CheckAmount(c) \/ Executed(c)
             \/ CancelStarts(c) \/ Cancelled(c)
      PROVE  UNCHANGED <<ledger, fill>>
  BY <1>3 DEF Receive, HeldSeen, OcoSeen, PriceSeen, PriceFails, Check, SellableSeen, CheckAmount,
              Executed, CancelStarts, Cancelled, Quiet, trades
<1>4. ASSUME NEW b \in Bots, BotOrders(b) \/ BotChecks(b) \/ BotExecuted(b) \/ Booked(b)
      PROVE  BudgetInv'
  BY <1>1, <1>4, BudgetOrders, BudgetChecks, BudgetExecuted, BudgetBooked
<1>5. ASSUME NEW tok \in NoToken..minted, EnableLive(tok) PROVE UNCHANGED <<ledger, fill>>
  BY <1>5 DEF EnableLive, trades
<1>6. ASSUME DisableLive \/ TurnHalt \/ TurnEnv \/ Tick \/ NewDay \/ PriceMoves \/ OcoFires
      PROVE  UNCHANGED <<ledger, fill>>
  BY <1>6 DEF DisableLive, TurnHalt, TurnEnv, Tick, NewDay, PriceMoves, OcoFires, trades
<1>7. ASSUME UNCHANGED vars PROVE UNCHANGED <<ledger, fill>>
  BY <1>7 DEF vars, trades
<1> QED
  BY <1>1, <1>2, <1>3, <1>4, <1>5, <1>6, <1>7, BudgetCrash DEF Next

\* What the bots hold together stays within the budget, but for one order of Cap
\* of each other bot and for what no check could see: checkLimits over any number
\* of bots that order beside each other (safety.ts:159-172).
THEOREM BudgetIsKept == Spec => []BudgetHolds
<1>1. DeskTypes /\ BudgetInv => BudgetHolds
  BY BudgetOfCount
<1> QED
  BY <1>1, TypesAtFirst, BudgetAtFirst, StepTypes, BudgetStep, PTL DEF Spec
=============================================================================
