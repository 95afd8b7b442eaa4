----------------------- MODULE BacktestParts_proofs -----------------------
(***************************************************************************)
(* What the parts of a backtest return, for every input: the folds over    *)
(* the trades and the levels, the fractions that averages are, what a tick *)
(* of the ladder decides, the size of an order, the price and the bar it   *)
(* fills at, the strategy a tree chooses, and that of the bars none reads  *)
(* but those so far.  Backtest_proofs builds on it.                        *)
(***************************************************************************)
EXTENDS Backtest, FiniteSetTheorems, WellFoundedInduction, TLAPS

---------------------------------------------------------------------------
(* Folds over the indices of a sequence, and induction upwards: the fold   *)
(* of the community modules is a function chosen over all subsets, so that *)
(* what it does index by index has to be proved of it once.                *)

\* Strong induction on the natural numbers, for a set.
LEMMA StrongInduct ==
  ASSUME NEW G, \A n \in Nat : (\A m \in Nat : m < n => m \in G) => n \in G
  PROVE  \A n \in Nat : n \in G
<1> DEFINE F == {n \in Nat : n \notin G}
<1> SUFFICES ASSUME F # {} PROVE FALSE
  OBVIOUS
<1>1. F \subseteq Nat
  OBVIOUS
<1> HIDE DEF F
<1>2. PICK n \in F : \A m \in F : ~(<<m, n>> \in OpToRel(<, Nat))
  BY <1>1, NatLessThanWellFounded, WFMin
<1>3. n \in Nat /\ \A m \in Nat : m < n => m \notin F
  BY <1>1, <1>2 DEF OpToRel
<1> QED
  BY <1>2, <1>3 DEF F

\* Induction up to n, for a set.
LEMMA UpInduct ==
  ASSUME NEW n \in Nat, NEW G, 0 \in G, \A k \in 1..n : k - 1 \in G => k \in G
  PROVE  \A k \in 0..n : k \in G
<1> DEFINE H == {k \in Nat : k <= n => k \in G}
<1>1. ASSUME NEW k \in Nat, \A m \in Nat : m < k => m \in H PROVE k \in H
  <2>1. CASE k = 0
    BY <2>1
  <2>2. CASE k # 0
    <3>1. k - 1 \in Nat /\ k - 1 < k
      BY <2>2
    <3> QED
      BY <1>1, <2>2, <3>1
  <2> QED
    BY <2>1, <2>2
<1> HIDE DEF H
<1>2. \A k \in Nat : k \in H
  BY <1>1, StrongInduct
<1> QED
  BY <1>2 DEF H

LEMMA MaxIn == ASSUME NEW S \in SUBSET Int, IsFiniteSet(S), S # {} PROVE Max(S) \in S /\ \A y \in S : y <= Max(S)
<1> DEFINE F == {U \in SUBSET S : U # {} /\ ~\E x \in U : \A y \in U : x >= y}
<1>1. F = {}
  <2> SUFFICES ASSUME F # {} PROVE FALSE
    OBVIOUS
  <2>1. F \in SUBSET SUBSET S
    OBVIOUS
  <2>2. F \subseteq FiniteSubsetsOf(S)
    BY FS_Subset DEF FiniteSubsetsOf
  <2>3. IsWellFoundedOn(StrictSubsetOrdering(S), FiniteSubsetsOf(S))
    BY FS_StrictSubsetOrderingWellFounded
  <2>4. PICK U \in F : \A V \in F : ~(<<V, U>> \in StrictSubsetOrdering(S))
    <3> HIDE DEF F
    <3> QED
      BY <2>2, <2>3, WFMin
  <2>5. PICK u \in U : TRUE
    OBVIOUS
  <2> DEFINE V == U \ {u}
  <2>6. V \notin F
    BY <2>4, <2>5 DEF StrictSubsetOrdering
  <2>7. V \in SUBSET S
    OBVIOUS
  <2>8. V = {} \/ \E x \in V : \A y \in V : x >= y
    BY <2>6, <2>7
  <2>9. CASE V = {}
    BY <2>5, <2>9
  <2>10. CASE \E x \in V : \A y \in V : x >= y
    <3>1. PICK x \in V : \A y \in V : x >= y
      BY <2>10
    <3>2. x \in Int /\ u \in Int /\ U \subseteq Int
      OBVIOUS
    <3>3. CASE x >= u
      <4>1. \A y \in U : x >= y
        BY <3>1, <3>2, <3>3
      <4> QED
        BY <4>1
    <3>4. CASE u > x
      <4>1. \A y \in U : u >= y
        BY <3>1, <3>2, <3>4
      <4> QED
        BY <4>1, <2>5
    <3> QED
      BY <3>2, <3>3, <3>4
  <2> QED
    BY <2>8, <2>9, <2>10
<1>2. S \notin F
  BY <1>1
<1>3. \E x \in S : \A y \in S : x >= y
  BY <1>2
<1>4. Max(S) \in S /\ \A y \in S : Max(S) >= y
  BY <1>3 DEF Max
<1>5. ASSUME NEW y \in S PROVE y <= Max(S)
  <2>1. Max(S) >= y /\ y \in Int /\ Max(S) \in Int
    BY <1>4
  <2> QED
    BY <2>1
<1> QED
  BY <1>4, <1>5

Smallest(F, M) == M \in F /\ \A U \in F : U \subseteq M => U = M

\* A family of subsets of a finite set has a smallest member.
LEMMA SmallestOf ==
  ASSUME NEW S, IsFiniteSet(S), NEW F \in SUBSET SUBSET S, F # {}
  PROVE  \E M : Smallest(F, M)
<1>1. F \subseteq FiniteSubsetsOf(S)
  BY FS_Subset DEF FiniteSubsetsOf
<1>2. IsWellFoundedOn(StrictSubsetOrdering(S), FiniteSubsetsOf(S))
  BY FS_StrictSubsetOrderingWellFounded
<1>3. PICK M \in F : \A U \in F : ~(<<U, M>> \in StrictSubsetOrdering(S))
  BY <1>1, <1>2, WFMin
<1> QED
  BY <1>3 DEF StrictSubsetOrdering, Smallest

\* The greatest index of a set of them, and the rest.
Butlast(s) == s \ {Max(s)}

LEMMA ButlastIn ==
  ASSUME NEW N \in SUBSET Int, IsFiniteSet(N), NEW s \in SUBSET N, s # {}
  PROVE  Max(s) \in s /\ Max(s) \in N /\ Butlast(s) \in SUBSET s /\ Butlast(s) # s /\ Butlast(s) \in SUBSET N
<1>1. IsFiniteSet(s)
  BY FS_Subset
<1>2. s \in SUBSET Int
  OBVIOUS
<1>3. Max(s) \in s
  BY <1>1, <1>2, MaxIn
<1> QED
  BY <1>3 DEF Butlast

\* What FoldLeft's recursive function is to be on the sets of indices: o is
\* the function folded, of what has been folded and the next index.
Folding(o, base, D, g) == [s \in SUBSET D |-> IF s = {} THEN base ELSE o[<<g[Butlast(s)], Max(s)>>]]
Folds(o, base, D, g) == g = Folding(o, base, D, g)
TheFold(o, base, D) == CHOOSE g : Folds(o, base, D, g)

Unfolds(o, base, g, s) == g[s] = IF s = {} THEN base ELSE o[<<g[Butlast(s)], Max(s)>>]

LEMMA FoldsAt ==
  ASSUME NEW o, NEW base, NEW D, NEW g, Folds(o, base, D, g), NEW s \in SUBSET D
  PROVE  Unfolds(o, base, g, s)
BY DEF Folds, Folding, Unfolds

\* A set that holds what a recursion on sets of indices starts from, and with
\* each set less its greatest index the set itself, holds them all.
LEMMA FoldInduct ==
  ASSUME NEW N \in SUBSET Int, IsFiniteSet(N), NEW G, {} \in G,
         \A s \in SUBSET N : s # {} /\ Butlast(s) \in G => s \in G
  PROVE  \A s \in SUBSET N : s \in G
<1> DEFINE F == {s \in SUBSET N : s \notin G}
<1> SUFFICES ASSUME F # {} PROVE FALSE
  OBVIOUS
<1>1. IsFiniteSet(N)
  OBVIOUS
<1>2. PICK M : Smallest(F, M)
  <2>1. F \in SUBSET SUBSET N
    OBVIOUS
  <2> HIDE DEF F
  <2> QED
    BY <1>1, <2>1, SmallestOf
<1>3. M \in SUBSET N /\ M \notin G /\ M # {}
  BY <1>2 DEF Smallest
<1>4. Butlast(M) \in SUBSET M /\ Butlast(M) # M /\ Butlast(M) \in SUBSET N
  BY <1>3, ButlastIn
<1>5. Butlast(M) \notin F
  BY <1>2, <1>4 DEF Smallest
<1> QED
  BY <1>3, <1>4, <1>5

\* Two such functions agree where both are defined.
LEMMA FoldsAgree ==
  ASSUME NEW N \in SUBSET Int, IsFiniteSet(N), NEW D \in SUBSET N, NEW R \in SUBSET D, NEW o, NEW base,
         NEW g, Folds(o, base, D, g), NEW h, Folds(o, base, R, h)
  PROVE  \A s \in SUBSET R : g[s] = h[s]
<1> DEFINE G == {s \in SUBSET N : s \in SUBSET R => g[s] = h[s]}
<1>1. {} \in G
  <2>0. Unfolds(o, base, g, {}) /\ Unfolds(o, base, h, {})
    BY FoldsAt
  <2>1. g[{}] = base /\ h[{}] = base
    BY <2>0 DEF Unfolds
  <2> QED
    BY <2>1
<1>2. ASSUME NEW s \in SUBSET N, s # {}, Butlast(s) \in G PROVE s \in G
  <2> SUFFICES ASSUME s \in SUBSET R PROVE g[s] = h[s]
    OBVIOUS
  <2>1. Butlast(s) \in SUBSET R
    BY <1>2, ButlastIn
  <2>2. g[Butlast(s)] = h[Butlast(s)]
    BY <1>2, <2>1
  <2>3. Unfolds(o, base, g, s) /\ Unfolds(o, base, h, s)
    BY FoldsAt
  <2>4. g[s] = o[<<g[Butlast(s)], Max(s)>>] /\ h[s] = o[<<h[Butlast(s)], Max(s)>>]
    BY <1>2, <2>3 DEF Unfolds
  <2> QED
    BY <2>2, <2>4
<1> HIDE DEF G
<1>3. \A s \in SUBSET N : s \in G
  BY <1>1, <1>2, FoldInduct
<1> QED
  BY <1>3 DEF G

ValueOf(o, base, U) == TheFold(o, base, U)[U]
Values(o, base, D) == [s \in SUBSET D |-> IF s = {} THEN base ELSE o[<<ValueOf(o, base, Butlast(s)), Max(s)>>]]

\* There is such a function.
LEMMA FoldExists ==
  ASSUME NEW N \in SUBSET Int, IsFiniteSet(N), NEW o, NEW base
  PROVE  \A D \in SUBSET N : Folds(o, base, D, TheFold(o, base, D))
<1> DEFINE F == {D \in SUBSET N : ~\E g : Folds(o, base, D, g)}
<1> SUFFICES ASSUME F # {} PROVE FALSE
  BY DEF TheFold
<1>1. PICK M : Smallest(F, M)
  <2>1. F \in SUBSET SUBSET N /\ IsFiniteSet(N)
    OBVIOUS
  <2> HIDE DEF F
  <2> QED
    BY <2>1, SmallestOf
<1>2. M \in SUBSET N /\ ~\E g : Folds(o, base, M, g)
  BY <1>1 DEF Smallest
<1>3. ASSUME NEW U \in SUBSET M, U # M PROVE Folds(o, base, U, TheFold(o, base, U))
  <2>1. U \in SUBSET N /\ U \notin F
    BY <1>1, <1>2, <1>3 DEF Smallest
  <2>2. \E g : Folds(o, base, U, g)
    BY <2>1
  <2> QED
    BY <2>2 DEF TheFold
<1> HIDE DEF F
<1> DEFINE g == Values(o, base, M)
<1>a. ASSUME NEW s \in SUBSET M PROVE g[s] = IF s = {} THEN base ELSE o[<<ValueOf(o, base, Butlast(s)), Max(s)>>]
  BY DEF Values
<1>b. DOMAIN g = SUBSET M /\ g = [s \in SUBSET M |-> g[s]]
  BY DEF Values
<1> HIDE DEF g
<1>4. ASSUME NEW U \in SUBSET M, U # M PROVE ValueOf(o, base, U) = g[U]
  <2>1. Folds(o, base, U, TheFold(o, base, U)) /\ U \in SUBSET N
    BY <1>2, <1>3, <1>4
  <2>0. ValueOf(o, base, U) = IF U = {} THEN base ELSE o[<<TheFold(o, base, U)[Butlast(U)], Max(U)>>]
    <3>1. Unfolds(o, base, TheFold(o, base, U), U)
      BY <2>1, FoldsAt
    <3> QED
      BY <3>1 DEF ValueOf, Unfolds
  <2>2. CASE U = {}
    BY <1>a, <2>0, <2>2
  <2>3. CASE U # {}
    <3>1. Butlast(U) \in SUBSET U /\ Butlast(U) \in SUBSET M /\ Butlast(U) # M
      BY <1>4, <2>1, <2>3, ButlastIn
    <3>2. Folds(o, base, Butlast(U), TheFold(o, base, Butlast(U)))
      BY <1>3, <3>1
    <3>4. \A W \in SUBSET Butlast(U) : TheFold(o, base, U)[W] = TheFold(o, base, Butlast(U))[W]
      BY <2>1, <3>1, <3>2, FoldsAgree
    <3>5. TheFold(o, base, U)[Butlast(U)] = ValueOf(o, base, Butlast(U))
      BY <3>4 DEF ValueOf
    <3> QED
      BY <1>a, <2>0, <2>3, <3>5
  <2> QED
    BY <2>2, <2>3
<1>5. ASSUME NEW s \in SUBSET M PROVE g[s] = IF s = {} THEN base ELSE o[<<g[Butlast(s)], Max(s)>>]
  <2>1. CASE s = {}
    BY <1>a, <2>1
  <2>2. CASE s # {}
    <3>1. Butlast(s) \in SUBSET M /\ Butlast(s) # M
      <4>1. s \in SUBSET N
        BY <1>2
      <4>2. Butlast(s) \in SUBSET s /\ Butlast(s) # s
        BY <2>2, <4>1, ButlastIn
      <4> QED
        BY <4>2
    <3>2. ValueOf(o, base, Butlast(s)) = g[Butlast(s)]
      BY <1>4, <3>1
    <3> QED
      BY <1>a, <2>2, <3>2
  <2> QED
    BY <2>1, <2>2
<1>6. [s \in SUBSET M |-> g[s]] = [s \in SUBSET M |-> IF s = {} THEN base ELSE o[<<g[Butlast(s)], Max(s)>>]]
  BY <1>5
<1>7. Folds(o, base, M, g)
  BY <1>6, <1>b DEF Folds, Folding
<1> QED
  BY <1>2, <1>7

\* What such a function gives stays where the function folded does.
LEMMA FoldStays ==
  ASSUME NEW N \in SUBSET Int, IsFiniteSet(N), NEW A, NEW o, NEW base \in A,
         \A a \in A, k \in N : o[<<a, k>>] \in A,
         NEW g, Folds(o, base, N, g)
  PROVE  \A s \in SUBSET N : g[s] \in A
<1> DEFINE G == {s \in SUBSET N : g[s] \in A}
<1>0. ASSUME NEW s \in SUBSET N PROVE g[s] = IF s = {} THEN base ELSE o[<<g[Butlast(s)], Max(s)>>]
  <2>1. Unfolds(o, base, g, s)
    BY FoldsAt
  <2> QED
    BY <2>1 DEF Unfolds
<1>1. {} \in G
  BY <1>0
<1>2. ASSUME NEW s \in SUBSET N, s # {} /\ Butlast(s) \in G PROVE s \in G
  <2>1. Max(s) \in N
    BY <1>2, ButlastIn
  <2> QED
    BY <1>0, <1>2, <2>1
<1> HIDE DEF G
<1>3. \A s \in SUBSET N : s \in G
  BY <1>1, <1>2, FoldInduct
<1> QED
  BY <1>3 DEF G

\* The fold of the first k of n indices, one index at a time.
LEMMA FoldPrefixes ==
  ASSUME NEW n \in Nat, NEW o, NEW base, NEW g, Folds(o, base, 1..n, g)
  PROVE  g[1..0] = base /\ \A k \in 1..n : g[1..k] = o[<<g[1..(k - 1)], k>>]
<1> DEFINE N == 1..n
<1>1. Unfolds(o, base, g, {})
  <2>1. {} \in SUBSET N
    OBVIOUS
  <2> QED
    BY <2>1, FoldsAt
<1>2. 1..0 = {}
  OBVIOUS
<1>3. ASSUME NEW k \in 1..n PROVE g[1..k] = o[<<g[1..(k - 1)], k>>]
  <2> DEFINE s == 1..k
             t == 1..(k - 1)
  <2>1. s \in SUBSET N /\ s \in SUBSET Int /\ IsFiniteSet(s) /\ k \in s
    <3>1. IsFiniteSet(s)
      BY FS_Interval
    <3>2. s \in SUBSET N /\ s \in SUBSET Int
      OBVIOUS
    <3>3. k \in s
      OBVIOUS
    <3> QED
      BY <3>1, <3>2, <3>3
  <2>2. s # {} /\ \A y \in s : y <= k
    OBVIOUS
  <2>3. s \ {k} = t
    OBVIOUS
  <2> HIDE DEF s, t, N
  <2>4. Max(s) = k
    <3>1. Max(s) \in s /\ \A y \in s : y <= Max(s)
      BY <2>1, <2>2, MaxIn
    <3>2. Max(s) \in Int /\ k \in Int /\ Max(s) <= k /\ k <= Max(s)
      BY <2>1, <2>2, <3>1
    <3> QED
      BY <3>2
  <2>5. Unfolds(o, base, g, s)
    <3>1. Folds(o, base, N, g)
      BY DEF N
    <3> QED
      BY <2>1, <3>1, FoldsAt
  <2>6. g[s] = o[<<g[t], k>>]
    BY <2>2, <2>3, <2>4, <2>5 DEF Unfolds, Butlast
  <2> QED
    BY <2>6 DEF s, t
<1> QED
  BY <1>1, <1>2, <1>3 DEF Unfolds

\* What a function that folds o over 1..n gives, as a run of n steps.
Runs(o, base, n, A, last) ==
  \E v \in [0..n -> A] : v[0] = base /\ v[n] = last /\ \A k \in 1..n : v[k] = o[<<v[k - 1], k>>]
Within(o, base, n, A) == base \in A /\ \A a \in A, k \in 1..n : o[<<a, k>>] \in A

LEMMA FoldRuns ==
  ASSUME NEW n \in Nat, NEW A, NEW o, NEW base, Within(o, base, n, A), NEW h, h[{}] = base,
         \A s \in SUBSET (1..n) : s # {} /\ h[Butlast(s)] \in A => h[s] = o[<<h[Butlast(s)], Max(s)>>]
  PROVE  Runs(o, base, n, A, h[1..n])
<1> DEFINE N == 1..n
           g == TheFold(o, base, N)
           v == [k \in 0..n |-> g[1..k]]
<1>1. N \in SUBSET Int /\ IsFiniteSet(N) /\ N \in SUBSET N
  BY FS_Interval
<1>2. base \in A /\ \A a \in A, k \in N : o[<<a, k>>] \in A
  BY DEF Within
<1>3. \A s \in SUBSET N : s # {} /\ h[Butlast(s)] \in A => h[s] = o[<<h[Butlast(s)], Max(s)>>]
  OBVIOUS
<1> HIDE DEF N
<1>4. Folds(o, base, N, g)
  BY <1>1, FoldExists
<1> HIDE DEF g
<1>5. \A s \in SUBSET N : g[s] \in A
  BY <1>1, <1>2, <1>4, FoldStays
<1> DEFINE G == {s \in SUBSET N : h[s] = g[s]}
<1>6. {} \in G
  <2>1. Unfolds(o, base, g, {})
    BY <1>4, FoldsAt
  <2> QED
    BY <2>1 DEF Unfolds
<1>7. ASSUME NEW s \in SUBSET N, s # {} /\ Butlast(s) \in G PROVE s \in G
  <2>1. Butlast(s) \in SUBSET N
    BY <1>1, <1>7, ButlastIn
  <2>2. Unfolds(o, base, g, s)
    BY <1>4, FoldsAt
  <2>3. g[s] = o[<<g[Butlast(s)], Max(s)>>] /\ g[Butlast(s)] \in A
    BY <1>5, <1>7, <2>1, <2>2 DEF Unfolds
  <2> QED
    BY <1>3, <1>7, <2>3
<1> HIDE DEF G
<1>8. \A s \in SUBSET N : s \in G
  BY <1>1, <1>6, <1>7, FoldInduct
<1>9. h[N] = g[N]
  BY <1>1, <1>8 DEF G
<1>10. g[1..0] = base /\ \A k \in 1..n : g[1..k] = o[<<g[1..(k - 1)], k>>]
  BY <1>4, FoldPrefixes DEF N
<1>11. v \in [0..n -> A]
  <2>1. ASSUME NEW k \in 0..n PROVE 1..k \in SUBSET N
    BY DEF N
  <2> QED
    BY <1>5, <2>1
<1>12. v[0] = base /\ v[n] = h[N]
  BY <1>9, <1>10 DEF N
<1>13. ASSUME NEW k \in 1..n PROVE v[k] = o[<<v[k - 1], k>>]
  <2>1. k \in 0..n /\ k - 1 \in 0..n
    OBVIOUS
  <2>2. v[k] = g[1..k] /\ v[k - 1] = g[1..(k - 1)]
    BY <2>1
  <2> QED
    BY <1>10, <2>2
<1> HIDE DEF v
<1>14. \E f \in [0..n -> A] : f[0] = base /\ f[n] = h[N] /\ \A k \in 1..n : f[k] = o[<<f[k - 1], k>>]
  BY <1>11, <1>12, <1>13
<1> QED
  BY <1>14 DEF Runs, N

\* There is such a function, and what it is given stays in A.
Given(o, base, n, A, g) ==
  /\ g = [s \in SUBSET (1..n) |-> IF s = {} THEN base ELSE o[<<g[s \ {Max(s)}], Max(s)>>]]
  /\ \A s \in SUBSET (1..n) : s # {} => g[s \ {Max(s)}] \in A /\ Max(s) \in 1..n

LEMMA FoldGiven ==
  ASSUME NEW n \in Nat, NEW A, NEW o, NEW base, Within(o, base, n, A)
  PROVE  Given(o, base, n, A, TheFold(o, base, 1..n))
<1> DEFINE N == 1..n
           g == TheFold(o, base, N)
<1>1. N \in SUBSET Int /\ IsFiniteSet(N) /\ N \in SUBSET N
  BY FS_Interval
<1>2. base \in A /\ \A a \in A, k \in N : o[<<a, k>>] \in A
  BY DEF Within
<1> HIDE DEF N
<1>3. Folds(o, base, N, g)
  BY <1>1, FoldExists
<1> HIDE DEF g
<1>4. \A s \in SUBSET N : g[s] \in A
  BY <1>1, <1>2, <1>3, FoldStays
<1>5. g = [s \in SUBSET N |-> IF s = {} THEN base ELSE o[<<g[s \ {Max(s)}], Max(s)>>]]
  BY <1>3 DEF Folds, Folding, Butlast
<1>6. ASSUME NEW s \in SUBSET N, s # {} PROVE g[s \ {Max(s)}] \in A /\ Max(s) \in N
  <2>1. Butlast(s) \in SUBSET N /\ Max(s) \in N
    BY <1>1, <1>6, ButlastIn
  <2> QED
    BY <1>4, <2>1 DEF Butlast
<1> QED
  BY <1>5, <1>6 DEF Given, N, g

---------------------------------------------------------------------------
(* Fractions: the recursion of the greatest common divisor is one          *)
(* function, and what is reduced by it is a fraction.                      *)

Euclid(g, B) == [p \in Int \X B |-> IF p[2] = 0 THEN p[1] ELSE g[<<p[2], p[1] % p[2]>>]]
Euclids(g, B) == g = Euclid(g, B)

LEMMA ModIn == ASSUME NEW a \in Int, NEW b \in Nat, b # 0 PROVE a % b \in Nat /\ a % b < b /\ a % b \in 0..(b - 1)
OBVIOUS

LEMMA EuclidAt ==
  ASSUME NEW B, NEW g, Euclids(g, B), NEW a \in Int, NEW b \in B
  PROVE  g[<<a, b>>] = IF b = 0 THEN a ELSE g[<<b, a % b>>]
BY DEF Euclids, Euclid

Downward(B) == B \in SUBSET Nat /\ \A n \in B, m \in Nat : m < n => m \in B
Same(g, h, B, C) == \A b \in Nat : b \in B /\ b \in C => \A a \in Int : g[<<a, b>>] = h[<<a, b>>]

\* The recursion of the greatest common divisor goes down, so that the function
\* there is up to a bound is one function.
LEMMA EuclidsAgree ==
  ASSUME NEW B, NEW C, Downward(B), Downward(C), NEW g, Euclids(g, B), NEW h, Euclids(h, C)
  PROVE  Same(g, h, B, C)
<1> DEFINE G == {b \in Nat : b \in B /\ b \in C => \A a \in Int : g[<<a, b>>] = h[<<a, b>>]}
<1>1. ASSUME NEW n \in Nat, \A m \in Nat : m < n => m \in G PROVE n \in G
  <2> SUFFICES ASSUME n \in B, n \in C, NEW a \in Int PROVE g[<<a, n>>] = h[<<a, n>>]
    OBVIOUS
  <2>1. /\ g[<<a, n>>] = IF n = 0 THEN a ELSE g[<<n, a % n>>]
        /\ h[<<a, n>>] = IF n = 0 THEN a ELSE h[<<n, a % n>>]
    BY EuclidAt
  <2>2. CASE n = 0
    BY <2>1, <2>2
  <2>3. CASE n # 0
    <3>1. a % n \in Nat /\ a % n < n
      BY <2>3, ModIn
    <3>2. a % n \in G /\ a % n \in B /\ a % n \in C
      BY <1>1, <3>1 DEF Downward
    <3>3. n \in Int
      OBVIOUS
    <3>4. g[<<n, a % n>>] = h[<<n, a % n>>]
      BY <3>2, <3>3
    <3> QED
      BY <2>1, <2>3, <3>4
  <2> QED
    BY <2>2, <2>3
<1> HIDE DEF G
<1>2. \A n \in Nat : n \in G
  BY <1>1, StrongInduct
<1> QED
  BY <1>2 DEF G, Same

TheEuclid(B) == CHOOSE g : Euclids(g, B)
UpTo(n) == 0..n

LEMMA UpToIs ==
  ASSUME NEW n \in Nat
  PROVE  Downward(UpTo(n)) /\ n \in UpTo(n) /\ \A m \in Nat : m < n => m \in UpTo(n)
BY DEF UpTo, Downward

LEMMA EuclidExists == ASSUME NEW n \in Nat PROVE Euclids(TheEuclid(UpTo(n)), UpTo(n))
<1> DEFINE G == {k \in Nat : \E g : Euclids(g, UpTo(k))}
<1>1. ASSUME NEW k \in Nat, \A m \in Nat : m < k => m \in G PROVE k \in G
  <2>1. CASE k = 0
    <3> DEFINE g == [p \in Int \X UpTo(0) |-> p[1]]
    <3>1. ASSUME NEW p \in Int \X UpTo(0) PROVE p[2] = 0
      BY DEF UpTo
    <3>2. g = Euclid(g, UpTo(0))
      BY <3>1 DEF Euclid
    <3> QED
      BY <2>1, <3>2 DEF Euclids
  <2>2. CASE k # 0
    <3>1. k - 1 \in Nat /\ k - 1 < k /\ (k - 1) + 1 = k
      BY <2>2
    <3>2. PICK f : Euclids(f, UpTo(k - 1))
      BY <1>1, <3>1
    <3> DEFINE g == Euclid(f, UpTo(k))
    <3>3. ASSUME NEW p \in Int \X UpTo(k)
          PROVE  g[p] = IF p[2] = 0 THEN p[1] ELSE f[<<p[2], p[1] % p[2]>>]
      BY DEF Euclid
    <3>4. ASSUME NEW a \in Int, NEW b \in UpTo(k - 1) PROVE g[<<a, b>>] = f[<<a, b>>]
      <4>1. b \in UpTo(k)
        BY <3>1 DEF UpTo
      <4>2. <<a, b>> \in Int \X UpTo(k) /\ <<a, b>>[1] = a /\ <<a, b>>[2] = b
        BY <4>1
      <4>3. g[<<a, b>>] = IF b = 0 THEN a ELSE f[<<b, a % b>>]
        BY <3>3, <4>2
      <4>4. f[<<a, b>>] = IF b = 0 THEN a ELSE f[<<b, a % b>>]
        BY <3>2, EuclidAt
      <4> QED
        BY <4>3, <4>4
    <3> HIDE DEF g
    <3>5. ASSUME NEW p \in Int \X UpTo(k)
          PROVE  (IF p[2] = 0 THEN p[1] ELSE f[<<p[2], p[1] % p[2]>>]) = (IF p[2] = 0 THEN p[1] ELSE g[<<p[2], p[1] % p[2]>>])
      <4>1. CASE p[2] = 0
        BY <4>1
      <4>2. CASE p[2] # 0
        <5>1. p[1] \in Int /\ p[2] \in Nat /\ p[2] \in Int /\ p[2] <= k
          BY DEF UpTo
        <5>2. p[1] % p[2] \in 0..(p[2] - 1)
          BY <4>2, <5>1, ModIn
        <5>3. p[1] % p[2] \in UpTo(k - 1)
          BY <5>1, <5>2 DEF UpTo
        <5> QED
          BY <3>4, <4>2, <5>1, <5>3
      <4> QED
        BY <4>1, <4>2
    <3>6. Euclid(f, UpTo(k)) = Euclid(g, UpTo(k))
      BY <3>5 DEF Euclid
    <3> QED
      BY <3>6 DEF Euclids, g
  <2> QED
    BY <2>1, <2>2
<1> HIDE DEF G
<1>2. \A k \in Nat : k \in G
  BY <1>1, StrongInduct
<1> QED
  BY <1>2 DEF G, TheEuclid

\* The recursive function Gcd is what its definition says.
LEMMA GcdIs ==
  ASSUME NEW a \in Int, NEW b \in Nat
  PROVE  Gcd[<<a, b>>] = IF b = 0 THEN a ELSE Gcd[<<b, a % b>>]
<1> DEFINE h == [p \in Int \X Nat |-> TheEuclid(UpTo(p[2]))[p]]
<1>0. ASSUME NEW x \in Int, NEW y \in Nat PROVE h[<<x, y>>] = TheEuclid(UpTo(y))[<<x, y>>]
  OBVIOUS
<1>0a. DOMAIN h = Int \X Nat /\ h = [p \in Int \X Nat |-> h[p]]
  OBVIOUS
<1> HIDE DEF h
<1>1. ASSUME NEW x \in Int, NEW y \in Nat PROVE h[<<x, y>>] = IF y = 0 THEN x ELSE h[<<y, x % y>>]
  <2>1. Euclids(TheEuclid(UpTo(y)), UpTo(y)) /\ y \in UpTo(y)
    BY EuclidExists, UpToIs
  <2>2. TheEuclid(UpTo(y))[<<x, y>>] = IF y = 0 THEN x ELSE TheEuclid(UpTo(y))[<<y, x % y>>]
    BY <2>1, EuclidAt
  <2>3. CASE y = 0
    BY <1>0, <2>2, <2>3
  <2>4. CASE y # 0
    <3> DEFINE m == x % y
    <3>1. m \in Nat /\ m < y /\ y \in Int
      BY <2>4, ModIn
    <3> HIDE DEF m
    <3>2. Euclids(TheEuclid(UpTo(m)), UpTo(m)) /\ m \in UpTo(m) /\ m \in UpTo(y)
      BY <3>1, EuclidExists, UpToIs
    <3>3. Same(TheEuclid(UpTo(y)), TheEuclid(UpTo(m)), UpTo(y), UpTo(m))
      BY <2>1, <3>1, <3>2, UpToIs, EuclidsAgree
    <3>4. TheEuclid(UpTo(y))[<<y, m>>] = TheEuclid(UpTo(m))[<<y, m>>]
      BY <3>1, <3>2, <3>3 DEF Same
    <3>5. h[<<y, m>>] = TheEuclid(UpTo(m))[<<y, m>>]
      BY <1>0, <3>1
    <3>6. h[<<x, y>>] = TheEuclid(UpTo(y))[<<y, m>>]
      BY <1>0, <2>2, <2>4 DEF m
    <3> QED
      BY <2>4, <3>4, <3>5, <3>6 DEF m
  <2> QED
    BY <2>3, <2>4
<1>2. ASSUME NEW p \in Int \X Nat PROVE h[p] = IF p[2] = 0 THEN p[1] ELSE h[<<p[2], p[1] % p[2]>>]
  <2>1. p[1] \in Int /\ p[2] \in Nat /\ p = <<p[1], p[2]>>
    OBVIOUS
  <2> QED
    BY <1>1, <2>1
<1>3. [p \in Int \X Nat |-> h[p]] = [p \in Int \X Nat |-> IF p[2] = 0 THEN p[1] ELSE h[<<p[2], p[1] % p[2]>>]]
  BY <1>2
<1>4. h = [p \in Int \X Nat |-> IF p[2] = 0 THEN p[1] ELSE h[<<p[2], p[1] % p[2]>>]]
  BY <1>0a, <1>3
<1>5. Gcd = [p \in Int \X Nat |-> IF p[2] = 0 THEN p[1] ELSE Gcd[<<p[2], p[1] % p[2]>>]]
  BY <1>4 DEF Gcd
<1> HIDE DEF Gcd
<1>6. <<a, b>> \in Int \X Nat /\ <<a, b>>[1] = a /\ <<a, b>>[2] = b
  OBVIOUS
<1> QED
  BY <1>5, <1>6

\* The greatest common divisor with a positive number is positive, and no
\* greater.
LEMMA GcdIn == \A d \in Nat : d > 0 => \A n \in Int : Gcd[<<n, d>>] \in 1..d
<1> DEFINE G == {d \in Nat : d > 0 => \A n \in Int : Gcd[<<n, d>>] \in 1..d}
<1>1. ASSUME NEW d \in Nat, \A m \in Nat : m < d => m \in G PROVE d \in G
  <2> SUFFICES ASSUME d > 0, NEW n \in Int PROVE Gcd[<<n, d>>] \in 1..d
    OBVIOUS
  <2>1. Gcd[<<n, d>>] = Gcd[<<d, n % d>>]
    BY GcdIs
  <2>2. n % d \in Nat /\ n % d < d /\ d \in Int
    BY ModIn
  <2>3. CASE n % d = 0
    <3>1. Gcd[<<d, 0>>] = d
      BY <2>2, GcdIs
    <3> QED
      BY <2>1, <2>3, <3>1
  <2>4. CASE n % d # 0
    <3> DEFINE m == n % d
    <3>1. m \in G /\ m > 0
      BY <1>1, <2>2, <2>4
    <3>2. Gcd[<<d, m>>] \in 1..m
      BY <2>2, <3>1
    <3>3. m \in Nat /\ m < d
      BY <2>2
    <3> HIDE DEF m
    <3>4. Gcd[<<d, m>>] \in 1..d
      BY <3>2, <3>3
    <3> QED
      BY <2>1, <3>4 DEF m
  <2> QED
    BY <2>3, <2>4
<1> HIDE DEF G
<1>2. \A d \in Nat : d \in G
  BY <1>1, StrongInduct
<1> QED
  BY <1>2 DEF G

Fractions == Nat \X (Nat \ {0})

LEMMA DivIn ==
  ASSUME NEW n \in Int, NEW g \in Nat, g > 0
  PROVE  n \div g \in Int /\ (n \in Nat => n \div g \in Nat) /\ (n >= g => n \div g >= 1)
OBVIOUS

\* A fraction stays one when it is reduced, and a whole number over one.
LEMMA FracIn ==
  ASSUME NEW n \in Int, NEW d \in Nat, d > 0
  PROVE  Frac(n, d) \in Int \X (Nat \ {0}) /\ (n \in Nat => Frac(n, d) \in Fractions)
<1> DEFINE g == Gcd[<<n, d>>]
<1>1. g \in 1..d
  BY GcdIn
<1>2. Frac(n, d) = IF n = 0 THEN <<0, 1>> ELSE <<n \div g, d \div g>>
  BY DEF Frac
<1> HIDE DEF g
<1>3. g \in Nat /\ g > 0 /\ d >= g
  BY <1>1
<1>4. n \div g \in Int /\ (n \in Nat => n \div g \in Nat)
  BY <1>3, DivIn
<1>5. d \div g \in Nat /\ d \div g >= 1
  BY <1>3, DivIn
<1> QED
  BY <1>2, <1>4, <1>5 DEF Fractions

LEMMA Whole == ASSUME NEW p \in Nat, NEW q \in Nat, q > 0 PROVE (p * q) % q = 0 /\ (p * q) \div q = p /\ q \div q = 1
<1>1. p * q \in Nat /\ (p * q = 0 => p = 0)
  OBVIOUS
<1>2. (p * q) \div q = p
  OBVIOUS
<1>3. (p * q) % q = 0
  OBVIOUS
<1>4. q \div q = 1
  OBVIOUS
<1> QED
  BY <1>2, <1>3, <1>4

LEMMA FracWhole == ASSUME NEW p \in Nat, NEW q \in Nat, q > 0 PROVE Frac(p * q, q) = <<p, 1>>
<1> DEFINE n == p * q
<1>1. n % q = 0 /\ n \div q = p /\ q \div q = 1 /\ n \in Int /\ q \in Int /\ (n = 0 => p = 0)
  BY Whole
<1> HIDE DEF n
<1>2. Gcd[<<n, q>>] = Gcd[<<q, n % q>>]
  BY <1>1, GcdIs
<1>3. Gcd[<<q, 0>>] = q
  <2>1. q \in Int /\ 0 \in Nat
    OBVIOUS
  <2> HIDE DEF n
  <2> QED
    BY <2>1, GcdIs
<1>4. Gcd[<<n, q>>] = q
  BY <1>1, <1>2, <1>3
<1>5. Frac(n, q) = IF n = 0 THEN <<0, 1>> ELSE <<n \div q, q \div q>>
  BY <1>4 DEF Frac
<1>6. Frac(n, q) = <<p, 1>>
  BY <1>1, <1>5
<1> QED
  BY <1>6 DEF n

---------------------------------------------------------------------------
(* What derivePosition makes of a trade.                                   *)

Fills == [side : {"buy", "sell"}, price : Nat \ {0}, qty : Nat \ {0}, bar : Nat]
\* A holding of nothing has a price for its average.
Holdings == {h \in [qty : Nat, avg : Fractions] : h.qty = 0 => h.avg[2] = 1}

LEMMA AveragedIn ==
  ASSUME NEW avg \in Fractions, NEW left \in Nat, NEW price \in Nat, NEW qty \in Nat, qty > 0
  PROVE  Averaged(avg, left, price, qty) \in Fractions
<1> DEFINE n == avg[1] * left + price * qty * avg[2]
           d == avg[2] * (left + qty)
<1>1. avg[1] \in Nat /\ avg[2] \in Nat /\ avg[2] > 0
  BY DEF Fractions
<1>2. n \in Nat
  BY <1>1
<1>3. d \in Nat /\ d > 0
  BY <1>1
<1>4. Averaged(avg, left, price, qty) = Frac(n, d)
  BY DEF Averaged
<1> HIDE DEF n, d
<1> QED
  BY <1>2, <1>3, <1>4, FracIn

\* The first quantity bought has its price for an average.
LEMMA AveragedFirst ==
  ASSUME NEW avg \in Fractions, avg[2] = 1, NEW price \in Nat, NEW qty \in Nat, qty > 0
  PROVE  Averaged(avg, 0, price, qty) = Price(price)
<1>1. avg[1] \in Nat
  BY DEF Fractions
<1>2. avg[1] * 0 + price * qty * avg[2] = price * qty /\ avg[2] * (0 + qty) = qty
  BY <1>1
<1>3. Averaged(avg, 0, price, qty) = Frac(price * qty, qty)
  BY <1>2 DEF Averaged
<1> QED
  BY <1>3, FracWhole DEF Price

LEMMA DeriveTradeIn ==
  ASSUME NEW d \in Holdings, NEW t \in Fills
  PROVE  DeriveTrade(d, t) \in Holdings
<1>1. d.qty \in Nat /\ d.avg \in Fractions /\ t.qty \in Nat /\ t.qty > 0 /\ t.price \in Nat
  BY DEF Holdings, Fills
<1>2. CASE t.side = "buy"
  <2>1. Averaged(d.avg, d.qty, t.price, t.qty) \in Fractions
    BY <1>1, AveragedIn
  <2>2. d.qty + t.qty \in Nat /\ d.qty + t.qty # 0
    BY <1>1
  <2> QED
    BY <1>2, <2>1, <2>2 DEF Holdings, DeriveTrade
<1>3. CASE t.side # "buy"
  <2> DEFINE sell == IF t.qty < d.qty THEN t.qty ELSE d.qty
  <2>1. d.qty - sell \in Nat /\ (d.qty - sell = 0 => sell = d.qty)
    BY <1>1
  <2>2. Price(0) \in Fractions /\ Price(0)[2] = 1
    BY DEF Price, Fractions
  <2>3. DeriveTrade(d, t) = [qty |-> d.qty - sell, avg |-> IF sell = d.qty THEN Price(0) ELSE d.avg]
    BY <1>3 DEF DeriveTrade
  <2> HIDE DEF sell
  <2> QED
    BY <1>1, <2>1, <2>2, <2>3 DEF Holdings
<1> QED
  BY <1>2, <1>3

---------------------------------------------------------------------------
(* The ladder: each of its folds by its steps, what a tick takes and adds, *)
(* and that derivePosition makes of the sales and purchases what the tick  *)
(* decides.                                                                *)

TakeAll(ladder, price, levels, base) == FoldLeft(LAMBDA a, k : TakeProfit(ladder, price, a, k), base, levels)
ScaleAll(si, price, paid, levels, base) == FoldLeft(LAMBDA a, k : ScaleInLevel(si, price, paid, a, k), base, levels)
PyramidAll(py, price, paid, levels, base) == FoldLeft(LAMBDA a, k : PyramidLevel(py, price, paid, a, k), base, levels)
\* The folds of the ladder by their names.
LEMMA LadderFolds == ASSUME NEW pos, NEW price, NEW L, NEW paid, NEW down PROVE
  /\ TakenProfits(pos, price, L) = TakeAll(L.tp, price, Levels(L.tp), Acc(pos, pos.tp))
  /\ ScaledIn(pos, price, L, paid) = ScaleAll(L.si, price, paid, Levels(L.si.ladder), Acc(pos, pos.si))
  /\ Pyramided(pos, price, L, paid, down) = PyramidAll(L.py, price, paid, Levels(L.py.ladder), [down EXCEPT !.used = pos.py])
BY DEF TakenProfits, TakeAll, ScaledIn, ScaleAll, Pyramided, PyramidAll, FoldLeft, MapThenFoldSet

\* The fold of derivePosition.
DeriveSteps(trades, base, A) ==
  \E v \in [0..Len(trades) -> A] :
    /\ v[0] = base /\ v[Len(trades)] = DerivePosition(trades, base)
    /\ \A k \in 1..Len(trades) : v[k] = DeriveTrade(v[k - 1], trades[k])
DeriveStays(trades, base, A) ==
  /\ base \in A /\ Len(trades) \in Nat /\ DOMAIN trades = 1..Len(trades)
  /\ \A a \in A, k \in 1..Len(trades) : DeriveTrade(a, trades[k]) \in A
LEMMA DeriveFold == ASSUME NEW trades, NEW base, NEW A, DeriveStays(trades, base, A) PROVE DeriveSteps(trades, base, A)
<1> USE DEF DeriveStays
<1> DEFINE n == Len(trades)
           o == [x \in A \X (1..n) |-> DeriveTrade(x[1], trades[x[2]])]
           g == TheFold(o, base, 1..n)
           E(f) == f = [s \in SUBSET (1..n) |-> IF s = {} THEN base ELSE DeriveTrade(f[s \ {Max(s)}], trades[Max(s)])]
           h == CHOOSE f : E(f)
<1>1. ASSUME NEW a \in A, NEW k \in 1..n PROVE o[<<a, k>>] = DeriveTrade(a, trades[k]) /\ o[<<a, k>>] \in A
  OBVIOUS
<1>2. DerivePosition(trades, base) = h[1..n]
  BY DEF DerivePosition, FoldLeft, MapThenFoldSet
<1> HIDE DEF o, n
<1> HIDE DEF DeriveStays
<1>3. Within(o, base, n, A) /\ n \in Nat
  BY <1>1 DEF Within, n, DeriveStays
<1>4. Given(o, base, n, A, g)
  BY <1>3, FoldGiven
<1> HIDE DEF g
<1>5. E(g)
  <2>1. ASSUME NEW s \in SUBSET (1..n)
        PROVE  (IF s = {} THEN base ELSE o[<<g[s \ {Max(s)}], Max(s)>>]) = (IF s = {} THEN base ELSE DeriveTrade(g[s \ {Max(s)}], trades[Max(s)]))
    BY <1>1, <1>4 DEF Given
  <2>2. [s \in SUBSET (1..n) |-> IF s = {} THEN base ELSE o[<<g[s \ {Max(s)}], Max(s)>>]] =
        [s \in SUBSET (1..n) |-> IF s = {} THEN base ELSE DeriveTrade(g[s \ {Max(s)}], trades[Max(s)])]
    BY <2>1
  <2> QED
    BY <1>4, <2>2 DEF Given
<1>6. E(h)
  BY <1>5
<1> HIDE DEF h
<1>7. ASSUME NEW s \in SUBSET (1..n) PROVE h[s] = IF s = {} THEN base ELSE DeriveTrade(h[s \ {Max(s)}], trades[Max(s)])
  BY <1>6
<1>8. ASSUME NEW s \in SUBSET (1..n), s # {}, h[Butlast(s)] \in A PROVE h[s] = o[<<h[Butlast(s)], Max(s)>>]
  BY <1>1, <1>4, <1>7, <1>8 DEF Butlast, Given
<1>9. Runs(o, base, n, A, h[1..n])
  BY <1>3, <1>7, <1>8, FoldRuns
<1>10. PICK v \in [0..n -> A] : v[0] = base /\ v[n] = h[1..n] /\ \A k \in 1..n : v[k] = o[<<v[k - 1], k>>]
  BY <1>9 DEF Runs
<1>11. ASSUME NEW k \in 1..n PROVE v[k] = DeriveTrade(v[k - 1], trades[k])
  <2>1. k - 1 \in 0..n
    BY <1>3
  <2>2. v[k - 1] \in A /\ v[k] = o[<<v[k - 1], k>>]
    BY <1>10, <2>1
  <2> QED
    BY <1>1, <2>2
<1> QED
  BY <1>2, <1>10, <1>11 DEF n, DeriveSteps

\* The fold of the levels of taking profit.
TakeSteps(ladder, price, levels, base, A) ==
  \E v \in [0..Len(levels) -> A] :
    /\ v[0] = base /\ v[Len(levels)] = TakeAll(ladder, price, levels, base)
    /\ \A k \in 1..Len(levels) : v[k] = TakeProfit(ladder, price, v[k - 1], levels[k])
TakeStays(ladder, price, levels, base, A) ==
  /\ base \in A /\ Len(levels) \in Nat /\ DOMAIN levels = 1..Len(levels)
  /\ \A a \in A, k \in 1..Len(levels) : TakeProfit(ladder, price, a, levels[k]) \in A
LEMMA TakeFold == ASSUME NEW ladder, NEW price, NEW levels, NEW base, NEW A, TakeStays(ladder, price, levels, base, A) PROVE TakeSteps(ladder, price, levels, base, A)
<1> USE DEF TakeStays
<1> DEFINE n == Len(levels)
           o == [x \in A \X (1..n) |-> TakeProfit(ladder, price, x[1], levels[x[2]])]
           g == TheFold(o, base, 1..n)
           E(f) == f = [s \in SUBSET (1..n) |-> IF s = {} THEN base ELSE TakeProfit(ladder, price, f[s \ {Max(s)}], levels[Max(s)])]
           h == CHOOSE f : E(f)
<1>1. ASSUME NEW a \in A, NEW k \in 1..n PROVE o[<<a, k>>] = TakeProfit(ladder, price, a, levels[k]) /\ o[<<a, k>>] \in A
  OBVIOUS
<1>2. TakeAll(ladder, price, levels, base) = h[1..n]
  BY DEF TakeAll, FoldLeft, MapThenFoldSet
<1> HIDE DEF o, n
<1> HIDE DEF TakeStays
<1>3. Within(o, base, n, A) /\ n \in Nat
  BY <1>1 DEF Within, n, TakeStays
<1>4. Given(o, base, n, A, g)
  BY <1>3, FoldGiven
<1> HIDE DEF g
<1>5. E(g)
  <2>1. ASSUME NEW s \in SUBSET (1..n)
        PROVE  (IF s = {} THEN base ELSE o[<<g[s \ {Max(s)}], Max(s)>>]) = (IF s = {} THEN base ELSE TakeProfit(ladder, price, g[s \ {Max(s)}], levels[Max(s)]))
    BY <1>1, <1>4 DEF Given
  <2>2. [s \in SUBSET (1..n) |-> IF s = {} THEN base ELSE o[<<g[s \ {Max(s)}], Max(s)>>]] =
        [s \in SUBSET (1..n) |-> IF s = {} THEN base ELSE TakeProfit(ladder, price, g[s \ {Max(s)}], levels[Max(s)])]
    BY <2>1
  <2> QED
    BY <1>4, <2>2 DEF Given
<1>6. E(h)
  BY <1>5
<1> HIDE DEF h
<1>7. ASSUME NEW s \in SUBSET (1..n) PROVE h[s] = IF s = {} THEN base ELSE TakeProfit(ladder, price, h[s \ {Max(s)}], levels[Max(s)])
  BY <1>6
<1>8. ASSUME NEW s \in SUBSET (1..n), s # {}, h[Butlast(s)] \in A PROVE h[s] = o[<<h[Butlast(s)], Max(s)>>]
  BY <1>1, <1>4, <1>7, <1>8 DEF Butlast, Given
<1>9. Runs(o, base, n, A, h[1..n])
  BY <1>3, <1>7, <1>8, FoldRuns
<1>10. PICK v \in [0..n -> A] : v[0] = base /\ v[n] = h[1..n] /\ \A k \in 1..n : v[k] = o[<<v[k - 1], k>>]
  BY <1>9 DEF Runs
<1>11. ASSUME NEW k \in 1..n PROVE v[k] = TakeProfit(ladder, price, v[k - 1], levels[k])
  <2>1. k - 1 \in 0..n
    BY <1>3
  <2>2. v[k - 1] \in A /\ v[k] = o[<<v[k - 1], k>>]
    BY <1>10, <2>1
  <2> QED
    BY <1>1, <2>2
<1> QED
  BY <1>2, <1>10, <1>11 DEF n, TakeSteps

\* The fold of the levels of scaling in.
ScaleSteps(si, price, paid, levels, base, A) ==
  \E v \in [0..Len(levels) -> A] :
    /\ v[0] = base /\ v[Len(levels)] = ScaleAll(si, price, paid, levels, base)
    /\ \A k \in 1..Len(levels) : v[k] = ScaleInLevel(si, price, paid, v[k - 1], levels[k])
ScaleStays(si, price, paid, levels, base, A) ==
  /\ base \in A /\ Len(levels) \in Nat /\ DOMAIN levels = 1..Len(levels)
  /\ \A a \in A, k \in 1..Len(levels) : ScaleInLevel(si, price, paid, a, levels[k]) \in A
LEMMA ScaleFold == ASSUME NEW si, NEW price, NEW paid, NEW levels, NEW base, NEW A, ScaleStays(si, price, paid, levels, base, A) PROVE ScaleSteps(si, price, paid, levels, base, A)
<1> USE DEF ScaleStays
<1> DEFINE n == Len(levels)
           o == [x \in A \X (1..n) |-> ScaleInLevel(si, price, paid, x[1], levels[x[2]])]
           g == TheFold(o, base, 1..n)
           E(f) == f = [s \in SUBSET (1..n) |-> IF s = {} THEN base ELSE ScaleInLevel(si, price, paid, f[s \ {Max(s)}], levels[Max(s)])]
           h == CHOOSE f : E(f)
<1>1. ASSUME NEW a \in A, NEW k \in 1..n PROVE o[<<a, k>>] = ScaleInLevel(si, price, paid, a, levels[k]) /\ o[<<a, k>>] \in A
  OBVIOUS
<1>2. ScaleAll(si, price, paid, levels, base) = h[1..n]
  BY DEF ScaleAll, FoldLeft, MapThenFoldSet
<1> HIDE DEF o, n
<1> HIDE DEF ScaleStays
<1>3. Within(o, base, n, A) /\ n \in Nat
  BY <1>1 DEF Within, n, ScaleStays
<1>4. Given(o, base, n, A, g)
  BY <1>3, FoldGiven
<1> HIDE DEF g
<1>5. E(g)
  <2>1. ASSUME NEW s \in SUBSET (1..n)
        PROVE  (IF s = {} THEN base ELSE o[<<g[s \ {Max(s)}], Max(s)>>]) = (IF s = {} THEN base ELSE ScaleInLevel(si, price, paid, g[s \ {Max(s)}], levels[Max(s)]))
    BY <1>1, <1>4 DEF Given
  <2>2. [s \in SUBSET (1..n) |-> IF s = {} THEN base ELSE o[<<g[s \ {Max(s)}], Max(s)>>]] =
        [s \in SUBSET (1..n) |-> IF s = {} THEN base ELSE ScaleInLevel(si, price, paid, g[s \ {Max(s)}], levels[Max(s)])]
    BY <2>1
  <2> QED
    BY <1>4, <2>2 DEF Given
<1>6. E(h)
  BY <1>5
<1> HIDE DEF h
<1>7. ASSUME NEW s \in SUBSET (1..n) PROVE h[s] = IF s = {} THEN base ELSE ScaleInLevel(si, price, paid, h[s \ {Max(s)}], levels[Max(s)])
  BY <1>6
<1>8. ASSUME NEW s \in SUBSET (1..n), s # {}, h[Butlast(s)] \in A PROVE h[s] = o[<<h[Butlast(s)], Max(s)>>]
  BY <1>1, <1>4, <1>7, <1>8 DEF Butlast, Given
<1>9. Runs(o, base, n, A, h[1..n])
  BY <1>3, <1>7, <1>8, FoldRuns
<1>10. PICK v \in [0..n -> A] : v[0] = base /\ v[n] = h[1..n] /\ \A k \in 1..n : v[k] = o[<<v[k - 1], k>>]
  BY <1>9 DEF Runs
<1>11. ASSUME NEW k \in 1..n PROVE v[k] = ScaleInLevel(si, price, paid, v[k - 1], levels[k])
  <2>1. k - 1 \in 0..n
    BY <1>3
  <2>2. v[k - 1] \in A /\ v[k] = o[<<v[k - 1], k>>]
    BY <1>10, <2>1
  <2> QED
    BY <1>1, <2>2
<1> QED
  BY <1>2, <1>10, <1>11 DEF n, ScaleSteps

\* The fold of the levels of pyramiding.
PyramidSteps(py, price, paid, levels, base, A) ==
  \E v \in [0..Len(levels) -> A] :
    /\ v[0] = base /\ v[Len(levels)] = PyramidAll(py, price, paid, levels, base)
    /\ \A k \in 1..Len(levels) : v[k] = PyramidLevel(py, price, paid, v[k - 1], levels[k])
PyramidStays(py, price, paid, levels, base, A) ==
  /\ base \in A /\ Len(levels) \in Nat /\ DOMAIN levels = 1..Len(levels)
  /\ \A a \in A, k \in 1..Len(levels) : PyramidLevel(py, price, paid, a, levels[k]) \in A
LEMMA PyramidFold == ASSUME NEW py, NEW price, NEW paid, NEW levels, NEW base, NEW A, PyramidStays(py, price, paid, levels, base, A) PROVE PyramidSteps(py, price, paid, levels, base, A)
<1> USE DEF PyramidStays
<1> DEFINE n == Len(levels)
           o == [x \in A \X (1..n) |-> PyramidLevel(py, price, paid, x[1], levels[x[2]])]
           g == TheFold(o, base, 1..n)
           E(f) == f = [s \in SUBSET (1..n) |-> IF s = {} THEN base ELSE PyramidLevel(py, price, paid, f[s \ {Max(s)}], levels[Max(s)])]
           h == CHOOSE f : E(f)
<1>1. ASSUME NEW a \in A, NEW k \in 1..n PROVE o[<<a, k>>] = PyramidLevel(py, price, paid, a, levels[k]) /\ o[<<a, k>>] \in A
  OBVIOUS
<1>2. PyramidAll(py, price, paid, levels, base) = h[1..n]
  BY DEF PyramidAll, FoldLeft, MapThenFoldSet
<1> HIDE DEF o, n
<1> HIDE DEF PyramidStays
<1>3. Within(o, base, n, A) /\ n \in Nat
  BY <1>1 DEF Within, n, PyramidStays
<1>4. Given(o, base, n, A, g)
  BY <1>3, FoldGiven
<1> HIDE DEF g
<1>5. E(g)
  <2>1. ASSUME NEW s \in SUBSET (1..n)
        PROVE  (IF s = {} THEN base ELSE o[<<g[s \ {Max(s)}], Max(s)>>]) = (IF s = {} THEN base ELSE PyramidLevel(py, price, paid, g[s \ {Max(s)}], levels[Max(s)]))
    BY <1>1, <1>4 DEF Given
  <2>2. [s \in SUBSET (1..n) |-> IF s = {} THEN base ELSE o[<<g[s \ {Max(s)}], Max(s)>>]] =
        [s \in SUBSET (1..n) |-> IF s = {} THEN base ELSE PyramidLevel(py, price, paid, g[s \ {Max(s)}], levels[Max(s)])]
    BY <2>1
  <2> QED
    BY <1>4, <2>2 DEF Given
<1>6. E(h)
  BY <1>5
<1> HIDE DEF h
<1>7. ASSUME NEW s \in SUBSET (1..n) PROVE h[s] = IF s = {} THEN base ELSE PyramidLevel(py, price, paid, h[s \ {Max(s)}], levels[Max(s)])
  BY <1>6
<1>8. ASSUME NEW s \in SUBSET (1..n), s # {}, h[Butlast(s)] \in A PROVE h[s] = o[<<h[Butlast(s)], Max(s)>>]
  BY <1>1, <1>4, <1>7, <1>8 DEF Butlast, Given
<1>9. Runs(o, base, n, A, h[1..n])
  BY <1>3, <1>7, <1>8, FoldRuns
<1>10. PICK v \in [0..n -> A] : v[0] = base /\ v[n] = h[1..n] /\ \A k \in 1..n : v[k] = o[<<v[k - 1], k>>]
  BY <1>9 DEF Runs
<1>11. ASSUME NEW k \in 1..n PROVE v[k] = PyramidLevel(py, price, paid, v[k - 1], levels[k])
  <2>1. k - 1 \in 0..n
    BY <1>3
  <2>2. v[k - 1] \in A /\ v[k] = o[<<v[k - 1], k>>]
    BY <1>10, <2>1
  <2> QED
    BY <1>1, <2>2
<1> QED
  BY <1>2, <1>10, <1>11 DEF n, PyramidSteps

\* A sequence of fills as the folds take it.
LEMMA SeqIs == ASSUME NEW S, NEW s \in Seq(S) PROVE Len(s) \in Nat /\ DOMAIN s = 1..Len(s) /\ \A k \in 1..Len(s) : s[k] \in S
OBVIOUS

LEMMA DeriveIn ==
  ASSUME NEW trades \in Seq(Fills), NEW seed \in Holdings
  PROVE  DerivePosition(trades, seed) \in Holdings
<1>1. Len(trades) \in Nat /\ DOMAIN trades = 1..Len(trades) /\ \A k \in 1..Len(trades) : trades[k] \in Fills
  BY SeqIs
<1>2. \A a \in Holdings, k \in 1..Len(trades) : DeriveTrade(a, trades[k]) \in Holdings
  BY <1>1, DeriveTradeIn
<1>3. DeriveSteps(trades, seed, Holdings)
  BY <1>1, <1>2, DeriveFold DEF DeriveStays
<1>4. PICK v \in [0..Len(trades) -> Holdings] :
        /\ v[0] = seed /\ v[Len(trades)] = DerivePosition(trades, seed)
        /\ \A k \in 1..Len(trades) : v[k] = DeriveTrade(v[k - 1], trades[k])
  BY <1>3 DEF DeriveSteps
<1> QED
  BY <1>1, <1>4

LEMMA DeriveNone == ASSUME NEW seed \in Holdings PROVE DerivePosition(<<>>, seed) = seed
<1> DEFINE none == <<>>
<1>1. none \in Seq(Fills)
  OBVIOUS
<1>2. Len(none) = 0
  OBVIOUS
<1> HIDE DEF none
<1>3. Len(none) \in Nat /\ DOMAIN none = 1..Len(none)
  BY <1>1, SeqIs
<1>4. \A a \in Holdings, k \in 1..Len(none) : DeriveTrade(a, none[k]) \in Holdings
  BY <1>2
<1>5. PICK v \in [0..Len(none) -> Holdings] :
        /\ v[0] = seed /\ v[Len(none)] = DerivePosition(none, seed)
        /\ \A k \in 1..Len(none) : v[k] = DeriveTrade(v[k - 1], none[k])
  <2>1. DeriveSteps(none, seed, Holdings)
    BY <1>3, <1>4, DeriveFold DEF DeriveStays
  <2> QED
    BY <2>1 DEF DeriveSteps
<1> QED
  BY <1>2, <1>5 DEF none

\* One trade more.
LEMMA DeriveMore ==
  ASSUME NEW trades \in Seq(Fills), NEW seed \in Holdings, NEW t \in Fills
  PROVE  DerivePosition(Append(trades, t), seed) = DeriveTrade(DerivePosition(trades, seed), t)
<1> DEFINE more == Append(trades, t)
           n == Len(trades)
<1>1. more \in Seq(Fills) /\ Len(more) = n + 1 /\ n \in Nat /\ more[n + 1] = t /\ \A k \in 1..n : more[k] = trades[k]
  OBVIOUS
<1> HIDE DEF more
<1>2. DOMAIN trades = 1..n /\ \A k \in 1..n : trades[k] \in Fills
  BY SeqIs
<1>3. Len(more) \in Nat /\ DOMAIN more = 1..Len(more) /\ \A k \in 1..Len(more) : more[k] \in Fills
  BY <1>1, SeqIs
<1>4. /\ \A a \in Holdings, k \in 1..Len(trades) : DeriveTrade(a, trades[k]) \in Holdings
      /\ \A a \in Holdings, k \in 1..Len(more) : DeriveTrade(a, more[k]) \in Holdings
  BY <1>2, <1>3, DeriveTradeIn
<1>5. PICK v \in [0..Len(trades) -> Holdings] :
        /\ v[0] = seed /\ v[Len(trades)] = DerivePosition(trades, seed)
        /\ \A k \in 1..Len(trades) : v[k] = DeriveTrade(v[k - 1], trades[k])
  <2>1. DeriveSteps(trades, seed, Holdings)
    BY <1>1, <1>2, <1>4, DeriveFold DEF DeriveStays
  <2> QED
    BY <2>1 DEF DeriveSteps
<1>6. PICK w \in [0..Len(more) -> Holdings] :
        /\ w[0] = seed /\ w[Len(more)] = DerivePosition(more, seed)
        /\ \A k \in 1..Len(more) : w[k] = DeriveTrade(w[k - 1], more[k])
  <2>1. DeriveSteps(more, seed, Holdings)
    BY <1>3, <1>4, DeriveFold DEF DeriveStays
  <2> QED
    BY <2>1 DEF DeriveSteps
<1> DEFINE G == {k \in 0..n : v[k] = w[k]}
<1>7. 0 \in G
  BY <1>1, <1>5, <1>6
<1>8. ASSUME NEW k \in 1..n, k - 1 \in G PROVE k \in G
  <2>1. v[k] = DeriveTrade(v[k - 1], trades[k])
    BY <1>5
  <2>2. k \in 1..Len(more)
    BY <1>1
  <2>3. w[k] = DeriveTrade(w[k - 1], more[k])
    BY <1>6, <2>2
  <2>4. k \in 0..n /\ v[k - 1] = w[k - 1] /\ more[k] = trades[k]
    BY <1>1, <1>8
  <2> QED
    BY <2>1, <2>3, <2>4
<1> HIDE DEF G
<1>9. \A k \in 0..n : k \in G
  BY <1>1, <1>7, <1>8, UpInduct
<1>10. n \in 0..n /\ n + 1 \in 1..Len(more) /\ (n + 1) - 1 = n
  BY <1>1
<1>11. v[n] = w[n]
  BY <1>9, <1>10 DEF G
<1>12. w[n + 1] = DeriveTrade(w[n], more[n + 1])
  BY <1>6, <1>10
<1> QED
  BY <1>1, <1>5, <1>6, <1>11, <1>12 DEF more

---------------------------------------------------------------------------
(* A bar's sales, or its purchases, one after the other: the quantities    *)
(* out each traded at price take what derivePosition holds from h to l.    *)
Sizes == Nat \ {0}
Draws(h, side, price, i, out, l) ==
  /\ out \in Seq(Sizes)
  /\ \E w \in [0..Len(out) -> Holdings] :
       /\ w[0] = h /\ w[Len(out)] = l
       /\ \A k \in 1..Len(out) : /\ side = "sell" => out[k] <= w[k - 1].qty
                                 /\ w[k] = DeriveTrade(w[k - 1], Trade(side, price, out[k], i))

LEMMA DrawsNone == ASSUME NEW h \in Holdings, NEW side, NEW price, NEW i PROVE Draws(h, side, price, i, <<>>, h)
<1> DEFINE none == <<>>
           w == [k \in 0..0 |-> h]
<1>1. none \in Seq(Sizes) /\ Len(none) = 0 /\ 1..0 = {}
  OBVIOUS
<1>2. w \in [0..0 -> Holdings] /\ w[0] = h
  OBVIOUS
<1> HIDE DEF none, w
<1>3. \E u \in [0..Len(none) -> Holdings] :
        /\ u[0] = h /\ u[Len(none)] = h
        /\ \A k \in 1..Len(none) : /\ side = "sell" => none[k] <= u[k - 1].qty
                                   /\ u[k] = DeriveTrade(u[k - 1], Trade(side, price, none[k], i))
  BY <1>1, <1>2
<1> QED
  BY <1>1, <1>3 DEF Draws, none

LEMMA TradeIn ==
  ASSUME NEW side \in {"buy", "sell"}, NEW price \in Sizes, NEW q \in Sizes, NEW i \in Nat
  PROVE  Trade(side, price, q, i) \in Fills
BY DEF Trade, Fills, Sizes

LEMMA DrawsMore ==
  ASSUME NEW h, NEW side \in {"buy", "sell"}, NEW price \in Sizes, NEW i \in Nat, NEW out, NEW l, Draws(h, side, price, i, out, l),
         NEW q \in Sizes, side = "sell" => q <= l.qty
  PROVE  Draws(h, side, price, i, Append(out, q), DeriveTrade(l, Trade(side, price, q, i)))
<1> DEFINE n == Len(out)
           more == Append(out, q)
           t == Trade(side, price, q, i)
           last == DeriveTrade(l, t)
<1>0. out \in Seq(Sizes)
  BY DEF Draws
<1>1. PICK w \in [0..n -> Holdings] :
        /\ w[0] = h /\ w[n] = l
        /\ \A k \in 1..n : /\ side = "sell" => out[k] <= w[k - 1].qty
                           /\ w[k] = DeriveTrade(w[k - 1], Trade(side, price, out[k], i))
  BY DEF Draws
<1>2. n \in Nat /\ more \in Seq(Sizes) /\ Len(more) = n + 1 /\ more[n + 1] = q /\ \A k \in 1..n : more[k] = out[k]
  BY <1>0
<1> HIDE DEF more
<1>3. l \in Holdings
  BY <1>1, <1>2
<1>4. last \in Holdings
  BY <1>3, TradeIn, DeriveTradeIn
<1> HIDE DEF last, n
<1> DEFINE u == [k \in 0..(n + 1) |-> IF k = n + 1 THEN last ELSE w[k]]
<1>5. u \in [0..(n + 1) -> Holdings]
  <2>1. ASSUME NEW k \in 0..(n + 1), k # n + 1 PROVE k \in 0..n
    BY <1>2, <2>1
  <2> QED
    BY <1>1, <1>4, <2>1
<1>6. u[n + 1] = last /\ \A k \in 0..n : u[k] = w[k]
  BY <1>2
<1> HIDE DEF u
<1>7. u[0] = h /\ u[n] = l
  BY <1>1, <1>2, <1>6
<1>8. ASSUME NEW k \in 1..(n + 1)
      PROVE  (side = "sell" => more[k] <= u[k - 1].qty) /\ u[k] = DeriveTrade(u[k - 1], Trade(side, price, more[k], i))
  <2>1. CASE k = n + 1
    <3>1. k - 1 = n
      BY <1>2, <2>1
    <3> QED
      BY <1>2, <1>6, <1>7, <2>1, <3>1 DEF last
  <2>2. CASE k # n + 1
    <3>1. k \in 1..n /\ k - 1 \in 0..n /\ k \in 0..n
      BY <1>2, <2>2
    <3> QED
      BY <1>1, <1>2, <1>6, <3>1
  <2> QED
    BY <2>1, <2>2
<1> QED
  BY <1>2, <1>5, <1>6, <1>7, <1>8 DEF Draws, more, last

---------------------------------------------------------------------------
(* The ladder of a long position.                                          *)
Accs == [base : Nat, left : Nat, avg : Fractions, used : SUBSET Nat, out : Seq(Sizes)]
Held(left, avg) == [qty |-> left, avg |-> IF left = 0 THEN Price(0) ELSE avg]

LEMMA HeldIn == ASSUME NEW left \in Nat, NEW avg \in Fractions PROVE Held(left, avg) \in Holdings
<1>1. Price(0) \in Fractions /\ Price(0)[2] = 1
  BY DEF Price, Fractions
<1> QED
  BY <1>1 DEF Held, Holdings

\* What taking profit has come to: part of the position sold, its average kept.
Selling(pos, price, i) ==
  {a \in Accs : a.base = pos.base /\ a.avg = pos.avg /\ Draws(Held(pos.left, pos.avg), "sell", price, i, a.out, Held(a.left, a.avg))}

LEMMA DeriveSell ==
  ASSUME NEW left \in Nat, NEW avg \in Fractions, NEW price \in Sizes, NEW q \in Sizes, NEW i \in Nat, q <= left
  PROVE  DeriveTrade(Held(left, avg), Trade("sell", price, q, i)) = Held(left - q, avg)
<1>1. left # 0 /\ left \in Int /\ q \in Int /\ (left - q = 0 <=> q = left)
  BY DEF Sizes
<1>2. Held(left, avg) = [qty |-> left, avg |-> avg]
  BY <1>1 DEF Held
<1>3. (IF q < left THEN q ELSE left) = q
  BY <1>1
<1>4. Trade("sell", price, q, i).side = "sell" /\ Trade("sell", price, q, i).qty = q
  BY DEF Trade
<1>5. DeriveTrade(Held(left, avg), Trade("sell", price, q, i)) = [qty |-> left - q, avg |-> IF q = left THEN Price(0) ELSE avg]
  BY <1>2, <1>3, <1>4 DEF DeriveTrade
<1> QED
  BY <1>1, <1>5 DEF Held

LEMMA DeriveBuy ==
  ASSUME NEW left \in Nat, NEW avg \in Fractions, NEW price \in Sizes, NEW q \in Sizes, NEW i \in Nat, left > 0
  PROVE  DeriveTrade(Held(left, avg), Trade("buy", price, q, i)) = Held(left + q, Averaged(avg, left, price, q))
<1>1. left + q # 0 /\ left # 0
  BY DEF Sizes
<1>2. Held(left, avg) = [qty |-> left, avg |-> avg]
  BY <1>1 DEF Held
<1>4. Trade("buy", price, q, i).side = "buy" /\ Trade("buy", price, q, i).qty = q /\ Trade("buy", price, q, i).price = price
  BY DEF Trade
<1> QED
  BY <1>1, <1>2, <1>4 DEF Held, DeriveTrade

LEMMA AccIs ==
  ASSUME NEW a \in Accs
  PROVE  /\ a.base \in Nat /\ a.left \in Nat /\ a.avg \in Fractions /\ a.used \in SUBSET Nat /\ a.out \in Seq(Sizes)
         /\ a = [base |-> a.base, left |-> a.left, avg |-> a.avg, used |-> a.used, out |-> a.out]
BY DEF Accs

LEMMA PartOf ==
  ASSUME NEW left \in Nat, NEW share \in 1..100
  PROVE  (left * share) \div 100 \in Nat /\ (left * share) \div 100 <= left
<1> DEFINE m == left * share
<1>1. m \in Nat /\ m <= left * 100
  OBVIOUS
<1> HIDE DEF m
<1>2. m \div 100 \in Nat /\ m \div 100 <= left
  BY <1>1
<1> QED
  BY <1>2 DEF m

\* One level of taking profit sells no more than is left.
LEMMA TakeProfitIn ==
  ASSUME NEW pos, NEW price, NEW sp \in Sizes, NEW i \in Nat, NEW ladder, NEW k \in 1..Len(ladder), Len(ladder) \in Nat,
         ladder[k].sell \in 1..100, NEW a \in Selling(pos, sp, i)
  PROVE  TakeProfit(ladder, price, a, k) \in Selling(pos, sp, i)
<1> DEFINE share == (a.left * ladder[k].sell) \div 100
           qty == IF k = Len(ladder) \/ ladder[k].sell >= 100 THEN a.left ELSE share
           skip == k \in a.used \/ a.left = 0 \/ ~Rose(a.avg, price, ladder[k].pct)
           used == a.used \union {k}
<1>1. /\ a \in Accs /\ a.base = pos.base /\ a.avg = pos.avg
      /\ Draws(Held(pos.left, pos.avg), "sell", sp, i, a.out, Held(a.left, a.avg))
  BY DEF Selling
<1>2. a.base \in Nat /\ a.left \in Nat /\ a.avg \in Fractions /\ a.used \in SUBSET Nat /\ a.out \in Seq(Sizes)
  BY <1>1, AccIs
<1>3. qty \in Nat /\ qty <= a.left
  <2>1. share \in Nat /\ share <= a.left
    BY <1>2, PartOf
  <2> HIDE DEF share
  <2> QED
    BY <1>2, <2>1
<1>4. used \in SUBSET Nat
  BY <1>2
<1>5. TakeProfit(ladder, price, a, k) =
        IF skip THEN a
        ELSE IF qty = 0 THEN [a EXCEPT !.used = used]
        ELSE [a EXCEPT !.used = used, !.left = a.left - qty, !.out = Append(a.out, qty)]
  BY DEF TakeProfit
<1> HIDE DEF share, qty, skip, used
<1>6. [a EXCEPT !.used = used] \in Selling(pos, sp, i)
  <2> DEFINE c == [a EXCEPT !.used = used]
  <2>1. c \in Accs /\ c.base = a.base /\ c.avg = a.avg /\ c.left = a.left /\ c.out = a.out
    BY <1>1, <1>4 DEF Accs
  <2> HIDE DEF c
  <2>2. c \in Selling(pos, sp, i)
    BY <1>1, <2>1 DEF Selling
  <2> QED
    BY <2>2 DEF c
<1>7. ASSUME qty # 0 PROVE [a EXCEPT !.used = used, !.left = a.left - qty, !.out = Append(a.out, qty)] \in Selling(pos, sp, i)
  <2> DEFINE c == [a EXCEPT !.used = used, !.left = a.left - qty, !.out = Append(a.out, qty)]
  <2>0. qty \in Sizes /\ a.left - qty \in Nat
    BY <1>2, <1>3, <1>7 DEF Sizes
  <2>9. Append(a.out, qty) \in Seq(Sizes)
    BY <1>2, <2>0
  <2>1. c \in Accs /\ c.base = a.base /\ c.avg = a.avg /\ c.left = a.left - qty /\ c.out = Append(a.out, qty)
    BY <1>1, <1>4, <2>0, <2>9 DEF Accs
  <2> HIDE DEF c
  <2>2. qty <= Held(a.left, a.avg).qty
    BY <1>3 DEF Held
  <2>3. Draws(Held(pos.left, pos.avg), "sell", sp, i, Append(a.out, qty), DeriveTrade(Held(a.left, a.avg), Trade("sell", sp, qty, i)))
    BY <1>1, <2>0, <2>2, DrawsMore
  <2>4. DeriveTrade(Held(a.left, a.avg), Trade("sell", sp, qty, i)) = Held(a.left - qty, a.avg)
    BY <1>2, <1>3, <2>0, DeriveSell
  <2>5. c \in Selling(pos, sp, i)
    BY <1>1, <2>1, <2>3, <2>4 DEF Selling
  <2> QED
    BY <2>5 DEF c
<1> QED
  BY <1>5, <1>6, <1>7

\* What buying more has come to.
Buying(h, base, price, i) ==
  {a \in Accs : a.base = base /\ a.left > 0 /\ Draws(h, "buy", price, i, a.out, Held(a.left, a.avg))}

LEMMA AddLevelIn ==
  ASSUME NEW h, NEW base \in Nat, NEW paid \in Sizes, NEW i \in Nat, NEW due \in BOOLEAN, NEW share \in Int, NEW cap \in Int,
         NEW k \in Nat, NEW a \in Buying(h, base, paid, i)
  PROVE  AddLevel(due, share, cap, paid, a, k) \in Buying(h, base, paid, i)
<1> DEFINE room == cap - a.left
           want == (a.base * share) \div 100
           qty  == IF want > room THEN room ELSE want
           skip == k \in a.used \/ ~due
           used == a.used \union {k}
           avg == Averaged(a.avg, a.left, paid, qty)
<1>1. /\ a \in Accs /\ a.base = base /\ a.left > 0 /\ Draws(h, "buy", paid, i, a.out, Held(a.left, a.avg))
  BY DEF Buying
<1>2. a.base \in Nat /\ a.left \in Nat /\ a.avg \in Fractions /\ a.used \in SUBSET Nat /\ a.out \in Seq(Sizes)
  BY <1>1, AccIs
<1>3. qty \in Int
  <2>1. a.base * share \in Int
    BY <1>2
  <2>2. want \in Int
    BY <2>1
  <2> HIDE DEF want
  <2> QED
    BY <1>2, <2>2
<1>4. used \in SUBSET Nat
  BY <1>2
<1>5. AddLevel(due, share, cap, paid, a, k) =
        IF skip THEN a
        ELSE IF qty <= 0 THEN [a EXCEPT !.used = used]
        ELSE [a EXCEPT !.used = used, !.left = a.left + qty, !.out = Append(a.out, qty), !.avg = avg]
  BY DEF AddLevel
<1> HIDE DEF room, want, qty, skip, used
<1>6. [a EXCEPT !.used = used] \in Buying(h, base, paid, i)
  <2> DEFINE c == [a EXCEPT !.used = used]
  <2>1. c \in Accs /\ c.base = a.base /\ c.avg = a.avg /\ c.left = a.left /\ c.out = a.out
    BY <1>1, <1>4 DEF Accs
  <2> HIDE DEF c
  <2>2. c \in Buying(h, base, paid, i)
    BY <1>1, <2>1 DEF Buying
  <2> QED
    BY <2>2 DEF c
<1>7. ASSUME ~(qty <= 0)
      PROVE  [a EXCEPT !.used = used, !.left = a.left + qty, !.out = Append(a.out, qty), !.avg = avg] \in Buying(h, base, paid, i)
  <2> DEFINE c == [a EXCEPT !.used = used, !.left = a.left + qty, !.out = Append(a.out, qty), !.avg = avg]
  <2>0. qty \in Sizes /\ qty \in Nat /\ qty > 0 /\ a.left + qty \in Nat /\ a.left + qty > 0
    BY <1>1, <1>2, <1>3, <1>7 DEF Sizes
  <2>9. Append(a.out, qty) \in Seq(Sizes)
    BY <1>2, <2>0
  <2>8. avg \in Fractions
    BY <1>2, <2>0, AveragedIn DEF Sizes
  <2> HIDE DEF avg
  <2>1. c \in Accs /\ c.base = a.base /\ c.avg = avg /\ c.left = a.left + qty /\ c.out = Append(a.out, qty)
    BY <1>1, <1>4, <2>0, <2>8, <2>9 DEF Accs
  <2> HIDE DEF c
  <2>3. Draws(h, "buy", paid, i, Append(a.out, qty), DeriveTrade(Held(a.left, a.avg), Trade("buy", paid, qty, i)))
    BY <1>1, <2>0, DrawsMore
  <2>4. DeriveTrade(Held(a.left, a.avg), Trade("buy", paid, qty, i)) = Held(a.left + qty, avg)
    BY <1>1, <1>2, <2>0, DeriveBuy DEF avg
  <2>5. c \in Buying(h, base, paid, i)
    BY <1>1, <2>0, <2>1, <2>3, <2>4 DEF Buying
  <2> QED
    BY <2>5 DEF c
<1> QED
  BY <1>5, <1>6, <1>7

Positions == [avg : Fractions, base : Nat, left : Nat, tp : SUBSET Nat, si : SUBSET Nat, py : SUBSET Nat,
              sl : Nat, trail : Nat, peak : Nat]
Adding(more) == more.ladder \in Seq([pct : Int, add : Int]) /\ more.max \in Int
LaddersOK(L) ==
  /\ L.tp \in Seq([pct : Int, sell : Int]) /\ \A k \in 1..Len(L.tp) : L.tp[k].sell \in 1..100
  /\ Adding(L.si) /\ Adding(L.py)

LEMMA LevelsAre ==
  ASSUME NEW ladder, Len(ladder) \in Nat
  PROVE  /\ Len(Levels(ladder)) = Len(ladder) /\ DOMAIN Levels(ladder) = 1..Len(ladder)
         /\ \A k \in 1..Len(ladder) : Levels(ladder)[k] = k
<1>1. Levels(ladder) \in Seq(Nat)
  BY DEF Levels
<1> QED
  BY <1>1 DEF Levels

LEMMA AccIn ==
  ASSUME NEW pos \in Positions, NEW used \in SUBSET Nat
  PROVE  /\ Acc(pos, used) \in Accs /\ Acc(pos, used).base = pos.base /\ Acc(pos, used).left = pos.left
         /\ Acc(pos, used).avg = pos.avg /\ Acc(pos, used).out = <<>>
<1>1. <<>> \in Seq(Sizes)
  OBVIOUS
<1> QED
  BY <1>1 DEF Acc, Accs, Positions

LEMMA TakenProfitsIn ==
  ASSUME NEW pos \in Positions, NEW price, NEW sp \in Sizes, NEW i \in Nat, NEW L, LaddersOK(L)
  PROVE  TakenProfits(pos, price, L) \in Selling(pos, sp, i)
<1> DEFINE levels == Levels(L.tp)
           base == Acc(pos, pos.tp)
           A == Selling(pos, sp, i)
<1>0. pos.tp \in SUBSET Nat /\ pos.left \in Nat /\ pos.avg \in Fractions
  BY DEF Positions
<1>1. Len(L.tp) \in Nat /\ \A k \in 1..Len(L.tp) : L.tp[k].sell \in 1..100
  BY DEF LaddersOK
<1>2. Len(levels) = Len(L.tp) /\ DOMAIN levels = 1..Len(L.tp) /\ \A k \in 1..Len(L.tp) : levels[k] = k
  BY <1>1, LevelsAre
<1>3. base \in A
  <2>1. /\ base \in Accs /\ base.base = pos.base /\ base.left = pos.left /\ base.avg = pos.avg /\ base.out = <<>>
    BY <1>0, AccIn
  <2>2. Draws(Held(pos.left, pos.avg), "sell", sp, i, <<>>, Held(pos.left, pos.avg))
    BY <1>0, HeldIn, DrawsNone
  <2> HIDE DEF base
  <2> QED
    BY <2>1, <2>2 DEF Selling
<1> HIDE DEF levels, base, A
<1>4. TakeStays(L.tp, price, levels, base, A)
  <2>1. ASSUME NEW a \in A, NEW k \in 1..Len(levels) PROVE TakeProfit(L.tp, price, a, levels[k]) \in A
    <3>1. k \in 1..Len(L.tp) /\ levels[k] = k /\ L.tp[k].sell \in 1..100
      BY <1>1, <1>2
    <3> QED
      BY <1>1, <3>1, TakeProfitIn DEF A
  <2> QED
    BY <1>1, <1>2, <1>3, <2>1 DEF TakeStays
<1>5. TakeSteps(L.tp, price, levels, base, A)
  BY <1>4, TakeFold
<1>6. TakeAll(L.tp, price, levels, base) \in A
  <2>1. Len(levels) \in 0..Len(levels)
    BY <1>1, <1>2
  <2> QED
    BY <1>5, <2>1 DEF TakeSteps
<1>7. TakenProfits(pos, price, L) = TakeAll(L.tp, price, levels, base)
  BY LadderFolds DEF levels, base
<1> QED
  BY <1>6, <1>7 DEF A

LEMMA ScaledInIn ==
  ASSUME NEW pos \in Positions, pos.left > 0, NEW price, NEW paid \in Sizes, NEW i \in Nat, NEW L, LaddersOK(L)
  PROVE  ScaledIn(pos, price, L, paid) \in Buying(Held(pos.left, pos.avg), pos.base, paid, i)
<1> DEFINE levels == Levels(L.si.ladder)
           base == Acc(pos, pos.si)
           h == Held(pos.left, pos.avg)
           A == Buying(h, pos.base, paid, i)
<1>0. pos.si \in SUBSET Nat /\ pos.left \in Nat /\ pos.avg \in Fractions /\ pos.base \in Nat
  BY DEF Positions
<1>1. Len(L.si.ladder) \in Nat /\ L.si.max \in Int /\ \A k \in 1..Len(L.si.ladder) : L.si.ladder[k].add \in Int
  <2>1. L.si.ladder \in Seq([pct : Int, add : Int]) /\ L.si.max \in Int
    BY DEF LaddersOK, Adding
  <2>2. \A k \in 1..Len(L.si.ladder) : L.si.ladder[k] \in [pct : Int, add : Int]
    BY <2>1, SeqIs
  <2> QED
    BY <2>1, <2>2
<1>2. Len(levels) = Len(L.si.ladder) /\ DOMAIN levels = 1..Len(L.si.ladder) /\ \A k \in 1..Len(L.si.ladder) : levels[k] = k
  BY <1>1, LevelsAre
<1>3. base \in A
  <2>1. /\ base \in Accs /\ base.base = pos.base /\ base.left = pos.left /\ base.avg = pos.avg /\ base.out = <<>>
    BY <1>0, AccIn
  <2>2. Draws(h, "buy", paid, i, <<>>, h)
    BY <1>0, HeldIn, DrawsNone
  <2> HIDE DEF base
  <2> QED
    BY <2>1, <2>2 DEF Buying
<1> HIDE DEF levels, base, A
<1>4. ScaleStays(L.si, price, paid, levels, base, A)
  <2>1. ASSUME NEW a \in A, NEW k \in 1..Len(levels) PROVE ScaleInLevel(L.si, price, paid, a, levels[k]) \in A
    <3>1. k \in 1..Len(L.si.ladder) /\ levels[k] = k /\ L.si.ladder[k].add \in Int /\ k \in Nat
      BY <1>1, <1>2
    <3> DEFINE due == Fell(a.avg, price, L.si.ladder[k].pct)
               cap == a.base * L.si.max
    <3>2. due \in BOOLEAN
      BY DEF Fell, Leq
    <3>3. cap \in Int
      <4>1. a.base \in Nat
        BY AccIs DEF A, Buying
      <4> QED
        BY <1>1, <4>1
    <3>4. ScaleInLevel(L.si, price, paid, a, k) = AddLevel(due, L.si.ladder[k].add, cap, paid, a, k)
      BY DEF ScaleInLevel
    <3> HIDE DEF due, cap, h
    <3>5. AddLevel(due, L.si.ladder[k].add, cap, paid, a, k) \in A
      BY <1>0, <3>1, <3>2, <3>3, AddLevelIn DEF A
    <3> QED
      BY <3>1, <3>4, <3>5
  <2> QED
    BY <1>1, <1>2, <1>3, <2>1 DEF ScaleStays
<1>5. ScaleSteps(L.si, price, paid, levels, base, A)
  BY <1>4, ScaleFold
<1>6. ScaleAll(L.si, price, paid, levels, base) \in A
  <2>1. Len(levels) \in 0..Len(levels)
    BY <1>1, <1>2
  <2> QED
    BY <1>5, <2>1 DEF ScaleSteps
<1>7. ScaledIn(pos, price, L, paid) = ScaleAll(L.si, price, paid, levels, base)
  BY LadderFolds DEF levels, base
<1> QED
  BY <1>6, <1>7 DEF A

LEMMA PyramidedIn ==
  ASSUME NEW pos \in Positions, NEW h, NEW price, NEW paid \in Sizes, NEW i \in Nat, NEW L, LaddersOK(L),
         NEW down \in Buying(h, pos.base, paid, i)
  PROVE  Pyramided(pos, price, L, paid, down) \in Buying(h, pos.base, paid, i)
<1> DEFINE levels == Levels(L.py.ladder)
           base == [down EXCEPT !.used = pos.py]
           A == Buying(h, pos.base, paid, i)
<1>0. pos.py \in SUBSET Nat /\ pos.base \in Nat
  BY DEF Positions
<1>1. Len(L.py.ladder) \in Nat /\ L.py.max \in Int /\ \A k \in 1..Len(L.py.ladder) : L.py.ladder[k].add \in Int
  <2>1. L.py.ladder \in Seq([pct : Int, add : Int]) /\ L.py.max \in Int
    BY DEF LaddersOK, Adding
  <2>2. \A k \in 1..Len(L.py.ladder) : L.py.ladder[k] \in [pct : Int, add : Int]
    BY <2>1, SeqIs
  <2> QED
    BY <2>1, <2>2
<1>2. Len(levels) = Len(L.py.ladder) /\ DOMAIN levels = 1..Len(L.py.ladder) /\ \A k \in 1..Len(L.py.ladder) : levels[k] = k
  BY <1>1, LevelsAre
<1>3. base \in A
  <2>0. down \in Accs /\ down.base = pos.base /\ down.left > 0 /\ Draws(h, "buy", paid, i, down.out, Held(down.left, down.avg))
    BY DEF Buying
  <2>1. base \in Accs /\ base.base = down.base /\ base.left = down.left /\ base.avg = down.avg /\ base.out = down.out
    BY <1>0, <2>0 DEF Accs
  <2> HIDE DEF base
  <2> QED
    BY <2>0, <2>1 DEF Buying
<1> HIDE DEF levels, base, A
<1>4. PyramidStays(L.py, price, paid, levels, base, A)
  <2>1. ASSUME NEW a \in A, NEW k \in 1..Len(levels) PROVE PyramidLevel(L.py, price, paid, a, levels[k]) \in A
    <3>1. k \in 1..Len(L.py.ladder) /\ levels[k] = k /\ L.py.ladder[k].add \in Int /\ k \in Nat
      BY <1>1, <1>2
    <3> DEFINE due == Rose(a.avg, price, L.py.ladder[k].pct)
               cap == a.base * L.py.max
    <3>2. due \in BOOLEAN
      BY DEF Rose, Leq
    <3>3. cap \in Int
      <4>1. a.base \in Nat
        BY AccIs DEF A, Buying
      <4> QED
        BY <1>1, <4>1
    <3>4. PyramidLevel(L.py, price, paid, a, k) = AddLevel(due, L.py.ladder[k].add, cap, paid, a, k)
      BY DEF PyramidLevel
    <3> HIDE DEF due, cap
    <3>5. AddLevel(due, L.py.ladder[k].add, cap, paid, a, k) \in A
      BY <1>0, <3>1, <3>2, <3>3, AddLevelIn DEF A
    <3> QED
      BY <3>1, <3>4, <3>5
  <2> QED
    BY <1>1, <1>2, <1>3, <2>1 DEF PyramidStays
<1>5. PyramidSteps(L.py, price, paid, levels, base, A)
  BY <1>4, PyramidFold
<1>6. PyramidAll(L.py, price, paid, levels, base) \in A
  <2>1. Len(levels) \in 0..Len(levels)
    BY <1>1, <1>2
  <2> QED
    BY <1>5, <2>1 DEF PyramidSteps
<1>7. Pyramided(pos, price, L, paid, down) = PyramidAll(L.py, price, paid, levels, base)
  BY LadderFolds DEF levels, base
<1> QED
  BY <1>6, <1>7 DEF A

\* What a tick of the ladder decides is what its trades, once booked, leave.
Decides(pos, sp, paid, i, tick) ==
  /\ tick.next \in Positions
  /\ \E mid \in Holdings : /\ Draws(Held(pos.left, pos.avg), "sell", sp, i, tick.exits, mid)
                           /\ Draws(mid, "buy", paid, i, tick.adds, Held(tick.next.left, tick.next.avg))

LEMMA ClosedDecides ==
  ASSUME NEW pos \in Positions, pos.left > 0, NEW sp \in Sizes, NEW paid \in Sizes, NEW i \in Nat,
         NEW now \in Positions, now.left = pos.left, now.avg = pos.avg
  PROVE  Decides(pos, sp, paid, i, Closed(now))
<1> DEFINE tick == Closed(now)
           h == Held(pos.left, pos.avg)
           flat == Held(0, pos.avg)
<1>1. pos.left \in Nat /\ pos.avg \in Fractions /\ pos.left \in Sizes
  BY DEF Positions, Sizes
<1>2. tick.exits = <<pos.left>> /\ tick.adds = <<>> /\ tick.next = [now EXCEPT !.left = 0]
  BY DEF Closed
<1>3. tick.next \in Positions /\ tick.next.left = 0 /\ tick.next.avg = pos.avg
  BY <1>2 DEF Positions
<1> HIDE DEF tick, h, flat
<1>4. h \in Holdings /\ flat \in Holdings /\ h.qty = pos.left
  BY <1>1, HeldIn DEF Held, h, flat
<1>5. Draws(h, "sell", sp, i, <<>>, h)
  BY <1>4, DrawsNone
<1>6. Append(<<>>, pos.left) = <<pos.left>>
  BY <1>1
<1>7. DeriveTrade(h, Trade("sell", sp, pos.left, i)) = flat
  <2>1. DeriveTrade(h, Trade("sell", sp, pos.left, i)) = Held(pos.left - pos.left, pos.avg)
    BY <1>1, DeriveSell DEF h
  <2>2. pos.left - pos.left = 0
    BY <1>1
  <2> QED
    BY <2>1, <2>2 DEF flat
<1>8. Draws(h, "sell", sp, i, <<pos.left>>, flat)
  <2>1. pos.left <= h.qty
    BY <1>1, <1>4
  <2>2. Draws(h, "sell", sp, i, Append(<<>>, pos.left), DeriveTrade(h, Trade("sell", sp, pos.left, i)))
    BY <1>1, <1>5, <2>1, DrawsMore
  <2> QED
    BY <1>6, <1>7, <2>2
<1>9. Draws(flat, "buy", paid, i, <<>>, flat)
  BY <1>4, DrawsNone
<1>10. Decides(pos, sp, paid, i, tick)
  BY <1>2, <1>3, <1>4, <1>8, <1>9 DEF Decides, h, flat
<1> QED
  BY <1>10 DEF tick

LEMMA TookDecides ==
  ASSUME NEW pos \in Positions, NEW sp \in Sizes, NEW paid \in Sizes, NEW i \in Nat,
         NEW now \in Positions, now.left = pos.left, now.avg = pos.avg, NEW sold \in Selling(pos, sp, i)
  PROVE  Decides(pos, sp, paid, i, Took(now, sold))
<1> DEFINE tick == Took(now, sold)
           mid == Held(sold.left, sold.avg)
<1>1. sold \in Accs /\ sold.avg = pos.avg /\ Draws(Held(pos.left, pos.avg), "sell", sp, i, sold.out, mid)
  BY DEF Selling
<1>2. sold.left \in Nat /\ sold.used \in SUBSET Nat /\ sold.avg \in Fractions
  BY <1>1, AccIs
<1>3. tick.exits = sold.out /\ tick.adds = <<>> /\ tick.next = [now EXCEPT !.left = sold.left, !.tp = sold.used]
  BY DEF Took
<1>4. tick.next \in Positions /\ tick.next.left = sold.left /\ tick.next.avg = pos.avg
  BY <1>2, <1>3 DEF Positions
<1> HIDE DEF tick
<1>5. mid \in Holdings
  BY <1>2, HeldIn
<1>6. Draws(mid, "buy", paid, i, <<>>, mid)
  BY <1>5, DrawsNone
<1>7. Decides(pos, sp, paid, i, tick)
  BY <1>1, <1>3, <1>4, <1>5, <1>6 DEF Decides
<1> QED
  BY <1>7 DEF tick

LEMMA AddedDecides ==
  ASSUME NEW pos \in Positions, NEW sp \in Sizes, NEW paid \in Sizes, NEW i \in Nat,
         NEW now \in Positions, NEW tp \in SUBSET Nat, NEW si \in SUBSET Nat,
         NEW up \in Buying(Held(pos.left, pos.avg), pos.base, paid, i)
  PROVE  Decides(pos, sp, paid, i, Added(now, tp, si, up))
<1> DEFINE tick == Added(now, tp, si, up)
           h == Held(pos.left, pos.avg)
<1>1. up \in Accs /\ Draws(h, "buy", paid, i, up.out, Held(up.left, up.avg))
  BY DEF Buying
<1>2. up.left \in Nat /\ up.used \in SUBSET Nat /\ up.avg \in Fractions
  BY <1>1, AccIs
<1>3. /\ tick.exits = <<>> /\ tick.adds = up.out
      /\ tick.next = [now EXCEPT !.avg = up.avg, !.left = up.left, !.tp = tp, !.si = si, !.py = up.used]
  BY DEF Added
<1>4. tick.next \in Positions /\ tick.next.left = up.left /\ tick.next.avg = up.avg
  BY <1>2, <1>3 DEF Positions
<1> HIDE DEF tick
<1>5. h \in Holdings
  BY HeldIn DEF Positions
<1>6. Draws(h, "sell", sp, i, <<>>, h)
  BY <1>5, DrawsNone
<1>7. Decides(pos, sp, paid, i, tick)
  BY <1>1, <1>3, <1>4, <1>5, <1>6 DEF Decides
<1> QED
  BY <1>7 DEF tick

LEMMA TickDecides ==
  ASSUME NEW pos \in Positions, pos.left > 0, NEW price \in Nat, NEW sp \in Sizes, NEW paid \in Sizes, NEW i \in Nat,
         NEW L, LaddersOK(L), NEW sell
  PROVE  Decides(pos, sp, paid, i, EvaluateLadderTick(pos, price, L, sell, paid))
<1> DEFINE now == [pos EXCEPT !.peak = PeakOf(pos, price)]
           stop == Stopped(price, EffectiveStopLoss(now, now.peak)) \/ sell
           sold == TakenProfits(pos, price, L)
           down == ScaledIn(pos, price, L, paid)
           up == Pyramided(now, price, L, paid, down)
           take == sold.left = 0 \/ sold.out # <<>>
<1>1. now \in Positions /\ now.left = pos.left /\ now.avg = pos.avg /\ now.base = pos.base
  BY DEF Positions, PeakOf
<1>2. EvaluateLadderTick(pos, price, L, sell, paid) =
        IF stop THEN Closed(now) ELSE IF take THEN Took(now, sold) ELSE Added(now, sold.used, down.used, up)
  BY DEF EvaluateLadderTick, TakeOrAdd
<1> HIDE DEF now, stop, take
<1>3. sold \in Selling(pos, sp, i)
  BY TakenProfitsIn
<1>4. down \in Buying(Held(pos.left, pos.avg), pos.base, paid, i)
  BY ScaledInIn
<1> HIDE DEF sold, down
<1>5. up \in Buying(Held(pos.left, pos.avg), pos.base, paid, i)
  BY <1>1, <1>4, PyramidedIn
<1> HIDE DEF up
<1>6. sold.used \in SUBSET Nat /\ down.used \in SUBSET Nat
  BY <1>3, <1>4, AccIs DEF Selling, Buying
<1>7. Decides(pos, sp, paid, i, Closed(now))
  BY <1>1, ClosedDecides
<1>8. Decides(pos, sp, paid, i, Took(now, sold))
  BY <1>1, <1>3, TookDecides
<1>9. Decides(pos, sp, paid, i, Added(now, sold.used, down.used, up))
  BY <1>1, <1>5, <1>6, AddedDecides
<1> QED
  BY <1>2, <1>7, <1>8, <1>9

---------------------------------------------------------------------------
(* The size of an order.                                                   *)

LEMMA MinIn == ASSUME NEW S \in SUBSET Nat, S # {} PROVE Min(S) \in S /\ \A y \in S : Min(S) <= y
<1>1. PICK m \in S : \A n \in S : ~(<<n, m>> \in OpToRel(<, Nat))
  BY NatLessThanWellFounded, WFMin
<1>0. m \in Nat /\ \A n \in Nat : n < m => n \notin S
  BY <1>1 DEF OpToRel
<1>2. \A n \in S : m <= n
  BY <1>0
<1>3. \E x \in S : \A y \in S : x <= y
  BY <1>2
<1> QED
  BY <1>3 DEF Min

LEMMA MaxOfTwo == ASSUME NEW a \in Int, NEW b \in Int PROVE Max({a, b}) \in {a, b} /\ a <= Max({a, b}) /\ b <= Max({a, b})
<1>1. IsFiniteSet({a, b})
  <2>1. IsFiniteSet({b})
    BY FS_Singleton
  <2>2. IsFiniteSet({b} \union {a})
    BY <2>1, FS_AddElement
  <2>3. {a, b} = {b} \union {a}
    OBVIOUS
  <2> QED
    BY <2>2, <2>3
<1>2. {a, b} \in SUBSET Int /\ {a, b} # {}
  OBVIOUS
<1>3. Max({a, b}) \in {a, b} /\ \A y \in {a, b} : y <= Max({a, b})
  BY <1>1, <1>2, MaxIn
<1> QED
  BY <1>3

LEMMA MinOfTwo == ASSUME NEW a \in Nat, NEW b \in Nat PROVE Min({a, b}) \in {a, b}
<1>1. {a, b} \in SUBSET Nat /\ {a, b} # {}
  OBVIOUS
<1> QED
  BY <1>1, MinIn

LEMMA ProductOf == ASSUME NEW a \in Nat, NEW b \in Nat PROVE a * b \in Nat /\ (a > 0 /\ b > 0 => a * b > 0)
OBVIOUS

LEMMA Regroup == ASSUME NEW a \in Nat, NEW b \in Nat, NEW c \in Nat PROVE (a * b) * c = a * (b * c)
OBVIOUS

LEMMA DivBack == ASSUME NEW n \in Nat, NEW d \in Nat, d > 0 PROVE n \div d \in Nat /\ (n \div d) * d <= n
OBVIOUS

\* A share of at least one percent of a quote is something.
LEMMA PercentIn == ASSUME NEW p \in Quotes, NEW pct \in Int PROVE Percent(p, pct) \in Int /\ (pct >= -99 => Percent(p, pct) \in Sizes)
<1> DEFINE m == 100 + pct
           n == p * m
<1>1. p \in Nat /\ p >= 100 /\ m \in Int
  BY DEF Quotes
<1>2. n \in Int
  BY <1>1
<1>3. ASSUME pct >= -99 PROVE n >= 100
  <2>1. m >= 1
    BY <1>3
  <2> HIDE DEF m
  <2>2. p * m >= p
    BY <1>1, <2>1
  <2> QED
    BY <1>1, <1>2, <2>2
<1>4. Percent(p, pct) = n \div 100
  BY DEF Percent
<1> HIDE DEF n
<1>5. n \div 100 \in Int /\ (n >= 100 => n \div 100 >= 1)
  BY <1>2
<1> QED
  BY <1>3, <1>4, <1>5 DEF Sizes

---------------------------------------------------------------------------
(* Sizing: what is bought costs no more than the equity it is sized from.  *)
LEMMA ClampIn == ASSUME NEW x \in Int, NEW a \in Int, NEW b \in Int PROVE Clamp(x, a, b) \in Int /\ (a <= b => Clamp(x, a, b) \in a..b)
BY DEF Clamp

LEMMA NotionalIn ==
  ASSUME NEW m, TypedSizing(m), m.method # "legacy", NEW equity \in Nat, NEW price \in Nat
  PROVE  PositionNotional(m, equity, price) \in 0..equity
<1>1. CASE m.method = "vol_target"
  <2> DEFINE lev == VolTargetLeverage(m.target, m.vol, m.cap)
             x == (equity * lev) \div 100
  <2>1. m.target \in Int /\ m.vol \in Int /\ m.cap \in Int
    BY <1>1 DEF TypedSizing
  <2>2. lev \in Int
    <3>1. ASSUME m.vol > 0 PROVE (100 * m.target) \div m.vol \in Int
      <4>1. 100 * m.target \in Int /\ m.vol \in Nat
        BY <2>1, <3>1
      <4> QED
        BY <3>1, <4>1, DivIn
    <3>2. ASSUME m.vol > 0 PROVE Clamp((100 * m.target) \div m.vol, 0, m.cap) \in Int
      <4> DEFINE z == (100 * m.target) \div m.vol
      <4>1. z \in Int /\ 0 \in Int
        BY <3>1, <3>2
      <4> HIDE DEF z
      <4>2. Clamp(z, 0, m.cap) \in Int
        BY <2>1, <4>1, ClampIn
      <4> QED
        BY <4>2 DEF z
    <3> QED
      BY <2>1, <3>2 DEF VolTargetLeverage
  <2>3. x \in Int
    <3> HIDE DEF lev
    <3>1. equity * lev \in Int
      BY <2>2
    <3> QED
      BY <3>1
  <2>4. PositionNotional(m, equity, price) = Clamp(x, 0, equity)
    BY <1>1 DEF PositionNotional
  <2> HIDE DEF x
  <2> QED
    BY <2>3, <2>4, ClampIn
<1>2. CASE m.method = "atr"
  <2> DEFINE x == AtrNotional(equity, m.risk, price, m.atr, m.mult)
             r == (equity * m.risk) \div 100
  <2>1. m.risk \in Int /\ m.atr \in Int /\ m.mult \in Nat /\ m.mult > 0
    BY <1>2 DEF TypedSizing
  <2>2. r \in Int
    <3>1. equity * m.risk \in Int
      BY <2>1
    <3> QED
      BY <3>1
  <2>3. x = IF m.atr <= 0 THEN r ELSE (r * price) \div (m.atr * m.mult)
    BY DEF AtrNotional
  <2> HIDE DEF r, x
  <2>4. ASSUME ~(m.atr <= 0) PROVE (r * price) \div (m.atr * m.mult) \in Int
    <3>1. m.atr \in Nat /\ m.atr > 0
      BY <2>1, <2>4
    <3>2. m.atr * m.mult \in Nat /\ m.atr * m.mult > 0 /\ r * price \in Int
      BY <2>1, <2>2, <3>1, ProductOf
    <3> QED
      BY <3>2, DivIn
  <2>5. x \in Int
    BY <2>2, <2>3, <2>4
  <2>6. PositionNotional(m, equity, price) = Clamp(x, 0, equity)
    BY <1>2 DEF PositionNotional, x
  <2> QED
    BY <2>5, <2>6, ClampIn
<1>3. CASE m.method = "kelly"
  <2> DEFINE k == KellyPercent(m.win, m.ratio, m.fraction, m.sample)
             x == (equity * k) \div 100
             odds == (100 * (100 - m.win)) \div m.ratio
             y == ((m.win - odds) * m.fraction) \div 100
  <2>1. m.win \in Int /\ m.ratio \in Int /\ m.fraction \in Int /\ m.sample \in Int
    BY <1>3 DEF TypedSizing
  <2>2. ASSUME ~(m.ratio <= 0) PROVE y \in Int
    <3>1. m.ratio \in Nat /\ m.ratio > 0 /\ 100 * (100 - m.win) \in Int
      BY <2>1, <2>2
    <3>2. odds \in Int
      BY <3>1, DivIn
    <3> HIDE DEF odds
    <3>3. (m.win - odds) * m.fraction \in Int
      BY <2>1, <3>2
    <3> QED
      BY <3>3
  <2>3. k = IF m.sample < 100 \/ m.ratio <= 0 THEN 1 ELSE Clamp(y, 0, 25)
    BY DEF KellyPercent
  <2> HIDE DEF y, k
  <2>4. k \in Int
    BY <2>2, <2>3, ClampIn
  <2>5. x \in Int
    <3>1. equity * k \in Int
      BY <2>4
    <3> QED
      BY <3>1
  <2>6. PositionNotional(m, equity, price) = Clamp(x, 0, equity)
    BY <1>3 DEF PositionNotional, k
  <2> HIDE DEF x
  <2> QED
    BY <2>5, <2>6, ClampIn
<1> QED
  BY <1>1, <1>2, <1>3 DEF TypedSizing

LEMMA PartOfAll ==
  ASSUME NEW equity \in Nat, NEW percent \in 0..100
  PROVE  (equity * percent) \div 100 \in 0..equity
<1> DEFINE m == equity * percent
<1>1. m \in Nat /\ m <= equity * 100
  OBVIOUS
<1> HIDE DEF m
<1>2. m \div 100 \in Nat /\ m \div 100 <= equity
  BY <1>1
<1> QED
  BY <1>2 DEF m

LEMMA OrderQtyIn ==
  ASSUME NEW m, TypedSizing(m), NEW equity \in Int, NEW price \in Nat, NEW percent \in 0..100
  PROVE  LET q == OrderQty(m, equity, price, Commission, percent, 1, 1)
         IN  q \in Nat /\ (q > 0 => price > 0 /\ q * price * (100 + Commission) <= equity)
<1> DEFINE base == IF m.method = "legacy" THEN (equity * percent) \div 100 ELSE PositionNotional(m, equity, price)
           d == price * (100 + Commission)
           q == OrderQty(m, equity, price, Commission, percent, 1, 1)
<1>0. Commission \in Nat
  BY BacktestAssumption
<1>1. q = IF equity <= 0 \/ price <= 0 THEN 0 ELSE base \div d
  BY DEF OrderQty
<1>2. CASE equity <= 0 \/ price <= 0
  <2>1. q = 0
    BY <1>1, <1>2
  <2> QED
    BY <2>1
<1>3. CASE ~(equity <= 0 \/ price <= 0)
  <2>1. equity \in Nat /\ price > 0
    BY <1>3
  <2>2. base \in 0..equity
    <3>1. CASE m.method = "legacy"
      BY <2>1, <3>1, PartOfAll
    <3>2. CASE m.method # "legacy"
      BY <2>1, <3>2, NotionalIn
    <3> QED
      BY <3>1, <3>2
  <2>3. d \in Nat /\ d > 0
    BY <1>0, <2>1, ProductOf
  <2> HIDE DEF base
  <2>4. base \in Nat /\ base <= equity
    BY <2>1, <2>2
  <2> DEFINE r == base \div d
  <2>5. r \in Nat /\ r * d <= base
    <3> HIDE DEF d
    <3> QED
      BY <2>3, <2>4, DivBack
  <2>6. q = r
    BY <1>1, <1>3
  <2> HIDE DEF q, r
  <2>7. (r * price) * (100 + Commission) = r * d
    BY <1>0, <2>5, Regroup
  <2> HIDE DEF d
  <2>8. r * d <= equity
    BY <2>1, <2>3, <2>4, <2>5
  <2>9. r \in Nat /\ (r > 0 => price > 0 /\ (r * price) * (100 + Commission) <= equity)
    BY <2>1, <2>5, <2>7, <2>8
  <2> QED
    BY <2>6, <2>9 DEF q
<1> QED
  BY <1>2, <1>3

---------------------------------------------------------------------------
(* The bars, and the prices orders fill at.                                *)

Candles == [open : Quotes, high : Quotes, low : Quotes, close : Quotes]
\* What is run: the path, or what there is of it so far.
Paths == {bars \in Seq(Candles) : Len(bars) \in 1..Length}

LEMMA BarsAre ==
  ASSUME NEW bars \in Paths
  PROVE  /\ Len(bars) \in 1..Length /\ DOMAIN bars = 1..Len(bars)
         /\ \A i \in 1..Length : i <= Len(bars) => bars[i] \in Candles /\ bars[i].open \in Quotes /\ bars[i].high \in Quotes
                                                   /\ bars[i].low \in Quotes /\ bars[i].close \in Quotes
<1>1. Length \in Nat
  BY BacktestAssumption
<1>2. bars \in Seq(Candles) /\ Len(bars) \in 1..Length
  BY DEF Paths
<1>3. DOMAIN bars = 1..Len(bars) /\ \A i \in 1..Len(bars) : bars[i] \in Candles
  BY <1>2
<1>4. ASSUME NEW i \in 1..Length, i <= Len(bars) PROVE i \in 1..Len(bars)
  BY <1>1, <1>2, <1>4
<1> QED
  BY <1>2, <1>3, <1>4 DEF Candles

LEMMA BoundedIn ==
  ASSUME NEW x \in Int, NEW a \in Int, NEW b \in Int
  PROVE  Bounded(x, a, b) \in Int /\ (a <= b => Bounded(x, a, b) \in a..b)
BY DEF Bounded

LEMMA OverIn == ASSUME NEW p \in Quotes PROVE Over(p) \in Sizes /\ Under(p) \in Sizes
<1>1. Slippage \in Int /\ Slippage >= -99 /\ 0 - Slippage \in Int /\ 0 - Slippage >= -99
  BY BacktestAssumption
<1> QED
  BY <1>1, PercentIn DEF Over, Under

Executing(exec) == exec.offset \in Int /\ exec.timeout \in Int /\ exec.cap \in Int

\* An entry fills in a bar from its signal's on, at a price.
LEMMA FillIn ==
  ASSUME NEW bars \in Paths, NEW s \in 1..Length, s <= Len(bars), NEW exec, Executing(exec)
  PROVE  ResolveEntryFill(bars, s, exec, Slippage).price \in Sizes /\ ResolveEntryFill(bars, s, exec, Slippage).bar \in s..Length
<1> DEFINE limit    == ComputeLimitPrice(bars[s].close, exec.offset)
           timeout  == ClampTimeoutBars(exec.timeout)
           last     == Len(bars)
           upto     == Bounded(s + timeout - 1, s, last)
           crossed  == {j \in s..upto : bars[j].low < limit}
           late     == Bounded(s + timeout, s, last)
           fallback == Percent(bars[late].close, ClampMaxSlippage(exec.cap))
           fill     == ResolveEntryFill(bars, s, exec, Slippage)
<1>1. last \in Nat /\ last <= Length /\ Length \in Nat /\ s \in Nat /\ s >= 1 /\ s <= Length /\ s <= last
  BY BarsAre, BacktestAssumption
<1>2. bars[s].close \in Quotes
  BY BarsAre
<1>3. limit \in Sizes
  <2>1. ClampLimitOffset(exec.offset) \in Int /\ ClampLimitOffset(exec.offset) >= -99
    BY DEF Bounded, ClampLimitOffset, Executing
  <2> QED
    BY <1>2, <2>1, PercentIn DEF ComputeLimitPrice
<1>4. timeout \in Int
  BY DEF Bounded, ClampTimeoutBars, Executing
<1> HIDE DEF limit, timeout, last
<1>5. late \in s..Length /\ upto \in s..Length /\ late <= last
  <2>1. s + timeout \in Int /\ s + timeout - 1 \in Int /\ s \in Int /\ last \in Int
    BY <1>1, <1>4
  <2>2. late \in s..last /\ upto \in s..last
    BY <1>1, <2>1, BoundedIn
  <2> HIDE DEF late, upto
  <2> QED
    BY <1>1, <2>2
<1> HIDE DEF late, upto
<1>6. fallback \in Sizes
  <2>1. bars[late].close \in Quotes
    <3>1. late \in 1..Length /\ late <= Len(bars)
      BY <1>1, <1>5 DEF last
    <3> QED
      BY <3>1, BarsAre
  <2>2. ClampMaxSlippage(exec.cap) \in Int /\ ClampMaxSlippage(exec.cap) >= -99
    BY DEF Bounded, ClampMaxSlippage, Executing
  <2> QED
    BY <2>1, <2>2, PercentIn
<1>7. crossed # {} => Min(crossed) \in s..Length
  <2>1. crossed \in SUBSET Nat
    BY <1>1, <1>5
  <2>2. crossed \subseteq s..Length
    BY <1>1, <1>5
  <2> HIDE DEF crossed
  <2> QED
    BY <2>1, <2>2, MinIn
<1> HIDE DEF fallback, crossed
<1>8. Percent(bars[s].close, Slippage) \in Sizes
  BY <1>2, OverIn DEF Over
<1>9. fill = IF exec.type = "market" THEN [price |-> Percent(bars[s].close, Slippage), bar |-> s]
             ELSE IF crossed # {} THEN [price |-> limit, bar |-> Min(crossed)]
             ELSE [price |-> IF fallback > limit THEN fallback ELSE limit, bar |-> late]
  BY DEF ResolveEntryFill, limit, timeout, last, upto, crossed, late, fallback
<1>10. CASE exec.type = "market"
  <2>1. fill = [price |-> Percent(bars[s].close, Slippage), bar |-> s] \/ (crossed # {} /\ fill = [price |-> limit, bar |-> Min(crossed)])
    BY <1>9, <1>10
  <2>2. s \in s..Length
    BY <1>1
  <2> HIDE DEF fill
  <2>3. fill.price \in Sizes /\ fill.bar \in s..Length
    BY <1>3, <1>7, <1>8, <2>1, <2>2
  <2> QED
    BY <2>3 DEF fill
<1>11. CASE exec.type # "market" /\ crossed # {}
  <2>1. fill = [price |-> limit, bar |-> Min(crossed)]
    BY <1>9, <1>11
  <2> HIDE DEF fill
  <2>3. fill.price \in Sizes /\ fill.bar \in s..Length
    BY <1>3, <1>7, <1>11, <2>1
  <2> QED
    BY <2>3 DEF fill
<1>12. CASE exec.type # "market" /\ crossed = {}
  <2>1. fill = [price |-> IF fallback > limit THEN fallback ELSE limit, bar |-> late]
    BY <1>9, <1>12
  <2> HIDE DEF fill
  <2>3. fill.price \in Sizes /\ fill.bar \in s..Length
    BY <1>3, <1>5, <1>6, <2>1
  <2> QED
    BY <2>3 DEF fill
<1> QED
  BY <1>10, <1>11, <1>12

\* A stop is sold at a price.
LEMMA StopPriceIn ==
  ASSUME NEW b, b.avg \in Fractions, NEW acc, acc.gap \in {"close", "worst"}, NEW bar \in Candles, NEW sl \in Int,
         StopHit(b, acc, bar, sl)
  PROVE  StopPrice(b, acc, bar, sl) \in Sizes
<1> DEFINE stop == Off(b.avg, 0 - sl)
<1>1. bar.open \in Nat /\ bar.open >= 100 /\ bar.low \in Nat /\ bar.low >= 100 /\ bar.close \in Nat /\ bar.close >= 100
  BY DEF Candles, Quotes
<1>2. stop[1] \in Int /\ stop[2] \in Nat /\ stop[2] > 0
  <2>1. b.avg[1] \in Nat /\ b.avg[2] \in Nat /\ b.avg[2] > 0
    BY DEF Fractions
  <2>2. b.avg[1] * (100 + (0 - sl)) \in Int /\ b.avg[2] * 100 \in Nat /\ b.avg[2] * 100 > 0
    BY <2>1
  <2>3. stop \in Int \X (Nat \ {0})
    BY <2>2, FracIn DEF Off
  <2> HIDE DEF stop
  <2> QED
    BY <2>3
<1> HIDE DEF stop
<1>3. StopPrice(b, acc, bar, sl) = IF acc.gap = "close" THEN bar.close ELSE IF Leq(Price(bar.open), stop) THEN bar.open ELSE stop[1] \div stop[2]
  BY DEF StopPrice, stop
<1>4. CASE acc.gap = "close"
  BY <1>1, <1>3, <1>4 DEF Sizes
<1>5. CASE acc.gap = "worst"
  <2>1. Leq(Price(bar.low), stop)
    BY <1>5 DEF StopHit, Fell, stop
  <2>2. bar.low * stop[2] <= stop[1] * 1
    BY <2>1 DEF Leq, Price
  <2>3. stop[1] >= stop[2]
    <3>1. bar.low * stop[2] >= stop[2]
      BY <1>1, <1>2
    <3>2. bar.low * stop[2] \in Int /\ stop[1] * 1 = stop[1]
      BY <1>1, <1>2
    <3> QED
      BY <1>1, <1>2, <2>2, <3>1, <3>2
  <2>4. stop[1] \div stop[2] \in Int /\ stop[1] \div stop[2] >= 1
    BY <1>2, <2>3, DivIn
  <2> QED
    BY <1>1, <1>3, <1>5, <2>4 DEF Sizes
<1> QED
  BY <1>4, <1>5

\* The price a rule of a single strategy fills at, 0 when its limit does not.
LEMMA RuleFillIn ==
  ASSUME NEW rule, rule.limit \in BOOLEAN, rule.offset \in Int, NEW bar \in Candles
  PROVE  RuleFill(rule, bar) \in Nat
<1> DEFINE target == Percent(bar.close, rule.offset)
           buy == rule.action = "buy"
           low == Min({target, bar.high})
           high == Max({target, bar.low})
<1>1. /\ bar.high \in Nat /\ bar.high >= 100 /\ bar.low \in Nat /\ bar.low >= 100
      /\ bar.close \in Quotes
  BY DEF Candles, Quotes
<1>2. target \in Int
  BY <1>1, PercentIn
<1>3. Over(bar.close) \in Nat /\ Under(bar.close) \in Nat
  BY <1>1, OverIn DEF Sizes
<1> HIDE DEF target
<1>4. ASSUME bar.low <= target PROVE low \in Nat
  <2>1. target \in Nat
    BY <1>1, <1>2, <1>4
  <2>2. Min({target, bar.high}) \in {target, bar.high}
    BY <1>1, <2>1, MinOfTwo
  <2> QED
    BY <1>1, <2>1, <2>2
<1>5. high \in Nat
  <2>0. bar.low \in Int
    BY <1>1
  <2>1. high \in {target, bar.low} /\ bar.low <= high
    BY <1>2, <2>0, MaxOfTwo
  <2> HIDE DEF high
  <2> QED
    BY <1>1, <1>2, <2>1
<1>6. RuleFill(rule, bar) =
        CASE ~rule.limit         -> IF buy THEN Over(bar.close) ELSE Under(bar.close)
          [] rule.limit /\ buy   -> IF bar.low <= target THEN low ELSE 0
          [] rule.limit /\ ~buy  -> IF bar.high >= target THEN high ELSE 0
  BY DEF RuleFill, target
<1> HIDE DEF low, high, buy
<1>7. CASE ~rule.limit
  BY <1>3, <1>6, <1>7
<1>8. CASE rule.limit /\ buy
  BY <1>4, <1>6, <1>8
<1>9. CASE rule.limit /\ ~buy
  BY <1>5, <1>6, <1>9
<1> QED
  BY <1>7, <1>8, <1>9

\* What a short position is opened with.
LEMMA ShortQtyIn ==
  ASSUME NEW acc, acc.capital \in Nat, acc.leverage \in Nat \ {0}, NEW price \in Sizes
  PROVE  ShortQty(acc, price) \in Nat
<1> DEFINE equity == 100 * acc.capital
           base == (equity * 100) \div 100
           lev == acc.leverage
           l == Clamp(lev, 1, 20)
           size == IF lev > 1 THEN FuturesNotional(base, equity, lev, 20) ELSE base
           d == price * (100 + Commission)
<1>0. Commission \in Nat /\ price \in Nat /\ price > 0 /\ lev \in Nat
  BY BacktestAssumption DEF Sizes
<1>1. CASE lev > 1
  <2>1. equity \in Nat /\ base \in Nat
    OBVIOUS
  <2>2. l \in Nat
    BY <1>0 DEF Clamp
  <2> HIDE DEF l, base, equity
  <2>3. FuturesNotional(base, equity, lev, 20) = IF base <= 0 THEN 0 ELSE Clamp(base * l, 0, equity * l)
    BY DEF FuturesNotional, l
  <2>4. base * l \in Nat /\ equity * l \in Nat
    BY <2>1, <2>2, ProductOf
  <2> DEFINE x == base * l
             y == equity * l
  <2>5. Clamp(x, 0, y) \in Nat
    <3>1. x \in Int /\ y \in Int /\ 0 \in Int /\ 0 <= y
      BY <2>4
    <3> HIDE DEF x, y
    <3>2. Clamp(x, 0, y) \in 0..y
      BY <3>1, ClampIn
    <3> QED
      BY <3>1, <3>2
  <2>6. size \in Nat
    BY <1>1, <2>3, <2>5
  <2>7. d \in Nat /\ d > 0
    BY <1>0, ProductOf
  <2>8. ShortQty(acc, price) = IF equity <= 0 \/ price <= 0 THEN 0 ELSE size \div d
    BY <1>1 DEF ShortQty, OrderQty, size, d, base, equity
  <2> HIDE DEF size, d
  <2>9. size \div d \in Nat
    BY <2>6, <2>7, DivIn
  <2> QED
    BY <2>8, <2>9
<1>2. CASE ~(lev > 1)
  <2>1. ShortQty(acc, price) = acc.capital \div price
    BY <1>2 DEF ShortQty
  <2> QED
    BY <1>0, <2>1, DivIn
<1> QED
  BY <1>1, <1>2

---------------------------------------------------------------------------
(* The tree.                                                               *)
LevelsOf(root, m, g) == g = [d \in 0..m |-> IF d = 0 THEN {root} ELSE UNION {Below(n) : n \in g[d - 1]}]

LEMMA LevelsExist == ASSUME NEW root, NEW m \in Nat PROVE \E g : LevelsOf(root, m, g)
<1> DEFINE G == {k \in 0..m : \E g : LevelsOf(root, k, g)}
<1>1. 0 \in G
  <2> DEFINE g == [d \in 0..0 |-> {root}]
  <2>1. g = [d \in 0..0 |-> IF d = 0 THEN {root} ELSE UNION {Below(n) : n \in g[d - 1]}]
    OBVIOUS
  <2> HIDE DEF g
  <2>2. LevelsOf(root, 0, g)
    BY <2>1 DEF LevelsOf
  <2>3. 0 \in 0..m
    OBVIOUS
  <2> QED
    BY <2>2, <2>3
<1>2. ASSUME NEW k \in 1..m, k - 1 \in G PROVE k \in G
  <2>1. PICK f : LevelsOf(root, k - 1, f)
    BY <1>2
  <2> DEFINE more == UNION {Below(n) : n \in f[k - 1]}
             g == [d \in 0..k |-> IF d = k THEN more ELSE f[d]]
  <2>2. ASSUME NEW d \in 0..k PROVE g[d] = IF d = 0 THEN {root} ELSE UNION {Below(n) : n \in g[d - 1]}
    <3>1. CASE d = k
      <4>1. k - 1 \in 0..k /\ k - 1 # k /\ k # 0
        OBVIOUS
      <4>2. g[k - 1] = f[k - 1] /\ g[d] = more
        BY <3>1, <4>1
      <4> QED
        BY <3>1, <4>1, <4>2
    <3>2. CASE d # k
      <4>1. d \in 0..(k - 1)
        BY <3>2
      <4>2. f[d] = IF d = 0 THEN {root} ELSE UNION {Below(n) : n \in f[d - 1]}
        BY <2>1, <4>1 DEF LevelsOf
      <4>3. d # 0 => d - 1 \in 0..k /\ d - 1 # k
        BY <4>1
      <4>4. g[d] = f[d] /\ (d # 0 => g[d - 1] = f[d - 1])
        BY <3>2, <4>3
      <4> QED
        BY <4>2, <4>4
    <3> QED
      BY <3>1, <3>2
  <2>3. DOMAIN g = 0..k /\ g = [d \in 0..k |-> g[d]]
    OBVIOUS
  <2> HIDE DEF g
  <2>4. [d \in 0..k |-> g[d]] = [d \in 0..k |-> IF d = 0 THEN {root} ELSE UNION {Below(n) : n \in g[d - 1]}]
    BY <2>2
  <2>5. LevelsOf(root, k, g)
    BY <2>3, <2>4 DEF LevelsOf
  <2>6. k \in 0..m
    OBVIOUS
  <2> QED
    BY <2>5, <2>6
<1> HIDE DEF G
<1>3. \A k \in 0..m : k \in G
  BY <1>1, <1>2, UpInduct
<1> QED
  BY <1>3 DEF G

Deepest == MaxNodeDepth + 1
LEMMA NodesAtAre ==
  ASSUME NEW root
  PROVE  NodesAt(root, 0) = {root} /\ \A d \in 1..Deepest : NodesAt(root, d) = UNION {Below(n) : n \in NodesAt(root, d - 1)}
<1> DEFINE level == CHOOSE g : LevelsOf(root, Deepest, g)
<1>1. Deepest \in Nat
  BY BacktestAssumption DEF Deepest
<1>2. LevelsOf(root, Deepest, level)
  BY <1>1, LevelsExist
<1>3. \A d : NodesAt(root, d) = level[d]
  BY DEF NodesAt, LevelsOf, Deepest
<1> HIDE DEF level
<1>4. \A d \in 0..Deepest : level[d] = IF d = 0 THEN {root} ELSE UNION {Below(n) : n \in level[d - 1]}
  BY <1>2 DEF LevelsOf
<1>5. level[0] = {root}
  <2>1. 0 \in 0..Deepest
    BY <1>1
  <2> QED
    BY <1>4, <2>1
<1>6. ASSUME NEW d \in 1..Deepest PROVE level[d] = UNION {Below(n) : n \in level[d - 1]}
  <2>1. d \in 0..Deepest /\ d # 0
    OBVIOUS
  <2> QED
    BY <1>4, <2>1
<1> QED
  BY <1>3, <1>5, <1>6

TreeOK(root) == NodesAt(root, Deepest) = {} /\ \A n \in Nodes(root) : TypedNode(n) /\ ValidNode(n)

\* The nodes of a tree that is no deeper than it may be hold what is below each.
LEMMA NodesClosed ==
  ASSUME NEW root, NodesAt(root, Deepest) = {}
  PROVE  root \in Nodes(root) /\ \A n \in Nodes(root) : Below(n) \subseteq Nodes(root)
<1>1. MaxNodeDepth \in Nat
  BY BacktestAssumption
<1>2. root \in Nodes(root)
  <2>1. 0 \in 0..MaxNodeDepth /\ root \in NodesAt(root, 0)
    BY <1>1, NodesAtAre
  <2> QED
    BY <2>1 DEF Nodes
<1>3. ASSUME NEW n \in Nodes(root), NEW c \in Below(n) PROVE c \in Nodes(root)
  <2>1. PICK d \in 0..MaxNodeDepth : n \in NodesAt(root, d)
    BY DEF Nodes
  <2>2. d + 1 \in 1..Deepest /\ (d + 1) - 1 = d
    BY <1>1 DEF Deepest
  <2>3. NodesAt(root, d + 1) = UNION {Below(x) : x \in NodesAt(root, d)}
    BY <2>2, NodesAtAre
  <2>4. c \in NodesAt(root, d + 1)
    BY <1>3, <2>1, <2>3
  <2>5. d + 1 \in 0..MaxNodeDepth
    <3>1. d + 1 # Deepest
      BY <2>4
    <3> QED
      BY <1>1, <2>2, <3>1 DEF Deepest
  <2> QED
    BY <2>4, <2>5 DEF Nodes
<1> QED
  BY <1>2, <1>3

\* What is below a sound tree is one.
LEMMA ChildOK == ASSUME NEW root, TreeOK(root), NEW c \in Below(root) PROVE TreeOK(c) /\ Nodes(c) \subseteq Nodes(root)
<1>1. MaxNodeDepth \in Nat
  BY BacktestAssumption
<1>2. NodesAt(root, Deepest) = {}
  BY DEF TreeOK
<1> DEFINE G == {d \in 0..MaxNodeDepth : NodesAt(c, d) \subseteq NodesAt(root, d + 1)}
<1>3. 0 \in G
  <2>1. NodesAt(c, 0) = {c} /\ NodesAt(root, 0) = {root}
    BY NodesAtAre
  <2>2. 1 \in 1..Deepest /\ 1 - 1 = 0 /\ 0 + 1 = 1
    BY <1>1 DEF Deepest
  <2>3. NodesAt(root, 1) = UNION {Below(x) : x \in NodesAt(root, 0)}
    BY <2>2, NodesAtAre
  <2>4. c \in NodesAt(root, 1)
    BY <2>1, <2>3
  <2> QED
    BY <1>1, <2>1, <2>2, <2>4
<1>4. ASSUME NEW d \in 1..MaxNodeDepth, d - 1 \in G PROVE d \in G
  <2>1. d \in 1..Deepest /\ d + 1 \in 1..Deepest /\ (d + 1) - 1 = d /\ (d - 1) + 1 = d /\ d \in 0..MaxNodeDepth
    BY <1>1 DEF Deepest
  <2>2. NodesAt(c, d) = UNION {Below(x) : x \in NodesAt(c, d - 1)}
    BY <2>1, NodesAtAre
  <2>3. NodesAt(root, d + 1) = UNION {Below(x) : x \in NodesAt(root, d)}
    <3>1. NodesAt(root, d + 1) = UNION {Below(x) : x \in NodesAt(root, (d + 1) - 1)}
      BY <2>1, NodesAtAre
    <3> QED
      BY <2>1, <3>1
  <2>4. NodesAt(c, d - 1) \subseteq NodesAt(root, d)
    BY <1>4, <2>1
  <2> QED
    BY <2>1, <2>2, <2>3, <2>4
<1> HIDE DEF G
<1>5. \A d \in 0..MaxNodeDepth : d \in G
  BY <1>1, <1>3, <1>4, UpInduct
<1>6. NodesAt(c, Deepest) = {}
  <2>1. MaxNodeDepth \in 0..MaxNodeDepth /\ Deepest \in 1..Deepest /\ Deepest - 1 = MaxNodeDepth /\ MaxNodeDepth + 1 = Deepest
    BY <1>1 DEF Deepest
  <2>2. NodesAt(c, MaxNodeDepth) \subseteq NodesAt(root, MaxNodeDepth + 1)
    BY <1>5, <2>1 DEF G
  <2>3. NodesAt(c, Deepest) = UNION {Below(x) : x \in NodesAt(c, MaxNodeDepth)}
    <3>1. NodesAt(c, Deepest) = UNION {Below(x) : x \in NodesAt(c, Deepest - 1)}
      BY <2>1, NodesAtAre
    <3> QED
      BY <2>1, <3>1
  <2>4. NodesAt(c, MaxNodeDepth) = {}
    BY <1>2, <2>1, <2>2
  <2> QED
    BY <2>3, <2>4
<1>7. ASSUME NEW n \in Nodes(c) PROVE n \in Nodes(root)
  <2>1. PICK d \in 0..MaxNodeDepth : n \in NodesAt(c, d)
    BY DEF Nodes
  <2>2. n \in NodesAt(root, d + 1)
    BY <1>5, <2>1 DEF G
  <2>3. d + 1 \in 0..MaxNodeDepth
    <3>1. d + 1 # Deepest
      BY <1>2, <2>2
    <3> QED
      BY <1>1, <3>1 DEF Deepest
  <2> QED
    BY <2>2, <2>3 DEF Nodes
<1> QED
  BY <1>6, <1>7 DEF TreeOK

---------------------------------------------------------------------------
(* The strategy a tree chooses is that of a leaf, or none.                 *)
Strategies(root) == {NoStrategy} \union {n.strategy : n \in {m \in Nodes(root) : m.type = "leaf"}}

LEMMA HeaviestIn ==
  ASSUME NEW node, node.type = "composite", TypedNode(node), ValidNode(node)
  PROVE  Heaviest(node) \in DOMAIN node.children
<1> DEFINE D == DOMAIN node.children
           W(k) == IF k <= Len(node.weights) THEN node.weights[k] ELSE 0
           F == [k \in D |-> W(k)]
           best == {k \in D : \A j \in D : F[j] <= F[k]}
<1>1. node.weights \in Seq(Int) /\ node.children \in Seq(Range(node.children)) /\ node.children # <<>>
  BY DEF TypedNode, ValidNode
<1>2. Len(node.children) \in Nat /\ D = 1..Len(node.children) /\ Len(node.children) # 0
  BY <1>1
<1>4. D \in SUBSET Nat
  BY <1>2
<1>5. D # {}
  BY <1>2
<1>6. \A k \in D : k >= 1
  BY <1>2
<1> HIDE DEF D
<1>7. \A k \in D : W(k) \in Int
  <2>1. TAKE k \in D
  <2>2. k \in Nat /\ k >= 1 /\ Len(node.weights) \in Nat
    BY <1>1, <1>4, <1>6
  <2>3. k <= Len(node.weights) => node.weights[k] \in Int
    BY <1>1, <2>2
  <2> QED
    BY <2>3
<1>8. Heaviest(node) = Min(best)
  <2>1. best = {k \in D : \A j \in D : W(j) <= W(k)}
    OBVIOUS
  <2> HIDE DEF best
  <2> QED
    BY <2>1 DEF Heaviest, D
<1>9. \A k \in D : F[k] \in Int
  BY <1>7
<1> HIDE DEF W
<1> HIDE DEF F
<1> DEFINE n == Len(node.children)
           G == {k \in 0..n : k = 0 \/ \E h \in 1..k : \A j \in 1..k : F[j] <= F[h]}
<1>10. n \in Nat /\ n # 0 /\ D = 1..n
  BY <1>2
<1> HIDE DEF n
<1>11. 0 \in G
  BY <1>10
<1>12. ASSUME NEW k \in 1..n, k - 1 \in G PROVE k \in G
  <2>1. k \in Nat /\ k \in 0..n /\ k \in 1..k /\ F[k] \in Int /\ F[k] <= F[k]
    BY <1>9, <1>10
  <2>2. CASE k - 1 = 0
    <3>1. \A j \in 1..k : F[j] <= F[k]
      BY <2>1, <2>2
    <3> QED
      BY <2>1, <3>1
  <2>3. CASE k - 1 # 0
    <3>1. PICK h \in 1..(k - 1) : \A j \in 1..(k - 1) : F[j] <= F[h]
      BY <1>12, <2>3
    <3>2. h \in 1..k /\ F[h] \in Int
      BY <1>9, <1>10, <2>1
    <3>3. CASE F[k] <= F[h]
      <4>1. \A j \in 1..k : F[j] <= F[h]
        <5>1. TAKE j \in 1..k
        <5>2. j = k \/ j \in 1..(k - 1)
          BY <2>1
        <5> QED
          BY <3>1, <3>3, <5>2
      <4> QED
        BY <2>1, <3>2, <4>1
    <3>4. CASE ~(F[k] <= F[h])
      <4>1. \A j \in 1..k : F[j] <= F[k]
        <5>1. TAKE j \in 1..k
        <5>2. j = k \/ j \in 1..(k - 1)
          BY <2>1
        <5>3. F[j] \in Int
          BY <1>9, <1>10
        <5> QED
          BY <2>1, <3>1, <3>2, <3>4, <5>2, <5>3
      <4> QED
        BY <2>1, <4>1
    <3> QED
      BY <3>3, <3>4
  <2> QED
    BY <2>2, <2>3
<1> HIDE DEF G
<1>13. n \in G
  BY <1>10, <1>11, <1>12, UpInduct
<1>14. PICK k \in D : \A j \in D : F[j] <= F[k]
  BY <1>10, <1>13 DEF G
<1>15. best # {} /\ best \in SUBSET Nat /\ best \subseteq D
  BY <1>4, <1>14
<1> HIDE DEF best
<1>16. Min(best) \in best
  BY <1>15, MinIn
<1> QED
  BY <1>8, <1>15, <1>16 DEF D

LEMMA ChosenIn ==
  ASSUME NEW root, TreeOK(root), NEW n \in Nodes(root), NEW below \in [Nodes(root) -> Strategies(root)], NEW ctx, NEW bars, NEW i
  PROVE  Chosen(n, below, ctx, bars, i) \in Strategies(root)
<1>1. TypedNode(n) /\ ValidNode(n) /\ Below(n) \subseteq Nodes(root)
  BY NodesClosed DEF TreeOK
<1>2. CASE n.type = "none"
  BY <1>2 DEF Chosen, Strategies
<1>3. CASE n.type = "leaf"
  BY <1>3 DEF Chosen, Strategies
<1>4. CASE n.type = "condition"
  <2>1. n.then \in Nodes(root) /\ n.else \in Nodes(root)
    BY <1>1, <1>4 DEF Below
  <2> QED
    BY <1>4, <2>1 DEF Chosen
<1>5. CASE n.type = "composite"
  <2>1. \A k \in DOMAIN n.children : n.children[k] \in Nodes(root)
    BY <1>1, <1>5 DEF Below, Range
  <2>2. n.children \in Seq(Range(n.children))
    BY <1>1, <1>5 DEF TypedNode
  <2>3. CASE n.mode = "priority"
    <3> DEFINE found == {k \in DOMAIN n.children : below[n.children[k]].name # "none"}
    <3>1. found # {} => Min(found) \in DOMAIN n.children
      <4>1. found \in SUBSET Nat /\ found \subseteq DOMAIN n.children
        BY <2>2
      <4> HIDE DEF found
      <4> QED
        BY <4>1, MinIn
    <3>2. Chosen(n, below, ctx, bars, i) = IF found = {} THEN NoStrategy ELSE below[n.children[Min(found)]]
      BY <1>5, <2>3 DEF Chosen
    <3> HIDE DEF found
    <3>3. NoStrategy \in Strategies(root)
      BY DEF Strategies
    <3> QED
      BY <2>1, <3>1, <3>2, <3>3
  <2>4. CASE n.mode = "weighted"
    <3>1. Heaviest(n) \in DOMAIN n.children
      BY <1>1, <1>5, HeaviestIn
    <3>2. Chosen(n, below, ctx, bars, i) = below[n.children[Heaviest(n)]]
      BY <1>5, <2>4 DEF Chosen
    <3> QED
      BY <2>1, <3>1, <3>2
  <2> QED
    BY <1>1, <1>5, <2>3, <2>4 DEF TypedNode
<1> QED
  BY <1>1, <1>2, <1>3, <1>4, <1>5 DEF TypedNode

---------------------------------------------------------------------------
(* The strategy that is active.                                            *)

ActiveOf(root, ctx, bars, i, m, g) ==
  g = [left \in 0..m |-> [n \in Nodes(root) |-> IF left = 0 THEN NoStrategy ELSE Chosen(n, g[left - 1], ctx, bars, i)]]

LEMMA ActiveExists == ASSUME NEW root, NEW ctx, NEW bars, NEW i, NEW m \in Nat PROVE \E g : ActiveOf(root, ctx, bars, i, m, g)
<1> DEFINE G == {k \in 0..m : \E g : ActiveOf(root, ctx, bars, i, k, g)}
           N == Nodes(root)
<1>1. 0 \in G
  <2> DEFINE g == [left \in 0..0 |-> [n \in N |-> NoStrategy]]
  <2>1. g = [left \in 0..0 |-> [n \in N |-> IF left = 0 THEN NoStrategy ELSE Chosen(n, g[left - 1], ctx, bars, i)]]
    OBVIOUS
  <2> HIDE DEF g
  <2>2. ActiveOf(root, ctx, bars, i, 0, g)
    BY <2>1 DEF ActiveOf
  <2>3. 0 \in 0..m
    OBVIOUS
  <2> QED
    BY <2>2, <2>3
<1>2. ASSUME NEW k \in 1..m, k - 1 \in G PROVE k \in G
  <2>1. PICK f : ActiveOf(root, ctx, bars, i, k - 1, f)
    BY <1>2
  <2> DEFINE more == [n \in N |-> Chosen(n, f[k - 1], ctx, bars, i)]
             g == [d \in 0..k |-> IF d = k THEN more ELSE f[d]]
  <2>2. ASSUME NEW d \in 0..k
        PROVE  g[d] = [n \in N |-> IF d = 0 THEN NoStrategy ELSE Chosen(n, g[d - 1], ctx, bars, i)]
    <3>1. CASE d = k
      <4>1. k - 1 \in 0..k /\ k - 1 # k /\ k # 0
        OBVIOUS
      <4>2. g[k - 1] = f[k - 1] /\ g[d] = more
        BY <3>1, <4>1
      <4> QED
        BY <3>1, <4>1, <4>2
    <3>2. CASE d # k
      <4>1. d \in 0..(k - 1)
        BY <3>2
      <4>2. f[d] = [n \in N |-> IF d = 0 THEN NoStrategy ELSE Chosen(n, f[d - 1], ctx, bars, i)]
        BY <2>1, <4>1 DEF ActiveOf
      <4>3. d # 0 => d - 1 \in 0..k /\ d - 1 # k
        BY <4>1
      <4>4. g[d] = f[d] /\ (d # 0 => g[d - 1] = f[d - 1])
        BY <3>2, <4>3
      <4> HIDE DEF g
      <4>5. CASE d = 0
        BY <4>2, <4>4, <4>5
      <4>6. CASE d # 0
        BY <4>2, <4>4, <4>6
      <4> QED
        BY <4>5, <4>6
    <3> QED
      BY <3>1, <3>2
  <2>3. DOMAIN g = 0..k /\ g = [d \in 0..k |-> g[d]]
    OBVIOUS
  <2> HIDE DEF g
  <2>4. [d \in 0..k |-> g[d]] = [d \in 0..k |-> [n \in N |-> IF d = 0 THEN NoStrategy ELSE Chosen(n, g[d - 1], ctx, bars, i)]]
    BY <2>2
  <2>5. ActiveOf(root, ctx, bars, i, k, g)
    BY <2>3, <2>4 DEF ActiveOf
  <2>6. k \in 0..m
    OBVIOUS
  <2> QED
    BY <2>5, <2>6
<1> HIDE DEF G
<1>3. \A k \in 0..m : k \in G
  BY <1>1, <1>2, UpInduct
<1> QED
  BY <1>3 DEF G

LEMMA ActiveIn ==
  ASSUME NEW root, TreeOK(root), NEW ctx, NEW bars, NEW i
  PROVE  ResolveActiveStrategy(root, ctx, bars, i) \in Strategies(root)
<1> DEFINE Left == MaxDepth + 1
           active == CHOOSE g : ActiveOf(root, ctx, bars, i, Left, g)
           All == [Nodes(root) -> Strategies(root)]
<1>1. Left \in Nat
  BY BacktestAssumption
<1>2. ActiveOf(root, ctx, bars, i, Left, active)
  BY <1>1, ActiveExists
<1>3. ResolveActiveStrategy(root, ctx, bars, i) = active[Left][root]
  BY DEF ResolveActiveStrategy, ActiveOf
<1> HIDE DEF active
<1> DEFINE G == {k \in 0..Left : active[k] \in All}
<1>4. \A k \in 0..Left : active[k] = [n \in Nodes(root) |-> IF k = 0 THEN NoStrategy ELSE Chosen(n, active[k - 1], ctx, bars, i)]
  BY <1>2 DEF ActiveOf
<1> HIDE DEF Left
<1>5. 0 \in G
  <2>1. 0 \in 0..Left
    BY <1>1
  <2>2. NoStrategy \in Strategies(root)
    BY DEF Strategies
  <2>3. active[0] = [n \in Nodes(root) |-> IF 0 = 0 THEN NoStrategy ELSE Chosen(n, active[0 - 1], ctx, bars, i)]
    BY <1>4, <2>1
  <2> QED
    BY <2>1, <2>2, <2>3
<1>6. ASSUME NEW k \in 1..Left, k - 1 \in G PROVE k \in G
  <2>1. k \in 0..Left /\ k # 0
    BY <1>1
  <2>2. active[k] = [n \in Nodes(root) |-> Chosen(n, active[k - 1], ctx, bars, i)]
    BY <1>4, <2>1
  <2>3. \A n \in Nodes(root) : Chosen(n, active[k - 1], ctx, bars, i) \in Strategies(root)
    BY <1>6, ChosenIn
  <2> QED
    BY <2>1, <2>2, <2>3
<1> HIDE DEF G
<1>7. Left \in G
  <2>1. \A k \in 0..Left : k \in G
    BY <1>1, <1>5, <1>6, UpInduct
  <2> QED
    BY <1>1, <2>1
<1>8. root \in Nodes(root)
  BY NodesClosed DEF TreeOK
<1> QED
  BY <1>3, <1>7, <1>8 DEF G

\* What every strategy of a sound tree is.
StrategyOK(s) ==
  /\ s.sl \in Int /\ s.tp \in Int /\ s.rules \in Seq(Range(s.rules))
  /\ \A k \in DOMAIN s.rules :
       s.rules[k].action \in {"buy", "sell"} /\ s.rules[k].percent \in 0..100 /\ s.rules[k].limit \in BOOLEAN /\ s.rules[k].offset \in Int

LEMMA StrategiesOK == ASSUME NEW root, TreeOK(root), NEW s \in Strategies(root) PROVE StrategyOK(s)
<1>1. CASE s = NoStrategy
  <2>1. s.sl = -1 /\ s.tp = -1 /\ s.rules = <<>>
    BY <1>1 DEF NoStrategy, Unset
  <2>2. <<>> \in Seq(Range(<<>>)) /\ DOMAIN <<>> = {}
    OBVIOUS
  <2> QED
    BY <2>1, <2>2 DEF StrategyOK
<1>2. CASE s # NoStrategy
  <2>1. PICK n \in Nodes(root) : n.type = "leaf" /\ s = n.strategy
    BY <1>2 DEF Strategies
  <2>2. TypedStrategy(s) /\ ValidStrategy(s)
    BY <2>1 DEF TreeOK, TypedNode, ValidNode
  <2>3. s.rules \in Seq(Range(s.rules))
    BY <2>2 DEF TypedStrategy
  <2>4. DOMAIN s.rules = 1..Len(s.rules)
    BY <2>3
  <2> QED
    BY <2>2, <2>4 DEF TypedStrategy, ValidStrategy, StrategyOK
<1> QED
  BY <1>1, <1>2

---------------------------------------------------------------------------
(* Comparing fractions: reducing one keeps its value, a percentage of one  *)
(* grows with it.                                                          *)
Signed == Int \X (Nat \ {0})

LEMMA TimesLeq == ASSUME NEW a \in Int, NEW b \in Int, NEW k \in Nat, a <= b PROVE a * k <= b * k
OBVIOUS

LEMMA CancelLeq == ASSUME NEW a \in Int, NEW b \in Int, NEW k \in Nat, k > 0, a * k <= b * k PROVE a <= b
<1> SUFFICES ASSUME b + 1 <= a PROVE FALSE
  OBVIOUS
<1>1. (b + 1) * k <= a * k
  BY TimesLeq
<1>2. (b + 1) * k = b * k + k
  OBVIOUS
<1> QED
  BY <1>1, <1>2

LEMMA Rearrange ==
  ASSUME NEW a \in Int, NEW b \in Int, NEW c \in Int
  PROVE  a * b \in Int /\ a * b = b * a /\ (a * b) * c = (a * c) * b /\ (a * b) * c = a * (b * c)
OBVIOUS

\* The greatest common divisor divides both.
Divides(n, d, g) == \E x \in Int, y \in Nat : n = x * g /\ d = y * g
LEMMA GcdDivides == \A d \in Nat : d > 0 => \A n \in Int : Divides(n, d, Gcd[<<n, d>>])
<1> DEFINE G == {d \in Nat : d > 0 => \A n \in Int : Divides(n, d, Gcd[<<n, d>>])}
<1>1. ASSUME NEW d \in Nat, \A m \in Nat : m < d => m \in G PROVE d \in G
  <2> SUFFICES ASSUME d > 0, NEW n \in Int PROVE Divides(n, d, Gcd[<<n, d>>])
    OBVIOUS
  <2> DEFINE m == n % d
             q == n \div d
  <2>1. Gcd[<<n, d>>] = Gcd[<<d, m>>]
    BY GcdIs
  <2>2. m \in Nat /\ m < d /\ d \in Int
    BY ModIn
  <2>3. q \in Int /\ n = d * q + m
    OBVIOUS
  <2> HIDE DEF m, q
  <2>4. CASE m = 0
    <3>1. Gcd[<<d, 0>>] = d
      BY <2>2, GcdIs
    <3>2. n = q * d /\ d = 1 * d
      BY <2>2, <2>3, <2>4
    <3> QED
      BY <2>1, <2>3, <2>4, <3>1, <3>2 DEF Divides
  <2>5. CASE m # 0
    <3> DEFINE g == Gcd[<<d, m>>]
    <3>1. m \in G /\ m > 0
      BY <1>1, <2>2, <2>5
    <3>2. Divides(d, m, g)
      BY <2>2, <3>1
    <3>3. g \in 1..m
      BY <2>2, <3>1, GcdIn
    <3> HIDE DEF g
    <3>4. PICK x \in Int, y \in Nat : d = x * g /\ m = y * g
      BY <3>2 DEF Divides
    <3>5. g \in Nat /\ g > 0
      BY <2>2, <3>3
    <3>6. x \in Nat
      <4>1. ASSUME x <= 0 PROVE FALSE
        <5>1. x * g <= 0 * g
          BY <3>5, <4>1, TimesLeq
        <5> QED
          BY <2>2, <3>4, <3>5, <5>1
      <4> QED
        BY <4>1
    <3>7. n = (x * q + y) * g
      <4>1. (x * q + y) * g = (x * q) * g + y * g
        BY <2>3, <3>5
      <4>2. (x * q) * g = (x * g) * q
        BY <2>3, <3>5, Rearrange
      <4> QED
        BY <2>3, <3>4, <4>1, <4>2
    <3>8. x * q + y \in Int
      BY <2>3
    <3>9. Divides(n, d, g)
      BY <3>4, <3>6, <3>7, <3>8 DEF Divides
    <3> QED
      BY <2>1, <3>9 DEF g
  <2> QED
    BY <2>4, <2>5 DEF m
<1> HIDE DEF G
<1>2. \A d \in Nat : d \in G
  BY <1>1, StrongInduct
<1> QED
  BY <1>2 DEF G

LEMMA DivExact == ASSUME NEW x \in Int, NEW g \in Nat, g > 0 PROVE (x * g) \div g = x
OBVIOUS

\* What is reduced keeps its value.
LEMMA FracSame ==
  ASSUME NEW n \in Int, NEW d \in Nat, d > 0
  PROVE  Frac(n, d) \in Signed /\ Frac(n, d)[1] * d = n * Frac(n, d)[2]
<1> DEFINE g == Gcd[<<n, d>>]
<1>1. g \in 1..d /\ Divides(n, d, g)
  BY GcdIn, GcdDivides
<1>2. Frac(n, d) = IF n = 0 THEN <<0, 1>> ELSE <<n \div g, d \div g>>
  BY DEF Frac
<1> HIDE DEF g
<1>3. Frac(n, d) \in Signed
  BY FracIn DEF Signed
<1>4. PICK x \in Int, y \in Nat : n = x * g /\ d = y * g
  BY <1>1 DEF Divides
<1>5. g \in Nat /\ g > 0
  BY <1>1
<1>6. n \div g = x /\ d \div g = y
  BY <1>4, <1>5, DivExact
<1>7. CASE n = 0
  BY <1>2, <1>3, <1>7
<1>8. CASE n # 0
  <2>1. Frac(n, d)[1] = x /\ Frac(n, d)[2] = y
    BY <1>2, <1>6, <1>8
  <2>2. x * (y * g) = (x * g) * y
    BY <1>5, Rearrange
  <2> QED
    BY <1>3, <1>4, <2>1, <2>2
<1> QED
  BY <1>7, <1>8

\* Comparing what two fractions are reduced to is comparing them.
LEMMA LeqReduced ==
  ASSUME NEW n \in Int, NEW d \in Nat, d > 0, NEW m \in Int, NEW e \in Nat, e > 0, n * e <= m * d
  PROVE  Leq(Frac(n, d), Frac(m, e))
<1> DEFINE f == Frac(n, d)
           g == Frac(m, e)
           a == f[1]
           b == f[2]
           x == g[1]
           y == g[2]
<1>1. f \in Signed /\ a * d = n * b /\ g \in Signed /\ x * e = m * y
  BY FracSame
<1>2. a \in Int /\ b \in Nat /\ b > 0 /\ x \in Int /\ y \in Nat /\ y > 0
  BY <1>1 DEF Signed
<1> HIDE DEF a, b, x, y
<1>3. b * y \in Nat /\ d * e \in Nat /\ d * e > 0
  BY <1>2, ProductOf
<1>4. (n * e) * (b * y) <= (m * d) * (b * y)
  <2>1. n * e \in Int /\ m * d \in Int
    OBVIOUS
  <2> QED
    BY <1>3, <2>1, TimesLeq
<1>5. (n * e) * (b * y) = (a * y) * (d * e)
  <2>1. (n * e) * (b * y) = (n * b) * (e * y)
    BY <1>2
  <2>2. (a * d) * (e * y) = (a * y) * (d * e)
    BY <1>2
  <2> QED
    BY <1>1, <2>1, <2>2
<1>6. (m * d) * (b * y) = (x * b) * (d * e)
  <2>1. (m * d) * (b * y) = (m * y) * (d * b)
    BY <1>2
  <2>2. (x * e) * (d * b) = (x * b) * (d * e)
    BY <1>2
  <2> QED
    BY <1>1, <2>1, <2>2
<1>7. a * y <= x * b
  <2>1. a * y \in Int /\ x * b \in Int
    BY <1>2
  <2> QED
    BY <1>3, <1>4, <1>5, <1>6, <2>1, CancelLeq
<1> QED
  BY <1>7 DEF Leq, a, b, x, y

LEMMA LeqTrans ==
  ASSUME NEW f \in Signed, NEW g \in Signed, NEW h \in Signed, Leq(f, g), Leq(g, h)
  PROVE  Leq(f, h)
<1> DEFINE a == f[1]
           b == f[2]
           c == g[1]
           d == g[2]
           x == h[1]
           y == h[2]
<1>1. a \in Int /\ b \in Nat /\ c \in Int /\ d \in Nat /\ d > 0 /\ x \in Int /\ y \in Nat
  BY DEF Signed
<1>2. a * d <= c * b /\ c * y <= x * d
  BY DEF Leq
<1> HIDE DEF a, b, c, d, x, y
<1>3. (a * d) * y <= (c * b) * y
  BY <1>1, <1>2, Rearrange, TimesLeq
<1>4. (c * y) * b <= (x * d) * b
  BY <1>1, <1>2, Rearrange, TimesLeq
<1>5. (a * d) * y = (a * y) * d /\ (c * b) * y = (c * y) * b /\ (x * d) * b = (x * b) * d
  BY <1>1, Rearrange
<1>6. a * y \in Int /\ x * b \in Int /\ (c * y) * b \in Int
  BY <1>1
<1>7. (a * y) * d \in Int /\ (x * b) * d \in Int
  BY <1>1, <1>6
<1>8. (a * y) * d <= (x * b) * d
  BY <1>3, <1>4, <1>5, <1>6, <1>7
<1>9. a * y <= x * b
  BY <1>1, <1>6, <1>8, CancelLeq
<1> QED
  BY <1>9 DEF Leq, a, b, x, y

LEMMA LeqEither == ASSUME NEW f \in Signed, NEW g \in Signed PROVE Leq(f, f) /\ (Leq(f, g) \/ Leq(g, f))
<1>1. f[1] \in Int /\ f[2] \in Int /\ g[1] \in Int /\ g[2] \in Int
  BY DEF Signed
<1>2. f[1] * g[2] \in Int /\ g[1] * f[2] \in Int /\ f[1] * f[2] \in Int
  BY <1>1
<1> QED
  BY <1>2 DEF Leq

LEMMA HigherIs ==
  ASSUME NEW f \in Signed, NEW g \in Signed
  PROVE  /\ Higher(f, g) \in {f, g} /\ Leq(f, Higher(f, g)) /\ Leq(g, Higher(f, g))
         /\ Lower(f, g) \in {f, g} /\ Leq(Lower(f, g), f) /\ Leq(Lower(f, g), g)
<1>1. Leq(f, f) /\ Leq(g, g) /\ (Leq(f, g) \/ Leq(g, f))
  BY LeqEither
<1> QED
  BY <1>1, Zenon DEF Higher, Lower

---------------------------------------------------------------------------
(* A percentage above or below a fraction.                                 *)

LEMMA OffIn ==
  ASSUME NEW f \in Signed, NEW pct \in Int
  PROVE  /\ Off(f, pct) \in Signed
         /\ Off(f, pct)[1] * (f[2] * 100) = (f[1] * (100 + pct)) * Off(f, pct)[2]
<1> DEFINE n == f[1] * (100 + pct)
           d == f[2] * 100
<1>1. n \in Int /\ d \in Nat /\ d > 0
  BY DEF Signed
<1>2. Off(f, pct) = Frac(n, d)
  BY DEF Off
<1> HIDE DEF n, d
<1>3. Frac(n, d) \in Signed /\ Frac(n, d)[1] * d = n * Frac(n, d)[2]
  BY <1>1, FracSame
<1> QED
  BY <1>2, <1>3 DEF n, d

LEMMA OffRises ==
  ASSUME NEW f \in Signed, NEW g \in Signed, NEW pct \in Int, 100 + pct >= 0, Leq(f, g)
  PROVE  Leq(Off(f, pct), Off(g, pct))
<1> DEFINE k == 100 + pct
           a == f[1]
           b == f[2]
           c == g[1]
           d == g[2]
<1>1. a \in Int /\ b \in Nat /\ b > 0 /\ c \in Int /\ d \in Nat /\ d > 0 /\ k \in Nat
  BY DEF Signed
<1>2. a * d <= c * b
  BY DEF Leq
<1>3. Off(f, pct) = Frac(a * k, b * 100) /\ Off(g, pct) = Frac(c * k, d * 100)
  BY DEF Off
<1> HIDE DEF k, a, b, c, d
<1>4. a * k \in Int /\ c * k \in Int /\ b * 100 \in Nat /\ b * 100 > 0 /\ d * 100 \in Nat /\ d * 100 > 0
  BY <1>1
<1>5. (a * k) * (d * 100) <= (c * k) * (b * 100)
  <2>1. a * d \in Int /\ c * b \in Int /\ k * 100 \in Nat
    BY <1>1
  <2>2. (a * d) * (k * 100) <= (c * b) * (k * 100)
    BY <1>2, <2>1, TimesLeq
  <2>3. (a * k) * (d * 100) = (a * d) * (k * 100) /\ (c * k) * (b * 100) = (c * b) * (k * 100)
    BY <1>1
  <2> QED
    BY <2>2, <2>3
<1> QED
  BY <1>3, <1>4, <1>5, LeqReduced

LEMMA OffBelow ==
  ASSUME NEW f \in Fractions, NEW pct \in Int, pct <= 0
  PROVE  Leq(Off(f, pct), f)
<1> DEFINE k == 100 + pct
           a == f[1]
           b == f[2]
           o == Off(f, pct)
           x == o[1]
           y == o[2]
<1>0. f \in Signed
  BY DEF Fractions, Signed
<1>1. a \in Nat /\ b \in Nat /\ b > 0 /\ k \in Int /\ k <= 100
  BY DEF Fractions
<1>2. o \in Signed /\ x * (b * 100) = (a * k) * y
  BY <1>0, OffIn
<1>3. x \in Int /\ y \in Nat /\ y > 0
  BY <1>2 DEF Signed
<1> HIDE DEF k, a, b, o, x, y
<1>4. a * y \in Nat
  BY <1>1, <1>3, ProductOf
<1>5. k * (a * y) <= 100 * (a * y)
  BY <1>1, <1>4, TimesLeq
<1>6. (a * k) * y = k * (a * y)
  BY <1>1, <1>3
<1>7. x * (b * 100) = (x * b) * 100 /\ x * b \in Int
  BY <1>1, <1>3
<1>8. (x * b) * 100 <= (a * y) * 100
  BY <1>2, <1>4, <1>5, <1>6, <1>7
<1>9. x * b <= a * y
  BY <1>4, <1>7, <1>8
<1> QED
  BY <1>9 DEF Leq, a, b, o, x, y

LEMMA OffPositive ==
  ASSUME NEW f \in Fractions, NEW pct \in Int, Off(f, pct)[1] > 0
  PROVE  100 + pct > 0
<1> DEFINE k == 100 + pct
           a == f[1]
           b == f[2]
           o == Off(f, pct)
           x == o[1]
           y == o[2]
<1>0. f \in Signed
  BY DEF Fractions, Signed
<1>1. a \in Nat /\ b \in Nat /\ b > 0 /\ k \in Int
  BY DEF Fractions
<1>2. o \in Signed /\ x * (b * 100) = (a * k) * y
  BY <1>0, OffIn
<1>3. x \in Int /\ y \in Nat /\ y > 0 /\ x > 0
  BY <1>2 DEF Signed
<1> HIDE DEF k, a, b, o, x, y
<1>k. k > 0
  <2> SUFFICES ASSUME k <= 0 PROVE FALSE
    BY <1>1
  <2>4. a * y \in Nat
    BY <1>1, <1>3, ProductOf
  <2>5. k * (a * y) <= 0 * (a * y)
    BY <1>1, <2>4, TimesLeq
  <2>6. (a * k) * y = k * (a * y)
    BY <1>1, <1>3
  <2>7. x * (b * 100) > 0
    <3>1. b * 100 \in Nat /\ b * 100 > 0 /\ x \in Nat
      BY <1>1, <1>3
    <3> QED
      BY <1>3, <3>1, ProductOf
  <2>8. 0 * (a * y) = 0
    BY <2>4
  <2>9. (a * k) * y <= 0
    BY <2>5, <2>6, <2>8, Zenon
  <2> DEFINE p == x * (b * 100)
  <2>10. p > 0 /\ p <= 0
    BY <1>2, <2>7, <2>9, Zenon
  <2>11. p \in Int
    BY <1>1, <1>3
  <2> HIDE DEF p
  <2> QED
    BY <2>10, <2>11
<1> QED
  BY <1>k DEF k

---------------------------------------------------------------------------
(* The stops, from one bar to the next.                                    *)
Fixed(pos) == IF pos.sl = 0 THEN Price(0) ELSE IF pos.tp # {} THEN pos.avg ELSE Off(pos.avg, 0 - pos.sl)
Trailing(pos) == IF pos.trail = 0 THEN Price(0) ELSE Off(Price(pos.peak), 0 - pos.trail)

LEMMA StopsAre ==
  ASSUME NEW pos \in Positions
  PROVE  /\ Fixed(pos) \in Signed /\ Trailing(pos) \in Signed
         /\ EffectiveStopLoss(pos, pos.peak) = Higher(Fixed(pos), Trailing(pos))
<1>1. pos.avg \in Fractions /\ pos.sl \in Nat /\ pos.trail \in Nat /\ pos.peak \in Nat
  BY DEF Positions
<1>2. pos.avg \in Signed /\ Price(0) \in Signed /\ Price(pos.peak) \in Signed
  BY <1>1 DEF Fractions, Signed, Price
<1>3. 0 - pos.sl \in Int /\ 0 - pos.trail \in Int
  BY <1>1
<1>4. Off(pos.avg, 0 - pos.sl) \in Signed /\ Off(Price(pos.peak), 0 - pos.trail) \in Signed
  BY <1>2, <1>3, OffIn
<1> QED
  BY <1>2, <1>4 DEF Fixed, Trailing, EffectiveStopLoss

\* What a bar leaves of a position that is still held, as far as its stop goes.
Follows(p, q) == q.sl = p.sl /\ q.trail = p.trail /\ p.peak <= q.peak /\ p.tp \subseteq q.tp

LEMMA FixedRises ==
  ASSUME NEW p \in Positions, NEW q \in Positions, Follows(p, q), Leq(p.avg, q.avg), Fixed(p)[1] > 0
  PROVE  Leq(Fixed(p), Fixed(q))
<1>1. p.avg \in Fractions /\ q.avg \in Fractions /\ p.sl \in Nat /\ q.sl = p.sl /\ p.tp \subseteq q.tp
  BY DEF Positions, Follows
<1>2. p.avg \in Signed /\ q.avg \in Signed
  BY <1>1 DEF Fractions, Signed
<1> DEFINE pct == 0 - p.sl
<1>3. pct \in Int /\ pct <= 0
  BY <1>1
<1>4. p.sl # 0
  BY DEF Fixed, Price
<1>5. Fixed(p) = (IF p.tp # {} THEN p.avg ELSE Off(p.avg, pct)) /\ Fixed(q) = (IF q.tp # {} THEN q.avg ELSE Off(q.avg, pct))
  BY <1>1, <1>4 DEF Fixed
<1> HIDE DEF pct
<1>6. CASE p.tp # {}
  <2>1. q.tp # {}
    BY <1>1, <1>6
  <2> QED
    BY <1>5, <1>6, <2>1
<1>7. CASE p.tp = {} /\ q.tp # {}
  <2>1. Leq(Off(p.avg, pct), p.avg) /\ Off(p.avg, pct) \in Signed
    BY <1>1, <1>2, <1>3, OffBelow, OffIn
  <2>2. Leq(Off(p.avg, pct), q.avg)
    BY <1>2, <2>1, LeqTrans
  <2> QED
    BY <1>5, <1>7, <2>2
<1>8. CASE p.tp = {} /\ q.tp = {}
  <2>1. 100 + pct > 0
    BY <1>1, <1>3, <1>5, <1>8, OffPositive
  <2>2. 100 + pct >= 0
    BY <1>3, <2>1
  <2>3. Leq(Off(p.avg, pct), Off(q.avg, pct))
    BY <1>2, <1>3, <2>2, OffRises
  <2> QED
    BY <1>5, <1>8, <2>3
<1> QED
  BY <1>6, <1>7, <1>8

LEMMA TrailingRises ==
  ASSUME NEW p \in Positions, NEW q \in Positions, Follows(p, q), Trailing(p)[1] > 0
  PROVE  Leq(Trailing(p), Trailing(q))
<1>1. p.peak \in Nat /\ q.peak \in Nat /\ p.trail \in Nat /\ q.trail = p.trail /\ p.peak <= q.peak
  BY DEF Positions, Follows
<1> DEFINE pct == 0 - p.trail
           f == Price(p.peak)
           g == Price(q.peak)
<1>2. pct \in Int
  BY <1>1
<1>3. f \in Fractions /\ f \in Signed /\ g \in Signed /\ Leq(f, g)
  BY <1>1 DEF Price, Fractions, Signed, Leq
<1>4. p.trail # 0
  BY DEF Trailing, Price
<1>5. Trailing(p) = Off(f, pct) /\ Trailing(q) = Off(g, pct)
  BY <1>1, <1>4 DEF Trailing
<1> HIDE DEF pct, f, g
<1>6. 100 + pct > 0
  BY <1>2, <1>3, <1>5, OffPositive
<1>7. 100 + pct >= 0
  BY <1>2, <1>6
<1> QED
  BY <1>2, <1>3, <1>5, <1>7, OffRises

LEMMA LongStopRises ==
  ASSUME NEW p \in Positions, NEW q \in Positions, Follows(p, q), Leq(p.avg, q.avg), EffectiveStopLoss(p, p.peak)[1] > 0
  PROVE  Leq(EffectiveStopLoss(p, p.peak), EffectiveStopLoss(q, q.peak))
<1> DEFINE a == Fixed(p)
           b == Trailing(p)
           c == Fixed(q)
           d == Trailing(q)
<1>1. a \in Signed /\ b \in Signed /\ EffectiveStopLoss(p, p.peak) = Higher(a, b)
  BY StopsAre
<1>2. c \in Signed /\ d \in Signed /\ EffectiveStopLoss(q, q.peak) = Higher(c, d)
  BY StopsAre
<1>3. a[1] > 0 => Leq(a, c)
  BY FixedRises
<1>4. b[1] > 0 => Leq(b, d)
  BY TrailingRises
<1> HIDE DEF a, b, c, d
<1>5. Higher(a, b) \in {a, b}
  BY <1>1, HigherIs
<1>6. Leq(c, Higher(c, d)) /\ Leq(d, Higher(c, d)) /\ Higher(c, d) \in Signed
  BY <1>2, HigherIs
<1>7. CASE Higher(a, b) = a
  <2>1. Leq(a, c)
    BY <1>1, <1>3, <1>7
  <2>2. Leq(a, Higher(c, d))
    BY <1>1, <1>2, <1>6, <2>1, LeqTrans
  <2> QED
    BY <1>1, <1>2, <1>7, <2>2
<1>8. CASE Higher(a, b) = b
  <2>1. Leq(b, d)
    BY <1>1, <1>4, <1>8
  <2>2. Leq(b, Higher(c, d))
    BY <1>1, <1>2, <1>6, <2>1, LeqTrans
  <2> QED
    BY <1>1, <1>2, <1>8, <2>2
<1> QED
  BY <1>5, <1>7, <1>8

\* The stop of a short position, while nothing but its trough moves, and down.
LEMMA ShortStopFalls ==
  ASSUME NEW p, NEW q, p.avg \in Fractions, p.sl \in Nat, p.trail \in Nat, p.trough \in Int, q.trough \in Int,
         q.avg = p.avg, q.sl = p.sl, q.trail = p.trail, q.trough <= p.trough
  PROVE  Leq(EffectiveShortStop(q, q.trough), EffectiveShortStop(p, p.trough))
<1> DEFINE fixed == Off(p.avg, p.sl)
           f == Price(q.trough)
           g == Price(p.trough)
           a == Off(f, p.trail)
           b == Off(g, p.trail)
<1>1. p.avg \in Signed /\ f \in Signed /\ g \in Signed /\ Leq(f, g)
  BY DEF Fractions, Signed, Price, Leq
<1>2. p.sl \in Int /\ p.trail \in Int /\ 100 + p.trail >= 0
  OBVIOUS
<1> HIDE DEF f, g
<1>3. fixed \in Signed /\ a \in Signed /\ b \in Signed /\ Leq(a, b)
  BY <1>1, <1>2, OffIn, OffRises
<1>4. NoStop \in Signed
  BY DEF NoStop, Price, Signed
<1>5. Leq(fixed, fixed) /\ Leq(NoStop, NoStop)
  BY <1>3, <1>4, LeqEither
<1>6. CASE p.sl = 0 /\ p.trail = 0
  <2>1. EffectiveShortStop(q, q.trough) = NoStop /\ EffectiveShortStop(p, p.trough) = NoStop
    BY <1>6 DEF EffectiveShortStop
  <2> QED
    BY <1>5, <2>1
<1>7. CASE p.sl # 0 /\ p.trail = 0
  <2>1. EffectiveShortStop(q, q.trough) = fixed /\ EffectiveShortStop(p, p.trough) = fixed
    BY <1>7 DEF EffectiveShortStop
  <2> QED
    BY <1>5, <2>1
<1>8. CASE p.sl = 0 /\ p.trail # 0
  <2>1. EffectiveShortStop(q, q.trough) = a /\ EffectiveShortStop(p, p.trough) = b
    BY <1>8 DEF EffectiveShortStop, f, g
  <2> QED
    BY <1>3, <2>1
<1>9. CASE p.sl # 0 /\ p.trail # 0
  <2>1. EffectiveShortStop(q, q.trough) = Lower(fixed, a) /\ EffectiveShortStop(p, p.trough) = Lower(fixed, b)
    BY <1>9 DEF EffectiveShortStop, f, g
  <2> HIDE DEF fixed, a, b
  <2>2. Leq(Lower(fixed, a), fixed) /\ Leq(Lower(fixed, a), a) /\ Lower(fixed, a) \in Signed /\ Lower(fixed, b) \in {fixed, b}
    BY <1>3, HigherIs
  <2>3. Leq(Lower(fixed, a), b)
    BY <1>3, <2>2, LeqTrans
  <2> QED
    BY <2>1, <2>2, <2>3
<1> QED
  BY <1>6, <1>7, <1>8, <1>9

\* Taking profit gives no level back.
LEMMA TakenKeeps ==
  ASSUME NEW pos \in Positions, NEW price, NEW sp \in Sizes, NEW i \in Nat, NEW L, LaddersOK(L)
  PROVE  pos.tp \subseteq TakenProfits(pos, price, L).used
<1> DEFINE levels == Levels(L.tp)
           base == Acc(pos, pos.tp)
           A == {x \in Selling(pos, sp, i) : pos.tp \subseteq x.used}
<1>0. pos.tp \in SUBSET Nat /\ pos.left \in Nat /\ pos.avg \in Fractions
  BY DEF Positions
<1>1. Len(L.tp) \in Nat /\ \A k \in 1..Len(L.tp) : L.tp[k].sell \in 1..100
  BY DEF LaddersOK
<1>2. Len(levels) = Len(L.tp) /\ DOMAIN levels = 1..Len(L.tp) /\ \A k \in 1..Len(L.tp) : levels[k] = k
  BY <1>1, LevelsAre
<1>3. base \in A
  <2>1. base \in Accs /\ base.base = pos.base /\ base.left = pos.left /\ base.avg = pos.avg /\ base.out = <<>>
    BY <1>0, AccIn
  <2>2. Draws(Held(pos.left, pos.avg), "sell", sp, i, <<>>, Held(pos.left, pos.avg))
    BY <1>0, HeldIn, DrawsNone
  <2>3. base.used = pos.tp
    BY DEF Acc
  <2> HIDE DEF base
  <2> QED
    BY <2>1, <2>2, <2>3 DEF Selling
<1> HIDE DEF levels, base, A
<1>4. TakeStays(L.tp, price, levels, base, A)
  <2>1. ASSUME NEW a \in A, NEW k \in 1..Len(levels) PROVE TakeProfit(L.tp, price, a, levels[k]) \in A
    <3> DEFINE c == TakeProfit(L.tp, price, a, k)
    <3>1. k \in 1..Len(L.tp) /\ levels[k] = k /\ L.tp[k].sell \in 1..100
      BY <1>1, <1>2
    <3>2. a \in Selling(pos, sp, i) /\ pos.tp \subseteq a.used
      BY DEF A
    <3>3. c \in Selling(pos, sp, i)
      BY <1>1, <3>1, <3>2, TakeProfitIn
    <3>4. a \in Accs
      BY <3>2 DEF Selling
    <3>5. a.used \subseteq c.used
      BY <3>4 DEF TakeProfit, Accs
    <3> HIDE DEF c
    <3>6. c \in A
      BY <3>2, <3>3, <3>5 DEF A
    <3> QED
      BY <3>1, <3>6 DEF c
  <2> QED
    BY <1>1, <1>2, <1>3, <2>1 DEF TakeStays
<1>5. TakeSteps(L.tp, price, levels, base, A)
  BY <1>4, TakeFold
<1>6. TakeAll(L.tp, price, levels, base) \in A
  <2>1. Len(levels) \in 0..Len(levels)
    BY <1>1, <1>2
  <2> QED
    BY <1>5, <2>1 DEF TakeSteps
<1>7. TakenProfits(pos, price, L) = TakeAll(L.tp, price, levels, base)
  BY LadderFolds DEF levels, base
<1> QED
  BY <1>6, <1>7 DEF A

\* A tick that does not close the position follows it.
LEMMA TickFollows ==
  ASSUME NEW pos \in Positions, NEW price \in Nat, NEW sp \in Sizes, NEW i \in Nat, NEW L, LaddersOK(L), NEW sell, NEW paid,
         EvaluateLadderTick(pos, price, L, sell, paid).next.left # 0
  PROVE  Follows(pos, EvaluateLadderTick(pos, price, L, sell, paid).next)
<1> DEFINE now == [pos EXCEPT !.peak = PeakOf(pos, price)]
           stop == Stopped(price, EffectiveStopLoss(now, now.peak)) \/ sell
           sold == TakenProfits(pos, price, L)
           down == ScaledIn(pos, price, L, paid)
           up == Pyramided(now, price, L, paid, down)
           take == sold.left = 0 \/ sold.out # <<>>
           tick == EvaluateLadderTick(pos, price, L, sell, paid)
<1>1. now \in Positions /\ now.sl = pos.sl /\ now.trail = pos.trail /\ now.peak = PeakOf(pos, price) /\ pos.peak <= now.peak
  <2>1. pos.peak \in Nat /\ PeakOf(pos, price) \in Nat /\ pos.peak <= PeakOf(pos, price)
    BY DEF PeakOf, Positions
  <2> QED
    BY <2>1 DEF Positions
<1>2. tick = IF stop THEN Closed(now) ELSE IF take THEN Took(now, sold) ELSE Added(now, sold.used, down.used, up)
  BY DEF EvaluateLadderTick, TakeOrAdd
<1>3. pos.tp \subseteq sold.used
  BY TakenKeeps
<1>4. tick.next.left # 0
  OBVIOUS
<1> HIDE DEF now, stop, take, sold, down, up, tick
<1>5. ~stop
  <2>1. Closed(now).next.left = 0
    BY <1>1 DEF Closed, Positions
  <2> QED
    BY <1>2, <1>4, <2>1
<1>6. Follows(pos, Took(now, sold).next)
  BY <1>1, <1>3 DEF Took, Follows, Positions
<1>7. Follows(pos, Added(now, sold.used, down.used, up).next)
  BY <1>1, <1>3 DEF Added, Follows, Positions
<1>8. Follows(pos, tick.next)
  BY <1>2, <1>5, <1>6, <1>7, Zenon
<1> QED
  BY <1>8 DEF tick
---------------------------------------------------------------------------
(* The bars so far: what a condition, a tree and a fill make of them is    *)
(* what they make of the whole path.                                       *)
Begins(pre, bars, n) ==
  /\ pre \in Paths /\ bars \in Paths /\ n \in 1..Length /\ n <= Len(bars) /\ Len(pre) = n
  /\ \A k \in 1..n : pre[k] = bars[k]

LEMMA SoFar ==
  ASSUME NEW bars \in Paths, NEW n \in 1..Length, n <= Len(bars)
  PROVE  Begins(SubSeq(bars, 1, n), bars, n)
<1> DEFINE pre == SubSeq(bars, 1, n)
<1>1. bars \in Seq(Candles) /\ Len(bars) \in Nat /\ n \in Nat /\ n >= 1
  BY BacktestAssumption DEF Paths
<1>2. pre \in Seq(Candles) /\ Len(pre) = n /\ \A k \in 1..n : pre[k] = bars[k]
  BY <1>1
<1> HIDE DEF pre
<1>3. Begins(pre, bars, n)
  BY <1>2 DEF Begins, Paths
<1> QED
  BY <1>3 DEF pre

LEMMA BeginsAt ==
  ASSUME NEW bars, NEW pre, NEW n, Begins(pre, bars, n), NEW k \in 1..n
  PROVE  /\ pre[k] = bars[k] /\ k \in Int /\ k >= 1 /\ k <= n /\ n \in Int /\ k \in 1..Length /\ k <= Len(bars) /\ k <= Len(pre)
         /\ Len(bars) \in Int /\ n <= Len(bars) /\ Len(pre) = n
<1>1. Length \in Nat /\ n \in 1..Length /\ n <= Len(bars) /\ Len(bars) \in 1..Length /\ Len(pre) = n /\ pre[k] = bars[k]
  BY BacktestAssumption, BarsAre DEF Begins
<1> QED
  BY <1>1

LEMMA ClosesSoFar ==
  ASSUME NEW bars, NEW pre, NEW n, Begins(pre, bars, n), NEW from \in Int, NEW to \in Int, from >= 1, to <= n
  PROVE  Closes(pre, from, to) = Closes(bars, from, to)
<1>1. n \in Int
  BY BacktestAssumption DEF Begins
<1>2. ASSUME NEW k \in 1..(to - from + 1) PROVE pre[from + k - 1].close = bars[from + k - 1].close
  <2>1. from + k - 1 \in 1..n
    BY <1>1
  <2> QED
    BY <2>1, BeginsAt
<1> QED
  BY <1>2 DEF Closes

LEMMA DivNext == ASSUME NEW x \in Nat, NEW d \in Nat, d > 0 PROVE x < (x \div d) * d + d
OBVIOUS

LEMMA AtLeastDiv ==
  ASSUME NEW x \in Nat, NEW d \in Nat, d > 0, NEW j \in Int, j * d <= x
  PROVE  j <= x \div d
<1> DEFINE q == x \div d
<1>1. q \in Nat /\ x < q * d + d
  BY DivIn, DivNext
<1> HIDE DEF q
<1>2. CASE j <= q
  BY <1>2 DEF q
<1>3. CASE q + 1 <= j
  <2>1. (q + 1) * d <= j * d
    BY <1>1, <1>3, TimesLeq
  <2>2. (q + 1) * d = q * d + d
    BY <1>1
  <2>3. q * d \in Int /\ j * d \in Int
    BY <1>1
  <2> QED
    BY <1>1, <2>1, <2>2, <2>3
<1> QED
  BY <1>1, <1>2, <1>3

\* The bars of the higher timeframe that have closed when bar i opens.
ByThen(i) == {j \in Nat \ {0} : j * HtfSpan <= i - 1}

LEMMA ThenIs ==
  ASSUME NEW i \in 1..Length
  PROVE  /\ ByThen(i) \subseteq Nat \ {0}
         /\ \A k \in ByThen(i) : k * HtfSpan \in Nat /\ k * HtfSpan >= HtfSpan /\ k * HtfSpan <= i - 1
         /\ \A k \in ByThen(i), j \in Nat \ {0} : j <= k => j \in ByThen(i)
<1>1. HtfSpan \in Nat /\ HtfSpan > 0 /\ i \in Int
  BY BacktestAssumption
<1>2. ASSUME NEW k \in ByThen(i) PROVE k * HtfSpan \in Nat /\ k * HtfSpan >= HtfSpan /\ k * HtfSpan <= i - 1
  <2>1. k \in Nat /\ 1 <= k /\ k * HtfSpan <= i - 1
    BY DEF ByThen
  <2>2. 1 * HtfSpan <= k * HtfSpan
    BY <1>1, <2>1, TimesLeq
  <2>3. k * HtfSpan \in Nat
    BY <1>1, <2>1
  <2> QED
    BY <1>1, <2>1, <2>2, <2>3
<1>3. ASSUME NEW k \in ByThen(i), NEW j \in Nat \ {0}, j <= k PROVE j \in ByThen(i)
  <2>1. k \in Int /\ j \in Int
    BY DEF ByThen
  <2>2. j * HtfSpan <= k * HtfSpan
    BY <1>1, <1>3, <2>1, TimesLeq
  <2>3. j * HtfSpan \in Int /\ k * HtfSpan \in Int
    BY <1>1, <2>1
  <2> QED
    BY <1>1, <1>2, <2>2, <2>3 DEF ByThen
<1> QED
  BY <1>2, <1>3 DEF ByThen

LEMMA HighestIn ==
  ASSUME NEW i \in 1..Length, ByThen(i) # {}
  PROVE  Highest(ByThen(i)) \in ByThen(i)
<1>1. ByThen(i) \subseteq 1..i
  <2>1. ASSUME NEW k \in ByThen(i) PROVE k \in 1..i
    <3>1. HtfSpan \in Nat /\ 1 <= HtfSpan /\ k \in Nat /\ k >= 1 /\ i \in Int
      BY BacktestAssumption DEF ByThen
    <3>2. k * HtfSpan <= i - 1 /\ k * HtfSpan \in Int
      BY ThenIs
    <3>3. 1 * k <= HtfSpan * k
      BY <3>1, TimesLeq
    <3>4. HtfSpan * k = k * HtfSpan
      BY <3>1
    <3> QED
      BY <3>1, <3>2, <3>3, <3>4
  <2> QED
    BY <2>1
<1>2. IsFiniteSet(ByThen(i)) /\ ByThen(i) \in SUBSET Int
  <2>1. 1 \in Int /\ i \in Int
    BY BacktestAssumption
  <2>2. IsFiniteSet(1..i) /\ 1..i \subseteq Int
    BY <2>1, FS_Interval
  <2>3. IsFiniteSet(ByThen(i))
    BY <1>1, <2>2, FS_Subset, ZenonT(40)
  <2> QED
    BY <1>1, <2>2, <2>3
<1>3. \E x \in ByThen(i) : \A y \in ByThen(i) : y <= x
  BY <1>2, MaxIn
<1> QED
  BY <1>3 DEF Highest

\* The bars of a higher timeframe that have closed when bar i opens are made
\* of bars before i.
LEMMA HtfAre ==
  ASSUME NEW bars \in Paths, NEW i \in 1..Length, i <= Len(bars)
  PROVE  /\ ClosedHtf(HtfBars(bars), i) = IF ByThen(i) = {} THEN 0 ELSE Highest(ByThen(i))
         /\ \A k \in ByThen(i) : HtfBars(bars)[k].close = bars[k * HtfSpan].close
<1> DEFINE H == HtfSpan
           L == Len(bars)
           N == (L + H - 1) \div H
           htf == HtfBars(bars)
           closed == {j \in 1..Len(htf) : htf[j].opens + H <= i - 1}
<1>1. H \in Nat /\ H >= 1 /\ L \in Nat /\ L >= 1 /\ i \in Nat /\ i >= 1 /\ i <= L
  BY BacktestAssumption, BarsAre
<1>2. N \in Nat
  BY <1>1, DivIn
<1>3. Len(htf) = N /\ \A j \in 1..N : htf[j] = [opens |-> ((j - 1) * H + 1) - 1, close |-> bars[IF j * H < L THEN j * H ELSE L].close]
  <2>1. htf = [j \in 1..N |-> [opens |-> ((j - 1) * H + 1) - 1, close |-> bars[IF j * H < L THEN j * H ELSE L].close]]
    BY DEF HtfBars
  <2> HIDE DEF htf, N, L, H
  <2> QED
    BY <1>2, <2>1
<1> HIDE DEF htf, L
<1>4. ASSUME NEW k \in ByThen(i) PROVE k \in 1..N /\ htf[k].close = bars[k * H].close
  <2>1. k \in Nat /\ k >= 1 /\ k * H \in Nat /\ k * H <= i - 1
    BY ThenIs
  <2>2. k <= N
    <3>1. L + H - 1 \in Nat /\ k * H <= L + H - 1
      BY <1>1, <2>1
    <3> QED
      BY <1>1, <2>1, <3>1, AtLeastDiv
  <2> HIDE DEF N
  <2>3. k \in 1..N
    BY <1>2, <2>1, <2>2
  <2>4. k * H < L
    BY <1>1, <2>1
  <2> HIDE DEF H
  <2> QED
    BY <1>3, <2>3, <2>4
<1>5. closed = ByThen(i)
  <2>1. ASSUME NEW j \in 1..N PROVE htf[j].opens + H = j * H
    <3>1. j \in Int
      OBVIOUS
    <3> HIDE DEF N
    <3>2. htf[j].opens = ((j - 1) * H + 1) - 1
      BY <1>3
    <3>3. (j - 1) * H = j * H - H
      BY <1>1, <3>1
    <3>4. j * H \in Int
      BY <1>1, <3>1
    <3> QED
      BY <1>1, <3>2, <3>3, <3>4
  <2> HIDE DEF N, H
  <2>2. closed = {j \in 1..N : j * H <= i - 1}
    BY <1>3, <2>1
  <2> HIDE DEF closed
  <2>3. ByThen(i) = {j \in Nat \ {0} : j * H <= i - 1}
    BY DEF ByThen, H
  <2>4. \A j \in ByThen(i) : j \in 1..N
    BY <1>4
  <2>5. 1..N \subseteq Nat \ {0}
    BY <1>2
  <2> QED
    BY <2>2, <2>3, <2>4, <2>5
<1>6. ByThen(i) # {} => ~(Len(htf) < 2)
  <2> SUFFICES ASSUME NEW k \in ByThen(i) PROVE ~(Len(htf) < 2)
    OBVIOUS
  <2>1. H <= i - 1
    <3>1. k * H \in Nat /\ k * H >= H /\ k * H <= i - 1
      BY ThenIs
    <3> QED
      BY <1>1, <3>1
  <2>2. L + H - 1 \in Nat /\ 2 * H <= L + H - 1
    BY <1>1, <2>1
  <2>3. 2 <= N
    BY <1>1, <2>2, AtLeastDiv
  <2> HIDE DEF N
  <2> QED
    BY <1>2, <1>3, <2>3
<1>7. ClosedHtf(htf, i) = IF Len(htf) < 2 \/ closed = {} THEN 0 ELSE Highest(closed)
  BY DEF ClosedHtf
<1> HIDE DEF closed, N, H
<1>8. ClosedHtf(htf, i) = IF ByThen(i) = {} THEN 0 ELSE Highest(ByThen(i))
  BY <1>5, <1>6, <1>7
<1> QED
  BY <1>4, <1>8 DEF htf, H

LEMMA HtfSoFar ==
  ASSUME NEW bars, NEW pre, NEW n, Begins(pre, bars, n), NEW i \in 1..n
  PROVE  /\ ClosedHtf(HtfBars(pre), i) = ClosedHtf(HtfBars(bars), i)
         /\ LET j == ClosedHtf(HtfBars(bars), i) IN j # 0 => Closes(HtfBars(pre), 1, j) = Closes(HtfBars(bars), 1, j)
<1>1. pre \in Paths /\ bars \in Paths /\ i \in 1..Length /\ i <= Len(pre) /\ i <= Len(bars) /\ i <= n /\ n \in Int
  BY BeginsAt DEF Begins
<1>2. ClosedHtf(HtfBars(pre), i) = ClosedHtf(HtfBars(bars), i)
  BY <1>1, HtfAre
<1>3. ASSUME NEW k \in ByThen(i) PROVE HtfBars(pre)[k].close = HtfBars(bars)[k].close
  <2>1. HtfBars(pre)[k].close = pre[k * HtfSpan].close /\ HtfBars(bars)[k].close = bars[k * HtfSpan].close
    BY <1>1, HtfAre
  <2>2. k * HtfSpan \in Nat /\ k * HtfSpan >= HtfSpan /\ k * HtfSpan <= i - 1 /\ HtfSpan \in Nat /\ HtfSpan >= 1
    BY <1>1, ThenIs, BacktestAssumption
  <2>3. k * HtfSpan \in 1..n
    BY <1>1, <2>2
  <2> QED
    BY <2>1, <2>3, BeginsAt
<1> DEFINE j == ClosedHtf(HtfBars(bars), i)
<1>4. ASSUME j # 0 PROVE Closes(HtfBars(pre), 1, j) = Closes(HtfBars(bars), 1, j)
  <2>1. j \in ByThen(i)
    BY <1>1, <1>4, HtfAre, HighestIn
  <2> HIDE DEF j
  <2>2. j \in Nat \ {0} /\ \A k \in Nat \ {0} : k <= j => k \in ByThen(i)
    BY <1>1, <2>1, ThenIs
  <2>3. ASSUME NEW k \in 1..(j - 1 + 1) PROVE HtfBars(pre)[1 + k - 1].close = HtfBars(bars)[1 + k - 1].close
    <3>1. 1 + k - 1 \in Nat \ {0} /\ 1 + k - 1 <= j
      BY <2>2
    <3> QED
      BY <1>3, <2>2, <3>1
  <2> QED
    BY <2>3 DEF Closes
<1> QED
  BY <1>2, <1>4

LEMMA SessionIn == ASSUME NEW i \in 1..Length PROVE SessionStart(i) \in 1..i /\ SessionStart(i) \in Nat /\ i \in Nat
<1> DEFINE q == (i - 1) \div DayBars
<1>1. DayBars \in Nat /\ DayBars > 0 /\ i \in Nat /\ i - 1 \in Nat
  BY BacktestAssumption
<1>2. q \in Nat /\ q * DayBars <= i - 1
  BY <1>1, DivBack
<1> HIDE DEF q
<1>3. q * DayBars \in Nat
  BY <1>1, <1>2
<1>4. SessionStart(i) = q * DayBars + 1
  BY DEF SessionStart, q
<1> QED
  BY <1>1, <1>2, <1>3, <1>4

LEMMA AnchorSoFar ==
  ASSUME NEW bars, NEW pre, NEW n, Begins(pre, bars, n), NEW i \in 1..n,
         NEW ref \in {"dayOpen", "prevClose", "sessionHigh", "sessionLow", "vwapFromOpen"}
  PROVE  AnchorValue(ref, pre, i) = AnchorValue(ref, bars, i)
<1> DEFINE first == SessionStart(i)
           session == first..i
           typical(s) == [k \in 1..(i - first + 1) |-> s[first + k - 1].high + s[first + k - 1].low + s[first + k - 1].close]
<1>1. i \in 1..Length /\ i <= n /\ n \in Int
  BY BeginsAt
<1>2. first \in 1..i /\ first \in Nat /\ i \in Nat
  BY <1>1, SessionIn
<1>3. \A k \in 1..i : pre[k] = bars[k]
  BY <1>1, <1>2, BeginsAt
<1> DEFINE of(s) == CASE ref = "dayOpen"     -> Price(s[first].open)
                      [] ref = "prevClose"   -> IF first = 1 THEN NaN ELSE Price(s[first - 1].close)
                      [] ref = "sessionHigh" -> Price(Highest({s[j].high : j \in session}))
                      [] ref = "sessionLow"  -> Price(0 - Highest({0 - s[j].low : j \in session}))
                      [] ref = "vwapFromOpen" -> Frac(Total(typical(s)), 3 * (i - first + 1))
<1>4. ASSUME NEW s PROVE AnchorValue(ref, s, i) = of(s)
  BY DEF AnchorValue
<1> HIDE DEF first
<1>5. {pre[j].high : j \in session} = {bars[j].high : j \in session} /\ {0 - pre[j].low : j \in session} = {0 - bars[j].low : j \in session}
  <2>1. \A j \in session : pre[j] = bars[j]
    BY <1>2, <1>3
  <2> HIDE DEF session
  <2> QED
    BY <2>1
<1>6. typical(pre) = typical(bars)
  <2>1. ASSUME NEW k \in 1..(i - first + 1) PROVE pre[first + k - 1] = bars[first + k - 1]
    <3>1. first + k - 1 \in 1..i
      BY <1>2
    <3> QED
      BY <1>3, <3>1
  <2> QED
    BY <2>1
<1>7. pre[first] = bars[first] /\ (first # 1 => pre[first - 1] = bars[first - 1])
  <2>1. first \in 1..i /\ (first # 1 => first - 1 \in 1..i)
    BY <1>2
  <2> QED
    BY <1>3, <2>1
<1> HIDE DEF typical, session
<1>8. of(pre) = of(bars)
  BY <1>5, <1>6, <1>7
<1> HIDE DEF of
<1> QED
  BY <1>4, <1>8

LEMMA MtfSoFar ==
  ASSUME NEW bars, NEW pre, NEW n, Begins(pre, bars, n), NEW i \in 1..n, NEW t, NEW ctx
  PROVE  AlignMtf(t, ctx, pre, i) = AlignMtf(t, ctx, bars, i)
<1> DEFINE j == ClosedHtf(HtfBars(bars), i)
<1>1. ClosedHtf(HtfBars(pre), i) = j /\ (j # 0 => Closes(HtfBars(pre), 1, j) = Closes(HtfBars(bars), 1, j))
  BY HtfSoFar
<1> HIDE DEF j
<1>2. AlignMtf(t, ctx, bars, i) = IF <<t.kind, t.n>> \notin ctx.needs \/ ~ctx.fetched \/ j = 0 THEN NaN ELSE MovingAverage(Closes(HtfBars(bars), 1, j), t.n)
  BY DEF AlignMtf, j
<1>3. AlignMtf(t, ctx, pre, i) = IF <<t.kind, t.n>> \notin ctx.needs \/ ~ctx.fetched \/ j = 0 THEN NaN ELSE MovingAverage(Closes(HtfBars(pre), 1, j), t.n)
  BY <1>1 DEF AlignMtf
<1> QED
  BY <1>1, <1>2, <1>3

LEMMA TermSoFar ==
  ASSUME NEW bars, NEW pre, NEW n, Begins(pre, bars, n), NEW i \in 1..n, NEW t, TypedTerm(t), NEW ctx
  PROVE  TermValue(t, ctx, pre, i) = TermValue(t, ctx, bars, i)
<1>1. i \in Int /\ i >= 1 /\ i <= n /\ n \in Int /\ t.n \in Int /\ pre[i] = bars[i]
  BY BeginsAt DEF TypedTerm
<1>2. Closes(pre, 1, i) = Closes(bars, 1, i)
  BY <1>1, ClosesSoFar
<1>3. AlignMtf(t, ctx, pre, i) = AlignMtf(t, ctx, bars, i)
  BY MtfSoFar
<1>4. Performance(t, pre, i) = Performance(t, bars, i)
  <2>1. CASE i <= t.n
    BY <2>1 DEF Performance
  <2>2. CASE ~(i <= t.n)
    <3>1. i - t.n \in Int /\ i - t.n >= 1
      BY <1>1, <2>2
    <3>2. Closes(pre, i - t.n, i) = Closes(bars, i - t.n, i)
      BY <1>1, <3>1, ClosesSoFar
    <3> QED
      BY <2>2, <3>2 DEF Performance
  <2> QED
    BY <2>1, <2>2
<1>5. t.kind = "anchor" => AnchorValue(t.ref, pre, i) = AnchorValue(t.ref, bars, i)
  BY AnchorSoFar DEF TypedTerm
<1>6. SpreadValue(t.ref, pre, ctx.aux, i) = SpreadValue(t.ref, bars, ctx.aux, i)
  BY <1>1 DEF SpreadValue
<1> DEFINE value(s) ==
      CASE t.kind = "number" -> Price(t.n)
        [] t.kind = "price"  -> Price(s[i].close)
        [] t.kind = "ma"     -> MovingAverage(Closes(s, 1, i), t.n)
        [] t.kind = "mtf"    -> AlignMtf(t, ctx, s, i)
        [] t.kind = "perf"   -> Performance(t, s, i)
        [] t.kind = "anchor" -> AnchorValue(t.ref, s, i)
        [] t.kind = "spread" -> SpreadValue(t.ref, s, ctx.aux, i)
<1>7. t.kind \in {"number", "price", "ma", "mtf", "perf", "anchor", "spread"}
  BY DEF TypedTerm
<1>8. value(pre) = value(bars)
  BY <1>1, <1>2, <1>3, <1>4, <1>5, <1>6, <1>7
<1>9. TermValue(t, ctx, pre, i) = Scaled(value(pre), t.m) /\ TermValue(t, ctx, bars, i) = Scaled(value(bars), t.m)
  BY DEF TermValue
<1> HIDE DEF value
<1> QED
  BY <1>8, <1>9

LEMMA CompareSoFar ==
  ASSUME NEW bars, NEW pre, NEW n, Begins(pre, bars, n), NEW i \in 1..n, NEW c, TypedTerm(c.left), TypedTerm(c.right), NEW ctx
  PROVE  Compare(c, ctx, pre, i) <=> Compare(c, ctx, bars, i)
<1>1. i \in Int /\ i >= 1 /\ i <= n /\ n \in Int
  BY BeginsAt
<1>2. TermValue(c.left, ctx, pre, i) = TermValue(c.left, ctx, bars, i) /\ TermValue(c.right, ctx, pre, i) = TermValue(c.right, ctx, bars, i)
  BY TermSoFar
<1>3. ASSUME i > 1
      PROVE  TermValue(c.left, ctx, pre, i - 1) = TermValue(c.left, ctx, bars, i - 1) /\ TermValue(c.right, ctx, pre, i - 1) = TermValue(c.right, ctx, bars, i - 1)
  <2>1. i - 1 \in 1..n
    BY <1>1, <1>3
  <2> QED
    BY <2>1, TermSoFar
<1> QED
  BY <1>2, <1>3 DEF Compare

LEMMA RegimeSoFar ==
  ASSUME NEW bars, NEW pre, NEW n, Begins(pre, bars, n), NEW i \in 1..n, NEW c, NEW ctx
  PROVE  Regime(c, ctx, pre, i) = Regime(c, ctx, bars, i)
<1> DEFINE j == ClosedHtf(HtfBars(bars), i)
           of(s) == IF ~c.htf THEN RegimeLabel(Measure(Closes(s, 1, i)))
                    ELSE IF <<"regime", 0>> \notin ctx.needs \/ ~ctx.fetched \/ j = 0 THEN "none"
                    ELSE RegimeLabel(Measure(Closes(HtfBars(s), 1, j)))
<1>1. i \in Int /\ i >= 1 /\ i <= n /\ n \in Int
  BY BeginsAt
<1>2. Closes(pre, 1, i) = Closes(bars, 1, i)
  BY <1>1, ClosesSoFar
<1>3. ClosedHtf(HtfBars(pre), i) = j /\ (j # 0 => Closes(HtfBars(pre), 1, j) = Closes(HtfBars(bars), 1, j))
  BY HtfSoFar
<1> HIDE DEF j
<1>4. Regime(c, ctx, pre, i) = of(pre) /\ Regime(c, ctx, bars, i) = of(bars)
  BY <1>3 DEF Regime, j
<1>5. of(pre) = of(bars)
  BY <1>2, <1>3
<1> HIDE DEF of
<1> QED
  BY <1>4, <1>5

LEMMA HoldsSoFar ==
  ASSUME NEW bars, NEW pre, NEW n, Begins(pre, bars, n), NEW i \in 1..n, NEW c, TypedCondition(c), NEW ctx
  PROVE  Holds(c, ctx, pre, i) <=> Holds(c, ctx, bars, i)
<1>1. CASE c.type = "compare"
  <2>1. Compare(c, ctx, pre, i) <=> Compare(c, ctx, bars, i)
    BY <1>1, CompareSoFar DEF TypedCondition
  <2> QED
    BY <1>1, <2>1 DEF Holds
<1>2. CASE c.type = "regime"
  BY <1>2, RegimeSoFar DEF Holds
<1>3. CASE c.type = "event"
  BY <1>3 DEF Holds
<1>4. CASE c.type = "time"
  BY <1>4 DEF Holds
<1> QED
  BY <1>1, <1>2, <1>3, <1>4 DEF TypedCondition

LEMMA FiresSoFar ==
  ASSUME NEW bars, NEW pre, NEW n, Begins(pre, bars, n), NEW i \in 1..n, NEW ctx,
         NEW rule, \A k \in 1..Len(rule.conditions) : TypedCondition(rule.conditions[k])
  PROVE  RuleFires(rule, ctx, pre, i) <=> RuleFires(rule, ctx, bars, i)
<1>1. \A k \in 1..Len(rule.conditions) : Holds(rule.conditions[k], ctx, pre, i) <=> Holds(rule.conditions[k], ctx, bars, i)
  BY HoldsSoFar
<1> QED
  BY <1>1 DEF RuleFires

LEMMA ChosenSoFar ==
  ASSUME NEW bars, NEW pre, NEW n, Begins(pre, bars, n), NEW i \in 1..n, NEW node, TypedNode(node), NEW below, NEW ctx
  PROVE  Chosen(node, below, ctx, pre, i) = Chosen(node, below, ctx, bars, i)
<1>1. node.type = "condition" => (Holds(node.condition, ctx, pre, i) <=> Holds(node.condition, ctx, bars, i))
  BY HoldsSoFar DEF TypedNode
<1>2. CASE node.type = "condition"
  BY <1>1, <1>2 DEF Chosen
<1>3. CASE node.type = "none"
  BY <1>3 DEF Chosen
<1>4. CASE node.type = "leaf"
  BY <1>4 DEF Chosen
<1>5. CASE node.type = "composite"
  <2>1. node.mode = "priority" \/ node.mode = "weighted"
    BY <1>5 DEF TypedNode
  <2> QED
    BY <1>5, <2>1 DEF Chosen
<1> QED
  BY <1>2, <1>3, <1>4, <1>5 DEF TypedNode

LEMMA ActiveSoFar ==
  ASSUME NEW bars, NEW pre, NEW n, Begins(pre, bars, n), NEW i \in 1..n, NEW root, TreeOK(root), NEW ctx
  PROVE  ResolveActiveStrategy(root, ctx, pre, i) = ResolveActiveStrategy(root, ctx, bars, i)
<1> DEFINE Left == MaxDepth + 1
           active(s) == CHOOSE g : ActiveOf(root, ctx, s, i, Left, g)
           f == active(pre)
           g == active(bars)
<1>1. Left \in Nat
  BY BacktestAssumption
<1>2. ActiveOf(root, ctx, pre, i, Left, f) /\ ActiveOf(root, ctx, bars, i, Left, g)
  BY <1>1, ActiveExists
<1>3. ResolveActiveStrategy(root, ctx, pre, i) = f[Left][root] /\ ResolveActiveStrategy(root, ctx, bars, i) = g[Left][root]
  BY DEF ResolveActiveStrategy, ActiveOf
<1> HIDE DEF active, f, g
<1>4. \A k \in 0..Left : /\ f[k] = [node \in Nodes(root) |-> IF k = 0 THEN NoStrategy ELSE Chosen(node, f[k - 1], ctx, pre, i)]
                         /\ g[k] = [node \in Nodes(root) |-> IF k = 0 THEN NoStrategy ELSE Chosen(node, g[k - 1], ctx, bars, i)]
  BY <1>2 DEF ActiveOf
<1> HIDE DEF Left
<1> DEFINE G == {k \in 0..Left : f[k] = g[k]}
<1>5. 0 \in G
  <2>1. 0 \in 0..Left
    BY <1>1
  <2> QED
    BY <1>4, <2>1
<1>6. ASSUME NEW k \in 1..Left, k - 1 \in G PROVE k \in G
  <2>1. k \in 0..Left /\ k # 0
    BY <1>1
  <2>2. f[k] = [node \in Nodes(root) |-> Chosen(node, f[k - 1], ctx, pre, i)] /\ g[k] = [node \in Nodes(root) |-> Chosen(node, g[k - 1], ctx, bars, i)]
    BY <1>4, <2>1
  <2>3. f[k - 1] = g[k - 1]
    BY <1>6
  <2>4. \A node \in Nodes(root) : Chosen(node, g[k - 1], ctx, pre, i) = Chosen(node, g[k - 1], ctx, bars, i)
    BY ChosenSoFar DEF TreeOK
  <2>5. f[k] = g[k]
    BY <2>2, <2>3, <2>4
  <2> QED
    BY <2>1, <2>5
<1> HIDE DEF G
<1>7. Left \in G
  <2>1. \A k \in 0..Left : k \in G
    BY <1>1, <1>5, <1>6, UpInduct
  <2> QED
    BY <1>1, <2>1
<1> QED
  BY <1>3, <1>7 DEF G

\* The conditions of a strategy's rules are typed.
LEMMA RulesTyped ==
  ASSUME NEW root, TreeOK(root), NEW s \in Strategies(root), NEW k \in DOMAIN s.rules
  PROVE  \A j \in 1..Len(s.rules[k].conditions) : TypedCondition(s.rules[k].conditions[j])
<1>1. s # NoStrategy
  BY DEF NoStrategy
<1>2. PICK node \in Nodes(root) : node.type = "leaf" /\ s = node.strategy
  BY <1>1 DEF Strategies
<1> QED
  BY <1>2 DEF TreeOK, TypedNode, TypedStrategy

\* An entry that fills within the bars so far fills there at the same price;
\* one that does not fills at their end, or is a market order.
LEMMA FillSoFar ==
  ASSUME NEW bars, NEW pre, NEW n, Begins(pre, bars, n), NEW s \in 1..n, NEW exec, Executing(exec),
         ResolveEntryFill(bars, s, exec, Slippage).bar <= n
  PROVE  ResolveEntryFill(pre, s, exec, Slippage) = ResolveEntryFill(bars, s, exec, Slippage)
<1> DEFINE limit      == ComputeLimitPrice(bars[s].close, exec.offset)
           timeout    == ClampTimeoutBars(exec.timeout)
           cap        == ClampMaxSlippage(exec.cap)
           upto(b)    == Bounded(s + timeout - 1, s, Len(b))
           crossed(b) == {j \in s..upto(b) : b[j].low < limit}
           late(b)    == Bounded(s + timeout, s, Len(b))
           fall(b)    == Percent(b[late(b)].close, cap)
           fill(b)    == IF exec.type = "market" THEN [price |-> Percent(b[s].close, Slippage), bar |-> s]
                         ELSE IF crossed(b) # {} THEN [price |-> limit, bar |-> Min(crossed(b))]
                         ELSE [price |-> IF fall(b) > limit THEN fall(b) ELSE limit, bar |-> late(b)]
<1>1. /\ s \in Int /\ s >= 1 /\ s <= n /\ n \in Int /\ pre[s] = bars[s]
      /\ Len(pre) = n /\ Len(bars) \in Int /\ n <= Len(bars)
  BY BeginsAt
<1>2. timeout \in Int /\ timeout >= 1
  BY DEF Bounded, ClampTimeoutBars, Executing
<1>3. ResolveEntryFill(bars, s, exec, Slippage) = fill(bars) /\ ResolveEntryFill(pre, s, exec, Slippage) = fill(pre)
  BY <1>1 DEF ResolveEntryFill
<1>4. \A k \in s..n : k \in 1..n /\ pre[k] = bars[k]
  BY <1>1, BeginsAt
<1> HIDE DEF limit, timeout, cap
<1>5. /\ upto(pre) \in s..n /\ upto(bars) \in Int /\ upto(pre) <= upto(bars) /\ (upto(pre) = upto(bars) \/ upto(pre) = n)
      /\ late(pre) \in s..n /\ late(bars) \in Int /\ (late(bars) <= n => late(pre) = late(bars) /\ upto(pre) = upto(bars))
  BY <1>1, <1>2 DEF Bounded
<1> HIDE DEF upto, late
<1>6. crossed(pre) = {j \in s..upto(pre) : bars[j].low < limit}
  BY <1>1, <1>4, <1>5
<1>7. crossed(pre) \subseteq crossed(bars) /\ crossed(bars) \in SUBSET Nat
  BY <1>1, <1>5, <1>6
<1>8. CASE exec.type = "market"
  <2>1. fill(pre) = fill(bars)
    BY <1>1, <1>8
  <2> QED
    BY <1>3, <2>1
<1>9. CASE exec.type # "market" /\ crossed(bars) # {}
  <2> DEFINE first == Min(crossed(bars))
  <2>1. first \in crossed(bars) /\ \A j \in crossed(bars) : first <= j
    <3> HIDE DEF crossed
    <3> QED
      BY <1>7, <1>9, MinIn
  <2>2. fill(bars) = [price |-> limit, bar |-> first]
    BY <1>9
  <2>3. first <= n
    <3> HIDE DEF fill, first
    <3> QED
      BY <1>3, <2>2
  <2> HIDE DEF first
  <2>4. first \in crossed(pre)
    BY <1>1, <1>5, <1>6, <2>1, <2>3
  <2>5. Min(crossed(pre)) \in crossed(pre) /\ \A j \in crossed(pre) : Min(crossed(pre)) <= j
    <3>1. crossed(pre) \in SUBSET Nat /\ crossed(pre) # {}
      BY <1>7, <2>4
    <3> HIDE DEF crossed
    <3> QED
      BY <3>1, MinIn
  <2>6. Min(crossed(pre)) = first
    <3>1. Min(crossed(pre)) <= first /\ first <= Min(crossed(pre)) /\ first \in Nat /\ Min(crossed(pre)) \in Nat
      <4> HIDE DEF crossed
      <4> QED
        BY <1>7, <2>1, <2>4, <2>5
    <3> QED
      BY <3>1
  <2>7. fill(pre) = [price |-> limit, bar |-> Min(crossed(pre))]
    BY <1>9, <2>4
  <2> HIDE DEF fill, crossed
  <2> QED
    BY <1>3, <2>2, <2>6, <2>7
<1>10. CASE exec.type # "market" /\ crossed(bars) = {}
  <2>1. fill(bars).bar = late(bars)
    BY <1>10
  <2>2. late(bars) <= n
    <3> HIDE DEF fill
    <3> QED
      BY <1>3, <2>1
  <2>3. late(pre) = late(bars) /\ crossed(pre) = {} /\ late(pre) \in s..n
    BY <1>5, <1>7, <1>10, <2>2
  <2>4. fall(pre) = fall(bars)
    BY <1>4, <2>3
  <2> HIDE DEF crossed, fall
  <2>5. fill(pre) = fill(bars)
    BY <1>10, <2>3, <2>4
  <2> HIDE DEF fill
  <2> QED
    BY <1>3, <2>5
<1> QED
  BY <1>8, <1>9, <1>10
=============================================================================
