------------------------- MODULE NonceTrackerProofs -------------------------
(***************************************************************************)
(* What the one pass of the nonce tracker over the submitted transactions  *)
(* returns, and its pass over the confirmed ones, whatever their number    *)
(* and order.  Both are folds over a sequence.  A fold is followed here    *)
(* step by step: its intermediate values are the values of a recursive     *)
(* function on the first i entries, and what holds of all of them is       *)
(* proved by looking at the first i for which it would not.                *)
(***************************************************************************)
EXTENDS NonceTracker, FiniteSetTheorems, NaturalsInduction,
        WellFoundedInduction, TLAPS

-----------------------------------------------------------------------------
(* Induction without a predicate: sets of naturals.                        *)

LEMMA LeastNatural ==
  ASSUME NEW K \in SUBSET Nat, K # {}
  PROVE  \E k \in K : \A j \in K : k <= j
<1>1. PICK k \in K : \A j \in K : ~ (<<j, k>> \in OpToRel(<, Nat))
  BY NatLessThanWellFounded, WFMin, Zenon
<1>2. \A j \in K : ~ (j < k)
  BY <1>1, Zenon DEF OpToRel
<1> QED BY <1>2

LEMMA UpTo ==
  ASSUME NEW n \in Nat, NEW K, 0 \in K,
         \A k \in 0 .. n : k \in K /\ k < n => k + 1 \in K
  PROVE  0 .. n \subseteq K
<1> DEFINE bad == {k \in 0 .. n : k \notin K}
<1> SUFFICES ASSUME bad # {} PROVE FALSE
  OBVIOUS
<1>1. bad \in SUBSET Nat
  OBVIOUS
<1>2. PICK k \in bad : \A j \in bad : k <= j
  BY <1>1, LeastNatural
<1>3. k \in 0 .. n /\ k # 0 /\ k \notin K
  BY <1>2
<1>4. k - 1 \in 0 .. n /\ k - 1 < n /\ (k - 1) + 1 = k /\ ~ (k <= k - 1)
  BY <1>3
<1>5. k - 1 \in K
  BY <1>2, <1>4
<1> QED BY <1>3, <1>4, <1>5

LEMMA NextPosition ==
  ASSUME NEW n \in Nat, NEW k \in 0 .. n, k < n
  PROVE  k + 1 \in 1 .. n /\ k + 1 \in 0 .. n /\ (k + 1) - 1 = k
OBVIOUS

LEMMA EntryIsNatural ==
  ASSUME NEW nonces \in Seq(Nat), NEW i \in 1 .. Len(nonces)
  PROVE  nonces[i] \in Nat
OBVIOUS

-----------------------------------------------------------------------------
(* A fold over a sequence of naturals, as the recursive function over sets *)
(* of its positions that defines it, has one value per set.                *)

LEMMA MaxOfInterval ==
  ASSUME NEW k \in Nat, NEW s \in SUBSET (1 .. k), k \in s
  PROVE  Max(s) = k
<1>1. \A y \in s : k >= y
  OBVIOUS
<1>2. \A x \in s : (\A y \in s : x >= y) => x = k
  BY <1>1
<1> QED BY <1>1, <1>2 DEF Max

LEMMA MaxOfPositions ==
  ASSUME NEW n \in Nat, NEW s \in SUBSET (1 .. n), s # {}
  PROVE  Max(s) \in s
<1> DEFINE K == {k \in 0 .. n : n - k \in s}
<1>1. K \in SUBSET Nat
  OBVIOUS
<1>2. PICK x \in s : TRUE
  OBVIOUS
<1>3. n - x \in 0 .. n /\ n - (n - x) = x
  OBVIOUS
<1>4. PICK k \in K : \A j \in K : k <= j
  BY <1>1, <1>3, LeastNatural
<1>5. ASSUME NEW y \in s PROVE n - k >= y
  <2>1. n - y \in 0 .. n /\ n - (n - y) = y
    OBVIOUS
  <2>2. k <= n - y
    BY <1>4, <2>1
  <2> QED BY <2>1, <2>2
<1> QED BY <1>4, <1>5 DEF Max

\* f follows the fold on the sets of the first k positions.
Follows(f, k, nonces, base, step) ==
  /\ f \in [SUBSET (1 .. k) -> Nat]
  /\ \A s \in SUBSET (1 .. k) :
       f[s] = IF s = {} THEN base
              ELSE step[<<f[s \ {Max(s)}], nonces[Max(s)]>>]

LEMMA FoldGrows ==
  ASSUME NEW nonces \in Seq(Nat), NEW base \in Nat,
         NEW step \in [Nat \X Nat -> Nat],
         NEW k \in Nat, k < Len(nonces),
         NEW f, Follows(f, k, nonces, base, step)
  PROVE  \E h : Follows(h, k + 1, nonces, base, step)
<1> DEFINE n == k + 1
           h == [s \in SUBSET (1 .. n) |->
                   IF n \in s THEN step[<<f[s \ {n}], nonces[n]>>] ELSE f[s]]
<1>1. n \in 1 .. Len(nonces) /\ nonces[n] \in Nat
  OBVIOUS
<1>2. \A s \in SUBSET (1 .. n) :
        /\ s \ {n} \in SUBSET (1 .. k)
        /\ n \notin s => s \in SUBSET (1 .. k)
  OBVIOUS
<1>3. \A s \in SUBSET (1 .. k) : s \in SUBSET (1 .. n) /\ n \notin s
  OBVIOUS
<1>4. \A s \in SUBSET (1 .. k) : f[s] \in Nat /\ h[s] = f[s]
  BY <1>3 DEF Follows
<1>5. h \in [SUBSET (1 .. n) -> Nat]
  <2> SUFFICES ASSUME NEW s \in SUBSET (1 .. n)
               PROVE  (IF n \in s THEN step[<<f[s \ {n}], nonces[n]>>]
                                  ELSE f[s]) \in Nat
    OBVIOUS
  <2>1. f[s \ {n}] \in Nat /\ (n \notin s => f[s] \in Nat)
    BY <1>2, <1>4
  <2>2. <<f[s \ {n}], nonces[n]>> \in Nat \X Nat
    BY <1>1, <2>1
  <2>3. step[<<f[s \ {n}], nonces[n]>>] \in Nat
    BY <2>2
  <2> QED BY <2>1, <2>3
<1>6. ASSUME NEW s \in SUBSET (1 .. n)
      PROVE  h[s] = IF s = {} THEN base
                    ELSE step[<<h[s \ {Max(s)}], nonces[Max(s)]>>]
  <2>1. CASE n \in s
    <3>1. Max(s) = n /\ s # {}
      BY <2>1, MaxOfInterval
    <3>2. h[s \ {n}] = f[s \ {n}]
      BY <1>2, <1>4
    <3>3. h[s] = step[<<f[s \ {n}], nonces[n]>>]
      BY <2>1
    <3> QED BY <3>1, <3>2, <3>3
  <2>2. CASE n \notin s
    <3>1. s \in SUBSET (1 .. k) /\ s \ {Max(s)} \in SUBSET (1 .. k)
      BY <1>2, <2>2
    <3>2. h[s] = f[s] /\ h[s \ {Max(s)}] = f[s \ {Max(s)}]
      BY <1>4, <3>1
    <3>3. f[s] = IF s = {} THEN base
                 ELSE step[<<f[s \ {Max(s)}], nonces[Max(s)]>>]
      BY <3>1 DEF Follows
    <3> QED BY <3>2, <3>3
  <2> QED BY <2>1, <2>2
<1> HIDE DEF h
<1>7. Follows(h, n, nonces, base, step)
  BY <1>5, <1>6 DEF Follows
<1> QED BY <1>7

LEMMA FoldExists ==
  ASSUME NEW nonces \in Seq(Nat), NEW base \in Nat,
         NEW step \in [Nat \X Nat -> Nat]
  PROVE  \E f : Follows(f, Len(nonces), nonces, base, step)
<1> DEFINE n == Len(nonces)
           K == {k \in 0 .. n : \E f : Follows(f, k, nonces, base, step)}
<1>1. n \in Nat
  OBVIOUS
<1>2. 0 \in K
  <2> DEFINE f == [s \in SUBSET (1 .. 0) |-> base]
  <2>1. \A s \in SUBSET (1 .. 0) : s = {} /\ f[s] = base
    OBVIOUS
  <2>2. f \in [SUBSET (1 .. 0) -> Nat]
    OBVIOUS
  <2>3. Follows(f, 0, nonces, base, step)
    BY <2>1, <2>2 DEF Follows
  <2> HIDE DEF f
  <2> QED BY <1>1, <2>3
<1>3. \A k \in 0 .. n : k \in K /\ k < n => k + 1 \in K
  <2> SUFFICES ASSUME NEW k \in 0 .. n, k \in K, k < n
               PROVE  k + 1 \in K
    OBVIOUS
  <2>1. PICK f : Follows(f, k, nonces, base, step)
    OBVIOUS
  <2>2. \E h : Follows(h, k + 1, nonces, base, step)
    BY <1>1, <2>1, FoldGrows
  <2> QED BY <1>1, <2>2
<1> HIDE DEF K
<1>4. 0 .. n \subseteq K
  BY <1>1, <1>2, <1>3, UpTo
<1>5. n \in K
  BY <1>1, <1>4
<1> QED BY <1>5 DEF K

\* One step of the fold on a set of positions.
FoldsSet(f, s, nonces, step) ==
  LET rest == f[s \ {Max(s)}]
      last == nonces[Max(s)]
  IN  rest \in Nat /\ last \in Nat /\ f[s] = step[<<rest, last>>]

LEMMA FoldedSet ==
  ASSUME NEW nonces \in Seq(Nat), NEW base, NEW step, NEW f,
         Follows(f, Len(nonces), nonces, base, step)
  PROVE  \A s \in SUBSET (1 .. Len(nonces)) :
           s # {} => FoldsSet(f, s, nonces, step)
<1> DEFINE n == Len(nonces)
<1> SUFFICES ASSUME NEW s \in SUBSET (1 .. n), s # {}
             PROVE  FoldsSet(f, s, nonces, step)
  OBVIOUS
<1>0. n \in Nat
  OBVIOUS
<1>1. Max(s) \in s
  BY <1>0, MaxOfPositions
<1>2. s \ {Max(s)} \in SUBSET (1 .. n) /\ Max(s) \in 1 .. n
  BY <1>1
<1>3. f \in [SUBSET (1 .. n) -> Nat]
  BY DEF Follows
<1>4. f[s] = step[<<f[s \ {Max(s)}], nonces[Max(s)]>>]
  BY DEF Follows
<1> QED BY <1>2, <1>3, <1>4 DEF FoldsSet

LEMMA FirstPositions ==
  ASSUME NEW n \in Nat, NEW i \in 1 .. n
  PROVE  /\ 1 .. i \in SUBSET (1 .. n) /\ (1 .. i) # {}
         /\ Max(1 .. i) = i
         /\ (1 .. i) \ {i} = 1 .. (i - 1)
<1>1. i \in Nat /\ i \in 1 .. i
  OBVIOUS
<1>2. 1 .. i \in SUBSET (1 .. n)
  OBVIOUS
<1>3. Max(1 .. i) = i
  BY <1>1, MaxOfInterval
<1>4. (1 .. i) \ {i} = 1 .. (i - 1)
  OBVIOUS
<1> QED BY <1>1, <1>2, <1>3, <1>4

-----------------------------------------------------------------------------
(* The pass over the submitted transactions.                               *)

Pass(highest, n) == IF n = highest THEN highest + 1 ELSE highest

\* g[i] is the candidate after the first i entries.
PassSteps(g, nonces, start) ==
  /\ g[0] = start
  /\ \A i \in 1 .. Len(nonces) : g[i] = Pass(g[i - 1], nonces[i])

LEMMA ContinuousIsPass ==
  ASSUME NEW nonces \in Seq(Nat), NEW start \in Nat
  PROVE  \E g : /\ PassSteps(g, nonces, start)
                /\ GetHighestContinuousFrom(nonces, start) = g[Len(nonces)]
<1> DEFINE n == Len(nonces)
           step == [p \in Nat \X Nat |-> Pass(p[1], p[2])]
           IsFold(f) ==
             f = [s \in SUBSET DOMAIN nonces |->
                    IF s = {} THEN start
                    ELSE Pass(f[s \ {Max(s)}], nonces[Max(s)])]
           iter == CHOOSE f : IsFold(f)
           g == [i \in 0 .. n |-> iter[1 .. i]]
<1>1. n \in Nat /\ DOMAIN nonces = 1 .. n
  OBVIOUS
<1>2. step \in [Nat \X Nat -> Nat]
  BY DEF Pass
<1>3. GetHighestContinuousFrom(nonces, start) = iter[DOMAIN nonces]
  BY DEF GetHighestContinuousFrom, FoldLeft, MapThenFoldSet, Pass
<1> HIDE DEF step
<1>4. \E f : IsFold(f)
  <2>1. PICK f : Follows(f, n, nonces, start, step)
    BY <1>2, FoldExists
  <2>2. ASSUME NEW s \in SUBSET (1 .. n)
        PROVE  f[s] = IF s = {} THEN start
                      ELSE Pass(f[s \ {Max(s)}], nonces[Max(s)])
    <3>1. CASE s = {}
      BY <2>1, <3>1 DEF Follows
    <3>2. CASE s # {}
      <4> DEFINE rest == f[s \ {Max(s)}]
                 last == nonces[Max(s)]
      <4>1. rest \in Nat /\ last \in Nat /\ f[s] = step[<<rest, last>>]
        <5>1. Follows(f, Len(nonces), nonces, start, step)
          BY <2>1
        <5>2. \A t \in SUBSET (1 .. Len(nonces)) :
                t # {} => FoldsSet(f, t, nonces, step)
          BY <5>1, FoldedSet, Zenon
        <5>3. FoldsSet(f, s, nonces, step)
          BY <3>2, <5>2
        <5> QED BY <5>3 DEF FoldsSet
      <4> HIDE DEF rest, last
      <4>2. step[<<rest, last>>] = Pass(rest, last)
        BY <4>1 DEF step
      <4>3. f[s] = Pass(rest, last)
        BY <4>1, <4>2
      <4> QED BY <3>2, <4>3 DEF rest, last
    <3> QED BY <3>1, <3>2
  <2>3. IsFold(f)
    BY <1>1, <2>1, <2>2 DEF Follows
  <2> QED BY <2>3
<1>5. IsFold(iter)
  BY <1>4
<1> HIDE DEF iter
<1>6. \A s \in SUBSET (1 .. n) :
        iter[s] = IF s = {} THEN start
                  ELSE Pass(iter[s \ {Max(s)}], nonces[Max(s)])
  BY <1>1, <1>5
<1>7. g[0] = start
  <2>1. 1 .. 0 = {} /\ {} \in SUBSET (1 .. n) /\ 0 \in 0 .. n
    BY <1>1
  <2>2. iter[{}] = start
    BY <1>6, <2>1
  <2> QED BY <2>1, <2>2
<1>8. ASSUME NEW i \in 1 .. n
      PROVE  g[i] = Pass(g[i - 1], nonces[i])
  <2>1. i \in 0 .. n /\ i - 1 \in 0 .. n
    BY <1>1
  <2> QED BY <1>1, <1>6, <2>1, FirstPositions
<1>9. g[n] = iter[DOMAIN nonces]
  BY <1>1
<1> HIDE DEF g
<1>10. PassSteps(g, nonces, start)
  BY <1>7, <1>8 DEF PassSteps
<1> QED BY <1>3, <1>9, <1>10

LEMMA PassBounds ==
  ASSUME NEW nonces \in Seq(Nat), NEW start \in Nat, NEW g,
         PassSteps(g, nonces, start)
  PROVE  \A i \in 0 .. Len(nonces) : g[i] \in Nat /\ g[i] >= start
<1> DEFINE n == Len(nonces)
           K == {i \in 0 .. n : g[i] \in Nat /\ g[i] >= start}
<1>1. n \in Nat /\ 0 \in K
  BY DEF PassSteps
<1>2. ASSUME NEW k \in 0 .. n, k \in K, k < n PROVE k + 1 \in K
  <2>1. /\ k + 1 \in 1 .. n /\ k + 1 \in 0 .. n /\ (k + 1) - 1 = k
        /\ nonces[k + 1] \in Nat
    BY <1>1, <1>2, NextPosition, EntryIsNatural
  <2>2. g[k + 1] = Pass(g[k], nonces[k + 1])
    BY <2>1 DEF PassSteps
  <2>3. g[k] \in Nat /\ g[k] >= start
    BY <1>2
  <2>4. g[k + 1] = g[k] + 1 \/ g[k + 1] = g[k]
    BY <2>2 DEF Pass
  <2>5. g[k + 1] \in Nat /\ g[k + 1] >= start
    BY <2>3, <2>4
  <2> QED BY <2>1, <2>5
<1> HIDE DEF K
<1>3. 0 .. n \subseteq K
  BY <1>1, <1>2, UpTo
<1> QED BY <1>3 DEF K

\* Every candidate the pass leaves behind is one of the entries.
LEMMA PassLeavesNoGap ==
  ASSUME NEW nonces \in Seq(Nat), NEW start \in Nat, NEW g,
         PassSteps(g, nonces, start)
  PROVE  \A i \in 0 .. Len(nonces) : \A m \in start .. g[i] - 1 :
           \E j \in 1 .. Len(nonces) : nonces[j] = m
<1> DEFINE n == Len(nonces)
           Listed(m) == \E j \in 1 .. n : nonces[j] = m
           K == {i \in 0 .. n : \A m \in start .. g[i] - 1 : Listed(m)}
<1>0. \A i \in 0 .. n : g[i] \in Nat
  BY PassBounds
<1>1. n \in Nat /\ 0 \in K
  BY DEF PassSteps
<1>2. ASSUME NEW k \in 0 .. n, k \in K, k < n PROVE k + 1 \in K
  <2>1. k + 1 \in 1 .. n /\ k + 1 \in 0 .. n /\ (k + 1) - 1 = k
    BY <1>1, <1>2, NextPosition, EntryIsNatural
  <2>2. g[k + 1] = Pass(g[k], nonces[k + 1])
    BY <2>1 DEF PassSteps
  <2>3. ASSUME NEW m \in start .. g[k + 1] - 1 PROVE Listed(m)
    <3>1. CASE m \in start .. g[k] - 1
      BY <1>2, <3>1
    <3>2. CASE m \notin start .. g[k] - 1
      <4>1. g[k] \in Nat /\ g[k + 1] \in Nat
        BY <1>0, <2>1
      <4>2. m >= g[k] /\ m < g[k + 1]
        BY <3>2, <4>1
      <4>3. nonces[k + 1] = g[k] /\ g[k + 1] = g[k] + 1
        BY <2>2, <4>1, <4>2 DEF Pass
      <4>4. m = g[k]
        BY <4>1, <4>2, <4>3
      <4> QED BY <2>1, <4>3, <4>4
    <3> QED BY <3>1, <3>2
  <2> QED BY <2>1, <2>3
<1> HIDE DEF K
<1>3. 0 .. n \subseteq K
  BY <1>1, <1>2, UpTo
<1> QED BY <1>3 DEF K

Increasing(nonces) ==
  \A i, j \in DOMAIN nonces : i < j => nonces[i] <= nonces[j]

\* Of entries in order, the pass never returns to one.
LEMMA PassOfIncreasing ==
  ASSUME NEW nonces \in Seq(Nat), NEW start \in Nat, NEW g,
         PassSteps(g, nonces, start), Increasing(nonces)
  PROVE  \A i \in 0 .. Len(nonces) : \A j \in 1 .. i : nonces[j] # g[i]
<1> DEFINE n == Len(nonces)
           K == {i \in 0 .. n : \A j \in 1 .. i : nonces[j] # g[i]}
<1>0. \A i \in 0 .. n : g[i] \in Nat
  BY PassBounds
<1>1. n \in Nat /\ 0 \in K
  OBVIOUS
<1>2. ASSUME NEW k \in 0 .. n, k \in K, k < n PROVE k + 1 \in K
  <2>1. k + 1 \in 1 .. n /\ k + 1 \in 0 .. n /\ (k + 1) - 1 = k
    BY <1>1, <1>2, NextPosition, EntryIsNatural
  <2>2. g[k + 1] = Pass(g[k], nonces[k + 1])
    BY <2>1 DEF PassSteps
  <2>3. ASSUME NEW j \in 1 .. k + 1 PROVE nonces[j] # g[k + 1]
    <3>1. /\ g[k] \in Nat /\ g[k + 1] \in Nat
          /\ j \in 1 .. n /\ nonces[j] \in Nat /\ nonces[k + 1] \in Nat
      BY <1>0, <2>1
    <3>2. nonces[j] <= nonces[k + 1]
      BY <2>1, <3>1 DEF Increasing
    <3>3. CASE nonces[k + 1] = g[k]
      BY <2>2, <3>1, <3>2, <3>3 DEF Pass
    <3>4. CASE nonces[k + 1] # g[k]
      <4>1. g[k + 1] = g[k]
        BY <2>2, <3>4 DEF Pass
      <4>2. j = k + 1 \/ j \in 1 .. k
        OBVIOUS
      <4> QED BY <1>2, <3>4, <4>1, <4>2
    <3> QED BY <3>3, <3>4
  <2> QED BY <2>1, <2>3
<1> HIDE DEF K
<1>3. 0 .. n \subseteq K
  BY <1>1, <1>2, UpTo
<1> QED BY <1>3 DEF K

-----------------------------------------------------------------------------
(* The pass over the confirmed transactions.                               *)

Above(highest, n) == MaxOf(highest, n + 1)

AboveSteps(g, nonces) ==
  /\ g[0] = 0
  /\ \A i \in 1 .. Len(nonces) : g[i] = Above(g[i - 1], nonces[i])

LEMMA LocallyConfirmedIsPass ==
  ASSUME NEW nonces \in Seq(Nat)
  PROVE  \E g : /\ AboveSteps(g, nonces)
                /\ GetHighestLocallyConfirmed(nonces) = g[Len(nonces)]
<1> DEFINE n == Len(nonces)
           step == [p \in Nat \X Nat |-> Above(p[1], p[2])]
           IsFold(f) ==
             f = [s \in SUBSET DOMAIN nonces |->
                    IF s = {} THEN 0
                    ELSE Above(f[s \ {Max(s)}], nonces[Max(s)])]
           iter == CHOOSE f : IsFold(f)
           g == [i \in 0 .. n |-> iter[1 .. i]]
<1>1. n \in Nat /\ DOMAIN nonces = 1 .. n
  OBVIOUS
<1>2. step \in [Nat \X Nat -> Nat]
  BY DEF Above, MaxOf
<1>3. GetHighestLocallyConfirmed(nonces) = iter[DOMAIN nonces]
  BY DEF GetHighestLocallyConfirmed, FoldLeft, MapThenFoldSet, Above
<1> HIDE DEF step
<1>4. \E f : IsFold(f)
  <2>1. PICK f : Follows(f, n, nonces, 0, step)
    BY <1>2, FoldExists
  <2>2. ASSUME NEW s \in SUBSET (1 .. n)
        PROVE  f[s] = IF s = {} THEN 0
                      ELSE Above(f[s \ {Max(s)}], nonces[Max(s)])
    <3>1. CASE s = {}
      BY <2>1, <3>1 DEF Follows
    <3>2. CASE s # {}
      <4> DEFINE rest == f[s \ {Max(s)}]
                 last == nonces[Max(s)]
      <4>1. rest \in Nat /\ last \in Nat /\ f[s] = step[<<rest, last>>]
        <5>1. Follows(f, Len(nonces), nonces, 0, step)
          BY <2>1
        <5>2. \A t \in SUBSET (1 .. Len(nonces)) :
                t # {} => FoldsSet(f, t, nonces, step)
          BY <5>1, FoldedSet, Zenon
        <5>3. FoldsSet(f, s, nonces, step)
          BY <3>2, <5>2
        <5> QED BY <5>3 DEF FoldsSet
      <4> HIDE DEF rest, last
      <4>2. step[<<rest, last>>] = Above(rest, last)
        BY <4>1 DEF step
      <4>3. f[s] = Above(rest, last)
        BY <4>1, <4>2
      <4> QED BY <3>2, <4>3 DEF rest, last
    <3> QED BY <3>1, <3>2
  <2>3. IsFold(f)
    BY <1>1, <2>1, <2>2 DEF Follows
  <2> QED BY <2>3
<1>5. IsFold(iter)
  BY <1>4
<1> HIDE DEF iter
<1>6. \A s \in SUBSET (1 .. n) :
        iter[s] = IF s = {} THEN 0
                  ELSE Above(iter[s \ {Max(s)}], nonces[Max(s)])
  BY <1>1, <1>5
<1>7. g[0] = 0
  <2>1. 1 .. 0 = {} /\ {} \in SUBSET (1 .. n) /\ 0 \in 0 .. n
    BY <1>1
  <2>2. iter[{}] = 0
    BY <1>6, <2>1
  <2> QED BY <2>1, <2>2
<1>8. ASSUME NEW i \in 1 .. n
      PROVE  g[i] = Above(g[i - 1], nonces[i])
  <2>1. i \in 0 .. n /\ i - 1 \in 0 .. n
    BY <1>1
  <2> QED BY <1>1, <1>6, <2>1, FirstPositions
<1>9. g[n] = iter[DOMAIN nonces]
  BY <1>1
<1> HIDE DEF g
<1>10. AboveSteps(g, nonces)
  BY <1>7, <1>8 DEF AboveSteps
<1> QED BY <1>3, <1>9, <1>10

LEMMA AboveBounds ==
  ASSUME NEW nonces \in Seq(Nat), NEW g, AboveSteps(g, nonces)
  PROVE  \A i \in 0 .. Len(nonces) :
           g[i] \in Nat /\ \A j \in 1 .. i : g[i] > nonces[j]
<1> DEFINE n == Len(nonces)
           K == {i \in 0 .. n : /\ g[i] \in Nat
                                /\ \A j \in 1 .. i : g[i] > nonces[j]}
<1>1. n \in Nat /\ 0 \in K
  BY DEF AboveSteps
<1>2. ASSUME NEW k \in 0 .. n, k \in K, k < n PROVE k + 1 \in K
  <2>1. /\ k + 1 \in 1 .. n /\ k + 1 \in 0 .. n /\ (k + 1) - 1 = k
        /\ nonces[k + 1] \in Nat
    BY <1>1, <1>2, NextPosition, EntryIsNatural
  <2>2. g[k + 1] = MaxOf(g[k], nonces[k + 1] + 1)
    BY <2>1 DEF AboveSteps, Above
  <2>3. g[k] \in Nat
    BY <1>2
  <2>4. /\ g[k + 1] \in Nat /\ g[k + 1] >= g[k]
        /\ g[k + 1] > nonces[k + 1]
    BY <2>1, <2>2, <2>3 DEF MaxOf
  <2>5. ASSUME NEW j \in 1 .. k + 1 PROVE g[k + 1] > nonces[j]
    <3>1. j = k + 1 \/ j \in 1 .. k
      OBVIOUS
    <3>2. j \in 1 .. n /\ nonces[j] \in Nat
      BY <2>1
    <3> QED BY <1>2, <2>3, <2>4, <3>1, <3>2
  <2> QED BY <2>1, <2>4, <2>5
<1> HIDE DEF K
<1>3. 0 .. n \subseteq K
  BY <1>1, <1>2, UpTo
<1> QED BY <1>3 DEF K

-----------------------------------------------------------------------------
(* The nonce handed out.                                                   *)

(***************************************************************************)
(* What is handed out is not below what the network or the wallet knows    *)
(* to be consumed, and above every confirmed nonce (the start of the       *)
(* search in NonceTracker::GetFinalNonce).                                 *)
(***************************************************************************)
THEOREM HighestConfirmedBounds ==
  ASSUME NEW networkNonce \in Nat, NEW confirmed \in Seq(Nat)
  PROVE  LET highest == HighestConfirmed(networkNonce, confirmed)
         IN  /\ highest \in Nat /\ highest >= networkNonce
             /\ \A i \in DOMAIN confirmed : highest > confirmed[i]
<1> DEFINE n == Len(confirmed)
<1>1. PICK g : /\ AboveSteps(g, confirmed)
               /\ GetHighestLocallyConfirmed(confirmed) = g[n]
  BY LocallyConfirmedIsPass
<1>2. /\ n \in Nat /\ n \in 0 .. n /\ DOMAIN confirmed = 1 .. n
  OBVIOUS
<1>3. g[n] \in Nat /\ \A i \in 1 .. n : g[n] > confirmed[i]
  BY <1>1, <1>2, AboveBounds
<1>4. \A i \in 1 .. n : confirmed[i] \in Nat
  OBVIOUS
<1> QED BY <1>1, <1>2, <1>3, <1>4 DEF HighestConfirmed, MaxOf

(***************************************************************************)
(* The nonce NonceTracker::GetFinalNonce hands out leaves no gap above     *)
(* what is consumed, is not consumed itself, and, when the submitted       *)
(* transactions are listed in nonce order, belongs to none of them.        *)
(***************************************************************************)
THEOREM FinalNonce ==
  ASSUME NEW networkNonce \in Nat, NEW confirmed \in Seq(Nat),
         NEW submitted \in Seq(Nat)
  PROVE  LET start == HighestConfirmed(networkNonce, confirmed)
             final == GetFinalNonce(networkNonce, confirmed, submitted)
         IN  /\ final \in Nat /\ final >= start /\ final >= networkNonce
             /\ \A i \in DOMAIN confirmed : final > confirmed[i]
             /\ \A k \in start .. final - 1 :
                  \E i \in DOMAIN submitted : submitted[i] = k
             /\ Increasing(submitted) =>
                  \A i \in DOMAIN submitted : submitted[i] # final
<1> DEFINE n == Len(submitted)
           start == HighestConfirmed(networkNonce, confirmed)
           final == GetFinalNonce(networkNonce, confirmed, submitted)
<1>1. /\ start \in Nat /\ start >= networkNonce
      /\ \A i \in DOMAIN confirmed : start > confirmed[i]
  BY HighestConfirmedBounds
<1>2. \A i \in DOMAIN confirmed : confirmed[i] \in Nat
  OBVIOUS
<1> HIDE DEF start
<1>3. PICK g : /\ PassSteps(g, submitted, start)
               /\ GetHighestContinuousFrom(submitted, start) = g[n]
  BY <1>1, ContinuousIsPass
<1>4. n \in Nat /\ n \in 0 .. n /\ DOMAIN submitted = 1 .. n
  OBVIOUS
<1>5. g[n] \in Nat /\ g[n] >= start
  BY <1>1, <1>3, <1>4, PassBounds
<1>6. final = MaxOf(networkNonce, g[n])
  BY <1>3 DEF GetFinalNonce, start
<1>7. final = g[n] /\ final >= networkNonce
  BY <1>1, <1>5, <1>6 DEF MaxOf
<1> HIDE DEF final
<1>8. \A i \in DOMAIN confirmed : final > confirmed[i]
  BY <1>1, <1>2, <1>5, <1>7
<1>9. \A k \in start .. final - 1 :
        \E i \in DOMAIN submitted : submitted[i] = k
  <2>1. \A i \in 0 .. Len(submitted) : \A m \in start .. g[i] - 1 :
          \E j \in 1 .. Len(submitted) : submitted[j] = m
    BY <1>1, <1>3, PassLeavesNoGap
  <2> QED BY <1>4, <1>7, <2>1
<1>10. Increasing(submitted) =>
         \A i \in DOMAIN submitted : submitted[i] # final
  BY <1>1, <1>3, <1>4, <1>7, PassOfIncreasing
<1>11. /\ final \in Nat /\ final >= start /\ final >= networkNonce
       /\ \A i \in DOMAIN confirmed : final > confirmed[i]
       /\ \A k \in start .. final - 1 :
            \E i \in DOMAIN submitted : submitted[i] = k
       /\ Increasing(submitted) =>
            \A i \in DOMAIN submitted : submitted[i] # final
  BY <1>5, <1>7, <1>8, <1>9, <1>10
<1> QED BY <1>11 DEF start, final
=============================================================================
