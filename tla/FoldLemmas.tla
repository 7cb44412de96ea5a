----------------------------- MODULE FoldLemmas -----------------------------
(***************************************************************************)
(* What a loop over a list does, for lists of every length: the loops of   *)
(* the models are folds (FoldLeft) of an operator that takes what was kept *)
(* so far and the next element.                                            *)
(*                                                                         *)
(* The induction theorems of the library have a predicate as a parameter,  *)
(* and so cannot be cited; that a nonempty set has an element without      *)
(* predecessor in the set can, and the lemmas below state inductions for   *)
(* sets.  Op and Base are those of the fold, and Op has a parameter for    *)
(* the locals of the loop; a module that has a fold to reason about takes  *)
(* an instance of this one.                                                *)
(***************************************************************************)
EXTENDS Integers, Sequences, SequencesExt, WellFoundedInduction, TLAPS

CONSTANTS Op(_, _, _), Base

Folded(p, s) == FoldLeft(LAMBDA x, e : Op(p, x, e), Base, s)

---------------------------------------------------------------------------
(* Numbers.                                                                *)

\* Induction over the naturals.
LEMMA SetInduction ==
  ASSUME NEW S, 0 \in S, \A n \in Nat : n \in S => n + 1 \in S
  PROVE  Nat \subseteq S
<1> DEFINE T == Nat \ S
           R == {q \in Nat \X Nat : q[1] < q[2]}
<1>1. IsWellFoundedOn(R, Nat)
  BY NatLessThanWellFounded DEF OpToRel
<1> SUFFICES ASSUME T # {} PROVE FALSE
  OBVIOUS
<1>2. PICK x \in T : \A y \in T : <<y, x>> \notin R
  <2> HIDE DEF R
  <2> QED BY <1>1, WFMin
<1>3. x # 0 /\ x - 1 \in Nat /\ (x - 1) + 1 = x
  OBVIOUS
<1>4. <<x - 1, x>> \in R
  BY <1>3
<1>5. x - 1 \in S
  <2> HIDE DEF R
  <2> QED BY <1>2, <1>3, <1>4
<1> QED BY <1>3, <1>5

\* A set of indices has a last one.
LEMMA LastIndex ==
  ASSUME NEW n \in Nat, NEW t \in SUBSET (1..n), t # {}
  PROVE  Max(t) \in t /\ \A i \in t : i <= Max(t)
<1> DEFINE Has(m) == \A u \in SUBSET (1..m) : u # {} => \E x \in u : \A y \in u : x >= y
           S == {m \in Nat : Has(m)}
<1>1. 0 \in S
  <2>1. \A u \in SUBSET (1..0) : u = {}
    OBVIOUS
  <2> QED BY <2>1
<1>2. ASSUME NEW m \in Nat, m \in S PROVE m + 1 \in S
  <2> SUFFICES ASSUME NEW u \in SUBSET (1..(m + 1)), u # {}
               PROVE  \E x \in u : \A y \in u : x >= y
    OBVIOUS
  <2>1. CASE m + 1 \in u
    BY <2>1
  <2>2. CASE m + 1 \notin u
    <3>1. u \in SUBSET (1..m)
      BY <2>2
    <3> QED BY <1>2, <3>1
  <2> QED BY <2>1, <2>2
<1>3. n \in S
  <2> HIDE DEF S
  <2> QED BY <1>1, <1>2, SetInduction
<1>4. \E x \in t : \A y \in t : x >= y
  BY <1>3
<1> QED BY <1>4 DEF Max

\* The last index of a list, and those before it.
LEMMA LastOfRange ==
  ASSUME NEW k \in Nat
  PROVE  /\ Max(1..(k + 1)) = k + 1
         /\ 1..(k + 1) # {}
         /\ (1..(k + 1)) \ {k + 1} = 1..k
<1>1. 1..(k + 1) # {} /\ k + 1 \in 1..(k + 1) /\ k + 1 \in Nat
  OBVIOUS
<1>2. Max(1..(k + 1)) \in 1..(k + 1) /\ \A i \in 1..(k + 1) : i <= Max(1..(k + 1))
  BY <1>1, LastIndex
<1>3. Max(1..(k + 1)) = k + 1
  BY <1>1, <1>2
<1> QED BY <1>1, <1>3

---------------------------------------------------------------------------
(* The definition of FoldLeft chooses a function over sets of indices that *)
(* satisfies a recursive equation.  Such a function exists, since one for  *)
(* the subsets of 1..m can be prolonged to the subsets of 1..(m + 1).      *)

Folds(iter, T, base, G, m) ==
  /\ iter \in [SUBSET (1..m) -> T]
  /\ \A t \in SUBSET (1..m) :
       iter[t] = IF t = {} THEN base ELSE G[<<iter[t \ {Max(t)}], Max(t)>>]

LEMMA FoldGrows ==
  ASSUME NEW T, NEW base \in T, NEW n \in Nat, NEW G \in [T \X (1..n) -> T],
         NEW m \in Nat, m + 1 <= n, NEW old, Folds(old, T, base, G, m)
  PROVE  \E new : Folds(new, T, base, G, m + 1)
<1> DEFINE Next(t) == IF t = {} THEN base ELSE G[<<old[t \ {Max(t)}], Max(t)>>]
           new == [t \in SUBSET (1..(m + 1)) |-> Next(t)]
<1>1. ASSUME NEW t \in SUBSET (1..(m + 1)), t # {}
      PROVE  t \ {Max(t)} \in SUBSET (1..m) /\ Max(t) \in 1..n
  <2>1. m + 1 \in Nat
    OBVIOUS
  <2>2. Max(t) \in t /\ \A i \in t : i <= Max(t)
    BY <1>1, <2>1, LastIndex
  <2> DEFINE max == Max(t)
  <2>3. max \in 1..(m + 1) /\ \A i \in t \ {max} : i \in 1..m
    <3>1. max \in t /\ \A i \in t : i <= max
      BY <2>2
    <3> HIDE DEF max
    <3> QED BY <3>1
  <2>4. max \in 1..n
    <3> HIDE DEF max
    <3> QED BY <2>3
  <2> QED BY <2>3, <2>4
<1>2. ASSUME NEW t \in SUBSET (1..(m + 1)) PROVE Next(t) \in T
  <2>1. CASE t = {}
    BY <2>1
  <2>2. CASE t # {}
    <3>1. old[t \ {Max(t)}] \in T /\ Max(t) \in 1..n
      BY <1>1, <2>2 DEF Folds
    <3>2. <<old[t \ {Max(t)}], Max(t)>> \in T \X (1..n)
      BY <3>1
    <3> QED BY <2>2, <3>2
  <2> QED BY <2>1, <2>2
<1>3. new \in [SUBSET (1..(m + 1)) -> T]
  <2> HIDE DEF Next
  <2> QED BY <1>2
<1>4. ASSUME NEW t \in SUBSET (1..m) PROVE new[t] = old[t]
  <2>1. t \in SUBSET (1..(m + 1)) /\ old[t] = Next(t)
    BY DEF Folds
  <2> HIDE DEF Next
  <2> QED BY <2>1
<1>5. ASSUME NEW t \in SUBSET (1..(m + 1))
      PROVE  new[t] = IF t = {} THEN base ELSE G[<<new[t \ {Max(t)}], Max(t)>>]
  <2>1. new[t] = Next(t)
    OBVIOUS
  <2>2. t # {} => new[t \ {Max(t)}] = old[t \ {Max(t)}]
    BY <1>1, <1>4
  <2> HIDE DEF new
  <2> QED BY <2>1, <2>2
<1> HIDE DEF new
<1> QED BY <1>3, <1>5 DEF Folds

\* There is such a function for all the indices of a list.
LEMMA FoldExists ==
  ASSUME NEW T, NEW base \in T, NEW n \in Nat, NEW G \in [T \X (1..n) -> T]
  PROVE  \E iter : Folds(iter, T, base, G, n)
<1> DEFINE S == {m \in Nat : m <= n => \E iter : Folds(iter, T, base, G, m)}
<1>1. 0 \in S
  <2> DEFINE iter == [t \in SUBSET (1..0) |-> base]
  <2>1. \A t \in SUBSET (1..0) : t = {}
    OBVIOUS
  <2>2. Folds(iter, T, base, G, 0)
    BY <2>1 DEF Folds
  <2> QED BY <2>2
<1>2. ASSUME NEW m \in Nat, m \in S PROVE m + 1 \in S
  BY <1>2, FoldGrows
<1>3. n \in S
  <2> HIDE DEF S
  <2> QED BY <1>1, <1>2, SetInduction
<1> QED BY <1>3

---------------------------------------------------------------------------
(* What a loop goes through, and what it ends with.                        *)

\* r[k] is what is kept after k elements.
LEMMA FoldSteps ==
  ASSUME NEW p, NEW T, NEW s, NEW E, s \in Seq(E), Base \in T,
         \A x \in T, i \in 1..Len(s) : Op(p, x, s[i]) \in T
  PROVE  \E r \in [0..Len(s) -> T] :
           /\ r[0] = Base
           /\ \A k \in 0..(Len(s) - 1) : r[k + 1] = Op(p, r[k], s[k + 1])
           /\ Folded(p, s) = r[Len(s)]
<1> DEFINE n == Len(s)
           G == [q \in T \X (1..n) |-> Op(p, q[1], s[q[2]])]
           Step(iter, t) == IF t = {} THEN Base ELSE Op(p, iter[t \ {Max(t)}], s[Max(t)])
           Is(iter) == iter = [t \in SUBSET (1..n) |-> Step(iter, t)]
           c == CHOOSE iter : Is(iter)
<1>1. n \in Nat /\ DOMAIN s = 1..n
  OBVIOUS
<1>2. Folded(p, s) = c[1..n]
  BY <1>1 DEF Folded, FoldLeft, MapThenFoldSet
<1>3. G \in [T \X (1..n) -> T]
  OBVIOUS
<1>4. PICK iter : Folds(iter, T, Base, G, n)
  <2> HIDE DEF G, n
  <2> QED BY <1>1, <1>3, FoldExists
<1>5. ASSUME NEW t \in SUBSET (1..n)
      PROVE  iter[t] = Step(iter, t)
  <2>1. CASE t = {}
    BY <1>4, <2>1 DEF Folds
  <2>2. CASE t # {}
    <3>1. Max(t) \in 1..n /\ t \ {Max(t)} \in SUBSET (1..n)
      <4>1. Max(t) \in t
        <5> HIDE DEF n
        <5> QED BY <1>1, <2>2, LastIndex
      <4> QED BY <4>1
    <3>2. iter[t \ {Max(t)}] \in T
      BY <1>4, <3>1 DEF Folds
    <3>3. iter[t] = G[<<iter[t \ {Max(t)}], Max(t)>>]
      BY <1>4, <2>2 DEF Folds
    <3> QED BY <2>2, <3>1, <3>2, <3>3
  <2> QED BY <2>1, <2>2
<1>6. Is(iter)
  <2>1. iter \in [SUBSET (1..n) -> T]
    BY <1>4 DEF Folds
  <2> HIDE DEF Step, n
  <2> QED BY <1>5, <2>1
<1>7. Is(c)
  <2> HIDE DEF Is
  <2> QED BY <1>6
<1>8. ASSUME NEW t \in SUBSET (1..n)
      PROVE  c[t] = Step(c, t)
  <2> HIDE DEF c, Step
  <2> QED BY <1>7
<1> DEFINE r == [k \in 0..n |-> c[1..k]]
<1> HIDE DEF c
<1>9. r[0] = Base
  <2>1. 1..0 = {} /\ 0 \in 0..n
    BY <1>1
  <2>2. {} \in SUBSET (1..n)
    OBVIOUS
  <2>3. c[{}] = Base
    <3> HIDE DEF n
    <3> QED BY <1>8, <2>2
  <2> QED BY <2>1, <2>3
<1>10. ASSUME NEW k \in 0..(n - 1) PROVE r[k + 1] = Op(p, r[k], s[k + 1])
  <2>1. k \in Nat /\ k + 1 \in 0..n /\ k \in 0..n /\ 1..(k + 1) \in SUBSET (1..n)
    BY <1>1
  <2>2. c[1..(k + 1)] = Op(p, c[1..k], s[k + 1])
    <3> HIDE DEF n
    <3> QED BY <1>8, <2>1, LastOfRange
  <2> QED BY <2>1, <2>2
<1>11. r[n] = c[1..n]
  BY <1>1
<1> HIDE DEF r, n
<1>12. \A k \in 0..n : r[k] \in T
  <2> DEFINE S == {k \in Nat : k <= n => r[k] \in T}
  <2>1. 0 \in S
    BY <1>9
  <2>2. ASSUME NEW k \in Nat, k \in S PROVE k + 1 \in S
    <3> SUFFICES ASSUME k + 1 <= n PROVE r[k + 1] \in T
      OBVIOUS
    <3>1. k \in 0..(n - 1) /\ r[k] \in T /\ k + 1 \in 1..n
      BY <1>1, <2>2
    <3> QED BY <1>10, <3>1 DEF n
  <2>3. Nat \subseteq S
    <3> HIDE DEF S
    <3> QED BY <2>1, <2>2, SetInduction
  <2> QED BY <1>1, <2>3
<1>13. r \in [0..n -> T]
  BY <1>12 DEF r
<1> QED BY <1>2, <1>9, <1>10, <1>11, <1>13 DEF n

\* A loop invariant: what is kept after k elements is in P[k].
LEMMA FoldInduction ==
  ASSUME NEW p, NEW E, NEW s \in Seq(E), NEW T, Base \in T,
         \A x \in T, i \in 1..Len(s) : Op(p, x, s[i]) \in T,
         NEW P, Base \in P[0],
         \A k \in 0..(Len(s) - 1) : \A x \in T : x \in P[k] => Op(p, x, s[k + 1]) \in P[k + 1]
  PROVE  Folded(p, s) \in T /\ Folded(p, s) \in P[Len(s)]
<1>1. PICK r \in [0..Len(s) -> T] :
           /\ r[0] = Base
           /\ \A k \in 0..(Len(s) - 1) : r[k + 1] = Op(p, r[k], s[k + 1])
           /\ Folded(p, s) = r[Len(s)]
  BY FoldSteps
<1> DEFINE n == Len(s)
           S == {k \in Nat : k <= n => r[k] \in P[k]}
<1>2. n \in Nat
  OBVIOUS
<1>3. 0 \in S
  BY <1>1
<1>4. ASSUME NEW k \in Nat, k \in S PROVE k + 1 \in S
  <2> SUFFICES ASSUME k + 1 <= n PROVE r[k + 1] \in P[k + 1]
    OBVIOUS
  <2>1. k \in 0..(n - 1) /\ k \in 0..n /\ r[k] \in P[k] /\ r[k] \in T
    BY <1>2, <1>4
  <2> QED BY <1>1, <2>1
<1>5. n \in S
  <2> HIDE DEF S
  <2> QED BY <1>2, <1>3, <1>4, SetInduction
<1>6. n \in 0..n
  BY <1>2
<1> QED BY <1>1, <1>2, <1>5, <1>6

\* What every iteration keeps within T ends in T.
LEMMA FoldStays ==
  ASSUME NEW p, NEW E, NEW s \in Seq(E), NEW T, Base \in T,
         \A x \in T, i \in 1..Len(s) : Op(p, x, s[i]) \in T
  PROVE  Folded(p, s) \in T
<1>1. Len(s) \in 0..Len(s)
  OBVIOUS
<1> QED BY <1>1, FoldSteps

\* A loop that appends g[i] for the elements at I and skips the others ends
\* with the g[i] in the order of the list, each once.
Filters(p, s, E, F, I, g) ==
  /\ s \in Seq(E) /\ Base = <<>>
  /\ I \subseteq 1..Len(s) /\ g \in [I -> F]
  /\ \A x \in Seq(F), i \in 1..Len(s) :
       Op(p, x, s[i]) = IF i \in I THEN Append(x, g[i]) ELSE x

Filtered(r, F, I, g) ==
  /\ r \in Seq(F)
  /\ \E f \in [DOMAIN r -> I] :
       /\ \A i, j \in DOMAIN r : i < j => f[i] < f[j]
       /\ \A j \in DOMAIN r : r[j] = g[f[j]]
       /\ \A i \in I : \E j \in DOMAIN r : f[j] = i

LEMMA FoldFilters ==
  ASSUME NEW p, NEW s, NEW E, NEW F, NEW I, NEW g, Filters(p, s, E, F, I, g)
  PROVE  Filtered(Folded(p, s), F, I, g)
<1> DEFINE n == Len(s)
           Is(f, x, k) == /\ \A i, j \in 1..Len(x) : i < j => f[i] < f[j]
                          /\ \A j \in 1..Len(x) : f[j] \in 1..k /\ x[j] = g[f[j]]
                          /\ \A i \in I : i <= k => \E j \in 1..Len(x) : f[j] = i
           T == Seq(F)
           P == [k \in 0..n |-> {x \in T : \E f \in [1..Len(x) -> I] : Is(f, x, k)}]
<1>0. /\ s \in Seq(E) /\ Base = <<>>
      /\ I \subseteq 1..n /\ g \in [I -> F]
      /\ \A x \in Seq(F), i \in 1..n :
           Op(p, x, s[i]) = IF i \in I THEN Append(x, g[i]) ELSE x
  BY DEF Filters
<1>1. n \in Nat /\ I \subseteq 1..n
  BY <1>0
<1>2. Base \in T /\ Base \in P[0]
  <2>1. Base \in T /\ 0 \in 0..n /\ 1..Len(Base) = {}
    BY <1>0, <1>1
  <2>2. [j \in {} |-> 0] \in [1..Len(Base) -> I] /\ Is([j \in {} |-> 0], Base, 0)
    BY <1>1, <2>1
  <2> HIDE DEF T
  <2> QED BY <2>1, <2>2
<1>3. ASSUME NEW x \in T, NEW i \in 1..n PROVE Op(p, x, s[i]) \in T
  <2>1. CASE i \in I
    <3>1. g[i] \in F /\ x \in Seq(F)
      BY <1>0, <2>1
    <3>2. Op(p, x, s[i]) = Append(x, g[i])
      BY <1>0, <2>1
    <3> QED BY <3>1, <3>2
  <2>2. CASE i \notin I
    BY <1>0, <2>2
  <2> QED BY <2>1, <2>2
<1>4. ASSUME NEW k \in 0..(n - 1), NEW x \in T, x \in P[k]
      PROVE  Op(p, x, s[k + 1]) \in P[k + 1]
  <2>1. k \in Nat /\ k \in 0..n /\ k + 1 \in 1..n /\ k + 1 \in 0..n
    BY <1>1
  <2>2. PICK f \in [1..Len(x) -> I] : Is(f, x, k)
    BY <1>4, <2>1
  <2>3. CASE k + 1 \notin I
    <3>1. Op(p, x, s[k + 1]) = x
      BY <1>0, <2>1, <2>3
    <3>2. Is(f, x, k + 1)
      <4>1. \A i \in I : i <= k + 1 => i <= k
        BY <1>1, <2>1, <2>3
      <4> QED BY <1>1, <2>1, <2>2, <4>1
    <3> HIDE DEF T, Is
    <3> QED BY <2>1, <3>1, <3>2
  <2>4. CASE k + 1 \in I
    <3> DEFINE m == Len(x) + 1
               y == Append(x, g[k + 1])
               h == [j \in 1..m |-> IF j = m THEN k + 1 ELSE f[j]]
    <3>1. Op(p, x, s[k + 1]) = y /\ y \in T
      <4>1. g[k + 1] \in F /\ x \in Seq(F)
        BY <1>0, <2>4
      <4>2. Op(p, x, s[k + 1]) = y
        BY <1>0, <2>1, <2>4
      <4> QED BY <4>1, <4>2
    <3>2. /\ Len(x) \in Nat /\ m \in Nat /\ Len(y) = m /\ y[m] = g[k + 1]
          /\ m \notin 1..Len(x) /\ 1..m = (1..Len(x)) \cup {m}
          /\ \A j \in 1..Len(x) : y[j] = x[j] /\ j < m
      BY <2>4
    <3>3. h \in [1..m -> I]
      BY <2>4, <3>2
    <3>4. h[m] = k + 1 /\ \A j \in 1..Len(x) : h[j] = f[j]
      BY <3>2
    <3> HIDE DEF h, y, m
    <3>5. \A i, j \in 1..m : i < j => h[i] < h[j]
      <4> SUFFICES ASSUME NEW i \in 1..m, NEW j \in 1..m, i < j PROVE h[i] < h[j]
        OBVIOUS
      <4>1. i \in 1..Len(x)
        BY <3>2 DEF m
      <4>2. CASE j = m
        <5>1. h[i] \in 1..k
          BY <2>2, <3>4, <4>1
        <5> QED BY <2>1, <3>4, <4>2, <5>1
      <4>3. CASE j \in 1..Len(x)
        BY <2>2, <3>4, <4>1, <4>3
      <4> QED BY <3>2, <4>2, <4>3
    <3>6. \A j \in 1..m : h[j] \in 1..(k + 1) /\ y[j] = g[h[j]]
      <4>1. h[m] \in 1..(k + 1) /\ y[m] = g[h[m]]
        BY <2>1, <3>2, <3>4
      <4>2. ASSUME NEW j \in 1..Len(x) PROVE h[j] \in 1..(k + 1) /\ y[j] = g[h[j]]
        BY <2>1, <2>2, <3>2, <3>4
      <4> QED BY <3>2, <4>1, <4>2
    <3>7. \A i \in I : i <= k + 1 => \E j \in 1..m : h[j] = i
      <4> SUFFICES ASSUME NEW i \in I, i <= k + 1 PROVE \E j \in 1..m : h[j] = i
        OBVIOUS
      <4>1. CASE i <= k
        BY <2>2, <3>2, <3>4, <4>1
      <4>2. CASE i = k + 1
        BY <3>2, <3>4, <4>2
      <4> QED BY <1>1, <2>1, <4>1, <4>2
    <3>8. Is(h, y, k + 1)
      BY <3>2, <3>5, <3>6, <3>7
    <3> HIDE DEF T, Is
    <3> QED BY <2>1, <3>1, <3>2, <3>3, <3>8
  <2> QED BY <2>3, <2>4
<1>5. Folded(p, s) \in T /\ Folded(p, s) \in P[n]
  <2> HIDE DEF T, P
  <2> QED BY <1>0, <1>1, <1>2, <1>3, <1>4, FoldInduction
<1>6. PICK f \in [1..Len(Folded(p, s)) -> I] : Is(f, Folded(p, s), n)
  <2> n \in 0..n
    BY <1>1
  <2> HIDE DEF T, Is
  <2> QED BY <1>5
<1> DEFINE r == Folded(p, s)
<1> HIDE DEF r
<1>7. r \in Seq(F) /\ Is(f, r, n) /\ DOMAIN r = 1..Len(r) /\ f \in [DOMAIN r -> I]
  <2>1. r \in Seq(F) /\ DOMAIN r = 1..Len(r)
    BY <1>5 DEF r
  <2> QED BY <1>6, <2>1 DEF r
<1>8. \A i \in I : \E j \in DOMAIN r : f[j] = i
  BY <1>1, <1>7
<1>9. Filtered(r, F, I, g)
  BY <1>7, <1>8 DEF Filtered
<1> QED BY <1>9 DEF r
=============================================================================
