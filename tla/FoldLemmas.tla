----------------------------- MODULE FoldLemmas -----------------------------
(***************************************************************************)
(* Induction and FoldLeft.  The models run over a batch, a list or an      *)
(* outbox with FoldLeft, whose definition chooses a function over the      *)
(* subsets of the domain.  Here is, without an operator for a parameter,   *)
(* that this function exists when what is folded stays in a set D, and     *)
(* that it goes through the sequence from the left: f[0] is the base,      *)
(* f[k] follows from f[k - 1] and k.                                       *)
(***************************************************************************)
EXTENDS Integers, Sequences, SequencesExt, WellFoundedInduction, TLAPS

\* Induction over the natural numbers, for the members of a set.
LEMMA SetInduction ==
  ASSUME NEW T, 0 \in T, \A k \in Nat : k \in T => k + 1 \in T
  PROVE  Nat \subseteq T
<1> SUFFICES ASSUME Nat \ T # {} PROVE FALSE
  OBVIOUS
<1> DEFINE R == OpToRel(<, Nat)
<1>1. IsWellFoundedOn(R, Nat)
  BY NatLessThanWellFounded
<1>2. \A j, k \in Nat : j < k => <<j, k>> \in R
  BY DEF OpToRel
<1> HIDE DEF R
<1>3. PICK least \in Nat \ T : \A k \in Nat \ T : ~ (<<k, least>> \in R)
  BY <1>1, WFMin
<1>4. least # 0
  OBVIOUS
<1>5. least - 1 \in Nat /\ least - 1 < least
  BY <1>4
<1>6. least - 1 \in T
  BY <1>2, <1>3, <1>5
<1> QED BY <1>5, <1>6

\* The same up to a bound.
LEMMA BoundedInduction ==
  ASSUME NEW n \in Nat, NEW T, 0 \in T, \A k \in 1..n : k - 1 \in T => k \in T
  PROVE  0..n \subseteq T
<1> DEFINE U == T \cup {k \in Nat : k > n}
<1>1. 0 \in U
  OBVIOUS
<1>2. ASSUME NEW k \in Nat, k \in U PROVE k + 1 \in U
  <2>1. CASE k + 1 > n
    BY <2>1
  <2>2. CASE k + 1 <= n
    <3>1. k \in T /\ k + 1 \in 1..n /\ (k + 1) - 1 = k
      BY <1>2, <2>2
    <3> QED BY <3>1
  <2> QED BY <2>1, <2>2
<1> HIDE DEF U
<1>3. Nat \subseteq U
  BY <1>1, <1>2, SetInduction
<1> QED BY <1>3 DEF U

-----------------------------------------------------------------------------
(* The largest element of a set of places *)

LEMMA MaxOfPlaces ==
  ASSUME NEW n \in Nat, NEW t \in SUBSET (1..n), t # {}
  PROVE  Max(t) \in t /\ \A y \in t : Max(t) >= y
<1> DEFINE Has(m) == \A s \in SUBSET (1..m) : s # {} => \E x \in s : \A y \in s : x >= y
           T == {m \in Nat : Has(m)}
<1>1. 0 \in T
  <2>1. \A s \in SUBSET (1..0) : s = {}
    OBVIOUS
  <2> QED BY <2>1
<1>2. ASSUME NEW m \in Nat, m \in T PROVE m + 1 \in T
  <2>1. ASSUME NEW s \in SUBSET (1..(m + 1)), s # {}
        PROVE  \E x \in s : \A y \in s : x >= y
    <3>1. CASE m + 1 \in s
      BY <3>1
    <3>2. CASE m + 1 \notin s
      <4>1. s \in SUBSET (1..m)
        BY <3>2
      <4> QED BY <1>2, <2>1, <4>1
    <3> QED BY <3>1, <3>2
  <2>2. Has(m + 1)
    BY <2>1
  <2> HIDE DEF Has
  <2> QED BY <2>2
<1> HIDE DEF T
<1>3. Nat \subseteq T
  BY <1>1, <1>2, SetInduction
<1>4. \E x \in t : \A y \in t : x >= y
  BY <1>3 DEF T
<1> QED BY <1>4, Zenon DEF Max

LEMMA MaxUpTo == ASSUME NEW k \in Nat \ {0} PROVE Max(1..k) = k
<1>1. 1..k \in SUBSET (1..k) /\ k \in 1..k
  OBVIOUS
<1>2. Max(1..k) \in 1..k /\ \A y \in 1..k : Max(1..k) >= y
  BY <1>1, MaxOfPlaces
<1>3. Max(1..k) >= k
  BY <1>1, <1>2
<1> QED BY <1>2, <1>3

-----------------------------------------------------------------------------
(* The function FoldLeft chooses *)

\* What h must be to be the fold over 1..n of g from a.
Folds(h, n, a, g) ==
  h = [t \in SUBSET (1..n) |-> IF t = {} THEN a ELSE g[<<h[t \ {Max(t)}], Max(t)>>]]

LEMMA FoldExists ==
  ASSUME NEW D, NEW a \in D, NEW g, g \in [D \X Nat -> D], NEW n \in Nat
  PROVE  \E h : h \in [SUBSET (1..n) -> D] /\ Folds(h, n, a, g)
<1> DEFINE Good(h, m) == h \in [SUBSET (1..m) -> D] /\ Folds(h, m, a, g)
           T == {m \in Nat : \E h : Good(h, m)}
<1>1. 0 \in T
  <2> DEFINE h0 == [t \in SUBSET (1..0) |-> a]
  <2>1. h0 \in [SUBSET (1..0) -> D]
    OBVIOUS
  <2>2. \A t \in SUBSET (1..0) : t = {}
    OBVIOUS
  <2>3. h0 = [t \in SUBSET (1..0) |-> IF t = {} THEN a ELSE g[<<h0[t \ {Max(t)}], Max(t)>>]]
    BY <2>2
  <2> HIDE DEF h0
  <2>4. Good(h0, 0)
    BY <2>1, <2>3 DEF Folds
  <2>5. 0 \in Nat /\ \E h : Good(h, 0)
    BY <2>4
  <2> HIDE DEF Good
  <2> QED BY <2>5
<1>2. ASSUME NEW m \in Nat, m \in T PROVE m + 1 \in T
  <2>1. PICK h : Good(h, m)
    BY <1>2
  <2> DEFINE top == m + 1
             k == [t \in SUBSET (1..top) |->
                     IF top \in t THEN g[<<h[t \ {top}], top>>] ELSE h[t]]
  <2>2. h \in [SUBSET (1..m) -> D] /\ top \in Nat
    BY <2>1
  <2>3. ASSUME NEW t \in SUBSET (1..top), top \in t
        PROVE  /\ t # {} /\ t \ {top} \in SUBSET (1..m)
               /\ Max(t) = top
               /\ k[t] = g[<<h[t \ {top}], top>>] /\ k[t] \in D
               /\ k[t \ {top}] = h[t \ {top}]
    <3>1. t # {} /\ t \ {top} \in SUBSET (1..m) /\ t \ {top} \in SUBSET (1..top)
      BY <2>3
    <3>2. Max(t) \in t /\ \A y \in t : Max(t) >= y
      BY <2>2, <3>1, MaxOfPlaces
    <3>3. Max(t) = top
      <4>1. Max(t) \in 1..top /\ Max(t) >= top
        BY <2>3, <3>2
      <4> QED BY <2>2, <4>1
    <3>4. h[t \ {top}] \in D
      BY <2>2, <3>1
    <3>5. <<h[t \ {top}], top>> \in D \X Nat
      BY <2>2, <3>4
    <3>6. g[<<h[t \ {top}], top>>] \in D
      BY <3>5
    <3>7. k[t \ {top}] = h[t \ {top}]
      BY <3>1
    <3>8. k[t] = g[<<h[t \ {top}], top>>]
      BY <2>3
    <3> QED BY <3>1, <3>3, <3>6, <3>7, <3>8
  <2>4. ASSUME NEW t \in SUBSET (1..top), top \notin t
        PROVE  /\ t \in SUBSET (1..m) /\ k[t] = h[t] /\ h[t] \in D
               /\ t # {} => /\ Max(t) \in t
                            /\ k[t \ {Max(t)}] = h[t \ {Max(t)}]
                            /\ h[t] = g[<<h[t \ {Max(t)}], Max(t)>>]
               /\ t = {} => h[t] = a
    <3>1. t \in SUBSET (1..m)
      BY <2>4
    <3>2. k[t] = h[t] /\ h[t] \in D
      BY <2>2, <2>4, <3>1
    <3>3. h[t] = IF t = {} THEN a ELSE g[<<h[t \ {Max(t)}], Max(t)>>]
      BY <2>1, <3>1 DEF Folds
    <3>4. ASSUME t # {}
          PROVE  Max(t) \in t /\ k[t \ {Max(t)}] = h[t \ {Max(t)}]
      <4>1. Max(t) \in t
        BY <3>1, <3>4, MaxOfPlaces
      <4>2. t \ {Max(t)} \in SUBSET (1..top) /\ top \notin t \ {Max(t)}
        BY <2>4
      <4> QED BY <4>1, <4>2
    <3> QED BY <3>1, <3>2, <3>3, <3>4
  <2>5. DOMAIN k = SUBSET (1..top) /\ k = [t \in DOMAIN k |-> k[t]]
    OBVIOUS
  <2> HIDE DEF k
  <2>6. k \in [SUBSET (1..top) -> D]
    <3>1. \A t \in SUBSET (1..top) : k[t] \in D
      BY <2>3, <2>4
    <3> QED BY <2>5, <3>1
  <2>7. ASSUME NEW t \in SUBSET (1..top)
        PROVE  k[t] = IF t = {} THEN a ELSE g[<<k[t \ {Max(t)}], Max(t)>>]
    <3>1. CASE top \in t
      <4>1. t # {} /\ Max(t) = top /\ k[t] = g[<<k[t \ {top}], top>>]
        BY <2>3, <3>1
      <4> QED BY <4>1
    <3>2. CASE top \notin t
      BY <2>4, <3>2
    <3> QED BY <3>1, <3>2
  <2>8. Folds(k, top, a, g)
    BY <2>5, <2>7 DEF Folds
  <2>9. m + 1 \in Nat /\ \E e : Good(e, m + 1)
    BY <2>6, <2>8
  <2> HIDE DEF Good
  <2> QED BY <2>9
<1> HIDE DEF T
<1>3. Nat \subseteq T
  BY <1>1, <1>2, SetInduction
<1> QED BY <1>3 DEF T

\* h follows g as long as it stays in D.
Follows(h, n, D, g) ==
  \A t \in SUBSET (1..n) :
    t # {} /\ h[t \ {Max(t)}] \in D => h[t] = g[<<h[t \ {Max(t)}], Max(t)>>]

GoesLeft(h, n, D, a, g) ==
  \E f \in [0..n -> D] : /\ f[0] = a
                         /\ \A k \in 1..n : f[k] = g[<<f[k - 1], k>>]
                         /\ h[1..n] = f[n]

\* Such an h, read along the prefixes of the sequence.
LEMMA FoldGoesLeft ==
  ASSUME NEW D, NEW a \in D, NEW g, g \in [D \X Nat -> D], NEW n \in Nat,
         NEW h, h[{}] = a, Follows(h, n, D, g)
  PROVE  GoesLeft(h, n, D, a, g)
<1> DEFINE f == [k \in 0..n |-> h[1..k]]
<1>1. f[0] = a
  <2>1. 1..0 = {} /\ 0 \in 0..n
    OBVIOUS
  <2> QED BY <2>1
<1>2. ASSUME NEW k \in 1..n, f[k - 1] \in D PROVE f[k] = g[<<f[k - 1], k>>]
  <2>1. 1..k \in SUBSET (1..n) /\ 1..k # {} /\ k \in Nat \ {0} /\ k \in 0..n /\ k - 1 \in 0..n
    OBVIOUS
  <2>2. Max(1..k) = k
    BY <2>1, MaxUpTo
  <2>3. (1..k) \ {k} = 1..(k - 1)
    OBVIOUS
  <2>4. f[k] = h[1..k] /\ f[k - 1] = h[1..(k - 1)]
    BY <2>1
  <2> HIDE DEF f
  <2>5. h[(1..k) \ {k}] \in D
    BY <1>2, <2>3, <2>4
  <2>6. h[1..k] = g[<<h[(1..k) \ {k}], k>>]
    BY <2>1, <2>2, <2>5 DEF Follows
  <2> QED BY <2>3, <2>4, <2>6
<1>3. h[1..n] = f[n] /\ DOMAIN f = 0..n /\ f = [k \in 0..n |-> f[k]]
  OBVIOUS
<1> HIDE DEF f
<1>4. \A k \in 0..n : f[k] \in D
  <2> DEFINE T == {k \in 0..n : f[k] \in D}
  <2>1. 0 \in T
    BY <1>1
  <2>2. ASSUME NEW k \in 1..n, k - 1 \in T PROVE k \in T
    <3>1. f[k - 1] \in D /\ k \in Nat /\ k \in 0..n
      BY <2>2
    <3>2. <<f[k - 1], k>> \in D \X Nat
      BY <3>1
    <3>3. g[<<f[k - 1], k>>] \in D
      BY <3>2
    <3> QED BY <1>2, <3>1, <3>3
  <2> HIDE DEF T
  <2>3. 0..n \subseteq T
    BY <2>1, <2>2, BoundedInduction
  <2> QED BY <2>3 DEF T
<1>5. \A k \in 1..n : f[k] = g[<<f[k - 1], k>>]
  <2> SUFFICES ASSUME NEW k \in 1..n PROVE f[k] = g[<<f[k - 1], k>>]
    OBVIOUS
  <2>1. k - 1 \in 0..n
    OBVIOUS
  <2>2. f[k - 1] \in D
    BY <1>4, <2>1
  <2> QED BY <1>2, <2>2
<1>6. f \in [0..n -> D]
  BY <1>3, <1>4
<1> QED BY <1>1, <1>3, <1>5, <1>6 DEF GoesLeft
=============================================================================
