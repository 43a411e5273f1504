----------------------------- MODULE Induction -----------------------------
(***************************************************************************)
(* Induction and recursion over the naturals, for the proofs about walks   *)
(* along rings, page tables and rows.  The induction theorems of the       *)
(* library take an operator; here a property is the set of numbers that    *)
(* have it.  Both rest on the least element of a set of naturals, which    *)
(* the well-founded order of Nat provides.                                 *)
(***************************************************************************)
EXTENDS Naturals, WellFoundedInduction, TLAPS

\* A set of naturals that is not empty has a least element.
LEMMA LeastNatural ==
  ASSUME NEW T \in SUBSET Nat, T # {}
  PROVE  \E x \in T : \A y \in T : x <= y
<1> DEFINE R == OpToRel(<, Nat)
<1>1. IsWellFoundedOn(R, Nat)
  BY NatLessThanWellFounded
<1>2. \A x, y \in Nat : <<y, x>> \in R <=> y < x
  BY DEF OpToRel
<1> HIDE DEF R
<1>3. PICK x \in T : \A y \in T : ~(<<y, x>> \in R)
  BY <1>1, WFMin
<1>4. ASSUME NEW y \in T PROVE x <= y
  <2>1. x \in Nat /\ y \in Nat
    BY <1>3, <1>4
  <2>2. ~(y < x)
    BY <1>2, <1>3, <2>1
  <2> QED
    BY <2>1, <2>2
<1> QED
  BY <1>3, <1>4

\* Induction: what holds of 0 and passes from n to n + 1 holds of every natural.
LEMMA SetInduction ==
  ASSUME NEW S, 0 \in S, \A n \in Nat : n \in S => n + 1 \in S
  PROVE  \A n \in Nat : n \in S
<1> DEFINE T == Nat \ S
<1> SUFFICES ASSUME T # {} PROVE FALSE
  OBVIOUS
<1>1. T \in SUBSET Nat
  OBVIOUS
<1> HIDE DEF T
<1>2. PICK x \in T : \A y \in T : x <= y
  BY <1>1, LeastNatural
<1>3. x \in Nat /\ x # 0 /\ x - 1 \in Nat /\ x - 1 \notin T
  BY <1>1, <1>2 DEF T
<1>4. (x - 1) + 1 = x /\ x - 1 \in S
  BY <1>3 DEF T
<1> QED
  BY <1>2, <1>3, <1>4 DEF T

\* Induction over a set of numbers, from all the smaller ones to the next.
LEMMA InductionBelow ==
  ASSUME NEW D \in SUBSET Nat, NEW S,
         \A x \in D : (\A y \in D : y < x => y \in S) => x \in S
  PROVE  \A x \in D : x \in S
<1> DEFINE T == {x \in D : x \notin S}
<1> SUFFICES ASSUME T # {} PROVE FALSE
  OBVIOUS
<1>1. T \in SUBSET Nat
  OBVIOUS
<1> HIDE DEF T
<1>2. PICK x \in T : \A y \in T : x <= y
  BY <1>1, LeastNatural
<1>3. \A y \in D : y < x => y \in S
  BY <1>1, <1>2 DEF T
<1> QED
  BY <1>2, <1>3 DEF T

\* Recursion: started at x, a sequence whose every element is computed from the
\* one before, at step k by g[k], exists to any length.
Recursive(V, x, g, N) ==
    \E w \in [0 .. N -> V] : w[0] = x /\ \A k \in 1 .. N : w[k] = g[k][w[k - 1]]

LEMMA RecursionExists ==
  ASSUME NEW V, NEW x \in V, NEW N \in Nat, NEW g \in [1 .. N -> [V -> V]]
  PROVE  Recursive(V, x, g, N)
<1> DEFINE Good(m) == Recursive(V, x, g, m)
           S == {m \in Nat : m <= N => Good(m)}
<1>1. 0 \in S
  <2> DEFINE w == [k \in 0 .. 0 |-> x]
  <2>1. w \in [0 .. 0 -> V] /\ w[0] = x /\ \A k \in 1 .. 0 : FALSE
    OBVIOUS
  <2> HIDE DEF w
  <2>2. Good(0)
    BY <2>1 DEF Recursive
  <2> QED
    BY <2>2
<1>2. ASSUME NEW m \in Nat, m \in S PROVE m + 1 \in S
  <2> SUFFICES ASSUME m + 1 <= N PROVE Good(m + 1)
    OBVIOUS
  <2>1. PICK w \in [0 .. m -> V] : w[0] = x /\ \A k \in 1 .. m : w[k] = g[k][w[k - 1]]
    BY <1>2 DEF Recursive
  <2>2. g[m + 1] \in [V -> V] /\ w[m] \in V
    BY <2>1
  <2> DEFINE v == [k \in 0 .. (m + 1) |-> IF k <= m THEN w[k] ELSE g[m + 1][w[m]]]
  <2>3. v \in [0 .. (m + 1) -> V] /\ v[0] = x
    BY <2>1, <2>2
  <2>4. ASSUME NEW k \in 1 .. (m + 1) PROVE v[k] = g[k][v[k - 1]]
    <3>1. CASE k <= m
      BY <2>1, <3>1
    <3>2. CASE k = m + 1
      BY <2>1, <3>2
    <3> QED
      BY <3>1, <3>2
  <2> HIDE DEF v
  <2> QED
    BY <2>3, <2>4 DEF Recursive
<1> HIDE DEF S
<1>3. N \in S
  BY <1>1, <1>2, SetInduction
<1> QED
  BY <1>3 DEF S

\* The same with one function for all steps.
Iterates(V, x, g, N) ==
    \E w \in [0 .. N -> V] : w[0] = x /\ \A k \in 1 .. N : w[k] = g[w[k - 1]]

LEMMA WalkExists ==
  ASSUME NEW V, NEW x \in V, NEW g \in [V -> V], NEW N \in Nat
  PROVE  Iterates(V, x, g, N)
<1> DEFINE h == [k \in 1 .. N |-> g]
<1>1. h \in [1 .. N -> [V -> V]]
  OBVIOUS
<1>2. \A k \in 1 .. N : h[k] = g
  OBVIOUS
<1> HIDE DEF h
<1>3. Recursive(V, x, h, N)
  BY <1>1, RecursionExists
<1> QED
  BY <1>2, <1>3 DEF Recursive, Iterates

\* Recursion on the elements of a set D of numbers below N: if what G[f] is at
\* x depends only on what f is below x, there is a function that G keeps.
Fixpoint(D, V, G) == \E f \in [D -> V] : G[f] = f
Local(D, V, G) ==
    \A f, g \in [D -> V] : \A x \in D :
        (\A y \in D : y < x => f[y] = g[y]) => G[f][x] = G[g][x]

LEMMA FixpointExists ==
  ASSUME NEW N \in Nat, NEW D \in SUBSET (0 .. N), NEW V, NEW e \in V,
         NEW G \in [[D -> V] -> [D -> V]], Local(D, V, G)
  PROVE  Fixpoint(D, V, G)
<1> DEFINE U == [D -> V]
           x0 == [y \in D |-> e]
           M == N + 1
<1>1. x0 \in U /\ G \in [U -> U] /\ M \in Nat
  OBVIOUS
<1>2. PICK w \in [0 .. M -> U] : \A k \in 1 .. M : w[k] = G[w[k - 1]]
  <2> HIDE DEF U, x0, M
  <2>1. Iterates(U, x0, G, M)
    BY <1>1, WalkExists
  <2> QED
    BY <2>1 DEF Iterates
<1> DEFINE Settled(k) == \A y \in D : y < k => G[w[k]][y] = w[k][y]
           S == {k \in Nat : k <= M => Settled(k)}
<1>3. 0 \in S
  OBVIOUS
<1>4. ASSUME NEW k \in Nat, k \in S PROVE k + 1 \in S
  <2> SUFFICES ASSUME k + 1 <= M, NEW y \in D, y < k + 1
               PROVE  G[w[k + 1]][y] = w[k + 1][y]
    OBVIOUS
  <2>1. k \in 0 .. M /\ k + 1 \in 1 .. M /\ (k + 1) - 1 = k
    OBVIOUS
  <2>2. w[k] \in U /\ w[k + 1] \in U /\ w[k + 1] = G[w[k]]
    BY <1>2, <2>1
  <2>3. \A z \in D : z < y => w[k + 1][z] = w[k][z]
    BY <1>4, <2>1, <2>2
  <2>4. PICK f \in [D -> V], g \in [D -> V] : f = w[k + 1] /\ g = w[k]
    BY <2>2
  <2>5. \A z \in D : z < y => f[z] = g[z]
    BY <2>3, <2>4
  <2>6. G[f][y] = G[g][y]
    BY <2>5, Zenon DEF Local
  <2> QED
    BY <2>2, <2>4, <2>6
<1> HIDE DEF S
<1>5. M \in S
  BY <1>1, <1>3, <1>4, SetInduction
<1>6. \A y \in D : G[w[M]][y] = w[M][y]
  BY <1>5 DEF S
<1>7. w[M] \in U /\ G[w[M]] \in U
  BY <1>1, <1>2
<1>8. PICK f \in [D -> V], g \in [D -> V] : f = w[M] /\ g = G[f]
  BY <1>7
<1>9. g = f
  <2>1. \A y \in D : g[y] = f[y]
    BY <1>6, <1>8
  <2>2. f = [y \in D |-> f[y]] /\ g = [y \in D |-> g[y]]
    OBVIOUS
  <2> QED
    BY <2>1, <2>2, Zenon
<1> QED
  BY <1>8, <1>9 DEF Fixpoint
=============================================================================
