----------------------------- MODULE SetLemmas -----------------------------
(***************************************************************************)
(* Facts about sets and numbers that the proofs share.  Induction is in    *)
(* the form of an extremal element: a set of numbers has a least one, and  *)
(* a set of subsets of a finite set has a least and a largest one.         *)
(***************************************************************************)
EXTENDS Naturals, TLAPS, FiniteSetTheorems, WellFoundedInduction

LEMMA SmallestSet ==
    ASSUME NEW S, IsFiniteSet(S), NEW F \in SUBSET (SUBSET S), F # {}
    PROVE  \E T \in F : \A U \in F : U \subseteq T => U = T
<1>1. IsWellFoundedOn(StrictSubsetOrdering(S), SUBSET S)
  BY FS_StrictSubsetOrderingWellFounded, FS_FiniteSubsetsOfFinite
<1>2. PICK T \in F : \A U \in F : <<U, T>> \notin StrictSubsetOrdering(S)
  BY <1>1, WFMin
<1>3. QED
  BY <1>2 DEF StrictSubsetOrdering

LEMMA LargestSet ==
    ASSUME NEW S, IsFiniteSet(S), NEW F \in SUBSET (SUBSET S), F # {}
    PROVE  \E T \in F : \A U \in F : T \subseteq U => U = T
<1>1. PICK G : G = {S \ T : T \in F}
  OBVIOUS
<1>2. G \in SUBSET (SUBSET S) /\ G # {}
  <2>1. \A U \in G : U \subseteq S
    BY <1>1
  <2>2. PICK T \in F : TRUE
    OBVIOUS
  <2>3. S \ T \in G
    BY <1>1
  <2>4. QED
    BY <2>1, <2>3
<1>3. PICK M \in G : \A U \in G : U \subseteq M => U = M
  BY <1>2, SmallestSet
<1>4. PICK T \in F : M = S \ T
  BY <1>1, <1>3
<1>5. ASSUME NEW U \in F, T \subseteq U PROVE U = T
  <2>1. S \ U \in G /\ S \ U \subseteq M
    BY <1>1, <1>4, <1>5
  <2>2. S \ U = S \ T
    BY <1>3, <1>4, <2>1
  <2>3. U \subseteq S /\ T \subseteq S
    OBVIOUS
  <2>4. QED
    BY <1>5, <2>2, <2>3
<1>6. QED
  BY <1>4, <1>5

(* The intervals from 0 to its elements have a least one.                  *)
LEMMA SmallestNumber ==
    ASSUME NEW A \in SUBSET Nat, A # {}
    PROVE  \E m \in A : \A j \in A : m <= j
<1>1. PICK n \in A : TRUE
  OBVIOUS
<1>2. PICK S : S = 0..n
  OBVIOUS
<1>3. PICK F : F = {0..j : j \in {i \in A : i <= n}}
  OBVIOUS
<1>4. IsFiniteSet(S)
  BY <1>2, FS_Interval
<1>5. F \in SUBSET (SUBSET S) /\ F # {}
  BY <1>1, <1>2, <1>3
<1>6. PICK T \in F : \A U \in F : U \subseteq T => U = T
  BY <1>4, <1>5, SmallestSet
<1>7. PICK m \in A : m <= n /\ T = 0..m
  BY <1>3
<1>8. ASSUME NEW j \in A, j < m PROVE FALSE
  <2>1. 0..j \in F /\ 0..j \subseteq T
    BY <1>3, <1>7, <1>8
  <2>2. 0..j = 0..m
    BY <1>6, <1>7, <2>1
  <2>3. m \in 0..m /\ m \notin 0..j
    BY <1>8
  <2>4. QED
    BY <2>2, <2>3
<1>9. QED
  BY <1>7, <1>8

LEMMA Induction ==
    ASSUME NEW A \in SUBSET Nat, 0 \in A, \A n \in A : n + 1 \in A
    PROVE  A = Nat
<1>1. SUFFICES ASSUME Nat \ A # {} PROVE FALSE
  OBVIOUS
<1>2. PICK m \in Nat \ A : \A k \in Nat \ A : m <= k
  BY <1>1, SmallestNumber
<1>3. m - 1 \in A
  BY <1>2
<1>4. QED
  BY <1>2, <1>3

LEMMA ImageFinite ==
    ASSUME NEW S, IsFiniteSet(S), NEW f, f \in [S -> {f[x] : x \in S}]
    PROVE  IsFiniteSet({f[x] : x \in S}) /\ Cardinality({f[x] : x \in S}) <= Cardinality(S)
<1>1. f \in Surjection(S, {f[x] : x \in S})
  BY DEF Surjection
<1>2. QED
  BY <1>1, FS_Surjection
-----------------------------------------------------------------------------
(***************************************************************************)
(* Closing a set under a step that only adds, as often as it adds: the     *)
(* recursion of InferredUses and of Chains.  What it comes to is the least *)
(* closed set, which needs an induction over the finite subsets of D: a    *)
(* set on which two solutions differ, and which as few as possible of the  *)
(* elements of D are outside of, cannot be.                                *)
(***************************************************************************)
Adding(D, step) ==
    /\ step \in [SUBSET D -> SUBSET D]
    /\ \A U \in SUBSET D : U \subseteq step[U]
    /\ \A U, V \in SUBSET D : U \subseteq V => step[U] \subseteq step[V]
Least(D, step, U) ==
    {p \in D : \A V \in SUBSET D : U \subseteq V /\ step[V] = V => p \in V}
Iterates(D, step, f) ==
    f = [U \in SUBSET D |-> IF step[U] = U THEN U ELSE f[step[U]]]

LEMMA LeastIsClosed ==
    ASSUME NEW D, NEW step, Adding(D, step), NEW U \in SUBSET D
    PROVE  /\ Least(D, step, U) \in SUBSET D
           /\ U \subseteq Least(D, step, U)
           /\ step[Least(D, step, U)] = Least(D, step, U)
           /\ \A V \in SUBSET D : U \subseteq V /\ step[V] = V => Least(D, step, U) \subseteq V
<1>1. PICK L : L = Least(D, step, U)
  OBVIOUS
<1>2. L \in SUBSET D /\ U \subseteq L
  BY <1>1 DEF Least
<1>3. \A V \in SUBSET D : U \subseteq V /\ step[V] = V => L \subseteq V
  BY <1>1 DEF Least
<1>4. \A V \in SUBSET D : U \subseteq V /\ step[V] = V => step[L] \subseteq V
  BY <1>2, <1>3 DEF Adding
<1>5. step[L] \subseteq L
  <2>1. step[L] \subseteq D
    BY <1>2 DEF Adding
  <2>2. QED
    BY <1>1, <1>4, <2>1 DEF Least
<1>6. L \subseteq step[L]
  BY <1>2 DEF Adding
<1>7. QED
  BY <1>1, <1>2, <1>3, <1>5, <1>6

LEMMA LeastIterates ==
    ASSUME NEW D, NEW step, Adding(D, step)
    PROVE  Iterates(D, step, [U \in SUBSET D |-> Least(D, step, U)])
<1>1. PICK f : f = [U \in SUBSET D |-> Least(D, step, U)]
  OBVIOUS
<1>2. ASSUME NEW U \in SUBSET D, step[U] = U
      PROVE  Least(D, step, U) = U
  BY <1>2, LeastIsClosed
<1>3. ASSUME NEW U \in SUBSET D
      PROVE  step[U] \in SUBSET D /\ Least(D, step, U) = Least(D, step, step[U])
  <2>1. step[U] \in SUBSET D /\ U \subseteq step[U]
    BY DEF Adding
  <2>2. \A V \in SUBSET D : step[V] = V => (U \subseteq V <=> step[U] \subseteq V)
    BY <2>1 DEF Adding
  <2>3. QED
    BY <2>1, <2>2 DEF Least
<1>4. \A U \in SUBSET D : f[U] = IF step[U] = U THEN U ELSE f[step[U]]
  BY <1>1, <1>2, <1>3
<1>5. QED
  BY <1>1, <1>4 DEF Iterates

LEMMA IteratesOnce ==
    ASSUME NEW D, IsFiniteSet(D), NEW step, Adding(D, step),
           NEW f, NEW g, Iterates(D, step, f), Iterates(D, step, g)
    PROVE  f = g
<1>1. PICK F : F = {U \in SUBSET D : f[U] # g[U]}
  OBVIOUS
<1>2. CASE F = {}
  <2>1. \A U \in SUBSET D : f[U] = g[U]
    BY <1>1, <1>2
  <2>2. f = [U \in SUBSET D |-> f[U]] /\ g = [U \in SUBSET D |-> g[U]]
    BY DEF Iterates
  <2>3. QED
    BY <2>1, <2>2
<1>3. CASE F # {}
  <2>1. F \in SUBSET (SUBSET D)
    BY <1>1
  <2>2. PICK T \in F : \A U \in F : T \subseteq U => U = T
    BY <1>3, <2>1, LargestSet
  <2>3. T \in SUBSET D /\ f[T] # g[T]
    BY <1>1
  <2>4. step[T] \in SUBSET D /\ T \subseteq step[T]
    BY <2>3 DEF Adding
  <2>5. step[T] # T
    BY <2>3 DEF Iterates
  <2>6. f[step[T]] = g[step[T]]
    BY <1>1, <2>2, <2>4, <2>5
  <2>7. f[T] = f[step[T]] /\ g[T] = g[step[T]]
    BY <2>3, <2>5 DEF Iterates
  <2>8. QED
    BY <2>3, <2>6, <2>7
<1>4. QED
  BY <1>2, <1>3
=============================================================================
