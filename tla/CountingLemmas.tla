---------------------------- MODULE CountingLemmas ----------------------------
(***************************************************************************)
(* What the invariants of several components need of finite sets and       *)
(* sequences: how a count changes with one element, and where a value      *)
(* stands in a queue that is pushed to, appended to and popped from.       *)
(***************************************************************************)
EXTENDS Integers, Sequences, FiniteSets, FiniteSetTheorems, WellFoundedInduction, TLAPS

(* A set of numbers that is not empty has a least element. *)
LEMMA LeastNumber ==
    ASSUME NEW S, S \subseteq Nat, S # {}
    PROVE  \E i \in S : \A k \in S : i <= k
  <1> DEFINE Less == OpToRel(<, Nat)
  <1>1. IsWellFoundedOn(Less, Nat)
    BY NatLessThanWellFounded
  <1>2. \A i, k \in Nat : <<i, k>> \in Less <=> i < k
    BY DEF OpToRel
  <1> HIDE DEF Less
  <1>3. PICK i \in S : \A k \in S : ~ (<<k, i>> \in Less)
    BY <1>1, WFMin
  <1>4. ASSUME NEW k \in S PROVE i <= k
    <2>1. i \in Nat /\ k \in Nat /\ ~ (k < i)
      BY <1>2, <1>3
    <2>2. QED
      BY <2>1
  <1>5. QED
    BY <1>4

(* Among some subsets of a finite set, one has none of the others in it. *)
LEMMA LeastSet ==
    ASSUME NEW S, IsFiniteSet(S), NEW B, B \subseteq SUBSET S, B # {}
    PROVE  \E T \in B : \A U \in B : U \subseteq T => U = T
  <1> DEFINE R == StrictSubsetOrdering(S)
  <1>1. IsWellFoundedOn(R, SUBSET S)
    BY FS_StrictSubsetOrderingWellFounded, FS_FiniteSubsetsOfFinite
  <1>2. \A U, T \in SUBSET S : <<U, T>> \in R <=> U \subseteq T /\ U # T
    BY DEF StrictSubsetOrdering
  <1> HIDE DEF R
  <1>3. PICK T \in B : \A U \in B : ~ (<<U, T>> \in R)
    BY <1>1, WFMin
  <1>4. QED
    BY <1>2, <1>3

(* Two sets that differ at most in x differ in size by x alone. *)
LEMMA CardinalityChange ==
    ASSUME NEW A, NEW B, NEW x, IsFiniteSet(A), A \ {x} = B \ {x}
    PROVE  /\ IsFiniteSet(B)
           /\ Cardinality(B) = Cardinality(A) - (IF x \in A THEN 1 ELSE 0)
                                              + (IF x \in B THEN 1 ELSE 0)
  <1> DEFINE C == A \ {x}
  <1>1. /\ IsFiniteSet(C)
        /\ Cardinality(C) = IF x \in A THEN Cardinality(A) - 1 ELSE Cardinality(A)
    BY FS_RemoveElement
  <1>2. x \notin C /\ C \cup {x} = IF x \in B THEN B ELSE B \cup {x}
    OBVIOUS
  <1>3. IsFiniteSet(C \cup {x}) /\ Cardinality(C \cup {x}) = Cardinality(C) + 1
    BY <1>1, <1>2, FS_AddElement
  <1>4. Cardinality(A) \in Nat /\ Cardinality(C) \in Nat
    BY <1>1, FS_CardinalityType
  <1>5. CASE x \in B
    <2>1. B = C \cup {x}
      BY <1>2, <1>5
    <2>2. QED
      BY <1>1, <1>3, <1>4, <1>5, <2>1
  <1>6. CASE x \notin B
    <2>1. B = C
      BY <1>6
    <2>2. QED
      BY <1>1, <1>4, <1>6, <2>1
  <1>7. QED
    BY <1>5, <1>6

(* Where j stands in q. *)
At(q, j) == {i \in 1..Len(q) : q[i] = j}

(* A value stands at finitely many places of a sequence. *)
LEMMA AtFinite ==
    ASSUME NEW S, NEW q \in Seq(S), NEW j
    PROVE  IsFiniteSet(At(q, j)) /\ Cardinality(At(q, j)) \in Nat
  <1>1. Len(q) \in Int
    OBVIOUS
  <1>2. IsFiniteSet(1..Len(q)) /\ At(q, j) \in SUBSET (1..Len(q))
    BY <1>1, FS_Interval DEF At
  <1>3. QED
    BY <1>2, FS_Subset, FS_CardinalityType

(* Popping the head takes one place from the value that stood there. *)
LEMMA AtTail ==
    ASSUME NEW S, NEW q \in Seq(S), q # <<>>, NEW j
    PROVE  Cardinality(At(Tail(q), j)) =
              Cardinality(At(q, j)) - (IF Head(q) = j THEN 1 ELSE 0)
  <1> DEFINE A == At(Tail(q), j)
             B == At(q, j) \ {1}
             f == [i \in A |-> i + 1]
  <1>1. Tail(q) \in Seq(S) /\ Len(Tail(q)) = Len(q) - 1 /\ Len(q) \in Nat
        /\ \A i \in 1..Len(Tail(q)) : Tail(q)[i] = q[i + 1]
    OBVIOUS
  <1>2. f \in Bijection(A, B)
    <2>1. f \in [A -> B]
      BY <1>1 DEF At
    <2>2. \A k \in B : k - 1 \in A /\ f[k - 1] = k
      BY <1>1 DEF At
    <2>3. \A i, k \in A : f[i] = f[k] => i = k
      BY DEF At
    <2>4. QED
      BY <2>1, <2>2, <2>3 DEF Bijection, Injection, Surjection, IsInjective
  <1>3. IsFiniteSet(A) /\ Cardinality(B) = Cardinality(A)
    <2>1. IsFiniteSet(A)
      BY <1>1, AtFinite
    <2> HIDE DEF A, B, f
    <2>2. ExistsBijection(A, B)
      BY <1>2 DEF ExistsBijection
    <2>3. QED
      BY <2>1, <2>2, FS_Bijection
  <1>4. Cardinality(B) = IF 1 \in At(q, j) THEN Cardinality(At(q, j)) - 1 ELSE Cardinality(At(q, j))
    BY AtFinite, FS_RemoveElement
  <1>5. 1 \in At(q, j) <=> Head(q) = j
    BY DEF At
  <1>6. Cardinality(At(q, j)) \in Nat
    BY AtFinite
  <1>7. QED
    BY <1>3, <1>4, <1>5, <1>6

(* Pushing n copies of k adds n places to k and to no other value. *)
LEMMA AtPush ==
    ASSUME NEW S, NEW q \in Seq(S), NEW k \in S, NEW n \in Nat, NEW j
    PROVE  /\ q \o [i \in 1..n |-> k] \in Seq(S)
           /\ Cardinality(At(q \o [i \in 1..n |-> k], j)) =
                 Cardinality(At(q, j)) + (IF k = j THEN n ELSE 0)
  <1> DEFINE new == [i \in 1..n |-> k]
             both == q \o new
             B == IF k = j THEN (Len(q) + 1)..(Len(q) + n) ELSE {}
  <1>1. new \in Seq(S) /\ Len(new) = n /\ \A i \in 1..n : new[i] = k
    OBVIOUS
  <1>2. Len(q) \in Nat /\ both \in Seq(S) /\ Len(both) = Len(q) + n
        /\ \A i \in 1..(Len(q) + n) : both[i] = IF i <= Len(q) THEN q[i] ELSE new[i - Len(q)]
    BY <1>1
  <1>3. \A i \in 1..(Len(q) + n) : both[i] = IF i <= Len(q) THEN q[i] ELSE k
    BY <1>1, <1>2
  <1> HIDE DEF both, new
  <1>4. At(both, j) = At(q, j) \cup B /\ At(q, j) \cap B = {}
    BY <1>2, <1>3 DEF At
  <1>5. IsFiniteSet(B) /\ Cardinality(B) = IF k = j THEN n ELSE 0
    <2>1. Len(q) + 1 \in Int /\ Len(q) + n \in Int
      BY <1>2
    <2>2. IsFiniteSet((Len(q) + 1)..(Len(q) + n)) /\ Cardinality((Len(q) + 1)..(Len(q) + n)) = n
      BY <1>2, <2>1, FS_Interval
    <2>3. QED
      BY <2>2, FS_EmptySet
  <1> HIDE DEF B
  <1>6. IsFiniteSet(At(q, j)) /\ Cardinality(At(q, j)) \in Nat
    BY AtFinite
  <1>7. Cardinality(At(both, j)) = Cardinality(At(q, j)) + Cardinality(B)
    <2>1. Cardinality(At(q, j) \cup B) =
             Cardinality(At(q, j)) + Cardinality(B) - Cardinality(At(q, j) \cap B)
      BY <1>5, <1>6, FS_Union
    <2>2. Cardinality(At(q, j) \cap B) = 0
      BY <1>4, FS_EmptySet
    <2>3. Cardinality(B) \in Nat
      BY <1>5
    <2>4. QED
      BY <1>4, <1>6, <2>1, <2>2, <2>3
  <1>8. QED
    BY <1>2, <1>5, <1>7 DEF both, new

(* Appending one element is pushing one copy. *)
LEMMA AtAppend ==
    ASSUME NEW S, NEW q \in Seq(S), NEW k \in S, NEW j
    PROVE  Cardinality(At(Append(q, k), j)) = Cardinality(At(q, j)) + (IF k = j THEN 1 ELSE 0)
  <1>1. Append(q, k) = q \o [i \in 1..1 |-> k]
    OBVIOUS
  <1>2. ASSUME NEW n \in Nat
        PROVE  Cardinality(At(q \o [i \in 1..n |-> k], j)) =
                  Cardinality(At(q, j)) + (IF k = j THEN n ELSE 0)
    BY AtPush
  <1> DEFINE count(n) == Cardinality(At(q \o [i \in 1..n |-> k], j))
  <1>3. \A n \in Nat : count(n) = Cardinality(At(q, j)) + (IF k = j THEN n ELSE 0)
    BY <1>2
  <1>4. Cardinality(At(Append(q, k), j)) = count(1)
    BY <1>1
  <1> HIDE DEF count
  <1>5. QED
    BY <1>3, <1>4
=============================================================================
