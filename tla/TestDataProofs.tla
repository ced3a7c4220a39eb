---------------------------- MODULE TestDataProofs ----------------------------
(***************************************************************************)
(* What TestData says of the binary file and the two databases holds for   *)
(* every input, size of header, byte, word and batch, and number of runs.  *)
(* The invariant of the builder is the BuildInv of CfBin, that of each     *)
(* importer the ImportInv of its module.                                   *)
(*                                                                         *)
(* The models have loops: Written over the lines and ProblemFields over    *)
(* the cases of the binary file, ParseIndex over the entries of its index, *)
(* and the folds Imported over the lines of an input and FlattenSeq over   *)
(* the links of a record.  What they give is proved without induction: a   *)
(* function that satisfies the equation of the recursion is shown to be    *)
(* there, and the least argument at which what is claimed of it fails is a *)
(* contradiction.                                                          *)
(***************************************************************************)
EXTENDS TestData, CountingLemmas, SequenceTheorems

-----------------------------------------------------------------------------
(* Sequences and functions. *)

(* One sequence after another. *)
LEMMA Appended ==
    ASSUME NEW T, NEW q \in Seq(T), NEW u \in Seq(T)
    PROVE  /\ q \o u \in Seq(T) /\ Len(q) \in Nat /\ Len(u) \in Nat
           /\ Len(q \o u) = Len(q) + Len(u) /\ DOMAIN (q \o u) = 1..(Len(q) + Len(u))
           /\ DOMAIN q = 1..Len(q) /\ DOMAIN u = 1..Len(u)
           /\ \A i \in DOMAIN q : i \in DOMAIN (q \o u) /\ (q \o u)[i] = q[i]
           /\ \A j \in DOMAIN u : Len(q) + j \in DOMAIN (q \o u) /\ (q \o u)[Len(q) + j] = u[j]
           /\ \A i \in DOMAIN (q \o u) : i \in DOMAIN q \/ \E j \in DOMAIN u : i = Len(q) + j
  <1>1. /\ Len(q) \in Nat /\ Len(u) \in Nat
        /\ DOMAIN q = 1..Len(q) /\ DOMAIN u = 1..Len(u)
    OBVIOUS
  <1>2. q \o u \in Seq(T) /\ Len(q \o u) = Len(q) + Len(u)
    OBVIOUS
  <1>3. DOMAIN (q \o u) = 1..(Len(q) + Len(u))
    BY <1>2
  <1>4. \A i \in 1..Len(q) : (q \o u)[i] = q[i]
    BY <1>1
  <1>5. \A j \in 1..Len(u) : (q \o u)[Len(q) + j] = u[j]
    BY <1>1
  <1>6. \A i \in 1..Len(q) : i \in 1..(Len(q) + Len(u))
    BY <1>1
  <1>7. \A j \in 1..Len(u) : Len(q) + j \in 1..(Len(q) + Len(u))
    BY <1>1
  <1>8. ASSUME NEW i \in 1..(Len(q) + Len(u))
        PROVE  i \in 1..Len(q) \/ \E j \in 1..Len(u) : i = Len(q) + j
    <2>1. CASE i <= Len(q)
      BY <1>1, <2>1
    <2>2. CASE i > Len(q)
      <3>1. i - Len(q) \in 1..Len(u) /\ i = Len(q) + (i - Len(q))
        BY <1>1, <2>2
      <3>2. QED
        BY <3>1
    <2>3. QED
      BY <1>1, <2>1, <2>2
  <1>9. QED
    BY <1>1, <1>2, <1>3, <1>4, <1>5, <1>6, <1>7, <1>8

(* A function on the first numbers is a sequence. *)
LEMMA FunctionSeq ==
    ASSUME NEW T, NEW n \in Nat, NEW g \in [1..n -> T]
    PROVE  g \in Seq(T) /\ Len(g) = n
  OBVIOUS

(* The recursive function of FlattenSeq is there. *)
LEMMA FlattenExists ==
    ASSUME NEW q, NEW n \in Nat
    PROVE  \E g : g = [i \in 1..n |-> IF i = 1 THEN q[i] ELSE g[i - 1] \o q[i]]
  <1> DEFINE Flattens(g, k) == g = [i \in 1..k |-> IF i = 1 THEN q[i] ELSE g[i - 1] \o q[i]]
             Wrong == {k \in Nat : ~\E g : Flattens(g, k)}
  <1>1. Wrong = {}
    <2> SUFFICES ASSUME Wrong # {} PROVE FALSE
      OBVIOUS
    <2>1. Wrong \subseteq Nat
      OBVIOUS
    <2> HIDE DEF Wrong
    <2>2. PICK k \in Wrong : \A m \in Wrong : k <= m
      BY <2>1, LeastNumber
    <2>3. k \in Nat /\ ~\E g : Flattens(g, k)
      BY <2>2 DEF Wrong
    <2>4. k # 0
      <3>1. Flattens([i \in 1..0 |-> q[i]], 0)
        OBVIOUS
      <3>2. QED
        BY <2>3, <3>1
    <2>5. k - 1 \in Nat /\ k - 1 \notin Wrong
      BY <2>2, <2>3, <2>4
    <2>6. PICK g : Flattens(g, k - 1)
      BY <2>5 DEF Wrong
    <2> DEFINE h == [i \in 1..k |-> IF i < k THEN g[i] ELSE IF i = 1 THEN q[i] ELSE g[i - 1] \o q[i]]
    <2>7. ASSUME NEW i \in 1..k
          PROVE  h[i] = IF i = 1 THEN q[i] ELSE h[i - 1] \o q[i]
      <3>1. i \in Nat /\ k \in Nat /\ 1 <= i /\ i <= k
        BY <2>3
      <3>2. CASE i < k
        <4>1. h[i] = g[i] /\ i \in 1..(k - 1)
          BY <2>3, <3>1, <3>2
        <4>2. g[i] = IF i = 1 THEN q[i] ELSE g[i - 1] \o q[i]
          BY <2>6, <4>1
        <4>3. i # 1 => h[i - 1] = g[i - 1]
          BY <3>1, <3>2
        <4>4. QED
          BY <4>1, <4>2, <4>3
      <3>3. CASE i = k
        <4>1. h[i] = IF i = 1 THEN q[i] ELSE g[i - 1] \o q[i]
          BY <3>1, <3>3
        <4>2. i # 1 => h[i - 1] = g[i - 1]
          BY <3>1, <3>3
        <4>3. QED
          BY <4>1, <4>2
      <3>4. QED
        BY <3>1, <3>2, <3>3
    <2>8. Flattens(h, k)
      BY <2>7
    <2>9. QED
      BY <2>3, <2>8
  <1>2. QED
    BY <1>1

(* The importer flattens as everybody does. *)
LEMMA SameFlatten ==
    ASSUME NEW q
    PROVE  Ioi!FlattenSeq(q) = FlattenSeq(q)
  BY DEF Ioi!FlattenSeq, FlattenSeq

(* What a flattened sequence has: the elements of all its sequences. *)
LEMMA Flattened ==
    ASSUME NEW T, NEW q \in Seq(Seq(T))
    PROVE  /\ FlattenSeq(q) \in Seq(T)
           /\ \A i \in DOMAIN FlattenSeq(q) :
                 \E s \in DOMAIN q : \E j \in DOMAIN q[s] : FlattenSeq(q)[i] = q[s][j]
           /\ \A s \in DOMAIN q : \A j \in DOMAIN q[s] :
                 \E i \in DOMAIN FlattenSeq(q) : FlattenSeq(q)[i] = q[s][j]
  <1> DEFINE n == Len(q)
             F == FlattenSeq(q)
             f == CHOOSE g : g = [i \in 1..n |-> IF i = 1 THEN q[i] ELSE g[i - 1] \o q[i]]
  <1>1. n \in Nat /\ DOMAIN q = 1..n
    OBVIOUS
  <1>2. \A s \in 1..n : q[s] \in Seq(T)
    BY <1>1, ElementOfSeq
  <1>3. CASE n = 0
    <2>1. F = q /\ q = <<>>
      BY <1>3 DEF FlattenSeq
    <2>2. QED
      BY <2>1
  <1>4. CASE n # 0
    <2>1. F = f[n]
      BY <1>4, SMTT(30) DEF FlattenSeq
    <2>2. f = [i \in 1..n |-> IF i = 1 THEN q[i] ELSE f[i - 1] \o q[i]]
      BY <1>1, FlattenExists
    <2> HIDE DEF f, F, n
    <2> DEFINE Has(i) == /\ f[i] \in Seq(T)
                         /\ \A k \in DOMAIN f[i] : \E s \in 1..i : \E j \in DOMAIN q[s] : f[i][k] = q[s][j]
                         /\ \A s \in 1..i : \A j \in DOMAIN q[s] : \E k \in DOMAIN f[i] : f[i][k] = q[s][j]
               Wrong == {i \in 1..n : ~Has(i)}
    <2>3. Has(1)
      <3>1. 1 \in 1..n
        BY <1>1, <1>4
      <3>2. f[1] = q[1]
        BY <2>2, <3>1
      <3>3. \A s \in 1..1 : s = 1
        OBVIOUS
      <3>4. QED
        BY <1>2, <3>1, <3>2, <3>3
    <2>4. ASSUME NEW i \in 2..n, Has(i - 1)
          PROVE  Has(i)
      <3>1. i \in 1..n /\ i - 1 \in 1..n /\ 1..i = 1..(i - 1) \cup {i}
        BY <1>1
      <3>2. f[i] = f[i - 1] \o q[i]
        <4>1. f[i] = IF i = 1 THEN q[i] ELSE f[i - 1] \o q[i]
          BY <2>2, <3>1
        <4>2. i # 1
          BY <1>1
        <4>3. QED
          BY <4>1, <4>2
      <3> DEFINE a == f[i - 1]
                 b == q[i]
      <3>3. a \in Seq(T) /\ b \in Seq(T)
        BY <1>2, <2>4, <3>1
      <3>4. /\ \A k \in DOMAIN a : \E s \in 1..(i - 1) : \E j \in DOMAIN q[s] : a[k] = q[s][j]
            /\ \A s \in 1..(i - 1) : \A j \in DOMAIN q[s] : \E k \in DOMAIN a : a[k] = q[s][j]
        BY <2>4
      <3>5. /\ f[i] = a \o b
            /\ 1..i = 1..(i - 1) \cup {i} /\ b = q[i]
        BY <3>1, <3>2
      <3> HIDE DEF a, b, Has
      <3>6. a \o b \in Seq(T) /\ Len(a) \in Nat
        BY <3>3, Appended
      <3>7. /\ \A k \in DOMAIN a : k \in DOMAIN (a \o b) /\ (a \o b)[k] = a[k]
            /\ \A j \in DOMAIN b : Len(a) + j \in DOMAIN (a \o b) /\ (a \o b)[Len(a) + j] = b[j]
            /\ \A k \in DOMAIN (a \o b) : k \in DOMAIN a \/ \E j \in DOMAIN b : k = Len(a) + j
        BY <3>3, Appended
      <3> DEFINE c == a \o b
      <3>8. ASSUME NEW k \in DOMAIN c
            PROVE  \E s \in 1..i : \E j \in DOMAIN q[s] : c[k] = q[s][j]
        <4>1. CASE k \in DOMAIN a
          BY <3>4, <3>5, <3>7, <4>1
        <4>2. CASE \E j \in DOMAIN b : k = Len(a) + j
          <5>1. PICK j \in DOMAIN b : k = Len(a) + j
            BY <4>2
          <5>2. c[k] = q[i][j] /\ j \in DOMAIN q[i] /\ i \in 1..i
            BY <3>5, <3>7, <5>1
          <5>3. QED
            BY <5>2
        <4>3. QED
          BY <3>7, <4>1, <4>2
      <3>9. ASSUME NEW s \in 1..i, NEW j \in DOMAIN q[s]
            PROVE  \E k \in DOMAIN c : c[k] = q[s][j]
        <4>1. CASE s \in 1..(i - 1)
          <5>1. PICK k \in DOMAIN a : a[k] = q[s][j]
            BY <3>4, <4>1
          <5>2. QED
            BY <3>7, <5>1
        <4>2. CASE s = i
          <5>1. j \in DOMAIN b /\ b[j] = q[s][j]
            BY <3>5, <4>2
          <5>2. QED
            BY <3>7, <5>1
        <4>3. QED
          BY <3>5, <4>1, <4>2
      <3>10. f[i] = c
        BY <3>5
      <3> HIDE DEF c
      <3>11. c \in Seq(T)
        BY <3>6 DEF c
      <3>12. QED
        BY <3>8, <3>9, <3>10, <3>11 DEF Has
    <2> HIDE DEF Has
    <2>5. Wrong = {}
      <3> SUFFICES ASSUME Wrong # {} PROVE FALSE
        OBVIOUS
      <3>1. Wrong \subseteq Nat
        OBVIOUS
      <3> HIDE DEF Wrong
      <3>2. PICK i \in Wrong : \A k \in Wrong : i <= k
        BY <3>1, LeastNumber
      <3>3. i \in 1..n /\ ~Has(i)
        BY <3>2 DEF Wrong
      <3>4. i # 1
        BY <2>3, <3>3
      <3>5. i \in 2..n /\ i - 1 \in 1..n /\ ~(i <= i - 1)
        BY <1>1, <3>3, <3>4
      <3>6. i - 1 \notin Wrong
        BY <3>2, <3>5
      <3>7. Has(i - 1)
        BY <3>5, <3>6 DEF Wrong
      <3>8. QED
        BY <2>4, <3>3, <3>5, <3>7
    <2>6. Has(n)
      <3>1. n \in 1..n
        BY <1>1, <1>4
      <3>2. QED
        BY <2>5, <3>1
    <2>7. /\ f[n] \in Seq(T)
          /\ \A k \in DOMAIN f[n] : \E s \in DOMAIN q : \E j \in DOMAIN q[s] : f[n][k] = q[s][j]
          /\ \A s \in DOMAIN q : \A j \in DOMAIN q[s] : \E k \in DOMAIN f[n] : f[n][k] = q[s][j]
      BY <1>1, <2>6 DEF Has
    <2>8. F = f[n]
      BY <2>1
    <2> HIDE DEF Has
    <2>9. QED
      BY <2>7, <2>8 DEF F
  <1>5. QED
    BY <1>3, <1>4

(* The importer counts as everybody does. *)
LEMMA SameCardinality ==
    ASSUME NEW S
    PROVE  Ioi!Cardinality(S) = Cardinality(S)
  BY DEF Ioi!Cardinality, Cardinality

(* Each way to put a finite set in a row has every element, at one place. *)
LEMMA NamesOnce ==
    ASSUME NEW S, IsFiniteSet(S), NEW names \in Ioi!SetToSeqs(S)
    PROVE  /\ Cardinality(S) \in Nat /\ names \in [1..Cardinality(S) -> S]
           /\ \A i, j \in DOMAIN names : names[i] = names[j] => i = j
           /\ \A x \in S : \E i \in DOMAIN names : names[i] = x
  <1> DEFINE n == Cardinality(S)
             D == 1..n
  <1>1. n \in Nat
    BY FS_CardinalityType
  <1>2. names \in [D -> S] /\ \A i, j \in D : i # j => names[i] # names[j]
    BY SameCardinality DEF Ioi!SetToSeqs
  <1> HIDE DEF n
  <1>3. IsFiniteSet(D) /\ Cardinality(D) = n
    BY <1>1, FS_Interval
  <1> HIDE DEF D
  <1>4. names \in Injection(D, S)
    BY <1>2 DEF Injection, IsInjective
  <1>5. names \in Surjection(D, S)
    BY <1>3, <1>4, FS_Injection DEF n
  <1>6. \A x \in S : \E i \in D : names[i] = x
    BY <1>5 DEF Surjection
  <1>7. QED
    BY <1>1, <1>2, <1>6 DEF n, D

(* There is one. *)
LEMMA SomeNames ==
    ASSUME NEW S, IsFiniteSet(S)
    PROVE  Ioi!SetToSeqs(S) # {}
  <1>1. PICK f : f \in Bijection(1..Cardinality(S), S)
    BY FS_CardinalityType DEF ExistsBijection
  <1>2. f \in Ioi!SetToSeqs(S)
    BY <1>1, SameCardinality DEF Ioi!SetToSeqs, Bijection, Injection, IsInjective
  <1>3. QED
    BY <1>2

(* Numbers up to a bound have a greatest one. *)
LEMMA GreatestNumber ==
    ASSUME NEW n \in Nat, NEW S, S \subseteq 1..n, S # {}
    PROVE  Max(S) \in S /\ \A i \in S : i <= Max(S)
  <1> DEFINE D == {n - i : i \in S}
  <1>1. D \subseteq Nat /\ D # {}
    OBVIOUS
  <1>2. PICK d \in D : \A e \in D : d <= e
    BY <1>1, LeastNumber
  <1>3. PICK m \in S : d = n - m
    BY <1>2
  <1>4. \A i \in S : n - i \in D
    OBVIOUS
  <1>5. \A i \in S : i <= m
    BY <1>2, <1>3, <1>4
  <1>6. \E x \in S : \A y \in S : x >= y
    BY <1>5
  <1>7. QED
    BY <1>6 DEF Max

-----------------------------------------------------------------------------
(* What an input says of a problem. *)
Step(c, l) == IF Cf!Usable(l) THEN Cf!Put(c, Cf!Key(l), Cf!Stored(l)) ELSE c

(* The lines at the places s that are of problem k. *)
LinesOf(fs, s, k) == {i \in s : Cf!Usable(fs[i]) /\ Cf!Key(fs[i]) = k}
KeysOf(fs, s) == {Cf!Key(fs[i]) : i \in {i \in s : Cf!Usable(fs[i])}}

(* The problems with the last line of each over them. *)
Over(fs, before, s) ==
    [k \in DOMAIN before \cup KeysOf(fs, s) |->
       IF LinesOf(fs, s, k) = {} THEN before[k] ELSE Cf!Stored(fs[Max(LinesOf(fs, s, k))])]

(* One more line. *)
LEMMA OverStep ==
    ASSUME NEW fs, Len(fs) \in Nat, NEW before, NEW s \in SUBSET (1..Len(fs)), s # {}
    PROVE  Over(fs, before, s) = Step(Over(fs, before, s \ {Max(s)}), fs[Max(s)])
  <1> DEFINE m == Max(s)
             u == s \ {m}
             key == Cf!Key(fs[m])
  <1>1. m \in s /\ \A i \in s : i <= m
    BY GreatestNumber
  <1>2. CASE ~Cf!Usable(fs[m])
    <2>1. KeysOf(fs, s) = KeysOf(fs, u) /\ \A k : LinesOf(fs, s, k) = LinesOf(fs, u, k)
      BY <1>1, <1>2 DEF KeysOf, LinesOf
    <2>2. Over(fs, before, s) = Over(fs, before, u)
      <3> HIDE DEF u
      <3>1. QED
        BY <2>1 DEF Over
    <2>3. QED
      BY <1>2, <2>2 DEF Step
  <1>3. CASE Cf!Usable(fs[m])
    <2>1. KeysOf(fs, s) = KeysOf(fs, u) \cup {key}
      BY <1>1, <1>3 DEF KeysOf
    <2>2. \A k : k # key => LinesOf(fs, s, k) = LinesOf(fs, u, k)
      BY DEF LinesOf
    <2>3. LinesOf(fs, s, key) # {} /\ Max(LinesOf(fs, s, key)) = m
      <3> DEFINE L == LinesOf(fs, s, key)
      <3>1. m \in L /\ L \subseteq s
        BY <1>1, <1>3 DEF LinesOf
      <3>2. Max(L) \in L /\ \A i \in L : i <= Max(L)
        BY <3>1, GreatestNumber
      <3> HIDE DEF L, m
      <3>3. Max(L) \in s /\ Max(L) <= m /\ m <= Max(L)
        BY <1>1, <3>1, <3>2
      <3>4. Max(L) \in Nat /\ m \in Nat
        <4>1. s \subseteq Nat
          OBVIOUS
        <4>2. QED
          BY <1>1, <3>3, <4>1
      <3>5. QED
        BY <3>1, <3>3, <3>4 DEF L, m
    <2> HIDE DEF m, u
    <2>4. Step(Over(fs, before, u), fs[m]) =
             [k \in DOMAIN before \cup KeysOf(fs, u) \cup {key} |->
                IF k = key THEN Cf!Stored(fs[m]) ELSE Over(fs, before, u)[k]]
      BY <1>3 DEF Step, Cf!Put, Over
    <2> HIDE DEF key
    <2>5. ASSUME NEW k \in DOMAIN before \cup KeysOf(fs, u) \cup {key}
          PROVE  (IF LinesOf(fs, s, k) = {} THEN before[k] ELSE Cf!Stored(fs[Max(LinesOf(fs, s, k))]))
                   = IF k = key THEN Cf!Stored(fs[m]) ELSE Over(fs, before, u)[k]
      <3>1. CASE k = key
        BY <2>3, <3>1
      <3>2. CASE k # key
        BY <2>2, <2>5, <3>2 DEF Over
      <3>3. QED
        BY <3>1, <3>2
    <2>6. Over(fs, before, s) = Step(Over(fs, before, u), fs[m])
      BY <2>1, <2>4, <2>5 DEF Over
    <2>7. QED
      BY <2>6 DEF m, u
  <1>4. QED
    BY <1>2, <1>3

(* No line changes nothing. *)
LEMMA OverNothing ==
    ASSUME NEW fs, NEW before, before = [k \in DOMAIN before |-> before[k]]
    PROVE  Over(fs, before, {}) = before
  <1>1. KeysOf(fs, {}) = {} /\ \A k : LinesOf(fs, {}, k) = {}
    BY DEF KeysOf, LinesOf
  <1>2. QED
    BY <1>1 DEF Over

(* The fold over the lines gives the last line of each problem. *)
LEMMA ImportedIs ==
    ASSUME NEW fs, Len(fs) \in Nat, DOMAIN fs = 1..Len(fs),
           NEW before, before = [k \in DOMAIN before |-> before[k]]
    PROVE  Cf!Imported(fs, before) = Over(fs, before, DOMAIN fs)
  <1> DEFINE S == DOMAIN fs
             Folds(g) == [s \in SUBSET S |->
                            IF s = {} THEN before ELSE Step(g[s \ {Max(s)}], fs[Max(s)])]
             over == [s \in SUBSET S |-> Over(fs, before, s)]
             iter == CHOOSE g : g = Folds(g)
  <1>1. Cf!Imported(fs, before) = iter[S]
    BY DEF Cf!Imported, Cf!FoldLeft, Cf!MapThenFoldSet, Step, Cf!Max, Max
  <1>2. ASSUME NEW s \in SUBSET S
        PROVE  over[s] = IF s = {} THEN before ELSE Step(over[s \ {Max(s)}], fs[Max(s)])
    <2>1. CASE s = {}
      BY <2>1, OverNothing
    <2>2. CASE s # {}
      <3>1. Over(fs, before, s) = Step(Over(fs, before, s \ {Max(s)}), fs[Max(s)])
        BY <2>2, OverStep
      <3>2. s \ {Max(s)} \in SUBSET S
        OBVIOUS
      <3>3. QED
        BY <2>2, <3>1, <3>2
    <2>3. QED
      BY <2>1, <2>2
  <1> HIDE DEF Step
  <1>3. iter = Folds(iter)
    <2>1. over = Folds(over)
      BY <1>2
    <2>2. QED
      BY <2>1
  <1> HIDE DEF iter, over
  <1>4. \A s \in SUBSET S : iter[s] = IF s = {} THEN before ELSE Step(iter[s \ {Max(s)}], fs[Max(s)])
    BY <1>3
  <1> DEFINE Wrong == {s \in SUBSET S : iter[s] # over[s]}
  <1>5. Wrong = {}
    <2> SUFFICES ASSUME Wrong # {} PROVE FALSE
      OBVIOUS
    <2>1. IsFiniteSet(S) /\ Wrong \subseteq SUBSET S
      <3>1. IsFiniteSet(1..Len(fs))
        BY FS_Interval
      <3>2. QED
        BY <3>1
    <2> HIDE DEF Wrong
    <2>2. PICK s \in Wrong : \A u \in Wrong : u \subseteq s => u = s
      BY <2>1, LeastSet
    <2> DEFINE x == Max(s)
    <2>3. s \in SUBSET S /\ iter[s] # over[s]
      BY <2>2 DEF Wrong
    <2>4. s # {} /\ iter[s] = Step(iter[s \ {x}], fs[x]) /\ over[s] = Step(over[s \ {x}], fs[x])
      BY <1>2, <1>4, <2>3
    <2>5. x \in s /\ s \ {x} \in SUBSET S
      BY <2>3, <2>4, GreatestNumber
    <2> HIDE DEF x
    <2>6. iter[s \ {x}] = over[s \ {x}]
      BY <2>2, <2>5 DEF Wrong
    <2>7. QED
      BY <2>3, <2>4, <2>6
  <1>6. QED
    BY <1>1, <1>5 DEF over

(* The lines of an input. *)
LEMMA CfFileSeq ==
    ASSUME NEW f \in CfFiles
    PROVE  /\ f \in Seq(CfLine) /\ Len(f) \in Nat /\ DOMAIN f = 1..Len(f)
           /\ \A i \in DOMAIN f : f[i] \in CfLine /\ f[i] \in Cf!InputLines
  <1>1. f \in Seq(CfLine)
    BY ImportAssumption
  <1>2. Len(f) \in Nat /\ DOMAIN f = 1..Len(f)
    BY <1>1
  <1>3. \A i \in DOMAIN f : f[i] \in CfLine
    BY <1>1, <1>2, ElementOfSeq
  <1>4. \A i \in DOMAIN f : f[i] \in Cf!InputLines
    BY DEF Cf!InputLines, Cf!ToSet
  <1>5. QED
    BY <1>1, <1>2, <1>3, <1>4

(* The first lines of an input. *)
LEMMA FirstLines ==
    ASSUME NEW T, NEW f \in Seq(T), NEW n \in 0..Len(f)
    PROVE  /\ Len(SubSeq(f, 1, n)) = n /\ DOMAIN SubSeq(f, 1, n) = 1..n
           /\ \A i \in 1..n : SubSeq(f, 1, n)[i] = f[i]
  OBVIOUS

(* What is imported grows line by line. *)
LEMMA ImportedStep ==
    ASSUME NEW T, NEW f \in Seq(T), NEW n \in 1..Len(f),
           NEW before, before = [k \in DOMAIN before |-> before[k]]
    PROVE  Cf!Imported(SubSeq(f, 1, n), before) = Step(Cf!Imported(SubSeq(f, 1, n - 1), before), f[n])
  <1> DEFINE g == SubSeq(f, 1, n)
             h == SubSeq(f, 1, n - 1)
  <1>1. n \in 0..Len(f) /\ n - 1 \in 0..Len(f) /\ n \in Nat /\ n - 1 \in Nat
    OBVIOUS
  <1>2. /\ Len(g) = n /\ DOMAIN g = 1..n /\ \A i \in 1..n : g[i] = f[i]
        /\ Len(h) = n - 1 /\ DOMAIN h = 1..(n - 1) /\ \A i \in 1..(n - 1) : h[i] = f[i]
    BY <1>1, FirstLines
  <1> HIDE DEF g, h
  <1>3. Cf!Imported(g, before) = Over(g, before, 1..n)
    BY <1>1, <1>2, ImportedIs
  <1>4. Cf!Imported(h, before) = Over(h, before, 1..(n - 1))
    BY <1>1, <1>2, ImportedIs
  <1>5. Max(1..n) = n
    <2> DEFINE S == 1..n
    <2>1. S \subseteq 1..n /\ n \in S
      BY <1>1
    <2> HIDE DEF S
    <2>2. Max(S) \in S /\ \A i \in S : i <= Max(S)
      BY <1>1, <2>1, GreatestNumber
    <2>3. Max(S) \in 1..n /\ n <= Max(S)
      BY <2>1, <2>2 DEF S
    <2>4. QED
      BY <2>3 DEF S
  <1>6. Over(g, before, 1..n) = Step(Over(g, before, (1..n) \ {n}), g[n])
    BY <1>1, <1>2, <1>5, OverStep
  <1>7. (1..n) \ {n} = 1..(n - 1)
    BY <1>1
  <1>8. Over(g, before, 1..(n - 1)) = Over(h, before, 1..(n - 1))
    <2>1. \A i \in 1..(n - 1) : g[i] = h[i]
      BY <1>1, <1>2
    <2>2. KeysOf(g, 1..(n - 1)) = KeysOf(h, 1..(n - 1))
      BY <2>1 DEF KeysOf
    <2>3. ASSUME NEW k
          PROVE  /\ LinesOf(g, 1..(n - 1), k) = LinesOf(h, 1..(n - 1), k)
                 /\ LinesOf(h, 1..(n - 1), k) # {}
                    => Max(LinesOf(h, 1..(n - 1), k)) \in 1..(n - 1)
      <3>1. LinesOf(g, 1..(n - 1), k) = LinesOf(h, 1..(n - 1), k)
        BY <2>1 DEF LinesOf
      <3>2. LinesOf(h, 1..(n - 1), k) \subseteq 1..(n - 1)
        BY DEF LinesOf
      <3>3. LinesOf(h, 1..(n - 1), k) # {}
               => Max(LinesOf(h, 1..(n - 1), k)) \in LinesOf(h, 1..(n - 1), k)
        BY <1>1, <3>2, GreatestNumber
      <3>4. QED
        BY <3>1, <3>2, <3>3
    <2>4. QED
      BY <2>1, <2>2, <2>3 DEF Over
  <1>9. g[n] = f[n]
    BY <1>1, <1>2
  <1>10. QED
    BY <1>3, <1>4, <1>6, <1>7, <1>8, <1>9 DEF g, h

(* Before the first line nothing is. *)
LEMMA ImportedNothing ==
    ASSUME NEW T, NEW f \in Seq(T), NEW before, before = [k \in DOMAIN before |-> before[k]]
    PROVE  Cf!Imported(SubSeq(f, 1, 0), before) = before
  <1> DEFINE g == SubSeq(f, 1, 0)
  <1>1. Len(g) = 0 /\ DOMAIN g = 1..0
    BY FirstLines
  <1> HIDE DEF g
  <1>2. Cf!Imported(g, before) = Over(g, before, {})
    BY <1>1, ImportedIs
  <1>3. QED
    BY <1>2, OverNothing DEF g

-----------------------------------------------------------------------------
(* The rows of the Codeforces database. *)

(* A line that goes in puts its problem over an older one, and touches no  *)
(* other problem.                                                          *)
LEMMA WithLineContents ==
    ASSUME Cf!RowsWhole(tx), NEW l, ~Cf!Collides(l)
    PROVE  Cf!Contents(Cf!WithLine(l)) = Cf!Put(Cf!Contents(tx), Cf!Key(l), Cf!Stored(l))
  <1> DEFINE key == Cf!Key(l)
             id == ProblemId(l.contest, l.index)
             row == [id |-> id, title |-> Cf!Stored(l).title]
             t == Cf!WithLine(l)
  <1>1. t.problems = Cf!Put(tx.problems, key, row) /\ t.cases = Cf!Put(tx.cases, id, Cf!Stored(l).cases)
    BY DEF Cf!WithLine
  <1>2. Cf!Stored(l) = [title |-> Cf!Stored(l).title, cases |-> Cf!Stored(l).cases]
    BY DEF Cf!Stored
  <1>3. \A k \in DOMAIN tx.problems : k # key => tx.problems[k].id # id
    BY DEF Cf!Collides
  <1> HIDE DEF key, id, t
  <1>4. /\ DOMAIN t.problems = DOMAIN tx.problems \cup {key}
        /\ t.problems[key].id = id /\ t.problems[key].title = Cf!Stored(l).title
        /\ \A k \in DOMAIN tx.problems : k # key => t.problems[k] = tx.problems[k]
    BY <1>1 DEF Cf!Put
  <1>5. Cf!CasesOf(t, id) = Cf!Stored(l).cases
    BY <1>1 DEF Cf!CasesOf, Cf!Put
  <1>6. \A i : i # id => Cf!CasesOf(t, i) = Cf!CasesOf(tx, i)
    BY <1>1 DEF Cf!CasesOf, Cf!Put
  <1>7. \A k \in DOMAIN tx.problems \cup {key} :
           [title |-> t.problems[k].title, cases |-> Cf!CasesOf(t, t.problems[k].id)]
              = IF k = key THEN Cf!Stored(l)
                ELSE [title |-> tx.problems[k].title, cases |-> Cf!CasesOf(tx, tx.problems[k].id)]
    <2> TAKE k \in DOMAIN tx.problems \cup {key}
    <2>1. CASE k = key
      BY <1>2, <1>4, <1>5, <2>1
    <2>2. CASE k # key
      BY <1>3, <1>4, <1>6, <2>2
    <2>3. QED
      BY <2>1, <2>2
  <1>8. QED
    BY <1>4, <1>7 DEF Cf!Contents, Cf!Put, t, key

(* It leaves the rows whole. *)
LEMMA WithLineWhole ==
    ASSUME Cf!RowsWhole(tx), NEW l \in Cf!InputLines, Cf!Usable(l), ~Cf!Collides(l)
    PROVE  Cf!RowsWhole(Cf!WithLine(l))
  <1> DEFINE key == Cf!Key(l)
             id == ProblemId(l.contest, l.index)
             t == Cf!WithLine(l)
  <1>1. /\ t = [problems |-> t.problems, cases |-> t.cases]
        /\ DOMAIN t.problems = DOMAIN tx.problems \cup {key}
        /\ t.problems[key].id = id
        /\ \A k \in DOMAIN tx.problems : k # key => t.problems[k] = tx.problems[k]
    BY DEF Cf!WithLine, Cf!Put
  <1>2. Cf!Contents(t) = Cf!Put(Cf!Contents(tx), key, Cf!Stored(l))
    BY WithLineContents
  <1>3. key[1] = l.contest /\ key[2] = l.index
    BY DEF Cf!Key
  <1>4. \A k \in DOMAIN tx.problems : k # key => tx.problems[k].id # id
    BY DEF Cf!Collides
  <1>5. DOMAIN Cf!Contents(tx) = DOMAIN tx.problems
    BY DEF Cf!Contents
  <1> HIDE DEF key, id, t
  <1>6. ASSUME NEW k \in DOMAIN t.problems
        PROVE  /\ t.problems[k].id = ProblemId(k[1], k[2])
               /\ \A m \in DOMAIN t.problems : t.problems[k].id = t.problems[m].id => k = m
               /\ \E x \in Cf!InputLines :
                     Cf!Usable(x) /\ Cf!Key(x) = k /\ Cf!Contents(t)[k] = Cf!Stored(x)
    <2>1. CASE k = key
      <3>1. t.problems[k].id = ProblemId(k[1], k[2])
        BY <1>1, <1>3, <2>1 DEF id
      <3>2. \A m \in DOMAIN t.problems : t.problems[k].id = t.problems[m].id => k = m
        BY <1>1, <1>4, <2>1
      <3>3. Cf!Contents(t)[k] = Cf!Stored(l)
        BY <1>2, <2>1 DEF Cf!Put
      <3>4. QED
        BY <2>1, <3>1, <3>2, <3>3 DEF key
    <2>2. CASE k # key
      <3>1. k \in DOMAIN tx.problems /\ t.problems[k] = tx.problems[k]
        BY <1>1, <2>2
      <3>2. t.problems[k].id = ProblemId(k[1], k[2])
        BY <3>1 DEF Cf!RowsWhole
      <3>3. \A m \in DOMAIN t.problems : t.problems[k].id = t.problems[m].id => k = m
        BY <1>1, <1>4, <2>2, <3>1 DEF Cf!RowsWhole
      <3>4. Cf!Contents(t)[k] = Cf!Contents(tx)[k]
        BY <1>2, <1>5, <2>2, <3>1 DEF Cf!Put
      <3>5. PICK x \in Cf!InputLines :
               Cf!Usable(x) /\ Cf!Key(x) = k /\ Cf!Contents(tx)[k] = Cf!Stored(x)
        BY <3>1 DEF Cf!RowsWhole
      <3>6. QED
        BY <3>2, <3>3, <3>4, <3>5
    <2>3. QED
      BY <2>1, <2>2
  <1>7. QED
    BY <1>1, <1>6 DEF Cf!RowsWhole, t

(* Its cases are those of its problem. *)
LEMMA WithLineNoOrphans ==
    ASSUME Cf!RowsWhole(tx), Cf!NoOrphans(tx), NEW l, ~Cf!Collides(l)
    PROVE  Cf!NoOrphans(Cf!WithLine(l))
  <1> DEFINE key == Cf!Key(l)
             id == ProblemId(l.contest, l.index)
             t == Cf!WithLine(l)
  <1>1. /\ DOMAIN t.problems = DOMAIN tx.problems \cup {key} /\ DOMAIN t.cases = DOMAIN tx.cases \cup {id}
        /\ t.problems[key].id = id
        /\ \A k \in DOMAIN tx.problems : k # key => t.problems[k] = tx.problems[k]
    BY DEF Cf!WithLine, Cf!Put
  <1>2. key \in DOMAIN tx.problems => tx.problems[key].id = id
    BY DEF Cf!RowsWhole, Cf!Key
  <1> HIDE DEF key, id, t
  <1>3. {t.problems[k].id : k \in DOMAIN t.problems} = {tx.problems[k].id : k \in DOMAIN tx.problems} \cup {id}
    BY <1>1, <1>2
  <1>4. QED
    BY <1>1, <1>3 DEF Cf!NoOrphans, t

-----------------------------------------------------------------------------
(* The steps of the Codeforces importer. *)

(* The invariant bounds where a run is. *)
LEMMA CfTypes ==
    ASSUME Cf!ImportInv
    PROVE  /\ Len(lines) \in Nat /\ at \in Nat /\ 1 <= at /\ at <= Len(lines) + 2
           /\ cnt \in Nat /\ cnt < BatchSize /\ BatchSize \in Nat
           /\ lines # <<>> => lines \in CfFiles
  <1>1. Len(lines) \in Nat
    <2>1. CASE lines \in CfFiles
      BY <2>1, CfFileSeq
    <2>2. CASE lines = <<>>
      BY <2>2
    <2>3. QED
      BY <2>1, <2>2 DEF Cf!ImportInv
  <1>2. QED
    BY <1>1, ImportAssumption DEF Cf!ImportInv, Cf!TypeOK

(* Empty tables are whole. *)
LEMMA EmptyWhole ==
    Cf!RowsWhole(Cf!Empty) /\ Cf!NoOrphans(Cf!Empty)
  BY DEF Cf!RowsWhole, Cf!NoOrphans, Cf!Empty

(* The invariant holds of a database with no problem in it. *)
LEMMA CfInitInv ==
    ASSUME Cf!Init
    PROVE  Cf!ImportInv
  <1>1. Cf!RowsWhole(db) /\ Cf!RowsWhole(tx) /\ Cf!NoOrphans(db)
    BY EmptyWhole DEF Cf!Init
  <1>2. Cf!TypeOK
    BY ImportAssumption DEF Cf!Init, Cf!TypeOK, Cf!Empty
  <1>3. base = [k \in DOMAIN base |-> base[k]]
    BY DEF Cf!Init
  <1>4. Cf!SoFar /\ Cf!ImportComplete
    <2>1. at = 1 /\ Len(lines) = 0
      BY DEF Cf!Init
    <2>2. cutDrop \in BOOLEAN
      BY Zenon DEF Cf!Init
    <2>3. at # Len(lines) + 2
      BY <2>1
    <2>4. QED
      BY <1>3, <2>2, <2>3 DEF Cf!Init, Cf!SoFar, Cf!ImportComplete
  <1>5. QED
    BY <1>1, <1>2, <1>4 DEF Cf!ImportInv, Cf!Init

(* A run that starts has imported nothing over what it starts from. *)
LEMMA CfStart ==
    ASSUME Cf!ImportInv, Cf!Start
    PROVE  Cf!ImportInv'
  <1>1. lines' \in Seq(CfLine) /\ Len(lines') \in Nat
    BY CfFileSeq DEF Cf!Start
  <1>2. Cf!TypeOK'
    BY <1>1, ImportAssumption DEF Cf!ImportInv, Cf!TypeOK, Cf!Start, Cf!reset
  <1>3. Cf!RowsWhole(db') /\ Cf!RowsWhole(tx')
    BY DEF Cf!ImportInv, Cf!Start, Cf!reset
  <1>4. cutDrop' \/ (Cf!NoOrphans(db') /\ Cf!NoOrphans(tx'))
    BY DEF Cf!ImportInv, Cf!Start, Cf!reset
  <1>5. base' = [k \in DOMAIN base' |-> base'[k]]
    <2>1. CASE drop'
      BY <2>1 DEF Cf!Start
    <2>2. CASE ~drop'
      <3>1. base' = Cf!Contents(db)
        BY <2>2 DEF Cf!Start
      <3>2. QED
        BY <3>1 DEF Cf!Contents
    <2>3. QED
      BY <2>1, <2>2
  <1>6. drop' = FALSE => Cf!Contents(tx') = Cf!Imported(SubSeq(lines', 1, at' - 1), base')
    <2>1. Cf!Imported(SubSeq(lines', 1, 0), base') = base'
      BY <1>1, <1>5, ImportedNothing
    <2>2. at' - 1 = 0
      BY DEF Cf!Start
    <2>3. QED
      BY <2>1, <2>2 DEF Cf!Start, Cf!reset
  <1>7. Cf!SoFar'
    BY <1>5, <1>6 DEF Cf!ImportInv, Cf!SoFar, Cf!Start
  <1>8. QED
    BY <1>1, <1>2, <1>3, <1>4, <1>7 DEF Cf!ImportInv, Cf!Start, Cf!ImportComplete

(* The first drop takes the problems and leaves the cases. *)
LEMMA CfDropProblems ==
    ASSUME Cf!ImportInv, Cf!DropProblems
    PROVE  Cf!ImportInv'
  <1>1. db = [problems |-> db.problems, cases |-> db.cases]
    BY DEF Cf!ImportInv, Cf!RowsWhole
  <1>2. db' = [problems |-> <<>>, cases |-> db.cases]
    BY <1>1 DEF Cf!DropProblems
  <1>3. Cf!RowsWhole(db') /\ db'.problems = <<>>
    BY <1>2 DEF Cf!RowsWhole
  <1>4. Cf!TypeOK'
    BY <1>2 DEF Cf!ImportInv, Cf!TypeOK, Cf!DropProblems
  <1>5. Cf!SoFar'
    BY <1>3 DEF Cf!ImportInv, Cf!SoFar, Cf!DropProblems
  <1>6. QED
    BY <1>3, <1>4, <1>5 DEF Cf!ImportInv, Cf!DropProblems, Cf!ImportComplete

(* The second drop empties the database. *)
LEMMA CfDropCases ==
    ASSUME Cf!ImportInv, Cf!DropCases
    PROVE  Cf!ImportInv'
  <1>1. db = [problems |-> <<>>, cases |-> db.cases] /\ base = <<>> /\ at = 1
    BY DEF Cf!ImportInv, Cf!RowsWhole, Cf!SoFar, Cf!DropCases
  <1>2. db' = Cf!Empty /\ tx' = Cf!Empty
    BY <1>1 DEF Cf!DropCases, Cf!reset, Cf!Empty
  <1>3. Cf!RowsWhole(db') /\ Cf!RowsWhole(tx') /\ Cf!NoOrphans(db') /\ Cf!NoOrphans(tx')
    BY <1>2, EmptyWhole
  <1>4. Cf!TypeOK'
    BY <1>2, CfTypes DEF Cf!ImportInv, Cf!TypeOK, Cf!DropCases, Cf!reset, Cf!Empty
  <1>5. Cf!Contents(tx') = Cf!Imported(SubSeq(lines', 1, at' - 1), base')
    <2>1. lines \in Seq(CfLine)
      BY CfFileSeq DEF Cf!ImportInv, Cf!DropCases
    <2>2. base = [k \in DOMAIN base |-> base[k]]
      BY DEF Cf!ImportInv, Cf!SoFar
    <2>3. Cf!Imported(SubSeq(lines, 1, 0), base) = base
      BY <2>1, <2>2, ImportedNothing
    <2>4. Cf!Contents(Cf!Empty) = <<>>
      BY DEF Cf!Contents, Cf!Empty
    <2>5. lines' = lines /\ at' - 1 = 0 /\ base' = base
      BY <1>1 DEF Cf!DropCases
    <2>6. QED
      BY <1>1, <1>2, <2>3, <2>4, <2>5
  <1>6. Cf!SoFar'
    BY <1>5 DEF Cf!ImportInv, Cf!SoFar, Cf!DropCases
  <1>7. QED
    BY <1>3, <1>4, <1>6 DEF Cf!ImportInv, Cf!DropCases, Cf!ImportComplete

(* A line that names no contest or no index leaves the rows as they are. *)
LEMMA CfSkipLine ==
    ASSUME Cf!ImportInv, Cf!SkipLine
    PROVE  Cf!ImportInv'
  <1>1. lines \in Seq(CfLine) /\ at \in 1..Len(lines) /\ at' = at + 1
    BY CfFileSeq, CfTypes DEF Cf!ImportInv, Cf!SkipLine
  <1>2. Cf!TypeOK'
    BY CfTypes DEF Cf!ImportInv, Cf!TypeOK, Cf!SkipLine
  <1>3. Cf!Contents(tx) = Cf!Imported(SubSeq(lines, 1, at), base)
    <2>1. base = [k \in DOMAIN base |-> base[k]]
      BY DEF Cf!ImportInv, Cf!SoFar
    <2>2. Cf!Imported(SubSeq(lines, 1, at), base)
             = Step(Cf!Imported(SubSeq(lines, 1, at - 1), base), lines[at])
      BY <1>1, <2>1, ImportedStep
    <2>3. QED
      BY <2>2 DEF Step, Cf!SkipLine, Cf!ImportInv, Cf!SoFar
  <1>4. at' - 1 = at
    BY <1>1
  <1>5. Cf!SoFar'
    BY <1>3, <1>4 DEF Cf!ImportInv, Cf!SoFar, Cf!SkipLine
  <1>6. QED
    BY <1>1, <1>2, <1>5 DEF Cf!ImportInv, Cf!SkipLine, Cf!ImportComplete

(* A line goes in, and a full batch is committed. *)
LEMMA CfInsert ==
    ASSUME Cf!ImportInv, Cf!Insert
    PROVE  Cf!ImportInv'
  <1> DEFINE l == lines[at]
  <1>1. lines \in CfFiles /\ lines \in Seq(CfLine) /\ at \in 1..Len(lines) /\ at' = at + 1
    BY CfFileSeq, CfTypes DEF Cf!ImportInv, Cf!Insert
  <1>2. l \in Cf!InputLines /\ Cf!Usable(l) /\ ~Cf!Collides(l)
    BY <1>1, CfFileSeq DEF Cf!Insert
  <1>3. tx' = Cf!WithLine(l) /\ db' \in {db, tx'} /\ cutDrop' = cutDrop
    BY DEF Cf!Insert
  <1>4. Cf!RowsWhole(tx) /\ Cf!RowsWhole(db)
    BY DEF Cf!ImportInv
  <1> HIDE DEF l
  <1>5. Cf!RowsWhole(tx')
    BY <1>2, <1>3, <1>4, WithLineWhole
  <1>6. Cf!RowsWhole(db')
    BY <1>3, <1>4, <1>5
  <1>7. cutDrop' \/ (Cf!NoOrphans(tx') /\ Cf!NoOrphans(db'))
    <2>1. cutDrop \/ (Cf!NoOrphans(tx) /\ Cf!NoOrphans(db))
      BY DEF Cf!ImportInv, Cf!Insert
    <2>2. Cf!NoOrphans(tx) => Cf!NoOrphans(tx')
      BY <1>2, <1>3, <1>4, WithLineNoOrphans
    <2>3. QED
      BY <1>3, <2>1, <2>2
  <1>8. Cf!Contents(tx') = Cf!Imported(SubSeq(lines, 1, at), base)
    <2>1. base = [k \in DOMAIN base |-> base[k]]
      BY DEF Cf!ImportInv, Cf!SoFar
    <2>2. Cf!Imported(SubSeq(lines, 1, at), base)
             = Step(Cf!Imported(SubSeq(lines, 1, at - 1), base), l)
      BY <1>1, <2>1, ImportedStep DEF l
    <2>3. Cf!Contents(tx) = Cf!Imported(SubSeq(lines, 1, at - 1), base)
      BY DEF Cf!ImportInv, Cf!SoFar, Cf!Insert
    <2>4. Cf!Contents(tx') = Cf!Put(Cf!Contents(tx), Cf!Key(l), Cf!Stored(l))
      BY <1>2, <1>3, <1>4, WithLineContents
    <2>5. QED
      BY <1>2, <2>2, <2>3, <2>4 DEF Step
  <1>9. Cf!TypeOK'
    <2>1. \A k \in DOMAIN db'.problems : db'.problems[k].id = ProblemId(k[1], k[2])
      BY <1>6 DEF Cf!RowsWhole
    <2>2. cnt' \in 0..(BatchSize - 1)
      BY CfTypes DEF Cf!Insert
    <2>3. QED
      BY <1>1, <2>1, <2>2, CfTypes DEF Cf!ImportInv, Cf!TypeOK, Cf!Insert
  <1>10. at' - 1 = at /\ at' <= Len(lines) + 1
    BY <1>1
  <1>11. Cf!SoFar'
    BY <1>8, <1>10 DEF Cf!ImportInv, Cf!SoFar, Cf!Insert
  <1>12. QED
    BY <1>5, <1>6, <1>7, <1>9, <1>10, <1>11 DEF Cf!ImportInv, Cf!Insert, Cf!ImportComplete

(* A run that ends leaves what is committed. *)
LEMMA CfEnds ==
    ASSUME Cf!ImportInv, pc # "idle", Cf!Ends, cutDrop' \in BOOLEAN,
           cutDrop => cutDrop', pc = "dropCases" => cutDrop'
    PROVE  Cf!ImportInv'
  <1>1. Cf!RowsWhole(tx') /\ Cf!RowsWhole(db')
    BY EmptyWhole DEF Cf!Ends, Cf!ImportInv
  <1>2. cutDrop' \/ Cf!NoOrphans(db')
    BY DEF Cf!Ends, Cf!ImportInv
  <1>3. Cf!TypeOK'
    BY ImportAssumption DEF Cf!Ends, Cf!ImportInv, Cf!TypeOK
  <1>4. base' = [k \in DOMAIN base' |-> base'[k]]
    BY DEF Cf!Ends
  <1>5. Cf!SoFar' /\ Cf!ImportComplete'
    BY <1>4 DEF Cf!Ends, Cf!SoFar, Cf!ImportComplete
  <1>6. QED
    BY <1>1, <1>2, <1>3, <1>5 DEF Cf!ImportInv, Cf!Ends

(* The last batch is committed: all lines are in the database. *)
LEMMA CfFlush ==
    ASSUME Cf!ImportInv, Cf!Flush
    PROVE  Cf!ImportInv'
  <1>1. lines \in CfFiles /\ lines \in Seq(CfLine) /\ at = Len(lines) + 1 /\ at' = Len(lines) + 2
    BY CfFileSeq, CfTypes DEF Cf!ImportInv, Cf!Flush
  <1>2. Cf!RowsWhole(tx') /\ Cf!RowsWhole(db')
    BY EmptyWhole DEF Cf!Flush, Cf!ImportInv, Cf!Empty
  <1>3. cutDrop' \/ Cf!NoOrphans(db')
    BY DEF Cf!Flush, Cf!ImportInv
  <1>4. Cf!TypeOK'
    <2>1. \A k \in DOMAIN db'.problems : db'.problems[k].id = ProblemId(k[1], k[2])
      BY <1>2 DEF Cf!RowsWhole
    <2>2. QED
      BY <1>1, <2>1, CfTypes, ImportAssumption DEF Cf!Flush, Cf!ImportInv, Cf!TypeOK
  <1>5. Cf!Contents(db') = Cf!Imported(lines, base)
    <2>1. SubSeq(lines, 1, Len(lines)) = lines /\ at - 1 = Len(lines)
      BY <1>1
    <2>2. QED
      BY <2>1 DEF Cf!Flush, Cf!ImportInv, Cf!SoFar
  <1>6. Cf!SoFar' /\ Cf!ImportComplete'
    BY <1>5 DEF Cf!ImportInv, Cf!Flush, Cf!SoFar, Cf!ImportComplete
  <1>7. QED
    BY <1>1, <1>2, <1>3, <1>4, <1>6 DEF Cf!ImportInv, Cf!Flush

(* Every step of the Codeforces importer keeps its invariant. *)
LEMMA CfNextInv ==
    ASSUME Cf!ImportInv, Cf!Next
    PROVE  Cf!ImportInv'
  <1>1. CASE Cf!LineFails
    <2>1. Cf!Ends /\ pc = "import" /\ cutDrop' = cutDrop /\ cutDrop \in BOOLEAN
      BY <1>1 DEF Cf!LineFails, Cf!ImportInv, Cf!SoFar
    <2>2. QED
      BY <2>1, CfEnds
  <1>2. CASE Cf!Dies
    <2>1. cutDrop' = (cutDrop \/ pc = "dropCases")
      BY <1>2 DEF Cf!Dies
    <2>2. cutDrop' \in BOOLEAN
      BY <2>1
    <2>3. cutDrop \/ pc = "dropCases" => cutDrop'
      BY <2>1
    <2>4. QED
      BY <1>2, <2>2, <2>3, CfEnds DEF Cf!Dies
  <1>3. QED
    BY <1>1, <1>2, CfStart, CfDropProblems, CfDropCases, CfSkipLine, CfInsert, CfFlush DEF Cf!Next

(* So does a step that leaves its variables alone. *)
LEMMA CfUnchanged ==
    ASSUME Cf!ImportInv, UNCHANGED Cf!importVars
    PROVE  Cf!ImportInv'
  BY DEF Cf!ImportInv, Cf!importVars, Cf!TypeOK, Cf!SoFar, Cf!ImportComplete, Cf!RowsWhole,
         Cf!NoOrphans, Cf!Contents, Cf!CasesOf, Cf!Empty

(* The invariant of the Codeforces importer. *)
THEOREM ImportSafe == TestDataSpec => []OfCodeforces(Cf!ImportInv)
  <1>1. TestDataInit => OfCodeforces(Cf!ImportInv)
    BY CfInitInv DEF TestDataInit, OfCodeforces
  <1>2. OfCodeforces(Cf!ImportInv) /\ [TestDataNext]_testDataVars => OfCodeforces(Cf!ImportInv)'
    <2> SUFFICES ASSUME OfCodeforces(Cf!ImportInv), [TestDataNext]_testDataVars,
                        tool' = "codeforces_jsonl_to_sqlite"
                 PROVE  Cf!ImportInv'
      BY DEF OfCodeforces
    <2>1. CASE ImportsCodeforces
      BY <2>1, CfNextInv DEF ImportsCodeforces, OfCodeforces
    <2>2. CASE UNCHANGED testDataVars
      BY <2>2, CfUnchanged DEF OfCodeforces, testDataVars, sharedVars, cfVars, Cf!importVars
    <2>3. ~Builds /\ ~ImportsIoi
      BY DEF Builds, ImportsIoi
    <2>4. QED
      BY <2>1, <2>2, <2>3 DEF TestDataNext
  <1>3. QED
    BY <1>1, <1>2, PTL DEF TestDataSpec

(* A problem in the Codeforces database is one line of an input, with its  *)
(* row and all and only its cases, whatever runs of main failed, were      *)
(* killed or overwrote each other.                                         *)
THEOREM ProblemsStayWhole == TestDataSpec => []ProblemsWhole
  <1>1. OfCodeforces(Cf!ImportInv) => ProblemsWhole
    BY DEF ProblemsWhole, OfCodeforces, Cf!ImportInv, Cf!RowsWhole, Cf!ProblemsWhole
  <1>2. QED
    BY <1>1, ImportSafe, PTL

(* Cases without a problem are there only after a run that ended between   *)
(* its two drops: the foreign key, which SQLite does not enforce, is       *)
(* needed for nothing else.                                                *)
THEOREM NoOtherOrphans == TestDataSpec => []OrphansOnlyAfterCutDrop
  <1>1. OfCodeforces(Cf!ImportInv) => OrphansOnlyAfterCutDrop
    BY DEF OrphansOnlyAfterCutDrop, OfCodeforces, Cf!ImportInv, Cf!NoOrphans, Cf!OrphansOnlyAfterCutDrop
  <1>2. QED
    BY <1>1, ImportSafe, PTL

(* A run of main that went through has left the last line of each problem  *)
(* over what it started from, however the lines fell into batches.         *)
THEOREM RunThroughComplete == TestDataSpec => []ImportComplete
  <1>1. OfCodeforces(Cf!ImportInv) => ImportComplete
    BY DEF ImportComplete, OfCodeforces, Cf!ImportInv
  <1>2. QED
    BY <1>1, ImportSafe, PTL

-----------------------------------------------------------------------------
(* The records of the IOI lines. *)

IsNormal(r) == /\ r.name \in STRING /\ r.year \in Int
               /\ r.subTasks \in Seq([name : STRING, tests : Seq(STRING)])
               /\ IsNamedMap(r.cases) /\ IsNamedMap(r.files)

(* The lines of an input, and the records normalizeRecord makes of them. *)
LEMMA IoiFileSeq ==
    ASSUME NEW f \in IoiFiles
    PROVE  /\ f \in Seq(ToSet(f)) /\ Len(f) \in Nat /\ DOMAIN f = 1..Len(f)
           /\ \A i \in DOMAIN f : /\ Ioi!normalizeRecord(f[i]) \in Ioi!Records
                                  /\ IsNormal(Ioi!normalizeRecord(f[i]))
  <1>1. f \in Seq(ToSet(f)) /\ \A i \in DOMAIN f : IsRecord(f[i]) /\ IsRecord(f[i].metadata)
    BY ImportAssumption
  <1>2. Len(f) \in Nat /\ DOMAIN f = 1..Len(f)
    BY <1>1
  <1>3. ASSUME NEW i \in DOMAIN f
        PROVE  /\ Ioi!normalizeRecord(f[i]) \in Ioi!Records
               /\ IsNormal(Ioi!normalizeRecord(f[i]))
    <2>1. f[i] \in UNION {Ioi!ToSet(g) : g \in IoiFiles}
      BY DEF Ioi!ToSet
    <2>2. Ioi!normalizeRecord(f[i]) \in Ioi!Records
      BY <2>1 DEF Ioi!Records
    <2> DEFINE l == f[i]
               m == l.metadata
    <2>3. IsRecord(l) /\ IsRecord(m)
      BY <1>1
    <2> HIDE DEF l
    <2>4. IsNormal(Ioi!normalizeRecord(l))
      BY <2>3 DEF Ioi!normalizeRecord, IsNormal, IsRecord
    <2>5. QED
      BY <2>2, <2>4 DEF l
  <1>4. QED
    BY <1>1, <1>2, <1>3

(* What a record has in its cases and files is test data. *)
LEMMA DataTyped ==
    ASSUME NEW r \in Ioi!Records
    PROVE  /\ \A n \in DOMAIN r.cases : r.cases[n] \in Ioi!CaseData
           /\ \A n \in DOMAIN r.files : r.files[n] \in Ioi!FileData
  BY DEF Ioi!CaseData, Ioi!FileData

-----------------------------------------------------------------------------
(* The tables of the IOI database. *)

(* The rows new are those of the problems up to P and the rows of the map  *)
(* of one more.                                                            *)
NamedRowsAfter(rows, P, map, names, D, new) ==
    /\ new \in Seq(Ioi!NamedRow(D)) /\ Len(rows) \in Nat
    /\ \A i \in DOMAIN rows : i \in DOMAIN new /\ new[i] = rows[i]
    /\ \A i \in DOMAIN new : new[i].problem \in 1..(P + 1)
    /\ \A j \in DOMAIN names : /\ Len(rows) + j \in DOMAIN new
                               /\ new[Len(rows) + j].name = names[j]
    /\ \A p \in 1..P : Ioi!OfProblem(new, p) = Ioi!OfProblem(rows, p)
    /\ {<<new[i].name, new[i].data>> : i \in Ioi!OfProblem(new, P + 1)}
         = {<<n, map[n]>> : n \in DOMAIN map}

(* The cases or the files of a new problem after those of the others. *)
LEMMA NamedRowsAdded ==
    ASSUME NEW D, NEW rows \in Seq(Ioi!NamedRow(D)), NEW P \in Nat,
           \A i \in DOMAIN rows : rows[i].problem \in 1..P,
           NEW map, IsNamedMap(map), \A n \in DOMAIN map : map[n] \in D,
           NEW names \in Ioi!SetToSeqs(DOMAIN map),
           NEW new, new = rows \o Ioi!Rows(P + 1, map, names)
    PROVE  NamedRowsAfter(rows, P, map, names, D, new)
  <1> DEFINE u == Ioi!Rows(P + 1, map, names)
             S == DOMAIN map
             T == Ioi!NamedRow(D)
  <1>1. /\ Cardinality(S) \in Nat /\ names \in [1..Cardinality(S) -> S] /\ S \subseteq STRING
        /\ \A x \in S : \E i \in DOMAIN names : names[i] = x
    BY NamesOnce DEF IsNamedMap
  <1>2. u = [i \in 1..Cardinality(S) |-> [problem |-> P + 1, name |-> names[i], data |-> map[names[i]]]]
    BY <1>1 DEF Ioi!Rows
  <1>3. \A i \in 1..Cardinality(S) : u[i] \in T
    <2> TAKE i \in 1..Cardinality(S)
    <2>1. names[i] \in S /\ names[i] \in STRING /\ map[names[i]] \in D /\ P + 1 \in Nat
      BY <1>1
    <2>2. u[i] = [problem |-> P + 1, name |-> names[i], data |-> map[names[i]]]
      BY <1>2
    <2> HIDE DEF u
    <2>3. QED
      BY <2>1, <2>2 DEF Ioi!NamedRow
  <1>4. u \in Seq(T)
    <2> HIDE DEF u, T
    <2>1. u \in [1..Cardinality(S) -> T]
      BY <1>2, <1>3
    <2>2. QED
      BY <1>1, <2>1, FunctionSeq
  <1>5. DOMAIN u = DOMAIN names /\ \A j \in DOMAIN names : u[j].problem = P + 1 /\ u[j].name = names[j]
                                                           /\ u[j].data = map[names[j]]
    BY <1>1, <1>2
  <1> HIDE DEF u
  <1>6. /\ new \in Seq(T) /\ Len(rows) \in Nat
        /\ \A i \in DOMAIN rows : i \in DOMAIN new /\ new[i] = rows[i]
        /\ \A j \in DOMAIN u : Len(rows) + j \in DOMAIN new /\ new[Len(rows) + j] = u[j]
        /\ \A i \in DOMAIN new : i \in DOMAIN rows \/ \E j \in DOMAIN u : i = Len(rows) + j
    <2>1. new = rows \o u
      BY DEF u
    <2> HIDE DEF T
    <2>2. rows \in Seq(T)
      BY DEF T
    <2>3. /\ rows \o u \in Seq(T) /\ Len(rows) \in Nat
          /\ \A i \in DOMAIN rows : i \in DOMAIN (rows \o u) /\ (rows \o u)[i] = rows[i]
          /\ \A j \in DOMAIN u : /\ Len(rows) + j \in DOMAIN (rows \o u)
                                 /\ (rows \o u)[Len(rows) + j] = u[j]
          /\ \A i \in DOMAIN (rows \o u) : i \in DOMAIN rows \/ \E j \in DOMAIN u : i = Len(rows) + j
      BY <1>4, <2>2, Appended
    <2>4. QED
      BY <2>1, <2>3
  <1>7. \A i \in DOMAIN new : \/ i \in DOMAIN rows /\ new[i].problem \in 1..P
                              \/ new[i].problem = P + 1
    BY <1>5, <1>6
  <1>8. P + 1 \notin 1..P /\ P + 1 \in 1..(P + 1) /\ \A p \in 1..P : p \in 1..(P + 1) /\ p # P + 1
    OBVIOUS
  <1>9. \A p \in 1..P : Ioi!OfProblem(new, p) = Ioi!OfProblem(rows, p)
    BY <1>5, <1>6, <1>8 DEF Ioi!OfProblem
  <1>10. Ioi!OfProblem(new, P + 1) = {Len(rows) + j : j \in DOMAIN names}
    BY <1>5, <1>6, <1>8 DEF Ioi!OfProblem
  <1>11. \A j \in DOMAIN names : /\ new[Len(rows) + j].name = names[j]
                                 /\ new[Len(rows) + j].data = map[names[j]]
    BY <1>5, <1>6
  <1>12. {<<new[i].name, new[i].data>> : i \in Ioi!OfProblem(new, P + 1)}
            = {<<names[j], map[names[j]]>> : j \in DOMAIN names}
    <2> DEFINE A == {<<new[i].name, new[i].data>> : i \in Ioi!OfProblem(new, P + 1)}
               B == {<<names[j], map[names[j]]>> : j \in DOMAIN names}
    <2>1. ASSUME NEW x \in A PROVE x \in B
      <3>1. PICK i \in Ioi!OfProblem(new, P + 1) : x = <<new[i].name, new[i].data>>
        OBVIOUS
      <3>2. PICK j \in DOMAIN names : i = Len(rows) + j
        BY <1>10, <3>1
      <3>3. x = <<names[j], map[names[j]]>>
        BY <1>11, <3>1, <3>2
      <3>4. QED
        BY <3>3
    <2>2. ASSUME NEW x \in B PROVE x \in A
      <3>1. PICK j \in DOMAIN names : x = <<names[j], map[names[j]]>>
        OBVIOUS
      <3>2. Len(rows) + j \in Ioi!OfProblem(new, P + 1)
        BY <1>10, <3>1
      <3>3. x = <<new[Len(rows) + j].name, new[Len(rows) + j].data>>
        BY <1>11, <3>1
      <3>4. QED
        BY <3>2, <3>3
    <2> HIDE DEF A, B
    <2>3. A = B
      BY <2>1, <2>2
    <2>4. QED
      BY <2>3 DEF A, B
  <1>13. {<<names[j], map[names[j]]>> : j \in DOMAIN names} = {<<n, map[n]>> : n \in S}
    BY <1>1
  <1>14. QED
    BY <1>5, <1>6, <1>7, <1>8, <1>9, <1>11, <1>12, <1>13 DEF T, NamedRowsAfter

SubTaskRow == [problem : Nat, name : STRING]
LinkRow == [subTask : Nat, case : Nat]
SubTask == [name : STRING, tests : Seq(STRING)]

SubTasksAfter(rows, P, subs, new) ==
    /\ new \in Seq(SubTaskRow) /\ Len(rows) \in Nat
    /\ \A i \in DOMAIN rows : i \in DOMAIN new /\ new[i] = rows[i]
    /\ \A i \in DOMAIN new : new[i].problem \in 1..(P + 1)
    /\ \A s \in DOMAIN subs : /\ Len(rows) + s \in DOMAIN new
                              /\ new[Len(rows) + s].name = subs[s].name
    /\ \A p \in 1..P : Ioi!OfProblem(new, p) = Ioi!OfProblem(rows, p)
    /\ Ioi!OfProblem(new, P + 1) = {Len(rows) + s : s \in DOMAIN subs}

(* The sub-tasks of a new problem after those of the others. *)
LEMMA SubTasksAdded ==
    ASSUME NEW rows \in Seq(SubTaskRow), NEW P \in Nat,
           \A i \in DOMAIN rows : rows[i].problem \in 1..P,
           NEW subs \in Seq(SubTask),
           NEW new, new = rows \o [s \in DOMAIN subs |-> [problem |-> P + 1, name |-> subs[s].name]]
    PROVE  SubTasksAfter(rows, P, subs, new)
  <1> DEFINE u == [s \in DOMAIN subs |-> [problem |-> P + 1, name |-> subs[s].name]]
  <1>1. Len(subs) \in Nat /\ DOMAIN subs = 1..Len(subs)
    OBVIOUS
  <1>2. \A s \in 1..Len(subs) : u[s] \in SubTaskRow
    <2> TAKE s \in 1..Len(subs)
    <2>1. subs[s] \in SubTask
      BY <1>1, ElementOfSeq
    <2>2. subs[s].name \in STRING /\ P + 1 \in Nat
      BY <2>1 DEF SubTask
    <2>3. u[s] = [problem |-> P + 1, name |-> subs[s].name]
      BY <1>1
    <2> HIDE DEF u
    <2>4. QED
      BY <2>2, <2>3 DEF SubTaskRow
  <1>3. u \in Seq(SubTaskRow)
    <2>1. u \in [1..Len(subs) -> SubTaskRow]
      BY <1>1, <1>2
    <2> HIDE DEF u
    <2>2. QED
      BY <1>1, <2>1, FunctionSeq
  <1>4. DOMAIN u = DOMAIN subs /\ \A s \in DOMAIN subs : u[s].problem = P + 1 /\ u[s].name = subs[s].name
    OBVIOUS
  <1> HIDE DEF u
  <1>5. /\ new \in Seq(SubTaskRow) /\ Len(rows) \in Nat
        /\ \A i \in DOMAIN rows : i \in DOMAIN new /\ new[i] = rows[i]
        /\ \A j \in DOMAIN u : Len(rows) + j \in DOMAIN new /\ new[Len(rows) + j] = u[j]
        /\ \A i \in DOMAIN new : i \in DOMAIN rows \/ \E j \in DOMAIN u : i = Len(rows) + j
    <2>1. new = rows \o u
      BY DEF u
    <2>2. /\ rows \o u \in Seq(SubTaskRow) /\ Len(rows) \in Nat
          /\ \A i \in DOMAIN rows : i \in DOMAIN (rows \o u) /\ (rows \o u)[i] = rows[i]
          /\ \A j \in DOMAIN u : /\ Len(rows) + j \in DOMAIN (rows \o u)
                                 /\ (rows \o u)[Len(rows) + j] = u[j]
          /\ \A i \in DOMAIN (rows \o u) : i \in DOMAIN rows \/ \E j \in DOMAIN u : i = Len(rows) + j
      BY <1>3, Appended
    <2>3. QED
      BY <2>1, <2>2
  <1>6. \A i \in DOMAIN new : \/ i \in DOMAIN rows /\ new[i].problem \in 1..P
                              \/ new[i].problem = P + 1
    BY <1>4, <1>5
  <1>7. P + 1 \notin 1..P /\ P + 1 \in 1..(P + 1) /\ \A p \in 1..P : p \in 1..(P + 1) /\ p # P + 1
    OBVIOUS
  <1>8. \A p \in 1..P : Ioi!OfProblem(new, p) = Ioi!OfProblem(rows, p)
    BY <1>4, <1>5, <1>7 DEF Ioi!OfProblem
  <1>9. Ioi!OfProblem(new, P + 1) = {Len(rows) + s : s \in DOMAIN subs}
    BY <1>4, <1>5, <1>7 DEF Ioi!OfProblem
  <1>10. QED
    BY <1>4, <1>5, <1>6, <1>7, <1>8, <1>9 DEF SubTasksAfter

LinksAfter(links, S, r, caseIds, new) ==
    /\ new \in Seq(LinkRow)
    /\ \A i \in DOMAIN links : i \in DOMAIN new /\ new[i] = links[i]
    /\ \A i \in DOMAIN new :
          \/ i \in DOMAIN links
          \/ \E s \in DOMAIN r.subTasks : \E n \in DOMAIN r.subTasks[s].tests :
                new[i] = [subTask |-> S + s, case |-> caseIds[r.subTasks[s].tests[n]]]
    /\ \A s \in DOMAIN r.subTasks : \A n \in DOMAIN r.subTasks[s].tests :
          \E i \in DOMAIN new :
             new[i] = [subTask |-> S + s, case |-> caseIds[r.subTasks[s].tests[n]]]

(* The links of a new problem's sub-tasks after those of the others. *)
LEMMA LinksAdded ==
    ASSUME NEW links \in Seq(LinkRow), NEW S \in Nat,
           NEW r, r.subTasks \in Seq(SubTask),
           NEW caseIds, \A i \in DOMAIN r.subTasks : \A n \in DOMAIN r.subTasks[i].tests :
                           caseIds[r.subTasks[i].tests[n]] \in Nat,
           NEW subTaskIds, \A i \in DOMAIN r.subTasks : subTaskIds[i] = S + i,
           NEW new, new = links \o Ioi!FlattenSeq([i \in DOMAIN r.subTasks |->
                                                     Ioi!LinksOf(r, i, subTaskIds, caseIds)])
    PROVE  LinksAfter(links, S, r, caseIds, new)
  <1> DEFINE subs == r.subTasks
             link(s, n) == [subTask |-> S + s, case |-> caseIds[subs[s].tests[n]]]
             q == [i \in DOMAIN subs |-> Ioi!LinksOf(r, i, subTaskIds, caseIds)]
             u == Ioi!FlattenSeq(q)
  <1>1. Len(subs) \in Nat /\ DOMAIN subs = 1..Len(subs)
    OBVIOUS
  <1>2. ASSUME NEW s \in DOMAIN subs
        PROVE  /\ q[s] = [n \in DOMAIN subs[s].tests |-> link(s, n)]
               /\ q[s] \in Seq(LinkRow)
    <2>1. q[s] = [n \in DOMAIN subs[s].tests |-> link(s, n)]
      BY <1>2 DEF Ioi!LinksOf
    <2>2. subs[s] \in SubTask
      BY <1>1, ElementOfSeq
    <2>3. subs[s].tests \in Seq(STRING)
      BY <2>2 DEF SubTask
    <2> DEFINE k == Len(subs[s].tests)
    <2>4. k \in Nat /\ DOMAIN subs[s].tests = 1..k
      BY <2>3
    <2>5. \A n \in 1..k : link(s, n) \in LinkRow
      <3> TAKE n \in 1..k
      <3>1. caseIds[subs[s].tests[n]] \in Nat /\ S + s \in Nat
        BY <1>1, <1>2, <2>4
      <3>2. QED
        BY <3>1 DEF LinkRow
    <2> HIDE DEF q, k, link
    <2>6. q[s] \in [1..k -> LinkRow]
      BY <2>1, <2>4, <2>5
    <2>7. QED
      BY <2>1, <2>4, <2>6, FunctionSeq, SMTT(30)
  <1>3. q \in Seq(Seq(LinkRow)) /\ DOMAIN q = DOMAIN subs
    <2>1. DOMAIN q = 1..Len(subs) /\ \A s \in 1..Len(subs) : q[s] \in Seq(LinkRow)
      BY <1>1, <1>2
    <2>2. q \in [1..Len(subs) -> Seq(LinkRow)]
      BY <2>1
    <2> HIDE DEF q
    <2>3. QED
      BY <1>1, <2>1, <2>2, FunctionSeq
  <1>4. new = links \o u
    OBVIOUS
  <1> HIDE DEF q, link
  <1>5. \A s \in DOMAIN subs : /\ DOMAIN q[s] = DOMAIN subs[s].tests
                               /\ \A n \in DOMAIN subs[s].tests : q[s][n] = link(s, n)
    BY <1>2
  <1>6. /\ u \in Seq(LinkRow)
        /\ \A i \in DOMAIN u : \E s \in DOMAIN q : \E n \in DOMAIN q[s] : u[i] = q[s][n]
        /\ \A s \in DOMAIN q : \A n \in DOMAIN q[s] : \E i \in DOMAIN u : u[i] = q[s][n]
    <2>1. u = FlattenSeq(q)
      BY SameFlatten
    <2> HIDE DEF u
    <2>2. QED
      BY <1>3, <2>1, Flattened
  <1> HIDE DEF u
  <1>7. /\ links \o u \in Seq(LinkRow) /\ Len(links) \in Nat
        /\ \A i \in DOMAIN links : i \in DOMAIN (links \o u) /\ (links \o u)[i] = links[i]
        /\ \A j \in DOMAIN u : /\ Len(links) + j \in DOMAIN (links \o u)
                               /\ (links \o u)[Len(links) + j] = u[j]
        /\ \A i \in DOMAIN (links \o u) : i \in DOMAIN links \/ \E j \in DOMAIN u : i = Len(links) + j
    BY <1>6, Appended
  <1>8. /\ new \in Seq(LinkRow)
        /\ \A i \in DOMAIN links : i \in DOMAIN new /\ new[i] = links[i]
        /\ \A j \in DOMAIN u : Len(links) + j \in DOMAIN new /\ new[Len(links) + j] = u[j]
        /\ \A i \in DOMAIN new : i \in DOMAIN links \/ \E j \in DOMAIN u : i = Len(links) + j
    BY <1>4, <1>7
  <1>9. ASSUME NEW i \in DOMAIN new, i \notin DOMAIN links
        PROVE  \E s \in DOMAIN subs : \E n \in DOMAIN subs[s].tests : new[i] = link(s, n)
    <2>1. PICK j \in DOMAIN u : new[i] = u[j]
      BY <1>8, <1>9
    <2>2. PICK s \in DOMAIN q : \E n \in DOMAIN q[s] : u[j] = q[s][n]
      BY <1>6
    <2>3. PICK n \in DOMAIN q[s] : u[j] = q[s][n]
      BY <2>2
    <2>4. s \in DOMAIN subs /\ n \in DOMAIN subs[s].tests /\ new[i] = link(s, n)
      BY <1>3, <1>5, <2>1, <2>3
    <2>5. QED
      BY <2>4
  <1>10. ASSUME NEW s \in DOMAIN subs, NEW n \in DOMAIN subs[s].tests
         PROVE  \E i \in DOMAIN new : new[i] = link(s, n)
    <2>1. s \in DOMAIN q /\ n \in DOMAIN q[s] /\ q[s][n] = link(s, n)
      BY <1>3, <1>5
    <2>2. PICK j \in DOMAIN u : u[j] = q[s][n]
      BY <1>6, <2>1
    <2>3. Len(links) + j \in DOMAIN new /\ new[Len(links) + j] = u[j]
      BY <1>8
    <2>4. u[j] = link(s, n)
      BY <2>1, <2>2
    <2>5. QED
      BY <2>3, <2>4
  <1>11. QED
    BY <1>8, <1>9, <1>10 DEF link, LinksAfter

(* The tests of sub-task s, by their links. *)
TestsOf(t, s) == {t.cases[t.links[i].case].name : i \in {i \in DOMAIN t.links : t.links[i].subTask = s}}

(* A record that goes in comes whole, and the problems before it stay so. *)
LEMMA RecordAdded ==
    ASSUME NEW t, Ioi!Whole(t), NEW r \in Ioi!Records, IsNormal(r),
           \A i \in DOMAIN r.subTasks : Ioi!ToSet(r.subTasks[i].tests) \subseteq DOMAIN r.cases,
           NEW caseNames \in Ioi!SetToSeqs(DOMAIN r.cases),
           NEW fileNames \in Ioi!SetToSeqs(DOMAIN r.files),
           NEW w, w = Ioi!WithRecord(t, r, caseNames, fileNames)
    PROVE  /\ Ioi!Whole(w) /\ Ioi!Continues(t, w)
           /\ Len(t.problems) \in Nat /\ Len(w.problems) = Len(t.problems) + 1
           /\ Ioi!Key(w.problems[Len(t.problems) + 1]) = Ioi!Key(r)
  <1> DEFINE P == Len(t.problems)
             S == Len(t.subTasks)
             C == Len(t.cases)
             caseIds == [n \in DOMAIN r.cases |-> C + CHOOSE i \in DOMAIN caseNames : caseNames[i] = n]
             subTaskIds == [s \in DOMAIN r.subTasks |-> S + s]
             problem == [name |-> r.name, year |-> r.year]
  <1>1. /\ t.problems \in Seq([name : STRING, year : Int])
        /\ t.cases \in Seq(Ioi!NamedRow(Ioi!CaseData)) /\ t.files \in Seq(Ioi!NamedRow(Ioi!FileData))
        /\ t.subTasks \in Seq(SubTaskRow) /\ t.links \in Seq(LinkRow)
    BY DEF Ioi!Whole, Ioi!AllTables, SubTaskRow, LinkRow
  <1>2. P \in Nat /\ DOMAIN t.problems = 1..P /\ S \in Nat /\ DOMAIN t.subTasks = 1..S /\ C \in Nat
    BY <1>1
  <1>3. /\ \A i \in DOMAIN t.cases : t.cases[i].problem \in 1..P
        /\ \A i \in DOMAIN t.files : t.files[i].problem \in 1..P
        /\ \A i \in DOMAIN t.subTasks : t.subTasks[i].problem \in 1..P
        /\ \A i \in DOMAIN t.links : t.links[i].subTask \in 1..S /\ t.links[i].case \in DOMAIN t.cases
    BY <1>2 DEF Ioi!Whole, Ioi!Linked
  <1>4. /\ w = [problems |-> w.problems, cases |-> w.cases, files |-> w.files,
                subTasks |-> w.subTasks, links |-> w.links]
        /\ w.problems = Append(t.problems, problem)
        /\ w.cases = t.cases \o Ioi!Rows(P + 1, r.cases, caseNames)
        /\ w.files = t.files \o Ioi!Rows(P + 1, r.files, fileNames)
        /\ w.subTasks = t.subTasks \o [s \in DOMAIN r.subTasks |->
                                         [problem |-> P + 1, name |-> r.subTasks[s].name]]
        /\ w.links = t.links \o Ioi!FlattenSeq([s \in DOMAIN r.subTasks |->
                                                  Ioi!LinksOf(r, s, subTaskIds, caseIds)])
    BY DEF Ioi!WithRecord
  <1>5. /\ r.name \in STRING /\ r.year \in Int /\ r.subTasks \in Seq(SubTask)
        /\ IsNamedMap(r.cases) /\ IsNamedMap(r.files)
    BY DEF IsNormal, SubTask
  <1>6. /\ w.problems \in Seq([name : STRING, year : Int])
        /\ Len(w.problems) = P + 1 /\ DOMAIN w.problems = 1..(P + 1)
        /\ \A p \in 1..P : w.problems[p] = t.problems[p]
        /\ w.problems[P + 1] = problem
    <2>1. problem \in [name : STRING, year : Int]
      BY <1>5
    <2> DEFINE old == t.problems
               new == w.problems
               T == [name : STRING, year : Int]
    <2>2. old \in Seq(T) /\ new = Append(old, problem) /\ problem \in T /\ P = Len(old)
      BY <1>1, <1>4, <2>1
    <2> HIDE DEF old, new, T, P, problem
    <2>3. new \in Seq(T) /\ Len(new) = P + 1 /\ new[P + 1] = problem
      BY <2>2
    <2>4. \A p \in 1..P : new[p] = old[p]
      BY <2>2
    <2>5. DOMAIN new = 1..(P + 1)
      BY <2>3
    <2>6. QED
      BY <2>3, <2>4, <2>5 DEF old, new, T
  <1>7. /\ w.cases \in Seq(Ioi!NamedRow(Ioi!CaseData))
        /\ \A i \in DOMAIN t.cases : i \in DOMAIN w.cases /\ w.cases[i] = t.cases[i]
        /\ \A i \in DOMAIN w.cases : w.cases[i].problem \in 1..(P + 1)
        /\ \A j \in DOMAIN caseNames : C + j \in DOMAIN w.cases /\ w.cases[C + j].name = caseNames[j]
        /\ \A p \in 1..P : Ioi!OfProblem(w.cases, p) = Ioi!OfProblem(t.cases, p)
        /\ {<<w.cases[i].name, w.cases[i].data>> : i \in Ioi!OfProblem(w.cases, P + 1)}
             = {<<n, r.cases[n]>> : n \in DOMAIN r.cases}
    <2> DEFINE old == t.cases
               map == r.cases
               new == w.cases
               D == Ioi!CaseData
    <2>1. /\ old \in Seq(Ioi!NamedRow(D)) /\ P \in Nat
          /\ \A i \in DOMAIN old : old[i].problem \in 1..P
          /\ IsNamedMap(map) /\ \A n \in DOMAIN map : map[n] \in D
          /\ caseNames \in Ioi!SetToSeqs(DOMAIN map)
          /\ new = old \o Ioi!Rows(P + 1, map, caseNames)
      BY <1>1, <1>2, <1>3, <1>4, <1>5, DataTyped
    <2> HIDE DEF old, map, new, D, P
    <2>2. NamedRowsAfter(old, P, map, caseNames, D, new)
      BY <2>1, NamedRowsAdded
    <2>3. QED
      BY <2>2 DEF old, map, new, D, NamedRowsAfter
  <1>8. /\ w.files \in Seq(Ioi!NamedRow(Ioi!FileData))
        /\ \A i \in DOMAIN t.files : i \in DOMAIN w.files /\ w.files[i] = t.files[i]
        /\ \A i \in DOMAIN w.files : w.files[i].problem \in 1..(P + 1)
        /\ \A p \in 1..P : Ioi!OfProblem(w.files, p) = Ioi!OfProblem(t.files, p)
        /\ {<<w.files[i].name, w.files[i].data>> : i \in Ioi!OfProblem(w.files, P + 1)}
             = {<<n, r.files[n]>> : n \in DOMAIN r.files}
    <2> DEFINE old == t.files
               map == r.files
               new == w.files
               D == Ioi!FileData
    <2>1. /\ old \in Seq(Ioi!NamedRow(D)) /\ P \in Nat
          /\ \A i \in DOMAIN old : old[i].problem \in 1..P
          /\ IsNamedMap(map) /\ \A n \in DOMAIN map : map[n] \in D
          /\ fileNames \in Ioi!SetToSeqs(DOMAIN map)
          /\ new = old \o Ioi!Rows(P + 1, map, fileNames)
      BY <1>1, <1>2, <1>3, <1>4, <1>5, DataTyped
    <2> HIDE DEF old, map, new, D, P
    <2>2. NamedRowsAfter(old, P, map, fileNames, D, new)
      BY <2>1, NamedRowsAdded
    <2>3. QED
      BY <2>2 DEF old, map, new, D, NamedRowsAfter
  <1>9. /\ w.subTasks \in Seq(SubTaskRow)
        /\ \A i \in DOMAIN t.subTasks : i \in DOMAIN w.subTasks /\ w.subTasks[i] = t.subTasks[i]
        /\ \A i \in DOMAIN w.subTasks : w.subTasks[i].problem \in 1..(P + 1)
        /\ \A s \in DOMAIN r.subTasks : /\ S + s \in DOMAIN w.subTasks
                                        /\ w.subTasks[S + s].name = r.subTasks[s].name
        /\ \A p \in 1..P : Ioi!OfProblem(w.subTasks, p) = Ioi!OfProblem(t.subTasks, p)
        /\ Ioi!OfProblem(w.subTasks, P + 1) = {S + s : s \in DOMAIN r.subTasks}
    <2> DEFINE old == t.subTasks
               subs == r.subTasks
               new == w.subTasks
    <2>1. /\ old \in Seq(SubTaskRow) /\ P \in Nat
          /\ \A i \in DOMAIN old : old[i].problem \in 1..P
          /\ subs \in Seq(SubTask)
          /\ new = old \o [s \in DOMAIN subs |-> [problem |-> P + 1, name |-> subs[s].name]]
      BY <1>1, <1>2, <1>3, <1>4, <1>5
    <2> HIDE DEF old, subs, new, P
    <2>2. SubTasksAfter(old, P, subs, new)
      BY <2>1, SubTasksAdded
    <2>3. QED
      BY <2>2 DEF old, subs, new, SubTasksAfter
  <1>10. ASSUME NEW s \in DOMAIN r.subTasks, NEW n \in DOMAIN r.subTasks[s].tests
         PROVE  /\ caseIds[r.subTasks[s].tests[n]] \in Nat
                /\ caseIds[r.subTasks[s].tests[n]] \in DOMAIN w.cases
                /\ w.cases[caseIds[r.subTasks[s].tests[n]]].name = r.subTasks[s].tests[n]
    <2> DEFINE x == r.subTasks[s].tests[n]
               i == CHOOSE i \in DOMAIN caseNames : caseNames[i] = x
    <2>1. x \in DOMAIN r.cases
      BY DEF Ioi!ToSet
    <2>2. /\ Cardinality(DOMAIN r.cases) \in Nat
          /\ caseNames \in [1..Cardinality(DOMAIN r.cases) -> DOMAIN r.cases]
          /\ \E j \in DOMAIN caseNames : caseNames[j] = x
      BY <1>5, <2>1, NamesOnce DEF IsNamedMap
    <2>3. caseIds[x] = C + i
      BY <2>1
    <2> HIDE DEF x, caseIds
    <2>4. i \in DOMAIN caseNames /\ caseNames[i] = x
      BY <2>2
    <2>5. i \in Nat
      BY <2>2, <2>4
    <2> HIDE DEF i
    <2>6. C + i \in Nat /\ C + i \in DOMAIN w.cases /\ w.cases[C + i].name = x
      BY <1>2, <1>7, <2>4, <2>5
    <2>7. QED
      BY <2>3, <2>6 DEF x
  <1>11. \A s \in DOMAIN r.subTasks : subTaskIds[s] = S + s
    OBVIOUS
  <1> HIDE DEF caseIds, subTaskIds, problem
  <1>12. /\ w.links \in Seq(LinkRow)
         /\ \A i \in DOMAIN t.links : i \in DOMAIN w.links /\ w.links[i] = t.links[i]
         /\ \A i \in DOMAIN w.links :
               \/ i \in DOMAIN t.links
               \/ \E s \in DOMAIN r.subTasks : \E n \in DOMAIN r.subTasks[s].tests :
                     w.links[i] = [subTask |-> S + s, case |-> caseIds[r.subTasks[s].tests[n]]]
         /\ \A s \in DOMAIN r.subTasks : \A n \in DOMAIN r.subTasks[s].tests :
               \E i \in DOMAIN w.links :
                  w.links[i] = [subTask |-> S + s, case |-> caseIds[r.subTasks[s].tests[n]]]
    <2> DEFINE old == t.links
               new == w.links
    <2>1. /\ old \in Seq(LinkRow) /\ S \in Nat /\ r.subTasks \in Seq(SubTask)
          /\ \A i \in DOMAIN r.subTasks : \A n \in DOMAIN r.subTasks[i].tests :
                caseIds[r.subTasks[i].tests[n]] \in Nat
          /\ \A i \in DOMAIN r.subTasks : subTaskIds[i] = S + i
          /\ new = old \o Ioi!FlattenSeq([i \in DOMAIN r.subTasks |->
                                             Ioi!LinksOf(r, i, subTaskIds, caseIds)])
      BY <1>1, <1>2, <1>4, <1>5, <1>10, <1>11
    <2> HIDE DEF old, new, S
    <2>2. LinksAfter(old, S, r, caseIds, new)
      BY <2>1, LinksAdded
    <2>3. QED
      BY <2>2 DEF old, new, LinksAfter
  <1> HIDE DEF P, S, C
  <1>13. w \in Ioi!AllTables
    BY <1>4, <1>6, <1>7, <1>8, <1>9, <1>12 DEF Ioi!AllTables, SubTaskRow, LinkRow
  <1>14. Ioi!Linked(w)
    <2>1. ASSUME NEW i \in DOMAIN w.links
          PROVE  w.links[i].subTask \in DOMAIN w.subTasks /\ w.links[i].case \in DOMAIN w.cases
      <3>1. CASE i \in DOMAIN t.links
        BY <1>2, <1>3, <1>7, <1>9, <1>12, <3>1
      <3>2. CASE i \notin DOMAIN t.links
        <4>1. PICK s \in DOMAIN r.subTasks : \E n \in DOMAIN r.subTasks[s].tests :
                 w.links[i] = [subTask |-> S + s, case |-> caseIds[r.subTasks[s].tests[n]]]
          BY <1>12, <3>2
        <4>2. PICK n \in DOMAIN r.subTasks[s].tests :
                 w.links[i] = [subTask |-> S + s, case |-> caseIds[r.subTasks[s].tests[n]]]
          BY <4>1
        <4>3. w.links[i].subTask = S + s /\ w.links[i].case = caseIds[r.subTasks[s].tests[n]]
          BY <4>2
        <4>4. S + s \in DOMAIN w.subTasks
          BY <1>9
        <4>5. caseIds[r.subTasks[s].tests[n]] \in DOMAIN w.cases
          BY <1>10
        <4>6. QED
          BY <4>3, <4>4, <4>5
      <3>3. QED
        BY <3>1, <3>2
    <2>2. QED
      BY <1>6, <1>7, <1>8, <1>9, <2>1 DEF Ioi!Linked
  <1>15. ASSUME NEW s \in 1..S
         PROVE  TestsOf(w, s) = TestsOf(t, s)
    <2>1. ASSUME NEW i \in DOMAIN w.links, w.links[i].subTask = s
          PROVE  i \in DOMAIN t.links
      <3>1. \A k \in DOMAIN r.subTasks : S + k # s
        BY <1>2, <1>5
      <3> DEFINE link(k, n) == [subTask |-> S + k, case |-> caseIds[r.subTasks[k].tests[n]]]
      <3>2. \A k \in DOMAIN r.subTasks : \A n : w.links[i] # link(k, n)
        BY <2>1, <3>1
      <3>3. i \in DOMAIN t.links \/ \E k \in DOMAIN r.subTasks : \E n \in DOMAIN r.subTasks[k].tests :
               w.links[i] = link(k, n)
        BY <1>12, <2>1
      <3> HIDE DEF link
      <3>4. QED
        BY <3>2, <3>3
    <2>2. {i \in DOMAIN w.links : w.links[i].subTask = s} = {i \in DOMAIN t.links : t.links[i].subTask = s}
      BY <1>12, <2>1
    <2>3. \A i \in DOMAIN t.links : w.cases[w.links[i].case].name = t.cases[t.links[i].case].name
      BY <1>3, <1>7, <1>12
    <2>4. QED
      BY <2>2, <2>3, SMTT(30) DEF TestsOf
  <1>16. ASSUME NEW s \in DOMAIN r.subTasks
         PROVE  TestsOf(w, S + s) = Ioi!ToSet(r.subTasks[s].tests)
    <2> DEFINE q == r.subTasks[s].tests
    <2>1. Ioi!ToSet(q) = {q[n] : n \in DOMAIN q}
      BY DEF Ioi!ToSet
    <2>2. ASSUME NEW i \in DOMAIN w.links, w.links[i].subTask = S + s
          PROVE  \E n \in DOMAIN q : w.cases[w.links[i].case].name = q[n]
      <3>1. s \in Nat /\ S + s \notin 1..S /\ \A k \in DOMAIN r.subTasks : S + k = S + s => k = s
        <4>1. Len(r.subTasks) \in Nat /\ DOMAIN r.subTasks = 1..Len(r.subTasks)
          BY <1>5
        <4>2. QED
          BY <1>2, <4>1
      <3>2. i \notin DOMAIN t.links
        BY <1>3, <1>12, <2>2, <3>1
      <3>3. PICK k \in DOMAIN r.subTasks : \E n \in DOMAIN r.subTasks[k].tests :
               w.links[i] = [subTask |-> S + k, case |-> caseIds[r.subTasks[k].tests[n]]]
        BY <1>12, <3>2
      <3>4. k = s
        BY <2>2, <3>1, <3>3
      <3>5. PICK n \in DOMAIN q : w.links[i] = [subTask |-> S + s, case |-> caseIds[q[n]]]
        BY <3>3, <3>4
      <3>6. w.links[i].case = caseIds[q[n]]
        BY <3>5
      <3>7. w.cases[caseIds[q[n]]].name = q[n]
        BY <1>10, SMTT(30)
      <3>8. QED
        BY <3>6, <3>7
    <2>3. ASSUME NEW n \in DOMAIN q
          PROVE  \E i \in DOMAIN w.links : /\ w.links[i].subTask = S + s
                                           /\ w.cases[w.links[i].case].name = q[n]
      <3>1. PICK i \in DOMAIN w.links : w.links[i] = [subTask |-> S + s, case |-> caseIds[q[n]]]
        BY <1>12
      <3>2. w.links[i].subTask = S + s /\ w.links[i].case = caseIds[q[n]]
        BY <3>1
      <3>3. w.cases[caseIds[q[n]]].name = q[n]
        BY <1>10, SMTT(30)
      <3>4. QED
        BY <3>2, <3>3
    <2> HIDE DEF q
    <2>4. TestsOf(w, S + s) = {q[n] : n \in DOMAIN q}
      BY <2>2, <2>3, SMTT(30) DEF TestsOf
    <2>5. QED
      BY <2>1, <2>4 DEF q
  <1>17. ASSUME NEW p \in 1..P
         PROVE  Ioi!ReadBack(w, p) = Ioi!ReadBack(t, p)
    <2>1. {<<w.cases[i].name, w.cases[i].data>> : i \in Ioi!OfProblem(w.cases, p)}
             = {<<t.cases[i].name, t.cases[i].data>> : i \in Ioi!OfProblem(t.cases, p)}
      <3>1. \A i \in Ioi!OfProblem(t.cases, p) : w.cases[i] = t.cases[i]
        BY <1>7 DEF Ioi!OfProblem
      <3>2. QED
        BY <1>7, <3>1
    <2>2. {<<w.files[i].name, w.files[i].data>> : i \in Ioi!OfProblem(w.files, p)}
             = {<<t.files[i].name, t.files[i].data>> : i \in Ioi!OfProblem(t.files, p)}
      <3>1. \A i \in Ioi!OfProblem(t.files, p) : w.files[i] = t.files[i]
        BY <1>8 DEF Ioi!OfProblem
      <3>2. QED
        BY <1>8, <3>1
    <2>3. {<<w.subTasks[s].name, TestsOf(w, s)>> : s \in Ioi!OfProblem(w.subTasks, p)}
             = {<<t.subTasks[s].name, TestsOf(t, s)>> : s \in Ioi!OfProblem(t.subTasks, p)}
      <3>1. \A s \in Ioi!OfProblem(t.subTasks, p) :
               w.subTasks[s] = t.subTasks[s] /\ TestsOf(w, s) = TestsOf(t, s)
        BY <1>2, <1>9, <1>15 DEF Ioi!OfProblem
      <3>2. QED
        BY <1>9, <3>1
    <2>4. QED
      BY <2>1, <2>2, <2>3 DEF Ioi!ReadBack, TestsOf
  <1>18. Ioi!ReadBack(w, P + 1) = Ioi!Wanted(r)
    <2> DEFINE A == {<<w.subTasks[s].name, TestsOf(w, s)>> : s \in Ioi!OfProblem(w.subTasks, P + 1)}
               B == {<<r.subTasks[s].name, Ioi!ToSet(r.subTasks[s].tests)>> : s \in DOMAIN r.subTasks}
    <2>1. ASSUME NEW x \in A PROVE x \in B
      <3>1. PICK k \in Ioi!OfProblem(w.subTasks, P + 1) : x = <<w.subTasks[k].name, TestsOf(w, k)>>
        OBVIOUS
      <3>2. PICK s \in DOMAIN r.subTasks : k = S + s
        BY <1>9, <3>1
      <3>3. x = <<r.subTasks[s].name, Ioi!ToSet(r.subTasks[s].tests)>>
        BY <1>9, <1>16, <3>1, <3>2
      <3>4. QED
        BY <3>3
    <2>2. ASSUME NEW x \in B PROVE x \in A
      <3>1. PICK s \in DOMAIN r.subTasks : x = <<r.subTasks[s].name, Ioi!ToSet(r.subTasks[s].tests)>>
        OBVIOUS
      <3>2. S + s \in Ioi!OfProblem(w.subTasks, P + 1)
        BY <1>9, <3>1
      <3>3. x = <<w.subTasks[S + s].name, TestsOf(w, S + s)>>
        BY <1>9, <1>16, <3>1
      <3>4. QED
        BY <3>2, <3>3
    <2> HIDE DEF A, B
    <2>3. A = B
      BY <2>1, <2>2
    <2>4. QED
      BY <1>7, <1>8, <2>3 DEF A, B, Ioi!ReadBack, Ioi!Wanted, TestsOf
  <1>19. ASSUME NEW p \in DOMAIN w.problems
         PROVE  Ioi!ProblemWhole(w, p)
    <2>1. CASE p \in 1..P
      <3>1. PICK x \in Ioi!Records : Ioi!Key(x) = Ioi!Key(t.problems[p]) /\ Ioi!ReadBack(t, p) = Ioi!Wanted(x)
        BY <1>2, <2>1 DEF Ioi!Whole, Ioi!ProblemWhole
      <3>2. QED
        BY <1>6, <1>17, <2>1, <3>1 DEF Ioi!ProblemWhole
    <2>2. CASE p = P + 1
      <3>1. Ioi!Key(w.problems[p]) = Ioi!Key(r)
        BY <1>6, <2>2 DEF Ioi!Key, problem
      <3>2. QED
        BY <1>18, <2>2, <3>1 DEF Ioi!ProblemWhole
    <2>3. QED
      BY <1>2, <1>6, <2>1, <2>2
  <1>20. Ioi!Whole(w)
    BY <1>13, <1>14, <1>19 DEF Ioi!Whole
  <1>21. Ioi!Continues(t, w)
    BY <1>2, <1>6 DEF Ioi!Continues, P
  <1>22. Ioi!Key(w.problems[P + 1]) = Ioi!Key(r)
    BY <1>6 DEF Ioi!Key, problem
  <1>23. QED
    BY <1>2, <1>6, <1>20, <1>21, <1>22 DEF P

(* A database is not one of the values that are not one. *)
LEMMA WholeProblems ==
    ASSUME NEW t, Ioi!Whole(t)
    PROVE  /\ t \notin {Nil, Partial}
           /\ Len(t.problems) \in Nat /\ DOMAIN t.problems = 1..Len(t.problems)
           /\ Ioi!ProblemsOf(t) = {Ioi!Key(t.problems[i]) : i \in DOMAIN t.problems}
  <1>1. t \in Ioi!AllTables
    BY DEF Ioi!Whole
  <1>2. t \notin {Nil, Partial}
    BY <1>1, NilAssumption
  <1>3. t.problems \in Seq([name : STRING, year : Int])
    BY <1>1 DEF Ioi!AllTables
  <1>4. QED
    BY <1>2, <1>3 DEF Ioi!ProblemsOf

(* The tables the importer creates are whole. *)
LEMMA EmptyTables ==
    Ioi!Whole(Ioi!Tables)
  <1>1. Ioi!Tables \in Ioi!AllTables
    <2>1. \A T : <<>> \in Seq(T)
      OBVIOUS
    <2>2. QED
      BY <2>1 DEF Ioi!Tables, Ioi!AllTables
  <1>2. QED
    BY <1>1 DEF Ioi!Whole, Ioi!Linked, Ioi!Tables

(* What a database is continued by has its problems, where they were. *)
LEMMA Continued ==
    ASSUME NEW t, Ioi!Whole(t), NEW u, Ioi!Whole(u), Ioi!Continues(t, u)
    PROVE  /\ Ioi!ProblemsOf(t) \subseteq Ioi!ProblemsOf(u)
           /\ \A q : Ioi!Meant(t, q) \subseteq Ioi!Meant(u, q)
  <1>1. \A i \in DOMAIN t.problems : i \in DOMAIN u.problems /\ u.problems[i] = t.problems[i]
    BY WholeProblems DEF Ioi!Continues
  <1>2. Ioi!ProblemsOf(t) \subseteq Ioi!ProblemsOf(u)
    BY <1>1, WholeProblems
  <1>3. ASSUME NEW q, NEW i \in Ioi!Meant(t, q)
        PROVE  i \in Ioi!Meant(u, q)
    BY <1>1 DEF Ioi!Meant
  <1>4. QED
    BY <1>2, <1>3

(* Every database continues itself. *)
LEMMA ContinuesItself ==
    ASSUME NEW t, Ioi!Whole(t)
    PROVE  Ioi!Continues(t, t)
  BY WholeProblems DEF Ioi!Continues

(* What continues a continuation continues the first. *)
LEMMA ContinuesOn ==
    ASSUME NEW t, Ioi!Whole(t), NEW u, Ioi!Whole(u), NEW w, Ioi!Whole(w),
           Ioi!Continues(t, u), Ioi!Continues(u, w)
    PROVE  Ioi!Continues(t, w)
  <1>1. /\ Len(t.problems) \in Nat /\ Len(u.problems) \in Nat /\ Len(w.problems) \in Nat
        /\ DOMAIN t.problems = 1..Len(t.problems) /\ DOMAIN u.problems = 1..Len(u.problems)
    BY WholeProblems
  <1>2. Len(t.problems) <= Len(u.problems) /\ Len(u.problems) <= Len(w.problems)
    BY DEF Ioi!Continues
  <1>3. \A i \in DOMAIN t.problems : i \in DOMAIN u.problems
    BY <1>1, <1>2
  <1>4. \A i \in DOMAIN t.problems : t.problems[i] = w.problems[i]
    BY <1>3 DEF Ioi!Continues
  <1>5. Len(t.problems) <= Len(w.problems)
    BY <1>1, <1>2
  <1>6. QED
    BY <1>4, <1>5 DEF Ioi!Continues

-----------------------------------------------------------------------------
(* The steps of the IOI importer. *)

(* The invariant bounds where a run is. *)
LEMMA IoiTypes ==
    ASSUME Ioi!ImportInv
    PROVE  /\ Len(lines) \in Nat /\ at \in Nat /\ 1 <= at /\ at <= Len(lines) + 2
           /\ cnt \in Nat /\ cnt < BatchSize /\ BatchSize \in Nat
  <1>1. Len(lines) \in Nat
    <2>1. CASE lines \in IoiFiles
      BY <2>1, IoiFileSeq
    <2>2. CASE lines = <<>>
      BY <2>2
    <2>3. QED
      BY <2>1, <2>2 DEF Ioi!ImportInv, Ioi!LinesKept
  <1>2. QED
    BY <1>1, ImportAssumption DEF Ioi!ImportInv, Ioi!LinesKept, Ioi!TypeOK

(* A look-up does not notice what only adds to the database it resolved    *)
(* its problem in.                                                         *)
LEMMA LookUndisturbed ==
    ASSUME Ioi!ImportInv, look' = look,
           db = Nil \/ (Ioi!Whole(db') /\ Ioi!Continues(db, db'))
    PROVE  Ioi!LookKept' /\ Ioi!LookupTrue'
  <1>1. ASSUME look.st = "resolved"
        PROVE  Ioi!Opened' # Nil /\ look.id \in Ioi!Meant(Ioi!Opened', look.q)
    <2>1. Ioi!Opened # Nil /\ look.id \in Ioi!Meant(Ioi!Opened, look.q)
      BY <1>1 DEF Ioi!ImportInv, Ioi!LookKept
    <2>2. CASE look.held # Nil
      BY <2>1, <2>2 DEF Ioi!Opened
    <2>3. CASE look.held = Nil
      <3>1. db # Nil /\ look.id \in Ioi!Meant(db, look.q) /\ Ioi!Opened' = db'
        BY <2>1, <2>3 DEF Ioi!Opened
      <3>2. Ioi!Whole(db) /\ Ioi!Whole(db') /\ Ioi!Continues(db, db')
        BY <3>1 DEF Ioi!ImportInv, Ioi!TablesWhole
      <3>3. QED
        BY <3>1, <3>2, Continued, WholeProblems
    <2>4. QED
      BY <2>2, <2>3
  <1>2. Ioi!LookKept'
    BY <1>1 DEF Ioi!ImportInv, Ioi!LookKept
  <1>3. QED
    BY <1>2 DEF Ioi!ImportInv, Ioi!LookupTrue

(* The invariant holds where there is no database yet. *)
LEMMA IoiInitInv ==
    ASSUME Ioi!Init
    PROVE  Ioi!ImportInv
  <1>1. Ioi!TypeOK
    BY ImportAssumption, NilAssumption DEF Ioi!Init, Ioi!TypeOK, Ioi!NoLook
  <1>2. Ioi!TablesWhole
    BY DEF Ioi!Init, Ioi!TablesWhole, Ioi!NoLook
  <1>3. Ioi!LinesKept
    BY DEF Ioi!Init, Ioi!LinesKept
  <1>4. Ioi!CommittedKept
    BY DEF Ioi!Init, Ioi!CommittedKept
  <1>5. Ioi!LookKept /\ Ioi!LookupTrue
    BY DEF Ioi!Init, Ioi!NoLook, Ioi!LookKept, Ioi!LookupTrue
  <1>6. QED
    BY <1>1, <1>2, <1>3, <1>4, <1>5 DEF Ioi!ImportInv

(* A run starts from the database there is, or from empty tables. *)
LEMMA IoiStart ==
    ASSUME Ioi!ImportInv, Ioi!Start
    PROVE  Ioi!ImportInv'
  <1>1. Ioi!Whole(db') /\ db' # Nil /\ db' # Partial /\ tx' = db' /\ (db # Nil => db' = db)
    <2>1. Ioi!Whole(db')
      BY EmptyTables DEF Ioi!ImportInv, Ioi!TablesWhole, Ioi!Start
    <2>2. QED
      BY <2>1, WholeProblems DEF Ioi!Start, Ioi!newBatchWriter
  <1>2. lines' \in IoiFiles /\ Len(lines') \in Nat /\ at' = 1 /\ cnt' = 0 /\ pc' = "import"
    BY IoiFileSeq DEF Ioi!Start, Ioi!newBatchWriter
  <1>3. Ioi!TypeOK'
    BY <1>1, <1>2, ImportAssumption DEF Ioi!ImportInv, Ioi!TypeOK, Ioi!Start
  <1>4. Ioi!TablesWhole'
    BY <1>1, <1>2 DEF Ioi!ImportInv, Ioi!TablesWhole, Ioi!Start
  <1>5. Ioi!LinesKept'
    BY <1>1, <1>2, ContinuesItself DEF Ioi!LinesKept, Ioi!LinesIn
  <1>6. Ioi!CommittedKept'
    <2>1. Ioi!ProblemsOf(db) \subseteq Ioi!ProblemsOf(db')
      <3>1. CASE db = Nil
        BY <3>1 DEF Ioi!ProblemsOf
      <3>2. CASE db # Nil
        BY <1>1, <3>2
      <3>3. QED
        BY <3>1, <3>2
    <2>2. QED
      BY <1>2, <2>1 DEF Ioi!ImportInv, Ioi!CommittedKept, Ioi!Start
  <1>7. Ioi!LookKept' /\ Ioi!LookupTrue'
    BY <1>1, LookUndisturbed, ContinuesItself DEF Ioi!Start
  <1>8. QED
    BY <1>3, <1>4, <1>5, <1>6, <1>7 DEF Ioi!ImportInv

(* A record goes in, and a full batch is committed. *)
LEMMA IoiImportLine ==
    ASSUME Ioi!ImportInv, Ioi!ImportLine
    PROVE  Ioi!ImportInv'
  <1> DEFINE l == lines[at]
             r == Ioi!normalizeRecord(l)
  <1>1. /\ pc = "import" /\ lines \in IoiFiles /\ at \in 1..Len(lines) /\ at' = at + 1
        /\ Ioi!Whole(tx) /\ Ioi!Whole(db) /\ Ioi!Continues(db, tx) /\ Ioi!LinesIn(tx, at - 1)
    BY IoiTypes DEF Ioi!ImportInv, Ioi!TablesWhole, Ioi!LinesKept, Ioi!ImportLine
  <1>2. r \in Ioi!Records /\ IsNormal(r)
    BY <1>1, IoiFileSeq
  <1>3. \A i \in DOMAIN r.subTasks : Ioi!ToSet(r.subTasks[i].tests) \subseteq DOMAIN r.cases
    BY DEF Ioi!ImportLine, Ioi!Refused
  <1>4. PICK caseNames \in Ioi!SetToSeqs(DOMAIN r.cases) :
           tx' = Ioi!WithRecord(tx, r, caseNames, CHOOSE o \in Ioi!SetToSeqs(DOMAIN r.files) : TRUE)
    BY DEF Ioi!ImportLine
  <1>5. (CHOOSE o \in Ioi!SetToSeqs(DOMAIN r.files) : TRUE) \in Ioi!SetToSeqs(DOMAIN r.files)
    BY <1>2, SomeNames DEF IsNormal, IsNamedMap
  <1> HIDE DEF l, r
  <1>6. /\ Ioi!Whole(tx') /\ Ioi!Continues(tx, tx')
        /\ Len(tx.problems) \in Nat /\ Len(tx'.problems) = Len(tx.problems) + 1
        /\ Ioi!Key(tx'.problems[Len(tx.problems) + 1]) = Ioi!Key(r)
    BY <1>1, <1>2, <1>3, <1>4, <1>5, RecordAdded
  <1>7. db' = db \/ db' = tx'
    BY DEF Ioi!ImportLine, Ioi!Commit
  <1>8. Ioi!Whole(db') /\ Ioi!Continues(db, db') /\ Ioi!Continues(db', tx')
    BY <1>1, <1>6, <1>7, ContinuesItself, ContinuesOn
  <1>9. db' \notin {Nil, Partial} /\ tx' \notin {Nil, Partial} /\ db \notin {Nil, Partial}
    BY <1>1, <1>6, <1>8, WholeProblems
  <1>10. Ioi!ProblemsOf(db) \subseteq Ioi!ProblemsOf(db') /\ Ioi!ProblemsOf(tx) \subseteq Ioi!ProblemsOf(tx')
    BY <1>1, <1>6, <1>8, Continued
  <1>11. Ioi!TypeOK'
    <2>1. cnt' \in 0..(BatchSize - 1)
      BY IoiTypes DEF Ioi!ImportLine
    <2>2. QED
      BY <1>9, <2>1 DEF Ioi!ImportInv, Ioi!TypeOK, Ioi!ImportLine
  <1>12. Ioi!TablesWhole'
    BY <1>6, <1>8, <1>9 DEF Ioi!ImportInv, Ioi!TablesWhole, Ioi!ImportLine
  <1>13. Ioi!LinesKept'
    <2>1. Ioi!Key(r) \in Ioi!ProblemsOf(tx')
      BY <1>6, WholeProblems
    <2>2. \A i \in 1..at : i = at \/ i \in 1..(at - 1)
      BY <1>1
    <2>3. \A i \in 1..at : Ioi!Key(Ioi!normalizeRecord(lines[i])) \in Ioi!ProblemsOf(tx')
      BY <1>1, <1>10, <2>1, <2>2 DEF Ioi!LinesIn, r, l
    <2>4. at' - 1 = at /\ at' \in 1..(Len(lines) + 2) /\ at' <= Len(lines) + 1
      BY <1>1, IoiTypes
    <2>5. pc' = "import" /\ lines' = lines
      BY DEF Ioi!ImportLine
    <2>6. QED
      BY <1>1, <1>8, <2>3, <2>4, <2>5 DEF Ioi!LinesKept, Ioi!LinesIn
  <1>14. Ioi!CommittedKept'
    <2>1. committed' \subseteq committed \cup Ioi!ProblemsOf(db')
      BY DEF Ioi!ImportLine, Ioi!Commit
    <2>2. QED
      BY <1>10, <2>1 DEF Ioi!ImportInv, Ioi!CommittedKept, Ioi!ImportLine
  <1>15. Ioi!LookKept' /\ Ioi!LookupTrue'
    BY <1>8, LookUndisturbed DEF Ioi!ImportLine
  <1>16. QED
    BY <1>11, <1>12, <1>13, <1>14, <1>15 DEF Ioi!ImportInv

(* A run that ends leaves the files and the look-up. *)
LEMMA IoiEnds ==
    ASSUME Ioi!ImportInv, pc # "idle", Ioi!Ends, UNCHANGED <<db, committed>>,
           rescue' = IF pc = "rename" /\ rescue = "none" THEN "needed" ELSE rescue
    PROVE  Ioi!ImportInv'
  <1>1. Ioi!TypeOK'
    BY ImportAssumption, NilAssumption DEF Ioi!ImportInv, Ioi!TypeOK, Ioi!Ends
  <1>2. Ioi!TablesWhole'
    BY DEF Ioi!ImportInv, Ioi!TablesWhole, Ioi!Ends
  <1>3. Ioi!LinesKept'
    BY DEF Ioi!LinesKept, Ioi!Ends
  <1>4. Ioi!CommittedKept'
    BY DEF Ioi!ImportInv, Ioi!CommittedKept, Ioi!Ends
  <1>5. db = Nil \/ (Ioi!Whole(db') /\ Ioi!Continues(db, db'))
    BY ContinuesItself DEF Ioi!ImportInv, Ioi!TablesWhole
  <1>6. Ioi!LookKept' /\ Ioi!LookupTrue'
    BY <1>5, LookUndisturbed DEF Ioi!Ends
  <1>7. QED
    BY <1>1, <1>2, <1>3, <1>4, <1>6 DEF Ioi!ImportInv

(* The last batch is committed: all lines are in the database. *)
LEMMA IoiLastCommit ==
    ASSUME Ioi!ImportInv, Ioi!LastCommit
    PROVE  Ioi!ImportInv'
  <1>1. /\ Ioi!Whole(tx) /\ Ioi!Whole(db) /\ Ioi!Continues(db, tx) /\ Ioi!LinesIn(tx, at - 1)
        /\ db' = tx /\ at = Len(lines) + 1
    BY IoiTypes DEF Ioi!ImportInv, Ioi!TablesWhole, Ioi!LinesKept, Ioi!LastCommit, Ioi!Commit
  <1>2. tx \notin {Nil, Partial} /\ Ioi!ProblemsOf(db) \subseteq Ioi!ProblemsOf(tx)
    BY <1>1, WholeProblems, Continued
  <1>3. Ioi!TypeOK'
    BY <1>1, <1>2 DEF Ioi!ImportInv, Ioi!TypeOK, Ioi!LastCommit, Ioi!Goes
  <1>4. Ioi!TablesWhole'
    BY <1>1, <1>2 DEF Ioi!ImportInv, Ioi!TablesWhole, Ioi!LastCommit, Ioi!Goes
  <1>5. Ioi!LinesKept'
    <2>1. at - 1 = Len(lines)
      BY <1>1, IoiTypes
    <2>2. QED
      BY <1>1, <2>1 DEF Ioi!ImportInv, Ioi!LinesKept, Ioi!LinesIn, Ioi!LastCommit, Ioi!Goes
  <1>6. Ioi!CommittedKept'
    BY <1>1, <1>2 DEF Ioi!ImportInv, Ioi!CommittedKept, Ioi!LastCommit, Ioi!Goes, Ioi!Commit
  <1>7. Ioi!LookKept' /\ Ioi!LookupTrue'
    BY <1>1, LookUndisturbed DEF Ioi!LastCommit, Ioi!Goes
  <1>8. QED
    BY <1>3, <1>4, <1>5, <1>6, <1>7 DEF Ioi!ImportInv

(* A step that touches only the file .vacuum. *)
LEMMA LookBesideVacuum ==
    ASSUME Ioi!ImportInv, UNCHANGED <<db, look>>
    PROVE  Ioi!LookKept' /\ Ioi!LookupTrue'
  <1>1. db = Nil \/ (Ioi!Whole(db') /\ Ioi!Continues(db, db'))
    BY ContinuesItself DEF Ioi!ImportInv, Ioi!TablesWhole
  <1>2. QED
    BY <1>1, LookUndisturbed

(* The .vacuum file of an earlier run goes; it may have been all there was *)
(* of the data.                                                            *)
LEMMA IoiRemoveVacuum ==
    ASSUME Ioi!ImportInv, Ioi!RemoveVacuum
    PROVE  Ioi!ImportInv'
  <1>1. Ioi!TypeOK'
    BY DEF Ioi!ImportInv, Ioi!TypeOK, Ioi!RemoveVacuum, Ioi!Goes
  <1>2. Ioi!TablesWhole'
    BY DEF Ioi!ImportInv, Ioi!TablesWhole, Ioi!RemoveVacuum, Ioi!Goes
  <1>3. Ioi!LinesKept'
    BY DEF Ioi!ImportInv, Ioi!LinesKept, Ioi!LinesIn, Ioi!RemoveVacuum, Ioi!Goes
  <1>4. Ioi!CommittedKept'
    BY DEF Ioi!ImportInv, Ioi!CommittedKept, Ioi!RemoveVacuum, Ioi!Goes
  <1>5. Ioi!LookKept' /\ Ioi!LookupTrue'
    BY LookBesideVacuum DEF Ioi!RemoveVacuum, Ioi!Goes
  <1>6. QED
    BY <1>1, <1>2, <1>3, <1>4, <1>5 DEF Ioi!ImportInv

(* VACUUM INTO begins a file that is no database yet. *)
LEMMA IoiVacuumBegins ==
    ASSUME Ioi!ImportInv, Ioi!VacuumBegins
    PROVE  Ioi!ImportInv'
  <1>1. Ioi!TypeOK'
    BY DEF Ioi!ImportInv, Ioi!TypeOK, Ioi!VacuumBegins, Ioi!Goes
  <1>2. Ioi!TablesWhole'
    BY DEF Ioi!ImportInv, Ioi!TablesWhole, Ioi!VacuumBegins, Ioi!Goes
  <1>3. Ioi!LinesKept'
    BY DEF Ioi!ImportInv, Ioi!LinesKept, Ioi!LinesIn, Ioi!VacuumBegins, Ioi!Goes
  <1>4. Ioi!CommittedKept'
    BY DEF Ioi!ImportInv, Ioi!CommittedKept, Ioi!VacuumBegins, Ioi!Goes
  <1>5. Ioi!LookKept' /\ Ioi!LookupTrue'
    BY LookBesideVacuum DEF Ioi!VacuumBegins, Ioi!Goes
  <1>6. QED
    BY <1>1, <1>2, <1>3, <1>4, <1>5 DEF Ioi!ImportInv

(* It ends with a copy of the database. *)
LEMMA IoiVacuumEnds ==
    ASSUME Ioi!ImportInv, Ioi!VacuumEnds
    PROVE  Ioi!ImportInv'
  <1>1. Ioi!TypeOK'
    BY DEF Ioi!ImportInv, Ioi!TypeOK, Ioi!VacuumEnds, Ioi!Goes
  <1>2. Ioi!TablesWhole'
    BY DEF Ioi!ImportInv, Ioi!TablesWhole, Ioi!VacuumEnds, Ioi!Goes
  <1>3. Ioi!LinesKept'
    BY DEF Ioi!ImportInv, Ioi!LinesKept, Ioi!LinesIn, Ioi!VacuumEnds, Ioi!Goes
  <1>4. Ioi!CommittedKept'
    BY DEF Ioi!ImportInv, Ioi!CommittedKept, Ioi!VacuumEnds, Ioi!Goes
  <1>5. Ioi!LookKept' /\ Ioi!LookupTrue'
    BY LookBesideVacuum DEF Ioi!VacuumEnds, Ioi!Goes
  <1>6. QED
    BY <1>1, <1>2, <1>3, <1>4, <1>5 DEF Ioi!ImportInv

(* The look-up keeps the file that is removed. *)
LEMMA IoiRemoveDatabase ==
    ASSUME Ioi!ImportInv, Ioi!RemoveDatabase
    PROVE  Ioi!ImportInv'
  <1>1. vac = db /\ db # Nil /\ Ioi!Whole(db) /\ db \notin {Nil, Partial}
    BY WholeProblems DEF Ioi!ImportInv, Ioi!TablesWhole, Ioi!RemoveDatabase
  <1>2. /\ look = [st |-> look.st, q |-> look.q, held |-> look.held, id |-> look.id, answer |-> look.answer]
        /\ look' = [look EXCEPT !.held = IF look.st = "resolved" /\ look.held = Nil THEN db ELSE look.held]
    BY DEF Ioi!ImportInv, Ioi!LookKept, Ioi!RemoveDatabase, Ioi!Unlinked
  <1>3. /\ look' = [st |-> look'.st, q |-> look'.q, held |-> look'.held, id |-> look'.id, answer |-> look'.answer]
        /\ look'.st = look.st /\ look'.q = look.q /\ look'.id = look.id /\ look'.answer = look.answer
        /\ look'.held = IF look.st = "resolved" /\ look.held = Nil THEN db ELSE look.held
    BY <1>2
  <1>4. Ioi!TypeOK'
    BY <1>3, NilAssumption DEF Ioi!ImportInv, Ioi!TypeOK, Ioi!RemoveDatabase
  <1>5. Ioi!TablesWhole'
    BY <1>1, <1>3 DEF Ioi!ImportInv, Ioi!TablesWhole, Ioi!RemoveDatabase
  <1>6. Ioi!LinesKept'
    BY <1>1 DEF Ioi!ImportInv, Ioi!LinesKept, Ioi!LinesIn, Ioi!RemoveDatabase
  <1>7. Ioi!CommittedKept'
    BY <1>1 DEF Ioi!ImportInv, Ioi!CommittedKept, Ioi!RemoveDatabase
  <1>8. Ioi!LookKept'
    <2>1. look.st # "resolved" => look'.held = Nil
      BY <1>3 DEF Ioi!ImportInv, Ioi!LookKept
    <2>2. ASSUME look.st = "resolved"
          PROVE  Ioi!Opened' # Nil /\ look'.id \in Ioi!Meant(Ioi!Opened', look'.q)
      <3>1. Ioi!Opened # Nil /\ look.id \in Ioi!Meant(Ioi!Opened, look.q)
        BY <2>2 DEF Ioi!ImportInv, Ioi!LookKept
      <3>2. Ioi!Opened' = Ioi!Opened
        BY <1>1, <1>3, <2>2 DEF Ioi!Opened
      <3>3. QED
        BY <1>3, <3>1, <3>2
    <2>3. QED
      BY <1>3, <2>1, <2>2 DEF Ioi!LookKept
  <1>9. Ioi!LookupTrue'
    BY <1>3 DEF Ioi!ImportInv, Ioi!LookupTrue
  <1>10. QED
    BY <1>4, <1>5, <1>6, <1>7, <1>8, <1>9 DEF Ioi!ImportInv

(* The copy takes the name of the database. *)
LEMMA IoiRename ==
    ASSUME Ioi!ImportInv, Ioi!Rename
    PROVE  Ioi!ImportInv'
  <1>1. db = Nil /\ vac \notin {Nil, Partial} /\ Ioi!Whole(vac) /\ at = Len(lines) + 1
    BY DEF Ioi!ImportInv, Ioi!TablesWhole, Ioi!LinesKept, Ioi!Rename
  <1>2. Ioi!TypeOK'
    BY <1>1, ImportAssumption, NilAssumption DEF Ioi!ImportInv, Ioi!TypeOK, Ioi!Rename
  <1>3. Ioi!TablesWhole'
    BY <1>1 DEF Ioi!ImportInv, Ioi!TablesWhole, Ioi!Rename
  <1>4. Ioi!LinesKept'
    BY <1>1, IoiTypes DEF Ioi!ImportInv, Ioi!LinesKept, Ioi!LinesIn, Ioi!Rename
  <1>5. Ioi!CommittedKept'
    BY <1>1 DEF Ioi!ImportInv, Ioi!CommittedKept, Ioi!Rename
  <1>6. Ioi!LookKept' /\ Ioi!LookupTrue'
    BY <1>1, LookUndisturbed DEF Ioi!Rename
  <1>7. QED
    BY <1>2, <1>3, <1>4, <1>5, <1>6 DEF Ioi!ImportInv

-----------------------------------------------------------------------------
(* The steps of the look-up. *)

(* None of them touches the importer or the files. *)
LEMMA BesideLook ==
    ASSUME Ioi!ImportInv, UNCHANGED <<Ioi!importerVars, db, vac, committed, rescue>>,
           look'.st \in {"idle", "asked", "resolved", "done", "failed"}, look'.held \in {Nil, look.held}
    PROVE  Ioi!TypeOK' /\ Ioi!TablesWhole' /\ Ioi!LinesKept' /\ Ioi!CommittedKept'
  <1>1. UNCHANGED <<pc, at, runs, lines, tx, cnt, db, vac, committed, rescue>>
    BY DEF Ioi!importerVars
  <1>2. Ioi!TypeOK'
    BY <1>1 DEF Ioi!ImportInv, Ioi!TypeOK
  <1>3. Ioi!TablesWhole'
    BY <1>1 DEF Ioi!ImportInv, Ioi!TablesWhole
  <1>4. Ioi!LinesKept'
    BY <1>1 DEF Ioi!ImportInv, Ioi!LinesKept, Ioi!LinesIn
  <1>5. Ioi!CommittedKept'
    BY <1>1 DEF Ioi!ImportInv, Ioi!CommittedKept
  <1>6. QED
    BY <1>2, <1>3, <1>4, <1>5

(* A look-up finds the database. *)
LEMMA IoiOpenReadonly ==
    ASSUME Ioi!ImportInv, Ioi!openReadonly
    PROVE  Ioi!ImportInv'
  <1>1. PICK q \in Queries : look' = [Ioi!NoLook EXCEPT !.st = "asked", !.q = q]
    BY DEF Ioi!openReadonly
  <1>2. look' = [st |-> "asked", q |-> q, held |-> Nil, id |-> 0, answer |-> Nil]
    BY <1>1 DEF Ioi!NoLook
  <1>3. Ioi!LookKept' /\ Ioi!LookupTrue'
    BY <1>2 DEF Ioi!LookKept, Ioi!LookupTrue
  <1>4. QED
    BY <1>2, <1>3, BesideLook DEF Ioi!ImportInv, Ioi!openReadonly

(* It resolves its problem, in the file it has opened from now on. *)
LEMMA IoiResolve ==
    ASSUME Ioi!ImportInv, Ioi!resolveProblemID
    PROVE  Ioi!ImportInv'
  <1> DEFINE found == Ioi!Meant(db, look.q)
             id == CHOOSE i \in found : TRUE
  <1>1. /\ look = [st |-> "asked", q |-> look.q, held |-> Nil, id |-> look.id, answer |-> look.answer]
        /\ db # Nil
    BY DEF Ioi!ImportInv, Ioi!LookKept, Ioi!resolveProblemID
  <1>2. CASE Ioi!Cardinality(found) = 1
    <2>1. look' = [look EXCEPT !.st = "resolved", !.id = id]
      BY <1>2 DEF Ioi!resolveProblemID
    <2>2. found # {}
      BY <1>2, SameCardinality, FS_EmptySet
    <2> HIDE DEF found
    <2>3. id \in found
      BY <2>2
    <2> HIDE DEF id
    <2>4. look' = [st |-> "resolved", q |-> look.q, held |-> Nil, id |-> id, answer |-> look.answer]
      <3>1. PICK s : s = [look EXCEPT !.st = "resolved"]
        OBVIOUS
      <3>2. s = [st |-> "resolved", q |-> look.q, held |-> Nil, id |-> look.id, answer |-> look.answer]
        BY <1>1, <3>1
      <3>3. look' = [s EXCEPT !.id = id]
        BY <2>1, <3>1
      <3>4. QED
        BY <3>2, <3>3
    <2>5. Ioi!Opened' = db
      <3>1. look'.held = Nil
        BY <2>4
      <3>2. db' = db
        BY DEF Ioi!resolveProblemID
      <3>3. QED
        BY <3>1, <3>2 DEF Ioi!Opened
    <2>6. look'.id \in Ioi!Meant(Ioi!Opened', look'.q)
      BY <2>3, <2>4, <2>5 DEF found
    <2>7. Ioi!LookKept' /\ Ioi!LookupTrue'
      BY <1>1, <2>4, <2>5, <2>6 DEF Ioi!LookKept, Ioi!LookupTrue
    <2>8. QED
      BY <2>4, <2>7, BesideLook DEF Ioi!ImportInv, Ioi!resolveProblemID
  <1>3. CASE Ioi!Cardinality(found) # 1
    <2>1. look' = [look EXCEPT !.st = "failed"]
      BY <1>3 DEF Ioi!resolveProblemID
    <2>2. look' = [st |-> "failed", q |-> look.q, held |-> Nil, id |-> look.id, answer |-> look.answer]
      BY <1>1, <2>1
    <2>3. Ioi!LookKept' /\ Ioi!LookupTrue'
      BY <2>2 DEF Ioi!LookKept, Ioi!LookupTrue
    <2>4. QED
      BY <2>2, <2>3, BesideLook DEF Ioi!ImportInv, Ioi!resolveProblemID
  <1>4. QED
    BY <1>2, <1>3

(* It finds no file to open. *)
LEMMA IoiOpenFails ==
    ASSUME Ioi!ImportInv, Ioi!OpenFails
    PROVE  Ioi!ImportInv'
  <1>1. look = [st |-> "asked", q |-> look.q, held |-> Nil, id |-> look.id, answer |-> look.answer]
    BY DEF Ioi!ImportInv, Ioi!LookKept, Ioi!OpenFails
  <1>2. look' = [st |-> "failed", q |-> look.q, held |-> Nil, id |-> look.id, answer |-> look.answer]
    BY <1>1 DEF Ioi!OpenFails
  <1>3. Ioi!LookKept' /\ Ioi!LookupTrue'
    BY <1>2 DEF Ioi!LookKept, Ioi!LookupTrue
  <1>4. QED
    BY <1>2, <1>3, BesideLook DEF Ioi!ImportInv, Ioi!OpenFails

(* What record r says that a look-up may answer. *)
Told(r) == IF look.q.case # ""
           THEN {r.cases[n] : n \in {look.q.case} \cap DOMAIN r.cases}
           ELSE {<<n, r.files[n]>> : n \in DOMAIN r.files}

(* What is fetched of a problem that is one record is what that says. *)
LEMMA FetchedTrue ==
    ASSUME NEW t, NEW r, Ioi!ReadBack(t, look.id) = Ioi!Wanted(r)
    PROVE  Ioi!Fetched(t) = Told(r)
  <1> DEFINE p == look.id
             c == look.q.case
             own == Ioi!OfProblem(t.cases, p)
  <1>1. {<<t.cases[i].name, t.cases[i].data>> : i \in own} = {<<n, r.cases[n]>> : n \in DOMAIN r.cases}
    BY DEF Ioi!ReadBack, Ioi!Wanted
  <1>2. {<<t.files[i].name, t.files[i].data>> : i \in Ioi!OfProblem(t.files, p)}
           = {<<n, r.files[n]>> : n \in DOMAIN r.files}
    BY DEF Ioi!ReadBack, Ioi!Wanted
  <1>3. {t.cases[i].data : i \in {i \in own : t.cases[i].name = c}}
           = {r.cases[n] : n \in {c} \cap DOMAIN r.cases}
    <2> HIDE DEF own, c
    <2>1. ASSUME NEW i \in own, t.cases[i].name = c
          PROVE  c \in DOMAIN r.cases /\ t.cases[i].data = r.cases[c]
      <3>1. <<t.cases[i].name, t.cases[i].data>> \in {<<n, r.cases[n]>> : n \in DOMAIN r.cases}
        BY <1>1
      <3>2. QED
        BY <2>1, <3>1
    <2>2. ASSUME c \in DOMAIN r.cases
          PROVE  \E i \in own : t.cases[i].name = c /\ t.cases[i].data = r.cases[c]
      <3>1. <<c, r.cases[c]>> \in {<<t.cases[i].name, t.cases[i].data>> : i \in own}
        BY <1>1, <2>2
      <3>2. QED
        BY <3>1
    <2>3. QED
      BY <2>1, <2>2
  <1>4. QED
    BY <1>2, <1>3 DEF Ioi!Fetched, Told

(* It fetches what the file it opened has of the problem. *)
LEMMA IoiFetch ==
    ASSUME Ioi!ImportInv, Ioi!fetch
    PROVE  Ioi!ImportInv'
  <1> DEFINE t == Ioi!Opened
             fetched == Ioi!Fetched(t)
  <1>1. /\ look = [st |-> "resolved", q |-> look.q, held |-> look.held, id |-> look.id, answer |-> look.answer]
        /\ t # Nil /\ look.id \in Ioi!Meant(t, look.q)
    BY DEF Ioi!ImportInv, Ioi!LookKept, Ioi!fetch
  <1>2. look' = IF fetched = {} THEN [look EXCEPT !.st = "failed", !.held = Nil]
                ELSE [look EXCEPT !.st = "done", !.held = Nil, !.answer = fetched]
    BY DEF Ioi!fetch
  <1>3. Ioi!Whole(t)
    BY <1>1 DEF Ioi!ImportInv, Ioi!TablesWhole, Ioi!Opened
  <1>4. /\ look.id \in DOMAIN t.problems
        /\ look.q.id = 0 => /\ t.problems[look.id].name = look.q.name
                            /\ look.q.year > 0 => t.problems[look.id].year = look.q.year
    BY <1>1 DEF Ioi!Meant
  <1>5. PICK r \in Ioi!Records : /\ Ioi!Key(r) = Ioi!Key(t.problems[look.id])
                                 /\ Ioi!ReadBack(t, look.id) = Ioi!Wanted(r)
    BY <1>3, <1>4 DEF Ioi!Whole, Ioi!ProblemWhole
  <1>6. r.name = t.problems[look.id].name /\ r.year = t.problems[look.id].year
    BY <1>5 DEF Ioi!Key
  <1>7. fetched = Told(r)
    <2>1. Ioi!ReadBack(t, look.id) = Ioi!Wanted(r)
      BY <1>5
    <2> HIDE DEF t
    <2>2. QED
      BY <2>1, FetchedTrue
  <1> HIDE DEF t, fetched
  <1>8. CASE fetched = {}
    <2>1. look' = [st |-> "failed", q |-> look.q, held |-> Nil, id |-> look.id, answer |-> look.answer]
      BY <1>1, <1>2, <1>8
    <2>2. Ioi!LookKept' /\ Ioi!LookupTrue'
      BY <2>1 DEF Ioi!LookKept, Ioi!LookupTrue
    <2>3. QED
      BY <2>1, <2>2, BesideLook DEF Ioi!ImportInv, Ioi!fetch
  <1>9. CASE fetched # {}
    <2>1. look' = [st |-> "done", q |-> look.q, held |-> Nil, id |-> look.id, answer |-> fetched]
      BY <1>1, <1>2, <1>9
    <2>2. look.q.id = 0 => r.name = look.q.name /\ (look.q.year > 0 => r.year = look.q.year)
      BY <1>4, <1>6
    <2>3. look'.answer = IF look'.q.case # ""
                         THEN {r.cases[n] : n \in {look'.q.case} \cap DOMAIN r.cases}
                         ELSE {<<n, r.files[n]>> : n \in DOMAIN r.files}
      BY <1>7, <2>1 DEF Told
    <2>4. Ioi!LookupTrue'
      BY <2>1, <2>2, <2>3 DEF Ioi!LookupTrue
    <2>5. Ioi!LookKept'
      BY <2>1 DEF Ioi!LookKept
    <2>6. QED
      BY <2>1, <2>4, <2>5, BesideLook DEF Ioi!ImportInv, Ioi!fetch
  <1>10. QED
    BY <1>8, <1>9

(* Every step of the importer and of a look-up keeps the invariant. *)
LEMMA IoiNextInv ==
    ASSUME Ioi!ImportInv, Ioi!Next
    PROVE  Ioi!ImportInv'
  <1>1. CASE Ioi!LineFails
    <2>1. Ioi!Ends /\ UNCHANGED <<db, committed, rescue>> /\ pc = "import"
      BY <1>1 DEF Ioi!LineFails
    <2>2. QED
      BY <2>1, IoiEnds
  <1>2. CASE Ioi!Dies
    BY <1>2, IoiEnds DEF Ioi!Dies
  <1>3. CASE Ioi!Look
    BY <1>3, IoiOpenReadonly, IoiResolve, IoiOpenFails, IoiFetch DEF Ioi!Look
  <1>4. QED
    BY <1>1, <1>2, <1>3, IoiStart, IoiImportLine, IoiLastCommit, IoiRemoveVacuum, IoiVacuumBegins,
       IoiVacuumEnds, IoiRemoveDatabase, IoiRename DEF Ioi!Next, Ioi!Import

(* So does a step that leaves their variables alone. *)
LEMMA IoiUnchanged ==
    ASSUME Ioi!ImportInv, UNCHANGED Ioi!ioiVars
    PROVE  Ioi!ImportInv'
  <1>1. UNCHANGED <<pc, at, runs, lines, tx, cnt, db, vac, look, committed, rescue>>
    BY DEF Ioi!ioiVars, Ioi!importerVars
  <1>2. Ioi!TypeOK' /\ Ioi!TablesWhole' /\ Ioi!LinesKept' /\ Ioi!CommittedKept'
    BY <1>1, BesideLook DEF Ioi!importerVars, Ioi!ImportInv, Ioi!TypeOK
  <1>3. Ioi!LookKept' /\ Ioi!LookupTrue'
    BY <1>1, LookBesideVacuum
  <1>4. QED
    BY <1>2, <1>3 DEF Ioi!ImportInv

(* The invariant of the IOI importer and its look-up. *)
THEOREM IoiSafe == TestDataSpec => []OfIoi(Ioi!ImportInv)
  <1>1. TestDataInit => OfIoi(Ioi!ImportInv)
    BY IoiInitInv DEF TestDataInit, OfIoi
  <1>2. OfIoi(Ioi!ImportInv) /\ [TestDataNext]_testDataVars => OfIoi(Ioi!ImportInv)'
    <2> SUFFICES ASSUME OfIoi(Ioi!ImportInv), [TestDataNext]_testDataVars,
                        tool' = "ioi_json_to_sql"
                 PROVE  Ioi!ImportInv'
      BY DEF OfIoi
    <2>1. CASE ImportsIoi
      BY <2>1, IoiNextInv DEF ImportsIoi, OfIoi
    <2>2. CASE UNCHANGED testDataVars
      BY <2>2, IoiUnchanged DEF OfIoi, testDataVars, sharedVars, ioiVars, Ioi!ioiVars, Ioi!importerVars
    <2>3. ~Builds /\ ~ImportsCodeforces
      BY DEF Builds, ImportsCodeforces
    <2>4. QED
      BY <2>1, <2>2, <2>3 DEF TestDataNext
  <1>3. QED
    BY <1>1, <1>2, PTL DEF TestDataSpec

(* Every problem a reader of the IOI database can find is whole, its ids   *)
(* joined over batches, runs and failures, and a run that went through has *)
(* left all its lines.                                                     *)
THEOREM ImportedStaysWhole == TestDataSpec => []ImportedWhole
  <1>1. OfIoi(Ioi!ImportInv) => ImportedWhole
    <2> SUFFICES ASSUME OfIoi(Ioi!ImportInv), tool = "ioi_json_to_sql"
                 PROVE  Ioi!ImportedWhole
      BY DEF ImportedWhole, OfIoi
    <2>1. db # Nil => \A p \in DOMAIN db.problems : Ioi!ProblemWhole(db, p)
      BY DEF OfIoi, Ioi!ImportInv, Ioi!TablesWhole, Ioi!Whole
    <2>2. DOMAIN lines = 1..Len(lines)
      <3>1. CASE lines \in IoiFiles
        BY <3>1, IoiFileSeq
      <3>2. CASE lines = <<>>
        BY <3>2
      <3>3. QED
        BY <3>1, <3>2 DEF OfIoi, Ioi!ImportInv, Ioi!LinesKept
    <2>3. QED
      BY <2>1, <2>2 DEF OfIoi, Ioi!ImportInv, Ioi!LinesKept, Ioi!LinesIn, Ioi!ImportedWhole
  <1>2. QED
    BY <1>1, IoiSafe, PTL

(* What was committed is in the database or in its finished copy, whenever *)
(* the importer fails between the VACUUM, the remove and the rename;       *)
(* unless a run removed the copy that alone had it.                        *)
THEOREM CommittedNotLost == TestDataSpec => []NothingLost
  <1>1. OfIoi(Ioi!ImportInv) => NothingLost
    BY DEF NothingLost, OfIoi, Ioi!ImportInv, Ioi!CommittedKept, Ioi!NothingLost
  <1>2. QED
    BY <1>1, IoiSafe, PTL

(* A look-up that answers gives what one line says of the problem it asked *)
(* for, and all of it, although the importer may have replaced the file    *)
(* between its two queries.                                                *)
THEOREM LookupTellsTrue == TestDataSpec => []LookupTrue
  <1>1. OfIoi(Ioi!ImportInv) => LookupTrue
    BY DEF LookupTrue, OfIoi, Ioi!ImportInv
  <1>2. QED
    BY <1>1, IoiSafe, PTL

-----------------------------------------------------------------------------
(* The loops of the binary file. *)

(* Every number up to a bound is in a set that has 0 and what follows. *)
LEMMA EveryNumber ==
    ASSUME NEW n \in Nat, NEW S, 0 \in S, \A i \in 1..n : i - 1 \in S => i \in S
    PROVE  \A i \in 0..n : i \in S
  <1> DEFINE Wrong == {i \in 0..n : i \notin S}
  <1> SUFFICES ASSUME Wrong # {} PROVE FALSE
    OBVIOUS
  <1>1. Wrong \subseteq Nat
    OBVIOUS
  <1> HIDE DEF Wrong
  <1>2. PICK i \in Wrong : \A k \in Wrong : i <= k
    BY <1>1, LeastNumber
  <1>3. i \in 1..n /\ i \notin S
    BY <1>2 DEF Wrong
  <1>4. i - 1 \in 0..n /\ i - 1 \notin Wrong
    BY <1>2, <1>3
  <1>5. QED
    BY <1>3, <1>4 DEF Wrong

(* g is what the loop over the lines of an input computes. *)
LineLoop(g, q, n) ==
    g = [i \in 0..n |-> IF i = 0 THEN [data |-> <<>>, index |-> <<>>] ELSE ImportLine(g[i - 1], q[i])]

(* A function satisfies the equation of the loop over the lines. *)
LEMMA WrittenExists ==
    ASSUME NEW q, NEW n \in Nat
    PROVE  \E g : LineLoop(g, q, n)
  <1> DEFINE S == {k \in Nat : \E g : LineLoop(g, q, k)}
  <1>1. 0 \in S
    <2>1. LineLoop([i \in 0..0 |-> [data |-> <<>>, index |-> <<>>]], q, 0)
      BY DEF LineLoop
    <2>2. QED
      BY <2>1
  <1>2. ASSUME NEW k \in 1..n, k - 1 \in S
        PROVE  k \in S
    <2>1. PICK g : LineLoop(g, q, k - 1)
      BY <1>2
    <2> DEFINE h == [i \in 0..k |-> IF i < k THEN g[i] ELSE ImportLine(g[i - 1], q[i])]
    <2>2. k \in Nat /\ 1 <= k /\ k - 1 \in Nat
      OBVIOUS
    <2>3. ASSUME NEW i \in 0..k
          PROVE  h[i] = IF i = 0 THEN [data |-> <<>>, index |-> <<>>] ELSE ImportLine(h[i - 1], q[i])
      <3>1. i \in Nat /\ 0 <= i /\ i <= k
        BY <2>2
      <3>2. CASE i < k
        <4>1. h[i] = g[i] /\ i \in 0..(k - 1)
          BY <2>2, <3>1, <3>2
        <4>2. g[i] = IF i = 0 THEN [data |-> <<>>, index |-> <<>>] ELSE ImportLine(g[i - 1], q[i])
          BY <2>1, <4>1 DEF LineLoop
        <4>3. i # 0 => h[i - 1] = g[i - 1]
          BY <2>2, <3>1, <3>2
        <4>4. QED
          BY <4>1, <4>2, <4>3
      <3>3. CASE i = k
        <4>1. h[i] = ImportLine(g[i - 1], q[i]) /\ i # 0
          BY <2>2, <3>1, <3>3
        <4>2. h[i - 1] = g[i - 1]
          BY <2>2, <3>1, <3>3
        <4>3. QED
          BY <4>1, <4>2
      <3>4. QED
        BY <2>2, <3>1, <3>2, <3>3
    <2>4. LineLoop(h, q, k)
      BY <2>3 DEF LineLoop
    <2>5. QED
      BY <2>2, <2>4
  <1> HIDE DEF S
  <1>3. n \in S
    BY <1>1, <1>2, EveryNumber
  <1>4. QED
    BY <1>3 DEF S

(* g is what the loop over the cases of a line computes. *)
CaseLoop(g, l, pos, n) ==
    g = [i \in 0..n |-> IF i = 0 THEN [data |-> <<>>, index |-> ProblemHead(l)] ELSE WriteCase(g[i - 1], l.cases[i], pos)]

(* One satisfies that of the loop over the cases. *)
LEMMA ProblemExists ==
    ASSUME NEW l, NEW pos, NEW n \in Nat
    PROVE  \E g : CaseLoop(g, l, pos, n)
  <1> DEFINE S == {k \in Nat : \E g : CaseLoop(g, l, pos, k)}
  <1>1. 0 \in S
    <2>1. CaseLoop([i \in 0..0 |-> [data |-> <<>>, index |-> ProblemHead(l)]], l, pos, 0)
      BY DEF CaseLoop
    <2>2. QED
      BY <2>1
  <1>2. ASSUME NEW k \in 1..n, k - 1 \in S
        PROVE  k \in S
    <2>1. PICK g : CaseLoop(g, l, pos, k - 1)
      BY <1>2
    <2> DEFINE h == [i \in 0..k |-> IF i < k THEN g[i] ELSE WriteCase(g[i - 1], l.cases[i], pos)]
    <2>2. k \in Nat /\ 1 <= k /\ k - 1 \in Nat
      OBVIOUS
    <2>3. ASSUME NEW i \in 0..k
          PROVE  h[i] = IF i = 0 THEN [data |-> <<>>, index |-> ProblemHead(l)] ELSE WriteCase(h[i - 1], l.cases[i], pos)
      <3>1. i \in Nat /\ 0 <= i /\ i <= k
        BY <2>2
      <3>2. CASE i < k
        <4>1. h[i] = g[i] /\ i \in 0..(k - 1)
          BY <2>2, <3>1, <3>2
        <4>2. g[i] = IF i = 0 THEN [data |-> <<>>, index |-> ProblemHead(l)] ELSE WriteCase(g[i - 1], l.cases[i], pos)
          BY <2>1, <4>1 DEF CaseLoop
        <4>3. i # 0 => h[i - 1] = g[i - 1]
          BY <2>2, <3>1, <3>2
        <4>4. QED
          BY <4>1, <4>2, <4>3
      <3>3. CASE i = k
        <4>1. h[i] = WriteCase(g[i - 1], l.cases[i], pos) /\ i # 0
          BY <2>2, <3>1, <3>3
        <4>2. h[i - 1] = g[i - 1]
          BY <2>2, <3>1, <3>3
        <4>3. QED
          BY <4>1, <4>2
      <3>4. QED
        BY <2>2, <3>1, <3>2, <3>3
    <2>4. CaseLoop(h, l, pos, k)
      BY <2>3 DEF CaseLoop
    <2>5. QED
      BY <2>2, <2>4
  <1> HIDE DEF S
  <1>3. n \in S
    BY <1>1, <1>2, EveryNumber
  <1>4. QED
    BY <1>3 DEF S

(* g is what the loop over the entries of an index computes. *)
EntryLoop(g, t, n) ==
    g = [i \in 0..n |-> IF i = 0 THEN [at |-> 1, ok |-> TRUE, entries |-> <<>>] ELSE ReadEntry(t, g[i - 1])]

(* One satisfies that of the loop over the entries. *)
LEMMA ParseExists ==
    ASSUME NEW t, NEW n \in Nat
    PROVE  \E g : EntryLoop(g, t, n)
  <1> DEFINE S == {k \in Nat : \E g : EntryLoop(g, t, k)}
  <1>1. 0 \in S
    <2>1. EntryLoop([i \in 0..0 |-> [at |-> 1, ok |-> TRUE, entries |-> <<>>]], t, 0)
      BY DEF EntryLoop
    <2>2. QED
      BY <2>1
  <1>2. ASSUME NEW k \in 1..n, k - 1 \in S
        PROVE  k \in S
    <2>1. PICK g : EntryLoop(g, t, k - 1)
      BY <1>2
    <2> DEFINE h == [i \in 0..k |-> IF i < k THEN g[i] ELSE ReadEntry(t, g[i - 1])]
    <2>2. k \in Nat /\ 1 <= k /\ k - 1 \in Nat
      OBVIOUS
    <2>3. ASSUME NEW i \in 0..k
          PROVE  h[i] = IF i = 0 THEN [at |-> 1, ok |-> TRUE, entries |-> <<>>] ELSE ReadEntry(t, h[i - 1])
      <3>1. i \in Nat /\ 0 <= i /\ i <= k
        BY <2>2
      <3>2. CASE i < k
        <4>1. h[i] = g[i] /\ i \in 0..(k - 1)
          BY <2>2, <3>1, <3>2
        <4>2. g[i] = IF i = 0 THEN [at |-> 1, ok |-> TRUE, entries |-> <<>>] ELSE ReadEntry(t, g[i - 1])
          BY <2>1, <4>1 DEF EntryLoop
        <4>3. i # 0 => h[i - 1] = g[i - 1]
          BY <2>2, <3>1, <3>2
        <4>4. QED
          BY <4>1, <4>2, <4>3
      <3>3. CASE i = k
        <4>1. h[i] = ReadEntry(t, g[i - 1]) /\ i # 0
          BY <2>2, <3>1, <3>3
        <4>2. h[i - 1] = g[i - 1]
          BY <2>2, <3>1, <3>3
        <4>3. QED
          BY <4>1, <4>2
      <3>4. QED
        BY <2>2, <3>1, <3>2, <3>3
    <2>4. EntryLoop(h, t, k)
      BY <2>3 DEF EntryLoop
    <2>5. QED
      BY <2>2, <2>4
  <1> HIDE DEF S
  <1>3. n \in S
    BY <1>1, <1>2, EveryNumber
  <1>4. QED
    BY <1>3 DEF S

-----------------------------------------------------------------------------
(* The binary file: bytes at their places. *)

(* From off on, len bytes of d are these. *)
Stands(d, off, len, bytes) ==
    /\ off \in Nat /\ len = Len(bytes)
    /\ off + len <= Len(d)
    /\ \A x \in 1..Len(bytes) : d[off + x] = bytes[x]

(* They stand where they stood when more is appended. *)
LEMMA StandsOn ==
    ASSUME NEW d \in Seq(Nat), NEW e \in Seq(Nat), NEW bytes \in Seq(Nat), NEW off, NEW len,
           Stands(d, off, len, bytes)
    PROVE  Stands(d \o e, off, len, bytes)
  <1>1. Len(d) \in Nat /\ Len(e) \in Nat /\ Len(bytes) \in Nat /\ off \in Nat
        /\ DOMAIN d = 1..Len(d) /\ Len(d \o e) = Len(d) + Len(e)
    BY DEF Stands
  <1>2. ASSUME NEW x \in 1..Len(bytes)
        PROVE  (d \o e)[off + x] = bytes[x]
    <2>1. off + x \in DOMAIN d /\ d[off + x] = bytes[x]
      BY <1>1 DEF Stands
    <2>2. QED
      BY <2>1, Appended
  <1>3. QED
    BY <1>1, <1>2, SMTT(30) DEF Stands

(* What is appended stands behind what was there. *)
LEMMA StandsBehind ==
    ASSUME NEW d \in Seq(Nat), NEW bytes \in Seq(Nat)
    PROVE  Stands(d \o bytes, Len(d), Len(bytes), bytes)
  <1>1. Len(d) \in Nat /\ Len(bytes) \in Nat /\ Len(d \o bytes) = Len(d) + Len(bytes)
        /\ DOMAIN bytes = 1..Len(bytes)
    OBVIOUS
  <1>2. \A x \in 1..Len(bytes) : (d \o bytes)[Len(d) + x] = bytes[x]
    BY <1>1, Appended
  <1>3. QED
    BY <1>1, <1>2 DEF Stands

(* They are what a slice at their place gives. *)
LEMMA StandsSlice ==
    ASSUME NEW d \in Seq(Nat), NEW bytes \in Seq(Nat), NEW off, NEW len,
           Stands(d, off, len, bytes)
    PROVE  SubSeq(d, off + 1, off + len) = bytes
  <1>1. Len(d) \in Nat /\ Len(bytes) \in Nat /\ off \in Nat /\ len = Len(bytes)
        /\ off + len <= Len(d)
    BY DEF Stands
  <1> DEFINE u == SubSeq(d, off + 1, off + len)
  <1>2. u \in Seq(Nat) /\ Len(u) = Len(bytes)
    BY <1>1
  <1>3. ASSUME NEW x \in 1..Len(bytes)
        PROVE  u[x] = bytes[x]
    <2>1. u[x] = d[off + x]
      BY <1>1
    <2>2. QED
      BY <2>1 DEF Stands
  <1> HIDE DEF u
  <1>4. u = bytes
    BY <1>2, <1>3, SeqEqual
  <1>5. QED
    BY <1>4 DEF u

(* A word holds a number that fits. *)
LEMMA WordHolds ==
    ASSUME NEW n \in Nat, NEW size \in Nat \ {0}, n < size
    PROVE  n % size = n
  OBVIOUS

(* The lines of an input and their cases. *)
LEMMA BinLines ==
    ASSUME NEW lines_ \in Inputs
    PROVE  /\ Len(lines_) \in Nat /\ DOMAIN lines_ = 1..Len(lines_)
           /\ \A i \in 1..Len(lines_) : lines_[i] \in BinLine
  <1>1. lines_ \in Seq(BinLine)
    BY InputAssumption
  <1>2. QED
    BY <1>1, ElementOfSeq

(* The name of a line and its cases are sequences. *)
LEMMA BinCases ==
    ASSUME NEW l \in BinLine
    PROVE  /\ Len(l.cases) \in Nat /\ DOMAIN l.cases = 1..Len(l.cases)
           /\ l.name \in Seq(Nat) /\ Len(l.name) \in Nat /\ l.contest \in Int
           /\ \A n \in 1..Len(l.cases) : l.cases[n].in \in Seq(Nat) /\ l.cases[n].out \in Seq(Nat)
  <1> DEFINE C == [in : Seq(Nat), out : Seq(Nat)]
  <1>1. l.cases \in Seq(C) /\ l.name \in Seq(Nat) /\ l.contest \in Int
    BY DEF BinLine
  <1> HIDE DEF C
  <1>2. Len(l.cases) \in Nat /\ DOMAIN l.cases = 1..Len(l.cases)
        /\ \A n \in 1..Len(l.cases) : l.cases[n] \in C
    BY <1>1, ElementOfSeq
  <1>3. QED
    BY <1>1, <1>2 DEF C

(* The numbers of a line fit their words. *)
Fits(l) ==
    /\ l.contest \in 0..(WordSize - 1)
    /\ Len(l.cases) < WordSize
    /\ \A n \in 1..Len(l.cases) :
          Len(l.cases[n].in) < WordSize /\ Len(l.cases[n].out) < WordSize

(* Those of the lines that are given do. *)
LEMMA LineFits ==
    ASSUME NEW lines_ \in Inputs, NEW i \in 1..Len(lines_)
    PROVE  Fits(lines_[i])
  <1>1. i \in DOMAIN lines_ /\ lines_[i] \in BinLine
    BY BinLines
  <1>2. DOMAIN lines_[i].cases = 1..Len(lines_[i].cases)
    BY <1>1, BinCases
  <1>3. QED
    BY <1>1, <1>2, WordAssumption DEF Fits

(* The entry of a case in four fields of t behind the first c. *)
CaseEntry(t, c) ==
    [inOff |-> t[c + 1], inLen |-> t[c + 2], outOff |-> t[c + 3], outLen |-> t[c + 4]]

(* An entry that finds its case in the data. *)
CaseStands(d, entry, case) ==
    /\ Stands(d, entry.inOff, entry.inLen, case.in)
    /\ Stands(d, entry.outOff, entry.outLen, case.out)

(* The fields of an index entry before those of its cases. *)
LEMMA HeadFields ==
    ASSUME NEW l \in BinLine, Fits(l), Len(l.name) < ByteSize
    PROVE  /\ ProblemHead(l) \in Seq(Nat) /\ Len(ProblemHead(l)) = 3 + Len(l.name)
           /\ ProblemHead(l)[1] = l.contest /\ ProblemHead(l)[2] = Len(l.name)
           /\ \A x \in 1..Len(l.name) : ProblemHead(l)[2 + x] = l.name[x]
           /\ ProblemHead(l)[3 + Len(l.name)] = Len(l.cases)
  <1>1. l.name \in Seq(Nat) /\ Len(l.name) \in Nat /\ Len(l.cases) \in Nat /\ l.contest \in Nat
    BY BinCases, SizeAssumption DEF Fits
  <1>2. /\ ToWord(l.contest) = l.contest /\ Len(l.name) % ByteSize = Len(l.name)
        /\ ToWord(Len(l.cases)) = Len(l.cases)
    <2>1. l.contest < WordSize /\ Len(l.cases) < WordSize
      BY <1>1, SizeAssumption DEF Fits
    <2>2. QED
      BY <1>1, <2>1, SizeAssumption, WordHolds DEF ToWord
  <1> DEFINE c == l.contest
             a == l.name
             k == Len(l.cases)
             m == Len(l.name)
  <1>3. ProblemHead(l) = <<c, m>> \o a \o <<k>>
    BY <1>2 DEF ProblemHead
  <1>4. c \in Nat /\ a \in Seq(Nat) /\ k \in Nat /\ m = Len(a)
    BY <1>1
  <1> HIDE DEF c, a, k, m
  <1>5. /\ <<c, m>> \o a \o <<k>> \in Seq(Nat) /\ Len(<<c, m>> \o a \o <<k>>) = 3 + Len(a)
        /\ (<<c, m>> \o a \o <<k>>)[1] = c /\ (<<c, m>> \o a \o <<k>>)[2] = m
        /\ \A x \in 1..Len(a) : (<<c, m>> \o a \o <<k>>)[2 + x] = a[x]
        /\ (<<c, m>> \o a \o <<k>>)[3 + Len(a)] = k
    BY <1>4
  <1>6. QED
    BY <1>3, <1>5 DEF c, a, k, m

(* Bytes one after the other. *)
LEMMA BytesBehind ==
    ASSUME NEW a \in Seq(Nat), NEW b \in Seq(Nat)
    PROVE  a \o b \in Seq(Nat) /\ Len(a \o b) = Len(a) + Len(b) /\ Len(a) \in Nat /\ Len(b) \in Nat
  OBVIOUS

(* Three sequences, by a name that hides what the provers know of \o. *)
Joined(a, b) == a \o b

(* It does not matter which two are joined first. *)
LEMMA ThreeJoined ==
    ASSUME NEW a \in Seq(Nat), NEW b \in Seq(Nat), NEW c \in Seq(Nat)
    PROVE  Joined(Joined(a, b), c) = Joined(a, Joined(b, c))
  BY DEF Joined

(* A case that is written stands in the data where its fields say. *)
LEMMA CaseWritten ==
    ASSUME NEW d \in Seq(Nat), NEW s, s.data \in Seq(Nat), s.index \in Seq(Nat),
           NEW c, c.in \in Seq(Nat), c.out \in Seq(Nat),
           Len(c.in) < WordSize, Len(c.out) < WordSize,
           NEW w, w = WriteCase(s, c, Len(d))
    PROVE  /\ w.data \in Seq(Nat) /\ w.index \in Seq(Nat)
           /\ Len(w.index) = Len(s.index) + 4
           /\ \A x \in 1..Len(s.index) : w.index[x] = s.index[x]
           /\ d \o w.data = (d \o s.data) \o (c.in \o c.out)
           /\ CaseStands(d \o w.data, CaseEntry(w.index, Len(s.index)), c)
  <1> DEFINE a == c.in
             o == c.out
             e == d \o s.data
             pos == Len(e)
             q == s.index
  <1>1. a \in Seq(Nat) /\ o \in Seq(Nat) /\ q \in Seq(Nat) /\ s.data \in Seq(Nat)
    OBVIOUS
  <1>2. e \in Seq(Nat) /\ pos = Len(d) + Len(s.data)
    BY <1>1, BytesBehind
  <1>3. w = [data |-> s.data \o (a \o o),
             index |-> q \o <<pos, ToWord(Len(a)), pos + Len(a), ToWord(Len(o))>>]
    BY <1>2 DEF WriteCase, CaseFields
  <1>4. /\ w.data = s.data \o (a \o o)
        /\ w.index = q \o <<pos, ToWord(Len(a)), pos + Len(a), ToWord(Len(o))>>
    <2> DEFINE x == s.data \o (a \o o)
               y == q \o <<pos, ToWord(Len(a)), pos + Len(a), ToWord(Len(o))>>
    <2>1. w = [data |-> x, index |-> y]
      BY <1>3
    <2> HIDE DEF x, y
    <2>2. w.data = x /\ w.index = y
      BY <2>1
    <2>3. QED
      BY <2>2 DEF x, y
  <1>5. Len(a) < WordSize /\ Len(o) < WordSize
    OBVIOUS
  <1>6. d \o w.data = (d \o s.data) \o (a \o o)
    <2> DEFINE b == a \o o
               x == s.data
    <2>1. b \in Seq(Nat)
      BY <1>1, BytesBehind
    <2>2. x \in Seq(Nat)
      OBVIOUS
    <2>3. w.data = x \o b
      BY <1>4
    <2> HIDE DEF b, x
    <2>4. Joined(Joined(d, x), b) = Joined(d, Joined(x, b))
      BY <2>1, <2>2, ThreeJoined
    <2>5. (d \o x) \o b = d \o (x \o b)
      BY <2>4 DEF Joined
    <2>6. QED
      BY <2>3, <2>5 DEF b, x
  <1> HIDE DEF a, o, e, q
  <1>7. /\ Len(a) \in Nat /\ Len(o) \in Nat /\ pos \in Nat
        /\ e \o a \in Seq(Nat) /\ Len(e \o a) = pos + Len(a)
        /\ a \o o \in Seq(Nat)
    <2>1. Len(a) \in Nat /\ Len(o) \in Nat /\ Len(e) \in Nat
      BY <1>1, <1>2
    <2>2. e \o a \in Seq(Nat) /\ Len(e \o a) = Len(e) + Len(a) /\ a \o o \in Seq(Nat)
      BY <1>1, <1>2, BytesBehind
    <2>3. QED
      BY <2>1, <2>2
  <1>8. ToWord(Len(a)) = Len(a) /\ ToWord(Len(o)) = Len(o)
    BY <1>5, <1>7, SizeAssumption, WordHolds DEF ToWord
  <1>9. w.data \in Seq(Nat)
    BY <1>1, <1>4, <1>7, Appended
  <1> HIDE DEF pos
  <1>10. w.index = q \o <<pos, Len(a), pos + Len(a), Len(o)>> /\ pos + Len(a) \in Nat
    BY <1>4, <1>7, <1>8
  <1>11. /\ w.index \in Seq(Nat) /\ Len(w.index) = Len(q) + 4
         /\ \A x \in 1..Len(q) : w.index[x] = q[x]
         /\ w.index[Len(q) + 1] = pos /\ w.index[Len(q) + 2] = Len(a)
         /\ w.index[Len(q) + 3] = pos + Len(a) /\ w.index[Len(q) + 4] = Len(o)
    <2> DEFINE x == pos + Len(a)
               y == Len(a)
               z == Len(o)
    <2>1. x \in Nat /\ y \in Nat /\ z \in Nat /\ pos \in Nat /\ q \in Seq(Nat)
      BY <1>1, <1>7, <1>10
    <2>2. w.index = q \o <<pos, y, x, z>>
      BY <1>10
    <2> DEFINE u == w.index
    <2>3. u = q \o <<pos, y, x, z>>
      BY <2>2
    <2> HIDE DEF x, y, z, u
    <2>4. /\ u \in Seq(Nat) /\ Len(u) = Len(q) + 4
          /\ \A i \in 1..Len(q) : u[i] = q[i]
          /\ u[Len(q) + 1] = pos /\ u[Len(q) + 2] = y
          /\ u[Len(q) + 3] = x /\ u[Len(q) + 4] = z
      BY <2>1, <2>3, SMTT(30)
    <2>5. QED
      BY <2>4 DEF x, y, z, u
  <1>12. (e \o a) \o o = e \o (a \o o)
    <2>1. Joined(Joined(e, a), o) = Joined(e, Joined(a, o))
      BY <1>1, <1>2, ThreeJoined
    <2>2. QED
      BY <2>1 DEF Joined
  <1>13. Stands(e \o (a \o o), pos, Len(a), a)
    <2>1. Stands(e \o a, pos, Len(a), a)
      BY <1>1, <1>2, StandsBehind DEF pos
    <2>2. QED
      BY <1>1, <1>7, <1>12, <2>1, StandsOn
  <1>14. Stands(e \o (a \o o), pos + Len(a), Len(o), o)
    BY <1>1, <1>7, <1>12, StandsBehind
  <1>15. CaseStands(e \o (a \o o), CaseEntry(w.index, Len(q)), c)
    BY <1>11, <1>13, <1>14 DEF CaseStands, CaseEntry, a, o
  <1>16. QED
    BY <1>6, <1>9, <1>11, <1>15 DEF a, o, e, q

(* The index entry of a line as writeProblem leaves it: its head, and for  *)
(* each case four fields that find it in the data.                         *)
IsEntryOf(q, d, l) ==
    /\ q \in Seq(Nat) /\ Len(q) = 3 + Len(l.name) + 4 * Len(l.cases)
    /\ \A x \in 1..(3 + Len(l.name)) : q[x] = ProblemHead(l)[x]
    /\ \A n \in 1..Len(l.cases) :
          CaseStands(d, CaseEntry(q, 3 + Len(l.name) + 4 * n - 4), l.cases[n])

(* What writeProblem adds is such an entry, and its data are numbers. *)
LEMMA ProblemWritten ==
    ASSUME NEW l \in BinLine, Fits(l), Len(l.name) < ByteSize, NEW d \in Seq(Nat),
           NEW w, w = ProblemFields(l, Len(d))
    PROVE  w.data \in Seq(Nat) /\ IsEntryOf(w.index, d \o w.data, l)
  <1> DEFINE m == Len(l.cases)
             h == 3 + Len(l.name)
             head == ProblemHead(l)
             pos == Len(d)
  <1>1. m \in Nat /\ h \in Nat /\ pos \in Nat /\ head \in Seq(Nat) /\ Len(head) = h
    BY BinCases, HeadFields
  <1>5. pos = Len(d)
    OBVIOUS
  <1> HIDE DEF m, h, head, pos
  <1> DEFINE f == CHOOSE g : CaseLoop(g, l, pos, m)
             Has(i) == /\ f[i].data \in Seq(Nat) /\ f[i].index \in Seq(Nat)
                       /\ Len(f[i].index) = h + 4 * i
                       /\ \A x \in 1..h : f[i].index[x] = head[x]
                       /\ \A n \in 1..i : CaseStands(d \o f[i].data, CaseEntry(f[i].index, h + 4 * n - 4),
                                                     l.cases[n])
             S == {i \in 0..m : Has(i)}
  <1>2. w = f[m]
    BY DEF ProblemFields, CaseLoop, m, pos
  <1>3. f = [i \in 0..m |-> IF i = 0 THEN [data |-> <<>>, index |-> head]
                            ELSE WriteCase(f[i - 1], l.cases[i], pos)]
    <2>1. \E g : CaseLoop(g, l, pos, m)
      BY <1>1, ProblemExists
    <2>2. CaseLoop(f, l, pos, m)
      BY <2>1
    <2>3. QED
      BY <2>2 DEF CaseLoop, head
  <1>4. \A n \in 1..m : /\ l.cases[n].in \in Seq(Nat) /\ Len(l.cases[n].in) < WordSize
                        /\ l.cases[n].out \in Seq(Nat) /\ Len(l.cases[n].out) < WordSize
    BY BinCases DEF Fits, m
  <1> HIDE DEF f
  <1>6. 0 \in S
    <2>1. f[0] = [data |-> <<>>, index |-> head]
      BY <1>1, <1>3
    <2>2. f[0].data = <<>> /\ f[0].index = head
      BY <2>1
    <2>3. Has(0)
      BY <1>1, <2>2
    <2> HIDE DEF Has
    <2>4. QED
      BY <1>1, <2>3
  <1>7. ASSUME NEW i \in 1..m, i - 1 \in S
        PROVE  i \in S
    <2> DEFINE s == f[i - 1]
               c == l.cases[i]
    <2>1. Has(i - 1)
      BY <1>7
    <2>2. i \in Nat /\ 1 <= i /\ i <= m
      BY <1>1
    <2>3. f[i] = WriteCase(s, c, Len(d))
      BY <1>1, <1>3, <1>5, <2>2
    <2>4. s.data \in Seq(Nat) /\ s.index \in Seq(Nat) /\ Len(s.index) = h + 4 * (i - 1)
      BY <2>1
    <2>5. c.in \in Seq(Nat) /\ Len(c.in) < WordSize /\ c.out \in Seq(Nat) /\ Len(c.out) < WordSize
      BY <1>4
    <2> HIDE DEF s, c
    <2>6. /\ f[i].data \in Seq(Nat) /\ f[i].index \in Seq(Nat)
          /\ Len(f[i].index) = Len(s.index) + 4
          /\ \A x \in 1..Len(s.index) : f[i].index[x] = s.index[x]
          /\ d \o f[i].data = (d \o s.data) \o (c.in \o c.out)
          /\ CaseStands(d \o f[i].data, CaseEntry(f[i].index, Len(s.index)), c)
      BY <2>3, <2>4, <2>5, CaseWritten
    <2>7. Len(f[i].index) = h + 4 * i
      BY <1>1, <2>2, <2>4, <2>6
    <2>8. \A x \in 1..h : f[i].index[x] = head[x]
      <3>1. \A x \in 1..h : x \in 1..Len(s.index) /\ s.index[x] = head[x]
        BY <1>1, <2>1, <2>2, <2>4 DEF s
      <3>2. QED
        BY <2>6, <3>1
    <2>9. ASSUME NEW n \in 1..i
          PROVE  CaseStands(d \o f[i].data, CaseEntry(f[i].index, h + 4 * n - 4), l.cases[n])
      <3>1. CASE n = i
        <4>1. h + 4 * n - 4 = Len(s.index)
          BY <1>1, <2>2, <2>4, <3>1
        <4>2. QED
          BY <2>6, <3>1, <4>1 DEF c
      <3>2. CASE n # i
        <4> DEFINE p == h + 4 * n - 4
        <4>1. n \in 1..(i - 1) /\ n \in 1..m
          BY <1>1, <2>2, <3>2
        <4>2. p \in Nat /\ p + 4 <= Len(s.index)
          BY <1>1, <2>4, <4>1
        <4>3. CaseStands(d \o s.data, CaseEntry(s.index, p), l.cases[n])
          BY <2>1, <4>1 DEF s
        <4> HIDE DEF p
        <4>4. CaseEntry(f[i].index, p) = CaseEntry(s.index, p)
          <5>1. \A x \in 1..4 : p + x \in 1..Len(s.index)
            BY <4>2, <2>4
          <5>2. \A x \in 1..4 : f[i].index[p + x] = s.index[p + x]
            BY <2>6, <5>1
          <5>4. /\ f[i].index[p + 1] = s.index[p + 1] /\ f[i].index[p + 2] = s.index[p + 2]
                /\ f[i].index[p + 3] = s.index[p + 3] /\ f[i].index[p + 4] = s.index[p + 4]
            BY <5>2
          <5>5. QED
            BY <5>4 DEF CaseEntry
        <4>5. d \o s.data \in Seq(Nat) /\ c.in \o c.out \in Seq(Nat)
          BY <2>4, <2>5
        <4>6. CaseStands((d \o s.data) \o (c.in \o c.out), CaseEntry(s.index, p), l.cases[n])
          BY <1>4, <4>1, <4>3, <4>5, StandsOn DEF CaseStands
        <4>7. QED
          BY <2>6, <4>4, <4>6 DEF p
      <3>3. QED
        BY <3>1, <3>2
    <2>10. Has(i)
      BY <2>6, <2>7, <2>8, <2>9
    <2> HIDE DEF Has
    <2>11. QED
      BY <1>1, <2>2, <2>10
  <1> HIDE DEF S
  <1>8. \A i \in 0..m : i \in S
    BY <1>1, <1>6, <1>7, EveryNumber
  <1>9. Has(m)
    <2>1. m \in S
      BY <1>1, <1>8
    <2> HIDE DEF Has
    <2>2. QED
      BY <2>1 DEF S
  <1>10. QED
    BY <1>2, <1>9 DEF IsEntryOf, h, head, m

-----------------------------------------------------------------------------
(* The index: what is written is read. *)

(* What is written before the first line. *)
Start == [data |-> <<>>, index |-> <<>>]

(* What is written after each line. *)
LEMMA WrittenLoop ==
    ASSUME NEW q, Len(q) \in Nat
    PROVE  /\ Written(q)[0] = Start
           /\ \A i \in 1..Len(q) : Written(q)[i] = ImportLine(Written(q)[i - 1], q[i])
  <1> DEFINE n == Len(q)
             f == CHOOSE g : LineLoop(g, q, n)
  <1>1. Written(q) = f
    BY DEF Written, LineLoop
  <1>2. \E g : LineLoop(g, q, n)
    BY WrittenExists
  <1>3. LineLoop(f, q, n)
    BY <1>2
  <1> HIDE DEF f, n
  <1>4. f = [i \in 0..n |-> IF i = 0 THEN Start ELSE ImportLine(f[i - 1], q[i])]
    BY <1>3 DEF LineLoop, Start
  <1>5. n \in Nat
    BY DEF n
  <1>6. f[0] = Start
    BY <1>4, <1>5
  <1>7. ASSUME NEW i \in 1..n
        PROVE  f[i] = ImportLine(f[i - 1], q[i])
    <2>1. i \in 0..n /\ i # 0
      BY <1>5
    <2>2. QED
      BY <1>4, <2>1
  <1>8. QED
    BY <1>1, <1>6, <1>7 DEF n

(* Data and index are sequences of numbers. *)
Typed(s) == s.data \in Seq(Nat) /\ s.index \in Seq(Nat)

(* q and what was written behind it. *)
Extended(q, more) == \E e \in Seq(Nat) : more = q \o e

(* A usable line adds an entry that finds the cases of the line. *)
LEMMA LineWritten ==
    ASSUME NEW l \in BinLine, Fits(l), Usable(l), Len(l.name) < ByteSize,
           NEW s, Typed(s), NEW w, w = ImportLine(s, l)
    PROVE  /\ Typed(w)
           /\ Extended(s.data, w.data)
           /\ \E q : w.index = s.index \o q /\ IsEntryOf(q, w.data, l)
  <1> DEFINE more == ProblemFields(l, Len(s.data))
             x == s.data \o more.data
             y == s.index \o more.index
  <1>1. w = [data |-> x, index |-> y]
    BY DEF ImportLine
  <1>2. more.data \in Seq(Nat) /\ IsEntryOf(more.index, s.data \o more.data, l)
    BY ProblemWritten DEF Typed
  <1>3. more.index \in Seq(Nat)
    BY <1>2 DEF IsEntryOf
  <1> HIDE DEF more
  <1>4. x \in Seq(Nat) /\ y \in Seq(Nat)
    BY <1>2, <1>3 DEF Typed
  <1> HIDE DEF x, y
  <1>5. w.data = x /\ w.index = y
    BY <1>1
  <1>6. Typed(w)
    BY <1>4, <1>5 DEF Typed
  <1>7. w.data = s.data \o more.data
    BY <1>5 DEF x
  <1>8. w.index = s.index \o more.index /\ IsEntryOf(more.index, w.data, l)
    BY <1>2, <1>5, <1>7 DEF y
  <1>9. QED
    BY <1>2, <1>6, <1>7, <1>8 DEF Extended

(* All that is written for lines that are accepted is of its type. *)
LEMMA WrittenTyped ==
    ASSUME NEW lines_ \in Inputs, Sound(lines_)
    PROVE  \A i \in 0..Len(lines_) : Typed(Written(lines_)[i])
  <1> DEFINE n == Len(lines_)
             W(i) == Written(lines_)[i]
             S == {i \in 0..n : Typed(W(i))}
  <1>1. n \in Nat
    BY BinLines
  <1>2. W(0) = Start /\ \A i \in 1..n : W(i) = ImportLine(W(i - 1), lines_[i])
    BY <1>1, WrittenLoop
  <1>3. \A i \in 1..n : lines_[i] \in BinLine /\ Fits(lines_[i]) /\ Accepted(lines_[i])
    BY BinLines, LineFits DEF Sound
  <1> HIDE DEF W, n
  <1>4. 0 \in S
    <2>1. W(0).data = <<>> /\ W(0).index = <<>>
      BY <1>2 DEF Start
    <2>2. <<>> \in Seq(Nat)
      OBVIOUS
    <2> HIDE DEF W
    <2>4. Typed(W(0))
      BY <2>1, <2>2 DEF Typed
    <2>3. QED
      BY <1>1, <2>4
  <1>5. ASSUME NEW i \in 1..n, i - 1 \in S
        PROVE  i \in S
    <2>1. Typed(W(i - 1)) /\ i \in 0..n
      BY <1>1, <1>5
    <2>2. W(i) = ImportLine(W(i - 1), lines_[i])
      BY <1>2
    <2>3. CASE ~Usable(lines_[i])
      BY <2>1, <2>2, <2>3 DEF ImportLine
    <2>4. CASE Usable(lines_[i])
      <3>1. Len(lines_[i].name) < ByteSize
        BY <1>3, <2>4 DEF Accepted
      <3>2. Typed(W(i))
        BY <1>3, <2>1, <2>2, <2>4, <3>1, LineWritten
      <3>3. QED
        BY <2>1, <3>2
    <2>5. QED
      BY <2>3, <2>4
  <1> HIDE DEF S
  <1>6. \A i \in 0..n : i \in S
    BY <1>1, <1>4, <1>5, EveryNumber
  <1>7. QED
    BY <1>6 DEF S, W, n

(* An entry that stands in the index is read as it was written. *)
LEMMA EntryRead ==
    ASSUME NEW t \in Seq(Nat), NEW l \in BinLine, Fits(l), Len(l.name) < ByteSize,
           NEW q, NEW d, IsEntryOf(q, d, l), NEW off \in Nat, Stands(t, off, Len(q), q)
    PROVE  /\ EntryWhole(t, off + 1) /\ EntryEnd(t, off + 1) = off + Len(q)
           /\ KeyAt(t, off + 1) = <<l.contest, l.name>>
           /\ DOMAIN CasesAt(t, off + 1) = 1..Len(l.cases)
           /\ \A n \in 1..Len(l.cases) : CaseStands(d, CasesAt(t, off + 1)[n], l.cases[n])
  <1> DEFINE a == Len(l.name)
             m == Len(l.cases)
             p == off + 1
  <1>1. a \in Nat /\ m \in Nat /\ off \in Nat /\ l.name \in Seq(Nat)
    BY BinCases
  <1>2. q \in Seq(Nat) /\ Len(q) = 3 + a + 4 * m
    BY DEF IsEntryOf
  <1>3. Len(t) \in Nat /\ off + Len(q) <= Len(t) /\ \A x \in 1..Len(q) : t[off + x] = q[x]
    BY DEF Stands
  <1>4. /\ q[1] = l.contest /\ q[2] = a /\ q[3 + a] = m
        /\ \A x \in 1..a : q[2 + x] = l.name[x]
    <2>1. /\ ProblemHead(l)[1] = l.contest /\ ProblemHead(l)[2] = a /\ ProblemHead(l)[3 + a] = m
          /\ \A x \in 1..a : ProblemHead(l)[2 + x] = l.name[x]
      BY HeadFields
    <2>2. \A x \in 1..(3 + a) : q[x] = ProblemHead(l)[x]
      BY DEF IsEntryOf
    <2> HIDE DEF a, m
    <2>3. 1 \in 1..(3 + a) /\ 2 \in 1..(3 + a) /\ 3 + a \in 1..(3 + a)
          /\ \A x \in 1..a : 2 + x \in 1..(3 + a)
      BY <1>1
    <2>4. QED
      BY <2>1, <2>2, <2>3
  <1>5. \A n \in 1..m : CaseStands(d, CaseEntry(q, 3 + a + 4 * n - 4), l.cases[n])
    BY DEF IsEntryOf
  <1>6. a = Len(l.name) /\ m = Len(l.cases)
    OBVIOUS
  <1> HIDE DEF a, m
  <1>7. t[p] = l.contest /\ t[p + 1] = a
    <2>1. 1 \in 1..Len(q) /\ 2 \in 1..Len(q) /\ p + 1 = off + 2
      BY <1>1, <1>2
    <2>2. QED
      BY <1>3, <1>4, <2>1
  <1>8. NameEnd(t, p) = off + 2 + a
    BY <1>1, <1>7 DEF NameEnd
  <1>9. t[NameEnd(t, p) + 1] = m
    <2>1. 3 + a \in 1..Len(q) /\ NameEnd(t, p) + 1 = off + (3 + a)
      BY <1>1, <1>2, <1>8
    <2>2. QED
      BY <1>3, <1>4, <2>1
  <1>10. EntryEnd(t, p) = off + Len(q)
    BY <1>1, <1>2, <1>8, <1>9 DEF EntryEnd
  <1>11. EntryWhole(t, p)
    <2>1. Len(t) \in Nat /\ off + Len(q) <= Len(t)
      BY <1>3
    <2>2. Len(q) = 3 + a + 4 * m
      BY <1>2
    <2>3. p + 1 <= Len(t) /\ off + 2 + a + 1 <= Len(t)
      BY <1>1, <2>1, <2>2
    <2>4. QED
      BY <1>8, <1>10, <2>1, <2>3 DEF EntryWhole
  <1>12. SubSeq(t, p + 2, NameEnd(t, p)) = l.name
    <2>1. Stands(t, off + 2, a, l.name)
      <3>1. \A x \in 1..a : 2 + x \in 1..Len(q) /\ off + 2 + x = off + (2 + x)
        BY <1>1, <1>2
      <3>2. \A x \in 1..a : t[off + 2 + x] = l.name[x]
        BY <1>3, <1>4, <3>1
      <3>3. off + 2 \in Nat /\ off + 2 + a <= Len(t)
        <4>1. Len(t) \in Nat /\ off + Len(q) <= Len(t)
          BY <1>3
        <4>2. Len(q) = 3 + a + 4 * m
          BY <1>2
        <4>3. QED
          BY <1>1, <4>1, <4>2
      <3>4. QED
        BY <1>6, <3>2, <3>3 DEF Stands
    <2> DEFINE o == off + 2
    <2>2. Stands(t, o, a, l.name)
      BY <2>1
    <2>3. p + 2 = o + 1 /\ NameEnd(t, p) = o + a
      BY <1>1, <1>8
    <2> HIDE DEF o
    <2>4. SubSeq(t, o + 1, o + a) = l.name
      BY <1>1, <2>2, StandsSlice
    <2>5. QED
      BY <2>3, <2>4
  <1>13. KeyAt(t, p) = <<l.contest, l.name>>
    BY <1>7, <1>12 DEF KeyAt
  <1>14. DOMAIN CasesAt(t, p) = 1..m
    BY <1>9 DEF CasesAt
  <1>15. ASSUME NEW n \in 1..m
         PROVE  CasesAt(t, p)[n] = CaseEntry(q, 3 + a + 4 * n - 4)
    <2> DEFINE c == 3 + a + 4 * n - 4
    <2>1. n \in Nat /\ 1 <= n /\ n <= m
      BY <1>1
    <2>2. c \in Nat /\ c + 4 <= Len(q) /\ NameEnd(t, p) + 4 * n - 2 = off + (c + 1)
      BY <1>1, <1>2, <1>8, <2>1
    <2> HIDE DEF c
    <2>3. \A x \in 1..4 : c + x \in 1..Len(q) /\ t[off + (c + x)] = q[c + x]
      <3>1. \A x \in 1..4 : c + x \in 1..Len(q)
        BY <1>1, <1>2, <2>2
      <3>2. QED
        BY <1>3, <3>1
    <2> DEFINE e == off + (c + 1)
    <2>4. /\ t[e] = q[c + 1] /\ t[e + 1] = q[c + 2] /\ t[e + 2] = q[c + 3] /\ t[e + 3] = q[c + 4]
      <3>1. e + 1 = off + (c + 2) /\ e + 2 = off + (c + 3) /\ e + 3 = off + (c + 4)
        BY <1>1, <2>2
      <3>2. QED
        BY <2>3, <3>1
    <2>5. e = NameEnd(t, p) + 4 * n - 2
      BY <2>2
    <2>6. CasesAt(t, p)[n] = [inOff |-> t[e], inLen |-> t[e + 1], outOff |-> t[e + 2], outLen |-> t[e + 3]]
      BY <1>9, <2>5 DEF CasesAt
    <2> HIDE DEF e
    <2>7. QED
      BY <2>4, <2>6 DEF CaseEntry, c
  <1>16. QED
    BY <1>5, <1>6, <1>10, <1>11, <1>13, <1>14, <1>15

(* What a line is found by. *)
Key(l) == <<l.contest, l.name>>

(* The entry of a key finds these cases in d. *)
Finds(found, d, cases) ==
    DOMAIN found = 1..Len(cases) /\ \A n \in 1..Len(cases) : CaseStands(d, found[n], cases[n])

(* Line j is the last usable one of its key among the first i. *)
LastOf(lines_, i, j) ==
    /\ j \in 1..i /\ Usable(lines_[j])
    /\ \A k \in 1..i : (Usable(lines_[k]) /\ Key(lines_[k]) = Key(lines_[j])) => k <= j

(* The entries tell of the first i lines: each key of a usable one, and    *)
(* under it the cases of the last of its lines, as they stand in d.        *)
Tells(entries, d, lines_, i) ==
    /\ DOMAIN entries = {Key(lines_[j]) : j \in {j \in 1..i : Usable(lines_[j])}}
    /\ \A j \in 1..i : LastOf(lines_, i, j) => Finds(entries[Key(lines_[j])], d, lines_[j].cases)

(* A line that is not usable changes nothing of it. *)
LEMMA TellsSkipped ==
    ASSUME NEW lines_, NEW i \in Nat \ {0}, ~Usable(lines_[i]), NEW entries, NEW d,
           Tells(entries, d, lines_, i - 1)
    PROVE  Tells(entries, d, lines_, i)
  <1>1. \A j \in 1..i : Usable(lines_[j]) => j \in 1..(i - 1)
    OBVIOUS
  <1>2. 1..(i - 1) \subseteq 1..i
    OBVIOUS
  <1>3. {j \in 1..i : Usable(lines_[j])} = {j \in 1..(i - 1) : Usable(lines_[j])}
    BY <1>1, <1>2
  <1>4. ASSUME NEW j \in 1..i, LastOf(lines_, i, j)
        PROVE  j \in 1..(i - 1) /\ LastOf(lines_, i - 1, j)
    BY <1>1, <1>2, <1>4 DEF LastOf
  <1>5. QED
    BY <1>3, <1>4 DEF Tells

(* The bytes that were found are still there when more are written. *)
LEMMA FindsOn ==
    ASSUME NEW d \in Seq(Nat), NEW e \in Seq(Nat), NEW l \in BinLine, NEW found,
           Finds(found, d, l.cases)
    PROVE  Finds(found, d \o e, l.cases)
  <1>1. ASSUME NEW n \in 1..Len(l.cases)
        PROVE  CaseStands(d \o e, found[n], l.cases[n])
    <2>1. l.cases[n].in \in Seq(Nat) /\ l.cases[n].out \in Seq(Nat)
      BY BinCases
    <2>2. CaseStands(d, found[n], l.cases[n])
      BY DEF Finds
    <2>3. QED
      BY <2>1, <2>2, StandsOn DEF CaseStands
  <1>2. QED
    BY <1>1 DEF Finds

(* A usable line replaces what its key had, or adds it. *)
LEMMA TellsMore ==
    ASSUME NEW lines_, NEW i \in Nat \ {0}, Usable(lines_[i]),
           \A j \in 1..i : lines_[j] \in BinLine,
           NEW entries, NEW d \in Seq(Nat), Tells(entries, d, lines_, i - 1),
           NEW e \in Seq(Nat), NEW found, Finds(found, d \o e, lines_[i].cases)
    PROVE  Tells(Put(entries, Key(lines_[i]), found), d \o e, lines_, i)
  <1> DEFINE more == Put(entries, Key(lines_[i]), found)
             before == {j \in 1..(i - 1) : Usable(lines_[j])}
  <1>1. i \in 1..i /\ 1..i = 1..(i - 1) \cup {i}
    OBVIOUS
  <1>2. DOMAIN more = DOMAIN entries \cup {Key(lines_[i])}
    BY DEF Put
  <1>3. DOMAIN entries = {Key(lines_[j]) : j \in before}
    BY DEF Tells
  <1>4. {j \in 1..i : Usable(lines_[j])} = before \cup {i}
    BY <1>1
  <1>5. DOMAIN more = {Key(lines_[j]) : j \in {j \in 1..i : Usable(lines_[j])}}
    BY <1>2, <1>3, <1>4
  <1>6. ASSUME NEW j \in 1..i, LastOf(lines_, i, j)
        PROVE  Finds(more[Key(lines_[j])], d \o e, lines_[j].cases)
    <2>1. CASE j = i
      <3>1. more[Key(lines_[j])] = found
        BY <2>1 DEF Put
      <3>2. QED
        BY <2>1, <3>1
    <2>2. CASE j # i
      <3>1. j \in 1..(i - 1) /\ Usable(lines_[j])
        BY <1>1, <1>6, <2>2 DEF LastOf
      <3>2. Key(lines_[j]) # Key(lines_[i])
        <4>1. Key(lines_[i]) = Key(lines_[j]) => i <= j
          BY <1>1, <1>6 DEF LastOf
        <4>2. ~(i <= j)
          BY <3>1
        <4>3. QED
          BY <4>1, <4>2
      <3>3. Key(lines_[j]) \in DOMAIN entries
        BY <1>3, <3>1
      <3>4. more[Key(lines_[j])] = entries[Key(lines_[j])]
        BY <3>2, <3>3 DEF Put
      <3>5. LastOf(lines_, i - 1, j)
        BY <1>1, <1>6, <3>1 DEF LastOf
      <3>6. Finds(entries[Key(lines_[j])], d, lines_[j].cases)
        BY <3>1, <3>5 DEF Tells
      <3>7. QED
        BY <3>4, <3>6, FindsOn
    <2>3. QED
      BY <2>1, <2>2
  <1> HIDE DEF more
  <1>7. QED
    BY <1>5, <1>6 DEF Tells, more

(* The entry of every usable line stands in the finished index. *)
LEMMA IndexStands ==
    ASSUME NEW lines_ \in Inputs, Sound(lines_),
           NEW i \in 1..Len(lines_), Usable(lines_[i]),
           NEW q \in Seq(Nat), Written(lines_)[i].index = Written(lines_)[i - 1].index \o q
    PROVE  Stands(Written(lines_)[Len(lines_)].index, Len(Written(lines_)[i - 1].index), Len(q), q)
  <1> DEFINE n == Len(lines_)
             W(k) == Written(lines_)[k]
             Fixed(k) == k >= i => Stands(W(k).index, Len(W(i - 1).index), Len(q), q)
             S == {k \in 0..n : Fixed(k)}
  <1>1. n \in Nat /\ i \in 1..n
    BY BinLines
  <1>2. \A k \in 1..n : W(k) = ImportLine(W(k - 1), lines_[k])
    BY <1>1, WrittenLoop
  <1>3. \A k \in 0..n : Typed(W(k))
    BY WrittenTyped
  <1>4. \A k \in 1..n : lines_[k] \in BinLine /\ Fits(lines_[k]) /\ Accepted(lines_[k])
    BY BinLines, LineFits DEF Sound
  <1>5. W(i).index = W(i - 1).index \o q
    OBVIOUS
  <1> HIDE DEF W, n
  <1>6. 0 \in S
    BY <1>1
  <1>7. ASSUME NEW k \in 1..n, k - 1 \in S
        PROVE  k \in S
    <2>1. k \in 0..n /\ k - 1 \in 0..n /\ i - 1 \in 0..n /\ k \in Nat /\ i \in Nat
      BY <1>1
    <2>2. Typed(W(k)) /\ Typed(W(k - 1)) /\ Typed(W(i - 1))
      BY <1>3, <2>1
    <2>3. W(k) = ImportLine(W(k - 1), lines_[k])
      BY <1>2
    <2>4. CASE k < i
      BY <2>1, <2>4
    <2>5. CASE k = i
      <3>1. Stands(W(i - 1).index \o q, Len(W(i - 1).index), Len(q), q)
        BY <2>2, StandsBehind DEF Typed
      <3>2. Fixed(k)
        BY <1>5, <2>5, <3>1
      <3>3. QED
        BY <2>1, <3>2
    <2>6. CASE k > i
      <3>1. Stands(W(k - 1).index, Len(W(i - 1).index), Len(q), q)
        BY <1>7, <2>1, <2>6
      <3>2. \E e \in Seq(Nat) : W(k).index = W(k - 1).index \o e \/ W(k) = W(k - 1)
        <4>1. CASE ~Usable(lines_[k])
          <5>1. W(k) = W(k - 1)
            BY <2>3, <4>1 DEF ImportLine
          <5>2. <<>> \in Seq(Nat)
            OBVIOUS
          <5>3. QED
            BY <5>1, <5>2
        <4>2. CASE Usable(lines_[k])
          <5>1. Len(lines_[k].name) < ByteSize
            BY <1>4, <4>2 DEF Accepted
          <5>2. PICK e : W(k).index = W(k - 1).index \o e /\ IsEntryOf(e, W(k).data, lines_[k])
            BY <1>4, <2>2, <2>3, <4>2, <5>1, LineWritten
          <5>3. e \in Seq(Nat)
            BY <5>2 DEF IsEntryOf
          <5>4. QED
            BY <5>2, <5>3
        <4>3. QED
          BY <4>1, <4>2
      <3>3. Stands(W(k).index, Len(W(i - 1).index), Len(q), q)
        BY <2>2, <3>1, <3>2, StandsOn DEF Typed
      <3>4. QED
        BY <2>1, <3>3
    <2>7. QED
      BY <2>1, <2>4, <2>5, <2>6
  <1> HIDE DEF S
  <1>8. \A k \in 0..n : k \in S
    BY <1>1, <1>6, <1>7, EveryNumber
  <1>9. n \in S /\ n >= i
    BY <1>1, <1>8
  <1>10. QED
    BY <1>9 DEF S, W, n

(* The reader at field a with these entries. *)
Reading(a, entries) == [at |-> a, ok |-> TRUE, entries |-> entries]

(* A turn of the reader at an entry takes all of it. *)
LEMMA ReadsEntry ==
    ASSUME NEW t, NEW a, NEW entries, ~(a > Len(t)), EntryWhole(t, a)
    PROVE  ReadEntry(t, Reading(a, entries)) =
              Reading(EntryEnd(t, a) + 1, Put(entries, KeyAt(t, a), CasesAt(t, a)))
  BY DEF ReadEntry, Reading

(* A turn at the end of the index changes nothing. *)
LEMMA ReadsNoMore ==
    ASSUME NEW t, NEW a, NEW entries, a > Len(t)
    PROVE  ReadEntry(t, Reading(a, entries)) = Reading(a, entries)
  BY DEF ReadEntry, Reading

(* What the reader has after each turn. *)
LEMMA ParseLoop ==
    ASSUME NEW t \in Seq(Nat)
    PROVE  \E f : /\ ParseIndex(t) = f[Len(t)]
                  /\ f[0] = Reading(1, <<>>)
                  /\ \A k \in 1..Len(t) : f[k] = ReadEntry(t, f[k - 1])
  <1> DEFINE n == Len(t)
             f == CHOOSE g : EntryLoop(g, t, n)
  <1>1. ParseIndex(t) = f[n]
    BY DEF ParseIndex, EntryLoop
  <1>2. n \in Nat
    OBVIOUS
  <1>3. \E g : EntryLoop(g, t, n)
    BY <1>2, ParseExists
  <1>4. EntryLoop(f, t, n)
    BY <1>3
  <1> HIDE DEF f, n
  <1>5. f = [i \in 0..n |-> IF i = 0 THEN Reading(1, <<>>) ELSE ReadEntry(t, f[i - 1])]
    BY <1>4 DEF EntryLoop, Reading
  <1>6. f[0] = Reading(1, <<>>)
    BY <1>2, <1>5
  <1>7. ASSUME NEW k \in 1..n
        PROVE  f[k] = ReadEntry(t, f[k - 1])
    <2>1. k \in 0..n /\ k # 0
      BY <1>2
    <2>2. QED
      BY <1>5, <2>1
  <1>8. QED
    BY <1>1, <1>6, <1>7 DEF n

(* Reading the finished index gives the entries of all lines. *)
LEMMA Parsed ==
    ASSUME NEW lines_ \in Inputs, Sound(lines_),
           NEW all, all = Written(lines_)[Len(lines_)]
    PROVE  \E a, entries : /\ ParseIndex(all.index) = Reading(a, entries)
                           /\ Tells(entries, all.data, lines_, Len(lines_))
  <1> DEFINE n == Len(lines_)
             t == all.index
             W(k) == Written(lines_)[k]
             Reaches(f, k, i) == \E entries : /\ f[k] = Reading(Len(W(i).index) + 1, entries)
                                              /\ Tells(entries, W(i).data, lines_, i)
  <1>1. n \in Nat
    BY BinLines
  <1>2. W(0) = Start /\ \A i \in 1..n : W(i) = ImportLine(W(i - 1), lines_[i])
    BY <1>1, WrittenLoop
  <1>3. \A i \in 0..n : Typed(W(i))
    BY WrittenTyped
  <1>4. \A i \in 1..n : lines_[i] \in BinLine /\ Fits(lines_[i]) /\ Accepted(lines_[i])
    BY BinLines, LineFits DEF Sound
  <1>5. t \in Seq(Nat) /\ Len(t) \in Nat /\ t = W(n).index /\ all.data = W(n).data
    BY <1>1, <1>3 DEF Typed
  <1>6. ASSUME NEW i \in 1..n, Usable(lines_[i]), NEW q \in Seq(Nat), W(i).index = W(i - 1).index \o q
        PROVE  Stands(t, Len(W(i - 1).index), Len(q), q)
    BY <1>6, IndexStands
  <1>7. PICK f : /\ ParseIndex(t) = f[Len(t)]
                 /\ f[0] = Reading(1, <<>>)
                 /\ \A k \in 1..Len(t) : f[k] = ReadEntry(t, f[k - 1])
    BY <1>5, ParseLoop
  <1> DEFINE S == {i \in 0..n : \E k \in 0..Len(t) : k <= Len(W(i).index) /\ Reaches(f, k, i)}
  <1> HIDE DEF t, W, n
  <1>8. 0 \in S
    <2>1. W(0).index = <<>>
      BY <1>2 DEF Start
    <2>2. Len(W(0).index) = 0
      BY <2>1
    <2>3. Tells(<<>>, W(0).data, lines_, 0)
      BY DEF Tells
    <2>4. Reaches(f, 0, 0)
      BY <1>7, <2>2, <2>3
    <2> HIDE DEF Reaches
    <2>5. QED
      BY <1>1, <1>5, <2>2, <2>4
  <1>9. ASSUME NEW i \in 1..n, i - 1 \in S
        PROVE  i \in S
    <2>1. i \in 0..n /\ i - 1 \in 0..n /\ i \in Nat \ {0}
      BY <1>1
    <2>2. PICK k \in 0..Len(t) : k <= Len(W(i - 1).index) /\ Reaches(f, k, i - 1)
      BY <1>9
    <2>3. PICK entries : /\ f[k] = Reading(Len(W(i - 1).index) + 1, entries)
                         /\ Tells(entries, W(i - 1).data, lines_, i - 1)
      BY <2>2
    <2>4. W(i) = ImportLine(W(i - 1), lines_[i]) /\ Typed(W(i - 1))
      BY <1>2, <1>3, <2>1
    <2>5. CASE ~Usable(lines_[i])
      <3>1. W(i) = W(i - 1)
        BY <2>4, <2>5 DEF ImportLine
      <3>2. Tells(entries, W(i - 1).data, lines_, i)
        BY <2>1, <2>3, <2>5, TellsSkipped
      <3>3. Reaches(f, k, i)
        BY <2>3, <3>1, <3>2
      <3> HIDE DEF Reaches
      <3>4. QED
        BY <2>1, <2>2, <3>1, <3>3
    <2>6. CASE Usable(lines_[i])
      <3> DEFINE l == lines_[i]
                 off == Len(W(i - 1).index)
      <3>1. l \in BinLine /\ Fits(l) /\ Len(l.name) < ByteSize
        BY <1>4, <2>6 DEF Accepted
      <3>2. /\ \E e \in Seq(Nat) : W(i).data = W(i - 1).data \o e
            /\ \E q : W(i).index = W(i - 1).index \o q /\ IsEntryOf(q, W(i).data, l)
        <4> DEFINE s == W(i - 1)
                   w == W(i)
        <4>1. /\ l \in BinLine /\ Fits(l) /\ Usable(l) /\ Len(l.name) < ByteSize
              /\ Typed(s) /\ w = ImportLine(s, l)
          BY <2>4, <2>6, <3>1
        <4> HIDE DEF s, w, l
        <4>2. Extended(s.data, w.data)
          BY <4>1, LineWritten
        <4>3. \E q : w.index = s.index \o q /\ IsEntryOf(q, w.data, l)
          BY <4>1, LineWritten
        <4>4. QED
          BY <4>2, <4>3 DEF s, w, Extended
      <3>3. PICK e \in Seq(Nat) : W(i).data = W(i - 1).data \o e
        BY <3>2
      <3>4. PICK q : W(i).index = W(i - 1).index \o q /\ IsEntryOf(q, W(i).data, l)
        BY <3>2
      <3>5. q \in Seq(Nat) /\ Len(q) = 3 + Len(l.name) + 4 * Len(l.cases)
        BY <3>4 DEF IsEntryOf
      <3>6. Len(l.name) \in Nat /\ Len(l.cases) \in Nat /\ off \in Nat /\ Len(q) \in Nat
        <4>1. off \in Nat /\ Len(q) \in Nat
          <5> DEFINE x == W(i - 1).index
          <5>1. x \in Seq(Nat)
            BY <2>4 DEF Typed
          <5> HIDE DEF x
          <5>2. Len(x) \in Nat
            BY <5>1
          <5>3. q \in Seq(Nat)
            BY <3>5
          <5>4. Len(q) \in Nat
            BY <5>3
          <5>5. QED
            BY <5>2, <5>4 DEF x
        <4> HIDE DEF l, off
        <4>2. Len(l.name) \in Nat /\ Len(l.cases) \in Nat
          BY <3>1, BinCases
        <4>3. QED
          BY <4>1, <4>2
      <3>17. 1 <= Len(q)
        <4> DEFINE x == Len(l.name)
                   y == Len(l.cases)
        <4>1. x \in Nat /\ y \in Nat /\ Len(q) = 3 + x + 4 * y
          BY <3>5, <3>6
        <4> HIDE DEF x, y
        <4>2. QED
          BY <4>1
      <3>7. Stands(t, off, Len(q), q)
        BY <1>6, <2>6, <3>4, <3>5
      <3>8. off + Len(q) <= Len(t)
        BY <3>7 DEF Stands
      <3>9. Len(W(i).index) = off + Len(q)
        BY <2>4, <3>4, <3>5, BytesBehind DEF Typed
      <3> HIDE DEF off, l
      <3>10. /\ EntryWhole(t, off + 1) /\ EntryEnd(t, off + 1) = off + Len(q)
             /\ KeyAt(t, off + 1) = <<l.contest, l.name>>
             /\ DOMAIN CasesAt(t, off + 1) = 1..Len(l.cases)
             /\ \A m \in 1..Len(l.cases) : CaseStands(W(i).data, CasesAt(t, off + 1)[m], l.cases[m])
        BY <1>5, <3>1, <3>4, <3>6, <3>7, EntryRead, SMTT(30)
      <3> DEFINE found == CasesAt(t, off + 1)
                 more == Put(entries, Key(l), found)
      <3>11. k + 1 \in 1..Len(t) /\ (k + 1) - 1 = k /\ k + 1 <= Len(W(i).index)
        <4>1. k <= off
          BY <2>2 DEF off
        <4>2. k \in Nat /\ k + 1 <= off + Len(q)
          BY <1>5, <3>6, <3>17, <4>1
        <4>3. k + 1 <= Len(t)
          BY <1>5, <3>6, <3>8, <4>2
        <4>4. k + 1 <= Len(W(i).index)
          BY <3>9, <4>2
        <4>5. k \in Nat /\ Len(t) \in Nat
          BY <1>5, <4>2
        <4>6. k + 1 \in 1..Len(t) /\ (k + 1) - 1 = k
          BY <4>3, <4>5
        <4>7. QED
          BY <4>4, <4>6
      <3>12. f[k + 1] = Reading(Len(W(i).index) + 1, more)
        <4>1. f[k + 1] = ReadEntry(t, f[k])
          BY <1>7, <3>11
        <4>2. ~(off + 1 > Len(t))
          BY <1>5, <3>6, <3>8, <3>17
        <4>3. f[k] = Reading(off + 1, entries)
          BY <2>3 DEF off
        <4>4. ReadEntry(t, Reading(off + 1, entries)) =
                 Reading(EntryEnd(t, off + 1) + 1, Put(entries, KeyAt(t, off + 1), CasesAt(t, off + 1)))
          BY <3>10, <4>2, ReadsEntry
        <4>5. QED
          BY <3>9, <3>10, <4>1, <4>3, <4>4 DEF Key
      <3>13. Finds(found, W(i).data, l.cases)
        BY <3>10 DEF Finds
      <3>14. Tells(more, W(i).data, lines_, i)
        <4> HIDE DEF found
        <4>1. \A j \in 1..i : lines_[j] \in BinLine
          BY <1>1, <1>4, <2>1
        <4>2. W(i - 1).data \in Seq(Nat)
          BY <2>4 DEF Typed
        <4> DEFINE d == W(i - 1).data
        <4>3. /\ d \in Seq(Nat) /\ Tells(entries, d, lines_, i - 1)
              /\ Finds(found, d \o e, lines_[i].cases)
          BY <2>3, <3>3, <3>13, <4>2 DEF l
        <4> HIDE DEF d
        <4>4. Tells(Put(entries, Key(lines_[i]), found), d \o e, lines_, i)
          BY <2>1, <2>6, <4>1, <4>3, TellsMore
        <4>5. QED
          BY <3>3, <4>4 DEF d, l
      <3> HIDE DEF more
      <3>15. Reaches(f, k + 1, i)
        BY <3>12, <3>14
      <3> HIDE DEF Reaches
      <3>16. QED
        BY <1>5, <2>1, <3>11, <3>15
    <2>7. QED
      BY <2>5, <2>6
  <1> HIDE DEF S
  <1>10. \A i \in 0..n : i \in S
    BY <1>1, <1>8, <1>9, EveryNumber
  <1>11. n \in S
    BY <1>1, <1>10
  <1>12. PICK k \in 0..Len(t) : Reaches(f, k, n)
    BY <1>11 DEF S
  <1>13. PICK entries : /\ f[k] = Reading(Len(W(n).index) + 1, entries)
                        /\ Tells(entries, W(n).data, lines_, n)
    BY <1>12
  <1> DEFINE end == Reading(Len(t) + 1, entries)
             Stays == {m \in 0..Len(t) : m >= k => f[m] = end}
  <1>14. f[k] = end
    BY <1>5, <1>13
  <1>15. 0 \in Stays
    <2>1. 0 >= k => k = 0
      BY <1>5
    <2>2. QED
      BY <1>5, <1>14, <2>1
  <1>16. ASSUME NEW m \in 1..Len(t), m - 1 \in Stays
         PROVE  m \in Stays
    <2>1. m \in 0..Len(t) /\ (m >= k => m = k \/ m - 1 >= k)
      BY <1>5
    <2>2. m - 1 >= k => f[m] = end
      <3> SUFFICES ASSUME m - 1 >= k PROVE f[m] = end
        OBVIOUS
      <3>1. f[m] = ReadEntry(t, end)
        BY <1>7, <1>16
      <3>2. Len(t) + 1 > Len(t)
        BY <1>5
      <3>3. QED
        BY <3>1, <3>2, ReadsNoMore
    <2>3. QED
      BY <1>14, <2>1, <2>2
  <1> HIDE DEF Stays
  <1>17. \A m \in 0..Len(t) : m \in Stays
    BY <1>5, <1>15, <1>16, EveryNumber
  <1>18. Len(t) \in Stays /\ Len(t) >= k
    BY <1>5, <1>17
  <1>19. f[Len(t)] = end
    BY <1>18 DEF Stays
  <1>20. ParseIndex(t) = Reading(Len(t) + 1, entries) /\ Tells(entries, all.data, lines_, n)
    BY <1>5, <1>7, <1>13, <1>19
  <1>21. QED
    BY <1>20 DEF t, n

-----------------------------------------------------------------------------
(* The finished file answers for its contents. *)

(* A file whose header says where the data and the index of all are. *)
HasAll(f, all) ==
    /\ Typed(all) /\ f # Nil /\ f.header # Nil
    /\ f.header.dataOffset = HeaderSize
    /\ f.header.indexOffset = HeaderSize + Len(all.data)
    /\ f.header.indexSize = Len(all.index)
    /\ f.body = all.data \o all.index

(* A finished file has all that was written. *)
LEMMA FileThere ==
    ASSUME NEW lines_ \in Inputs, Sound(lines_),
           NEW all, all = Written(lines_)[Len(lines_)], NEW f, f = FileOf(lines_)
    PROVE  HasAll(f, all)
  <1> DEFINE h == NewHeader(Len(all.data), Len(all.index))
             b == all.data \o all.index
  <1>1. Len(lines_) \in Nat
    BY BinLines
  <1>2. Typed(all)
    BY <1>1, WrittenTyped
  <1>3. f = [header |-> h, body |-> b]
    BY DEF FileOf
  <1>4. /\ h = [dataOffset |-> HeaderSize, dataSize |-> Len(all.data),
                indexOffset |-> HeaderSize + Len(all.data), indexSize |-> Len(all.index)]
    BY DEF NewHeader
  <1>5. Len(all.data) \in Nat /\ Len(all.index) \in Nat /\ b \in Seq(Nat)
    <2> DEFINE x == all.data
               y == all.index
    <2>1. x \in Seq(Nat) /\ y \in Seq(Nat)
      BY <1>2 DEF Typed
    <2> HIDE DEF x, y
    <2>2. Len(x) \in Nat /\ Len(y) \in Nat /\ x \o y \in Seq(Nat)
      BY <2>1
    <2>3. QED
      BY <2>2 DEF x, y
  <1> HIDE DEF b
  <1>6. h \in Header
    BY <1>4, <1>5, SizeAssumption DEF Header
  <1>7. /\ h.dataOffset = HeaderSize /\ h.indexOffset = HeaderSize + Len(all.data)
        /\ h.indexSize = Len(all.index)
    BY <1>4
  <1> HIDE DEF h
  <1>8. f.header = h /\ f.body = b
    BY <1>3
  <1>9. f \in [header : Header \cup {Nil}, body : Seq(Nat)]
    BY <1>3, <1>5, <1>6
  <1>10. f # Nil /\ h # Nil
    BY <1>6, <1>9, NoneAssumption
  <1>11. QED
    BY <1>2, <1>7, <1>8, <1>10 DEF h, b, HasAll

(* A slice of the file has the bytes that stand there in its body. *)
LEMMA SliceFinds ==
    ASSUME NEW f, f.body \in Seq(Nat), f.header.dataOffset = HeaderSize,
           NEW bytes \in Seq(Nat), NEW off, NEW len, Stands(f.body, off, len, bytes)
    PROVE  slice(f, off, len) = bytes
  <1> DEFINE b == f.body
             start == HeaderSize + off
  <1>1. off \in Nat /\ len = Len(bytes) /\ off + len <= Len(b)
    BY DEF Stands
  <1>2. Len(bytes) \in Nat
    OBVIOUS
  <1>3. b \in Seq(Nat) /\ Size(f) = HeaderSize + Len(b)
    BY DEF Size
  <1>4. SubSeq(b, off + 1, off + len) = bytes
    BY StandsSlice
  <1>5. FieldsOf(f, start, start + len) = SubSeq(b, start - HeaderSize + 1, (start + len) - HeaderSize)
    BY DEF FieldsOf
  <1> HIDE DEF b
  <1>6. Len(b) \in Nat
    BY <1>3
  <1>7. start - HeaderSize + 1 = off + 1 /\ (start + len) - HeaderSize = off + len
    BY <1>1, <1>2, SizeAssumption
  <1>8. ~(start + len > Size(f))
    BY <1>1, <1>2, <1>3, <1>6, SizeAssumption
  <1>9. slice(f, off, len) = FieldsOf(f, start, start + len)
    BY <1>8 DEF slice
  <1>10. QED
    BY <1>4, <1>5, <1>7, <1>9

(* What the reader makes of the finished file. *)
LEMMA ReaderOpens ==
    ASSUME NEW lines_ \in Inputs, Sound(lines_),
           NEW all, all = Written(lines_)[Len(lines_)], NEW f, f = FileOf(lines_)
    PROVE  NewReader(f) = ParseIndex(all.index)
  <1> DEFINE d == all.data
             t == all.index
             start == HeaderSize + Len(d)
             end == start + Len(t)
  <1>1. /\ Typed(all) /\ f # Nil /\ f.header # Nil
        /\ f.header.indexOffset = start /\ f.header.indexSize = Len(t)
        /\ f.body = d \o t
    <2>1. HasAll(f, all)
      BY FileThere
    <2>2. QED
      BY <2>1 DEF HasAll
  <1>2. d \in Seq(Nat) /\ t \in Seq(Nat)
    BY <1>1 DEF Typed
  <1>3. f.header.indexOffset + f.header.indexSize = end
    BY <1>1
  <1> HIDE DEF d, t
  <1>4. /\ Len(d) \in Nat /\ Len(t) \in Nat /\ d \o t \in Seq(Nat)
        /\ Len(d \o t) = Len(d) + Len(t)
    BY <1>2, BytesBehind
  <1>5. ~(end > Size(f))
    BY <1>1, <1>4, SizeAssumption DEF Size
  <1>6. SubSeq(d \o t, Len(d) + 1, Len(d) + Len(t)) = t
    BY <1>2, <1>4, StandsBehind, StandsSlice
  <1>7. start - HeaderSize + 1 = Len(d) + 1 /\ end - HeaderSize = Len(d) + Len(t)
    BY <1>4, SizeAssumption
  <1>8. FieldsOf(f, start, end) = t
    BY <1>1, <1>6, <1>7 DEF FieldsOf
  <1> HIDE DEF start, end
  <1>9. NewReader(f) = ParseIndex(FieldsOf(f, start, end))
    BY <1>1, <1>3, <1>5 DEF NewReader
  <1>10. QED
    BY <1>8, <1>9 DEF t

(* A key of the contents has the cases of its last usable line. *)
LEMMA ContentsLast ==
    ASSUME NEW lines_ \in Inputs, NEW k \in DOMAIN Contents(lines_)
    PROVE  \E j \in 1..Len(lines_) : /\ k = Key(lines_[j]) /\ LastOf(lines_, Len(lines_), j)
                                     /\ Contents(lines_)[k] = lines_[j].cases
  <1> DEFINE n == Len(lines_)
             keyed == {i \in DOMAIN lines_ : Usable(lines_[i])}
             IsLast(j) == /\ <<lines_[j].contest, lines_[j].name>> = k
                          /\ \A i \in keyed : <<lines_[i].contest, lines_[i].name>> = k => i <= j
             j == CHOOSE i \in keyed : IsLast(i)
             T == {i \in keyed : Key(lines_[i]) = k}
  <1>1. n \in Nat /\ DOMAIN lines_ = 1..n
    BY BinLines
  <1>2. k \in {<<lines_[i].contest, lines_[i].name>> : i \in keyed}
        /\ Contents(lines_)[k] = lines_[j].cases
    BY DEF Contents
  <1>3. T \subseteq 1..n /\ T # {}
    BY <1>1, <1>2 DEF Key
  <1>4. PICK m \in T : \A i \in T : i <= m
    BY <1>1, <1>3, GreatestNumber
  <1>5. m \in keyed /\ IsLast(m)
    BY <1>4 DEF Key
  <1> HIDE DEF IsLast
  <1>6. j \in keyed /\ IsLast(j)
    BY <1>5
  <1> HIDE DEF j
  <1>7. j \in 1..n /\ Usable(lines_[j]) /\ Key(lines_[j]) = k
    BY <1>1, <1>6 DEF Key, IsLast
  <1>8. LastOf(lines_, n, j)
    BY <1>1, <1>6, <1>7 DEF LastOf, Key, IsLast
  <1>9. QED
    BY <1>2, <1>7, <1>8

(* A file written for lines that are accepted answers for them. *)
LEMMA ReadsBack ==
    ASSUME NEW lines_ \in Inputs, Sound(lines_)
    PROVE  Answers(FileOf(lines_), Contents(lines_))
  <1> DEFINE n == Len(lines_)
             all == Written(lines_)[n]
             f == FileOf(lines_)
             r == NewReader(f)
             contents == Contents(lines_)
  <1>1. n \in Nat /\ DOMAIN lines_ = 1..n /\ \A i \in 1..n : lines_[i] \in BinLine /\ Fits(lines_[i])
    BY BinLines, LineFits
  <1>2. HasAll(f, all)
    BY FileThere
  <1>3. Typed(all) /\ f.header.dataOffset = HeaderSize
    BY <1>2 DEF HasAll
  <1>4. f.body = all.data \o all.index
    BY <1>2 DEF HasAll
  <1>5. r = ParseIndex(all.index)
    BY ReaderOpens
  <1>6. PICK a, entries : /\ ParseIndex(all.index) = Reading(a, entries)
                          /\ Tells(entries, all.data, lines_, n)
    BY Parsed
  <1> HIDE DEF r, f, all
  <1>7. r = [at |-> a, ok |-> TRUE, entries |-> entries]
    BY <1>5, <1>6 DEF Reading
  <1>8. r.ok = TRUE /\ r.entries = entries
    BY <1>7
  <1>9. DOMAIN entries = DOMAIN contents
    <2>1. DOMAIN contents = {<<lines_[i].contest, lines_[i].name>> : i \in {i \in DOMAIN lines_ : Usable(lines_[i])}}
      BY DEF Contents
    <2>2. DOMAIN entries = {Key(lines_[j]) : j \in {j \in 1..n : Usable(lines_[j])}}
      BY <1>6 DEF Tells
    <2>3. QED
      BY <1>1, <2>1, <2>2 DEF Key
  <1> HIDE DEF contents
  <1>10. ASSUME NEW k \in DOMAIN contents, NEW m \in 1..(Len(contents[k]) + 1)
         PROVE  Get(f, k[1], k[2], m) = IF m <= Len(contents[k]) THEN contents[k][m] ELSE Nil
    <2>1. PICK j \in 1..n : /\ k = Key(lines_[j]) /\ LastOf(lines_, n, j)
                            /\ contents[k] = lines_[j].cases
      BY ContentsLast DEF contents
    <2> DEFINE l == lines_[j]
    <2>2. l \in BinLine /\ l.contest \in Nat /\ l.contest < WordSize
      BY <1>1, SizeAssumption DEF Fits
    <2>3. ToWord(l.contest) = l.contest
      BY <2>2, SizeAssumption, WordHolds DEF ToWord
    <2>4. k[1] = l.contest /\ k[2] = l.name /\ <<ToWord(k[1]), k[2]>> = k
      BY <2>1, <2>3 DEF Key
    <2>5. Finds(entries[k], all.data, l.cases)
      BY <1>6, <2>1 DEF Tells
    <2>6. contents[k] = l.cases
      BY <2>1
    <2> HIDE DEF l
    <2>7. Len(l.cases) \in Nat /\ \A i \in 1..Len(l.cases) : l.cases[i] = [in |-> l.cases[i].in, out |-> l.cases[i].out]
      <3> DEFINE C == [in : Seq(Nat), out : Seq(Nat)]
      <3>1. l.cases \in Seq(C)
        BY <2>2 DEF BinLine
      <3> HIDE DEF C
      <3>2. Len(l.cases) \in Nat /\ \A i \in 1..Len(l.cases) : l.cases[i] \in C
        BY <3>1, ElementOfSeq
      <3>3. QED
        BY <3>2 DEF C
    <2>8. DOMAIN entries[k] = 1..Len(l.cases)
      BY <2>5 DEF Finds
    <2>9. k \in DOMAIN r.entries /\ r.entries[k] = entries[k]
      BY <1>8, <1>9
    <2> DEFINE e == r.entries[k][m]
               in_ == slice(f, e.inOff, e.inLen)
               out_ == slice(f, e.outOff, e.outLen)
    <2>10. Get(f, k[1], k[2], m) =
              IF m \notin DOMAIN r.entries[k] THEN Nil
              ELSE IF in_ = Nil \/ out_ = Nil THEN Nil ELSE [in |-> in_, out |-> out_]
      BY <1>8, <2>4, <2>9 DEF Get, r
    <2>11. CASE m <= Len(contents[k])
      <3>1. m \in 1..Len(l.cases) /\ m \in DOMAIN r.entries[k]
        BY <2>6, <2>7, <2>8, <2>9, <2>11
      <3>2. CaseStands(all.data, e, l.cases[m])
        BY <2>5, <2>9, <3>1 DEF Finds
      <3> HIDE DEF e
      <3>3. l.cases[m].in \in Seq(Nat) /\ l.cases[m].out \in Seq(Nat)
        BY <2>2, <3>1, BinCases
      <3>4. all.data \in Seq(Nat) /\ all.index \in Seq(Nat) /\ f.body \in Seq(Nat)
        BY <1>3, <1>4, BytesBehind DEF Typed
      <3>5. Stands(f.body, e.inOff, e.inLen, l.cases[m].in)
        BY <1>4, <3>2, <3>3, <3>4, StandsOn DEF CaseStands
      <3>6. Stands(f.body, e.outOff, e.outLen, l.cases[m].out)
        BY <1>4, <3>2, <3>3, <3>4, StandsOn DEF CaseStands
      <3>7. in_ = l.cases[m].in
        BY <1>3, <3>3, <3>4, <3>5, SliceFinds
      <3>8. out_ = l.cases[m].out
        BY <1>3, <3>3, <3>4, <3>6, SliceFinds
      <3> HIDE DEF in_, out_
      <3>9. in_ # Nil /\ out_ # Nil
        BY <3>3, <3>7, <3>8, NoneAssumption
      <3>10. Get(f, k[1], k[2], m) = [in |-> l.cases[m].in, out |-> l.cases[m].out]
        BY <2>10, <3>1, <3>7, <3>8, <3>9
      <3>11. QED
        BY <2>6, <2>7, <2>11, <3>1, <3>10
    <2>12. CASE ~(m <= Len(contents[k]))
      <3>1. m \notin DOMAIN r.entries[k]
        BY <2>6, <2>7, <2>8, <2>9, <2>12
      <3>2. QED
        BY <2>10, <2>12, <3>1
    <2>13. QED
      BY <2>11, <2>12
  <1>11. ListProblems(f) = DOMAIN contents
    BY <1>8, <1>9 DEF ListProblems, r
  <1>12. Answers(f, contents)
    BY <1>8, <1>10, <1>11 DEF Answers, r
  <1>13. QED
    BY <1>12 DEF f, contents

-----------------------------------------------------------------------------
(* The builder of the binary file. *)

(* A file of an earlier run has the header of a finished one. *)
LEMMA OldFileThere ==
    ASSUME NEW f \in OldFiles
    PROVE  /\ \E old \in Inputs : Sound(old) /\ Answers(f, Contents(old))
           /\ f.header.dataOffset = HeaderSize
  <1>1. PICK old \in Inputs : Sound(old) /\ f = FileOf(old)
    BY DEF OldFiles
  <1>2. HasAll(f, Written(old)[Len(old)])
    BY <1>1, FileThere
  <1>3. QED
    BY <1>1, <1>2, ReadsBack DEF HasAll

(* The invariant holds before the builder has created its file. *)
LEMMA BuildInitInv ==
    ASSUME Init
    PROVE  BuildInv
  <1>1. Len(input) \in Nat /\ input \in Inputs
    BY BinLines DEF Init
  <1>2. at = 1 /\ 1..(at - 1) = {} /\ at - 1 = 0 /\ pc = "create"
    BY DEF Init
  <1>3. data = <<>> /\ index = <<>> /\ dataPos = Len(data)
    BY DEF Init
  <1>4. [data |-> data, index |-> index] = Written(input)[at - 1]
    BY <1>1, <1>2, <1>3, WrittenLoop DEF Start
  <1>5. file \in {Nil} \cup OldFiles
    BY DEF Init
  <1>6. file # Nil => file.header.dataOffset = HeaderSize
    BY <1>5, OldFileThere
  <1>7. TypeOK
    BY <1>1, <1>2, <1>3, <1>6 DEF TypeOK
  <1>8. QED
    BY <1>1, <1>2, <1>4, <1>5, <1>7 DEF BuildInv

(* An imported line: the builder has written what the loop says. *)
LEMMA WriteProblemInv ==
    ASSUME BuildInv, writeProblem
    PROVE  BuildInv'
  <1> DEFINE l == input[at]
             more == ProblemFields(l, dataPos)
  <1>1. /\ Len(input) \in Nat /\ at \in Nat /\ 1 <= at /\ at <= Len(input)
        /\ input \in Inputs /\ l \in BinLine
    BY BinLines DEF BuildInv, TypeOK, writeProblem
  <1>2. /\ index' = index \o more.index /\ data' = data \o more.data
        /\ dataPos' = Len(data') /\ pc = "import" /\ pc' = "import"
        /\ at' = at + 1 /\ input' = input /\ Usable(l) /\ ~TooLong(l)
    BY DEF writeProblem
  <1>3. dataPos = Len(data)
    BY DEF BuildInv, TypeOK
  <1>4. Accepted(l)
    <2>1. Len(l.name) \in Nat
      BY <1>1, BinCases
    <2>2. Len(l.name) < ByteSize /\ l.parses
      BY <1>2, <2>1, SizeAssumption DEF TooLong, Usable
    <2>3. QED
      BY <2>2 DEF Accepted
  <1>5. \A i \in 1..(at' - 1) : Accepted(input'[i])
    <2>1. 1..(at' - 1) = 1..(at - 1) \cup {at}
      BY <1>1, <1>2
    <2>2. QED
      BY <1>2, <1>4, <2>1 DEF BuildInv
  <1>6. [data |-> data', index |-> index'] = Written(input')[at' - 1]
    <2> DEFINE s == Written(input)[at - 1]
    <2>1. s = [data |-> data, index |-> index]
      BY DEF BuildInv
    <2> HIDE DEF s, more, l
    <2>2. s.data = data /\ s.index = index
      BY <2>1
    <2>3. ImportLine(s, l) = [data |-> data', index |-> index']
      BY <1>2, <1>3, <2>2 DEF ImportLine, more
    <2>4. Written(input)[at] = ImportLine(s, l)
      BY <1>1, WrittenLoop DEF s, l
    <2>5. at' - 1 = at
      BY <1>1, <1>2
    <2>6. QED
      BY <1>2, <2>3, <2>4, <2>5
  <1>7. file = [header |-> Nil, body |-> file.body]
    BY <1>2 DEF BuildInv
  <1>8. file' = [header |-> Nil, body |-> file'.body]
    <2>1. file' = file \/ file' = [file EXCEPT !.body = data']
      BY DEF writeProblem, Spill
    <2>2. [file EXCEPT !.body = data'] = [header |-> Nil, body |-> data']
      BY <1>7
    <2>3. QED
      BY <1>7, <2>1, <2>2
  <1>9. file'.header = Nil
    BY <1>8
  <1> HIDE DEF l, more
  <1>10. TypeOK'
    BY <1>1, <1>2, <1>9 DEF TypeOK
  <1>11. QED
    BY <1>1, <1>2, <1>5, <1>6, <1>8, <1>10 DEF BuildInv

(* Every step of the builder keeps it. *)
LEMMA BuildNextInv ==
    ASSUME BuildInv, Next
    PROVE  BuildInv'
  <1>1. Len(input) \in Nat /\ at \in Nat /\ 1 <= at /\ at <= Len(input) + 1 /\ input \in Inputs
    BY BinLines DEF BuildInv, TypeOK
  <1>2. CASE Create
    <2>1. file' = [header |-> Nil, body |-> <<>>] /\ pc' = "import"
          /\ UNCHANGED <<input, at, data, dataPos, index>>
      BY <1>2 DEF Create
    <2>2. file'.header = Nil /\ file' = [header |-> Nil, body |-> file'.body]
      BY <2>1
    <2>3. TypeOK'
      BY <2>1, <2>2 DEF BuildInv, TypeOK
    <2>4. QED
      BY <2>1, <2>2, <2>3 DEF BuildInv
  <1>3. CASE SkipLine
    <2>1. /\ at' = at + 1 /\ at <= Len(input) /\ pc = "import"
          /\ input[at].parses /\ ~Usable(input[at])
          /\ UNCHANGED <<input, pc, file, data, dataPos, index>>
      BY <1>3 DEF SkipLine
    <2>2. TypeOK'
      BY <1>1, <2>1 DEF BuildInv, TypeOK
    <2>3. \A i \in 1..(at' - 1) : Accepted(input'[i])
      <3>1. 1..(at' - 1) = 1..(at - 1) \cup {at} /\ Accepted(input[at])
        BY <1>1, <2>1 DEF Accepted
      <3>2. QED
        BY <2>1, <3>1 DEF BuildInv
    <2>4. [data |-> data', index |-> index'] = Written(input')[at' - 1]
      <3>1. Written(input)[at] = ImportLine(Written(input)[at - 1], input[at])
        BY <1>1, <2>1, WrittenLoop
      <3>2. Written(input)[at] = Written(input)[at - 1]
        BY <2>1, <3>1 DEF ImportLine
      <3>3. at' - 1 = at
        BY <1>1, <2>1
      <3>4. QED
        BY <2>1, <3>2, <3>3 DEF BuildInv
    <2>5. QED
      BY <2>1, <2>2, <2>3, <2>4 DEF BuildInv
  <1>4. CASE writeProblem
    BY <1>4, WriteProblemInv
  <1>5. CASE ImportFails
    BY <1>5 DEF ImportFails, BuildInv, TypeOK
  <1>6. CASE Flush
    <2>1. /\ pc = "import" /\ pc' = "index" /\ at > Len(input)
          /\ file' = [file EXCEPT !.body = data]
          /\ UNCHANGED <<input, at, data, dataPos, index>>
      BY <1>6 DEF Flush
    <2>2. file = [header |-> Nil, body |-> file.body]
      BY <2>1 DEF BuildInv
    <2>3. file' = [header |-> Nil, body |-> data]
      BY <2>1, <2>2
    <2>4. file'.header = Nil /\ file'.body = data /\ at = Len(input) + 1
      BY <1>1, <2>1, <2>3
    <2>5. TypeOK'
      BY <2>1, <2>4 DEF BuildInv, TypeOK
    <2>6. QED
      BY <2>1, <2>3, <2>4, <2>5 DEF BuildInv
  <1>7. CASE CopyIndex
    <2>1. /\ pc = "index" /\ pc' = "header"
          /\ file' = [file EXCEPT !.body = file.body \o index]
          /\ UNCHANGED <<input, at, data, dataPos, index>>
      BY <1>7 DEF CopyIndex
    <2>2. file = [header |-> Nil, body |-> file.body] /\ file.body = data
      BY <2>1 DEF BuildInv
    <2>3. file' = [header |-> Nil, body |-> data \o index]
      <3> DEFINE all == data \o index
      <3>1. file' = [file EXCEPT !.body = all]
        BY <2>1, <2>2
      <3> HIDE DEF all
      <3>2. [file EXCEPT !.body = all] = [header |-> Nil, body |-> all]
        BY <2>2
      <3>3. file' = [header |-> Nil, body |-> all]
        BY <3>1, <3>2
      <3>4. QED
        BY <3>3 DEF all
    <2>4. file'.header = Nil /\ file'.body = data \o index
      BY <2>3
    <2>5. TypeOK'
      BY <2>1, <2>4 DEF BuildInv, TypeOK
    <2>6. QED
      BY <2>1, <2>3, <2>4, <2>5 DEF BuildInv
  <1>8. CASE WriteHeader
    <2>1. /\ pc = "header" /\ pc' = "done"
          /\ file' = [file EXCEPT !.header = NewHeader(dataPos, Len(index))]
          /\ UNCHANGED <<input, at, data, dataPos, index>>
      BY <1>8 DEF WriteHeader
    <2>2. /\ file = [header |-> Nil, body |-> file.body] /\ file.body = data \o index
          /\ at = Len(input) + 1 /\ dataPos = Len(data)
      BY <2>1 DEF BuildInv, TypeOK
    <2>3. file' = [header |-> NewHeader(Len(data), Len(index)), body |-> data \o index]
      BY <2>1, <2>2
    <2> DEFINE all == Written(input)[Len(input)]
    <2>4. all = [data |-> data, index |-> index]
      <3>1. at - 1 = Len(input)
        BY <1>1, <2>2
      <3>2. QED
        BY <3>1 DEF BuildInv
    <2>5. file' = FileOf(input)
      <3>1. FileOf(input) = [header |-> NewHeader(Len(all.data), Len(all.index)),
                             body |-> all.data \o all.index]
        BY DEF FileOf
      <3> HIDE DEF all
      <3>2. all.data = data /\ all.index = index
        BY <2>4
      <3>3. QED
        BY <2>3, <3>1, <3>2
    <2>6. file'.header.dataOffset = HeaderSize
      BY <2>3 DEF NewHeader
    <2>7. TypeOK'
      BY <2>1, <2>6 DEF BuildInv, TypeOK
    <2>8. QED
      BY <2>1, <2>2, <2>5, <2>7 DEF BuildInv
  <1>9. CASE Dies
    <2>1. /\ pc \in {"create", "import", "index", "header"} /\ pc' = "failed"
          /\ UNCHANGED <<input, at, file, data, dataPos, index>>
      BY <1>9 DEF Dies
    <2>2. file = Nil \/ file.header = Nil \/ (at = 1 /\ file \in OldFiles)
      <3>1. CASE pc = "create"
        BY <3>1 DEF BuildInv
      <3>2. CASE pc # "create"
        <4>1. file = [header |-> Nil, body |-> file.body]
          BY <2>1, <3>2 DEF BuildInv
        <4>2. QED
          BY <4>1
      <3>3. QED
        BY <3>1, <3>2
    <2>3. TypeOK'
      BY <2>1 DEF BuildInv, TypeOK
    <2>4. QED
      BY <2>1, <2>2, <2>3 DEF BuildInv
  <1>10. QED
    BY <1>2, <1>3, <1>4, <1>5, <1>6, <1>7, <1>8, <1>9 DEF Next

(* So does a step that leaves its variables alone. *)
LEMMA BuildUnchanged ==
    ASSUME BuildInv, UNCHANGED vars
    PROVE  BuildInv'
  BY DEF BuildInv, TypeOK, vars

(* The invariant of the builder. *)
THEOREM BuildSafe == TestDataSpec => [](tool = "cf_bin_builder" => BuildInv)
  <1>1. TestDataInit => (tool = "cf_bin_builder" => BuildInv)
    BY BuildInitInv DEF TestDataInit
  <1>2. (tool = "cf_bin_builder" => BuildInv) /\ [TestDataNext]_testDataVars
           => (tool = "cf_bin_builder" => BuildInv)'
    <2> SUFFICES ASSUME tool = "cf_bin_builder" => BuildInv, [TestDataNext]_testDataVars,
                        tool' = "cf_bin_builder"
                 PROVE  BuildInv'
      OBVIOUS
    <2>1. CASE Builds
      BY <2>1, BuildNextInv DEF Builds
    <2>2. CASE UNCHANGED testDataVars
      BY <2>2, BuildUnchanged DEF testDataVars, fileVars, vars
    <2>3. ~ImportsIoi /\ ~ImportsCodeforces
      BY DEF ImportsIoi, ImportsCodeforces
    <2>4. QED
      BY <2>1, <2>2, <2>3 DEF TestDataNext
  <1>3. QED
    BY <1>1, <1>2, PTL DEF TestDataSpec

(* Only the builder has a binary file. *)
NoOtherFile ==
    /\ tool \in {"cf_bin_builder", "codeforces_jsonl_to_sqlite", "ioi_json_to_sql"}
    /\ tool # "cf_bin_builder" => file = Nil

(* The importers leave the variables of the builder alone. *)
LEMMA FileOfBuilder == TestDataSpec => []NoOtherFile
  <1>1. TestDataInit => NoOtherFile
    BY DEF TestDataInit, NoOtherFile, NoFile
  <1>2. NoOtherFile /\ [TestDataNext]_testDataVars => NoOtherFile'
    BY DEF NoOtherFile, TestDataNext, Builds, ImportsCodeforces, ImportsIoi, testDataVars, fileVars
  <1>3. QED
    BY <1>1, <1>2, PTL DEF TestDataSpec

(* A finished file gives back every case of the last line of its key, byte *)
(* for byte, and nothing else, although its offsets were counted before    *)
(* the data was written and an older, longer file may have been there.     *)
THEOREM BuiltIsRead == TestDataSpec => []BuiltReadsBack
  <1>1. /\ tool = "cf_bin_builder" => BuildInv
        /\ OfCodeforces(Cf!ImportInv) /\ OfIoi(Ioi!ImportInv) /\ NoOtherFile
        => BuiltReadsBack
    <2> SUFFICES ASSUME tool = "cf_bin_builder" => BuildInv,
                        OfCodeforces(Cf!ImportInv), OfIoi(Ioi!ImportInv), NoOtherFile,
                        pc = "done"
                 PROVE  Answers(file, Contents(input))
      BY DEF BuiltReadsBack
    <2>1. tool # "codeforces_jsonl_to_sqlite"
      BY DEF OfCodeforces, Cf!ImportInv, Cf!TypeOK
    <2>2. tool # "ioi_json_to_sql"
      BY DEF OfIoi, Ioi!ImportInv, Ioi!TypeOK
    <2>3. BuildInv
      BY <2>1, <2>2 DEF NoOtherFile
    <2>4. /\ input \in Inputs /\ at = Len(input) + 1 /\ file = FileOf(input)
          /\ \A i \in 1..(at - 1) : Accepted(input[i])
      BY <2>3 DEF BuildInv
    <2>5. Sound(input)
      <3>1. Len(input) \in Nat /\ DOMAIN input = 1..Len(input)
        BY <2>4, InputAssumption
      <3>2. at - 1 = Len(input)
        BY <2>4, <3>1
      <3>3. QED
        BY <2>4, <3>1, <3>2 DEF Sound
    <2>6. QED
      BY <2>4, <2>5, ReadsBack
  <1>2. QED
    BY <1>1, BuildSafe, ImportSafe, IoiSafe, FileOfBuilder, PTL

(* A file that is not finished is refused: it has no header until all else *)
(* is in it; a builder that died before it opened its file has left an     *)
(* older one, which still reads back.                                      *)
THEOREM HalfWrittenIsRefused == TestDataSpec => []HalfWrittenRefused
  <1>1. (tool = "cf_bin_builder" => BuildInv) /\ NoOtherFile => HalfWrittenRefused
    <2> SUFFICES ASSUME tool = "cf_bin_builder" => BuildInv, NoOtherFile,
                        pc \notin {"create", "done"}, file # Nil, NewReader(file).ok
                 PROVE  data = <<>> /\ at = 1
                        /\ \E old \in Inputs : Sound(old) /\ Answers(file, Contents(old))
      BY DEF HalfWrittenRefused
    <2>1. BuildInv
      BY DEF NoOtherFile
    <2>2. file.header # Nil
      BY DEF NewReader, Bad
    <2>3. at = 1 /\ file \in OldFiles
      <3>1. pc \notin {"import", "index", "header"}
        <4>1. SUFFICES ASSUME pc \in {"import", "index", "header"} PROVE FALSE
          OBVIOUS
        <4>2. file = [header |-> Nil, body |-> file.body]
          BY <2>1, <4>1 DEF BuildInv
        <4>3. QED
          BY <2>2, <4>2
      <3>2. pc = "failed"
        BY <2>1, <3>1 DEF BuildInv, TypeOK
      <3>3. QED
        BY <2>1, <2>2, <3>2 DEF BuildInv
    <2>4. data = <<>>
      <3>1. Len(input) \in Nat /\ input \in Inputs
        BY <2>1, BinLines DEF BuildInv
      <3>2. [data |-> data, index |-> index] = Start
        BY <2>1, <2>3, <3>1, WrittenLoop DEF BuildInv
      <3>3. QED
        BY <3>2 DEF Start
    <2>5. QED
      BY <2>3, <2>4, OldFileThere
  <1>2. QED
    BY <1>1, BuildSafe, FileOfBuilder, PTL

-----------------------------------------------------------------------------
(* The types of whichever tool is at work. *)
THEOREM ToolsTyped == TestDataSpec => []TestDataTypeOK
  <1>1. (tool = "cf_bin_builder" => BuildInv) /\ OfCodeforces(Cf!ImportInv) /\ OfIoi(Ioi!ImportInv)
           => TestDataTypeOK
    BY DEF TestDataTypeOK, OfCodeforces, OfIoi, BuildInv, Cf!ImportInv, Ioi!ImportInv
  <1>2. QED
    BY <1>1, BuildSafe, ImportSafe, IoiSafe, PTL
=============================================================================
