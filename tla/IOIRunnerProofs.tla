--------------------------- MODULE IOIRunnerProofs ---------------------------
(***************************************************************************)
(* The batch runner keeps its permits and tells the truth, for any number  *)
(* of permits and slots and any finite input of problems with any          *)
(* sub-tasks: proofs of the invariants that the run of MCIOIRunner checks  *)
(* on inputs of three lines.                                               *)
(***************************************************************************)
EXTENDS IOIRunner, CountingLemmas, SequenceTheorems

(* A finite set of places: each place has a rank of its own, and every     *)
(* rank is taken.                                                          *)
LEMMA Ranks ==
    ASSUME NEW P, IsFiniteSet(P), P \subseteq Nat \X Nat
    PROVE  /\ \A n \in 1..Cardinality(P) : \E p \in P : Rank(P, p) = n
           /\ \A p \in P : Rank(P, p) \in 1..Cardinality(P)
           /\ \A p, q \in P : Rank(P, p) = Rank(P, q) => p = q
  <1> DEFINE N == Cardinality(P)
             Upto(p) == {q \in P : ~Before(p, q)}
             rank == [p \in P |-> Rank(P, p)]
  <1>1. ASSUME NEW p \in P
        PROVE  IsFiniteSet(Upto(p)) /\ Cardinality(Upto(p)) \in 1..N /\ p \in Upto(p)
    <2>1. Upto(p) \in SUBSET P
      OBVIOUS
    <2>2. p \in Upto(p)
      BY DEF Before
    <2> HIDE DEF Upto
    <2>3. IsFiniteSet(Upto(p)) /\ Cardinality(Upto(p)) <= N /\ Upto(p) # {}
      BY <2>1, <2>2, FS_Subset
    <2>4. Cardinality(Upto(p)) \in Nat /\ Cardinality(Upto(p)) # 0 /\ N \in Nat
      BY <2>3, FS_CardinalityType, FS_EmptySet
    <2>5. QED
      BY <2>2, <2>3, <2>4
  <1>2. ASSUME NEW p \in P, NEW q \in P, Before(p, q)
        PROVE  Cardinality(Upto(p)) # Cardinality(Upto(q))
    <2>1. p[1] \in Nat /\ p[2] \in Nat /\ q[1] \in Nat /\ q[2] \in Nat
      OBVIOUS
    <2>2. \A r \in Upto(p) : r \in Upto(q)
      BY <1>2, <2>1 DEF Before
    <2>3. q \notin Upto(p)
      BY <1>2
    <2>4. Upto(p) \in SUBSET Upto(q) /\ Upto(p) # Upto(q)
      BY <1>1, <2>2, <2>3
    <2> HIDE DEF Upto
    <2>5. QED
      BY <1>1, <2>4, FS_Subset
  <1>3. rank \in Injection(P, 1..N)
    <2>1. rank \in [P -> 1..N]
      BY <1>1 DEF Rank
    <2>2. ASSUME NEW p \in P, NEW q \in P, p # q PROVE rank[p] # rank[q]
      <3>1. Before(p, q) \/ Before(q, p)
        BY <2>2 DEF Before
      <3>2. rank[p] = Cardinality(Upto(p)) /\ rank[q] = Cardinality(Upto(q))
        BY DEF Rank
      <3>3. QED
        BY <1>2, <3>1, <3>2
    <2>3. QED
      BY <2>1, <2>2 DEF Injection, IsInjective
  <1>4. N \in Nat /\ IsFiniteSet(1..N) /\ Cardinality(1..N) = N
    <2>1. N \in Nat
      BY FS_CardinalityType
    <2>2. QED
      BY <2>1, FS_Interval
  <1>5. rank \in Surjection(P, 1..N)
    <2> HIDE DEF rank
    <2>1. QED
      BY <1>3, <1>4, FS_Injection
  <1>6. QED
    BY <1>3, <1>5 DEF Surjection, Injection, IsInjective

SubTaskSeq == Seq([name : STRING, points : Nat, cases : Seq(STRING)])

(* The cases named by the sub-tasks stand at finitely many places. *)
LEMMA PlacesFinite ==
    ASSUME NEW s \in SubTaskSeq
    PROVE  Places(s) \subseteq Nat \X Nat /\ IsFiniteSet(Places(s))
  <1> DEFINE D == DOMAIN s
             R == [i \in D |-> {i} \X DOMAIN s[i].cases]
             RR == {R[i] : i \in D}
  <1>1. D = 1..Len(s) /\ Len(s) \in Nat
    BY DEF SubTaskSeq
  <1>2. ASSUME NEW i \in D
        PROVE  DOMAIN s[i].cases \subseteq Nat /\ IsFiniteSet(DOMAIN s[i].cases)
    <2>1. s[i].cases \in Seq(STRING)
      <3>1. s[i] \in [name : STRING, points : Nat, cases : Seq(STRING)]
        BY <1>1, ElementOfSeq DEF SubTaskSeq
      <3>2. QED
        BY <3>1
    <2>2. DOMAIN s[i].cases = 1..Len(s[i].cases) /\ Len(s[i].cases) \in Nat
      BY <2>1
    <2>3. QED
      BY <2>2, FS_Interval
  <1>3. \A i \in D : IsFiniteSet(R[i])
    <2>1. ASSUME NEW i \in D PROVE IsFiniteSet({i} \X DOMAIN s[i].cases)
      BY <1>2, FS_Singleton, FS_Product
    <2>2. QED
      BY <2>1
  <1>4. IsFiniteSet(RR)
    <2>1. IsFiniteSet(D)
      BY <1>1, FS_Interval
    <2>2. R \in Surjection(D, RR)
      BY DEF Surjection
    <2> HIDE DEF R, RR, D
    <2>3. QED
      BY <2>1, <2>2, FS_Surjection
  <1>5. \A T \in RR : IsFiniteSet(T)
    BY <1>3
  <1>6. Places(s) = UNION RR
    BY DEF Places
  <1> HIDE DEF RR
  <1>7. IsFiniteSet(Places(s))
    BY <1>4, <1>5, <1>6, FS_UNION
  <1>8. Places(s) \subseteq Nat \X Nat
    BY <1>1, <1>2 DEF Places
  <1>9. QED
    BY <1>7, <1>8

(* The cases to run are a sequence in which none stands twice. *)
LEMMA DistinctCases ==
    ASSUME NEW s \in SubTaskSeq
    PROVE  /\ Cardinality(First(s)) \in Nat
           /\ DOMAIN Distinct(s) = 1..Cardinality(First(s))
           /\ \A m, n \in DOMAIN Distinct(s) : m # n => Distinct(s)[m] # Distinct(s)[n]
  <1> DEFINE F == First(s)
             at(n) == CHOOSE p \in F : Rank(F, p) = n
  <1>1. F \in SUBSET Places(s) /\ F \subseteq Nat \X Nat
    BY PlacesFinite DEF First
  <1>2. IsFiniteSet(F) /\ Cardinality(F) \in Nat
    <2> HIDE DEF F
    <2>1. IsFiniteSet(F)
      BY <1>1, PlacesFinite, FS_Subset
    <2>2. QED
      BY <2>1, FS_CardinalityType
  <1>3. DOMAIN Distinct(s) = 1..Cardinality(F)
    BY DEF Distinct
  <1>4. ASSUME NEW n \in 1..Cardinality(F) PROVE at(n) \in F /\ Rank(F, at(n)) = n
    <2> HIDE DEF F
    <2>1. \E p \in F : Rank(F, p) = n
      BY <1>1, <1>2, Ranks
    <2>2. QED
      BY <2>1
  <1>5. \A n \in 1..Cardinality(F) : Distinct(s)[n] = CaseOf(s, at(n))
    BY DEF Distinct
  <1>6. ASSUME NEW p \in F, NEW q \in F, p # q PROVE CaseOf(s, p) # CaseOf(s, q)
    <2>1. Before(p, q) \/ Before(q, p)
      BY <1>1, <1>6 DEF Before
    <2>2. QED
      BY <2>1 DEF First
  <1> HIDE DEF F
  <1>7. ASSUME NEW m \in 1..Cardinality(F), NEW n \in 1..Cardinality(F), m # n
        PROVE  Distinct(s)[m] # Distinct(s)[n]
    <2>1. at(m) \in F /\ at(n) \in F /\ at(m) # at(n)
      <3>1. at(m) \in F /\ Rank(F, at(m)) = m
        BY <1>4
      <3>2. at(n) \in F /\ Rank(F, at(n)) = n
        BY <1>4
      <3>3. QED
        BY <3>1, <3>2, <1>7
    <2> HIDE DEF at
    <2>2. QED
      BY <1>5, <1>6, <2>1
  <1>8. QED
    BY <1>2, <1>3, <1>7 DEF F

(* Every case a sub-task names is among them: where it is named first has  *)
(* a rank.                                                                 *)
LEMMA EveryCaseRuns ==
    ASSUME NEW s \in SubTaskSeq, NEW p \in Places(s)
    PROVE  \E n \in DOMAIN Distinct(s) : Distinct(s)[n] = CaseOf(s, p)
  <1> DEFINE F == First(s)
             same == {q \in Places(s) : CaseOf(s, q) = CaseOf(s, p)}
             rows == {q[1] : q \in same}
  <1>1. Places(s) \subseteq Nat \X Nat /\ IsFiniteSet(Places(s))
    BY PlacesFinite
  <1>2. PICK i \in rows : \A k \in rows : i <= k
    <2>1. p \in same
      OBVIOUS
    <2>2. rows \subseteq Nat /\ rows # {}
      BY <1>1, <2>1
    <2> HIDE DEF rows
    <2>3. QED
      BY <2>2, LeastNumber
  <1> DEFINE columns == {q[2] : q \in {r \in same : r[1] = i}}
  <1>3. PICK j \in columns : \A k \in columns : j <= k
    <2>1. PICK q \in same : q[1] = i
      BY <1>2
    <2>2. columns \subseteq Nat /\ columns # {}
      BY <1>1, <2>1
    <2> HIDE DEF columns
    <2>3. QED
      BY <2>2, LeastNumber
  <1> DEFINE f == <<i, j>>
  <1>4. f \in same
    <2>1. PICK q \in same : q[1] = i /\ q[2] = j
      BY <1>3
    <2>2. q = <<i, j>>
      BY <1>1, <2>1
    <2>3. QED
      BY <2>1, <2>2
  <1>5. f \in F
    <2>1. ASSUME NEW q \in same PROVE ~Before(q, f)
      <3>1. q[1] \in rows /\ (q[1] = i => q[2] \in columns)
        OBVIOUS
      <3>2. q[1] \in Nat /\ q[2] \in Nat /\ i \in Nat /\ j \in Nat
        BY <1>1, <1>4
      <3>3. i <= q[1] /\ (q[1] = i => j <= q[2])
        BY <1>2, <1>3, <3>1
      <3> HIDE DEF same, rows, columns
      <3>4. QED
        BY <3>2, <3>3 DEF Before
    <2>2. QED
      BY <1>4, <2>1 DEF First
  <1>6. F \in SUBSET Places(s)
    BY DEF First
  <1> DEFINE n == Rank(F, f)
             at == CHOOSE q \in F : Rank(F, q) = n
  <1>7. n \in 1..Cardinality(F) /\ at = f
    <2> HIDE DEF F, f
    <2>1. IsFiniteSet(F) /\ F \subseteq Nat \X Nat
      BY <1>1, <1>6, FS_Subset
    <2>2. n \in 1..Cardinality(F) /\ \A q \in F : Rank(F, q) = n => q = f
      BY <1>5, <2>1, Ranks
    <2> HIDE DEF n
    <2>3. QED
      BY <1>5, <2>2 DEF n
  <1>8. Distinct(s)[n] = CaseOf(s, at) /\ n \in DOMAIN Distinct(s)
    BY <1>7 DEF Distinct
  <1>9. CaseOf(s, f) = CaseOf(s, p)
    BY <1>4
  <1> HIDE DEF n, at, f
  <1>10. QED
    BY <1>7, <1>8, <1>9

(* A line of the batch, and the cases of its problem. *)
LEMMA BatchLine ==
    ASSUME payload \in Payloads
    PROVE  /\ Len(payload) \in Nat /\ DOMAIN payload = 1..Len(payload)
           /\ DOMAIN payload \subseteq Lines
           /\ \A l \in DOMAIN payload :
                 /\ payload[l].kind \in {"blank", "bad", "problem"}
                 /\ payload[l].programs \subseteq Programs
                 /\ payload[l].subTasks \in SubTaskSeq
  <1> DEFINE Problem == [kind : {"blank", "bad", "problem"}, programs : SUBSET Programs,
                         special : BOOLEAN, subTasks : SubTaskSeq]
  <1>1. payload \in Seq(Problem)
    BY PayloadAssumption DEF SubTaskSeq
  <1> HIDE DEF SubTaskSeq
  <1>2. DOMAIN payload \subseteq Lines
    BY DEF Lines
  <1>3. \A r \in Problem : /\ r.kind \in {"blank", "bad", "problem"}
                           /\ r.programs \subseteq Programs
                           /\ r.subTasks \in SubTaskSeq
    OBVIOUS
  <1> HIDE DEF Problem, Lines
  <1>4. Len(payload) \in Nat /\ DOMAIN payload = 1..Len(payload)
    BY <1>1
  <1>5. \A l \in DOMAIN payload : payload[l] \in Problem
    BY <1>1, <1>4, ElementOfSeq
  <1>6. QED
    BY <1>2, <1>3, <1>4, <1>5

(* Lines are numbered from 1. *)
LEMMA LineNumbers == Lines \subseteq Nat \ {0}
  <1>1. ASSUME NEW p \in Payloads PROVE DOMAIN p \subseteq Nat \ {0}
    <2>1. Len(p) \in Nat /\ DOMAIN p = 1..Len(p)
      BY PayloadAssumption
    <2>2. QED
      BY <2>1
  <1>2. QED
    BY <1>1 DEF Lines

(* The cases of a line are its problem's, each once. *)
LEMMA LineCases ==
    ASSUME payload \in Payloads, NEW l \in DOMAIN payload
    PROVE  /\ Len(TestCases[l]) \in Nat /\ DOMAIN TestCases[l] = 1..Len(TestCases[l])
           /\ \A n \in DOMAIN TestCases[l] : TestCases[l][n] \in Cases
           /\ \A n \in DOMAIN TestCases[l] : TestCases[l][n] \in ToSet(TestCases[l])
           /\ \A m, n \in DOMAIN TestCases[l] : m # n => TestCases[l][m] # TestCases[l][n]
  <1> DEFINE s == payload[l].subTasks
  <1>1. s \in SubTaskSeq
    BY BatchLine
  <1>2. TestCases[l] = Distinct(s)
    BY DEF TestCases, CasesOf
  <1>3. /\ Cardinality(First(s)) \in Nat
        /\ DOMAIN TestCases[l] = 1..Cardinality(First(s))
        /\ \A m, n \in DOMAIN TestCases[l] : m # n => TestCases[l][m] # TestCases[l][n]
    BY <1>1, <1>2, DistinctCases, Zenon
  <1>4. \A n \in DOMAIN TestCases[l] : TestCases[l][n] \in ToSet(TestCases[l])
    BY DEF ToSet
  <1>5. ToSet(TestCases[l]) \subseteq Cases
    BY DEF TestCases, Cases
  <1> HIDE DEF s
  <1>6. Len(TestCases[l]) = Cardinality(First(s))
    BY <1>3
  <1>7. QED
    BY <1>3, <1>4, <1>5, <1>6, Zenon

-----------------------------------------------------------------------------
(* The sum of a sequence is the last of its partial sums. *)
LEMMA PartialSums ==
    ASSUME NEW v \in Seq(Int)
    PROVE  \E f \in [0..Len(v) -> Int] :
              /\ f[0] = 0 /\ \A n \in 1..Len(v) : f[n] = f[n - 1] + v[n]
              /\ SumOf(v) = f[Len(v)]
  <1> DEFINE L == Len(v)
             Partial(f, m) == f = [n \in 0..m |-> IF n = 0 THEN 0 ELSE f[n - 1] + v[n]]
             Bad == {m \in 0..L : ~ \E f \in [0..m -> Int] : Partial(f, m)}
  <1>1. L \in Nat /\ \A n \in 1..L : v[n] \in Int
    BY ElementOfSeq
  <1>2. Bad = {}
    <2> SUFFICES ASSUME Bad # {} PROVE FALSE
      OBVIOUS
    <2>1. Bad \subseteq Nat
      BY <1>1
    <2> HIDE DEF Bad
    <2>2. PICK m \in Bad : \A k \in Bad : m <= k
      BY <2>1, LeastNumber
    <2>3. m \in 0..L /\ ~ \E f \in [0..m -> Int] : Partial(f, m)
      BY <2>2 DEF Bad
    <2>4. CASE m = 0
      <3> DEFINE f == [n \in 0..0 |-> 0]
      <3>1. f \in [0..0 -> Int] /\ Partial(f, 0)
        OBVIOUS
      <3>2. QED
        BY <2>3, <2>4, <3>1
    <2>5. CASE m # 0
      <3>1. m - 1 \in 0..L /\ m - 1 \notin Bad
        BY <2>2, <2>3, <2>5, <1>1
      <3>2. PICK f \in [0..(m - 1) -> Int] : Partial(f, m - 1)
        BY <3>1 DEF Bad
      <3> DEFINE g == [n \in 0..m |-> IF n = m THEN f[m - 1] + v[m] ELSE f[n]]
      <3>3. g \in [0..m -> Int] /\ g[m] = f[m - 1] + v[m] /\ \A n \in 0..(m - 1) : g[n] = f[n]
        BY <1>1, <2>3, <2>5, <3>2
      <3>4. \A n \in 0..(m - 1) : f[n] = IF n = 0 THEN 0 ELSE f[n - 1] + v[n]
        BY <3>2
      <3> HIDE DEF g
      <3>5. \A n \in 0..m : g[n] = IF n = 0 THEN 0 ELSE g[n - 1] + v[n]
        <4>1. ASSUME NEW n \in 0..m, n < m
              PROVE  g[n] = IF n = 0 THEN 0 ELSE g[n - 1] + v[n]
          <5>1. n \in 0..(m - 1) /\ (n # 0 => n - 1 \in 0..(m - 1))
            BY <2>3, <4>1, <1>1
          <5>2. QED
            BY <3>3, <3>4, <5>1
        <4>2. g[m] = IF m = 0 THEN 0 ELSE g[m - 1] + v[m]
          <5>1. m - 1 \in 0..(m - 1)
            BY <2>3, <2>5, <1>1
          <5>2. QED
            BY <2>5, <3>3, <5>1
        <4>3. \A n \in 0..m : n < m \/ n = m
          BY <2>3, <1>1
        <4>4. QED
          BY <4>1, <4>2, <4>3
      <3>6. Partial(g, m)
        BY <3>3, <3>5
      <3>7. QED
        BY <2>3, <3>3, <3>6
    <2>6. QED
      BY <2>4, <2>5
  <1>3. L \in 0..L /\ L \notin Bad
    BY <1>1, <1>2
  <1>4. \E f : Partial(f, L)
    BY <1>3
  <1> DEFINE sum == CHOOSE f : Partial(f, L)
  <1>5. SumOf(v) = sum[L] /\ Partial(sum, L)
    <2>1. Partial(sum, L)
      BY <1>4
    <2>2. SumOf(v) = sum[L]
      BY DEF SumOf
    <2>3. QED
      BY <2>1, <2>2
  <1>6. PICK f \in [0..L -> Int] : Partial(f, L)
    BY <1>3
  <1> HIDE DEF sum
  <1> DEFINE Off == {n \in 0..L : f[n] # sum[n]}
  <1>7. /\ \A n \in 0..L : sum[n] = IF n = 0 THEN 0 ELSE sum[n - 1] + v[n]
        /\ \A n \in 0..L : f[n] = IF n = 0 THEN 0 ELSE f[n - 1] + v[n]
        /\ DOMAIN sum = 0..L
    BY <1>5, <1>6
  <1>8. Off = {}
    <2> SUFFICES ASSUME Off # {} PROVE FALSE
      OBVIOUS
    <2>1. Off \subseteq Nat
      BY <1>1
    <2> HIDE DEF Off
    <2>2. PICK n \in Off : \A k \in Off : n <= k
      BY <2>1, LeastNumber
    <2> USE DEF Off
    <2>3. n \in 0..L /\ n # 0 /\ n - 1 \in 0..L /\ n - 1 \notin Off
      BY <1>1, <1>7, <2>2
    <2>4. QED
      BY <1>7, <2>2, <2>3
  <1>9. SumOf(v) = f[L]
    BY <1>1, <1>5, <1>8
  <1>10. /\ f[0] = 0 /\ \A n \in 1..L : f[n] = f[n - 1] + v[n]
    BY <1>1, <1>7
  <1>11. QED
    BY <1>6, <1>9, <1>10

(* Of two sequences the one that is nowhere larger has no larger sum, and  *)
(* the same sum only if it is the same.                                    *)
LEMMA SumsCompare ==
    ASSUME NEW v \in Seq(Int), NEW w \in Seq(Int), Len(v) = Len(w),
           \A i \in 1..Len(v) : v[i] <= w[i]
    PROVE  /\ SumOf(v) \in Int /\ SumOf(w) \in Int /\ SumOf(v) <= SumOf(w)
           /\ SumOf(v) = SumOf(w) => \A i \in 1..Len(v) : v[i] = w[i]
  <1> DEFINE L == Len(v)
  <1>1. L \in Nat /\ L = Len(w) /\ \A n \in 1..L : v[n] \in Int /\ w[n] \in Int /\ v[n] <= w[n]
    BY ElementOfSeq
  <1>2. PICK f \in [0..L -> Int] :
           f[0] = 0 /\ (\A n \in 1..L : f[n] = f[n - 1] + v[n]) /\ SumOf(v) = f[L]
    BY PartialSums
  <1>3. PICK g \in [0..L -> Int] :
           g[0] = 0 /\ (\A n \in 1..L : g[n] = g[n - 1] + w[n]) /\ SumOf(w) = g[L]
    BY <1>1, PartialSums
  <1> HIDE DEF L
  <1> DEFINE Holds(n) == f[n] <= g[n] /\ (f[n] = g[n] => \A i \in 1..n : v[i] = w[i])
             Bad == {n \in 0..L : ~Holds(n)}
  <1>4. Bad = {}
    <2> SUFFICES ASSUME Bad # {} PROVE FALSE
      OBVIOUS
    <2>1. Bad \subseteq Nat
      BY <1>1
    <2> HIDE DEF Bad
    <2>2. PICK n \in Bad : \A k \in Bad : n <= k
      BY <2>1, LeastNumber
    <2>3. n \in 0..L /\ ~Holds(n)
      BY <2>2 DEF Bad
    <2>4. n # 0
      BY <1>2, <1>3, <2>3
    <2>5. n \in 1..L /\ n - 1 \in 0..L /\ Holds(n - 1)
      BY <1>1, <2>2, <2>3, <2>4 DEF Bad
    <2>6. /\ f[n] = f[n - 1] + v[n] /\ g[n] = g[n - 1] + w[n]
          /\ f[n - 1] \in Int /\ g[n - 1] \in Int /\ v[n] \in Int /\ w[n] \in Int /\ v[n] <= w[n]
      BY <1>1, <1>2, <1>3, <2>5
    <2>7. f[n] <= g[n] /\ (f[n] = g[n] => f[n - 1] = g[n - 1] /\ v[n] = w[n])
      BY <2>5, <2>6
    <2>8. \A i \in 1..n : i \in 1..(n - 1) \/ i = n
      BY <2>5
    <2>9. QED
      BY <2>3, <2>5, <2>7, <2>8
  <1>5. Holds(L)
    BY <1>1, <1>4
  <1>6. QED
    BY <1>1, <1>2, <1>3, <1>5 DEF L

(* A factor of all terms is one of the sum. *)
LEMMA SumScaled ==
    ASSUME NEW v \in Seq(Int), NEW w \in Seq(Int), Len(v) = Len(w), NEW k \in Int,
           \A i \in 1..Len(v) : w[i] = v[i] * k
    PROVE  SumOf(w) = SumOf(v) * k
  <1> DEFINE L == Len(v)
  <1>1. L \in Nat /\ L = Len(w) /\ \A n \in 1..L : v[n] \in Int /\ w[n] = v[n] * k
    BY ElementOfSeq
  <1>2. PICK f \in [0..L -> Int] :
           f[0] = 0 /\ (\A n \in 1..L : f[n] = f[n - 1] + v[n]) /\ SumOf(v) = f[L]
    BY PartialSums
  <1>3. PICK g \in [0..L -> Int] :
           g[0] = 0 /\ (\A n \in 1..L : g[n] = g[n - 1] + w[n]) /\ SumOf(w) = g[L]
    BY <1>1, PartialSums
  <1> HIDE DEF L
  <1> DEFINE Bad == {n \in 0..L : g[n] # f[n] * k}
  <1>4. Bad = {}
    <2> SUFFICES ASSUME Bad # {} PROVE FALSE
      OBVIOUS
    <2>1. Bad \subseteq Nat
      BY <1>1
    <2> HIDE DEF Bad
    <2>2. PICK n \in Bad : \A i \in Bad : n <= i
      BY <2>1, LeastNumber
    <2>3. n \in 0..L /\ g[n] # f[n] * k
      BY <2>2 DEF Bad
    <2>4. n # 0
      BY <1>2, <1>3, <2>3
    <2>5. n \in 1..L /\ n - 1 \in 0..L /\ g[n - 1] = f[n - 1] * k
      BY <1>1, <2>2, <2>3, <2>4 DEF Bad
    <2> DEFINE x == f[n - 1]
               y == v[n]
    <2>6. /\ f[n] = x + y /\ g[n] = x * k + y * k /\ x \in Int /\ y \in Int
      BY <1>1, <1>2, <1>3, <2>5
    <2> HIDE DEF x, y
    <2>7. (x + y) * k = x * k + y * k
      BY <2>6
    <2>8. QED
      BY <2>3, <2>6, <2>7
  <1>5. g[L] = f[L] * k
    BY <1>1, <1>4
  <1>6. QED
    BY <1>2, <1>3, <1>5

-----------------------------------------------------------------------------
(* A factor that is positive can be taken away. *)
LEMMA Factors ==
    ASSUME NEW a \in Nat, NEW x \in Int, NEW y \in Int
    PROVE  /\ x <= y => a * x <= a * y
           /\ a > 0 /\ a * x = a * y => x = y
  OBVIOUS

(* Every result has a worth, which is a number. *)
LEMMA WorthTyped == ASSUME NEW x PROVE Worth(x) \in Int
  BY PrintedAssumption DEF Worth

(* What a line scores depends on the results of the cases its sub-tasks    *)
(* name, and on nothing else.                                              *)
LEMMA SameMarks ==
    ASSUME NEW s, NEW r, NEW q,
           \A i \in DOMAIN s : \A k \in DOMAIN s[i].cases : r[s[i].cases[k]] = q[s[i].cases[k]]
    PROVE  IsHundred(s, r) <=> IsHundred(s, q)
  <1>1. ASSUME NEW i \in DOMAIN s
        PROVE  TaskScore(s[i], r) = TaskScore(s[i], q) /\ TaskSort(s[i], r) = TaskSort(s[i], q)
    <2> DEFINE D == DOMAIN s[i].cases
               vr == [k \in D |-> Worth(r[s[i].cases[k]])]
               vq == [k \in D |-> Worth(q[s[i].cases[k]])]
               Sr == {Sort(r[c]) : c \in ToSet(s[i].cases)}
               Sq == {Sort(q[c]) : c \in ToSet(s[i].cases)}
    <2>1. \A k \in D : r[s[i].cases[k]] = q[s[i].cases[k]]
      OBVIOUS
    <2>2. vr = vq
      BY <2>1
    <2>3. \A c \in ToSet(s[i].cases) : r[c] = q[c]
      BY <2>1 DEF ToSet
    <2>4. Sr = Sq
      BY <2>3
    <2>5. TestScore(s[i], r) = SumOf(vr) /\ TestScore(s[i], q) = SumOf(vq)
      BY DEF TestScore
    <2>6. TaskSort(s[i], r) = (IF SumSort(Sr) # "number" /\ s[i].points = 0 THEN "nan" ELSE SumSort(Sr))
      BY DEF TaskSort
    <2>7. TaskSort(s[i], q) = (IF SumSort(Sq) # "number" /\ s[i].points = 0 THEN "nan" ELSE SumSort(Sq))
      BY DEF TaskSort
    <2> HIDE DEF vr, vq, Sr, Sq
    <2>8. QED
      BY <2>2, <2>4, <2>5, <2>6, <2>7 DEF TaskScore
  <1> DEFINE K == Kept(s)
             tr == [i \in DOMAIN s |-> IF i \in K THEN TaskScore(s[i], r) ELSE 0]
             tq == [i \in DOMAIN s |-> IF i \in K THEN TaskScore(s[i], q) ELSE 0]
             Sr == {TaskSort(s[i], r) : i \in K}
             Sq == {TaskSort(s[i], q) : i \in K}
  <1>2. tr = tq
    BY <1>1
  <1>3. K \subseteq DOMAIN s
    BY DEF Kept
  <1>4. Sr = Sq
    BY <1>1, <1>3
  <1>5. Score(s, r) = SumOf(tr) /\ Score(s, q) = SumOf(tq)
    BY DEF Score
  <1>6. ScoreSort(s, r) = SumSort(Sr) /\ ScoreSort(s, q) = SumSort(Sq)
    BY DEF ScoreSort
  <1> HIDE DEF tr, tq, Sr, Sq
  <1>7. QED
    BY <1>2, <1>4, <1>5, <1>6 DEF IsHundred

(* A sub-task whose cases have at most full scores has at most its points, *)
(* and all of them only if every case is full.                             *)
LEMMA TaskMarks ==
    ASSUME NEW t \in [name : STRING, points : Nat, cases : Seq(STRING)], NEW r,
           t.cases # <<>>, Scale % Len(t.cases) = 0,
           \A c \in ToSet(t.cases) : Worth(r[c]) <= Unit
    PROVE  /\ TaskScore(t, r) \in Int /\ TaskScore(t, r) <= t.points * (Unit * Scale)
           /\ t.points > 0 /\ TaskScore(t, r) = t.points * (Unit * Scale)
                 => \A c \in ToSet(t.cases) : Worth(r[c]) = Unit
  <1> DEFINE n == Len(t.cases)
             v == [k \in DOMAIN t.cases |-> Worth(r[t.cases[k]])]
             ones == [k \in 1..n |-> 1]
             units == [k \in 1..n |-> Unit]
             share == Scale \div n
             sum == SumOf(v)
             p == t.points
  <1>1. t.cases \in Seq(STRING) /\ p \in Nat
    OBVIOUS
  <1>2. n \in Nat /\ n > 0 /\ DOMAIN t.cases = 1..n
    BY <1>1
  <1>3. Unit \in Nat /\ Unit > 0 /\ Scale \in Nat /\ Scale > 0
    BY PrintedAssumption, ScaleAssumption
  <1>4. \A k \in 1..n : v[k] = Worth(r[t.cases[k]]) /\ v[k] \in Int /\ v[k] <= Unit
    BY <1>2, WorthTyped DEF ToSet
  <1>5. /\ v \in Seq(Int) /\ Len(v) = n
        /\ units \in Seq(Int) /\ Len(units) = n /\ \A k \in 1..n : units[k] = Unit
        /\ ones \in Seq(Int) /\ Len(ones) = n /\ \A k \in 1..n : ones[k] = 1
    BY <1>2, <1>3, <1>4
  <1>6. TaskScore(t, r) = p * (share * sum)
    BY DEF TaskScore, TestScore
  <1>7. share \in Nat /\ share > 0 /\ share * n = Scale
    <2>1. Scale % n = 0
      OBVIOUS
    <2> HIDE DEF n
    <2>2. QED
      BY <1>2, <1>3, <2>1
  <1>8. \A c \in ToSet(t.cases) : \E k \in 1..n : c = t.cases[k]
    BY <1>2 DEF ToSet
  <1> HIDE DEF n, v, ones, units, share, sum, p
  <1>9. SumOf(ones) = n
    <2>1. PICK f \in [0..n -> Int] :
             f[0] = 0 /\ (\A k \in 1..n : f[k] = f[k - 1] + 1) /\ SumOf(ones) = f[n]
      <3>1. PICK f \in [0..n -> Int] :
               f[0] = 0 /\ (\A k \in 1..n : f[k] = f[k - 1] + ones[k]) /\ SumOf(ones) = f[n]
        BY <1>5, PartialSums
      <3>2. QED
        BY <1>5, <3>1
    <2> DEFINE Bad == {k \in 0..n : f[k] # k}
    <2>2. Bad = {}
      <3> SUFFICES ASSUME Bad # {} PROVE FALSE
        OBVIOUS
      <3>1. Bad \subseteq Nat
        BY <1>2
      <3> HIDE DEF Bad
      <3>2. PICK k \in Bad : \A i \in Bad : k <= i
        BY <3>1, LeastNumber
      <3>3. k \in 0..n /\ f[k] # k /\ k # 0
        BY <2>1, <3>2 DEF Bad
      <3>4. k - 1 \in 0..n /\ f[k - 1] = k - 1 /\ k \in 1..n
        BY <1>2, <3>2, <3>3 DEF Bad
      <3>5. QED
        BY <2>1, <3>3, <3>4
    <2>3. n \in 0..n /\ n \notin Bad
      BY <1>2, <2>2
    <2>4. f[n] = n
      BY <2>3
    <2>5. QED
      BY <2>1, <2>4
  <1>10. SumOf(units) = n * Unit
    <2>1. Unit \in Int /\ \A k \in 1..n : units[k] = ones[k] * Unit
      BY <1>3, <1>5
    <2>2. SumOf(units) = SumOf(ones) * Unit
      BY <1>5, <2>1, SumScaled
    <2>3. QED
      BY <1>9, <2>2
  <1>11. /\ sum \in Int /\ sum <= n * Unit
         /\ sum = n * Unit => \A k \in 1..n : v[k] = Unit
    <2>1. /\ SumOf(v) \in Int /\ SumOf(v) <= SumOf(units)
          /\ SumOf(v) = SumOf(units) => \A k \in 1..n : v[k] = units[k]
      <3>1. Len(v) = Len(units) /\ \A k \in 1..Len(v) : v[k] <= units[k]
        BY <1>4, <1>5
      <3>2. /\ SumOf(v) \in Int /\ SumOf(units) \in Int /\ SumOf(v) <= SumOf(units)
            /\ SumOf(v) = SumOf(units) => \A k \in 1..Len(v) : v[k] = units[k]
        BY <1>5, <3>1, SumsCompare
      <3>3. QED
        BY <1>5, <3>2
    <2>2. QED
      BY <1>5, <1>10, <2>1 DEF sum
  <1> DEFINE full == n * Unit
  <1>12. full \in Int /\ share * full = Unit * Scale
    <2>1. full \in Int
      BY <1>2, <1>3
    <2>2. share * (n * Unit) = (share * n) * Unit
      BY <1>2, <1>3, <1>7
    <2>3. (share * n) * Unit = Unit * Scale
      BY <1>3, <1>7
    <2>4. QED
      BY <2>1, <2>2, <2>3
  <1> HIDE DEF full
  <1> DEFINE got == share * sum
             most == share * full
  <1>13. /\ got \in Int /\ most \in Int /\ got <= most
         /\ got = most => sum = full
    <2>1. sum <= full
      BY <1>11 DEF full
    <2>2. QED
      BY <1>7, <1>11, <1>12, <2>1, Factors
  <1> HIDE DEF got, most
  <1>14. /\ p * got \in Int /\ p * got <= p * most
         /\ p > 0 /\ p * got = p * most => got = most
    BY <1>1, <1>13, Factors DEF p
  <1>15. TaskScore(t, r) = p * got /\ t.points * (Unit * Scale) = p * most /\ t.points = p
    BY <1>6, <1>12 DEF p, got, most
  <1>16. ASSUME sum = full PROVE \A c \in ToSet(t.cases) : Worth(r[c]) = Unit
    BY <1>4, <1>8, <1>11, <1>16 DEF full
  <1>17. QED
    BY <1>13, <1>14, <1>15, <1>16

-----------------------------------------------------------------------------
Working == {"load", "compile", "create", "await"}

(* The line a step of its task is about. *)
LEMMA AtWork ==
    ASSUME RunnerInv, NEW l \in Lines, line[l].pc \in Working
    PROVE  /\ l \in DOMAIN payload /\ l \in Nat
           /\ line[l] \in Task /\ line[l].result = "none"
           /\ main.pc # "exited"
           /\ <<l>> \notin pending
           /\ Progress(l) /\ RunsInOrder(l)
  <1>1. Len(payload) \in Nat /\ DOMAIN payload = 1..Len(payload)
    BY BatchLine DEF RunnerInv, TypeOK
  <1>2. main.next \in 1..(Len(payload) + 1) /\ line[l] \in Task
    BY DEF RunnerInv, TypeOK
  <1>3. l \in Nat \ {0}
    BY LineNumbers
  <1>4. ~(l >= main.next) /\ line[l].result = "none"
    BY DEF RunnerInv, Progress, Over, Working
  <1>5. l \in DOMAIN payload
    BY <1>1, <1>2, <1>3, <1>4
  <1>6. main.pc # "exited" /\ <<l>> \notin pending
    BY <1>5 DEF RunnerInv, ExitedOver, PendingEnded, Over, Working
  <1>7. QED
    BY <1>2, <1>3, <1>4, <1>5, <1>6 DEF RunnerInv

(* A task that is over neither runs nor was never there. *)
LEMMA OverTasks == "none" \notin Ended /\ "running" \notin Ended
  BY PrintedAssumption DEF Ended

(* A case named by a sub-task of a line has a run. *)
LEMMA SubTaskCases ==
    ASSUME payload \in Payloads, NEW l \in DOMAIN payload,
           NEW s \in DOMAIN SubTasks(l), NEW k \in DOMAIN SubTasks(l)[s].cases
    PROVE  SubTasks(l)[s].cases[k] \in ToSet(TestCases[l]) /\ SubTasks(l)[s].cases[k] \in Cases
  <1> DEFINE subs == payload[l].subTasks
             c == subs[s].cases[k]
  <1>1. subs \in SubTaskSeq
    BY BatchLine
  <1>2. s \in DOMAIN subs /\ k \in DOMAIN subs[s].cases /\ SubTasks(l) = subs
    BY DEF SubTasks
  <1>3. <<s, k>> \in Places(subs) /\ CaseOf(subs, <<s, k>>) = c
    BY <1>2 DEF Places, CaseOf
  <1>4. TestCases[l] = Distinct(subs)
    BY DEF TestCases, CasesOf
  <1> HIDE DEF subs
  <1>5. \E n \in DOMAIN Distinct(subs) : Distinct(subs)[n] = c
    BY <1>1, <1>3, EveryCaseRuns
  <1> HIDE DEF c
  <1>6. QED
    BY <1>2, <1>4, <1>5, LineCases DEF c

(* A line that scores 100 as it should has nothing but full cases. *)
LEMMA HundredIsFull ==
    ASSUME payload \in Payloads, NEW l \in DOMAIN payload,
           Divides(l), IsHundred(SubTasks(l), run[l]), AsItShould(l)
    PROVE  AllFull(l)
  <1> DEFINE s == SubTasks(l)
             r == run[l]
             K == Kept(s)
             D == DOMAIN s
             points == [i \in D |-> IF i \in K THEN s[i].points ELSE 0]
             scores == [i \in D |-> IF i \in K THEN TaskScore(s[i], r) ELSE 0]
             k == Unit * Scale
             most == [i \in D |-> points[i] * k]
  <1>1. s \in SubTaskSeq /\ Len(s) \in Nat /\ D = 1..Len(s)
    <2>1. s \in SubTaskSeq
      BY BatchLine DEF SubTasks
    <2>2. QED
      BY <2>1 DEF SubTaskSeq
  <1>2. k \in Nat
    BY PrintedAssumption, ScaleAssumption
  <1>3. ASSUME NEW i \in D
        PROVE  /\ s[i] \in [name : STRING, points : Nat, cases : Seq(STRING)]
               /\ s[i].points \in Nat
               /\ s[i].cases # <<>> => Scale % Len(s[i].cases) = 0
               /\ \A c \in ToSet(s[i].cases) : Sort(r[c]) = "number" /\ Worth(r[c]) <= Unit
    <2>1. s[i] \in [name : STRING, points : Nat, cases : Seq(STRING)]
      BY <1>1, ElementOfSeq DEF SubTaskSeq
    <2>2. s[i].points \in Nat
      BY <2>1
    <2>3. s[i].cases # <<>> => Scale % Len(s[i].cases) = 0
      BY ScaleAssumption DEF SubTasks
    <2>4. \A c \in ToSet(s[i].cases) : c \in ToSet(TestCases[l])
      BY SubTaskCases DEF ToSet
    <2>5. QED
      BY <2>1, <2>2, <2>3, <2>4 DEF AsItShould
  <1>4. K \subseteq D /\ \A i \in K : s[i].cases # <<>>
    BY DEF Kept, Divides
  <1>5. ScoreSort(s, r) = "number"
    <2>1. ASSUME NEW i \in K PROVE TaskSort(s[i], r) = "number"
      <3> DEFINE S == {Sort(r[c]) : c \in ToSet(s[i].cases)}
      <3>1. S \subseteq {"number"}
        BY <1>3, <1>4
      <3>2. SumSort(S) = "number"
        <4> HIDE DEF S
        <4>1. "nan" \notin S /\ "inf" \notin S /\ "-inf" \notin S
          BY <3>1
        <4>2. QED
          BY <4>1 DEF SumSort
      <3>3. QED
        BY <3>2 DEF TaskSort
    <2> DEFINE S == {TaskSort(s[i], r) : i \in K}
    <2>2. S \subseteq {"number"}
      BY <2>1
    <2>3. SumSort(S) = "number"
      <3> HIDE DEF S
      <3>1. "nan" \notin S /\ "inf" \notin S /\ "-inf" \notin S
        BY <2>2
      <3>2. QED
        BY <3>1 DEF SumSort
    <2>4. QED
      BY <2>3 DEF ScoreSort
  <1>6. SumOf(scores) = 100 * k /\ SumOf(points) = 100
    BY <1>5 DEF IsHundred, Hundred, Score, AsItShould
  <1>7. ASSUME NEW i \in K
        PROVE  /\ TaskScore(s[i], r) \in Int /\ TaskScore(s[i], r) <= s[i].points * k
               /\ s[i].points > 0 /\ TaskScore(s[i], r) = s[i].points * k
                     => \A c \in ToSet(s[i].cases) : Worth(r[c]) = Unit
    <2>1. i \in D
      BY <1>4
    <2> DEFINE t == s[i]
    <2>2. /\ t \in [name : STRING, points : Nat, cases : Seq(STRING)]
          /\ t.cases # <<>> /\ Scale % Len(t.cases) = 0
          /\ \A c \in ToSet(t.cases) : Worth(r[c]) <= Unit
      BY <1>3, <1>4, <2>1
    <2> HIDE DEF t, r
    <2>3. /\ TaskScore(t, r) \in Int /\ TaskScore(t, r) <= t.points * (Unit * Scale)
          /\ t.points > 0 /\ TaskScore(t, r) = t.points * (Unit * Scale)
                => \A c \in ToSet(t.cases) : Worth(r[c]) = Unit
      BY <2>2, TaskMarks
    <2>4. QED
      BY <2>3 DEF t
  <1>8. \A i \in D : /\ points[i] \in Nat /\ scores[i] \in Int /\ most[i] = points[i] * k
                     /\ points[i] = (IF i \in K THEN s[i].points ELSE 0)
                     /\ scores[i] = (IF i \in K THEN TaskScore(s[i], r) ELSE 0)
    BY <1>3, <1>7
  <1> HIDE DEF points, scores, k, s, r, K, D
  <1>9. \A i \in D : most[i] \in Int /\ scores[i] <= most[i]
    BY <1>2, <1>7, <1>8
  <1>10. /\ points \in Seq(Int) /\ Len(points) = Len(s)
         /\ scores \in Seq(Int) /\ Len(scores) = Len(s)
         /\ most \in Seq(Int) /\ Len(most) = Len(s)
    BY <1>1, <1>8, <1>9 DEF points, scores
  <1> HIDE DEF most
  <1>11. SumOf(most) = SumOf(points) * k
    BY <1>1, <1>2, <1>8, <1>10, SumScaled
  <1>12. SumOf(scores) = SumOf(most)
    BY <1>6, <1>11
  <1>13. \A i \in 1..Len(scores) : scores[i] = most[i]
    BY <1>1, <1>9, <1>10, <1>12, SumsCompare
  <1>14. ASSUME NEW i \in K, s[i].points > 0
         PROVE  \A c \in ToSet(s[i].cases) : Worth(r[c]) = Unit
    BY <1>1, <1>4, <1>7, <1>8, <1>10, <1>13, <1>14
  <1>15. QED
    BY <1>14 DEF AllFull, Counting, s, r, K

(* The parts of the invariant that a step of one line's task leaves alone, *)
(* as long as the runs of the other lines stay.                            *)
LEMMA OthersKept ==
    ASSUME RunnerInv, NEW l \in Lines, NEW k \in Lines, k # l,
           line'[k] = line[k], run'[k] = run[k], UNCHANGED <<payload, main>>
    PROVE  Progress(k)' /\ RunsInOrder(k)'
  <1>1. TestCases' = TestCases
    BY DEF TestCases
  <1>2. Progress(k) /\ RunsInOrder(k)
    BY DEF RunnerInv
  <1>3. QED
    BY <1>1, <1>2 DEF Progress, RunsInOrder, Over

(* What a line earned it keeps while the runs of its cases stay as they    *)
(* are.                                                                    *)
LEMMA EarnedKept ==
    ASSUME payload \in Payloads, NEW l \in DOMAIN payload, Earned(l),
           line'[l].binaries = line[l].binaries, payload' = payload,
           \A c \in ToSet(TestCases[l]) : run'[l][c] = run[l][c]
    PROVE  Earned(l)'
  <1> DEFINE s == SubTasks(l)
             r == run[l]
             q == run'[l]
  <1>1. /\ TestCases' = TestCases /\ SubTasks(l)' = s /\ run[l]' = q
        /\ Kept(SubTasks(l))' = Kept(s) /\ Counting(SubTasks(l))' = Counting(s)
    BY DEF TestCases, SubTasks, Counting, Kept
  <1>2. \A i \in DOMAIN s : \A k \in DOMAIN s[i].cases :
           s[i].cases[k] \in ToSet(TestCases[l]) /\ q[s[i].cases[k]] = r[s[i].cases[k]]
    BY SubTaskCases
  <1>3. \A i \in DOMAIN s : \A c \in ToSet(s[i].cases) : q[c] = r[c]
    BY <1>2 DEF ToSet
  <1>4. IsHundred(s, q)
    <2>1. IsHundred(s, r)
      BY DEF Earned
    <2> HIDE DEF s, r, q
    <2>2. QED
      BY <1>2, <2>1, SameMarks
  <1>5. IsHundred(SubTasks(l), run[l])'
    <2>1. IsHundred(SubTasks(l), run[l])' <=> IsHundred(s, q)
      BY DEF IsHundred, ScoreSort, TaskSort, Score, TaskScore, TestScore, Kept, SubTasks, SumSort,
             SumOf, Sort, Worth, Hundred
    <2>2. QED
      BY <1>4, <2>1
  <1>6. AsItShould(l)' => AsItShould(l)
    BY <1>1 DEF AsItShould
  <1>7. AllFull(l) => AllFull(l)'
    BY <1>1, <1>3 DEF AllFull, Counting, Kept
  <1>8. "solution" \in line'[l].binaries /\ \A c \in ToSet(TestCases[l]) : run'[l][c] \in Ended
    BY DEF Earned
  <1>9. QED
    BY <1>1, <1>5, <1>6, <1>7, <1>8 DEF Earned

(* A line with a task of any kind is one of the batch. *)
LEMMA BatchTask ==
    ASSUME RunnerInv, NEW l \in Lines, line[l].pc # "none"
    PROVE  payload \in Payloads /\ l \in DOMAIN payload
  <1>1. Progress(l) /\ TypeOK /\ payload \in Payloads
    BY DEF RunnerInv, TypeOK
  <1>2. ~(l >= main.next)
    BY <1>1 DEF Progress
  <1>3. l \in Nat \ {0} /\ main.next \in 1..(Len(payload) + 1) /\ Len(payload) \in Nat
    BY <1>1, LineNumbers, BatchLine DEF TypeOK
  <1>4. QED
    BY <1>1, <1>2, <1>3, BatchLine

(* A line of which True is said, and the runs of its cases. *)
LEMMA TrueKept ==
    ASSUME RunnerInv, NEW l \in Lines, line[l].result = "True",
           line'[l].binaries = line[l].binaries, payload' = payload,
           \A c \in Cases : run[l][c] \in Ended => run'[l][c] = run[l][c]
    PROVE  Earned(l)'
  <1>1. Earned(l) /\ line[l].pc = "over"
    BY DEF RunnerInv, TrueIsEarned, Progress, Over
  <1>2. payload \in Payloads /\ l \in DOMAIN payload
    BY <1>1, BatchTask
  <1>3. ToSet(TestCases[l]) \subseteq Cases
    BY <1>2, LineCases DEF ToSet
  <1>4. QED
    BY <1>1, <1>2, <1>3, EarnedKept DEF Earned

(* A step of a task that goes on: nothing but its line changes. *)
LEMMA TaskMoves ==
    ASSUME RunnerInv, NEW l \in Lines, line[l].pc \in Working,
           NEW t \in Task, t.pc \in Working, t.result = "none",
           t.at <= Len(TestCases[l]) + 1,
           line' = [line EXCEPT ![l] = t],
           UNCHANGED <<payload, main, run, permits, slots, pending, errors>>,
           t.pc \in {"create", "await"} => "solution" \in t.binaries,
           RunsInOrder(l)'
    PROVE  RunnerInv'
  <1>1. /\ line[l] \in Task /\ line[l].result = "none" /\ <<l>> \notin pending
        /\ Progress(l)
    BY AtWork
  <1>2. line \in [Lines -> Task]
    BY DEF RunnerInv, TypeOK
  <1>3. line'[l] = t /\ \A k \in Lines \ {l} : line'[k] = line[k]
    BY <1>2
  <1>4. TestCases' = TestCases
    BY DEF TestCases
  <1>5. TypeOK'
    BY <1>2, <1>3, <1>4 DEF RunnerInv, TypeOK
  <1>6. Running' = Running /\ RunsDue' = RunsDue /\ LinesDue' = LinesDue
    BY DEF Running, RunsDue, LinesDue
  <1>7. InWork' = InWork
    BY <1>1, <1>3 DEF InWork, Working
  <1>8. Finite' /\ PermitsConserved'
    BY <1>6, <1>7 DEF RunnerInv, Finite, PermitsConserved
  <1>9. PendingEnded'
    BY <1>1, <1>3 DEF RunnerInv, PendingEnded, Over
  <1>10. ExitedOver'
    BY <1>3, AtWork DEF RunnerInv, ExitedOver, Over
  <1>11. ASSUME NEW k \in Lines PROVE Progress(k)' /\ RunsInOrder(k)'
    <2>1. CASE k = l
      BY <1>1, <1>3, <2>1 DEF Progress, Over, Working
    <2>2. CASE k # l
      BY <1>3, <2>2, OthersKept
    <2>3. QED
      BY <2>1, <2>2
  <1>12. TrueIsEarned'
    BY <1>1, <1>3, TrueKept DEF TrueIsEarned
  <1>13. ExitCodeTrue'
    <2>1. \A k \in Lines : line'[k].result = line[k].result /\ ErrorsOf(k)' = ErrorsOf(k)
      BY <1>1, <1>3 DEF ErrorsOf
    <2>2. main.pc # "exited"
      BY AtWork
    <2>3. QED
      BY <2>1, <2>2 DEF RunnerInv, ExitCodeTrue
  <1>14. QED
    BY <1>5, <1>8, <1>9, <1>10, <1>11, <1>12, <1>13 DEF RunnerInv

(* A task that ends: its slot is due, and a False is written down. *)
LEMMA TaskEnds ==
    ASSUME RunnerInv, NEW l \in Lines, line[l].pc \in Working,
           NEW result \in {"None", "True", "False", "exception"},
           Finished(l, result),
           errors' = IF result = "False" THEN Append(errors, l) ELSE errors,
           UNCHANGED <<payload, main, run, permits, slots>>,
           result = "True" => Earned(l)
    PROVE  RunnerInv'
  <1> DEFINE t == [line[l] EXCEPT !.pc = "over", !.result = result]
  <1>1. /\ line[l] \in Task /\ line[l].result = "none" /\ <<l>> \notin pending
        /\ Progress(l) /\ main.pc # "exited"
    BY AtWork
  <1>2. line \in [Lines -> Task]
    BY DEF RunnerInv, TypeOK
  <1>3. /\ line' = [line EXCEPT ![l] = t]
        /\ pending' = pending \cup {<<l>>}
    BY <1>2 DEF Finished
  <1>4. /\ t \in Task /\ t.pc = "over" /\ t.result = result
        /\ t.at = line[l].at /\ t.binaries = line[l].binaries
    BY <1>1 DEF Task
  <1> HIDE DEF t
  <1>5. line'[l] = t /\ \A k \in Lines \ {l} : line'[k] = line[k]
    BY <1>2, <1>3
  <1>6. TestCases' = TestCases
    BY DEF TestCases
  <1>7. errors' \in Seq(Lines)
    BY DEF RunnerInv, TypeOK
  <1>8. TypeOK'
    BY <1>2, <1>3, <1>4, <1>5, <1>6, <1>7 DEF RunnerInv, TypeOK
  <1>9. Running' = Running /\ RunsDue' = RunsDue
    BY <1>3 DEF Running, RunsDue
  <1>10. l \in InWork /\ InWork' = InWork \ {l}
    BY <1>4, <1>5 DEF InWork, Working
  <1>11. l \notin LinesDue /\ LinesDue' = LinesDue \cup {l}
    BY <1>1, <1>3 DEF LinesDue
  <1>12. IsFiniteSet(InWork) /\ IsFiniteSet(LinesDue)
    BY DEF RunnerInv, Finite
  <1>13. /\ IsFiniteSet(InWork') /\ Cardinality(InWork') = Cardinality(InWork) - 1
         /\ IsFiniteSet(LinesDue') /\ Cardinality(LinesDue') = Cardinality(LinesDue) + 1
    BY <1>10, <1>11, <1>12, FS_AddElement, FS_RemoveElement
  <1>14. Finite'
    BY <1>9, <1>13 DEF RunnerInv, Finite
  <1>15. PermitsConserved'
    <2>1. Cardinality(InWork) \in Nat /\ Cardinality(LinesDue) \in Nat /\ slots \in Nat
      BY <1>12, FS_CardinalityType DEF RunnerInv, TypeOK
    <2>2. QED
      BY <1>9, <1>13, <2>1 DEF RunnerInv, PermitsConserved
  <1>16. PendingEnded'
    BY <1>3, <1>4, <1>5 DEF RunnerInv, PendingEnded, Over
  <1>17. ExitedOver'
    BY <1>1 DEF ExitedOver
  <1>18. ASSUME NEW k \in Lines PROVE Progress(k)' /\ RunsInOrder(k)'
    <2>1. CASE k = l
      BY <1>1, <1>4, <1>5, <2>1 DEF Progress, RunsInOrder, Over, Working
    <2>2. CASE k # l
      BY <1>5, <2>2, OthersKept
    <2>3. QED
      BY <2>1, <2>2
  <1>19. TrueIsEarned'
    <2>1. ASSUME NEW k \in Lines, line'[k].result = "True" PROVE Earned(k)'
      <3>1. CASE k = l
        BY <1>4, <1>5, <2>1, <3>1, AtWork, EarnedKept DEF RunnerInv, TypeOK
      <3>2. CASE k # l
        BY <1>5, <2>1, <3>2, TrueKept DEF TrueIsEarned
      <3>3. QED
        BY <3>1, <3>2
    <2>2. QED
      BY <2>1 DEF TrueIsEarned
  <1>20. ExitCodeTrue'
    <2>1. errors \in Seq(Lines)
      BY DEF RunnerInv, TypeOK
    <2>2. \A k : ErrorsOf(k) = At(errors, k) /\ ErrorsOf(k)' = At(errors', k)
      BY <1>7, <2>1 DEF ErrorsOf, At
    <2>3. ASSUME NEW k \in Lines
          PROVE  Cardinality(ErrorsOf(k)') = IF line'[k].result = "False" THEN 1 ELSE 0
      <3>1. Cardinality(ErrorsOf(k)) = IF line[k].result = "False" THEN 1 ELSE 0
        BY DEF RunnerInv, ExitCodeTrue
      <3>2. Cardinality(At(errors', k)) =
               Cardinality(At(errors, k)) + (IF result = "False" /\ l = k THEN 1 ELSE 0)
        <4>1. Cardinality(At(errors, k)) \in Nat
          BY <2>1, AtFinite
        <4>2. Cardinality(At(Append(errors, l), k)) =
                 Cardinality(At(errors, k)) + (IF l = k THEN 1 ELSE 0)
          BY <2>1, AtAppend
        <4>3. CASE result = "False"
          BY <4>2, <4>3
        <4>4. CASE result # "False"
          <5>1. errors' = errors
            BY <4>4
          <5>2. QED
            BY <4>1, <4>4, <5>1
        <4>5. QED
          BY <4>3, <4>4
      <3>3. QED
        BY <1>1, <1>4, <1>5, <2>2, <3>1, <3>2
    <2>4. QED
      BY <1>1, <2>3 DEF ExitCodeTrue
  <1>21. QED
    BY <1>8, <1>14, <1>15, <1>16, <1>17, <1>18, <1>19, <1>20 DEF RunnerInv

(* judge() raises. *)
LEMMA TaskRaises ==
    ASSUME RunnerInv, NEW l \in Lines, line[l].pc \in Working, Raise(l),
           UNCHANGED <<payload, main, run, permits, slots>>
    PROVE  RunnerInv'
  BY TaskEnds DEF Raise

-----------------------------------------------------------------------------
(* A task is created: a permit turns into a run that was not there. *)
LEMMA CreateTaskKeeps ==
    ASSUME RunnerInv, NEW l \in Lines, CreateTask(l)
    PROVE  RunnerInv'
  <1> DEFINE c == CaseAt(l)
             t == [line[l] EXCEPT !.at = @ + 1]
             T == TestCases[l]
             at == line[l].at
  <1>1. line[l].pc = "create" /\ at \in DOMAIN T /\ c = T[at]
    BY DEF CreateTask, HasCase, CaseAt
  <1>2. /\ l \in DOMAIN payload /\ line[l] \in Task /\ <<l>> \notin pending
        /\ line[l].result = "none" /\ Progress(l) /\ RunsInOrder(l) /\ main.pc # "exited"
    BY <1>1, AtWork DEF Working
  <1>3. payload \in Payloads /\ line \in [Lines -> Task]
        /\ run \in [Lines -> [Cases -> {"none", "running"} \cup Ended]]
    BY DEF RunnerInv, TypeOK
  <1>4. /\ Len(T) \in Nat /\ DOMAIN T = 1..Len(T) /\ c \in Cases
        /\ \A n \in DOMAIN T : T[n] \in Cases
        /\ \A n \in DOMAIN T : n # at => T[n] # c
    <2>1. /\ Len(T) \in Nat /\ DOMAIN T = 1..Len(T)
          /\ \A n \in DOMAIN T : T[n] \in Cases
          /\ \A m, n \in DOMAIN T : m # n => T[m] # T[n]
      BY <1>2, <1>3, LineCases
    <2> HIDE DEF T, c, at
    <2>2. QED
      BY <1>1, <2>1
  <1>5. run[l][c] = "none"
    <2>1. at >= at
      BY <1>2 DEF Task
    <2>2. QED
      BY <1>1, <1>2, <2>1 DEF RunsInOrder
  <1>6. /\ line' = [line EXCEPT ![l] = t]
        /\ run' = [run EXCEPT ![l] = [run[l] EXCEPT ![c] = "running"]]
        /\ permits > 0 /\ permits' = permits - 1
        /\ UNCHANGED <<payload, main, slots, pending, errors>>
    BY <1>3 DEF CreateTask
  <1>7. /\ t \in Task /\ t.pc = "create" /\ t.at = at + 1 /\ t.binaries = line[l].binaries
        /\ t.got = line[l].got /\ t.result = "none" /\ at \in Nat
    BY <1>1, <1>2 DEF Task
  <1>8. TestCases' = TestCases
    BY <1>6 DEF TestCases
  <1> HIDE DEF t, T, c, at
  <1>9. line'[l] = t /\ \A k \in Lines \ {l} : line'[k] = line[k]
    BY <1>3, <1>6
  <1>10. /\ run' \in [Lines -> [Cases -> {"none", "running"} \cup Ended]]
         /\ \A k \in Lines, d \in Cases : run'[k][d] = IF k = l /\ d = c THEN "running" ELSE run[k][d]
         /\ \A k \in Lines \ {l} : run'[k] = run[k]
    BY <1>3, <1>4, <1>6
  <1>11. RunsDue' = RunsDue /\ LinesDue' = LinesDue
    BY <1>6 DEF RunsDue, LinesDue
  <1>12. InWork' = InWork
    BY <1>1, <1>7, <1>9 DEF InWork
  <1>13. <<l, c>> \notin Running /\ Running' = Running \cup {<<l, c>>}
    <2>1. \A k \in Lines, d \in Cases :
             run'[k][d] = "running" <=> run[k][d] = "running" \/ <<k, d>> = <<l, c>>
      BY <1>10
    <2>2. QED
      BY <1>4, <1>5, <2>1 DEF Running
  <1>14. /\ IsFiniteSet(Running) /\ IsFiniteSet(Running')
         /\ Cardinality(Running) \in Nat /\ Cardinality(Running') = Cardinality(Running) + 1
    <2>1. IsFiniteSet(Running)
      BY DEF RunnerInv, Finite
    <2>2. QED
      BY <1>13, <2>1, FS_AddElement, FS_CardinalityType
  <1>15. Finite'
    BY <1>11, <1>12, <1>14 DEF RunnerInv, Finite
  <1>16. PermitsConserved'
    <2>1. Cardinality(RunsDue) \in Nat /\ permits \in Nat
      BY FS_CardinalityType DEF RunnerInv, Finite, TypeOK
    <2>2. QED
      BY <1>6, <1>11, <1>12, <1>14, <2>1 DEF RunnerInv, PermitsConserved
  <1>17. TypeOK'
    <2>1. permits' \in 0..Concurrency
      BY <1>6, ConcurrencyAssumption DEF RunnerInv, TypeOK
    <2>2. t.at <= Len(TestCases[l]) + 1
      BY <1>1, <1>4, <1>7 DEF T
    <2>3. line' \in [Lines -> Task]
      BY <1>3, <1>6, <1>7
    <2>4. \A k \in DOMAIN payload : line'[k].at <= Len(TestCases[k]) + 1
      <3>1. \A k \in DOMAIN payload : k \in Lines
        BY <1>3, BatchLine
      <3>2. QED
        BY <1>9, <2>2, <3>1 DEF RunnerInv, TypeOK
    <2>5. QED
      BY <1>6, <1>8, <1>10, <2>1, <2>3, <2>4 DEF RunnerInv, TypeOK
  <1>18. PendingEnded'
    <2>1. \A k \in Lines, d \in Cases : <<k, d>> \in pending => run'[k][d] \in Ended
      <3>1. <<l, c>> \notin pending
        BY <1>4, <1>5, OverTasks DEF RunnerInv, PendingEnded
      <3>2. QED
        BY <1>10, <3>1 DEF RunnerInv, PendingEnded
    <2>2. \A k \in Lines : <<k>> \in pending => line'[k].pc = "over"
      BY <1>2, <1>9 DEF RunnerInv, PendingEnded, Over
    <2>3. QED
      BY <1>6, <2>1, <2>2 DEF RunnerInv, PendingEnded, Over
  <1>19. ExitedOver'
    BY <1>2, <1>6 DEF ExitedOver
  <1>20. ASSUME NEW k \in Lines PROVE Progress(k)' /\ RunsInOrder(k)'
    <2>1. CASE k = l
      <3>1. Progress(l)'
        BY <1>1, <1>2, <1>6, <1>7, <1>9 DEF Progress, Over
      <3>2. \A n \in DOMAIN T : n >= at + 1 <=> run'[l][T[n]] = "none"
        <4>1. ASSUME NEW n \in DOMAIN T PROVE n >= at + 1 <=> run'[l][T[n]] = "none"
          <5>1. n >= at <=> run[l][T[n]] = "none"
            BY <1>1, <1>2 DEF RunsInOrder, T, at
          <5>2. n \in Nat /\ T[n] \in Cases
            BY <1>4
          <5>3. CASE n = at
            BY <1>1, <1>7, <1>10, <5>2, <5>3
          <5>4. CASE n # at
            BY <1>4, <1>7, <1>10, <5>1, <5>2, <5>4
          <5>5. QED
            BY <5>3, <5>4
        <4>2. QED
          BY <4>1
      <3>3. line[l].got = <<>>
        BY <1>1, <1>2 DEF RunsInOrder
      <3>4. RunsInOrder(l)'
        BY <1>7, <1>8, <1>9, <3>2, <3>3 DEF RunsInOrder, T
      <3>5. QED
        BY <2>1, <3>1, <3>4
    <2>2. CASE k # l
      BY <1>6, <1>9, <1>10, <2>2, OthersKept
    <2>3. QED
      BY <2>1, <2>2
  <1>21. TrueIsEarned'
    <2>1. ASSUME NEW k \in Lines, line'[k].result = "True" PROVE Earned(k)'
      <3>1. k # l
        BY <1>7, <1>9, <2>1
      <3>2. QED
        BY <1>6, <1>9, <1>10, <2>1, <3>1, TrueKept DEF TrueIsEarned
    <2>2. QED
      BY <2>1 DEF TrueIsEarned
  <1>22. ExitCodeTrue'
    <2>1. \A k \in Lines : line'[k].result = line[k].result /\ ErrorsOf(k)' = ErrorsOf(k)
      BY <1>2, <1>6, <1>7, <1>9 DEF ErrorsOf
    <2>2. QED
      BY <1>2, <1>6, <2>1 DEF RunnerInv, ExitCodeTrue
  <1>23. QED
    BY <1>15, <1>16, <1>17, <1>18, <1>19, <1>20, <1>21, <1>22 DEF RunnerInv

-----------------------------------------------------------------------------
(* What the environment and the callbacks do leaves the tasks of the lines *)
(* where they are.                                                         *)
LEMMA RunEndsKeeps ==
    ASSUME RunnerInv, NEW l \in Lines, NEW c \in Cases, RunEnds(l, c)
    PROVE  RunnerInv'
  <1>1. PICK v \in Ended : run' = [run EXCEPT ![l][c] = v]
    <2>1. ASSUME NEW status \in {"Normal", "TLE", "MLE", "other", "missing", "malformed"},
                 NEW printed \in Printed
          PROVE  Verdict(status, printed) \in Ended
      BY DEF Verdict, Ended
    <2>2. "raised" \in Ended
      BY DEF Ended
    <2>3. QED
      BY <2>1, <2>2 DEF RunEnds
  <1>2. /\ main.pc # "exited" /\ run[l][c] = "running"
        /\ pending' = pending \cup {<<l, c>>}
        /\ UNCHANGED <<payload, main, line, permits, slots, errors>>
    BY DEF RunEnds
  <1>3. payload \in Payloads /\ run \in [Lines -> [Cases -> {"none", "running"} \cup Ended]]
    BY DEF RunnerInv, TypeOK
  <1>4. /\ run' \in [Lines -> [Cases -> {"none", "running"} \cup Ended]]
        /\ \A k \in Lines, d \in Cases : run'[k][d] = IF k = l /\ d = c THEN v ELSE run[k][d]
        /\ \A k \in Lines \ {l} : run'[k] = run[k]
    <2>1. run' = [run EXCEPT ![l] = [run[l] EXCEPT ![c] = v]]
      BY <1>1, <1>3
    <2>2. QED
      BY <1>3, <2>1
  <1>5. TestCases' = TestCases
    BY <1>2 DEF TestCases
  <1>6. v # "running" /\ v # "none"
    BY OverTasks
  <1>7. TypeOK'
    BY <1>2, <1>4, <1>5 DEF RunnerInv, TypeOK
  <1>8. InWork' = InWork /\ LinesDue' = LinesDue
    BY <1>2 DEF InWork, LinesDue
  <1>9. <<l, c>> \in Running /\ Running' = Running \ {<<l, c>>}
    <2>1. \A k \in Lines, d \in Cases :
             run'[k][d] = "running" <=> run[k][d] = "running" /\ <<k, d>> # <<l, c>>
      BY <1>4, <1>6
    <2>2. QED
      BY <1>2, <2>1 DEF Running
  <1>10. <<l, c>> \notin RunsDue /\ RunsDue' = RunsDue \cup {<<l, c>>}
    BY <1>2, OverTasks DEF RunnerInv, PendingEnded, RunsDue
  <1>11. IsFiniteSet(Running) /\ IsFiniteSet(RunsDue)
    BY DEF RunnerInv, Finite
  <1>12. /\ IsFiniteSet(Running') /\ Cardinality(Running') = Cardinality(Running) - 1
         /\ IsFiniteSet(RunsDue') /\ Cardinality(RunsDue') = Cardinality(RunsDue) + 1
    BY <1>9, <1>10, <1>11, FS_AddElement, FS_RemoveElement
  <1>13. Finite'
    BY <1>8, <1>12 DEF RunnerInv, Finite
  <1>14. PermitsConserved'
    <2>1. Cardinality(Running) \in Nat /\ Cardinality(RunsDue) \in Nat /\ permits \in Nat
      BY <1>11, FS_CardinalityType DEF RunnerInv, TypeOK
    <2>2. QED
      BY <1>2, <1>8, <1>12, <2>1 DEF RunnerInv, PermitsConserved
  <1>15. PendingEnded'
    <2>1. \A k \in Lines, d \in Cases : <<k, d>> \in pending' => run'[k][d] \in Ended
      BY <1>2, <1>4 DEF RunnerInv, PendingEnded
    <2>2. QED
      BY <1>2, <2>1 DEF RunnerInv, PendingEnded, Over
  <1>16. ExitedOver'
    BY <1>2 DEF ExitedOver
  <1>17. ASSUME NEW k \in Lines PROVE Progress(k)' /\ RunsInOrder(k)'
    <2>1. Progress(k) /\ RunsInOrder(k)
      BY DEF RunnerInv
    <2>2. Progress(k)'
      BY <1>2, <2>1 DEF Progress, Over
    <2>3. CASE k # l
      BY <1>2, <1>4, <2>3, OthersKept
    <2>4. CASE k = l
      <3> DEFINE T == TestCases[l]
      <3>1. line[l].pc \notin {"none", "load", "compile"}
        BY <1>2, <2>1, <2>4 DEF RunsInOrder
      <3>2. CASE line[l].pc \in {"create", "await"}
        <4>1. l \in DOMAIN payload
          BY <3>2, AtWork DEF Working
        <4>2. \A n \in DOMAIN T : T[n] \in Cases
          BY <1>3, <4>1, LineCases
        <4>3. /\ \A n \in DOMAIN T : run'[l][T[n]] = "none" <=> run[l][T[n]] = "none"
              /\ \A n \in DOMAIN T : run[l][T[n]] # "running" => run'[l][T[n]] = run[l][T[n]]
          BY <1>2, <1>4, <1>6, <4>2
        <4>4. CASE line[l].pc = "create"
          BY <1>2, <1>5, <2>1, <2>2, <2>4, <4>3, <4>4 DEF RunsInOrder
        <4>5. CASE line[l].pc = "await"
          <5>1. \A n \in DOMAIN line[l].got : n \in DOMAIN T /\ line[l].got[n] # "running"
            <6>1. line[l].at \in Nat /\ line[l].at <= Len(T) + 1 /\ line[l].got \in Seq(Ended)
              BY <4>1 DEF RunnerInv, TypeOK, Task
            <6>2. DOMAIN T = 1..Len(T) /\ Len(T) \in Nat
              BY <1>3, <4>1, LineCases
            <6>3. Len(line[l].got) \in Nat /\ DOMAIN line[l].got = 1..Len(line[l].got)
              BY <6>1
            <6>4. Len(line[l].got) = line[l].at - 1
              BY <2>1, <2>4, <4>5 DEF RunsInOrder
            <6>5. \A n \in DOMAIN line[l].got : line[l].got[n] \in Ended
              BY <6>1, <6>3, ElementOfSeq
            <6> HIDE DEF T
            <6>6. QED
              BY <6>1, <6>2, <6>3, <6>4, <6>5, OverTasks
          <5>2. /\ Len(line[l].got) = line[l].at - 1
                /\ \A n \in DOMAIN line[l].got : line[l].got[n] = run[l][T[n]]
            BY <2>1, <2>4, <4>5 DEF RunsInOrder
          <5>3. \A n \in DOMAIN line[l].got : line[l].got[n] = run'[l][T[n]]
            BY <4>3, <5>1, <5>2
          <5>4. \A n \in DOMAIN T : run'[l][T[n]] # "none"
            BY <2>1, <2>4, <4>3, <4>5 DEF RunsInOrder
          <5>5. QED
            BY <1>2, <1>5, <2>2, <2>4, <4>5, <5>2, <5>3, <5>4 DEF RunsInOrder
        <4>6. QED
          BY <3>2, <4>4, <4>5
      <3>3. CASE line[l].pc = "over"
        BY <1>2, <1>5, <2>2, <2>4, <3>3 DEF RunsInOrder
      <3>4. line[l].pc \in {"none", "load", "compile", "create", "await", "over"}
        BY DEF RunnerInv, TypeOK, Task
      <3>5. QED
        BY <2>4, <2>2, <3>1, <3>2, <3>3, <3>4
    <2>5. QED
      BY <2>2, <2>3, <2>4
  <1>18. TrueIsEarned'
    <2>1. \A k \in Lines, d \in Cases : run[k][d] \in Ended => run'[k][d] = run[k][d]
      BY <1>2, <1>4, OverTasks
    <2>2. QED
      BY <1>2, <2>1, TrueKept DEF TrueIsEarned
  <1>19. ExitCodeTrue'
    BY <1>2 DEF RunnerInv, ExitCodeTrue, ErrorsOf
  <1>20. QED
    BY <1>7, <1>13, <1>14, <1>15, <1>16, <1>17, <1>18, <1>19 DEF RunnerInv

(* A callback: what it gives back was due. *)
LEMMA ReleasePermitKeeps ==
    ASSUME RunnerInv, NEW l \in Lines, NEW c \in Cases, ReleasePermit(l, c)
    PROVE  RunnerInv'
  <1>1. /\ main.pc # "exited" /\ <<l, c>> \in pending
        /\ pending' = pending \ {<<l, c>>} /\ permits' = permits + 1
        /\ UNCHANGED <<payload, main, line, run, slots, errors>>
    BY DEF ReleasePermit
  <1>2. TestCases' = TestCases
    BY <1>1 DEF TestCases
  <1>3. Running' = Running /\ InWork' = InWork /\ LinesDue' = LinesDue
    BY <1>1 DEF Running, InWork, LinesDue
  <1>4. <<l, c>> \in RunsDue /\ RunsDue' = RunsDue \ {<<l, c>>}
    BY <1>1 DEF RunsDue
  <1>5. IsFiniteSet(Running) /\ IsFiniteSet(RunsDue)
    BY DEF RunnerInv, Finite
  <1>6. IsFiniteSet(RunsDue') /\ Cardinality(RunsDue') = Cardinality(RunsDue) - 1
    BY <1>4, <1>5, FS_RemoveElement
  <1>7. /\ Cardinality(Running) \in Nat /\ Cardinality(RunsDue) \in Nat
        /\ Cardinality(RunsDue') \in Nat /\ permits \in Nat
    BY <1>5, <1>6, FS_CardinalityType DEF RunnerInv, TypeOK
  <1>8. Finite' /\ PermitsConserved'
    BY <1>1, <1>3, <1>6, <1>7 DEF RunnerInv, Finite, PermitsConserved
  <1>9. permits' \in 0..Concurrency
    BY <1>1, <1>3, <1>7, <1>8, ConcurrencyAssumption DEF PermitsConserved
  <1>10. TypeOK'
    BY <1>1, <1>2, <1>9 DEF RunnerInv, TypeOK
  <1>11. PendingEnded'
    BY <1>1 DEF RunnerInv, PendingEnded, Over
  <1>12. ExitedOver' /\ ExitCodeTrue'
    BY <1>1 DEF RunnerInv, ExitedOver, ExitCodeTrue, ErrorsOf, Over
  <1>13. \A k \in Lines : Progress(k)' /\ RunsInOrder(k)'
    BY <1>1, <1>2 DEF RunnerInv, Progress, RunsInOrder, Over
  <1>14. TrueIsEarned'
    BY <1>1, TrueKept DEF TrueIsEarned
  <1>15. QED
    BY <1>8, <1>10, <1>11, <1>12, <1>13, <1>14 DEF RunnerInv

(* A slot is given back once. *)
LEMMA ReleaseSlotKeeps ==
    ASSUME RunnerInv, NEW l \in Lines, ReleaseSlot(l)
    PROVE  RunnerInv'
  <1>1. /\ main.pc # "exited" /\ <<l>> \in pending
        /\ pending' = pending \ {<<l>>} /\ slots' = slots + 1
        /\ UNCHANGED <<payload, main, line, run, permits, errors>>
    BY DEF ReleaseSlot
  <1>2. TestCases' = TestCases
    BY <1>1 DEF TestCases
  <1>3. Running' = Running /\ InWork' = InWork /\ RunsDue' = RunsDue
    BY <1>1 DEF Running, InWork, RunsDue
  <1>4. l \in LinesDue /\ LinesDue' = LinesDue \ {l}
    BY <1>1 DEF LinesDue
  <1>5. IsFiniteSet(InWork) /\ IsFiniteSet(LinesDue)
    BY DEF RunnerInv, Finite
  <1>6. IsFiniteSet(LinesDue') /\ Cardinality(LinesDue') = Cardinality(LinesDue) - 1
    BY <1>4, <1>5, FS_RemoveElement
  <1>7. /\ Cardinality(InWork) \in Nat /\ Cardinality(LinesDue) \in Nat
        /\ Cardinality(LinesDue') \in Nat /\ slots \in Nat
    BY <1>5, <1>6, FS_CardinalityType DEF RunnerInv, TypeOK
  <1>8. Finite' /\ PermitsConserved'
    BY <1>1, <1>3, <1>6, <1>7 DEF RunnerInv, Finite, PermitsConserved
  <1>9. slots' \in 0..LineConcurrency
    BY <1>1, <1>3, <1>7, <1>8, ConcurrencyAssumption DEF PermitsConserved
  <1>10. TypeOK'
    BY <1>1, <1>2, <1>9 DEF RunnerInv, TypeOK
  <1>11. PendingEnded'
    BY <1>1 DEF RunnerInv, PendingEnded, Over
  <1>12. ExitedOver' /\ ExitCodeTrue'
    BY <1>1 DEF RunnerInv, ExitedOver, ExitCodeTrue, ErrorsOf, Over
  <1>13. \A k \in Lines : Progress(k)' /\ RunsInOrder(k)'
    BY <1>1, <1>2 DEF RunnerInv, Progress, RunsInOrder, Over
  <1>14. TrueIsEarned'
    BY <1>1, TrueKept DEF TrueIsEarned
  <1>15. QED
    BY <1>8, <1>10, <1>11, <1>12, <1>13, <1>14 DEF RunnerInv

-----------------------------------------------------------------------------
(* amain: a line is read and gets its task for a slot. *)
LEMMA StartLineKeeps == ASSUME RunnerInv, StartLine PROVE RunnerInv'
  <1> DEFINE l == main.next
             t == [line[l] EXCEPT !.pc = "load"]
  <1>1. payload \in Payloads /\ line \in [Lines -> Task]
        /\ main \in [pc : {"reading", "gathering", "exited"}, next : 1..(Len(payload) + 1), code : 0..1]
    BY DEF RunnerInv, TypeOK
  <1>2. l \in DOMAIN payload /\ l \in Lines /\ l \in Nat /\ Len(payload) \in Nat
        /\ DOMAIN payload = 1..Len(payload)
    BY <1>1, BatchLine DEF StartLine
  <1>3. line[l] \in Task /\ line[l].pc = "none" /\ Progress(l) /\ RunsInOrder(l)
    BY <1>1, <1>2 DEF RunnerInv, Progress
  <1>4. /\ main.pc = "reading" /\ slots > 0 /\ slots' = slots - 1
        /\ line' = [line EXCEPT ![l] = t]
        /\ main' \in [pc : {"reading", "gathering", "exited"}, next : 1..(Len(payload) + 1), code : 0..1]
        /\ main'.pc = "reading" /\ main'.next = l + 1
        /\ UNCHANGED <<payload, run, permits, pending, errors>>
    BY <1>1, <1>2 DEF StartLine
  <1>5. /\ t \in Task /\ t.pc = "load" /\ t.at = line[l].at /\ t.result = line[l].result
        /\ t.got = line[l].got
    BY <1>3 DEF Task
  <1>6. TestCases' = TestCases
    BY <1>4 DEF TestCases
  <1> HIDE DEF t
  <1>7. line'[l] = t /\ \A k \in Lines \ {l} : line'[k] = line[k]
    BY <1>1, <1>2, <1>4
  <1> HIDE DEF l
  <1>8. Running' = Running /\ RunsDue' = RunsDue /\ LinesDue' = LinesDue
    BY <1>4 DEF Running, RunsDue, LinesDue
  <1>9. l \notin InWork /\ InWork' = InWork \cup {l}
    BY <1>2, <1>3, <1>5, <1>7 DEF InWork
  <1>10. IsFiniteSet(InWork) /\ IsFiniteSet(LinesDue)
    BY DEF RunnerInv, Finite
  <1>11. IsFiniteSet(InWork') /\ Cardinality(InWork') = Cardinality(InWork) + 1
    BY <1>9, <1>10, FS_AddElement
  <1>12. Cardinality(InWork) \in Nat /\ Cardinality(LinesDue) \in Nat /\ slots \in Nat
    BY <1>10, FS_CardinalityType DEF RunnerInv, TypeOK
  <1>13. Finite' /\ PermitsConserved'
    BY <1>4, <1>8, <1>11, <1>12 DEF RunnerInv, Finite, PermitsConserved
  <1>14. TypeOK'
    <2>1. slots' \in 0..LineConcurrency
      BY <1>4, ConcurrencyAssumption DEF RunnerInv, TypeOK
    <2>2. line' \in [Lines -> Task]
      BY <1>1, <1>4, <1>5
    <2>3. \A k \in DOMAIN payload : line'[k].at <= Len(TestCases[k]) + 1
      <3>1. \A k \in DOMAIN payload : k \in Lines
        BY <1>1, BatchLine
      <3>2. \A k \in DOMAIN payload : line'[k].at = line[k].at
        BY <1>5, <1>7, <3>1
      <3>3. QED
        BY <3>2 DEF RunnerInv, TypeOK
    <2>4. QED
      BY <1>4, <1>6, <2>1, <2>2, <2>3 DEF RunnerInv, TypeOK
  <1>15. PendingEnded'
    BY <1>3, <1>4, <1>7 DEF RunnerInv, PendingEnded, Over
  <1>16. ExitedOver'
    BY <1>4 DEF ExitedOver
  <1>17. ASSUME NEW k \in Lines PROVE Progress(k)' /\ RunsInOrder(k)'
    <2>1. k \in Nat
      BY LineNumbers
    <2>2. CASE k = l
      BY <1>2, <1>3, <1>4, <1>5, <1>6, <1>7, <2>2 DEF Progress, RunsInOrder, Over
    <2>3. CASE k # l
      <3>1. Progress(k) /\ RunsInOrder(k)
        BY DEF RunnerInv
      <3>2. k >= l + 1 => k >= l
        BY <1>2, <2>1
      <3>3. QED
        BY <1>4, <1>6, <1>7, <2>3, <3>1, <3>2 DEF Progress, RunsInOrder, Over, l
    <2>4. QED
      BY <2>2, <2>3
  <1>18. TrueIsEarned'
    <2>1. ASSUME NEW k \in Lines, line'[k].result = "True" PROVE Earned(k)'
      <3>1. k # l
        BY <1>3, <1>5, <1>7, <2>1 DEF Progress, Over
      <3>2. QED
        BY <1>4, <1>7, <2>1, <3>1, TrueKept DEF TrueIsEarned
    <2>2. QED
      BY <2>1 DEF TrueIsEarned
  <1>19. ExitCodeTrue'
    <2>1. \A k \in Lines : line'[k].result = line[k].result /\ ErrorsOf(k)' = ErrorsOf(k)
      BY <1>4, <1>5, <1>7 DEF ErrorsOf
    <2>2. QED
      BY <1>4, <2>1 DEF RunnerInv, ExitCodeTrue
  <1>20. QED
    BY <1>13, <1>14, <1>15, <1>16, <1>17, <1>18, <1>19 DEF RunnerInv

(* The main task alone moves. *)
LEMMA MainMoves ==
    ASSUME RunnerInv, EndOfLines \/ Exit
    PROVE  RunnerInv'
  <1>1. /\ main'.next = main.next /\ main'.pc \in {"gathering", "exited"} /\ main'.code \in 0..1
        /\ main' \in [pc : {"reading", "gathering", "exited"}, next : 1..(Len(payload) + 1), code : 0..1]
        /\ UNCHANGED <<payload, line, run, permits, slots, pending, errors>>
    <2>1. CASE EndOfLines
      BY <2>1 DEF EndOfLines, RunnerInv, TypeOK
    <2>2. CASE Exit
      <3> DEFINE code == IF \E k \in DOMAIN payload : Failed(k) THEN 1 ELSE 0
      <3>1. code \in 0..1
        OBVIOUS
      <3>2. main' = [main EXCEPT !.pc = "exited", !.code = code]
        BY <2>2 DEF Exit
      <3> HIDE DEF code
      <3>3. QED
        BY <2>2, <3>1, <3>2 DEF Exit, RunnerInv, TypeOK
    <2>3. QED
      BY <2>1, <2>2
  <1>2. TestCases' = TestCases
    BY <1>1 DEF TestCases
  <1>3. TypeOK'
    BY <1>1, <1>2 DEF RunnerInv, TypeOK
  <1>4. Running' = Running /\ InWork' = InWork /\ RunsDue' = RunsDue /\ LinesDue' = LinesDue
    BY <1>1 DEF Running, InWork, RunsDue, LinesDue
  <1>5. Finite' /\ PermitsConserved' /\ PendingEnded'
    BY <1>1, <1>4 DEF RunnerInv, Finite, PermitsConserved, PendingEnded, Over
  <1>6. \A k \in Lines : Progress(k)' /\ RunsInOrder(k)'
    BY <1>1, <1>2 DEF RunnerInv, Progress, RunsInOrder, Over
  <1>7. TrueIsEarned'
    BY <1>1, TrueKept DEF TrueIsEarned
  <1>8. ExitedOver' /\ ExitCodeTrue'
    <2>1. \A k \in Lines : ErrorsOf(k)' = ErrorsOf(k)
      BY <1>1 DEF ErrorsOf
    <2>2. CASE EndOfLines
      BY <1>1, <2>1, <2>2 DEF EndOfLines, RunnerInv, TypeOK, ExitedOver, ExitCodeTrue
    <2>3. CASE Exit
      <3>1. \A k \in DOMAIN payload : Over(k) /\ line[k].result # "none" /\ line[k] \in Task
        BY <2>3, BatchLine DEF Exit, RunnerInv, TypeOK, Progress
      <3>2. main'.code = IF \E k \in DOMAIN payload : Failed(k) THEN 1 ELSE 0
        BY <2>3 DEF Exit, RunnerInv, TypeOK
      <3>3. \A k \in DOMAIN payload : Failed(k) <=> line[k].result \notin {"None", "True"}
        BY <3>1 DEF Failed, Task
      <3>4. QED
        BY <1>1, <2>1, <3>1, <3>2, <3>3 DEF RunnerInv, ExitedOver, ExitCodeTrue, Over
    <2>4. QED
      BY <2>2, <2>3
  <1>9. QED
    BY <1>3, <1>5, <1>6, <1>7, <1>8 DEF RunnerInv

-----------------------------------------------------------------------------
(* The steps of the task of a line, each of which moves or ends it. *)
LEMMA LoadKeeps == ASSUME RunnerInv, NEW l \in Lines, Load(l) PROVE RunnerInv'
  <1> DEFINE t == [line[l] EXCEPT !.pc = "compile"]
  <1>1. line[l].pc = "load" /\ l \in DOMAIN payload /\ line[l] \in Task
        /\ line[l].result = "none" /\ RunsInOrder(l)
    BY AtWork DEF Load, Working
  <1>2. /\ line' = [line EXCEPT ![l] = t]
        /\ UNCHANGED <<payload, main, run, permits, slots, pending, errors>>
    BY DEF Load
  <1>3. /\ t \in Task /\ t.pc = "compile" /\ t.result = "none" /\ t.at = line[l].at
        /\ t.got = line[l].got
    BY <1>1 DEF Task
  <1> HIDE DEF t
  <1>4. line'[l] = t /\ TestCases' = TestCases
    BY <1>2 DEF RunnerInv, TypeOK, TestCases
  <1>5. RunsInOrder(l)'
    BY <1>1, <1>2, <1>3, <1>4 DEF RunsInOrder
  <1>6. t.at <= Len(TestCases[l]) + 1
    BY <1>1, <1>3 DEF RunnerInv, TypeOK
  <1>7. QED
    BY <1>1, <1>2, <1>3, <1>5, <1>6, TaskMoves DEF Working

(* The programs of a line are compiled, or one is not. *)
LEMMA CompileKeeps == ASSUME RunnerInv, NEW l \in Lines, Compile(l) PROVE RunnerInv'
  <1>1. line[l].pc = "compile" /\ l \in DOMAIN payload /\ line[l] \in Task
        /\ line[l].result = "none" /\ RunsInOrder(l)
    BY AtWork DEF Compile, Working
  <1>2. PICK b \in Compiled(l) :
           /\ "solution" \in b
           /\ line' = [line EXCEPT ![l].pc = "create", ![l].binaries = b]
    BY DEF Compile
  <1> DEFINE t == [line[l] EXCEPT !.pc = "create", !.binaries = b]
  <1>3. /\ line' = [line EXCEPT ![l] = t]
        /\ UNCHANGED <<payload, main, run, permits, slots, pending, errors>>
    BY <1>2 DEF Compile, RunnerInv, TypeOK
  <1>4. b \subseteq Programs
    BY <1>1, BatchLine DEF Compiled, RunnerInv, TypeOK
  <1>5. /\ t \in Task /\ t.pc = "create" /\ t.result = "none" /\ t.at = line[l].at
        /\ t.got = line[l].got /\ t.binaries = b
    BY <1>1, <1>4 DEF Task
  <1> HIDE DEF t
  <1>6. line'[l] = t /\ TestCases' = TestCases
    BY <1>3 DEF RunnerInv, TypeOK, TestCases
  <1>7. RunsInOrder(l)'
    <2>1. \A n \in DOMAIN TestCases[l] : n >= 1 /\ TestCases[l][n] \in Cases
      BY <1>1, LineCases DEF RunnerInv, TypeOK
    <2>2. line[l].at = 1 /\ \A c \in Cases : run[l][c] = "none"
      BY <1>1 DEF RunsInOrder
    <2>3. \A n \in DOMAIN TestCases[l] : n >= t.at <=> run[l][TestCases[l][n]] = "none"
      BY <1>5, <2>1, <2>2
    <2>4. t.got = <<>>
      BY <1>1, <1>5 DEF RunsInOrder
    <2>5. QED
      BY <1>3, <1>5, <1>6, <2>3, <2>4 DEF RunsInOrder
  <1>8. t.at <= Len(TestCases[l]) + 1
    BY <1>1, <1>5 DEF RunnerInv, TypeOK
  <1>9. QED
    BY <1>1, <1>2, <1>3, <1>5, <1>7, <1>8, TaskMoves DEF Working

(* A task that awaits its runs keeps what it has. *)
LEMMA Moved ==
    ASSUME NEW r \in Task, NEW a \in Nat \ {0}
    PROVE  LET t == [r EXCEPT !.pc = "await", !.at = a]
           IN  /\ t \in Task /\ t.pc = "await" /\ t.result = r.result /\ t.at = a
               /\ t.got = r.got /\ t.binaries = r.binaries
  BY DEF Task

(* All runs of a line are created: the task awaits the first. *)
LEMMA AllCreatedKeeps == ASSUME RunnerInv, NEW l \in Lines, AllCreated(l) PROVE RunnerInv'
  <1> DEFINE t == [line[l] EXCEPT !.pc = "await", !.at = 1]
  <1>1. line[l].pc = "create" /\ l \in DOMAIN payload /\ line[l] \in Task
        /\ line[l].result = "none" /\ RunsInOrder(l) /\ Progress(l)
        /\ line[l].at \notin DOMAIN TestCases[l]
    BY AtWork DEF AllCreated, Working, HasCase
  <1>2. /\ line' = [line EXCEPT ![l] = t]
        /\ UNCHANGED <<payload, main, run, permits, slots, pending, errors>>
    BY DEF AllCreated, RunnerInv, TypeOK
  <1>3. /\ t \in Task /\ t.pc = "await" /\ t.result = "none" /\ t.at = 1
        /\ t.got = line[l].got /\ t.binaries = line[l].binaries
    <2>1. 1 \in Nat \ {0}
      OBVIOUS
    <2>2. QED
      BY <1>1, <2>1, Moved
  <1> HIDE DEF t
  <1>4. line'[l] = t /\ TestCases' = TestCases
    BY <1>2 DEF RunnerInv, TypeOK, TestCases
  <1>5. Len(TestCases[l]) \in Nat /\ DOMAIN TestCases[l] = 1..Len(TestCases[l])
    BY <1>1, LineCases DEF RunnerInv, TypeOK
  <1>6. RunsInOrder(l)'
    <2>1. line[l].at > Len(TestCases[l])
      BY <1>1, <1>5 DEF Task
    <2>2. \A n \in DOMAIN TestCases[l] : ~(n >= line[l].at)
      BY <1>1, <1>5, <2>1 DEF Task
    <2>3. \A n \in DOMAIN TestCases[l] : run[l][TestCases[l][n]] # "none"
      BY <1>1, <2>2 DEF RunsInOrder
    <2>4. t.got = <<>>
      BY <1>1, <1>3 DEF RunsInOrder
    <2>5. Len(t.got) = t.at - 1 /\ DOMAIN t.got = {}
      BY <1>3, <2>4
    <2>6. QED
      BY <1>2, <1>3, <1>4, <2>3, <2>5 DEF RunsInOrder
  <1>7. t.at <= Len(TestCases[l]) + 1
    BY <1>3, <1>5
  <1>8. "solution" \in t.binaries
    BY <1>1, <1>3 DEF Progress
  <1>9. QED
    BY <1>1, <1>2, <1>3, <1>6, <1>7, <1>8, TaskMoves DEF Working

(* A run the task awaits is over: its result counts, or it raises. *)
LEMMA AwaitRunKeeps == ASSUME RunnerInv, NEW l \in Lines, AwaitRun(l) PROVE RunnerInv'
  <1> DEFINE T == TestCases[l]
             at == line[l].at
             v == run[l][T[at]]
             t == [line[l] EXCEPT !.at = @ + 1, !.got = Append(@, v)]
  <1>1. line[l].pc = "await" /\ l \in DOMAIN payload /\ line[l] \in Task
        /\ line[l].result = "none" /\ RunsInOrder(l) /\ Progress(l)
        /\ at \in DOMAIN T /\ v \notin {"running", "raised"}
    BY AtWork DEF AwaitRun, Working, HasCase, CaseAt
  <1>2. /\ line' = [line EXCEPT ![l] = t]
        /\ UNCHANGED <<payload, main, run, permits, slots, pending, errors>>
    BY DEF AwaitRun, RunnerInv, TypeOK, CaseAt
  <1>3. Len(T) \in Nat /\ DOMAIN T = 1..Len(T) /\ T[at] \in Cases
    BY <1>1, LineCases DEF RunnerInv, TypeOK
  <1>4. v \in Ended
    <2>1. v # "none"
      BY <1>1 DEF RunsInOrder
    <2>2. v \in {"none", "running"} \cup Ended
      BY <1>3 DEF RunnerInv, TypeOK
    <2>3. QED
      BY <1>1, <2>1, <2>2
  <1> HIDE DEF v
  <1>5. /\ t \in Task /\ t.pc = "await" /\ t.result = "none" /\ t.at = at + 1
        /\ t.got = Append(line[l].got, v) /\ t.binaries = line[l].binaries
        /\ line[l].got \in Seq(Ended) /\ at \in Nat
    <2>1. /\ line[l].got \in Seq(Ended) /\ at \in Nat /\ at + 1 \in Nat \ {0}
      BY <1>1 DEF Task
    <2>2. Append(line[l].got, v) \in Seq(Ended)
      BY <1>4, <2>1
    <2> DEFINE a == at + 1
               g == Append(line[l].got, v)
    <2>3. t = [line[l] EXCEPT !.at = a, !.got = g]
      OBVIOUS
    <2>4. a \in Nat \ {0} /\ g \in Seq(Ended) /\ line[l] \in Task
      BY <1>1, <2>1, <2>2
    <2> HIDE DEF a, g, t
    <2>5. /\ t \in Task /\ t.pc = line[l].pc /\ t.result = line[l].result /\ t.at = a
          /\ t.got = g /\ t.binaries = line[l].binaries
      BY <2>3, <2>4 DEF Task
    <2>6. QED
      BY <1>1, <2>1, <2>5 DEF a, g
  <1> HIDE DEF t
  <1>6. line'[l] = t /\ TestCases' = TestCases
    BY <1>2 DEF RunnerInv, TypeOK, TestCases
  <1>7. RunsInOrder(l)'
    <2>1. /\ \A n \in DOMAIN T : run[l][T[n]] # "none"
          /\ Len(line[l].got) = at - 1
          /\ \A n \in DOMAIN line[l].got : line[l].got[n] = run[l][T[n]]
      BY <1>1 DEF RunsInOrder
    <2>2. v = run[l][T[at]]
      BY DEF v
    <2> HIDE DEF T, at
    <2>3. /\ Len(t.got) = at /\ DOMAIN t.got = 1..at
          /\ \A n \in DOMAIN line[l].got : t.got[n] = line[l].got[n]
          /\ t.got[at] = v
          /\ \A n \in DOMAIN t.got : n \in DOMAIN line[l].got \/ n = at
      <3> DEFINE s == line[l].got
      <3>1. s \in Seq(Ended) /\ v \in Ended /\ t.got = Append(s, v) /\ Len(s) = at - 1 /\ at \in Nat
        BY <1>4, <1>5, <2>1
      <3> HIDE DEF s
      <3>2. /\ Len(t.got) = Len(s) + 1 /\ DOMAIN t.got = 1..Len(s) + 1 /\ DOMAIN s = 1..Len(s)
            /\ \A n \in 1..Len(s) : t.got[n] = s[n]
            /\ t.got[Len(s) + 1] = v
        BY <3>1
      <3>3. Len(s) + 1 = at
        BY <3>1
      <3>4. Len(t.got) = at /\ DOMAIN t.got = 1..at /\ t.got[at] = v
        BY <3>2, <3>3
      <3>5. \A n \in DOMAIN t.got : n \in DOMAIN s \/ n = at
        BY <3>1, <3>2, <3>3
      <3>6. QED
        BY <3>2, <3>4, <3>5 DEF s
    <2>4. \A n \in DOMAIN t.got : t.got[n] = run[l][T[n]]
      BY <2>1, <2>2, <2>3
    <2>5. Len(t.got) = t.at - 1
      BY <1>5, <2>3
    <2>6. QED
      BY <1>2, <1>5, <1>6, <2>1, <2>4, <2>5 DEF RunsInOrder, T
  <1>8. t.at <= Len(TestCases[l]) + 1
    BY <1>1, <1>3, <1>5
  <1>9. "solution" \in t.binaries
    BY <1>1, <1>5 DEF Progress
  <1>10. QED
    BY <1>1, <1>2, <1>5, <1>7, <1>8, <1>9, TaskMoves DEF Working

(* A line whose results are all there and add up to full marks has earned  *)
(* its True.                                                               *)
LEMMA FullMarksEarned ==
    ASSUME RunnerInv, NEW l \in Lines, Collected(l), Divides(l), FullMarks(l)
    PROVE  Earned(l)
  <1> DEFINE T == TestCases[l]
             got == line[l].got
             s == SubTasks(l)
             r == run[l]
             q == Results(l)
  <1>1. /\ line[l].pc = "await" /\ l \in DOMAIN payload /\ line[l] \in Task
        /\ RunsInOrder(l) /\ "solution" \in line[l].binaries /\ payload \in Payloads
    BY AtWork DEF Collected, Working, Progress, RunnerInv, TypeOK
  <1>2. \A n \in DOMAIN T : n \in DOMAIN got /\ got[n] = r[T[n]] /\ got[n] \in Ended
    <2>1. /\ Len(T) \in Nat /\ DOMAIN T = 1..Len(T) /\ line[l].at <= Len(T) + 1
          /\ line[l].at \notin DOMAIN T
      BY <1>1, LineCases DEF RunnerInv, TypeOK, Collected, HasCase
    <2>2. /\ got \in Seq(Ended) /\ Len(got) \in Nat /\ DOMAIN got = 1..Len(got)
          /\ line[l].at \in Nat /\ line[l].at > 0
      BY <1>1 DEF Task
    <2>3. Len(got) = line[l].at - 1 /\ \A n \in DOMAIN got : got[n] = r[T[n]]
      BY <1>1 DEF RunsInOrder
    <2>4. \A n \in DOMAIN got : got[n] \in Ended
      BY <2>2, ElementOfSeq
    <2> HIDE DEF T, got, r
    <2>5. QED
      BY <2>1, <2>2, <2>3, <2>4
  <1>3. \A c \in ToSet(T) : q[c] = r[c] /\ r[c] \in Ended
    <2>1. ASSUME NEW c \in ToSet(T) PROVE q[c] = r[c] /\ r[c] \in Ended
      <3> DEFINE n == CHOOSE m \in DOMAIN T : T[m] = c
      <3>1. n \in DOMAIN T /\ T[n] = c
        <4>1. \E m \in DOMAIN T : T[m] = c
          BY DEF ToSet
        <4>2. QED
          BY <4>1
      <3>2. q[c] = got[n]
        BY DEF Results
      <3> HIDE DEF n, q, r, T, got
      <3>3. QED
        BY <1>2, <3>1, <3>2
    <2>2. QED
      BY <2>1
  <1>4. \A i \in DOMAIN s : \A k \in DOMAIN s[i].cases : q[s[i].cases[k]] = r[s[i].cases[k]]
    BY <1>1, <1>3, SubTaskCases
  <1>5. IsHundred(s, r)
    <2>1. IsHundred(s, q)
      BY DEF FullMarks
    <2> HIDE DEF s, q, r
    <2>2. QED
      BY <1>4, <2>1, SameMarks
  <1>6. AsItShould(l) => AllFull(l)
    BY <1>1, <1>5, HundredIsFull
  <1>7. QED
    BY <1>1, <1>3, <1>5, <1>6 DEF Earned

(* Every step of the task of a line. *)
LEMMA LineKeeps == ASSUME RunnerInv, NEW l \in Lines, ProcessLine(l) PROVE RunnerInv'
  <1>1. CASE SkipBlank(l)
    BY <1>1, TaskEnds DEF SkipBlank, Working
  <1>2. CASE LoadFails(l)
    BY <1>2, TaskRaises DEF LoadFails, Working
  <1>3. CASE CompileRaises(l)
    BY <1>3, TaskRaises DEF CompileRaises, Working
  <1>4. CASE BuildRaises(l)
    BY <1>4, TaskRaises DEF BuildRaises, Working
  <1>5. CASE AwaitRaises(l)
    BY <1>5, TaskRaises DEF AwaitRaises, Working
  <1>6. CASE ParseRaises(l)
    BY <1>6, TaskRaises DEF ParseRaises, Collected, Working
  <1>7. CASE ScoreDivides0(l)
    BY <1>7, TaskEnds DEF ScoreDivides0, Collected, Working
  <1>8. CASE ScoreFull(l)
    BY <1>8, TaskEnds, FullMarksEarned DEF ScoreFull, Collected, Working
  <1>9. CASE ScoreLess(l)
    BY <1>9, TaskEnds DEF ScoreLess, Collected, Working
  <1>10. QED
    BY <1>1, <1>2, <1>3, <1>4, <1>5, <1>6, <1>7, <1>8, <1>9, LoadKeeps, CompileKeeps,
       CreateTaskKeeps, AllCreatedKeeps, AwaitRunKeeps DEF ProcessLine

-----------------------------------------------------------------------------
(* Nothing runs at first and every permit is free. *)
LEMMA RunnerInit == Init => RunnerInv
  <1> SUFFICES ASSUME Init PROVE RunnerInv
    OBVIOUS
  <1>1. payload \in Payloads /\ Len(payload) \in Nat
        /\ \A l \in DOMAIN payload : l \in Lines /\ Len(TestCases[l]) \in Nat
    BY BatchLine, LineCases DEF Init
  <1>2. ASSUME NEW l \in Lines
        PROVE  /\ line[l] \in Task /\ line[l].pc = "none" /\ line[l].at = 1
               /\ line[l].got = <<>> /\ line[l].result = "none"
    <2>1. <<>> \in Seq(Ended) /\ {} \in SUBSET Programs /\ 1 \in Nat \ {0}
      OBVIOUS
    <2>2. QED
      BY <2>1 DEF Init, Task
  <1>3. \A l \in Lines, c \in Cases : run[l][c] = "none"
    BY DEF Init
  <1>4. TypeOK
    <2>1. line \in [Lines -> Task]
      BY <1>2 DEF Init
    <2>2. \A l \in DOMAIN payload : line[l].at <= Len(TestCases[l]) + 1
      BY <1>1, <1>2
    <2>3. main \in [pc : {"reading", "gathering", "exited"}, next : 1..(Len(payload) + 1), code : 0..1]
      BY <1>1 DEF Init
    <2>4. permits \in 0..Concurrency /\ slots \in 0..LineConcurrency /\ errors \in Seq(Lines)
      BY ConcurrencyAssumption DEF Init
    <2>5. run \in [Lines -> [Cases -> {"none", "running"} \cup Ended]]
      BY DEF Init
    <2>6. QED
      BY <1>1, <2>1, <2>2, <2>3, <2>4, <2>5 DEF TypeOK
  <1>5. Running = {} /\ InWork = {} /\ RunsDue = {} /\ LinesDue = {}
    BY <1>2, <1>3 DEF Running, InWork, RunsDue, LinesDue, Init
  <1>6. Finite /\ PermitsConserved
    BY <1>5, FS_EmptySet, ConcurrencyAssumption DEF Finite, PermitsConserved, Init
  <1>7. PendingEnded /\ ExitedOver
    BY DEF Init, PendingEnded, ExitedOver
  <1>8. \A l \in Lines : Progress(l) /\ RunsInOrder(l)
    BY <1>2, <1>3 DEF Progress, RunsInOrder, Over
  <1>9. TrueIsEarned
    BY <1>2 DEF TrueIsEarned
  <1>10. ExitCodeTrue
    <2>1. \A l \in Lines : ErrorsOf(l) = {}
      BY DEF Init, ErrorsOf
    <2>2. main.pc # "exited"
      BY DEF Init
    <2>3. QED
      BY <1>2, <2>1, <2>2, FS_EmptySet DEF ExitCodeTrue
  <1>11. QED
    BY <1>4, <1>6, <1>7, <1>8, <1>9, <1>10 DEF RunnerInv

(* Every step of the event loop keeps the invariant. *)
LEMMA RunnerNext == ASSUME RunnerInv, [Next]_vars PROVE RunnerInv'
  <1>1. CASE UNCHANGED vars
    <2>1. TestCases' = TestCases
      BY <1>1 DEF TestCases, vars
    <2>2. TypeOK' /\ Finite' /\ PermitsConserved' /\ PendingEnded' /\ ExitedOver' /\ ExitCodeTrue'
      BY <1>1, <2>1 DEF vars, RunnerInv, TypeOK, Finite, PermitsConserved, PendingEnded, ExitedOver,
                        ExitCodeTrue, Running, InWork, RunsDue, LinesDue, ErrorsOf, Over
    <2>3. \A l \in Lines : Progress(l)' /\ RunsInOrder(l)'
      BY <1>1, <2>1 DEF vars, RunnerInv, Progress, RunsInOrder, Over
    <2>4. TrueIsEarned'
      BY <1>1, TrueKept DEF vars, TrueIsEarned
    <2>5. QED
      BY <2>2, <2>3, <2>4 DEF RunnerInv
  <1>2. QED
    BY <1>1, StartLineKeeps, MainMoves, LineKeeps, ReleaseSlotKeeps, RunEndsKeeps,
       ReleasePermitKeeps DEF Next

(* The event loop of ioi_runner.py keeps all of RunnerInv, in whatever     *)
(* order lines, runs and callbacks come and however they end.              *)
THEOREM RunnerSafe == Spec => []RunnerInv
  <1>1. QED
    BY RunnerInit, RunnerNext, PTL DEF Spec

(* Lines, runs, semaphores and the exit code stay what amain and _judge    *)
(* take them for.                                                          *)
THEOREM RunnerTyped == Spec => []TypeOK
  <1>1. RunnerInv => TypeOK
    BY DEF RunnerInv
  <1>2. QED
    BY <1>1, RunnerSafe, PTL

(* The done callbacks of _create_task and amain return every permit and    *)
(* every slot once, whatever becomes of the task.                          *)
THEOREM NoPermitLost == Spec => []PermitsConserved
  <1>1. RunnerInv => PermitsConserved
    BY DEF RunnerInv
  <1>2. QED
    BY <1>1, RunnerSafe, PTL

(* _process_line returns True only for a line whose own results score 100  *)
(* or are no number, whatever is printed, however the points are dealt out *)
(* and whichever sub-tasks share a name or a case; and where no case has   *)
(* more than a full score and the points add up to 100, each case of a     *)
(* sub-task with points has its full score.                                *)
THEOREM TrueWasEarned == Spec => []TrueIsEarned
  <1>1. RunnerInv => TrueIsEarned
    BY DEF RunnerInv
  <1>2. QED
    BY <1>1, RunnerSafe, PTL

(* amain returns 0 exactly if no line failed, and _process_line writes     *)
(* every failure down once.                                                *)
THEOREM ExitCodeRight == Spec => []ExitCodeTrue
  <1>1. RunnerInv => ExitCodeTrue
    BY DEF RunnerInv
  <1>2. QED
    BY <1>1, RunnerSafe, PTL
=============================================================================
