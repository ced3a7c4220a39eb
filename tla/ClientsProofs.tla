----------------------------- MODULE ClientsProofs -----------------------------
(***************************************************************************)
(* The clients of proxy_client.py keep their promises for any number of    *)
(* calls, attempts and batches: proofs of the invariants that the run of   *)
(* MCProxyClient checks on two and three calls.                            *)
(***************************************************************************)
EXTENDS Clients, CountingLemmas, SequenceTheorems

Call == [st : {"idle", "calling", "sleeping", "returned", "raised"},
         attempt : 0..RetryLimit, value : Values \cup {Nil}]
Stream == {"unused", "open", "broken", "done"}

GrpcInv == TypeOK /\ AttemptsLeft

(* A step of one call: its record changes, within its type. *)
LEMMA CallMoves ==
    ASSUME GrpcInv, NEW c \in Calls, NEW r \in Call, calls' = [calls EXCEPT ![c] = r],
           stream' \in [Reqs -> Stream], UNCHANGED <<reply, faults>>,
           r.st # "idle",
           r.st = "calling" => r.attempt > 0,
           r.st = "sleeping" => r.attempt < RetryLimit
    PROVE  GrpcInv'
  <1>1. calls \in [Calls -> Call]
    BY DEF GrpcInv, TypeOK, Call
  <1>2. calls' \in [Calls -> Call]
    BY <1>1
  <1>3. calls'[c] = r /\ \A d \in Calls \ {c} : calls'[d] = calls[d]
    BY <1>1
  <1>4. TypeOK'
    BY <1>2 DEF GrpcInv, TypeOK, Call, Stream
  <1>5. AttemptsLeft'
    BY <1>3 DEF GrpcInv, AttemptsLeft
  <1>6. QED
    BY <1>4, <1>5 DEF GrpcInv

(* No call is in the loop at first. *)
LEMMA GrpcInit == Init => GrpcInv
  <1> SUFFICES ASSUME Init PROVE GrpcInv
    OBVIOUS
  <1>1. TypeOK
    BY ClientAssumption DEF Init, TypeOK
  <1>2. AttemptsLeft
    BY DEF Init, AttemptsLeft
  <1>3. QED
    BY <1>1, <1>2 DEF GrpcInv

(* What a call in the loop works on. *)
LEMMA InLoop ==
    ASSUME GrpcInv, NEW c \in Calls
    PROVE  /\ calls \in [Calls -> Call] /\ calls[c] \in Call /\ stream \in [Reqs -> Stream]
           /\ RetryLimit \in Nat
           /\ calls[c].st = "calling" => Current(c) \in Reqs
           /\ \A S : Terminated(S) \in [Reqs -> Stream]
           /\ \A q \in Reqs, s \in Stream : \A f \in [Reqs -> Stream] : [f EXCEPT ![q] = s] \in [Reqs -> Stream]
  <1>1. calls \in [Calls -> Call] /\ calls[c] \in Call /\ stream \in [Reqs -> Stream]
    BY DEF GrpcInv, TypeOK, Call, Stream
  <1>2. RetryLimit \in Nat
    BY ClientAssumption
  <1>3. calls[c].st = "calling" => Current(c) \in Reqs
    BY <1>1, <1>2 DEF GrpcInv, AttemptsLeft, Current, Reqs, Call
  <1>4. \A S : Terminated(S) \in [Reqs -> Stream]
    BY <1>1 DEF Terminated, Stream
  <1>5. QED
    BY <1>1, <1>2, <1>3, <1>4

(* A call enters the loop, or enters it again. *)
LEMMA SendKeeps ==
    ASSUME GrpcInv, NEW c \in Calls, NEW up \in BOOLEAN, Send(c, up)
    PROVE  GrpcInv'
  <1> DEFINE n == calls[c].attempt + 1
             r == [calls[c] EXCEPT !.st = "calling", !.attempt = n]
             s == IF up THEN "open" ELSE "broken"
  <1>1. calls[c].st \in {"idle", "sleeping"} /\ UNCHANGED <<reply, faults>>
    BY DEF Send
  <1>2. n \in 1..RetryLimit
    BY <1>1, InLoop, ClientAssumption DEF GrpcInv, AttemptsLeft, Call
  <1>3. calls' = [calls EXCEPT ![c] = r]
    BY InLoop DEF Send
  <1>4. stream' = [stream EXCEPT ![<<c, n>>] = s]
    BY DEF Send
  <1>5. <<c, n>> \in Reqs /\ s \in Stream
    BY <1>2 DEF Reqs, Stream
  <1> HIDE DEF n, s
  <1>6. stream' \in [Reqs -> Stream]
    BY <1>4, <1>5, InLoop
  <1>7. r \in Call /\ r.st = "calling" /\ r.attempt = n
    <2>1. n \in 0..RetryLimit /\ calls[c] \in Call
      BY <1>2, InLoop
    <2>2. QED
      BY <2>1 DEF Call
  <1> HIDE DEF r
  <1>8. r.st # "idle" /\ r.st # "sleeping" /\ r.attempt > 0
    BY <1>2, <1>7, ClientAssumption
  <1>9. QED
    BY <1>1, <1>3, <1>6, <1>7, <1>8, CallMoves

(* A call returns, gives up or retries. *)
LEMMA ClientStepKeeps ==
    ASSUME GrpcInv, NEW c \in Calls, ClientStep(c)
    PROVE  GrpcInv'
  <1>1. "done" \in Stream
    BY DEF Stream
  <1>2. CASE Succeed(c)
    <2> DEFINE r == [calls[c] EXCEPT !.st = "returned", !.value = reply[Current(c)]]
    <2>1. calls' = [calls EXCEPT ![c] = r] /\ UNCHANGED <<reply, faults>>
      BY <1>2, InLoop DEF Succeed
    <2>2. stream' \in [Reqs -> Stream]
      BY <1>1, <1>2, InLoop DEF Succeed
    <2>3. r \in Call /\ r.st = "returned"
      BY <1>2, InLoop DEF Succeed, Call
    <2> HIDE DEF r
    <2>4. QED
      BY <2>1, <2>2, <2>3, CallMoves
  <1>3. CASE GiveUp(c)
    <2> DEFINE r == [calls[c] EXCEPT !.st = "raised"]
    <2>1. calls' = [calls EXCEPT ![c] = r] /\ UNCHANGED <<reply, faults>>
      BY <1>3, InLoop DEF GiveUp
    <2>2. stream' \in [Reqs -> Stream]
      BY <1>1, <1>3, InLoop DEF GiveUp, Failing
    <2>3. r \in Call /\ r.st = "raised"
      BY InLoop DEF Call
    <2> HIDE DEF r
    <2>4. QED
      BY <2>1, <2>2, <2>3, CallMoves
  <1>4. CASE Retry(c)
    <2> DEFINE r == [calls[c] EXCEPT !.st = "sleeping"]
    <2>1. calls' = [calls EXCEPT ![c] = r] /\ UNCHANGED <<reply, faults>>
      BY <1>4, InLoop DEF Retry
    <2>2. stream' \in [Reqs -> Stream]
      BY <1>1, <1>4, InLoop DEF Retry, Failing
    <2>3. r \in Call /\ r.st = "sleeping" /\ r.attempt = calls[c].attempt
      BY InLoop DEF Call
    <2>4. calls[c].attempt < RetryLimit
      <3>1. calls[c].attempt # RetryLimit
        BY <1>4 DEF Retry, LastAttempt
      <3>2. calls[c].attempt \in 0..RetryLimit /\ RetryLimit \in Nat
        BY InLoop DEF Call
      <3>3. QED
        BY <3>1, <3>2
    <2> HIDE DEF r
    <2>5. QED
      BY <2>1, <2>2, <2>3, <2>4, CallMoves
  <1>5. QED
    BY <1>2, <1>3, <1>4 DEF ClientStep

(* Every step of the gRPC client and of its environment. *)
LEMMA GrpcNext == ASSUME GrpcInv, Next PROVE GrpcInv'
  <1>1. CASE \E c \in Calls : Send(c, TRUE) \/ (faults > 0 /\ Send(c, FALSE)) \/ ClientStep(c)
    BY <1>1, SendKeeps, ClientStepKeeps
  <1>2. ASSUME NEW q \in Reqs, Answer(q) PROVE GrpcInv'
    <2>1. reply' \in [Reqs -> Values \cup {Nil, Error}]
      BY <1>2 DEF Answer, GrpcInv, TypeOK
    <2>2. QED
      BY <1>2, <2>1 DEF Answer, GrpcInv, TypeOK, AttemptsLeft
  <1>3. Fault => faults' \in 0..MaxFaults
    BY ClientAssumption DEF Fault, GrpcInv, TypeOK
  <1>4. ASSUME NEW q \in Reqs, Break(q) PROVE GrpcInv'
    BY <1>3, <1>4 DEF Break, GrpcInv, TypeOK, AttemptsLeft
  <1>5. CASE Close
    <2>1. stream' \in [Reqs -> {"unused", "open", "broken", "done"}]
      BY <1>5 DEF Close, Terminated, GrpcInv, TypeOK
    <2>2. QED
      BY <1>3, <1>5, <2>1 DEF Close, GrpcInv, TypeOK, AttemptsLeft
  <1>6. QED
    BY <1>1, <1>2, <1>4, <1>5 DEF Next

(* What leaves the gRPC client alone keeps its invariant. *)
LEMMA GrpcStutters == ASSUME GrpcInv, UNCHANGED clientVars PROVE GrpcInv'
  BY DEF GrpcInv, TypeOK, AttemptsLeft, clientVars

-----------------------------------------------------------------------------
(* What reconnects cost the others. *)
(* A call has reconnected less often than it may make attempts. *)
LEMMA ReconnectsType ==
    ASSUME GrpcInv, NEW c \in Calls
    PROVE  Reconnects(c) \in 0..(RetryLimit - 1)
  <1>1. calls[c].attempt \in 0..RetryLimit /\ RetryLimit \in Nat \ {0}
    BY ClientAssumption DEF GrpcInv, TypeOK
  <1>2. calls[c].st = "sleeping" => calls[c].attempt < RetryLimit
    BY DEF GrpcInv, AttemptsLeft
  <1>3. QED
    BY <1>1, <1>2 DEF Reconnects

(* The reconnects of some calls can be counted. *)
LEMMA SpentFinite ==
    ASSUME NEW S \in SUBSET Calls
    PROVE  IsFiniteSet(Spent(S)) /\ Cardinality(Spent(S)) \in Nat
  <1>1. IsFiniteSet(S) /\ IsFiniteSet(1..RetryLimit)
    BY ClientAssumption, FS_Subset, FS_Interval
  <1>2. IsFiniteSet(S \X (1..RetryLimit))
    BY <1>1, FS_Product
  <1>3. Spent(S) \in SUBSET (S \X (1..RetryLimit))
    BY DEF Spent
  <1>4. IsFiniteSet(Spent(S))
    BY <1>2, <1>3, FS_Subset
  <1>5. QED
    BY <1>4, FS_CardinalityType

(* Those of one call are as many as it has made. *)
LEMMA SpentByOne ==
    ASSUME GrpcInv, NEW c \in Calls
    PROVE  Cardinality(Spent({c})) = Reconnects(c)
  <1> DEFINE n == Reconnects(c)
             h == [i \in 1..n |-> <<c, i>>]
  <1>1. n \in Nat /\ n <= RetryLimit /\ RetryLimit \in Nat
    BY ReconnectsType, ClientAssumption
  <1>2. Spent({c}) = {<<c, i>> : i \in 1..n}
    <2>1. ASSUME NEW p \in Spent({c}) PROVE p \in {<<c, i>> : i \in 1..n}
      <3>1. p = <<c, p[2]>> /\ p[2] \in 1..RetryLimit /\ p[2] <= n
        BY DEF Spent
      <3>2. QED
        BY <1>1, <3>1
    <2>2. ASSUME NEW i \in 1..n PROVE <<c, i>> \in Spent({c})
      <3>1. i \in 1..RetryLimit /\ i <= n
        BY <1>1
      <3>2. QED
        BY <3>1 DEF Spent
    <2>3. QED
      BY <2>1, <2>2
  <1> HIDE DEF n
  <1>3. h \in Bijection(1..n, Spent({c}))
    BY <1>2 DEF Bijection, Injection, Surjection, IsInjective
  <1>4. IsFiniteSet(1..n) /\ Cardinality(1..n) = n
    BY <1>1, FS_Interval
  <1>5. QED
    BY <1>3, <1>4, FS_Bijection DEF ExistsBijection, n

(* The sum that HealthyCallSurvives speaks of counts them. *)
LEMMA SumOfReconnects ==
    ASSUME GrpcInv, NEW S \in SUBSET Calls
    PROVE  MapThenSumSet(Reconnects, S) = Cardinality(Spent(S))
  <1> DEFINE pick(s) == CHOOSE x \in s : TRUE
             Sums(f) == [s \in SUBSET S |-> IF s = {} THEN 0
                                            ELSE Reconnects(pick(s)) + f[s \ {pick(s)}]]
             count == [s \in SUBSET S |-> Cardinality(Spent(s))]
             iter == CHOOSE f : f = Sums(f)
  <1>1. MapThenSumSet(Reconnects, S) = iter[S]
    BY DEF MapThenSumSet, MapThenFoldSet
  <1>2. ASSUME NEW s \in SUBSET S
        PROVE  count[s] = IF s = {} THEN 0 ELSE Reconnects(pick(s)) + count[s \ {pick(s)}]
    <2>1. CASE s = {}
      <3>1. Spent({}) = {}
        BY DEF Spent
      <3>2. QED
        BY <2>1, <3>1, FS_EmptySet
    <2>2. CASE s # {}
      <3> DEFINE x == pick(s)
      <3>1. x \in s /\ x \in Calls /\ s \ {x} \in SUBSET S /\ {x} \in SUBSET Calls
            /\ s \ {x} \in SUBSET Calls
        BY <2>2
      <3> HIDE DEF x
      <3>2. Spent(s) = Spent({x}) \cup Spent(s \ {x}) /\ Spent({x}) \cap Spent(s \ {x}) = {}
        BY <3>1 DEF Spent
      <3>3. Cardinality(Spent({x})) = Reconnects(x)
        BY <3>1, SpentByOne
      <3>4. /\ IsFiniteSet(Spent({x})) /\ Cardinality(Spent({x})) \in Nat
            /\ IsFiniteSet(Spent(s \ {x})) /\ Cardinality(Spent(s \ {x})) \in Nat
        BY <3>1, SpentFinite
      <3>5. Cardinality(Spent(s)) = Cardinality(Spent({x})) + Cardinality(Spent(s \ {x})) - Cardinality({})
        BY <3>2, <3>4, FS_Union
      <3>6. Cardinality(Spent(s)) = Reconnects(x) + Cardinality(Spent(s \ {x}))
        BY <3>3, <3>4, <3>5, FS_EmptySet
      <3>7. QED
        BY <2>2, <3>1, <3>6 DEF x
    <2>3. QED
      BY <2>1, <2>2
  <1>3. iter = Sums(iter)
    <2>1. count = Sums(count)
      BY <1>2
    <2>2. QED
      BY <2>1
  <1> HIDE DEF iter, count
  <1>4. \A s \in SUBSET S : iter[s] = IF s = {} THEN 0 ELSE Reconnects(pick(s)) + iter[s \ {pick(s)}]
    BY <1>3
  <1> DEFINE Bad == {s \in SUBSET S : iter[s] # count[s]}
  <1>5. Bad = {}
    <2> SUFFICES ASSUME Bad # {} PROVE FALSE
      OBVIOUS
    <2>1. IsFiniteSet(S) /\ Bad \subseteq SUBSET S
      BY ClientAssumption, FS_Subset
    <2> HIDE DEF Bad
    <2>2. PICK s \in Bad : \A u \in Bad : u \subseteq s => u = s
      BY <2>1, LeastSet
    <2> DEFINE x == pick(s)
    <2>3. s \in SUBSET S /\ iter[s] # count[s]
      BY <2>2 DEF Bad
    <2>4. s # {} /\ iter[s] = Reconnects(x) + iter[s \ {x}] /\ count[s] = Reconnects(x) + count[s \ {x}]
      BY <1>2, <1>4, <2>3
    <2>5. x \in s /\ s \ {x} \in SUBSET S
      BY <2>3, <2>4
    <2> HIDE DEF x
    <2>6. iter[s \ {x}] = count[s \ {x}]
      BY <2>2, <2>5 DEF Bad
    <2>7. QED
      BY <2>3, <2>4, <2>6
  <1>6. QED
    BY <1>1, <1>5 DEF count

(* One more reconnect of a call is one more of the calls it is among. *)
LEMMA OneMoreReconnect ==
    ASSUME GrpcInv, GrpcInv', NEW c \in Calls, Reconnects(c)' = Reconnects(c) + 1,
           \A d \in Calls \ {c} : Reconnects(d)' = Reconnects(d),
           NEW S \in SUBSET Calls, c \in S
    PROVE  Cardinality(Spent(S)') = Cardinality(Spent(S)) + 1
  <1> DEFINE n == Reconnects(c)
             x == <<c, n + 1>>
  <1>1. n \in Nat /\ n + 1 \in 1..RetryLimit /\ RetryLimit \in Nat
    <2>1. Reconnects(c) \in 0..(RetryLimit - 1)
      BY ReconnectsType
    <2>2. QED
      BY <2>1, ClientAssumption
  <1>2. x \notin Spent(S) /\ x \in Spent(S)'
    BY <1>1 DEF Spent
  <1>3. ASSUME NEW d \in S, NEW i \in 1..RetryLimit, <<d, i>> # x
        PROVE  i <= Reconnects(d)' <=> i <= Reconnects(d)
    <2>1. CASE d = c
      <3>1. i # n + 1 /\ i \in Nat
        BY <1>1, <1>3, <2>1
      <3>2. i <= n + 1 <=> i <= n
        BY <1>1, <3>1
      <3>3. QED
        BY <2>1, <3>2
    <2>2. CASE d # c
      BY <2>2
    <2>3. QED
      BY <2>1, <2>2
  <1> HIDE DEF n, x
  <1>4. Spent(S) \ {x} = Spent(S)' \ {x}
    BY <1>3 DEF Spent
  <1>5. IsFiniteSet(Spent(S)) /\ Cardinality(Spent(S)) \in Nat
    BY SpentFinite
  <1>6. Cardinality(Spent(S)') = Cardinality(Spent(S)) - (IF x \in Spent(S) THEN 1 ELSE 0)
                                  + (IF x \in Spent(S)' THEN 1 ELSE 0)
    BY <1>4, <1>5, CardinalityChange
  <1>7. QED
    BY <1>2, <1>5, <1>6

(* What the others have reconnected stands as long as none of them does. *)
LEMMA SameReconnects ==
    ASSUME NEW S \in SUBSET Calls, \A d \in S : Reconnects(d)' = Reconnects(d)
    PROVE  Spent(S)' = Spent(S)
  BY DEF Spent

(* A step without a reconnect that cuts no healthy call. *)
LEMMA NothingCut ==
    ASSUME SetbacksPaid, GrpcInv, faults' = faults,
           \A d \in Calls : Reconnects(d)' = Reconnects(d),
           faults = 0 =>
              \A d \in Calls \ Faulty :
                 /\ Cut(d)' => Cut(d)
                 /\ calls'[d].st = "raised" => calls'[d].attempt = RetryLimit
                 /\ \A n \in 1..RetryLimit : reply'[<<d, n>>] # Error
    PROVE  SetbacksPaid'
  <1> SUFFICES ASSUME faults = 0, NEW d \in Calls \ Faulty
               PROVE  Reconnects(d)' + (IF Cut(d)' THEN 1 ELSE 0) <= Cardinality(Spent(Calls \ {d})')
    BY DEF SetbacksPaid
  <1>1. Spent(Calls \ {d})' = Spent(Calls \ {d}) /\ Reconnects(d)' = Reconnects(d)
    BY SameReconnects
  <1>2. Reconnects(d) + (IF Cut(d) THEN 1 ELSE 0) <= Cardinality(Spent(Calls \ {d}))
    BY DEF SetbacksPaid
  <1>3. Cardinality(Spent(Calls \ {d})) \in Nat
    BY SpentFinite
  <1>4. Reconnects(d) \in Int
    BY ReconnectsType, ClientAssumption
  <1>5. Cut(d)' => Cut(d)
    OBVIOUS
  <1>6. QED
    BY <1>1, <1>2, <1>3, <1>4, <1>5

(* A healthy call fails only because its stream was cut. *)
LEMMA FailingIsCut ==
    ASSUME GrpcInv, SetbacksPaid, faults = 0, NEW c \in Calls \ Faulty, Failing(c)
    PROVE  Cut(c)
  <1>1. calls[c].st = "calling" /\ calls[c].attempt \in 0..RetryLimit /\ calls[c].attempt > 0
    BY DEF Failing, GrpcInv, TypeOK, AttemptsLeft
  <1>2. calls[c].attempt \in 1..RetryLimit
    BY <1>1, ClientAssumption
  <1>3. reply[Current(c)] # Error
    BY <1>2 DEF SetbacksPaid, Current
  <1>4. QED
    BY <1>1, <1>3 DEF Failing, Cut

(* A call that is sent is not cut off. *)
LEMMA SendPays ==
    ASSUME GrpcInv, SetbacksPaid, NEW c \in Calls, NEW up \in BOOLEAN, Send(c, up), up \/ faults # 0
    PROVE  SetbacksPaid'
  <1> DEFINE n == calls[c].attempt + 1
  <1>1. /\ calls[c].st \in {"idle", "sleeping"} /\ UNCHANGED <<reply, faults>>
        /\ stream' = [stream EXCEPT ![<<c, n>>] = IF up THEN "open" ELSE "broken"]
    BY DEF Send
  <1>2. /\ calls'[c].st = "calling" /\ calls'[c].attempt = n
        /\ \A d \in Calls \ {c} : calls'[d] = calls[d]
    BY DEF Send, GrpcInv, TypeOK
  <1>3. calls[c].attempt \in 0..RetryLimit /\ n \in Nat /\ n > 0 /\ n - 1 = calls[c].attempt
        /\ <<c, n>> \in Reqs
    <2>1. calls[c].attempt \in 0..RetryLimit /\ calls[c].attempt < RetryLimit
      BY <1>1, ClientAssumption DEF GrpcInv, TypeOK, AttemptsLeft
    <2>2. n \in 1..RetryLimit /\ n - 1 = calls[c].attempt
      BY <2>1, ClientAssumption
    <2>3. QED
      BY <2>1, <2>2, ClientAssumption DEF Reqs
  <1> HIDE DEF n
  <1>4. calls[c].st = "idle" => calls[c].attempt = 0
    BY DEF GrpcInv, AttemptsLeft
  <1>5. ASSUME NEW d \in Calls PROVE Reconnects(d)' = Reconnects(d)
    <2>1. CASE d = c
      BY <1>1, <1>2, <1>3, <1>4, <2>1 DEF Reconnects
    <2>2. CASE d # c
      BY <1>2, <2>2 DEF Reconnects
    <2>3. QED
      BY <2>1, <2>2
  <1>6. ASSUME faults = 0, NEW d \in Calls \ Faulty, Cut(d)' PROVE Cut(d)
    <2>1. CASE d = c
      <3>1. stream'[<<c, n>>] = "open"
        BY <1>1, <1>3, <1>6 DEF GrpcInv, TypeOK
      <3>2. QED
        BY <1>2, <1>6, <2>1, <3>1 DEF Cut, Current
    <2>2. CASE d # c
      BY <1>1, <1>2, <1>6, <2>2 DEF Cut, Current
    <2>3. QED
      BY <2>1, <2>2
  <1>7. ASSUME faults = 0, NEW d \in Calls \ Faulty
        PROVE  /\ calls'[d].st = "raised" => calls'[d].attempt = RetryLimit
               /\ \A i \in 1..RetryLimit : reply'[<<d, i>>] # Error
    BY <1>1, <1>2, <1>7 DEF SetbacksPaid
  <1>8. QED
    BY <1>1, <1>5, <1>6, <1>7, NothingCut

(* A call that returns was not cut off; one that raises was before it did. *)
LEMMA EndPays ==
    ASSUME GrpcInv, SetbacksPaid, NEW c \in Calls, Succeed(c) \/ GiveUp(c)
    PROVE  SetbacksPaid'
  <1>1. /\ UNCHANGED <<reply, faults>> /\ calls[c].st = "calling"
        /\ stream' = [stream EXCEPT ![Current(c)] = "done"]
    BY DEF Succeed, GiveUp, Failing
  <1>2. /\ calls'[c].st \in {"returned", "raised"} /\ calls'[c].attempt = calls[c].attempt
        /\ \A d \in Calls \ {c} : calls'[d] = calls[d]
    BY DEF Succeed, GiveUp, GrpcInv, TypeOK
  <1>3. calls'[c].st = "raised" => Failing(c) /\ calls[c].attempt = RetryLimit
    BY DEF Succeed, GiveUp, GrpcInv, TypeOK, LastAttempt
  <1>4. ASSUME NEW d \in Calls PROVE Reconnects(d)' = Reconnects(d)
    <2>1. CASE d = c
      BY <1>1, <1>2, <2>1 DEF Reconnects
    <2>2. CASE d # c
      BY <1>2, <2>2 DEF Reconnects
    <2>3. QED
      BY <2>1, <2>2
  <1>5. ASSUME faults = 0, NEW d \in Calls \ Faulty, Cut(d)' PROVE Cut(d)
    <2>1. CASE d = c
      <3>1. calls'[c].st = "raised"
        BY <1>2, <1>5, <2>1 DEF Cut
      <3>2. QED
        BY <1>3, <1>5, <2>1, <3>1, FailingIsCut
    <2>2. CASE d # c
      BY <1>1, <1>2, <1>5, <2>2 DEF Cut, Current
    <2>3. QED
      BY <2>1, <2>2
  <1>6. ASSUME faults = 0, NEW d \in Calls \ Faulty
        PROVE  /\ calls'[d].st = "raised" => calls'[d].attempt = RetryLimit
               /\ \A i \in 1..RetryLimit : reply'[<<d, i>>] # Error
    BY <1>1, <1>2, <1>3, <1>6 DEF SetbacksPaid
  <1>7. QED
    BY <1>1, <1>4, <1>5, <1>6, NothingCut

(* A reconnect cuts the others once each. *)
LEMMA RetryPays ==
    ASSUME GrpcInv, GrpcInv', SetbacksPaid, NEW c \in Calls, Retry(c)
    PROVE  SetbacksPaid'
  <1>1. UNCHANGED <<reply, faults>> /\ calls[c].st = "calling" /\ Failing(c)
    BY DEF Retry, Failing
  <1>2. /\ calls'[c].st = "sleeping" /\ calls'[c].attempt = calls[c].attempt
        /\ \A d \in Calls \ {c} : calls'[d] = calls[d]
    BY DEF Retry, GrpcInv, TypeOK
  <1>3. calls[c].attempt \in 0..RetryLimit /\ calls[c].attempt > 0 /\ RetryLimit \in Nat
    BY <1>1, ClientAssumption DEF GrpcInv, TypeOK, AttemptsLeft
  <1>4. Reconnects(c)' = Reconnects(c) + 1
    BY <1>1, <1>2, <1>3 DEF Reconnects
  <1>5. \A d \in Calls \ {c} : Reconnects(d)' = Reconnects(d)
    BY <1>2 DEF Reconnects
  <1> SUFFICES ASSUME faults = 0, NEW d \in Calls \ Faulty
               PROVE  /\ calls'[d].st = "raised" => calls'[d].attempt = RetryLimit
                      /\ \A n \in 1..RetryLimit : reply'[<<d, n>>] # Error
                      /\ Reconnects(d)' + (IF Cut(d)' THEN 1 ELSE 0) <= Cardinality(Spent(Calls \ {d})')
    BY <1>1 DEF SetbacksPaid
  <1>6. /\ calls'[d].st = "raised" => calls'[d].attempt = RetryLimit
        /\ \A n \in 1..RetryLimit : reply'[<<d, n>>] # Error
    BY <1>1, <1>2 DEF SetbacksPaid
  <1>7. Reconnects(d) + (IF Cut(d) THEN 1 ELSE 0) <= Cardinality(Spent(Calls \ {d}))
    BY DEF SetbacksPaid
  <1>8. Cardinality(Spent(Calls \ {d})) \in Nat
    BY SpentFinite
  <1>9. Reconnects(d) \in Int
    BY ReconnectsType, ClientAssumption
  <1>10. CASE d = c
    <2>1. Cut(d) /\ ~Cut(d)'
      BY <1>1, <1>2, <1>10, FailingIsCut DEF Cut
    <2>2. Spent(Calls \ {d})' = Spent(Calls \ {d})
      BY <1>5, <1>10, SameReconnects
    <2>3. QED
      BY <1>4, <1>6, <1>7, <1>8, <1>9, <1>10, <2>1, <2>2
  <1>11. CASE d # c
    <2>1. Cardinality(Spent(Calls \ {d})') = Cardinality(Spent(Calls \ {d})) + 1
      BY <1>4, <1>5, <1>11, OneMoreReconnect
    <2>2. Reconnects(d)' = Reconnects(d)
      BY <1>5, <1>11
    <2>3. QED
      BY <1>6, <1>7, <1>8, <1>9, <2>1, <2>2
  <1>12. QED
    BY <1>10, <1>11

(* Nobody has reconnected at first. *)
LEMMA PaidInit == Init => SetbacksPaid
  <1> SUFFICES ASSUME Init, NEW c \in Calls \ Faulty
               PROVE  /\ calls[c].st = "raised" => calls[c].attempt = RetryLimit
                      /\ \A n \in 1..RetryLimit : reply[<<c, n>>] # Error
                      /\ Reconnects(c) + (IF Cut(c) THEN 1 ELSE 0) <= Cardinality(Spent(Calls \ {c}))
    BY DEF SetbacksPaid
  <1>1. calls[c].st = "idle" /\ calls[c].attempt = 0
    BY DEF Init
  <1>2. \A n \in 1..RetryLimit : reply[<<c, n>>] # Error
    BY ClientAssumption DEF Init, Reqs
  <1>3. Reconnects(c) = 0 /\ ~Cut(c)
    BY <1>1 DEF Reconnects, Cut
  <1>4. Cardinality(Spent(Calls \ {c})) \in Nat
    BY SpentFinite
  <1>5. QED
    BY <1>1, <1>2, <1>3, <1>4

(* Every step keeps the books. *)
LEMMA PaidNext == ASSUME GrpcInv, GrpcInv', SetbacksPaid, Next PROVE SetbacksPaid'
  <1>1. CASE \E c \in Calls : Send(c, TRUE) \/ (faults > 0 /\ Send(c, FALSE)) \/ ClientStep(c)
    <2>1. PICK c \in Calls : Send(c, TRUE) \/ (faults > 0 /\ Send(c, FALSE)) \/ ClientStep(c)
      BY <1>1
    <2>2. CASE Send(c, TRUE)
      <3>1. TRUE \in BOOLEAN
        OBVIOUS
      <3>2. QED
        BY <2>2, <3>1, SendPays
    <2>3. CASE faults > 0 /\ Send(c, FALSE)
      <3>1. faults # 0 /\ FALSE \in BOOLEAN
        BY <2>3
      <3>2. QED
        BY <2>3, <3>1, SendPays
    <2>4. CASE ClientStep(c)
      BY <2>4, EndPays, RetryPays DEF ClientStep
    <2>5. QED
      BY <2>1, <2>2, <2>3, <2>4
  <1>2. ASSUME NEW q \in Reqs, Answer(q) PROVE SetbacksPaid'
    <2>1. UNCHANGED <<calls, stream, faults>>
      BY <1>2 DEF Answer
    <2>2. PICK v \in (IF q[1] \in Faulty THEN {Error} ELSE Values) : reply' = [reply EXCEPT ![q] = v]
      BY <1>2 DEF Answer
    <2>3. \A d \in Calls : Reconnects(d)' = Reconnects(d) /\ (Cut(d)' <=> Cut(d))
      BY <2>1 DEF Reconnects, Cut, Current
    <2>4. ASSUME NEW d \in Calls \ Faulty, NEW n \in 1..RetryLimit, faults = 0 PROVE reply'[<<d, n>>] # Error
      <3>1. reply[<<d, n>>] # Error /\ <<d, n>> \in Reqs /\ reply \in [Reqs -> Values \cup {Nil, Error}]
        BY <2>4 DEF SetbacksPaid, Reqs, GrpcInv, TypeOK
      <3>2. CASE q = <<d, n>>
        BY <2>2, <3>1, <3>2, ClientAssumption
      <3>3. CASE q # <<d, n>>
        BY <2>2, <3>1, <3>3
      <3>4. QED
        BY <3>2, <3>3
    <2>5. ASSUME faults = 0, NEW d \in Calls \ Faulty
          PROVE  calls'[d].st = "raised" => calls'[d].attempt = RetryLimit
      BY <2>1, <2>5 DEF SetbacksPaid
    <2>6. QED
      BY <2>1, <2>3, <2>4, <2>5, NothingCut
  <1>3. ASSUME Close \/ \E q \in Reqs : Break(q) PROVE SetbacksPaid'
    <2>1. faults \in Nat /\ faults' = faults + 1
      BY <1>3, ClientAssumption DEF Close, Break, Fault, GrpcInv, TypeOK
    <2>2. QED
      BY <2>1 DEF SetbacksPaid
  <1>4. QED
    BY <1>1, <1>2, <1>3 DEF Next

(* So does what leaves the gRPC client alone. *)
LEMMA PaidStutters == ASSUME SetbacksPaid, UNCHANGED clientVars PROVE SetbacksPaid'
  <1>1. \A d \in Calls : Reconnects(d)' = Reconnects(d) /\ (Cut(d)' <=> Cut(d))
    BY DEF Reconnects, Cut, Current, clientVars
  <1>2. \A S : Spent(S)' = Spent(S)
    BY DEF Spent, Reconnects, clientVars
  <1>3. QED
    BY <1>1, <1>2 DEF SetbacksPaid, clientVars

(* A healthy call that raised owes all its attempts to the others. *)
LEMMA PaidSurvives == ASSUME GrpcInv, SetbacksPaid PROVE HealthyCallSurvives
  <1> SUFFICES ASSUME NEW c \in Calls \ Faulty, calls[c].st = "raised", faults = 0
               PROVE  MapThenSumSet(Reconnects, Calls \ {c}) >= RetryLimit
    BY DEF HealthyCallSurvives
  <1>1. /\ calls[c].attempt = RetryLimit
        /\ Reconnects(c) + (IF Cut(c) THEN 1 ELSE 0) <= Cardinality(Spent(Calls \ {c}))
    BY DEF SetbacksPaid
  <1>2. Cut(c)
    BY DEF Cut
  <1>3. Reconnects(c) = RetryLimit - 1 /\ RetryLimit \in Nat
    BY <1>1, ClientAssumption DEF Reconnects
  <1>4. Cardinality(Spent(Calls \ {c})) \in Nat
    BY SpentFinite
  <1>5. Cardinality(Spent(Calls \ {c})) >= RetryLimit
    BY <1>1, <1>2, <1>3, <1>4
  <1>6. QED
    BY <1>5, SumOfReconnects

-----------------------------------------------------------------------------
(* The HTTP clients. *)
Future == [st : {"idle", "waiting", "sent", "returned", "raised"}, value : HttpCalls \cup {Nil}]
Line == [id : Int, res : HttpCalls \cup {Nil}]

(* No call waits and no batch is sent at first. *)
LEMMA HttpInit == Http!Init => Http!HttpInv
  <1> SUFFICES ASSUME Http!Init PROVE Http!HttpInv
    OBVIOUS
  <1>1. Http!TypeOK
    BY EmptySeq DEF Http!Init, Http!TypeOK
  <1>2. Http!QueuedOnce /\ Http!BatchedOnce
    BY DEF Http!Init, Http!QueuedOnce, Http!BatchedOnce
  <1>3. batches = {}
    BY DEF Http!Init
  <1>4. QED
    BY <1>1, <1>2, <1>3 DEF Http!HttpInv

(* The shape of a batch. *)
LEMMA BatchShape ==
    ASSUME NEW b \in Http!BatchType
    PROVE  /\ b.members \in Seq(HttpCalls) /\ b.lines \in Seq(Line)
           /\ Len(b.members) \in Nat /\ DOMAIN b.members = 1..Len(b.members)
           /\ \A i \in DOMAIN b.members : b.members[i] \in HttpCalls
           /\ Len(b.lines) \in Nat /\ DOMAIN b.lines = 1..Len(b.lines)
           /\ \A j \in DOMAIN b.lines : /\ b.lines[j] \in Line /\ b.lines[j].id \in Int
                                        /\ b.lines[j].res \in HttpCalls \cup {Nil}
  <1>1. b.members \in Seq(HttpCalls) /\ b.lines \in Seq(Line)
    BY DEF Http!BatchType, Line
  <1>2. /\ Len(b.members) \in Nat /\ DOMAIN b.members = 1..Len(b.members)
        /\ Len(b.lines) \in Nat /\ DOMAIN b.lines = 1..Len(b.lines)
    BY <1>1
  <1>3. \A i \in DOMAIN b.members : b.members[i] \in HttpCalls
    BY <1>1, <1>2, ElementOfSeq
  <1>4. \A j \in DOMAIN b.lines : b.lines[j] \in Line
    BY <1>1, <1>2, ElementOfSeq
  <1>5. \A x \in Line : x.id \in Int /\ x.res \in HttpCalls \cup {Nil}
    BY DEF Line
  <1>6. QED
    BY <1>1, <1>2, <1>3, <1>4, <1>5

(* A batch whose calls a step leaves alone. *)
LEMMA BatchKept ==
    ASSUME NEW a, kind' = kind,
           \A i \in DOMAIN a.members : task'[a.members[i]] = task[a.members[i]],
           Http!Batched(a), Http!UnderWay(a), Http!Served(a), Http!RaisedFor(a)
    PROVE  Http!Batched(a)' /\ Http!UnderWay(a)' /\ Http!Served(a)' /\ Http!RaisedFor(a)'
  <1>1. Http!Batched(a)'
    BY DEF Http!Batched
  <1>2. Http!Unset(a)' = Http!Unset(a)
    BY DEF Http!Unset
  <1>3. Http!UnderWay(a)'
    BY <1>2 DEF Http!UnderWay, Http!Own, Http!Place
  <1>4. ASSUME NEW i \in DOMAIN a.members, Http!Cause(a, i) PROVE Http!Cause(a, i)'
    BY <1>4 DEF Http!Cause, Http!Own, Http!FirstOwn, Http!AllLines, Http!Spoiled, Http!Names, Http!Place
  <1>5. Http!RaisedFor(a)'
    BY <1>4 DEF Http!RaisedFor
  <1>6. Http!Served(a)'
    BY DEF Http!Served, Http!GotOwn, Http!Own, Http!FirstOwn, Http!AllLines, Http!Place
  <1>7. QED
    BY <1>1, <1>3, <1>5, <1>6

(* A step of one batch: the calls in it and nothing else change. *)
LEMMA BatchMoves ==
    ASSUME Http!HttpInv, NEW b \in batches, b.st = "sent",
           NEW new \in Http!BatchType, new.members = b.members, Http!Update(b, new),
           UNCHANGED <<kind, waiting>>,
           task' \in [HttpCalls -> Future],
           \A c \in HttpCalls : (\A i \in DOMAIN b.members : b.members[i] # c) => task'[c] = task[c],
           \A i \in DOMAIN b.members : task'[b.members[i]].st \in {"sent", "returned", "raised"},
           Http!UnderWay(new)', Http!Served(new)', Http!RaisedFor(new)'
    PROVE  Http!HttpInv'
  <1>1. /\ b \in Http!BatchType /\ batches \subseteq Http!BatchType
        /\ Http!Batched(b)
    BY DEF Http!HttpInv, Http!TypeOK
  <1>2. \A i \in DOMAIN b.members : b.members[i] \in HttpCalls
    BY <1>1, BatchShape
  <1>3. batches' = (batches \ {b}) \cup {new}
    BY DEF Http!Update
  <1>4. Http!TypeOK'
    <2>1. ASSUME NEW c \in HttpCalls
          PROVE  (task'[c].st = "waiting") <=> (task[c].st = "waiting")
      <3>1. CASE \E i \in DOMAIN b.members : b.members[i] = c
        BY <1>1, <3>1 DEF Http!Batched
      <3>2. CASE \A i \in DOMAIN b.members : b.members[i] # c
        BY <3>2
      <3>3. QED
        BY <3>1, <3>2
    <2>2. batches' \subseteq Http!BatchType
      BY <1>1, <1>3
    <2>3. \A c \in HttpCalls : (task'[c].st = "waiting") <=> (\E i \in DOMAIN waiting' : waiting'[i] = c)
      BY <2>1 DEF Http!HttpInv, Http!TypeOK
    <2>4. QED
      BY <2>2, <2>3 DEF Http!HttpInv, Http!TypeOK, Future
  <1>6. Http!QueuedOnce'
    BY DEF Http!HttpInv, Http!QueuedOnce
  <1>7. Http!BatchedOnce'
    <2>1. \A x, y \in batches : \A i \in DOMAIN x.members, j \in DOMAIN y.members :
             x.members[i] = y.members[j] => x = y /\ i = j
      BY DEF Http!HttpInv, Http!BatchedOnce
    <2>2. ASSUME NEW x \in batches', NEW y \in batches',
                 NEW i \in DOMAIN x.members, NEW j \in DOMAIN y.members,
                 x.members[i] = y.members[j]
          PROVE  x = y /\ i = j
      <3>1. CASE x \in batches \ {b} /\ y \in batches \ {b}
        BY <2>1, <2>2, <3>1
      <3>2. CASE x = new /\ y \in batches \ {b}
        BY <2>1, <2>2, <3>2
      <3>3. CASE x \in batches \ {b} /\ y = new
        BY <2>1, <2>2, <3>3
      <3>4. CASE x = new /\ y = new
        BY <2>1, <2>2, <3>4
      <3>5. QED
        BY <1>3, <3>1, <3>2, <3>3, <3>4
    <2>3. QED
      BY <2>2 DEF Http!BatchedOnce
  <1>8. ASSUME NEW a \in batches'
        PROVE  Http!Batched(a)' /\ Http!UnderWay(a)' /\ Http!Served(a)' /\ Http!RaisedFor(a)'
    <2>1. CASE a = new
      BY <1>1, <2>1 DEF Http!Batched
    <2>2. CASE a \in batches \ {b}
      <3>1. \A i \in DOMAIN a.members : a.members[i] \in HttpCalls
        BY <1>1, <2>2, BatchShape
      <3>2. \A i \in DOMAIN a.members, j \in DOMAIN b.members : b.members[j] # a.members[i]
        BY <2>2 DEF Http!HttpInv, Http!BatchedOnce
      <3>3. \A i \in DOMAIN a.members : task'[a.members[i]] = task[a.members[i]]
        BY <3>1, <3>2
      <3>4. Http!Batched(a) /\ Http!UnderWay(a) /\ Http!Served(a) /\ Http!RaisedFor(a)
        BY <2>2 DEF Http!HttpInv
      <3>5. QED
        BY <3>3, <3>4, BatchKept
    <2>3. QED
      BY <1>3, <2>1, <2>2
  <1>9. QED
    BY <1>4, <1>6, <1>7, <1>8 DEF Http!HttpInv

(* A new batch: nothing of its calls was sent before. *)
LEMMA BatchBegins ==
    ASSUME Http!HttpInv, NEW new \in Http!BatchType,
           new.members # <<>>, new.lines = <<>>, new.st = "sent",
           batches' = batches \cup {new}, kind' = kind,
           \A i, j \in DOMAIN new.members : new.members[i] = new.members[j] => i = j,
           \A i \in DOMAIN new.members : /\ task[new.members[i]].st \in {"idle", "waiting"}
                                        /\ task'[new.members[i]].st = "sent",
           \A c \in HttpCalls : (\A i \in DOMAIN new.members : new.members[i] # c)
                                 => task'[c] = task[c],
           Http!TypeOK', Http!QueuedOnce'
    PROVE  Http!HttpInv'
  <1>1. /\ batches \subseteq Http!BatchType /\ kind \in {"single", "batch", "unordered"}
        /\ \A a \in batches : Http!Batched(a)
    BY DEF Http!HttpInv, Http!TypeOK, Http!Kinds
  <1>2. ASSUME NEW a \in batches, NEW i \in DOMAIN a.members
        PROVE  a.members[i] \in HttpCalls /\ \A j \in DOMAIN new.members : new.members[j] # a.members[i]
    <2>1. task[a.members[i]].st \in {"sent", "returned", "raised"}
      BY <1>1 DEF Http!Batched
    <2>2. QED
      BY <1>1, <2>1, BatchShape
  <1>4. Http!BatchedOnce'
    <2>1. ASSUME NEW x \in batches', NEW y \in batches',
                 NEW i \in DOMAIN x.members, NEW j \in DOMAIN y.members,
                 x.members[i] = y.members[j]
          PROVE  x = y /\ i = j
      <3>1. CASE x \in batches /\ y \in batches
        BY <2>1, <3>1 DEF Http!HttpInv, Http!BatchedOnce
      <3>2. CASE x = new /\ y = new
        BY <2>1, <3>2
      <3>3. QED
        BY <1>2, <2>1, <3>1, <3>2
    <2>2. QED
      BY <2>1 DEF Http!BatchedOnce
  <1>5. ASSUME NEW a \in batches
        PROVE  Http!Batched(a)' /\ Http!UnderWay(a)' /\ Http!Served(a)' /\ Http!RaisedFor(a)'
    <2>1. \A i \in DOMAIN a.members : task'[a.members[i]] = task[a.members[i]]
      BY <1>2
    <2>2. Http!Batched(a) /\ Http!UnderWay(a) /\ Http!Served(a) /\ Http!RaisedFor(a)
      BY DEF Http!HttpInv
    <2>3. QED
      BY <2>1, <2>2, BatchKept
  <1>6. Http!Batched(new)' /\ Http!UnderWay(new)' /\ Http!Served(new)' /\ Http!RaisedFor(new)'
    <2>1. Http!Batched(new)' /\ Http!Served(new)' /\ Http!RaisedFor(new)'
      BY DEF Http!Batched, Http!Served, Http!RaisedFor
    <2>2. Http!Unset(new)' = DOMAIN new.members
      BY DEF Http!Unset
    <2>3. \A i : Http!Own(new, i)' = {}
      BY DEF Http!Own
    <2>4. Len(new.lines) = 0 /\ DOMAIN new.lines = {} /\ Len(new.members) \in Nat
      BY BatchShape
    <2>5. Http!UnderWay(new)'
      BY <1>1, <2>2, <2>3, <2>4 DEF Http!UnderWay
    <2>6. QED
      BY <2>1, <2>5
  <1>7. QED
    BY <1>4, <1>5, <1>6 DEF Http!HttpInv

(* execute() posts a batch of one, or joins the queue. *)
LEMMA ExecuteKeeps ==
    ASSUME Http!HttpInv, NEW c \in HttpCalls, Http!Execute(c)
    PROVE  Http!HttpInv'
  <1>1. /\ task[c].st = "idle" /\ kind' = kind
        /\ task \in [HttpCalls -> Future] /\ waiting \in Seq(HttpCalls) /\ batches \subseteq Http!BatchType
        /\ \A i \in DOMAIN waiting : waiting[i] # c
    BY DEF Http!Execute, Http!HttpInv, Http!TypeOK, Future
  <1>2. CASE kind = "single"
    <2> DEFINE new == Http!Batch(<<c>>)
    <2>1. task' = [task EXCEPT ![c].st = "sent"] /\ batches' = batches \cup {new} /\ waiting' = waiting
      BY <1>2 DEF Http!Execute
    <2>2. /\ new.members = <<c>> /\ new.lines = <<>> /\ new.st = "sent"
          /\ new \in Http!BatchType
      <3>1. <<c>> \in Seq(HttpCalls) /\ <<>> \in Seq([id : Int, res : HttpCalls \cup {Nil}])
        OBVIOUS
      <3>2. QED
        BY <3>1 DEF Http!Batch, Http!BatchType
    <2> HIDE DEF new
    <2>3. /\ task' \in [HttpCalls -> Future] /\ task'[c].st = "sent"
          /\ \A d \in HttpCalls \ {c} : task'[d] = task[d]
      BY <1>1, <2>1 DEF Future
    <2>4. Http!TypeOK'
      BY <1>1, <2>1, <2>2, <2>3 DEF Http!HttpInv, Http!TypeOK, Future
    <2>5. Http!QueuedOnce'
      BY <2>1 DEF Http!HttpInv, Http!QueuedOnce
    <2>6. DOMAIN new.members = {1} /\ new.members[1] = c /\ new.members # <<>>
      BY <2>2
    <2>7. QED
      BY <1>1, <2>1, <2>2, <2>3, <2>4, <2>5, <2>6, BatchBegins
  <1>3. CASE kind # "single"
    <2>1. /\ task' = [task EXCEPT ![c].st = "waiting"] /\ batches' = batches
          /\ waiting' = Append(waiting, c)
      BY <1>3 DEF Http!Execute
    <2>2. /\ task' \in [HttpCalls -> Future] /\ task'[c].st = "waiting"
          /\ \A d \in HttpCalls \ {c} : task'[d] = task[d]
      BY <1>1, <2>1 DEF Future
    <2>3. /\ waiting' \in Seq(HttpCalls) /\ Len(waiting) \in Nat /\ DOMAIN waiting = 1..Len(waiting)
          /\ DOMAIN waiting' = 1..(Len(waiting) + 1) /\ waiting'[Len(waiting) + 1] = c
          /\ \A i \in DOMAIN waiting : i \in DOMAIN waiting' /\ waiting'[i] = waiting[i]
          /\ \A i \in DOMAIN waiting' : i \in DOMAIN waiting \/ i = Len(waiting) + 1
          /\ Len(waiting) + 1 \in DOMAIN waiting'
      BY <1>1, <2>1
    <2>4. Http!TypeOK'
      <3>1. ASSUME NEW d \in HttpCalls
            PROVE  (task'[d].st = "waiting") <=> (\E i \in DOMAIN waiting' : waiting'[i] = d)
        <4>1. CASE d = c
          BY <2>2, <2>3, <4>1
        <4>2. CASE d # c
          BY <2>2, <2>3, <4>2 DEF Http!HttpInv, Http!TypeOK
        <4>3. QED
          BY <4>1, <4>2
      <3>2. QED
        BY <1>1, <2>1, <2>2, <2>3, <3>1 DEF Http!HttpInv, Http!TypeOK, Future
    <2>5. Http!QueuedOnce'
      BY <1>1, <2>3 DEF Http!HttpInv, Http!QueuedOnce
    <2>7. Http!BatchedOnce'
      BY <2>1 DEF Http!HttpInv, Http!BatchedOnce
    <2>8. ASSUME NEW a \in batches
        PROVE  Http!Batched(a)' /\ Http!UnderWay(a)' /\ Http!Served(a)' /\ Http!RaisedFor(a)'
      <3>1. Http!Batched(a) /\ Http!UnderWay(a) /\ Http!Served(a) /\ Http!RaisedFor(a)
        BY DEF Http!HttpInv
      <3>2. \A i \in DOMAIN a.members : a.members[i] \in HttpCalls /\ a.members[i] # c
        BY <1>1, <3>1, BatchShape DEF Http!Batched
      <3>3. \A i \in DOMAIN a.members : task'[a.members[i]] = task[a.members[i]]
        BY <2>2, <3>2
      <3>4. QED
        BY <1>1, <3>1, <3>3, BatchKept
    <2>9. QED
      BY <2>1, <2>4, <2>5, <2>7, <2>8 DEF Http!HttpInv
  <1>4. QED
    BY <1>2, <1>3

(* The head of the queue becomes a batch. *)
LEMMA StartBatchKeeps == ASSUME Http!HttpInv, Http!StartBatch PROVE Http!HttpInv'
  <1>1. PICK n \in 1..Len(waiting) :
           LET b == Http!Batch(SubSeq(waiting, 1, n))
           IN  /\ batches' = batches \cup {b}
               /\ task' = [c \in HttpCalls |-> IF c \in Http!Members(b, DOMAIN b.members)
                                              THEN [task[c] EXCEPT !.st = "sent"] ELSE task[c]]
               /\ waiting' = SubSeq(waiting, n + 1, Len(waiting))
    BY DEF Http!StartBatch
  <1> DEFINE head == SubSeq(waiting, 1, n)
             new == Http!Batch(head)
  <1>2. /\ kind' = kind /\ task \in [HttpCalls -> Future] /\ waiting \in Seq(HttpCalls)
        /\ batches \subseteq Http!BatchType
        /\ Len(waiting) \in Nat /\ DOMAIN waiting = 1..Len(waiting)
    BY DEF Http!StartBatch, Http!HttpInv, Http!TypeOK, Future
  <1>3. \A i \in DOMAIN waiting : waiting[i] \in HttpCalls /\ task[waiting[i]].st = "waiting"
    BY <1>2, ElementOfSeq DEF Http!HttpInv, Http!TypeOK
  <1>4. /\ head \in Seq(HttpCalls) /\ DOMAIN head = 1..n /\ head # <<>>
        /\ \A i \in 1..n : head[i] = waiting[i]
    <2>1. n <= Len(waiting) /\ n \in Nat /\ n >= 1
      BY <1>2
    <2>2. head \in Seq(HttpCalls) /\ Len(head) = n /\ \A i \in 1..n : head[i] = waiting[i]
      BY <1>2, <2>1, SubSeqProperties
    <2>3. QED
      BY <2>1, <2>2
  <1> HIDE DEF head
  <1>5. /\ new.members = head /\ new.lines = <<>> /\ new.st = "sent" /\ new \in Http!BatchType
    <2>1. <<>> \in Seq([id : Int, res : HttpCalls \cup {Nil}])
      OBVIOUS
    <2>2. QED
      BY <1>4, <2>1 DEF Http!Batch, Http!BatchType
  <1>6. /\ batches' = batches \cup {new}
        /\ task' = [c \in HttpCalls |-> IF \E i \in 1..n : waiting[i] = c
                                       THEN [task[c] EXCEPT !.st = "sent"] ELSE task[c]]
    <2>1. Http!Members(new, DOMAIN new.members) = {waiting[i] : i \in 1..n}
      BY <1>4, <1>5 DEF Http!Members
    <2>2. QED
      BY <1>1, <2>1 DEF head
  <1> HIDE DEF new
  <1>7. /\ task' \in [HttpCalls -> Future]
        /\ \A i \in 1..n : task'[waiting[i]].st = "sent"
        /\ \A c \in HttpCalls : (\A i \in 1..n : waiting[i] # c) => task'[c] = task[c]
    <2>1. \A f \in Future : [f EXCEPT !.st = "sent"] \in Future /\ [f EXCEPT !.st = "sent"].st = "sent"
      BY DEF Future
    <2>2. 1..n \subseteq DOMAIN waiting
      BY <1>2
    <2>3. QED
      BY <1>2, <1>3, <1>6, <2>1, <2>2
  <1>8. /\ waiting' \in Seq(HttpCalls) /\ DOMAIN waiting' = 1..(Len(waiting) - n)
        /\ \A i \in DOMAIN waiting' : n + i \in DOMAIN waiting /\ waiting'[i] = waiting[n + i]
        /\ \A i \in DOMAIN waiting : i > n => i - n \in DOMAIN waiting' /\ waiting'[i - n] = waiting[i]
    <2>1. waiting' = SubSeq(waiting, n + 1, Len(waiting))
      BY <1>1
    <2>2. n + 1 \in 1..(Len(waiting) + 1) /\ Len(waiting) \in n..Len(waiting) /\ n \in Nat
      BY <1>2
    <2>3. /\ waiting' \in Seq(HttpCalls) /\ Len(waiting') = Len(waiting) - n
          /\ \A i \in 1..(Len(waiting) - n) : waiting'[i] = waiting[n + i]
      <3>1. Len(waiting) - (n + 1) + 1 = Len(waiting) - n
        BY <1>2, <2>2
      <3>2. CASE n + 1 <= Len(waiting)
        <4>1. Len(waiting') = Len(waiting) - n /\ waiting' \in Seq(HttpCalls)
          BY <1>2, <2>1, <2>2, <3>1, <3>2, SubSeqProperties
        <4>2. ASSUME NEW i \in 1..(Len(waiting) - n) PROVE waiting'[i] = waiting[n + i]
          BY <1>2, <2>1, <2>2
        <4>3. QED
          BY <4>1, <4>2
      <3>3. CASE n = Len(waiting)
        BY <1>2, <2>1, <2>2, <3>3
      <3>4. n + 1 <= Len(waiting) \/ n = Len(waiting)
        <4>1. n <= Len(waiting) /\ n \in Nat /\ Len(waiting) \in Nat
          BY <1>2
        <4>2. QED
          BY <4>1
      <3>5. QED
        BY <3>2, <3>3, <3>4
    <2>4. DOMAIN waiting' = 1..(Len(waiting) - n)
      BY <1>2, <2>2, <2>3
    <2>5. \A i \in DOMAIN waiting' : n + i \in DOMAIN waiting /\ waiting'[i] = waiting[n + i]
      BY <1>2, <2>2, <2>3, <2>4
    <2>6. ASSUME NEW i \in DOMAIN waiting, i > n
          PROVE  i - n \in DOMAIN waiting' /\ waiting'[i - n] = waiting[i]
      <3>1. i - n \in 1..(Len(waiting) - n) /\ n + (i - n) = i
        BY <1>2, <2>2, <2>6
      <3>2. QED
        BY <2>3, <2>4, <3>1
    <2>7. QED
      BY <2>3, <2>4, <2>5, <2>6
  <1>9. \A i, j \in DOMAIN waiting : waiting[i] = waiting[j] => i = j
    BY DEF Http!HttpInv, Http!QueuedOnce
  <1>10. Http!QueuedOnce'
    <2>1. ASSUME NEW i \in DOMAIN waiting', NEW j \in DOMAIN waiting', waiting'[i] = waiting'[j]
          PROVE  i = j
      <3>1. n + i = n + j
        BY <1>8, <1>9, <2>1
      <3>2. QED
        BY <1>8, <3>1
    <2>2. QED
      BY <2>1 DEF Http!QueuedOnce
  <1>11. Http!TypeOK'
    <2>1. ASSUME NEW c \in HttpCalls
          PROVE  (task'[c].st = "waiting") <=> (\E i \in DOMAIN waiting' : waiting'[i] = c)
      <3>1. CASE \E i \in 1..n : waiting[i] = c
        <4>1. PICK i \in 1..n : waiting[i] = c
          BY <3>1
        <4>2. task'[c].st = "sent"
          BY <1>7, <4>1
        <4>3. ASSUME NEW j \in DOMAIN waiting' PROVE waiting'[j] # c
          <5>1. n + j # i /\ i \in DOMAIN waiting
            BY <1>2, <1>8
          <5>2. QED
            BY <1>8, <1>9, <4>1, <5>1
        <4>4. QED
          BY <4>2, <4>3
      <3>2. CASE \A i \in 1..n : waiting[i] # c
        <4>1. task'[c] = task[c]
          BY <1>7, <3>2
        <4>2. (task[c].st = "waiting") <=> (\E i \in DOMAIN waiting : waiting[i] = c)
          BY DEF Http!HttpInv, Http!TypeOK
        <4>3. \A i \in DOMAIN waiting : waiting[i] = c => i > n
          BY <1>2, <3>2
        <4>4. QED
          BY <1>8, <4>1, <4>2, <4>3
      <3>3. QED
        BY <3>1, <3>2
    <2>2. QED
      BY <1>2, <1>5, <1>6, <1>7, <1>8, <2>1 DEF Http!HttpInv, Http!TypeOK, Future
  <1>12. 1..n \subseteq DOMAIN waiting
    BY <1>2
  <1>13. DOMAIN new.members = 1..n /\ \A i \in DOMAIN new.members : new.members[i] = waiting[i]
    BY <1>4, <1>5
  <1>14. \A i, j \in DOMAIN new.members : new.members[i] = new.members[j] => i = j
    BY <1>9, <1>12, <1>13
  <1>15. \A i \in DOMAIN new.members : /\ task[new.members[i]].st \in {"idle", "waiting"}
                                      /\ task'[new.members[i]].st = "sent"
    BY <1>3, <1>7, <1>12, <1>13
  <1>16. \A c \in HttpCalls : (\A i \in DOMAIN new.members : new.members[i] # c) => task'[c] = task[c]
    BY <1>7, <1>13
  <1>17. new.members # <<>>
    BY <1>4, <1>5
  <1>18. QED
    BY <1>2, <1>5, <1>6, <1>10, <1>11, <1>14, <1>15, <1>16, <1>17, BatchBegins

(* A step gives futures of a batch the results that stand at their places. *)
LEMMA ResolveFacts ==
    ASSUME Http!HttpInv, NEW b \in batches, NEW value,
           DOMAIN value \subseteq DOMAIN b.members,
           \A i \in DOMAIN value : value[i] \in HttpCalls \cup {Nil},
           task' = Http!Resolve(b, value)
    PROVE  /\ task' \in [HttpCalls -> Future]
           /\ \A c \in HttpCalls : (\A i \in DOMAIN b.members : b.members[i] # c) => task'[c] = task[c]
           /\ \A i \in DOMAIN value : /\ task'[b.members[i]].st = "returned"
                                      /\ task'[b.members[i]].value = value[i]
           /\ \A i \in DOMAIN b.members \ DOMAIN value : task'[b.members[i]] = task[b.members[i]]
  <1>1. /\ b \in Http!BatchType /\ task \in [HttpCalls -> Future]
        /\ \A i, j \in DOMAIN b.members : b.members[i] = b.members[j] => i = j
    BY DEF Http!HttpInv, Http!TypeOK, Http!BatchedOnce, Future
  <1>2. \A i \in DOMAIN b.members : b.members[i] \in HttpCalls
    BY <1>1, BatchShape
  <1> DEFINE own(c) == CHOOSE i \in DOMAIN value : b.members[i] = c
             at(c) == value[own(c)]
  <1>3. task' = [c \in HttpCalls |-> IF \E i \in DOMAIN value : b.members[i] = c
                                    THEN [st |-> "returned", value |-> at(c)] ELSE task[c]]
    BY DEF Http!Resolve
  <1>4. \A i \in DOMAIN value : own(b.members[i]) = i
    BY <1>1
  <1> HIDE DEF own
  <1>5. \A i \in DOMAIN value : at(b.members[i]) = value[i]
    BY <1>4
  <1> HIDE DEF at
  <1>6. ASSUME NEW c \in HttpCalls, \E i \in DOMAIN value : b.members[i] = c
        PROVE  [st |-> "returned", value |-> at(c)] \in Future
    <2>1. at(c) \in HttpCalls \cup {Nil}
      BY <1>5, <1>6
    <2>2. QED
      BY <2>1 DEF Future
  <1>7. task' \in [HttpCalls -> Future]
    BY <1>1, <1>3, <1>6
  <1>8. \A c \in HttpCalls : (\A i \in DOMAIN b.members : b.members[i] # c) => task'[c] = task[c]
    BY <1>3
  <1>9. \A i \in DOMAIN value : /\ task'[b.members[i]].st = "returned"
                                /\ task'[b.members[i]].value = value[i]
    BY <1>2, <1>3, <1>5
  <1>10. \A i \in DOMAIN b.members \ DOMAIN value : task'[b.members[i]] = task[b.members[i]]
    BY <1>1, <1>2, <1>3
  <1>11. QED
    BY <1>7, <1>8, <1>9, <1>10

(* A step raises in the futures at the positions I of a batch. *)
LEMMA RaiseFacts ==
    ASSUME Http!HttpInv, NEW b \in batches, NEW I \in SUBSET DOMAIN b.members,
           task' = Http!Raise(Http!Members(b, I))
    PROVE  /\ task' \in [HttpCalls -> Future]
           /\ \A c \in HttpCalls : (\A i \in DOMAIN b.members : b.members[i] # c) => task'[c] = task[c]
           /\ \A i \in I : task'[b.members[i]].st = "raised"
           /\ \A i \in DOMAIN b.members \ I : task'[b.members[i]] = task[b.members[i]]
  <1>1. /\ b \in Http!BatchType /\ task \in [HttpCalls -> Future]
        /\ \A i, j \in DOMAIN b.members : b.members[i] = b.members[j] => i = j
    BY DEF Http!HttpInv, Http!TypeOK, Http!BatchedOnce, Future
  <1>2. \A i \in DOMAIN b.members : b.members[i] \in HttpCalls
    BY <1>1, BatchShape
  <1>3. task' = [c \in HttpCalls |-> IF \E i \in I : b.members[i] = c
                                    THEN [st |-> "raised", value |-> Nil] ELSE task[c]]
    BY DEF Http!Raise, Http!Members
  <1>4. [st |-> "raised", value |-> Nil] \in Future
    BY DEF Future
  <1>5. task' \in [HttpCalls -> Future]
    BY <1>1, <1>3, <1>4
  <1>6. \A c \in HttpCalls : (\A i \in DOMAIN b.members : b.members[i] # c) => task'[c] = task[c]
    BY <1>3
  <1>7. \A i \in I : task'[b.members[i]].st = "raised"
    BY <1>2, <1>3
  <1>8. \A i \in DOMAIN b.members \ I : task'[b.members[i]] = task[b.members[i]]
    BY <1>1, <1>2, <1>3
  <1>9. QED
    BY <1>5, <1>6, <1>7, <1>8

(* The line that counts for a call is the first that names it. *)
LEMMA LeastOwn ==
    ASSUME NEW b \in Http!BatchType, NEW i, Http!Own(b, i) # {}
    PROVE  /\ Http!FirstOwn(b, i) \in Http!Own(b, i)
           /\ \A k \in Http!Own(b, i) : Http!FirstOwn(b, i) <= k
  <1>1. Http!Own(b, i) \subseteq Nat
    BY BatchShape DEF Http!Own
  <1>2. \E j \in Http!Own(b, i) : \A k \in Http!Own(b, i) : j <= k
    BY <1>1, LeastNumber
  <1>3. QED
    BY <1>2 DEF Http!FirstOwn

(* It stays the first when more lines are read. *)
LEMMA FirstKept ==
    ASSUME NEW b \in Http!BatchType, NEW new \in Http!BatchType, NEW i, Http!Own(b, i) # {},
           new.members = b.members,
           \A j \in DOMAIN b.lines : j \in DOMAIN new.lines /\ new.lines[j] = b.lines[j]
    PROVE  /\ Http!Own(new, i) # {}
           /\ new.lines[Http!FirstOwn(new, i)] = b.lines[Http!FirstOwn(b, i)]
  <1> DEFINE f == Http!FirstOwn(b, i)
             g == Http!FirstOwn(new, i)
  <1>1. f \in Http!Own(b, i) /\ \A k \in Http!Own(b, i) : f <= k
    BY LeastOwn
  <1> HIDE DEF f
  <1>2. f \in Http!Own(new, i)
    BY <1>1 DEF Http!Own, Http!Place
  <1>3. g \in Http!Own(new, i) /\ \A k \in Http!Own(new, i) : g <= k
    BY <1>2, LeastOwn
  <1> HIDE DEF g
  <1>4. f \in 1..Len(b.lines) /\ g \in 1..Len(new.lines) /\ Len(b.lines) \in Nat /\ Len(new.lines) \in Nat
    BY <1>1, <1>3, BatchShape DEF Http!Own
  <1>5. g <= f
    BY <1>2, <1>3
  <1>6. g \in DOMAIN b.lines
    BY <1>4, <1>5, BatchShape
  <1>7. f <= g
    BY <1>1, <1>3, <1>6 DEF Http!Own, Http!Place
  <1>8. f = g
    BY <1>4, <1>5, <1>7
  <1>9. QED
    BY <1>1, <1>2, <1>8 DEF f, g, Http!Own

(* What a call of a batch that goes on raised for. *)
LEMMA RaisedBefore ==
    ASSUME Http!HttpInv, NEW b \in batches, b.st = "sent", NEW i \in DOMAIN b.members,
           task[b.members[i]].st = "raised"
    PROVE  kind = "unordered" /\ Http!Own(b, i) # {} /\ b.lines[Http!FirstOwn(b, i)].res = Nil
  <1>1. i \notin Http!Unset(b)
    BY DEF Http!Unset
  <1>2. kind = "unordered" /\ Http!Own(b, i) # {}
    BY <1>1 DEF Http!HttpInv, Http!UnderWay
  <1>3. Http!Cause(b, i)
    BY DEF Http!HttpInv, Http!RaisedFor
  <1>4. QED
    BY <1>2, <1>3 DEF Http!Cause

(* What a call of a batch that goes on returned. *)
LEMMA ReturnedBefore ==
    ASSUME Http!HttpInv, NEW b \in batches, b.st = "sent", NEW i \in DOMAIN b.members,
           task[b.members[i]].st = "returned"
    PROVE  /\ kind = "unordered" /\ Http!Own(b, i) # {}
           /\ task[b.members[i]].value = b.lines[Http!FirstOwn(b, i)].res
           /\ b.lines[Http!FirstOwn(b, i)].res # Nil
  <1>1. i \notin Http!Unset(b)
    BY DEF Http!Unset
  <1>2. kind = "unordered"
    BY <1>1 DEF Http!HttpInv, Http!UnderWay
  <1>3. Http!GotOwn(b, i)
    BY DEF Http!HttpInv, Http!Served
  <1>4. QED
    BY <1>2, <1>3 DEF Http!GotOwn

(* Every call of the batch that has returned now got what it should. *)
LEMMA ServedNow ==
    ASSUME NEW new, kind' = kind,
           \A i \in DOMAIN new.members :
              task'[new.members[i]].st = "returned"
                 => /\ Http!Own(new, i) # {}
                    /\ task'[new.members[i]].value = new.lines[Http!FirstOwn(new, i)].res
                    /\ new.lines[Http!FirstOwn(new, i)].res # Nil
                    /\ kind = "batch" => Http!AllLines(new)
    PROVE  Http!Served(new)'
  <1>1. \A i : Http!Own(new, i)' = Http!Own(new, i) /\ Http!FirstOwn(new, i)' = Http!FirstOwn(new, i)
    BY DEF Http!Own, Http!FirstOwn, Http!Place
  <1>2. Http!AllLines(new)' = Http!AllLines(new)
    BY DEF Http!AllLines
  <1>3. QED
    BY <1>1, <1>2 DEF Http!Served, Http!GotOwn

(* A call that returned before the batch read on keeps what it got. *)
LEMMA ServedBefore ==
    ASSUME Http!HttpInv, NEW b \in batches, b.st = "sent",
           NEW new \in Http!BatchType, new.members = b.members,
           \A j \in DOMAIN b.lines : j \in DOMAIN new.lines /\ new.lines[j] = b.lines[j],
           NEW i \in DOMAIN new.members, task'[b.members[i]] = task[b.members[i]],
           task'[b.members[i]].st = "returned"
    PROVE  /\ Http!Own(new, i) # {}
           /\ task'[new.members[i]].value = new.lines[Http!FirstOwn(new, i)].res
           /\ new.lines[Http!FirstOwn(new, i)].res # Nil
           /\ kind = "unordered"
  <1>1. /\ kind = "unordered" /\ Http!Own(b, i) # {}
        /\ task[b.members[i]].value = b.lines[Http!FirstOwn(b, i)].res
        /\ b.lines[Http!FirstOwn(b, i)].res # Nil
    BY ReturnedBefore
  <1>2. b \in Http!BatchType
    BY DEF Http!HttpInv, Http!TypeOK
  <1>3. Http!Own(new, i) # {} /\ new.lines[Http!FirstOwn(new, i)] = b.lines[Http!FirstOwn(b, i)]
    BY <1>1, <1>2, FirstKept
  <1>4. QED
    BY <1>1, <1>3

(* Every call of the batch that has raised now had a cause. *)
LEMMA RaisedNow ==
    ASSUME NEW new, kind' = kind,
           \A i \in DOMAIN new.members : task'[new.members[i]].st = "raised" => Http!Cause(new, i)
    PROVE  Http!RaisedFor(new)'
  <1>1. ASSUME NEW i \in DOMAIN new.members, Http!Cause(new, i) PROVE Http!Cause(new, i)'
    BY <1>1 DEF Http!Cause, Http!Own, Http!FirstOwn, Http!AllLines, Http!Spoiled, Http!Names, Http!Place
  <1>2. QED
    BY <1>1 DEF Http!RaisedFor

(* The states of the calls of a batch under way. *)
LEMMA BatchStates ==
    ASSUME Http!HttpInv, NEW b \in batches, b.st = "sent"
    PROVE  /\ b \in Http!BatchType /\ kind \in {"single", "batch", "unordered"}
           /\ task \in [HttpCalls -> Future]
           /\ \A i \in DOMAIN b.members : /\ b.members[i] \in HttpCalls
                                          /\ task[b.members[i]].st \in {"sent", "returned", "raised"}
                                          /\ i \in Http!Unset(b) <=> task[b.members[i]].st = "sent"
           /\ Http!Unset(b) \in SUBSET DOMAIN b.members
           /\ b.members # <<>> /\ 1 \in DOMAIN b.members
  <1>1. /\ b \in Http!BatchType /\ kind \in {"single", "batch", "unordered"}
        /\ task \in [HttpCalls -> Future] /\ Http!Batched(b)
    BY DEF Http!HttpInv, Http!TypeOK, Http!Kinds, Future
  <1>2. \A i \in DOMAIN b.members : b.members[i] \in HttpCalls
    BY <1>1, BatchShape
  <1>3. \A i \in DOMAIN b.members : task[b.members[i]].st \in {"sent", "returned", "raised"}
    BY <1>1, <1>2 DEF Http!Batched
  <1>4. b.members # <<>> /\ 1 \in DOMAIN b.members
    <2>1. b.members # <<>> /\ b.members \in Seq(HttpCalls)
      BY <1>1, BatchShape DEF Http!Batched
    <2>2. QED
      BY <2>1
  <1>5. QED
    BY <1>1, <1>2, <1>3, <1>4 DEF Http!Unset

(* A batch ends with an exception for all of its calls that are not set. *)
LEMMA BatchFails ==
    ASSUME Http!HttpInv, NEW b \in batches, b.st = "sent",
           NEW new \in Http!BatchType, new.members = b.members, new.st # "sent",
           \A j \in DOMAIN b.lines : j \in DOMAIN new.lines /\ new.lines[j] = b.lines[j],
           Http!Update(b, new), UNCHANGED <<kind, waiting>>,
           task' = Http!Raise(Http!Members(b, Http!Unset(b))),
           \A i \in Http!Unset(b) : Http!Cause(new, i)
    PROVE  Http!HttpInv'
  <1>1. Http!Unset(b) \in SUBSET DOMAIN b.members /\ b \in Http!BatchType
    BY BatchStates
  <1>2. /\ task' \in [HttpCalls -> Future]
        /\ \A c \in HttpCalls : (\A i \in DOMAIN b.members : b.members[i] # c) => task'[c] = task[c]
        /\ \A i \in Http!Unset(b) : task'[b.members[i]].st = "raised"
        /\ \A i \in DOMAIN b.members \ Http!Unset(b) : task'[b.members[i]] = task[b.members[i]]
    BY <1>1, RaiseFacts
  <1>3. \A i \in DOMAIN b.members : task'[b.members[i]].st \in {"sent", "returned", "raised"}
    BY <1>2, BatchStates
  <1>4. Http!UnderWay(new)'
    BY DEF Http!UnderWay
  <1>5. ASSUME NEW i \in DOMAIN new.members, task'[new.members[i]].st = "raised"
        PROVE  Http!Cause(new, i)
    <2>1. CASE i \in Http!Unset(b)
      BY <2>1
    <2>2. CASE i \notin Http!Unset(b)
      <3>1. task[b.members[i]].st = "raised"
        BY <1>2, <1>5, <2>2
      <3>2. Http!Own(b, i) # {} /\ b.lines[Http!FirstOwn(b, i)].res = Nil
        BY <3>1, RaisedBefore
      <3>3. Http!Own(new, i) # {} /\ new.lines[Http!FirstOwn(new, i)] = b.lines[Http!FirstOwn(b, i)]
        BY <1>1, <3>2, FirstKept
      <3>4. QED
        BY <3>2, <3>3 DEF Http!Cause
    <2>3. QED
      BY <2>1, <2>2
  <1>6. Http!RaisedFor(new)'
    BY <1>5, RaisedNow
  <1>7. Http!Served(new)'
    <2>1. ASSUME NEW i \in DOMAIN new.members, task'[new.members[i]].st = "returned"
          PROVE  task'[b.members[i]] = task[b.members[i]]
      BY <1>2, <2>1
    <2>2. QED
      BY <2>1, ServedBefore, ServedNow
  <1>8. QED
    BY <1>2, <1>3, <1>4, <1>6, <1>7, BatchMoves

(* A batch goes on, or ends, and no future is set. *)
LEMMA BatchReads ==
    ASSUME Http!HttpInv, NEW b \in batches, b.st = "sent",
           NEW new \in Http!BatchType, new.members = b.members,
           \A j \in DOMAIN b.lines : j \in DOMAIN new.lines /\ new.lines[j] = b.lines[j],
           Http!Update(b, new), UNCHANGED <<kind, waiting, task>>, Http!UnderWay(new)'
    PROVE  Http!HttpInv'
  <1>1. ASSUME NEW i \in DOMAIN new.members, task'[new.members[i]].st = "raised"
        PROVE  Http!Cause(new, i)
    <2>1. Http!Own(b, i) # {} /\ b.lines[Http!FirstOwn(b, i)].res = Nil
      BY <1>1, RaisedBefore
    <2>2. Http!Own(new, i) # {} /\ new.lines[Http!FirstOwn(new, i)] = b.lines[Http!FirstOwn(b, i)]
      BY <2>1, BatchStates, FirstKept
    <2>3. QED
      BY <2>1, <2>2 DEF Http!Cause
  <1>2. Http!RaisedFor(new)'
    BY <1>1, RaisedNow
  <1>3. task' \in [HttpCalls -> Future]
    BY BatchStates
  <1>4. \A i \in DOMAIN b.members : task'[b.members[i]].st \in {"sent", "returned", "raised"}
    BY BatchStates
  <1>5. Http!Served(new)'
    BY ServedBefore, ServedNow
  <1>6. QED
    BY <1>2, <1>3, <1>4, <1>5, BatchMoves

(* A batch that ends, or breaks, with the lines read so far. *)
LEMMA BatchEnds ==
    ASSUME NEW b \in Http!BatchType, NEW st \in {"sent", "broken", "ended"},
           NEW new, new = [b EXCEPT !.st = st]
    PROVE  /\ new \in Http!BatchType /\ new.members = b.members /\ new.lines = b.lines /\ new.st = st
           /\ \A j \in DOMAIN b.lines : j \in DOMAIN new.lines /\ new.lines[j] = b.lines[j]
  BY DEF Http!BatchType

(* A line of an answer. *)
LEMMA LineShape ==
    ASSUME NEW id \in Int, NEW res \in HttpCalls \cup {Nil}
    PROVE  Http!Line(id, res) \in Line /\ Http!Line(id, res).id = id /\ Http!Line(id, res).res = res
  BY Zenon DEF Http!Line, Line

(* The server puts the result of a request of the batch, or none, in a line. *)
LEMMA ContentsTyped ==
    ASSUME NEW b \in Http!BatchType, NEW res \in Http!Contents(b)
    PROVE  res \in HttpCalls \cup {Nil}
  BY BatchShape DEF Http!Contents, Http!Members

(* A batch that reads one line more. *)
LEMMA LineAppended ==
    ASSUME NEW b \in Http!BatchType, NEW line \in Line
    PROVE  LET read == Append(b.lines, line)
           IN  /\ read \in Seq(Line) /\ Len(read) = Len(b.lines) + 1
               /\ DOMAIN read = 1..(Len(b.lines) + 1) /\ read[Len(b.lines) + 1] = line
               /\ \A j \in DOMAIN b.lines : j \in DOMAIN read /\ read[j] = b.lines[j]
  <1>1. b.lines \in Seq(Line) /\ Len(b.lines) \in Nat /\ DOMAIN b.lines = 1..Len(b.lines)
    BY BatchShape
  <1>2. QED
    BY <1>1

(* A line read adds itself to those of the call it names. *)
LEMMA OwnAfterRead ==
    ASSUME NEW b \in Http!BatchType, NEW line \in Line,
           NEW new \in Http!BatchType, new.lines = Append(b.lines, line),
           new.members = b.members, NEW i
    PROVE  Http!Own(new, i) = Http!Own(b, i)
                                 \cup (IF i = Http!Place(b, line) THEN {Len(b.lines) + 1} ELSE {})
  <1>1. /\ DOMAIN new.lines = DOMAIN b.lines \cup {Len(b.lines) + 1}
        /\ new.lines[Len(b.lines) + 1] = line
        /\ \A j \in DOMAIN b.lines : new.lines[j] = b.lines[j]
    BY LineAppended, BatchShape
  <1>2. \A x : Http!Place(new, x) = Http!Place(b, x)
    BY DEF Http!Place
  <1>3. QED
    BY <1>1, <1>2 DEF Http!Own

(* The transport fails: all calls that are not set raise. *)
LEMMA BreaksKeeps ==
    ASSUME Http!HttpInv, NEW b \in batches, Http!Breaks(b)
    PROVE  Http!HttpInv'
  <1>1. PICK new : new = [b EXCEPT !.st = "broken"]
    OBVIOUS
  <1>2. /\ b.st = "sent" /\ task' = Http!Raise(Http!Members(b, Http!Unset(b)))
        /\ Http!Update(b, new) /\ UNCHANGED <<kind, waiting>>
    BY <1>1 DEF Http!Breaks
  <1>3. /\ new \in Http!BatchType /\ new.members = b.members /\ new.lines = b.lines /\ new.st = "broken"
        /\ \A j \in DOMAIN b.lines : j \in DOMAIN new.lines /\ new.lines[j] = b.lines[j]
    BY <1>1, <1>2, BatchStates, BatchEnds
  <1>4. ASSUME NEW i \in Http!Unset(b) PROVE Http!Cause(new, i)
    <2>1. CASE kind = "batch"
      BY <1>3, <2>1 DEF Http!Cause
    <2>2. CASE kind # "batch"
      <3>1. Http!UnderWay(b) /\ i \in DOMAIN b.members
        BY DEF Http!HttpInv, Http!Unset
      <3>2. Http!Own(b, i) = {}
        <4>1. CASE kind = "unordered"
          BY <1>2, <3>1, <4>1 DEF Http!UnderWay
        <4>2. CASE kind = "single"
          <5>1. b.lines = <<>>
            BY <1>2, <3>1, <4>2 DEF Http!UnderWay
          <5>2. DOMAIN b.lines = {}
            BY <5>1
          <5>3. QED
            BY <5>2 DEF Http!Own
        <4>3. QED
          BY <1>2, <2>2, <4>1, <4>2, BatchStates
      <3>3. Http!Own(new, i) = {}
        BY <1>3, <3>2 DEF Http!Own, Http!Place
      <3>4. QED
        BY <1>3, <3>3 DEF Http!Cause
    <2>3. QED
      BY <2>1, <2>2
  <1>5. QED
    BY <1>2, <1>3, <1>4, BatchFails

(* The answer to a single call. *)
LEMMA AnswerKeeps ==
    ASSUME Http!HttpInv, NEW b \in batches, Http!Answer(b)
    PROVE  Http!HttpInv'
  <1>1. PICK res \in Http!Contents(b) :
           /\ task' = IF res # Nil THEN Http!Resolve(b, <<res>>)
                      ELSE Http!Raise(Http!Members(b, {1}))
           /\ Http!Update(b, [b EXCEPT !.st = "ended", !.lines = <<Http!Line(1, res)>>])
    BY DEF Http!Answer
  <1>2. PICK new : new = [b EXCEPT !.st = "ended", !.lines = <<Http!Line(1, res)>>]
    OBVIOUS
  <1>3. b.st = "sent" /\ kind = "single" /\ UNCHANGED <<kind, waiting>> /\ Http!Update(b, new)
    BY <1>1, <1>2 DEF Http!Answer
  <1>4. res \in HttpCalls \cup {Nil} /\ b \in Http!BatchType
    BY <1>3, BatchStates, ContentsTyped
  <1>5. /\ new \in Http!BatchType /\ new.members = b.members /\ new.st = "ended"
        /\ DOMAIN new.lines = {1} /\ new.lines[1].id = 1 /\ new.lines[1].res = res
    <2> DEFINE line == Http!Line(1, res)
    <2>1. line \in Line /\ line.id = 1 /\ line.res = res
      BY <1>4, LineShape
    <2> HIDE DEF line
    <2>2. <<line>> \in Seq(Line) /\ DOMAIN <<line>> = {1} /\ <<line>>[1] = line
      BY <2>1
    <2>3. new = [b EXCEPT !.st = "ended", !.lines = <<line>>]
      BY <1>2 DEF line
    <2> DEFINE read == <<line>>
    <2>4. read \in Seq(Line) /\ DOMAIN read = {1} /\ read[1] = line
      BY <2>2
    <2>5. new = [b EXCEPT !.st = "ended", !.lines = read]
      BY <2>3
    <2> HIDE DEF read
    <2>6. new \in Http!BatchType /\ new.members = b.members /\ new.st = "ended" /\ new.lines = read
      BY <1>4, <2>4, <2>5 DEF Http!BatchType, Line
    <2>7. QED
      BY <2>1, <2>4, <2>6
  <1>6. /\ task' \in [HttpCalls -> Future]
        /\ \A c \in HttpCalls : (\A i \in DOMAIN b.members : b.members[i] # c) => task'[c] = task[c]
        /\ res # Nil => task'[b.members[1]].st = "returned" /\ task'[b.members[1]].value = res
        /\ res = Nil => task'[b.members[1]].st = "raised"
        /\ \A i \in DOMAIN b.members \ {1} : task'[b.members[i]] = task[b.members[i]]
    <2>1. {1} \in SUBSET DOMAIN b.members
      BY <1>3, BatchStates
    <2>2. CASE res # Nil
      <3> DEFINE value == <<res>>
      <3>1. DOMAIN value = {1} /\ value[1] = res /\ task' = Http!Resolve(b, value)
        BY <1>1, <2>2
      <3> HIDE DEF value
      <3>2. DOMAIN value \subseteq DOMAIN b.members /\ \A i \in DOMAIN value : value[i] \in HttpCalls \cup {Nil}
        BY <1>4, <2>1, <3>1
      <3>3. QED
        BY <2>2, <3>1, <3>2, ResolveFacts
    <2>3. CASE res = Nil
      <3>1. task' = Http!Raise(Http!Members(b, {1}))
        BY <1>1, <2>3
      <3>2. QED
        BY <2>1, <2>3, <3>1, RaiseFacts
    <2>4. QED
      BY <2>2, <2>3
  <1>7. \A i \in DOMAIN b.members : task'[b.members[i]].st \in {"sent", "returned", "raised"}
    BY <1>3, <1>6, BatchStates
  <1>8. Http!UnderWay(new)'
    BY <1>5 DEF Http!UnderWay
  <1>9. Http!Own(new, 1) = {1} /\ Http!FirstOwn(new, 1) = 1
    <2>1. Http!Own(new, 1) = {1}
      BY <1>5 DEF Http!Own, Http!Place
    <2>2. QED
      BY <1>5, <2>1, LeastOwn
  <1>10. \A i \in DOMAIN b.members : i # 1 => task'[b.members[i]].st = "sent"
    <2>1. ASSUME NEW i \in DOMAIN b.members, i # 1 PROVE task[b.members[i]].st = "sent"
      BY <1>3, BatchStates, RaisedBefore, ReturnedBefore
    <2>2. QED
      BY <1>6, <2>1
  <1>11. Http!RaisedFor(new)'
    <2>1. ASSUME NEW i \in DOMAIN new.members, task'[new.members[i]].st = "raised"
          PROVE  Http!Cause(new, i)
      <3>1. i = 1 /\ res = Nil
        BY <1>5, <1>6, <1>10, <2>1
      <3>2. QED
        BY <1>5, <1>9, <3>1 DEF Http!Cause
    <2>2. QED
      BY <1>3, <2>1, RaisedNow
  <1>12. Http!Served(new)'
    <2>1. ASSUME NEW i \in DOMAIN new.members, task'[new.members[i]].st = "returned"
          PROVE  i = 1 /\ res # Nil
      BY <1>5, <1>6, <1>10, <2>1
    <2>2. QED
      BY <1>3, <1>5, <1>6, <1>9, <2>1, ServedNow
  <1>13. QED
    BY <1>3, <1>5, <1>6, <1>7, <1>8, <1>11, <1>12, BatchMoves

(* A line of an ordered batch: a result, or the end of the batch. *)
LEMMA ReadOrderedKeeps ==
    ASSUME Http!HttpInv, NEW b \in batches, Http!ReadOrdered(b)
    PROVE  Http!HttpInv'
  <1>1. PICK res \in Http!Contents(b) :
           LET read == Append(b.lines, Http!Line(Len(b.lines) + 1, res))
           IN  /\ task' = IF res # Nil THEN task ELSE Http!Raise(Http!Members(b, Http!Unset(b)))
               /\ Http!Update(b, [b EXCEPT !.lines = read,
                                           !.st = IF res # Nil THEN "sent" ELSE "ended"])
    BY DEF Http!ReadOrdered
  <1> DEFINE st == IF res # Nil THEN "sent" ELSE "ended"
             line == Http!Line(Len(b.lines) + 1, res)
  <1>2. PICK new : new = [b EXCEPT !.lines = Append(b.lines, line), !.st = st]
    OBVIOUS
  <1>3. b.st = "sent" /\ kind = "batch" /\ UNCHANGED <<kind, waiting>> /\ Http!Update(b, new)
    BY <1>1, <1>2 DEF Http!ReadOrdered
  <1>4. /\ b \in Http!BatchType /\ Len(b.lines) \in Nat /\ DOMAIN b.lines = 1..Len(b.lines)
        /\ Len(b.members) \in Nat /\ st \in {"sent", "broken", "ended"}
        /\ res \in HttpCalls \cup {Nil}
    BY <1>3, BatchStates, BatchShape, ContentsTyped
  <1>5. line \in Line /\ line.res = res /\ line.id = Len(b.lines) + 1
    BY <1>4, LineShape
  <1> HIDE DEF line, st
  <1> DEFINE read == Append(b.lines, line)
  <1>6. /\ read \in Seq(Line) /\ Len(read) = Len(b.lines) + 1
        /\ DOMAIN read = 1..(Len(b.lines) + 1) /\ read[Len(b.lines) + 1] = line
        /\ \A j \in DOMAIN b.lines : j \in DOMAIN read /\ read[j] = b.lines[j]
    BY <1>4, <1>5, LineAppended
  <1>7. new = [b EXCEPT !.lines = read, !.st = st]
    BY <1>2
  <1> HIDE DEF read
  <1>8. /\ new \in Http!BatchType /\ new.members = b.members /\ new.st = st /\ new.lines = read
    BY <1>4, <1>6, <1>7 DEF Http!BatchType, Line
  <1>9. /\ DOMAIN new.lines = 1..(Len(b.lines) + 1) /\ Len(b.lines) + 1 \in DOMAIN new.lines
        /\ new.lines[Len(b.lines) + 1].res = res /\ new.lines[Len(b.lines) + 1].id = Len(b.lines) + 1
        /\ \A j \in DOMAIN b.lines : j \in DOMAIN new.lines /\ new.lines[j] = b.lines[j]
    BY <1>4, <1>5, <1>6, <1>8
  <1>10. CASE res # Nil
    <2>1. task' = task /\ st = "sent"
      BY <1>1, <1>10 DEF st
    <2>2. /\ Http!Unset(b) = DOMAIN b.members
          /\ \A j \in DOMAIN b.lines : b.lines[j].id = j /\ b.lines[j].res # Nil
      BY <1>3 DEF Http!HttpInv, Http!UnderWay
    <2>3. Http!Unset(new)' = DOMAIN new.members
      BY <1>8, <1>9, <2>1, <2>2 DEF Http!Unset
    <2>4. ASSUME NEW j \in DOMAIN new.lines PROVE new.lines[j].id = j /\ new.lines[j].res # Nil
      <3>1. j \in DOMAIN b.lines \/ j = Len(b.lines) + 1
        BY <1>4, <1>9
      <3>2. QED
        BY <1>9, <1>10, <2>2, <3>1
    <2>5. Http!UnderWay(new)'
      BY <1>3, <2>3, <2>4 DEF Http!UnderWay
    <2>6. QED
      BY <1>3, <1>8, <1>9, <2>1, <2>5, BatchReads
  <1>11. CASE res = Nil
    <2>1. task' = Http!Raise(Http!Members(b, Http!Unset(b))) /\ st = "ended"
      BY <1>1, <1>11 DEF st
    <2>2. \A i : Http!Cause(new, i)
      BY <1>3, <1>9, <1>11 DEF Http!Cause
    <2>3. QED
      BY <1>3, <1>8, <1>9, <2>1, <2>2, BatchFails
  <1>12. QED
    BY <1>10, <1>11

(* The end of an ordered answer: complete, too short or too long. *)
LEMMA EndOrderedKeeps ==
    ASSUME Http!HttpInv, NEW b \in batches, Http!EndOrdered(b)
    PROVE  Http!HttpInv'
  <1> DEFINE value == [i \in DOMAIN b.members |-> b.lines[i].res]
  <1>1. PICK new : new = [b EXCEPT !.st = "ended"]
    OBVIOUS
  <1>2. /\ b.st = "sent" /\ kind = "batch" /\ Http!Update(b, new) /\ UNCHANGED <<kind, waiting>>
        /\ task' = IF Http!AllLines(b) THEN Http!Resolve(b, value)
                   ELSE Http!Raise(Http!Members(b, Http!Unset(b)))
    BY <1>1 DEF Http!EndOrdered
  <1>3. /\ new \in Http!BatchType /\ new.members = b.members /\ new.lines = b.lines /\ new.st = "ended"
        /\ \A j \in DOMAIN b.lines : j \in DOMAIN new.lines /\ new.lines[j] = b.lines[j]
    BY <1>1, <1>2, BatchStates, BatchEnds
  <1>4. CASE Http!AllLines(b)
    <2>1. task' = Http!Resolve(b, value)
      BY <1>2, <1>4
    <2>2. /\ DOMAIN b.members = DOMAIN b.lines /\ DOMAIN b.lines \subseteq Nat
          /\ \A i \in DOMAIN b.lines : b.lines[i].res \in HttpCalls \cup {Nil}
      BY <1>2, <1>4, BatchStates, BatchShape DEF Http!AllLines
    <2>3. \A j \in DOMAIN b.lines : b.lines[j].id = j /\ b.lines[j].res # Nil
      BY <1>2 DEF Http!HttpInv, Http!UnderWay
    <2>4. /\ DOMAIN value = DOMAIN b.members /\ \A i \in DOMAIN value : value[i] \in HttpCalls \cup {Nil}
          /\ \A i \in DOMAIN b.members : value[i] = b.lines[i].res
      BY <2>2
    <2> HIDE DEF value
    <2>5. /\ task' \in [HttpCalls -> Future]
          /\ \A c \in HttpCalls : (\A i \in DOMAIN b.members : b.members[i] # c) => task'[c] = task[c]
          /\ \A i \in DOMAIN b.members : /\ task'[b.members[i]].st = "returned"
                                         /\ task'[b.members[i]].value = b.lines[i].res
      BY <2>1, <2>4, ResolveFacts
    <2>6. Http!UnderWay(new)'
      BY <1>3 DEF Http!UnderWay
    <2>7. Http!RaisedFor(new)'
      BY <1>2, <1>3, <2>5, RaisedNow
    <2>8. ASSUME NEW i \in DOMAIN new.members
          PROVE  Http!Own(new, i) = {i} /\ Http!FirstOwn(new, i) = i
      <3>1. \A j \in DOMAIN b.lines : Http!Place(new, b.lines[j]) = j
        BY <2>2, <2>3 DEF Http!Place
      <3>2. Http!Own(new, i) = {i}
        BY <1>3, <2>2, <3>1 DEF Http!Own
      <3>3. QED
        BY <1>3, <3>2, LeastOwn
    <2>9. Http!AllLines(new)
      BY <1>3, <1>4 DEF Http!AllLines
    <2>10. Http!Served(new)'
      <3>1. ASSUME NEW i \in DOMAIN new.members
            PROVE  /\ Http!Own(new, i) # {}
                   /\ task'[new.members[i]].value = new.lines[Http!FirstOwn(new, i)].res
                   /\ new.lines[Http!FirstOwn(new, i)].res # Nil
        <4>1. Http!Own(new, i) # {} /\ Http!FirstOwn(new, i) = i
          BY <2>8
        <4>2. i \in DOMAIN b.lines /\ task'[new.members[i]].value = b.lines[i].res
          BY <1>3, <2>2, <2>5
        <4>3. QED
          BY <1>3, <2>3, <4>1, <4>2
      <3>2. QED
        BY <1>2, <2>9, <3>1, ServedNow
    <2>11. QED
      BY <1>2, <1>3, <2>5, <2>6, <2>7, <2>10, BatchMoves
  <1>5. CASE ~Http!AllLines(b)
    <2>1. \A i : Http!Cause(new, i)
      BY <1>2, <1>3, <1>5 DEF Http!Cause, Http!AllLines
    <2>2. task' = Http!Raise(Http!Members(b, Http!Unset(b)))
      BY <1>2, <1>5
    <2>3. QED
      BY <1>2, <1>3, <2>1, <2>2, BatchFails
  <1>6. QED
    BY <1>4, <1>5

(* The end of an unordered answer, spoiled or not. *)
LEMMA EndUnorderedKeeps ==
    ASSUME Http!HttpInv, NEW b \in batches, Http!EndUnordered(b)
    PROVE  Http!HttpInv'
  <1>1. PICK new : new = [b EXCEPT !.st = "ended"]
    OBVIOUS
  <1>2. /\ b.st = "sent" /\ kind = "unordered" /\ Http!Update(b, new) /\ UNCHANGED <<kind, waiting>>
        /\ task' = IF \E i \in DOMAIN b.lines : ~Http!Names(b, b.lines[i])
                   THEN Http!Raise(Http!Members(b, Http!Unset(b))) ELSE task
    BY <1>1 DEF Http!EndUnordered
  <1>3. /\ new \in Http!BatchType /\ new.members = b.members /\ new.lines = b.lines /\ new.st = "ended"
        /\ \A j \in DOMAIN b.lines : j \in DOMAIN new.lines /\ new.lines[j] = b.lines[j]
    BY <1>1, <1>2, BatchStates, BatchEnds
  <1>4. CASE \E i \in DOMAIN b.lines : ~Http!Names(b, b.lines[i])
    <2>1. Http!Spoiled(new)
      BY <1>3, <1>4 DEF Http!Spoiled, Http!Names, Http!Place
    <2>2. ASSUME NEW i \in Http!Unset(b) PROVE Http!Cause(new, i)
      <3>1. i \in DOMAIN b.members /\ Http!UnderWay(b)
        BY DEF Http!Unset, Http!HttpInv
      <3>2. Http!Own(b, i) = {}
        BY <1>2, <3>1 DEF Http!UnderWay
      <3>3. Http!Own(new, i) = {}
        BY <1>3, <3>2 DEF Http!Own, Http!Place
      <3>4. QED
        BY <2>1, <3>3 DEF Http!Cause
    <2>3. task' = Http!Raise(Http!Members(b, Http!Unset(b)))
      BY <1>2, <1>4
    <2>4. QED
      BY <1>2, <1>3, <2>2, <2>3, BatchFails
  <1>5. CASE ~\E i \in DOMAIN b.lines : ~Http!Names(b, b.lines[i])
    <2>1. task' = task
      BY <1>2, <1>5
    <2>2. Http!UnderWay(new)'
      BY <1>3 DEF Http!UnderWay
    <2>3. QED
      BY <1>2, <1>3, <2>1, <2>2, BatchReads
  <1>6. QED
    BY <1>4, <1>5

(* A line of an unordered batch: for a future that is not set, for none, or*)
(* one that ends the batch.                                                *)
LEMMA ReadUnorderedKeeps ==
    ASSUME Http!HttpInv, NEW b \in batches, Http!ReadUnordered(b)
    PROVE  Http!HttpInv'
  <1>1. PICK id \in Http!Ids(b), res \in Http!Contents(b) :
           LET line == Http!Line(id, res)
               ends == Http!EndsStream(b, line)
           IN  /\ task' = IF ends THEN Http!Raise(Http!Members(b, Http!Unset(b)))
                          ELSE IF Http!Names(b, line) THEN Http!SetFuture(b, line) ELSE task
               /\ Http!Update(b, [b EXCEPT !.lines = Append(@, line),
                                           !.st = IF ends THEN "ended" ELSE "sent"])
    BY DEF Http!ReadUnordered
  <1> DEFINE line == Http!Line(id, res)
             ends == Http!EndsStream(b, line)
             st == IF ends THEN "ended" ELSE "sent"
             read == Append(b.lines, line)
             place == Http!Place(b, line)
  <1>2. PICK new : new = [b EXCEPT !.lines = read, !.st = st]
    OBVIOUS
  <1>3. /\ b.st = "sent" /\ kind = "unordered" /\ UNCHANGED <<kind, waiting>> /\ Http!Update(b, new)
        /\ task' = IF ends THEN Http!Raise(Http!Members(b, Http!Unset(b)))
                   ELSE IF Http!Names(b, line) THEN Http!SetFuture(b, line) ELSE task
    BY <1>1, <1>2 DEF Http!ReadUnordered
  <1>4. /\ b \in Http!BatchType /\ Len(b.lines) \in Nat /\ DOMAIN b.lines = 1..Len(b.lines)
        /\ Len(b.members) \in Nat /\ DOMAIN b.members = 1..Len(b.members)
        /\ st \in {"sent", "broken", "ended"} /\ id \in Int /\ res \in HttpCalls \cup {Nil}
    BY <1>3, BatchStates, BatchShape, ContentsTyped DEF Http!Ids
  <1>5. line \in Line /\ line.id = id /\ line.res = res
    BY <1>4, LineShape
  <1> HIDE DEF line, st
  <1>6. /\ read \in Seq(Line) /\ Len(read) = Len(b.lines) + 1
        /\ DOMAIN read = 1..(Len(b.lines) + 1) /\ read[Len(b.lines) + 1] = line
        /\ \A j \in DOMAIN b.lines : j \in DOMAIN read /\ read[j] = b.lines[j]
    BY <1>4, <1>5, LineAppended
  <1> HIDE DEF ends
  <1>7. new \in Http!BatchType /\ new.members = b.members /\ new.st = st /\ new.lines = read
    <2> HIDE DEF read
    <2>1. QED
      BY <1>2, <1>4, <1>6 DEF Http!BatchType, Line
  <1>8. \A i : Http!Own(new, i) = Http!Own(b, i) \cup (IF i = place THEN {Len(b.lines) + 1} ELSE {})
    BY <1>4, <1>5, <1>7, OwnAfterRead
  <1>9. \A x : Http!Place(new, x) = Http!Place(b, x)
    BY <1>7 DEF Http!Place
  <1> HIDE DEF read
  <1>10. Http!Names(b, line) <=> place \in DOMAIN b.members
    BY DEF Http!Names
  <1> HIDE DEF place
  <1>11. /\ \A i : i # place => Http!Own(new, i) = Http!Own(b, i)
         /\ Http!Own(new, place) = Http!Own(b, place) \cup {Len(b.lines) + 1}
         /\ \A j \in DOMAIN b.lines : j \in DOMAIN new.lines /\ new.lines[j] = b.lines[j]
         /\ Len(b.lines) + 1 \in DOMAIN new.lines /\ new.lines[Len(b.lines) + 1] = line
    <2>1. Len(b.lines) + 1 \in 1..(Len(b.lines) + 1)
      BY <1>4
    <2>2. QED
      BY <1>6, <1>7, <1>8, <2>1
  <1>12. /\ \A i \in DOMAIN b.members : i \in Http!Unset(b) <=> Http!Own(b, i) = {}
         /\ Http!Unset(b) \in SUBSET DOMAIN b.members
    BY <1>3, BatchStates DEF Http!HttpInv, Http!UnderWay
  <1>13. CASE ends
    <2>1. st = "ended" /\ task' = Http!Raise(Http!Members(b, Http!Unset(b)))
      BY <1>3, <1>13 DEF st
    <2>2. place \notin DOMAIN b.members \/ (place \in DOMAIN b.members /\ place \notin Http!Unset(b))
      BY <1>10, <1>13 DEF ends, place, Http!EndsStream, Http!OutOfRange, Http!Repeats
    <2>3. Http!Spoiled(new)
      <3>1. CASE place \notin DOMAIN b.members
        <4>1. ~Http!Names(new, new.lines[Len(b.lines) + 1])
          BY <1>7, <1>9, <1>11, <3>1 DEF Http!Names, place
        <4>2. QED
          BY <1>11, <4>1 DEF Http!Spoiled
      <3>2. CASE place \in DOMAIN b.members /\ place \notin Http!Unset(b)
        <4>1. PICK j \in DOMAIN b.lines : Http!Place(b, b.lines[j]) = place
          BY <1>12, <3>2 DEF Http!Own
        <4>2. j \in 1..((Len(b.lines) + 1) - 1)
          BY <1>4
        <4>3. Http!Place(new, new.lines[j]) = Http!Place(new, new.lines[Len(b.lines) + 1])
          BY <1>9, <1>11, <4>1 DEF place
        <4>4. QED
          BY <1>11, <4>2, <4>3 DEF Http!Spoiled
      <3>3. QED
        BY <2>2, <3>1, <3>2
    <2>4. ASSUME NEW i \in Http!Unset(b) PROVE Http!Cause(new, i)
      <3>1. i # place /\ Http!Own(b, i) = {}
        BY <1>12, <2>2
      <3>2. QED
        BY <1>11, <2>3, <3>1 DEF Http!Cause
    <2>5. QED
      BY <1>3, <1>7, <1>11, <2>1, <2>4, BatchFails
  <1>14. CASE ~ends /\ ~Http!Names(b, line)
    <2>1. task' = task
      BY <1>3, <1>14
    <2>2. \A i \in DOMAIN new.members : Http!Own(new, i) = Http!Own(b, i)
      BY <1>7, <1>10, <1>11, <1>14
    <2>3. \A i \in DOMAIN new.members : i \in Http!Unset(new)' <=> Http!Own(new, i) = {}
      BY <1>7, <1>12, <2>1, <2>2 DEF Http!Unset
    <2>4. Http!UnderWay(new)'
      BY <1>3, <2>3 DEF Http!UnderWay, Http!Own, Http!Place
    <2>5. QED
      BY <1>3, <1>7, <1>11, <2>1, <2>4, BatchReads
  <1>15. CASE ~ends /\ Http!Names(b, line)
    <2> DEFINE c == b.members[place]
    <2>1. place \in DOMAIN b.members /\ place \in Http!Unset(b) /\ Http!Own(b, place) = {}
      <3>1. place \in DOMAIN b.members /\ place \in Http!Unset(b)
        BY <1>10, <1>15 DEF ends, place, Http!EndsStream, Http!Repeats
      <3>2. QED
        BY <1>12, <3>1
    <2>2. task' = IF res # Nil THEN [task EXCEPT ![c] = [st |-> "returned", value |-> res]]
                  ELSE Http!Raise({c})
      BY <1>3, <1>5, <1>15 DEF Http!SetFuture, place
    <2>3. /\ c \in HttpCalls /\ task \in [HttpCalls -> Future]
          /\ \A i \in DOMAIN b.members : b.members[i] \in HttpCalls
          /\ \A i, j \in DOMAIN b.members : b.members[i] = b.members[j] => i = j
      BY <1>3, <2>1, BatchStates DEF Http!HttpInv, Http!BatchedOnce
    <2>4. /\ task' \in [HttpCalls -> Future]
          /\ \A d \in HttpCalls : d # c => task'[d] = task[d]
          /\ res # Nil => task'[c].st = "returned" /\ task'[c].value = res
          /\ res = Nil => task'[c].st = "raised"
      <3>1. [st |-> "returned", value |-> res] \in Future /\ [st |-> "raised", value |-> Nil] \in Future
        BY <1>4 DEF Future
      <3>2. CASE res # Nil
        BY <2>2, <2>3, <3>1, <3>2
      <3>3. CASE res = Nil
        <4>1. task' = [d \in HttpCalls |-> IF d \in {c} THEN [st |-> "raised", value |-> Nil] ELSE task[d]]
          BY <2>2, <3>3 DEF Http!Raise
        <4>2. QED
          BY <2>3, <3>1, <3>3, <4>1
      <3>4. QED
        BY <3>2, <3>3
    <2>5. \A i \in DOMAIN b.members : i # place => task'[b.members[i]] = task[b.members[i]]
      BY <2>1, <2>3, <2>4
    <2>6. \A i \in DOMAIN b.members : task'[b.members[i]].st \in {"sent", "returned", "raised"}
      <3>1. \A i \in DOMAIN b.members : task[b.members[i]].st \in {"sent", "returned", "raised"}
        BY <1>3, BatchStates
      <3>2. QED
        BY <2>4, <2>5, <3>1
    <2>7. \A i \in DOMAIN new.members : i \in Http!Unset(new)' <=> Http!Own(new, i) = {}
      <3>1. ASSUME NEW i \in DOMAIN b.members PROVE task'[b.members[i]].st = "sent" <=> Http!Own(new, i) = {}
        <4>1. CASE i = place
          BY <1>11, <2>4, <4>1
        <4>2. CASE i # place
          BY <1>11, <1>12, <2>5, <4>2 DEF Http!Unset
        <4>3. QED
          BY <4>1, <4>2
      <3>2. QED
        BY <1>7, <3>1 DEF Http!Unset
    <2>8. Http!UnderWay(new)'
      BY <1>3, <2>7 DEF Http!UnderWay, Http!Own, Http!Place
    <2>9. Http!Own(new, place) = {Len(b.lines) + 1} /\ Http!FirstOwn(new, place) = Len(b.lines) + 1
      <3>1. Http!Own(new, place) = {Len(b.lines) + 1}
        BY <1>11, <2>1
      <3>2. QED
        BY <1>7, <3>1, LeastOwn
    <2>10. Http!RaisedFor(new)'
      <3>1. ASSUME NEW i \in DOMAIN new.members, task'[new.members[i]].st = "raised"
            PROVE  Http!Cause(new, i)
        <4>1. CASE i = place
          <5>1. res = Nil
            BY <1>7, <2>4, <3>1, <4>1
          <5>2. QED
            BY <1>5, <1>11, <2>9, <4>1, <5>1 DEF Http!Cause
        <4>2. CASE i # place
          <5>1. task[b.members[i]].st = "raised"
            BY <1>7, <2>5, <3>1, <4>2
          <5>2. Http!Own(b, i) # {} /\ b.lines[Http!FirstOwn(b, i)].res = Nil
            BY <1>3, <1>7, <5>1, RaisedBefore
          <5>3. Http!Own(new, i) # {} /\ new.lines[Http!FirstOwn(new, i)] = b.lines[Http!FirstOwn(b, i)]
            BY <1>4, <1>7, <1>11, <5>2, FirstKept
          <5>4. QED
            BY <5>2, <5>3 DEF Http!Cause
        <4>3. QED
          BY <4>1, <4>2
      <3>2. QED
        BY <1>3, <3>1, RaisedNow
    <2>11. Http!Served(new)'
      <3>1. ASSUME NEW i \in DOMAIN new.members, task'[new.members[i]].st = "returned"
            PROVE  /\ Http!Own(new, i) # {}
                   /\ task'[new.members[i]].value = new.lines[Http!FirstOwn(new, i)].res
                   /\ new.lines[Http!FirstOwn(new, i)].res # Nil
        <4>1. CASE i = place
          <5>1. res # Nil /\ task'[new.members[i]].value = res
            BY <1>7, <2>4, <3>1, <4>1
          <5>2. QED
            BY <1>5, <1>11, <2>9, <4>1, <5>1
        <4>2. CASE i # place
          BY <1>3, <1>7, <1>11, <2>5, <3>1, <4>2, ServedBefore
        <4>3. QED
          BY <4>1, <4>2
      <3>2. QED
        BY <1>3, <3>1, ServedNow
    <2>12. \A d \in HttpCalls : (\A i \in DOMAIN b.members : b.members[i] # d) => task'[d] = task[d]
      BY <2>1, <2>4
    <2>13. QED
      BY <1>3, <1>7, <2>4, <2>6, <2>8, <2>10, <2>11, <2>12, BatchMoves
  <1>16. QED
    BY <1>13, <1>14, <1>15

(* Every step of the HTTP clients. *)
LEMMA HttpNext == ASSUME Http!HttpInv, Http!Next PROVE Http!HttpInv'
  <1>1. ASSUME NEW b \in batches, Http!BatchStep(b) PROVE Http!HttpInv'
    BY <1>1, AnswerKeeps, ReadOrderedKeeps, EndOrderedKeeps, ReadUnorderedKeeps, EndUnorderedKeeps
       DEF Http!BatchStep
  <1>2. QED
    BY <1>1, ExecuteKeeps, StartBatchKeeps, BreaksKeeps DEF Http!Next, Http!Progress

(* What leaves the HTTP clients alone keeps their invariant. *)
LEMMA HttpStutters ==
    ASSUME Http!HttpInv, UNCHANGED <<kind, task, waiting, batches>>
    PROVE  Http!HttpInv'
  <1>1. Http!TypeOK' /\ Http!QueuedOnce' /\ Http!BatchedOnce'
    BY DEF Http!HttpInv, Http!TypeOK, Http!QueuedOnce, Http!BatchedOnce
  <1>2. ASSUME NEW a \in batches
        PROVE  Http!Batched(a)' /\ Http!UnderWay(a)' /\ Http!Served(a)' /\ Http!RaisedFor(a)'
    BY BatchKept DEF Http!HttpInv
  <1>3. QED
    BY <1>1, <1>2 DEF Http!HttpInv

-----------------------------------------------------------------------------
(* Whichever client the url chose, its invariant holds in every state: a   *)
(* call of the gRPC client that sleeps has an attempt left, and a batch of *)
(* the HTTP clients holds each call once, unset as long as no line for it  *)
(* was read (proxy_client.py, _GRPCProxyClient.execute and the three       *)
(* _batch_execute).                                                        *)
THEOREM ClientsSafe == ClientsSpec => []ClientsInv
  <1>1. create_proxy_client => ClientsInv
    BY GrpcInit, PaidInit, HttpInit DEF create_proxy_client, ClientsInv, GrpcInv
  <1>2. ASSUME ClientsInv, [ClientsNext]_clientsVars PROVE ClientsInv'
    <2>1. GrpcInv /\ SetbacksPaid
      BY <1>2 DEF ClientsInv, GrpcInv
    <2>2. CASE OverGrpc(Next)
      <3>1. GrpcInv' /\ SetbacksPaid' /\ UNCHANGED <<kind, task, waiting, batches>>
        BY <2>1, <2>2, GrpcNext, PaidNext DEF OverGrpc
      <3>2. (kind = "grpc" /\ HttpUnused)' \/ Http!HttpInv'
        BY <1>2, <3>1, HttpStutters DEF ClientsInv, HttpUnused
      <3>3. QED
        BY <3>1, <3>2 DEF ClientsInv, GrpcInv
    <2>3. CASE OverHttp(Http!Next)
      <3>1. Http!HttpInv' /\ UNCHANGED clientVars
        BY <1>2, <2>3, HttpNext DEF OverHttp, ClientsInv
      <3>2. GrpcInv' /\ SetbacksPaid'
        BY <2>1, <3>1, GrpcStutters, PaidStutters
      <3>3. QED
        BY <3>1, <3>2 DEF ClientsInv, GrpcInv
    <2>4. CASE UNCHANGED clientsVars
      <3>1. UNCHANGED clientVars /\ UNCHANGED <<kind, task, waiting, batches>>
        BY <2>4 DEF clientsVars
      <3>2. GrpcInv' /\ SetbacksPaid'
        BY <2>1, <3>1, GrpcStutters, PaidStutters
      <3>3. (kind = "grpc" /\ HttpUnused)' \/ Http!HttpInv'
        BY <1>2, <3>1, HttpStutters DEF ClientsInv, HttpUnused
      <3>4. QED
        BY <3>2, <3>3 DEF ClientsInv, GrpcInv
    <2>5. QED
      BY <1>2, <2>2, <2>3, <2>4 DEF ClientsNext
  <1>3. QED
    BY <1>1, <1>2, PTL DEF ClientsSpec

(* The state of the clients keeps its types: no more than RetryLimit       *)
(* attempts, and a call is in the queue of the batching library exactly    *)
(* while its future waits there.                                           *)
THEOREM ClientsTyped == ClientsSpec => []ClientsTypeOK
  <1>1. ClientsInv => ClientsTypeOK
    BY DEF ClientsInv, ClientsTypeOK, Http!HttpInv
  <1>2. QED
    BY <1>1, ClientsSafe, PTL

(* A healthy call of the gRPC client raises only for a failure outside the *)
(* client, or when the other calls reconnected as often as it has attempts *)
(* (proxy_client.py, _reconnect under the calls that share the channel).   *)
THEOREM HealthySurvives == ClientsSpec => []HealthyCallSurvives
  <1>1. ClientsInv => HealthyCallSurvives
    BY PaidSurvives DEF ClientsInv, GrpcInv
  <1>2. QED
    BY <1>1, ClientsSafe, PTL

(* A call over HTTP returns what the first line that stands for it carries *)
(* (by its position, or by its id, counted from the end if negative), an   *)
(* ordered call only if the answer had as many lines as the batch calls;   *)
(* for any number of calls and batches and any order, loss, repetition,    *)
(* excess or misnumbering of the lines (proxy_client.py, _batch_execute of *)
(* the two batching clients).                                              *)
THEOREM OwnAnswerOnly == ClientsSpec => []OwnAnswer
  <1>1. ClientsInv => OwnAnswer
    BY DEF ClientsInv, HttpUnused, Http!HttpInv, OwnAnswer, Http!OwnAnswer
  <1>2. QED
    BY <1>1, ClientsSafe, PTL

(* A call over HTTP raises only for an error line of its own, for the      *)
(* transport, or for what spoils its whole batch: an ordered answer with   *)
(* an error, too short or too long, an unordered one with an id that is    *)
(* unusable, out of range at either end or named twice; and an unordered   *)
(* call never after a result of its own was read first (proxy_client.py,   *)
(* the same functions).                                                    *)
THEOREM FailuresCaused == ClientsSpec => []FailureHasCause
  <1>1. ClientsInv => FailureHasCause
    BY DEF ClientsInv, Http!HttpInv, FailureHasCause, Http!FailureHasCause
  <1>2. QED
    BY <1>1, ClientsSafe, PTL
=============================================================================
