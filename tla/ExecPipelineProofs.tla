-------------------------- MODULE ExecPipelineProofs --------------------------
(***************************************************************************)
(* Remote execution keeps its promises for every number of calls, attempts *)
(* and workers and every exit code: proofs of the invariants that the runs *)
(* of MCExecPipeline check on small instances, and of the refinement of    *)
(* ExecService.  The lemmas about the workers and about the store are those*)
(* of their own proof modules, instantiated.                               *)
(***************************************************************************)
EXTENDS ExecPipeline, TLAPS

WorkP == INSTANCE EnvletProofs WITH
    Jobs <- Reqs, KindOf <- [r \in Reqs |-> JobKind[r[1]]], MaxPushes <- 0

StoreP == INSTANCE ResponseStoreProofs WITH
    Ids <- Reqs, Handles <- Reqs, IdOf <- [p \in Responses |-> p.id]

(* The constants of the whole satisfy what the parts assume of theirs. *)
LEMMA WorkAssumed == WorkP!EnvletAssumption
  <1>1. MaxFaults \in Nat /\ IsFiniteSet(Envlets) /\ ExitCodes \subseteq Int
    BY PipelineAssumption
  <1>2. [r \in Reqs |-> JobKind[r[1]]] \in [Reqs -> WorkP!Kinds]
    BY PipelineAssumption DEF Reqs, Client!Reqs, Work!Kinds, WorkP!Kinds
  <1>3. Nil \notin ExitCodes \cup Reqs \cup WorkP!Outcome
    BY PipelineAssumption DEF Work!Outcome, WorkP!Outcome
  <1>4. QED
    BY <1>1, <1>2, <1>3 DEF WorkP!EnvletAssumption, WorkP!IsFiniteSet, IsFiniteSet

(* The constants given to the store satisfy its assumption. *)
LEMMA StoreAssumed == StoreP!StoreAssumption
  <1>1. TTL \in Nat /\ Minute \in Nat \ {0} /\ MaxTime \in Nat \ {0}
    BY PipelineAssumption
  <1>2. [p \in Responses |-> p.id] \in [Responses -> Reqs]
    BY DEF Responses
  <1>3. Nil \notin Reqs \cup Responses \cup Reqs
    BY PipelineAssumption
  <1>4. Nil \notin StoreP!Entry
    BY PipelineAssumption DEF Store!Entry, StoreP!Entry
  <1>5. QED
    BY <1>1, <1>2, <1>3, <1>4 DEF StoreP!StoreAssumption

-----------------------------------------------------------------------------
(* The lemmas about the parts, for the part of the pipeline. *)
LEMMA WorkSame == Work!WorkInv <=> WorkP!WorkInv
  <1>1. Work!TypeOK <=> WorkP!TypeOK
    BY DEF Work!TypeOK, WorkP!TypeOK, Work!Worker, WorkP!Worker, Work!Outcome, WorkP!Outcome
  <1>2. Work!JobInHand <=> WorkP!JobInHand
    BY DEF Work!JobInHand, WorkP!JobInHand
  <1>3. Work!JobsConserved <=> WorkP!JobsConserved
    BY DEF Work!JobsConserved, WorkP!JobsConserved, Work!Copies, WorkP!Copies,
           Work!Holders, WorkP!Holders, Work!Cardinality, WorkP!Cardinality
  <1>4. Work!RunsLeft <=> WorkP!RunsLeft
    BY DEF Work!RunsLeft, WorkP!RunsLeft, Work!Copies, WorkP!Copies,
           Work!Running, WorkP!Running, Work!Cardinality, WorkP!Cardinality
  <1>5. Work!ErrorOrResult <=> WorkP!ErrorOrResult
    BY DEF Work!ErrorOrResult, WorkP!ErrorOrResult
  <1>6. QED
    BY <1>1, <1>2, <1>3, <1>4, <1>5 DEF Work!WorkInv, WorkP!WorkInv

(* The workers start in their invariant. *)
LEMMA WorkInits == Work!Init => Work!WorkInv
  <1>1. Work!Init => WorkP!Init
    BY DEF Work!Init, WorkP!Init, Work!Fresh, WorkP!Fresh
  <1>2. QED
    BY <1>1, WorkAssumed, WorkSame, WorkP!WorkInit

(* What leaves the workers alone keeps their invariant. *)
LEMMA WorkKept == ASSUME Work!WorkInv, UNCHANGED <<workVars, faults>> PROVE Work!WorkInv'
  <1>1. WorkP!WorkInv
    BY WorkSame
  <1>2. UNCHANGED WorkP!envletVars
    BY DEF WorkP!envletVars, workVars
  <1>3. WorkP!WorkInv'
    BY <1>1, <1>2, WorkAssumed, WorkP!WorkStutters
  <1>4. QED
    BY <1>3, WorkSame, PTL

(* A failure of another part is counted and does not touch the workers. *)
LEMMA WorkFaultsKept ==
    ASSUME Work!WorkInv, UNCHANGED workVars, faults' \in 0..MaxFaults PROVE Work!WorkInv'
  <1>1. /\ Work!TypeOK' /\ Work!JobInHand' /\ Work!ErrorOrResult'
    BY DEF Work!WorkInv, Work!TypeOK, Work!JobInHand, Work!ErrorOrResult, workVars
  <1>2. Work!JobsConserved' /\ Work!RunsLeft'
    BY DEF Work!WorkInv, Work!JobsConserved, Work!RunsLeft, Work!Copies, Work!Holders,
           Work!Running, workVars
  <1>3. QED
    BY <1>1, <1>2 DEF Work!WorkInv

(* A worker between two callbacks neither pushes nor reports. *)
LEMMA WorkSteps ==
    ASSUME Work!WorkInv, NEW e \in Envlets, Work!Work(e)
    PROVE  /\ Work!WorkInv'
           /\ \A r \in Reqs : /\ tally'[r].pushed = tally[r].pushed
                              /\ tally'[r].reported = tally[r].reported
                              /\ produced[r] \subseteq produced'[r]
  <1>1. WorkP!WorkInv
    BY WorkSame
  <1>2. WorkP!Work(e)
    BY DEF Work!Work, WorkP!Work, Work!LoopTop, WorkP!LoopTop, Work!Blpop, WorkP!Blpop, Work!Fetch, WorkP!Fetch,
           Work!FetchCancelled, WorkP!FetchCancelled, Work!FetchError, WorkP!FetchError,
           Work!Execute, WorkP!Execute, Work!ExecuteFails, WorkP!ExecuteFails,
           Work!Executed, WorkP!Executed, Work!Outcomes, WorkP!Outcomes,
           Work!Sigterm, WorkP!Sigterm, Work!CancelFetch, WorkP!CancelFetch,
           Work!Crash, WorkP!Crash, Work!Restart, WorkP!Restart,
           Work!Fresh, WorkP!Fresh, Work!Alive, WorkP!Alive, Work!Fault, WorkP!Fault
  <1>3. WorkP!WorkInv'
    BY <1>1, <1>2, WorkAssumed, WorkP!WorkStep
  <1>4. Work!WorkInv'
    BY <1>3, WorkSame, PTL
  <1>5. QED
    BY <1>1, <1>2, <1>4, WorkAssumed, WorkP!WorkBooks

(* A worker holds only jobs that were pushed. *)
LEMMA Holding ==
    ASSUME Work!WorkInv, NEW e \in Envlets, env[e].pc \in {"execute", "report"}
    PROVE  env[e].job \in Reqs /\ tally[env[e].job].pushed > 0
  BY WorkSame, WorkAssumed, WorkP!HeldIsPushed

(* A report is booked for the job in hand only. *)
LEMMA Reporting ==
    ASSUME Work!WorkInv, NEW e \in Envlets, faults' \in 0..MaxFaults,
           Work!Report(e) \/ Work!ReportFails(e)
    PROVE  /\ Work!WorkInv'
           /\ \A r \in Reqs : /\ tally'[r].pushed = tally[r].pushed
                              /\ (r # env[e].job \/ Work!ReportFails(e))
                                    => tally'[r].reported = tally[r].reported
  <1>1. WorkP!WorkInv
    BY WorkSame
  <1>2. /\ Work!Report(e) => WorkP!Report(e)
        /\ Work!ReportFails(e) => WorkP!ReportFails(e)
    BY DEF Work!Report, WorkP!Report, Work!ReportFails, WorkP!ReportFails
  <1>3. WorkP!WorkInv'
    BY <1>1, <1>2, WorkAssumed, WorkP!ReportInv
  <1>4. Work!WorkInv'
    BY <1>3, WorkSame, PTL
  <1>5. QED
    BY <1>1, <1>2, <1>4, WorkAssumed, WorkP!ReportBooks

(* A push is booked for the job pushed only. *)
LEMMA Pushing ==
    ASSUME Work!WorkInv, NEW k \in Reqs, NEW n \in Nat, Work!Push(k, n),
           UNCHANGED <<env, produced>>, faults' \in 0..MaxFaults
    PROVE  /\ Work!WorkInv'
           /\ \A r \in Reqs : /\ tally'[r].reported = tally[r].reported
                              /\ r # k => tally'[r].pushed = tally[r].pushed
           /\ n > 0 => tally'[k].pushed > 0
  <1>1. WorkP!WorkInv
    BY WorkSame
  <1>2. WorkP!Push(k, n)
    BY DEF Work!Push, WorkP!Push
  <1>3. WorkP!WorkInv'
    BY <1>1, <1>2, WorkAssumed, WorkP!PushInv
  <1>4. Work!WorkInv'
    BY <1>3, WorkSame, PTL
  <1>5. QED
    BY <1>1, <1>2, <1>4, WorkAssumed, WorkP!PushBooks

(* Copies and holders of a job are numbers. *)
LEMMA Counted ==
    ASSUME Work!WorkInv, NEW r \in Reqs
    PROVE  Work!Copies(r) \in Nat /\ Work!Holders(r) \in Nat
  <1>1. WorkP!TypeOK
    BY WorkSame DEF WorkP!WorkInv
  <1>2. WorkP!Copies(r) \in Nat /\ WorkP!Holders(r) \in Nat
    BY <1>1, WorkAssumed, WorkP!CopiesType, WorkP!WorkersCounted
  <1>3. Work!Copies(r) = WorkP!Copies(r) /\ Work!Holders(r) = WorkP!Holders(r)
    BY DEF Work!Copies, WorkP!Copies, Work!Holders, WorkP!Holders,
           Work!Cardinality, WorkP!Cardinality
  <1>4. QED
    BY <1>2, <1>3

(* A run ends with an outcome of those the job has. *)
LEMMA RunOutcome ==
    ASSUME Work!WorkInv, NEW e \in Envlets, Work!Execute(e) \/ Work!ExecuteFails(e)
    PROVE  \E out \in Work!Outcome : Work!Executed(e, out)
  <1>1. CASE Work!Execute(e)
    <2>1. PICK out \in Work!Outcomes(JobKind[env[e].job[1]]) : Work!Executed(e, out)
      <3>1. env[e].job \in Reqs
        BY <1>1, Holding DEF Work!Execute
      <3>2. QED
        BY <1>1, <3>1 DEF Work!Execute
    <2>2. JobKind[env[e].job[1]] \in Work!Kinds
      <3>1. env[e].job \in Reqs
        BY <1>1, Holding DEF Work!Execute
      <3>2. QED
        BY <3>1, PipelineAssumption DEF Reqs, Client!Reqs
    <2>3. out \in Work!Outcome
      <3>1. /\ Work!Outcomes(JobKind[env[e].job[1]]) = WorkP!Outcomes(JobKind[env[e].job[1]])
            /\ Work!Outcome = WorkP!Outcome /\ Work!Kinds = WorkP!Kinds
        BY DEF Work!Outcomes, WorkP!Outcomes, Work!Outcome, WorkP!Outcome, Work!Kinds, WorkP!Kinds
      <3>2. QED
        BY <2>1, <2>2, <3>1, WorkAssumed, WorkP!OutcomesTyped
    <2>4. QED
      BY <2>1, <2>3
  <1>2. CASE Work!ExecuteFails(e)
    BY <1>2 DEF Work!ExecuteFails, Work!Outcome
  <1>3. QED
    BY <1>1, <1>2

(* The invariant of the store is that of its proof module. *)
LEMMA StoreSame == Store!StoreInv <=> StoreP!StoreInv
  <1>1. Store!TypeOK <=> StoreP!TypeOK
    BY DEF Store!TypeOK, StoreP!TypeOK, Store!Entry, StoreP!Entry, Store!WaiterState, StoreP!WaiterState
  <1>2. Store!EntryShape <=> StoreP!EntryShape
    BY DEF Store!EntryShape, StoreP!EntryShape
  <1>3. Store!DeliverNeverDrops <=> StoreP!DeliverNeverDrops
    BY DEF Store!DeliverNeverDrops, StoreP!DeliverNeverDrops, Store!Registered, StoreP!Registered
  <1>4. Store!WaiterNotLost <=> StoreP!WaiterNotLost
    BY DEF Store!WaiterNotLost, StoreP!WaiterNotLost, Store!Registered, StoreP!Registered
  <1>5. Store!NoCrossTalk <=> StoreP!NoCrossTalk
    BY DEF Store!NoCrossTalk, StoreP!NoCrossTalk
  <1>6. Store!WaiterKnowsId <=> StoreP!WaiterKnowsId
    BY DEF Store!WaiterKnowsId, StoreP!WaiterKnowsId
  <1>7. Store!SweepClock <=> StoreP!SweepClock
    BY DEF Store!SweepClock, StoreP!SweepClock
  <1>8. QED
    BY <1>1, <1>2, <1>3, <1>4, <1>5, <1>6, <1>7 DEF Store!StoreInv, StoreP!StoreInv

(* The store starts in its invariant. *)
LEMMA StoreInits == Store!Init => Store!StoreInv
  <1>1. Store!Init => StoreP!Init
    BY DEF Store!Init, StoreP!Init, Store!CleanupInterval, StoreP!CleanupInterval
  <1>2. QED
    BY <1>1, StoreAssumed, StoreSame, StoreP!StoreInit

(* What leaves the store alone keeps its invariant. *)
LEMMA StoreKept == ASSUME Store!StoreInv, UNCHANGED storeVars PROVE Store!StoreInv'
  <1>1. StoreP!StoreInv
    BY StoreSame
  <1>2. UNCHANGED StoreP!storeVars
    BY DEF StoreP!storeVars, storeVars, storeTime
  <1>3. StoreP!StoreInv'
    BY <1>1, <1>2, StoreAssumed, StoreP!ClockStepInv
  <1>4. QED
    BY <1>3, StoreSame, PTL

(* The handlers call the store as its proof allows. *)
LEMMA WaiterOps ==
    ASSUME Store!StoreInv, NEW r \in Reqs,
           \/ Store!Waiter(r, r) \/ Store!WaitReceive(r)
           \/ Store!WaitCancelled(r) \/ Store!CloseWaiter(r)
    PROVE  Store!StoreInv'
  <1>1. StoreP!StoreInv
    BY StoreSame
  <1>2. \/ StoreP!WaiterRefused(r, r) \/ StoreP!WaiterReady(r, r) \/ StoreP!WaiterRegister(r, r)
        \/ StoreP!WaitReceive(r) \/ StoreP!WaitCancelled(r) \/ StoreP!CloseWaiter(r)
    BY DEF Store!Waiter, Store!WaiterRefused, StoreP!WaiterRefused, Store!WaiterReady, StoreP!WaiterReady,
           Store!WaiterRegister, StoreP!WaiterRegister, Store!EntryOf, StoreP!EntryOf,
           Store!WaitReceive, StoreP!WaitReceive, Store!WaitCancelled, StoreP!WaitCancelled,
           Store!CloseWaiter, StoreP!CloseWaiter, Store!release, StoreP!release,
           Store!cleanupVars, StoreP!cleanupVars
  <1>3. StoreP!StoreInv'
    BY <1>1, <1>2, StoreAssumed, StoreP!WaiterRefusedInv, StoreP!WaiterReadyInv,
       StoreP!WaiterRegisterInv, StoreP!WaitReceiveInv, StoreP!WaitCancelledInv, StoreP!CloseWaiterInv
  <1>4. QED
    BY <1>3, StoreSame, PTL

(* A delivery keeps the invariant of the store. *)
LEMMA Delivering ==
    ASSUME Store!StoreInv, NEW p \in Responses, Store!Deliver(p.id, p)
    PROVE  Store!StoreInv'
  <1>1. StoreP!StoreInv /\ p.id \in Reqs /\ [q \in Responses |-> q.id][p] = p.id
    BY StoreSame DEF Responses
  <1>2. StoreP!DeliverToWaiter(p.id, p) \/ StoreP!DeliverToStore(p.id, p)
    BY DEF Store!Deliver, Store!DeliverToWaiter, StoreP!DeliverToWaiter,
           Store!DeliverToStore, StoreP!DeliverToStore, Store!EntryOf, StoreP!EntryOf,
           Store!cleanupVars, StoreP!cleanupVars
  <1>3. StoreP!StoreInv'
    BY <1>1, <1>2, StoreAssumed, StoreP!DeliverToWaiterInv, StoreP!DeliverToStoreInv
  <1>4. QED
    BY <1>3, StoreSame, PTL

(* The cleanup keeps the invariant of the store. *)
LEMMA Sweeping ==
    ASSUME Store!StoreInv, Store!CleanupTick \/ Store!CleanupSweep \/ Store!Advance
    PROVE  Store!StoreInv'
  <1>1. StoreP!StoreInv
    BY StoreSame
  <1>2. StoreP!CleanupTick \/ StoreP!CleanupSweep \/ StoreP!Advance
    BY DEF Store!CleanupTick, StoreP!CleanupTick, Store!CleanupInterval, StoreP!CleanupInterval,
           Store!CleanupSweep, StoreP!CleanupSweep, Store!Swept, StoreP!Swept,
           Store!Advance, StoreP!Advance
  <1>3. StoreP!StoreInv'
    BY <1>1, <1>2, StoreAssumed, StoreP!ClockStepInv, StoreP!CleanupSweepInv
  <1>4. QED
    BY <1>3, StoreSame, PTL

(* The store is swept at a positive interval. *)
LEMMA IntervalPositive == Store!CleanupInterval \in Nat \ {0}
  BY StoreAssumed, StoreP!IntervalType DEF Store!CleanupInterval, StoreP!CleanupInterval

-----------------------------------------------------------------------------
(* The client's steps keep its types, use its requests in order, and only  *)
(* Send puts a request to use.                                             *)
LEMMA Sending ==
    ASSUME Client!TypeOK, AttemptsInOrder, NEW c \in Calls, NEW up \in BOOLEAN, Client!Send(c, up)
    PROVE  /\ Client!TypeOK' /\ AttemptsInOrder' /\ UNCHANGED <<reply, faults>>
           /\ <<c, calls[c].attempt + 1>> \in Reqs
           /\ stream[<<c, calls[c].attempt + 1>>] = "unused"
           /\ stream'[<<c, calls[c].attempt + 1>>] # "unused"
           /\ \A r \in Reqs : r # <<c, calls[c].attempt + 1>> => stream'[r] = stream[r]
  <1> DEFINE n == calls[c].attempt + 1
  <1>1. calls[c].attempt \in 0..RetryLimit /\ RetryLimit \in Nat \ {0}
    BY PipelineAssumption DEF Client!TypeOK
  <1>2. n \in 1..RetryLimit
    BY <1>1 DEF Client!Send, AttemptsInOrder
  <1>3. <<c, n>> \in Reqs
    BY <1>2 DEF Reqs, Client!Reqs
  <1>4. stream[<<c, n>>] = "unused"
    BY <1>1, <1>2 DEF AttemptsInOrder
  <1>5. /\ calls' \in [Calls -> [st : {"idle", "calling", "sleeping", "returned", "raised"},
                                 attempt : 0..RetryLimit, value : Values \cup {Nil}]]
        /\ calls'[c].st = "calling" /\ calls'[c].attempt = n
        /\ \A d \in Calls \ {c} : calls'[d] = calls[d]
    BY <1>1, <1>2 DEF Client!Send, Client!TypeOK
  <1>6. /\ stream' \in [Reqs -> {"unused", "open", "broken", "done"}]
        /\ stream'[<<c, n>>] # "unused"
        /\ \A r \in Reqs : r # <<c, n>> => stream'[r] = stream[r]
    BY <1>3 DEF Client!Send, Client!TypeOK, Reqs
  <1>7. UNCHANGED <<reply, faults>>
    BY DEF Client!Send
  <1>8. Client!TypeOK'
    BY <1>5, <1>6, <1>7 DEF Client!TypeOK, Reqs
  <1>9. AttemptsInOrder'
    <2> SUFFICES ASSUME NEW d \in Calls
                 PROVE  /\ calls'[d].st = "idle" <=> calls'[d].attempt = 0
                        /\ calls'[d].st = "sleeping" => calls'[d].attempt < RetryLimit
                        /\ \A m \in 1..RetryLimit :
                              stream'[<<d, m>>] = "unused" <=> m > calls'[d].attempt
      BY DEF AttemptsInOrder
    <2>1. \A m \in 1..RetryLimit : <<d, m>> \in Reqs
      BY DEF Reqs, Client!Reqs
    <2>2. CASE d = c
      <3>1. \A m \in 1..RetryLimit : m # n => stream'[<<c, m>>] = stream[<<c, m>>]
        BY <1>6, <2>1, <2>2
      <3>2. \A m \in 1..RetryLimit : stream[<<c, m>>] = "unused" <=> m > calls[c].attempt
        BY DEF AttemptsInOrder
      <3>3. QED
        BY <1>1, <1>2, <1>5, <1>6, <2>2, <3>1, <3>2
    <2>3. CASE d # c
      BY <1>5, <1>6, <2>1, <2>3 DEF AttemptsInOrder
    <2>4. QED
      BY <2>2, <2>3
  <1>10. QED
    BY <1>3, <1>4, <1>6, <1>7, <1>8, <1>9

(* A step of the client that starts no attempt keeps their order. *)
LEMMA StreamsKept ==
    ASSUME Client!TypeOK, AttemptsInOrder, faults' \in 0..MaxFaults,
           calls' \in [Calls -> [st : {"idle", "calling", "sleeping", "returned", "raised"},
                                 attempt : 0..RetryLimit, value : Values \cup {Nil}]],
           \A c \in Calls : /\ calls'[c].attempt = calls[c].attempt
                            /\ calls'[c].st = "idle" <=> calls[c].st = "idle"
                            /\ calls'[c].st = "sleeping" => calls'[c].attempt < RetryLimit,
           stream' \in [Reqs -> {"unused", "open", "broken", "done"}],
           \A r \in Reqs : stream'[r] = "unused" <=> stream[r] = "unused",
           reply' \in [Reqs -> Values \cup {Nil, Error}]
    PROVE  Client!TypeOK' /\ AttemptsInOrder'
  <1>1. Client!TypeOK'
    BY DEF Client!TypeOK, Reqs
  <1>2. \A c \in Calls : \A n \in 1..RetryLimit : <<c, n>> \in Reqs
    BY DEF Reqs, Client!Reqs
  <1>3. QED
    BY <1>1, <1>2 DEF AttemptsInOrder

(* Closing the channel breaks open streams and touches no other. *)
LEMMA TerminatedType ==
    ASSUME Client!TypeOK, NEW S
    PROVE  /\ Client!Terminated(S) \in [Reqs -> {"unused", "open", "broken", "done"}]
           /\ \A r \in Reqs : Client!Terminated(S)[r] = "unused" <=> stream[r] = "unused"
  BY DEF Client!TypeOK, Client!Terminated, Reqs

(* A call that returns, gives up or retries starts no attempt. *)
LEMMA ClientSteps ==
    ASSUME Client!TypeOK, AttemptsInOrder, NEW c \in Calls, Client!ClientStep(c)
    PROVE  /\ Client!TypeOK' /\ AttemptsInOrder' /\ UNCHANGED <<reply, faults>>
           /\ \A r \in Reqs : stream'[r] = "unused" <=> stream[r] = "unused"
  <1> DEFINE r0 == Client!Current(c)
             Streams == [Reqs -> {"unused", "open", "broken", "done"}]
  <1>1. UNCHANGED <<reply, faults>> /\ calls[c].st = "calling"
    BY DEF Client!ClientStep, Client!Succeed, Client!GiveUp, Client!Retry, Client!Failing
  <1>2. r0 \in Reqs /\ stream[r0] # "unused"
    <2>1. calls[c].attempt \in 0..RetryLimit /\ calls[c].attempt # 0
      BY <1>1 DEF Client!TypeOK, AttemptsInOrder
    <2>2. RetryLimit \in Nat
      BY PipelineAssumption
    <2>3. calls[c].attempt \in 1..RetryLimit /\ ~(calls[c].attempt > calls[c].attempt)
      BY <2>1, <2>2
    <2>4. QED
      BY <2>3 DEF Client!Current, Reqs, Client!Reqs, AttemptsInOrder
  <1>3. /\ calls' \in [Calls -> [st : {"idle", "calling", "sleeping", "returned", "raised"},
                                 attempt : 0..RetryLimit, value : Values \cup {Nil}]]
        /\ \A d \in Calls : /\ calls'[d].attempt = calls[d].attempt
                            /\ calls'[d].st = "idle" <=> calls[d].st = "idle"
                            /\ calls'[d].st = "sleeping" => calls'[d].attempt < RetryLimit
    <2>1. CASE Client!Succeed(c)
      BY <1>1, <2>1 DEF Client!Succeed, Client!TypeOK, AttemptsInOrder
    <2>2. CASE Client!GiveUp(c)
      BY <1>1, <2>2 DEF Client!GiveUp, Client!TypeOK, AttemptsInOrder
    <2>3. CASE Client!Retry(c)
      <3>1. calls[c].attempt < RetryLimit
        BY <2>3, PipelineAssumption DEF Client!Retry, Client!LastAttempt, Client!TypeOK
      <3>2. QED
        BY <1>1, <2>3, <3>1 DEF Client!Retry, Client!TypeOK, AttemptsInOrder
    <2>4. QED
      BY <2>1, <2>2, <2>3 DEF Client!ClientStep
  <1>4. /\ stream' \in Streams
        /\ \A r \in Reqs : stream'[r] = "unused" <=> stream[r] = "unused"
    <2> DEFINE T == Client!Terminated(Calls \ {c})
    <2>1. stream \in Streams /\ T \in Streams
          /\ \A r \in Reqs : T[r] = "unused" <=> stream[r] = "unused"
      BY TerminatedType DEF Client!TypeOK, Reqs
    <2>2. stream' = [stream EXCEPT ![r0] = "done"] \/ stream' = [T EXCEPT ![r0] = "done"]
      BY DEF Client!ClientStep, Client!Succeed, Client!GiveUp, Client!Retry
    <2> HIDE DEF T, r0
    <2>3. QED
      BY <1>2, <2>1, <2>2
  <1>5. reply' \in [Reqs -> Values \cup {Nil, Error}] /\ faults' \in 0..MaxFaults
    BY <1>1 DEF Client!TypeOK, Reqs
  <1>6. QED
    BY <1>1, <1>3, <1>4, <1>5, StreamsKept

-----------------------------------------------------------------------------
(* A request nothing happens to stays as it was, while others run jobs. *)
LEMMA RequestKept ==
    ASSUME NEW r \in Reqs, RequestInv(r),
           handler'[r] = handler[r], waiters'[r] = waiters[r], reply'[r] = reply[r],
           entries'[r] = entries[r] \/ entries'[r] = Nil,
           tally'[r].pushed = tally[r].pushed, tally'[r].reported = tally[r].reported,
           stream'[r] = "unused" => stream[r] = "unused",
           \A q \in Reqs : produced[q] \subseteq produced'[q]
    PROVE  RequestInv(r)'
  <1>1. Answered(r)' <=> Answered(r)
    BY DEF Answered
  <1>2. \A p \in Responses : Real(p) => Real(p)'
    BY DEF Real, Responses
  <1>3. ASSUME NEW p \in Responses, \/ p \in {waiters'[r].buf, waiters'[r].got}
                                    \/ entries'[r] # Nil /\ entries'[r].resp = p
        PROVE  Real(p)'
    BY <1>2, <1>3 DEF RequestInv
  <1>4. reply'[r] \in Values => \E o \in produced'[r] : ~o.err /\ reply'[r] = ToWire(o.res)
    BY DEF RequestInv
  <1>5. entries'[r] # Nil => entries'[r].resp = Nil \/ Answered(r)'
    BY <1>1 DEF RequestInv
  <1>6. tally'[r].reported > 0 => Answered(r)'
    BY <1>1 DEF RequestInv
  <1>7. /\ stream'[r] = "unused" => handler'[r] = "none"
        /\ handler'[r] = "none" => waiters'[r].st = "free"
        /\ handler'[r] \in {"none", "enqueue"} => tally'[r].pushed = 0
        /\ handler'[r] \in {"enqueue", "wait"} => waiters'[r].st = "open"
        /\ handler'[r] = "wait" => tally'[r].pushed > 0
        /\ waiters'[r].st # "free" => waiters'[r].id = r
        /\ waiters'[r].st = "received" => waiters'[r].got # Nil
    BY DEF RequestInv
  <1>8. QED
    BY <1>3, <1>4, <1>5, <1>6, <1>7 DEF RequestInv

Places == {"none", "enqueue", "wait", "close", "gone"}

(* What a step of one handler has to show. *)
LEMMA HandlerStep ==
    ASSUME PipelineInv, NEW r \in Reqs, NEW x \in Places, handler' = [handler EXCEPT ![r] = x],
           UNCHANGED <<calls, stream, proxyUp, produced>>,
           \A q \in Reqs \ {r} : /\ waiters'[q] = waiters[q] /\ entries'[q] = entries[q]
                                 /\ reply'[q] = reply[q]
                                 /\ tally'[q].pushed = tally[q].pushed
                                 /\ tally'[q].reported = tally[q].reported,
           reply' \in [Reqs -> Values \cup {Nil, Error}],
           Work!WorkInv', Store!StoreInv', RequestInv(r)'
    PROVE  PipelineInv'
  <1>1. handler \in [Reqs -> Places] /\ Client!TypeOK /\ AttemptsInOrder
    BY DEF PipelineInv, TypeOK, Places
  <1>2. faults' \in 0..MaxFaults
    BY DEF Work!WorkInv, Work!TypeOK
  <1>3. Client!TypeOK' /\ AttemptsInOrder'
    BY <1>1, <1>2 DEF Client!TypeOK, Reqs, AttemptsInOrder
  <1>4. proxyUp' \in BOOLEAN
    BY Zenon DEF PipelineInv, TypeOK
  <1>5. handler' \in [Reqs -> Places]
    BY <1>1
  <1>6. TypeOK'
    BY <1>3, <1>4, <1>5 DEF TypeOK, Places, Work!WorkInv
  <1>7. ASSUME NEW q \in Reqs PROVE RequestInv(q)'
    <2>1. CASE q # r
      <3>1. handler'[q] = handler[q] /\ RequestInv(q)
        BY <1>1, <2>1 DEF PipelineInv
      <3>2. QED
        BY <2>1, <3>1, RequestKept
    <2>2. QED
      BY <2>1
  <1>8. QED
    BY <1>3, <1>6, <1>7 DEF PipelineInv

(* What Respond does to the replies. *)
LEMMA Responding ==
    ASSUME Client!TypeOK, NEW r \in Reqs, NEW v \in Values \cup {Error}, Respond(r, v)
    PROVE  /\ reply' \in [Reqs -> Values \cup {Nil, Error}]
           /\ \A q \in Reqs \ {r} : reply'[q] = reply[q]
           /\ reply'[r] = reply[r] \/ reply'[r] = v
  <1>1. reply \in [Reqs -> Values \cup {Nil, Error}]
    BY DEF Client!TypeOK, Reqs
  <1>2. QED
    BY <1>1 DEF Respond

(* What the operations of a request's own waiter do to the store. *)
LEMMA OwnWaiter ==
    ASSUME PipelineInv, NEW r \in Reqs,
           \/ Store!Waiter(r, r) \/ Store!WaitReceive(r)
           \/ Store!WaitCancelled(r) \/ Store!CloseWaiter(r)
    PROVE  /\ Store!StoreInv'
           /\ \A q \in Reqs \ {r} : waiters'[q] = waiters[q] /\ entries'[q] = entries[q]
           /\ waiters'[r].id = r /\ waiters'[r].st # "free"
           /\ entries'[r] # Nil => entries'[r].resp = Nil \/ entries'[r] = entries[r]
  <1>1. Store!StoreInv /\ Store!StoreInv'
    BY WaiterOps DEF PipelineInv
  <1>2. waiters[r].st # "free" => waiters[r].id = r
    BY DEF PipelineInv, RequestInv
  <1>3. /\ entries \in [Reqs -> Store!Entry \cup {Nil}]
        /\ waiters \in [Reqs -> [st : Store!WaiterState, id : Reqs \cup {Nil},
                                 buf : Responses \cup {Nil}, got : Responses \cup {Nil}]]
    BY <1>1 DEF Store!StoreInv, Store!TypeOK
  <1>4. CASE Store!Waiter(r, r)
    BY <1>1, <1>3, <1>4 DEF Store!Waiter, Store!WaiterRefused, Store!WaiterReady, Store!WaiterRegister
  <1>5. CASE Store!WaitReceive(r) \/ Store!WaitCancelled(r)
    BY <1>1, <1>2, <1>3, <1>5 DEF Store!WaitReceive, Store!WaitCancelled
  <1>6. CASE Store!CloseWaiter(r)
    <2>1. waiters[r].id = r /\ entries' = Store!release(r, r)
      BY <1>2, <1>6 DEF Store!CloseWaiter
    <2>2. (\A q \in Reqs \ {r} : entries'[q] = entries[q])
          /\ (entries'[r] # Nil => entries'[r] = entries[r])
      <3>1. r # Nil /\ (entries[r] # Nil => (entries[r].ch = Nil) # (entries[r].resp = Nil))
        BY <1>1, PipelineAssumption DEF Store!StoreInv, Store!EntryShape
      <3>2. entries' = entries \/ entries' = [entries EXCEPT ![r] = Nil]
        BY <2>1, <3>1 DEF Store!release
      <3>3. QED
        BY <1>3, <3>2
    <2>3. QED
      BY <1>1, <1>3, <1>6, <2>1, <2>2 DEF Store!CloseWaiter
  <1>7. QED
    BY <1>4, <1>5, <1>6

-----------------------------------------------------------------------------
(* The Exec handler, step by step. *)
LEMMA RejectInv ==
    ASSUME PipelineInv, NEW r \in Reqs, RejectEmptyQueue(r) PROVE PipelineInv'
  <1>1. /\ handler' = [handler EXCEPT ![r] = "gone"] /\ stream[r] # "unused" /\ Respond(r, Error)
        /\ UNCHANGED <<calls, stream, proxyUp, storeVars, workVars, faults>>
    BY DEF RejectEmptyQueue
  <1>2. /\ reply' \in [Reqs -> Values \cup {Nil, Error}]
        /\ \A q \in Reqs \ {r} : reply'[q] = reply[q]
        /\ reply'[r] = reply[r] \/ reply'[r] = Error
    BY <1>1, Responding DEF PipelineInv, TypeOK
  <1>3. Work!WorkInv' /\ Store!StoreInv'
    BY <1>1, WorkKept, StoreKept DEF PipelineInv
  <1>4. UNCHANGED <<entries, waiters, tally, produced>>
    BY <1>1 DEF storeVars, workVars
  <1>5. handler'[r] = "gone"
    BY <1>1 DEF PipelineInv, TypeOK
  <1>6. handler[r] = "none" /\ RequestInv(r) /\ Error \notin Values
    BY PipelineAssumption DEF RejectEmptyQueue, At, PipelineInv
  <1>7. RequestInv(r)'
    BY <1>1, <1>2, <1>4, <1>5, <1>6 DEF RequestInv, Answered, Real
  <1>8. "gone" \in Places
    BY DEF Places
  <1>9. QED
    BY <1>1, <1>2, <1>3, <1>4, <1>7, <1>8, HandlerStep

(* The handler registers its waiter with the store. *)
LEMMA RegisterInv ==
    ASSUME PipelineInv, NEW r \in Reqs, Register(r) PROVE PipelineInv'
  <1> DEFINE x == IF waiters'[r].st = "open" THEN "enqueue" ELSE "gone"
  <1>1. /\ handler' = [handler EXCEPT ![r] = x] /\ Store!Waiter(r, r)
        /\ handler[r] = "none" /\ stream[r] # "unused"
        /\ IF waiters'[r].st = "open" THEN UNCHANGED reply ELSE Respond(r, Error)
        /\ UNCHANGED <<calls, stream, proxyUp, workVars, faults>>
    BY DEF Register, At
  <1>2. /\ reply' \in [Reqs -> Values \cup {Nil, Error}]
        /\ \A q \in Reqs \ {r} : reply'[q] = reply[q]
        /\ reply'[r] = reply[r] \/ reply'[r] = Error
    <2>1. Client!TypeOK
      BY DEF PipelineInv, TypeOK
    <2>2. CASE waiters'[r].st = "open"
      BY <1>1, <2>1, <2>2 DEF Client!TypeOK, Reqs
    <2>3. CASE waiters'[r].st # "open"
      BY <1>1, <2>1, <2>3, Responding
    <2>4. QED
      BY <2>2, <2>3
  <1>3. Work!WorkInv'
    BY <1>1, WorkKept DEF PipelineInv
  <1>4. /\ Store!StoreInv'
        /\ \A q \in Reqs \ {r} : waiters'[q] = waiters[q] /\ entries'[q] = entries[q]
        /\ waiters'[r].id = r
        /\ entries'[r] # Nil => entries'[r].resp = Nil \/ entries'[r] = entries[r]
    BY <1>1, OwnWaiter
  <1>5. UNCHANGED <<tally, produced>>
    BY <1>1 DEF workVars
  <1>6. handler'[r] = x /\ x \in {"enqueue", "gone"} /\ (x = "enqueue" <=> waiters'[r].st = "open")
    BY <1>1 DEF PipelineInv, TypeOK
  <1>7. RequestInv(r)
    BY DEF PipelineInv
  <1>8. ~Answered(r)
    BY <1>1 DEF Answered
  <1>9. /\ \A p \in Responses : p \in {waiters'[r].buf, waiters'[r].got} => Real(p)
        /\ waiters'[r].st \in {"open", "refused"}
    <2>1. /\ Nil \notin Responses
          /\ waiters \in [Reqs -> [st : Store!WaiterState, id : Reqs \cup {Nil},
                                   buf : Responses \cup {Nil}, got : Responses \cup {Nil}]]
      BY PipelineAssumption DEF PipelineInv, Store!StoreInv, Store!TypeOK
    <2>2. CASE Store!WaiterRefused(r, r)
      BY <1>7, <2>1, <2>2 DEF Store!WaiterRefused, RequestInv
    <2>3. CASE Store!WaiterReady(r, r)
      BY <1>7, <2>1, <2>3 DEF Store!WaiterReady, Store!EntryOf, RequestInv
    <2>4. CASE Store!WaiterRegister(r, r)
      BY <2>1, <2>4 DEF Store!WaiterRegister
    <2>5. QED
      BY <1>1, <2>2, <2>3, <2>4 DEF Store!Waiter
  <1>10. RequestInv(r)'
    <2>1. entries'[r] # Nil => entries'[r].resp = Nil
      BY <1>4, <1>7, <1>8 DEF RequestInv
    <2>2. ~(tally'[r].reported > 0) /\ tally'[r].pushed = 0
      BY <1>1, <1>5, <1>7, <1>8 DEF RequestInv
    <2>3. Nil \notin Responses /\ Error \notin Values
      BY PipelineAssumption
    <2>4. \A p \in Responses : Real(p)' <=> Real(p)
      BY <1>5 DEF Real
    <2>5. stream'[r] # "unused"
      BY <1>1
    <2>6. reply'[r] \in Values => \E o \in produced'[r] : ~o.err /\ reply'[r] = ToWire(o.res)
      BY <1>2, <1>5, <1>7, <2>3 DEF RequestInv
    <2> HIDE DEF x
    <2>7. QED
      BY <1>4, <1>6, <1>9, <2>1, <2>2, <2>3, <2>4, <2>5, <2>6 DEF RequestInv
  <1>11. x \in Places
    BY DEF Places
  <1> HIDE DEF x
  <1>12. QED
    BY <1>1, <1>2, <1>3, <1>4, <1>5, <1>10, <1>11, HandlerStep

(* The steps to "close" leave the request with its answer or without any. *)
LEMMA EnqueueBlankInv ==
    ASSUME PipelineInv, NEW r \in Reqs, EnqueueBlank(r) PROVE PipelineInv'
  <1>1. /\ handler' = [handler EXCEPT ![r] = "close"] /\ handler[r] = "enqueue"
        /\ UNCHANGED <<calls, stream, reply, proxyUp, storeVars, workVars, faults>>
    BY DEF EnqueueBlank, At, clientVars
  <1>2. reply' \in [Reqs -> Values \cup {Nil, Error}]
    BY <1>1 DEF PipelineInv, TypeOK, Client!TypeOK, Reqs
  <1>3. Work!WorkInv' /\ Store!StoreInv'
    BY <1>1, WorkKept, StoreKept DEF PipelineInv
  <1>4. UNCHANGED <<entries, waiters, tally, produced>>
    BY <1>1 DEF storeVars, workVars
  <1>5. handler'[r] = "close"
    BY <1>1 DEF PipelineInv, TypeOK
  <1>6. RequestInv(r)'
    BY <1>1, <1>4, <1>5 DEF PipelineInv, RequestInv, Answered, Real
  <1>7. "close" \in Places
    BY DEF Places
  <1>8. QED
    BY <1>1, <1>2, <1>3, <1>4, <1>6, <1>7, HandlerStep

(* RPUSH, carried out n times, with whatever outcome: the handler goes on  *)
(* to wait only after a push.                                              *)
LEMMA PushedInv ==
    ASSUME PipelineInv, NEW r \in Reqs, NEW n \in Nat, Work!Push(r, n),
           handler[r] = "enqueue",
           NEW x \in {"wait", "close"}, handler' = [handler EXCEPT ![r] = x],
           x = "wait" => n > 0,
           UNCHANGED <<clientVars, proxyUp, storeVars, env, produced>>,
           faults' \in 0..MaxFaults
    PROVE  PipelineInv'
  <1>1. Work!WorkInv /\ RequestInv(r)
    BY DEF PipelineInv
  <1>2. /\ Work!WorkInv'
        /\ \A q \in Reqs : /\ tally'[q].reported = tally[q].reported
                           /\ q # r => tally'[q].pushed = tally[q].pushed
        /\ n > 0 => tally'[r].pushed > 0
    BY <1>1, Pushing
  <1>3. Store!StoreInv' /\ UNCHANGED <<calls, stream, reply, entries, waiters>>
    BY StoreKept DEF PipelineInv, storeVars, clientVars
  <1>4. reply' \in [Reqs -> Values \cup {Nil, Error}]
    BY <1>3 DEF PipelineInv, TypeOK, Client!TypeOK, Reqs
  <1>5. handler'[r] = x
    BY DEF PipelineInv, TypeOK
  <1>6. ~Answered(r)
    BY DEF Answered
  <1>7. RequestInv(r)'
    BY <1>1, <1>2, <1>3, <1>5, <1>6 DEF RequestInv, Answered, Real
  <1>8. x \in Places
    BY DEF Places
  <1>9. QED
    BY <1>2, <1>3, <1>4, <1>7, <1>8, HandlerStep

(* RPUSH fails, or is carried out once or twice. *)
LEMMA EnqueueInv ==
    ASSUME PipelineInv, NEW r \in Reqs,
           \/ EnqueueFails(r)
           \/ Enqueue(r, 1) /\ UNCHANGED faults
           \/ Enqueue(r, 2) /\ Fault
    PROVE  PipelineInv'
  <1>1. faults' \in 0..MaxFaults
    <2>1. faults \in 0..MaxFaults /\ MaxFaults \in Nat
      BY PipelineAssumption DEF PipelineInv, Work!WorkInv, Work!TypeOK
    <2>2. QED
      BY <2>1 DEF EnqueueFails, Fault
  <1>2. CASE EnqueueFails(r)
    <2>1. PICK n \in {0, 1} : Work!Push(r, n)
      BY <1>2 DEF EnqueueFails
    <2>2. QED
      BY <1>1, <1>2, <2>1, PushedInv DEF EnqueueFails, At
  <1>3. ASSUME NEW n \in {1, 2}, Enqueue(r, n) PROVE PipelineInv'
    <2>1. n \in Nat /\ n > 0
      OBVIOUS
    <2>2. /\ Work!Push(r, n) /\ handler[r] = "enqueue"
          /\ handler' = [handler EXCEPT ![r] = "wait"]
          /\ UNCHANGED <<clientVars, proxyUp, storeVars, env, produced>>
      BY <1>3 DEF Enqueue, At
    <2>3. QED
      BY <1>1, <2>1, <2>2, PushedInv
  <1>4. QED
    BY <1>2, <1>3

(* The handler has its answer or stops waiting for one. *)
LEMMA WaitEndsInv ==
    ASSUME PipelineInv, NEW r \in Reqs, Receive(r) \/ GiveUpWaiting(r) PROVE PipelineInv'
  <1>1. /\ handler' = [handler EXCEPT ![r] = "close"] /\ handler[r] = "wait"
        /\ Store!WaitReceive(r) \/ Store!WaitCancelled(r)
        /\ UNCHANGED <<calls, stream, reply, proxyUp, workVars, faults>>
    BY DEF Receive, GiveUpWaiting, At, clientVars
  <1>2. reply' \in [Reqs -> Values \cup {Nil, Error}]
    BY <1>1 DEF PipelineInv, TypeOK, Client!TypeOK, Reqs
  <1>3. Work!WorkInv'
    BY <1>1, WorkKept DEF PipelineInv
  <1>4. /\ Store!StoreInv' /\ waiters'[r].id = r
        /\ \A q \in Reqs \ {r} : waiters'[q] = waiters[q] /\ entries'[q] = entries[q]
        /\ entries'[r] # Nil => entries'[r].resp = Nil \/ entries'[r] = entries[r]
    BY <1>1, OwnWaiter
  <1>5. UNCHANGED <<tally, produced>>
    BY <1>1 DEF workVars
  <1>6. handler'[r] = "close" /\ RequestInv(r) /\ stream'[r] # "unused"
    BY <1>1 DEF PipelineInv, TypeOK, RequestInv
  <1>7. /\ \A p \in Responses : p \in {waiters'[r].buf, waiters'[r].got} => Real(p)
        /\ waiters'[r].st = "received" => waiters'[r].got # Nil
    <2>1. /\ Nil \notin Responses
          /\ waiters \in [Reqs -> [st : Store!WaiterState, id : Reqs \cup {Nil},
                                   buf : Responses \cup {Nil}, got : Responses \cup {Nil}]]
      BY PipelineAssumption DEF PipelineInv, Store!StoreInv, Store!TypeOK
    <2>2. QED
      BY <1>1, <1>6, <2>1 DEF Store!WaitReceive, Store!WaitCancelled, RequestInv
  <1>8. \A p \in Responses : (entries'[r] # Nil /\ entries'[r].resp = p) => Real(p)
    BY <1>4, <1>6, PipelineAssumption DEF RequestInv
  <1>9. RequestInv(r)'
    BY <1>1, <1>4, <1>5, <1>6, <1>7, <1>8 DEF RequestInv, Answered, Real
  <1>10. "close" \in Places
    BY DEF Places
  <1>11. QED
    BY <1>1, <1>2, <1>3, <1>4, <1>5, <1>9, <1>10, HandlerStep

(* What Exec returns is an error or the exit code of a run of its own job, *)
(* which has one.                                                          *)
LEMMA ReplyTrue ==
    ASSUME PipelineInv, NEW r \in Reqs
    PROVE  /\ ReplyOf(waiters[r]) \in Values \cup {Error}
           /\ ReplyOf(waiters[r]) \in Values =>
                 \E o \in produced[r] : ~o.err /\ ReplyOf(waiters[r]) = ToWire(o.res)
  <1> DEFINE w == waiters[r]
             g == w.got
  <1>1. CASE w.st = "received" /\ ~g.err
    <2>1. g \in Responses /\ Real(g) /\ g.id = r
      <3>1. w.got \in Responses \cup {Nil} /\ w.got # Nil /\ w.id = r
        BY <1>1 DEF PipelineInv, Store!StoreInv, Store!TypeOK, RequestInv
      <3>2. QED
        BY <3>1 DEF PipelineInv, RequestInv, Store!StoreInv, Store!NoCrossTalk
    <2>2. g.res # Nil
      BY <1>1, <2>1 DEF PipelineInv, Work!WorkInv, Work!ErrorOrResult, Real
    <2>3. g.res \in ExitCodes
      BY <2>1, <2>2 DEF Responses
    <2>4. ReplyOf(w) = ToWire(g.res) /\ ToWire(g.res) \in Values
      BY <1>1, <2>3 DEF ReplyOf, Values
    <2>5. [res |-> g.res, err |-> g.err] \in produced[r]
      BY <2>1 DEF Real
    <2>6. QED
      BY <1>1, <2>4, <2>5
  <1>2. CASE ~(w.st = "received" /\ ~g.err)
    BY <1>2, PipelineAssumption DEF ReplyOf
  <1>3. QED
    BY <1>1, <1>2

(* The handler closes its waiter and replies. *)
LEMMA FinishInv ==
    ASSUME PipelineInv, NEW r \in Reqs, Finish(r) PROVE PipelineInv'
  <1>1. /\ handler' = [handler EXCEPT ![r] = "gone"] /\ handler[r] = "close"
        /\ Store!CloseWaiter(r) /\ Respond(r, ReplyOf(waiters[r]))
        /\ UNCHANGED <<calls, stream, proxyUp, workVars, faults>>
    BY DEF Finish, At
  <1>2. /\ reply' \in [Reqs -> Values \cup {Nil, Error}]
        /\ \A q \in Reqs \ {r} : reply'[q] = reply[q]
        /\ reply'[r] = reply[r] \/ reply'[r] = ReplyOf(waiters[r])
    BY <1>1, Responding, ReplyTrue DEF PipelineInv, TypeOK
  <1>3. Work!WorkInv'
    BY <1>1, WorkKept DEF PipelineInv
  <1>4. /\ Store!StoreInv' /\ waiters'[r].id = r
        /\ \A q \in Reqs \ {r} : waiters'[q] = waiters[q] /\ entries'[q] = entries[q]
        /\ entries'[r] # Nil => entries'[r].resp = Nil \/ entries'[r] = entries[r]
    BY <1>1, OwnWaiter
  <1>5. UNCHANGED <<tally, produced>>
    BY <1>1 DEF workVars
  <1>6. handler'[r] = "gone" /\ RequestInv(r) /\ stream'[r] # "unused"
    BY <1>1 DEF PipelineInv, TypeOK, RequestInv
  <1>7. waiters'[r].buf = waiters[r].buf /\ waiters'[r].got = waiters[r].got
        /\ waiters'[r].st = "closed"
    BY <1>1 DEF Store!CloseWaiter, PipelineInv, Store!StoreInv, Store!TypeOK
  <1>8. \A p \in Responses : (entries'[r] # Nil /\ entries'[r].resp = p) => Real(p)
    BY <1>4, <1>6, PipelineAssumption DEF RequestInv
  <1>9. reply'[r] \in Values => \E o \in produced'[r] : ~o.err /\ reply'[r] = ToWire(o.res)
    BY <1>2, <1>5, <1>6, ReplyTrue DEF RequestInv
  <1>10. RequestInv(r)'
    BY <1>1, <1>4, <1>5, <1>6, <1>7, <1>8, <1>9 DEF RequestInv, Answered, Real
  <1>11. "gone" \in Places
    BY DEF Places
  <1>12. QED
    BY <1>1, <1>2, <1>3, <1>4, <1>5, <1>10, <1>11, HandlerStep

(* Every step of the Exec handler. *)
LEMMA HandlerInv ==
    ASSUME PipelineInv, NEW r \in Reqs, ExecHandler(r) PROVE PipelineInv'
  BY RejectInv, RegisterInv, EnqueueBlankInv, EnqueueInv, WaitEndsInv, FinishInv DEF ExecHandler

-----------------------------------------------------------------------------
(* The steps of the others. *)
LEMMA SendInv ==
    ASSUME PipelineInv, NEW c \in Calls, Send(c) PROVE PipelineInv'
  <1> DEFINE r0 == <<c, calls[c].attempt + 1>>
  <1>1. /\ Client!Send(c, proxyUp) /\ UNCHANGED <<proxyUp, storeVars, workVars>>
        /\ handler' = IF proxyUp THEN handler ELSE [handler EXCEPT ![r0] = "gone"]
    BY DEF Send
  <1>2. proxyUp \in BOOLEAN /\ proxyUp' \in BOOLEAN /\ Client!TypeOK /\ AttemptsInOrder
    <2>1. Client!TypeOK /\ AttemptsInOrder
      BY DEF PipelineInv, TypeOK
    <2>2. proxyUp \in BOOLEAN
      BY Zenon DEF PipelineInv, TypeOK
    <2>3. QED
      BY <1>1, <2>1, <2>2, Zenon
  <1>3. /\ Client!TypeOK' /\ AttemptsInOrder' /\ UNCHANGED <<reply, faults>>
        /\ r0 \in Reqs /\ stream[r0] = "unused" /\ stream'[r0] # "unused"
        /\ \A r \in Reqs : r # r0 => stream'[r] = stream[r]
    BY <1>1, <1>2, Sending
  <1>4. Work!WorkInv' /\ Store!StoreInv'
    BY <1>1, <1>3, WorkKept, StoreKept DEF PipelineInv
  <1>5. UNCHANGED <<entries, waiters, tally, produced>>
    BY <1>1 DEF storeVars, workVars
  <1> HIDE DEF r0
  <1>6. /\ handler' \in [Reqs -> Places]
        /\ handler'[r0] = handler[r0] \/ handler'[r0] = "gone"
        /\ \A r \in Reqs : r # r0 => handler'[r] = handler[r]
    BY <1>1, <1>3 DEF PipelineInv, TypeOK, Places
  <1>7. ASSUME NEW r \in Reqs PROVE RequestInv(r)'
    <2>1. CASE r = r0
      BY <1>3, <1>5, <1>6, <2>1 DEF PipelineInv, RequestInv, Answered, Real
    <2>2. CASE r # r0
      <3>1. RequestInv(r)
        BY DEF PipelineInv
      <3>2. QED
        BY <1>3, <1>5, <1>6, <2>2, <3>1, RequestKept
    <2>3. QED
      BY <2>1, <2>2
  <1>8. TypeOK'
    BY <1>2, <1>3, <1>4, <1>6 DEF TypeOK, Places, Work!WorkInv
  <1>9. QED
    BY <1>3, <1>4, <1>7, <1>8 DEF PipelineInv

(* What a step that leaves the handlers, the proxy and the client alone has*)
(* to show.                                                                *)
LEMMA OutsideStep ==
    ASSUME PipelineInv, UNCHANGED <<handler, proxyUp>>,
           Client!TypeOK', AttemptsInOrder', Work!WorkInv', Store!StoreInv',
           \A r \in Reqs : RequestInv(r)'
    PROVE  PipelineInv'
  <1>1. proxyUp' \in BOOLEAN
    BY Zenon DEF PipelineInv, TypeOK
  <1>2. QED
    BY <1>1 DEF PipelineInv, TypeOK, Work!WorkInv

(* A step of another part leaves the client as it was. *)
LEMMA ClientKept ==
    ASSUME PipelineInv, UNCHANGED clientVars, faults' \in 0..MaxFaults
    PROVE  Client!TypeOK' /\ AttemptsInOrder'
  BY DEF PipelineInv, TypeOK, Client!TypeOK, AttemptsInOrder, clientVars

(* The other steps of the client and of its channel. *)
LEMMA ClientInv ==
    ASSUME PipelineInv,
           \/ \E c \in Calls : ClientStep(c)
           \/ \E r \in Reqs : Break(r)
           \/ ClientClose
    PROVE  PipelineInv'
  <1>1. Client!TypeOK /\ AttemptsInOrder /\ MaxFaults \in Nat
    BY PipelineAssumption DEF PipelineInv, TypeOK
  <1>2. UNCHANGED <<handler, proxyUp, storeVars, workVars>>
    BY DEF ClientStep, Break, ClientClose
  <1>3. /\ Client!TypeOK' /\ AttemptsInOrder' /\ UNCHANGED reply /\ faults' \in 0..MaxFaults
        /\ \A r \in Reqs : stream'[r] = "unused" <=> stream[r] = "unused"
    <2>1. ASSUME NEW c \in Calls, ClientStep(c)
          PROVE  /\ Client!TypeOK' /\ AttemptsInOrder' /\ UNCHANGED <<reply, faults>>
                 /\ \A r \in Reqs : stream'[r] = "unused" <=> stream[r] = "unused"
      BY <1>1, <2>1, ClientSteps DEF ClientStep
    <2>2. ASSUME UNCHANGED <<calls, reply>>, faults' \in 0..MaxFaults,
                 stream' \in [Reqs -> {"unused", "open", "broken", "done"}],
                 \A r \in Reqs : stream'[r] = "unused" <=> stream[r] = "unused"
          PROVE  /\ Client!TypeOK' /\ AttemptsInOrder'
      BY <1>1, <2>2, StreamsKept DEF Client!TypeOK, AttemptsInOrder, Reqs
    <2>3. ASSUME NEW q \in Reqs, Break(q)
          PROVE  /\ UNCHANGED <<calls, reply>> /\ faults' \in 0..MaxFaults
                 /\ stream' \in [Reqs -> {"unused", "open", "broken", "done"}]
                 /\ \A r \in Reqs : stream'[r] = "unused" <=> stream[r] = "unused"
      BY <1>1, <2>3 DEF Break, Client!Break, Client!Fault, Client!TypeOK, Reqs
    <2>4. ASSUME ClientClose
          PROVE  /\ UNCHANGED <<calls, reply>> /\ faults' \in 0..MaxFaults
                 /\ stream' \in [Reqs -> {"unused", "open", "broken", "done"}]
                 /\ \A r \in Reqs : stream'[r] = "unused" <=> stream[r] = "unused"
      BY <1>1, <2>4, TerminatedType DEF ClientClose, Client!Close, Client!Fault, Client!TypeOK, Reqs
    <2>5. faults \in 0..MaxFaults
      BY <1>1 DEF Client!TypeOK
    <2>6. QED
      BY <2>1, <2>2, <2>3, <2>4, <2>5
  <1>4. Work!WorkInv'
    BY <1>2, <1>3, WorkFaultsKept DEF PipelineInv
  <1>5. Store!StoreInv' /\ UNCHANGED <<entries, waiters, tally, produced>>
    BY <1>2, StoreKept DEF PipelineInv, storeVars, workVars
  <1>6. ASSUME NEW r \in Reqs PROVE RequestInv(r)'
    BY <1>2, <1>3, <1>5, RequestKept DEF PipelineInv
  <1>7. QED
    BY <1>2, <1>3, <1>4, <1>5, <1>6, OutsideStep

(* The steps of a worker between two callbacks. *)
LEMMA WorkerInv ==
    ASSUME PipelineInv, NEW e \in Envlets, Worker(e) PROVE PipelineInv'
  <1>1. Work!Work(e) /\ UNCHANGED <<clientVars, handler, proxyUp, storeVars>>
    BY DEF Worker
  <1>2. /\ Work!WorkInv'
        /\ \A r \in Reqs : /\ tally'[r].pushed = tally[r].pushed
                           /\ tally'[r].reported = tally[r].reported
                           /\ produced[r] \subseteq produced'[r]
    BY <1>1, WorkSteps DEF PipelineInv
  <1>3. Client!TypeOK' /\ AttemptsInOrder'
    BY <1>1, <1>2, ClientKept DEF Work!WorkInv, Work!TypeOK
  <1>4. Store!StoreInv' /\ UNCHANGED <<entries, waiters, stream, reply>>
    BY <1>1, StoreKept DEF PipelineInv, storeVars, clientVars
  <1>5. ASSUME NEW r \in Reqs PROVE RequestInv(r)'
    BY <1>1, <1>2, <1>4, RequestKept DEF PipelineInv
  <1>6. QED
    BY <1>1, <1>2, <1>3, <1>4, <1>5, OutsideStep

(* A delivery for j reaches the waiter of j or, without one, is stored; a  *)
(* waiter that is still open has an answer after it.                       *)
LEMMA DeliveryReaches ==
    ASSUME PipelineInv, NEW p \in Responses, Store!Deliver(p.id, p)
    PROVE  /\ \A q \in Reqs \ {p.id} : waiters'[q] = waiters[q] /\ entries'[q] = entries[q]
           /\ waiters'[p.id].st = waiters[p.id].st /\ waiters'[p.id].id = waiters[p.id].id
           /\ waiters'[p.id].got = waiters[p.id].got
           /\ waiters'[p.id].buf \in {waiters[p.id].buf, p}
           /\ waiters[p.id].st = "open" => waiters'[p.id].buf # Nil
           /\ entries'[p.id] # Nil => entries'[p.id].resp = p
  <1> DEFINE j == p.id
             h == Store!EntryOf(j).ch
  <1>1. j \in Reqs /\ p # Nil /\ Nil \notin Reqs
    BY PipelineAssumption DEF Responses
  <1>2. /\ entries \in [Reqs -> Store!Entry \cup {Nil}]
        /\ waiters \in [Reqs -> [st : Store!WaiterState, id : Reqs \cup {Nil},
                                 buf : Responses \cup {Nil}, got : Responses \cup {Nil}]]
    BY DEF PipelineInv, Store!StoreInv, Store!TypeOK
  <1>3. RequestInv(j)
    BY <1>1 DEF PipelineInv
  <1>4. CASE Store!DeliverToWaiter(j, p)
    <2>1. h # Nil /\ entries' = [entries EXCEPT ![j] = Nil]
          /\ waiters' = IF waiters[h].buf = Nil THEN [waiters EXCEPT ![h].buf = p] ELSE waiters
      BY <1>4 DEF Store!DeliverToWaiter
    <2>2. entries[j] # Nil /\ entries[j].ch = h /\ h \in Reqs
      BY <1>1, <1>2, <2>1 DEF Store!EntryOf, Store!Entry
    <2>3. waiters[h].id = j /\ waiters[h].st \in {"open", "cancelled"} /\ waiters[h].buf = Nil
      BY <1>1, <2>2 DEF PipelineInv, Store!StoreInv, Store!DeliverNeverDrops, Store!Registered
    <2>4. RequestInv(h)
      BY <2>2 DEF PipelineInv
    <2>5. h = j
      BY <2>3, <2>4 DEF RequestInv
    <2> HIDE DEF h, j
    <2>6. QED
      BY <1>1, <1>2, <2>1, <2>3, <2>5 DEF j
  <1>5. CASE Store!DeliverToStore(j, p)
    <2>1. h = Nil /\ waiters' = waiters
          /\ entries' = [entries EXCEPT ![j] = [ch |-> Nil, resp |-> p, expiry |-> now + TTL]]
      BY <1>5 DEF Store!DeliverToStore
    <2>2. ~Store!Registered(j, j)
      BY <1>1, <2>1 DEF Store!Registered, Store!EntryOf
    <2>3. waiters[j].st = "open" => waiters[j].buf # Nil /\ waiters[j].id = j
      BY <1>1, <1>3, <2>2 DEF PipelineInv, RequestInv, Store!StoreInv, Store!WaiterNotLost
    <2> HIDE DEF h, j
    <2>4. QED
      BY <1>1, <1>2, <2>1, <2>3 DEF j
  <1>6. QED
    BY <1>4, <1>5 DEF Store!Deliver

(* A report reaches the callback server and is delivered. *)
LEMMA CallbackInv ==
    ASSUME PipelineInv, NEW e \in Envlets, Callback(e) PROVE PipelineInv'
  <1>1. /\ Work!Report(e) /\ UNCHANGED <<clientVars, handler, proxyUp>>
        /\ env[e].pc = "report" /\ UNCHANGED <<queue, produced, faults>>
    BY DEF Callback, Work!Report
  <1>2. PICK j \in Reqs : j = env[e].job /\ tally[j].pushed > 0
    BY <1>1, Holding DEF PipelineInv
  <1>3. env[e].out \in produced[j] /\ env[e].out \in Work!Outcome
    BY <1>1, <1>2 DEF PipelineInv, Work!WorkInv, Work!TypeOK, Work!JobInHand
  <1>4. PICK p \in Responses : p.id = j /\ Real(p) /\ Store!Deliver(j, p)
    <2> DEFINE q == [id |-> j, res |-> env[e].out.res, err |-> env[e].out.err]
    <2>1. q \in Responses /\ q.id = j /\ Real(q)
      BY <1>3 DEF Responses, Work!Outcome, Real
    <2>2. Store!Deliver(j, q)
      BY <1>2 DEF Callback
    <2>3. QED
      BY <2>1, <2>2
  <1>5. faults' \in 0..MaxFaults
    BY <1>1 DEF PipelineInv, Work!WorkInv, Work!TypeOK
  <1>6. /\ Work!WorkInv'
        /\ \A r \in Reqs : /\ tally'[r].pushed = tally[r].pushed
                           /\ r # j => tally'[r].reported = tally[r].reported
    BY <1>1, <1>2, <1>5, Reporting DEF PipelineInv
  <1>7. /\ \A q \in Reqs \ {j} : waiters'[q] = waiters[q] /\ entries'[q] = entries[q]
        /\ waiters'[j].st = waiters[j].st /\ waiters'[j].id = waiters[j].id
        /\ waiters'[j].got = waiters[j].got
        /\ waiters'[j].buf \in {waiters[j].buf, p}
        /\ waiters[j].st = "open" => waiters'[j].buf # Nil
        /\ entries'[j] # Nil => entries'[j].resp = p
    BY <1>4, DeliveryReaches
  <1>8. Store!StoreInv'
    BY <1>4, Delivering DEF PipelineInv
  <1>9. Client!TypeOK' /\ AttemptsInOrder' /\ UNCHANGED <<stream, reply>>
    BY <1>1, <1>5, ClientKept DEF clientVars
  <1>10. RequestInv(j)'
    <2>1. RequestInv(j) /\ handler[j] \in Places
      BY <1>2 DEF PipelineInv, TypeOK, Places
    <2>2. handler[j] \in {"wait", "close", "gone"} /\ (handler[j] = "wait" => waiters[j].st = "open")
      BY <1>2, <2>1 DEF RequestInv, Places
    <2>3. Answered(j)'
      BY <1>1, <1>7, <2>2 DEF Answered
    <2>4. \A q \in Responses : Real(q)' <=> Real(q)
      BY <1>1 DEF Real
    <2>5. \A q \in Responses : (entries'[j] # Nil /\ entries'[j].resp = q) => Real(q)
      BY <1>4, <1>7
    <2>6. \A q \in Responses : q \in {waiters'[j].buf, waiters'[j].got} => Real(q)
      BY <1>4, <1>7, <2>1 DEF RequestInv
    <2>7. tally'[j].pushed = tally[j].pushed
      BY <1>2, <1>6
    <2>8. QED
      BY <1>1, <1>7, <1>9, <2>1, <2>3, <2>4, <2>5, <2>6, <2>7 DEF RequestInv
  <1>11. ASSUME NEW r \in Reqs PROVE RequestInv(r)'
    <2>1. CASE r # j
      <3>1. RequestInv(r)
        BY DEF PipelineInv
      <3>2. QED
        BY <1>1, <1>6, <1>7, <1>9, <2>1, <3>1, RequestKept
    <2>2. QED
      BY <1>10, <2>1
  <1>12. QED
    BY <1>1, <1>6, <1>8, <1>9, <1>11, OutsideStep

(* A report is lost on its way, or given up. *)
LEMMA CallbackFailsInv ==
    ASSUME PipelineInv, NEW e \in Envlets, CallbackFails(e) PROVE PipelineInv'
  <1>1. /\ Work!ReportFails(e) /\ UNCHANGED <<clientVars, handler, proxyUp, storeVars>>
        /\ UNCHANGED produced
    BY DEF CallbackFails, Work!ReportFails
  <1>2. faults' \in 0..MaxFaults
    <2>1. faults \in 0..MaxFaults /\ MaxFaults \in Nat
      BY PipelineAssumption DEF PipelineInv, Work!WorkInv, Work!TypeOK
    <2>2. QED
      BY <2>1 DEF CallbackFails, Fault
  <1>3. /\ Work!WorkInv'
        /\ \A r \in Reqs : /\ tally'[r].pushed = tally[r].pushed
                           /\ tally'[r].reported = tally[r].reported
    BY <1>1, <1>2, Reporting DEF PipelineInv
  <1>4. Client!TypeOK' /\ AttemptsInOrder'
    BY <1>1, <1>2, ClientKept
  <1>5. Store!StoreInv' /\ UNCHANGED <<entries, waiters, stream, reply>>
    BY <1>1, StoreKept DEF PipelineInv, storeVars, clientVars
  <1>6. ASSUME NEW r \in Reqs PROVE RequestInv(r)'
    BY <1>1, <1>3, <1>5, RequestKept DEF PipelineInv
  <1>7. QED
    BY <1>1, <1>3, <1>4, <1>5, <1>6, OutsideStep

(* The cleanup of the store, and time. *)
LEMMA HousekeepingInv ==
    ASSUME PipelineInv, Housekeeping PROVE PipelineInv'
  <1>1. /\ Store!CleanupTick \/ Store!CleanupSweep \/ Store!Advance
        /\ UNCHANGED <<clientVars, handler, proxyUp, workVars, faults>>
    BY DEF Housekeeping
  <1>2. Work!WorkInv' /\ Store!StoreInv'
    BY <1>1, WorkKept, Sweeping DEF PipelineInv
  <1>3. Client!TypeOK' /\ AttemptsInOrder'
    BY <1>1, <1>2, ClientKept DEF Work!WorkInv, Work!TypeOK
  <1>4. UNCHANGED <<waiters, stream, reply, tally, produced>>
    BY <1>1 DEF clientVars, workVars, Store!CleanupTick, Store!CleanupSweep, Store!Advance
  <1>5. \A r \in Reqs : entries'[r] = entries[r] \/ entries'[r] = Nil
    BY <1>1 DEF Store!CleanupTick, Store!CleanupSweep, Store!Advance
  <1>6. ASSUME NEW r \in Reqs PROVE RequestInv(r)'
    BY <1>1, <1>4, <1>5, RequestKept DEF PipelineInv
  <1>7. QED
    BY <1>1, <1>2, <1>3, <1>6, OutsideStep

(* With the process goes every handler, every waiter and the whole store,  *)
(* and what the workers still report finds nobody.                         *)
LEMMA ProxyEndsInv ==
    ASSUME PipelineInv, ProxyEnds PROVE PipelineInv'
  <1>1. /\ Fault /\ proxyUp' = FALSE /\ stream' = Client!Terminated(Calls)
        /\ handler' = [r \in Reqs |-> IF stream[r] = "unused" THEN "none" ELSE "gone"]
        /\ entries' = [r \in Reqs |-> Nil]
        /\ waiters' = [r \in Reqs |-> IF waiters[r].st = "free" THEN waiters[r]
                                      ELSE [st |-> "closed", id |-> r, buf |-> Nil, got |-> Nil]]
        /\ tickAt' = now + Store!CleanupInterval /\ sweepNow' = 0 /\ cleaner' = "select"
        /\ UNCHANGED <<calls, reply, now, stopped, queue, env, produced, tally>>
    BY DEF ProxyEnds, workVars
  <1>2. Client!TypeOK /\ AttemptsInOrder /\ faults' \in 0..MaxFaults
    BY <1>1, PipelineAssumption DEF PipelineInv, TypeOK, Client!TypeOK, Fault
  <1>3. /\ stream' \in [Reqs -> {"unused", "open", "broken", "done"}]
        /\ \A r \in Reqs : stream'[r] = "unused" <=> stream[r] = "unused"
    BY <1>1, <1>2, TerminatedType
  <1>4. Client!TypeOK' /\ AttemptsInOrder'
    BY <1>1, <1>2, <1>3, StreamsKept DEF Client!TypeOK, AttemptsInOrder, Reqs
  <1>5. Work!WorkInv'
    BY <1>1, <1>2, WorkFaultsKept DEF PipelineInv, workVars
  <1>6. \A r \in Reqs : waiters[r].st = "free" => waiters[r].buf = Nil /\ waiters[r].got = Nil
    BY DEF PipelineInv, Store!StoreInv, Store!WaiterKnowsId
  <1>7. \A r \in Reqs : /\ entries'[r] = Nil
                        /\ waiters'[r].buf = Nil /\ waiters'[r].got = Nil
                        /\ waiters'[r].st \in {"free", "closed"}
                        /\ waiters'[r].st = "free" <=> waiters[r].st = "free"
                        /\ waiters'[r].st # "free" => waiters'[r].id = r
    BY <1>1, <1>6
  <1>8. Nil \notin Responses /\ Nil \notin Reqs
    BY PipelineAssumption
  <1>9. Store!StoreInv'
    <2>1. Store!TypeOK'
      <3>1. /\ waiters \in [Reqs -> [st : Store!WaiterState, id : Reqs \cup {Nil},
                                     buf : Responses \cup {Nil}, got : Responses \cup {Nil}]]
            /\ now \in Nat \ {0} /\ stopped \in BOOLEAN
        BY Zenon DEF PipelineInv, Store!StoreInv, Store!TypeOK
      <3>2. waiters' \in [Reqs -> [st : Store!WaiterState, id : Reqs \cup {Nil},
                                   buf : Responses \cup {Nil}, got : Responses \cup {Nil}]]
        BY <1>1, <3>1 DEF Store!WaiterState
      <3>3. entries' \in [Reqs -> Store!Entry \cup {Nil}]
        BY <1>1
      <3>4. tickAt' \in Nat /\ sweepNow' \in Nat /\ now' \in Nat \ {0}
            /\ cleaner' \in {"select", "sweep", "exited"}
        BY <1>1, <3>1, IntervalPositive
      <3>5. stopped' \in BOOLEAN
        BY <1>1, <3>1, Zenon
      <3>6. QED
        BY <3>2, <3>3, <3>4, <3>5 DEF Store!TypeOK
    <2>2. Store!EntryShape' /\ Store!DeliverNeverDrops' /\ Store!WaiterNotLost'
      BY <1>7 DEF Store!EntryShape, Store!DeliverNeverDrops, Store!WaiterNotLost, Store!Registered
    <2>3. Store!NoCrossTalk' /\ Store!WaiterKnowsId'
      BY <1>7, <1>8 DEF Store!NoCrossTalk, Store!WaiterKnowsId
    <2>4. Store!SweepClock'
      BY <2>1, <1>1 DEF Store!SweepClock, Store!TypeOK
    <2>5. QED
      BY <2>1, <2>2, <2>3, <2>4 DEF Store!StoreInv
  <1>10. ASSUME NEW r \in Reqs PROVE RequestInv(r)'
    <2>1. RequestInv(r) /\ (handler'[r] = IF stream[r] = "unused" THEN "none" ELSE "gone")
      BY <1>1 DEF PipelineInv
    <2>2. CASE stream[r] = "unused"
      <3>1. handler'[r] = "none" /\ handler[r] = "none" /\ ~Answered(r)
        BY <2>1, <2>2 DEF RequestInv, Answered
      <3>2. QED
        BY <1>1, <1>7, <1>8, <2>1, <3>1 DEF RequestInv
    <2>3. CASE stream[r] # "unused"
      <3>1. handler'[r] = "gone" /\ Answered(r)'
        BY <2>1, <2>3 DEF Answered
      <3>2. QED
        BY <1>1, <1>3, <1>7, <1>8, <2>1, <2>3, <3>1 DEF RequestInv
    <2>4. QED
      BY <2>2, <2>3
  <1>11. TypeOK'
    <2>1. handler' \in [Reqs -> {"none", "enqueue", "wait", "close", "gone"}]
      BY <1>1
    <2>2. QED
      BY <1>1, <1>4, <1>5, <2>1 DEF TypeOK, Work!WorkInv
  <1>12. QED
    BY <1>4, <1>5, <1>9, <1>10, <1>11 DEF PipelineInv

(* What only starts or announces the end of the proxy. *)
LEMMA IdleSteps ==
    ASSUME PipelineInv, UNCHANGED <<clientVars, handler, storeVars, workVars, faults>>,
           proxyUp' \in BOOLEAN
    PROVE  PipelineInv'
  <1>1. Work!WorkInv' /\ Store!StoreInv'
    BY WorkKept, StoreKept DEF PipelineInv
  <1>2. Client!TypeOK' /\ AttemptsInOrder'
    BY <1>1, ClientKept DEF Work!WorkInv, Work!TypeOK
  <1>3. ASSUME NEW r \in Reqs PROVE RequestInv(r)'
    BY RequestKept DEF PipelineInv, clientVars, storeVars, workVars
  <1>4. TypeOK'
    BY <1>1, <1>2 DEF PipelineInv, TypeOK, Work!WorkInv
  <1>5. QED
    BY <1>1, <1>2, <1>3, <1>4 DEF PipelineInv

-----------------------------------------------------------------------------
(* The whole starts in its invariant. *)
LEMMA PipelineInit == Init => PipelineInv
  <1> SUFFICES ASSUME Init PROVE PipelineInv
    OBVIOUS
  <1>1. Work!WorkInv /\ Store!StoreInv
    BY WorkInits, StoreInits DEF Init
  <1>2. 0 \in 0..RetryLimit
    BY PipelineAssumption
  <1>3. Client!TypeOK
    BY <1>1, <1>2 DEF Init, Client!Init, Client!TypeOK, Work!WorkInv, Work!TypeOK
  <1>4. \A c \in Calls : \A n \in 1..RetryLimit : <<c, n>> \in Reqs /\ n > 0
    BY DEF Reqs, Client!Reqs
  <1>5. AttemptsInOrder
    BY <1>4 DEF Init, Client!Init, AttemptsInOrder, Reqs
  <1>6. TypeOK
    BY <1>1, <1>3 DEF Init, TypeOK, Work!WorkInv
  <1>7. ASSUME NEW r \in Reqs PROVE RequestInv(r)
    <2>1. /\ handler[r] = "none" /\ reply[r] = Nil /\ tally[r].pushed = 0 /\ tally[r].reported = 0
          /\ entries[r] = Nil /\ waiters[r].st = "free" /\ waiters[r].buf = Nil /\ waiters[r].got = Nil
      BY DEF Init, Client!Init, Work!Init, Store!Init, Reqs
    <2>2. Nil \notin Values /\ Nil \notin Responses
      BY PipelineAssumption
    <2>3. QED
      BY <2>1, <2>2 DEF RequestInv
  <1>8. QED
    BY <1>1, <1>5, <1>6, <1>7 DEF PipelineInv

(* Every step of the whole keeps it. *)
LEMMA PipelineStep == ASSUME PipelineInv, [Next]_vars PROVE PipelineInv'
  <1>1. CASE UNCHANGED vars
    <2>1. proxyUp' \in BOOLEAN
      BY <1>1, Zenon DEF vars, PipelineInv, TypeOK
    <2>2. QED
      BY <1>1, <2>1, IdleSteps DEF vars
  <1>2. CASE ProxyStarts
    <2>1. proxyUp' \in BOOLEAN
      BY <1>2, Zenon DEF ProxyStarts
    <2>2. QED
      BY <1>2, <2>1, IdleSteps DEF ProxyStarts
  <1>3. QED
    BY <1>1, <1>2, SendInv, ClientInv, HandlerInv, WorkerInv, CallbackInv, CallbackFailsInv,
       HousekeepingInv, ProxyEndsInv DEF Next

(* Every reachable state of the pipeline satisfies the invariant. *)
THEOREM PipelineSafe == Spec => []PipelineInv
  BY PipelineInit, PipelineStep, PTL DEF Spec

(* A handler in Wait has its answer, or its job is in the list or in a     *)
(* worker's hands, unless a failure destroyed it: neither a SIGTERM nor a  *)
(* sweep nor the answer to another attempt leaves it waiting for nothing.  *)
THEOREM NobodyWaitsForNothing == Spec => []WaitingJobAlive
  <1>1. PipelineInv => WaitingJobAlive
    <2> SUFFICES ASSUME PipelineInv, NEW r \in Reqs,
                        handler[r] = "wait", waiters[r].st = "open", tally[r].lost = 0,
                        waiters[r].buf = Nil
                 PROVE  Work!Copies(r) + Work!Holders(r) > 0
      BY DEF WaitingJobAlive
    <2>1. tally[r].pushed > 0 /\ ~(tally[r].reported > 0)
      BY DEF PipelineInv, RequestInv, Answered
    <2>2. tally[r].pushed = Work!Copies(r) + Work!Holders(r) + tally[r].reported + tally[r].lost
      BY DEF PipelineInv, Work!WorkInv, Work!JobsConserved
    <2>3. /\ tally[r].reported \in Nat /\ tally[r].pushed \in Nat
      BY DEF PipelineInv, Work!WorkInv, Work!TypeOK
    <2>4. Work!Copies(r) \in Nat /\ Work!Holders(r) \in Nat
      BY Counted DEF PipelineInv
    <2>5. QED
      BY <2>1, <2>2, <2>3, <2>4
  <1>2. QED
    BY <1>1, PipelineSafe, PTL

(* What the store keeps is never needed: sweeping it loses no answer. *)
THEOREM OnlyOrphansStored == Spec => []StoredIsOrphan
  <1>1. PipelineInv => StoredIsOrphan
    BY DEF PipelineInv, RequestInv, StoredIsOrphan
  <1>2. QED
    BY <1>1, PipelineSafe, PTL

(* No handler that returned, by whatever path of Exec, left its channel in *)
(* the store's map, where the sweep would pass over it.                    *)
THEOREM ChannelsAreClosed == Spec => []NoChannelLeft
  <1>1. PipelineInv => NoChannelLeft
    <2> SUFFICES ASSUME PipelineInv, NEW r \in Reqs, handler[r] = "gone",
                        NEW id \in Reqs, Store!Registered(r, id)
                 PROVE  FALSE
      BY DEF NoChannelLeft
    <2>1. waiters[r].st \in {"open", "cancelled"}
      BY DEF PipelineInv, Store!StoreInv, Store!DeliverNeverDrops
    <2>2. waiters[r].st \in {"free", "refused", "closed"}
      BY DEF PipelineInv, RequestInv
    <2>3. QED
      BY <2>1, <2>2
  <1>2. QED
    BY <1>1, PipelineSafe, PTL

(* Exec never reads the exit code of a nil result. *)
THEOREM NeverNilResult == Spec => []NoNilResult
  <1>1. PipelineInv => NoNilResult
    <2> SUFFICES ASSUME PipelineInv, NEW r \in Reqs, waiters[r].got # Nil
                 PROVE  waiters[r].got.err \/ waiters[r].got.res # Nil
      BY DEF NoNilResult
    <2> DEFINE g == waiters[r].got
    <2>1. g \in Responses /\ Real(g) /\ g.id \in Reqs
      BY DEF PipelineInv, Store!StoreInv, Store!TypeOK, RequestInv, Responses
    <2>2. QED
      BY <2>1 DEF PipelineInv, Work!WorkInv, Work!ErrorOrResult, Real
  <1>2. QED
    BY <1>1, PipelineSafe, PTL

-----------------------------------------------------------------------------
(* The refinement: what the callers see changes as ExecService allows. *)
LEMMA Unseen ==
    ASSUME UNCHANGED <<calls, produced>> PROVE UNCHANGED Service!serviceVars
  BY DEF Service!serviceVars, status, result, made

(* No call was made and none has a result. *)
LEMMA ServiceInit == Init => Service!Init
  <1> SUFFICES ASSUME Init PROVE Service!Init
    OBVIOUS
  <1>1. status = [c \in Calls |-> "idle"] /\ result = [c \in Calls |-> Nil]
    BY DEF Init, Client!Init, status, result
  <1>2. \A c \in Calls : \A n \in 1..RetryLimit : produced[<<c, n>>] = {}
    BY DEF Init, Work!Init, Reqs, Client!Reqs
  <1>3. made = [c \in Calls |-> {}]
    <2>1. ASSUME NEW c \in Calls
          PROVE  {ToWire(o.res) : o \in {p \in UNION {produced[<<c, n>>] : n \in 1..RetryLimit} : ~p.err}} = {}
      <3>1. UNION {produced[<<c, n>>] : n \in 1..RetryLimit} = {}
        BY <1>2
      <3>2. QED
        BY <3>1
    <2>2. QED
      BY <2>1 DEF made
  <1>4. QED
    BY <1>1, <1>3 DEF Service!Init

(* A request enters the loop of execute(): at first that starts the call. *)
LEMMA SendSeen ==
    ASSUME PipelineInv, NEW c \in Calls, Send(c) PROVE [Service!Next]_Service!serviceVars
  <1>1. /\ calls[c].st \in {"idle", "sleeping"}
        /\ calls' = [calls EXCEPT ![c].st = "calling", ![c].attempt = @ + 1]
        /\ produced' = produced
    BY DEF Send, Client!Send, workVars
  <1>2. calls \in [Calls -> [st : {"idle", "calling", "sleeping", "returned", "raised"},
                             attempt : 0..RetryLimit, value : Values \cup {Nil}]]
    BY DEF PipelineInv, TypeOK, Client!TypeOK
  <1>3. result' = result /\ made' = made
    BY <1>1, <1>2 DEF result, made
  <1>4. status' = [status EXCEPT ![c] = "pending"]
    BY <1>1, <1>2 DEF status
  <1>5. CASE calls[c].st = "idle"
    <2>1. status[c] = "idle"
      BY <1>5 DEF status
    <2>2. QED
      BY <1>3, <1>4, <2>1 DEF Service!Next, Service!Start
  <1>6. CASE calls[c].st = "sleeping"
    <2>1. status[c] = "pending" /\ status \in [Calls -> {"idle", "pending", "returned", "raised"}]
      BY <1>2, <1>6 DEF status
    <2>2. status' = status
      BY <1>4, <2>1
    <2>3. QED
      BY <1>3, <2>2 DEF Service!serviceVars
  <1>7. QED
    BY <1>1, <1>5, <1>6

(* A call ends with a value one of its own runs produced, or raises, or    *)
(* tries again unseen.                                                     *)
LEMMA ClientStepSeen ==
    ASSUME PipelineInv, NEW c \in Calls, ClientStep(c) PROVE [Service!Next]_Service!serviceVars
  <1>1. produced' = produced /\ calls[c].st = "calling"
    BY DEF ClientStep, Client!ClientStep, Client!Succeed, Client!GiveUp, Client!Retry,
           Client!Failing, workVars
  <1>2. calls \in [Calls -> [st : {"idle", "calling", "sleeping", "returned", "raised"},
                             attempt : 0..RetryLimit, value : Values \cup {Nil}]]
        /\ RetryLimit \in Nat
    BY PipelineAssumption DEF PipelineInv, TypeOK, Client!TypeOK
  <1>3. made' = made /\ status[c] = "pending"
    BY <1>1 DEF made, status
  <1>4. CASE Client!Succeed(c)
    <2> DEFINE n == calls[c].attempt
               v == reply[<<c, n>>]
    <2>1. n \in 1..RetryLimit
      BY <1>1, <1>2 DEF PipelineInv, AttemptsInOrder
    <2>2. <<c, n>> \in Reqs
      BY <2>1 DEF Reqs, Client!Reqs
    <2>3. v \in Values /\ calls' = [calls EXCEPT ![c].st = "returned", ![c].value = v]
      BY <1>4 DEF Client!Succeed, Client!Current
    <2>4. PICK o \in produced[<<c, n>>] : ~o.err /\ v = ToWire(o.res)
      BY <2>2, <2>3 DEF PipelineInv, RequestInv
    <2>5. v \in made[c]
      BY <2>1, <2>4 DEF made
    <2> HIDE DEF v, n
    <2>6. /\ status' = [status EXCEPT ![c] = "returned"]
          /\ result' = [result EXCEPT ![c] = v]
      BY <1>2, <2>3 DEF status, result
    <2>7. Service!Return(c, v)
      BY <1>3, <2>5, <2>6 DEF Service!Return
    <2>8. QED
      BY <2>3, <2>7 DEF Service!Next
  <1>5. CASE Client!GiveUp(c)
    <2>1. calls' = [calls EXCEPT ![c].st = "raised"]
      BY <1>5 DEF Client!GiveUp
    <2>2. status' = [status EXCEPT ![c] = "raised"] /\ result' = result
      BY <1>2, <2>1 DEF status, result
    <2>3. QED
      BY <1>3, <2>2 DEF Service!Next, Service!Raise
  <1>6. CASE Client!Retry(c)
    <2>1. calls' = [calls EXCEPT ![c].st = "sleeping"]
      BY <1>6 DEF Client!Retry
    <2>2. status' = status /\ result' = result
      BY <1>1, <1>2, <2>1 DEF status, result
    <2>3. QED
      BY <1>3, <2>2 DEF Service!serviceVars
  <1>7. QED
    BY <1>4, <1>5, <1>6 DEF ClientStep, Client!ClientStep

(* A run adds its exit code to what its call may return; it can only be a  *)
(* run of a call that was started.                                         *)
LEMMA WorkerSeen ==
    ASSUME PipelineInv, NEW e \in Envlets, Worker(e) PROVE [Service!Next]_Service!serviceVars
  <1>1. Work!Work(e) /\ calls' = calls
    BY DEF Worker, clientVars
  <1>2. CASE produced' = produced
    BY <1>1, <1>2, Unseen
  <1>3. ASSUME NEW out \in Work!Outcome, Work!Executed(e, out)
        PROVE  [Service!Next]_Service!serviceVars
    <2>1. PICK r \in Reqs : r = env[e].job /\ tally[r].pushed > 0
      BY <1>3, Holding DEF Work!Executed, PipelineInv
    <2>2. PICK c \in Calls, n \in 1..RetryLimit : r = <<c, n>>
      BY DEF Reqs, Client!Reqs
    <2>3. /\ produced \in [Reqs -> SUBSET Work!Outcome]
          /\ produced' = [produced EXCEPT ![r] = @ \cup {out}]
      BY <1>3, <2>1 DEF PipelineInv, Work!WorkInv, Work!TypeOK, Work!Executed
    <2>4. \A d \in Calls : \A m \in 1..RetryLimit :
             /\ <<d, m>> \in Reqs
             /\ produced'[<<d, m>>] = IF d = c /\ m = n THEN produced[<<d, m>>] \cup {out}
                                      ELSE produced[<<d, m>>]
      BY <2>2, <2>3 DEF Reqs, Client!Reqs
    <2>5. status[c] # "idle"
      <3>1. stream[r] # "unused"
        BY <2>1 DEF PipelineInv, RequestInv
      <3>2. ~(n > calls[c].attempt) /\ calls[c].attempt \in 0..RetryLimit /\ RetryLimit \in Nat
        BY <2>2, <3>1, PipelineAssumption DEF PipelineInv, TypeOK, Client!TypeOK, AttemptsInOrder
      <3>3. calls[c].st # "idle"
        BY <3>2 DEF PipelineInv, AttemptsInOrder
      <3>4. QED
        BY <3>3 DEF status
    <2>6. status' = status /\ result' = result
      BY <1>1 DEF status, result
    <2>7. CASE out.err
      <3>1. made' = made
        BY <2>4, <2>7 DEF made
      <3>2. QED
        BY <2>6, <3>1 DEF Service!serviceVars
    <2>8. CASE ~out.err
      <3>1. Work!WorkInv' /\ out \in produced'[r]
        BY <1>1, <2>3, WorkSteps DEF PipelineInv
      <3>2. out.res # Nil
        BY <2>8, <3>1 DEF Work!WorkInv, Work!ErrorOrResult
      <3>3. ToWire(out.res) \in Values
        BY <3>2 DEF Work!Outcome, Values
      <3>4. \A d \in Calls : made'[d] = IF d = c THEN made[d] \cup {ToWire(out.res)} ELSE made[d]
        <4> SUFFICES ASSUME NEW d \in Calls, NEW v
                     PROVE  v \in made'[d] <=> v \in made[d] \/ (d = c /\ v = ToWire(out.res))
          BY Zenon
        <4>1. \A x : x \in UNION {produced'[<<d, m>>] : m \in 1..RetryLimit}
                 <=> x \in UNION {produced[<<d, m>>] : m \in 1..RetryLimit} \/ (d = c /\ x = out)
          BY <2>4
        <4>2. QED
          BY <2>8, <4>1 DEF made
      <3>5. made' = [made EXCEPT ![c] = @ \cup {ToWire(out.res)}]
        BY <3>4 DEF made
      <3>6. Service!Run(c, ToWire(out.res))
        BY <2>5, <2>6, <3>5 DEF Service!Run
      <3>7. QED
        BY <3>3, <3>6 DEF Service!Next
    <2>9. QED
      BY <2>7, <2>8
  <1>4. CASE Work!Execute(e) \/ Work!ExecuteFails(e)
    <2>1. PICK out : Work!Executed(e, out) /\ out \in Work!Outcome
      BY <1>4, RunOutcome DEF PipelineInv
    <2>2. QED
      BY <1>3, <2>1
  <1>5. CASE ~(Work!Execute(e) \/ Work!ExecuteFails(e))
    <2>1. produced' = produced
      BY <1>1, <1>5 DEF Work!Work, Work!LoopTop, Work!Blpop, Work!Fetch, Work!FetchCancelled,
         Work!FetchError, Work!Sigterm, Work!CancelFetch, Work!Crash, Work!Restart
    <2>2. QED
      BY <1>2, <2>1
  <1>6. QED
    BY <1>4, <1>5

(* Every step of the pipeline is a step of the service, or unseen. *)
LEMMA ServiceStep == ASSUME PipelineInv, [Next]_vars PROVE [Service!Next]_Service!serviceVars
  <1>1. ASSUME NEW c \in Calls, Send(c) \/ ClientStep(c)
        PROVE  [Service!Next]_Service!serviceVars
    BY <1>1, SendSeen, ClientStepSeen
  <1>2. ASSUME NEW r \in Reqs, ExecHandler(r) \/ Break(r)
        PROVE  [Service!Next]_Service!serviceVars
    <2>1. UNCHANGED <<calls, produced>>
      BY <1>2 DEF ExecHandler, RejectEmptyQueue, Register, EnqueueBlank, EnqueueFails, Enqueue,
         Receive, GiveUpWaiting, Finish, Break, Client!Break, clientVars, workVars
    <2>2. QED
      BY <2>1, Unseen
  <1>3. ASSUME NEW e \in Envlets, Callback(e) \/ CallbackFails(e)
        PROVE  [Service!Next]_Service!serviceVars
    <2>1. UNCHANGED <<calls, produced>>
      BY <1>3 DEF Callback, CallbackFails, Work!Report, Work!ReportFails, clientVars
    <2>2. QED
      BY <2>1, Unseen
  <1>4. CASE ClientClose \/ Housekeeping \/ ProxyEnds \/ ProxyStarts \/ UNCHANGED vars
    <2>1. UNCHANGED <<calls, produced>>
      BY <1>4 DEF ClientClose, Client!Close, Housekeeping, ProxyEnds, ProxyStarts, vars,
         clientVars, workVars
    <2>2. QED
      BY <2>1, Unseen
  <1>5. QED
    BY <1>1, <1>2, <1>3, <1>4, WorkerSeen DEF Next

(* Remote execution implements what execute() promises its caller: every   *)
(* value a call returns was produced by a run of its own binary, and a call*)
(* ends once - through retries, duplicated jobs, late answers, crashes of  *)
(* the workers and restarts of the proxy.                                  *)
THEOREM PipelineImplementsService == Spec => ImplementsService
  <1>1. Init => Service!Init
    BY ServiceInit
  <1>2. PipelineInv /\ [Next]_vars => [Service!Next]_Service!serviceVars
    BY ServiceStep
  <1>3. QED
    BY <1>1, <1>2, PipelineSafe, PTL DEF Spec, ImplementsService, Service!Spec

(* Of the service itself: what a call returned stays among what its runs   *)
(* produced.                                                               *)
THEOREM OwnResultReturned == Spec => []Service!ReturnsOwnResult
  <1>1. Init => Service!ReturnsOwnResult
    BY DEF Init, Client!Init, Service!ReturnsOwnResult, status
  <1>2. Service!ReturnsOwnResult /\ [Service!Next]_Service!serviceVars => Service!ReturnsOwnResult'
    <2> SUFFICES ASSUME Service!ReturnsOwnResult, [Service!Next]_Service!serviceVars,
                        NEW d \in Calls, status'[d] = "returned"
                 PROVE  result'[d] \in made'[d]
      BY DEF Service!ReturnsOwnResult
    <2>1. /\ DOMAIN status = Calls /\ DOMAIN result = Calls /\ DOMAIN made = Calls
          /\ status[d] = "returned" => result[d] \in made[d]
      BY DEF status, result, made, Service!ReturnsOwnResult
    <2>2. \A c \in Calls : /\ Service!Start(c) => d # c /\ status'[d] = status[d] /\ UNCHANGED <<result, made>>
                           /\ Service!Raise(c) => d # c /\ status'[d] = status[d] /\ UNCHANGED <<result, made>>
      BY <2>1 DEF Service!Start, Service!Raise, status
    <2>3. ASSUME NEW c \in Calls, NEW v, Service!Run(c, v)
          PROVE  status' = status /\ result' = result /\ made[d] \subseteq made'[d]
      BY <2>1, <2>3 DEF Service!Run, made
    <2>4. ASSUME NEW c \in Calls, NEW v, Service!Return(c, v)
          PROVE  result'[d] \in made'[d]
      BY <2>1, <2>4 DEF Service!Return, status, result
    <2>5. QED
      BY <2>1, <2>2, <2>3, <2>4 DEF Service!Next, Service!serviceVars
  <1>3. QED
    BY <1>1, <1>2, PipelineImplementsService, PTL DEF Spec, ImplementsService, Service!Spec
=============================================================================
