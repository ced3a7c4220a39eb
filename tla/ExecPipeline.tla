----------------------------- MODULE ExecPipeline -----------------------------
(***************************************************************************)
(* Remote execution from end to end: the calls of a gRPC client            *)
(* (ProxyClient), the proxy's Exec handlers and callback handler around    *)
(* its response store (ResponseStore), the Redis list and the workers      *)
(* (Envlet).  The proxy process and the workers crash and restart, pushes  *)
(* and posts fail or are repeated, a call reconnects under the others.     *)
(***************************************************************************)
EXTENDS Integers, Sequences, FiniteSets

CONSTANTS
    Calls, RetryLimit,    \* of the client
    JobKind,              \* per call: what its binary and pattern are (Envlet)
    QueueName,            \* per call: "jobs", "blank" (only spaces) or "empty"
    Envlets, ExitCodes,   \* of the workers
    WordSize,             \* 2^32, the range of uint32(ExitCode)
    TTL, Minute, MaxTime, \* of the response store
    Nil, Error,
    MaxFaults             \* bound: failures of the environment

VARIABLES
    calls, stream, reply,              \* ProxyClient
    handler,                           \* per request: where its Exec handler is
    proxyUp,                           \* the proxy process runs
    entries, waiters,                  \* ResponseStore
    now, tickAt, sweepNow, cleaner, stopped,
    queue, env, produced, tally,       \* Envlet
    faults

clientVars == <<calls, stream, reply>>
storeTime == <<now, tickAt, sweepNow, cleaner, stopped>>
storeVars == <<entries, waiters, storeTime>>
workVars == <<queue, env, produced, tally>>
vars == <<clientVars, handler, proxyUp, storeVars, workVars, faults>>

(* The exit code as the proxy's reply carries it: uint32(ExitCode). *)
ToWire(code) == code % WordSize
Values == {ToWire(code) : code \in ExitCodes}

Client == INSTANCE ProxyClient WITH
    Faulty <- {c \in Calls : JobKind[c] # "normal" \/ QueueName[c] # "jobs"}

(* Every attempt is a fresh request: its uuid is its job's id, the key of  *)
(* its waiter, and a handle of its own.                                    *)
Reqs == Client!Reqs

Work == INSTANCE Envlet WITH
    Jobs <- Reqs, KindOf <- [r \in Reqs |-> JobKind[r[1]]], MaxPushes <- 0

(* A delivered model.Response with the id it is delivered under. *)
Responses == [id : Reqs, res : ExitCodes \cup {Nil}, err : BOOLEAN]

Store == INSTANCE ResponseStore WITH
    Ids <- Reqs, Handles <- Reqs, IdOf <- [p \in Responses |-> p.id]

(* Nil and Error are values of their own; TTL and Minute are durations. *)
ASSUME PipelineAssumption ==
    /\ RetryLimit \in Nat \ {0} /\ WordSize \in Nat \ {0} /\ MaxFaults \in Nat
    /\ TTL \in Nat /\ Minute \in Nat \ {0} /\ MaxTime \in Nat \ {0}
    /\ IsFiniteSet(Envlets)
    /\ ExitCodes \subseteq Int
    /\ JobKind \in [Calls -> Work!Kinds]
    /\ QueueName \in [Calls -> {"jobs", "blank", "empty"}]
    /\ Nil \notin Reqs \cup Responses \cup ExitCodes \cup Work!Outcome \cup Values \cup {Error}
    /\ Nil \notin Store!Entry
    /\ Error \notin Values

Fault == faults < MaxFaults /\ faults' = faults + 1

Init ==
    /\ Client!Init
    /\ Work!Init
    /\ Store!Init
    /\ handler = [r \in Reqs |-> "none"]
    /\ proxyUp = TRUE

-----------------------------------------------------------------------------
(* The client.  A request sent while the proxy is down reaches no handler. *)
Send(c) ==
    /\ Client!Send(c, proxyUp)
    /\ handler' = IF proxyUp THEN handler
                  ELSE [handler EXCEPT ![<<c, calls[c].attempt + 1>>] = "gone"]
    /\ UNCHANGED <<proxyUp, storeVars, workVars>>

ClientStep(c) == Client!ClientStep(c) /\ UNCHANGED <<handler, proxyUp, storeVars, workVars>>

ClientClose == Client!Close /\ UNCHANGED <<handler, proxyUp, storeVars, workVars>>

-----------------------------------------------------------------------------
(* The Exec handler of request r.  Its context is done once its stream is. *)
At(r, place) == proxyUp /\ handler[r] = place
CtxDone(r) == stream[r] # "open"

(* A mistake: the reply goes to every open stream of the channel. *)
RespondToAll(r, v) ==
    reply' = [q \in Reqs |-> IF CtxDone(q) THEN reply[q] ELSE v]

(* The reply reaches the client if the stream is still there. *)
Respond(r, v) == reply' = IF CtxDone(r) THEN reply ELSE [reply EXCEPT ![r] = v]

RejectEmptyQueue(r) ==
    /\ At(r, "none") /\ stream[r] # "unused"
    /\ QueueName[r[1]] = "empty"
    /\ Respond(r, Error)
    /\ handler' = [handler EXCEPT ![r] = "gone"]
    /\ UNCHANGED <<calls, stream, proxyUp, storeVars, workVars, faults>>

(* A mistake: the waiter is not registered before the push. *)
RegisterTooLate(r) ==
    /\ At(r, "none") /\ stream[r] # "unused"
    /\ QueueName[r[1]] # "empty"
    /\ handler' = [handler EXCEPT ![r] = "enqueue"]
    /\ UNCHANGED <<clientVars, proxyUp, storeVars, workVars, faults>>

(* The waiter is registered before the job can be in the list. *)
Register(r) ==
    /\ At(r, "none") /\ stream[r] # "unused"
    /\ QueueName[r[1]] # "empty"
    /\ Store!Waiter(r, r)
    /\ handler' = [handler EXCEPT ![r] = IF waiters'[r].st = "open" THEN "enqueue" ELSE "gone"]
    /\ IF waiters'[r].st = "open" THEN UNCHANGED reply ELSE Respond(r, Error)
    /\ UNCHANGED <<calls, stream, proxyUp, workVars, faults>>

(* Enqueue of a queue name that is empty once its spaces are trimmed. *)
EnqueueBlank(r) ==
    /\ At(r, "enqueue")
    /\ QueueName[r[1]] = "blank"
    /\ handler' = [handler EXCEPT ![r] = "close"]
    /\ UNCHANGED <<clientVars, proxyUp, storeVars, workVars, faults>>

(* RPUSH succeeds, after n pushes that Redis carried out. *)
Enqueue(r, n) ==
    /\ At(r, "enqueue")
    /\ QueueName[r[1]] = "jobs"
    /\ Work!Push(r, n)
    /\ handler' = [handler EXCEPT ![r] = "wait"]
    /\ UNCHANGED <<clientVars, proxyUp, storeVars, env, produced>>

(* A mistake: the deferred Close stands after the push. *)
EnqueueFailsUnclosed(r) ==
    /\ At(r, "enqueue")
    /\ QueueName[r[1]] = "jobs"
    /\ Fault \/ (CtxDone(r) /\ UNCHANGED faults)
    /\ \E n \in {0, 1} : Work!Push(r, n)
    /\ handler' = [handler EXCEPT ![r] = "gone"]
    /\ Respond(r, Error)
    /\ UNCHANGED <<calls, stream, proxyUp, storeVars, env, produced>>

(* RPUSH returns an error: the context's or Redis's, carried out or not. *)
EnqueueFails(r) ==
    /\ At(r, "enqueue")
    /\ QueueName[r[1]] = "jobs"
    /\ Fault \/ (CtxDone(r) /\ UNCHANGED faults)
    /\ \E n \in {0, 1} : Work!Push(r, n)
    /\ handler' = [handler EXCEPT ![r] = "close"]
    /\ UNCHANGED <<clientVars, proxyUp, storeVars, env, produced>>

Receive(r) ==
    /\ At(r, "wait")
    /\ Store!WaitReceive(r)
    /\ handler' = [handler EXCEPT ![r] = "close"]
    /\ UNCHANGED <<clientVars, proxyUp, workVars, faults>>

GiveUpWaiting(r) ==
    /\ At(r, "wait")
    /\ CtxDone(r)
    /\ Store!WaitCancelled(r)
    /\ handler' = [handler EXCEPT ![r] = "close"]
    /\ UNCHANGED <<clientVars, proxyUp, workVars, faults>>

(* A mistake: the job's error is not looked at when there is a result. *)
ReplyIgnoresError(w) ==
    IF w.st = "received" /\ w.got.res # Nil THEN ToWire(w.got.res) ELSE Error

(* What Exec returns: the error of a failed step or of the job, or the     *)
(* result with its exit code as an unsigned word.                          *)
ReplyOf(w) == IF w.st = "received" /\ ~w.got.err THEN ToWire(w.got.res) ELSE Error

(* A mistake: the handler never returns. *)
FinishSilently(r) ==
    /\ At(r, "close")
    /\ Store!CloseWaiter(r)
    /\ handler' = [handler EXCEPT ![r] = "gone"]
    /\ UNCHANGED <<clientVars, proxyUp, workVars, faults>>

(* The handler returns, through its deferred Close. *)
Finish(r) ==
    /\ At(r, "close")
    /\ Store!CloseWaiter(r)
    /\ Respond(r, ReplyOf(waiters[r]))
    /\ handler' = [handler EXCEPT ![r] = "gone"]
    /\ UNCHANGED <<calls, stream, proxyUp, workVars, faults>>

-----------------------------------------------------------------------------
(* The workers; a report is a call of the proxy's callback handler, which  *)
(* delivers it under the id of the URL.                                    *)
Worker(e) == Work!Work(e) /\ UNCHANGED <<clientVars, handler, proxyUp, storeVars>>

(* Mistakes: the payload is dropped; its error field is lost. *)
CallbackDropped(e) ==
    /\ proxyUp
    /\ Work!Report(e)
    /\ UNCHANGED <<clientVars, handler, proxyUp, storeVars>>

CallbackWithoutError(e) ==
    /\ proxyUp
    /\ Work!Report(e)
    /\ Store!Deliver(env[e].job, [id |-> env[e].job, res |-> env[e].out.res, err |-> FALSE])
    /\ UNCHANGED <<clientVars, handler, proxyUp>>

Callback(e) ==
    /\ proxyUp
    /\ Work!Report(e)
    /\ Store!Deliver(env[e].job, [id |-> env[e].job, res |-> env[e].out.res, err |-> env[e].out.err])
    /\ UNCHANGED <<clientVars, handler, proxyUp>>

CallbackFails(e) ==
    /\ Work!ReportFails(e)
    /\ Fault \/ (~proxyUp /\ UNCHANGED faults)
    /\ UNCHANGED <<clientVars, handler, proxyUp, storeVars>>

-----------------------------------------------------------------------------
(* The store's own steps, while the process runs. *)
Housekeeping ==
    /\ proxyUp
    /\ Store!CleanupTick \/ Store!CleanupSweep \/ Store!Advance
    /\ UNCHANGED <<clientVars, handler, proxyUp, workVars, faults>>

(* The proxy process ends, by a signal or by itself: the handlers and the  *)
(* store are gone, the streams break, the list and the workers stay.       *)
ProxyEnds ==
    /\ proxyUp /\ Fault
    /\ proxyUp' = FALSE
    /\ stream' = Client!Terminated(Calls)
    /\ handler' = [r \in Reqs |-> IF stream[r] = "unused" THEN "none" ELSE "gone"]
    /\ entries' = [r \in Reqs |-> Nil]
    /\ waiters' = [r \in Reqs |-> IF waiters[r].st = "free" THEN waiters[r]
                                  ELSE [st |-> "closed", id |-> r, buf |-> Nil, got |-> Nil]]
    /\ tickAt' = now + Store!CleanupInterval /\ sweepNow' = 0 /\ cleaner' = "select"
    /\ UNCHANGED <<calls, reply, now, stopped, workVars>>

ProxyStarts ==
    /\ ~proxyUp
    /\ proxyUp' = TRUE
    /\ UNCHANGED <<clientVars, handler, storeVars, workVars, faults>>

(* A connection breaks. *)
Break(r) == Client!Break(r) /\ UNCHANGED <<handler, proxyUp, storeVars, workVars>>

ExecHandler(r) ==
    \/ RejectEmptyQueue(r) \/ Register(r)
    \/ EnqueueBlank(r) \/ EnqueueFails(r)
    \/ Enqueue(r, 1) /\ UNCHANGED faults
    \/ Enqueue(r, 2) /\ Fault
    \/ Receive(r) \/ GiveUpWaiting(r) \/ Finish(r)

Next ==
    \/ \E c \in Calls : Send(c) \/ ClientStep(c)
    \/ \E r \in Reqs : ExecHandler(r) \/ Break(r)
    \/ \E e \in Envlets : Worker(e) \/ Callback(e) \/ CallbackFails(e)
    \/ ClientClose \/ Housekeeping \/ ProxyEnds \/ ProxyStarts

Spec == Init /\ [][Next]_vars

(* What can go on does: the event loop of the client, the handlers whose   *)
(* stream is still there, the workers as in Envlet, the restart of a       *)
(* process.  Nothing has to fail, to be cancelled or to be stopped.        *)
Fairness ==
    /\ \A c \in Calls : WF_vars(Send(c)) /\ WF_vars(ClientStep(c))
    /\ \A r \in Reqs :
          WF_vars(~CtxDone(r) /\ (\/ RejectEmptyQueue(r) \/ Register(r) \/ EnqueueBlank(r)
                                 \/ (Enqueue(r, 1) /\ UNCHANGED faults)
                                 \/ Receive(r) \/ Finish(r)))
    /\ \A e \in Envlets :
          /\ WF_vars(Worker(e) /\ (\/ Work!LoopTop(e) \/ Work!Blpop(e) \/ Work!Fetch(e)
                                  \/ Work!FetchCancelled(e)
                                  \/ Work!Execute(e) \/ Work!Restart(e)))
          /\ WF_vars(Callback(e))
    /\ WF_vars(ProxyStarts)

FairSpec == Spec /\ Fairness

-----------------------------------------------------------------------------
TypeOK ==
    /\ Client!TypeOK /\ Work!TypeOK
    /\ handler \in [Reqs -> {"none", "enqueue", "wait", "close", "gone"}]
    /\ proxyUp \in BOOLEAN

(* A handler that waits has something to wait for: its job is in the list  *)
(* or in a worker's hands, or the answer is in its channel - unless a      *)
(* failure destroyed the job.  Neither a SIGTERM of a worker nor a late    *)
(* answer to another attempt nor a sweep of the store can break it.        *)
WaitingJobAlive ==
    \A r \in Reqs :
        (handler[r] = "wait" /\ waiters[r].st = "open" /\ tally[r].lost = 0)
        => \/ Work!Copies(r) + Work!Holders(r) > 0
           \/ waiters[r].buf # Nil

(* Handler r has its answer or has given up. *)
Answered(r) == handler[r] \in {"close", "gone"} \/ (handler[r] = "wait" /\ waiters[r].buf # Nil)

(* The store keeps a response only for a handler that has its answer or has*)
(* given up: since Exec registers its waiter before it pushes the job, no  *)
(* response arrives early, and sweeping what is stored loses nothing.      *)
StoredIsOrphan ==
    \A r \in Reqs : (entries[r] # Nil /\ entries[r].resp # Nil) => Answered(r)

(* A handler that has returned left no channel in the store's map, whatever*)
(* ended it: a failed push, its context, an answer to another attempt, the *)
(* end of the process.  The sweep passes over channels, so one left behind *)
(* would stay there for ever.                                              *)
NoChannelLeft ==
    \A r \in Reqs : handler[r] = "gone" => \A id \in Reqs : ~Store!Registered(r, id)

(* A handler never follows a nil result: what is delivered to it without   *)
(* an error has a result.                                                  *)
NoNilResult ==
    \A r \in Reqs : waiters[r].got # Nil => waiters[r].got.err \/ waiters[r].got.res # Nil

(* What the callers of the client see: a call that sleeps or calls is      *)
(* pending, and what its runs produced without an error is what it may     *)
(* return.                                                                 *)
status == [c \in Calls |-> IF calls[c].st \in {"calling", "sleeping"} THEN "pending"
                           ELSE calls[c].st]
result == [c \in Calls |-> calls[c].value]
made == [c \in Calls |->
          {ToWire(o.res) : o \in {p \in UNION {produced[<<c, n>>] : n \in 1..RetryLimit} : ~p.err}}]

Service == INSTANCE ExecService

(* Every value a call returns was produced by a run of its own binary, and *)
(* a call ends once, through retries, duplicated jobs, late answers and a  *)
(* restarted proxy.                                                        *)
ImplementsService == Service!Spec

(* Every attempt ends, unless a failure destroyed its job while the proxy  *)
(* and the connection lived on - nothing times out then - or every worker  *)
(* was stopped.  So every call ends.                                       *)
AttemptsEnd ==
    \A r \in Reqs : (stream[r] \in {"open", "broken"}) ~>
        \/ stream[r] = "done"
        \/ tally[r].lost > 0
        \/ \A e \in Envlets : env[e].pc = "exited"

(* What the proofs need besides.  A call uses its requests one by one. *)
AttemptsInOrder ==
    \A c \in Calls :
        /\ calls[c].st = "idle" <=> calls[c].attempt = 0
        /\ calls[c].st = "sleeping" => calls[c].attempt < RetryLimit
        /\ \A n \in 1..RetryLimit : stream[<<c, n>>] = "unused" <=> n > calls[c].attempt

(* A handler registers its waiter before it pushes and pushes before it    *)
(* waits; what is reported or stored ends its wait; and nothing is kept for*)
(* it or replied that a run of its own request did not produce.            *)
Real(p) == [res |-> p.res, err |-> p.err] \in produced[p.id]

RequestInv(r) ==
    /\ stream[r] = "unused" => handler[r] = "none"
    /\ handler[r] = "none" => waiters[r].st = "free"
    /\ handler[r] \in {"none", "enqueue"} => tally[r].pushed = 0
    /\ handler[r] \in {"enqueue", "wait"} => waiters[r].st = "open"
    /\ handler[r] = "wait" => tally[r].pushed > 0
    /\ handler[r] = "gone" => waiters[r].st \in {"free", "refused", "closed"}
    /\ waiters[r].st # "free" => waiters[r].id = r
    /\ waiters[r].st = "received" => waiters[r].got # Nil
    /\ tally[r].reported > 0 => Answered(r)
    /\ entries[r] # Nil => entries[r].resp = Nil \/ Answered(r)
    /\ \A p \in Responses :
          \/ p \in {waiters[r].buf, waiters[r].got}
          \/ entries[r] # Nil /\ entries[r].resp = p
          => Real(p)
    /\ reply[r] \in Values => \E o \in produced[r] : ~o.err /\ reply[r] = ToWire(o.res)

(* The inductive strengthening of the invariants above. *)
PipelineInv ==
    /\ TypeOK /\ Work!WorkInv /\ Store!StoreInv
    /\ AttemptsInOrder
    /\ \A r \in Reqs : RequestInv(r)
=============================================================================
