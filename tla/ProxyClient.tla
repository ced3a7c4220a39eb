----------------------------- MODULE ProxyClient -----------------------------
(***************************************************************************)
(* The gRPC client of the Python SDK (_GRPCProxyClient of proxy_client.py):*)
(* concurrent execute() calls of one event loop share ONE channel; a call  *)
(* that fails closes that channel, opens a new one, sleeps and tries again,*)
(* up to RetryLimit attempts.  Closing the channel terminates the streams  *)
(* of all the other calls.  The steps are what runs between two awaits.    *)
(***************************************************************************)
EXTENDS Integers, FiniteSetsExt

CONSTANTS
    Calls,       \* execute() calls on one client
    RetryLimit,  \* self._retry_limit
    Values,      \* answers an attempt can get
    Nil,         \* Python's None
    Error,       \* an error status (GRPCError)
    Faulty,      \* calls the proxy always answers with an error
    MaxFaults    \* bound: failures of the environment

ASSUME ClientAssumption ==
    /\ RetryLimit \in Nat \ {0}
    /\ IsFiniteSet(Calls)
    /\ Faulty \subseteq Calls
    /\ Nil \notin Values
    /\ Error \notin Values
    /\ Nil # Error
    /\ MaxFaults \in Nat

(* Each attempt is a request of its own. *)
Reqs == Calls \X (1..RetryLimit)

VARIABLES
    calls,   \* per call: where execute() is, the attempt (from 1), the result
    stream,  \* per request: its stream as the client sees it
    reply,   \* per request: what the proxy sent back, Nil if nothing yet
    faults

clientVars == <<calls, stream, reply, faults>>

Fault == faults < MaxFaults /\ faults' = faults + 1

Init ==
    /\ calls = [c \in Calls |-> [st |-> "idle", attempt |-> 0, value |-> Nil]]
    /\ stream = [r \in Reqs |-> "unused"]
    /\ reply = [r \in Reqs |-> Nil]
    /\ faults = 0

-----------------------------------------------------------------------------
(* The request of call c's current attempt. *)
Current(c) == <<c, calls[c].attempt>>

(* A call enters or re-enters the loop: self._stub.Exec on the channel of  *)
(* the moment.  up says whether the proxy can be reached.                  *)
Send(c, up) ==
    /\ calls[c].st \in {"idle", "sleeping"}
    /\ calls' = [calls EXCEPT ![c].st = "calling", ![c].attempt = @ + 1]
    /\ stream' = [stream EXCEPT ![<<c, calls[c].attempt + 1>>] = IF up THEN "open" ELSE "broken"]
    /\ UNCHANGED <<reply, faults>>

(* The stub returns a response; execute() returns it. *)
Succeed(c) ==
    /\ calls[c].st = "calling"
    /\ stream[Current(c)] = "open"
    /\ reply[Current(c)] \in Values
    /\ calls' = [calls EXCEPT ![c].st = "returned", ![c].value = reply[Current(c)]]
    /\ stream' = [stream EXCEPT ![Current(c)] = "done"]
    /\ UNCHANGED <<reply, faults>>

(* The stub raises: an error status, or the stream was terminated. *)
Failing(c) ==
    /\ calls[c].st = "calling"
    /\ stream[Current(c)] = "broken" \/ reply[Current(c)] = Error

(* A mistake: one attempt too many. *)
LastAttemptLate(c) == calls[c].attempt > RetryLimit

LastAttempt(c) == calls[c].attempt = RetryLimit

(* A mistake: the last failure reconnects as well. *)
GiveUpReconnecting(c) ==
    /\ Failing(c)
    /\ LastAttempt(c)
    /\ calls' = [calls EXCEPT ![c].st = "raised"]
    /\ stream' = [r \in Reqs |-> IF r = Current(c) THEN "done"
                                ELSE IF stream[r] = "open" THEN "broken" ELSE stream[r]]
    /\ UNCHANGED <<reply, faults>>

GiveUp(c) ==
    /\ Failing(c)
    /\ LastAttempt(c)
    /\ calls' = [calls EXCEPT ![c].st = "raised"]
    /\ stream' = [stream EXCEPT ![Current(c)] = "done"]
    /\ UNCHANGED <<reply, faults>>

(* The streams once self._channel.close() terminated those of the calls in S. *)
Terminated(S) ==
    [r \in Reqs |-> IF stream[r] = "open" /\ r[1] \in S THEN "broken" ELSE stream[r]]

(* A mistake: the failed attempt does not count. *)
RetryUncounted(c) ==
    /\ Failing(c)
    /\ ~LastAttempt(c)
    /\ calls' = [calls EXCEPT ![c].st = "sleeping", ![c].attempt = @ - 1]
    /\ stream' = [Terminated(Calls \ {c}) EXCEPT ![Current(c)] = "done"]
    /\ UNCHANGED <<reply, faults>>

(* The except clause up to the sleep: nothing in it waits, the lock of     *)
(* _reconnect is never held across an await.                               *)
Retry(c) ==
    /\ Failing(c)
    /\ ~LastAttempt(c)
    /\ calls' = [calls EXCEPT ![c].st = "sleeping"]
    /\ stream' = [Terminated(Calls \ {c}) EXCEPT ![Current(c)] = "done"]
    /\ UNCHANGED <<reply, faults>>

(* close() under running calls terminates their streams; each of them then *)
(* reconnects.                                                             *)
Close ==
    /\ Fault
    /\ stream' = Terminated(Calls)
    /\ UNCHANGED <<calls, reply>>

ClientStep(c) == Succeed(c) \/ GiveUp(c) \/ Retry(c)

-----------------------------------------------------------------------------
(* Alone, the client meets a proxy that answers as it likes - a faulty     *)
(* call always with an error, a healthy one never - and a network that     *)
(* breaks streams.                                                         *)
Answer(r) ==
    /\ stream[r] = "open"
    /\ reply[r] = Nil
    /\ \E v \in (IF r[1] \in Faulty THEN {Error} ELSE Values) : reply' = [reply EXCEPT ![r] = v]
    /\ UNCHANGED <<calls, stream, faults>>

Break(r) ==
    /\ stream[r] = "open"
    /\ Fault
    /\ stream' = [stream EXCEPT ![r] = "broken"]
    /\ UNCHANGED <<calls, reply>>

Next ==
    \/ \E c \in Calls : Send(c, TRUE) \/ (faults > 0 /\ Send(c, FALSE)) \/ ClientStep(c)
    \/ \E r \in Reqs : Answer(r) \/ Break(r)
    \/ Close

Spec == Init /\ [][Next]_clientVars

(* The event loop runs every coroutine that can go on, a sleep ends, and   *)
(* the proxy answers.                                                      *)
FairSpec ==
    /\ Spec
    /\ \A c \in Calls : WF_clientVars(Send(c, TRUE)) /\ WF_clientVars(ClientStep(c))
    /\ \A r \in Reqs : WF_clientVars(Answer(r))

-----------------------------------------------------------------------------
TypeOK ==
    /\ calls \in [Calls -> [st : {"idle", "calling", "sleeping", "returned", "raised"},
                            attempt : 0..RetryLimit, value : Values \cup {Nil}]]
    /\ stream \in [Reqs -> {"unused", "open", "broken", "done"}]
    /\ reply \in [Reqs -> Values \cup {Nil, Error}]
    /\ faults \in 0..MaxFaults

(* How often a call has gone through the except clause and reconnected. *)
Reconnects(d) == IF calls[d].st = "sleeping" \/ calls[d].attempt = 0
                 THEN calls[d].attempt ELSE calls[d].attempt - 1

(* A healthy call is failed only by the environment or by the others, and  *)
(* each reconnect of another call costs it at most one attempt.  With one  *)
(* other call, however often that fails, a healthy call never raises.      *)
HealthyCallSurvives ==
    \A c \in Calls \ Faulty :
        calls[c].st = "raised" /\ faults = 0
        => MapThenSumSet(Reconnects, Calls \ {c}) >= RetryLimit

(* Every call returns or raises: calls that reconnect under each other do  *)
(* not do so for ever.                                                     *)
CallsEnd == \A c \in Calls : (calls[c].st = "calling") ~> (calls[c].st \in {"returned", "raised"})

-----------------------------------------------------------------------------
(* What the steps keep: only a call in the loop has an attempt under way,  *)
(* and one that sleeps has another to make.                                *)
AttemptsLeft ==
    \A c \in Calls : /\ calls[c].st = "idle" => calls[c].attempt = 0
                     /\ calls[c].st = "calling" => calls[c].attempt > 0
                     /\ calls[c].st = "sleeping" => calls[c].attempt < RetryLimit

(* The reconnects of the calls in S, one by one. *)
Spent(S) == {p \in S \X (1..RetryLimit) : p[2] <= Reconnects(p[1])}

(* A call whose attempt was cut off, or the last of them. *)
Cut(c) == calls[c].st = "raised" \/ (calls[c].st = "calling" /\ stream[Current(c)] = "broken")

(* As long as nothing fails outside, a healthy call that was cut off or    *)
(* has reconnected owes each time of it to a reconnect of another call.    *)
SetbacksPaid ==
    faults = 0 =>
       \A c \in Calls \ Faulty :
          /\ calls[c].st = "raised" => calls[c].attempt = RetryLimit
          /\ \A n \in 1..RetryLimit : reply[<<c, n>>] # Error
          /\ Reconnects(c) + (IF Cut(c) THEN 1 ELSE 0) <= Cardinality(Spent(Calls \ {c}))
=============================================================================
