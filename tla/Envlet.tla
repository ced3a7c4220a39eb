-------------------------------- MODULE Envlet --------------------------------
(***************************************************************************)
(* The workers: each envlet pops a job from the Redis list, runs its       *)
(* binary in a temporary directory, posts the outcome to the job's callback*)
(* URL and starts over, until SIGTERM (envlet/cmd/envlet/main.go with the  *)
(* packages jobqueue, executor and reporter).  Redis, the network and the  *)
(* machine are the environment: they may fail MaxFaults times.             *)
(***************************************************************************)
EXTENDS Integers, Sequences, FiniteSets

CONSTANTS
    Envlets,    \* worker processes
    Jobs,       \* job ids
    KindOf,     \* per job: "normal", "badCapture" or "empty"
    ExitCodes,  \* what exitErr.ExitCode() and state.ExitCode() may be
    Nil,        \* Go's nil
    MaxPushes,  \* bound: how often the environment pushes a job when alone
    MaxFaults   \* bound: failures of the environment

Kinds == {"normal", "badCapture", "empty"}

(* Execute's result pointer and error: err says whether the error is not nil. *)
Outcome == [res : ExitCodes \cup {Nil}, err : BOOLEAN]

ASSUME EnvletAssumption ==
    /\ IsFiniteSet(Envlets)
    /\ KindOf \in [Jobs -> Kinds]
    /\ ExitCodes \subseteq Int
    /\ Nil \notin ExitCodes \cup Jobs \cup Outcome
    /\ MaxPushes \in Nat
    /\ MaxFaults \in Nat

VARIABLES
    queue,      \* the Redis list, head first
    env,        \* per envlet: its place in main's loop, job, outcome and flags
    produced,   \* per job: the outcomes its runs had
    tally,      \* per job: how often it was pushed, run, reported and lost
    faults      \* failures so far

envletVars == <<queue, env, produced, tally, faults>>

Fresh == [pc |-> "loop", job |-> Nil, out |-> Nil, stop |-> FALSE, cancelled |-> FALSE]

Fault == faults < MaxFaults /\ faults' = faults + 1

Init ==
    /\ queue = <<>>
    /\ env = [e \in Envlets |-> Fresh]
    /\ produced = [j \in Jobs |-> {}]
    /\ tally = [j \in Jobs |-> [pushed |-> 0, run |-> 0, reported |-> 0, lost |-> 0]]
    /\ faults = 0

-----------------------------------------------------------------------------
(* RPUSH of n copies: the Redis client repeats a push it got no answer to. *)
Push(j, n) ==
    /\ queue' = queue \o [i \in 1..n |-> j]
    /\ tally' = [tally EXCEPT ![j].pushed = @ + n]

(* The top of the loop: stop.Load() ends main, else Fetch is called. *)
LoopTop(e) ==
    /\ env[e].pc = "loop"
    /\ env' = [env EXCEPT ![e].pc = IF env[e].stop THEN "exited" ELSE "fetch"]
    /\ UNCHANGED <<queue, produced, tally, faults>>

(* A mistake: Fetch is given the background context, as Execute is. *)
BlpopInBackground(e) ==
    /\ env[e].pc = "fetch"
    /\ env' = [env EXCEPT ![e].pc = "blocked"]
    /\ UNCHANGED <<queue, produced, tally, faults>>

(* Fetch sends BLPOP with no timeout: the client looks at the context      *)
(* before that, and not while it reads the answer.                         *)
Blpop(e) ==
    /\ env[e].pc = "fetch"
    /\ ~env[e].cancelled
    /\ env' = [env EXCEPT ![e].pc = "blocked"]
    /\ UNCHANGED <<queue, produced, tally, faults>>

(* Mistakes: the job fetched during a shutdown is dropped; the element     *)
(* stays in the list; the job goes back to the list; the list is the job.  *)
FetchDropsOnStop(e) ==
    /\ env[e].pc = "blocked"
    /\ queue # <<>>
    /\ env' = IF env[e].stop THEN [env EXCEPT ![e].pc = "exited"]
              ELSE [env EXCEPT ![e].pc = "execute", ![e].job = Head(queue)]
    /\ queue' = Tail(queue)
    /\ UNCHANGED <<produced, tally, faults>>

FetchKeeps(e) ==
    /\ env[e].pc = "blocked"
    /\ queue # <<>>
    /\ env' = [env EXCEPT ![e].pc = "execute", ![e].job = Head(queue)]
    /\ UNCHANGED <<queue, produced, tally, faults>>

FetchRequeues(e) ==
    /\ env[e].pc = "blocked"
    /\ queue # <<>>
    /\ env' = [env EXCEPT ![e].pc = "loop"]
    /\ queue' = Append(Tail(queue), Head(queue))
    /\ UNCHANGED <<produced, tally, faults>>

(* BLPOP returns a job, even while a shutdown is under way. *)
Fetch(e) ==
    /\ env[e].pc = "blocked"
    /\ queue # <<>>
    /\ env' = [env EXCEPT ![e].pc = "execute", ![e].job = Head(queue)]
    /\ queue' = Tail(queue)
    /\ UNCHANGED <<produced, tally, faults>>

(* Called with a cancelled context Fetch returns its error: main leaves    *)
(* the loop when stop is set, and goes round it otherwise.                 *)
FetchCancelled(e) ==
    /\ env[e].pc = "fetch"
    /\ env[e].cancelled
    /\ env' = [env EXCEPT ![e].pc = IF env[e].stop THEN "exited" ELSE "loop"]
    /\ UNCHANGED <<queue, produced, tally, faults>>

(* Fetch returns a Redis error: the loop goes on, unless a shutdown is     *)
(* under way.  The popped element may be gone with the connection.         *)
FetchError(e) ==
    /\ env[e].pc \in {"fetch", "blocked"}
    /\ Fault
    /\ env' = [env EXCEPT ![e].pc = IF env[e].cancelled /\ env[e].stop
                                    THEN "exited" ELSE "loop"]
    /\ \/ UNCHANGED <<queue, tally>>
       \/ /\ env[e].pc = "blocked"
          /\ queue # <<>>
          /\ queue' = Tail(queue)
          /\ tally' = [tally EXCEPT ![Head(queue)].lost = @ + 1]
    /\ UNCHANGED produced

(* What Execute returns for a job of kind k.  A binary that is empty or    *)
(* does not start has no result; a capture pattern that does not compile   *)
(* is found after the run and leaves a result AND an error; a non-zero     *)
(* exit is a result like any other.                                        *)
Outcomes(k) ==
    CASE k = "empty"      -> {[res |-> Nil, err |-> TRUE]}
      [] k = "badCapture" -> [res : ExitCodes, err : {TRUE}]
      [] k = "normal"     -> [res : ExitCodes, err : {FALSE}]

(* Execute returns out for the job in hand. *)
Executed(e, out) ==
    /\ env[e].pc = "execute"
    /\ env' = [env EXCEPT ![e].pc = "report", ![e].out = out]
    /\ tally' = [tally EXCEPT ![env[e].job].run = @ + 1]
    /\ produced' = [produced EXCEPT ![env[e].job] = @ \cup {out}]
    /\ UNCHANGED queue

Execute(e) ==
    /\ env[e].pc = "execute"
    /\ \E out \in Outcomes(KindOf[env[e].job]) : Executed(e, out)
    /\ UNCHANGED faults

(* Without a temporary directory, a written binary or a complete walk over *)
(* the captured files Execute fails for any job.                           *)
ExecuteFails(e) ==
    /\ Fault
    /\ \E res \in ExitCodes \cup {Nil} : Executed(e, [res |-> res, err |-> TRUE])

(* Report posts the outcome once; whatever comes of it, the loop goes on.  *)
(* The stop.Load() after it decides what the one at the top decides.       *)
Report(e) ==
    /\ env[e].pc = "report"
    /\ tally' = [tally EXCEPT ![env[e].job].reported = @ + 1]
    /\ env' = [env EXCEPT ![e].pc = "loop", ![e].job = Nil, ![e].out = Nil]
    /\ UNCHANGED <<queue, produced, faults>>

(* The post did not reach a callback server: it is logged and forgotten. *)
ReportFails(e) ==
    /\ env[e].pc = "report"
    /\ tally' = [tally EXCEPT ![env[e].job].lost = @ + 1]
    /\ env' = [env EXCEPT ![e].pc = "loop", ![e].job = Nil, ![e].out = Nil]
    /\ UNCHANGED <<queue, produced>>

Alive(e) == env[e].pc \notin {"exited", "crashed"}

(* The signal goroutine: stop first, the cancellation of Fetch after it. *)
Sigterm(e) ==
    /\ Alive(e)
    /\ ~env[e].stop
    /\ env' = [env EXCEPT ![e].stop = TRUE]
    /\ UNCHANGED <<queue, produced, tally, faults>>

CancelFetch(e) ==
    /\ Alive(e)
    /\ env[e].stop
    /\ ~env[e].cancelled
    /\ env' = [env EXCEPT ![e].cancelled = TRUE]
    /\ UNCHANGED <<queue, produced, tally, faults>>

(* The process dies with the job it holds; it is started again. *)
Crash(e) ==
    /\ Alive(e)
    /\ Fault
    /\ env' = [env EXCEPT ![e] = [Fresh EXCEPT !.pc = "crashed"]]
    /\ tally' = IF env[e].job = Nil THEN tally
                ELSE [tally EXCEPT ![env[e].job].lost = @ + 1]
    /\ UNCHANGED <<queue, produced>>

Restart(e) ==
    /\ env[e].pc = "crashed"
    /\ env' = [env EXCEPT ![e] = Fresh]
    /\ UNCHANGED <<queue, produced, tally, faults>>

-----------------------------------------------------------------------------
(* The steps that need no callback server. *)
Work(e) ==
    \/ LoopTop(e) \/ Blpop(e) \/ Fetch(e) \/ FetchCancelled(e) \/ FetchError(e)
    \/ Execute(e) \/ ExecuteFails(e)
    \/ Sigterm(e) \/ CancelFetch(e) \/ Crash(e) \/ Restart(e)

(* Alone, the workers live in an environment that pushes each job up to    *)
(* MaxPushes times and receives or loses each callback.                    *)
Next ==
    \/ \E e \in Envlets : Work(e) \/ Report(e) \/ (ReportFails(e) /\ Fault)
    \/ \E j \in Jobs : /\ tally[j].pushed < MaxPushes
                       /\ Push(j, 1)
                       /\ UNCHANGED <<env, produced, faults>>

Spec == Init /\ [][Next]_envletVars

(* A worker that can go on does: BLPOP returns what it popped, a call with *)
(* a cancelled context its error, a binary ends, a post is answered, a     *)
(* crashed process is started again.  Nobody has to fail or to be stopped. *)
Fairness(e) ==
    /\ WF_envletVars(LoopTop(e))
    /\ WF_envletVars(Blpop(e))
    /\ WF_envletVars(Fetch(e))
    /\ WF_envletVars(FetchCancelled(e))
    /\ WF_envletVars(Execute(e))
    /\ WF_envletVars(Report(e))
    /\ WF_envletVars(CancelFetch(e))
    /\ WF_envletVars(Restart(e))

FairSpec == Spec /\ \A e \in Envlets : Fairness(e)

-----------------------------------------------------------------------------
Worker == [pc : {"loop", "fetch", "blocked", "execute", "report", "exited", "crashed"},
           job : Jobs \cup {Nil}, out : Outcome \cup {Nil},
           stop : BOOLEAN, cancelled : BOOLEAN]

TypeOK ==
    /\ queue \in Seq(Jobs)
    /\ env \in [Envlets -> Worker]
    /\ produced \in [Jobs -> SUBSET Outcome]
    /\ tally \in [Jobs -> [pushed : Nat, run : Nat, reported : Nat, lost : Nat]]
    /\ faults \in 0..MaxFaults

Copies(j) == Cardinality({i \in 1..Len(queue) : queue[i] = j})
Holders(j) == Cardinality({e \in Envlets : env[e].job = j})

(* Every pushed copy of a job is in the list, in one worker's hands,       *)
(* reported, or was destroyed by a failure.  A SIGTERM at whatever moment  *)
(* of the loop is not a failure: it loses no job.                          *)
JobsConserved ==
    \A j \in Jobs : tally[j].pushed = Copies(j) + Holders(j) + tally[j].reported + tally[j].lost

(* No copy of a job is run twice, by one worker or by two. *)
RunOncePerPush == \A j \in Jobs : tally[j].run <= tally[j].pushed

(* What the proofs need besides: a worker has a job in hand exactly while  *)
(* it runs or reports it, and what it reports a run of that job produced,  *)
(* with a result unless there was an error.                                *)
JobInHand ==
    \A e \in Envlets :
        /\ env[e].job # Nil <=> env[e].pc \in {"execute", "report"}
        /\ env[e].pc = "report" => /\ env[e].out # Nil
                                   /\ env[e].out \in produced[env[e].job]
ErrorOrResult == \A j \in Jobs : \A o \in produced[j] : o.err \/ o.res # Nil

(* A copy in the list or in a running worker's hands has not been counted  *)
(* as a run.                                                               *)
Running(j) == Cardinality({e \in Envlets : env[e].pc = "execute" /\ env[e].job = j})
RunsLeft == \A j \in Jobs : tally[j].run + Copies(j) + Running(j) <= tally[j].pushed

(* The inductive strengthening of the invariants above. *)
WorkInv == TypeOK /\ JobInHand /\ ErrorOrResult /\ JobsConserved /\ RunsLeft

(* A worker whose fetch was cancelled ends, whatever it was doing (running *)
(* a job, reporting it, going round the loop), unless BLPOP has it.        *)
StoppedEnds ==
    \A e \in Envlets :
        (env[e].stop /\ env[e].cancelled /\ env[e].pc # "blocked") ~> ~Alive(e)

(* "received %s, shutting down" (main.go): a worker that was sent SIGTERM  *)
(* ends, because the cancellation ends the Fetch it waits in.              *)
SigtermExits == \A e \in Envlets : env[e].stop ~> ~Alive(e)

(* Every job in the list is reported or lost in the end, unless every      *)
(* worker was stopped.                                                     *)
JobsFinish ==
    \A j \in Jobs : (j \in {queue[i] : i \in 1..Len(queue)})
        ~> (tally[j].reported + tally[j].lost > 0 \/ \A e \in Envlets : env[e].pc = "exited")
=============================================================================
