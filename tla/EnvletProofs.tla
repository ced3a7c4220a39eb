----------------------------- MODULE EnvletProofs -----------------------------
(***************************************************************************)
(* The workers lose no job unnoticed and run none too often, for any       *)
(* finite set of them, any jobs and any number of pushes: proofs of the    *)
(* invariants that the run of MCEnvlet checks on two workers.  The work of *)
(* a step is to show that what it moves between the list and the workers   *)
(* and what it counts add up, for every job.                               *)
(***************************************************************************)
EXTENDS Envlet, CountingLemmas

-----------------------------------------------------------------------------
(* The copies of a job in the list are the places where it stands. *)
LEMMA CopiesType ==
    ASSUME TypeOK, NEW j
    PROVE  Copies(j) = Cardinality(At(queue, j)) /\ Copies(j) \in Nat
  <1>1. Cardinality(At(queue, j)) \in Nat
    BY AtFinite DEF TypeOK
  <1>2. QED
    BY <1>1 DEF Copies, At

(* The workers that hold or run a job can be counted. *)
LEMMA WorkersCounted ==
    ASSUME NEW j
    PROVE  /\ IsFiniteSet({e \in Envlets : env[e].job = j}) /\ Holders(j) \in Nat
           /\ IsFiniteSet({e \in Envlets : env[e].pc = "execute" /\ env[e].job = j})
           /\ Running(j) \in Nat
  <1> DEFINE H == {e \in Envlets : env[e].job = j}
             R == {e \in Envlets : env[e].pc = "execute" /\ env[e].job = j}
  <1>1. H \in SUBSET Envlets /\ R \in SUBSET Envlets /\ IsFiniteSet(Envlets)
    BY EnvletAssumption
  <1>2. IsFiniteSet(H) /\ IsFiniteSet(R)
    BY <1>1, FS_Subset
  <1>3. QED
    BY <1>2, FS_CardinalityType DEF Holders, Running

(* A step of one worker changes the counts of workers by that worker. *)
HasJob(v, e, j) == IF v[e].job = j THEN 1 ELSE 0
RunsJob(v, e, j) == IF v[e].pc = "execute" /\ v[e].job = j THEN 1 ELSE 0

(* When only worker e moves, the counts change by e alone. *)
LEMMA OneWorkerCounts ==
    ASSUME NEW e \in Envlets, \A x \in Envlets \ {e} : env'[x] = env[x], NEW j
    PROVE  /\ Holders(j)' = Holders(j) - HasJob(env, e, j) + HasJob(env', e, j)
           /\ Running(j)' = Running(j) - RunsJob(env, e, j) + RunsJob(env', e, j)
  <1> DEFINE H == {x \in Envlets : env[x].job = j}
             R == {x \in Envlets : env[x].pc = "execute" /\ env[x].job = j}
  <1>1. IsFiniteSet(H) /\ IsFiniteSet(R)
    BY WorkersCounted
  <1>2. H \ {e} = H' \ {e} /\ R \ {e} = R' \ {e}
    OBVIOUS
  <1>3. /\ e \in H <=> env[e].job = j
        /\ e \in H' <=> env'[e].job = j
        /\ e \in R <=> env[e].pc = "execute" /\ env[e].job = j
        /\ e \in R' <=> env'[e].pc = "execute" /\ env'[e].job = j
    OBVIOUS
  <1> HIDE DEF H, R
  <1>4. Cardinality(H') = Cardinality(H) - (IF e \in H THEN 1 ELSE 0) + (IF e \in H' THEN 1 ELSE 0)
    BY <1>1, <1>2, CardinalityChange
  <1>5. Cardinality(R') = Cardinality(R) - (IF e \in R THEN 1 ELSE 0) + (IF e \in R' THEN 1 ELSE 0)
    BY <1>1, <1>2, CardinalityChange
  <1>6. Holders(j) = Cardinality(H) /\ Running(j) = Cardinality(R)
    BY DEF H, R, Holders, Running
  <1>7. Holders(j)' = Cardinality(H') /\ Running(j)' = Cardinality(R')
    BY DEF H, R, Holders, Running
  <1>8. QED
    BY <1>3, <1>4, <1>5, <1>6, <1>7 DEF HasJob, RunsJob

(* What a step of worker e counts for job j is what becomes of its copies. *)
Booked(e, j) ==
    /\ tally'[j].pushed - tally[j].pushed =
          (Copies(j)' - Copies(j)) + (HasJob(env', e, j) - HasJob(env, e, j))
          + (tally'[j].reported - tally[j].reported) + (tally'[j].lost - tally[j].lost)
    /\ (tally'[j].run - tally[j].run) + (Copies(j)' - Copies(j))
          + (RunsJob(env', e, j) - RunsJob(env, e, j)) <= tally'[j].pushed - tally[j].pushed

(* What a step of worker e has to show: whatever happens to a copy of a job*)
(* is booked, and no copy is run that was not there to be run.             *)
LEMMA WorkerStep ==
    ASSUME WorkInv, TypeOK', NEW e \in Envlets,
           \A x \in Envlets \ {e} : env'[x] = env[x],
           env'[e].job # Nil <=> env'[e].pc \in {"execute", "report"},
           env'[e].pc = "report" => env'[e].out # Nil /\ env'[e].out \in produced'[env'[e].job],
           \A j \in Jobs : produced[j] \subseteq produced'[j],
           ErrorOrResult',
           \A j \in Jobs : Booked(e, j)
    PROVE  WorkInv'
  <1>1. JobInHand'
    <2> SUFFICES ASSUME NEW x \in Envlets
                 PROVE  /\ env'[x].job # Nil <=> env'[x].pc \in {"execute", "report"}
                        /\ env'[x].pc = "report" => /\ env'[x].out # Nil
                                                    /\ env'[x].out \in produced'[env'[x].job]
      BY DEF JobInHand
    <2>1. CASE x = e
      BY <2>1
    <2>2. CASE x # e
      BY <2>2 DEF WorkInv, JobInHand, TypeOK, Worker
    <2>3. QED
      BY <2>1, <2>2
  <1>2. ASSUME NEW j \in Jobs
        PROVE  /\ tally'[j].pushed = Copies(j)' + Holders(j)' + tally'[j].reported + tally'[j].lost
               /\ tally'[j].run + Copies(j)' + Running(j)' <= tally'[j].pushed
    <2>1. tally[j] \in [pushed : Nat, run : Nat, reported : Nat, lost : Nat]
          /\ tally'[j] \in [pushed : Nat, run : Nat, reported : Nat, lost : Nat]
      BY DEF WorkInv, TypeOK
    <2>2. Copies(j) \in Nat /\ Holders(j) \in Nat /\ Running(j) \in Nat
      BY CopiesType, WorkersCounted DEF WorkInv
    <2>3. Copies(j)' \in Nat
      <3>1. Cardinality(At(queue', j)) \in Nat
        BY AtFinite DEF TypeOK
      <3>2. QED
        BY <3>1 DEF Copies, At
    <2>4. /\ Holders(j)' = Holders(j) - HasJob(env, e, j) + HasJob(env', e, j)
          /\ Running(j)' = Running(j) - RunsJob(env, e, j) + RunsJob(env', e, j)
      BY OneWorkerCounts
    <2>5. /\ HasJob(env, e, j) \in Int /\ HasJob(env', e, j) \in Int
          /\ RunsJob(env, e, j) \in Int /\ RunsJob(env', e, j) \in Int
      BY DEF HasJob, RunsJob
    <2>6. /\ tally[j].pushed = Copies(j) + Holders(j) + tally[j].reported + tally[j].lost
          /\ tally[j].run + Copies(j) + Running(j) <= tally[j].pushed
      BY DEF WorkInv, JobsConserved, RunsLeft
    <2> HIDE DEF HasJob, RunsJob, Copies, Holders, Running
    <2>7. Booked(e, j)
      OBVIOUS
    <2>8. /\ tally[j].pushed \in Nat /\ tally[j].run \in Nat
          /\ tally[j].reported \in Nat /\ tally[j].lost \in Nat
          /\ tally'[j].pushed \in Nat /\ tally'[j].run \in Nat
          /\ tally'[j].reported \in Nat /\ tally'[j].lost \in Nat
      BY <2>1
    <2>9. Holders(j)' \in Int /\ Running(j)' \in Int
      BY <2>2, <2>4, <2>5
    <2>10. tally'[j].pushed = Copies(j)' + Holders(j)' + tally'[j].reported + tally'[j].lost
      <3> DEFINE all == Copies(j)' + Holders(j)' + tally'[j].reported + tally'[j].lost
      <3>1. all \in Int
        BY <2>3, <2>8, <2>9
      <3>2. tally'[j].pushed <= all /\ all <= tally'[j].pushed
        BY <2>2, <2>3, <2>4, <2>5, <2>6, <2>7, <2>8, <2>9 DEF Booked
      <3>3. QED
        BY <2>8, <3>1, <3>2
    <2>11. tally'[j].run + Copies(j)' + Running(j)' <= tally'[j].pushed
      BY <2>2, <2>3, <2>4, <2>5, <2>6, <2>7, <2>8, <2>9 DEF Booked
    <2>12. QED
      BY <2>10, <2>11
  <1>3. JobsConserved' /\ RunsLeft'
    BY <1>2 DEF JobsConserved, RunsLeft
  <1>4. QED
    BY <1>1, <1>3 DEF WorkInv

(* A list left alone keeps its copies. *)
LEMMA CopiesKept ==
    ASSUME queue' = queue, NEW j
    PROVE  Copies(j)' = Copies(j)
  BY DEF Copies

(* BLPOP takes one copy of the job at the head. *)
LEMMA CopiesPopped ==
    ASSUME TypeOK, queue # <<>>, queue' = Tail(queue), NEW j
    PROVE  /\ Copies(j)' \in Int
           /\ Copies(j)' = Copies(j) - (IF Head(queue) = j THEN 1 ELSE 0)
  <1>1. queue \in Seq(Jobs)
    BY DEF TypeOK
  <1>2. Cardinality(At(Tail(queue), j)) = Cardinality(At(queue, j)) - (IF Head(queue) = j THEN 1 ELSE 0)
    BY <1>1, AtTail
  <1>3. Copies(j)' = Cardinality(At(Tail(queue), j)) /\ Copies(j) = Cardinality(At(queue, j))
    BY DEF Copies, At
  <1>4. Copies(j) \in Nat
    BY CopiesType
  <1>5. QED
    BY <1>2, <1>3, <1>4

(* A step of worker e that has no job before or after, or keeps its job    *)
(* where it is, books nothing.                                             *)
LEMMA NothingToBook ==
    ASSUME TypeOK, NEW e \in Envlets, UNCHANGED <<queue, tally>>,
           env'[e].job = env[e].job, env'[e].pc = "execute" <=> env[e].pc = "execute",
           NEW j \in Jobs
    PROVE  Booked(e, j)
  <1>1. Copies(j)' = Copies(j) /\ Copies(j) \in Nat
    BY CopiesKept, CopiesType
  <1>2. HasJob(env', e, j) = HasJob(env, e, j) /\ HasJob(env, e, j) \in Int
    BY DEF HasJob
  <1>3. RunsJob(env', e, j) = RunsJob(env, e, j) /\ RunsJob(env, e, j) \in Int
    BY DEF RunsJob
  <1>4. tally' = tally
        /\ tally[j] \in [pushed : Nat, run : Nat, reported : Nat, lost : Nat]
    BY DEF TypeOK
  <1>5. QED
    BY <1>1, <1>2, <1>3, <1>4 DEF Booked

-----------------------------------------------------------------------------
(* Nothing is pushed, run or held at first. *)
LEMMA WorkInit == Init => WorkInv
  <1> SUFFICES ASSUME Init PROVE WorkInv
    OBVIOUS
  <1>1. TypeOK
    <2>1. env \in [Envlets -> Worker]
      BY DEF Init, Fresh, Worker
    <2>2. queue \in Seq(Jobs)
      BY DEF Init
    <2>3. QED
      BY <2>1, <2>2, EnvletAssumption DEF Init, TypeOK
  <1>2. JobInHand /\ ErrorOrResult
    BY DEF Init, Fresh, JobInHand, ErrorOrResult
  <1>3. ASSUME NEW j \in Jobs
        PROVE  Copies(j) = 0 /\ Holders(j) = 0 /\ Running(j) = 0
    <2>1. {i \in 1..Len(queue) : queue[i] = j} = {}
      BY DEF Init
    <2>2. /\ {e \in Envlets : env[e].job = j} = {}
          /\ {e \in Envlets : env[e].pc = "execute" /\ env[e].job = j} = {}
      BY <1>3, EnvletAssumption DEF Init, Fresh
    <2>3. QED
      BY <2>1, <2>2, FS_EmptySet DEF Copies, Holders, Running
  <1>4. JobsConserved /\ RunsLeft
    BY <1>3 DEF Init, JobsConserved, RunsLeft
  <1>5. QED
    BY <1>1, <1>2, <1>4 DEF WorkInv

(* The steps between two jobs and those of the signal goroutine. *)
LEMMA IdleInv ==
    ASSUME WorkInv, NEW e \in Envlets,
           LoopTop(e) \/ Blpop(e) \/ FetchCancelled(e) \/ Sigterm(e) \/ CancelFetch(e) \/ Restart(e)
    PROVE  WorkInv'
  <1>1. UNCHANGED <<queue, produced, tally, faults>>
    BY DEF LoopTop, Blpop, FetchCancelled, Sigterm, CancelFetch, Restart
  <1>2. /\ \A x \in Envlets \ {e} : env'[x] = env[x]
        /\ env'[e].job = env[e].job
        /\ env'[e].pc = "execute" <=> env[e].pc = "execute"
        /\ env'[e].pc = "report" <=> env[e].pc = "report"
        /\ env[e].pc = "report" => env'[e].out = env[e].out
    <2>1. env \in [Envlets -> Worker]
      BY DEF WorkInv, TypeOK
    <2>2. CASE LoopTop(e) \/ Blpop(e) \/ FetchCancelled(e)
      BY <2>1, <2>2 DEF LoopTop, Blpop, FetchCancelled, Worker
    <2>3. CASE Sigterm(e) \/ CancelFetch(e)
      BY <2>1, <2>3 DEF Sigterm, CancelFetch, Worker
    <2>4. CASE Restart(e)
      BY <2>1, <2>4 DEF Restart, Fresh, Worker, WorkInv, JobInHand
    <2>5. QED
      BY <2>2, <2>3, <2>4
  <1>3. TypeOK'
    <2>1. env \in [Envlets -> Worker]
      BY DEF WorkInv, TypeOK
    <2>2. env' \in [Envlets -> Worker]
      <3>1. CASE LoopTop(e) \/ Blpop(e) \/ FetchCancelled(e)
        BY <2>1, <3>1 DEF LoopTop, Blpop, FetchCancelled, Worker
      <3>2. CASE Sigterm(e) \/ CancelFetch(e)
        <4>1. \A w \in Worker : /\ [w EXCEPT !.stop = TRUE] \in Worker
                                /\ [w EXCEPT !.cancelled = TRUE] \in Worker
          BY DEF Worker
        <4>2. QED
          BY <2>1, <3>2, <4>1 DEF Sigterm, CancelFetch
      <3>3. CASE Restart(e)
        <4>1. Fresh \in Worker
          BY DEF Fresh, Worker
        <4>2. QED
          BY <2>1, <3>3, <4>1 DEF Restart
      <3>4. QED
        BY <3>1, <3>2, <3>3
    <2>3. QED
      BY <1>1, <2>2 DEF WorkInv, TypeOK
  <1>4. \A j \in Jobs : Booked(e, j)
    BY <1>1, <1>2, NothingToBook DEF WorkInv
  <1>5. /\ env[e].job # Nil <=> env[e].pc \in {"execute", "report"}
        /\ env[e].pc = "report" => env[e].out # Nil /\ env[e].out \in produced[env[e].job]
        /\ ErrorOrResult
    BY DEF WorkInv, JobInHand
  <1>6. ErrorOrResult'
    BY <1>1, <1>5 DEF ErrorOrResult
  <1>7. QED
    BY <1>1, <1>2, <1>3, <1>4, <1>5, <1>6, WorkerStep

(* The bound on failures is kept. *)
LEMMA FaultsBounded == ASSUME TypeOK, Fault PROVE faults' \in 0..MaxFaults
  BY EnvletAssumption DEF TypeOK, Fault

(* The counters are natural numbers. *)
LEMMA TallyType ==
    ASSUME TypeOK, NEW j \in Jobs
    PROVE  /\ tally[j].pushed \in Nat /\ tally[j].run \in Nat
           /\ tally[j].reported \in Nat /\ tally[j].lost \in Nat
           /\ \A x \in Envlets : HasJob(env, x, j) \in 0..1 /\ RunsJob(env, x, j) \in 0..1
  BY DEF TypeOK, HasJob, RunsJob

(* What a step counts for job k, field by field. *)
Counted(k, pushed, run, reported, lost) ==
    /\ tally' \in [Jobs -> [pushed : Nat, run : Nat, reported : Nat, lost : Nat]]
    /\ \A j \in Jobs :
          /\ tally'[j].pushed = tally[j].pushed + (IF j = k THEN pushed ELSE 0)
          /\ tally'[j].run = tally[j].run + (IF j = k THEN run ELSE 0)
          /\ tally'[j].reported = tally[j].reported + (IF j = k THEN reported ELSE 0)
          /\ tally'[j].lost = tally[j].lost + (IF j = k THEN lost ELSE 0)

Tally == [pushed : Nat, run : Nat, reported : Nat, lost : Nat]

(* u is t with so much counted on top. *)
CountOf(t, u, pushed, run, reported, lost) ==
    /\ u \in Tally
    /\ u.pushed = t.pushed + pushed
    /\ u.run = t.run + run
    /\ u.reported = t.reported + reported
    /\ u.lost = t.lost + lost

(* An update of one counter record counts that and nothing else. *)
LEMMA CountsOf ==
    ASSUME TypeOK, NEW k \in Jobs, NEW u, tally' = [tally EXCEPT ![k] = u],
           NEW p, NEW r, NEW rp, NEW l, CountOf(tally[k], u, p, r, rp, l)
    PROVE  Counted(k, p, r, rp, l)
  <1>1. tally \in [Jobs -> Tally]
    BY DEF TypeOK, Tally
  <1>2. \A t \in Tally : /\ t.pushed + 0 = t.pushed /\ t.run + 0 = t.run
                        /\ t.reported + 0 = t.reported /\ t.lost + 0 = t.lost
    BY DEF Tally
  <1>3. tally' \in [Jobs -> Tally]
    BY <1>1 DEF CountOf
  <1>4. ASSUME NEW j \in Jobs
        PROVE  /\ tally'[j].pushed = tally[j].pushed + (IF j = k THEN p ELSE 0)
               /\ tally'[j].run = tally[j].run + (IF j = k THEN r ELSE 0)
               /\ tally'[j].reported = tally[j].reported + (IF j = k THEN rp ELSE 0)
               /\ tally'[j].lost = tally[j].lost + (IF j = k THEN l ELSE 0)
    <2>1. CASE j = k
      BY <1>1, <2>1 DEF CountOf
    <2>2. CASE j # k
      BY <1>1, <1>2, <2>2
    <2>3. QED
      BY <2>1, <2>2
  <1>5. QED
    BY <1>3, <1>4 DEF Counted, Tally

(* The counts of a step and what becomes of the job's copies have to agree,*)
(* for the job counted and, with nothing counted, for the others.          *)
LEMMA CountedBooks ==
    ASSUME TypeOK, NEW e \in Envlets, NEW k \in Jobs, NEW j \in Jobs,
           NEW p \in Int, NEW r \in Int, NEW rp \in Int, NEW l \in Int, Counted(k, p, r, rp, l),
           NEW c \in Int, Copies(j)' = Copies(j) + c,
           NEW h \in Int, HasJob(env', e, j) = HasJob(env, e, j) + h,
           NEW x \in Int, RunsJob(env', e, j) = RunsJob(env, e, j) + x,
           j = k => p = c + h + rp + l /\ r + c + x <= p,
           j # k => 0 = c + h /\ c + x <= 0
    PROVE  Booked(e, j)
  <1>1. /\ tally[j].pushed \in Nat /\ tally[j].run \in Nat
        /\ tally[j].reported \in Nat /\ tally[j].lost \in Nat
        /\ HasJob(env, e, j) \in Int /\ RunsJob(env, e, j) \in Int
    BY TallyType
  <1>2. Copies(j) \in Nat
    BY CopiesType
  <1>3. CASE j = k
    <2>1. /\ tally'[j].pushed = tally[j].pushed + p /\ tally'[j].run = tally[j].run + r
          /\ tally'[j].reported = tally[j].reported + rp /\ tally'[j].lost = tally[j].lost + l
      BY <1>3 DEF Counted
    <2>2. p = c + h + rp + l /\ r + c + x <= p
      BY <1>3
    <2>3. QED
      BY <1>1, <1>2, <2>1, <2>2 DEF Booked
  <1>4. CASE j # k
    <2>1. /\ tally'[j].pushed = tally[j].pushed /\ tally'[j].run = tally[j].run
          /\ tally'[j].reported = tally[j].reported /\ tally'[j].lost = tally[j].lost
      BY <1>1, <1>4 DEF Counted
    <2>2. 0 = c + h /\ c + x <= 0
      BY <1>4
    <2>3. QED
      BY <1>1, <1>2, <2>1, <2>2 DEF Booked
  <1>5. QED
    BY <1>3, <1>4

(* A push counts n copies pushed. *)
LEMMA CountPushed ==
    ASSUME TypeOK, NEW k \in Jobs, NEW n \in Nat, tally' = [tally EXCEPT ![k].pushed = @ + n]
    PROVE  Counted(k, n, 0, 0, 0)
  <1>1. /\ tally \in [Jobs -> Tally]
        /\ tally' = [tally EXCEPT ![k] = [tally[k] EXCEPT !.pushed = tally[k].pushed + n]]
    BY DEF TypeOK, Tally
  <1>2. \A t \in Tally : LET u == [t EXCEPT !.pushed = t.pushed + n]
                        IN  /\ u \in Tally
                            /\ u.pushed = t.pushed + n
                            /\ u.run = t.run + 0
                            /\ u.reported = t.reported + 0
                            /\ u.lost = t.lost + 0
    BY DEF Tally
  <1>3. QED
    BY <1>1, <1>2, CountsOf DEF CountOf

(* A run counts one run. *)
LEMMA CountRun ==
    ASSUME TypeOK, NEW k \in Jobs, tally' = [tally EXCEPT ![k].run = @ + 1]
    PROVE  Counted(k, 0, 1, 0, 0)
  <1>1. /\ tally \in [Jobs -> Tally]
        /\ tally' = [tally EXCEPT ![k] = [tally[k] EXCEPT !.run = tally[k].run + 1]]
    BY DEF TypeOK, Tally
  <1>2. \A t \in Tally : LET u == [t EXCEPT !.run = t.run + 1]
                        IN  /\ u \in Tally
                            /\ u.pushed = t.pushed + 0
                            /\ u.run = t.run + 1
                            /\ u.reported = t.reported + 0
                            /\ u.lost = t.lost + 0
    BY DEF Tally
  <1>3. QED
    BY <1>1, <1>2, CountsOf DEF CountOf

(* A report counts one copy reported. *)
LEMMA CountReported ==
    ASSUME TypeOK, NEW k \in Jobs, tally' = [tally EXCEPT ![k].reported = @ + 1]
    PROVE  Counted(k, 0, 0, 1, 0)
  <1>1. /\ tally \in [Jobs -> Tally]
        /\ tally' = [tally EXCEPT ![k] = [tally[k] EXCEPT !.reported = tally[k].reported + 1]]
    BY DEF TypeOK, Tally
  <1>2. \A t \in Tally : LET u == [t EXCEPT !.reported = t.reported + 1]
                        IN  /\ u \in Tally
                            /\ u.pushed = t.pushed + 0
                            /\ u.run = t.run + 0
                            /\ u.reported = t.reported + 1
                            /\ u.lost = t.lost + 0
    BY DEF Tally
  <1>3. QED
    BY <1>1, <1>2, CountsOf DEF CountOf

(* A loss counts one copy lost. *)
LEMMA CountLost ==
    ASSUME TypeOK, NEW k \in Jobs, tally' = [tally EXCEPT ![k].lost = @ + 1]
    PROVE  Counted(k, 0, 0, 0, 1)
  <1>1. /\ tally \in [Jobs -> Tally]
        /\ tally' = [tally EXCEPT ![k] = [tally[k] EXCEPT !.lost = tally[k].lost + 1]]
    BY DEF TypeOK, Tally
  <1>2. \A t \in Tally : LET u == [t EXCEPT !.lost = t.lost + 1]
                        IN  /\ u \in Tally
                            /\ u.pushed = t.pushed + 0
                            /\ u.run = t.run + 0
                            /\ u.reported = t.reported + 0
                            /\ u.lost = t.lost + 1
    BY DEF Tally
  <1>3. QED
    BY <1>1, <1>2, CountsOf DEF CountOf

-----------------------------------------------------------------------------
(* Fetch moves a copy from the list to the worker. *)
LEMMA FetchInv ==
    ASSUME WorkInv, NEW e \in Envlets, Fetch(e) PROVE WorkInv'
  <1> DEFINE k == Head(queue)
  <1>1. /\ TypeOK /\ k \in Jobs /\ k # Nil /\ Tail(queue) \in Seq(Jobs)
        /\ queue # <<>> /\ queue' = Tail(queue)
        /\ UNCHANGED <<produced, tally, faults>>
    <2>1. TypeOK /\ queue \in Seq(Jobs)
      BY DEF WorkInv, TypeOK
    <2>2. /\ queue # <<>> /\ queue' = Tail(queue)
          /\ UNCHANGED <<produced, tally, faults>>
      BY DEF Fetch
    <2>3. k \in Jobs /\ Tail(queue) \in Seq(Jobs)
      BY <2>1, <2>2
    <2>4. QED
      BY <2>1, <2>2, <2>3, EnvletAssumption
  <1>2. /\ env' \in [Envlets -> Worker]
        /\ env'[e].pc = "execute" /\ env'[e].job = k
        /\ \A x \in Envlets \ {e} : env'[x] = env[x]
    <2>1. env[e] \in Worker /\ env \in [Envlets -> Worker]
      BY <1>1 DEF TypeOK
    <2>2. PICK w : w = [env[e] EXCEPT !.pc = "execute", !.job = k]
      OBVIOUS
    <2>3. w \in Worker /\ w.pc = "execute" /\ w.job = k
      BY <1>1, <2>1, <2>2 DEF Worker
    <2>4. env' = [env EXCEPT ![e] = w]
      BY <2>1, <2>2 DEF Fetch
    <2>5. QED
      BY <2>1, <2>3, <2>4
  <1>3. env[e].pc = "blocked" /\ env[e].job = Nil
    BY DEF Fetch, WorkInv, JobInHand
  <1>4. TypeOK'
    BY <1>1, <1>2 DEF TypeOK
  <1>5. ErrorOrResult'
    BY <1>1 DEF WorkInv, ErrorOrResult
  <1>6. ASSUME NEW j \in Jobs PROVE Booked(e, j)
    <2>1. /\ Copies(j) \in Nat /\ Copies(j)' \in Int
          /\ Copies(j)' = Copies(j) - (IF k = j THEN 1 ELSE 0)
      BY <1>1, CopiesType, CopiesPopped
    <2>2. /\ HasJob(env, e, j) = 0 /\ RunsJob(env, e, j) = 0
          /\ HasJob(env', e, j) = IF k = j THEN 1 ELSE 0
          /\ RunsJob(env', e, j) = IF k = j THEN 1 ELSE 0
      BY <1>1, <1>2, <1>3, <1>6, EnvletAssumption DEF HasJob, RunsJob
    <2>3. tally' = tally /\ tally[j].pushed \in Nat /\ tally[j].run \in Nat
          /\ tally[j].reported \in Nat /\ tally[j].lost \in Nat
      BY <1>1, TallyType
    <2>4. QED
      BY <2>1, <2>2, <2>3 DEF Booked
  <1>7. QED
    BY <1>1, <1>2, <1>4, <1>5, <1>6, WorkerStep

(* A Redis error leaves the list alone or takes the popped element with it. *)
LEMMA FetchErrorInv ==
    ASSUME WorkInv, NEW e \in Envlets, FetchError(e) PROVE WorkInv'
  <1>1. TypeOK /\ UNCHANGED produced /\ faults' \in 0..MaxFaults
        /\ env[e].pc \in {"fetch", "blocked"} /\ env[e].job = Nil
    BY FaultsBounded DEF WorkInv, FetchError, JobInHand
  <1>2. /\ env' \in [Envlets -> Worker]
        /\ env'[e].pc \notin {"execute", "report"} /\ env'[e].job = Nil
        /\ \A x \in Envlets \ {e} : env'[x] = env[x]
    <2>1. env \in [Envlets -> Worker] /\ \A w \in Worker :
             /\ [w EXCEPT !.pc = "exited"] \in Worker
             /\ [w EXCEPT !.pc = "loop"] \in Worker
      BY <1>1 DEF TypeOK, Worker
    <2>2. env' = [env EXCEPT ![e] = [env[e] EXCEPT !.pc = "exited"]]
          \/ env' = [env EXCEPT ![e] = [env[e] EXCEPT !.pc = "loop"]]
      BY DEF FetchError
    <2>3. QED
      BY <1>1, <2>1, <2>2 DEF Worker
  <1>3. ErrorOrResult'
    BY <1>1 DEF WorkInv, ErrorOrResult
  <1>4. ASSUME NEW j \in Jobs
        PROVE  /\ HasJob(env, e, j) = 0 /\ RunsJob(env, e, j) = 0
               /\ HasJob(env', e, j) = 0 /\ RunsJob(env', e, j) = 0
    BY <1>1, <1>2, <1>4, EnvletAssumption DEF HasJob, RunsJob
  <1>5. CASE UNCHANGED <<queue, tally>>
    <2>1. TypeOK'
      BY <1>1, <1>2, <1>5 DEF TypeOK
    <2>2. \A j \in Jobs : Booked(e, j)
      BY <1>1, <1>2, <1>5, NothingToBook
    <2>3. QED
      BY <1>1, <1>2, <1>3, <2>1, <2>2, WorkerStep
  <1>6. CASE /\ queue # <<>>
             /\ queue' = Tail(queue)
             /\ tally' = [tally EXCEPT ![Head(queue)].lost = @ + 1]
    <2>1. Head(queue) \in Jobs /\ Tail(queue) \in Seq(Jobs)
      BY <1>1, <1>6 DEF TypeOK
    <2>2. Counted(Head(queue), 0, 0, 0, 1)
      BY <1>1, <1>6, <2>1, CountLost
    <2>3. TypeOK'
      BY <1>1, <1>2, <1>6, <2>1, <2>2 DEF TypeOK, Counted
    <2>4. ASSUME NEW j \in Jobs PROVE Booked(e, j)
      <3>1. /\ Copies(j) \in Nat /\ Copies(j)' \in Int
            /\ Copies(j)' = Copies(j) - (IF Head(queue) = j THEN 1 ELSE 0)
        BY <1>1, <1>6, CopiesType, CopiesPopped
      <3> DEFINE c == IF Head(queue) = j THEN 0 - 1 ELSE 0
      <3>2. c \in Int /\ Copies(j)' = Copies(j) + c
            /\ (j = Head(queue) => 0 = c + 0 + 0 + 1 /\ 0 + c + 0 <= 0)
            /\ (j # Head(queue) => 0 = c + 0 /\ c + 0 <= 0)
        BY <3>1
      <3>3. HasJob(env', e, j) = HasJob(env, e, j) + 0 /\ RunsJob(env', e, j) = RunsJob(env, e, j) + 0
        BY <1>4
      <3> HIDE DEF c
      <3>4. QED
        BY <1>1, <2>1, <2>2, <3>2, <3>3, CountedBooks
    <2>5. QED
      BY <1>1, <1>2, <1>3, <2>3, <2>4, WorkerStep
  <1>7. QED
    BY <1>5, <1>6 DEF FetchError

(* A run uses up the right to it that the copy in hand gave. *)
LEMMA ExecutedInv ==
    ASSUME WorkInv, NEW e \in Envlets, NEW out \in Outcome, out.err \/ out.res # Nil,
           Executed(e, out), faults' \in 0..MaxFaults
    PROVE  WorkInv'
  <1> DEFINE k == env[e].job
  <1>1. TypeOK /\ queue' = queue /\ env[e].pc = "execute" /\ k \in Jobs /\ k # Nil
    BY DEF WorkInv, TypeOK, JobInHand, Executed, Worker
  <1>2. /\ env' \in [Envlets -> Worker]
        /\ env'[e].pc = "report" /\ env'[e].job = k /\ env'[e].out = out
        /\ \A x \in Envlets \ {e} : env'[x] = env[x]
    <2>1. env[e] \in Worker /\ env \in [Envlets -> Worker]
      BY <1>1 DEF TypeOK
    <2>2. PICK w : w = [env[e] EXCEPT !.pc = "report", !.out = out]
      OBVIOUS
    <2>3. w \in Worker /\ w.pc = "report" /\ w.job = k /\ w.out = out
      BY <2>1, <2>2 DEF Worker
    <2>4. env' = [env EXCEPT ![e] = w]
      BY <2>1, <2>2 DEF Executed
    <2>5. QED
      BY <2>1, <2>3, <2>4
  <1>3. /\ produced' \in [Jobs -> SUBSET Outcome]
        /\ produced'[k] = produced[k] \cup {out}
        /\ \A j \in Jobs \ {k} : produced'[j] = produced[j]
    BY <1>1 DEF Executed, TypeOK
  <1>4. Counted(k, 0, 1, 0, 0)
    BY <1>1, CountRun DEF Executed
  <1>5. TypeOK'
    BY <1>1, <1>2, <1>3, <1>4 DEF TypeOK, Counted
  <1>6. ErrorOrResult'
    BY <1>1, <1>3 DEF WorkInv, ErrorOrResult
  <1>7. ASSUME NEW j \in Jobs PROVE Booked(e, j)
    <2>1. Copies(j)' = Copies(j) /\ Copies(j) \in Nat
      BY <1>1, CopiesKept, CopiesType
    <2>2. /\ HasJob(env', e, j) = HasJob(env, e, j) /\ HasJob(env, e, j) \in Int
          /\ RunsJob(env, e, j) = IF j = k THEN 1 ELSE 0
          /\ RunsJob(env', e, j) = 0
      BY <1>1, <1>2 DEF HasJob, RunsJob
    <2> DEFINE x == IF j = k THEN 0 - 1 ELSE 0
    <2>3. x \in Int /\ RunsJob(env', e, j) = RunsJob(env, e, j) + x
          /\ (j = k => 0 = 0 + 0 + 0 + 0 /\ 1 + 0 + x <= 0)
          /\ (j # k => 0 = 0 + 0 /\ 0 + x <= 0)
      BY <2>2
    <2>4. HasJob(env', e, j) = HasJob(env, e, j) + 0 /\ Copies(j)' = Copies(j) + 0
      BY <2>1, <2>2
    <2> HIDE DEF x, k
    <2>5. QED
      BY <1>1, <1>4, <2>3, <2>4, CountedBooks
  <1>8. out # Nil
    BY EnvletAssumption
  <1>9. \A j \in Jobs : produced[j] \subseteq produced'[j]
    BY <1>3
  <1>10. QED
    BY <1>1, <1>2, <1>3, <1>5, <1>6, <1>7, <1>8, <1>9, WorkerStep

(* A run without an error has a result. *)
LEMMA OutcomesTyped ==
    ASSUME NEW k \in Kinds, NEW out \in Outcomes(k)
    PROVE  out \in Outcome /\ (out.err \/ out.res # Nil)
  <1>1. CASE k = "empty"
    <2>1. out = [res |-> Nil, err |-> TRUE]
      BY <1>1 DEF Outcomes
    <2>2. QED
      BY <2>1 DEF Outcome
  <1>2. CASE k = "badCapture"
    BY <1>2 DEF Outcomes, Outcome
  <1>3. CASE k = "normal"
    <2>1. out \in [res : ExitCodes, err : {FALSE}]
      BY <1>3 DEF Outcomes
    <2>2. Nil \notin ExitCodes
      BY EnvletAssumption
    <2>3. QED
      BY <2>1, <2>2 DEF Outcome
  <1>4. QED
    BY <1>1, <1>2, <1>3 DEF Kinds

(* Executor.Execute, with a result or an error. *)
LEMMA ExecuteInv ==
    ASSUME WorkInv, NEW e \in Envlets, Execute(e) \/ ExecuteFails(e) PROVE WorkInv'
  <1>1. CASE Execute(e)
    <2>1. PICK out \in Outcomes(KindOf[env[e].job]) : Executed(e, out)
      BY <1>1 DEF Execute
    <2>2. env[e].job \in Jobs
      BY <2>1 DEF WorkInv, TypeOK, JobInHand, Executed, Worker
    <2>3. KindOf[env[e].job] \in Kinds
      BY <2>2, EnvletAssumption
    <2>4. out \in Outcome /\ (out.err \/ out.res # Nil)
      BY <2>1, <2>3, OutcomesTyped
    <2>5. faults' \in 0..MaxFaults
      BY <1>1 DEF Execute, WorkInv, TypeOK
    <2>6. QED
      BY <2>1, <2>4, <2>5, ExecutedInv
  <1>2. CASE ExecuteFails(e)
    <2>1. PICK res \in ExitCodes \cup {Nil} : Executed(e, [res |-> res, err |-> TRUE])
      BY <1>2 DEF ExecuteFails
    <2>2. [res |-> res, err |-> TRUE] \in Outcome /\ [res |-> res, err |-> TRUE].err
      BY DEF Outcome
    <2>3. faults' \in 0..MaxFaults
      BY <1>2, FaultsBounded DEF ExecuteFails, WorkInv
    <2>4. QED
      BY <2>1, <2>2, <2>3, ExecutedInv
  <1>3. QED
    BY <1>1, <1>2

(* What the three ways to let go of a job have in common: it is booked as  *)
(* reported or as lost, once.                                              *)
LEMMA LetGo ==
    ASSUME WorkInv, TypeOK', NEW e \in Envlets, UNCHANGED <<queue, produced>>,
           \A x \in Envlets \ {e} : env'[x] = env[x],
           env[e].job \in Jobs,
           env'[e].job = Nil, env'[e].pc \notin {"execute", "report"},
           \/ Counted(env[e].job, 0, 0, 1, 0)
           \/ Counted(env[e].job, 0, 0, 0, 1)
    PROVE  WorkInv'
  <1> DEFINE k == env[e].job
  <1>1. TypeOK
    BY DEF WorkInv
  <1>2. ErrorOrResult'
    BY DEF WorkInv, ErrorOrResult
  <1>3. ASSUME NEW j \in Jobs PROVE Booked(e, j)
    <2>1. Copies(j)' = Copies(j) /\ Copies(j) \in Nat
      BY <1>1, CopiesKept, CopiesType
    <2>2. /\ HasJob(env, e, j) = IF j = k THEN 1 ELSE 0
          /\ HasJob(env', e, j) = 0 /\ RunsJob(env', e, j) = 0
          /\ RunsJob(env, e, j) \in 0..1
      BY <1>1, <1>3, EnvletAssumption DEF HasJob, RunsJob
    <2> DEFINE h == IF j = k THEN 0 - 1 ELSE 0
               x == 0 - RunsJob(env, e, j)
    <2>3. x \in Int /\ x <= 0 /\ RunsJob(env', e, j) = RunsJob(env, e, j) + x
          /\ h \in Int /\ HasJob(env', e, j) = HasJob(env, e, j) + h
          /\ Copies(j)' = Copies(j) + 0
      BY <2>1, <2>2
    <2>4. /\ j = k => 0 = 0 + h + 1 + 0 /\ 0 = 0 + h + 0 + 1 /\ 0 + 0 + x <= 0
          /\ j # k => 0 = 0 + h /\ 0 + x <= 0
      BY <2>3
    <2> HIDE DEF x, h
    <2>5. CASE Counted(k, 0, 0, 1, 0)
      BY <1>1, <2>3, <2>4, <2>5, CountedBooks
    <2>6. CASE Counted(k, 0, 0, 0, 1)
      BY <1>1, <2>3, <2>4, <2>6, CountedBooks
    <2>7. QED
      BY <2>5, <2>6
  <1>4. QED
    BY <1>2, <1>3, WorkerStep

(* The reporter posts the outcome, or gives up on it. *)
LEMMA ReportInv ==
    ASSUME WorkInv, NEW e \in Envlets, faults' \in 0..MaxFaults, Report(e) \/ ReportFails(e)
    PROVE  WorkInv'
  <1>1. TypeOK /\ UNCHANGED <<queue, produced>> /\ env[e].job \in Jobs
    BY DEF WorkInv, TypeOK, JobInHand, Report, ReportFails, Worker
  <1>2. /\ env' \in [Envlets -> Worker]
        /\ env'[e].pc = "loop" /\ env'[e].job = Nil
        /\ \A x \in Envlets \ {e} : env'[x] = env[x]
    <2>1. env \in [Envlets -> Worker] /\ \A w \in Worker :
             [w EXCEPT !.pc = "loop", !.job = Nil, !.out = Nil] \in Worker
      BY <1>1 DEF TypeOK, Worker
    <2>2. env' = [env EXCEPT ![e] = [env[e] EXCEPT !.pc = "loop", !.job = Nil, !.out = Nil]]
      BY DEF Report, ReportFails
    <2>3. QED
      BY <1>1, <2>1, <2>2 DEF Worker
  <1>3. Counted(env[e].job, 0, 0, 1, 0) \/ Counted(env[e].job, 0, 0, 0, 1)
    BY <1>1, CountReported, CountLost DEF Report, ReportFails
  <1>4. TypeOK'
    BY <1>1, <1>2, <1>3 DEF TypeOK, Counted
  <1>5. QED
    BY <1>1, <1>2, <1>3, <1>4, LetGo

(* A worker that dies takes the job in its hands with it. *)
LEMMA CrashInv ==
    ASSUME WorkInv, NEW e \in Envlets, Crash(e) PROVE WorkInv'
  <1>1. TypeOK /\ UNCHANGED <<queue, produced>> /\ faults' \in 0..MaxFaults
    BY FaultsBounded DEF WorkInv, Crash
  <1>2. /\ env' \in [Envlets -> Worker]
        /\ env'[e].pc = "crashed" /\ env'[e].job = Nil
        /\ \A x \in Envlets \ {e} : env'[x] = env[x]
    <2>1. [Fresh EXCEPT !.pc = "crashed"] \in Worker
      BY DEF Fresh, Worker
    <2>2. QED
      BY <1>1, <2>1 DEF Crash, TypeOK, Fresh
  <1>3. CASE env[e].job = Nil
    <2>1. tally' = tally
      BY <1>3 DEF Crash
    <2>2. TypeOK'
      BY <1>1, <1>2, <2>1 DEF TypeOK
    <2>3. env[e].pc # "execute"
      BY <1>3 DEF WorkInv, JobInHand
    <2>4. \A j \in Jobs : Booked(e, j)
      BY <1>1, <1>2, <1>3, <2>1, <2>3, NothingToBook
    <2>5. ErrorOrResult'
      BY <1>1 DEF WorkInv, ErrorOrResult
    <2>6. QED
      BY <1>1, <1>2, <2>2, <2>4, <2>5, WorkerStep
  <1>4. CASE env[e].job # Nil
    <2>1. env[e].job \in Jobs
      BY <1>1, <1>4 DEF TypeOK, Worker
    <2>2. Counted(env[e].job, 0, 0, 0, 1)
      BY <1>1, <1>4, <2>1, CountLost DEF Crash
    <2>3. TypeOK'
      BY <1>1, <1>2, <2>2 DEF TypeOK, Counted
    <2>4. QED
      BY <1>1, <1>2, <2>1, <2>2, <2>3, LetGo
  <1>5. QED
    BY <1>3, <1>4

(* A push adds n copies to the list and n to the count. *)
LEMMA PushInv ==
    ASSUME WorkInv, NEW k \in Jobs, NEW n \in Nat, Push(k, n),
           UNCHANGED <<env, produced>>, faults' \in 0..MaxFaults
    PROVE  WorkInv'
  <1>1. TypeOK /\ Counted(k, n, 0, 0, 0)
    BY CountPushed DEF WorkInv, Push
  <1>2. queue' \in Seq(Jobs)
        /\ \A j : Cardinality(At(queue', j)) = Cardinality(At(queue, j)) + (IF k = j THEN n ELSE 0)
    <2>1. queue \in Seq(Jobs) /\ queue' = queue \o [i \in 1..n |-> k]
      BY <1>1 DEF TypeOK, Push
    <2>2. QED
      BY <2>1, AtPush
  <1>3. TypeOK'
    BY <1>1, <1>2 DEF TypeOK, Counted
  <1>4. JobInHand' /\ ErrorOrResult'
    BY DEF WorkInv, JobInHand, ErrorOrResult
  <1>5. ASSUME NEW j \in Jobs
        PROVE  /\ tally'[j].pushed = Copies(j)' + Holders(j)' + tally'[j].reported + tally'[j].lost
               /\ tally'[j].run + Copies(j)' + Running(j)' <= tally'[j].pushed
    <2>1. Copies(j) \in Nat /\ Copies(j)' = Copies(j) + (IF k = j THEN n ELSE 0)
      BY <1>1, <1>2, CopiesType DEF Copies, At
    <2>2. Holders(j)' = Holders(j) /\ Running(j)' = Running(j)
      BY DEF Holders, Running
    <2>3. Holders(j) \in Nat /\ Running(j) \in Nat
      BY WorkersCounted
    <2>4. /\ tally[j].pushed = Copies(j) + Holders(j) + tally[j].reported + tally[j].lost
          /\ tally[j].run + Copies(j) + Running(j) <= tally[j].pushed
      BY DEF WorkInv, JobsConserved, RunsLeft
    <2> HIDE DEF Copies, Holders, Running
    <2>5. QED
      BY <1>1, <2>1, <2>2, <2>3, <2>4, TallyType DEF Counted
  <1>6. JobsConserved' /\ RunsLeft'
    BY <1>5 DEF JobsConserved, RunsLeft
  <1>7. QED
    BY <1>3, <1>4, <1>6 DEF WorkInv

(* What leaves the workers alone keeps their invariant. *)
LEMMA WorkStutters == ASSUME WorkInv, UNCHANGED envletVars PROVE WorkInv'
  BY DEF envletVars, WorkInv, TypeOK, JobInHand, ErrorOrResult, JobsConserved, RunsLeft,
         Copies, Holders, Running

(* The steps of a worker that need no callback server. *)
LEMMA WorkStep == ASSUME WorkInv, NEW e \in Envlets, Work(e) PROVE WorkInv'
  BY IdleInv, FetchInv, FetchErrorInv, ExecuteInv, CrashInv DEF Work

(* What others see of a worker's step: it neither pushes nor reports, and  *)
(* no outcome is forgotten.                                                *)
LEMMA WorkBooks ==
    ASSUME WorkInv, NEW e \in Envlets, Work(e), NEW j \in Jobs
    PROVE  /\ tally'[j].pushed = tally[j].pushed /\ tally'[j].reported = tally[j].reported
           /\ produced[j] \subseteq produced'[j]
  <1> USE DEF WorkInv, TypeOK
  <1>1. CASE Execute(e) \/ ExecuteFails(e)
    <2>1. PICK out : Executed(e, out)
      BY <1>1 DEF Execute, ExecuteFails
    <2>2. QED
      BY <2>1 DEF Executed
  <1>2. CASE FetchError(e)
    <2>1. tally \in [Jobs -> [pushed : Nat, run : Nat, reported : Nat, lost : Nat]]
      OBVIOUS
    <2>2. produced' = produced
      BY <1>2 DEF FetchError
    <2>3. tally' = tally \/ tally' = [tally EXCEPT ![Head(queue)].lost = @ + 1]
      BY <1>2 DEF FetchError
    <2> HIDE DEF WorkInv, TypeOK
    <2>4. QED
      BY <2>1, <2>2, <2>3
  <1>3. CASE Crash(e)
    BY <1>3 DEF Crash
  <1>4. CASE \/ LoopTop(e) \/ Blpop(e) \/ Fetch(e) \/ FetchCancelled(e)
             \/ Sigterm(e) \/ CancelFetch(e) \/ Restart(e)
    BY <1>4 DEF LoopTop, Blpop, Fetch, FetchCancelled, Sigterm, CancelFetch, Restart
  <1>5. QED
    BY <1>1, <1>2, <1>3, <1>4 DEF Work

(* A job in hand was pushed. *)
LEMMA HeldIsPushed ==
    ASSUME WorkInv, NEW e \in Envlets, env[e].pc \in {"execute", "report"}
    PROVE  env[e].job \in Jobs /\ tally[env[e].job].pushed > 0
  <1> DEFINE k == env[e].job
             H == {x \in Envlets : env[x].job = k}
  <1>1. k \in Jobs
    BY DEF WorkInv, TypeOK, JobInHand, Worker
  <1>2. e \in H /\ IsFiniteSet(H)
    BY WorkersCounted
  <1>3. Cardinality(H) # 0
    BY <1>2, FS_EmptySet
  <1>4. Holders(k) # 0 /\ Holders(k) \in Nat /\ Copies(k) \in Nat
    BY <1>3, WorkersCounted, CopiesType DEF Holders, WorkInv
  <1> HIDE DEF H, k
  <1>5. tally[k].pushed = Copies(k) + Holders(k) + tally[k].reported + tally[k].lost
    BY <1>1 DEF WorkInv, JobsConserved
  <1>6. tally[k].pushed \in Nat /\ tally[k].reported \in Nat /\ tally[k].lost \in Nat
    BY <1>1, TallyType DEF WorkInv
  <1>7. QED
    BY <1>1, <1>4, <1>5, <1>6 DEF k

(* A report or its loss is booked for the job in hand only. *)
LEMMA ReportBooks ==
    ASSUME WorkInv, NEW e \in Envlets, NEW j \in Jobs, Report(e) \/ ReportFails(e)
    PROVE  /\ tally'[j].pushed = tally[j].pushed
           /\ (j # env[e].job \/ ReportFails(e)) => tally'[j].reported = tally[j].reported
  <1>1. tally \in [Jobs -> Tally] /\ env[e].job \in Jobs
    BY DEF WorkInv, TypeOK, JobInHand, Report, ReportFails, Worker, Tally
  <1>2. QED
    BY <1>1 DEF Report, ReportFails, Tally

(* A push is booked for the job pushed only. *)
LEMMA PushBooks ==
    ASSUME WorkInv, NEW k \in Jobs, NEW n \in Nat, Push(k, n), NEW j \in Jobs
    PROVE  /\ tally'[j].reported = tally[j].reported
           /\ j # k => tally'[j].pushed = tally[j].pushed
           /\ n > 0 => tally'[k].pushed > 0
  <1>1. TypeOK /\ Counted(k, n, 0, 0, 0)
    BY CountPushed DEF WorkInv, Push
  <1>2. /\ tally[j].pushed \in Nat /\ tally[j].reported \in Nat /\ tally[k].pushed \in Nat
    BY <1>1, TallyType
  <1>3. /\ tally'[j].reported = tally[j].reported + 0
        /\ j # k => tally'[j].pushed = tally[j].pushed + 0
        /\ tally'[k].pushed = tally[k].pushed + n
    BY <1>1 DEF Counted
  <1>4. QED
    BY <1>2, <1>3

(* Every step of the specification keeps the invariant. *)
LEMMA NextInv == ASSUME WorkInv, [Next]_envletVars PROVE WorkInv'
  <1>1. ASSUME NEW e \in Envlets, Work(e) \/ Report(e) \/ (ReportFails(e) /\ Fault)
        PROVE  WorkInv'
    <2>1. CASE Work(e)
      BY <2>1, WorkStep
    <2>2. CASE Report(e) \/ (ReportFails(e) /\ Fault)
      <3>1. faults' \in 0..MaxFaults
        BY <2>2, FaultsBounded DEF Report, WorkInv, TypeOK
      <3>2. QED
        BY <2>2, <3>1, ReportInv
    <2>3. QED
      BY <1>1, <2>1, <2>2
  <1>2. ASSUME NEW j \in Jobs, Push(j, 1), UNCHANGED <<env, produced, faults>>
        PROVE  WorkInv'
    <2>1. faults' \in 0..MaxFaults
      BY <1>2 DEF WorkInv, TypeOK
    <2>2. QED
      BY <1>2, <2>1, PushInv
  <1>3. QED
    BY <1>1, <1>2, WorkStutters DEF Next

-----------------------------------------------------------------------------
(* The invariant the workers keep: a worker has a job exactly while it     *)
(* executes or reports it, every copy pushed is in the list, in hand,      *)
(* reported or lost, and the runs made and to come are no more than the    *)
(* pushes (redis_job_queue.go, temp_dir_executor.go and the main loop of   *)
(* the envlet).                                                            *)
THEOREM WorkInvariant == Spec => []WorkInv
  <1>1. Init => WorkInv
    BY WorkInit
  <1>2. WorkInv /\ [Next]_envletVars => WorkInv'
    BY NextInv
  <1>3. QED
    BY <1>1, <1>2, PTL DEF Spec

(* What the list, the workers and the counters hold is of their types: an  *)
(* outcome in a worker's hands is one the executor can produce.            *)
THEOREM WorkersTyped == Spec => []TypeOK
  <1>1. WorkInv => TypeOK
    BY DEF WorkInv
  <1>2. QED
    BY <1>1, WorkInvariant, PTL

(* Every copy that Enqueue pushed is in the list, in a worker's hands,     *)
(* reported or destroyed by a failure that was counted: between Fetch,     *)
(* Execute and Report no step of the main loop drops one.                  *)
THEOREM NoJobVanishes == Spec => []JobsConserved
  <1>1. WorkInv => JobsConserved
    BY DEF WorkInv
  <1>2. QED
    BY <1>1, WorkInvariant, PTL

(* A job runs no more often than it was pushed: two workers never take the *)
(* same copy from the list, and none runs a copy again.                    *)
THEOREM NoCopyRunsTwice == Spec => []RunOncePerPush
  <1>1. WorkInv => RunOncePerPush
    <2> SUFFICES ASSUME WorkInv, NEW j \in Jobs PROVE tally[j].run <= tally[j].pushed
      BY DEF RunOncePerPush
    <2>1. tally[j].run + Copies(j) + Running(j) <= tally[j].pushed
      BY DEF WorkInv, RunsLeft
    <2>2. Copies(j) \in Nat /\ Running(j) \in Nat /\ tally[j].run \in Nat /\ tally[j].pushed \in Nat
      BY CopiesType, WorkersCounted, TallyType DEF WorkInv
    <2>3. QED
      BY <2>1, <2>2
  <1>2. QED
    BY <1>1, WorkInvariant, PTL
=============================================================================
