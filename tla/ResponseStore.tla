----------------------------- MODULE ResponseStore -----------------------------
(***************************************************************************)
(* The proxy's in-memory rendezvous between the Exec handlers, which wait  *)
(* for the answer to a job, and the callback handlers, which deliver it    *)
(* (proxy/pkg/response_store/naive.go).  Every operation holds the store's *)
(* mutex from its first to its last access, so each one is a single step;  *)
(* the cleanup loop reads the clock BEFORE it takes the mutex, so a sweep  *)
(* is two steps.                                                           *)
(***************************************************************************)
EXTENDS Integers

CONSTANTS
    Ids,        \* job ids, the keys of the map
    Handles,    \* waiter objects; each owns the channel made for it
    Responses,  \* what callbacks deliver
    IdOf,       \* the id a response is delivered under
    Nil,        \* Go's nil
    TTL,        \* s.ttl
    Minute,     \* the cleanup interval used when ttl/2 is not positive
    MaxTime     \* bound: the clock stops here

(* The fields of a storeEntry; expiry = 0 is the zero time.Time. *)
Entry == [ch : Handles \cup {Nil}, resp : Responses \cup {Nil}, expiry : Nat]

ASSUME StoreAssumption ==
    /\ TTL \in Nat
    /\ Minute \in Nat \ {0}
    /\ MaxTime \in Nat \ {0}
    /\ IdOf \in [Responses -> Ids]
    /\ Nil \notin Handles \cup Responses \cup Ids
    /\ Nil \notin Entry

VARIABLES
    entries,    \* s.entries: Nil where the map has no key
    waiters,    \* per handle: its state, its id and its channel's buffer
    now,        \* the clock, in ticks after the zero time
    tickAt,     \* when the ticker of cleanupLoop fires next
    sweepNow,   \* cleanupLoop's local now
    cleaner,    \* where cleanupLoop is
    stopped     \* stopCh is closed

storeVars == <<entries, waiters, now, tickAt, sweepNow, cleaner, stopped>>
cleanupVars == <<now, tickAt, sweepNow, cleaner, stopped>>

WaiterState == {"free", "refused", "open", "received", "cancelled", "closed"}

TypeOK ==
    /\ entries \in [Ids -> Entry \cup {Nil}]
    /\ waiters \in [Handles -> [st  : WaiterState,
                                id  : Ids \cup {Nil},
                                buf : Responses \cup {Nil},
                                got : Responses \cup {Nil}]]
    /\ now \in Nat \ {0}
    /\ tickAt \in Nat
    /\ sweepNow \in Nat
    /\ cleaner \in {"select", "sweep", "exited"}
    /\ stopped \in BOOLEAN

CleanupInterval == IF TTL \div 2 <= 0 THEN Minute ELSE TTL \div 2

Init ==
    /\ entries = [id \in Ids |-> Nil]
    /\ waiters = [h \in Handles |-> [st |-> "free", id |-> Nil, buf |-> Nil, got |-> Nil]]
    /\ now = 1
    /\ tickAt = 1 + CleanupInterval
    /\ sweepNow = 0
    /\ cleaner = "select"
    /\ stopped = FALSE

-----------------------------------------------------------------------------
(* A mistaken lookup: whatever entry there is, under whatever key. *)
EntryAnyKey(id) == IF \A j \in Ids : entries[j] = Nil
                   THEN [ch |-> Nil, resp |-> Nil, expiry |-> 0]
                   ELSE entries[CHOOSE j \in Ids : entries[j] # Nil]

(* The entry an operation works on: the map's, or a zero one just inserted. *)
EntryOf(id) == IF entries[id] = Nil
               THEN [ch |-> Nil, resp |-> Nil, expiry |-> 0]
               ELSE entries[id]

(* Waiter(id) when another waiter holds the entry's channel: an error. *)
WaiterRefused(h, id) ==
    /\ waiters[h].st = "free"
    /\ EntryOf(id).ch # Nil
    /\ waiters' = [waiters EXCEPT ![h].st = "refused", ![h].id = id]
    /\ UNCHANGED <<entries, cleanupVars>>

(* Waiter(id) when the response came first: it moves into the new channel. *)
WaiterReady(h, id) ==
    /\ waiters[h].st = "free"
    /\ EntryOf(id).ch = Nil
    /\ EntryOf(id).resp # Nil
    /\ waiters' = [waiters EXCEPT ![h] = [st |-> "open", id |-> id,
                                          buf |-> EntryOf(id).resp, got |-> Nil]]
    /\ entries' = [entries EXCEPT ![id] = Nil]
    /\ UNCHANGED cleanupVars

(* Waiter(id) with nothing there yet: register a fresh channel. *)
WaiterRegister(h, id) ==
    /\ waiters[h].st = "free"
    /\ EntryOf(id).ch = Nil
    /\ EntryOf(id).resp = Nil
    /\ waiters' = [waiters EXCEPT ![h] = [st |-> "open", id |-> id,
                                          buf |-> Nil, got |-> Nil]]
    /\ entries' = [entries EXCEPT ![id] = [ch |-> h, resp |-> Nil, expiry |-> 0]]
    /\ UNCHANGED cleanupVars

Waiter(h, id) == WaiterRefused(h, id) \/ WaiterReady(h, id) \/ WaiterRegister(h, id)

(* Wait takes the channel's case of its select ... *)
WaitReceive(h) ==
    /\ waiters[h].st = "open"
    /\ waiters[h].buf # Nil
    /\ waiters' = [waiters EXCEPT ![h].st = "received", ![h].got = waiters[h].buf,
                                  ![h].buf = Nil]
    /\ UNCHANGED <<entries, cleanupVars>>

(* ... or the context's, which Go may choose even when both are ready. *)
WaitCancelled(h) ==
    /\ waiters[h].st = "open"
    /\ waiters' = [waiters EXCEPT ![h].st = "cancelled"]
    /\ UNCHANGED <<entries, cleanupVars>>

(* A mistake: the channels are not compared. *)
releaseAnyChannel(id, h) ==
    IF entries[id] = Nil THEN entries ELSE [entries EXCEPT ![id] = Nil]

(* release(id, ch): the map after a waiter gave up its channel h. *)
release(id, h) ==
    IF entries[id] = Nil \/ entries[id].ch # h THEN entries
    ELSE IF entries[id].resp = Nil
         THEN [entries EXCEPT ![id] = Nil]
         ELSE [entries EXCEPT ![id] = [@ EXCEPT !.ch = Nil]]

CloseWaiter(h) ==
    /\ waiters[h].st \in {"open", "received", "cancelled"}
    /\ entries' = release(waiters[h].id, h)
    /\ waiters' = [waiters EXCEPT ![h].st = "closed"]
    /\ UNCHANGED cleanupVars

(* A mistake: the entry stays registered after the send. *)
DeliverKeepsChannel(id, r) ==
    /\ EntryOf(id).ch # Nil
    /\ LET h == EntryOf(id).ch
       IN  waiters' = IF waiters[h].buf = Nil
                      THEN [waiters EXCEPT ![h].buf = r]
                      ELSE waiters
    /\ UNCHANGED <<entries, cleanupVars>>

(* Deliver(id, r) to a registered channel: a send that gives up when the   *)
(* buffer of one is full; the entry goes either way.                       *)
DeliverToWaiter(id, r) ==
    /\ EntryOf(id).ch # Nil
    /\ LET h == EntryOf(id).ch
       IN  waiters' = IF waiters[h].buf = Nil
                      THEN [waiters EXCEPT ![h].buf = r]
                      ELSE waiters
    /\ entries' = [entries EXCEPT ![id] = Nil]
    /\ UNCHANGED cleanupVars

(* A mistake: the stored response gets no expiry. *)
DeliverWithoutExpiry(id, r) ==
    /\ EntryOf(id).ch = Nil
    /\ entries' = [entries EXCEPT ![id] = [ch |-> Nil, resp |-> r, expiry |-> EntryOf(id).expiry]]
    /\ UNCHANGED <<waiters, cleanupVars>>

(* Deliver(id, r) with nobody waiting: keep the response for TTL. *)
DeliverToStore(id, r) ==
    /\ EntryOf(id).ch = Nil
    /\ entries' = [entries EXCEPT ![id] = [ch |-> Nil, resp |-> r, expiry |-> now + TTL]]
    /\ UNCHANGED <<waiters, cleanupVars>>

Deliver(id, r) == DeliverToWaiter(id, r) \/ DeliverToStore(id, r)

(* cleanupLoop receives a tick and reads the clock, the mutex still free.  *)
(* The next tick comes within one interval, in whatever phase.             *)
CleanupTick ==
    /\ cleaner = "select"
    /\ now >= tickAt
    /\ \E d \in 1..CleanupInterval : tickAt' = now + d
    /\ sweepNow' = now
    /\ cleaner' = "sweep"
    /\ UNCHANGED <<entries, waiters, now, stopped>>

(* Mistakes: the expiry itself counts as over; responses are never swept;  *)
(* registered channels are swept.                                          *)
SweptEarly(id, t) ==
    /\ entries[id] # Nil
    /\ entries[id].ch = Nil
    /\ entries[id].resp = Nil \/ (entries[id].expiry # 0 /\ t >= entries[id].expiry)

SweptEmptyOnly(id, t) ==
    entries[id] # Nil /\ entries[id].ch = Nil /\ entries[id].resp = Nil

SweptWithChannel(id, t) ==
    /\ entries[id] # Nil
    /\ entries[id].resp = Nil \/ (entries[id].expiry # 0 /\ t > entries[id].expiry)

(* The entries a sweep that read the clock at t deletes. *)
Swept(id, t) ==
    /\ entries[id] # Nil
    /\ entries[id].ch = Nil
    /\ \/ entries[id].resp = Nil
       \/ entries[id].expiry # 0 /\ t > entries[id].expiry

CleanupSweep ==
    /\ cleaner = "sweep"
    /\ entries' = [id \in Ids |-> IF Swept(id, sweepNow) THEN Nil ELSE entries[id]]
    /\ sweepNow' = 0
    /\ cleaner' = "select"
    /\ UNCHANGED <<waiters, now, tickAt, stopped>>

(* Close() of the store, which main calls once. *)
CloseStore ==
    /\ ~stopped
    /\ stopped' = TRUE
    /\ UNCHANGED <<entries, waiters, now, tickAt, sweepNow, cleaner>>

CleanupExit ==
    /\ cleaner = "select"
    /\ stopped
    /\ cleaner' = "exited"
    /\ UNCHANGED <<entries, waiters, now, tickAt, sweepNow, stopped>>

Advance ==
    /\ now < MaxTime
    /\ now' = now + 1
    /\ UNCHANGED <<entries, waiters, tickAt, sweepNow, cleaner, stopped>>

-----------------------------------------------------------------------------
(* Bound: the last delivery leaves the clock room to reach its expiry and  *)
(* one more tick after that.                                               *)
WithinHorizon == now + TTL + CleanupInterval < MaxTime

Next ==
    \/ \E h \in Handles, id \in Ids : Waiter(h, id)
    \/ \E h \in Handles : WaitReceive(h) \/ WaitCancelled(h) \/ CloseWaiter(h)
    \/ \E r \in Responses : WithinHorizon /\ Deliver(IdOf[r], r)
    \/ CleanupTick \/ CleanupSweep \/ CloseStore \/ CleanupExit
    \/ Advance

Spec == Init /\ [][Next]_storeVars

(* The clock runs, the ticker fires and the loop gets the mutex in the end. *)
Fairness ==
    /\ WF_storeVars(Advance)
    /\ WF_storeVars(CleanupTick)
    /\ WF_storeVars(CleanupSweep)

FairSpec == Spec /\ Fairness

-----------------------------------------------------------------------------
Registered(h, id) == entries[id] # Nil /\ entries[id].ch = h

(* What the map can hold: a registered channel, or a stored response with  *)
(* an expiry; never both, never neither.  So the leftover-response branch  *)
(* of release and the empty-entry branch of the sweep are never needed, and*)
(* no response is spared for ever by the sweep's test for the zero time.   *)
EntryShape ==
    \A id \in Ids : entries[id] # Nil =>
        /\ (entries[id].ch = Nil) # (entries[id].resp = Nil)
        /\ entries[id].resp # Nil <=> entries[id].expiry # 0

(* A registered channel belongs to a waiter of that id that has not        *)
(* received, and its buffer is free: the send in Deliver never falls       *)
(* through to its default case and so never drops a response.              *)
DeliverNeverDrops ==
    \A id \in Ids : \A h \in Handles :
        Registered(h, id) => /\ waiters[h].st \in {"open", "cancelled"}
                             /\ waiters[h].id = id
                             /\ waiters[h].buf = Nil

(* No waiter is forgotten: while a waiter is open, Deliver can still find  *)
(* its channel or its response is already in it.  A sweep, a stale Close   *)
(* of an earlier waiter for the same id or a lost send would break it.     *)
WaiterNotLost ==
    \A h \in Handles :
        waiters[h].st = "open" => \/ waiters[h].buf # Nil
                                  \/ Registered(h, waiters[h].id)

(* A waiter only ever sees a response that was delivered for its own id. *)
NoCrossTalk ==
    /\ \A h \in Handles : \A r \in Responses :
          r \in {waiters[h].buf, waiters[h].got} => IdOf[r] = waiters[h].id
    /\ \A id \in Ids : \A r \in Responses :
          (entries[id] # Nil /\ entries[id].resp = r) => IdOf[r] = id

(* A response leaves the store by being handed to a new waiter, by being   *)
(* overwritten by a later one, or after its time to live is over - although*)
(* the sweep decides with a clock value read before it had the mutex.      *)
KeptForTTL ==
    [][\A id \in Ids :
          (entries[id] # Nil /\ entries[id].resp # Nil /\ entries'[id] = Nil)
          => \/ now > entries[id].expiry
             \/ \E h \in Handles : /\ waiters[h].st = "free"
                                   /\ waiters'[h].st = "open"
                                   /\ waiters'[h].buf = entries[id].resp]_storeVars

(* A response nobody waits for is collected once its time is over, unless  *)
(* a later delivery for the same id refreshes it or the store is closed.   *)
OrphansCollected ==
    \A id \in Ids : \A t \in 1..MaxTime :
        (entries[id] # Nil /\ entries[id].resp # Nil /\ entries[id].expiry = t)
        ~> (stopped \/ entries[id] = Nil \/ entries[id].expiry > t)

(* What the proofs need besides: a waiter knows its id once it was asked   *)
(* for and holds nothing before, and the clock value a sweep works with is *)
(* not in the future.                                                      *)
WaiterKnowsId ==
    \A h \in Handles : /\ waiters[h].st # "free" => waiters[h].id \in Ids
                       /\ waiters[h].st = "free" => waiters[h].buf = Nil /\ waiters[h].got = Nil
SweepClock == sweepNow <= now

(* The inductive strengthening of the invariants above. *)
StoreInv == /\ TypeOK /\ EntryShape /\ DeliverNeverDrops /\ WaiterNotLost /\ NoCrossTalk
            /\ WaiterKnowsId /\ SweepClock
=============================================================================
