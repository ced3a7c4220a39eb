------------------------- MODULE ResponseStoreProofs -------------------------
(***************************************************************************)
(* The response store keeps its promises for every set of ids, waiters and *)
(* responses and every time to live: proofs of the invariants that the     *)
(* runs of MCResponseStore check on small instances.                       *)
(***************************************************************************)
EXTENDS ResponseStore, TLAPS

(* Types of what the operations read: the interval of the ticker is        *)
(* positive, and the entry an operation works on is an Entry.              *)
LEMMA IntervalType == CleanupInterval \in Nat \ {0}
  <1>1. TTL \div 2 \in Nat
    BY StoreAssumption
  <1>2. QED
    BY <1>1, StoreAssumption DEF CleanupInterval

(* A map value of type waitEntry is one of its three kinds, with its fields. *)
LEMMA EntryOfType ==
    ASSUME TypeOK, NEW id \in Ids
    PROVE  EntryOf(id) \in Entry
  BY StoreAssumption DEF TypeOK, EntryOf, Entry

-----------------------------------------------------------------------------
(* The invariant holds in the empty store New() makes. *)
LEMMA StoreInit == Init => StoreInv
  <1> SUFFICES ASSUME Init PROVE StoreInv
    OBVIOUS
  <1>1. TypeOK
    <2>1. stopped \in BOOLEAN
      BY Zenon DEF Init
    <2>2. waiters \in [Handles -> [st : WaiterState, id : Ids \cup {Nil},
                                  buf : Responses \cup {Nil}, got : Responses \cup {Nil}]]
      BY DEF Init, WaiterState
    <2>3. entries \in [Ids -> Entry \cup {Nil}]
      BY DEF Init
    <2>4. tickAt \in Nat /\ now \in Nat \ {0} /\ sweepNow \in Nat
      BY IntervalType DEF Init
    <2>5. QED
      BY <2>1, <2>2, <2>3, <2>4 DEF Init, TypeOK
  <1>2. EntryShape /\ DeliverNeverDrops
    BY DEF Init, EntryShape, DeliverNeverDrops, Registered
  <1>3. WaiterNotLost
    BY DEF Init, WaiterNotLost
  <1>4. NoCrossTalk
    BY StoreAssumption DEF Init, NoCrossTalk
  <1>5. WaiterKnowsId /\ SweepClock
    BY DEF Init, WaiterKnowsId, SweepClock
  <1>6. QED
    BY <1>1, <1>2, <1>3, <1>4, <1>5 DEF StoreInv

(* What a step that only touches the map has to show: it registers and     *)
(* deregisters nobody, and what it leaves in the map is well formed.       *)
LEMMA MapStep ==
    ASSUME StoreInv, TypeOK', SweepClock', waiters' = waiters, EntryShape',
           \A g \in Handles : \A j \in Ids : Registered(g, j)' <=> Registered(g, j),
           \A j \in Ids : \A r \in Responses :
              (entries'[j] # Nil /\ entries'[j].resp = r) => IdOf[r] = j
    PROVE  StoreInv'
  <1>1. DeliverNeverDrops'
    BY DEF StoreInv, DeliverNeverDrops
  <1>2. WaiterKnowsId'
    BY DEF StoreInv, WaiterKnowsId
  <1>3. WaiterNotLost'
    <2> SUFFICES ASSUME NEW g \in Handles, waiters[g].st = "open", waiters[g].buf = Nil
                 PROVE  Registered(g, waiters[g].id)'
      BY DEF WaiterNotLost
    <2>1. Registered(g, waiters[g].id)
      BY DEF StoreInv, WaiterNotLost
    <2>2. waiters[g].id \in Ids
      BY DEF StoreInv, WaiterKnowsId
    <2>3. QED
      BY <2>1, <2>2
  <1>4. NoCrossTalk'
    BY DEF StoreInv, NoCrossTalk
  <1>5. QED
    BY <1>1, <1>2, <1>3, <1>4 DEF StoreInv

(* What a step on one waiter h and one id has to show; the others are left *)
(* alone.                                                                  *)
LEMMA WaiterStep ==
    ASSUME StoreInv, TypeOK', UNCHANGED cleanupVars,
           NEW h \in Handles, NEW id \in Ids,
           \A g \in Handles \ {h} : waiters'[g] = waiters[g],
           \A j \in Ids \ {id} : entries'[j] = entries[j],
           waiters'[h].id = id, waiters'[h].st # "free",
           waiters[h].st = "free" \/ waiters[h].id = id,
           \A g \in Handles \ {h} : Registered(g, id)' <=> Registered(g, id),
           entries'[id] # Nil => /\ (entries'[id].ch = Nil) # (entries'[id].resp = Nil)
                                 /\ entries'[id].resp # Nil <=> entries'[id].expiry # 0,
           Registered(h, id)' => waiters'[h].st \in {"open", "cancelled"} /\ waiters'[h].buf = Nil,
           waiters'[h].st = "open" => waiters'[h].buf # Nil \/ Registered(h, id)',
           \A r \in Responses : r \in {waiters'[h].buf, waiters'[h].got} => IdOf[r] = id,
           \A r \in Responses : (entries'[id] # Nil /\ entries'[id].resp = r) => IdOf[r] = id
    PROVE  StoreInv'
  <1>1. EntryShape'
    BY DEF StoreInv, EntryShape
  <1>2. DeliverNeverDrops'
    <2> SUFFICES ASSUME NEW j \in Ids, NEW g \in Handles, Registered(g, j)'
                 PROVE  waiters'[g].st \in {"open", "cancelled"} /\ waiters'[g].id = j
                        /\ waiters'[g].buf = Nil
      BY DEF DeliverNeverDrops
    <2>1. CASE j = id
      <3>1. CASE g = h
        BY <2>1, <3>1
      <3>2. CASE g # h
        <4>1. Registered(g, id)
          BY <2>1, <3>2
        <4>2. QED
          BY <2>1, <3>2, <4>1 DEF StoreInv, DeliverNeverDrops
      <3>3. QED
        BY <3>1, <3>2
    <2>2. CASE j # id
      <3>1. Registered(g, j)
        BY <2>2 DEF Registered
      <3>2. g # h
        BY <2>2, <3>1 DEF StoreInv, DeliverNeverDrops
      <3>3. QED
        BY <3>1, <3>2 DEF StoreInv, DeliverNeverDrops
    <2>3. QED
      BY <2>1, <2>2
  <1>3. WaiterKnowsId'
    BY DEF StoreInv, WaiterKnowsId
  <1>4. WaiterNotLost'
    <2> SUFFICES ASSUME NEW g \in Handles, waiters'[g].st = "open", waiters'[g].buf = Nil
                 PROVE  entries'[waiters'[g].id] # Nil /\ entries'[waiters'[g].id].ch = g
      BY DEF WaiterNotLost, Registered
    <2>1. CASE g = h
      BY <2>1 DEF Registered
    <2>2. CASE g # h
      <3>1. waiters'[g] = waiters[g] /\ Registered(g, waiters[g].id)
        BY <2>2 DEF StoreInv, WaiterNotLost
      <3>2. waiters[g].id \in Ids
        BY <3>1 DEF StoreInv, WaiterKnowsId
      <3>3. CASE waiters[g].id = id
        BY <2>2, <3>1, <3>3 DEF Registered
      <3>4. CASE waiters[g].id # id
        BY <3>1, <3>2, <3>4 DEF Registered
      <3>5. QED
        BY <3>3, <3>4
    <2>3. QED
      BY <2>1, <2>2
  <1>5. NoCrossTalk'
    BY DEF StoreInv, NoCrossTalk
  <1>6. SweepClock'
    BY DEF StoreInv, SweepClock, cleanupVars
  <1>7. QED
    BY <1>1, <1>2, <1>3, <1>4, <1>5, <1>6 DEF StoreInv

(* A step that leaves the clock and the cleanup loop alone keeps the types *)
(* when it keeps those of the map and of the waiters.                      *)
LEMMA TypeStep ==
    ASSUME TypeOK, UNCHANGED cleanupVars,
           entries' \in [Ids -> Entry \cup {Nil}],
           waiters' \in [Handles -> [st : WaiterState, id : Ids \cup {Nil},
                                    buf : Responses \cup {Nil}, got : Responses \cup {Nil}]]
    PROVE  TypeOK'
  <1>1. stopped' \in BOOLEAN
    BY Zenon DEF TypeOK, cleanupVars
  <1>2. QED
    BY <1>1 DEF TypeOK, cleanupVars

-----------------------------------------------------------------------------
(* Every action keeps the invariant.  For the actions on one waiter: the   *)
(* frame first, then what WaiterStep asks of that waiter and of its entry. *)
LEMMA WaiterRefusedInv ==
    ASSUME StoreInv, NEW h \in Handles, NEW id \in Ids, WaiterRefused(h, id)
    PROVE  StoreInv'
  <1>1. /\ waiters' = [waiters EXCEPT ![h].st = "refused", ![h].id = id]
        /\ entries' = entries /\ UNCHANGED cleanupVars /\ waiters[h].st = "free"
    BY DEF WaiterRefused
  <1>2. TypeOK'
    <2>1. waiters' \in [Handles -> [st : WaiterState, id : Ids \cup {Nil},
                                    buf : Responses \cup {Nil}, got : Responses \cup {Nil}]]
      BY <1>1 DEF StoreInv, TypeOK, WaiterState
    <2>2. TypeOK /\ entries' \in [Ids -> Entry \cup {Nil}]
      BY <1>1 DEF StoreInv, TypeOK
    <2>3. QED
      BY <1>1, <2>1, <2>2, TypeStep
  <1>3. \A g \in Handles \ {h} : waiters'[g] = waiters[g]
    BY <1>1 DEF StoreInv, TypeOK
  <1>4. /\ waiters'[h].id = id /\ waiters'[h].st = "refused"
        /\ waiters'[h].buf = Nil /\ waiters'[h].got = Nil
    BY <1>1 DEF StoreInv, TypeOK, WaiterKnowsId
  <1>5. ~Registered(h, id)'
    BY <1>1 DEF StoreInv, DeliverNeverDrops, Registered
  <1>6. \A r \in Responses : r # Nil
    BY StoreAssumption
  <1>7. \A g \in Handles \ {h} : Registered(g, id)' <=> Registered(g, id)
    BY <1>1 DEF Registered
  <1>8. entries'[id] # Nil => /\ (entries'[id].ch = Nil) # (entries'[id].resp = Nil)
                              /\ entries'[id].resp # Nil <=> entries'[id].expiry # 0
    BY <1>1 DEF StoreInv, EntryShape
  <1>9. \A r \in Responses : (entries'[id] # Nil /\ entries'[id].resp = r) => IdOf[r] = id
    BY <1>1 DEF StoreInv, NoCrossTalk
  <1>10. \A r \in Responses : r \in {waiters'[h].buf, waiters'[h].got} => IdOf[r] = id
    BY <1>4, <1>6
  <1>11. \A j \in Ids \ {id} : entries'[j] = entries[j]
    BY <1>1
  <1>12. QED
    BY <1>1, <1>2, <1>3, <1>4, <1>5, <1>7, <1>8, <1>9, <1>10, <1>11, WaiterStep

(* A waiter whose response is already there takes it and its entry goes. *)
LEMMA WaiterReadyInv ==
    ASSUME StoreInv, NEW h \in Handles, NEW id \in Ids, WaiterReady(h, id)
    PROVE  StoreInv'
  <1> DEFINE e == EntryOf(id)
  <1>1. /\ waiters' = [waiters EXCEPT ![h] = [st |-> "open", id |-> id,
                                              buf |-> e.resp, got |-> Nil]]
        /\ entries' = [entries EXCEPT ![id] = Nil]
        /\ UNCHANGED cleanupVars /\ waiters[h].st = "free" /\ e.ch = Nil /\ e.resp # Nil
    BY DEF WaiterReady
  <1>2. e \in Entry /\ e.resp \in Responses /\ entries[id] # Nil /\ e = entries[id]
    BY <1>1, EntryOfType DEF StoreInv, Entry, EntryOf
  <1>3. TypeOK'
    BY <1>1, <1>2, TypeStep DEF StoreInv, TypeOK, WaiterState
  <1>4. /\ \A g \in Handles \ {h} : waiters'[g] = waiters[g]
        /\ \A j \in Ids \ {id} : entries'[j] = entries[j]
        /\ entries'[id] = Nil
    BY <1>1 DEF StoreInv, TypeOK
  <1>5. /\ waiters'[h].id = id /\ waiters'[h].st = "open"
        /\ waiters'[h].buf = e.resp /\ waiters'[h].got = Nil
    BY <1>1 DEF StoreInv, TypeOK
  <1>6. IdOf[e.resp] = id
    BY <1>2 DEF StoreInv, NoCrossTalk
  <1>7. \A r \in Responses : r # Nil
    BY StoreAssumption
  <1>8. \A g \in Handles : ~Registered(g, id) /\ ~Registered(g, id)'
    BY <1>1, <1>2, <1>4, StoreAssumption DEF Registered
  <1> HIDE DEF e
  <1>9. QED
    BY <1>1, <1>3, <1>4, <1>5, <1>6, <1>7, <1>8, WaiterStep

(* A waiter that finds no response registers a channel of its own. *)
LEMMA WaiterRegisterInv ==
    ASSUME StoreInv, NEW h \in Handles, NEW id \in Ids, WaiterRegister(h, id)
    PROVE  StoreInv'
  <1>1. /\ waiters' = [waiters EXCEPT ![h] = [st |-> "open", id |-> id,
                                              buf |-> Nil, got |-> Nil]]
        /\ entries' = [entries EXCEPT ![id] = [ch |-> h, resp |-> Nil, expiry |-> 0]]
        /\ UNCHANGED cleanupVars /\ waiters[h].st = "free" /\ EntryOf(id).ch = Nil
    BY DEF WaiterRegister
  <1>2. TypeOK'
    BY <1>1, TypeStep DEF StoreInv, TypeOK, WaiterState, Entry
  <1>3. /\ \A g \in Handles \ {h} : waiters'[g] = waiters[g]
        /\ \A j \in Ids \ {id} : entries'[j] = entries[j]
        /\ entries'[id] = [ch |-> h, resp |-> Nil, expiry |-> 0]
    BY <1>1 DEF StoreInv, TypeOK
  <1>4. /\ waiters'[h].id = id /\ waiters'[h].st = "open"
        /\ waiters'[h].buf = Nil /\ waiters'[h].got = Nil
    BY <1>1 DEF StoreInv, TypeOK
  <1>5. entries'[id] # Nil /\ entries'[id].ch = h /\ entries'[id].resp = Nil
        /\ entries'[id].expiry = 0 /\ h # Nil
    <2>1. entries'[id] \in Entry
      BY <1>3, StoreAssumption DEF Entry
    <2>2. QED
      BY <2>1, <1>3, StoreAssumption
  <1>6. \A g \in Handles : ~Registered(g, id)
    BY <1>1, StoreAssumption DEF Registered, EntryOf
  <1>7. \A g \in Handles : Registered(g, id)' <=> g = h
    BY <1>5 DEF Registered
  <1>8. \A r \in Responses : r # Nil
    BY StoreAssumption
  <1>9. QED
    BY <1>1, <1>2, <1>3, <1>4, <1>5, <1>6, <1>7, <1>8, WaiterStep

(* A waiter takes the response its own channel holds. *)
LEMMA WaitReceiveInv ==
    ASSUME StoreInv, NEW h \in Handles, WaitReceive(h)
    PROVE  StoreInv'
  <1>1. /\ waiters' = [waiters EXCEPT ![h].st = "received", ![h].got = waiters[h].buf,
                                      ![h].buf = Nil]
        /\ entries' = entries /\ UNCHANGED cleanupVars
        /\ waiters[h].st = "open" /\ waiters[h].buf # Nil
    BY DEF WaitReceive
  <1>2. PICK id \in Ids : id = waiters[h].id
    BY <1>1 DEF StoreInv, WaiterKnowsId
  <1>3. TypeOK'
    BY <1>1, TypeStep DEF StoreInv, TypeOK, WaiterState
  <1>4. /\ \A g \in Handles \ {h} : waiters'[g] = waiters[g]
        /\ \A j \in Ids \ {id} : entries'[j] = entries[j]
    BY <1>1, <1>2 DEF StoreInv, TypeOK
  <1>5. /\ waiters'[h].id = id /\ waiters'[h].st = "received"
        /\ waiters'[h].buf = Nil /\ waiters'[h].got = waiters[h].buf
    BY <1>1, <1>2 DEF StoreInv, TypeOK
  <1>6. \A r \in Responses : r \in {waiters'[h].buf, waiters'[h].got} => IdOf[r] = id
    BY <1>2, <1>5, StoreAssumption DEF StoreInv, NoCrossTalk
  <1>7. ~Registered(h, id)'
    BY <1>1, <1>2 DEF StoreInv, DeliverNeverDrops, Registered
  <1>8. \A g \in Handles \ {h} : Registered(g, id)' <=> Registered(g, id)
    BY <1>1 DEF Registered
  <1>9. /\ entries'[id] # Nil => /\ (entries'[id].ch = Nil) # (entries'[id].resp = Nil)
                                 /\ entries'[id].resp # Nil <=> entries'[id].expiry # 0
        /\ \A r \in Responses : (entries'[id] # Nil /\ entries'[id].resp = r) => IdOf[r] = id
    BY <1>1, <1>2 DEF StoreInv, EntryShape, NoCrossTalk
  <1>10. QED
    BY <1>1, <1>2, <1>3, <1>4, <1>5, <1>6, <1>7, <1>8, <1>9, WaiterStep

(* A waiter whose context is done leaves; its deferred Close is still due. *)
LEMMA WaitCancelledInv ==
    ASSUME StoreInv, NEW h \in Handles, WaitCancelled(h)
    PROVE  StoreInv'
  <1>1. /\ waiters' = [waiters EXCEPT ![h].st = "cancelled"]
        /\ entries' = entries /\ UNCHANGED cleanupVars /\ waiters[h].st = "open"
    BY DEF WaitCancelled
  <1>2. PICK id \in Ids : id = waiters[h].id
    BY <1>1 DEF StoreInv, WaiterKnowsId
  <1>3. TypeOK'
    BY <1>1, TypeStep DEF StoreInv, TypeOK, WaiterState
  <1>4. /\ \A g \in Handles \ {h} : waiters'[g] = waiters[g]
        /\ \A j \in Ids \ {id} : entries'[j] = entries[j]
    BY <1>1, <1>2 DEF StoreInv, TypeOK
  <1>5. /\ waiters'[h].id = id /\ waiters'[h].st = "cancelled"
        /\ waiters'[h].buf = waiters[h].buf /\ waiters'[h].got = waiters[h].got
    BY <1>1, <1>2 DEF StoreInv, TypeOK
  <1>6. \A r \in Responses : r \in {waiters'[h].buf, waiters'[h].got} => IdOf[r] = id
    BY <1>2, <1>5 DEF StoreInv, NoCrossTalk
  <1>7. Registered(h, id)' => waiters'[h].buf = Nil
    BY <1>1, <1>2, <1>5 DEF StoreInv, DeliverNeverDrops, Registered
  <1>8. \A g \in Handles \ {h} : Registered(g, id)' <=> Registered(g, id)
    BY <1>1 DEF Registered
  <1>9. /\ entries'[id] # Nil => /\ (entries'[id].ch = Nil) # (entries'[id].resp = Nil)
                                 /\ entries'[id].resp # Nil <=> entries'[id].expiry # 0
        /\ \A r \in Responses : (entries'[id] # Nil /\ entries'[id].resp = r) => IdOf[r] = id
    BY <1>1, <1>2 DEF StoreInv, EntryShape, NoCrossTalk
  <1>10. QED
    BY <1>1, <1>2, <1>3, <1>4, <1>5, <1>6, <1>7, <1>8, <1>9, WaiterStep

(* The deferred Close: it takes back its own registration, never one made  *)
(* by a later waiter for the same id.                                      *)
LEMMA CloseWaiterInv ==
    ASSUME StoreInv, NEW h \in Handles, CloseWaiter(h)
    PROVE  StoreInv'
  <1>1. /\ waiters' = [waiters EXCEPT ![h].st = "closed"]
        /\ entries' = release(waiters[h].id, h) /\ UNCHANGED cleanupVars
        /\ waiters[h].st \in {"open", "received", "cancelled"}
    BY DEF CloseWaiter
  <1>2. PICK id \in Ids : id = waiters[h].id
    BY <1>1 DEF StoreInv, WaiterKnowsId
  <1>3. h # Nil
    BY StoreAssumption
  <1>4. entries' = IF Registered(h, id) THEN [entries EXCEPT ![id] = Nil] ELSE entries
    BY <1>1, <1>2, <1>3 DEF StoreInv, EntryShape, release, Registered
  <1>5. TypeOK'
    BY <1>1, <1>2, <1>4, TypeStep DEF StoreInv, TypeOK, WaiterState
  <1>6. /\ \A g \in Handles \ {h} : waiters'[g] = waiters[g]
        /\ \A j \in Ids \ {id} : entries'[j] = entries[j]
        /\ entries'[id] = IF Registered(h, id) THEN Nil ELSE entries[id]
    BY <1>1, <1>2, <1>4 DEF StoreInv, TypeOK
  <1>7. /\ waiters'[h].id = id /\ waiters'[h].st = "closed"
        /\ waiters'[h].buf = waiters[h].buf /\ waiters'[h].got = waiters[h].got
    BY <1>1, <1>2 DEF StoreInv, TypeOK
  <1>8. \A r \in Responses : r \in {waiters'[h].buf, waiters'[h].got} => IdOf[r] = id
    BY <1>2, <1>7 DEF StoreInv, NoCrossTalk
  <1>9. /\ ~Registered(h, id)'
        /\ \A g \in Handles \ {h} : Registered(g, id)' <=> Registered(g, id)
    BY <1>2, <1>6 DEF Registered
  <1>10. /\ entries'[id] # Nil => /\ (entries'[id].ch = Nil) # (entries'[id].resp = Nil)
                                  /\ entries'[id].resp # Nil <=> entries'[id].expiry # 0
         /\ \A r \in Responses : (entries'[id] # Nil /\ entries'[id].resp = r) => IdOf[r] = id
    BY <1>2, <1>6 DEF StoreInv, EntryShape, NoCrossTalk
  <1>11. QED
    BY <1>1, <1>2, <1>5, <1>6, <1>7, <1>8, <1>9, <1>10, WaiterStep

(* A delivery finds the buffer of a registered channel free. *)
LEMMA DeliverToWaiterInv ==
    ASSUME StoreInv, NEW id \in Ids, NEW r \in Responses, IdOf[r] = id, DeliverToWaiter(id, r)
    PROVE  StoreInv'
  <1> DEFINE h == EntryOf(id).ch
  <1>1. /\ h # Nil
        /\ waiters' = IF waiters[h].buf = Nil THEN [waiters EXCEPT ![h].buf = r] ELSE waiters
        /\ entries' = [entries EXCEPT ![id] = Nil] /\ UNCHANGED cleanupVars
    BY DEF DeliverToWaiter
  <1>2. h \in Handles /\ Registered(h, id)
    BY <1>1, EntryOfType DEF StoreInv, Entry, EntryOf, Registered
  <1> HIDE DEF h
  <1>3. waiters[h].st \in {"open", "cancelled"} /\ waiters[h].id = id /\ waiters[h].buf = Nil
    BY <1>2 DEF StoreInv, DeliverNeverDrops
  <1>4. TypeOK'
    BY <1>1, <1>2, TypeStep DEF StoreInv, TypeOK
  <1>5. /\ \A g \in Handles \ {h} : waiters'[g] = waiters[g]
        /\ \A j \in Ids \ {id} : entries'[j] = entries[j]
        /\ entries'[id] = Nil
    BY <1>1 DEF StoreInv, TypeOK
  <1>6. /\ waiters'[h].id = id /\ waiters'[h].st = waiters[h].st
        /\ waiters'[h].buf = r /\ waiters'[h].got = waiters[h].got
    BY <1>1, <1>2, <1>3 DEF StoreInv, TypeOK
  <1>7. \A q \in Responses : q \in {waiters'[h].buf, waiters'[h].got} => IdOf[q] = id
    BY <1>2, <1>3, <1>6 DEF StoreInv, NoCrossTalk
  <1>8. r # Nil
    BY StoreAssumption
  <1>9. \A g \in Handles : ~Registered(g, id)' /\ (Registered(g, id) => g = h)
    BY <1>2, <1>5 DEF Registered
  <1>10. QED
    BY <1>1, <1>2, <1>3, <1>4, <1>5, <1>6, <1>7, <1>8, <1>9, WaiterStep

(* A delivery nobody waits for is kept in the map with its deadline. *)
LEMMA DeliverToStoreInv ==
    ASSUME StoreInv, NEW id \in Ids, NEW r \in Responses, IdOf[r] = id, DeliverToStore(id, r)
    PROVE  StoreInv'
  <1>1. /\ entries' = [entries EXCEPT ![id] = [ch |-> Nil, resp |-> r, expiry |-> now + TTL]]
        /\ waiters' = waiters /\ UNCHANGED cleanupVars /\ EntryOf(id).ch = Nil
    BY DEF DeliverToStore
  <1>2. now + TTL \in Nat \ {0}
    BY StoreAssumption DEF StoreInv, TypeOK
  <1>3. [ch |-> Nil, resp |-> r, expiry |-> now + TTL] \in Entry
    BY <1>2 DEF Entry
  <1>4. TypeOK'
    BY <1>1, <1>3, TypeStep DEF StoreInv, TypeOK
  <1>5. /\ \A j \in Ids \ {id} : entries'[j] = entries[j]
        /\ entries'[id].ch = Nil /\ entries'[id].resp = r /\ entries'[id].expiry # 0
    BY <1>1, <1>2 DEF StoreInv, TypeOK
  <1>6. r # Nil /\ \A g \in Handles : g # Nil
    BY StoreAssumption
  <1>7. EntryShape'
    BY <1>5, <1>6 DEF StoreInv, EntryShape
  <1>8. \A g \in Handles : \A j \in Ids : Registered(g, j)' <=> Registered(g, j)
    <2> SUFFICES ASSUME NEW g \in Handles, NEW j \in Ids
                 PROVE  Registered(g, j)' <=> Registered(g, j)
      OBVIOUS
    <2>1. CASE j = id
      BY <1>1, <1>5, <1>6, <2>1 DEF Registered, EntryOf
    <2>2. CASE j # id
      BY <1>5, <2>2 DEF Registered
    <2>3. QED
      BY <2>1, <2>2
  <1>9. \A j \in Ids : \A q \in Responses :
          (entries'[j] # Nil /\ entries'[j].resp = q) => IdOf[q] = j
    BY <1>5 DEF StoreInv, NoCrossTalk
  <1>10. SweepClock'
    BY <1>1 DEF StoreInv, SweepClock, cleanupVars
  <1>11. QED
    BY <1>1, <1>4, <1>7, <1>8, <1>9, <1>10, MapStep

(* A sweep deletes entries no channel is registered in. *)
LEMMA CleanupSweepInv ==
    ASSUME StoreInv, CleanupSweep
    PROVE  StoreInv'
  <1>1. /\ entries' = [id \in Ids |-> IF Swept(id, sweepNow) THEN Nil ELSE entries[id]]
        /\ sweepNow' = 0 /\ cleaner' = "select"
        /\ waiters' = waiters /\ now' = now /\ tickAt' = tickAt /\ stopped' = stopped
    BY DEF CleanupSweep
  <1>2. TypeOK'
    <2>1. stopped' \in BOOLEAN
      BY <1>1, Zenon DEF StoreInv, TypeOK
    <2>2. QED
      BY <1>1, <2>1 DEF StoreInv, TypeOK
  <1>3. \A j \in Ids : entries'[j] = IF Swept(j, sweepNow) THEN Nil ELSE entries[j]
    BY <1>1
  <1>4. EntryShape'
    BY <1>3 DEF StoreInv, EntryShape
  <1>5. \A g \in Handles : \A j \in Ids : Registered(g, j)' <=> Registered(g, j)
    BY <1>3, StoreAssumption DEF Registered, Swept
  <1>6. \A j \in Ids : \A r \in Responses :
          (entries'[j] # Nil /\ entries'[j].resp = r) => IdOf[r] = j
    BY <1>3 DEF StoreInv, NoCrossTalk
  <1>7. SweepClock'
    BY <1>1 DEF StoreInv, TypeOK, SweepClock
  <1>8. QED
    BY <1>1, <1>2, <1>4, <1>5, <1>6, <1>7, MapStep

(* The steps that touch neither the map nor a waiter. *)
LEMMA ClockStepInv ==
    ASSUME StoreInv, CleanupTick \/ CloseStore \/ CleanupExit \/ Advance \/ UNCHANGED storeVars
    PROVE  StoreInv'
  <1>1. entries' = entries /\ waiters' = waiters
    BY DEF CleanupTick, CloseStore, CleanupExit, Advance, storeVars
  <1>2. stopped' \in BOOLEAN
    BY Zenon DEF StoreInv, TypeOK, CleanupTick, CloseStore, CleanupExit, Advance, storeVars
  <1>3. now' \in Nat \ {0} /\ tickAt' \in Nat /\ sweepNow' \in Nat /\ sweepNow' <= now'
        /\ cleaner' \in {"select", "sweep", "exited"}
    <2>1. CASE CleanupTick
      BY <2>1, IntervalType DEF StoreInv, TypeOK, SweepClock, CleanupTick
    <2>2. CASE CloseStore \/ CleanupExit \/ UNCHANGED storeVars
      BY <2>2 DEF StoreInv, TypeOK, SweepClock, CloseStore, CleanupExit, storeVars
    <2>3. CASE Advance
      BY <2>3 DEF StoreInv, TypeOK, SweepClock, Advance
    <2>4. QED
      BY <2>1, <2>2, <2>3
  <1>4. TypeOK' /\ SweepClock'
    BY <1>1, <1>2, <1>3 DEF StoreInv, TypeOK, SweepClock
  <1>5. EntryShape'
    BY <1>1 DEF StoreInv, EntryShape
  <1>6. \A g \in Handles : \A j \in Ids : Registered(g, j)' <=> Registered(g, j)
    BY <1>1 DEF Registered
  <1>7. \A j \in Ids : \A r \in Responses :
          (entries'[j] # Nil /\ entries'[j].resp = r) => IdOf[r] = j
    BY <1>1 DEF StoreInv, NoCrossTalk
  <1>8. QED
    BY <1>1, <1>4, <1>5, <1>6, <1>7, MapStep

(* Every step of the store keeps the invariant: one lemma per action. *)
LEMMA StoreStep == StoreInv /\ [Next]_storeVars => StoreInv'
  <1> SUFFICES ASSUME StoreInv, [Next]_storeVars
               PROVE  StoreInv'
    OBVIOUS
  <1>1. ASSUME NEW h \in Handles, NEW id \in Ids, Waiter(h, id)
        PROVE  StoreInv'
    BY <1>1, WaiterRefusedInv, WaiterReadyInv, WaiterRegisterInv DEF Waiter
  <1>2. ASSUME NEW h \in Handles, WaitReceive(h) \/ WaitCancelled(h) \/ CloseWaiter(h)
        PROVE  StoreInv'
    BY <1>2, WaitReceiveInv, WaitCancelledInv, CloseWaiterInv
  <1>3. ASSUME NEW r \in Responses, Deliver(IdOf[r], r)
        PROVE  StoreInv'
    <2>1. IdOf[r] \in Ids
      BY StoreAssumption
    <2>2. QED
      BY <1>3, <2>1, DeliverToWaiterInv, DeliverToStoreInv DEF Deliver
  <1>4. CASE CleanupSweep
    BY <1>4, CleanupSweepInv
  <1>5. CASE CleanupTick \/ CloseStore \/ CleanupExit \/ Advance \/ UNCHANGED storeVars
    BY <1>5, ClockStepInv
  <1>6. QED
    BY <1>1, <1>2, <1>3, <1>4, <1>5 DEF Next

-----------------------------------------------------------------------------
(* Every reachable state of the store satisfies the invariant: the map     *)
(* holds a channel or a response and never both, a registered channel has  *)
(* room, no open waiter is forgotten and nobody sees another id's answer.  *)
THEOREM StoreSafe == Spec => []StoreInv
  BY StoreInit, StoreStep, PTL DEF Spec

(* The store's state (the fields of naive.go) keeps its types, and an entry *)
(* of the map is a registered channel or a stored response with an expiry. *)
THEOREM TypeCorrect == Spec => [](TypeOK /\ EntryShape)
  <1>1. StoreInv => TypeOK /\ EntryShape
    BY DEF StoreInv
  <1>2. QED
    BY StoreSafe, <1>1, PTL

(* Deliver never takes the default case of its send and so never drops a   *)
(* response it found a channel for.                                        *)
THEOREM NeverDrops == Spec => []DeliverNeverDrops
  <1>1. StoreInv => DeliverNeverDrops
    BY DEF StoreInv
  <1>2. QED
    BY StoreSafe, <1>1, PTL

(* Neither a sweep nor the Close of another waiter makes the store forget  *)
(* a waiter that is still waiting.                                         *)
THEOREM NeverLost == Spec => []WaiterNotLost
  <1>1. StoreInv => WaiterNotLost
    BY DEF StoreInv
  <1>2. QED
    BY StoreSafe, <1>1, PTL

(* A waiter receives only what was delivered under its own id. *)
THEOREM OwnAnswerOnly == Spec => []NoCrossTalk
  <1>1. StoreInv => NoCrossTalk
    BY DEF StoreInv
  <1>2. QED
    BY StoreSafe, <1>1, PTL

-----------------------------------------------------------------------------
(* The ways a stored response can leave the map: handed to a new waiter, or*)
(* swept, and the clock value of the sweep is not ahead of the clock.      *)
LEMMA KeptStep ==
    ASSUME StoreInv, [Next]_storeVars, NEW id \in Ids,
           entries[id] # Nil, entries[id].resp # Nil, entries'[id] = Nil
    PROVE  \/ now > entries[id].expiry
           \/ \E h \in Handles : /\ waiters[h].st = "free"
                                 /\ waiters'[h].st = "open"
                                 /\ waiters'[h].buf = entries[id].resp
  <1> DEFINE Goal == \/ now > entries[id].expiry
                     \/ \E h \in Handles : /\ waiters[h].st = "free"
                                           /\ waiters'[h].st = "open"
                                           /\ waiters'[h].buf = entries[id].resp
  <1>1. entries[id].ch = Nil /\ EntryOf(id) = entries[id]
    BY DEF StoreInv, EntryShape, EntryOf
  <1>2. entries \in [Ids -> Entry \cup {Nil}] /\ entries[id] \in Entry
    BY DEF StoreInv, TypeOK
  <1>3. entries' # entries
    OBVIOUS
  <1>4. ASSUME NEW h \in Handles, NEW j \in Ids, Waiter(h, j)
        PROVE  Goal
    <2>1. CASE WaiterRefused(h, j)
      BY <2>1, <1>3 DEF WaiterRefused
    <2>2. CASE WaiterReady(h, j)
      <3>1. j = id
        BY <2>2, <1>2 DEF WaiterReady
      <3>2. /\ waiters[h].st = "free" /\ waiters'[h].st = "open"
            /\ waiters'[h].buf = entries[id].resp
        BY <2>2, <3>1, <1>1 DEF WaiterReady, StoreInv, TypeOK
      <3>3. QED
        BY <3>2
    <2>3. CASE WaiterRegister(h, j)
      <3>1. j # id
        BY <2>3, <1>1 DEF WaiterRegister
      <3>2. QED
        BY <2>3, <3>1, <1>2 DEF WaiterRegister
    <2>4. QED
      BY <1>4, <2>1, <2>2, <2>3 DEF Waiter
  <1>5. ASSUME NEW h \in Handles, WaitReceive(h) \/ WaitCancelled(h) \/ CloseWaiter(h)
        PROVE  Goal
    <2>1. CASE WaitReceive(h) \/ WaitCancelled(h)
      BY <2>1, <1>3 DEF WaitReceive, WaitCancelled
    <2>2. CASE CloseWaiter(h)
      <3>1. PICK j \in Ids : j = waiters[h].id
        BY <2>2 DEF CloseWaiter, StoreInv, WaiterKnowsId
      <3>2. entries[j] # Nil /\ entries[j].ch = h /\ h # Nil /\ j # id
        BY <2>2, <3>1, <1>1, <1>3, StoreAssumption DEF CloseWaiter, release
      <3>3. entries'[id] = entries[id]
        BY <2>2, <3>1, <3>2, <1>2 DEF CloseWaiter, release
      <3>4. QED
        BY <3>3
    <2>3. QED
      BY <1>5, <2>1, <2>2
  <1>6. ASSUME NEW r \in Responses, Deliver(IdOf[r], r)
        PROVE  Goal
    <2>1. PICK j \in Ids : j = IdOf[r]
      BY StoreAssumption
    <2>2. CASE DeliverToWaiter(j, r)
      BY <2>2, <1>1, <1>2 DEF DeliverToWaiter
    <2>3. CASE DeliverToStore(j, r)
      <3>1. now + TTL \in Nat
        BY StoreAssumption DEF StoreInv, TypeOK
      <3>2. [ch |-> Nil, resp |-> r, expiry |-> now + TTL] \in Entry
        BY <3>1 DEF Entry
      <3>3. [ch |-> Nil, resp |-> r, expiry |-> now + TTL] # Nil
        BY <3>2, StoreAssumption
      <3>4. QED
        BY <2>3, <3>3, <1>2 DEF DeliverToStore
    <2>4. QED
      BY <1>6, <2>1, <2>2, <2>3 DEF Deliver
  <1>7. CASE CleanupSweep
    <2>1. sweepNow > entries[id].expiry
      BY <1>7 DEF CleanupSweep, Swept
    <2>2. entries[id].expiry \in Nat /\ sweepNow \in Nat /\ now \in Nat /\ sweepNow <= now
      BY <1>2 DEF StoreInv, TypeOK, SweepClock, Entry
    <2>3. QED
      BY <2>1, <2>2
  <1>8. CASE CleanupTick \/ CloseStore \/ CleanupExit \/ Advance \/ UNCHANGED storeVars
    BY <1>8, <1>3 DEF CleanupTick, CloseStore, CleanupExit, Advance, storeVars
  <1>9. QED
    BY <1>4, <1>5, <1>6, <1>7, <1>8 DEF Next

(* A stored response is kept for its whole time to live, unless a waiter   *)
(* takes it, although cleanupLoop reads the clock before it has the mutex. *)
THEOREM KeptForTTLHolds == Spec => KeptForTTL
  <1>1. StoreInv /\ [Next]_storeVars =>
        [\A id \in Ids :
          (entries[id] # Nil /\ entries[id].resp # Nil /\ entries'[id] = Nil)
          => \/ now > entries[id].expiry
             \/ \E h \in Handles : /\ waiters[h].st = "free"
                                   /\ waiters'[h].st = "open"
                                   /\ waiters'[h].buf = entries[id].resp]_storeVars
    BY KeptStep
  <1>2. QED
    BY <1>1, StoreSafe, PTL DEF Spec, KeptForTTL

=============================================================================
