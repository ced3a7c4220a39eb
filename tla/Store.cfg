\* Two waiters over two ids, each answered any number of times: an id is waited
\* for again after it was answered, and a waiter is closed after another one
\* registered for the same id.  Time to live and cleanup interval are one tick.
SPECIFICATION FairSpec
CONSTANTS
    i1 = i1
    i2 = i2
    r1 = r1
    r2 = r2
    Ids = {i1, i2}
    Responses = {r1, r2}
    IdOf <- MCIdOf
    Handles = {h1, h2}
    Nil = Nil
    TTL = 1
    Minute = 1
    MaxTime = 5
INVARIANTS EntryShape DeliverNeverDrops WaiterNotLost NoCrossTalk
PROPERTIES KeptForTTL OrphansCollected
CHECK_DEADLOCK FALSE
