--------------------------- MODULE MCResponseStore ---------------------------
(* Instances of the store.  A response belongs to the id of the same        *)
(* position; it may be delivered any number of times.                       *)
EXTENDS ResponseStore, TLC

CONSTANTS i1, i2, r1, r2

MCIdOf == [r \in Responses |-> IF r = r1 THEN i1 ELSE i2]
=============================================================================
