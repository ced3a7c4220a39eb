----------------------------- MODULE ExecService -----------------------------
(***************************************************************************)
(* What ProxyClient.execute promises its caller (proxy_client.py), however *)
(* the client, the proxy, the list and the workers do it: a call ends at   *)
(* most once, and the value it returns is what a run of ITS OWN binary     *)
(* produced - never another call's and never one that was made up.  It     *)
(* does not promise that the binary runs once: attempts that were given up *)
(* may still run, even after the call has ended.                           *)
(***************************************************************************)
CONSTANTS
    Calls,   \* execute() calls
    Values,  \* the results a run can have
    Nil      \* no result

VARIABLES
    status,  \* per call: "idle", "pending", "returned" or "raised"
    result,  \* per call: what it returned
    made     \* per call: the results its runs had so far

serviceVars == <<status, result, made>>

Init ==
    /\ status = [c \in Calls |-> "idle"]
    /\ result = [c \in Calls |-> Nil]
    /\ made = [c \in Calls |-> {}]

Start(c) ==
    /\ status[c] = "idle"
    /\ status' = [status EXCEPT ![c] = "pending"]
    /\ UNCHANGED <<result, made>>

Run(c, v) ==
    /\ status[c] # "idle"
    /\ made' = [made EXCEPT ![c] = @ \cup {v}]
    /\ UNCHANGED <<status, result>>

Return(c, v) ==
    /\ status[c] = "pending"
    /\ v \in made[c]
    /\ status' = [status EXCEPT ![c] = "returned"]
    /\ result' = [result EXCEPT ![c] = v]
    /\ UNCHANGED made

Raise(c) ==
    /\ status[c] = "pending"
    /\ status' = [status EXCEPT ![c] = "raised"]
    /\ UNCHANGED <<result, made>>

Next ==
    \E c \in Calls :
        \/ Start(c)
        \/ Raise(c)
        \/ \E v \in Values : Run(c, v) \/ Return(c, v)

Spec == Init /\ [][Next]_serviceVars

(* A returned value was produced by a run of the call's own binary. *)
ReturnsOwnResult == \A c \in Calls : status[c] = "returned" => result[c] \in made[c]
=============================================================================
