------------------------------- MODULE Clients -------------------------------
(***************************************************************************)
(* create_proxy_client of proxy_client.py: the url decides once which      *)
(* client answers the calls, the gRPC client of ProxyClient or one of the  *)
(* HTTP clients of HttpClient.  The other one is never used.               *)
(***************************************************************************)
EXTENDS ProxyClient, Sequences, FiniteSets

CONSTANT HttpCalls   \* execute() calls on one HTTP client

VARIABLES kind, task, waiting, batches

Http == INSTANCE HttpClient WITH Calls <- HttpCalls

clientsVars == <<clientVars, kind, task, waiting, batches>>

(* The HTTP part before a url is looked at. *)
HttpUnused ==
    /\ task = [c \in HttpCalls |-> [st |-> "idle", value |-> Nil]]
    /\ waiting = <<>>
    /\ batches = {}

create_proxy_client ==
    /\ Init
    /\ Http!Init \/ (kind = "grpc" /\ HttpUnused)

OverGrpc(A) == kind = "grpc" /\ A /\ UNCHANGED <<kind, task, waiting, batches>>
OverHttp(A) == kind # "grpc" /\ A /\ UNCHANGED clientVars

ClientsNext == OverGrpc(Next) \/ OverHttp(Http!Next)

ClientsSpec == create_proxy_client /\ [][ClientsNext]_clientsVars

(* The event loop runs every coroutine that can go on, a sleep ends, and   *)
(* the proxy answers or the timeout of the client ends the wait.           *)
ClientsFairSpec ==
    /\ ClientsSpec
    /\ \A c \in Calls :
          /\ WF_clientsVars(OverGrpc(Send(c, TRUE)))
          /\ WF_clientsVars(OverGrpc(ClientStep(c)))
    /\ \A c \in HttpCalls : WF_clientsVars(OverHttp(Http!Execute(c)))
    /\ \A r \in Reqs : WF_clientsVars(OverGrpc(Answer(r)))
    /\ WF_clientsVars(OverHttp(Http!Progress))

-----------------------------------------------------------------------------
ClientsTypeOK == TypeOK /\ ((kind = "grpc" /\ HttpUnused) \/ Http!TypeOK)

(* A call over HTTP returns what the first line that stands for it, by its *)
(* position or its id, carries, and an ordered one only if the answer had  *)
(* as many lines as the batch calls.                                       *)
OwnAnswer == Http!OwnAnswer

(* A call over HTTP raises only for its own error, the transport or what   *)
(* spoils its whole batch (a line too many among it, an id out of range at *)
(* either end), and an unordered one never once its result was read.       *)
FailureHasCause == kind # "grpc" => Http!FailureHasCause

(* Whatever the client, every call returns or raises, except one whose     *)
(* answer the server left out of an unordered batch that ended well.       *)
AllCallsEnd == CallsEnd /\ Http!CallsEnd

-----------------------------------------------------------------------------
(* What the steps of either client keep. *)
ClientsInv ==
    /\ TypeOK /\ AttemptsLeft /\ SetbacksPaid
    /\ (kind = "grpc" /\ HttpUnused) \/ Http!HttpInv
=============================================================================
