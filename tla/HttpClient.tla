------------------------------ MODULE HttpClient ------------------------------
(***************************************************************************)
(* The three HTTP clients of the Python SDK (proxy_client.py): one request *)
(* per call, batches whose answers come in order, and batches whose        *)
(* answers come in any order under the ids the client gave.  The batching  *)
(* library, the server and the network are external: any part of the queue *)
(* becomes a batch, any number of batches are under way, and an answer may *)
(* be an error, damaged, repeated, cut short or never sent.                *)
(***************************************************************************)
EXTENDS Integers, Sequences, FiniteSets

CONSTANTS Calls, Nil

VARIABLES
    kind,     \* the client create_proxy_client made of the url
    task,     \* per call: where its execute() is and the result it got
    waiting,  \* the queue of the batching library
    batches   \* the batches sent: the calls in them, the lines read, the end

httpVars == <<kind, task, waiting, batches>>

Kinds == {"single", "batch", "unordered"}

Init ==
    /\ kind \in Kinds
    /\ task = [c \in Calls |-> [st |-> "idle", value |-> Nil]]
    /\ waiting = <<>>
    /\ batches = {}

-----------------------------------------------------------------------------
(* The calls of a batch whose future has neither a result nor an exception. *)
Unset(b) == {i \in DOMAIN b.members : task[b.members[i]].st = "sent"}

(* The calls at the positions I of a batch. *)
Members(b, I) == {b.members[i] : i \in I}

(* Futures of batch b get a result: the answer that stands at value[i].    *)
Resolve(b, value) ==
    [c \in Calls |-> IF \E i \in DOMAIN value : b.members[i] = c
                     THEN [st |-> "returned",
                           value |-> value[CHOOSE i \in DOMAIN value : b.members[i] = c]]
                     ELSE task[c]]

Raise(C) == [c \in Calls |-> IF c \in C THEN [st |-> "raised", value |-> Nil] ELSE task[c]]

Batch(members) == [members |-> members, lines |-> <<>>, st |-> "sent"]

Update(b, new) == batches' = (batches \ {b}) \cup {new}

(* execute(): a single call is posted at once, the others queue up. *)
Execute(c) ==
    /\ task[c].st = "idle"
    /\ \/ /\ kind = "single"
          /\ task' = [task EXCEPT ![c].st = "sent"]
          /\ batches' = batches \cup {Batch(<<c>>)}
          /\ UNCHANGED waiting
       \/ /\ kind # "single"
          /\ task' = [task EXCEPT ![c].st = "waiting"]
          /\ waiting' = Append(waiting, c)
          /\ UNCHANGED batches
    /\ UNCHANGED kind

(* The library hands the head of its queue to _batch_execute. *)
StartBatch ==
    /\ \E n \in 1..Len(waiting) :
          LET b == Batch(SubSeq(waiting, 1, n))
          IN  /\ batches' = batches \cup {b}
              /\ task' = [c \in Calls |-> IF c \in Members(b, DOMAIN b.members)
                                          THEN [task[c] EXCEPT !.st = "sent"] ELSE task[c]]
              /\ waiting' = SubSeq(waiting, n + 1, Len(waiting))
    /\ UNCHANGED kind

(* No connection, a status that raise_for_status refuses, a broken stream, *)
(* a line that does not parse or a timeout: the exception ends the batch,  *)
(* and the library gives it to the futures that are not set.               *)
Breaks(b) ==
    /\ b.st = "sent"
    /\ task' = Raise(Members(b, Unset(b)))
    /\ Update(b, [b EXCEPT !.st = "broken"])
    /\ UNCHANGED <<kind, waiting>>

-----------------------------------------------------------------------------
(* A line of an answer: res is the request whose result the server put in *)
(* it, Nil if it is an error.  The id the client gave to position i counts *)
(* as i; a negative one is the number the server sent; 0 stands for one    *)
(* that is missing, empty or no number.                                    *)
Line(id, res) == [id |-> id, res |-> res]

(* What a line to batch b can hold: the server may confuse its requests. *)
Contents(b) == Members(b, DOMAIN b.members) \cup {Nil}

Answer(b) ==
    /\ kind = "single"
    /\ b.st = "sent"
    /\ \E res \in Contents(b) :
          /\ task' = IF res # Nil THEN Resolve(b, <<res>>) ELSE Raise(Members(b, {1}))
          /\ Update(b, [b EXCEPT !.st = "ended", !.lines = <<Line(1, res)>>])
    /\ UNCHANGED <<kind, waiting>>

(* Bound: the server sends one line more than there are requests. *)
MayReadMore(b) == Len(b.lines) <= Len(b.members)

(* A line with an error is appended and then searched for a result: the    *)
(* KeyError ends the whole batch.                                          *)
ReadOrdered(b) ==
    /\ kind = "batch"
    /\ b.st = "sent"
    /\ MayReadMore(b)
    /\ \E res \in Contents(b) :
          LET read == Append(b.lines, Line(Len(b.lines) + 1, res))
          IN  /\ task' = IF res # Nil THEN task ELSE Raise(Members(b, Unset(b)))
              /\ Update(b, [b EXCEPT !.lines = read, !.st = IF res # Nil THEN "sent" ELSE "ended"])
    /\ UNCHANGED <<kind, waiting>>

(* len(res) is compared with len(args_list). *)
AllLines(b) == Len(b.lines) = Len(b.members)

(* The end of the answer: too few or too many lines fail every call. *)
EndOrdered(b) ==
    /\ kind = "batch"
    /\ b.st = "sent"
    /\ task' = IF AllLines(b) THEN Resolve(b, [i \in DOMAIN b.members |-> b.lines[i].res])
               ELSE Raise(Members(b, Unset(b)))
    /\ Update(b, [b EXCEPT !.st = "ended"])
    /\ UNCHANGED <<kind, waiting>>

(* futures[id]: a negative id counts from the end of the list. *)
Place(b, line) == IF line.id < 0 THEN Len(b.members) + 1 + line.id ELSE line.id

(* The line read names a future, which is set already or not. *)
Names(b, line) == Place(b, line) \in DOMAIN b.members
Repeats(b, line) == Names(b, line) /\ Place(b, line) \notin Unset(b)

(* A mistake: a result goes to the first future that is not set. *)
SetFirstUnset(b, line) ==
    LET first == CHOOSE i \in Unset(b) : \A j \in Unset(b) : i <= j
    IN  IF line.res # Nil
        THEN [task EXCEPT ![b.members[first]] = [st |-> "returned", value |-> line.res]]
        ELSE Raise({b.members[Place(b, line)]})

SetFuture(b, line) ==
    LET c == b.members[Place(b, line)]
    IN  IF line.res # Nil THEN [task EXCEPT ![c] = [st |-> "returned", value |-> line.res]]
        ELSE Raise({c})

(* futures[id] is out of range. *)
OutOfRange(b, line) == line.id # 0 /\ ~Names(b, line)

(* A mistake: after an error the line is searched for a result as well. *)
EndsStreamOnError(b, line) == OutOfRange(b, line) \/ Repeats(b, line) \/ line.res = Nil

(* The list has no such future, or it is set a second time. *)
EndsStream(b, line) == OutOfRange(b, line) \/ Repeats(b, line)

(* The numbers a server can send, in range and beyond it at both ends. *)
Ids(b) == (-(Len(b.members) + 1))..(Len(b.members) + 1)

(* An unusable id is kept for the end. *)
ReadUnordered(b) ==
    /\ kind = "unordered"
    /\ b.st = "sent"
    /\ MayReadMore(b)
    /\ \E id \in Ids(b), res \in Contents(b) :
          LET line == Line(id, res)
              ends == EndsStream(b, line)
          IN  /\ task' = IF ends THEN Raise(Members(b, Unset(b)))
                         ELSE IF Names(b, line) THEN SetFuture(b, line) ELSE task
              /\ Update(b, [b EXCEPT !.lines = Append(@, line), !.st = IF ends THEN "ended" ELSE "sent"])
    /\ UNCHANGED <<kind, waiting>>

(* The end of the answer.  A future whose id never came stays unset unless *)
(* an unusable id makes the batch raise.                                   *)
EndUnordered(b) ==
    /\ kind = "unordered"
    /\ b.st = "sent"
    /\ task' = IF \E i \in DOMAIN b.lines : ~Names(b, b.lines[i])
               THEN Raise(Members(b, Unset(b))) ELSE task
    /\ Update(b, [b EXCEPT !.st = "ended"])
    /\ UNCHANGED <<kind, waiting>>

BatchStep(b) ==
    Answer(b) \/ ReadOrdered(b) \/ EndOrdered(b) \/ ReadUnordered(b) \/ EndUnordered(b)

Progress == StartBatch \/ \E b \in batches : BatchStep(b)

Next ==
    \/ \E c \in Calls : Execute(c)
    \/ Progress
    \/ \E b \in batches : Breaks(b)

-----------------------------------------------------------------------------
BatchType == [members : Seq(Calls), lines : Seq([id : Int, res : Calls \cup {Nil}]),
              st : {"sent", "broken", "ended"}]

TypeOK ==
    /\ kind \in Kinds
    /\ task \in [Calls -> [st : {"idle", "waiting", "sent", "returned", "raised"},
                           value : Calls \cup {Nil}]]
    /\ waiting \in Seq(Calls)
    /\ \A c \in Calls : (task[c].st = "waiting") <=> (\E i \in DOMAIN waiting : waiting[i] = c)
    /\ batches \subseteq BatchType

(* The lines of an answer that stand for position i of the batch, and the  *)
(* first of them.                                                          *)
Own(b, i) == {j \in DOMAIN b.lines : Place(b, b.lines[j]) = i}
FirstOwn(b, i) == CHOOSE j \in Own(b, i) : \A k \in Own(b, i) : j <= k

(* A call returns what the first line that stands for it carries, by its   *)
(* position or by its id, and in an ordered batch only if there were as    *)
(* many lines as calls; in whatever order lines came and however they were *)
(* repeated, misnumbered or cut.  So no line serves two calls.             *)
GotOwn(b, i) ==
    /\ Own(b, i) # {}
    /\ task[b.members[i]].value = b.lines[FirstOwn(b, i)].res
    /\ b.lines[FirstOwn(b, i)].res # Nil
    /\ kind = "batch" => AllLines(b)

Served(b) == \A i \in DOMAIN b.members : task[b.members[i]].st = "returned" => GotOwn(b, i)

OwnAnswer == \A b \in batches : Served(b)

(* What can make the batch of an unordered call raise, as far as it was    *)
(* read: an unusable or out-of-range id, or a future named twice.          *)
Spoiled(b) ==
    \E i \in DOMAIN b.lines :
       \/ ~Names(b, b.lines[i])
       \/ \E j \in 1..(i - 1) : Place(b, b.lines[j]) = Place(b, b.lines[i])

(* A call raises only for an error of its own, for the transport, or for   *)
(* what spoils the whole batch; in an ordered batch that is every error    *)
(* line, one too few or one too many, in an unordered one only a bad id,   *)
(* and never for a call whose result was read first.                       *)
Cause(b, i) ==
    \/ kind = "batch" /\ (b.st = "broken" \/ ~AllLines(b) \/ \E j \in DOMAIN b.lines : b.lines[j].res = Nil)
    \/ Own(b, i) # {} /\ b.lines[FirstOwn(b, i)].res = Nil
    \/ Own(b, i) = {} /\ (b.st = "broken" \/ Spoiled(b))

RaisedFor(b) == \A i \in DOMAIN b.members : task[b.members[i]].st = "raised" => Cause(b, i)

FailureHasCause == \A b \in batches : RaisedFor(b)

(* Every call returns or raises, unless the server left its answer out of  *)
(* a stream it ended well.                                                 *)
CallsEnd ==
    \A c \in Calls :
       (task[c].st # "idle") ~>
          \/ task[c].st \in {"returned", "raised"}
          \/ kind = "unordered" /\ \E b \in batches : b.st = "ended" /\ c \in Members(b, Unset(b))

-----------------------------------------------------------------------------
(* What the steps keep: a call waits or is in a batch at most once, its    *)
(* future is unset as long as nothing was read for it, and what was read   *)
(* while the batch goes on has spoiled nothing.                            *)
QueuedOnce == \A i, j \in DOMAIN waiting : waiting[i] = waiting[j] => i = j

Batched(b) ==
    /\ b.members # <<>>
    /\ \A i \in DOMAIN b.members : task[b.members[i]].st \in {"sent", "returned", "raised"}

BatchedOnce ==
    \A a, b \in batches : \A i \in DOMAIN a.members, j \in DOMAIN b.members :
        a.members[i] = b.members[j] => a = b /\ i = j

UnderWay(b) ==
    b.st = "sent" =>
        IF kind = "unordered"
        THEN \A i \in DOMAIN b.members : i \in Unset(b) <=> Own(b, i) = {}
        ELSE /\ Unset(b) = DOMAIN b.members
             /\ \A j \in DOMAIN b.lines : b.lines[j].id = j /\ b.lines[j].res # Nil
             /\ kind = "single" => b.lines = <<>>

HttpInv ==
    /\ TypeOK
    /\ QueuedOnce /\ BatchedOnce
    /\ \A b \in batches : Batched(b) /\ UnderWay(b) /\ Served(b) /\ RaisedFor(b)
=============================================================================
