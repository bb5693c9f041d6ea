---------------------------- MODULE DurableQueue ----------------------------
(***************************************************************************)
(* What the outbox promises, with no page, no drain and no reload in it.   *)
(* A write that could not be delivered joins a durable FIFO queue. Only    *)
(* two kinds of request are ever put on the wire: a first attempt made     *)
(* while there is no backlog, and the head of the queue. A write leaves    *)
(* the queue when it is canceled, or as the head once the server has       *)
(* handled it.                                                             *)
(***************************************************************************)
EXTENDS Naturals, SequencesExt

CONSTANT Calls

VARIABLES
    queue,      \* the undelivered writes, oldest first
    made,       \* the calls the app has made
    wire,       \* calls with a request under way
    handled     \* calls the server has handled

vars == <<queue, made, wire, handled>>

Queued == {queue[i] : i \in DOMAIN queue}

Init ==
    /\ queue = <<>>
    /\ made = {}
    /\ wire = {}
    /\ handled = {}

(* Requests may vanish in any step, and the head may be sent (again).      *)
HeadOf(q) == IF q = <<>> THEN {} ELSE {q[1]}
Wire == wire' \subseteq wire \cup HeadOf(queue')

FirstAttempt(c) ==
    /\ queue = <<>>
    /\ c \notin made
    /\ made' = made \cup {c}
    /\ wire' = wire \cup {c}
    /\ UNCHANGED <<queue, handled>>

(* Behind a backlog a call is made by joining the queue; a first attempt   *)
(* that failed joins it later.                                             *)
Enqueue(c) ==
    /\ c \notin Queued
    /\ c \in made \/ queue # <<>>
    /\ queue' = Append(queue, c)
    /\ made' = made \cup {c}
    /\ wire' \subseteq wire
    /\ UNCHANGED handled

Handle(c) ==
    /\ c \in wire
    /\ handled' = handled \cup {c}
    /\ wire' \subseteq wire
    /\ UNCHANGED <<queue, made>>

Send ==
    /\ Wire
    /\ UNCHANGED <<queue, made, handled>>

Deliver ==
    /\ queue # <<>>
    /\ queue[1] \in handled
    /\ queue' = Tail(queue)
    /\ Wire
    /\ UNCHANGED <<made, handled>>

(* The others keep their order.                                            *)
Cancel(c) ==
    /\ \E i \in DOMAIN queue :
          /\ queue[i] = c
          /\ queue' = RemoveAt(queue, i)
    /\ UNCHANGED <<made, wire, handled>>

Next ==
    \/ \E c \in Calls : FirstAttempt(c) \/ Enqueue(c) \/ Handle(c) \/ Cancel(c)
    \/ Send
    \/ Deliver

Spec == Init /\ [][Next]_vars

=============================================================================
