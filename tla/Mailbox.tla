------------------------------- MODULE Mailbox -------------------------------
(***************************************************************************)
(* createPushIterator(): the bounded mailbox between a producer that       *)
(* pushes (a socket's fan-out, the tab's channel) and a consumer that      *)
(* pulls. It carries values, one in-band control signal (the boundary      *)
(* between replay and live) and a terminal slot. A value is its number.    *)
(***************************************************************************)
EXTENDS Naturals, Sequences

CONSTANTS
    MaxSlots,   \* maxBuffer
    MaxPushes   \* bound: the values pushed

ASSUME MailboxAssumption == MaxSlots \in Nat \ {0} /\ MaxPushes \in Nat

VARIABLES
    buffer,     \* the slots that wait
    pull,       \* the consumer's next(): none, waiting, or woken with a slot in hand
    closed,
    pushed,     \* the values pushed so far
    signal,     \* the control: not yet, queued, ran, and after how many pushes it was queued
    terminal,   \* an end, an error or a disconnect was signalled
    taken       \* the values the consumer got

mvars == <<buffer, pull, closed, pushed, signal, terminal, taken>>

Slot == [kind : {"value", "control", "terminal"}, n : 0 .. MaxPushes]

NoSlot == [kind |-> "none", n |-> 0]

MailInit ==
    /\ buffer = <<>>
    /\ pull = [pc |-> "none", hand |-> NoSlot]
    /\ closed = FALSE
    /\ pushed = 0
    /\ signal = [state |-> "no", after |-> 0, before |-> 0]
    /\ terminal = FALSE
    /\ taken = <<>>

-----------------------------------------------------------------------------
(* Fault: at the cap the newest value goes.                                *)
queuedDropNew(slot) ==
    IF slot.kind = "value" /\ Len(buffer) >= MaxSlots THEN buffer ELSE Append(buffer, slot)

(* At the cap a value takes the place of the oldest slot.                  *)
queued(slot) ==
    IF slot.kind = "value" /\ Len(buffer) >= MaxSlots
    THEN Append(Tail(buffer), slot) ELSE Append(buffer, slot)

(* deliver(): to a waiting next(), or into the buffer.                     *)
deliver(slot) ==
    CASE closed -> UNCHANGED <<buffer, pull>>
      [] ~closed /\ pull.pc = "waiting" ->
             pull' = [pc |-> "woken", hand |-> slot] /\ buffer' = buffer
      [] OTHER -> buffer' = queued(slot) /\ pull' = pull

Push ==
    /\ ~terminal /\ pushed < MaxPushes
    /\ pushed' = pushed + 1
    /\ deliver([kind |-> "value", n |-> pushed'])
    /\ UNCHANGED <<closed, signal, terminal, taken>>

(* Fault: the control runs as it comes, past the slots that wait.          *)
ControlAtOnce ==
    /\ ~terminal /\ signal.state = "no"
    /\ signal' = [state |-> "ran", after |-> pushed, before |-> Len(taken)]
    /\ UNCHANGED <<buffer, pull, closed, pushed, terminal, taken>>

Control ==
    /\ ~terminal /\ signal.state = "no"
    /\ signal' = [signal EXCEPT !.state = "queued", !.after = pushed]
    /\ deliver([kind |-> "control", n |-> 0])
    /\ UNCHANGED <<closed, pushed, terminal, taken>>

(* end(), error() and disconnect(): the producer lets go of the consumer.  *)
Terminate ==
    /\ ~terminal
    /\ terminal' = TRUE
    /\ deliver([kind |-> "terminal", n |-> 0])
    /\ UNCHANGED <<closed, pushed, signal, taken>>

-----------------------------------------------------------------------------
(* next(): the oldest slot, or the next one that is pushed. A slot that    *)
(* was there is handled in the same turn of the code; here Woken does it.  *)
NextCall ==
    /\ pull.pc = "none" /\ ~closed
    /\ pull' = IF buffer = <<>> THEN [pc |-> "waiting", hand |-> NoSlot]
               ELSE [pc |-> "woken", hand |-> Head(buffer)]
    /\ buffer' = IF buffer = <<>> THEN buffer ELSE Tail(buffer)
    /\ UNCHANGED <<closed, pushed, signal, terminal, taken>>

(* It goes on with its slot: a control runs, and the loop takes another.   *)
Woken ==
    /\ pull.pc = "woken"
    /\ LET slot == pull.hand
       IN  CASE slot.kind = "value" ->
                    /\ taken' = Append(taken, slot.n)
                    /\ pull' = [pc |-> "none", hand |-> NoSlot]
                    /\ UNCHANGED <<buffer, closed, signal>>
             [] slot.kind = "control" ->
                    /\ signal' = [signal EXCEPT !.state = "ran", !.before = Len(taken)]
                    /\ pull' = CASE closed -> [pc |-> "none", hand |-> NoSlot]
                                 [] ~closed /\ buffer = <<>> -> [pc |-> "waiting", hand |-> NoSlot]
                                 [] OTHER -> [pc |-> "woken", hand |-> Head(buffer)]
                    /\ buffer' = IF closed \/ buffer = <<>> THEN buffer ELSE Tail(buffer)
                    /\ UNCHANGED <<closed, taken>>
             [] OTHER ->
                    /\ closed' = TRUE
                    /\ pull' = [pc |-> "none", hand |-> NoSlot]
                    /\ UNCHANGED <<buffer, signal, taken>>
    /\ UNCHANGED <<pushed, terminal>>

(* Fault: a waiting next() is left waiting.                                *)
ReturnDeaf ==
    /\ ~closed
    /\ closed' = TRUE
    /\ UNCHANGED <<pull, buffer, pushed, signal, terminal, taken>>

(* return(): closed, and a waiting next() is told the end.                 *)
ReturnCall ==
    /\ ~closed
    /\ closed' = TRUE
    /\ pull' = IF pull.pc = "waiting"
               THEN [pc |-> "woken", hand |-> [kind |-> "terminal", n |-> 0]] ELSE pull
    /\ UNCHANGED <<buffer, pushed, signal, terminal, taken>>

-----------------------------------------------------------------------------
MailNext == Push \/ Control \/ Terminate \/ NextCall \/ Woken \/ ReturnCall

(* The continuation of a woken next() is a microtask.                      *)
MailFairness == WF_mvars(Woken)

MailSpec == MailInit /\ [][MailNext]_mvars /\ MailFairness

-----------------------------------------------------------------------------
MailType ==
    /\ buffer \in Seq(Slot)
    /\ pull \in [pc : {"none", "waiting", "woken"}, hand : Slot \cup {NoSlot}]
    /\ closed \in BOOLEAN /\ terminal \in BOOLEAN
    /\ pushed \in 0 .. MaxPushes
    /\ signal \in [state : {"no", "queued", "ran"}, after : 0 .. MaxPushes, before : 0 .. MaxPushes]
    /\ taken \in Seq(1 .. MaxPushes)

(* What can still come to the consumer, in order. *)
Ahead == (IF pull.hand = NoSlot THEN <<>> ELSE <<pull.hand>>) \o buffer

Values == {i \in DOMAIN Ahead : Ahead[i].kind = "value"}

(* Values come in the order they were pushed, and while the consumer is    *)
(* there the newest is never the one that was let go: live fan-out is      *)
(* latest-wins.                                                            *)
LatestWins ==
    /\ \A i, j \in DOMAIN taken : i < j => taken[i] < taken[j]
    /\ \A i \in DOMAIN taken, j \in Values : taken[i] < Ahead[j].n
    /\ \A i, j \in Values : i < j => Ahead[i].n < Ahead[j].n
    /\ ~closed /\ pushed > 0 =>
          (\E i \in DOMAIN taken : taken[i] = pushed) \/ (\E j \in Values : Ahead[j].n = pushed)

(* The control runs between the values pushed before it and those after.   *)
ControlInBand ==
    signal.state = "ran" =>
        \A i \in DOMAIN taken : (i <= signal.before) <=> (taken[i] <= signal.after)

(* A control is never dropped by the buffer cap: queued, it has run or is  *)
(* still to be met.                                                        *)
ControlKept ==
    signal.state = "queued" /\ ~closed =>
        pull.hand.kind = "control" \/ \E i \in DOMAIN buffer : buffer[i].kind = "control"

(* A consumer that waits learns of the end, whoever brings it about.       *)
LoopEnds == (pull.pc # "none" /\ (terminal \/ closed)) ~> (pull.pc = "none")
=============================================================================
