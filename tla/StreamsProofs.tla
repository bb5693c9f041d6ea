--------------------------- MODULE StreamsProofs ----------------------------
(***************************************************************************)
(* Proofs about what carries values from the server to the client, for any *)
(* cap, any number of values, frames, keys and stashed pages.              *)
(***************************************************************************)
EXTENDS MCStreams, SequenceTheorems, TLAPS

-----------------------------------------------------------------------------
(* The mailbox. Nothing waits in the buffer while next() waits, so that    *)
(* what is handed to it directly is in its turn; a slot in hand is older   *)
(* than every slot that waits, and what was taken is older still.          *)
Older(n, slots) == \A i \in DOMAIN slots : slots[i].kind = "value" => n < slots[i].n

Ordered(slots) ==
    \A i, j \in DOMAIN slots :
        i < j /\ slots[i].kind = "value" /\ slots[j].kind = "value" => slots[i].n < slots[j].n

Holds(slots, n) == \E i \in DOMAIN slots : slots[i].kind = "value" /\ slots[i].n = n

Handed == pull.hand.kind = "value"

MailInv ==
    /\ MailType
    /\ pull.pc = "woken" <=> pull.hand # NoSlot
    /\ pull.pc = "waiting" => buffer = <<>> /\ ~closed
    /\ \A i, j \in DOMAIN taken : i < j => taken[i] < taken[j]
    /\ \A i \in DOMAIN taken : /\ i <= taken[i] /\ taken[i] <= pushed /\ Older(taken[i], buffer)
                               /\ Handed => taken[i] < pull.hand.n
    /\ Handed => 0 < pull.hand.n /\ pull.hand.n <= pushed /\ Older(pull.hand.n, buffer)
    /\ Ordered(buffer)
    /\ \A i \in DOMAIN buffer : buffer[i].kind = "value" => 0 < buffer[i].n /\ buffer[i].n <= pushed
    /\ ~closed /\ pushed > 0 =>
          \/ \E i \in DOMAIN taken : taken[i] = pushed
          \/ Handed /\ pull.hand.n = pushed
          \/ Holds(buffer, pushed)

LEMMA MailInitially == MailInit => MailInv
<1> SUFFICES ASSUME MailInit
             PROVE  MailInv
  OBVIOUS
<1>1. MailType
  <2>1. 0 \in 0 .. MaxPushes /\ <<>> \in Seq(Slot) /\ <<>> \in Seq(1 .. MaxPushes)
    BY EmptySeq, MailboxAssumption
  <2> QED BY <2>1 DEF MailInit, MailType
<1> QED BY <1>1 DEF MailInit, MailInv, Older, Ordered, Holds, Handed, NoSlot

LEMMA MailWins == MailInv => LatestWins
<1> SUFFICES ASSUME MailInv
             PROVE  LatestWins
  OBVIOUS
<1> DEFINE hand == IF pull.hand = NoSlot THEN <<>> ELSE <<pull.hand>>
<1>1. hand \in Seq(Slot \cup {NoSlot}) /\ buffer \in Seq(Slot \cup {NoSlot})
  <2>1. pull.hand \in Slot \cup {NoSlot} /\ buffer \in Seq(Slot) /\ Slot \subseteq Slot \cup {NoSlot}
    BY DEF MailInv, MailType
  <2>2. buffer \in Seq(Slot \cup {NoSlot})
    BY <2>1, SeqMonotonic
  <2>3. \A x \in Slot \cup {NoSlot} : <<x>> \in Seq(Slot \cup {NoSlot})
    OBVIOUS
  <2> QED BY <2>1, <2>2, <2>3, EmptySeq
<1>2. Len(hand) = IF pull.hand = NoSlot THEN 0 ELSE 1
  OBVIOUS
<1>3. pull.hand # NoSlot => hand[1] = pull.hand
  OBVIOUS
<1>4. pull.hand = NoSlot => ~ Handed
  BY DEF Handed, NoSlot
<1>5. Ahead = hand \o buffer
  BY DEF Ahead
<1> HIDE DEF hand
<1>6. /\ DOMAIN Ahead = 1 .. Len(hand) + Len(buffer)
      /\ \A i \in 1 .. Len(hand) + Len(buffer) :
            Ahead[i] = IF i <= Len(hand) THEN hand[i] ELSE buffer[i - Len(hand)]
  BY <1>1, <1>5, ConcatProperties, LenProperties
<1>7. Len(buffer) \in Nat /\ DOMAIN buffer = 1 .. Len(buffer)
  BY LenProperties DEF MailInv, MailType
<1>8. \A j \in Values : \/ j = 1 /\ Handed /\ Ahead[j] = pull.hand
                        \/ /\ j - Len(hand) \in DOMAIN buffer /\ Ahead[j] = buffer[j - Len(hand)]
                           /\ buffer[j - Len(hand)].kind = "value"
  BY <1>2, <1>3, <1>6, <1>7 DEF Values, Handed
<1>9. \A j \in Values : j \in Int
  BY <1>6, <1>7, <1>2 DEF Values
<1>10. Handed => 1 \in Values /\ Ahead[1] = pull.hand
  BY <1>2, <1>3, <1>4, <1>6, <1>7 DEF Values, Handed
<1>11. \A i \in DOMAIN buffer : buffer[i].kind = "value" =>
           i + Len(hand) \in Values /\ Ahead[i + Len(hand)] = buffer[i]
  BY <1>2, <1>6, <1>7 DEF Values
<1>12. \A i \in DOMAIN taken, j \in Values : taken[i] < Ahead[j].n
  BY <1>8 DEF MailInv, Older
<1>13. \A i, j \in Values : i < j => Ahead[i].n < Ahead[j].n
  <2> SUFFICES ASSUME NEW i \in Values, NEW j \in Values, i < j
               PROVE  Ahead[i].n < Ahead[j].n
    OBVIOUS
  <2>1. CASE j - Len(hand) \in DOMAIN buffer /\ i - Len(hand) \in DOMAIN buffer
    <3>1. Ahead[i] = buffer[i - Len(hand)] /\ buffer[i - Len(hand)].kind = "value"
      BY <1>2, <1>4, <1>7, <1>8, <1>9, <2>1
    <3>2. Ahead[j] = buffer[j - Len(hand)] /\ buffer[j - Len(hand)].kind = "value"
      BY <1>2, <1>4, <1>7, <1>8, <1>9, <2>1
    <3>3. i - Len(hand) < j - Len(hand)
      BY <1>2, <1>9
    <3> QED BY <2>1, <3>1, <3>2, <3>3 DEF MailInv, Ordered
  <2>2. CASE i = 1 /\ Handed /\ Ahead[i] = pull.hand /\ j # 1
    BY <1>8, <2>2 DEF MailInv, Older
  <2> QED BY <1>8, <1>9, <1>7, <1>2, <1>4, <2>1, <2>2
<1> QED BY <1>10, <1>11, <1>12, <1>13 DEF LatestWins, MailInv, Holds

(* The buffer after a slot joined it: all of it or all but its oldest, and *)
(* then the slot.                                                          *)
LEMMA QueuedProperties ==
  ASSUME MailInv, NEW slot \in Slot
  PROVE  \E d \in {0, 1} :
            /\ queued(slot) \in Seq(Slot) /\ Len(buffer) \in Nat /\ d <= Len(buffer)
            /\ DOMAIN queued(slot) = 1 .. Len(buffer) - d + 1
            /\ \A i \in 1 .. Len(buffer) - d : queued(slot)[i] = buffer[i + d]
            /\ queued(slot)[Len(buffer) - d + 1] = slot
            /\ d = 1 => slot.kind = "value"
<1>1. buffer \in Seq(Slot) /\ Len(buffer) \in Nat /\ MaxSlots \in Nat \ {0}
  BY MailboxAssumption, LenProperties DEF MailInv, MailType
<1>2. CASE slot.kind = "value" /\ Len(buffer) >= MaxSlots
  <2>1. queued(slot) = Append(Tail(buffer), slot) /\ buffer # <<>>
    BY <1>1, <1>2, EmptySeq DEF queued
  <2>2. /\ Tail(buffer) \in Seq(Slot) /\ Len(Tail(buffer)) = Len(buffer) - 1
        /\ \A i \in 1 .. Len(Tail(buffer)) : Tail(buffer)[i] = buffer[i + 1]
    BY <1>1, <2>1, HeadTailProperties
  <2>3. /\ queued(slot) \in Seq(Slot) /\ Len(queued(slot)) = Len(buffer)
        /\ \A i \in 1 .. Len(buffer) - 1 : queued(slot)[i] = Tail(buffer)[i]
        /\ queued(slot)[Len(buffer)] = slot
    BY <1>1, <2>1, <2>2, AppendProperties
  <2>4. DOMAIN queued(slot) = 1 .. Len(buffer)
    BY <2>3, LenProperties
  <2> WITNESS 1 \in {0, 1}
  <2> QED BY <1>1, <1>2, <2>2, <2>3, <2>4
<1>3. CASE ~ (slot.kind = "value" /\ Len(buffer) >= MaxSlots)
  <2>1. queued(slot) = Append(buffer, slot)
    BY <1>3 DEF queued
  <2>2. /\ queued(slot) \in Seq(Slot) /\ Len(queued(slot)) = Len(buffer) + 1
        /\ \A i \in 1 .. Len(buffer) : queued(slot)[i] = buffer[i]
        /\ queued(slot)[Len(buffer) + 1] = slot
    BY <1>1, <2>1, AppendProperties
  <2>3. DOMAIN queued(slot) = 1 .. Len(buffer) + 1
    BY <2>2, LenProperties
  <2> WITNESS 0 \in {0, 1}
  <2> QED BY <1>1, <2>2, <2>3
<1> QED BY <1>2, <1>3

LEMMA SlotTypes ==
  ASSUME MailType
  PROVE  /\ \A i \in DOMAIN taken : taken[i] \in Nat
         /\ \A i \in DOMAIN buffer : buffer[i] \in Slot /\ buffer[i].n \in Nat
         /\ Handed => pull.hand.n \in Nat
         /\ pushed \in Nat /\ DOMAIN buffer = 1 .. Len(buffer) /\ Len(buffer) \in Nat
<1>1. MaxPushes \in Nat /\ 0 .. MaxPushes \subseteq Nat /\ 1 .. MaxPushes \subseteq Nat
  BY MailboxAssumption
<1>2. taken \in Seq(1 .. MaxPushes) /\ buffer \in Seq(Slot)
  BY DEF MailType
<1>3. \A i \in DOMAIN taken : taken[i] \in 1 .. MaxPushes
  BY <1>2, LenProperties, ElementOfSeq
<1>4. /\ DOMAIN buffer = 1 .. Len(buffer) /\ Len(buffer) \in Nat
      /\ \A i \in DOMAIN buffer : buffer[i] \in Slot
  BY <1>2, LenProperties, ElementOfSeq
<1>5. \A x \in Slot : x.n \in Nat
  BY <1>1 DEF Slot
<1>6. pull.hand \in Slot \cup {NoSlot}
  BY DEF MailType
<1>7. Handed => pull.hand.n \in Nat
  BY <1>5, <1>6 DEF Handed, NoSlot
<1> QED BY <1>1, <1>3, <1>4, <1>5, <1>7 DEF MailType

LEMMA DeliverKeeps ==
  ASSUME MailInv, MailType', NEW slot \in Slot, deliver(slot), UNCHANGED <<closed, taken>>,
         IF slot.kind = "value" THEN pushed' = pushed + 1 /\ slot.n = pushed' ELSE pushed' = pushed
  PROVE  MailInv'
<1>1. pushed \in Nat /\ pushed' \in Nat /\ pushed <= pushed'
  BY MailboxAssumption DEF MailInv, MailType
<1>2. slot # NoSlot
  BY DEF Slot, NoSlot
<1>3. \A i \in DOMAIN taken : taken[i] \in Nat
  BY SlotTypes DEF MailInv
<1>4. \A i \in DOMAIN buffer : buffer[i] \in Slot /\ buffer[i].n \in Nat
  BY SlotTypes DEF MailInv
<1>5. CASE closed
  <2>1. UNCHANGED <<buffer, pull>>
    BY <1>5 DEF deliver
  <2>2. Handed => pull.hand.n \in Nat
    BY SlotTypes DEF MailInv
  <2> QED BY <1>1, <1>3, <1>4, <1>5, <2>1, <2>2 DEF MailInv, Older, Ordered, Handed, Holds
<1>6. CASE ~ closed /\ pull.pc = "waiting"
  <2>1. pull' = [pc |-> "woken", hand |-> slot] /\ buffer' = <<>> /\ buffer = <<>>
    BY <1>6 DEF deliver, MailInv
  <2>2. pull.hand = NoSlot /\ ~ Handed
    BY <1>6 DEF MailInv, Handed, NoSlot
  <2>3. /\ pull'.pc = "woken" /\ pull'.hand = slot /\ Handed' <=> slot.kind = "value"
        /\ pull'.hand.n = slot.n
    BY <2>1 DEF Handed
  <2>4. DOMAIN buffer = {} /\ DOMAIN buffer' = {}
    BY <2>1
  <2> QED BY <1>1, <1>2, <1>3, <1>6, <2>1, <2>2, <2>3, <2>4 DEF MailInv, Older, Ordered, Handed, Holds
<1>7. CASE ~ closed /\ pull.pc # "waiting"
  <2>1. buffer' = queued(slot) /\ pull' = pull
    BY <1>7 DEF deliver
  <2>2. PICK d \in {0, 1} :
            /\ Len(buffer) \in Nat /\ d <= Len(buffer)
            /\ DOMAIN buffer' = 1 .. Len(buffer) - d + 1
            /\ \A i \in 1 .. Len(buffer) - d : buffer'[i] = buffer[i + d]
            /\ buffer'[Len(buffer) - d + 1] = slot
            /\ d = 1 => slot.kind = "value"
    BY <2>1, QueuedProperties
  <2>3. DOMAIN buffer = 1 .. Len(buffer)
    BY LenProperties DEF MailInv, MailType
  <2>4. \A i \in DOMAIN buffer' : \/ i = Len(buffer) - d + 1 /\ buffer'[i] = slot
                                  \/ i + d \in DOMAIN buffer /\ buffer'[i] = buffer[i + d]
    BY <2>2, <2>3
  <2>5. \A n \in Nat : n <= pushed /\ Older(n, buffer) => Older(n, buffer')
    BY <1>1, <2>2, <2>4 DEF Older
  <2>6. Ordered(buffer')
    <3> SUFFICES ASSUME NEW i \in DOMAIN buffer', NEW j \in DOMAIN buffer', i < j,
                        buffer'[i].kind = "value", buffer'[j].kind = "value"
                 PROVE  buffer'[i].n < buffer'[j].n
      BY DEF Ordered
    <3>1. i \in Int /\ j \in Int /\ i + d < j + d /\ i # Len(buffer) - d + 1
      BY <2>2
    <3>2. i + d \in DOMAIN buffer /\ buffer'[i] = buffer[i + d]
      BY <2>4, <3>1
    <3>3. CASE j = Len(buffer) - d + 1 /\ buffer'[j] = slot
      BY <1>1, <1>4, <3>2, <3>3 DEF MailInv
    <3>4. CASE j + d \in DOMAIN buffer /\ buffer'[j] = buffer[j + d]
      BY <3>1, <3>2, <3>4 DEF MailInv, Ordered
    <3> QED BY <2>4, <3>3, <3>4
  <2>7. \A i \in DOMAIN buffer' : buffer'[i].kind = "value" =>
                                   0 < buffer'[i].n /\ buffer'[i].n <= pushed'
    BY <1>1, <1>4, <2>4 DEF MailInv
  <2>8. pushed' > 0 => \/ \E i \in DOMAIN taken : taken[i] = pushed'
                       \/ Handed /\ pull.hand.n = pushed'
                       \/ Holds(buffer', pushed')
    <3>1. CASE slot.kind = "value"
      BY <2>2, <3>1 DEF Holds
    <3>2. CASE slot.kind # "value"
      <4>1. d = 0 /\ pushed' = pushed
        BY <2>2, <3>2
      <4>2. Holds(buffer, pushed) => Holds(buffer', pushed)
        BY <2>2, <2>3, <4>1 DEF Holds
      <4> QED BY <1>7, <4>1, <4>2 DEF MailInv
    <3> QED BY <3>1, <3>2
  <2>9. Handed => pull.hand.n \in Nat
    BY DEF Handed, MailInv, MailType, Slot, NoSlot
  <2>10. pull.pc # "waiting" /\ Handed' = Handed
    BY <1>7, <2>1 DEF Handed
  <2> QED BY <1>1, <1>3, <1>7, <2>1, <2>5, <2>6, <2>7, <2>8, <2>9, <2>10 DEF MailInv
<1> QED BY <1>5, <1>6, <1>7

(* The consumer turns to the oldest slot that waits, or waits for one.     *)
Turns == pull' = (IF buffer = <<>> THEN [pc |-> "waiting", hand |-> NoSlot]
                  ELSE [pc |-> "woken", hand |-> Head(buffer)])
         /\ buffer' = IF buffer = <<>> THEN buffer ELSE Tail(buffer)

LEMMA TurnsKeeps ==
  ASSUME MailInv, ~ Handed, ~ closed, Turns, UNCHANGED <<closed, pushed, terminal, taken>>,
         signal' \in [state : {"no", "queued", "ran"}, after : 0 .. MaxPushes, before : 0 .. MaxPushes]
  PROVE  MailInv'
<1>1. pushed \in Nat /\ DOMAIN buffer = 1 .. Len(buffer) /\ Len(buffer) \in Nat
  BY SlotTypes DEF MailInv
<1>2. buffer \in Seq(Slot) /\ NoSlot \notin Slot
  BY DEF MailInv, MailType, Slot, NoSlot
<1>3. CASE buffer = <<>>
  <2>1. pull' = [pc |-> "waiting", hand |-> NoSlot] /\ buffer' = buffer /\ ~ Handed'
    BY <1>3 DEF Turns, Handed, NoSlot
  <2>2. pull'.pc = "waiting" /\ pull'.hand = NoSlot
    BY <2>1
  <2> QED BY <1>3, <2>1, <2>2 DEF MailInv, MailType, Older, Ordered, Holds
<1>4. CASE buffer # <<>>
  <2> DEFINE slot == Head(buffer)
  <2>1. /\ slot \in Slot /\ slot = buffer[1] /\ Len(buffer) >= 1
        /\ Tail(buffer) \in Seq(Slot) /\ Len(Tail(buffer)) = Len(buffer) - 1
        /\ \A i \in 1 .. Len(buffer) - 1 : Tail(buffer)[i] = buffer[i + 1]
    BY <1>1, <1>2, <1>4, HeadTailProperties, EmptySeq
  <2>2. /\ pull' = [pc |-> "woken", hand |-> slot] /\ buffer' = Tail(buffer)
        /\ DOMAIN buffer' = 1 .. Len(buffer) - 1
    BY <1>4, <2>1, LenProperties DEF Turns
  <2>3. /\ pull'.pc = "woken" /\ pull'.hand = slot
        /\ Handed' <=> slot.kind = "value"
    BY <2>2 DEF Handed
  <2> HIDE DEF slot
  <2>4. \A i \in DOMAIN buffer' : i + 1 \in DOMAIN buffer /\ buffer'[i] = buffer[i + 1]
    BY <1>1, <2>1, <2>2
  <2>5. \A n : Older(n, buffer) => Older(n, buffer') /\ (slot.kind = "value" => n < slot.n)
    BY <1>1, <2>1, <2>4 DEF Older
  <2>6. Ordered(buffer')
    <3> SUFFICES ASSUME NEW i \in DOMAIN buffer', NEW j \in DOMAIN buffer', i < j,
                        buffer'[i].kind = "value", buffer'[j].kind = "value"
                 PROVE  buffer'[i].n < buffer'[j].n
      BY DEF Ordered
    <3>1. i + 1 < j + 1
      BY <2>2
    <3> QED BY <2>4, <3>1 DEF MailInv, Ordered
  <2>7. slot.kind = "value" => Older(slot.n, buffer')
    <3> SUFFICES ASSUME slot.kind = "value", NEW i \in DOMAIN buffer', buffer'[i].kind = "value"
                 PROVE  slot.n < buffer'[i].n
      BY DEF Older
    <3>1. 1 \in DOMAIN buffer /\ 1 < i + 1
      BY <1>1, <2>1, <2>2
    <3> QED BY <2>1, <2>4, <3>1 DEF MailInv, Ordered
  <2>8. \A i \in DOMAIN buffer' : buffer'[i].kind = "value" => 0 < buffer'[i].n /\ buffer'[i].n <= pushed
    BY <2>4 DEF MailInv
  <2>9. slot.kind = "value" => 0 < slot.n /\ slot.n <= pushed
    BY <1>1, <2>1 DEF MailInv
  <2>10. Holds(buffer, pushed) => Holds(buffer', pushed) \/ (slot.kind = "value" /\ slot.n = pushed)
    <3> SUFFICES ASSUME NEW i \in DOMAIN buffer, buffer[i].kind = "value", buffer[i].n = pushed, i # 1
                 PROVE  Holds(buffer', pushed)
      BY <2>1 DEF Holds
    <3>1. i - 1 \in DOMAIN buffer' /\ buffer'[i - 1] = buffer[i]
      BY <1>1, <2>1, <2>2
    <3> QED BY <3>1 DEF Holds
  <2>11. MailType'
    BY <2>1, <2>2 DEF MailInv, MailType
  <2>12. slot # NoSlot
    BY <1>2, <2>1
  <2>13. \A i \in DOMAIN taken : /\ i <= taken[i] /\ taken[i] <= pushed /\ Older(taken[i], buffer')
                                 /\ slot.kind = "value" => taken[i] < slot.n
    BY <2>5 DEF MailInv
  <2>14. pushed > 0 => \/ \E i \in DOMAIN taken : taken[i] = pushed
                       \/ slot.kind = "value" /\ slot.n = pushed
                       \/ Holds(buffer', pushed)
    BY <2>10 DEF MailInv
  <2> QED BY <2>3, <2>6, <2>7, <2>8, <2>9, <2>11, <2>12, <2>13, <2>14 DEF MailInv
<1> QED BY <1>3, <1>4

LEMMA TakenIsFew == MailInv => Len(taken) \in 0 .. MaxPushes
<1> SUFFICES ASSUME MailInv
             PROVE  Len(taken) \in 0 .. MaxPushes
  OBVIOUS
<1>1. taken \in Seq(1 .. MaxPushes) /\ MaxPushes \in Nat /\ pushed \in 0 .. MaxPushes
  BY MailboxAssumption DEF MailInv, MailType
<1>2. Len(taken) \in Nat /\ DOMAIN taken = 1 .. Len(taken)
  BY <1>1, LenProperties
<1>3. Len(taken) > 0 => Len(taken) <= taken[Len(taken)] /\ taken[Len(taken)] \in 1 .. MaxPushes
  BY <1>1, <1>2, ElementOfSeq DEF MailInv
<1> QED BY <1>1, <1>2, <1>3

LEMMA MailStep == MailInv /\ [MailNext]_mvars => MailInv'
<1> SUFFICES ASSUME MailInv, [MailNext]_mvars
             PROVE  MailInv'
  OBVIOUS
<1> DEFINE Signal == [state : {"no", "queued", "ran"}, after : 0 .. MaxPushes, before : 0 .. MaxPushes]
<1>1. MailType /\ MaxPushes \in Nat /\ pushed \in Nat
  BY MailboxAssumption DEF MailInv, MailType
<1>2. ASSUME NEW slot \in Slot, deliver(slot), pushed' \in 0 .. MaxPushes, signal' \in Signal,
             terminal' \in BOOLEAN, UNCHANGED <<closed, taken>>
      PROVE  MailType'
  <2>1. buffer' \in Seq(Slot) /\ pull' \in [pc : {"none", "waiting", "woken"}, hand : Slot \cup {NoSlot}]
    BY <1>1, <1>2, QueuedProperties DEF deliver, MailType
  <2> QED BY <1>1, <1>2, <2>1 DEF MailType
<1>3. CASE Push
  <2> DEFINE slot == [kind |-> "value", n |-> pushed']
  <2>1. slot \in Slot /\ slot.kind = "value" /\ slot.n = pushed' /\ pushed' \in 0 .. MaxPushes
    BY <1>1, <1>3 DEF Push, Slot
  <2>2. deliver(slot) /\ pushed' = pushed + 1 /\ UNCHANGED <<closed, signal, terminal, taken>>
    BY <1>3 DEF Push
  <2> HIDE DEF slot
  <2>3. MailType'
    BY <1>1, <1>2, <2>1, <2>2 DEF MailType
  <2> QED BY <2>1, <2>2, <2>3, DeliverKeeps
<1>4. CASE Control \/ Terminate
  <2>1. PICK slot \in {[kind |-> "control", n |-> 0], [kind |-> "terminal", n |-> 0]} : deliver(slot)
    BY <1>4 DEF Control, Terminate
  <2>2. slot \in Slot /\ slot.kind # "value"
    BY <1>1, <2>1 DEF Slot
  <2>3. UNCHANGED <<closed, pushed, taken>> /\ signal' \in Signal /\ terminal' \in BOOLEAN
    BY <1>1, <1>4 DEF Control, Terminate, MailType
  <2>4. MailType'
    BY <1>1, <1>2, <2>1, <2>2, <2>3 DEF MailType
  <2> QED BY <2>1, <2>2, <2>3, <2>4, DeliverKeeps
<1>5. CASE NextCall
  <2>1. ~ Handed
    BY <1>5 DEF NextCall, MailInv, Handed, NoSlot
  <2>2. Turns /\ ~ closed /\ UNCHANGED <<closed, pushed, terminal, taken, signal>>
    BY <1>5 DEF NextCall, Turns
  <2> QED BY <1>1, <2>1, <2>2, TurnsKeeps DEF MailType
<1>6. CASE Woken
  <2>1. CASE pull.hand.kind = "value"
    <3> DEFINE n == pull.hand.n
    <3>1. /\ taken' = Append(taken, n) /\ pull' = [pc |-> "none", hand |-> NoSlot]
          /\ UNCHANGED <<buffer, closed, signal, pushed, terminal>>
      BY <1>6, <2>1 DEF Woken
    <3>2. n \in 1 .. MaxPushes
      BY <1>1, <2>1, SlotTypes DEF MailInv, MailType, Handed
    <3>3. taken \in Seq(1 .. MaxPushes)
      BY <1>1 DEF MailType
    <3>4. Len(taken) \in Nat /\ DOMAIN taken = 1 .. Len(taken)
      BY <3>3, LenProperties
    <3>5. /\ taken' \in Seq(1 .. MaxPushes) /\ Len(taken') = Len(taken) + 1
          /\ \A i \in 1 .. Len(taken) : taken'[i] = taken[i]
          /\ taken'[Len(taken) + 1] = n
      BY <3>1, <3>2, <3>3, AppendProperties
    <3>6. DOMAIN taken' = 1 .. Len(taken) + 1
      BY <3>5, LenProperties
    <3>7. ~ Handed' /\ pull'.pc = "none" /\ pull'.hand = NoSlot
      BY <3>1 DEF Handed, NoSlot
    <3>8. \A i \in DOMAIN taken : taken[i] < n
      BY <2>1 DEF MailInv, Handed
    <3>9. n <= pushed /\ Older(n, buffer) /\ 0 < n
      BY <2>1 DEF MailInv, Handed
    <3>10. Len(taken) + 1 <= n
      <4>1. Len(taken) > 0 => Len(taken) <= taken[Len(taken)] /\ taken[Len(taken)] < n
        BY <3>4, <3>8 DEF MailInv
      <4>2. Len(taken) > 0 => taken[Len(taken)] \in Nat
        BY <1>1, <3>4, SlotTypes
      <4> QED BY <3>2, <3>4, <3>9, <4>1, <4>2
    <3> HIDE DEF n
    <3>11. \A i \in DOMAIN taken' : \/ i \in DOMAIN taken /\ taken'[i] = taken[i]
                                    \/ i = Len(taken) + 1 /\ taken'[i] = n
      BY <3>4, <3>5, <3>6
    <3>12. \A i, j \in DOMAIN taken' : i < j => taken'[i] < taken'[j]
      <4> SUFFICES ASSUME NEW i \in DOMAIN taken', NEW j \in DOMAIN taken', i < j
                   PROVE  taken'[i] < taken'[j]
        OBVIOUS
      <4>1. i \in DOMAIN taken /\ taken'[i] = taken[i]
        BY <3>4, <3>5, <3>6
      <4> QED BY <3>8, <3>11, <4>1 DEF MailInv
    <3>13. \A i \in DOMAIN taken' : i <= taken'[i] /\ taken'[i] <= pushed /\ Older(taken'[i], buffer)
      BY <3>9, <3>10, <3>11 DEF MailInv
    <3>14. ~ closed /\ pushed > 0 => (\E i \in DOMAIN taken' : taken'[i] = pushed) \/ Holds(buffer, pushed)
      <4>1. \A i \in DOMAIN taken : i \in DOMAIN taken' /\ taken'[i] = taken[i]
        BY <3>4, <3>5, <3>6
      <4>2. Len(taken) + 1 \in DOMAIN taken' /\ taken'[Len(taken) + 1] = n
        BY <3>4, <3>5, <3>6
      <4> QED BY <4>1, <4>2 DEF MailInv, n
    <3>15. MailType'
      BY <1>1, <3>1, <3>5 DEF MailType
    <3> QED BY <3>1, <3>7, <3>12, <3>13, <3>14, <3>15 DEF MailInv
  <2>2. CASE pull.hand.kind = "control"
    <3>1. signal' \in Signal
      BY <1>1, <1>6, <2>2, TakenIsFew DEF Woken, MailType
    <3>2. ~ Handed /\ UNCHANGED <<closed, pushed, terminal, taken>>
      BY <1>6, <2>2 DEF Woken, Handed
    <3>3. CASE closed
      <4>1. pull' = [pc |-> "none", hand |-> NoSlot] /\ UNCHANGED buffer
        BY <1>6, <2>2, <3>3 DEF Woken
      <4>2. pull'.pc = "none" /\ pull'.hand = NoSlot /\ ~ Handed'
        BY <4>1 DEF Handed, NoSlot
      <4>3. MailType'
        BY <1>1, <3>1, <3>2, <4>1 DEF MailType
      <4> QED BY <3>2, <3>3, <4>1, <4>2, <4>3 DEF MailInv, Older, Ordered, Holds
    <3>4. CASE ~ closed
      <4>1. Turns
        BY <1>6, <2>2, <3>4 DEF Woken, Turns
      <4> QED BY <3>1, <3>2, <3>4, <4>1, TurnsKeeps
    <3> QED BY <3>3, <3>4
  <2>3. CASE pull.hand.kind \notin {"value", "control"}
    <3>1. /\ closed' = TRUE /\ pull' = [pc |-> "none", hand |-> NoSlot]
          /\ UNCHANGED <<buffer, signal, taken, pushed, terminal>>
      BY <1>6, <2>3 DEF Woken
    <3>2. pull'.pc = "none" /\ pull'.hand = NoSlot /\ ~ Handed'
      BY <3>1 DEF Handed, NoSlot
    <3>3. MailType'
      BY <1>1, <3>1 DEF MailType
    <3> QED BY <3>1, <3>2, <3>3 DEF MailInv, Older, Ordered, Holds
  <2> QED BY <2>1, <2>2, <2>3
<1>7. CASE ReturnCall
  <2> DEFINE end == [kind |-> "terminal", n |-> 0]
  <2>1. /\ closed' = TRUE /\ UNCHANGED <<buffer, pushed, signal, terminal, taken>>
        /\ pull' = IF pull.pc = "waiting" THEN [pc |-> "woken", hand |-> end] ELSE pull
    BY <1>7 DEF ReturnCall
  <2>2. end \in Slot /\ end # NoSlot /\ end.kind # "value"
    BY <1>1 DEF Slot, NoSlot
  <2> HIDE DEF end
  <2>3. MailType'
    BY <1>1, <2>1, <2>2 DEF MailType
  <2>4. /\ pull'.pc = "woken" <=> pull'.hand # NoSlot
        /\ pull'.pc # "waiting"
        /\ Handed' => Handed /\ pull' = pull
    BY <2>1, <2>2 DEF MailInv, Handed
  <2> QED BY <2>1, <2>3, <2>4 DEF MailInv, Older, Ordered, Holds
<1>8. CASE UNCHANGED mvars
  BY <1>8 DEF mvars, MailInv, MailType, Older, Ordered, Holds, Handed
<1> QED BY <1>3, <1>4, <1>5, <1>6, <1>7, <1>8 DEF MailNext

-----------------------------------------------------------------------------
(* The frames. What lies between the handler and the consumer, read or     *)
(* not, is a text of whole frames wherever it was cut: `Stream` is that    *)
(* text and `toks` the first token of each of its frames.                  *)
Left == Len(client.buffer) - client.start

TextLen == Left + Len(pipe)

Stream ==
    [i \in Nat |-> IF i <= Left THEN client.buffer[client.start + i] ELSE pipe[i - Left]]

Wide(n) == IF format = "sse" THEN 3 * n ELSE 2 * n

Framed(toks) ==
    /\ TextLen = Wide(Len(toks))
    /\ \A k \in DOMAIN toks : /\ Stream[Wide(k - 1) + 1] = toks[k]
                              /\ Stream[Wide(k - 1) + 2] = Newline
                              /\ format = "sse" => Stream[Wide(k - 1) + 3] = Newline

(* The frames that are under way are the values the consumer lacks, in     *)
(* order, between comments, and the sentinel of a handler that threw last. *)
Fitting(toks) ==
    /\ toks \in Seq(1 .. Comment)
    /\ \A k \in DOMAIN toks : toks[k] <= MaxFrames => Len(got) < toks[k] /\ toks[k] <= sent
    /\ \A j, k \in DOMAIN toks : j < k /\ toks[k] <= MaxFrames => toks[j] < toks[k] \/ toks[j] = Comment
    /\ \A v \in Nat : Len(got) < v /\ v <= sent => \E k \in DOMAIN toks : toks[k] = v
    /\ \A k \in DOMAIN toks : toks[k] = ErrorText => k = Len(toks) /\ handler = "threw"
    /\ handler = "threw" /\ client.pc # "threw" => Len(toks) > 0 /\ toks[Len(toks)] = ErrorText

TextSound ==
    /\ FramesType
    /\ format \in {"sse", "jsonl"}
    /\ client.start <= Len(client.buffer)

FramesInv ==
    /\ TextSound
    /\ Len(got) <= sent
    /\ \A i \in DOMAIN got : got[i] = i
    /\ client.pc = "done" /\ client.stop = "no" => handler = "ended" /\ Len(got) = sent
    /\ client.pc = "threw" => handler = "threw" /\ Len(got) = sent
    /\ \E toks : Framed(toks) /\ Fitting(toks)

LEMMA Tokens ==
    /\ MaxFrames \in Nat /\ MaxBeats \in Nat
    /\ Newline = 0 /\ ErrorText = MaxFrames + 1 /\ Comment = MaxFrames + 2
    /\ Newline \in 0 .. Comment /\ ErrorText \in 1 .. Comment /\ Comment \in 1 .. Comment
    /\ 1 .. Comment \subseteq 0 .. Comment
    /\ 0 .. Comment \subseteq Nat
BY FramesAssumption DEF Newline, ErrorText, Comment

LEMMA Delimits ==
    ASSUME format \in {"sse", "jsonl"}
    PROVE  /\ Delimiter \in Seq(0 .. Comment) /\ Delimiter \in Seq(Nat)
           /\ Len(Delimiter) = IF format = "sse" THEN 2 ELSE 1
           /\ \A i \in 1 .. Len(Delimiter) : Delimiter[i] = Newline
<1>1. Newline \in 0 .. Comment /\ 0 .. Comment \subseteq Nat
  BY Tokens
<1>2. CASE format = "sse"
  <2>1. Delimiter = <<Newline, Newline>>
    BY <1>2 DEF Delimiter
  <2>2. Delimiter \in Seq(0 .. Comment)
    BY <1>1, <2>1
  <2>3. Delimiter \in Seq(Nat)
    BY <1>1, <2>2, SeqMonotonic
  <2> QED BY <1>2, <2>1, <2>2, <2>3
<1>3. CASE format = "jsonl"
  <2>1. Delimiter = <<Newline>>
    BY <1>3 DEF Delimiter
  <2>2. Delimiter \in Seq(0 .. Comment)
    BY <1>1, <2>1
  <2>3. Delimiter \in Seq(Nat)
    BY <1>1, <2>2, SeqMonotonic
  <2> QED BY <1>3, <2>1, <2>2, <2>3
<1> QED BY <1>2, <1>3

LEMMA TextTypes ==
    ASSUME TextSound
    PROVE  /\ client.buffer \in Seq(Nat) /\ pipe \in Seq(0 .. Comment) /\ pipe \in Seq(Nat)
           /\ client.start \in Nat /\ Len(client.buffer) \in Nat /\ Len(pipe) \in Nat
           /\ Left \in Nat /\ TextLen \in Nat
           /\ client \in Client
<1>1. /\ client \in Client /\ pipe \in Seq(0 .. Comment)
      /\ client.start <= Len(client.buffer)
  BY DEF TextSound, FramesType
<1>2. client.buffer \in Seq(Nat) /\ client.start \in Nat
  BY <1>1 DEF Client
<1>3. pipe \in Seq(Nat)
  BY <1>1, Tokens, SeqMonotonic
<1>4. Len(client.buffer) \in Nat /\ Len(pipe) \in Nat
  BY <1>2, <1>3, LenProperties
<1> QED BY <1>1, <1>2, <1>3, <1>4 DEF Left, TextLen

(* Where the text is what it was, its frames are.                          *)
LEMMA SameText ==
    ASSUME TextSound, NEW toks \in Seq(1 .. Comment), Framed(toks), format' = format,
           TextLen' = TextLen,
           \A i \in 1 .. TextLen : Stream'[i] = Stream[i]
    PROVE  Framed(toks)'
<1>1. DOMAIN toks = 1 .. Len(toks) /\ Len(toks) \in Nat
  BY LenProperties
<1>2. CASE format = "sse"
  BY <1>1, <1>2 DEF Framed, Wide
<1>3. CASE format # "sse"
  BY <1>1, <1>3 DEF Framed, Wide
<1> QED BY <1>2, <1>3

(* A frame that is enqueued is the last of the text.                       *)
LEMMA Enqueued ==
    ASSUME TextSound, NEW toks \in Seq(1 .. Comment), Framed(toks), NEW t \in 1 .. Comment,
           format' = format, client' = client, pipe' = pipe \o <<t>> \o Delimiter
    PROVE  Framed(Append(toks, t))' /\ pipe' \in Seq(0 .. Comment)
<1> DEFINE more == Append(toks, t)
           headed == pipe \o <<t>>
<1>1. /\ DOMAIN toks = 1 .. Len(toks) /\ Len(toks) \in Nat
      /\ pipe \in Seq(0 .. Comment) /\ Len(pipe) \in Nat /\ Left \in Nat
  BY LenProperties, TextTypes
<1>2. <<t>> \in Seq(0 .. Comment) /\ Len(<<t>>) = 1 /\ <<t>>[1] = t
  BY Tokens
<1>3. /\ headed \in Seq(0 .. Comment) /\ Len(headed) = Len(pipe) + 1
      /\ headed[Len(pipe) + 1] = t
      /\ \A i \in 1 .. Len(pipe) : headed[i] = pipe[i]
  BY <1>1, <1>2, ConcatProperties
<1>4. /\ Delimiter \in Seq(0 .. Comment)
      /\ Len(Delimiter) = IF format = "sse" THEN 2 ELSE 1
      /\ \A i \in 1 .. Len(Delimiter) : Delimiter[i] = Newline
  BY Delimits DEF TextSound
<1> HIDE DEF headed
<1>5. pipe' = headed \o Delimiter
  BY DEF headed
<1>6. /\ pipe' \in Seq(0 .. Comment) /\ Len(pipe') = Len(headed) + Len(Delimiter)
      /\ \A i \in 1 .. Len(headed) + Len(Delimiter) :
             pipe'[i] = IF i <= Len(headed) THEN headed[i] ELSE Delimiter[i - Len(headed)]
  <2>1. headed \in Seq(0 .. Comment) /\ Delimiter \in Seq(0 .. Comment)
    BY <1>3, <1>4
  <2>2. /\ headed \o Delimiter \in Seq(0 .. Comment)
        /\ Len(headed \o Delimiter) = Len(headed) + Len(Delimiter)
        /\ \A i \in 1 .. Len(headed) + Len(Delimiter) :
               (headed \o Delimiter)[i] = IF i <= Len(headed) THEN headed[i] ELSE Delimiter[i - Len(headed)]
    BY <2>1, ConcatProperties
  <2> QED BY <1>5, <2>2
<1> DEFINE p == Len(pipe)
<1>7. /\ \A i \in 1 .. p : pipe'[i] = pipe[i]
      /\ pipe'[p + 1] = t /\ pipe'[p + 2] = Newline
      /\ format = "sse" => pipe'[p + 3] = Newline /\ Len(pipe') = p + 3
      /\ format # "sse" => Len(pipe') = p + 2
  <2>1. p \in Nat /\ Len(headed) = p + 1
    BY <1>1, <1>3
  <2>2. \A i \in 1 .. p + 1 : pipe'[i] = headed[i]
    BY <1>4, <1>6, <2>1
  <2>3. \A i \in 1 .. Len(Delimiter) : pipe'[p + 1 + i] = Newline
    <3> SUFFICES ASSUME NEW i \in 1 .. Len(Delimiter)
                 PROVE  pipe'[p + 1 + i] = Newline
      OBVIOUS
    <3>1. /\ p + 1 + i \in 1 .. Len(headed) + Len(Delimiter) /\ ~ (p + 1 + i <= Len(headed))
          /\ p + 1 + i - Len(headed) = i
      BY <1>4, <2>1
    <3>2. pipe'[p + 1 + i] = Delimiter[p + 1 + i - Len(headed)]
      BY <1>6, <3>1
    <3> QED BY <1>4, <3>1, <3>2
  <2>4. 1 \in 1 .. Len(Delimiter) /\ (format = "sse" => 2 \in 1 .. Len(Delimiter))
    BY <1>4
  <2>5. \A i \in 1 .. p : pipe'[i] = pipe[i]
    BY <1>3, <2>1, <2>2
  <2>6. pipe'[p + 1] = t
    BY <1>3, <2>1, <2>2
  <2>7. pipe'[p + 1 + 1] = Newline /\ p + 1 + 1 = p + 2 /\ p + 1 + 2 = p + 3
    BY <2>1, <2>3, <2>4
  <2>8. format = "sse" => pipe'[p + 1 + 2] = Newline
    BY <2>3, <2>4
  <2>9. /\ format = "sse" => Len(pipe') = p + 3
        /\ format # "sse" => Len(pipe') = p + 2
    BY <1>4, <1>6, <2>1
  <2> QED BY <2>5, <2>6, <2>7, <2>8, <2>9
<1>0. PICK n \in Nat : n = TextLen
  BY TextTypes
<1>8. Left' = Left /\ n = Left + p /\ Left \in Nat /\ n \in Nat /\ p \in Nat
  BY <1>0, <1>1 DEF Left, TextLen
<1>9. /\ \A i \in 1 .. n : Stream'[i] = Stream[i]
      /\ Stream'[n + 1] = t /\ Stream'[n + 2] = Newline
      /\ format = "sse" => Stream'[n + 3] = Newline /\ TextLen' = n + 3
      /\ format # "sse" => TextLen' = n + 2
  <2>1. \A i \in 1 .. n : Stream'[i] = Stream[i]
    <3> SUFFICES ASSUME NEW i \in 1 .. n
                 PROVE  Stream'[i] = Stream[i]
      OBVIOUS
    <3>0. i \in Nat
      BY <1>8
    <3>1. CASE i <= Left
      BY <1>8, <3>0, <3>1 DEF Stream
    <3>2. CASE ~ (i <= Left)
      <4>1. i - Left \in 1 .. p
        BY <1>1, <1>8, <3>2
      <4> QED BY <1>7, <1>8, <3>0, <3>2, <4>1 DEF Stream
    <3> QED BY <3>1, <3>2
  <2>3. TextLen' = Left + Len(pipe')
    BY <1>8 DEF TextLen
  <2>4. /\ Stream'[n + 1] = pipe'[p + 1] /\ Stream'[n + 2] = pipe'[p + 2] 
        /\ format = "sse" => Stream'[n + 3] = pipe'[p + 3]
    <3>1. ASSUME NEW m \in Nat, m > n
          PROVE  Stream'[m] = pipe'[m - Left]
      <4>1. ~ (m <= Left)
        BY <1>8, <3>1
      <4> QED BY <1>8, <4>1 DEF Stream
    <3>2. Stream'[n + 1] = pipe'[p + 1]
      <4>1. n + 1 \in Nat /\ n + 1 > n /\ (n + 1) - Left = p + 1
        BY <1>8
      <4>2. Stream'[n + 1] = pipe'[(n + 1) - Left]
        BY <3>1, <4>1
      <4> QED BY <4>1, <4>2
    <3>3. Stream'[n + 2] = pipe'[p + 2]
      <4>1. n + 2 \in Nat /\ n + 2 > n /\ (n + 2) - Left = p + 2
        BY <1>8
      <4>2. Stream'[n + 2] = pipe'[(n + 2) - Left]
        BY <3>1, <4>1
      <4> QED BY <4>1, <4>2
    <3>4. Stream'[n + 3] = pipe'[p + 3]
      <4>1. n + 3 \in Nat /\ n + 3 > n /\ (n + 3) - Left = p + 3
        BY <1>8
      <4>2. Stream'[n + 3] = pipe'[(n + 3) - Left]
        BY <3>1, <4>1
      <4> QED BY <4>1, <4>2
    <3> QED BY <3>2, <3>3, <3>4
  <2>5. /\ format = "sse" => TextLen' = n + 3
        /\ format # "sse" => TextLen' = n + 2
    BY <1>1, <1>7, <1>8, <2>3
  <2> QED BY <1>7, <2>1, <2>4, <2>5
<1>10. /\ more \in Seq(1 .. Comment) /\ Len(more) = Len(toks) + 1
       /\ more[Len(toks) + 1] = t
       /\ \A k \in 1 .. Len(toks) : more[k] = toks[k]
  BY AppendProperties
<1>11. DOMAIN more = 1 .. Len(toks) + 1
  BY <1>10, LenProperties
<1> HIDE DEF more
<1>12. n = Wide(Len(toks))
  BY <1>0 DEF Framed
<1>13. TextLen' = Wide(Len(toks) + 1)' /\ Wide(Len(toks))' = n
  BY <1>1, <1>9, <1>12 DEF Wide
<1> HIDE DEF p
<1>14. ASSUME NEW k \in 1 .. Len(toks) + 1
       PROVE  /\ Stream'[Wide(k - 1)' + 1] = more[k]
              /\ Stream'[Wide(k - 1)' + 2] = Newline
              /\ format' = "sse" => Stream'[Wide(k - 1)' + 3] = Newline
  <2>1. CASE k \in 1 .. Len(toks)
    <3>1. /\ Wide(k - 1)' = Wide(k - 1)
          /\ Wide(k - 1) + 1 \in 1 .. n /\ Wide(k - 1) + 2 \in 1 .. n
          /\ format = "sse" => Wide(k - 1) + 3 \in 1 .. n
      BY <1>1, <1>12, <2>1 DEF Wide
    <3>2. /\ Stream[Wide(k - 1) + 1] = toks[k] /\ Stream[Wide(k - 1) + 2] = Newline
          /\ format = "sse" => Stream[Wide(k - 1) + 3] = Newline
      BY <1>1, <2>1 DEF Framed
    <3>3. \A j \in 1 .. n : Stream'[j] = Stream[j]
      BY <1>9
    <3> QED BY <1>10, <2>1, <3>1, <3>2, <3>3
  <2>2. CASE k = Len(toks) + 1
    <3>1. Wide(k - 1)' = n
      BY <1>1, <1>13, <2>2
    <3> QED BY <1>9, <1>10, <2>2, <3>1
  <2> QED BY <1>1, <2>1, <2>2
<1>16. Framed(more)'
  <2>1. TextLen' = Wide(Len(more))'
    BY <1>10, <1>13
  <2> QED BY <1>11, <1>14, <2>1 DEF Framed
<1> QED BY <1>6, <1>16 DEF more

(* A read moves text from the pipe into the buffer, whose consumed part    *)
(* may go: what lies before the consumer is the same.                      *)
LEMMA Chunked ==
    ASSUME TextSound, NEW n \in 1 .. Len(pipe), Compacts(SubSeq(pipe, 1, n)),
           pipe' = SubSeq(pipe, n + 1, Len(pipe))
    PROVE  /\ client' \in Client /\ pipe' \in Seq(0 .. Comment)
           /\ client'.start <= Len(client'.buffer)
           /\ client'.pc = client.pc /\ client'.stop = client.stop
           /\ TextLen' = TextLen
           /\ \A i \in 1 .. TextLen : Stream'[i] = Stream[i]
<1> DEFINE b == client.buffer
           s == client.start
           chunk == SubSeq(pipe, 1, n)
<1>1. /\ b \in Seq(Nat) /\ pipe \in Seq(0 .. Comment) /\ pipe \in Seq(Nat)
      /\ s \in Nat /\ Len(b) \in Nat /\ Len(pipe) \in Nat /\ s <= Len(b)
      /\ Left \in Nat /\ TextLen \in Nat /\ client \in Client
  BY TextTypes DEF TextSound
<1>2. /\ Left = Len(b) - s /\ TextLen = Left + Len(pipe)
      /\ Unread = SubSeq(b, s + 1, Len(b))
      /\ client.buffer = b /\ client.start = s
  BY DEF Left, TextLen, Unread
<1> HIDE DEF b, s
<1> DEFINE text == TextLen
           more == Len(pipe) - n
           size == Len(b)
<1>0. /\ Left \in Nat /\ text \in Nat /\ more \in Nat /\ n \in Nat /\ 0 < n
      /\ text = Left + n + more /\ Len(pipe) = n + more
      /\ size \in Nat /\ s \in Nat /\ Left = size - s
  BY <1>1, <1>2
<1> HIDE DEF more, text, size
<1>3. /\ \A i \in 1 .. n : pipe[i] \in Nat
      /\ \A i \in n + 1 .. Len(pipe) : pipe[i] \in 0 .. Comment
      /\ \A i \in s + 1 .. Len(b) : b[i] \in Nat
  <2>1. \A i \in 1 .. Len(pipe) : pipe[i] \in 0 .. Comment /\ pipe[i] \in Nat
    BY <1>1, ElementOfSeq
  <2>2. \A i \in 1 .. Len(b) : b[i] \in Nat
    BY <1>1, ElementOfSeq
  <2> QED BY <1>1, <2>1, <2>2
<1>4. /\ chunk \in Seq(Nat) /\ Len(chunk) = n
      /\ \A i \in 1 .. n : chunk[i] = pipe[i]
  <2>1. 1 \in Int /\ n \in Int /\ 1 <= n /\ n - 1 + 1 = n
    OBVIOUS
  <2>2. /\ chunk \in Seq(Nat)
        /\ Len(chunk) = IF 1 <= n THEN n - 1 + 1 ELSE 0
        /\ \A i \in 1 .. n - 1 + 1 : chunk[i] = pipe[1 + i - 1]
    BY <1>3, <2>1, SubSeqProperties
  <2> QED BY <2>1, <2>2
<1>5. /\ pipe' \in Seq(0 .. Comment) /\ Len(pipe') = Len(pipe) - n
      /\ \A i \in 1 .. Len(pipe) - n : pipe'[i] = pipe[n + i]
  <2> DEFINE rest == SubSeq(pipe, n + 1, Len(pipe))
  <2>1. n + 1 \in Int /\ Len(pipe) \in Int /\ Len(pipe) - (n + 1) + 1 = Len(pipe) - n
    BY <1>1
  <2>2. /\ rest \in Seq(0 .. Comment)
        /\ Len(rest) = IF n + 1 <= Len(pipe) THEN Len(pipe) - (n + 1) + 1 ELSE 0
        /\ \A i \in 1 .. Len(pipe) - (n + 1) + 1 : rest[i] = pipe[n + 1 + i - 1]
    BY <1>3, <2>1, SubSeqProperties
  <2> HIDE DEF rest
  <2>3. Len(rest) = Len(pipe) - n
    <3>1. n + 1 <= Len(pipe) \/ more = 0
      BY <1>0
    <3>2. more = Len(pipe) - n
      BY DEF more
    <3>3. CASE n + 1 <= Len(pipe)
      BY <2>1, <2>2, <3>3
    <3>4. CASE ~ (n + 1 <= Len(pipe))
      BY <2>2, <3>1, <3>2, <3>4
    <3> QED BY <3>3, <3>4
  <2>4. \A i \in 1 .. Len(pipe) - n : rest[i] = pipe[n + i]
    <3> SUFFICES ASSUME NEW i \in 1 .. Len(pipe) - n
                 PROVE  rest[i] = pipe[n + i]
      OBVIOUS
    <3>1. i \in 1 .. Len(pipe) - (n + 1) + 1 /\ n + 1 + i - 1 = n + i
      BY <2>1
    <3>2. rest[i] = pipe[n + 1 + i - 1]
      BY <2>2, <3>1
    <3> QED BY <3>1, <3>2
  <2>5. pipe' = rest
    BY DEF rest
  <2> QED BY <2>2, <2>3, <2>4, <2>5
<1>6. /\ Unread \in Seq(Nat) /\ Len(Unread) = Left
      /\ \A i \in 1 .. Left : Unread[i] = b[s + i]
  <2>1. s + 1 \in Int /\ Len(b) \in Int /\ Len(b) - (s + 1) + 1 = Left
    BY <1>1, <1>2
  <2>2. /\ Unread \in Seq(Nat)
        /\ Len(Unread) = IF s + 1 <= Len(b) THEN Len(b) - (s + 1) + 1 ELSE 0
        /\ \A i \in 1 .. Len(b) - (s + 1) + 1 : Unread[i] = b[s + 1 + i - 1]
    BY <1>2, <1>3, <2>1, SubSeqProperties
  <2> QED BY <1>1, <1>2, <2>1, <2>2
<1> HIDE DEF chunk
<1>7. PICK kept \in {b, Unread}, at \in {s, 0} :
          /\ (kept = b /\ at = s) \/ (kept = Unread /\ at = 0)
          /\ client' = [client EXCEPT !.buffer = kept \o chunk, !.start = at]
  <2>1. [client EXCEPT !.buffer = b \o chunk] = [client EXCEPT !.buffer = b \o chunk, !.start = s]
    BY <1>1, <1>2 DEF Client
  <2>2. \/ client' = [client EXCEPT !.buffer = Unread \o chunk, !.start = 0]
        \/ client' = [client EXCEPT !.buffer = b \o chunk]
    BY <1>2 DEF Compacts, chunk
  <2>3. CASE client' = [client EXCEPT !.buffer = Unread \o chunk, !.start = 0]
    BY <2>3
  <2>4. CASE client' = [client EXCEPT !.buffer = b \o chunk]
    <3>1. client' = [client EXCEPT !.buffer = b \o chunk, !.start = s]
      BY <2>1, <2>4
    <3> QED BY <3>1
  <2> QED BY <2>2, <2>3, <2>4
<1>8. /\ kept \in Seq(Nat) /\ at \in Nat /\ Len(kept) \in Nat
      /\ Len(kept) - at = Left
      /\ \A i \in 1 .. Left : kept[at + i] = b[s + i]
  <2>1. CASE kept = b /\ at = s
    BY <1>0, <1>1, <2>1 DEF size
  <2>2. CASE kept = Unread /\ at = 0
    <3>1. \A i \in 1 .. Left : kept[at + i] = b[s + i]
      <4> SUFFICES ASSUME NEW i \in 1 .. Left
                   PROVE  kept[at + i] = b[s + i]
        OBVIOUS
      <4>1. at + i = i
        BY <1>0, <2>2
      <4> QED BY <1>6, <2>2, <4>1
    <3>2. Len(kept) = Left /\ at = 0
      BY <1>6, <2>2
    <3>3. Len(kept) - at = Left /\ Len(kept) \in Nat /\ at \in Nat
      BY <1>0, <3>2
    <3> QED BY <1>6, <2>2, <3>1, <3>3
  <2> QED BY <1>7, <2>1, <2>2
<1>9. /\ kept \o chunk \in Seq(Nat) /\ Len(kept \o chunk) = Len(kept) + n
      /\ \A i \in 1 .. Len(kept) + n :
             (kept \o chunk)[i] = IF i <= Len(kept) THEN kept[i] ELSE chunk[i - Len(kept)]
  BY <1>4, <1>8, ConcatProperties
<1>10. /\ client' \in Client /\ client'.buffer = kept \o chunk /\ client'.start = at
       /\ client'.pc = client.pc /\ client'.stop = client.stop
  BY <1>1, <1>7, <1>8, <1>9 DEF Client
<1> DEFINE k == Len(kept)
<1>11. k \in Nat /\ at \in Nat /\ k = Left + at
  BY <1>0, <1>8
<1>16. Len(client'.buffer) = k + n
  BY <1>9, <1>10
<1> HIDE DEF k
<1>12. Left' = Left + n
  <2>1. Left' = (k + n) - at
    BY <1>10, <1>16 DEF Left
  <2> QED BY <1>0, <1>11, <2>1
<1>13. TextLen' = TextLen
  <2>1. TextLen' = Left' + Len(pipe')
    BY DEF TextLen
  <2>2. Len(pipe') = more
    BY <1>5 DEF more
  <2>3. TextLen = text
    BY DEF text
  <2> QED BY <1>0, <1>12, <2>1, <2>2, <2>3
<1>14. client'.start <= Len(client'.buffer)
  BY <1>0, <1>10, <1>11, <1>16
<1>15. \A i \in 1 .. TextLen : Stream'[i] = Stream[i]
  <2> SUFFICES ASSUME NEW i \in 1 .. text
               PROVE  Stream'[i] = Stream[i]
    BY DEF text
  <2>0. i \in Nat
    BY <1>0
  <2>1. CASE i <= Left
    <3>1. client'.buffer[client'.start + i] = b[s + i]
      <4>1. i \in 1 .. Left /\ at + i \in 1 .. k + n /\ at + i <= k
        BY <1>0, <1>11, <2>1
      <4>2. (kept \o chunk)[at + i] = kept[at + i]
        BY <1>9, <4>1 DEF k
      <4> QED BY <1>8, <1>10, <4>1, <4>2
    <3>2. i <= Left'
      BY <1>0, <1>12, <2>1
    <3> QED BY <1>2, <2>0, <2>1, <3>1, <3>2 DEF Stream
  <2>2. CASE Left < i /\ i <= Left + n
    <3>1. client'.buffer[client'.start + i] = pipe[i - Left]
      <4>1. at + i \in 1 .. k + n /\ ~ (at + i <= k)
        BY <1>0, <1>11, <2>2
      <4>2. (at + i) - k = i - Left /\ i - Left \in 1 .. n
        BY <1>0, <1>11, <2>0, <2>2
      <4>3. (kept \o chunk)[at + i] = chunk[(at + i) - k]
        BY <1>9, <4>1 DEF k
      <4> QED BY <1>4, <1>10, <4>2, <4>3
    <3>2. i <= Left' /\ ~ (i <= Left)
      BY <1>0, <1>12, <2>2
    <3> QED BY <2>0, <3>1, <3>2 DEF Stream
  <2>3. CASE Left + n < i
    <3>1. ~ (i <= Left') /\ ~ (i <= Left) /\ i - Left' \in 1 .. more /\ n + (i - Left') = i - Left
      BY <1>0, <1>12, <2>3
    <3>2. pipe'[i - Left'] = pipe[i - Left]
      BY <1>5, <3>1 DEF more
    <3> QED BY <2>0, <3>1, <3>2 DEF Stream
  <2> QED BY <1>0, <2>1, <2>2, <2>3
<1> QED BY <1>5, <1>10, <1>13, <1>14, <1>15

(* A frame that is parsed leaves the frames behind it.                     *)
LEMMA Parsed ==
    ASSUME TextSound, NEW toks \in Seq(1 .. Comment), Framed(toks), toks # <<>>,
           format' = format, pipe' = pipe, client'.buffer = client.buffer,
           client'.start = client.start + Wide(1), Wide(1) <= Left
    PROVE  Framed(Tail(toks))' /\ client'.start <= Len(client'.buffer) /\ client'.start \in Nat
<1> DEFINE rest == Tail(toks)
           w == IF format = "sse" THEN 3 ELSE 2
           size == Len(client.buffer)
           n == Len(toks)
<1>1. /\ client.start \in Nat /\ size \in Nat /\ Len(pipe) \in Nat /\ Left \in Nat
      /\ n \in Nat /\ DOMAIN toks = 1 .. n
  BY TextTypes, LenProperties
<1>2. /\ rest \in Seq(1 .. Comment) /\ Len(rest) = n - 1
      /\ \A k \in 1 .. Len(rest) : rest[k] = toks[k + 1]
  BY HeadTailProperties
<1>3. n > 0
  BY EmptySeq, <1>1
<1>4. DOMAIN rest = 1 .. n - 1
  BY <1>2, LenProperties
<1>5. Wide(1) = w /\ w \in Nat
  BY DEF Wide
<1>6. Left = size - client.start /\ TextLen = Left + Len(pipe) /\ TextLen = Wide(n)
  BY DEF Left, TextLen, Framed
<1>7. Left' = size - client'.start /\ TextLen' = Left' + Len(pipe)
  BY DEF Left, TextLen
<1> HIDE DEF rest, w, size, n
<1> DEFINE st == client.start
           st1 == client'.start
           q == Len(pipe)
<1>13. /\ st \in Nat /\ size \in Nat /\ q \in Nat /\ w \in Nat
       /\ st1 = st + w /\ Left = size - st /\ Left' = size - st1 /\ w <= Left
       /\ TextLen = Left + q /\ TextLen' = Left' + q
  BY <1>1, <1>5, <1>6, <1>7
<1> HIDE DEF st, st1, q
<1>14. Left' = Left - w /\ TextLen' = TextLen - w /\ st1 <= size /\ st1 \in Nat
  BY <1>13
<1>8. Left' = Left - w /\ TextLen' = TextLen - w /\ client'.start <= size /\ client'.start \in Nat
  BY <1>14 DEF st1
<1>9. \A i \in Nat : Stream'[i] = Stream[i + w]
  <2> SUFFICES ASSUME NEW i \in Nat
               PROVE  Stream'[i] = Stream[i + w]
    OBVIOUS
  <2>1. i + w \in Nat
    BY <1>5
  <2>2. CASE i <= Left'
    <3>1. i + w <= Left /\ client'.start + i = client.start + (i + w)
      BY <1>1, <1>5, <1>8, <2>2
    <3> QED BY <2>1, <2>2, <3>1 DEF Stream
  <2>3. CASE ~ (i <= Left')
    <3>1. ~ (i + w <= Left) /\ i - Left' = (i + w) - Left
      BY <1>1, <1>5, <1>8, <2>3
    <3> QED BY <2>1, <2>3, <3>1 DEF Stream
  <2> QED BY <2>2, <2>3
<1>10. TextLen' = Wide(n - 1)'
  <2>1. CASE format = "sse"
    BY <1>1, <1>6, <1>8, <2>1 DEF Wide, w
  <2>2. CASE format # "sse"
    BY <1>1, <1>6, <1>8, <2>2 DEF Wide, w
  <2> QED BY <2>1, <2>2
<1>11. ASSUME NEW k \in 1 .. n - 1
       PROVE  /\ Stream'[Wide(k - 1)' + 1] = rest[k]
              /\ Stream'[Wide(k - 1)' + 2] = Newline
              /\ format' = "sse" => Stream'[Wide(k - 1)' + 3] = Newline
  <2>1. /\ k + 1 \in DOMAIN toks /\ k + 1 - 1 = k /\ k \in 1 .. Len(rest)
    BY <1>1, <1>2
  <2>2. /\ Stream[Wide(k) + 1] = toks[k + 1] /\ Stream[Wide(k) + 2] = Newline
        /\ format = "sse" => Stream[Wide(k) + 3] = Newline
    BY <2>1 DEF Framed
  <2>3. /\ Wide(k - 1)' \in Nat
        /\ (Wide(k - 1)' + 1) + w = Wide(k) + 1 /\ (Wide(k - 1)' + 2) + w = Wide(k) + 2
        /\ (Wide(k - 1)' + 3) + w = Wide(k) + 3
    <3>1. CASE format = "sse"
      BY <1>1, <3>1 DEF Wide, w
    <3>2. CASE format # "sse"
      BY <1>1, <3>2 DEF Wide, w
    <3> QED BY <3>1, <3>2
  <2>4. Wide(k - 1)' + 1 \in Nat /\ Wide(k - 1)' + 2 \in Nat /\ Wide(k - 1)' + 3 \in Nat
    BY <2>3
  <2>5. Stream'[Wide(k - 1)' + 1] = Stream[Wide(k) + 1]
    BY <1>9, <2>3, <2>4
  <2>6. Stream'[Wide(k - 1)' + 2] = Stream[Wide(k) + 2]
    BY <1>9, <2>3, <2>4
  <2>7. Stream'[Wide(k - 1)' + 3] = Stream[Wide(k) + 3]
    BY <1>9, <2>3, <2>4
  <2> QED BY <1>2, <2>1, <2>2, <2>5, <2>6, <2>7
<1>12. Framed(rest)'
  <2>1. TextLen' = Wide(Len(rest))'
    BY <1>2, <1>10
  <2> QED BY <1>4, <1>11, <2>1 DEF Framed
<1> QED BY <1>8, <1>12 DEF rest, size

(* The first delimiter in the buffer closes the first frame: it is one     *)
(* token long, and it is there as soon as the whole frame is.              *)
LEMMA BoundaryIs ==
    ASSUME TextSound, NEW i \in Nat
    PROVE  i \in Boundaries <=> /\ client.start <= i /\ i + Wide(1) <= Len(client.buffer) + 1
                                /\ client.buffer[i + 1] = Newline
                                /\ format = "sse" => client.buffer[i + 2] = Newline
<1> DEFINE b == client.buffer
           size == Len(b)
           d == Len(Delimiter)
           cut == SubSeq(b, i + 1, i + d)
<1>1. /\ b \in Seq(Nat) /\ client.start \in Nat /\ size \in Nat
      /\ Delimiter \in Seq(Nat) /\ d = (IF format = "sse" THEN 2 ELSE 1)
      /\ \A j \in 1 .. d : Delimiter[j] = Newline
  BY TextTypes, Delimits DEF TextSound
<1>2. i \in Boundaries <=> i \in client.start .. size - d /\ cut = Delimiter
  BY DEF Boundaries
<1>3. Wide(1) = d + 1 /\ d \in 1 .. 2
  BY <1>1 DEF Wide
<1>4. i \in client.start .. size - d <=> client.start <= i /\ i + Wide(1) <= size + 1
  BY <1>1, <1>3
<1>5. ASSUME i \in client.start .. size - d
      PROVE  cut = Delimiter <=> b[i + 1] = Newline /\ (format = "sse" => b[i + 2] = Newline)
  <2>1. i + 1 \in Int /\ i + d \in Int /\ i + d - (i + 1) + 1 = d /\ i + 1 <= i + d /\ i + d <= size
    BY <1>1, <1>3, <1>5
  <2>2. \A j \in i + 1 .. i + d : b[j] \in Nat
    <3>1. \A j \in 1 .. size : b[j] \in Nat
      BY <1>1, ElementOfSeq
    <3> QED BY <2>1, <3>1
  <2>3. /\ cut \in Seq(Nat)
        /\ Len(cut) = IF i + 1 <= i + d THEN i + d - (i + 1) + 1 ELSE 0
        /\ \A j \in 1 .. i + d - (i + 1) + 1 : cut[j] = b[i + 1 + j - 1]
    BY <2>1, <2>2, SubSeqProperties
  <2> HIDE DEF cut, d, b
  <2>4. Len(cut) = d
    BY <2>1, <2>3
  <2>5. cut = Delimiter <=> \A j \in 1 .. d : cut[j] = Newline
    <3>1. (\A j \in 1 .. d : cut[j] = Newline) => \A j \in 1 .. Len(cut) : cut[j] = Delimiter[j]
      BY <1>1, <2>4
    <3>2. (\A j \in 1 .. d : cut[j] = Newline) => cut = Delimiter
      BY <1>1, <2>3, <2>4, <3>1, SeqEqual DEF d
    <3> QED BY <1>1, <3>2
  <2>6. \A j \in 1 .. d : cut[j] = b[i + j]
    <3> SUFFICES ASSUME NEW j \in 1 .. d
                 PROVE  cut[j] = b[i + j]
      OBVIOUS
    <3>1. i + 1 + j - 1 = i + j /\ j \in 1 .. i + d - (i + 1) + 1
      BY <2>1, <1>3
    <3> QED BY <2>3, <3>1
  <2>7. 1 \in 1 .. d /\ (format = "sse" => d = 2) /\ (format # "sse" => d = 1)
    BY <1>1, <1>3
  <2>8. CASE format = "sse"
    <3>1. 1 .. d = {1, 2}
      BY <2>7, <2>8
    <3> QED BY <2>5, <2>6, <2>8, <3>1
  <2>9. CASE format # "sse"
    <3>1. 1 .. d = {1}
      BY <2>7, <2>9
    <3> QED BY <2>5, <2>6, <2>9, <3>1
  <2> QED BY <2>8, <2>9
<1> HIDE DEF cut
<1> QED BY <1>2, <1>4, <1>5

LEMMA HeadOfText ==
    ASSUME TextSound, NEW toks \in Seq(1 .. Comment), Framed(toks), Left > 0
    PROVE  /\ toks # <<>> /\ Len(toks) \in Nat \ {0} /\ 1 \in DOMAIN toks /\ toks[1] \in 1 .. Comment
           /\ client.buffer[client.start + 1] = toks[1]
           /\ Wide(1) <= Left => client.start + 1 \in Boundaries
<1> DEFINE b == client.buffer
           s == client.start
<1>1. /\ s \in Nat /\ Len(b) \in Nat /\ Len(pipe) \in Nat /\ Left \in Nat
      /\ Len(toks) \in Nat /\ DOMAIN toks = 1 .. Len(toks)
  BY TextTypes, LenProperties
<1>2. Len(toks) # 0
  <2>1. TextLen # 0 /\ TextLen = Wide(Len(toks)) /\ Wide(0) = 0
    BY <1>1 DEF TextLen, Framed, Wide
  <2> QED BY <2>1
<1>3. toks # <<>> /\ 1 \in DOMAIN toks /\ toks[1] \in 1 .. Comment
  <2>1. 1 \in 1 .. Len(toks)
    BY <1>1, <1>2
  <2>2. toks[1] \in 1 .. Comment
    BY <2>1, ElementOfSeq
  <2>3. toks # <<>>
    BY <1>2, EmptySeq
  <2> QED BY <1>1, <2>1, <2>2, <2>3
<1>4. /\ Stream[1] = toks[1] /\ Stream[2] = Newline
      /\ format = "sse" => Stream[3] = Newline
  <2>1. /\ Stream[Wide(1 - 1) + 1] = toks[1] /\ Stream[Wide(1 - 1) + 2] = Newline
        /\ format = "sse" => Stream[Wide(1 - 1) + 3] = Newline
    BY <1>3 DEF Framed
  <2>2. Wide(1 - 1) = 0
    BY DEF Wide
  <2> QED BY <2>1, <2>2
<1>5. \A j \in Nat : j <= Left => Stream[j] = b[s + j]
  BY DEF Stream
<1>6. b[s + 1] = toks[1]
  BY <1>1, <1>4, <1>5
<1>7. ASSUME Wide(1) <= Left
      PROVE  s + 1 \in Boundaries
  <2>1. /\ 2 <= Left
        /\ format = "sse" => 3 <= Left
    BY <1>1, <1>7 DEF Wide
  <2>2. /\ b[s + 2] = Newline
        /\ format = "sse" => b[s + 3] = Newline
    BY <1>4, <1>5, <2>1
  <2>3. s <= s + 1 /\ s + 1 + Wide(1) <= Len(b) + 1 /\ s + 1 \in Nat
    <3>1. Wide(1) \in Nat /\ Wide(1) <= Len(b) - s
      BY <1>7 DEF Left, Wide
    <3> QED BY <1>1, <3>1
  <2>4. s + 1 + 1 = s + 2 /\ s + 1 + 2 = s + 3
    BY <1>1
  <2> QED BY <2>2, <2>3, <2>4, BoundaryIs
<1> QED BY <1>1, <1>2, <1>3, <1>6, <1>7

LEMMA FirstFrame ==
    ASSUME TextSound, NEW toks \in Seq(1 .. Comment), Framed(toks),
           NEW i \in Boundaries, \A j \in Boundaries : i <= j
    PROVE  /\ toks # <<>> /\ 1 \in DOMAIN toks /\ toks[1] \in 1 .. Comment
           /\ Wide(1) <= Left /\ i + Len(Delimiter) = client.start + Wide(1)
           /\ Text(SubSeq(client.buffer, client.start + 1, i)) = {toks[1]} \ {Newline, Comment}
<1> DEFINE b == client.buffer
           s == client.start
           raw == SubSeq(b, s + 1, i)
<1>1. /\ s \in Nat /\ Len(b) \in Nat /\ Left \in Nat /\ Left = Len(b) - s
  BY TextTypes DEF Left
<1>2. i \in Nat /\ s <= i
  <2>1. /\ i \in s .. Len(b) - Len(Delimiter)
        /\ Len(Delimiter) \in Nat
    BY Delimits DEF Boundaries, TextSound
  <2> QED BY <1>1, <2>1
<1>3. i + Wide(1) <= Len(b) + 1 /\ b[i + 1] = Newline
  BY <1>2, BoundaryIs
<1>4. Wide(1) \in Nat /\ Wide(1) >= 2 /\ Wide(1) = Len(Delimiter) + 1
  <2>1. Len(Delimiter) = IF format = "sse" THEN 2 ELSE 1
    BY Delimits DEF TextSound
  <2>2. Wide(1) = IF format = "sse" THEN 3 ELSE 2
    BY DEF Wide
  <2> QED BY <2>1, <2>2
<1>5. Left > 0
  BY <1>1, <1>2, <1>3, <1>4
<1>6. /\ toks # <<>> /\ 1 \in DOMAIN toks /\ toks[1] \in 1 .. Comment
      /\ b[s + 1] = toks[1]
      /\ Wide(1) <= Left => s + 1 \in Boundaries
  BY <1>5, HeadOfText
<1>7. i # s
  <2>1. toks[1] # Newline
    BY <1>6, Tokens
  <2> QED BY <1>3, <1>6, <2>1
<1> HIDE DEF b, s
<1>8. Wide(1) <= Left
  <2>1. s + 1 <= i
    BY <1>1, <1>2, <1>7
  <2> QED BY <1>1, <1>2, <1>3, <1>4, <2>1
<1>9. i = s + 1
  <2>1. i <= s + 1
    BY <1>6, <1>8 DEF s
  <2> QED BY <1>1, <1>2, <1>7, <2>1
<1>10. Text(raw) = {toks[1]} \ {Newline, Comment}
  <2>1. s + 1 \in Int /\ i \in Int /\ i - (s + 1) + 1 = 1
    BY <1>1, <1>9
  <2>2. \A j \in s + 1 .. i : b[j] \in Nat
    <3>1. b[s + 1] \in Nat
      BY <1>6, Tokens
    <3> QED BY <1>1, <1>9, <3>1
  <2>3. /\ raw \in Seq(Nat)
        /\ Len(raw) = IF s + 1 <= i THEN i - (s + 1) + 1 ELSE 0
        /\ \A j \in 1 .. i - (s + 1) + 1 : raw[j] = b[s + 1 + j - 1]
    <3>1. \A m, n \in Int : (\A j \in m .. n : b[j] \in Nat) =>
              /\ SubSeq(b, m, n) \in Seq(Nat)
              /\ Len(SubSeq(b, m, n)) = IF m <= n THEN n - m + 1 ELSE 0
              /\ \A j \in 1 .. n - m + 1 : SubSeq(b, m, n)[j] = b[m + j - 1]
      BY SubSeqProperties
    <3> QED BY <2>1, <2>2, <3>1
  <2> HIDE DEF raw
  <2>4. Len(raw) = 1
    BY <1>9, <2>1, <2>3
  <2>5. DOMAIN raw = {1}
    <3>1. 1 .. 1 = {1}
      OBVIOUS
    <3> QED BY <2>3, <2>4, <3>1, LenProperties
  <2>6. raw[1] = toks[1]
    <3>1. 1 \in 1 .. i - (s + 1) + 1 /\ s + 1 + 1 - 1 = s + 1
      BY <1>1, <2>1
    <3> QED BY <1>6, <2>3, <3>1
  <2> QED BY <2>5, <2>6 DEF Text
<1> QED BY <1>1, <1>4, <1>6, <1>8, <1>9, <1>10 DEF b, s

(* What a running handler sends fits behind what is under way.             *)
LEMMA FitsBehind ==
    ASSUME NEW toks, Fitting(toks), handler = "running", NEW t \in 1 .. Comment,
           sent \in 0 .. MaxFrames, Len(got) \in Nat, Len(got) <= sent,
           IF t <= MaxFrames THEN sent' = sent + 1 /\ t = sent + 1 ELSE sent' = sent,
           handler' = (IF t = ErrorText THEN "threw" ELSE "running"),
           got' = got, client' = client
    PROVE  Fitting(Append(toks, t))'
<1> DEFINE more == Append(toks, t)
           n == Len(toks)
           done == Len(got)
<1>1. /\ toks \in Seq(1 .. Comment) /\ n \in Nat /\ DOMAIN toks = 1 .. n
      /\ done \in Nat /\ done <= sent /\ sent \in Nat /\ sent' \in Nat /\ done <= sent'
      /\ sent <= sent' /\ MaxFrames \in Nat /\ sent <= MaxFrames /\ Len(got') = done
  BY LenProperties, FramesAssumption DEF Fitting
<1>2. /\ more \in Seq(1 .. Comment) /\ Len(more) = n + 1 /\ more[n + 1] = t
      /\ \A k \in 1 .. n : more[k] = toks[k]
  BY <1>1, AppendProperties
<1>3. DOMAIN more = 1 .. n + 1 /\ t \in Nat
  BY <1>2, LenProperties
<1> HIDE DEF more, n, done
<1>4. \A k \in 1 .. n + 1 : (k \in 1 .. n /\ more[k] = toks[k]) \/ (k = n + 1 /\ more[k] = t)
  BY <1>1, <1>2
<1>5. \A k \in 1 .. n : toks[k] \in 1 .. Comment /\ toks[k] # ErrorText
  <2>1. \A k \in 1 .. n : toks[k] \in 1 .. Comment
    BY <1>1, ElementOfSeq DEF n
  <2> QED BY <1>1, <2>1 DEF Fitting
<1>6. \A k \in 1 .. n : toks[k] <= MaxFrames => done < toks[k] /\ toks[k] <= sent
  BY <1>1 DEF Fitting, done
<1>7. \A k \in 1 .. n + 1 : more[k] <= MaxFrames => done < more[k] /\ more[k] <= sent'
  BY <1>1, <1>3, <1>4, <1>5, <1>6
<1>8. \A j, k \in 1 .. n + 1 : j < k /\ more[k] <= MaxFrames => more[j] < more[k] \/ more[j] = Comment
  <2> SUFFICES ASSUME NEW j \in 1 .. n + 1, NEW k \in 1 .. n + 1, j < k, more[k] <= MaxFrames
               PROVE  more[j] < more[k] \/ more[j] = Comment
    OBVIOUS
  <2>1. j \in 1 .. n /\ more[j] = toks[j]
    BY <1>1, <1>4
  <2>2. CASE k \in 1 .. n /\ more[k] = toks[k]
    BY <1>1, <2>1, <2>2 DEF Fitting
  <2>3. CASE k = n + 1 /\ more[k] = t
    <3>1. t = sent + 1
      BY <2>3
    <3>2. toks[j] \in Nat /\ (toks[j] <= MaxFrames \/ toks[j] = Comment)
      BY <1>1, <1>5, <2>1, Tokens
    <3> QED BY <1>1, <1>6, <2>1, <2>3, <3>1, <3>2
  <2> QED BY <1>4, <2>2, <2>3
<1>9. \A v \in Nat : done < v /\ v <= sent' => \E k \in 1 .. n + 1 : more[k] = v
  <2> SUFFICES ASSUME NEW v \in Nat, done < v, v <= sent'
               PROVE  \E k \in 1 .. n + 1 : more[k] = v
    OBVIOUS
  <2>1. CASE v <= sent
    <3>1. PICK k \in 1 .. n : toks[k] = v
      BY <1>1, <2>1 DEF Fitting, done
    <3> QED BY <1>1, <1>2, <3>1
  <2>2. CASE ~ (v <= sent)
    <3>1. v = t /\ n + 1 \in 1 .. n + 1
      BY <1>1, <2>2
    <3> QED BY <1>2, <3>1
  <2> QED BY <2>1, <2>2
<1>10. \A k \in 1 .. n + 1 : more[k] = ErrorText => k = n + 1 /\ handler' = "threw"
  BY <1>4, <1>5
<1>11. handler' = "threw" => n + 1 > 0 /\ more[n + 1] = ErrorText
  BY <1>1, <1>2
<1>12. more \in Seq(1 .. Comment) /\ DOMAIN more = 1 .. n + 1 /\ Len(more) = n + 1 /\ Len(got') = done
  BY <1>1, <1>2, <1>3
<1>13. Fitting(more)'
  <2>1. /\ more \in Seq(1 .. Comment) /\ Len(got') = done
        /\ \A k \in DOMAIN more : more[k] <= MaxFrames => Len(got') < more[k] /\ more[k] <= sent'
        /\ \A j, k \in DOMAIN more : j < k /\ more[k] <= MaxFrames => more[j] < more[k] \/ more[j] = Comment
        /\ \A v \in Nat : Len(got') < v /\ v <= sent' => \E k \in DOMAIN more : more[k] = v
    BY <1>7, <1>8, <1>9, <1>12
  <2>2. \A k \in DOMAIN more : more[k] = ErrorText => k = Len(more) /\ handler' = "threw"
    BY <1>10, <1>12
  <2>3. handler' = "threw" /\ client'.pc # "threw" => Len(more) > 0 /\ more[Len(more)] = ErrorText
    BY <1>11, <1>12
  <2> QED BY <2>1, <2>2, <2>3 DEF Fitting
<1> QED BY <1>13 DEF more

(* The first of the frames is the next value, or a comment, or it is the   *)
(* sentinel and no value is missing; what is behind it fits again.         *)
LEMMA FitsAfter ==
    ASSUME NEW toks, Fitting(toks), toks # <<>>,
           sent \in 0 .. MaxFrames, Len(got) \in Nat, Len(got) <= sent
    PROVE  /\ toks[1] <= MaxFrames => toks[1] = Len(got) + 1 /\ toks[1] <= sent
           /\ toks[1] = ErrorText => handler = "threw" /\ Len(got) = sent
           /\ /\ handler' = handler /\ sent' = sent
              /\ Len(got') = (IF toks[1] <= MaxFrames THEN Len(got) + 1 ELSE Len(got))
              /\ client.pc # "threw"
              /\ client'.pc = "threw" <=> toks[1] = ErrorText
              => Fitting(Tail(toks))'
<1> DEFINE rest == Tail(toks)
           n == Len(toks)
           done == Len(got)
           head == toks[1]
<1>1. /\ toks \in Seq(1 .. Comment) /\ n \in Nat /\ DOMAIN toks = 1 .. n
      /\ done \in Nat /\ done <= sent /\ sent \in Nat
      /\ MaxFrames \in Nat /\ sent <= MaxFrames
  BY LenProperties, FramesAssumption DEF Fitting
<1>2. n > 0 /\ 1 \in 1 .. n
  BY <1>1, EmptySeq
<1>3. /\ rest \in Seq(1 .. Comment) /\ Len(rest) = n - 1
      /\ \A k \in 1 .. n - 1 : rest[k] = toks[k + 1]
  BY <1>1, HeadTailProperties
<1>4. DOMAIN rest = 1 .. n - 1
  BY <1>3, LenProperties
<1>5. \A k \in 1 .. n : toks[k] \in 1 .. Comment /\ toks[k] \in Nat
  <2>1. \A k \in 1 .. n : toks[k] \in 1 .. Comment
    BY <1>1, ElementOfSeq
  <2> QED BY <2>1, Tokens
<1>6. /\ \A k \in 1 .. n : toks[k] <= MaxFrames => done < toks[k] /\ toks[k] <= sent
      /\ \A j, k \in 1 .. n : j < k /\ toks[k] <= MaxFrames => toks[j] < toks[k] \/ toks[j] = Comment
      /\ \A v \in Nat : done < v /\ v <= sent => \E k \in 1 .. n : toks[k] = v
      /\ \A k \in 1 .. n : toks[k] = ErrorText => k = n /\ handler = "threw"
      /\ handler = "threw" /\ client.pc # "threw" => n > 0 /\ toks[n] = ErrorText
  BY <1>1 DEF Fitting
<1>7. /\ MaxFrames < ErrorText /\ ErrorText < Comment /\ ErrorText \in Nat /\ Comment \in Nat
      /\ head \in Nat /\ head = toks[1]
  BY <1>1, <1>2, <1>5, Tokens
<1> HIDE DEF rest, n, done, head
<1>8. ASSUME head <= MaxFrames
      PROVE  head = done + 1 /\ head <= sent
  <2>1. done < head /\ head <= sent /\ done + 1 <= sent
    BY <1>1, <1>2, <1>6, <1>7, <1>8
  <2>2. PICK k \in 1 .. n : toks[k] = done + 1
    BY <1>1, <1>6, <2>1
  <2>3. CASE k = 1
    BY <1>7, <2>1, <2>2, <2>3
  <2>4. CASE k # 1
    <3>1. 1 < k /\ toks[k] <= MaxFrames
      BY <1>1, <2>1, <2>2, <2>4
    <3>2. head < done + 1 \/ head = Comment
      BY <1>2, <1>6, <1>7, <2>2, <3>1
    <3> QED BY <1>1, <1>7, <1>8, <2>1, <3>2
  <2> QED BY <2>3, <2>4
<1>9. ASSUME head = ErrorText
      PROVE  handler = "threw" /\ done = sent /\ n = 1
  <2>1. handler = "threw" /\ n = 1
    BY <1>2, <1>6, <1>7, <1>9
  <2>2. ~ (done < sent)
    <3> SUFFICES ASSUME done < sent
                 PROVE  FALSE
      OBVIOUS
    <3>1. PICK k \in 1 .. n : toks[k] = sent
      BY <1>1, <1>6
    <3>2. k = 1
      BY <2>1, <3>1
    <3>3. sent = ErrorText
      BY <1>7, <1>9, <3>1, <3>2
    <3> QED BY <1>1, <1>7, <3>3
  <2> QED BY <1>1, <2>1, <2>2
<1>10. ASSUME handler' = handler, sent' = sent,
              Len(got') = (IF head <= MaxFrames THEN done + 1 ELSE done),
              client.pc # "threw", client'.pc = "threw" <=> head = ErrorText
       PROVE  Fitting(rest)'
  <2> DEFINE done1 == Len(got')
  <2>0. done1 \in Nat /\ done <= done1 /\ done1 <= done + 1 /\ (done1 # done => head = done + 1)
    BY <1>1, <1>8, <1>10
  <2> HIDE DEF done1
  <2>1. \A k \in 1 .. n - 1 : k + 1 \in 1 .. n /\ rest[k] = toks[k + 1] /\ rest[k] \in Nat
    BY <1>1, <1>3, <1>5
  <2>2. \A k \in 1 .. n - 1 : rest[k] <= MaxFrames => done1 < rest[k] /\ rest[k] <= sent
    <3> SUFFICES ASSUME NEW k \in 1 .. n - 1, rest[k] <= MaxFrames
                 PROVE  done1 < rest[k] /\ rest[k] <= sent
      OBVIOUS
    <3>1. done < rest[k] /\ rest[k] <= sent
      BY <1>6, <2>1
    <3>2. head < rest[k] \/ head = Comment
      <4>1. 1 < k + 1
        BY <1>1
      <4> QED BY <1>2, <1>6, <1>7, <2>1, <4>1
    <3>3. rest[k] \in Nat /\ rest[k] < Comment
      BY <1>1, <1>7, <2>1
    <3>4. CASE done1 = done
      BY <3>1, <3>4
    <3>5. CASE done1 # done
      <4>1. head = done + 1 /\ head < rest[k]
        BY <1>1, <1>7, <1>8, <1>10, <2>0, <3>2, <3>5 DEF done1
      <4> QED BY <1>1, <2>0, <3>1, <3>3, <4>1
    <3> QED BY <3>4, <3>5
  <2>3. \A j, k \in 1 .. n - 1 : j < k /\ rest[k] <= MaxFrames => rest[j] < rest[k] \/ rest[j] = Comment
    <3> SUFFICES ASSUME NEW j \in 1 .. n - 1, NEW k \in 1 .. n - 1, j < k, rest[k] <= MaxFrames
                 PROVE  rest[j] < rest[k] \/ rest[j] = Comment
      OBVIOUS
    <3>1. j + 1 < k + 1
      BY <1>1
    <3> QED BY <1>6, <2>1, <3>1
  <2>4. \A v \in Nat : done1 < v /\ v <= sent => \E k \in 1 .. n - 1 : rest[k] = v
    <3> SUFFICES ASSUME NEW v \in Nat, done1 < v, v <= sent
                 PROVE  \E k \in 1 .. n - 1 : rest[k] = v
      OBVIOUS
    <3>1. done < v
      BY <1>1, <2>0
    <3>2. PICK k \in 1 .. n : toks[k] = v
      BY <1>6, <3>1
    <3>3. k # 1
      BY <1>1, <1>7, <1>10, <2>0, <3>2 DEF done1
    <3>4. k - 1 \in 1 .. n - 1 /\ k - 1 + 1 = k
      BY <1>1, <3>3
    <3> QED BY <2>1, <3>2, <3>4
  <2>5. \A k \in 1 .. n - 1 : rest[k] = ErrorText => k = n - 1 /\ handler = "threw"
    <3> SUFFICES ASSUME NEW k \in 1 .. n - 1, rest[k] = ErrorText
                 PROVE  k = n - 1 /\ handler = "threw"
      OBVIOUS
    <3>1. k + 1 = n /\ handler = "threw"
      BY <1>6, <2>1
    <3> QED BY <1>1, <3>1
  <2>6. handler = "threw" /\ client'.pc # "threw" => n - 1 > 0 /\ rest[n - 1] = ErrorText
    <3> SUFFICES ASSUME handler = "threw", client'.pc # "threw"
                 PROVE  n - 1 > 0 /\ rest[n - 1] = ErrorText
      OBVIOUS
    <3>1. toks[n] = ErrorText /\ head # ErrorText
      BY <1>6, <1>10
    <3>2. n # 1
      BY <1>7, <3>1
    <3>3. n - 1 \in 1 .. n - 1 /\ n - 1 + 1 = n
      BY <1>1, <1>2, <3>2
    <3> QED BY <1>1, <2>1, <3>1, <3>3
  <2> QED BY <1>3, <1>4, <1>10, <2>2, <2>3, <2>4, <2>5, <2>6 DEF Fitting, done1
<1> QED BY <1>8, <1>9, <1>10 DEF rest, done, head

LEMMA FramesInitially == FramesInit => FramesInv
<1> SUFFICES ASSUME FramesInit
             PROVE  FramesInv
  OBVIOUS
<1>1. /\ client.buffer = <<>> /\ client.start = 0 /\ client.pc = "fresh"
      /\ pipe = <<>> /\ got = <<>> /\ sent = 0 /\ handler = "running" /\ beats = 0
  BY DEF FramesInit
<1>2. client \in Client
  <2>1. <<>> \in Seq(Nat)
    BY EmptySeq
  <2> QED BY <2>1 DEF FramesInit, Client
<1>3. TextSound
  <2>1. <<>> \in Seq(0 .. Comment) /\ Len(<<>>) = 0 /\ 0 \in 0 .. MaxFrames /\ 0 \in 0 .. MaxBeats
    BY EmptySeq, FramesAssumption
  <2>2. format \in {"sse", "jsonl"}
    BY DEF FramesInit
  <2> QED BY <1>1, <1>2, <2>1, <2>2 DEF TextSound, FramesType
<1>4. Len(<<>>) = 0 /\ DOMAIN <<>> = {} /\ <<>> \in Seq(1 .. Comment)
  BY EmptySeq
<1>5. Framed(<<>>)
  <2>1. TextLen = 0
    BY <1>1, <1>4 DEF TextLen, Left
  <2> QED BY <1>4, <2>1 DEF Framed, Wide
<1>6. Fitting(<<>>)
  BY <1>1, <1>4 DEF Fitting
<1> QED BY <1>1, <1>3, <1>4, <1>5, <1>6 DEF FramesInv

LEMMA FramesDeliver == FramesInv => FramesExact
<1> SUFFICES ASSUME FramesInv
             PROVE  FramesExact
  OBVIOUS
<1>1. got \in Seq(0 .. Comment)
  BY DEF FramesInv, TextSound, FramesType
<1>2. got = [i \in 1 .. Len(got) |-> got[i]] /\ DOMAIN got = 1 .. Len(got)
  BY <1>1, LenProperties
<1>3. [i \in 1 .. Len(got) |-> got[i]] = [i \in 1 .. Len(got) |-> i]
  BY <1>2 DEF FramesInv
<1> QED BY <1>2, <1>3 DEF FramesInv, FramesExact

(* The client's own moves, which leave the text and what it got alone.     *)
LEMMA TextRests ==
    ASSUME FramesInv, client' \in Client, client'.buffer = client.buffer, client'.start = client.start,
           handler' \in {handler, "ended", "returned"}, handler' = handler \/ handler = "running",
           client'.pc = "threw" <=> client.pc = "threw",
           client'.pc = "done" /\ client'.stop = "no" =>
               client.pc = "done" /\ client.stop = "no" /\ handler' = handler,
           client.pc = "threw" => handler' = handler,
           UNCHANGED <<format, sent, beats, pipe, got>>
    PROVE  FramesInv'
<1>1. TextSound'
  BY DEF FramesInv, TextSound, FramesType
<1>2. PICK toks : Framed(toks) /\ Fitting(toks)
  BY DEF FramesInv
<1>3. Stream' = Stream /\ TextLen' = TextLen
  BY DEF Stream, TextLen, Left
<1>4. Framed(toks)'
  BY <1>2, <1>3, SameText DEF FramesInv, Fitting
<1>5. Fitting(toks)'
  BY <1>2 DEF Fitting
<1> QED BY <1>1, <1>4, <1>5 DEF FramesInv

LEMMA FramesStep == FramesInv /\ [FramesNext]_fvars => FramesInv'
<1> SUFFICES ASSUME FramesInv, [FramesNext]_fvars
             PROVE  FramesInv'
  OBVIOUS
<1>1. /\ TextSound /\ client \in Client /\ pipe \in Seq(0 .. Comment) /\ got \in Seq(0 .. Comment)
      /\ sent \in 0 .. MaxFrames /\ beats \in 0 .. MaxBeats /\ format \in {"sse", "jsonl"}
      /\ handler \in {"running", "ended", "threw", "returned"}
      /\ Len(got) \in Nat /\ DOMAIN got = 1 .. Len(got) /\ Len(got) <= sent
  BY LenProperties DEF FramesInv, TextSound, FramesType
<1>2. PICK toks : Framed(toks) /\ Fitting(toks)
  BY DEF FramesInv
<1>14. sent \in Nat /\ Len(got) \in Nat /\ Len(got) <= sent
  BY <1>1, FramesAssumption
<1>3. toks \in Seq(1 .. Comment)
  BY <1>2 DEF Fitting
<1>4. ASSUME NEW t \in 1 .. Comment, handler = "running", client' = client, got' = got, format' = format,
             IF t <= MaxFrames THEN sent' = sent + 1 /\ t = sent + 1 ELSE sent' = sent,
             sent' \in 0 .. MaxFrames, beats' \in 0 .. MaxBeats,
             handler' = (IF t = ErrorText THEN "threw" ELSE "running"),
             pipe' = pipe \o <<t>> \o Delimiter
      PROVE  FramesInv'
  <2>1. Framed(Append(toks, t))' /\ pipe' \in Seq(0 .. Comment)
    BY <1>1, <1>2, <1>3, <1>4, Enqueued
  <2>2. Fitting(Append(toks, t))'
    BY <1>1, <1>2, <1>4, FitsBehind
  <2>3. TextSound'
    BY <1>1, <1>4, <2>1 DEF TextSound, FramesType
  <2>4. Len(got) <= sent'
    BY <1>1, <1>4
  <2>5. ~ (client.pc = "done" /\ client.stop = "no") /\ client.pc # "threw"
    BY <1>4 DEF FramesInv
  <2> QED BY <1>4, <2>1, <2>2, <2>3, <2>4, <2>5 DEF FramesInv
<1>5. CASE Yield
  <2>1. PICK t \in 1 .. MaxFrames : t = sent + 1
    BY <1>1, <1>5, FramesAssumption DEF Yield
  <2>2. t \in 1 .. Comment /\ t # ErrorText /\ t <= MaxFrames
    BY <2>1, FramesAssumption DEF Comment, ErrorText
  <2>3. sent' = t /\ pipe' = pipe \o <<t>> \o Delimiter
    BY <1>5, <2>1 DEF Yield
  <2>4. /\ handler = "running" /\ client' = client /\ got' = got /\ format' = format
        /\ handler' = "running" /\ beats' = beats
    BY <1>5 DEF Yield, serving
  <2>5. sent' \in 0 .. MaxFrames
    BY <2>1, <2>3
  <2> QED BY <1>1, <1>4, <2>1, <2>2, <2>3, <2>4, <2>5
<1>6. CASE ThrowHandler
  <2>1. ErrorText \in 1 .. Comment /\ ~ (ErrorText <= MaxFrames)
    BY FramesAssumption DEF Comment, ErrorText
  <2>2. /\ handler = "running" /\ client' = client /\ got' = got /\ format' = format
        /\ handler' = "threw" /\ beats' = beats /\ sent' = sent
        /\ pipe' = pipe \o <<ErrorText>> \o Delimiter
    BY <1>6 DEF ThrowHandler, serving
  <2> QED BY <1>1, <1>4, <2>1, <2>2
<1>7. CASE Keepalive
  <2>1. Comment \in 1 .. Comment /\ ~ (Comment <= MaxFrames) /\ Comment # ErrorText
    BY FramesAssumption DEF Comment, ErrorText
  <2>2. /\ handler = "running" /\ client' = client /\ got' = got /\ format' = format
        /\ handler' = "running" /\ beats' = beats + 1 /\ sent' = sent /\ beats < MaxBeats
        /\ pipe' = pipe \o <<Comment>> \o Delimiter
    BY <1>7 DEF Keepalive, serving
  <2>3. beats' \in 0 .. MaxBeats
    BY <1>1, <2>2, FramesAssumption
  <2> QED BY <1>1, <1>4, <2>1, <2>2, <2>3
<1>8. CASE EndHandler \/ CancelArrives
  <2>1. /\ client' = client /\ handler = "running" /\ handler' \in {"ended", "returned"}
        /\ UNCHANGED <<format, sent, beats, pipe, got>>
    BY <1>8 DEF EndHandler, CancelArrives, serving
  <2>2. ~ (client.pc = "done" /\ client.stop = "no") /\ client.pc # "threw"
    BY <2>1 DEF FramesInv
  <2> QED BY <1>1, <2>1, <2>2, TextRests
<1>9. CASE Pull \/ Fetched \/ Return
  <2>1. /\ UNCHANGED <<format, handler, sent, beats, pipe, got>>
        /\ client' \in Client /\ client'.buffer = client.buffer /\ client'.start = client.start
        /\ client'.pc # "threw" /\ client.pc # "threw"
        /\ ~ (client'.pc = "done" /\ client'.stop = "no")
    BY <1>1, <1>9 DEF Pull, Fetched, Return, Client
  <2> QED BY <2>1, TextRests
<1>10. CASE Chunk
  <2>1. PICK n \in 1 .. Len(pipe) : /\ Compacts(SubSeq(pipe, 1, n))
                                    /\ pipe' = SubSeq(pipe, n + 1, Len(pipe))
    BY <1>10 DEF Chunk
  <2>2. /\ client' \in Client /\ pipe' \in Seq(0 .. Comment)
        /\ client'.start <= Len(client'.buffer)
        /\ client'.pc = client.pc /\ client'.stop = client.stop
        /\ TextLen' = TextLen
        /\ \A i \in 1 .. TextLen : Stream'[i] = Stream[i]
    BY <1>1, <2>1, Chunked
  <2>3. UNCHANGED <<format, handler, sent, beats, got>>
    BY <1>10 DEF Chunk
  <2>4. Framed(toks)'
    BY <1>1, <1>2, <1>3, <2>2, <2>3, SameText
  <2>5. Fitting(toks)'
    BY <1>2, <2>2, <2>3 DEF Fitting
  <2>6. TextSound'
    BY <1>1, <2>2, <2>3 DEF TextSound, FramesType
  <2> QED BY <2>2, <2>3, <2>4, <2>5, <2>6 DEF FramesInv
<1>11. CASE Frame
  <2>1. PICK cut \in Boundaries :
            /\ \A j \in Boundaries : cut <= j
            /\ parsed(SubSeq(client.buffer, client.start + 1, cut), cut + Len(Delimiter))
    BY <1>11 DEF Frame
  <2> DEFINE raw == SubSeq(client.buffer, client.start + 1, cut)
             then == cut + Len(Delimiter)
  <2>2. /\ toks # <<>> /\ 1 \in DOMAIN toks /\ toks[1] \in 1 .. Comment
        /\ Wide(1) <= Left /\ then = client.start + Wide(1)
        /\ Text(raw) = {toks[1]} \ {Newline, Comment}
    BY <1>1, <1>2, <1>3, <2>1, FirstFrame
  <2>3. parsed(raw, then) /\ UNCHANGED <<format, handler, sent, beats, pipe>> /\ client.pc = "reading"
    BY <1>11, <2>1 DEF Frame
  <2>4. then \in Nat
    BY <1>1, <2>2, TextTypes DEF Wide
  <2> HIDE DEF raw, then
  <2>5. /\ toks[1] # Newline /\ Comment # ErrorText /\ MaxFrames \in Nat
        /\ toks[1] \in 1 .. MaxFrames \/ toks[1] = ErrorText \/ toks[1] = Comment
        /\ ErrorText = MaxFrames + 1 /\ Comment = MaxFrames + 2
    BY <2>2, Tokens
  <2>6. /\ client' \in Client /\ client'.buffer = client.buffer /\ client'.start = then
        /\ client'.pc = "threw" <=> toks[1] = ErrorText
        /\ ~ (client'.pc = "done" /\ client'.stop = "no")
        /\ got' = IF toks[1] \in 1 .. MaxFrames THEN Append(got, toks[1]) ELSE got
    <3>1. CASE toks[1] = Comment
      <4>1. Text(raw) = {} /\ toks[1] \notin 1 .. MaxFrames
        BY <2>2, <2>5, <3>1
      <4>2. client' = [client EXCEPT !.start = then] /\ got' = got
        BY <2>3, <4>1 DEF parsed
      <4> QED BY <1>1, <2>3, <2>4, <2>5, <3>1, <4>1, <4>2 DEF Client
    <3>2. CASE toks[1] = ErrorText
      <4>1. Text(raw) = {ErrorText} /\ toks[1] \notin 1 .. MaxFrames
        BY <2>2, <2>5, <3>2
      <4>2. client' = [[client EXCEPT !.start = then] EXCEPT !.pc = "threw", !.body = "cancelled"] /\ got' = got
        BY <2>3, <4>1 DEF parsed
      <4> QED BY <1>1, <2>3, <2>4, <2>5, <3>2, <4>1, <4>2 DEF Client
    <3>3. CASE toks[1] \in 1 .. MaxFrames
      <4>1. Text(raw) = {toks[1]} /\ Text(raw) # {} /\ ErrorText \notin Text(raw) /\ toks[1] # ErrorText
        BY <2>2, <2>5, <3>3
      <4> DEFINE c == [client EXCEPT !.start = then]
      <4>2. /\ got' = Append(got, CHOOSE v \in Text(raw) : TRUE)
            /\ client' = IF client.stop = "no" THEN [c EXCEPT !.pc = "open"]
                         ELSE [c EXCEPT !.pc = "done", !.body = "cancelled"]
        BY <2>3, <4>1 DEF parsed
      <4>3. (CHOOSE v \in Text(raw) : TRUE) = toks[1]
        BY <4>1
      <4>4. got' = Append(got, toks[1])
        BY <4>2, <4>3
      <4> QED BY <1>1, <2>3, <2>4, <3>3, <4>1, <4>2, <4>4 DEF Client
    <3> QED BY <2>5, <3>1, <3>2, <3>3
  <2>7. Framed(Tail(toks))' /\ client'.start <= Len(client'.buffer)
    BY <1>1, <1>2, <1>3, <2>2, <2>3, <2>6, Parsed
  <2>8. /\ toks[1] \in 1 .. MaxFrames => toks[1] = Len(got) + 1 /\ toks[1] <= sent
        /\ toks[1] = ErrorText => handler = "threw" /\ Len(got) = sent
    <3>1. /\ toks[1] <= MaxFrames => toks[1] = Len(got) + 1 /\ toks[1] <= sent
          /\ toks[1] = ErrorText => handler = "threw" /\ Len(got) = sent
      BY <1>1, <1>2, <2>2, FitsAfter
    <3>2. toks[1] \in 1 .. MaxFrames => toks[1] <= MaxFrames
      OBVIOUS
    <3> QED BY <3>1, <3>2
  <2>9. /\ got' \in Seq(0 .. Comment) /\ DOMAIN got' = 1 .. Len(got') /\ Len(got') \in Nat
        /\ Len(got') = IF toks[1] <= MaxFrames THEN Len(got) + 1 ELSE Len(got)
        /\ \A i \in DOMAIN got' : got'[i] = i
    <3>1. CASE toks[1] \in 1 .. MaxFrames
      <4>1. toks[1] \in 0 .. Comment
        BY <2>2, Tokens
      <4>2. /\ got' = Append(got, toks[1]) /\ got' \in Seq(0 .. Comment) /\ Len(got') = Len(got) + 1
            /\ \A i \in 1 .. Len(got) : got'[i] = got[i]
            /\ got'[Len(got) + 1] = toks[1]
        BY <1>1, <2>6, <3>1, <4>1, AppendProperties
      <4>3. DOMAIN got' = 1 .. Len(got) + 1
        BY <4>2, LenProperties
      <4>4. \A i \in 1 .. Len(got) + 1 : got'[i] = i
        <5>1. \A i \in 1 .. Len(got) : got[i] = i
          BY <1>1 DEF FramesInv
        <5>2. toks[1] = Len(got) + 1
          BY <2>8, <3>1
        <5> QED BY <1>14, <4>2, <5>1, <5>2
      <4> QED BY <1>1, <3>1, <4>2, <4>3, <4>4
    <3>2. CASE toks[1] \notin 1 .. MaxFrames
      <4>1. ~ (toks[1] <= MaxFrames) /\ got' = got
        BY <2>5, <2>6, <3>2
      <4> QED BY <1>1, <4>1 DEF FramesInv
    <3> QED BY <3>1, <3>2
  <2>10. Fitting(Tail(toks))'
    BY <1>1, <1>2, <2>2, <2>3, <2>6, <2>9, FitsAfter
  <2>11. TextSound'
    BY <1>1, <2>3, <2>6, <2>7, <2>9 DEF TextSound, FramesType
  <2>12. Len(got') <= sent'
    <3>1. toks[1] <= MaxFrames => toks[1] \in 1 .. MaxFrames
      BY <2>2, <2>5
    <3>2. toks[1] <= MaxFrames => Len(got) + 1 <= sent
      BY <2>8, <3>1
    <3> QED BY <1>14, <2>3, <2>9, <3>2
  <2>13. client'.pc = "threw" => handler' = "threw" /\ Len(got') = sent'
    BY <2>3, <2>5, <2>6, <2>8, <2>9
  <2> QED BY <2>6, <2>7, <2>9, <2>10, <2>11, <2>12, <2>13 DEF FramesInv
<1>12. CASE Eof
  <2>1. Boundaries = {} /\ pipe = <<>> /\ handler \in {"ended", "threw"} /\ client.pc = "reading"
        /\ UNCHANGED <<format, handler, sent, beats, pipe>>
    BY <1>12 DEF Eof
  <2>2. TextLen = Left /\ Left \in Nat /\ Len(toks) \in Nat /\ DOMAIN toks = 1 .. Len(toks)
    <3>1. Len(pipe) = 0 /\ Left \in Nat
      BY <1>1, <2>1, TextTypes
    <3> QED BY <1>3, <3>1, LenProperties DEF TextLen
  <2>3. Left = 0 /\ Len(toks) = 0
    <3>1. TextLen = Wide(Len(toks))
      BY <1>2 DEF Framed
    <3>2. Len(toks) > 0 => Wide(1) <= Left /\ Left > 0
      BY <2>2, <3>1 DEF Wide
    <3>3. ~ (Left > 0 /\ Wide(1) <= Left)
      BY <1>1, <1>2, <1>3, <2>1, HeadOfText
    <3>4. Len(toks) = 0
      BY <2>2, <3>2, <3>3
    <3> QED BY <2>2, <3>1, <3>4 DEF Wide
  <2>4. Unread = <<>>
    <3>1. client.start \in Nat /\ Len(client.buffer) \in Nat /\ Len(client.buffer) - client.start = 0
      BY <1>1, <2>3, TextTypes DEF Left
    <3>2. client.start + 1 \in Int /\ Len(client.buffer) \in Int /\ Len(client.buffer) < client.start + 1
      BY <3>1
    <3> QED BY <3>2, SubSeqEmpty DEF Unread
  <2>5. client' = [client EXCEPT !.pc = "done", !.body = "drained"] /\ got' = got
    BY <1>12, <2>4 DEF Eof
  <2>6. handler = "ended"
    BY <1>2, <2>1, <2>3 DEF Fitting
  <2>7. Len(got) = sent
    <3>1. \A v \in Nat : ~ (Len(got) < v /\ v <= sent)
      BY <1>2, <2>2, <2>3 DEF Fitting
    <3> QED BY <1>14, <3>1
  <2>8. client' \in Client /\ client'.buffer = client.buffer /\ client'.start = client.start /\ client'.pc = "done"
    BY <1>1, <2>5 DEF Client
  <2>9. Stream' = Stream /\ TextLen' = TextLen
    BY <2>1, <2>8 DEF Stream, TextLen, Left
  <2>10. Framed(toks)'
    BY <1>1, <1>2, <1>3, <2>1, <2>9, SameText
  <2>11. Fitting(toks)'
    BY <1>2, <2>1, <2>5, <2>6 DEF Fitting
  <2>12. TextSound'
    BY <1>1, <2>1, <2>5, <2>8 DEF TextSound, FramesType
  <2> QED BY <1>1, <2>1, <2>5, <2>6, <2>7, <2>8, <2>10, <2>11, <2>12 DEF FramesInv
<1>13. CASE UNCHANGED fvars
  <2>1. UNCHANGED <<format, sent, beats, pipe, got, handler, client>>
    BY <1>13 DEF fvars
  <2> QED BY <1>1, <2>1, TextRests DEF FramesInv
<1> QED BY <1>5, <1>6, <1>7, <1>8, <1>9, <1>10, <1>11, <1>12, <1>13 DEF FramesNext

-----------------------------------------------------------------------------
(* A stream's consumer gets the handler's values, each once and in order,  *)
(* however the text is cut and compacted, and a clean end means all of     *)
(* them; a mailbox at its cap lets the oldest go, never the newest, and    *)
(* never turns two around: whatever the format, the number of frames and   *)
(* beats, the cap and the pushes.                                          *)
THEOREM WhatWasSentIsDelivered == Spec => []DeliveryExact
<1>1. Init => FramesInv /\ MailInv
  BY FramesInitially, MailInitially DEF Init
<1>2. FramesInv /\ MailInv /\ [Next]_streamVars => FramesInv' /\ MailInv'
  <2> SUFFICES ASSUME FramesInv, MailInv, [Next]_streamVars
               PROVE  FramesInv' /\ MailInv'
    OBVIOUS
  <2>1. [FramesNext]_fvars /\ [MailNext]_mvars
    BY DEF Next, streamVars
  <2> QED BY <2>1, FramesStep, MailStep
<1>3. FramesInv /\ MailInv => DeliveryExact
  BY FramesDeliver, MailWins DEF DeliveryExact
<1> QED BY <1>1, <1>2, <1>3, PTL DEF Spec

-----------------------------------------------------------------------------
(* A streamed page. A key is barred when its answer can not ship any more; *)
(* it never becomes shippable again. Until the stash is taken no pending   *)
(* body was read, and then only the drain reads it. What a tab that is in  *)
(* step still waits for is in the drain or on its wire, and the stash of a *)
(* tab in time is there to be taken: the pages stashed behind it are no    *)
(* more than `newer`.                                                      *)
Barred(k) == k \notin server.owned \/ server.call[k] \in {"binary", "rejected", "broken"}

InTime == ~hist.excused /\ ~hist.expired /\ hist.newer < MaxStashes

OnWire(k) == \E i \in DOMAIN drain.wire : drain.wire[i].key = k

StashInv ==
    /\ \A i, j \in DOMAIN stash : stash[i] = Ours /\ stash[j] = Ours => i = j
    /\ \A i \in DOMAIN stash : stash[i] = Ours => Len(stash) - i <= hist.newer
    /\ Len(stash) <= MaxStashes
    /\ hist.newer <= others
    /\ Ours \in Stashed => /\ server.pc = "sent" /\ drain.inflight = {}
                           /\ \A k \in server.pending : hist.bodies[k] = 0
    /\ InTime /\ server.pc = "sent" /\ server.pending # {} /\ tab.pc \in {"none", "asking"} =>
           Ours \in Stashed

DrainInv ==
    /\ drain.pc # "open" => drain.inflight = {}
    /\ \A k \in drain.inflight : hist.bodies[k] = 0
    /\ \A k \in Keys : hist.bodies[k] <= 1
    /\ \A i \in DOMAIN drain.wire : drain.wire[i].miss => Barred(drain.wire[i].key)

TabInv ==
    /\ tab.pc # "none" => server.pc = "sent"
    /\ tab.pc = "asking" => server.pending # {}
    /\ waiting \subseteq server.pending
    /\ ~hist.excused /\ tab.pc = "open" => \A k \in waiting : k \in drain.inflight \/ OnWire(k)
    /\ InTime => \A k \in hist.again : Barred(k)

PageInv ==
    /\ ResolveType /\ StashInv /\ DrainInv /\ TabInv
    /\ server.pc = "sent" => /\ \A k \in Keys : k \in server.inline \cup server.pending \/ Barred(k)
                             /\ server.inline \cap server.pending = {}
    /\ server.pc # "sent" => /\ drain.inflight = {} /\ drain.wire = <<>> /\ waiting = {}
                             /\ hist.again = {} /\ \A k \in Keys : hist.bodies[k] = 0

LEMMA SeqWithout ==
    ASSUME NEW S, NEW q \in Seq(S), NEW i \in DOMAIN q
    PROVE  /\ RemoveAt(q, i) \in Seq(S) /\ Len(RemoveAt(q, i)) = Len(q) - 1
           /\ \A j \in 1 .. Len(q) - 1 : RemoveAt(q, i)[j] = IF j < i THEN q[j] ELSE q[j + 1]
<1> DEFINE n == Len(q)
           before == SubSeq(q, 1, i - 1)
           after == SubSeq(q, i + 1, n)
<1>1. n \in Nat /\ DOMAIN q = 1 .. n /\ i \in 1 .. n
  BY LenProperties
<1>2. \A j \in 1 .. n : q[j] \in S
  BY <1>1, ElementOfSeq
<1>3. \A x, y \in Int : (\A j \in x .. y : q[j] \in S) =>
          /\ SubSeq(q, x, y) \in Seq(S)
          /\ Len(SubSeq(q, x, y)) = IF x <= y THEN y - x + 1 ELSE 0
          /\ \A j \in 1 .. y - x + 1 : SubSeq(q, x, y)[j] = q[x + j - 1]
  BY SubSeqProperties
<1>4. /\ before \in Seq(S) /\ Len(before) = i - 1
      /\ \A j \in 1 .. i - 1 : before[j] = q[j]
  <2>1. 1 \in Int /\ i - 1 \in Int /\ i - 1 - 1 + 1 = i - 1 /\ \A j \in 1 .. i - 1 : q[j] \in S
    BY <1>1, <1>2
  <2>2. /\ before \in Seq(S)
        /\ Len(before) = IF 1 <= i - 1 THEN i - 1 - 1 + 1 ELSE 0
        /\ \A j \in 1 .. i - 1 - 1 + 1 : before[j] = q[1 + j - 1]
    BY <1>3, <2>1
  <2> HIDE DEF before
  <2> QED BY <1>1, <2>1, <2>2
<1>5. /\ after \in Seq(S) /\ Len(after) = n - i
      /\ \A j \in 1 .. n - i : after[j] = q[i + j]
  <2>1. i + 1 \in Int /\ n \in Int /\ n - (i + 1) + 1 = n - i /\ \A j \in i + 1 .. n : q[j] \in S
    BY <1>1, <1>2
  <2>2. /\ after \in Seq(S)
        /\ Len(after) = IF i + 1 <= n THEN n - (i + 1) + 1 ELSE 0
        /\ \A j \in 1 .. n - (i + 1) + 1 : after[j] = q[i + 1 + j - 1]
    BY <1>3, <2>1
  <2> HIDE DEF after
  <2>3. Len(after) = n - i
    BY <1>1, <2>1, <2>2
  <2>4. \A j \in 1 .. n - i : after[j] = q[i + j]
    <3> SUFFICES ASSUME NEW j \in 1 .. n - i
                 PROVE  after[j] = q[i + j]
      OBVIOUS
    <3>1. i + 1 + j - 1 = i + j /\ j \in 1 .. n - (i + 1) + 1
      BY <1>1, <2>1
    <3> QED BY <2>2, <3>1
  <2> QED BY <2>2, <2>3, <2>4
<1> HIDE DEF before, after, n
<1>6. /\ before \o after \in Seq(S) /\ Len(before \o after) = (i - 1) + (n - i)
      /\ \A j \in 1 .. (i - 1) + (n - i) :
             (before \o after)[j] = IF j <= i - 1 THEN before[j] ELSE after[j - (i - 1)]
  <2>1. /\ before \o after \in Seq(S) /\ Len(before \o after) = Len(before) + Len(after)
        /\ \A j \in 1 .. Len(before) + Len(after) :
               (before \o after)[j] = IF j <= Len(before) THEN before[j] ELSE after[j - Len(before)]
    BY <1>4, <1>5, ConcatProperties
  <2> QED BY <1>4, <1>5, <2>1
<1>7. \A j \in 1 .. n - 1 : (before \o after)[j] = IF j < i THEN q[j] ELSE q[j + 1]
  <2> SUFFICES ASSUME NEW j \in 1 .. n - 1
               PROVE  (before \o after)[j] = IF j < i THEN q[j] ELSE q[j + 1]
    OBVIOUS
  <2>1. (before \o after)[j] = IF j <= i - 1 THEN before[j] ELSE after[j - (i - 1)]
    BY <1>1, <1>6
  <2>2. CASE j < i
    BY <1>1, <1>4, <2>1, <2>2
  <2>3. CASE ~ (j < i)
    <3>1. j - (i - 1) \in 1 .. n - i /\ i + (j - (i - 1)) = j + 1 /\ ~ (j <= i - 1)
      BY <1>1, <2>3
    <3> QED BY <1>5, <2>1, <2>3, <3>1
  <2> QED BY <2>2, <2>3
<1>8. RemoveAt(q, i) = before \o after /\ (i - 1) + (n - i) = n - 1
  BY <1>1 DEF RemoveAt, before, after, n
<1> QED BY <1>6, <1>7, <1>8 DEF n

LEMMA PageInitially == ResolveInit => PageInv
<1> SUFFICES ASSUME ResolveInit
             PROVE  PageInv
  OBVIOUS
<1>1. ResolveType
  <2>1. 0 \in 0 .. MaxOthers /\ <<>> \in Seq({Ours, Theirs}) /\ <<>> \in Seq(Line)
    BY EmptySeq, ResolveAssumption
  <2>2. others \in 0 .. MaxOthers /\ stash \in Seq({Ours, Theirs})
    BY <2>1 DEF ResolveInit
  <2>3. server \in Server /\ tab \in Tab
    BY DEF ResolveInit, Server, Tab
  <2>4. drain \in Drain
    BY <2>1 DEF ResolveInit, Drain
  <2>5. hist \in Hist
    BY <2>1 DEF ResolveInit, Hist
  <2> QED BY <2>2, <2>3, <2>4, <2>5 DEF ResolveType
<1>2. /\ stash = <<>> /\ others = 0 /\ server.pc = "idle" /\ drain.pc = "none"
      /\ drain.inflight = {} /\ drain.wire = <<>> /\ tab.pc = "none"
      /\ hist.again = {} /\ hist.newer = 0 /\ \A k \in Keys : hist.bodies[k] = 0 /\ tab.slot[k] = "unread"
  BY DEF ResolveInit
<1>3. Len(<<>>) = 0 /\ DOMAIN <<>> = {} /\ 0 <= MaxStashes
  BY EmptySeq, ResolveAssumption
<1>4. waiting = {} /\ Ours \notin Stashed
  BY <1>2, <1>3 DEF waiting, Stashed
<1>5. StashInv
  BY <1>2, <1>3, <1>4 DEF StashInv
<1>6. DrainInv /\ TabInv
  BY <1>2, <1>3, <1>4 DEF DrainInv, TabInv
<1> QED BY <1>1, <1>2, <1>4, <1>5, <1>6 DEF PageInv

LEMMA PageOnce == PageInv => ResolvesOnce
<1> SUFFICES ASSUME PageInv
             PROVE  ResolvesOnce
  OBVIOUS
<1>1. hist.again \subseteq Keys
  BY DEF PageInv, ResolveType, Hist
<1>2. \A k \in Keys : Barred(k) => ~ Shippable(k)
  BY DEF Barred, Shippable
<1> QED BY <1>1, <1>2 DEF PageInv, TabInv, DrainInv, InTime, ResolvesOnce, RunOnce, BodyReadOnce

(* The render goes on, or a handler answers or invalidates: a key that is  *)
(* barred stays so.                                                        *)
LEMMA ServerMoves ==
    ASSUME PageInv, server' \in Server, UNCHANGED <<stash, others, drain, tab, hist>>,
           server.pc = "sent" <=> server'.pc = "sent",
           server.pc = "sent" => /\ server'.inline = server.inline /\ server'.pending = server.pending
                                 /\ \A k \in Keys : Barred(k) => Barred(k)',
           server.pc # "sent" => server'.pending = server.pending
    PROVE  PageInv'
<1>1. ResolveType'
  BY DEF PageInv, ResolveType
<1>2. waiting' = waiting /\ Stashed' = Stashed /\ (InTime' <=> InTime) /\ (\A k : OnWire(k)' <=> OnWire(k))
  BY DEF waiting, Stashed, InTime, OnWire
<1>3. StashInv'
  BY <1>2 DEF PageInv, StashInv
<1>4. hist.again \subseteq Keys /\ \A i \in DOMAIN drain.wire : drain.wire[i].key \in Keys
  <2>1. drain.wire \in Seq(Line) /\ hist.again \subseteq Keys
    BY DEF PageInv, ResolveType, Drain, Hist
  <2>2. \A i \in DOMAIN drain.wire : drain.wire[i] \in Line
    BY <2>1, LenProperties, ElementOfSeq
  <2> QED BY <2>1, <2>2 DEF Line
<1>5. DrainInv'
  <2>1. CASE server.pc = "sent"
    BY <1>4, <2>1 DEF PageInv, DrainInv
  <2>2. CASE server.pc # "sent"
    <3>1. DOMAIN drain.wire = {}
      BY <2>2, EmptySeq DEF PageInv
    <3> QED BY <3>1 DEF PageInv, DrainInv
  <2> QED BY <2>1, <2>2
<1>6. TabInv'
  <2>1. CASE server.pc = "sent"
    BY <1>2, <1>4, <2>1 DEF PageInv, TabInv
  <2>2. CASE server.pc # "sent"
    BY <1>2, <2>2 DEF PageInv, TabInv
  <2> QED BY <2>1, <2>2
<1> QED BY <1>1, <1>2, <1>3, <1>5, <1>6 DEF PageInv

LEMMA StashTaken ==
    ASSUME PageInv, NEW t \in {Ours, Theirs}, takePendingStream(t)
    PROVE  /\ stash' \in Seq({Ours, Theirs}) /\ Len(stash') <= MaxStashes
           /\ \A i, j \in DOMAIN stash' : stash'[i] = Ours /\ stash'[j] = Ours => i = j
           /\ \A i \in DOMAIN stash' : stash'[i] = Ours => Len(stash') - i <= hist.newer
           /\ Ours \in Stashed' => Ours \in Stashed
           /\ t = Ours => Ours \in Stashed /\ Ours \notin Stashed'
           /\ t = Theirs /\ Ours \in Stashed => Ours \in Stashed'
<1>1. PICK x \in DOMAIN stash : stash[x] = t /\ stash' = RemoveAt(stash, x)
  BY DEF takePendingStream
<1> DEFINE n == Len(stash)
           newer == hist.newer
<1>2. /\ stash \in Seq({Ours, Theirs}) /\ n \in Nat /\ DOMAIN stash = 1 .. n /\ Ours # Theirs
      /\ n <= MaxStashes /\ newer \in Nat /\ MaxStashes \in Nat
  BY LenProperties, ResolveAssumption DEF PageInv, ResolveType, StashInv, Ours, Theirs, Hist
<1>3. /\ stash' \in Seq({Ours, Theirs}) /\ Len(stash') = n - 1
      /\ \A j \in 1 .. n - 1 : stash'[j] = IF j < x THEN stash[j] ELSE stash[j + 1]
  BY <1>1, <1>2, SeqWithout
<1>4. DOMAIN stash' = 1 .. n - 1
  BY <1>3, LenProperties
<1>5. /\ \A i, j \in 1 .. n : stash[i] = Ours /\ stash[j] = Ours => i = j
      /\ \A i \in 1 .. n : stash[i] = Ours => n - i <= newer
  BY <1>2 DEF PageInv, StashInv
<1> HIDE DEF n, newer
<1> DEFINE from(j) == IF j < x THEN j ELSE j + 1
<1>6. \A j \in 1 .. n - 1 : /\ from(j) \in 1 .. n /\ stash'[j] = stash[from(j)]
                            /\ n - 1 - j <= n - from(j) /\ from(j) # x
  BY <1>1, <1>2, <1>3
<1>7. \A i, j \in 1 .. n - 1 : from(i) = from(j) => i = j
  BY <1>1, <1>2
<1> HIDE DEF from
<1>8. \A i, j \in 1 .. n - 1 : stash'[i] = Ours /\ stash'[j] = Ours => i = j
  BY <1>5, <1>6, <1>7
<1>9. \A i \in 1 .. n - 1 : stash'[i] = Ours => n - 1 - i <= newer
  <2> SUFFICES ASSUME NEW i \in 1 .. n - 1, stash'[i] = Ours
               PROVE  n - 1 - i <= newer
    OBVIOUS
  <2>1. from(i) \in 1 .. n /\ n - from(i) <= newer /\ n - 1 - i <= n - from(i)
    BY <1>5, <1>6
  <2> QED BY <1>2, <2>1
<1>10. Ours \in Stashed <=> \E j \in 1 .. n : stash[j] = Ours
  BY <1>2 DEF Stashed
<1>11. Ours \in Stashed' <=> \E j \in 1 .. n - 1 : stash'[j] = Ours
  BY <1>4 DEF Stashed
<1>12. Ours \in Stashed' => Ours \in Stashed
  BY <1>6, <1>10, <1>11
<1>13. t = Ours => Ours \in Stashed /\ Ours \notin Stashed'
  BY <1>1, <1>2, <1>5, <1>6, <1>10, <1>11
<1>14. ASSUME t = Theirs, Ours \in Stashed
       PROVE  Ours \in Stashed'
  <2>1. PICK j \in 1 .. n : stash[j] = Ours
    BY <1>10, <1>14
  <2>2. j # x
    BY <1>1, <1>2, <1>14, <2>1
  <2>3. CASE j < x
    <3>1. j \in 1 .. n - 1 /\ from(j) = j
      BY <1>1, <1>2, <2>3 DEF from
    <3> QED BY <1>6, <1>11, <2>1, <3>1
  <2>4. CASE j > x
    <3>1. j - 1 \in 1 .. n - 1 /\ from(j - 1) = j
      BY <1>1, <1>2, <2>4 DEF from
    <3> QED BY <1>6, <1>11, <2>1, <3>1
  <2> QED BY <1>1, <1>2, <2>2, <2>3, <2>4
<1>15. Len(stash') <= MaxStashes
  BY <1>2, <1>3
<1> QED BY <1>3, <1>4, <1>8, <1>9, <1>12, <1>13, <1>14, <1>15 DEF newer

LEMMA StashPushed ==
    ASSUME PageInv, NEW t \in {Ours, Theirs}, stash' = stashPendingStream(t)
    PROVE  /\ stash' \in Seq({Ours, Theirs}) /\ Len(stash') <= MaxStashes
           /\ Len(stash') \in Nat \ {0} /\ stash'[Len(stash')] = t
           /\ \E d \in {0, 1} : /\ Len(stash') = Len(stash) + 1 - d
                                /\ \A j \in 1 .. Len(stash') - 1 : stash'[j] = stash[j + d]
                                /\ d = 1 => Len(stash) >= MaxStashes
<1> DEFINE n == Len(stash)
<1>2. /\ stash \in Seq({Ours, Theirs}) /\ n \in Nat /\ n <= MaxStashes /\ MaxStashes \in Nat \ {0}
  BY LenProperties, ResolveAssumption DEF PageInv, ResolveType, StashInv
<1>3. CASE Full
  <2>1. n >= MaxStashes /\ n = MaxStashes /\ stash # <<>> /\ n > 0
    BY <1>2, <1>3, EmptySeq DEF Full
  <2> DEFINE rest == Tail(stash)
  <2>2. /\ rest \in Seq({Ours, Theirs}) /\ Len(rest) = n - 1
        /\ \A j \in 1 .. n - 1 : rest[j] = stash[j + 1]
    BY <1>2, <2>1, HeadTailProperties
  <2> HIDE DEF rest
  <2>3. stash' = Append(rest, t)
    BY <1>3 DEF stashPendingStream, rest
  <2>4. /\ stash' \in Seq({Ours, Theirs}) /\ Len(stash') = Len(rest) + 1
        /\ \A j \in 1 .. Len(rest) : stash'[j] = rest[j]
        /\ stash'[Len(rest) + 1] = t
    BY <2>2, <2>3, AppendProperties
  <2>5. Len(stash') = n /\ stash'[n] = t /\ \A j \in 1 .. n - 1 : stash'[j] = stash[j + 1]
    BY <1>2, <2>2, <2>4
  <2> HIDE DEF n
  <2>6. n = n + 1 - 1
    BY <1>2
  <2> QED BY <1>2, <2>1, <2>4, <2>5, <2>6 DEF n
<1>4. CASE ~ Full
  <2>1. n + 1 <= MaxStashes
    BY <1>2, <1>4 DEF Full
  <2>2. stash' = Append(stash, t)
    BY <1>4 DEF stashPendingStream
  <2>3. /\ stash' \in Seq({Ours, Theirs}) /\ Len(stash') = n + 1
        /\ \A j \in 1 .. n : stash'[j] = stash[j]
        /\ stash'[n + 1] = t
    BY <1>2, <2>2, AppendProperties
  <2> HIDE DEF n
  <2>4. n + 1 = n + 1 - 0 /\ n + 1 - 1 = n /\ \A j \in 1 .. n : j + 0 = j
    BY <1>2
  <2>5. \A j \in 1 .. Len(stash') - 1 : stash'[j] = stash[j + 0]
    BY <1>2, <2>3, <2>4
  <2> QED BY <1>2, <2>1, <2>3, <2>4, <2>5 DEF n
<1> QED BY <1>3, <1>4

LEMMA PageTypes ==
    ASSUME PageInv
    PROVE  /\ server \in Server /\ drain \in Drain /\ tab \in Tab /\ hist \in Hist
           /\ stash \in Seq({Ours, Theirs}) /\ others \in 0 .. MaxOthers /\ Ours # Theirs
           /\ hist.newer \in Nat /\ hist.newer <= others /\ others \in Nat
           /\ drain.wire \in Seq(Line) /\ Len(drain.wire) \in Nat
           /\ DOMAIN drain.wire = 1 .. Len(drain.wire)
           /\ \A i \in DOMAIN drain.wire : drain.wire[i] \in Line /\ drain.wire[i].key \in Keys
           /\ hist.again \subseteq Keys /\ waiting \subseteq Keys
           /\ MaxStashes \in Nat \ {0} /\ MaxOthers \in Nat
<1>1. /\ server \in Server /\ drain \in Drain /\ tab \in Tab /\ hist \in Hist
      /\ stash \in Seq({Ours, Theirs}) /\ others \in 0 .. MaxOthers /\ Ours # Theirs
      /\ hist.newer <= others /\ MaxStashes \in Nat \ {0} /\ MaxOthers \in Nat
  BY ResolveAssumption DEF PageInv, StashInv, ResolveType, Ours, Theirs
<1>2. /\ hist.newer \in Nat /\ others \in Nat /\ drain.wire \in Seq(Line)
      /\ hist.again \subseteq Keys
  BY <1>1 DEF Hist, Drain
<1>3. /\ Len(drain.wire) \in Nat /\ DOMAIN drain.wire = 1 .. Len(drain.wire)
      /\ \A i \in DOMAIN drain.wire : drain.wire[i] \in Line
  BY <1>2, LenProperties, ElementOfSeq
<1>4. \A i \in DOMAIN drain.wire : drain.wire[i].key \in Keys
  BY <1>3 DEF Line
<1>5. waiting \subseteq Keys
  BY DEF waiting
<1> QED BY <1>1, <1>2, <1>3, <1>4, <1>5

LEMMA RenderStep ==
    ASSUME PageInv, Begin \/ RenderFails \/ RenderReturns \/ (\E k \in Keys : Settle(k) \/ Invalidate(k))
    PROVE  PageInv'
<1>1. CASE Begin
  <2>1. /\ server' \in Server /\ server'.pc = "rendering" /\ server.pc = "idle"
        /\ server'.pending = server.pending
    <3>0. PICK K \in SUBSET Keys : \E A \in SUBSET K :
              server' = [server EXCEPT !.pc = "rendering", !.owned = K, !.awaited = A,
                             !.call = [k \in Keys |-> IF k \in K THEN "running" ELSE "unread"]]
      BY <1>1 DEF Begin
    <3>1. PICK A \in SUBSET K :
              server' = [server EXCEPT !.pc = "rendering", !.owned = K, !.awaited = A,
                             !.call = [k \in Keys |-> IF k \in K THEN "running" ELSE "unread"]]
      BY <3>0
    <3> DEFINE call == [k \in Keys |-> IF k \in K THEN "running" ELSE "unread"]
    <3>2. call \in [Keys -> {"unread", "running"} \cup Settlement] /\ A \in SUBSET Keys /\ server \in Server
      BY PageTypes
    <3>3. server' = [server EXCEPT !.pc = "rendering", !.owned = K, !.awaited = A, !.call = call]
      BY <3>1
    <3> HIDE DEF call
    <3>4. server.pc = "idle"
      BY <1>1 DEF Begin
    <3> QED BY <3>2, <3>3, <3>4 DEF Server
  <2> QED BY <1>1, <2>1, ServerMoves DEF Begin
<1>2. CASE RenderFails
  <2>1. /\ server' \in Server /\ server'.pc = "failed" /\ server.pc = "rendering"
        /\ server'.pending = server.pending
    BY <1>2, PageTypes DEF RenderFails, Server
  <2> QED BY <1>2, <2>1, ServerMoves DEF RenderFails
<1>3. ASSUME NEW k \in Keys, Settle(k)
      PROVE  PageInv'
  <2>1. PICK how \in Settlement : server' = [server EXCEPT !.call[k] = how,
                          !.owned = IF how = "rejected" THEN @ \ {k} ELSE @]
    BY <1>3 DEF Settle
  <2>2. server.call[k] = "running"
    BY <1>3 DEF Settle
  <2>3. server \in Server
    BY PageTypes
  <2>4. /\ server' \in Server /\ server'.pc = server.pc /\ server'.inline = server.inline
        /\ server'.pending = server.pending /\ server'.owned \subseteq server.owned
        /\ \A x \in Keys : x # k => server'.call[x] = server.call[x]
    BY <2>1, <2>3 DEF Server, Settlement
  <2>5. \A x \in Keys : Barred(x) => Barred(x)'
    BY <2>2, <2>4 DEF Barred
  <2> QED BY <1>3, <2>4, <2>5, ServerMoves DEF Settle
<1>4. ASSUME NEW k \in Keys, Invalidate(k)
      PROVE  PageInv'
  <2>1. /\ server' \in Server /\ server'.pc = server.pc /\ server'.inline = server.inline
        /\ server'.pending = server.pending /\ server'.owned \subseteq server.owned
        /\ server'.call = server.call
    BY <1>4, PageTypes DEF Invalidate, Server
  <2>2. \A x \in Keys : Barred(x) => Barred(x)'
    BY <2>1 DEF Barred
  <2> QED BY <1>4, <2>1, <2>2, ServerMoves DEF Invalidate
<1>5. CASE RenderReturns
  <2>1. /\ server.pc = "rendering" /\ server' = [server EXCEPT !.pc = "sent", !.inline = Inline, !.pending = Pending]
        /\ stash' = IF Pending = {} THEN stash ELSE stashPendingStream(Ours)
        /\ hist' = [hist EXCEPT !.bodies = [k \in Keys |-> IF k \in Inline THEN 1 ELSE 0]]
        /\ UNCHANGED <<others, drain, tab>>
    BY <1>5 DEF RenderReturns
  <2>2. server \in Server /\ hist \in Hist
    BY PageTypes
  <2>3. Inline \in SUBSET Keys /\ Pending \in SUBSET Keys /\ Inline \cap Pending = {}
    BY <2>2 DEF Inline, Pending, Settled, Settlement, Server
  <2>4. /\ server' \in Server /\ server'.pc = "sent" /\ server'.inline = Inline /\ server'.pending = Pending
        /\ server'.owned = server.owned /\ server'.call = server.call
    BY <2>1, <2>2, <2>3 DEF Server
  <2>5. /\ hist' \in Hist /\ hist'.again = hist.again /\ hist'.newer = hist.newer
        /\ hist'.excused = hist.excused /\ hist'.expired = hist.expired
        /\ \A k \in Keys : hist'.bodies[k] = IF k \in Inline THEN 1 ELSE 0
    BY <2>1, <2>2 DEF Hist
  <2>6. /\ drain.inflight = {} /\ DOMAIN drain.wire = {} /\ waiting = {} /\ hist.again = {} /\ tab.pc = "none"
        /\ Ours \notin Stashed
    <3>1. server.pc # "sent"
      BY <2>1
    <3>2. drain.wire = <<>>
      BY <3>1 DEF PageInv
    <3>3. DOMAIN drain.wire = {}
      BY <3>2, EmptySeq
    <3> QED BY <3>1, <3>3 DEF PageInv, StashInv, TabInv
  <2>7. waiting' = waiting
    BY <2>1 DEF waiting
  <2>8. \A k \in Keys : k \in Inline \cup Pending \/ Barred(k)'
    BY <2>2, <2>4 DEF Inline, Pending, Settled, Settlement, Barred, Server
  <2>9. DrainInv' /\ TabInv'
    BY <2>1, <2>3, <2>4, <2>5, <2>6, <2>7 DEF PageInv, DrainInv, TabInv
  <2>10. stash' \in Seq({Ours, Theirs}) /\ StashInv'
    <3>1. CASE Pending = {}
      <4>1. stash' = stash /\ Stashed' = Stashed
        BY <2>1, <3>1 DEF Stashed
      <4>2. Ours \notin Stashed'
        BY <2>6, <4>1
      <4> QED BY <2>1, <2>4, <2>5, <3>1, <4>1, <4>2, PageTypes DEF PageInv, StashInv
    <3>2. CASE Pending # {}
      <4> DEFINE n == Len(stash')
      <4>1. /\ stash' \in Seq({Ours, Theirs}) /\ n <= MaxStashes /\ n \in Nat \ {0}
            /\ stash'[n] = Ours
            /\ \E d \in {0, 1} : /\ n = Len(stash) + 1 - d
                                 /\ \A j \in 1 .. n - 1 : stash'[j] = stash[j + d]
                                 /\ d = 1 => Len(stash) >= MaxStashes
        BY <2>1, <3>2, StashPushed
      <4>2. DOMAIN stash' = 1 .. n /\ Len(stash) \in Nat /\ DOMAIN stash = 1 .. Len(stash)
        BY <4>1, PageTypes, LenProperties
      <4> HIDE DEF n
      <4>3. \A j \in 1 .. n : stash'[j] = Ours => j = n
        <5> SUFFICES ASSUME NEW j \in 1 .. n, stash'[j] = Ours, j # n
                     PROVE  FALSE
          OBVIOUS
        <5>1. PICK d \in {0, 1} : n = Len(stash) + 1 - d /\ \A x \in 1 .. n - 1 : stash'[x] = stash[x + d]
          BY <4>1
        <5>2. j \in 1 .. n - 1 /\ j + d \in 1 .. Len(stash)
          BY <4>1, <4>2, <5>1
        <5>3. stash[j + d] = Ours
          BY <5>1, <5>2
        <5> QED BY <2>6, <4>2, <5>2, <5>3 DEF Stashed
      <4>4. Ours \in Stashed'
        BY <4>1, <4>2 DEF Stashed
      <4>5. \A k \in server'.pending : hist'.bodies[k] = 0
        BY <2>3, <2>4, <2>5
      <4>6. \A j \in 1 .. n : stash'[j] = Ours => n - j <= hist'.newer
        <5>1. hist'.newer \in Nat
          BY <2>5, PageTypes
        <5>2. n - n = 0
          BY <4>1
        <5> QED BY <4>3, <5>1, <5>2
      <4>7. hist'.newer <= others'
        BY <2>1, <2>5, PageTypes
      <4> QED BY <2>1, <2>4, <2>6, <4>1, <4>2, <4>3, <4>4, <4>5, <4>6, <4>7 DEF StashInv, n
    <3> QED BY <3>1, <3>2
  <2>11. ResolveType'
    BY <2>1, <2>4, <2>5, <2>10, PageTypes DEF ResolveType
  <2> QED BY <2>3, <2>4, <2>8, <2>9, <2>10, <2>11 DEF PageInv
<1> QED BY <1>1, <1>2, <1>3, <1>4, <1>5

(* What leaves the page's own stash and everything else of it alone.       *)
LEMMA StashRests ==
    ASSUME PageInv, StashInv', stash' \in Seq({Ours, Theirs}), others' \in 0 .. MaxOthers,
           UNCHANGED <<server, drain, tab>>, hist' \in Hist,
           hist'.bodies = hist.bodies, hist'.again = hist.again, hist'.excused = hist.excused,
           InTime' => InTime
    PROVE  PageInv'
<1>1. waiting' = waiting /\ (\A k : OnWire(k)' <=> OnWire(k)) /\ \A k : Barred(k)' <=> Barred(k)
  BY DEF waiting, OnWire, Barred
<1>2. DrainInv' /\ TabInv'
  BY <1>1 DEF PageInv, DrainInv, TabInv
<1>3. ResolveType'
  BY DEF PageInv, ResolveType
<1> QED BY <1>1, <1>2, <1>3 DEF PageInv

LEMMA StashStep ==
    ASSUME PageInv, StashOther \/ OtherGone \/ Expires
    PROVE  PageInv'
<1>1. CASE StashOther
  <2>1. /\ others < MaxOthers /\ others' = others + 1 /\ stash' = stashPendingStream(Theirs)
        /\ hist' = [hist EXCEPT !.newer = IF Ours \in Stashed THEN @ + 1 ELSE @]
        /\ UNCHANGED <<server, drain, tab>>
    BY <1>1 DEF StashOther
  <2>2. others' \in 0 .. MaxOthers
    BY <2>1, PageTypes
  <2>3. /\ hist' \in Hist /\ hist'.newer = (IF Ours \in Stashed THEN hist.newer + 1 ELSE hist.newer)
        /\ hist'.bodies = hist.bodies /\ hist'.again = hist.again /\ hist'.excused = hist.excused
        /\ hist'.expired = hist.expired /\ hist'.newer <= others'
    <3>1. hist \in Hist /\ hist.newer + 1 \in 0 .. MaxOthers
      BY <2>1, PageTypes
    <3>2. /\ hist' \in Hist /\ hist'.newer = (IF Ours \in Stashed THEN hist.newer + 1 ELSE hist.newer)
          /\ hist'.bodies = hist.bodies /\ hist'.again = hist.again /\ hist'.excused = hist.excused
          /\ hist'.expired = hist.expired
      BY <2>1, <3>1 DEF Hist
    <3> QED BY <2>1, <3>2, PageTypes
  <2> DEFINE n == Len(stash')
             m == Len(stash)
             newer == hist.newer
             newer1 == hist'.newer
  <2>4. /\ stash' \in Seq({Ours, Theirs}) /\ n <= MaxStashes /\ n \in Nat \ {0}
        /\ stash'[n] = Theirs
        /\ \E d \in {0, 1} : /\ n = m + 1 - d
                             /\ \A j \in 1 .. n - 1 : stash'[j] = stash[j + d]
                             /\ d = 1 => m >= MaxStashes
    BY <2>1, StashPushed
  <2>5. DOMAIN stash' = 1 .. n /\ m \in Nat /\ DOMAIN stash = 1 .. m
    BY <2>4, PageTypes, LenProperties
  <2>6. /\ \A i, j \in 1 .. m : stash[i] = Ours /\ stash[j] = Ours => i = j
        /\ \A i \in 1 .. m : stash[i] = Ours => m - i <= newer
        /\ newer \in Nat /\ newer1 \in Nat /\ newer <= newer1 /\ MaxStashes \in Nat
    <3>1. /\ \A i, j \in 1 .. m : stash[i] = Ours /\ stash[j] = Ours => i = j
          /\ \A i \in 1 .. m : stash[i] = Ours => m - i <= newer
      BY <2>5 DEF PageInv, StashInv
    <3>2. /\ newer \in Nat /\ MaxStashes \in Nat
          /\ newer1 = (IF Ours \in Stashed THEN newer + 1 ELSE newer)
      BY <2>3, PageTypes
    <3> HIDE DEF newer, newer1, m
    <3>3. newer1 \in Nat /\ newer <= newer1
      BY <3>2
    <3> QED BY <3>1, <3>2, <3>3
  <2>7. /\ Ours \in Stashed <=> \E j \in 1 .. m : stash[j] = Ours
        /\ Ours \in Stashed' <=> \E j \in 1 .. n : stash'[j] = Ours
        /\ Ours \in Stashed => newer1 = newer + 1
    BY <2>3, <2>5 DEF Stashed
  <2> HIDE DEF n, m, newer, newer1
  <2>8. PICK d \in {0, 1} : /\ n = m + 1 - d
                            /\ \A j \in 1 .. n - 1 : stash'[j] = stash[j + d]
                            /\ d = 1 => m >= MaxStashes
    BY <2>4
  <2>9. \A j \in 1 .. n : stash'[j] = Ours => /\ j + d \in 1 .. m /\ stash[j + d] = Ours
                                              /\ n - j <= newer1
    <3> SUFFICES ASSUME NEW j \in 1 .. n, stash'[j] = Ours
                 PROVE  j + d \in 1 .. m /\ stash[j + d] = Ours /\ n - j <= newer1
      OBVIOUS
    <3>1. j # n
      BY <2>4, PageTypes
    <3>2. j \in 1 .. n - 1 /\ j + d \in 1 .. m
      BY <2>4, <2>5, <2>8, <3>1
    <3>3. stash[j + d] = Ours
      BY <2>8, <3>2
    <3>4. m - (j + d) <= newer /\ newer1 = newer + 1
      BY <2>6, <2>7, <3>2, <3>3
    <3> QED BY <2>4, <2>5, <2>6, <2>8, <3>2, <3>3, <3>4
  <2>10. \A i, j \in 1 .. n : stash'[i] = Ours /\ stash'[j] = Ours => i = j
    <3> SUFFICES ASSUME NEW i \in 1 .. n, NEW j \in 1 .. n, stash'[i] = Ours, stash'[j] = Ours
                 PROVE  i = j
      OBVIOUS
    <3>1. i + d = j + d
      BY <2>6, <2>9
    <3> QED BY <3>1
  <2>11. Ours \in Stashed' => Ours \in Stashed
    BY <2>7, <2>9
  <2>12. InTime' => InTime
    <3>1. newer1 < MaxStashes => newer < MaxStashes
      BY <2>6
    <3> QED BY <2>3, <3>1 DEF InTime, newer, newer1
  <2>13. ASSUME InTime', Ours \in Stashed
         PROVE  Ours \in Stashed'
    <3>1. PICK i \in 1 .. m : stash[i] = Ours
      BY <2>7, <2>13
    <3>2. m - i <= newer /\ newer1 = newer + 1 /\ newer1 < MaxStashes
      BY <2>6, <2>7, <2>13, <3>1 DEF InTime, newer1
    <3>3. i - d \in 1 .. n - 1 /\ i - d + d = i
      BY <2>4, <2>5, <2>6, <2>8, <3>2
    <3>4. stash'[i - d] = Ours
      BY <2>8, <3>1, <3>3
    <3>5. i - d \in 1 .. n
      BY <2>4, <3>3
    <3> QED BY <2>7, <3>4, <3>5
  <2>14. StashInv'
    <3>1. InTime' /\ server'.pc = "sent" /\ server'.pending # {} /\ tab'.pc \in {"none", "asking"} =>
              Ours \in Stashed'
      BY <2>1, <2>12, <2>13 DEF PageInv, StashInv
    <3>2. Ours \in Stashed' => /\ server'.pc = "sent" /\ drain'.inflight = {}
                               /\ \A k \in server'.pending : hist'.bodies[k] = 0
      BY <2>1, <2>3, <2>11 DEF PageInv, StashInv
    <3>3. /\ \A i, j \in DOMAIN stash' : stash'[i] = Ours /\ stash'[j] = Ours => i = j
          /\ \A i \in DOMAIN stash' : stash'[i] = Ours => Len(stash') - i <= hist'.newer
          /\ Len(stash') <= MaxStashes
      BY <2>4, <2>5, <2>9, <2>10 DEF n, newer1
    <3> QED BY <2>3, <3>1, <3>2, <3>3 DEF StashInv
  <2> QED BY <2>1, <2>2, <2>3, <2>4, <2>12, <2>14, StashRests
<1>2. CASE OtherGone
  <2>1. takePendingStream(Theirs) /\ UNCHANGED <<server, others, drain, tab, hist>>
    BY <1>2 DEF OtherGone
  <2>2. /\ stash' \in Seq({Ours, Theirs}) /\ Len(stash') <= MaxStashes
        /\ \A i, j \in DOMAIN stash' : stash'[i] = Ours /\ stash'[j] = Ours => i = j
        /\ \A i \in DOMAIN stash' : stash'[i] = Ours => Len(stash') - i <= hist.newer
        /\ Ours \in Stashed' <=> Ours \in Stashed
    BY <2>1, StashTaken
  <2>3. InTime' <=> InTime
    BY <2>1 DEF InTime
  <2>4. StashInv'
    BY <2>1, <2>2, <2>3 DEF PageInv, StashInv
  <2> QED BY <2>1, <2>2, <2>3, <2>4, PageTypes, StashRests
<1>3. CASE Expires
  <2>1. /\ takePendingStream(Ours) /\ hist' = [hist EXCEPT !.expired = TRUE]
        /\ UNCHANGED <<server, others, drain, tab>>
    BY <1>3 DEF Expires
  <2>2. /\ stash' \in Seq({Ours, Theirs}) /\ Len(stash') <= MaxStashes
        /\ \A i, j \in DOMAIN stash' : stash'[i] = Ours /\ stash'[j] = Ours => i = j
        /\ \A i \in DOMAIN stash' : stash'[i] = Ours => Len(stash') - i <= hist.newer
        /\ Ours \notin Stashed'
    BY <2>1, StashTaken
  <2>3. /\ hist' \in Hist /\ hist'.newer = hist.newer /\ hist'.expired = TRUE
        /\ hist'.bodies = hist.bodies /\ hist'.again = hist.again /\ hist'.excused = hist.excused
    BY <2>1, PageTypes DEF Hist
  <2>4. ~ InTime'
    BY <2>3 DEF InTime
  <2>5. StashInv'
    BY <2>1, <2>2, <2>3, <2>4 DEF PageInv, StashInv
  <2> QED BY <2>1, <2>2, <2>3, <2>4, <2>5, PageTypes, StashRests
<1> QED BY <1>1, <1>2, <1>3

(* What leaves the render and the stash alone, when the document is out.   *)
LEMMA PageKept ==
    ASSUME PageInv, server.pc = "sent", UNCHANGED <<server, stash, others>>,
           drain' \in Drain, tab' \in Tab, hist' \in Hist,
           hist'.newer = hist.newer, InTime' => InTime,
           Ours \in Stashed => drain'.inflight = {} /\ hist'.bodies = hist.bodies,
           InTime' /\ tab'.pc \in {"none", "asking"} => tab.pc \in {"none", "asking"},
           DrainInv', TabInv'
    PROVE  PageInv'
<1>1. Stashed' = Stashed /\ \A k : Barred(k)' <=> Barred(k)
  BY DEF Stashed, Barred
<1>2. StashInv'
  BY <1>1 DEF PageInv, StashInv
<1>3. ResolveType'
  BY DEF PageInv, ResolveType
<1> QED BY <1>1, <1>2, <1>3 DEF PageInv

(* A tab that has its document, and a drain that runs, have a page.        *)
LEMMA PageIsOut ==
    ASSUME PageInv, tab.pc # "none" \/ drain.inflight # {} \/ drain.wire # <<>>
    PROVE  server.pc = "sent"
BY DEF PageInv, TabInv

LEMMA DrainStep ==
    ASSUME PageInv, Take \/ Emit \/ Breaks \/ Finish
    PROVE  PageInv'
<1>1. CASE Take
  <2>1. /\ tab.pc = "asking" /\ takePendingStream(Ours)
        /\ drain' = [pc |-> "open", inflight |-> server.pending, wire |-> <<>>]
        /\ tab' = [tab EXCEPT !.pc = "open"]
        /\ UNCHANGED <<server, others, hist>>
    BY <1>1 DEF Take
  <2>2. /\ stash' \in Seq({Ours, Theirs}) /\ Len(stash') <= MaxStashes
        /\ Ours \in Stashed /\ Ours \notin Stashed'
    BY <2>1, StashTaken
  <2>3. server.pc = "sent" /\ \A k \in server.pending : hist.bodies[k] = 0
    BY <2>2 DEF PageInv, StashInv
  <2>4. <<>> \in Seq(Line) /\ DOMAIN <<>> = {} /\ server \in Server /\ tab \in Tab /\ server.pending \subseteq Keys
    BY EmptySeq, PageTypes DEF Server
  <2>5. /\ drain' \in Drain /\ drain'.pc = "open" /\ drain'.inflight = server.pending
        /\ DOMAIN drain'.wire = {}
    BY <2>1, <2>4 DEF Drain
  <2>6. tab' \in Tab /\ tab'.pc = "open" /\ tab'.slot = tab.slot
    BY <2>1, <2>4 DEF Tab
  <2>7. waiting' = waiting /\ (InTime' <=> InTime) /\ \A k : Barred(k)' <=> Barred(k)
    BY <2>1, <2>6 DEF waiting, InTime, Barred
  <2>8. StashInv'
    <3>1. \A i \in DOMAIN stash' : stash'[i] # Ours
      BY <2>2 DEF Stashed
    <3> QED BY <2>1, <2>2, <2>6, <3>1 DEF PageInv, StashInv
  <2>9. DrainInv'
    BY <2>1, <2>3, <2>5 DEF PageInv, DrainInv
  <2>10. TabInv'
    BY <2>1, <2>3, <2>5, <2>6, <2>7 DEF PageInv, TabInv
  <2>11. ResolveType'
    BY <2>1, <2>2, <2>5, <2>6 DEF PageInv, ResolveType
  <2> QED BY <2>1, <2>3, <2>7, <2>8, <2>9, <2>10, <2>11 DEF PageInv
<1>2. CASE Emit
  <2>1. PICK k \in Lands :
            /\ drain' = [drain EXCEPT !.inflight = @ \ {k}, !.wire = Append(@, frame(k))]
            /\ read(k)
    BY <1>2 DEF Emit
  <2>2. drain.pc = "open" /\ UNCHANGED <<server, stash, others, tab>>
    BY <1>2 DEF Emit
  <2>3. k \in Keys /\ k \in drain.inflight /\ server.call[k] \in Settlement
    BY <2>1 DEF Lands, Settled
  <2>4. server.pc = "sent" /\ Ours \notin Stashed /\ hist.bodies[k] = 0
    BY <2>3, PageIsOut DEF PageInv, StashInv, DrainInv
  <2>5. frame(k) \in Line /\ frame(k).key = k /\ (frame(k).miss => Barred(k))
    <3>1. Shippable(k) \in BOOLEAN
      BY DEF Shippable
    <3>2. ~ Shippable(k) => Barred(k)
      BY <2>3 DEF Shippable, Barred, Settlement
    <3> QED BY <2>3, <3>1, <3>2 DEF frame, Line
  <2> DEFINE f == frame(k)
             n == Len(drain.wire)
  <2>6. /\ Append(drain.wire, f) \in Seq(Line) /\ DOMAIN Append(drain.wire, f) = 1 .. n + 1
        /\ \A i \in 1 .. n : Append(drain.wire, f)[i] = drain.wire[i]
        /\ Append(drain.wire, f)[n + 1] = f
        /\ n \in Nat /\ DOMAIN drain.wire = 1 .. n
    <3>1. drain.wire \in Seq(Line) /\ f \in Line
      BY <2>5, PageTypes
    <3>2. Append(drain.wire, f) \in Seq(Line) /\ Len(Append(drain.wire, f)) = n + 1
      BY <3>1, AppendProperties
    <3>3. DOMAIN Append(drain.wire, f) = 1 .. n + 1
      BY <3>2, LenProperties
    <3> HIDE DEF f
    <3> QED BY <3>1, <3>2, <3>3, AppendProperties, LenProperties
  <2> HIDE DEF f, n
  <2>7. drain \in Drain /\ hist \in Hist /\ tab \in Tab
    BY PageTypes
  <2>8. /\ drain' \in Drain /\ drain'.pc = "open" /\ drain'.inflight = drain.inflight \ {k}
        /\ drain'.wire = Append(drain.wire, f)
    BY <2>1, <2>2, <2>6, <2>7 DEF Drain, f
  <2>9. /\ hist' \in Hist /\ hist'.newer = hist.newer /\ hist'.again = hist.again
        /\ hist'.excused = hist.excused /\ hist'.expired = hist.expired
        /\ \A x \in Keys : x # k => hist'.bodies[x] = hist.bodies[x]
        /\ hist'.bodies[k] <= 1
    <3> DEFINE more == IF Shippable(k) THEN 1 ELSE 0
    <3>1. more \in Nat /\ 0 + more <= 1 /\ 0 + more \in Nat
      OBVIOUS
    <3>2. hist' = [hist EXCEPT !.bodies[k] = @ + more]
      BY <2>1 DEF read
    <3> HIDE DEF more
    <3>3. hist' = [hist EXCEPT !.bodies = [hist.bodies EXCEPT ![k] = 0 + more]]
      BY <2>3, <2>4, <2>7, <3>2 DEF Hist
    <3>4. /\ hist.bodies \in [Keys -> Nat] /\ [hist.bodies EXCEPT ![k] = 0 + more] \in [Keys -> Nat]
          /\ \A x \in Keys : x # k => [hist.bodies EXCEPT ![k] = 0 + more][x] = hist.bodies[x]
          /\ [hist.bodies EXCEPT ![k] = 0 + more][k] = 0 + more
      BY <2>3, <2>7, <3>1 DEF Hist
    <3> DEFINE bodies == [hist.bodies EXCEPT ![k] = 0 + more]
    <3> HIDE DEF bodies
    <3>5. hist' = [hist EXCEPT !.bodies = bodies] /\ bodies \in [Keys -> Nat]
      BY <3>3, <3>4 DEF bodies
    <3>6. /\ hist' \in Hist /\ hist'.newer = hist.newer /\ hist'.again = hist.again
          /\ hist'.excused = hist.excused /\ hist'.expired = hist.expired
          /\ hist'.bodies = bodies
      BY <2>7, <3>5 DEF Hist
    <3> QED BY <3>1, <3>4, <3>6 DEF bodies
  <2>10. DrainInv'
    <3>1. \A x \in drain'.inflight : hist'.bodies[x] = 0
      <4>1. drain.inflight \subseteq Keys
        BY <2>7 DEF Drain
      <4> QED BY <2>8, <2>9, <4>1 DEF PageInv, DrainInv
    <3>2. \A x \in Keys : hist'.bodies[x] <= 1
      BY <2>9 DEF PageInv, DrainInv
    <3>3. \A i \in DOMAIN drain'.wire : drain'.wire[i].miss => Barred(drain'.wire[i].key)
      <4> SUFFICES ASSUME NEW i \in DOMAIN drain'.wire, drain'.wire[i].miss
                   PROVE  Barred(drain'.wire[i].key)
        OBVIOUS
      <4>1. i \in 1 .. n \/ i = n + 1
        BY <2>6, <2>8
      <4>2. CASE i \in 1 .. n
        BY <2>6, <2>8, <4>2 DEF PageInv, DrainInv
      <4>3. CASE i = n + 1
        BY <2>5, <2>6, <2>8, <4>3 DEF f
      <4> QED BY <4>1, <4>2, <4>3
    <3>4. \A x : Barred(x)' <=> Barred(x)
      BY <2>2 DEF Barred
    <3> QED BY <2>8, <3>1, <3>2, <3>3, <3>4 DEF DrainInv
  <2>11. TabInv'
    <3>1. waiting' = waiting /\ (InTime' <=> InTime) /\ \A x : Barred(x)' <=> Barred(x)
      BY <2>2, <2>9 DEF waiting, InTime, Barred
    <3>2. \A x : x \in drain.inflight \/ OnWire(x) => x \in drain'.inflight \/ OnWire(x)'
      <4> SUFFICES ASSUME NEW x, x \in drain.inflight \/ OnWire(x), x \notin drain'.inflight
                   PROVE  OnWire(x)'
        OBVIOUS
      <4>1. CASE x = k
        <5>1. n + 1 \in DOMAIN drain'.wire /\ drain'.wire[n + 1].key = k
          BY <2>5, <2>6, <2>8 DEF f
        <5> QED BY <4>1, <5>1 DEF OnWire
      <4>2. CASE OnWire(x)
        <5>1. PICK i \in DOMAIN drain.wire : drain.wire[i].key = x
          BY <4>2 DEF OnWire
        <5>2. i \in DOMAIN drain'.wire /\ drain'.wire[i].key = x
          BY <2>6, <2>8, <5>1
        <5> QED BY <5>2 DEF OnWire
      <4> QED BY <2>8, <4>1, <4>2
    <3> QED BY <2>2, <2>9, <3>1, <3>2 DEF PageInv, TabInv
  <2>12. InTime' <=> InTime
    BY <2>9 DEF InTime
  <2> QED BY <2>2, <2>4, <2>7, <2>8, <2>9, <2>10, <2>11, <2>12, PageKept
<1>3. CASE Breaks
  <2>1. /\ drain' = [drain EXCEPT !.pc = "done", !.inflight = {}]
        /\ hist' = [hist EXCEPT !.excused = TRUE] /\ drain.inflight # {}
        /\ UNCHANGED <<server, stash, others, tab>>
    BY <1>3 DEF Breaks, Lands
  <2>2. drain' \in Drain /\ drain'.pc = "done" /\ drain'.inflight = {} /\ drain'.wire = drain.wire
    BY <2>1, PageTypes DEF Drain
  <2>3. /\ hist' \in Hist /\ hist'.newer = hist.newer /\ hist'.bodies = hist.bodies /\ hist'.excused = TRUE
    BY <2>1, PageTypes DEF Hist
  <2>4. ~ InTime' /\ waiting' = waiting /\ \A k : Barred(k)' <=> Barred(k)
    BY <2>1, <2>3 DEF InTime, waiting, Barred
  <2>5. DrainInv' /\ TabInv'
    BY <2>1, <2>2, <2>3, <2>4 DEF PageInv, DrainInv, TabInv
  <2> QED BY <2>1, <2>2, <2>3, <2>4, <2>5, PageTypes, PageIsOut, PageKept
<1>4. CASE Finish
  <2>1. /\ drain' = [drain EXCEPT !.pc = "done"] /\ drain.inflight = {}
        /\ UNCHANGED <<server, stash, others, tab, hist>>
    BY <1>4 DEF Finish
  <2>2. drain' \in Drain /\ drain'.inflight = {} /\ drain'.wire = drain.wire
    BY <2>1, PageTypes DEF Drain
  <2>3. /\ waiting' = waiting /\ Stashed' = Stashed /\ (InTime' <=> InTime)
        /\ (\A k : OnWire(k)' <=> OnWire(k)) /\ \A k : Barred(k)' <=> Barred(k)
    BY <2>1, <2>2 DEF InTime, waiting, Stashed, OnWire, Barred
  <2>4. StashInv'
    BY <2>1, <2>2, <2>3 DEF PageInv, StashInv
  <2>5. DrainInv' /\ TabInv'
    BY <2>1, <2>2, <2>3 DEF PageInv, DrainInv, TabInv
  <2>6. ResolveType'
    BY <2>1, <2>2 DEF PageInv, ResolveType
  <2> QED BY <2>1, <2>2, <2>3, <2>4, <2>5, <2>6 DEF PageInv
<1> QED BY <1>1, <1>2, <1>3, <1>4

(* The drain is gone, or was never there.                                  *)
LEMMA DrainGone ==
    ASSUME PageInv, NEW p \in {"none", "done"}, drain' = [pc |-> p, inflight |-> {}, wire |-> <<>>],
           hist'.bodies = hist.bodies
    PROVE  drain' \in Drain /\ drain'.inflight = {} /\ DrainInv'
<1>1. <<>> \in Seq(Line) /\ DOMAIN <<>> = {}
  BY EmptySeq
<1> QED BY <1>1 DEF Drain, PageInv, DrainInv

(* The placeholders that are left are fetched.                             *)
LEMMA Flushes ==
    ASSUME tab \in Tab, tab' = [tab EXCEPT !.pc = "ended",
                            !.slot = [k \in Keys |-> IF @[k] = "waiting" THEN "live" ELSE @[k]]]
    PROVE  tab' \in Tab /\ tab'.pc = "ended" /\ waiting' = {}
<1> DEFINE slot == [k \in Keys |-> IF tab.slot[k] = "waiting" THEN "live" ELSE tab.slot[k]]
<1>1. slot \in [Keys -> {"unread", "waiting", "warm", "live"}] /\ \A k \in Keys : slot[k] # "waiting"
  BY DEF Tab
<1>2. tab' = [tab EXCEPT !.pc = "ended", !.slot = slot]
  OBVIOUS
<1> HIDE DEF slot
<1>3. tab' \in Tab /\ tab'.pc = "ended" /\ tab'.slot = slot
  BY <1>1, <1>2 DEF Tab
<1> QED BY <1>1, <1>3 DEF waiting

LEMMA TabStep ==
    ASSUME PageInv, Hydrate \/ Restore \/ Refused \/ Apply \/ End \/ Cut \/ Leave
    PROVE  PageInv'
<1>1. CASE Hydrate
  <2>1. /\ server.pc = "sent" /\ tab.pc = "none" /\ hydrated
        /\ hist' = [hist EXCEPT !.again = @ \cup Unshipped]
        /\ UNCHANGED <<server, stash, others>>
    BY <1>1 DEF Hydrate
  <2>2. Unshipped \subseteq Keys /\ \A k \in Unshipped : Barred(k)
    BY <2>1 DEF Unshipped, Reads, PageInv
  <2>3. /\ hist' \in Hist /\ hist'.newer = hist.newer /\ hist'.bodies = hist.bodies
        /\ hist'.again = hist.again \cup Unshipped
        /\ hist'.excused = hist.excused /\ hist'.expired = hist.expired
    BY <2>1, <2>2, PageTypes DEF Hist
  <2>4. drain' \in Drain /\ drain'.inflight = {} /\ DrainInv'
    BY <2>1, <2>3, DrainGone DEF hydrated
  <2> DEFINE slot == [k \in Keys |-> CASE k \in server.inline -> "warm"
                                         [] k \in server.pending -> "waiting"
                                         [] k \in Unshipped -> "live"
                                         [] OTHER -> "unread"]
             pc == IF server.pending = {} THEN "ended" ELSE "asking"
  <2>5. /\ slot \in [Keys -> {"unread", "waiting", "warm", "live"}]
        /\ \A k \in Keys : slot[k] = "waiting" => k \in server.pending
    <3>1. \A k \in Keys : /\ slot[k] \in {"unread", "waiting", "warm", "live"}
                          /\ slot[k] = "waiting" => k \in server.pending
      OBVIOUS
    <3> QED BY <3>1
  <2>6. tab' = [tab EXCEPT !.pc = pc, !.slot = slot] /\ pc \in {"ended", "asking"}
        /\ (pc = "asking" => server.pending # {})
    BY <2>1 DEF hydrated
  <2> HIDE DEF slot, pc
  <2>7. tab' \in Tab /\ tab'.pc = pc /\ tab'.slot = slot
    BY <2>5, <2>6, PageTypes DEF Tab
  <2>8. waiting' \subseteq server.pending
    BY <2>5, <2>7 DEF waiting
  <2>9. (InTime' <=> InTime) /\ \A k : Barred(k)' <=> Barred(k)
    BY <2>1, <2>3 DEF InTime, Barred
  <2>10. TabInv'
    BY <2>1, <2>2, <2>3, <2>6, <2>7, <2>8, <2>9 DEF PageInv, TabInv
  <2> QED BY <2>1, <2>3, <2>4, <2>7, <2>9, <2>10, PageKept
<1>2. CASE Restore
  <2>1. /\ tab.pc \in {"ended", "left"}
        /\ tab' = [tab EXCEPT !.restored = TRUE,
                       !.pc = IF server.pending = {} THEN "ended" ELSE "asking",
                       !.slot = [k \in Keys |-> IF k \in server.pending THEN "waiting" ELSE @[k]]]
        /\ drain' = [pc |-> "none", inflight |-> {}, wire |-> <<>>]
        /\ hist' = [hist EXCEPT !.excused = TRUE]
        /\ UNCHANGED <<server, stash, others>>
    BY <1>2 DEF Restore
  <2>2. hist' \in Hist /\ hist'.newer = hist.newer /\ hist'.bodies = hist.bodies /\ hist'.excused = TRUE
    BY <2>1, PageTypes DEF Hist
  <2>3. drain' \in Drain /\ drain'.inflight = {} /\ DrainInv'
    BY <2>1, <2>2, DrainGone
  <2> DEFINE slot == [k \in Keys |-> IF k \in server.pending THEN "waiting" ELSE tab.slot[k]]
             pc == IF server.pending = {} THEN "ended" ELSE "asking"
  <2>4. server.pc = "sent" /\ waiting \subseteq server.pending
    BY <2>1 DEF PageInv, TabInv
  <2>5. /\ slot \in [Keys -> {"unread", "waiting", "warm", "live"}]
        /\ \A k \in Keys : slot[k] = "waiting" => k \in server.pending
    BY <2>4, PageTypes DEF Tab, waiting
  <2>6. tab' = [tab EXCEPT !.restored = TRUE, !.pc = pc, !.slot = slot] /\ pc \in {"ended", "asking"}
        /\ (pc = "asking" => server.pending # {})
    BY <2>1
  <2> HIDE DEF slot, pc
  <2>7. tab' \in Tab /\ tab'.pc = pc /\ tab'.slot = slot
    BY <2>5, <2>6, PageTypes DEF Tab
  <2>8. waiting' \subseteq server.pending /\ ~ InTime'
    BY <2>2, <2>5, <2>7 DEF waiting, InTime
  <2>9. TabInv'
    BY <2>1, <2>2, <2>4, <2>6, <2>7, <2>8 DEF TabInv
  <2> QED BY <2>1, <2>2, <2>3, <2>4, <2>7, <2>8, <2>9, PageKept
<1>3. CASE Refused
  <2>1. /\ tab.pc = "asking" /\ Ours \notin Stashed
        /\ tab' = [tab EXCEPT !.pc = "ended",
                       !.slot = [k \in Keys |-> IF @[k] = "waiting" THEN "live" ELSE @[k]]]
        /\ hist' = [hist EXCEPT !.again = @ \cup waiting]
        /\ UNCHANGED <<server, stash, others, drain>>
    BY <1>3 DEF Refused, flushed
  <2>2. ~ InTime /\ server.pc = "sent"
    BY <2>1 DEF PageInv, StashInv, TabInv
  <2>3. /\ hist' \in Hist /\ hist'.newer = hist.newer /\ hist'.bodies = hist.bodies
        /\ hist'.excused = hist.excused /\ hist'.expired = hist.expired
    BY <2>1, PageTypes DEF Hist
  <2>4. ~ InTime' /\ \A k : Barred(k)' <=> Barred(k)
    BY <2>1, <2>2, <2>3 DEF InTime, Barred
  <2>5. tab' \in Tab /\ tab'.pc = "ended" /\ waiting' = {}
    BY <2>1, PageTypes, Flushes
  <2>6. DrainInv' /\ TabInv'
    BY <2>1, <2>2, <2>3, <2>4, <2>5 DEF PageInv, DrainInv, TabInv
  <2> QED BY <2>1, <2>2, <2>3, <2>4, <2>5, <2>6, PageTypes, PageKept
<1>4. CASE Apply
  <2> DEFINE f == Head(drain.wire)
             n == Len(drain.wire)
  <2>1. /\ tab.pc = "open" /\ drain.wire # <<>>
        /\ tab' = [tab EXCEPT !.slot[f.key] = IF f.miss THEN "live" ELSE "warm"]
        /\ hist' = [hist EXCEPT !.again = IF f.miss THEN @ \cup {f.key} ELSE @]
        /\ drain' = [drain EXCEPT !.wire = Tail(@)]
        /\ UNCHANGED <<server, stash, others>>
    BY <1>4 DEF Apply
  <2>2. /\ 1 \in 1 .. n /\ f = drain.wire[1] /\ n \in Nat /\ DOMAIN drain.wire = 1 .. n
        /\ Tail(drain.wire) \in Seq(Line) /\ DOMAIN Tail(drain.wire) = 1 .. n - 1
        /\ \A i \in 1 .. n - 1 : i + 1 \in 1 .. n /\ Tail(drain.wire)[i] = drain.wire[i + 1]
    <3>1. drain.wire \in Seq(Line) /\ n \in Nat /\ DOMAIN drain.wire = 1 .. n
      BY PageTypes
    <3>2. /\ Tail(drain.wire) \in Seq(Line) /\ Len(Tail(drain.wire)) = n - 1
          /\ \A i \in 1 .. n - 1 : Tail(drain.wire)[i] = drain.wire[i + 1]
          /\ f = drain.wire[1]
      BY <2>1, <3>1, HeadTailProperties
    <3>3. DOMAIN Tail(drain.wire) = 1 .. n - 1
      BY <3>2, LenProperties
    <3>4. n # 0
      BY <2>1, <3>1, EmptySeq
    <3> HIDE DEF n, f
    <3>5. 1 \in 1 .. n /\ \A i \in 1 .. n - 1 : i + 1 \in 1 .. n
      BY <3>1, <3>4
    <3> QED BY <3>1, <3>2, <3>3, <3>5
  <2>3. f \in Line /\ f.key \in Keys /\ f.miss \in BOOLEAN /\ (f.miss => Barred(f.key))
    <3>1. f \in Line
      BY <2>2, PageTypes
    <3> QED BY <2>2, <3>1 DEF Line, PageInv, DrainInv
  <2> HIDE DEF f, n
  <2>4. server.pc = "sent"
    BY <2>1, PageIsOut
  <2>5. /\ drain' \in Drain /\ drain'.pc = drain.pc /\ drain'.inflight = drain.inflight
        /\ drain'.wire = Tail(drain.wire)
    BY <2>1, <2>2, PageTypes DEF Drain
  <2>6. /\ hist' \in Hist /\ hist'.newer = hist.newer /\ hist'.bodies = hist.bodies
        /\ hist'.again \subseteq hist.again \cup (IF f.miss THEN {f.key} ELSE {})
        /\ hist'.excused = hist.excused /\ hist'.expired = hist.expired
    BY <2>1, <2>3, PageTypes DEF Hist
  <2>7. (InTime' <=> InTime) /\ \A k : Barred(k)' <=> Barred(k)
    BY <2>1, <2>6 DEF InTime, Barred
  <2>8. /\ tab' \in Tab /\ tab'.pc = "open" /\ waiting' \subseteq waiting \ {f.key}
    <3> DEFINE to == IF f.miss THEN "live" ELSE "warm"
               slot == [tab.slot EXCEPT ![f.key] = to]
    <3>1. to \in {"live", "warm"}
      OBVIOUS
    <3>2. tab' = [tab EXCEPT !.slot = slot]
      BY <2>1, PageTypes DEF Tab
    <3> HIDE DEF to
    <3>3. /\ slot \in [Keys -> {"unread", "waiting", "warm", "live"}] /\ slot[f.key] = to
          /\ \A k \in Keys : k # f.key => slot[k] = tab.slot[k]
      BY <2>3, <3>1, PageTypes DEF Tab
    <3> HIDE DEF slot
    <3>4. tab' \in Tab /\ tab'.pc = "open" /\ tab'.slot = slot
      BY <2>1, <3>2, <3>3, PageTypes DEF Tab
    <3> QED BY <3>1, <3>3, <3>4 DEF waiting
  <2>9. DrainInv'
    BY <2>2, <2>5, <2>6, <2>7 DEF PageInv, DrainInv
  <2>10. \A k : k # f.key /\ OnWire(k) => OnWire(k)'
    <3> SUFFICES ASSUME NEW k, k # f.key, OnWire(k)
                 PROVE  OnWire(k)'
      OBVIOUS
    <3>1. PICK i \in 1 .. n : drain.wire[i].key = k
      BY <2>2 DEF OnWire
    <3>2. i # 1
      BY <2>2, <3>1
    <3>3. i - 1 \in 1 .. n - 1 /\ i - 1 + 1 = i
      BY <2>2, <3>2
    <3>4. i - 1 \in DOMAIN drain'.wire /\ drain'.wire[i - 1] = drain.wire[i]
      BY <2>2, <2>5, <3>3
    <3> QED BY <3>1, <3>4 DEF OnWire
  <2>11. TabInv'
    BY <2>1, <2>3, <2>4, <2>5, <2>6, <2>7, <2>8, <2>10 DEF PageInv, TabInv
  <2>12. Ours \in Stashed => drain'.inflight = {} /\ hist'.bodies = hist.bodies
    BY <2>5, <2>6 DEF PageInv, StashInv
  <2> QED BY <2>1, <2>4, <2>5, <2>6, <2>7, <2>8, <2>9, <2>11, <2>12, PageKept
<1>5. CASE End
  <2>1. /\ tab.pc = "open" /\ drain.pc = "done" /\ drain.wire = <<>>
        /\ tab' = [tab EXCEPT !.pc = "ended",
                       !.slot = [k \in Keys |-> IF @[k] = "waiting" THEN "live" ELSE @[k]]]
        /\ hist' = [hist EXCEPT !.again = @ \cup waiting]
        /\ UNCHANGED <<server, stash, others, drain>>
    BY <1>5 DEF End, flushed
  <2>2. DOMAIN drain.wire = {} /\ drain.inflight = {} /\ server.pc = "sent"
    BY <2>1, EmptySeq, PageIsOut DEF PageInv, DrainInv
  <2>3. InTime => waiting = {}
    BY <2>1, <2>2 DEF PageInv, TabInv, InTime, OnWire
  <2>4. /\ hist' \in Hist /\ hist'.newer = hist.newer /\ hist'.bodies = hist.bodies
        /\ hist'.again = hist.again \cup waiting
        /\ hist'.excused = hist.excused /\ hist'.expired = hist.expired
    BY <2>1, PageTypes DEF Hist
  <2>5. (InTime' <=> InTime) /\ \A k : Barred(k)' <=> Barred(k)
    BY <2>1, <2>4 DEF InTime, Barred
  <2>6. tab' \in Tab /\ tab'.pc = "ended" /\ waiting' = {}
    BY <2>1, PageTypes, Flushes
  <2>7. DrainInv' /\ TabInv'
    BY <2>1, <2>2, <2>3, <2>4, <2>5, <2>6 DEF PageInv, DrainInv, TabInv
  <2> QED BY <2>1, <2>2, <2>4, <2>5, <2>6, <2>7, PageTypes, PageKept
<1>6. CASE Cut
  <2>1. /\ tab.pc \in {"asking", "open"}
        /\ drain' = [pc |-> "done", inflight |-> {}, wire |-> <<>>]
        /\ tab' = [tab EXCEPT !.pc = "ended",
                       !.slot = [k \in Keys |-> IF @[k] = "waiting" THEN "live" ELSE @[k]]]
        /\ hist' = [hist EXCEPT !.again = @ \cup waiting, !.excused = TRUE]
        /\ UNCHANGED <<server, stash, others>>
    BY <1>6 DEF Cut, cancelled
  <2>2. server.pc = "sent"
    BY <2>1, PageIsOut
  <2>3. hist' \in Hist /\ hist'.newer = hist.newer /\ hist'.bodies = hist.bodies /\ hist'.excused = TRUE
    BY <2>1, PageTypes DEF Hist
  <2>4. drain' \in Drain /\ drain'.inflight = {} /\ DrainInv'
    BY <2>1, <2>3, DrainGone
  <2>5. tab' \in Tab /\ tab'.pc = "ended" /\ waiting' = {} /\ ~ InTime'
    BY <2>1, <2>3, PageTypes, Flushes DEF InTime
  <2>6. TabInv'
    BY <2>1, <2>2, <2>5 DEF TabInv
  <2> QED BY <2>1, <2>2, <2>3, <2>4, <2>5, <2>6, PageKept
<1>7. CASE Leave
  <2>1. /\ tab.pc \in {"asking", "open"} /\ tab' = [tab EXCEPT !.pc = "left"]
        /\ drain' = [pc |-> "done", inflight |-> {}, wire |-> <<>>]
        /\ UNCHANGED <<server, stash, others, hist>>
    BY <1>7 DEF Leave, cancelled
  <2>2. server.pc = "sent"
    BY <2>1, PageIsOut
  <2>3. tab' \in Tab /\ tab'.pc = "left" /\ tab'.slot = tab.slot
    BY <2>1, PageTypes DEF Tab
  <2>4. drain' \in Drain /\ drain'.inflight = {} /\ DrainInv'
    BY <2>1, DrainGone
  <2>5. waiting' = waiting /\ (InTime' <=> InTime) /\ \A k : Barred(k)' <=> Barred(k)
    BY <2>1, <2>3 DEF waiting, InTime, Barred
  <2>6. TabInv'
    BY <2>1, <2>2, <2>3, <2>5 DEF PageInv, TabInv
  <2> QED BY <2>1, <2>2, <2>3, <2>4, <2>5, <2>6, PageTypes, PageKept
<1> QED BY <1>1, <1>2, <1>3, <1>4, <1>5, <1>6, <1>7

LEMMA PageStep == PageInv /\ [ResolveNext]_rsvars => PageInv'
<1> SUFFICES ASSUME PageInv, [ResolveNext]_rsvars
             PROVE  PageInv'
  OBVIOUS
<1>1. CASE ResolveNext
  BY <1>1, RenderStep, StashStep, DrainStep, TabStep DEF ResolveNext
<1>2. CASE UNCHANGED rsvars
  <2>1. UNCHANGED <<server, stash, others, drain, tab, hist>>
    BY <1>2 DEF rsvars
  <2> QED BY <2>1, ServerMoves, PageTypes DEF Barred
<1> QED BY <1>1, <1>2

(* A streamed page's reads run once, and its bodies are read once, unless  *)
(* the stream was cut or came too late: whatever the reads, the other      *)
(* pages stashed around it and the size of the stash.                      *)
THEOREM APageResolvesOnce == Spec => []ResolvesOnce
<1>1. Init => PageInv
  BY PageInitially DEF Init
<1>2. PageInv /\ [Next]_streamVars => PageInv'
  <2> SUFFICES ASSUME PageInv, [Next]_streamVars
               PROVE  PageInv'
    OBVIOUS
  <2>1. [ResolveNext]_rsvars
    BY DEF Next, streamVars
  <2> QED BY <2>1, PageStep
<1> QED BY <1>1, <1>2, PageOnce, PTL DEF Spec

(* A tab in time whose stash was not pushed out by as many newer pages as  *)
(* the stashes there may be is never refused (stashPendingStream.ts).      *)
THEOREM ATabInTimeIsServed == Spec => TokenHonoured
<1>1. Init => PageInv
  BY PageInitially DEF Init
<1>2. PageInv /\ [Next]_streamVars => PageInv'
  <2> SUFFICES ASSUME PageInv, [Next]_streamVars
               PROVE  PageInv'
    OBVIOUS
  <2>1. [ResolveNext]_rsvars
    BY DEF Next, streamVars
  <2> QED BY <2>1, PageStep
<1>3. PageInv => [Refused => hist.expired \/ hist.excused \/ hist.newer >= MaxStashes]_rsvars
  <2> SUFFICES ASSUME PageInv, Refused
               PROVE  hist.expired \/ hist.excused \/ hist.newer >= MaxStashes
    OBVIOUS
  <2>1. ~ InTime
    BY DEF Refused, PageInv, StashInv, TabInv
  <2>2. hist.newer \in Nat /\ MaxStashes \in Nat
    BY PageTypes
  <2> QED BY <2>1, <2>2 DEF InTime
<1> QED BY <1>1, <1>2, <1>3, PTL DEF Spec, TokenHonoured

-----------------------------------------------------------------------------
(* The bindings. A binding still owes a key a write when it has the frame  *)
(* in its queue, folds it just now, or will drop everything for a loss it  *)
(* has yet to notice. An entry nobody folded anything into, or that a      *)
(* patch waits for to fold into what was answered, reflects what no        *)
(* binding owes; a warm one holds what not even one binding owes.          *)
Owes(b, w, k) ==
    \/ \E i \in DOMAIN binding[b].queue : binding[b].queue[i] = w
    \/ binding[b].pc = "patching" /\ binding[b].frame = w /\ k \in binding[b].todo \cup binding[b].at
    \/ binding[b].link = "lost" /\ binding[b].covers

Shows(b, w, k) == binding[b].pc = "patching" /\ k \in binding[b].touched /\ binding[b].frame = w

Unserved(k) == cached[k].state = "loading" /\ ~cached[k].served

Unfolded(b, k) == cached[k].state # "warm" \/ (k \in binding[b].at /\ ~binding[b].orphan)

LoopInv ==
    \A b \in Bindings :
        /\ binding[b].at # {} => binding[b].pc = "patching"
        /\ \A j, k \in binding[b].at : j = k
        /\ binding[b].orphan /\ binding[b].at # {} => binding[b].todo = Variants

OwedInv ==
    \A k \in Variants : \A w \in world \ missed :
        /\ \A b \in Bindings : Unfolded(b, k) => Unserved(k) \/ w \in cached[k].seen \/ Owes(b, w, k)
        /\ cached[k].state = "warm" => w \in cached[k].value \/ \E b \in Bindings : Owes(b, w, k)

ShownInv ==
    \A k \in Variants :
        /\ cached[k].state # "loading" => cached[k].seen \subseteq shown[k]
        /\ cached[k].state = "warm" =>
               /\ cached[k].seen \subseteq cached[k].value
               /\ \A w \in cached[k].value : w \in missed \/ w \in shown[k] \/ \E b \in Bindings : Shows(b, w, k)

OnInv == OnTypeOK /\ LoopInv /\ OwedInv /\ ShownInv

LEMMA OnInitially == OnInit => OnInv
<1> SUFFICES ASSUME OnInit
             PROVE  OnInv
  OBVIOUS
<1> DEFINE any == CHOOSE w \in Writes : TRUE
<1>1. <<>> \in Seq(Writes) /\ DOMAIN <<>> = {} /\ any \in Writes /\ 0 \in 0 .. MaxLosses
  BY EmptySeq, CacheOnAssumption
<1>2. binding = [b \in Bindings |->
           [pc |-> "idle", link |-> "live", queue |-> <<>>, covers |-> FALSE, frame |-> any,
            todo |-> {}, at |-> {}, orphan |-> FALSE, touched |-> {}]]
  BY DEF OnInit
<1> HIDE DEF any
<1>3. binding \in [Bindings -> Binding] /\ \A b \in Bindings : binding[b].at = {} /\ binding[b].pc = "idle"
  BY <1>1, <1>2 DEF Binding
<1>4. /\ cached \in [Variants -> OnEntry]
      /\ \A k \in Variants : cached[k].state = "loading" /\ ~ cached[k].served
  BY DEF OnInit, OnEntry, Called
<1>5. OnTypeOK
  BY <1>1, <1>3, <1>4 DEF OnInit, OnTypeOK
<1> QED BY <1>3, <1>4, <1>5 DEF OnInv, LoopInv, OwedInv, ShownInv, Unserved

LEMMA OnScreen == OnInv => ScreenKept
<1> SUFFICES ASSUME OnInv, Quiet, NEW k \in Variants, cached[k].state # "error",
                    NEW w \in world \ shown[k]
             PROVE  w \in missed \ cached[k].seen
  BY DEF ScreenKept
<1>1. \A b \in Bindings : /\ binding[b].pc = "idle" /\ DOMAIN binding[b].queue = {}
                          /\ binding[b].link = "live"
  BY EmptySeq DEF Quiet
<1>2. \A b \in Bindings : ~ Owes(b, w, k) /\ ~ Shows(b, w, k)
  BY <1>1 DEF Owes, Shows
<1>3. cached[k].state # "loading" /\ w \notin cached[k].seen
  BY DEF Quiet, OnInv, ShownInv
<1>4. CASE cached[k].state = "warm"
  BY <1>2, <1>3, <1>4 DEF OnInv, OwedInv, ShownInv
<1>5. CASE cached[k].state # "warm"
  BY <1>2, <1>3, <1>5, CacheOnAssumption DEF OnInv, OwedInv, Unfolded, Unserved
<1> QED BY <1>3, <1>4, <1>5

-----------------------------------------------------------------------------
LEMMA OnTypes ==
    ASSUME OnInv
    PROVE  /\ binding \in [Bindings -> Binding] /\ cached \in [Variants -> OnEntry]
           /\ shown \in [Variants -> SUBSET Writes] /\ world \subseteq Writes /\ missed \subseteq Writes
           /\ losses \in 0 .. MaxLosses /\ MaxLosses \in Nat /\ MaxBuffer \in Nat \ {0}
           /\ \A b \in Bindings : /\ binding[b] \in Binding /\ binding[b].queue \in Seq(Writes)
                                  /\ binding[b].frame \in Writes
BY CacheOnAssumption DEF OnInv, OnTypeOK, Binding

LEMMA OneMoves ==
    ASSUME OnInv, NEW b \in Bindings, NEW r \in Binding, binding' = [binding EXCEPT ![b] = r]
    PROVE  /\ binding' \in [Bindings -> Binding] /\ binding'[b] = r
           /\ \A c \in Bindings : c # b => binding'[c] = binding[c]
BY DEF OnInv, OnTypeOK

LEMMA OneEntry ==
    ASSUME OnInv, NEW k \in Variants, NEW e \in OnEntry, cached' = [cached EXCEPT ![k] = e]
    PROVE  /\ cached' \in [Variants -> OnEntry] /\ cached'[k] = e
           /\ \A j \in Variants : j # k => cached'[j] = cached[j]
BY DEF OnInv, OnTypeOK

(* A step of the bindings that leaves the store alone, and what is owed    *)
(* owed or missed.                                                         *)
LEMMA StoreRests ==
    ASSUME OnInv, UNCHANGED <<world, cached>>, missed \subseteq missed',
           \A b \in Bindings : binding'[b].at \subseteq binding[b].at \/ \E k \in Variants : binding'[b].at = {k} /\ cached[k].state # "warm",
           \A b \in Bindings : binding'[b].at # {} /\ binding[b].orphan => binding'[b].orphan \/ \A k \in binding'[b].at : cached[k].state # "warm",
           \A b \in Bindings, k \in Variants, w \in world \ missed' : Owes(b, w, k) => Owes(b, w, k)'
    PROVE  OwedInv'
<1>1. \A b \in Bindings, k \in Variants : (Unfolded(b, k)' => Unfolded(b, k)) /\ (Unserved(k)' <=> Unserved(k))
  BY DEF Unfolded, Unserved
<1>2. \A k \in Variants, w \in world' \ missed' : w \in world \ missed
  OBVIOUS
<1> SUFFICES ASSUME NEW k \in Variants, NEW w \in world' \ missed'
             PROVE  /\ \A b \in Bindings : Unfolded(b, k)' => Unserved(k)' \/ w \in cached'[k].seen \/ Owes(b, w, k)'
                    /\ cached'[k].state = "warm" => w \in cached'[k].value \/ \E b \in Bindings : Owes(b, w, k)'
  BY DEF OwedInv
<1>3. w \in world \ missed' /\ w \in world \ missed
  OBVIOUS
<1> QED BY <1>1, <1>3 DEF OnInv, OwedInv

LEMMA ScreenRests ==
    ASSUME OnInv, UNCHANGED <<cached, shown>>, missed \subseteq missed',
           \A b \in Bindings, k \in Variants, w \in Writes : Shows(b, w, k) => w \in missed' \/ Shows(b, w, k)'
    PROVE  ShownInv'
<1>1. \A k \in Variants : cached[k].value \subseteq Writes
  BY OnTypes DEF OnEntry
<1> QED BY <1>1 DEF OnInv, ShownInv

(* A queue without its head owes the frame no more, and nothing else.      *)
LEMMA HeadTaken ==
    ASSUME NEW q \in Seq(Writes), q # <<>>
    PROVE  /\ Head(q) \in Writes /\ Tail(q) \in Seq(Writes)
           /\ \A w : (\E i \in DOMAIN q : q[i] = w) =>
                         w = Head(q) \/ \E i \in DOMAIN Tail(q) : Tail(q)[i] = w
<1> DEFINE n == Len(q)
           t == Tail(q)
<1>1. /\ n \in Nat /\ DOMAIN q = 1 .. n /\ Head(q) \in Writes /\ Head(q) = q[1] /\ t \in Seq(Writes)
      /\ Len(t) = n - 1 /\ \A i \in 1 .. n - 1 : t[i] = q[i + 1]
  BY LenProperties, HeadTailProperties
<1>2. DOMAIN t = 1 .. n - 1
  BY <1>1, LenProperties
<1> HIDE DEF n, t
<1>3. ASSUME NEW i \in 1 .. n, i # 1
      PROVE  i - 1 \in 1 .. n - 1 /\ t[i - 1] = q[i]
  <2>1. i - 1 \in 1 .. n - 1 /\ i - 1 + 1 = i
    BY <1>1, <1>3
  <2> QED BY <1>1, <2>1
<1> QED BY <1>1, <1>2, <1>3 DEF t

LEMMA Delivered ==
    ASSUME NEW q \in Seq(Writes), NEW w \in Writes
    PROVE  /\ delivered(q, w) \in Seq(Writes)
           /\ \E i \in DOMAIN delivered(q, w) : delivered(q, w)[i] = w
           /\ \A v : (\E i \in DOMAIN q : q[i] = v) =>
                         v \in dropped(q) \/ \E i \in DOMAIN delivered(q, w) : delivered(q, w)[i] = v
           /\ dropped(q) \subseteq Writes
<1>1. \A t \in Seq(Writes) : /\ Append(t, w) \in Seq(Writes) /\ Append(t, w)[Len(t) + 1] = w
                             /\ DOMAIN Append(t, w) = 1 .. Len(t) + 1
                             /\ DOMAIN t = 1 .. Len(t) /\ Len(t) \in Nat
                             /\ \A i \in 1 .. Len(t) : Append(t, w)[i] = t[i]
  <2> SUFFICES ASSUME NEW t \in Seq(Writes)
               PROVE  /\ Append(t, w) \in Seq(Writes) /\ Append(t, w)[Len(t) + 1] = w
                      /\ DOMAIN Append(t, w) = 1 .. Len(t) + 1
                      /\ DOMAIN t = 1 .. Len(t) /\ Len(t) \in Nat
                      /\ \A i \in 1 .. Len(t) : Append(t, w)[i] = t[i]
    OBVIOUS
  <2>1. /\ Append(t, w) \in Seq(Writes) /\ Len(Append(t, w)) = Len(t) + 1
        /\ Append(t, w)[Len(t) + 1] = w /\ \A i \in 1 .. Len(t) : Append(t, w)[i] = t[i]
    BY AppendProperties
  <2> QED BY <2>1, LenProperties
<1>2. \A t \in Seq(Writes) : /\ \E i \in DOMAIN Append(t, w) : Append(t, w)[i] = w
                             /\ \A v : (\E i \in DOMAIN t : t[i] = v) =>
                                           \E i \in DOMAIN Append(t, w) : Append(t, w)[i] = v
  <2> SUFFICES ASSUME NEW t \in Seq(Writes)
               PROVE  /\ \E i \in DOMAIN Append(t, w) : Append(t, w)[i] = w
                      /\ \A v : (\E i \in DOMAIN t : t[i] = v) =>
                                    \E i \in DOMAIN Append(t, w) : Append(t, w)[i] = v
    OBVIOUS
  <2> DEFINE n == Len(t)
             a == Append(t, w)
  <2>1. /\ DOMAIN a = 1 .. n + 1 /\ DOMAIN t = 1 .. n /\ n \in Nat /\ a[n + 1] = w
        /\ \A i \in 1 .. n : a[i] = t[i]
    BY <1>1
  <2> HIDE DEF n, a
  <2>2. n + 1 \in 1 .. n + 1 /\ \A i \in 1 .. n : i \in 1 .. n + 1
    BY <2>1
  <2> QED BY <2>1, <2>2 DEF a
<1>3. CASE Len(q) >= MaxBuffer
  <2>1. q # <<>>
    BY <1>3, EmptySeq, CacheOnAssumption
  <2>2. delivered(q, w) = Append(Tail(q), w) /\ dropped(q) = {Head(q)}
    BY <1>3 DEF delivered, dropped
  <2> DEFINE t == Tail(q)
             h == Head(q)
  <2>3. /\ h \in Writes /\ t \in Seq(Writes)
        /\ \A v : (\E i \in DOMAIN q : q[i] = v) => v = h \/ \E i \in DOMAIN t : t[i] = v
    BY <2>1, HeadTaken
  <2>4. delivered(q, w) = Append(t, w) /\ dropped(q) = {h}
    BY <2>2
  <2> HIDE DEF t, h
  <2>5. /\ Append(t, w) \in Seq(Writes) /\ \E i \in DOMAIN Append(t, w) : Append(t, w)[i] = w
        /\ \A v : (\E i \in DOMAIN t : t[i] = v) => \E i \in DOMAIN Append(t, w) : Append(t, w)[i] = v
    BY <1>1, <1>2, <2>3
  <2> QED BY <2>3, <2>4, <2>5
<1>4. CASE ~ (Len(q) >= MaxBuffer)
  <2>1. delivered(q, w) = Append(q, w) /\ dropped(q) = {}
    BY <1>4 DEF delivered, dropped
  <2> QED BY <1>1, <1>2, <2>1
<1> QED BY <1>3, <1>4

-----------------------------------------------------------------------------
LEMMA WriteStep ==
    ASSUME OnInv, NEW w \in Writes, Write(w)
    PROVE  OnInv'
<1> DEFINE lost == UNION {dropped(binding[b].queue) : b \in {c \in Bindings : binding[c].link = "live"}}
           late == {v \in {w} : \E b \in Bindings : \/ binding[b].link = "opening"
                                                    \/ binding[b].link = "lost" /\ ~binding[b].covers}
<1>1. /\ world' = world \cup {w} /\ missed' = missed \cup lost \cup late
      /\ binding' = [b \in Bindings |->
             IF binding[b].link = "live" THEN [binding[b] EXCEPT !.queue = delivered(@, w)] ELSE binding[b]]
      /\ UNCHANGED <<cached, shown, losses>>
  <2>1. missed' = missed \cup lost \cup late
    BY DEF Write
  <2> HIDE DEF lost, late
  <2> QED BY <2>1 DEF Write
<1>2. /\ lost \subseteq Writes
      /\ \A b \in Bindings : binding[b].link = "live" => dropped(binding[b].queue) \subseteq lost
  <2>1. \A b \in Bindings : dropped(binding[b].queue) \subseteq Writes
    BY OnTypes, Delivered
  <2> QED BY <2>1
<1>3. /\ late \subseteq Writes
      /\ \A b \in Bindings : binding[b].link = "opening" => w \in late
      /\ \A b \in Bindings : binding[b].link = "lost" /\ ~binding[b].covers => w \in late
  OBVIOUS
<1> HIDE DEF lost, late
<1>4. \A b \in Bindings :
          /\ binding'[b] \in Binding
          /\ binding'[b].queue = IF binding[b].link = "live" THEN delivered(binding[b].queue, w) ELSE binding[b].queue
          /\ binding'[b].pc = binding[b].pc /\ binding'[b].link = binding[b].link
          /\ binding'[b].covers = binding[b].covers /\ binding'[b].frame = binding[b].frame
          /\ binding'[b].todo = binding[b].todo /\ binding'[b].at = binding[b].at
          /\ binding'[b].orphan = binding[b].orphan /\ binding'[b].touched = binding[b].touched
  <2> SUFFICES ASSUME NEW b \in Bindings
               PROVE  /\ binding'[b] \in Binding
                      /\ binding'[b].queue = IF binding[b].link = "live" THEN delivered(binding[b].queue, w) ELSE binding[b].queue
                      /\ binding'[b].pc = binding[b].pc /\ binding'[b].link = binding[b].link
                      /\ binding'[b].covers = binding[b].covers /\ binding'[b].frame = binding[b].frame
                      /\ binding'[b].todo = binding[b].todo /\ binding'[b].at = binding[b].at
                      /\ binding'[b].orphan = binding[b].orphan /\ binding'[b].touched = binding[b].touched
    OBVIOUS
  <2> DEFINE q == delivered(binding[b].queue, w)
  <2>1. q \in Seq(Writes) /\ binding[b] \in Binding
    BY OnTypes, Delivered
  <2>2. binding'[b] = IF binding[b].link = "live" THEN [binding[b] EXCEPT !.queue = q] ELSE binding[b]
    BY <1>1
  <2> HIDE DEF q
  <2>3. CASE binding[b].link = "live"
    BY <2>1, <2>2, <2>3 DEF Binding, q
  <2>4. CASE binding[b].link # "live"
    BY <2>1, <2>2, <2>4
  <2> QED BY <2>3, <2>4
<1>5. \A b \in Bindings : binding[b].link \in {"live", "lost", "opening"} /\ binding[b].covers \in BOOLEAN
  BY OnTypes DEF Binding
<1>6. \A b \in Bindings, k \in Variants, v \in Writes : Owes(b, v, k) => v \in missed' \/ Owes(b, v, k)'
  <2> SUFFICES ASSUME NEW b \in Bindings, NEW k \in Variants, NEW v \in Writes, Owes(b, v, k), v \notin missed'
               PROVE  Owes(b, v, k)'
    OBVIOUS
  <2>1. CASE \E i \in DOMAIN binding[b].queue : binding[b].queue[i] = v
    <3>1. CASE binding[b].link = "live"
      <4>1. v \notin dropped(binding[b].queue)
        BY <1>1, <1>2, <3>1
      <4>2. \E i \in DOMAIN delivered(binding[b].queue, w) : delivered(binding[b].queue, w)[i] = v
        <5> DEFINE q == binding[b].queue
        <5>1. q \in Seq(Writes) /\ v \notin dropped(q) /\ \E i \in DOMAIN q : q[i] = v
          BY <2>1, <4>1, OnTypes
        <5> HIDE DEF q
        <5>2. \E i \in DOMAIN delivered(q, w) : delivered(q, w)[i] = v
          <6>1. \A x : (\E i \in DOMAIN q : q[i] = x) =>
                           x \in dropped(q) \/ \E i \in DOMAIN delivered(q, w) : delivered(q, w)[i] = x
            BY <5>1, Delivered
          <6> QED BY <5>1, <6>1
        <5> QED BY <5>2 DEF q
      <4> QED BY <1>4, <3>1, <4>2 DEF Owes
    <3>2. CASE binding[b].link # "live"
      BY <1>4, <2>1, <3>2 DEF Owes
    <3> QED BY <3>1, <3>2
  <2>2. CASE ~ \E i \in DOMAIN binding[b].queue : binding[b].queue[i] = v
    BY <1>4, <2>2 DEF Owes
  <2> QED BY <2>1, <2>2
<1>7. \A b \in Bindings, k \in Variants : w \in missed' \/ Owes(b, w, k)'
  <2> SUFFICES ASSUME NEW b \in Bindings, NEW k \in Variants, w \notin missed'
               PROVE  Owes(b, w, k)'
    OBVIOUS
  <2>1. w \notin late
    BY <1>1
  <2>2. binding[b].link = "live" \/ (binding[b].link = "lost" /\ binding[b].covers)
    BY <1>3, <1>5, <2>1
  <2>3. CASE binding[b].link = "live"
    <3>1. \E i \in DOMAIN delivered(binding[b].queue, w) : delivered(binding[b].queue, w)[i] = w
      BY OnTypes, Delivered
    <3> QED BY <1>4, <2>3, <3>1 DEF Owes
  <2> QED BY <1>4, <2>2, <2>3 DEF Owes
<1>8. \A b \in Bindings, k \in Variants : (Unfolded(b, k)' <=> Unfolded(b, k)) /\ (Unserved(k)' <=> Unserved(k))
  BY <1>1, <1>4 DEF Unfolded, Unserved
<1>9. OwedInv'
  <2> SUFFICES ASSUME NEW k \in Variants, NEW v \in world' \ missed'
               PROVE  /\ \A b \in Bindings : Unfolded(b, k)' => Unserved(k)' \/ v \in cached'[k].seen \/ Owes(b, v, k)'
                      /\ cached'[k].state = "warm" => v \in cached'[k].value \/ \E b \in Bindings : Owes(b, v, k)'
    BY DEF OwedInv
  <2>1. CASE v = w
    <3>1. \A b \in Bindings : Owes(b, v, k)'
      BY <1>7, <2>1
    <3> QED BY <3>1, CacheOnAssumption
  <2>2. CASE v # w
    <3>1. v \in world \ missed /\ v \in Writes /\ v \notin missed'
      BY <1>1, <2>2, OnTypes
    <3>2. \A b \in Bindings : Owes(b, v, k) => Owes(b, v, k)'
      BY <1>6, <3>1
    <3> QED BY <1>1, <1>8, <3>1, <3>2 DEF OnInv, OwedInv
  <2> QED BY <2>1, <2>2
<1>10. ShownInv'
  <2>1. \A b \in Bindings, k \in Variants, v \in Writes : Shows(b, v, k) => Shows(b, v, k)'
    BY <1>4 DEF Shows
  <2> QED BY <1>1, <2>1, ScreenRests
<1>11. LoopInv'
  BY <1>4 DEF OnInv, LoopInv
<1>12. OnTypeOK'
  <2>1. binding' \in [Bindings -> Binding]
    BY <1>1, <1>4
  <2>2. world' \subseteq Writes /\ missed' \subseteq Writes
    BY <1>1, <1>2, <1>3, OnTypes
  <2> QED BY <1>1, <2>1, <2>2 DEF OnInv, OnTypeOK
<1> QED BY <1>9, <1>10, <1>11, <1>12 DEF OnInv

LEMMA CallStep ==
    ASSUME OnInv, NEW k \in Variants, Serve(k) \/ Land(k)
    PROVE  OnInv'
<1>1. /\ UNCHANGED <<world, binding, missed, losses>> /\ cached[k].state = "loading"
      /\ cached[k] \in OnEntry
  BY OnTypes DEF Serve, Land
<1>2. CASE Serve(k)
  <2> DEFINE e == [cached[k] EXCEPT !.served = TRUE, !.seen = world]
  <2>1. cached' = [cached EXCEPT ![k] = e] /\ shown' = shown
    BY <1>2, OnTypes DEF Serve, OnEntry
  <2>2. e \in OnEntry /\ e.state = "loading" /\ e.seen = world
    BY <1>1, OnTypes DEF OnEntry
  <2> HIDE DEF e
  <2>3. /\ cached' \in [Variants -> OnEntry] /\ cached'[k] = e
        /\ \A j \in Variants : j # k => cached'[j] = cached[j]
    BY <2>1, <2>2, OneEntry
  <2>4. \A b \in Bindings, j \in Variants : \A w : (Owes(b, w, j)' <=> Owes(b, w, j)) /\ (Shows(b, w, j)' <=> Shows(b, w, j))
    BY <1>1 DEF Owes, Shows
  <2>5. OwedInv' /\ ShownInv'
    <3> SUFFICES ASSUME NEW j \in Variants
                 PROVE  /\ \A w \in world' \ missed' :
                            /\ \A b \in Bindings : Unfolded(b, j)' => Unserved(j)' \/ w \in cached'[j].seen \/ Owes(b, w, j)'
                            /\ cached'[j].state = "warm" => w \in cached'[j].value \/ \E b \in Bindings : Owes(b, w, j)'
                        /\ cached'[j].state # "loading" => cached'[j].seen \subseteq shown'[j]
                        /\ cached'[j].state = "warm" =>
                               /\ cached'[j].seen \subseteq cached'[j].value
                               /\ \A w \in cached'[j].value : w \in missed' \/ w \in shown'[j] \/ \E b \in Bindings : Shows(b, w, j)'
      BY DEF OwedInv, ShownInv
    <3>1. CASE j = k
      BY <1>1, <2>2, <2>3, <3>1
    <3>2. CASE j # k
      <4>1. \A b \in Bindings : (Unfolded(b, j)' <=> Unfolded(b, j)) /\ (Unserved(j)' <=> Unserved(j))
        BY <1>1, <2>3, <3>2 DEF Unfolded, Unserved
      <4> QED BY <1>1, <2>1, <2>3, <2>4, <3>2, <4>1 DEF OnInv, OwedInv, ShownInv
    <3> QED BY <3>1, <3>2
  <2>6. OnTypeOK' /\ LoopInv'
    BY <1>1, <2>1, <2>3 DEF OnInv, OnTypeOK, LoopInv
  <2> QED BY <2>5, <2>6 DEF OnInv
<1>3. CASE Land(k)
  <2>1. PICK s \in {"cold", "error"} : cached' = [cached EXCEPT ![k].state = s]
    BY <1>3 DEF Land
  <2> DEFINE e == [cached[k] EXCEPT !.state = s]
  <2>2. cached' = [cached EXCEPT ![k] = e] /\ shown' = [shown EXCEPT ![k] = cached[k].seen] /\ cached[k].served
    BY <1>3, <2>1, OnTypes DEF Land, OnEntry
  <2>3. e \in OnEntry /\ e.state \in {"cold", "error"} /\ e.seen = cached[k].seen
    BY <1>1, <2>1 DEF OnEntry
  <2> HIDE DEF e
  <2>4. /\ cached' \in [Variants -> OnEntry] /\ cached'[k] = e
        /\ \A j \in Variants : j # k => cached'[j] = cached[j]
    BY <2>2, <2>3, OneEntry
  <2>5. /\ shown' \in [Variants -> SUBSET Writes] /\ shown'[k] = cached[k].seen
        /\ \A j \in Variants : j # k => shown'[j] = shown[j]
    BY <1>1, <2>2, OnTypes DEF OnEntry
  <2>6. \A b \in Bindings, j \in Variants : \A w : (Owes(b, w, j)' <=> Owes(b, w, j)) /\ (Shows(b, w, j)' <=> Shows(b, w, j))
    BY <1>1 DEF Owes, Shows
  <2>7. OwedInv' /\ ShownInv'
    <3> SUFFICES ASSUME NEW j \in Variants
                 PROVE  /\ \A w \in world' \ missed' :
                            /\ \A b \in Bindings : Unfolded(b, j)' => Unserved(j)' \/ w \in cached'[j].seen \/ Owes(b, w, j)'
                            /\ cached'[j].state = "warm" => w \in cached'[j].value \/ \E b \in Bindings : Owes(b, w, j)'
                        /\ cached'[j].state # "loading" => cached'[j].seen \subseteq shown'[j]
                        /\ cached'[j].state = "warm" =>
                               /\ cached'[j].seen \subseteq cached'[j].value
                               /\ \A w \in cached'[j].value : w \in missed' \/ w \in shown'[j] \/ \E b \in Bindings : Shows(b, w, j)'
      BY DEF OwedInv, ShownInv
    <3>1. CASE j = k
      <4>1. \A w \in world \ missed : \A b \in Bindings : w \in cached[k].seen \/ Owes(b, w, k)
        BY <1>1, <2>2 DEF OnInv, OwedInv, Unfolded, Unserved
      <4> QED BY <1>1, <2>3, <2>4, <2>5, <2>6, <3>1, <4>1
    <3>2. CASE j # k
      <4>1. \A b \in Bindings : (Unfolded(b, j)' <=> Unfolded(b, j)) /\ (Unserved(j)' <=> Unserved(j))
        BY <1>1, <2>4, <3>2 DEF Unfolded, Unserved
      <4> QED BY <1>1, <2>4, <2>5, <2>6, <3>2, <4>1 DEF OnInv, OwedInv, ShownInv
    <3> QED BY <3>1, <3>2
  <2>8. OnTypeOK' /\ LoopInv'
    BY <1>1, <2>4, <2>5 DEF OnInv, OnTypeOK, LoopInv
  <2> QED BY <2>7, <2>8 DEF OnInv
<1> QED BY <1>2, <1>3

(* Everything of the function is dropped: nothing is folded into anything, *)
(* and a patch under way visits every key again.                           *)
LEMMA Invalidated ==
    ASSUME OnInv, NEW bs \in [Bindings -> Binding], invalidated(bs), UNCHANGED <<world, shown, missed, losses>>,
           \A b \in Bindings : /\ bs[b].at = binding[b].at /\ bs[b].pc = binding[b].pc
    PROVE  OnInv'
<1>1. /\ cached' \in [Variants -> OnEntry]
      /\ \A k \in Variants : cached'[k].state = "loading" /\ ~ cached'[k].served
  BY DEF invalidated, Called, OnEntry
<1>2. \A b \in Bindings :
          /\ binding'[b] \in Binding /\ binding'[b].at = bs[b].at /\ binding'[b].pc = bs[b].pc
          /\ binding'[b].pc = "patching" => binding'[b].todo = Variants
  <2> SUFFICES ASSUME NEW b \in Bindings
               PROVE  /\ binding'[b] \in Binding /\ binding'[b].at = bs[b].at /\ binding'[b].pc = bs[b].pc
                      /\ binding'[b].pc = "patching" => binding'[b].todo = Variants
    OBVIOUS
  <2> DEFINE or == bs[b].orphan \/ bs[b].at # {}
             td == IF bs[b].pc = "patching" THEN Variants ELSE bs[b].todo
  <2>1. binding'[b] = [bs[b] EXCEPT !.orphan = or, !.todo = td]
    BY DEF invalidated
  <2>2. or \in BOOLEAN /\ td \in SUBSET Variants /\ bs[b] \in Binding /\ (bs[b].pc = "patching" => td = Variants)
    BY DEF Binding
  <2> HIDE DEF or, td
  <2> QED BY <2>1, <2>2 DEF Binding
<1>3. binding' \in [Bindings -> Binding]
  BY <1>2 DEF invalidated
<1>4. OnTypeOK'
  BY <1>1, <1>3 DEF OnInv, OnTypeOK
<1>5. LoopInv'
  BY <1>2 DEF OnInv, LoopInv
<1>6. OwedInv' /\ ShownInv'
  BY <1>1 DEF OwedInv, ShownInv, Unserved
<1> QED BY <1>4, <1>5, <1>6 DEF OnInv

LEMMA DropStep ==
    ASSUME OnInv, NEW b \in Bindings, Drop(b)
    PROVE  OnInv'
<1> DEFINE t == Tail(binding[b].queue)
           r == [binding[b] EXCEPT !.queue = t, !.covers = TRUE]
<1>1. t \in Seq(Writes) /\ binding[b] \in Binding
  BY OnTypes, HeadTaken DEF Drop, Pulls
<1>2. [binding EXCEPT ![b].queue = Tail(@), ![b].covers = TRUE] = [binding EXCEPT ![b] = r]
  BY <1>1, OnTypes DEF Binding
<1> HIDE DEF t
<1>3. r \in Binding /\ r.at = binding[b].at /\ r.pc = binding[b].pc
  BY <1>1 DEF Binding
<1>4. invalidated([binding EXCEPT ![b].queue = Tail(@), ![b].covers = TRUE]) /\ UNCHANGED <<world, shown, missed, losses>>
  BY DEF Drop
<1> HIDE DEF r
<1> DEFINE bs == [binding EXCEPT ![b] = r]
<1>5. /\ bs \in [Bindings -> Binding] /\ \A c \in Bindings : bs[c].at = binding[c].at /\ bs[c].pc = binding[c].pc
  BY <1>3, OnTypes
<1>6. invalidated(bs)
  BY <1>2, <1>4
<1> HIDE DEF bs
<1> QED BY <1>4, <1>5, <1>6, Invalidated

LEMMA NoticeStep ==
    ASSUME OnInv, NEW b \in Bindings, Notice(b)
    PROVE  OnInv'
<1> DEFINE r == [binding[b] EXCEPT !.link = "opening"]
<1>1. [binding EXCEPT ![b].link = "opening"] = [binding EXCEPT ![b] = r]
  BY OnTypes DEF Binding
<1>2. /\ r \in Binding /\ r.at = binding[b].at /\ r.pc = binding[b].pc /\ r.queue = binding[b].queue
      /\ r.todo = binding[b].todo /\ r.frame = binding[b].frame /\ r.orphan = binding[b].orphan
      /\ r.touched = binding[b].touched
  BY OnTypes DEF Binding
<1>3. UNCHANGED <<world, shown, missed, losses>> /\ binding[b].pc = "idle"
  BY DEF Notice, AtLoss
<1> HIDE DEF r
<1>4. CASE binding[b].covers
  <2> DEFINE bs == [binding EXCEPT ![b] = r]
  <2>1. /\ bs \in [Bindings -> Binding] /\ \A c \in Bindings : bs[c].at = binding[c].at /\ bs[c].pc = binding[c].pc
    BY <1>2, OnTypes
  <2>2. invalidated(bs)
    BY <1>1, <1>4 DEF Notice
  <2> HIDE DEF bs
  <2> QED BY <1>3, <2>1, <2>2, Invalidated
<1>5. CASE ~ binding[b].covers
  <2>1. binding' = [binding EXCEPT ![b] = r] /\ cached' = cached
    BY <1>1, <1>5 DEF Notice
  <2>2. /\ binding' \in [Bindings -> Binding] /\ binding'[b] = r
        /\ \A c \in Bindings : c # b => binding'[c] = binding[c]
    BY <1>2, <2>1, OneMoves
  <2>3. \A c \in Bindings, k \in Variants : \A w : (Owes(c, w, k) => Owes(c, w, k)') /\ (Shows(c, w, k) => Shows(c, w, k)')
    BY <1>2, <1>5, <2>2 DEF Owes, Shows
  <2>4. \A c \in Bindings : binding'[c].at = binding[c].at /\ binding'[c].orphan = binding[c].orphan
    BY <1>2, <2>2
  <2>5. OwedInv'
    BY <1>3, <2>1, <2>3, <2>4, StoreRests
  <2>6. ShownInv'
    BY <1>3, <2>1, <2>3, ScreenRests
  <2>7. OnTypeOK' /\ LoopInv'
    BY <1>2, <1>3, <2>1, <2>2 DEF OnInv, OnTypeOK, LoopInv
  <2> QED BY <2>5, <2>6, <2>7 DEF OnInv
<1> QED BY <1>4, <1>5

LEMMA LinkStep ==
    ASSUME OnInv, NEW b \in Bindings, Lose(b) \/ Reopen(b)
    PROVE  OnInv'
<1>1. PICK to \in {"lost", "live"} :
          /\ binding' = [binding EXCEPT ![b].link = to]
          /\ losses' \in 0 .. MaxLosses /\ UNCHANGED <<world, cached, shown, missed>>
          /\ binding[b].link # "lost"
  <2>1. CASE Lose(b)
    <3>1. losses' \in 0 .. MaxLosses
      BY <2>1, OnTypes DEF Lose
    <3> QED BY <2>1, <3>1 DEF Lose
  <2>2. CASE Reopen(b)
    BY <2>2, OnTypes DEF Reopen
  <2> QED BY <2>1, <2>2
<1> DEFINE r == [binding[b] EXCEPT !.link = to]
<1>2. binding' = [binding EXCEPT ![b] = r]
  BY <1>1, OnTypes DEF Binding
<1>3. /\ r \in Binding /\ r.at = binding[b].at /\ r.pc = binding[b].pc /\ r.queue = binding[b].queue
      /\ r.todo = binding[b].todo /\ r.frame = binding[b].frame /\ r.orphan = binding[b].orphan
      /\ r.touched = binding[b].touched
  BY OnTypes DEF Binding
<1> HIDE DEF r
<1>4. /\ binding' \in [Bindings -> Binding] /\ binding'[b] = r
      /\ \A c \in Bindings : c # b => binding'[c] = binding[c]
  BY <1>2, <1>3, OneMoves
<1>5. \A c \in Bindings, k \in Variants : \A w : (Owes(c, w, k) => Owes(c, w, k)') /\ (Shows(c, w, k) => Shows(c, w, k)')
  BY <1>1, <1>3, <1>4 DEF Owes, Shows
<1>6. \A c \in Bindings : binding'[c].at = binding[c].at /\ binding'[c].orphan = binding[c].orphan
  BY <1>3, <1>4
<1>7. OwedInv'
  BY <1>1, <1>5, <1>6, StoreRests
<1>8. ShownInv'
  BY <1>1, <1>5, ScreenRests
<1>9. OnTypeOK' /\ LoopInv'
  BY <1>1, <1>3, <1>4 DEF OnInv, OnTypeOK, LoopInv
<1> QED BY <1>7, <1>8, <1>9 DEF OnInv

(* A patch sets out, comes to an entry it has to wait for, and ends.       *)
LEMMA PatchMoves ==
    ASSUME OnInv, NEW b \in Bindings,
           \/ Patch(b) \/ PatchDone(b)
           \/ \E k \in Variants : PatchWaits(b, k) \/ PatchOrphan(b, k) \/ PatchThrows(b, k)
    PROVE  OnInv'
<1>1. CASE Patch(b)
  <2> DEFINE t == Tail(binding[b].queue)
             h == Head(binding[b].queue)
             r == [binding[b] EXCEPT !.queue = t, !.covers = TRUE, !.frame = h,
                       !.pc = "patching", !.todo = Variants, !.touched = {}]
  <2>1. /\ t \in Seq(Writes) /\ h \in Writes /\ binding[b] \in Binding
        /\ \A w : (\E i \in DOMAIN binding[b].queue : binding[b].queue[i] = w) =>
                      w = h \/ \E i \in DOMAIN t : t[i] = w
    BY <1>1, OnTypes, HeadTaken DEF Patch, Pulls
  <2>2. /\ binding' = [binding EXCEPT ![b] = r] /\ UNCHANGED <<world, cached, shown, missed, losses>>
        /\ binding[b].pc = "idle"
    BY <1>1, OnTypes DEF Patch, Pulls, Binding
  <2> HIDE DEF t, h
  <2>3. /\ r \in Binding /\ r.at = binding[b].at /\ r.pc = "patching" /\ r.queue = t
        /\ r.todo = Variants /\ r.frame = h /\ r.orphan = binding[b].orphan
        /\ r.link = binding[b].link /\ r.covers = TRUE
    BY <2>1 DEF Binding
  <2> HIDE DEF r
  <2>4. /\ binding' \in [Bindings -> Binding] /\ binding'[b] = r
        /\ \A c \in Bindings : c # b => binding'[c] = binding[c]
    BY <2>2, <2>3, OneMoves
  <2>5. \A c \in Bindings, k \in Variants : \A w : (Owes(c, w, k) => Owes(c, w, k)') /\ (Shows(c, w, k) => Shows(c, w, k)')
    <3> SUFFICES ASSUME NEW c \in Bindings, NEW k \in Variants, NEW w
                 PROVE  (Owes(c, w, k) => Owes(c, w, k)') /\ (Shows(c, w, k) => Shows(c, w, k)')
      OBVIOUS
    <3>1. CASE c # b
      BY <2>4, <3>1 DEF Owes, Shows
    <3>2. CASE c = b
      <4>1. ~ Shows(b, w, k)
        BY <2>2 DEF Shows
      <4>2. ASSUME Owes(b, w, k)
            PROVE  Owes(b, w, k)'
        <5>1. CASE \E i \in DOMAIN binding[b].queue : binding[b].queue[i] = w
          <6>1. w = h \/ \E i \in DOMAIN t : t[i] = w
            BY <2>1, <5>1
          <6>2. w = h => k \in binding'[b].todo
            BY <2>3, <2>4
          <6> QED BY <2>3, <2>4, <6>1, <6>2 DEF Owes
        <5>2. CASE binding[b].link = "lost" /\ binding[b].covers
          BY <2>3, <2>4, <5>2 DEF Owes
        <5> QED BY <2>2, <4>2, <5>1, <5>2 DEF Owes
      <4> QED BY <3>2, <4>1, <4>2
    <3> QED BY <3>1, <3>2
  <2>6. \A c \in Bindings : binding'[c].at = binding[c].at /\ binding'[c].orphan = binding[c].orphan
    BY <2>3, <2>4
  <2>7. OwedInv'
    BY <2>2, <2>5, <2>6, StoreRests
  <2>8. ShownInv'
    BY <2>2, <2>5, ScreenRests
  <2>9. OnTypeOK' /\ LoopInv'
    BY <2>2, <2>3, <2>4 DEF OnInv, OnTypeOK, LoopInv
  <2> QED BY <2>7, <2>8, <2>9 DEF OnInv
<1>2. ASSUME NEW k \in Variants, PatchWaits(b, k)
      PROVE  OnInv'
  <2> DEFINE r == [binding[b] EXCEPT !.todo = binding[b].todo \ {k}, !.at = {k}, !.orphan = FALSE]
  <2>1. /\ binding' = [binding EXCEPT ![b] = r] /\ UNCHANGED <<world, cached, shown, missed, losses>>
        /\ binding[b].pc = "patching" /\ k \in binding[b].todo /\ cached[k].state # "warm"
        /\ binding[b].at = {}
    BY <1>2, OnTypes DEF PatchWaits, Binding
  <2>2. /\ r \in Binding /\ r.at = {k} /\ r.pc = "patching" /\ r.queue = binding[b].queue
        /\ r.todo = binding[b].todo \ {k} /\ r.frame = binding[b].frame /\ r.orphan = FALSE
        /\ r.touched = binding[b].touched /\ r.link = binding[b].link /\ r.covers = binding[b].covers
    BY <2>1, OnTypes DEF Binding
  <2> HIDE DEF r
  <2>3. /\ binding' \in [Bindings -> Binding] /\ binding'[b] = r
        /\ \A c \in Bindings : c # b => binding'[c] = binding[c]
    BY <2>1, <2>2, OneMoves
  <2>4. \A c \in Bindings, j \in Variants : \A w : (Owes(c, w, j) => Owes(c, w, j)') /\ (Shows(c, w, j) => Shows(c, w, j)')
    BY <2>1, <2>2, <2>3 DEF Owes, Shows
  <2>5. OwedInv'
    BY <2>1, <2>2, <2>3, <2>4, StoreRests
  <2>6. ShownInv'
    BY <2>1, <2>4, ScreenRests
  <2>7. OnTypeOK' /\ LoopInv'
    BY <2>1, <2>2, <2>3 DEF OnInv, OnTypeOK, LoopInv
  <2> QED BY <2>5, <2>6, <2>7 DEF OnInv
<1>3. ASSUME NEW k \in Variants, PatchOrphan(b, k)
      PROVE  OnInv'
  <2> DEFINE r == [binding[b] EXCEPT !.at = {}, !.touched = binding[b].touched \cup {k}]
  <2>1. /\ binding' = [binding EXCEPT ![b] = r] /\ UNCHANGED <<world, cached, shown, missed, losses>>
        /\ k \in binding[b].at /\ binding[b].orphan
    BY <1>3, OnTypes DEF PatchOrphan, resumed, Binding
  <2>2. /\ r \in Binding /\ r.at = {} /\ r.pc = binding[b].pc /\ r.queue = binding[b].queue
        /\ r.todo = binding[b].todo /\ r.frame = binding[b].frame /\ r.orphan = binding[b].orphan
        /\ r.touched = binding[b].touched \cup {k} /\ r.link = binding[b].link /\ r.covers = binding[b].covers
    BY <2>1, OnTypes DEF Binding
  <2> HIDE DEF r
  <2>3. /\ binding' \in [Bindings -> Binding] /\ binding'[b] = r
        /\ \A c \in Bindings : c # b => binding'[c] = binding[c]
    BY <2>1, <2>2, OneMoves
  <2>4. binding[b].todo = Variants
    BY <2>1 DEF OnInv, LoopInv
  <2>5. \A c \in Bindings, j \in Variants : \A w : (Owes(c, w, j) => Owes(c, w, j)') /\ (Shows(c, w, j) => Shows(c, w, j)')
    BY <2>1, <2>2, <2>3, <2>4 DEF Owes, Shows
  <2>6. OwedInv'
    BY <2>1, <2>2, <2>3, <2>5, StoreRests
  <2>7. ShownInv'
    BY <2>1, <2>5, ScreenRests
  <2>8. OnTypeOK' /\ LoopInv'
    BY <2>1, <2>2, <2>3 DEF OnInv, OnTypeOK, LoopInv
  <2> QED BY <2>6, <2>7, <2>8 DEF OnInv
<1>4. ASSUME NEW k \in Variants, PatchThrows(b, k)
      PROVE  OnInv'
  <2> DEFINE r == [binding[b] EXCEPT !.pc = "idle", !.at = {}, !.todo = {}]
  <2>1. /\ binding' = [binding EXCEPT ![b] = r] /\ UNCHANGED <<world, cached, shown, losses>>
        /\ missed' = missed \cup {binding[b].frame}
    BY <1>4, OnTypes DEF PatchThrows, Binding
  <2>2. /\ r \in Binding /\ r.at = {} /\ r.queue = binding[b].queue
        /\ r.frame = binding[b].frame /\ r.orphan = binding[b].orphan
        /\ r.link = binding[b].link /\ r.covers = binding[b].covers
    BY <2>1, OnTypes DEF Binding
  <2> HIDE DEF r
  <2>3. /\ binding' \in [Bindings -> Binding] /\ binding'[b] = r
        /\ \A c \in Bindings : c # b => binding'[c] = binding[c]
    BY <2>1, <2>2, OneMoves
  <2>4. \A c \in Bindings, j \in Variants : \A w : w \notin missed' => (Owes(c, w, j) => Owes(c, w, j)') /\ (Shows(c, w, j) => Shows(c, w, j)')
    BY <2>1, <2>2, <2>3 DEF Owes, Shows
  <2>5. OwedInv'
    BY <2>1, <2>2, <2>3, <2>4, StoreRests
  <2>6. ShownInv'
    BY <2>1, <2>4, ScreenRests
  <2>7. OnTypeOK' /\ LoopInv'
    BY <2>1, <2>2, <2>3, OnTypes DEF OnInv, OnTypeOK, LoopInv
  <2> QED BY <2>5, <2>6, <2>7 DEF OnInv
<1>5. CASE PatchDone(b)
  <2> DEFINE r == [binding[b] EXCEPT !.pc = "idle"]
  <2>1. /\ binding' = [binding EXCEPT ![b] = r] /\ UNCHANGED <<world, cached, missed, losses>>
        /\ binding[b].at = {} /\ binding[b].todo = {}
        /\ shown' = [k \in Variants |-> IF k \in binding[b].touched /\ cached[k].state = "warm"
                                THEN cached[k].value ELSE shown[k]]
    BY <1>5, OnTypes DEF PatchDone, Binding
  <2>2. /\ r \in Binding /\ r.at = {} /\ r.queue = binding[b].queue
        /\ r.todo = {} /\ r.frame = binding[b].frame /\ r.orphan = binding[b].orphan
        /\ r.link = binding[b].link /\ r.covers = binding[b].covers
    BY <2>1, OnTypes DEF Binding
  <2> HIDE DEF r
  <2>3. /\ binding' \in [Bindings -> Binding] /\ binding'[b] = r
        /\ \A c \in Bindings : c # b => binding'[c] = binding[c]
    BY <2>1, <2>2, OneMoves
  <2>4. \A c \in Bindings, j \in Variants : \A w : (Owes(c, w, j) => Owes(c, w, j)') /\ (c # b => (Shows(c, w, j) => Shows(c, w, j)'))
    BY <2>1, <2>2, <2>3 DEF Owes, Shows
  <2>5. OwedInv'
    BY <2>1, <2>2, <2>3, <2>4, StoreRests
  <2>6. shown' \in [Variants -> SUBSET Writes]
    BY <2>1, OnTypes DEF OnEntry
  <2>7. ShownInv'
    <3> SUFFICES ASSUME NEW k \in Variants
                 PROVE  /\ cached[k].state # "loading" => cached[k].seen \subseteq shown'[k]
                        /\ cached[k].state = "warm" =>
                             /\ cached[k].seen \subseteq cached[k].value
                             /\ \A w \in cached[k].value : w \in missed \/ w \in shown'[k] \/ \E c \in Bindings : Shows(c, w, k)'
      BY <2>1 DEF ShownInv
    <3>1. CASE k \in binding[b].touched /\ cached[k].state = "warm"
      BY <2>1, <3>1 DEF OnInv, ShownInv
    <3>2. CASE ~ (k \in binding[b].touched /\ cached[k].state = "warm")
      <4>1. shown'[k] = shown[k]
        BY <2>1, <3>2
      <4>2. cached[k].state = "warm" => \A w : ~ Shows(b, w, k)
        BY <3>2 DEF Shows
      <4> QED BY <2>4, <4>1, <4>2 DEF OnInv, ShownInv
    <3> QED BY <3>1, <3>2
  <2>8. OnTypeOK' /\ LoopInv'
    BY <2>1, <2>2, <2>3, <2>6 DEF OnInv, OnTypeOK, LoopInv
  <2> QED BY <2>5, <2>7, <2>8 DEF OnInv
<1> QED BY <1>1, <1>2, <1>3, <1>4, <1>5

(* A fold into a warm entry, or into the answer a patch waited for.        *)
LEMMA FoldStep ==
    ASSUME OnInv, NEW b \in Bindings, NEW k \in Variants, PatchWarm(b, k) \/ PatchResumes(b, k)
    PROVE  OnInv'
<1>0. PICK f \in Writes : f = binding[b].frame
  BY OnTypes
<1> DEFINE base == IF PatchWarm(b, k) THEN cached[k].value ELSE cached[k].seen
           e == [cached[k] EXCEPT !.value = base \cup {f}, !.state = "warm"]
<1>1. /\ cached' = [cached EXCEPT ![k] = e] /\ UNCHANGED <<world, shown, missed, losses>>
      /\ binding[b] \in Binding /\ cached[k] \in OnEntry
      /\ base \subseteq Writes
  <2>1. CASE PatchWarm(b, k)
    BY <1>0, <2>1, OnTypes DEF PatchWarm, Fold, OnEntry
  <2>2. CASE ~ PatchWarm(b, k)
    BY <1>0, <2>2, OnTypes DEF PatchResumes, Fold, OnEntry
  <2> QED BY <2>1, <2>2
<1>2. PICK rest \in SUBSET Variants :
          /\ binding' = [binding EXCEPT ![b] = [binding[b] EXCEPT !.todo = rest, !.at = {}, !.touched = binding[b].touched \cup {k}]]
          /\ binding[b].todo \cup binding[b].at \subseteq rest \cup {k}
  <2>1. CASE PatchWarm(b, k)
    <3>1. /\ binding[b].at = {} /\ binding[b].todo \in SUBSET Variants
          /\ binding' = [binding EXCEPT ![b] = [binding[b] EXCEPT !.todo = binding[b].todo \ {k}, !.at = {}, !.touched = binding[b].touched \cup {k}]]
      <4>1. /\ binding[b].at = {}
            /\ binding' = [binding EXCEPT ![b].todo = binding[b].todo \ {k}, ![b].touched = binding[b].touched \cup {k}]
        BY <2>1 DEF PatchWarm
      <4>2. binding[b] \in Binding
        BY OnTypes
      <4>3. [binding[b] EXCEPT !.todo = binding[b].todo \ {k}, !.touched = binding[b].touched \cup {k}]
            = [binding[b] EXCEPT !.todo = binding[b].todo \ {k}, !.at = {}, !.touched = binding[b].touched \cup {k}]
        BY <4>1, <4>2 DEF Binding
      <4>4. binding[b].todo \in SUBSET Variants
        BY <4>2 DEF Binding
      <4> QED BY <4>1, <4>3, <4>4
    <3> QED BY <3>1
  <2>2. CASE PatchResumes(b, k)
    <3>1. binding[b].at = {k} /\ binding[b].todo \in SUBSET Variants
      BY <2>2, OnTypes DEF PatchResumes, Binding, OnInv, LoopInv
    <3>2. binding' = [binding EXCEPT ![b] = [binding[b] EXCEPT !.todo = binding[b].todo, !.at = {}, !.touched = binding[b].touched \cup {k}]]
      BY <2>2, OnTypes DEF PatchResumes, resumed, Binding
    <3>3. binding[b].todo \cup binding[b].at \subseteq binding[b].todo \cup {k}
      BY <3>1
    <3> QED BY <3>1, <3>2, <3>3
  <2> QED BY <2>1, <2>2
<1> DEFINE r == [binding[b] EXCEPT !.todo = rest, !.at = {}, !.touched = binding[b].touched \cup {k}]
<1>3. binding[b].pc = "patching"
  BY DEF PatchWarm, PatchResumes, OnInv, LoopInv
<1>4. /\ r \in Binding /\ r.at = {} /\ r.pc = "patching" /\ r.queue = binding[b].queue
      /\ r.todo = rest /\ r.frame = f /\ r.orphan = binding[b].orphan
      /\ r.touched = binding[b].touched \cup {k} /\ r.link = binding[b].link /\ r.covers = binding[b].covers
  BY <1>0, <1>1, <1>2, <1>3 DEF Binding
<1>5. binding' = [binding EXCEPT ![b] = r]
  BY <1>2
<1>6. e \in OnEntry /\ e.value = base \cup {f} /\ e.state = "warm" /\ e.seen = cached[k].seen
  BY <1>1 DEF OnEntry
<1>7. /\ cached[k].seen \subseteq base /\ cached[k].seen \subseteq shown[k]
      /\ \A w \in world \ missed : w \in base \/ \E c \in Bindings : Owes(c, w, k)
      /\ \A w \in base : w \in missed \/ w \in shown[k] \/ \E c \in Bindings : Shows(c, w, k)
      /\ PatchResumes(b, k) => \A w \in world \ missed : w \in base \/ Owes(b, w, k)
  <2>1. CASE PatchWarm(b, k)
    <3>1. cached[k].state = "warm" /\ base = cached[k].value
      BY <2>1 DEF PatchWarm
    <3>2. ~ PatchResumes(b, k)
      BY <2>1 DEF PatchWarm, PatchResumes
    <3> QED BY <3>1, <3>2 DEF OnInv, ShownInv, OwedInv
  <2>2. CASE ~ PatchWarm(b, k)
    <3>1. /\ Unfolded(b, k) /\ ~ Unserved(k) /\ base = cached[k].seen /\ cached[k].state # "loading"
      BY <2>2 DEF PatchResumes, Unfolded, Unserved
    <3>2. cached[k].seen \subseteq shown[k]
      BY <3>1 DEF OnInv, ShownInv
    <3>3. \A w \in world \ missed : w \in base \/ Owes(b, w, k)
      BY <3>1 DEF OnInv, OwedInv
    <3> QED BY <3>1, <3>2, <3>3
  <2> QED BY <2>1, <2>2
<1> HIDE DEF r, e, base
<1>8. /\ binding' \in [Bindings -> Binding] /\ binding'[b] = r
      /\ \A c \in Bindings : c # b => binding'[c] = binding[c]
  BY <1>4, <1>5, OneMoves
<1>9. /\ cached' \in [Variants -> OnEntry] /\ cached'[k] = e
      /\ \A j \in Variants : j # k => cached'[j] = cached[j]
  BY <1>1, <1>6, OneEntry
<1>10. \A c \in Bindings, j \in Variants : \A w :
           /\ Owes(c, w, j) => Owes(c, w, j)' \/ (c = b /\ j = k /\ w = f)
           /\ Shows(c, w, j) => Shows(c, w, j)'
  BY <1>0, <1>2, <1>3, <1>4, <1>8 DEF Owes, Shows
<1>11. Shows(b, f, k)'
  BY <1>4, <1>8 DEF Shows
<1>12. OwedInv' /\ ShownInv'
  <2> SUFFICES ASSUME NEW j \in Variants
               PROVE  /\ \A w \in world' \ missed' :
                          /\ \A c \in Bindings : Unfolded(c, j)' => Unserved(j)' \/ w \in cached'[j].seen \/ Owes(c, w, j)'
                          /\ cached'[j].state = "warm" => w \in cached'[j].value \/ \E c \in Bindings : Owes(c, w, j)'
                      /\ cached'[j].state # "loading" => cached'[j].seen \subseteq shown'[j]
                      /\ cached'[j].state = "warm" =>
                             /\ cached'[j].seen \subseteq cached'[j].value
                             /\ \A w \in cached'[j].value : w \in missed' \/ w \in shown'[j] \/ \E c \in Bindings : Shows(c, w, j)'
    BY DEF OwedInv, ShownInv
  <2>1. CASE j # k
    <3>1. \A c \in Bindings : (Unfolded(c, j)' => Unfolded(c, j)) /\ (Unserved(j)' <=> Unserved(j))
      BY <1>4, <1>8, <1>9, <2>1 DEF Unfolded, Unserved
    <3> QED BY <1>1, <1>9, <1>10, <2>1, <3>1 DEF OnInv, OwedInv, ShownInv
  <2>2. CASE j = k
    <3>1. \A c \in Bindings : Unfolded(c, k)' => c # b /\ Unfolded(c, k)
      BY <1>4, <1>6, <1>8, <1>9 DEF Unfolded
    <3>2. ~ Unserved(k)
      BY DEF PatchWarm, PatchResumes, Unserved
    <3>3. \A w \in world \ missed : \A c \in Bindings : Unfolded(c, k)' => w \in cached[k].seen \/ Owes(c, w, k)'
      BY <1>10, <3>1, <3>2 DEF OnInv, OwedInv
    <3>4. \A w \in world \ missed : w \in e.value \/ \E c \in Bindings : Owes(c, w, k)'
      BY <1>6, <1>7, <1>10
    <3>5. \A w \in e.value : w \in missed \/ w \in shown[k] \/ \E c \in Bindings : Shows(c, w, k)'
      BY <1>6, <1>7, <1>10, <1>11
    <3> QED BY <1>1, <1>6, <1>7, <1>9, <2>2, <3>3, <3>4, <3>5
  <2> QED BY <2>1, <2>2
<1>13. OnTypeOK' /\ LoopInv'
  BY <1>1, <1>4, <1>8, <1>9 DEF OnInv, OnTypeOK, LoopInv
<1> QED BY <1>12, <1>13 DEF OnInv

LEMMA OnStep == OnInv /\ [OnNext]_onvars => OnInv'
<1> SUFFICES ASSUME OnInv, [OnNext]_onvars
             PROVE  OnInv'
  OBVIOUS
<1>1. CASE OnNext
  BY <1>1, WriteStep, CallStep, DropStep, NoticeStep, LinkStep, PatchMoves, FoldStep DEF OnNext
<1>2. CASE UNCHANGED onvars
  <2>1. UNCHANGED <<world, cached, shown, binding, missed, losses>>
    BY <1>2 DEF onvars
  <2>2. /\ \A b \in Bindings, k \in Variants : (Unfolded(b, k)' <=> Unfolded(b, k))
        /\ \A b \in Bindings, k \in Variants : \A w : (Owes(b, w, k)' <=> Owes(b, w, k)) /\ (Shows(b, w, k)' <=> Shows(b, w, k))
        /\ \A k \in Variants : Unserved(k)' <=> Unserved(k)
    BY <2>1 DEF Unfolded, Owes, Shows, Unserved
  <2>3. OwedInv' /\ ShownInv'
    BY <2>1, <2>2 DEF OnInv, OwedInv, ShownInv
  <2> QED BY <2>1, <2>3 DEF OnInv, OnTypeOK, LoopInv
<1> QED BY <1>1, <1>2

(* With everything at rest the screen shows every write but those nobody   *)
(* could have had, whatever the keys, the bindings, the writes and the     *)
(* losses: over-invalidating costs a refetch, never correctness.           *)
THEOREM TheScreenIsKept == Spec => []ScreenKept
<1>1. Init => OnInv
  BY OnInitially DEF Init
<1>2. OnInv /\ [Next]_streamVars => OnInv'
  <2> SUFFICES ASSUME OnInv, [Next]_streamVars
               PROVE  OnInv'
    OBVIOUS
  <2>1. [OnNext]_onvars
    BY DEF Next, streamVars
  <2> QED BY <2>1, OnStep
<1> QED BY <1>1, <1>2, OnScreen, PTL DEF Spec

=============================================================================
