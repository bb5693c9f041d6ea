---------------------------- MODULE OutboxProofs ----------------------------
(***************************************************************************)
(* Proofs about Outbox, for any set of calls and any value of the other    *)
(* constants.                                                              *)
(***************************************************************************)
EXTENDS Outbox, SequenceTheorems, TLAPS

-----------------------------------------------------------------------------
(* What the edits of the queue document do to it.                          *)

LEMMA RemoveAtProperties ==
    ASSUME NEW S, NEW q \in Seq(S), NEW k \in 1 .. Len(q)
    PROVE  /\ RemoveAt(q, k) \in Seq(S)
           /\ Len(RemoveAt(q, k)) = Len(q) - 1
           /\ \A i \in 1 .. Len(q) - 1 : RemoveAt(q, k)[i] = IF i < k THEN q[i] ELSE q[i + 1]
<1> DEFINE n == Len(q)
           a == SubSeq(q, 1, k - 1)
           b == SubSeq(q, k + 1, n)
           w == RemoveAt(q, k)
<1>1. n \in Nat /\ k \in Nat /\ 1 <= k /\ k <= n /\ \A i \in 1 .. n : q[i] \in S
  BY LenProperties
<1>2. w = a \o b
  BY DEF RemoveAt
<1> HIDE DEF n, w
<1>3. a \in Seq(S) /\ Len(a) = k - 1 /\ \A i \in 1 .. k - 1 : a[i] = q[i]
  <2>1. \A i \in 1 .. k - 1 : q[i] \in S
    BY <1>1
  <2>2. /\ a \in Seq(S) /\ Len(a) = IF 1 <= k - 1 THEN (k - 1) - 1 + 1 ELSE 0
        /\ \A i \in 1 .. (k - 1) - 1 + 1 : a[i] = q[1 + i - 1]
    BY <1>1, <2>1, SubSeqProperties
  <2> QED BY <1>1, <2>2
<1>4. b \in Seq(S) /\ Len(b) = n - k /\ \A i \in 1 .. n - k : b[i] = q[k + i]
  <2>1. \A i \in k + 1 .. n : q[i] \in S
    BY <1>1
  <2>2. /\ b \in Seq(S) /\ Len(b) = IF k + 1 <= n THEN n - (k + 1) + 1 ELSE 0
        /\ \A i \in 1 .. n - (k + 1) + 1 : b[i] = q[k + 1 + i - 1]
    BY <1>1, <2>1, SubSeqProperties
  <2> QED BY <1>1, <2>2
<1> HIDE DEF a, b
<1>5. /\ a \o b \in Seq(S) /\ Len(a \o b) = Len(a) + Len(b)
      /\ \A i \in 1 .. Len(a) + Len(b) :
            (a \o b)[i] = IF i <= Len(a) THEN a[i] ELSE b[i - Len(a)]
  BY <1>3, <1>4, ConcatProperties
<1>6. w \in Seq(S) /\ Len(w) = n - 1
  BY <1>1, <1>2, <1>3, <1>4, <1>5
<1>7. ASSUME NEW i \in 1 .. n - 1 PROVE w[i] = IF i < k THEN q[i] ELSE q[i + 1]
  <2>1. w[i] = IF i <= k - 1 THEN a[i] ELSE b[i - (k - 1)]
    <3>1. /\ i \in 1 .. Len(a) + Len(b)
          /\ Len(a) = k - 1
      BY <1>1, <1>3, <1>4
    <3>2. (a \o b)[i] = IF i <= Len(a) THEN a[i] ELSE b[i - Len(a)]
      BY <1>5, <3>1
    <3> QED BY <1>2, <3>1, <3>2
  <2>2. CASE i < k
    BY <1>1, <1>3, <1>7, <2>1, <2>2
  <2>3. CASE i >= k
    <3>1. i - (k - 1) \in 1 .. n - k /\ k + (i - (k - 1)) = i + 1 /\ ~ (i <= k - 1)
      BY <1>1, <1>7, <2>3
    <3> QED BY <1>1, <1>4, <1>7, <2>1, <2>3, <3>1
  <2> QED BY <1>1, <1>7, <2>2, <2>3
<1> QED BY <1>6, <1>7 DEF n, w

(* Without(q, c), the splice of remove(): the other entries stay, in their *)
(* order: f gives the place each comes from.                               *)
LEMMA WithoutProperties ==
    ASSUME NEW q \in Seq(StoredEntry), Distinct(q), NEW c
    PROVE  /\ Without(q, c) \in Seq(StoredEntry)
           /\ Distinct(Without(q, c))
           /\ Ids(Without(q, c)) = Ids(q) \ {c}
           /\ \E f \in [DOMAIN Without(q, c) -> DOMAIN q] :
                 /\ \A i \in DOMAIN Without(q, c) : Without(q, c)[i] = q[f[i]]
                 /\ \A i, j \in DOMAIN Without(q, c) : i < j => f[i] < f[j]
           /\ q # <<>> /\ q[1].id # c =>
                 Without(q, c) # <<>> /\ Without(q, c)[1] = q[1]
<1>1. CASE c \notin Ids(q)
  <2>1. Without(q, c) = q
    BY <1>1 DEF Without
  <2> DEFINE f == [i \in DOMAIN q |-> i]
  <2>2. /\ f \in [DOMAIN q -> DOMAIN q]
        /\ \A i \in DOMAIN q : q[i] = q[f[i]]
        /\ \A i, j \in DOMAIN q : i < j => f[i] < f[j]
    OBVIOUS
  <2> HIDE DEF f
  <2> QED BY <1>1, <2>1, <2>2
<1>2. CASE c \in Ids(q)
  <2> DEFINE n == Len(q)
             k == IndexOf(q, c)
             w == Without(q, c)
  <2>1. n \in Nat /\ DOMAIN q = 1 .. n /\ \A i \in 1 .. n : q[i] \in StoredEntry
    BY LenProperties
  <2>2. k \in 1 .. n /\ q[k].id = c
    <3>1. \E i \in DOMAIN q : q[i].id = c
      BY <1>2 DEF Ids
    <3> QED BY <3>1, <2>1 DEF IndexOf
  <2>3. w = RemoveAt(q, k)
    BY <1>2 DEF Without
  <2>6. /\ w \in Seq(StoredEntry)
        /\ Len(w) = n - 1
        /\ \A i \in 1 .. n - 1 : w[i] = IF i < k THEN q[i] ELSE q[i + 1]
    BY <2>2, <2>3, RemoveAtProperties
  <2> HIDE DEF n, k
  <2>7. DOMAIN w = 1 .. n - 1
    BY <2>6, LenProperties
  <2> HIDE DEF w
  <2>8. \A i, j \in 1 .. n : q[i].id = q[j].id => i = j
    BY <2>1 DEF Distinct
  <2>9. Distinct(w)
    BY <2>1, <2>2, <2>6, <2>7, <2>8 DEF Distinct
  <2>10. Ids(w) = Ids(q) \ {c}
    <3>1. \A i \in 1 .. n - 1 : w[i].id \in Ids(q) \ {c}
      <4> SUFFICES ASSUME NEW i \in 1 .. n - 1
                   PROVE  w[i].id \in Ids(q) \ {c}
        OBVIOUS
      <4>1. CASE i < k
        <5>1. i \in 1 .. n /\ i # k /\ w[i] = q[i]
          BY <2>1, <2>2, <2>6, <4>1
        <5>2. q[i].id # c
          BY <2>2, <2>8, <5>1
        <5> QED BY <2>1, <5>1, <5>2 DEF Ids
      <4>2. CASE i >= k
        <5>1. i + 1 \in 1 .. n /\ i + 1 # k /\ w[i] = q[i + 1]
          BY <2>1, <2>2, <2>6, <4>2
        <5>2. q[i + 1].id # c
          BY <2>2, <2>8, <5>1
        <5> QED BY <2>1, <5>1, <5>2 DEF Ids
      <4> QED BY <2>1, <2>2, <4>1, <4>2
    <3>2. ASSUME NEW i \in 1 .. n, q[i].id # c
          PROVE  q[i].id \in Ids(w)
      <4>1. i < k \/ i > k
        BY <2>1, <2>2, <3>2
      <4>2. CASE i < k
        <5>1. i \in 1 .. n - 1 /\ w[i] = q[i]
          BY <2>1, <2>2, <2>6, <4>2
        <5> QED BY <5>1, <2>7 DEF Ids
      <4>3. CASE i > k
        <5>1. i - 1 \in 1 .. n - 1 /\ w[i - 1] = q[i]
          BY <2>1, <2>2, <2>6, <4>3
        <5> QED BY <5>1, <2>7 DEF Ids
      <4> QED BY <4>1, <4>2, <4>3
    <3> QED BY <3>1, <3>2, <2>1, <2>7 DEF Ids
  <2>11. \E f \in [DOMAIN w -> DOMAIN q] :
            /\ \A i \in DOMAIN w : w[i] = q[f[i]]
            /\ \A i, j \in DOMAIN w : i < j => f[i] < f[j]
    <3> DEFINE f == [i \in 1 .. n - 1 |-> IF i < k THEN i ELSE i + 1]
    <3>1. f \in [1 .. n - 1 -> 1 .. n]
      BY <2>1, <2>2
    <3>2. \A i \in 1 .. n - 1 : w[i] = q[f[i]]
      BY <2>1, <2>2, <2>6
    <3>3. \A i, j \in 1 .. n - 1 : i < j => f[i] < f[j]
      BY <2>1, <2>2
    <3> HIDE DEF f
    <3> QED BY <2>1, <2>7, <3>1, <3>2, <3>3
  <2>12. q[1].id # c => w # <<>> /\ w[1] = q[1]
    <3> SUFFICES ASSUME q[1].id # c PROVE w # <<>> /\ w[1] = q[1]
      OBVIOUS
    <3>1. k > 1 /\ 1 \in 1 .. n - 1
      BY <2>1, <2>2
    <3> QED BY <2>6, <2>7, <3>1, EmptySeq
  <2> QED BY <2>6, <2>9, <2>10, <2>11, <2>12 DEF w
<1> QED BY <1>1, <1>2

LEMMA WithoutType ==
    ASSUME NEW q \in Seq(StoredEntry), Distinct(q), NEW c
    PROVE  /\ Without(q, c) \in Seq(StoredEntry)
           /\ Distinct(Without(q, c))
           /\ Ids(Without(q, c)) = Ids(q) \ {c}
BY WithoutProperties

(* An edit that keeps the place and the id of every entry.                 *)
LEMMA EditProperties ==
    ASSUME NEW q \in Seq(StoredEntry), Distinct(q), NEW w,
           DOMAIN w = DOMAIN q,
           w = [i \in DOMAIN w |-> w[i]],
           \A i \in DOMAIN q : w[i] \in StoredEntry /\ w[i].id = q[i].id
    PROVE  /\ w \in Seq(StoredEntry)
           /\ Distinct(w)
           /\ Ids(w) = Ids(q)
           /\ Len(w) = Len(q)
<1>1. Len(q) \in Nat /\ DOMAIN q = 1 .. Len(q)
  BY LenProperties
<1>2. w \in Seq(StoredEntry)
  BY <1>1, IsASeq
<1>3. Len(w) = Len(q)
  BY <1>1, <1>2, LenProperties
<1>4. Distinct(w)
  BY DEF Distinct
<1>5. Ids(w) = Ids(q)
  BY DEF Ids
<1> QED BY <1>2, <1>3, <1>4, <1>5

LEMMA WithStatusProperties ==
    ASSUME NEW q \in Seq(StoredEntry), Distinct(q), NEW c, NEW s \in Status
    PROVE  /\ WithStatus(q, c, s) \in Seq(StoredEntry)
           /\ Distinct(WithStatus(q, c, s))
           /\ Ids(WithStatus(q, c, s)) = Ids(q)
           /\ Len(WithStatus(q, c, s)) = Len(q)
           /\ DOMAIN WithStatus(q, c, s) = DOMAIN q
           /\ \A i \in DOMAIN q : /\ WithStatus(q, c, s)[i].id = q[i].id
                                  /\ WithStatus(q, c, s)[i].captured = q[i].captured
<1> DEFINE w == WithStatus(q, c, s)
<1>1. Len(q) \in Nat /\ DOMAIN q = 1 .. Len(q) /\ \A i \in DOMAIN q : q[i] \in StoredEntry
  BY LenProperties
<1>2. DOMAIN w = DOMAIN q
  BY DEF WithStatus
<1>3. \A i \in DOMAIN q : /\ w[i] \in StoredEntry
                          /\ w[i].id = q[i].id
                          /\ w[i].captured = q[i].captured
  BY <1>1 DEF WithStatus, StoredEntry, Status
<1>4. w = [i \in DOMAIN w |-> w[i]]
  BY DEF WithStatus
<1> HIDE DEF w
<1>5. w \in Seq(StoredEntry) /\ Distinct(w) /\ Ids(w) = Ids(q) /\ Len(w) = Len(q)
  BY <1>2, <1>3, <1>4, EditProperties
<1> QED BY <1>2, <1>3, <1>5 DEF w

LEMMA WithBodyProperties ==
    ASSUME NEW q \in Seq(StoredEntry), Distinct(q), NEW c
    PROVE  /\ WithBody(q, c) \in Seq(StoredEntry)
           /\ Distinct(WithBody(q, c))
           /\ Ids(WithBody(q, c)) = Ids(q)
           /\ Len(WithBody(q, c)) = Len(q)
           /\ DOMAIN WithBody(q, c) = DOMAIN q
           /\ \A i \in DOMAIN q :
                 /\ WithBody(q, c)[i].id = q[i].id
                 /\ WithBody(q, c)[i].captured = (q[i].captured \/ q[i].id = c)
<1> DEFINE w == WithBody(q, c)
<1>1. Len(q) \in Nat /\ DOMAIN q = 1 .. Len(q) /\ \A i \in DOMAIN q : q[i] \in StoredEntry
  BY LenProperties
<1>2. DOMAIN w = DOMAIN q
  BY DEF WithBody
<1>3. \A i \in DOMAIN q : w[i] \in StoredEntry /\ w[i].id = q[i].id
  BY <1>1 DEF WithBody, StoredEntry
<1>4. \A i \in DOMAIN q : w[i].captured = (q[i].captured \/ q[i].id = c)
  <2> SUFFICES ASSUME NEW i \in DOMAIN q
               PROVE  w[i].captured = (q[i].captured \/ q[i].id = c)
    OBVIOUS
  <2>1. q[i].captured \in BOOLEAN
    BY <1>1 DEF StoredEntry
  <2>2. CASE q[i].id = c
    BY <1>1, <2>2 DEF WithBody, StoredEntry
  <2>3. CASE q[i].id # c
    <3>1. w[i] = q[i]
      BY <2>3 DEF WithBody
    <3> HIDE DEF w
    <3> QED BY <2>1, <2>3, <3>1
  <2> QED BY <2>2, <2>3
<1>5. w = [i \in DOMAIN w |-> w[i]]
  BY DEF WithBody
<1> HIDE DEF w
<1>6. w \in Seq(StoredEntry) /\ Distinct(w) /\ Ids(w) = Ids(q) /\ Len(w) = Len(q)
  BY <1>2, <1>3, <1>5, EditProperties
<1> QED BY <1>2, <1>3, <1>4, <1>6 DEF w

(* A park: the new entry is the last.                                      *)
LEMMA AppendEntry ==
    ASSUME NEW q \in Seq(StoredEntry), Distinct(q), NEW e \in StoredEntry,
           e.id \notin Ids(q)
    PROVE  /\ Append(q, e) \in Seq(StoredEntry)
           /\ Distinct(Append(q, e))
           /\ Ids(Append(q, e)) = Ids(q) \cup {e.id}
           /\ DOMAIN Append(q, e) = 1 .. Len(q) + 1
           /\ \A i \in 1 .. Len(q) : Append(q, e)[i] = q[i]
           /\ Append(q, e)[Len(q) + 1] = e
<1> DEFINE w == Append(q, e)
           n == Len(q)
<1>1. n \in Nat /\ DOMAIN q = 1 .. n
  BY LenProperties
<1>2. /\ w \in Seq(StoredEntry)
      /\ Len(w) = n + 1
      /\ \A i \in 1 .. n : w[i] = q[i]
      /\ w[n + 1] = e
  BY AppendProperties
<1>3. DOMAIN w = 1 .. n + 1
  BY <1>2, LenProperties
<1> HIDE DEF w, n
<1>4. \A i \in 1 .. n : q[i].id # e.id
  BY <1>1 DEF Ids
<1>5. Distinct(w)
  BY <1>1, <1>2, <1>3, <1>4 DEF Distinct
<1>6. Ids(w) = Ids(q) \cup {e.id}
  <2>1. \A i \in 1 .. n + 1 : w[i].id \in Ids(q) \cup {e.id}
    BY <1>1, <1>2 DEF Ids
  <2>2. \A i \in 1 .. n : q[i].id \in Ids(w)
    <3> SUFFICES ASSUME NEW i \in 1 .. n
                 PROVE  q[i].id \in Ids(w)
      OBVIOUS
    <3>1. i \in 1 .. n + 1 /\ w[i] = q[i]
      BY <1>1, <1>2
    <3> QED BY <1>3, <3>1 DEF Ids
  <2>3. e.id \in Ids(w)
    <3>1. n + 1 \in 1 .. n + 1
      BY <1>1
    <3> QED BY <1>2, <1>3, <3>1 DEF Ids
  <2> QED BY <1>1, <1>3, <2>1, <2>2, <2>3 DEF Ids
<1> QED BY <1>2, <1>3, <1>5, <1>6 DEF w, n

-----------------------------------------------------------------------------
(* The first strengthening: every mutation of the queue has reached        *)
(* storage, which is what a reload reads back; and a queued call has been  *)
(* parked, so it is not parked again.                                      *)
Parked(c) == fate[c] = "parked"

QueueInv ==
    /\ TypeOK
    /\ storage = items
    /\ \A c \in Ids(items) : Parked(c)

LEMMA QueueIds ==
    ASSUME NEW q \in Seq(StoredEntry)
    PROVE  Ids(q) \subseteq Calls
<1>1. \A i \in DOMAIN q : q[i] \in StoredEntry
  BY LenProperties
<1> QED BY <1>1 DEF Ids, StoredEntry

(* The top of the drain loop leaves the queue as it is, but for the status *)
(* of its head; and the head is the only call it puts on the wire.         *)
LEMMA LoopTop ==
    ASSUME NEW q \in Seq(StoredEntry), Distinct(q), NEW req \in [Calls -> Identity],
           NEW rest \in SUBSET Message,
           loopTop(q, req, rest)
    PROVE  /\ storage' = items'
           /\ items' \in Seq(StoredEntry)
           /\ Distinct(items')
           /\ Ids(items') = Ids(q)
           /\ DOMAIN items' = DOMAIN q
           /\ \A i \in DOMAIN q : /\ items'[i].id = q[i].id
                                  /\ items'[i].captured = q[i].captured
           /\ request' \in [Calls -> Identity]
           /\ outbound' \subseteq Message
           /\ \/ drain' = Idle /\ outbound' = rest
              \/ /\ q # <<>>
                 /\ q[1].id \in Ids(q)
                 /\ drain' = [pc |-> "sending", call |-> q[1].id]
                 /\ \E m \in Message : m.call = q[1].id /\ outbound' = rest \cup {m}
<1>1. CASE q = <<>>
  BY <1>1 DEF loopTop, commit
<1>2. CASE q # <<>>
  <2> DEFINE c == q[1].id
             r == identityFor(req, q[1])
  <2>1. 1 \in DOMAIN q /\ q[1] \in StoredEntry
    BY <1>2, LenProperties, EmptySeq
  <2>2. c \in Calls /\ c \in Ids(q)
    BY <2>1 DEF StoredEntry, Ids
  <2>3. r \in {"intact", "empty", "spent"}
    BY <2>1, <2>2 DEF identityFor, Identity, StoredEntry
  <2>4. CASE r = "spent"
    <3>1. items' = WithStatus(q, c, "queued") /\ storage' = items'
      BY <1>2, <2>4 DEF loopTop, commit
    <3>2. request' = req /\ drain' = Idle /\ outbound' = rest
      BY <1>2, <2>4 DEF loopTop
    <3> QED BY <3>1, <3>2, WithStatusProperties DEF Status
  <2>5. CASE r # "spent"
    <3>1. items' = WithStatus(q, c, "sending") /\ storage' = items'
      BY <1>2, <2>5 DEF loopTop, commit
    <3>2. /\ request' = [req EXCEPT ![c] = AfterResend(c, r)]
          /\ drain' = [pc |-> "sending", call |-> c]
          /\ outbound' = rest \cup {[call |-> c, body |-> r]}
      BY <1>2, <2>5 DEF loopTop
    <3>3. AfterResend(c, r) \in Identity
      BY <2>3 DEF AfterResend, Identity
    <3>4. [call |-> c, body |-> r] \in Message
      BY <2>2, <2>3, <2>5 DEF Message
    <3>5. request' \in [Calls -> Identity]
      BY <3>2, <3>3
    <3>6. \E m \in Message : m.call = c /\ outbound' = rest \cup {m}
      BY <3>2, <3>4
    <3>7. outbound' \subseteq Message
      BY <3>2, <3>4
    <3> HIDE DEF r
    <3> QED BY <1>2, <2>2, <3>1, <3>2, <3>5, <3>6, <3>7, WithStatusProperties DEF Status
  <2> QED BY <2>4, <2>5
<1> QED BY <1>1, <1>2

LEMMA EntryIds ==
    ASSUME NEW q \in Seq(StoredEntry)
    PROVE  \A i \in DOMAIN q : q[i] \in StoredEntry /\ q[i].id \in Calls
<1>1. \A i \in DOMAIN q : q[i] \in StoredEntry
  BY LenProperties
<1> QED BY <1>1 DEF StoredEntry

LEMMA InitQueueInv == Init => QueueInv
<1> SUFFICES ASSUME Init PROVE QueueInv
  OBVIOUS
<1>1. Ids(items) = {}
  BY DEF Init, Ids
<1>2. Distinct(items) /\ Distinct(storage)
  BY DEF Init, Distinct
<1> QED BY <1>1, <1>2 DEF Init, QueueInv, TypeOK, Identity, Fate, Drain, Idle

(* A park of a call that was never parked before.                          *)
LEMMA ParkQueueInv ==
    ASSUME QueueInv, NEW c \in Calls, ~ Parked(c), park(c)
    PROVE  /\ storage' \in Seq(StoredEntry) /\ Distinct(storage')
           /\ items' \in Seq(StoredEntry) /\ Distinct(items')
           /\ storage' = items'
           /\ Ids(items') = Ids(items) \cup {c}
           /\ \A d \in Ids(items') : Parked(d)'
           /\ fate' \in [Calls -> Fate]
           /\ request' \in [Calls -> Identity]
           /\ capturing' \subseteq Calls
           /\ held' \subseteq Calls
<1> DEFINE e == [id |-> c, captured |-> c \in Bodyless, status |-> "queued"]
<1>1. e \in StoredEntry /\ e.id = c
  BY DEF StoredEntry, Status
<1>2. c \notin Ids(items)
  BY DEF QueueInv
<1>3. items' = Append(items, e) /\ storage' = items'
  BY DEF park, commit
<1> HIDE DEF e
<1>4. /\ items' \in Seq(StoredEntry) /\ Distinct(items')
      /\ Ids(items') = Ids(items) \cup {c}
  BY <1>1, <1>2, <1>3, AppendEntry DEF QueueInv, TypeOK
<1>5. fate' = [fate EXCEPT ![c] = "parked"] /\ fate' \in [Calls -> Fate]
  BY DEF park, QueueInv, TypeOK, Fate
<1>6. \A d \in Ids(items') : Parked(d)'
  <2>1. Ids(items) \subseteq Calls
    BY QueueIds DEF QueueInv, TypeOK
  <2> QED BY <1>4, <1>5, <2>1 DEF QueueInv, Parked, TypeOK
<1>7. request' \in [Calls -> Identity] /\ capturing' \subseteq Calls /\ held' \subseteq Calls
  BY DEF park, QueueInv, TypeOK, Identity
<1> QED BY <1>3, <1>4, <1>5, <1>6, <1>7

LEMMA AbandonType ==
    ASSUME TypeOK, NEW c, NEW more \in SUBSET Message, Abandon(c, more)
    PROVE  outbound' \subseteq Message /\ strays' \subseteq Message
BY DEF TypeOK, Abandon, Waiting

LEMMA SettleType ==
    ASSUME TypeOK, NEW c \in Calls, NEW outcome \in {"resolved", "refused", "canceled"},
           settle(c, outcome)
    PROVE  /\ settlers' \subseteq Calls
           /\ promise' \in [Calls -> {"unread", "pending", "resolved", "refused", "canceled"}]
BY DEF TypeOK, settle

LEMMA DrainType ==
    ASSUME TypeOK, drain.pc # "idle"
    PROVE  drain.call \in Calls /\ (drain.pc = "decoding" => drain.reply \in Outcome)
BY DEF TypeOK, Drain, Outcome

LEMMA StepQueueInv == QueueInv /\ [Next]_vars => QueueInv'
<1> SUFFICES ASSUME QueueInv, [Next]_vars PROVE QueueInv'
  OBVIOUS
<1> USE DEF QueueInv
<1>0. Ids(items) \subseteq Calls
  BY QueueIds DEF TypeOK
<1>1. ASSUME NEW c \in Calls, InvokeLive(c) PROVE QueueInv'
  <2>1. [call |-> c, body |-> "intact"] \in Message
    BY DEF Message
  <2>2. ahead' \in [Calls -> SUBSET Calls]
    BY <1>0, <1>1 DEF InvokeLive, TypeOK
  <2>3. fate' \in [Calls -> Fate] /\ \A d \in Ids(items) : fate'[d] = "parked"
    BY <1>0, <1>1 DEF InvokeLive, Backlog, TypeOK, Fate, Parked
  <2> QED BY <1>1, <2>1, <2>2, <2>3 DEF InvokeLive, queueVars, pageVars, TypeOK, Parked
<1>2. ASSUME NEW c \in Calls, InvokeBacklog(c) PROVE QueueInv'
  <2>1. ~ Parked(c) /\ park(c)
    BY <1>2 DEF InvokeBacklog, Parked
  <2>2. ahead' \in [Calls -> SUBSET Calls]
    BY <1>0, <1>2 DEF InvokeBacklog, TypeOK
  <2> QED BY <1>2, <2>1, <2>2, ParkQueueInv DEF InvokeBacklog, netVars, TypeOK
<1>3. ASSUME NEW c \in Calls, LiveReply(c) PROVE QueueInv'
  BY <1>0, <1>3 DEF LiveReply, queueVars, pageVars, netVars, TypeOK, Fate, Parked
<1>4. ASSUME NEW c \in Calls, LiveUnreachable(c) PROVE QueueInv'
  <2>1. ~ Parked(c) /\ park(c) /\ Abandon(c, {})
    BY <1>4 DEF LiveUnreachable, Parked
  <2>2. outbound' \subseteq Message /\ strays' \subseteq Message
    BY <2>1, AbandonType
  <2> QED BY <1>4, <2>1, <2>2, ParkQueueInv DEF LiveUnreachable, TypeOK
<1>5. ASSUME NEW c \in Calls, LiveAbort(c) PROVE QueueInv'
  <2>1. Abandon(c, {})
    BY <1>5 DEF LiveAbort
  <2>2. outbound' \subseteq Message /\ strays' \subseteq Message
    BY <2>1, AbandonType
  <2> QED BY <1>0, <1>5, <2>2 DEF LiveAbort, queueVars, pageVars, TypeOK, Fate, Parked
<1>6. ASSUME NEW c \in Calls, CaptureRequest(c) PROVE QueueInv'
  <2>1. CASE c \in Ids(items)
    <3>1. items' = WithBody(items, c) /\ storage' = items'
      BY <1>6, <2>1 DEF CaptureRequest, commit
    <3>2. items' \in Seq(StoredEntry) /\ Distinct(items') /\ Ids(items') = Ids(items)
      BY <3>1, WithBodyProperties DEF TypeOK
    <3> QED BY <1>0, <1>6, <3>1, <3>2 DEF CaptureRequest, netVars, TypeOK, Parked
  <2>2. CASE c \notin Ids(items)
    BY <1>6, <2>2 DEF CaptureRequest, queueVars, netVars, TypeOK, Parked
  <2> QED BY <2>1, <2>2
<1>7. ASSUME NEW c \in Calls, ReadSettled(c) PROVE QueueInv'
  BY <1>7 DEF ReadSettled, queueVars, netVars, TypeOK, Parked
<1>8. ASSUME NEW c \in Calls, Abort(c) PROVE QueueInv'
  <2>1. items' = Without(items, c) /\ storage' = items' /\ settle(c, "canceled")
    BY <1>8 DEF Abort, commit
  <2>2. items' \in Seq(StoredEntry) /\ Distinct(items') /\ Ids(items') \subseteq Ids(items)
    BY <2>1, WithoutType DEF TypeOK
  <2>3. /\ settlers' \subseteq Calls
        /\ promise' \in [Calls -> {"unread", "pending", "resolved", "refused", "canceled"}]
    BY <2>1, SettleType
  <2> QED BY <1>0, <1>8, <2>1, <2>2, <2>3 DEF Abort, netVars, TypeOK, Identity, Parked
<1>9. CASE List
  <2>1. \A c \in Ids(items) : items[IndexOf(items, c)] \in StoredEntry
                              /\ items[IndexOf(items, c)].id = c
    <3> SUFFICES ASSUME NEW c \in Ids(items)
                 PROVE  /\ items[IndexOf(items, c)] \in StoredEntry
                        /\ items[IndexOf(items, c)].id = c
      OBVIOUS
    <3>1. \E i \in DOMAIN items : items[i].id = c
      BY DEF Ids
    <3>2. IndexOf(items, c) \in DOMAIN items /\ items[IndexOf(items, c)].id = c
      BY <3>1 DEF IndexOf
    <3> QED BY <3>2, LenProperties DEF TypeOK
  <2>2. \A c \in Ids(items) : identityFor(request, items[IndexOf(items, c)]) \in Identity
    BY <1>0, <2>1 DEF identityFor, Identity, TypeOK
  <2>3. request' \in [Calls -> Identity]
    BY <1>9, <2>2 DEF List, TypeOK
  <2> QED BY <1>0, <1>9, <2>3 DEF List, queueVars, netVars, TypeOK, Parked
<1>10. CASE Retry
  <2>1. loopTop(items, request, outbound)
    BY <1>10 DEF Retry
  <2>2. /\ storage' = items' /\ items' \in Seq(StoredEntry) /\ Distinct(items')
        /\ Ids(items') = Ids(items)
        /\ request' \in [Calls -> Identity] /\ outbound' \subseteq Message
        /\ drain' \in Drain
    BY <1>0, <2>1, LoopTop DEF TypeOK, Drain, Idle
  <2> QED BY <1>0, <1>10, <2>2 DEF Retry, TypeOK, Parked
<1>11. ASSUME NEW reply \in Outcome, DrainReply(reply) PROVE QueueInv'
  BY <1>11, DrainType DEF DrainReply, queueVars, netVars, TypeOK, Drain, Parked
<1>12. CASE DrainDecoded
  <2> DEFINE d == drain.call
             q == Without(items, d)
             req == [request EXCEPT ![d] = "none"]
  <2>1. d \in Calls /\ drain.reply \in Outcome
    BY <1>12, DrainType DEF DrainDecoded
  <2>2. q \in Seq(StoredEntry) /\ Distinct(q) /\ Ids(q) \subseteq Ids(items)
    BY WithoutType DEF TypeOK
  <2>3. req \in [Calls -> Identity]
    BY DEF TypeOK, Identity
  <2>4. loopTop(q, req, outbound)
    BY <1>12 DEF DrainDecoded
  <2> HIDE DEF q, req
  <2>5. /\ storage' = items' /\ items' \in Seq(StoredEntry) /\ Distinct(items')
        /\ Ids(items') = Ids(q)
        /\ request' \in [Calls -> Identity] /\ outbound' \subseteq Message
        /\ drain' \in Drain
    <3>1. outbound \in SUBSET Message /\ Ids(q) \subseteq Calls
      BY <1>0, <2>2 DEF TypeOK
    <3>2. drain' = Idle \/ \E c \in Calls : drain' = [pc |-> "sending", call |-> c]
      BY <2>2, <2>3, <2>4, <3>1, LoopTop
    <3>3. drain' \in Drain
      BY <3>2 DEF Drain, Idle
    <3> QED BY <2>2, <2>3, <2>4, <3>1, <3>3, LoopTop
  <2>6. /\ settlers' \subseteq Calls
        /\ promise' \in [Calls -> {"unread", "pending", "resolved", "refused", "canceled"}]
    <3>1. PICK outcome \in {drain.reply, "refused"} : settle(d, outcome)
      BY <1>12 DEF DrainDecoded
    <3>2. outcome \in {"resolved", "refused", "canceled"}
      BY <2>1 DEF Outcome
    <3> QED BY <2>1, <3>1, <3>2, SettleType
  <2> QED BY <1>0, <1>12, <2>2, <2>5, <2>6 DEF DrainDecoded, TypeOK, Parked
<1>13. CASE DrainUnreachable
  <2>1. drain.call \in Calls
    BY <1>13, DrainType DEF DrainUnreachable
  <2>2. outbound' \subseteq Message /\ strays' \subseteq Message
    BY <1>13, AbandonType DEF DrainUnreachable
  <2>3. items' = WithStatus(items, drain.call, "queued") /\ storage' = items'
    BY <1>13 DEF DrainUnreachable, commit
  <2>4. items' \in Seq(StoredEntry) /\ Distinct(items') /\ Ids(items') = Ids(items)
    BY <2>3, WithStatusProperties DEF TypeOK, Status
  <2> QED BY <1>0, <1>13, <2>2, <2>3, <2>4 DEF DrainUnreachable, TypeOK, Drain, Idle, Parked
<1>14. CASE DrainCanceled
  <2> DEFINE d == drain.call
             q == Without(items, d)
             req == [request EXCEPT ![d] = "none"]
             rest == outbound \ Waiting(d)
  <2>1. d \in Calls
    BY <1>14, DrainType DEF DrainCanceled
  <2>2. q \in Seq(StoredEntry) /\ Distinct(q) /\ Ids(q) \subseteq Ids(items)
    BY WithoutType DEF TypeOK
  <2>3. req \in [Calls -> Identity] /\ rest \in SUBSET Message
    BY DEF TypeOK, Identity
  <2>4. loopTop(q, req, rest)
    BY <1>14 DEF DrainCanceled
  <2> HIDE DEF q, req, rest
  <2>5. /\ storage' = items' /\ items' \in Seq(StoredEntry) /\ Distinct(items')
        /\ Ids(items') = Ids(q)
        /\ request' \in [Calls -> Identity] /\ outbound' \subseteq Message
        /\ drain' \in Drain
    <3>1. outbound \in SUBSET Message /\ Ids(q) \subseteq Calls
      BY <1>0, <2>2 DEF TypeOK
    <3>2. drain' = Idle \/ \E c \in Calls : drain' = [pc |-> "sending", call |-> c]
      BY <2>2, <2>3, <2>4, <3>1, LoopTop
    <3>3. drain' \in Drain
      BY <3>2 DEF Drain, Idle
    <3> QED BY <2>2, <2>3, <2>4, <3>1, <3>3, LoopTop
  <2>6. /\ settlers' \subseteq Calls
        /\ promise' \in [Calls -> {"unread", "pending", "resolved", "refused", "canceled"}]
    BY <1>14, <2>1, SettleType DEF DrainCanceled
  <2>7. strays' \subseteq Message
    BY <1>14 DEF DrainCanceled, TypeOK, Waiting
  <2> QED BY <1>0, <1>14, <2>2, <2>5, <2>6, <2>7 DEF DrainCanceled, TypeOK, Parked
<1>15. ASSUME NEW m \in Message, ServerHandles(m) PROVE QueueInv'
  <2>1. m.call \in Calls
    BY DEF Message
  <2> QED BY <1>15, <2>1 DEF ServerHandles, queueVars, pageVars, TypeOK, Parked
<1>16. ASSUME NEW m \in Message, StrayArrives(m) PROVE QueueInv'
  <2>1. m.call \in Calls
    BY DEF Message
  <2> QED BY <1>16, <2>1 DEF StrayArrives, queueVars, pageVars, TypeOK, Parked
<1>17. CASE Reload
  BY <1>0, <1>17 DEF Reload, TypeOK, Parked, Identity, Fate, Drain, Idle
<1>18. CASE UNCHANGED vars
  BY <1>18 DEF vars, queueVars, pageVars, netVars, TypeOK, Parked
<1> QED BY <1>1, <1>2, <1>3, <1>4, <1>5, <1>6, <1>7, <1>8, <1>9, <1>10, <1>11, <1>12,
           <1>13, <1>14, <1>15, <1>16, <1>17, <1>18 DEF Next

(* Types hold for every set of calls, and with them: no id twice in the    *)
(* queue, and the persisted queue equal to the one in memory after every   *)
(* turn (commit).                                                          *)
THEOREM QueueInvariant == Spec => []QueueInv
<1>1. Init => QueueInv
  BY InitQueueInv
<1>2. QueueInv /\ [Next]_vars => QueueInv'
  BY StepQueueInv
<1> QED BY <1>1, <1>2, PTL DEF Spec

(* The type invariant of Outbox, ids distinct included, in every reachable *)
(* state.                                                                  *)
THEOREM TypeCorrect == Spec => []TypeOK
<1>1. QueueInv => TypeOK
  BY DEF QueueInv
<1> QED BY <1>1, QueueInvariant, PTL

-----------------------------------------------------------------------------
(* The second strengthening, about the order: what was ahead of a call     *)
(* when it was made was parked, and stays ahead of it in the queue; a call *)
(* that was not made has left no trace; what the app holds, canceled or    *)
(* awaits was parked; the drain works on the head, or on an entry canceled *)
(* under it; and canceled entries are out.                                 *)
AheadInv ==
    /\ \A c \in Calls : \A d \in ahead[c] : Parked(d)
    /\ \A c \in Calls : fate[c] \in {"idle", "flying"} => ahead[c] = {}
    /\ \A i, j \in DOMAIN items : items[j].id \in ahead[items[i].id] => j < i

OrderInv ==
    /\ \A c \in Calls : fate[c] = "idle" => c \notin handled /\ ~ OnWire(c)
    /\ \A c \in held \cup canceled \cup aborted \cup settlers : Parked(c)
    /\ drain # Idle => Parked(drain.call)
    /\ aborted \cap Ids(items) = {}
    /\ canceled \cap Ids(items) = {}
    /\ DrainsHead
    /\ AheadInv
    /\ NoLeapfrog

-----------------------------------------------------------------------------
(* What one step may do to the queue, to the fates and to the wire.        *)

LEMMA LoopTopHead ==
    ASSUME NEW q \in Seq(StoredEntry), Distinct(q), NEW req \in [Calls -> Identity],
           NEW rest \in SUBSET Message,
           loopTop(q, req, rest)
    PROVE  /\ drain' # Idle => items' # <<>> /\ items'[1].id = drain'.call
           /\ \A m \in outbound' \ rest : items' # <<>> /\ m.call = items'[1].id
<1>1. CASE drain' = Idle /\ outbound' = rest
  BY <1>1
<1>2. ASSUME q # <<>>, drain' = [pc |-> "sending", call |-> q[1].id],
             NEW m \in Message, m.call = q[1].id, outbound' = rest \cup {m}
      PROVE  /\ items' # <<>> /\ items'[1].id = q[1].id
             /\ drain'.call = q[1].id
  <2>1. 1 \in DOMAIN q
    BY <1>2, LenProperties, EmptySeq
  <2>2. DOMAIN items' = DOMAIN q /\ items'[1].id = q[1].id
    BY <2>1, LoopTop
  <2> QED BY <1>2, <2>1, <2>2
<1> QED BY <1>1, <1>2, LoopTop

(* The next queue is what is left of this one, in the same order; or it is *)
(* this one with a call just parked behind it.                             *)
Shifted == \E f \in [DOMAIN items' -> DOMAIN items] :
              /\ \A i \in DOMAIN items' : items'[i].id = items[f[i]].id
              /\ \A i, j \in DOMAIN items' : i < j => f[i] < f[j]

Joined(c) == /\ ~ Parked(c)
             /\ DOMAIN items' = 1 .. Len(items) + 1
             /\ \A i \in DOMAIN items : items'[i].id = items[i].id
             /\ items'[Len(items) + 1].id = c

LEMMA SameIds ==
    ASSUME QueueInv, DOMAIN items' = DOMAIN items,
           \A i \in DOMAIN items : items'[i].id = items[i].id
    PROVE  Shifted
<1> DEFINE f == [i \in DOMAIN items |-> i]
<1>1. /\ f \in [DOMAIN items' -> DOMAIN items]
      /\ \A i \in DOMAIN items' : items'[i].id = items[f[i]].id
      /\ \A i, j \in DOMAIN items' : i < j => f[i] < f[j]
  OBVIOUS
<1> HIDE DEF f
<1> QED BY <1>1 DEF Shifted

LEMMA LoopTopShifted ==
    ASSUME QueueInv, NEW c, NEW req \in [Calls -> Identity], NEW rest \in SUBSET Message,
           loopTop(Without(items, c), req, rest)
    PROVE  Shifted /\ Ids(items') = Ids(items) \ {c}
<1> DEFINE q == Without(items, c)
<1>1. /\ q \in Seq(StoredEntry) /\ Distinct(q) /\ Ids(q) = Ids(items) \ {c}
      /\ \E f \in [DOMAIN q -> DOMAIN items] :
            /\ \A i \in DOMAIN q : q[i] = items[f[i]]
            /\ \A i, j \in DOMAIN q : i < j => f[i] < f[j]
  BY WithoutProperties DEF QueueInv, TypeOK
<1> HIDE DEF q
<1>2. /\ Ids(items') = Ids(q) /\ DOMAIN items' = DOMAIN q
      /\ \A i \in DOMAIN q : items'[i].id = q[i].id
  BY <1>1, LoopTop DEF q
<1> QED BY <1>1, <1>2 DEF Shifted

LEMMA ParkJoined ==
    ASSUME QueueInv, NEW c \in Calls, ~ Parked(c), park(c)
    PROVE  Joined(c) /\ Ids(items') = Ids(items) \cup {c}
<1> DEFINE e == [id |-> c, captured |-> c \in Bodyless, status |-> "queued"]
<1>1. e \in StoredEntry /\ e.id = c /\ c \notin Ids(items)
  BY DEF StoredEntry, Status, QueueInv
<1>2. items' = Append(items, e)
  BY DEF park, commit
<1> HIDE DEF e
<1>3. DOMAIN items = 1 .. Len(items)
  BY LenProperties DEF QueueInv, TypeOK
<1>4. /\ Ids(items') = Ids(items) \cup {c}
      /\ DOMAIN items' = 1 .. Len(items) + 1
      /\ \A i \in 1 .. Len(items) : items'[i] = items[i]
      /\ items'[Len(items) + 1] = e
  BY <1>1, <1>2, AppendEntry DEF QueueInv, TypeOK
<1> QED BY <1>1, <1>2, <1>3, <1>4 DEF Joined

LEMMA QueueStep ==
    ASSUME QueueInv, [Next]_vars
    PROVE  Shifted \/ \E c \in Calls : Joined(c)
<1>1. ASSUME NEW c \in Calls, InvokeLive(c) PROVE Shifted
  BY <1>1, SameIds DEF InvokeLive, queueVars
<1>2. ASSUME NEW c \in Calls, InvokeBacklog(c) PROVE Joined(c)
  BY <1>2, ParkJoined DEF InvokeBacklog, Parked
<1>3. ASSUME NEW c \in Calls, LiveReply(c) PROVE Shifted
  BY <1>3, SameIds DEF LiveReply, queueVars
<1>4. ASSUME NEW c \in Calls, LiveUnreachable(c) PROVE Joined(c)
  BY <1>4, ParkJoined DEF LiveUnreachable, Parked
<1>5. ASSUME NEW c \in Calls, LiveAbort(c) PROVE Shifted
  BY <1>5, SameIds DEF LiveAbort, queueVars
<1>6. ASSUME NEW c \in Calls, CaptureRequest(c) PROVE Shifted
  <2>1. items' = WithBody(items, c) \/ items' = items
    BY <1>6 DEF CaptureRequest, commit, queueVars
  <2> QED BY <2>1, SameIds, WithBodyProperties DEF QueueInv, TypeOK
<1>7. ASSUME NEW c \in Calls, ReadSettled(c) PROVE Shifted
  BY <1>7, SameIds DEF ReadSettled, queueVars
<1>8. ASSUME NEW c \in Calls, Abort(c) PROVE Shifted
  <2>1. items' = Without(items, c)
    BY <1>8 DEF Abort, commit
  <2> QED BY <2>1, WithoutProperties DEF Shifted, QueueInv, TypeOK
<1>9. CASE List
  BY <1>9, SameIds DEF List, queueVars
<1>10. CASE Retry
  <2>1. loopTop(items, request, outbound)
    BY <1>10 DEF Retry
  <2> QED BY <2>1, LoopTop, SameIds DEF QueueInv, TypeOK
<1>11. ASSUME NEW reply \in Outcome, DrainReply(reply) PROVE Shifted
  BY <1>11, SameIds DEF DrainReply, queueVars
<1>12. CASE DrainDecoded
  <2>1. [request EXCEPT ![drain.call] = "none"] \in [Calls -> Identity]
    BY DEF QueueInv, TypeOK, Identity
  <2> QED BY <1>12, <2>1, LoopTopShifted DEF DrainDecoded, QueueInv, TypeOK
<1>13. CASE DrainUnreachable
  <2>1. items' = WithStatus(items, drain.call, "queued")
    BY <1>13 DEF DrainUnreachable, commit
  <2> QED BY <2>1, SameIds, WithStatusProperties DEF QueueInv, TypeOK, Status
<1>14. CASE DrainCanceled
  <2>1. [request EXCEPT ![drain.call] = "none"] \in [Calls -> Identity]
    BY DEF QueueInv, TypeOK, Identity
  <2>2. outbound \ Waiting(drain.call) \in SUBSET Message
    BY DEF QueueInv, TypeOK
  <2> QED BY <1>14, <2>1, <2>2, LoopTopShifted DEF DrainCanceled
<1>15. ASSUME NEW m \in Message, ServerHandles(m) PROVE Shifted
  BY <1>15, SameIds DEF ServerHandles, queueVars
<1>16. ASSUME NEW m \in Message, StrayArrives(m) PROVE Shifted
  BY <1>16, SameIds DEF StrayArrives, queueVars
<1>17. CASE Reload
  BY <1>17, SameIds DEF Reload, QueueInv
<1>18. CASE UNCHANGED vars
  BY <1>18, SameIds DEF vars, queueVars
<1> QED BY <1>1, <1>2, <1>3, <1>4, <1>5, <1>6, <1>7, <1>8, <1>9, <1>10, <1>11, <1>12,
           <1>13, <1>14, <1>15, <1>16, <1>17, <1>18 DEF Next

(* A parked call keeps its fate, and no call is unmade.                    *)
LEMMA FateStep ==
    ASSUME QueueInv, [Next]_vars
    PROVE  \A c \in Calls : /\ Parked(c) => fate'[c] = fate[c]
                            /\ fate'[c] = "idle" => fate[c] = "idle"
<1> DEFINE Kept(c) == /\ Parked(c) => fate'[c] = fate[c]
                      /\ fate'[c] = "idle" => fate[c] = "idle"
<1>2. ASSUME fate' = fate PROVE \A c \in Calls : Kept(c)
  BY <1>2
<1>3. ASSUME NEW c \in Calls, NEW f, f # "idle", ~ Parked(c), fate' = [fate EXCEPT ![c] = f]
      PROVE  \A d \in Calls : Kept(d)
  BY <1>3 DEF QueueInv, TypeOK
<1>4. ASSUME NEW c \in Calls,
             InvokeLive(c) \/ InvokeBacklog(c) \/ LiveReply(c) \/ LiveUnreachable(c)
               \/ LiveAbort(c)
      PROVE  \A d \in Calls : Kept(d)
  <2>1. ~ Parked(c)
    BY <1>4 DEF InvokeLive, InvokeBacklog, LiveReply, LiveUnreachable, LiveAbort, Parked
  <2>2. \E f \in {"flying", "returned", "parked", "aborted"} :
          fate' = [fate EXCEPT ![c] = f]
    BY <1>4 DEF InvokeLive, InvokeBacklog, LiveReply, LiveUnreachable, LiveAbort, park
  <2> QED BY <1>3, <2>1, <2>2
<1>5. CASE Reload
  BY <1>5 DEF Reload, Parked, QueueInv, TypeOK
<1>6. CASE \/ \E c \in Calls : CaptureRequest(c) \/ ReadSettled(c) \/ Abort(c)
           \/ List \/ Retry \/ DrainDecoded \/ DrainUnreachable \/ DrainCanceled
           \/ \E reply \in Outcome : DrainReply(reply)
           \/ \E m \in Message : ServerHandles(m) \/ StrayArrives(m)
           \/ UNCHANGED vars
  <2>1. fate' = fate
    BY <1>6 DEF CaptureRequest, ReadSettled, Abort, List, Retry, DrainDecoded,
                DrainUnreachable, DrainCanceled, DrainReply, ServerHandles, StrayArrives, vars
  <2> QED BY <1>2, <2>1
<1> QED BY <1>4, <1>5, <1>6 DEF Next

(* The calls the server handled or may yet handle. A step adds to them     *)
(* only a first attempt with no backlog, or the head of the queue.         *)
Trace(c) == c \in handled \/ OnWire(c)

FirstAttempt(c) == fate[c] = "idle" /\ fate'[c] = "flying" /\ items' = <<>>
IsHead(c) == items # <<>> /\ c = items[1].id

LEMMA LoopTopTrace ==
    ASSUME QueueInv, NEW q \in Seq(StoredEntry), Distinct(q),
           NEW req \in [Calls -> Identity], NEW rest \in SUBSET outbound,
           loopTop(q, req, rest),
           strays' \subseteq strays \cup outbound, handled' = handled
    PROVE  \A c \in Calls : Trace(c)' => Trace(c) \/ IsHead(c)'
<1>1. rest \in SUBSET Message
  BY DEF QueueInv, TypeOK
<1>2. \A m \in outbound' \ rest : items' # <<>> /\ m.call = items'[1].id
  BY <1>1, LoopTopHead
<1> QED BY <1>2 DEF Trace, OnWire, IsHead

LEMMA TraceStep ==
    ASSUME QueueInv, [Next]_vars
    PROVE  \A c \in Calls : Trace(c)' => Trace(c) \/ FirstAttempt(c) \/ IsHead(c)'
<1> DEFINE Goal == \A c \in Calls : Trace(c)' => Trace(c) \/ FirstAttempt(c) \/ IsHead(c)'
<1>1. ASSUME NEW c \in Calls, InvokeLive(c) PROVE Goal
  <2>1. /\ items' = <<>> /\ fate[c] = "idle" /\ fate'[c] = "flying"
        /\ outbound' = outbound \cup {[call |-> c, body |-> "intact"]}
        /\ strays' = strays /\ handled' = handled
    BY <1>1 DEF InvokeLive, Backlog, queueVars, QueueInv, TypeOK
  <2> QED BY <2>1 DEF Trace, OnWire, FirstAttempt
<1>2. ASSUME outbound' \subseteq outbound, strays' \subseteq strays \cup outbound,
             handled' = handled
      PROVE  Goal
  BY <1>2 DEF Trace, OnWire
<1>3. ASSUME NEW c \in Calls, Abandon(c, {}) , handled' = handled PROVE Goal
  <2>1. outbound' \subseteq outbound /\ strays' \subseteq strays \cup outbound
    BY <1>3 DEF Abandon, Waiting
  <2> QED BY <1>2, <1>3, <2>1
<1>4. CASE Retry
  <2>1. loopTop(items, request, outbound) /\ strays' = strays /\ handled' = handled
    BY <1>4 DEF Retry
  <2> QED BY <2>1, LoopTopTrace DEF QueueInv, TypeOK
<1>5. CASE DrainDecoded
  <2>1. [request EXCEPT ![drain.call] = "none"] \in [Calls -> Identity]
    BY DEF QueueInv, TypeOK, Identity
  <2>2. Without(items, drain.call) \in Seq(StoredEntry) /\ Distinct(Without(items, drain.call))
    BY WithoutType DEF QueueInv, TypeOK
  <2>3. strays' = strays /\ handled' = handled
    BY <1>5 DEF DrainDecoded
  <2> QED BY <1>5, <2>1, <2>2, <2>3, LoopTopTrace DEF DrainDecoded
<1>6. CASE DrainCanceled
  <2>1. [request EXCEPT ![drain.call] = "none"] \in [Calls -> Identity]
    BY DEF QueueInv, TypeOK, Identity
  <2>2. Without(items, drain.call) \in Seq(StoredEntry) /\ Distinct(Without(items, drain.call))
    BY WithoutType DEF QueueInv, TypeOK
  <2>3. strays' \subseteq strays \cup outbound /\ handled' = handled
    BY <1>6 DEF DrainCanceled, Waiting
  <2>4. outbound \ Waiting(drain.call) \in SUBSET outbound
    OBVIOUS
  <2> QED BY <1>6, <2>1, <2>2, <2>3, <2>4, LoopTopTrace DEF DrainCanceled
<1>7. CASE DrainUnreachable
  <2>1. drain.call \in Calls
    BY <1>7, DrainType DEF DrainUnreachable, QueueInv
  <2> QED BY <1>3, <1>7, <2>1 DEF DrainUnreachable
<1>8. ASSUME NEW m \in Message, ServerHandles(m) PROVE Goal
  <2>1. /\ m \in outbound /\ outbound' \subseteq outbound /\ strays' = strays
        /\ handled' = handled \cup {m.call}
    BY <1>8 DEF ServerHandles
  <2> QED BY <2>1 DEF Trace, OnWire
<1>9. ASSUME NEW m \in Message, StrayArrives(m) PROVE Goal
  <2>1. /\ m \in strays /\ outbound' = outbound /\ strays' \subseteq strays
        /\ handled' = handled \cup {m.call}
    BY <1>9 DEF StrayArrives
  <2> QED BY <2>1 DEF Trace, OnWire
<1>10. CASE Reload
  <2>1. outbound' \subseteq outbound /\ strays' \subseteq strays \cup outbound
        /\ handled' = handled
    BY <1>10 DEF Reload
  <2> QED BY <1>2, <2>1
<1>11. CASE UNCHANGED vars
  BY <1>2, <1>11 DEF vars, netVars
<1>12. ASSUME NEW c \in Calls,
              InvokeBacklog(c) \/ LiveReply(c) \/ CaptureRequest(c) \/ ReadSettled(c)
                \/ Abort(c)
       PROVE  Goal
  BY <1>2, <1>12 DEF InvokeBacklog, LiveReply, CaptureRequest, ReadSettled, Abort, netVars
<1>13. ASSUME NEW c \in Calls, LiveUnreachable(c) \/ LiveAbort(c) PROVE Goal
  BY <1>3, <1>13 DEF LiveUnreachable, LiveAbort
<1>14. CASE List \/ \E reply \in Outcome : DrainReply(reply)
  BY <1>2, <1>14 DEF List, DrainReply, netVars
<1> QED BY <1>1, <1>4, <1>5, <1>6, <1>7, <1>8, <1>9, <1>10, <1>11, <1>12, <1>13, <1>14
        DEF Next

-----------------------------------------------------------------------------
(* The order invariant is inductive.                                       *)

LEMMA InitOrderInv == Init => OrderInv
<1> SUFFICES ASSUME Init PROVE OrderInv
  OBVIOUS
<1>1. items = <<>> /\ Ids(items) = {}
  BY DEF Init, Ids
<1>2. NoLeapfrog /\ AheadInv
  BY <1>1 DEF Init, NoLeapfrog, AheadInv
<1> QED BY <1>1, <1>2 DEF Init, OrderInv, OnWire, DrainsHead, Idle

LEMMA AheadStep ==
    ASSUME QueueInv, [Next]_vars
    PROVE  \A c \in Calls :
              \/ /\ ahead'[c] = ahead[c]
                 /\ fate'[c] \in {"idle", "flying"} => fate[c] \in {"idle", "flying"}
              \/ /\ fate[c] = "idle" /\ ahead'[c] = Ids(items)
                 /\ fate'[c] = "parked" \/ items = <<>>
<1> DEFINE Goal == \A c \in Calls :
              \/ /\ ahead'[c] = ahead[c]
                 /\ fate'[c] \in {"idle", "flying"} => fate[c] \in {"idle", "flying"}
              \/ /\ fate[c] = "idle" /\ ahead'[c] = Ids(items)
                 /\ fate'[c] = "parked" \/ items = <<>>
<1>1. ASSUME NEW c \in Calls, InvokeLive(c) \/ InvokeBacklog(c) PROVE Goal
  <2>1. fate[c] = "idle" /\ ahead' = [ahead EXCEPT ![c] = Ids(items)]
    BY <1>1 DEF InvokeLive, InvokeBacklog
  <2>2. \/ items = <<>> /\ fate' = [fate EXCEPT ![c] = "flying"]
        \/ fate' = [fate EXCEPT ![c] = "parked"]
    BY <1>1 DEF InvokeLive, InvokeBacklog, Backlog, park
  <2> QED BY <2>1, <2>2 DEF QueueInv, TypeOK
<1>2. ASSUME NEW c \in Calls, LiveReply(c) \/ LiveUnreachable(c) \/ LiveAbort(c) PROVE Goal
  <2>1. /\ ahead' = ahead
        /\ \E f \in {"returned", "parked", "aborted"} : fate' = [fate EXCEPT ![c] = f]
    BY <1>2 DEF LiveReply, LiveUnreachable, LiveAbort, park
  <2> QED BY <2>1 DEF QueueInv, TypeOK
<1>3. CASE Reload
  BY <1>3 DEF Reload, QueueInv, TypeOK
<1>4. CASE \/ \E c \in Calls : CaptureRequest(c) \/ ReadSettled(c) \/ Abort(c)
           \/ List \/ Retry \/ DrainDecoded \/ DrainUnreachable \/ DrainCanceled
           \/ \E reply \in Outcome : DrainReply(reply)
           \/ \E m \in Message : ServerHandles(m) \/ StrayArrives(m)
           \/ UNCHANGED vars
  <2>1. fate' = fate /\ ahead' = ahead
    BY <1>4 DEF CaptureRequest, ReadSettled, Abort, List, Retry, DrainDecoded,
                DrainUnreachable, DrainCanceled, DrainReply, ServerHandles, StrayArrives, vars
  <2> QED BY <2>1
<1> QED BY <1>1, <1>2, <1>3, <1>4 DEF Next

LEMMA StepAheadInv ==
    ASSUME QueueInv, AheadInv, [Next]_vars, QueueInv'
    PROVE  AheadInv'
<1>a. \A i \in DOMAIN items : items[i].id \in Calls /\ Parked(items[i].id)
  BY EntryIds DEF QueueInv, TypeOK, Ids
<1>b. \A i \in DOMAIN items' : items'[i].id \in Calls
  <2>1. items' \in Seq(StoredEntry)
    BY DEF QueueInv, TypeOK
  <2> QED BY <2>1, EntryIds
<1>c. Len(items) \in Nat /\ DOMAIN items = 1 .. Len(items)
  BY LenProperties DEF QueueInv, TypeOK
<1>d. ahead \in [Calls -> SUBSET Calls]
  BY DEF QueueInv, TypeOK
<1>e. \A c \in Calls : Parked(c) => Parked(c)' /\ ahead'[c] = ahead[c]
  BY FateStep, AheadStep DEF Parked
<1>1. (\A c \in Calls : \A d \in ahead[c] : Parked(d))'
  <2> SUFFICES ASSUME NEW c \in Calls, NEW d \in ahead'[c] PROVE Parked(d)'
    OBVIOUS
  <2>1. d \in Calls /\ Parked(d)
    <3>1. d \in ahead[c] \/ d \in Ids(items)
      BY AheadStep
    <3> QED BY <1>a, <1>d, <3>1 DEF AheadInv, Ids
  <2> QED BY <1>e, <2>1
<1>2. (\A c \in Calls : fate[c] \in {"idle", "flying"} => ahead[c] = {})'
  <2>1. items = <<>> => Ids(items) = {}
    BY DEF Ids
  <2> QED BY <2>1, AheadStep DEF AheadInv
<1>3. (\A i, j \in DOMAIN items : items[j].id \in ahead[items[i].id] => j < i)'
  <2> SUFFICES ASSUME NEW i \in DOMAIN items', NEW j \in DOMAIN items',
                      NEW a \in Calls, NEW b \in Calls,
                      a = items'[i].id, b = items'[j].id, b \in ahead'[a]
               PROVE  j < i
    BY <1>b
  <2>1. CASE Shifted
    <3>1. PICK f \in [DOMAIN items' -> DOMAIN items] :
             /\ \A k \in DOMAIN items' : items'[k].id = items[f[k]].id
             /\ \A k, l \in DOMAIN items' : k < l => f[k] < f[l]
      BY <2>1 DEF Shifted
    <3>2. f[i] \in DOMAIN items /\ f[j] \in DOMAIN items
      OBVIOUS
    <3>3. a = items[f[i]].id /\ b = items[f[j]].id
      BY <3>1
    <3>4. b \in ahead[a]
      BY <1>a, <1>e, <3>2, <3>3
    <3>5. f[j] < f[i]
      BY <3>2, <3>3, <3>4 DEF AheadInv
    <3>6. i \in Nat /\ j \in Nat
      <4>1. items' \in Seq(StoredEntry)
        BY DEF QueueInv, TypeOK
      <4> QED BY <4>1, LenProperties
    <3>7. i # j /\ ~ (i < j)
      BY <1>c, <3>1, <3>2, <3>5
    <3> QED BY <3>6, <3>7
  <2>2. ASSUME NEW c \in Calls, Joined(c) PROVE j < i
    <3>1. DOMAIN items' = 1 .. Len(items) + 1
      BY <2>2 DEF Joined
    <3>2. CASE i \in DOMAIN items /\ j \in DOMAIN items
      <4>1. a = items[i].id /\ b = items[j].id
        BY <2>2, <3>2 DEF Joined
      <4>2. b \in ahead[a]
        BY <1>a, <1>e, <3>2, <4>1
      <4> QED BY <3>2, <4>1, <4>2 DEF AheadInv
    <3>3. CASE j \notin DOMAIN items
      <4>1. j = Len(items) + 1 /\ b = c
        BY <1>c, <2>2, <3>1, <3>3 DEF Joined
      <4>2. ~ Parked(b)
        BY <2>2, <4>1 DEF Joined
      <4>3. b \in ahead[a] \/ b \in Ids(items)
        BY AheadStep
      <4> QED BY <1>a, <4>2, <4>3 DEF AheadInv, Ids
    <3>4. CASE i \notin DOMAIN items /\ j \in DOMAIN items
      BY <1>c, <3>1, <3>4
    <3> QED BY <3>2, <3>3, <3>4
  <2> QED BY <2>1, <2>2, QueueStep
<1> QED BY <1>1, <1>2, <1>3 DEF AheadInv

LEMMA IdsStep ==
    ASSUME QueueInv, [Next]_vars, QueueInv'
    PROVE  \A c \in Ids(items') : c \in Ids(items) \/ ~ Parked(c)
<1>1. DOMAIN items = 1 .. Len(items) /\ Len(items) \in Nat
  BY LenProperties DEF QueueInv, TypeOK
<1>2. CASE Shifted
  BY <1>2 DEF Shifted, Ids
<1>3. ASSUME NEW c \in Calls, Joined(c) PROVE \A d \in Ids(items') : d \in Ids(items) \/ d = c
  <2> SUFFICES ASSUME NEW i \in 1 .. Len(items) + 1
               PROVE  items'[i].id \in Ids(items) \/ items'[i].id = c
    BY <1>3 DEF Joined, Ids
  <2>1. i \in DOMAIN items \/ i = Len(items) + 1
    BY <1>1
  <2> QED BY <1>3, <2>1 DEF Joined, Ids
<1> QED BY <1>2, <1>3, QueueStep DEF Joined

LEMMA StepNoLeapfrog ==
    ASSUME QueueInv, OrderInv, [Next]_vars, QueueInv', AheadInv'
    PROVE  NoLeapfrog'
<1> SUFFICES ASSUME NEW c \in Calls, Trace(c)', NEW d \in ahead'[c], d \in Ids(items')
             PROVE  FALSE
  BY DEF NoLeapfrog, Trace
<1>1. CASE Trace(c)
  <2>1. fate[c] # "idle" /\ ahead[c] \cap Ids(items) = {}
    BY <1>1 DEF OrderInv, NoLeapfrog, Trace
  <2>2. ahead'[c] = ahead[c]
    BY <2>1, AheadStep
  <2>3. d \in Ids(items) \/ ~ Parked(d)
    BY IdsStep
  <2> QED BY <2>1, <2>2, <2>3 DEF OrderInv, AheadInv
<1>2. CASE FirstAttempt(c)
  BY <1>2 DEF FirstAttempt, Ids
<1>3. CASE IsHead(c)'
  <2>1. items' # <<>> /\ c = items'[1].id
    BY <1>3 DEF IsHead
  <2>2. /\ DOMAIN items' = 1 .. Len(items') /\ Len(items') \in Nat
        /\ 1 \in DOMAIN items'
    <3>1. items' \in Seq(StoredEntry)
      BY DEF QueueInv, TypeOK
    <3> QED BY <2>1, <3>1, LenProperties, EmptySeq
  <2>3. PICK j \in DOMAIN items' : d = items'[j].id
    BY DEF Ids
  <2>4. j < 1
    BY <2>1, <2>2, <2>3 DEF AheadInv
  <2> QED BY <2>2, <2>4
<1> QED BY <1>1, <1>2, <1>3, TraceStep

(* What the app comes to hold, cancel or await is in the queue.            *)
Known == held \cup canceled \cup aborted \cup settlers

LEMMA KnownStep ==
    ASSUME QueueInv, [Next]_vars
    PROVE  Known' \subseteq Known \cup Ids(items) \cup Ids(items')
<1> DEFINE Goal == Known' \subseteq Known \cup Ids(items) \cup Ids(items')
<1>1. ASSUME held' \subseteq held, canceled' = canceled, aborted' \subseteq aborted,
             settlers' \subseteq settlers
      PROVE  Goal
  BY <1>1 DEF Known
<1>2. ASSUME NEW c \in Calls, InvokeBacklog(c) \/ LiveUnreachable(c) PROVE Goal
  <2>1. ~ Parked(c) /\ park(c)
    BY <1>2 DEF InvokeBacklog, LiveUnreachable, Parked
  <2>2. Ids(items') = Ids(items) \cup {c}
    BY <2>1, ParkQueueInv
  <2>3. held' = held \cup {c}
    BY <2>1 DEF park
  <2> QED BY <1>2, <2>2, <2>3 DEF InvokeBacklog, LiveUnreachable, Known
<1>3. ASSUME NEW c \in Calls, ReadSettled(c) PROVE Goal
  BY <1>3 DEF ReadSettled, Known
<1>4. ASSUME NEW c \in Calls, Abort(c) PROVE Goal
  BY <1>4 DEF Abort, settle, Known
<1>5. CASE List
  BY <1>5 DEF List, Known
<1>6. ASSUME NEW c \in Calls,
             InvokeLive(c) \/ LiveReply(c) \/ LiveAbort(c) \/ CaptureRequest(c)
      PROVE  Goal
  BY <1>1, <1>6 DEF InvokeLive, LiveReply, LiveAbort, CaptureRequest, pageVars
<1>7. CASE DrainDecoded \/ DrainCanceled
  BY <1>1, <1>7 DEF DrainDecoded, DrainCanceled, settle
<1>8. CASE Retry \/ DrainUnreachable \/ \E reply \in Outcome : DrainReply(reply)
  BY <1>1, <1>8 DEF Retry, DrainUnreachable, DrainReply
<1>9. CASE \E m \in Message : ServerHandles(m) \/ StrayArrives(m)
  BY <1>1, <1>9 DEF ServerHandles, StrayArrives, pageVars
<1>10. CASE Reload \/ UNCHANGED vars
  BY <1>1, <1>10 DEF Reload, vars, pageVars
<1> QED BY <1>2, <1>3, <1>4, <1>5, <1>6, <1>7, <1>8, <1>9, <1>10 DEF Next

(* Canceled entries stay out: in every step but an abort the aborted and   *)
(* the canceled are at most what they were.                                *)
LEMMA AbortedStep ==
    ASSUME QueueInv, [Next]_vars
    PROVE  \/ aborted' \subseteq aborted /\ canceled' = canceled
           \/ \E c \in Calls : /\ aborted' = aborted \cup {c}
                               /\ canceled' \subseteq canceled \cup {c}
                               /\ c \notin Ids(items')
<1>1. ASSUME NEW c \in Calls, Abort(c)
      PROVE  /\ aborted' = aborted \cup {c}
             /\ canceled' \subseteq canceled \cup {c}
             /\ c \notin Ids(items')
  <2>1. items' = Without(items, c)
    BY <1>1 DEF Abort, commit
  <2> QED BY <1>1, <2>1, WithoutType DEF Abort, QueueInv, TypeOK
<1>2. CASE \/ \E c \in Calls : \/ InvokeLive(c) \/ InvokeBacklog(c) \/ LiveReply(c)
                              \/ LiveUnreachable(c) \/ LiveAbort(c) \/ CaptureRequest(c)
                              \/ ReadSettled(c)
           \/ List \/ Retry \/ DrainDecoded \/ DrainUnreachable \/ DrainCanceled
           \/ \E reply \in Outcome : DrainReply(reply)
           \/ \E m \in Message : ServerHandles(m) \/ StrayArrives(m)
           \/ Reload \/ UNCHANGED vars
  BY <1>2 DEF InvokeLive, InvokeBacklog, LiveReply, LiveUnreachable, LiveAbort,
              CaptureRequest, ReadSettled, List, Retry, DrainDecoded, DrainUnreachable,
              DrainCanceled, DrainReply, ServerHandles, StrayArrives, Reload, vars, pageVars
<1> QED BY <1>1, <1>2 DEF Next

(* The drain stays on the head it works on.                                *)
LEMMA DrainStep ==
    ASSUME QueueInv, OrderInv, [Next]_vars
    PROVE  /\ DrainsHead'
           /\ drain' # Idle =>
                         (drain'.call \in Ids(items')) \/ (drain # Idle /\ drain'.call = drain.call)
<1> DEFINE Goal == /\ DrainsHead'
                   /\ drain' # Idle =>
                         (drain'.call \in Ids(items')) \/ (drain # Idle /\ drain'.call = drain.call)
<1>a. items \in Seq(StoredEntry) /\ Distinct(items) /\ DOMAIN items = 1 .. Len(items)
  BY LenProperties DEF QueueInv, TypeOK
<1>1. ASSUME DOMAIN items' = DOMAIN items, \A i \in DOMAIN items : items'[i].id = items[i].id,
             items = <<>> <=> items' = <<>>, aborted' = aborted,
             drain' # Idle => drain # Idle /\ drain'.call = drain.call
      PROVE  Goal
  <2>1. Ids(items') = Ids(items)
    BY <1>1 DEF Ids
  <2>2. items # <<>> => items'[1].id = items[1].id
    <3>1. items # <<>> => 1 \in DOMAIN items
      BY <1>a, EmptySeq
    <3> QED BY <1>1, <3>1
  <2> QED BY <1>1, <2>1, <2>2 DEF OrderInv, DrainsHead
<1>2. ASSUME NEW c \in Calls, ~ Parked(c), Joined(c), Ids(items') = Ids(items) \cup {c},
             aborted' = aborted, drain' = drain
      PROVE  Goal
  <2>1. items # <<>> => items' # <<>> /\ items'[1].id = items[1].id
    <3>1. items # <<>> => 1 \in DOMAIN items
      BY <1>a, EmptySeq
    <3>2. items # <<>> => 1 \in DOMAIN items'
      BY <1>a, <1>2, <3>1 DEF Joined
    <3>3. items' # <<>> \/ DOMAIN items' = {}
      OBVIOUS
    <3> QED BY <1>2, <3>1, <3>2, <3>3 DEF Joined
  <2>2. drain # Idle => drain.call # c
    BY <1>2 DEF OrderInv
  <2> QED BY <1>2, <2>1, <2>2 DEF OrderInv, DrainsHead
<1>3. ASSUME NEW c \in Calls, InvokeBacklog(c) \/ LiveUnreachable(c) PROVE Goal
  <2>1. ~ Parked(c) /\ park(c)
    BY <1>3 DEF InvokeBacklog, LiveUnreachable, Parked
  <2>2. Joined(c) /\ Ids(items') = Ids(items) \cup {c}
    BY <2>1, ParkJoined
  <2>3. aborted' = aborted /\ drain' = drain
    BY <1>3 DEF InvokeBacklog, LiveUnreachable
  <2> QED BY <1>2, <2>1, <2>2, <2>3
<1>4. ASSUME NEW c \in Calls, Abort(c) PROVE Goal
  <2>1. items' = Without(items, c) /\ aborted' = aborted \cup {c} /\ drain' = drain
    BY <1>4 DEF Abort, commit
  <2>2. /\ Ids(items') = Ids(items) \ {c}
        /\ items # <<>> /\ items[1].id # c => items' # <<>> /\ items'[1].id = items[1].id
    BY <1>a, <2>1, WithoutProperties
  <2> QED BY <2>1, <2>2 DEF OrderInv, DrainsHead
<1>5. ASSUME NEW c \in Calls, CaptureRequest(c) PROVE Goal
  <2>1. items' = WithBody(items, c) \/ items' = items
    BY <1>5 DEF CaptureRequest, commit, queueVars
  <2>2. aborted' = aborted /\ drain' = drain
    BY <1>5 DEF CaptureRequest
  <2>3. DOMAIN WithBody(items, c) = DOMAIN items
    BY DEF WithBody
  <2>4. items = <<>> <=> items' = <<>>
    BY <1>a, <2>1, WithBodyProperties, EmptySeq
  <2> QED BY <1>a, <1>1, <2>1, <2>2, <2>4, WithBodyProperties
<1>6. ASSUME NEW q \in Seq(StoredEntry), Distinct(q), NEW req \in [Calls -> Identity],
             NEW rest \in SUBSET Message, loopTop(q, req, rest)
      PROVE  Goal
  <2>1. drain' # Idle => items' # <<>> /\ items'[1].id = drain'.call
    BY <1>6, LoopTopHead
  <2>2. items' \in Seq(StoredEntry)
    BY <1>6, LoopTop
  <2>3. items' # <<>> => items'[1].id \in Ids(items')
    BY <2>2, LenProperties, EmptySeq DEF Ids
  <2> QED BY <2>1, <2>3 DEF DrainsHead, Idle
<1>7. CASE Retry
  BY <1>6, <1>7 DEF Retry, QueueInv, TypeOK
<1>8. CASE DrainDecoded \/ DrainCanceled
  <2>1. \E rest \in SUBSET Message :
          loopTop(Without(items, drain.call), [request EXCEPT ![drain.call] = "none"], rest)
    BY <1>8 DEF DrainDecoded, DrainCanceled, QueueInv, TypeOK
  <2>2. [request EXCEPT ![drain.call] = "none"] \in [Calls -> Identity]
    BY DEF QueueInv, TypeOK, Identity
  <2>3. Without(items, drain.call) \in Seq(StoredEntry) /\ Distinct(Without(items, drain.call))
    BY <1>a, WithoutProperties
  <2> QED BY <1>6, <2>1, <2>2, <2>3
<1>9. CASE DrainUnreachable \/ Reload
  BY <1>9 DEF DrainUnreachable, Reload, DrainsHead
<1>10. ASSUME items' = items, aborted' = aborted,
              drain' # Idle => drain # Idle /\ drain'.call = drain.call
       PROVE  Goal
  BY <1>1, <1>10
<1>11. ASSUME NEW c \in Calls,
              InvokeLive(c) \/ LiveReply(c) \/ LiveAbort(c) \/ ReadSettled(c)
       PROVE  Goal
  BY <1>10, <1>11 DEF InvokeLive, LiveReply, LiveAbort, ReadSettled, queueVars, pageVars
<1>12. ASSUME NEW reply \in Outcome, DrainReply(reply) PROVE Goal
  <2>1. items' = items /\ aborted' = aborted /\ drain'.call = drain.call /\ drain # Idle
    BY <1>12 DEF DrainReply, queueVars, Idle
  <2> QED BY <1>10, <2>1
<1>13. CASE List \/ \E m \in Message : ServerHandles(m) \/ StrayArrives(m)
  BY <1>10, <1>13 DEF List, ServerHandles, StrayArrives, queueVars, pageVars
<1>14. CASE UNCHANGED vars
  BY <1>10, <1>14 DEF vars, queueVars, pageVars
<1> QED BY <1>3, <1>4, <1>5, <1>7, <1>8, <1>9, <1>11, <1>12, <1>13, <1>14 DEF Next

LEMMA StepOrderInv ==
    ASSUME QueueInv, OrderInv, [Next]_vars, QueueInv'
    PROVE  OrderInv'
<1>a. Ids(items) \subseteq Calls /\ Ids(items') \subseteq Calls
  <2>1. items \in Seq(StoredEntry) /\ items' \in Seq(StoredEntry)
    BY DEF QueueInv, TypeOK
  <2> QED BY <2>1, QueueIds
<1>b. Known \subseteq Calls
  BY DEF Known, QueueInv, TypeOK
<1>c. \A c \in Calls : Parked(c) => Parked(c)'
  BY FateStep DEF Parked
<1>d. \A c \in Ids(items') : Parked(c)'
  BY DEF QueueInv
<1>1. (\A c \in Calls : fate[c] = "idle" => c \notin handled /\ ~ OnWire(c))'
  <2> SUFFICES ASSUME NEW c \in Calls, fate'[c] = "idle"
               PROVE  ~ Trace(c)'
    BY DEF Trace
  <2>1. ~ Trace(c)
    BY FateStep DEF OrderInv, Trace
  <2>2. ~ FirstAttempt(c)
    BY DEF FirstAttempt
  <2>3. ~ IsHead(c)'
    <3>1. items' \in Seq(StoredEntry)
      BY DEF QueueInv, TypeOK
    <3>2. c \notin Ids(items')
      BY <1>d DEF Parked
    <3>3. items' # <<>> => 1 \in DOMAIN items'
      BY <3>1, LenProperties, EmptySeq
    <3> QED BY <3>2, <3>3 DEF IsHead, Ids
  <2> QED BY <2>1, <2>2, <2>3, TraceStep
<1>2. (\A c \in held \cup canceled \cup aborted \cup settlers : Parked(c))'
  <2>1. \A c \in Known \cup Ids(items) : Parked(c)
    BY DEF Known, OrderInv, QueueInv
  <2>2. \A c \in Known' : Parked(c)'
    BY <1>a, <1>b, <1>c, <1>d, <2>1, KnownStep
  <2> QED BY <2>2 DEF Known
<1>3. (drain # Idle => Parked(drain.call))'
  <2> SUFFICES ASSUME NEW c, c = drain'.call, drain' # Idle PROVE Parked(c)'
    BY DEF Parked
  <2>1. c \in Ids(items') \/ (drain # Idle /\ c = drain.call)
    BY DrainStep
  <2>2. drain # Idle => drain.call \in Calls /\ Parked(drain.call)
    BY DEF OrderInv, QueueInv, TypeOK, Drain, Idle
  <2> QED BY <1>c, <1>d, <2>1, <2>2
<1>4. \A c \in Ids(items') : c \notin aborted /\ c \notin canceled
  <2>1. \A c \in Ids(items') : c \in Ids(items) \/ ~ Parked(c)
    BY IdsStep
  <2> QED BY <2>1 DEF OrderInv
<1>5. aborted' \cap Ids(items') = {} /\ canceled' \cap Ids(items') = {}
  BY <1>4, AbortedStep
<1>6. DrainsHead'
  BY DrainStep
<1>7. AheadInv'
  BY StepAheadInv DEF OrderInv
<1>8. NoLeapfrog'
  BY <1>7, StepNoLeapfrog
<1> QED BY <1>1, <1>2, <1>3, <1>5, <1>6, <1>7, <1>8 DEF OrderInv

(* The order invariant, and with it what the runs check of the order: no   *)
(* later write overtakes an earlier one, the drain works on the head, and  *)
(* a canceled write is out for good.                                       *)
THEOREM OrderInvariant == Spec => [](QueueInv /\ OrderInv)
<1>1. Init => QueueInv /\ OrderInv
  BY InitQueueInv, InitOrderInv
<1>2. QueueInv /\ OrderInv /\ [Next]_vars => (QueueInv /\ OrderInv)'
  BY StepQueueInv, StepOrderInv
<1> QED BY <1>1, <1>2, PTL DEF Spec

(* FIFO: no write is on the wire, or handled, while one that was queued    *)
(* before it was made is still in the queue, for any number of calls.      *)
THEOREM BacklogIsFifo == Spec => []NoLeapfrog
<1>1. OrderInv => NoLeapfrog
  BY DEF OrderInv
<1> QED BY <1>1, OrderInvariant, PTL

(* The entry the drain awaits is the head, unless it was canceled.         *)
THEOREM DrainWorksOnHead == Spec => []DrainsHead
<1>1. OrderInv => DrainsHead
  BY DEF OrderInv
<1> QED BY <1>1, OrderInvariant, PTL

(* A write the app canceled is never in the queue again, nor in storage.   *)
THEOREM CancelIsFinal == Spec => []CanceledStaysOut
<1>1. QueueInv /\ OrderInv => CanceledStaysOut
  BY DEF QueueInv, OrderInv, CanceledStaysOut
<1> QED BY <1>1, OrderInvariant, PTL

-----------------------------------------------------------------------------
(* The answers.                                                            *)

LEMMA HandledGrows == [Next]_vars => handled \subseteq handled'
BY DEF Next, vars, InvokeLive, InvokeBacklog, LiveReply, LiveUnreachable, LiveAbort,
       CaptureRequest, ReadSettled, Abort, List, Retry, DrainReply, DrainDecoded,
       DrainUnreachable, DrainCanceled, ServerHandles, StrayArrives, Reload, netVars

(* A resend is on the wire until it is handled.                            *)
SentOrHandled ==
    drain.pc = "sending" => Waiting(drain.call) # {} \/ drain.call \in handled

LEMMA StepSentOrHandled ==
    ASSUME QueueInv, OrderInv, SentOrHandled, [Next]_vars
    PROVE  SentOrHandled'
<1>1. ASSUME drain' = drain, outbound \subseteq outbound' PROVE SentOrHandled'
  BY <1>1, HandledGrows DEF SentOrHandled, Waiting
<1>2. ASSUME NEW c \in Calls, fate[c] = "flying", drain' = drain, Abandon(c, {})
      PROVE  SentOrHandled'
  <2>1. drain.pc = "sending" => drain.call # c
    BY <1>2 DEF OrderInv, Idle, Parked
  <2>2. \A d : d # c => Waiting(d) \subseteq outbound'
    BY <1>2 DEF Abandon, Waiting
  <2> QED BY <1>2, <2>1, <2>2, HandledGrows DEF SentOrHandled, Waiting
<1>3. ASSUME NEW q \in Seq(StoredEntry), Distinct(q), NEW req \in [Calls -> Identity],
             NEW rest \in SUBSET Message, loopTop(q, req, rest)
      PROVE  SentOrHandled'
  <2>1. CASE drain' = Idle
    BY <2>1 DEF SentOrHandled, Idle
  <2>2. ASSUME NEW m \in Message, drain' = [pc |-> "sending", call |-> q[1].id],
               m.call = q[1].id, outbound' = rest \cup {m}
        PROVE  SentOrHandled'
    BY <2>2 DEF SentOrHandled, Waiting
  <2> QED BY <1>3, <2>1, <2>2, LoopTop
<1>4. CASE Retry
  BY <1>3, <1>4 DEF Retry, QueueInv, TypeOK
<1>5. CASE DrainDecoded \/ DrainCanceled
  <2>1. \E rest \in SUBSET Message :
          loopTop(Without(items, drain.call), [request EXCEPT ![drain.call] = "none"], rest)
    BY <1>5 DEF DrainDecoded, DrainCanceled, QueueInv, TypeOK
  <2>2. [request EXCEPT ![drain.call] = "none"] \in [Calls -> Identity]
    BY DEF QueueInv, TypeOK, Identity
  <2>3. Without(items, drain.call) \in Seq(StoredEntry) /\ Distinct(Without(items, drain.call))
    BY WithoutType DEF QueueInv, TypeOK
  <2> QED BY <1>3, <2>1, <2>2, <2>3
<1>6. CASE DrainUnreachable \/ Reload \/ \E reply \in Outcome : DrainReply(reply)
  BY <1>6 DEF DrainUnreachable, Reload, DrainReply, SentOrHandled, Idle
<1>7. ASSUME NEW m \in Message, ServerHandles(m) PROVE SentOrHandled'
  <2>1. /\ outbound' = outbound \ {m} /\ handled' = handled \cup {m.call}
        /\ drain' = drain
    BY <1>7 DEF ServerHandles, pageVars
  <2> QED BY <2>1 DEF SentOrHandled, Waiting
<1>8. ASSUME NEW c \in Calls, LiveUnreachable(c) \/ LiveAbort(c) PROVE SentOrHandled'
  BY <1>2, <1>8 DEF LiveUnreachable, LiveAbort, pageVars
<1>9. ASSUME NEW c \in Calls,
             InvokeLive(c) \/ InvokeBacklog(c) \/ LiveReply(c) \/ CaptureRequest(c)
               \/ ReadSettled(c) \/ Abort(c)
      PROVE  SentOrHandled'
  BY <1>1, <1>9 DEF InvokeLive, InvokeBacklog, LiveReply, CaptureRequest, ReadSettled, Abort,
                    pageVars, netVars
<1>10. CASE List \/ (\E m \in Message : StrayArrives(m)) \/ UNCHANGED vars
  BY <1>1, <1>10 DEF List, StrayArrives, vars, pageVars, netVars
<1> QED BY <1>4, <1>5, <1>6, <1>7, <1>8, <1>9, <1>10 DEF Next

(* The drain decodes an answer only the server can have given.             *)
DecodesHandled == drain.pc = "decoding" => drain.call \in handled

LEMMA LoopTopNoDecode ==
    ASSUME NEW q, NEW req, NEW rest, loopTop(q, req, rest)
    PROVE  drain'.pc \in {"idle", "sending"}
BY DEF loopTop, Idle

LEMMA StepDecodesHandled ==
    ASSUME QueueInv, SentOrHandled, DecodesHandled, [Next]_vars
    PROVE  DecodesHandled'
<1>1. CASE \E reply \in Outcome : DrainReply(reply)
  BY <1>1 DEF DrainReply, SentOrHandled, DecodesHandled, netVars
<1>2. CASE Retry \/ DrainDecoded \/ DrainCanceled
  BY <1>2, LoopTopNoDecode DEF Retry, DrainDecoded, DrainCanceled, DecodesHandled
<1>3. CASE DrainUnreachable \/ Reload
  BY <1>3 DEF DrainUnreachable, Reload, DecodesHandled, Idle
<1>4. CASE drain' = drain
  BY <1>4, HandledGrows DEF DecodesHandled
<1>5. CASE \/ \E c \in Calls : \/ InvokeLive(c) \/ InvokeBacklog(c) \/ LiveReply(c)
                              \/ LiveUnreachable(c) \/ LiveAbort(c) \/ CaptureRequest(c)
                              \/ ReadSettled(c) \/ Abort(c)
           \/ List
           \/ \E m \in Message : ServerHandles(m) \/ StrayArrives(m)
           \/ UNCHANGED vars
  BY <1>4, <1>5 DEF InvokeLive, InvokeBacklog, LiveReply, LiveUnreachable, LiveAbort,
                    CaptureRequest, ReadSettled, Abort, List, ServerHandles, StrayArrives,
                    vars, pageVars
<1> QED BY <1>1, <1>2, <1>3, <1>5 DEF Next

(* What `settled` tells, with what keeps it true: only parked calls are    *)
(* ever settled.                                                           *)
PromiseInv ==
    /\ \A c \in Calls : promise[c] \in Outcome \cup {"canceled"} => Parked(c)
    /\ SettledTruth

AnswerInv == SentOrHandled /\ DecodesHandled /\ PromiseInv

(* The turns that settle a deferred, and what they settle it with.         *)
SettledBy(c) ==
    /\ c \in settlers
    /\ c \notin Ids(items')
    /\ \/ promise'[c] \in Outcome /\ drain.pc = "decoding" /\ c = drain.call
       \/ promise'[c] = "canceled" /\ c \in aborted'

LEMMA PromiseStep ==
    ASSUME QueueInv, [Next]_vars
    PROVE  \A c \in Calls :
              \/ promise'[c] = promise[c] /\ (c \in aborted => c \in aborted')
              \/ promise'[c] \in {"unread", "pending"}
              \/ SettledBy(c)
<1> DEFINE Goal == \A c \in Calls :
                      \/ promise'[c] = promise[c] /\ (c \in aborted => c \in aborted')
                      \/ promise'[c] \in {"unread", "pending"}
                      \/ SettledBy(c)
<1>1. ASSUME promise' = promise, aborted' = aborted PROVE Goal
  BY <1>1
<1>2. ASSUME NEW c \in Calls, ReadSettled(c) PROVE Goal
  BY <1>2 DEF ReadSettled, QueueInv, TypeOK
<1>3. ASSUME NEW c \in Calls, Abort(c) PROVE Goal
  <2>1. aborted' = aborted \cup {c} /\ settle(c, "canceled")
    BY <1>3 DEF Abort
  <2>2. c \notin Ids(items')
    <3>1. items' = Without(items, c)
      BY <1>3 DEF Abort, commit
    <3> QED BY <3>1, WithoutType DEF QueueInv, TypeOK
  <2> QED BY <2>1, <2>2 DEF settle, SettledBy, QueueInv, TypeOK
<1>4. CASE DrainDecoded
  <2> DEFINE d == drain.call
  <2>1. drain.pc = "decoding" /\ drain.reply \in Outcome /\ aborted' = aborted
    BY <1>4, DrainType DEF DrainDecoded, QueueInv
  <2>2. PICK outcome \in {drain.reply, "refused"} : settle(d, outcome)
    BY <1>4 DEF DrainDecoded
  <2>3. outcome \in Outcome
    BY <2>1, <2>2 DEF Outcome
  <2>4. d \notin Ids(items')
    <3>1. [request EXCEPT ![d] = "none"] \in [Calls -> Identity]
      BY DEF QueueInv, TypeOK, Identity
    <3>2. loopTop(Without(items, d), [request EXCEPT ![d] = "none"], outbound)
      BY <1>4 DEF DrainDecoded
    <3>3. outbound \in SUBSET Message
      BY DEF QueueInv, TypeOK
    <3> QED BY <3>1, <3>2, <3>3, LoopTopShifted
  <2> HIDE DEF d
  <2>5. \A c \in Calls : \/ promise'[c] = promise[c]
                         \/ c = d /\ c \in settlers /\ promise'[c] = outcome
    BY <2>2 DEF settle, QueueInv, TypeOK
  <2> QED BY <2>1, <2>3, <2>4, <2>5 DEF SettledBy, d
<1>5. CASE DrainCanceled
  <2> DEFINE d == drain.call
  <2>1. d \in aborted /\ aborted' = aborted /\ settle(d, "canceled")
    BY <1>5 DEF DrainCanceled
  <2>2. d \notin Ids(items')
    <3>1. [request EXCEPT ![d] = "none"] \in [Calls -> Identity]
      BY DEF QueueInv, TypeOK, Identity
    <3>2. outbound \ Waiting(d) \in SUBSET Message
      BY DEF QueueInv, TypeOK
    <3> QED BY <1>5, <3>1, <3>2, LoopTopShifted DEF DrainCanceled
  <2> HIDE DEF d
  <2>3. \A c \in Calls : \/ promise'[c] = promise[c]
                         \/ c = d /\ c \in settlers /\ promise'[c] = "canceled"
    BY <2>1 DEF settle, QueueInv, TypeOK
  <2> QED BY <2>1, <2>2, <2>3 DEF SettledBy
<1>6. CASE Reload
  BY <1>6 DEF Reload
<1>7. CASE \/ \E c \in Calls : \/ InvokeLive(c) \/ InvokeBacklog(c) \/ LiveReply(c)
                              \/ LiveUnreachable(c) \/ LiveAbort(c) \/ CaptureRequest(c)
           \/ List \/ Retry \/ DrainUnreachable
           \/ \E reply \in Outcome : DrainReply(reply)
           \/ \E m \in Message : ServerHandles(m) \/ StrayArrives(m)
           \/ UNCHANGED vars
  BY <1>1, <1>7 DEF InvokeLive, InvokeBacklog, LiveReply, LiveUnreachable, LiveAbort,
                    CaptureRequest, List, Retry, DrainUnreachable, DrainReply,
                    ServerHandles, StrayArrives, vars, pageVars
<1> QED BY <1>2, <1>3, <1>4, <1>5, <1>6, <1>7 DEF Next

LEMMA StepPromiseInv ==
    ASSUME QueueInv, OrderInv, AnswerInv, [Next]_vars, QueueInv'
    PROVE  PromiseInv'
<1> SUFFICES ASSUME NEW c \in Calls
             PROVE  /\ promise'[c] \in Outcome \cup {"canceled"} => Parked(c)'
                    /\ promise'[c] \in Outcome => c \in handled' \ Ids(items')
                    /\ promise'[c] = "canceled" => c \in aborted'
  BY DEF PromiseInv, SettledTruth
<1>1. Parked(c) => Parked(c)'
  BY FateStep DEF Parked
<1>2. Parked(c) /\ c \notin Ids(items) => c \notin Ids(items')
  BY IdsStep
<1>3. CASE promise'[c] = promise[c] /\ (c \in aborted => c \in aborted')
  BY <1>1, <1>2, <1>3, HandledGrows DEF AnswerInv, PromiseInv, SettledTruth
<1>4. CASE promise'[c] \in {"unread", "pending"}
  BY <1>4 DEF Outcome
<1>5. CASE SettledBy(c)
  <2>1. Parked(c)
    BY <1>5 DEF SettledBy, OrderInv
  <2>2. \/ promise'[c] \in Outcome /\ c \in handled
        \/ promise'[c] = "canceled" /\ c \in aborted'
    BY <1>5 DEF SettledBy, AnswerInv, DecodesHandled
  <2> QED BY <1>1, <1>5, <2>1, <2>2, HandledGrows DEF SettledBy, Outcome
<1> QED BY <1>3, <1>4, <1>5, PromiseStep

THEOREM AnswerInvariant == Spec => [](QueueInv /\ OrderInv /\ AnswerInv)
<1>1. Init => AnswerInv
  BY DEF Init, AnswerInv, SentOrHandled, DecodesHandled, PromiseInv, SettledTruth, Idle,
         Outcome
<1>2. QueueInv /\ OrderInv /\ AnswerInv /\ QueueInv' /\ [Next]_vars => AnswerInv'
  BY StepSentOrHandled, StepDecodesHandled, StepPromiseInv DEF AnswerInv
<1> QED BY <1>1, <1>2, OrderInvariant, PTL DEF Spec

(* `settled` resolves or is refused only for a write the server handled,   *)
(* and reports a cancellation only of a write the app canceled.            *)
THEOREM SettledTellsTruth == Spec => []SettledTruth
<1>1. AnswerInv => SettledTruth
  BY DEF AnswerInv, PromiseInv
<1> QED BY <1>1, AnswerInvariant, PTL

-----------------------------------------------------------------------------
(* The action properties: how an entry leaves the queue.                   *)

(* Only an abort of the entry, or the turn that has decoded its answer,    *)
(* takes an entry out of the queue.                                        *)
Leaves(c) == c \in Ids(items) \ Ids(items')

LEMMA LeaveStep ==
    ASSUME QueueInv, OrderInv, [Next]_vars
    PROVE  \A c \in Calls : Leaves(c) =>
              \/ c \in canceled' /\ settle(c, "canceled")
              \/ /\ drain.pc = "decoding" /\ c = drain.call
                 /\ \E outcome \in Outcome : settle(c, outcome)
<1> DEFINE Goal == \A c \in Calls : Leaves(c) =>
                      \/ c \in canceled' /\ settle(c, "canceled")
                      \/ /\ drain.pc = "decoding" /\ c = drain.call
                         /\ \E outcome \in Outcome : settle(c, outcome)
<1>1. ASSUME Ids(items) \subseteq Ids(items') PROVE Goal
  BY <1>1 DEF Leaves
<1>2. ASSUME NEW c \in Calls, Abort(c) PROVE Goal
  <2>1. items' = Without(items, c) /\ settle(c, "canceled")
        /\ canceled' = canceled \cup ({c} \cap Ids(items))
    BY <1>2 DEF Abort, commit
  <2>2. Ids(items') = Ids(items) \ {c}
    BY <2>1, WithoutType DEF QueueInv, TypeOK
  <2> QED BY <2>1, <2>2 DEF Leaves
<1>3. CASE DrainDecoded
  <2>1. drain.pc = "decoding" /\ drain.reply \in Outcome
    BY <1>3, DrainType DEF DrainDecoded, QueueInv
  <2>2. \E outcome \in Outcome : settle(drain.call, outcome)
    <3>1. PICK outcome \in {drain.reply, "refused"} : settle(drain.call, outcome)
      BY <1>3 DEF DrainDecoded
    <3>2. outcome \in Outcome
      BY <2>1, <3>1 DEF Outcome
    <3> QED BY <3>1, <3>2
  <2>3. Ids(items') = Ids(items) \ {drain.call}
    <3>1. [request EXCEPT ![drain.call] = "none"] \in [Calls -> Identity]
      BY DEF QueueInv, TypeOK, Identity
    <3> QED BY <1>3, <3>1, LoopTopShifted DEF DrainDecoded, QueueInv, TypeOK
  <2> QED BY <2>1, <2>2, <2>3 DEF Leaves
<1>4. CASE DrainCanceled
  <2>1. Ids(items') = Ids(items) \ {drain.call}
    <3>1. [request EXCEPT ![drain.call] = "none"] \in [Calls -> Identity]
      BY DEF QueueInv, TypeOK, Identity
    <3>2. outbound \ Waiting(drain.call) \in SUBSET Message
      BY DEF QueueInv, TypeOK
    <3> QED BY <1>4, <3>1, <3>2, LoopTopShifted DEF DrainCanceled
  <2>2. drain.call \notin Ids(items)
    BY <1>4 DEF DrainCanceled, OrderInv
  <2> QED BY <1>1, <2>1, <2>2
<1>5. CASE Retry
  <2>1. Ids(items') = Ids(items)
    BY <1>5, LoopTop DEF Retry, QueueInv, TypeOK
  <2> QED BY <1>1, <2>1
<1>6. CASE DrainUnreachable
  <2>1. items' = WithStatus(items, drain.call, "queued")
    BY <1>6 DEF DrainUnreachable, commit
  <2> QED BY <1>1, <2>1, WithStatusProperties DEF QueueInv, TypeOK, Status
<1>7. ASSUME NEW c \in Calls, CaptureRequest(c) PROVE Goal
  <2>1. items' = WithBody(items, c) \/ items' = items
    BY <1>7 DEF CaptureRequest, commit, queueVars
  <2> QED BY <1>1, <2>1, WithBodyProperties DEF QueueInv, TypeOK
<1>8. ASSUME NEW c \in Calls, InvokeBacklog(c) \/ LiveUnreachable(c) PROVE Goal
  <2>1. ~ Parked(c) /\ park(c)
    BY <1>8 DEF InvokeBacklog, LiveUnreachable, Parked
  <2> QED BY <1>1, <2>1, ParkQueueInv
<1>9. CASE Reload
  BY <1>1, <1>9 DEF Reload, QueueInv
<1>10. CASE \/ \E c \in Calls : \/ InvokeLive(c) \/ LiveReply(c) \/ LiveAbort(c)
                               \/ ReadSettled(c)
            \/ List
            \/ \E reply \in Outcome : DrainReply(reply)
            \/ \E m \in Message : ServerHandles(m) \/ StrayArrives(m)
            \/ UNCHANGED vars
  <2>1. items' = items
    BY <1>10 DEF InvokeLive, LiveReply, LiveAbort, ReadSettled, List, DrainReply,
                 ServerHandles, StrayArrives, vars, queueVars
  <2> QED BY <1>1, <2>1
<1> QED BY <1>2, <1>3, <1>4, <1>5, <1>6, <1>7, <1>8, <1>9, <1>10 DEF Next

(* No write is ever lost: through parks, drains, cancels of other entries  *)
(* and reloads, an entry leaves only once handled or canceled itself.      *)
THEOREM NothingIsLost == Spec => NothingLost
<1>1. QueueInv /\ OrderInv /\ AnswerInv /\ QueueInv' /\ [Next]_vars =>
          [\A c \in Ids(items) \ Ids(items') : c \in handled \/ c \in canceled']_vars
  <2> SUFFICES ASSUME QueueInv, OrderInv, AnswerInv, [Next]_vars,
                      NEW c \in Ids(items) \ Ids(items')
               PROVE  c \in handled \/ c \in canceled'
    OBVIOUS
  <2>1. c \in Calls /\ Leaves(c)
    BY QueueIds DEF Leaves, QueueInv, TypeOK
  <2> QED BY <2>1, LeaveStep DEF AnswerInv, DecodesHandled
<1> QED BY <1>1, AnswerInvariant, PTL DEF Spec, NothingLost

(* An awaited `settled` is settled in the turn its entry leaves the queue. *)
THEOREM ExitSettles == Spec => SettlesOnExit
<1>1. QueueInv /\ OrderInv /\ [Next]_vars =>
          [\A c \in (Ids(items) \ Ids(items')) \cap settlers :
              promise'[c] \notin {"unread", "pending"}]_vars
  <2> SUFFICES ASSUME QueueInv, OrderInv, [Next]_vars,
                      NEW c \in Ids(items) \ Ids(items'), c \in settlers
               PROVE  promise'[c] \notin {"unread", "pending"}
    OBVIOUS
  <2>1. c \in Calls /\ Leaves(c)
    BY QueueIds DEF Leaves, QueueInv, TypeOK
  <2>2. \E outcome \in Outcome \cup {"canceled"} : settle(c, outcome)
    BY <2>1, LeaveStep
  <2>3. promise'[c] \in Outcome \cup {"canceled"}
    BY <2>1, <2>2 DEF settle, QueueInv, TypeOK
  <2> QED BY <2>3 DEF Outcome
<1> QED BY <1>1, OrderInvariant, PTL DEF Spec, SettlesOnExit

-----------------------------------------------------------------------------
(* The bodies, when reloads wait for the captures: an entry whose body is  *)
(* not persisted yet still has its live Request, so nothing is ever        *)
(* rebuilt or sent without its body.                                       *)
Kept(q, req, cap) ==
    \A i \in DOMAIN q : ~ q[i].captured => q[i].id \in cap /\ req[q[i].id] # "none"

BodyInv ==
    /\ Kept(items, request, capturing)
    /\ \A c \in Calls : request[c] # "empty"
    /\ \A m \in outbound \cup strays : m.body = "intact"
    /\ BodyIntact

LEMMA LoopTopBody ==
    ASSUME NEW q \in Seq(StoredEntry), Distinct(q), NEW req \in [Calls -> Identity],
           NEW rest \in SUBSET Message, NEW cap, Kept(q, req, cap),
           \A c \in Calls : req[c] # "empty",
           \A m \in rest : m.body = "intact",
           loopTop(q, req, rest)
    PROVE  /\ Kept(items', request', cap)
           /\ \A c \in Calls : request'[c] # "empty"
           /\ \A m \in outbound' : m.body = "intact"
<1>0. /\ DOMAIN items' = DOMAIN q
      /\ \A i \in DOMAIN q : items'[i].id = q[i].id /\ items'[i].captured = q[i].captured
  BY LoopTop
<1>1. CASE request' = req /\ outbound' = rest
  BY <1>0, <1>1 DEF Kept
<1>2. CASE q # <<>> /\ identityFor(req, q[1]) # "spent"
  <2> DEFINE c == q[1].id
             r == identityFor(req, q[1])
  <2>1. 1 \in DOMAIN q /\ q[1] \in StoredEntry
    BY <1>2, LenProperties, EmptySeq
  <2>2. c \in Calls /\ q[1].captured \in BOOLEAN
    BY <2>1 DEF StoredEntry
  <2>3. r = "intact"
    <3>1. q[1].captured \/ req[c] # "none"
      BY <2>1 DEF Kept
    <3> QED BY <1>2, <2>2, <3>1 DEF identityFor, Identity
  <2>4. /\ request' = [req EXCEPT ![c] = AfterResend(c, r)]
        /\ outbound' = rest \cup {[call |-> c, body |-> r]}
    BY <1>2 DEF loopTop
  <2>5. AfterResend(c, r) \in {"intact", "spent"}
    BY <2>3 DEF AfterResend
  <2> HIDE DEF c, r
  <2>6. \A d \in Calls : /\ req[d] # "none" => request'[d] # "none"
                        /\ request'[d] # "empty"
    BY <2>2, <2>4, <2>5
  <2>7. \A i \in DOMAIN q : q[i].id \in Calls
    BY EntryIds
  <2>8. \A m \in outbound' : m.body = "intact"
    BY <2>3, <2>4
  <2>9. Kept(items', request', cap)
    BY <1>0, <2>6, <2>7 DEF Kept
  <2> QED BY <2>6, <2>8, <2>9
<1>3. CASE q = <<>> \/ identityFor(req, q[1]) = "spent"
  <2>1. request' = req /\ outbound' = rest
    BY <1>3 DEF loopTop
  <2> QED BY <1>1, <2>1
<1> QED BY <1>2, <1>3

LEMMA WithoutKept ==
    ASSUME NEW q \in Seq(StoredEntry), Distinct(q), NEW req \in [Calls -> Identity], NEW c,
           NEW cap, Kept(q, req, cap)
    PROVE  Kept(Without(q, c), [req EXCEPT ![c] = "none"], cap)
<1> DEFINE w == Without(q, c)
<1>1. /\ Ids(w) = Ids(q) \ {c}
      /\ \A i \in DOMAIN w : \E j \in DOMAIN q : w[i] = q[j]
  BY WithoutProperties
<1> HIDE DEF w
<1>2. \A i \in DOMAIN w : w[i].id # c
  BY <1>1 DEF Ids
<1>3. \A i \in DOMAIN q : q[i].id \in Calls
  BY EntryIds
<1>4. Kept(w, [req EXCEPT ![c] = "none"], cap)
  BY <1>1, <1>2, <1>3 DEF Kept
<1> QED BY <1>4 DEF w

(* A reload, a park and a finished capture keep the bodies.                *)
LEMMA StepBodyInv ==
    ASSUME ReloadWaits, QueueInv, BodyInv, [Next]_vars
    PROVE  BodyInv'
<1>a. /\ items \in Seq(StoredEntry) /\ Distinct(items) /\ storage = items
      /\ request \in [Calls -> Identity] /\ outbound \subseteq Message
      /\ DOMAIN items = 1 .. Len(items) /\ Len(items) \in Nat
      /\ \A i \in DOMAIN items : items[i] \in StoredEntry /\ items[i].id \in Calls
  <2>1. \A i \in DOMAIN items : items[i] \in StoredEntry
    BY LenProperties DEF QueueInv, TypeOK
  <2> QED BY <2>1, LenProperties DEF QueueInv, TypeOK, StoredEntry
<1>1. ASSUME NEW c \in Calls, park(c), c \notin Ids(items),
             outbound' \subseteq outbound, strays' \subseteq strays \cup outbound,
             garbled' = garbled
      PROVE  BodyInv'
  <2> DEFINE e == [id |-> c, captured |-> c \in Bodyless, status |-> "queued"]
  <2>1. /\ items' = Append(items, e) /\ request' = [request EXCEPT ![c] = "intact"]
        /\ capturing' = capturing \cup ({c} \ Bodyless)
    BY <1>1 DEF park, commit
  <2>2. e \in StoredEntry /\ e.id = c /\ e.captured = (c \in Bodyless)
    BY DEF StoredEntry, Status
  <2> HIDE DEF e
  <2>3. /\ DOMAIN items' = 1 .. Len(items) + 1
        /\ \A i \in 1 .. Len(items) : items'[i] = items[i]
        /\ items'[Len(items) + 1] = e
    BY <1>1, <1>a, <2>1, <2>2, AppendEntry
  <2>4. \A d \in Calls : /\ request[d] # "none" => request'[d] # "none"
                        /\ request'[d] # "empty"
                        /\ request'[c] = "intact"
    BY <1>a, <2>1 DEF BodyInv
  <2>5. Kept(items', request', capturing')
    <3> SUFFICES ASSUME NEW i \in 1 .. Len(items) + 1, ~ items'[i].captured
                 PROVE  items'[i].id \in capturing' /\ request'[items'[i].id] # "none"
      BY <2>3 DEF Kept
    <3>1. CASE i \in 1 .. Len(items)
      <4>1. i \in DOMAIN items /\ items'[i] = items[i] /\ items[i].id \in Calls
        BY <1>a, <2>3, <3>1
      <4>2. items[i].id \in capturing /\ request[items[i].id] # "none"
        BY <4>1 DEF BodyInv, Kept
      <4> QED BY <2>1, <2>4, <4>1, <4>2
    <3>2. CASE i = Len(items) + 1
      BY <2>1, <2>2, <2>3, <2>4, <3>2
    <3> QED BY <1>a, <3>1, <3>2
  <2> QED BY <1>1, <2>4, <2>5 DEF BodyInv, BodyIntact
<1>2. ASSUME Kept(items', request', capturing'), \A c \in Calls : request'[c] # "empty",
             outbound' \subseteq outbound, strays' \subseteq strays \cup outbound,
             garbled' = garbled
      PROVE  BodyInv'
  BY <1>2 DEF BodyInv, BodyIntact
<1>3. ASSUME NEW c \in Calls, InvokeLive(c) PROVE BodyInv'
  <2>1. /\ items' = items /\ request' = request /\ capturing' = capturing
        /\ strays' = strays /\ garbled' = garbled
        /\ outbound' = outbound \cup {[call |-> c, body |-> "intact"]}
    BY <1>3 DEF InvokeLive, queueVars, pageVars
  <2> QED BY <2>1 DEF BodyInv, BodyIntact, Kept
<1>4. ASSUME NEW c \in Calls, InvokeBacklog(c) \/ LiveUnreachable(c) PROVE BodyInv'
  <2>1. c \notin Ids(items) /\ park(c)
    BY <1>4 DEF InvokeBacklog, LiveUnreachable, QueueInv, Parked
  <2>2. /\ outbound' \subseteq outbound /\ strays' \subseteq strays \cup outbound
        /\ garbled' = garbled
    BY <1>4 DEF InvokeBacklog, LiveUnreachable, Abandon, Waiting, netVars
  <2> QED BY <1>1, <2>1, <2>2
<1>5. ASSUME NEW c \in Calls, CaptureRequest(c) PROVE BodyInv'
  <2>1. /\ capturing' = capturing \ {c} /\ request' = request
        /\ outbound' = outbound /\ strays' = strays /\ garbled' = garbled
        /\ items' = IF c \in Ids(items) THEN WithBody(items, c) ELSE items
    BY <1>5 DEF CaptureRequest, commit, queueVars, netVars
  <2>2. CASE c \in Ids(items)
    <3>1. /\ DOMAIN items' = DOMAIN items
          /\ \A i \in DOMAIN items :
                /\ items'[i].id = items[i].id
                /\ items'[i].captured = (items[i].captured \/ items[i].id = c)
      BY <1>a, <2>1, <2>2, WithBodyProperties
    <3>2. Kept(items', request', capturing')
      BY <2>1, <3>1 DEF Kept, BodyInv
    <3> QED BY <1>2, <2>1, <3>2 DEF BodyInv
  <2>3. CASE c \notin Ids(items)
    <3>1. Kept(items', request', capturing')
      BY <2>1, <2>3 DEF Kept, BodyInv, Ids
    <3> QED BY <1>2, <2>1, <3>1 DEF BodyInv
  <2> QED BY <2>2, <2>3
<1>6. ASSUME NEW c \in Calls, Abort(c) PROVE BodyInv'
  <2>1. /\ items' = Without(items, c) /\ request' = [request EXCEPT ![c] = "none"]
        /\ capturing' = capturing /\ outbound' = outbound /\ strays' = strays
        /\ garbled' = garbled
    BY <1>6 DEF Abort, commit, netVars
  <2>2. Kept(items', request', capturing')
    BY <1>a, <2>1, WithoutKept DEF BodyInv
  <2>3. \A d \in Calls : request'[d] # "empty"
    BY <1>a, <2>1 DEF BodyInv
  <2> QED BY <1>2, <2>1, <2>2, <2>3
<1>7. CASE List
  <2>1. /\ items' = items /\ capturing' = capturing /\ outbound' = outbound
        /\ strays' = strays /\ garbled' = garbled
        /\ request' = [c \in Calls |-> IF c \in Ids(items)
                                       THEN identityFor(request, items[IndexOf(items, c)])
                                       ELSE request[c]]
    BY <1>7 DEF List, queueVars, netVars
  <2>2. ASSUME NEW c \in Ids(items)
        PROVE  identityFor(request, items[IndexOf(items, c)]) \in {"intact", "spent"}
    <3>1. \E i \in DOMAIN items : items[i].id = c
      BY DEF Ids
    <3>2. IndexOf(items, c) \in DOMAIN items /\ items[IndexOf(items, c)].id = c
      BY <3>1 DEF IndexOf
    <3> DEFINE e == items[IndexOf(items, c)]
    <3>3. e.captured \/ request[c] # "none"
      BY <3>2 DEF BodyInv, Kept
    <3>4. c \in Calls /\ request[c] \in Identity /\ request[c] # "empty"
      BY <1>a, <3>2 DEF BodyInv
    <3>5. e.id = c
      BY <3>2
    <3> HIDE DEF e
    <3>6. identityFor(request, e) \in {"intact", "spent"}
      BY <3>3, <3>4, <3>5 DEF identityFor, Identity
    <3> QED BY <3>6 DEF e
  <2>3. \A c \in Calls : /\ request[c] # "none" => request'[c] # "none"
                        /\ request'[c] # "empty"
    BY <1>a, <2>1, <2>2 DEF BodyInv
  <2>4. Kept(items', request', capturing')
    BY <1>a, <2>1, <2>3 DEF BodyInv, Kept
  <2> QED BY <1>2, <2>1, <2>3, <2>4
<1>8. ASSUME NEW q \in Seq(StoredEntry), Distinct(q), NEW req \in [Calls -> Identity],
             NEW rest \in SUBSET outbound, Kept(q, req, capturing),
             \A c \in Calls : req[c] # "empty", loopTop(q, req, rest),
             capturing' = capturing, strays' \subseteq strays \cup outbound, garbled' = garbled
      PROVE  BodyInv'
  <2>1. /\ Kept(items', request', capturing)
        /\ \A c \in Calls : request'[c] # "empty"
        /\ \A m \in outbound' : m.body = "intact"
    BY <1>8, <1>a, LoopTopBody DEF BodyInv
  <2> QED BY <1>8, <2>1 DEF BodyInv, BodyIntact
<1>9. CASE Retry
  BY <1>8, <1>9, <1>a DEF Retry, BodyInv
<1>10. CASE DrainDecoded \/ DrainCanceled
  <2> DEFINE d == drain.call
             q == Without(items, d)
             req == [request EXCEPT ![d] = "none"]
  <2>1. \E rest \in SUBSET outbound : loopTop(q, req, rest)
    BY <1>10 DEF DrainDecoded, DrainCanceled
  <2>2. q \in Seq(StoredEntry) /\ Distinct(q)
    BY <1>a, WithoutProperties
  <2>3. req \in [Calls -> Identity] /\ \A c \in Calls : req[c] # "empty"
    BY <1>a DEF Identity, BodyInv
  <2>4. Kept(q, req, capturing)
    BY <1>a, WithoutKept DEF BodyInv
  <2>5. /\ capturing' = capturing /\ strays' \subseteq strays \cup outbound
        /\ garbled' = garbled
    BY <1>10 DEF DrainDecoded, DrainCanceled, Waiting
  <2> HIDE DEF q, req
  <2> QED BY <1>8, <2>1, <2>2, <2>3, <2>4, <2>5
<1>11. CASE DrainUnreachable
  <2>1. items' = WithStatus(items, drain.call, "queued")
    BY <1>11 DEF DrainUnreachable, commit
  <2>2. /\ request' = request /\ capturing' = capturing /\ garbled' = garbled
        /\ outbound' \subseteq outbound /\ strays' \subseteq strays \cup outbound
    BY <1>11 DEF DrainUnreachable, Abandon, Waiting
  <2>3. /\ DOMAIN items' = DOMAIN items
        /\ \A i \in DOMAIN items : /\ items'[i].id = items[i].id
                                   /\ items'[i].captured = items[i].captured
    BY <1>a, <2>1, WithStatusProperties DEF Status
  <2>4. Kept(items', request', capturing')
    BY <2>2, <2>3 DEF Kept, BodyInv
  <2> QED BY <1>2, <2>2, <2>4 DEF BodyInv
<1>12. ASSUME NEW m \in Message, ServerHandles(m) \/ StrayArrives(m) PROVE BodyInv'
  <2>1. m.body = "intact"
    BY <1>12 DEF ServerHandles, StrayArrives, BodyInv
  <2>2. /\ items' = items /\ request' = request /\ capturing' = capturing
        /\ outbound' \subseteq outbound /\ strays' \subseteq strays /\ garbled' = garbled
    BY <1>12, <2>1 DEF ServerHandles, StrayArrives, queueVars, pageVars
  <2> QED BY <2>2 DEF BodyInv, BodyIntact, Kept
<1>13. CASE Reload
  <2>1. capturing = {} /\ items' = items /\ capturing' = {}
    BY <1>13, <1>a DEF Reload
  <2>2. \A i \in DOMAIN items : items[i].captured
    BY <2>1 DEF BodyInv, Kept
  <2>3. /\ Kept(items', request', capturing')
        /\ \A c \in Calls : request'[c] # "empty"
    BY <1>13, <2>1, <2>2 DEF Reload, Kept
  <2> QED BY <1>2, <1>13, <2>3 DEF Reload
<1>14. CASE \/ \E c \in Calls : LiveReply(c) \/ LiveAbort(c) \/ ReadSettled(c)
            \/ \E reply \in Outcome : DrainReply(reply)
            \/ UNCHANGED vars
  <2>1. /\ items' = items /\ request' = request /\ capturing' = capturing
        /\ outbound' \subseteq outbound /\ strays' \subseteq strays \cup outbound
        /\ garbled' = garbled
    BY <1>14 DEF LiveReply, LiveAbort, ReadSettled, DrainReply, Abandon, Waiting, vars,
                 queueVars, pageVars, netVars
  <2> QED BY <1>2, <2>1 DEF BodyInv
<1> QED BY <1>3, <1>4, <1>5, <1>6, <1>7, <1>9, <1>10, <1>11, <1>12, <1>13, <1>14 DEF Next

(* If no reload falls between a park and its capture, every write the      *)
(* server handles carries its body, through any number of resends, reloads *)
(* and rebuilds.                                                           *)
THEOREM BodiesSurvive == ReloadWaits => (Spec => []BodyIntact)
<1> SUFFICES ASSUME ReloadWaits PROVE Spec => []BodyIntact
  OBVIOUS
<1>1. Init => BodyInv
  BY DEF Init, BodyInv, BodyIntact, Kept
<1>2. QueueInv /\ BodyInv /\ [Next]_vars => BodyInv'
  BY StepBodyInv
<1>3. BodyInv => BodyIntact
  BY DEF BodyInv
<1> QED BY <1>1, <1>2, <1>3, QueueInvariant, PTL DEF Spec

-----------------------------------------------------------------------------
(* The refinement: the queue as storage has it, the calls made and the     *)
(* calls on the wire, each step of Outbox seen through them.               *)
Line(q) == [i \in DOMAIN q |-> q[i].id]

queue == [i \in DOMAIN storage |-> storage[i].id]
made == {c \in Calls : fate[c] # "idle"}
wire == {m.call : m \in outbound \cup strays}

LEMMA LineProperties ==
    ASSUME NEW q \in Seq(StoredEntry)
    PROVE  /\ Line(q) \in Seq(Calls) /\ Len(Line(q)) = Len(q)
           /\ \A i \in 1 .. Len(q) : Line(q)[i] = q[i].id
<1> DEFINE n == Len(q)
           l == Line(q)
<1>1. n \in Nat /\ DOMAIN q = 1 .. n /\ \A i \in 1 .. n : q[i].id \in Calls
  BY LenProperties, EntryIds
<1>2. l \in [1 .. n -> Calls] /\ \A i \in 1 .. n : l[i] = q[i].id
  BY <1>1 DEF Line
<1> HIDE DEF n, l
<1>3. l \in Seq(Calls)
  BY <1>1, <1>2, SeqDef
<1>4. DOMAIN l = 1 .. Len(l) /\ Len(l) \in Nat
  BY <1>3, LenProperties
<1>5. Len(l) = n
  BY <1>1, <1>2, <1>4
<1> QED BY <1>2, <1>3, <1>5 DEF n, l

(* A removal takes its entry out of the line; of the head, its tail is     *)
(* left.                                                                   *)
LEMMA LineWithout ==
    ASSUME NEW q \in Seq(StoredEntry), Distinct(q), NEW c \in Ids(q)
    PROVE  /\ \E k \in DOMAIN Line(q) : Line(q)[k] = c /\ Line(Without(q, c)) = RemoveAt(Line(q), k)
           /\ q # <<>> /\ q[1].id = c => Line(Without(q, c)) = Tail(Line(q))
<1> DEFINE n == Len(q)
           k == IndexOf(q, c)
           l == Line(q)
           w == Without(q, c)
           v == Line(w)
<1>1. n \in Nat /\ DOMAIN q = 1 .. n /\ l \in Seq(Calls) /\ Len(l) = n
      /\ DOMAIN l = 1 .. n /\ \A i \in 1 .. n : l[i] = q[i].id
  BY LenProperties, LineProperties
<1>2. k \in 1 .. n /\ q[k].id = c
  <2>1. \E i \in DOMAIN q : q[i].id = c
    BY DEF Ids
  <2> QED BY <1>1, <2>1 DEF IndexOf
<1>3. w = RemoveAt(q, k)
  BY DEF Without
<1>4. /\ w \in Seq(StoredEntry) /\ Len(w) = n - 1
      /\ \A i \in 1 .. n - 1 : w[i] = IF i < k THEN q[i] ELSE q[i + 1]
  BY <1>2, <1>3, RemoveAtProperties
<1>5. v \in Seq(Calls) /\ Len(v) = n - 1 /\ \A i \in 1 .. n - 1 : v[i] = w[i].id
  BY <1>4, LineProperties
<1> HIDE DEF n, k, l, w, v
<1>6. \A i \in 1 .. n - 1 : v[i] = IF i < k THEN l[i] ELSE l[i + 1]
  <2>1. TAKE i \in 1 .. n - 1
  <2>2. i \in 1 .. n /\ i + 1 \in 1 .. n
    BY <1>1
  <2> QED BY <1>1, <1>4, <1>5, <2>2
<1>7. v = RemoveAt(l, k)
  <2> DEFINE r == RemoveAt(l, k)
  <2>1. /\ r \in Seq(Calls) /\ Len(r) = n - 1
        /\ \A i \in 1 .. n - 1 : r[i] = IF i < k THEN l[i] ELSE l[i + 1]
    BY <1>1, <1>2, RemoveAtProperties
  <2> HIDE DEF r
  <2>2. v = r
    BY <1>5, <1>6, <2>1, SeqEqual
  <2> QED BY <2>2 DEF r
<1>8. ASSUME q # <<>>, q[1].id = c PROVE v = Tail(l)
  <2>1. 1 \in 1 .. n
    BY <1>1, <1>2
  <2>2. k = 1
    BY <1>1, <1>2, <1>8, <2>1 DEF Distinct
  <2>3. l # <<>>
    BY <1>1, <2>1, EmptySeq
  <2> DEFINE t == Tail(l)
  <2>4. t \in Seq(Calls) /\ Len(t) = n - 1 /\ \A i \in 1 .. n - 1 : t[i] = l[i + 1]
    BY <1>1, <2>3, HeadTailProperties
  <2> HIDE DEF t
  <2>5. \A i \in 1 .. n - 1 : v[i] = t[i]
    BY <1>1, <1>6, <2>2, <2>4
  <2>6. v = t
    BY <1>5, <2>4, <2>5, SeqEqual
  <2> QED BY <2>6 DEF t
<1> QED BY <1>1, <1>2, <1>7, <1>8 DEF k, l, w, v

LEMMA LineAppend ==
    ASSUME NEW q \in Seq(StoredEntry), NEW e \in StoredEntry
    PROVE  Line(Append(q, e)) = Append(Line(q), e.id)
<1> DEFINE n == Len(q)
           w == Append(q, e)
           l == Line(q)
           a == Append(l, e.id)
           v == Line(w)
<1>1. n \in Nat /\ l \in Seq(Calls) /\ Len(l) = n /\ \A i \in 1 .. n : l[i] = q[i].id
  BY LenProperties, LineProperties
<1>2. w \in Seq(StoredEntry) /\ Len(w) = n + 1 /\ w[n + 1] = e /\ \A i \in 1 .. n : w[i] = q[i]
  BY AppendProperties
<1>3. e.id \in Calls
  BY DEF StoredEntry
<1>4. a \in Seq(Calls) /\ Len(a) = n + 1 /\ a[n + 1] = e.id /\ \A i \in 1 .. n : a[i] = l[i]
  BY <1>1, <1>3, AppendProperties
<1>5. v \in Seq(Calls) /\ Len(v) = n + 1 /\ \A i \in 1 .. n + 1 : v[i] = w[i].id
  BY <1>2, LineProperties
<1> HIDE DEF n, l, w, v, a
<1>6. \A i \in 1 .. n + 1 : v[i] = a[i]
  <2>1. TAKE i \in 1 .. n + 1
  <2>2. i \in 1 .. n \/ i = n + 1
    BY <1>1
  <2> QED BY <1>1, <1>2, <1>4, <1>5, <2>2
<1>7. v = a
  BY <1>4, <1>5, <1>6, SeqEqual
<1> QED BY <1>7 DEF l, w, v, a

-----------------------------------------------------------------------------
(* The abstract steps, said of queue, made and wire.                       *)
LEMMA Rests ==
    ASSUME queue' = queue, made' = made, wire' = wire, handled' = handled
    PROVE  [Durable!Next]_Durable!vars
BY DEF Durable!vars, queue, made, wire

LEMMA Sends ==
    ASSUME queue' = queue, made' = made, handled' = handled,
           wire' \subseteq wire \/ (queue' # <<>> /\ wire' \subseteq wire \cup {queue'[1]})
    PROVE  Durable!Next
<1>1. Durable!Wire
  BY DEF Durable!Wire, Durable!HeadOf, queue, wire
<1>2. Durable!Send
  BY <1>1 DEF Durable!Send, queue, made
<1> QED BY <1>2 DEF Durable!Next

LEMMA Delivers ==
    ASSUME queue # <<>>, queue[1] \in handled, queue' = Tail(queue), made' = made, handled' = handled,
           wire' \subseteq wire \/ (queue' # <<>> /\ wire' \subseteq wire \cup {queue'[1]})
    PROVE  Durable!Next
<1>1. Durable!Wire
  BY DEF Durable!Wire, Durable!HeadOf, queue, wire
<1>2. Durable!Deliver
  BY <1>1 DEF Durable!Deliver, queue, made
<1> QED BY <1>2 DEF Durable!Next

LEMMA Tries ==
    ASSUME NEW c \in Calls, queue = <<>>, c \notin made, queue' = queue, handled' = handled,
           made' = made \cup {c}, wire' = wire \cup {c}
    PROVE  Durable!Next
<1>1. Durable!FirstAttempt(c)
  BY DEF Durable!FirstAttempt, queue, made, wire
<1> QED BY <1>1 DEF Durable!Next

LEMMA Enqueues ==
    ASSUME NEW c \in Calls, \A i \in DOMAIN queue : queue[i] # c, c \in made \/ queue # <<>>,
           queue' = Append(queue, c), made' = made \cup {c}, wire' \subseteq wire, handled' = handled
    PROVE  Durable!Next
<1>1. c \notin Durable!Queued
  BY DEF Durable!Queued, queue
<1>2. Durable!Enqueue(c)
  BY <1>1 DEF Durable!Enqueue, queue, made, wire
<1> QED BY <1>2 DEF Durable!Next

LEMMA Answers ==
    ASSUME NEW c \in Calls, c \in wire, handled' = handled \cup {c}, wire' \subseteq wire,
           queue' = queue, made' = made
    PROVE  Durable!Next
<1>1. Durable!Handle(c)
  BY DEF Durable!Handle, queue, made, wire
<1> QED BY <1>1 DEF Durable!Next

LEMMA Cancels ==
    ASSUME NEW c \in Calls, NEW k \in DOMAIN queue, queue[k] = c, queue' = RemoveAt(queue, k),
           made' = made, wire' = wire, handled' = handled
    PROVE  Durable!Next
<1>1. Durable!Cancel(c)
  BY DEF Durable!Cancel, Durable!RemoveAt, RemoveAt, queue, made, wire
<1> QED BY <1>1 DEF Durable!Next

-----------------------------------------------------------------------------
(* What a step of Outbox does to queue, made and wire.                     *)
LEMMA QueueFacts ==
    ASSUME QueueInv, QueueInv'
    PROVE  /\ items \in Seq(StoredEntry) /\ Distinct(items) /\ items' \in Seq(StoredEntry)
           /\ queue = Line(items) /\ queue' = Line(items')
           /\ items # <<>> => queue # <<>> /\ queue[1] = items[1].id
           /\ items' # <<>> => queue' # <<>> /\ queue'[1] = items'[1].id
           /\ items = <<>> => queue = <<>>
<1>1. /\ items \in Seq(StoredEntry) /\ Distinct(items) /\ storage = items
      /\ items' \in Seq(StoredEntry) /\ storage' = items'
  BY DEF QueueInv, TypeOK
<1>2. queue = Line(items) /\ queue' = Line(items')
  BY <1>1 DEF queue, Line
<1>3. ASSUME NEW q \in Seq(StoredEntry), q # <<>> PROVE Line(q) # <<>> /\ Line(q)[1] = q[1].id
  <2>1. Len(q) \in Nat \ {0}
    BY <1>3, EmptySeq
  <2>2. Line(q) \in Seq(Calls) /\ Len(Line(q)) = Len(q) /\ Line(q)[1] = q[1].id
    BY <2>1, LineProperties
  <2>3. Len(Line(q)) # 0
    BY <2>1, <2>2
  <2> QED BY <2>2, <2>3, EmptySeq
<1>4. ASSUME items = <<>> PROVE Line(items) = <<>>
  <2>1. Line(items) \in Seq(Calls) /\ Len(Line(items)) = 0
    BY <1>1, <1>4, LineProperties, EmptySeq
  <2> HIDE DEF queue
  <2> QED BY <2>1, EmptySeq
<1> QED BY <1>1, <1>2, <1>3, <1>4

LEMMA SameQueue ==
    ASSUME QueueInv, QueueInv', DOMAIN items' = DOMAIN items,
           \A i \in DOMAIN items : items'[i].id = items[i].id
    PROVE  queue' = queue
<1>1. Line(items') = Line(items)
  BY DEF Line
<1> QED BY <1>1, QueueFacts

LEMMA WireShrinks ==
    ASSUME outbound' \subseteq outbound \cup strays, strays' \subseteq outbound \cup strays
    PROVE  wire' \subseteq wire
BY DEF wire

LEMMA LoopTopWire ==
    ASSUME QueueInv, QueueInv', NEW q \in Seq(StoredEntry), Distinct(q),
           NEW req \in [Calls -> Identity], NEW rest \in SUBSET outbound,
           loopTop(q, req, rest), strays' \subseteq strays \cup outbound
    PROVE  wire' \subseteq wire \/ (queue' # <<>> /\ wire' \subseteq wire \cup {queue'[1]})
<1>1. rest \in SUBSET Message
  BY DEF QueueInv, TypeOK
<1>2. \A m \in outbound' \ rest : items' # <<>> /\ m.call = items'[1].id
  BY <1>1, LoopTopHead
<1>3. CASE outbound' \subseteq rest
  BY <1>3, WireShrinks
<1>4. CASE ~ (outbound' \subseteq rest)
  <2>1. items' # <<>>
    BY <1>2, <1>4
  <2>2. queue' # <<>> /\ queue'[1] = items'[1].id
    BY <2>1, QueueFacts
  <2>3. wire' \subseteq wire \cup {items'[1].id}
    BY <1>2 DEF wire
  <2> QED BY <2>2, <2>3
<1> QED BY <1>3, <1>4

LEMMA MadeSo ==
    ASSUME QueueInv, NEW c \in Calls, NEW f, f # "idle", fate' = [fate EXCEPT ![c] = f]
    PROVE  made' = made \cup {c}
<1>1. \A d \in Calls : fate'[d] = IF d = c THEN f ELSE fate[d]
  BY DEF QueueInv, TypeOK
<1> QED BY <1>1 DEF made

(* The turn that follows an answered or a canceled resend.                 *)
LEMMA NextHead ==
    ASSUME QueueInv, QueueInv', NEW c \in Calls, NEW rest \in SUBSET outbound,
           c \in Ids(items) => items # <<>> /\ items[1].id = c /\ c \in handled,
           loopTop(Without(items, c), [request EXCEPT ![c] = "none"], rest),
           strays' \subseteq strays \cup outbound, fate' = fate, handled' = handled
    PROVE  Durable!Next
<1> DEFINE q == Without(items, c)
           req == [request EXCEPT ![c] = "none"]
<1>1. /\ q \in Seq(StoredEntry) /\ Distinct(q) /\ req \in [Calls -> Identity]
      /\ rest \in SUBSET Message
  BY WithoutType DEF QueueInv, TypeOK, Identity
<1>2. loopTop(q, req, rest)
  OBVIOUS
<1> HIDE DEF q, req
<1>3. wire' \subseteq wire \/ (queue' # <<>> /\ wire' \subseteq wire \cup {queue'[1]})
  BY <1>1, <1>2, LoopTopWire
<1>4. DOMAIN items' = DOMAIN q /\ \A i \in DOMAIN q : items'[i].id = q[i].id
  BY <1>1, <1>2, LoopTop
<1>5. queue = Line(items) /\ queue' = Line(q) /\ items \in Seq(StoredEntry) /\ Distinct(items)
  <2>1. Line(items') = Line(q)
    BY <1>4 DEF Line
  <2> QED BY <2>1, QueueFacts
<1>6. made' = made
  BY DEF made
<1>7. CASE c \in Ids(items)
  <2>1. items # <<>> /\ items[1].id = c /\ c \in handled
    BY <1>7
  <2>2. queue # <<>> /\ queue[1] = c
    BY <2>1, QueueFacts
  <2>3. queue' = Tail(queue)
    BY <1>5, <1>7, <2>1, LineWithout DEF q
  <2> QED BY <1>3, <1>6, <2>1, <2>2, <2>3, Delivers
<1>8. CASE c \notin Ids(items)
  <2>1. q = items
    BY <1>8 DEF q, Without
  <2>2. queue' = queue
    BY <1>5, <2>1
  <2> QED BY <1>3, <1>6, <2>2, Sends
<1> QED BY <1>7, <1>8

LEMMA StepSimulates ==
    ASSUME QueueInv, OrderInv, AnswerInv, QueueInv', [Next]_vars
    PROVE  [Durable!Next]_Durable!vars
<1>a. /\ items \in Seq(StoredEntry) /\ Distinct(items) /\ items' \in Seq(StoredEntry)
      /\ request \in [Calls -> Identity] /\ outbound \subseteq Message /\ strays \subseteq Message
      /\ fate \in [Calls -> Fate] /\ drain \in Drain
  BY DEF QueueInv, TypeOK
<1>b. ASSUME fate' = fate PROVE made' = made
  BY <1>b DEF made
<1>c. ASSUME items' = items PROVE queue' = queue
  BY <1>c, QueueFacts
<1>d. ASSUME NEW c \in Calls, ~ Parked(c) PROVE \A i \in DOMAIN queue : queue[i] # c
  <2>1. \A i \in DOMAIN items : items[i].id # c
    BY <1>d DEF QueueInv, Ids
  <2> QED BY <2>1, QueueFacts DEF Line
<1>e. ASSUME NEW c \in Calls, ~ Parked(c), park(c) PROVE queue' = Append(queue, c) /\ made' = made \cup {c}
  <2> DEFINE e == [id |-> c, captured |-> c \in Bodyless, status |-> "queued"]
  <2>1. e \in StoredEntry /\ e.id = c
    BY DEF StoredEntry, Status
  <2>2. items' = Append(items, e) /\ fate' = [fate EXCEPT ![c] = "parked"]
    BY <1>e DEF park, commit
  <2> HIDE DEF e
  <2>3. Line(items') = Append(Line(items), c)
    BY <1>a, <2>1, <2>2, LineAppend
  <2> QED BY <2>2, <2>3, QueueFacts, MadeSo
<1>f. ASSUME NEW c, Abandon(c, {}) PROVE wire' \subseteq wire
  <2>1. outbound' \subseteq outbound \cup strays /\ strays' \subseteq outbound \cup strays
    BY <1>f DEF Abandon, Waiting
  <2> QED BY <2>1, WireShrinks
<1>1. ASSUME NEW c \in Calls, InvokeLive(c) PROVE Durable!Next
  <2>1. /\ items = <<>> /\ items' = items /\ fate[c] = "idle" /\ fate' = [fate EXCEPT ![c] = "flying"]
        /\ outbound' = outbound \cup {[call |-> c, body |-> "intact"]}
        /\ strays' = strays /\ handled' = handled
    BY <1>1 DEF InvokeLive, Backlog, queueVars
  <2>2. queue = <<>> /\ queue' = queue
    BY <1>c, <2>1, QueueFacts
  <2>3. c \notin made /\ made' = made \cup {c}
    BY <2>1, MadeSo DEF made
  <2>4. wire' = wire \cup {c}
    <3> DEFINE m == [call |-> c, body |-> "intact"]
    <3>1. m.call = c
      OBVIOUS
    <3>2. outbound' \cup strays' = (outbound \cup strays) \cup {m}
      BY <2>1
    <3> HIDE DEF m
    <3>3. \A d : d \in wire' <=> d \in wire \/ d = c
      BY <3>1, <3>2 DEF wire
    <3> QED BY <3>3
  <2> QED BY <2>1, <2>2, <2>3, <2>4, Tries
<1>2. ASSUME NEW c \in Calls, InvokeBacklog(c) PROVE Durable!Next
  <2>1. /\ items # <<>> /\ ~ Parked(c) /\ park(c) /\ handled' = handled
        /\ outbound' = outbound /\ strays' = strays
    BY <1>2 DEF InvokeBacklog, Backlog, netVars, Parked
  <2>2. queue # <<>>
    BY <2>1, QueueFacts
  <2>3. wire' \subseteq wire
    BY <2>1, WireShrinks
  <2> QED BY <1>d, <1>e, <2>1, <2>2, <2>3, Enqueues
<1>3. ASSUME NEW c \in Calls, LiveUnreachable(c) PROVE Durable!Next
  <2>1. fate[c] = "flying" /\ ~ Parked(c) /\ park(c) /\ Abandon(c, {}) /\ handled' = handled
    BY <1>3 DEF LiveUnreachable, Parked
  <2>2. c \in made
    BY <2>1 DEF made
  <2> QED BY <1>d, <1>e, <1>f, <2>1, <2>2, Enqueues
<1>4. ASSUME NEW c \in Calls, LiveReply(c) \/ LiveAbort(c) PROVE Durable!Next
  <2>1. PICK f \in {"returned", "aborted"} : fate' = [fate EXCEPT ![c] = f] /\ fate[c] = "flying"
    BY <1>4 DEF LiveReply, LiveAbort
  <2>2. made' = made
    BY <2>1, MadeSo DEF made
  <2>3. items' = items /\ handled' = handled
    BY <1>4 DEF LiveReply, LiveAbort, queueVars, netVars
  <2>4. wire' \subseteq wire
    <3>1. CASE LiveReply(c)
      BY <3>1, WireShrinks DEF LiveReply, netVars
    <3>2. CASE LiveAbort(c)
      BY <1>f, <3>2 DEF LiveAbort
    <3> QED BY <1>4, <3>1, <3>2
  <2> QED BY <1>c, <2>2, <2>3, <2>4, Sends
<1>5. ASSUME NEW c \in Calls, Abort(c) PROVE [Durable!Next]_Durable!vars
  <2>1. /\ items' = Without(items, c) /\ fate' = fate /\ handled' = handled
        /\ outbound' = outbound /\ strays' = strays
    BY <1>5 DEF Abort, commit, netVars
  <2>2. wire' = wire /\ made' = made
    BY <2>1 DEF wire, made
  <2>3. CASE c \in Ids(items)
    <3>1. PICK k \in DOMAIN Line(items) : Line(items)[k] = c /\ Line(items') = RemoveAt(Line(items), k)
      BY <1>a, <2>1, <2>3, LineWithout
    <3>2. queue = Line(items) /\ queue' = Line(items')
      BY QueueFacts
    <3> QED BY <2>1, <2>2, <3>1, <3>2, Cancels
  <2>4. CASE c \notin Ids(items)
    <3>1. items' = items
      BY <2>1, <2>4 DEF Without
    <3> QED BY <1>c, <2>1, <2>2, <3>1, Rests
  <2> QED BY <2>3, <2>4
<1>6. CASE Retry
  <2>1. loopTop(items, request, outbound) /\ strays' = strays /\ fate' = fate /\ handled' = handled
    BY <1>6 DEF Retry
  <2>2. DOMAIN items' = DOMAIN items /\ \A i \in DOMAIN items : items'[i].id = items[i].id
    BY <1>a, <2>1, LoopTop
  <2>3. queue' = queue
    BY <2>2, SameQueue
  <2>4. wire' \subseteq wire \/ (queue' # <<>> /\ wire' \subseteq wire \cup {queue'[1]})
    BY <1>a, <2>1, LoopTopWire
  <2> QED BY <1>b, <2>1, <2>3, <2>4, Sends
<1>7. CASE DrainDecoded
  <2>1. /\ drain.pc = "decoding" /\ drain.call \in Calls /\ drain # Idle
    BY <1>7, DrainType DEF DrainDecoded, QueueInv, Idle
  <2>2. drain.call \in Ids(items) => items # <<>> /\ items[1].id = drain.call /\ drain.call \in handled
    BY <2>1 DEF OrderInv, DrainsHead, AnswerInv, DecodesHandled
  <2>3. /\ loopTop(Without(items, drain.call), [request EXCEPT ![drain.call] = "none"], outbound)
        /\ strays' = strays /\ fate' = fate /\ handled' = handled
    BY <1>7 DEF DrainDecoded
  <2> QED BY <2>1, <2>2, <2>3, NextHead
<1>8. CASE DrainCanceled
  <2>1. drain.pc = "sending" /\ drain.call \in Calls /\ drain.call \in aborted
    BY <1>8, DrainType DEF DrainCanceled, QueueInv
  <2>2. drain.call \notin Ids(items)
    BY <2>1 DEF OrderInv
  <2>3. /\ loopTop(Without(items, drain.call), [request EXCEPT ![drain.call] = "none"],
                   outbound \ Waiting(drain.call))
        /\ strays' \subseteq strays \cup outbound /\ fate' = fate /\ handled' = handled
    BY <1>8 DEF DrainCanceled, Waiting
  <2>4. outbound \ Waiting(drain.call) \in SUBSET outbound
    OBVIOUS
  <2> QED BY <2>1, <2>2, <2>3, <2>4, NextHead
<1>9. CASE DrainUnreachable
  <2>1. items' = WithStatus(items, drain.call, "queued") /\ fate' = fate /\ handled' = handled
    BY <1>9 DEF DrainUnreachable, commit
  <2>2. queue' = queue
    BY <1>a, <2>1, SameQueue, WithStatusProperties DEF Status
  <2>3. wire' \subseteq wire
    BY <1>9, <1>f DEF DrainUnreachable
  <2> QED BY <1>b, <2>1, <2>2, <2>3, Sends
<1>10. ASSUME NEW c \in Calls, CaptureRequest(c) PROVE Durable!Next
  <2>1. items' = WithBody(items, c) \/ items' = items
    BY <1>10 DEF CaptureRequest, commit, queueVars
  <2>2. queue' = queue
    BY <1>a, <1>c, <2>1, SameQueue, WithBodyProperties
  <2>3. fate' = fate /\ handled' = handled /\ wire' \subseteq wire
    BY <1>10, WireShrinks DEF CaptureRequest, netVars
  <2> QED BY <1>b, <2>2, <2>3, Sends
<1>11. ASSUME NEW m \in Message, ServerHandles(m) \/ StrayArrives(m) PROVE Durable!Next
  <2>1. /\ m \in outbound \cup strays /\ outbound' \subseteq outbound /\ strays' \subseteq strays
        /\ handled' = handled \cup {m.call} /\ fate' = fate /\ items' = items
    BY <1>11 DEF ServerHandles, StrayArrives, queueVars
  <2>2. m.call \in Calls /\ m.call \in wire
    BY <2>1 DEF Message, wire
  <2>3. wire' \subseteq wire
    BY <2>1, WireShrinks
  <2> QED BY <1>b, <1>c, <2>1, <2>2, <2>3, Answers
<1>12. CASE Reload
  <2>1. items' = items /\ handled' = handled
    BY <1>12 DEF Reload, QueueInv
  <2>2. made' = made
    <3>1. \A c \in Calls : fate'[c] = IF fate[c] = "flying" THEN "lost" ELSE fate[c]
      BY <1>12 DEF Reload
    <3> QED BY <3>1 DEF made
  <2>3. wire' \subseteq wire
    BY <1>12, WireShrinks DEF Reload
  <2> QED BY <1>c, <2>1, <2>2, <2>3, Sends
<1>13. CASE \/ \E c \in Calls : ReadSettled(c)
            \/ List
            \/ \E reply \in Outcome : DrainReply(reply)
            \/ UNCHANGED vars
  <2>1. /\ items' = items /\ fate' = fate /\ handled' = handled
        /\ outbound' = outbound /\ strays' = strays
    BY <1>13 DEF ReadSettled, List, DrainReply, vars, queueVars, netVars
  <2>2. wire' = wire
    BY <2>1 DEF wire
  <2> QED BY <1>b, <1>c, <2>1, <2>2, Rests
<1> QED BY <1>1, <1>2, <1>3, <1>4, <1>5, <1>6, <1>7, <1>8, <1>9, <1>10, <1>11, <1>12, <1>13 DEF Next

(* Outbox implements the abstract durable queue: whatever is parked,       *)
(* drained, canceled, answered late and reloaded, only a first attempt     *)
(* with no backlog or the head of the queue is put on the wire, and a      *)
(* write leaves the queue canceled, or as the head once handled.           *)
THEOREM OutboxIsDurable == Spec => ImplementsDurableQueue
<1>1. Init => Durable!Init
  <2> SUFFICES ASSUME Init PROVE Durable!Init
    OBVIOUS
  <2>1. /\ storage = <<>> /\ handled = {} /\ outbound = {} /\ strays = {}
        /\ \A c \in Calls : fate[c] = "idle"
    BY DEF Init
  <2> QED BY <2>1 DEF Durable!Init
<1>2. QueueInv /\ OrderInv /\ AnswerInv /\ QueueInv' /\ [Next]_vars => [Durable!Next]_Durable!vars
  BY StepSimulates
<1> QED BY <1>1, <1>2, AnswerInvariant, PTL DEF Spec, ImplementsDurableQueue, Durable!Spec

=============================================================================
