----------------------------- MODULE CacheProofs -----------------------------
(***************************************************************************)
(* Proofs about Cache. The invariant has two halves: the store, whose      *)
(* entry is backed by the calls in the air for it, and the reader, who     *)
(* stands in a known relation to the entry he last read.                   *)
(***************************************************************************)
EXTENDS Cache, SequenceTheorems, TLAPS

(* A call that answers the promise of entry e, and one that reloads it.    *)
Loads(e) == \E f \in flights : f.entry = e /\ f.kind \in {"load", "placeholder"}
Reloads(e) == \E f \in flights : f.entry = e /\ f.kind \in {"load", "refetch"}

Backed(e) == Loads(e) \/ (e = 1 /\ (StreamOwes \/ stream.pc = "aborted"))

StoreType ==
    /\ world \subseteq Writes /\ asked \subseteq world
    /\ entries \in Seq(Entry) /\ Len(entries) <= MaxEntries
    /\ \A e \in DOMAIN entries : /\ entries[e].timer => entries[e].policy # "off"
                                 /\ entries[e].cooling => entries[e].policy = "throttle"
    /\ current \in 0 .. Len(entries)
    /\ marker \in BOOLEAN
    /\ flights \subseteq Flight
    /\ \A f, g \in flights : f.id = g.id => f = g
    /\ stream \in Stream

(* A call flies for an entry there is; a refetch for one with a policy.    *)
Placed ==
    /\ \A f \in flights : /\ f.entry \in DOMAIN entries
                          /\ f.kind = "placeholder" => entries[f.entry].born = "placeholder"
                          /\ f.kind = "refetch" => entries[f.entry].policy # "off"
    /\ stream.pc = "open" => 1 \in DOMAIN entries /\ entries[1].born = "placeholder"
    /\ ThisPage \in Pages

(* The entry in the store: its load or reload is backed, and without a     *)
(* policy neither it nor what is on its way is older than the last         *)
(* invalidate. A timer outlives its entry only under a chunk.              *)
OwnerInv ==
    \A e \in DOMAIN entries :
        /\ current = e /\ entries[e].loading => Backed(e)
        /\ current = e /\ entries[e].refreshing => Reloads(e)
        /\ current = e /\ entries[e].born = "call" /\ entries[e].policy = "off" =>
               /\ ~entries[e].loading => asked \subseteq entries[e].seen
               /\ \A f \in flights : f.entry = e /\ f.served => asked \subseteq f.saw
        /\ entries[e].timer => e = current \/ \E x \in DOMAIN entries : x > e /\ entries[x].born = "chunk"

StoreInv == StoreType /\ Placed /\ OwnerInv

(* The reader waits for the entry he read and for none else. He waits as   *)
(* long as that loads, and is told when it is swapped or replaced.         *)
ReaderInv ==
    /\ reader \in Reader
    /\ reader.waits \in {0, reader.read} /\ reader.read \in 0 .. Len(entries)
    /\ marker \/ reader.due \/ reader.waits # 0 => reader.mounted
    /\ \A e \in DOMAIN entries :
           /\ reader.waits = e => Backed(e)
           /\ current = e =>
                  /\ reader.read = e /\ entries[e].loading => reader.waits = e
                  /\ reader.waits = e /\ ~entries[e].loading => reader.due
                  /\ entries[e].born = "chunk" /\ reader.mounted /\ ~reader.due => reader.read = e
                  /\ reader.mounted /\ ~reader.due /\ reader.waits = 0 /\ reader.read = e =>
                         reader.saw = entries[e].seen

CacheInv == StoreInv /\ ReaderInv

-----------------------------------------------------------------------------
LEMMA StoreTypes ==
    ASSUME StoreInv
    PROVE  /\ entries \in Seq(Entry) /\ Len(entries) \in Nat /\ DOMAIN entries = 1 .. Len(entries)
           /\ Len(entries) <= MaxEntries /\ MaxEntries \in Nat \ {0} /\ MaxFlights \in Nat
           /\ current \in 0 .. Len(entries) /\ 0 \notin DOMAIN entries
           /\ current # 0 => current \in DOMAIN entries
           /\ \A e \in DOMAIN entries : entries[e] \in Entry /\ e \in 1 .. MaxEntries
           /\ \A f \in flights : f \in Flight /\ f.entry \in DOMAIN entries /\ f.saw \subseteq Writes
           /\ world \subseteq Writes /\ asked \subseteq world /\ stream \in Stream /\ marker \in BOOLEAN
<1> DEFINE n == Len(entries)
<1>1. /\ entries \in Seq(Entry) /\ n \in Nat /\ DOMAIN entries = 1 .. n
      /\ n <= MaxEntries /\ MaxEntries \in Nat \ {0} /\ MaxFlights \in Nat /\ current \in 0 .. n
  BY CacheAssumption, LenProperties DEF StoreInv, StoreType
<1>2. \A e \in DOMAIN entries : entries[e] \in Entry
  BY <1>1, ElementOfSeq
<1> HIDE DEF n
<1>3. 0 \notin DOMAIN entries /\ (current # 0 => current \in DOMAIN entries) /\ \A e \in DOMAIN entries : e \in 1 .. MaxEntries
  BY <1>1
<1>4. \A f \in flights : f \in Flight /\ f.entry \in DOMAIN entries /\ f.saw \subseteq Writes
  BY DEF StoreInv, StoreType, Placed, Flight
<1> QED BY <1>1, <1>2, <1>3, <1>4 DEF n, StoreInv, StoreType

LEMMA EntrySet ==
    ASSUME StoreInv, NEW e \in DOMAIN entries, NEW x \in Entry, entries' = [entries EXCEPT ![e] = x]
    PROVE  /\ entries' \in Seq(Entry) /\ Len(entries') = Len(entries) /\ DOMAIN entries' = DOMAIN entries
           /\ entries'[e] = x /\ \A k \in DOMAIN entries : k # e => entries'[k] = entries[k]
<1> DEFINE n == Len(entries)
<1>1. entries \in Seq(Entry) /\ n \in Nat /\ DOMAIN entries = 1 .. n /\ e \in 1 .. n
  BY StoreTypes
<1>2. entries \in [1 .. n -> Entry]
  BY <1>1, StoreTypes
<1> HIDE DEF n
<1>3. entries' \in [1 .. n -> Entry] /\ entries'[e] = x /\ \A k \in 1 .. n : k # e => entries'[k] = entries[k]
  BY <1>1, <1>2
<1>4. entries' \in Seq(Entry)
  BY <1>1, <1>3, IsASeq
<1>5. DOMAIN entries' = 1 .. n
  BY <1>3
<1>6. Len(entries') = n
  BY <1>1, <1>4, <1>5, LenProperties
<1> QED BY <1>1, <1>3, <1>4, <1>5, <1>6 DEF n

LEMMA EntryAdded ==
    ASSUME StoreInv, NEW q \in Seq(Entry), Len(q) = Len(entries), NEW x \in Entry, entries' = Append(q, x)
    PROVE  /\ entries' \in Seq(Entry) /\ Len(entries') = Len(entries) + 1
           /\ DOMAIN entries' = DOMAIN entries \cup {Len(entries) + 1} /\ Len(entries) + 1 \notin DOMAIN entries
           /\ entries'[Len(entries) + 1] = x /\ \A k \in DOMAIN entries : entries'[k] = q[k]
<1> DEFINE n == Len(entries)
<1>1. n \in Nat /\ DOMAIN entries = 1 .. n
  BY StoreTypes
<1>2. /\ entries' \in Seq(Entry) /\ Len(entries') = n + 1
      /\ entries'[n + 1] = x /\ \A k \in 1 .. n : entries'[k] = q[k]
  BY AppendProperties
<1>3. DOMAIN entries' = 1 .. n + 1
  BY <1>2, LenProperties
<1> HIDE DEF n
<1>4. 1 .. n + 1 = 1 .. n \cup {n + 1} /\ n + 1 \notin 1 .. n
  BY <1>1
<1> QED BY <1>1, <1>2, <1>3, <1>4 DEF n

LEMMA TakesOff ==
    ASSUME StoreInv, NEW e \in 1 .. MaxEntries, NEW kind \in {"load", "refetch", "placeholder"}, takeOff(e, kind)
    PROVE  \E g \in Flight : /\ flights' = flights \cup {g} /\ g.entry = e /\ g.kind = kind /\ ~g.served
                             /\ \A f \in flights : f.id # g.id
                             /\ flights' \subseteq Flight /\ \A f, h \in flights' : f.id = h.id => f = h
<1> DEFINE i == CHOOSE i \in FreeIds : TRUE
           g == [id |-> i, entry |-> e, kind |-> kind, served |-> FALSE, saw |-> {}]
<1>1. i \in FreeIds /\ flights' = flights \cup {g}
  BY DEF takeOff
<1> HIDE DEF i
<1>2. g \in Flight /\ g.entry = e /\ g.kind = kind /\ ~g.served /\ g.id = i
  BY <1>1 DEF Flight, FreeIds
<1>3. \A f \in flights : f.id # g.id
  BY <1>1, <1>2 DEF FreeIds
<1> HIDE DEF g
<1>4. flights' \subseteq Flight /\ \A f, h \in flights' : f.id = h.id => f = h
  BY <1>1, <1>2, <1>3 DEF StoreInv, StoreType
<1> QED BY <1>1, <1>2, <1>3, <1>4

(* One entry of the store moves, and the calls for it.                     *)
LEMMA EntryMoves ==
    ASSUME StoreInv, NEW e \in DOMAIN entries, NEW x \in Entry, entries' = [entries EXCEPT ![e] = x],
           UNCHANGED <<world, stream>>, marker' \in BOOLEAN,
           x.born = entries[e].born, x.policy = "off" => entries[e].policy = "off",
           x.timer => x.policy # "off" /\ (entries[e].timer \/ e = current),
           x.cooling => x.policy = "throttle",
           current' = current \/ (current = e /\ current' = 0 /\ ~x.timer),
           flights' \subseteq Flight, \A f, g \in flights' : f.id = g.id => f = g,
           \A f \in flights' : f \in flights \/ (f.entry = e /\ f.kind = "refetch" /\ x.policy # "off"),
           asked' = asked \/ (asked' = world /\ (current' = 0 \/ (current = e /\ x.policy # "off"))),
           current' = e /\ x.loading => entries[e].loading /\ (Loads(e) => Loads(e)'),
           current' = e /\ x.refreshing => Reloads(e)',
           \A k \in DOMAIN entries : k # e => (Loads(k) => Loads(k)') /\ (Reloads(k) => Reloads(k)'),
           current' = e /\ ~x.loading =>
               \/ ~entries[e].loading /\ x.seen = entries[e].seen
               \/ \E f \in flights : f.entry = e /\ f.served /\ x.seen = f.saw
    PROVE  StoreInv'
<1>1. /\ entries' \in Seq(Entry) /\ Len(entries') = Len(entries) /\ DOMAIN entries' = DOMAIN entries
      /\ entries'[e] = x /\ \A k \in DOMAIN entries : k # e => entries'[k] = entries[k]
  BY EntrySet
<1>2. StoreType'
  <2>1. current' \in 0 .. Len(entries') /\ Len(entries') <= MaxEntries
    BY <1>1, StoreTypes
  <2>2. asked' \subseteq world'
    BY StoreTypes
  <2>3. \A k \in DOMAIN entries' : /\ entries'[k].timer => entries'[k].policy # "off"
                                   /\ entries'[k].cooling => entries'[k].policy = "throttle"
    BY <1>1 DEF StoreInv, StoreType
  <2> QED BY <1>1, <2>1, <2>2, <2>3 DEF StoreInv, StoreType
<1>3. Placed'
  BY <1>1 DEF StoreInv, Placed, ThisPage
<1>4. \A k \in DOMAIN entries : (k # e /\ Backed(k) => Backed(k)') /\ (Loads(e)' \/ ~Loads(e) => (Backed(e) => Backed(e)'))
  BY DEF Backed, StreamOwes
<1>5. OwnerInv'
  <2> SUFFICES ASSUME NEW k \in DOMAIN entries'
               PROVE  /\ current' = k /\ entries'[k].loading => Backed(k)'
                      /\ current' = k /\ entries'[k].refreshing => Reloads(k)'
                      /\ current' = k /\ entries'[k].born = "call" /\ entries'[k].policy = "off" =>
                             /\ ~entries'[k].loading => asked' \subseteq entries'[k].seen
                             /\ \A f \in flights' : f.entry = k /\ f.served => asked' \subseteq f.saw
                      /\ entries'[k].timer => k = current' \/ \E y \in DOMAIN entries' : y > k /\ entries'[y].born = "chunk"
    BY DEF OwnerInv
  <2>1. k \in DOMAIN entries /\ 0 \notin DOMAIN entries
    BY <1>1, StoreTypes
  <2>2. \A y \in DOMAIN entries : entries'[y].born = entries[y].born
    BY <1>1
  <2>3. entries'[k].timer => k = current' \/ \E y \in DOMAIN entries' : y > k /\ entries'[y].born = "chunk"
    <3> SUFFICES ASSUME entries'[k].timer, k # current'
                 PROVE  \E y \in DOMAIN entries' : y > k /\ entries'[y].born = "chunk"
      OBVIOUS
    <3>1. entries[k].timer /\ k # current
      BY <1>1, <2>1 DEF StoreInv, OwnerInv
    <3>2. \E y \in DOMAIN entries : y > k /\ entries[y].born = "chunk"
      BY <2>1, <3>1 DEF StoreInv, OwnerInv
    <3> QED BY <1>1, <2>2, <3>2
  <2>4. CASE k # e
    <3>1. current' = k => current = k /\ asked' = asked
      BY <2>1, <2>4
    <3>2. \A f \in flights' : f.entry = k => f \in flights
      BY <2>4
    <3>3. /\ current' = k /\ entries'[k].loading => Backed(k)'
          /\ current' = k /\ entries'[k].refreshing => Reloads(k)'
      BY <1>1, <1>4, <2>1, <2>4, <3>1 DEF StoreInv, OwnerInv
    <3>4. current' = k /\ entries'[k].born = "call" /\ entries'[k].policy = "off" =>
                             /\ ~entries'[k].loading => asked' \subseteq entries'[k].seen
                             /\ \A f \in flights' : f.entry = k /\ f.served => asked' \subseteq f.saw
      BY <1>1, <2>1, <2>4, <3>1, <3>2 DEF StoreInv, OwnerInv
    <3> QED BY <2>3, <3>3, <3>4
  <2>5. CASE k = e
    <3>1. current' = e => current = e
      BY <2>1, <2>5
    <3>2. /\ current' = e /\ x.loading => Backed(e)'
          /\ current' = e /\ x.refreshing => Reloads(e)'
      BY <1>4, <3>1 DEF StoreInv, OwnerInv
    <3>3. ASSUME current' = e, x.born = "call", x.policy = "off"
          PROVE  /\ ~x.loading => asked' \subseteq x.seen
                 /\ \A f \in flights' : f.entry = e /\ f.served => asked' \subseteq f.saw
      <4>1. current = e /\ entries[e].born = "call" /\ entries[e].policy = "off" /\ asked' = asked /\ e # 0
        BY <2>1, <2>5, <3>1, <3>3
      <4>2. /\ ~entries[e].loading => asked \subseteq entries[e].seen
            /\ \A f \in flights : f.entry = e /\ f.served => asked \subseteq f.saw
        BY <4>1 DEF StoreInv, OwnerInv
      <4> QED BY <3>3, <4>1, <4>2
    <3> QED BY <1>1, <2>3, <2>5, <3>2, <3>3
  <2> QED BY <2>4, <2>5
<1> QED BY <1>2, <1>3, <1>5 DEF StoreInv

(* A miss: a new entry owns the key, and its load is in the air.           *)
LEMMA EntryBorn ==
    ASSUME StoreInv, current = 0, NEW x \in Entry, entries' = Append(entries, x),
           Len(entries) < MaxEntries, current' = Len(entries) + 1, marker' = FALSE,
           UNCHANGED <<world, asked, stream>>, takeOff(Len(entries) + 1, "load"),
           x.born = "call", x.loading, ~x.timer, ~x.cooling
    PROVE  StoreInv'
<1> DEFINE n == Len(entries)
<1>1. /\ n \in Nat /\ DOMAIN entries = 1 .. n /\ n < MaxEntries /\ MaxEntries \in Nat /\ n + 1 \in 1 .. MaxEntries
      /\ entries \in Seq(Entry)
  BY StoreTypes
<1>2. /\ entries' \in Seq(Entry) /\ Len(entries') = n + 1
      /\ DOMAIN entries' = DOMAIN entries \cup {n + 1} /\ n + 1 \notin DOMAIN entries
      /\ entries'[n + 1] = x /\ \A k \in DOMAIN entries : entries'[k] = entries[k]
  BY <1>1, EntryAdded
<1>3. PICK g \in Flight : /\ flights' = flights \cup {g} /\ g.entry = n + 1 /\ g.kind = "load" /\ ~g.served
                          /\ \A f \in flights : f.id # g.id
                          /\ flights' \subseteq Flight /\ \A f, h \in flights' : f.id = h.id => f = h
  BY <1>1, TakesOff
<1>4. PICK m \in Nat : m = n + 1
  BY <1>1
<1>5. current' = m
  BY <1>4
<1> HIDE DEF n
<1>6. StoreType'
  <2>1. current' \in 0 .. Len(entries') /\ Len(entries') <= MaxEntries
    BY <1>1, <1>2, <1>4, <1>5
  <2>2. \A k \in DOMAIN entries' : /\ entries'[k].timer => entries'[k].policy # "off"
                                   /\ entries'[k].cooling => entries'[k].policy = "throttle"
    BY <1>2 DEF StoreInv, StoreType
  <2> QED BY <1>2, <1>3, <2>1, <2>2 DEF StoreInv, StoreType
<1>7. Placed'
  <2>1. \A f \in flights' : f \in flights \/ (f.entry = m /\ f.kind = "load")
    BY <1>3, <1>4
  <2> QED BY <1>2, <1>4, <2>1 DEF StoreInv, Placed, ThisPage
<1>8. Loads(m)' /\ Reloads(m)' /\ Backed(m)'
  BY <1>3, <1>4 DEF Loads, Reloads, Backed
<1>9. \A k \in DOMAIN entries : k # m
  BY <1>2, <1>4
<1>10. OwnerInv'
  <2> SUFFICES ASSUME NEW k \in DOMAIN entries'
               PROVE  /\ current' = k /\ entries'[k].loading => Backed(k)'
                      /\ current' = k /\ entries'[k].refreshing => Reloads(k)'
                      /\ current' = k /\ entries'[k].born = "call" /\ entries'[k].policy = "off" =>
                             /\ ~entries'[k].loading => asked' \subseteq entries'[k].seen
                             /\ \A f \in flights' : f.entry = k /\ f.served => asked' \subseteq f.saw
                      /\ entries'[k].timer => k = current' \/ \E y \in DOMAIN entries' : y > k /\ entries'[y].born = "chunk"
    BY DEF OwnerInv
  <2>1. CASE k = m
    <3>1. \A f \in flights' : f.entry = m => ~f.served
      <4>1. \A f \in flights : f.entry # m
        BY <1>9 DEF StoreInv, Placed
      <4> QED BY <1>3, <4>1
    <3> QED BY <1>2, <1>4, <1>5, <1>8, <2>1, <3>1
  <2>2. CASE k # m
    <3>1. k \in DOMAIN entries /\ entries'[k] = entries[k] /\ 0 \notin DOMAIN entries
      BY <1>2, <1>4, <2>2, StoreTypes
    <3>2. entries[k].timer => \E y \in DOMAIN entries : y > k /\ entries[y].born = "chunk"
      BY <3>1 DEF StoreInv, OwnerInv
    <3> QED BY <1>2, <1>5, <2>2, <3>1, <3>2
  <2> QED BY <2>1, <2>2
<1> QED BY <1>6, <1>7, <1>10 DEF StoreInv

(* A chunk of the stream: the entry it makes overwrites what is there.     *)
LEMMA ChunkBorn ==
    ASSUME StoreInv, NEW saw \in SUBSET Writes,
           Len(entries) < MaxEntries, 1 \in DOMAIN entries, stream.pc = "open",
           entries' = Append(Loaded(1, saw), [Placeholder EXCEPT !.born = "chunk", !.loading = FALSE,
                                                        !.seen = saw, !.hydrated = TRUE]),
           current' = Len(entries) + 1, UNCHANGED <<world, asked, marker, flights>>,
           stream' \in Stream, stream'.pc = "open"
    PROVE  /\ StoreInv'
           /\ Len(entries') = Len(entries) + 1 /\ entries'[Len(entries) + 1].born = "chunk"
           /\ ~entries'[Len(entries) + 1].loading
           /\ DOMAIN entries' = DOMAIN entries \cup {Len(entries) + 1}
<1> DEFINE n == Len(entries)
           x == [Placeholder EXCEPT !.born = "chunk", !.loading = FALSE, !.seen = saw, !.hydrated = TRUE]
           q == Loaded(1, saw)
<1>1. /\ n \in Nat /\ DOMAIN entries = 1 .. n /\ n < MaxEntries /\ MaxEntries \in Nat /\ n + 1 \in 1 .. MaxEntries
      /\ entries \in Seq(Entry) /\ entries[1] \in Entry
  BY StoreTypes
<1>2. x \in Entry /\ x.born = "chunk" /\ ~x.loading /\ ~x.timer /\ ~x.cooling /\ ~x.refreshing
  BY DEF Placeholder, Entry, Ttl, Policy
<1> DEFINE y == IF entries[1].loading THEN [entries[1] EXCEPT !.loading = FALSE, !.seen = saw] ELSE entries[1]
<1>3. /\ y \in Entry /\ y.born = entries[1].born /\ y.policy = entries[1].policy /\ y.timer = entries[1].timer
      /\ y.cooling = entries[1].cooling
  BY <1>1 DEF Entry
<1>4. q = [entries EXCEPT ![1] = y]
  <2>1. CASE entries[1].loading
    BY <1>1, <2>1 DEF Loaded, Entry
  <2>2. CASE ~entries[1].loading
    BY <1>1, <2>2 DEF Loaded
  <2> QED BY <2>1, <2>2
<1> HIDE DEF y
<1>5. /\ q \in Seq(Entry) /\ Len(q) = n /\ q[1] = y /\ \A k \in DOMAIN entries : k # 1 => q[k] = entries[k]
  <2>1. entries \in [1 .. n -> Entry]
    BY <1>1, StoreTypes
  <2> HIDE DEF n, q
  <2>2. q \in [1 .. n -> Entry] /\ q[1] = y /\ \A k \in DOMAIN entries : k # 1 => q[k] = entries[k]
    BY <1>1, <1>3, <1>4, <2>1
  <2>3. q \in Seq(Entry) /\ DOMAIN q = 1 .. n
    BY <1>1, <2>2, IsASeq
  <2> QED BY <1>1, <2>2, <2>3, LenProperties
<1>6. entries' = Append(q, x)
  OBVIOUS
<1> HIDE DEF q, x
<1>7. /\ entries' \in Seq(Entry) /\ Len(entries') = n + 1
      /\ DOMAIN entries' = DOMAIN entries \cup {n + 1} /\ n + 1 \notin DOMAIN entries
      /\ entries'[n + 1] = x /\ \A k \in DOMAIN entries : entries'[k] = q[k]
  BY <1>2, <1>5, <1>6, EntryAdded
<1>8. PICK m \in Nat : m = n + 1
  BY <1>1
<1>9. current' = m /\ \A k \in DOMAIN entries : k # m /\ m > k
  BY <1>1, <1>8
<1> HIDE DEF n
<1>10. \A k \in DOMAIN entries : /\ entries'[k].born = entries[k].born /\ entries'[k].policy = entries[k].policy
                                 /\ entries'[k].timer = entries[k].timer /\ entries'[k].cooling = entries[k].cooling
  BY <1>3, <1>5, <1>7
<1>11. StoreType'
  <2>1. current' \in 0 .. Len(entries') /\ Len(entries') <= MaxEntries
    BY <1>1, <1>7, <1>8, <1>9
  <2>2. \A k \in DOMAIN entries' : /\ entries'[k].timer => entries'[k].policy # "off"
                                   /\ entries'[k].cooling => entries'[k].policy = "throttle"
    <3>1. \A k \in DOMAIN entries : /\ entries[k].timer => entries[k].policy # "off"
                                    /\ entries[k].cooling => entries[k].policy = "throttle"
      BY DEF StoreInv, StoreType
    <3>2. ~entries'[n + 1].timer /\ ~entries'[n + 1].cooling
      BY <1>2, <1>7
    <3>3. \A k \in DOMAIN entries' : k \in DOMAIN entries \/ k = n + 1
      BY <1>7
    <3> QED BY <1>10, <3>1, <3>2, <3>3
  <2> QED BY <1>7, <2>1, <2>2 DEF StoreInv, StoreType
<1>12. Placed'
  BY <1>7, <1>10 DEF StoreInv, Placed, ThisPage
<1>13. OwnerInv'
  <2> SUFFICES ASSUME NEW k \in DOMAIN entries'
               PROVE  /\ current' = k => ~entries'[k].loading /\ ~entries'[k].refreshing /\ entries'[k].born = "chunk"
                      /\ entries'[k].timer => \E z \in DOMAIN entries' : z > k /\ entries'[z].born = "chunk"
    BY DEF OwnerInv
  <2>1. CASE k = m
    BY <1>2, <1>7, <1>8, <2>1
  <2>2. CASE k # m
    <3>1. m \in DOMAIN entries' /\ m > k /\ entries'[m].born = "chunk"
      BY <1>2, <1>7, <1>8, <1>9, <2>2
    <3> QED BY <1>9, <2>2, <3>1
  <2> QED BY <2>1, <2>2
<1> QED BY <1>2, <1>7, <1>11, <1>12, <1>13 DEF StoreInv, n

(* Calls take off, are answered at the server, or the stream moves on: no  *)
(* entry loses what backs it.                                              *)
LEMMA CallsMove ==
    ASSUME StoreInv, UNCHANGED <<entries, current>>, world \subseteq world', world' \subseteq Writes,
           marker' \in BOOLEAN,
           asked' = asked \/ (asked' = world /\ current = 0),
           flights' \subseteq Flight, \A f, g \in flights' : f.id = g.id => f = g,
           \A f \in flights' :
               \/ f.entry = 1 /\ f.kind = "placeholder" /\ stream.pc = "open"
               \/ \E g \in flights : /\ f.entry = g.entry /\ f.kind = g.kind
                                     /\ f.served => f.saw = world \/ (g.served /\ f.saw = g.saw),
           \A e \in DOMAIN entries : (Backed(e) => Backed(e)') /\ (Reloads(e) => Reloads(e)'),
           stream' \in Stream, stream'.pc = "open" => stream.pc = "open",
           stream'.pc = "none" <=> stream.pc = "none"
    PROVE  StoreInv'
<1>1. StoreType'
  BY DEF StoreInv, StoreType
<1>2. Placed'
  <2> DEFINE Sits(f) == /\ f.entry \in DOMAIN entries
                        /\ (f.kind = "placeholder" => entries[f.entry].born = "placeholder")
                        /\ (f.kind = "refetch" => entries[f.entry].policy # "off")
  <2>1. stream.pc = "open" => (1 \in DOMAIN entries /\ entries[1].born = "placeholder")
    BY DEF StoreInv, Placed
  <2>2. \A f \in flights : Sits(f)
    BY DEF StoreInv, Placed
  <2>3. \A f \in flights' : Sits(f)
    BY <2>1, <2>2
  <2> QED BY <2>1, <2>3 DEF StoreInv, Placed, ThisPage
<1>3. OwnerInv'
  <2> SUFFICES ASSUME NEW k \in DOMAIN entries
               PROVE  /\ current = k /\ entries[k].loading => Backed(k)'
                      /\ current = k /\ entries[k].refreshing => Reloads(k)'
                      /\ current = k /\ entries[k].born = "call" /\ entries[k].policy = "off" =>
                             /\ ~entries[k].loading => asked' \subseteq entries[k].seen
                             /\ \A f \in flights' : f.entry = k /\ f.served => asked' \subseteq f.saw
                      /\ entries[k].timer => k = current \/ \E y \in DOMAIN entries : y > k /\ entries[y].born = "chunk"
    BY DEF OwnerInv
  <2>1. ASSUME current = k, entries[k].born = "call", entries[k].policy = "off"
        PROVE  /\ ~entries[k].loading => asked' \subseteq entries[k].seen
               /\ \A f \in flights' : f.entry = k /\ f.served => asked' \subseteq f.saw
    <3>1. asked' = asked /\ asked \subseteq world /\ (stream.pc = "open" => k # 1)
      BY <2>1, StoreTypes DEF StoreInv, Placed
    <3>2. /\ ~entries[k].loading => asked \subseteq entries[k].seen
          /\ \A f \in flights : f.entry = k /\ f.served => asked \subseteq f.saw
      BY <2>1 DEF StoreInv, OwnerInv
    <3> QED BY <3>1, <3>2
  <2> QED BY <2>1 DEF StoreInv, OwnerInv
<1> QED BY <1>1, <1>2, <1>3 DEF StoreInv

-----------------------------------------------------------------------------
(* The reader: he stays, looks again, gets his answer, or goes.            *)
LEMMA ReaderRests ==
    ASSUME StoreInv, ReaderInv, reader' = reader \/ reader' = Notified(reader),
           Len(entries') \in Nat, DOMAIN entries \subseteq DOMAIN entries', Len(entries) <= Len(entries'),
           marker' => marker \/ reader.mounted,
           \A e \in DOMAIN entries : reader.waits = e => Backed(e)',
           \A e \in DOMAIN entries' : current' = e =>
               \/ e \notin DOMAIN entries /\ entries'[e].born = "call"
               \/ /\ e \in DOMAIN entries /\ current = e /\ entries'[e].born = entries[e].born
                  /\ entries'[e].loading => entries[e].loading
                  /\ \/ reader' = Notified(reader)
                     \/ entries'[e].loading = entries[e].loading /\ entries'[e].seen = entries[e].seen
    PROVE  ReaderInv'
<1>1. /\ reader' \in Reader /\ reader'.waits = reader.waits /\ reader'.read = reader.read
      /\ reader'.mounted = reader.mounted /\ reader'.saw = reader.saw
      /\ reader'.due => reader.mounted
      /\ reader' = Notified(reader) => reader'.due = reader.mounted
      /\ reader.due => reader'.due
  BY DEF ReaderInv, Reader, Notified
<1>2. /\ reader.read \in 0 .. Len(entries) /\ reader.waits \in {0, reader.read}
      /\ 0 \notin DOMAIN entries /\ DOMAIN entries = 1 .. Len(entries) /\ Len(entries) \in Nat
  BY StoreTypes DEF ReaderInv
<1>3. (reader.read # 0 => reader.read \in DOMAIN entries) /\ reader.read \in 0 .. Len(entries')
  BY <1>2
<1>4. (reader.waits # 0 => reader.waits \in DOMAIN entries)
  BY <1>2, <1>3
<1>5. marker' \/ reader'.due \/ reader'.waits # 0 => reader'.mounted
  BY <1>1 DEF ReaderInv
<1>6. ASSUME NEW e \in DOMAIN entries'
      PROVE  /\ reader'.waits = e => Backed(e)'
             /\ current' = e =>
                  /\ reader'.read = e /\ entries'[e].loading => reader'.waits = e
                  /\ reader'.waits = e /\ ~entries'[e].loading => reader'.due
                  /\ entries'[e].born = "chunk" /\ reader'.mounted /\ ~reader'.due => reader'.read = e
                  /\ reader'.mounted /\ ~reader'.due /\ reader'.waits = 0 /\ reader'.read = e =>
                         reader'.saw = entries'[e].seen
  <2>1. e # 0
    BY <1>6, <1>2, <1>3, <1>4
  <2>2. CASE e \notin DOMAIN entries
    BY <1>1, <1>3, <1>4, <2>1, <2>2
  <2>3. CASE e \in DOMAIN entries
    BY <1>1, <2>3 DEF ReaderInv
  <2> QED BY <2>2, <2>3
<1> QED BY <1>1, <1>2, <1>3, <1>5, <1>6 DEF ReaderInv

LEMMA ReaderLooks ==
    ASSUME StoreInv', NEW r \in Reader, r.mounted, ~r.due, current' # 0,
           reader' = Looked(r, current', entries'[current']), marker' \in BOOLEAN
    PROVE  ReaderInv'
<1> DEFINE n == Len(entries')
<1>1. /\ n \in Nat /\ DOMAIN entries' = 1 .. n /\ current' \in 1 .. n /\ n <= MaxEntries /\ MaxEntries \in Nat
      /\ \A e \in DOMAIN entries' : entries'[e] \in Entry
  <2>1. entries' \in Seq(Entry) /\ current' \in 0 .. n /\ n <= MaxEntries
    BY DEF StoreInv, StoreType
  <2> QED BY <2>1, CacheAssumption, LenProperties, ElementOfSeq
<1>2. PICK e \in 1 .. n : e = current'
  BY <1>1
<1>3. PICK x \in Entry : x = entries'[e]
  BY <1>1, <1>2
<1>4. reader' = Looked(r, e, x)
  BY <1>2, <1>3
<1> HIDE DEF n
<1>5. e \in 0 .. n /\ e \in 0 .. MaxEntries /\ 0 \in 0 .. MaxEntries /\ e # 0
  BY <1>1
<1>6. /\ reader' \in Reader /\ reader'.mounted /\ ~reader'.due /\ reader'.read = e
      /\ x.loading => reader'.waits = e
      /\ ~x.loading => reader'.waits = 0 /\ reader'.saw = x.seen
  <2>1. CASE x.loading
    BY <1>4, <1>5, <2>1 DEF Looked, Reader
  <2>2. CASE ~x.loading
    <3>1. x.seen \in SUBSET Writes
      BY DEF Entry
    <3> QED BY <1>4, <1>5, <2>2, <3>1 DEF Looked, Reader
  <2> QED BY <2>1, <2>2
<1>7. x.loading => Backed(e)'
  BY <1>1, <1>2, <1>3 DEF StoreInv, OwnerInv
<1>8. \A k \in DOMAIN entries' : current' = k => k = e
  BY <1>2
<1>9. \A k \in DOMAIN entries' : reader'.waits = k => k = e /\ x.loading
  BY <1>1, <1>5, <1>6
<1> QED BY <1>1, <1>3, <1>5, <1>6, <1>7, <1>8, <1>9 DEF ReaderInv, n

LEMMA ReaderLeaves ==
    ASSUME StoreInv, ReaderInv, StoreInv', torndown, Len(entries') \in Nat
    PROVE  ReaderInv'
<1>1. /\ reader' \in Reader /\ reader'.waits = 0 /\ reader'.read = 0 /\ ~reader'.mounted /\ ~reader'.due
      /\ marker' = FALSE
  <2>1. 0 \in 0 .. MaxEntries /\ reader \in Reader
    BY StoreTypes DEF ReaderInv
  <2> QED BY <2>1 DEF torndown, Reader
<1> QED BY <1>1 DEF ReaderInv

LEMMA ReaderAnswered ==
    ASSUME StoreInv, ReaderInv, NEW e \in DOMAIN entries, NEW x \in Entry, entries' = [entries EXCEPT ![e] = x],
           NEW shows \in {"nothing", "value", "error"}, NEW saw \in SUBSET Writes,
           reader' = Answered(reader, e, shows, saw), marker' = marker, x.born = entries[e].born,
           current' = current \/ (current = e /\ current' = 0),
           current' = e => /\ ~x.loading
                           /\ x.seen = (IF entries[e].loading THEN saw ELSE entries[e].seen),
           \A k \in DOMAIN entries : k # e /\ Backed(k) => Backed(k)'
    PROVE  ReaderInv'
<1>1. /\ Len(entries') = Len(entries) /\ DOMAIN entries' = DOMAIN entries
      /\ entries'[e] = x /\ \A k \in DOMAIN entries : k # e => entries'[k] = entries[k]
  BY EntrySet
<1>2. 0 \in 0 .. MaxEntries /\ reader \in Reader /\ 0 \notin DOMAIN entries
  BY StoreTypes DEF ReaderInv
<1>3. /\ reader' \in Reader /\ reader'.read = reader.read /\ reader'.mounted = reader.mounted
      /\ reader'.due = reader.due
      /\ reader.waits = e => reader'.waits = 0 /\ reader'.saw = saw
      /\ reader.waits # e => reader' = reader
  BY <1>2 DEF Answered, Reader
<1>4. reader'.waits \in {0, reader'.read} /\ reader'.read \in 0 .. Len(entries')
  BY <1>1, <1>3 DEF ReaderInv
<1>5. marker' \/ reader'.due \/ reader'.waits # 0 => reader'.mounted
  BY <1>2, <1>3 DEF ReaderInv
<1>6. \A k \in DOMAIN entries : reader'.waits = k => Backed(k)'
  <2> SUFFICES ASSUME NEW k \in DOMAIN entries, reader'.waits = k
               PROVE  Backed(k)'
    OBVIOUS
  <2>1. reader.waits = k /\ k # e
    BY <1>2, <1>3
  <2> QED BY <2>1 DEF ReaderInv
<1>7. ASSUME NEW k \in DOMAIN entries, current' = k
      PROVE  /\ reader'.read = k /\ entries'[k].loading => reader'.waits = k
             /\ reader'.waits = k /\ ~entries'[k].loading => reader'.due
             /\ entries'[k].born = "chunk" /\ reader'.mounted /\ ~reader'.due => reader'.read = k
             /\ reader'.mounted /\ ~reader'.due /\ reader'.waits = 0 /\ reader'.read = k =>
                    reader'.saw = entries'[k].seen
  <2>1. current = k /\ k # 0
    BY <1>2, <1>7
  <2>2. /\ reader.read = k /\ entries[k].loading => reader.waits = k
        /\ reader.waits = k /\ ~entries[k].loading => reader.due
        /\ entries[k].born = "chunk" /\ reader.mounted /\ ~reader.due => reader.read = k
        /\ reader.mounted /\ ~reader.due /\ reader.waits = 0 /\ reader.read = k =>
               reader.saw = entries[k].seen
    BY <2>1 DEF ReaderInv
  <2>3. CASE k = e
    <3>1. CASE reader.waits = e
      BY <1>1, <1>3, <1>7, <2>1, <2>2, <2>3, <3>1
    <3>2. CASE reader.waits # e
      BY <1>1, <1>3, <1>7, <2>1, <2>2, <2>3, <3>2
    <3> QED BY <3>1, <3>2
  <2>4. CASE k # e
    <3>1. CASE reader.waits = e
      <4>1. reader.read = e
        BY <1>2, <3>1 DEF ReaderInv
      <4> QED BY <1>1, <1>3, <2>1, <2>2, <2>4, <3>1, <4>1
    <3>2. CASE reader.waits # e
      BY <1>1, <1>3, <2>1, <2>2, <2>4, <3>2
    <3> QED BY <3>1, <3>2
  <2> QED BY <2>3, <2>4
<1> QED BY <1>1, <1>3, <1>4, <1>5, <1>6, <1>7 DEF ReaderInv

-----------------------------------------------------------------------------
LEMMA ReadStep ==
    ASSUME CacheInv, NEW site \in CallSite, read(site), UNCHANGED <<world, asked, stream>>,
           \/ reader' = reader
           \/ \E r \in Reader : r.mounted /\ ~r.due /\ reader' = Looked(r, current', entries'[current'])
    PROVE  CacheInv'
<1>1. CASE current # 0
  <2>1. PICK e \in DOMAIN entries : e = current
    BY <1>1, StoreTypes DEF CacheInv
  <2> DEFINE adopts == entries[e].hydrated /\ site.ttl # "forever"
             x == Adopted(entries[e], site)
  <2>2. entries' = [entries EXCEPT ![e] = x] /\ UNCHANGED <<current, marker, flights>>
    BY <1>1, <2>1 DEF read
  <2>3. entries[e] \in Entry /\ StoreInv /\ ReaderInv
    BY StoreTypes DEF CacheInv
  <2>4. /\ x \in Entry /\ x.born = entries[e].born /\ x.loading = entries[e].loading /\ x.seen = entries[e].seen
        /\ x.refreshing = entries[e].refreshing /\ x.timer = entries[e].timer /\ x.cooling = entries[e].cooling
        /\ x.policy = IF entries[e].policy = "off" THEN site.swr ELSE entries[e].policy
    <3>1. x = [entries[e] EXCEPT !.policy = IF @ = "off" THEN site.swr ELSE @, !.hydrated = FALSE,
                                 !.ttl = IF adopts THEN site.ttl ELSE @, !.expiring = @ \/ adopts]
      BY DEF Adopted
    <3>2. adopts \in BOOLEAN /\ site.swr \in Policy /\ site.ttl \in Ttl
      BY <2>3 DEF CallSite, Entry
    <3> DEFINE p == IF entries[e].policy = "off" THEN site.swr ELSE entries[e].policy
               t == IF adopts THEN site.ttl ELSE entries[e].ttl
               ex == entries[e].expiring \/ adopts
    <3>3. p \in Policy /\ t \in Ttl /\ ex \in BOOLEAN
      BY <2>3, <3>2 DEF Entry
    <3>4. x = [entries[e] EXCEPT !.policy = p, !.hydrated = FALSE, !.ttl = t, !.expiring = ex]
      BY <2>3, <3>1 DEF Entry
    <3> HIDE DEF x, ex, t, adopts
    <3> QED BY <2>3, <3>3, <3>4 DEF Entry
  <2> HIDE DEF x
  <2>5. /\ entries[e].timer => entries[e].policy # "off"
        /\ entries[e].cooling => entries[e].policy = "throttle"
    BY <2>3 DEF StoreInv, StoreType
  <2>6. \A k \in DOMAIN entries : (Loads(k)' <=> Loads(k)) /\ (Reloads(k)' <=> Reloads(k)) /\ (Backed(k)' <=> Backed(k))
    BY <2>2 DEF Loads, Reloads, Backed, StreamOwes
  <2>7. StoreInv'
    <3>1. flights' \subseteq Flight /\ (\A f, g \in flights' : f.id = g.id => f = g) /\ marker' \in BOOLEAN
      BY <2>2, <2>3 DEF StoreInv, StoreType
    <3>2. current = e /\ entries[e].refreshing => Reloads(e)
      BY <2>3 DEF StoreInv, OwnerInv
    <3> QED BY <2>1, <2>2, <2>3, <2>4, <2>5, <2>6, <3>1, <3>2, EntryMoves
  <2>8. /\ Len(entries') = Len(entries) /\ DOMAIN entries' = DOMAIN entries
        /\ entries'[e] = x /\ \A k \in DOMAIN entries : k # e => entries'[k] = entries[k]
    BY <2>2, <2>3, <2>4, EntrySet
  <2>9. CASE reader' = reader
    <3>1. \A k \in DOMAIN entries : reader.waits = k => Backed(k)'
      BY <2>3, <2>6 DEF ReaderInv
    <3> QED BY <2>1, <2>2, <2>3, <2>4, <2>7, <2>8, <2>9, <3>1, StoreTypes, ReaderRests DEF CacheInv
  <2>10. CASE \E r \in Reader : r.mounted /\ ~r.due /\ reader' = Looked(r, current', entries'[current'])
    <3>1. marker' \in BOOLEAN
      BY <2>2, <2>3, StoreTypes
    <3> QED BY <1>1, <2>2, <2>7, <2>10, <3>1, ReaderLooks DEF CacheInv
  <2> QED BY <2>9, <2>10
<1>2. CASE current = 0
  <2> DEFINE n == Len(entries)
             x == Registered(site)
  <2>1. /\ n < MaxEntries /\ entries' = Append(entries, x) /\ current' = n + 1 /\ marker' = FALSE
        /\ takeOff(n + 1, "load")
    BY <1>2 DEF read
  <2>2. StoreInv /\ ReaderInv /\ marker \in BOOLEAN
    BY StoreTypes DEF CacheInv
  <2>3. x \in Entry /\ x.born = "call" /\ x.loading /\ ~x.timer /\ ~x.cooling
    BY <2>2 DEF Registered, Placeholder, Entry, CallSite, Ttl
  <2> HIDE DEF x
  <2>4. StoreInv'
    BY <1>2, <2>1, <2>2, <2>3, EntryBorn
  <2>5. /\ n \in Nat /\ Len(entries') = n + 1 /\ DOMAIN entries' = DOMAIN entries \cup {n + 1}
        /\ entries'[n + 1] = x /\ n + 1 \notin DOMAIN entries
    BY <2>1, <2>2, <2>3, StoreTypes, EntryAdded
  <2> HIDE DEF n
  <2>6. current' # 0 /\ Len(entries') \in Nat /\ n <= Len(entries')
    BY <2>1, <2>5
  <2>7. CASE reader' = reader
    <3>1. PICK g \in Flight : flights' = flights \cup {g}
      BY <2>1, <2>2, <2>5, StoreTypes, TakesOff DEF n
    <3>2. \A k \in DOMAIN entries : Backed(k) => Backed(k)'
      BY <3>1 DEF Backed, Loads, StreamOwes
    <3>3. \A k \in DOMAIN entries : reader.waits = k => Backed(k)'
      BY <2>2, <3>2 DEF ReaderInv
    <3>4. \A k \in DOMAIN entries' : current' = k => k \notin DOMAIN entries /\ entries'[k].born = "call"
      BY <2>1, <2>3, <2>5
    <3> QED BY <2>1, <2>2, <2>4, <2>5, <2>6, <2>7, <3>3, <3>4, ReaderRests DEF CacheInv, n
  <2>8. CASE \E r \in Reader : r.mounted /\ ~r.due /\ reader' = Looked(r, current', entries'[current'])
    BY <2>1, <2>4, <2>6, <2>8, ReaderLooks DEF CacheInv
  <2> QED BY <2>7, <2>8
<1> QED BY <1>1, <1>2

(* A refetch takes off for entry e, or there is nothing to fetch with.     *)
LEMMA Refetches ==
    ASSUME StoreInv, NEW e \in DOMAIN entries, NEW es, NEW y \in Entry, es = [entries EXCEPT ![e] = y],
           fireRefetch(es, e),
           y.cooling => y.policy = "throttle"
    PROVE  \E x \in Entry :
               /\ entries' = [entries EXCEPT ![e] = x]
               /\ x.born = y.born /\ x.loading = y.loading /\ x.seen = y.seen /\ x.policy = y.policy
               /\ x.timer = y.timer /\ (x.cooling => x.policy = "throttle")
               /\ flights' \subseteq Flight /\ \A f, g \in flights' : f.id = g.id => f = g
               /\ flights \subseteq flights'
               /\ \A f \in flights' : f \in flights \/ (f.entry = e /\ f.kind = "refetch" /\ x.policy # "off")
               /\ x.refreshing => y.refreshing \/ \E f \in flights' : f.entry = e /\ f.kind = "refetch"
<1>1. es[e] = y /\ e \in 1 .. MaxEntries
  BY StoreTypes
<1>2. CASE y.policy = "off" \/ y.refreshing
  <2>1. entries' = [entries EXCEPT ![e] = y] /\ flights' = flights
    BY <1>1, <1>2 DEF fireRefetch
  <2>2. flights' \subseteq Flight /\ \A f, g \in flights' : f.id = g.id => f = g
    BY <2>1 DEF StoreInv, StoreType
  <2> QED BY <2>1, <2>2
<1>3. CASE ~ (y.policy = "off" \/ y.refreshing)
  <2> DEFINE cools == y.policy = "throttle"
             x == [y EXCEPT !.refreshing = TRUE, !.cooling = cools]
  <2>1. entries' = [es EXCEPT ![e].refreshing = TRUE, ![e].cooling = (y.policy = "throttle")] /\ takeOff(e, "refetch")
    BY <1>1, <1>3 DEF fireRefetch
  <2>2. entries' = [entries EXCEPT ![e] = x]
    BY <1>1, <2>1, StoreTypes DEF Entry
  <2>3. /\ x \in Entry /\ x.born = y.born /\ x.loading = y.loading /\ x.seen = y.seen /\ x.policy = y.policy
        /\ x.timer = y.timer /\ (x.cooling => x.policy = "throttle")
    <3>1. cools \in BOOLEAN
      OBVIOUS
    <3> QED BY <3>1 DEF Entry
  <2> HIDE DEF x
  <2>4. PICK g \in Flight : /\ flights' = flights \cup {g} /\ g.entry = e /\ g.kind = "refetch"
                            /\ flights' \subseteq Flight /\ \A f, h \in flights' : f.id = h.id => f = h
    BY <1>1, <2>1, TakesOff
  <2> QED BY <1>3, <2>2, <2>3, <2>4
<1> QED BY <1>2, <1>3

-----------------------------------------------------------------------------
LEMMA CacheInitially == Init => CacheInv
<1> SUFFICES ASSUME Init PROVE CacheInv
  OBVIOUS
<1>1. PICK page \in Pages :
          /\ entries = IF page = "streamed" THEN <<Placeholder>> ELSE <<>>
          /\ current = Len(entries)
          /\ stream = [pc |-> IF page = "streamed" THEN "open" ELSE "none",
                        deferred |-> page = "streamed", served |-> FALSE, saw |-> {}]
          /\ reader \in [mounted : {FALSE}, site : CallSites[page], due : {FALSE}, waits : {0},
                         read : {0}, shows : {"nothing"}, saw : {{}}]
  BY DEF Init
<1>2. /\ page \in {"plain", "streamed"} /\ CallSites[page] \subseteq CallSite
      /\ world = {} /\ asked = {} /\ marker = FALSE /\ flights = {}
      /\ MaxEntries \in Nat \ {0}
  BY CacheAssumption DEF Init
<1>3. Placeholder \in Entry
  BY DEF Placeholder, Entry, Ttl, Policy
<1>4. stream \in Stream /\ ThisPage = page
  BY <1>1, <1>2 DEF Stream, ThisPage
<1>5. 0 \in 0 .. MaxEntries /\ 1 <= MaxEntries /\ 0 <= MaxEntries
  BY <1>2
<1>6. /\ reader \in Reader /\ reader.waits = 0 /\ reader.read = 0 /\ ~reader.mounted /\ ~reader.due
  BY <1>1, <1>2, <1>5 DEF Reader
<1>7. CASE page = "streamed"
  <2>1. /\ entries \in Seq(Entry) /\ Len(entries) = 1 /\ DOMAIN entries = {1} /\ entries[1] = Placeholder
        /\ current = 1
    BY <1>1, <1>3, <1>7
  <2>2. StreamOwes /\ stream.pc = "open"
    BY <1>1, <1>7 DEF StreamOwes
  <2>3. Placeholder.loading /\ ~Placeholder.timer /\ ~Placeholder.cooling /\ ~Placeholder.refreshing /\ Placeholder.born = "placeholder"
    BY DEF Placeholder
  <2>4. StoreType
    <3>1. Len(entries) <= MaxEntries /\ current \in 0 .. Len(entries)
      BY <1>5, <2>1
    <3>2. \A e \in DOMAIN entries : ~entries[e].timer /\ ~entries[e].cooling
      BY <2>1, <2>3
    <3> QED BY <1>2, <1>4, <2>1, <3>1, <3>2 DEF StoreType
  <2>5. Placed /\ OwnerInv
    BY <1>1, <1>2, <1>4, <2>1, <2>2, <2>3 DEF Placed, OwnerInv, Backed
  <2>6. ReaderInv
    BY <1>2, <1>6, <2>1, <2>3 DEF ReaderInv
  <2> QED BY <2>4, <2>5, <2>6 DEF CacheInv, StoreInv
<1>8. CASE page = "plain"
  <2>1. entries \in Seq(Entry) /\ Len(entries) = 0 /\ DOMAIN entries = {} /\ current = 0
    BY <1>1, <1>8
  <2>2. StoreType
    <3>1. Len(entries) <= MaxEntries /\ current \in 0 .. Len(entries)
      BY <1>5, <2>1
    <3> QED BY <1>2, <1>4, <2>1, <3>1 DEF StoreType
  <2>3. Placed /\ OwnerInv
    BY <1>1, <1>2, <1>4, <1>8, <2>1 DEF Placed, OwnerInv
  <2>4. ReaderInv
    BY <1>2, <1>6, <2>1 DEF ReaderInv
  <2> QED BY <2>2, <2>3, <2>4 DEF CacheInv, StoreInv
<1> QED BY <1>2, <1>7, <1>8

(* A read of the page, and what takes the page's reader away.              *)
LEMMA PageReads ==
    ASSUME CacheInv, \/ Mount \/ Rerun \/ \E site \in CallSites[ThisPage] : ReadOnce(site)
    PROVE  CacheInv'
<1>1. reader \in Reader /\ ThisPage \in Pages
  BY DEF CacheInv, ReaderInv, StoreInv, Placed
<1>2. CASE Mount
  <2> DEFINE r == [reader EXCEPT !.mounted = TRUE]
  <2>1. ~reader.due
    BY <1>2 DEF Mount, CacheInv, ReaderInv
  <2>2. r \in Reader /\ r.mounted /\ ~r.due /\ reader.site \in CallSite
    BY <1>1, <2>1 DEF Reader
  <2> QED BY <1>2, <2>2, ReadStep DEF Mount
<1>3. CASE Rerun
  <2> DEFINE r == [reader EXCEPT !.due = FALSE]
  <2>1. reader.mounted
    BY <1>3 DEF Rerun, CacheInv, ReaderInv
  <2>2. r \in Reader /\ r.mounted /\ ~r.due /\ reader.site \in CallSite
    BY <1>1, <2>1 DEF Reader
  <2> QED BY <1>3, <2>2, ReadStep DEF Rerun
<1>4. CASE \E site \in CallSites[ThisPage] : ReadOnce(site)
  <2>1. PICK site \in CallSites[ThisPage] : ReadOnce(site)
    BY <1>4
  <2>2. site \in CallSite
    BY <1>1, CacheAssumption
  <2> QED BY <2>1, <2>2, ReadStep DEF ReadOnce
<1> QED BY <1>2, <1>3, <1>4

LEMMA ReaderGoes ==
    ASSUME CacheInv, Unmount \/ Navigate
    PROVE  CacheInv'
<1>1. /\ UNCHANGED <<entries, current, world, asked, flights>> /\ torndown /\ marker' = FALSE
      /\ StoreInv /\ ReaderInv
  BY DEF Unmount, Navigate, torndown, CacheInv
<1>2. /\ stream' \in Stream /\ (stream'.pc = "open" => stream.pc = "open") /\ (stream'.pc = "none" <=> stream.pc = "none")
      /\ stream' = stream \/ stream'.pc = "aborted"
  <2>1. stream \in Stream
    BY <1>1, StoreTypes
  <2> QED BY <2>1 DEF Unmount, Navigate, Stream
<1>3. \A e \in DOMAIN entries : (Backed(e) => Backed(e)') /\ (Reloads(e) => Reloads(e)')
  BY <1>1, <1>2 DEF Backed, Loads, Reloads, StreamOwes
<1>4. flights \subseteq Flight /\ (\A f, g \in flights : f.id = g.id => f = g) /\ world \subseteq Writes
  BY <1>1 DEF StoreInv, StoreType
<1>5. \A f \in flights' : \E g \in flights : /\ f.entry = g.entry /\ f.kind = g.kind
                                             /\ f.served => f.saw = world \/ (g.served /\ f.saw = g.saw)
  BY <1>1
<1>6. StoreInv'
  BY <1>1, <1>2, <1>3, <1>4, <1>5, CallsMove
<1>7. Len(entries') \in Nat
  BY <1>1, StoreTypes
<1> QED BY <1>1, <1>6, <1>7, ReaderLeaves DEF CacheInv

-----------------------------------------------------------------------------
(* The server and the stream move, the store and its reader do not.        *)
LEMMA StoreRests ==
    ASSUME CacheInv, UNCHANGED <<entries, current, asked, marker, reader>>,
           world \subseteq world', world' \subseteq Writes,
           flights' \subseteq Flight, \A f, g \in flights' : f.id = g.id => f = g,
           \A f \in flights' :
               \/ f.entry = 1 /\ f.kind = "placeholder" /\ stream.pc = "open"
               \/ \E g \in flights : /\ f.entry = g.entry /\ f.kind = g.kind
                                     /\ f.served => f.saw = world \/ (g.served /\ f.saw = g.saw),
           \A e \in DOMAIN entries : (Backed(e) => Backed(e)') /\ (Reloads(e) => Reloads(e)'),
           stream' \in Stream, stream'.pc = "open" => stream.pc = "open",
           stream'.pc = "none" <=> stream.pc = "none"
    PROVE  CacheInv'
<1>1. StoreInv /\ ReaderInv /\ marker \in BOOLEAN /\ Len(entries) \in Nat
  BY StoreTypes DEF CacheInv
<1>2. StoreInv'
  BY <1>1, CallsMove
<1>3. \A e \in DOMAIN entries : reader.waits = e => Backed(e)'
  BY <1>1 DEF ReaderInv
<1>4. ReaderInv'
  <2>1. \A e \in DOMAIN entries' : current' = e =>
            /\ e \in DOMAIN entries /\ current = e /\ entries'[e].born = entries[e].born
            /\ entries'[e].loading = entries[e].loading /\ entries'[e].seen = entries[e].seen
    OBVIOUS
  <2> QED BY <1>1, <1>3, <2>1, ReaderRests
<1> QED BY <1>2, <1>4 DEF CacheInv

LEMMA ServerSteps ==
    ASSUME CacheInv, \/ \E w \in Writes : Write(w)
                     \/ \E f \in flights : Serve(f)
                     \/ ServeStream
    PROVE  CacheInv'
<1>1. /\ StoreInv /\ world \subseteq Writes /\ stream \in Stream /\ flights \subseteq Flight
      /\ \A f, g \in flights : f.id = g.id => f = g
  BY DEF CacheInv, StoreInv, StoreType
<1>2. CASE \E w \in Writes : Write(w)
  <2>1. /\ UNCHANGED <<asked, entries, current, marker, flights, reader, stream>>
        /\ world \subseteq world' /\ world' \subseteq Writes
    BY <1>1, <1>2 DEF Write
  <2>2. \A e \in DOMAIN entries : (Backed(e) => Backed(e)') /\ (Reloads(e) => Reloads(e)')
    BY <2>1 DEF Backed, Loads, Reloads, StreamOwes
  <2> QED BY <1>1, <2>1, <2>2, StoreRests
<1>3. CASE \E f \in flights : Serve(f)
  <2>1. PICK f \in flights : Serve(f)
    BY <1>3
  <2> DEFINE h == [f EXCEPT !.served = TRUE, !.saw = world]
  <2>2. /\ h \in Flight /\ h.entry = f.entry /\ h.kind = f.kind /\ h.id = f.id /\ h.saw = world
        /\ flights' = (flights \ {f}) \cup {h}
        /\ UNCHANGED <<world, asked, entries, current, marker, reader, stream>>
    BY <1>1, <2>1 DEF Serve, Flight
  <2> HIDE DEF h
  <2>3. flights' \subseteq Flight /\ (\A a, b \in flights' : a.id = b.id => a = b)
    BY <1>1, <2>1, <2>2
  <2>4. \A e \in DOMAIN entries : (Loads(e) => Loads(e)') /\ (Reloads(e) => Reloads(e)')
    BY <2>2 DEF Loads, Reloads
  <2>5. \A e \in DOMAIN entries : (Backed(e) => Backed(e)') /\ (Reloads(e) => Reloads(e)')
    BY <2>2, <2>4 DEF Backed, StreamOwes
  <2>6. \A a \in flights' : \E b \in flights : /\ a.entry = b.entry /\ a.kind = b.kind
                                               /\ a.served => a.saw = world \/ (b.served /\ a.saw = b.saw)
    BY <2>1, <2>2
  <2> QED BY <1>1, <2>2, <2>3, <2>5, <2>6, StoreRests
<1>4. CASE ServeStream
  <2>1. /\ UNCHANGED <<world, asked, entries, current, marker, flights, reader>>
        /\ stream' \in Stream /\ stream'.pc = stream.pc /\ stream'.deferred = stream.deferred
    BY <1>1, <1>4 DEF ServeStream, Stream
  <2>2. \A e \in DOMAIN entries : (Backed(e) => Backed(e)') /\ (Reloads(e) => Reloads(e)')
    BY <2>1 DEF Backed, Loads, Reloads, StreamOwes
  <2> QED BY <1>1, <2>1, <2>2, StoreRests
<1> QED BY <1>2, <1>3, <1>4

(* What the stream has not brought is fetched live: the placeholder is     *)
(* handed from the stream to a call.                                       *)
LEMMA StreamGivesUp ==
    ASSUME CacheInv, StreamMiss \/ StreamEnds
    PROVE  CacheInv'
<1>1. /\ StoreInv /\ world \subseteq Writes /\ stream \in Stream /\ flights \subseteq Flight
      /\ \A f, g \in flights : f.id = g.id => f = g
  BY DEF CacheInv, StoreInv, StoreType
<1>2. /\ UNCHANGED <<world, asked, entries, current, marker, reader>> /\ stream.pc = "open"
      /\ stream' \in Stream /\ stream'.pc \in {"open", "ended"} /\ ~stream'.deferred
      /\ IF stream.deferred THEN takeOff(1, "placeholder") ELSE flights' = flights
  <2>1. CASE StreamMiss
    BY <1>1, <2>1 DEF StreamMiss, Stream
  <2>2. CASE StreamEnds
    BY <1>1, <2>2 DEF StreamEnds, Stream
  <2> QED BY <2>1, <2>2
<1>3. 1 \in 1 .. MaxEntries
  BY <1>1, StoreTypes
<1>4. CASE stream.deferred
  <2>1. PICK g \in Flight : /\ flights' = flights \cup {g} /\ g.entry = 1 /\ g.kind = "placeholder"
                            /\ flights' \subseteq Flight /\ \A f, h \in flights' : f.id = h.id => f = h
    BY <1>1, <1>2, <1>3, <1>4, TakesOff
  <2>2. Loads(1)' /\ \A e \in DOMAIN entries : (Loads(e) => Loads(e)') /\ (Reloads(e) => Reloads(e)')
    BY <2>1 DEF Loads, Reloads
  <2>3. \A e \in DOMAIN entries : (Backed(e) => Backed(e)') /\ (Reloads(e) => Reloads(e)')
    BY <2>2 DEF Backed
  <2>4. \A a \in flights' :
            \/ a.entry = 1 /\ a.kind = "placeholder" /\ stream.pc = "open"
            \/ \E b \in flights : /\ a.entry = b.entry /\ a.kind = b.kind
                                  /\ a.served => a.saw = world \/ (b.served /\ a.saw = b.saw)
    BY <1>2, <2>1
  <2> QED BY <1>1, <1>2, <2>1, <2>3, <2>4, StoreRests
<1>5. CASE ~stream.deferred
  <2>1. \A e \in DOMAIN entries : (Backed(e) => Backed(e)') /\ (Reloads(e) => Reloads(e)')
    BY <1>2, <1>5 DEF Backed, Loads, Reloads, StreamOwes
  <2> QED BY <1>1, <1>2, <1>5, <2>1, StoreRests
<1> QED BY <1>2, <1>4, <1>5

LEMMA ChunkArrives ==
    ASSUME CacheInv, StreamResolves
    PROVE  CacheInv'
<1> DEFINE saw == stream.saw
           n == Len(entries)
<1>1. StoreInv /\ ReaderInv /\ marker \in BOOLEAN /\ stream \in Stream /\ n \in Nat /\ stream.pc = "open"
  BY StoreTypes DEF CacheInv, StreamResolves
<1>2. saw \in SUBSET Writes /\ stream' \in Stream /\ stream'.pc = "open"
  BY <1>1 DEF StreamResolves, Stream
<1>3. 1 \in DOMAIN entries /\ 1 # 0
  BY <1>1 DEF StoreInv, Placed
<1>4. /\ StoreInv'
      /\ Len(entries') = n + 1 /\ entries'[n + 1].born = "chunk" /\ ~entries'[n + 1].loading
      /\ DOMAIN entries' = DOMAIN entries \cup {n + 1}
  BY <1>1, <1>2, <1>3, ChunkBorn DEF StreamResolves
<1>5. PICK m \in Nat : m = n + 1
  BY <1>1
<1>6. /\ current' = m /\ UNCHANGED <<world, asked, marker, flights>> /\ m \notin DOMAIN entries /\ m # 0
      /\ reader' = Notified(Answered(reader, 1, "value", saw))
      /\ 0 .. n \subseteq 0 .. m
  BY <1>1, <1>5, StoreTypes DEF StreamResolves
<1> HIDE DEF saw, n
<1>7. 0 \in 0 .. MaxEntries /\ reader \in Reader
  BY <1>1, StoreTypes DEF ReaderInv
<1>8. /\ reader' \in Reader /\ reader'.read = reader.read /\ reader'.mounted = reader.mounted
      /\ reader'.due = reader.mounted
      /\ reader'.waits = IF reader.waits = 1 THEN 0 ELSE reader.waits
  BY <1>2, <1>6, <1>7 DEF Answered, Notified, Reader
<1>9. reader'.waits \in {0, reader'.read} /\ reader'.read \in 0 .. Len(entries')
  BY <1>1, <1>4, <1>5, <1>6, <1>8 DEF ReaderInv, n
<1>10. marker' \/ reader'.due \/ reader'.waits # 0 => reader'.mounted
  BY <1>6, <1>8 DEF CacheInv, ReaderInv
<1>11. \A e \in DOMAIN entries : reader'.waits = e => Backed(e)'
  <2>1. \A e \in DOMAIN entries : Backed(e) /\ e # 1 => Backed(e)'
    BY <1>6 DEF Backed, Loads
  <2>2. \A e \in DOMAIN entries : e # 0
    BY <1>1, StoreTypes
  <2> QED BY <1>8, <2>1, <2>2 DEF CacheInv, ReaderInv
<1>12. reader'.waits # m /\ reader'.read # m
  <2>1. reader.read \in 0 .. n /\ m \notin 0 .. n /\ reader.waits \in {0, reader.read}
    BY <1>1, <1>5 DEF ReaderInv, n
  <2> QED BY <1>6, <1>8, <2>1
<1> QED BY <1>4, <1>5, <1>6, <1>8, <1>9, <1>10, <1>11, <1>12 DEF CacheInv, ReaderInv

-----------------------------------------------------------------------------
(* A call comes back: the other entries keep what backs them, and so does  *)
(* its own entry but for what the call itself was.                         *)
LEMMA CallLands ==
    ASSUME StoreInv, NEW f \in flights, flights' = flights \ {f}, UNCHANGED stream
    PROVE  /\ f.entry \in DOMAIN entries /\ f \in Flight /\ f.saw \subseteq Writes
           /\ entries[f.entry] \in Entry
           /\ entries[f.entry].timer => entries[f.entry].policy # "off"
           /\ entries[f.entry].cooling => entries[f.entry].policy = "throttle"
           /\ flights' \subseteq Flight /\ \A g, h \in flights' : g.id = h.id => g = h
           /\ \A k \in DOMAIN entries : k # f.entry => /\ Loads(k) => Loads(k)'
                                                       /\ Reloads(k) => Reloads(k)'
                                                       /\ Backed(k) => Backed(k)'
           /\ f.kind = "placeholder" => (Reloads(f.entry) => Reloads(f.entry)')
           /\ f.kind = "refetch" => /\ Loads(f.entry) => Loads(f.entry)'
                                    /\ Backed(f.entry) => Backed(f.entry)'
<1> DEFINE e == f.entry
<1>1. e \in DOMAIN entries /\ f \in Flight /\ f.saw \subseteq Writes /\ entries[e] \in Entry
  BY StoreTypes
<1>2. /\ entries[e].timer => entries[e].policy # "off"
      /\ entries[e].cooling => entries[e].policy = "throttle"
      /\ flights' \subseteq Flight /\ \A g, h \in flights' : g.id = h.id => g = h
  BY <1>1 DEF StoreInv, StoreType
<1>3. \A k \in DOMAIN entries : k # e => /\ Loads(k) => Loads(k)'
                                         /\ Reloads(k) => Reloads(k)'
  BY DEF Loads, Reloads
<1>4. f.kind = "placeholder" => (Reloads(e) => Reloads(e)')
  BY DEF Reloads
<1>5. f.kind = "refetch" => (Loads(e) => Loads(e)')
  BY DEF Loads
<1> QED BY <1>1, <1>2, <1>3, <1>4, <1>5 DEF Backed, StreamOwes

(* The promise of an entry settles; the reader who waits gets his answer.  *)
LEMMA PromiseSettles ==
    ASSUME CacheInv, NEW f \in flights, LoadResolves(f) \/ LoadRejects(f) \/ PlaceholderResolves(f)
    PROVE  CacheInv'
<1> DEFINE e == f.entry
<1>1. StoreInv /\ ReaderInv
  BY DEF CacheInv
<1>2. flights' = flights \ {f} /\ UNCHANGED <<world, asked, marker, stream>> /\ marker \in BOOLEAN
  BY <1>1, StoreTypes DEF LoadResolves, LoadRejects, PlaceholderResolves
<1>3. /\ e \in DOMAIN entries /\ f \in Flight /\ f.saw \subseteq Writes /\ entries[e] \in Entry
      /\ entries[e].timer => entries[e].policy # "off"
      /\ entries[e].cooling => entries[e].policy = "throttle"
      /\ flights' \subseteq Flight /\ \A g, h \in flights' : g.id = h.id => g = h
      /\ \A k \in DOMAIN entries : k # e => /\ Loads(k) => Loads(k)'
                                            /\ Reloads(k) => Reloads(k)'
                                            /\ Backed(k) => Backed(k)'
      /\ f.kind = "placeholder" => (Reloads(e) => Reloads(e)')
  BY <1>1, <1>2, CallLands
<1>4. e # 0 /\ 0 \notin DOMAIN entries /\ (current = e /\ entries[e].refreshing => Reloads(e))
  BY <1>1, <1>3, StoreTypes DEF StoreInv, OwnerInv
<1>5. SUFFICES
        \E x \in Entry :
            /\ entries' = [entries EXCEPT ![e] = x]
            /\ x.born = entries[e].born /\ x.policy = entries[e].policy
            /\ (x.timer => entries[e].timer) /\ x.cooling = entries[e].cooling
            /\ current' = current \/ (current = e /\ current' = 0 /\ ~x.timer)
            /\ current' = e => ~x.loading /\ (x.refreshing => f.kind = "placeholder" /\ entries[e].refreshing)
            /\ \E shows \in {"value", "error"}, saw \in SUBSET Writes :
                   /\ reader' = Answered(reader, e, shows, saw)
                   /\ current' = e => /\ f.served /\ saw = f.saw
                                      /\ x.seen = IF entries[e].loading THEN saw ELSE entries[e].seen
  <2> SUFFICES ASSUME NEW x \in Entry,
            entries' = [entries EXCEPT ![e] = x],
            x.born = entries[e].born, x.policy = entries[e].policy,
            x.timer => entries[e].timer, x.cooling = entries[e].cooling,
            current' = current \/ (current = e /\ current' = 0 /\ ~x.timer),
            current' = e => ~x.loading /\ (x.refreshing => f.kind = "placeholder" /\ entries[e].refreshing),
            NEW shows \in {"value", "error"}, NEW saw \in SUBSET Writes,
            reader' = Answered(reader, e, shows, saw),
            current' = e => /\ f.served /\ saw = f.saw
                            /\ x.seen = IF entries[e].loading THEN saw ELSE entries[e].seen
                      PROVE CacheInv'
    OBVIOUS
  <2>1. StoreInv'
    <3>1. /\ x.policy = "off" => entries[e].policy = "off"
          /\ x.timer => x.policy # "off" /\ (entries[e].timer \/ e = current)
          /\ x.cooling => x.policy = "throttle"
      BY <1>3
    <3>2. /\ current' = e /\ x.loading => entries[e].loading /\ (Loads(e) => Loads(e)')
          /\ current' = e /\ x.refreshing => Reloads(e)'
      BY <1>3, <1>4
    <3>3. current' = e /\ ~x.loading =>
               \/ ~entries[e].loading /\ x.seen = entries[e].seen
               \/ \E g \in flights : g.entry = e /\ g.served /\ x.seen = g.saw
      OBVIOUS
    <3>4. \A g \in flights' : g \in flights \/ (g.entry = e /\ g.kind = "refetch" /\ x.policy # "off")
      BY <1>2
    <3> HIDE DEF e
    <3> QED BY <1>1, <1>2, <1>3, <3>1, <3>2, <3>3, <3>4, EntryMoves
  <2>2. ReaderInv'
    <3>1. \A k \in DOMAIN entries : k # e /\ Backed(k) => Backed(k)'
      BY <1>3
    <3>2. current' = e => /\ ~x.loading
                          /\ x.seen = (IF entries[e].loading THEN saw ELSE entries[e].seen)
      OBVIOUS
    <3>3. /\ current' = current \/ (current = e /\ current' = 0)
          /\ marker' = marker /\ shows \in {"nothing", "value", "error"} /\ e \in DOMAIN entries
      BY <1>2, <1>3
    <3> HIDE DEF e
    <3> QED BY ONLY <1>1, <3>1, <3>2, <3>3, ReaderAnswered, x \in Entry, saw \in SUBSET Writes,
                    entries' = [entries EXCEPT ![e] = x], x.born = entries[e].born,
                    reader' = Answered(reader, e, shows, saw)
  <2> QED BY <2>1, <2>2 DEF CacheInv
<1>6. CASE LoadResolves(f)
  <2> DEFINE loading == FALSE
             seen == IF entries[e].loading THEN f.saw ELSE entries[e].seen
             expiring == entries[e].expiring \/ entries[e].ttl = "finite"
             x == [entries[e] EXCEPT !.loading = FALSE, !.seen = seen, !.refreshing = FALSE, !.expiring = expiring]
             z == [x EXCEPT !.timer = FALSE]
             loaded == Loaded(e, f.saw)
             es == [loaded EXCEPT ![e].refreshing = FALSE, ![e].expiring = (@ \/ loaded[e].ttl = "finite")]
  <2>1. seen \in SUBSET Writes /\ expiring \in BOOLEAN
    BY <1>3 DEF Entry
  <2>2. es = [entries EXCEPT ![e] = x]
    <3>1. loaded = [entries EXCEPT ![e] = [entries[e] EXCEPT !.loading = FALSE, !.seen = seen]]
      <4>1. CASE entries[e].loading
        BY <1>3, <4>1 DEF Loaded, Entry
      <4>2. CASE ~entries[e].loading
        <5>1. entries[e] = [entries[e] EXCEPT !.loading = FALSE, !.seen = seen]
          BY <1>3, <4>2 DEF Entry
        <5> QED BY <1>1, <1>3, <4>2, <5>1, StoreTypes DEF Loaded
      <4> QED BY <4>1, <4>2
    <3>2. loaded[e] = [entries[e] EXCEPT !.loading = FALSE, !.seen = seen]
      BY <1>3, <3>1
    <3> HIDE DEF loaded, seen
    <3> QED BY <1>3, <3>1, <3>2 DEF Entry
  <2>3. /\ reader' = Answered(reader, e, "value", f.saw) /\ f.served
        /\ IF es[e].ttl = "zero" THEN evictIfCurrent(es, e) ELSE entries' = es /\ UNCHANGED current
    BY <1>6 DEF LoadResolves
  <2> HIDE DEF seen, expiring, es
  <2>4. /\ x \in Entry /\ x.born = entries[e].born /\ x.policy = entries[e].policy
        /\ x.timer = entries[e].timer /\ x.cooling = entries[e].cooling
        /\ ~x.loading /\ ~x.refreshing /\ x.seen = seen
    BY <1>3, <2>1 DEF Entry
  <2> HIDE DEF x
  <2>5. /\ z \in Entry /\ z.born = x.born /\ z.policy = x.policy /\ ~z.timer /\ z.cooling = x.cooling
    BY <2>4 DEF Entry
  <2> HIDE DEF z
  <2>6. CASE current = e /\ current' = 0 /\ entries' = [es EXCEPT ![e].timer = FALSE]
    <3>1. entries' = [entries EXCEPT ![e] = z]
      BY <1>3, <2>2, <2>6 DEF z
    <3>2. \E shows \in {"value", "error"}, saw \in SUBSET Writes : reader' = Answered(reader, e, shows, saw)
      BY <1>3, <2>3
    <3>3. /\ z.born = entries[e].born /\ z.policy = entries[e].policy
          /\ z.timer => entries[e].timer
          /\ z.cooling = entries[e].cooling
      BY <2>4, <2>5
    <3>4. current' # e
      BY <1>4, <2>6
    <3> QED BY <2>5, <2>6, <3>1, <3>2, <3>3, <3>4
  <2>7. CASE current' = current /\ entries' = es
    BY <1>3, <2>2, <2>3, <2>4, <2>7 DEF seen
  <2> QED BY <2>3, <2>6, <2>7 DEF evictIfCurrent
<1>7. CASE LoadRejects(f)
  <2> DEFINE z == [entries[e] EXCEPT !.timer = FALSE]
  <2>1. z \in Entry /\ z.born = entries[e].born /\ z.policy = entries[e].policy /\ ~z.timer /\ z.cooling = entries[e].cooling
    BY <1>3 DEF Entry
  <2>2. reader' = Answered(reader, e, "error", {}) /\ evictIfCurrent(entries, e)
    BY <1>7 DEF LoadRejects
  <2>3. CASE current = e
    <3>1. entries' = [entries EXCEPT ![e] = z] /\ current' = 0
      BY <2>2, <2>3 DEF evictIfCurrent
    <3>2. {} \in SUBSET Writes /\ "error" \in {"value", "error"} /\ current' # e
      BY <1>4, <3>1
    <3> HIDE DEF z
    <3> QED BY <2>1, <2>2, <2>3, <3>1, <3>2
  <2>4. CASE current # e
    <3>1. entries' = [entries EXCEPT ![e] = entries[e]] /\ current' = current
      BY <1>1, <1>3, <2>2, <2>4, StoreTypes DEF evictIfCurrent
    <3>2. {} \in SUBSET Writes /\ "error" \in {"value", "error"}
      OBVIOUS
    <3> QED BY <1>3, <2>2, <2>4, <3>1, <3>2
  <2> QED BY <2>3, <2>4
<1>8. CASE PlaceholderResolves(f)
  <2> DEFINE seen == IF entries[e].loading THEN f.saw ELSE entries[e].seen
             x == [entries[e] EXCEPT !.loading = FALSE, !.seen = seen]
  <2>1. seen \in SUBSET Writes
    BY <1>3 DEF Entry
  <2>2. /\ reader' = Answered(reader, e, "value", f.saw) /\ f.served /\ f.kind = "placeholder"
        /\ entries' = [entries EXCEPT ![e] = x] /\ current' = current
    <3>1. Loaded(e, f.saw) = [entries EXCEPT ![e] = x]
      <4>1. CASE entries[e].loading
        BY <1>3, <4>1 DEF Loaded, Entry
      <4>2. CASE ~entries[e].loading
        <5>1. entries[e] = x
          BY <1>3, <4>2 DEF Entry
        <5> QED BY <1>1, <1>3, <4>2, <5>1, StoreTypes DEF Loaded
      <4> QED BY <4>1, <4>2
    <3> QED BY <1>8, <3>1 DEF PlaceholderResolves
  <2> HIDE DEF seen
  <2>3. /\ x \in Entry /\ x.born = entries[e].born /\ x.policy = entries[e].policy
        /\ x.timer = entries[e].timer /\ x.cooling = entries[e].cooling
        /\ ~x.loading /\ x.refreshing = entries[e].refreshing /\ x.seen = seen
    BY <1>3, <2>1 DEF Entry
  <2> HIDE DEF x
  <2> QED BY <1>3, <2>2, <2>3 DEF seen
<1> QED BY <1>6, <1>7, <1>8

-----------------------------------------------------------------------------
(* Entry e moves while its reader keeps what he waits for: he is told of   *)
(* it, or sees no difference.                                              *)
LEMMA EntryTurns ==
    ASSUME CacheInv, NEW e \in DOMAIN entries, NEW x \in Entry, entries' = [entries EXCEPT ![e] = x],
           UNCHANGED <<world, stream>>, marker' \in BOOLEAN, marker' => marker \/ reader.mounted,
           reader' = reader \/ reader' = Notified(reader),
           x.born = entries[e].born, x.policy = entries[e].policy,
           x.timer => x.policy # "off" /\ (entries[e].timer \/ e = current),
           x.cooling => x.policy = "throttle",
           current' = current \/ (current = e /\ current' = 0 /\ ~x.timer),
           flights' \subseteq Flight, \A f, g \in flights' : f.id = g.id => f = g,
           \A f \in flights' : f \in flights \/ (f.entry = e /\ f.kind = "refetch" /\ x.policy # "off"),
           asked' = asked \/ (asked' = world /\ (current' = 0 \/ (current = e /\ x.policy # "off"))),
           \A k \in DOMAIN entries : (Loads(k) => Loads(k)') /\ (k # e /\ Reloads(k) => Reloads(k)'),
           current' = e /\ x.refreshing => Reloads(e)',
           \/ x.loading = entries[e].loading /\ x.seen = entries[e].seen
           \/ /\ ~x.loading /\ reader' = Notified(reader)
              /\ \E f \in flights : f.entry = e /\ f.served /\ x.seen = f.saw
    PROVE  CacheInv'
<1>1. StoreInv /\ ReaderInv
  BY DEF CacheInv
<1>2. StoreInv'
  <2>1. /\ x.policy = "off" => entries[e].policy = "off"
        /\ current' = e /\ x.loading => entries[e].loading /\ (Loads(e) => Loads(e)')
        /\ \A k \in DOMAIN entries : k # e => (Loads(k) => Loads(k)') /\ (Reloads(k) => Reloads(k)')
    OBVIOUS
  <2>2. current' = e /\ ~x.loading =>
               \/ ~entries[e].loading /\ x.seen = entries[e].seen
               \/ \E f \in flights : f.entry = e /\ f.served /\ x.seen = f.saw
    OBVIOUS
  <2> QED BY <1>1, <2>1, <2>2, EntryMoves
<1>3. /\ Len(entries') = Len(entries) /\ DOMAIN entries' = DOMAIN entries /\ Len(entries) \in Nat
      /\ entries'[e] = x /\ \A k \in DOMAIN entries : k # e => entries'[k] = entries[k]
  BY <1>1, EntrySet, StoreTypes
<1>4. \A k \in DOMAIN entries : reader.waits = k => Backed(k)'
  BY <1>1 DEF ReaderInv, Backed, StreamOwes
<1>5. \A k \in DOMAIN entries' : current' = k =>
           /\ k \in DOMAIN entries /\ current = k /\ entries'[k].born = entries[k].born
           /\ entries'[k].loading => entries[k].loading
           /\ \/ reader' = Notified(reader)
              \/ entries'[k].loading = entries[k].loading /\ entries'[k].seen = entries[k].seen
  <2>1. \A k \in DOMAIN entries : k # 0
    BY <1>1, StoreTypes
  <2> QED BY <1>3, <2>1
<1>6. ReaderInv'
  BY <1>1, <1>3, <1>4, <1>5, ReaderRests
<1> QED BY <1>2, <1>6 DEF CacheInv

LEMMA RefetchLands ==
    ASSUME CacheInv, NEW f \in flights, RefetchResolves(f) \/ RefetchFails(f) \/ RefetchGone(f)
    PROVE  CacheInv'
<1>1. PICK e \in DOMAIN entries : e = f.entry
  BY CallLands, StoreTypes DEF CacheInv
<1>2. StoreInv /\ ReaderInv /\ marker \in BOOLEAN
  BY StoreTypes DEF CacheInv
<1>3. flights' = flights \ {f} /\ UNCHANGED <<world, asked, stream>> /\ f.kind = "refetch"
  BY DEF RefetchResolves, RefetchFails, RefetchGone
<1>4. /\ f.saw \subseteq Writes /\ entries[e] \in Entry
      /\ entries[e].timer => entries[e].policy # "off"
      /\ entries[e].cooling => entries[e].policy = "throttle"
      /\ flights' \subseteq Flight /\ \A g, h \in flights' : g.id = h.id => g = h
      /\ \A k \in DOMAIN entries : (Loads(k) => Loads(k)') /\ (k # e /\ Reloads(k) => Reloads(k)')
  BY <1>1, <1>2, <1>3, CallLands
<1>5. reader.mounted \in BOOLEAN /\ (reader' = reader \/ reader' = Notified(reader)) /\ marker' \in BOOLEAN /\ (marker' => marker \/ reader.mounted)
  BY <1>2 DEF RefetchResolves, RefetchFails, RefetchGone, ReaderInv, Reader
<1>6. \A h \in flights' : h \in flights
  BY <1>3
<1>7. SUFFICES \E x \in Entry :
            /\ entries' = [entries EXCEPT ![e] = x]
            /\ x.born = entries[e].born /\ x.policy = entries[e].policy
            /\ (x.timer => entries[e].timer) /\ x.cooling = entries[e].cooling
            /\ current' = current \/ (current = e /\ current' = 0 /\ ~x.timer)
            /\ ~x.refreshing
            /\ \/ x.loading = entries[e].loading /\ x.seen = entries[e].seen
               \/ /\ ~x.loading /\ reader' = Notified(reader)
                  /\ f.served /\ x.seen = f.saw
  <2> SUFFICES ASSUME NEW x \in Entry,
            entries' = [entries EXCEPT ![e] = x],
            x.born = entries[e].born, x.policy = entries[e].policy,
            x.timer => entries[e].timer, x.cooling = entries[e].cooling,
            current' = current \/ (current = e /\ current' = 0 /\ ~x.timer),
            ~x.refreshing,
            \/ x.loading = entries[e].loading /\ x.seen = entries[e].seen
            \/ /\ ~x.loading /\ reader' = Notified(reader)
               /\ f.served /\ x.seen = f.saw
               PROVE  CacheInv'
    OBVIOUS
  <2>1. /\ x.timer => x.policy # "off" /\ (entries[e].timer \/ e = current)
        /\ x.cooling => x.policy = "throttle"
    BY <1>4
  <2>2. \/ x.loading = entries[e].loading /\ x.seen = entries[e].seen
        \/ /\ ~x.loading /\ reader' = Notified(reader)
           /\ \E h \in flights : h.entry = e /\ h.served /\ x.seen = h.saw
    BY <1>1
  <2> QED BY <1>3, <1>4, <1>5, <1>6, <2>1, <2>2, EntryTurns
<1> DEFINE x == [entries[e] EXCEPT !.refreshing = FALSE]
           es == [entries EXCEPT ![e].refreshing = FALSE]
<1>8. es = [entries EXCEPT ![e] = x]
  BY <1>4 DEF Entry
<1>9. /\ x \in Entry /\ x.born = entries[e].born /\ x.policy = entries[e].policy
      /\ x.timer = entries[e].timer /\ x.cooling = entries[e].cooling /\ ~x.refreshing
      /\ x.loading = entries[e].loading /\ x.seen = entries[e].seen
  BY <1>4 DEF Entry
<1>10. CASE RefetchResolves(f) /\ current = e
  <2> DEFINE z == [x EXCEPT !.loading = FALSE, !.seen = f.saw]
  <2>1. /\ entries' = [es EXCEPT ![e].loading = FALSE, ![e].seen = f.saw]
        /\ reader' = Notified(reader) /\ f.served /\ current' = current
    BY <1>1, <1>10 DEF RefetchResolves
  <2> HIDE DEF x, es
  <2>2. entries' = [entries EXCEPT ![e] = z]
    BY <1>8, <1>9, <2>1 DEF Entry
  <2>3. /\ z \in Entry /\ z.born = x.born /\ z.policy = x.policy /\ z.timer = x.timer /\ z.cooling = x.cooling
        /\ ~z.loading /\ z.seen = f.saw /\ ~z.refreshing
    BY <1>4, <1>9 DEF Entry
  <2>4. /\ z.born = entries[e].born /\ z.policy = entries[e].policy
        /\ z.timer = entries[e].timer /\ z.cooling = entries[e].cooling
    BY <1>9, <2>3
  <2> HIDE DEF z
  <2> QED BY <2>1, <2>2, <2>3, <2>4
<1>11. CASE RefetchResolves(f) /\ current # e
  <2>1. entries' = es /\ current' = current
    BY <1>1, <1>11 DEF RefetchResolves
  <2> HIDE DEF x
  <2> QED BY <1>8, <1>9, <2>1
<1>12. CASE RefetchFails(f)
  <2>1. entries' = es /\ current' = current
    BY <1>1, <1>12 DEF RefetchFails
  <2> HIDE DEF x
  <2> QED BY <1>8, <1>9, <2>1
<1>13. CASE RefetchGone(f)
  <2> DEFINE z == [x EXCEPT !.timer = FALSE]
  <2>1. evictIfCurrent(es, e)
    BY <1>1, <1>13 DEF RefetchGone
  <2> HIDE DEF x, es
  <2>2. /\ z \in Entry /\ z.born = x.born /\ z.policy = x.policy /\ ~z.timer /\ z.cooling = x.cooling
        /\ z.loading = x.loading /\ z.seen = x.seen /\ ~z.refreshing
    BY <1>9 DEF Entry
  <2>3. CASE current = e
    <3>1. entries' = [entries EXCEPT ![e] = z] /\ current' = 0
      BY <1>8, <2>1, <2>3 DEF evictIfCurrent
    <3> HIDE DEF z
    <3> QED BY <1>9, <2>2, <2>3, <3>1
  <2>4. CASE current # e
    BY <1>8, <1>9, <2>1, <2>4 DEF evictIfCurrent
  <2> QED BY <2>3, <2>4
<1> QED BY <1>10, <1>11, <1>12, <1>13

-----------------------------------------------------------------------------
LEMMA TimersRun ==
    ASSUME CacheInv, NEW e \in DOMAIN entries, TimerFires(e) \/ WindowPasses(e) \/ Expire(e)
    PROVE  CacheInv'
<1>1. /\ StoreInv /\ marker \in BOOLEAN /\ entries[e] \in Entry /\ e # 0
      /\ flights \subseteq Flight /\ \A f, g \in flights : f.id = g.id => f = g
  BY StoreTypes DEF CacheInv, StoreInv, StoreType
<1>2. /\ UNCHANGED <<world, asked, marker, reader, stream>>
      /\ entries[e].timer => entries[e].policy # "off"
      /\ entries[e].cooling => entries[e].policy = "throttle"
      /\ current = e /\ entries[e].refreshing => Reloads(e)
  BY <1>1 DEF TimerFires, WindowPasses, Expire, StoreInv, StoreType, OwnerInv
<1>3. CASE TimerFires(e)
  <2> DEFINE y == [entries[e] EXCEPT !.timer = FALSE, !.cooling = FALSE]
             es == [entries EXCEPT ![e].timer = FALSE, ![e].cooling = FALSE]
  <2>1. es = [entries EXCEPT ![e] = y]
    BY <1>1 DEF Entry
  <2>2. fireRefetch(es, e) /\ current' = current
    BY <1>3 DEF TimerFires
  <2>3. /\ y \in Entry /\ y.born = entries[e].born /\ y.policy = entries[e].policy
        /\ ~y.timer /\ ~y.cooling /\ y.refreshing = entries[e].refreshing
        /\ y.loading = entries[e].loading /\ y.seen = entries[e].seen
    BY <1>1 DEF Entry
  <2> HIDE DEF y, es
  <2>4. PICK x \in Entry :
               /\ entries' = [entries EXCEPT ![e] = x]
               /\ x.born = y.born /\ x.loading = y.loading /\ x.seen = y.seen /\ x.policy = y.policy
               /\ x.timer = y.timer /\ (x.cooling => x.policy = "throttle")
               /\ flights' \subseteq Flight /\ \A f, g \in flights' : f.id = g.id => f = g
               /\ flights \subseteq flights'
               /\ \A f \in flights' : f \in flights \/ (f.entry = e /\ f.kind = "refetch" /\ x.policy # "off")
               /\ x.refreshing => y.refreshing \/ \E f \in flights' : f.entry = e /\ f.kind = "refetch"
    BY <1>1, <2>1, <2>2, <2>3, Refetches
  <2>5. \A k \in DOMAIN entries : (Loads(k) => Loads(k)') /\ (Reloads(k) => Reloads(k)')
    BY <2>4 DEF Loads, Reloads
  <2>6. current' = e /\ x.refreshing => Reloads(e)'
    BY <1>2, <2>2, <2>3, <2>4, <2>5 DEF Reloads
  <2>7. /\ entries' = [entries EXCEPT ![e] = x] /\ x.born = entries[e].born /\ x.policy = entries[e].policy
        /\ x.timer => x.policy # "off" /\ (entries[e].timer \/ e = current)
        /\ x.loading = entries[e].loading /\ x.seen = entries[e].seen /\ (x.cooling => x.policy = "throttle")
    BY <2>3, <2>4
  <2>8. /\ flights' \subseteq Flight /\ \A f, g \in flights' : f.id = g.id => f = g
        /\ \A f \in flights' : f \in flights \/ (f.entry = e /\ f.kind = "refetch" /\ x.policy # "off")
    BY <2>4
  <2>9. /\ marker' \in BOOLEAN /\ (marker' => marker) /\ reader' = reader /\ asked' = asked
        /\ UNCHANGED <<world, stream>>
    BY <1>1, <1>2
  <2> HIDE DEF es
  <2> QED BY <2>2, <2>5, <2>6, <2>7, <2>8, <2>9, EntryTurns
<1>4. CASE WindowPasses(e) \/ Expire(e)
  <2>1. flights' = flights /\ \A k \in DOMAIN entries : (Loads(k) => Loads(k)') /\ (Reloads(k) => Reloads(k)')
    BY <1>4 DEF WindowPasses, Expire, Loads, Reloads
  <2>2. SUFFICES \E x \in Entry :
            /\ entries' = [entries EXCEPT ![e] = x]
            /\ x.born = entries[e].born /\ x.policy = entries[e].policy
            /\ (x.timer => entries[e].timer) /\ (x.cooling => entries[e].cooling)
            /\ current' = current \/ (current = e /\ current' = 0 /\ ~x.timer)
            /\ x.refreshing = entries[e].refreshing
            /\ x.loading = entries[e].loading /\ x.seen = entries[e].seen
    <3> SUFFICES ASSUME NEW x \in Entry,
            entries' = [entries EXCEPT ![e] = x],
            x.born = entries[e].born, x.policy = entries[e].policy,
            x.timer => entries[e].timer, x.cooling => entries[e].cooling,
            current' = current \/ (current = e /\ current' = 0 /\ ~x.timer),
            x.refreshing = entries[e].refreshing,
            x.loading = entries[e].loading, x.seen = entries[e].seen
                 PROVE  CacheInv'
      OBVIOUS
    <3>1. /\ x.timer => x.policy # "off" /\ (entries[e].timer \/ e = current)
          /\ x.cooling => x.policy = "throttle"
      BY <1>2
    <3>2. /\ marker' \in BOOLEAN /\ (marker' => marker) /\ reader' = reader /\ asked' = asked
          /\ UNCHANGED <<world, stream>>
      BY <1>1, <1>2
    <3>3. current' = e /\ x.refreshing => Reloads(e)'
      BY <1>1, <1>2, <2>1
    <3>4. flights' \subseteq Flight /\ (\A f, g \in flights' : f.id = g.id => f = g) /\ \A f \in flights' : f \in flights
      BY <1>1, <2>1
    <3> QED BY <2>1, <3>1, <3>2, <3>3, <3>4, EntryTurns
  <2>3. CASE WindowPasses(e)
    <3> DEFINE x == [entries[e] EXCEPT !.cooling = FALSE]
    <3>1. entries' = [entries EXCEPT ![e] = x] /\ current' = current
      BY <1>1, <2>3 DEF WindowPasses, Entry
    <3>2. /\ x \in Entry /\ x.born = entries[e].born /\ x.policy = entries[e].policy /\ ~x.cooling
          /\ x.timer = entries[e].timer /\ x.refreshing = entries[e].refreshing
          /\ x.loading = entries[e].loading /\ x.seen = entries[e].seen
      BY <1>1 DEF Entry
    <3> HIDE DEF x
    <3> QED BY <3>1, <3>2
  <2>4. CASE Expire(e)
    <3> DEFINE x == [entries[e] EXCEPT !.expiring = FALSE]
               z == [x EXCEPT !.timer = FALSE]
               es == [entries EXCEPT ![e].expiring = FALSE]
    <3>1. es = [entries EXCEPT ![e] = x] /\ evictIfCurrent(es, e)
      BY <1>1, <2>4 DEF Expire, Entry
    <3>2. /\ x \in Entry /\ x.born = entries[e].born /\ x.policy = entries[e].policy
          /\ x.cooling = entries[e].cooling
          /\ x.timer = entries[e].timer /\ x.refreshing = entries[e].refreshing
          /\ x.loading = entries[e].loading /\ x.seen = entries[e].seen
      BY <1>1 DEF Entry
    <3> HIDE DEF x, es
    <3>3. /\ z \in Entry /\ z.born = x.born /\ z.policy = x.policy /\ ~z.timer /\ z.cooling = x.cooling
          /\ z.refreshing = x.refreshing /\ z.loading = x.loading /\ z.seen = x.seen
      BY <3>2 DEF Entry
    <3>4. CASE current = e
      <4>1. entries' = [entries EXCEPT ![e] = z] /\ current' = 0
        BY <3>1, <3>4 DEF evictIfCurrent
      <4> HIDE DEF z
      <4> QED BY <3>2, <3>3, <3>4, <4>1
    <3>5. CASE current # e
      BY <3>1, <3>2, <3>5 DEF evictIfCurrent
    <3> QED BY <3>4, <3>5
  <2> QED BY <1>4, <2>3, <2>4
<1> QED BY <1>3, <1>4

LEMMA Invalidated ==
    ASSUME CacheInv, Invalidate
    PROVE  CacheInv'
<1>1. /\ StoreInv /\ ReaderInv /\ marker \in BOOLEAN /\ world \subseteq Writes /\ stream \in Stream
      /\ flights \subseteq Flight /\ \A f, g \in flights : f.id = g.id => f = g
      /\ Len(entries) \in Nat
  BY StoreTypes DEF CacheInv, StoreInv, StoreType
<1>2. UNCHANGED <<world, stream>> /\ asked' = world
  BY DEF Invalidate
<1>3. CASE current = 0
  <2>1. UNCHANGED <<entries, current, marker, flights, reader>>
    BY <1>3 DEF Invalidate
  <2>2. \A e \in DOMAIN entries : (Backed(e) => Backed(e)') /\ (Reloads(e) => Reloads(e)')
    BY <1>2, <2>1 DEF Backed, Loads, Reloads, StreamOwes
  <2>3. \A f \in flights' : \E g \in flights : /\ f.entry = g.entry /\ f.kind = g.kind
                                               /\ f.served => f.saw = world \/ (g.served /\ f.saw = g.saw)
    BY <2>1
  <2>4. StoreInv'
    BY <1>1, <1>2, <1>3, <2>1, <2>2, <2>3, CallsMove
  <2>5. \A e \in DOMAIN entries : reader.waits = e => Backed(e)'
    BY <1>1, <2>2 DEF ReaderInv
  <2>6. \A e \in DOMAIN entries' : current' # e
    BY <1>1, <1>3, <2>1, StoreTypes
  <2>7. ReaderInv'
    BY <1>1, <2>1, <2>5, <2>6, ReaderRests
  <2> QED BY <2>4, <2>7 DEF CacheInv
<1>4. CASE current # 0
  <2>1. PICK e \in DOMAIN entries : e = current /\ e # 0
    BY <1>1, <1>4, StoreTypes
  <2>2. /\ entries[e] \in Entry /\ reader.mounted \in BOOLEAN
        /\ entries[e].timer => entries[e].policy # "off"
        /\ entries[e].cooling => entries[e].policy = "throttle"
        /\ entries[e].refreshing => Reloads(e)
    BY <1>1, <2>1, StoreTypes DEF StoreInv, StoreType, OwnerInv, ReaderInv, Reader
  <2>3. CASE entries[e].policy = "off"
    <3>1. /\ current' = 0 /\ UNCHANGED <<entries, flights>> /\ reader' = Notified(reader)
          /\ marker' = (marker \/ reader.mounted)
      BY <1>4, <2>1, <2>3 DEF Invalidate
    <3>2. entries' = [entries EXCEPT ![e] = entries[e]]
      BY <1>1, <3>1, StoreTypes
    <3>3. \A k \in DOMAIN entries : (Loads(k) => Loads(k)') /\ (Reloads(k) => Reloads(k)')
      BY <3>1 DEF Loads, Reloads
    <3>4. marker' \in BOOLEAN /\ (marker' => marker \/ reader.mounted)
      BY <1>1, <2>2, <3>1
    <3>5. ~entries[e].timer /\ current' # e /\ (\A f \in flights' : f \in flights) /\ reader' = Notified(reader)
      BY <2>1, <2>2, <2>3, <3>1
    <3>6. flights' \subseteq Flight /\ \A f, g \in flights' : f.id = g.id => f = g
      BY <1>1, <3>1
    <3> QED BY <1>2, <2>1, <2>2, <3>1, <3>2, <3>3, <3>4, <3>5, <3>6, EntryTurns
  <2>4. CASE entries[e].policy # "off"
    <3>1. scheduleInvalidationRefetch(e) /\ UNCHANGED <<current, marker, reader>>
      BY <1>4, <2>1, <2>4 DEF Invalidate
    <3>2. CASE entries[e].policy = "debounce" \/ entries[e].cooling
      <4> DEFINE x == [entries[e] EXCEPT !.timer = TRUE]
      <4>1. entries' = [entries EXCEPT ![e] = x] /\ flights' = flights
        BY <2>2, <3>1, <3>2 DEF scheduleInvalidationRefetch, Entry
      <4>2. /\ x \in Entry /\ x.born = entries[e].born /\ x.policy = entries[e].policy
            /\ x.cooling = entries[e].cooling
            /\ x.timer /\ x.refreshing = entries[e].refreshing
            /\ x.loading = entries[e].loading /\ x.seen = entries[e].seen
        BY <2>2 DEF Entry
      <4> HIDE DEF x
      <4>3. \A k \in DOMAIN entries : (Loads(k) => Loads(k)') /\ (Reloads(k) => Reloads(k)')
        BY <4>1 DEF Loads, Reloads
      <4> QED BY <1>1, <1>2, <2>1, <2>2, <2>4, <3>1, <4>1, <4>2, <4>3, EntryTurns
    <3>3. CASE ~ (entries[e].policy = "debounce" \/ entries[e].cooling)
      <4>1. fireRefetch(entries, e)
        BY <3>1, <3>3 DEF scheduleInvalidationRefetch
      <4>2. entries = [entries EXCEPT ![e] = entries[e]]
        BY <1>1, StoreTypes
      <4>3. PICK x \in Entry :
               /\ entries' = [entries EXCEPT ![e] = x]
               /\ x.born = entries[e].born /\ x.loading = entries[e].loading
               /\ x.seen = entries[e].seen /\ x.policy = entries[e].policy
               /\ x.timer = entries[e].timer /\ (x.cooling => x.policy = "throttle")
               /\ flights' \subseteq Flight /\ \A f, g \in flights' : f.id = g.id => f = g
               /\ flights \subseteq flights'
               /\ \A f \in flights' : f \in flights \/ (f.entry = e /\ f.kind = "refetch" /\ x.policy # "off")
               /\ x.refreshing => entries[e].refreshing \/ \E f \in flights' : f.entry = e /\ f.kind = "refetch"
        BY <1>1, <2>2, <4>1, <4>2, Refetches
      <4>4. \A k \in DOMAIN entries : (Loads(k) => Loads(k)') /\ (Reloads(k) => Reloads(k)')
        BY <4>3 DEF Loads, Reloads
      <4>5. x.refreshing => Reloads(e)'
        BY <2>2, <4>3, <4>4 DEF Reloads
      <4> QED BY <1>1, <1>2, <2>1, <2>2, <2>4, <3>1, <4>3, <4>4, <4>5, EntryTurns
    <3> QED BY <3>2, <3>3
  <2> QED BY <2>3, <2>4
<1> QED BY <1>3, <1>4

LEMMA CacheStep == CacheInv /\ [Next]_vars => CacheInv'
<1> SUFFICES ASSUME CacheInv, [Next]_vars PROVE CacheInv'
  OBVIOUS
<1>1. CASE UNCHANGED vars
  BY <1>1 DEF vars, CacheInv, StoreInv, StoreType, Placed, ThisPage, OwnerInv, ReaderInv, Backed, Loads, Reloads, StreamOwes
<1>2. CASE Next
  <2>1. CASE (\E site \in CallSites[ThisPage] : ReadOnce(site)) \/ Mount \/ Rerun
    BY <2>1, PageReads
  <2>2. CASE Unmount \/ Navigate
    BY <2>2, ReaderGoes
  <2>3. CASE Invalidate
    BY <2>3, Invalidated
  <2>4. CASE \E e \in DOMAIN entries : TimerFires(e) \/ WindowPasses(e) \/ Expire(e)
    BY <2>4, TimersRun
  <2>5. CASE \E f \in flights : LoadResolves(f) \/ LoadRejects(f) \/ PlaceholderResolves(f)
    BY <2>5, PromiseSettles
  <2>6. CASE \E f \in flights : RefetchResolves(f) \/ RefetchFails(f) \/ RefetchGone(f)
    BY <2>6, RefetchLands
  <2>7. CASE StreamResolves
    BY <2>7, ChunkArrives
  <2>8. CASE StreamMiss \/ StreamEnds
    BY <2>8, StreamGivesUp
  <2>9. CASE (\E w \in Writes : Write(w)) \/ (\E f \in flights : Serve(f)) \/ ServeStream
    BY <2>9, ServerSteps
  <2> QED BY <1>2, <2>1, <2>2, <2>3, <2>4, <2>5, <2>6, <2>7, <2>8, <2>9 DEF Next
<1> QED BY <1>1, <1>2

LEMMA CacheSafe == Spec => []CacheInv
BY CacheInitially, CacheStep, PTL DEF Spec

-----------------------------------------------------------------------------
(* What follows from the invariant.                                        *)

LEMMA LoadsAirborne == \A e : Loads(e) => Airborne(e, {"load", "placeholder"}) # {}
BY DEF Loads, Airborne

LEMMA ReloadsAirborne == \A e : Reloads(e) => Airborne(e, {"load", "refetch"}) # {}
BY DEF Reloads, Airborne

(* The variables of one key keep their types, and a timer is armed only    *)
(* for an entry with a policy.                                             *)
THEOREM TheKeyIsTyped == Spec => []TypeOK
<1>1. CacheInv => TypeOK
  BY DEF CacheInv, StoreInv, StoreType, ReaderInv, TypeOK
<1> QED BY <1>1, CacheSafe, PTL

(* The entry in the store reloads only while a call for it is in the air,  *)
(* and the reload marker stands only for a key somebody has on screen:     *)
(* registerEntry, fireRefetch and settleRefetchFailure use up what they    *)
(* leave behind.                                                           *)
THEOREM NoReloadIsLeftBehind == Spec => []BookkeepingSound
<1>1. CacheInv => BookkeepingSound
  <2> SUFFICES ASSUME CacheInv PROVE RefreshingIsBacked /\ MarkerNeedsReader
    BY DEF BookkeepingSound
  <2>1. MarkerNeedsReader
    BY DEF CacheInv, ReaderInv, MarkerNeedsReader
  <2>2. current # 0 => current \in DOMAIN entries
    BY StoreTypes DEF CacheInv
  <2>3. RefreshingIsBacked
    BY <2>2, ReloadsAirborne DEF CacheInv, StoreInv, OwnerInv, RefreshingIsBacked
  <2> QED BY <2>1, <2>3
<1> QED BY <1>1, CacheSafe, PTL

(* A read that waits has its answer under way, though the entry it read    *)
(* was dropped, replaced or swept; only the placeholder of a page left     *)
(* before its stream ended is never answered.                              *)
THEOREM EveryReadIsAnswered == Spec => []WaitAnswered
<1>1. CacheInv => WaitAnswered
  <2> SUFFICES ASSUME CacheInv, reader.waits # 1 \/ stream.pc # "aborted", reader.waits # 0
               PROVE  \/ Airborne(reader.waits, {"load", "placeholder"}) # {}
                      \/ reader.waits = 1 /\ StreamOwes
    BY DEF WaitAnswered, ReadsAnswered
  <2>1. DOMAIN entries = 1 .. Len(entries) /\ Len(entries) \in Nat
    BY StoreTypes DEF CacheInv
  <2>2. reader.waits \in DOMAIN entries
    BY <2>1 DEF CacheInv, ReaderInv
  <2>3. Backed(reader.waits)
    BY <2>2 DEF CacheInv, ReaderInv
  <2> QED BY <2>3, LoadsAirborne DEF Backed
<1> QED BY <1>1, CacheSafe, PTL

(* An invalidate of a key without a policy is final, and a reader at rest  *)
(* shows what the entry in the store holds: neither is older than the last *)
(* invalidate and the last swap allow.                                     *)
THEOREM NothingStaleIsServed == Spec => []CallsFresh
<1>1. CacheInv => CallsFresh
  <2> SUFFICES ASSUME CacheInv, current # 0
               PROVE  /\ entries[current].born = "call" /\ entries[current].policy = "off" /\ ~entries[current].loading =>
                             asked \subseteq entries[current].seen
                      /\ /\ ReaderAtRest
                         /\ reader.read = current \/ entries[current].born = "chunk"
                         => reader.saw = entries[current].seen
    BY DEF CallsFresh, HardDropFresh, ReaderInSync
  <2>1. PICK e \in DOMAIN entries : e = current
    BY StoreTypes DEF CacheInv
  <2>2. entries[e].born = "call" /\ entries[e].policy = "off" /\ ~entries[e].loading =>
            asked \subseteq entries[e].seen
    BY <2>1 DEF CacheInv, StoreInv, OwnerInv
  <2>3. /\ ReaderAtRest
        /\ reader.read = e \/ entries[e].born = "chunk"
        => reader.saw = entries[e].seen
    BY <2>1 DEF CacheInv, ReaderInv, ReaderAtRest
  <2> QED BY <2>1, <2>2, <2>3
<1> QED BY <1>1, CacheSafe, PTL

-----------------------------------------------------------------------------
(* One entry owns the key at a time.                                       *)

Supplanted == \E f \in flights \ flights' : f.entry = current

LEMMA OwnerLeaves ==
    ASSUME CacheInv, Next, current # 0, current' # current
    PROVE  Invalidate \/ stream' # stream \/ Expire(current) \/ Supplanted
<1>1. CASE (\E site \in CallSites[ThisPage] : ReadOnce(site)) \/ Mount \/ Rerun \/ Unmount
  BY <1>1 DEF ReadOnce, Mount, Rerun, Unmount, read
<1>2. CASE \E e \in DOMAIN entries : TimerFires(e) \/ WindowPasses(e) \/ Expire(e)
  BY <1>2 DEF TimerFires, WindowPasses, Expire, evictIfCurrent
<1>3. CASE \E f \in flights : Serve(f) \/ PlaceholderResolves(f) \/ RefetchResolves(f) \/ RefetchFails(f)
  BY <1>3 DEF Serve, PlaceholderResolves, RefetchResolves, RefetchFails
<1>4. CASE \E f \in flights : LoadResolves(f) \/ LoadRejects(f) \/ RefetchGone(f)
  <2>1. PICK f \in flights : LoadResolves(f) \/ LoadRejects(f) \/ RefetchGone(f)
    BY <1>4
  <2>2. flights' = flights \ {f}
    BY <2>1 DEF LoadResolves, LoadRejects, RefetchGone
  <2>3. f.entry = current
    BY <2>1 DEF LoadResolves, LoadRejects, RefetchGone, evictIfCurrent
  <2> QED BY <2>2, <2>3 DEF Supplanted
<1>5. CASE StreamResolves
  <2>1. stream \in Stream
    BY StoreTypes DEF CacheInv
  <2>2. stream'.deferred = FALSE /\ stream.deferred = TRUE
    BY <1>5, <2>1 DEF StreamResolves, Stream
  <2> QED BY <2>2
<1>6. CASE StreamMiss \/ StreamEnds \/ Navigate \/ ServeStream \/ \E w \in Writes : Write(w)
  BY <1>6 DEF StreamMiss, StreamEnds, Navigate, ServeStream, Write
<1> QED BY <1>1, <1>2, <1>3, <1>4, <1>5, <1>6 DEF Next

(* A call that takes off is a load of the entry just made, one of the      *)
(* stream's, or a refetch of the entry whose timer or invalidate it is.    *)
LEMMA RefetchTakesOff ==
    ASSUME CacheInv, Next, NEW f \in flights', f.kind = "refetch", \A g \in flights : g.id # f.id
    PROVE  f.entry = current \/ \E e \in DOMAIN entries : e > f.entry /\ entries[e].born = "chunk"
<1>1. StoreInv /\ f \notin flights /\ Len(entries) \in Nat
  BY StoreTypes DEF CacheInv
<1>2. ASSUME NEW site, read(site) PROVE FALSE
  <2>1. current = 0 /\ Len(entries) < MaxEntries /\ takeOff(Len(entries) + 1, "load")
    BY <1>1, <1>2 DEF read
  <2>2. Len(entries) + 1 \in 1 .. MaxEntries
    BY <1>1, <2>1, StoreTypes
  <2>3. \E g \in Flight : flights' = flights \cup {g} /\ g.kind = "load"
    BY <1>1, <2>1, <2>2, TakesOff
  <2> QED BY <1>1, <2>3
<1>3. ASSUME takeOff(1, "placeholder"), stream.pc = "open" PROVE FALSE
  <2>1. 1 \in 1 .. MaxEntries
    BY <1>1, StoreTypes
  <2>2. \E g \in Flight : flights' = flights \cup {g} /\ g.kind = "placeholder"
    BY <1>1, <1>3, <2>1, TakesOff
  <2> QED BY <1>1, <2>2
<1>4. ASSUME NEW e \in DOMAIN entries, NEW es, fireRefetch(es, e) PROVE f.entry = e
  <2>1. takeOff(e, "refetch") /\ e \in 1 .. MaxEntries
    BY <1>1, <1>4, StoreTypes DEF fireRefetch
  <2>2. \E g \in Flight : flights' = flights \cup {g} /\ g.entry = e
    BY <1>1, <2>1, TakesOff
  <2> QED BY <1>1, <2>2
<1>5. CASE (\E site \in CallSites[ThisPage] : ReadOnce(site)) \/ Mount \/ Rerun
  BY <1>2, <1>5 DEF ReadOnce, Mount, Rerun
<1>6. CASE Invalidate
  <2>1. current # 0 /\ scheduleInvalidationRefetch(current)
    BY <1>1, <1>6 DEF Invalidate
  <2>2. PICK e \in DOMAIN entries : e = current
    BY <1>1, <2>1, StoreTypes
  <2>3. fireRefetch(entries, e)
    BY <1>1, <2>1, <2>2 DEF scheduleInvalidationRefetch
  <2> QED BY <1>4, <2>2, <2>3
<1>7. CASE \E e \in DOMAIN entries : TimerFires(e)
  <2>1. PICK e \in DOMAIN entries : TimerFires(e)
    BY <1>7
  <2>2. f.entry = e
    BY <1>4, <2>1 DEF TimerFires
  <2>3. entries[e].timer
    BY <2>1 DEF TimerFires
  <2> QED BY <1>1, <2>2, <2>3 DEF StoreInv, OwnerInv
<1>8. CASE \E g \in flights : Serve(g)
  <2>1. PICK g \in flights : Serve(g)
    BY <1>8
  <2>2. g \in Flight
    BY <1>1, StoreTypes
  <2>3. f = [g EXCEPT !.served = TRUE, !.saw = world]
    BY <1>1, <2>1 DEF Serve
  <2>4. f.id = g.id
    BY <2>2, <2>3 DEF Flight
  <2> QED BY <2>4
<1>9. CASE StreamMiss \/ StreamEnds
  <2>1. stream.pc = "open" /\ takeOff(1, "placeholder")
    BY <1>1, <1>9 DEF StreamMiss, StreamEnds
  <2> QED BY <1>3, <2>1
<1>10. CASE Unmount \/ Navigate \/ StreamResolves \/ ServeStream \/ (\E w \in Writes : Write(w))
            \/ \E e \in DOMAIN entries : WindowPasses(e) \/ Expire(e)
  BY <1>1, <1>10 DEF Unmount, Navigate, StreamResolves, ServeStream, Write, WindowPasses, Expire
<1>11. CASE \E g \in flights : \/ LoadResolves(g) \/ PlaceholderResolves(g) \/ RefetchResolves(g)
                               \/ LoadRejects(g) \/ RefetchFails(g) \/ RefetchGone(g)
  BY <1>1, <1>11 DEF LoadResolves, PlaceholderResolves, RefetchResolves, LoadRejects, RefetchFails, RefetchGone
<1> QED BY <1>5, <1>6, <1>7, <1>8, <1>9, <1>10, <1>11 DEF Next

(* An entry leaves the store by an invalidate, by the stream or for        *)
(* reasons of its own, and no entry but the one in the store takes a       *)
(* refetch to the air: evictIfCurrent and the timer's own check see to it. *)
THEOREM OneOwnerAtATime == Spec => OwnersKept
<1>1. CacheInv /\ [Next]_vars =>
        [current # 0 /\ current' # current =>
            \/ Invalidate
            \/ stream' # stream
            \/ Expire(current)
            \/ \E f \in flights \ flights' : f.entry = current]_vars
  BY OwnerLeaves DEF Supplanted
<1>2. CacheInv /\ [Next]_vars =>
        [\A f \in flights' : f.kind = "refetch" /\ (\A g \in flights : g.id # f.id) =>
            \/ f.entry = current
            \/ \E e \in DOMAIN entries : e > f.entry /\ entries[e].born = "chunk"]_vars
  BY RefetchTakesOff
<1> QED BY <1>1, <1>2, CacheSafe, PTL DEF Spec, OwnersKept, ReplacementKept, DeadNeverRefetches

=============================================================================
