---------------------------- MODULE SocketsProofs ---------------------------
(***************************************************************************)
(* Proofs about Sockets, for any readers, windows, messages, ws and ids,   *)
(* where a ws the tab closed has closed before the tab shows again.        *)
(***************************************************************************)
EXTENDS Sockets, SequenceTheorems, FiniteSetTheorems, TLAPS

-----------------------------------------------------------------------------
(* Data: the last n of a sequence, the retained tail, a seed.              *)
LEMMA LastOfType ==
    ASSUME NEW S, NEW s \in Seq(S), NEW n \in Nat
    PROVE  LastOf(n, s) \in Seq(S)
<1>1. Len(s) \in Nat
  OBVIOUS
<1>2. CASE Len(s) > n
  <2>1. Len(s) - n + 1 \in 1 .. Len(s) + 1
    BY <1>1, <1>2
  <2> QED BY <1>1, <1>2, <2>1, SubSeqProperties DEF LastOf
<1>3. CASE ~ (Len(s) > n)
  BY <1>1, <1>3, SubSeqProperties DEF LastOf
<1> QED BY <1>2, <1>3

LEMMA SnapshotType ==
    ASSUME published \in 0 .. MaxMessages, NEW count \in Nat
    PROVE  snapshotTail(count) \in Seq(Messages)
<1> DEFINE all == [n \in 1 .. published |-> n]
<1>1. all \in [1 .. published -> Messages] /\ published \in Nat
  BY SocketsAssumption DEF Messages
<1> HIDE DEF all
<1>2. all \in Seq(Messages)
  BY <1>1, SeqDef
<1>3. buffer \in Seq(Messages)
  BY <1>2, LastOfType, SocketsAssumption DEF buffer, all
<1> QED BY <1>3, LastOfType DEF snapshotTail

LEMMA TookType ==
    ASSUME NEW r \in Readers, NEW x \in Reader, NEW ns \in Seq(Messages)
    PROVE  /\ Took(r, x, ns) \in Reader
           /\ Took(r, x, ns).on = x.on /\ Took(r, x, ns).sub = x.sub
<1>1. Window[r] \in Nat
  BY SocketsAssumption
<1>2. LastOf(Window[r], x.seed \o ns) \in Seq(Messages) /\ LastOf(Window[r], x.window \o ns) \in Seq(Messages)
  BY <1>1, LastOfType, ConcatProperties DEF Reader
<1> QED BY <1>2 DEF Took, Reader

LEMMA CommitType ==
    ASSUME NEW x \in Reader
    PROVE  commit(x) \in Reader /\ commit(x).on = x.on /\ commit(x).sub = x.sub
<1>1. CASE ~ x.seeding
  BY <1>1 DEF commit
<1>2. CASE x.seeding
  <2> DEFINE w == IF x.seed # <<>> THEN x.seed ELSE x.window
  <2>1. w \in Seq(Messages)
    BY DEF Reader
  <2>2. commit(x) = [x EXCEPT !.seeding = FALSE, !.window = w, !.seed = <<>>, !.refreshing = FALSE]
    BY <1>2 DEF commit
  <2>3. <<>> \in Seq(Messages)
    OBVIOUS
  <2> HIDE DEF w
  <2> QED BY <2>1, <2>2, <2>3 DEF Reader
<1> QED BY <1>1, <1>2

(* What the dispatcher does to its end leaves the tab's end as it is.      *)
LEMMA FrameTypes ==
    ASSUME published \in 0 .. MaxMessages, NEW f \in ClientFrame
    PROVE  ReplayFrame(f) \in ServerFrame
BY SnapshotType DEF ReplayFrame, ClientFrame, ServerFrame

LEMMA JoinedType ==
    ASSUME published \in 0 .. MaxMessages, NEW k \in Conn, NEW f \in ClientFrame, f.sub \in SubIds
    PROVE  Joined(k, f) \in Conn /\ Joined(k, f).client = k.client
<1>1. Append(k.down, ReplayFrame(f)) \in Seq(ServerFrame)
  BY FrameTypes, AppendProperties DEF Conn
<1>2. k.joined \cup {f.sub} \in SUBSET SubIds
  BY DEF Conn
<1> QED BY <1>1, <1>2 DEF Joined, Conn

LEMMA JoinedAllType ==
    ASSUME published \in 0 .. MaxMessages, NEW k \in Conn
    PROVE  JoinedAll(k) \in Conn /\ JoinedAll(k).client = k.client
<1> DEFINE fs == k.loading
           all == [i \in DOMAIN fs |-> ReplayFrame(fs[i])]
           ids == {fs[i].sub : i \in DOMAIN fs}
<1>1. fs \in Seq(ClientFrame) /\ DOMAIN fs = 1 .. Len(fs) /\ Len(fs) \in Nat
  BY LenProperties DEF Conn
<1>2. \A i \in DOMAIN fs : fs[i] \in ClientFrame
  BY <1>1
<1>3. all \in [1 .. Len(fs) -> ServerFrame]
  BY <1>1, <1>2, FrameTypes
<1>4. ids \in SUBSET SubIds
  BY <1>2 DEF ClientFrame
<1>5. JoinedAll(k) = [k EXCEPT !.loading = <<>>, !.joined = k.joined \cup ids,
                               !.down = k.down \o all]
  BY DEF JoinedAll
<1> HIDE DEF all, ids
<1>6. all \in Seq(ServerFrame)
  BY <1>1, <1>3, SeqDef
<1>7. k.down \o all \in Seq(ServerFrame) /\ k.joined \cup ids \in SUBSET SubIds
      /\ <<>> \in Seq(ClientFrame)
  BY <1>4, <1>6, ConcatProperties DEF Conn
<1> QED BY <1>5, <1>7 DEF Conn

LEMMA LeftType ==
    ASSUME NEW k \in Conn, NEW f \in ClientFrame
    PROVE  Left(k, f) \in Conn /\ Left(k, f).client = k.client
<1> DEFINE frame == [type |-> "end", sub |-> f.sub, messages |-> <<>>]
<1>1. frame \in ServerFrame
  <2>1. <<>> \in Seq(Messages)
    OBVIOUS
  <2> QED BY <2>1 DEF ServerFrame, ClientFrame
<1>2. Append(k.down, frame) \in Seq(ServerFrame)
  BY <1>1, AppendProperties DEF Conn
<1>3. k.joined \ {f.sub} \in SUBSET SubIds
  BY DEF Conn
<1>4. Left(k, f) = [k EXCEPT !.joined = k.joined \ {f.sub}, !.down = Append(k.down, frame)]
  BY DEF Left
<1> HIDE DEF frame
<1> QED BY <1>2, <1>3, <1>4 DEF Conn

-----------------------------------------------------------------------------
(* Readers: who reads holds an id of its own, and nobody else holds any.   *)
ReaderIds ==
    /\ \A r \in Readers : IF reader[r].on THEN reader[r].sub \in SubIds ELSE reader[r].sub = NoSub
    /\ \A r, q \in Readers : reader[r].on /\ reader[q].on /\ r # q => reader[r].sub # reader[q].sub

(* A ws the tab has not closed is the channel's, a hidden tab has none, and *)
(* one that is closing closes while the tab is hidden.                     *)
Transport ==
    /\ \A c \in Conns : conns[c].client \in Up => ws = c
    /\ HiddenHoldsNone
    /\ \A c \in Conns : conns[c].client = "closing" => hidden

(* Over an open ws nothing is queued.                                      *)
OpenFlushed == ws # 0 /\ conns[ws].client = "open" => pending = <<>>

Queue == OpenFlushed /\ PendingTracked

IInv == /\ TypeOK /\ ReaderIds /\ Queue
        /\ PromptClose => Transport

LEMMA NoConnType == NoConn \in Conn /\ NoConn.client = "none" /\ NoConn.client \notin Up
<1>1. /\ <<>> \in Seq(ClientFrame) /\ <<>> \in Seq(ServerFrame) /\ {} \in SUBSET SubIds
  OBVIOUS
<1> QED BY <1>1 DEF NoConn, Conn, Up

LEMMA OffType == Off \in Reader /\ Off.on = FALSE /\ Off.sub = NoSub
<1>1. <<>> \in Seq(Messages)
  OBVIOUS
<1> QED BY <1>1 DEF Off, Reader

LEMMA Initially == Init => IInv
<1> SUFFICES ASSUME Init PROVE IInv
  OBVIOUS
<1>1. /\ reader = [r \in Readers |-> Off] /\ conns = [c \in Conns |-> NoConn]
      /\ hidden = FALSE /\ ws = 0 /\ pending = <<>> /\ subs = {}
      /\ deferred = FALSE /\ timers = 0 /\ published = 0 /\ loaded = ~ SlowLoad
  BY DEF Init
<1>2. TypeOK
  <2>1. reader \in [Readers -> Reader] /\ conns \in [Conns -> Conn]
    BY <1>1, OffType, NoConnType
  <2>2. subs = {reader[r].sub : r \in {q \in Readers : reader[q].on}}
    BY <1>1, OffType
  <2>3. pending \in Seq(ClientFrame) /\ loaded \in BOOLEAN
    BY <1>1, SocketsAssumption
  <2>4. ws \in 0 .. MaxConns /\ timers \in 0 .. MaxConns /\ published \in 0 .. MaxMessages
    BY <1>1, SocketsAssumption
  <2> QED BY <1>1, <2>1, <2>2, <2>3, <2>4 DEF TypeOK
<1>3. ReaderIds
  BY <1>1, OffType DEF ReaderIds
<1>4. Queue
  BY <1>1 DEF Queue, OpenFlushed, PendingTracked
<1>5. Transport
  BY <1>1, NoConnType DEF Transport, HiddenHoldsNone
<1> QED BY <1>2, <1>3, <1>4, <1>5 DEF IInv

-----------------------------------------------------------------------------
(* connect(): either nothing, or a new ws where none was the tab's.        *)
LEMMA ConnectProperties ==
    ASSUME conns \in [Conns -> Conn], ws \in 0 .. MaxConns, NEW h, NEW d, connect(h, d)
    PROVE  /\ conns' \in [Conns -> Conn] /\ ws' \in 0 .. MaxConns
           /\ \/ UNCHANGED <<ws, conns>>
              \/ /\ ~ h /\ (ws = 0 \/ conns[ws].client \notin Up)
                 /\ ws' \in Conns /\ conns'[ws'].client = "connecting"
                 /\ \A c \in Conns \ {ws'} : conns'[c] = conns[c]
<1>1. CASE connects(h, d)
  <2>1. /\ FreeConns # {} /\ ws' = CHOOSE c \in FreeConns : TRUE
        /\ conns' = [conns EXCEPT ![ws'].client = "connecting"]
    BY <1>1 DEF connect
  <2>2. ws' \in FreeConns
    BY <2>1, Zenon
  <2>3. ws' \in Conns /\ ws' \in 0 .. MaxConns /\ conns[ws'] \in Conn
    BY <2>2, SocketsAssumption DEF FreeConns, Conns
  <2>4. conns' \in [Conns -> Conn] /\ conns'[ws'].client = "connecting"
        /\ \A c \in Conns \ {ws'} : conns'[c] = conns[c]
    <3> DEFINE k == [conns[ws'] EXCEPT !.client = "connecting"]
    <3>1. k \in Conn /\ k.client = "connecting"
      BY <2>3 DEF Conn
    <3>2. conns' = [conns EXCEPT ![ws'] = k]
      BY <2>1
    <3> HIDE DEF k
    <3> QED BY <2>3, <3>1, <3>2
  <2> QED BY <1>1, <2>3, <2>4 DEF connects
<1>2. CASE ~ connects(h, d)
  BY <1>2 DEF connect
<1> QED BY <1>1, <1>2

LEMMA ConnectFlushes ==
    ASSUME conns \in [Conns -> Conn], ws \in 0 .. MaxConns, OpenFlushed,
           NEW h, NEW d, connect(h, d), pending' = pending
    PROVE  OpenFlushed'
BY ConnectProperties DEF OpenFlushed

LEMMA ConnectKeeps ==
    ASSUME conns \in [Conns -> Conn], ws \in 0 .. MaxConns, Transport,
           NEW h, NEW d, connect(h, d), hidden' => hidden /\ h,
           hidden' \/ \A c \in Conns : conns[c].client # "closing"
    PROVE  Transport'
<1>1. CASE UNCHANGED <<ws, conns>>
  BY <1>1 DEF Transport, HiddenHoldsNone
<1>2. CASE /\ ~ h /\ (ws = 0 \/ conns[ws].client \notin Up)
           /\ ws' \in Conns /\ conns'[ws'].client = "connecting"
           /\ \A c \in Conns \ {ws'} : conns'[c] = conns[c]
  <2>1. ~ hidden'
    BY <1>2
  <2>2. \A c \in Conns : c # 0 /\ conns[c].client \notin Up
    BY <1>2 DEF Transport, Conns
  <2>3. \A c \in Conns : conns'[c].client \in Up => ws' = c
    BY <1>2, <2>2
  <2>4. \A c \in Conns : conns'[c].client # "closing"
    BY <1>2, <2>1
  <2> QED BY <2>1, <2>3, <2>4 DEF Transport, HiddenHoldsNone
<1> QED BY <1>1, <1>2, ConnectProperties

(* A step of the server, or a frame received, leaves every client end.     *)
LEMMA ClientsKeep ==
    ASSUME \A c \in Conns : conns'[c].client = conns[c].client, ws \in 0 .. MaxConns,
           UNCHANGED <<hidden, ws, pending, subs>>
    PROVE  (Queue => Queue') /\ (Transport => Transport')
<1>1. ws # 0 => ws \in Conns
  BY SocketsAssumption DEF Conns
<1> QED BY <1>1 DEF Queue, OpenFlushed, PendingTracked, Transport, HiddenHoldsNone

LEMMA ReadersKeep ==
    ASSUME \A r \in Readers : reader'[r].on = reader[r].on /\ reader'[r].sub = reader[r].sub
    PROVE  /\ ReaderIds => ReaderIds'
           /\ {reader'[r].sub : r \in {q \in Readers : reader'[q].on}}
                = {reader[r].sub : r \in {q \in Readers : reader[q].on}}
<1>1. {q \in Readers : reader'[q].on} = {q \in Readers : reader[q].on}
  OBVIOUS
<1> QED BY <1>1 DEF ReaderIds

-----------------------------------------------------------------------------
LEMMA ReceivesKeeps == ASSUME IInv, NEW c \in Conns, Receives(c) PROVE IInv'
<1>0. TypeOK /\ ReaderIds /\ Queue /\ (PromptClose => Transport)
  BY DEF IInv
<1> DEFINE frame == Head(conns[c].down)
           heard(r) == reader[r].sub \in subs /\ (frame.type = "msg" \/ frame.sub = reader[r].sub)
<1>1. /\ conns[c].down # <<>> /\ conns' = [conns EXCEPT ![c].down = Tail(@)]
      /\ UNCHANGED <<tab, published, loaded>>
      /\ reader' = [r \in Readers |->
               IF ~ heard(r) THEN reader[r]
               ELSE IF frame.type = "replay" THEN commit(Took(r, reader[r], frame.messages))
               ELSE Took(r, reader[r], frame.messages)]
  BY DEF Receives
<1>2. conns[c] \in Conn /\ conns[c].down \in Seq(ServerFrame)
  BY <1>0 DEF TypeOK, Conn
<1>3. frame \in ServerFrame /\ Tail(conns[c].down) \in Seq(ServerFrame)
  BY <1>1, <1>2, HeadTailProperties
<1>4. frame.messages \in Seq(Messages)
  BY <1>3 DEF ServerFrame
<1> HIDE DEF frame
<1>5. ASSUME NEW r \in Readers
      PROVE  reader'[r] \in Reader /\ reader'[r].on = reader[r].on /\ reader'[r].sub = reader[r].sub
  <2>1. reader[r] \in Reader
    BY <1>0 DEF TypeOK
  <2>2. /\ Took(r, reader[r], frame.messages) \in Reader
        /\ Took(r, reader[r], frame.messages).on = reader[r].on
        /\ Took(r, reader[r], frame.messages).sub = reader[r].sub
    BY <1>4, <2>1, TookType
  <2>3. /\ commit(Took(r, reader[r], frame.messages)) \in Reader
        /\ commit(Took(r, reader[r], frame.messages)).on = reader[r].on
        /\ commit(Took(r, reader[r], frame.messages)).sub = reader[r].sub
    BY <2>2, CommitType
  <2> QED BY <1>1, <2>1, <2>2, <2>3
<1>6. conns' \in [Conns -> Conn] /\ \A k \in Conns : conns'[k].client = conns[k].client
  <2> DEFINE new == [conns[c] EXCEPT !.down = Tail(conns[c].down)]
  <2>1. new \in Conn /\ new.client = conns[c].client
    BY <1>2, <1>3 DEF Conn
  <2>2. conns' = [conns EXCEPT ![c] = new]
    BY <1>1
  <2> HIDE DEF new
  <2> QED BY <1>0, <2>1, <2>2 DEF TypeOK
<1>7. reader' \in [Readers -> Reader]
  BY <1>1, <1>5
<1>8. TypeOK'
  BY <1>0, <1>1, <1>5, <1>6, <1>7, ReadersKeep DEF TypeOK, tab
<1>9. ReaderIds'
  BY <1>0, <1>5, ReadersKeep
<1>10. Queue' /\ (PromptClose => Transport')
  BY <1>0, <1>1, <1>6, ClientsKeep DEF tab, TypeOK
<1> QED BY <1>8, <1>9, <1>10 DEF IInv

(* The server's steps change conns alone, besides what is published.       *)
LEMMA ServerKeeps ==
    ASSUME IInv, conns' \in [Conns -> Conn],
           \A c \in Conns : conns'[c].client = conns[c].client,
           UNCHANGED <<tab, reader>>, published' \in 0 .. MaxMessages, loaded' \in BOOLEAN
    PROVE  IInv'
<1>0. TypeOK /\ ReaderIds /\ Queue /\ (PromptClose => Transport)
  BY DEF IInv
<1>1. TypeOK' /\ ReaderIds'
  BY <1>0 DEF TypeOK, tab, ReaderIds
<1>2. Queue' /\ (PromptClose => Transport')
  BY <1>0, ClientsKeep DEF TypeOK, tab
<1> QED BY <1>1, <1>2 DEF IInv

LEMMA HandlesKeeps == ASSUME IInv, NEW c \in Conns, Handles(c) PROVE IInv'
<1> DEFINE frame == Head(conns[c].up)
           k == [conns[c] EXCEPT !.up = Tail(conns[c].up)]
           new == IF frame.type = "unsub" THEN Left(k, frame)
                  ELSE IF loaded THEN Joined(k, frame)
                  ELSE [k EXCEPT !.loading = Append(k.loading, frame)]
<1>1. /\ conns[c].up # <<>> /\ conns' = [conns EXCEPT ![c] = new]
      /\ UNCHANGED <<tab, reader, published, loaded>>
  BY DEF Handles
<1>2. TypeOK
  BY DEF IInv
<1>3. conns[c] \in Conn /\ conns[c].up \in Seq(ClientFrame)
  BY <1>2 DEF TypeOK, Conn
<1>4. frame \in ClientFrame /\ Tail(conns[c].up) \in Seq(ClientFrame)
  BY <1>1, <1>3, HeadTailProperties
<1>5. frame.sub \in SubIds
  BY <1>4 DEF ClientFrame
<1> HIDE DEF frame
<1>6. k \in Conn /\ k.client = conns[c].client
  BY <1>3, <1>4 DEF Conn
<1> HIDE DEF k
<1>7. [k EXCEPT !.loading = Append(k.loading, frame)] \in Conn
      /\ [k EXCEPT !.loading = Append(k.loading, frame)].client = k.client
  <2>1. Append(k.loading, frame) \in Seq(ClientFrame)
    BY <1>4, <1>6, AppendProperties DEF Conn
  <2> QED BY <1>6, <2>1 DEF Conn
<1>8. new \in Conn /\ new.client = conns[c].client
  BY <1>2, <1>4, <1>5, <1>6, <1>7, JoinedType, LeftType DEF TypeOK
<1> HIDE DEF new
<1>9. conns' \in [Conns -> Conn] /\ \A d \in Conns : conns'[d].client = conns[d].client
  BY <1>1, <1>2, <1>8 DEF TypeOK
<1> QED BY <1>1, <1>2, <1>9, ServerKeeps DEF TypeOK

LEMMA LoadsKeeps == ASSUME IInv, Loads PROVE IInv'
<1>1. TypeOK
  BY DEF IInv
<1>2. /\ conns' = [c \in Conns |-> IF conns[c].server # "open" THEN conns[c] ELSE JoinedAll(conns[c])]
      /\ loaded' = TRUE /\ UNCHANGED <<tab, reader, published>>
  BY DEF Loads
<1>3. \A c \in Conns : JoinedAll(conns[c]) \in Conn /\ JoinedAll(conns[c]).client = conns[c].client
  BY <1>1, JoinedAllType DEF TypeOK
<1>4. conns' \in [Conns -> Conn] /\ \A d \in Conns : conns'[d].client = conns[d].client
  BY <1>1, <1>2, <1>3 DEF TypeOK
<1> QED BY <1>1, <1>2, <1>4, ServerKeeps DEF TypeOK

LEMMA PublishKeeps == ASSUME IInv, Publish PROVE IInv'
<1> DEFINE frame == [type |-> "msg", sub |-> NoSub, messages |-> <<published + 1>>]
           told(k) == [k EXCEPT !.down = Append(k.down, frame)]
<1>1. TypeOK
  BY DEF IInv
<1>2. /\ published < MaxMessages /\ published' = published + 1
      /\ conns' = [c \in Conns |-> IF conns[c].joined = {} THEN conns[c] ELSE told(conns[c])]
      /\ UNCHANGED <<tab, reader, loaded>>
  BY DEF Publish
<1>3. published' \in 0 .. MaxMessages /\ published + 1 \in Messages
  BY <1>1, <1>2, SocketsAssumption DEF TypeOK, Messages
<1>4. frame \in ServerFrame
  <2>1. <<published + 1>> \in Seq(Messages)
    BY <1>3
  <2> QED BY <2>1 DEF ServerFrame
<1> HIDE DEF frame
<1>5. ASSUME NEW k \in Conn PROVE told(k) \in Conn /\ told(k).client = k.client
  <2>1. Append(k.down, frame) \in Seq(ServerFrame)
    BY <1>4, AppendProperties DEF Conn
  <2> QED BY <2>1 DEF Conn
<1> HIDE DEF told
<1>6. conns' \in [Conns -> Conn] /\ \A d \in Conns : conns'[d].client = conns[d].client
  BY <1>1, <1>2, <1>5 DEF TypeOK
<1> QED BY <1>1, <1>2, <1>3, <1>6, ServerKeeps DEF TypeOK

LEMMA ServerClosesKeeps == ASSUME IInv, NEW c \in Conns, ServerCloses(c) PROVE IInv'
<1> DEFINE new == [conns[c] EXCEPT !.server = "closed", !.up = <<>>, !.joined = {}, !.loading = <<>>]
<1>1. TypeOK
  BY DEF IInv
<1>2. conns' = [conns EXCEPT ![c] = new] /\ UNCHANGED <<tab, reader, published, loaded>>
  BY DEF ServerCloses
<1>3. new \in Conn /\ new.client = conns[c].client
  <2>1. <<>> \in Seq(ClientFrame) /\ {} \in SUBSET SubIds /\ conns[c] \in Conn
    BY <1>1 DEF TypeOK
  <2> QED BY <2>1 DEF Conn
<1> HIDE DEF new
<1>4. conns' \in [Conns -> Conn] /\ \A d \in Conns : conns'[d].client = conns[d].client
  BY <1>1, <1>2, <1>3 DEF TypeOK
<1> QED BY <1>1, <1>2, <1>4, ServerKeeps DEF TypeOK

-----------------------------------------------------------------------------
(* visibilitychange. *)
LEMMA HideKeeps == ASSUME IInv, Hide PROVE IInv'
<1>0. TypeOK /\ ReaderIds /\ Queue /\ (PromptClose => Transport)
  BY DEF IInv
<1>1. /\ hidden' = TRUE
      /\ conns' = IF ws # 0 THEN [conns EXCEPT ![ws].client = "closing"] ELSE conns
      /\ UNCHANGED <<ws, deferred, timers, pending, subs, reader, published, loaded>>
  BY DEF Hide
<1>2. ws # 0 => ws \in Conns
  BY <1>0, SocketsAssumption DEF TypeOK, Conns
<1>3. /\ conns' \in [Conns -> Conn]
      /\ ws # 0 => conns'[ws].client = "closing"
      /\ \A c \in Conns : c # ws => conns'[c] = conns[c]
  <2>1. CASE ws = 0
    BY <1>0, <1>1, <2>1 DEF TypeOK
  <2>2. CASE ws # 0
    <3> DEFINE new == [conns[ws] EXCEPT !.client = "closing"]
    <3>1. new \in Conn /\ new.client = "closing"
      BY <1>0, <1>2, <2>2 DEF TypeOK, Conn
    <3>2. conns' = [conns EXCEPT ![ws] = new]
      BY <1>1, <2>2
    <3> HIDE DEF new
    <3> QED BY <1>0, <1>2, <2>2, <3>1, <3>2 DEF TypeOK
  <2> QED BY <2>1, <2>2
<1>4. TypeOK' /\ ReaderIds'
  BY <1>0, <1>1, <1>3 DEF TypeOK, ReaderIds
<1>5. Queue'
  BY <1>0, <1>1, <1>3 DEF Queue, OpenFlushed, PendingTracked
<1>6. ASSUME PromptClose PROVE Transport'
  <2>1. \A c \in Conns : conns'[c].client \notin Up
    <3> TAKE c \in Conns
    <3>1. CASE c = ws
      <4>1. ws # 0
        BY <3>1, SocketsAssumption DEF Conns
      <4> QED BY <3>1, <4>1, <1>3 DEF Up
    <3>2. CASE c # ws
      BY <3>2, <1>0, <1>3, <1>6 DEF Transport
    <3> QED BY <3>1, <3>2
  <2> QED BY <2>1, <1>1 DEF Transport, HiddenHoldsNone
<1> QED BY <1>4, <1>5, <1>6 DEF IInv

LEMMA ShowKeeps == ASSUME IInv, Show PROVE IInv'
<1>0. TypeOK /\ ReaderIds /\ Queue /\ (PromptClose => Transport)
  BY DEF IInv
<1>1. hidden' = FALSE /\ UNCHANGED <<deferred, timers, pending, subs, reader, published, loaded>>
  BY DEF Show
<1>a. ~ hidden'
  BY <1>1
<1>b. PromptClose => \A c \in Conns : conns[c].client # "closing"
  BY DEF Show
<1>2. CASE pending # <<>> /\ connect(FALSE, deferred)
  <2>1. conns' \in [Conns -> Conn] /\ ws' \in 0 .. MaxConns
    BY <1>0, <1>2, ConnectProperties DEF TypeOK
  <2>2. TypeOK' /\ ReaderIds'
    BY <1>0, <1>1, <2>1 DEF TypeOK, ReaderIds
  <2>3. OpenFlushed'
    BY <1>0, <1>1, <1>2, ConnectFlushes DEF Queue, TypeOK
  <2>4. PendingTracked'
    BY <1>0, <1>1 DEF Queue, PendingTracked
  <2>5. PromptClose => Transport'
    BY <1>0, <1>a, <1>b, <1>2, ConnectKeeps DEF TypeOK
  <2> QED BY <2>2, <2>3, <2>4, <2>5 DEF IInv, Queue
<1>3. CASE UNCHANGED <<ws, conns>>
  <2>1. TypeOK' /\ ReaderIds'
    BY <1>0, <1>1, <1>3 DEF TypeOK, ReaderIds
  <2>3. Queue'
    BY <1>0, <1>1, <1>3 DEF Queue, OpenFlushed, PendingTracked
  <2>2. PromptClose => Transport'
    BY <1>0, <1>a, <1>b, <1>3 DEF Transport, HiddenHoldsNone
  <2> QED BY <2>1, <2>2, <2>3 DEF IInv
<1> QED BY <1>2, <1>3 DEF Show

LEMMA TimerKeeps == ASSUME IInv, TimerFires PROVE IInv'
<1>0. TypeOK /\ ReaderIds /\ Queue /\ (PromptClose => Transport)
  BY DEF IInv
<1>1. /\ timers > 0 /\ timers' = timers - 1 /\ deferred' = FALSE /\ connect(hidden, FALSE)
      /\ UNCHANGED <<hidden, pending, subs, reader, published, loaded>>
  BY DEF TimerFires
<1>2. conns' \in [Conns -> Conn] /\ ws' \in 0 .. MaxConns /\ timers' \in 0 .. MaxConns
  <2>1. conns' \in [Conns -> Conn] /\ ws' \in 0 .. MaxConns
    BY <1>0, <1>1, ConnectProperties DEF TypeOK
  <2>2. timers' \in 0 .. MaxConns
    BY <1>0, <1>1, SocketsAssumption DEF TypeOK
  <2> QED BY <2>1, <2>2
<1>3. TypeOK' /\ ReaderIds'
  BY <1>0, <1>1, <1>2 DEF TypeOK, ReaderIds
<1>4. OpenFlushed'
  BY <1>0, <1>1, ConnectFlushes DEF Queue, TypeOK
<1>5. PendingTracked'
  BY <1>0, <1>1 DEF Queue, PendingTracked
<1>6. PromptClose => Transport'
  <2> SUFFICES ASSUME PromptClose PROVE Transport'
    OBVIOUS
  <2>1. hidden' \/ \A c \in Conns : conns[c].client # "closing"
    BY <1>0, <1>1 DEF Transport
  <2> QED BY <1>0, <1>1, <2>1, ConnectKeeps DEF TypeOK
<1> QED BY <1>3, <1>4, <1>5, <1>6 DEF IInv, Queue

LEMMA OpensKeeps == ASSUME IInv, NEW c \in Conns, Opens(c) PROVE IInv'
<1>0. TypeOK /\ ReaderIds /\ Queue /\ (PromptClose => Transport)
  BY DEF IInv
<1> DEFINE k == [conns[c] EXCEPT !.client = "open", !.server = "open"]
           cs == [conns EXCEPT ![c] = k]
<1>1. /\ conns[c].client = "connecting"
      /\ IF ws # 0 /\ cs[ws].client = "open"
         THEN conns' = [cs EXCEPT ![ws].up = cs[ws].up \o pending] /\ pending' = <<>>
         ELSE conns' = cs /\ UNCHANGED pending
      /\ UNCHANGED <<hidden, ws, deferred, timers, subs, reader, published, loaded>>
  BY DEF Opens
<1>2. k \in Conn /\ k.client = "open"
  BY <1>0 DEF TypeOK, Conn
<1> HIDE DEF k
<1>3. cs \in [Conns -> Conn] /\ cs[c].client = "open" /\ \A d \in Conns : d # c => cs[d] = conns[d]
  BY <1>0, <1>2 DEF TypeOK
<1> HIDE DEF cs
<1>4. ws # 0 => ws \in Conns
  BY <1>0, SocketsAssumption DEF TypeOK, Conns
<1>5. /\ conns' \in [Conns -> Conn] /\ \A d \in Conns : conns'[d].client = cs[d].client
      /\ pending' \in Seq(ClientFrame) /\ OpenFlushed'
      /\ pending' = pending \/ pending' = <<>>
  <2>1. CASE ws # 0 /\ cs[ws].client = "open"
    <3> DEFINE new == [cs[ws] EXCEPT !.up = cs[ws].up \o pending]
    <3>1. cs[ws].up \o pending \in Seq(ClientFrame)
      BY <1>0, <1>3, <1>4, <2>1, ConcatProperties DEF TypeOK, Conn
    <3>2. new \in Conn /\ new.client = cs[ws].client
      BY <1>3, <1>4, <2>1, <3>1 DEF Conn
    <3>3. conns' = [cs EXCEPT ![ws] = new]
      BY <1>1, <2>1
    <3> HIDE DEF new
    <3>4. pending' = <<>>
      BY <1>1, <2>1
    <3> QED BY <1>3, <1>4, <2>1, <3>2, <3>3, <3>4 DEF OpenFlushed
  <2>2. CASE ~ (ws # 0 /\ cs[ws].client = "open")
    BY <1>0, <1>1, <1>3, <2>2 DEF OpenFlushed, TypeOK
  <2> QED BY <2>1, <2>2
<1>6. TypeOK' /\ ReaderIds'
  BY <1>0, <1>1, <1>5 DEF TypeOK, ReaderIds
<1>7. PendingTracked'
  BY <1>0, <1>1, <1>5 DEF Queue, PendingTracked
<1>8. PromptClose => Transport'
  BY <1>0, <1>1, <1>3, <1>5 DEF Transport, HiddenHoldsNone, Up
<1> QED BY <1>5, <1>6, <1>7, <1>8 DEF IInv, Queue

-----------------------------------------------------------------------------
(* send(): the frame goes out at once and nothing is queued, or it joins   *)
(* the queue.                                                              *)
LEMMA SendProperties ==
    ASSUME TypeOK, Queue, PromptClose => Transport, hidden' = hidden,
           NEW f \in ClientFrame, send(f)
    PROVE  /\ conns' \in [Conns -> Conn] /\ ws' \in 0 .. MaxConns
           /\ OpenFlushed' /\ (PromptClose => Transport')
           /\ pending' = <<>> \/ pending' = Append(pending, f)
<1>1. CASE ws # 0 /\ conns[ws].client = "open"
  <2> DEFINE new == [conns[ws] EXCEPT !.up = Append(conns[ws].up, f)]
  <2>1. conns' = [conns EXCEPT ![ws] = new] /\ UNCHANGED <<ws, pending>>
    BY <1>1 DEF send
  <2>2. ws \in Conns /\ pending = <<>>
    BY <1>1, SocketsAssumption DEF TypeOK, Conns, Queue, OpenFlushed
  <2>3. new \in Conn /\ new.client = conns[ws].client
    <3>1. conns[ws] \in Conn /\ Append(conns[ws].up, f) \in Seq(ClientFrame)
      BY <2>2, AppendProperties DEF TypeOK, Conn
    <3> QED BY <3>1 DEF Conn
  <2> HIDE DEF new
  <2>4. conns' \in [Conns -> Conn] /\ \A d \in Conns : conns'[d].client = conns[d].client
    BY <2>1, <2>2, <2>3 DEF TypeOK
  <2>5. PromptClose => Transport'
    BY <2>1, <2>4 DEF Transport, HiddenHoldsNone
  <2> QED BY <2>1, <2>2, <2>4, <2>5 DEF OpenFlushed, TypeOK
<1>2. CASE ~ (ws # 0 /\ conns[ws].client = "open")
  <2>1. pending' = Append(pending, f) /\ connect(hidden, deferred)
    BY <1>2 DEF send
  <2>2. conns' \in [Conns -> Conn] /\ ws' \in 0 .. MaxConns
    BY <2>1, ConnectProperties DEF TypeOK
  <2>3. OpenFlushed'
    BY <1>2, <2>1, ConnectProperties DEF TypeOK, OpenFlushed
  <2>4. PromptClose => Transport'
    <3> SUFFICES ASSUME PromptClose PROVE Transport'
      OBVIOUS
    <3>1. hidden' \/ \A c \in Conns : conns[c].client # "closing"
      BY DEF Transport
    <3> QED BY <2>1, <3>1, ConnectKeeps DEF TypeOK
  <2> QED BY <2>1, <2>2, <2>3, <2>4
<1> QED BY <1>1, <1>2

LEMMA OpenKeeps == ASSUME IInv, NEW r \in Readers, Open(r) PROVE IInv'
<1>0. TypeOK /\ ReaderIds /\ Queue /\ (PromptClose => Transport)
  BY DEF IInv
<1>1. PICK id \in SubIds :
          /\ Unused(id)
          /\ reader' = [reader EXCEPT ![r] = [Off EXCEPT !.on = TRUE, !.sub = id, !.seeding = TRUE]]
          /\ subs' = subs \cup {id}
          /\ send(SubFrame(r, id))
  BY DEF Open
<1>2. ~ reader[r].on /\ UNCHANGED <<hidden, deferred, timers, published, loaded>>
  BY DEF Open
<1> DEFINE f == SubFrame(r, id)
           new == [Off EXCEPT !.on = TRUE, !.sub = id, !.seeding = TRUE]
<1>3. f \in ClientFrame /\ f.sub = id
  BY SocketsAssumption DEF SubFrame, ClientFrame
<1>4. new \in Reader /\ new.on = TRUE /\ new.sub = id
  BY OffType DEF Reader
<1> HIDE DEF f, new
<1>5. /\ conns' \in [Conns -> Conn] /\ ws' \in 0 .. MaxConns
      /\ OpenFlushed' /\ (PromptClose => Transport')
      /\ pending' = <<>> \/ pending' = Append(pending, f)
  BY <1>0, <1>1, <1>2, <1>3, SendProperties DEF f
<1>6. reader' \in [Readers -> Reader] /\ reader'[r] = new /\ \A q \in Readers : q # r => reader'[q] = reader[q]
  BY <1>0, <1>1, <1>4 DEF TypeOK, new
<1>7. \A q \in Readers : reader[q].sub # id
  BY <1>1 DEF Unused
<1>8. subs' = {reader'[q].sub : q \in {p \in Readers : reader'[p].on}}
  <2>1. {p \in Readers : reader'[p].on} = {p \in Readers : reader[p].on} \cup {r}
    BY <1>2, <1>4, <1>6
  <2>2. \A q \in {p \in Readers : reader[p].on} : reader'[q] = reader[q]
    BY <1>2, <1>6
  <2>3. subs = {reader[q].sub : q \in {p \in Readers : reader[p].on}}
    BY <1>0 DEF TypeOK
  <2>4. {reader'[q].sub : q \in {p \in Readers : reader'[p].on}}
          = {reader[q].sub : q \in {p \in Readers : reader[p].on}} \cup {id}
    BY <1>4, <1>6, <2>1, <2>2
  <2> QED BY <1>1, <2>3, <2>4
<1>9. pending' \in Seq(ClientFrame)
  <2>1. <<>> \in Seq(ClientFrame) /\ pending \in Seq(ClientFrame)
    BY <1>0 DEF TypeOK
  <2>2. Append(pending, f) \in Seq(ClientFrame)
    BY <1>3, <2>1, AppendProperties
  <2> QED BY <1>5, <2>1, <2>2
<1>10. TypeOK'
  BY <1>0, <1>2, <1>5, <1>6, <1>8, <1>9 DEF TypeOK
<1>11. ReaderIds'
  BY <1>0, <1>4, <1>6, <1>7 DEF ReaderIds
<1>12. PendingTracked'
  <2>1. CASE pending' = <<>>
    BY <2>1 DEF PendingTracked
  <2>2. CASE pending' = Append(pending, f)
    <3>1. /\ Len(pending) \in Nat /\ DOMAIN pending = 1 .. Len(pending)
          /\ DOMAIN pending' = 1 .. Len(pending) + 1
          /\ \A i \in DOMAIN pending : i \in DOMAIN pending' /\ pending'[i] = pending[i]
          /\ pending'[Len(pending) + 1] = f
      BY <1>0, <1>3, <2>2, AppendProperties DEF TypeOK
    <3> SUFFICES ASSUME NEW i \in DOMAIN pending', pending'[i].type = "sub", pending'[i].sub \notin subs'
                 PROVE  \E j \in DOMAIN pending' : j > i /\ pending'[j].sub = pending'[i].sub
      BY DEF PendingTracked
    <3>2. i \in DOMAIN pending
      BY <1>1, <1>3, <3>1
    <3>3. PICK j \in DOMAIN pending : j > i /\ pending[j].sub = pending[i].sub
      BY <1>0, <1>1, <3>1, <3>2 DEF Queue, PendingTracked
    <3> QED BY <3>1, <3>2, <3>3
  <2> QED BY <1>5, <2>1, <2>2
<1> QED BY <1>5, <1>10, <1>11, <1>12 DEF IInv, Queue

LEMMA CloseKeeps == ASSUME IInv, NEW r \in Readers, Close(r) PROVE IInv'
<1>0. TypeOK /\ ReaderIds /\ Queue /\ (PromptClose => Transport)
  BY DEF IInv
<1> DEFINE id == reader[r].sub
           f == [type |-> "unsub", sub |-> id, replay |-> 0]
<1>1. reader[r].on /\ id \in subs /\ id \in SubIds
  BY <1>0 DEF Close, TypeOK, ReaderIds
<1>2. /\ reader' = [reader EXCEPT ![r] = Off] /\ subs' = subs \ {id} /\ send(f)
      /\ UNCHANGED <<hidden, deferred, timers, published, loaded>>
  BY <1>1 DEF Close
<1>3. f \in ClientFrame /\ f.sub = id
  BY <1>1 DEF ClientFrame
<1> HIDE DEF f
<1>5. /\ conns' \in [Conns -> Conn] /\ ws' \in 0 .. MaxConns
      /\ OpenFlushed' /\ (PromptClose => Transport')
      /\ pending' = <<>> \/ pending' = Append(pending, f)
  BY <1>0, <1>2, <1>3, SendProperties
<1>6. reader' \in [Readers -> Reader] /\ reader'[r] = Off /\ \A q \in Readers : q # r => reader'[q] = reader[q]
  BY <1>0, <1>2, OffType DEF TypeOK
<1>7. \A q \in Readers : q # r /\ reader[q].on => reader[q].sub # id
  BY <1>0, <1>1 DEF ReaderIds
<1>8. subs' = {reader'[q].sub : q \in {p \in Readers : reader'[p].on}}
  <2>1. {p \in Readers : reader'[p].on} = {p \in Readers : reader[p].on} \ {r}
    BY <1>6, OffType
  <2>2. \A q \in {p \in Readers : reader[p].on} : q # r => reader'[q] = reader[q]
    BY <1>6
  <2> QED BY <1>0, <1>1, <1>2, <1>7, <2>1, <2>2 DEF TypeOK
<1>9. pending' \in Seq(ClientFrame)
  <2>1. <<>> \in Seq(ClientFrame) /\ pending \in Seq(ClientFrame)
    BY <1>0 DEF TypeOK
  <2>2. Append(pending, f) \in Seq(ClientFrame)
    BY <1>3, <2>1, AppendProperties
  <2> QED BY <1>5, <2>1, <2>2
<1>10. TypeOK'
  BY <1>0, <1>2, <1>5, <1>6, <1>8, <1>9 DEF TypeOK
<1>11. ReaderIds'
  BY <1>0, <1>6, OffType DEF ReaderIds
<1>12. PendingTracked'
  <2>1. CASE pending' = <<>>
    BY <2>1 DEF PendingTracked
  <2>2. CASE pending' = Append(pending, f)
    <3>1. /\ Len(pending) \in Nat /\ DOMAIN pending = 1 .. Len(pending)
          /\ DOMAIN pending' = 1 .. Len(pending) + 1
          /\ \A i \in DOMAIN pending : i \in DOMAIN pending' /\ pending'[i] = pending[i]
          /\ pending'[Len(pending) + 1] = f
      BY <1>0, <1>3, <2>2, AppendProperties DEF TypeOK
    <3> SUFFICES ASSUME NEW i \in DOMAIN pending', pending'[i].type = "sub", pending'[i].sub \notin subs'
                 PROVE  \E j \in DOMAIN pending' : j > i /\ pending'[j].sub = pending'[i].sub
      BY DEF PendingTracked
    <3>2. i \in DOMAIN pending
      BY <3>1 DEF f
    <3>3. CASE pending[i].sub = id
      <4>1. Len(pending) + 1 \in DOMAIN pending' /\ Len(pending) + 1 > i
        BY <3>1, <3>2
      <4> QED BY <1>3, <3>1, <3>2, <3>3, <4>1
    <3>4. CASE pending[i].sub # id
      <4>1. PICK j \in DOMAIN pending : j > i /\ pending[j].sub = pending[i].sub
        BY <1>0, <1>2, <3>1, <3>2, <3>4 DEF Queue, PendingTracked
      <4> QED BY <3>1, <3>2, <4>1
    <3> QED BY <3>3, <3>4
  <2> QED BY <1>5, <2>1, <2>2
<1> QED BY <1>5, <1>10, <1>11, <1>12 DEF IInv, Queue

-----------------------------------------------------------------------------
(* close: the readers take fresh ids, and only their frames are queued.    *)
LEMMA OrderedFrames ==
    ASSUME NEW active \in SUBSET Readers, NEW fresh \in [active -> SubIds],
           NEW order \in SetToSeqs(active)
    PROVE  /\ SubFrames(order, fresh) \in Seq(ClientFrame)
           /\ \A i \in DOMAIN SubFrames(order, fresh) :
                 SubFrames(order, fresh)[i].sub \in {fresh[r] : r \in active}
<1> DEFINE n == Cardinality(active)
           fs == SubFrames(order, fresh)
<1>1. n \in Nat
  BY FS_Subset, FS_CardinalityType, SocketsAssumption
<1>2. order \in [1 .. n -> active]
  BY DEF SetToSeqs
<1> HIDE DEF n
<1>3. ASSUME NEW i \in 1 .. n
      PROVE  SubFrame(order[i], fresh[order[i]]) \in ClientFrame
             /\ SubFrame(order[i], fresh[order[i]]).sub \in {fresh[r] : r \in active}
  <2>1. order[i] \in active /\ order[i] \in Readers /\ fresh[order[i]] \in SubIds
    BY <1>2
  <2>2. Window[order[i]] \in Nat
    BY <2>1, SocketsAssumption
  <2> QED BY <2>1, <2>2 DEF SubFrame, ClientFrame
<1>4. fs = [i \in 1 .. n |-> SubFrame(order[i], fresh[order[i]])]
  BY <1>2 DEF SubFrames
<1> HIDE DEF fs
<1>5. fs \in [1 .. n -> ClientFrame] /\ DOMAIN fs = 1 .. n
  BY <1>3, <1>4
<1>6. fs \in Seq(ClientFrame)
  BY <1>1, <1>5, SeqDef
<1>7. \A i \in DOMAIN fs : fs[i].sub \in {fresh[r] : r \in active}
  BY <1>3, <1>4, <1>5
<1> QED BY <1>6, <1>7 DEF fs

LEMMA ClosesKeeps == ASSUME IInv, NEW c \in Conns, Closes(c) PROVE IInv'
<1>0. TypeOK /\ ReaderIds /\ Queue /\ (PromptClose => Transport)
  BY DEF IInv
<1> DEFINE active == {r \in Readers : reader[r].sub \in subs}
<1>1. PICK fresh \in [active -> SubIds] :
          IsInjective(fresh) /\ (\A r \in active : Unused(fresh[r])) /\ Restarts(active, fresh)
  BY DEF Closes
<1>2. /\ UNCHANGED <<deferred, timers>> \/ (timers < MaxConns /\ timers' = timers + 1 /\ deferred' = TRUE)
      /\ ws' = 0 /\ conns' = [conns EXCEPT ![c] = NoConn] /\ UNCHANGED <<hidden, published, loaded>>
  BY DEF Closes
<1>3. subs = {reader[r].sub : r \in {q \in Readers : reader[q].on}}
  BY <1>0 DEF TypeOK
<1>4. active = {r \in Readers : reader[r].on}
  <2>1. \A r \in Readers : reader[r].on => reader[r].sub \in subs
    BY <1>3
  <2>2. subs \subseteq SubIds
    BY <1>0, <1>3 DEF ReaderIds
  <2>3. \A r \in Readers : reader[r].sub \in subs => reader[r].on
    BY <1>0, <2>2, SocketsAssumption DEF ReaderIds
  <2> QED BY <2>1, <2>3
<1> HIDE DEF active
<1>5. active \in SUBSET Readers
  BY <1>4
<1>6. /\ subs' = {fresh[r] : r \in active}
      /\ reader' = [r \in Readers |->
            IF r \notin active THEN reader[r]
            ELSE [reader[r] EXCEPT !.sub = fresh[r], !.seeding = TRUE, !.seed = <<>>,
                                   !.refreshing = (reader[r].window # <<>>)]]
  BY <1>1 DEF Restarts, Resubscribed
<1>7. PICK order \in SetToSeqs(active) : pending' = SubFrames(order, fresh)
  BY <1>1 DEF Restarts
<1>8. /\ pending' \in Seq(ClientFrame)
      /\ \A i \in DOMAIN pending' : pending'[i].sub \in subs'
  BY <1>5, <1>6, <1>7, OrderedFrames
<1>9. ASSUME NEW r \in Readers
      PROVE  /\ reader'[r] \in Reader /\ reader'[r].on = reader[r].on
             /\ r \in active => reader'[r].sub = fresh[r] /\ fresh[r] \in SubIds
             /\ r \notin active => reader'[r] = reader[r]
  <2>1. reader[r] \in Reader
    BY <1>0 DEF TypeOK
  <2>2. CASE r \notin active
    BY <1>6, <2>1, <2>2
  <2>3. CASE r \in active
    <3> DEFINE shown == reader[r].window # <<>>
               new == [reader[r] EXCEPT !.sub = fresh[r], !.seeding = TRUE, !.seed = <<>>,
                                        !.refreshing = shown]
    <3>1. fresh[r] \in SubIds /\ shown \in BOOLEAN /\ <<>> \in Seq(Messages)
      BY <1>1, <2>3
    <3>2. reader'[r] = new
      BY <1>6, <2>3
    <3> HIDE DEF shown
    <3>3. new \in Reader /\ new.on = reader[r].on /\ new.sub = fresh[r]
      BY <2>1, <3>1 DEF Reader
    <3> HIDE DEF new
    <3> QED BY <2>3, <3>1, <3>2, <3>3
  <2> QED BY <2>2, <2>3
<1>10. reader' \in [Readers -> Reader]
  BY <1>6, <1>9
<1>11. subs' = {reader'[r].sub : r \in {q \in Readers : reader'[q].on}}
  <2>1. {q \in Readers : reader'[q].on} = active
    BY <1>4, <1>9
  <2>2. {reader'[r].sub : r \in active} = {fresh[r] : r \in active}
    BY <1>5, <1>9
  <2> QED BY <1>6, <2>1, <2>2
<1>12. conns' \in [Conns -> Conn] /\ conns'[c].client = "none" /\ \A d \in Conns : d # c => conns'[d] = conns[d]
  BY <1>0, <1>2, NoConnType DEF TypeOK
<1>13. timers' \in 0 .. MaxConns /\ deferred' \in BOOLEAN /\ ws' \in 0 .. MaxConns
  <2>1. timers \in 0 .. MaxConns /\ deferred \in BOOLEAN /\ MaxConns \in Nat
    BY <1>0, SocketsAssumption DEF TypeOK
  <2>2. CASE UNCHANGED <<deferred, timers>>
    BY <1>2, <2>1, <2>2
  <2>3. CASE timers < MaxConns /\ timers' = timers + 1 /\ deferred' = TRUE
    BY <1>2, <2>1, <2>3
  <2> QED BY <1>2, <2>2, <2>3
<1>14. TypeOK'
  BY <1>0, <1>2, <1>8, <1>10, <1>11, <1>12, <1>13 DEF TypeOK
<1>15. ReaderIds'
  <2>1. ASSUME NEW r \in Readers
        PROVE  IF reader'[r].on THEN reader'[r].sub \in SubIds ELSE reader'[r].sub = NoSub
    BY <1>0, <1>4, <1>9 DEF ReaderIds
  <2>2. ASSUME NEW r \in Readers, NEW q \in Readers, reader'[r].on, reader'[q].on, r # q
        PROVE  reader'[r].sub # reader'[q].sub
    <3>1. r \in active /\ q \in active
      BY <1>4, <1>9, <2>2
    <3>2. fresh[r] # fresh[q]
      BY <1>1, <2>2, <3>1 DEF IsInjective
    <3> QED BY <1>9, <3>1, <3>2
  <2> QED BY <2>1, <2>2 DEF ReaderIds
<1>16. Queue'
  BY <1>2, <1>8 DEF Queue, OpenFlushed, PendingTracked
<1>17. ASSUME PromptClose PROVE Transport'
  <2>1. Transport
    BY <1>0, <1>17
  <2>2. \A d \in Conns : conns'[d].client \notin Up
    <3> TAKE d \in Conns
    <3>1. CASE d = c
      BY <1>12, <3>1 DEF Up
    <3>2. CASE d # c /\ hidden
      BY <1>12, <2>1, <3>2 DEF Transport, HiddenHoldsNone
    <3>3. CASE d # c /\ ~ hidden
      <4>1. conns[c].client # "closing"
        BY <2>1, <3>3 DEF Transport
      <4>2. conns[c].client \in Up
        BY <4>1 DEF Closes, Up
      <4>3. conns[d].client \notin Up
        BY <2>1, <3>3, <4>2 DEF Transport
      <4> QED BY <1>12, <3>3, <4>3
    <3> QED BY <3>1, <3>2, <3>3
  <2>3. \A d \in Conns : conns'[d].client = "closing" => hidden'
    <3> TAKE d \in Conns
    <3>1. CASE d = c
      BY <1>12, <3>1
    <3>2. CASE d # c
      BY <1>2, <1>12, <2>1, <3>2 DEF Transport
    <3> QED BY <3>1, <3>2
  <2> QED BY <2>2, <2>3 DEF Transport, HiddenHoldsNone
<1> QED BY <1>14, <1>15, <1>16, <1>17 DEF IInv

-----------------------------------------------------------------------------
LEMMA Inductive == IInv /\ [Next]_vars => IInv'
<1> SUFFICES ASSUME IInv, [Next]_vars PROVE IInv'
  OBVIOUS
<1>1. ASSUME NEW r \in Readers, Open(r) \/ Close(r) PROVE IInv'
  BY <1>1, OpenKeeps, CloseKeeps
<1>2. ASSUME NEW c \in Conns,
             Opens(c) \/ Receives(c) \/ Closes(c) \/ Handles(c) \/ ServerCloses(c)
      PROVE  IInv'
  BY <1>2, OpensKeeps, ReceivesKeeps, ClosesKeeps, HandlesKeeps, ServerClosesKeeps
<1>3. CASE TimerFires \/ Hide \/ Show \/ Loads \/ Publish
  BY <1>3, TimerKeeps, HideKeeps, ShowKeeps, LoadsKeeps, PublishKeeps
<1>4. CASE UNCHANGED vars
  BY <1>4 DEF vars, tab, IInv, TypeOK, ReaderIds, Queue, OpenFlushed, PendingTracked, Transport,
              HiddenHoldsNone
<1> QED BY <1>1, <1>2, <1>3, <1>4 DEF Next

(* A channel never holds two ws it has not closed: it would have to be     *)
(* both of them.                                                           *)
LEMMA OneIsTheChannels == ASSUME TypeOK, Transport PROVE OneTransport
<1> DEFINE live == {c \in Conns : conns[c].client \in Up}
<1>1. live \subseteq {ws}
  BY DEF Transport
<1>2. IsFiniteSet({ws}) /\ Cardinality({ws}) = 1
  BY FS_Singleton
<1>3. Cardinality(live) <= Cardinality({ws}) /\ IsFiniteSet(live)
  BY <1>1, <1>2, FS_Subset
<1>4. Cardinality(live) \in Nat
  BY <1>3, FS_CardinalityType
<1> QED BY <1>2, <1>3, <1>4 DEF OneTransport

(* The strengthening holds of every behaviour of the channel and its       *)
(* dispatcher (socketChannel, createSocketDispatcher).                     *)
THEOREM Invariance == Spec => []IInv
BY Initially, Inductive, PTL DEF Spec

(* Every variable keeps its type, and the channel routes exactly to the    *)
(* readers there are: subs is never stale (socketChannel's subs map).      *)
THEOREM RoutesToReaders == Spec => []TypeOK
<1>1. IInv => TypeOK
  BY DEF IInv
<1> QED BY <1>1, Invariance, PTL

(* A sub frame waits only for a subscription the tab still has, or with    *)
(* its unsub behind it, whatever is hidden, cut and queued on the way.     *)
THEOREM QueueIsTracked == Spec => []PendingTracked
<1>1. IInv => PendingTracked
  BY DEF IInv, Queue
<1> QED BY <1>1, Invariance, PTL

(* Where a ws the tab closed has closed before the tab shows again, the    *)
(* channel never holds two ws, and leaks no subscription.                  *)
THEOREM NothingLeaks == ASSUME PromptClose PROVE Spec => []TransportSound
<1>1. IInv => TransportSound
  BY OneIsTheChannels DEF IInv, Queue, TransportSound
<1> QED BY <1>1, Invariance, PTL

(* Under the same condition, a hidden tab holds no ws (visibilitychange).  *)
THEOREM HiddenTabsLetGo == ASSUME PromptClose PROVE Spec => []HiddenHoldsNone
<1>1. IInv => HiddenHoldsNone
  BY DEF IInv, Transport
<1> QED BY <1>1, Invariance, PTL

-----------------------------------------------------------------------------
(* Data: ends of sequences, and what a frame leaves of them.               *)
Least(a, b) == IF a < b THEN a ELSE b

(* The last n elements of s are the n messages up to q.                    *)
Ends(s, q, n) == n <= Len(s) /\ \A i \in 0 .. n - 1 : s[Len(s) - i] = q - i

(* How many of the messages up to q reader r has a right to.               *)
Kept(r, q) == Least(Window[r], Least(Retention, q))

LEMMA TailFacts ==
    ASSUME NEW S, NEW s \in Seq(S), s # <<>>
    PROVE  /\ Len(s) \in Nat /\ 1 \in DOMAIN s /\ Head(s) = s[1] /\ s[1] \in S
           /\ Tail(s) \in Seq(S)
           /\ \A j \in DOMAIN Tail(s) : j \in Nat /\ j >= 1 /\ j + 1 \in DOMAIN s /\ Tail(s)[j] = s[j + 1]
           /\ \A j \in DOMAIN s : j \in Nat /\ j >= 1 /\ (j > 1 => j - 1 \in DOMAIN Tail(s) /\ Tail(s)[j - 1] = s[j])
<1> DEFINE n == Len(s)
<1>1. n \in Nat /\ DOMAIN s = 1 .. n /\ n >= 1
  BY LenProperties, EmptySeq
<1>2. Head(s) = s[1] /\ Tail(s) \in Seq(S) /\ Len(Tail(s)) = n - 1
  BY HeadTailProperties
<1>3. \A j \in 1 .. n - 1 : Tail(s)[j] = s[j + 1]
  BY HeadTailProperties
<1>4. DOMAIN Tail(s) = 1 .. n - 1
  BY <1>2, LenProperties
<1>5. s[1] \in S
  BY <1>1, ElementOfSeq
<1> HIDE DEF n
<1>6. \A j \in 1 .. n : j > 1 => j - 1 \in 1 .. n - 1 /\ Tail(s)[j - 1] = s[j]
  <2> SUFFICES ASSUME NEW j \in 1 .. n, j > 1 PROVE j - 1 \in 1 .. n - 1 /\ Tail(s)[j - 1] = s[j]
    OBVIOUS
  <2>1. j - 1 \in 1 .. n - 1 /\ (j - 1) + 1 = j
    BY <1>1
  <2> QED BY <1>3, <2>1
<1> QED BY <1>1, <1>2, <1>3, <1>4, <1>5, <1>6 DEF n

LEMMA AppendFacts ==
    ASSUME NEW S, NEW s \in Seq(S), NEW x \in S
    PROVE  /\ Append(s, x) \in Seq(S) /\ Len(s) + 1 \in DOMAIN Append(s, x) /\ Append(s, x)[Len(s) + 1] = x
           /\ \A j \in DOMAIN Append(s, x) : j \in Nat /\ (j \in DOMAIN s \/ j = Len(s) + 1)
           /\ \A j \in DOMAIN s : j \in DOMAIN Append(s, x) /\ Append(s, x)[j] = s[j] /\ j < Len(s) + 1 /\ j \in Nat
<1> DEFINE n == Len(s)
<1>1. /\ n \in Nat /\ DOMAIN s = 1 .. n
      /\ Append(s, x) \in Seq(S) /\ Len(Append(s, x)) = n + 1
      /\ Append(s, x)[n + 1] = x /\ \A j \in 1 .. n : Append(s, x)[j] = s[j]
  BY LenProperties, AppendProperties
<1>2. DOMAIN Append(s, x) = 1 .. n + 1
  BY <1>1, LenProperties
<1> HIDE DEF n
<1> QED BY <1>1, <1>2 DEF n

LEMMA ConcatFacts ==
    ASSUME NEW S, NEW s \in Seq(S), NEW t \in Seq(S), NEW u, u = s \o t
    PROVE  /\ u \in Seq(S) /\ Len(s) \in Nat /\ Len(t) \in Nat /\ Len(u) = Len(s) + Len(t)
           /\ \A j \in DOMAIN s : j \in Nat /\ j <= Len(s) /\ j \in DOMAIN u /\ u[j] = s[j]
           /\ \A j \in DOMAIN t : j \in Nat /\ j >= 1 /\ Len(s) + j \in DOMAIN u /\ u[Len(s) + j] = t[j]
           /\ \A j \in DOMAIN u : j \in DOMAIN s \/ \E i \in DOMAIN t : j = Len(s) + i
<1> DEFINE n == Len(s)
           m == Len(t)
<1>1. /\ n \in Nat /\ m \in Nat /\ DOMAIN s = 1 .. n /\ DOMAIN t = 1 .. m
      /\ s \o t \in Seq(S) /\ Len(s \o t) = n + m
      /\ \A i \in 1 .. n + m : (s \o t)[i] = IF i <= n THEN s[i] ELSE t[i - n]
  BY ONLY s \in Seq(S), t \in Seq(S), LenProperties, ConcatProperties
<1>2. /\ u \in Seq(S) /\ Len(u) = n + m /\ DOMAIN u = 1 .. n + m
      /\ \A i \in 1 .. n + m : u[i] = IF i <= n THEN s[i] ELSE t[i - n]
  BY <1>1, LenProperties
<1> HIDE DEF n, m
<1>3. \A j \in 1 .. m : n + j \in 1 .. n + m /\ u[n + j] = t[j]
  <2> SUFFICES ASSUME NEW j \in 1 .. m PROVE n + j \in 1 .. n + m /\ u[n + j] = t[j]
    OBVIOUS
  <2>1. n + j \in 1 .. n + m /\ ~(n + j <= n) /\ (n + j) - n = j
    BY <1>1
  <2> QED BY <1>2, <2>1
<1>4. \A j \in 1 .. n + m : j \in 1 .. n \/ \E i \in 1 .. m : j = n + i
  <2> SUFFICES ASSUME NEW j \in 1 .. n + m, j \notin 1 .. n PROVE \E i \in 1 .. m : j = n + i
    OBVIOUS
  <2>1. j - n \in 1 .. m /\ j = n + (j - n)
    BY <1>1
  <2> QED BY <2>1
<1>5. \A j \in 1 .. n : j \in Nat /\ j <= n /\ j \in 1 .. n + m /\ u[j] = s[j]
  BY <1>1, <1>2
<1>6. \A j \in DOMAIN s : j \in Nat /\ j <= n /\ j \in DOMAIN u /\ u[j] = s[j]
  BY ONLY <1>1, <1>2, <1>5
<1>7. \A j \in DOMAIN t : j \in Nat /\ j >= 1 /\ n + j \in DOMAIN u /\ u[n + j] = t[j]
  BY ONLY <1>1, <1>2, <1>3
<1>8. \A j \in DOMAIN u : j \in DOMAIN s \/ \E i \in DOMAIN t : j = n + i
  BY ONLY <1>1, <1>2, <1>4
<1>9. u \in Seq(S) /\ n \in Nat /\ m \in Nat /\ Len(u) = n + m
  BY ONLY <1>1, <1>2
<1> QED BY ONLY <1>6, <1>7, <1>8, <1>9, Zenon DEF n, m

LEMMA LastOfFacts ==
    ASSUME NEW S, NEW s \in Seq(S), NEW n \in Nat
    PROVE  /\ LastOf(n, s) \in Seq(S) /\ Len(LastOf(n, s)) = Least(n, Len(s)) /\ Len(s) \in Nat
           /\ \A i \in 0 .. Len(LastOf(n, s)) - 1 : LastOf(n, s)[Len(LastOf(n, s)) - i] = s[Len(s) - i]
<1> DEFINE k == Len(s)
           first == IF k > n THEN k - n + 1 ELSE 1
           m == Least(n, k)
<1>1. k \in Nat /\ LastOf(n, s) = SubSeq(s, first, k) /\ m \in Nat
  BY LenProperties DEF LastOf, Least
<1> HIDE DEF k
<1>2. first \in 1 .. k + 1 /\ k - first + 1 = m /\ k \in first - 1 .. k /\ (first <= k => first >= 1)
  BY <1>1 DEF Least
<1> HIDE DEF first, m
<1>3. /\ SubSeq(s, first, k) \in Seq(S)
      /\ Len(SubSeq(s, first, k)) = m
      /\ \A i \in 1 .. m : SubSeq(s, first, k)[i] = s[first + i - 1]
  BY <1>1, <1>2, SubSeqProperties DEF k
<1>4. ASSUME NEW i \in 0 .. m - 1
      PROVE  SubSeq(s, first, k)[m - i] = s[k - i]
  <2>1. m - i \in 1 .. m /\ first + (m - i) - 1 = k - i
    BY <1>1, <1>2
  <2> QED BY <1>3, <2>1
<1> DEFINE t == LastOf(n, s)
<1>5. t \in Seq(S) /\ Len(t) = m /\ \A i \in 0 .. m - 1 : t[m - i] = s[k - i]
  BY <1>1, <1>3, <1>4
<1> HIDE DEF t
<1>6. \A i \in 0 .. Len(t) - 1 : t[Len(t) - i] = s[k - i]
  BY <1>5
<1> QED BY <1>1, <1>5, <1>6 DEF k, m, t

LEMMA LastOfLast ==
    ASSUME NEW S, NEW s \in Seq(S), NEW n \in Nat
    PROVE  /\ LastOf(n, s) \in Seq(S) /\ Len(LastOf(n, s)) <= n
           /\ s # <<>> /\ n >= 1 => LastOf(n, s) # <<>> /\ Last(LastOf(n, s)) = Last(s)
           /\ s = <<>> => LastOf(n, s) = <<>>
<1> DEFINE t == LastOf(n, s)
           m == Len(t)
           k == Len(s)
<1>1. /\ t \in Seq(S) /\ m = Least(n, k) /\ k \in Nat /\ m \in Nat
      /\ \A i \in 0 .. m - 1 : t[m - i] = s[k - i]
  BY LastOfFacts, LenProperties
<1>2. (s = <<>> <=> k = 0) /\ (t = <<>> <=> m = 0)
  BY <1>1, EmptySeq
<1>3. m >= 1 => Last(t) = Last(s)
  <2> SUFFICES ASSUME m >= 1 PROVE t[m] = s[k]
    BY DEF Last
  <2> HIDE DEF t, m, k
  <2> QED BY <1>1
<1> HIDE DEF t, m, k
<1>4. m <= n /\ (k # 0 /\ n >= 1 => m >= 1) /\ (k = 0 => m = 0)
  BY <1>1 DEF Least
<1> QED BY <1>1, <1>2, <1>3, <1>4 DEF t, m, k

LEMMA SnapshotFacts ==
    ASSUME published \in Nat, NEW n \in Nat
    PROVE  /\ Len(snapshotTail(n)) = Least(n, Least(Retention, published))
           /\ Ends(snapshotTail(n), published, Least(n, Least(Retention, published)))
<1> DEFINE all == [i \in 1 .. published |-> i]
           b == buffer
           t == snapshotTail(n)
           k == Least(Retention, published)
           m == Least(n, k)
<1>1. all \in Seq(Nat) /\ Len(all) = published /\ \A i \in 1 .. published : all[i] = i
  <2>1. all \in [1 .. published -> Nat]
    OBVIOUS
  <2>2. all \in Seq(Nat)
    BY <2>1, SeqDef
  <2>3. DOMAIN all = 1 .. published
    OBVIOUS
  <2> QED BY <2>2, <2>3, LenProperties
<1>2. Retention \in Nat
  BY SocketsAssumption
<1>3. /\ b = LastOf(Retention, all) /\ b \in Seq(Nat) /\ Len(b) = k
      /\ \A i \in 0 .. k - 1 : b[k - i] = all[published - i]
  <2>1. b = LastOf(Retention, all)
    BY DEF buffer
  <2> HIDE DEF all, b
  <2>2. b \in Seq(Nat) /\ Len(b) = k /\ \A i \in 0 .. Len(b) - 1 : b[Len(b) - i] = all[published - i]
    BY <1>1, <1>2, <2>1, LastOfFacts
  <2> HIDE DEF k
  <2> QED BY <2>1, <2>2
<1>4. t \in Seq(Nat) /\ Len(t) = m /\ \A i \in 0 .. m - 1 : t[m - i] = b[k - i]
  <2>1. t = LastOf(n, b)
    BY DEF snapshotTail
  <2> HIDE DEF t, b, k
  <2>2. b \in Seq(Nat) /\ Len(b) = k
    BY <1>3
  <2>3. /\ LastOf(n, b) \in Seq(Nat) /\ Len(LastOf(n, b)) = Least(n, Len(b))
        /\ \A i \in 0 .. Len(LastOf(n, b)) - 1 : LastOf(n, b)[Len(LastOf(n, b)) - i] = b[Len(b) - i]
    BY <2>2, LastOfFacts
  <2>4. Len(t) = m /\ t \in Seq(Nat) /\ \A i \in 0 .. Len(t) - 1 : t[Len(t) - i] = b[k - i]
    BY <2>1, <2>2, <2>3
  <2> HIDE DEF m
  <2> QED BY <2>4
<1>5. k \in Nat /\ k <= published /\ m \in Nat /\ m <= k
  BY <1>2 DEF Least
<1> HIDE DEF all, b, t, k
<1>6. \A i \in 0 .. m - 1 : t[m - i] = published - i
  <2> SUFFICES ASSUME NEW i \in 0 .. m - 1 PROVE t[m - i] = published - i
    OBVIOUS
  <2> HIDE DEF m
  <2>1. i \in 0 .. k - 1 /\ published - i \in 1 .. published
    BY <1>5
  <2>2. t[m - i] = b[k - i] /\ b[k - i] = all[published - i]
    BY <1>3, <1>4, <2>1
  <2> QED BY <1>1, <2>1, <2>2
<1> HIDE DEF m
<1>7. Ends(t, published, m)
  BY <1>4, <1>5, <1>6 DEF Ends
<1> QED BY <1>4, <1>7 DEF t, m, k

LEMMA EndsLess ==
    ASSUME NEW s, NEW q, NEW n \in Nat, NEW m \in Nat, m <= n, Ends(s, q, n), Len(s) \in Nat
    PROVE  Ends(s, q, m)
BY DEF Ends

LEMMA EndsLastOf ==
    ASSUME NEW S, NEW s \in Seq(S), NEW t \in Seq(S), NEW q, NEW n \in Nat, NEW w \in Nat,
           n <= w, Ends(t, q, n)
    PROVE  Ends(LastOf(w, s \o t), q, n)
<1> DEFINE u == s \o t
           v == LastOf(w, u)
           a == Len(s)
           b == Len(t)
           m == Len(v)
<1>1. /\ u \in Seq(S) /\ a \in Nat /\ b \in Nat /\ Len(u) = a + b
      /\ \A j \in DOMAIN t : u[a + j] = t[j]
  <2>1. u = s \o t
    OBVIOUS
  <2> HIDE DEF u
  <2> QED BY <2>1, ConcatFacts
<1>2. DOMAIN t = 1 .. b
  BY LenProperties
<1>3. v \in Seq(S) /\ m = Least(w, Len(u)) /\ \A i \in 0 .. m - 1 : v[m - i] = u[Len(u) - i]
  <2> HIDE DEF u
  <2> QED BY <1>1, LastOfFacts
<1>4. n <= b /\ \A i \in 0 .. n - 1 : t[b - i] = q - i
  BY DEF Ends
<1> HIDE DEF u, v, a, b, m
<1>5. n <= m /\ m \in Nat
  BY <1>1, <1>3, <1>4 DEF Least
<1>6. ASSUME NEW i \in 0 .. n - 1 PROVE v[m - i] = q - i
  <2>1. b - i \in 1 .. b /\ i \in 0 .. m - 1 /\ (a + b) - i = a + (b - i)
    BY <1>1, <1>4, <1>5
  <2>2. v[m - i] = u[(a + b) - i]
    BY <1>1, <1>3, <2>1
  <2>3. u[a + (b - i)] = t[b - i]
    BY <1>1, <1>2, <2>1
  <2> QED BY <1>4, <2>1, <2>2, <2>3
<1> QED BY <1>5, <1>6 DEF Ends, u, v, m

LEMMA EndsMore ==
    ASSUME NEW s \in Seq(Nat), NEW q \in Nat, NEW n \in Nat, Ends(s, q, n)
    PROVE  Ends(s \o <<q + 1>>, q + 1, n + 1)
<1> DEFINE t == <<q + 1>>
           u == s \o t
           a == Len(s)
<1>1. t \in Seq(Nat) /\ Len(t) = 1 /\ DOMAIN t = {1} /\ t[1] = q + 1
  OBVIOUS
<1> HIDE DEF t
<1>2. /\ u \in Seq(Nat) /\ a \in Nat /\ Len(u) = a + 1
      /\ \A j \in DOMAIN s : u[j] = s[j]
      /\ u[a + 1] = q + 1
  <2>1. u = s \o t
    OBVIOUS
  <2> HIDE DEF u
  <2>2. /\ u \in Seq(Nat) /\ a \in Nat /\ Len(u) = Len(s) + Len(t) /\ \A j \in DOMAIN s : u[j] = s[j]
        /\ \A j \in DOMAIN t : u[Len(s) + j] = t[j]
    <3>1. s \in Seq(Nat) /\ t \in Seq(Nat)
      BY <1>1
    <3>2. u \in Seq(Nat) /\ Len(s) \in Nat /\ Len(u) = Len(s) + Len(t)
      BY ONLY <2>1, <3>1, ConcatFacts
    <3>3. \A j \in DOMAIN s : u[j] = s[j]
      BY ONLY <2>1, <3>1, ConcatFacts
    <3>4. \A j \in DOMAIN t : u[Len(s) + j] = t[j]
      BY ONLY <2>1, <3>1, ConcatFacts
    <3> QED BY <3>2, <3>3, <3>4 DEF a
  <2> QED BY <1>1, <2>2
<1>3. DOMAIN s = 1 .. a
  BY LenProperties
<1>4. n <= a /\ \A i \in 0 .. n - 1 : s[a - i] = q - i
  BY DEF Ends
<1> HIDE DEF u, a
<1>5. ASSUME NEW i \in 0 .. n PROVE u[(a + 1) - i] = (q + 1) - i
  <2>1. CASE i = 0
    BY <1>2, <2>1
  <2>2. CASE i # 0
    <3>1. i - 1 \in 0 .. n - 1 /\ (a + 1) - i = a - (i - 1) /\ a - (i - 1) \in 1 .. a /\ (q + 1) - i = q - (i - 1)
      BY <1>2, <1>4, <2>2
    <3> QED BY <1>2, <1>3, <1>4, <3>1
  <2> QED BY <2>1, <2>2
<1>6. n + 1 <= Len(u) /\ (n + 1) - 1 = n
  BY <1>2, <1>4
<1>7. Ends(u, q + 1, n + 1)
  BY <1>2, <1>5, <1>6 DEF Ends
<1> QED BY <1>7 DEF u, t

LEMMA KeptFacts ==
    ASSUME NEW r \in Readers, NEW q \in Nat
    PROVE  /\ Kept(r, q) \in Nat /\ Kept(r, q) <= Window[r] /\ Window[r] \in Nat \ {0}
           /\ Kept(r, q + 1) <= Kept(r, q) + 1 /\ Kept(r, q + 1) \in Nat
BY SocketsAssumption DEF Kept, Least


-----------------------------------------------------------------------------
(* The line: the channel's ws. Every other one is free, and one that       *)
(* connects carries nothing.                                               *)
line == IF ws = 0 THEN NoConn ELSE conns[ws]

Connecting == [NoConn EXCEPT !.client = "connecting"]

Single ==
    /\ \A c \in Conns : c # ws => conns[c] = NoConn
    /\ ws # 0 => /\ conns[ws].client # "none"
                 /\ conns[ws].client = "connecting" => conns[ws] = Connecting

(* What is queued in a tab that shows has a ws to wait for, or a timer.    *)
Wakes ==
    /\ pending # <<>> /\ ~ hidden => ws # 0 \/ deferred
    /\ deferred => timers > 0

(* What a reader still owes to the frames under way. Frames of an id are   *)
(* its reader's; one that serves it is on the way, or has been taken.      *)
Own(fs, r, id) == \A i \in DOMAIN fs : fs[i].sub = id => fs[i] = SubFrame(r, id)

Asked(fs, id) == \E i \in DOMAIN fs : fs[i].sub = id

(* After i, fs holds the messages from h + 1 to p, and none before them.   *)
Feeds(fs, i, h, p) ==
    /\ \A j \in DOMAIN fs : j > i /\ fs[j].type = "msg" => Last(fs[j].messages) > h
    /\ \A q \in h + 1 .. p : \E j \in DOMAIN fs : j > i /\ fs[j].type = "msg" /\ Last(fs[j].messages) = q

Replays(f, id) == f.type = "replay" /\ f.sub = id

Seeds(fs, i, r, p) == \E h \in 0 .. p : Ends(fs[i].messages, h, Kept(r, h)) /\ Feeds(fs, i, h, p)

Follows(fs, r, x, p) ==
    ~ x.seeding /\ \E h \in 0 .. p : Ends(x.window, h, Kept(r, h)) /\ Feeds(fs, 0, h, p)

Served(k, r, x, p) ==
    /\ \A i \in DOMAIN k.down : Replays(k.down[i], x.sub) => x.sub \in k.joined /\ Seeds(k.down, i, r, p)
    /\ \/ Asked(k.up, x.sub) \/ Asked(k.loading, x.sub)
       \/ \E i \in DOMAIN k.down : Replays(k.down[i], x.sub)
       \/ x.sub \in k.joined /\ Follows(k.down, r, x, p)

Rides(k, queue, r, x, p) ==
    /\ Own(queue, r, x.sub) /\ Own(k.up, r, x.sub) /\ Own(k.loading, r, x.sub)
    /\ k.client \in {"none", "connecting"} => Asked(queue, x.sub)
    /\ k.client = "open" /\ k.server = "open" => Served(k, r, x, p)

(* The order of messages: a frame never carries an older one than what     *)
(* went before it, nor a live one than what came before it twice.          *)
UpTo(s, v) == s # <<>> => Last(s) <= v

Due(f) == IF f.type = "msg" THEN Last(f.messages) - 1 ELSE Last(f.messages)

Before(s, fs, p) ==
    UpTo(s, p) /\ \A j \in DOMAIN fs : fs[j].messages # <<>> => UpTo(s, Due(fs[j]))

Ordered(fs, p) ==
    /\ \A j \in DOMAIN fs : /\ fs[j].type = "msg" => Len(fs[j].messages) = 1
                            /\ fs[j].type = "end" => fs[j].messages = <<>>
                            /\ UpTo(fs[j].messages, p)
    /\ \A i, j \in DOMAIN fs : i < j /\ fs[j].messages # <<>> => UpTo(fs[i].messages, Due(fs[j]))

Paced(x, n, fs, p) ==
    /\ Len(x.window) <= n /\ Len(x.seed) <= n
    /\ Before(x.window, fs, p) /\ Before(x.seed, fs, p)
    /\ IF x.seeding THEN x.seed # <<>> => UpTo(x.window, Last(x.seed)) ELSE x.seed = <<>>

Riding == \A r \in Readers : reader[r].on => Rides(line, pending, r, reader[r], published)

Pacing == /\ Ordered(line.down, published)
          /\ \A r \in Readers : Paced(reader[r], Window[r], line.down, published)

FlowInv == Single /\ Wakes /\ Riding /\ Pacing

-----------------------------------------------------------------------------
(* Frames put behind fs by the dispatcher: what no ws has had, or one      *)
(* message more, that is published.                                        *)
New(f, p, v) ==
    IF v = p THEN /\ f.type # "msg"
                  /\ f.type = "end" => f.messages = <<>>
                  /\ f.messages # <<>> => Last(f.messages) = p
    ELSE f.type = "msg" /\ Len(f.messages) = 1 /\ Last(f.messages) = v

Grows(fs, us, p, v) ==
    /\ \A j \in DOMAIN fs : j \in DOMAIN us /\ us[j] = fs[j]
    /\ \A j \in DOMAIN us : j \notin DOMAIN fs => New(us[j], p, v) /\ \A i \in DOMAIN fs : i < j
    /\ v = p \/ (v = p + 1 /\ \E n \in DOMAIN us : \A j \in DOMAIN us : j \notin DOMAIN fs <=> j = n)

LEMMA Reading ==
    ASSUME NEW fs \in Seq(ServerFrame)
    PROVE  \A j \in DOMAIN fs : /\ j \in Nat /\ j >= 1 /\ fs[j] \in ServerFrame /\ fs[j].messages \in Seq(Messages)
                                /\ fs[j].messages # <<>> => Last(fs[j].messages) \in Nat
<1> SUFFICES ASSUME NEW j \in DOMAIN fs
             PROVE  /\ j \in Nat /\ j >= 1 /\ fs[j] \in ServerFrame /\ fs[j].messages \in Seq(Messages)
                    /\ fs[j].messages # <<>> => Last(fs[j].messages) \in Nat
  OBVIOUS
<1>1. j \in 1 .. Len(fs) /\ Len(fs) \in Nat
  BY LenProperties
<1>2. fs[j] \in ServerFrame /\ fs[j].messages \in Seq(Messages)
  <2>1. fs[j] \in ServerFrame
    BY <1>1, ElementOfSeq
  <2> QED BY <2>1 DEF ServerFrame
<1>3. fs[j].messages # <<>> => Last(fs[j].messages) \in Messages
  <2> DEFINE s == fs[j].messages
  <2>1. s \in Seq(Messages)
    BY <1>2
  <2> HIDE DEF s
  <2>2. s # <<>> => Len(s) \in 1 .. Len(s)
    BY <2>1, LenProperties, EmptySeq
  <2>3. s # <<>> => s[Len(s)] \in Messages
    BY <2>1, <2>2, ElementOfSeq
  <2> QED BY <2>3 DEF s, Last
<1> QED BY <1>1, <1>2, <1>3 DEF Messages

LEMMA GrowsOrdered ==
    ASSUME NEW fs \in Seq(ServerFrame), NEW us \in Seq(ServerFrame), NEW p \in Nat, NEW v \in Nat,
           Grows(fs, us, p, v), Ordered(fs, p)
    PROVE  Ordered(us, v)
<1>1. p <= v
  BY DEF Grows
<1>2. ASSUME NEW j \in DOMAIN us
      PROVE  /\ us[j].type = "msg" => Len(us[j].messages) = 1
             /\ us[j].type = "end" => us[j].messages = <<>>
             /\ UpTo(us[j].messages, v)
  <2>1. CASE j \in DOMAIN fs
    <3>1. us[j] = fs[j]
      BY <2>1 DEF Grows
    <3>2. fs[j].messages # <<>> => Last(fs[j].messages) \in Nat
      BY <2>1, Reading
    <3> QED BY <1>1, <2>1, <3>1, <3>2 DEF Ordered, UpTo
  <2>2. CASE j \notin DOMAIN fs
    <3>1. New(us[j], p, v)
      BY <2>2 DEF Grows
    <3> QED BY <3>1, Reading DEF New, UpTo
  <2> QED BY <2>1, <2>2
<1>3. ASSUME NEW i \in DOMAIN us, NEW j \in DOMAIN us, i < j, us[j].messages # <<>>
      PROVE  UpTo(us[i].messages, Due(us[j]))
  <2>1. CASE j \in DOMAIN fs
    <3>1. i \in DOMAIN fs
      <4> SUFFICES ASSUME i \notin DOMAIN fs PROVE FALSE
        OBVIOUS
      <4>1. j < i
        BY <2>1 DEF Grows
      <4> QED BY <1>3, <4>1, Reading
    <3>2. us[i] = fs[i] /\ us[j] = fs[j]
      BY <2>1, <3>1 DEF Grows
    <3> QED BY <1>3, <2>1, <3>1, <3>2 DEF Ordered
  <2>2. CASE j \notin DOMAIN fs
    <3>1. New(us[j], p, v)
      BY <2>2 DEF Grows
    <3>2. Due(us[j]) = p
      <4>1. CASE v = p
        BY <1>3, <3>1, <4>1 DEF New, Due
      <4>2. CASE v # p
        <5>1. v = p + 1
          BY <4>2 DEF Grows
        <5>2. us[j].type = "msg" /\ Last(us[j].messages) = v
          BY <3>1, <4>2 DEF New
        <5> QED BY <5>1, <5>2 DEF Due
      <4> QED BY <4>1, <4>2
    <3>3. UpTo(us[i].messages, p)
      <4>1. CASE i \in DOMAIN fs
        BY <4>1 DEF Grows, Ordered
      <4>2. CASE i \notin DOMAIN fs
        <5>1. v = p
          <6> SUFFICES ASSUME v # p PROVE FALSE
            OBVIOUS
          <6>1. i = j
            BY <2>2, <4>2 DEF Grows
          <6> QED BY <1>3, <6>1, Reading
        <5>2. New(us[i], p, v)
          BY <4>2 DEF Grows
        <5> QED BY <5>1, <5>2 DEF New, UpTo
      <4> QED BY <4>1, <4>2
    <3> QED BY <3>2, <3>3
  <2> QED BY <2>1, <2>2
<1> QED BY <1>2, <1>3 DEF Ordered

LEMMA GrowsPaced ==
    ASSUME NEW fs \in Seq(ServerFrame), NEW us \in Seq(ServerFrame), NEW p \in Nat, NEW v \in Nat,
           Grows(fs, us, p, v), NEW x \in Reader, NEW n, Paced(x, n, fs, p)
    PROVE  Paced(x, n, us, v)
<1>1. p <= v
  BY DEF Grows
<1>2. ASSUME NEW s \in Seq(Messages), Before(s, fs, p)
      PROVE  Before(s, us, v)
  <2>0. s # <<>> => Last(s) \in Nat
    <3>1. s # <<>> => Len(s) \in 1 .. Len(s)
      BY LenProperties, EmptySeq
    <3>2. s # <<>> => s[Len(s)] \in Messages
      BY <3>1, ElementOfSeq
    <3> QED BY <3>2 DEF Last, Messages
  <2>1. UpTo(s, v)
    BY <1>1, <1>2, <2>0 DEF Before, UpTo
  <2>2. ASSUME NEW j \in DOMAIN us, us[j].messages # <<>>
        PROVE  UpTo(s, Due(us[j]))
    <3>1. CASE j \in DOMAIN fs
      <4>1. us[j] = fs[j]
        BY <3>1 DEF Grows
      <4> QED BY <1>2, <2>2, <3>1, <4>1 DEF Before
    <3>2. CASE j \notin DOMAIN fs
      <4>1. New(us[j], p, v)
        BY <3>2 DEF Grows
      <4>2. Due(us[j]) = p
        <5>1. CASE v = p
          BY <2>2, <4>1, <5>1 DEF New, Due
        <5>2. CASE v # p
          <6>1. v = p + 1
            BY <5>2 DEF Grows
          <6>2. us[j].type = "msg" /\ Last(us[j].messages) = v
            BY <4>1, <5>2 DEF New
          <6> QED BY <6>1, <6>2 DEF Due
        <5> QED BY <5>1, <5>2
      <4> QED BY <1>2, <4>2 DEF Before
    <3> QED BY <3>1, <3>2
  <2> QED BY <2>1, <2>2 DEF Before
<1>3. x.window \in Seq(Messages) /\ x.seed \in Seq(Messages)
  BY DEF Reader
<1> QED BY <1>2, <1>3 DEF Paced

LEMMA GrowsFeeds ==
    ASSUME NEW fs \in Seq(ServerFrame), NEW us \in Seq(ServerFrame), NEW p \in Nat, NEW v \in Nat,
           Grows(fs, us, p, v), NEW i \in Nat, i = 0 \/ i \in DOMAIN fs,
           NEW h \in 0 .. p, Feeds(fs, i, h, p)
    PROVE  Feeds(us, i, h, v)
<1>1. ASSUME NEW j \in DOMAIN us, j > i, us[j].type = "msg" PROVE Last(us[j].messages) > h
  <2>1. CASE j \in DOMAIN fs
    <3>1. us[j] = fs[j]
      BY <2>1 DEF Grows
    <3> QED BY <1>1, <2>1, <3>1 DEF Feeds
  <2>2. CASE j \notin DOMAIN fs
    <3>1. New(us[j], p, v)
      BY <2>2 DEF Grows
    <3>2. v # p /\ Last(us[j].messages) = v
      BY <1>1, <3>1 DEF New
    <3>3. v = p + 1
      BY <3>2 DEF Grows
    <3> QED BY <3>2, <3>3
  <2> QED BY <2>1, <2>2
<1>2. ASSUME NEW q \in h + 1 .. v
      PROVE  \E j \in DOMAIN us : j > i /\ us[j].type = "msg" /\ Last(us[j].messages) = q
  <2>1. CASE q <= p
    <3>1. q \in h + 1 .. p
      BY <2>1
    <3>2. PICK j \in DOMAIN fs : j > i /\ fs[j].type = "msg" /\ Last(fs[j].messages) = q
      BY <3>1 DEF Feeds
    <3>3. j \in DOMAIN us /\ us[j] = fs[j]
      BY DEF Grows
    <3> QED BY <3>2, <3>3
  <2>2. CASE ~ (q <= p)
    <3>1. v # p
      BY <2>2
    <3>2. v = p + 1
      BY <3>1 DEF Grows
    <3>3. q = v
      BY <2>2, <3>2
    <3>4. PICK n \in DOMAIN us : n \notin DOMAIN fs
      BY <3>1 DEF Grows
    <3>5. New(us[n], p, v) /\ \A k \in DOMAIN fs : k < n
      BY <3>4 DEF Grows
    <3>6. n > i
      BY <3>5, Reading
    <3>7. us[n].type = "msg" /\ Last(us[n].messages) = v
      BY <3>1, <3>5 DEF New
    <3> QED BY <3>3, <3>6, <3>7
  <2> QED BY <2>1, <2>2
<1> QED BY <1>1, <1>2 DEF Feeds

LEMMA GrowsSeeds ==
    ASSUME NEW fs \in Seq(ServerFrame), NEW us \in Seq(ServerFrame), NEW p \in Nat, NEW v \in Nat,
           Grows(fs, us, p, v), NEW r \in Readers
    PROVE  /\ \A i \in DOMAIN fs : Seeds(fs, i, r, p) => Seeds(us, i, r, v)
           /\ \A x : Follows(fs, r, x, p) => Follows(us, r, x, v)
<1>0. p <= v
  BY DEF Grows
<1>1. ASSUME NEW i \in DOMAIN fs, Seeds(fs, i, r, p) PROVE Seeds(us, i, r, v)
  <2>1. PICK h \in 0 .. p : Ends(fs[i].messages, h, Kept(r, h)) /\ Feeds(fs, i, h, p)
    BY <1>1 DEF Seeds
  <2>2. us[i] = fs[i] /\ i \in Nat
    BY Reading DEF Grows
  <2>3. Feeds(us, i, h, v)
    BY <2>1, <2>2, GrowsFeeds
  <2>4. h \in 0 .. v
    BY <1>0
  <2> QED BY <2>1, <2>2, <2>3, <2>4 DEF Seeds
<1>2. ASSUME NEW x, Follows(fs, r, x, p) PROVE Follows(us, r, x, v)
  <2>1. PICK h \in 0 .. p : Ends(x.window, h, Kept(r, h)) /\ Feeds(fs, 0, h, p)
    BY <1>2 DEF Follows
  <2>2. Feeds(us, 0, h, v)
    BY <2>1, GrowsFeeds
  <2>3. h \in 0 .. v /\ ~ x.seeding
    BY <1>0, <1>2 DEF Follows
  <2> QED BY <2>1, <2>2, <2>3 DEF Follows
<1> QED BY <1>1, <1>2

(* A replay that is put behind everything seeds its reader.                *)
LEMMA FreshSeeds ==
    ASSUME NEW fs \in Seq(ServerFrame), NEW us \in Seq(ServerFrame), published \in Nat,
           Grows(fs, us, published, published), NEW r \in Readers,
           NEW i \in DOMAIN us, i \notin DOMAIN fs, us[i].messages = snapshotTail(Window[r])
    PROVE  Seeds(us, i, r, published)
<1> DEFINE p == published
<1>1. Ends(us[i].messages, p, Kept(r, p))
  BY SnapshotFacts, SocketsAssumption DEF Kept
<1>2. ASSUME NEW j \in DOMAIN us, j > i, us[j].type = "msg" PROVE FALSE
  <2>1. j \notin DOMAIN fs
    <3> SUFFICES ASSUME j \in DOMAIN fs PROVE FALSE
      OBVIOUS
    <3>1. j < i
      BY DEF Grows
    <3> QED BY <1>2, <3>1, Reading
  <2>2. New(us[j], p, p)
    BY <2>1 DEF Grows
  <2> QED BY <1>2, <2>2 DEF New
<1>3. Feeds(us, i, p, p)
  BY <1>2 DEF Feeds
<1>4. p \in 0 .. p
  OBVIOUS
<1> QED BY <1>1, <1>3, <1>4 DEF Seeds

(* The dispatcher's steps keep a reader served.                            *)
LEMMA ServedGrows ==
    ASSUME published \in Nat, NEW k \in Conn, NEW k2 \in Conn, NEW v \in Nat,
           Grows(k.down, k2.down, published, v),
           NEW r \in Readers, NEW x \in Reader, Served(k, r, x, published),
           x.sub \in k.joined => x.sub \in k2.joined,
           \A j \in DOMAIN k2.down : j \notin DOMAIN k.down /\ Replays(k2.down[j], x.sub) =>
               v = published /\ x.sub \in k2.joined /\ k2.down[j].messages = snapshotTail(Window[r]),
           Asked(k.up, x.sub) \/ Asked(k.loading, x.sub) =>
               \/ Asked(k2.up, x.sub) \/ Asked(k2.loading, x.sub)
               \/ \E j \in DOMAIN k2.down : Replays(k2.down[j], x.sub)
    PROVE  Served(k2, r, x, v)
<1> DEFINE fs == k.down
           us == k2.down
<1>1. fs \in Seq(ServerFrame) /\ us \in Seq(ServerFrame)
  BY DEF Conn
<1>2. \A j \in DOMAIN fs : j \in DOMAIN us /\ us[j] = fs[j]
  BY DEF Grows
<1>3. ASSUME NEW i \in DOMAIN us, Replays(us[i], x.sub)
      PROVE  x.sub \in k2.joined /\ Seeds(us, i, r, v)
  <2>1. CASE i \in DOMAIN fs
    <3>1. x.sub \in k.joined /\ Seeds(fs, i, r, published)
      BY <1>2, <1>3, <2>1 DEF Served
    <3> QED BY <1>1, <2>1, <3>1, GrowsSeeds
  <2>2. CASE i \notin DOMAIN fs
    <3>1. v = published /\ x.sub \in k2.joined /\ us[i].messages = snapshotTail(Window[r])
      BY <1>3, <2>2
    <3>2. Seeds(us, i, r, published)
      BY <1>1, <2>2, <3>1, FreshSeeds
    <3> QED BY <3>1, <3>2
  <2> QED BY <2>1, <2>2
<1>4. \/ Asked(k2.up, x.sub) \/ Asked(k2.loading, x.sub)
      \/ \E i \in DOMAIN us : Replays(us[i], x.sub)
      \/ x.sub \in k2.joined /\ Follows(us, r, x, v)
  <2>1. CASE Asked(k.up, x.sub) \/ Asked(k.loading, x.sub)
    BY <2>1
  <2>2. CASE \E i \in DOMAIN fs : Replays(fs[i], x.sub)
    BY <1>2, <2>2
  <2>3. CASE x.sub \in k.joined /\ Follows(fs, r, x, published)
    BY <1>1, <2>3, GrowsSeeds
  <2> QED BY <2>1, <2>2, <2>3 DEF Served
<1> QED BY <1>3, <1>4 DEF Served

-----------------------------------------------------------------------------
(* A frame is taken off the line.                                          *)
LEMMA TailOrdered ==
    ASSUME NEW fs \in Seq(ServerFrame), fs # <<>>, NEW p \in Nat, Ordered(fs, p)
    PROVE  /\ Tail(fs) \in Seq(ServerFrame) /\ Ordered(Tail(fs), p)
           /\ Before(Head(fs).messages, Tail(fs), p)
           /\ \A s : Before(s, fs, p) =>
                 Before(s, Tail(fs), p) /\ (Head(fs).messages # <<>> => UpTo(s, Due(Head(fs))))
<1> DEFINE us == Tail(fs)
<1>1. /\ 1 \in DOMAIN fs /\ Head(fs) = fs[1] /\ us \in Seq(ServerFrame)
      /\ \A j \in DOMAIN us : j \in Nat /\ j >= 1 /\ j + 1 \in DOMAIN fs /\ us[j] = fs[j + 1]
  BY TailFacts
<1> HIDE DEF us
<1>2. ASSUME NEW j \in DOMAIN us
      PROVE  /\ us[j].type = "msg" => Len(us[j].messages) = 1
             /\ us[j].type = "end" => us[j].messages = <<>>
             /\ UpTo(us[j].messages, p)
  <2>1. PICK m \in DOMAIN fs : m = j + 1
    BY <1>1
  <2>2. us[j] = fs[m]
    BY <1>1, <2>1
  <2> QED BY <2>2 DEF Ordered
<1>3. ASSUME NEW i \in DOMAIN us, NEW j \in DOMAIN us, i < j, us[j].messages # <<>>
      PROVE  UpTo(us[i].messages, Due(us[j]))
  <2>1. PICK m \in DOMAIN fs : m = j + 1
    BY <1>1
  <2>2. PICK n \in DOMAIN fs : n = i + 1
    BY <1>1
  <2>3. us[j] = fs[m] /\ us[i] = fs[n] /\ n < m
    BY <1>1, <1>3, <2>1, <2>2
  <2> QED BY <1>3, <2>3 DEF Ordered
<1>4. ASSUME NEW j \in DOMAIN us, us[j].messages # <<>>
      PROVE  UpTo(fs[1].messages, Due(us[j]))
  <2>1. PICK m \in DOMAIN fs : m = j + 1
    BY <1>1
  <2>2. us[j] = fs[m] /\ 1 < m
    BY <1>1, <2>1
  <2> QED BY <1>1, <1>4, <2>2 DEF Ordered
<1>5. ASSUME NEW s, Before(s, fs, p)
      PROVE  Before(s, us, p) /\ (fs[1].messages # <<>> => UpTo(s, Due(fs[1])))
  <2>1. ASSUME NEW j \in DOMAIN us, us[j].messages # <<>>
        PROVE  UpTo(s, Due(us[j]))
    <3>1. PICK m \in DOMAIN fs : m = j + 1
      BY <1>1
    <3>2. us[j] = fs[m]
      BY <1>1, <3>1
    <3> QED BY <1>5, <2>1, <3>2 DEF Before
  <2> QED BY <1>1, <1>5, <2>1 DEF Before
<1>6. UpTo(fs[1].messages, p)
  BY <1>1 DEF Ordered
<1> QED BY <1>1, <1>2, <1>3, <1>4, <1>5, <1>6 DEF Ordered, Before, us

LEMMA TailFeeds ==
    ASSUME NEW fs \in Seq(ServerFrame), fs # <<>>, NEW i \in Nat, NEW h, NEW p, Feeds(fs, i + 1, h, p)
    PROVE  Feeds(Tail(fs), i, h, p)
<1> DEFINE us == Tail(fs)
<1>1. /\ \A j \in DOMAIN us : j \in Nat /\ j >= 1 /\ j + 1 \in DOMAIN fs /\ us[j] = fs[j + 1]
      /\ \A j \in DOMAIN fs : j \in Nat /\ j >= 1 /\ (j > 1 => j - 1 \in DOMAIN us /\ us[j - 1] = fs[j])
  BY TailFacts
<1> HIDE DEF us
<1>2. ASSUME NEW j \in DOMAIN us, j > i, us[j].type = "msg" PROVE Last(us[j].messages) > h
  <2>1. PICK m \in DOMAIN fs : m = j + 1
    BY <1>1
  <2>2. us[j] = fs[m] /\ m > i + 1
    BY <1>1, <1>2, <2>1
  <2> QED BY <1>2, <2>2 DEF Feeds
<1>3. ASSUME NEW q \in h + 1 .. p
      PROVE  \E j \in DOMAIN us : j > i /\ us[j].type = "msg" /\ Last(us[j].messages) = q
  <2>1. PICK m \in DOMAIN fs : m > i + 1 /\ fs[m].type = "msg" /\ Last(fs[m].messages) = q
    BY <1>3 DEF Feeds
  <2>2. m \in Nat /\ m > 1
    BY <1>1, <2>1
  <2>3. PICK j \in DOMAIN us : j = m - 1
    BY <1>1, <2>2
  <2>4. us[j] = fs[m] /\ j > i
    BY <1>1, <2>1, <2>2, <2>3
  <2> QED BY <2>1, <2>4
<1> QED BY <1>2, <1>3 DEF Feeds, us

LEMMA TailSeeds ==
    ASSUME NEW fs \in Seq(ServerFrame), fs # <<>>, NEW r \in Readers, NEW p \in Nat
    PROVE  \A i \in DOMAIN Tail(fs) : \A m \in DOMAIN fs : m = i + 1 /\ Seeds(fs, m, r, p) => Seeds(Tail(fs), i, r, p)
<1> SUFFICES ASSUME NEW i \in DOMAIN Tail(fs), NEW m \in DOMAIN fs, m = i + 1, Seeds(fs, m, r, p)
             PROVE  Seeds(Tail(fs), i, r, p)
  OBVIOUS
<1>1. i \in Nat /\ Tail(fs)[i] = fs[m]
  BY TailFacts
<1>2. PICK h \in 0 .. p : Ends(fs[m].messages, h, Kept(r, h)) /\ Feeds(fs, m, h, p)
  BY DEF Seeds
<1>3. Feeds(fs, i + 1, h, p)
  BY <1>2
<1>4. Feeds(Tail(fs), i, h, p)
  BY <1>1, <1>3, TailFeeds
<1> QED BY <1>1, <1>2, <1>4 DEF Seeds

-----------------------------------------------------------------------------
(* What a reader makes of a frame that is addressed to it.                 *)
HeardBy(r, x, f) ==
    IF f.type # "msg" /\ f.sub # x.sub THEN x
    ELSE IF f.type = "replay" THEN commit(Took(r, x, f.messages))
    ELSE Took(r, x, f.messages)

Addressed(x, f) == f.type = "msg" \/ f.sub = x.sub

LEMMA OneLong == ASSUME NEW s \in Seq(Messages), Len(s) = 1 PROVE s # <<>>
BY EmptySeq

LEMMA LastType ==
    ASSUME NEW s \in Seq(Messages), s # <<>>
    PROVE  Last(s) \in Nat
<1>1. Len(s) \in 1 .. Len(s)
  BY LenProperties, EmptySeq
<1>2. s[Len(s)] \in Messages
  BY <1>1, ElementOfSeq
<1> QED BY <1>2 DEF Last, Messages

(* The last of a concatenation, cut to what a window holds.                *)
Cut(r, s, ns) == LastOf(Window[r], s \o ns)

LEMMA TookFacts ==
    ASSUME NEW r \in Readers, NEW x \in Reader, NEW ns \in Seq(Messages), NEW y, y = Took(r, x, ns)
    PROVE  /\ ns = <<>> => y = x
           /\ ns # <<>> => /\ y.seeding = x.seeding
                           /\ x.seeding => y.window = x.window /\ y.seed = Cut(r, x.seed, ns)
                           /\ ~ x.seeding => y.window = Cut(r, x.window, ns) /\ y.seed = x.seed
<1>1. CASE ns = <<>>
  BY <1>1 DEF Took
<1>2. CASE ns # <<>>
  <2>1. CASE x.seeding
    BY <1>2, <2>1 DEF Took, Cut, Reader
  <2>2. CASE ~ x.seeding
    BY <1>2, <2>2 DEF Took, Cut, Reader
  <2> QED BY <1>2, <2>1, <2>2
<1> QED BY <1>1, <1>2

LEMMA CommitFacts ==
    ASSUME NEW y \in Reader, NEW z, z = commit(y)
    PROVE  /\ ~ y.seeding => z = y
           /\ y.seeding => /\ ~ z.seeding /\ z.seed = <<>>
                           /\ z.window = IF y.seed # <<>> THEN y.seed ELSE y.window
BY DEF commit, Reader

LEMMA CutFacts ==
    ASSUME NEW r \in Readers, NEW s \in Seq(Messages), NEW ns \in Seq(Messages), ns # <<>>
    PROVE  /\ Cut(r, s, ns) \in Seq(Messages) /\ Cut(r, s, ns) # <<>>
           /\ Last(Cut(r, s, ns)) = Last(ns) /\ Len(Cut(r, s, ns)) <= Window[r]
<1> DEFINE u == s \o ns
           t == Cut(r, s, ns)
<1>1. Window[r] \in Nat /\ Window[r] >= 1
  BY SocketsAssumption
<1>2. u = s \o ns
  OBVIOUS
<1>7. t = LastOf(Window[r], u)
  BY DEF Cut
<1> HIDE DEF u, t
<1>3. u \in Seq(Messages) /\ Len(u) = Len(s) + Len(ns) /\ Len(s) \in Nat /\ Len(ns) \in Nat
  BY <1>2, ConcatFacts
<1>4. \A j \in DOMAIN ns : u[Len(s) + j] = ns[j]
  BY <1>2, ConcatFacts
<1>5. Len(ns) \in DOMAIN ns /\ Len(ns) >= 1
  BY LenProperties, EmptySeq
<1>6. u # <<>> /\ Last(u) = Last(ns)
  <2>1. u[Len(u)] = ns[Len(ns)]
    BY <1>3, <1>4, <1>5
  <2>2. Len(u) # 0
    BY <1>3, <1>5
  <2> QED BY <1>3, <2>1, <2>2, EmptySeq DEF Last
<1>8. t \in Seq(Messages) /\ t # <<>> /\ Last(t) = Last(ns) /\ Len(t) <= Window[r]
  BY <1>1, <1>3, <1>6, <1>7, LastOfLast
<1> QED BY <1>8 DEF t

(* A window never goes back, and stays between what it has had and what    *)
(* comes.                                                                  *)
LEMMA PacedHears ==
    ASSUME NEW fs \in Seq(ServerFrame), fs # <<>>, NEW p \in Nat, Ordered(fs, p),
           NEW r \in Readers, NEW x \in Reader, Paced(x, Window[r], fs, p),
           NEW y, y = x \/ y = HeardBy(r, x, Head(fs))
    PROVE  /\ Paced(y, Window[r], Tail(fs), p)
           /\ x.window # <<>> /\ y.window # <<>> => Last(x.window) <= Last(y.window)
<1> DEFINE f == Head(fs)
           us == Tail(fs)
           ns == f.messages
           w == Window[r]
<1>1. /\ us \in Seq(ServerFrame) /\ Ordered(us, p) /\ Before(ns, us, p)
      /\ \A s : Before(s, fs, p) => Before(s, us, p) /\ (ns # <<>> => UpTo(s, Due(f)))
  BY TailOrdered
<1>2. f \in ServerFrame /\ ns \in Seq(Messages) /\ (ns # <<>> => Last(ns) \in Nat)
  <2>1. f = fs[1] /\ 1 \in DOMAIN fs
    BY TailFacts
  <2> QED BY <2>1, Reading
<1>3. x.window \in Seq(Messages) /\ x.seed \in Seq(Messages)
  BY DEF Reader
<1>4. /\ Len(x.window) <= w /\ Len(x.seed) <= w
      /\ Before(x.window, us, p) /\ Before(x.seed, us, p)
      /\ IF x.seeding THEN x.seed # <<>> => UpTo(x.window, Last(x.seed)) ELSE x.seed = <<>>
      /\ ns # <<>> => UpTo(x.window, Last(ns)) /\ UpTo(x.seed, Last(ns))
  <2>1. ns # <<>> => Due(f) <= Last(ns) /\ Due(f) \in Int
    BY <1>2 DEF Due
  <2>2. (x.window # <<>> => Last(x.window) \in Nat) /\ (x.seed # <<>> => Last(x.seed) \in Nat)
    BY <1>3, LastType
  <2>3. ns # <<>> => UpTo(x.window, Due(f)) /\ UpTo(x.seed, Due(f))
    BY <1>1 DEF Paced
  <2>4. ns # <<>> => UpTo(x.window, Last(ns)) /\ UpTo(x.seed, Last(ns))
    BY <1>2, <2>1, <2>2, <2>3 DEF UpTo
  <2> QED BY <1>1, <2>4 DEF Paced
<1> HIDE DEF f, us, ns, w
<1>5. ASSUME NEW s, NEW t, s = <<>> \/ Last(s) = Last(t), t # <<>>, Before(t, us, p)
      PROVE  Before(s, us, p)
  BY <1>5 DEF Before, UpTo
<1>6. ASSUME y = x PROVE Paced(x, w, us, p)
  BY <1>4 DEF Paced
<1>7. ASSUME NEW s \in Seq(Messages), NEW t, t = Cut(r, s, ns), ns # <<>>
      PROVE  t # <<>> /\ Last(t) = Last(ns) /\ Len(t) <= w /\ Before(t, us, p)
  <2>1. t # <<>> /\ Last(t) = Last(ns) /\ Len(t) <= Window[r]
    BY <1>2, <1>7, CutFacts
  <2>2. Before(t, us, p)
    BY <1>1, <1>5, <1>7, <2>1
  <2> QED BY <2>1, <2>2 DEF w
<1>8. ASSUME NEW z \in Reader, z = Took(r, x, ns), ns # <<>>
      PROVE  /\ Paced(z, w, us, p)
             /\ x.window # <<>> /\ z.window # <<>> => Last(x.window) <= Last(z.window)
             /\ z.seeding => z.window = x.window /\ z.seed # <<>> /\ Last(z.seed) = Last(ns)
  <2>0. /\ z.seeding = x.seeding
        /\ x.seeding => z.window = x.window /\ z.seed = Cut(r, x.seed, ns)
        /\ ~ x.seeding => z.window = Cut(r, x.window, ns) /\ z.seed = x.seed
    <3>1. ns \in Seq(Messages)
      BY <1>2
    <3>2. z.seeding = x.seeding
      BY ONLY <3>1, <1>8, r \in Readers, x \in Reader, TookFacts
    <3>3. x.seeding => z.window = x.window /\ z.seed = Cut(r, x.seed, ns)
      BY ONLY <3>1, <1>8, r \in Readers, x \in Reader, TookFacts
    <3>4. ~ x.seeding => z.window = Cut(r, x.window, ns) /\ z.seed = x.seed
      BY ONLY <3>1, <1>8, r \in Readers, x \in Reader, TookFacts
    <3> QED BY <3>2, <3>3, <3>4 DEF w
  <2>1. CASE x.seeding
    <3>1. z.seeding /\ z.window = x.window /\ z.seed = Cut(r, x.seed, ns)
      BY <2>0, <2>1
    <3>2. z.seed # <<>> /\ Last(z.seed) = Last(ns) /\ Len(z.seed) <= w /\ Before(z.seed, us, p)
      BY <1>3, <1>7, <1>8, <3>1
    <3>3. UpTo(z.window, Last(z.seed))
      BY <1>4, <1>8, <3>1, <3>2
    <3>4. x.window # <<>> => Last(x.window) <= Last(z.window)
      BY <1>3, <3>1, LastType
    <3> QED BY <1>4, <3>1, <3>2, <3>3, <3>4 DEF Paced
  <2>2. CASE ~ x.seeding
    <3>1. ~ z.seeding /\ z.seed = x.seed /\ z.window = Cut(r, x.window, ns)
      BY <2>0, <2>2
    <3>2. z.window # <<>> /\ Last(z.window) = Last(ns) /\ Len(z.window) <= w /\ Before(z.window, us, p)
      BY <1>3, <1>7, <1>8, <3>1
    <3>3. x.window # <<>> => Last(x.window) <= Last(z.window)
      BY <1>4, <1>8, <3>2 DEF UpTo
    <3>4. x.seed = <<>>
      BY <2>2 DEF Paced
    <3> QED BY <1>4, <2>2, <3>1, <3>2, <3>3, <3>4 DEF Paced
  <2> QED BY <2>1, <2>2
<1>9. ASSUME NEW z \in Reader, z = Took(r, x, ns)
      PROVE  /\ Paced(z, w, us, p)
             /\ x.window # <<>> /\ z.window # <<>> => Last(x.window) <= Last(z.window)
             /\ z.seeding /\ z.seed # <<>> /\ x.window # <<>> => Last(x.window) <= Last(z.seed)
             /\ z.seeding => z.window = x.window
  <2>1. CASE ns = <<>>
    <3>1. z = x
      BY <1>9, <2>1 DEF Took
    <3> QED BY <1>3, <1>4, <1>6, <3>1, LastType DEF Paced, UpTo
  <2>2. CASE ns # <<>>
    BY <1>4, <1>8, <1>9, <2>2 DEF UpTo
  <2> QED BY <2>1, <2>2
<1>10. CASE y = x
  BY <1>3, <1>6, <1>10, LastType DEF us, w
<1>11. CASE y # x
  <2> DEFINE z == Took(r, x, ns)
  <2>1. y = IF f.type = "replay" THEN commit(z) ELSE z
    BY <1>11 DEF HeardBy, f, ns
  <2>2. z \in Reader
    BY <1>2, TookType
  <2>3. /\ Paced(z, w, us, p)
        /\ x.window # <<>> /\ z.window # <<>> => Last(x.window) <= Last(z.window)
        /\ z.seeding /\ z.seed # <<>> /\ x.window # <<>> => Last(x.window) <= Last(z.seed)
        /\ z.seeding => z.window = x.window
    BY <1>9, <2>2
  <2> HIDE DEF z
  <2>4. CASE y = z
    BY <2>3, <2>4 DEF us, w
  <2>5. CASE y = commit(z) /\ z.seeding
    <3>1. ~ y.seeding /\ y.seed = <<>> /\ y.window = IF z.seed # <<>> THEN z.seed ELSE z.window
      BY <2>2, <2>5, CommitFacts
    <3>2. Before(y.seed, us, p)
      BY <2>3, <3>1 DEF Paced, Before, UpTo
    <3>3. Len(y.window) <= w /\ Before(y.window, us, p)
      BY <2>3, <3>1 DEF Paced
    <3>4. Len(y.seed) <= w
      <4>1. w \in Nat /\ Len(<<>>) = 0
        BY SocketsAssumption DEF w
      <4> QED BY <3>1, <4>1
    <3>5. Paced(y, w, us, p)
      BY <3>1, <3>2, <3>3, <3>4 DEF Paced
    <3>6. x.window # <<>> /\ y.window # <<>> => Last(x.window) <= Last(y.window)
      BY <1>3, <2>3, <2>5, <3>1, LastType
    <3> QED BY <3>5, <3>6 DEF us, w
  <2>6. CASE y = commit(z) /\ ~ z.seeding
    <3>1. y = z
      BY <2>2, <2>6, CommitFacts
    <3> QED BY <2>3, <3>1 DEF us, w
  <2> QED BY <2>1, <2>4, <2>5, <2>6
<1> QED BY <1>10, <1>11

(* How a window that ends in the messages up to q ends, with one more.     *)
LEMMA LastOfEnds ==
    ASSUME NEW S, NEW u \in Seq(S), NEW q, NEW n \in Nat, NEW w \in Nat, n <= w, Ends(u, q, n)
    PROVE  Ends(LastOf(w, u), q, n)
<1> DEFINE v == LastOf(w, u)
           b == Len(u)
           m == Len(v)
<1>1. v \in Seq(S) /\ m = Least(w, b) /\ b \in Nat /\ \A i \in 0 .. m - 1 : v[m - i] = u[b - i]
  BY LastOfFacts
<1>2. n <= b /\ \A i \in 0 .. n - 1 : u[b - i] = q - i
  BY DEF Ends
<1> HIDE DEF v, b, m
<1>3. n <= m /\ m \in Nat
  BY <1>1, <1>2 DEF Least
<1>4. ASSUME NEW i \in 0 .. n - 1 PROVE v[m - i] = q - i
  BY <1>1, <1>2, <1>3
<1> QED BY <1>3, <1>4 DEF Ends, v, m

LEMMA CutEnds ==
    ASSUME NEW r \in Readers, NEW s \in Seq(Messages), NEW ns \in Seq(Messages), NEW h \in Nat,
           Ends(ns, h, Kept(r, h))
    PROVE  Ends(Cut(r, s, ns), h, Kept(r, h))
<1>1. Kept(r, h) \in Nat /\ Kept(r, h) <= Window[r] /\ Window[r] \in Nat
  BY KeptFacts
<1>2. Ends(LastOf(Window[r], s \o ns), h, Kept(r, h))
  BY <1>1, EndsLastOf
<1> QED BY <1>2 DEF Cut

LEMMA SeedEnds ==
    ASSUME NEW r \in Readers, NEW x \in Reader, NEW ns \in Seq(Messages), NEW h \in Nat,
           Ends(ns, h, Kept(r, h)), NEW y, y = commit(Took(r, x, ns))
    PROVE  ~ y.seeding /\ Ends(y.window, h, Kept(r, h))
<1> DEFINE z == Took(r, x, ns)
<1>1. z \in Reader
  BY TookType
<1>2. /\ ns = <<>> => z = x
      /\ ns # <<>> => /\ z.seeding = x.seeding
                      /\ x.seeding => z.window = x.window /\ z.seed = Cut(r, x.seed, ns)
                      /\ ~ x.seeding => z.window = Cut(r, x.window, ns) /\ z.seed = x.seed
  BY TookFacts
<1> HIDE DEF z
<1>3. /\ ~ z.seeding => y = z
      /\ z.seeding => /\ ~ y.seeding /\ y.seed = <<>>
                      /\ y.window = IF z.seed # <<>> THEN z.seed ELSE z.window
  <2>1. y = commit(z)
    BY DEF z
  <2> QED BY <1>1, <2>1, CommitFacts
<1>4. ~ y.seeding
  BY <1>3
<1>5. x.seed \in Seq(Messages) /\ x.window \in Seq(Messages)
  BY DEF Reader
<1>6. CASE ns = <<>>
  <2>1. y.window \in Seq(Messages)
    BY <1>2, <1>3, <1>5, <1>6
  <2>2. Len(y.window) \in Nat /\ Len(y.window) >= 0
    BY <2>1, LenProperties
  <2>3. Kept(r, h) \in Nat /\ Kept(r, h) <= 0
    <3>1. Len(ns) = 0
      BY <1>6
    <3> QED BY <3>1, KeptFacts DEF Ends
  <2>4. Kept(r, h) = 0
    BY <2>3
  <2> QED BY <1>4, <2>2, <2>4 DEF Ends
<1>7. CASE ns # <<>>
  <2>1. CASE x.seeding
    <3>1. Cut(r, x.seed, ns) # <<>> /\ Ends(Cut(r, x.seed, ns), h, Kept(r, h))
      BY <1>5, <1>7, CutFacts, CutEnds
    <3>2. y.window = Cut(r, x.seed, ns)
      BY <1>2, <1>3, <1>7, <2>1, <3>1
    <3> QED BY <1>4, <3>1, <3>2
  <2>2. CASE ~ x.seeding
    <3>1. Ends(Cut(r, x.window, ns), h, Kept(r, h))
      BY <1>5, CutEnds
    <3>2. y.window = Cut(r, x.window, ns)
      BY <1>2, <1>3, <1>7, <2>2
    <3> QED BY <1>4, <3>1, <3>2
  <2> QED BY <2>1, <2>2
<1> QED BY <1>6, <1>7

LEMMA NextEnds ==
    ASSUME NEW r \in Readers, NEW s \in Seq(Messages), NEW q \in Nat, NEW ns \in Seq(Messages),
           Len(ns) = 1, Last(ns) = q + 1, Ends(s, q, Kept(r, q))
    PROVE  Ends(Cut(r, s, ns), q + 1, Kept(r, q + 1))
<1> DEFINE u == s \o <<q + 1>>
           n == Kept(r, q)
           m == Kept(r, q + 1)
<1>1. n \in Nat /\ m \in Nat /\ m <= n + 1 /\ m <= Window[r] /\ Window[r] \in Nat
  <2>1. /\ Kept(r, q) \in Nat /\ Kept(r, q + 1) \in Nat /\ Kept(r, q + 1) <= Kept(r, q) + 1
        /\ Window[r] \in Nat
    BY KeptFacts
  <2>2. Kept(r, q + 1) <= Window[r]
    <3>1. PICK v \in Nat : v = q + 1
      OBVIOUS
    <3>2. Kept(r, v) <= Window[r]
      BY KeptFacts
    <3> QED BY <3>1, <3>2
  <2> QED BY <2>1, <2>2
<1>2. s \in Seq(Nat) /\ u \in Seq(Nat)
  <2>1. \A i \in 1 .. Len(s) : s[i] \in Nat
    <3>1. \A i \in 1 .. Len(s) : s[i] \in Messages
      BY ElementOfSeq
    <3> QED BY <3>1 DEF Messages
  <2>2. s \in [1 .. Len(s) -> Nat] /\ Len(s) \in Nat
    BY <2>1, LenProperties
  <2>3. s \in Seq(Nat)
    BY <2>2, SeqDef
  <2>4. <<q + 1>> \in Seq(Nat)
    OBVIOUS
  <2> QED BY <2>3, <2>4, ConcatProperties
<1>3. ns = <<q + 1>>
  <2>1. ns[1] = q + 1
    BY DEF Last
  <2> QED BY <2>1
<1>4. Ends(u, q + 1, n + 1) /\ Len(u) \in Nat
  BY <1>1, <1>2, EndsMore
<1>5. Cut(r, s, ns) = LastOf(Window[r], u)
  BY <1>3 DEF Cut
<1> HIDE DEF u, n, m
<1>6. Ends(u, q + 1, m)
  <2>1. n + 1 \in Nat
    BY <1>1
  <2> QED BY <1>1, <1>4, <2>1, EndsLess
<1>7. Ends(LastOf(Window[r], u), q + 1, m)
  BY <1>1, <1>2, <1>6, LastOfEnds
<1> QED BY <1>5, <1>7 DEF m

(* The frame taken first is the next one to what the window ends in.       *)
LEMMA FollowsHears ==
    ASSUME NEW fs \in Seq(ServerFrame), fs # <<>>, NEW p \in Nat, Ordered(fs, p),
           NEW r \in Readers, NEW x \in Reader, Follows(fs, r, x, p),
           ~ Replays(Head(fs), x.sub), NEW y, y = HeardBy(r, x, Head(fs))
    PROVE  Follows(Tail(fs), r, y, p)
<1> DEFINE f == Head(fs)
           ns == f.messages
<1>1. /\ 1 \in DOMAIN fs /\ f = fs[1] /\ f \in ServerFrame /\ ns \in Seq(Messages)
      /\ \A j \in DOMAIN fs : j \in Nat /\ j >= 1
      /\ \A j \in DOMAIN fs : fs[j].messages \in Seq(Messages)
  <2>1. 1 \in DOMAIN fs /\ f = fs[1]
    BY TailFacts
  <2> QED BY <2>1, Reading
<1>2. ~ x.seeding
  BY DEF Follows
<1>3. PICK h \in 0 .. p : Ends(x.window, h, Kept(r, h)) /\ Feeds(fs, 0, h, p)
  BY DEF Follows
<1>4. x.window \in Seq(Messages)
  BY DEF Reader
<1> HIDE DEF f, ns
<1>5. CASE f.type # "msg"
  <2>1. y = x
    <3>1. CASE f.sub # x.sub
      BY <1>5, <3>1 DEF HeardBy, f
    <3>2. CASE f.sub = x.sub
      <4>1. f.type = "end"
        BY <1>1, <1>5, <3>2 DEF Replays, ServerFrame, f
      <4>2. ns = <<>>
        BY <1>1, <4>1 DEF Ordered, ns
      <4> QED BY <1>5, <4>1, <4>2 DEF HeardBy, Took, f, ns
    <3> QED BY <3>1, <3>2
  <2>2. Feeds(fs, 1, h, p)
    <3>1. ASSUME NEW j \in DOMAIN fs, fs[j].type = "msg" PROVE j > 1
      <4>1. j # 1
        BY <1>1, <1>5, <3>1
      <4> QED BY <1>1, <4>1
    <3>2. \A j \in DOMAIN fs : j > 1 => j > 0
      BY <1>1
    <3> QED BY <1>3, <3>1, <3>2 DEF Feeds
  <2>3. Feeds(Tail(fs), 0, h, p)
    <3>1. Feeds(fs, 0 + 1, h, p)
      BY <2>2
    <3> QED BY <3>1, TailFeeds
  <2> QED BY <1>2, <1>3, <2>1, <2>3 DEF Follows
<1>6. CASE f.type = "msg"
  <2>1. Len(ns) = 1 /\ UpTo(ns, p) /\ ns # <<>>
    <3>1. Len(ns) = 1 /\ UpTo(ns, p)
      BY <1>1, <1>6 DEF Ordered, ns
    <3>2. ns # <<>>
      BY <1>1, <3>1, OneLong
    <3> QED BY <3>1, <3>2
  <2>2. Last(ns) \in Nat /\ Last(ns) <= p /\ Last(ns) > h
    <3>1. Last(ns) > h
      BY <1>1, <1>3, <1>6 DEF Feeds, ns
    <3> QED BY <1>1, <2>1, <3>1, LastType DEF UpTo
  <2>3. \A j \in DOMAIN fs : j > 1 /\ fs[j].type = "msg" => Last(fs[j].messages) > Last(ns)
    <3> SUFFICES ASSUME NEW j \in DOMAIN fs, j > 1, fs[j].type = "msg"
                 PROVE  Last(fs[j].messages) > Last(ns)
      OBVIOUS
    <3>1. Len(fs[j].messages) = 1
      BY DEF Ordered
    <3>2. fs[j].messages # <<>>
      BY <1>1, <3>1, OneLong
    <3>3. UpTo(ns, Last(fs[j].messages) - 1)
      BY <1>1, <3>2 DEF Ordered, Due, ns
    <3>4. Last(fs[j].messages) \in Nat
      BY <1>1, <3>2, LastType
    <3> QED BY <2>1, <2>2, <3>3, <3>4 DEF UpTo
  <2>4. Last(ns) = h + 1
    <3>1. h + 1 \in h + 1 .. p
      BY <2>2
    <3>2. PICK j \in DOMAIN fs : j > 0 /\ fs[j].type = "msg" /\ Last(fs[j].messages) = h + 1
      BY <1>3, <3>1 DEF Feeds
    <3>3. CASE j = 1
      BY <1>1, <3>2, <3>3 DEF ns
    <3>4. CASE j # 1
      <4>1. h + 1 > Last(ns)
        BY <1>1, <2>3, <3>2, <3>4
      <4> QED BY <2>2, <4>1
    <3> QED BY <3>3, <3>4
  <2>5. Feeds(fs, 1, h + 1, p)
    <3>1. ASSUME NEW j \in DOMAIN fs, j > 1, fs[j].type = "msg" PROVE Last(fs[j].messages) > h + 1
      BY <2>3, <2>4, <3>1
    <3>2. ASSUME NEW q \in (h + 1) + 1 .. p
          PROVE  \E j \in DOMAIN fs : j > 1 /\ fs[j].type = "msg" /\ Last(fs[j].messages) = q
      <4>1. q \in h + 1 .. p /\ q # h + 1
        OBVIOUS
      <4>2. PICK j \in DOMAIN fs : j > 0 /\ fs[j].type = "msg" /\ Last(fs[j].messages) = q
        BY <1>3, <4>1 DEF Feeds
      <4>3. j # 1
        BY <1>1, <2>4, <4>1, <4>2 DEF ns
      <4> QED BY <1>1, <4>2, <4>3
    <3> QED BY <3>1, <3>2 DEF Feeds
  <2>6. Feeds(Tail(fs), 0, h + 1, p)
    <3>1. Feeds(fs, 0 + 1, h + 1, p)
      BY <2>5
    <3> QED BY <3>1, TailFeeds
  <2>7. ~ y.seeding /\ y.window = Cut(r, x.window, ns)
    <3>1. y = Took(r, x, ns)
      BY <1>6 DEF HeardBy, f, ns
    <3> QED BY <1>1, <1>2, <2>1, <3>1, TookFacts
  <2>8. Ends(y.window, h + 1, Kept(r, h + 1))
    BY <1>1, <1>3, <1>4, <2>1, <2>4, <2>7, NextEnds
  <2>9. h + 1 \in 0 .. p
    BY <2>2
  <2> QED BY <2>6, <2>7, <2>8, <2>9 DEF Follows
<1> QED BY <1>5, <1>6

LEMMA ServedHears ==
    ASSUME NEW k \in Conn, k.down # <<>>, NEW p \in Nat, Ordered(k.down, p),
           NEW r \in Readers, NEW x \in Reader, Served(k, r, x, p),
           NEW k2 \in Conn, k2.up = k.up, k2.loading = k.loading, k2.joined = k.joined,
           k2.down = Tail(k.down), NEW y, y = HeardBy(r, x, Head(k.down))
    PROVE  Served(k2, r, y, p)
<1> DEFINE fs == k.down
           us == Tail(fs)
           f == Head(fs)
<1>1. fs \in Seq(ServerFrame) /\ fs # <<>>
  BY DEF Conn
<1>2. /\ 1 \in DOMAIN fs /\ f = fs[1] /\ f \in ServerFrame /\ f.messages \in Seq(Messages)
      /\ \A j \in DOMAIN us : j \in Nat /\ j >= 1 /\ j + 1 \in DOMAIN fs /\ us[j] = fs[j + 1]
      /\ \A j \in DOMAIN fs : j \in Nat /\ j >= 1 /\ (j > 1 => j - 1 \in DOMAIN us /\ us[j - 1] = fs[j])
  <2>1. /\ 1 \in DOMAIN fs /\ f = fs[1]
        /\ \A j \in DOMAIN us : j \in Nat /\ j >= 1 /\ j + 1 \in DOMAIN fs /\ us[j] = fs[j + 1]
        /\ \A j \in DOMAIN fs : j \in Nat /\ j >= 1 /\ (j > 1 => j - 1 \in DOMAIN us /\ us[j - 1] = fs[j])
    BY <1>1, TailFacts
  <2> QED BY <1>1, <2>1, Reading
<1> HIDE DEF fs, us, f
<1>3. y.sub = x.sub
  <2>1. Took(r, x, f.messages) \in Reader /\ Took(r, x, f.messages).sub = x.sub
    BY <1>2, TookType
  <2>2. commit(Took(r, x, f.messages)).sub = x.sub
    BY <2>1, CommitType
  <2> QED BY <2>1, <2>2 DEF HeardBy, f, fs
<1>4. ASSUME NEW i \in DOMAIN us, Replays(us[i], x.sub)
      PROVE  x.sub \in k.joined /\ Seeds(us, i, r, p)
  <2>1. PICK m \in DOMAIN fs : m = i + 1
    BY <1>2
  <2>2. us[i] = fs[m]
    BY <1>2, <2>1
  <2>3. x.sub \in k.joined /\ Seeds(fs, m, r, p)
    BY <1>4, <2>2 DEF Served, fs
  <2> QED BY <1>1, <2>1, <2>3, TailSeeds DEF us
<1>5. \/ Asked(k.up, x.sub) \/ Asked(k.loading, x.sub)
      \/ \E i \in DOMAIN us : Replays(us[i], x.sub)
      \/ x.sub \in k.joined /\ Follows(us, r, y, p)
  <2>1. CASE Asked(k.up, x.sub) \/ Asked(k.loading, x.sub)
    BY <2>1
  <2>2. CASE Replays(f, x.sub)
    <3>1. x.sub \in k.joined /\ Seeds(fs, 1, r, p)
      BY <1>2, <2>2 DEF Served, fs
    <3>2. PICK h \in 0 .. p : Ends(f.messages, h, Kept(r, h)) /\ Feeds(fs, 1, h, p)
      BY <1>2, <3>1 DEF Seeds
    <3>3. Feeds(us, 0, h, p)
      <4>1. Feeds(fs, 0 + 1, h, p)
        BY <3>2
      <4> QED BY <1>1, <4>1, TailFeeds DEF us
    <3>4. y = commit(Took(r, x, f.messages))
      BY <2>2 DEF Replays, HeardBy, f, fs
    <3>5. ~ y.seeding /\ Ends(y.window, h, Kept(r, h))
      BY <1>2, <3>2, <3>4, SeedEnds
    <3> QED BY <3>1, <3>2, <3>3, <3>5 DEF Follows
  <2>3. CASE ~ Replays(f, x.sub) /\ \E i \in DOMAIN fs : Replays(fs[i], x.sub)
    <3>1. PICK i \in DOMAIN fs : Replays(fs[i], x.sub)
      BY <2>3
    <3>2. i > 1
      BY <1>2, <2>3, <3>1
    <3> QED BY <1>2, <3>1, <3>2
  <2>4. CASE ~ Replays(f, x.sub) /\ x.sub \in k.joined /\ Follows(fs, r, x, p)
    <3>1. Follows(us, r, y, p)
      <4>1. Ordered(fs, p) /\ ~ Replays(Head(fs), x.sub) /\ y = HeardBy(r, x, Head(fs))
        BY <2>4 DEF f, fs
      <4> QED BY <1>1, <2>4, <4>1, FollowsHears DEF us
    <3> QED BY <2>4, <3>1
  <2> QED BY <2>1, <2>2, <2>3, <2>4 DEF Served, fs
<1> QED BY <1>3, <1>4, <1>5 DEF Served, us, fs

-----------------------------------------------------------------------------
(* The line, step by step.                                                 *)
Forward ==
    \A r \in Readers : reader[r].window # <<>> /\ reader'[r].window # <<>> =>
        Last(reader[r].window) <= Last(reader'[r].window)

LEMMA LineFacts ==
    ASSUME IInv, Single
    PROVE  /\ line \in Conn /\ published \in Nat /\ pending \in Seq(ClientFrame)
           /\ line.down \in Seq(ServerFrame) /\ line.up \in Seq(ClientFrame) /\ line.loading \in Seq(ClientFrame)
           /\ ws = 0 => line = NoConn
           /\ ws # 0 => ws \in Conns /\ line = conns[ws] /\ line.client # "none"
           /\ line.client = "connecting" => line = Connecting
           /\ \A c \in Conns : conns[c].client # "none" \/ conns[c].server # "none" \/ conns[c].down # <<>>
                                  \/ conns[c].loading # <<>> => ws # 0 /\ c = ws
           /\ \A r \in Readers : reader[r] \in Reader
<1>1. TypeOK /\ 0 \notin Conns
  BY DEF IInv, Conns
<1>2. ws # 0 => ws \in Conns
  BY <1>1, SocketsAssumption DEF TypeOK, Conns
<1>3. line \in Conn
  BY <1>1, <1>2, NoConnType DEF line, TypeOK
<1>4. published \in Nat /\ \A r \in Readers : reader[r] \in Reader
  BY <1>1, SocketsAssumption DEF TypeOK
<1>5. /\ line.down \in Seq(ServerFrame) /\ line.up \in Seq(ClientFrame) /\ line.loading \in Seq(ClientFrame)
      /\ pending \in Seq(ClientFrame)
  BY <1>1, <1>3 DEF Conn, TypeOK
<1>6. /\ ws = 0 => line = NoConn
      /\ ws # 0 => ws \in Conns /\ line = conns[ws] /\ line.client # "none"
      /\ line.client = "connecting" => line = Connecting
  BY <1>2, NoConnType DEF line, Single, NoConn
<1>7. \A c \in Conns : conns[c].client # "none" \/ conns[c].server # "none" \/ conns[c].down # <<>>
                          \/ conns[c].loading # <<>> => ws # 0 /\ c = ws
  BY <1>1 DEF Single, NoConn
<1> QED BY <1>3, <1>4, <1>5, <1>6, <1>7

LEMMA LineSet ==
    ASSUME IInv, Single, ws # 0, NEW k \in Conn, conns' = [conns EXCEPT ![ws] = k], ws' = ws,
           k.client # "none", k.client = "connecting" => k = Connecting
    PROVE  Single' /\ line' = k
<1>1. ws \in Conns /\ conns \in [Conns -> Conn]
  BY LineFacts DEF IInv, TypeOK
<1>2. conns'[ws] = k /\ \A c \in Conns : c # ws => conns'[c] = conns[c]
  BY <1>1
<1> QED BY <1>1, <1>2 DEF Single, line

LEMMA LineConnects ==
    ASSUME IInv, Single, NEW h, NEW d, connect(h, d), h \/ \A c \in Conns : conns[c].client # "closing"
    PROVE  /\ Single'
           /\ (ws' = ws /\ line' = line) \/ (ws = 0 /\ ws' # 0 /\ line = NoConn /\ line' = Connecting)
           /\ h \/ d \/ ws' # 0
<1>1. CASE ~ connects(h, d)
  <2>1. UNCHANGED <<ws, conns>>
    BY <1>1 DEF connect
  <2>2. h \/ d \/ ws # 0
    BY <1>1 DEF connects
  <2> QED BY <2>1, <2>2 DEF Single, line
<1>2. CASE connects(h, d)
  <2>1. /\ FreeConns # {} /\ ws' = CHOOSE c \in FreeConns : TRUE
        /\ conns' = [conns EXCEPT ![ws'].client = "connecting"]
    BY <1>2 DEF connect
  <2>2. ws' \in FreeConns
    BY <2>1, Zenon
  <2>3. ws' \in Conns /\ conns[ws'] = NoConn /\ ws' # 0 /\ conns \in [Conns -> Conn]
    BY <2>2 DEF FreeConns, Conns, IInv, TypeOK
  <2>4. ws = 0
    <3> SUFFICES ASSUME ws # 0 PROVE FALSE
      OBVIOUS
    <3>1. ws \in Conns /\ conns[ws] = line /\ line \in Conn /\ line.client # "none"
      BY LineFacts
    <3>2. line.client \notin Up /\ ~ h
      BY <1>2, <3>1 DEF connects
    <3>3. line.client = "closing"
      BY <3>1, <3>2 DEF Conn, Up
    <3> QED BY <3>1, <3>2, <3>3
  <2>5. conns'[ws'] = Connecting /\ \A c \in Conns : c # ws' => conns'[c] = conns[c]
    <3>1. conns' = [conns EXCEPT ![ws'] = [conns[ws'] EXCEPT !.client = "connecting"]]
      BY <2>1
    <3> QED BY <2>3, <3>1 DEF Connecting
  <2>6. \A c \in Conns : conns[c] = NoConn
    BY <2>4 DEF Single, Conns
  <2>7. Connecting.client = "connecting"
    BY DEF Connecting, NoConn
  <2>8. Single' /\ line' = Connecting /\ line = NoConn
    BY <2>3, <2>4, <2>5, <2>6, <2>7 DEF Single, line
  <2> QED BY <2>3, <2>4, <2>8
<1> QED BY <1>1, <1>2

LEMMA Assemble ==
    ASSUME Single', Wakes', NEW k, k = line', NEW q, q = pending', NEW p, p = published',
           Ordered(k.down, p),
           \A r \in Readers : reader'[r].on => Rides(k, q, r, reader'[r], p),
           \A r \in Readers : Paced(reader'[r], Window[r], k.down, p)
    PROVE  FlowInv'
BY DEF FlowInv, Riding, Pacing

LEMMA WindowsKeep ==
    ASSUME IInv, \A r \in Readers : reader'[r].window = reader[r].window \/ reader'[r].window = <<>>
    PROVE  Forward
<1>1. ASSUME NEW r \in Readers, reader[r].window # <<>>, reader'[r].window # <<>>
      PROVE  Last(reader[r].window) <= Last(reader'[r].window)
  <2>1. reader[r].window \in Seq(Messages)
    BY DEF IInv, TypeOK, Reader
  <2>2. Last(reader[r].window) \in Nat
    BY <1>1, <2>1, LastType
  <2> QED BY <1>1, <2>2
<1> QED BY <1>1 DEF Forward

(* Nothing is ahead of an empty line.                                      *)
LEMMA EmptyPaced ==
    ASSUME NEW p
    PROVE  /\ Ordered(<<>>, p)
           /\ \A x, n, fs : Paced(x, n, fs, p) => Paced(x, n, <<>>, p)
BY DEF Ordered, Paced, Before

LEMMA ConnectingFacts ==
    /\ Connecting \in Conn /\ Connecting.client = "connecting" /\ Connecting.server = "none"
    /\ Connecting.up = <<>> /\ Connecting.down = <<>> /\ Connecting.loading = <<>> /\ Connecting.joined = {}
    /\ NoConn.client = "none" /\ NoConn.server = "none"
    /\ NoConn.up = <<>> /\ NoConn.down = <<>> /\ NoConn.loading = <<>> /\ NoConn.joined = {}
    /\ \A q, r, x, p : Rides(NoConn, q, r, x, p) => Rides(Connecting, q, r, x, p)
<1>1. /\ Connecting.client = "connecting" /\ Connecting.server = "none"
      /\ Connecting.up = <<>> /\ Connecting.down = <<>> /\ Connecting.loading = <<>> /\ Connecting.joined = {}
      /\ NoConn.client = "none" /\ NoConn.server = "none"
      /\ NoConn.up = <<>> /\ NoConn.down = <<>> /\ NoConn.loading = <<>> /\ NoConn.joined = {}
  BY DEF Connecting, NoConn
<1>2. Connecting \in Conn
  BY NoConnType DEF Connecting, Conn
<1>3. \A q, r, x, p : Rides(NoConn, q, r, x, p) => Rides(Connecting, q, r, x, p)
  BY <1>1, Zenon DEF Rides
<1> QED BY <1>1, <1>2, <1>3

LEMMA Unmoved ==
    ASSUME IInv, FlowInv, Single', Wakes', UNCHANGED <<pending, reader, published>>,
           line' = line \/ (line = NoConn /\ line' = Connecting)
    PROVE  FlowInv' /\ Forward
<1>1. Forward
  BY WindowsKeep
<1> DEFINE p == published
<1>2. /\ Ordered(line.down, p)
      /\ \A r \in Readers : reader[r].on => Rides(line, pending, r, reader[r], p)
      /\ \A r \in Readers : Paced(reader[r], Window[r], line.down, p)
  BY DEF FlowInv, Riding, Pacing
<1>3. line'.down = line.down
  BY ConnectingFacts
<1>4. PICK k : k = line'
  OBVIOUS
<1>5. \A r \in Readers : reader[r].on => Rides(k, pending, r, reader[r], p)
  BY <1>2, <1>4, ConnectingFacts
<1>6. Ordered(k.down, p) /\ \A r \in Readers : Paced(reader[r], Window[r], k.down, p)
  BY <1>2, <1>3, <1>4
<1>7. FlowInv'
  BY <1>4, <1>5, <1>6, Assemble
<1> QED BY <1>1, <1>7

LEMMA TimerFlows ==
    ASSUME IInv, PromptClose, FlowInv, TimerFires
    PROVE  FlowInv' /\ Forward
<1>1. /\ timers > 0 /\ timers' = timers - 1 /\ deferred' = FALSE /\ connect(hidden, FALSE)
      /\ UNCHANGED <<hidden, pending, subs, reader, published, loaded>>
  BY DEF TimerFires
<1>2. hidden \/ \A c \in Conns : conns[c].client # "closing"
  BY DEF IInv, Transport
<1>3. PICK h : h = hidden
  OBVIOUS
<1>4. /\ Single'
      /\ (ws' = ws /\ line' = line) \/ (ws = 0 /\ ws' # 0 /\ line = NoConn /\ line' = Connecting)
      /\ h \/ ws' # 0
  <2>0. PICK d : d = FALSE
    OBVIOUS
  <2>1. connect(h, d) /\ (h \/ \A c \in Conns : conns[c].client # "closing")
    BY <1>1, <1>2, <1>3, <2>0
  <2>2. Single
    BY DEF FlowInv
  <2>3. Single' /\ ((ws' = ws /\ line' = line) \/ (ws = 0 /\ ws' # 0 /\ line = NoConn /\ line' = Connecting))
    BY ONLY IInv, <2>1, <2>2, LineConnects
  <2>4. h \/ d \/ ws' # 0
    BY ONLY IInv, <2>1, <2>2, LineConnects
  <2> QED BY <2>0, <2>3, <2>4
<1>5. Wakes'
  BY <1>1, <1>3, <1>4 DEF Wakes
<1> QED BY <1>1, <1>4, <1>5, Unmoved

LEMMA ShowFlows ==
    ASSUME IInv, PromptClose, FlowInv, Show
    PROVE  FlowInv' /\ Forward
<1>1. /\ \A c \in Conns : conns[c].client # "closing"
      /\ IF pending # <<>> THEN connect(FALSE, deferred) ELSE UNCHANGED <<ws, conns>>
      /\ UNCHANGED <<deferred, timers, pending, subs, reader, published, loaded>>
  BY DEF Show
<1>2. CASE pending # <<>>
  <2>1. PICK d : d = deferred
    OBVIOUS
  <2>2. connect(FALSE, d)
    BY <1>1, <1>2, <2>1
  <2>3. /\ Single'
        /\ (ws' = ws /\ line' = line) \/ (ws = 0 /\ ws' # 0 /\ line = NoConn /\ line' = Connecting)
        /\ d \/ ws' # 0
    <3>0. PICK h : h = FALSE
      OBVIOUS
    <3>1. connect(h, d) /\ (h \/ \A c \in Conns : conns[c].client # "closing")
      BY <1>1, <2>2, <3>0
    <3>2. Single
      BY DEF FlowInv
    <3>3. Single' /\ ((ws' = ws /\ line' = line) \/ (ws = 0 /\ ws' # 0 /\ line = NoConn /\ line' = Connecting))
      BY ONLY IInv, <3>1, <3>2, LineConnects
    <3>4. h \/ d \/ ws' # 0
      BY ONLY IInv, <3>1, <3>2, LineConnects
    <3> QED BY <3>0, <3>3, <3>4
  <2>4. Wakes'
    BY <1>1, <2>1, <2>3 DEF Wakes, FlowInv
  <2> QED BY <1>1, <2>3, <2>4, Unmoved
<1>3. CASE pending = <<>>
  <2>1. Single' /\ line' = line /\ Wakes'
    BY <1>1, <1>3 DEF FlowInv, Single, Wakes, line
  <2> QED BY <1>1, <2>1, Unmoved
<1> QED BY <1>2, <1>3

(* The tab's end or the server's closes: what is on its way down stays.    *)
LEMMA ClosingFlows ==
    ASSUME IInv, FlowInv, ws # 0, ws' = ws, UNCHANGED <<pending, reader, published>>, Wakes',
           NEW k \in Conn, conns' = [conns EXCEPT ![ws] = k], k.down = line.down,
           k.client \notin {"none", "connecting"}, k.client # "open" \/ k.server # "open",
           k.up = line.up \/ k.up = <<>>, k.loading = line.loading \/ k.loading = <<>>
    PROVE  FlowInv' /\ Forward
<1>1. Forward
  BY WindowsKeep
<1>2. Single' /\ k = line'
  BY LineSet DEF FlowInv
<1> DEFINE p == published
<1>3. /\ Ordered(k.down, p)
      /\ \A r \in Readers : reader[r].on => Rides(line, pending, r, reader[r], p)
      /\ \A r \in Readers : Paced(reader[r], Window[r], k.down, p)
  BY DEF FlowInv, Riding, Pacing
<1>4. ASSUME NEW r \in Readers, reader[r].on PROVE Rides(k, pending, r, reader[r], p)
  <2>1. \A id : Own(<<>>, r, id)
    BY DEF Own
  <2>2. /\ Own(pending, r, reader[r].sub) /\ Own(line.up, r, reader[r].sub)
        /\ Own(line.loading, r, reader[r].sub)
    BY <1>3, <1>4 DEF Rides
  <2>3. Own(k.up, r, reader[r].sub) /\ Own(k.loading, r, reader[r].sub)
    BY <2>1, <2>2
  <2> QED BY <2>2, <2>3 DEF Rides
<1>5. FlowInv'
  BY <1>2, <1>3, <1>4, Assemble
<1> QED BY <1>1, <1>5

LEMMA HideFlows ==
    ASSUME IInv, PromptClose, FlowInv, Hide
    PROVE  FlowInv' /\ Forward
<1>1. /\ hidden' = TRUE /\ conns' = IF ws # 0 THEN [conns EXCEPT ![ws].client = "closing"] ELSE conns
      /\ UNCHANGED <<ws, deferred, timers, pending, subs, reader, published, loaded>>
  BY DEF Hide
<1>2. Wakes'
  BY <1>1 DEF Wakes, FlowInv
<1>3. CASE ws = 0
  <2>1. Single' /\ line' = line
    BY <1>1, <1>3 DEF FlowInv, Single, line
  <2> QED BY <1>1, <1>2, <2>1, Unmoved
<1>4. CASE ws # 0
  <2> DEFINE k == [line EXCEPT !.client = "closing"]
  <2>1. line \in Conn /\ line = conns[ws]
    BY <1>4, LineFacts DEF FlowInv
  <2>2. /\ k \in Conn /\ k.down = line.down /\ k.client = "closing" /\ k.up = line.up /\ k.loading = line.loading
    BY <2>1 DEF Conn
  <2>3. conns' = [conns EXCEPT ![ws] = k]
    BY <1>1, <1>4, <2>1
  <2> HIDE DEF k
  <2> QED BY <1>1, <1>2, <1>4, <2>2, <2>3, ClosingFlows
<1> QED BY <1>3, <1>4

LEMMA ServerClosesFlows ==
    ASSUME IInv, PromptClose, FlowInv, NEW c \in Conns, ServerCloses(c)
    PROVE  FlowInv' /\ Forward
<1>1. /\ conns[c].server = "open"
      /\ conns' = [conns EXCEPT ![c].server = "closed", ![c].up = <<>>, ![c].joined = {}, ![c].loading = <<>>]
      /\ UNCHANGED <<tab, reader, published, loaded>>
  BY DEF ServerCloses
<1>2. ws # 0 /\ c = ws /\ line = conns[ws] /\ line \in Conn /\ line.client # "none" /\ line.client # "connecting"
  BY <1>1, LineFacts, ConnectingFacts DEF FlowInv
<1> DEFINE k == [line EXCEPT !.server = "closed", !.up = <<>>, !.joined = {}, !.loading = <<>>]
<1>3. /\ k \in Conn /\ k.down = line.down /\ k.client = line.client /\ k.server = "closed"
      /\ k.up = <<>> /\ k.loading = <<>>
  <2>1. <<>> \in Seq(ClientFrame)
    OBVIOUS
  <2> QED BY <1>2, <2>1 DEF Conn
<1>4. conns' = [conns EXCEPT ![ws] = k]
  BY <1>1, <1>2
<1> HIDE DEF k
<1>5. Wakes' /\ UNCHANGED <<pending, reader, published, ws>>
  BY <1>1 DEF Wakes, FlowInv, tab
<1> QED BY <1>2, <1>3, <1>4, <1>5, ClosingFlows

LEMMA OpensFlows ==
    ASSUME IInv, PromptClose, FlowInv, NEW c \in Conns, Opens(c)
    PROVE  FlowInv' /\ Forward
<1>1. /\ conns[c].client = "connecting"
      /\ UNCHANGED <<hidden, ws, deferred, timers, subs, reader, published, loaded>>
  BY DEF Opens
<1>2. ws # 0 /\ c = ws /\ ws \in Conns /\ line = conns[ws] /\ line = Connecting
  BY <1>1, LineFacts DEF FlowInv
<1> DEFINE k == [line EXCEPT !.client = "open", !.server = "open", !.up = <<>> \o pending]
           p == published
<1>3. conns \in [Conns -> Conn] /\ pending \in Seq(ClientFrame)
  BY DEF IInv, TypeOK
<1>4. <<>> \o pending = pending
  BY <1>3
<1>5. /\ k \in Conn /\ k.client = "open" /\ k.server = "open" /\ k.up = pending /\ k.down = <<>>
      /\ k.loading = <<>>
  BY <1>2, <1>3, <1>4, ConnectingFacts DEF Conn
<1>6. conns' = [conns EXCEPT ![ws] = k] /\ pending' = <<>>
  <2> DEFINE cs == [conns EXCEPT ![c].client = "open", ![c].server = "open"]
             o == [line EXCEPT !.client = "open", !.server = "open"]
  <2>1. cs = [conns EXCEPT ![ws] = o]
    BY <1>2, <1>3
  <2>2. cs[ws] = o /\ o.client = "open" /\ o.up = <<>>
    BY <1>2, <1>3, <2>1, ConnectingFacts DEF Conn
  <2>3. conns' = [cs EXCEPT ![ws].up = @ \o pending] /\ pending' = <<>>
    BY <1>2, <2>2 DEF Opens
  <2>4. conns' = [cs EXCEPT ![ws] = [o EXCEPT !.up = <<>> \o pending]]
    BY <2>2, <2>3
  <2>5. [o EXCEPT !.up = <<>> \o pending] = k
    OBVIOUS
  <2> QED BY <2>1, <2>3, <2>4, <2>5
<1> HIDE DEF k
<1>7. Single' /\ k = line'
  BY <1>1, <1>2, <1>5, <1>6, LineSet DEF FlowInv
<1>8. Wakes'
  BY <1>1, <1>6 DEF Wakes, FlowInv
<1>9. Forward
  BY <1>1, WindowsKeep
<1>10. ASSUME NEW r \in Readers, reader[r].on PROVE Rides(k, <<>>, r, reader[r], p)
  <2>1. Own(pending, r, reader[r].sub) /\ Asked(pending, reader[r].sub)
    BY <1>2, <1>10, ConnectingFacts DEF FlowInv, Riding, Rides
  <2>2. \A id : Own(<<>>, r, id)
    BY DEF Own
  <2>3. Served(k, r, reader[r], p)
    BY <1>5, <2>1 DEF Served
  <2> QED BY <1>5, <2>1, <2>2, <2>3 DEF Rides
<1>11. Ordered(k.down, p) /\ \A r \in Readers : Paced(reader[r], Window[r], k.down, p)
  BY <1>5, EmptyPaced DEF FlowInv, Pacing
<1>12. FlowInv'
  BY <1>1, <1>6, <1>7, <1>8, <1>10, <1>11, Assemble
<1> QED BY <1>9, <1>12

LEMMA ReceivesFlows ==
    ASSUME IInv, PromptClose, FlowInv, NEW c \in Conns, Receives(c)
    PROVE  FlowInv' /\ Forward
<1> DEFINE f == Head(conns[c].down)
           heard(r) == reader[r].sub \in subs /\ (f.type = "msg" \/ f.sub = reader[r].sub)
           p == published
<1>1. /\ conns[c].client = "open" /\ conns[c].down # <<>>
      /\ reader' = [r \in Readers |->
               IF ~ heard(r) THEN reader[r]
               ELSE IF f.type = "replay" THEN commit(Took(r, reader[r], f.messages))
               ELSE Took(r, reader[r], f.messages)]
      /\ conns' = [conns EXCEPT ![c].down = Tail(@)]
      /\ UNCHANGED <<tab, published, loaded>>
  BY DEF Receives
<1>2. /\ ws # 0 /\ c = ws /\ line = conns[ws] /\ line \in Conn /\ line.down \in Seq(ServerFrame)
      /\ line.client = "open" /\ line.down # <<>> /\ p \in Nat /\ f = Head(line.down)
  BY <1>1, LineFacts DEF FlowInv
<1> DEFINE k == [line EXCEPT !.down = Tail(line.down)]
<1>3. Tail(line.down) \in Seq(ServerFrame) /\ f = line.down[1] /\ 1 \in DOMAIN line.down
  BY <1>2, TailFacts
<1>4. f \in ServerFrame /\ f.messages \in Seq(Messages)
  BY <1>2, <1>3, Reading
<1>5. /\ k \in Conn /\ k.down = Tail(line.down) /\ k.client = "open" /\ k.server = line.server
      /\ k.up = line.up /\ k.loading = line.loading /\ k.joined = line.joined
  BY <1>2, <1>3 DEF Conn
<1>6. conns' = [conns EXCEPT ![ws] = k]
  BY <1>1, <1>2
<1> HIDE DEF k
<1>7. Single' /\ k = line'
  BY <1>1, <1>2, <1>5, <1>6, LineSet DEF FlowInv, tab
<1>8. Wakes'
  BY <1>1 DEF Wakes, FlowInv, tab
<1>9. ASSUME NEW r \in Readers
      PROVE  /\ reader'[r] = reader[r] \/ reader'[r] = HeardBy(r, reader[r], f)
             /\ reader[r].on => reader'[r] = HeardBy(r, reader[r], f)
             /\ reader'[r].sub = reader[r].sub /\ reader'[r].on = reader[r].on
  <2>1. reader[r].on => reader[r].sub \in subs
    BY DEF IInv, TypeOK
  <2>2. reader[r] \in Reader
    BY DEF IInv, TypeOK
  <2>3. /\ Took(r, reader[r], f.messages) \in Reader
        /\ Took(r, reader[r], f.messages).sub = reader[r].sub
        /\ Took(r, reader[r], f.messages).on = reader[r].on
    BY <1>4, <2>2, TookType
  <2>4. /\ commit(Took(r, reader[r], f.messages)).sub = reader[r].sub
        /\ commit(Took(r, reader[r], f.messages)).on = reader[r].on
    BY <2>3, CommitType
  <2> HIDE DEF f
  <2>5. reader'[r] = IF ~ heard(r) THEN reader[r]
                     ELSE IF f.type = "replay" THEN commit(Took(r, reader[r], f.messages))
                     ELSE Took(r, reader[r], f.messages)
    BY <1>1 DEF f
  <2>6. CASE heard(r)
    <3>1. reader'[r] = HeardBy(r, reader[r], f)
      BY <2>5, <2>6 DEF HeardBy
    <3> QED BY <2>3, <2>4, <2>5, <3>1
  <2>7. CASE ~ heard(r)
    <3>1. reader'[r] = reader[r]
      BY <2>5, <2>7
    <3>2. reader[r].on => HeardBy(r, reader[r], f) = reader[r]
      BY <2>1, <2>7 DEF HeardBy
    <3> QED BY <3>1, <3>2
  <2> QED BY <2>6, <2>7
<1>10. /\ Ordered(line.down, p)
       /\ \A r \in Readers : reader[r].on => Rides(line, pending, r, reader[r], p)
       /\ \A r \in Readers : Paced(reader[r], Window[r], line.down, p)
  BY DEF FlowInv, Riding, Pacing
<1>11. ASSUME NEW r \in Readers
       PROVE  /\ Paced(reader'[r], Window[r], k.down, p)
              /\ reader[r].window # <<>> /\ reader'[r].window # <<>> =>
                     Last(reader[r].window) <= Last(reader'[r].window)
  <2>1. reader[r] \in Reader
    BY DEF IInv, TypeOK
  <2>2. PICK y : y = reader'[r]
    OBVIOUS
  <2>3. y = reader[r] \/ y = HeardBy(r, reader[r], Head(line.down))
    BY <1>2, <1>9, <2>2
  <2>4. /\ Paced(y, Window[r], Tail(line.down), p)
        /\ reader[r].window # <<>> /\ y.window # <<>> => Last(reader[r].window) <= Last(y.window)
    BY <1>2, <1>10, <2>1, <2>3, PacedHears
  <2> QED BY <1>5, <2>2, <2>4
<1>12. ASSUME NEW r \in Readers, reader'[r].on
       PROVE  Rides(k, pending, r, reader'[r], p)
  <2>1. reader[r].on /\ reader'[r].sub = reader[r].sub /\ reader'[r] = HeardBy(r, reader[r], f)
    BY <1>9, <1>12
  <2>2. Rides(line, pending, r, reader[r], p) /\ reader[r] \in Reader
    BY <1>10, <2>1 DEF IInv, TypeOK
  <2>3. PICK y : y = reader'[r]
    OBVIOUS
  <2>4. ASSUME k.server = "open" PROVE Served(k, r, y, p)
    <3>1. Served(line, r, reader[r], p)
      BY <1>2, <1>5, <2>2, <2>4 DEF Rides
    <3>2. y = HeardBy(r, reader[r], Head(line.down))
      BY <1>2, <2>1, <2>3
    <3> QED BY <1>2, <1>5, <1>10, <2>2, <3>1, <3>2, ServedHears
  <2>5. y.sub = reader[r].sub
    BY <2>1, <2>3
  <2>6. Rides(k, pending, r, y, p)
    BY <1>5, <2>2, <2>4, <2>5 DEF Rides
  <2> QED BY <2>3, <2>6
<1>13. Ordered(k.down, p)
  BY <1>2, <1>5, <1>10, TailOrdered
<1>14. pending' = pending /\ published' = p
  BY <1>1 DEF tab
<1>15. FlowInv'
  BY <1>7, <1>8, <1>11, <1>12, <1>13, <1>14, Assemble
<1> QED BY <1>11, <1>15 DEF Forward

(* Every reader there is has the frame of its fresh id queued.             *)
LEMMA FreshAsked ==
    ASSUME NEW active \in SUBSET Readers, NEW fresh \in [active -> SubIds], IsInjective(fresh),
           NEW order \in SetToSeqs(active), NEW q, q = SubFrames(order, fresh)
    PROVE  /\ \A r \in active : Own(q, r, fresh[r]) /\ Asked(q, fresh[r])
           /\ active = {} => q = <<>>
<1> DEFINE n == Cardinality(active)
<1>1. IsFiniteSet(active) /\ n \in Nat
  BY FS_Subset, FS_CardinalityType, SocketsAssumption
<1>2. order \in [1 .. n -> active] /\ \A i, j \in 1 .. n : i # j => order[i] # order[j]
  BY DEF SetToSeqs
<1>3. Cardinality(1 .. n) = n
  BY <1>1, FS_Interval
<1>4. \A r \in active : \E i \in 1 .. n : order[i] = r
  <2>1. order \in Injection(1 .. n, active)
    BY <1>2 DEF Injection, IsInjective
  <2>2. order \in Surjection(1 .. n, active)
    BY <1>1, <1>3, <2>1, FS_Injection
  <2> QED BY <2>2 DEF Surjection
<1>5. active = {} => n = 0
  BY FS_EmptySet
<1> HIDE DEF n
<1>6. q = [i \in 1 .. n |-> SubFrame(order[i], fresh[order[i]])]
  BY <1>2 DEF SubFrames
<1>7. ASSUME NEW r \in active PROVE Own(q, r, fresh[r]) /\ Asked(q, fresh[r])
  <2>1. ASSUME NEW i \in 1 .. n, q[i].sub = fresh[r] PROVE q[i] = SubFrame(r, fresh[r])
    <3>1. order[i] \in active /\ q[i] = SubFrame(order[i], fresh[order[i]])
      BY <1>2, <1>6
    <3>2. fresh[order[i]] = fresh[r]
      BY <2>1, <3>1 DEF SubFrame
    <3>3. order[i] = r
      BY <3>1, <3>2 DEF IsInjective
    <3> QED BY <3>1, <3>3
  <2>2. PICK i \in 1 .. n : order[i] = r
    BY <1>4
  <2>3. q[i].sub = fresh[r]
    BY <1>6, <2>2 DEF SubFrame
  <2> QED BY <1>6, <2>1, <2>2, <2>3 DEF Own, Asked
<1>8. active = {} => q = <<>>
  BY <1>1, <1>5, <1>6
<1> QED BY <1>7, <1>8

LEMMA ClosesFlows ==
    ASSUME IInv, PromptClose, FlowInv, NEW c \in Conns, Closes(c)
    PROVE  FlowInv' /\ Forward
<1> DEFINE active == {r \in Readers : reader[r].sub \in subs}
           p == published
<1>1. PICK fresh \in [active -> SubIds] :
          IsInjective(fresh) /\ (\A r \in active : Unused(fresh[r])) /\ Restarts(active, fresh)
  BY DEF Closes
<1>2. /\ ws' = 0 /\ conns' = [conns EXCEPT ![c] = NoConn] /\ UNCHANGED <<hidden, published, loaded>>
      /\ conns[c].client # "none"
      /\ IF active = {} /\ pending = <<>> THEN UNCHANGED <<deferred, timers>>
         ELSE timers' = timers + 1 /\ deferred' = TRUE
  BY DEF Closes, Up
<1>3. \A r \in Readers : reader[r].on => r \in active
  BY DEF IInv, TypeOK
<1> HIDE DEF active
<1>4. active \in SUBSET Readers
  BY DEF active
<1>5. reader' = [r \in Readers |->
            IF r \notin active THEN reader[r]
            ELSE [reader[r] EXCEPT !.sub = fresh[r], !.seeding = TRUE, !.seed = <<>>,
                                   !.refreshing = (reader[r].window # <<>>)]]
  BY <1>1 DEF Restarts, Resubscribed
<1>6. PICK order \in SetToSeqs(active) : pending' = SubFrames(order, fresh)
  BY <1>1 DEF Restarts
<1>7. PICK q : q = pending'
  OBVIOUS
<1>8. /\ \A r \in active : Own(q, r, fresh[r]) /\ Asked(q, fresh[r])
      /\ active = {} => q = <<>>
  BY <1>1, <1>4, <1>6, <1>7, FreshAsked
<1>9. ASSUME NEW r \in Readers
      PROVE  /\ reader'[r].window = reader[r].window /\ reader'[r].on = reader[r].on
             /\ r \in active => reader'[r].sub = fresh[r] /\ reader'[r].seeding /\ reader'[r].seed = <<>>
             /\ r \notin active => reader'[r] = reader[r]
  <2>1. reader[r] \in Reader
    BY DEF IInv, TypeOK
  <2>2. CASE r \in active
    <3> DEFINE shown == reader[r].window # <<>>
    <3>1. reader'[r] = [reader[r] EXCEPT !.sub = fresh[r], !.seeding = TRUE, !.seed = <<>>,
                                         !.refreshing = shown]
      BY <1>5, <2>2
    <3> HIDE DEF shown
    <3> QED BY <2>1, <2>2, <3>1 DEF Reader
  <2>3. CASE r \notin active
    BY <1>5, <2>3
  <2> QED BY <2>2, <2>3
<1>10. Single' /\ line' = NoConn
  <2>1. c = ws /\ conns \in [Conns -> Conn]
    BY <1>2, LineFacts DEF FlowInv, IInv, TypeOK
  <2> QED BY <1>2, <2>1 DEF FlowInv, Single, line
<1>11. Wakes'
  <2>1. timers \in Nat
    BY SocketsAssumption DEF IInv, TypeOK
  <2>2. CASE active = {} /\ pending = <<>>
    BY <1>2, <1>7, <1>8, <2>2 DEF Wakes, FlowInv
  <2>3. CASE ~ (active = {} /\ pending = <<>>)
    <3>1. deferred' = TRUE /\ timers' > 0
      BY <1>2, <2>1, <2>3
    <3> QED BY <3>1 DEF Wakes
  <2> QED BY <2>2, <2>3
<1>12. Forward
  BY <1>9, WindowsKeep
<1>13. ASSUME NEW r \in Readers, reader'[r].on
       PROVE  Rides(NoConn, q, r, reader'[r], p)
  <2>1. r \in active /\ reader'[r].sub = fresh[r]
    BY <1>3, <1>9, <1>13
  <2>2. PICK y : y = reader'[r]
    OBVIOUS
  <2>3. Own(q, r, y.sub) /\ Asked(q, y.sub) /\ Own(<<>>, r, y.sub)
    BY <1>8, <2>1, <2>2 DEF Own
  <2>4. Rides(NoConn, q, r, y, p)
    BY <2>3, ConnectingFacts DEF Rides
  <2> QED BY <2>2, <2>4
<1>14. ASSUME NEW r \in Readers
       PROVE  Paced(reader'[r], Window[r], <<>>, p)
  <2>1. Paced(reader[r], Window[r], <<>>, p)
    BY EmptyPaced DEF FlowInv, Pacing
  <2>2. CASE r \notin active
    BY <1>9, <2>1, <2>2
  <2>3. CASE r \in active
    <3>1. PICK y : y = reader'[r]
      OBVIOUS
    <3>2. y.window = reader[r].window /\ y.seeding /\ y.seed = <<>>
      BY <1>9, <2>3, <3>1
    <3>3. Len(<<>>) <= Window[r] /\ Before(<<>>, <<>>, p)
      BY SocketsAssumption DEF Before, UpTo
    <3>4. Paced(y, Window[r], <<>>, p)
      BY <2>1, <3>2, <3>3 DEF Paced
    <3> QED BY <3>1, <3>4
  <2> QED BY <2>2, <2>3
<1>15. Ordered(NoConn.down, p) /\ NoConn.down = <<>>
  BY EmptyPaced, ConnectingFacts
<1>16. FlowInv'
  BY <1>2, <1>7, <1>10, <1>11, <1>13, <1>14, <1>15, Assemble
<1> QED BY <1>12, <1>16

-----------------------------------------------------------------------------
(* send(): what a frame put on the line, or queued, leaves of the others.  *)
Sends(k, q, f, k2, q2) ==
    \/ k.client = "open" /\ k2 = [k EXCEPT !.up = Append(k.up, f)] /\ q2 = q
    \/ k.client # "open" /\ (k2 = k \/ (k = NoConn /\ k2 = Connecting)) /\ q2 = Append(q, f)

LEMMA SendLine ==
    ASSUME IInv, PromptClose, FlowInv, NEW f \in ClientFrame, send(f), UNCHANGED <<hidden, deferred, timers>>
    PROVE  Single' /\ Wakes' /\ \E k, q : k = line' /\ q = pending' /\ Sends(line, pending, f, k, q)
<1>1. CASE ws # 0 /\ conns[ws].client = "open"
  <2> DEFINE k == [line EXCEPT !.up = Append(line.up, f)]
  <2>1. line = conns[ws] /\ line \in Conn /\ line.up \in Seq(ClientFrame)
    BY <1>1, LineFacts DEF FlowInv
  <2>2. Append(line.up, f) \in Seq(ClientFrame)
    BY <2>1, AppendProperties
  <2>3. k \in Conn /\ k.client = "open"
    BY <1>1, <2>1, <2>2 DEF Conn
  <2>4. conns' = [conns EXCEPT ![ws] = k] /\ UNCHANGED <<ws, pending>>
    BY <1>1, <2>1 DEF send
  <2>5. Sends(line, pending, f, k, pending)
    BY <1>1, <2>1 DEF Sends
  <2> HIDE DEF k
  <2>6. Single' /\ k = line'
    BY <1>1, <2>3, <2>4, LineSet DEF FlowInv
  <2>7. Wakes'
    BY <2>4 DEF Wakes, FlowInv
  <2> QED BY <2>4, <2>5, <2>6, <2>7
<1>2. CASE ~ (ws # 0 /\ conns[ws].client = "open")
  <2>1. pending' = Append(pending, f) /\ connect(hidden, deferred)
    BY <1>2 DEF send
  <2>2. PICK h : h = hidden
    OBVIOUS
  <2>3. PICK d : d = deferred
    OBVIOUS
  <2>4. connect(h, d) /\ (h \/ \A c \in Conns : conns[c].client # "closing")
    BY <2>1, <2>2, <2>3 DEF IInv, Transport
  <2>5. Single
    BY DEF FlowInv
  <2>6. Single' /\ ((ws' = ws /\ line' = line) \/ (ws = 0 /\ ws' # 0 /\ line = NoConn /\ line' = Connecting))
    BY ONLY IInv, <2>4, <2>5, LineConnects
  <2>7. h \/ d \/ ws' # 0
    BY ONLY IInv, <2>4, <2>5, LineConnects
  <2>8. Wakes'
    BY <2>2, <2>3, <2>7 DEF Wakes, FlowInv
  <2>9. line.client # "open"
    BY <1>2, <2>5, LineFacts, ConnectingFacts
  <2>10. PICK k, q : k = line' /\ q = pending'
    OBVIOUS
  <2>11. Sends(line, pending, f, k, q)
    BY <2>1, <2>6, <2>9, <2>10 DEF Sends
  <2> QED BY <2>6, <2>8, <2>10, <2>11
<1> QED BY <1>1, <1>2

LEMMA OwnAppend ==
    ASSUME NEW s \in Seq(ClientFrame), NEW f \in ClientFrame, NEW r, NEW id
    PROVE  /\ Own(s, r, id) /\ (f.sub # id \/ f = SubFrame(r, id)) => Own(Append(s, f), r, id)
           /\ Asked(s, id) \/ f.sub = id => Asked(Append(s, f), id)
<1> DEFINE t == Append(s, f)
<1>1. /\ Len(s) + 1 \in DOMAIN t /\ t[Len(s) + 1] = f
      /\ \A j \in DOMAIN t : j \in DOMAIN s \/ j = Len(s) + 1
      /\ \A j \in DOMAIN s : j \in DOMAIN t /\ t[j] = s[j]
  BY AppendFacts
<1> HIDE DEF t
<1>2. ASSUME Own(s, r, id), f.sub # id \/ f = SubFrame(r, id) PROVE Own(t, r, id)
  BY <1>1, <1>2 DEF Own
<1>3. ASSUME Asked(s, id) \/ f.sub = id PROVE Asked(t, id)
  BY <1>1, <1>3 DEF Asked
<1> QED BY <1>2, <1>3 DEF t

LEMMA SentRides ==
    ASSUME NEW k \in Conn, NEW q \in Seq(ClientFrame), NEW f \in ClientFrame, NEW k2, NEW q2,
           Sends(k, q, f, k2, q2), NEW r, NEW x, NEW p, Rides(k, q, r, x, p), f.sub # x.sub
    PROVE  Rides(k2, q2, r, x, p)
<1> DEFINE id == x.sub
<1>1. Own(q, r, id) /\ Own(k.up, r, id) /\ Own(k.loading, r, id)
  BY DEF Rides
<1>2. k.up \in Seq(ClientFrame)
  BY DEF Conn
<1>3. CASE k.client = "open" /\ k2 = [k EXCEPT !.up = Append(k.up, f)] /\ q2 = q
  <2> DEFINE up == Append(k.up, f)
  <2>1. Own(up, r, id) /\ (Asked(k.up, id) => Asked(up, id))
    BY <1>1, <1>2, OwnAppend
  <2> HIDE DEF up
  <2>2. /\ k2.up = up /\ k2.down = k.down /\ k2.loading = k.loading /\ k2.joined = k.joined
        /\ k2.client = "open" /\ k2.server = k.server
    BY <1>3 DEF Conn, up
  <2>3. k.server = "open" => Served(k, r, x, p)
    BY <1>3 DEF Rides
  <2>4. k.server = "open" => Served(k2, r, x, p)
    BY <2>1, <2>2, <2>3 DEF Served
  <2> QED BY <1>1, <1>3, <2>1, <2>2, <2>4 DEF Rides
<1>4. CASE k.client # "open" /\ (k2 = k \/ (k = NoConn /\ k2 = Connecting)) /\ q2 = Append(q, f)
  <2>1. Own(q2, r, id) /\ (Asked(q, id) => Asked(q2, id))
    BY <1>1, <1>4, OwnAppend
  <2>2. Rides(k, q2, r, x, p)
    BY <1>4, <2>1 DEF Rides
  <2> QED BY <1>4, <2>2, ConnectingFacts
<1> QED BY <1>3, <1>4 DEF Sends

(* A reader whose id nothing carried has asked with the frame sent.        *)
LEMMA SentAsks ==
    ASSUME NEW k \in Conn, NEW q \in Seq(ClientFrame), NEW r \in Readers, NEW id,
           SubFrame(r, id) \in ClientFrame, NEW k2, NEW q2, Sends(k, q, SubFrame(r, id), k2, q2),
           ~ Carries(q, id), ~ Carries(k.up, id), ~ Carries(k.down, id), ~ Carries(k.loading, id),
           NEW x, x.sub = id, NEW p
    PROVE  Rides(k2, q2, r, x, p)
<1> DEFINE f == SubFrame(r, id)
<1>1. f.sub = id /\ f = SubFrame(r, id) /\ f \in ClientFrame
  BY DEF SubFrame
<1>2. Own(q, r, id) /\ Own(k.up, r, id) /\ Own(k.loading, r, id)
  BY DEF Own, Carries
<1>3. \A i \in DOMAIN k.down : ~ Replays(k.down[i], id)
  BY DEF Carries, Replays
<1>4. k.up \in Seq(ClientFrame)
  BY DEF Conn
<1>5. Sends(k, q, f, k2, q2)
  OBVIOUS
<1> HIDE DEF f
<1>6. CASE k.client = "open" /\ k2 = [k EXCEPT !.up = Append(k.up, f)] /\ q2 = q
  <2> DEFINE up == Append(k.up, f)
  <2>1. Own(up, r, id) /\ Asked(up, id)
    BY <1>1, <1>2, <1>4, OwnAppend
  <2> HIDE DEF up
  <2>2. k2.up = up /\ k2.down = k.down /\ k2.loading = k.loading /\ k2.client = "open"
    BY <1>6 DEF Conn, up
  <2>3. Served(k2, r, x, p)
    BY <1>3, <2>1, <2>2 DEF Served
  <2> QED BY <1>2, <1>6, <2>1, <2>2, <2>3 DEF Rides
<1>7. CASE k.client # "open" /\ (k2 = k \/ (k = NoConn /\ k2 = Connecting)) /\ q2 = Append(q, f)
  <2>1. Own(q2, r, id) /\ Asked(q2, id)
    BY <1>1, <1>2, <1>7, OwnAppend
  <2>2. Rides(k, q2, r, x, p)
    BY <1>2, <1>7, <2>1 DEF Rides
  <2> QED BY <1>7, <2>2, ConnectingFacts
<1> QED BY <1>5, <1>6, <1>7 DEF Sends

LEMMA SentPaces ==
    ASSUME NEW k \in Conn, NEW q, NEW f, NEW k2, NEW q2, Sends(k, q, f, k2, q2)
    PROVE  k2.down = k.down
BY ConnectingFacts DEF Sends, Conn

LEMMA OpenFlows ==
    ASSUME IInv, PromptClose, FlowInv, NEW r \in Readers, Open(r)
    PROVE  FlowInv' /\ Forward
<1>1. PICK id \in SubIds :
          /\ Unused(id)
          /\ reader' = [reader EXCEPT ![r] = [Off EXCEPT !.on = TRUE, !.sub = id, !.seeding = TRUE]]
          /\ send(SubFrame(r, id))
  BY DEF Open
<1>2. ~ reader[r].on /\ UNCHANGED <<hidden, deferred, timers, published, loaded>>
  BY DEF Open
<1> DEFINE f == SubFrame(r, id)
           p == published
<1>3. f \in ClientFrame /\ f.sub = id
  BY SocketsAssumption DEF SubFrame, ClientFrame
<1>4. /\ line \in Conn /\ pending \in Seq(ClientFrame)
      /\ ~ Carries(pending, id) /\ ~ Carries(line.up, id) /\ ~ Carries(line.down, id)
      /\ ~ Carries(line.loading, id)
  <2>1. line \in Conn /\ pending \in Seq(ClientFrame) /\ ~ Carries(pending, id)
    BY <1>1, LineFacts DEF FlowInv, Unused
  <2>2. CASE ws = 0
    BY <2>1, <2>2, LineFacts, ConnectingFacts DEF FlowInv, Carries
  <2>3. CASE ws # 0
    <3>1. ws \in Conns /\ line = conns[ws]
      BY <2>3, LineFacts DEF FlowInv
    <3> QED BY <1>1, <2>1, <3>1 DEF Unused
  <2> QED BY <2>2, <2>3
<1>5. Single' /\ Wakes' /\ \E k, q : k = line' /\ q = pending' /\ Sends(line, pending, f, k, q)
  BY <1>1, <1>2, <1>3, SendLine
<1>6. PICK k, q : k = line' /\ q = pending' /\ Sends(line, pending, f, k, q)
  BY <1>5
<1>7. /\ reader'[r].on /\ reader'[r].sub = id /\ reader'[r].seeding
      /\ reader'[r].window = <<>> /\ reader'[r].seed = <<>>
      /\ \A s \in Readers : s # r => reader'[s] = reader[s]
  <2>1. reader \in [Readers -> Reader]
    BY DEF IInv, TypeOK
  <2> QED BY <1>1, <2>1 DEF Off
<1>8. ASSUME NEW s \in Readers, reader'[s].on PROVE Rides(k, q, s, reader'[s], p)
  <2>1. CASE s = r
    <3>1. PICK y : y = reader'[r]
      OBVIOUS
    <3>2. y.sub = id
      BY <1>7, <3>1
    <3>3. Rides(k, q, r, y, p)
      BY <1>3, <1>4, <1>6, <3>2, SentAsks
    <3> QED BY <2>1, <3>1, <3>3
  <2>2. CASE s # r
    <3>1. reader'[s] = reader[s] /\ reader[s].on /\ f.sub # reader[s].sub
      BY <1>1, <1>3, <1>7, <1>8, <2>2 DEF Unused
    <3>2. Rides(line, pending, s, reader[s], p)
      BY <3>1 DEF FlowInv, Riding
    <3>3. Rides(k, q, s, reader[s], p)
      BY <1>3, <1>4, <1>6, <3>1, <3>2, SentRides
    <3> QED BY <3>1, <3>3
  <2> QED BY <2>1, <2>2
<1>9. k.down = line.down /\ Ordered(line.down, p) /\ \A s \in Readers : Paced(reader[s], Window[s], line.down, p)
  BY <1>4, <1>6, SentPaces DEF FlowInv, Pacing
<1>10. ASSUME NEW s \in Readers PROVE Paced(reader'[s], Window[s], line.down, p)
  <2>1. CASE s = r
    <3>1. PICK y : y = reader'[r]
      OBVIOUS
    <3>2. Len(<<>>) <= Window[r] /\ Before(<<>>, line.down, p)
      BY SocketsAssumption DEF Before, UpTo
    <3>3. Paced(y, Window[r], line.down, p)
      BY <1>7, <3>1, <3>2 DEF Paced
    <3> QED BY <2>1, <3>1, <3>3
  <2>2. CASE s # r
    BY <1>7, <1>9, <2>2
  <2> QED BY <2>1, <2>2
<1>11. FlowInv'
  BY <1>2, <1>5, <1>6, <1>8, <1>9, <1>10, Assemble
<1>12. Forward
  BY <1>7, WindowsKeep
<1> QED BY <1>11, <1>12

LEMMA CloseFlows ==
    ASSUME IInv, PromptClose, FlowInv, NEW r \in Readers, Close(r)
    PROVE  FlowInv' /\ Forward
<1> DEFINE id == reader[r].sub
           f == [type |-> "unsub", sub |-> id, replay |-> 0]
           p == published
<1>1. reader[r].on /\ id \in subs /\ id \in SubIds
  BY DEF Close, IInv, TypeOK, ReaderIds
<1>2. /\ reader' = [reader EXCEPT ![r] = Off] /\ send(f)
      /\ UNCHANGED <<hidden, deferred, timers, published, loaded>>
  BY <1>1 DEF Close
<1>3. f \in ClientFrame /\ f.sub = id
  BY <1>1 DEF ClientFrame
<1> HIDE DEF f
<1>4. line \in Conn /\ pending \in Seq(ClientFrame)
  BY LineFacts DEF FlowInv
<1>5. Single' /\ Wakes' /\ \E k, q : k = line' /\ q = pending' /\ Sends(line, pending, f, k, q)
  BY <1>2, <1>3, SendLine
<1>6. PICK k, q : k = line' /\ q = pending' /\ Sends(line, pending, f, k, q)
  BY <1>5
<1>7. reader'[r] = Off /\ \A s \in Readers : s # r => reader'[s] = reader[s]
  <2>1. reader \in [Readers -> Reader]
    BY DEF IInv, TypeOK
  <2> QED BY <1>2, <2>1
<1>8. ASSUME NEW s \in Readers, reader'[s].on PROVE Rides(k, q, s, reader'[s], p)
  <2>1. s # r
    BY <1>7, <1>8, OffType
  <2>2. reader'[s] = reader[s] /\ reader[s].on
    BY <1>7, <1>8, <2>1
  <2>3. f.sub # reader[s].sub
    BY <1>1, <1>3, <2>1, <2>2 DEF IInv, ReaderIds
  <2>4. Rides(line, pending, s, reader[s], p)
    BY <2>2 DEF FlowInv, Riding
  <2>5. Rides(k, q, s, reader[s], p)
    BY <1>3, <1>4, <1>6, <2>3, <2>4, SentRides
  <2> QED BY <2>2, <2>5
<1>9. k.down = line.down /\ Ordered(line.down, p) /\ \A s \in Readers : Paced(reader[s], Window[s], line.down, p)
  BY <1>4, <1>6, SentPaces DEF FlowInv, Pacing
<1>10. ASSUME NEW s \in Readers PROVE Paced(reader'[s], Window[s], line.down, p)
  <2>1. CASE s = r
    <3>1. Off.window = <<>> /\ Off.seed = <<>> /\ ~ Off.seeding
      BY DEF Off
    <3>2. Len(<<>>) <= Window[r] /\ Before(<<>>, line.down, p)
      BY SocketsAssumption DEF Before, UpTo
    <3>3. Paced(Off, Window[r], line.down, p)
      BY <3>1, <3>2 DEF Paced
    <3> QED BY <1>7, <2>1, <3>3
  <2>2. CASE s # r
    BY <1>7, <1>9, <2>2
  <2> QED BY <2>1, <2>2
<1>11. FlowInv'
  BY <1>2, <1>5, <1>6, <1>8, <1>9, <1>10, Assemble
<1>12. Forward
  <2>1. \A s \in Readers : reader'[s].window = reader[s].window \/ reader'[s].window = <<>>
    BY <1>7 DEF Off
  <2> QED BY <2>1, WindowsKeep
<1> QED BY <1>11, <1>12

-----------------------------------------------------------------------------
(* The dispatcher's steps: what they put behind what is on its way down.   *)
LEMMA GrowsAppend ==
    ASSUME NEW fs \in Seq(ServerFrame), NEW f \in ServerFrame, NEW p \in Nat, NEW v,
           v = p \/ v = p + 1, New(f, p, v)
    PROVE  /\ Append(fs, f) \in Seq(ServerFrame) /\ Grows(fs, Append(fs, f), p, v)
           /\ \A j \in DOMAIN Append(fs, f) : j \notin DOMAIN fs => Append(fs, f)[j] = f
           /\ \E j \in DOMAIN Append(fs, f) : Append(fs, f)[j] = f
<1> DEFINE us == Append(fs, f)
           n == Len(fs) + 1
<1>1. /\ us \in Seq(ServerFrame) /\ n \in DOMAIN us /\ us[n] = f
      /\ \A j \in DOMAIN us : j \in Nat /\ (j \in DOMAIN fs \/ j = n)
      /\ \A j \in DOMAIN fs : j \in DOMAIN us /\ us[j] = fs[j] /\ j < n /\ j \in Nat
  BY AppendFacts
<1> HIDE DEF us, n
<1>2. \A j \in DOMAIN us : j \notin DOMAIN fs <=> j = n
  BY <1>1
<1>3. Grows(fs, us, p, v)
  BY <1>1, <1>2 DEF Grows
<1> QED BY <1>1, <1>2, <1>3 DEF us

Chain(fs, gs) == fs \o gs

LEMMA GrowsConcat ==
    ASSUME NEW fs \in Seq(ServerFrame), NEW gs \in Seq(ServerFrame), NEW p \in Nat,
           \A i \in DOMAIN gs : New(gs[i], p, p)
    PROVE  /\ Grows(fs, Chain(fs, gs), p, p)
           /\ \A j \in DOMAIN Chain(fs, gs) :
                 j \notin DOMAIN fs => \E i \in DOMAIN gs : Chain(fs, gs)[j] = gs[i]
           /\ \A i \in DOMAIN gs : \E j \in DOMAIN Chain(fs, gs) : Chain(fs, gs)[j] = gs[i]
<1> DEFINE n == Len(fs)
<1>0. PICK us : us = Chain(fs, gs) /\ us = fs \o gs
  BY DEF Chain
<1>1. us \in Seq(ServerFrame) /\ n \in Nat
  BY <1>0, ConcatFacts
<1>2. \A j \in DOMAIN fs : j \in Nat /\ j <= n /\ j \in DOMAIN us /\ us[j] = fs[j]
  BY <1>0, ConcatFacts
<1>3. \A j \in DOMAIN gs : j \in Nat /\ j >= 1 /\ n + j \in DOMAIN us /\ us[n + j] = gs[j]
  BY <1>0, ConcatFacts
<1>4. \A j \in DOMAIN us : j \in DOMAIN fs \/ \E i \in DOMAIN gs : j = n + i
  BY <1>0, ConcatFacts
<1> HIDE DEF n
<1>5. ASSUME NEW j \in DOMAIN us, j \notin DOMAIN fs
      PROVE  (\E i \in DOMAIN gs : us[j] = gs[i]) /\ New(us[j], p, p) /\ \A i \in DOMAIN fs : i < j
  <2>1. PICK i \in DOMAIN gs : j = n + i
    BY <1>4, <1>5
  <2>2. i \in Nat /\ i >= 1 /\ us[j] = gs[i]
    BY <1>3, <2>1
  <2>3. \A m \in DOMAIN fs : m < j
    BY <1>1, <1>2, <2>1, <2>2
  <2> QED BY <2>2, <2>3
<1>6. Grows(fs, us, p, p)
  BY <1>2, <1>5 DEF Grows
<1> QED BY <1>1, <1>3, <1>5, <1>6, <1>0

(* A replay carries nothing newer than what is published, and ends in it.  *)
LEMMA ReplayIsNew ==
    ASSUME published \in 0 .. MaxMessages, published \in Nat, NEW f \in ClientFrame
    PROVE  /\ ReplayFrame(f) \in ServerFrame /\ New(ReplayFrame(f), published, published)
           /\ Replays(ReplayFrame(f), f.sub) /\ ReplayFrame(f).sub = f.sub
           /\ \A r : f = SubFrame(r, f.sub) => ReplayFrame(f).messages = snapshotTail(Window[r])
<1> DEFINE t == snapshotTail(f.replay)
           m == Least(f.replay, Least(Retention, published))
<1>1. f.replay \in Nat
  BY DEF ClientFrame
<1>2. t \in Seq(Messages) /\ Len(t) = m /\ Ends(t, published, m)
  BY <1>1, SnapshotFacts, SnapshotType
<1>3. m \in Nat
  BY <1>1, SocketsAssumption DEF Least
<1>4. /\ ReplayFrame(f).type = "replay" /\ ReplayFrame(f).sub = f.sub /\ ReplayFrame(f).messages = t
      /\ ReplayFrame(f) \in ServerFrame
  BY FrameTypes DEF ReplayFrame
<1> HIDE DEF t, m
<1>5. t # <<>> => Last(t) = published
  <2> SUFFICES ASSUME t # <<>> PROVE Last(t) = published
    OBVIOUS
  <2>1. m # 0
    BY <1>2, EmptySeq
  <2>2. 0 \in 0 .. m - 1 /\ m - 0 = m
    BY <1>3, <2>1
  <2>3. t[m - 0] = published - 0
    BY <1>2, <2>2 DEF Ends
  <2> QED BY <1>2, <2>2, <2>3 DEF Last
<1>6. \A r : f = SubFrame(r, f.sub) => t = snapshotTail(Window[r])
  BY DEF t, SubFrame
<1> QED BY <1>4, <1>5, <1>6 DEF New, Replays

(* A step of the dispatcher that keeps every reader served.                *)
LEMMA ServerFlows ==
    ASSUME IInv, FlowInv, UNCHANGED <<tab, reader>>, Single', NEW k \in Conn, k = line',
           k.client = line.client,
           NEW v \in Nat, v = published', Grows(line.down, k.down, published, v),
           \A r \in Readers : reader[r].on =>
               /\ Own(k.up, r, reader[r].sub) /\ Own(k.loading, r, reader[r].sub)
               /\ line.client = "open" /\ k.server = "open" => Served(k, r, reader[r], v)
    PROVE  FlowInv' /\ Forward
<1>1. UNCHANGED <<pending, hidden, ws, deferred, timers>>
  BY DEF tab
<1>2. Wakes'
  BY <1>1 DEF Wakes, FlowInv
<1>3. Forward
  BY WindowsKeep
<1>4. line.down \in Seq(ServerFrame) /\ k.down \in Seq(ServerFrame) /\ published \in Nat
  BY LineFacts DEF FlowInv, Conn
<1>5. ASSUME NEW r \in Readers, reader[r].on PROVE Rides(k, pending, r, reader[r], v)
  <2>1. Rides(line, pending, r, reader[r], published)
    BY <1>5 DEF FlowInv, Riding
  <2> QED BY <1>5, <2>1 DEF Rides
<1>6. Ordered(k.down, v)
  BY <1>4, GrowsOrdered DEF FlowInv, Pacing
<1>7. ASSUME NEW r \in Readers PROVE Paced(reader[r], Window[r], k.down, v)
  <2>1. reader[r] \in Reader /\ Paced(reader[r], Window[r], line.down, published)
    BY DEF IInv, TypeOK, FlowInv, Pacing
  <2> QED BY <1>4, <2>1, GrowsPaced
<1>8. FlowInv'
  BY <1>1, <1>2, <1>5, <1>6, <1>7, Assemble
<1> QED BY <1>3, <1>8

(* A frame is taken from the head of what goes up.                         *)
LEMMA OwnTail ==
    ASSUME NEW s \in Seq(ClientFrame), s # <<>>, NEW r, NEW id, Own(s, r, id)
    PROVE  /\ Tail(s) \in Seq(ClientFrame) /\ Head(s) \in ClientFrame
           /\ Own(Tail(s), r, id) /\ (Head(s).sub = id => Head(s) = SubFrame(r, id))
           /\ Asked(s, id) => Head(s).sub = id \/ Asked(Tail(s), id)
<1> DEFINE t == Tail(s)
<1>1. /\ 1 \in DOMAIN s /\ Head(s) = s[1] /\ s[1] \in ClientFrame /\ t \in Seq(ClientFrame)
      /\ \A j \in DOMAIN t : j \in Nat /\ j >= 1 /\ j + 1 \in DOMAIN s /\ t[j] = s[j + 1]
      /\ \A j \in DOMAIN s : j \in Nat /\ j >= 1 /\ (j > 1 => j - 1 \in DOMAIN t /\ t[j - 1] = s[j])
  BY TailFacts
<1> HIDE DEF t
<1>2. Own(t, r, id)
  <2>1. ASSUME NEW j \in DOMAIN t, t[j].sub = id PROVE t[j] = SubFrame(r, id)
    <3>1. PICK m \in DOMAIN s : m = j + 1 /\ t[j] = s[m]
      BY <1>1
    <3> QED BY <2>1, <3>1 DEF Own
  <2> QED BY <2>1 DEF Own
<1>3. s[1].sub = id => s[1] = SubFrame(r, id)
  BY <1>1 DEF Own
<1>4. ASSUME Asked(s, id) PROVE s[1].sub = id \/ Asked(t, id)
  <2>1. PICK j \in DOMAIN s : s[j].sub = id
    BY <1>4 DEF Asked
  <2>2. CASE j = 1
    BY <2>1, <2>2
  <2>3. CASE j # 1
    <3>1. j > 1
      BY <1>1, <2>3
    <3>2. PICK m \in DOMAIN t : m = j - 1 /\ t[m] = s[j]
      BY <1>1, <3>1
    <3> QED BY <2>1, <3>2 DEF Asked
  <2> QED BY <2>2, <2>3
<1> QED BY <1>1, <1>2, <1>3, <1>4 DEF t

LEMMA HandlesFlows ==
    ASSUME IInv, PromptClose, FlowInv, NEW c \in Conns, Handles(c)
    PROVE  FlowInv' /\ Forward
<1> DEFINE f == Head(line.up)
           k == [line EXCEPT !.up = Tail(line.up)]
           new == IF f.type = "unsub" THEN Left(k, f)
                  ELSE IF loaded THEN Joined(k, f)
                  ELSE [k EXCEPT !.loading = Append(k.loading, f)]
           p == published
<1>1. /\ ws # 0 /\ c = ws /\ ws \in Conns /\ line = conns[ws] /\ line \in Conn /\ line.up \in Seq(ClientFrame)
      /\ line.client # "none" /\ line.client # "connecting" /\ line.server = "open" /\ line.up # <<>> /\ p \in Nat
  <2>1. conns[c].server = "open" /\ conns[c].up # <<>>
    BY DEF Handles
  <2> QED BY <2>1, LineFacts, ConnectingFacts DEF FlowInv
<1>2. /\ conns' = [conns EXCEPT ![ws] = new]
      /\ UNCHANGED <<tab, reader, published, loaded>>
  BY <1>1 DEF Handles
<1>3. f \in ClientFrame /\ Tail(line.up) \in Seq(ClientFrame) /\ p \in 0 .. MaxMessages
  BY <1>1, HeadTailProperties DEF IInv, TypeOK
<1>4. /\ k \in Conn /\ k.up = Tail(line.up) /\ k.down = line.down /\ k.loading = line.loading
      /\ k.joined = line.joined /\ k.client = line.client /\ k.server = line.server
  BY <1>1, <1>3 DEF Conn
<1>5. k.down \in Seq(ServerFrame) /\ k.loading \in Seq(ClientFrame)
  BY <1>4 DEF Conn
<1> HIDE DEF f, k
<1>6. ASSUME NEW r \in Readers, reader[r].on
      PROVE  /\ reader[r] \in Reader
             /\ Own(k.up, r, reader[r].sub) /\ (f.sub = reader[r].sub => f = SubFrame(r, reader[r].sub))
             /\ Asked(line.up, reader[r].sub) => f.sub = reader[r].sub \/ Asked(k.up, reader[r].sub)
             /\ Own(k.loading, r, reader[r].sub)
             /\ line.client = "open" => Served(line, r, reader[r], p)
  <2>1. Rides(line, pending, r, reader[r], p) /\ reader[r] \in Reader
    BY <1>6 DEF FlowInv, Riding, IInv, TypeOK
  <2>2. Own(line.up, r, reader[r].sub) /\ Own(k.loading, r, reader[r].sub)
        /\ (line.client = "open" => Served(line, r, reader[r], p))
    BY <1>1, <1>4, <2>1 DEF Rides
  <2> QED BY <1>1, <1>4, <2>1, <2>2, OwnTail DEF f
<1>7. ASSUME NEW k2 \in Conn, conns' = [conns EXCEPT ![ws] = k2], k2.client = line.client,
             Grows(line.down, k2.down, p, p), k2.up = k.up,
             \A r \in Readers : reader[r].on =>
                 /\ Own(k2.loading, r, reader[r].sub)
                 /\ reader[r].sub \in line.joined => reader[r].sub \in k2.joined
                 /\ \A j \in DOMAIN k2.down : j \notin DOMAIN line.down /\ Replays(k2.down[j], reader[r].sub) =>
                       reader[r].sub \in k2.joined /\ k2.down[j].messages = snapshotTail(Window[r])
                 /\ f.sub = reader[r].sub \/ Asked(line.loading, reader[r].sub) =>
                       \/ Asked(k2.loading, reader[r].sub)
                       \/ \E j \in DOMAIN k2.down : Replays(k2.down[j], reader[r].sub)
      PROVE  FlowInv' /\ Forward
  <2>1. Single' /\ k2 = line'
    BY <1>1, <1>2, <1>7, LineSet DEF FlowInv, tab
  <2>2. ASSUME NEW r \in Readers, reader[r].on
        PROVE  /\ Own(k2.up, r, reader[r].sub) /\ Own(k2.loading, r, reader[r].sub)
               /\ line.client = "open" => Served(k2, r, reader[r], p)
    <3>1. Own(k2.up, r, reader[r].sub) /\ Own(k2.loading, r, reader[r].sub)
      BY <1>6, <1>7, <2>2
    <3>2. ASSUME line.client = "open" PROVE Served(k2, r, reader[r], p)
      <4>1. reader[r] \in Reader /\ Served(line, r, reader[r], p)
        BY <1>6, <2>2, <3>2
      <4>2. reader[r].sub \in line.joined => reader[r].sub \in k2.joined
        BY <1>7, <2>2
      <4>3. \A j \in DOMAIN k2.down : j \notin DOMAIN line.down /\ Replays(k2.down[j], reader[r].sub) =>
               p = published /\ reader[r].sub \in k2.joined /\ k2.down[j].messages = snapshotTail(Window[r])
        BY <1>7, <2>2
      <4>4. Asked(line.up, reader[r].sub) \/ Asked(line.loading, reader[r].sub) =>
               \/ Asked(k2.up, reader[r].sub) \/ Asked(k2.loading, reader[r].sub)
               \/ \E j \in DOMAIN k2.down : Replays(k2.down[j], reader[r].sub)
        BY <1>6, <1>7, <2>2
      <4> QED BY <1>1, <1>7, <4>1, <4>2, <4>3, <4>4, ServedGrows
    <3> QED BY <3>1, <3>2
  <2>3. UNCHANGED <<tab, reader>> /\ p = published'
    BY <1>2
  <2> QED BY <1>1, <1>7, <2>1, <2>2, <2>3, ServerFlows
<1>8. CASE f.type = "unsub"
  <2> DEFINE frame == [type |-> "end", sub |-> f.sub, messages |-> <<>>]
             k2 == Left(k, f)
  <2>1. frame \in ServerFrame /\ New(frame, p, p) /\ frame.type = "end"
    <3>1. <<>> \in Seq(Messages)
      OBVIOUS
    <3> QED BY <1>3, <3>1 DEF ServerFrame, ClientFrame, New
  <2>2. /\ k2 \in Conn /\ k2.client = line.client /\ k2.down = Append(k.down, frame) /\ k2.up = k.up
        /\ k2.loading = k.loading /\ k2.joined = k.joined \ {f.sub}
    BY <1>3, <1>4, LeftType DEF Left, Conn
  <2> HIDE DEF frame
  <2>3. /\ Grows(k.down, k2.down, p, p)
        /\ \A j \in DOMAIN k2.down : j \notin DOMAIN k.down => k2.down[j] = frame
    BY <1>1, <1>5, <2>1, <2>2, GrowsAppend
  <2>4. conns' = [conns EXCEPT ![ws] = k2]
    BY <1>2, <1>8
  <2> HIDE DEF k2
  <2>5. ASSUME NEW r \in Readers, reader[r].on PROVE f.sub # reader[r].sub
    BY <1>6, <1>8, <2>5 DEF SubFrame
  <2> QED BY <1>4, <1>6, <1>7, <2>1, <2>2, <2>3, <2>4, <2>5 DEF Replays
<1>9. CASE f.type # "unsub" /\ loaded
  <2> DEFINE frame == ReplayFrame(f)
             k2 == Joined(k, f)
  <2>1. /\ frame \in ServerFrame /\ New(frame, p, p) /\ Replays(frame, f.sub) /\ frame.sub = f.sub
        /\ \A r : f = SubFrame(r, f.sub) => frame.messages = snapshotTail(Window[r])
    BY <1>1, <1>3, ReplayIsNew
  <2>2. /\ k2 \in Conn /\ k2.client = line.client /\ k2.down = Append(k.down, frame) /\ k2.up = k.up
        /\ k2.loading = k.loading /\ k2.joined = k.joined \cup {f.sub}
    <3>1. f.sub \in SubIds
      BY <1>3 DEF ClientFrame
    <3> QED BY <1>3, <1>4, <3>1, JoinedType DEF Joined, Conn
  <2> HIDE DEF frame
  <2>3. /\ Grows(k.down, k2.down, p, p)
        /\ \A j \in DOMAIN k2.down : j \notin DOMAIN k.down => k2.down[j] = frame
        /\ \E j \in DOMAIN k2.down : k2.down[j] = frame
    BY <1>1, <1>5, <2>1, <2>2, GrowsAppend
  <2>4. conns' = [conns EXCEPT ![ws] = k2]
    BY <1>2, <1>9
  <2> HIDE DEF k2
  <2>5. ASSUME NEW r \in Readers, reader[r].on
        PROVE  /\ Own(k2.loading, r, reader[r].sub)
               /\ reader[r].sub \in line.joined => reader[r].sub \in k2.joined
               /\ \A j \in DOMAIN k2.down : j \notin DOMAIN line.down /\ Replays(k2.down[j], reader[r].sub) =>
                     reader[r].sub \in k2.joined /\ k2.down[j].messages = snapshotTail(Window[r])
               /\ f.sub = reader[r].sub \/ Asked(line.loading, reader[r].sub) =>
                     \/ Asked(k2.loading, reader[r].sub)
                     \/ \E j \in DOMAIN k2.down : Replays(k2.down[j], reader[r].sub)
    <3>1. ASSUME NEW j \in DOMAIN k2.down, j \notin DOMAIN line.down, Replays(k2.down[j], reader[r].sub)
          PROVE  reader[r].sub \in k2.joined /\ k2.down[j].messages = snapshotTail(Window[r])
      <4>1. k2.down[j] = frame
        BY <1>4, <2>3, <3>1
      <4>2. f.sub = reader[r].sub
        BY <2>1, <3>1, <4>1 DEF Replays
      <4>3. f = SubFrame(r, f.sub)
        BY <1>6, <2>5, <4>2
      <4> QED BY <2>1, <2>2, <4>1, <4>2, <4>3
    <3>2. f.sub = reader[r].sub => \E j \in DOMAIN k2.down : Replays(k2.down[j], reader[r].sub)
      BY <2>1, <2>3
    <3> QED BY <1>4, <1>6, <2>2, <2>5, <3>1, <3>2
  <2> QED BY <1>4, <1>7, <2>2, <2>3, <2>4, <2>5
<1>10. CASE f.type # "unsub" /\ ~ loaded
  <2> DEFINE k2 == [k EXCEPT !.loading = Append(k.loading, f)]
  <2>1. Append(k.loading, f) \in Seq(ClientFrame)
    BY <1>3, <1>5, AppendProperties
  <2>2. /\ k2 \in Conn /\ k2.client = line.client /\ k2.down = line.down /\ k2.up = k.up
        /\ k2.loading = Append(k.loading, f) /\ k2.joined = line.joined
    BY <1>4, <2>1 DEF Conn
  <2>3. conns' = [conns EXCEPT ![ws] = k2]
    BY <1>2, <1>10
  <2> HIDE DEF k2
  <2>4. Grows(line.down, k2.down, p, p)
    BY <2>2 DEF Grows
  <2>5. ASSUME NEW r \in Readers, reader[r].on
        PROVE  /\ Own(k2.loading, r, reader[r].sub)
               /\ f.sub = reader[r].sub \/ Asked(line.loading, reader[r].sub) => Asked(k2.loading, reader[r].sub)
    BY <1>3, <1>4, <1>5, <1>6, <2>2, <2>5, OwnAppend
  <2> QED BY <1>7, <2>2, <2>3, <2>4, <2>5
<1> QED BY <1>8, <1>9, <1>10

LEMMA LoadsFlows ==
    ASSUME IInv, PromptClose, FlowInv, Loads
    PROVE  FlowInv' /\ Forward
<1> DEFINE p == published
<1>1. /\ conns' = [c \in Conns |-> IF conns[c].server # "open" THEN conns[c] ELSE JoinedAll(conns[c])]
      /\ \E c \in Conns : conns[c].loading # <<>>
      /\ UNCHANGED <<tab, reader, published>>
  BY DEF Loads
<1>2. /\ ws # 0 /\ ws \in Conns /\ line = conns[ws] /\ line \in Conn /\ line.client # "none"
      /\ p \in Nat /\ p \in 0 .. MaxMessages /\ conns \in [Conns -> Conn]
      /\ line.client = "connecting" => line = Connecting
  BY <1>1, LineFacts DEF FlowInv, IInv, TypeOK
<1>3. \A c \in Conns : c # ws => conns[c] = NoConn
  BY DEF FlowInv, Single
<1>4. conns' = [conns EXCEPT ![ws] = IF line.server # "open" THEN line ELSE JoinedAll(line)]
  BY <1>1, <1>2, <1>3, ConnectingFacts
<1>5. CASE line.server # "open"
  <2>1. conns' = [conns EXCEPT ![ws] = line]
    BY <1>4, <1>5
  <2>2. Single' /\ line = line'
    BY <1>1, <1>2, <2>1, LineSet DEF FlowInv, tab
  <2>3. Wakes'
    BY <1>1 DEF Wakes, FlowInv, tab
  <2> QED BY <1>1, <2>2, <2>3, Unmoved DEF tab
<1>6. CASE line.server = "open"
  <2> DEFINE k2 == JoinedAll(line)
             gs == [i \in DOMAIN line.loading |-> ReplayFrame(line.loading[i])]
             ids == {line.loading[i].sub : i \in DOMAIN line.loading}
  <2>1. /\ line.loading \in Seq(ClientFrame) /\ line.down \in Seq(ServerFrame) /\ line.up \in Seq(ClientFrame)
        /\ DOMAIN line.loading = 1 .. Len(line.loading) /\ Len(line.loading) \in Nat
    BY <1>2, LenProperties DEF Conn
  <2>2. \A i \in DOMAIN line.loading : line.loading[i] \in ClientFrame
    BY <2>1
  <2>3. /\ DOMAIN gs = DOMAIN line.loading
        /\ \A i \in DOMAIN gs : gs[i] = ReplayFrame(line.loading[i])
    OBVIOUS
  <2>4. \A i \in DOMAIN gs : gs[i] \in ServerFrame /\ New(gs[i], p, p)
    BY <1>2, <2>2, <2>3, ReplayIsNew
  <2>5. gs \in Seq(ServerFrame)
    <3>1. gs \in [1 .. Len(line.loading) -> ServerFrame]
      BY <2>1, <2>3, <2>4
    <3> QED BY <2>1, <3>1, SeqDef
  <2>6. /\ k2 \in Conn /\ k2.client = line.client /\ k2.down = line.down \o gs /\ k2.up = line.up
        /\ k2.loading = <<>> /\ k2.joined = line.joined \cup ids
    BY <1>2, JoinedAllType DEF JoinedAll, Conn
  <2> HIDE DEF gs
  <2>7. /\ Grows(line.down, k2.down, p, p)
        /\ \A j \in DOMAIN k2.down : j \notin DOMAIN line.down => \E i \in DOMAIN gs : k2.down[j] = gs[i]
        /\ \A i \in DOMAIN gs : \E j \in DOMAIN k2.down : k2.down[j] = gs[i]
    <3> DEFINE fs == line.down
               us == k2.down
    <3>1. fs \in Seq(ServerFrame) /\ gs \in Seq(ServerFrame) /\ p \in Nat /\ us = Chain(fs, gs)
      BY <1>2, <2>1, <2>5, <2>6 DEF Chain
    <3>2. \A i \in DOMAIN gs : New(gs[i], p, p)
      BY <2>4
    <3> HIDE DEF fs, us, p, k2
    <3>3. /\ Grows(fs, us, p, p)
          /\ \A j \in DOMAIN us : j \notin DOMAIN fs => \E i \in DOMAIN gs : us[j] = gs[i]
          /\ \A i \in DOMAIN gs : \E j \in DOMAIN us : us[j] = gs[i]
      BY ONLY <3>1, <3>2, GrowsConcat
    <3> QED BY <3>3 DEF fs, us
  <2>8. conns' = [conns EXCEPT ![ws] = k2]
    BY <1>4, <1>6
  <2> HIDE DEF k2
  <2>9. line.client # "connecting"
    BY <1>2, <1>6, ConnectingFacts
  <2>10. Single' /\ k2 = line'
    BY <1>1, <1>2, <2>6, <2>8, <2>9, LineSet DEF FlowInv, tab
  <2>11. ASSUME NEW r \in Readers, reader[r].on
         PROVE  /\ Own(k2.up, r, reader[r].sub) /\ Own(k2.loading, r, reader[r].sub)
                /\ line.client = "open" => Served(k2, r, reader[r], p)
    <3> DEFINE id == reader[r].sub
    <3>1. Rides(line, pending, r, reader[r], p) /\ reader[r] \in Reader
      BY <2>11 DEF FlowInv, Riding, IInv, TypeOK
    <3>2. Own(line.up, r, id) /\ Own(line.loading, r, id) /\ Own(<<>>, r, id)
      BY <3>1 DEF Rides, Own
    <3>3. line.client = "open" => Served(line, r, reader[r], p)
      BY <1>6, <3>1 DEF Rides
    <3>4. ASSUME NEW j \in DOMAIN k2.down, j \notin DOMAIN line.down, Replays(k2.down[j], id)
          PROVE  id \in k2.joined /\ k2.down[j].messages = snapshotTail(Window[r])
      <4>1. PICK i \in DOMAIN gs : k2.down[j] = gs[i]
        BY <2>7, <3>4
      <4>2. i \in DOMAIN line.loading /\ k2.down[j] = ReplayFrame(line.loading[i]) /\ line.loading[i] \in ClientFrame
        BY <2>2, <2>3, <4>1
      <4>3. line.loading[i].sub = id
        BY <1>2, <3>4, <4>2, ReplayIsNew DEF Replays
      <4>4. line.loading[i] = SubFrame(r, line.loading[i].sub)
        BY <3>2, <4>2, <4>3 DEF Own
      <4>5. k2.down[j].messages = snapshotTail(Window[r])
        BY <1>2, <4>2, <4>4, ReplayIsNew
      <4> QED BY <2>6, <4>2, <4>3, <4>5
    <3>5. ASSUME Asked(line.loading, id) PROVE \E j \in DOMAIN k2.down : Replays(k2.down[j], id)
      <4>1. PICK i \in DOMAIN line.loading : line.loading[i].sub = id
        BY <3>5 DEF Asked
      <4>2. Replays(gs[i], id) /\ i \in DOMAIN gs
        BY <1>2, <2>2, <2>3, <4>1, ReplayIsNew
      <4> QED BY <2>7, <4>2
    <3>6. ASSUME line.client = "open" PROVE Served(k2, r, reader[r], p)
      <4>1. Served(line, r, reader[r], p) /\ p = published
        BY <3>3, <3>6
      <4>2. id \in line.joined => id \in k2.joined
        BY <2>6
      <4>3. Asked(line.up, id) \/ Asked(line.loading, id) =>
               \/ Asked(k2.up, id) \/ Asked(k2.loading, id)
               \/ \E j \in DOMAIN k2.down : Replays(k2.down[j], id)
        BY <2>6, <3>5
      <4> QED BY <1>2, <2>6, <2>7, <3>1, <3>4, <4>1, <4>2, <4>3, ServedGrows
    <3> QED BY <2>6, <3>2, <3>6
  <2>12. published' = p
    BY <1>1
  <2> QED BY <1>1, <1>2, <2>6, <2>7, <2>10, <2>11, <2>12, ServerFlows
<1> QED BY <1>5, <1>6

LEMMA PublishFlows ==
    ASSUME IInv, PromptClose, FlowInv, Publish
    PROVE  FlowInv' /\ Forward
<1> DEFINE p == published
           v == published + 1
           frame == [type |-> "msg", sub |-> NoSub, messages |-> <<published + 1>>]
           told(k) == [k EXCEPT !.down = Append(k.down, frame)]
<1>1. /\ conns' = [c \in Conns |-> IF conns[c].joined = {} THEN conns[c] ELSE told(conns[c])]
      /\ published < MaxMessages /\ published' = v /\ UNCHANGED <<tab, reader, loaded>>
  BY DEF Publish
<1>2. /\ line \in Conn /\ p \in Nat /\ line.down \in Seq(ServerFrame) /\ conns \in [Conns -> Conn]
      /\ ws # 0 => ws \in Conns /\ line = conns[ws] /\ line.client # "none"
      /\ ws = 0 => line = NoConn
      /\ line.client = "connecting" => line = Connecting
  BY LineFacts DEF FlowInv, IInv, TypeOK
<1>3. v \in Nat /\ v = p + 1 /\ v # p
  BY <1>2
<1>4. frame \in ServerFrame /\ New(frame, p, v) /\ frame.type = "msg"
  <2>1. published + 1 \in Messages
    BY <1>1, <1>2, SocketsAssumption DEF Messages
  <2>2. <<published + 1>> \in Seq(Messages) /\ Len(<<published + 1>>) = 1 /\ Last(<<published + 1>>) = v
    BY <2>1 DEF Last
  <2> QED BY <1>3, <2>2 DEF ServerFrame, New
<1>5. \A c \in Conns : c # ws => conns[c] = NoConn
  BY DEF FlowInv, Single
<1> HIDE DEF frame
<1>6. CASE line.joined # {}
  <2>1. ws # 0 /\ line.client # "connecting"
    BY <1>2, <1>6, ConnectingFacts
  <2> DEFINE k == told(line)
  <2>2. Append(line.down, frame) \in Seq(ServerFrame)
    BY <1>2, <1>4, AppendProperties
  <2>3. /\ k \in Conn /\ k.client = line.client /\ k.server = line.server /\ k.up = line.up
        /\ k.loading = line.loading /\ k.joined = line.joined /\ k.down = Append(line.down, frame)
    BY <1>2, <2>2 DEF Conn
  <2>4. conns' = [conns EXCEPT ![ws] = k]
    BY <1>1, <1>2, <1>5, <1>6, <2>1, ConnectingFacts
  <2> HIDE DEF k, told
  <2>5. Single' /\ k = line'
    BY <1>1, <1>2, <2>1, <2>3, <2>4, LineSet DEF FlowInv, tab
  <2>6. /\ Grows(line.down, k.down, p, v)
        /\ \A j \in DOMAIN k.down : j \notin DOMAIN line.down => k.down[j] = frame
    BY <1>2, <1>3, <1>4, <2>3, GrowsAppend
  <2>7. ASSUME NEW r \in Readers, reader[r].on
        PROVE  /\ Own(k.up, r, reader[r].sub) /\ Own(k.loading, r, reader[r].sub)
               /\ line.client = "open" /\ k.server = "open" => Served(k, r, reader[r], v)
    <3>1. Rides(line, pending, r, reader[r], p) /\ reader[r] \in Reader
      BY <2>7 DEF FlowInv, Riding, IInv, TypeOK
    <3>2. Own(k.up, r, reader[r].sub) /\ Own(k.loading, r, reader[r].sub)
      BY <2>3, <3>1 DEF Rides
    <3>3. ASSUME line.client = "open" /\ k.server = "open" PROVE Served(k, r, reader[r], v)
      <4>1. Served(line, r, reader[r], published)
        BY <2>3, <3>1, <3>3 DEF Rides
      <4>2. \A j \in DOMAIN k.down : j \notin DOMAIN line.down => ~ Replays(k.down[j], reader[r].sub)
        BY <1>4, <2>6 DEF Replays
      <4>3. Grows(line.down, k.down, published, v)
        BY <2>6
      <4> QED BY <1>2, <1>3, <2>3, <3>1, <4>1, <4>2, <4>3, ServedGrows
    <3> QED BY <3>2, <3>3
  <2>8. UNCHANGED <<tab, reader>> /\ v = published'
    BY <1>1
  <2> HIDE DEF v
  <2> QED BY <1>3, <2>3, <2>5, <2>6, <2>7, <2>8, ServerFlows
<1>7. CASE line.joined = {}
  <2>1. conns' = conns
    <3>1. \A c \in Conns : conns[c].joined = {}
      <4>1. TAKE c \in Conns
      <4>2. CASE c = ws
        <5>1. ws # 0
          BY <4>2, SocketsAssumption DEF Conns
        <5> QED BY <1>2, <1>7, <4>2, <5>1
      <4>3. CASE c # ws
        BY <1>5, <4>3, ConnectingFacts
      <4> QED BY <4>2, <4>3
    <3>2. conns' = [c \in Conns |-> conns[c]]
      BY <1>1, <3>1
    <3> QED BY <1>2, <3>2
  <2>2. Single' /\ line = line' /\ Wakes'
    BY <1>1, <2>1 DEF FlowInv, Single, Wakes, line, tab
  <2>3. ASSUME NEW r \in Readers, reader[r].on PROVE Rides(line, pending, r, reader[r], v)
    <3>1. Rides(line, pending, r, reader[r], p)
      BY <2>3 DEF FlowInv, Riding
    <3>2. ASSUME Served(line, r, reader[r], p) PROVE Served(line, r, reader[r], v)
      BY <1>7, <3>2 DEF Served
    <3> QED BY <3>1, <3>2 DEF Rides
  <2>4. Ordered(line.down, v)
    <3>1. Ordered(line.down, p)
      BY DEF FlowInv, Pacing
    <3>2. ASSUME NEW j \in DOMAIN line.down PROVE UpTo(line.down[j].messages, v)
      BY <1>2, <1>3, <3>1, Reading DEF Ordered, UpTo
    <3> QED BY <3>1, <3>2 DEF Ordered
  <2>5. ASSUME NEW r \in Readers PROVE Paced(reader[r], Window[r], line.down, v)
    <3>1. Paced(reader[r], Window[r], line.down, p)
      BY DEF FlowInv, Pacing
    <3>2. reader[r].window \in Seq(Messages) /\ reader[r].seed \in Seq(Messages)
      BY DEF IInv, TypeOK, Reader
    <3>3. ASSUME NEW s \in Seq(Messages), Before(s, line.down, p) PROVE Before(s, line.down, v)
      <4>1. s # <<>> => Last(s) \in Nat
        BY LastType
      <4> QED BY <1>2, <1>3, <3>3, <4>1 DEF Before, UpTo
    <3> QED BY <3>1, <3>2, <3>3 DEF Paced
  <2>6. pending' = pending /\ reader' = reader /\ published' = v
    BY <1>1 DEF tab
  <2>7. FlowInv'
    BY <2>2, <2>3, <2>4, <2>5, <2>6, Assemble
  <2>8. Forward
    BY <2>6, WindowsKeep
  <2> QED BY <2>7, <2>8
<1> QED BY <1>6, <1>7

-----------------------------------------------------------------------------
LEMMA FlowsInitially == Init => FlowInv
<1> SUFFICES ASSUME Init PROVE FlowInv
  OBVIOUS
<1>1. /\ reader = [r \in Readers |-> Off] /\ conns = [c \in Conns |-> NoConn]
      /\ ws = 0 /\ pending = <<>> /\ deferred = FALSE
  BY DEF Init
<1>2. Single /\ Wakes /\ line = NoConn
  BY <1>1 DEF Single, Wakes, line
<1>3. Riding
  BY <1>1 DEF Riding, Off
<1>4. Pacing
  <2>1. Off.window = <<>> /\ Off.seed = <<>> /\ ~ Off.seeding
    BY DEF Off
  <2>2. \A r \in Readers : Len(<<>>) <= Window[r]
    BY SocketsAssumption
  <2>3. Before(<<>>, <<>>, published)
    BY DEF Before, UpTo
  <2>4. \A r \in Readers : Paced(Off, Window[r], <<>>, published)
    BY <2>1, <2>2, <2>3 DEF Paced
  <2>5. line.down = <<>> /\ Ordered(<<>>, published)
    BY <1>2, ConnectingFacts, EmptyPaced
  <2> QED BY <1>1, <2>4, <2>5 DEF Pacing
<1> QED BY <1>2, <1>3, <1>4 DEF FlowInv

LEMMA FlowsInductive ==
    ASSUME PromptClose
    PROVE  IInv /\ FlowInv /\ [Next]_vars => FlowInv' /\ Forward
<1> SUFFICES ASSUME IInv, FlowInv, [Next]_vars PROVE FlowInv' /\ Forward
  OBVIOUS
<1>1. ASSUME NEW r \in Readers, Open(r) \/ Close(r) PROVE FlowInv' /\ Forward
  BY <1>1, OpenFlows, CloseFlows
<1>2. ASSUME NEW c \in Conns,
             Opens(c) \/ Receives(c) \/ Closes(c) \/ Handles(c) \/ ServerCloses(c)
      PROVE  FlowInv' /\ Forward
  BY <1>2, OpensFlows, ReceivesFlows, ClosesFlows, HandlesFlows, ServerClosesFlows
<1>3. CASE TimerFires \/ Hide \/ Show \/ Loads \/ Publish
  BY <1>3, TimerFlows, HideFlows, ShowFlows, LoadsFlows, PublishFlows
<1>4. CASE UNCHANGED vars
  <2>1. /\ UNCHANGED <<hidden, ws, deferred, timers, pending, reader, conns, published>>
    BY <1>4 DEF vars, tab
  <2>2. Single' /\ Wakes' /\ line' = line
    BY <2>1 DEF FlowInv, Single, Wakes, line
  <2> QED BY <2>1, <2>2, Unmoved
<1> QED BY <1>1, <1>2, <1>3, <1>4 DEF Next

(* A window that ends in n messages up to q, its last n are those of       *)
(* another that does and has no more.                                      *)
LEMMA SameEnds ==
    ASSUME NEW s \in Seq(Messages), NEW t \in Seq(Messages), NEW q, NEW n \in Nat,
           Len(t) = n, Ends(s, q, n), Ends(t, q, n)
    PROVE  LastOf(n, s) = t
<1> DEFINE u == LastOf(n, s)
           k == Len(s)
<1>1. /\ u \in Seq(Messages) /\ Len(u) = Least(n, k) /\ k \in Nat
      /\ \A i \in 0 .. Len(u) - 1 : u[Len(u) - i] = s[k - i]
  BY LastOfFacts
<1>2. n <= k /\ \A i \in 0 .. n - 1 : s[k - i] = q - i
  BY DEF Ends
<1>3. \A i \in 0 .. n - 1 : t[n - i] = q - i
  BY DEF Ends
<1> HIDE DEF u, k
<1>4. Len(u) = n
  BY <1>1, <1>2 DEF Least
<1>5. ASSUME NEW j \in 1 .. n PROVE u[j] = t[j]
  <2>1. PICK i \in 0 .. n - 1 : n - i = j
    <3>1. n - j \in 0 .. n - 1 /\ n - (n - j) = j
      OBVIOUS
    <3> QED BY <3>1
  <2>2. u[n - i] = s[k - i] /\ s[k - i] = q - i /\ t[n - i] = q - i
    BY <1>1, <1>2, <1>3, <1>4
  <2> QED BY <2>1, <2>2
<1>6. u = t
  BY <1>1, <1>4, <1>5, SeqEqual
<1> QED BY <1>6 DEF u

LEMMA QuietIsCaughtUp == ASSUME IInv, FlowInv PROVE CaughtUp
<1> SUFFICES ASSUME Quiet, NEW r \in Readers, reader[r].on
             PROVE  LET kept == snapshotTail(Window[r])
                    IN  /\ ~ reader[r].seeding /\ Len(reader[r].window) <= Window[r]
                        /\ LastOf(Len(kept), reader[r].window) = kept
  BY DEF CaughtUp
<1> DEFINE kept == snapshotTail(Window[r])
           p == published
           n == Kept(r, p)
<1>1. Rides(line, pending, r, reader[r], p) /\ Paced(reader[r], Window[r], line.down, p)
  BY DEF FlowInv, Riding, Pacing
<1>2. ws # 0
  <2> SUFFICES ASSUME ws = 0 PROVE FALSE
    OBVIOUS
  <2>1. line = NoConn
    BY DEF line
  <2>2. Asked(pending, reader[r].sub)
    BY <1>1, <2>1, ConnectingFacts DEF Rides
  <2>3. pending # <<>>
    BY <2>2 DEF Asked
  <2>4. ~ hidden /\ timers = 0
    BY DEF Quiet
  <2> QED BY <2>3, <2>4 DEF FlowInv, Wakes
<1>3. ws \in Conns /\ line = conns[ws] /\ line.client # "none" /\ line \in Conn /\ p \in Nat
  BY <1>2, LineFacts DEF FlowInv
<1>4. /\ line.client = "open" /\ line.server = "open"
      /\ line.up = <<>> /\ line.down = <<>> /\ line.loading = <<>>
  BY <1>3, ConnectingFacts DEF Quiet
<1>5. Served(line, r, reader[r], p)
  BY <1>1, <1>4 DEF Rides
<1>6. Follows(<<>>, r, reader[r], p)
  BY <1>4, <1>5 DEF Served, Asked
<1>7. PICK h \in 0 .. p : Ends(reader[r].window, h, Kept(r, h)) /\ Feeds(<<>>, 0, h, p)
  BY <1>6 DEF Follows
<1>8. h = p
  <2> SUFFICES ASSUME h # p PROVE FALSE
    OBVIOUS
  <2>1. h + 1 \in h + 1 .. p
    BY <1>3, <1>7
  <2> QED BY <1>7, <2>1 DEF Feeds
<1>9. Ends(reader[r].window, p, n) /\ n \in Nat
  BY <1>3, <1>7, <1>8, KeptFacts
<1>10. Window[r] \in Nat /\ published \in 0 .. MaxMessages
  BY SocketsAssumption DEF IInv, TypeOK
<1>11. kept \in Seq(Messages)
  BY <1>10, SnapshotType
<1>12. Len(kept) = n /\ Ends(kept, p, n)
  BY <1>3, <1>10, SnapshotFacts DEF Kept
<1>13. reader[r].window \in Seq(Messages)
  BY DEF IInv, TypeOK, Reader
<1> HIDE DEF kept, n
<1>14. LastOf(n, reader[r].window) = kept
  BY <1>9, <1>11, <1>12, <1>13, SameEnds
<1>15. ~ reader[r].seeding /\ Len(reader[r].window) <= Window[r]
  BY <1>1, <1>6 DEF Follows, Paced
<1> QED BY <1>12, <1>14, <1>15 DEF kept

(* Where a ws the tab closed has closed before the tab shows again, the    *)
(* readers keep being fed: whatever is hidden, cut, unsubscribed and       *)
(* subscribed again, a window with nothing more to wait for ends in the    *)
(* frames the socket retains (tail, socketChannel, createSocketDispatcher).*)
THEOREM ReadersCatchUp == ASSUME PromptClose PROVE Spec => []CaughtUp
<1>1. IInv /\ FlowInv => CaughtUp
  BY QuietIsCaughtUp
<1> QED BY <1>1, Initially, Inductive, FlowsInitially, FlowsInductive, PTL DEF Spec

(* Under the same condition no reader ever shows an older message than it  *)
(* did, across seeds, live frames and reconnects.                          *)
THEOREM WindowsGoForward == ASSUME PromptClose PROVE Spec => NeverGoesBack
<1>1. IInv /\ FlowInv /\ [Next]_vars =>
        [\A r \in Readers : reader[r].window # <<>> /\ reader'[r].window # <<>> =>
             Last(reader[r].window) <= Last(reader'[r].window)]_vars
  BY FlowsInductive DEF Forward
<1> QED BY <1>1, Initially, Inductive, FlowsInitially, FlowsInductive, PTL DEF Spec, NeverGoesBack

=============================================================================
