------------------------------ MODULE Sockets -------------------------------
(***************************************************************************)
(* One socket of the server and the tail() readers of one tab: the         *)
(* channel that multiplexes their subscriptions over one ws, the           *)
(* dispatcher at the other end, and the retained tail that seeds a reader. *)
(*                                                                         *)
(* The readers drain their iterators within the turn of the event that     *)
(* pushed to them, so an event, what the readers make of it and the        *)
(* subscriptions they open in reaction are one step.                       *)
(***************************************************************************)
EXTENDS Naturals, Sequences, FiniteSets, SequencesExt

CONSTANTS
    Readers,     \* the tail(socket) entries of the tab
    Window,      \* `last`: the frames each reader keeps
    Retention,   \* the frames the socket retains
    SlowLoad,    \* the socket's module is yet to be loaded
    PromptClose, \* a ws the tab closed has closed before the tab shows again
    MaxMessages, \* bound: messages published
    MaxConns,    \* bound: ws alive, and timers armed, at once
    SubIds,      \* bound: the sub ids there are; one is free when nothing carries it
    NoSub        \* no sub id

ASSUME SocketsAssumption ==
    /\ Window \in [Readers -> Nat \ {0}]
    /\ Retention \in Nat /\ MaxMessages \in Nat /\ MaxConns \in Nat
    /\ IsFiniteSet(Readers) /\ NoSub \notin SubIds
    /\ SlowLoad \in BOOLEAN /\ PromptClose \in BOOLEAN

VARIABLES
    hidden,     \* document.hidden
    ws,         \* the channel's ws, 0 when it has none
    deferred,   \* reconnectTimer is set: connect() defers to it
    timers,     \* backoff timers armed
    pending,    \* pendingSends
    subs,       \* the sub ids the channel routes to
    reader,     \* the readers
    conns,      \* every ws of this tab, with its server end
    published,  \* the number of messages published
    loaded      \* the socket's module is loaded

tab == <<hidden, ws, deferred, timers, pending, subs>>
vars == <<tab, reader, conns, published, loaded>>

-----------------------------------------------------------------------------
Conns == 1 .. MaxConns
Messages == 1 .. MaxMessages

ClientFrame == [type : {"sub", "unsub"}, sub : SubIds, replay : Nat]
ServerFrame == [type : {"msg", "replay", "end"}, sub : SubIds \cup {NoSub},
                messages : Seq(Messages)]

(* A ws: how its two ends stand, the frames under way, and what the        *)
(* dispatcher keeps for it: its subs, and the ones waiting for the module. *)
Conn == [client : {"none", "connecting", "open", "closing"}, server : {"none", "open", "closed"},
         up : Seq(ClientFrame), down : Seq(ServerFrame), joined : SUBSET SubIds,
         loading : Seq(ClientFrame)]

NoConn == [client |-> "none", server |-> "none", up |-> <<>>, down |-> <<>>, joined |-> {},
           loading |-> <<>>]

Reader == [on : BOOLEAN, sub : SubIds \cup {NoSub}, seeding : BOOLEAN, seed : Seq(Messages),
           window : Seq(Messages), refreshing : BOOLEAN]

Off == [on |-> FALSE, sub |-> NoSub, seeding |-> FALSE, seed |-> <<>>, window |-> <<>>,
        refreshing |-> FALSE]

LastOf(n, s) == SubSeq(s, IF Len(s) > n THEN Len(s) - n + 1 ELSE 1, Len(s))

(* The frames the socket retains.                                          *)
buffer == LastOf(Retention, [n \in 1 .. published |-> n])

(* Fault: the oldest retained frames are replayed.                         *)
snapshotOldest(count) == SubSeq(buffer, 1, IF Len(buffer) > count THEN count ELSE Len(buffer))

snapshotTail(count) == LastOf(count, buffer)

-----------------------------------------------------------------------------
(* The channel. *)

Up == {"connecting", "open"}

FreeConns == {c \in Conns : conns[c] = NoConn}

(* connect() opens a ws, seeing `hidden` and `deferred` as h and d.        *)
(* Faults: it opens one beside a ws still connecting; in a hidden tab.     *)
connectsUnlessOpen(h, d) == ~ h /\ ~ d /\ (ws = 0 \/ conns[ws].client # "open")

connectsHidden(h, d) == ~ d /\ (ws = 0 \/ conns[ws].client \notin Up)

connects(h, d) == ~ h /\ ~ d /\ (ws = 0 \/ conns[ws].client \notin Up)

connect(h, d) ==
    IF connects(h, d)
    THEN /\ FreeConns # {}
         /\ ws' = CHOOSE c \in FreeConns : TRUE
         /\ conns' = [conns EXCEPT ![ws'].client = "connecting"]
    ELSE UNCHANGED <<ws, conns>>

send(frame) ==
    IF ws # 0 /\ conns[ws].client = "open"
    THEN /\ conns' = [conns EXCEPT ![ws].up = Append(@, frame)]
         /\ UNCHANGED <<ws, pending>>
    ELSE /\ pending' = Append(pending, frame)
         /\ connect(hidden, deferred)

(* A sub id that nothing under way still carries.                          *)
Carries(fs, id) == \E i \in DOMAIN fs : fs[i].sub = id

Unused(id) ==
    /\ id \notin subs /\ \A r \in Readers : reader[r].sub # id
    /\ ~ Carries(pending, id)
    /\ \A c \in Conns : /\ ~ Carries(conns[c].up, id) /\ ~ Carries(conns[c].down, id)
                        /\ ~ Carries(conns[c].loading, id) /\ id \notin conns[c].joined

SubFrame(r, id) == [type |-> "sub", sub |-> id, replay |-> Window[r]]

-----------------------------------------------------------------------------
(* The readers. *)

(* The frame loop takes messages, one by one, up to the `replayed`         *)
(* boundary.                                                               *)
Took(r, x, ns) ==
    IF ns = <<>> THEN x
    ELSE IF x.seeding THEN [x EXCEPT !.seed = LastOf(Window[r], @ \o ns)]
    ELSE [x EXCEPT !.window = LastOf(Window[r], @ \o ns), !.refreshing = FALSE]

commit(x) ==
    IF ~ x.seeding THEN x
    ELSE [x EXCEPT !.seeding = FALSE, !.window = IF x.seed # <<>> THEN x.seed ELSE @,
                   !.seed = <<>>, !.refreshing = FALSE]

(* The first tracked read of an entry opens its subscription.              *)
Open(r) ==
    /\ ~ reader[r].on
    /\ \E id \in SubIds :
          /\ Unused(id)
          /\ reader' = [reader EXCEPT ![r] = [Off EXCEPT !.on = TRUE, !.sub = id, !.seeding = TRUE]]
          /\ subs' = subs \cup {id}
          /\ send(SubFrame(r, id))
    /\ UNCHANGED <<hidden, deferred, timers, published, loaded>>

(* The last reader of an entry goes.                                       *)
(* Fault: the channel keeps routing to it.                                 *)
CloseUndropped(r) ==
    /\ reader[r].on
    /\ reader' = [reader EXCEPT ![r] = Off]
    /\ send([type |-> "unsub", sub |-> reader[r].sub, replay |-> 0])
    /\ UNCHANGED <<hidden, deferred, timers, subs, published, loaded>>

Close(r) ==
    /\ reader[r].on
    /\ reader' = [reader EXCEPT ![r] = Off]
    /\ IF reader[r].sub \in subs
       THEN /\ subs' = subs \ {reader[r].sub}
            /\ send([type |-> "unsub", sub |-> reader[r].sub, replay |-> 0])
       ELSE UNCHANGED <<subs, ws, pending, conns>>
    /\ UNCHANGED <<hidden, deferred, timers, published, loaded>>

-----------------------------------------------------------------------------
(* The channel's events. *)

(* `open`: what is pending goes out, if it is the channel's ws that opens. *)
Opens(c) ==
    /\ conns[c].client = "connecting"
    /\ LET cs == [conns EXCEPT ![c].client = "open", ![c].server = "open"]
       IN  IF ws # 0 /\ cs[ws].client = "open"
           THEN conns' = [cs EXCEPT ![ws].up = @ \o pending] /\ pending' = <<>>
           ELSE conns' = cs /\ UNCHANGED pending
    /\ UNCHANGED <<hidden, ws, deferred, timers, subs, reader, published, loaded>>

(* `message`: a frame addressed to the socket, or to one sub.              *)
Receives(c) ==
    /\ conns[c].client = "open" /\ conns[c].down # <<>>
    /\ LET frame == Head(conns[c].down)
           heard(r) == /\ reader[r].sub \in subs
                       /\ frame.type = "msg" \/ frame.sub = reader[r].sub
       IN  reader' = [r \in Readers |->
               IF ~ heard(r) THEN reader[r]
               ELSE IF frame.type = "replay" THEN commit(Took(r, reader[r], frame.messages))
               ELSE Took(r, reader[r], frame.messages)]
    /\ conns' = [conns EXCEPT ![c].down = Tail(@)]
    /\ UNCHANGED <<tab, published, loaded>>

(* Each reader the channel routed to subscribes again, in any order.       *)
Resubscribed(active, fresh) ==
    /\ subs' = {fresh[r] : r \in active}
    /\ reader' = [r \in Readers |->
          IF r \notin active THEN reader[r]
          ELSE [reader[r] EXCEPT !.sub = fresh[r], !.seeding = TRUE, !.seed = <<>>,
                                 !.refreshing = reader[r].window # <<>>]]

SubFrames(order, fresh) == [i \in DOMAIN order |-> SubFrame(order[i], fresh[order[i]])]

(* Fault: what was queued stays queued.                                    *)
RestartsQueued(active, fresh) ==
    /\ Resubscribed(active, fresh)
    /\ \E order \in SetToSeqs(active) : pending' = pending \o SubFrames(order, fresh)

Restarts(active, fresh) ==
    /\ Resubscribed(active, fresh)
    /\ \E order \in SetToSeqs(active) : pending' = SubFrames(order, fresh)

(* `close`: whatever ws it is, the channel starts over; the frames of its  *)
(* readers wait for the backoff timer.                                     *)
Closes(c) ==
    /\ \/ conns[c].client \in Up /\ conns[c].server = "closed"
       \/ conns[c].client = "connecting"
       \/ conns[c].client = "closing" /\ conns[c].server # "open"
    /\ LET active == {r \in Readers : reader[r].sub \in subs}
       IN  /\ \E fresh \in [active -> SubIds] :
                 /\ IsInjective(fresh) /\ \A r \in active : Unused(fresh[r])
                 /\ Restarts(active, fresh)
           /\ IF active = {} /\ pending = <<>>
              THEN UNCHANGED <<deferred, timers>>
              ELSE timers < MaxConns /\ timers' = timers + 1 /\ deferred' = TRUE
    /\ ws' = 0
    /\ conns' = [conns EXCEPT ![c] = NoConn]
    /\ UNCHANGED <<hidden, published, loaded>>

TimerFires ==
    /\ timers > 0
    /\ timers' = timers - 1
    /\ deferred' = FALSE
    /\ connect(hidden, FALSE)
    /\ UNCHANGED <<hidden, pending, subs, reader, published, loaded>>

(* visibilitychange. *)
Hide ==
    /\ ~ hidden
    /\ hidden' = TRUE
    /\ conns' = IF ws # 0 THEN [conns EXCEPT ![ws].client = "closing"] ELSE conns
    /\ UNCHANGED <<ws, deferred, timers, pending, subs, reader, published, loaded>>

Show ==
    /\ hidden
    /\ PromptClose => \A c \in Conns : conns[c].client # "closing"
    /\ hidden' = FALSE
    /\ IF pending # <<>> THEN connect(FALSE, deferred) ELSE UNCHANGED <<ws, conns>>
    /\ UNCHANGED <<deferred, timers, pending, subs, reader, published, loaded>>

-----------------------------------------------------------------------------
(* The dispatcher. *)

ReplayFrame(f) == [type |-> "replay", sub |-> f.sub, messages |-> snapshotTail(f.replay)]

(* handleSub once the module is there: join, then the replay.              *)
Joined(k, f) == [k EXCEPT !.joined = @ \cup {f.sub}, !.down = Append(@, ReplayFrame(f))]

(* The subs that waited for the module, in order.                          *)
JoinedAll(k) ==
    [k EXCEPT !.loading = <<>>,
              !.joined = @ \cup {k.loading[i].sub : i \in DOMAIN k.loading},
              !.down = @ \o [i \in DOMAIN k.loading |-> ReplayFrame(k.loading[i])]]

(* handleUnsub. *)
(* Fault: any unsub takes the ws off the topic.                            *)
LeftAll(k, f) == [k EXCEPT !.joined = {},
                           !.down = Append(@, [type |-> "end", sub |-> f.sub, messages |-> <<>>])]

Left(k, f) == [k EXCEPT !.joined = @ \ {f.sub},
                        !.down = Append(@, [type |-> "end", sub |-> f.sub, messages |-> <<>>])]

(* A frame of the tab; a sub waits for the module while it loads.          *)
Handles(c) ==
    /\ conns[c].server = "open" /\ conns[c].up # <<>>
    /\ LET frame == Head(conns[c].up)
           k == [conns[c] EXCEPT !.up = Tail(@)]
       IN  conns' = [conns EXCEPT ![c] =
               IF frame.type = "unsub" THEN Left(k, frame)
               ELSE IF loaded THEN Joined(k, frame)
               ELSE [k EXCEPT !.loading = Append(@, frame)]]
    /\ UNCHANGED <<tab, reader, published, loaded>>

(* The module is loaded: every sub that waited goes on.                    *)
Loads ==
    /\ ~ loaded
    /\ \E c \in Conns : conns[c].loading # <<>>
    /\ loaded' = TRUE
    /\ conns' = [c \in Conns |->
          IF conns[c].server # "open" THEN conns[c]
          ELSE JoinedAll(conns[c])]
    /\ UNCHANGED <<tab, reader, published>>

(* publish(): the frame is retained, and goes to every ws on the topic.    *)
Publish ==
    /\ published < MaxMessages
    /\ published' = published + 1
    /\ conns' = [c \in Conns |->
          IF conns[c].joined = {} THEN conns[c]
          ELSE [conns[c] EXCEPT !.down =
                   Append(@, [type |-> "msg", sub |-> NoSub, messages |-> <<published + 1>>])]]
    /\ UNCHANGED <<tab, reader, loaded>>

(* The server's end closes: the tab closed the ws, or the link is cut.     *)
ServerCloses(c) ==
    /\ conns[c].server = "open"
    /\ conns' = [conns EXCEPT ![c].server = "closed", ![c].up = <<>>, ![c].joined = {},
                              ![c].loading = <<>>]
    /\ UNCHANGED <<tab, reader, published, loaded>>

-----------------------------------------------------------------------------
Init ==
    /\ hidden = FALSE /\ ws = 0 /\ deferred = FALSE /\ timers = 0
    /\ pending = <<>> /\ subs = {}
    /\ reader = [r \in Readers |-> Off]
    /\ conns = [c \in Conns |-> NoConn]
    /\ published = 0
    /\ loaded = ~ SlowLoad

Next ==
    \/ \E r \in Readers : Open(r) \/ Close(r)
    \/ \E c \in Conns : Opens(c) \/ Receives(c) \/ Closes(c) \/ Handles(c) \/ ServerCloses(c)
    \/ TimerFires \/ Hide \/ Show \/ Loads \/ Publish

Spec == Init /\ [][Next]_vars

-----------------------------------------------------------------------------
(* Properties. *)

(* Types, and the channel routes exactly to the readers there are.         *)
TypeOK ==
    /\ hidden \in BOOLEAN /\ deferred \in BOOLEAN /\ loaded \in BOOLEAN
    /\ ws \in 0 .. MaxConns /\ timers \in 0 .. MaxConns
    /\ pending \in Seq(ClientFrame)
    /\ reader \in [Readers -> Reader] /\ conns \in [Conns -> Conn]
    /\ published \in 0 .. MaxMessages
    /\ subs = {reader[r].sub : r \in {q \in Readers : reader[q].on}}

(* Nothing is left to happen on its own: no timer, no frame under way, no  *)
(* ws changing, no module loading.                                         *)
Quiet ==
    /\ ~ hidden /\ timers = 0
    /\ \A c \in Conns : \/ conns[c] = NoConn
                         \/ /\ conns[c].client = "open" /\ conns[c].server = "open"
                            /\ conns[c].up = <<>> /\ conns[c].down = <<>>
                            /\ conns[c].loading = <<>>

(* Whatever was hidden, cut, unsubscribed and subscribed again on the way, *)
(* a window that has nothing more to wait for ends in the frames the       *)
(* socket retains, as many as it keeps: none is stranded with its frames   *)
(* queued, none missed a message between its replay and the topic.         *)
CaughtUp ==
    Quiet => \A r \in Readers : reader[r].on =>
        LET kept == snapshotTail(Window[r])
        IN  /\ ~ reader[r].seeding /\ Len(reader[r].window) <= Window[r]
            /\ LastOf(Len(kept), reader[r].window) = kept

(* A window shows no message twice: its seed is committed before any live  *)
(* frame (buildSocketOverChannel).                                         *)
ShownOnce == \A r \in Readers : IsInjective(reader[r].window)

(* What a reader shows never goes back to an older message, across seeds,  *)
(* live frames and reconnects.                                             *)
NeverGoesBack ==
    [][\A r \in Readers :
          reader[r].window # <<>> /\ reader'[r].window # <<>> =>
              Last(reader[r].window) <= Last(reader'[r].window)]_vars

(* A sub frame is queued only for a subscription the tab still has, or     *)
(* with its unsub behind it: a reconnect opens none that nobody tracks.    *)
PendingTracked ==
    \A i \in DOMAIN pending : pending[i].type = "sub" =>
        \/ pending[i].sub \in subs
        \/ \E j \in DOMAIN pending : j > i /\ pending[j].sub = pending[i].sub

(* One multiplexed ws: never two the tab has not closed.                   *)
OneTransport == Cardinality({c \in Conns : conns[c].client \in Up}) <= 1

(* Reconnecting leaks neither a ws nor a subscription (socketChannel's     *)
(* connect and close).                                                     *)
TransportSound == OneTransport /\ PendingTracked

(* A hidden tab holds no ws it has not closed.                             *)
HiddenHoldsNone == hidden => \A c \in Conns : conns[c].client \notin Up

=============================================================================
