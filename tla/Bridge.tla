-------------------------------- MODULE Bridge ------------------------------
(***************************************************************************)
(* The assistant of a page: the Connection that multiplexes its chat turns *)
(* over one ws, the bridge on the user's machine at the other end, and the *)
(* claude process the bridge runs for each turn.                           *)
(*                                                                         *)
(* What a generator does between two events of the page runs to its next   *)
(* await before anything else happens, so it is part of the event's step.  *)
(* A page's step is written as a function of what the page holds, `S`.     *)
(***************************************************************************)
EXTENDS Naturals, Sequences, FiniteSets

CONSTANTS
    Turns,         \* the turns the page asks for
    MaxTexts,      \* bound: the text frames of a turn
    MaxLinks,      \* bound: ws alive, or referred to, at once
    AsksEarly,     \* the page asks while it is not available
    ReadersReturn  \* a presence reader comes back while a ws closes, or before a retry

ASSUME BridgeAssumption ==
    /\ MaxTexts \in Nat /\ MaxLinks \in Nat
    /\ AsksEarly \in BOOLEAN /\ ReadersReturn \in BOOLEAN

VARIABLES
    conn,    \* the Connection of the page
    turn,    \* the generators of its turns
    link,    \* every ws of the page, with the bridge's end
    run,     \* what the bridge runs for each turn
    bridge   \* the bridge's process

bvars == <<conn, turn, link, run, bridge>>

-----------------------------------------------------------------------------
Links == 1 .. MaxLinks
LastFrame == 0
BridgeFrame == [turn : Turns, n : 0 .. MaxTexts]

(* opened is the promise of the ws it names; resolved says it is resolved. *)
ConnectionState == [socket : 0 .. MaxLinks, connected : BOOLEAN, watched : BOOLEAN,
                    opened : 0 .. MaxLinks, resolved : BOOLEAN, retries : 0 .. MaxLinks]

(* listed: it is in the map of the turns in flight. left: its consumer     *)
(* stopped, which a generator waiting for a frame sees at the next one.    *)
Turn == [at : {"idle", "awaiting", "reading", "ended"}, listed : BOOLEAN, left : BOOLEAN,
         got : Seq(BridgeFrame)]

(* client "left": its page is no more, and hears nothing.                  *)
Link == [client : {"none", "connecting", "open", "closing", "left"}, server : {"none", "open", "closed"},
         asks : SUBSET Turns, down : Seq(BridgeFrame), waits : SUBSET Turns]

NoConnection == [socket |-> 0, connected |-> FALSE, watched |-> FALSE, opened |-> 0,
                 resolved |-> FALSE, retries |-> 0]

NoLink == [client |-> "none", server |-> "none", asks |-> {}, down |-> <<>>, waits |-> {}]

(* A run's link is 0 once its ws has closed.                               *)
Run == [at : {"none", "finding", "running", "over", "lost"}, link : 0 .. MaxLinks, made : 0 .. MaxTexts]

NoRun == [at |-> "none", link |-> 0, made |-> 0]

Over(r) == [r EXCEPT !.at = "over", !.link = 0]

FreeLinks == {c \in Links : link[c] = NoLink /\ c # conn.socket /\ c # conn.opened}

AnyFree == IF FreeLinks = {} THEN 0 ELSE CHOOSE c \in FreeLinks : TRUE

S == [conn |-> conn, turn |-> turn, link |-> link]

PageIs(s) == conn' = s.conn /\ turn' = s.turn /\ link' = s.link

-----------------------------------------------------------------------------
(* The Connection. *)

open(s, c) ==
    [s EXCEPT !.conn.socket = c, !.conn.opened = c, !.conn.resolved = FALSE,
              !.link[c].client = "connecting"]

ensureOpen(s, c) == IF s.conn.socket = 0 THEN open(s, c) ELSE s

inflight(s) == {t \in Turns : s.turn[t].listed}

shut(l) == IF l.client = "none" THEN l ELSE [l EXCEPT !.client = "closing"]

closeIfIdle(s) ==
    IF s.conn.watched \/ inflight(s) # {} \/ s.conn.socket = 0 THEN s
    ELSE [s EXCEPT !.conn.socket = 0, !.link[s.conn.socket] = shut(@)]

(* Turns whose generators end together.                                    *)
ends(s, T) ==
    IF T = {} THEN s
    ELSE closeIfIdle([s EXCEPT !.turn = [t \in Turns |->
             IF t \in T THEN [s.turn[t] EXCEPT !.at = "ended", !.listed = FALSE]
             ELSE s.turn[t]]])

(* send() goes on once it awaited: its write throws on a ws that is still  *)
(* connecting and is lost on one that closes, as it does after the first   *)
(* of turns that were all forgotten; then what is queued is read.          *)
goesOn(s, T) ==
    LET c == s.conn.socket
        closes == ~ s.conn.watched /\ inflight(s) = {}
        heard == {t \in T : closes => t = CHOOSE first \in T : TRUE}
        read == [s EXCEPT !.turn = [t \in Turns |->
                    IF t \in T THEN [s.turn[t] EXCEPT !.at = "reading"] ELSE s.turn[t]]]
        sent == IF c # 0 /\ s.link[c].client = "open"
                THEN [read EXCEPT !.link[c].asks = @ \cup heard] ELSE read
    IN  ends(sent, {t \in T : \/ c # 0 /\ s.link[c].client = "connecting"
                              \/ ~ s.turn[t].listed})

Ask(t) ==
    /\ turn[t].at = "idle"
    /\ AsksEarly \/ (conn.connected /\ conn.socket # 0)
    /\ conn.socket = 0 => FreeLinks # {}
    /\ LET c == AnyFree
           s == ensureOpen([S EXCEPT !.turn[t].listed = TRUE], c)
       IN  PageIs(IF s.conn.connected \/ s.conn.resolved THEN goesOn(s, {t})
                  ELSE [s EXCEPT !.turn[t].at = "awaiting",
                                 !.link[s.conn.opened].waits = @ \cup {t}])
    /\ UNCHANGED <<run, bridge>>

(* The consumer of a turn stops; a reader of the presence comes, goes.     *)
StopsReading(t) ==
    /\ turn[t].at \in {"awaiting", "reading"} /\ ~ turn[t].left
    /\ turn' = [turn EXCEPT ![t].left = TRUE]
    /\ UNCHANGED <<conn, link, run, bridge>>

Watch ==
    /\ ~ conn.watched
    /\ \/ ReadersReturn
       \/ conn.retries = 0 /\ \A c \in Links : link[c].client # "closing"
    /\ conn.socket = 0 => FreeLinks # {}
    /\ LET c == AnyFree
       IN  PageIs(ensureOpen([S EXCEPT !.conn.watched = TRUE], c))
    /\ UNCHANGED <<run, bridge>>

Unwatch ==
    /\ conn.watched
    /\ PageIs(closeIfIdle([S EXCEPT !.conn.watched = FALSE]))
    /\ UNCHANGED <<run, bridge>>

(* ws.onopen: the turns that awaited this very ws go on.                   *)
Opened(c) ==
    /\ link[c].client = "connecting" /\ link[c].server = "open"
    /\ LET k == [conn EXCEPT !.connected = TRUE, !.resolved = IF conn.opened = c THEN TRUE ELSE @]
           l == [link[c] EXCEPT !.client = "open", !.waits = {}]
       IN  PageIs(goesOn([S EXCEPT !.conn = k, !.link[c] = l], link[c].waits))
    /\ UNCHANGED <<run, bridge>>

(* ws.onmessage. *)
hears(s, f, T) ==
    ends([s EXCEPT !.turn = [t \in Turns |->
              IF t \in T THEN [s.turn[t] EXCEPT !.got = Append(@, f)] ELSE s.turn[t]]],
         {t \in T : f.n = LastFrame \/ s.turn[t].left})

(* Fault: a frame goes to every turn in flight.                            *)
HearsAll(c) ==
    /\ link[c].client = "open" /\ link[c].down # <<>>
    /\ PageIs(hears([S EXCEPT !.link[c].down = Tail(@)], Head(link[c].down), inflight(S)))
    /\ UNCHANGED <<run, bridge>>

Hears(c) ==
    /\ link[c].client = "open" /\ link[c].down # <<>>
    /\ LET f == Head(link[c].down)
       IN  PageIs(hears([S EXCEPT !.link[c].down = Tail(@)], f, inflight(S) \cap {f.turn}))
    /\ UNCHANGED <<run, bridge>>

(* ws.onclose, of whatever ws: every turn in flight that reads ends, and   *)
(* the others will when they go on.                                        *)
Gone(c) ==
    \/ link[c].client = "connecting" /\ link[c].server # "open" /\ ~ bridge.up
    \/ link[c].client \in {"connecting", "open"} /\ link[c].server = "closed"
    \/ link[c].client = "closing" /\ link[c].server # "open"

Forgot(c) ==
    [S EXCEPT !.link[c] = NoLink, !.conn.connected = FALSE,
              !.conn.retries = IF conn.watched THEN @ + 1 ELSE @]

Closed(c) ==
    /\ Gone(c) /\ conn.retries < MaxLinks
    /\ LET s == [Forgot(c) EXCEPT !.turn = [t \in Turns |-> [turn[t] EXCEPT !.listed = FALSE]]]
       IN  PageIs(ends(s, {t \in inflight(S) : turn[t].at = "reading"}))
    /\ UNCHANGED <<run, bridge>>

(* The reconnect timer. *)
Reconnects ==
    /\ conn.retries > 0 /\ (conn.watched => FreeLinks # {})
    /\ LET s == [S EXCEPT !.conn.retries = @ - 1]
       IN  PageIs(IF conn.watched THEN open(s, AnyFree) ELSE s)
    /\ UNCHANGED <<run, bridge>>

(* The page is closed or reloaded, with everything it held.                *)
Leaves ==
    /\ conn # NoConnection
    /\ conn' = NoConnection
    /\ turn' = [t \in Turns |-> IF turn[t].at = "idle" THEN turn[t]
                                ELSE [turn[t] EXCEPT !.at = "ended", !.listed = FALSE]]
    /\ link' = [c \in Links |-> IF link[c].server = "open"
                                THEN [link[c] EXCEPT !.client = "left", !.down = <<>>, !.waits = {}]
                                ELSE NoLink]
    /\ UNCHANGED <<run, bridge>>

-----------------------------------------------------------------------------
(* The bridge, which its user starts and stops. *)

Start ==
    /\ ~ bridge.up
    /\ bridge' = [up |-> TRUE, connections |-> 0, idle |-> FALSE]
    /\ UNCHANGED <<conn, turn, link, run>>

serverGone(l) == IF l.client = "left" THEN NoLink ELSE [l EXCEPT !.server = "closed", !.asks = {}]

Stop ==
    /\ bridge.up
    /\ bridge' = [up |-> FALSE, connections |-> 0, idle |-> FALSE]
    /\ link' = [c \in Links |-> IF link[c].server = "open"
                                THEN serverGone(link[c]) ELSE link[c]]
    /\ run' = [t \in Turns |-> IF run[t].at \in {"finding", "running"}
                               THEN Over(run[t]) ELSE run[t]]
    /\ UNCHANGED <<conn, turn>>

(* The last page has been gone for the grace.                              *)
IdleFires ==
    /\ bridge.idle
    /\ bridge' = [up |-> FALSE, connections |-> 0, idle |-> FALSE]
    /\ UNCHANGED <<conn, turn, link, run>>

(* websocket.open, message and close. *)
Accept(c) ==
    /\ bridge.up /\ link[c].client = "connecting" /\ link[c].server = "none"
    /\ link' = [link EXCEPT ![c].server = "open"]
    /\ bridge' = [bridge EXCEPT !.connections = @ + 1, !.idle = FALSE]
    /\ UNCHANGED <<conn, turn, run>>

Receive(c, t) ==
    /\ link[c].server = "open" /\ t \in link[c].asks
    /\ link' = [link EXCEPT ![c].asks = @ \ {t}]
    /\ run' = [run EXCEPT ![t] = [at |-> "finding", link |-> c, made |-> 0]]
    /\ UNCHANGED <<conn, turn, bridge>>

(* A run that is spawned is killed; one that is not yet does not hear it.  *)
orphaned(r) == IF r.at = "running" THEN Over(r) ELSE [r EXCEPT !.link = 0]

PageCloses(c) ==
    /\ link[c].server = "open" /\ link[c].client \in {"closing", "left"}
    /\ link' = [link EXCEPT ![c] = serverGone(@)]
    /\ run' = [t \in Turns |-> IF run[t].link = c THEN orphaned(run[t]) ELSE run[t]]
    /\ bridge' = [bridge EXCEPT !.connections = @ - 1, !.idle = bridge.connections = 1]
    /\ UNCHANGED <<conn, turn>>

(* The engine of a turn: it asks the site for its name, then spawns        *)
(* claude and relays its output as long as the ws is open.                 *)
Spawn(t) ==
    /\ run[t].at = "finding"
    /\ run' = [run EXCEPT ![t].at = "running"]
    /\ UNCHANGED <<conn, turn, link, bridge>>

Relay(t, n) ==
    link' = IF run[t].link = 0 THEN link
            ELSE [link EXCEPT ![run[t].link].down = Append(@, [turn |-> t, n |-> n])]

Delta(t) ==
    /\ run[t].at = "running" /\ run[t].made < MaxTexts
    /\ Relay(t, run[t].made + 1)
    /\ run' = [run EXCEPT ![t] = IF @.link = 0 THEN Over(@) ELSE [@ EXCEPT !.made = run[t].made + 1]]
    /\ UNCHANGED <<conn, turn, bridge>>

Result(t) ==
    /\ run[t].at = "running"
    /\ Relay(t, LastFrame)
    /\ run' = [run EXCEPT ![t] = Over(@)]
    /\ UNCHANGED <<conn, turn, bridge>>

(* The site does not answer, or claude dies, before the result.            *)
Crash(t) ==
    /\ run[t].at \in {"finding", "running"}
    /\ run' = [run EXCEPT ![t] = [Over(@) EXCEPT !.at = "lost"]]
    /\ UNCHANGED <<conn, turn, link, bridge>>

-----------------------------------------------------------------------------
BridgeInit ==
    /\ conn = NoConnection
    /\ turn = [t \in Turns |-> [at |-> "idle", listed |-> FALSE, left |-> FALSE, got |-> <<>>]]
    /\ link = [c \in Links |-> NoLink]
    /\ run = [t \in Turns |-> NoRun]
    /\ bridge = [up |-> FALSE, connections |-> 0, idle |-> FALSE]

RunSteps(t) == Spawn(t) \/ Delta(t) \/ Result(t)

LinkSteps(c) ==
    \/ Opened(c) \/ Hears(c) \/ Closed(c) \/ Accept(c) \/ PageCloses(c)
    \/ \E t \in Turns : Receive(c, t)

BridgeNext ==
    \/ \E t \in Turns : Ask(t) \/ StopsReading(t) \/ RunSteps(t) \/ Crash(t)
    \/ \E c \in Links : LinkSteps(c)
    \/ Leaves \/ Watch \/ Unwatch \/ Reconnects \/ Start \/ Stop \/ IdleFires

(* Events arrive, timers fire, and claude goes on with what it was asked.  *)
BridgeFairness ==
    /\ \A t \in Turns : WF_bvars(RunSteps(t))
    /\ \A c \in Links : WF_bvars(LinkSteps(c))
    /\ WF_bvars(Reconnects) /\ WF_bvars(IdleFires)

BridgeSpec == BridgeInit /\ [][BridgeNext]_bvars /\ BridgeFairness

-----------------------------------------------------------------------------
(* Properties. *)

(* Types. *)
BridgeType ==
    /\ conn \in ConnectionState /\ turn \in [Turns -> Turn] /\ link \in [Links -> Link]
    /\ run \in [Turns -> Run]
    /\ bridge \in [up : BOOLEAN, connections : 0 .. MaxLinks, idle : BOOLEAN]

(* The turns of a page share its ws, and each yields its own frames only,  *)
(* all of them, in order, whatever reconnects on the way (assistant.ts).   *)
OwnFrames ==
    \A t \in Turns : \A i \in DOMAIN turn[t].got :
        /\ turn[t].got[i].turn = t
        /\ turn[t].got[i].n = i \/ (turn[t].got[i].n = LastFrame /\ i = Len(turn[t].got))

(* One ws per bridge address (assistant.ts).                               *)
OneSocket == Cardinality({c \in Links : link[c].client \in {"connecting", "open"}}) <= 1

(* The page's presence is the truth about that ws, and the bridge counts   *)
(* exactly the ones it holds: it is about to leave only when there is none *)
(* (assistant.ts, serve.ts).                                               *)
PresenceSound ==
    /\ OneSocket
    /\ \A c \in Links : link[c].client = "open" => conn.connected /\ conn.socket = c
    /\ conn.connected => \E c \in Links : link[c].client \in {"open", "closing"}
    /\ bridge.connections = Cardinality({c \in Links : link[c].server = "open"})
    /\ bridge.idle => bridge.up /\ bridge.connections = 0

(* What a page shows of its bridge and of its turns is true (assistant.ts, *)
(* serve.ts).                                                              *)
BridgeSound == OwnFrames /\ PresenceSound

Hangs(t) == turn[t].at \in {"awaiting", "reading"} /\ run[t].at # "lost"

(* Every turn the page asked for ends: with its answer, or with the ws it  *)
(* was asked on; but for a run that is lost, of which nobody tells.        *)
TurnsEnd == \A t \in Turns : Hangs(t) ~> ~ Hangs(t)

BridgeHeld ==
    /\ bridge.up /\ bridge.connections > 0
    /\ ~ conn.watched /\ \A t \in Turns : turn[t].at \in {"idle", "ended"}

(* A page that is gone lets the bridge go: no reader and no turn left,     *)
(* its ws closes, the bridge counts it out and ends.                       *)
BridgeLeaves == BridgeHeld ~> ~ BridgeHeld

(* A run never outlives the ws of its page (serve.ts).                     *)
RunDiesWithPage == \A t \in Turns : run[t].at = "running" => run[t].link # 0

=============================================================================
