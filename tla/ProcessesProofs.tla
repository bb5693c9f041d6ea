-------------------------- MODULE ProcessesProofs ---------------------------
(***************************************************************************)
(* Proofs about the two programs that keep other processes alive: the      *)
(* launcher of a desktop bundle, for any servers, ports, requests and      *)
(* limits, and the dev orchestrator.                                       *)
(***************************************************************************)
EXTENDS Launcher, DevServer, TLAPS

-----------------------------------------------------------------------------
(* The launcher drives its watch only by the watch's own operations, and   *)
(* by a process that starts anew.                                          *)
WatchNext ==
    \/ TimerFires \/ Stop \/ \E u \in Urls : Watch(u)
    \/ Discarded \/ Hit \/ Miss \/ Lost
    \/ WatchInit'

WatchInv == WatchType /\ NeverUnwatched

LEMMA ZeroFailures == 0 \in 0 .. FailureLimit - 1 /\ 0 \in 0 .. MaxStrays
BY LivenessWatchAssumption

LEMMA InitWatch == WatchInit => WatchInv
BY ZeroFailures, Zenon DEF WatchInit, WatchInv, WatchType, NeverUnwatched

(* setTimeout leaves the handle's timer armed.                             *)
LEMMA ArmProperties ==
    ASSUME NEW held \in BOOLEAN, NEW loose \in 0 .. MaxStrays, arm(held, loose)
    PROVE  timer' = TRUE /\ strays' \in 0 .. MaxStrays
BY LivenessWatchAssumption DEF arm

(* A probe that starts, or a timer armed again, covers the target; a timer *)
(* that fires for nobody covers nothing.                                   *)
LEMMA RunProbeProperties ==
    ASSUME NEW held \in BOOLEAN, NEW loose \in 0 .. MaxStrays, runProbe(held, loose),
           watchedUrl \in Urls \cup {None}, probe \in Urls \cup {None}
    PROVE  /\ timer' \in BOOLEAN /\ strays' \in 0 .. MaxStrays
           /\ probe' \in Urls \cup {None}
           /\ watchedUrl # None => timer' = TRUE \/ probe' = watchedUrl
<1>1. CASE watchedUrl # None /\ probe # None
  BY <1>1, ArmProperties DEF runProbe
<1>2. CASE ~ (watchedUrl # None /\ probe # None)
  BY <1>2 DEF runProbe
<1> QED BY <1>1, <1>2

LEMMA StepWatch == WatchInv /\ [WatchNext]_watch => WatchInv'
<1> SUFFICES ASSUME WatchInv, [WatchNext]_watch PROVE WatchInv'
  OBVIOUS
<1> USE LivenessWatchAssumption DEF WatchInv, WatchType, NeverUnwatched
<1>1. CASE TimerFires
  <2>1. watchedUrl' = watchedUrl /\ failures' = failures
    BY <1>1 DEF TimerFires
  <2>2. PICK held \in BOOLEAN, loose \in 0 .. MaxStrays : runProbe(held, loose)
    <3>1. CASE timer /\ runProbe(FALSE, strays)
      BY <3>1
    <3>2. CASE strays > 0 /\ runProbe(timer, strays - 1)
      <4>1. strays - 1 \in 0 .. MaxStrays
        BY <3>2
      <4> QED BY <3>2, <4>1
    <3> QED BY <1>1, <3>1, <3>2 DEF TimerFires
  <2>3. /\ timer' \in BOOLEAN /\ strays' \in 0 .. MaxStrays /\ probe' \in Urls \cup {None}
        /\ watchedUrl # None => timer' = TRUE \/ probe' = watchedUrl
    BY <2>2, RunProbeProperties
  <2> QED BY <2>1, <2>3
<1>2. CASE Stop
  BY <1>2, ZeroFailures, Zenon DEF Stop, stop
<1>3. CASE \E u \in Urls : Watch(u)
  BY <1>3 DEF Watch
<1>4. CASE Discarded
  BY <1>4 DEF Discarded
<1>5. ASSUME Hit \/ Miss PROVE WatchInv'
  <2>1. arm(timer, strays) /\ watchedUrl' = watchedUrl /\ probe' = None
    BY <1>5 DEF Hit, Miss
  <2>2. timer' = TRUE /\ strays' \in 0 .. MaxStrays
    BY <2>1, ArmProperties
  <2>3. failures' \in 0 .. FailureLimit - 1
    BY <1>5 DEF Hit, Miss
  <2> QED BY <2>1, <2>2, <2>3
<1>6. CASE Lost
  BY <1>6, ZeroFailures, Zenon DEF Lost, stop
<1>7. CASE WatchInit'
  BY <1>7, ZeroFailures, Zenon DEF WatchInit
<1>8. CASE UNCHANGED watch
  BY <1>8 DEF watch
<1> QED BY <1>1, <1>2, <1>3, <1>4, <1>5, <1>6, <1>7, <1>8 DEF WatchNext

-----------------------------------------------------------------------------
LEMMA HandlerProperties ==
    ASSUME TypeOK, NEW r \in Requests \cup {launch}
    PROVE  /\ handler[r] \in Handler
           /\ handler[r].at = "probing" => handler[r].url \in Remotes
           /\ handler[r].at = "booting" => handler[r].url \in Ports
           /\ handler[r] # Idle => handler[r].url \in Urls
           /\ handler[r].at \in {"probing", "booting", "bridging", "saving"} => handler[r] # Idle
<1>1. handler[r] \in Handler
  BY DEF TypeOK, OwnType
<1> QED BY <1>1, LauncherAssumption DEF Handler, Idle

LEMMA StepDrivesWatch == TypeOK /\ [Next]_vars => [WatchNext]_watch
<1> SUFFICES ASSUME TypeOK, [Next]_vars PROVE [WatchNext]_watch
  OBVIOUS
<1> USE LauncherAssumption DEF TypeOK, OwnType
<1>1. CASE LaunchScreen
  BY <1>1 DEF LaunchScreen, watch
<1>2. CASE LaunchEmbedded
  BY <1>2 DEF LaunchEmbedded, watch
<1>3. CASE LaunchRemote
  BY <1>3 DEF LaunchRemote, watch
<1>4. ASSUME NEW r \in Requests, Start(r) PROVE [WatchNext]_watch
  BY <1>4 DEF Start, watch
<1>5. ASSUME NEW r \in Requests, NEW u \in Remotes, Connect(r, u) PROVE [WatchNext]_watch
  BY <1>5 DEF Connect, watch
<1>6. ASSUME NEW r \in Requests \cup {launch}, Confirmed(r) PROVE [WatchNext]_watch
  BY <1>6, HandlerProperties DEF Confirmed, becomeConnected, WatchNext
<1>7. ASSUME NEW r \in Requests \cup {launch}, Refused(r) PROVE [WatchNext]_watch
  BY <1>7 DEF Refused, watch
<1>8. ASSUME NEW r \in Requests \cup {launch}, Ready(r) PROVE [WatchNext]_watch
  BY <1>8, HandlerProperties DEF Ready, becomeConnected, WatchNext
<1>9. ASSUME NEW r \in Requests \cup {launch}, BootFails(r) PROVE [WatchNext]_watch
  BY <1>9 DEF BootFails, watch
<1>10. ASSUME NEW r \in Requests \cup {launch}, Replies(r) PROVE [WatchNext]_watch
  BY <1>10 DEF Replies, watch
<1>11. CASE BridgeLoads
  BY <1>11 DEF BridgeLoads, watch
<1>12. CASE Disconnect
  BY <1>12 DEF Disconnect, WatchNext
<1>13. CASE WatchTicks
  BY <1>13 DEF WatchTicks, WatchNext
<1>14. CASE ProbeAnswers
  BY <1>14 DEF ProbeAnswers, WatchNext
<1>15. CASE ConnectionLost
  BY <1>15 DEF ConnectionLost, WatchNext
<1>16. ASSUME NEW u \in Urls, HostComes(u) \/ HostDies(u) PROVE [WatchNext]_watch
  BY <1>16 DEF HostComes, HostDies, watch
<1>17. CASE Relaunch
  BY <1>17 DEF Relaunch, WatchNext, WatchInit
<1>18. CASE UNCHANGED vars
  BY <1>18 DEF vars, watch
<1>19. DOMAIN handler = Requests \cup {launch}
  OBVIOUS
<1> QED
  BY <1>1, <1>2, <1>3, <1>4, <1>5, <1>6, <1>7, <1>8, <1>9, <1>10, <1>11, <1>12, <1>13,
     <1>14, <1>15, <1>16, <1>17, <1>18, <1>19 DEF Next, Step

LEMMA StepOwnType == TypeOK /\ [Next]_vars => OwnType'
<1> SUFFICES ASSUME TypeOK, [Next]_vars PROVE OwnType'
  OBVIOUS
<1>0. OwnType
  BY DEF TypeOK, OwnType
<1> USE <1>0, LauncherAssumption DEF OwnType, Handler, Idle, Screens
<1>1. CASE LaunchScreen
  BY <1>1 DEF LaunchScreen
<1>2. CASE LaunchEmbedded
  <2>1. PICK p \in Ports :
            /\ host' = [reaped EXCEPT ![p] = "booting"]
            /\ serverChild' = None
            /\ handler' = [handler EXCEPT ![launch] = [at |-> "booting", url |-> p]]
    BY <1>2 DEF LaunchEmbedded, boots
  <2>2. host' \in [Urls -> {"down", "booting", "up"}]
    BY <2>1 DEF reaped
  <2>3. handler' \in [Requests \cup {launch} -> Handler]
    BY <2>1
  <2> QED BY <1>2, <2>1, <2>2, <2>3 DEF LaunchEmbedded
<1>3. CASE LaunchRemote
  BY <1>3 DEF LaunchRemote
<1>4. ASSUME NEW r \in Requests, Start(r) PROVE OwnType'
  BY <1>4 DEF Start, boots, reaped
<1>5. ASSUME NEW r \in Requests, NEW u \in Remotes, Connect(r, u) PROVE OwnType'
  BY <1>5 DEF Connect
<1>6. ASSUME NEW r \in Requests \cup {launch}, Confirmed(r) PROVE OwnType'
  BY <1>6 DEF Confirmed, becomeConnected
<1>7. ASSUME NEW r \in Requests \cup {launch}, Refused(r) PROVE OwnType'
  BY <1>7 DEF Refused, fails
<1>8. ASSUME NEW r \in Requests \cup {launch}, Ready(r) PROVE OwnType'
  BY <1>8, HandlerProperties DEF Ready, becomeConnected
<1>9. ASSUME NEW r \in Requests \cup {launch}, BootFails(r) PROVE OwnType'
  BY <1>9 DEF BootFails, fails, reaped
<1>10. ASSUME NEW r \in Requests \cup {launch}, Replies(r) PROVE OwnType'
  BY <1>10 DEF Replies
<1>11. CASE BridgeLoads
  BY <1>11 DEF BridgeLoads
<1>12. CASE Disconnect
  BY <1>12 DEF Disconnect, becomeDisconnected, reaped
<1>13. CASE WatchTicks
  BY <1>13 DEF WatchTicks
<1>14. CASE ProbeAnswers
  BY <1>14 DEF ProbeAnswers
<1>15. CASE ConnectionLost
  BY <1>15 DEF ConnectionLost, becomeDisconnected, reaped
<1>16. ASSUME NEW u \in Urls, HostComes(u) \/ HostDies(u) PROVE OwnType'
  BY <1>16 DEF HostComes, HostDies
<1>17. CASE Relaunch
  BY <1>17 DEF Relaunch
<1>18. CASE UNCHANGED vars
  BY <1>18 DEF vars
<1>19. DOMAIN handler = Requests \cup {launch}
  OBVIOUS
<1> QED
  BY <1>1, <1>2, <1>3, <1>4, <1>5, <1>6, <1>7, <1>8, <1>9, <1>10, <1>11, <1>12, <1>13,
     <1>14, <1>15, <1>16, <1>17, <1>18, <1>19 DEF Next, Step

-----------------------------------------------------------------------------
(* What the conclusions need of the handlers: the one whose reply would be *)
(* followed and that is past its connection is still connected, since      *)
(* whatever disconnects takes the page away, ...                           *)
ReplyConnected ==
    page # None /\ handler[page].at \in {"bridging", "saving"} => flag

(* ... and the launch resolves only before the window opens on a page.     *)
LaunchCloses ==
    /\ handler[launch] # Idle => window = "closed"
    /\ window = "closed" => page = None

Connection == ConnectedTogether /\ DisconnectedReaps /\ ReplyConnected /\ LaunchCloses

LauncherInv == TypeOK /\ NeverUnwatched /\ Connection

LEMMA LauncherInitially == Init => LauncherInv
<1> SUFFICES ASSUME Init PROVE LauncherInv
  OBVIOUS
<1>1. WatchType /\ NeverUnwatched
  BY InitWatch DEF Init, WatchInv
<1>2. OwnType
  BY LauncherAssumption DEF Init, OwnType, Handler, Idle, Screens
<1>3. Connection
  BY LauncherAssumption DEF Init, WatchInit, Connection, ConnectedTogether, DisconnectedReaps,
     ReplyConnected, LaunchCloses, Idle
<1> QED BY <1>1, <1>2, <1>3 DEF LauncherInv, TypeOK, OwnType

LEMMA StepConnection == TypeOK /\ Connection /\ [Next]_vars => Connection'
<1> SUFFICES ASSUME TypeOK, Connection, [Next]_vars PROVE Connection'
  OBVIOUS
<1>0. OwnType /\ watchedUrl \in Urls \cup {None}
  BY DEF TypeOK, OwnType, WatchType
<1> USE <1>0, LauncherAssumption, LivenessWatchAssumption
    DEF OwnType, Idle, Connection, ConnectedTogether, DisconnectedReaps, ReplyConnected, LaunchCloses
<1>1. CASE LaunchScreen
  BY <1>1 DEF LaunchScreen, watch
<1>2. CASE LaunchEmbedded
  BY <1>2 DEF LaunchEmbedded, boots, watch
<1>3. CASE LaunchRemote
  BY <1>3 DEF LaunchRemote, watch
<1>4. ASSUME NEW r \in Requests, Start(r) PROVE Connection'
  BY <1>4 DEF Start, boots, watch
<1>5. ASSUME NEW r \in Requests, NEW u \in Remotes, Connect(r, u) PROVE Connection'
  BY <1>5 DEF Connect, watch
<1>6. ASSUME NEW r \in Requests \cup {launch}, Confirmed(r) PROVE Connection'
  BY <1>6, HandlerProperties DEF Confirmed, becomeConnected, Watch
<1>7. ASSUME NEW r \in Requests \cup {launch}, Refused(r) PROVE Connection'
  BY <1>7 DEF Refused, fails, watch
<1>8. ASSUME NEW r \in Requests \cup {launch}, Ready(r) PROVE Connection'
  BY <1>8, HandlerProperties DEF Ready, becomeConnected, Watch
<1>9. ASSUME NEW r \in Requests \cup {launch}, BootFails(r) PROVE Connection'
  BY <1>9 DEF BootFails, fails, watch
<1>10. ASSUME NEW r \in Requests \cup {launch}, Replies(r) PROVE Connection'
  BY <1>10 DEF Replies, watch
<1>11. CASE BridgeLoads
  BY <1>11 DEF BridgeLoads, watch
<1>12. CASE Disconnect
  BY <1>12 DEF Disconnect, becomeDisconnected, Stop, stop
<1>13. CASE WatchTicks
  BY <1>13 DEF WatchTicks, TimerFires
<1>14. CASE ProbeAnswers
  BY <1>14 DEF ProbeAnswers, Discarded, Hit, Miss
<1>15. CASE ConnectionLost
  BY <1>15 DEF ConnectionLost, becomeDisconnected, Lost, stop
<1>16. ASSUME NEW u \in Urls, HostComes(u) \/ HostDies(u) PROVE Connection'
  BY <1>16 DEF HostComes, HostDies, watch
<1>17. CASE Relaunch
  BY <1>17 DEF Relaunch
<1>18. CASE UNCHANGED vars
  BY <1>18 DEF vars, watch
<1>19. DOMAIN handler = Requests \cup {launch}
  OBVIOUS
<1> QED
  BY <1>1, <1>2, <1>3, <1>4, <1>5, <1>6, <1>7, <1>8, <1>9, <1>10, <1>11, <1>12, <1>13,
     <1>14, <1>15, <1>16, <1>17, <1>18, <1>19 DEF Next, Step

LEMMA LauncherStep == LauncherInv /\ [Next]_vars => LauncherInv'
<1> SUFFICES ASSUME LauncherInv, [Next]_vars PROVE LauncherInv'
  OBVIOUS
<1>1. (WatchType /\ NeverUnwatched)'
  BY StepDrivesWatch, StepWatch DEF LauncherInv, TypeOK, WatchInv
<1>2. OwnType'
  BY StepOwnType DEF LauncherInv
<1>3. Connection'
  BY StepConnection DEF LauncherInv
<1> QED BY <1>1, <1>2, <1>3 DEF LauncherInv, TypeOK, OwnType

-----------------------------------------------------------------------------
(* Every state of the launcher is well typed, whatever its bounds.         *)
THEOREM LauncherTypeCorrect == Spec => []TypeOK
<1>1. LauncherInv => TypeOK
  BY DEF LauncherInv, Connection
<1> QED BY LauncherInitially, LauncherStep, <1>1, PTL DEF Spec

(* No interleaving of any number of handlers with the watch leaves the     *)
(* menu's flag and the watch apart (becomeConnected, becomeDisconnected).  *)
THEOREM LauncherConnectedTogether == Spec => []ConnectedTogether
<1>1. LauncherInv => ConnectedTogether
  BY DEF LauncherInv, Connection
<1> QED BY LauncherInitially, LauncherStep, <1>1, PTL DEF Spec

(* A tracked child never outlives the connection: whatever turns the flag  *)
(* off has reaped it (becomeDisconnected, killServerChild).                *)
THEOREM LauncherDisconnectedReaps == Spec => []DisconnectedReaps
<1>1. LauncherInv => DisconnectedReaps
  BY DEF LauncherInv, Connection
<1> QED BY LauncherInitially, LauncherStep, <1>1, PTL DEF Spec

(* The watched url always has a timer or its own probe under way, however  *)
(* watches, stops and late answers interleave (runProbe).                  *)
THEOREM LauncherNeverUnwatched == Spec => []NeverUnwatched
<1>1. LauncherInv => NeverUnwatched
  BY DEF LauncherInv, Connection
<1> QED BY LauncherInitially, LauncherStep, <1>1, PTL DEF Spec

(* Only Replies takes the window from the connect screen to a server, and  *)
(* the handler whose reply is followed is still connected.                 *)
LEMMA StepOpens ==
    LauncherInv /\ [Next]_vars => (window = "connect" /\ window' \in Urls => flag')
<1> SUFFICES ASSUME LauncherInv, [Next]_vars, window = "connect", window' \in Urls PROVE flag'
  OBVIOUS
<1>1. "connect" \notin Urls /\ "closed" \notin Urls
  BY LauncherAssumption
<1>2. PICK r \in Requests \cup {launch} : Replies(r)
  BY <1>1 DEF LauncherInv, TypeOK, OwnType, Next, Step, vars, watch, LaunchScreen, LaunchEmbedded, LaunchRemote,
     Connect, Start, Confirmed, Refused, Ready, BootFails, fails, BridgeLoads, Disconnect,
     WatchTicks, ProbeAnswers, ConnectionLost, HostComes, HostDies, Relaunch
<1>3. handler[r].at = "saving" /\ r # launch
  BY <1>2 DEF LauncherInv, Connection, LaunchCloses, Replies, Idle
<1>4. page = r /\ page # None
  BY <1>1, <1>2, <1>3, LauncherAssumption DEF Replies
<1> QED BY <1>2, <1>3, <1>4 DEF LauncherInv, Connection, ReplyConnected, Replies

(* The connect screen never sends the window to a server while the worker  *)
(* holds no connection (handleConnectionLost, handleDisconnect).           *)
THEOREM LauncherOpensConnected == Spec => OpensConnected
<1> QED BY LauncherInitially, LauncherStep, StepOpens, PTL DEF Spec, OpensConnected

-----------------------------------------------------------------------------
(* The dev orchestrator, for any number of workers, saves and crashes.     *)

(* The replacement is not the worker it is to replace: stopping that one   *)
(* when the new one is ready leaves the new one.                           *)
NextIsAnother ==
    rebuilding.pc = "booting" => rebuilding.next \in Workers /\ rebuilding.next # rebuilding.previous

(* Whoever crashed too often is not started again, and no longer counted.  *)
GivenUp == exits = ExitLimit => active = NoWorker

DevInv == DevType /\ GivenUp /\ NextIsAnother /\ PortAnswers

LEMMA DevInitially == DevInit => DevInv
<1> SUFFICES ASSUME DevInit PROVE DevInv
  OBVIOUS
<1>1. active \in Workers
  BY DevAssumption DEF DevInit
<1>2. worker \in [Workers -> Worker]
  BY DEF DevInit, Worker
<1>3. 0 \in 0 .. MaxEdits /\ 0 \in 0 .. MaxCrashes /\ 0 \in 0 .. ExitLimit /\ ExitLimit # 0
  BY DevAssumption
<1>4. rebuilding \in Rebuilding /\ rebuilding.pc = "idle"
  <2>1. rebuilding = [pc |-> "idle", from |-> 0, queued |-> FALSE,
                      next |-> NoWorker, previous |-> NoWorker]
    BY DEF DevInit
  <2> QED BY <2>1, <1>3 DEF Rebuilding
<1>5. /\ seen \in [asked : 0 .. MaxEdits, tried : 0 .. MaxEdits, crashes : 0 .. MaxCrashes,
                  answered : BOOLEAN]
      /\ ~ seen.answered
  <2>1. seen = [asked |-> 0, tried |-> 0, crashes |-> 0, answered |-> FALSE]
    BY DEF DevInit
  <2> QED BY <2>1, <1>3
<1>6. orchestrator \in [pc : {"running", "stopping", "gone"}, waits : Workers \cup {NoWorker}]
  BY DEF DevInit
<1>7. edits \in 0 .. MaxEdits /\ watcher \in {"off", "idle", "armed"} /\ exits = 0
  BY <1>3 DEF DevInit
<1> QED
  BY <1>1, <1>2, <1>3, <1>4, <1>5, <1>6, <1>7
  DEF DevInv, DevType, GivenUp, NextIsAnother, PortAnswers

(* A name that is free is a worker's, and neither one meant nor one alive. *)
LEMMA FreshIsFree ==
    ASSUME NEW ws, NEW meant, Free(ws, meant) # {}
    PROVE  /\ fresh(ws, meant) \in Workers \ meant
           /\ ws[fresh(ws, meant)] = "none"
<1>1. fresh(ws, meant) \in Free(ws, meant)
  BY Zenon DEF fresh
<1> QED BY <1>1 DEF Free

LEMMA ToldProperties ==
    ASSUME NEW ws \in [Workers -> Worker], NEW w
    PROVE  /\ told(ws, w) \in [Workers -> Worker]
           /\ \A v \in Workers : v # w => told(ws, w)[v] = ws[v]
BY DEF told, Worker

-----------------------------------------------------------------------------
(* Where a rebuild goes when it is asked for, and when it ends.            *)
LEMMA RebuildProperties ==
    ASSUME rebuilding \in Rebuilding, edits \in 0 .. MaxEdits, NextIsAnother, rebuild
    PROVE  rebuilding' \in Rebuilding /\ NextIsAnother'
<1>1. CASE rebuilding.pc = "idle"
  <2>1. rebuilding' = [rebuilding EXCEPT !.pc = "building", !.from = edits]
    BY <1>1 DEF rebuild
  <2> QED BY <2>1 DEF Rebuilding, NextIsAnother
<1>2. CASE rebuilding.pc # "idle"
  <2>1. rebuilding' = [rebuilding EXCEPT !.queued = TRUE]
    BY <1>2 DEF rebuild
  <2> QED BY <2>1 DEF Rebuilding, NextIsAnother
<1> QED BY <1>1, <1>2

LEMMA RebuiltProperties ==
    ASSUME rebuilding \in Rebuilding, edits \in 0 .. MaxEdits, rebuilt
    PROVE  rebuilding' \in Rebuilding /\ NextIsAnother'
<1>1. CASE rebuilding.queued
  <2>1. rebuilding' = [pc |-> "building", from |-> edits, queued |-> FALSE,
                       next |-> NoWorker, previous |-> NoWorker]
    BY <1>1 DEF rebuilt
  <2> QED BY <2>1 DEF Rebuilding, NextIsAnother
<1>2. CASE ~ rebuilding.queued
  <2>1. rebuilding' = [rebuilding EXCEPT !.pc = "idle", !.next = NoWorker, !.previous = NoWorker]
    BY <1>2 DEF rebuilt
  <2> QED BY <2>1 DEF Rebuilding, NextIsAnother
<1> QED BY <1>1, <1>2

Seen == [asked : 0 .. MaxEdits, tried : 0 .. MaxEdits, crashes : 0 .. MaxCrashes,
         answered : BOOLEAN]

(* A step that stops nobody who is ready, and changes none of what the     *)
(* promise depends on, keeps the port answering.                           *)
LEMMA ReadyStays ==
    ASSUME PortAnswers, orchestrator' = orchestrator,
           seen'.answered = seen.answered, seen'.crashes = seen.crashes,
           \A w \in Workers : worker[w] = "ready" => worker'[w] = "ready"
    PROVE  PortAnswers'
BY DEF PortAnswers

LEMMA DevStep == DevInv /\ [DevNext]_dvars => DevInv'
<1> SUFFICES ASSUME DevInv, [DevNext]_dvars PROVE DevInv'
  OBVIOUS
<1>0. DevType /\ GivenUp /\ NextIsAnother /\ PortAnswers /\ seen \in Seen
  BY DEF DevInv, DevType, Seen
<1> USE DevAssumption
<1>1. CASE Save
  <2>1. edits' \in 0 .. MaxEdits /\ watcher' \in {"off", "idle", "armed"}
    BY <1>0, <1>1 DEF Save, DevType
  <2> QED
    BY <1>0, <1>1, <2>1 DEF DevInv, Save, DevType, GivenUp, NextIsAnother, PortAnswers
<1>2. CASE Debounced \/ Reload
  <2>1. /\ rebuild /\ seen' = [seen EXCEPT !.asked = edits]
        /\ watcher' \in {"off", "idle", "armed"}
        /\ UNCHANGED <<edits, active, exits, worker, orchestrator>>
    BY <1>0, <1>2 DEF Debounced, Reload, DevType
  <2>2. rebuilding' \in Rebuilding /\ NextIsAnother'
    BY <1>0, <2>1, RebuildProperties DEF DevType
  <2>3. seen' \in Seen /\ seen'.answered = seen.answered /\ seen'.crashes = seen.crashes
    BY <1>0, <2>1 DEF Seen, DevType
  <2>4. PortAnswers'
    BY <1>0, <2>1, <2>3, ReadyStays
  <2> QED BY <1>0, <2>1, <2>2, <2>3, <2>4 DEF DevInv, DevType, GivenUp, Seen
<1>3. CASE BuildFails \/ BootFailed \/ Retired
  <2>1. /\ rebuilt /\ seen' \in {seen, [seen EXCEPT !.tried = rebuilding.from]}
        /\ UNCHANGED <<edits, watcher, active, exits, worker, orchestrator>>
    BY <1>3 DEF BuildFails, BootFailed, Retired, tried
  <2>2. rebuilding' \in Rebuilding /\ NextIsAnother'
    BY <1>0, <2>1, RebuiltProperties DEF DevType
  <2>3. seen' \in Seen /\ seen'.answered = seen.answered /\ seen'.crashes = seen.crashes
    BY <1>0, <2>1 DEF Seen, DevType, Rebuilding
  <2>4. PortAnswers'
    BY <1>0, <2>1, <2>3, ReadyStays
  <2> QED BY <1>0, <2>1, <2>2, <2>3, <2>4 DEF DevInv, DevType, GivenUp, Seen
<1>4. CASE Replace
  <2> DEFINE next == fresh(worker, {active})
  <2>1. next \in Workers /\ next # active /\ worker[next] = "none"
    <3>1. Free(worker, {active}) # {}
      BY <1>4 DEF Replace
    <3> QED BY <3>1, FreshIsFree
  <2>2. /\ rebuilding' = [rebuilding EXCEPT !.pc = "booting", !.next = next, !.previous = active]
        /\ worker' = [worker EXCEPT ![next] = "booting"]
        /\ UNCHANGED <<edits, watcher, active, exits, orchestrator, seen>>
    BY <1>4 DEF Replace
  <2> HIDE DEF next
  <2>3. rebuilding' \in Rebuilding /\ NextIsAnother'
    BY <1>0, <2>1, <2>2 DEF DevType, Rebuilding, NextIsAnother
  <2>4. /\ worker' \in [Workers -> Worker]
        /\ \A w \in Workers : worker[w] = "ready" => worker'[w] = "ready"
    BY <1>0, <2>1, <2>2 DEF DevType, Worker
  <2>5. PortAnswers'
    BY <1>0, <2>2, <2>4, ReadyStays
  <2> QED BY <1>0, <2>2, <2>3, <2>4, <2>5 DEF DevInv, DevType, GivenUp
<1>5. ASSUME NEW w \in Workers, ReportsReady(w) PROVE DevInv'
  <2> DEFINE ready == [worker EXCEPT ![w] = "ready"]
             swaps == Running /\ rebuilding.pc = "booting" /\ rebuilding.next = w
  <2>1. /\ worker' = IF swaps THEN told(ready, rebuilding.previous) ELSE ready
        /\ active' = IF swaps THEN w ELSE active
        /\ exits' = IF Running THEN 0 ELSE exits
        /\ rebuilding' = IF swaps THEN [rebuilding EXCEPT !.pc = "retiring"] ELSE rebuilding
        /\ seen' = [seen EXCEPT !.answered = TRUE, !.tried = IF swaps THEN rebuilding.from ELSE @]
        /\ UNCHANGED <<edits, watcher, orchestrator>>
    BY <1>5 DEF ReportsReady
  <2>2. ready \in [Workers -> Worker] /\ ready[w] = "ready"
    BY <1>0 DEF DevType, Worker
  <2> HIDE DEF ready
  <2>3. seen' \in Seen
    <3>1. (IF swaps THEN rebuilding.from ELSE seen.tried) \in 0 .. MaxEdits
      BY <1>0 DEF DevType, Rebuilding
    <3> QED BY <1>0, <2>1, <3>1 DEF Seen
  <2>4. CASE swaps
    <3>1. rebuilding.previous # w
      BY <1>0, <2>4 DEF NextIsAnother
    <3>2. worker' = told(ready, rebuilding.previous)
      BY <2>1, <2>4
    <3>3. worker' \in [Workers -> Worker] /\ worker'[w] = "ready"
      BY <2>2, <3>1, <3>2, ToldProperties
    <3>4. rebuilding' \in Rebuilding /\ NextIsAnother'
      BY <1>0, <2>1, <2>4 DEF DevType, Rebuilding, NextIsAnother
    <3>5. exits' = 0 /\ active' = w
      BY <2>1, <2>4
    <3> QED
      BY <1>0, <2>1, <2>3, <3>3, <3>4, <3>5 DEF DevInv, DevType, GivenUp, PortAnswers, Seen
  <2>5. CASE ~ swaps
    <3>1. /\ worker' = ready /\ active' = active /\ rebuilding' = rebuilding
          /\ exits' \in {0, exits}
      BY <2>1, <2>5
    <3>2. PortAnswers'
      BY <2>2, <3>1 DEF PortAnswers
    <3> QED
      BY <1>0, <2>1, <2>2, <2>3, <3>1, <3>2 DEF DevInv, DevType, GivenUp, NextIsAnother, Seen
  <2> QED BY <2>4, <2>5
<1>6. CASE TimesOut
  <2>1. /\ worker[rebuilding.next] = "booting"
        /\ worker' = told(worker, rebuilding.next)
        /\ UNCHANGED <<edits, watcher, rebuilding, active, exits, orchestrator, seen>>
    BY <1>6 DEF TimesOut
  <2>2. /\ worker' \in [Workers -> Worker]
        /\ \A v \in Workers : v # rebuilding.next => worker'[v] = worker[v]
    BY <1>0, <2>1, ToldProperties DEF DevType
  <2>3. PortAnswers'
    <3>1. \A v \in Workers : worker[v] = "ready" => worker'[v] = "ready"
      BY <2>1, <2>2
    <3> QED BY <1>0, <2>1, <3>1, ReadyStays
  <2> QED BY <1>0, <2>1, <2>2, <2>3 DEF DevInv, DevType, GivenUp, NextIsAnother
<1>7. ASSUME NEW w \in Workers, Exits(w) PROVE DevInv'
  <2>1. /\ worker[w] = "told" /\ worker' = [worker EXCEPT ![w] = "none"]
        /\ UNCHANGED <<edits, watcher, rebuilding, active, exits, orchestrator, seen>>
    BY <1>7 DEF Exits
  <2>2. /\ worker' \in [Workers -> Worker]
        /\ \A v \in Workers : worker[v] = "ready" => worker'[v] = "ready"
    BY <1>0, <2>1 DEF DevType, Worker
  <2>3. PortAnswers'
    BY <1>0, <2>1, <2>2, ReadyStays
  <2> QED BY <1>0, <2>1, <2>2, <2>3 DEF DevInv, DevType, GivenUp, NextIsAnother
<1>8. ASSUME NEW w \in Workers, Crashes(w) PROVE DevInv'
  <2> DEFINE dead == [worker EXCEPT ![w] = "none"]
             handled == w = active /\ orchestrator.pc = "running"
             again == handled /\ exits + 1 < ExitLimit
             next == fresh(dead, {})
  <2>1. /\ again => Free(dead, {}) # {}
        /\ worker' = IF again THEN [dead EXCEPT ![next] = "booting"] ELSE dead
        /\ active' = CASE again -> next
                       [] handled /\ ~again -> NoWorker
                       [] OTHER -> active
        /\ exits' = IF handled THEN exits + 1 ELSE exits
        /\ seen' = [seen EXCEPT !.crashes = @ + 1] /\ seen.crashes < MaxCrashes
        /\ UNCHANGED <<edits, watcher, rebuilding, orchestrator>>
    BY <1>8 DEF Crashes
  <2>2. seen' \in Seen /\ seen'.crashes # 0
    BY <1>0, <2>1 DEF Seen
  <2>3. dead \in [Workers -> Worker]
    BY <1>0 DEF DevType, Worker
  <2>4. again => next \in Workers
    BY <2>1, FreshIsFree
  <2>5. handled => exits < ExitLimit
    BY <1>0 DEF GivenUp, DevType
  <2> HIDE DEF dead, next
  <2>6. CASE again
    <3>1. worker' = [dead EXCEPT ![next] = "booting"] /\ active' = next /\ exits' = exits + 1
      BY <2>1, <2>6
    <3>2. worker' \in [Workers -> Worker] /\ active' \in Workers
      BY <2>3, <2>4, <2>6, <3>1 DEF Worker
    <3>3. exits' \in 0 .. ExitLimit /\ exits' # ExitLimit
      BY <1>0, <2>6, <3>1 DEF DevType
    <3> QED
      BY <1>0, <2>1, <2>2, <3>2, <3>3
      DEF DevInv, DevType, GivenUp, NextIsAnother, PortAnswers, Seen
  <2>7. CASE ~ again
    <3>1. worker' = dead
      BY <2>1, <2>7
    <3>2. active' \in {active, NoWorker} /\ exits' \in 0 .. ExitLimit /\ GivenUp'
      <4>1. CASE handled
        BY <1>0, <2>1, <2>5, <2>7, <4>1 DEF DevType, GivenUp
      <4>2. CASE ~ handled
        BY <1>0, <2>1, <2>7, <4>2 DEF DevType, GivenUp
      <4> QED BY <4>1, <4>2
    <3> QED
      BY <1>0, <2>1, <2>2, <2>3, <3>1, <3>2
      DEF DevInv, DevType, NextIsAnother, PortAnswers, Seen
  <2> QED BY <2>6, <2>7
<1>9. CASE Shutdown \/ Quits
  <2>1. /\ worker' = told(worker, active)
        /\ orchestrator' \in [pc : {"stopping", "gone"}, waits : Workers \cup {NoWorker}]
        /\ watcher' \in {"off", "idle", "armed"}
        /\ UNCHANGED <<edits, rebuilding, active, exits, seen>>
    BY <1>0, <1>9 DEF Shutdown, Quits, DevType
  <2>2. worker' \in [Workers -> Worker]
    BY <1>0, <2>1, ToldProperties DEF DevType
  <2> QED
    BY <1>0, <2>1, <2>2 DEF DevInv, DevType, GivenUp, NextIsAnother, PortAnswers
<1>10. CASE UNCHANGED dvars
  BY <1>0, <1>10 DEF dvars, DevInv, DevType, GivenUp, NextIsAnother, PortAnswers
<1> QED
  BY <1>1, <1>2, <1>3, <1>4, <1>5, <1>6, <1>7, <1>8, <1>9, <1>10 DEF DevNext

-----------------------------------------------------------------------------
(* From the first ready on, and as long as no worker crashes, some worker  *)
(* answers on the port, through every save, build, swap and timeout.       *)
THEOREM ThePortAnswers == DevSpec => []PortAnswers
<1>1. DevSpec => DevInit /\ [][DevNext]_dvars
  BY DEF DevSpec
<1>2. DevInv => PortAnswers
  BY DEF DevInv
<1> QED BY <1>1, <1>2, DevInitially, DevStep, PTL

=============================================================================
