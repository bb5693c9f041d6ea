------------------------------ MODULE Launcher ------------------------------
(***************************************************************************)
(* The control server of a desktop bundle (controlServerWorker): it boots  *)
(* the embedded server or points the window at a remote one, watches the   *)
(* server it connected to, and bounces the window when that one dies. Its  *)
(* handlers run interleaved at their awaits; the connect screen and the    *)
(* native File menu, which send the requests, bound what a user can do.    *)
(***************************************************************************)
EXTENDS LivenessWatch

CONSTANTS
    Remotes,   \* remote servers
    Ports,     \* urls of an embedded server, by its port
    Requests,  \* bound: requests a handler is answering at once
    launch     \* the handler that resolves where the window opens

ASSUME LauncherAssumption ==
    /\ Urls = Remotes \cup Ports /\ Remotes \cap Ports = {}
    /\ launch \notin Requests /\ None \notin Requests
    /\ {"closed", "connect"} \cap Urls = {}

VARIABLES
    host,         \* how the server at each url stands
    serverChild,  \* the embedded child the worker would reap
    flag,         \* the native menu's connected flag
    bridge,       \* the assistant bridge runs
    loaded,       \* the bridge's module has been imported
    handler,      \* what each handler waits for
    window,       \* what the window shows
    page,         \* the request the connect screen waits for, to follow its redirect
    record        \* lastConnection, on disk

vars == <<watch, host, serverChild, flag, bridge, loaded, handler, window, page, record>>

-----------------------------------------------------------------------------
Idle == [at |-> "idle", url |-> None]
Handler ==
    {Idle} \cup [at : {"probing"}, url : Remotes] \cup [at : {"booting"}, url : Ports]
           \cup [at : {"bridging", "saving"}, url : Urls]
Screens == {"closed", "connect"}

Up(u) == host[u] = "up"

OwnType ==
    /\ host \in [Urls -> {"down", "booting", "up"}]
    /\ serverChild \in Ports \cup {None}
    /\ flag \in BOOLEAN /\ bridge \in BOOLEAN /\ loaded \in BOOLEAN
    /\ handler \in [Requests \cup {launch} -> Handler]
    /\ window \in Screens \cup Urls
    /\ page \in Requests \cup {None}
    /\ record \in Remotes \cup {"embedded", "none"}

TypeOK == WatchType /\ OwnType

Init ==
    /\ WatchInit
    /\ host = [u \in Urls |-> "down"]
    /\ serverChild = None
    /\ flag = FALSE /\ bridge = FALSE /\ loaded = FALSE
    /\ handler = [r \in Requests \cup {launch} |-> Idle]
    /\ window = "closed"
    /\ page = None
    /\ record \in Remotes \cup {"embedded", "none"}

-----------------------------------------------------------------------------
(* killServerChild, on the state of the hosts.                             *)
reaped == [u \in Urls |-> IF u = serverChild THEN "down" ELSE host[u]]

(* Fault: the child is left alone.                                         *)
becomeDisconnectedKeepsChild ==
    /\ flag' = FALSE
    /\ bridge' = FALSE
    /\ UNCHANGED <<host, serverChild>>

becomeDisconnected ==
    /\ flag' = FALSE
    /\ bridge' = FALSE
    /\ host' = reaped
    /\ serverChild' = None

(* becomeConnected: the first import of the bridge's module is an await.   *)
becomeConnected(r, u) ==
    /\ flag' = TRUE
    /\ Watch(u)
    /\ bridge' = (bridge \/ loaded)
    /\ handler' = [handler EXCEPT ![r] = [at |-> IF loaded THEN "saving" ELSE "bridging", url |-> u]]

(* The reply of a handler that fails: the page shows its form again, and   *)
(* the launch falls back to the connect screen.                            *)
fails(r) ==
    /\ handler' = [handler EXCEPT ![r] = Idle]
    /\ page' = IF page = r THEN None ELSE page
    /\ window' = IF r = launch THEN "connect" ELSE window

(* startEmbeddedServer: reap the tracked child, spawn another on a free    *)
(* port. Two boots that pick the same port at once are left out.           *)
boots(r) ==
    \E p \in Ports :
        /\ reaped[p] = "down"
        /\ \A h \in DOMAIN handler : handler[h] # [at |-> "booting", url |-> p]
        /\ host' = [reaped EXCEPT ![p] = "booting"]
        /\ serverChild' = None
        /\ handler' = [handler EXCEPT ![r] = [at |-> "booting", url |-> p]]

-----------------------------------------------------------------------------
(* resolveLaunchTarget: what the record says, unless the app still lacks   *)
(* required config.                                                        *)
LaunchScreen ==
    /\ window = "closed" /\ handler[launch] = Idle
    /\ record \in {"none", "embedded"}
    /\ window' = "connect"
    /\ UNCHANGED <<watch, host, serverChild, flag, bridge, loaded, handler, page, record>>

LaunchEmbedded ==
    /\ window = "closed" /\ handler[launch] = Idle
    /\ record = "embedded"
    /\ boots(launch)
    /\ UNCHANGED <<watch, flag, bridge, loaded, window, page, record>>

LaunchRemote ==
    /\ window = "closed" /\ handler[launch] = Idle
    /\ record \in Remotes
    /\ handler' = [handler EXCEPT ![launch] = [at |-> "probing", url |-> record]]
    /\ UNCHANGED <<watch, host, serverChild, flag, bridge, loaded, window, page, record>>

(* POST /connect, from the form: it is hidden while the page waits.        *)
Connect(r, u) ==
    /\ window = "connect" /\ page = None
    /\ handler[r] = Idle
    /\ handler' = [handler EXCEPT ![r] = [at |-> "probing", url |-> u]]
    /\ page' = r
    /\ UNCHANGED <<watch, host, serverChild, flag, bridge, loaded, window, record>>

(* POST /start, from the form or from the File menu, which loads the       *)
(* screen anew and is enabled while the flag is off.                       *)
Start(r) ==
    /\ window # "closed"
    /\ (window = "connect" /\ page = None) \/ ~ flag
    /\ handler[r] = Idle
    /\ boots(r)
    /\ window' = "connect"
    /\ page' = r
    /\ UNCHANGED <<watch, flag, bridge, loaded, record>>

Confirmed(r) ==
    /\ handler[r].at = "probing" /\ Up(handler[r].url)
    /\ becomeConnected(r, handler[r].url)
    /\ UNCHANGED <<host, serverChild, loaded, window, page, record>>

Refused(r) ==
    /\ handler[r].at = "probing"
    /\ fails(r)
    /\ UNCHANGED <<watch, host, serverChild, flag, bridge, loaded, record>>

Ready(r) ==
    /\ handler[r].at = "booting" /\ Up(handler[r].url)
    /\ serverChild' = handler[r].url
    /\ becomeConnected(r, handler[r].url)
    /\ UNCHANGED <<host, loaded, window, page, record>>

(* The child exited, or did not answer in time: the tracked child is       *)
(* reaped, which the one that boots is not yet.                            *)
BootFails(r) ==
    /\ handler[r].at = "booting" /\ ~ Up(handler[r].url)
    /\ host' = reaped
    /\ serverChild' = None
    /\ fails(r)
    /\ UNCHANGED <<watch, flag, bridge, loaded, record>>

BridgeLoads ==
    /\ \E r \in DOMAIN handler : handler[r].at = "bridging"
    /\ loaded' = TRUE /\ bridge' = TRUE
    /\ handler' = [r \in DOMAIN handler |->
                      IF handler[r].at = "bridging" THEN [at |-> "saving", url |-> handler[r].url]
                      ELSE handler[r]]
    /\ UNCHANGED <<watch, host, serverChild, flag, window, page, record>>

(* The choice is recorded and the reply sent, which the page follows if it *)
(* is still the one that asked. The launch opens the window instead.       *)
Replies(r) ==
    LET u == handler[r].url IN
    /\ handler[r].at = "saving"
    /\ handler' = [handler EXCEPT ![r] = Idle]
    /\ record' = IF r = launch THEN record ELSE IF u \in Ports THEN "embedded" ELSE u
    /\ window' = IF r \in {page, launch} THEN u ELSE window
    /\ page' = IF page = r THEN None ELSE page
    /\ UNCHANGED <<watch, host, serverChild, flag, bridge, loaded>>

(* The File menu's Disconnect loads the screen, which calls                *)
(* /__belte/disconnect. Fault: the menu keeps its flag.                    *)
DisconnectKeepsFlag ==
    /\ flag /\ window # "closed"
    /\ Stop
    /\ bridge' = FALSE /\ host' = reaped /\ serverChild' = None
    /\ window' = "connect"
    /\ page' = None
    /\ record' = "none"
    /\ UNCHANGED <<flag, loaded, handler>>

Disconnect ==
    /\ flag /\ window # "closed"
    /\ Stop
    /\ becomeDisconnected
    /\ window' = "connect"
    /\ page' = None
    /\ record' = "none"
    /\ UNCHANGED <<loaded, handler>>

-----------------------------------------------------------------------------
(* The watch's answers: a server that is up may still miss one.            *)
ProbeAnswers ==
    /\ \/ Discarded
       \/ probe # None /\ Up(probe) /\ Hit
       \/ Miss
    /\ UNCHANGED <<host, serverChild, flag, bridge, loaded, handler, window, page, record>>

(* handleConnectionLost. Fault: the window is left where it is.            *)
ConnectionLostQuietly ==
    /\ Lost
    /\ becomeDisconnected
    /\ UNCHANGED <<loaded, handler, window, page, record>>

ConnectionLost ==
    /\ Lost
    /\ becomeDisconnected
    /\ window' = IF window = "closed" THEN window ELSE "connect"
    /\ page' = None
    /\ UNCHANGED <<loaded, handler, record>>

(* Remote servers come and go; a child starts answering, or exits.         *)
HostComes(u) ==
    /\ host[u] = IF u \in Ports THEN "booting" ELSE "down"
    /\ host' = [host EXCEPT ![u] = "up"]
    /\ UNCHANGED <<watch, serverChild, flag, bridge, loaded, handler, window, page, record>>

HostDies(u) ==
    /\ host[u] # "down"
    /\ host' = [host EXCEPT ![u] = "down"]
    /\ UNCHANGED <<watch, serverChild, flag, bridge, loaded, handler, window, page, record>>

(* The launcher goes, by its shutdown handler or a crash, and its children *)
(* with it (exitWithParent); it comes back to what is on disk.             *)
Relaunch ==
    /\ window # "closed"
    /\ host' = [u \in Urls |-> IF u \in Ports THEN "down" ELSE host[u]]
    /\ watchedUrl' = None /\ timer' = FALSE /\ strays' = 0 /\ probe' = None /\ failures' = 0
    /\ UNCHANGED record
    /\ serverChild' = None /\ page' = None
    /\ flag' = FALSE /\ bridge' = FALSE /\ loaded' = FALSE
    /\ handler' = [r \in DOMAIN handler |-> Idle]
    /\ window' = "closed"

WatchTicks ==
    /\ TimerFires
    /\ UNCHANGED <<host, serverChild, flag, bridge, loaded, handler, window, page, record>>

Step(r) ==
    \/ Confirmed(r) \/ Refused(r) \/ Ready(r) \/ BootFails(r) \/ Replies(r)

Next ==
    \/ LaunchScreen \/ LaunchEmbedded \/ LaunchRemote
    \/ \E r \in Requests : Start(r) \/ \E u \in Remotes : Connect(r, u)
    \/ \E r \in DOMAIN handler : Step(r)
    \/ BridgeLoads \/ Disconnect
    \/ WatchTicks \/ ProbeAnswers \/ ConnectionLost
    \/ \E u \in Urls : HostComes(u) \/ HostDies(u)
    \/ Relaunch

(* setTimeout fires, and a probe answers: its fetches are bounded by       *)
(* AbortSignal.timeout.                                                    *)
Spec ==
    /\ Init /\ [][Next]_vars
    /\ WF_vars(WatchTicks) /\ WF_vars(ProbeAnswers \/ ConnectionLost)

-----------------------------------------------------------------------------
(* The menu's flag and the watch move together, so no interleaving of the  *)
(* handlers leaves a menu that claims connected with nothing watching      *)
(* (becomeConnected, becomeDisconnected).                                  *)
ConnectedTogether == flag <=> watchedUrl # None

(* Disconnecting reaps: whenever the menu says disconnected, no child the  *)
(* worker tracks is left running (becomeDisconnected, killServerChild).    *)
DisconnectedReaps == serverChild # None => flag

(* The connect screen follows a reply only while connected: a connection   *)
(* lost or dropped while its handler still awaits the bridge takes the     *)
(* redirect with it (handleConnectionLost, handleDisconnect).              *)
OpensConnected == [][window = "connect" /\ window' \in Urls => flag']_vars

(* A server that has died does not stay the connected one: the watch       *)
(* notices, whatever was watched or answered before (the module comment of *)
(* controlServerWorker).                                                   *)
DeadIsNoticed == \A u \in Urls : []<>(watchedUrl # u \/ Up(u))

(* Every child that runs is either booting under a handler or the one the  *)
(* worker reaps: a boot that failed holds no port (resolveLaunchTarget).   *)
ChildrenTracked ==
    \A p \in Ports :
        host[p] # "down" =>
            \/ p = serverChild
            \/ \E r \in DOMAIN handler : handler[r] = [at |-> "booting", url |-> p]

=============================================================================
