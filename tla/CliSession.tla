----------------------------- MODULE CliSession ----------------------------
(***************************************************************************)
(* The standalone CLI: what it resumes, the interactive session with its   *)
(* one current target, the local instances it boots, and what becomes of   *)
(* them when it goes. Its lines are handled one after the other; an        *)
(* instance may die, and an interrupt come, at any await.                  *)
(***************************************************************************)
EXTENDS Naturals

CONSTANTS
    Sites,      \* remote servers
    Addresses,  \* the ports a local instance may get
    Instances,  \* bound: the local instances alive at once
    Configured, \* PORT is set, to one of the Addresses
    Nobody      \* no site, no port and no instance

ASSUME CliAssumption ==
    /\ Sites \cap Addresses = {} /\ Nobody \notin Sites \cup Addresses \cup Instances
    /\ Addresses # {} /\ Configured \in BOOLEAN

VARIABLES
    cli,            \* the CLI's process
    instance,       \* the local instances, by the handle the CLI has of them
    site,           \* the remote servers that are up
    lastConnection  \* the intent on disk

cvars == <<cli, instance, site, lastConnection>>

-----------------------------------------------------------------------------
Target == [url : Sites \cup Addresses \cup {Nobody}, child : Instances \cup {Nobody}]
NoTarget == [url |-> Nobody, child |-> Nobody]
IsLocal(t) == t.url \in Addresses

(* at: it probes a site, waits for an instance, or awaits a command.       *)
(* mode: what it was started for, a resumed session, one command, /connect *)
(* or /start of the shell, and then the session once it is open.           *)
Cli == [at : {"new", "probing", "waiting", "prompt", "command", "gone"},
        mode : {"resume", "once", "shell", "session"}, next : Target, current : Target]

(* lost: nobody waits for it any more, and nobody has it.                  *)
Instance == [at : {"none", "booting", "up"}, port : Addresses, lost : BOOLEAN]

Lives(c) == instance[c].at # "none"
Answering(p) == \E c \in Instances : instance[c].at = "up" /\ instance[c].port = p

TheAddress == CHOOSE p \in Addresses : TRUE
NoInstance == [at |-> "none", port |-> TheAddress, lost |-> FALSE]

CliType ==
    /\ cli \in Cli /\ instance \in [Instances -> Instance]
    /\ site \subseteq Sites /\ lastConnection \in Sites \cup {"none", "embedded"}

CliInit ==
    /\ cli = [at |-> "new", mode |-> "shell", next |-> NoTarget, current |-> NoTarget]
    /\ instance = [c \in Instances |-> NoInstance]
    /\ site \in SUBSET Sites
    /\ lastConnection \in Sites \cup {"none", "embedded"}

-----------------------------------------------------------------------------
killed(c) == [d \in Instances |-> IF d = c THEN NoInstance ELSE instance[d]]

(* resolveEmbeddedPort: PORT as it is, else a port that is open.           *)
embeddedPort == IF Configured THEN {TheAddress} ELSE {p \in Addresses : ~ Answering(p)}

(* spawnEmbeddedServer: it waits for an answer at the port, or for its     *)
(* child's exit.                                                           *)
spawns(s) ==
    \E c \in Instances, p \in embeddedPort :
        /\ ~ Lives(c) /\ c # s.current.child
        /\ instance' = [instance EXCEPT ![c] = [at |-> "booting", port |-> p, lost |-> FALSE]]
        /\ cli' = [s EXCEPT !.at = "waiting", !.next = [url |-> p, child |-> c]]

probes(s, u) ==
    /\ cli' = [s EXCEPT !.at = "probing", !.next = [url |-> u, child |-> Nobody]]
    /\ UNCHANGED instance

(* What was resumed, a target or none: a session opens, or the one command *)
(* is run.                                                                 *)
resumed(s) ==
    IF s.mode # "once" THEN [s EXCEPT !.at = "prompt", !.mode = "session"]
    ELSE [s EXCEPT !.at = IF s.current = NoTarget THEN "gone" ELSE "command"]

(* runCli with no command, or with one to run; /connect, /start and        *)
(* /disconnect of the shell. The default of BELTE_APP_URL is not probed.   *)
Resumes(mode) ==
    /\ cli.at = "new"
    /\ LET s == [cli EXCEPT !.mode = mode]
       IN  \/ lastConnection = "embedded" /\ spawns(s)
           \/ lastConnection \in Sites /\ probes(s, lastConnection)
           \/ /\ lastConnection = "none"
              /\ \E u \in Sites \cup {Nobody} : cli' = resumed([s EXCEPT !.current.url = u])
              /\ UNCHANGED instance
    /\ UNCHANGED <<site, lastConnection>>

Connects(u) ==
    /\ cli.at \in {"new", "prompt"}
    /\ probes(cli, u)
    /\ UNCHANGED <<site, lastConnection>>

Starts ==
    /\ cli.at \in {"new", "prompt"}
    /\ spawns(cli)
    /\ UNCHANGED <<site, lastConnection>>

(* Fault: the instance of the session is left running.                     *)
DisconnectsOnly ==
    /\ cli.at \in {"new", "prompt"}
    /\ lastConnection' = "none"
    /\ cli' = [cli EXCEPT !.at = IF @ = "new" THEN "gone" ELSE "prompt", !.current = NoTarget]
    /\ UNCHANGED <<instance, site>>

Disconnects ==
    /\ cli.at \in {"new", "prompt"}
    /\ lastConnection' = "none"
    /\ instance' = killed(cli.current.child)
    /\ cli' = [cli EXCEPT !.at = IF @ = "new" THEN "gone" ELSE "prompt", !.current = NoTarget]
    /\ UNCHANGED site

-----------------------------------------------------------------------------
(* What it waited for is there: swap() kills the previous instance, and    *)
(* only now.                                                               *)
adopts ==
    /\ cli' = resumed([cli EXCEPT !.current = cli.next, !.next = NoTarget])
    /\ instance' = killed(cli.current.child)

(* It is not: a /connect or a /start of the shell ends with the CLI.       *)
givesUp ==
    cli' = IF cli.mode = "shell" THEN [cli EXCEPT !.at = "gone", !.next = NoTarget]
           ELSE resumed([cli EXCEPT !.next = NoTarget])

Probed ==
    /\ cli.at = "probing" /\ cli.next.url \in site
    /\ adopts
    /\ lastConnection' = cli.next.url
    /\ UNCHANGED site

NotProbed ==
    /\ cli.at = "probing" /\ cli.next.url \notin site
    /\ givesUp
    /\ UNCHANGED <<instance, site, lastConnection>>

(* Something answered at the port.                                         *)
Booted ==
    /\ cli.at = "waiting" /\ Answering(cli.next.url)
    /\ adopts
    /\ lastConnection' = "embedded"
    /\ UNCHANGED site

ExitsEarly ==
    /\ cli.at = "waiting" /\ ~ Lives(cli.next.child)
    /\ givesUp
    /\ UNCHANGED <<instance, site, lastConnection>>

(* The ceiling: the child is left to itself.                               *)
CeilingPasses ==
    /\ cli.at = "waiting" /\ ~ Answering(cli.next.url) /\ Lives(cli.next.child)
    /\ instance' = [instance EXCEPT ![cli.next.child].lost = TRUE]
    /\ givesUp
    /\ UNCHANGED <<site, lastConnection>>

(* A command is sent to the current target, and answered or not.           *)
Commands ==
    /\ cli.at = "prompt" /\ cli.current # NoTarget
    /\ cli' = [cli EXCEPT !.at = "command"]
    /\ UNCHANGED <<instance, site, lastConnection>>

Commanded ==
    /\ cli.at = "command"
    /\ cli' = [cli EXCEPT !.at = IF cli.mode = "once" THEN "gone" ELSE "prompt"]
    /\ instance' = IF cli.mode = "once" THEN killed(cli.current.child) ELSE instance
    /\ UNCHANGED <<site, lastConnection>>

(* /exit, or the end of the input.                                         *)
SessionEnds ==
    /\ cli.at = "prompt"
    /\ cli' = [cli EXCEPT !.at = "gone"]
    /\ instance' = killed(cli.current.child)
    /\ UNCHANGED <<site, lastConnection>>

(* SIGINT, which a session handles and whatever comes before it does not.  *)
Interrupted ==
    /\ cli.at \in {"probing", "waiting", "prompt", "command"}
    /\ cli' = [cli EXCEPT !.at = "gone"]
    /\ instance' = IF cli.mode = "session" THEN killed(cli.current.child) ELSE instance
    /\ UNCHANGED <<site, lastConnection>>

-----------------------------------------------------------------------------
(* The instances. A port that is taken ends the boot.                      *)
Binds(c) ==
    /\ instance[c].at = "booting"
    /\ instance' = [instance EXCEPT ![c] = IF Answering(@.port) THEN NoInstance ELSE [@ EXCEPT !.at = "up"]]
    /\ UNCHANGED <<cli, site, lastConnection>>

Dies(c) ==
    /\ Lives(c)
    /\ instance' = killed(c)
    /\ UNCHANGED <<cli, site, lastConnection>>

(* exitWithParent, from before the boot. Fault: from after it.             *)
FollowsOnceUp(c) ==
    /\ cli.at = "gone" /\ instance[c].at = "up"
    /\ instance' = killed(c)
    /\ UNCHANGED <<cli, site, lastConnection>>

Follows(c) ==
    /\ cli.at = "gone" /\ Lives(c)
    /\ instance' = killed(c)
    /\ UNCHANGED <<cli, site, lastConnection>>

SiteTurns(u) ==
    /\ cli.at # "gone"
    /\ site' = IF u \in site THEN site \ {u} ELSE site \cup {u}
    /\ UNCHANGED <<cli, instance, lastConnection>>

CliNext ==
    \/ \E mode \in {"resume", "once"} : Resumes(mode)
    \/ \E u \in Sites : Connects(u) \/ SiteTurns(u)
    \/ Starts \/ Disconnects \/ Probed \/ NotProbed \/ Booted \/ ExitsEarly \/ CeilingPasses
    \/ Commands \/ Commanded \/ SessionEnds \/ Interrupted
    \/ \E c \in Instances : Binds(c) \/ Dies(c) \/ Follows(c)

(* The watchdog in each instance ticks.                                    *)
CliFairness == \A c \in Instances : WF_cvars(Follows(c))

CliSpec == CliInit /\ [][CliNext]_cvars /\ CliFairness

-----------------------------------------------------------------------------
(* Every instance that runs is the session's own, or the one it waits for, *)
(* or one whose boot took too long, and none besides, the CLI being there  *)
(* or gone (runSession: "The session owns the current target's child").    *)
SessionOwns ==
    \A c \in Instances :
        Lives(c) => c \in {cli.current.child, cli.next.child} \/ instance[c].lost

(* The next bare run resumes what a session is connected to, however it is *)
(* ended (startLocalInstance, connectToServer).                            *)
RecordFollows ==
    cli.mode = "session" /\ cli.current # NoTarget =>
        lastConnection \in IF IsLocal(cli.current) THEN {"embedded"} ELSE {cli.current.url, "none"}

(* A session, its instances and its record stay in step (runSession).      *)
SessionSound == SessionOwns /\ RecordFollows

Orphans == cli.at = "gone" /\ \E c \in Instances : Lives(c)

(* Nothing outlives the CLI, whatever it was doing when it went            *)
(* (exitWithParent).                                                       *)
InstancesFollow == Orphans ~> ~ Orphans

(* spawnEmbeddedServer.ts: "A configured port is used as-is - if it's      *)
(* taken, the bind failure surfaces rather than silently moving".          *)
BindFailureSurfaces ==
    [][\A c \in Instances :
           cli'.current.child = c /\ cli.current.child # c => instance[c].at = "up"]_cvars

(* runSession.ts: "only one runs at a time".                               *)
OnlyOne ==
    \A c, d \in Instances : Lives(c) /\ Lives(d) /\ c # d => instance[c].lost \/ instance[d].lost

=============================================================================
