----------------------------- MODULE MCSurfaces -----------------------------
(***************************************************************************)
(* The ways into an app that are not its pages: the MCP endpoint and the   *)
(* chats of an agent(), the assistant behind its bridge, and the CLI. They *)
(* share nothing: `subject` says which of them a behaviour is about, and   *)
(* the others rest in an initial state, where no fair action is enabled.   *)
(***************************************************************************)
EXTENDS Agent, Bridge, CliSession

VARIABLE subject

surfaceVars == <<avars, bvars, cvars, subject>>

SurfaceInit ==
    /\ AgentInit /\ BridgeInit /\ CliInit
    /\ subject \in {"agent", "assistant", "cli"}
    /\ subject # "cli" => site = {} /\ lastConnection = "none"

SurfaceNext ==
    /\ UNCHANGED subject
    /\ \/ subject = "agent" /\ AgentNext /\ UNCHANGED <<bvars, cvars>>
       \/ subject = "assistant" /\ BridgeNext /\ UNCHANGED <<avars, cvars>>
       \/ subject = "cli" /\ CliNext /\ UNCHANGED <<avars, bvars>>

SurfaceSpec ==
    /\ SurfaceInit /\ [][SurfaceNext]_surfaceVars
    /\ AgentFairness /\ BridgeFairness /\ CliFairness

(* AgentEnds, TurnsEnd, BridgeLeaves and InstancesFollow in one: what is   *)
(* asked for is asked once, so again and again there is a state in which   *)
(* no chat hangs, and no bridge or instance is kept by one that is gone    *)
(* (engine.ts, assistant.ts, serve.ts, exitWithParent.ts).                 *)
NothingLeftBehind ==
    []<>(~ Chatting /\ (\A t \in Turns : ~ Hangs(t)) /\ ~ BridgeHeld /\ ~ Orphans)

=============================================================================
