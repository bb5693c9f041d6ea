------------------------------- MODULE Agent -------------------------------
(***************************************************************************)
(* What a model reaches of the app: the registries, which fill as modules  *)
(* are imported, the tool list projected from them, the MCP endpoint that  *)
(* serves it over HTTP, and the tool loop of an agent() that a handler     *)
(* runs over the same list. Prompts are listed as tools are.               *)
(***************************************************************************)
EXTENDS Integers, Sequences, SequencesExt

CONSTANTS
    Modules,     \* the rpc and socket modules; each declares one tool
    Hidden,      \* the ones whose clients.mcp is off
    NoTool,      \* a name that is no tool's
    Guarded,     \* app.handle exists: nothing loads the registries at boot
    Posts,       \* bound: the requests the MCP endpoint is sent
    MaxFailures, \* bound: imports that fail
    MaxSteps,    \* the cap of the tool loop
    MaxUses      \* bound: the tools a model asks for at once

ASSUME AgentAssumption ==
    /\ Hidden \subseteq Modules /\ NoTool \notin Modules
    /\ Guarded \in BOOLEAN /\ MaxFailures \in Nat
    /\ MaxSteps \in Nat \ {0} /\ MaxUses \in Nat \ {0}

VARIABLES
    registered, \* rpcRegistry and socketRegistry
    revision,   \* registryRevision
    toolsCache, \* the memoized projection, and the revision it is of
    loading,    \* ensureRegistriesLoaded's memo, and the imports that failed
    post,       \* the requests of the MCP endpoint
    agent       \* the tool loop of one chat

avars == <<registered, revision, toolsCache, loading, post, agent>>

Exposed == Modules \ Hidden
Tools == Modules \cup {NoTool}

(* A tool_use is named for the step and the place it was asked in.         *)
UseIds == (0 .. MaxSteps) \X (1 .. MaxUses)
Said == [uses : Seq(UseIds), results : Seq(UseIds)]
ChatFrame == [kind : {"tool_use", "tool_result"}, id : UseIds] \cup [stop : {"end", "max_tokens", "refusal", "error"}]

Post == [at : {"none", "loading", "calling", "answered"}, method : {"tools/list", "tools/call", "other"},
         code : {"none", "ok", "rejected", "internal"}, listed : SUBSET Modules]

(* at: "using" is at the i-th block of the answer. left: its reader went.  *)
(* reason: the stop_reason of the last answer.                             *)
Chat == [at : {"none", "sending", "requesting", "using", "calling", "ended", "broken"},
         step : Nat,
         tools : SUBSET Modules, conversation : Seq(Said), asked : Seq(Tools),
         i : Nat, results : Seq(UseIds), frames : Seq(ChatFrame), left : BOOLEAN,
         reason : {"none", "tool_use", "pause_turn", "end", "max_tokens", "refusal"}]

AgentType ==
    /\ registered \subseteq Modules /\ revision \in Nat
    /\ toolsCache \in [revision : Int, tools : SUBSET Modules]
    /\ loading \in [memo : {"none", "pending", "done"}, failures : 0 .. MaxFailures]
    /\ post \in [Posts -> Post]
    /\ agent \in Chat

-----------------------------------------------------------------------------
(* registerRpc, registerSocket: by a load, or by the first request of it.  *)
Imports(m) ==
    /\ m \notin registered
    /\ registered' = registered \cup {m}
    /\ revision' = revision + 1
    /\ UNCHANGED <<toolsCache, loading, post, agent>>

answered(p, code) == [post[p] EXCEPT !.at = "answered", !.code = code]

(* ensureRegistriesLoaded: all are imported, or one throws, which those    *)
(* who wait are told and the next one tries again.                         *)
LoadEnds ==
    /\ loading.memo = "pending" /\ registered = Modules
    /\ loading' = [loading EXCEPT !.memo = "done"]
    /\ UNCHANGED <<registered, revision, toolsCache, post, agent>>

LoadFails ==
    /\ loading.memo = "pending" /\ registered # Modules /\ loading.failures < MaxFailures
    /\ loading' = [memo |-> "none", failures |-> loading.failures + 1]
    /\ post' = [p \in Posts |-> IF post[p].at = "loading" THEN answered(p, "internal") ELSE post[p]]
    /\ UNCHANGED <<registered, revision, toolsCache, agent>>

(* buildTools. Fault: the projection is memoized for good.                 *)
buildToolsOnce ==
    IF toolsCache.revision >= 0 THEN toolsCache
    ELSE [revision |-> revision, tools |-> registered \ Hidden]

buildTools ==
    IF toolsCache.revision = revision THEN toolsCache
    ELSE [revision |-> revision, tools |-> registered \ Hidden]

(* callTool, but for what it dispatches to, which may fail.                *)
callable(t) == t \in registered \ Hidden

-----------------------------------------------------------------------------
(* dispatchMcpRequest: an envelope that is none, or that authorize         *)
(* refuses; else the registries are loaded first.                          *)
Rejected(p) ==
    /\ post[p].at = "none"
    /\ post' = [post EXCEPT ![p] = answered(p, "rejected")]
    /\ UNCHANGED <<registered, revision, toolsCache, loading, agent>>

Arrives(p, method) ==
    /\ post[p].at = "none"
    /\ post' = [post EXCEPT ![p].at = "loading", ![p].method = method]
    /\ loading' = [loading EXCEPT !.memo = IF @ = "none" THEN "pending" ELSE @]
    /\ UNCHANGED <<registered, revision, toolsCache, agent>>

Loaded(p, method) == post[p].at = "loading" /\ post[p].method = method /\ loading.memo = "done"

Lists(p) ==
    /\ Loaded(p, "tools/list")
    /\ toolsCache' = buildTools
    /\ post' = [post EXCEPT ![p] = [answered(p, "ok") EXCEPT !.listed = toolsCache'.tools]]
    /\ UNCHANGED <<registered, revision, loading, agent>>

CallsTool(p, t) ==
    /\ Loaded(p, "tools/call")
    /\ post' = [post EXCEPT ![p] = IF callable(t) THEN [@ EXCEPT !.at = "calling"]
                                   ELSE answered(p, "internal")]
    /\ UNCHANGED <<registered, revision, toolsCache, loading, agent>>

(* The tool's answer, an isError one too, or a throw of its decoding.      *)
CallSettles(p) ==
    /\ post[p].at = "calling"
    /\ \E code \in {"ok", "internal"} : post' = [post EXCEPT ![p] = answered(p, code)]
    /\ UNCHANGED <<registered, revision, toolsCache, loading, agent>>

(* initialize, ping, resources, and a method or a name there is none of.   *)
Other(p) ==
    /\ Loaded(p, "other")
    /\ \E code \in {"ok", "rejected", "internal"} : post' = [post EXCEPT ![p] = answered(p, code)]
    /\ UNCHANGED <<registered, revision, toolsCache, loading, agent>>

-----------------------------------------------------------------------------
(* agent() and the engine's loop. A frame is yielded; if its reader has    *)
(* gone the generator returns there.                                       *)
yields(a, f) == IF a.left THEN [a EXCEPT !.at = "ended"] ELSE [a EXCEPT !.frames = Append(@, f)]

stops(a, stop) == [yields(a, [stop |-> stop]) EXCEPT !.at = "ended"]

ChatAlone == UNCHANGED <<registered, revision, toolsCache, loading, post>>

ChatStarts ==
    /\ agent.at = "none"
    /\ toolsCache' = buildTools
    /\ agent' = [agent EXCEPT !.at = "sending", !.tools = toolsCache'.tools]
    /\ UNCHANGED <<registered, revision, loading, post>>

ReaderLeaves ==
    /\ agent.at \in {"sending", "requesting", "using", "calling"} /\ ~ agent.left
    /\ agent' = [agent EXCEPT !.left = TRUE]
    /\ ChatAlone

(* The next turn of the loop: the request of the whole conversation.       *)
Sends ==
    /\ agent.at = "sending"
    /\ agent' = [agent EXCEPT !.at = "requesting"]
    /\ ChatAlone

(* The answer has text, which is yielded as it comes.                      *)
TextUnread ==
    /\ agent.at = "requesting" /\ agent.left
    /\ agent' = [agent EXCEPT !.at = "ended"]
    /\ ChatAlone

says(reason, ids) ==
    [agent EXCEPT !.reason = reason, !.conversation = Append(@, [uses |-> ids, results |-> <<>>])]

(* The answer is whole, or the provider fails.                             *)
Finishes(reason) ==
    /\ agent.at = "requesting"
    /\ agent' = stops(says(reason, <<>>), reason)
    /\ ChatAlone

(* Fault: a pause does not count.                                          *)
PausesFreely ==
    /\ agent.at = "requesting"
    /\ agent' = [agent EXCEPT !.at = "sending", !.reason = "pause_turn"]
    /\ ChatAlone

Pauses ==
    /\ agent.at = "requesting"
    /\ agent' = IF agent.step + 1 < MaxSteps
                THEN [says("pause_turn", <<>>) EXCEPT !.at = "sending", !.step = @ + 1]
                ELSE stops(says("pause_turn", <<>>), "end")
    /\ ChatAlone

AsksFor(asked) ==
    /\ agent.at = "requesting"
    /\ LET s == says("tool_use", [k \in DOMAIN asked |-> <<agent.step, k>>])
       IN  agent' = IF agent.step + 1 >= MaxSteps THEN stops(s, "error")
                    ELSE [s EXCEPT !.at = "using", !.asked = asked, !.i = 1, !.results = <<>>]
    /\ ChatAlone

Fails ==
    /\ agent.at = "requesting"
    /\ agent' = [agent EXCEPT !.at = "broken"]
    /\ ChatAlone

(* The next block: its frame, then surface.call, which throws on a name    *)
(* that is no tool's.                                                      *)
Id == <<agent.step, agent.i>>

Uses ==
    /\ agent.at = "using"
    /\ LET y == yields(agent, [kind |-> "tool_use", id |-> Id])
       IN  agent' = IF y.at = "ended" THEN y
                    ELSE [y EXCEPT !.at = IF callable(agent.asked[agent.i]) THEN "calling" ELSE "broken"]
    /\ ChatAlone

(* The call settles, well or not, and the next block or request follows.   *)
(* Fault: a tool that failed is left out of the results.                   *)
settled(results) ==
    LET y == yields([agent EXCEPT !.results = results], [kind |-> "tool_result", id |-> Id])
    IN  IF y.at = "ended" THEN y
        ELSE IF agent.i < Len(agent.asked) THEN [y EXCEPT !.at = "using", !.i = @ + 1]
        ELSE [y EXCEPT !.at = "sending", !.step = @ + 1, !.asked = <<>>, !.results = <<>>,
                       !.conversation = Append(@, [uses |-> <<>>, results |-> results])]

SettlesIfOk ==
    /\ agent.at = "calling"
    /\ \E ok \in BOOLEAN :
         agent' = settled(IF ok THEN Append(agent.results, Id) ELSE agent.results)
    /\ ChatAlone

Settles ==
    /\ agent.at = "calling"
    /\ agent' = settled(Append(agent.results, Id))
    /\ ChatAlone

-----------------------------------------------------------------------------
AgentInit ==
    /\ registered = {} /\ revision = 0
    /\ toolsCache = [revision |-> -1, tools |-> {}]
    /\ loading = [memo |-> IF Guarded THEN "none" ELSE "pending", failures |-> 0]
    /\ post = [p \in Posts |-> [at |-> "none", method |-> "other", code |-> "none", listed |-> {}]]
    /\ agent = [at |-> "none", step |-> 0, tools |-> {}, conversation |-> <<>>, asked |-> <<>>,
                i |-> 1, results |-> <<>>, frames |-> <<>>, left |-> FALSE, reason |-> "none"]

Answers ==
    \/ \E reason \in {"end", "max_tokens", "refusal"} : Finishes(reason)
    \/ \E asked \in BoundedSeq(Tools, MaxUses) \ {<<>>} : AsksFor(asked)
    \/ Pauses \/ Fails

ChatSteps == Sends \/ Answers \/ TextUnread \/ Uses \/ Settles

AgentNext ==
    \/ \E m \in Modules : Imports(m)
    \/ LoadEnds \/ LoadFails
    \/ \E p \in Posts :
         \/ Rejected(p) \/ Lists(p) \/ CallSettles(p) \/ Other(p)
         \/ \E method \in {"tools/list", "tools/call", "other"} : Arrives(p, method)
         \/ \E t \in Tools : CallsTool(p, t)
    \/ ChatStarts \/ ReaderLeaves \/ ChatSteps

(* The provider and the tools answer in the end.                           *)
AgentFairness == WF_avars(ChatSteps)

AgentSpec == AgentInit /\ [][AgentNext]_avars /\ AgentFairness

-----------------------------------------------------------------------------
(* The provider takes a conversation only if each of its tool uses is      *)
(* answered, in order, right after: true of every one the loop sends,      *)
(* whatever the tools did.                                                 *)
ConversationSound ==
    agent.at = "sending" =>
        \A k \in DOMAIN agent.conversation :
            agent.conversation[k].uses # <<>> =>
                /\ k < Len(agent.conversation)
                /\ agent.conversation[k + 1].results = agent.conversation[k].uses

IsDone(f) == "stop" \in DOMAIN f

(* The frames of a chat: each result right after its own use, `done` once  *)
(* and last, and a chat that ended for a reader still there said so.       *)
FramesSound ==
    /\ \A k \in DOMAIN agent.frames :
          IF IsDone(agent.frames[k]) THEN k = Len(agent.frames) /\ agent.at = "ended"
          ELSE agent.frames[k].kind = "tool_result" =>
                   k > 1 /\ agent.frames[k - 1] = [kind |-> "tool_use", id |-> agent.frames[k].id]
    /\ agent.at = "ended" /\ ~ agent.left =>
           agent.frames # <<>> /\ IsDone(agent.frames[Len(agent.frames)])

(* The engine's loop keeps both sides of the chat whole: what it sends the *)
(* provider, and what it yields to its reader (engine.ts).                 *)
AgentSound == ConversationSound /\ FramesSound

(* A list served over HTTP has everything that is exposed and nothing that *)
(* is not, whatever was memoized while the registries filled (buildTools). *)
ListsWhole ==
    \A p \in Posts : post[p].method = "tools/list" /\ post[p].code = "ok" => post[p].listed = Exposed

Chatting == agent.at \notin {"none", "ended", "broken"}

(* A model that never stops asking, or pausing, does not hold the stream   *)
(* for ever: the cap ends it (engine.ts).                                  *)
AgentEnds == Chatting ~> ~ Chatting

(* agent.ts: "`error` covers an abnormal stop the model didn't choose      *)
(* [...] or the engine's own tool-loop cap", "so a client can tell a       *)
(* cut-off answer from a clean `end`".                                     *)
StopIsHonest ==
    \A k \in DOMAIN agent.frames : agent.frames[k] = [stop |-> "end"] => agent.reason = "end"

(* mcpSurface.ts: "a model reaching the app over HTTP and a model driven   *)
(* in-process can't drift on what's exposed".                              *)
FacesAgree == agent.at # "none" => agent.tools = Exposed

=============================================================================
