--------------------------- MODULE SurfacesProofs ---------------------------
(***************************************************************************)
(* Proofs about the ways into an app that are not its pages.               *)
(*                                                                         *)
(* The agent: that a tool list served over HTTP is whole, and that the tool*)
(* loop only sends a conversation the provider takes, for any set of       *)
(* modules, any number of requests and any bounds. The first needs that the*)
(* memo of the list is never ahead of the registries and is right while it *)
(* is current; the second, what the answer in progress still owes to its   *)
(* tool uses.                                                              *)
(*                                                                         *)
(* The assistant: that a turn reads its own frames and that the page's     *)
(* presence is true, from where the one request of a turn is: asked for on *)
(* a ws, held by a run, or answered by frames under way. The CLI: that a   *)
(* session owns what runs.                                                 *)
(***************************************************************************)
EXTENDS Agent, Bridge, CliSession, FiniteSetTheorems, SequenceTheorems, TLAPS

-----------------------------------------------------------------------------
(* The registries, their memo and the requests of the endpoint.            *)
RegistryType ==
    /\ registered \subseteq Modules /\ revision \in Nat
    /\ toolsCache \in [revision : Int, tools : SUBSET Modules]
    /\ loading \in [memo : {"none", "pending", "done"}, failures : 0 .. MaxFailures]
    /\ post \in [Posts -> Post]

MemoCurrent ==
    /\ toolsCache.revision <= revision
    /\ toolsCache.revision = revision => toolsCache.tools = registered \ Hidden

DoneIsWhole == loading.memo = "done" => registered = Modules

(* What has not been answered has no code, and only a call is called.      *)
AnsweredOnce ==
    \A p \in Posts :
        /\ post[p].at # "answered" => post[p].code = "none"
        /\ post[p].at = "calling" => post[p].method = "tools/call"

Registries == RegistryType /\ MemoCurrent /\ DoneIsWhole /\ AnsweredOnce /\ ListsWhole

LEMMA RegistriesInitially == AgentInit => Registries
<1> SUFFICES ASSUME AgentInit PROVE Registries
  OBVIOUS
<1>1. RegistryType
  BY AgentAssumption DEF AgentInit, RegistryType, Post
<1> QED BY <1>1 DEF AgentInit, Registries, MemoCurrent, DoneIsWhole, AnsweredOnce, ListsWhole

(* What is projected is what is registered and exposed.                    *)
LEMMA BuildToolsProperties ==
    ASSUME RegistryType, MemoCurrent
    PROVE  /\ buildTools \in [revision : Int, tools : SUBSET Modules]
           /\ buildTools.revision = revision /\ buildTools.tools = registered \ Hidden
BY DEF RegistryType, MemoCurrent, buildTools

(* A request that is answered otherwise than with a list, or not yet.      *)
LEMMA OtherAnswers ==
    ASSUME Registries, NEW p \in Posts, NEW q \in Post, post' = [post EXCEPT ![p] = q],
           q.at # "answered" => q.code = "none",
           q.at = "calling" => q.method = "tools/call",
           q.method = "tools/list" => q.code # "ok",
           UNCHANGED <<registered, revision, toolsCache>>, RegistryType',
           loading'.memo = "done" => registered = Modules
    PROVE  Registries'
BY DEF Registries, RegistryType, MemoCurrent, DoneIsWhole, AnsweredOnce, ListsWhole, Exposed

LEMMA RegistriesKept == Registries /\ [AgentNext]_avars => Registries'
<1> SUFFICES ASSUME Registries, [AgentNext]_avars PROVE Registries'
  OBVIOUS
<1> USE DEF Registries
<1>1. post \in [Posts -> Post] /\ RegistryType
  BY DEF RegistryType
<1>2. ASSUME NEW m \in Modules, Imports(m) PROVE Registries'
  <2>1. RegistryType' /\ MemoCurrent'
    BY <1>2 DEF Imports, RegistryType, MemoCurrent
  <2> QED BY <1>2, <2>1 DEF Imports, RegistryType, DoneIsWhole, AnsweredOnce, ListsWhole, Exposed
<1>3. CASE LoadEnds
  BY <1>3 DEF LoadEnds, RegistryType, MemoCurrent, DoneIsWhole, AnsweredOnce, ListsWhole, Exposed
<1>4. CASE LoadFails
  <2>1. post' \in [Posts -> Post]
    <3>1. \A p \in Posts : answered(p, "internal") \in Post
      BY <1>1 DEF Post, answered
    <3>2. post' = [p \in Posts |-> post'[p]]
      BY <1>4 DEF LoadFails
    <3>3. \A p \in Posts : post'[p] = post[p] \/ post'[p] = answered(p, "internal")
      BY <1>4 DEF LoadFails
    <3> QED BY <1>1, <3>1, <3>2, <3>3
  <2>2. RegistryType' /\ MemoCurrent' /\ DoneIsWhole'
    BY <1>4, <2>1, AgentAssumption DEF LoadFails, RegistryType, MemoCurrent, DoneIsWhole
  <2>3. \A p \in Posts :
          \/ post'[p] = post[p]
          \/ post'[p].at = "answered" /\ post'[p].code = "internal"
    BY <1>1, <1>4 DEF LoadFails, answered, Post
  <2> QED BY <2>2, <2>3 DEF AnsweredOnce, ListsWhole, Exposed
<1>5. ASSUME NEW p \in Posts, Rejected(p) PROVE Registries'
  BY <1>1, <1>5, OtherAnswers DEF Rejected, answered, Post, RegistryType, DoneIsWhole
<1>6. ASSUME NEW p \in Posts, NEW method \in {"tools/list", "tools/call", "other"},
             Arrives(p, method)
      PROVE  Registries'
  <2> DEFINE q == [post[p] EXCEPT !.at = "loading", !.method = method]
  <2>1. q \in Post /\ post' = [post EXCEPT ![p] = q] /\ q.at = "loading" /\ q.code = "none"
    BY <1>1, <1>6 DEF Arrives, Post, AnsweredOnce
  <2>2. RegistryType' /\ (loading'.memo = "done" => registered = Modules)
    BY <1>6, <2>1 DEF Arrives, RegistryType, DoneIsWhole
  <2> QED BY <1>6, <2>1, <2>2, OtherAnswers DEF Arrives
<1>7. ASSUME NEW p \in Posts, Lists(p) PROVE Registries'
  <2>1. /\ toolsCache' \in [revision : Int, tools : SUBSET Modules]
        /\ toolsCache'.revision = revision /\ toolsCache'.tools = registered \ Hidden
        /\ registered = Modules
    BY <1>7, BuildToolsProperties DEF Lists, Loaded, DoneIsWhole
  <2>2. /\ post' \in [Posts -> Post]
        /\ \A q \in Posts : q # p => post'[q] = post[q]
        /\ post'[p].at = "answered" /\ post'[p].listed = registered \ Hidden
    BY <1>1, <1>7, <2>1 DEF Lists, answered, Post
  <2> QED BY <1>7, <2>1, <2>2
          DEF Lists, RegistryType, MemoCurrent, DoneIsWhole, AnsweredOnce, ListsWhole, Exposed
<1>8. ASSUME NEW p \in Posts, NEW t \in Tools, CallsTool(p, t) PROVE Registries'
  <2> DEFINE q == IF callable(t) THEN [post[p] EXCEPT !.at = "calling"] ELSE answered(p, "internal")
  <2>0. post' = [post EXCEPT ![p] = q]
    BY <1>8 DEF CallsTool
  <2>1. q \in Post /\ q.method = "tools/call" /\ q.code # "ok" /\ (q.at # "answered" => q.code = "none")
    <3>1. post[p].method = "tools/call" /\ post[p].code = "none" /\ post[p] \in Post
      BY <1>1, <1>8 DEF CallsTool, Loaded, AnsweredOnce
    <3>2. CASE callable(t)
      BY <3>1, <3>2 DEF Post
    <3>3. CASE ~ callable(t)
      BY <3>1, <3>3 DEF Post, answered
    <3> QED BY <3>2, <3>3
  <2> HIDE DEF q
  <2>2. UNCHANGED <<registered, revision, toolsCache, loading>>
    BY <1>8 DEF CallsTool
  <2>3. RegistryType'
    BY <2>0, <2>1, <2>2 DEF RegistryType
  <2> QED BY <2>0, <2>1, <2>2, <2>3, OtherAnswers DEF DoneIsWhole
<1>9. ASSUME NEW p \in Posts, CallSettles(p) PROVE Registries'
  <2>1. PICK code \in {"ok", "internal"} : post' = [post EXCEPT ![p] = answered(p, code)]
    BY <1>9 DEF CallSettles
  <2>2. answered(p, code) \in Post /\ answered(p, code).method = "tools/call"
        /\ answered(p, code).at = "answered"
    BY <1>1, <1>9 DEF CallSettles, answered, Post, AnsweredOnce
  <2> QED BY <1>9, <2>1, <2>2, OtherAnswers DEF CallSettles, RegistryType, DoneIsWhole
<1>10. ASSUME NEW p \in Posts, Other(p) PROVE Registries'
  <2>1. PICK code \in {"ok", "rejected", "internal"} : post' = [post EXCEPT ![p] = answered(p, code)]
    BY <1>10 DEF Other
  <2>2. answered(p, code) \in Post /\ answered(p, code).method = "other"
        /\ answered(p, code).at = "answered"
    BY <1>1, <1>10 DEF Other, Loaded, answered, Post
  <2> QED BY <1>10, <2>1, <2>2, OtherAnswers DEF Other, RegistryType, DoneIsWhole
<1>11. CASE ChatStarts
  BY <1>11, BuildToolsProperties
     DEF ChatStarts, RegistryType, MemoCurrent, DoneIsWhole, AnsweredOnce, ListsWhole, Exposed
<1>12. CASE ChatAlone
  BY <1>12 DEF ChatAlone, RegistryType, MemoCurrent, DoneIsWhole, AnsweredOnce, ListsWhole, Exposed
<1>13. CASE ReaderLeaves \/ ChatSteps
  BY <1>12, <1>13
     DEF ReaderLeaves, ChatSteps, Sends, Answers, Finishes, AsksFor, Pauses, Fails, TextUnread, Uses,
         Settles
<1>14. CASE UNCHANGED avars
  BY <1>12, <1>14 DEF avars, ChatAlone
<1> QED BY <1>2, <1>3, <1>4, <1>5, <1>6, <1>7, <1>8, <1>9, <1>10, <1>11, <1>13, <1>14 DEF AgentNext

(* However the registries fill, whichever imports fail and are tried       *)
(* again, and whatever was memoized on the way, a list served over HTTP    *)
(* has every exposed tool and no other (buildTools, mcpSurface.ts).        *)
THEOREM AListServedIsWhole == AgentSpec => []ListsWhole
<1>1. AgentSpec => []Registries
  BY RegistriesInitially, RegistriesKept, PTL DEF AgentSpec
<1> QED BY <1>1, PTL DEF Registries

-----------------------------------------------------------------------------
(* The conversation. Each tool use is answered right after, but for those  *)
(* of the last message, which asks for nothing once the loop sends it.     *)
PairsSound(c) ==
    \A k \in 1 .. Len(c) - 1 : c[k].uses # <<>> => c[k + 1].results = c[k].uses

AsksNothing(c) == c # <<>> => c[Len(c)].uses = <<>>

Numbered(s, step, n) == Len(s) = n /\ \A k \in 1 .. n : s[k] = <<step, k>>

(* The answer in progress: what it asked for, and what it was told so far. *)
AnswerOwes ==
    /\ agent.step + 1 < MaxSteps
    /\ Len(agent.asked) \in 1 .. MaxUses /\ agent.i \in 1 .. Len(agent.asked)
    /\ agent.conversation # <<>>
    /\ Numbered(agent.conversation[Len(agent.conversation)].uses, agent.step, Len(agent.asked))
    /\ Numbered(agent.results, agent.step, agent.i - 1)

FramesFine(frames, at) ==
    \A k \in 1 .. Len(frames) :
        IF IsDone(frames[k]) THEN k = Len(frames) /\ at = "ended"
        ELSE frames[k].kind = "tool_result" =>
                 k > 1 /\ frames[k - 1] = [kind |-> "tool_use", id |-> frames[k].id]

Loop ==
    /\ agent \in Chat /\ agent.step < MaxSteps
    /\ PairsSound(agent.conversation)
    /\ agent.at \in {"none", "sending", "requesting"} => AsksNothing(agent.conversation)
    /\ agent.at \in {"using", "calling"} => AnswerOwes
    /\ FramesFine(agent.frames, agent.at)
    /\ agent.at = "calling" =>
           agent.frames # <<>> /\ agent.frames[Len(agent.frames)] = [kind |-> "tool_use", id |-> Id]
    /\ agent.at = "ended" /\ ~ agent.left =>
           agent.frames # <<>> /\ IsDone(agent.frames[Len(agent.frames)])

LEMMA LoopSuffices == Loop => AgentSound
<1> SUFFICES ASSUME Loop PROVE AgentSound
  OBVIOUS
<1>1. /\ agent.conversation \in Seq(Said) /\ DOMAIN agent.conversation = 1 .. Len(agent.conversation)
      /\ agent.frames \in Seq(ChatFrame) /\ DOMAIN agent.frames = 1 .. Len(agent.frames)
  BY LenProperties DEF Loop, Chat
<1>2. ConversationSound
  BY <1>1 DEF Loop, ConversationSound, PairsSound, AsksNothing
<1>3. FramesSound
  BY <1>1 DEF Loop, FramesSound, FramesFine
<1> QED BY <1>2, <1>3 DEF AgentSound

LEMMA LoopInitially == AgentInit => Loop
<1> SUFFICES ASSUME AgentInit PROVE Loop
  OBVIOUS
<1>1. agent \in Chat
  BY DEF AgentInit, Chat
<1> QED BY <1>1, AgentAssumption DEF AgentInit, Loop, PairsSound, AsksNothing, FramesFine

(* A message joins the conversation.                                       *)
LEMMA MessageAdded ==
    ASSUME NEW c \in Seq(Said), PairsSound(c), NEW m \in Said,
           c # <<>> /\ c[Len(c)].uses # <<>> => m.results = c[Len(c)].uses
    PROVE  /\ Append(c, m) \in Seq(Said) /\ Append(c, m) # <<>>
           /\ PairsSound(Append(c, m))
           /\ Append(c, m)[Len(Append(c, m))] = m
BY AppendProperties DEF PairsSound

(* What is yielded, to a reader who is there and to one who has gone.      *)
LEMMA YieldsProperties ==
    ASSUME NEW a \in Chat, NEW f \in ChatFrame
    PROVE  /\ yields(a, f) \in Chat
           /\ a.left => yields(a, f) = [a EXCEPT !.at = "ended"]
           /\ ~ a.left => yields(a, f) = [a EXCEPT !.frames = Append(@, f)]
BY AppendProperties DEF yields, Chat

LEMMA FrameAdded ==
    ASSUME NEW frames \in Seq(ChatFrame), NEW f \in ChatFrame, NEW at, NEW next,
           FramesFine(frames, at), at # "ended",
           IsDone(f) => next = "ended",
           ~ IsDone(f) /\ f.kind = "tool_result" =>
               frames # <<>> /\ frames[Len(frames)] = [kind |-> "tool_use", id |-> f.id]
    PROVE  /\ FramesFine(Append(frames, f), next) /\ FramesFine(frames, next)
           /\ Append(frames, f) # <<>> /\ Append(frames, f)[Len(Append(frames, f))] = f
<1> DEFINE longer == Append(frames, f)
<1>1. /\ longer \in Seq(ChatFrame) /\ Len(longer) = Len(frames) + 1 /\ Len(frames) \in Nat
      /\ \A k \in 1 .. Len(frames) : longer[k] = frames[k]
      /\ longer[Len(frames) + 1] = f
  BY AppendProperties
<1>2. \A k \in 1 .. Len(frames) : ~ IsDone(frames[k])
  BY DEF FramesFine
<1>3. frames # <<>> => Len(frames) > 0
  BY <1>1
<1>4. FramesFine(longer, next)
  BY <1>1, <1>2, <1>3 DEF FramesFine
<1>5. longer # <<>> /\ longer[Len(longer)] = f
  BY <1>1, AppendProperties
<1> QED BY <1>2, <1>4, <1>5 DEF FramesFine

LEMMA FrameKinds ==
    /\ \A stop \in {"end", "max_tokens", "refusal", "error"} :
           [stop |-> stop] \in ChatFrame /\ IsDone([stop |-> stop])
    /\ \A kind \in {"tool_use", "tool_result"}, id \in UseIds :
           [kind |-> kind, id |-> id] \in ChatFrame /\ ~ IsDone([kind |-> kind, id |-> id])
BY DEF ChatFrame, IsDone

-----------------------------------------------------------------------------
(* The chat ends at a frame, with the conversation sound: for a reader who *)
(* is there, with the `done` it was given.                                 *)
LEMMA StopsKeeps ==
    ASSUME Loop, NEW a \in Chat, agent.at # "ended", a.step = agent.step, a.frames = agent.frames,
           a.at # "ended", PairsSound(a.conversation),
           NEW stop \in {"end", "max_tokens", "refusal", "error"},
           agent' = stops(a, stop)
    PROVE  Loop'
<1> DEFINE f == [stop |-> stop]
<1>1. f \in ChatFrame /\ IsDone(f)
  BY FrameKinds
<1>2. /\ agent' \in Chat /\ agent'.at = "ended" /\ agent'.step = a.step /\ agent'.left = a.left
      /\ agent'.conversation = a.conversation
      /\ a.left => agent'.frames = a.frames
      /\ ~ a.left => agent'.frames = Append(a.frames, f)
  <2> DEFINE y == yields(a, f)
  <2>1. /\ y \in Chat /\ agent' = [y EXCEPT !.at = "ended"]
        /\ a.left => y = [a EXCEPT !.at = "ended"]
        /\ ~ a.left => y = [a EXCEPT !.frames = Append(a.frames, f)]
    BY <1>1, YieldsProperties DEF stops
  <2> HIDE DEF y, f
  <2>2. y.step = a.step /\ y.left = a.left /\ y.conversation = a.conversation
        /\ (a.left => y.frames = a.frames) /\ (~ a.left => y.frames = Append(a.frames, f))
    <3>1. CASE a.left
      BY <2>1, <3>1 DEF Chat
    <3>2. CASE ~ a.left
      BY <2>1, <3>2 DEF Chat
    <3> QED BY <3>1, <3>2
  <2> QED BY <2>1, <2>2 DEF Chat
<1>3. agent.frames \in Seq(ChatFrame) /\ FramesFine(agent.frames, agent.at)
  BY DEF Loop, Chat
<1> HIDE DEF f
<1>4. /\ FramesFine(agent'.frames, agent'.at)
      /\ ~ agent'.left => agent'.frames # <<>> /\ IsDone(agent'.frames[Len(agent'.frames)])
  <2>1. /\ FramesFine(Append(a.frames, f), "ended") /\ FramesFine(a.frames, "ended")
        /\ Append(a.frames, f) # <<>> /\ Append(a.frames, f)[Len(Append(a.frames, f))] = f
    BY <1>1, <1>3, FrameAdded
  <2> QED BY <1>1, <1>2, <2>1
<1> QED BY <1>2, <1>4 DEF Loop

(* An answer whose message joins the conversation: the one before it asked *)
(* for nothing.                                                            *)
LEMMA SaysProperties ==
    ASSUME Loop, agent.at = "requesting", NEW ids \in Seq(UseIds),
           NEW reason \in {"tool_use", "pause_turn", "end", "max_tokens", "refusal"}
    PROVE  /\ says(reason, ids) \in Chat
           /\ \A x \in {"at", "step", "frames", "left", "tools", "asked", "i", "results"} :
                  says(reason, ids)[x] = agent[x]
           /\ LET c == says(reason, ids).conversation
              IN  PairsSound(c) /\ c # <<>> /\ c[Len(c)].uses = ids
<1> DEFINE m == [uses |-> ids, results |-> <<>>]
<1>1. m \in Said /\ agent.conversation \in Seq(Said) /\ agent \in Chat
  BY EmptySeq DEF Said, Loop, Chat
<1>2. LET c == Append(agent.conversation, m)
      IN  c \in Seq(Said) /\ PairsSound(c) /\ c # <<>> /\ c[Len(c)] = m
  BY <1>1, MessageAdded DEF Loop, AsksNothing
<1>3. says(reason, ids) = [agent EXCEPT !.reason = reason, !.conversation = Append(agent.conversation, m)]
  BY DEF says
<1>4. m.uses = ids
  OBVIOUS
<1> HIDE DEF m
<1> QED BY <1>1, <1>2, <1>3, <1>4 DEF Chat

LEMMA PausesKeeps == Loop /\ Pauses => Loop'
<1> SUFFICES ASSUME Loop, Pauses PROVE Loop'
  OBVIOUS
<1> DEFINE s == says("pause_turn", <<>>)
<1>1. /\ s \in Chat /\ s.at = "requesting" /\ s.step = agent.step /\ s.frames = agent.frames
      /\ PairsSound(s.conversation) /\ s.conversation # <<>>
      /\ s.conversation[Len(s.conversation)].uses = <<>>
  BY SaysProperties, EmptySeq DEF Pauses
<1>2. agent' = IF agent.step + 1 < MaxSteps THEN [s EXCEPT !.at = "sending", !.step = agent.step + 1]
               ELSE stops(s, "end")
  BY <1>1 DEF Pauses
<1>3. agent.step \in Nat /\ agent.at = "requesting"
  BY DEF Loop, Chat, Pauses
<1> HIDE DEF s
<1>4. CASE agent.step + 1 < MaxSteps
  <2>1. /\ agent' \in Chat /\ agent'.at = "sending" /\ agent'.step = agent.step + 1
        /\ agent'.frames = agent.frames /\ agent'.conversation = s.conversation
    <3>1. agent' = [s EXCEPT !.at = "sending", !.step = agent.step + 1] /\ agent.step + 1 \in Nat
      BY <1>2, <1>3, <1>4
    <3> QED BY <1>1, <3>1 DEF Chat
  <2> QED BY <1>1, <1>3, <1>4, <2>1 DEF Loop, AsksNothing, FramesFine
<1>5. CASE ~ (agent.step + 1 < MaxSteps)
  BY <1>1, <1>2, <1>3, <1>5, StopsKeeps
<1> QED BY <1>4, <1>5

LEMMA FinishesKeeps ==
    ASSUME Loop, NEW reason \in {"end", "max_tokens", "refusal"}, Finishes(reason)
    PROVE  Loop'
<1> DEFINE s == says(reason, <<>>)
<1>0. /\ agent.at = "requesting" /\ <<>> \in Seq(UseIds)
      /\ reason \in {"tool_use", "pause_turn", "end", "max_tokens", "refusal"}
  BY EmptySeq DEF Finishes
<1>1. /\ s \in Chat /\ s.at = "requesting" /\ s.step = agent.step /\ s.frames = agent.frames
      /\ PairsSound(s.conversation)
  BY <1>0, SaysProperties
<1>2. agent' = stops(s, reason)
  BY DEF Finishes
<1> HIDE DEF s
<1> QED BY <1>0, <1>1, <1>2, StopsKeeps

LEMMA AsksForKeeps ==
    ASSUME Loop, NEW asked \in BoundedSeq(Tools, MaxUses) \ {<<>>}, AsksFor(asked)
    PROVE  Loop'
<1> DEFINE ids == [k \in DOMAIN asked |-> <<agent.step, k>>]
           s == says("tool_use", ids)
<1>1. /\ asked \in Seq(Tools) /\ Len(asked) \in 1 .. MaxUses /\ DOMAIN asked = 1 .. Len(asked)
  <2>1. PICK n \in 0 .. MaxUses : asked \in [1 .. n -> Tools]
    BY DEF BoundedSeq, SeqOf
  <2> QED BY <2>1, AgentAssumption
<1>2. agent.step \in Nat /\ agent.step < MaxSteps /\ agent.at = "requesting" /\ agent \in Chat
  BY DEF Loop, Chat, AsksFor
<1>3. ids \in Seq(UseIds) /\ Numbered(ids, agent.step, Len(asked))
  BY <1>1, <1>2, AgentAssumption DEF UseIds, Numbered
<1>4. /\ s \in Chat /\ s.at = "requesting" /\ s.step = agent.step /\ s.frames = agent.frames
      /\ PairsSound(s.conversation) /\ s.conversation # <<>>
      /\ s.conversation[Len(s.conversation)].uses = ids
  BY <1>2, <1>3, SaysProperties
<1>5. agent' = IF agent.step + 1 >= MaxSteps THEN stops(s, "error")
               ELSE [s EXCEPT !.at = "using", !.asked = asked, !.i = 1, !.results = <<>>]
  BY DEF AsksFor
<1> HIDE DEF s, ids
<1>6. CASE agent.step + 1 >= MaxSteps
  BY <1>2, <1>4, <1>5, <1>6, StopsKeeps
<1>7. CASE ~ (agent.step + 1 >= MaxSteps)
  <2>1. /\ agent' \in Chat /\ agent'.at = "using" /\ agent'.step = agent.step /\ agent'.i = 1
        /\ agent'.asked = asked /\ agent'.results = <<>>
        /\ agent'.frames = agent.frames /\ agent'.conversation = s.conversation
    BY <1>1, <1>4, <1>5, <1>7, EmptySeq DEF Chat
  <2>2. AnswerOwes'
    BY <1>1, <1>2, <1>3, <1>4, <1>7, <2>1, AgentAssumption DEF AnswerOwes, Numbered
  <2> QED BY <1>2, <1>4, <2>1, <2>2 DEF Loop, FramesFine
<1> QED BY <1>6, <1>7

LEMMA IdType == Loop /\ agent.at \in {"using", "calling"} => Id \in UseIds
BY AgentAssumption DEF Loop, AnswerOwes, Chat, Id, UseIds

LEMMA UsesKeeps == Loop /\ Uses => Loop'
<1> SUFFICES ASSUME Loop, Uses PROVE Loop'
  OBVIOUS
<1> DEFINE f == [kind |-> "tool_use", id |-> Id]
           y == yields(agent, f)
<1>1. /\ f \in ChatFrame /\ ~ IsDone(f) /\ f.kind # "tool_result"
      /\ agent \in Chat /\ agent.at = "using" /\ agent.frames \in Seq(ChatFrame)
      /\ FramesFine(agent.frames, agent.at) /\ AnswerOwes
  BY IdType, FrameKinds DEF Uses, Loop, Chat
<1>2. /\ y \in Chat
      /\ agent.left => y = [agent EXCEPT !.at = "ended"]
      /\ ~ agent.left => y = [agent EXCEPT !.frames = Append(agent.frames, f)]
  BY <1>1, YieldsProperties
<1>3. agent' = IF y.at = "ended" THEN y
               ELSE [y EXCEPT !.at = IF callable(agent.asked[agent.i]) THEN "calling" ELSE "broken"]
  BY DEF Uses
<1>4. f = [kind |-> "tool_use", id |-> Id]
  OBVIOUS
<1> HIDE DEF f, y
<1>5. CASE agent.left
  <2>1. /\ agent' \in Chat /\ agent'.at = "ended" /\ agent'.step = agent.step /\ agent'.left
        /\ agent'.frames = agent.frames /\ agent'.conversation = agent.conversation
    BY <1>1, <1>2, <1>3, <1>5 DEF Chat
  <2> QED BY <1>1, <2>1 DEF Loop, FramesFine
<1>6. CASE ~ agent.left
  <2>1. y.at = "using"
    BY <1>1, <1>2, <1>6 DEF Chat
  <2>2. PICK at \in {"calling", "broken"} : agent' = [y EXCEPT !.at = at]
    BY <1>3, <2>1
  <2>3. /\ agent' \in Chat /\ agent'.at = at /\ agent'.step = agent.step /\ agent'.i = agent.i
        /\ agent'.asked = agent.asked /\ agent'.results = agent.results
        /\ agent'.conversation = agent.conversation
        /\ agent'.frames = Append(agent.frames, f)
    BY <1>1, <1>2, <1>6, <2>1, <2>2 DEF Chat
  <2>4. FramesFine(Append(agent.frames, f), at) /\ Append(agent.frames, f) # <<>>
        /\ Append(agent.frames, f)[Len(Append(agent.frames, f))] = f
    BY <1>1, FrameAdded
  <2>5. Id' = Id /\ AnswerOwes'
    BY <1>1, <2>3 DEF Id, AnswerOwes
  <2> QED BY <1>4, <2>2, <2>3, <2>4, <2>5 DEF Loop
<1> QED BY <1>5, <1>6

(* A call settles: its result joins the others, and with the last one the  *)
(* message that answers the last.                                          *)
LEMMA SettlesKeeps == Loop /\ Settles => Loop'
<1> SUFFICES ASSUME Loop, Settles PROVE Loop'
  OBVIOUS
<1> DEFINE f == [kind |-> "tool_result", id |-> Id]
           results == Append(agent.results, Id)
           a == [agent EXCEPT !.results = results]
           y == yields(a, f)
           m == [uses |-> <<>>, results |-> results]
<1>1. /\ f \in ChatFrame /\ ~ IsDone(f) /\ f.id = Id /\ Id \in UseIds
      /\ agent \in Chat /\ agent.at = "calling" /\ agent.frames \in Seq(ChatFrame)
      /\ agent.step \in Nat /\ agent.i \in Nat /\ agent.results \in Seq(UseIds)
      /\ agent.conversation \in Seq(Said) /\ PairsSound(agent.conversation)
      /\ FramesFine(agent.frames, agent.at) /\ AnswerOwes
      /\ agent.frames # <<>> /\ agent.frames[Len(agent.frames)] = [kind |-> "tool_use", id |-> f.id]
  BY IdType, FrameKinds DEF Settles, Loop, Chat, AnswerOwes
<1>2. results \in Seq(UseIds) /\ Numbered(results, agent.step, agent.i)
  <2>1. /\ Len(results) = Len(agent.results) + 1 /\ results[Len(agent.results) + 1] = Id
        /\ \A k \in 1 .. Len(agent.results) : results[k] = agent.results[k]
        /\ results \in Seq(UseIds)
    BY <1>1, AppendProperties
  <2>2. /\ Len(agent.results) = agent.i - 1 /\ agent.i >= 1
        /\ \A k \in 1 .. agent.i - 1 : agent.results[k] = <<agent.step, k>>
    BY <1>1 DEF AnswerOwes, Numbered
  <2> HIDE DEF results, f, a, y, m
  <2>3. Len(results) = agent.i /\ results[agent.i] = <<agent.step, agent.i>>
    BY <1>1, <2>1, <2>2 DEF Id
  <2>4. \A k \in 1 .. agent.i - 1 : results[k] = <<agent.step, k>>
    BY <1>1, <2>1, <2>2
  <2>5. \A k \in 1 .. agent.i : k = agent.i \/ k \in 1 .. agent.i - 1
    BY <1>1
  <2>6. ASSUME NEW k \in 1 .. agent.i PROVE results[k] = <<agent.step, k>>
    <3>1. CASE k = agent.i
      BY <2>3, <3>1
    <3>2. CASE k \in 1 .. agent.i - 1
      BY <2>4, <3>2
    <3> QED BY <2>5, <2>6, <3>1, <3>2
  <2> QED BY <2>1, <2>3, <2>6 DEF Numbered
<1>3. a \in Chat /\ a.left = agent.left /\ a.frames = agent.frames
  BY <1>1, <1>2 DEF Chat
<1>4. /\ y \in Chat
      /\ agent.left => y = [a EXCEPT !.at = "ended"]
      /\ ~ agent.left => y = [a EXCEPT !.frames = Append(agent.frames, f)]
  BY <1>1, <1>3, YieldsProperties
<1>5. agent' =
        IF y.at = "ended" THEN y
        ELSE IF agent.i < Len(agent.asked) THEN [y EXCEPT !.at = "using", !.i = agent.i + 1]
        ELSE [y EXCEPT !.at = "sending", !.step = agent.step + 1, !.asked = <<>>, !.results = <<>>,
                       !.conversation = Append(agent.conversation, m)]
  <2>1. y.i = agent.i /\ y.step = agent.step /\ y.conversation = agent.conversation
    <3>1. CASE agent.left
      BY <1>1, <1>2, <1>4, <3>1 DEF Chat
    <3>2. CASE ~ agent.left
      BY <1>1, <1>2, <1>4, <3>2 DEF Chat
    <3> QED BY <3>1, <3>2
  <2>2. agent' = settled(results)
    BY DEF Settles
  <2> QED BY <2>1, <2>2 DEF settled
<1>6. FramesFine(Append(agent.frames, f), "using") /\ FramesFine(Append(agent.frames, f), "sending")
  BY <1>1, FrameAdded
<1>7. a = [agent EXCEPT !.results = results] /\ m \in Said /\ m.results = results /\ m.uses = <<>>
  BY <1>2, EmptySeq DEF Said
<1> HIDE DEF f, results, a, y, m
<1>8. CASE agent.left
  <2>1. /\ agent' \in Chat /\ agent'.at = "ended" /\ agent'.step = agent.step /\ agent'.left
        /\ agent'.frames = agent.frames /\ agent'.conversation = agent.conversation
    BY <1>1, <1>2, <1>4, <1>5, <1>7, <1>8 DEF Chat
  <2> QED BY <1>1, <2>1 DEF Loop, FramesFine
<1>9. ASSUME ~ agent.left, agent.i < Len(agent.asked) PROVE Loop'
  <2>1. y.at = "calling" /\ y.step = agent.step /\ y.asked = agent.asked /\ y.results = results
        /\ y.conversation = agent.conversation /\ y.frames = Append(agent.frames, f)
    BY <1>1, <1>2, <1>4, <1>7, <1>9 DEF Chat
  <2>2. agent' = [y EXCEPT !.at = "using", !.i = agent.i + 1]
    BY <1>5, <1>9, <2>1
  <2>3. /\ agent' \in Chat /\ agent'.at = "using" /\ agent'.step = agent.step
        /\ agent'.i = agent.i + 1 /\ agent'.asked = agent.asked /\ agent'.results = results
        /\ agent'.conversation = agent.conversation /\ agent'.frames = Append(agent.frames, f)
    <3>1. agent.i + 1 \in Nat
      BY <1>1
    <3>2. agent' \in Chat
      BY <1>4, <2>2, <3>1 DEF Chat
    <3> QED BY <1>4, <2>1, <2>2, <3>2 DEF Chat
  <2>4. AnswerOwes'
    <3>1. agent.i + 1 \in 1 .. Len(agent.asked) /\ agent'.i - 1 = agent.i
      BY <1>1, <1>9, <2>3 DEF AnswerOwes
    <3>2. Numbered(agent'.results, agent'.step, agent'.i - 1)
      BY <1>2, <2>3, <3>1 DEF Numbered
    <3> QED BY <1>1, <2>3, <3>1, <3>2 DEF AnswerOwes
  <2> QED BY <1>1, <1>6, <2>3, <2>4 DEF Loop
<1>10. ASSUME ~ agent.left, ~ (agent.i < Len(agent.asked)) PROVE Loop'
  <2>1. y.at = "calling" /\ y.step = agent.step /\ y.frames = Append(agent.frames, f)
    BY <1>1, <1>2, <1>4, <1>7, <1>10 DEF Chat
  <2>2. results = agent.conversation[Len(agent.conversation)].uses
    <3> DEFINE uses == agent.conversation[Len(agent.conversation)].uses
    <3>1. uses \in Seq(UseIds) /\ agent.conversation # <<>>
      <4>1. agent.conversation # <<>> /\ Len(agent.conversation) \in 1 .. Len(agent.conversation)
        BY <1>1, EmptySeq DEF AnswerOwes
      <4>2. agent.conversation[Len(agent.conversation)] \in Said
        BY <1>1, <4>1, ElementOfSeq
      <4> QED BY <4>1, <4>2 DEF Said
    <3>2. Numbered(uses, agent.step, Len(agent.asked)) /\ agent.i = Len(agent.asked)
      BY <1>1, <1>10 DEF AnswerOwes
    <3> HIDE DEF uses
    <3>3. Len(results) = Len(uses) /\ \A k \in 1 .. Len(results) : results[k] = uses[k]
      BY <1>2, <3>2 DEF Numbered
    <3>4. results = uses
      BY <1>2, <3>1, <3>3, SeqEqual
    <3> QED BY <3>4 DEF uses
  <2>3. LET c == Append(agent.conversation, m)
        IN  c \in Seq(Said) /\ c # <<>> /\ PairsSound(c) /\ c[Len(c)] = m
    BY <1>1, <1>7, <2>2, MessageAdded
  <2>4. agent' = [y EXCEPT !.at = "sending", !.step = agent.step + 1, !.asked = <<>>, !.results = <<>>,
                           !.conversation = Append(agent.conversation, m)]
    BY <1>5, <1>10, <2>1
  <2>5. /\ agent' \in Chat /\ agent'.at = "sending" /\ agent'.step = agent.step + 1
        /\ agent'.frames = Append(agent.frames, f)
        /\ agent'.conversation = Append(agent.conversation, m)
    <3>1. agent.step + 1 \in Nat /\ <<>> \in Seq(Tools) /\ <<>> \in Seq(UseIds)
      BY <1>1, EmptySeq
    <3>2. agent' \in Chat
      BY <1>4, <2>3, <2>4, <3>1 DEF Chat
    <3> QED BY <1>4, <2>1, <2>4, <3>2 DEF Chat
  <2>6. agent'.step < MaxSteps
    BY <1>1, <2>5, AgentAssumption DEF AnswerOwes
  <2> QED BY <1>6, <1>7, <2>3, <2>5, <2>6 DEF Loop, AsksNothing
<1> QED BY <1>8, <1>9, <1>10

LEMMA LoopKept == Loop /\ Registries /\ [AgentNext]_avars => Loop'
<1> SUFFICES ASSUME Loop, Registries, [AgentNext]_avars PROVE Loop'
  OBVIOUS
<1>1. CASE UNCHANGED agent
  BY <1>1 DEF Loop, AnswerOwes, Id
<1>2. CASE ChatStarts
  <2>1. buildTools.tools \in SUBSET Modules
    BY BuildToolsProperties DEF Registries
  <2>2. /\ agent' \in Chat /\ agent'.at = "sending" /\ agent'.step = agent.step
        /\ agent'.frames = agent.frames /\ agent'.conversation = agent.conversation
        /\ agent.at = "none"
    BY <1>2, <2>1 DEF ChatStarts, Loop, Chat
  <2> QED BY <2>2 DEF Loop, FramesFine
<1>3. CASE ReaderLeaves
  <2>1. /\ agent' \in Chat /\ agent'.at = agent.at /\ agent'.at # "ended" /\ agent'.step = agent.step
        /\ agent'.frames = agent.frames /\ agent'.conversation = agent.conversation
        /\ agent'.asked = agent.asked /\ agent'.i = agent.i /\ agent'.results = agent.results
    BY <1>3 DEF ReaderLeaves, Loop, Chat
  <2> QED BY <2>1 DEF Loop, AnswerOwes, Id
<1>4. ASSUME NEW at \in {"requesting", "broken", "ended"}, agent' = [agent EXCEPT !.at = at],
             at = "requesting" => agent.at = "sending", at = "ended" => agent.left, agent.at # "ended"
      PROVE  Loop'
  <2>1. /\ agent' \in Chat /\ agent'.at = at /\ agent'.step = agent.step /\ agent'.left = agent.left
        /\ agent'.frames = agent.frames /\ agent'.conversation = agent.conversation
    BY <1>4 DEF Loop, Chat
  <2> QED BY <1>4, <2>1 DEF Loop, FramesFine
<1>5. CASE Sends \/ Fails \/ TextUnread
  BY <1>4, <1>5 DEF Sends, Fails, TextUnread
<1>6. CASE Answers
  BY <1>5, <1>6, FinishesKeeps, AsksForKeeps, PausesKeeps DEF Answers
<1> QED BY <1>1, <1>2, <1>3, <1>5, <1>6, UsesKeeps, SettlesKeeps
    DEF AgentNext, ChatSteps, Imports, LoadEnds, LoadFails, Rejected, Arrives, Lists, CallsTool,
        CallSettles, Other, avars

(* Whatever the model asks for, whatever its tools do and whenever its     *)
(* reader goes, the loop sends only a conversation in which each tool use  *)
(* is answered in order, and yields each result after its use and `done`   *)
(* once and last (engine.ts).                                              *)
THEOREM TheLoopKeepsBothSidesWhole == AgentSpec => []AgentSound
<1>1. AgentSpec => [](Loop /\ Registries)
  BY LoopInitially, RegistriesInitially, LoopKept, RegistriesKept, PTL DEF AgentSpec
<1> QED BY <1>1, LoopSuffices, PTL

-----------------------------------------------------------------------------
(* The assistant: what a page's step does to the page.                     *)
Page == [conn : ConnectionState, turn : [Turns -> Turn], link : [Links -> Link]]

(* Two states of a ws that only its page tells apart.                      *)
SameWs(l, m) == m.server = l.server /\ m.asks = l.asks /\ m.down = l.down /\ m.waits = l.waits

LEMMA PageIsPage == BridgeType => S \in Page /\ S.conn = conn /\ S.turn = turn /\ S.link = link
BY DEF BridgeType, S, Page

LEMMA FreeLink == FreeLinks # {} => AnyFree \in Links /\ AnyFree # 0 /\ link[AnyFree] = NoLink
BY BridgeAssumption DEF AnyFree, FreeLinks, Links

LEMMA OpenProperties ==
    ASSUME NEW s \in Page, NEW c \in Links
    PROVE  LET u == open(s, c)
           IN  /\ u \in Page /\ u.turn = s.turn
               /\ u.conn = [s.conn EXCEPT !.socket = c, !.opened = c, !.resolved = FALSE]
               /\ \A d \in Links : /\ SameWs(s.link[d], u.link[d])
                                   /\ u.link[d].client = IF d = c THEN "connecting" ELSE s.link[d].client
<1> DEFINE k == [s.conn EXCEPT !.socket = c, !.opened = c, !.resolved = FALSE]
           l == [s.link[c] EXCEPT !.client = "connecting"]
           u == open(s, c)
<1>1. c \in 0 .. MaxLinks
  BY BridgeAssumption DEF Links
<1>2. k \in ConnectionState /\ l \in Link /\ SameWs(s.link[c], l) /\ l.client = "connecting"
  BY <1>1 DEF Page, ConnectionState, Link, SameWs
<1>3. u = [s EXCEPT !.conn = k, !.link = [s.link EXCEPT ![c] = l]]
  BY DEF open, Page, ConnectionState
<1>4. u \in Page /\ u.turn = s.turn /\ u.conn = k /\ u.link = [s.link EXCEPT ![c] = l]
  <2> HIDE DEF k, l, u
  <2> QED BY <1>2, <1>3 DEF Page
<1> HIDE DEF l, u
<1> QED BY <1>2, <1>4 DEF SameWs, Page, u

LEMMA IdleProperties ==
    ASSUME NEW s \in Page
    PROVE  LET u == closeIfIdle(s)
               c == s.conn.socket
           IN  /\ u \in Page /\ u.turn = s.turn
               /\ \A d \in Links : SameWs(s.link[d], u.link[d])
               /\ \/ u = s
                  \/ /\ ~ s.conn.watched /\ c \in Links /\ c # 0
                     /\ u.conn = [s.conn EXCEPT !.socket = 0]
                     /\ \A d \in Links : u.link[d].client =
                            IF d = c /\ s.link[c].client # "none" THEN "closing" ELSE s.link[d].client
<1> DEFINE c == s.conn.socket
           u == closeIfIdle(s)
           k == [s.conn EXCEPT !.socket = 0]
           l == shut(s.link[c])
<1>1. c \in 0 .. MaxLinks /\ 0 \in 0 .. MaxLinks /\ (c # 0 => c \in Links)
  BY BridgeAssumption DEF Page, ConnectionState, Links
<1>2. CASE s.conn.watched \/ inflight(s) # {} \/ c = 0
  <2>1. u = s
    BY <1>2 DEF closeIfIdle
  <2> QED BY <2>1 DEF SameWs
<1>3. CASE ~ (s.conn.watched \/ inflight(s) # {} \/ c = 0)
  <2>1. c \in Links /\ c # 0 /\ s.link[c] \in Link
    BY <1>1, <1>3 DEF Page
  <2>2. k \in ConnectionState /\ l \in Link /\ SameWs(s.link[c], l)
        /\ l.client = IF s.link[c].client = "none" THEN "none" ELSE "closing"
    BY <1>1, <2>1 DEF Page, ConnectionState, Link, SameWs, shut
  <2>3. u = [s EXCEPT !.conn = k, !.link = [s.link EXCEPT ![c] = l]]
    BY <1>3 DEF closeIfIdle, Page, ConnectionState
  <2>4. u \in Page /\ u.turn = s.turn /\ u.conn = k /\ u.link = [s.link EXCEPT ![c] = l]
    <3> HIDE DEF k, l, u
    <3> QED BY <2>1, <2>2, <2>3 DEF Page
  <2> HIDE DEF l, u
  <2> QED BY <1>3, <2>1, <2>2, <2>4 DEF SameWs, Page, u
<1> QED BY <1>2, <1>3

(* The generators in T end; of the others nothing changes.                 *)
LEMMA EndsProperties ==
    ASSUME NEW s \in Page, NEW T \in SUBSET Turns
    PROVE  LET u == ends(s, T)
               c == s.conn.socket
           IN  /\ u \in Page
               /\ \A t \in Turns : /\ u.turn[t].got = s.turn[t].got
                                   /\ t \notin T => u.turn[t] = s.turn[t]
                                   /\ t \in T => u.turn[t].at = "ended" /\ ~ u.turn[t].listed
               /\ \A d \in Links : SameWs(s.link[d], u.link[d])
               /\ \/ u.conn = s.conn /\ u.link = s.link
                  \/ /\ ~ s.conn.watched /\ c \in Links /\ c # 0
                     /\ u.conn = [s.conn EXCEPT !.socket = 0]
                     /\ \A d \in Links : u.link[d].client =
                            IF d = c /\ s.link[c].client # "none" THEN "closing" ELSE s.link[d].client
               /\ T = {} => u = s
<1> DEFINE f == [t \in Turns |-> IF t \in T THEN [s.turn[t] EXCEPT !.at = "ended", !.listed = FALSE]
                                 ELSE s.turn[t]]
           m == [s EXCEPT !.turn = f]
           u == ends(s, T)
<1>1. CASE T = {}
  <2>1. u = s
    BY <1>1 DEF ends
  <2> QED BY <1>1, <2>1 DEF SameWs
<1>2. CASE T # {}
  <2>1. /\ f \in [Turns -> Turn]
        /\ \A t \in Turns : /\ f[t].got = s.turn[t].got
                            /\ t \notin T => f[t] = s.turn[t]
                            /\ t \in T => f[t].at = "ended" /\ ~ f[t].listed
    <3>1. \A x \in Turn : LET y == [x EXCEPT !.at = "ended", !.listed = FALSE]
                         IN  y \in Turn /\ y.got = x.got /\ y.at = "ended" /\ ~ y.listed
      BY DEF Turn
    <3>2. s.turn \in [Turns -> Turn]
      BY DEF Page
    <3> QED BY <3>1, <3>2
  <2>2. u = closeIfIdle(m)
    BY <1>2 DEF ends
  <2> HIDE DEF f
  <2>3. m \in Page /\ m.conn = s.conn /\ m.link = s.link /\ m.turn = f
    BY <2>1 DEF Page
  <2> HIDE DEF m, u
  <2>4. /\ u \in Page /\ u.turn = f
        /\ \A d \in Links : SameWs(s.link[d], u.link[d])
        /\ \/ u.conn = s.conn /\ u.link = s.link
           \/ /\ ~ s.conn.watched /\ s.conn.socket \in Links /\ s.conn.socket # 0
              /\ u.conn = [s.conn EXCEPT !.socket = 0]
              /\ \A d \in Links : u.link[d].client =
                     IF d = s.conn.socket /\ s.link[s.conn.socket].client # "none" THEN "closing"
                     ELSE s.link[d].client
    <3>1. /\ u \in Page /\ u.turn = m.turn
          /\ \A d \in Links : SameWs(m.link[d], u.link[d])
          /\ \/ u = m
             \/ /\ ~ m.conn.watched /\ m.conn.socket \in Links /\ m.conn.socket # 0
                /\ u.conn = [m.conn EXCEPT !.socket = 0]
                /\ \A d \in Links : u.link[d].client =
                       IF d = m.conn.socket /\ m.link[m.conn.socket].client # "none" THEN "closing"
                       ELSE m.link[d].client
      BY <2>2, <2>3, IdleProperties
    <3> QED BY <2>3, <3>1
  <2> QED BY <1>2, <2>1, <2>4 DEF u
<1> QED BY <1>1, <1>2

(* The turns that go on are asked on the ws of the page, or end.           *)
LEMMA GoesOnProperties ==
    ASSUME NEW s \in Page, NEW T \in SUBSET Turns
    PROVE  LET u == goesOn(s, T)
               c == s.conn.socket
           IN  /\ u \in Page
               /\ \A t \in Turns : /\ u.turn[t].got = s.turn[t].got
                                   /\ t \notin T => u.turn[t] = s.turn[t]
                                   /\ t \in T => u.turn[t].at \in {"reading", "ended"}
                                   /\ u.turn[t].listed => s.turn[t].listed /\ (t \in T => u.turn[t].at = "reading")
               /\ \A d \in Links : /\ u.link[d].server = s.link[d].server
                                   /\ u.link[d].down = s.link[d].down
                                   /\ u.link[d].waits = s.link[d].waits
                                   /\ \A t \in u.link[d].asks : t \in s.link[d].asks \/ (t \in T /\ d = c)
               /\ (\A t \in T : s.turn[t].listed) /\ (c # 0 => s.link[c].client # "connecting") =>
                      /\ u.conn = s.conn
                      /\ \A d \in Links : u.link[d].client = s.link[d].client
                      /\ \A t \in T : u.turn[t].at = "reading"
               /\ T = {} => u.conn = s.conn /\ \A d \in Links : u.link[d].client = s.link[d].client
<1> DEFINE c == s.conn.socket
           closes == ~ s.conn.watched /\ inflight(s) = {}
           heard == {t \in T : closes => t = CHOOSE first \in T : TRUE}
           f == [t \in Turns |-> IF t \in T THEN [s.turn[t] EXCEPT !.at = "reading"] ELSE s.turn[t]]
           read == [s EXCEPT !.turn = f]
           l == [s.link[c] EXCEPT !.asks = @ \cup heard]
           sent == IF c # 0 /\ s.link[c].client = "open"
                   THEN [read EXCEPT !.link[c].asks = @ \cup heard] ELSE read
           E == {t \in T : (c # 0 /\ s.link[c].client = "connecting") \/ ~ s.turn[t].listed}
           u == goesOn(s, T)
<1>1. u = ends(sent, E) /\ E \in SUBSET Turns /\ E \subseteq T /\ heard \subseteq T
  BY DEF goesOn
<1>2. /\ f \in [Turns -> Turn]
      /\ \A t \in Turns : /\ f[t].got = s.turn[t].got /\ f[t].listed = s.turn[t].listed
                          /\ t \notin T => f[t] = s.turn[t]
                          /\ t \in T => f[t].at = "reading"
  <2>1. \A x \in Turn : LET y == [x EXCEPT !.at = "reading"]
                       IN  y \in Turn /\ y.got = x.got /\ y.listed = x.listed /\ y.at = "reading"
    BY DEF Turn
  <2>2. s.turn \in [Turns -> Turn]
    BY DEF Page
  <2> QED BY <2>1, <2>2
<1> HIDE DEF f, heard
<1>3. read \in Page /\ read.conn = s.conn /\ read.link = s.link /\ read.turn = f
  BY <1>2 DEF Page
<1>4. c # 0 => c \in Links
  BY BridgeAssumption DEF Page, ConnectionState, Links
<1>5. /\ sent \in Page /\ sent.conn = s.conn /\ sent.turn = f
      /\ \A d \in Links : /\ sent.link[d].server = s.link[d].server /\ sent.link[d].client = s.link[d].client
                          /\ sent.link[d].down = s.link[d].down /\ sent.link[d].waits = s.link[d].waits
                          /\ \A t \in sent.link[d].asks : t \in s.link[d].asks \/ (t \in T /\ d = c)
  <2>1. CASE c # 0 /\ s.link[c].client = "open"
    <3>1. s.link[c] \in Link /\ c \in Links
      BY <1>4, <2>1 DEF Page
    <3>2. /\ l \in Link /\ l.server = s.link[c].server /\ l.client = s.link[c].client
          /\ l.down = s.link[c].down /\ l.waits = s.link[c].waits /\ l.asks = s.link[c].asks \cup heard
      BY <1>1, <3>1 DEF Link
    <3>3. sent = [read EXCEPT !.link = [s.link EXCEPT ![c] = l]]
      BY <2>1, <1>3
    <3> HIDE DEF l, read, sent
    <3>4. sent \in Page /\ sent.conn = s.conn /\ sent.turn = f /\ sent.link = [s.link EXCEPT ![c] = l]
      BY <1>2, <1>3, <3>1, <3>2, <3>3 DEF Page
    <3>5. \A d \in Links : sent.link[d] = IF d = c THEN l ELSE s.link[d]
      BY <3>4 DEF Page
    <3> HIDE DEF c
    <3> QED BY <1>1, <3>2, <3>4, <3>5
  <2>2. CASE ~ (c # 0 /\ s.link[c].client = "open")
    BY <1>3, <2>2
  <2> QED BY <2>1, <2>2
<1> HIDE DEF sent, read
<1>6. \A t \in T : t \notin E => s.turn[t].listed
  OBVIOUS
<1>7. (\A t \in T : s.turn[t].listed) /\ (c # 0 => s.link[c].client # "connecting") => E = {}
  OBVIOUS
<1>8. T = {} => E = {}
  BY <1>1
<1> HIDE DEF E, u, c
<1>9. /\ u \in Page
      /\ \A t \in Turns : /\ u.turn[t].got = sent.turn[t].got
                          /\ t \notin E => u.turn[t] = sent.turn[t]
                          /\ t \in E => u.turn[t].at = "ended" /\ ~ u.turn[t].listed
      /\ \A d \in Links : SameWs(sent.link[d], u.link[d])
      /\ E = {} => u = sent
  <2>1. sent \in Page /\ E \in SUBSET Turns /\ u = ends(sent, E)
    BY <1>1, <1>5
  <2> DEFINE v == ends(sent, E)
  <2>2. /\ v \in Page
        /\ \A t \in Turns : /\ v.turn[t].got = sent.turn[t].got
                            /\ t \notin E => v.turn[t] = sent.turn[t]
                            /\ t \in E => v.turn[t].at = "ended" /\ ~ v.turn[t].listed
    BY ONLY <2>1, EndsProperties
  <2>3. \A d \in Links : SameWs(sent.link[d], v.link[d])
    BY ONLY <2>1, EndsProperties
  <2>4. E = {} => v = sent
    BY ONLY <2>1, EndsProperties
  <2> QED BY ONLY <2>1, <2>2, <2>3, <2>4
<1>10. \A t \in Turns : /\ u.turn[t].got = s.turn[t].got
                        /\ t \notin T => u.turn[t] = s.turn[t]
                        /\ t \in T => u.turn[t].at \in {"reading", "ended"}
                        /\ u.turn[t].listed => s.turn[t].listed /\ (t \in T => u.turn[t].at = "reading")
  BY <1>1, <1>2, <1>5, <1>6, <1>9
<1>11. \A d \in Links : /\ u.link[d].server = s.link[d].server
                        /\ u.link[d].down = s.link[d].down
                        /\ u.link[d].waits = s.link[d].waits
                        /\ \A t \in u.link[d].asks : t \in s.link[d].asks \/ (t \in T /\ d = c)
  BY <1>5, <1>9 DEF SameWs
<1>12. E = {} => /\ u.conn = s.conn
                 /\ \A d \in Links : u.link[d].client = s.link[d].client
                 /\ \A t \in T : u.turn[t].at = "reading"
  BY <1>2, <1>5, <1>9
<1> QED BY <1>7, <1>8, <1>9, <1>10, <1>11, <1>12 DEF u, c

-----------------------------------------------------------------------------
(* Where the one request of a turn is: in the asks of a ws, then in a run  *)
(* that answers on that ws, then in the frames under way on it.            *)
Sent(c, t) == {i \in DOMAIN link[c].down : link[c].down[i].turn = t}

Carries(c, t) == t \in link[c].asks \/ run[t].link = c \/ Sent(c, t) # {}

Unasked(t) == turn[t].at \in {"idle", "awaiting"}

RunsHeld ==
    \A t \in Turns :
        /\ run[t].at \notin {"finding", "running"} => run[t].link = 0
        /\ run[t].link # 0 => link[run[t].link].server = "open"
        /\ run[t].at = "none" =>
              run[t].made = 0 /\ turn[t].got = <<>> /\ \A c \in Links : Sent(c, t) = {}

OnOneLink ==
    \A t \in Turns : \A c, d \in Links :
        /\ Carries(c, t) /\ Carries(d, t) => c = d
        /\ t \in link[c].waits /\ t \in link[d].waits => c = d

AskedOnce ==
    \A t \in Turns :
        /\ Unasked(t) => run[t].at = "none"
        /\ turn[t].listed => turn[t].at \in {"awaiting", "reading"}
        /\ \A c \in Links : /\ t \in link[c].asks => run[t].at = "none" /\ ~ Unasked(t)
                            /\ t \in link[c].waits => turn[t].at = "awaiting"

(* The frames under way to a turn in flight are the next ones, in order,   *)
(* none left out, and after the last there is no more.                     *)
Flow(c, t) ==
    LET q == link[c].down
        next == Len(turn[t].got) + 1
    IN  /\ \A i \in Sent(c, t) : /\ q[i].n = LastFrame \/ q[i].n \in next .. run[t].made
                                 /\ q[i].n = LastFrame => run[t].link = 0
        /\ \A i, j \in Sent(c, t) :
               i < j => q[i].n # LastFrame /\ (q[j].n = LastFrame \/ q[i].n < q[j].n)
        /\ run[t].link = c \/ Sent(c, t) # {} =>
               \A n \in next .. run[t].made : \E i \in Sent(c, t) : q[i].n = n

InFlight(t) ==
    /\ Len(turn[t].got) <= run[t].made
    /\ \A i \in DOMAIN turn[t].got : turn[t].got[i].n = i
    /\ \A c \in Links : Flow(c, t)

Flows == \A t \in Turns : turn[t].listed => InFlight(t)

Counted ==
    /\ bridge.connections = Cardinality({c \in Links : link[c].server = "open"})
    /\ ~ bridge.up => bridge.connections = 0
    /\ bridge.idle => bridge.up /\ bridge.connections = 0

BridgeInv == BridgeType /\ RunsHeld /\ OnOneLink /\ AskedOnce /\ Flows /\ OwnFrames /\ Counted

LEMMA SomeLinks ==
    ASSUME NEW O \in SUBSET Links
    PROVE  /\ IsFiniteSet(O) /\ Cardinality(O) \in 0 .. MaxLinks
           /\ Cardinality(O) = 0 => O = {}
<1>1. IsFiniteSet(Links) /\ Cardinality(Links) = MaxLinks
  BY BridgeAssumption, FS_Interval DEF Links
<1>2. IsFiniteSet(O) /\ Cardinality(O) <= Cardinality(Links)
  BY <1>1, FS_Subset
<1>3. Cardinality(O) \in Nat /\ (Cardinality(O) = 0 => O = {})
  BY <1>2, FS_CardinalityType, FS_EmptySet
<1>4. Cardinality(O) \in 0 .. MaxLinks
  BY <1>1, <1>2, <1>3, BridgeAssumption
<1> QED BY <1>2, <1>3, <1>4

(* A step of the page that hears nothing: it may ask for turns, on one ws, *)
(* forget what is under way once no turn is in flight, and end turns.      *)
LEMMA PageKeeps ==
    ASSUME BridgeInv,
           conn' \in ConnectionState, turn' \in [Turns -> Turn], link' \in [Links -> Link],
           UNCHANGED <<run, bridge>>,
           \A c \in Links :
               /\ link'[c].server = "open" <=> link[c].server = "open"
               /\ \/ link'[c].down = link[c].down
                  \/ link'[c].down = <<>> /\ \A t \in Turns : ~ turn'[t].listed
               /\ \A t \in link'[c].asks :
                      \/ t \in link[c].asks
                      \/ turn[t].at \in {"idle", "awaiting"} /\ turn'[t].at \notin {"idle", "awaiting"}
               /\ \A t \in link'[c].waits :
                      turn'[t].at = "awaiting" /\ (t \in link[c].waits \/ turn[t].at = "idle"),
           \A c, d \in Links :
               /\ \A t \in link'[c].asks : t \notin link[c].asks /\ t \in link'[d].asks => t \in link[d].asks \/ c = d
               /\ \A t \in link'[c].waits : t \notin link[c].waits /\ t \in link'[d].waits => t \in link[d].waits \/ c = d,
           \A t \in Turns :
               /\ turn'[t].got = turn[t].got
               /\ turn'[t].at \in {"idle", "awaiting"} => turn[t].at \in {"idle", "awaiting"}
               /\ turn'[t].listed => /\ turn'[t].at \in {"awaiting", "reading"}
                                     /\ turn[t].listed \/ turn[t].at \in {"idle", "awaiting"}
    PROVE  BridgeInv'
<1> USE DEF BridgeInv
<1>1. BridgeType'
  BY DEF BridgeType
<1>2. \A c \in Links, t \in Turns :
          Sent(c, t)' = {} \/ (Sent(c, t)' = Sent(c, t) /\ link'[c].down = link[c].down)
  BY DEF Sent
<1>3. \A c \in Links, t \in Turns :
          \/ Carries(c, t)' => Carries(c, t)
          \/ t \in link'[c].asks /\ run[t].link = 0 /\ \A d \in Links : ~ Carries(d, t)
  <2> SUFFICES ASSUME NEW c \in Links, NEW t \in Turns, Carries(c, t)', ~ Carries(c, t)
               PROVE  t \in link'[c].asks /\ run[t].link = 0 /\ \A d \in Links : ~ Carries(d, t)
    OBVIOUS
  <2>1. t \in link'[c].asks /\ t \notin link[c].asks
    BY <1>2 DEF Carries
  <2>2. Unasked(t)
    BY <2>1 DEF Unasked
  <2>3. run[t].at = "none" /\ run[t].link = 0 /\ \A d \in Links : t \notin link[d].asks /\ Sent(d, t) = {} /\ d # 0
    BY <2>2, BridgeAssumption DEF AskedOnce, RunsHeld, Links
  <2> QED BY <2>1, <2>3 DEF Carries
<1>4. RunsHeld'
  <2> SUFFICES ASSUME NEW t \in Turns
               PROVE  /\ run[t].at \notin {"finding", "running"} => run[t].link = 0
                      /\ run[t].link # 0 => link'[run[t].link].server = "open"
                      /\ run[t].at = "none" =>
                            run[t].made = 0 /\ turn'[t].got = <<>> /\ \A c \in Links : Sent(c, t)' = {}
    BY DEF RunsHeld
  <2>1. run[t].link # 0 => run[t].link \in Links
    BY BridgeAssumption DEF BridgeType, Run, Links
  <2> QED BY <1>2, <2>1 DEF RunsHeld
<1>5. OnOneLink'
  <2> SUFFICES ASSUME NEW t \in Turns, NEW c \in Links, NEW d \in Links
               PROVE  /\ Carries(c, t)' /\ Carries(d, t)' => c = d
                      /\ t \in link'[c].waits /\ t \in link'[d].waits => c = d
    BY DEF OnOneLink
  <2>1. Carries(c, t)' /\ Carries(d, t)' => c = d
    <3>1. CASE Carries(c, t) /\ Carries(d, t)
      BY <3>1 DEF OnOneLink
    <3>2. CASE Carries(c, t)' /\ Carries(d, t)' /\ ~ (Carries(c, t) /\ Carries(d, t))
      <4>1. t \in link'[c].asks /\ t \in link'[d].asks
        BY <1>3, <3>2
      <4>2. t \notin link[c].asks /\ t \notin link[d].asks
        BY <1>3, <3>2 DEF Carries
      <4> QED BY <4>1, <4>2
    <3> QED BY <3>1, <3>2
  <2>2. t \in link'[c].waits /\ t \in link'[d].waits => c = d
    BY DEF OnOneLink, AskedOnce
  <2> QED BY <2>1, <2>2
<1>6. AskedOnce'
  <2> SUFFICES ASSUME NEW t \in Turns
               PROVE  /\ turn'[t].at \in {"idle", "awaiting"} => run[t].at = "none"
                      /\ turn'[t].listed => turn'[t].at \in {"awaiting", "reading"}
                      /\ \A c \in Links : /\ t \in link'[c].asks => run[t].at = "none" /\ turn'[t].at \notin {"idle", "awaiting"}
                                          /\ t \in link'[c].waits => turn'[t].at = "awaiting"
    BY DEF AskedOnce, Unasked
  <2> QED BY DEF AskedOnce, Unasked
<1>7. Flows'
  <2> SUFFICES ASSUME NEW t \in Turns, turn'[t].listed
               PROVE  InFlight(t)'
    BY DEF Flows
  <2>1. \A c \in Links : Sent(c, t)' = Sent(c, t) /\ link'[c].down = link[c].down
    BY DEF Sent
  <2>2. CASE turn[t].listed
    <3>1. InFlight(t) /\ turn'[t].got = turn[t].got /\ run' = run
      BY <2>2 DEF Flows
    <3>2. \A c \in Links : Flow(c, t)'
      BY ONLY <2>1, <3>1 DEF InFlight, Flow
    <3> QED BY ONLY <3>1, <3>2 DEF InFlight
  <2>3. CASE turn[t].at \in {"idle", "awaiting"}
    <3>1. run[t].link = 0 /\ run[t].made = 0 /\ turn[t].got = <<>> /\ \A c \in Links : Sent(c, t) = {} /\ c # 0
      BY <2>3, BridgeAssumption DEF AskedOnce, RunsHeld, Unasked, Links
    <3>2. Len(turn'[t].got) = 0
      BY <3>1, EmptySeq
    <3> QED BY <2>1, <3>1, <3>2 DEF InFlight, Flow
  <2> QED BY <2>2, <2>3
<1>8. OwnFrames'
  BY DEF OwnFrames
<1>9. Counted'
  <2>1. {c \in Links : link'[c].server = "open"} = {c \in Links : link[c].server = "open"}
    OBVIOUS
  <2> QED BY <2>1 DEF Counted
<1> QED BY <1>1, <1>4, <1>5, <1>6, <1>7, <1>8, <1>9

(* A page that only opens, closes or counts.                               *)
LEMMA PageRests ==
    ASSUME BridgeInv, NEW u \in Page, PageIs(u), UNCHANGED <<run, bridge>>,
           \A c \in Links : SameWs(link[c], u.link[c]),
           \A t \in Turns : /\ u.turn[t].got = turn[t].got
                            /\ u.turn[t].at \in {turn[t].at, "ended"}
                            /\ u.turn[t].listed => turn[t].listed /\ u.turn[t].at = turn[t].at,
           \A c \in Links : \A t \in link[c].waits : u.turn[t].at = turn[t].at
    PROVE  BridgeInv'
<1>1. /\ conn' \in ConnectionState /\ turn' \in [Turns -> Turn] /\ link' \in [Links -> Link]
      /\ conn' = u.conn /\ turn' = u.turn /\ link' = u.link
  BY DEF PageIs, Page
<1>2. \A c \in Links : link'[c].server = link[c].server /\ link'[c].asks = link[c].asks
                       /\ link'[c].down = link[c].down /\ link'[c].waits = link[c].waits
  BY <1>1 DEF SameWs
<1>3. AskedOnce
  BY DEF BridgeInv
<1>4. \A c \in Links : link[c].waits \subseteq Turns
  BY DEF BridgeInv, BridgeType, Link
<1>5. \A c \in Links : \A t \in link'[c].waits : turn'[t].at = "awaiting" /\ t \in link[c].waits
  BY <1>1, <1>2, <1>3, <1>4 DEF AskedOnce
<1>6. \A t \in Turns : turn'[t].listed => turn'[t].at \in {"awaiting", "reading"} /\ turn[t].listed
  BY <1>1, <1>3 DEF AskedOnce
<1>7. \A t \in Turns : /\ turn'[t].got = turn[t].got
                       /\ turn'[t].at \in {"idle", "awaiting"} => turn[t].at \in {"idle", "awaiting"}
  BY <1>1
<1> QED BY <1>1, <1>2, <1>5, <1>6, <1>7, PageKeeps

LEMMA AskKeeps ==
    ASSUME BridgeInv, NEW t \in Turns, Ask(t)
    PROVE  BridgeInv'
<1> DEFINE x == [turn[t] EXCEPT !.listed = TRUE]
           s0 == [S EXCEPT !.turn[t].listed = TRUE]
           s == ensureOpen(s0, AnyFree)
<1>1. S \in Page /\ S.conn = conn /\ S.turn = turn /\ S.link = link /\ turn[t] \in Turn
  BY PageIsPage DEF BridgeInv, BridgeType
<1>2. x \in Turn /\ x.at = turn[t].at /\ x.got = turn[t].got /\ x.listed /\ x.left = turn[t].left
  BY <1>1 DEF Turn
<1>3. s0 = [S EXCEPT !.turn = [turn EXCEPT ![t] = x]]
  BY <1>1
<1> HIDE DEF x, s0
<1>4. /\ s0 \in Page /\ s0.conn = conn /\ s0.link = link /\ s0.turn = [turn EXCEPT ![t] = x]
      /\ \A d \in Turns : s0.turn[d] = IF d = t THEN x ELSE turn[d]
  BY <1>1, <1>2, <1>3 DEF Page
<1>5. /\ s \in Page /\ s.turn = s0.turn
      /\ \A d \in Links : SameWs(link[d], s.link[d])
  <2>1. CASE conn.socket = 0
    BY <1>4, <2>1, FreeLink, OpenProperties DEF ensureOpen, Ask
  <2>2. CASE conn.socket # 0
    BY <1>4, <2>2 DEF ensureOpen, SameWs
  <2> QED BY <2>1, <2>2
<1>6. /\ turn[t].at = "idle" /\ UNCHANGED <<run, bridge>>
      /\ PageIs(IF s.conn.connected \/ s.conn.resolved THEN goesOn(s, {t})
                ELSE [s EXCEPT !.turn[t].at = "awaiting", !.link[s.conn.opened].waits = @ \cup {t}])
  BY DEF Ask, s0
<1> HIDE DEF s
<1>7. CASE s.conn.connected \/ s.conn.resolved
  <2> DEFINE u == goesOn(s, {t})
  <2>1. /\ conn' = u.conn /\ turn' = u.turn /\ link' = u.link
    BY <1>6, <1>7 DEF PageIs
  <2>2. /\ u \in Page
        /\ \A d \in Turns : /\ u.turn[d].got = s.turn[d].got
                            /\ d # t => u.turn[d] = s.turn[d]
                            /\ d = t => u.turn[d].at \in {"reading", "ended"}
                            /\ u.turn[d].listed => s.turn[d].listed /\ (d = t => u.turn[d].at = "reading")
        /\ \A d \in Links : /\ u.link[d].server = s.link[d].server
                            /\ u.link[d].down = s.link[d].down
                            /\ u.link[d].waits = s.link[d].waits
                            /\ \A e \in u.link[d].asks : e \in s.link[d].asks \/ (e = t /\ d = s.conn.socket)
    BY <1>5, GoesOnProperties
  <2> HIDE DEF u
  <2>3. conn' \in ConnectionState /\ turn' \in [Turns -> Turn] /\ link' \in [Links -> Link]
    BY <2>1, <2>2 DEF Page
  <2>4. \A d \in Turns : /\ turn'[d].got = turn[d].got
                         /\ d # t => turn'[d] = turn[d]
                         /\ d = t => turn'[d].at \in {"reading", "ended"}
                         /\ turn'[d].listed => turn[d].listed \/ (d = t /\ turn'[d].at = "reading")
    BY <1>2, <1>4, <1>5, <2>1, <2>2
  <2>5. \A d \in Links : /\ link'[d].server = link[d].server
                         /\ link'[d].down = link[d].down
                         /\ link'[d].waits = link[d].waits
                         /\ \A e \in link'[d].asks : e \in link[d].asks \/ (e = t /\ d = s.conn.socket)
    BY <1>5, <2>1, <2>2 DEF SameWs
  <2>6. AskedOnce /\ \A c \in Links : link[c].waits \subseteq Turns
    BY DEF BridgeInv, BridgeType, Link
  <2>7. \A c \in Links : \A e \in link'[c].waits : turn'[e].at = "awaiting" /\ e \in link[c].waits
    BY <1>6, <2>4, <2>5, <2>6 DEF AskedOnce
  <2>8. \A d \in Turns :
           /\ turn'[d].at \in {"idle", "awaiting"} => turn[d].at \in {"idle", "awaiting"}
           /\ turn'[d].listed => turn'[d].at \in {"awaiting", "reading"}
                                 /\ (turn[d].listed \/ turn[d].at \in {"idle", "awaiting"})
    BY <1>6, <2>4, <2>6 DEF AskedOnce
  <2>9. \A c \in Links : \A e \in link'[c].asks :
            \/ e \in link[c].asks
            \/ c = s.conn.socket /\ turn[e].at \in {"idle", "awaiting"} /\ turn'[e].at \notin {"idle", "awaiting"}
    BY <1>6, <2>4, <2>5
  <2>11. \A c \in Links :
            /\ link'[c].server = "open" <=> link[c].server = "open"
            /\ link'[c].down = link[c].down
            /\ \A e \in link'[c].asks :
                   \/ e \in link[c].asks
                   \/ turn[e].at \in {"idle", "awaiting"} /\ turn'[e].at \notin {"idle", "awaiting"}
    BY <2>5, <2>9
  <2>12. \A d \in Turns : turn'[d].got = turn[d].got
    BY <2>4
  <2>13. UNCHANGED <<run, bridge>>
    BY <1>6
  <2>14. \A c, d \in Links :
             \A e \in link'[c].asks : e \notin link[c].asks /\ e \in link'[d].asks => e \in link[d].asks \/ c = d
    BY <2>5
  <2> QED BY ONLY BridgeInv, <2>3, <2>7, <2>8, <2>11, <2>12, <2>13, <2>14, PageKeeps
<1>8. CASE ~ (s.conn.connected \/ s.conn.resolved)
  <2> DEFINE o == s.conn.opened
             y == [s.turn[t] EXCEPT !.at = "awaiting"]
             l == [s.link[o] EXCEPT !.waits = @ \cup {t}]
             u == [s EXCEPT !.turn[t].at = "awaiting", !.link[o].waits = @ \cup {t}]
  <2>1. /\ conn' = u.conn /\ turn' = u.turn /\ link' = u.link
    BY <1>6, <1>8 DEF PageIs
  <2>2. u.conn = s.conn /\ u.turn = [s.turn EXCEPT ![t] = y] /\ u.link = [s.link EXCEPT ![o] = l]
    BY <1>5 DEF Page
  <2>3. y \in Turn /\ y.at = "awaiting" /\ y.got = turn[t].got
    BY <1>2, <1>4, <1>5 DEF Turn
  <2>4. o \in Links => /\ l \in Link /\ l.server = s.link[o].server /\ l.down = s.link[o].down
                       /\ l.asks = s.link[o].asks /\ l.waits = s.link[o].waits \cup {t}
    <3>1. \A m \in Link : LET w == [m EXCEPT !.waits = @ \cup {t}]
                         IN  /\ w \in Link /\ w.server = m.server /\ w.down = m.down
                             /\ w.asks = m.asks /\ w.waits = m.waits \cup {t}
      BY DEF Link
    <3>2. s.link \in [Links -> Link]
      BY <1>5 DEF Page
    <3> QED BY <3>1, <3>2
  <2> HIDE DEF u, y, l
  <2>5. conn' \in ConnectionState /\ turn' \in [Turns -> Turn] /\ link' \in [Links -> Link]
    BY <1>5, <2>1, <2>2, <2>3, <2>4 DEF Page
  <2>6. \A d \in Turns : turn'[d] = IF d = t THEN y ELSE turn[d]
    BY <1>4, <1>5, <2>1, <2>2 DEF Page
  <2>7. \A d \in Links : /\ link'[d].server = link[d].server
                         /\ link'[d].down = link[d].down
                         /\ link'[d].asks = link[d].asks
                         /\ \A e \in link'[d].waits : e \in link[d].waits \/ (e = t /\ d = o)
    <3>1. \A d \in Links : link'[d] = IF d = o THEN l ELSE s.link[d]
      BY <1>5, <2>1, <2>2 DEF Page
    <3> QED BY <1>5, <2>4, <3>1 DEF SameWs
  <2>8. AskedOnce /\ \A c \in Links : link[c].waits \subseteq Turns
    BY DEF BridgeInv, BridgeType, Link
  <2>9. \A c \in Links : \A e \in link'[c].waits :
            turn'[e].at = "awaiting" /\ (e \in link[c].waits \/ (c = o /\ turn[e].at = "idle"))
    BY <1>6, <2>3, <2>6, <2>7, <2>8 DEF AskedOnce
  <2>10. \A d \in Turns :
           /\ turn'[d].got = turn[d].got
           /\ turn'[d].at \in {"idle", "awaiting"} => turn[d].at \in {"idle", "awaiting"}
           /\ turn'[d].listed => turn'[d].at \in {"awaiting", "reading"}
                                 /\ (turn[d].listed \/ turn[d].at \in {"idle", "awaiting"})
    BY <1>6, <2>3, <2>6, <2>8 DEF AskedOnce
  <2>12. \A c \in Links :
            /\ link'[c].server = "open" <=> link[c].server = "open"
            /\ link'[c].down = link[c].down
            /\ \A e \in link'[c].asks : e \in link[c].asks
            /\ \A e \in link'[c].waits :
                   turn'[e].at = "awaiting" /\ (e \in link[c].waits \/ turn[e].at = "idle")
    BY <2>7, <2>9
  <2>13. UNCHANGED <<run, bridge>>
    BY <1>6
  <2>14. \A c, d \in Links :
             \A e \in link'[c].waits : e \notin link[c].waits /\ e \in link'[d].waits => e \in link[d].waits \/ c = d
    BY <2>7
  <2> QED BY ONLY BridgeInv, <2>5, <2>10, <2>12, <2>13, <2>14, PageKeeps
<1> QED BY <1>7, <1>8

LEMMA ReadersKeep ==
    ASSUME BridgeInv, Watch \/ Unwatch \/ Reconnects \/ \E t \in Turns : StopsReading(t)
    PROVE  BridgeInv'
<1>1. S \in Page /\ S.conn = conn /\ S.turn = turn /\ S.link = link
  BY PageIsPage DEF BridgeInv
<1>2. CASE Watch
  <2> DEFINE s == [S EXCEPT !.conn.watched = TRUE]
             u == ensureOpen(s, AnyFree)
  <2>1. s \in Page /\ s.turn = turn /\ s.link = link /\ s.conn.socket = conn.socket
    BY <1>1 DEF Page, ConnectionState
  <2>2. PageIs(u) /\ UNCHANGED <<run, bridge>> /\ (conn.socket = 0 => FreeLinks # {})
    BY <1>2 DEF Watch
  <2> HIDE DEF s
  <2>3. u \in Page /\ u.turn = turn /\ \A d \in Links : SameWs(link[d], u.link[d])
    <3>1. CASE conn.socket = 0
      BY <2>1, <2>2, <3>1, FreeLink, OpenProperties DEF ensureOpen
    <3>2. CASE conn.socket # 0
      BY <2>1, <3>2 DEF ensureOpen, SameWs
    <3> QED BY <3>1, <3>2
  <2> HIDE DEF u
  <2> QED BY <2>2, <2>3, PageRests
<1>3. CASE Unwatch
  <2> DEFINE s == [S EXCEPT !.conn.watched = FALSE]
             u == closeIfIdle(s)
  <2>1. s \in Page /\ s.turn = turn /\ s.link = link
    BY <1>1 DEF Page, ConnectionState
  <2>2. PageIs(u) /\ UNCHANGED <<run, bridge>>
    BY <1>3 DEF Unwatch
  <2> HIDE DEF s
  <2>3. u \in Page /\ u.turn = turn /\ \A d \in Links : SameWs(link[d], u.link[d])
    BY <2>1, IdleProperties
  <2> HIDE DEF u
  <2> QED BY <2>2, <2>3, PageRests
<1>4. CASE Reconnects
  <2> DEFINE s == [S EXCEPT !.conn.retries = @ - 1]
             u == IF conn.watched THEN open(s, AnyFree) ELSE s
  <2>1. s \in Page /\ s.turn = turn /\ s.link = link
    <3>1. conn.retries - 1 \in 0 .. MaxLinks
      BY <1>1, <1>4, BridgeAssumption DEF Reconnects, Page, ConnectionState
    <3> QED BY <1>1, <3>1 DEF Page, ConnectionState
  <2>2. PageIs(u) /\ UNCHANGED <<run, bridge>> /\ (conn.watched => FreeLinks # {})
    BY <1>4 DEF Reconnects
  <2> HIDE DEF s
  <2>3. u \in Page /\ u.turn = turn /\ \A d \in Links : SameWs(link[d], u.link[d])
    <3>1. CASE conn.watched
      BY <2>1, <2>2, <3>1, FreeLink, OpenProperties
    <3>2. CASE ~ conn.watched
      BY <2>1, <3>2 DEF SameWs
    <3> QED BY <3>1, <3>2
  <2> HIDE DEF u
  <2> QED BY <2>2, <2>3, PageRests
<1>5. ASSUME NEW t \in Turns, StopsReading(t)
      PROVE  BridgeInv'
  <2> DEFINE x == [turn[t] EXCEPT !.left = TRUE]
             u == [S EXCEPT !.turn = [turn EXCEPT ![t] = x]]
  <2>1. x \in Turn /\ x.at = turn[t].at /\ x.got = turn[t].got /\ x.listed = turn[t].listed
    BY <1>1 DEF Page, Turn
  <2>2. turn' = [turn EXCEPT ![t] = x] /\ UNCHANGED <<conn, link, run, bridge>>
    BY <1>5 DEF StopsReading
  <2> HIDE DEF x
  <2>3. u \in Page /\ u.conn = conn /\ u.link = link /\ u.turn = [turn EXCEPT ![t] = x]
    BY <1>1, <2>1 DEF Page
  <2> HIDE DEF u
  <2>4. \A d \in Turns : u.turn[d] = IF d = t THEN x ELSE turn[d]
    BY <1>1, <2>3 DEF Page
  <2>5. PageIs(u) /\ \A d \in Links : SameWs(link[d], u.link[d])
    BY <2>2, <2>3 DEF PageIs, SameWs
  <2>6. \A c \in Links : link[c].waits \subseteq Turns
    BY DEF BridgeInv, BridgeType, Link
  <2> QED BY <2>1, <2>2, <2>3, <2>4, <2>5, <2>6, PageRests
<1> QED BY <1>2, <1>3, <1>4, <1>5

LEMMA OpenedKeeps ==
    ASSUME BridgeInv, NEW c \in Links, Opened(c)
    PROVE  BridgeInv'
<1> DEFINE T == link[c].waits
           l == [link[c] EXCEPT !.client = "open", !.waits = {}]
           k == [conn EXCEPT !.connected = TRUE, !.resolved = IF conn.opened = c THEN TRUE ELSE conn.resolved]
           s == [S EXCEPT !.conn = k, !.link[c] = l]
           u == goesOn(s, T)
<1>1. S \in Page /\ S.conn = conn /\ S.turn = turn /\ S.link = link /\ link[c] \in Link
      /\ conn \in ConnectionState /\ link \in [Links -> Link]
  BY PageIsPage DEF BridgeInv, BridgeType
<1>2. l \in Link /\ l.server = link[c].server /\ l.asks = link[c].asks /\ l.down = link[c].down /\ l.waits = {}
  BY <1>1 DEF Link
<1>3. k \in ConnectionState
  BY <1>1 DEF ConnectionState
<1>4. s = [S EXCEPT !.conn = k, !.link = [link EXCEPT ![c] = l]]
  <2> HIDE DEF k, l
  <2> QED BY <1>1
<1>5. T \subseteq Turns /\ conn' = u.conn /\ turn' = u.turn /\ link' = u.link /\ UNCHANGED <<run, bridge>>
  BY <1>1 DEF Opened, PageIs, Link
<1> HIDE DEF k, s
<1>6. s \in Page /\ s.turn = turn /\ \A d \in Links : s.link[d] = IF d = c THEN l ELSE link[d]
  <2> HIDE DEF l
  <2> QED BY <1>1, <1>2, <1>3, <1>4 DEF Page
<1> HIDE DEF l
<1>7. /\ u \in Page
      /\ \A t \in Turns : /\ u.turn[t].got = s.turn[t].got
                          /\ t \notin T => u.turn[t] = s.turn[t]
                          /\ t \in T => u.turn[t].at \in {"reading", "ended"}
                          /\ u.turn[t].listed => s.turn[t].listed /\ (t \in T => u.turn[t].at = "reading")
      /\ \A d \in Links : /\ u.link[d].server = s.link[d].server
                          /\ u.link[d].down = s.link[d].down
                          /\ u.link[d].waits = s.link[d].waits
                          /\ \A t \in u.link[d].asks : t \in s.link[d].asks \/ (t \in T /\ d = s.conn.socket)
  BY <1>5, <1>6, GoesOnProperties
<1> HIDE DEF u
<1>8. AskedOnce /\ OnOneLink /\ \A d \in Links : link[d].waits \subseteq Turns
  BY DEF BridgeInv, BridgeType, Link
<1>9. \A t \in T : turn[t].at = "awaiting" /\ \A d \in Links : t \in link[d].waits => d = c
  BY <1>5, <1>8 DEF AskedOnce, OnOneLink
<1> HIDE DEF T
<1>10. conn' \in ConnectionState /\ turn' \in [Turns -> Turn] /\ link' \in [Links -> Link]
  BY <1>5, <1>7 DEF Page
<1>11. \A d \in Links : /\ link'[d].server = link[d].server
                        /\ link'[d].down = link[d].down
                        /\ link'[d].waits = IF d = c THEN {} ELSE link[d].waits
                        /\ \A t \in link'[d].asks : t \in link[d].asks \/ (t \in T /\ d = s.conn.socket)
  <2> SUFFICES ASSUME NEW d \in Links
               PROVE  /\ link'[d].server = link[d].server
                      /\ link'[d].down = link[d].down
                      /\ link'[d].waits = IF d = c THEN {} ELSE link[d].waits
                      /\ \A t \in link'[d].asks : t \in link[d].asks \/ (t \in T /\ d = s.conn.socket)
    OBVIOUS
  <2>1. link'[d] = u.link[d] /\ s.link[d] = IF d = c THEN l ELSE link[d]
    BY <1>5, <1>6
  <2>2. /\ s.link[d].server = link[d].server /\ s.link[d].asks = link[d].asks
        /\ s.link[d].down = link[d].down /\ s.link[d].waits = IF d = c THEN {} ELSE link[d].waits
    BY <1>2, <2>1
  <2> QED BY <1>7, <2>1, <2>2
<1>12. \A t \in Turns : /\ turn'[t].got = turn[t].got
                        /\ t \notin T => turn'[t] = turn[t]
                        /\ t \in T => turn'[t].at \in {"reading", "ended"}
                        /\ turn'[t].listed => turn[t].listed /\ (t \in T => turn'[t].at = "reading")
  BY <1>5, <1>6, <1>7
<1>13. \A d \in Links :
          /\ link'[d].server = "open" <=> link[d].server = "open"
          /\ link'[d].down = link[d].down
          /\ \A t \in link'[d].asks :
                 \/ t \in link[d].asks
                 \/ turn[t].at \in {"idle", "awaiting"} /\ turn'[t].at \notin {"idle", "awaiting"}
  BY <1>5, <1>9, <1>11, <1>12
<1>14. \A d \in Links : \A t \in link'[d].waits : turn'[t].at = "awaiting" /\ t \in link[d].waits
  <2> SUFFICES ASSUME NEW d \in Links, NEW t \in link'[d].waits
               PROVE  turn'[t].at = "awaiting" /\ t \in link[d].waits
    OBVIOUS
  <2>1. d # c /\ t \in link[d].waits /\ t \in Turns
    BY <1>8, <1>11
  <2>2. t \notin T
    BY <1>9, <2>1
  <2>3. turn[t].at = "awaiting"
    BY <1>8, <2>1 DEF AskedOnce
  <2> QED BY <1>12, <2>1, <2>2, <2>3
<1>15. \A d, e \in Links : \A t \in link'[d].asks :
           t \notin link[d].asks /\ t \in link'[e].asks => t \in link[e].asks \/ d = e
  BY <1>11
<1>16. \A t \in Turns :
          /\ turn'[t].at \in {"idle", "awaiting"} => turn[t].at \in {"idle", "awaiting"}
          /\ turn'[t].listed => turn'[t].at \in {"awaiting", "reading"} /\ turn[t].listed
  BY <1>8, <1>12 DEF AskedOnce
<1> QED BY <1>5, <1>10, <1>12, <1>13, <1>14, <1>15, <1>16, PageKeeps

LEMMA ClosedKeeps ==
    ASSUME BridgeInv, NEW c \in Links, Closed(c)
    PROVE  BridgeInv'
<1> DEFINE f == [t \in Turns |-> [turn[t] EXCEPT !.listed = FALSE]]
           k == [conn EXCEPT !.connected = FALSE,
                             !.retries = IF conn.watched THEN conn.retries + 1 ELSE conn.retries]
           s == [Forgot(c) EXCEPT !.turn = f]
           T == {t \in inflight(S) : turn[t].at = "reading"}
           u == ends(s, T)
<1>1. S \in Page /\ S.conn = conn /\ S.turn = turn /\ S.link = link /\ conn \in ConnectionState
      /\ turn \in [Turns -> Turn] /\ link \in [Links -> Link]
  BY PageIsPage DEF BridgeInv, BridgeType
<1>2. NoLink \in Link /\ NoLink.server = "none" /\ NoLink.asks = {} /\ NoLink.down = <<>> /\ NoLink.waits = {}
  BY BridgeAssumption DEF NoLink, Link
<1>3. f \in [Turns -> Turn] /\ \A t \in Turns : f[t].at = turn[t].at /\ f[t].got = turn[t].got /\ ~ f[t].listed
  BY <1>1 DEF Turn
<1>4. conn.retries < MaxLinks /\ link[c].server # "open"
  BY <1>1 DEF Closed, Gone, Link
<1>5. k \in ConnectionState
  <2>1. conn.retries \in 0 .. MaxLinks /\ conn.retries + 1 \in 0 .. MaxLinks
    BY <1>1, <1>4, BridgeAssumption DEF ConnectionState
  <2> QED BY <1>1, <2>1 DEF ConnectionState
<1>6. s = [S EXCEPT !.conn = k, !.turn = f, !.link = [link EXCEPT ![c] = NoLink]]
  BY <1>1 DEF Forgot, Page, ConnectionState
<1>7. T \subseteq Turns /\ conn' = u.conn /\ turn' = u.turn /\ link' = u.link /\ UNCHANGED <<run, bridge>>
      /\ \A t \in T : turn[t].at = "reading"
  BY DEF Closed, PageIs, inflight
<1> HIDE DEF f, k, s, T
<1>8. s \in Page /\ s.turn = f /\ \A d \in Links : s.link[d] = IF d = c THEN NoLink ELSE link[d]
  BY <1>1, <1>2, <1>3, <1>5, <1>6 DEF Page
<1>9. /\ u \in Page
      /\ \A t \in Turns : /\ u.turn[t].got = s.turn[t].got
                          /\ t \notin T => u.turn[t] = s.turn[t]
                          /\ t \in T => u.turn[t].at = "ended" /\ ~ u.turn[t].listed
      /\ \A d \in Links : SameWs(s.link[d], u.link[d])
  BY <1>7, <1>8, EndsProperties
<1> HIDE DEF u
<1>10. conn' \in ConnectionState /\ turn' \in [Turns -> Turn] /\ link' \in [Links -> Link]
  BY <1>7, <1>9 DEF Page
<1>11. \A t \in Turns : /\ turn'[t].got = turn[t].got /\ ~ turn'[t].listed
                        /\ turn'[t].at = IF t \in T THEN "ended" ELSE turn[t].at
  BY <1>3, <1>7, <1>8, <1>9
<1>12. \A d \in Links : /\ link'[d].server = "open" <=> link[d].server = "open"
                        /\ link'[d].down \in {link[d].down, <<>>}
                        /\ link'[d].asks \subseteq link[d].asks
                        /\ link'[d].waits \subseteq link[d].waits
  BY <1>2, <1>4, <1>7, <1>8, <1>9 DEF SameWs
<1>13. AskedOnce /\ \A d \in Links : link[d].waits \subseteq Turns
  BY DEF BridgeInv, BridgeType, Link
<1>14. \A d \in Links : \A t \in link'[d].waits : turn'[t].at = "awaiting" /\ t \in link[d].waits
  BY <1>7, <1>11, <1>12, <1>13 DEF AskedOnce
<1> QED BY <1>7, <1>10, <1>11, <1>12, <1>14, PageKeeps

LEMMA LeavesKeeps ==
    ASSUME BridgeInv, Leaves
    PROVE  BridgeInv'
<1>1. turn \in [Turns -> Turn] /\ link \in [Links -> Link] /\ AskedOnce
  BY DEF BridgeInv, BridgeType
<1>2. NoLink \in Link /\ NoLink.server = "none" /\ NoLink.asks = {} /\ NoLink.down = <<>> /\ NoLink.waits = {}
  BY BridgeAssumption DEF NoLink, Link
<1>3. conn' \in ConnectionState /\ UNCHANGED <<run, bridge>>
  <2>1. 0 \in 0 .. MaxLinks
    BY BridgeAssumption
  <2>2. NoConnection \in ConnectionState
    BY <2>1 DEF NoConnection, ConnectionState
  <2> QED BY <2>2 DEF Leaves
<1>4. \A t \in Turns : /\ turn'[t] \in Turn /\ turn'[t].got = turn[t].got /\ ~ turn'[t].listed
                       /\ turn'[t].at \in {"idle", "awaiting"} => turn[t].at \in {"idle", "awaiting"}
  <2> SUFFICES ASSUME NEW t \in Turns
               PROVE  /\ turn'[t] \in Turn /\ turn'[t].got = turn[t].got /\ ~ turn'[t].listed
                      /\ turn'[t].at \in {"idle", "awaiting"} => turn[t].at \in {"idle", "awaiting"}
    OBVIOUS
  <2> DEFINE x == [turn[t] EXCEPT !.at = "ended", !.listed = FALSE]
  <2>1. turn[t] \in Turn /\ x \in Turn /\ x.got = turn[t].got /\ ~ x.listed /\ x.at = "ended"
    BY <1>1 DEF Turn
  <2>2. turn'[t] = IF turn[t].at = "idle" THEN turn[t] ELSE x
    BY DEF Leaves
  <2> HIDE DEF x
  <2>3. turn[t].at = "idle" => ~ turn[t].listed
    BY <1>1 DEF AskedOnce
  <2> QED BY <2>1, <2>2, <2>3
<1>5. \A c \in Links : /\ link'[c] \in Link /\ link'[c].down = <<>> /\ link'[c].waits = {}
                       /\ link'[c].asks \subseteq link[c].asks
                       /\ link'[c].server = "open" <=> link[c].server = "open"
  <2> SUFFICES ASSUME NEW c \in Links
               PROVE  /\ link'[c] \in Link /\ link'[c].down = <<>> /\ link'[c].waits = {}
                      /\ link'[c].asks \subseteq link[c].asks
                      /\ link'[c].server = "open" <=> link[c].server = "open"
    OBVIOUS
  <2> DEFINE l == [link[c] EXCEPT !.client = "left", !.down = <<>>, !.waits = {}]
  <2>1. l \in Link /\ l.down = <<>> /\ l.waits = {} /\ l.asks = link[c].asks /\ l.server = link[c].server
    <3>1. <<>> \in Seq(BridgeFrame) /\ link[c] \in Link
      BY <1>1
    <3> QED BY <3>1 DEF Link
  <2>2. link'[c] = IF link[c].server = "open" THEN l ELSE NoLink
    BY DEF Leaves
  <2> HIDE DEF l
  <2> QED BY <1>2, <2>1, <2>2
<1>6. turn' \in [Turns -> Turn] /\ link' \in [Links -> Link]
  <2>1. turn' = [t \in Turns |-> turn'[t]] /\ link' = [c \in Links |-> link'[c]]
    BY DEF Leaves
  <2> QED BY <1>4, <1>5, <2>1
<1> QED BY <1>3, <1>4, <1>5, <1>6, PageKeeps

LEMMA FrameTaken ==
    ASSUME NEW q \in Seq(BridgeFrame), q # <<>>
    PROVE  /\ Head(q) = q[1] /\ Head(q) \in BridgeFrame /\ 1 \in DOMAIN q /\ Len(q) \in Nat
           /\ Tail(q) \in Seq(BridgeFrame) /\ Len(Tail(q)) = Len(q) - 1
           /\ \A i \in 1 .. Len(q) - 1 : Tail(q)[i] = q[i + 1]
<1>1. Len(q) \in Nat /\ Len(q) # 0 /\ DOMAIN q = 1 .. Len(q) /\ Head(q) = q[1]
  BY LenProperties, EmptySeq
<1> QED BY <1>1, HeadTailProperties

(* The page holds what it held, or has let go of its ws.                   *)
Idled(s, u) ==
    \/ u.conn = s.conn /\ \A d \in Links : u.link[d].client = s.link[d].client
    \/ /\ ~ s.conn.watched /\ s.conn.socket \in Links /\ s.conn.socket # 0
       /\ u.conn = [s.conn EXCEPT !.socket = 0]
       /\ \A d \in Links : u.link[d].client =
              IF d = s.conn.socket /\ s.link[s.conn.socket].client # "none" THEN "closing"
              ELSE s.link[d].client

LEMMA IdleIdles == ASSUME NEW s \in Page PROVE Idled(s, closeIfIdle(s))
<1> DEFINE v == closeIfIdle(s)
<1>1. \/ v = s
      \/ /\ ~ s.conn.watched /\ s.conn.socket \in Links /\ s.conn.socket # 0
         /\ v.conn = [s.conn EXCEPT !.socket = 0]
         /\ \A d \in Links : v.link[d].client =
                IF d = s.conn.socket /\ s.link[s.conn.socket].client # "none" THEN "closing"
                ELSE s.link[d].client
  BY ONLY s \in Page, IdleProperties
<1> HIDE DEF v
<1>2. Idled(s, v)
  BY <1>1 DEF Idled
<1> QED BY <1>2 DEF v

LEMMA EndsIdles == ASSUME NEW s \in Page, NEW T \in SUBSET Turns PROVE Idled(s, ends(s, T))
<1> DEFINE v == ends(s, T)
<1>1. \/ v.conn = s.conn /\ v.link = s.link
      \/ /\ ~ s.conn.watched /\ s.conn.socket \in Links /\ s.conn.socket # 0
         /\ v.conn = [s.conn EXCEPT !.socket = 0]
         /\ \A d \in Links : v.link[d].client =
                IF d = s.conn.socket /\ s.link[s.conn.socket].client # "none" THEN "closing"
                ELSE s.link[d].client
  BY ONLY s \in Page, T \in SUBSET Turns, EndsProperties
<1> HIDE DEF v
<1>2. Idled(s, v)
  BY <1>1 DEF Idled
<1> QED BY <1>2 DEF v

LEMMA HearsProperties ==
    ASSUME NEW s \in Page, NEW f \in BridgeFrame, NEW T \in SUBSET Turns
    PROVE  LET u == hears(s, f, T)
           IN  /\ u \in Page
               /\ \A t \in Turns :
                      /\ t \notin T => u.turn[t] = s.turn[t]
                      /\ t \in T => u.turn[t].got = Append(s.turn[t].got, f)
                      /\ u.turn[t].at \in {s.turn[t].at, "ended"}
                      /\ u.turn[t].listed => /\ s.turn[t].listed /\ u.turn[t].at = s.turn[t].at
                                             /\ t \in T => f.n # LastFrame
               /\ \A d \in Links : SameWs(s.link[d], u.link[d])
               /\ Idled(s, u)
<1> DEFINE g == [t \in Turns |-> IF t \in T THEN [s.turn[t] EXCEPT !.got = Append(@, f)] ELSE s.turn[t]]
           m == [s EXCEPT !.turn = g]
           E == {t \in T : f.n = LastFrame \/ s.turn[t].left}
           u == hears(s, f, T)
<1>1. u = ends(m, E) /\ E \in SUBSET Turns
  BY DEF hears
<1>2. /\ g \in [Turns -> Turn]
      /\ \A t \in Turns : /\ g[t].at = s.turn[t].at /\ g[t].listed = s.turn[t].listed
                          /\ t \notin T => g[t] = s.turn[t]
                          /\ t \in T => g[t].got = Append(s.turn[t].got, f)
  <2>1. \A t \in Turns : Append(s.turn[t].got, f) \in Seq(BridgeFrame)
    BY AppendProperties DEF Page, Turn
  <2>2. \A x \in Turn : \A g0 \in Seq(BridgeFrame) :
            LET y == [x EXCEPT !.got = g0]
            IN  y \in Turn /\ y.got = g0 /\ y.at = x.at /\ y.listed = x.listed
    BY DEF Turn
  <2>3. s.turn \in [Turns -> Turn]
    BY DEF Page
  <2> QED BY <2>1, <2>2, <2>3
<1>3. \A t \in T : t \notin E => f.n # LastFrame
  OBVIOUS
<1>4. E \subseteq T
  OBVIOUS
<1> HIDE DEF g, E, u
<1>5. m \in Page /\ m.turn = g /\ m.link = s.link /\ m.conn = s.conn
  BY <1>2 DEF Page
<1> HIDE DEF m
<1>6. /\ u \in Page
      /\ \A t \in Turns : /\ u.turn[t].got = m.turn[t].got
                          /\ t \notin E => u.turn[t] = m.turn[t]
                          /\ t \in E => u.turn[t].at = "ended" /\ ~ u.turn[t].listed
  <2>1. m \in Page /\ E \in SUBSET Turns /\ u = ends(m, E)
    BY <1>1, <1>5
  <2>2. u \in Page
    BY ONLY <2>1, EndsProperties
  <2> DEFINE v == ends(m, E)
  <2>3. \A t \in Turns : /\ v.turn[t].got = m.turn[t].got
                         /\ t \notin E => v.turn[t] = m.turn[t]
                         /\ t \in E => v.turn[t].at = "ended" /\ ~ v.turn[t].listed
    BY ONLY <2>1, EndsProperties
  <2> QED BY ONLY <2>1, <2>2, <2>3
<1>7. \A d \in Links : SameWs(m.link[d], u.link[d])
  <2>1. m \in Page /\ E \in SUBSET Turns /\ u = ends(m, E)
    BY <1>1, <1>5
  <2> QED BY ONLY <2>1, EndsProperties
<1>8. \A t \in Turns :
          /\ t \notin T => u.turn[t] = s.turn[t]
          /\ t \in T => u.turn[t].got = Append(s.turn[t].got, f)
          /\ u.turn[t].at \in {s.turn[t].at, "ended"}
          /\ u.turn[t].listed => /\ s.turn[t].listed /\ u.turn[t].at = s.turn[t].at
                                 /\ t \in T => f.n # LastFrame
  <2>1. m.turn = g
    BY <1>5
  <2>2. \A t \in Turns : /\ u.turn[t].got = g[t].got
                         /\ t \notin E => u.turn[t] = g[t]
                         /\ t \in E => u.turn[t].at = "ended" /\ ~ u.turn[t].listed
    BY ONLY <1>6, <2>1
  <2>3. \A t \in Turns : /\ t \notin T => u.turn[t] = s.turn[t]
                         /\ t \in T => u.turn[t].got = Append(s.turn[t].got, f)
    BY ONLY <1>2, <1>4, <2>2
  <2>4. \A t \in Turns :
            /\ u.turn[t].at \in {s.turn[t].at, "ended"}
            /\ u.turn[t].listed => /\ s.turn[t].listed /\ u.turn[t].at = s.turn[t].at
                                   /\ t \in T => f.n # LastFrame
    BY ONLY <1>2, <1>3, <2>2
  <2> QED BY <2>3, <2>4
<1>9. Idled(s, u)
  <2>1. Idled(m, u)
    BY <1>1, <1>5, EndsIdles
  <2> QED BY <1>5, <2>1 DEF Idled
<1> QED BY <1>5, <1>6, <1>7, <1>8, <1>9 DEF u

(* What hearing does, in the terms of the invariant.                       *)
LEMMA HearsMoves ==
    ASSUME BridgeInv, NEW c \in Links, Hears(c)
    PROVE  LET q == link[c].down
               f == Head(q)
               t == f.turn
           IN  /\ q \in Seq(BridgeFrame) /\ f = q[1] /\ f \in BridgeFrame /\ t \in Turns /\ 1 \in DOMAIN q
               /\ BridgeType' /\ UNCHANGED <<run, bridge>>
               /\ \A d \in Turns : /\ d # t \/ ~ turn[d].listed => turn'[d] = turn[d]
                                   /\ turn'[d].at \in {turn[d].at, "ended"}
                                   /\ turn'[d].listed => /\ turn[d].listed /\ turn'[d].at = turn[d].at
                                                         /\ d = t => f.n # LastFrame
               /\ turn[t].listed => turn'[t].got = Append(turn[t].got, f)
               /\ \A d \in Links : /\ link'[d].server = link[d].server /\ link'[d].asks = link[d].asks
                                   /\ link'[d].waits = link[d].waits
                                   /\ d # c => link'[d].down = link[d].down
               /\ link'[c].down \in Seq(BridgeFrame) /\ Len(link'[c].down) = Len(q) - 1
               /\ \A i \in 1 .. Len(q) - 1 : link'[c].down[i] = q[i + 1]
               /\ \E u \in Page : PageIs(u) /\ Idled(S, u)
<1> DEFINE q == link[c].down
           f == Head(q)
           t == f.turn
           l == [link[c] EXCEPT !.down = Tail(q)]
           s == [S EXCEPT !.link[c].down = Tail(@)]
           T == inflight(S) \cap {t}
           u == hears(s, f, T)
<1>1. S \in Page /\ S.conn = conn /\ S.turn = turn /\ S.link = link /\ link[c] \in Link
      /\ link \in [Links -> Link] /\ BridgeType
  BY PageIsPage DEF BridgeInv, BridgeType
<1>2. q \in Seq(BridgeFrame) /\ q # <<>>
  BY <1>1 DEF Hears, Link
<1>3. /\ f = q[1] /\ f \in BridgeFrame /\ t \in Turns /\ 1 \in DOMAIN q
      /\ Tail(q) \in Seq(BridgeFrame) /\ Len(Tail(q)) = Len(q) - 1
      /\ \A i \in 1 .. Len(q) - 1 : Tail(q)[i] = q[i + 1]
  <2>1. q[1] \in BridgeFrame => q[1].turn \in Turns
    BY DEF BridgeFrame
  <2> HIDE DEF q
  <2> QED BY <1>2, <2>1, FrameTaken
<1>4. T \in SUBSET Turns /\ \A d \in Turns : d \in T <=> d = t /\ turn[d].listed
  BY <1>1, <1>3 DEF inflight
<1>5. conn' = u.conn /\ turn' = u.turn /\ link' = u.link /\ UNCHANGED <<run, bridge>>
  BY DEF Hears, PageIs
<1> HIDE DEF f, t, T
<1>6. /\ l \in Link /\ l.server = link[c].server /\ l.asks = link[c].asks /\ l.waits = link[c].waits
      /\ l.down = Tail(q) /\ l.client = link[c].client
  BY <1>1, <1>3 DEF Link
<1>7. s = [S EXCEPT !.link = [link EXCEPT ![c] = l]]
  BY <1>1 DEF Page
<1> HIDE DEF s, l
<1>8. /\ s \in Page /\ s.conn = conn /\ s.turn = turn
      /\ \A d \in Links : s.link[d] = IF d = c THEN l ELSE link[d]
  BY <1>1, <1>6, <1>7 DEF Page
<1> HIDE DEF u
<1>9. /\ u \in Page
      /\ \A d \in Turns :
             /\ d \notin T => u.turn[d] = s.turn[d]
             /\ d \in T => u.turn[d].got = Append(s.turn[d].got, f)
             /\ u.turn[d].at \in {s.turn[d].at, "ended"}
             /\ u.turn[d].listed => /\ s.turn[d].listed /\ u.turn[d].at = s.turn[d].at
                                    /\ d \in T => f.n # LastFrame
      /\ \A d \in Links : SameWs(s.link[d], u.link[d])
      /\ Idled(s, u)
  <2>1. s \in Page /\ f \in BridgeFrame /\ T \in SUBSET Turns /\ u = hears(s, f, T)
    BY <1>3, <1>4, <1>8 DEF u
  <2> QED BY ONLY <2>1, HearsProperties
<1>10. BridgeType'
  BY <1>1, <1>5, <1>9 DEF BridgeType, Page
<1>11. /\ \A d \in Turns : /\ d # t \/ ~ turn[d].listed => turn'[d] = turn[d]
                           /\ turn'[d].at \in {turn[d].at, "ended"}
                           /\ turn'[d].listed => /\ turn[d].listed /\ turn'[d].at = turn[d].at
                                                 /\ d = t => f.n # LastFrame
       /\ turn[t].listed => turn'[t].got = Append(turn[t].got, f)
  BY <1>3, <1>4, <1>5, <1>8, <1>9
<1>12. \A d \in Links : /\ link'[d].server = link[d].server /\ link'[d].asks = link[d].asks
                        /\ link'[d].waits = link[d].waits
                        /\ link'[d].down = IF d = c THEN Tail(q) ELSE link[d].down
  BY <1>5, <1>6, <1>8, <1>9 DEF SameWs
<1>13. \E v \in Page : PageIs(v) /\ Idled(S, v)
  <2>1. \A d \in Links : s.link[d].client = link[d].client
    BY <1>6, <1>8
  <2>2. Idled(S, u)
    BY <1>1, <1>8, <1>9, <2>1 DEF Idled
  <2>3. PageIs(u)
    BY <1>5 DEF PageIs
  <2> QED BY <1>9, <2>2, <2>3
<1> QED BY <1>2, <1>3, <1>5, <1>10, <1>11, <1>12, <1>13 DEF f, t

(* A frame that is heard is the next one of its turn.                      *)
LEMMA HearsKeeps ==
    ASSUME BridgeInv, NEW c \in Links, Hears(c)
    PROVE  BridgeInv'
<1>1. PICK q \in Seq(BridgeFrame) : q = link[c].down
  BY HearsMoves
<1>2. PICK f \in BridgeFrame : f = Head(q)
  BY <1>1, HearsMoves
<1>3. PICK t \in Turns : t = f.turn
  BY <1>1, <1>2, HearsMoves
<1>4. /\ f = q[1] /\ 1 \in DOMAIN q /\ BridgeType' /\ UNCHANGED <<run, bridge>>
      /\ \A d \in Turns : /\ d # t \/ ~ turn[d].listed => turn'[d] = turn[d]
                          /\ turn'[d].at \in {turn[d].at, "ended"}
                          /\ turn'[d].listed => /\ turn[d].listed /\ turn'[d].at = turn[d].at
                                                /\ d = t => f.n # LastFrame
      /\ turn[t].listed => turn'[t].got = Append(turn[t].got, f)
  BY <1>1, <1>2, <1>3, HearsMoves
<1>5. /\ \A d \in Links : /\ link'[d].server = link[d].server /\ link'[d].asks = link[d].asks
                          /\ link'[d].waits = link[d].waits
                          /\ d # c => link'[d].down = link[d].down
      /\ link'[c].down \in Seq(BridgeFrame) /\ Len(link'[c].down) = Len(q) - 1
      /\ \A i \in 1 .. Len(q) - 1 : link'[c].down[i] = q[i + 1]
  BY <1>1, HearsMoves
<1>6. PICK p \in Seq(BridgeFrame) : p = link'[c].down
  BY <1>5
<1>7. PICK n \in Nat : /\ n = Len(q) /\ DOMAIN q = 1 .. n /\ DOMAIN p = 1 .. n - 1 /\ n >= 1
                       /\ \A i \in 1 .. n - 1 : p[i] = q[i + 1] /\ i + 1 \in 1 .. n
                       /\ \A i \in 1 .. n : i # 1 => i - 1 \in 1 .. n - 1 /\ p[i - 1] = q[i]
  <2>1. Len(q) \in Nat /\ DOMAIN q = 1 .. Len(q) /\ DOMAIN p = 1 .. Len(p) /\ Len(p) = Len(q) - 1
    BY <1>5, <1>6, LenProperties
  <2>2. \A i \in 1 .. Len(q) - 1 : p[i] = q[i + 1] /\ i + 1 \in 1 .. Len(q)
    <3> SUFFICES ASSUME NEW i \in 1 .. Len(q) - 1
                 PROVE  p[i] = q[i + 1] /\ i + 1 \in 1 .. Len(q)
      OBVIOUS
    <3>1. p[i] = q[i + 1]
      BY <1>5, <1>6
    <3>2. i + 1 \in 1 .. Len(q)
      BY <2>1
    <3> QED BY <3>1, <3>2
  <2>3. \A i \in 1 .. Len(q) : i # 1 => i - 1 \in 1 .. Len(q) - 1 /\ p[i - 1] = q[i]
    <3> SUFFICES ASSUME NEW i \in 1 .. Len(q), i # 1
                 PROVE  i - 1 \in 1 .. Len(q) - 1 /\ p[i - 1] = q[i]
      OBVIOUS
    <3>1. i - 1 \in 1 .. Len(q) - 1 /\ i - 1 + 1 = i
      BY <2>1
    <3> QED BY <2>2, <3>1
  <2> DEFINE n == Len(q)
  <2>4. n \in Nat /\ DOMAIN q = 1 .. n /\ DOMAIN p = 1 .. n - 1
    BY <2>1
  <2>5. n >= 1
    BY <1>4, <2>4
  <2> QED BY <2>2, <2>3, <2>4, <2>5
<1>8. /\ RunsHeld /\ OnOneLink /\ AskedOnce /\ Flows /\ OwnFrames /\ Counted
      /\ turn \in [Turns -> Turn] /\ run \in [Turns -> Run]
  BY DEF BridgeInv, BridgeType
<1>9. /\ \A d \in Turns : Sent(c, d)' = {i \in 1 .. n - 1 : q[i + 1].turn = d}
      /\ \A d \in Turns : Sent(c, d) = {i \in 1 .. n : q[i].turn = d}
      /\ \A b \in Links, d \in Turns : b # c => Sent(b, d)' = Sent(b, d)
  BY <1>1, <1>5, <1>6, <1>7 DEF Sent
<1>10. \A b \in Links, d \in Turns : Sent(b, d) = {} => Sent(b, d)' = {}
  <2>1. \A d \in Turns : {i \in 1 .. n : q[i].turn = d} = {} => {i \in 1 .. n - 1 : q[i + 1].turn = d} = {}
    BY <1>7
  <2> SUFFICES ASSUME NEW b \in Links, NEW d \in Turns, Sent(b, d) = {}
               PROVE  Sent(b, d)' = {}
    OBVIOUS
  <2>2. CASE b = c
    BY <1>9, <2>1, <2>2
  <2>3. CASE b # c
    BY <1>9, <2>3
  <2> QED BY <2>2, <2>3
<1>11. \A b \in Links, d \in Turns : Carries(b, d)' => Carries(b, d)
  BY <1>4, <1>5, <1>10 DEF Carries
<1>12. 1 \in Sent(c, t) /\ run[t].at # "none" /\ ~ Unasked(t)
  BY <1>3, <1>4, <1>7, <1>8, <1>9 DEF RunsHeld, AskedOnce
<1>13. RunsHeld'
  <2> SUFFICES ASSUME NEW d \in Turns
               PROVE  /\ run[d].at \notin {"finding", "running"} => run[d].link = 0
                      /\ run[d].link # 0 => link'[run[d].link].server = "open"
                      /\ run[d].at = "none" =>
                            run[d].made = 0 /\ turn'[d].got = <<>> /\ \A b \in Links : Sent(b, d)' = {}
    BY <1>4 DEF RunsHeld
  <2>1. run[d].link # 0 => run[d].link \in Links
    BY <1>8, BridgeAssumption DEF Run, Links
  <2>2. run[d].at = "none" => d # t
    BY <1>12
  <2>3. /\ run[d].at \notin {"finding", "running"} => run[d].link = 0
        /\ run[d].link # 0 => link[run[d].link].server = "open"
        /\ run[d].at = "none" =>
              run[d].made = 0 /\ turn[d].got = <<>> /\ \A b \in Links : Sent(b, d) = {}
    BY <1>8 DEF RunsHeld
  <2>4. run[d].link # 0 => link'[run[d].link].server = "open"
    BY <1>5, <2>1, <2>3
  <2>5. ASSUME run[d].at = "none"
        PROVE  turn'[d].got = <<>> /\ \A b \in Links : Sent(b, d)' = {}
    BY <1>4, <1>10, <2>2, <2>3, <2>5
  <2> QED BY <2>3, <2>4, <2>5
<1>14. OnOneLink'
  BY <1>5, <1>8, <1>11 DEF OnOneLink
<1>15. AskedOnce'
  <2> SUFFICES ASSUME NEW d \in Turns
               PROVE  /\ turn'[d].at \in {"idle", "awaiting"} => run[d].at = "none"
                      /\ turn'[d].listed => turn'[d].at \in {"awaiting", "reading"}
                      /\ \A b \in Links : /\ d \in link[b].asks => run[d].at = "none" /\ turn'[d].at \notin {"idle", "awaiting"}
                                          /\ d \in link[b].waits => turn'[d].at = "awaiting"
    BY <1>4, <1>5 DEF AskedOnce, Unasked
  <2>1. turn'[d].at \in {"idle", "awaiting"} => turn[d].at \in {"idle", "awaiting"}
    BY <1>4
  <2>2. turn[d].at = "awaiting" => turn'[d].at = "awaiting"
    BY <1>4, <1>12 DEF Unasked
  <2> QED BY <1>4, <1>8, <2>1, <2>2 DEF AskedOnce, Unasked
<1>16. ASSUME turn[t].listed
       PROVE  /\ Flow(c, t) /\ turn[t].got \in Seq(BridgeFrame) /\ Len(turn[t].got) \in Nat
              /\ \A i \in DOMAIN turn[t].got : turn[t].got[i].n = i
              /\ turn'[t].got \in Seq(BridgeFrame) /\ Len(turn'[t].got) = Len(turn[t].got) + 1
              /\ DOMAIN turn'[t].got = 1 .. Len(turn[t].got) + 1
              /\ DOMAIN turn[t].got = 1 .. Len(turn[t].got)
              /\ \A i \in DOMAIN turn[t].got : turn'[t].got[i] = turn[t].got[i]
              /\ turn'[t].got[Len(turn[t].got) + 1] = f
              /\ run[t].made \in Nat
              /\ f.n # LastFrame => f.n = Len(turn[t].got) + 1 /\ f.n <= run[t].made
  <2>1. /\ turn[t].got \in Seq(BridgeFrame) /\ run[t].made \in Nat
        /\ \A i \in 1 .. n : q[i] \in BridgeFrame
    BY <1>7, <1>8, BridgeAssumption DEF Turn, Run
  <2>2. /\ Len(turn[t].got) \in Nat /\ DOMAIN turn[t].got = 1 .. Len(turn[t].got)
        /\ turn'[t].got \in Seq(BridgeFrame) /\ Len(turn'[t].got) = Len(turn[t].got) + 1
        /\ DOMAIN turn'[t].got = 1 .. Len(turn[t].got) + 1
        /\ \A i \in DOMAIN turn[t].got : turn'[t].got[i] = turn[t].got[i]
        /\ turn'[t].got[Len(turn[t].got) + 1] = f
    <3>1. PICK got \in Seq(BridgeFrame) : got = turn[t].got
      BY <2>1
    <3>2. turn'[t].got = Append(got, f)
      BY <1>4, <1>16, <3>1
    <3>3. /\ Append(got, f) \in Seq(BridgeFrame) /\ Len(Append(got, f)) = Len(got) + 1
          /\ \A i \in 1 .. Len(got) : Append(got, f)[i] = got[i]
          /\ Append(got, f)[Len(got) + 1] = f
      BY AppendProperties
    <3>4. /\ Len(got) \in Nat /\ DOMAIN got = 1 .. Len(got)
          /\ DOMAIN Append(got, f) = 1 .. Len(got) + 1
      BY <3>3, LenProperties
    <3> QED BY <3>1, <3>2, <3>3, <3>4
  <2>3. Flow(c, t) /\ \A i \in DOMAIN turn[t].got : turn[t].got[i].n = i
    BY <1>8, <1>16 DEF Flows, InFlight
  <2>4. ASSUME f.n # LastFrame
        PROVE  f.n = Len(turn[t].got) + 1 /\ f.n <= run[t].made
    <3> DEFINE next == Len(turn[t].got) + 1
    <3>1. f.n \in next .. run[t].made
      BY <1>1, <1>4, <1>12, <2>3, <2>4 DEF Flow
    <3>0. f.n <= run[t].made
      BY <2>1, <2>2, <3>1
    <3>2. PICK i \in Sent(c, t) : q[i].n = next
      <4>1. next \in next .. run[t].made
        BY <2>1, <2>2, <3>1
      <4> QED BY <1>1, <1>12, <2>3, <4>1 DEF Flow
    <3>3. CASE i = 1
      BY <1>4, <3>0, <3>2, <3>3
    <3>4. CASE i # 1
      <4>1. 1 < i /\ i \in 1 .. n
        BY <1>7, <1>9, <3>2, <3>4
      <4>2. q[i].n = LastFrame \/ q[1].n < q[i].n
        BY <1>1, <1>12, <2>3, <3>2, <4>1 DEF Flow
      <4>3. next # LastFrame /\ next \in Nat
        BY <2>2 DEF LastFrame
      <4> QED BY <1>4, <2>2, <3>1, <3>2, <4>2, <4>3
    <3> QED BY <3>0, <3>3, <3>4
  <2> QED BY <2>1, <2>2, <2>3, <2>4
<1>17. ASSUME NEW d \in Turns, turn'[d].listed
       PROVE  InFlight(d)'
  <2>1. /\ turn[d].listed /\ InFlight(d) /\ run[d].made \in Nat /\ Len(turn[d].got) \in Nat
    <3>1. turn[d].got \in Seq(BridgeFrame) /\ run[d].made \in Nat
      BY <1>8, BridgeAssumption DEF Turn, Run
    <3> QED BY <1>4, <1>8, <1>17, <3>1, LenProperties DEF Flows
  <2>2. /\ \A i \in DOMAIN turn'[d].got : turn'[d].got[i].n = i
        /\ Len(turn'[d].got) = IF d = t THEN Len(turn[d].got) + 1 ELSE Len(turn[d].got)
        /\ Len(turn'[d].got) <= run[d].made
    <3>1. CASE d = t
      <4>1. turn[t].listed /\ f.n # LastFrame
        BY <1>4, <1>17, <2>1, <3>1
      <4>2. /\ Len(turn[t].got) \in Nat /\ Len(turn'[t].got) = Len(turn[t].got) + 1
            /\ DOMAIN turn'[t].got = 1 .. Len(turn[t].got) + 1
            /\ DOMAIN turn[t].got = 1 .. Len(turn[t].got)
            /\ \A i \in DOMAIN turn[t].got : turn'[t].got[i] = turn[t].got[i] /\ turn[t].got[i].n = i
            /\ turn'[t].got[Len(turn[t].got) + 1].n = Len(turn[t].got) + 1
            /\ Len(turn[t].got) + 1 <= run[t].made
        BY <1>16, <4>1
      <4>3. \A i \in DOMAIN turn'[t].got : i \in DOMAIN turn[t].got \/ i = Len(turn[t].got) + 1
        BY <4>2
      <4>4. \A i \in DOMAIN turn'[t].got : turn'[t].got[i].n = i
        BY <4>2, <4>3
      <4> QED BY <3>1, <4>2, <4>4
    <3>2. CASE d # t
      BY <1>4, <2>1, <3>2 DEF InFlight
    <3> QED BY <3>1, <3>2
  <2>3. ASSUME NEW b \in Links, b # c
        PROVE  Flow(b, d)'
    <3>1. Sent(b, d)' = Sent(b, d) /\ link'[b].down = link[b].down /\ Flow(b, d)
      BY <1>5, <1>9, <2>1, <2>3 DEF InFlight
    <3>2. CASE d # t
      BY <1>4, <3>1, <3>2 DEF Flow
    <3>3. CASE d = t
      <4>1. ~ Carries(b, t)
        BY <1>8, <1>12, <2>3 DEF OnOneLink, Carries
      <4>2. Sent(b, d) = {} /\ run[d].link # b
        BY <3>3, <4>1 DEF Carries
      <4> QED BY <1>4, <3>1, <4>2 DEF Flow
    <3> QED BY <3>2, <3>3
  <2>4. Flow(c, d)'
    <3> DEFINE next == Len(turn[d].got) + 1
               then == Len(turn'[d].got) + 1
               m == run[d].made
               X == Sent(c, d)
               Y == Sent(c, d)'
    <3>1. /\ \A i \in X : /\ q[i].n = LastFrame \/ q[i].n \in next .. m
                          /\ q[i].n = LastFrame => run[d].link = 0
          /\ \A i, j \in X : i < j => q[i].n # LastFrame /\ (q[j].n = LastFrame \/ q[i].n < q[j].n)
          /\ run[d].link = c \/ X # {} => \A k \in next .. m : \E i \in X : q[i].n = k
      BY <1>1, <2>1 DEF InFlight, Flow
    <3>2. /\ \A i \in Y : i \in 1 .. n - 1 /\ i + 1 \in X /\ p[i] = q[i + 1]
          /\ \A i \in X : i \in 1 .. n /\ (i # 1 => i - 1 \in Y /\ p[i - 1] = q[i])
      <4>1. X = {i \in 1 .. n : q[i].turn = d} /\ Y = {i \in 1 .. n - 1 : q[i + 1].turn = d}
        BY <1>9
      <4> HIDE DEF X, Y
      <4>2. \A i \in 1 .. n : i # 1 => i - 1 \in 1 .. n - 1 /\ i - 1 + 1 = i /\ p[i - 1] = q[i]
        BY <1>7
      <4>3. \A i \in 1 .. n - 1 : i + 1 \in 1 .. n /\ p[i] = q[i + 1]
        BY <1>7
      <4>4. ASSUME NEW i \in X
            PROVE  i \in 1 .. n /\ (i # 1 => i - 1 \in Y /\ p[i - 1] = q[i])
        <5>1. i \in 1 .. n /\ q[i].turn = d
          BY <4>1
        <5>2. i # 1 => i - 1 \in 1 .. n - 1 /\ q[i - 1 + 1].turn = d /\ p[i - 1] = q[i]
          BY <4>2, <5>1
        <5> QED BY <4>1, <5>1, <5>2
      <4>5. \A i \in Y : i \in 1 .. n - 1 /\ i + 1 \in X /\ p[i] = q[i + 1]
        BY <4>1, <4>3
      <4> QED BY <4>4, <4>5
    <3>3. 1 \in X <=> d = t
      BY <1>3, <1>4, <1>7, <1>9
    <3>4. d = t => q[1].n = next /\ then = next + 1
      BY <1>4, <1>16, <1>17, <2>1, <2>2
    <3>5. d # t => then = next
      BY <2>2
    <3>6. next \in Nat /\ then \in Nat /\ m \in Nat
      BY <2>1, <2>2
    <3> HIDE DEF next, then, m, X, Y
    <3>7. ASSUME NEW i \in Y
          PROVE  /\ p[i].n = LastFrame \/ p[i].n \in then .. m
                 /\ p[i].n = LastFrame => run[d].link = 0
      <4>1. i + 1 \in X /\ p[i] = q[i + 1] /\ i \in 1 .. n - 1
        BY <3>2, <3>7
      <4>2. CASE d = t
        <5>1. 1 \in X /\ 1 < i + 1
          BY <3>3, <4>1, <4>2
        <5>2. q[i + 1].n = LastFrame \/ q[1].n < q[i + 1].n
          BY <3>1, <4>1, <5>1
        <5> QED BY <3>1, <3>4, <3>6, <4>1, <4>2, <5>2
      <4>3. CASE d # t
        BY <3>1, <3>5, <4>1, <4>3
      <4> QED BY <4>2, <4>3
    <3>8. ASSUME NEW i \in Y, NEW j \in Y, i < j
          PROVE  p[i].n # LastFrame /\ (p[j].n = LastFrame \/ p[i].n < p[j].n)
      <4>1. /\ i + 1 \in X /\ p[i] = q[i + 1] /\ j + 1 \in X /\ p[j] = q[j + 1] /\ i + 1 < j + 1
        BY <3>2, <3>8
      <4> QED BY <3>1, <4>1
    <3>9. ASSUME run[d].link = c \/ Y # {}, NEW k \in then .. m
          PROVE  \E i \in Y : p[i].n = k
      <4>1. run[d].link = c \/ X # {}
        BY <3>2, <3>9
      <4>2. k \in next .. m /\ (d = t => k # next)
        BY <3>4, <3>5, <3>6
      <4>3. PICK i \in X : q[i].n = k
        BY <3>1, <4>1, <4>2
      <4>4. i # 1
        BY <3>3, <3>4, <4>2, <4>3
      <4> QED BY <3>2, <4>3, <4>4
    <3> QED BY <1>4, <1>6, <3>7, <3>8, <3>9 DEF Flow, then, m, Y
  <2> QED BY <1>4, <2>2, <2>3, <2>4 DEF InFlight
<1>18. OwnFrames'
  <2> SUFFICES ASSUME NEW d \in Turns, NEW i \in DOMAIN turn'[d].got
               PROVE  /\ turn'[d].got[i].turn = d
                      /\ turn'[d].got[i].n = i \/ (turn'[d].got[i].n = LastFrame /\ i = Len(turn'[d].got))
    BY DEF OwnFrames
  <2>1. CASE d = t /\ turn[t].listed
    <3>1. CASE i \in DOMAIN turn[t].got
      BY <1>8, <1>16, <2>1, <3>1 DEF OwnFrames
    <3>2. CASE i \notin DOMAIN turn[t].got
      <4>1. i = Len(turn[t].got) + 1
        <5>1. /\ Len(turn[t].got) \in Nat /\ i \in 1 .. Len(turn[t].got) + 1
              /\ i \notin 1 .. Len(turn[t].got)
          BY <1>16, <2>1, <3>2
        <5> QED BY ONLY <5>1
      <4>2. /\ turn'[t].got[i] = f /\ Len(turn'[t].got) = i
            /\ f.n # LastFrame => f.n = i
        BY <1>16, <2>1, <4>1
      <4> QED BY <1>3, <2>1, <4>2
    <3> QED BY <3>1, <3>2
  <2>2. CASE d # t \/ ~ turn[d].listed
    BY <1>4, <1>8, <2>2 DEF OwnFrames
  <2> QED BY <2>1, <2>2
<1>19. Counted'
  <2>1. {b \in Links : link'[b].server = "open"} = {b \in Links : link[b].server = "open"}
    BY <1>5
  <2> QED BY <1>4, <1>8, <2>1 DEF Counted
<1>20. Flows'
  BY <1>17 DEF Flows
<1> QED BY <1>4, <1>13, <1>14, <1>15, <1>18, <1>19, <1>20 DEF BridgeInv

-----------------------------------------------------------------------------
(* A step of the bridge that tells a page nothing: what it forgets, it     *)
(* forgets with the ws.                                                    *)
LEMMA QuietSideKeeps ==
    ASSUME BridgeInv, UNCHANGED <<conn, turn>>,
           link' \in [Links -> Link], run' \in [Turns -> Run],
           bridge' \in [up : BOOLEAN, connections : 0 .. MaxLinks, idle : BOOLEAN], Counted',
           \A c \in Links :
               /\ link'[c].asks \subseteq link[c].asks /\ link'[c].waits \subseteq link[c].waits
               /\ \/ link'[c].down = link[c].down
                  \/ link'[c].down = <<>> /\ \A t \in Turns : run'[t].link # c,
           \A t \in Turns :
               /\ run'[t].made = run[t].made /\ run'[t].link \in {run[t].link, 0}
               /\ run'[t].at = "none" <=> run[t].at = "none"
               /\ run'[t].at \notin {"finding", "running"} => run'[t].link = 0
               /\ run'[t].link # 0 => link'[run'[t].link].server = "open"
    PROVE  BridgeInv'
<1> USE DEF BridgeInv
<1>1. BridgeType'
  BY DEF BridgeType
<1>2. \A c \in Links, t \in Turns :
          \/ Sent(c, t)' = Sent(c, t) /\ link'[c].down = link[c].down
          \/ Sent(c, t)' = {} /\ run'[t].link # c
  BY DEF Sent
<1>3. \A c \in Links, t \in Turns : Carries(c, t)' => Carries(c, t)
  BY <1>2, BridgeAssumption DEF Carries, Links
<1>4. RunsHeld'
  BY <1>2 DEF RunsHeld
<1>5. OnOneLink'
  BY <1>3 DEF OnOneLink
<1>6. AskedOnce'
  <2> SUFFICES ASSUME NEW t \in Turns
               PROVE  /\ turn[t].at \in {"idle", "awaiting"} => run'[t].at = "none"
                      /\ turn[t].listed => turn[t].at \in {"awaiting", "reading"}
                      /\ \A c \in Links :
                             /\ t \in link'[c].asks => run'[t].at = "none" /\ turn[t].at \notin {"idle", "awaiting"}
                             /\ t \in link'[c].waits => turn[t].at = "awaiting"
    BY DEF AskedOnce, Unasked
  <2> QED BY DEF AskedOnce, Unasked
<1>7. Flows'
  <2> SUFFICES ASSUME NEW t \in Turns, turn[t].listed, NEW c \in Links
               PROVE  Flow(c, t)'
    BY DEF Flows, InFlight
  <2>1. Flow(c, t)
    BY DEF Flows, InFlight
  <2>2. CASE Sent(c, t)' = {} /\ run'[t].link # c
    BY <2>2 DEF Flow
  <2>3. CASE Sent(c, t)' = Sent(c, t) /\ link'[c].down = link[c].down
    <3>1. run'[t].link = c => run[t].link = c
      BY BridgeAssumption DEF Links
    <3>2. run[t].link = 0 => run'[t].link = 0
      OBVIOUS
    <3> QED BY <2>1, <2>3, <3>1, <3>2 DEF Flow
  <2> QED BY <1>2, <2>2, <2>3
<1>8. OwnFrames'
  BY DEF OwnFrames
<1> QED BY <1>1, <1>4, <1>5, <1>6, <1>7, <1>8

LEMMA ServerGone ==
    ASSUME NEW l \in Link
    PROVE  LET m == serverGone(l)
           IN  /\ m \in Link /\ m.server # "open"
               /\ m.asks \subseteq l.asks /\ m.waits \subseteq l.waits
               /\ m.down = l.down \/ m.down = <<>>
<1>1. CASE l.client = "left"
  <2>1. <<>> \in Seq(BridgeFrame)
    BY EmptySeq
  <2> QED BY <1>1, <2>1 DEF serverGone, NoLink, Link
<1>2. CASE l.client # "left"
  BY <1>2 DEF serverGone, Link
<1> QED BY <1>1, <1>2

LEMMA OverIs ==
    ASSUME NEW r \in Run
    PROVE  LET o == Over(r)
               l == [o EXCEPT !.at = "lost"]
           IN  /\ o \in Run /\ o.at = "over" /\ o.link = 0 /\ o.made = r.made
               /\ l \in Run /\ l.at = "lost" /\ l.link = 0 /\ l.made = r.made
<1> DEFINE o == Over(r)
           l == [o EXCEPT !.at = "lost"]
<1>1. o \in Run /\ o.at = "over" /\ o.link = 0 /\ o.made = r.made
  <2>1. 0 \in 0 .. MaxLinks
    BY BridgeAssumption
  <2> QED BY <2>1 DEF Over, Run
<1> HIDE DEF o
<1>2. l \in Run /\ l.at = "lost" /\ l.link = o.link /\ l.made = o.made
  BY <1>1 DEF Run
<1> QED BY <1>1, <1>2 DEF o

LEMMA StartKeeps == BridgeInv /\ (Start \/ IdleFires) => BridgeInv'
<1> SUFFICES ASSUME BridgeInv, Start \/ IdleFires
             PROVE  BridgeInv'
  OBVIOUS
<1>1. UNCHANGED <<conn, turn, link, run>> /\ bridge.connections = 0
  BY DEF Start, IdleFires, BridgeInv, Counted
<1>2. /\ bridge' \in [up : BOOLEAN, connections : 0 .. MaxLinks, idle : BOOLEAN]
      /\ bridge'.connections = 0 /\ ~ bridge'.idle
  <2>1. 0 \in 0 .. MaxLinks
    BY BridgeAssumption
  <2>2. CASE Start
    BY <2>1, <2>2 DEF Start
  <2>3. CASE IdleFires
    BY <2>1, <2>3 DEF IdleFires
  <2> QED BY <2>2, <2>3
<1>3. Counted'
  BY <1>1, <1>2 DEF BridgeInv, Counted
<1> QED BY <1>1, <1>2, <1>3, QuietSideKeeps DEF BridgeInv, BridgeType, RunsHeld

LEMMA StopKeeps == BridgeInv /\ Stop => BridgeInv'
<1> SUFFICES ASSUME BridgeInv, Stop
             PROVE  BridgeInv'
  OBVIOUS
<1>1. link' \in [Links -> Link] /\ \A c \in Links :
          /\ link'[c].asks \subseteq link[c].asks /\ link'[c].waits \subseteq link[c].waits
          /\ link'[c].down = link[c].down \/ link'[c].down = <<>>
          /\ link'[c].server # "open"
  <2>1. \A c \in Links : link[c] \in Link
                         /\ link'[c] = IF link[c].server = "open" THEN serverGone(link[c]) ELSE link[c]
    BY DEF Stop, BridgeInv, BridgeType
  <2>2. link' = [c \in Links |-> link'[c]]
    BY DEF Stop
  <2> QED BY <2>1, <2>2, ServerGone
<1>2. \A t \in Turns : /\ run'[t].made = run[t].made /\ run'[t].link = 0
                       /\ run'[t].at = "none" <=> run[t].at = "none"
                       /\ run'[t] \in Run
  <2>1. \A t \in Turns : /\ run[t] \in Run
                         /\ run'[t] = IF run[t].at \in {"finding", "running"} THEN Over(run[t]) ELSE run[t]
                         /\ run[t].at \notin {"finding", "running"} => run[t].link = 0
    BY DEF Stop, BridgeInv, BridgeType, RunsHeld
  <2>2. \A r \in Run : Over(r) \in Run /\ Over(r).at = "over" /\ Over(r).link = 0 /\ Over(r).made = r.made
    BY OverIs
  <2> QED BY <2>1, <2>2
<1>3. run' \in [Turns -> Run]
  BY <1>2 DEF Stop
<1>4. Counted' /\ bridge' \in [up : BOOLEAN, connections : 0 .. MaxLinks, idle : BOOLEAN]
  <2>1. {c \in Links : link'[c].server = "open"} = {}
    BY <1>1
  <2>2. /\ bridge'.connections = 0 /\ ~ bridge'.idle
        /\ bridge' \in [up : BOOLEAN, connections : 0 .. MaxLinks, idle : BOOLEAN]
    BY BridgeAssumption DEF Stop
  <2>3. Counted'
    BY <2>1, <2>2, FS_EmptySet DEF Counted
  <2> QED BY <2>2, <2>3
<1>5. \A c \in Links, t \in Turns : run'[t].link # c
  BY <1>2, BridgeAssumption DEF Links
<1> QED BY <1>1, <1>2, <1>3, <1>4, <1>5, QuietSideKeeps DEF Stop

LEMMA AcceptKeeps ==
    ASSUME BridgeInv, NEW c \in Links, Accept(c)
    PROVE  BridgeInv'
<1> DEFINE O == {d \in Links : link[d].server = "open"}
<1>1. link' \in [Links -> Link] /\ \A d \in Links :
          /\ link'[d].asks = link[d].asks /\ link'[d].waits = link[d].waits /\ link'[d].down = link[d].down
          /\ link'[d].server = IF d = c THEN "open" ELSE link[d].server
  BY DEF Accept, Link, BridgeInv, BridgeType
<1>2. {d \in Links : link'[d].server = "open"} = O \cup {c} /\ c \notin O
  BY <1>1 DEF Accept
<1>3. O \in SUBSET Links /\ O \cup {c} \in SUBSET Links
  OBVIOUS
<1> HIDE DEF O
<1>4. Cardinality(O \cup {c}) = Cardinality(O) + 1 /\ Cardinality(O \cup {c}) \in 0 .. MaxLinks
  BY <1>2, <1>3, SomeLinks, FS_AddElement
<1>5. /\ bridge'.connections = Cardinality(O) + 1 /\ bridge'.up /\ ~ bridge'.idle
      /\ bridge' = [bridge EXCEPT !.connections = Cardinality(O) + 1, !.idle = FALSE]
  BY DEF Accept, BridgeInv, BridgeType, Counted, O
<1>6. Counted' /\ bridge' \in [up : BOOLEAN, connections : 0 .. MaxLinks, idle : BOOLEAN]
  BY <1>2, <1>4, <1>5 DEF Counted, BridgeInv, BridgeType
<1>7. UNCHANGED <<conn, turn, run>>
  BY DEF Accept
<1>8. run' \in [Turns -> Run] /\ \A t \in Turns :
          /\ run'[t].at \notin {"finding", "running"} => run'[t].link = 0
          /\ run'[t].link # 0 => link'[run'[t].link].server = "open"
  <2>1. \A t \in Turns : run[t].link # 0 => run[t].link \in Links /\ link[run[t].link].server = "open"
    BY BridgeAssumption DEF BridgeInv, BridgeType, RunsHeld, Run, Links
  <2> QED BY <1>1, <1>7, <2>1 DEF BridgeInv, BridgeType, RunsHeld
<1> QED BY <1>1, <1>6, <1>7, <1>8, QuietSideKeeps

LEMMA PageClosesKeeps ==
    ASSUME BridgeInv, NEW c \in Links, PageCloses(c)
    PROVE  BridgeInv'
<1> DEFINE O == {d \in Links : link[d].server = "open"}
<1>1. link' \in [Links -> Link] /\ \A d \in Links :
          /\ link'[d].asks \subseteq link[d].asks /\ link'[d].waits \subseteq link[d].waits
          /\ link'[d].down = link[d].down \/ (d = c /\ link'[d].down = <<>>)
          /\ d = c => link'[d].server # "open"
          /\ d # c => link'[d].server = link[d].server
  <2>1. link \in [Links -> Link] /\ link' = [link EXCEPT ![c] = serverGone(link[c])]
    BY DEF PageCloses, BridgeInv, BridgeType
  <2> QED BY <2>1, ServerGone
<1>2. {d \in Links : link'[d].server = "open"} = O \ {c} /\ c \in O
  BY <1>1 DEF PageCloses
<1>3. O \in SUBSET Links /\ O \ {c} \in SUBSET Links
  OBVIOUS
<1> HIDE DEF O
<1>4. /\ Cardinality(O \ {c}) = Cardinality(O) - 1 /\ Cardinality(O \ {c}) \in 0 .. MaxLinks
      /\ Cardinality(O) \in 0 .. MaxLinks
  BY <1>2, <1>3, SomeLinks, FS_RemoveElement
<1>5. /\ bridge'.connections = Cardinality(O) - 1 /\ bridge'.up = bridge.up
      /\ bridge'.idle <=> Cardinality(O) = 1
      /\ bridge.up \/ Cardinality(O) = 0
      /\ bridge' \in [up : BOOLEAN, connections : {Cardinality(O) - 1}, idle : BOOLEAN]
  BY DEF PageCloses, BridgeInv, BridgeType, Counted, O
<1>6. Counted' /\ bridge' \in [up : BOOLEAN, connections : 0 .. MaxLinks, idle : BOOLEAN]
  <2>1. Cardinality(O) - 1 \in 0 .. MaxLinks /\ Cardinality(O) # 0 /\ bridge'.up
    BY <1>4, <1>5
  <2>2. bridge' \in [up : BOOLEAN, connections : 0 .. MaxLinks, idle : BOOLEAN]
    BY <1>5, <2>1
  <2>3. bridge'.idle => bridge'.connections = 0
    BY <1>4, <1>5
  <2> QED BY <1>2, <1>4, <1>5, <2>1, <2>2, <2>3 DEF Counted
<1>7. UNCHANGED <<conn, turn>>
  BY DEF PageCloses
<1>8. run' \in [Turns -> Run] /\ \A t \in Turns :
          /\ run'[t].made = run[t].made
          /\ run'[t].link = IF run[t].link = c THEN 0 ELSE run[t].link
          /\ run'[t].at = "none" <=> run[t].at = "none"
          /\ run'[t].at \in {run[t].at, "over"}
          /\ run'[t].link # 0 => run'[t].at = run[t].at
  <2>1. c # 0 /\ 0 \in 0 .. MaxLinks
    BY BridgeAssumption DEF Links
  <2> QED BY <2>1 DEF PageCloses, orphaned, Over, Run, BridgeInv, BridgeType, RunsHeld
<1>9. \A t \in Turns :
          /\ run'[t].at \notin {"finding", "running"} => run'[t].link = 0
          /\ run'[t].link # 0 => link'[run'[t].link].server = "open"
  <2>1. \A t \in Turns : run[t].link # 0 => run[t].link \in Links /\ link[run[t].link].server = "open"
    BY BridgeAssumption DEF BridgeInv, BridgeType, RunsHeld, Run, Links
  <2> QED BY <1>1, <1>8, <2>1 DEF BridgeInv, RunsHeld
<1>10. \A t \in Turns : run'[t].link # c
  BY <1>8, BridgeAssumption DEF Links
<1> QED BY <1>1, <1>6, <1>7, <1>8, <1>9, <1>10, QuietSideKeeps

(* Of a run that goes on, or is lost, nobody is told.                      *)
LEMMA RunKeeps ==
    ASSUME BridgeInv, NEW t \in Turns, Spawn(t) \/ Crash(t)
    PROVE  BridgeInv'
<1>1. UNCHANGED <<conn, turn, link, bridge>> /\ run[t].at \in {"finding", "running"}
  BY DEF Spawn, Crash
<1>2. run' \in [Turns -> Run] /\ \A d \in Turns :
          /\ d # t => run'[d] = run[d]
          /\ run'[d].made = run[d].made
          /\ run'[t].at \in {"running", "lost"} /\ run'[t].link \in {run[t].link, 0}
          /\ run'[t].at # "running" => run'[t].link = 0
  <2>1. run \in [Turns -> Run] /\ run[t] \in Run
    BY DEF BridgeInv, BridgeType
  <2>2. CASE Spawn(t)
    BY <2>1, <2>2 DEF Spawn, Run
  <2>3. CASE Crash(t)
    <3> DEFINE r == [Over(run[t]) EXCEPT !.at = "lost"]
    <3>1. r \in Run /\ r.at = "lost" /\ r.link = 0 /\ r.made = run[t].made
      BY <2>1, OverIs
    <3>2. run' = [run EXCEPT ![t] = r]
      BY <2>3 DEF Crash
    <3> HIDE DEF r
    <3> QED BY <2>1, <3>1, <3>2
  <2> QED BY <2>2, <2>3
<1>3. \A d \in Turns :
          /\ run'[d].link \in {run[d].link, 0}
          /\ run'[d].at = "none" <=> run[d].at = "none"
          /\ run'[d].at \notin {"finding", "running"} => run'[d].link = 0
          /\ run'[d].link # 0 => link'[run'[d].link].server = "open"
  BY <1>1, <1>2 DEF BridgeInv, RunsHeld
<1>4. Counted'
  BY <1>1 DEF BridgeInv, Counted
<1> QED BY <1>1, <1>2, <1>3, <1>4, QuietSideKeeps DEF BridgeInv, BridgeType

(* The bridge takes a turn it is asked for: of that turn there is nothing  *)
(* else anywhere.                                                          *)
LEMMA ReceiveKeeps ==
    ASSUME BridgeInv, NEW c \in Links, NEW t \in Turns, Receive(c, t)
    PROVE  BridgeInv'
<1>1. /\ RunsHeld /\ OnOneLink /\ AskedOnce /\ Flows /\ OwnFrames /\ Counted
      /\ turn \in [Turns -> Turn] /\ run \in [Turns -> Run] /\ link \in [Links -> Link]
      /\ UNCHANGED <<conn, turn, bridge>> /\ link[c].server = "open" /\ t \in link[c].asks
  BY DEF BridgeInv, BridgeType, Receive
<1>2. /\ link' \in [Links -> Link]
      /\ \A d \in Links : /\ link'[d].server = link[d].server /\ link'[d].down = link[d].down
                          /\ link'[d].waits = link[d].waits /\ link'[d].client = link[d].client
                          /\ link'[d].asks = IF d = c THEN link[c].asks \ {t} ELSE link[d].asks
  BY <1>1 DEF Receive, Link
<1>3. /\ run' \in [Turns -> Run] /\ run'[t].at = "finding" /\ run'[t].link = c /\ run'[t].made = 0
      /\ \A d \in Turns : d # t => run'[d] = run[d]
  <2>1. [at |-> "finding", link |-> c, made |-> 0] \in Run
    BY BridgeAssumption DEF Run, Links
  <2> QED BY <1>1, <2>1 DEF Receive
<1>4. /\ run[t].at = "none" /\ run[t].made = 0 /\ turn[t].got = <<>> /\ ~ Unasked(t)
      /\ \A d \in Links : Sent(d, t) = {} /\ (t \in link[d].asks => d = c)
  BY <1>1 DEF RunsHeld, AskedOnce, OnOneLink, Carries
<1>5. \A d \in Links, x \in Turns : Sent(d, x)' = Sent(d, x)
  BY <1>2 DEF Sent
<1>6. \A d \in Links, x \in Turns : Carries(d, x)' => Carries(d, x)
  <2> SUFFICES ASSUME NEW d \in Links, NEW x \in Turns, Carries(d, x)'
               PROVE  Carries(d, x)
    OBVIOUS
  <2>1. CASE x = t
    BY <1>1, <1>2, <1>3, <1>5, <2>1 DEF Carries
  <2>2. CASE x # t
    BY <1>2, <1>3, <1>5, <2>2 DEF Carries
  <2> QED BY <2>1, <2>2
<1>7. BridgeType'
  BY <1>1, <1>2, <1>3 DEF BridgeInv, BridgeType
<1>8. RunsHeld'
  <2> SUFFICES ASSUME NEW x \in Turns
               PROVE  /\ run'[x].at \notin {"finding", "running"} => run'[x].link = 0
                      /\ run'[x].link # 0 => link'[run'[x].link].server = "open"
                      /\ run'[x].at = "none" =>
                            run'[x].made = 0 /\ turn[x].got = <<>> /\ \A d \in Links : Sent(d, x)' = {}
    BY <1>1 DEF RunsHeld
  <2>1. CASE x = t
    BY <1>1, <1>2, <1>3, <2>1
  <2>2. CASE x # t
    <3>1. run[x].link # 0 => run[x].link \in Links
      BY <1>1, BridgeAssumption DEF Run, Links
    <3> QED BY <1>1, <1>2, <1>3, <1>5, <2>2, <3>1 DEF RunsHeld
  <2> QED BY <2>1, <2>2
<1>9. OnOneLink'
  BY <1>1, <1>2, <1>6 DEF OnOneLink
<1>10. AskedOnce'
  <2> SUFFICES ASSUME NEW x \in Turns
               PROVE  /\ turn[x].at \in {"idle", "awaiting"} => run'[x].at = "none"
                      /\ turn[x].listed => turn[x].at \in {"awaiting", "reading"}
                      /\ \A d \in Links :
                             /\ x \in link'[d].asks => run'[x].at = "none" /\ turn[x].at \notin {"idle", "awaiting"}
                             /\ x \in link'[d].waits => turn[x].at = "awaiting"
    BY <1>1 DEF AskedOnce, Unasked
  <2>1. \A d \in Links : t \notin link'[d].asks
    BY <1>2, <1>4
  <2>2. CASE x = t
    BY <1>1, <1>2, <1>4, <2>1, <2>2 DEF AskedOnce, Unasked
  <2>3. CASE x # t
    BY <1>1, <1>2, <1>3, <2>3 DEF AskedOnce, Unasked
  <2> QED BY <2>2, <2>3
<1>11. Flows'
  <2> SUFFICES ASSUME NEW x \in Turns, turn[x].listed
               PROVE  Len(turn[x].got) <= run'[x].made /\ \A d \in Links : Flow(d, x)'
    BY <1>1 DEF Flows, InFlight
  <2>1. CASE x = t
    <3>1. Len(turn[x].got) = 0 /\ run'[x].made = 0 /\ \A d \in Links : Sent(d, x)' = {}
      BY <1>3, <1>4, <1>5, <2>1, EmptySeq
    <3> QED BY <1>1, <3>1 DEF Flow
  <2>2. CASE x # t
    BY <1>1, <1>2, <1>3, <1>5, <2>2 DEF Flows, InFlight, Flow
  <2> QED BY <2>1, <2>2
<1>12. OwnFrames'
  BY <1>1 DEF OwnFrames
<1>13. Counted'
  <2>1. {d \in Links : link'[d].server = "open"} = {d \in Links : link[d].server = "open"}
    BY <1>2
  <2> QED BY <1>1, <2>1 DEF Counted
<1> QED BY <1>7, <1>8, <1>9, <1>10, <1>11, <1>12, <1>13 DEF BridgeInv

LEMMA DownIs ==
    ASSUME NEW l \in Link, NEW p \in Seq(BridgeFrame)
    PROVE  LET m == [l EXCEPT !.down = p]
           IN  /\ m \in Link /\ m.down = p /\ m.server = l.server /\ m.asks = l.asks
               /\ m.waits = l.waits /\ m.client = l.client
BY DEF Link

(* A frame that is relayed goes behind those under way: it is the next, or *)
(* the last.                                                               *)
LEMMA RelayedKeeps ==
    ASSUME BridgeInv, NEW t \in Turns, NEW c \in Links, NEW f \in BridgeFrame,
           run[t].at = "running", run[t].link = c, f.turn = t,
           link' = [link EXCEPT ![c] = [link[c] EXCEPT !.down = Append(link[c].down, f)]],
           run' \in [Turns -> Run], UNCHANGED <<conn, turn, bridge>>,
           \A d \in Turns : d # t => run'[d] = run[d],
           \/ /\ f.n = LastFrame /\ run'[t].at = "over" /\ run'[t].link = 0 /\ run'[t].made = run[t].made
           \/ /\ f.n = run[t].made + 1 /\ run'[t].at = "running" /\ run'[t].link = c
              /\ run'[t].made = run[t].made + 1
    PROVE  BridgeInv'
<1>1. /\ RunsHeld /\ OnOneLink /\ AskedOnce /\ Flows /\ OwnFrames /\ Counted
      /\ turn \in [Turns -> Turn] /\ run \in [Turns -> Run] /\ link \in [Links -> Link]
  BY DEF BridgeInv, BridgeType
<1>2. PICK q \in Seq(BridgeFrame) : q = link[c].down
  BY <1>1 DEF Link
<1>3. PICK p \in Seq(BridgeFrame) : p = Append(q, f)
  BY AppendProperties
<1>4. /\ link' \in [Links -> Link] /\ link'[c].down = p
      /\ \A d \in Links : /\ link'[d].server = link[d].server /\ link'[d].asks = link[d].asks
                          /\ link'[d].waits = link[d].waits /\ link'[d].client = link[d].client
                          /\ d # c => link'[d].down = link[d].down
  <2> DEFINE l == [link[c] EXCEPT !.down = p]
  <2>1. l \in Link /\ l.down = p /\ l.server = link[c].server /\ l.asks = link[c].asks
        /\ l.waits = link[c].waits /\ l.client = link[c].client
    BY <1>1, DownIs
  <2>2. link' = [link EXCEPT ![c] = l]
    BY <1>2, <1>3
  <2> HIDE DEF l
  <2> QED BY ONLY <1>1, <2>1, <2>2
<1>5. PICK n \in Nat : /\ n = Len(q) /\ DOMAIN q = 1 .. n /\ DOMAIN p = 1 .. n + 1
                       /\ p[n + 1] = f /\ \A i \in 1 .. n : p[i] = q[i]
  <2>1. Len(q) \in Nat /\ DOMAIN q = 1 .. Len(q) /\ DOMAIN p = 1 .. Len(p)
    BY LenProperties
  <2>2. Len(p) = Len(q) + 1 /\ p[Len(q) + 1] = f /\ \A i \in 1 .. Len(q) : p[i] = q[i]
    BY <1>3, AppendProperties
  <2> QED BY <2>1, <2>2
<1>6. /\ \A d \in Turns : Sent(c, d) = {i \in 1 .. n : q[i].turn = d}
      /\ \A d \in Turns : Sent(c, d)' = {i \in 1 .. n + 1 : p[i].turn = d}
      /\ \A b \in Links, d \in Turns : b # c => Sent(b, d)' = Sent(b, d)
  BY <1>2, <1>4, <1>5 DEF Sent
<1>7. /\ \A d \in Turns : d # t => Sent(c, d)' = Sent(c, d)
      /\ Sent(c, t)' = Sent(c, t) \cup {n + 1}
      /\ \A i \in Sent(c, t) : i \in 1 .. n
  <2>1. n + 1 \in 1 .. n + 1 /\ \A i \in 1 .. n + 1 : i \in 1 .. n \/ i = n + 1
    OBVIOUS
  <2>2. \A i \in 1 .. n : i \in 1 .. n + 1 /\ i # n + 1
    OBVIOUS
  <2>3. \A d \in Turns : d # t => {i \in 1 .. n + 1 : p[i].turn = d} = {i \in 1 .. n : q[i].turn = d}
    BY <1>5, <2>1, <2>2
  <2>4. {i \in 1 .. n + 1 : p[i].turn = t} = {i \in 1 .. n : q[i].turn = t} \cup {n + 1}
    BY <1>5, <2>1, <2>2
  <2>5. \A i \in Sent(c, t) : i \in 1 .. n
    BY <1>6
  <2>6. \A d \in Turns : d # t => Sent(c, d)' = Sent(c, d)
    BY ONLY <1>6, <2>3
  <2>7. Sent(c, t)' = Sent(c, t) \cup {n + 1}
    BY ONLY <1>6, <2>4
  <2> QED BY <2>5, <2>6, <2>7
<1>8. \A b \in Links, d \in Turns : Carries(b, d)' => Carries(b, d)
  <2> SUFFICES ASSUME NEW b \in Links, NEW d \in Turns, Carries(b, d)'
               PROVE  Carries(b, d)
    OBVIOUS
  <2>1. CASE d = t /\ b = c
    BY <2>1 DEF Carries
  <2>2. CASE d # t
    <3>1. Sent(b, d)' = Sent(b, d)
      BY <1>6, <1>7, <2>2
    <3> QED BY <1>4, <2>2, <3>1 DEF Carries
  <2>3. CASE d = t /\ b # c
    BY <1>4, <1>6, <2>3, BridgeAssumption DEF Carries, Links
  <2> QED BY <2>1, <2>2, <2>3
<1>9. BridgeType'
  BY <1>4 DEF BridgeInv, BridgeType
<1>10. RunsHeld'
  <2> SUFFICES ASSUME NEW x \in Turns
               PROVE  /\ run'[x].at \notin {"finding", "running"} => run'[x].link = 0
                      /\ run'[x].link # 0 => link'[run'[x].link].server = "open"
                      /\ run'[x].at = "none" =>
                            run'[x].made = 0 /\ turn[x].got = <<>> /\ \A b \in Links : Sent(b, x)' = {}
    BY DEF RunsHeld
  <2>1. run[x].link # 0 => run[x].link \in Links /\ link[run[x].link].server = "open"
    BY <1>1, BridgeAssumption DEF RunsHeld, Run, Links
  <2>2. CASE x = t
    BY <1>4, <2>1, <2>2
  <2>3. CASE x # t
    <3>1. \A b \in Links : Sent(b, x)' = Sent(b, x)
      BY <1>6, <1>7, <2>3
    <3> QED BY <1>1, <1>4, <2>1, <2>3, <3>1 DEF RunsHeld
  <2> QED BY <2>2, <2>3
<1>11. OnOneLink'
  BY <1>1, <1>4, <1>8 DEF OnOneLink
<1>12. AskedOnce'
  <2>1. \A x \in Turns : run'[x].at = "none" <=> run[x].at = "none"
    OBVIOUS
  <2> QED BY <1>1, <1>4, <2>1 DEF AskedOnce, Unasked
<1>13. OwnFrames'
  BY <1>1 DEF OwnFrames
<1>14. Counted'
  <2>1. {d \in Links : link'[d].server = "open"} = {d \in Links : link[d].server = "open"}
    BY <1>4
  <2> QED BY <1>1, <2>1 DEF Counted
<1>15. ASSUME NEW x \in Turns, turn[x].listed, NEW b \in Links, x # t \/ b # c
       PROVE  Flow(b, x)'
  <2>1. Flow(b, x) /\ Sent(b, x)' = Sent(b, x)
    BY <1>1, <1>6, <1>7, <1>15 DEF Flows, InFlight
  <2>2. CASE x # t
    <3>1. run'[x] = run[x] /\ turn' = turn
      BY <2>2
    <3>2. CASE b = c
      <4>1. \A i \in Sent(c, x) : p[i] = q[i]
        BY <1>5, <1>6
      <4>2. link'[b].down = p /\ link[b].down = q
        BY <1>2, <1>4, <3>2
      <4> QED BY ONLY <2>1, <3>1, <3>2, <4>1, <4>2 DEF Flow
    <3>3. CASE b # c
      <4>1. link'[b].down = link[b].down
        BY <1>4, <3>3
      <4> QED BY ONLY <2>1, <3>1, <4>1 DEF Flow
    <3> QED BY <3>2, <3>3
  <2>3. CASE x = t
    <3>1. Sent(b, x) = {}
      BY <1>1, <1>15, <2>3 DEF OnOneLink, Carries
    <3>2. run'[x].link # b
      BY <1>15, <2>3, BridgeAssumption DEF Links
    <3> QED BY <2>1, <3>1, <3>2 DEF Flow
  <2> QED BY <2>2, <2>3
<1>16. ASSUME turn[t].listed
       PROVE  Flow(c, t)'
  <2> DEFINE ahead == Len(turn[t].got) + 1
             m == run[t].made
             X == Sent(c, t)
             Y == Sent(c, t)'
  <2>1. ahead \in Nat /\ m \in Nat /\ run'[t].made \in Nat
    <3>1. turn[t].got \in Seq(BridgeFrame) /\ m \in Nat
      BY <1>1, BridgeAssumption DEF Turn, Run
    <3> QED BY <3>1, LenProperties
  <2>2. /\ \A i \in X : q[i].n \in ahead .. m
        /\ \A i, j \in X : i < j => q[i].n # LastFrame /\ (q[j].n = LastFrame \/ q[i].n < q[j].n)
        /\ \A k \in ahead .. m : \E i \in X : q[i].n = k
    <3>1. Flow(c, t) /\ run[t].link # 0
      BY <1>1, <1>16, BridgeAssumption DEF Flows, InFlight, Links
    <3> QED BY <1>2, <3>1 DEF Flow
  <2>3. Y = X \cup {n + 1} /\ \A i \in X : i \in 1 .. n /\ p[i] = q[i]
    BY <1>5, <1>7
  <2>4. ahead <= m + 1
    BY <1>1, <1>16, <2>1 DEF Flows, InFlight
  <2>5. n + 1 \in Nat /\ \A i \in X : i < n + 1 /\ ~ (n + 1 < i)
    BY <2>3
  <2>6. LastFrame = 0 /\ ahead >= 1
    BY <2>1 DEF LastFrame, ahead
  <2>7. p[n + 1] = f /\ (f.n = LastFrame \/ f.n = m + 1)
    BY <1>5 DEF m
  <2>8. f.n = m + 1 => run'[t].made = m + 1
    BY <2>1, <2>6 DEF m
  <2>9. f.n = LastFrame => run'[t].made = m /\ run'[t].link = 0
    BY <2>1, <2>6 DEF m
  <2> HIDE DEF ahead, m, X, Y
  <2>10. \A i \in Y : /\ p[i].n = LastFrame \/ p[i].n \in ahead .. run'[t].made
                      /\ p[i].n = LastFrame => run'[t].link = 0
    <3> SUFFICES ASSUME NEW i \in Y
                 PROVE  /\ p[i].n = LastFrame \/ p[i].n \in ahead .. run'[t].made
                        /\ p[i].n = LastFrame => run'[t].link = 0
      OBVIOUS
    <3>1. CASE i \in X
      <4>1. p[i].n \in ahead .. m /\ m <= run'[t].made
        BY <2>1, <2>2, <2>3, <2>7, <2>8, <2>9, <3>1
      <4>2. p[i].n \in ahead .. run'[t].made /\ p[i].n # LastFrame
        BY <2>1, <2>6, <4>1
      <4> QED BY <4>2
    <3>2. CASE i = n + 1
      <4>1. CASE f.n = LastFrame
        BY <2>7, <2>9, <3>2, <4>1
      <4>2. CASE f.n = m + 1
        BY <2>1, <2>4, <2>6, <2>7, <2>8, <3>2, <4>2
      <4> QED BY <2>7, <4>1, <4>2
    <3> QED BY <2>3, <3>1, <3>2
  <2>11. \A i, j \in Y : i < j => p[i].n # LastFrame /\ (p[j].n = LastFrame \/ p[i].n < p[j].n)
    <3> SUFFICES ASSUME NEW i \in Y, NEW j \in Y, i < j
                 PROVE  p[i].n # LastFrame /\ (p[j].n = LastFrame \/ p[i].n < p[j].n)
      OBVIOUS
    <3>1. i \in X /\ p[i].n \in ahead .. m
      BY <2>2, <2>3, <2>5
    <3>2. p[i].n # LastFrame
      BY <2>1, <2>6, <3>1
    <3>3. CASE j \in X
      BY <2>2, <2>3, <3>1, <3>2, <3>3
    <3>4. CASE j = n + 1
      BY <2>1, <2>7, <3>1, <3>2, <3>4
    <3> QED BY <2>3, <3>2, <3>3, <3>4
  <2>12. \A k \in ahead .. run'[t].made : \E i \in Y : p[i].n = k
    <3> SUFFICES ASSUME NEW k \in ahead .. run'[t].made
                 PROVE  \E i \in Y : p[i].n = k
      OBVIOUS
    <3>1. CASE k \in ahead .. m
      BY <2>2, <2>3, <3>1
    <3>2. CASE k \notin ahead .. m
      <4>1. f.n = m + 1 /\ k = m + 1
        BY <2>1, <2>7, <2>8, <2>9, <3>2
      <4> QED BY <2>3, <2>7, <4>1
    <3> QED BY <3>1, <3>2
  <2>13. link'[c].down = p /\ ahead = Len(turn'[t].got) + 1 /\ Y = Sent(c, t)'
    BY <1>4 DEF ahead, Y
  <2> QED BY ONLY <2>10, <2>11, <2>12, <2>13 DEF Flow
<1>17. Flows'
  <2> SUFFICES ASSUME NEW x \in Turns, turn[x].listed
               PROVE  InFlight(x)'
    BY DEF Flows
  <2>1. \A b \in Links : Flow(b, x)'
    BY <1>15, <1>16
  <2>2. Len(turn[x].got) <= run[x].made /\ \A i \in DOMAIN turn[x].got : turn[x].got[i].n = i
    BY <1>1 DEF Flows, InFlight
  <2>3. run[x].made \in Nat /\ Len(turn[x].got) \in Nat
    <3>1. turn[x].got \in Seq(BridgeFrame) /\ run[x].made \in Nat
      BY <1>1, BridgeAssumption DEF Turn, Run
    <3> QED BY <3>1, LenProperties
  <2>4. Len(turn[x].got) <= run'[x].made
    BY <2>2, <2>3
  <2> QED BY <2>1, <2>2, <2>4 DEF InFlight
<1> QED BY <1>9, <1>10, <1>11, <1>12, <1>13, <1>14, <1>17 DEF BridgeInv

LEMMA RelayKeeps ==
    ASSUME BridgeInv, NEW t \in Turns, Delta(t) \/ Result(t)
    PROVE  BridgeInv'
<1>1. /\ run[t].at = "running" /\ UNCHANGED <<conn, turn, bridge>>
      /\ run \in [Turns -> Run] /\ run[t] \in Run /\ run[t].made \in 0 .. MaxTexts
      /\ run[t].link \in 0 .. MaxLinks /\ Over(run[t]) \in Run
  BY OverIs DEF Delta, Result, BridgeInv, BridgeType, Run
<1>2. CASE run[t].link = 0
  <2>1. link' = link
    BY <1>2 DEF Delta, Result, Relay
  <2>2. run' = [run EXCEPT ![t] = Over(run[t])]
    BY <1>1, <1>2 DEF Delta, Result
  <2>3. /\ run' \in [Turns -> Run] /\ run'[t].at = "over" /\ run'[t].link = 0 /\ run'[t].made = run[t].made
        /\ \A d \in Turns : d # t => run'[d] = run[d]
    BY <1>1, <2>2, OverIs
  <2>4. \A d \in Turns :
            /\ run'[d].made = run[d].made /\ run'[d].link \in {run[d].link, 0}
            /\ run'[d].at = "none" <=> run[d].at = "none"
            /\ run'[d].at \notin {"finding", "running"} => run'[d].link = 0
            /\ run'[d].link # 0 => link'[run'[d].link].server = "open"
    BY <1>1, <2>1, <2>3 DEF BridgeInv, RunsHeld
  <2>5. Counted'
    BY <1>1, <2>1 DEF BridgeInv, Counted
  <2> QED BY <1>1, <2>1, <2>3, <2>4, <2>5, QuietSideKeeps DEF BridgeInv, BridgeType
<1>3. CASE run[t].link # 0
  <2>1. PICK c \in Links : c = run[t].link
    BY <1>1, <1>3, BridgeAssumption DEF Links
  <2>2. CASE Delta(t)
    <3> DEFINE f == [turn |-> t, n |-> run[t].made + 1]
               r == [run[t] EXCEPT !.made = run[t].made + 1]
    <3>1. f \in BridgeFrame /\ f.turn = t /\ f.n = run[t].made + 1
      BY <1>1, <2>2, BridgeAssumption DEF BridgeFrame, Delta
    <3>2. r \in Run /\ r.at = "running" /\ r.link = c /\ r.made = run[t].made + 1
      BY <1>1, <2>1, <2>2, BridgeAssumption DEF Run, Delta
    <3>3. link' = [link EXCEPT ![c] = [link[c] EXCEPT !.down = Append(link[c].down, f)]]
      BY <1>3, <2>1, <2>2 DEF Delta, Relay, BridgeInv, BridgeType
    <3>4. run' = [run EXCEPT ![t] = r]
      <4>1. run' = [run EXCEPT ![t] = IF run[t].link = 0 THEN Over(run[t]) ELSE r]
        BY <2>2 DEF Delta
      <4> HIDE DEF r
      <4> QED BY <1>3, <4>1
    <3> HIDE DEF f, r
    <3>5. /\ run' \in [Turns -> Run] /\ run'[t] = r /\ \A d \in Turns : d # t => run'[d] = run[d]
      BY <1>1, <3>2, <3>4
    <3> QED BY <1>1, <2>1, <3>1, <3>2, <3>3, <3>5, RelayedKeeps
  <2>3. CASE Result(t)
    <3> DEFINE f == [turn |-> t, n |-> LastFrame]
               r == Over(run[t])
    <3>1. f \in BridgeFrame /\ f.turn = t /\ f.n = LastFrame
      BY BridgeAssumption DEF BridgeFrame, LastFrame
    <3>2. r \in Run /\ r.at = "over" /\ r.link = 0 /\ r.made = run[t].made
      BY <1>1, OverIs
    <3>3. link' = [link EXCEPT ![c] = [link[c] EXCEPT !.down = Append(link[c].down, f)]]
      BY <1>3, <2>1, <2>3 DEF Result, Relay, BridgeInv, BridgeType
    <3>4. run' = [run EXCEPT ![t] = r]
      BY <1>1, <2>3 DEF Result
    <3> HIDE DEF f, r
    <3>5. /\ run' \in [Turns -> Run] /\ run'[t] = r /\ \A d \in Turns : d # t => run'[d] = run[d]
      BY <1>1, <3>2, <3>4
    <3> QED BY <1>1, <2>1, <3>1, <3>2, <3>3, <3>5, RelayedKeeps
  <2> QED BY <2>2, <2>3
<1> QED BY <1>2, <1>3

LEMMA BridgeInitially == BridgeInit => BridgeInv
<1> SUFFICES ASSUME BridgeInit
             PROVE  BridgeInv
  OBVIOUS
<1>1. <<>> \in Seq(BridgeFrame) /\ Len(<<>>) = 0 /\ 0 \in 0 .. MaxLinks /\ 0 \in 0 .. MaxTexts
  BY EmptySeq, BridgeAssumption
<1>2. \A t \in Turns : /\ turn[t] = [at |-> "idle", listed |-> FALSE, left |-> FALSE, got |-> <<>>]
                       /\ run[t] = NoRun
  BY DEF BridgeInit
<1>3. \A c \in Links : link[c] = NoLink
  BY DEF BridgeInit
<1>4. BridgeType
  BY <1>1 DEF BridgeInit, BridgeType, NoConnection, ConnectionState, Turn, NoLink, Link, NoRun, Run
<1>5. \A c \in Links, t \in Turns : Sent(c, t) = {} /\ c # 0
  BY <1>3, BridgeAssumption DEF Sent, NoLink, Links
<1>6. RunsHeld
  BY <1>2, <1>5 DEF RunsHeld, NoRun
<1>7. OnOneLink
  BY <1>2, <1>3, <1>5 DEF OnOneLink, Carries, NoLink, NoRun
<1>8. AskedOnce /\ Flows
  BY <1>2, <1>3 DEF AskedOnce, Flows, NoLink, NoRun
<1>9. OwnFrames
  BY <1>2 DEF OwnFrames
<1>10. Counted
  <2>1. {c \in Links : link[c].server = "open"} = {}
    BY <1>3 DEF NoLink
  <2>2. bridge.connections = 0 /\ ~ bridge.idle
    BY DEF BridgeInit
  <2> QED BY <2>1, <2>2, FS_EmptySet DEF Counted
<1> QED BY <1>4, <1>6, <1>7, <1>8, <1>9, <1>10 DEF BridgeInv

LEMMA BridgeStep == BridgeInv /\ [BridgeNext]_bvars => BridgeInv'
<1> SUFFICES ASSUME BridgeInv, [BridgeNext]_bvars
             PROVE  BridgeInv'
  OBVIOUS
<1>1. ASSUME NEW t \in Turns, Ask(t) \/ StopsReading(t) \/ RunSteps(t) \/ Crash(t)
      PROVE  BridgeInv'
  BY <1>1, AskKeeps, ReadersKeep, RunKeeps, RelayKeeps DEF RunSteps
<1>2. ASSUME NEW c \in Links, LinkSteps(c)
      PROVE  BridgeInv'
  BY <1>2, OpenedKeeps, HearsKeeps, ClosedKeeps, AcceptKeeps, PageClosesKeeps, ReceiveKeeps DEF LinkSteps
<1>3. CASE Leaves \/ Watch \/ Unwatch \/ Reconnects \/ Start \/ Stop \/ IdleFires
  BY <1>3, LeavesKeeps, ReadersKeep, StartKeeps, StopKeeps
<1>4. CASE UNCHANGED bvars
  BY <1>4 DEF bvars, BridgeInv, BridgeType, RunsHeld, OnOneLink, AskedOnce, Flows, InFlight, Flow,
              OwnFrames, Counted, Carries, Sent, Unasked
<1> QED BY <1>1, <1>2, <1>3, <1>4 DEF BridgeNext

(* Whatever the page, its readers and the bridge do: a turn reads its own  *)
(* frames only, all of them and in order (assistant.ts), and the bridge    *)
(* counts exactly the ws it holds (serve.ts).                              *)
THEOREM TurnsOwnTheirFrames == BridgeSpec => [](OwnFrames /\ Counted)
<1>1. BridgeInv => OwnFrames /\ Counted
  BY DEF BridgeInv
<1> QED BY <1>1, BridgeInitially, BridgeStep, PTL DEF BridgeSpec

-----------------------------------------------------------------------------
(* The presence. A page that asks while it is available, and whose readers *)
(* do not come back while a ws closes or is to be retried, holds one ws.   *)
Quiet == ~ AsksEarly /\ ~ ReadersReturn

Held(l) == l.client \in {"connecting", "open", "closing"}

Presence(s) ==
    /\ \A c \in Links :
           /\ s.link[c].client \in {"connecting", "open"} => s.conn.socket = c
           /\ s.link[c].client = "open" => s.conn.connected
           /\ s.link[c].client = "closing" => ~ s.conn.watched /\ s.conn.socket = 0
           /\ s.link[c].client = "left" => s.conn.socket # c
           /\ s.conn.retries > 0 => ~ Held(s.link[c])
           /\ s.link[c].waits = {}
    /\ \A c, d \in Links : s.link[c].client = "closing" /\ s.link[d].client = "closing" => c = d
    /\ s.conn.retries <= 1
    /\ s.conn.connected => \E c \in Links : s.link[c].client \in {"open", "closing"}
    /\ \A t \in Turns : s.turn[t].at # "awaiting"

Present == Presence(S)

LEMMA PresentIs == ASSUME NEW u \in Page, PageIs(u), Presence(u) PROVE Present'
BY DEF Present, Presence, Held, S, PageIs

(* Nothing happens to what the presence is about.                          *)
LEMMA PresentStays ==
    ASSUME BridgeType, Present, conn' = conn,
           \A t \in Turns : turn'[t].at = turn[t].at,
           \A c \in Links : /\ link'[c].waits \subseteq link[c].waits
                            /\ \/ link'[c].client = link[c].client
                               \/ link[c].client = "left" /\ link'[c].client = "none"
    PROVE  Present'
BY DEF Present, Presence, Held, S

LEMMA IdledPresent ==
    ASSUME NEW s \in Page, NEW u \in Page, Presence(s), Idled(s, u),
           \A c \in Links : u.link[c].waits = {},
           \A t \in Turns : u.turn[t].at # "awaiting"
    PROVE  Presence(u)
<1>1. CASE u.conn = s.conn /\ \A d \in Links : u.link[d].client = s.link[d].client
  BY <1>1 DEF Presence, Held
<1>2. CASE /\ ~ s.conn.watched /\ s.conn.socket \in Links /\ s.conn.socket # 0
           /\ u.conn = [s.conn EXCEPT !.socket = 0]
           /\ \A d \in Links : u.link[d].client =
                  IF d = s.conn.socket /\ s.link[s.conn.socket].client # "none" THEN "closing"
                  ELSE s.link[d].client
  <2>1. PICK c \in Links : c = s.conn.socket
    BY <1>2
  <2>2. /\ u.conn.socket = 0 /\ ~ u.conn.watched /\ u.conn.connected = s.conn.connected
        /\ u.conn.retries = s.conn.retries /\ c # 0
    BY <1>2, <2>1 DEF Page, ConnectionState
  <2>3. \A d \in Links : u.link[d].client =
            IF d = c /\ s.link[c].client # "none" THEN "closing" ELSE s.link[d].client
    BY <1>2, <2>1
  <2>4. /\ s.link[c].client \in {"none", "connecting", "open"}
        /\ \A d \in Links : d # c => s.link[d].client \in {"none", "left"}
    <3>1. \A d \in Links : s.link[d].client \in {"none", "connecting", "open", "closing", "left"}
      BY DEF Page, Link
    <3> QED BY <2>1, <2>2, <3>1 DEF Presence
  <2>5. \A d \in Links : u.link[d].client \in {"none", "left", "closing"} /\ (u.link[d].client = "closing" => d = c)
    BY <2>3, <2>4
  <2>6. u.conn.retries > 0 => \A d \in Links : ~ Held(u.link[d])
    <3>1. s.conn.retries > 0 => s.link[c].client = "none"
      BY <2>4 DEF Presence, Held
    <3> QED BY <2>2, <2>3, <2>5, <3>1 DEF Held
  <2>7. u.conn.connected => u.link[c].client = "closing"
    <3>1. s.conn.connected => s.link[c].client = "open"
      BY <2>4 DEF Presence
    <3> QED BY <2>2, <2>3, <3>1
  <2>8. u.conn.retries <= 1
    BY <2>2 DEF Presence
  <2>9. \A d \in Links : /\ u.link[d].client \notin {"connecting", "open"}
                         /\ d # u.conn.socket
    BY <2>2, <2>5, BridgeAssumption DEF Links
  <2> QED BY ONLY <2>2, <2>5, <2>6, <2>7, <2>8, <2>9, c \in Links,
                  \A d \in Links : u.link[d].waits = {},
                  \A t \in Turns : u.turn[t].at # "awaiting" DEF Presence
<1> QED BY <1>1, <1>2 DEF Idled

(* A ws is opened only where there is none.                                *)
LEMMA OpenPresent ==
    ASSUME NEW s \in Page, NEW c \in Links, Presence(s), s.conn.retries = 0, c # 0,
           \A d \in Links : ~ Held(s.link[d])
    PROVE  Presence(open(s, c))
<1> DEFINE u == open(s, c)
<1>1. /\ u \in Page /\ u.turn = s.turn
      /\ u.conn = [s.conn EXCEPT !.socket = c, !.opened = c, !.resolved = FALSE]
      /\ \A d \in Links : /\ SameWs(s.link[d], u.link[d])
                          /\ u.link[d].client = IF d = c THEN "connecting" ELSE s.link[d].client
  BY ONLY s \in Page, c \in Links, OpenProperties
<1> HIDE DEF u
<1>2. /\ u.conn.socket = c /\ u.conn.watched = s.conn.watched
      /\ u.conn.connected = s.conn.connected /\ u.conn.retries = 0
  BY <1>1 DEF Page, ConnectionState
<1>3. ~ s.conn.connected
  BY DEF Presence, Held
<1>4. \A d \in Links : /\ u.link[d].waits = {}
                       /\ u.link[d].client # "open" /\ u.link[d].client # "closing"
                       /\ u.link[d].client = "connecting" => d = c
                       /\ u.link[d].client = "left" => d # c
  BY <1>1 DEF Presence, Held, SameWs
<1>5. \A t \in Turns : u.turn[t].at # "awaiting"
  BY <1>1 DEF Presence
<1>6. Presence(u)
  BY <1>2, <1>3, <1>4, <1>5 DEF Presence
<1> QED BY <1>6 DEF u

LEMMA AskPresent ==
    ASSUME BridgeInv, Present, Quiet, NEW t \in Turns, Ask(t)
    PROVE  Present'
<1> DEFINE x == [turn[t] EXCEPT !.listed = TRUE]
           s == [S EXCEPT !.turn[t].listed = TRUE]
           u == goesOn(s, {t})
<1>1. S \in Page /\ S.conn = conn /\ S.turn = turn /\ S.link = link /\ turn[t] \in Turn /\ Presence(S)
  BY PageIsPage DEF BridgeInv, BridgeType, Present
<1>2. conn.connected /\ conn.socket # 0 /\ link[conn.socket].client = "open"
  <2>1. conn.connected /\ conn.socket # 0
    BY DEF Ask, Quiet
  <2>2. PICK c \in Links : link[c].client \in {"open", "closing"}
    BY <1>1, <2>1 DEF Presence
  <2> QED BY <1>1, <2>1, <2>2 DEF Presence
<1>3. x \in Turn /\ x.listed
  BY <1>1 DEF Turn
<1>4. s = [S EXCEPT !.turn = [turn EXCEPT ![t] = x]]
  BY <1>1
<1> HIDE DEF x
<1>5. /\ s \in Page /\ s.conn = conn /\ s.link = link
      /\ \A d \in Turns : s.turn[d] = IF d = t THEN x ELSE turn[d]
  <2> HIDE DEF s
  <2>1. /\ s \in Page /\ s.conn = conn /\ s.link = link /\ s.turn = [turn EXCEPT ![t] = x]
    BY <1>1, <1>3, <1>4 DEF Page
  <2> QED BY <1>1, <2>1 DEF Page
<1>6. PageIs(u)
  <2>1. ensureOpen(s, AnyFree) = s
    <3> HIDE DEF s
    <3> QED BY <1>2, <1>5 DEF ensureOpen
  <2>2. PageIs(IF ensureOpen(s, AnyFree).conn.connected \/ ensureOpen(s, AnyFree).conn.resolved
               THEN goesOn(ensureOpen(s, AnyFree), {t})
               ELSE [ensureOpen(s, AnyFree) EXCEPT !.turn[t].at = "awaiting",
                         !.link[ensureOpen(s, AnyFree).conn.opened].waits = @ \cup {t}])
    BY DEF Ask
  <2> HIDE DEF s, u
  <2>3. PageIs(IF s.conn.connected \/ s.conn.resolved THEN goesOn(s, {t})
               ELSE [s EXCEPT !.turn[t].at = "awaiting", !.link[s.conn.opened].waits = @ \cup {t}])
    BY ONLY <2>1, <2>2
  <2>4. s.conn.connected
    BY <1>2, <1>5
  <2> QED BY ONLY <2>3, <2>4 DEF u
<1> HIDE DEF s
<1>7. {t} \in SUBSET Turns /\ (\A d \in {t} : s.turn[d].listed)
      /\ (s.conn.socket # 0 => s.link[s.conn.socket].client # "connecting")
  BY <1>2, <1>3, <1>5
<1>8. /\ u \in Page /\ u.conn = s.conn
      /\ \A d \in Links : u.link[d].client = s.link[d].client /\ u.link[d].waits = s.link[d].waits
      /\ \A d \in Turns : /\ d # t => u.turn[d] = s.turn[d]
                          /\ d = t => u.turn[d].at = "reading"
  <2>1. s \in Page /\ {t} \in SUBSET Turns
    BY <1>5
  <2>2. u \in Page /\ u.conn = s.conn /\ \A d \in Links : u.link[d].client = s.link[d].client
    BY ONLY <1>7, <2>1, GoesOnProperties
  <2>3. \A d \in {t} : u.turn[d].at = "reading"
    BY ONLY <1>7, <2>1, GoesOnProperties
  <2>4. \A d \in Turns : d \notin {t} => u.turn[d] = s.turn[d]
    BY ONLY <2>1, GoesOnProperties
  <2>5. \A d \in Links : u.link[d].waits = s.link[d].waits
    BY ONLY <2>1, GoesOnProperties
  <2> QED BY ONLY <2>2, <2>3, <2>4, <2>5
<1> HIDE DEF u
<1>9. Presence(u)
  <2>1. u.conn = conn /\ \A d \in Links : u.link[d].client = link[d].client /\ u.link[d].waits = link[d].waits
    BY <1>5, <1>8
  <2>2. \A d \in Turns : u.turn[d].at # "awaiting"
    BY <1>1, <1>5, <1>8 DEF Presence
  <2> QED BY ONLY <1>1, <2>1, <2>2 DEF Presence, Held
<1> QED BY <1>6, <1>8, <1>9, PresentIs

LEMMA OpenedPresent ==
    ASSUME BridgeInv, Present, NEW c \in Links, Opened(c)
    PROVE  Present'
<1> DEFINE T == link[c].waits
           l == [link[c] EXCEPT !.client = "open", !.waits = {}]
           k == [conn EXCEPT !.connected = TRUE, !.resolved = IF conn.opened = c THEN TRUE ELSE conn.resolved]
           s == [S EXCEPT !.conn = k, !.link[c] = l]
           u == goesOn(s, T)
<1>1. S \in Page /\ S.conn = conn /\ S.turn = turn /\ S.link = link /\ link[c] \in Link
      /\ conn \in ConnectionState /\ link \in [Links -> Link] /\ Presence(S) /\ link[c].client = "connecting"
  BY PageIsPage DEF BridgeInv, BridgeType, Present, Opened
<1>2. l \in Link /\ l.client = "open" /\ l.waits = {}
  BY <1>1 DEF Link
<1>3. /\ k \in ConnectionState /\ k.connected /\ k.socket = conn.socket
      /\ k.watched = conn.watched /\ k.retries = conn.retries
  BY <1>1 DEF ConnectionState
<1>4. s = [S EXCEPT !.conn = k, !.link = [link EXCEPT ![c] = l]]
  <2> HIDE DEF k, l
  <2> QED BY <1>1
<1>5. PageIs(u) /\ T = {}
  BY <1>1 DEF Opened, Presence
<1> HIDE DEF k, s, T, l
<1>6. s \in Page /\ s.conn = k /\ s.turn = turn /\ \A d \in Links : s.link[d] = IF d = c THEN l ELSE link[d]
  BY <1>1, <1>2, <1>3, <1>4 DEF Page
<1>7. /\ u \in Page /\ u.conn = s.conn
      /\ \A d \in Links : u.link[d].client = s.link[d].client /\ u.link[d].waits = s.link[d].waits
      /\ \A t \in Turns : u.turn[t] = s.turn[t]
  <2>1. s \in Page /\ T \in SUBSET Turns
    BY <1>5, <1>6
  <2>2. u \in Page /\ (T = {} => u.conn = s.conn /\ \A d \in Links : u.link[d].client = s.link[d].client)
    BY ONLY <2>1, GoesOnProperties
  <2>3. \A t \in Turns : t \notin T => u.turn[t] = s.turn[t]
    BY ONLY <2>1, GoesOnProperties
  <2>4. \A d \in Links : u.link[d].waits = s.link[d].waits
    BY ONLY <2>1, GoesOnProperties
  <2> QED BY <1>5, <2>2, <2>3, <2>4
<1> HIDE DEF u
<1>8. conn.socket = c /\ conn.retries = 0 /\ \A d \in Links : d # c => ~ Held(link[d])
  <2>1. conn.socket = c /\ c # 0 /\ conn.retries <= 1 /\ ~ (conn.retries > 0)
    BY <1>1, BridgeAssumption DEF Presence, Held, Links
  <2> QED BY <1>1, <2>1 DEF Presence, Held, ConnectionState
<1>9. Presence(u)
  <2>1. /\ u.conn.connected /\ u.conn.socket = c /\ u.conn.retries = 0
        /\ \A d \in Links : /\ u.link[d].client = IF d = c THEN "open" ELSE link[d].client
                            /\ u.link[d].waits = {}
        /\ \A t \in Turns : u.turn[t].at # "awaiting"
    BY <1>1, <1>2, <1>3, <1>6, <1>7, <1>8 DEF Presence
  <2>2. \A d \in Links : d # c => link[d].client \notin {"connecting", "open", "closing"}
    BY <1>8 DEF Held
  <2> QED BY ONLY <2>1, <2>2, c \in Links DEF Presence, Held
<1> QED BY <1>5, <1>7, <1>9, PresentIs

LEMMA HearsPresent ==
    ASSUME BridgeInv, Present, NEW c \in Links, Hears(c)
    PROVE  Present'
<1>1. PICK u \in Page : PageIs(u) /\ Idled(S, u)
  BY ONLY BridgeInv, c \in Links, Hears(c), HearsMoves
<1>2. /\ \A d \in Links : link'[d].waits = link[d].waits
      /\ \A t \in Turns : turn'[t].at \in {turn[t].at, "ended"}
  <2>1. \A d \in Links : link'[d].waits = link[d].waits
    BY ONLY BridgeInv, c \in Links, Hears(c), HearsMoves
  <2>2. \A t \in Turns : turn'[t].at \in {turn[t].at, "ended"}
    BY ONLY BridgeInv, c \in Links, Hears(c), HearsMoves
  <2> QED BY <2>1, <2>2
<1>3. S \in Page /\ S.conn = conn /\ S.turn = turn /\ S.link = link /\ Presence(S)
  BY PageIsPage DEF BridgeInv, Present
<1>4. /\ \A d \in Links : u.link[d].waits = {}
      /\ \A t \in Turns : u.turn[t].at # "awaiting"
  BY <1>1, <1>2, <1>3 DEF Presence, PageIs
<1>5. Presence(u)
  BY <1>1, <1>3, <1>4, IdledPresent
<1> QED BY <1>1, <1>5, PresentIs

LEMMA ClosedPresent ==
    ASSUME BridgeInv, Present, NEW c \in Links, Closed(c)
    PROVE  Present'
<1> DEFINE f == [t \in Turns |-> [turn[t] EXCEPT !.listed = FALSE]]
           k == [conn EXCEPT !.connected = FALSE,
                             !.retries = IF conn.watched THEN conn.retries + 1 ELSE conn.retries]
           s == [Forgot(c) EXCEPT !.turn = f]
           T == {t \in inflight(S) : turn[t].at = "reading"}
           u == ends(s, T)
<1>1. S \in Page /\ S.conn = conn /\ S.turn = turn /\ S.link = link /\ conn \in ConnectionState
      /\ turn \in [Turns -> Turn] /\ link \in [Links -> Link] /\ Presence(S)
  BY PageIsPage DEF BridgeInv, BridgeType, Present
<1>2. NoLink \in Link /\ NoLink.client = "none" /\ NoLink.waits = {}
  BY EmptySeq DEF NoLink, Link
<1>3. f \in [Turns -> Turn] /\ \A t \in Turns : f[t].at = turn[t].at
  BY <1>1 DEF Turn
<1>4. conn.retries < MaxLinks /\ Held(link[c])
  BY DEF Closed, Gone, Held
<1>5. conn.retries = 0
  BY <1>1, <1>4 DEF Presence, ConnectionState
<1>6. /\ k \in ConnectionState /\ ~ k.connected /\ k.socket = conn.socket /\ k.watched = conn.watched
      /\ k.retries = IF conn.watched THEN 1 ELSE 0
  <2>1. 0 \in 0 .. MaxLinks /\ 1 \in 0 .. MaxLinks
    BY <1>4, <1>5, BridgeAssumption
  <2> DEFINE r == IF conn.watched THEN conn.retries + 1 ELSE conn.retries
  <2>2. r \in 0 .. MaxLinks /\ r = IF conn.watched THEN 1 ELSE 0
    BY <1>5, <2>1
  <2> HIDE DEF r
  <2>3. k = [conn EXCEPT !.connected = FALSE, !.retries = r]
    BY DEF r
  <2> HIDE DEF k
  <2> QED BY <1>1, <2>2, <2>3 DEF ConnectionState
<1>7. s = [S EXCEPT !.conn = k, !.turn = f, !.link = [link EXCEPT ![c] = NoLink]]
  BY <1>1 DEF Forgot, Page, ConnectionState
<1>8. T \in SUBSET Turns /\ PageIs(u)
  BY DEF Closed, inflight
<1> HIDE DEF f, k, s, T
<1>9. s \in Page /\ s.conn = k /\ s.turn = f /\ \A d \in Links : s.link[d] = IF d = c THEN NoLink ELSE link[d]
  BY <1>1, <1>2, <1>3, <1>6, <1>7 DEF Page
<1>10. \A d \in Links : /\ s.link[d].client = IF d = c THEN "none" ELSE link[d].client
                        /\ s.link[d].waits = {}
  BY <1>1, <1>2, <1>9 DEF Presence
<1>11. Presence(s)
  <2>1. \A d \in Links : d # c => link[d].client \notin {"open"} /\ (conn.watched => ~ Held(link[d]))
    BY <1>1, <1>4, BridgeAssumption DEF Presence, Held, Links
  <2>2. \A t \in Turns : s.turn[t].at # "awaiting"
    BY <1>1, <1>3, <1>9 DEF Presence
  <2>3. /\ ~ s.conn.connected /\ s.conn.socket = conn.socket /\ s.conn.watched = conn.watched
        /\ s.conn.retries = IF conn.watched THEN 1 ELSE 0
    BY <1>6, <1>9
  <2> QED BY ONLY <1>1, <1>10, <2>1, <2>2, <2>3 DEF Presence, Held
<1>12. /\ u \in Page /\ Idled(s, u)
       /\ \A d \in Links : SameWs(s.link[d], u.link[d])
       /\ \A t \in Turns : u.turn[t].at \in {s.turn[t].at, "ended"}
  <2>1. s \in Page /\ T \in SUBSET Turns
    BY <1>8, <1>9
  <2>2. Idled(s, u)
    BY ONLY <2>1, EndsIdles
  <2>3. u \in Page /\ \A d \in Links : SameWs(s.link[d], u.link[d])
    BY ONLY <2>1, EndsProperties
  <2>4. \A t \in Turns : /\ u.turn[t].got = s.turn[t].got
                         /\ t \notin T => u.turn[t] = s.turn[t]
                         /\ t \in T => u.turn[t].at = "ended" /\ ~ u.turn[t].listed
    BY ONLY <2>1, EndsProperties
  <2> QED BY <2>2, <2>3, <2>4
<1> HIDE DEF u
<1>13. Presence(u)
  <2>1. \A t \in Turns : u.turn[t].at # "awaiting"
    BY <1>11, <1>12 DEF Presence
  <2>2. \A d \in Links : u.link[d].waits = {}
    BY <1>10, <1>12 DEF SameWs
  <2> QED BY <1>9, <1>11, <1>12, <2>1, <2>2, IdledPresent
<1> QED BY <1>8, <1>12, <1>13, PresentIs

LEMMA ReadersPresent ==
    ASSUME BridgeInv, Present, Quiet, Watch \/ Unwatch \/ Reconnects
    PROVE  Present'
<1>1. S \in Page /\ S.conn = conn /\ S.turn = turn /\ S.link = link /\ conn \in ConnectionState /\ Presence(S)
  BY PageIsPage DEF BridgeInv, BridgeType, Present
<1>2. CASE Watch
  <2> DEFINE k == [conn EXCEPT !.watched = TRUE]
             s == [S EXCEPT !.conn.watched = TRUE]
             u == ensureOpen(s, AnyFree)
  <2>1. /\ k \in ConnectionState /\ k.socket = conn.socket /\ k.connected = conn.connected
        /\ k.retries = conn.retries /\ k.watched
    BY <1>1 DEF ConnectionState
  <2>2. s = [S EXCEPT !.conn = k]
    BY <1>1 DEF Page, ConnectionState
  <2>3. PageIs(u) /\ (conn.socket = 0 => FreeLinks # {}) /\ conn.retries = 0
        /\ \A c \in Links : link[c].client # "closing"
    BY <1>2 DEF Watch, Quiet
  <2> HIDE DEF k, s
  <2>4. s \in Page /\ s.conn = k /\ s.turn = turn /\ s.link = link
    BY <1>1, <2>1, <2>2 DEF Page
  <2>5. Presence(s)
    BY ONLY <1>1, <2>1, <2>3, <2>4 DEF Presence, Held
  <2>6. CASE conn.socket = 0
    <3>1. AnyFree \in Links /\ AnyFree # 0 /\ u = open(s, AnyFree)
      BY <2>1, <2>3, <2>4, <2>6, FreeLink DEF ensureOpen
    <3>2. \A d \in Links : ~ Held(s.link[d])
      BY <2>1, <2>3, <2>4, <2>5, <2>6, BridgeAssumption DEF Presence, Held, Links
    <3>3. Presence(open(s, AnyFree)) /\ open(s, AnyFree) \in Page
      BY <2>1, <2>3, <2>4, <2>5, <3>1, <3>2, OpenPresent, OpenProperties
    <3> QED BY <2>3, <3>1, <3>3, PresentIs
  <2>7. CASE conn.socket # 0
    <3>1. u = s
      BY <2>1, <2>4, <2>7 DEF ensureOpen
    <3> QED BY <2>3, <2>4, <2>5, <3>1, PresentIs
  <2> QED BY <2>6, <2>7
<1>3. CASE Unwatch
  <2> DEFINE k == [conn EXCEPT !.watched = FALSE]
             s == [S EXCEPT !.conn.watched = FALSE]
             u == closeIfIdle(s)
  <2>1. /\ k \in ConnectionState /\ k.socket = conn.socket /\ k.connected = conn.connected
        /\ k.retries = conn.retries /\ ~ k.watched
    BY <1>1 DEF ConnectionState
  <2>2. s = [S EXCEPT !.conn = k]
    BY <1>1 DEF Page, ConnectionState
  <2>3. PageIs(u)
    BY <1>3 DEF Unwatch
  <2> HIDE DEF k, s
  <2>4. s \in Page /\ s.conn = k /\ s.turn = turn /\ s.link = link
    BY <1>1, <2>1, <2>2 DEF Page
  <2>5. Presence(s)
    BY ONLY <1>1, <2>1, <2>4 DEF Presence, Held
  <2>6. u \in Page /\ u.turn = s.turn /\ Idled(s, u) /\ \A d \in Links : SameWs(s.link[d], u.link[d])
    <3>1. s \in Page
      BY <2>4
    <3>2. Idled(s, u)
      BY ONLY <3>1, IdleIdles
    <3>3. u \in Page /\ u.turn = s.turn /\ \A d \in Links : SameWs(s.link[d], u.link[d])
      BY ONLY <3>1, IdleProperties
    <3> QED BY <3>2, <3>3
  <2> HIDE DEF u
  <2>7. (\A d \in Links : u.link[d].waits = {}) /\ \A t \in Turns : u.turn[t].at # "awaiting"
    BY <2>5, <2>6 DEF Presence, SameWs
  <2>8. Presence(u)
    BY <2>4, <2>5, <2>6, <2>7, IdledPresent
  <2> QED BY <2>3, <2>6, <2>8, PresentIs
<1>4. CASE Reconnects
  <2> DEFINE k == [conn EXCEPT !.retries = conn.retries - 1]
             s == [S EXCEPT !.conn.retries = @ - 1]
             u == IF conn.watched THEN open(s, AnyFree) ELSE s
  <2>1. conn.retries = 1 /\ PageIs(u) /\ (conn.watched => FreeLinks # {})
    BY <1>1, <1>4 DEF Reconnects, Presence, ConnectionState
  <2>2. /\ k \in ConnectionState /\ k.socket = conn.socket /\ k.connected = conn.connected
        /\ k.retries = 0 /\ k.watched = conn.watched
    BY <1>1, <2>1, BridgeAssumption DEF ConnectionState
  <2>3. s = [S EXCEPT !.conn = k]
    BY <1>1 DEF Page, ConnectionState
  <2> HIDE DEF k, s
  <2>4. s \in Page /\ s.conn = k /\ s.turn = turn /\ s.link = link
    BY <1>1, <2>2, <2>3 DEF Page
  <2>5. \A d \in Links : ~ Held(s.link[d])
    BY <1>1, <2>1, <2>4 DEF Presence
  <2>6. Presence(s)
    BY ONLY <1>1, <2>2, <2>4, <2>5 DEF Presence, Held
  <2>7. CASE conn.watched
    <3>1. AnyFree \in Links /\ AnyFree # 0
      BY <2>1, <2>7, FreeLink
    <3>2. Presence(open(s, AnyFree)) /\ open(s, AnyFree) \in Page
      BY <2>2, <2>4, <2>5, <2>6, <3>1, OpenPresent, OpenProperties
    <3> QED BY <2>1, <2>7, <3>2, PresentIs
  <2>8. CASE ~ conn.watched
    BY <2>1, <2>4, <2>6, <2>8, PresentIs
  <2> QED BY <2>7, <2>8
<1> QED BY <1>2, <1>3, <1>4

LEMMA LeavesPresent ==
    ASSUME BridgeInv, Leaves
    PROVE  Present'
<1>1. /\ ~ conn'.connected /\ conn'.socket = 0 /\ conn'.retries = 0
      /\ \A c \in Links : link'[c].client \in {"left", "none"} /\ link'[c].waits = {} /\ c # 0
      /\ \A t \in Turns : turn'[t].at # "awaiting"
  <2>1. conn' = NoConnection
    BY DEF Leaves
  <2>2. \A c \in Links : link'[c].client \in {"left", "none"} /\ link'[c].waits = {}
    BY DEF Leaves, BridgeInv, BridgeType, Link, NoLink
  <2>3. \A t \in Turns : turn'[t].at # "awaiting"
    BY DEF Leaves, BridgeInv, BridgeType, Turn
  <2> QED BY <2>1, <2>2, <2>3, BridgeAssumption DEF NoConnection, Links
<1>2. S'.conn = conn' /\ S'.link = link' /\ S'.turn = turn'
  BY DEF S
<1> QED BY <1>1, <1>2 DEF Present, Presence, Held

(* Of what the bridge does, the page's end of a ws sees nothing.           *)
LEMMA BridgePresent ==
    ASSUME BridgeInv, Present,
           \/ Start \/ Stop \/ IdleFires \/ UNCHANGED bvars
           \/ \E t \in Turns : StopsReading(t) \/ RunSteps(t) \/ Crash(t)
           \/ \E c \in Links : Accept(c) \/ PageCloses(c) \/ \E t \in Turns : Receive(c, t)
    PROVE  Present'
<1>1. BridgeType /\ link \in [Links -> Link] /\ turn \in [Turns -> Turn]
  BY DEF BridgeInv, BridgeType
<1>2. ASSUME UNCHANGED <<conn, turn, link>>
      PROVE  Present'
  BY <1>1, <1>2, PresentStays
<1>3. \A l \in Link : LET m == serverGone(l)
                      IN  /\ m.waits \subseteq l.waits
                          /\ m.client = l.client \/ (l.client = "left" /\ m.client = "none")
  BY DEF serverGone, Link, NoLink
<1>4. CASE Start \/ IdleFires \/ UNCHANGED bvars \/ \E t \in Turns : Spawn(t) \/ Crash(t)
  BY <1>2, <1>4 DEF Start, IdleFires, bvars, Spawn, Crash
<1>5. CASE Stop
  <2>1. \A c \in Links : /\ link'[c].waits \subseteq link[c].waits
                         /\ \/ link'[c].client = link[c].client
                            \/ link[c].client = "left" /\ link'[c].client = "none"
    BY <1>1, <1>3, <1>5 DEF Stop
  <2> QED BY <1>1, <1>5, <2>1, PresentStays DEF Stop
<1>6. ASSUME NEW t \in Turns, StopsReading(t)
      PROVE  Present'
  <2>1. \A d \in Turns : turn'[d].at = turn[d].at
    BY <1>1, <1>6 DEF StopsReading, Turn
  <2> QED BY <1>1, <1>6, <2>1, PresentStays DEF StopsReading
<1>7. ASSUME NEW t \in Turns, Delta(t) \/ Result(t)
      PROVE  Present'
  <2>1. \A c \in Links : link'[c].waits = link[c].waits /\ link'[c].client = link[c].client
    <3>1. PICK n : Relay(t, n)
      BY <1>7 DEF Delta, Result
    <3> DEFINE o == run[t].link
               p == Append(link[o].down, [turn |-> t, n |-> n])
               m == [link[o] EXCEPT !.down = p]
    <3>2. link' = IF o = 0 THEN link ELSE [link EXCEPT ![o] = m]
      BY <3>1 DEF Relay
    <3> HIDE DEF p
    <3>3. \A l \in Link : [l EXCEPT !.down = p].waits = l.waits /\ [l EXCEPT !.down = p].client = l.client
      BY DEF Link
    <3>4. o \in Links => m.waits = link[o].waits /\ m.client = link[o].client
      BY <1>1, <3>3
    <3> HIDE DEF m, o
    <3> QED BY <1>1, <3>2, <3>4
  <2>2. conn' = conn /\ turn' = turn
    BY <1>7 DEF Delta, Result
  <2> QED BY <1>1, <2>1, <2>2, PresentStays
<1>8. ASSUME NEW c \in Links, Accept(c) \/ \E t \in Turns : Receive(c, t)
      PROVE  Present'
  <2>1. \A d \in Links : link'[d].waits = link[d].waits /\ link'[d].client = link[d].client
    <3>1. CASE Accept(c)
      BY <1>1, <3>1 DEF Accept, Link
    <3>2. CASE \E t \in Turns : Receive(c, t)
      BY <1>1, <3>2 DEF Receive, Link
    <3> QED BY <1>8, <3>1, <3>2
  <2>2. conn' = conn /\ turn' = turn
    BY <1>8 DEF Accept, Receive
  <2> QED BY <1>1, <2>1, <2>2, PresentStays
<1>9. ASSUME NEW c \in Links, PageCloses(c)
      PROVE  Present'
  <2>1. \A d \in Links : link'[d] = IF d = c THEN serverGone(link[c]) ELSE link[d]
    BY <1>1, <1>9 DEF PageCloses
  <2>2. \A d \in Links : /\ link'[d].waits \subseteq link[d].waits
                         /\ \/ link'[d].client = link[d].client
                            \/ link[d].client = "left" /\ link'[d].client = "none"
    BY <1>1, <1>3, <2>1
  <2> QED BY <1>1, <1>9, <2>2, PresentStays DEF PageCloses
<1> QED BY <1>4, <1>5, <1>6, <1>7, <1>8, <1>9 DEF RunSteps

LEMMA PresentInitially == BridgeInit => Present
<1> SUFFICES ASSUME BridgeInit
             PROVE  Present
  OBVIOUS
<1>1. S.conn = NoConnection /\ \A t \in Turns : S.turn[t].at = "idle"
  BY DEF S, BridgeInit
<1>2. \A c \in Links : S.link[c].client = "none" /\ S.link[c].waits = {}
  BY DEF S, BridgeInit, NoLink
<1> QED BY <1>1, <1>2 DEF Present, Presence, Held, NoConnection

LEMMA PresentStep == BridgeInv /\ Present /\ Quiet /\ [BridgeNext]_bvars => Present'
<1> SUFFICES ASSUME BridgeInv, Present, Quiet, [BridgeNext]_bvars
             PROVE  Present'
  OBVIOUS
<1>1. ASSUME NEW t \in Turns, Ask(t) \/ StopsReading(t) \/ RunSteps(t) \/ Crash(t)
      PROVE  Present'
  BY <1>1, AskPresent, BridgePresent
<1>2. ASSUME NEW c \in Links, LinkSteps(c)
      PROVE  Present'
  BY <1>2, OpenedPresent, HearsPresent, ClosedPresent, BridgePresent DEF LinkSteps
<1>3. CASE Leaves \/ Watch \/ Unwatch \/ Reconnects \/ Start \/ Stop \/ IdleFires
  BY <1>3, LeavesPresent, ReadersPresent, BridgePresent
<1>4. CASE UNCHANGED bvars
  BY <1>4, BridgePresent
<1> QED BY <1>1, <1>2, <1>3, <1>4 DEF BridgeNext

LEMMA PresentIsSound == BridgeInv /\ Present => BridgeSound
<1> SUFFICES ASSUME BridgeInv, Present
             PROVE  BridgeSound
  OBVIOUS
<1>1. S.conn = conn /\ S.link = link /\ Presence(S)
  BY PageIsPage DEF BridgeInv, Present
<1>2. OneSocket
  <2> DEFINE O == {c \in Links : link[c].client \in {"connecting", "open"}}
  <2>1. O \in SUBSET Links /\ O \subseteq {conn.socket}
    BY <1>1 DEF Presence
  <2> HIDE DEF O
  <2>2. IsFiniteSet({conn.socket}) /\ Cardinality({conn.socket}) = 1
    BY FS_Singleton
  <2>3. Cardinality(O) <= 1
    BY <2>1, <2>2, FS_Subset
  <2> QED BY <2>3 DEF OneSocket, O
<1>3. PresenceSound
  BY <1>1, <1>2 DEF PresenceSound, Presence, BridgeInv, Counted
<1> QED BY <1>3 DEF BridgeSound, BridgeInv

(* A page that asks while it is available, and whose readers do not come   *)
(* back while a ws closes, holds one ws and shows the truth about it, its  *)
(* bridge and its turns (assistant.ts, serve.ts).                          *)
THEOREM BridgeIsSound == Quiet => (BridgeSpec => []BridgeSound)
<1>1. BridgeInit => BridgeInv /\ Present
  BY BridgeInitially, PresentInitially
<1>2. Quiet /\ BridgeInv /\ Present /\ [BridgeNext]_bvars => BridgeInv' /\ Present'
  BY BridgeStep, PresentStep
<1>3. BridgeInv /\ Present => BridgeSound
  BY PresentIsSound
<1> SUFFICES ASSUME Quiet
             PROVE  BridgeSpec => []BridgeSound
  OBVIOUS
<1>4. BridgeInv /\ Present /\ [BridgeNext]_bvars => BridgeInv' /\ Present'
  BY <1>2
<1> QED BY <1>1, <1>3, <1>4, PTL DEF BridgeSpec

-----------------------------------------------------------------------------
(* The CLI: that a session owns what runs, for any number of sites,        *)
(* addresses and instances. SessionOwns is not inductive as it stands: it  *)
(* needs that nothing is left over in `next` once the wait for it is over, *)
(* and RecordFollows that what is waited for is of the kind the wait is for.*)

WaitsForItsKind ==
    /\ cli.at \in {"new", "prompt", "command"} => cli.next = NoTarget
    /\ cli.at = "probing" => cli.next.url \in Sites /\ cli.next.child = Nobody
    /\ cli.at = "waiting" => cli.next.url \in Addresses /\ cli.next.child \in Instances

OpenedOnce ==
    /\ cli.at = "new" => cli.current = NoTarget
    /\ cli.at = "prompt" => cli.mode = "session"
    /\ cli.at = "command" => cli.mode \in {"once", "session"}
    /\ cli.at \in {"probing", "waiting"} /\ cli.mode # "session" => cli.current = NoTarget

CliInv == CliType /\ SessionSound /\ WaitsForItsKind /\ OpenedOnce

-----------------------------------------------------------------------------
LEMMA NoInstanceType == NoInstance \in Instance
<1>1. TheAddress \in Addresses
  BY CliAssumption DEF TheAddress
<1> QED BY <1>1 DEF NoInstance, Instance

(* What is killed is gone, and the others are as they were.                *)
LEMMA KilledProperties ==
    ASSUME instance \in [Instances -> Instance], NEW c
    PROVE  /\ killed(c) \in [Instances -> Instance]
           /\ c \in Instances => killed(c)[c].at = "none"
           /\ \A d \in Instances : d # c => killed(c)[d] = instance[d]
BY NoInstanceType DEF killed, NoInstance

LEMMA TargetType == NoTarget \in Target /\ ~ IsLocal(NoTarget) /\ NoTarget.child = Nobody
BY CliAssumption DEF NoTarget, Target, IsLocal

LEMMA CliInitially == CliInit => CliInv
<1> SUFFICES ASSUME CliInit PROVE CliInv
  OBVIOUS
<1>1. CliType
  BY NoInstanceType, TargetType DEF CliInit, CliType, Cli
<1>2. \A c \in Instances : ~ Lives(c)
  BY DEF CliInit, Lives, NoInstance
<1> QED BY <1>1, <1>2 DEF CliInit, CliInv, SessionSound, SessionOwns, RecordFollows, WaitsForItsKind,
     OpenedOnce

-----------------------------------------------------------------------------
(* A child is spawned: it is the one the session waits for.                *)
LEMMA SpawnKeeps ==
    ASSUME CliInv, NEW s \in Cli, s.current = cli.current,
           s = cli \/ (cli.at = "new" /\ s.mode # "session"),
           cli.at \in {"new", "prompt"}, spawns(s), UNCHANGED <<site, lastConnection>>
    PROVE  CliInv'
<1>1. PICK c \in Instances, p \in embeddedPort :
        /\ ~ Lives(c) /\ c # s.current.child
        /\ instance' = [instance EXCEPT ![c] = [at |-> "booting", port |-> p, lost |-> FALSE]]
        /\ cli' = [s EXCEPT !.at = "waiting", !.next = [url |-> p, child |-> c]]
  BY DEF spawns
<1>2. p \in Addresses
  BY CliAssumption DEF embeddedPort, TheAddress
<1>3. CliType'
  BY <1>1, <1>2 DEF CliInv, CliType, Cli, Target, Instance
<1>4. cli'.at = "waiting" /\ cli'.next = [url |-> p, child |-> c]
      /\ cli'.current = cli.current /\ cli'.mode = s.mode
  BY <1>1 DEF Cli
<1>5. cli.next.child = Nobody
  BY TargetType DEF CliInv, WaitsForItsKind
<1>6. SessionOwns'
  <2> SUFFICES ASSUME NEW d \in Instances, Lives(d)', d # c
               PROVE  d = cli.current.child \/ instance'[d].lost
    BY <1>4 DEF SessionOwns
  <2>1. instance'[d] = instance[d]
    BY <1>1 DEF CliInv, CliType
  <2>2. Lives(d)
    BY <2>1 DEF Lives
  <2> QED BY <1>5, <2>1, <2>2, CliAssumption DEF CliInv, SessionSound, SessionOwns
<1>7. RecordFollows'
  BY <1>4 DEF CliInv, SessionSound, RecordFollows, IsLocal
<1>8. WaitsForItsKind' /\ OpenedOnce'
  BY <1>2, <1>4 DEF CliInv, WaitsForItsKind, OpenedOnce
<1> QED BY <1>3, <1>6, <1>7, <1>8 DEF CliInv, SessionSound

(* A site is probed: the target and the instances stay.                    *)
LEMMA ProbeKeeps ==
    ASSUME CliInv, NEW s \in Cli, s.current = cli.current,
           s = cli \/ (cli.at = "new" /\ s.mode # "session"),
           cli.at \in {"new", "prompt"}, NEW u \in Sites, probes(s, u),
           UNCHANGED <<site, lastConnection>>
    PROVE  CliInv'
<1>1. /\ cli'.at = "probing" /\ cli'.next = [url |-> u, child |-> Nobody]
      /\ cli'.current = cli.current /\ cli'.mode = s.mode /\ cli' \in Cli /\ instance' = instance
  BY DEF probes, Cli, Target
<1>2. cli.next.child = Nobody
  BY TargetType DEF CliInv, WaitsForItsKind
<1>3. SessionOwns'
  BY <1>1, <1>2 DEF CliInv, SessionSound, SessionOwns, Lives
<1> QED BY <1>1, <1>3 DEF CliInv, CliType, SessionSound, RecordFollows, IsLocal, WaitsForItsKind,
     OpenedOnce

(* The wait is over and brought nothing: the target stays, and what was    *)
(* waited for is not left running, or is known to be lost.                 *)
LEMMA GivesUpKeeps ==
    ASSUME CliInv, cli.at \in {"probing", "waiting"}, givesUp,
           instance' \in [Instances -> Instance],
           \A c \in Instances : Lives(c)' => Lives(c) /\ (instance[c].lost => instance'[c].lost),
           \A c \in Instances : c = cli.next.child /\ Lives(c)' => instance'[c].lost,
           UNCHANGED <<site, lastConnection>>
    PROVE  CliInv'
<1>1. cli \in Cli /\ cli'.current = cli.current /\ cli'.next = NoTarget /\ cli' \in Cli
  BY TargetType DEF CliInv, CliType, givesUp, resumed, Cli
<1>2. /\ cli'.at \in {"prompt", "command", "gone"}
      /\ cli'.at = "prompt" => cli'.mode = "session"
      /\ cli'.at = "command" => cli'.mode \in {"once", "session"}
      /\ cli'.mode = "session" => cli.mode = "session" \/ cli.current = NoTarget
  BY <1>1 DEF CliInv, OpenedOnce, givesUp, resumed, Cli
<1>3. CliType'
  BY <1>1 DEF CliInv, CliType
<1>4. SessionOwns'
  <2> SUFFICES ASSUME NEW c \in Instances, Lives(c)', c # cli.next.child
               PROVE  c = cli.current.child \/ instance'[c].lost
    BY <1>1 DEF SessionOwns
  <2> QED BY DEF CliInv, SessionSound, SessionOwns
<1>5. RecordFollows'
  BY <1>1, <1>2 DEF CliInv, SessionSound, RecordFollows, IsLocal
<1>6. WaitsForItsKind' /\ OpenedOnce'
  BY <1>1, <1>2 DEF WaitsForItsKind, OpenedOnce
<1> QED BY <1>3, <1>4, <1>5, <1>6 DEF CliInv, SessionSound

(* The wait is over and brought a target: it takes the place of the one    *)
(* before, whose instance is killed.                                       *)
LEMMA AdoptKeeps ==
    ASSUME CliInv, cli.at \in {"probing", "waiting"}, adopts, UNCHANGED site,
           lastConnection' = IF IsLocal(cli.next) THEN "embedded" ELSE cli.next.url
    PROVE  CliInv'
<1>1. /\ cli' \in Cli /\ cli'.next = NoTarget /\ cli'.current = cli.next
      /\ cli'.at \in {"prompt", "command", "gone"}
      /\ cli'.at = "prompt" => cli'.mode = "session"
      /\ cli'.at = "command" => cli'.mode \in {"once", "session"}
  BY TargetType DEF CliInv, CliType, adopts, resumed, Cli
<1>2. /\ instance' \in [Instances -> Instance]
      /\ \A c \in Instances : Lives(c)' =>
            c # cli.current.child /\ instance'[c] = instance[c] /\ Lives(c)
  BY KilledProperties DEF CliInv, CliType, adopts, Lives
<1>3. CliType'
  BY <1>1, <1>2 DEF CliInv, CliType, WaitsForItsKind, IsLocal
<1>4. SessionOwns'
  BY <1>1, <1>2 DEF CliInv, SessionSound, SessionOwns
<1>5. RecordFollows'
  BY <1>1 DEF RecordFollows, IsLocal
<1>6. WaitsForItsKind' /\ OpenedOnce'
  BY <1>1 DEF WaitsForItsKind, OpenedOnce
<1> QED BY <1>3, <1>4, <1>5, <1>6 DEF CliInv, SessionSound

(* Instances go, and the CLI stays as it is or comes to the end of what it *)
(* was doing: what is still there was there before.                        *)
LEMMA EndsKeep ==
    ASSUME CliInv, cli' \in Cli, cli'.current = cli.current, cli'.next = cli.next,
           cli'.mode = cli.mode,
           \/ cli'.at \in {cli.at, "gone", "command"}
           \/ cli'.at = "prompt" /\ cli.mode = "session",
           cli'.at = "command" => cli.at \in {"prompt", "command"},
           cli'.at = "prompt" => cli.at \in {"prompt", "command"},
           instance' \in [Instances -> Instance],
           \A c \in Instances : Lives(c)' => Lives(c) /\ instance'[c].lost = instance[c].lost,
           site' \subseteq Sites, UNCHANGED lastConnection
    PROVE  CliInv'
<1>1. CliType'
  BY DEF CliInv, CliType
<1>2. SessionOwns'
  BY DEF CliInv, SessionSound, SessionOwns
<1>3. RecordFollows'
  BY DEF CliInv, SessionSound, RecordFollows, IsLocal
<1>4. WaitsForItsKind'
  BY DEF CliInv, WaitsForItsKind
<1>5. OpenedOnce'
  BY DEF CliInv, OpenedOnce
<1> QED BY <1>1, <1>2, <1>3, <1>4, <1>5 DEF CliInv, SessionSound

-----------------------------------------------------------------------------
LEMMA ResumesKeeps ==
    ASSUME CliInv, NEW mode \in {"resume", "once"}, Resumes(mode)
    PROVE  CliInv'
<1> DEFINE s == [cli EXCEPT !.mode = mode]
<1>1. /\ s \in Cli /\ s.current = cli.current /\ s.mode # "session" /\ s.mode = mode
      /\ s.at = "new" /\ s.next = cli.next /\ cli.at = "new" /\ UNCHANGED <<site, lastConnection>>
  BY DEF CliInv, CliType, Cli, Resumes
<1>2. CASE spawns(s)
  BY <1>1, <1>2, SpawnKeeps
<1>3. CASE lastConnection \in Sites /\ probes(s, lastConnection)
  BY <1>1, <1>3, ProbeKeeps
<1>4. ASSUME lastConnection = "none", UNCHANGED instance,
             NEW u \in Sites \cup {Nobody}, cli' = resumed([s EXCEPT !.current.url = u])
      PROVE  CliInv'
  <2>1. s.current = NoTarget
    BY <1>1 DEF CliInv, OpenedOnce
  <2>2. /\ cli' \in Cli /\ cli'.next = NoTarget /\ cli'.current = [url |-> u, child |-> Nobody]
        /\ cli'.at \in {"prompt", "command", "gone"}
        /\ cli'.at = "prompt" => cli'.mode = "session"
        /\ cli'.at = "command" => cli'.mode \in {"once", "session"}
    BY <1>1, <1>4, <2>1, TargetType DEF CliInv, WaitsForItsKind, resumed, Cli, Target, NoTarget
  <2>3. ~ IsLocal(cli'.current)
    BY <2>2, CliAssumption DEF IsLocal
  <2>4. CliType' /\ WaitsForItsKind' /\ OpenedOnce' /\ RecordFollows'
    BY <1>1, <1>4, <2>2, <2>3 DEF CliInv, CliType, WaitsForItsKind, OpenedOnce, RecordFollows
  <2>5. SessionOwns'
    BY <1>1, <1>4, <2>1, CliAssumption DEF CliInv, WaitsForItsKind, SessionSound, SessionOwns, Lives, NoTarget
  <2> QED BY <2>4, <2>5 DEF CliInv, SessionSound
<1> QED BY <1>1, <1>2, <1>3, <1>4 DEF Resumes

LEMMA DisconnectsKeeps == CliInv /\ Disconnects => CliInv'
<1> SUFFICES ASSUME CliInv, Disconnects PROVE CliInv'
  OBVIOUS
<1>1. /\ cli' \in Cli /\ cli'.current = NoTarget /\ cli'.next = cli.next
      /\ cli'.at \in {"prompt", "gone"} /\ cli.next = NoTarget
      /\ cli'.at = "prompt" => cli'.mode = "session"
      /\ cli'.at = "command" => cli'.mode \in {"once", "session"}
  BY TargetType DEF CliInv, CliType, WaitsForItsKind, OpenedOnce, Disconnects, Cli
<1>2. /\ instance' \in [Instances -> Instance]
      /\ \A c \in Instances : Lives(c)' =>
            c # cli.current.child /\ instance'[c] = instance[c] /\ Lives(c)
  BY KilledProperties DEF CliInv, CliType, Disconnects, Lives
<1>3. CliType'
  BY <1>1, <1>2 DEF CliInv, CliType, Disconnects
<1>4. SessionOwns'
  BY <1>1, <1>2 DEF CliInv, SessionSound, SessionOwns
<1> QED BY <1>1, <1>3, <1>4 DEF CliInv, SessionSound, RecordFollows, WaitsForItsKind, OpenedOnce

(* Every step: one case per action, the ones that only let things end in   *)
(* EndsKeep.                                                               *)
LEMMA CliStep == CliInv /\ [CliNext]_cvars => CliInv'
<1> SUFFICES ASSUME CliInv, [CliNext]_cvars PROVE CliInv'
  OBVIOUS
<1>1. cli \in Cli /\ instance \in [Instances -> Instance] /\ site \subseteq Sites
  BY DEF CliInv, CliType
<1>2. ASSUME NEW mode \in {"resume", "once"}, Resumes(mode) PROVE CliInv'
  BY <1>2, ResumesKeeps
<1>3. ASSUME NEW u \in Sites, Connects(u) PROVE CliInv'
  BY <1>1, <1>3, ProbeKeeps DEF Connects
<1>4. ASSUME NEW u \in Sites, SiteTurns(u) PROVE CliInv'
  BY <1>1, <1>4, EndsKeep DEF SiteTurns, Lives
<1>5. CASE Starts
  BY <1>1, <1>5, SpawnKeeps DEF Starts
<1>6. CASE Disconnects
  BY <1>6, DisconnectsKeeps
<1>7. CASE Probed
  <2>1. ~ IsLocal(cli.next)
    BY <1>7, CliAssumption DEF Probed, CliInv, WaitsForItsKind, IsLocal
  <2> QED BY <1>7, <2>1, AdoptKeeps DEF Probed
<1>8. CASE NotProbed
  <2>1. cli.next.child = Nobody
    BY <1>8 DEF NotProbed, CliInv, WaitsForItsKind
  <2> QED BY <1>1, <1>8, <2>1, GivesUpKeeps, CliAssumption DEF NotProbed, Lives
<1>9. CASE Booted
  <2>1. IsLocal(cli.next)
    BY <1>9 DEF Booted, CliInv, WaitsForItsKind, IsLocal
  <2> QED BY <1>9, <2>1, AdoptKeeps DEF Booted
<1>10. CASE ExitsEarly
  BY <1>1, <1>10, GivesUpKeeps DEF ExitsEarly, Lives
<1>11. CASE CeilingPasses
  <2>1. /\ instance' \in [Instances -> Instance]
        /\ \A c \in Instances : c # cli.next.child => instance'[c] = instance[c]
        /\ \A c \in Instances : instance'[c].at = instance[c].at
        /\ \A c \in Instances : c = cli.next.child => instance'[c].lost
        /\ \A c \in Instances : instance[c].lost => instance'[c].lost
    BY <1>1, <1>11 DEF CeilingPasses, Instance
  <2> QED BY <1>11, <2>1, GivesUpKeeps DEF CeilingPasses, Lives
<1>12. CASE Commands
  BY <1>1, <1>12, EndsKeep DEF Commands, Cli, Lives, CliInv, CliType
<1>13. CASE Commanded
  <2>1. /\ cli' \in Cli /\ cli'.current = cli.current /\ cli'.next = cli.next /\ cli'.mode = cli.mode
        /\ cli'.at = "gone" \/ (cli'.at = "prompt" /\ cli.mode = "session")
        /\ cli.at = "command" /\ UNCHANGED <<site, lastConnection>>
    BY <1>1, <1>13 DEF Commanded, Cli, CliInv, OpenedOnce
  <2>2. /\ instance' \in [Instances -> Instance]
        /\ \A c \in Instances : Lives(c)' => instance'[c] = instance[c]
    BY <1>1, <1>13, KilledProperties DEF Commanded, Lives
  <2> QED BY <1>1, <2>1, <2>2, EndsKeep DEF Lives
<1>14. CASE SessionEnds
  <2>1. /\ cli' \in Cli /\ cli'.current = cli.current /\ cli'.next = cli.next /\ cli'.mode = cli.mode
        /\ cli'.at = "gone" /\ UNCHANGED <<site, lastConnection>>
    BY <1>1, <1>14 DEF SessionEnds, Cli
  <2>2. /\ instance' \in [Instances -> Instance]
        /\ \A c \in Instances : Lives(c)' => instance'[c] = instance[c]
    BY <1>1, <1>14, KilledProperties DEF SessionEnds, Lives
  <2> QED BY <1>1, <2>1, <2>2, EndsKeep DEF Lives
<1>15. CASE Interrupted
  <2>1. /\ cli' \in Cli /\ cli'.current = cli.current /\ cli'.next = cli.next /\ cli'.mode = cli.mode
        /\ cli'.at = "gone" /\ UNCHANGED <<site, lastConnection>>
    BY <1>1, <1>15 DEF Interrupted, Cli
  <2>2. /\ instance' \in [Instances -> Instance]
        /\ \A c \in Instances : Lives(c)' => instance'[c] = instance[c]
    BY <1>1, <1>15, KilledProperties DEF Interrupted, Lives
  <2> QED BY <1>1, <2>1, <2>2, EndsKeep DEF Lives
<1>16. ASSUME NEW c \in Instances, Binds(c) PROVE CliInv'
  <2>1. /\ instance' \in [Instances -> Instance]
        /\ \A d \in Instances : d # c => instance'[d] = instance[d]
        /\ instance'[c].lost = instance[c].lost \/ instance'[c].at = "none"
    BY <1>1, <1>16, NoInstanceType DEF Binds, Instance, NoInstance
  <2>2. \A d \in Instances : Lives(d)' => Lives(d) /\ instance'[d].lost = instance[d].lost
    BY <1>16, <2>1 DEF Binds, Lives
  <2> QED BY <1>1, <1>16, <2>1, <2>2, EndsKeep DEF Binds
<1>17. ASSUME NEW c \in Instances, Dies(c) \/ Follows(c) PROVE CliInv'
  BY <1>1, <1>17, EndsKeep, KilledProperties DEF Dies, Follows, Lives
<1>18. CASE UNCHANGED cvars
  BY <1>1, <1>18, EndsKeep DEF cvars, Lives
<1> QED BY <1>2, <1>3, <1>4, <1>5, <1>6, <1>7, <1>8, <1>9, <1>10, <1>11, <1>12, <1>13, <1>14,
           <1>15, <1>16, <1>17, <1>18 DEF CliNext

(* The strengthening holds of every behaviour.                             *)
THEOREM CliInvariance == CliSpec => []CliInv
BY CliInitially, CliStep, PTL DEF CliSpec

(* Whatever a session was doing and whatever died under it, an instance    *)
(* that runs is its own or known to be lost, and the record on disk says   *)
(* what the session is connected to (runSession, startLocalInstance).      *)
THEOREM ASessionOwnsItsOwn == CliSpec => []SessionSound
BY CliInvariance, PTL DEF CliInv

=============================================================================
