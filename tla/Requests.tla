------------------------------ MODULE Requests ------------------------------
(***************************************************************************)
(* The server's request pipeline: the request scope with its closing       *)
(* record, app.handle, route dispatch, the parse, validation and deadline  *)
(* of an rpc, rpcs its handler calls in-process, streamed bodies, the      *)
(* registry load behind enumeration, and the server's own boot and end.    *)
(***************************************************************************)
EXTENDS Naturals, FiniteSets

CONSTANTS
    Requests,  \* bound: the requests the server is given
    MaxLoads   \* bound: the registry loads

ASSUME RequestsAssumption == IsFiniteSet(Requests) /\ MaxLoads \in Nat \ {0}

VARIABLES
    call,      \* what each request is and how far it got
    store,     \* its RequestStore: which Request it holds, and the deadline's controller
    work,      \* the handler's promise, which may outlive the answer
    sub,       \* a timed rpc the handler calls in-process
    stream,    \* the monitored body: its pull, and its client
    records,   \* history: closing records
    registry,  \* ensureRegistriesLoaded: its memo, and the loads so far
    rpcModule, \* memoizeByKey's promise for the rpc's module
    server,    \* the process
    expired    \* history: requests whose own deadline has passed

qvars == <<call, store, work, sub, stream, records, registry, rpcModule, server, expired>>

-----------------------------------------------------------------------------
(* route: what the request is for. logged: logRequests, which a dispatch   *)
(* in-process turns off. timed, bounded: the rpc has a timeout, a          *)
(* maxBodySize.                                                            *)
Pcs == {"none", "handle", "import", "parse", "calling", "rendering", "enumerating",
        "failing", "streaming", "closed"}
Answers == {"none", "ok", "refused", "deadline", "error", "reset"}
Call == [pc : Pcs, route : {"rpc", "page", "openapi"}, logged : BOOLEAN,
         timed : BOOLEAN, bounded : BOOLEAN, answer : Answers]

(* controller: the Request it was composed onto.                           *)
Store == [req : {"inbound", "buffered"}, controller : {"none", "inbound", "buffered"},
          fired : BOOLEAN]

Idle == [pc |-> "none", route |-> "rpc", logged |-> TRUE, timed |-> FALSE,
         bounded |-> FALSE, answer |-> "none"]

RequestsType ==
    /\ call \in [Requests -> Call]
    /\ store \in [Requests -> Store]
    /\ work \in [Requests -> {"none", "validating", "running", "settled"}]
    /\ sub \in [Requests -> {"none", "running", "settled"}]
    /\ stream \in [Requests -> [pulling : BOOLEAN, client : BOOLEAN, settled : BOOLEAN]]
    /\ records \in [Requests -> 0 .. 3]
    /\ registry \in [memo : {"none", "pending", "rejected", "done"},
                    started : 0 .. MaxLoads, failed : 0 .. MaxLoads]
    /\ rpcModule \in {"none", "pending", "rejected", "done"}
    /\ server \in [pc : {"booting", "serving", "closing", "gone"}, cleanup : BOOLEAN,
                  handled : SUBSET {"INT", "TERM"}]
    /\ expired \subseteq Requests

RequestsInit ==
    /\ call = [r \in Requests |-> Idle]
    /\ store = [r \in Requests |-> [req |-> "inbound", controller |-> "none", fired |-> FALSE]]
    /\ work = [r \in Requests |-> "none"]
    /\ sub = [r \in Requests |-> "none"]
    /\ stream = [r \in Requests |-> [pulling |-> FALSE, client |-> TRUE, settled |-> FALSE]]
    /\ records = [r \in Requests |-> 0]
    /\ registry = [memo |-> "none", started |-> 0, failed |-> 0]
    /\ rpcModule = "none"
    /\ server = [pc |-> "booting", cleanup |-> FALSE, handled |-> {}]
    /\ expired = {}

(* server.stop(true) ends the connections, not what runs for them.         *)
Listening == server.pc \in {"booting", "serving"}
Running == server.pc # "gone"
At(r, pc) == call[r].pc = pc /\ Running

(* request().signal is aborted.                                            *)
Aborted(r) == store[r].fired /\ store[r].controller = store[r].req

-----------------------------------------------------------------------------
moves(r, pc) == call' = [call EXCEPT ![r].pc = pc]

(* Fault: the record is logged at every end of the stream.                 *)
emitCloseAgain(r) ==
    /\ records' = [records EXCEPT ![r] = @ + 1]
    /\ stream' = [stream EXCEPT ![r].settled = TRUE, ![r].pulling = FALSE]

(* emitClose, at the end of a pull.                                        *)
emitClose(r) ==
    /\ records' = [records EXCEPT ![r] = IF stream[r].settled THEN @ ELSE @ + 1]
    /\ stream' = [stream EXCEPT ![r].settled = TRUE, ![r].pulling = FALSE]

(* The store's body is answered: cookies and headers are flushed, and a    *)
(* buffered answer is closed; a streamed one is wrapped when it is logged. *)
answers(r, a) ==
    \/ /\ call' = [call EXCEPT ![r].pc = "closed", ![r].answer = a]
       /\ IF call[r].logged THEN emitClose(r) ELSE UNCHANGED <<records, stream>>
    \/ /\ a = "ok" /\ call[r].logged /\ call[r].route = "rpc"
       /\ call' = [call EXCEPT ![r].pc = "streaming", ![r].answer = a]
       /\ UNCHANGED <<records, stream>>

-----------------------------------------------------------------------------
(* Answered ahead of the scope: a file, which is logged, or a probing      *)
(* endpoint, a socket upgrade or a resolve stream, which are not.          *)
Direct(r) ==
    /\ At(r, "none") /\ Listening
    /\ \E logged \in BOOLEAN :
         /\ call' = [call EXCEPT ![r].pc = "closed", ![r].logged = logged, ![r].answer = "ok"]
         /\ IF logged THEN emitClose(r) ELSE UNCHANGED <<records, stream>>
    /\ UNCHANGED <<store, work, sub, registry, rpcModule, server, expired>>

(* dispatchRequest: a scope is opened, and app.handle goes first.          *)
Arrives(r) ==
    /\ At(r, "none") /\ Listening
    /\ \E route \in {"rpc", "page", "openapi"}, timed, bounded \in BOOLEAN :
         /\ route # "rpc" => ~timed /\ ~bounded
         /\ call' = [call EXCEPT ![r] = [Idle EXCEPT !.pc = "handle", !.route = route,
                                                     !.timed = timed, !.bounded = bounded]]
    /\ UNCHANGED <<store, work, sub, stream, records, registry, rpcModule, server, expired>>

(* dispatchRpcInProcess, for an MCP tool or the CLI: a scope of its own,   *)
(* not logged, straight to the rpc.                                        *)
Dispatched(r) ==
    /\ At(r, "none") /\ Listening /\ registry.memo = "done"
    /\ \E timed, bounded \in BOOLEAN :
         call' = [call EXCEPT ![r] = [Idle EXCEPT !.pc = "parse", !.logged = FALSE,
                                                  !.timed = timed, !.bounded = bounded]]
    /\ UNCHANGED <<store, work, sub, stream, records, registry, rpcModule, server, expired>>

(* app.handle answers by itself, or throws.                                *)
Intercepted(r) ==
    /\ At(r, "handle")
    /\ answers(r, "refused")
    /\ UNCHANGED <<store, work, sub, registry, rpcModule, server, expired>>

Throws(r) ==
    /\ \/ At(r, "handle") \/ At(r, "rendering") \/ At(r, "parse")
       \/ At(r, "import") /\ rpcModule = "rejected"
    /\ moves(r, "failing")
    /\ UNCHANGED <<store, work, sub, stream, records, registry, rpcModule, server, expired>>

(* The route handler: an rpc's module is imported by the first request.    *)
Routed(r) ==
    /\ At(r, "handle") /\ call[r].route # "openapi"
    /\ moves(r, IF call[r].route = "rpc" THEN "import" ELSE "rendering")
    /\ rpcModule' = IF call[r].route = "rpc" /\ rpcModule = "none" THEN "pending" ELSE rpcModule
    /\ UNCHANGED <<store, work, sub, stream, records, registry, server, expired>>

ModuleLoads ==
    /\ rpcModule = "pending" /\ Running
    /\ rpcModule' \in {"done", "rejected"}
    /\ UNCHANGED <<call, store, work, sub, stream, records, registry, server, expired>>

(* 405, or the cross-origin gate's 403.                                    *)
Refused(r) ==
    /\ At(r, "import") /\ rpcModule = "done"
    /\ answers(r, "refused")
    /\ UNCHANGED <<store, work, sub, registry, rpcModule, server, expired>>

Gated(r) ==
    /\ At(r, "import") /\ rpcModule = "done"
    /\ moves(r, "parse")
    /\ UNCHANGED <<store, work, sub, stream, records, registry, rpcModule, server, expired>>

Rendered(r) ==
    /\ At(r, "rendering")
    /\ answers(r, "ok")
    /\ UNCHANGED <<store, work, sub, registry, rpcModule, server, expired>>

-----------------------------------------------------------------------------
(* The body is over maxBodySize: 413 from the parse.                       *)
TooLarge(r) ==
    /\ At(r, "parse") /\ call[r].bounded
    /\ answers(r, "refused")
    /\ UNCHANGED <<store, work, sub, registry, rpcModule, server, expired>>

(* Fault: the deadline's controller goes onto the request that came in.    *)
composedInbound(r) ==
    [req |-> IF call[r].bounded THEN "buffered" ELSE store[r].req,
     controller |-> IF call[r].timed THEN "inbound" ELSE "none", fired |-> FALSE]

(* A maxBodySize swaps the store's request for a readable copy (or leaves  *)
(* it, with no body); the controller goes onto what the scope holds then.  *)
composed(r) ==
    LET req == IF call[r].bounded THEN "buffered" ELSE store[r].req
    IN  [req |-> req, controller |-> IF call[r].timed THEN req ELSE "none", fired |-> FALSE]

(* parseArgsForFetch resolves, and invoke starts the work and the timer.   *)
Parsed(r) ==
    /\ At(r, "parse")
    /\ store' = [store EXCEPT ![r] = composed(r)]
    /\ moves(r, "calling")
    /\ work' \in {[work EXCEPT ![r] = w] : w \in {"validating", "running"}}
    /\ UNCHANGED <<sub, stream, records, registry, rpcModule, server, expired>>

Validated(r) ==
    /\ work[r] = "validating" /\ Running
    /\ work' = [work EXCEPT ![r] = "running"]
    /\ UNCHANGED <<call, store, sub, stream, records, registry, rpcModule, server, expired>>

(* The work settles: 422, the handler's answer, or a throw. After the      *)
(* deadline nobody waits for it.                                           *)
Settles(r) ==
    /\ work[r] \in {"validating", "running"} /\ Running
    /\ work' = [work EXCEPT ![r] = "settled"]
    /\ \/ call[r].pc = "calling" /\ answers(r, IF work[r] = "validating" THEN "refused" ELSE "ok")
       \/ call[r].pc = "calling" /\ moves(r, "failing") /\ UNCHANGED <<stream, records>>
       \/ call[r].pc # "calling" /\ UNCHANGED <<call, stream, records>>
    /\ UNCHANGED <<store, sub, registry, rpcModule, server, expired>>

(* abortRpcTimeout, whichever rpc calls it: the controller is the one of   *)
(* the store's request.                                                    *)
abortRpcTimeout(r) ==
    store' = [store EXCEPT ![r].fired = @ \/ store[r].controller = store[r].req]

(* runWithRpcTimeout. Fault: the work is awaited all the same.             *)
DeadlineAwaitsWork(r) ==
    /\ At(r, "calling") /\ call[r].timed /\ r \notin expired
    /\ abortRpcTimeout(r)
    /\ expired' = expired \cup {r}
    /\ UNCHANGED <<call, stream, records, work, sub, registry, rpcModule, server>>

Deadline(r) ==
    /\ At(r, "calling") /\ call[r].timed
    /\ abortRpcTimeout(r)
    /\ expired' = expired \cup {r}
    /\ answers(r, "deadline")
    /\ UNCHANGED <<work, sub, registry, rpcModule, server>>

(* The handler, or a page's read, calls another rpc, which has a timeout   *)
(* of its own, in the same scope: invoke without a parse. Bound: once.     *)
CallsRpc(r) ==
    /\ work[r] = "running" \/ At(r, "rendering")
    /\ sub[r] = "none" /\ Running
    /\ sub' = [sub EXCEPT ![r] = "running"]
    /\ UNCHANGED <<call, store, work, stream, records, registry, rpcModule, server, expired>>

SubSettles(r) ==
    /\ sub[r] = "running" /\ Running
    /\ sub' = [sub EXCEPT ![r] = "settled"]
    /\ UNCHANGED <<call, store, work, stream, records, registry, rpcModule, server, expired>>

SubDeadline(r) ==
    /\ sub[r] = "running" /\ Running
    /\ sub' = [sub EXCEPT ![r] = "settled"]
    /\ abortRpcTimeout(r)
    /\ UNCHANGED <<call, work, stream, records, registry, rpcModule, server, expired>>

(* The store's catch: app.handleError or the framework's 500; a hook that  *)
(* throws leaves the answer to Bun, and no record.                         *)
Handled(r) ==
    /\ At(r, "failing")
    /\ \/ answers(r, "error")
       \/ call' = [call EXCEPT ![r].pc = "closed", ![r].answer = "reset"]
          /\ UNCHANGED <<records, stream>>
    /\ UNCHANGED <<store, work, sub, registry, rpcModule, server, expired>>

-----------------------------------------------------------------------------
Pull(r) ==
    /\ At(r, "streaming") /\ ~stream[r].pulling /\ stream[r].client
    /\ stream' = [stream EXCEPT ![r].pulling = TRUE]
    /\ UNCHANGED <<call, store, work, sub, records, registry, rpcModule, server, expired>>

Chunk(r) ==
    /\ At(r, "streaming") /\ stream[r].pulling /\ stream[r].client
    /\ stream' = [stream EXCEPT ![r].pulling = FALSE]
    /\ UNCHANGED <<call, store, work, sub, records, registry, rpcModule, server, expired>>

(* The read under way ends: done, an error, or done because it was         *)
(* cancelled; a chunk that comes then cannot be enqueued, an error too.    *)
PullEnds(r) ==
    /\ call[r].pc \in {"streaming", "closed"} /\ stream[r].pulling /\ Running
    /\ emitClose(r)
    /\ moves(r, "closed")
    /\ UNCHANGED <<store, work, sub, registry, rpcModule, server, expired>>

(* Fault: a stream its reader leaves is not its end.                       *)
CancelQuietly(r) ==
    /\ At(r, "streaming") /\ stream[r].client
    /\ moves(r, "closed")
    /\ stream' = [stream EXCEPT ![r].client = FALSE]
    /\ UNCHANGED <<records, store, work, sub, registry, rpcModule, server, expired>>

(* The client leaves; a pull that waits is ended by the source's cancel.   *)
Cancel(r) ==
    /\ At(r, "streaming") /\ stream[r].client
    /\ moves(r, "closed")
    /\ records' = [records EXCEPT ![r] = IF stream[r].settled THEN @ ELSE @ + 1]
    /\ stream' = [stream EXCEPT ![r].client = FALSE, ![r].settled = TRUE]
    /\ UNCHANGED <<store, work, sub, registry, rpcModule, server, expired>>

-----------------------------------------------------------------------------
(* ensureRegistriesLoaded, behind the openapi document, the MCP lists and  *)
(* the in-process client.                                                  *)
Enumerates(r) ==
    /\ At(r, "handle") /\ call[r].route = "openapi"
    /\ registry.memo = "none" => registry.started < MaxLoads
    /\ moves(r, "enumerating")
    /\ registry' = IF registry.memo = "none"
                   THEN [registry EXCEPT !.memo = "pending", !.started = @ + 1] ELSE registry
    /\ UNCHANGED <<store, work, sub, stream, records, rpcModule, server, expired>>

Enumerated(r) ==
    /\ At(r, "enumerating") /\ registry.memo = "done"
    /\ answers(r, "ok")
    /\ UNCHANGED <<store, work, sub, registry, rpcModule, server, expired>>

RegistryLoads ==
    /\ registry.memo = "pending" /\ Running
    /\ registry' = [registry EXCEPT !.memo = "done"]
    /\ UNCHANGED <<call, store, work, sub, stream, records, rpcModule, server, expired>>

(* A module throws as it is imported: whoever waits is told. Fault: the    *)
(* rejected promise stays the memo.                                        *)
RegistryFailsForGood ==
    /\ registry.memo \in {"pending", "rejected"} /\ Running
    /\ registry' = [registry EXCEPT !.memo = "rejected", !.failed =
                      IF registry.memo = "pending" THEN @ + 1 ELSE @]
    /\ call' = [r \in Requests |-> IF call[r].pc = "enumerating"
                                   THEN [call[r] EXCEPT !.pc = "failing"] ELSE call[r]]
    /\ UNCHANGED <<store, work, sub, stream, records, rpcModule, server, expired>>

RegistryFails ==
    /\ registry.memo = "pending" /\ Running
    /\ registry' = [registry EXCEPT !.memo = "none", !.failed = @ + 1]
    /\ call' = [r \in Requests |-> IF call[r].pc = "enumerating"
                                   THEN [call[r] EXCEPT !.pc = "failing"] ELSE call[r]]
    /\ UNCHANGED <<store, work, sub, stream, records, rpcModule, server, expired>>

-----------------------------------------------------------------------------
(* createServer binds the port before init() is awaited; the signals are   *)
(* handled from then on.                                                   *)
Booted ==
    /\ server.pc = "booting"
    /\ server' \in {[server EXCEPT !.pc = "serving", !.cleanup = c] : c \in BOOLEAN}
    /\ UNCHANGED <<call, store, work, sub, stream, records, registry, rpcModule, expired>>

(* Each signal is handled once: server.stop(true), then the app's cleanup. *)
(* An unhandled one ends the process.                                      *)
Signal(s) ==
    /\ server.pc # "gone"
    /\ server' = IF server.pc = "booting" \/ s \in server.handled \/ ~server.cleanup
                 THEN [server EXCEPT !.pc = "gone"]
                 ELSE [server EXCEPT !.pc = "closing", !.handled = @ \cup {s}]
    /\ UNCHANGED <<call, store, work, sub, stream, records, registry, rpcModule, expired>>

(* The cleanup ends, well or not.                                          *)
CleanedUp ==
    /\ server.pc = "closing"
    /\ server' = [server EXCEPT !.pc = "gone"]
    /\ UNCHANGED <<call, store, work, sub, stream, records, registry, rpcModule, expired>>

(* Fault: the watchdog is armed once the cleanup has ended.                *)
WatchdogAfter == FALSE /\ UNCHANGED qvars

(* It hangs: the watchdog ends the process.                                *)
Watchdog ==
    /\ server.pc = "closing"
    /\ server' = [server EXCEPT !.pc = "gone"]
    /\ UNCHANGED <<call, store, work, sub, stream, records, registry, rpcModule, expired>>

-----------------------------------------------------------------------------
RequestSteps(r) ==
    \/ Direct(r) \/ Arrives(r) \/ Dispatched(r) \/ Intercepted(r) \/ Throws(r) \/ Routed(r)
    \/ Refused(r) \/ Gated(r) \/ Rendered(r)
    \/ TooLarge(r) \/ Parsed(r) \/ Validated(r) \/ Settles(r) \/ Deadline(r)
    \/ CallsRpc(r) \/ SubSettles(r) \/ SubDeadline(r) \/ Handled(r)
    \/ Pull(r) \/ Chunk(r) \/ PullEnds(r) \/ Cancel(r)
    \/ Enumerates(r) \/ Enumerated(r)

RequestsNext ==
    \/ \E r \in Requests : RequestSteps(r)
    \/ ModuleLoads \/ RegistryLoads \/ RegistryFails
    \/ Booted \/ CleanedUp \/ Watchdog
    \/ \E s \in {"INT", "TERM"} : Signal(s)

(* Timers fire. A handler, a body, an import or a cleanup may take for     *)
(* ever.                                                                   *)
RequestsFairness == WF_qvars(Watchdog) /\ \A r \in Requests : WF_qvars(Deadline(r))

RequestsSpec == RequestsInit /\ [][RequestsNext]_qvars /\ RequestsFairness

-----------------------------------------------------------------------------
(* A request that has ended has one closing record, and one that still     *)
(* streams has none, whichever of the stream's end, its error and the      *)
(* client's leaving come together (runWithRequestScope's emitClose).       *)
RecordedOnce ==
    \A r \in Requests :
        records[r] = IF call[r].pc = "closed" /\ call[r].logged /\ call[r].answer # "reset"
                     THEN 1 ELSE 0

(* A 504 means that what the handler sees as request().signal is aborted,  *)
(* though a maxBodySize put another request into the scope (defineRpc).    *)
TimeoutCancels == \A r \in Requests : call[r].answer = "deadline" => Aborted(r)

(* An rpc with a deadline is answered, however long its handler or the     *)
(* rpcs it calls take (runWithRpcTimeout).                                 *)
AnswersInTime ==
    \A r \in Requests :
        call[r].pc = "calling" /\ call[r].timed ~> (call[r].pc # "calling" \/ ~Running)

(* A cleanup that hangs does not keep the process, and its port            *)
(* (createServer's watchdog).                                              *)
ShutdownEnds == server.pc = "closing" ~> ~Running

(* Neither a caller nor a stop hangs on the app's own code.                *)
WaitsEnd == AnswersInTime /\ ShutdownEnds

(* Requests that come together share one load, and a load that failed is   *)
(* the reason for another: neither doubled nor poisoned                    *)
(* (ensureRegistriesLoaded).                                               *)
LoadsAccounted ==
    registry.started = registry.failed + (IF registry.memo = "none" THEN 0 ELSE 1)

(* The signal of a request is aborted by its own deadline only: "a sibling *)
(* rpc is never cross-cancelled" (defineRpc).                              *)
NeverCrossCancelled == \A r \in Requests : Aborted(r) => r \in expired
=============================================================================
