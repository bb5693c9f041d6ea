------------------------------- MODULE Outbox -------------------------------
(***************************************************************************)
(* The outbox of one durable rpc in one browser tab: the live call of      *)
(* remoteProxy.ts that parks what it could not deliver, the FIFO queue of  *)
(* createOutboxQueue.ts with its in-memory identities and its persisted    *)
(* image, the manual drain, and the page being reloaded at any moment.     *)
(* The network and the server are the environment: a request may be        *)
(* handled, be answered too late, or vanish.                               *)
(*                                                                         *)
(* One action is one turn of the page's event loop.                        *)
(***************************************************************************)
EXTENDS Naturals, Sequences, FiniteSets, SequencesExt

CONSTANTS
    Calls,          \* the writes the app makes through the rpc
    Bodyless,       \* those whose method carries no body (DELETE)
    ReusableBody,   \* new Request(r) leaves r usable: FALSE in the fetch
                    \* standard (the body moves out of r), TRUE in Bun
    ReloadWaits     \* a reload never falls between a park and the capture
                    \* of its body

ASSUME OutboxAssumption ==
    /\ Bodyless \subseteq Calls
    /\ ReusableBody \in BOOLEAN
    /\ ReloadWaits \in BOOLEAN

VARIABLES
    storage,    \* the persisted image of the queue
    items,      \* the queue, head first
    request,    \* the Request of each live identity, "none" without one
    aborted,    \* entries whose controller fired in this page's life
    capturing,  \* parked entries whose body text() is still being read
    held,       \* entries the app has an OutboxEntry object of
    settlers,   \* entries with an armed `settled` deferred
    promise,    \* what became of the last `settled` the app read
    drain,      \* the drain loop: idle, or awaiting on one entry
    fate,       \* where each live call stands
    outbound,   \* requests on the wire that the page still waits on
    strays,     \* requests on the wire that nobody waits on any more
    handled,    \* calls the server has handled at least once
    garbled,    \* calls the server has handled with an empty body
    canceled,   \* history: entries ever canceled while queued
    ahead       \* history: the calls queued when each call was made

pageVars == <<request, aborted, capturing, held, settlers, promise, drain>>
queueVars == <<storage, items>>
netVars == <<outbound, strays, handled, garbled>>
vars == <<queueVars, pageVars, fate, netVars, canceled, ahead>>

Status == {"queued", "sending"}
StoredEntry == [id : Calls, captured : BOOLEAN, status : Status]
Message == [call : Calls, body : {"intact", "empty"}]
Identity == {"none", "intact", "empty", "spent"}
Outcome == {"resolved", "refused"}
Fate == {"idle", "flying", "returned", "aborted", "lost", "parked"}
Drain == [pc : {"idle"}]
           \cup [pc : {"sending"}, call : Calls]
           \cup [pc : {"decoding"}, call : Calls, reply : Outcome]

Idle == [pc |-> "idle"]

-----------------------------------------------------------------------------
(* The queue document. *)

Ids(q) == {q[i].id : i \in DOMAIN q}

IndexOf(q, c) == CHOOSE i \in DOMAIN q : q[i].id = c

(* Faults: the splice takes the head, whatever the entry; an entry being   *)
(* sent is left in.                                                        *)
WithoutHead(q, c) == IF c \in Ids(q) THEN Tail(q) ELSE q
WithoutUnsent(q, c) ==
    IF c \in Ids(q) /\ q[IndexOf(q, c)].status = "queued" THEN RemoveAt(q, IndexOf(q, c)) ELSE q

Without(q, c) == IF c \in Ids(q) THEN RemoveAt(q, IndexOf(q, c)) ELSE q

(* Fault: the entry is pushed again instead of edited in place.            *)
WithStatusPushed(q, c, s) ==
    IF c \in Ids(q) THEN Append(q, [q[IndexOf(q, c)] EXCEPT !.status = s]) ELSE q

WithStatus(q, c, s) ==
    [i \in DOMAIN q |-> IF q[i].id = c THEN [q[i] EXCEPT !.status = s] ELSE q[i]]

(* Fault: the body read is not written into the stored entry.              *)
WithBodyForgotten(q, c) == q

WithBody(q, c) ==
    [i \in DOMAIN q |-> IF q[i].id = c THEN [q[i] EXCEPT !.captured = TRUE] ELSE q[i]]

(* Fault: a removal is not saved.                                          *)
commitGrowth(q) ==
    items' = q /\ storage' = IF Len(q) < Len(items) THEN storage ELSE q

(* Every mutation of the queue funnels through here: the whole array is    *)
(* saved.                                                                  *)
commit(q) == items' = q /\ storage' = q

(* The Request of an entry: the live one, or one rebuilt from the stored   *)
(* parts, whose body is empty when the capture never completed.            *)
identityFor(req, e) ==
    IF req[e.id] # "none" THEN req[e.id]
    ELSE IF e.captured THEN "intact" ELSE "empty"

(* Faults: remove() comes first, and rejects with its AbortError; the      *)
(* deferred is dropped without being settled.                              *)
settleAfterRemove(c, outcome) ==
    /\ settlers' = settlers \ {c}
    /\ promise' = IF c \in settlers THEN [promise EXCEPT ![c] = "canceled"] ELSE promise
settleDropped(c, outcome) == settlers' = settlers \ {c} /\ promise' = promise

(* settle(): single-shot, and nothing when no deferred is armed.           *)
settle(c, outcome) ==
    /\ settlers' = settlers \ {c}
    /\ promise' = IF c \in settlers THEN [promise EXCEPT ![c] = outcome] ELSE promise

-----------------------------------------------------------------------------
(* The wire. *)

Waiting(c) == {m \in outbound : m.call = c}

OnWire(c) == \E m \in outbound \cup strays : m.call = c

(* The page stops waiting on the request of c, which is lost or may still  *)
(* reach the server. `more` is what the same turn puts on the wire.        *)
Abandon(c, more) ==
    /\ outbound' = (outbound \ Waiting(c)) \cup more
    /\ strays' \in {strays, strays \cup Waiting(c)}

-----------------------------------------------------------------------------
(* Fault: the newest write is put first.                                   *)
parkAtHead(c) ==
    /\ commit(<<[id |-> c, captured |-> c \in Bodyless, status |-> "queued"]>> \o items)
    /\ request' = [request EXCEPT ![c] = "intact"]
    /\ capturing' = capturing \cup ({c} \ Bodyless)
    /\ held' = held \cup {c}
    /\ fate' = [fate EXCEPT ![c] = "parked"]

(* park(): append, save, start the body capture. A bodyless request is     *)
(* captured within the same turn.                                          *)
park(c) ==
    /\ commit(Append(items, [id |-> c, captured |-> c \in Bodyless, status |-> "queued"]))
    /\ request' = [request EXCEPT ![c] = "intact"]
    /\ capturing' = capturing \cup ({c} \ Bodyless)
    /\ held' = held \cup {c}
    /\ fate' = [fate EXCEPT ![c] = "parked"]

(* Fault: calls are held back only while the drain runs.                   *)
BacklogWhileDraining == drain # Idle

(* Whether a call is to join the queue: it is not empty.                   *)
Backlog == items # <<>>

(* The proxy's invoke with no backlog: a live fetch.                       *)
InvokeLive(c) ==
    /\ fate[c] = "idle"
    /\ ~ Backlog
    /\ ahead' = [ahead EXCEPT ![c] = Ids(items)]
    /\ fate' = [fate EXCEPT ![c] = "flying"]
    /\ outbound' = outbound \cup {[call |-> c, body |-> "intact"]}
    /\ UNCHANGED <<queueVars, pageVars, strays, handled, garbled, canceled>>

(* The proxy's invoke behind a backlog: parked at the tail, never fetched. *)
InvokeBacklog(c) ==
    /\ fate[c] = "idle"
    /\ Backlog
    /\ ahead' = [ahead EXCEPT ![c] = Ids(items)]
    /\ park(c)
    /\ UNCHANGED <<aborted, settlers, promise, drain, netVars, canceled>>

(* Any other answer than an unreachable one goes back to the caller.       *)
LiveReply(c) ==
    /\ fate[c] = "flying"
    /\ Waiting(c) = {}
    /\ fate' = [fate EXCEPT ![c] = "returned"]
    /\ UNCHANGED <<queueVars, pageVars, netVars, canceled, ahead>>

(* An unreachable status, a transport failure or the client timeout: the   *)
(* pristine clone is parked, whether or not the server got the request.    *)
LiveUnreachable(c) ==
    /\ fate[c] = "flying"
    /\ park(c)
    /\ Abandon(c, {})
    /\ UNCHANGED <<aborted, settlers, promise, drain, handled, garbled, canceled, ahead>>

(* The caller's own abort is a cancel: nothing is parked.                  *)
LiveAbort(c) ==
    /\ fate[c] = "flying"
    /\ fate' = [fate EXCEPT ![c] = "aborted"]
    /\ Abandon(c, {})
    /\ UNCHANGED <<queueVars, pageVars, handled, garbled, canceled, ahead>>

(* The continuation of captureRequest().                                   *)
CaptureRequest(c) ==
    /\ c \in capturing
    /\ capturing' = capturing \ {c}
    /\ IF c \in Ids(items) THEN commit(WithBody(items, c)) ELSE UNCHANGED queueVars
    /\ UNCHANGED <<request, aborted, held, settlers, promise, drain, fate, netVars, canceled,
                   ahead>>

-----------------------------------------------------------------------------
(* The drain loop. *)

(* What sendable() leaves of the entry's Request once it is resent.        *)
AfterResend(c, r) == IF ReusableBody \/ c \in Bodyless \/ r = "empty" THEN r ELSE "spent"

(* The top of the loop, on queue q: stop when it is empty, else mark the   *)
(* head `sending` and resend it. A spent Request throws inside the try, so *)
(* the head goes back to `queued` and the loop ends. The loop's own test   *)
(* of an aborted head is never true: abort removes the entry in the turn   *)
(* it fires (CanceledStaysOut). `req` are the identities left by the turn  *)
(* so far, `rest` the requests it still waits on.                          *)
loopTop(q, req, rest) ==
    IF q = <<>>
    THEN /\ commit(q)
         /\ request' = req
         /\ drain' = Idle
         /\ outbound' = rest
    ELSE LET c == q[1].id
             r == identityFor(req, q[1])
         IN  IF r = "spent"
             THEN /\ commit(WithStatus(q, c, "queued"))
                  /\ request' = req
                  /\ drain' = Idle
                  /\ outbound' = rest
             ELSE /\ commit(WithStatus(q, c, "sending"))
                  /\ request' = [req EXCEPT ![c] = AfterResend(c, r)]
                  /\ drain' = [pc |-> "sending", call |-> c]
                  /\ outbound' = rest \cup {[call |-> c, body |-> r]}

(* retry() with no drain under way; with one, it only returns its promise. *)
Retry ==
    /\ drain = Idle
    /\ items # <<>>
    /\ loopTop(items, request, outbound)
    /\ UNCHANGED <<aborted, capturing, held, settlers, promise, fate, strays, handled,
                   garbled, canceled, ahead>>

(* The server answered the resend, 2xx or a real error: await its body.    *)
DrainReply(reply) ==
    /\ drain.pc = "sending"
    /\ Waiting(drain.call) = {}
    /\ drain' = [pc |-> "decoding", call |-> drain.call, reply |-> reply]
    /\ UNCHANGED <<queueVars, request, aborted, capturing, held, settlers, promise, fate,
                   netVars, canceled, ahead>>

(* The body is read, or fails to be: settle, remove, on to the next head.  *)
DrainDecoded ==
    /\ drain.pc = "decoding"
    /\ \E outcome \in {drain.reply, "refused"} : settle(drain.call, outcome)
    /\ loopTop(Without(items, drain.call), [request EXCEPT ![drain.call] = "none"], outbound)
    /\ UNCHANGED <<aborted, capturing, held, fate, strays, handled, garbled, canceled, ahead>>

(* An unreachable status or a transport failure: the head is queued again, *)
(* and the drain ends.                                                     *)
DrainUnreachable ==
    /\ drain.pc = "sending"
    /\ commit(WithStatus(items, drain.call, "queued"))
    /\ drain' = Idle
    /\ Abandon(drain.call, {})
    /\ UNCHANGED <<request, aborted, capturing, held, settlers, promise, fate, handled,
                   garbled, canceled, ahead>>

(* The resend rejects because its entry was canceled: on to the next head. *)
DrainCanceled ==
    /\ drain.pc = "sending"
    /\ drain.call \in aborted
    /\ settle(drain.call, "canceled")
    /\ strays' \in {strays, strays \cup Waiting(drain.call)}
    /\ loopTop(Without(items, drain.call), [request EXCEPT ![drain.call] = "none"],
               outbound \ Waiting(drain.call))
    /\ UNCHANGED <<aborted, capturing, held, fate, handled, garbled, canceled, ahead>>

-----------------------------------------------------------------------------
(* The app, through the entries it holds. *)

(* entries(): an object per item, rebuilding the identities a reload lost. *)
List ==
    /\ ~ Ids(items) \subseteq held
    /\ held' = held \cup Ids(items)
    /\ request' = [c \in Calls |-> IF c \in Ids(items)
                                   THEN identityFor(request, items[IndexOf(items, c)])
                                   ELSE request[c]]
    /\ UNCHANGED <<queueVars, aborted, capturing, settlers, promise, drain, fate, netVars,
                   canceled, ahead>>

(* Reading entry.settled arms its deferred, also when the entry is gone.   *)
ReadSettled(c) ==
    /\ c \in held \ settlers
    /\ settlers' = settlers \cup {c}
    /\ promise' = [promise EXCEPT ![c] = "pending"]
    /\ UNCHANGED <<queueVars, request, aborted, capturing, held, drain, fate, netVars,
                   canceled, ahead>>

(* entry.controller.abort(): its listener removes the entry at once.       *)
Abort(c) ==
    /\ c \in held \ aborted
    /\ aborted' = aborted \cup {c}
    /\ commit(Without(items, c))
    /\ request' = [request EXCEPT ![c] = "none"]
    /\ settle(c, "canceled")
    /\ canceled' = canceled \cup ({c} \cap Ids(items))
    /\ UNCHANGED <<capturing, held, drain, fate, netVars, ahead>>

-----------------------------------------------------------------------------
(* The environment. *)

ServerHandles(m) ==
    /\ m \in outbound
    /\ outbound' = outbound \ {m}
    /\ handled' = handled \cup {m.call}
    /\ garbled' = IF m.body = "empty" THEN garbled \cup {m.call} ELSE garbled
    /\ UNCHANGED <<queueVars, pageVars, fate, strays, canceled, ahead>>

StrayArrives(m) ==
    /\ m \in strays
    /\ strays' = strays \ {m}
    /\ handled' = handled \cup {m.call}
    /\ garbled' = IF m.body = "empty" THEN garbled \cup {m.call} ELSE garbled
    /\ UNCHANGED <<queueVars, pageVars, fate, outbound, canceled, ahead>>

(* The page dies and is loaded again: the queue is read back from storage, *)
(* all the rest of the page starts afresh.                                 *)
Reload ==
    /\ ReloadWaits => capturing = {}
    /\ items' = storage
    /\ request' = [c \in Calls |-> "none"]
    /\ aborted' = {}
    /\ capturing' = {}
    /\ held' = {}
    /\ settlers' = {}
    /\ promise' = [c \in Calls |-> "unread"]
    /\ drain' = Idle
    /\ fate' = [c \in Calls |-> IF fate[c] = "flying" THEN "lost" ELSE fate[c]]
    /\ outbound' = {}
    /\ \E late \in SUBSET outbound : strays' = strays \cup late
    /\ UNCHANGED <<storage, handled, garbled, canceled, ahead>>

-----------------------------------------------------------------------------
Init ==
    /\ storage = <<>>
    /\ items = <<>>
    /\ request = [c \in Calls |-> "none"]
    /\ aborted = {}
    /\ capturing = {}
    /\ held = {}
    /\ settlers = {}
    /\ promise = [c \in Calls |-> "unread"]
    /\ drain = Idle
    /\ fate = [c \in Calls |-> "idle"]
    /\ outbound = {}
    /\ strays = {}
    /\ handled = {}
    /\ garbled = {}
    /\ canceled = {}
    /\ ahead = [c \in Calls |-> {}]

Next ==
    \/ \E c \in Calls : \/ InvokeLive(c) \/ InvokeBacklog(c)
                        \/ LiveReply(c) \/ LiveUnreachable(c) \/ LiveAbort(c)
                        \/ CaptureRequest(c)
                        \/ ReadSettled(c) \/ Abort(c)
    \/ List
    \/ Retry
    \/ \E reply \in Outcome : DrainReply(reply)
    \/ DrainDecoded \/ DrainUnreachable \/ DrainCanceled
    \/ \E m \in Message : ServerHandles(m) \/ StrayArrives(m)
    \/ Reload

Spec == Init /\ [][Next]_vars

-----------------------------------------------------------------------------
(* The app keeps retrying, and the outage ends: a resend that is made      *)
(* again and again is at last handled and answered, and its answer read.   *)
(* Nothing is assumed of cancels, of live calls or of reloads.             *)
Fairness ==
    /\ WF_vars(Retry)
    /\ \A c \in Calls :
          SF_vars(drain.pc = "sending" /\ drain.call = c
                     /\ \E m \in Waiting(c) : ServerHandles(m))
    /\ SF_vars(\E reply \in Outcome : DrainReply(reply))
    /\ SF_vars(DrainDecoded)
    /\ SF_vars(DrainCanceled)

FairSpec == Spec /\ Fairness

-----------------------------------------------------------------------------
(* Types; and no entry is in the queue twice, in memory or in storage,     *)
(* the ids createOutboxQueue looks its items up by.                        *)
Distinct(q) == \A i, j \in DOMAIN q : q[i].id = q[j].id => i = j

TypeOK ==
    /\ storage \in Seq(StoredEntry) /\ Distinct(storage)
    /\ items \in Seq(StoredEntry) /\ Distinct(items)
    /\ request \in [Calls -> Identity]
    /\ aborted \subseteq Calls
    /\ capturing \subseteq Calls
    /\ held \subseteq Calls
    /\ settlers \subseteq Calls
    /\ promise \in [Calls -> {"unread", "pending", "resolved", "refused", "canceled"}]
    /\ drain \in Drain
    /\ fate \in [Calls -> Fate]
    /\ outbound \subseteq Message
    /\ strays \subseteq Message
    /\ handled \subseteq Calls
    /\ garbled \subseteq handled
    /\ canceled \subseteq Calls
    /\ ahead \in [Calls -> SUBSET Calls]

(* No overtaking: once a request of a write is on the wire, or handled,    *)
(* every write that was in the queue when it was made has left the queue,  *)
(* whatever resends, cancels, reloads and late requests happened (the FIFO *)
(* order invoke's backlog branch and the head-first drain are for).        *)
NoLeapfrog ==
    \A c \in Calls : c \in handled \/ OnWire(c) => ahead[c] \cap Ids(items) = {}

(* The drain works on the head: the entry it awaits on is the first of     *)
(* the queue, or was canceled meanwhile, even as calls are parked and      *)
(* other entries are canceled while it waits.                              *)
DrainsHead ==
    drain # Idle =>
        \/ items # <<>> /\ items[1].id = drain.call
        \/ drain.call \in aborted \ Ids(items)

(* A canceled write is out of the queue for good: neither the drain it     *)
(* interrupted nor a reload brings it back to be sent later.               *)
CanceledStaysOut == canceled \cap (Ids(items) \cup Ids(storage)) = {}

(* What the app is told through `settled` is what happened to that write:  *)
(* a result or a refusal only for a write the server handled, a            *)
(* cancellation only for one whose controller fired.                       *)
SettledTruth ==
    \A c \in Calls :
        /\ promise[c] \in Outcome => c \in handled \ Ids(items)
        /\ promise[c] = "canceled" => c \in aborted

(* The server never handles a write with the body gone, though the queue   *)
(* persists the body only some time after the entry.                       *)
BodyIntact == garbled = {}

(* A write leaves the queue only if the server handled it or the app       *)
(* canceled it. In particular no reload and no park loses one.             *)
NothingLost ==
    [][\A c \in Ids(items) \ Ids(items') : c \in handled \/ c \in canceled']_vars

(* An entry that leaves the queue while its `settled` is awaited settles   *)
(* it in that very turn: no awaiter is left hanging.                       *)
SettlesOnExit ==
    [][\A c \in (Ids(items) \ Ids(items')) \cap settlers :
          promise'[c] \notin {"unread", "pending"}]_vars

(* Every call parked at some time leaves the queue in the end, delivered   *)
(* or canceled, if the app keeps retrying and the server comes back.       *)
ParkedLeaves ==
    \A c \in Calls : [](c \in Ids(items) => <>(c \notin Ids(items)))

(* The queue, as storage has it, implements the abstract durable queue.    *)
Durable == INSTANCE DurableQueue WITH
    queue <- [i \in DOMAIN storage |-> storage[i].id],
    made <- {c \in Calls : fate[c] # "idle"},
    wire <- {m.call : m \in outbound \cup strays}

ImplementsDurableQueue == Durable!Spec

=============================================================================
