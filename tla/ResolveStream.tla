---------------------------- MODULE ResolveStream ----------------------------
(***************************************************************************)
(* A streamed page from the request to the settled placeholders: the       *)
(* render and its request-scoped store, the stash its pending reads wait   *)
(* in, the resolve stream that drains them, and the tab that hydrates the  *)
(* document and settles its placeholders. Other pages share the stash:     *)
(* theirs come, are taken and expire around this one's.                    *)
(*                                                                         *)
(* Keys are replayable remote reads: producers and writes never ship.      *)
(***************************************************************************)
EXTENDS Naturals, Sequences, FiniteSets, SequencesExt

CONSTANTS
    Keys,       \* the reads a page may make
    MaxStashes, \* MAX_STASHES
    MaxOthers   \* bound: the pages stashed by other requests

ASSUME ResolveAssumption == MaxStashes \in Nat \ {0} /\ MaxOthers \in Nat

(* The tokens: this page's, and those of the others.                       *)
Ours == "ours"
Theirs == "theirs"

VARIABLES
    server,     \* the render and its request store
    stash,      \* the pages that wait for their tab, oldest first
    others,     \* how many other pages were stashed
    drain,      \* the resolve stream at the server
    tab,        \* the browser that got the document
    hist        \* what the properties remember

rsvars == <<server, stash, others, drain, tab, hist>>

-----------------------------------------------------------------------------
(* "broken" is a textual response whose body fails while it is read.       *)
Settlement == {"text", "binary", "rejected", "broken"}

(* owned: the keys whose entry still is the one in the store.              *)
Server == [pc : {"idle", "rendering", "sent", "failed"},
           call : [Keys -> {"unread", "running"} \cup Settlement],
           awaited : SUBSET Keys, owned : SUBSET Keys,
           inline : SUBSET Keys, pending : SUBSET Keys]

Line == [key : Keys, miss : BOOLEAN]

Drain == [pc : {"none", "open", "done"}, inflight : SUBSET Keys, wire : Seq(Line)]

Tab == [pc : {"none", "asking", "open", "ended", "left"},
        slot : [Keys -> {"unread", "waiting", "warm", "live"}], restored : BOOLEAN]

Hist == [bodies : [Keys -> Nat], again : SUBSET Keys, excused : BOOLEAN,
         expired : BOOLEAN, newer : 0 .. MaxOthers]

ResolveInit ==
    /\ server = [pc |-> "idle", call |-> [k \in Keys |-> "unread"],
                 awaited |-> {}, owned |-> {}, inline |-> {}, pending |-> {}]
    /\ stash = <<>> /\ others = 0
    /\ drain = [pc |-> "none", inflight |-> {}, wire |-> <<>>]
    /\ tab = [pc |-> "none", slot |-> [k \in Keys |-> "unread"], restored |-> FALSE]
    /\ hist = [bodies |-> [k \in Keys |-> 0], again |-> {}, excused |-> FALSE,
               expired |-> FALSE, newer |-> 0]

-----------------------------------------------------------------------------
(* The render. *)

(* A page reads K; it blocks on A and leaves the others to {#await}.       *)
Begin ==
    /\ server.pc = "idle"
    /\ \E K \in SUBSET Keys : \E A \in SUBSET K :
           server' = [server EXCEPT !.pc = "rendering", !.owned = K, !.awaited = A,
                          !.call = [k \in Keys |-> IF k \in K THEN "running" ELSE "unread"]]
    /\ UNCHANGED <<stash, others, drain, tab, hist>>

(* A handler answers. A rejection takes its entry from the store.          *)
Settle(k) ==
    /\ server.call[k] = "running"
    /\ \E how \in Settlement :
           server' = [server EXCEPT !.call[k] = how,
                          !.owned = IF how = "rejected" THEN @ \ {k} ELSE @]
    /\ UNCHANGED <<stash, others, drain, tab, hist>>

(* A handler of the request invalidates a key while it runs.               *)
Invalidate(k) ==
    /\ \E h \in Keys : server.call[h] = "running"
    /\ k \in server.owned
    /\ server' = [server EXCEPT !.owned = @ \ {k}]
    /\ UNCHANGED <<stash, others, drain, tab, hist>>

Settled == {k \in Keys : server.call[k] \in Settlement}

(* serializeCacheSnapshot()'s two halves. *)
Pending == server.owned \ Settled
Inline == {k \in server.owned : server.call[k] = "text"}

(* An awaited read throws, and so does the body of a settled one.          *)
Throws ==
    \/ \E k \in server.awaited : server.call[k] \in {"rejected", "broken"}
    \/ \E k \in server.owned : server.call[k] = "broken"

(* An error.svelte or the plain 500: a document that hydrates nothing.     *)
RenderFails ==
    /\ server.pc = "rendering"
    /\ server.awaited \subseteq Settled
    /\ Throws
    /\ server' = [server EXCEPT !.pc = "failed"]
    /\ UNCHANGED <<stash, others, drain, tab, hist>>

Full == Len(stash) >= MaxStashes

(* Faults: the count may grow past the cap; the newest makes room.         *)
stashLate(t) == IF Len(stash) > MaxStashes THEN Append(Tail(stash), t) ELSE Append(stash, t)
stashNewest(t) == IF Full THEN Append(Front(stash), t) ELSE Append(stash, t)

(* stashPendingStream(): the oldest makes room.                            *)
stashPendingStream(t) == IF Full THEN Append(Tail(stash), t) ELSE Append(stash, t)

Stashed == {stash[i] : i \in DOMAIN stash}

(* takePendingStream(), and what a timer does at the end of the TTL.       *)
takePendingStream(t) == \E i \in DOMAIN stash : stash[i] = t /\ stash' = RemoveAt(stash, i)

RenderReturns ==
    /\ server.pc = "rendering"
    /\ server.awaited \subseteq Settled
    /\ ~Throws
    /\ server' = [server EXCEPT !.pc = "sent", !.inline = Inline, !.pending = Pending]
    /\ stash' = IF Pending = {} THEN stash ELSE stashPendingStream(Ours)
    /\ hist' = [hist EXCEPT !.bodies = [k \in Keys |-> IF k \in Inline THEN 1 ELSE 0]]
    /\ UNCHANGED <<others, drain, tab>>

(* Another request stashes its page.                                       *)
StashOther ==
    /\ others < MaxOthers
    /\ others' = others + 1
    /\ stash' = stashPendingStream(Theirs)
    /\ hist' = [hist EXCEPT !.newer = IF Ours \in Stashed THEN @ + 1 ELSE @]
    /\ UNCHANGED <<server, drain, tab>>

(* A tab of another page comes for its stash, or STASH_TTL_MS passed.      *)
OtherGone ==
    /\ takePendingStream(Theirs)
    /\ UNCHANGED <<server, others, drain, tab, hist>>

(* STASH_TTL_MS passed and nobody came.                                    *)
Expires ==
    /\ takePendingStream(Ours)
    /\ hist' = [hist EXCEPT !.expired = TRUE]
    /\ UNCHANGED <<server, others, drain, tab>>

-----------------------------------------------------------------------------
(* The tab. *)

Reads == {k \in Keys : server.call[k] # "unread"}

(* A read that was neither shipped nor promised calls the server again.    *)
Unshipped == Reads \ (server.inline \cup server.pending)

hydrated ==
    /\ tab' = [tab EXCEPT
           !.pc = IF server.pending = {} THEN "ended" ELSE "asking",
           !.slot = [k \in Keys |-> CASE k \in server.inline -> "warm"
                                         [] k \in server.pending -> "waiting"
                                         [] k \in Unshipped -> "live"
                                         [] OTHER -> "unread"]]
    /\ drain' = [pc |-> "none", inflight |-> {}, wire |-> <<>>]

Hydrate ==
    /\ server.pc = "sent" /\ tab.pc = "none"
    /\ hydrated
    /\ hist' = [hist EXCEPT !.again = @ \cup Unshipped]
    /\ UNCHANGED <<server, stash, others>>

(* A tab restored, or gone back to, from the document the browser kept     *)
(* ("private, no-cache"): the token in it is the spent one.                *)
Restore ==
    /\ tab.pc \in {"ended", "left"} /\ ~tab.restored
    /\ tab' = [tab EXCEPT !.restored = TRUE,
                   !.pc = IF server.pending = {} THEN "ended" ELSE "asking",
                   !.slot = [k \in Keys |-> IF k \in server.pending THEN "waiting" ELSE @[k]]]
    /\ drain' = [pc |-> "none", inflight |-> {}, wire |-> <<>>]
    /\ hist' = [hist EXCEPT !.excused = TRUE]
    /\ UNCHANGED <<server, stash, others>>

waiting == {k \in Keys : tab.slot[k] = "waiting"}

(* flushUnresolvedPlaceholders(): every leftover is fetched live.          *)
flushed ==
    /\ tab' = [tab EXCEPT !.pc = "ended",
                   !.slot = [k \in Keys |-> IF @[k] = "waiting" THEN "live" ELSE @[k]]]
    /\ hist' = [hist EXCEPT !.again = @ \cup waiting]

(* Fault: the stash stays for the next who asks.                           *)
TakeKept ==
    /\ tab.pc = "asking" /\ Ours \in Stashed
    /\ drain' = [pc |-> "open", inflight |-> server.pending, wire |-> <<>>]
    /\ tab' = [tab EXCEPT !.pc = "open"]
    /\ UNCHANGED <<server, stash, others, hist>>

(* The stream is asked for: the stash is taken, and drained from now on.   *)
Take ==
    /\ tab.pc = "asking"
    /\ takePendingStream(Ours)
    /\ drain' = [pc |-> "open", inflight |-> server.pending, wire |-> <<>>]
    /\ tab' = [tab EXCEPT !.pc = "open"]
    /\ UNCHANGED <<server, others, hist>>

(* The 404 of a token that is gone.                                        *)
Refused ==
    /\ tab.pc = "asking" /\ Ours \notin Stashed
    /\ flushed
    /\ UNCHANGED <<server, stash, others, drain>>

-----------------------------------------------------------------------------
(* The resolve stream. *)

Lands == drain.inflight \cap Settled

Shippable(k) == server.call[k] = "text" /\ k \in server.owned

frame(k) == [key |-> k, miss |-> ~Shippable(k)]

read(k) ==
    hist' = [hist EXCEPT !.bodies[k] = @ + (IF Shippable(k) THEN 1 ELSE 0)]

(* Fault: a read leaves the map as it settles, not as it is yielded.       *)
EmitRacing ==
    /\ drain.pc = "open"
    /\ \E k \in Lands :
           /\ drain' = [drain EXCEPT !.inflight = @ \ Lands,
                                     !.wire = Append(@, frame(k))]
           /\ read(k)
    /\ UNCHANGED <<server, stash, others, tab>>

(* streamCacheResolutions(): whichever settled read comes first, one frame *)
(* each. The entry's body is read once, by the frame that ships it.        *)
Emit ==
    /\ drain.pc = "open"
    /\ \E k \in Lands :
           /\ ~(server.call[k] = "broken" /\ k \in server.owned)
           /\ drain' = [drain EXCEPT !.inflight = @ \ {k}, !.wire = Append(@, frame(k))]
           /\ read(k)
    /\ UNCHANGED <<server, stash, others, tab>>

(* A body that fails throws out of the generator: the stream just ends.    *)
Breaks ==
    /\ drain.pc = "open"
    /\ \E k \in Lands : server.call[k] = "broken" /\ k \in server.owned
    /\ drain' = [drain EXCEPT !.pc = "done", !.inflight = {}]
    /\ hist' = [hist EXCEPT !.excused = TRUE]
    /\ UNCHANGED <<server, stash, others, tab>>

Finish ==
    /\ drain.pc = "open" /\ drain.inflight = {}
    /\ drain' = [drain EXCEPT !.pc = "done"]
    /\ UNCHANGED <<server, stash, others, tab, hist>>

(* applyStreamedResolution(): a warm entry, or a live call for a miss.     *)
Apply ==
    /\ tab.pc = "open" /\ drain.wire # <<>>
    /\ LET f == Head(drain.wire)
       IN  /\ tab' = [tab EXCEPT !.slot[f.key] = IF f.miss THEN "live" ELSE "warm"]
           /\ hist' = [hist EXCEPT !.again = IF f.miss THEN @ \cup {f.key} ELSE @]
    /\ drain' = [drain EXCEPT !.wire = Tail(@)]
    /\ UNCHANGED <<server, stash, others>>

(* Fault: a clean end needs no flush, every read had its frame.            *)
EndUnflushed ==
    /\ tab.pc = "open" /\ drain.pc = "done" /\ drain.wire = <<>>
    /\ tab' = [tab EXCEPT !.pc = "ended"]
    /\ UNCHANGED <<server, stash, others, drain, hist>>

End ==
    /\ tab.pc = "open" /\ drain.pc = "done" /\ drain.wire = <<>>
    /\ flushed
    /\ UNCHANGED <<server, stash, others, drain>>

cancelled == drain' = [pc |-> "done", inflight |-> {}, wire |-> <<>>]

(* The idle timeout or the network ends the stream, or the ask for it.     *)
Cut ==
    /\ tab.pc \in {"asking", "open"}
    /\ cancelled
    /\ tab' = [tab EXCEPT !.pc = "ended",
                   !.slot = [k \in Keys |-> IF @[k] = "waiting" THEN "live" ELSE @[k]]]
    /\ hist' = [hist EXCEPT !.again = @ \cup waiting, !.excused = TRUE]
    /\ UNCHANGED <<server, stash, others>>

(* A navigation aborts the stream and leaves the gone page's reads alone.  *)
Leave ==
    /\ tab.pc \in {"asking", "open"}
    /\ tab' = [tab EXCEPT !.pc = "left"]
    /\ cancelled
    /\ UNCHANGED <<server, stash, others, hist>>

-----------------------------------------------------------------------------
ResolveNext ==
    \/ Begin \/ RenderFails \/ RenderReturns
    \/ \E k \in Keys : Settle(k) \/ Invalidate(k)
    \/ StashOther \/ OtherGone \/ Expires
    \/ Hydrate \/ Restore \/ Take \/ Refused
    \/ Emit \/ Breaks \/ Finish
    \/ Apply \/ End \/ Cut \/ Leave

(* Handlers answer, the server drains what it took and the tab reads it.   *)
ResolveFairness ==
    /\ \A k \in Keys : WF_rsvars(Settle(k))
    /\ WF_rsvars(Take) /\ WF_rsvars(Refused)
    /\ WF_rsvars(Emit) /\ WF_rsvars(Breaks) /\ WF_rsvars(Finish)
    /\ WF_rsvars(Apply) /\ WF_rsvars(End)

ResolveSpec == ResolveInit /\ [][ResolveNext]_rsvars /\ ResolveFairness

-----------------------------------------------------------------------------
ResolveType ==
    /\ server \in Server
    /\ stash \in Seq({Ours, Theirs})
    /\ others \in 0 .. MaxOthers
    /\ drain \in Drain
    /\ tab \in Tab
    /\ hist \in Hist

(* A read is run again by the browser only when its answer could not ship: *)
(* streaming a page does not cost a second run of its handlers. Cuts, lost *)
(* tokens, bodies that break and restored documents are excused.           *)
RunOnce ==
    ~hist.excused /\ ~hist.expired /\ hist.newer < MaxStashes =>
        hist.again \subseteq {k \in Keys : ~Shippable(k)}

(* A response body is read once at most: inline, or by the one stream that *)
(* may take it. A second drain of the same stash would find it used up.    *)
BodyReadOnce == \A k \in Keys : hist.bodies[k] <= 1

(* What a streamed page runs and reads, it runs and reads once.            *)
ResolvesOnce == RunOnce /\ BodyReadOnce

(* The stores of pages nobody comes for are bounded in number.             *)
StashBounded == Len(stash) <= MaxStashes

(* A tab in time that was not pushed out by MaxStashes newer pages finds   *)
(* its stash: a burst of renders evicts the oldest and no other.           *)
TokenHonoured ==
    [][Refused => hist.expired \/ hist.excused \/ hist.newer >= MaxStashes]_rsvars

(* Every placeholder of a page that stays is settled, whatever becomes of  *)
(* its stream.                                                             *)
PlaceholdersSettle ==
    tab.pc \in {"asking", "open"} ~> (tab.pc = "left" \/ waiting = {})
=============================================================================
