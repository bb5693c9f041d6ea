-------------------------------- MODULE Cache --------------------------------
(***************************************************************************)
(* One key of the tab's cache store: the entry that currently owns it, the *)
(* flights that load and reload it, the swr policy and its timer, the ttl  *)
(* sweep, the placeholder a streamed SSR page left, and one reactive       *)
(* reader (a $derived on the page). Keys do not touch each other but for   *)
(* selectors that cover several, so one is enough.                         *)
(*                                                                         *)
(* A value is abstracted to the set of server writes it reflects.          *)
(***************************************************************************)
EXTENDS Naturals, Sequences, FiniteSets

CONSTANTS
    Writes,     \* the writes the server may take
    Pages,      \* how the page came: "plain", or "streamed" with a placeholder for the key
    CallSites,  \* the options a cache(fn, options) call of such a page may carry
    Failures,   \* the pages whose flights may fail
    MaxEntries, \* bound: entry objects ever made for the key
    MaxFlights  \* bound: calls in the air at once

Ttl == {"forever", "finite", "zero"}
Policy == {"off", "now", "debounce", "throttle"}
CallSite == [swr : Policy, ttl : Ttl]

ASSUME CacheAssumption ==
    /\ Pages \subseteq {"plain", "streamed"} /\ Failures \subseteq Pages
    /\ CallSites \in [Pages -> SUBSET CallSite]
    /\ \A page \in Pages : \A s \in CallSites[page] :
          s.swr # "off" => s.ttl # "zero"   \* validatePolicy
    /\ MaxEntries \in Nat \ {0} /\ MaxFlights \in Nat

VARIABLES
    world,      \* the writes the server has taken
    asked,      \* history: the writes taken when the key was last invalidated
    entries,    \* the entry objects made so far, in order
    current,    \* the entry in the store, 0 when there is none
    marker,     \* the key is in pendingRefresh
    flights,    \* calls in the air
    reader,     \* the reactive reader
    stream      \* the resolution stream of the streamed page

vars == <<world, asked, entries, current, marker, flights, reader, stream>>

-----------------------------------------------------------------------------
(* An entry's promise is `loading` until it resolves. To a value or to an  *)
(* error response is all one to the cache: either is kept.                 *)
Entry == [born : {"placeholder", "chunk", "call"}, loading : BOOLEAN,
          seen : SUBSET Writes, refreshing : BOOLEAN, ttl : Ttl,
          expiring : BOOLEAN, hydrated : BOOLEAN, policy : Policy, timer : BOOLEAN,
          cooling : BOOLEAN]

Flight == [id : 1 .. MaxFlights, entry : 1 .. MaxEntries, kind : {"load", "refetch", "placeholder"},
           served : BOOLEAN, saw : SUBSET Writes]

Reader == [mounted : BOOLEAN, site : CallSite, due : BOOLEAN, waits : 0 .. MaxEntries,
           read : 0 .. MaxEntries, shows : {"nothing", "value", "error"}, saw : SUBSET Writes]

Stream == [pc : {"none", "open", "ended", "aborted"}, deferred : BOOLEAN, served : BOOLEAN,
           saw : SUBSET Writes]

Placeholder == [born |-> "placeholder", loading |-> TRUE, seen |-> {},
                refreshing |-> FALSE, ttl |-> "forever", expiring |-> FALSE, hydrated |-> FALSE,
                policy |-> "off", timer |-> FALSE, cooling |-> FALSE]

-----------------------------------------------------------------------------
(* Flights. *)

FreeIds == {i \in 1 .. MaxFlights : \A f \in flights : f.id # i}

takeOff(e, kind) ==
    /\ FreeIds # {}
    /\ flights' = flights \cup {[id |-> CHOOSE i \in FreeIds : TRUE, entry |-> e, kind |-> kind,
                                 served |-> FALSE, saw |-> {}]}

(* The invalidate event: the reader's scope is to run again.               *)
Notified(r) == [r EXCEPT !.due = r.mounted]

(* A promise the reader awaits comes to rest.                              *)
Answered(r, e, shows, saw) ==
    IF r.waits = e THEN [r EXCEPT !.waits = 0, !.shows = shows, !.saw = saw] ELSE r

(* What the reader makes of entry x, number e, that its read returned.     *)
Looked(r, e, x) ==
    IF x.loading
    THEN [r EXCEPT !.waits = e, !.read = e, !.shows = "nothing", !.saw = {}]
    ELSE [r EXCEPT !.waits = 0, !.read = e, !.shows = "value", !.saw = x.seen]

-----------------------------------------------------------------------------
(* Entries. *)

(* registerEntry(): the pendingRefresh marker makes it a reload.           *)
Registered(site) == [Placeholder EXCEPT !.born = "call", !.policy = site.swr, !.ttl = site.ttl,
                                        !.refreshing = marker]

(* Fault: the last call site's policy wins, even when it has none.         *)
LastPolicyWins(x, site) == [x EXCEPT !.policy = site.swr, !.hydrated = FALSE]

(* attachPolicy() and adoptTtl() on a hit.                                 *)
Adopted(x, site) ==
    LET adopts == x.hydrated /\ site.ttl # "forever"
    IN  [x EXCEPT !.policy = IF @ = "off" THEN site.swr ELSE @,
                  !.hydrated = FALSE,
                  !.ttl = IF adopts THEN site.ttl ELSE @,
                  !.expiring = @ \/ adopts]

(* Faults: whoever owns the key goes; the armed timer stays.               *)
evictAny(es, e) == current' = 0 /\ entries' = [es EXCEPT ![e].timer = FALSE]

evictTimerKept(es, e) ==
    /\ current' = (IF current = e THEN 0 ELSE current)
    /\ entries' = es

(* evictIfCurrent() on the entries es.                                     *)
evictIfCurrent(es, e) ==
    IF current = e
    THEN current' = 0 /\ entries' = [es EXCEPT ![e].timer = FALSE]
    ELSE current' = current /\ entries' = es

(* A read at a call site: a hit adopts, a miss calls and registers.        *)
read(site) ==
    IF current # 0
    THEN /\ entries' = [entries EXCEPT ![current] = Adopted(@, site)]
         /\ UNCHANGED <<current, marker, flights>>
    ELSE /\ Len(entries) < MaxEntries
         /\ entries' = Append(entries, Registered(site))
         /\ current' = Len(entries) + 1
         /\ marker' = FALSE
         /\ takeOff(Len(entries) + 1, "load")

(* fireRefetch() on the entries es: one already in flight is left to it.   *)
fireRefetch(es, e) ==
    IF es[e].policy = "off" \/ es[e].refreshing
    THEN entries' = es /\ UNCHANGED flights
    ELSE /\ entries' = [es EXCEPT ![e].refreshing = TRUE, ![e].cooling = (es[e].policy = "throttle")]
         /\ takeOff(e, "refetch")

scheduleInvalidationRefetch(e) ==
    IF entries[e].policy = "debounce" \/ entries[e].cooling
    THEN entries' = [entries EXCEPT ![e].timer = TRUE] /\ UNCHANGED flights
    ELSE fireRefetch(entries, e)

-----------------------------------------------------------------------------
(* The page. *)

Mount ==
    /\ ~ reader.mounted
    /\ read(reader.site)
    /\ reader' = Looked([reader EXCEPT !.mounted = TRUE], current', entries'[current'])
    /\ UNCHANGED <<world, asked, stream>>

Rerun ==
    /\ reader.due
    /\ read(reader.site)
    /\ reader' = Looked([reader EXCEPT !.due = FALSE], current', entries'[current'])
    /\ UNCHANGED <<world, asked, stream>>

(* The last reader of the key goes, and its reload marker with it.         *)
torndown ==
    /\ reader' = [reader EXCEPT !.mounted = FALSE, !.due = FALSE, !.waits = 0, !.read = 0,
                                !.shows = "nothing", !.saw = {}]
    /\ marker' = FALSE

Unmount ==
    /\ reader.mounted
    /\ torndown
    /\ UNCHANGED <<world, asked, entries, current, flights, stream>>

(* A read outside any tracking scope.                                      *)
ReadOnce(site) ==
    /\ read(site)
    /\ UNCHANGED <<world, asked, reader, stream>>

(* Faults: the reload marker is set with nobody on screen; a load still    *)
(* in the air is kept, as if it were bound to bring the latest state.      *)
InvalidateUngated ==
    /\ asked' = world
    /\ IF current = 0
       THEN UNCHANGED <<entries, current, marker, flights, reader>>
       ELSE IF entries[current].policy # "off"
       THEN scheduleInvalidationRefetch(current) /\ UNCHANGED <<current, marker, reader>>
       ELSE /\ current' = 0 /\ marker' = TRUE
            /\ reader' = Notified(reader)
            /\ UNCHANGED <<entries, flights>>
    /\ UNCHANGED <<world, stream>>

InvalidateSettled ==
    /\ asked' = world
    /\ IF current = 0 \/ entries[current].loading
       THEN UNCHANGED <<entries, current, marker, flights, reader>>
       ELSE IF entries[current].policy # "off"
       THEN scheduleInvalidationRefetch(current) /\ UNCHANGED <<current, marker, reader>>
       ELSE /\ current' = 0
            /\ marker' = (marker \/ reader.mounted)
            /\ reader' = Notified(reader)
            /\ UNCHANGED <<entries, flights>>
    /\ UNCHANGED <<world, stream>>

(* cache.invalidate(): a policy schedules a refetch, else the entry goes.  *)
Invalidate ==
    /\ asked' = world
    /\ IF current = 0
       THEN UNCHANGED <<entries, current, marker, flights, reader>>
       ELSE IF entries[current].policy # "off"
       THEN scheduleInvalidationRefetch(current) /\ UNCHANGED <<current, marker, reader>>
       ELSE /\ current' = 0
            /\ marker' = (marker \/ reader.mounted)
            /\ reader' = Notified(reader)
            /\ UNCHANGED <<entries, flights>>
    /\ UNCHANGED <<world, stream>>

TimerFires(e) ==
    /\ entries[e].timer
    /\ fireRefetch([entries EXCEPT ![e].timer = FALSE, ![e].cooling = FALSE], e)
    /\ UNCHANGED <<world, asked, current, marker, reader, stream>>

(* The throttle window passes with no timer armed.                         *)
WindowPasses(e) ==
    /\ entries[e].cooling /\ ~ entries[e].timer
    /\ entries' = [entries EXCEPT ![e].cooling = FALSE]
    /\ UNCHANGED <<world, asked, current, marker, flights, reader, stream>>

(* The ttl sweep: evicts without waking the reader.                        *)
Expire(e) ==
    /\ entries[e].expiring
    /\ evictIfCurrent([entries EXCEPT ![e].expiring = FALSE], e)
    /\ UNCHANGED <<world, asked, marker, flights, reader, stream>>

-----------------------------------------------------------------------------
(* Calls coming back. *)

(* The promise entry e was made with resolves, unless a refetch has put    *)
(* its own in the entry meanwhile.                                         *)
Loaded(e, saw) ==
    IF entries[e].loading THEN [entries EXCEPT ![e].loading = FALSE, ![e].seen = saw] ELSE entries

(* registerEntry's continuation: the first load resolved.                  *)
LoadResolves(f) ==
    LET e == f.entry
        loaded == Loaded(e, f.saw)
        es == [loaded EXCEPT ![e].refreshing = FALSE,
                             ![e].expiring = (@ \/ loaded[e].ttl = "finite")]
    IN  /\ f.kind = "load" /\ f.served
        /\ flights' = flights \ {f}
        /\ IF es[e].ttl = "zero" THEN evictIfCurrent(es, e)
           ELSE entries' = es /\ UNCHANGED current
        /\ reader' = Answered(reader, e, "value", f.saw)
        /\ UNCHANGED <<world, asked, marker, stream>>

(* The first load rejected: a failure is never retained.                   *)
LoadRejects(f) ==
    /\ f.kind = "load"
    /\ flights' = flights \ {f}
    /\ evictIfCurrent(entries, f.entry)
    /\ reader' = Answered(reader, f.entry, "error", {})
    /\ UNCHANGED <<world, asked, marker, stream>>

(* Fault: the swap wakes nobody.                                           *)
RefetchUnheard(f) ==
    /\ f.kind = "refetch" /\ f.served
    /\ flights' = flights \ {f}
    /\ entries' = [entries EXCEPT ![f.entry].refreshing = FALSE,
                                  ![f.entry].loading = @ /\ current # f.entry,
                                  ![f.entry].seen = IF current = f.entry THEN f.saw ELSE @]
    /\ UNCHANGED <<world, asked, current, marker, reader, stream>>

(* A refetch brought a body: swap it in, unless the entry was replaced.    *)
RefetchResolves(f) ==
    LET e == f.entry
        es == [entries EXCEPT ![e].refreshing = FALSE]
    IN  /\ f.kind = "refetch" /\ f.served
        /\ flights' = flights \ {f}
        /\ IF current = e
           THEN /\ entries' = [es EXCEPT ![e].loading = FALSE, ![e].seen = f.saw]
                /\ reader' = Notified(reader)
           ELSE entries' = es /\ UNCHANGED reader
        /\ UNCHANGED <<world, asked, current, marker, stream>>

(* Fault: a failed refetch leaves the entry reloading.                     *)
RefetchFailsQuietly(f) ==
    /\ f.kind = "refetch"
    /\ flights' = flights \ {f}
    /\ UNCHANGED <<world, asked, entries, current, marker, reader, stream>>

(* settleRefetchFailure(): stale is kept.                                  *)
RefetchFails(f) ==
    /\ f.kind = "refetch"
    /\ flights' = flights \ {f}
    /\ entries' = [entries EXCEPT ![f.entry].refreshing = FALSE]
    /\ UNCHANGED <<world, asked, current, marker, reader, stream>>

(* settleRefetchFailure() on a 404: the entry goes.                        *)
RefetchGone(f) ==
    /\ f.kind = "refetch"
    /\ flights' = flights \ {f}
    /\ evictIfCurrent([entries EXCEPT ![f.entry].refreshing = FALSE], f.entry)
    /\ IF current = f.entry
       THEN marker' = (marker \/ reader.mounted) /\ reader' = Notified(reader)
       ELSE UNCHANGED <<marker, reader>>
    /\ UNCHANGED <<world, asked, stream>>

(* The promise of a placeholder takes on a live call: nothing settles the  *)
(* entry or evicts it.                                                     *)
PlaceholderResolves(f) ==
    /\ f.kind = "placeholder" /\ f.served
    /\ flights' = flights \ {f}
    /\ entries' = Loaded(f.entry, f.saw)
    /\ reader' = Answered(reader, f.entry, "value", f.saw)
    /\ UNCHANGED <<world, asked, current, marker, stream>>

-----------------------------------------------------------------------------
(* The resolution stream of a streamed page; its placeholder is entry 1.   *)

(* Fault: the chunk wakes nobody.                                          *)
StreamUnheard ==
    /\ stream.pc = "open" /\ stream.deferred /\ stream.served
    /\ Len(entries) < MaxEntries
    /\ entries' = Append(Loaded(1, stream.saw),
                         [Placeholder EXCEPT !.born = "chunk", !.loading = FALSE,
                                             !.seen = stream.saw, !.hydrated = TRUE])
    /\ current' = Len(entries) + 1
    /\ stream' = [stream EXCEPT !.deferred = FALSE]
    /\ reader' = Answered(reader, 1, "value", stream.saw)
    /\ UNCHANGED <<world, asked, marker, flights>>

StreamResolves ==
    /\ stream.pc = "open" /\ stream.deferred /\ stream.served
    /\ Len(entries) < MaxEntries
    /\ entries' = Append(Loaded(1, stream.saw),
                         [Placeholder EXCEPT !.born = "chunk", !.loading = FALSE,
                                             !.seen = stream.saw, !.hydrated = TRUE])
    /\ current' = Len(entries) + 1
    /\ stream' = [stream EXCEPT !.deferred = FALSE]
    /\ reader' = Notified(Answered(reader, 1, "value", stream.saw))
    /\ UNCHANGED <<world, asked, marker, flights>>

StreamMiss ==
    /\ stream.pc = "open" /\ stream.deferred
    /\ takeOff(1, "placeholder")
    /\ stream' = [stream EXCEPT !.deferred = FALSE]
    /\ UNCHANGED <<world, asked, entries, current, marker, reader>>

(* Fault: the stream's end leaves what it never settled.                   *)
StreamEndsUnflushed ==
    /\ stream.pc = "open"
    /\ stream' = [stream EXCEPT !.pc = "ended"]
    /\ UNCHANGED <<world, asked, entries, current, marker, flights, reader>>

(* A clean end or a cut: what is left is fetched live.                     *)
StreamEnds ==
    /\ stream.pc = "open"
    /\ stream' = [stream EXCEPT !.pc = "ended", !.deferred = FALSE]
    /\ IF stream.deferred THEN takeOff(1, "placeholder") ELSE UNCHANGED flights
    /\ UNCHANGED <<world, asked, entries, current, marker, reader>>

(* A navigation aborts the stream and takes the page's reader; what is     *)
(* left of the stream stays as it is.                                      *)
Navigate ==
    /\ stream.pc = "open"
    /\ stream' = [stream EXCEPT !.pc = "aborted"]
    /\ torndown
    /\ UNCHANGED <<world, asked, entries, current, flights>>

-----------------------------------------------------------------------------
(* The server. *)

Write(w) ==
    /\ w \notin world
    /\ world' = world \cup {w}
    /\ UNCHANGED <<asked, entries, current, marker, flights, reader, stream>>

Serve(f) ==
    /\ ~ f.served
    /\ flights' = (flights \ {f}) \cup {[f EXCEPT !.served = TRUE, !.saw = world]}
    /\ UNCHANGED <<world, asked, entries, current, marker, reader, stream>>

ServeStream ==
    /\ stream.pc = "open" /\ ~ stream.served
    /\ stream' = [stream EXCEPT !.served = TRUE, !.saw = world]
    /\ UNCHANGED <<world, asked, entries, current, marker, flights, reader>>

-----------------------------------------------------------------------------
Init ==
    /\ world = {} /\ asked = {}
    /\ \E page \in Pages :
          /\ entries = IF page = "streamed" THEN <<Placeholder>> ELSE <<>>
          /\ current = Len(entries)
          /\ stream = [pc |-> IF page = "streamed" THEN "open" ELSE "none",
                        deferred |-> page = "streamed", served |-> FALSE, saw |-> {}]
          /\ reader \in [mounted : {FALSE}, site : CallSites[page], due : {FALSE}, waits : {0},
                         read : {0}, shows : {"nothing"}, saw : {{}}]
    /\ marker = FALSE
    /\ flights = {}

ThisPage == IF stream.pc = "none" THEN "plain" ELSE "streamed"

Next ==
    \/ \E site \in CallSites[ThisPage] : ReadOnce(site)
    \/ Mount \/ Rerun \/ Unmount \/ Invalidate
    \/ \E e \in DOMAIN entries : TimerFires(e) \/ WindowPasses(e) \/ Expire(e)
    \/ \E f \in flights :
          \/ Serve(f)
          \/ LoadResolves(f) \/ PlaceholderResolves(f) \/ RefetchResolves(f)
          \/ ThisPage \in Failures /\ (LoadRejects(f) \/ RefetchFails(f) \/ RefetchGone(f))
    \/ StreamResolves \/ StreamMiss \/ StreamEnds \/ Navigate
    \/ \E w \in Writes : Write(w)
    \/ ServeStream

Spec == Init /\ [][Next]_vars

-----------------------------------------------------------------------------
(* Properties. *)

(* The variables keep their types; only a policy arms a timer.             *)
TypeOK ==
    /\ world \subseteq Writes /\ asked \subseteq world
    /\ entries \in Seq(Entry) /\ Len(entries) <= MaxEntries
    /\ \A e \in DOMAIN entries : /\ entries[e].timer => entries[e].policy # "off"
                                 /\ entries[e].cooling => entries[e].policy = "throttle"
    /\ current \in 0 .. Len(entries)
    /\ marker \in BOOLEAN
    /\ flights \subseteq Flight
    /\ \A f, g \in flights : f.id = g.id => f = g
    /\ reader \in Reader
    /\ stream \in Stream

(* What is in the air for entry e.                                         *)
Airborne(e, kinds) == {f \in flights : f.entry = e /\ f.kind \in kinds}

(* A chunk, or the flush at the stream's end, is still to come.            *)
StreamOwes == stream.pc = "open" /\ stream.deferred

(* A read that waits on an entry has its answer under way, however the     *)
(* entry was dropped, replaced or swept in the meantime.                   *)
ReadsAnswered ==
    reader.waits # 0 => \/ Airborne(reader.waits, {"load", "placeholder"}) # {}
                        \/ reader.waits = 1 /\ StreamOwes

(* ... but for the placeholder of a page left before its stream ended.     *)
WaitAnswered ==
    reader.waits # 1 \/ stream.pc # "aborted" => ReadsAnswered

(* refreshing() is backed by a call in the air: an entry in the store is   *)
(* not left reloading for ever by a call that failed or was discarded.     *)
RefreshingIsBacked ==
    current # 0 /\ entries[current].refreshing => Airborne(current, {"load", "refetch"}) # {}

(* The reload marker is kept only for a key somebody has on screen.        *)
MarkerNeedsReader == marker => reader.mounted

(* What scheduling leaves behind is used up: the flag and the marker.      *)
BookkeepingSound == RefreshingIsBacked /\ MarkerNeedsReader

(* Without a policy, an invalidate is final: what a call made before it    *)
(* brings back is never what the store serves afterwards.                  *)
HardDropFresh ==
    current # 0 =>
        LET x == entries[current]
        IN  x.born = "call" /\ x.policy = "off" /\ ~ x.loading => asked \subseteq x.seen

(* A reader at rest on the entry in the store shows what that entry holds, *)
(* not what it held before a refetch, nor what a chunk has replaced.       *)
ReaderAtRest == reader.mounted /\ ~ reader.due /\ reader.waits = 0

ReaderInSync ==
    /\ ReaderAtRest /\ current # 0
    /\ reader.read = current \/ entries[current].born = "chunk"
    => reader.saw = entries[current].seen

(* What the store serves, and what the screen shows of it, is not older    *)
(* than the last invalidate and the last refetch allow (cache.ts).         *)
CallsFresh == HardDropFresh /\ ReaderInSync

(* An entry leaves the store only by an invalidate, by the stream or for   *)
(* reasons of its own: a call or a sweep of an entry it replaced never     *)
(* takes it along.                                                         *)
ReplacementKept ==
    [][current # 0 /\ current' # current =>
          \/ Invalidate
          \/ stream' # stream
          \/ Expire(current)
          \/ \E f \in flights \ flights' : f.entry = current]_vars

(* A refetch takes off only for the entry that owns the key: a dead entry  *)
(* never refetches, whatever timer was armed when it died. (An entry that  *)
(* a chunk overwrites keeps its timer.)                                    *)
DeadNeverRefetches ==
    [][\A f \in flights' : f.kind = "refetch" /\ (\A g \in flights : g.id # f.id) =>
          \/ f.entry = current
          \/ \E e \in DOMAIN entries : e > f.entry /\ entries[e].born = "chunk"]_vars

(* One entry owns the key at a time: the dead neither evict nor refetch    *)
(* (evictIfCurrent, scheduleInvalidationRefetch).                          *)
OwnersKept == ReplacementKept /\ DeadNeverRefetches

(* An invalidate reaches the screen: when everything is at rest, a reader  *)
(* shows nothing older than what was there when the key was last           *)
(* invalidated.                                                            *)
ReaderFresh ==
    /\ ReaderAtRest /\ reader.shows = "value"
    /\ flights = {} /\ ~ StreamOwes
    /\ \A e \in DOMAIN entries : ~ entries[e].timer
    => asked \subseteq reader.saw

=============================================================================
