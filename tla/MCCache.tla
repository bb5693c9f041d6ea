------------------------------ MODULE MCCache -------------------------------
(* Small instances of Cache for TLC.                                       *)
EXTENDS Cache

Site(swr, ttl) == [swr |-> swr, ttl |-> ttl]

(* The options met on one key: none, a short ttl, ttl 0, each swr window.  *)
PlainOnly(sites) == [page \in {"plain"} |-> sites]

StreamedSites == [page \in {"streamed"} |-> {Site("off", "forever")}]
TtlSites == PlainOnly({Site("off", "finite")})
SwrSites == PlainOnly({Site("now", "forever")})
EitherSites ==
    [page \in {"plain", "streamed"} |->
        IF page = "plain" THEN {Site("off", "finite"), Site("throttle", "forever")}
        ELSE {Site("off", "zero"), Site("debounce", "forever")}]

(* States are told apart up to what nothing reads again: which of two      *)
(* flights has which id, and what is left in an entry that lost the key    *)
(* and has neither a flight nor a timer.                                   *)
Inert(e) == e # current /\ ~ entries[e].timer /\ \A f \in flights : f.entry # e

EntryView(e) ==
    IF Inert(e) THEN [Placeholder EXCEPT !.born = entries[e].born, !.expiring = entries[e].expiring]
    ELSE entries[e]

Twins(f) == Cardinality({g \in flights : [g EXCEPT !.id = f.id] = f})

View == <<world, asked, current, marker, reader, stream, [e \in DOMAIN entries |-> EntryView(e)],
          {<<[f EXCEPT !.id = 1], Twins(f)>> : f \in flights}>>

=============================================================================
