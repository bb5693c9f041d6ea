----------------------------- MODULE Reachable -----------------------------
(***************************************************************************)
(* reachable(host): the registry of createReachable for one origin (the    *)
(* others are other keys of its Map). A cold read awaits one real probe,   *)
(* whose answer hands the entry to a watch of its own; the watch's probe   *)
(* is also the reaper of an entry nobody has read for idleMs. An entry     *)
(* that left the registry may still have a probe under way, or a watch.    *)
(***************************************************************************)
EXTENDS Naturals, FiniteSets

CONSTANTS
    Entries,   \* identities for entries; one is used again when nothing runs
    NoEntry,
    Misses     \* failureLimit

ASSUME ReachableAssumption ==
    /\ IsFiniteSet(Entries) /\ NoEntry \notin Entries
    /\ Misses \in Nat \ {0}

VARIABLES
    host,        \* the host answers
    registered,  \* the origin's entry in the registry
    entry,       \* the entries
    cut,         \* entries that left the registry before their first answer
    scope        \* what a reactive scope on the client shows or waits for

rvars == <<host, registered, entry, cut, scope>>

(* idle: lastReadAt is longer ago than idleMs. poll: the entry's watch, or *)
(* "first" for its first probe. during: values of `host` since the probe   *)
(* in flight began, none for the reaper's own FALSE. verdict, fresh: the   *)
(* watch's.                                                                *)
Entry == [alive : BOOLEAN, idle : BOOLEAN,
          poll : {"off", "first", "armed", "asks"}, failures : 0 .. Misses,
          verdict : BOOLEAN, fresh : BOOLEAN, during : SUBSET BOOLEAN]

Cold == [alive |-> TRUE, idle |-> FALSE, poll |-> "first", failures |-> 0,
         verdict |-> TRUE, fresh |-> TRUE, during |-> {host}]

ReachType ==
    /\ host \in BOOLEAN
    /\ registered \in Entries \cup {NoEntry}
    /\ entry \in [Entries -> Entry]
    /\ cut \subseteq Entries
    /\ scope \in {"stale", "up", "down"} \cup Entries

ReachInit ==
    /\ host \in BOOLEAN
    /\ registered = NoEntry
    /\ entry = [e \in Entries |-> [Cold EXCEPT !.poll = "off", !.during = {}]]
    /\ cut = {}
    /\ scope = "stale"

Warm(e) == e # NoEntry /\ entry[e].poll # "first"
Word(b) == IF b THEN "up" ELSE "down"
Free == {e \in Entries \ {registered} : entry[e].poll = "off"}

-----------------------------------------------------------------------------
(* reachable(), by the scope when it (re-)runs and by any other caller. A  *)
(* warm entry answers at once, a cold one when its first probe does.       *)
reads(byScope) ==
    \/ /\ registered # NoEntry
       /\ entry' = [entry EXCEPT ![registered].idle = FALSE]
       /\ scope' = IF ~byScope THEN scope
                   ELSE IF Warm(registered) THEN Word(entry[registered].alive)
                   ELSE registered
       /\ UNCHANGED <<registered, cut>>
    \/ /\ registered = NoEntry
       /\ \E e \in Free :
            /\ registered' = e
            /\ entry' = [entry EXCEPT ![e] = Cold]
            /\ cut' = cut \ {e}
            /\ scope' = IF byScope THEN e ELSE scope

ScopeRuns == scope = "stale" /\ reads(TRUE) /\ UNCHANGED host
CallerReads == reads(FALSE) /\ UNCHANGED host

(* The first probe answers (a rejection reads as FALSE): startWatch, even  *)
(* for an entry that has left the registry meanwhile.                      *)
FirstAnswer(e) == \E alive \in entry[e].during :
    /\ entry[e].poll = "first"
    /\ entry' = [entry EXCEPT ![e].alive = alive, ![e].poll = "armed",
                              ![e].during = {}]
    /\ scope' = IF scope = e THEN Word(alive) ELSE scope
    /\ UNCHANGED <<host, registered, cut>>

leaves(e) == cut' = IF entry[e].poll = "first" THEN cut \cup {e} ELSE cut

(* stop(), for shutdown and tests: the origin's poll ends; a first probe   *)
(* goes on.                                                                *)
StopAll ==
    /\ registered # NoEntry
    /\ entry[registered].poll = "first" => Cardinality(cut) + 2 <= Cardinality(Entries)
    /\ registered' = NoEntry
    /\ entry' = [entry EXCEPT ![registered].poll =
                     IF @ = "first" THEN @ ELSE "off"]
    /\ leaves(registered)
    /\ UNCHANGED <<host, scope>>

-----------------------------------------------------------------------------
(* The watch's timer fires: watchProbe. It looks the origin up again, so   *)
(* the entry it reaps is the registered one, whoever asks; the asker, when *)
(* it is another, is told FALSE. Faults: the watch or the registration of  *)
(* the reaped entry is left.                                               *)
ReapsKeepingWatch(e) ==
    /\ entry[e].poll = "armed"
    /\ registered # NoEntry /\ entry[registered].idle
    /\ registered' = NoEntry
    /\ leaves(registered)
    /\ entry' = [entry EXCEPT ![e].poll = "asks", ![e].during = {}]
    /\ UNCHANGED <<host, scope>>

ReapsKeepingEntry(e) ==
    /\ entry[e].poll = "armed"
    /\ registered # NoEntry /\ entry[registered].idle
    /\ entry' = [entry EXCEPT
           ![e].poll = "asks", ![e].during = {},
           ![registered].poll = IF @ = "first" THEN @ ELSE "off"]
    /\ UNCHANGED <<host, registered, cut, scope>>

Reaps(e) ==
    /\ entry[e].poll = "armed"
    /\ registered # NoEntry /\ entry[registered].idle
    /\ registered' = NoEntry
    /\ leaves(registered)
    /\ entry' = [entry EXCEPT
           ![e].poll = "asks", ![e].during = {},
           ![registered].poll = IF @ = "first" THEN @ ELSE "off"]
    /\ UNCHANGED <<host, scope>>

Asks(e) ==
    /\ entry[e].poll = "armed"
    /\ registered # NoEntry => ~entry[registered].idle
    /\ entry' = [entry EXCEPT ![e].poll = "asks", ![e].during = {host}]
    /\ UNCHANGED <<host, registered, cut, scope>>

(* The watch counts the answer; a verdict it reports is the entry's value  *)
(* (onChange) and makes the origin's scope run again. Fault: a success     *)
(* counts as a change only after a verdict of "down".                      *)
changesByVerdict(now, alive, failures) ==
    IF alive THEN ~now.verdict ELSE failures >= Misses /\ now.verdict

changes(now, alive, failures) ==
    IF alive THEN ~now.verdict \/ now.fresh
    ELSE failures >= Misses /\ now.verdict

Answered(e) == \E alive \in IF entry[e].during = {} THEN {FALSE}
                             ELSE entry[e].during :
    LET now == entry[e]
        failures == IF alive THEN 0
                    ELSE IF now.failures < Misses THEN now.failures + 1 ELSE Misses
        counted == [now EXCEPT !.poll = "armed", !.during = {}, !.failures = failures]
        told == [counted EXCEPT !.verdict = alive, !.alive = alive, !.fresh = FALSE]
    IN /\ now.poll = "asks"
       /\ IF changes(now, alive, failures)
          THEN entry' = [entry EXCEPT ![e] = told] /\ scope' = "stale"
          ELSE entry' = [entry EXCEPT ![e] = counted] /\ UNCHANGED scope
       /\ UNCHANGED <<host, registered, cut>>

GrowsIdle ==
    /\ registered # NoEntry /\ ~entry[registered].idle
    /\ entry' = [entry EXCEPT ![registered].idle = TRUE]
    /\ UNCHANGED <<host, registered, cut, scope>>

HostFlips ==
    /\ host' = ~host
    /\ entry' = [e \in Entries |->
           IF host \in entry[e].during THEN [entry[e] EXCEPT !.during = BOOLEAN]
           ELSE entry[e]]
    /\ UNCHANGED <<registered, cut, scope>>

polls(e) == FirstAnswer(e) \/ Reaps(e) \/ Asks(e) \/ Answered(e)

ReachNext ==
    \/ ScopeRuns \/ CallerReads \/ GrowsIdle \/ HostFlips
    \/ \E e \in Entries : polls(e)

-----------------------------------------------------------------------------
(* A poll belongs to the entry that readers get, but for an entry stopped  *)
(* before its first answer, whose watch starts afterwards and is never     *)
(* stopped (createReachable.ts, the reaper and stop()).                    *)
PollIsRegistered ==
    \A e \in Entries : entry[e].poll # "off" => e = registered \/ e \in cut

(* Readers never get a value nobody keeps warm.                            *)
WarmIsPolled == registered # NoEntry => entry[registered].poll # "off"

(* Once the host stays up or down, every later read says so: whatever the  *)
(* first probe, the misses since and the reaper made of the entry.         *)
ReadsSettle ==
    /\ <>[]host => <>[](Warm(registered) => entry[registered].alive)
    /\ <>[]~host => <>[](Warm(registered) => ~entry[registered].alive)

(* reachable.ts: "Read inside a $derived/$effect on the client and the     *)
(* scope re-runs when the host flips up or down (the warm poll drives it)".*)
(* The reaper does not know that a scope still shows the value.            *)
ScopeFollows == <>[]~host => <>(scope = "down")

ReachFairness ==
    /\ WF_rvars(ScopeRuns)
    /\ \A e \in Entries : WF_rvars(polls(e))

=============================================================================
