------------------------------ MODULE DevServer ------------------------------
(***************************************************************************)
(* The dev orchestrator (devEntry): it rebuilds on a save or on demand,    *)
(* boots a replacement beside the server that runs, retires the old one    *)
(* when the new one is ready, respawns one that crashes, and ends with its *)
(* children. All of them bind one port (reusePort).                        *)
(***************************************************************************)
EXTENDS Naturals

CONSTANTS
    Workers,    \* bound: the processes alive at once
    NoWorker,
    MaxEdits,   \* bound: the saves
    MaxCrashes, \* bound: the exits nobody asked for
    ExitLimit   \* MAX_EXITS_WITHOUT_READY

ASSUME DevAssumption ==
    /\ NoWorker \notin Workers /\ Workers # {}
    /\ MaxEdits \in Nat /\ MaxCrashes \in Nat /\ ExitLimit \in Nat \ {0}

VARIABLES
    edits,      \* the saves so far: the version of the source
    watcher,    \* the debounce of the file watcher: off, idle or armed
    rebuilding, \* the serialized rebuild
    active,     \* `server`, the worker meant to be serving
    exits,      \* exitsWithoutReady
    worker,     \* the processes
    orchestrator, \* running, stopping or gone, and the worker its end waits for
    seen        \* history: what was asked, what was tried, and the crashes

dvars == <<edits, watcher, rebuilding, active, exits, worker, orchestrator, seen>>

-----------------------------------------------------------------------------
(* "told": it was sent SIGTERM, and SIGKILL comes after it.                *)
Worker == {"none", "booting", "ready", "told"}

(* next and previous: the replacement that boots, the one that is retired. *)
(* `from` is the version the build set out with.                           *)
Rebuilding == [pc : {"idle", "building", "booting", "retiring"}, from : 0 .. MaxEdits,
               queued : BOOLEAN, next : Workers \cup {NoWorker},
               previous : Workers \cup {NoWorker}]

Alive(w) == w # NoWorker /\ worker[w] # "none"

(* The first build is done, and the server it starts is on its way.        *)
DevInit ==
    /\ edits = 0
    /\ watcher \in {"off", "idle"}
    /\ rebuilding = [pc |-> "idle", from |-> 0, queued |-> FALSE,
                     next |-> NoWorker, previous |-> NoWorker]
    /\ active = CHOOSE w \in Workers : TRUE
    /\ worker = [w \in Workers |-> IF w = active THEN "booting" ELSE "none"]
    /\ exits = 0
    /\ orchestrator = [pc |-> "running", waits |-> NoWorker]
    /\ seen = [asked |-> 0, tried |-> 0, crashes |-> 0, answered |-> FALSE]

-----------------------------------------------------------------------------
(* A process that is started takes a name that is free: which one does not *)
(* matter, but nobody may still mean a process that is gone by it.         *)
Free(ws, meant) ==
    {w \in Workers \ meant : ws[w] = "none"}
        \ {rebuilding.next, rebuilding.previous, orchestrator.waits}
fresh(ws, meant) == CHOOSE w \in Free(ws, meant) : TRUE

(* Fault: a rebuild asked for while one runs is taken to be that one.      *)
rebuildAlone ==
    rebuilding' = IF rebuilding.pc = "idle"
                  THEN [rebuilding EXCEPT !.pc = "building", !.from = edits]
                  ELSE rebuilding

(* rebuild(): one at a time, and one more after it.                        *)
rebuild ==
    rebuilding' = IF rebuilding.pc = "idle"
                  THEN [rebuilding EXCEPT !.pc = "building", !.from = edits]
                  ELSE [rebuilding EXCEPT !.queued = TRUE]

(* rebuild()'s finally: what was queued starts over.                       *)
rebuilt ==
    rebuilding' = IF rebuilding.queued
                  THEN [pc |-> "building", from |-> edits, queued |-> FALSE,
                        next |-> NoWorker, previous |-> NoWorker]
                  ELSE [rebuilding EXCEPT !.pc = "idle", !.next = NoWorker, !.previous = NoWorker]

tried == seen' = [seen EXCEPT !.tried = rebuilding.from]

Running == orchestrator.pc # "gone"

-----------------------------------------------------------------------------
Save ==
    /\ edits < MaxEdits
    /\ edits' = edits + 1
    /\ watcher' = IF watcher = "off" \/ orchestrator.pc # "running" THEN watcher ELSE "armed"
    /\ UNCHANGED <<rebuilding, active, exits, worker, orchestrator, seen>>

(* REBUILD_DEBOUNCE_MS after the last save.                                *)
Debounced ==
    /\ watcher = "armed" /\ Running
    /\ watcher' = "idle"
    /\ rebuild
    /\ seen' = [seen EXCEPT !.asked = edits]
    /\ UNCHANGED <<edits, active, exits, worker, orchestrator>>

(* POST /__belte/reload, which any worker that listens may be given.       *)
Reload ==
    /\ Running /\ seen.asked < edits
    /\ \E w \in Workers : worker[w] = "ready"
    /\ rebuild
    /\ seen' = [seen EXCEPT !.asked = edits]
    /\ UNCHANGED <<edits, watcher, active, exits, worker, orchestrator>>

BuildFails ==
    /\ Running /\ rebuilding.pc = "building"
    /\ rebuilt
    /\ tried
    /\ UNCHANGED <<edits, watcher, active, exits, worker, orchestrator>>

(* Fault: the server makes way before its replacement is ready.            *)
ReplaceAtOnce ==
    /\ Running /\ rebuilding.pc = "building" /\ Free(worker, {active}) # {}
    /\ LET next == fresh(worker, {active})
       IN  /\ rebuilding' = [rebuilding EXCEPT !.pc = "booting", !.next = next, !.previous = active]
           /\ worker' = [w \in Workers |-> IF w = next THEN "booting"
                                           ELSE IF w = active /\ Alive(w) THEN "told" ELSE worker[w]]
    /\ UNCHANGED <<edits, watcher, active, exits, orchestrator, seen>>

(* The build is good: the replacement boots beside the one that serves.    *)
Replace ==
    /\ Running /\ rebuilding.pc = "building" /\ Free(worker, {active}) # {}
    /\ LET next == fresh(worker, {active})
       IN  /\ rebuilding' = [rebuilding EXCEPT !.pc = "booting", !.next = next, !.previous = active]
           /\ worker' = [worker EXCEPT ![next] = "booting"]
    /\ UNCHANGED <<edits, watcher, active, exits, orchestrator, seen>>

told(ws, w) == [v \in Workers |-> IF v = w /\ ws[v] # "none" THEN "told" ELSE ws[v]]

(* A worker reports ready. The replacement takes over, and whoever served  *)
(* when the swap began is stopped.                                         *)
ReportsReady(w) ==
    /\ worker[w] = "booting"
    /\ LET ready == [worker EXCEPT ![w] = "ready"]
           swaps == Running /\ rebuilding.pc = "booting" /\ rebuilding.next = w
       IN  /\ worker' = IF swaps THEN told(ready, rebuilding.previous) ELSE ready
           /\ active' = IF swaps THEN w ELSE active
           /\ exits' = IF Running THEN 0 ELSE exits
           /\ rebuilding' = IF swaps THEN [rebuilding EXCEPT !.pc = "retiring"] ELSE rebuilding
           /\ seen' = [seen EXCEPT !.answered = TRUE, !.tried = IF swaps THEN rebuilding.from ELSE @]
    /\ UNCHANGED <<edits, watcher, orchestrator>>

Retired ==
    /\ Running /\ rebuilding.pc = "retiring"
    /\ ~Alive(rebuilding.previous)
    /\ rebuilt
    /\ UNCHANGED <<edits, watcher, active, exits, worker, orchestrator, seen>>

(* READY_TIMEOUT_MS: the replacement is stopped, and then given up.        *)
TimesOut ==
    /\ Running /\ rebuilding.pc = "booting" /\ worker[rebuilding.next] = "booting"
    /\ worker' = told(worker, rebuilding.next)
    /\ UNCHANGED <<edits, watcher, rebuilding, active, exits, orchestrator, seen>>

(* A worker that was told is gone.                                         *)
Exits(w) ==
    /\ worker[w] = "told"
    /\ worker' = [worker EXCEPT ![w] = "none"]
    /\ UNCHANGED <<edits, watcher, rebuilding, active, exits, orchestrator, seen>>

(* The replacement is gone before it was ready.                            *)
BootFailed ==
    /\ Running /\ rebuilding.pc = "booting" /\ ~Alive(rebuilding.next)
    /\ rebuilt
    /\ tried
    /\ UNCHANGED <<edits, watcher, active, exits, worker, orchestrator>>

(* A worker exits and nobody asked it to: the one that serves is started   *)
(* again, until it has done so too often with no ready in between.         *)
Crashes(w) ==
    /\ seen.crashes < MaxCrashes
    /\ worker[w] \in {"booting", "ready"}
    /\ LET dead == [worker EXCEPT ![w] = "none"]
           handled == w = active /\ orchestrator.pc = "running"
           again == handled /\ exits + 1 < ExitLimit
           next == fresh(dead, {})
       IN  /\ again => Free(dead, {}) # {}
           /\ worker' = IF again THEN [dead EXCEPT ![next] = "booting"] ELSE dead
           /\ active' = CASE again -> next
                          [] handled /\ ~again -> NoWorker
                          [] OTHER -> active
           /\ exits' = IF handled THEN exits + 1 ELSE exits
    /\ seen' = [seen EXCEPT !.crashes = @ + 1]
    /\ UNCHANGED <<edits, watcher, rebuilding, orchestrator>>

-----------------------------------------------------------------------------
(* SIGTERM or SIGHUP of the orchestrator.                                  *)
Shutdown ==
    /\ orchestrator.pc = "running"
    /\ orchestrator' = [pc |-> "stopping", waits |-> active]
    /\ watcher' = IF watcher = "idle" THEN "off" ELSE watcher
    /\ worker' = told(worker, active)
    /\ UNCHANGED <<edits, rebuilding, active, exits, seen>>

(* The worker it waited for is gone; its exit handler signals the one that *)
(* took over meanwhile.                                                    *)
Quits ==
    /\ orchestrator.pc = "stopping" /\ ~Alive(orchestrator.waits)
    /\ orchestrator' = [pc |-> "gone", waits |-> NoWorker]
    /\ worker' = told(worker, active)
    /\ UNCHANGED <<edits, watcher, rebuilding, active, exits, seen>>

-----------------------------------------------------------------------------
DevNext ==
    \/ Save \/ Debounced \/ Reload
    \/ BuildFails \/ Replace \/ Retired \/ TimesOut \/ BootFailed
    \/ \E w \in Workers : ReportsReady(w) \/ Exits(w) \/ Crashes(w)
    \/ Shutdown \/ Quits

(* Timers fire, a build ends one way or the other, and SIGKILL works. A    *)
(* worker may boot for ever.                                               *)
DevFairness ==
    /\ WF_dvars(Debounced) /\ WF_dvars(BuildFails \/ Replace)
    /\ WF_dvars(Retired) /\ WF_dvars(TimesOut) /\ WF_dvars(BootFailed)
    /\ \A w \in Workers : WF_dvars(Exits(w))

DevSpec == DevInit /\ [][DevNext]_dvars /\ DevFairness

-----------------------------------------------------------------------------
DevType ==
    /\ edits \in 0 .. MaxEdits
    /\ watcher \in {"off", "idle", "armed"}
    /\ rebuilding \in Rebuilding
    /\ active \in Workers \cup {NoWorker}
    /\ exits \in 0 .. ExitLimit
    /\ worker \in [Workers -> Worker]
    /\ orchestrator \in [pc : {"running", "stopping", "gone"}, waits : Workers \cup {NoWorker}]
    /\ seen \in [asked : 0 .. MaxEdits, tried : 0 .. MaxEdits, crashes : 0 .. MaxCrashes,
                answered : BOOLEAN]

(* The port answers from the first ready on, across every swap, whether    *)
(* the replacement comes up, dies or hangs: only a crash can silence it.   *)
PortAnswers ==
    seen.answered /\ seen.crashes = 0 /\ orchestrator.pc = "running" =>
        \E w \in Workers : worker[w] = "ready"

(* No change that was asked for is lost, however saves, builds, swaps and  *)
(* crashes overlap: a build that began after it is tried in the end.       *)
EveryChangeTried ==
    \A n \in 1 .. MaxEdits :
        seen.asked >= n ~> (seen.tried >= n \/ orchestrator.pc # "running")

(* The worker does not outlive the orchestrator.                           *)
NeitherOutlives ==
    orchestrator.pc = "gone" => \A w \in Workers : worker[w] \in {"none", "told"}
=============================================================================
