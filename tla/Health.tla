------------------------------- MODULE Health ------------------------------
(***************************************************************************)
(* health() in the browser: a poll of the backend that the first reader    *)
(* starts and the last one ends, paused while the tab is hidden. It is the *)
(* continuous mode of the liveness watch (onChange): the watch reports its *)
(* transitions and goes on. backendAlive outlives every stop() of the      *)
(* watch, which is what `fresh` is there to repair. The payload's fields   *)
(* are left out.                                                           *)
(***************************************************************************)
EXTENDS LivenessWatch

VARIABLES
    alive, fresh,   \* the watch: its verdict; none reported since watch()
    backendAlive,   \* what health() returns, but for navigator.onLine
    reading,        \* a tracking scope reads health()
    visible,        \* document.visibilityState
    seed,           \* the SSR payload is parked on the slot
    up,             \* the backend answers
    during          \* values of `up` since the probe in flight began

hvars == <<watch, alive, fresh, backendAlive, reading, visible, seed, up,
           during>>

Url == CHOOSE u \in Urls : TRUE

HealthType ==
    /\ watchedUrl \in {None, Url} /\ probe \in {None, Url}
    /\ timer \in BOOLEAN /\ strays \in 0 .. MaxStrays
    /\ failures \in 0 .. FailureLimit
    /\ {alive, fresh, backendAlive, reading, visible, seed, up} \subseteq BOOLEAN
    /\ during \subseteq BOOLEAN

HealthInit ==
    /\ WatchInit
    /\ alive = TRUE /\ fresh = TRUE /\ backendAlive = TRUE
    /\ reading = FALSE
    /\ visible \in BOOLEAN /\ seed \in BOOLEAN
    /\ up = TRUE /\ during = {}

-----------------------------------------------------------------------------
began == during' = IF probe = None /\ probe' # None THEN {up} ELSE during

(* watch(url), then probeNow(): nothing when a probe, an old one included, *)
(* is in flight. Fault: what the last watch reported is taken for this     *)
(* one's.                                                                  *)
restartReported(now) ==
    /\ watchedUrl' = Url
    /\ failures' = 0 /\ alive' = TRUE
    /\ LET probes == now /\ probe = None
       IN /\ timer' = ~probes
          /\ probe' = IF probes THEN Url ELSE probe
    /\ began
    /\ UNCHANGED <<strays, fresh>>

restart(now) ==
    /\ watchedUrl' = Url
    /\ failures' = 0 /\ alive' = TRUE /\ fresh' = TRUE
    /\ LET probes == now /\ probe = None
       IN /\ timer' = ~probes
          /\ probe' = IF probes THEN Url ELSE probe
    /\ began
    /\ UNCHANGED strays

pause == stop /\ alive' = TRUE /\ UNCHANGED <<strays, probe, fresh, during>>

(* The first tracking reader. A seeded page skips the first probe, once.   *)
Subscribe ==
    /\ ~reading
    /\ reading' = TRUE
    /\ seed' = FALSE
    /\ restart(~seed)
    /\ UNCHANGED <<backendAlive, visible, up>>

(* The last reader goes.                                                   *)
Unsubscribe ==
    /\ reading
    /\ reading' = FALSE
    /\ pause
    /\ UNCHANGED <<backendAlive, visible, seed, up>>

Hide ==
    /\ visible
    /\ visible' = FALSE
    /\ IF reading THEN pause
       ELSE UNCHANGED <<watch, alive, fresh, during>>
    /\ UNCHANGED <<backendAlive, reading, seed, up>>

Show ==
    /\ ~visible
    /\ visible' = TRUE
    /\ IF reading THEN restart(TRUE)
       ELSE UNCHANGED <<watch, alive, fresh, during>>
    /\ UNCHANGED <<backendAlive, reading, seed, up>>

(* The window's online event: probeNow() ahead of the armed timer.         *)
Online ==
    /\ reading /\ watchedUrl # None /\ probe = None
    /\ timer' = FALSE
    /\ probe' = watchedUrl
    /\ began
    /\ UNCHANGED <<watchedUrl, strays, failures, alive, fresh, backendAlive,
                   reading, visible, seed, up>>

PollFires ==
    /\ TimerFires
    /\ began
    /\ UNCHANGED <<alive, fresh, backendAlive, reading, visible, seed, up>>

-----------------------------------------------------------------------------
(* The probe in flight resolves. The guard compares urls, so one from      *)
(* before a stop() and a watch() of the same url counts.                   *)
Ignored ==
    /\ Discarded
    /\ during' = {}
    /\ UNCHANGED <<alive, fresh, backendAlive, reading, visible, seed, up>>

reports(value, first) ==
    IF alive # value \/ first
    THEN alive' = value /\ fresh' = FALSE /\ backendAlive' = value
    ELSE UNCHANGED <<alive, fresh, backendAlive>>

Succeeds ==
    /\ TRUE \in during
    /\ Hit
    /\ reports(TRUE, fresh)
    /\ during' = {}
    /\ UNCHANGED <<reading, visible, seed, up>>

Fails ==
    /\ FALSE \in during
    /\ probe # None /\ probe = watchedUrl
    /\ probe' = None
    /\ failures' = IF failures < FailureLimit THEN failures + 1 ELSE failures
    /\ IF failures' >= FailureLimit
       THEN reports(FALSE, FALSE)
       ELSE UNCHANGED <<alive, fresh, backendAlive>>
    /\ arm(timer, strays)
    /\ during' = {}
    /\ UNCHANGED <<watchedUrl, reading, visible, seed, up>>

Answer == Ignored \/ Succeeds \/ Fails

(* The backend comes and goes.                                             *)
Flip ==
    /\ up' = ~up
    /\ during' = IF probe = None THEN during ELSE during \cup {~up}
    /\ UNCHANGED <<watch, alive, fresh, backendAlive, reading, visible, seed>>

HealthNext ==
    \/ Subscribe \/ Unsubscribe \/ Hide \/ Show \/ Online
    \/ PollFires \/ Answer \/ Flip

-----------------------------------------------------------------------------
(* Whatever the tab was through (hidden, shown, without a reader), once    *)
(* the running watch has reported, what health() returns is its verdict    *)
(* (createLivenessWatch.ts: "so a consumer that kept state across a        *)
(* stop()/watch() cycle resyncs").                                         *)
VerdictAgrees == watchedUrl # None /\ ~fresh => backendAlive = alive

(* A reader in a visible tab ends up with the truth, once the backend      *)
(* stays up or stays down, whatever probe was in flight when the tab came  *)
(* back (health.ts, the visible transition).                               *)
VerdictSettles ==
    /\ <>[](reading /\ visible /\ up) => <>[]backendAlive
    /\ <>[](reading /\ visible /\ ~up) => <>[]~backendAlive

(* Timers fire, and a probe has a timeout.                                 *)
HealthFairness ==
    /\ WF_hvars(PollFires)
    /\ WF_hvars(Answer)

=============================================================================
