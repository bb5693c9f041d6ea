---------------------------- MODULE LivenessWatch ---------------------------
(***************************************************************************)
(* createLivenessWatch: a timer that re-arms itself runs probe(url), and   *)
(* FailureLimit misses in a row declare the url lost. Terminal mode (the   *)
(* consumer gives onLost), which is the launcher's; the consumer extends   *)
(* this module and calls Watch and Stop from its own actions.              *)
(***************************************************************************)
EXTENDS Naturals

CONSTANTS
    Urls,          \* the urls a consumer may watch
    None,          \* no url
    FailureLimit,  \* misses in a row that declare a url lost
    MaxStrays      \* bound: armed timers that no handle names

ASSUME LivenessWatchAssumption ==
    /\ None \notin Urls
    /\ FailureLimit \in Nat \ {0} /\ MaxStrays \in Nat \ {0}

VARIABLES
    watchedUrl,  \* the target
    timer,       \* the timer that `timer` names is armed
    strays,      \* armed timers whose handle was overwritten
    probe,       \* the url of the probe in flight; inFlight is probe # None
    failures     \* misses in a row of the target

watch == <<watchedUrl, timer, strays, probe, failures>>

WatchType ==
    /\ watchedUrl \in Urls \cup {None}
    /\ timer \in BOOLEAN
    /\ strays \in 0 .. MaxStrays
    /\ probe \in Urls \cup {None}
    /\ failures \in 0 .. FailureLimit - 1

WatchInit ==
    /\ watchedUrl = None
    /\ timer = FALSE
    /\ strays = 0
    /\ probe = None
    /\ failures = 0

-----------------------------------------------------------------------------
(* timer = setTimeout(runProbe): a timer still armed under the old handle  *)
(* is left to itself.                                                      *)
arm(held, loose) ==
    /\ timer' = TRUE
    /\ strays' = IF held /\ loose < MaxStrays THEN loose + 1 ELSE loose

(* runProbe, from a timer that has fired; held: the handle's timer is      *)
(* armed, loose: how many others are. While a probe is in flight, it only  *)
(* arms again. Fault: it just returns.                                     *)
runProbeBare(held, loose) ==
    /\ probe' = IF watchedUrl # None /\ probe = None THEN watchedUrl ELSE probe
    /\ timer' = held
    /\ strays' = loose

runProbe(held, loose) ==
    IF watchedUrl # None /\ probe # None
    THEN arm(held, loose) /\ UNCHANGED probe
    ELSE /\ probe' = watchedUrl
         /\ timer' = held
         /\ strays' = loose

TimerFires ==
    /\ \/ timer /\ runProbe(FALSE, strays)
       \/ strays > 0 /\ runProbe(timer, strays - 1)
    /\ UNCHANGED <<watchedUrl, failures>>

stop ==
    /\ timer' = FALSE
    /\ watchedUrl' = None
    /\ failures' = 0

Stop == stop /\ UNCHANGED <<strays, probe>>

(* watch(url): the first probe is one interval away.                       *)
Watch(u) ==
    /\ timer' = TRUE
    /\ watchedUrl' = u
    /\ failures' = 0
    /\ UNCHANGED <<strays, probe>>

(* The answers of the probe in flight. One for a url that is no longer the *)
(* target is discarded. Fault: before inFlight is cleared.                 *)
DiscardedInFlight ==
    /\ probe # None /\ probe # watchedUrl
    /\ UNCHANGED watch

Discarded ==
    /\ probe # None /\ probe # watchedUrl
    /\ probe' = None
    /\ UNCHANGED <<watchedUrl, timer, strays, failures>>

Hit ==
    /\ probe # None /\ probe = watchedUrl
    /\ probe' = None
    /\ failures' = 0
    /\ arm(timer, strays)
    /\ UNCHANGED watchedUrl

(* Fault: off by one.                                                      *)
MissLate ==
    /\ probe # None /\ probe = watchedUrl /\ failures < FailureLimit
    /\ probe' = None
    /\ failures' = failures + 1
    /\ arm(timer, strays)
    /\ UNCHANGED watchedUrl

Miss ==
    /\ probe # None /\ probe = watchedUrl /\ failures + 1 < FailureLimit
    /\ probe' = None
    /\ failures' = failures + 1
    /\ arm(timer, strays)
    /\ UNCHANGED watchedUrl

(* The last miss stops the watch; the consumer's onLost is its conjunct.   *)
Lost ==
    /\ probe # None /\ probe = watchedUrl /\ failures + 1 >= FailureLimit
    /\ probe' = None
    /\ stop
    /\ UNCHANGED strays

-----------------------------------------------------------------------------
(* A watched url is never silently unwatched: some timer is armed, or the  *)
(* probe in flight is its own and will arm one (createLivenessWatch.ts,    *)
(* the inFlight branch of runProbe, which exists for this).                *)
NeverUnwatched ==
    watchedUrl # None => timer \/ strays > 0 \/ probe = watchedUrl

=============================================================================
