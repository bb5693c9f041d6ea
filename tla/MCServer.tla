------------------------------ MODULE MCServer ------------------------------
(***************************************************************************)
(* The server's request pipeline and the two polls that watch a server,    *)
(* health() and reachable(). They share nothing: `subject` says which of   *)
(* them a behaviour is about, and whether stop(), which the app itself     *)
(* never calls, may be called on the registry of reachable().              *)
(***************************************************************************)
EXTENDS Health, Reachable, Requests

VARIABLE subject

serverVars == <<hvars, rvars, qvars, subject>>

Init ==
    /\ HealthInit /\ ReachInit /\ RequestsInit
    /\ subject \in {"health", "reachable", "stoppable", "requests"}
    /\ IF subject = "health" THEN host ELSE visible /\ ~seed
    /\ subject = "requests" => host

Next ==
    /\ UNCHANGED subject
    /\ \/ subject = "health" /\ HealthNext /\ UNCHANGED <<rvars, qvars>>
       \/ subject \in {"reachable", "stoppable"} /\ ReachNext /\ UNCHANGED <<hvars, qvars>>
       \/ subject = "stoppable" /\ StopAll /\ UNCHANGED <<hvars, qvars>>
       \/ subject = "requests" /\ RequestsNext /\ UNCHANGED <<hvars, rvars>>

(* The actions of what a behaviour is not about stay disabled, but for     *)
(* ScopeRuns.                                                              *)
Fairness ==
    /\ HealthFairness /\ RequestsFairness
    /\ WF_rvars(subject \in {"reachable", "stoppable"} /\ ScopeRuns)
    /\ \A e \in Entries : WF_rvars(polls(e))

Spec == Init /\ [][Next]_serverVars /\ Fairness

(* ScopeFollows, of the registry as the app uses it.                       *)
ReachableScopeFollows == subject = "reachable" => ScopeFollows

(* Both polls keep what they say and what they run in step: health()'s     *)
(* verdict, and the one entry of the registry that is polled.              *)
PollsSound == VerdictAgrees /\ PollIsRegistered /\ WarmIsPolled

(* health() and reachable() both end up telling the truth.                 *)
PollsSettle == VerdictSettles /\ ReadsSettle

=============================================================================
