----------------------------- MODULE MCProcesses ----------------------------
(***************************************************************************)
(* The two programs that keep other processes alive, the launcher of a     *)
(* desktop bundle and the dev orchestrator, which share nothing: `subject` *)
(* says which of them a behaviour is about.                                *)
(***************************************************************************)
EXTENDS Launcher, DevServer

VARIABLE subject

procVars == <<vars, dvars, subject>>

AllUrls == Remotes \cup Ports

ProcInit ==
    /\ Init /\ DevInit
    /\ subject \in {"launcher", "dev"}
    /\ IF subject = "launcher" THEN watcher = "off" ELSE record = "none"

ProcNext ==
    /\ UNCHANGED subject
    /\ \/ subject = "launcher" /\ Next /\ UNCHANGED dvars
       \/ subject = "dev" /\ DevNext /\ UNCHANGED vars

ProcSpec ==
    /\ ProcInit /\ [][ProcNext]_procVars
    /\ WF_vars(WatchTicks) /\ WF_vars(ProbeAnswers \/ ConnectionLost)
    /\ DevFairness

=============================================================================
