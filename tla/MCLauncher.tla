----------------------------- MODULE MCLauncher -----------------------------
(* Small instances of Launcher for TLC.                                    *)
EXTENDS Launcher

AllUrls == Remotes \cup Ports

=============================================================================
