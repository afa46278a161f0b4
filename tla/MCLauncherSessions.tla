------------------------- MODULE MCLauncherSessions -------------------------
(* Instances of LauncherSessions for TLC. *)
EXTENDS LauncherSessions

=============================================================================
