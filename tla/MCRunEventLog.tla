--------------------------- MODULE MCRunEventLog ---------------------------
(* Instances of RunEventLog for TLC, by focus:
   "faults"    one run, any mixture of journal and SQLite faults, a crash and the
               start-up of main.py, repeated starts;
   "streams"   two subscriptions of one run;
   "families"  runs that create runs, a crash anywhere, and a RunManager built
               over a repository with unfinished runs, as its tests do. *)
EXTENDS RunEventLog

CONSTANTS r1, r2, c1, c2

VARIABLE focus

\* Undisturbed runs, with the recovery of journals
Tests == INSTANCE RunEventLog WITH
    InterruptsFirst <- FALSE, Replays <- FALSE, MaxEvents <- 3, MaxFaults <- 0

OneRun == rows'[r2].status = "absent"
NoClient == \A c \in Clients : subs'[c].state = "idle"

MCInit == focus \in {"faults", "streams", "families"} /\ Init

MCNext ==
    /\ UNCHANGED focus
    /\ \/ focus = "faults" /\ Next /\ OneRun /\ NoClient
       \/ focus = "streams" /\ Tests!Next /\ OneRun /\ crashes' = 0
       \/ focus = "families" /\ Tests!Next /\ NoClient

MCSpec == MCInit /\ [][MCNext]_<<vars, focus>> /\ Fairness
=============================================================================
