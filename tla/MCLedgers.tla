------------------------------ MODULE MCLedgers ------------------------------
(* Instances of the two ledgers of a conversation.  They share no state, so a
   behaviour looks at one of them: focus says at which, "tasks" with two
   tasks and one run, "runs" with one task, two runs and no crash, or "plans". *)
EXTENDS TaskLedger, PlanLedger

CONSTANTS r1

VARIABLES focus

MCInit == focus \in {"tasks", "runs", "plans"} /\ Init /\ PlanInit

MCNext ==
    /\ UNCHANGED focus
    /\ \/ focus = "tasks" /\ Next /\ run'[r1] = "none" /\ UNCHANGED planVars
       \/ focus = "runs" /\ Next /\ created' <= 1 /\ crashes' = 0 /\ UNCHANGED planVars
       \/ focus = "plans" /\ PlanNext /\ UNCHANGED vars

MCSpec == MCInit /\ [][MCNext]_<<vars, planVars, focus>> /\ Fairness
=============================================================================
