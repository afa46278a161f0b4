--------------------------- MODULE MCRunOwnership ---------------------------
(* Instances of RunOwnership, ServerLife and SubagentLoop for TLC.  A server
   process of ServerLife has the runs that RunOwnership describes, and the loop of
   a sub-agent is one of the producers there, so that they share no state and a
   behaviour looks at one of them: focus says at which. *)
EXTENDS RunOwnership, ServerLife, SubagentLoop

CONSTANTS k1, o1, q1, q2, q3

VARIABLE focus

\* All requests have the key of k1; q3 is a different request under that key.
OneKey == [q \in Requests |-> k1]
Fingerprints == [q \in Requests |-> IF q = q3 THEN "other" ELSE "same"]

\* A further run comes with two of the requests, its continuing of another run
\* without I/O errors.
RunsStep ==
    /\ Next
    /\ row'[o1] # "absent" => at'[q2] = "none"
    /\ (\E r \in Runs : "none" # continuation[r] \/ "none" # continuation'[r]) => faults' = 0

\* A sub-agent that is over, where another part is looked at
AgentOver ==
    /\ where = "over" /\ agentStatus = "completed"
    /\ stopSet = FALSE /\ controlled = "none" /\ toThrow = "none" /\ timer = TRUE
    /\ turns = 1 /\ toolRounds = 0 /\ unwinding = "none"
    /\ callAt = [c \in Asking |-> "none"]
    /\ events = <<>> /\ taken = <<>> /\ told = <<>> /\ emitted = <<>>

MCInit ==
    /\ focus \in {"runs", "server", "agent"}
    /\ Init /\ LifeInit
    /\ IF focus = "agent" THEN AgentInit ELSE AgentOver

MCNext ==
    /\ UNCHANGED focus
    /\ \/ focus = "runs" /\ RunsStep /\ UNCHANGED <<lifeVars, agentVars>>
       \/ focus = "server" /\ LifeNext /\ UNCHANGED <<vars, agentVars>>
       \/ focus = "agent" /\ AgentNext /\ UNCHANGED <<vars, lifeVars>>

MCSpec ==
    /\ MCInit /\ [][MCNext]_<<vars, lifeVars, agentVars, focus>>
    /\ Fairness /\ AgentFairness
=============================================================================
