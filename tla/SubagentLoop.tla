---------------------------- MODULE SubagentLoop ----------------------------
(***************************************************************************)
(* The producer of one sub-agent run (backend/core/agents/                 *)
(* subagent_executor.py): answers of the model and rounds of tools in turn,*)
(* the approvals that a round asks for and what the log of the run is told *)
(* of them, a stop, the limit of time and the end of the run.              *)
(*                                                                         *)
(* A step is what the producer, or the task that executes the tools, does  *)
(* between two suspensions; append_event and finish_run do not suspend.  A *)
(* cancellation is delivered at the next suspension.  An answer ends as    *)
(* ModelStream promises, the calls of a round are those of ToolRound.      *)
(***************************************************************************)
EXTENDS Naturals, Sequences

CONSTANTS
    Asking,         \* the calls of a round that may ask for approval
    MaxToolRounds,  \* max_tool_rounds
    MaxTurns        \* max_turns

ASSUME AgentAssumption == MaxToolRounds \in Nat \ {0} /\ MaxTurns \in Nat \ {0}

VARIABLES
    where,          \* where the producer is
    agentStatus,    \* the status of the run
    stopSet,        \* its stop_event
    controlled,     \* its StreamController: "none", "on" or "stopped"
    toThrow,        \* the cancellation still to be delivered: "none", "stop" or "time"
    timer,          \* of wait_for: the time is not yet up
    turns, toolRounds,
    callAt,         \* the calls of the round
    events,         \* approval_events
    taken,          \* what event_get_task has got
    told,           \* history: the events of the round that the log has
    emitted,        \* history: those the tools have emitted
    unwinding       \* why the round of tools is left

loop      == <<where, agentStatus, turns, toolRounds, unwinding>>
orders    == <<stopSet, controlled, toThrow, timer>>
round     == <<callAt, events, taken, told, emitted>>
agentVars == <<loop, orders, round>>

Ended == {"completed", "failed", "cancelled"}

AgentInit ==
    /\ where = "begun" /\ agentStatus = "running"
    /\ stopSet = FALSE /\ controlled = "none" /\ toThrow = "none" /\ timer = TRUE
    /\ turns = 0 /\ toolRounds = 0 /\ unwinding = "none"
    /\ callAt = [c \in Asking |-> "none"]
    /\ events = <<>> /\ taken = <<>> /\ told = <<>> /\ emitted = <<>>

-----------------------------------------------------------------------------
(* The producer *)

\* finish_run with the status _produce has come to; the controller goes.
Finished(status) ==
    /\ where' = "over" /\ agentStatus' = status
    /\ controlled' = "none" /\ toThrow' = "none"
    /\ UNCHANGED <<stopSet, timer, turns, toolRounds, unwinding, round>>

\* The status of a run whose producer a cancellation has reached
ThrownStatus == IF toThrow = "time" THEN "failed" ELSE "cancelled"

\* The top of the loop
NextTurn ==
    /\ turns < MaxTurns
    /\ turns' = turns + 1
    /\ where' = "model" /\ unwinding' = "none"
    /\ UNCHANGED <<agentStatus, toolRounds, round>>

BeginAgent ==
    /\ where = "begun" /\ toThrow = "none"
    /\ controlled' = "on"
    /\ NextTurn
    /\ UNCHANGED <<stopSet, toThrow, timer>>

\* The producer is cancelled: before its first step, when the registry finishes
\* the run, or in an answer.
Thrown ==
    /\ where \in {"begun", "model"} /\ toThrow # "none"
    /\ Finished(ThrownStatus)

\* A chunk of the answer comes, and the stop is looked at.
HearsStop ==
    /\ where = "model" /\ toThrow = "none"
    /\ stopSet /\ controlled = "on"
    /\ controlled' = "stopped"
    /\ UNCHANGED <<loop, stopSet, toThrow, timer, round>>

\* STOPPED, ERROR (also an output that the schema refuses), or an answer without calls
AnswerOver ==
    /\ where = "model" /\ toThrow = "none"
    /\ \/ controlled = "stopped" /\ Finished("cancelled")
       \/ Finished("failed")
       \/ Finished("completed")

\* The answer makes calls.
CallsMade ==
    /\ where = "model" /\ toThrow = "none"
    /\ toolRounds < MaxToolRounds
    /\ toolRounds' = toolRounds + 1
    /\ where' = "tools"
    /\ callAt' = [c \in Asking |-> "none"]
    /\ events' = <<>> /\ taken' = <<>> /\ told' = <<>> /\ emitted' = <<>>
    /\ UNCHANGED <<agentStatus, turns, unwinding, orders>>

\* tool_round >= max_tool_rounds
TooManyRounds ==
    /\ where = "model" /\ toThrow = "none" /\ toolRounds = MaxToolRounds
    /\ Finished("failed")

-----------------------------------------------------------------------------
(* The tools *)

\* emit_tool_event: the status of the run, then the queue
Emits(e, status) ==
    /\ agentStatus' = status
    /\ events' = Append(events, e)
    /\ emitted' = Append(emitted, e)

CallAsks(c) ==
    /\ where = "tools" /\ callAt[c] = "none"
    /\ callAt' = [callAt EXCEPT ![c] = "waiting"]
    /\ Emits(<<"request", c>>, "waiting_approval")
    /\ UNCHANGED <<where, turns, toolRounds, unwinding, orders, taken, told>>

\* Somebody decides.
CallDecided(c) ==
    /\ where = "tools" /\ callAt[c] = "waiting"
    /\ callAt' = [callAt EXCEPT ![c] = "done"]
    /\ Emits(<<"result", c>>, IF stopSet THEN agentStatus ELSE "running")
    /\ UNCHANGED <<where, turns, toolRounds, unwinding, orders, taken, told>>

\* A call that needs no approval
CallRuns(c) ==
    /\ where = "tools" /\ callAt[c] = "none"
    /\ callAt' = [callAt EXCEPT ![c] = "done"]
    /\ UNCHANGED <<loop, orders, events, taken, told, emitted>>

\* event_get_task
Takes ==
    /\ where = "tools" /\ taken = <<>> /\ events # <<>>
    /\ taken' = <<Head(events)>>
    /\ events' = Tail(events)
    /\ UNCHANGED <<loop, orders, callAt, told, emitted>>

ToolsOver == \A c \in Asking : callAt[c] = "done"

\* What the log is told when asyncio.wait returns; all there is once the tools
\* are through.
Logged ==
    /\ taken' = <<>>
    /\ IF ToolsOver
       THEN told' = told \o taken \o events /\ events' = <<>>
       ELSE told' = told \o taken /\ UNCHANGED events

\* mutated form: a stop is noticed with the next event or the end of the tools
StopUnseen == FALSE

\* stop_task is through
StopSeenHere == stopSet

\* asyncio.wait returns
Wakes ==
    /\ where = "tools" /\ toThrow = "none"
    /\ IF StopSeenHere
       THEN where' = "unwinding" /\ unwinding' = "cancelled" /\ UNCHANGED <<events, taken, told>>
       ELSE /\ taken # <<>> \/ ToolsOver
            /\ Logged
            /\ IF ToolsOver
               THEN where' = "unwinding" /\ unwinding' = "next"
               ELSE UNCHANGED <<where, unwinding>>
    /\ UNCHANGED <<agentStatus, turns, toolRounds, orders, callAt, emitted>>

\* The execution of the tools raises; what is in the queue is logged before.
ToolsRaise ==
    /\ where = "tools" /\ toThrow = "none" /\ ~StopSeenHere
    /\ where' = "unwinding" /\ unwinding' = "failed"
    /\ told' = told \o taken \o events /\ taken' = <<>> /\ events' = <<>>
    /\ UNCHANGED <<agentStatus, turns, toolRounds, orders, callAt, emitted>>

ThrownInTools ==
    /\ where = "tools" /\ toThrow # "none"
    /\ where' = "unwinding" /\ unwinding' = ThrownStatus /\ toThrow' = "none"
    /\ UNCHANGED <<agentStatus, turns, toolRounds, stopSet, controlled, timer, round>>

\* The finally block awaits the tasks it cancels and suppresses CancelledError,
\* also one that was meant for the producer.
Swallowed ==
    /\ where = "unwinding" /\ toThrow # "none"
    /\ toThrow' = "none"
    /\ UNCHANGED <<loop, stopSet, controlled, timer, round>>

Unwound ==
    /\ where = "unwinding" /\ toThrow = "none"
    /\ IF unwinding = "next"
       THEN \/ NextTurn /\ UNCHANGED orders
            \/ turns = MaxTurns /\ Finished("failed")
       ELSE Finished(unwinding)

-----------------------------------------------------------------------------
(* Stops and the time *)

\* stop_run_tree has set the stop of a run before it comes to its producer.
RequestAgentStop ==
    /\ where # "over" /\ ~stopSet
    /\ stopSet' = TRUE
    /\ UNCHANGED <<loop, controlled, toThrow, timer, round>>

\* SubagentExecutor.stop
StopAgent ==
    /\ where # "over" /\ ~(stopSet /\ controlled = "stopped")
    /\ stopSet' = TRUE
    /\ controlled' = IF controlled = "on" THEN "stopped" ELSE controlled
    /\ toThrow' = "stop"
    /\ UNCHANGED <<loop, timer, round>>

\* timeout_seconds of the agent
TimeUp ==
    /\ where \notin {"begun", "over"} /\ timer
    /\ timer' = FALSE
    /\ toThrow' = IF toThrow = "none" THEN "time" ELSE toThrow
    /\ UNCHANGED <<loop, stopSet, controlled, round>>

-----------------------------------------------------------------------------
Produce ==
    \/ BeginAgent \/ Thrown \/ HearsStop \/ AnswerOver \/ CallsMade \/ TooManyRounds
    \/ Wakes \/ ThrownInTools \/ Swallowed \/ Unwound

AgentNext ==
    \/ Produce \/ Takes \/ ToolsRaise
    \/ \E c \in Asking : CallAsks(c) \/ CallDecided(c) \/ CallRuns(c)
    \/ RequestAgentStop \/ StopAgent \/ TimeUp

\* The event loop goes on with a task that can go on, and an answer ends; that
\* somebody decides, or that a tool ends or raises, is not assumed.
AgentFairness == WF_agentVars(Produce) /\ WF_agentVars(Takes)

AgentSpec == AgentInit /\ [][AgentNext]_agentVars /\ AgentFairness

-----------------------------------------------------------------------------

\* The log of a sub-agent has every approval that its tools asked for or got, in
\* order, when a round has come to its end, however the getter of the queue, the
\* tools and the loop that waits for both take turns.
ApprovalsLogged == where = "unwinding" /\ unwinding = "next" => told = emitted

\* A sub-agent that is asked to stop ends, also while nobody decides what it asks
\* for, and when its cancellation comes while a round is left and is swallowed.
StoppedAgentEnds == stopSet ~> where = "over"
=============================================================================
