-------------------------------- MODULE ChatTurn --------------------------------
(***************************************************************************)
(* A chat turn: the rounds of model answers and tool calls that            *)
(* send_message_stream makes, the run that consumes them, the continuation *)
(* of a run whose connection was lost, and the user's stop                 *)
(* (backend/core/chat/chat_manager.py, api/routes/messages.py and          *)
(* run_control.py).                                                        *)
(*                                                                         *)
(* The model is what ModelStream promises of it.  Nothing but its network, *)
(* the tools and the start of a task suspends, so that saving a turn,      *)
(* finishing its run and all that surrounds a round is one step.           *)
(*                                                                         *)
(* Not covered: side questions, what a turn puts into its prompt, several  *)
(* tool calls in a round (ToolRound has them), crashes and failing writes  *)
(* (RunEventLog has them).                                                 *)
(***************************************************************************)
EXTENDS Naturals, Sequences

CONSTANTS
    MaxToolRounds,  \* max_tool_rounds, 500
    MaxNudges,      \* max_plan_guard_nudges, 3
    MaxText         \* bound: the pieces of an answer

ASSUME ChatTurnAssumption == MaxToolRounds \in Nat /\ MaxNudges \in Nat /\ MaxText \in Nat

ChatRuns == {"first", "again"}
ToolRounds == 1..MaxToolRounds

VARIABLES
    run,       \* the status of each run
    toStop,    \* the runs a user asked to stop
    bound,     \* the runs that have their target node
    turn,      \* the turn in progress: whose it is and where
    halted,    \* its controller was stopped
    text,      \* the answer of its current round
    outcome,   \* and how that ended
    requests,  \* the answers it asked the model for
    toolRound,
    nudges,
    approval,  \* what it has seen of the approval of the call of each tool round
    results,   \* the tool rounds that came to their end
    row,       \* the status of the call of each tool round, as it is stored
    saved      \* the generation status of the saved message of each run

answer == <<text, outcome, requests>>
tools == <<toolRound, approval, results, row>>
turnVars == <<run, toStop, bound, turn, halted, answer, nudges, tools, saved>>

Model == INSTANCE ModelStream WITH stopped <- halted

Finished == {"completed", "failed", "cancelled"}
NoTools == [k \in ToolRounds |-> "none"]

At(r, place) == turn = [of |-> r, at |-> place]

-----------------------------------------------------------------------------
(* The end of a turn *)

\* persist_tool_metadata: what is known of the approval of a call comes before
\* its result.
Settled(k, message) ==
    IF k > toolRound' THEN "none"
    ELSE IF approval'[k] # "none" THEN approval'[k]
    ELSE IF k \in results' THEN "complete"
    ELSE IF message = "stopped" THEN "stopped" ELSE "error"

\* Only the first run, after an error that another attempt may mend
Continued(r, retryable) == r = "first" /\ r \in bound' /\ retryable

\* _finalize_assistant_turn, the terminal chunk and finish_run, and the run that
\* continues one that failed.
Finish(r, message, status, retryable) ==
    /\ saved' = [saved EXCEPT ![r] = message]
    /\ row' = [k \in ToolRounds |-> Settled(k, message)]
    /\ run' = [q \in ChatRuns |-> IF q = r THEN status
                             ELSE IF status = "failed" /\ Continued(r, retryable) THEN "queued" ELSE run[q]]
    /\ turn' = [of |-> r, at |-> "over"]

\* mutated form: the status is what the turn began with
StatusAtStart(status) == IF halted THEN "stopped" ELSE "completed"

\* The check after the loop
StatusAtEnd(status) == IF halted THEN "stopped" ELSE status

\* mutated form: the loop does not look for a stop
HaltedBefore(stopped) == FALSE

HaltedAtTop(stopped) == stopped

\* The top of the loop: the model is asked, unless the turn was stopped.
NextRound(r, stopped) ==
    IF HaltedAtTop(stopped)
    THEN Finish(r, "stopped", "cancelled", FALSE) /\ UNCHANGED answer
    ELSE /\ turn' = [of |-> r, at |-> "asking"]
         /\ run' = [run EXCEPT ![r] = "running"]
         /\ text' = <<>> /\ outcome' = "open" /\ requests' = requests + 1
         /\ row' = [k \in ToolRounds |-> IF k > toolRound' THEN "none" ELSE row[k]]
         /\ UNCHANGED saved

-----------------------------------------------------------------------------
(* The start *)

\* start_message_run
Create ==
    /\ run["first"] = "none"
    /\ run' = [run EXCEPT !["first"] = "queued"]
    /\ UNCHANGED <<toStop, bound, turn, halted, answer, nudges, tools, saved>>

\* No model, no conversation, a plan mode without a plan: an error without a node
Refuse(r) ==
    /\ run[r] = "queued"
    /\ run' = [run EXCEPT ![r] = "failed"]
    /\ UNCHANGED <<toStop, bound, turn, halted, answer, nudges, tools, saved>>

\* mutated form: a stop that came before the node was bound is forgotten
StopMissed(r) == FALSE

\* is_stop_requested, after bind_target_node
StopFound(r) == r \in toStop

\* The node and its controller are there, the run is bound to the node, and a stop
\* that came before is passed on.
Begin(r) ==
    /\ run[r] = "queued"
    /\ bound' = bound \cup {r}
    /\ halted' = StopFound(r)
    /\ toolRound' = 0 /\ nudges' = 0 /\ approval' = NoTools /\ results' = {}
    /\ NextRound(r, StopFound(r))
    /\ UNCHANGED toStop

-----------------------------------------------------------------------------
(* An answer of the model *)

ModelShows(r) ==
    /\ At(r, "asking") /\ Len(text) < MaxText
    /\ Model!Show
    /\ UNCHANGED <<run, toStop, bound, turn, halted, requests, nudges, tools, saved>>

\* The answer has come to its end, and with it the turn.
AnswerEnds(r, how, message, status, retryable) ==
    /\ At(r, "asking")
    /\ Model!End(how)
    /\ UNCHANGED <<toStop, bound, halted, requests, nudges, toolRound, approval, results>>
    /\ Finish(r, message, status, retryable)

\* The error chunk says whether the turn may be continued.
ModelFails(r) == \E retryable \in BOOLEAN : AnswerEnds(r, "error", StatusAtEnd("error"), "failed", retryable)

\* Also what a provider says when its task is cancelled.
ModelStops(r) == AnswerEnds(r, "stopped", "stopped", "cancelled", FALSE)

\* A reason other than "stop" and "tool_calls", or no calls where they were
\* announced
AnswerIncomplete(r) == AnswerEnds(r, "complete", StatusAtEnd("error"), "failed", FALSE)

FinalAnswer(r) == AnswerEnds(r, "complete", StatusAtEnd("completed"), "completed", FALSE)

\* An answer without calls while a plan is being made
Nudge(r) ==
    /\ At(r, "asking") /\ nudges < MaxNudges
    /\ nudges' = nudges + 1
    /\ UNCHANGED <<toStop, bound, halted, toolRound, approval, results>>
    /\ NextRound(r, halted)

TooManyRounds(r) ==
    toolRound = MaxToolRounds /\ AnswerEnds(r, "complete", StatusAtEnd("error"), "failed", FALSE)

\* The calls are stored before they run.
AnswerCalls(r) ==
    /\ At(r, "asking") /\ toolRound < MaxToolRounds
    /\ Model!End("complete")
    /\ toolRound' = toolRound + 1
    /\ row' = [row EXCEPT ![toolRound'] = "running"]
    /\ turn' = [of |-> r, at |-> "tools"]
    /\ UNCHANGED <<run, toStop, bound, halted, requests, nudges, approval, results, saved>>

Answers(r) ==
    \/ ModelFails(r) \/ ModelStops(r) \/ AnswerIncomplete(r) \/ FinalAnswer(r)
    \/ Nudge(r) \/ TooManyRounds(r) \/ AnswerCalls(r)

-----------------------------------------------------------------------------
(* The tools of a round *)

\* tool_approval_request and tool_approval_result; a stop rejects.
Approval(r, status) ==
    /\ At(r, "tools")
    /\ IF status = "waiting_approval" THEN approval[toolRound] = "none"
       ELSE approval[toolRound] = "waiting_approval" /\ (halted => status = "rejected")
    /\ approval' = [approval EXCEPT ![toolRound] = status]
    /\ UNCHANGED <<run, toStop, bound, turn, halted, answer, nudges, toolRound, results, row, saved>>

\* The results are collected; a plan that waits for the user ends the turn.
ToolsDone(r, blocking) ==
    /\ At(r, "tools") /\ approval[toolRound] # "waiting_approval"
    /\ results' = results \cup {toolRound}
    /\ UNCHANGED <<toStop, bound, halted, nudges, toolRound, approval>>
    /\ IF blocking
       THEN Finish(r, StatusAtEnd("completed"), "completed", FALSE) /\ UNCHANGED answer
       ELSE NextRound(r, halted)

ToolsEnd(r, message, status) ==
    /\ At(r, "tools")
    /\ UNCHANGED <<toStop, bound, halted, answer, nudges, toolRound, results>>
    /\ Finish(r, message, status, FALSE)

\* stop_task is done: the calls are cancelled, and the events that are there by
\* then are taken; the results of the round are dropped.
ToolsStopped(r) ==
    /\ At(r, "tools") /\ halted
    /\ \/ UNCHANGED approval
       \/ approval[toolRound] = "waiting_approval" /\ approval' = [approval EXCEPT ![toolRound] = "rejected"]
    /\ ToolsEnd(r, "stopped", "cancelled")

\* An exception skips the check after the loop.
ToolsFail(r) == UNCHANGED approval /\ ToolsEnd(r, "error", "failed")

\* The task is cancelled at a shutdown: no handler sets the status.
ToolsCancelled(r) == UNCHANGED approval /\ ToolsEnd(r, "completed", "cancelled")

-----------------------------------------------------------------------------
\* stop_run_tree: the controller is found by the node, which the continuation
\* shares with the run it continues.
StopTurn(r) ==
    /\ run[r] # "none"
    /\ toStop' = IF run[r] \in Finished THEN toStop ELSE toStop \cup {r}
    /\ halted' = (halted \/ (r \in bound /\ turn.at # "over"))
    /\ UNCHANGED <<run, bound, turn, answer, nudges, tools, saved>>

TurnInit ==
    /\ run = [r \in ChatRuns |-> "none"]
    /\ toStop = {} /\ bound = {}
    /\ turn = [of |-> "first", at |-> "over"] /\ halted = FALSE
    /\ text = <<>> /\ outcome = "open" /\ requests = 0 /\ nudges = 0
    /\ toolRound = 0 /\ approval = NoTools /\ results = {} /\ row = NoTools
    /\ saved = [r \in ChatRuns |-> "none"]

TurnStep(r) ==
    \/ Refuse(r) \/ Begin(r) \/ ModelShows(r) \/ Answers(r)
    \/ \E status \in {"waiting_approval", "approved", "rejected"} : Approval(r, status)
    \/ ToolsDone(r, TRUE) \/ ToolsDone(r, FALSE)
    \/ ToolsStopped(r) \/ ToolsFail(r) \/ ToolsCancelled(r)
    \/ StopTurn(r)

TurnNext == Create \/ \E r \in ChatRuns : TurnStep(r)

\* A run that was scheduled begins.  A stopped model ends its answer
\* (ProviderStream), and the turn looks every 50 ms whether its tools are to stop.
TurnFairness ==
    \A r \in ChatRuns :
        /\ WF_turnVars(Refuse(r) \/ Begin(r))
        /\ WF_turnVars(halted /\ Answers(r))
        /\ WF_turnVars(ToolsStopped(r))

TurnSpec == TurnInit /\ [][TurnNext]_turnVars /\ TurnFairness

-----------------------------------------------------------------------------
(* Properties *)

\* The type of the state.
TurnTypeOK ==
    /\ run \in [ChatRuns -> {"none", "queued", "running"} \cup Finished]
    /\ toStop \subseteq ChatRuns /\ bound \subseteq ChatRuns
    /\ turn \in [of : ChatRuns, at : {"over", "asking", "tools"}]
    /\ halted \in BOOLEAN
    /\ text \in Seq(Nat) /\ outcome \in {"open"} \cup Model!Outcomes /\ requests \in Nat
    /\ toolRound \in 0..MaxToolRounds /\ nudges \in 0..MaxNudges
    /\ approval \in [ToolRounds -> {"none", "waiting_approval", "approved", "rejected"}]
    /\ results \subseteq ToolRounds
    /\ row \in [ToolRounds -> {"none", "running", "complete", "stopped", "error", "waiting_approval", "approved", "rejected"}]
    /\ saved \in [ChatRuns -> {"none", "completed", "stopped", "error"}]

\* A stop reaches the stream, whether it comes before the run has its node or
\* after: a turn in progress whose run was asked to stop has its controller set.
StopReaches == turn.at # "over" /\ turn.of \in toStop => halted

\* What a user stopped is not taken up again: neither a lost connection nor a
\* tool that fails on the way makes the turn continue by itself.
StoppedIsNotContinued == "first" \in toStop => run["again"] = "none"

\* Once a turn is stopped the model is not asked again, in whatever round, nudge
\* or wave of tools the stop came.
NoRoundAfterStop == [][requests' # requests => ~halted']_turnVars

\* The saved message tells of a failure: the message of a run that failed never
\* says that it was completed, and one that says "error" has such a run.
FailureIsTold ==
    \A r \in bound :
        /\ run[r] = "failed" => saved[r] # "completed"
        /\ saved[r] = "error" => run[r] = "failed"

\* A run that was asked to stop comes to its end, although the model is silent
\* and its tools wait for users.
AskedRunsEnd == \A r \in ChatRuns : r \in toStop ~> run[r] \in Finished
=============================================================================
