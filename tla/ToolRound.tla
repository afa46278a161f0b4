------------------------------- MODULE ToolRound -------------------------------
(***************************************************************************)
(* A round of tool calls in a chat turn or a sub-agent: the calls run in   *)
(* waves, some of them wait for the approval of a user, and a stop may come*)
(* at any moment (backend/core/tools/security/approval.py,                 *)
(* tools/orchestrator.py, tools/tool_call_scheduler.py, and the tool rounds*)
(* of chat/chat_manager.py and agents/subagent_executor.py).               *)
(*                                                                         *)
(* All rounds belong to one conversation.  A step is what a task does      *)
(* between two suspensions.  Announcing a request does not suspend: a chat *)
(* turn puts it into a queue, a sub-agent appends it to the event log.     *)
(* An approval is waited for by a task of its own, so that there are two   *)
(* wake-ups between a decision and the call that asked for it; a           *)
(* cancellation is noted at once and takes effect at the next wake-up.     *)
(*                                                                         *)
(* Not covered: an approval manager with a timeout, which nothing          *)
(* constructs; announcements that fail; tools that ignore a cancellation;  *)
(* sandbox violations, which end a call like a refusal.                    *)
(***************************************************************************)
EXTENDS Naturals, Sequences

CONSTANTS
    Rounds,      \* the rounds in progress
    Calls,       \* the tool calls
    Tools,
    CallsOf,     \* the calls of each round, in the order of the model's answer
    RoundOf,     \* the round of each call
    Parallel,    \* the calls of parallel-safe tools
    ToolOf,      \* the tool of each call
    Permission,  \* what the permission engine says of each call
    Kind,        \* "chat" or "sub-agent", of each round
    NodeOf       \* the conversation node of each round

Permissions == {"allow", "ask", "always ask", "deny"}

ASSUME ToolRoundAssumption ==
    /\ RoundOf \in [Calls -> Rounds]
    /\ CallsOf \in [Rounds -> Seq(Calls)]
    /\ \A c \in Calls : \E i \in DOMAIN CallsOf[RoundOf[c]] : CallsOf[RoundOf[c]][i] = c
    /\ Parallel \subseteq Calls
    /\ ToolOf \in [Calls -> Tools]
    /\ Permission \in [Calls -> Permissions]
    /\ Kind \in [Rounds -> {"chat", "sub-agent"}]
    /\ DOMAIN NodeOf = Rounds

VARIABLES
    round,     \* where each round is
    wave,      \* the wave each round is at
    stopped,   \* the rounds whose controller or stop event is set
    call,      \* where each call is
    request,   \* ApprovalManager._pending: the status of the request of each call
    waiter,    \* the task that waits for the decision
    result,    \* what the waiting task returned
    granted,   \* ApprovalManager._session_allowed_tools
    (* what the outside has observed *)
    told,      \* the decision a user was told to have taken, an approval by its scope
    ran        \* the calls whose tool was executed

approvals == <<request, waiter, result, granted, told>>
vars == <<round, wave, stopped, call, approvals, ran>>

-----------------------------------------------------------------------------
(* Waves: consecutive parallel-safe calls form one, any other call is one *)

WaveAt(r) ==
    LET calls == CallsOf[r]
        w[i \in DOMAIN calls] ==
            IF i = 1 THEN 1
            ELSE IF {calls[i - 1], calls[i]} \subseteq Parallel THEN w[i - 1] ELSE w[i - 1] + 1
    IN  w

InWave(r) == {CallsOf[r][i] : i \in {i \in DOMAIN CallsOf[r] : WaveAt(r)[i] = wave[r]}}

Over(c) == call[c] \in {"finished", "cancelled"}

-----------------------------------------------------------------------------
Init ==
    /\ round = [r \in Rounds |-> "running"]
    /\ wave = [r \in Rounds |-> 1]
    /\ stopped = {}
    /\ call = [c \in Calls |-> "idle"]
    /\ request = [c \in Calls |-> "none"]
    /\ waiter = [c \in Calls |-> "none"]
    /\ result = [c \in Calls |-> "none"]
    /\ granted = {}
    /\ told = [c \in Calls |-> "none"]
    /\ ran = {}

(* The call *)

\* mutated form: an approval for the session beats a rule of the user
AllowedByGrant(c) == Permission[c] = "allow" \/ ToolOf[c] \in granted

Allowed(c) ==
    \/ Permission[c] = "allow"
    \/ Permission[c] = "ask" /\ ToolOf[c] \in granted

\* mutated form: a stop overrides a decision that was taken
CancelledForNodeAll(node, req) ==
    [c \in Calls |-> IF req[c] # "none" /\ NodeOf[RoundOf[c]] = node THEN "cancelled" ELSE req[c]]

\* cancel_for_node, over the requests of req
CancelledForNode(node, req) ==
    [c \in Calls |-> IF req[c] = "pending" /\ NodeOf[RoundOf[c]] = node THEN "cancelled" ELSE req[c]]

\* begin_request, and the event of the request: a chat turn that was stopped
\* meanwhile cancels the requests of its node.
Asked(c) ==
    LET r   == RoundOf[c]
        req == [request EXCEPT ![c] = "pending"]
    IN  IF Kind[r] = "chat" /\ r \in stopped THEN CancelledForNode(NodeOf[r], req) ELSE req

Executes(c) ==
    /\ call' = [call EXCEPT ![c] = "executing"]
    /\ ran' = ran \cup {c}

Finishes(c) ==
    /\ call' = [call EXCEPT ![c] = "finished"]
    /\ UNCHANGED ran

\* execute_tool_call up to its first suspension
StartCall(c) ==
    LET r == RoundOf[c]
    IN  /\ round[r] = "running" /\ c \in InWave(r) /\ call[c] = "idle"
        /\ \/ Permission[c] = "deny" /\ Finishes(c) /\ UNCHANGED <<request, waiter>>
           \/ Allowed(c) /\ Executes(c) /\ UNCHANGED <<request, waiter>>
           \/ /\ Permission[c] # "deny" /\ ~Allowed(c)
              /\ call' = [call EXCEPT ![c] = "asking"]
              /\ request' = Asked(c)
              /\ waiter' = [waiter EXCEPT ![c] = "created"]
              /\ UNCHANGED ran
        /\ UNCHANGED <<round, wave, stopped, result, granted, told>>

\* The call wakes up: the waiting task is over.
CallWakes(c) ==
    /\ call[c] = "asking" /\ waiter[c] = "done"
    /\ IF result[c] = "approved" THEN Executes(c) ELSE Finishes(c)
    /\ UNCHANGED <<round, wave, stopped, approvals>>

ExecutionEnds(c) ==
    /\ call[c] = "executing"
    /\ Finishes(c)
    /\ UNCHANGED <<round, wave, stopped, approvals>>

\* A call that was cancelled ends when what it awaited has ended.
CallCancelled(c) ==
    /\ call[c] = "cancelling"
    /\ waiter[c] \in {"none", "done", "cancelled"}
    /\ call' = [call EXCEPT ![c] = "cancelled"]
    /\ UNCHANGED <<round, wave, stopped, approvals, ran>>

-----------------------------------------------------------------------------
(* ApprovalManager *)

GrantedWith(c, decision) == IF decision = "session" THEN granted \cup {ToolOf[c]} ELSE granted

\* decide, through the route of the tool call: a denial, or an approval with its
\* scope, once or for the session
Decide(c, decision) ==
    /\ request[c] = "pending"
    /\ request' = [request EXCEPT ![c] = IF decision = "denied" THEN "denied" ELSE "approved"]
    /\ told' = [told EXCEPT ![c] = decision]
    /\ granted' = GrantedWith(c, decision)
    /\ UNCHANGED <<round, wave, stopped, call, waiter, result, ran>>

\* The first step of _wait_for_decision; a task cancelled before it does not run
\* it, and so not its finally clause either.
WaiterStarts(c) ==
    /\ waiter[c] = "created"
    /\ waiter' = [waiter EXCEPT ![c] = IF call[c] = "cancelling" THEN "unrun" ELSE "waiting"]
    /\ UNCHANGED <<round, wave, stopped, call, request, result, granted, told, ran>>

\* mutated form: a request is only cleaned up by a task that has run
CleanedUpNothing(c) == request
CleanedUp(c) == [request EXCEPT ![c] = "none"]

\* _cleanup_cancelled_before_start, the first callback of that task; the call is
\* woken up by the second.
WaiterCleanedUp(c) ==
    /\ waiter[c] = "unrun"
    /\ waiter' = [waiter EXCEPT ![c] = "cancelled"]
    /\ request' = CleanedUp(c)
    /\ UNCHANGED <<round, wave, stopped, call, result, granted, told, ran>>

\* _wait_for_decision goes on: with the decision, unless it was cancelled.
WaiterWakes(c) ==
    /\ waiter[c] = "waiting"
    /\ IF call[c] = "cancelling"
       THEN waiter' = [waiter EXCEPT ![c] = "cancelled"] /\ UNCHANGED result
       ELSE /\ request[c] # "pending"
            /\ waiter' = [waiter EXCEPT ![c] = "done"]
            /\ result' = [result EXCEPT ![c] = request[c]]
    /\ request' = [request EXCEPT ![c] = "none"]
    /\ UNCHANGED <<round, wave, stopped, call, granted, told, ran>>

-----------------------------------------------------------------------------
(* The round *)

\* _execute_tool_calls: all calls of the wave are done.
NextWave(r) ==
    /\ round[r] = "running"
    /\ \A c \in InWave(r) : Over(c)
    /\ IF \E i \in DOMAIN CallsOf[r] : WaveAt(r)[i] > wave[r]
       THEN wave' = [wave EXCEPT ![r] = @ + 1] /\ UNCHANGED round
       ELSE round' = [round EXCEPT ![r] = "over"] /\ UNCHANGED wave
    /\ UNCHANGED <<stopped, call, approvals, ran>>

\* stop_stream of a chat turn, SubagentExecutor.stop of a sub-agent; the turn
\* may be past the round.
Stop(r) ==
    /\ r \notin stopped
    /\ stopped' = stopped \cup {r}
    /\ request' = IF Kind[r] = "chat" THEN CancelledForNode(NodeOf[r], request) ELSE request
    /\ UNCHANGED <<round, wave, call, waiter, result, granted, told, ran>>

\* mutated form: the calls that wait for an approval are left alone
InFlightExecuting(r) == {c \in Calls : RoundOf[c] = r /\ call[c] = "executing"}
InFlight(r) == {c \in Calls : RoundOf[c] = r /\ call[c] \in {"asking", "executing"}}

\* mutated form: the cancellation does not resolve the request
CancelledWithUnresolved(C) == request

\* _ApprovalWaitTask.cancel, of the tasks the calls of C wait for
CancelledWith(C) ==
    [c \in Calls |-> IF c \in C /\ request[c] = "pending" THEN "cancelled" ELSE request[c]]

\* The task of the round is cancelled, and with it the calls in flight.
CancelRound(r) ==
    /\ round[r] = "running"
    /\ round' = [round EXCEPT ![r] = "cancelling"]
    /\ call' = [c \in Calls |->
                    CASE c \in InFlight(r) -> "cancelling"
                      [] RoundOf[c] = r /\ call[c] = "idle" -> "cancelled"
                      [] OTHER -> call[c]]
    /\ request' = CancelledWith(InFlight(r))
    /\ UNCHANGED <<wave, stopped, waiter, result, granted, told, ran>>

\* The turn or the sub-agent notices that it was stopped.
NoticeStop(r) == r \in stopped /\ CancelRound(r)

\* The task of the turn is cancelled itself, at a shutdown for one.
TurnCancelled(r) == r \notin stopped /\ CancelRound(r)

RoundCancelled(r) ==
    /\ round[r] = "cancelling"
    /\ \A c \in Calls : RoundOf[c] = r => Over(c)
    /\ round' = [round EXCEPT ![r] = "over"]
    /\ UNCHANGED <<wave, stopped, call, approvals, ran>>

-----------------------------------------------------------------------------
CallStep(c) ==
    \/ StartCall(c) \/ CallWakes(c) \/ ExecutionEnds(c) \/ CallCancelled(c)
    \/ WaiterStarts(c) \/ WaiterCleanedUp(c) \/ WaiterWakes(c)

Next ==
    \/ \E c \in Calls :
        \/ CallStep(c)
        \/ \E decision \in {"denied", "once", "session"} : Decide(c, decision)
    \/ \E r \in Rounds :
        NextWave(r) \/ NoticeStop(r) \/ TurnCancelled(r) \/ RoundCancelled(r) \/ Stop(r)

\* The event loop runs each task that is ready, a tool comes to an end; nothing
\* is assumed of users.
Fairness ==
    /\ \A c \in Calls : WF_vars(CallStep(c))
    /\ \A r \in Rounds : WF_vars(NextWave(r) \/ RoundCancelled(r)) /\ WF_vars(NoticeStop(r))

Spec == Init /\ [][Next]_vars /\ Fairness

-----------------------------------------------------------------------------
(* Properties *)

Decisions == {"approved", "denied", "cancelled"}

\* The type of the state of the rounds, the calls and the approval manager.
TypeOK ==
    /\ round \in [Rounds -> {"running", "cancelling", "over"}]
    /\ wave \in [Rounds -> Nat]
    /\ stopped \subseteq Rounds
    /\ call \in [Calls -> {"idle", "asking", "executing", "cancelling", "finished", "cancelled"}]
    /\ request \in [Calls -> {"none", "pending"} \cup Decisions]
    /\ waiter \in [Calls -> {"none", "created", "unrun", "waiting", "done", "cancelled"}]
    /\ result \in [Calls -> {"none"} \cup Decisions]
    /\ granted \subseteq Tools
    /\ told \in [Calls -> {"none", "denied", "once", "session"}]
    /\ ran \subseteq Calls

\* A request in the manager has a call that waits for it, in a round that is not
\* over: none is left behind to be shown to the user or to keep a server busy,
\* in whatever step of it a call is cancelled.
RequestIsAwaited ==
    \A c \in Calls : request[c] # "none" =>
        call[c] \in {"asking", "cancelling"} /\ round[RoundOf[c]] # "over"

\* A tool runs only if the permission engine allows it, or a user approved this
\* very call, or approved a call of the same tool for the session and the
\* engine lets such an approval count.
RunsOnlyPermitted ==
    \A c \in ran :
        \/ Permission[c] = "allow"
        \/ told[c] \in {"once", "session"}
        \/ Permission[c] = "ask" /\ \E d \in Calls : ToolOf[d] = ToolOf[c] /\ told[d] = "session"

\* The decision a user was told of is the one the call acts on, whatever stop
\* of its own turn or of another one on the node comes after it: an approved call
\* that was not cancelled itself runs, a denied one does not.
DecisionIsKept ==
    \A c \in Calls :
        /\ told[c] \in {"once", "session"} /\ call[c] = "finished" => c \in ran
        /\ told[c] = "denied" => c \notin ran

\* No decision is accepted for a call that has been cancelled, however briefly;
\* the user learns that the request has expired, and grants nothing.
AcceptedWhileAsking ==
    [][\A c \in Calls : told'[c] # told[c] => call[c] = "asking"]_vars

\* A chat turn that was stopped asks its user for nothing any more, also not
\* with a request it begins before it notices the stop.
StoppedTurnAsksNobody ==
    \A c \in Calls : Kind[RoundOf[c]] = "chat" /\ RoundOf[c] \in stopped => request[c] # "pending"

\* A round that was stopped ends, although its calls wait for users who do not
\* answer.
StopEnds == \A r \in Rounds : r \in stopped ~> round[r] = "over"
=============================================================================
