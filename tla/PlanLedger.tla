------------------------------ MODULE PlanLedger ------------------------------
(***************************************************************************)
(* Plan sessions of a conversation (core/plans, plan_repository.py,        *)
(* tools/plan_tools.py, api/routes/plans.py and the plan part of the turn  *)
(* in chat_manager.py): a turn enters plan mode, asks the user or submits  *)
(* a plan and pauses; the user's decision writes the result of the tool    *)
(* call that waits and starts a run that goes on with the same node.       *)
(*                                                                         *)
(* The ledger awaits nothing inside its operations and the routes nothing  *)
(* between reading the plan and writing the result, so a decision is one   *)
(* step; the run that continues it is created in another.                  *)
(*                                                                         *)
(* Not covered: the texts of questions and plans, the reminders to a turn  *)
(* that answers without a plan tool (they change no state), failing IO.    *)
(***************************************************************************)
EXTENDS Naturals, FiniteSets

CONSTANTS
    Nodes,      \* the nodes of the conversation whose turns use plan mode
    Users,      \* clients of the plan routes
    Unset,      \* no node, call, session or mode
    MaxPlans,   \* bound: plan sessions
    MaxCalls,   \* bound: questions and submitted plans
    MaxPlanCrashes  \* bound: crashes of the server

ASSUME PlanLedgerAssumption ==
    MaxPlans \in Nat /\ MaxCalls \in Nat /\ MaxPlanCrashes \in Nat /\ Unset \notin Nat

VARIABLES
    plan,     \* the plan_sessions rows
    calls,    \* the tool calls that ask the user, with their results
    turn,     \* the turn of each node
    user,     \* what each user waits for
    plans, asked, planCrashes

planVars == <<plan, calls, turn, user, plans, asked, planCrashes>>

-----------------------------------------------------------------------------

Open == {"active", "awaiting_question", "awaiting_approval"}
Ids == 1..MaxPlans
CallIds == 1..MaxCalls

NoPlan == [status |-> "none", question |-> Unset, exit |-> Unset, previous |-> Unset]

(* get_active_or_awaiting *)
OpenPlans == {p \in Ids : plan[p].status \in Open}
Current == IF OpenPlans = {} THEN Unset ELSE CHOOSE p \in OpenPlans : \A q \in OpenPlans : q <= p

(* A node has one turn and the runs that continue it; its turn has a writer
   of the node from the creation of the run to its end. *)
FreshTurn == [pc |-> "idle", mode |-> Unset, waiting |-> {}]
NewTurn == [FreshTurn EXCEPT !.pc = "new"]
FreshUser == [pc |-> "idle", node |-> Unset, mode |-> Unset]

Undecided == [node |-> Unset, kind |-> Unset, result |-> "none", decision |-> Unset]

-----------------------------------------------------------------------------
(* Turns *)

(* _active_plan_permission_mode: every new turn is in plan mode while a plan
   is open, and only then. *)
StartTurn(n) ==
    /\ turn[n].pc = "new"
    /\ turn' = [turn EXCEPT ![n] = [FreshTurn EXCEPT !.pc = "running",
                                        !.mode = IF Current # Unset THEN "plan" ELSE "modify_only"]]
    /\ UNCHANGED <<plan, calls, user, plans, asked, planCrashes>>

(* mutated form: a second session although one is open *)
EnteredAlways == plans + 1

(* The session a turn enters: the open one, or a new one. *)
Entered == IF Current # Unset THEN Current ELSE plans + 1

EnterPlanMode(n) ==
    /\ turn[n].pc = "running" /\ turn[n].mode # "plan"
    /\ Entered <= MaxPlans
    /\ IF Entered <= plans THEN UNCHANGED <<plan, plans>>
       ELSE /\ plans' = Entered
            /\ plan' = [plan EXCEPT ![Entered] =
                           [NoPlan EXCEPT !.status = "active", !.previous = turn[n].mode]]
    /\ turn' = [turn EXCEPT ![n].mode = "plan"]
    /\ UNCHANGED <<calls, user, asked, planCrashes>>

Call(n, kind) == [Undecided EXCEPT !.node = n, !.kind = kind]

(* ask_user_question, also when a question waits already *)
AskUserQuestion(n) ==
    /\ turn[n].pc \in {"running", "blocked"} /\ turn[n].mode = "plan" /\ asked < MaxCalls
    /\ Current # Unset /\ plan[Current].status \in {"active", "awaiting_question"}
    /\ asked' = asked + 1
    /\ calls' = [calls EXCEPT ![asked + 1] = Call(n, "question")]
    /\ plan' = [plan EXCEPT ![Current].status = "awaiting_question", ![Current].question = asked + 1]
    /\ turn' = [turn EXCEPT ![n].pc = "blocked", ![n].waiting = @ \cup {asked + 1}]
    /\ UNCHANGED <<user, plans, planCrashes>>

ExitPlanMode(n) ==
    /\ turn[n].pc \in {"running", "blocked"} /\ turn[n].mode = "plan" /\ asked < MaxCalls
    /\ Current # Unset /\ plan[Current].status \in {"active", "awaiting_approval"}
    /\ asked' = asked + 1
    /\ calls' = [calls EXCEPT ![asked + 1] = Call(n, "exit")]
    /\ plan' = [plan EXCEPT ![Current].status = "awaiting_approval", ![Current].exit = asked + 1]
    /\ turn' = [turn EXCEPT ![n].pc = "blocked", ![n].waiting = @ \cup {asked + 1}]
    /\ UNCHANGED <<user, plans, planCrashes>>

(* persist_tool_metadata: the turn saves the results its tools returned. *)
Persisted(n) ==
    [k \in CallIds |-> IF k \in turn[n].waiting THEN [calls[k] EXCEPT !.result = "awaiting"] ELSE calls[k]]

(* A turn with a waiting call ends its round paused; a turn with none may
   answer.  Both are finalized and saved. *)
Finalize(n) ==
    /\ turn[n].pc \in {"running", "blocked"}
    /\ calls' = Persisted(n)
    /\ turn' = [turn EXCEPT ![n].pc = "saved", ![n].waiting = {}]
    /\ UNCHANGED <<plan, user, plans, asked, planCrashes>>

RunEnds(n) ==
    /\ turn[n].pc = "saved"
    /\ turn' = [turn EXCEPT ![n] = FreshTurn]
    /\ user' = [u \in Users |-> IF user[u].pc = "reading" /\ user[u].node = n THEN FreshUser ELSE user[u]]
    /\ UNCHANGED <<plan, calls, plans, asked, planCrashes>>

-----------------------------------------------------------------------------
(* Decisions of users *)

Answered(p) == [plan EXCEPT ![p].status = "active", ![p].question = Unset]
Approved(p) == [plan EXCEPT ![p].status = "approved"]
Rejected(p) == [plan EXCEPT ![p].status = "active", ![p].exit = Unset]

Decidable(p, action) ==
    plan[p].status = (IF action = "answer" THEN "awaiting_question" ELSE "awaiting_approval")

Awaited(p, action) == IF action = "answer" THEN plan[p].question ELSE plan[p].exit

(* answer_plan_question, approve_plan, reject_plan *)
Decide(u, p, action) ==
    /\ user[u].pc = "idle" /\ Decidable(p, action)
    /\ LET k == Awaited(p, action) IN
       /\ plan' = CASE action = "answer" -> Answered(p)
                    [] action = "approve" -> Approved(p)
                    [] action = "reject" -> Rejected(p)
       /\ calls' = [calls EXCEPT ![k].result = action, ![k].decision = action]
       /\ user' = [user EXCEPT ![u] = [pc |-> "starting", node |-> calls[k].node,
                      mode |-> IF action = "approve" THEN plan[p].previous ELSE "plan"]]
    /\ UNCHANGED <<turn, plans, asked, planCrashes>>

(* create_run, then the stream of the continuation, whose generator has yet
   to be asked for its second item *)
StartContinuation(u) ==
    /\ user[u].pc = "starting" /\ turn[user[u].node].pc = "idle"
    /\ turn' = [turn EXCEPT ![user[u].node] = [FreshTurn EXCEPT !.pc = "created", !.mode = user[u].mode]]
    /\ user' = [user EXCEPT ![u].pc = "reading"]
    /\ UNCHANGED <<plan, calls, plans, asked, planCrashes>>

(* RunWriterConflictError: the node has a writer, the decision stands. *)
ContinuationRefused(u) ==
    /\ user[u].pc = "starting" /\ turn[user[u].node].pc # "idle"
    /\ user' = [user EXCEPT ![u] = FreshUser]
    /\ UNCHANGED <<plan, calls, turn, plans, asked, planCrashes>>

ContinuationRuns(u) ==
    /\ user[u].pc = "reading" /\ turn[user[u].node].pc = "created"
    /\ turn' = [turn EXCEPT ![user[u].node].pc = "running"]
    /\ UNCHANGED <<plan, calls, user, plans, asked, planCrashes>>

(* What closing the generator of _plan_action_stream does to its turn: the
   run is finished only once the try block was entered. *)
Closed(t) == IF t.pc = "created" THEN t ELSE FreshTurn

(* The user goes away while the continuation streams to it. *)
Leave(u) ==
    /\ user[u].pc = "reading" /\ turn[user[u].node].pc # "idle"
    /\ turn' = [turn EXCEPT ![user[u].node] = Closed(@)]
    /\ user' = [user EXCEPT ![u] = FreshUser]
    /\ UNCHANGED <<plan, calls, plans, asked, planCrashes>>

-----------------------------------------------------------------------------

(* The rows survive; unfinished runs are interrupted and free their nodes. *)
PlanCrash ==
    /\ planCrashes < MaxPlanCrashes
    /\ planCrashes' = planCrashes + 1
    /\ turn' = [n \in Nodes |-> IF turn[n].pc = "new" THEN NewTurn ELSE FreshTurn]
    /\ user' = [u \in Users |-> FreshUser]
    /\ UNCHANGED <<plan, calls, plans, asked>>

PlanInit ==
    /\ plan = [p \in Ids |-> NoPlan] /\ calls = [k \in CallIds |-> Undecided]
    /\ turn = [n \in Nodes |-> NewTurn] /\ user = [u \in Users |-> FreshUser]
    /\ plans = 0 /\ asked = 0 /\ planCrashes = 0

PlanTurn(n) ==
    \/ StartTurn(n) \/ EnterPlanMode(n) \/ AskUserQuestion(n) \/ ExitPlanMode(n)
    \/ Finalize(n) \/ RunEnds(n)

User(u) ==
    \/ \E p \in Ids, action \in {"answer", "approve", "reject"} : Decide(u, p, action)
    \/ StartContinuation(u) \/ ContinuationRefused(u)
    \/ ContinuationRuns(u) \/ Leave(u)

PlanNext == (\E n \in Nodes : PlanTurn(n)) \/ (\E u \in Users : User(u)) \/ PlanCrash

PlanSpec == PlanInit /\ [][PlanNext]_planVars

-----------------------------------------------------------------------------
(* Properties *)

(* A conversation has one open plan, and what it waits for is a call that
   nobody has decided: two turns on two branches may enter, ask and submit,
   and two users decide, in any order. *)
OnePlanAwaitsOneCall ==
    /\ Cardinality(OpenPlans) <= 1
    /\ \A p \in Ids :
          /\ plan[p].status = "awaiting_question" =>
                /\ plan[p].question # Unset /\ calls[plan[p].question].kind = "question"
                /\ calls[plan[p].question].decision = Unset
          /\ plan[p].status = "awaiting_approval" =>
                /\ plan[p].exit # Unset /\ calls[plan[p].exit].kind = "exit"
                /\ calls[plan[p].exit].decision = Unset
=============================================================================
