------------------------------ MODULE TaskLedger ------------------------------
(***************************************************************************)
(* The active task of a conversation: its ordered steps, the runs bound to *)
(* them, and the chat turns and API clients that change it                 *)
(* (core/tasks, persistence/task_repository.py, tools/task_tools.py,       *)
(* api/routes/tasks.py), with the notifications of finished runs           *)
(* (core/notifications).                                                   *)
(*                                                                         *)
(* The service runs over SQLite: every operation of the repository is one  *)
(* transaction and the service awaits nothing between its checks and that  *)
(* transaction, so an operation is one step, except that cancel_task asks  *)
(* the bound run to stop after its transaction, and that binding a run is  *)
(* prepared before the run is created.                                     *)
(*                                                                         *)
(* Not covered: titles, evidence, detached turns (they have no task        *)
(* tools), the in-memory ledger of tests, start_delivery and               *)
(* mark_delivered (never called).                                          *)
(***************************************************************************)
EXTENDS Naturals, FiniteSets

CONSTANTS
    Turns,        \* chat turns, on any branch of the conversation
    Clients,      \* users of the HTTP routes
    Runs,         \* commands, sub-agents and workflows that may own a step
    Notifying,    \* the runs whose end is notified: sub-agents and workflows
    Noted,        \* bound: the runs the API makes notifications of
    LastStep,     \* the steps of a task are 1 .. LastStep
    None,
    MaxTasks,     \* bound: tasks created
    MaxRevision,  \* bound: changes of one task
    MaxCrashes    \* bound: crashes of the server

Callers == Turns \cup Clients
Steps == 1..LastStep

VARIABLES
    task,     \* the row of active_tasks with its steps
    binding,  \* the row of task_run_bindings
    run,      \* the status of each run
    caller,   \* what each turn or client is doing and what it knows
    note,     \* the task_notifications row of each run
    owed,     \* the finished runs whose finish listeners are still to be called
    up,       \* whether the server serves, or is still starting
    created, crashes

vars == <<task, binding, run, caller, note, owed, up, created, crashes>>

-----------------------------------------------------------------------------
(* Rows *)

Statuses == {"pending", "blocked", "completed"}
Tasks == [generation: 1..MaxTasks, revision: Nat, steps: [Steps -> Statuses]]
Bindings == [run: Runs, generation: 1..MaxTasks, step: Steps]

Active == {"running", "stopping"}
Finished == {"completed", "failed", "cancelled", "interrupted"}

(* What If-Match, or the run context of a tool call, holds of a task. *)
Version(t) == IF t = None THEN None ELSE [generation |-> t.generation, revision |-> t.revision]
Versions == [generation: 1..MaxTasks, revision: Nat]
Plans == [generation: 1..MaxTasks, revision: Nat, step: Steps]

ASSUME LedgerAssumption ==
    /\ Turns \cap Clients = {} /\ Notifying \subseteq Runs /\ Noted \subseteq Runs
    /\ None \notin Runs \cup Tasks \cup Versions \cup Plans \cup Bindings
    /\ LastStep \in Nat \ {0} /\ MaxTasks \in Nat /\ MaxRevision \in Nat /\ MaxCrashes \in Nat

PreviousCompleted(t, k) == \A j \in 1..(k - 1) : t.steps[j] = "completed"
AllStepsCompleted(t) == \A k \in Steps : t.steps[k] = "completed"

(* _require_version: the row has to be the one the caller read. *)
RequireVersion(used) == task # None /\ used = Version(task)

EnsureNoActiveBinding == binding = None

(* Deleting a task takes its steps and its binding with it. *)
Stored(t) == task' = IF AllStepsCompleted(t) THEN None ELSE t

WithStep(k, status) ==
    [task EXCEPT !.steps[k] = status, !.revision = @ + 1]

-----------------------------------------------------------------------------
(* Callers                                                                 *)
(*                                                                         *)
(* A turn shows the model the task of its context (shown) at the start of  *)
(* a round and gives its tools a version (used).  The version of a round   *)
(* starts as that of the turn (first); a task tool refreshes the context   *)
(* (current) and the version of its round.  A client has the version that  *)
(* its last answer brought.                                                *)

FreshCaller == [pc |-> "idle", first |-> None, used |-> None, shown |-> None, current |-> None,
                plan |-> None, stop |-> None, stale |-> FALSE]

(* _refresh_task_turn_context, after a task tool, an agent tool that lists or
   waits, or a tool that bound a run *)
Refreshed(c, t, stale) ==
    IF c \in Turns
    THEN caller' = [caller EXCEPT ![c].pc = "round", ![c].used = Version(t), ![c].current = t,
                                  ![c].plan = None, ![c].stop = None, ![c].stale = stale]
    ELSE caller' = [caller EXCEPT ![c].pc = "idle", ![c].used = Version(t), ![c].stop = None,
                                  ![c].stale = stale]

(* Whether a tool call or request of c may use the task tools now. *)
Ready(c) == up /\ caller[c].pc = (IF c \in Turns THEN "round" ELSE "idle")

(* filter_task_tools_for_context: create_task without a task, the others with one *)
Offered(c, hasTask) == Ready(c) /\ (c \in Turns => (caller[c].shown # None) = hasTask)

(* The refusals of a task tool; a client gets 404, 412 or 409, and with 412
   the current version. *)
Refused(c) ==
    /\ Refreshed(c, task, task # None /\ caller[c].used # Version(task))
    /\ UNCHANGED <<task, binding, run, note, owed, up, created, crashes>>

-----------------------------------------------------------------------------
(* Turns *)

TurnStarts(c) ==
    /\ up /\ c \in Turns /\ caller[c].pc = "idle"
    /\ caller' = [caller EXCEPT ![c] = [FreshCaller EXCEPT !.pc = "round", !.first = Version(task),
                      !.used = Version(task), !.shown = task, !.current = task]]
    /\ UNCHANGED <<task, binding, run, note, owed, up, created, crashes>>

(* The run context of a round is a copy of that of the turn. *)
RoundStarts(c) ==
    /\ up /\ c \in Turns /\ caller[c].pc = "round"
    /\ caller' = [caller EXCEPT ![c].used = caller[c].first, ![c].shown = caller[c].current,
                                ![c].stale = FALSE]
    /\ UNCHANGED <<task, binding, run, note, owed, up, created, crashes>>

(* An agent tool that lists or waits. *)
Looks(c) ==
    /\ up /\ c \in Turns /\ caller[c].pc = "round"
    /\ Refreshed(c, task, FALSE)
    /\ UNCHANGED <<task, binding, run, note, owed, up, created, crashes>>

TurnEnds(c) ==
    /\ up /\ c \in Turns /\ caller[c].pc = "round"
    /\ caller' = [caller EXCEPT ![c] = FreshCaller]
    /\ UNCHANGED <<task, binding, run, note, owed, up, created, crashes>>

-----------------------------------------------------------------------------
(* Operations of the ledger *)

Inserted == [generation |-> created + 1, revision |-> 0, steps |-> [k \in Steps |-> "pending"]]

CreateTask(c) ==
    /\ Offered(c, FALSE)
    /\ task = None /\ created < MaxTasks
    /\ created' = created + 1
    /\ task' = Inserted
    /\ Refreshed(c, Inserted, FALSE)
    /\ UNCHANGED <<binding, run, note, owed, up, crashes>>

(* active_task_exists *)
CreateRefused(c) == Offered(c, FALSE) /\ task # None /\ Refused(c)

(* mutated form: without the check of the earlier steps *)
SettableAnyOrder(t, k, status) == t.steps[k] = "completed" => status = "completed"

Settable(t, k, status) ==
    /\ PreviousCompleted(t, k)
    /\ t.steps[k] = "completed" => status = "completed"

SetAllowed(c, k, status) ==
    /\ RequireVersion(caller[c].used) /\ EnsureNoActiveBinding /\ Settable(task, k, status)

SetTaskStep(c, k, status) ==
    /\ Offered(c, TRUE) /\ SetAllowed(c, k, status) /\ task.revision < MaxRevision
    /\ Stored(WithStep(k, status))
    /\ Refreshed(c, task', FALSE)
    /\ UNCHANGED <<binding, run, note, owed, up, created, crashes>>

SetRefused(c, k, status) ==
    Offered(c, TRUE) /\ caller[c].used # None /\ ~SetAllowed(c, k, status) /\ Refused(c)

(* _validate_task_version: task_context_stale *)
VersionMissing(c) == c \in Turns /\ Offered(c, TRUE) /\ caller[c].used = None /\ Refused(c)

BoundRun == IF binding = None THEN None ELSE binding.run

(* mutated form: the bound run is looked up when the task is gone *)
RunToStopAfterwards == None

RunToStop == BoundRun

(* cancel_task: the binding goes with the task; then the run is asked to stop. *)
CancelTask(c) ==
    /\ Offered(c, TRUE) /\ RequireVersion(caller[c].used)
    /\ task' = None /\ binding' = None
    /\ IF RunToStop = None THEN Refreshed(c, None, FALSE)
       ELSE caller' = [caller EXCEPT ![c].pc = "stopping", ![c].stop = RunToStop, ![c].stale = FALSE]
    /\ UNCHANGED <<run, note, owed, up, created, crashes>>

CancelRefused(c) ==
    Offered(c, TRUE) /\ caller[c].used # None /\ ~RequireVersion(caller[c].used) /\ Refused(c)

CancelStopsIt(c) ==
    /\ up /\ caller[c].pc = "stopping"
    /\ run' = [run EXCEPT ![caller[c].stop] = IF @ = "running" THEN "stopping" ELSE @]
    /\ Refreshed(c, task, FALSE)
    /\ UNCHANGED <<task, binding, note, owed, up, created, crashes>>

-----------------------------------------------------------------------------
(* Bound runs *)

Bindable(used, k) ==
    /\ RequireVersion(used) /\ EnsureNoActiveBinding
    /\ task.steps[k] # "completed" /\ PreviousCompleted(task, k)

(* prepare_run_binding, for a shell command, an agent or a workflow; the
   run is created later *)
Prepare(c, k) ==
    /\ c \in Turns /\ Offered(c, TRUE) /\ Bindable(caller[c].used, k)
    /\ caller' = [caller EXCEPT ![c].pc = "binding",
                      ![c].plan = [generation |-> task.generation, revision |-> task.revision, step |-> k]]
    /\ UNCHANGED <<task, binding, run, note, owed, up, created, crashes>>

PrepareRefused(c, k) ==
    c \in Turns /\ Offered(c, TRUE) /\ ~Bindable(caller[c].used, k) /\ Refused(c)

Planned(c) == [generation |-> caller[c].plan.generation, revision |-> caller[c].plan.revision]

(* create_or_get_run with a binding: the run and its binding are inserted in
   one transaction.  A foreground command is waited for, the other runs are
   only started. *)
CreateBoundRun(c, r) ==
    /\ up /\ caller[c].pc = "binding" /\ run[r] = "none"
    /\ Bindable(Planned(c), caller[c].plan.step)
    /\ run' = [run EXCEPT ![r] = "running"]
    /\ binding' = [run |-> r, generation |-> task.generation, step |-> caller[c].plan.step]
    /\ \/ Refreshed(c, task, FALSE)
       \/ r \notin Notifying /\ caller' = [caller EXCEPT ![c].pc = "waiting", ![c].stop = r, ![c].plan = None]
    /\ UNCHANGED <<task, note, owed, up, created, crashes>>

(* The insert is rolled back, no run exists. *)
BindRefused(c) ==
    /\ up /\ caller[c].pc = "binding" /\ ~Bindable(Planned(c), caller[c].plan.step)
    /\ Refreshed(c, task, FALSE)
    /\ UNCHANGED <<task, binding, run, note, owed, up, created, crashes>>

CommandAnswered(c) ==
    /\ up /\ caller[c].pc = "waiting" /\ run[caller[c].stop] \in Finished
    /\ Refreshed(c, task, FALSE)
    /\ UNCHANGED <<task, binding, run, note, owed, up, created, crashes>>

NextStatus(status, current) ==
    CASE status = "completed" -> "completed"
      [] status = "failed" -> "blocked"
      [] OTHER -> current

(* mutated form: the release of a binding leaves the revision *)
ReleasedSilently(r, status) ==
    IF binding # None /\ binding.run = r
    THEN /\ binding' = None
         /\ IF task # None /\ task.generation = binding.generation
            THEN Stored([WithStep(binding.step, NextStatus(status, task.steps[binding.step]))
                            EXCEPT !.revision = task.revision])
            ELSE UNCHANGED task
    ELSE UNCHANGED <<task, binding>>

(* finish_run_binding_in_connection for the end of run r *)
Released(r, status) ==
    IF binding # None /\ binding.run = r
    THEN /\ binding' = None
         /\ IF task # None /\ task.generation = binding.generation
            THEN Stored(WithStep(binding.step, NextStatus(status, task.steps[binding.step])))
            ELSE UNCHANGED task
    ELSE UNCHANGED <<task, binding>>

FinishRun(r, status) ==
    /\ up /\ run[r] \in Active
    /\ run' = [run EXCEPT ![r] = status]
    /\ Released(r, status)
    /\ owed' = owed \cup ({r} \cap Notifying)
    /\ UNCHANGED <<caller, note, up, created, crashes>>

(* A user stops a run. *)
RequestStop(r) ==
    /\ up /\ run[r] = "running"
    /\ run' = [run EXCEPT ![r] = "stopping"]
    /\ UNCHANGED <<task, binding, caller, note, owed, up, created, crashes>>

-----------------------------------------------------------------------------
(* Notifications *)

(* An existing notification keeps its status. *)
UpsertedNote(current) == IF current = "none" THEN "unbound" ELSE current

(* The finish listener, after the transaction of finish_run. *)
NotifyFinished(r) ==
    /\ up /\ r \in owed
    /\ owed' = owed \ {r}
    /\ note' = [note EXCEPT ![r] = UpsertedNote(@)]
    /\ UNCHANGED <<task, binding, run, caller, up, created, crashes>>

CreateNotification(r) ==
    /\ up /\ r \in Noted /\ run[r] # "none"
    /\ note' = [note EXCEPT ![r] = UpsertedNote(@)]
    /\ UNCHANGED <<task, binding, run, caller, owed, up, created, crashes>>

BindNotification(r) ==
    /\ up /\ note[r] = "unbound"
    /\ note' = [note EXCEPT ![r] = "bound"]
    /\ UNCHANGED <<task, binding, run, caller, owed, up, created, crashes>>

DeleteNotification(r) ==
    /\ up /\ note[r] \in {"unbound", "bound"}
    /\ note' = [note EXCEPT ![r] = "delivery_cancelled"]
    /\ UNCHANGED <<task, binding, run, caller, owed, up, created, crashes>>

-----------------------------------------------------------------------------
(* Crash and start: the repository survives, the listeners of a finished run
   and the turns do not. *)

Crash ==
    /\ up /\ crashes < MaxCrashes
    /\ up' = FALSE /\ crashes' = crashes + 1 /\ owed' = {}
    /\ caller' = [c \in Callers |-> FreshCaller]
    /\ UNCHANGED <<task, binding, run, note, created>>

(* mark_unfinished_as_interrupted, before any listener is registered *)
Interrupt(r) ==
    /\ ~up /\ run[r] \in Active
    /\ run' = [run EXCEPT ![r] = "interrupted"]
    /\ Released(r, "interrupted")
    /\ UNCHANGED <<caller, note, owed, up, created, crashes>>

Restart ==
    /\ ~up /\ \A r \in Runs : run[r] \notin Active
    /\ up' = TRUE
    /\ UNCHANGED <<task, binding, run, caller, note, owed, created, crashes>>

-----------------------------------------------------------------------------

Init ==
    /\ task = None /\ binding = None
    /\ run = [r \in Runs |-> "none"]
    /\ caller = [c \in Callers |-> FreshCaller]
    /\ note = [r \in Runs |-> "none"]
    /\ owed = {} /\ up = TRUE /\ created = 0 /\ crashes = 0

Turn(c) == TurnStarts(c) \/ RoundStarts(c) \/ Looks(c) \/ TurnEnds(c)

Ledger(c) ==
    \/ CreateTask(c) \/ CreateRefused(c) \/ VersionMissing(c)
    \/ CancelTask(c) \/ CancelRefused(c) \/ CancelStopsIt(c)
    \/ \E k \in Steps, status \in {"blocked", "completed"} :
           SetTaskStep(c, k, status) \/ SetRefused(c, k, status)

Bound(c) ==
    \/ \E k \in Steps : Prepare(c, k) \/ PrepareRefused(c, k)
    \/ \E r \in Runs : CreateBoundRun(c, r)
    \/ BindRefused(c) \/ CommandAnswered(c)

Ends(r) ==
    \/ \E status \in Finished \ {"interrupted"} : FinishRun(r, status)
    \/ RequestStop(r)

Notification(r) ==
    NotifyFinished(r) \/ CreateNotification(r) \/ BindNotification(r) \/ DeleteNotification(r)

Next ==
    \/ \E c \in Callers : Turn(c) \/ Ledger(c) \/ Bound(c)
    \/ \E r \in Runs : Ends(r) \/ Notification(r) \/ Interrupt(r)
    \/ Crash \/ Restart

(* What was awaited goes on, a run that was asked to stop ends, and a server
   that crashed is started. *)
Fairness ==
    /\ \A c \in Callers : WF_vars(CancelStopsIt(c))
    /\ \A r \in Runs : WF_vars(run[r] = "stopping" /\ FinishRun(r, "cancelled")) /\ WF_vars(Interrupt(r))
    /\ WF_vars(Restart)

Spec == Init /\ [][Next]_vars /\ Fairness

-----------------------------------------------------------------------------
(* Properties *)

CallerStates ==
    [pc : {"idle", "round", "binding", "waiting", "stopping"},
     first : Versions \cup {None}, used : Versions \cup {None},
     shown : Tasks \cup {None}, current : Tasks \cup {None},
     plan : Plans \cup {None},
     stop : Runs \cup {None}, stale : BOOLEAN]

(* Types of the rows and of what the callers know. *)
TypeOK ==
    /\ task \in Tasks \cup {None} /\ binding \in Bindings \cup {None}
    /\ run \in [Runs -> Active \cup Finished \cup {"none"}]
    /\ note \in [Runs -> {"none", "unbound", "bound", "delivery_cancelled"}]
    /\ owed \subseteq Notifying /\ up \in BOOLEAN
    /\ created \in 0..MaxTasks /\ crashes \in 0..MaxCrashes
    /\ caller \in [Callers -> CallerStates]

(* Whoever changes the steps of a task, by hand or through runs, they are
   begun in order and a task whose steps are all completed is gone. *)
StepsInOrder ==
    task # None =>
        /\ ~AllStepsCompleted(task)
        /\ \A k \in Steps : task.steps[k] # "pending" => PreviousCompleted(task, k)

(* A bound run is active and owns an unfinished step of the current task. *)
BindingMatches ==
    binding # None =>
        /\ run[binding.run] \in Active
        /\ task # None /\ task.generation = binding.generation
        /\ task.steps[binding.step] # "completed"
        /\ PreviousCompleted(task, binding.step)

LedgerInv == StepsInOrder /\ BindingMatches

(* A version names one state of the steps: a turn that is shown the task of
   the current version has been shown its current steps. *)
SeenIsCurrent ==
    \A c \in Turns : caller[c].shown # None /\ Version(caller[c].shown) = Version(task) =>
        caller[c].shown.steps = task.steps

(* A task tool is refused as stale only if the task has changed since the
   prompt of the round showed it (task_tools.py, _validate_task_version). *)
StaleMeansNotShown ==
    \A c \in Turns : caller[c].stale => caller[c].shown # task

(* A run that was started for a step of a task that is cancelled since does
   not run on. *)
CancelledRunEnds ==
    \A r \in Runs : (run[r] \in Active /\ BoundRun # r) ~> run[r] \notin Active
=============================================================================
