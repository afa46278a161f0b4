----------------------------- MODULE LedgerProofs -----------------------------
(***************************************************************************)
(* Proofs about the two ledgers of a conversation, TaskLedger and          *)
(* PlanLedger, for any turns, clients, runs, nodes and users.              *)
(*                                                                         *)
(* TaskLedger: LedgerInv is inductive once the rows have their types.      *)
(* SeenIsCurrent needs to be said of every task that anybody has in mind:  *)
(* it is of an earlier generation, or of an earlier revision, or it is the *)
(* task.                                                                   *)
(*                                                                         *)
(* PlanLedger: a turn enters the session that is open, so that there is    *)
(* one; what an open session waits for is a call that was made for it,     *)
(* which nobody has decided, since a decision ends the waiting in the same *)
(* step.                                                                   *)
(***************************************************************************)
EXTENDS TaskLedger, PlanLedger, FiniteSetTheorems, TLAPS

USE LedgerAssumption

Earlier(t) ==
    t # None =>
        /\ t.generation <= created
        /\ task # None /\ t.generation = task.generation =>
               /\ t.revision <= task.revision
               /\ t.revision = task.revision => t.steps = task.steps

Remembered ==
    /\ task # None => task.generation = created
    /\ \A c \in Callers : Earlier(caller[c].shown) /\ Earlier(caller[c].current)

\* A caller in the middle of a binding has its plan.
Planning == \A c \in Callers : caller[c].pc = "binding" => caller[c].plan # None

IInv == TypeOK /\ LedgerInv /\ Remembered

-----------------------------------------------------------------------------
(* Helpers *)

LEMMA TaskFields ==
  ASSUME TypeOK, task # None
  PROVE  /\ task \in Tasks /\ task.generation \in 1..MaxTasks /\ task.revision \in Nat
         /\ task.steps \in [Steps -> Statuses]
         /\ Version(task) \in Versions
  BY DEF TypeOK, Tasks, Version, Versions

\* The answer to a caller gives it a task to remember, and changes nothing else
\* that a caller remembers.
LEMMA RefreshedKeeps ==
  ASSUME TypeOK, NEW c \in Callers, NEW t \in Tasks \cup {None}, NEW stale \in BOOLEAN,
         Refreshed(c, t, stale)
  PROVE  /\ caller' \in [Callers -> CallerStates]
         /\ \A d \in Callers : /\ caller'[d].shown = caller[d].shown
                               /\ caller'[d].current \in {caller[d].current, t}
<1>1. Version(t) \in Versions \cup {None}
  BY DEF Version, Versions, Tasks
<1>2. PICK q \in CallerStates :
          /\ caller' = [caller EXCEPT ![c] = q]
          /\ q.shown = caller[c].shown /\ q.current \in {caller[c].current, t}
  <2>1. caller[c] \in CallerStates /\ caller \in [Callers -> CallerStates]
    BY DEF TypeOK
  <2>2. CASE c \in Turns
    <3> DEFINE q == [caller[c] EXCEPT !.pc = "round", !.used = Version(t), !.current = t,
                                      !.plan = None, !.stop = None, !.stale = stale]
    <3>1. caller' = [caller EXCEPT ![c] = q]
      BY <2>1, <2>2 DEF Refreshed, CallerStates
    <3>2. q \in CallerStates /\ q.shown = caller[c].shown /\ q.current = t
      BY <1>1, <2>1 DEF CallerStates
    <3> QED  BY <3>1, <3>2
  <2>3. CASE c \notin Turns
    <3> DEFINE q == [caller[c] EXCEPT !.pc = "idle", !.used = Version(t), !.stop = None,
                                      !.stale = stale]
    <3>1. caller' = [caller EXCEPT ![c] = q]
      BY <2>1, <2>3 DEF Refreshed, CallerStates
    <3>2. q \in CallerStates /\ q.shown = caller[c].shown /\ q.current = caller[c].current
      BY <1>1, <2>1 DEF CallerStates
    <3> QED  BY <3>1, <3>2
  <2> QED  BY <2>2, <2>3
<1> QED  BY <1>2 DEF TypeOK

\* Nobody remembers more than the task, and a bound run goes on.
LEMMA QuietKeeps ==
  ASSUME IInv, TypeOK', task' = task, binding' = binding, created' = created,
         \A r \in Runs : run[r] \in Active => run'[r] \in Active,
         \A d \in Callers :
             /\ caller'[d].shown \in {caller[d].shown, caller[d].current, task, None}
             /\ caller'[d].current \in {caller[d].shown, caller[d].current, task, None}
  PROVE  IInv'
<1>1. LedgerInv'
  <2>1. binding # None => binding.run \in Runs
    BY DEF IInv, TypeOK, Bindings
  <2> QED  BY <2>1 DEF IInv, LedgerInv, StepsInOrder, BindingMatches, AllStepsCompleted, PreviousCompleted
<1>2. Earlier(task) /\ Earlier(None)
  <2>1. task # None => task.generation \in Nat /\ task.revision \in Nat
    BY TaskFields DEF IInv
  <2> QED  BY <2>1 DEF IInv, Remembered, Earlier
<1>3. ASSUME NEW d \in Callers PROVE (Earlier(caller[d].shown) /\ Earlier(caller[d].current))'
  <2>1. Earlier(caller'[d].shown) /\ Earlier(caller'[d].current)
    BY <1>2 DEF IInv, Remembered
  <2> QED  BY <2>1 DEF Earlier
<1>4. (task # None => task.generation = created)'
  BY DEF IInv, Remembered
<1> QED  BY <1>1, <1>3, <1>4 DEF IInv, Remembered

\* After a change of the task, nobody remembers more than the new revision.
LEMMA MovedKeeps ==
  ASSUME IInv, TypeOK', created' = created,
         task' # None => /\ task # None /\ task'.generation = task.generation
                         /\ task'.revision = task.revision + 1,
         \A d \in Callers :
             /\ caller'[d].shown \in {caller[d].shown, task', None}
             /\ caller'[d].current \in {caller[d].current, task', None}
  PROVE  Remembered'
<1>1. (task # None => task.generation = created)'
  BY DEF IInv, Remembered
<1>2. (Earlier(task) /\ Earlier(None))'
  <2>1. task' # None => task'.generation \in Nat /\ task'.revision \in Nat
    BY DEF TypeOK, Tasks
  <2> QED  BY <1>1, <2>1 DEF Earlier
<1>3. ASSUME NEW t \in Tasks \cup {None}, Earlier(t) PROVE (t # None =>
        /\ t.generation <= created'
        /\ task' # None /\ t.generation = task'.generation =>
               /\ t.revision <= task'.revision
               /\ t.revision = task'.revision => t.steps = task'.steps)
  <2>1. task # None => task.revision \in Nat
    BY TaskFields DEF IInv
  <2>2. t # None => t.revision \in Nat
    BY DEF Tasks
  <2> QED  BY <1>3, <2>1, <2>2 DEF Earlier
<1>4. ASSUME NEW d \in Callers PROVE (Earlier(caller[d].shown) /\ Earlier(caller[d].current))'
  <2>1. /\ caller[d].shown \in Tasks \cup {None} /\ Earlier(caller[d].shown)
        /\ caller[d].current \in Tasks \cup {None} /\ Earlier(caller[d].current)
    BY DEF IInv, TypeOK, CallerStates, Remembered
  <2>2. CASE caller'[d].shown = caller[d].shown /\ caller'[d].current = caller[d].current
    BY <1>3, <2>1, <2>2 DEF Earlier
  <2>3. CASE caller'[d].shown = caller[d].shown /\ caller'[d].current \in {task', None}
    BY <1>2, <1>3, <2>1, <2>3 DEF Earlier
  <2>4. CASE caller'[d].shown \in {task', None} /\ caller'[d].current = caller[d].current
    BY <1>2, <1>3, <2>1, <2>4 DEF Earlier
  <2>5. CASE caller'[d].shown \in {task', None} /\ caller'[d].current \in {task', None}
    BY <1>2, <2>5 DEF Earlier
  <2> QED  BY <2>2, <2>3, <2>4, <2>5
<1> QED  BY <1>1, <1>4 DEF Remembered

-----------------------------------------------------------------------------
(* Steps that leave the task alone *)

LEMMA RefusedKeeps ==
  ASSUME IInv, NEW c \in Callers, NEW t \in {task, None}, NEW stale \in BOOLEAN, t = task,
         Refreshed(c, t, stale), UNCHANGED <<task, binding, note, owed, up, created, crashes>>,
         run' \in [Runs -> Active \cup Finished \cup {"none"}],
         \A r \in Runs : run[r] \in Active => run'[r] \in Active
  PROVE  IInv'
<1>1. TypeOK /\ t \in Tasks \cup {None}
  BY DEF IInv, TypeOK
<1>2. /\ caller' \in [Callers -> CallerStates]
      /\ \A d \in Callers : /\ caller'[d].shown = caller[d].shown
                            /\ caller'[d].current \in {caller[d].current, t}
  BY <1>1, RefreshedKeeps
<1>3. TypeOK'
  BY <1>1, <1>2 DEF TypeOK
<1> QED  BY <1>2, <1>3, QuietKeeps

LEMMA TurnKeeps ==
  ASSUME IInv, NEW c \in Callers, Turn(c)
  PROVE  IInv'
<1>1. TypeOK /\ caller[c] \in CallerStates
  BY DEF IInv, TypeOK
<1>2. CASE TurnStarts(c) \/ RoundStarts(c) \/ TurnEnds(c)
  <2>1. Version(task) \in Versions \cup {None} /\ task \in Tasks \cup {None}
    BY <1>1 DEF TypeOK, Version, Versions, Tasks
  <2>2. PICK q \in CallerStates :
            /\ caller' = [caller EXCEPT ![c] = q]
            /\ q.shown \in {caller[c].shown, caller[c].current, task, None}
            /\ q.current \in {caller[c].shown, caller[c].current, task, None}
    <3>1. CASE TurnStarts(c)
      <4> DEFINE q == [FreshCaller EXCEPT !.pc = "round", !.first = Version(task),
                          !.used = Version(task), !.shown = task, !.current = task]
      <4>1. q \in CallerStates /\ q.shown = task /\ q.current = task
        BY <2>1 DEF FreshCaller, CallerStates
      <4> QED  BY <3>1, <4>1 DEF TurnStarts
    <3>2. CASE RoundStarts(c)
      <4> DEFINE q == [caller[c] EXCEPT !.used = caller[c].first, !.shown = caller[c].current,
                                        !.stale = FALSE]
      <4>1. q \in CallerStates /\ q.shown = caller[c].current /\ q.current = caller[c].current
        BY <1>1 DEF CallerStates
      <4>2. caller' = [caller EXCEPT ![c] = q]
        BY <1>1, <3>2 DEF RoundStarts, CallerStates, TypeOK
      <4> QED  BY <4>1, <4>2
    <3>3. CASE TurnEnds(c)
      <4>1. FreshCaller \in CallerStates /\ FreshCaller.shown = None /\ FreshCaller.current = None
        BY DEF FreshCaller, CallerStates
      <4> QED  BY <3>3, <4>1 DEF TurnEnds
    <3> QED  BY <1>2, <3>1, <3>2, <3>3
  <2>3. UNCHANGED <<task, binding, run, note, owed, up, created, crashes>>
    BY <1>2 DEF TurnStarts, RoundStarts, TurnEnds
  <2>4. TypeOK'
    BY <1>1, <2>2, <2>3 DEF TypeOK
  <2>5. \A d \in Callers : caller'[d] = IF d = c THEN q ELSE caller[d]
    BY <1>1, <2>2 DEF TypeOK
  <2> QED  BY <2>2, <2>3, <2>4, <2>5, QuietKeeps
<1>3. CASE Looks(c)
  BY <1>1, <1>3, RefusedKeeps DEF Looks, TypeOK
<1> QED  BY <1>2, <1>3 DEF Turn

-----------------------------------------------------------------------------
(* Steps of the task *)

\* A step is set in order: the earlier ones are completed, and none that is
\* completed is begun again.
LEMMA StepSet ==
  ASSUME TypeOK, StepsInOrder, task # None, NEW k \in Steps, NEW status \in Statuses,
         Settable(task, k, status), Stored(WithStep(k, status))
  PROVE  /\ StepsInOrder'
         /\ task' \in Tasks \cup {None}
         /\ task' # None => /\ task'.generation = task.generation
                            /\ task'.revision = task.revision + 1
<1>1. /\ task \in Tasks /\ task.revision \in Nat /\ task.steps \in [Steps -> Statuses]
  BY TaskFields
<1> DEFINE new == WithStep(k, status)
<1>2. /\ new \in Tasks /\ new.generation = task.generation /\ new.revision = task.revision + 1
      /\ new.steps = [task.steps EXCEPT ![k] = status]
  <2> DEFINE steps == [task.steps EXCEPT ![k] = status]
  <2>1. steps \in [Steps -> Statuses]
    BY <1>1
  <2>2. new = [[task EXCEPT !.steps = steps] EXCEPT !.revision = task.revision + 1]
    BY <1>1 DEF WithStep, Tasks
  <2>3. new = [generation |-> task.generation, revision |-> task.revision + 1, steps |-> steps]
    BY <1>1, <2>2 DEF Tasks
  <2> QED  BY <1>1, <2>1, <2>3 DEF Tasks
<1>3. ASSUME NEW j \in Steps, new.steps[j] # "pending" PROVE PreviousCompleted(new, j)
  <2>1. \A i \in 1..(j - 1) : i \in Steps
    BY DEF Steps
  <2>2. CASE task.steps[k] = "completed"
    <3>1. new.steps = task.steps
      BY <1>1, <1>2, <2>2 DEF Settable
    <3> QED  BY <1>3, <3>1 DEF StepsInOrder, PreviousCompleted
  <2>3. CASE task.steps[k] # "completed" /\ j = k
    BY <1>1, <1>2, <2>1, <2>3 DEF Settable, PreviousCompleted, Steps
  <2>4. CASE task.steps[k] # "completed" /\ j # k
    <3>1. PreviousCompleted(task, j)
      BY <1>1, <1>2, <1>3, <2>4 DEF StepsInOrder
    <3>2. k \notin 1..(j - 1)
      BY <2>4, <3>1 DEF PreviousCompleted
    <3> QED  BY <1>1, <1>2, <2>1, <3>1, <3>2 DEF PreviousCompleted
  <2> QED  BY <2>2, <2>3, <2>4
<1>4. task' = IF AllStepsCompleted(new) THEN None ELSE new
  BY DEF Stored
<1>5. task' # None => task' = new /\ ~AllStepsCompleted(new)
  BY <1>4
<1> HIDE DEF new
<1>6. StepsInOrder'
  BY <1>3, <1>5 DEF StepsInOrder, AllStepsCompleted, PreviousCompleted
<1> QED  BY <1>2, <1>4, <1>6

\* The end of a run moves the step it owns and lets it go.
LEMMA ReleasedKeeps ==
  ASSUME TypeOK, LedgerInv, NEW r \in Runs, NEW status \in Finished, Released(r, status),
         run' = [run EXCEPT ![r] = status]
  PROVE  /\ LedgerInv'
         /\ task' \in Tasks \cup {None} /\ binding' \in Bindings \cup {None}
         /\ \/ task' = task
            \/ task' # None => /\ task # None /\ task'.generation = task.generation
                               /\ task'.revision = task.revision + 1
<1>1. CASE binding # None /\ binding.run = r
  <2>1. /\ task # None /\ task.generation = binding.generation
        /\ task.steps[binding.step] # "completed" /\ PreviousCompleted(task, binding.step)
        /\ binding.step \in Steps
    BY <1>1 DEF LedgerInv, BindingMatches, TypeOK, Bindings
  <2> DEFINE next == NextStatus(status, task.steps[binding.step])
  <2>2. next \in Statuses
    BY <2>1, TaskFields DEF NextStatus, Statuses, Finished
  <2>3. binding' = None /\ Stored(WithStep(binding.step, next))
    BY <1>1, <2>1 DEF Released
  <2>4. Settable(task, binding.step, next)
    BY <2>1 DEF Settable
  <2> HIDE DEF next
  <2>5. /\ StepsInOrder'
        /\ task' \in Tasks \cup {None}
        /\ task' # None => task'.generation = task.generation /\ task'.revision = task.revision + 1
    BY <2>1, <2>2, <2>3, <2>4, StepSet DEF LedgerInv
  <2> QED  BY <2>1, <2>3, <2>5 DEF LedgerInv, BindingMatches
<1>2. CASE ~(binding # None /\ binding.run = r)
  <2>1. task' = task /\ binding' = binding
    BY <1>2 DEF Released
  <2>2. binding # None => binding.run \in Runs /\ run'[binding.run] = run[binding.run]
    BY <1>2 DEF TypeOK, Bindings
  <2> QED  BY <2>1, <2>2 DEF TypeOK, LedgerInv, StepsInOrder, BindingMatches, AllStepsCompleted, PreviousCompleted
<1> QED  BY <1>1, <1>2

LEMMA EndKeeps ==
  ASSUME IInv, NEW r \in Runs, NEW status \in Finished, Released(r, status),
         run' = [run EXCEPT ![r] = status], owed' \subseteq Notifying,
         UNCHANGED <<caller, note, up, created, crashes>>
  PROVE  IInv'
<1>1. /\ LedgerInv'
      /\ task' \in Tasks \cup {None} /\ binding' \in Bindings \cup {None}
      /\ \/ task' = task
         \/ task' # None => /\ task # None /\ task'.generation = task.generation
                            /\ task'.revision = task.revision + 1
  BY ReleasedKeeps DEF IInv
<1>2. TypeOK'
  BY <1>1 DEF IInv, TypeOK
<1>3. Remembered'
  <2>1. CASE task' = task
    BY <2>1 DEF IInv, Remembered, Earlier
  <2>2. CASE task' # None => /\ task # None /\ task'.generation = task.generation
                             /\ task'.revision = task.revision + 1
    BY <1>2, <2>2, MovedKeeps
  <2> QED  BY <1>1, <2>1, <2>2
<1> QED  BY <1>1, <1>2, <1>3 DEF IInv

-----------------------------------------------------------------------------
(* Steps of the callers *)

LEMMA LedgerKeeps ==
  ASSUME IInv, NEW c \in Callers, Ledger(c)
  PROVE  IInv'
<1>1. TypeOK /\ LedgerInv /\ caller[c] \in CallerStates
  BY DEF IInv, TypeOK
<1>2. CASE CreateTask(c)
  <2>1. /\ task = None /\ task' = Inserted /\ created' = created + 1 /\ created < MaxTasks
        /\ Refreshed(c, Inserted, FALSE) /\ UNCHANGED <<binding, run, note, owed, up, crashes>>
    BY <1>2 DEF CreateTask
  <2>2. /\ Inserted \in Tasks /\ Inserted.generation = created' /\ Inserted.revision = 0
        /\ Inserted.steps = [k \in Steps |-> "pending"]
    BY <1>1, <2>1 DEF Inserted, Tasks, TypeOK, Statuses
  <2>3. /\ caller' \in [Callers -> CallerStates]
        /\ \A d \in Callers : /\ caller'[d].shown = caller[d].shown
                              /\ caller'[d].current \in {caller[d].current, task'}
    BY <1>1, <2>1, <2>2, RefreshedKeeps
  <2>4. TypeOK'
    BY <1>1, <2>1, <2>2, <2>3 DEF TypeOK
  <2>5. LedgerInv'
    <3>1. binding' = None
      BY <1>1, <2>1 DEF LedgerInv, BindingMatches
    <3>2. 1 \in Steps
      BY DEF Steps
    <3> QED  BY <2>1, <2>2, <3>1, <3>2 DEF LedgerInv, StepsInOrder, BindingMatches, AllStepsCompleted
  <2>6. ASSUME NEW d \in Callers PROVE (Earlier(caller[d].shown) /\ Earlier(caller[d].current))'
    <3>1. Earlier(caller[d].shown) /\ Earlier(caller[d].current)
      BY DEF IInv, Remembered
    <3>2. /\ caller[d].shown # None => caller[d].shown.generation \in Nat
          /\ caller[d].current # None => caller[d].current.generation \in Nat
          /\ created \in Nat
      BY <1>1 DEF TypeOK, CallerStates, Tasks
    <3> QED  BY <2>1, <2>2, <2>3, <3>1, <3>2 DEF Earlier
  <2>7. (task # None => task.generation = created)'
    BY <2>1, <2>2
  <2> QED  BY <2>4, <2>5, <2>6, <2>7 DEF IInv, Remembered
<1>3. ASSUME NEW k \in Steps, NEW status \in {"blocked", "completed"}, SetTaskStep(c, k, status)
      PROVE IInv'
  <2>1. /\ task # None /\ binding = None /\ Settable(task, k, status)
        /\ Stored(WithStep(k, status)) /\ Refreshed(c, task', FALSE)
        /\ UNCHANGED <<binding, run, note, owed, up, created, crashes>>
    BY <1>3 DEF SetTaskStep, SetAllowed, RequireVersion, EnsureNoActiveBinding
  <2>2. /\ StepsInOrder'
        /\ task' \in Tasks \cup {None}
        /\ task' # None => /\ task'.generation = task.generation
                           /\ task'.revision = task.revision + 1
    BY <1>1, <2>1, StepSet DEF LedgerInv, Statuses
  <2>3. /\ caller' \in [Callers -> CallerStates]
        /\ \A d \in Callers : /\ caller'[d].shown = caller[d].shown
                              /\ caller'[d].current \in {caller[d].current, task'}
    BY <1>1, <2>1, <2>2, RefreshedKeeps
  <2>4. TypeOK'
    BY <1>1, <2>1, <2>2, <2>3 DEF TypeOK
  <2>5. LedgerInv'
    BY <2>1, <2>2 DEF LedgerInv, BindingMatches
  <2>6. Remembered'
    BY <2>1, <2>2, <2>3, <2>4, MovedKeeps
  <2> QED  BY <2>4, <2>5, <2>6 DEF IInv
<1>4. CASE CancelTask(c)
  <2>1. /\ task' = None /\ binding' = None /\ UNCHANGED <<run, note, owed, up, created, crashes>>
    BY <1>4 DEF CancelTask
  <2>2. /\ caller' \in [Callers -> CallerStates]
        /\ \A d \in Callers : /\ caller'[d].shown = caller[d].shown
                              /\ caller'[d].current \in {caller[d].current, None}
    <3>1. CASE RunToStop = None
      BY <1>1, <1>4, <3>1, RefreshedKeeps DEF CancelTask
    <3>2. CASE RunToStop # None
      <4> DEFINE q == [caller[c] EXCEPT !.pc = "stopping", !.stop = RunToStop, !.stale = FALSE]
      <4>1. caller' = [caller EXCEPT ![c] = q]
        BY <1>1, <1>4, <3>2 DEF CancelTask, TypeOK, CallerStates
      <4>2. RunToStop \in Runs
        BY <1>1, <3>2 DEF RunToStop, BoundRun, TypeOK, Bindings
      <4>3. q \in CallerStates /\ q.shown = caller[c].shown /\ q.current = caller[c].current
        BY <1>1, <4>2 DEF CallerStates
      <4> QED  BY <1>1, <4>1, <4>3 DEF TypeOK
    <3> QED  BY <3>1, <3>2
  <2>3. TypeOK'
    BY <1>1, <2>1, <2>2 DEF TypeOK
  <2>4. LedgerInv'
    BY <2>1 DEF LedgerInv, StepsInOrder, BindingMatches
  <2>5. Remembered'
    BY <2>1, <2>2, <2>3, MovedKeeps
  <2> QED  BY <2>3, <2>4, <2>5 DEF IInv
<1>5. CASE CancelStopsIt(c)
  <2>1. /\ Refreshed(c, task, FALSE) /\ UNCHANGED <<task, binding, note, owed, up, created, crashes>>
        /\ run' = [run EXCEPT ![caller[c].stop] = IF @ = "running" THEN "stopping" ELSE @]
    BY <1>5 DEF CancelStopsIt
  <2>2. /\ run' \in [Runs -> Active \cup Finished \cup {"none"}]
        /\ \A r \in Runs : run[r] \in Active => run'[r] \in Active
    BY <1>1, <2>1 DEF TypeOK, Active
  <2> QED  BY <1>1, <2>1, <2>2, RefusedKeeps DEF TypeOK
<1>6. ASSUME Refused(c) PROVE IInv'
  BY <1>1, <1>6, RefusedKeeps DEF Refused, TypeOK
<1> QED  BY <1>2, <1>3, <1>4, <1>5, <1>6
         DEF Ledger, CreateRefused, VersionMissing, CancelRefused, SetRefused

LEMMA BoundKeeps ==
  ASSUME IInv, Planning, NEW c \in Callers, Bound(c)
  PROVE  IInv'
<1>1. TypeOK /\ LedgerInv /\ caller[c] \in CallerStates
  BY DEF IInv, TypeOK
<1>2. ASSUME NEW k \in Steps, Prepare(c, k) PROVE IInv'
  <2>1. /\ task # None /\ UNCHANGED <<task, binding, run, note, owed, up, created, crashes>>
        /\ caller' = [caller EXCEPT ![c].pc = "binding",
                         ![c].plan = [generation |-> task.generation, revision |-> task.revision, step |-> k]]
    BY <1>2 DEF Prepare, Bindable, RequireVersion
  <2> DEFINE chosen == [generation |-> task.generation, revision |-> task.revision, step |-> k]
             q == [caller[c] EXCEPT !.pc = "binding", !.plan = chosen]
  <2>2. chosen \in Plans
    BY <1>1, <2>1, TaskFields DEF Plans
  <2>3. caller' = [caller EXCEPT ![c] = q]
    BY <1>1, <2>1 DEF TypeOK, CallerStates
  <2>4. q \in CallerStates /\ q.shown = caller[c].shown /\ q.current = caller[c].current
    BY <1>1, <2>2 DEF CallerStates
  <2> HIDE DEF q
  <2>5. TypeOK'
    <3>1. caller' \in [Callers -> CallerStates]
      BY <1>1, <2>3, <2>4 DEF TypeOK
    <3> QED  BY <1>1, <2>1, <3>1 DEF TypeOK
  <2>6. \A d \in Callers : /\ caller'[d].shown = caller[d].shown
                           /\ caller'[d].current = caller[d].current
    BY <1>1, <2>3, <2>4 DEF TypeOK
  <2> QED  BY <2>1, <2>5, <2>6, QuietKeeps
<1>3. ASSUME NEW r \in Runs, CreateBoundRun(c, r) PROVE IInv'
  <2>1. /\ run[r] = "none" /\ run' = [run EXCEPT ![r] = "running"]
        /\ Bindable(Planned(c), caller[c].plan.step)
        /\ binding' = [run |-> r, generation |-> task.generation, step |-> caller[c].plan.step]
        /\ UNCHANGED <<task, note, owed, up, created, crashes>>
    BY <1>3 DEF CreateBoundRun
  <2>2. /\ caller[c].pc = "binding" /\ task # None /\ binding = None
        /\ PreviousCompleted(task, caller[c].plan.step) /\ task.steps[caller[c].plan.step] # "completed"
    BY <1>3 DEF CreateBoundRun, Bindable, RequireVersion, EnsureNoActiveBinding
  <2>3. caller[c].plan \in Plans => IInv'
    <3> SUFFICES ASSUME caller[c].plan.step \in Steps PROVE IInv'
      BY DEF Plans
    <3>1. /\ caller' \in [Callers -> CallerStates]
          /\ \A d \in Callers : /\ caller'[d].shown = caller[d].shown
                                /\ caller'[d].current \in {caller[d].current, task}
      <4>1. CASE Refreshed(c, task, FALSE)
        BY <1>1, <4>1, RefreshedKeeps DEF TypeOK
      <4>2. CASE caller' = [caller EXCEPT ![c].pc = "waiting", ![c].stop = r, ![c].plan = None]
        <5> DEFINE q == [caller[c] EXCEPT !.pc = "waiting", !.stop = r, !.plan = None]
        <5>1. caller' = [caller EXCEPT ![c] = q]
          BY <1>1, <4>2 DEF TypeOK, CallerStates
        <5>2. q \in CallerStates /\ q.shown = caller[c].shown /\ q.current = caller[c].current
          BY <1>1 DEF CallerStates
        <5> QED  BY <1>1, <5>1, <5>2 DEF TypeOK
      <4> QED  BY <1>3, <4>1, <4>2 DEF CreateBoundRun
    <3>2. binding' \in Bindings
      BY <1>1, <2>1, <2>2, TaskFields DEF Bindings
    <3>3. TypeOK'
      BY <1>1, <2>1, <3>1, <3>2 DEF TypeOK, Active
    <3>4. LedgerInv'
      <4>1. run'[r] \in Active
        BY <1>1, <2>1 DEF TypeOK, Active
      <4> QED  BY <1>1, <2>1, <2>2, <4>1
               DEF LedgerInv, StepsInOrder, BindingMatches, AllStepsCompleted, PreviousCompleted
    <3>5. Remembered'
      <4>1. Earlier(task)
        BY <1>1, <2>2, TaskFields DEF IInv, Remembered, Earlier
      <4> QED  BY <2>1, <3>1, <4>1 DEF IInv, Remembered, Earlier
    <3> QED  BY <3>3, <3>4, <3>5 DEF IInv
  <2> QED  BY <1>1, <2>2, <2>3 DEF Planning, CallerStates
<1>4. ASSUME Refreshed(c, task, FALSE), UNCHANGED <<task, binding, run, note, owed, up, created, crashes>>
      PROVE IInv'
  BY <1>1, <1>4, RefusedKeeps DEF TypeOK
<1>5. ASSUME NEW k \in Steps, PrepareRefused(c, k) PROVE IInv'
  BY <1>1, <1>5, RefusedKeeps DEF PrepareRefused, Refused, TypeOK
<1> QED  BY <1>2, <1>3, <1>4, <1>5 DEF Bound, BindRefused, CommandAnswered

\* Only Prepare leads into a binding.
LEMMA PlanningKeeps ==
  ASSUME TypeOK, Planning, Next
  PROVE  Planning'
<1>1. ASSUME NEW c \in Callers, NEW t, NEW stale, Refreshed(c, t, stale) PROVE Planning'
  BY <1>1 DEF TypeOK, Planning, Refreshed, CallerStates
<1>2. ASSUME NEW c \in Callers, Turn(c) PROVE Planning'
  <2>1. CASE TurnStarts(c)
    BY <2>1 DEF TurnStarts, FreshCaller, TypeOK, Planning
  <2>2. CASE RoundStarts(c)
    BY <2>2 DEF RoundStarts, TypeOK, Planning, CallerStates
  <2>3. CASE TurnEnds(c)
    BY <2>3 DEF TurnEnds, FreshCaller, TypeOK, Planning
  <2> QED  BY <1>1, <1>2, <2>1, <2>2, <2>3 DEF Turn, Looks
<1>3. ASSUME NEW c \in Callers, Ledger(c) PROVE Planning'
  <2>1. CASE CancelTask(c) /\ RunToStop # None
    BY <2>1 DEF CancelTask, TypeOK, Planning, CallerStates
  <2> QED  BY <1>1, <1>3, <2>1 DEF Ledger, CreateTask, SetTaskStep, CancelTask, CancelStopsIt,
              CreateRefused, VersionMissing, CancelRefused, SetRefused, Refused
<1>4. ASSUME NEW c \in Callers, Bound(c) PROVE Planning'
  <2>1. ASSUME NEW k \in Steps, Prepare(c, k) PROVE Planning'
    <3> DEFINE chosen == [generation |-> task.generation, revision |-> task.revision, step |-> k]
    <3>1. chosen # None
      <4>1. task # None
        BY <2>1 DEF Prepare, Bindable, RequireVersion
      <4> QED  BY <4>1, TaskFields DEF Plans
    <3>2. caller' = [caller EXCEPT ![c].pc = "binding", ![c].plan = chosen]
      BY <2>1 DEF Prepare
    <3> HIDE DEF chosen
    <3> QED  BY <3>1, <3>2 DEF TypeOK, Planning, CallerStates
  <2>2. ASSUME NEW r \in Runs, CreateBoundRun(c, r) PROVE Planning'
    <3>1. CASE caller' = [caller EXCEPT ![c].pc = "waiting", ![c].stop = r, ![c].plan = None]
      BY <3>1 DEF TypeOK, Planning, CallerStates
    <3> QED  BY <1>1, <2>2, <3>1 DEF CreateBoundRun
  <2> QED  BY <1>1, <1>4, <2>1, <2>2 DEF Bound, PrepareRefused, BindRefused, CommandAnswered, Refused
<1>5. CASE Crash
  BY <1>5 DEF Crash, FreshCaller, Planning
<1>6. ASSUME NEW r \in Runs, Ends(r) \/ Notification(r) \/ Interrupt(r) PROVE Planning'
  BY <1>6 DEF Ends, FinishRun, RequestStop, Notification, NotifyFinished, CreateNotification,
              BindNotification, DeleteNotification, Interrupt, Planning
<1>7. CASE Restart
  BY <1>7 DEF Restart, Planning
<1> QED  BY <1>2, <1>3, <1>4, <1>5, <1>6, <1>7 DEF Next

-----------------------------------------------------------------------------
(* The inductive invariant *)

LEMMA EndsKeeps ==
  ASSUME IInv, NEW r \in Runs, Ends(r) \/ Notification(r) \/ Interrupt(r)
  PROVE  IInv'
<1>1. ASSUME NEW status \in Finished, FinishRun(r, status) PROVE IInv'
  BY <1>1, EndKeeps DEF FinishRun, IInv, TypeOK
<1>2. CASE RequestStop(r)
  <2>1. TypeOK'
    BY <1>2 DEF RequestStop, IInv, TypeOK, Active
  <2>2. \A q \in Runs : run[q] \in Active => run'[q] \in Active
    BY <1>2 DEF RequestStop, IInv, TypeOK, Active
  <2> QED  BY <1>2, <2>1, <2>2, QuietKeeps DEF RequestStop
<1>3. CASE Notification(r)
  <2>1. TypeOK'
    <3>1. note' \in [Runs -> {"none", "unbound", "bound", "delivery_cancelled"}] /\ owed' \subseteq Notifying
      BY <1>3 DEF Notification, NotifyFinished, CreateNotification, BindNotification,
                  DeleteNotification, UpsertedNote, IInv, TypeOK
    <3> QED  BY <1>3, <3>1 DEF Notification, NotifyFinished, CreateNotification, BindNotification,
                  DeleteNotification, IInv, TypeOK
  <2> QED  BY <1>3, <2>1, QuietKeeps DEF Notification, NotifyFinished, CreateNotification,
              BindNotification, DeleteNotification
<1>4. CASE Interrupt(r)
  BY <1>4, EndKeeps DEF Interrupt, IInv, TypeOK, Finished
<1> QED  BY <1>1, <1>2, <1>3, <1>4 DEF Ends

LEMMA RestartKeeps ==
  ASSUME IInv, Crash \/ Restart
  PROVE  IInv'
<1>1. FreshCaller \in CallerStates /\ FreshCaller.shown = None /\ FreshCaller.current = None
  BY DEF FreshCaller, CallerStates
<1>2. TypeOK'
  <2>1. CASE Crash
    <3>1. caller' \in [Callers -> CallerStates] /\ crashes' \in 0..MaxCrashes
      BY <1>1, <2>1 DEF Crash, IInv, TypeOK
    <3> QED  BY <2>1, <3>1 DEF Crash, IInv, TypeOK
  <2>2. CASE Restart
    BY <2>2 DEF Restart, IInv, TypeOK
  <2> QED  BY <2>1, <2>2
<1> QED  BY <1>1, <1>2, QuietKeeps DEF Crash, Restart

LEMMA Invariance == Spec => [](IInv /\ Planning)
<1>1. Init => IInv /\ Planning
  <2> SUFFICES ASSUME Init PROVE IInv /\ Planning
    OBVIOUS
  <2>1. FreshCaller \in CallerStates /\ FreshCaller.shown = None /\ FreshCaller.current = None
        /\ FreshCaller.pc = "idle"
    BY DEF FreshCaller, CallerStates
  <2>2. TypeOK /\ Planning
    BY <2>1 DEF Init, TypeOK, Planning
  <2>3. LedgerInv /\ Remembered
    BY <2>1 DEF Init, LedgerInv, StepsInOrder, BindingMatches, Remembered, Earlier
  <2> QED  BY <2>2, <2>3 DEF IInv
<1>2. IInv /\ Planning /\ [Next]_vars => (IInv /\ Planning)'
  <2> SUFFICES ASSUME IInv, Planning, [Next]_vars PROVE IInv' /\ Planning'
    OBVIOUS
  <2>1. CASE Next
    <3>1. Planning'
      BY <2>1, PlanningKeeps DEF IInv
    <3>2. IInv'
      BY <2>1, TurnKeeps, LedgerKeeps, BoundKeeps, EndsKeeps, RestartKeeps DEF Next
    <3> QED  BY <3>1, <3>2
  <2>2. CASE UNCHANGED vars
    <3>1. TypeOK' /\ Planning'
      BY <2>2 DEF vars, IInv, TypeOK, Planning
    <3> QED  BY <2>2, <3>1, QuietKeeps DEF vars
  <2> QED  BY <2>1, <2>2
<1> QED  BY <1>1, <1>2, PTL DEF Spec

\* The rows of the ledger have their types, and every turn and client knows a
\* task, a version or nothing (task_repository.py).
THEOREM TypeCorrect == Spec => []TypeOK
<1>1. IInv => TypeOK
  BY DEF IInv
<1> QED  BY <1>1, Invariance, PTL

\* Whoever changes the steps of a task, by hand, through runs or by a restart,
\* they are begun in order, a task whose steps are completed is gone, and a bound
\* run is active and owns an unfinished step of the task (update_task_step,
\* finish_run_binding_in_connection, create_run with a binding).
THEOREM LedgerIsConsistent == Spec => []LedgerInv
<1>1. IInv => LedgerInv
  BY DEF IInv
<1> QED  BY <1>1, Invariance, PTL

\* The version of a task names one state of its steps: a model that was shown the
\* current version has seen the current steps, so that the check of the version is
\* enough to refuse a call that was made on stale grounds (_require_version).
THEOREM VersionIsEnough == Spec => []SeenIsCurrent
<1>1. IInv => SeenIsCurrent
  <2> SUFFICES ASSUME IInv, NEW c \in Turns, caller[c].shown # None,
                      Version(caller[c].shown) = Version(task)
               PROVE  caller[c].shown.steps = task.steps
    BY DEF SeenIsCurrent
  <2>1. c \in Callers
    BY DEF Callers
  <2>2. caller[c].shown \in Tasks /\ Earlier(caller[c].shown)
    BY <2>1 DEF IInv, TypeOK, CallerStates, Remembered
  <2>3. Version(caller[c].shown) \in Versions
    BY <2>2 DEF Version, Versions, Tasks
  <2>4. task # None
    BY <2>3 DEF Version
  <2>5. caller[c].shown.generation = task.generation /\ caller[c].shown.revision = task.revision
    BY <2>4 DEF Version
  <2> QED  BY <2>2, <2>4, <2>5 DEF Earlier
<1> QED  BY <1>1, Invariance, PTL

-----------------------------------------------------------------------------
(* Plan sessions *)


Modes == {Unset, "plan", "modify_only"}
Actions == {"answer", "approve", "reject"}

PlanRows == [status: {"none", "active", "awaiting_question", "awaiting_approval", "approved"},
          question: CallIds \cup {Unset}, exit: CallIds \cup {Unset}, previous: Modes]
ToolCalls == [node: Nodes \cup {Unset}, kind: {Unset, "question", "exit"},
              result: {"none", "awaiting"} \cup Actions, decision: {Unset} \cup Actions]
TurnStates == [pc: {"new", "idle", "created", "running", "blocked", "saved"}, mode: Modes, waiting: SUBSET CallIds]
UserStates == [pc: {"idle", "starting", "reading"}, node: Nodes \cup {Unset}, mode: Modes]

PlanTypeOK ==
    /\ plan \in [Ids -> PlanRows] /\ plans \in 0..MaxPlans
    /\ calls \in [CallIds -> ToolCalls] /\ asked \in 0..MaxCalls
    /\ turn \in [Nodes -> TurnStates]
    /\ user \in [Users -> UserStates]
    /\ planCrashes \in 0..MaxPlanCrashes

OneIsOpen ==
    /\ \A p, q \in OpenPlans : p = q
    /\ \A p \in OpenPlans : p <= plans

\* The call is there, it is of the kind, and nobody has decided it.
IsAwaited(k, kind) == k \in 1..asked /\ calls[k].kind = kind /\ calls[k].decision = Unset

WhatIsAwaited ==
    \A p \in Ids :
        /\ plan[p].status = "awaiting_question" => IsAwaited(plan[p].question, "question")
        /\ plan[p].status = "awaiting_approval" => IsAwaited(plan[p].exit, "exit")

\* Nobody has decided a call that was not made.
MadeFirst == \A k \in CallIds : calls[k].decision # Unset => k <= asked

PlanInv == PlanTypeOK /\ OneIsOpen /\ WhatIsAwaited /\ MadeFirst

-----------------------------------------------------------------------------
(* Helpers *)

LEMMA CurrentIsOpen ==
  ASSUME PlanInv
  PROVE  /\ Current = Unset <=> OpenPlans = {}
         /\ Current # Unset => Current \in OpenPlans /\ OpenPlans = {Current} /\ Current \in Ids /\ Current <= plans
<1>1. OpenPlans \subseteq Ids /\ Unset \notin OpenPlans
  BY PlanLedgerAssumption DEF OpenPlans, Ids
<1>2. CASE OpenPlans = {}
  BY <1>2 DEF Current
<1>3. ASSUME NEW p \in OpenPlans
      PROVE  Current = p /\ OpenPlans = {p} /\ p \in Ids /\ p <= plans /\ p # Unset
  <2>1. OpenPlans = {p} /\ p <= plans
    BY <1>3 DEF PlanInv, OneIsOpen
  <2>2. p \in Nat
    BY <1>1, <1>3, PlanLedgerAssumption DEF Ids
  <2>3. \A q \in OpenPlans : q <= p
    BY <2>1, <2>2
  <2>4. Current \in OpenPlans
    BY <1>3, <2>1, <2>3 DEF Current
  <2> QED  BY <1>1, <1>3, <2>1, <2>4
<1> QED  BY <1>2, <1>3

\* The steps of turns and users that touch neither plans nor calls
LEMMA OthersKeep ==
  ASSUME PlanInv, UNCHANGED <<plan, calls, plans, asked>>,
         turn' \in [Nodes -> TurnStates], user' \in [Users -> UserStates], planCrashes' \in 0..MaxPlanCrashes
  PROVE  PlanInv'
<1>1. PlanTypeOK'
  BY DEF PlanInv, PlanTypeOK
<1>2. OneIsOpen' /\ WhatIsAwaited' /\ MadeFirst'
  BY DEF PlanInv, OneIsOpen, WhatIsAwaited, MadeFirst, IsAwaited, OpenPlans
<1> QED  BY <1>1, <1>2 DEF PlanInv

LEMMA FreshStates ==
  /\ FreshTurn \in TurnStates /\ NewTurn \in TurnStates /\ FreshUser \in UserStates
  /\ \A mode \in Modes, pc \in {"running", "created"} :
        [FreshTurn EXCEPT !.pc = pc, !.mode = mode] \in TurnStates
  BY DEF FreshTurn, NewTurn, FreshUser, TurnStates, UserStates, Modes

LEMMA TurnFields ==
  ASSUME NEW t \in TurnStates
  PROVE  /\ t.mode \in Modes /\ t.waiting \in SUBSET CallIds
         /\ \A pc \in {"running", "saved"} : [t EXCEPT !.pc = pc] \in TurnStates
         /\ \A pc \in {"saved", "blocked"}, w \in SUBSET CallIds : [t EXCEPT !.pc = pc, !.waiting = w] \in TurnStates
         /\ [t EXCEPT !.mode = "plan"] \in TurnStates
         /\ Closed(t) \in TurnStates
<1>1. t.mode \in Modes /\ t.waiting \in SUBSET CallIds
  BY DEF TurnStates
<1>2. /\ \A pc \in {"running", "saved"} : [t EXCEPT !.pc = pc] \in TurnStates
      /\ \A pc \in {"saved", "blocked"}, w \in SUBSET CallIds : [t EXCEPT !.pc = pc, !.waiting = w] \in TurnStates
  BY DEF TurnStates
<1>3. [t EXCEPT !.mode = "plan"] \in TurnStates
  BY DEF TurnStates, Modes
<1>4. Closed(t) \in TurnStates
  BY FreshStates DEF Closed
<1> QED  BY <1>1, <1>2, <1>3, <1>4

-----------------------------------------------------------------------------
(* The steps *)

LEMMA QuietTurnKeeps ==
  ASSUME PlanInv, NEW n \in Nodes, StartTurn(n) \/ RunEnds(n)
  PROVE  PlanInv'
<1>1. turn' \in [Nodes -> TurnStates]
  BY FreshStates DEF PlanInv, PlanTypeOK, StartTurn, RunEnds, Modes
<1>2. user' \in [Users -> UserStates]
  BY FreshStates DEF PlanInv, PlanTypeOK, StartTurn, RunEnds
<1>3. planCrashes' \in 0..MaxPlanCrashes /\ UNCHANGED <<plan, calls, plans, asked>>
  BY DEF PlanInv, PlanTypeOK, StartTurn, RunEnds
<1> QED  BY <1>1, <1>2, <1>3, OthersKeep

LEMMA QuietUserKeeps ==
  ASSUME PlanInv, NEW u \in Users,
         StartContinuation(u) \/ ContinuationRefused(u) \/ ContinuationRuns(u) \/ Leave(u)
  PROVE  PlanInv'
<1>1. turn \in [Nodes -> TurnStates] /\ user \in [Users -> UserStates] /\ user[u].mode \in Modes
  BY DEF PlanInv, PlanTypeOK, UserStates
<1>2. turn' \in [Nodes -> TurnStates]
  <2> DEFINE n == user[u].node
  <2>1. CASE StartContinuation(u)
    BY <1>1, <2>1, FreshStates DEF StartContinuation
  <2>2. CASE ContinuationRefused(u)
    BY <1>1, <2>2 DEF ContinuationRefused
  <2>3. CASE ContinuationRuns(u)
    <3>1. n \in Nodes => [turn[n] EXCEPT !.pc = "running"] \in TurnStates
      BY <1>1, TurnFields
    <3> QED  BY <1>1, <2>3, <3>1 DEF ContinuationRuns
  <2>4. CASE Leave(u)
    <3>1. n \in Nodes => Closed(turn[n]) \in TurnStates
      BY <1>1, TurnFields
    <3> QED  BY <1>1, <2>4, <3>1 DEF Leave
  <2> QED  BY <2>1, <2>2, <2>3, <2>4
<1>3. user' \in [Users -> UserStates]
  <2>1. [user[u] EXCEPT !.pc = "reading"] \in UserStates
    BY <1>1 DEF UserStates
  <2> QED  BY <1>1, <2>1, FreshStates DEF StartContinuation, ContinuationRefused, ContinuationRuns, Leave
<1>4. planCrashes' \in 0..MaxPlanCrashes /\ UNCHANGED <<plan, calls, plans, asked>>
  BY DEF PlanInv, PlanTypeOK, StartContinuation, ContinuationRefused, ContinuationRuns, Leave
<1> QED  BY <1>2, <1>3, <1>4, OthersKeep

LEMMA CrashKeeps ==
  ASSUME PlanInv, PlanCrash
  PROVE  PlanInv'
<1>1. turn' \in [Nodes -> TurnStates] /\ user' \in [Users -> UserStates]
  BY FreshStates DEF PlanInv, PlanTypeOK, PlanCrash
<1>2. planCrashes' \in 0..MaxPlanCrashes /\ UNCHANGED <<plan, calls, plans, asked>>
  BY PlanLedgerAssumption DEF PlanInv, PlanTypeOK, PlanCrash
<1> QED  BY <1>1, <1>2, OthersKeep

\* A turn that enters plan mode opens a session only when none is open.
LEMMA EnterKeeps ==
  ASSUME PlanInv, NEW n \in Nodes, EnterPlanMode(n)
  PROVE  PlanInv'
<1>1. PlanTypeOK /\ turn[n] \in TurnStates /\ turn[n].mode \in Modes
  BY TurnFields DEF PlanInv, PlanTypeOK
<1>2. turn' \in [Nodes -> TurnStates] /\ UNCHANGED <<calls, user, asked, planCrashes>>
  BY <1>1, TurnFields DEF EnterPlanMode, PlanTypeOK
<1>3. CASE UNCHANGED <<plan, plans>>
  BY <1>1, <1>2, <1>3, OthersKeep DEF PlanTypeOK
<1>4. CASE ~UNCHANGED <<plan, plans>>
  <2> DEFINE new == [NoPlan EXCEPT !.status = "active", !.previous = turn[n].mode]
  <2>1. /\ ~(Entered <= plans) /\ Entered <= MaxPlans /\ plans' = Entered
        /\ plan' = [plan EXCEPT ![Entered] = new]
    BY <1>4 DEF EnterPlanMode
  <2>2. OpenPlans = {} /\ Entered = plans + 1
    BY <2>1, CurrentIsOpen DEF Entered
  <2>3. Entered \in Ids /\ plans' \in 0..MaxPlans /\ new \in PlanRows /\ new.status = "active"
    <3>1. Entered \in Ids /\ plans' \in 0..MaxPlans
      BY <1>1, <2>1, <2>2, PlanLedgerAssumption DEF Ids, PlanTypeOK
    <3>2. new \in PlanRows /\ new.status = "active"
      BY <1>1 DEF NoPlan, PlanRows
    <3> QED  BY <3>1, <3>2
  <2>4. plan' \in [Ids -> PlanRows] /\ plan'[Entered] = new /\ \A p \in Ids \ {Entered} : plan'[p] = plan[p]
    BY <1>1, <2>1, <2>3 DEF PlanTypeOK
  <2>5. PlanTypeOK'
    BY <1>1, <1>2, <2>3, <2>4 DEF PlanTypeOK
  <2>6. OpenPlans' \subseteq {plans'}
    BY <2>1, <2>2, <2>4 DEF OpenPlans
  <2>7. OneIsOpen'
    BY <2>5, <2>6 DEF OneIsOpen, PlanTypeOK
  <2>8. WhatIsAwaited' /\ MadeFirst'
    <3>1. MadeFirst'
      BY <1>2 DEF PlanInv, MadeFirst
    <3>2. ASSUME NEW p \in Ids
          PROVE  /\ plan'[p].status = "awaiting_question" => IsAwaited(plan[p].question, "question")'
                 /\ plan'[p].status = "awaiting_approval" => IsAwaited(plan[p].exit, "exit")'
      <4>1. CASE p = Entered
        BY <2>3, <2>4, <4>1
      <4>2. CASE p # Entered
        <5>1. plan'[p] = plan[p]
          BY <2>4, <4>2
        <5> QED  BY <1>2, <5>1 DEF PlanInv, WhatIsAwaited, IsAwaited
      <4> QED  BY <4>1, <4>2
    <3> QED  BY <3>1, <3>2 DEF WhatIsAwaited
  <2> QED  BY <2>5, <2>7, <2>8 DEF PlanInv
<1> QED  BY <1>3, <1>4

\* A call for the open session takes the place of the one it waits for.
LEMMA AskKeeps ==
  ASSUME PlanInv, NEW n \in Nodes, AskUserQuestion(n) \/ ExitPlanMode(n)
  PROVE  PlanInv' /\ \A k \in CallIds : calls[k].decision # Unset => calls'[k] = calls[k]
<1> DEFINE k == asked + 1
<1>1. PlanTypeOK /\ turn[n] \in TurnStates
  BY DEF PlanInv, PlanTypeOK
<1>2. Current \in OpenPlans /\ OpenPlans = {Current} /\ Current \in Ids /\ Current <= plans
  BY CurrentIsOpen DEF AskUserQuestion, ExitPlanMode
<1>3. k \in CallIds /\ asked' = k /\ k \in 0..MaxCalls /\ UNCHANGED <<user, plans, planCrashes>>
  BY <1>1, PlanLedgerAssumption DEF AskUserQuestion, ExitPlanMode, CallIds, PlanTypeOK
<1>4. turn' \in [Nodes -> TurnStates]
  <2>1. turn[n].waiting \cup {k} \in SUBSET CallIds
    BY <1>1, <1>3, TurnFields
  <2>2. [turn[n] EXCEPT !.pc = "blocked", !.waiting = turn[n].waiting \cup {k}] \in TurnStates
    BY <1>1, <2>1, TurnFields
  <2> QED  BY <1>1, <2>2 DEF AskUserQuestion, ExitPlanMode, PlanTypeOK
<1>5. PICK kind \in {"question", "exit"} :
         /\ calls' = [calls EXCEPT ![k] = Call(n, kind)]
         /\ IF kind = "question"
            THEN plan' = [plan EXCEPT ![Current].status = "awaiting_question", ![Current].question = k]
            ELSE plan' = [plan EXCEPT ![Current].status = "awaiting_approval", ![Current].exit = k]
  BY DEF AskUserQuestion, ExitPlanMode
<1>6. /\ calls' \in [CallIds -> ToolCalls] /\ calls'[k].kind = kind /\ calls'[k].decision = Unset
      /\ \A j \in CallIds \ {k} : calls'[j] = calls[j]
  <2>1. Call(n, kind) \in ToolCalls /\ Call(n, kind).kind = kind /\ Call(n, kind).decision = Unset
    BY DEF Call, Undecided, ToolCalls
  <2> QED  BY <1>1, <1>3, <1>5, <2>1 DEF PlanTypeOK
<1>7. /\ plan' \in [Ids -> PlanRows] /\ \A p \in Ids \ {Current} : plan'[p] = plan[p]
      /\ plan'[Current].status \in Open
      /\ plan'[Current].status = "awaiting_question" => kind = "question" /\ plan'[Current].question = k
      /\ plan'[Current].status = "awaiting_approval" => kind = "exit" /\ plan'[Current].exit = k
  <2>1. plan[Current] \in PlanRows /\ plan \in [Ids -> PlanRows]
    BY <1>1, <1>2 DEF PlanTypeOK
  <2>2. CASE kind = "question"
    <3> DEFINE q == [plan[Current] EXCEPT !.status = "awaiting_question", !.question = k]
    <3>1. q \in PlanRows /\ q.status = "awaiting_question" /\ q.question = k
      BY <1>3, <2>1 DEF PlanRows
    <3>2. plan' = [plan EXCEPT ![Current] = q]
      BY <1>2, <1>5, <2>1, <2>2
    <3> QED  BY <1>2, <2>1, <2>2, <3>1, <3>2 DEF Open
  <2>3. CASE kind = "exit"
    <3> DEFINE q == [plan[Current] EXCEPT !.status = "awaiting_approval", !.exit = k]
    <3>1. q \in PlanRows /\ q.status = "awaiting_approval" /\ q.exit = k
      BY <1>3, <2>1 DEF PlanRows
    <3>2. plan' = [plan EXCEPT ![Current] = q]
      BY <1>2, <1>5, <2>1, <2>3
    <3> QED  BY <1>2, <2>1, <2>3, <3>1, <3>2 DEF Open
  <2> QED  BY <2>2, <2>3
<1>8. PlanTypeOK'
  BY <1>1, <1>3, <1>4, <1>6, <1>7 DEF PlanTypeOK
<1>9. OpenPlans' = {Current}
  BY <1>2, <1>7 DEF OpenPlans
<1>10. OneIsOpen'
  BY <1>2, <1>3, <1>9 DEF OneIsOpen
<1>11. WhatIsAwaited'
  <2> SUFFICES ASSUME NEW p \in Ids
               PROVE  /\ plan'[p].status = "awaiting_question" => IsAwaited(plan[p].question, "question")'
                      /\ plan'[p].status = "awaiting_approval" => IsAwaited(plan[p].exit, "exit")'
    BY DEF WhatIsAwaited
  <2>1. CASE p = Current
    BY <1>1, <1>3, <1>6, <1>7, <2>1 DEF IsAwaited, PlanTypeOK
  <2>2. CASE p # Current
    <3>1. plan'[p].status \notin {"awaiting_question", "awaiting_approval"}
      BY <1>2, <1>7, <2>2 DEF OpenPlans, Open
    <3> QED  BY <3>1
  <2> QED  BY <2>1, <2>2
<1>12. ASSUME NEW j \in CallIds, calls[j].decision # Unset PROVE j # k /\ j <= asked /\ calls'[j] = calls[j]
  BY <1>1, <1>6, <1>12 DEF PlanInv, MadeFirst, PlanTypeOK, CallIds
<1>13. MadeFirst'
  BY <1>1, <1>3, <1>6 DEF PlanInv, MadeFirst, PlanTypeOK, CallIds
<1> QED  BY <1>8, <1>10, <1>11, <1>12, <1>13 DEF PlanInv

LEMMA FinalizeKeeps ==
  ASSUME PlanInv, NEW n \in Nodes, Finalize(n)
  PROVE  PlanInv' /\ \A k \in CallIds : calls'[k].decision = calls[k].decision /\ calls'[k].kind = calls[k].kind
<1>1. PlanTypeOK /\ turn[n] \in TurnStates
  BY DEF PlanInv, PlanTypeOK
<1>2. \A t \in ToolCalls : LET s == [t EXCEPT !.result = "awaiting"]
                           IN  s \in ToolCalls /\ s.decision = t.decision /\ s.kind = t.kind
  BY DEF ToolCalls
<1>3. calls' \in [CallIds -> ToolCalls]
      /\ \A k \in CallIds : calls'[k].decision = calls[k].decision /\ calls'[k].kind = calls[k].kind
  BY <1>1, <1>2 DEF Finalize, Persisted, PlanTypeOK
<1>4. turn' \in [Nodes -> TurnStates]
  BY <1>1, TurnFields DEF Finalize, PlanTypeOK
<1>5. PlanTypeOK'
  BY <1>1, <1>3, <1>4 DEF PlanTypeOK, Finalize
<1>6. OneIsOpen' /\ MadeFirst'
  BY <1>3 DEF PlanInv, OneIsOpen, MadeFirst, OpenPlans, Finalize
<1>7. WhatIsAwaited'
  <2>1. UNCHANGED <<plan, asked>> /\ 1..asked \subseteq CallIds
    BY <1>1, PlanLedgerAssumption DEF Finalize, PlanTypeOK, CallIds
  <2>2. ASSUME NEW k, NEW kind, IsAwaited(k, kind)
        PROVE  k \in 1..asked' /\ calls'[k].kind = kind /\ calls'[k].decision = Unset
    BY <1>3, <2>1, <2>2 DEF IsAwaited
  <2> QED  BY <2>1, <2>2 DEF PlanInv, WhatIsAwaited, IsAwaited
<1> QED  BY <1>3, <1>5, <1>6, <1>7 DEF PlanInv

\* A decision is about the call that the session waits for, and ends the waiting.
LEMMA DecideKeeps ==
  ASSUME PlanInv, NEW u \in Users, NEW p \in Ids, NEW action \in Actions, Decide(u, p, action)
  PROVE  PlanInv' /\ \A k \in CallIds : calls[k].decision # Unset => calls'[k] = calls[k]
<1> DEFINE k == Awaited(p, action)
<1>1. PlanTypeOK /\ plan[p] \in PlanRows
  BY DEF PlanInv, PlanTypeOK
<1>2. k \in 1..asked /\ k \in CallIds /\ calls[k] \in ToolCalls /\ calls[k].decision = Unset
  <2>1. 1..asked \subseteq CallIds /\ calls \in [CallIds -> ToolCalls]
    BY <1>1, PlanLedgerAssumption DEF PlanTypeOK, CallIds
  <2>2. CASE action = "answer"
    BY <2>1, <2>2 DEF PlanInv, WhatIsAwaited, IsAwaited, Awaited, Decide, Decidable
  <2>3. CASE action # "answer"
    BY <2>1, <2>3 DEF PlanInv, WhatIsAwaited, IsAwaited, Awaited, Decide, Decidable
  <2> QED  BY <2>2, <2>3
<1>3. p \in OpenPlans
  BY DEF Decide, Decidable, OpenPlans, Open
<1>4. calls' \in [CallIds -> ToolCalls] /\ (\A j \in CallIds \ {k} : calls'[j] = calls[j])
  <2>1. [calls[k] EXCEPT !.result = action, !.decision = action] \in ToolCalls
    BY <1>2 DEF ToolCalls
  <2>2. calls' = [calls EXCEPT ![k] = [calls[k] EXCEPT !.result = action, !.decision = action]]
    BY <1>1, <1>2 DEF Decide, PlanTypeOK
  <2> QED  BY <1>1, <1>2, <2>1, <2>2 DEF PlanTypeOK
<1>5. /\ plan' \in [Ids -> PlanRows] /\ (\A q \in Ids \ {p} : plan'[q] = plan[q])
      /\ plan'[p].status \in {"active", "approved"}
  <2>1. \A t \in PlanRows : /\ [t EXCEPT !.status = "active", !.question = Unset] \in PlanRows
                         /\ [t EXCEPT !.status = "approved"] \in PlanRows
                         /\ [t EXCEPT !.status = "active", !.exit = Unset] \in PlanRows
    BY DEF PlanRows
  <2>2. PICK q \in PlanRows : plan' = [plan EXCEPT ![p] = q] /\ q.status \in {"active", "approved"}
    <3>1. CASE action = "answer"
      <4>1. plan' = [plan EXCEPT ![p] = [plan[p] EXCEPT !.status = "active", !.question = Unset]]
        BY <1>1, <3>1 DEF Decide, Answered, PlanTypeOK
      <4> QED  BY <1>1, <2>1, <4>1 DEF PlanRows
    <3>2. CASE action = "approve"
      <4>1. plan' = [plan EXCEPT ![p] = [plan[p] EXCEPT !.status = "approved"]]
        BY <1>1, <3>2 DEF Decide, Approved, PlanTypeOK
      <4> QED  BY <1>1, <2>1, <4>1 DEF PlanRows
    <3>3. CASE action = "reject"
      <4>1. plan' = [plan EXCEPT ![p] = [plan[p] EXCEPT !.status = "active", !.exit = Unset]]
        BY <1>1, <3>3 DEF Decide, Rejected, PlanTypeOK
      <4> QED  BY <1>1, <2>1, <4>1 DEF PlanRows
    <3> QED  BY <3>1, <3>2, <3>3 DEF Actions
  <2> QED  BY <1>1, <2>2 DEF PlanTypeOK
<1>6. user' \in [Users -> UserStates]
  <2>1. calls[k].node \in Nodes \cup {Unset} /\ plan[p].previous \in Modes
    BY <1>1, <1>2 DEF ToolCalls, PlanRows
  <2> QED  BY <1>1, <2>1 DEF Decide, PlanTypeOK, UserStates, Modes
<1>7. PlanTypeOK' /\ UNCHANGED <<plans, asked>>
  BY <1>1, <1>4, <1>5, <1>6 DEF PlanTypeOK, Decide
<1>8. OpenPlans' \subseteq OpenPlans
  BY <1>3, <1>5 DEF OpenPlans
<1>9. OneIsOpen'
  BY <1>7, <1>8 DEF PlanInv, OneIsOpen
<1>10. WhatIsAwaited'
  <2> SUFFICES ASSUME NEW q \in Ids, plan'[q].status \in {"awaiting_question", "awaiting_approval"} PROVE FALSE
    BY DEF WhatIsAwaited
  <2>1. q # p /\ q \in OpenPlans
    BY <1>5 DEF OpenPlans, Open
  <2> QED  BY <1>3, <2>1 DEF PlanInv, OneIsOpen
<1>11. MadeFirst'
  BY <1>1, <1>2, <1>4, <1>7 DEF PlanInv, MadeFirst, PlanTypeOK, CallIds
<1> QED  BY <1>2, <1>4, <1>7, <1>9, <1>10, <1>11 DEF PlanInv

-----------------------------------------------------------------------------
(* The theorems *)

\* A decision of a user stays: no later decision and no turn that asks, submits
\* or saves its results takes it back or gives it to another call
\* (answer_question, approve_plan and reject_plan of PlanLedger,
\* persist_tool_metadata).
DecidedOnce ==
    [][\A k \in CallIds : calls[k].decision # Unset =>
           calls'[k].decision = calls[k].decision /\ calls'[k].kind = calls[k].kind]_vars

LEMMA PlanInvStarts == PlanInit => PlanInv
<1> SUFFICES ASSUME PlanInit PROVE PlanInv
  OBVIOUS
<1>1. PlanTypeOK
  <2>1. NoPlan \in PlanRows /\ Undecided \in ToolCalls
    BY DEF NoPlan, PlanRows, Undecided, ToolCalls, Modes
  <2>2. plans \in 0..MaxPlans /\ asked \in 0..MaxCalls /\ planCrashes \in 0..MaxPlanCrashes
    BY PlanLedgerAssumption DEF PlanInit
  <2> QED  BY <2>1, <2>2, FreshStates DEF PlanInit, PlanTypeOK
<1>2. OneIsOpen /\ WhatIsAwaited /\ MadeFirst
  BY DEF PlanInit, OneIsOpen, WhatIsAwaited, MadeFirst, OpenPlans, Open, NoPlan, Undecided
<1> QED  BY <1>1, <1>2 DEF PlanInv

LEMMA PlanInvStep ==
  ASSUME PlanInv, [PlanNext]_planVars
  PROVE  /\ PlanInv'
         /\ \A k \in CallIds : calls[k].decision # Unset =>
                calls'[k].decision = calls[k].decision /\ calls'[k].kind = calls[k].kind
<1>1. ASSUME NEW n \in Nodes, PlanTurn(n)
      PROVE  /\ PlanInv'
             /\ \A k \in CallIds : calls[k].decision # Unset =>
                    calls'[k].decision = calls[k].decision /\ calls'[k].kind = calls[k].kind
  <2>1. CASE StartTurn(n) \/ RunEnds(n)
    BY <2>1, QuietTurnKeeps DEF StartTurn, RunEnds
  <2>2. CASE EnterPlanMode(n)
    BY <2>2, EnterKeeps DEF EnterPlanMode
  <2>3. CASE AskUserQuestion(n) \/ ExitPlanMode(n)
    BY <2>3, AskKeeps
  <2>4. CASE Finalize(n)
    BY <2>4, FinalizeKeeps
  <2> QED  BY <1>1, <2>1, <2>2, <2>3, <2>4 DEF PlanTurn
<1>2. ASSUME NEW u \in Users, User(u)
      PROVE  /\ PlanInv'
             /\ \A k \in CallIds : calls[k].decision # Unset =>
                    calls'[k].decision = calls[k].decision /\ calls'[k].kind = calls[k].kind
  <2>1. CASE StartContinuation(u) \/ ContinuationRefused(u) \/ ContinuationRuns(u) \/ Leave(u)
    BY <2>1, QuietUserKeeps DEF StartContinuation, ContinuationRefused, ContinuationRuns, Leave
  <2>2. ASSUME NEW p \in Ids, NEW action \in Actions, Decide(u, p, action)
        PROVE  /\ PlanInv'
               /\ \A k \in CallIds : calls[k].decision # Unset => calls'[k] = calls[k]
    BY <2>2, DecideKeeps
  <2> QED  BY <1>2, <2>1, <2>2 DEF User, Actions
<1>3. CASE PlanCrash
  BY <1>3, CrashKeeps DEF PlanCrash
<1>4. CASE UNCHANGED planVars
  <2>1. PlanInv'
    BY <1>4, OthersKeep DEF planVars, PlanInv, PlanTypeOK
  <2> QED  BY <1>4, <2>1 DEF planVars
<1> QED  BY <1>1, <1>2, <1>3, <1>4 DEF PlanNext

LEMMA PlanInvariance ==
  PlanSpec => []PlanInv
<1>1. PlanInv /\ [PlanNext]_planVars => PlanInv'
  BY PlanInvStep
<1>2. PlanInit => PlanInv
  BY PlanInvStarts
<1> QED  BY <1>1, <1>2, PTL DEF PlanSpec

\* A conversation has one open plan, and what it waits for is a call of its kind
\* that nobody has decided, whatever turns on different branches do and whoever
\* decides (get_active_or_awaiting, enter_plan_mode, the plan routes).
THEOREM OneCallIsAwaited ==
  PlanSpec => []OnePlanAwaitsOneCall
<1>1. ASSUME PlanInv PROVE OnePlanAwaitsOneCall
  <2>1. Cardinality(OpenPlans) <= 1
    <3>1. CASE OpenPlans = {}
      BY <3>1, FS_EmptySet
    <3>2. ASSUME NEW p \in OpenPlans PROVE Cardinality(OpenPlans) = 1
      <4>1. OpenPlans = {p}
        BY <1>1 DEF PlanInv, OneIsOpen
      <4> QED  BY <4>1, FS_Singleton
    <3> QED  BY <3>1, <3>2
  <2>2. ASSUME NEW k, NEW kind, IsAwaited(k, kind) PROVE k # Unset /\ calls[k].kind = kind /\ calls[k].decision = Unset
    BY <2>2, PlanLedgerAssumption DEF IsAwaited
  <2> QED  BY <1>1, <2>1, <2>2 DEF PlanInv, WhatIsAwaited, OnePlanAwaitsOneCall
<1> QED  BY <1>1, PlanInvariance, PTL

\* A user's decision is final: two users who answer, approve and reject at the
\* same time, turns that ask again and planCrashes never undo it or decide a call
\* twice (answer_plan_question, approve_plan and reject_plan of the routes,
\* persist_tool_metadata).
THEOREM DecisionsAreFinal ==
  PlanSpec => DecidedOnce
<1> DEFINE Kept == \A k \in CallIds : calls[k].decision # Unset =>
                      calls'[k].decision = calls[k].decision /\ calls'[k].kind = calls[k].kind
<1>1. PlanInv /\ [PlanNext]_planVars => [Kept]_vars
  BY PlanInvStep
<1> QED  BY <1>1, PlanInvariance, PTL DEF PlanSpec, DecidedOnce

=============================================================================
