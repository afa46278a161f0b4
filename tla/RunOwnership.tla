---------------------------- MODULE RunOwnership ----------------------------
(***************************************************************************)
(* Who answers for a run while it is active: the coordinator of idempotent *)
(* starts from the reservation to the registration of a producer           *)
(* (backend/core/runs/start_service.py), the registry of producers from    *)
(* there to the terminal status (backend/core/runs/producer_registry.py),  *)
(* and both of them in the shutdown of the server (src/main.py).           *)
(*                                                                         *)
(* Everything runs on one event loop.  A step is what a task does between  *)
(* two suspensions; a cancellation is delivered at the next step of the    *)
(* task it is sent to.  finish_run, which never suspends, is one step with *)
(* the outcomes it has in RunEventLog: the row is final and memory says so,*)
(* or an I/O error leaves both as they were, or only the row final.        *)
(*                                                                         *)
(* A run started under an idempotency key stands for the key.  Of the reads *)
(* those that look for the run of a key may fail, those that ask whether a *)
(* run is final do not.  Errors while create_run makes a run without a key *)
(* are left to RunEventLog.                                                *)
(***************************************************************************)
EXTENDS Naturals, FiniteSets

CONSTANTS
    KeyRuns,        \* the runs started under an idempotency key, by key
    OtherRuns,      \* the runs a producer makes with create_run
    Requests,       \* requests to start a run
    KeyOf,          \* the run of the key of each request
    FingerprintOf,  \* the fingerprint of each request
    Continues,      \* TRUE: a chat producer may continue a failed run in another one
    MaxFaults       \* bound: I/O errors

Runs == KeyRuns \cup OtherRuns

ASSUME RunOwnershipAssumption ==
    /\ KeyRuns \cap OtherRuns = {}
    /\ KeyOf \in [Requests -> KeyRuns]
    /\ DOMAIN FingerprintOf = Requests
    /\ Continues \in BOOLEAN
    /\ MaxFaults \in Nat
    /\ "none" \notin Requests /\ "none" \notin Runs

VARIABLES
    row,            \* SQLite: the status of each run
    settled,        \* the runs whose record in memory has a final status
    fingerprint,    \* SQLite: the request that reserved each run, "none" before
    (* RunStartCoordinator *)
    at,             \* where each request is
    follows,        \* the request that owns the barrier a request waits on
    failure,        \* what a request that finishes its run will raise
    cancelled,      \* requests whose task was cancelled and has not noticed
    answer,         \* what each request returned or raised
    unscheduled,    \* _pending_terminalizations of the coordinator
    finishing,      \* shielded finish_run tasks, by what they were made for
    (* ProducerRegistry *)
    producer,       \* the task registered for each run
    killed,         \* the runs whose task was cancelled
    continuation,   \* the run a producer continues its own in
    unfinished,     \* _pending_terminalizations of the registry
    terminalizer,   \* the finish_run task registered for each run
    (* the rest *)
    phase,          \* the shutdown
    tracked,        \* what the current drain waits for
    launched,       \* number of producers each run has had
    faults

starts    == <<at, follows, failure, cancelled, answer, unscheduled, finishing>>
producers == <<producer, killed, continuation, unfinished, terminalizer, launched>>
rows      == <<row, settled, fingerprint>>
shutdown  == <<phase, tracked>>
vars      == <<rows, starts, producers, shutdown, faults>>

Phases == {"serving", "starts_draining", "starts_retrying", "commands_closing",
           "producers_draining", "terminalizers_draining", "producers_retrying",
           "closed", "incomplete"}

StartsClosing    == phase # "serving"
ProducersClosing == phase \notin {"serving", "starts_draining", "starts_retrying"}

-----------------------------------------------------------------------------
(* Helpers *)

Fault == faults < MaxFaults /\ faults' = faults + 1

Final(r) == row[r] = "final"

\* finish_run: nothing to do for a record that is final, otherwise the
\* repository's transaction and then the record.
Finish(r) ==
    \/ /\ row' = [row EXCEPT ![r] = "final"]
       /\ settled' = settled \cup {r}
       /\ UNCHANGED faults
    \/ /\ r \notin settled
       /\ Fault
       /\ row' \in {row, [row EXCEPT ![r] = "final"]}
       /\ UNCHANGED settled

InBootstrap == {"interrupting", "bootstrapping", "terminalizing"}
InTask      == {"created", "waiting"} \cup InBootstrap

\* The request whose barrier is up for the key of r.
Owners(r) == {q \in Requests : KeyOf[q] = r /\ at[q] \in InBootstrap}

Answered(q, a) ==
    /\ at' = [at EXCEPT ![q] = "done"]
    /\ answer' = [answer EXCEPT ![q] = a]

Waits(q, where) ==
    \E o \in Owners(KeyOf[q]) :
        /\ at' = [at EXCEPT ![q] = where]
        /\ follows' = [follows EXCEPT ![q] = o]
        /\ UNCHANGED answer

\* mutated form: a start that was not scheduled is not made up for
ExistingAnsweredUnsettled(q, unread) ==
    /\ Answered(q, IF fingerprint[KeyOf[q]] # FingerprintOf[q] THEN "conflict" ELSE "run")
    /\ UNCHANGED <<row, settled, unscheduled, faults>>

\* The run of the key exists: a conflict, or after _settle_pending_terminalization
\* the run.  It is read before and after; unread is what a failing read becomes.
ExistingAnswered(q, unread) ==
    LET r == KeyOf[q]
    IN  \/ Fault /\ Answered(q, unread) /\ UNCHANGED <<row, settled, unscheduled>>
        \/ /\ fingerprint[r] # FingerprintOf[q]
           /\ Answered(q, "conflict") /\ UNCHANGED <<row, settled, unscheduled, faults>>
        \/ /\ fingerprint[r] = FingerprintOf[q] /\ r \notin unscheduled
           /\ Answered(q, "run") /\ UNCHANGED <<row, settled, unscheduled, faults>>
        \/ /\ fingerprint[r] = FingerprintOf[q] /\ r \in unscheduled
           /\ Finish(r)
           /\ unscheduled' = IF row'[r] = "final" THEN unscheduled \ {r} ELSE unscheduled
           /\ Answered(q, IF row'[r] = "final" THEN "run" ELSE "scheduling_error")
        \/ /\ fingerprint[r] = FingerprintOf[q] /\ r \in unscheduled
           /\ Fault /\ Answered(q, unread)
           /\ row' = [row EXCEPT ![r] = "final"]
           /\ settled' = settled \cup {r} /\ unscheduled' = unscheduled \ {r}

-----------------------------------------------------------------------------
Init ==
    /\ row = [r \in Runs |-> "absent"]
    /\ settled = {}
    /\ fingerprint = [r \in Runs |-> "none"]
    /\ at = [q \in Requests |-> "none"]
    /\ follows = [q \in Requests |-> "none"]
    /\ failure = [q \in Requests |-> "none"]
    /\ cancelled = {}
    /\ answer = [q \in Requests |-> "none"]
    /\ unscheduled = {}
    /\ finishing = {}
    /\ producer = [r \in Runs |-> "none"]
    /\ killed = {}
    /\ continuation = [r \in Runs |-> "none"]
    /\ unfinished = {}
    /\ terminalizer = [r \in Runs |-> "none"]
    /\ phase = "serving"
    /\ tracked = {}
    /\ launched = [r \in Runs |-> 0]
    /\ faults = 0

(* RunStartCoordinator *)

\* start: _ensure_open does not look whether the key has a run.
Start(q) ==
    /\ at[q] = "none"
    /\ IF StartsClosing THEN Answered(q, "reservation_error")
       ELSE at' = [at EXCEPT ![q] = "created"] /\ UNCHANGED answer
    /\ UNCHANGED <<rows, follows, failure, cancelled, unscheduled, finishing,
                   producers, shutdown, faults>>

\* replay_existing: one turn of its loop; without a run of the key the caller
\* goes on to start.
ReplayExisting(q) ==
    /\ at[q] \in {"none", "asking"} /\ follows[q] = "none"
    /\ IF StartsClosing
       THEN Answered(q, "reservation_error") /\ UNCHANGED <<row, settled, follows, unscheduled, faults>>
       ELSE IF Owners(KeyOf[q]) # {}
       THEN Waits(q, "asking") /\ UNCHANGED <<row, settled, unscheduled, faults>>
       ELSE IF row[KeyOf[q]] # "absent"
       THEN ExistingAnswered(q, "read_error") /\ UNCHANGED follows
       ELSE /\ \/ at' = [at EXCEPT ![q] = "created"] /\ UNCHANGED <<answer, faults>>
               \/ Fault /\ Answered(q, "read_error")
            /\ UNCHANGED <<row, settled, follows, unscheduled>>
    /\ UNCHANGED <<fingerprint, failure, cancelled, finishing, producers, shutdown>>

\* reserve_or_get_run of a key without a run: done, failed before the commit of
\* the row, or failed after it, when a shielded task interrupts the run.
Reserve(q) ==
    LET r == KeyOf[q]
        Committed == /\ row' = [row EXCEPT ![r] = "active"]
                     /\ fingerprint' = [fingerprint EXCEPT ![r] = FingerprintOf[q]]
    IN  \/ /\ Committed
           /\ at' = [at EXCEPT ![q] = "bootstrapping"]
           /\ UNCHANGED <<answer, finishing, faults>>
        \/ /\ Fault
           /\ Answered(q, "reservation_error")
           /\ UNCHANGED <<row, fingerprint, finishing>>
        \/ /\ Fault
           /\ Committed
           /\ at' = [at EXCEPT ![q] = "interrupting"]
           /\ finishing' = finishing \cup {<<"reservation", r>>}
           /\ UNCHANGED answer

\* mutated form: neither the barriers nor the rows are asked for the key
StartOnceBlind(q) ==
    Reserve(q) /\ UNCHANGED <<settled, follows, unscheduled, cancelled>>

\* _start_once: the task of start, up to its first suspension
StartOnce(q) ==
    IF q \in cancelled
    THEN /\ Answered(q, "cancelled")
         /\ cancelled' = cancelled \ {q}
         /\ UNCHANGED <<rows, follows, unscheduled, finishing, faults>>
    ELSE /\ UNCHANGED cancelled
         /\ IF Owners(KeyOf[q]) # {}
            THEN Waits(q, "waiting") /\ UNCHANGED <<rows, unscheduled, finishing, faults>>
            ELSE IF row[KeyOf[q]] # "absent"
            THEN /\ ExistingAnswered(q, "reservation_error")
                 /\ UNCHANGED <<fingerprint, follows, finishing>>
            ELSE Reserve(q) /\ UNCHANGED <<settled, follows, unscheduled>>

RunStart(q) ==
    /\ at[q] = "created"
    /\ StartOnce(q)
    /\ UNCHANGED <<failure, producers, shutdown>>

\* The except clause of _bootstrap_owner: a shielded finish_run and what is
\* raised after it.
Terminalizing(q, error) ==
    /\ at' = [at EXCEPT ![q] = "terminalizing"]
    /\ failure' = [failure EXCEPT ![q] = error]
    /\ finishing' = finishing \cup {<<"start", KeyOf[q]>>}
    /\ cancelled' = cancelled \ {q}
    /\ UNCHANGED answer

\* The task that interrupts the reserved run is over, or the request is cancelled.
ReservationInterrupted(q) ==
    /\ at[q] = "interrupting"
    /\ \/ q \in cancelled /\ Terminalizing(q, "cancelled")
       \/ /\ q \notin cancelled /\ <<"reservation", KeyOf[q]>> \notin finishing
          /\ Terminalizing(q, "scheduling_error")
    /\ UNCHANGED <<rows, follows, unscheduled, producers, shutdown, faults>>

\* The bootstrap returns a producer and register takes it, or one of them
\* raises, or the request is cancelled.
Bootstrapped(q) ==
    LET r == KeyOf[q]
    IN  /\ at[q] = "bootstrapping"
        /\ \/ /\ q \in cancelled /\ Terminalizing(q, "cancelled")
              /\ UNCHANGED <<producer, launched>>
           \/ /\ q \notin cancelled /\ Terminalizing(q, "scheduling_error")
              /\ UNCHANGED <<producer, launched>>
           \/ /\ q \notin cancelled /\ ~ProducersClosing
              /\ producer' = [producer EXCEPT ![r] = "new"]
              /\ launched' = [launched EXCEPT ![r] = @ + 1]
              /\ Answered(q, "run")
              /\ UNCHANGED <<failure, finishing, cancelled>>
        /\ UNCHANGED <<rows, follows, unscheduled, killed, continuation, unfinished,
                       terminalizer, shutdown, faults>>

\* mutated form: the failed finish_run is logged and forgotten
UnscheduledForgotten(r) == unscheduled
Unscheduled(r) == IF Final(r) THEN unscheduled ELSE unscheduled \cup {r}

\* The shielded finish_run is over, or the request is cancelled while it is not.
Terminalized(q) ==
    /\ at[q] = "terminalizing"
    /\ q \in cancelled \/ <<"start", KeyOf[q]>> \notin finishing
    /\ unscheduled' = Unscheduled(KeyOf[q])
    /\ Answered(q, failure[q])
    /\ cancelled' = cancelled \ {q}
    /\ UNCHANGED <<rows, follows, failure, finishing, producers, shutdown, faults>>

\* mutated form: an owner that fails leaves its barrier up
AwakeOnSuccess(q) == q \in cancelled \/ answer[follows[q]] = "run"
Awake(q)          == q \in cancelled \/ at[follows[q]] = "done"

\* A request that waits for the owner of the barrier wakes up.  Its own request:
\* it raises what the owner raised, or reads the run again.  Another one: a
\* conflict, or it begins again and swallows what woke it.
Woken(q) ==
    LET o     == follows[q]
        again == IF at[q] = "waiting" THEN "created" ELSE "asking"
        same  == FingerprintOf[q] = FingerprintOf[o]
        good  == q \notin cancelled /\ answer[o] = "run"
    IN  /\ at[q] \in {"waiting", "asking"} /\ o # "none"
        /\ Awake(q)
        /\ cancelled' = cancelled \ {q}
        /\ \/ same /\ Answered(q, IF q \in cancelled THEN "cancelled" ELSE answer[o])
              /\ UNCHANGED <<follows, faults>>
           \/ same /\ good /\ Fault /\ Answered(q, "read_error") /\ UNCHANGED follows
           \/ ~ same /\ good /\ Answered(q, "conflict") /\ UNCHANGED <<follows, faults>>
           \/ /\ ~ same /\ ~ good
              /\ at' = [at EXCEPT ![q] = again]
              /\ follows' = [follows EXCEPT ![q] = "none"]
              /\ UNCHANGED <<answer, faults>>
        /\ UNCHANGED <<rows, failure, unscheduled, finishing, producers, shutdown>>

\* A shielded finish_run task runs; a retry of close looks at its result.
FinishTask(by, r) ==
    /\ <<by, r>> \in finishing
    /\ Finish(r)
    /\ finishing' = finishing \ {<<by, r>>}
    /\ unscheduled' = IF by = "retry" /\ row'[r] = "final" THEN unscheduled \ {r} ELSE unscheduled
    /\ UNCHANGED <<fingerprint, at, follows, failure, cancelled, answer, producers, shutdown>>

-----------------------------------------------------------------------------
(* ProducerRegistry and the producers *)

Live(r) == producer[r] \in {"new", "running", "continuing"}

ProducerRuns(r) ==
    /\ producer[r] = "new" /\ r \notin killed
    /\ producer' = [producer EXCEPT ![r] = "running"]
    /\ UNCHANGED <<rows, starts, killed, continuation, unfinished, terminalizer, launched,
                   shutdown, faults>>

\* A producer finishes its run and ends; one cancelled before its first step
\* ends without.
ProducerExits(r) ==
    /\ \/ producer[r] = "running" /\ Finish(r)
       \/ producer[r] = "new" /\ r \in killed /\ UNCHANGED <<row, settled, faults>>
    /\ producer' = [producer EXCEPT ![r] = "exited"]
    /\ UNCHANGED <<fingerprint, starts, killed, continuation, unfinished, terminalizer,
                   launched, shutdown>>

\* The task of one run continues it in another one, which nobody registers.
ProducerContinues(r, c) ==
    /\ Continues
    /\ producer[r] = "running" /\ r \notin killed
    /\ row[c] = "absent"
    /\ row' = [row EXCEPT ![r] = "final", ![c] = "active"]
    /\ settled' = settled \cup {r}
    /\ producer' = [producer EXCEPT ![r] = "continuing"]
    /\ continuation' = [continuation EXCEPT ![r] = c]
    /\ UNCHANGED <<fingerprint, starts, killed, unfinished, terminalizer, launched, shutdown, faults>>

ContinuationExits(r) ==
    /\ producer[r] = "continuing"
    /\ Finish(continuation[r])
    /\ producer' = [producer EXCEPT ![r] = "exited"]
    /\ continuation' = [continuation EXCEPT ![r] = "none"]
    /\ UNCHANGED <<fingerprint, starts, killed, unfinished, terminalizer, launched, shutdown>>

\* mutated form: only a task that raised, not one that was cancelled, is made up for
LeftOverUncancelled(S) == {r \in S : r \notin settled /\ r \notin killed}

\* The runs of S whose record is not final when their task is gone.
LeftOver(S) == S \ settled

Scheduled(S) ==
    [r \in Runs |-> IF r \in S THEN "scheduled" ELSE terminalizer[r]]

Done(S) ==
    /\ producer' = [r \in Runs |-> IF r \in S THEN "none" ELSE producer[r]]
    /\ unfinished' = unfinished \cup LeftOver(S)
    /\ terminalizer' = Scheduled(LeftOver(S))

\* _producer_done, the callback of a task that has ended
ProducerDone(r) ==
    /\ producer[r] = "exited"
    /\ Done({r})
    /\ UNCHANGED <<rows, starts, killed, continuation, launched, shutdown, faults>>

TerminalizerRuns(r) ==
    /\ terminalizer[r] = "scheduled"
    /\ Finish(r)
    /\ terminalizer' = [terminalizer EXCEPT ![r] = "done"]
    /\ UNCHANGED <<fingerprint, starts, producer, killed, continuation, unfinished, launched, shutdown>>

StillUnfinished(r) == IF Final(r) THEN unfinished \ {r} ELSE unfinished

\* _terminalizer_done
TerminalizerDone(r) ==
    /\ terminalizer[r] = "done"
    /\ terminalizer' = [terminalizer EXCEPT ![r] = "none"]
    /\ unfinished' = StillUnfinished(r)
    /\ UNCHANGED <<rows, starts, producer, killed, continuation, launched, shutdown, faults>>

\* A producer starts a run without a key (SubagentExecutor.start, WorkflowManager.start):
\* a closing registry refuses its task, and then terminalizes the run.
Spawn(p, r) ==
    /\ producer[p] = "running" /\ row[r] = "absent" /\ r \in OtherRuns
    /\ row' = [row EXCEPT ![r] = "active"]
    /\ IF ProducersClosing
       THEN /\ unfinished' = unfinished \cup {r}
            /\ terminalizer' = Scheduled({r})
            /\ UNCHANGED <<producer, launched>>
       ELSE /\ producer' = [producer EXCEPT ![r] = "new"]
            /\ launched' = [launched EXCEPT ![r] = @ + 1]
            /\ UNCHANGED <<unfinished, terminalizer>>
    /\ UNCHANGED <<settled, fingerprint, starts, killed, continuation, shutdown, faults>>

\* cancel, for a run a user stops
Cancel(r) ==
    /\ Live(r) /\ r \notin killed
    /\ killed' = killed \cup {r}
    /\ UNCHANGED <<rows, starts, producer, continuation, unfinished, terminalizer, launched,
                   shutdown, faults>>

-----------------------------------------------------------------------------
(* Shutdown: _close_server_resources closes the coordinator, the command     *)
(* executor, the registry and the run manager, and gives up at the first one *)
(* that reports something unresolved.  Each wait ends when its tasks are     *)
(* done or, at any moment, when the time is over.                            *)

NextPhase(unresolved, next) == phase' = IF unresolved = {} THEN next ELSE "incomplete"

\* _close_once of the coordinator
CloseStarts ==
    /\ phase = "serving"
    /\ phase' = "starts_draining"
    /\ tracked' = {q \in Requests : at[q] \in InTask}
    /\ cancelled' = cancelled \cup tracked'
    /\ UNCHANGED <<rows, at, follows, failure, answer, unscheduled, finishing, producers, faults>>

RetryStarts ==
    /\ phase = "starts_draining"
    /\ phase' = "starts_retrying"
    /\ finishing' = finishing \cup {<<"retry", r>> : r \in unscheduled}
    /\ UNCHANGED <<rows, at, follows, failure, cancelled, answer, unscheduled, producers, tracked, faults>>

UnresolvedStarts ==
    {q \in tracked : at[q] # "done"}
        \cup {r \in Runs : <<"retry", r>> \in finishing}
        \cup {r \in unscheduled : ~Final(r)}

\* The coordinator is closed; begin_close of the registry follows at once.
StartsClosed ==
    /\ phase = "starts_retrying"
    /\ unscheduled' = {r \in unscheduled : ~Final(r)}
    /\ NextPhase(UnresolvedStarts, "commands_closing")
    /\ killed' = IF UnresolvedStarts = {} THEN killed \cup {r \in Runs : Live(r)} ELSE killed
    /\ tracked' = {}
    /\ UNCHANGED <<rows, at, follows, failure, cancelled, answer, finishing,
                   producer, continuation, unfinished, terminalizer, launched, faults>>

\* The command executor is closed, or not; _close_once of the registry begins.
CommandsClosed ==
    /\ phase = "commands_closing"
    /\ phase' \in {"producers_draining", "incomplete"}
    /\ tracked' = {r \in Runs : producer[r] # "none"}
    /\ killed' = killed \cup {r \in Runs : Live(r)}
    /\ UNCHANGED <<rows, starts, producer, continuation, unfinished, terminalizer, launched, faults>>

ProducersDrained ==
    /\ phase = "producers_draining"
    /\ phase' = "terminalizers_draining"
    /\ Done({r \in Runs : r \in tracked /\ producer[r] = "exited"})
    /\ UNCHANGED <<rows, starts, killed, continuation, launched, tracked, faults>>

RetryProducers ==
    /\ phase = "terminalizers_draining"
    /\ phase' = "producers_retrying"
    /\ unfinished' = {r \in unfinished : ~Final(r)}
    /\ terminalizer' = Scheduled(unfinished')
    /\ UNCHANGED <<rows, starts, producer, killed, continuation, launched, tracked, faults>>

\* mutated form: a task that has not ended is not reported
UnresolvedProducersQuiet ==
    {r \in Runs : terminalizer[r] = "scheduled"} \cup {r \in unfinished : ~Final(r)}

UnresolvedProducers ==
    {r \in Runs : Live(r)}
        \cup {r \in Runs : terminalizer[r] = "scheduled"}
        \cup {r \in tracked : Live(r) \/ ~Final(r)}
        \cup {r \in unfinished : ~Final(r)}

\* The registry is closed, and after it the run manager.
ProducersClosed ==
    /\ phase = "producers_retrying"
    /\ NextPhase(UnresolvedProducers, "closed")
    /\ unfinished' = {r \in unfinished : ~Final(r)}
    /\ tracked' = {}
    /\ UNCHANGED <<rows, starts, producer, killed, continuation, terminalizer, launched, faults>>

-----------------------------------------------------------------------------
Request(q) ==
    RunStart(q) \/ ReservationInterrupted(q) \/ Bootstrapped(q) \/ Terminalized(q) \/ Woken(q)

Producer(r) ==
    \/ ProducerRuns(r) \/ ProducerExits(r) \/ ContinuationExits(r)
    \/ ProducerDone(r) \/ TerminalizerRuns(r) \/ TerminalizerDone(r)

Shutdown ==
    \/ CloseStarts \/ RetryStarts \/ StartsClosed \/ CommandsClosed
    \/ ProducersDrained \/ RetryProducers \/ ProducersClosed

FinishedBy == {"reservation", "start", "retry"}

\* The process ends with the shutdown.
Alive == phase \notin {"closed", "incomplete"}

Next ==
    /\ Alive
    /\ \/ \E q \in Requests : Start(q) \/ ReplayExisting(q) \/ Request(q)
       \/ \E r \in Runs :
            \/ Producer(r) \/ Cancel(r)
            \/ \E by \in FinishedBy : FinishTask(by, r)
            \/ \E c \in OtherRuns : ProducerContinues(r, c) \/ Spawn(r, c)
       \/ Shutdown

\* The event loop runs each task that is ready; a bootstrap and a producer come
\* to an end; a request that began to ask goes on.  The shutdown may stay away.
Fairness ==
    /\ \A q \in Requests :
        /\ WF_vars(Alive /\ Request(q))
        /\ WF_vars(Alive /\ at[q] = "asking" /\ ReplayExisting(q))
    /\ \A r \in Runs :
        /\ WF_vars(Alive /\ Producer(r))
        /\ \A by \in FinishedBy : WF_vars(Alive /\ FinishTask(by, r))

Spec == Init /\ [][Next]_vars /\ Fairness

-----------------------------------------------------------------------------
(* Properties *)

Answers == {"none", "run", "conflict", "reservation_error", "scheduling_error", "cancelled", "read_error"}

\* The type of the state of the coordinator, the registry and the rows.
TypeOK ==
    /\ row \in [Runs -> {"absent", "active", "final"}]
    /\ settled \subseteq Runs
    /\ fingerprint \in [Runs -> {"none"} \cup {FingerprintOf[q] : q \in Requests}]
    /\ at \in [Requests -> {"none", "asking", "done"} \cup InTask]
    /\ follows \in [Requests -> Requests \cup {"none"}]
    /\ \A q \in Requests : at[q] = "waiting" => follows[q] # "none"
    /\ failure \in [Requests -> Answers] /\ answer \in [Requests -> Answers]
    /\ cancelled \subseteq Requests
    /\ unscheduled \subseteq Runs /\ unfinished \subseteq Runs /\ killed \subseteq Runs
    /\ finishing \subseteq FinishedBy \X Runs
    /\ producer \in [Runs -> {"none", "new", "running", "continuing", "exited"}]
    /\ continuation \in [Runs -> Runs \cup {"none"}]
    /\ terminalizer \in [Runs -> {"none", "scheduled", "done"}]
    /\ phase \in Phases /\ tracked \subseteq Runs \cup Requests
    /\ launched \in [Runs -> Nat] /\ faults \in Nat

Owned(r) ==
    \/ Owners(r) # {}
    \/ r \in unscheduled \cup unfinished
    \/ \E by \in FinishedBy : <<by, r>> \in finishing
    \/ producer[r] # "none"
    \/ \E p \in Runs : producer[p] = "continuing" /\ continuation[p] = r

\* Whatever fails, is cancelled or shuts down, a run that SQLite shows active has
\* somebody who will finish it: a start, a task, or an entry of one of the two
\* _pending_terminalizations that close works off.
NoOrphan == \A r \in Runs : row[r] = "active" => Owned(r)

\* A shutdown that reports nothing unresolved, and so gives the home directory
\* back (main.py), leaves no run active and no producer at work.
CleanShutdown ==
    phase = "closed" => \A r \in Runs : row[r] # "active" /\ ~Live(r)

\* A request that comes upon a run of its key, which it has neither made nor waited
\* for, and is not let through to it: the coordinator is closing or a read fails.
\* It gets RunStartReservationError, too, although the docstring of the error
\* (start_service.py:41) says that no run was committed.
Unadmitted(q) ==
    /\ row[KeyOf[q]] # "absent" /\ at[q] \notin InBootstrap /\ follows[q] = "none"
    /\ StartsClosing \/ faults' > faults

\* A request that is answered with a run can rely on it: the run is final or its
\* producer has been handed to the registry; a waiter never overtakes the owner.
\* RunStartReservationError never goes to a request that has reserved a run, nor to
\* one that waits for such a request, whatever fails after the commit: the key has
\* no run, or one that was there when a closing coordinator or a failing read
\* turned the request away.
AnswerIsTrue ==
    [][\A q \in Requests : answer[q] = "none" =>
          /\ answer'[q] = "run" => row'[KeyOf[q]] = "final" \/ launched'[KeyOf[q]] > 0
          /\ answer'[q] = "reservation_error" => row'[KeyOf[q]] = "absent" \/ Unadmitted(q)]_vars

\* However often a start is repeated, its run gets one producer (start_once).
OneProducer == \A r \in Runs : launched[r] <= 1

\* Every request is answered, also one that waits for an owner that fails,
\* unless the process ends first.
RequestsAnswered == \A q \in Requests : at[q] # "none" ~> (at[q] = "done" \/ ~Alive)

\* As long as there is no I/O error every run that becomes active is finished,
\* unless the process ends with a shutdown that reported it.
RunsEnd == \A r \in Runs : row[r] = "active" ~> (row[r] = "final" \/ phase = "incomplete" \/ faults > 0)
=============================================================================
