----------------------------- MODULE ServerLife -----------------------------
(***************************************************************************)
(* The life of server processes over one home directory: the home lock     *)
(* (backend/core/server/home_lock.py) that `chattree-server start`         *)
(* (backend/server_cli.py) and a server (src/main.py) take, the recovery at*)
(* startup, the admission of mutations (backend/core/server/admission.py), *)
(* which a shutdown and a compaction of the store close, and the end of a  *)
(* process, in order or by a crash.                                        *)
(*                                                                         *)
(* A run is what it is in RunOwnership, reduced to its row and to the      *)
(* process that still does something for it.                               *)
(***************************************************************************)

CONSTANTS
    Servers,        \* server processes
    Starters,       \* calls of `chattree-server start`
    Mutations,      \* requests that change something
    Work            \* runs

ASSUME LifeAssumption == Servers \cap Starters = {}

VARIABLES
    life,           \* where each server process is
    starter,        \* where each start is
    holders,        \* who has the lock of the home
    record,         \* SQLite: the status of each run
    workers,        \* the processes that do something for each run
    admitted,       \* the mutations between admission and answer, by server
    settledMutations, \* mutations that were answered
    closed,         \* servers whose admission is closed
    compacting,     \* servers that run VACUUM
    asked           \* servers that accepted a request to end

lifeVars == <<life, starter, holders, record, workers, admitted, settledMutations, closed,
              compacting, asked>>
requestVars == <<admitted, settledMutations, closed, compacting, asked>>

Lives == {"none", "starting", "serving", "closing", "held", "over"}

LifeInit ==
    /\ life = [s \in Servers |-> "none"]
    /\ starter = [c \in Starters |-> "none"]
    /\ holders = {}
    /\ record = [r \in Work |-> "none"]
    /\ workers = [r \in Work |-> {}]
    /\ admitted = [s \in Servers |-> {}]
    /\ settledMutations = {} /\ closed = {} /\ compacting = {} /\ asked = {}

-----------------------------------------------------------------------------
(* The lock and the start *)

\* _start: _locked_home_owner takes the lock to see whether it is free; if a
\* server has it, the answer is what the handshake with that server says.
Probe(c) ==
    /\ starter[c] = "none"
    /\ IF holders = {}
       THEN holders' = {c} /\ starter' = [starter EXCEPT ![c] = "probing"]
       ELSE starter' = [starter EXCEPT ![c] = "over"] /\ UNCHANGED holders
    /\ UNCHANGED <<life, record, workers, requestVars>>

\* It gives the lock back and spawns a server, which has to take it again.
ProbeEnds(c) ==
    /\ starter[c] = "probing"
    /\ starter' = [starter EXCEPT ![c] = "over"]
    /\ holders' = holders \ {c}
    /\ UNCHANGED <<life, record, workers, requestVars>>

\* startup_event: refused with ServerHomeInUseError whoever has the lock
Acquire(s) ==
    /\ life[s] = "none"
    /\ IF holders = {}
       THEN holders' = {s} /\ life' = [life EXCEPT ![s] = "starting"]
       ELSE life' = [life EXCEPT ![s] = "over"] /\ UNCHANGED holders
    /\ UNCHANGED <<starter, record, workers, requestVars>>

\* mark_unfinished_as_interrupted
Interrupted == [r \in Work |-> IF record[r] = "active" THEN "interrupted" ELSE record[r]]

\* _initialize_server
Initialize(s) ==
    /\ life[s] = "starting"
    /\ record' = Interrupted
    /\ life' = [life EXCEPT ![s] = "serving"]
    /\ UNCHANGED <<starter, holders, workers, requestVars>>

\* It fails, before or after the rows were marked; the lock is given back if
\* what had been opened could be closed, and kept by the process otherwise.
InitializeFails(s) ==
    /\ life[s] = "starting"
    /\ record' \in {record, Interrupted}
    /\ \/ life' = [life EXCEPT ![s] = "over"] /\ holders' = holders \ {s}
       \/ life' = [life EXCEPT ![s] = "held"] /\ UNCHANGED holders
    /\ UNCHANGED <<starter, workers, requestVars>>

-----------------------------------------------------------------------------
(* Mutations and runs *)

\* admit: the lock of the admission is held until the response starts
Admit(s, m) ==
    /\ life[s] = "serving" /\ s \notin closed /\ admitted[s] = {}
    /\ m \notin settledMutations /\ \A t \in Servers : m \notin admitted[t]
    /\ admitted' = [admitted EXCEPT ![s] = {m}]
    /\ UNCHANGED <<life, starter, holders, record, workers, settledMutations, closed, compacting, asked>>

\* MutationAdmissionClosed
Refuse(s, m) ==
    /\ life[s] = "serving" /\ s \in closed
    /\ \A t \in Servers : m \notin admitted[t]
    /\ settledMutations' = settledMutations \cup {m}
    /\ UNCHANGED <<life, starter, holders, record, workers, admitted, closed, compacting, asked>>

\* create_run
Began(s, r) ==
    /\ record[r] = "none"
    /\ record' = [record EXCEPT ![r] = "active"]
    /\ workers' = [workers EXCEPT ![r] = {s}]

\* A mutation starts a run.
StartRun(s, r) ==
    /\ life[s] = "serving" /\ admitted[s] # {}
    /\ Began(s, r)
    /\ UNCHANGED <<life, starter, holders, requestVars>>

\* A run at work starts another, to go on in or for a sub-agent.
RunStartsRun(s, p, r) ==
    /\ life[s] = "serving"
    /\ s \in workers[p] /\ record[p] = "active"
    /\ Began(s, r)
    /\ UNCHANGED <<life, starter, holders, requestVars>>

Answer(s) ==
    /\ life[s] = "serving" /\ admitted[s] # {}
    /\ admitted' = [admitted EXCEPT ![s] = {}]
    /\ settledMutations' = settledMutations \cup admitted[s]
    /\ UNCHANGED <<life, starter, holders, record, workers, closed, compacting, asked>>

\* finish_run, and later the end of the producer
FinishRun(s, r) ==
    /\ life[s] \in {"serving", "closing"}
    /\ s \in workers[r] /\ record[r] = "active"
    /\ record' = [record EXCEPT ![r] = "final"]
    /\ UNCHANGED <<life, starter, holders, workers, requestVars>>

ProducerEnds(s, r) ==
    /\ life[s] \in {"serving", "closing"}
    /\ s \in workers[r] /\ record[r] = "final"
    /\ workers' = [workers EXCEPT ![r] = {}]
    /\ UNCHANGED <<life, starter, holders, record, requestVars>>

-----------------------------------------------------------------------------
(* The end of a server *)

Busy(s) == \E r \in Work : s \in workers[r] /\ record[r] = "active"

\* mutated form: what is admitted already is not waited for
CloseUnlocked(s) == s \notin closed /\ ~Busy(s) /\ closed' = closed \cup {s}

\* close_if_idle, between two suspensions under the lock of the admission.  It
\* fails with ServerBusyError or MutationAdmissionClosed otherwise.
CloseIfIdle(s) ==
    /\ admitted[s] = {}
    /\ s \notin closed /\ ~Busy(s)
    /\ closed' = closed \cup {s}

\* shutdown_server
ShutdownServer(s) ==
    /\ life[s] = "serving"
    /\ CloseIfIdle(s)
    /\ asked' = asked \cup {s}
    /\ UNCHANGED <<life, starter, holders, record, workers, admitted, settledMutations, compacting>>

\* storage_compact: the same check, then VACUUM in a thread
StorageCompact(s) ==
    /\ life[s] = "serving"
    /\ CloseIfIdle(s)
    /\ compacting' = compacting \cup {s}
    /\ UNCHANGED <<life, starter, holders, record, workers, admitted, settledMutations, asked>>

\* After the answer the server is asked to end; after an error mutations are
\* admitted again.
CompactEnds(s) ==
    /\ s \in compacting
    /\ compacting' = compacting \ {s}
    /\ \/ asked' = asked \cup {s} /\ UNCHANGED closed
       \/ closed' = closed \ {s} /\ UNCHANGED asked
    /\ UNCHANGED <<life, starter, holders, record, workers, admitted, settledMutations>>

\* The server stops to serve, because it was asked to or by a signal, once no
\* request is in progress; shutdown_event begins.
StopServing(s) ==
    /\ life[s] = "serving"
    /\ admitted[s] = {} /\ s \notin compacting
    /\ life' = [life EXCEPT ![s] = "closing"]
    /\ UNCHANGED <<starter, holders, record, workers, requestVars>>

\* What shutdown_event does when _close_server_resources is through: what was at
\* work is finished.
ClosedInOrder(s) ==
    /\ record' = [r \in Work |->
            IF s \in workers[r] /\ record[r] = "active" THEN "final" ELSE record[r]]
    /\ workers' = [r \in Work |-> workers[r] \ {s}]
    /\ life' = [life EXCEPT ![s] = "over"]
    /\ holders' = holders \ {s}

\* Something could not be closed: run_server keeps the process, and the lock with it.
Retained(s) ==
    /\ life' = [life EXCEPT ![s] = "held"]
    /\ UNCHANGED <<holders, record, workers>>

ShutdownEvent(s) ==
    /\ life[s] = "closing"
    /\ ClosedInOrder(s) \/ Retained(s)
    /\ UNCHANGED <<starter, requestVars>>

\* The process is killed or crashes; the operating system frees the lock.
Die(s) ==
    /\ life[s] \in {"starting", "serving", "closing", "held"}
    /\ life' = [life EXCEPT ![s] = "over"]
    /\ holders' = holders \ {s}
    /\ workers' = [r \in Work |-> workers[r] \ {s}]
    /\ admitted' = [admitted EXCEPT ![s] = {}]
    /\ settledMutations' = settledMutations \cup admitted[s]
    /\ compacting' = compacting \ {s}
    /\ UNCHANGED <<starter, record, closed, asked>>

-----------------------------------------------------------------------------
ServerStep(s) ==
    \/ Acquire(s) \/ Initialize(s) \/ InitializeFails(s)
    \/ \E m \in Mutations : Admit(s, m) \/ Refuse(s, m)
    \/ \E r \in Work : StartRun(s, r) \/ FinishRun(s, r) \/ ProducerEnds(s, r)
    \/ \E p, r \in Work : RunStartsRun(s, p, r)
    \/ Answer(s)
    \/ ShutdownServer(s) \/ StorageCompact(s) \/ CompactEnds(s)
    \/ StopServing(s) \/ ShutdownEvent(s) \/ Die(s)

LifeNext ==
    \/ \E c \in Starters : Probe(c) \/ ProbeEnds(c)
    \/ \E s \in Servers : ServerStep(s)

LifeSpec == LifeInit /\ [][LifeNext]_lifeVars

-----------------------------------------------------------------------------
LifeTypeOK ==
    /\ life \in [Servers -> Lives]
    /\ starter \in [Starters -> {"none", "probing", "over"}]
    /\ holders \subseteq Servers \cup Starters
    /\ record \in [Work -> {"none", "active", "interrupted", "final"}]
    /\ workers \in [Work -> SUBSET Servers]
    /\ admitted \in [Servers -> SUBSET Mutations]
    /\ settledMutations \subseteq Mutations
    /\ closed \subseteq Servers /\ compacting \subseteq Servers /\ asked \subseteq Servers

\* A startup interrupts only runs for which no process does anything any more,
\* also when the server before could not close all it had.
LivingRunKept == \A r \in Work : record[r] = "interrupted" => workers[r] = {}

\* A server that accepted to end has no mutation in progress and no run that its
\* end would cut off, although runs start others without being admitted.
ClosesOnlyIdle == \A s \in asked : life[s] = "serving" => admitted[s] = {} /\ ~Busy(s)

\* No server cuts off what is being done: not what another process still does,
\* by its startup, nor what it does itself, by agreeing to end.
NothingCutOff == LivingRunKept /\ ClosesOnlyIdle
=============================================================================
