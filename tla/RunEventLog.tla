------------------------------ MODULE RunEventLog ------------------------------
(***************************************************************************)
(* The life of a run in the ChatTree server: RunManager's in-memory record *)
(* and event list, the SQLite rows and the JSONL journal behind them, and  *)
(* the subscribers that stream the events to a client                      *)
(* (backend/core/runs/run_manager.py, journal.py and                       *)
(* backend/core/persistence/run_repository.py).                            *)
(*                                                                         *)
(* With the SQLite repository no method of RunManager suspends while it    *)
(* holds its lock, so each method is one step of the event loop.  What     *)
(* interleaves is the calls themselves, the wake-ups of the subscribers,   *)
(* and a process that dies, or an I/O error that is raised, between two    *)
(* SQLite transactions of one method.                                      *)
(*                                                                         *)
(* Failures covered: the process stops at any point, a journal write       *)
(* fails, a SQLite transaction fails before or after its commit.  Not      *)
(* covered: failing reads, a torn last line of a journal, and the loss of  *)
(* a committed transaction with the operating system.                      *)
(***************************************************************************)
EXTENDS Integers, Sequences, FiniteSetsExt, SequencesExt

CONSTANTS
    Runs,             \* the runs that may be created
    Clients,          \* the concurrent subscriptions
    Outcomes,         \* the statuses a producer passes to finish_run
    Replays,          \* TRUE: clients repeat the idempotent start of a run
    InterruptsFirst,  \* TRUE: the start-up order of main.py
    MaxEvents,        \* bound: payloads published for a run before its end
    MaxFaults,        \* bound: I/O errors
    MaxCrashes        \* bound: deaths of the process

FinishedStatuses == {"completed", "failed", "cancelled", "interrupted", "stopped"}
ActiveStatuses   == {"running", "waiting_approval", "stopping"}

ASSUME RunEventLogAssumption ==
    /\ Outcomes \subseteq FinishedStatuses
    /\ Replays \in BOOLEAN /\ InterruptsFirst \in BOOLEAN
    /\ MaxEvents \in Nat /\ MaxFaults \in Nat /\ MaxCrashes \in Nat
    /\ "none" \notin Runs

VARIABLES
    rows,        \* SQLite: a row of runs and its rows of run_events, by index
    journal,     \* the JSONL file of each run, <<>> when there is none
    up,          \* the server process is alive
    cache,       \* RunManager._runs, _events and _stop_events of each run
    subs,        \* the generators of RunManager.subscribe
    (* what the outside has observed *)
    pub,         \* number of payloads published for each run
    lastResult,  \* number of the last result payload, 0 when there is none
    told,        \* what the finish listeners heard of each run
    seen,        \* the payloads each subscription yielded
    replayed,    \* a start has been repeated
    (* counters of the bounds *)
    faults, crashes

vars == <<rows, journal, up, cache, subs, pub, lastResult, told, seen, replayed,
          faults, crashes>>

-----------------------------------------------------------------------------
(* Data *)

Types    == {"run_started", "content", "result", "status", "stop", "run_finished"}
Payloads == [type : Types, no : Nat, result : Nat]
Events   == [index : Nat, payload : Payloads]
Top      == MaxEvents + 2      \* no event_index reaches this bound

Finished(status) == status \in FinishedStatuses

NoRow    == [status |-> "absent", count |-> 0, events |-> <<>>]
NoRecord == [known |-> FALSE, status |-> "absent", count |-> 0,
             stopped |-> FALSE, events |-> <<>>]
NoSub    == [run |-> "none", from |-> 0, index |-> 0, state |-> "idle"]

Event(i, p) == [index |-> i, payload |-> p]

\* The next payload of run r: payloads are told apart by their publication order.
Payload(r, type) == [type |-> type, no |-> pub[r] + 1, result |-> 0]

-----------------------------------------------------------------------------
(* SQLiteRunRepository: one operator per transaction *)

InsertedRow == [status |-> "running", count |-> 0, events |-> <<>>]

AppendedRow(d, p) ==
    [status |-> d.status, count |-> d.count + 1,
     events |-> [i \in DOMAIN d.events \cup {d.count} |-> IF i = d.count THEN p ELSE d.events[i]]]

\* mutated form: the events after the row's count instead of those from it on
FitsUpToAfter(d, events, top) ==
    LET unstored == {k \in DOMAIN events : events[k].index > d.count}
    IN  {events[k].index : k \in unstored} = d.count .. (top - 1)

\* append_indexed_events takes the events from the row's count on only when
\* their indexes follow on from it, each once.
FitsUpTo(d, events, top) ==
    LET unstored == {k \in DOMAIN events : events[k].index >= d.count}
    IN  /\ {events[k].index : k \in unstored} = d.count .. (top - 1)
        /\ \A j, k \in unstored : events[j].index = events[k].index => j = k

Fits(d, events) == \E top \in d.count .. Top : FitsUpTo(d, events, top)

Stored(d, events) ==
    LET top   == CHOOSE top \in d.count .. Top : FitsUpTo(d, events, top)
        at(i) == CHOOSE k \in DOMAIN events : events[k].index = i
    IN  [status |-> d.status, count |-> top,
         events |-> [i \in DOMAIN d.events \cup d.count .. (top - 1) |->
                        IF i < d.count THEN d.events[i] ELSE events[at(i)].payload]]

\* mutated form: the first stored result
FirstStoredResult(d) ==
    LET results == {i \in DOMAIN d.events : d.events[i].type = "result"}
    IN  IF results = {} THEN 0 ELSE d.events[Min(results)].no

\* finish_run keeps the last stored result inside the terminal event.
StoredResult(d) ==
    LET results == {i \in DOMAIN d.events : d.events[i].type = "result"}
    IN  IF results = {} THEN 0 ELSE d.events[Max(results)].no

Terminal(r, d) ==
    [type |-> "run_finished", no |-> pub[r] + 1, result |-> StoredResult(d)]

\* mutated form: finish_run of the repository is not idempotent
FinishedRowAgain(d, status, p) ==
    [status |-> status, count |-> d.count + 1, events |-> [i \in {d.count} |-> p]]

FinishedRow(d, status, p) ==
    IF Finished(d.status) THEN d
    ELSE [status |-> status, count |-> d.count + 1, events |-> [i \in {d.count} |-> p]]

UpdatedRow(d, status) ==
    IF Finished(d.status) THEN d
    ELSE [status |-> status, count |-> d.count, events |-> d.events]

StoredFrom(d, i) == {j \in DOMAIN d.events : j >= i}

-----------------------------------------------------------------------------
(* RunManager: the record and the event list of a run *)

\* _hydrate_record: a count of 0 in SQLite leaves the count of a cached record.
Hydrated(m, d) ==
    [m EXCEPT !.known = TRUE, !.status = d.status,
              !.count = IF d.count = 0 THEN @ ELSE d.count]

\* _require_run_locked
Record(r) == IF cache[r].known THEN cache[r] ELSE Hydrated(cache[r], rows[r])

\* The indexes of S in increasing order.
Sorted(S) ==
    CHOOSE s \in [1 .. Cardinality(S) -> S] :
        \A j, k \in 1 .. Cardinality(S) : j < k => s[j] < s[k]

\* _ensure_events_loaded_locked: cached events win over the stored ones.
Loaded(m, d) ==
    LET at(i)   == {k \in DOMAIN m.events : m.events[k].index = i}
        indexes == DOMAIN d.events \cup {m.events[k].index : k \in DOMAIN m.events}
        order   == Sorted(indexes)
    IN  IF Len(m.events) >= m.count THEN m
        ELSE [m EXCEPT !.events =
                [n \in 1 .. Cardinality(indexes) |->
                    Event(order[n], IF at(order[n]) = {} THEN d.events[order[n]]
                                    ELSE m.events[Max(at(order[n]))].payload)]]

\* append_events, the part under the lock
Cached(m, p) == [m EXCEPT !.count = @ + 1, !.events = Append(@, Event(m.count, p))]

\* The line append_events adds to the journal
Journaled(lines, m) == Append(lines, Last(m.events))

\* The first stored event from index i on is appended to the event list.
Mirrored(m, d, i) ==
    IF StoredFrom(d, i) = {} THEN m
    ELSE [m EXCEPT !.events = Append(@, Event(Min(StoredFrom(d, i)), d.events[Min(StoredFrom(d, i))]))]

\* finish_run after the repository's commit: without a terminal event at or
\* after the record's count it raises, the status already set.
Announces(m, d)  == StoredFrom(d, m.count) # {}

\* mutated form: the status is not set
FinalizedUnsettled(m, d) == m

Finalized(m, d) ==
    IF Announces(m, d) THEN [Mirrored(m, d, m.count) EXCEPT !.status = d.status, !.count = d.count]
    ELSE [m EXCEPT !.status = d.status]

\* mutated form: only one of the signals is set
WokenOne(R) ==
    LET waiting == {c \in Clients : subs[c].run \in R /\ subs[c].state = "waiting"}
    IN  IF waiting = {} THEN subs
        ELSE [subs EXCEPT ![CHOOSE c \in waiting : TRUE].state = "ready"]

\* Setting the signals of the subscribers of the runs in R.
Woken(R) ==
    [c \in Clients |-> IF subs[c].run \in R /\ subs[c].state = "waiting"
                       THEN [subs[c] EXCEPT !.state = "ready"] ELSE subs[c]]

Exists(r) == up /\ rows[r].status # "absent"
Room(r)   == pub[r] < MaxEvents
Fault     == faults < MaxFaults /\ faults' = faults + 1

-----------------------------------------------------------------------------
Init ==
    /\ rows = [r \in Runs |-> NoRow]
    /\ journal = [r \in Runs |-> <<>>]
    /\ up = TRUE
    /\ cache = [r \in Runs |-> NoRecord]
    /\ subs = [c \in Clients |-> NoSub]
    /\ pub = [r \in Runs |-> 0]
    /\ lastResult = [r \in Runs |-> 0]
    /\ told = [r \in Runs |-> <<>>]
    /\ seen = [c \in Clients |-> <<>>]
    /\ replayed = FALSE
    /\ faults = 0 /\ crashes = 0

(* Creation: the row is inserted and hydrated, run_started is published, and *)
(* the run that created it, if any, is told of its child.                    *)

Started(r) == Cached(Hydrated(cache[r], InsertedRow), Payload(r, "run_started"))
ChildTold(p) == Cached(Record(p), Payload(p, "content"))
Parents(r) == {p \in Runs \ {r} : Exists(p) /\ Room(p)} \cup {"none"}

CreateRun(r, parent) ==
    LET published == {r, parent} \ {"none"}
        m(x)  == IF x = r THEN Started(r) ELSE ChildTold(x)
    IN  /\ up /\ rows[r].status = "absent"
        /\ rows' = [rows EXCEPT ![r] = InsertedRow]
        /\ cache' = [x \in Runs |-> IF x \in published THEN m(x) ELSE cache[x]]
        /\ journal' = [x \in Runs |-> IF x \in published THEN Journaled(journal[x], m(x))
                                      ELSE journal[x]]
        /\ pub' = [x \in Runs |-> IF x \in published THEN pub[x] + 1 ELSE pub[x]]
        /\ subs' = Woken(published)
        /\ UNCHANGED <<up, lastResult, told, seen, replayed, faults, crashes>>

\* A journal write of the creation fails: _interrupt_committed_creation drops
\* the cached events of the run, not its count, and finishes it.
CreateRunInterrupted(r, parent) ==
    LET m == [Started(r) EXCEPT !.events = <<>>]
        d == FinishedRow(InsertedRow, "interrupted",
                         [Terminal(r, InsertedRow) EXCEPT !.no = pub[r] + 2])
        childs == parent # "none"       \* it is the parent's journal that failed
    IN  /\ up /\ rows[r].status = "absent" /\ Fault
        /\ rows' = [rows EXCEPT ![r] = d]
        /\ cache' = [x \in Runs |-> IF x = r THEN Finalized(m, d)
                                    ELSE IF x = parent THEN ChildTold(x) ELSE cache[x]]
        /\ journal' = [journal EXCEPT ![r] = IF Announces(m, d) \/ ~childs THEN <<>>
                                             ELSE Started(r).events]
        /\ pub' = [x \in Runs |-> IF x = r THEN pub[x] + 2
                                  ELSE IF x = parent THEN pub[x] + 1 ELSE pub[x]]
        /\ told' = [told EXCEPT ![r] = IF Announces(m, d) THEN Append(@, d.status) ELSE @]
        /\ subs' = IF Announces(m, d) THEN Woken({r}) ELSE subs
        /\ UNCHANGED <<up, lastResult, seen, replayed, crashes>>

(* append_events: memory, then the journal, then the signals *)

Publish(r, m, type) ==
    LET m2 == Cached(m, Payload(r, type))
    IN  /\ Room(r)
        /\ cache' = [cache EXCEPT ![r] = m2]
        /\ pub' = [pub EXCEPT ![r] = @ + 1]
        /\ \/ /\ journal' = [journal EXCEPT ![r] = Journaled(@, m2)]
              /\ subs' = Woken({r})
              /\ UNCHANGED faults
           \/ Fault /\ UNCHANGED <<journal, subs>>

\* Neither append_events nor mark_observed looks at the status: a late event of
\* a finished run is published like the others.
AppendEvent(r, type) ==
    /\ Exists(r)
    /\ type = "result" => ~Finished(Record(r).status)
    /\ Publish(r, Record(r), type)
    /\ lastResult' = [lastResult EXCEPT ![r] = IF type = "result" THEN pub[r] + 1 ELSE @]
    /\ UNCHANGED <<rows, up, told, seen, replayed, crashes>>

\* A sub-agent waits for an approval, and runs again unless a stop was requested;
\* mutated form: it does not look at the stop event.
MayEnterAlways(m, status) == TRUE
MayEnter(m, status) == status = "running" => ~m.stopped

UpdateStatus(r, status) ==
    LET m == Record(r)
        d == UpdatedRow(rows[r], status)
    IN  /\ Exists(r)
        /\ ~Finished(m.status) /\ m.status # status
        /\ MayEnter(m, status)
        /\ rows' = [rows EXCEPT ![r] = d]
        /\ Publish(r, [m EXCEPT !.status = d.status], "status")
        /\ UNCHANGED <<up, lastResult, told, seen, replayed, crashes>>

-----------------------------------------------------------------------------
(* _persist_streamed_events: the transaction that finish_run and request_stop *)
(* put before their own; ok is what it returns.                               *)

Persist(r, m, ok) ==
    IF ok THEN Fits(rows[r], m.events) /\ UNCHANGED faults
    ELSE \/ ~Fits(rows[r], m.events) /\ UNCHANGED faults
         \/ Fits(rows[r], m.events) /\ Fault

\* mutated form: nothing is flushed
FlushedNothing(r, m, ok) == rows[r]

Flushed(r, m, ok) == IF ok THEN Stored(rows[r], m.events) ELSE rows[r]

\* The record finish_run goes on with: after a failed flush the count is
\* SQLite's again and the event list is emptied.
Realigned(r, m, ok) ==
    IF ok THEN m ELSE [m EXCEPT !.count = rows[r].count, !.events = <<>>]

Committed(r, m, ok, status) ==
    LET d == Flushed(r, m, ok)
    IN  FinishedRow(d, IF ok THEN status ELSE "failed", Terminal(r, d))

Ended(r, d) == IF Finished(d.status) /\ ~Finished(rows[r].status) THEN 1 ELSE 0

FinishRun(r, status) ==
    \E ok \in BOOLEAN :
        LET m == Realigned(r, Record(r), ok)
            d == Committed(r, Record(r), ok, status)
        IN  /\ Exists(r) /\ ~Finished(Record(r).status)
            /\ Persist(r, Record(r), ok)
            /\ rows' = [rows EXCEPT ![r] = d]
            /\ cache' = [cache EXCEPT ![r] = Finalized(m, d)]
            /\ pub' = [pub EXCEPT ![r] = @ + Ended(r, d)]
            /\ IF Announces(m, d)
               THEN /\ subs' = Woken({r})
                    /\ told' = [told EXCEPT ![r] = Append(@, d.status)]
                    /\ journal' = [journal EXCEPT ![r] = <<>>]
               ELSE UNCHANGED <<subs, told, journal>>
            /\ UNCHANGED <<up, lastResult, seen, replayed, crashes>>

\* What request_stop leaves in memory when the flush failed and SQLite has a
\* count; the event list stays as it is.
Stopping(m) == [m EXCEPT !.status = "stopping", !.stopped = TRUE]

Recounted(r, m, ok) ==
    IF ok \/ rows[r].count = 0 THEN m ELSE [m EXCEPT !.count = rows[r].count]

RequestStop(r) ==
    \E ok \in BOOLEAN :
        LET m == Recounted(r, Stopping(cache[r]), ok)
            d == Flushed(r, cache[r], ok)
            s == AppendedRow(UpdatedRow(d, "stopping"), Payload(r, "stop"))
        IN  /\ up /\ cache[r].known /\ ~Finished(cache[r].status)
            /\ pub[r] <= MaxEvents
            /\ Persist(r, cache[r], ok)
            /\ IF Finished(d.status)
               THEN /\ rows' = [rows EXCEPT ![r] = d]
                    /\ cache' = [cache EXCEPT ![r] = m]
                    /\ UNCHANGED <<subs, pub>>
               ELSE /\ rows' = [rows EXCEPT ![r] = s]
                    /\ cache' = [cache EXCEPT ![r] =
                                   [Mirrored(m, s, cache[r].count) EXCEPT !.count = s.count]]
                    /\ subs' = Woken({r})
                    /\ pub' = [pub EXCEPT ![r] = @ + 1]
            /\ UNCHANGED <<journal, up, lastResult, told, seen, replayed, crashes>>

(* A method cut short between its transactions: what SQLite and the record hold *)

FinishCuts(r, status) ==
    LET ok == Fits(rows[r], Record(r).events)
        m  == Realigned(r, Record(r), ok)
    IN  IF Finished(Record(r).status) THEN {}
        ELSE { [row |-> Flushed(r, Record(r), ok), record |-> m],
               [row |-> Committed(r, Record(r), ok, status), record |-> m] }

StopCuts(r) ==
    LET ok == Fits(rows[r], cache[r].events)
        m  == Recounted(r, Stopping(cache[r]), ok)
        d  == Flushed(r, cache[r], ok)
    IN  IF ~cache[r].known \/ Finished(cache[r].status) THEN {}
        ELSE { [row |-> d, record |-> m],
               [row |-> UpdatedRow(d, "stopping"), record |-> m] }

Cuts(r) == StopCuts(r) \cup UNION {FinishCuts(r, status) : status \in Outcomes}

\* The exception reaches the caller; the second cut of finish_run is a failing
\* reclaim_blobs after the commit.
MethodRaises(r) ==
    \E cut \in Cuts(r) :
        /\ Exists(r) /\ Fault
        /\ rows' = [rows EXCEPT ![r] = cut.row]
        /\ cache' = [cache EXCEPT ![r] = cut.record]
        /\ pub' = [pub EXCEPT ![r] = @ + Ended(r, cut.row)]
        /\ UNCHANGED <<journal, up, subs, lastResult, told, seen, replayed, crashes>>

-----------------------------------------------------------------------------
(* The idempotent start of a run is repeated: hydrate and load. *)

ReplayStart(r) ==
    /\ Replays /\ Exists(r)
    /\ cache' = [cache EXCEPT ![r] = Loaded(Hydrated(cache[r], rows[r]), rows[r])]
    /\ replayed' = TRUE
    /\ UNCHANGED <<rows, journal, up, subs, pub, lastResult, told, seen, faults, crashes>>

(* subscribe: entry, one turn of its loop, and the client going away *)

Subscribe(c, r, from) ==
    /\ Exists(r) /\ subs[c].state = "idle"
    /\ ~Finished(Record(r).status)
    /\ from <= Record(r).count
    /\ subs' = [subs EXCEPT ![c] = [run |-> r, from |-> from, index |-> from, state |-> "ready"]]
    /\ cache' = [cache EXCEPT ![r] = Record(r)]
    /\ UNCHANGED <<rows, journal, up, pub, lastResult, told, seen, replayed, faults, crashes>>

Poll(c) ==
    LET r == subs[c].run
        i == subs[c].index
        m == Loaded(Record(r), rows[r])
    IN  /\ subs[c].state = "ready" /\ Exists(r)
        /\ cache' = [cache EXCEPT ![r] = m]
        /\ IF i < Len(m.events)
           THEN /\ seen' = [seen EXCEPT ![c] = Append(@, m.events[i + 1].payload)]
                /\ subs' = [subs EXCEPT ![c].index = i + 1]
           ELSE /\ subs' = [subs EXCEPT ![c].state = IF Finished(m.status) THEN "ended"
                                                     ELSE "waiting"]
                /\ UNCHANGED seen
        /\ UNCHANGED <<rows, journal, up, pub, lastResult, told, replayed, faults, crashes>>

Unsubscribe(c) ==
    /\ subs[c].state # "idle"
    /\ subs' = [subs EXCEPT ![c] = NoSub]
    /\ seen' = [seen EXCEPT ![c] = <<>>]
    /\ UNCHANGED <<rows, journal, up, cache, pub, lastResult, told, replayed, faults, crashes>>

-----------------------------------------------------------------------------
(* The process dies, in the middle of a method or between two; it starts again. *)

Dies ==
    /\ up /\ up' = FALSE
    /\ crashes < MaxCrashes /\ crashes' = crashes + 1
    /\ cache' = [r \in Runs |-> NoRecord]
    /\ subs' = [c \in Clients |-> NoSub]
    /\ seen' = [c \in Clients |-> <<>>]
    /\ UNCHANGED <<journal, lastResult, told, replayed, faults>>

Crash == Dies /\ UNCHANGED <<rows, pub>>

CrashInCreate(r) ==
    /\ rows[r].status = "absent"
    /\ rows' = [rows EXCEPT ![r] = InsertedRow]
    /\ UNCHANGED pub
    /\ Dies

CrashInMethod(r) ==
    \E cut \in Cuts(r) :
        /\ Exists(r)
        /\ rows' = [rows EXCEPT ![r] = cut.row]
        /\ pub' = [pub EXCEPT ![r] = @ + Ended(r, cut.row)]
        /\ Dies

\* mark_unfinished_as_interrupted
Interrupted(r) ==
    IF rows[r].status \in ActiveStatuses
    THEN FinishedRow(rows[r], "interrupted", Terminal(r, rows[r])) ELSE rows[r]

\* mutated form: only runs that nobody stopped are replayed
RecoveredRunning(d, lines) ==
    IF d.status = "running" /\ Fits(d, lines) THEN Stored(d, lines) ELSE d

\* _recover_journal_events: a journal that does not fit is skipped.
Recovered(d, lines) ==
    IF d.status \in ActiveStatuses /\ Fits(d, lines) THEN Stored(d, lines) ELSE d

\* _hydrate_active_runs
HydratedActive(d) ==
    IF d.status \in ActiveStatuses THEN Hydrated(NoRecord, d) ELSE NoRecord

Restart ==
    LET d(r) == Recovered(IF InterruptsFirst THEN Interrupted(r) ELSE rows[r], journal[r])
    IN  /\ ~up /\ up' = TRUE
        /\ rows' = [r \in Runs |-> d(r)]
        /\ cache' = [r \in Runs |-> HydratedActive(d(r))]
        /\ pub' = [r \in Runs |-> pub[r] + Ended(r, d(r))]
        /\ UNCHANGED <<journal, subs, lastResult, told, seen, replayed, faults, crashes>>

-----------------------------------------------------------------------------
Next ==
    \/ \E r \in Runs :
        \/ \E parent \in Parents(r) : CreateRun(r, parent) \/ CreateRunInterrupted(r, parent)
        \/ \E type \in {"content", "result"} : AppendEvent(r, type)
        \/ \E status \in {"waiting_approval", "running"} : UpdateStatus(r, status)
        \/ \E status \in Outcomes : FinishRun(r, status)
        \/ RequestStop(r)
        \/ MethodRaises(r)
        \/ ReplayStart(r)
        \/ \E c \in Clients, from \in 0 .. Top : Subscribe(c, r, from)
        \/ CrashInCreate(r)
        \/ CrashInMethod(r)
    \/ \E c \in Clients : Poll(c) \/ Unsubscribe(c)
    \/ Crash
    \/ Restart

\* The event loop runs every generator that is ready to run.
Fairness == \A c \in Clients : WF_vars(Poll(c))

Spec == Init /\ [][Next]_vars /\ Fairness

-----------------------------------------------------------------------------
(* Properties *)

AllStatuses == {"absent"} \cup ActiveStatuses \cup FinishedStatuses

RowTypeOK(d) ==
    /\ d.status \in AllStatuses
    /\ d.count \in Nat
    /\ DOMAIN d.events \subseteq 0 .. d.count - 1
    /\ \A i \in DOMAIN d.events : d.events[i] \in Payloads

Records == [known : BOOLEAN, status : AllStatuses, count : Nat,
            stopped : BOOLEAN, events : Seq(Events)]

SubStates == [run : Runs \cup {"none"}, from : Nat, index : Nat,
              state : {"idle", "ready", "waiting", "ended"}]

\* The type of the state: rows of schema.py, records of types.py, the lines of a
\* journal and the generators of subscribe.
TypeOK ==
    /\ DOMAIN rows = Runs /\ \A r \in Runs : RowTypeOK(rows[r])
    /\ journal \in [Runs -> Seq(Events)]
    /\ up \in BOOLEAN
    /\ cache \in [Runs -> Records]
    /\ subs \in [Clients -> SubStates]
    /\ \A c \in Clients : subs[c].state # "idle" => subs[c].run \in Runs
    /\ pub \in [Runs -> Nat] /\ lastResult \in [Runs -> Nat]
    /\ told \in [Runs -> Seq(FinishedStatuses)]
    /\ seen \in [Clients -> Seq(Payloads)]
    /\ replayed \in BOOLEAN /\ faults \in Nat /\ crashes \in Nat

IsTerminal(d, i) == d.events[i].type = "run_finished"

\* A row of run_repository.py, whatever failed or died half way: an active run
\* has an event at each index below its count and none of them terminal, a
\* finished run has one terminal event.
RowWellFormed(d) ==
    /\ d.status = "absent" => d.count = 0
    /\ d.status \in ActiveStatuses =>
        /\ DOMAIN d.events = 0 .. d.count - 1
        /\ \A i \in DOMAIN d.events : ~IsTerminal(d, i)
    /\ Finished(d.status) =>
        \E i \in DOMAIN d.events :
            \A j \in DOMAIN d.events : IsTerminal(d, j) <=> j = i
RowsWellFormed == \A r \in Runs : RowWellFormed(rows[r])

\* Once SQLite holds a final status no retry, late stop, late event or restart
\* changes it, nor takes back an event stored with it (finish_run, request_stop,
\* update_status and append_indexed_events of run_repository.py).
FinishedIsFinal ==
    [][\A r \in Runs : Finished(rows[r].status) =>
          /\ rows'[r].status = rows[r].status
          /\ \A i \in DOMAIN rows[r].events :
                i \in DOMAIN rows'[r].events /\ rows'[r].events[i] = rows[r].events[i]]_vars

\* A process that has asked a run to stop does not let SQLite show it running
\* again, although update_status accepts any change (subagent_executor.py asks
\* the stop event before it goes back from an approval).
StopNeverResumes ==
    [][\A r \in Runs : up /\ cache[r].stopped /\ rows'[r].status = "running"
                           => rows[r].status = "running"]_vars

\* The finish listeners hear of a run at most once, and only the status that a
\* restart would find (finish_run notifies after the repository's commit).
ToldTheTruth ==
    \A r \in Runs : told[r] # <<>> => told[r] = <<rows[r].status>> /\ Finished(rows[r].status)

\* No I/O error so far and no repeated start, which would load the rows over a
\* record that is ahead of them.
Undisturbed == faults = 0 /\ ~replayed

\* A generator yields the payloads of its run in the order of their publication,
\* from the position asked for on, none twice and none left out.
SubscriberExact ==
    Undisturbed => \A c \in Clients : \A i \in DOMAIN seen[c] : seen[c][i].no = subs[c].from + i

TerminalOf(d) == CHOOSE p \in {d.events[i] : i \in DOMAIN d.events} : p.type = "run_finished"

ResultKeptBy(r) == Finished(rows[r].status) => TerminalOf(rows[r]).result = lastResult[r]

\* The terminal event of a run carries the last result its producer published:
\* the result survives the deletion of the run's events.
ResultKept == Undisturbed => \A r \in Runs : ResultKeptBy(r)

\* The same of each run that was not cut off by a death of the process, or was
\* recovered from its journal: finish_run may die half way.
EndedKeepsResult ==
    Undisturbed => \A r \in Runs : rows[r].status # "interrupted" => ResultKeptBy(r)

\* A run whose producer did not fail and whose events no I/O error touched is
\* not failed by RunManager itself: the streamed events always fit the row.
OnlyFaultsFail ==
    \A r \in Runs : Undisturbed /\ "failed" \notin Outcomes => rows[r].status # "failed"

\* The recovery of a restart brings each active run's row up to the last payload.
RecoveryComplete ==
    [][Undisturbed /\ ~up /\ up' => \A r \in Runs : rows'[r].status \in ActiveStatuses =>
            {rows'[r].events[i].no : i \in DOMAIN rows'[r].events} = 1 .. pub[r]]_vars

\* A generator does not outlive its run.
SubscriberEnds ==
    \A c \in Clients :
        (subs[c].state \in {"ready", "waiting"} /\ Finished(cache[subs[c].run].status))
            ~> (subs[c].state \in {"idle", "ended"})

-----------------------------------------------------------------------------
(* The inductive invariant behind the theorems of RunEventLogProofs *)

\* A cached terminal event is the stored one: the run is finished and the event
\* lies below its count, where no flush takes it again.
CacheBehindRow(events, d) ==
    \A k \in DOMAIN events : events[k].payload.type = "run_finished" =>
        Finished(d.status) /\ events[k].index < d.count

\* What the listeners heard is what SQLite and the record still say.
HeardIsSettled(heard, d, m) ==
    heard # <<>> => /\ heard = <<d.status>>
                    /\ Finished(d.status)
                    /\ m.known => Finished(m.status)

\* The state every step preserves: types, well-formed rows, and how memory, the
\* journal and the listeners stand to the row of the same run.
IInv ==
    /\ TypeOK
    /\ RowsWellFormed
    /\ \A r \in Runs :
        /\ cache[r].known => rows[r].status # "absent"
        /\ CacheBehindRow(cache[r].events, rows[r])
        /\ \A k \in DOMAIN journal[r] : journal[r][k].payload.type # "run_finished"
        /\ HeardIsSettled(told[r], rows[r], cache[r])
=============================================================================
