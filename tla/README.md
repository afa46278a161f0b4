# ChatTree: a verification project

ChatTree is a local server (Python, FastAPI) that keeps conversations as trees
and runs language-model turns, sub-agents and workflows over them, a launcher
that starts or reaches such servers (locally or through ssh), and a web
frontend. This directory holds TLA+ models of the parts of it in which
concurrency and failure decide whether it is correct, the TLC configurations
that check them on small instances, and proofs checked by TLAPS.

    tlc -config RunEventLog_faults.cfg MCRunEventLog     # one run
    tlapm RunEventLogProofs.tla                          # the proofs of a module

`PROJECT.json` lists the components, the runs with their properties, for each
property a mutant of the model that breaks it, the lines of the source every
definition stands for, the hazards with the properties that guard them, the
findings, and the theorems.

## 1. The system

A server runs on one asyncio event loop over one SQLite database, so that a step
of a model is what a task does between two suspensions, or what a thread or a
process does. Paths are below `src/backend` unless they name the launcher or
the frontend.

| Component | State it keeps | Operations | Talks to | Module |
|---|---|---|---|---|
| run event log (`core/runs/run_manager.py`, `journal.py`, `core/persistence/run_repository.py`) | rows of runs and events, a JSONL journal per active run, a record, event list and stop event per run in memory, subscribers | create, append, update status, finish, request stop, subscribe, recover | every producer writes to it, every client streams from it, finish listeners hear from it | `RunEventLog` |
| idempotent start (`core/runs/start_service.py`) | a barrier per key, start tasks, pending terminalizations | start, replay, close | event log, registry | `RunOwnership` |
| producer registry (`core/runs/producer_registry.py`) | producers, terminalizers, pending terminalizations | register, cancel, done callbacks, close | event log | `RunOwnership` |
| server life cycle and admission (`main.py`, `core/server/`) | the home lock, services, the admission flag | start-up recovery, admit a mutation, shutdown, compaction of the store | all of the above | `ServerLife` |
| chat turns (`api/routes/messages.py`, `core/chat/chat_manager.py`) | controllers, the turn in progress | rounds of answers and tool calls, stop, continuation of a failed run | providers, tools, event log | `ChatTurn` |
| tool calls and approvals (`core/tools/`, `core/tools/security/approval.py`) | pending requests, session grants | request, decide, cancel, clean up | turns and sub-agents wait for them | `ToolRound` |
| providers (`core/model/`) | the state of one stream | request, retry, resume, fewer parameters, stop | the upstream; the turn reads the chunks | `ProviderStream`, `ModelStream` |
| sub-agents (`core/agents/`) | tool rounds, queue of approval events | produce, stop, time out | event log, registry | `SubagentLoop`, `RunTree` |
| workflows and commands (`core/workflows/`, `core/command_runtime.py`) | a JavaScript worker, processes, output readers | start, wait, stop with all that hangs below, close | event log | `RunTree` |
| conversation tree (`core/chat/conversation.py`, `core/persistence/repository.py`) | conversations, nodes, messages, the current node | turns, commands, switch, delete, compact, prune summaries | turns load and save it | `ConversationTree` |
| context of a model (`core/chat/canonical_reader.py`, `prune_summary.py`) | none; reads the rows | the chain, cut and summarised | what a turn tells its model | `ModelContext` |
| task ledger and notifications (`core/tasks/`, `core/notifications/`) | one active task, its generation, revision and steps, one binding | create, set a step's result, cancel, bind a run, release | the finish of a run releases the binding | `TaskLedger` |
| plans (`core/plans/`, `api/routes/plans.py`) | plan sessions and the calls that ask the user | enter, ask, submit, answer, decide | a turn pauses and a run continues it | `PlanLedger` |
| transcript (`core/transcript.py`, `frontend/src/`) | a revision and a baseline per node, in memory; what each page shows | snapshots, patches, calibration | event log, pages | `Transcript` |
| launcher (`client_launcher/`) | profiles, a session, a lease and an attempt per profile, child processes, tunnels | connect, disconnect, stop, restart, update, delete, proxy, close | local servers, ssh, proxied streams | `LauncherSessions` |
| frontend views, prompts, capabilities, slash commands, configuration, packaging | text and layout | | | not modelled |

What is hard in it, and what the properties are about:

* an event published once must reach SQLite, every stream and the recovery after
  a crash once and in order, over two transactions and a file that can each fail;
* a run, once active, must always have somebody who will finish it, whatever is
  cancelled, refused or repeated; a shutdown that reports success must be one;
* a tool call that waits for a user must act on the decision the user was told
  was taken, and no request may outlive its call, whenever a stop arrives;
* a stop must reach every layer - run, turn, provider, tool, sub-agent, command,
  process - although each of them may be between two awaits;
* a turn works on a copy of the conversation while users delete what it works on;
* versions (tasks, plans, transcripts, leases) are read at one time and used at
  another.

## 2. The modules

Each module names in its head the files it models and what it leaves out. Modules
ending in `Proofs` hold theorems, modules beginning with `MC` hold instances for
TLC. Components that share no state are checked in one run: the variable `focus`
of the `MC` module is chosen by `Init`, never changes, and says which of them a
behaviour looks at.

### RunEventLog

`rows` are the tables `runs` and `run_events` (events are a function on their
indexes, because finishing deletes all but the terminal one), `journal` the JSONL
files, `cache` the records in memory, `subs` the generators of `subscribe`, and
`pub`, `lastResult`, `told`, `seen` what an observer knows.

No method of `RunManager` suspends while it holds its lock, so that a method is
one action. The exceptions are its failures: a method that raises, or whose
process dies, between two transactions leaves what the transactions before had
committed. `MethodRaises` and `CrashInMethod` take any of those prefixes
(`Cuts`); `Publish` and `CreateRunInterrupted` are the failing journal writes.
`FinishRun` and `RequestStop` first flush the streamed events, which refuses
events that do not continue the row (`Fits`), and then go on with a realigned
record, as the code does. `Restart` runs the recovery in the order chosen by
`InterruptsFirst`: TRUE is `main.py`, FALSE is a `RunManager` built over a
repository with unfinished runs, as its tests build it.

### RunOwnership

`row`, `settled`, `fingerprint` are the durable run and whether its record in
memory is final; `at`, `follows`, `failure`, `cancelled`, `answer`, `unscheduled`,
`finishing` the tasks, barriers and pending terminalizations of
`RunStartCoordinator`; `producer`, `killed`, `unfinished`, `terminalizer` those of
`ProducerRegistry`; `continuation` the second run of a chat producer that
continues a failed one; `phase` and `tracked` how far `_close_server_resources`
is. `finish_run` has the three outcomes it has in `RunEventLog`: row and record
final; an error before the commit; an error after it, with the record still
active. An await is a pair of actions; a cancellation is noted and takes effect
at the next step of its task. A drain ends when the model says so: its tasks may
be done or the time limit may be over. `answer` is what a request returned or
raised: `reservation_error` is `RunStartReservationError`, which `_ensure_open` of a
closing coordinator raises as well as a failed reservation; `read_error` is what a
failing read of the run of a key becomes outside `_bootstrap_owner`.

### ServerLife

Several server processes and `chattree serve` starts over one home: `holders` has
the lock of the home, `life` and `starter` say where each process is, `record` is
the status of each run in SQLite and `workers` who really works on it, `admitted`
and `closed` are `MutationAdmission`, `asked` the accepted shutdown requests,
`compacting` the servers in VACUUM. The start probes the lock before it decides;
the winner interrupts all unfinished runs.

### ChatTurn, ToolRound, ProviderStream and ModelStream

`ChatTurn` is `send_message_stream` and the run around it: `turn`, `halted`,
`text`, `outcome` are the turn, its controller and its current answer, `toolRound`
and `nudges` its counters, `row` and `saved` what it leaves in SQLite, `run`,
`toStop` and `bound` the run before and after it has its node. The model is what
`ModelStream` promises: the pieces of one answer, once and in order, then one
terminal chunk.

`ToolRound` is one round of calls: `round` and `wave` the `execute_task` and the
wave of `plan_tool_call_waves`, `call` where each coroutine is, `request` and
`granted` the state of `ApprovalManager`, `waiter` and `result` the task that waits
for a decision, `told` and `ran` what an observer knows. A request lives in a task
of its own. Cancelling a call cancels that task and resolves the request in the
same step (`CancelledWith`), and the call ends one wake-up later. A task cancelled
before its first step never runs its `finally`; `WaiterCleanedUp` is the callback
that makes up for it. `Permission` stands for the verdict of the permission
engine: "always ask" is an ask rule, which no session grant satisfies.

`ProviderStream` is one call of `generate_response_stream` of one of four
protocols: `variant` the parameters in use, `failures` the retries, `upstream`
the response being read, `known` whether a response id for a resumption is known,
`output` and `tools` what has been shown, `finish` and `outcome` how it ended.
It refines `ModelStream` (section 4).

### SubagentLoop and RunTree

`SubagentLoop` is the producer of one sub-agent: rounds of tools whose approval
events go through a queue (`events`, `taken`) into the log (`told`), with a stop
event, a stream controller, the cancellation of its task and the time limit of
`wait_for`.

`RunTree` is the tree of runs: `status`, `asked`, `cancelled`, `parent` of each run,
`waits` the calls that wait for others, `process`, `held` and `killers` the
commands and those between SIGTERM and SIGKILL, `walk` and `cpu` the stop requests
that walk the tree, `closing` and `closed` the executor's shutdown. A walk is
interrupted only where it waits for a process to die.

### TaskLedger and PlanLedger

`TaskLedger`: `task` is the row of the active task with its steps, `binding` the
row that ties a run to a step, `caller` what each turn or client is doing and
which version it has seen, `note` the notifications, `owed` the finish listeners
still to be called. A turn reads a version, prepares a binding, and inserts run
and binding in one transaction; each may be stale by then.

`PlanLedger`: `plan` the sessions, `calls` the tool calls that ask the user with
their results, `turn` the turn of each node that pauses for them, `user` what a
user who decides waits for.

### ConversationTree, ModelContext and Transcript

`ConversationTree`: `conv`, `present`, `under`, `said` are the rows; a turn holds a
copy from its start to its end, which `Restored` writes back with the branch that
may have been deleted meanwhile. `deletion`, `command` and `pruning` are requests
with a suspension in them.

`ModelContext`: `above` and `rounds` the rows of a chain, `folded`, `read`, `reading`
the compactions and what they read, `prunes`, `covering` the prune summaries. `Told`
says which parts `_prepare_messages_for_api_with_conversation` hands to a model,
`Sent` how often those of a node and `ShownBefore` in which order: a node without
any round message sends its calls twice.

`Transcript`: `revision` and `emitted` are the counter and the baseline of a node,
shared by all pages; `page`, `session`, `wire`, `asked`, `wants` are each page, its
stream, the patches under way, its snapshot request and its scheduled
calibration. `Items` builds the items from rows and events.

### LauncherSessions

`profile`, `session`, `attempt`, `op` are the store, `SessionManager._sessions`, the
task of `_run_connect` and the holder of the lifecycle lock of each profile;
`issued` and `invalidated` the leases; `child`, `tunnel`, `orphans` the connectors;
`server`, `identity`, `stopping` the servers at each place. Bindings of a profile
to the identity of a server decide what an attempt may publish (`Verdict`).

## 3. Runs and what they show

| Run | Question | Bounds |
|---|---|---|
| `RunEventLog_faults` | do rows, listeners, clients and results stay right under failures, repeated starts, stops, late events and crashes | 1 run, 4 events, 2 I/O errors, 1 crash; 1 run, 2 clients, 3 events; 2 runs, 3 events each, 1 crash |
| `RunOwnership_starts` | one run, one producer, a run that is answered can be relied on and nobody who reserved one is told that none was, no orphan and a clean shutdown; nobody's work cut off between two servers; a sub-agent that is stopped ends | 3 requests for one key (one with another fingerprint), 1 further run, 2 I/O errors; 2 servers, 1 start, 2 runs, 2 mutations; 1 round of 2 calls that ask, 2 turns |
| `ToolRound_stops` | do calls act on the decisions users were told of, run only with permission, leave no request behind; does a stop reach the turn and end it, is a failure told, is one answer given | a turn of 4 calls in 3 waves and a sub-agent of 1 call on its node; 2 tool rounds, 1 reminder, 1 continuation; 4 protocols, 2 retries, 3 pieces |
| `Ledgers` | do steps, bindings and versions of the task stay consistent; do plans await one call | 1 turn, 1 client, 2 steps, 1 revision, with 2 tasks, 1 run and 1 crash or 1 task and 2 runs; 2 nodes, 2 users, 2 plans, 2 calls, 1 crash |
| `RunTree_stops` | is what hung below a stopped run asked to stop, does a stopped command die, is a drained executor empty | 1 turn, 2 agents, 1 workflow with one agent at a time, 2 commands, 2 users; "deep" with 1 agent and 1 command, "wide" with 3 runs and 1 user |
| `ConversationTree_edits` | is a turn saved before its run is done although its node is deleted; is a model told everything in order, and twice only the calls of a first run that is not over; does a page see the end of a turn, and finally what a snapshot shows | 2 turns, 3 nodes; 4 nodes, 4 parts, 1 prune summary, 1 crash; 2 runs seen by 1 page, 1 run by 2 pages, 1 by a page that loses connections |
| `LauncherSessions_leases` | is a valid lease current, does no late attempt publish, is an identity pinned, does close end everything | 2 of 2 local profiles and 1 over ssh, 3 operations (a profile kept in the file costs one), 2 places, 2 identities, 2 leases, 1 change of a server or a tunnel, 1 request |
| `RunEventLog_startup` | violated: the start-up order of `main.py` loses the result of an interrupted run | 1 run, 1 crash |
| `TaskLedger_stale` | violated: a task a turn has created is refused as stale in its next round | 1 turn, 2 revisions |
| `ConversationTree_deletion` | violated: deleting a branch deletes finished runs outside it | 1 turn, 3 nodes |
| `Transcript_restart` | violated: after a restart a page ignores the end of its turn | 1 page, 1 run |
| `ModelContext_prune` | violated: a branch is told twice after a compaction | 4 nodes, 1 prune summary |

Why these bounds are worth something. The index arithmetic of the event log has
two borders, the row's count and the record's; four events put one on either
side of each, so that a repeated, skipped or reordered index is visible. Two I/O
errors allow a failure in the handling of a failure, where the code has its
`except` clauses. Three requests allow an owner, a waiter with the same
fingerprint and one with another, in every order of arrival. In a tool round a
call meets another one as a neighbour in its wave, as a successor in the next,
through the grants of a session, or through the node whose requests a stop
cancels; each occurs once. A second task makes a version of the first one stale;
a second run makes a binding taken. Three nodes allow a turn below a branch that
is deleted, four a compaction below another one. Two retries allow a failure
after a success and the last one. In the launcher a second profile is what
another one's binding and target conflict with, and one change of a server is
what an identity is compared for. Between them the passing runs fire every action
of the modules. Bounds are guards of actions and named where they are declared.
Symmetry is used in `ConversationTree_edits`, whose properties are no liveness.

Every property of a passing run has a mutant: a definition changed the way a
plausible bug would change the code (a dropped guard, a missing reset, a swapped
order), which makes TLC find the property violated. Their definitions stand
beside the real ones, commented "mutated form".

### Fairness

asyncio runs every task that is ready, so that weak fairness is assumed of the
steps of tasks that are ready or whose await has a time limit, and of nothing
that users, clients, upstreams or tools decide on their own.

| Module | Weak fairness of | Because |
|---|---|---|
| `RunEventLog` | `Poll` | a generator whose signal is set is ready |
| `RunOwnership` | the steps of each request, producer, callback and `finish_run` while the server lives | ready tasks; a producer's end rests on the limits of its model client. Not assumed: `Spawn`, `Cancel`, a first request, any step of the shutdown |
| `ToolRound` | the steps of each call with its waiting task, of each round, and `NoticeStop` | ready tasks; tools end or are cancelled; stops are polled every 50 ms |
| `ChatTurn` | a run that was created begins or is refused; a model that is stopped answers; tools that are stopped end | the two modules above and below |
| `ProviderStream` | `Retry`, `AwaitOrStop` | the delay ends; the read is raced with the stop |
| `SubagentLoop` | `Produce`, `Takes` | ready tasks |
| `RunTree` | cancelled producers, spawns, SIGKILL and its return, the end of a command whose process is gone, the steps of walks, `CloseKills` | ready tasks and the kernel |
| `TaskLedger` | `CancelStopsIt`, the finish of a run that is stopping, `Interrupt`, `Restart` | a crashed server is started again |
| `LauncherSessions` | the steps of operations and attempts, of forwarded requests, of the shutdown | every await there has a time limit |

`RunsEnd` and `RequestsAnswered` speak of a server that lives; a continuation is
looked at without I/O errors. `PlanLedger`, `ConversationTree`, `Transcript` and
`ModelContext` have no liveness properties: what ends there is up to users.

## 4. Proofs

TLAPS proves the following for every value of the constants, under the
assumptions the modules state about them (`RunEventLogAssumption`, ...), which
TLC evaluates in the runs.

| Module | Theorem | Property |
|---|---|---|
| `RunEventLogProofs` | `Invariance`, `RowsStayWellFormed`, `FinishedStaysFinal`, `ListenersHearTheTruth` | `IInv`, `RowsWellFormed`, `FinishedIsFinal`, `ToldTheTruth` |
| | `StoppedRunsStayStopped`, `OnlyFaultsFailRuns`, `EndedRunsKeepResults`, `ResultsAreKept` | `StopNeverResumes`, `OnlyFaultsFail`, `EndedKeepsResult`, `ResultKept` |
| | `RecoveryIsComplete`, `SubscribersAreExact` | `RecoveryComplete`, `SubscriberExact` |
| `RunOwnershipProofs` | of `RunOwnership`: `OneProducerPerRun`, `NothingOrphaned`, `ShutdownIsClean` | `OneProducer`, `NoOrphan`, `CleanShutdown` |
| | `AnswersAreTrue` | `AnswerIsTrue` |
| | of `ServerLife`: `OneServerPerHome`, `NoWorkIsCutOff` | one server per home, `NothingCutOff` |
| | of `SubagentLoop`: `ApprovalsAreLogged` | `ApprovalsLogged` |
| `LedgerProofs` | of `TaskLedger`: `LedgerIsConsistent`, `VersionIsEnough` | `LedgerInv`, `SeenIsCurrent` |
| | of `PlanLedger`: `OneCallIsAwaited`, `DecisionsAreFinal` | `OnePlanAwaitsOneCall`, `DecidedOnce` |
| `ToolRoundProofs` | of `ToolRound`: `RequestsAreAwaited`, `ToolsArePermitted`, `DecisionsAreKept`, `StoppedTurnsAskNobody`, `DecisionsComeInTime` | `RequestIsAwaited`, `RunsOnlyPermitted`, `DecisionIsKept`, `StoppedTurnAsksNobody`, `AcceptedWhileAsking` |
| | of `ChatTurn`: `FailuresAreTold`, `NoRoundAfterAStop`, `StopsReach`, `StoppedStaysStopped` | `FailureIsTold`, `NoRoundAfterStop`, `StopReaches`, `StoppedIsNotContinued` |
| `ProviderStreamProofs` | `ImplementsModelStream`, `StopsWereSaid` | the refinement, `StopWasSaid` |
| `RunTreeProofs` | `DrainedMeansEmpty`, `WholeTreeIsAsked` | `DrainedIsEmpty`, `WholeTreeAsked` |
| `ConversationProofs` | of `ConversationTree`: `AnswersAreKept`, `BranchesAreWhole` | `SavedBeforeDone`, no row without its parent's row |
| | of `Transcript`: `EndsAreNoticed`, `SettledViewsAreExact` | `EndIsNoticed`, `SettledViewIsExact` |
| | of `ModelContext`: `ModelsAreToldAll` | `ToldWhole` |
| `LauncherSessionsProofs` | `LeasesAreCurrent`, `ReadySessionsAreWanted`, `IdentitiesArePinned`, `ClosedLauncherIsDown` | `LeaseIsCurrent`, `ReadyIsWanted`, `IdentityIsPinned`, the safety half of `CloseEnds` |

None of the invariants is inductive as it stands; what each proof adds:

* **`RunEventLog`**. That listeners are not told twice depends on the record in
  memory being final once they were told, and that a final row never changes
  depends on no flush or recovery reaching it. `IInv` adds, per run: a known
  record has a row; a cached terminal event is the stored one and lies below the
  row's count (`CacheBehindRow`), so no later flush takes it again; a journal
  holds no terminal event, so no recovery does either; and what the listeners
  heard is the row's status, final in SQLite and in memory (`HeardIsSettled`). The
  invariant is a conjunction over runs (`Good`), and a step concerns one run or
  two (`GoodStep`, `OneRun`); rows move only forward (`Moves`). The assumptions
  include that the community modules' definitions of `Min`, `Max` and `Last` are
  those the model uses.
* **Undisturbed runs** (`RunEventLog`). What a client reads and what a run ends with
  depend on where each event is at the moment: in the row, in the event list, in
  the journal, or in several of them. `QuietNow` says, until an I/O error happens
  or a start is repeated, that every run has a log, the payloads published for it
  in their order, of which the row has a beginning, and the event list and the
  journal together with the row all of it (`Logged`); so each flush and each
  recovery fits, none fails its run, and the terminal event is made with the last
  result in the row (`Settled`). `SubscriberExact` adds that a run which is active
  or subscribed to has its whole log in the event list, each payload at its place
  (`Whole`), and that a generator has yielded as much as its position says
  (`SeenInOrder`). `Keeps` is the hypothesis of that theorem: main.py interrupts
  the runs it finds before it builds `RunManager`, or the process does not die.
  In the other order, that of the repository's tests, a recovered run may be read
  again while its record has the count and not the events, and a run that then
  ends before the first turn of the generator does not show them. `Recovers` is
  the hypothesis of `ResultsAreKept` and the opposite order: with the one of
  main.py the results of interrupted runs are lost, which is a finding.
* **`RunOwnership`**. `Core` says that a settled record has a final row, that a
  barrier has one owner, and counts the producers of a run along the states of
  its owner. `NobodyLost` is `NoOrphan` in the form a step preserves. `Closing`
  says what each drain has left behind, up to `CleanShutdown`. `NoOrphan` and
  `CleanShutdown` rest on `NoFaultyContinuation`: with continuations only
  `finish_run` that does not fail, since otherwise a continued run is nobody's
  (see below). `AnswerIsTrue` needs no such hypothesis, and another invariant,
  `Truthful`: an active run of a key has been launched, or has an owner, or an entry
  in the coordinator's list (`Relied`), so that a request which finds neither
  barrier nor entry may rely on the run; who is followed by others has reserved
  the run of their key, and is not answered that nothing was reserved (`Followed`);
  and a request that has not looked for a barrier follows nobody (`Beginning`). The
  theorem does not say that `RunStartReservationError` means an unused key, which is
  false (section 5). It says who may get the error although the key has a run: only a
  request that a closing coordinator or a failing read turned away
  from a run it has neither reserved nor waited for (`Unadmitted`).
* **`ServerLife`**. `LifeInv`: who starts or serves has the lock; who works on a run
  lives; who accepted a shutdown is closed, and idle from then on.
* **`SubagentLoop`**. `NothingLost`: what the tools have emitted is what the log
  has, then what the getter holds, then what is queued. The order matters at each
  of the places where the getter may be cancelled.
* **`TaskLedger`**. `Remembered`: the generations a caller has seen have been
  created, and an equal version means equal steps.
* **`ToolRound`**. `DecisionIsKept` speaks of what a call does at the end and of
  what the user was told at the beginning, with two tasks between them. `IInv`
  ties them together: a request exists exactly as long as its task has not cleaned
  it up (`Asks`), the request and the result of the task agree with what the user
  was told (`Answered`), a call in flight is in the current wave of a running
  round (`Placed`), and a grant goes back to an approval for the session
  (`GrantsTold`).
* **`ChatTurn`**. `TurnInv`: which run the turn in progress belongs to, that at most
  one run is at work (`AtWork`), that the second one continues the first
  (`ContinuesTheFirst`), and that a run asked to stop exists.
* **`PlanLedger`**. `PlanInv`: at most one session is open (`OneIsOpen`), what it
  waits for is a call of the right kind that nobody has decided (`WhatIsAwaited`),
  and only calls that were made have a decision (`MadeFirst`).
* **`RunTree`**. `TreeInv` relates processes to the commands they run
  (`ProcessesHaveRuns`), what a closing executor still knows to what it has to kill
  (`ClosedAreKnown`), and, for a walk, what hung below its root to what it has
  asked, has still to visit, or is below a run it has still to visit
  (`NobodyMissed`); a run that is moved away leaves the tree with all below it.
* **`ConversationTree`**. `TreeInv`: what turns and rows speak of was made once, so
  that no new node takes the place of one a turn remembers (`Knows`,
  `RowsAreMade`); a row has its parent's row (`Whole`), for which a copy that is
  written back must bring the whole chain of its node; and the messages of a node
  and the targets of its runs go in the same deletion. `Chain` is defined as the
  least set with the node that is closed under parents, which gives the proof an
  induction without recursion.
* **`ModelContext`**. A compaction reads the chain as earlier summaries have cut it,
  so what those lack it lacks too. `Summarised` says that a summary lacks only what
  came late for a summary above it, and `LateGrows` that this stays true while the
  nodes above go on; `SummariesSuffice` is then `NothingForgotten`. `Numbering` says
  of each part whether its run has ended and numbered it, and that without a crash
  the next run begins at the next number (`FirstRoundIs`), so that the first part of
  a node that is not in its first run has a message (`FirstRoundHasMessage`) and its
  calls are sent once. `ContextChain` is a
  recursive function; that it is the least set closed under parents (`ChainIs`), and
  hence that two nodes of a chain are one above the other (`ChainIsLinear`), rests on
  parents being older (`ContextShape`).
* **`Transcript`**. Rows, events and items are first typed (`BaseInv`); no two items
  of a node have one id (`ItemsAreThings`), so that a patch turns the baseline into
  the items it was made from (`PatchIsExact`). `OrderInv`: in one life of the
  server, of two things on their way to a page or shown by it the one with the
  later revision was computed later; `LastsInv`: the last patch of a stream is the
  last one under way. Together they give `EndIsNoticed`. `ViewInv` postulates a
  history, the items the server had at each revision: every page shows the items of
  its revision, is answered with those of the answer's, and each patch leads from
  one revision to the next (`PageView`); a page that has read its stream to the end
  has caught up, or has asked or will ask; and then the baseline is the stream at
  the end of the log (`ReadToEnd`). That this stream and the rows give the same
  items is `FinalView`, by cases of how the turn ended.
* **`LauncherSessions`**. `SessionsInv` ties, for each profile, the session to its
  lease, its binding and the attempt that may still publish (`ReadySession`,
  `Bindings`): a lease is ended in the step that replaces the session it belongs
  to, and an attempt publishes only as the current one. `ClosingInv` says what each
  stage of a shutdown has left behind, and what can no longer begin.
* **`ProviderStream`**. `StreamInv` ties the pieces shown to the pieces the upstream
  has sent, for each state in which a retry may begin; that a new attempt begins
  only where nothing was shown, or resumes behind what was.

**Refinement.** `ProviderStream` implements `ModelStream`: its chunks are the
abstract answer. TLC checks the whole of it (`OneAnswer`, with its liveness: a
stop brings the end); `ImplementsModelStream` proves the initial states and the
steps. Both concern the Responses protocol without a base URL (`OwnUrl`): with
one, a refused resumption begins the answer again (see below). `ChatTurn` is
written over `ModelStream`, and `RunOwnership` over the outcomes of `finish_run`
in `RunEventLog`; neither knows more of the part below it.

**Only model-checked.** All liveness, which the prover cannot treat under fairness:
`SubscriberEnds`, `RequestsAnswered`, `RunsEnd`, `StoppedAgentEnds`, `StopEnds`,
`AskedRunsEnd`, `CancelledRunEnds`, `StoppedCommandDies`, `CloseEnds` and that of
`OneAnswer`. `PrunedApart` is a property that the code does not have; it and the
other violated ones are below.

## 5. Where the code differs from what is said of it

The five violated runs each quote the line that promises what does not hold; see
`findings` in PROJECT.json.

A sixth difference has no run of its own, because the property that a run checks,
`AnswerIsTrue`, states it as the exception it is (`Unadmitted`).
`core/runs/start_service.py` 41 says of `RunStartReservationError` "Reservation failed
before any canonical run ID was committed." `_ensure_open` (322-324, called at 84 and
121) raises it while the coordinator is closing, without looking whether the key has
a run, and `_bootstrap_owner` (259) when the run of the key cannot be read, which
`tests/test_run_start_coordinator.py` 416-420 expects. Without `Unadmitted` TLC finds
the first in five states: a request is bootstrapping its run, the coordinator closes, and a
second request of the key is told that nothing was committed. The HTTP interface
answers this error and the one of a start that was not scheduled with a 500 that does
not tell them apart (`api/run_start.py` 104). uvicorn waits for open requests before the
lifespan ends, so that a closing coordinator is met by requests that outlast that wait
and by callers within the process.

Met while modelling, kept in the models as the code has them, and contradicting
no line of the repository, or checked only where they cannot occur:

* A node without any round message sends each of its calls and results twice, first
  all of them and then all of them again (`chat_manager.py` 3409, 3448): the turns
  below a node that is at work in its first run, and every turn that reads a node
  whose first run a crash has cut. `ToldInOrder` says that this is the only case
  without a crash; after one, calls of two runs of a node may also be mixed, since
  `call_index` begins again with each run (`chat_manager.py` 1546, 2003).
* A repeated start loads the rows of a run over its record (`run_manager.py`
  1234); events that only the memory has are lost, and the finish may then fail
  the run. `Undisturbed` therefore excludes runs after a repeated start.
* A creation whose journal write fails is reported as having no terminal event
  (`run_manager.py` 351).
* A continued run whose `finish_run` fails is held by nobody (`messages.py` 448).
* With a base URL, a Responses stream whose resumption is refused begins anew and
  repeats what was shown (`openai_compatible.py` 643).
* A tunnel whose clean-up is cancelled has left the table, and its process stays
  (`ssh_connector.py` 207); `orphans` has it, `CloseEnds` speaks of known tunnels.
* A crash between the finish of a run and its listeners loses the notification.
* A stop after the last piece gives a message "stopped" on a completed run.
* A plan's decision stands although the run that should act on it was refused
  because of another writer.
* A turn that is finalized after the deletion of its branch puts the branch back.
* A foreground command may outlive its sub-agent; a descendant that holds the
  output of a command keeps it from ending until the reader lets go.

## 6. What is not modelled

* Failing reads, except for those of the run of a key in `RunOwnership`; a torn last
  line of a journal, the loss of a committed
  transaction with the operating system (`synchronous=NORMAL`), a JSONL-only
  repository.
* Payloads, texts, token counts, usage, titles, request formats of the providers,
  and the tokens of subscriptions (`auth/subscription.py`).
* In `ToolRound`: approval requests with a timeout, which nothing configures;
  announcements that fail (`chat_manager.py` 3616); tools that ignore a
  cancellation; a plan tool that changes the permission mode between waves. The
  verdicts of the permission engine and the sandbox are parameters.
* In `ChatTurn`: side questions and regeneration; in `SubagentLoop`: messages to a
  mailbox; in `RunTree`: the language of workflows, `taskkill`, processes that
  survive SIGKILL.
* In `LauncherSessions`: the installation of a server on a host, chunks of a
  proxied body, failing writes of the profiles file, `mark_error`, which nothing
  calls.
* In `Transcript`: the order and wording of items, temporary identifiers, the list
  of conversations.
* `start_delivery`, `mark_delivered` and `mark_failed` of the notifications, which
  nothing in the program calls.
* Rendering, prompts, capabilities, slash commands, configuration, scripts and
  packaging: they load and format text and keep no state that a step of another
  part could break.

What could follow: the transcript over the
event log of `RunEventLog` instead of a log of its own; the mailbox of sub-agents;
and the refresh of subscription tokens by two requests at once.
