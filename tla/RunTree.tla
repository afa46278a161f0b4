-------------------------------- MODULE RunTree --------------------------------
(***************************************************************************)
(* The runs of a conversation as a tree: chat turns and sub-agents with    *)
(* the commands their shell tool waits for, workflows with the agents they *)
(* call, the stop that walks the tree, and the shutdown of the command     *)
(* executor (backend/core/command_runtime.py, tools/code/run_command.py,   *)
(* agents/subagent_executor.py, agents/runtime.py, workflows/ and          *)
(* api/routes/run_control.py).                                             *)
(*                                                                         *)
(* All of this runs in one event loop.  A run manager call does not        *)
(* suspend, so that a walk is interrupted only where it waits for a        *)
(* process to die; cpu is the walk that holds the event loop.              *)
(*                                                                         *)
(* Not covered: what turns and agents say to the model (ChatTurn,          *)
(* ToolRound), failing writes (RunEventLog), messages between agents,      *)
(* Windows' taskkill, processes that survive SIGKILL.                      *)
(***************************************************************************)
EXTENDS FiniteSets, Sequences, SequencesExt

CONSTANTS
    Chats, Agents, Workflows, Commands,  \* the runs, by kind
    Stoppers,     \* requests to stop a run
    MaxParallel,  \* budget.max_parallel of a workflow
    None

Runs == Chats \cup Agents \cup Workflows \cup Commands
Turns == Chats \cup Agents

ASSUME RunTreeAssumption ==
    /\ IsFiniteSet(Runs) /\ None \notin Runs \cup Stoppers
    /\ Cardinality(Runs) = Cardinality(Chats) + Cardinality(Agents) + Cardinality(Workflows) + Cardinality(Commands)

VARIABLES
    status,     \* of each run: "none", "active" or "finished"
    asked,      \* the active runs whose stop_event is set
    cancelled,  \* those whose producer is cancelled or, for a turn, whose controller is set
    parent,     \* cancellation_parent_run_id
    waits,      \* the runs that the tool calls and host calls of a run wait for
    process,    \* of each command: "none", "alive" or "exited"
    held,       \* the commands whose output a descendant holds
    killers,    \* who is in _kill_process_tree, between SIGTERM and SIGKILL
    coming,     \* the stop requests that are still to come
    walk,       \* of each stop_run_tree: the runs that are still to be visited
    cpu,        \* the walk that runs, or None
    below,      \* history: what hung below the root of a walk when it began
    closing,    \* of the command executor: "open", "closing", "drained", "gave_up"
    closed      \* the commands its close takes care of

tree == <<status, asked, cancelled, parent, waits>>
processes == <<process, held, killers>>
stops == <<coming, walk, cpu, below>>
close == <<closing, closed>>
vars == <<tree, processes, stops, close>>

-----------------------------------------------------------------------------
(* Helpers *)

Active(r) == status[r] = "active"

\* list_active_cancellation_children
Children(r) == {q \in Runs : Active(q) /\ parent[q] = r}

\* Nothing else happens while a walk does not wait.
Loop == cpu = None

\* A run that hangs below p, or below nothing
Created(r, p) ==
    /\ status[r] = "none"
    /\ status' = [status EXCEPT ![r] = "active"]
    /\ parent' = [parent EXCEPT ![r] = p]

Asks(set) == asked' = asked \cup {r \in set : Active(r)}

\* finish_run, after which nobody looks at the flags of the run
Finishes(r) ==
    /\ status' = [status EXCEPT ![r] = "finished"]
    /\ asked' = asked \ {r} /\ cancelled' = cancelled \ {r}

\* mutated form: a workflow is not followed, its manager stops its agents
ListedUnlessWorkflow(r) == IF r \in Workflows THEN {} ELSE Children(r)

\* The runs that a walk goes on to from r
Listed(r) == Children(r)

-----------------------------------------------------------------------------
(* Turns, agents and workflows *)

StartChat(r) ==
    /\ Loop /\ r \in Chats /\ closing = "open"
    /\ Created(r, None)
    /\ UNCHANGED <<asked, cancelled, waits, processes, stops, close>>

\* spawn_agent and the agent tool's workflow: nothing waits for them and no stop
\* of the turn reaches them.
Spawn(p, r) ==
    /\ Loop /\ Active(p) /\ closing = "open"
    /\ p \in Turns /\ r \in Agents \cup Workflows
    /\ Created(r, None)
    /\ UNCHANGED <<asked, cancelled, waits, processes, stops, close>>

\* WorkflowRuntimeBridge._agent
HostCall(w, a) ==
    /\ Loop /\ Active(w) /\ w \in Workflows /\ a \in Agents /\ closing = "open"
    /\ Cardinality(waits[w]) < MaxParallel
    /\ Created(a, w)
    /\ waits' = [waits EXCEPT ![w] = @ \cup {a}]
    /\ UNCHANGED <<asked, cancelled, processes, stops, close>>

\* The call returns when the run is over.
CallReturns(p, r) ==
    /\ Loop /\ Active(p) /\ r \in waits[p] /\ status[r] = "finished"
    /\ waits' = [waits EXCEPT ![p] = @ \ {r}]
    /\ UNCHANGED <<status, asked, cancelled, parent, processes, stops, close>>

\* The end of a turn, an agent or a workflow; the runner of a workflow gathers
\* its host calls before.
Ends(r) ==
    /\ Loop /\ Active(r) /\ r \notin Commands /\ waits[r] = {}
    /\ Finishes(r)
    /\ UNCHANGED <<parent, waits, processes, stops, close>>

\* The agents a run stops when its calls are cancelled
StoppedWith(r) == IF r \in Workflows THEN waits[r] ELSE {}

\* A cancelled producer, and one that ran into the limit of its time: the calls
\* it waits for are given up.
GivesUp(r) ==
    /\ Active(r) /\ r \notin Commands
    /\ status' = [status EXCEPT ![r] = "finished"]
    /\ waits' = [waits EXCEPT ![r] = {}]
    /\ LET stopped == {a \in StoppedWith(r) : Active(a)}
       IN  asked' = (asked \ {r}) \cup stopped /\ cancelled' = (cancelled \ {r}) \cup stopped
    /\ UNCHANGED <<parent, processes, stops, close>>

Cancelled(r) == Loop /\ r \in cancelled /\ GivesUp(r)

\* timeout_seconds of an agent, max_seconds of a workflow
TimesOut(r) == Loop /\ r \in Agents \cup Workflows /\ GivesUp(r)

\* WorkflowManager.stop, SubagentExecutor.stop, ChatManager.stop_stream
StopProducer(r) ==
    LET agents == IF r \in Workflows THEN Children(r) \cap Agents ELSE {}
    IN  /\ Asks({r} \cup agents)
        /\ cancelled' = cancelled \cup {q \in {r} \cup agents : Active(q)}

\* close_agent and interrupt_agent, for an agent or a workflow
Interrupt(r) ==
    /\ Loop /\ Active(r) /\ r \in Agents \cup Workflows /\ r \notin cancelled
    /\ StopProducer(r)
    /\ UNCHANGED <<status, parent, waits, processes, stops, close>>

-----------------------------------------------------------------------------
(* Commands *)

\* mutated form: a command is started while the executor closes
AdmittedAlways == TRUE

Admitted == closing = "open"

\* The shell tool starts a command and waits for it.
Shell(p, c) ==
    /\ Loop /\ Active(p) /\ p \in Turns /\ c \in Commands /\ Admitted
    /\ Created(c, p)
    /\ waits' = [waits EXCEPT ![p] = @ \cup {c}]
    /\ UNCHANGED <<asked, cancelled, processes, stops, close>>

\* After shell_initial_wait_seconds the command is on its own.
Background(p, c) ==
    /\ Loop /\ Active(p) /\ c \in waits[p] \cap Commands /\ Active(c)
    /\ waits' = [waits EXCEPT ![p] = @ \ {c}]
    /\ parent' = [parent EXCEPT ![c] = None]
    /\ UNCHANGED <<status, asked, cancelled, processes, stops, close>>

\* mutated form: the producer does not ask again once it has its process
StopLost(c) == FALSE

StopSeen(c) == c \in asked

\* create_subprocess_exec has returned.
Spawned(c) ==
    /\ Loop /\ Active(c) /\ process[c] = "none"
    /\ process' = [process EXCEPT ![c] = "alive"]
    /\ killers' = [killers EXCEPT ![c] = IF StopSeen(c) THEN @ \cup {"producer"} ELSE @]
    /\ UNCHANGED <<tree, held, stops, close>>

\* It has raised.
SpawnFails(c) ==
    /\ Loop /\ Active(c) /\ process[c] = "none"
    /\ Finishes(c)
    /\ UNCHANGED <<parent, waits, processes, stops, close>>

Dies(c) ==
    /\ process[c] = "alive"
    /\ process' = [process EXCEPT ![c] = "exited"]
    /\ held' \in {held, held \cup {c}}

\* By itself, or by SIGTERM.
Exits(c) == Loop /\ Dies(c) /\ UNCHANGED <<tree, killers, stops, close>>

\* Two seconds after SIGTERM
SigKill(c, k) ==
    /\ Loop /\ k \in killers[c] /\ Dies(c)
    /\ killers' = [killers EXCEPT ![c] = @ \ {k}]
    /\ UNCHANGED <<tree, stops, close>>

KillReturns(c, k) ==
    /\ Loop /\ k \in killers[c] /\ process[c] = "exited"
    /\ killers' = [killers EXCEPT ![c] = @ \ {k}]
    /\ UNCHANGED <<tree, process, held, stops, close>>

LetsGo(c) ==
    /\ Loop /\ c \in held
    /\ held' = held \ {c}
    /\ UNCHANGED <<tree, process, killers, stops, close>>

\* The readers have come to the end of the output.
CommandEnds(c) ==
    /\ Loop /\ Active(c) /\ process[c] = "exited" /\ c \notin held /\ "producer" \notin killers[c]
    /\ Finishes(c)
    /\ UNCHANGED <<parent, waits, processes, stops, close>>

-----------------------------------------------------------------------------
(* stop_run_tree *)

\* What hangs below r, to the depth that trees of runs have: a workflow, its
\* agents, their commands
Under(r) == LET one == Children(r) IN one \cup UNION {Children(q) : q \in one}

\* A user stops a run.
Stop(u, r) ==
    /\ Loop /\ Active(r) /\ u \in coming
    /\ coming' = coming \ {u}
    /\ walk' = [walk EXCEPT ![u] = <<r>>]
    /\ below' = [below EXCEPT ![u] = {r} \cup Under(r)]
    /\ cpu' = u
    /\ UNCHANGED <<tree, processes, close>>

\* Its producer is stopped, then its children are listed; where a process has to
\* be killed, the walk waits for that.
Visit(u) ==
    /\ cpu = u
    /\ LET r == Head(walk[u])
           kills == r \in Commands /\ process[r] = "alive"
       IN  /\ IF r \in Commands THEN Asks({r}) /\ UNCHANGED cancelled ELSE StopProducer(r)
           /\ killers' = IF kills THEN [killers EXCEPT ![r] = @ \cup {u}] ELSE killers
           /\ \E order \in SetToSeqs(Listed(r)) :
                  /\ walk' = [walk EXCEPT ![u] = order \o Tail(@)]
                  /\ cpu' = IF kills \/ walk'[u] = <<>> THEN None ELSE u
                  /\ below' = IF walk'[u] = <<>> THEN [below EXCEPT ![u] = {}] ELSE below
    /\ UNCHANGED <<status, parent, waits, process, held, coming, close>>

Waiting(u) == \E c \in Commands : u \in killers[c]

\* It goes on with the runs that it has listed before.
Resume(u) ==
    /\ Loop /\ walk[u] # <<>> /\ ~Waiting(u)
    /\ cpu' = u
    /\ UNCHANGED <<tree, processes, coming, walk, below, close>>

-----------------------------------------------------------------------------
(* Shutdown *)

\* begin_close of the producer registry, close of the command executor: commands
\* are stopped, processes that are there are killed.
Close ==
    /\ Loop /\ closing = "open"
    /\ closing' = "closing"
    /\ closed' = {c \in Commands : Active(c)}
    /\ Asks(Commands)
    /\ cancelled' = cancelled \cup {r \in Runs \ Commands : Active(r)}
    /\ killers' = [c \in Commands |->
                      IF Active(c) /\ process[c] = "alive" THEN killers[c] \cup {"close"} ELSE killers[c]]
    /\ UNCHANGED <<status, parent, waits, process, held, stops>>

\* A process that appears meanwhile

CloseKills(c) ==
    /\ Loop /\ closing = "closing" /\ c \in closed
    /\ process[c] = "alive" /\ "close" \notin killers[c]
    /\ killers' = [killers EXCEPT ![c] = @ \cup {"close"}]
    /\ UNCHANGED <<tree, process, held, stops, close>>

CloseEnds ==
    /\ Loop /\ closing = "closing"
    /\ \/ /\ \A c \in closed : status[c] = "finished" /\ "close" \notin killers[c]
          /\ closing' = "drained"
       \/ closing' = "gave_up"
    /\ UNCHANGED <<tree, processes, stops, closed>>

-----------------------------------------------------------------------------
Init ==
    /\ status = [r \in Runs |-> "none"] /\ asked = {} /\ cancelled = {}
    /\ parent = [r \in Runs |-> None] /\ waits = [r \in Runs |-> {}]
    /\ process = [c \in Commands |-> "none"] /\ held = {} /\ killers = [c \in Commands |-> {}]
    /\ coming = Stoppers /\ walk = [u \in Stoppers |-> <<>>] /\ cpu = None /\ below = [u \in Stoppers |-> {}]
    /\ closing = "open" /\ closed = {}

RunStep(r) ==
    \/ StartChat(r) \/ Ends(r) \/ Cancelled(r) \/ TimesOut(r) \/ Interrupt(r)
    \/ \E q \in Runs : Spawn(r, q) \/ HostCall(r, q) \/ CallReturns(r, q) \/ Shell(r, q) \/ Background(r, q)

CommandStep(c) ==
    \/ Spawned(c) \/ SpawnFails(c) \/ Exits(c) \/ LetsGo(c) \/ CommandEnds(c) \/ CloseKills(c)
    \/ \E k \in Stoppers \cup {"producer", "close"} : SigKill(c, k) \/ KillReturns(c, k)

StopStep(u) == Visit(u) \/ Resume(u) \/ \E r \in Runs : Stop(u, r)

Next ==
    \/ \E r \in Runs : RunStep(r)
    \/ \E c \in Commands : CommandStep(c)
    \/ \E u \in Stoppers : StopStep(u)
    \/ Close \/ CloseEnds

\* The event loop runs what is ready and its timers, the operating system starts
\* processes and kills them.  Nothing is assumed of how long a command, an agent
\* or a user takes, nor of a process that a command leaves behind.
Fairness ==
    /\ \A r \in Runs : WF_vars(Cancelled(r))
    /\ \A c \in Commands :
        /\ WF_vars(Spawned(c) \/ SpawnFails(c))
        /\ WF_vars(\E k \in Stoppers \cup {"producer", "close"} : SigKill(c, k) \/ KillReturns(c, k))
        /\ WF_vars(CommandEnds(c)) /\ WF_vars(CloseKills(c))
    /\ \A u \in Stoppers : WF_vars(Visit(u)) /\ WF_vars(Resume(u))

Spec == Init /\ [][Next]_vars /\ Fairness

-----------------------------------------------------------------------------
(* Properties *)

\* A stop takes the tree with it: when the walk is over, every run that hung
\* below its root at the beginning has been asked to stop, is finished, or was
\* moved to the background meanwhile, although runs end and change while the
\* walk waits for processes (stop_run_tree).
WholeTreeAsked ==
    [][\A u \in Stoppers : walk[u] # <<>> /\ walk'[u] = <<>> =>
           \A r \in below[u] : r \in asked' \/ status'[r] = "finished" \/ parent'[r] = None]_vars

\* A command executor that reports to be drained has left no process and no
\* command that is not finished, even of a turn that goes on while it closes.
DrainedIsEmpty ==
    closing = "drained" => \A c \in Commands : process[c] # "alive" /\ ~Active(c)

\* A command that was asked to stop dies, whether its process was there already
\* or not, and its run finishes unless something that it has started holds on to
\* its output (stop, close and _run_process of the command executor).
StoppedCommandDies == \A c \in Commands : c \in asked ~> status[c] = "finished" \/ c \in held

=============================================================================
