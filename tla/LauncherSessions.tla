--------------------------- MODULE LauncherSessions ---------------------------
(***************************************************************************)
(* The client launcher: profiles, their sessions with servers, the         *)
(* connection attempts through the local and the ssh connector, the leases *)
(* under which the proxy forwards requests, and the shutdown               *)
(* (client_launcher/sessions.py, profiles.py, local_server.py,             *)
(* ssh_connector.py, proxy.py, app.py).                                    *)
(*                                                                         *)
(* The launcher is one asyncio loop.  A step is what a task does between   *)
(* two suspensions; SessionManager._guard is never held across one, so it  *)
(* adds no steps.  A profile's lifecycle lock is held by its operation     *)
(* (op).  The server behind a profile is at a place: the home and port of  *)
(* a local profile, the host of an ssh profile.                            *)
(*                                                                         *)
(* Not covered: mark_error, which the launcher never calls; handlers that  *)
(* are cancelled (uvicorn lets them end before it closes the sessions);    *)
(* the chunks of a proxied body; failing writes of the profiles file.      *)
(***************************************************************************)
EXTENDS Naturals, FiniteSets

CONSTANTS
    LocalProfiles, SshProfiles,
    Default,        \* the local profile that always exists
    DefaultTarget,  \* its home and port
    AutoConnect,    \* the profiles connected when the launcher starts
    Targets,        \* homes and ports of local servers
    Instances,      \* identities of servers
    Requests,       \* proxied requests
    ReversePort,    \* whether a tunnel carries the reverse proxy
    None,
    MaxUsed,        \* bound: profiles that exist at any time
    MaxOps,         \* bound: operations on profiles that exist
    MaxLeases,      \* bound: sessions that become ready
    MaxChanges      \* bound: servers and tunnels that come or go on their own

Profiles == LocalProfiles \cup SshProfiles
Places == Targets \cup SshProfiles

ASSUME LauncherAssumption ==
    /\ Default \in LocalProfiles /\ DefaultTarget \in Targets /\ AutoConnect \subseteq LocalProfiles
    /\ LocalProfiles \cap SshProfiles = {} /\ Targets \cap SshProfiles = {}
    /\ None \notin Nat \cup Instances \cup Profiles \cup Places
    /\ ReversePort \in BOOLEAN
    /\ MaxUsed \in Nat /\ MaxOps \in Nat /\ MaxLeases \in Nat /\ MaxChanges \in Nat

VARIABLES
    profile,      \* ProfileStore: state, binding and target of each profile
    session,      \* SessionManager._sessions: status, instance and lease
    attempt,      \* the task of _run_connect of each profile
    op,           \* the operation that holds the lifecycle lock of each profile
    issued,       \* the leases issued so far: 1 .. issued
    invalidated,  \* the leases whose event is set
    phase,        \* how far SessionManager.close is
    (* the connectors *)
    child,        \* LocalServerConnector._spawned_processes, by target
    tunnel,       \* SshServerConnector._tunnels
    orphans,      \* the tunnels whose process nobody ends any more
    (* the world *)
    server,       \* the instance that listens at each place
    identity,     \* the instance a server started at a place has
    stopping,     \* the places whose server has accepted to stop
    request,      \* the proxied requests
    wanted,       \* observer: the profiles last asked to connect
    used,         \* bound: the profiles of this behaviour
    ops, changes

connectors == <<child, tunnel, orphans>>
world == <<server, identity, stopping>>
leases == <<issued, invalidated>>
vars == <<profile, session, attempt, op, leases, phase, connectors, world, request, wanted, used, ops, changes>>

-----------------------------------------------------------------------------
(* States of the parts *)

Present == {p \in Profiles : profile[p].state = "present"}
PlaceOf(p) == IF p \in SshProfiles THEN p ELSE profile[p].target

FreshSession == [status |-> "disconnected", instance |-> None, lease |-> None]

NoAttempt == [at |-> "none", current |-> FALSE, cancelled |-> FALSE, rebind |-> None, background |-> FALSE]
Awaiting == {"clearing", "version", "remote", "handshake", "probe", "waiting"}
NewAttempt(r, b) ==
    [at |-> "scheduled", current |-> TRUE, cancelled |-> FALSE, rebind |-> r, background |-> b]

NoOp == [name |-> "none", step |-> "none", expected |-> None]
Op(n, s, e) == [name |-> n, step |-> s, expected |-> e]
Free(p) == op[p] = NoOp

NoRequest == [at |-> "idle", lease |-> None]
EndedRequest == [at |-> "over", lease |-> None]

-----------------------------------------------------------------------------
(* ProfileStore: bindings and targets are unique among the profiles *)

BoundElsewhere(p, i) == \E q \in Present \ {p} : profile[q].bound = i
TargetTaken(p, t) == \E q \in (Present \cap LocalProfiles) \ {p} : profile[q].target = t

Binding(p, i) == [profile EXCEPT ![p].bound = i]
Retargeted(p, t) == [profile EXCEPT ![p].target = t]
Created(p, t) == [profile EXCEPT ![p] = [state |-> "present", bound |-> None, target |-> t]]
Removed(p) == [profile EXCEPT ![p].state = "deleted", ![p].bound = None]

\* rebind and bind: what each says of the instance a connection has met
RebindVerdict(p, i) == IF profile[p].bound # i /\ BoundElsewhere(p, i) THEN "bound elsewhere" ELSE "ok"
\* mutated form: a server with another identity is bound without confirmation
BindVerdictUnpinned(p, i) == RebindVerdict(p, i)

BindVerdict(p, i) ==
    CASE profile[p].bound = i -> "ok"
      [] profile[p].bound \notin {i, None} -> "changed"
      [] OTHER -> RebindVerdict(p, i)

\* mutated form: an attempt that was superseded publishes its server
VerdictUnlessRebound(p, i) ==
    IF attempt[p].rebind \notin {None, i} THEN "mismatch" ELSE BindVerdict(p, i)

\* What _run_connect decides when its connector returns a server.
Verdict(p, i) ==
    IF ~attempt[p].current THEN "stale"
    ELSE IF attempt[p].rebind # None
         THEN IF attempt[p].rebind # i THEN "mismatch" ELSE RebindVerdict(p, i)
         ELSE IF /\ BindVerdict(p, i) = "bound elsewhere"
                 /\ p # Default /\ profile[p].bound = None
              THEN "remove"
              ELSE BindVerdict(p, i)

-----------------------------------------------------------------------------
(* Sessions and leases *)

\* mutated form: a tunnel's lease outlives its session
LostUnlessSsh(S) == invalidated \cup ({session[p].lease : p \in S \ SshProfiles} \ {None})

Lost(S) == invalidated \cup ({session[p].lease : p \in S} \ {None})

\* _disconnect_locked: the session ends, its lease is invalid, a running
\* attempt is cancelled and no longer the current one.
DisconnectedSessions(S) == [p \in Profiles |-> IF p \in S THEN FreshSession ELSE session[p]]
Cancelled(S) ==
    [p \in Profiles |-> IF p \in S /\ attempt[p].at # "none"
                        THEN [attempt[p] EXCEPT !.cancelled = TRUE, !.current = FALSE]
                        ELSE attempt[p]]
DisconnectLocked(S) ==
    /\ session' = DisconnectedSessions(S)
    /\ invalidated' = Lost(S)
    /\ attempt' = Cancelled(S)
    /\ wanted' = wanted \ S

\* _prepare_connect makes an attempt unless the session is ready or one runs.
Preparable(p) == phase = "open" /\ p \in Present /\ session[p].status # "ready" /\ attempt[p] = NoAttempt
Prepare(p, rebind, background) ==
    /\ session' = [session EXCEPT ![p].status = "connecting"]
    /\ attempt' = [attempt EXCEPT ![p] = NewAttempt(rebind, background)]
    /\ wanted' = wanted \cup {p}

-----------------------------------------------------------------------------
(* Connectors *)

\* disconnect pops the tunnel; with a reverse proxy it first tells the remote
\* server, so that the process outlives the entry for one suspension.
Popped(t) == IF t = "open" /\ ReversePort THEN "dropped" ELSE "none"
Terminated(t) == IF t = "dropped" THEN "none" ELSE t

\* What connect undoes when it raises: its tunnel, or the process it spawned.
SshCleanUp(p) ==
    /\ tunnel' = [tunnel EXCEPT ![p] = Popped(@)]
    /\ UNCHANGED <<child, orphans, world>>
LocalCleanUp(p) ==
    LET t == PlaceOf(p) IN
    /\ IF attempt[p].at = "waiting"
       THEN /\ child' = [child EXCEPT ![t] = "none"]
            /\ server' = [server EXCEPT ![t] = IF child[t] = "up" THEN None ELSE @]
       ELSE UNCHANGED <<child, server>>
    /\ UNCHANGED <<tunnel, orphans, identity, stopping>>
CleanUp(p) == IF p \in SshProfiles THEN SshCleanUp(p) ELSE LocalCleanUp(p)

-----------------------------------------------------------------------------
\* A client home without a profiles file, or with one that also holds profiles to
\* connect at once.  The instances are alike: the server at the default target is
\* the first one.
FirstInstance == CHOOSE i \in Instances : TRUE

\* bound: the places that a profile of this behaviour can be at
Reachable == Targets \cup (SshProfiles \cap used)

Init ==
    /\ used \in {S \in SUBSET Profiles : Default \in S /\ Cardinality(S) = MaxUsed}
    /\ \E kept \in SUBSET ((AutoConnect \cap used) \ {Default}), t \in Targets \ {DefaultTarget} :
        /\ ops = Cardinality(kept)
        /\ profile = [p \in Profiles |->
             CASE p = Default -> [state |-> "present", bound |-> None, target |-> DefaultTarget]
               [] p \in kept -> [state |-> "present", bound |-> None, target |-> t]
               [] OTHER -> [state |-> "new", bound |-> None, target |-> None]]
    /\ session = [p \in Profiles |-> FreshSession]
    /\ attempt = [p \in Profiles |-> NoAttempt]
    /\ op = [p \in Profiles |-> NoOp]
    /\ issued = 0 /\ invalidated = {}
    /\ phase = "starting"
    /\ child = [t \in Targets |-> "none"]
    /\ tunnel = [p \in SshProfiles |-> "none"] /\ orphans = {}
    /\ identity \in {f \in [Places -> Instances] : \A x \in (Places \ Reachable) \cup {DefaultTarget} : f[x] = FirstInstance}
    /\ server \in {identity, [x \in Places |-> None]}
    /\ stopping = {}
    /\ request = [r \in Requests |-> NoRequest]
    /\ wanted = {}
    /\ changes = 0

\* start: the attempts of the profiles with auto_connect, before any request.
Start ==
    /\ phase = "starting"
    /\ phase' = "open"
    /\ attempt' = [p \in Profiles |-> IF p \in AutoConnect \cap Present THEN NewAttempt(None, TRUE) ELSE attempt[p]]
    /\ session' = [p \in Profiles |-> IF p \in AutoConnect \cap Present
                                      THEN [session[p] EXCEPT !.status = "connecting"] ELSE session[p]]
    /\ wanted' = AutoConnect \cap Present
    /\ UNCHANGED <<profile, op, leases, connectors, world, request, used, ops, changes>>

-----------------------------------------------------------------------------
(* Requests of clients *)

Asked == phase = "open" /\ ops < MaxOps /\ ops' = ops + 1

CreateProfile(p, t) ==
    /\ phase = "open"
    /\ p \in LocalProfiles \cap used /\ profile[p].state = "new" /\ ~TargetTaken(p, t)
    /\ profile' = Created(p, t)
    /\ UNCHANGED <<session, attempt, op, leases, phase, connectors, world, request, wanted, used, ops, changes>>

\* connect_ssh_host makes the profile of its host, then asks for the lock.
EnsureSshProfile(p) ==
    /\ phase = "open"
    /\ p \in (SshProfiles \cap used) \ Present
    /\ profile' = [profile EXCEPT ![p].state = "present"]
    /\ UNCHANGED <<session, attempt, op, leases, phase, connectors, world, request, wanted, used, ops, changes>>

Connect(p, rebind) ==
    /\ Asked
    /\ Free(p) /\ Preparable(p)
    /\ Prepare(p, rebind, FALSE)
    /\ UNCHANGED <<profile, op, leases, phase, connectors, world, request, used, changes>>

Disconnect(p) ==
    /\ Asked
    /\ Free(p) /\ p \in Present
    /\ DisconnectLocked({p})
    /\ op' = [op EXCEPT ![p] = Op("disconnect", "draining", None)]
    /\ UNCHANGED <<profile, issued, phase, connectors, world, request, used, changes>>

\* stop and restart: the connector needs the tunnel of an ssh profile.
Stoppable(p) ==
    /\ p \in Present /\ session[p].status = "ready"
    /\ p \in SshProfiles => tunnel[p] \in {"open", "dead"}
Stop(p, name) ==
    /\ Asked
    /\ Free(p) /\ Stoppable(p)
    /\ op' = [op EXCEPT ![p] = Op(name, "requesting", session[p].instance)]
    /\ UNCHANGED <<profile, session, attempt, leases, phase, connectors, world, request, wanted, used, changes>>

UpdateTarget(p, t) ==
    /\ Asked
    /\ Free(p) /\ p \in Present \cap LocalProfiles
    /\ t # profile[p].target /\ ~TargetTaken(p, t)
    /\ profile' = Retargeted(p, t)
    /\ DisconnectLocked({p})
    /\ op' = [op EXCEPT ![p] = Op("update", "draining", None)]
    /\ UNCHANGED <<issued, phase, connectors, world, request, used, changes>>

DeleteProfile(p) ==
    /\ Asked
    /\ Free(p) /\ p \in (Present \cap LocalProfiles) \ {Default}
    /\ profile' = Removed(p)
    /\ DisconnectLocked({p})
    /\ op' = [op EXCEPT ![p] = Op("delete", "draining", None)]
    /\ UNCHANGED <<issued, phase, connectors, world, request, used, changes>>

-----------------------------------------------------------------------------
(* The rest of an operation *)

\* The cancelled attempt is over: disconnect goes on to the connector, stop to
\* waiting for the server; update and delete are done.
Drained(p) ==
    /\ op[p].step = "draining" /\ attempt[p].at = "none"
    /\ op' = [op EXCEPT ![p] = CASE op[p].name = "disconnect" /\ p \in SshProfiles -> [@ EXCEPT !.step = "closing"]
                                 [] op[p].name \in {"stop", "restart"} -> [@ EXCEPT !.step = "stopping"]
                                 [] OTHER -> NoOp]
    /\ tunnel' = IF op[p].name = "disconnect" /\ p \in SshProfiles
                 THEN [tunnel EXCEPT ![p] = Popped(@)] ELSE tunnel
    /\ UNCHANGED <<profile, session, attempt, leases, phase, child, orphans, world, request, wanted, used, ops, changes>>

TunnelClosed(p) ==
    /\ op[p].step = "closing"
    /\ tunnel' = [tunnel EXCEPT ![p] = Terminated(@)]
    /\ op' = [op EXCEPT ![p] = NoOp]
    /\ UNCHANGED <<profile, session, attempt, leases, phase, child, orphans, world, request, wanted, used, ops, changes>>

\* _reconcile_stopped_session, after the answer of the server or without one.
Reconcile(p) ==
    /\ IF session[p].status = "ready" /\ session[p].instance = op[p].expected
       THEN DisconnectLocked({p})
       ELSE UNCHANGED <<session, invalidated, attempt, wanted>>
    /\ op' = [op EXCEPT ![p].step = "draining"]

\* The server checks the identity the client expects before it stops.
ShutdownAccepted(p) ==
    /\ op[p].step = "requesting"
    /\ server[PlaceOf(p)] = op[p].expected
    /\ p \in SshProfiles => tunnel[p] = "open"
    /\ stopping' = stopping \cup {PlaceOf(p)}
    /\ Reconcile(p)
    /\ UNCHANGED <<profile, issued, phase, connectors, server, identity, request, used, ops, changes>>

\* A lost answer is uncertain: the local connector reconciles, the ssh
\* connector raises; the server may have accepted in both cases.
ShutdownUnanswered(p) ==
    /\ op[p].step = "requesting"
    /\ stopping' \in {stopping} \cup
         (IF server[PlaceOf(p)] = op[p].expected THEN {stopping \cup {PlaceOf(p)}} ELSE {})
    /\ IF p \in LocalProfiles
       THEN Reconcile(p)
       ELSE op' = [op EXCEPT ![p] = NoOp] /\ UNCHANGED <<session, invalidated, attempt, wanted>>
    /\ UNCHANGED <<profile, issued, phase, connectors, server, identity, request, used, ops, changes>>

\* Another server answers at the place, or the server refuses.
ShutdownRefused(p) ==
    /\ op[p].step = "requesting"
    /\ server[PlaceOf(p)] # None
    /\ op' = [op EXCEPT ![p] = NoOp]
    /\ UNCHANGED <<profile, session, attempt, leases, phase, connectors, world, request, wanted, used, ops, changes>>

\* wait_stopped: an ssh endpoint refuses connections only once its tunnel is gone.
EndpointDown(p) == IF p \in SshProfiles THEN tunnel[p] # "open" ELSE server[PlaceOf(p)] = None
Stopped(p) ==
    /\ op[p].step = "stopping" /\ EndpointDown(p)
    /\ IF op[p].name = "restart" /\ Preparable(p)
       THEN Prepare(p, None, FALSE) /\ op' = [op EXCEPT ![p].step = "connecting"]
       ELSE op' = [op EXCEPT ![p] = NoOp] /\ UNCHANGED <<session, attempt, wanted>>
    /\ UNCHANGED <<profile, leases, phase, connectors, world, request, used, ops, changes>>

\* mutated form: a stop waits for its server without a time limit
StopNeverTimesOut(p) == FALSE

StopTimesOut(p) ==
    /\ op[p].step = "stopping"
    /\ op' = [op EXCEPT ![p] = NoOp]
    /\ UNCHANGED <<profile, session, attempt, leases, phase, connectors, world, request, wanted, used, ops, changes>>

Restarted(p) ==
    /\ op[p].step = "connecting" /\ attempt[p].at = "none"
    /\ op' = [op EXCEPT ![p] = NoOp]
    /\ UNCHANGED <<profile, session, attempt, leases, phase, connectors, world, request, wanted, used, ops, changes>>

-----------------------------------------------------------------------------
(* Connection attempts *)

Step(p, s) == attempt' = [attempt EXCEPT ![p].at = s]
Running(p, S) == attempt[p].at \in S /\ ~attempt[p].cancelled

Spawned(t) == child' = [child EXCEPT ![t] = "starting"]

\* A local attempt probes the server that listens on its port, or starts one.
LocalBegins(p) ==
    LET t == PlaceOf(p) IN
    /\ p \in LocalProfiles /\ Running(p, {"scheduled"})
    /\ \/ server[t] # None /\ Step(p, "probe") /\ UNCHANGED child
       \/ server[t] = None /\ Step(p, "waiting") /\ Spawned(t)
    /\ UNCHANGED <<profile, session, op, leases, phase, tunnel, orphans, world, request, wanted, used, ops, changes>>

\* An ssh attempt first closes the tunnel of an earlier connection.
SshBegins(p) ==
    /\ p \in SshProfiles /\ Running(p, {"scheduled"})
    /\ tunnel' = [tunnel EXCEPT ![p] = Popped(@)]
    /\ Step(p, IF Popped(tunnel[p]) = "none" THEN "version" ELSE "clearing")
    /\ UNCHANGED <<profile, session, op, leases, phase, child, orphans, world, request, wanted, used, ops, changes>>

TunnelCleared(p) ==
    /\ Running(p, {"clearing"})
    /\ tunnel' = [tunnel EXCEPT ![p] = Terminated(@)]
    /\ Step(p, "version")
    /\ UNCHANGED <<profile, session, op, leases, phase, child, orphans, world, request, wanted, used, ops, changes>>

RemoteVersion(p) ==
    /\ Running(p, {"version"})
    /\ Step(p, "remote")
    /\ UNCHANGED <<profile, session, op, leases, phase, connectors, world, request, wanted, used, ops, changes>>

RemoteRuns(p) == server' = [server EXCEPT ![p] = IF @ = None THEN identity[p] ELSE @]
TunnelSpawned(p) == tunnel' = [tunnel EXCEPT ![p] = "open"]

\* The remote command starts the server or finds it; then the tunnel opens.
RemoteStart(p) ==
    /\ Running(p, {"remote"})
    /\ RemoteRuns(p) /\ TunnelSpawned(p)
    /\ Step(p, "handshake")
    /\ UNCHANGED <<profile, session, op, leases, phase, child, orphans, identity, stopping, request, wanted, used, ops, changes>>

\* The identity a handshake returns, once a local server has been asked for it,
\* and the one it returns through a tunnel.
LocalIdentity(p) == server[PlaceOf(p)]
RemoteIdentity(p) == IF tunnel[p] = "open" THEN server[p] ELSE None
Met(p) == IF p \in SshProfiles THEN RemoteIdentity(p) ELSE LocalIdentity(p)

\* What an attempt meets: the server it probes, the one it has started, or the
\* remote one.
ProbeAnswers(p) == attempt[p].at = "probe" /\ Met(p) # None
ChildAnswers(p) == attempt[p].at = "waiting" /\ Met(p) # None
SshAnswers(p)   == attempt[p].at = "handshake" /\ Met(p) # None

\* The connector returns: the session becomes ready unless the attempt is stale
\* or the binding of the profile forbids it.  A cancelled attempt still returns
\* if asyncio.wait_for finds its result (Python 3.11).
Publish(p) == (ProbeAnswers(p) \/ ChildAnswers(p) \/ SshAnswers(p)) /\
    LET i == Met(p) IN
    /\ attempt[p].cancelled => attempt[p].at = "waiting"
    /\ IF Verdict(p, i) = "ok"
       THEN /\ issued < MaxLeases
            /\ profile' = Binding(p, i)
            /\ session' = [session EXCEPT ![p] = [status |-> "ready", instance |-> i, lease |-> issued + 1]]
            /\ issued' = issued + 1 /\ invalidated' = Lost({p})
            /\ attempt' = [attempt EXCEPT ![p] = NoAttempt]
            /\ UNCHANGED tunnel
       ELSE /\ profile' = IF Verdict(p, i) = "remove" THEN Removed(p) ELSE profile
            /\ tunnel' = IF p \in SshProfiles THEN [tunnel EXCEPT ![p] = Popped(@)] ELSE tunnel
            /\ attempt' = [attempt EXCEPT ![p].at = "cleanup", ![p].cancelled = FALSE]
            /\ UNCHANGED <<session, leases>>
    /\ UNCHANGED <<op, phase, child, orphans, world, request, wanted, used, ops, changes>>

\* A refusal, an error, an exit of the process, or a time limit.
Fail(p) ==
    /\ Running(p, Awaiting \ {"clearing"})
    /\ CleanUp(p)
    /\ Step(p, "cleanup")
    /\ UNCHANGED <<profile, session, op, leases, phase, request, wanted, used, ops, changes>>

\* The end of a failed attempt: recorded if it is still the current one.
RecordError(p) ==
    /\ Running(p, {"cleanup"})
    /\ tunnel' = IF p \in SshProfiles THEN [tunnel EXCEPT ![p] = Terminated(@)] ELSE tunnel
    /\ attempt' = [attempt EXCEPT ![p] = NoAttempt]
    /\ IF attempt[p].current
       THEN /\ session' = [session EXCEPT ![p] =
                             IF p \in Present THEN [@ EXCEPT !.status = "error", !.instance = None, !.lease = None]
                             ELSE FreshSession]
            /\ invalidated' = Lost({p})
       ELSE UNCHANGED <<session, invalidated>>
    /\ UNCHANGED <<profile, op, issued, phase, child, orphans, world, request, wanted, used, ops, changes>>

\* A cancelled attempt: one that has not begun never does; one that awaits
\* cleans up; one that cleans up, or tells the remote server of the end of an
\* earlier tunnel, stops doing so, and nobody ends the process of that tunnel.
AttemptCancelled(p) ==
    /\ attempt[p].cancelled
    /\ IF attempt[p].at \in Awaiting \ {"clearing"}
       THEN /\ CleanUp(p)
            /\ attempt' = [attempt EXCEPT ![p] = [@ EXCEPT !.at = "cleanup", !.cancelled = FALSE, !.current = FALSE]]
       ELSE /\ attempt' = [attempt EXCEPT ![p] = NoAttempt]
            /\ orphans' = IF p \in SshProfiles /\ tunnel[p] = "dropped" THEN orphans \cup {p} ELSE orphans
            /\ tunnel' = IF p \in SshProfiles THEN [tunnel EXCEPT ![p] = Terminated(@)] ELSE tunnel
            /\ UNCHANGED <<child, world>>
    /\ UNCHANGED <<profile, session, op, leases, phase, request, wanted, used, ops, changes>>

-----------------------------------------------------------------------------
(* Proxied requests *)

Resolvable(p) == session[p].status = "ready"

\* The client names the lease it knows; the proxy resolves the profile to its
\* current one and refuses any other.
Resolve(r, p, l) ==
    /\ request[r].at = "idle" /\ phase = "open"
    /\ Resolvable(p)
    /\ request' = [request EXCEPT ![r] = IF l = session[p].lease THEN [at |-> "reading", lease |-> l] ELSE EndedRequest]
    /\ UNCHANGED <<profile, session, attempt, op, leases, phase, connectors, world, wanted, used, ops, changes>>

\* The body is read: the request goes to the server unless its lease has ended.
Forward(r) ==
    /\ request[r].at = "reading"
    /\ request' = [request EXCEPT ![r] = IF @.lease \in invalidated THEN EndedRequest ELSE [@ EXCEPT !.at = "streaming"]]
    /\ UNCHANGED <<profile, session, attempt, op, leases, phase, connectors, world, wanted, used, ops, changes>>

\* The stream notices the event of its lease; or the server ends it.
Cut(r) ==
    /\ request[r].at = "streaming" /\ request[r].lease \in invalidated
    /\ request' = [request EXCEPT ![r] = EndedRequest]
    /\ UNCHANGED <<profile, session, attempt, op, leases, phase, connectors, world, wanted, used, ops, changes>>
ResponseEnds(r) ==
    /\ request[r].at = "streaming"
    /\ request' = [request EXCEPT ![r] = EndedRequest]
    /\ UNCHANGED <<profile, session, attempt, op, leases, phase, connectors, world, wanted, used, ops, changes>>

-----------------------------------------------------------------------------
(* Shutdown: uvicorn has let all requests end, only background attempts run *)

Close ==
    /\ phase = "open"
    /\ \A p \in Profiles : Free(p) /\ (attempt[p].at # "none" => attempt[p].background)
    /\ \A r \in Requests : request[r].at \in {"idle", "over"}
    /\ phase' = "cancelling"
    /\ attempt' = [p \in Profiles |-> IF attempt[p].at = "none" THEN attempt[p]
                                      ELSE [attempt[p] EXCEPT !.cancelled = TRUE]]
    /\ UNCHANGED <<profile, session, op, leases, connectors, world, request, wanted, used, ops, changes>>

CloseStops ==
    /\ phase = "cancelling"
    /\ \A p \in Profiles : attempt[p].at = "none"
    /\ phase' = "stopping"
    /\ op' = [p \in Profiles |-> IF Stoppable(p) THEN Op("stop", "requesting", session[p].instance) ELSE op[p]]
    /\ UNCHANGED <<profile, session, attempt, leases, connectors, world, request, wanted, used, ops, changes>>

\* The loop of disconnects and the connectors' close: nothing else runs, so
\* that each is one step.
CloseDisconnects ==
    /\ phase = "stopping"
    /\ \A p \in Profiles : Free(p)
    /\ phase' = "disconnecting"
    /\ DisconnectLocked(Present)
    /\ tunnel' = [p \in SshProfiles |-> IF p \in Present THEN Terminated(Popped(tunnel[p])) ELSE tunnel[p]]
    /\ UNCHANGED <<profile, op, issued, child, orphans, world, request, used, ops, changes>>

CloseConnectors ==
    /\ phase = "disconnecting"
    /\ phase' = "closed"
    /\ child' = [t \in Targets |-> "none"]
    /\ server' = [x \in Places |-> IF x \in Targets /\ child[x] = "up" THEN None ELSE server[x]]
    /\ tunnel' = [p \in SshProfiles |-> IF tunnel[p] \in {"open", "dead"} THEN "none" ELSE tunnel[p]]
    /\ UNCHANGED <<profile, session, attempt, op, leases, orphans, identity, stopping, request, wanted, used, ops, changes>>

-----------------------------------------------------------------------------
(* The world: servers and tunnels *)

ServerUp(t) ==
    /\ child[t] = "starting" /\ server[t] = None
    /\ child' = [child EXCEPT ![t] = "up"]
    /\ server' = [server EXCEPT ![t] = identity[t]]
    /\ UNCHANGED <<profile, session, attempt, op, leases, phase, tunnel, orphans, identity, stopping, request, wanted, used, ops, changes>>

\* A server that has accepted to stop does; the reaper forgets its process.
ServerStops(x) ==
    /\ x \in stopping
    /\ stopping' = stopping \ {x}
    /\ server' = [server EXCEPT ![x] = None]
    /\ child' = IF x \in Targets /\ child[x] = "up" THEN [child EXCEPT ![x] = "none"] ELSE child
    /\ UNCHANGED <<profile, session, attempt, op, leases, phase, tunnel, orphans, identity, request, wanted, used, ops, changes>>

\* On its own a server dies, or another one takes its place.
ServerChanges(x) ==
    /\ x \in Reachable
    /\ changes < MaxChanges /\ changes' = changes + 1
    /\ \/ server[x] # None /\ server' = [server EXCEPT ![x] = None] /\ UNCHANGED identity
       \/ \E i \in Instances \ {identity[x]} :
             identity' = [identity EXCEPT ![x] = i] /\ server' = [server EXCEPT ![x] = i]
    /\ child' = IF x \in Targets /\ child[x] = "up" THEN [child EXCEPT ![x] = "none"] ELSE child
    /\ stopping' = stopping \ {x}
    /\ UNCHANGED <<profile, session, attempt, op, leases, phase, tunnel, orphans, request, wanted, used, ops>>

TunnelDies(p) ==
    /\ changes < MaxChanges /\ changes' = changes + 1
    /\ tunnel[p] = "open"
    /\ tunnel' = [tunnel EXCEPT ![p] = "dead"]
    /\ UNCHANGED <<profile, session, attempt, op, leases, phase, child, orphans, world, request, wanted, used, ops>>

-----------------------------------------------------------------------------
Client(p) ==
    \/ \E t \in Targets : CreateProfile(p, t) \/ UpdateTarget(p, t)
    \/ EnsureSshProfile(p)
    \/ \E i \in Instances \cup {None} : Connect(p, i)
    \/ Disconnect(p)
    \/ \E n \in {"stop", "restart"} : Stop(p, n)
    \/ DeleteProfile(p)

Operate(p) ==
    \/ Drained(p) \/ TunnelClosed(p)
    \/ ShutdownAccepted(p) \/ ShutdownUnanswered(p) \/ ShutdownRefused(p)
    \/ Stopped(p) \/ StopTimesOut(p) \/ Restarted(p)

Attempt(p) ==
    \/ LocalBegins(p) \/ SshBegins(p) \/ TunnelCleared(p) \/ RemoteVersion(p) \/ RemoteStart(p)
    \/ Publish(p) \/ Fail(p) \/ RecordError(p) \/ AttemptCancelled(p)

Proxy(r) == (\E p \in Profiles, l \in 1..issued : Resolve(r, p, l)) \/ Forward(r) \/ Cut(r) \/ ResponseEnds(r)

Closing == CloseStops \/ CloseDisconnects \/ CloseConnectors

World ==
    \/ \E t \in Targets : ServerUp(t)
    \/ \E x \in Places : ServerStops(x) \/ ServerChanges(x)
    \/ \E p \in SshProfiles : TunnelDies(p)

Next ==
    \/ Start
    \/ \E p \in Profiles : Client(p) \/ Operate(p) \/ Attempt(p)
    \/ \E r \in Requests : Proxy(r)
    \/ Close \/ Closing
    \/ World

\* Every await of an operation or an attempt has a time limit, and asyncio runs
\* every task that is ready.
Fairness ==
    /\ \A p \in Profiles : WF_vars(Operate(p) \/ Attempt(p))
    /\ \A r \in Requests : WF_vars(Forward(r) \/ Cut(r))
    /\ WF_vars(Closing)

Spec == Init /\ [][Next]_vars /\ Fairness

-----------------------------------------------------------------------------
(* Properties *)

\* A lease whose event nobody has set is the lease of a ready session, of a
\* profile that exists and is bound to the instance of the session: what the
\* proxy forwards under such a lease goes where the client meant it to go.
LeaseIsCurrent ==
    \A l \in 1..issued \ invalidated :
        \E p \in Present :
            /\ session[p].status = "ready" /\ session[p].lease = l
            /\ session[p].instance = profile[p].bound
            /\ ~BoundElsewhere(p, profile[p].bound)

\* Once a disconnect, stop, update or delete has taken effect, no late attempt
\* makes the session ready again.
ReadyIsWanted == \A p \in Profiles : session[p].status = "ready" => p \in wanted /\ attempt[p].at = "none"

\* A profile that is bound to an instance is bound to another one only by an
\* attempt whose client has confirmed the new instance.
IdentityIsPinned ==
    [][\A p \in Present :
        profile[p].bound # None /\ profile'[p].state = "present" /\ profile'[p].bound # profile[p].bound
        => attempt[p].rebind = profile'[p].bound]_vars

\* A shutdown comes to its end whatever the servers do, and leaves no valid
\* lease, no attempt, no server the launcher has started and no tunnel that its
\* connector knows of.
Down ==
    /\ 1..issued \subseteq invalidated
    /\ \A p \in Profiles : attempt[p].at = "none" /\ Free(p)
    /\ \A t \in Targets : child[t] = "none"
    /\ \A p \in SshProfiles : tunnel[p] = "none"
CloseEnds == (phase = "cancelling") ~> (phase = "closed" /\ Down)
=============================================================================
