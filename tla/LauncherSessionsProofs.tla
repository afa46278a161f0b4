------------------------ MODULE LauncherSessionsProofs ------------------------
(***************************************************************************)
(* Proofs about LauncherSessions, for any profiles, places, instances and  *)
(* requests.                                                               *)
(*                                                                         *)
(* A lease is valid as long as the session it was issued for is ready; a   *)
(* ready session has no attempt, and a profile that is bound to what it    *)
(* met; an attempt that is the current one of its profile is one the       *)
(* client still wants; and a tunnel that is being taken down is taken down *)
(* by somebody whom the shutdown waits for.                                *)
(***************************************************************************)
EXTENDS LauncherSessions, TLAPS

USE LauncherAssumption

Identities == Instances \cup {None}
ProfileRecord == [state : {"new", "present", "deleted"}, bound : Identities, target : Targets \cup {None}]
SessionRecord ==
    [status : {"disconnected", "connecting", "ready", "error"}, instance : Identities, lease : Nat \cup {None}]
AttemptRecord ==
    [at : {"none", "scheduled", "cleanup"} \cup Awaiting, current : BOOLEAN, cancelled : BOOLEAN,
     rebind : Identities, background : BOOLEAN]
OpRecord ==
    [name : {"none", "disconnect", "stop", "restart", "update", "delete"},
     step : {"none", "requesting", "draining", "closing", "stopping", "connecting"}, expected : Identities]

LauncherTypeOK ==
    /\ profile \in [Profiles -> ProfileRecord]
    /\ session \in [Profiles -> SessionRecord]
    /\ attempt \in [Profiles -> AttemptRecord]
    /\ op \in [Profiles -> OpRecord]
    /\ issued \in Nat
    /\ tunnel \in [SshProfiles -> {"none", "open", "dead", "dropped"}]
    /\ server \in [Places -> Identities] /\ identity \in [Places -> Instances]
    /\ \A p \in LocalProfiles : profile[p].state # "new" => profile[p].target \in Targets

\* No two profiles are bound to one instance, and one that is gone is not bound.
Bindings ==
    \A p \in Profiles :
        /\ profile[p].state # "present" => profile[p].bound = None
        /\ \A q \in Profiles \ {p} : profile[q].bound = profile[p].bound => profile[p].bound = None

ReadySession(p) ==
    session[p].status = "ready" =>
        /\ attempt[p].at = "none" /\ p \in wanted
        /\ profile[p].state = "present"
        /\ profile[p].bound = session[p].instance /\ profile[p].bound # None

\* An attempt that is still the current one has not been taken back; only a
\* verdict removes its profile.
Trying(p) ==
    /\ attempt[p].at = "none" => attempt[p] = NoAttempt
    /\ attempt[p].at # "none" =>
           /\ profile[p].state # "new"
           /\ attempt[p].current => p \in wanted /\ (profile[p].state = "present" \/ attempt[p].at = "cleanup")

ValidLeases ==
    \A l \in 1..issued \ invalidated : \E p \in Profiles : session[p].status = "ready" /\ session[p].lease = l

NothingStarted ==
    phase = "starting" => \A p \in Profiles : session[p] = FreshSession /\ attempt[p] = NoAttempt

\* Whoever has taken a tunnel down comes back to end its process.
DroppedByOne ==
    \A p \in SshProfiles :
        tunnel[p] = "dropped" => attempt[p].at \in {"clearing", "cleanup"} \/ op[p].step = "closing"

ShutdownInOrder ==
    /\ phase = "cancelling" => \A p \in Profiles : Free(p)
    /\ phase \in {"stopping", "disconnecting", "closed"} => \A p \in Profiles : attempt[p].at = "none"
    /\ phase \in {"disconnecting", "closed"} => \A p \in Profiles : Free(p) /\ session[p].status # "ready"
    /\ phase = "closed" => /\ child = [t \in Targets |-> "none"]
                           /\ \A p \in SshProfiles : tunnel[p] = "none"

SessionsInv ==
    /\ Bindings
    /\ \A p \in Profiles : ReadySession(p) /\ Trying(p)
    /\ ValidLeases
    /\ NothingStarted

ClosingInv == DroppedByOne /\ ShutdownInOrder

LauncherInv == LauncherTypeOK /\ SessionsInv /\ ClosingInv

-----------------------------------------------------------------------------
(* What many steps have in common *)

LEMMA SessionsQuiet ==
  ASSUME SessionsInv, UNCHANGED <<profile, session, attempt, leases, wanted>>,
         phase' = phase \/ phase' # "starting"
  PROVE  SessionsInv'
  BY DEF SessionsInv, Bindings, ReadySession, Trying, ValidLeases, NothingStarted, leases

\* The fields of sessions and attempts after a disconnect
LEMMA Disconnection ==
  ASSUME LauncherTypeOK, NEW S \in SUBSET Profiles, DisconnectLocked(S)
  PROVE  /\ session' \in [Profiles -> SessionRecord]
         /\ attempt' \in [Profiles -> AttemptRecord]
         /\ \A p \in Profiles :
               /\ p \in S => session'[p] = FreshSession /\ session'[p].status = "disconnected"
               /\ p \notin S => session'[p] = session[p] /\ attempt'[p] = attempt[p]
               /\ attempt'[p].at = attempt[p].at
               /\ attempt'[p].at # "none" /\ p \in S => attempt'[p].current = FALSE
               /\ attempt[p] = NoAttempt => attempt'[p] = NoAttempt
<1>1. session' \in [Profiles -> SessionRecord]
  BY DEF LauncherTypeOK, DisconnectLocked, DisconnectedSessions, FreshSession, SessionRecord, Identities
<1>2. attempt' \in [Profiles -> AttemptRecord]
  <2>1. ASSUME NEW p \in Profiles, NEW a \in AttemptRecord
        PROVE  [a EXCEPT !.cancelled = TRUE, !.current = FALSE] \in AttemptRecord
    BY DEF AttemptRecord
  <2> QED  BY <2>1 DEF LauncherTypeOK, DisconnectLocked, Cancelled
<1>3. ASSUME NEW p \in Profiles
      PROVE  /\ p \in S => session'[p] = FreshSession /\ session'[p].status = "disconnected"
             /\ p \notin S => session'[p] = session[p] /\ attempt'[p] = attempt[p]
             /\ attempt'[p].at = attempt[p].at
             /\ attempt'[p].at # "none" /\ p \in S => attempt'[p].current = FALSE
             /\ attempt[p] = NoAttempt => attempt'[p] = NoAttempt
  <2>1. attempt[p] \in AttemptRecord
    BY DEF LauncherTypeOK
  <2>2. attempt'[p] = IF p \in S /\ attempt[p].at # "none"
                     THEN [attempt[p] EXCEPT !.cancelled = TRUE, !.current = FALSE] ELSE attempt[p]
    BY DEF DisconnectLocked, Cancelled
  <2>3. /\ attempt'[p].at = attempt[p].at
        /\ attempt'[p].at # "none" /\ p \in S => attempt'[p].current = FALSE
    BY <2>1, <2>2 DEF AttemptRecord
  <2>4. attempt[p] = NoAttempt => attempt'[p] = NoAttempt
    BY <2>2 DEF NoAttempt
  <2>5. p \in S => session'[p] = FreshSession /\ session'[p].status = "disconnected"
    BY DEF DisconnectLocked, DisconnectedSessions, FreshSession
  <2>6. p \notin S => session'[p] = session[p] /\ attempt'[p] = attempt[p]
    BY <2>2 DEF DisconnectLocked, DisconnectedSessions
  <2> QED  BY <2>3, <2>4, <2>5, <2>6
<1> QED  BY <1>1, <1>2, <1>3

\* What is disconnected gives up its lease; its profile may be removed with it.
LEMMA DisconnectKeeps ==
  ASSUME LauncherTypeOK, SessionsInv, NEW S \in SUBSET Profiles, DisconnectLocked(S), issued' = issued,
         phase' = phase \/ phase' # "starting",
         \A p \in Profiles : \/ profile'[p].state = profile[p].state /\ profile'[p].bound = profile[p].bound
                             \/ p \in S /\ profile'[p].state = "deleted" /\ profile'[p].bound = None
  PROVE  SessionsInv'
<1>1. \A p \in Profiles :
         /\ p \in S => session'[p] = FreshSession /\ session'[p].status = "disconnected"
         /\ p \notin S => session'[p] = session[p] /\ attempt'[p] = attempt[p]
         /\ attempt'[p].at = attempt[p].at
         /\ attempt'[p].at # "none" /\ p \in S => attempt'[p].current = FALSE
         /\ attempt[p] = NoAttempt => attempt'[p] = NoAttempt
  BY Disconnection
<1>2. wanted' = wanted \ S /\ invalidated' = Lost(S)
  BY DEF DisconnectLocked
<1>3. Bindings'
  BY DEF SessionsInv, Bindings
<1>4. \A p \in Profiles : ReadySession(p)' /\ Trying(p)'
  BY <1>1, <1>2 DEF SessionsInv, ReadySession, Trying
<1>5. ValidLeases'
  <2>1. ASSUME NEW l \in 1..issued, l \notin invalidated'
        PROVE  \E p \in Profiles : session'[p].status = "ready" /\ session'[p].lease = l
    <3>1. l # None /\ l \notin invalidated
      BY <1>2, <2>1 DEF Lost, LauncherTypeOK
    <3>2. PICK p \in Profiles : session[p].status = "ready" /\ session[p].lease = l
      BY <3>1 DEF SessionsInv, ValidLeases
    <3>3. p \notin S
      BY <1>2, <2>1, <3>1, <3>2 DEF Lost
    <3> QED  BY <1>1, <3>2, <3>3
  <2> QED  BY <2>1 DEF ValidLeases
<1>6. NothingStarted'
  BY <1>1 DEF SessionsInv, NothingStarted, FreshSession
<1> QED  BY <1>3, <1>4, <1>5, <1>6 DEF SessionsInv

\* A new attempt, of a profile that has none
LEMMA PrepareKeeps ==
  ASSUME LauncherTypeOK, SessionsInv, NEW p \in Profiles, Preparable(p),
         NEW rebind \in Identities, NEW background \in BOOLEAN, Prepare(p, rebind, background),
         UNCHANGED <<profile, leases, phase>>
  PROVE  /\ SessionsInv'
         /\ session' \in [Profiles -> SessionRecord]
         /\ attempt' \in [Profiles -> AttemptRecord]
         /\ \A q \in Profiles : q # p => attempt'[q] = attempt[q] /\ session'[q] = session[q]
         /\ attempt[p].at = "none" /\ phase = "open"
<1>1. /\ session' = [session EXCEPT ![p].status = "connecting"]
      /\ attempt' = [attempt EXCEPT ![p] = NewAttempt(rebind, background)]
      /\ wanted' = wanted \cup {p}
      /\ phase = "open" /\ profile[p].state = "present" /\ session[p].status # "ready" /\ attempt[p] = NoAttempt
  BY DEF Prepare, Preparable, Present
<1>2. session' \in [Profiles -> SessionRecord]
  BY <1>1 DEF LauncherTypeOK, SessionRecord
<1>3. attempt' \in [Profiles -> AttemptRecord]
  BY <1>1 DEF LauncherTypeOK, NewAttempt, AttemptRecord, Awaiting
<1>4. \A q \in Profiles : q # p => attempt'[q] = attempt[q] /\ session'[q] = session[q]
  BY <1>1 DEF LauncherTypeOK
<1>5. session'[p].status = "connecting" /\ attempt'[p].at = "scheduled" /\ attempt[p].at = "none"
  BY <1>1 DEF LauncherTypeOK, NewAttempt, NoAttempt, SessionRecord
<1>6. Bindings' /\ NothingStarted'
  BY <1>1 DEF SessionsInv, Bindings, NothingStarted
<1>7. \A q \in Profiles : ReadySession(q)' /\ Trying(q)'
  BY <1>1, <1>4, <1>5 DEF SessionsInv, ReadySession, Trying
<1>8. ValidLeases'
  BY <1>1, <1>4 DEF SessionsInv, ValidLeases, leases
<1> QED  BY <1>1, <1>2, <1>3, <1>4, <1>5, <1>6, <1>7, <1>8 DEF SessionsInv

\* A step of a client, which the open launcher serves
LEMMA OpenClosing ==
  ASSUME ClosingInv, phase' = "open", tunnel' = tunnel,
         \A p \in SshProfiles : /\ attempt[p].at \in {"clearing", "cleanup"} => attempt'[p].at = attempt[p].at
                                /\ op[p].step = "closing" => op'[p].step = "closing"
  PROVE  ClosingInv'
<1>1. DroppedByOne'
  BY DEF ClosingInv, DroppedByOne
<1>2. ShutdownInOrder'
  BY DEF ShutdownInOrder
<1> QED  BY <1>1, <1>2 DEF ClosingInv

-----------------------------------------------------------------------------
(* Clients *)

LEMMA ProfileKeeps ==
  ASSUME LauncherInv, NEW p \in Profiles, (\E t \in Targets : CreateProfile(p, t)) \/ EnsureSshProfile(p)
  PROVE  LauncherInv'
<1>1. /\ phase' = "open" /\ UNCHANGED <<session, attempt, op, leases, tunnel, server, identity, wanted>>
      /\ \A q \in Profiles : profile'[q].bound = profile[q].bound
                           /\ (profile'[q].state = profile[q].state
                                 \/ (profile'[q].state = "present" /\ profile[q].bound = None))
  BY DEF LauncherInv, LauncherTypeOK, ProfileRecord, SessionsInv, Bindings, CreateProfile, EnsureSshProfile,
         Created, connectors, world, Present, Profiles
<1>2. LauncherTypeOK'
  <2>1. profile' \in [Profiles -> ProfileRecord]
    BY DEF LauncherInv, LauncherTypeOK, CreateProfile, EnsureSshProfile, Created, ProfileRecord, Identities
  <2>2. \A q \in LocalProfiles : profile'[q].state # "new" => profile'[q].target \in Targets
    BY DEF LauncherInv, LauncherTypeOK, CreateProfile, EnsureSshProfile, Created, ProfileRecord, Profiles
  <2> QED  BY <1>1, <2>1, <2>2 DEF LauncherInv, LauncherTypeOK, leases
<1>3. SessionsInv'
  BY <1>1 DEF LauncherInv, SessionsInv, Bindings, ReadySession, Trying, ValidLeases, NothingStarted, leases
<1>4. ClosingInv'
  BY <1>1, OpenClosing DEF LauncherInv
<1> QED  BY <1>2, <1>3, <1>4 DEF LauncherInv

LEMMA ConnectKeeps ==
  ASSUME LauncherInv, NEW p \in Profiles, NEW i \in Identities, Connect(p, i)
  PROVE  LauncherInv'
<1>1. /\ Preparable(p) /\ Prepare(p, i, FALSE) /\ UNCHANGED <<profile, op, leases, phase, tunnel, server, identity>>
  BY DEF Connect, connectors, world
<1>2. /\ SessionsInv'
      /\ session' \in [Profiles -> SessionRecord] /\ attempt' \in [Profiles -> AttemptRecord]
      /\ \A q \in Profiles : q # p => attempt'[q] = attempt[q] /\ session'[q] = session[q]
      /\ attempt[p].at = "none" /\ phase = "open"
  BY <1>1, PrepareKeeps DEF LauncherInv
<1>3. LauncherTypeOK'
  BY <1>1, <1>2 DEF LauncherInv, LauncherTypeOK, leases
<1>4. ClosingInv'
  BY <1>1, <1>2, OpenClosing DEF LauncherInv, Profiles
<1> QED  BY <1>2, <1>3, <1>4 DEF LauncherInv

LEMMA DisconnectsKeeps ==
  ASSUME LauncherInv, NEW p \in Profiles,
         Disconnect(p) \/ (\E t \in Targets : UpdateTarget(p, t)) \/ DeleteProfile(p)
  PROVE  LauncherInv'
<1>1. /\ DisconnectLocked({p}) /\ phase' = "open" /\ phase = "open" /\ Free(p)
      /\ UNCHANGED <<issued, tunnel, server, identity>>
      /\ \E name \in {"disconnect", "update", "delete"} : op' = [op EXCEPT ![p] = Op(name, "draining", None)]
  BY DEF Disconnect, UpdateTarget, DeleteProfile, Asked, connectors, world
<1>2. /\ profile' \in [Profiles -> ProfileRecord]
      /\ \A q \in LocalProfiles : profile'[q].state # "new" => profile'[q].target \in Targets
      /\ \A q \in Profiles : \/ profile'[q].state = profile[q].state /\ profile'[q].bound = profile[q].bound
                             \/ q \in {p} /\ profile'[q].state = "deleted" /\ profile'[q].bound = None
  <2>1. CASE profile' = profile
    BY <2>1 DEF LauncherInv, LauncherTypeOK
  <2>2. ASSUME NEW t \in Targets, profile' = [profile EXCEPT ![p].target = t]
        PROVE  /\ profile' \in [Profiles -> ProfileRecord]
               /\ \A q \in LocalProfiles : profile'[q].state # "new" => profile'[q].target \in Targets
               /\ \A q \in Profiles : profile'[q].state = profile[q].state /\ profile'[q].bound = profile[q].bound
    BY <2>2 DEF LauncherInv, LauncherTypeOK, ProfileRecord, Profiles
  <2>3. ASSUME profile' = [profile EXCEPT ![p].state = "deleted", ![p].bound = None], profile[p].state = "present"
        PROVE  /\ profile' \in [Profiles -> ProfileRecord]
               /\ \A q \in LocalProfiles : profile'[q].state # "new" => profile'[q].target \in Targets
               /\ profile'[p].state = "deleted" /\ profile'[p].bound = None
               /\ \A q \in Profiles \ {p} : profile'[q] = profile[q]
    BY <2>3 DEF LauncherInv, LauncherTypeOK, ProfileRecord, Identities, Profiles
  <2>4. \/ profile' = profile
        \/ \E t \in Targets : profile' = [profile EXCEPT ![p].target = t]
        \/ profile' = [profile EXCEPT ![p].state = "deleted", ![p].bound = None] /\ profile[p].state = "present"
    BY DEF Disconnect, UpdateTarget, DeleteProfile, Retargeted, Removed, Present
  <2> QED  BY <2>1, <2>2, <2>3, <2>4
<1>3. /\ session' \in [Profiles -> SessionRecord] /\ attempt' \in [Profiles -> AttemptRecord]
      /\ \A q \in Profiles : attempt'[q].at = attempt[q].at
  BY <1>1, Disconnection DEF LauncherInv
<1>4. op' \in [Profiles -> OpRecord] /\ \A q \in Profiles : op[q].step = "closing" => op'[q].step = "closing"
  BY <1>1 DEF LauncherInv, LauncherTypeOK, OpRecord, Op, Identities, Free, NoOp
<1>5. LauncherTypeOK'
  BY <1>1, <1>2, <1>3, <1>4 DEF LauncherInv, LauncherTypeOK
<1>6. SessionsInv'
  BY <1>1, <1>2, DisconnectKeeps DEF LauncherInv
<1>7. ClosingInv'
  BY <1>1, <1>3, <1>4, OpenClosing DEF LauncherInv, Profiles
<1> QED  BY <1>5, <1>6, <1>7 DEF LauncherInv

LEMMA StopKeeps ==
  ASSUME LauncherInv, NEW p \in Profiles, NEW name \in {"stop", "restart"}, Stop(p, name)
  PROVE  LauncherInv'
<1>1. /\ UNCHANGED <<profile, session, attempt, leases, tunnel, server, identity, wanted>>
      /\ phase = "open" /\ phase' = phase /\ Free(p)
      /\ op' = [op EXCEPT ![p] = Op(name, "requesting", session[p].instance)]
  BY DEF Stop, Asked, connectors, world
<1>2. op' \in [Profiles -> OpRecord] /\ \A q \in Profiles : op[q].step = "closing" => op'[q].step = "closing"
  BY <1>1 DEF LauncherInv, LauncherTypeOK, OpRecord, SessionRecord, Op, Free, NoOp
<1>3. LauncherTypeOK'
  BY <1>1, <1>2 DEF LauncherInv, LauncherTypeOK, leases
<1>4. SessionsInv'
  BY <1>1, SessionsQuiet DEF LauncherInv
<1>5. ClosingInv'
  BY <1>1, <1>2, OpenClosing DEF LauncherInv, Profiles
<1> QED  BY <1>3, <1>4, <1>5 DEF LauncherInv

-----------------------------------------------------------------------------
(* Operations *)

\* An operation in progress is one that the shutdown waits for.
LEMMA OperationClosing ==
  ASSUME ClosingInv, NEW p \in Profiles, ~Free(p), UNCHANGED phase, DroppedByOne',
         phase = "stopping" => \A q \in Profiles : attempt[q].at = "none" => attempt'[q].at = "none"
  PROVE  ClosingInv'
<1>1. phase \notin {"cancelling", "disconnecting", "closed"}
  BY DEF ClosingInv, ShutdownInOrder
<1>2. ShutdownInOrder'
  BY <1>1 DEF ClosingInv, ShutdownInOrder
<1> QED  BY <1>2 DEF ClosingInv

\* The steps that change nothing but the operation and its tunnel
LEMMA OperationQuiet ==
  ASSUME LauncherInv, NEW p \in Profiles,
         \/ Drained(p) \/ TunnelClosed(p) \/ ShutdownRefused(p) \/ StopTimesOut(p) \/ Restarted(p)
  PROVE  LauncherInv'
<1>1. /\ UNCHANGED <<profile, session, attempt, leases, server, identity, wanted, phase>>
      /\ op[p].step # "none"
  BY DEF Drained, TunnelClosed, ShutdownRefused, StopTimesOut, Restarted, connectors, world
<1>2. op' \in [Profiles -> OpRecord] /\ \A q \in Profiles \ {p} : op'[q] = op[q]
  <2>1. \E o \in OpRecord : op' = [op EXCEPT ![p] = o]
    <3>1. op[p] \in OpRecord /\ NoOp \in OpRecord
      BY DEF LauncherInv, LauncherTypeOK, OpRecord, NoOp, Identities
    <3>2. [op[p] EXCEPT !.step = "closing"] \in OpRecord /\ [op[p] EXCEPT !.step = "stopping"] \in OpRecord
      BY <3>1 DEF OpRecord
    <3> QED  BY <3>1, <3>2 DEF Drained, TunnelClosed, ShutdownRefused, StopTimesOut, Restarted
  <2> QED  BY <2>1 DEF LauncherInv, LauncherTypeOK
<1>3. tunnel' \in [SshProfiles -> {"none", "open", "dead", "dropped"}] /\ \A q \in SshProfiles \ {p} : tunnel'[q] = tunnel[q]
  BY DEF LauncherInv, LauncherTypeOK, Drained, TunnelClosed, ShutdownRefused, StopTimesOut, Restarted,
         connectors, world, Popped, Terminated
<1>4. p \in SshProfiles /\ tunnel'[p] = "dropped" => attempt[p].at \in {"clearing", "cleanup"} \/ op'[p].step = "closing"
  <2> SUFFICES ASSUME p \in SshProfiles, tunnel'[p] = "dropped"
               PROVE  attempt[p].at \in {"clearing", "cleanup"} \/ op'[p].step = "closing"
    OBVIOUS
  <2>1. op \in [Profiles -> OpRecord] /\ op[p] \in OpRecord /\ tunnel \in [SshProfiles -> {"none", "open", "dead", "dropped"}]
    BY DEF LauncherInv, LauncherTypeOK
  <2>2. CASE Drained(p)
    BY <2>1, <2>2 DEF Drained, LauncherInv, ClosingInv, DroppedByOne, OpRecord, NoOp
  <2>3. CASE TunnelClosed(p)
    BY <2>1, <2>3 DEF TunnelClosed, Terminated
  <2>4. CASE ShutdownRefused(p) \/ StopTimesOut(p) \/ Restarted(p)
    BY <2>1, <2>4 DEF LauncherInv, ClosingInv, DroppedByOne, ShutdownRefused, StopTimesOut, Restarted, connectors
  <2> QED  BY <2>2, <2>3, <2>4
<1>5. LauncherTypeOK'
  BY <1>1, <1>2, <1>3 DEF LauncherInv, LauncherTypeOK, leases
<1>6. SessionsInv'
  BY <1>1, SessionsQuiet DEF LauncherInv
<1>7. DroppedByOne'
  BY <1>1, <1>2, <1>3, <1>4 DEF LauncherInv, ClosingInv, DroppedByOne, Profiles
<1>8. ClosingInv'
  BY <1>1, <1>7, OperationClosing DEF LauncherInv, Free, NoOp
<1> QED  BY <1>5, <1>6, <1>8 DEF LauncherInv

LEMMA ShutdownKeeps ==
  ASSUME LauncherInv, NEW p \in Profiles, ShutdownAccepted(p) \/ ShutdownUnanswered(p)
  PROVE  LauncherInv'
<1>1. /\ UNCHANGED <<profile, issued, phase, tunnel, server, identity>>
      /\ op[p].step = "requesting"
  BY DEF ShutdownAccepted, ShutdownUnanswered, connectors
<1>2. DisconnectLocked({p}) \/ UNCHANGED <<session, invalidated, attempt, wanted>>
  BY DEF ShutdownAccepted, ShutdownUnanswered, Reconcile
<1>3. op' \in [Profiles -> OpRecord] /\ \A q \in Profiles \ {p} : op'[q] = op[q]
  <2>1. op[p] \in OpRecord /\ NoOp \in OpRecord
    BY DEF LauncherInv, LauncherTypeOK, OpRecord, NoOp, Identities
  <2>2. [op[p] EXCEPT !.step = "draining"] \in OpRecord
    BY <2>1 DEF OpRecord
  <2>3. op' = [op EXCEPT ![p].step = "draining"] \/ op' = [op EXCEPT ![p] = NoOp]
    BY DEF ShutdownAccepted, ShutdownUnanswered, Reconcile
  <2> QED  BY <2>1, <2>2, <2>3 DEF LauncherInv, LauncherTypeOK
<1>4. /\ session' \in [Profiles -> SessionRecord] /\ attempt' \in [Profiles -> AttemptRecord]
      /\ \A q \in Profiles : attempt'[q].at = attempt[q].at
  <2>1. CASE DisconnectLocked({p})
    BY <2>1, Disconnection DEF LauncherInv
  <2> QED  BY <1>2, <2>1 DEF LauncherInv, LauncherTypeOK
<1>5. LauncherTypeOK'
  BY <1>1, <1>3, <1>4 DEF LauncherInv, LauncherTypeOK
<1>6. SessionsInv'
  <2>1. CASE DisconnectLocked({p})
    BY <1>1, <2>1, DisconnectKeeps DEF LauncherInv
  <2>2. CASE UNCHANGED <<session, invalidated, attempt, wanted>>
    BY <1>1, <2>2, SessionsQuiet DEF LauncherInv, leases
  <2> QED  BY <1>2, <2>1, <2>2
<1>7. DroppedByOne'
  BY <1>1, <1>3, <1>4 DEF LauncherInv, ClosingInv, DroppedByOne, Profiles
<1>8. ClosingInv'
  BY <1>1, <1>4, <1>7, OperationClosing DEF LauncherInv, Free, NoOp
<1> QED  BY <1>5, <1>6, <1>8 DEF LauncherInv

LEMMA StoppedKeeps ==
  ASSUME LauncherInv, NEW p \in Profiles, Stopped(p)
  PROVE  LauncherInv'
<1>1. /\ UNCHANGED <<profile, leases, phase, tunnel, server, identity>>
      /\ op[p].step = "stopping"
  BY DEF Stopped, connectors, world
<1>2. op' \in [Profiles -> OpRecord] /\ \A q \in Profiles \ {p} : op'[q] = op[q]
  <2>1. op[p] \in OpRecord /\ NoOp \in OpRecord
    BY DEF LauncherInv, LauncherTypeOK, OpRecord, NoOp, Identities
  <2>2. [op[p] EXCEPT !.step = "connecting"] \in OpRecord
    BY <2>1 DEF OpRecord
  <2>3. op' = [op EXCEPT ![p].step = "connecting"] \/ op' = [op EXCEPT ![p] = NoOp]
    BY DEF Stopped
  <2> QED  BY <2>1, <2>2, <2>3 DEF LauncherInv, LauncherTypeOK
<1>3. CASE Preparable(p) /\ Prepare(p, None, FALSE)
  <2>1. /\ SessionsInv'
        /\ session' \in [Profiles -> SessionRecord] /\ attempt' \in [Profiles -> AttemptRecord]
        /\ \A q \in Profiles : q # p => attempt'[q] = attempt[q] /\ session'[q] = session[q]
        /\ attempt[p].at = "none" /\ phase = "open"
    BY <1>1, <1>3, PrepareKeeps DEF LauncherInv, Identities
  <2>2. LauncherTypeOK'
    BY <1>1, <1>2, <2>1 DEF LauncherInv, LauncherTypeOK, leases
  <2>3. DroppedByOne'
    BY <1>1, <1>2, <2>1 DEF LauncherInv, ClosingInv, DroppedByOne, Profiles
  <2>4. ClosingInv'
    BY <1>1, <2>1, <2>3, OperationClosing DEF LauncherInv, Free, NoOp
  <2> QED  BY <2>1, <2>2, <2>4 DEF LauncherInv
<1>4. CASE UNCHANGED <<session, attempt, wanted>>
  <2>1. LauncherTypeOK'
    BY <1>1, <1>2, <1>4 DEF LauncherInv, LauncherTypeOK, leases
  <2>2. SessionsInv'
    BY <1>1, <1>4, SessionsQuiet DEF LauncherInv
  <2>3. DroppedByOne'
    BY <1>1, <1>2, <1>4 DEF LauncherInv, ClosingInv, DroppedByOne, Profiles
  <2>4. ClosingInv'
    BY <1>1, <1>4, <2>3, OperationClosing DEF LauncherInv, Free, NoOp
  <2> QED  BY <2>1, <2>2, <2>4 DEF LauncherInv
<1> QED  BY <1>3, <1>4 DEF Stopped

-----------------------------------------------------------------------------
(* Attempts *)

\* No attempt outlives the first step of the shutdown.
LEMMA AttemptClosing ==
  ASSUME ClosingInv, NEW p \in Profiles, attempt[p].at # "none", UNCHANGED <<phase, op>>, DroppedByOne'
  PROVE  ClosingInv'
<1>1. phase \notin {"stopping", "disconnecting", "closed"}
  BY DEF ClosingInv, ShutdownInOrder
<1>2. ShutdownInOrder'
  BY <1>1 DEF ClosingInv, ShutdownInOrder, Free
<1> QED  BY <1>2 DEF ClosingInv

\* An attempt goes on, or fails: nothing but its own step and the connectors change.
LEMMA AttemptGoesOn ==
  ASSUME LauncherInv, NEW p \in Profiles,
         \/ LocalBegins(p) \/ SshBegins(p) \/ TunnelCleared(p) \/ RemoteVersion(p) \/ RemoteStart(p) \/ Fail(p)
  PROVE  LauncherInv'
<1>1. /\ UNCHANGED <<profile, session, op, leases, phase, wanted, identity>>
      /\ attempt[p].at \notin {"none", "cleanup"}
  BY DEF LocalBegins, SshBegins, TunnelCleared, RemoteVersion, RemoteStart, Fail, Running, Awaiting, connectors,
         world, CleanUp, SshCleanUp, LocalCleanUp
<1>2. PICK s \in {"cleanup"} \cup Awaiting : attempt' = [attempt EXCEPT ![p].at = s]
  BY DEF LocalBegins, SshBegins, TunnelCleared, RemoteVersion, RemoteStart, Fail, Step, Awaiting
<1>3. /\ attempt' \in [Profiles -> AttemptRecord]
      /\ \A q \in Profiles \ {p} : attempt'[q] = attempt[q]
      /\ attempt'[p].at = s /\ attempt'[p].current = attempt[p].current
  BY <1>2 DEF LauncherInv, LauncherTypeOK, AttemptRecord
<1>4. server' \in [Places -> Identities]
  BY DEF LauncherInv, LauncherTypeOK, LocalBegins, SshBegins, TunnelCleared, RemoteVersion, RemoteStart, Fail,
         connectors, world, CleanUp, SshCleanUp, LocalCleanUp, RemoteRuns, Identities, Places
<1>5. /\ tunnel' \in [SshProfiles -> {"none", "open", "dead", "dropped"}]
      /\ \A q \in SshProfiles \ {p} : tunnel'[q] = tunnel[q]
  BY DEF LauncherInv, LauncherTypeOK, LocalBegins, SshBegins, TunnelCleared, RemoteVersion, RemoteStart, Fail,
         connectors, world, CleanUp, SshCleanUp, LocalCleanUp, TunnelSpawned, Popped, Terminated
<1>6. LauncherTypeOK'
  BY <1>1, <1>3, <1>4, <1>5 DEF LauncherInv, LauncherTypeOK, leases
<1>7. s # "none"
  BY DEF Awaiting
<1>8. SessionsInv'
  <2>1. Bindings' /\ ValidLeases'
    BY <1>1 DEF LauncherInv, SessionsInv, Bindings, ValidLeases, leases
  <2>2. \A q \in Profiles : ReadySession(q)' /\ Trying(q)'
    BY <1>1, <1>3, <1>7 DEF LauncherInv, SessionsInv, ReadySession, Trying
  <2>3. NothingStarted'
    BY <1>1 DEF LauncherInv, SessionsInv, NothingStarted, NoAttempt
  <2> QED  BY <2>1, <2>2, <2>3 DEF SessionsInv
<1>9. p \in SshProfiles /\ tunnel'[p] = "dropped" => attempt'[p].at \in {"clearing", "cleanup"} \/ op[p].step = "closing"
  <2> SUFFICES ASSUME p \in SshProfiles, tunnel'[p] = "dropped"
               PROVE  attempt'[p].at \in {"clearing", "cleanup"} \/ op[p].step = "closing"
    OBVIOUS
  <2>1. /\ tunnel \in [SshProfiles -> {"none", "open", "dead", "dropped"}]
        /\ attempt \in [Profiles -> AttemptRecord] /\ p \notin LocalProfiles
    BY DEF LauncherInv, LauncherTypeOK
  <2>2. CASE SshBegins(p)
    BY <1>2, <1>3, <2>1, <2>2 DEF SshBegins, Popped, Step, AttemptRecord
  <2>3. CASE TunnelCleared(p) \/ RemoteStart(p)
    BY <2>1, <2>3 DEF TunnelCleared, RemoteStart, TunnelSpawned, Terminated
  <2>4. CASE RemoteVersion(p)
    BY <2>1, <2>4 DEF RemoteVersion, Running, connectors, LauncherInv, ClosingInv, DroppedByOne
  <2>5. CASE Fail(p)
    BY <2>1, <2>5 DEF Fail, Step, AttemptRecord
  <2> QED  BY <2>1, <2>2, <2>3, <2>4, <2>5 DEF LocalBegins
<1>10. DroppedByOne'
  BY <1>1, <1>3, <1>5, <1>9 DEF LauncherInv, ClosingInv, DroppedByOne, Profiles
<1>11. ClosingInv'
  BY <1>1, <1>10, AttemptClosing DEF LauncherInv
<1> QED  BY <1>6, <1>8, <1>11 DEF LauncherInv

\* A failed attempt ends; a cancelled one cleans up or ends.
LEMMA AttemptEnds ==
  ASSUME LauncherInv, NEW p \in Profiles, RecordError(p) \/ AttemptCancelled(p)
  PROVE  LauncherInv'
<1>1. UNCHANGED <<profile, op, issued, phase, wanted, identity>>
  BY DEF RecordError, AttemptCancelled, CleanUp, SshCleanUp, LocalCleanUp, world, leases
<1>2. attempt[p] \in AttemptRecord /\ NoAttempt \in AttemptRecord /\ NoAttempt.at = "none"
  BY DEF LauncherInv, LauncherTypeOK, AttemptRecord, NoAttempt, Identities
<1>3. PICK a \in AttemptRecord :
         /\ attempt' = [attempt EXCEPT ![p] = a]
         /\ (a.at = "cleanup" /\ a.current = FALSE) \/ a = NoAttempt
  <2>1. \/ attempt' = [attempt EXCEPT ![p] = NoAttempt]
        \/ attempt' = [attempt EXCEPT ![p] = [attempt[p] EXCEPT !.at = "cleanup", !.cancelled = FALSE, !.current = FALSE]]
    BY DEF RecordError, AttemptCancelled, LauncherInv, LauncherTypeOK
  <2>2. ASSUME NEW b \in AttemptRecord
        PROVE  [b EXCEPT !.at = "cleanup", !.cancelled = FALSE, !.current = FALSE] \in {c \in AttemptRecord :
                   c.at = "cleanup" /\ c.current = FALSE}
    BY DEF AttemptRecord
  <2> QED  BY <1>2, <2>1, <2>2
<1>4. /\ attempt' \in [Profiles -> AttemptRecord]
      /\ attempt'[p] = a
      /\ \A q \in Profiles \ {p} : attempt'[q] = attempt[q]
  BY <1>3 DEF LauncherInv, LauncherTypeOK
<1>5. \/ UNCHANGED <<session, invalidated>>
      \/ /\ invalidated' = Lost({p}) /\ session' \in [Profiles -> SessionRecord]
         /\ session'[p].status # "ready" /\ \A q \in Profiles \ {p} : session'[q] = session[q]
         /\ attempt[p].at = "cleanup"
  <2>1. CASE AttemptCancelled(p) \/ UNCHANGED <<session, invalidated>>
    BY <2>1 DEF AttemptCancelled, leases
  <2>2. CASE RecordError(p) /\ ~UNCHANGED <<session, invalidated>>
    <3>1. PICK r \in SessionRecord : session' = [session EXCEPT ![p] = r] /\ r.status # "ready"
      <4>1. session[p] \in SessionRecord /\ FreshSession \in SessionRecord /\ FreshSession.status = "disconnected"
        BY DEF LauncherInv, LauncherTypeOK, SessionRecord, FreshSession, Identities
      <4>2. ASSUME NEW r \in SessionRecord
            PROVE  /\ [r EXCEPT !.status = "error", !.instance = None, !.lease = None] \in SessionRecord
                   /\ [r EXCEPT !.status = "error", !.instance = None, !.lease = None].status = "error"
        BY DEF SessionRecord, Identities
      <4> QED  BY <2>2, <4>1, <4>2 DEF RecordError
    <3>2. invalidated' = Lost({p}) /\ attempt[p].at = "cleanup"
      BY <2>2 DEF RecordError, Running
    <3> QED  BY <3>1, <3>2 DEF LauncherInv, LauncherTypeOK
  <2> QED  BY <2>1, <2>2
<1>6. server' \in [Places -> Identities]
  BY DEF LauncherInv, LauncherTypeOK, RecordError, AttemptCancelled, world, CleanUp, SshCleanUp, LocalCleanUp, Identities
<1>7. /\ tunnel' \in [SshProfiles -> {"none", "open", "dead", "dropped"}]
      /\ \A q \in SshProfiles \ {p} : tunnel'[q] = tunnel[q]
  BY DEF LauncherInv, LauncherTypeOK, RecordError, AttemptCancelled, CleanUp, SshCleanUp, LocalCleanUp, Popped, Terminated
<1>8. LauncherTypeOK'
  BY <1>1, <1>4, <1>5, <1>6, <1>7 DEF LauncherInv, LauncherTypeOK
<1>9. attempt[p].at # "none"
  BY <1>2 DEF RecordError, AttemptCancelled, Running, LauncherInv, SessionsInv, Trying, NoAttempt
<1>10. SessionsInv'
  <2>1. Bindings'
    BY <1>1 DEF LauncherInv, SessionsInv, Bindings
  <2>2. \A q \in Profiles : ReadySession(q)' /\ Trying(q)'
    BY <1>1, <1>2, <1>3, <1>4, <1>5, <1>9 DEF LauncherInv, SessionsInv, ReadySession, Trying
  <2>3. NothingStarted'
    BY <1>1, <1>9 DEF LauncherInv, SessionsInv, NothingStarted, NoAttempt
  <2>4. ValidLeases'
    <3>1. session[p].status # "ready"
      BY <1>9 DEF LauncherInv, SessionsInv, ReadySession
    <3>2. ASSUME NEW l \in 1..issued, l \notin invalidated'
          PROVE  \E q \in Profiles : session'[q].status = "ready" /\ session'[q].lease = l
      <4>1. l \notin invalidated
        BY <1>5, <3>2 DEF Lost
      <4>2. PICK q \in Profiles : session[q].status = "ready" /\ session[q].lease = l
        BY <4>1 DEF LauncherInv, SessionsInv, ValidLeases
      <4> QED  BY <1>5, <3>1, <4>2
    <3> QED  BY <1>1, <3>2 DEF ValidLeases
  <2> QED  BY <2>1, <2>2, <2>3, <2>4 DEF SessionsInv
<1>11. p \in SshProfiles /\ tunnel'[p] = "dropped" => attempt'[p].at = "cleanup"
  <2> SUFFICES ASSUME p \in SshProfiles, tunnel'[p] = "dropped" PROVE attempt'[p].at = "cleanup"
    OBVIOUS
  <2>1. tunnel \in [SshProfiles -> {"none", "open", "dead", "dropped"}] /\ attempt \in [Profiles -> AttemptRecord]
    BY DEF LauncherInv, LauncherTypeOK
  <2>2. CASE RecordError(p)
    BY <2>1, <2>2 DEF RecordError, Terminated
  <2>3. CASE AttemptCancelled(p) /\ attempt[p].at \in Awaiting \ {"clearing"}
    <3>1. attempt'[p] = [attempt[p] EXCEPT !.at = "cleanup", !.cancelled = FALSE, !.current = FALSE]
      BY <2>1, <2>3 DEF AttemptCancelled
    <3> QED  BY <1>2, <3>1 DEF AttemptRecord
  <2>4. CASE AttemptCancelled(p) /\ attempt[p].at \notin Awaiting \ {"clearing"}
    BY <2>1, <2>4 DEF AttemptCancelled, Terminated
  <2> QED  BY <2>2, <2>3, <2>4
<1>12. DroppedByOne'
  BY <1>1, <1>4, <1>7, <1>11 DEF LauncherInv, ClosingInv, DroppedByOne, Profiles
<1>13. ClosingInv'
  BY <1>1, <1>9, <1>12, AttemptClosing DEF LauncherInv
<1> QED  BY <1>8, <1>10, <1>13 DEF LauncherInv

\* What an attempt meets is the instance of a server.
LEMMA MetInstance ==
  ASSUME LauncherInv, NEW p \in Profiles, Publish(p)
  PROVE  Met(p) \in Instances /\ attempt[p].at \in {"probe", "waiting", "handshake"}
<1>1. Met(p) # None /\ attempt[p].at \in {"probe", "waiting", "handshake"}
  BY DEF Publish, ProbeAnswers, ChildAnswers, SshAnswers
<1>2. PlaceOf(p) \in Places
  BY <1>1 DEF PlaceOf, Places, Profiles, LauncherInv, LauncherTypeOK, SessionsInv, Trying
<1> QED
  BY <1>1, <1>2 DEF Met, LocalIdentity, RemoteIdentity, LauncherInv, LauncherTypeOK, Identities, Places

\* A server that may be published is not the one of another profile.
LEMMA VerdictIsSafe ==
  ASSUME LauncherInv, NEW p \in Profiles, NEW i \in Instances, Verdict(p, i) = "ok"
  PROVE  /\ attempt[p].current
         /\ profile[p].bound = i \/ ~BoundElsewhere(p, i)
         /\ attempt[p].rebind \in {i, None}
         /\ attempt[p].rebind = None => profile[p].bound \in {i, None}
  BY DEF Verdict, BindVerdict, RebindVerdict

LEMMA PublishedKeeps ==
  ASSUME LauncherInv, NEW p \in Profiles, Publish(p), Verdict(p, Met(p)) = "ok"
  PROVE  LauncherInv'
<1> DEFINE i == Met(p)
<1>1. /\ profile' = [profile EXCEPT ![p].bound = i]
      /\ session' = [session EXCEPT ![p] = [status |-> "ready", instance |-> i, lease |-> issued + 1]]
      /\ issued' = issued + 1 /\ invalidated' = Lost({p})
      /\ attempt' = [attempt EXCEPT ![p] = NoAttempt]
      /\ UNCHANGED <<op, phase, tunnel, child, server, identity, wanted>>
  BY DEF Publish, Binding, world
<1>2. i \in Instances /\ attempt[p].at \in {"probe", "waiting", "handshake"}
  BY MetInstance
<1>3. attempt[p].current /\ (profile[p].bound = i \/ ~BoundElsewhere(p, i))
  BY <1>2, VerdictIsSafe
<1>4. p \in wanted /\ profile[p].state = "present" /\ session[p].status # "ready"
  BY <1>2, <1>3 DEF LauncherInv, SessionsInv, Trying, ReadySession
<1>5. /\ profile' \in [Profiles -> ProfileRecord]
      /\ profile'[p].bound = i /\ profile'[p].state = "present"
      /\ \A q \in Profiles : profile'[q].state = profile[q].state /\ profile'[q].target = profile[q].target
      /\ \A q \in Profiles \ {p} : profile'[q] = profile[q]
  BY <1>1, <1>2, <1>4 DEF LauncherInv, LauncherTypeOK, ProfileRecord, Identities
<1>6. /\ session' \in [Profiles -> SessionRecord]
      /\ session'[p].status = "ready" /\ session'[p].instance = i /\ session'[p].lease = issued + 1
      /\ \A q \in Profiles \ {p} : session'[q] = session[q]
  BY <1>1, <1>2 DEF LauncherInv, LauncherTypeOK, SessionRecord, Identities
<1>7. /\ attempt' \in [Profiles -> AttemptRecord] /\ attempt'[p] = NoAttempt /\ attempt'[p].at = "none"
      /\ \A q \in Profiles \ {p} : attempt'[q] = attempt[q]
  BY <1>1 DEF LauncherInv, LauncherTypeOK, AttemptRecord, NoAttempt, Identities
<1>8. LauncherTypeOK'
  <2>1. \A q \in LocalProfiles : profile'[q].state # "new" => profile'[q].target \in Targets
    BY <1>5 DEF LauncherInv, LauncherTypeOK, Profiles
  <2> QED  BY <1>1, <1>5, <1>6, <1>7, <2>1 DEF LauncherInv, LauncherTypeOK
<1>9. i # None /\ None \notin Instances
  BY <1>2
<1>10. \A q \in Profiles \ {p} : profile[q].bound # i
  <2>1. ASSUME NEW q \in Profiles \ {p}, profile[q].bound = i PROVE FALSE
    <3>1. profile[q].state = "present"
      BY <1>9, <2>1 DEF LauncherInv, SessionsInv, Bindings
    <3>2. profile[p].bound # i
      BY <1>9, <2>1 DEF LauncherInv, SessionsInv, Bindings
    <3> QED  BY <1>3, <2>1, <3>1, <3>2 DEF BoundElsewhere, Present
  <2> QED  BY <2>1
<1>11. SessionsInv'
  <2>1. Bindings'
    BY <1>5, <1>9, <1>10 DEF LauncherInv, SessionsInv, Bindings
  <2>2. \A q \in Profiles : ReadySession(q)' /\ Trying(q)'
    BY <1>1, <1>4, <1>5, <1>6, <1>7, <1>9 DEF LauncherInv, SessionsInv, ReadySession, Trying
  <2>3. NothingStarted'
    BY <1>1, <1>2 DEF LauncherInv, SessionsInv, NothingStarted, NoAttempt
  <2>4. ASSUME NEW l \in 1..(issued + 1), l \notin invalidated'
        PROVE  \E q \in Profiles : session'[q].status = "ready" /\ session'[q].lease = l
    <3>1. CASE l = issued + 1
      BY <1>6, <3>1
    <3>2. CASE l # issued + 1
      <4>1. l \in 1..issued /\ l \notin invalidated
        <5>1. issued \in Nat
          BY DEF LauncherInv, LauncherTypeOK
        <5>2. l \in 1..issued
          BY <2>4, <3>2, <5>1
        <5> QED  BY <1>1, <2>4, <5>2 DEF Lost
      <4>2. PICK q \in Profiles : session[q].status = "ready" /\ session[q].lease = l
        BY <4>1 DEF LauncherInv, SessionsInv, ValidLeases
      <4> QED  BY <1>4, <1>6, <4>2
    <3> QED  BY <3>1, <3>2
  <2>5. ValidLeases'
    BY <1>1, <2>4 DEF ValidLeases
  <2> QED  BY <2>1, <2>2, <2>3, <2>5 DEF SessionsInv
<1>12. DroppedByOne'
  BY <1>1, <1>2, <1>7 DEF LauncherInv, ClosingInv, DroppedByOne, Profiles
<1>13. ClosingInv'
  BY <1>1, <1>2, <1>12, AttemptClosing DEF LauncherInv
<1> QED  BY <1>8, <1>11, <1>13 DEF LauncherInv

LEMMA RefusedKeeps ==
  ASSUME LauncherInv, NEW p \in Profiles, Publish(p), Verdict(p, Met(p)) # "ok"
  PROVE  LauncherInv'
<1>1. /\ UNCHANGED <<session, leases, op, phase, server, identity, wanted>>
      /\ profile' = profile \/ profile' = [profile EXCEPT ![p].state = "deleted", ![p].bound = None]
      /\ tunnel' = IF p \in SshProfiles THEN [tunnel EXCEPT ![p] = Popped(@)] ELSE tunnel
      /\ attempt' = [attempt EXCEPT ![p].at = "cleanup", ![p].cancelled = FALSE]
  BY DEF Publish, Removed, world
<1>2. attempt[p].at \in {"probe", "waiting", "handshake"}
  BY MetInstance
<1>3. session[p].status # "ready" /\ profile[p].state # "new"
  BY <1>2 DEF LauncherInv, SessionsInv, ReadySession, Trying
<1>4. /\ profile' \in [Profiles -> ProfileRecord]
      /\ \A q \in Profiles \ {p} : profile'[q] = profile[q]
      /\ profile'[p].state # "new" /\ profile'[p].target = profile[p].target
      /\ profile'[p] = profile[p] \/ (profile'[p].state = "deleted" /\ profile'[p].bound = None)
  <2>1. ASSUME NEW r \in ProfileRecord
        PROVE  [r EXCEPT !.state = "deleted", !.bound = None] \in
                   {c \in ProfileRecord : c.state = "deleted" /\ c.bound = None /\ c.target = r.target}
    BY DEF ProfileRecord, Identities
  <2>2. profile \in [Profiles -> ProfileRecord]
    BY DEF LauncherInv, LauncherTypeOK
  <2>3. profile' = profile \/ profile' = [profile EXCEPT ![p] = [profile[p] EXCEPT !.state = "deleted", !.bound = None]]
    BY <1>1, <2>2
  <2>4. profile[p] \in ProfileRecord
    BY <2>2
  <2>5. CASE profile' = profile
    BY <1>3, <2>2, <2>5
  <2>6. CASE profile' = [profile EXCEPT ![p] = [profile[p] EXCEPT !.state = "deleted", !.bound = None]]
    <3> DEFINE removed == [profile[p] EXCEPT !.state = "deleted", !.bound = None]
    <3>1. removed \in ProfileRecord /\ removed.state = "deleted" /\ removed.bound = None /\ removed.target = profile[p].target
      BY <2>1, <2>4
    <3> HIDE DEF removed
    <3>2. profile' = [profile EXCEPT ![p] = removed]
      BY <2>6 DEF removed
    <3> QED  BY <2>2, <3>1, <3>2
  <2> QED  BY <2>3, <2>5, <2>6
<1>5. /\ attempt' \in [Profiles -> AttemptRecord]
      /\ attempt'[p].at = "cleanup" /\ attempt'[p].current = attempt[p].current
      /\ \A q \in Profiles \ {p} : attempt'[q] = attempt[q]
  <2>1. ASSUME NEW r \in AttemptRecord
        PROVE  [r EXCEPT !.at = "cleanup", !.cancelled = FALSE] \in
                   {c \in AttemptRecord : c.at = "cleanup" /\ c.current = r.current}
    BY DEF AttemptRecord
  <2>2. attempt \in [Profiles -> AttemptRecord]
    BY DEF LauncherInv, LauncherTypeOK
  <2>3. attempt' = [attempt EXCEPT ![p] = [attempt[p] EXCEPT !.at = "cleanup", !.cancelled = FALSE]]
    BY <1>1, <2>2
  <2> QED  BY <2>1, <2>2, <2>3
<1>6. /\ tunnel' \in [SshProfiles -> {"none", "open", "dead", "dropped"}]
      /\ \A q \in SshProfiles \ {p} : tunnel'[q] = tunnel[q]
  BY <1>1 DEF LauncherInv, LauncherTypeOK, Popped
<1>7. LauncherTypeOK'
  <2>1. \A q \in LocalProfiles : profile'[q].state # "new" => profile'[q].target \in Targets
    BY <1>3, <1>4 DEF LauncherInv, LauncherTypeOK, Profiles
  <2> QED  BY <1>1, <1>4, <1>5, <1>6, <2>1 DEF LauncherInv, LauncherTypeOK, leases
<1>8. SessionsInv'
  <2>1. Bindings' /\ ValidLeases'
    BY <1>1, <1>4 DEF LauncherInv, SessionsInv, Bindings, ValidLeases, leases
  <2>2. \A q \in Profiles : ReadySession(q)' /\ Trying(q)'
    BY <1>1, <1>2, <1>3, <1>4, <1>5 DEF LauncherInv, SessionsInv, ReadySession, Trying
  <2>3. NothingStarted'
    BY <1>1, <1>2 DEF LauncherInv, SessionsInv, NothingStarted, NoAttempt
  <2> QED  BY <2>1, <2>2, <2>3 DEF SessionsInv
<1>9. DroppedByOne'
  BY <1>1, <1>5, <1>6 DEF LauncherInv, ClosingInv, DroppedByOne, Profiles
<1>10. ClosingInv'
  BY <1>1, <1>2, <1>9, AttemptClosing DEF LauncherInv
<1> QED  BY <1>7, <1>8, <1>10 DEF LauncherInv

-----------------------------------------------------------------------------
(* The start, the shutdown, the proxy and the world *)

LEMMA LauncherInitially == Init => LauncherInv
<1> SUFFICES ASSUME Init PROVE LauncherInv
  OBVIOUS
<1>1. PICK kept \in SUBSET ((AutoConnect \cap used) \ {Default}), t \in Targets \ {DefaultTarget} :
         profile = [p \in Profiles |->
             CASE p = Default -> [state |-> "present", bound |-> None, target |-> DefaultTarget]
               [] p \in kept -> [state |-> "present", bound |-> None, target |-> t]
               [] OTHER -> [state |-> "new", bound |-> None, target |-> None]]
  BY DEF Init
<1>2. /\ profile \in [Profiles -> ProfileRecord]
      /\ \A p \in Profiles : profile[p].bound = None /\ (profile[p].state # "new" => profile[p].target \in Targets)
  BY <1>1 DEF ProfileRecord, Identities
<1>3. /\ session = [p \in Profiles |-> FreshSession] /\ attempt = [p \in Profiles |-> NoAttempt]
      /\ op = [p \in Profiles |-> NoOp] /\ issued = 0 /\ invalidated = {} /\ phase = "starting"
      /\ tunnel = [p \in SshProfiles |-> "none"]
  BY DEF Init
<1>4. identity \in [Places -> Instances] /\ server \in [Places -> Identities]
  BY DEF Init, Identities
<1>5. LauncherTypeOK
  BY <1>2, <1>3, <1>4 DEF LauncherTypeOK, SessionRecord, AttemptRecord, OpRecord, FreshSession, NoAttempt, NoOp,
                          Identities, Profiles
<1>6. SessionsInv
  BY <1>2, <1>3 DEF SessionsInv, Bindings, ReadySession, Trying, ValidLeases, NothingStarted, FreshSession, NoAttempt
<1>7. ClosingInv
  BY <1>3 DEF ClosingInv, DroppedByOne, ShutdownInOrder
<1> QED  BY <1>5, <1>6, <1>7 DEF LauncherInv

LEMMA StartKeeps ==
  ASSUME LauncherInv, Start
  PROVE  LauncherInv'
<1>1. /\ phase = "starting" /\ phase' = "open"
      /\ UNCHANGED <<profile, op, leases, tunnel, server, identity>>
      /\ wanted' = AutoConnect \cap Present
      /\ attempt' = [p \in Profiles |-> IF p \in AutoConnect \cap Present THEN NewAttempt(None, TRUE) ELSE attempt[p]]
      /\ session' = [p \in Profiles |-> IF p \in AutoConnect \cap Present
                                        THEN [session[p] EXCEPT !.status = "connecting"] ELSE session[p]]
  BY DEF Start, connectors, world
<1>2. \A p \in Profiles : session[p] = FreshSession /\ attempt[p] = NoAttempt
  BY <1>1 DEF LauncherInv, SessionsInv, NothingStarted
<1>3. \A p \in Profiles : attempt[p].at = "none" /\ session[p].status = "disconnected"
  BY <1>2 DEF NoAttempt, FreshSession
<1>4. ASSUME NEW p \in Profiles
      PROVE  /\ attempt'[p] \in AttemptRecord /\ session'[p] \in SessionRecord
             /\ session'[p].status # "ready"
             /\ \/ attempt'[p] = NoAttempt
                \/ attempt'[p].at = "scheduled" /\ p \in wanted' /\ profile'[p].state = "present"
  <2>1. NewAttempt(None, TRUE) \in AttemptRecord /\ NewAttempt(None, TRUE).at = "scheduled"
    BY DEF NewAttempt, AttemptRecord, Identities
  <2>2. ASSUME NEW r \in SessionRecord
        PROVE  [r EXCEPT !.status = "connecting"] \in {c \in SessionRecord : c.status = "connecting"}
    BY DEF SessionRecord
  <2>3. session[p] \in SessionRecord /\ attempt[p] \in AttemptRecord
    BY DEF LauncherInv, LauncherTypeOK
  <2>4. CASE p \in AutoConnect \cap Present
    BY <1>1, <2>1, <2>2, <2>3, <2>4 DEF Present
  <2>5. CASE p \notin AutoConnect \cap Present
    BY <1>1, <1>2, <1>3, <2>3, <2>5
  <2> QED  BY <2>4, <2>5
<1>5. attempt' \in [Profiles -> AttemptRecord] /\ session' \in [Profiles -> SessionRecord]
  <2>1. attempt' = [p \in Profiles |-> attempt'[p]] /\ session' = [p \in Profiles |-> session'[p]]
    BY <1>1
  <2> QED  BY <1>4, <2>1
<1>6. LauncherTypeOK'
  BY <1>1, <1>5 DEF LauncherInv, LauncherTypeOK, leases
<1>7. SessionsInv'
  <2>1. Bindings' /\ NothingStarted'
    BY <1>1 DEF LauncherInv, SessionsInv, Bindings, NothingStarted
  <2>2. \A p \in Profiles : ReadySession(p)' /\ Trying(p)'
    <3>1. NoAttempt.at = "none"
      BY DEF NoAttempt
    <3> QED  BY <1>4, <3>1 DEF ReadySession, Trying
  <2>3. ValidLeases'
    BY <1>1, <1>3 DEF LauncherInv, SessionsInv, ValidLeases, leases
  <2> QED  BY <2>1, <2>2, <2>3 DEF SessionsInv
<1>8. ClosingInv'
  BY <1>1, <1>3, OpenClosing DEF LauncherInv, Profiles
<1> QED  BY <1>6, <1>7, <1>8 DEF LauncherInv

LEMMA CloseKeeps ==
  ASSUME LauncherInv, Close
  PROVE  LauncherInv'
<1>1. /\ phase = "open" /\ phase' = "cancelling" /\ \A p \in Profiles : Free(p)
      /\ UNCHANGED <<profile, session, op, leases, tunnel, server, identity, wanted>>
      /\ attempt' = [p \in Profiles |-> IF attempt[p].at = "none" THEN attempt[p]
                                        ELSE [attempt[p] EXCEPT !.cancelled = TRUE]]
  BY DEF Close, connectors, world
<1>2. ASSUME NEW p \in Profiles
      PROVE  /\ attempt'[p] \in AttemptRecord
             /\ attempt'[p].at = attempt[p].at /\ attempt'[p].current = attempt[p].current
             /\ attempt[p].at = "none" => attempt'[p] = attempt[p]
  <2>1. ASSUME NEW r \in AttemptRecord
        PROVE  [r EXCEPT !.cancelled = TRUE] \in {c \in AttemptRecord : c.at = r.at /\ c.current = r.current}
    BY DEF AttemptRecord
  <2>2. attempt[p] \in AttemptRecord
    BY DEF LauncherInv, LauncherTypeOK
  <2> QED  BY <1>1, <2>1, <2>2
<1>3. attempt' \in [Profiles -> AttemptRecord]
  <2>1. attempt' = [p \in Profiles |-> attempt'[p]]
    BY <1>1
  <2> QED  BY <1>2, <2>1
<1>4. LauncherTypeOK'
  BY <1>1, <1>3 DEF LauncherInv, LauncherTypeOK, leases
<1>5. SessionsInv'
  <2>1. Bindings' /\ ValidLeases' /\ NothingStarted'
    BY <1>1 DEF LauncherInv, SessionsInv, Bindings, ValidLeases, NothingStarted, leases
  <2>2. \A p \in Profiles : ReadySession(p)' /\ Trying(p)'
    BY <1>1, <1>2 DEF LauncherInv, SessionsInv, ReadySession, Trying
  <2> QED  BY <2>1, <2>2 DEF SessionsInv
<1>6. DroppedByOne'
  BY <1>1, <1>2 DEF LauncherInv, ClosingInv, DroppedByOne, Profiles
<1>7. ShutdownInOrder'
  BY <1>1 DEF ShutdownInOrder, Free
<1> QED  BY <1>4, <1>5, <1>6, <1>7 DEF LauncherInv, ClosingInv

LEMMA CloseStopsKeeps ==
  ASSUME LauncherInv, CloseStops
  PROVE  LauncherInv'
<1>1. /\ phase = "cancelling" /\ phase' = "stopping" /\ \A p \in Profiles : attempt[p].at = "none"
      /\ UNCHANGED <<profile, session, attempt, leases, tunnel, server, identity, wanted>>
      /\ op' = [p \in Profiles |-> IF Stoppable(p) THEN Op("stop", "requesting", session[p].instance) ELSE op[p]]
  BY DEF CloseStops, connectors, world
<1>2. op' \in [Profiles -> OpRecord]
  <2>1. ASSUME NEW p \in Profiles
        PROVE  Op("stop", "requesting", session[p].instance) \in OpRecord /\ op[p] \in OpRecord
    BY DEF LauncherInv, LauncherTypeOK, SessionRecord, OpRecord, Op
  <2> QED  BY <1>1, <2>1
<1>3. LauncherTypeOK'
  BY <1>1, <1>2 DEF LauncherInv, LauncherTypeOK, leases
<1>4. SessionsInv'
  BY <1>1, SessionsQuiet DEF LauncherInv
<1>5. DroppedByOne'
  BY <1>1 DEF LauncherInv, ClosingInv, DroppedByOne, ShutdownInOrder, Free, NoOp, Profiles
<1>6. ShutdownInOrder'
  BY <1>1 DEF ShutdownInOrder
<1> QED  BY <1>3, <1>4, <1>5, <1>6 DEF LauncherInv, ClosingInv

LEMMA CloseDisconnectsKeeps ==
  ASSUME LauncherInv, CloseDisconnects
  PROVE  LauncherInv'
<1>1. /\ phase = "stopping" /\ phase' = "disconnecting" /\ \A p \in Profiles : Free(p)
      /\ DisconnectLocked(Present) /\ Present \subseteq Profiles
      /\ UNCHANGED <<profile, op, issued, server, identity>>
      /\ tunnel' = [p \in SshProfiles |-> IF p \in Present THEN Terminated(Popped(tunnel[p])) ELSE tunnel[p]]
  BY DEF CloseDisconnects, world, Present
<1>2. /\ session' \in [Profiles -> SessionRecord] /\ attempt' \in [Profiles -> AttemptRecord]
      /\ \A p \in Profiles : /\ attempt'[p].at = attempt[p].at
                             /\ p \in Present => session'[p].status = "disconnected"
                             /\ p \notin Present => session'[p] = session[p]
  BY <1>1, Disconnection DEF LauncherInv
<1>3. /\ tunnel' \in [SshProfiles -> {"none", "open", "dead", "dropped"}]
      /\ \A p \in SshProfiles : tunnel'[p] = "dropped" => tunnel[p] = "dropped"
  BY <1>1 DEF LauncherInv, LauncherTypeOK, Terminated, Popped
<1>4. LauncherTypeOK'
  BY <1>1, <1>2, <1>3 DEF LauncherInv, LauncherTypeOK
<1>5. SessionsInv'
  BY <1>1, DisconnectKeeps DEF LauncherInv
<1>6. DroppedByOne'
  BY <1>1, <1>2, <1>3 DEF LauncherInv, ClosingInv, DroppedByOne, Profiles
<1>7. ShutdownInOrder'
  <2>1. \A p \in Profiles : session'[p].status # "ready"
    BY <1>2 DEF LauncherInv, SessionsInv, ReadySession, Present
  <2>2. \A p \in Profiles : attempt'[p].at = "none"
    BY <1>1, <1>2 DEF LauncherInv, ClosingInv, ShutdownInOrder
  <2> QED  BY <1>1, <2>1, <2>2 DEF ShutdownInOrder, Free
<1> QED  BY <1>4, <1>5, <1>6, <1>7 DEF LauncherInv, ClosingInv

LEMMA CloseConnectorsKeeps ==
  ASSUME LauncherInv, CloseConnectors
  PROVE  LauncherInv'
<1>1. /\ phase = "disconnecting" /\ phase' = "closed"
      /\ UNCHANGED <<profile, session, attempt, op, leases, identity, wanted>>
      /\ child' = [t \in Targets |-> "none"]
      /\ server' = [x \in Places |-> IF x \in Targets /\ child[x] = "up" THEN None ELSE server[x]]
      /\ tunnel' = [p \in SshProfiles |-> IF tunnel[p] \in {"open", "dead"} THEN "none" ELSE tunnel[p]]
  BY DEF CloseConnectors
<1>2. \A p \in Profiles : attempt[p].at = "none" /\ Free(p) /\ session[p].status # "ready"
  BY <1>1 DEF LauncherInv, ClosingInv, ShutdownInOrder
<1>3. \A p \in SshProfiles : tunnel[p] \in {"none", "open", "dead"}
  BY <1>2 DEF LauncherInv, LauncherTypeOK, ClosingInv, DroppedByOne, Free, NoOp, Profiles
<1>4. tunnel' \in [SshProfiles -> {"none", "open", "dead", "dropped"}] /\ \A p \in SshProfiles : tunnel'[p] = "none"
  BY <1>1, <1>3
<1>5. LauncherTypeOK'
  BY <1>1, <1>4 DEF LauncherInv, LauncherTypeOK, leases, Identities
<1>6. SessionsInv'
  BY <1>1, SessionsQuiet DEF LauncherInv
<1>7. DroppedByOne'
  BY <1>4 DEF DroppedByOne
<1>8. ShutdownInOrder'
  BY <1>1, <1>2, <1>4 DEF ShutdownInOrder, Free
<1> QED  BY <1>5, <1>6, <1>7, <1>8 DEF LauncherInv, ClosingInv

LEMMA RestKeeps ==
  ASSUME LauncherInv, UNCHANGED vars \/ World \/ \E r \in Requests : Proxy(r)
  PROVE  LauncherInv'
<1>1. UNCHANGED <<profile, session, attempt, op, leases, phase, wanted>>
  BY DEF vars, World, ServerUp, ServerStops, ServerChanges, TunnelDies, Proxy, Resolve, Forward, Cut, ResponseEnds
<1>2. identity' \in [Places -> Instances] /\ server' \in [Places -> Identities]
  BY DEF vars, World, ServerUp, ServerStops, ServerChanges, TunnelDies, Proxy, Resolve, Forward, Cut, ResponseEnds,
         world, LauncherInv, LauncherTypeOK, Identities, Places
<1>3. /\ tunnel' \in [SshProfiles -> {"none", "open", "dead", "dropped"}]
      /\ \A p \in SshProfiles : tunnel'[p] = tunnel[p] \/ (tunnel[p] = "open" /\ tunnel'[p] = "dead")
  BY DEF vars, World, ServerUp, ServerStops, ServerChanges, TunnelDies, Proxy, Resolve, Forward, Cut, ResponseEnds,
         connectors, LauncherInv, LauncherTypeOK
<1>4. child = [t \in Targets |-> "none"] => child' = child
  BY DEF vars, World, ServerUp, ServerStops, ServerChanges, TunnelDies, Proxy, Resolve, Forward, Cut, ResponseEnds,
         connectors
<1>5. LauncherTypeOK'
  BY <1>1, <1>2, <1>3 DEF LauncherInv, LauncherTypeOK, leases
<1>6. SessionsInv'
  BY <1>1, SessionsQuiet DEF LauncherInv
<1>7. DroppedByOne'
  BY <1>1, <1>3 DEF LauncherInv, ClosingInv, DroppedByOne
<1>8. ShutdownInOrder'
  BY <1>1, <1>3, <1>4 DEF LauncherInv, ClosingInv, ShutdownInOrder, Free
<1> QED  BY <1>5, <1>6, <1>7, <1>8 DEF LauncherInv, ClosingInv

-----------------------------------------------------------------------------
(* Theorems *)

LEMMA LauncherStep == LauncherInv /\ [Next]_vars => LauncherInv'
<1> SUFFICES ASSUME LauncherInv, [Next]_vars PROVE LauncherInv'
  OBVIOUS
<1>1. ASSUME NEW p \in Profiles, Client(p) PROVE LauncherInv'
  BY <1>1, ProfileKeeps, ConnectKeeps, DisconnectsKeeps, StopKeeps DEF Client, Identities
<1>2. ASSUME NEW p \in Profiles, Operate(p) PROVE LauncherInv'
  BY <1>2, OperationQuiet, ShutdownKeeps, StoppedKeeps DEF Operate
<1>3. ASSUME NEW p \in Profiles, Attempt(p) PROVE LauncherInv'
  BY <1>3, AttemptGoesOn, AttemptEnds, PublishedKeeps, RefusedKeeps DEF Attempt
<1>4. CASE Start
  BY <1>4, StartKeeps
<1>5. CASE Close \/ Closing
  BY <1>5, CloseKeeps, CloseStopsKeeps, CloseDisconnectsKeeps, CloseConnectorsKeeps DEF Closing
<1>6. CASE UNCHANGED vars \/ World \/ \E r \in Requests : Proxy(r)
  BY <1>6, RestKeeps
<1> QED  BY <1>1, <1>2, <1>3, <1>4, <1>5, <1>6 DEF Next

LEMMA LauncherInvariance == Spec => []LauncherInv
  BY LauncherInitially, LauncherStep, PTL DEF Spec

\* What the proxy forwards under a lease that nobody has ended goes to the server
\* the client meant: a disconnect, a failed attempt and a published one end the lease
\* of the session they replace.
THEOREM LeasesAreCurrent == Spec => []LeaseIsCurrent
<1>1. LauncherInv => LeaseIsCurrent
  <2> SUFFICES ASSUME LauncherInv, NEW l \in 1..issued \ invalidated
               PROVE  \E p \in Present :
                         /\ session[p].status = "ready" /\ session[p].lease = l
                         /\ session[p].instance = profile[p].bound
                         /\ ~BoundElsewhere(p, profile[p].bound)
    BY DEF LeaseIsCurrent
  <2>1. PICK p \in Profiles : session[p].status = "ready" /\ session[p].lease = l
    BY DEF LauncherInv, SessionsInv, ValidLeases
  <2>2. profile[p].state = "present" /\ profile[p].bound = session[p].instance /\ profile[p].bound # None
    BY <2>1 DEF LauncherInv, SessionsInv, ReadySession
  <2>3. ~BoundElsewhere(p, profile[p].bound)
    BY <2>2 DEF BoundElsewhere, Present, LauncherInv, SessionsInv, Bindings
  <2> QED  BY <2>1, <2>2, <2>3 DEF Present
<1> QED  BY <1>1, LauncherInvariance, PTL

\* _run_connect publishes its server only if its task is still the current one of
\* the session: a session that was disconnected, stopped, updated or deleted stays so
\* until its client asks again.
THEOREM ReadySessionsAreWanted == Spec => []ReadyIsWanted
<1>1. LauncherInv => ReadyIsWanted
  BY DEF LauncherInv, SessionsInv, ReadySession, ReadyIsWanted
<1> QED  BY <1>1, LauncherInvariance, PTL

\* bind refuses another instance than the one a profile is bound to, and rebind
\* takes only the instance its client has confirmed.
THEOREM IdentitiesArePinned == Spec => IdentityIsPinned
<1> DEFINE Pinned ==
      \A p \in Present :
          profile[p].bound # None /\ profile'[p].state = "present" /\ profile'[p].bound # profile[p].bound
          => attempt[p].rebind = profile'[p].bound
<1>1. LauncherInv /\ [Next]_vars => Pinned
  <2> SUFFICES ASSUME LauncherInv, [Next]_vars, NEW p \in Present, profile[p].bound # None,
                      profile'[p].state = "present", profile'[p].bound # profile[p].bound
               PROVE  attempt[p].rebind = profile'[p].bound
    OBVIOUS
  <2>1. p \in Profiles /\ profile[p].state = "present" /\ profile \in [Profiles -> ProfileRecord]
    BY DEF Present, LauncherInv, LauncherTypeOK
  <2>2. ASSUME NEW q \in Profiles, Client(q) PROVE FALSE
    <3>1. \/ profile' = profile
          \/ q # p /\ \E r : profile' = [profile EXCEPT ![q] = r]
          \/ \E t \in Targets : profile' = [profile EXCEPT ![q].target = t]
          \/ profile' = [profile EXCEPT ![q].state = "deleted", ![q].bound = None]
      <4>1. ASSUME NEW t \in Targets, CreateProfile(q, t)
            PROVE  q # p /\ \E r : profile' = [profile EXCEPT ![q] = r]
        BY <2>1, <4>1 DEF CreateProfile, Created
      <4>2. ASSUME EnsureSshProfile(q) PROVE q # p /\ \E r : profile' = [profile EXCEPT ![q] = r]
        BY <4>2 DEF EnsureSshProfile
      <4> QED  BY <2>2, <4>1, <4>2 DEF Client, UpdateTarget, Connect, Disconnect, Stop, DeleteProfile, Retargeted, Removed
    <3>2. profile'[p].bound = profile[p].bound \/ profile'[p].state = "deleted"
      BY <2>1, <3>1 DEF ProfileRecord
    <3> QED  BY <3>2
  <2>3. ASSUME NEW q \in Profiles, Publish(q) PROVE attempt[p].rebind = profile'[p].bound
    <3> DEFINE i == Met(q)
    <3>1. i \in Instances
      BY <2>3, MetInstance
    <3>2. CASE Verdict(q, i) = "ok"
      <4>1. profile' = [profile EXCEPT ![q].bound = i]
        BY <2>3, <3>2 DEF Publish, Binding
      <4>2. q = p /\ profile'[p].bound = i
        BY <2>1, <4>1 DEF ProfileRecord
      <4> QED  BY <3>1, <3>2, <4>2, VerdictIsSafe
    <3>3. CASE Verdict(q, i) # "ok"
      <4>1. profile' = profile \/ profile' = [profile EXCEPT ![q].state = "deleted", ![q].bound = None]
        BY <2>3, <3>3 DEF Publish, Removed
      <4> QED  BY <2>1, <4>1 DEF ProfileRecord
    <3> QED  BY <3>2, <3>3
  <2>4. profile' # profile
    OBVIOUS
  <2>5. ASSUME NEW q \in Profiles, Operate(q) PROVE FALSE
    BY <2>4, <2>5 DEF Operate, Drained, TunnelClosed, ShutdownAccepted, ShutdownUnanswered, ShutdownRefused,
                      Stopped, StopTimesOut, Restarted
  <2>6. ASSUME NEW q \in Profiles, Attempt(q), ~Publish(q) PROVE FALSE
    BY <2>4, <2>6 DEF Attempt, LocalBegins, SshBegins, TunnelCleared, RemoteVersion, RemoteStart, Fail, RecordError,
                      AttemptCancelled
  <2>7. CASE UNCHANGED vars \/ Start \/ Close \/ Closing \/ World \/ \E r \in Requests : Proxy(r)
    BY <2>4, <2>7 DEF vars, Start, Close, Closing, CloseStops, CloseDisconnects, CloseConnectors, World, ServerUp,
                      ServerStops, ServerChanges, TunnelDies, Proxy, Resolve, Forward, Cut, ResponseEnds
  <2> QED  BY <2>2, <2>3, <2>5, <2>6, <2>7 DEF Next
<1>2. Spec => [][Pinned]_vars
  BY <1>1, LauncherInvariance, PTL DEF Spec
<1> QED  BY <1>2 DEF IdentityIsPinned

\* A shutdown that has come to its end has left nothing behind: close awaits the
\* attempts, the operations, the disconnects and the connectors, in this order.
ClosedIsDown == phase = "closed" => Down

\* The safety half of CloseEnds: wherever close returns, no lease is valid, no
\* attempt or operation runs, no process the launcher has started and no tunnel its
\* connector knows of is left.
THEOREM ClosedLauncherIsDown == Spec => []ClosedIsDown
<1>1. LauncherInv => ClosedIsDown
  <2> SUFFICES ASSUME LauncherInv, phase = "closed" PROVE Down
    BY DEF ClosedIsDown
  <2>1. \A p \in Profiles : attempt[p].at = "none" /\ Free(p) /\ session[p].status # "ready"
    BY DEF LauncherInv, ClosingInv, ShutdownInOrder
  <2>2. (\A t \in Targets : child[t] = "none") /\ \A p \in SshProfiles : tunnel[p] = "none"
    BY DEF LauncherInv, ClosingInv, ShutdownInOrder
  <2>3. 1..issued \subseteq invalidated
    BY <2>1 DEF LauncherInv, SessionsInv, ValidLeases
  <2> QED  BY <2>1, <2>2, <2>3 DEF Down
<1> QED  BY <1>1, LauncherInvariance, PTL

=============================================================================
