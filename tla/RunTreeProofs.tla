----------------------------- MODULE RunTreeProofs -----------------------------
(***************************************************************************)
(* Proofs about RunTree, for any runs, any number of users who stop them   *)
(* and any limit of parallel calls.                                        *)
(*                                                                         *)
(* Commands: a run that is finished has no process, and once the executor  *)
(* closes every active command is one its close takes care of.             *)
(*                                                                         *)
(* Walks: what hung below the root of a walk when it began is excused, or  *)
(* it or its parent is still to be visited.  Only while the walk has just  *)
(* begun, and nothing else can happen, is it the parent of its parent.     *)
(***************************************************************************)
EXTENDS RunTree, FiniteSetTheorems, SequenceTheorems, TLAPS

USE RunTreeAssumption

Killers == Stoppers \cup {"producer", "close"}

TreeTypeOK ==
    /\ status \in [Runs -> {"none", "active", "finished"}]
    /\ asked \subseteq Runs /\ cancelled \subseteq Runs
    /\ parent \in [Runs -> Runs \cup {None}]
    /\ waits \in [Runs -> SUBSET Runs]
    /\ process \in [Commands -> {"none", "alive", "exited"}]
    /\ held \subseteq Commands
    /\ killers \in [Commands -> SUBSET Killers]
    /\ coming \subseteq Stoppers
    /\ walk \in [Stoppers -> Seq(Runs)]
    /\ cpu \in Stoppers \cup {None}
    /\ below \in [Stoppers -> SUBSET Runs]
    /\ closing \in {"open", "closing", "drained", "gave_up"}
    /\ closed \subseteq Commands

-----------------------------------------------------------------------------
(* What the two properties need *)

\* A command has a process only while its run is active, and the executor that
\* closes starts no more.
ProcessesHaveRuns ==
    \A c \in Commands :
        /\ status[c] = "none" => process[c] = "none"
        /\ status[c] = "finished" => process[c] # "alive"

ClosedAreKnown ==
    /\ closing # "open" => \A c \in Commands : Active(c) => c \in closed
    /\ closing = "drained" => \A c \in closed : status[c] = "finished"

\* A walk that runs has somewhere to go.
WalkRuns == cpu # None => walk[cpu] # <<>>

\* A run that the walk need not ask to stop any more
Excused(r) == r \in asked \/ status[r] = "finished" \/ parent[r] = None

OnTheWay(u, r) ==
    \/ Excused(r)
    \/ r \in Range(walk[u])
    \/ parent[r] \in Range(walk[u])
    \/ cpu = u /\ \E q \in Runs : parent[r] = q /\ Active(q) /\ walk[u] = <<parent[q]>>

NobodyMissed == \A u \in Stoppers : \A r \in below[u] : status[r] # "none" /\ OnTheWay(u, r)

TreeInv == TreeTypeOK /\ ProcessesHaveRuns /\ ClosedAreKnown /\ WalkRuns /\ NobodyMissed

-----------------------------------------------------------------------------
(* Sequences and sets *)

\* What the order of a listing contains
LEMMA OrderListsAll ==
  ASSUME NEW S, IsFiniteSet(S), NEW order \in SetToSeqs(S)
  PROVE  order \in Seq(S) /\ Range(order) = S
<1>1. Cardinality(S) \in Nat
  BY FS_CardinalityType
<1>2. order \in Injection(1..Cardinality(S), S)
  BY DEF SetToSeqs, Injection, IsInjective
<1>3. Cardinality(1..Cardinality(S)) = Cardinality(S)
  BY <1>1, FS_Interval
<1>4. order \in Surjection(1..Cardinality(S), S)
  BY <1>2, <1>3, FS_Injection
<1>5. order \in [1..Cardinality(S) -> S]
  BY <1>2 DEF Injection
<1>6. order \in Seq(S)
  BY <1>1, <1>5
<1>7. Range(order) = S
  BY <1>4, <1>5 DEF Range, Surjection
<1> QED  BY <1>6, <1>7

LEMMA HeadAndRest ==
  ASSUME NEW S, NEW w \in Seq(S), w # <<>>
  PROVE  /\ Head(w) \in S /\ Tail(w) \in Seq(S)
         /\ Range(w) = {Head(w)} \cup Range(Tail(w))
<1>1. /\ Head(w) \in S /\ Tail(w) \in Seq(S) /\ Len(w) \in Nat \ {0} /\ Len(Tail(w)) = Len(w) - 1
      /\ Head(w) = w[1] /\ \A i \in 1..Len(Tail(w)) : Tail(w)[i] = w[i + 1]
  BY HeadTailProperties, EmptySeq
<1>2. Range(w) = {w[i] : i \in 1..Len(w)} /\ Range(Tail(w)) = {Tail(w)[i] : i \in 1..Len(Tail(w))}
  BY <1>1, RangeEquality
<1>3. ASSUME NEW x \in Range(w) PROVE x \in {Head(w)} \cup Range(Tail(w))
  <2>1. PICK i \in 1..Len(w) : x = w[i]
    BY <1>2, <1>3
  <2>2. CASE i = 1
    BY <1>1, <2>1, <2>2
  <2>3. CASE i # 1
    <3>1. i - 1 \in 1..Len(Tail(w)) /\ (i - 1) + 1 = i
      BY <1>1, <2>1, <2>3
    <3>2. Tail(w)[i - 1] = x
      BY <1>1, <2>1, <3>1
    <3> QED  BY <1>2, <3>1, <3>2
  <2> QED  BY <2>2, <2>3
<1>4. ASSUME NEW x \in {Head(w)} \cup Range(Tail(w)) PROVE x \in Range(w)
  <2>1. CASE x = Head(w)
    BY <1>1, <1>2, <2>1
  <2>2. CASE x \in Range(Tail(w))
    <3>1. PICK i \in 1..Len(Tail(w)) : x = Tail(w)[i]
      BY <1>2, <2>2
    <3>2. i + 1 \in 1..Len(w) /\ x = w[i + 1]
      BY <1>1, <3>1
    <3> QED  BY <1>2, <3>2
  <2> QED  BY <1>4, <2>1, <2>2
<1> QED  BY <1>1, <1>3, <1>4

LEMMA OneToVisit ==
  ASSUME NEW S, NEW r \in S
  PROVE  <<r>> \in Seq(S) /\ <<r>> # <<>> /\ Range(<<r>>) = {r}
<1>1. <<r>> \in Seq(S) /\ Len(<<r>>) = 1 /\ <<r>>[1] = r
  OBVIOUS
<1>2. Range(<<r>>) = {<<r>>[i] : i \in 1..1}
  BY <1>1, RangeEquality
<1> QED  BY <1>1, <1>2

LEMMA ChildrenAreRuns ==
  ASSUME NEW r
  PROVE  Children(r) \subseteq Runs /\ IsFiniteSet(Children(r))
<1>1. Children(r) \in SUBSET Runs
  BY DEF Children
<1> QED  BY <1>1, FS_Subset

-----------------------------------------------------------------------------
(* What most steps have in common *)

\* A step that is not one of a walk ends runs, makes runs, asks runs to stop or
\* moves them to the background.
LEMMA OthersMissNobody ==
  ASSUME TreeInv, Loop, UNCHANGED <<walk, below>>,
         \A r \in Runs : status[r] # "none" =>
            /\ status'[r] # "none" /\ (status[r] = "finished" => status'[r] = "finished")
            /\ parent'[r] \in {parent[r], None}
            /\ r \in asked => r \in asked' \/ status'[r] = "finished"
  PROVE  NobodyMissed'
<1> SUFFICES ASSUME NEW u \in Stoppers, NEW r \in below[u]
             PROVE  status'[r] # "none" /\ OnTheWay(u, r)'
  BY DEF NobodyMissed
<1>1. r \in Runs /\ status[r] # "none" /\ OnTheWay(u, r)
  BY DEF TreeInv, TreeTypeOK, NobodyMissed
<1>2. Excused(r) \/ r \in Range(walk[u]) \/ parent[r] \in Range(walk[u])
  BY <1>1 DEF OnTheWay, Loop
<1> QED  BY <1>1, <1>2 DEF OnTheWay, Excused

\* The step of a run that is not a command
LEMMA RunsKeep ==
  ASSUME TreeInv, NEW r \in Runs,
         \/ StartChat(r) \/ Ends(r) \/ Cancelled(r) \/ TimesOut(r) \/ Interrupt(r)
         \/ \E q \in Runs : Spawn(r, q) \/ HostCall(r, q) \/ CallReturns(r, q) \/ Shell(r, q) \/ Background(r, q)
  PROVE  TreeInv'
<1>1. Loop /\ UNCHANGED <<processes, stops, close>>
  BY DEF StartChat, Ends, Cancelled, TimesOut, GivesUp, Interrupt, Spawn, HostCall, CallReturns, Shell, Background
<1>2. TreeTypeOK
  BY DEF TreeInv
<1>3. /\ status' \in [Runs -> {"none", "active", "finished"}] /\ parent' \in [Runs -> Runs \cup {None}]
      /\ waits' \in [Runs -> SUBSET Runs]
  <2>1. status' \in [Runs -> {"none", "active", "finished"}]
    BY <1>2 DEF TreeTypeOK, StartChat, Ends, Cancelled, TimesOut, GivesUp, Interrupt, Spawn, HostCall, CallReturns,
                Shell, Background, Created, Finishes
  <2>2. parent' \in [Runs -> Runs \cup {None}]
    BY <1>2 DEF TreeTypeOK, StartChat, Ends, Cancelled, TimesOut, GivesUp, Interrupt, Spawn, HostCall, CallReturns,
                Shell, Background, Created
  <2>3. waits' \in [Runs -> SUBSET Runs]
    BY <1>2 DEF TreeTypeOK, StartChat, Ends, Cancelled, TimesOut, GivesUp, Interrupt, Spawn, HostCall, CallReturns,
                Shell, Background, Created
  <2> QED  BY <2>1, <2>2, <2>3
<1>4. asked' \subseteq Runs /\ cancelled' \subseteq Runs
  <2>1. CASE Cancelled(r) \/ TimesOut(r)
    <3>1. StoppedWith(r) \subseteq Runs
      BY <1>2 DEF TreeTypeOK, StoppedWith
    <3> QED  BY <1>2, <2>1, <3>1 DEF TreeTypeOK, Cancelled, TimesOut, GivesUp
  <2>2. CASE Interrupt(r)
    BY <1>2, <2>2, ChildrenAreRuns DEF TreeTypeOK, Interrupt, StopProducer, Asks
  <2>3. CASE Ends(r)
    BY <1>2, <2>3 DEF TreeTypeOK, Ends, Finishes
  <2>4. CASE UNCHANGED <<asked, cancelled>>
    BY <1>2, <2>4 DEF TreeTypeOK
  <2> QED  BY <2>1, <2>2, <2>3, <2>4 DEF StartChat, Spawn, HostCall, CallReturns, Shell, Background
<1>5. \A q \in Runs : /\ status[q] # "none" => status'[q] # "none"
                      /\ status[q] = "finished" => status'[q] = "finished"
                      /\ q \in Commands /\ status'[q] = "finished" => status[q] = "finished"
                      /\ closing # "open" /\ status[q] = "none" => status'[q] = "none"
  BY <1>2 DEF TreeTypeOK, StartChat, Ends, Cancelled, TimesOut, GivesUp, Interrupt, Spawn, HostCall, CallReturns,
              Shell, Background, Created, Finishes, Active, Admitted
<1>6. \A q \in Runs : status[q] # "none" =>
         /\ parent'[q] \in {parent[q], None}
         /\ q \in asked => q \in asked' \/ status'[q] = "finished"
  BY <1>2 DEF TreeTypeOK, StartChat, Ends, Cancelled, TimesOut, GivesUp, Interrupt, Spawn, HostCall, CallReturns,
              Shell, Background, Created, Finishes, StopProducer, Asks
<1>7. TreeTypeOK'
  BY <1>1, <1>2, <1>3, <1>4 DEF TreeTypeOK, processes, stops, close
<1>8. ProcessesHaveRuns'
  BY <1>1, <1>2, <1>5 DEF TreeInv, ProcessesHaveRuns, processes, TreeTypeOK, Runs
<1>9. ClosedAreKnown'
  <2>1. closing' = closing /\ closed' = closed /\ closed \subseteq Commands
    BY <1>1, <1>2 DEF close, TreeTypeOK
  <2>2. ASSUME closing # "open", NEW c \in Commands, status'[c] = "active" PROVE c \in closed
    <3>1. status[c] = "active"
      BY <1>2, <1>5, <2>2 DEF TreeTypeOK, Runs
    <3> QED  BY <2>2, <3>1 DEF TreeInv, ClosedAreKnown, Active
  <2> QED  BY <1>5, <2>1, <2>2 DEF TreeInv, ClosedAreKnown, Active, Runs
<1>10. WalkRuns' /\ NobodyMissed'
  BY <1>1, <1>5, <1>6, OthersMissNobody DEF TreeInv, WalkRuns, stops
<1> QED  BY <1>7, <1>8, <1>9, <1>10 DEF TreeInv

LEMMA CommandsKeep ==
  ASSUME TreeInv, NEW c \in Commands, CommandStep(c)
  PROVE  TreeInv'
<1>1. Loop /\ UNCHANGED <<parent, waits, stops, close>>
  BY DEF CommandStep, Spawned, SpawnFails, Exits, LetsGo, CommandEnds, CloseKills, SigKill, KillReturns, tree
<1>2. TreeTypeOK
  BY DEF TreeInv
<1>3. /\ status' \in [Runs -> {"none", "active", "finished"}] /\ asked' \subseteq Runs /\ cancelled' \subseteq Runs
      /\ \A r \in Runs : /\ status'[r] = status[r] \/ (r = c /\ status'[r] = "finished" /\ status[r] = "active")
                         /\ r \in asked => r \in asked' \/ status'[r] = "finished"
  BY <1>2 DEF TreeTypeOK, CommandStep, Spawned, SpawnFails, Exits, LetsGo, CommandEnds, CloseKills, SigKill,
              KillReturns, tree, Finishes, Active, Runs
<1>4. process' \in [Commands -> {"none", "alive", "exited"}] /\ held' \subseteq Commands
  BY <1>2 DEF TreeTypeOK, CommandStep, Spawned, SpawnFails, Exits, LetsGo, CommandEnds, CloseKills, SigKill,
              KillReturns, processes, Dies
<1>5. killers' \in [Commands -> SUBSET Killers]
  BY <1>2 DEF TreeTypeOK, CommandStep, Spawned, SpawnFails, Exits, LetsGo, CommandEnds, CloseKills, SigKill,
              KillReturns, processes, Killers
<1>6. \A d \in Commands : \/ process'[d] = process[d] /\ (d = c /\ status'[d] # status[d] => process[d] # "alive")
                          \/ process'[d] = "exited" /\ status'[d] = status[d] /\ process[d] = "alive"
                          \/ process'[d] = "alive" /\ status'[d] = status[d] /\ status[d] = "active"
  BY <1>2 DEF TreeTypeOK, CommandStep, Spawned, SpawnFails, Exits, LetsGo, CommandEnds, CloseKills, SigKill,
              KillReturns, processes, tree, Dies, Finishes, Active
<1>7. TreeTypeOK'
  BY <1>1, <1>2, <1>3, <1>4, <1>5 DEF TreeTypeOK, stops, close
<1>8. ProcessesHaveRuns'
  BY <1>2, <1>3, <1>6 DEF TreeInv, ProcessesHaveRuns, Runs
<1>9. ClosedAreKnown'
  BY <1>1, <1>2, <1>3 DEF TreeInv, ClosedAreKnown, Active, close, Runs, TreeTypeOK
<1>10. WalkRuns' /\ NobodyMissed'
  BY <1>1, <1>3, OthersMissNobody DEF TreeInv, WalkRuns, stops
<1> QED  BY <1>7, <1>8, <1>9, <1>10 DEF TreeInv

-----------------------------------------------------------------------------
(* The steps of a walk *)

\* Where the step of a walk leaves those that hung below its root
LEMMA VisitMissesNobody ==
  ASSUME TreeInv, NEW u \in Stoppers, Visit(u)
  PROVE  /\ walk' \in [Stoppers -> Seq(Runs)]
         /\ asked \subseteq asked' /\ asked' \subseteq Runs /\ cancelled' \subseteq Runs
         /\ \A v \in Stoppers \ {u} : walk'[v] = walk[v] /\ below'[v] = below[v]
         /\ below'[u] = IF walk'[u] = <<>> THEN {} ELSE below[u]
         /\ cpu' \in {None, u} /\ (cpu' = u => walk'[u] # <<>>)
         /\ \A x \in below[u] : Excused(x)' \/ x \in Range(walk'[u]) \/ parent[x] \in Range(walk'[u])
<1> DEFINE r == Head(walk[u])
<1>1. TreeTypeOK /\ cpu = u /\ walk[u] # <<>> /\ walk[u] \in Seq(Runs)
  BY DEF TreeInv, WalkRuns, Visit, TreeTypeOK
<1>2. r \in Runs /\ Tail(walk[u]) \in Seq(Runs) /\ Range(walk[u]) = {r} \cup Range(Tail(walk[u]))
  BY <1>1, HeadAndRest
<1>3. PICK order \in SetToSeqs(Children(r)) :
         /\ walk' = [walk EXCEPT ![u] = order \o Tail(@)]
         /\ cpu' = IF (r \in Commands /\ process[r] = "alive") \/ walk'[u] = <<>> THEN None ELSE u
         /\ below' = IF walk'[u] = <<>> THEN [below EXCEPT ![u] = {}] ELSE below
  BY DEF Visit, Listed
<1>4. order \in Seq(Runs) /\ Range(order) = Children(r)
  <2>1. order \in Seq(Children(r)) /\ Range(order) = Children(r)
    BY ChildrenAreRuns, OrderListsAll
  <2> QED  BY <2>1, ChildrenAreRuns, SeqMonotonic
<1>5. walk'[u] = order \o Tail(walk[u]) /\ walk' \in [Stoppers -> Seq(Runs)]
      /\ \A v \in Stoppers \ {u} : walk'[v] = walk[v]
  BY <1>1, <1>2, <1>3, <1>4, ConcatProperties DEF TreeTypeOK
<1>6. Range(walk'[u]) = Children(r) \cup Range(Tail(walk[u]))
  <2>1. Range(order \o Tail(walk[u])) = Range(order) \cup Range(Tail(walk[u]))
    BY <1>2, <1>4, RangeConcatenation, ZenonT(30)
  <2> QED  BY <1>4, <1>5, <2>1
<1>7. asked \subseteq asked' /\ asked' \subseteq Runs /\ cancelled' \subseteq Runs /\ (Active(r) => r \in asked')
  BY <1>1, <1>2, ChildrenAreRuns DEF Visit, TreeTypeOK, StopProducer, Asks
<1>8. /\ below'[u] = IF walk'[u] = <<>> THEN {} ELSE below[u]
      /\ \A v \in Stoppers \ {u} : below'[v] = below[v]
  BY <1>1, <1>3 DEF TreeTypeOK
<1>9. ASSUME NEW x \in below[u]
      PROVE  Excused(x)' \/ x \in Range(walk'[u]) \/ parent[x] \in Range(walk'[u])
  <2>1. x \in Runs /\ status[x] \in {"active", "finished"} /\ OnTheWay(u, x)
    BY <1>1, <1>9 DEF TreeInv, TreeTypeOK, NobodyMissed
  <2>2. UNCHANGED <<status, parent>>
    BY DEF Visit
  <2>3. CASE Excused(x)
    BY <1>7, <2>2, <2>3 DEF Excused
  <2>4. CASE x \in Range(walk[u])
    BY <1>2, <1>6, <1>7, <2>1, <2>2, <2>4 DEF Excused, Active
  <2>5. CASE parent[x] \in Range(walk[u])
    BY <1>2, <1>6, <2>1, <2>2, <2>5 DEF Excused, Active, Children
  <2>6. ASSUME NEW q \in Runs, parent[x] = q, Active(q), walk[u] = <<parent[q]>>
        PROVE  parent[x] \in Range(walk'[u])
    <3>1. r = parent[q]
      BY <2>6
    <3> QED  BY <1>6, <2>6, <3>1 DEF Children
  <2> QED  BY <2>1, <2>3, <2>4, <2>5, <2>6 DEF OnTheWay
<1>10. cpu' \in {None, u} /\ (cpu' = u => walk'[u] # <<>>)
  BY <1>3
<1> QED  BY <1>5, <1>7, <1>8, <1>9, <1>10

LEMMA VisitKeeps ==
  ASSUME TreeInv, NEW u \in Stoppers, Visit(u)
  PROVE  TreeInv'
<1>1. TreeTypeOK /\ cpu = u /\ UNCHANGED <<status, parent, waits, process, held, coming, close>>
  BY DEF TreeInv, Visit
<1>2. killers' \in [Commands -> SUBSET Killers]
  BY <1>1 DEF Visit, TreeTypeOK, Killers
<1>3. below' \in [Stoppers -> SUBSET Runs]
  BY <1>1 DEF Visit, TreeTypeOK
<1>4. TreeTypeOK'
  BY <1>1, <1>2, <1>3, VisitMissesNobody DEF TreeTypeOK, close
<1>5. ProcessesHaveRuns' /\ ClosedAreKnown'
  BY <1>1 DEF TreeInv, ProcessesHaveRuns, ClosedAreKnown, close, Active
<1>6. WalkRuns'
  BY VisitMissesNobody DEF WalkRuns
<1>7. NobodyMissed'
  <2> SUFFICES ASSUME NEW v \in Stoppers, NEW x \in below'[v]
               PROVE  status'[x] # "none" /\ OnTheWay(v, x)'
    BY DEF NobodyMissed
  <2>1. CASE v = u
    <3>1. x \in below[u]
      BY <2>1, VisitMissesNobody
    <3> QED  BY <1>1, <2>1, <3>1, VisitMissesNobody DEF TreeInv, NobodyMissed, OnTheWay
  <2>2. CASE v # u
    <3>1. x \in below[v] /\ walk'[v] = walk[v] /\ asked \subseteq asked'
      BY <2>2, VisitMissesNobody
    <3>2. status[x] # "none" /\ (Excused(x) \/ x \in Range(walk[v]) \/ parent[x] \in Range(walk[v]))
      BY <1>1, <2>2, <3>1 DEF TreeInv, NobodyMissed, OnTheWay
    <3> QED  BY <1>1, <3>1, <3>2 DEF OnTheWay, Excused
  <2> QED  BY <2>1, <2>2
<1> QED  BY <1>4, <1>5, <1>6, <1>7 DEF TreeInv

LEMMA ResumeKeeps ==
  ASSUME TreeInv, NEW u \in Stoppers, Resume(u)
  PROVE  TreeInv'
<1>1. TreeTypeOK /\ Loop /\ walk[u] # <<>> /\ cpu' = u /\ UNCHANGED <<tree, processes, coming, walk, below, close>>
  BY DEF TreeInv, Resume
<1>2. TreeTypeOK'
  BY <1>1 DEF TreeTypeOK, tree, processes, close
<1>3. ProcessesHaveRuns' /\ ClosedAreKnown' /\ WalkRuns'
  BY <1>1 DEF TreeInv, ProcessesHaveRuns, ClosedAreKnown, WalkRuns, tree, processes, close, Active
<1>4. NobodyMissed'
  <2> SUFFICES ASSUME NEW v \in Stoppers, NEW x \in below[v]
               PROVE  status'[x] # "none" /\ OnTheWay(v, x)'
    BY <1>1 DEF NobodyMissed
  <2>1. status[x] # "none" /\ (Excused(x) \/ x \in Range(walk[v]) \/ parent[x] \in Range(walk[v]))
    BY <1>1 DEF TreeInv, NobodyMissed, OnTheWay, Loop
  <2> QED  BY <1>1, <2>1 DEF OnTheWay, Excused, tree
<1> QED  BY <1>2, <1>3, <1>4 DEF TreeInv

LEMMA StopKeeps ==
  ASSUME TreeInv, NEW u \in Stoppers, NEW r \in Runs, Stop(u, r)
  PROVE  TreeInv'
<1>1. TreeTypeOK /\ Loop /\ Active(r) /\ cpu' = u /\ UNCHANGED <<tree, processes, close>>
      /\ walk' = [walk EXCEPT ![u] = <<r>>] /\ below' = [below EXCEPT ![u] = {r} \cup Under(r)]
      /\ coming' = coming \ {u}
  BY DEF TreeInv, Stop
<1>2. <<r>> \in Seq(Runs) /\ <<r>> # <<>> /\ Range(<<r>>) = {r}
  BY OneToVisit
<1>3. {r} \cup Under(r) \subseteq Runs
  BY ChildrenAreRuns DEF Under
<1>4. walk' \in [Stoppers -> Seq(Runs)] /\ below' \in [Stoppers -> SUBSET Runs]
  BY <1>1, <1>2, <1>3 DEF TreeTypeOK
<1>5. TreeTypeOK'
  BY <1>1, <1>4 DEF TreeTypeOK, tree, processes, close
<1>6. ProcessesHaveRuns' /\ ClosedAreKnown' /\ WalkRuns'
  BY <1>1, <1>2
  DEF TreeInv, TreeTypeOK, ProcessesHaveRuns, ClosedAreKnown, WalkRuns, tree, processes, close, Active
<1>7. ASSUME NEW v \in Stoppers, NEW x \in below'[v]
      PROVE  status'[x] # "none" /\ OnTheWay(v, x)'
  <2>1. CASE v = u
    <3>1. x \in {r} \cup Under(r) /\ walk'[u] = <<r>> /\ Range(walk'[u]) = {r}
      BY <1>1, <1>2, <1>7, <2>1 DEF TreeTypeOK
    <3>2. CASE x = r
      BY <1>1, <2>1, <3>1, <3>2 DEF OnTheWay, tree, Active
    <3>3. CASE x \in Children(r)
      BY <1>1, <2>1, <3>1, <3>3 DEF OnTheWay, tree, Children, Active
    <3>4. ASSUME NEW q \in Children(r), x \in Children(q)
          PROVE  status'[x] # "none" /\ OnTheWay(u, x)'
      BY <1>1, <3>1, <3>4 DEF OnTheWay, tree, Children, Active
    <3> QED  BY <2>1, <3>1, <3>2, <3>3, <3>4 DEF Under
  <2>2. CASE v # u
    <3>1. x \in below[v] /\ walk'[v] = walk[v]
      BY <1>1, <1>7, <2>2 DEF TreeTypeOK
    <3>2. status[x] # "none" /\ (Excused(x) \/ x \in Range(walk[v]) \/ parent[x] \in Range(walk[v]))
      BY <1>1, <3>1 DEF TreeInv, NobodyMissed, OnTheWay, Loop
    <3> QED  BY <1>1, <3>1, <3>2 DEF OnTheWay, Excused, tree
  <2> QED  BY <2>1, <2>2
<1>8. NobodyMissed'
  BY <1>7 DEF NobodyMissed
<1> QED  BY <1>5, <1>6, <1>8 DEF TreeInv

-----------------------------------------------------------------------------
(* Shutdown *)

LEMMA CloseKeeps ==
  ASSUME TreeInv, Close
  PROVE  TreeInv'
<1>1. TreeTypeOK /\ Loop /\ closing = "open" /\ UNCHANGED <<status, parent, waits, process, held, stops>>
      /\ closing' = "closing" /\ closed' = {c \in Commands : Active(c)}
      /\ asked \subseteq asked'
  BY DEF TreeInv, Close, Asks
<1>2. asked' \subseteq Runs /\ cancelled' \subseteq Runs
  BY <1>1 DEF Close, Asks, TreeTypeOK, Runs
<1>3. killers' \in [Commands -> SUBSET Killers]
  BY <1>1 DEF Close, TreeTypeOK, Killers
<1>4. TreeTypeOK'
  BY <1>1, <1>2, <1>3 DEF TreeTypeOK, stops
<1>5. ProcessesHaveRuns' /\ ClosedAreKnown' /\ WalkRuns'
  BY <1>1 DEF TreeInv, ProcessesHaveRuns, ClosedAreKnown, WalkRuns, stops, Active
<1>6. NobodyMissed'
  BY <1>1, OthersMissNobody DEF stops
<1> QED  BY <1>4, <1>5, <1>6 DEF TreeInv

LEMMA CloseEndsKeeps ==
  ASSUME TreeInv, CloseEnds
  PROVE  TreeInv'
<1>1. TreeTypeOK /\ Loop /\ closing = "closing" /\ UNCHANGED <<tree, processes, stops, closed>>
      /\ closing' \in {"drained", "gave_up"}
      /\ (closing' = "drained" => \A c \in closed : status[c] = "finished")
  BY DEF TreeInv, CloseEnds
<1>2. TreeTypeOK'
  BY <1>1 DEF TreeTypeOK, tree, processes, stops
<1>3. ProcessesHaveRuns' /\ ClosedAreKnown' /\ WalkRuns'
  BY <1>1 DEF TreeInv, ProcessesHaveRuns, ClosedAreKnown, WalkRuns, tree, processes, stops, Active
<1>4. NobodyMissed'
  BY <1>1, OthersMissNobody DEF stops, tree
<1> QED  BY <1>2, <1>3, <1>4 DEF TreeInv

-----------------------------------------------------------------------------
(* The theorems *)

LEMMA TreeInvStarts == Init => TreeInv
<1> SUFFICES ASSUME Init PROVE TreeInv
  OBVIOUS
<1>1. TreeTypeOK
  BY EmptySeq DEF Init, TreeTypeOK
<1>2. ProcessesHaveRuns /\ ClosedAreKnown /\ WalkRuns /\ NobodyMissed
  BY DEF Init, ProcessesHaveRuns, ClosedAreKnown, WalkRuns, NobodyMissed, Runs
<1> QED  BY <1>1, <1>2 DEF TreeInv

LEMMA TreeInvStep == TreeInv /\ [Next]_vars => TreeInv'
<1> SUFFICES ASSUME TreeInv, [Next]_vars PROVE TreeInv'
  OBVIOUS
<1>1. ASSUME NEW r \in Runs, RunStep(r) PROVE TreeInv'
  BY <1>1, RunsKeep DEF RunStep
<1>2. ASSUME NEW c \in Commands, CommandStep(c) PROVE TreeInv'
  BY <1>2, CommandsKeep
<1>3. ASSUME NEW u \in Stoppers, StopStep(u) PROVE TreeInv'
  BY <1>3, VisitKeeps, ResumeKeeps, StopKeeps DEF StopStep
<1>4. CASE UNCHANGED vars
  BY <1>4 DEF TreeInv, TreeTypeOK, ProcessesHaveRuns, ClosedAreKnown, WalkRuns, NobodyMissed, OnTheWay, Excused, Active,
              vars, tree, processes, stops, close
<1> QED  BY <1>1, <1>2, <1>3, <1>4, CloseKeeps, CloseEndsKeeps DEF Next

LEMMA TreeInvariant == Spec => []TreeInv
  BY TreeInvStarts, TreeInvStep, PTL DEF Spec

\* A command executor that reports to be drained has left no process and no
\* active command, however starts, kills and its close interleave: none starts
\* once it closes, and those that it found are waited for (close and
\* _run_process of the command executor).
THEOREM DrainedMeansEmpty == Spec => []DrainedIsEmpty
<1>1. TreeInv => DrainedIsEmpty
  BY DEF TreeInv, TreeTypeOK, ProcessesHaveRuns, ClosedAreKnown, DrainedIsEmpty, Active, Runs
<1> QED  BY <1>1, TreeInvariant, PTL

\* A stop takes the tree with it, whatever the order its children are listed in
\* and whatever happens while it waits for a process to die: whoever hung below
\* its root at the beginning was asked, is finished or is on its own
\* (stop_run_tree).
THEOREM WholeTreeIsAsked == Spec => WholeTreeAsked
<1> DEFINE Left(u) == walk[u] # <<>> /\ walk'[u] = <<>> =>
                         \A r \in below[u] : r \in asked' \/ status'[r] = "finished" \/ parent'[r] = None
<1>1. ASSUME TreeInv, [Next]_vars, NEW u \in Stoppers PROVE Left(u)
  <2>1. ASSUME NEW v \in Stoppers, Visit(v) PROVE Left(u)
    <3>1. CASE v = u
      <4> SUFFICES ASSUME walk'[u] = <<>>, NEW r \in below[u] PROVE Excused(r)'
        BY DEF Excused
      <4>1. Range(<<>>) = {}
        BY DEF Range
      <4> QED  BY <1>1, <2>1, <3>1, <4>1, VisitMissesNobody
    <3>2. CASE v # u
      BY <1>1, <2>1, <3>2, VisitMissesNobody
    <3> QED  BY <3>1, <3>2
  <2>2. ASSUME NEW v \in Stoppers, NEW r \in Runs, Stop(v, r) PROVE Left(u)
    <3>1. walk' = [walk EXCEPT ![v] = <<r>>] /\ <<r>> # <<>> /\ walk \in [Stoppers -> Seq(Runs)]
      BY <1>1, <2>2, OneToVisit DEF Stop, TreeInv, TreeTypeOK
    <3> QED  BY <3>1
  <2>3. ASSUME walk' = walk PROVE Left(u)
    BY <2>3
  <2>4. ASSUME NEW r \in Runs, RunStep(r) PROVE walk' = walk
    BY <2>4 DEF RunStep, StartChat, Ends, Cancelled, TimesOut, GivesUp, Interrupt, Spawn, HostCall, CallReturns, Shell,
                Background, stops
  <2>5. ASSUME NEW c \in Commands, CommandStep(c) PROVE walk' = walk
    BY <2>5 DEF CommandStep, Spawned, SpawnFails, Exits, LetsGo, CommandEnds, CloseKills, SigKill, KillReturns, stops
  <2>6. ASSUME NEW v \in Stoppers, Resume(v) \/ Close \/ CloseEnds \/ UNCHANGED vars PROVE walk' = walk
    BY <2>6 DEF Resume, Close, CloseEnds, vars, stops
  <2> QED  BY <1>1, <2>1, <2>2, <2>3, <2>4, <2>5, <2>6 DEF Next, StopStep
<1>2. TreeInv /\ [Next]_vars => [\A u \in Stoppers : Left(u)]_vars
  BY <1>1
<1> QED  BY <1>2, TreeInvariant, PTL DEF Spec, WholeTreeAsked

=============================================================================
