-------------------------- MODULE RunOwnershipProofs --------------------------
(***************************************************************************)
(* Proofs about the three modules that MCRunOwnership composes: SubagentLoop, *)
(* ServerLife and RunOwnership, for any values of their constants.         *)
(*                                                                         *)
(* SubagentLoop: in a round of tools the events that were emitted are, in  *)
(* this order, those the log has been told, the one the getter holds, and  *)
(* those in the queue; the loop that leaves the round has emptied the last *)
(* two.                                                                    *)
(*                                                                         *)
(* ServerLife: whoever may do something for a run has the lock of the home, *)
(* and a closed admission means that there is nothing in progress which could *)
(* start a run.                                                            *)
(*                                                                         *)
(* RunOwnership: a key has one owner at a time, who has not launched anything *)
(* yet; and a run that is active is held by that owner, by a task or by one *)
(* of the lists that the shutdown works off.  Where a producer may continue *)
(* its run in another one, this holds for behaviours without I/O errors.   *)
(* What a request is answered rests on less: the run of a key that is not  *)
(* final has a producer, an owner, or an entry of the coordinator's list.  *)
(***************************************************************************)
EXTENDS RunOwnership, ServerLife, SubagentLoop, SequenceTheorems, TLAPS

-----------------------------------------------------------------------------
(* SubagentLoop *)

Events == {"request", "result"} \X Asking

QueueTypeOK ==
    /\ where \in {"begun", "model", "tools", "unwinding", "over"}
    /\ callAt \in [Asking -> {"none", "waiting", "done"}]
    /\ told \in Seq(Events) /\ taken \in Seq(Events)
    /\ events \in Seq(Events) /\ emitted \in Seq(Events)

NothingLost ==
    /\ where = "tools" => emitted = (told \o taken) \o events
    /\ where = "unwinding" /\ unwinding = "next" => told = emitted

QueueInv == QueueTypeOK /\ NothingLost

-----------------------------------------------------------------------------
(* Sequences *)

LEMMA HeadFirst ==
  ASSUME NEW S, NEW s \in Seq(S), NEW t \in Seq(S), t # <<>>
  PROVE  s \o t = (s \o <<Head(t)>>) \o Tail(t)
  OBVIOUS

LEMMA EmptyLast ==
  ASSUME NEW S, NEW s \in Seq(S)
  PROVE  s \o <<>> = s
  OBVIOUS

-----------------------------------------------------------------------------
(* The steps of a round *)

\* A round begins with nothing emitted; a run that is over has no round.
LEMMA OutsideRound ==
  ASSUME QueueInv,
         BeginAgent \/ Thrown \/ HearsStop \/ AnswerOver \/ CallsMade \/ TooManyRounds
           \/ ThrownInTools \/ Swallowed \/ Unwound
  PROVE  QueueInv'
<1>1. CASE CallsMade
  <2>1. told' = <<>> /\ taken' = <<>> /\ events' = <<>> /\ emitted' = <<>> /\ where' = "tools"
    BY <1>1 DEF CallsMade
  <2>2. <<>> \in Seq(Events) /\ (<<>> \o <<>>) \o <<>> = <<>>
    BY EmptyLast
  <2>3. callAt' \in [Asking -> {"none", "waiting", "done"}]
    BY <1>1 DEF CallsMade
  <2> QED  BY <2>1, <2>2, <2>3 DEF QueueInv, QueueTypeOK, NothingLost
<1>2. CASE BeginAgent \/ Thrown \/ HearsStop \/ AnswerOver \/ TooManyRounds
  BY <1>2 DEF QueueInv, QueueTypeOK, NothingLost, BeginAgent, Thrown, HearsStop, AnswerOver,
              TooManyRounds, Finished, NextTurn, round, loop
<1>3. CASE ThrownInTools
  BY <1>3 DEF QueueInv, QueueTypeOK, NothingLost, ThrownInTools, ThrownStatus, round
<1>4. CASE Swallowed
  BY <1>4 DEF QueueInv, QueueTypeOK, NothingLost, Swallowed, round, loop
<1>5. CASE Unwound
  BY <1>5 DEF QueueInv, QueueTypeOK, NothingLost, Unwound, Finished, NextTurn, round
<1> QED  BY <1>1, <1>2, <1>3, <1>4, <1>5

\* What a tool emits comes last in the queue.
LEMMA EmitKeeps ==
  ASSUME QueueInv, NEW c \in Asking, CallAsks(c) \/ CallDecided(c)
  PROVE  QueueInv'
<1>1. where = "tools" /\ where' = where /\ told' = told /\ taken' = taken
  BY DEF CallAsks, CallDecided
<1>2. PICK e \in Events : events' = Append(events, e) /\ emitted' = Append(emitted, e)
  BY DEF CallAsks, CallDecided, Emits, Events
<1>3. callAt' \in [Asking -> {"none", "waiting", "done"}]
  BY DEF QueueInv, QueueTypeOK, CallAsks, CallDecided
<1>4. events' \in Seq(Events) /\ emitted' \in Seq(Events)
  BY <1>2 DEF QueueInv, QueueTypeOK
<1>5. told \o taken \in Seq(Events)
  BY DEF QueueInv, QueueTypeOK
<1>6. emitted = (told \o taken) \o events
  BY <1>1 DEF QueueInv, NothingLost
<1>7. emitted' = (told \o taken) \o events'
  <2>1. events \in Seq(Events)
    BY DEF QueueInv, QueueTypeOK
  <2>2. Append((told \o taken) \o events, e) = (told \o taken) \o Append(events, e)
    <3>1. e \in Events
      BY <1>2
    <3>2. \A s \in Seq(Events), t \in Seq(Events) : Append(s \o t, e) = s \o Append(t, e)
      BY <3>1, SMT
    <3> QED  BY <1>5, <2>1, <3>2, Zenon
  <2> QED  BY <1>2, <1>6, <2>2
<1> QED  BY <1>1, <1>3, <1>4, <1>7 DEF QueueInv, QueueTypeOK, NothingLost

\* The getter takes the first of the queue, and has nothing else.
LEMMA TakeKeeps ==
  ASSUME QueueInv, Takes
  PROVE  QueueInv'
<1>1. /\ where = "tools" /\ where' = where /\ taken = <<>> /\ events # <<>>
      /\ taken' = <<Head(events)>> /\ events' = Tail(events)
      /\ told' = told /\ emitted' = emitted /\ callAt' = callAt
  BY DEF Takes, loop
<1>2. Head(events) \in Events /\ Tail(events) \in Seq(Events)
  BY <1>1 DEF QueueInv, QueueTypeOK
<1>3. told \o taken = told
  BY <1>1, EmptyLast DEF QueueInv, QueueTypeOK
<1>4. emitted = told \o events
  BY <1>1, <1>3 DEF QueueInv, NothingLost
<1>5. emitted' = (told' \o taken') \o events'
  BY <1>1, <1>4, HeadFirst DEF QueueInv, QueueTypeOK
<1>6. taken' \in Seq(Events)
  BY <1>1, <1>2
<1> QED  BY <1>1, <1>2, <1>5, <1>6 DEF QueueInv, QueueTypeOK, NothingLost

\* The loop writes what the getter holds, and once the tools are through all that is left.
LEMMA WakeKeeps ==
  ASSUME QueueInv, Wakes
  PROVE  QueueInv'
<1>1. where = "tools" /\ callAt' = callAt /\ emitted' = emitted
  BY DEF Wakes
<1>2. emitted = (told \o taken) \o events
  BY <1>1 DEF QueueInv, NothingLost
<1>3. told \o taken \in Seq(Events)
  BY DEF QueueInv, QueueTypeOK
<1>4. CASE StopSeenHere
  BY <1>4 DEF Wakes, QueueInv, QueueTypeOK, NothingLost
<1>5. CASE ~StopSeenHere /\ ToolsOver
  <2>1. /\ where' = "unwinding" /\ told' = (told \o taken) \o events
        /\ taken' = <<>> /\ events' = <<>>
    BY <1>5 DEF Wakes, Logged
  <2>2. told' = emitted'
    BY <1>1, <1>2, <2>1
  <2>3. told' \in Seq(Events) /\ emitted' \in Seq(Events)
    BY <1>1, <2>2 DEF QueueInv, QueueTypeOK
  <2> QED  BY <1>1, <2>1, <2>2, <2>3 DEF QueueInv, QueueTypeOK, NothingLost
<1>6. CASE ~StopSeenHere /\ ~ToolsOver
  <2>1. /\ where' = "tools" /\ told' = told \o taken /\ taken' = <<>> /\ events' = events
    BY <1>1, <1>6 DEF Wakes, Logged
  <2>2. (told' \o taken') = told \o taken
    BY <1>3, <2>1, EmptyLast
  <2> QED  BY <1>1, <1>2, <1>3, <2>1, <2>2 DEF QueueInv, QueueTypeOK, NothingLost
<1> QED  BY <1>4, <1>5, <1>6

-----------------------------------------------------------------------------
\* An interleaving of the getter, the tools and the loop loses no event.
LEMMA QueueInvariance == AgentSpec => []QueueInv
<1>1. AgentInit => QueueInv
  BY DEF AgentInit, QueueInv, QueueTypeOK, NothingLost
<1>2. QueueInv /\ [AgentNext]_agentVars => QueueInv'
  <2> SUFFICES ASSUME QueueInv, [AgentNext]_agentVars PROVE QueueInv'
    OBVIOUS
  <2>1. CASE Produce
    BY <2>1, OutsideRound, WakeKeeps DEF Produce
  <2>2. CASE Takes
    BY <2>2, TakeKeeps
  <2>3. CASE ToolsRaise
    <3>1. where' = "unwinding" /\ unwinding' = "failed" /\ callAt' = callAt
      BY <2>3 DEF ToolsRaise
    <3>2. /\ told' = (told \o taken) \o events /\ taken' = <<>> /\ events' = <<>>
          /\ emitted' = emitted
      BY <2>3 DEF ToolsRaise
    <3> QED  BY <3>1, <3>2 DEF QueueInv, QueueTypeOK, NothingLost
  <2>4. ASSUME NEW c \in Asking, CallAsks(c) \/ CallDecided(c) PROVE QueueInv'
    BY <2>4, EmitKeeps
  <2>5. ASSUME NEW c \in Asking, CallRuns(c) PROVE QueueInv'
    BY <2>5 DEF CallRuns, QueueInv, QueueTypeOK, NothingLost, loop
  <2>6. CASE RequestAgentStop \/ StopAgent \/ TimeUp
    BY <2>6 DEF RequestAgentStop, StopAgent, TimeUp, QueueInv, QueueTypeOK, NothingLost,
                loop, round
  <2>7. CASE UNCHANGED agentVars
    BY <2>7 DEF agentVars, loop, round, orders, QueueInv, QueueTypeOK, NothingLost
  <2> QED  BY <2>1, <2>2, <2>3, <2>4, <2>5, <2>6, <2>7 DEF AgentNext
<1> QED  BY <1>1, <1>2, PTL DEF AgentSpec

\* The log of a sub-agent has every approval that its tools asked for or got, in
\* order, when a round of tools has come to its end (subagent_executor.py,
\* the loop that waits for the tools).
THEOREM ApprovalsAreLogged == AgentSpec => []ApprovalsLogged
<1>1. QueueInv => ApprovalsLogged
  BY DEF QueueInv, NothingLost, ApprovalsLogged
<1> QED  BY <1>1, QueueInvariance, PTL

-----------------------------------------------------------------------------
(* ServerLife *)

OneHolder == \A x, y \in holders : x = y

\* A process that has begun and is not over has the lock.
LivingHold == \A s \in Servers : life[s] \in {"starting", "serving", "closing", "held"} => s \in holders

WorkersLive ==
    \A r \in Work : \A s \in workers[r] :
        /\ life[s] \in {"serving", "closing", "held"}
        /\ record[r] \in {"active", "final"}

AskedAreClosed == asked \subseteq closed /\ compacting \subseteq closed /\ asked \cap compacting = {}

Idle(s) == admitted[s] = {} /\ ~Busy(s)

AdmittedByServing == \A s \in Servers : admitted[s] # {} => life[s] = "serving"

ClosedAreIdle == \A s \in closed : life[s] = "serving" => Idle(s)

LifeInv ==
    /\ LifeTypeOK
    /\ OneHolder
    /\ LivingHold
    /\ WorkersLive
    /\ AskedAreClosed
    /\ AdmittedByServing
    /\ ClosedAreIdle

-----------------------------------------------------------------------------
LEMMA LifeInitially == LifeInit => LifeInv
  BY DEF LifeInit, LifeInv, LifeTypeOK, Lives, OneHolder, LivingHold, WorkersLive,
     AskedAreClosed, AdmittedByServing, ClosedAreIdle, Idle, Busy

\* While a server starts, nobody does anything for a run.
LEMMA StartsAlone ==
  ASSUME LifeInv, NEW s \in Servers, life[s] = "starting", NEW r \in Work
  PROVE  workers[r] = {}
<1>1. SUFFICES ASSUME NEW t \in workers[r] PROVE FALSE
  OBVIOUS
<1>2. t \in Servers /\ life[t] \in {"serving", "closing", "held"}
  BY DEF LifeInv, LifeTypeOK, WorkersLive
<1>3. s \in holders /\ t \in holders
  BY <1>2 DEF LifeInv, LivingHold
<1> QED
  BY <1>2, <1>3 DEF LifeInv, OneHolder

LEMMA ProbeKeeps ==
  ASSUME LifeInv, NEW c \in Starters, Probe(c) \/ ProbeEnds(c)
  PROVE  LifeInv'
<1>1. LifeTypeOK'
  BY DEF LifeInv, LifeTypeOK, Probe, ProbeEnds, requestVars
<1>2. OneHolder'
  BY DEF LifeInv, OneHolder, Probe, ProbeEnds
<1>3. LivingHold'
  BY LifeAssumption DEF LifeInv, LivingHold, Probe, ProbeEnds
<1>4. WorkersLive' /\ AskedAreClosed' /\ AdmittedByServing' /\ ClosedAreIdle'
  BY DEF LifeInv, WorkersLive, AskedAreClosed, AdmittedByServing, ClosedAreIdle, Idle, Busy, Probe, ProbeEnds, requestVars
<1> QED
  BY <1>1, <1>2, <1>3, <1>4 DEF LifeInv

\* The lock changes hands only when it is free; a process that gives it back is over.
LEMMA LockKept ==
  ASSUME LifeInv, NEW s \in Servers, ServerStep(s)
  PROVE  OneHolder' /\ LivingHold'
<1>1. CASE UNCHANGED <<life, holders>>
  BY <1>1 DEF LifeInv, OneHolder, LivingHold
<1>2. CASE Acquire(s)
  BY <1>2 DEF LifeInv, LifeTypeOK, OneHolder, LivingHold, Acquire
<1>3. CASE Initialize(s)
  BY <1>3 DEF LifeInv, LifeTypeOK, OneHolder, LivingHold, Initialize
<1>4. CASE InitializeFails(s) \/ ShutdownEvent(s) \/ Die(s)
  <2>1. \/ life' = [life EXCEPT ![s] = "over"] /\ holders' = holders \ {s}
        \/ life[s] \in {"starting", "closing"} /\ life' = [life EXCEPT ![s] = "held"] /\ holders' = holders
    BY <1>4 DEF InitializeFails, ShutdownEvent, ClosedInOrder, Retained, Die
  <2> QED
    BY <2>1 DEF LifeInv, LifeTypeOK, OneHolder, LivingHold
<1>5. CASE StopServing(s)
  BY <1>5 DEF LifeInv, LifeTypeOK, OneHolder, LivingHold, StopServing
<1> QED
  BY <1>1, <1>2, <1>3, <1>4, <1>5 DEF ServerStep, Admit, Refuse, StartRun, FinishRun, ProducerEnds,
     RunStartsRun, Answer, ShutdownServer, StorageCompact, CompactEnds

\* A startup finds no process that works, an end leaves none behind.
LEMMA WorkersKept ==
  ASSUME LifeInv, NEW s \in Servers, ServerStep(s)
  PROVE  WorkersLive'
<1> USE DEF LifeInv, LifeTypeOK, WorkersLive
<1>1. CASE Acquire(s)
  BY <1>1 DEF Acquire
<1>2. CASE Initialize(s) \/ InitializeFails(s)
  <2>1. \A r \in Work : workers[r] = {}
    BY <1>2, StartsAlone DEF Initialize, InitializeFails
  <2> QED
    BY <1>2, <2>1 DEF Initialize, InitializeFails
<1>3. CASE \E m \in Mutations : Admit(s, m) \/ Refuse(s, m)
  BY <1>3 DEF Admit, Refuse
<1>4. CASE \E r \in Work : StartRun(s, r) \/ \E p \in Work : RunStartsRun(s, p, r)
  <2>1. PICK r \in Work : /\ record[r] = "none" /\ life[s] = "serving"
                          /\ record' = [record EXCEPT ![r] = "active"]
                          /\ workers' = [workers EXCEPT ![r] = {s}]
                          /\ life' = life
    BY <1>4 DEF StartRun, RunStartsRun, Began
  <2> QED
    BY <2>1
<1>5. CASE \E r \in Work : FinishRun(s, r) \/ ProducerEnds(s, r)
  BY <1>5 DEF FinishRun, ProducerEnds
<1>6. CASE Answer(s) \/ ShutdownServer(s) \/ StorageCompact(s) \/ CompactEnds(s)
  BY <1>6 DEF Answer, ShutdownServer, StorageCompact, CompactEnds
<1>7. CASE StopServing(s)
  BY <1>7 DEF StopServing
<1>8. CASE ShutdownEvent(s)
  BY <1>8 DEF ShutdownEvent, ClosedInOrder, Retained
<1>9. CASE Die(s)
  BY <1>9 DEF Die
<1> QED
  BY <1>1, <1>2, <1>3, <1>4, <1>5, <1>6, <1>7, <1>8, <1>9 DEF ServerStep

LEMMA AskedKept ==
  ASSUME LifeInv, NEW s \in Servers, ServerStep(s)
  PROVE  AskedAreClosed'
<1> USE DEF LifeInv, LifeTypeOK, AskedAreClosed
<1>1. CASE UNCHANGED <<asked, closed, compacting>>
  BY <1>1
<1>2. CASE ShutdownServer(s) \/ StorageCompact(s)
  BY <1>2 DEF ShutdownServer, StorageCompact, CloseIfIdle
<1>3. CASE CompactEnds(s)
  BY <1>3 DEF CompactEnds
<1>4. CASE Die(s)
  BY <1>4 DEF Die
<1> QED
  BY <1>1, <1>2, <1>3, <1>4 DEF ServerStep, Acquire, Initialize, InitializeFails, Admit, Refuse,
     StartRun, RunStartsRun, FinishRun, ProducerEnds, Answer, StopServing, ShutdownEvent, requestVars

LEMMA AdmittedKept ==
  ASSUME LifeInv, NEW s \in Servers, ServerStep(s)
  PROVE  AdmittedByServing'
<1> USE DEF LifeInv, LifeTypeOK, AdmittedByServing
<1>1. CASE UNCHANGED <<admitted, life>>
  BY <1>1
<1>2. CASE \/ Acquire(s) \/ Initialize(s) \/ InitializeFails(s) \/ StopServing(s)
           \/ ShutdownEvent(s)
  BY <1>2 DEF Acquire, Initialize, InitializeFails, StopServing, ShutdownEvent, ClosedInOrder,
     Retained, requestVars
<1>3. CASE Answer(s) \/ Die(s) \/ \E m \in Mutations : Admit(s, m)
  BY <1>3 DEF Answer, Die, Admit
<1> QED
  BY <1>1, <1>2, <1>3 DEF ServerStep, Refuse, StartRun, RunStartsRun, FinishRun, ProducerEnds,
     ShutdownServer, StorageCompact, CompactEnds, requestVars

LEMMA TypeKept ==
  ASSUME LifeInv, NEW s \in Servers, ServerStep(s)
  PROVE  LifeTypeOK'
<1> USE DEF LifeInv, LifeTypeOK, Lives, requestVars
<1>1. CASE Acquire(s) \/ StopServing(s)
  BY <1>1 DEF Acquire, StopServing
<1>2. CASE Initialize(s) \/ InitializeFails(s)
  <2>1. Interrupted \in [Work -> {"none", "active", "interrupted", "final"}]
    BY DEF Interrupted
  <2> QED
    BY <1>2, <2>1 DEF Initialize, InitializeFails
<1>3. CASE \E m \in Mutations : Admit(s, m) \/ Refuse(s, m)
  BY <1>3 DEF Admit, Refuse
<1>4. CASE \E r \in Work : StartRun(s, r) \/ \E p \in Work : RunStartsRun(s, p, r)
  BY <1>4 DEF StartRun, RunStartsRun, Began
<1>5. CASE \E r \in Work : FinishRun(s, r) \/ ProducerEnds(s, r)
  BY <1>5 DEF FinishRun, ProducerEnds
<1>6. CASE Answer(s) \/ ShutdownServer(s) \/ StorageCompact(s) \/ CompactEnds(s)
  BY <1>6 DEF Answer, ShutdownServer, StorageCompact, CompactEnds, CloseIfIdle
<1>7. CASE ShutdownEvent(s)
  BY <1>7 DEF ShutdownEvent, ClosedInOrder, Retained
<1>8. CASE Die(s)
  BY <1>8 DEF Die
<1> QED
  BY <1>1, <1>2, <1>3, <1>4, <1>5, <1>6, <1>7, <1>8 DEF ServerStep

\* A server that has closed its admission begins nothing: only a mutation or an
\* active run makes a run active, and it has neither.
LEMMA ClosedKept ==
  ASSUME LifeInv, NEW s \in Servers, ServerStep(s)
  PROVE  ClosedAreIdle'
<1>1. closed' \subseteq Servers
  BY TypeKept DEF LifeTypeOK
<1>2. SUFFICES ASSUME NEW t \in Servers, t \in closed', life'[t] = "serving"
               PROVE  Idle(t)'
  BY <1>1 DEF ClosedAreIdle
<1> USE DEF LifeInv, LifeTypeOK, Idle, Busy
<1>3. CASE Acquire(s) \/ StopServing(s) \/ ShutdownEvent(s)
  BY <1>2, <1>3 DEF ClosedAreIdle, Acquire, StopServing, ShutdownEvent, ClosedInOrder, Retained, requestVars
<1>4. CASE Initialize(s) \/ InitializeFails(s)
  <2>1. \A r \in Work : workers[r] = {}
    BY <1>4, StartsAlone DEF Initialize, InitializeFails
  <2>2. admitted'[t] = {}
    BY <1>2, <1>4 DEF ClosedAreIdle, AdmittedByServing, Initialize, InitializeFails, requestVars
  <2> QED
    BY <1>4, <2>1, <2>2 DEF Initialize, InitializeFails
<1>5. CASE \E m \in Mutations : Admit(s, m) \/ Refuse(s, m)
  BY <1>2, <1>5 DEF ClosedAreIdle, Admit, Refuse
<1>6. CASE \E r \in Work : StartRun(s, r) \/ \E p \in Work : RunStartsRun(s, p, r)
  <2>1. s \notin closed
    BY <1>6 DEF ClosedAreIdle, StartRun, RunStartsRun
  <2>2. t # s /\ Idle(t)
    BY <1>2, <1>6, <2>1 DEF ClosedAreIdle, StartRun, RunStartsRun, requestVars
  <2> QED
    BY <1>6, <2>2 DEF StartRun, RunStartsRun, Began, requestVars
<1>7. CASE \E r \in Work : FinishRun(s, r) \/ ProducerEnds(s, r)
  BY <1>2, <1>7 DEF ClosedAreIdle, FinishRun, ProducerEnds, requestVars
<1>8. CASE Answer(s) \/ CompactEnds(s)
  BY <1>2, <1>8 DEF ClosedAreIdle, Answer, CompactEnds
<1>9. CASE ShutdownServer(s) \/ StorageCompact(s)
  BY <1>2, <1>9 DEF ClosedAreIdle, ShutdownServer, StorageCompact, CloseIfIdle
<1>10. CASE Die(s)
  BY <1>2, <1>10 DEF ClosedAreIdle, Die
<1> QED
  BY <1>3, <1>4, <1>5, <1>6, <1>7, <1>8, <1>9, <1>10 DEF ServerStep

-----------------------------------------------------------------------------
\* The invariant holds in every reachable state.
THEOREM LifeInvariance == LifeSpec => []LifeInv
<1>1. LifeInv /\ [LifeNext]_lifeVars => LifeInv'
  <2> SUFFICES ASSUME LifeInv, [LifeNext]_lifeVars PROVE LifeInv'
    OBVIOUS
  <2>1. CASE \E c \in Starters : Probe(c) \/ ProbeEnds(c)
    BY <2>1, ProbeKeeps
  <2>2. CASE \E s \in Servers : ServerStep(s)
    BY <2>2, TypeKept, LockKept, WorkersKept, AskedKept, AdmittedKept, ClosedKept DEF LifeInv
  <2>3. CASE UNCHANGED lifeVars
    BY <2>3 DEF lifeVars, LifeInv, LifeTypeOK, OneHolder, LivingHold, WorkersLive, AskedAreClosed,
       AdmittedByServing, ClosedAreIdle, Idle, Busy
  <2> QED
    BY <2>1, <2>2, <2>3 DEF LifeNext
<1> QED
  BY <1>1, LifeInitially, PTL DEF LifeSpec

\* Two servers never work on one home at the same time, whatever starts, fails to
\* start, cannot be closed or dies.
THEOREM OneServerPerHome ==
  LifeSpec => [](\A s, t \in Servers :
                    life[s] \in {"serving", "closing", "held"} /\ life[t] \in {"serving", "closing", "held"}
                    => s = t)
<1>1. LifeInv => \A s, t \in Servers :
          life[s] \in {"serving", "closing", "held"} /\ life[t] \in {"serving", "closing", "held"} => s = t
  BY DEF LifeInv, OneHolder, LivingHold
<1> QED
  BY <1>1, LifeInvariance, PTL

\* A startup interrupts only runs for which nobody does anything, and a server
\* that has agreed to end has nothing in progress.
THEOREM NoWorkIsCutOff == LifeSpec => []NothingCutOff
<1>1. LifeInv => NothingCutOff
  BY DEF LifeInv, LifeTypeOK, WorkersLive, AskedAreClosed, ClosedAreIdle, Idle, NothingCutOff,
     LivingRunKept, ClosesOnlyIdle
<1> QED
  BY <1>1, LifeInvariance, PTL

-----------------------------------------------------------------------------
(* RunOwnership *)

USE RunOwnershipAssumption

\* Somebody who does not end before the run is final or has been handed on
Held(r) ==
    \/ \E q \in Requests : KeyOf[q] = r /\ at[q] \in InBootstrap
    \/ r \in unscheduled \cup unfinished
    \/ producer[r] # "none"
    \/ \E p \in Runs : producer[p] = "continuing" /\ continuation[p] = r

SettledIsFinal == \A r \in settled : row[r] = "final"

OneOwner ==
    /\ \A p, q \in Requests : at[p] \in InBootstrap /\ at[q] \in InBootstrap /\ KeyOf[p] = KeyOf[q] => p = q
    /\ \A q \in Requests : at[q] \in InBootstrap => row[KeyOf[q]] # "absent" /\ launched[KeyOf[q]] = 0

Launching ==
    \A r \in Runs : /\ launched[r] \in 0..1
                    /\ row[r] = "absent" => launched[r] = 0
                    /\ producer[r] # "none" => launched[r] = 1

Continuing ==
    \A r \in Runs : producer[r] = "continuing" => Continues /\ continuation[r] \in Runs

NoFaultyContinuation == Continues => MaxFaults = 0

NobodyLost == NoFaultyContinuation => \A r \in Runs : row[r] = "active" => Held(r)

-----------------------------------------------------------------------------
(* Types *)

LEMMA FinishTypes ==
  ASSUME TypeOK, NEW r \in Runs, Finish(r)
  PROVE  /\ row' \in [Runs -> {"absent", "active", "final"}] /\ settled' \subseteq Runs /\ faults' \in Nat
         /\ \A s \in Runs : row'[s] = row[s] \/ (s = r /\ row'[s] = "final")
         /\ SettledIsFinal => SettledIsFinal'
         /\ MaxFaults = 0 => row'[r] = "final"
  BY DEF TypeOK, Finish, Fault, SettledIsFinal

LEMMA AnsweredTypes ==
  ASSUME TypeOK, NEW q \in Requests, NEW a \in Answers, Answered(q, a)
  PROVE  /\ at' \in [Requests -> {"none", "asking", "done"} \cup InTask]
         /\ answer' \in [Requests -> Answers]
         /\ \A p \in Requests : at'[p] = "waiting" => at[p] = "waiting"
         /\ \A p \in Requests : at'[p] = at[p] \/ (p = q /\ at'[p] = "done")
  BY DEF TypeOK, Answered

LEMMA WaitsTypes ==
  ASSUME TypeOK, NEW q \in Requests, NEW place \in {"waiting", "asking"}, Waits(q, place)
  PROVE  /\ at' \in [Requests -> {"none", "asking", "done"} \cup InTask]
         /\ follows' \in [Requests -> Requests \cup {"none"}]
         /\ \A p \in Requests : at'[p] = "waiting" => follows'[p] # "none"
         /\ answer' = answer
         /\ \A p \in Requests : at'[p] = at[p] \/ (p = q /\ at'[p] = place)
  BY DEF TypeOK, Waits, Owners, InTask

LEMMA FaultTypes ==
  ASSUME TypeOK, Fault
  PROVE  faults' \in Nat /\ faults' > faults
  BY DEF TypeOK, Fault

\* A request that is answered about the run of its key, which it may have settled
KnownRun(q) ==
    /\ at' \in [Requests -> {"none", "asking", "done"} \cup InTask]
    /\ answer' \in [Requests -> Answers]
    /\ \A p \in Requests : at'[p] = "waiting" => at[p] = "waiting"
    /\ \A p \in Requests : at'[p] = at[p] \/ (p = q /\ at'[p] = "done")
    /\ row' \in [Runs -> {"absent", "active", "final"}] /\ settled' \subseteq Runs /\ faults' \in Nat
    /\ \A s \in Runs : row'[s] = row[s] \/ row'[s] = "final"
    /\ SettledIsFinal => SettledIsFinal'
    /\ unscheduled' \subseteq unscheduled
    /\ \A s \in unscheduled \ unscheduled' : row'[s] = "final"

LEMMA ExistingTypes ==
  ASSUME TypeOK, NEW q \in Requests, NEW unread \in Answers, ExistingAnswered(q, unread)
  PROVE  KnownRun(q)
<1>1. KeyOf[q] \in Runs
  BY DEF Runs
<1>2. ASSUME NEW a \in Answers, Answered(q, a), UNCHANGED <<row, settled, unscheduled>>, faults' \in Nat
      PROVE  KnownRun(q)
  BY <1>2, AnsweredTypes DEF TypeOK, SettledIsFinal, KnownRun
<1>3. ASSUME Finish(KeyOf[q]), KeyOf[q] \in unscheduled,
             unscheduled' = IF row'[KeyOf[q]] = "final" THEN unscheduled \ {KeyOf[q]} ELSE unscheduled,
             Answered(q, IF row'[KeyOf[q]] = "final" THEN "run" ELSE "scheduling_error")
      PROVE  KnownRun(q)
  <2>1. /\ at' \in [Requests -> {"none", "asking", "done"} \cup InTask]
        /\ answer' \in [Requests -> Answers]
        /\ \A p \in Requests : at'[p] = "waiting" => at[p] = "waiting"
        /\ \A p \in Requests : at'[p] = at[p] \/ (p = q /\ at'[p] = "done")
    BY <1>3, AnsweredTypes DEF Answers
  <2> QED  BY <1>1, <1>3, <2>1, FinishTypes DEF KnownRun
<1>4. ASSUME Fault, Answered(q, unread), row' = [row EXCEPT ![KeyOf[q]] = "final"],
             settled' = settled \cup {KeyOf[q]}, unscheduled' = unscheduled \ {KeyOf[q]}
      PROVE  KnownRun(q)
  <2>1. /\ row' \in [Runs -> {"absent", "active", "final"}] /\ row'[KeyOf[q]] = "final"
        /\ \A s \in Runs : row'[s] = row[s] \/ row'[s] = "final"
    BY <1>1, <1>4 DEF TypeOK
  <2>2. settled' \subseteq Runs /\ (SettledIsFinal => SettledIsFinal')
    BY <1>1, <1>4, <2>1 DEF TypeOK, SettledIsFinal
  <2> QED  BY <1>4, <2>1, <2>2, FaultTypes, AnsweredTypes DEF KnownRun
<1>5. "conflict" \in Answers /\ "run" \in Answers /\ faults \in Nat
  BY DEF Answers, TypeOK
<1>6. \/ Fault /\ Answered(q, unread) /\ UNCHANGED <<row, settled, unscheduled>>
      \/ \E a \in {"conflict", "run"} : Answered(q, a) /\ UNCHANGED <<row, settled, unscheduled, faults>>
      \/ /\ Finish(KeyOf[q]) /\ KeyOf[q] \in unscheduled
         /\ unscheduled' = IF row'[KeyOf[q]] = "final" THEN unscheduled \ {KeyOf[q]} ELSE unscheduled
         /\ Answered(q, IF row'[KeyOf[q]] = "final" THEN "run" ELSE "scheduling_error")
      \/ /\ Fault /\ Answered(q, unread) /\ row' = [row EXCEPT ![KeyOf[q]] = "final"]
         /\ settled' = settled \cup {KeyOf[q]} /\ unscheduled' = unscheduled \ {KeyOf[q]}
  BY Zenon DEF ExistingAnswered
<1> QED  BY <1>2, <1>3, <1>4, <1>5, <1>6, FaultTypes

-----------------------------------------------------------------------------
(* The invariant, and steps that keep what holds a run *)

Core == TypeOK /\ SettledIsFinal /\ OneOwner /\ Launching /\ Continuing

\* Requests that do not begin a start, and rows that nobody activates
LEMMA QuietCore ==
  ASSUME Core, TypeOK', SettledIsFinal', launched' = launched,
         \A r \in Runs : producer'[r] # "none" => producer[r] # "none",
         \A r \in Runs : producer'[r] = "continuing" =>
                             producer[r] = "continuing" /\ continuation'[r] = continuation[r],
         \A q \in Requests : at'[q] \in InBootstrap => at[q] \in InBootstrap,
         \A r \in Runs : row'[r] = row[r] \/ row'[r] = "final"
  PROVE  Core'
<1>1. \A q \in Requests : KeyOf[q] \in Runs
  BY DEF Runs
<1>2. OneOwner'
  BY <1>1 DEF Core, OneOwner
<1>3. Launching'
  BY DEF Core, Launching
<1>4. Continuing'
  BY DEF Core, Continuing
<1> QED  BY <1>2, <1>3, <1>4 DEF Core

\* What held an active run holds it still, or the run is final.
LEMMA QuietHeld ==
  ASSUME Core, NobodyLost,
         \A r \in Runs : row'[r] = "active" => row[r] = "active",
         \A q \in Requests : row'[KeyOf[q]] = "active" /\ at[q] \in InBootstrap => at'[q] \in InBootstrap,
         \A r \in unscheduled \cup unfinished : row'[r] = "active" => r \in unscheduled' \cup unfinished',
         producer' = producer, continuation' = continuation
  PROVE  NobodyLost'
<1> SUFFICES ASSUME NoFaultyContinuation, NEW r \in Runs, row'[r] = "active" PROVE Held(r)'
  BY DEF NobodyLost
<1>1. row[r] = "active" /\ Held(r)
  BY DEF NobodyLost
<1>2. CASE \E q \in Requests : KeyOf[q] = r /\ at[q] \in InBootstrap
  BY <1>2 DEF Held, InBootstrap
<1>3. CASE r \in unscheduled \cup unfinished
  BY <1>3 DEF Held
<1>4. CASE producer[r] # "none" \/ \E p \in Runs : producer[p] = "continuing" /\ continuation[p] = r
  BY <1>4 DEF Held
<1> QED  BY <1>1, <1>2, <1>3, <1>4 DEF Held

-----------------------------------------------------------------------------
(* RunStartCoordinator *)

\* What a request does that has not got to its task
Asked(q) ==
    /\ at' \in [Requests -> {"none", "asking", "done"} \cup InTask]
    /\ answer' \in [Requests -> Answers]
    /\ follows' \in [Requests -> Requests \cup {"none"}]
    /\ \A p \in Requests : at'[p] = "waiting" => follows'[p] # "none"
    /\ \A p \in Requests : at'[p] = at[p] \/ (p = q /\ at'[p] \in {"done", "created", "asking"})
    /\ row' \in [Runs -> {"absent", "active", "final"}] /\ settled' \subseteq Runs /\ faults' \in Nat
    /\ \A r \in Runs : row'[r] = row[r] \/ row'[r] = "final"
    /\ SettledIsFinal'
    /\ unscheduled' \subseteq unscheduled
    /\ \A r \in unscheduled \ unscheduled' : row'[r] = "final"

LEMMA StartKeeps ==
  ASSUME Core, NobodyLost, NEW q \in Requests, Start(q) \/ ReplayExisting(q)
  PROVE  Core' /\ NobodyLost'
<1>1. TypeOK /\ SettledIsFinal /\ {"reservation_error", "read_error"} \subseteq Answers
  BY DEF Core, Answers
<1>2. at[q] \in {"none", "asking"}
  BY DEF Start, ReplayExisting
<1>3. Asked(q)
  <2>1. ASSUME NEW a \in {"reservation_error", "read_error"}, Answered(q, a),
               UNCHANGED <<row, settled, follows, unscheduled>>, faults' \in Nat
        PROVE Asked(q)
    BY <1>1, <2>1, AnsweredTypes DEF TypeOK, SettledIsFinal, Asked
  <2>2. ASSUME at' = [at EXCEPT ![q] = "created"], UNCHANGED <<row, settled, follows, answer, unscheduled, faults>>
        PROVE Asked(q)
    BY <1>1, <2>2 DEF TypeOK, InTask, SettledIsFinal, Asked
  <2>3. ASSUME Waits(q, "asking"), UNCHANGED <<row, settled, unscheduled, faults>>
        PROVE Asked(q)
    BY <1>1, <2>3, WaitsTypes DEF TypeOK, SettledIsFinal, Asked
  <2>4. ASSUME ExistingAnswered(q, "read_error"), follows' = follows
        PROVE Asked(q)
    BY <1>1, <2>4, ExistingTypes DEF TypeOK, KnownRun, Asked
  <2>5. CASE Start(q)
    BY <1>1, <2>1, <2>2, <2>5 DEF Start, rows, TypeOK
  <2>6. CASE ReplayExisting(q)
    <3>1. \/ Answered(q, "reservation_error") /\ UNCHANGED <<row, settled, follows, unscheduled, faults>>
          \/ Waits(q, "asking") /\ UNCHANGED <<row, settled, unscheduled, faults>>
          \/ ExistingAnswered(q, "read_error") /\ follows' = follows
          \/ /\ at' = [at EXCEPT ![q] = "created"]
             /\ UNCHANGED <<row, settled, follows, answer, unscheduled, faults>>
          \/ Fault /\ Answered(q, "read_error") /\ UNCHANGED <<row, settled, follows, unscheduled>>
      BY <2>6, Zenon DEF ReplayExisting
    <3>2. faults \in Nat
      BY <1>1 DEF TypeOK
    <3> QED  BY <1>1, <2>1, <2>2, <2>3, <2>4, <3>1, <3>2, FaultTypes
  <2> QED  BY <2>5, <2>6
<1>4. UNCHANGED <<fingerprint, failure, cancelled, finishing, producers, shutdown>>
  BY DEF Start, ReplayExisting, rows
<1>5. TypeOK'
  BY <1>1, <1>3, <1>4 DEF TypeOK, producers, shutdown, Asked
<1>6. \A p \in Requests : at'[p] \in InBootstrap <=> at[p] \in InBootstrap
  BY <1>2, <1>3 DEF InBootstrap, Asked
<1> QED  BY <1>3, <1>4, <1>5, <1>6, QuietCore, QuietHeld DEF producers, Core, Asked

\* A key is reserved where nobody owns it and its run does not exist.
LEMMA ReserveKeeps ==
  ASSUME Core, NobodyLost, NEW q \in Requests, at[q] = "created",
         Owners(KeyOf[q]) = {}, row[KeyOf[q]] = "absent", Reserve(q),
         UNCHANGED <<settled, follows, unscheduled, cancelled, failure, producers, shutdown>>
  PROVE  Core' /\ NobodyLost'
<1>1. TypeOK /\ SettledIsFinal /\ KeyOf[q] \in Runs
  BY DEF Core, Runs
<1>2. \A p \in Requests : KeyOf[p] = KeyOf[q] => at[p] \notin InBootstrap
  BY DEF Owners
<1>3. launched[KeyOf[q]] = 0
  BY <1>1 DEF Core, Launching
<1>4. CASE Fault /\ Answered(q, "reservation_error") /\ UNCHANGED <<row, fingerprint, finishing>>
  <2>1. /\ at' \in [Requests -> {"none", "asking", "done"} \cup InTask]
        /\ answer' \in [Requests -> Answers]
        /\ \A p \in Requests : at'[p] = "waiting" => at[p] = "waiting"
        /\ \A p \in Requests : at'[p] = at[p] \/ (p = q /\ at'[p] = "done")
    BY <1>1, <1>4, AnsweredTypes DEF Answers
  <2>2. TypeOK'
    <3>1. faults \in Nat
      BY <1>1 DEF TypeOK
    <3>2. faults' \in Nat
      BY <1>4, <3>1 DEF Fault
    <3> QED  BY <1>1, <1>4, <2>1, <3>2 DEF TypeOK, producers, shutdown
  <2>3. \A p \in Requests : at'[p] \in InBootstrap <=> at[p] \in InBootstrap
    BY <2>1 DEF InBootstrap
  <2>4. SettledIsFinal'
    BY <1>1, <1>4 DEF SettledIsFinal
  <2> QED  BY <1>4, <2>2, <2>3, <2>4, QuietCore, QuietHeld DEF producers
<1>5. ASSUME NEW place \in {"bootstrapping", "interrupting"},
             at' = [at EXCEPT ![q] = place], answer' = answer,
             row' = [row EXCEPT ![KeyOf[q]] = "active"],
             fingerprint' = [fingerprint EXCEPT ![KeyOf[q]] = FingerprintOf[q]],
             finishing' \in {finishing, finishing \cup {<<"reservation", KeyOf[q]>>}}, faults' \in Nat
      PROVE  Core' /\ NobodyLost'
  <2>1. TypeOK'
    <3>1. finishing' \subseteq FinishedBy \X Runs
      BY <1>1, <1>5 DEF TypeOK, FinishedBy
    <3>2. at' \in [Requests -> {"none", "asking", "done"} \cup InTask]
          /\ \A p \in Requests : at'[p] = "waiting" => at[p] = "waiting"
      BY <1>1, <1>5 DEF TypeOK, InTask, InBootstrap
    <3>3. fingerprint' \in [Runs -> {"none"} \cup {FingerprintOf[p] : p \in Requests}]
      BY <1>1, <1>5 DEF TypeOK
    <3> QED  BY <1>1, <1>5, <3>1, <3>2, <3>3 DEF TypeOK, producers, shutdown
  <2>2. SettledIsFinal'
    BY <1>1, <1>5 DEF SettledIsFinal, TypeOK
  <2>3. OneOwner'
    <3>1. \A p \in Requests : at'[p] \in InBootstrap => p = q \/ at[p] \in InBootstrap
      BY <1>1, <1>5 DEF TypeOK
    <3>2. \A r \in Runs : row'[r] = row[r] \/ (r = KeyOf[q] /\ row'[r] = "active")
      BY <1>1, <1>5 DEF TypeOK
    <3>3. \A p \in Requests : KeyOf[p] \in Runs
      BY DEF Runs
    <3>4. \A p \in Requests : at'[p] \in InBootstrap /\ p # q => KeyOf[p] # KeyOf[q]
      BY <1>2, <3>1
    <3>5. \A a, b \in Requests : at'[a] \in InBootstrap /\ at'[b] \in InBootstrap /\ KeyOf[a] = KeyOf[b] => a = b
      BY <3>1, <3>4 DEF OneOwner, Core
    <3>6. \A p \in Requests : at'[p] \in InBootstrap => row'[KeyOf[p]] # "absent" /\ launched'[KeyOf[p]] = 0
      <4>1. row'[KeyOf[q]] = "active" /\ launched' = launched
        BY <1>1, <1>5 DEF TypeOK, producers
      <4> QED  BY <1>3, <3>1, <3>2, <3>3, <3>4, <4>1 DEF OneOwner, Core
    <3> QED  BY <3>5, <3>6 DEF OneOwner
  <2>4. Launching'
    BY <1>1, <1>5 DEF Launching, Core, TypeOK, producers
  <2>5. NobodyLost'
    <3> SUFFICES ASSUME NoFaultyContinuation, NEW r \in Runs, row'[r] = "active" PROVE Held(r)'
      BY DEF NobodyLost
    <3>1. at'[q] \in InBootstrap /\ \A p \in Requests : at[p] \in InBootstrap => at'[p] \in InBootstrap
      BY <1>1, <1>5 DEF TypeOK, InBootstrap
    <3>2. CASE r = KeyOf[q]
      BY <3>1, <3>2 DEF Held
    <3>3. CASE r # KeyOf[q]
      <4>1. Held(r)
        BY <1>1, <1>5, <3>3 DEF NobodyLost, TypeOK
      <4> QED  BY <3>1, <4>1 DEF Held, producers
    <3> QED  BY <3>2, <3>3
  <2>6. Continuing'
    BY DEF Core, Continuing, producers
  <2> QED  BY <2>1, <2>2, <2>3, <2>4, <2>5, <2>6 DEF Core
<1>6. faults \in Nat
  BY <1>1 DEF TypeOK
<1> DEFINE Reserved(place) ==
             /\ at' = [at EXCEPT ![q] = place] /\ answer' = answer
             /\ row' = [row EXCEPT ![KeyOf[q]] = "active"]
             /\ fingerprint' = [fingerprint EXCEPT ![KeyOf[q]] = FingerprintOf[q]]
             /\ finishing' \in {finishing, finishing \cup {<<"reservation", KeyOf[q]>>}}
             /\ faults' \in Nat
<1>7. \/ Fault /\ Answered(q, "reservation_error") /\ UNCHANGED <<row, fingerprint, finishing>>
      \/ Reserved("bootstrapping") \/ Reserved("interrupting")
  BY <1>6 DEF Reserve, Fault
<1> QED  BY <1>4, <1>5, <1>7

LEMMA RunStartKeeps ==
  ASSUME Core, NobodyLost, NEW q \in Requests, RunStart(q)
  PROVE  Core' /\ NobodyLost'
<1>1. TypeOK /\ SettledIsFinal /\ "cancelled" \in Answers
  BY DEF Core, Answers
<1>2. at[q] = "created" /\ StartOnce(q) /\ UNCHANGED <<failure, producers, shutdown>>
  BY DEF RunStart
<1>3. ASSUME /\ at' \in [Requests -> {"none", "asking", "done"} \cup InTask]
             /\ answer' \in [Requests -> Answers] /\ follows' \in [Requests -> Requests \cup {"none"}]
             /\ \A p \in Requests : at'[p] = "waiting" => follows'[p] # "none"
             /\ \A p \in Requests : at'[p] = at[p] \/ (p = q /\ at'[p] \in {"done", "waiting"})
             /\ row' \in [Runs -> {"absent", "active", "final"}] /\ settled' \subseteq Runs /\ faults' \in Nat
             /\ \A s \in Runs : row'[s] = row[s] \/ row'[s] = "final"
             /\ SettledIsFinal'
             /\ unscheduled' \subseteq unscheduled
             /\ \A s \in unscheduled \ unscheduled' : row'[s] = "final"
             /\ cancelled' \subseteq cancelled /\ UNCHANGED <<fingerprint, finishing>>
      PROVE  Core' /\ NobodyLost'
  <2>1. TypeOK'
    BY <1>1, <1>2, <1>3 DEF TypeOK, producers, shutdown
  <2>2. \A p \in Requests : at'[p] \in InBootstrap <=> at[p] \in InBootstrap
    BY <1>2, <1>3 DEF InBootstrap
  <2> QED  BY <1>2, <1>3, <2>1, <2>2, QuietCore, QuietHeld DEF producers
<1>4. CASE q \in cancelled
  BY <1>1, <1>2, <1>3, <1>4, AnsweredTypes DEF StartOnce, TypeOK, SettledIsFinal, rows
<1>5. CASE q \notin cancelled /\ Waits(q, "waiting") /\ UNCHANGED <<rows, unscheduled, finishing, faults, cancelled>>
  BY <1>1, <1>3, <1>5, WaitsTypes DEF TypeOK, SettledIsFinal, rows
<1>6. CASE /\ q \notin cancelled /\ ExistingAnswered(q, "reservation_error")
           /\ UNCHANGED <<fingerprint, follows, finishing, cancelled>>
  <2>1. KnownRun(q)
    BY <1>1, <1>6, ExistingTypes DEF Answers
  <2>2. \A p \in Requests : at'[p] = "waiting" => follows'[p] # "none"
    BY <1>1, <1>6, <2>1 DEF TypeOK, KnownRun
  <2> QED  BY <1>1, <1>3, <1>6, <2>1, <2>2 DEF TypeOK, KnownRun
<1>7. CASE q \notin cancelled /\ Owners(KeyOf[q]) = {} /\ row[KeyOf[q]] = "absent" /\ Reserve(q)
           /\ UNCHANGED <<settled, follows, unscheduled, cancelled>>
  BY <1>2, <1>7, ReserveKeeps
<1> QED  BY <1>2, <1>4, <1>5, <1>6, <1>7 DEF StartOnce

\* The except clause keeps the barrier up until the run is finished or put on
\* the list of the coordinator.
LEMMA TerminalizingKeeps ==
  ASSUME Core, NobodyLost, NEW q \in Requests, at[q] \in {"interrupting", "bootstrapping"},
         NEW error \in Answers, Terminalizing(q, error),
         UNCHANGED <<rows, follows, unscheduled, producers, shutdown, faults>>
  PROVE  Core' /\ NobodyLost'
<1>1. TypeOK /\ SettledIsFinal /\ KeyOf[q] \in Runs
  BY DEF Core, Runs
<1>2. /\ at' = [at EXCEPT ![q] = "terminalizing"] /\ failure' = [failure EXCEPT ![q] = error]
      /\ finishing' = finishing \cup {<<"start", KeyOf[q]>>} /\ cancelled' = cancelled \ {q}
      /\ answer' = answer
  BY DEF Terminalizing
<1>3. TypeOK'
  <2>1. finishing' \subseteq FinishedBy \X Runs
    BY <1>1, <1>2 DEF TypeOK, FinishedBy
  <2>2. at' \in [Requests -> {"none", "asking", "done"} \cup InTask]
        /\ \A p \in Requests : at'[p] = "waiting" => at[p] = "waiting"
    BY <1>1, <1>2 DEF TypeOK, InTask, InBootstrap
  <2> QED  BY <1>1, <1>2, <2>1, <2>2 DEF TypeOK, rows, producers, shutdown
<1>4. \A p \in Requests : at'[p] \in InBootstrap <=> at[p] \in InBootstrap
  BY <1>1, <1>2 DEF TypeOK, InBootstrap
<1>5. SettledIsFinal'
  BY <1>1 DEF SettledIsFinal, rows
<1> QED  BY <1>3, <1>4, <1>5, QuietCore, QuietHeld DEF rows, producers

LEMMA BootstrapKeeps ==
  ASSUME Core, NobodyLost, NEW q \in Requests, ReservationInterrupted(q) \/ Bootstrapped(q)
  PROVE  Core' /\ NobodyLost'
<1>1. TypeOK /\ SettledIsFinal /\ KeyOf[q] \in Runs /\ {"cancelled", "scheduling_error", "run"} \subseteq Answers
  BY DEF Core, Runs, Answers
<1>2. ASSUME NEW error \in Answers, at[q] \in {"interrupting", "bootstrapping"}, Terminalizing(q, error),
             UNCHANGED <<rows, follows, unscheduled, producers, shutdown, faults>>
      PROVE  Core' /\ NobodyLost'
  BY <1>2, TerminalizingKeeps
<1>3. CASE /\ at[q] = "bootstrapping"
           /\ producer' = [producer EXCEPT ![KeyOf[q]] = "new"]
           /\ launched' = [launched EXCEPT ![KeyOf[q]] = @ + 1]
           /\ Answered(q, "run")
           /\ UNCHANGED <<failure, finishing, cancelled>>
           /\ UNCHANGED <<rows, follows, unscheduled, killed, continuation, unfinished,
                          terminalizer, shutdown, faults>>
  <2>1. /\ at' \in [Requests -> {"none", "asking", "done"} \cup InTask]
        /\ answer' \in [Requests -> Answers]
        /\ \A p \in Requests : at'[p] = "waiting" => at[p] = "waiting"
        /\ \A p \in Requests : at'[p] = at[p] \/ (p = q /\ at'[p] = "done")
        /\ at'[q] = "done"
    BY <1>1, <1>3, AnsweredTypes DEF Answered, TypeOK
  <2>2. TypeOK'
    BY <1>1, <1>3, <2>1 DEF TypeOK, rows, shutdown
  <2>3. launched[KeyOf[q]] = 0 /\ row[KeyOf[q]] # "absent"
        /\ \A p \in Requests : at'[p] \in InBootstrap => at[p] \in InBootstrap /\ KeyOf[p] # KeyOf[q]
    BY <1>3, <2>1 DEF Core, OneOwner, InBootstrap
  <2>4. /\ \A r \in Runs : launched'[r] = IF r = KeyOf[q] THEN 1 ELSE launched[r]
        /\ \A r \in Runs : r # KeyOf[q] => producer'[r] = producer[r]
    BY <1>1, <1>3, <2>3 DEF TypeOK
  <2>5. OneOwner' /\ Launching' /\ SettledIsFinal'
    <3>1. \A p \in Requests : KeyOf[p] \in Runs
      BY DEF Runs
    <3> QED  BY <1>1, <1>3, <2>3, <2>4, <3>1 DEF Core, OneOwner, Launching, SettledIsFinal, rows
  <2>6. NobodyLost'
    <3> SUFFICES ASSUME NoFaultyContinuation, NEW r \in Runs, row'[r] = "active" PROVE Held(r)'
      BY DEF NobodyLost
    <3>1. Held(r)
      BY <1>3 DEF NobodyLost, rows
    <3>2. CASE r = KeyOf[q]
      BY <1>1, <1>3, <3>2 DEF Held, TypeOK
    <3>3. CASE r # KeyOf[q]
      <4>1. \A p \in Requests : KeyOf[p] = r => at'[p] = at[p]
        BY <2>1, <3>3
      <4>2. producer[KeyOf[q]] = "none"
        BY <1>1, <2>3 DEF Core, Launching
      <4>3. \A p \in Runs : p # KeyOf[q] => producer'[p] = producer[p]
        BY <1>1, <1>3 DEF TypeOK
      <4> QED  BY <1>1, <1>3, <3>1, <3>3, <4>1, <4>2, <4>3 DEF Held
    <3> QED  BY <3>2, <3>3
  <2>7. Continuing'
    BY <1>1, <1>3 DEF Core, Continuing, TypeOK
  <2> QED  BY <2>2, <2>5, <2>6, <2>7 DEF Core
<1> QED  BY <1>1, <1>2, <1>3 DEF ReservationInterrupted, Bootstrapped, producers

\* The barrier falls when the run is final or on the list.
LEMMA TerminalizedKeeps ==
  ASSUME Core, NobodyLost, NEW q \in Requests, Terminalized(q)
  PROVE  Core' /\ NobodyLost'
<1>1. TypeOK /\ SettledIsFinal /\ KeyOf[q] \in Runs /\ failure[q] \in Answers
  BY DEF Core, Runs, TypeOK
<1>2. /\ at[q] = "terminalizing" /\ unscheduled' = Unscheduled(KeyOf[q]) /\ Answered(q, failure[q])
      /\ cancelled' = cancelled \ {q}
      /\ UNCHANGED <<rows, follows, failure, finishing, producers, shutdown, faults>>
  BY DEF Terminalized
<1>3. /\ at' \in [Requests -> {"none", "asking", "done"} \cup InTask]
      /\ answer' \in [Requests -> Answers]
      /\ \A p \in Requests : at'[p] = "waiting" => at[p] = "waiting"
      /\ \A p \in Requests : at'[p] = at[p] \/ (p = q /\ at'[p] = "done")
  BY <1>1, <1>2, AnsweredTypes
<1>4. unscheduled \subseteq unscheduled' /\ unscheduled' \subseteq Runs
      /\ (row[KeyOf[q]] # "final" => KeyOf[q] \in unscheduled')
  BY <1>1, <1>2 DEF Unscheduled, Final, TypeOK
<1>5. TypeOK'
  BY <1>1, <1>2, <1>3, <1>4 DEF TypeOK, rows, producers, shutdown
<1>6. Core'
  <2>1. \A p \in Requests : at'[p] \in InBootstrap => at[p] \in InBootstrap
    BY <1>3 DEF InBootstrap
  <2> QED  BY <1>1, <1>2, <1>5, <2>1, QuietCore DEF SettledIsFinal, rows, producers
<1>7. NobodyLost'
  <2> SUFFICES ASSUME NoFaultyContinuation, NEW r \in Runs, row'[r] = "active" PROVE Held(r)'
    BY DEF NobodyLost
  <2>1. Held(r) /\ row[r] = "active"
    BY <1>2 DEF NobodyLost, rows
  <2>2. CASE r = KeyOf[q]
    BY <1>4, <2>1, <2>2 DEF Held
  <2>3. CASE r # KeyOf[q]
    <3>1. \A p \in Requests : KeyOf[p] = r => at'[p] = at[p]
      BY <1>3, <2>3
    <3> QED  BY <1>2, <1>4, <2>1, <3>1 DEF Held, producers
  <2> QED  BY <2>2, <2>3
<1> QED  BY <1>6, <1>7

\* What a request does that waited for another one
WokenUp(q) ==
    /\ at' \in [Requests -> {"none", "asking", "done"} \cup InTask]
    /\ answer' \in [Requests -> Answers] /\ follows' \in [Requests -> Requests \cup {"none"}]
    /\ \A p \in Requests : at'[p] = "waiting" => follows'[p] # "none"
    /\ \A p \in Requests : at'[p] = at[p] \/ (p = q /\ at'[p] \in {"done", "created", "asking"})

LEMMA WokenTypes ==
  ASSUME TypeOK, NEW q \in Requests, Woken(q)
  PROVE  /\ \/ \E a \in {"cancelled", "conflict", "read_error", answer[follows[q]]} :
                  Answered(q, a) /\ follows' = follows
            \/ /\ at' = [at EXCEPT ![q] = IF at[q] = "waiting" THEN "created" ELSE "asking"]
               /\ follows' = [follows EXCEPT ![q] = "none"] /\ answer' = answer
         /\ faults' \in Nat
         /\ UNCHANGED <<rows, failure, unscheduled, finishing, producers, shutdown>>
<1>1. \/ /\ Answered(q, IF q \in cancelled THEN "cancelled" ELSE answer[follows[q]])
         /\ UNCHANGED <<follows, faults>>
      \/ Fault /\ Answered(q, "read_error") /\ UNCHANGED follows
      \/ Answered(q, "conflict") /\ UNCHANGED <<follows, faults>>
      \/ /\ at' = [at EXCEPT ![q] = IF at[q] = "waiting" THEN "created" ELSE "asking"]
         /\ follows' = [follows EXCEPT ![q] = "none"] /\ UNCHANGED <<answer, faults>>
  BY Zenon DEF Woken
<1>2. faults \in Nat
  BY DEF TypeOK
<1>3. UNCHANGED <<rows, failure, unscheduled, finishing, producers, shutdown>>
  BY DEF Woken
<1> QED  BY <1>1, <1>2, <1>3, FaultTypes

LEMMA WokenKeeps ==
  ASSUME Core, NobodyLost, NEW q \in Requests, Woken(q)
  PROVE  Core' /\ NobodyLost'
<1>1. TypeOK /\ SettledIsFinal /\ {"cancelled", "conflict", "read_error"} \subseteq Answers
  BY DEF Core, Answers
<1>2. /\ at[q] \in {"waiting", "asking"} /\ follows[q] # "none" /\ cancelled' = cancelled \ {q}
      /\ UNCHANGED <<rows, failure, unscheduled, finishing, producers, shutdown>>
      /\ faults' \in Nat
  BY <1>1, WokenTypes DEF Woken
<1>3. WokenUp(q)
  <2>1. ASSUME NEW a \in Answers, Answered(q, a), follows' = follows PROVE WokenUp(q)
    BY <1>1, <2>1, AnsweredTypes DEF TypeOK, WokenUp
  <2>2. ASSUME at' = [at EXCEPT ![q] = IF at[q] = "waiting" THEN "created" ELSE "asking"],
               follows' = [follows EXCEPT ![q] = "none"], answer' = answer
        PROVE  WokenUp(q)
    BY <1>1, <1>2, <2>2 DEF TypeOK, InTask, WokenUp
  <2>3. follows[q] \in Requests
    BY <1>1, <1>2 DEF TypeOK
  <2>4. answer[follows[q]] \in Answers
    BY <1>1, <2>3 DEF TypeOK
  <2> QED  BY <1>1, <2>1, <2>2, <2>4, WokenTypes
<1>4. TypeOK'
  BY <1>1, <1>2, <1>3 DEF TypeOK, rows, producers, shutdown, WokenUp
<1>5. \A p \in Requests : at'[p] \in InBootstrap <=> at[p] \in InBootstrap
  BY <1>2, <1>3 DEF InBootstrap, WokenUp
<1>6. SettledIsFinal'
  BY <1>1, <1>2 DEF SettledIsFinal, rows
<1> QED  BY <1>2, <1>4, <1>5, <1>6, QuietCore, QuietHeld DEF rows, producers

LEMMA FinishTaskKeeps ==
  ASSUME Core, NobodyLost, NEW r \in Runs, NEW by \in FinishedBy, FinishTask(by, r)
  PROVE  Core' /\ NobodyLost'
<1>1. TypeOK /\ SettledIsFinal
  BY DEF Core
<1>2. /\ Finish(r) /\ finishing' \subseteq finishing
      /\ unscheduled' \in {unscheduled, unscheduled \ {r}}
      /\ (unscheduled' # unscheduled => row'[r] = "final")
      /\ UNCHANGED <<fingerprint, at, follows, failure, cancelled, answer, producers, shutdown>>
  BY DEF FinishTask
<1>3. /\ row' \in [Runs -> {"absent", "active", "final"}] /\ settled' \subseteq Runs /\ faults' \in Nat
      /\ \A s \in Runs : row'[s] = row[s] \/ (s = r /\ row'[s] = "final")
      /\ SettledIsFinal'
  BY <1>1, <1>2, FinishTypes
<1>4. TypeOK'
  BY <1>1, <1>2, <1>3 DEF TypeOK, producers, shutdown
<1>5. \A s \in unscheduled \cup unfinished : row'[s] = "active" => s \in unscheduled' \cup unfinished'
  BY <1>2 DEF producers
<1> QED  BY <1>2, <1>3, <1>4, <1>5, QuietCore, QuietHeld DEF producers

-----------------------------------------------------------------------------
(* ProducerRegistry and the producers *)

\* Tasks that have ended go, and the runs they left over go onto the list.
LEMMA DoneKeeps ==
  ASSUME Core, NobodyLost, NEW S, S \subseteq {r \in Runs : producer[r] = "exited"}, Done(S),
         UNCHANGED <<rows, starts, killed, continuation, launched, faults>>,
         phase' \in Phases, tracked' = tracked
  PROVE  Core' /\ NobodyLost'
<1>1. TypeOK /\ SettledIsFinal
  BY DEF Core
<1>2. /\ producer' = [r \in Runs |-> IF r \in S THEN "none" ELSE producer[r]]
      /\ unfinished' = unfinished \cup (S \ settled)
      /\ terminalizer' = [r \in Runs |-> IF r \in S \ settled THEN "scheduled" ELSE terminalizer[r]]
  BY DEF Done, LeftOver, Scheduled
<1>3. TypeOK'
  <2>1. /\ producer' \in [Runs -> {"none", "new", "running", "continuing", "exited"}]
        /\ unfinished' \subseteq Runs /\ terminalizer' \in [Runs -> {"none", "scheduled", "done"}]
    BY <1>1, <1>2 DEF TypeOK
  <2> QED  BY <1>1, <2>1 DEF TypeOK, rows, starts
<1>4. Core'
  BY <1>1, <1>2, <1>3, QuietCore DEF SettledIsFinal, rows, starts, TypeOK
<1>5. NobodyLost'
  <2> SUFFICES ASSUME NoFaultyContinuation, NEW r \in Runs, row'[r] = "active" PROVE Held(r)'
    BY DEF NobodyLost
  <2>1. Held(r) /\ row[r] = "active"
    BY DEF NobodyLost, rows
  <2>2. CASE r \in S
    BY <1>1, <1>2, <2>1, <2>2 DEF Held, SettledIsFinal
  <2>3. CASE r \notin S
    <3>1. \A p \in Runs : producer[p] = "continuing" => producer'[p] = "continuing"
      BY <1>2
    <3> QED  BY <1>2, <2>1, <2>3, <3>1 DEF Held, starts
  <2> QED  BY <2>2, <2>3
<1> QED  BY <1>4, <1>5

LEMMA ProducerKeeps ==
  ASSUME Core, NobodyLost, NEW r \in Runs, Producer(r)
  PROVE  Core' /\ NobodyLost'
<1>1. TypeOK /\ SettledIsFinal
  BY DEF Core
<1>2. ASSUME row' \in [Runs -> {"absent", "active", "final"}], settled' \subseteq Runs, faults' \in Nat,
             \A s \in Runs : row'[s] = row[s] \/ row'[s] = "final", SettledIsFinal',
             producer[r] \in {"new", "running", "continuing"},
             producer' \in {[producer EXCEPT ![r] = "running"], [producer EXCEPT ![r] = "exited"]},
             continuation' \in {continuation, [continuation EXCEPT ![r] = "none"]},
             NoFaultyContinuation /\ producer[r] = "continuing" => row'[continuation[r]] = "final",
             UNCHANGED <<fingerprint, starts, killed, unfinished, terminalizer, launched, shutdown>>
      PROVE  Core' /\ NobodyLost'
  <2>1. /\ \A s \in Runs : s # r => producer'[s] = producer[s] /\ continuation'[s] = continuation[s]
        /\ producer'[r] \in {"running", "exited"}
    BY <1>1, <1>2 DEF TypeOK
  <2>2. TypeOK'
    <3>1. /\ producer' \in [Runs -> {"none", "new", "running", "continuing", "exited"}]
          /\ continuation' \in [Runs -> Runs \cup {"none"}]
      BY <1>1, <1>2 DEF TypeOK
    <3> QED  BY <1>1, <1>2, <3>1 DEF TypeOK, starts, shutdown
  <2>3. Core'
    BY <1>2, <2>1, <2>2, QuietCore DEF starts
  <2>4. NobodyLost'
    <3> SUFFICES ASSUME NoFaultyContinuation, NEW s \in Runs, row'[s] = "active" PROVE Held(s)'
      BY DEF NobodyLost
    <3>1. Held(s)
      BY <1>2 DEF NobodyLost
    <3>2. \A p \in Runs : producer[p] = "continuing" /\ continuation[p] = s =>
              producer'[p] = "continuing" /\ continuation'[p] = s
      BY <1>2, <2>1
    <3> QED  BY <1>2, <2>1, <3>1, <3>2 DEF Held, starts
  <2> QED  BY <2>3, <2>4
<1>3. CASE ProducerRuns(r)
  BY <1>1, <1>2, <1>3 DEF ProducerRuns, rows, TypeOK, SettledIsFinal
<1>4. CASE ProducerExits(r)
  <2>1. /\ row' \in [Runs -> {"absent", "active", "final"}] /\ settled' \subseteq Runs /\ faults' \in Nat
        /\ \A s \in Runs : row'[s] = row[s] \/ row'[s] = "final"
        /\ SettledIsFinal'
    BY <1>1, <1>4, FinishTypes DEF ProducerExits, TypeOK, SettledIsFinal
  <2> QED  BY <1>2, <1>4, <2>1 DEF ProducerExits
<1>5. CASE ContinuationExits(r)
  <2>1. Continues /\ continuation[r] \in Runs /\ Finish(continuation[r])
    BY <1>5 DEF ContinuationExits, Core, Continuing
  <2>2. /\ row' \in [Runs -> {"absent", "active", "final"}] /\ settled' \subseteq Runs /\ faults' \in Nat
        /\ \A s \in Runs : row'[s] = row[s] \/ row'[s] = "final"
        /\ SettledIsFinal' /\ (NoFaultyContinuation => row'[continuation[r]] = "final")
    BY <1>1, <2>1, FinishTypes DEF NoFaultyContinuation
  <2> QED  BY <1>2, <1>5, <2>2 DEF ContinuationExits
<1>6. CASE ProducerDone(r)
  <2>1. {r} \subseteq {s \in Runs : producer[s] = "exited"}
    BY <1>6 DEF ProducerDone
  <2> QED  BY <1>1, <1>6, <2>1, DoneKeeps DEF ProducerDone, shutdown, TypeOK
<1>7. CASE TerminalizerRuns(r)
  <2>1. /\ row' \in [Runs -> {"absent", "active", "final"}] /\ settled' \subseteq Runs /\ faults' \in Nat
        /\ \A s \in Runs : row'[s] = row[s] \/ row'[s] = "final"
        /\ SettledIsFinal'
    BY <1>1, <1>7, FinishTypes DEF TerminalizerRuns
  <2>2. TypeOK'
    BY <1>1, <1>7, <2>1 DEF TerminalizerRuns, TypeOK, starts, shutdown
  <2> QED  BY <1>7, <2>1, <2>2, QuietCore, QuietHeld DEF TerminalizerRuns, starts
<1>8. CASE TerminalizerDone(r)
  <2>1. /\ unfinished' \subseteq unfinished
        /\ \A s \in Runs : s \in unfinished /\ row[s] = "active" => s \in unfinished'
    BY <1>8 DEF TerminalizerDone, StillUnfinished, Final
  <2>2. TypeOK'
    BY <1>1, <1>8, <2>1 DEF TerminalizerDone, TypeOK, rows, starts, shutdown
  <2>3. SettledIsFinal'
    BY <1>1, <1>8 DEF TerminalizerDone, rows, SettledIsFinal
  <2>4. \A s \in unscheduled \cup unfinished : row'[s] = "active" => s \in unscheduled' \cup unfinished'
    BY <1>1, <1>8, <2>1 DEF TerminalizerDone, rows, starts, TypeOK
  <2> QED  BY <1>8, <2>1, <2>2, <2>3, <2>4, QuietCore, QuietHeld DEF TerminalizerDone, rows, starts
<1> QED  BY <1>3, <1>4, <1>5, <1>6, <1>7, <1>8 DEF Producer

LEMMA SpawnKeeps ==
  ASSUME Core, NobodyLost, NEW p \in Runs, NEW r \in OtherRuns, Spawn(p, r)
  PROVE  Core' /\ NobodyLost'
<1>1. TypeOK /\ SettledIsFinal /\ r \in Runs
  BY DEF Core, Runs
<1>2. /\ row[r] = "absent" /\ row' = [row EXCEPT ![r] = "active"]
      /\ UNCHANGED <<settled, fingerprint, starts, killed, continuation, shutdown, faults>>
  BY DEF Spawn
<1>3. launched[r] = 0 /\ producer[r] = "none" /\ r \notin settled
  BY <1>1, <1>2 DEF Core, Launching, SettledIsFinal
<1>4. \A s \in Runs : /\ row'[s] = IF s = r THEN "active" ELSE row[s]
                      /\ s # r => producer'[s] = producer[s] /\ launched'[s] = launched[s]
  BY <1>1, <1>2 DEF Spawn, TypeOK
<1>5. \/ r \in unfinished' /\ producer'[r] = "none" /\ launched'[r] = 0
      \/ producer'[r] = "new" /\ launched'[r] = 1
  BY <1>1, <1>3 DEF Spawn, TypeOK
<1>6. TypeOK'
  <2>1. row' \in [Runs -> {"absent", "active", "final"}]
    BY <1>1, <1>2 DEF TypeOK
  <2>2. /\ producer' \in [Runs -> {"none", "new", "running", "continuing", "exited"}]
        /\ launched' \in [Runs -> Nat] /\ unfinished' \subseteq Runs
        /\ terminalizer' \in [Runs -> {"none", "scheduled", "done"}]
    BY <1>1 DEF Spawn, Scheduled, TypeOK
  <2> QED  BY <1>1, <1>2, <2>1, <2>2 DEF TypeOK, starts, shutdown
<1>7. OneOwner'
  <2>1. \A q \in Requests : KeyOf[q] \in Runs /\ KeyOf[q] # r
    BY DEF Runs
  <2> QED  BY <1>2, <1>4, <2>1 DEF Core, OneOwner, starts
<1>8. Launching' /\ Continuing' /\ SettledIsFinal'
  BY <1>2, <1>3, <1>4, <1>5 DEF Core, Launching, Continuing, SettledIsFinal, TypeOK
<1>9. NobodyLost'
  <2> SUFFICES ASSUME NoFaultyContinuation, NEW s \in Runs, row'[s] = "active" PROVE Held(s)'
    BY DEF NobodyLost
  <2>1. CASE s = r
    BY <1>5, <2>1 DEF Held
  <2>2. CASE s # r
    <3>1. Held(s)
      BY <1>4, <2>2 DEF NobodyLost
    <3>2. unfinished \subseteq unfinished'
      BY DEF Spawn
    <3> QED  BY <1>2, <1>3, <1>4, <2>2, <3>1, <3>2 DEF Held, starts
  <2> QED  BY <2>1, <2>2
<1> QED  BY <1>6, <1>7, <1>8, <1>9 DEF Core

LEMMA ContinuesKeeps ==
  ASSUME Core, NobodyLost, NEW r \in Runs, NEW c \in OtherRuns, ProducerContinues(r, c)
  PROVE  Core' /\ NobodyLost'
<1>1. TypeOK /\ SettledIsFinal /\ c \in Runs
  BY DEF Core, Runs
<1>2. /\ Continues /\ producer[r] = "running" /\ row[c] = "absent"
      /\ row' = [row EXCEPT ![r] = "final", ![c] = "active"] /\ settled' = settled \cup {r}
      /\ producer' = [producer EXCEPT ![r] = "continuing"]
      /\ continuation' = [continuation EXCEPT ![r] = c]
      /\ UNCHANGED <<fingerprint, starts, killed, unfinished, terminalizer, launched, shutdown, faults>>
  BY DEF ProducerContinues
<1>3. c # r /\ c \notin settled /\ producer[c] = "none" /\ launched[c] = 0
  BY <1>1, <1>2 DEF Core, Launching, SettledIsFinal
<1>4. /\ row'[c] = "active" /\ row'[r] = "final"
      /\ producer'[r] = "continuing" /\ continuation'[r] = c
      /\ \A s \in Runs : s # r => producer'[s] = producer[s] /\ continuation'[s] = continuation[s]
      /\ \A s \in Runs \ {r, c} : row'[s] = row[s]
  BY <1>1, <1>2, <1>3 DEF TypeOK
<1>5. TypeOK'
  <2>1. row' \in [Runs -> {"absent", "active", "final"}] /\ continuation' \in [Runs -> Runs \cup {"none"}]
        /\ producer' \in [Runs -> {"none", "new", "running", "continuing", "exited"}]
    BY <1>1, <1>2 DEF TypeOK
  <2> QED  BY <1>1, <1>2, <2>1 DEF TypeOK, starts, shutdown
<1>6. OneOwner'
  <2>1. \A q \in Requests : KeyOf[q] \in Runs /\ KeyOf[q] # c
    BY DEF Runs
  <2> QED  BY <1>2, <1>4, <2>1 DEF Core, OneOwner, starts
<1>7. Launching' /\ Continuing' /\ SettledIsFinal'
  <2>1. Launching'
    BY <1>2, <1>3, <1>4 DEF Core, Launching
  <2>2. Continuing'
    BY <1>1, <1>2, <1>4 DEF Core, Continuing
  <2>3. SettledIsFinal'
    BY <1>1, <1>2, <1>3, <1>4 DEF Core, SettledIsFinal, TypeOK
  <2> QED  BY <2>1, <2>2, <2>3
<1>8. NobodyLost'
  <2> SUFFICES ASSUME NoFaultyContinuation, NEW s \in Runs, row'[s] = "active" PROVE Held(s)'
    BY DEF NobodyLost
  <2>1. CASE s = c
    BY <1>4, <2>1 DEF Held
  <2>2. CASE s # c
    <3>1. s # r /\ Held(s)
      BY <1>4, <2>2 DEF NobodyLost
    <3> QED  BY <1>2, <1>4, <3>1 DEF Held, starts
  <2> QED  BY <2>1, <2>2
<1> QED  BY <1>5, <1>6, <1>7, <1>8 DEF Core

LEMMA CancelKeeps ==
  ASSUME Core, NobodyLost, NEW r \in Runs, Cancel(r)
  PROVE  Core' /\ NobodyLost'
<1>1. TypeOK' /\ SettledIsFinal'
  BY DEF Core, Cancel, TypeOK, SettledIsFinal, rows, starts, shutdown
<1> QED  BY <1>1, QuietCore, QuietHeld DEF Cancel, rows, starts, Core, TypeOK

-----------------------------------------------------------------------------
(* Shutdown *)

LEMMA ShutdownKeeps ==
  ASSUME Core, NobodyLost, Shutdown
  PROVE  Core' /\ NobodyLost'
<1>1. TypeOK /\ SettledIsFinal
  BY DEF Core
<1>2. CASE CloseStarts
  <2>1. TypeOK' /\ SettledIsFinal'
    BY <1>1, <1>2 DEF CloseStarts, TypeOK, SettledIsFinal, Phases, rows, producers
  <2> QED  BY <1>2, <2>1, QuietCore, QuietHeld DEF CloseStarts, rows, producers
<1>3. CASE RetryStarts
  <2>1. TypeOK' /\ SettledIsFinal'
    BY <1>1, <1>3 DEF RetryStarts, TypeOK, SettledIsFinal, Phases, FinishedBy, rows, producers
  <2> QED  BY <1>3, <2>1, QuietCore, QuietHeld DEF RetryStarts, rows, producers
<1>4. CASE StartsClosed
  <2>1. TypeOK' /\ SettledIsFinal'
    BY <1>1, <1>4 DEF StartsClosed, NextPhase, TypeOK, SettledIsFinal, Phases, rows
  <2>2. \A s \in unscheduled \cup unfinished : row'[s] = "active" => s \in unscheduled' \cup unfinished'
    BY <1>1, <1>4 DEF StartsClosed, Final, TypeOK, rows
  <2> QED  BY <1>4, <2>1, <2>2, QuietCore, QuietHeld DEF StartsClosed, rows
<1>5. CASE CommandsClosed
  <2>1. TypeOK' /\ SettledIsFinal'
    BY <1>1, <1>5 DEF CommandsClosed, TypeOK, SettledIsFinal, Phases, rows, starts
  <2> QED  BY <1>5, <2>1, QuietCore, QuietHeld DEF CommandsClosed, rows, starts
<1>6. CASE ProducersDrained
  BY <1>1, <1>6, DoneKeeps DEF ProducersDrained, Phases
<1>7. CASE RetryProducers
  <2>1. TypeOK' /\ SettledIsFinal'
    BY <1>1, <1>7 DEF RetryProducers, Scheduled, TypeOK, SettledIsFinal, Phases, rows, starts
  <2>2. \A s \in unscheduled \cup unfinished : row'[s] = "active" => s \in unscheduled' \cup unfinished'
    BY <1>1, <1>7 DEF RetryProducers, Final, TypeOK, rows, starts
  <2> QED  BY <1>7, <2>1, <2>2, QuietCore, QuietHeld DEF RetryProducers, rows, starts
<1>8. CASE ProducersClosed
  <2>1. TypeOK' /\ SettledIsFinal'
    BY <1>1, <1>8 DEF ProducersClosed, NextPhase, TypeOK, SettledIsFinal, Phases, rows, starts
  <2>2. \A s \in unscheduled \cup unfinished : row'[s] = "active" => s \in unscheduled' \cup unfinished'
    BY <1>1, <1>8 DEF ProducersClosed, Final, TypeOK, rows, starts
  <2> QED  BY <1>8, <2>1, <2>2, QuietCore, QuietHeld DEF ProducersClosed, rows, starts
<1> QED  BY <1>2, <1>3, <1>4, <1>5, <1>6, <1>7, <1>8 DEF Shutdown

LEMMA NextKeeps ==
  ASSUME Core, NobodyLost, [Next]_vars
  PROVE  Core' /\ NobodyLost'
<1>1. CASE Next
  <2>1. ASSUME NEW q \in Requests, Start(q) \/ ReplayExisting(q) \/ Request(q) PROVE Core' /\ NobodyLost'
    BY <2>1, StartKeeps, RunStartKeeps, BootstrapKeeps, TerminalizedKeeps, WokenKeeps DEF Request
  <2>2. ASSUME NEW r \in Runs, Producer(r) \/ Cancel(r) PROVE Core' /\ NobodyLost'
    BY <2>2, ProducerKeeps, CancelKeeps
  <2>3. ASSUME NEW r \in Runs, NEW by \in FinishedBy, FinishTask(by, r) PROVE Core' /\ NobodyLost'
    BY <2>3, FinishTaskKeeps
  <2>4. ASSUME NEW r \in Runs, NEW c \in OtherRuns, ProducerContinues(r, c) \/ Spawn(r, c)
        PROVE Core' /\ NobodyLost'
    BY <2>4, ContinuesKeeps, SpawnKeeps
  <2> QED  BY <1>1, <2>1, <2>2, <2>3, <2>4, ShutdownKeeps DEF Next
<1>2. CASE UNCHANGED vars
  <2>1. TypeOK' /\ SettledIsFinal'
    BY <1>2 DEF Core, vars, rows, starts, producers, shutdown, TypeOK, SettledIsFinal
  <2> QED  BY <1>2, <2>1, QuietCore, QuietHeld DEF vars, rows, starts, producers
<1> QED  BY <1>1, <1>2

LEMMA InitCore == Init => Core /\ NobodyLost
<1> SUFFICES ASSUME Init PROVE Core /\ NobodyLost
  OBVIOUS
<1>1. TypeOK
  BY DEF Init, TypeOK, Answers, Phases
<1> QED  BY <1>1 DEF Init, Core, SettledIsFinal, OneOwner, Launching, Continuing, NobodyLost, InBootstrap

-----------------------------------------------------------------------------
(* What the phases of the shutdown know *)

StartsDone == phase \in {"commands_closing", "producers_draining", "terminalizers_draining", "producers_retrying"}

Closing ==
    /\ phase \in {"starts_draining", "starts_retrying"} =>
           \A q \in Requests : at[q] \in InTask => q \in tracked
    /\ StartsDone => unscheduled = {} /\ \A q \in Requests : at[q] \notin InTask
    /\ phase \in {"producers_draining", "terminalizers_draining", "producers_retrying"} =>
           \A r \in Runs : producer[r] # "none" => r \in tracked
    /\ NoFaultyContinuation => CleanShutdown

\* No new tasks and no new producers once the shutdown has begun
LEMMA QuietClosing ==
  ASSUME Closing, Alive, UNCHANGED shutdown,
         StartsClosing => \A q \in Requests : at'[q] \in InTask => at[q] \in InTask,
         StartsDone => unscheduled' \subseteq unscheduled,
         ProducersClosing => \A r \in Runs : producer'[r] # "none" => producer[r] # "none"
  PROVE  Closing'
  BY DEF Closing, StartsDone, Alive, StartsClosing, ProducersClosing, shutdown, CleanShutdown

LEMMA RequestsQuiet ==
  ASSUME Core, Closing, Alive, NEW q \in Requests, Start(q) \/ ReplayExisting(q) \/ Request(q)
  PROVE  Closing'
<1>1. TypeOK
  BY DEF Core
<1>2. CASE Start(q) \/ ReplayExisting(q)
  <2>1. StartsClosing => \A p \in Requests : at'[p] \in InTask => at[p] \in InTask
    BY <1>1, <1>2 DEF Start, ReplayExisting, Answered, TypeOK, InTask, InBootstrap
  <2>2. StartsDone => unscheduled' = unscheduled
    BY <1>2 DEF Start, ReplayExisting, StartsDone, StartsClosing, rows
  <2> QED  BY <1>2, <2>1, <2>2, QuietClosing DEF Start, ReplayExisting, producers
<1>3. CASE Request(q)
  <2>1. at[q] \in InTask \/ at[q] = "asking"
    BY <1>3 DEF Request, RunStart, ReservationInterrupted, Bootstrapped, Terminalized, Woken, InTask, InBootstrap
  <2>2. at[q] \in InTask \/ (Woken(q) /\ at[q] = "asking")
    BY <1>3, <2>1 DEF Request, RunStart, ReservationInterrupted, Bootstrapped, Terminalized, InTask, InBootstrap
  <2>3. \A p \in Requests : p # q => at'[p] = at[p]
    <3>1. at' = at \/ \E place : at' = [at EXCEPT ![q] = place]
      BY <1>3 DEF Request, RunStart, StartOnce, Reserve, ExistingAnswered, Waits, ReservationInterrupted,
                  Bootstrapped, Terminalizing, Terminalized, Woken, Answered
    <3> QED  BY <1>1, <3>1 DEF TypeOK
  <2>4. CASE Woken(q) /\ at[q] = "asking"
    <3>1. at'[q] \notin InTask
      BY <1>1, <2>4 DEF Woken, Answered, TypeOK, InTask, InBootstrap
    <3> QED  BY <2>3, <2>4, <3>1, QuietClosing DEF Woken, producers
  <2>5. CASE at[q] \in InTask
    <3>1. ~StartsDone
      BY <2>5 DEF Closing
    <3>2. UNCHANGED shutdown /\ (ProducersClosing => producer' = producer)
      BY <1>3 DEF Request, RunStart, ReservationInterrupted, Bootstrapped, Terminalized, Woken, producers
    <3> QED  BY <2>3, <2>5, <3>1, <3>2, QuietClosing
  <2> QED  BY <2>2, <2>4, <2>5
<1> QED  BY <1>2, <1>3

LEMMA ProducersQuiet ==
  ASSUME Core, Closing, Alive, NEW r \in Runs,
         \/ Producer(r) \/ Cancel(r)
         \/ \E by \in FinishedBy : FinishTask(by, r)
         \/ \E c \in OtherRuns : ProducerContinues(r, c) \/ Spawn(r, c)
  PROVE  Closing'
<1>1. TypeOK
  BY DEF Core
<1>2. CASE Producer(r) \/ Cancel(r)
  <2>1. UNCHANGED <<starts, shutdown>>
    BY <1>2 DEF Producer, ProducerRuns, ProducerExits, ContinuationExits, ProducerDone, TerminalizerRuns,
                TerminalizerDone, Cancel
  <2>2. \A s \in Runs : producer'[s] # "none" => producer[s] # "none"
    BY <1>1, <1>2 DEF Producer, ProducerRuns, ProducerExits, ContinuationExits, ProducerDone, Done,
                TerminalizerRuns, TerminalizerDone, Cancel, TypeOK
  <2> QED  BY <2>1, <2>2, QuietClosing DEF starts
<1>3. ASSUME NEW by \in FinishedBy, FinishTask(by, r) PROVE Closing'
  BY <1>3, QuietClosing DEF FinishTask, producers
<1>4. ASSUME NEW c \in OtherRuns, ProducerContinues(r, c) \/ Spawn(r, c) PROVE Closing'
  <2>1. UNCHANGED <<starts, shutdown>>
    BY <1>4 DEF ProducerContinues, Spawn
  <2>2. ProducersClosing => \A s \in Runs : producer'[s] # "none" => producer[s] # "none"
    BY <1>1, <1>4 DEF ProducerContinues, Spawn, TypeOK
  <2> QED  BY <2>1, <2>2, QuietClosing DEF starts
<1> QED  BY <1>2, <1>3, <1>4

LEMMA ShutdownClosing ==
  ASSUME Core, NobodyLost, Closing, Shutdown
  PROVE  Closing'
<1>1. TypeOK
  BY DEF Core
<1>2. CASE CloseStarts
  <2>1. phase' = "starts_draining" /\ at' = at /\ tracked' = {q \in Requests : at[q] \in InTask}
    BY <1>2 DEF CloseStarts
  <2> QED  BY <2>1 DEF Closing, StartsDone, CleanShutdown
<1>3. CASE RetryStarts
  <2>1. phase = "starts_draining" /\ phase' = "starts_retrying" /\ UNCHANGED <<at, tracked>>
    BY <1>3 DEF RetryStarts
  <2> QED  BY <2>1 DEF Closing, StartsDone, CleanShutdown
<1>4. CASE StartsClosed
  <2>1. phase = "starts_retrying" /\ at' = at /\ unscheduled' = {r \in unscheduled : ~Final(r)}
    BY <1>4 DEF StartsClosed
  <2>2. CASE UnresolvedStarts = {}
    <3>1. phase' = "commands_closing"
      BY <1>4, <2>2 DEF StartsClosed, NextPhase
    <3>2. unscheduled' = {}
      BY <2>1, <2>2 DEF UnresolvedStarts
    <3>3. \A q \in Requests : at[q] \notin InTask
      BY <2>1, <2>2 DEF Closing, UnresolvedStarts, InTask, InBootstrap
    <3> QED  BY <2>1, <3>1, <3>2, <3>3 DEF Closing, StartsDone, CleanShutdown
  <2>3. CASE UnresolvedStarts # {}
    <3>1. phase' = "incomplete"
      BY <1>4, <2>3 DEF StartsClosed, NextPhase
    <3> QED  BY <3>1 DEF Closing, StartsDone, CleanShutdown
  <2> QED  BY <2>2, <2>3
<1>5. CASE CommandsClosed
  <2>1. /\ phase = "commands_closing" /\ phase' \in {"producers_draining", "incomplete"}
        /\ tracked' = {r \in Runs : producer[r] # "none"} /\ UNCHANGED <<at, unscheduled, producer>>
    BY <1>5 DEF CommandsClosed, starts
  <2> QED  BY <2>1 DEF Closing, StartsDone, CleanShutdown
<1>6. CASE ProducersDrained
  <2>1. /\ phase = "producers_draining" /\ phase' = "terminalizers_draining"
        /\ UNCHANGED <<at, unscheduled, tracked>>
    BY <1>6 DEF ProducersDrained, starts
  <2>2. \A r \in Runs : producer'[r] # "none" => producer[r] # "none"
    BY <1>6 DEF ProducersDrained, Done
  <2> QED  BY <2>1, <2>2 DEF Closing, StartsDone, CleanShutdown
<1>7. CASE RetryProducers
  <2>1. /\ phase = "terminalizers_draining" /\ phase' = "producers_retrying"
        /\ UNCHANGED <<at, unscheduled, tracked, producer>>
    BY <1>7 DEF RetryProducers, starts
  <2> QED  BY <2>1 DEF Closing, StartsDone, CleanShutdown
<1>8. CASE ProducersClosed
  <2>1. phase = "producers_retrying" /\ UNCHANGED <<row, producer>>
    BY <1>8 DEF ProducersClosed, rows
  <2>2. CASE UnresolvedProducers = {}
    <3>1. phase' = "closed"
      BY <1>8, <2>2 DEF ProducersClosed, NextPhase
    <3>2. \A r \in Runs : ~Live(r)
      BY <2>2 DEF UnresolvedProducers
    <3>3. ASSUME NoFaultyContinuation, NEW r \in Runs, row[r] = "active" PROVE FALSE
      <4>1. Held(r) /\ ~Final(r)
        BY <3>3 DEF NobodyLost, Final
      <4>2. unscheduled = {} /\ \A q \in Requests : at[q] \notin InBootstrap
        BY <2>1 DEF Closing, StartsDone, InTask
      <4>3. r \notin unfinished /\ r \notin tracked
        BY <2>2, <4>1 DEF UnresolvedProducers
      <4>4. producer[r] = "none"
        BY <2>1, <4>3 DEF Closing
      <4>5. \A p \in Runs : producer[p] # "continuing"
        BY <3>2 DEF Live
      <4> QED  BY <4>1, <4>2, <4>3, <4>4, <4>5 DEF Held
    <3>4. NoFaultyContinuation => CleanShutdown'
      BY <2>1, <3>2, <3>3 DEF CleanShutdown, Live
    <3> QED  BY <3>1, <3>4 DEF Closing, StartsDone
  <2>3. CASE UnresolvedProducers # {}
    <3>1. phase' = "incomplete"
      BY <1>8, <2>3 DEF ProducersClosed, NextPhase
    <3> QED  BY <3>1 DEF Closing, StartsDone, CleanShutdown
  <2> QED  BY <2>2, <2>3
<1> QED  BY <1>2, <1>3, <1>4, <1>5, <1>6, <1>7, <1>8 DEF Shutdown

LEMMA Invariance == Spec => [](Core /\ NobodyLost /\ Closing)
<1>1. Init => Core /\ NobodyLost /\ Closing
  <2>1. Init => Closing
    BY DEF Init, Closing, StartsDone, CleanShutdown
  <2> QED  BY <2>1, InitCore
<1>2. Core /\ NobodyLost /\ Closing /\ [Next]_vars => (Core /\ NobodyLost /\ Closing)'
  <2> SUFFICES ASSUME Core, NobodyLost, Closing, [Next]_vars PROVE Closing'
    BY NextKeeps
  <2>1. CASE Next
    <3>1. Alive
      BY <2>1 DEF Next
    <3>2. ASSUME NEW q \in Requests, Start(q) \/ ReplayExisting(q) \/ Request(q) PROVE Closing'
      BY <3>1, <3>2, RequestsQuiet
    <3>3. ASSUME NEW r \in Runs,
                 \/ Producer(r) \/ Cancel(r)
                 \/ \E by \in FinishedBy : FinishTask(by, r)
                 \/ \E c \in OtherRuns : ProducerContinues(r, c) \/ Spawn(r, c)
          PROVE Closing'
      BY <3>1, <3>3, ProducersQuiet
    <3> QED  BY <2>1, <3>2, <3>3, ShutdownClosing DEF Next
  <2>2. CASE UNCHANGED vars
    BY <2>2 DEF vars, rows, starts, producers, shutdown, Closing, StartsDone, CleanShutdown, Live
  <2> QED  BY <2>1, <2>2
<1> QED  BY <1>1, <1>2, PTL DEF Spec

-----------------------------------------------------------------------------
(* Theorems *)

\* The state of the coordinator (start_service.py), the registry
\* (producer_registry.py), the rows and the shutdown keep their types.
THEOREM TypeCorrect == Spec => []TypeOK
<1>1. Core => TypeOK
  BY DEF Core
<1> QED  BY <1>1, Invariance, PTL

\* start_once never hands the run of a key to the registry twice, however many
\* requests ask for it, fail, are cancelled or begin again.
THEOREM OneProducerPerRun == Spec => []OneProducer
<1>1. Core => OneProducer
  BY DEF Core, Launching, OneProducer
<1> QED  BY <1>1, Invariance, PTL

\* No interleaving of starts, cancellations, I/O errors and the shutdown leaves
\* an active run that nobody will finish (_bootstrap_owner, _producer_done and
\* the two _pending_terminalizations).
THEOREM NothingOrphaned ==
  ASSUME NoFaultyContinuation
  PROVE  Spec => []NoOrphan
<1>1. NobodyLost => NoOrphan
  BY DEF NobodyLost, NoOrphan, Held, Owned, Owners
<1> QED  BY <1>1, Invariance, PTL

\* When _close_server_resources gets to its end every run is final and every
\* producer is gone, so that the home directory may be given back (main.py).
THEOREM ShutdownIsClean ==
  ASSUME NoFaultyContinuation
  PROVE  Spec => []CleanShutdown
<1>1. Closing => CleanShutdown
  BY DEF Closing
<1> QED  BY <1>1, Invariance, PTL
-----------------------------------------------------------------------------
(* What a start has been answered *)

\* Somebody finishes the run of a key or has been handed it
Reliable(r) == row[r] = "final" \/ launched[r] > 0

\* The run of a key that is not final has a producer, an owner, or an entry of
\* the list of the coordinator: who finds no barrier and no entry may rely on it.
Relied ==
    \A r \in KeyRuns : row[r] = "active" =>
        \/ launched[r] > 0
        \/ r \in unscheduled
        \/ \E q \in Requests : KeyOf[q] = r /\ at[q] \in InBootstrap

AnsweredRuns == \A q \in Requests : answer[q] = "run" => Reliable(KeyOf[q])

\* Who is followed has reserved the run of the key and does not say that it has not.
Followed ==
    \A q \in Requests : follows[q] # "none" =>
        /\ at[follows[q]] \in InBootstrap \cup {"done"}
        /\ answer[follows[q]] # "reservation_error"
        /\ KeyOf[follows[q]] = KeyOf[q]

Failing ==
    \A q \in Requests : /\ at[q] = "terminalizing" => failure[q] \in {"cancelled", "scheduling_error"}
                        /\ at[q] # "done" => answer[q] = "none"

\* A request whose task has not looked for a barrier follows nobody.
Beginning == \A q \in Requests : at[q] \in {"none", "created"} => follows[q] = "none"

Truthful == Relied /\ AnsweredRuns /\ Followed /\ Failing /\ Beginning

\* The answer that q gets in a step
TrueAnswer(q) ==
    answer[q] = "none" =>
        /\ answer'[q] = "run" => row'[KeyOf[q]] = "final" \/ launched'[KeyOf[q]] > 0
        /\ answer'[q] = "reservation_error" => row'[KeyOf[q]] = "absent" \/ Unadmitted(q)

\* A step that does not touch the requests
LEMMA QuietTruth ==
  ASSUME Core, Truthful, Core',
         \A r \in KeyRuns : row'[r] = row[r] \/ row'[r] = "final",
         \A r \in Runs : launched[r] > 0 => launched'[r] > 0,
         \A r \in unscheduled : row'[r] = "active" => r \in unscheduled',
         UNCHANGED <<at, follows, failure, answer>>
  PROVE  Truthful' /\ \A q \in Requests : TrueAnswer(q)
<1>1. \A q \in Requests : KeyOf[q] \in KeyRuns /\ KeyOf[q] \in Runs
  BY DEF Runs
<1>2. Relied'
  BY DEF Truthful, Relied, Runs
<1>3. \A r \in KeyRuns : Reliable(r) => Reliable(r)'
  BY DEF Reliable, Runs
<1>4. AnsweredRuns'
  BY <1>1, <1>3 DEF Truthful, AnsweredRuns
<1>5. Followed' /\ Failing' /\ Beginning'
  BY DEF Truthful, Followed, Failing, Beginning
<1>6. \A q \in Requests : TrueAnswer(q)
  BY DEF TrueAnswer
<1> QED  BY <1>2, <1>4, <1>5, <1>6 DEF Truthful

\* What a step of the request q does to the answers
OwnStep(q) ==
    /\ \A p \in Requests \ {q} : /\ at'[p] = at[p] /\ follows'[p] = follows[p]
                                 /\ failure'[p] = failure[p] /\ answer'[p] = answer[p]
    /\ \A r \in KeyRuns : \/ row'[r] = row[r] \/ row'[r] = "final"
                          \/ row[r] = "absent" /\ r = KeyOf[q] /\ at'[q] \in InBootstrap
    /\ \A r \in Runs : launched[r] > 0 => launched'[r] > 0
    /\ \A r \in unscheduled : row'[r] = "active" => r \in unscheduled'
    /\ at[q] # "done"
    /\ at[q] \in InBootstrap =>
           /\ at'[q] \in InBootstrap \/ KeyOf[q] \in unscheduled' \/ Reliable(KeyOf[q])'
           /\ at'[q] \in InBootstrap \cup {"done"} /\ answer'[q] # "reservation_error"
    /\ follows'[q] # "none" => \/ follows'[q] = follows[q]
                               \/ follows'[q] \in Owners(KeyOf[q]) \ {q}
    /\ at'[q] \in {"none", "created"} => follows'[q] = "none"
    /\ at'[q] = "terminalizing" => failure'[q] \in {"cancelled", "scheduling_error"}
    /\ at'[q] # "done" => answer'[q] = answer[q]
    /\ answer'[q] = "run" => Reliable(KeyOf[q])'
    /\ answer'[q] = "reservation_error" => row'[KeyOf[q]] = "absent" \/ Unadmitted(q)

LEMMA OwnTruth ==
  ASSUME Core, Truthful, Core', NEW q \in Requests, OwnStep(q)
  PROVE  Truthful' /\ \A p \in Requests : TrueAnswer(p)
<1>1. /\ \A p \in Requests : KeyOf[p] \in KeyRuns /\ KeyOf[p] \in Runs
      /\ KeyRuns \subseteq Runs
      /\ \A p \in Requests : follows[p] \in Requests \cup {"none"} /\ follows'[p] \in Requests \cup {"none"}
      /\ "none" \notin Requests
      /\ "done" \notin InBootstrap
  BY DEF Runs, Core, TypeOK, InBootstrap
<1>2. Relied'
  <2> SUFFICES ASSUME NEW r \in KeyRuns, row'[r] = "active"
               PROVE  \/ launched'[r] > 0 \/ r \in unscheduled'
                      \/ \E p \in Requests : KeyOf[p] = r /\ at'[p] \in InBootstrap
    BY DEF Relied
  <2>1. CASE r = KeyOf[q] /\ at'[q] \in InBootstrap
    BY <2>1
  <2>2. CASE ~(r = KeyOf[q] /\ at'[q] \in InBootstrap)
    <3>1. row[r] = "active"
      BY <2>2 DEF OwnStep
    <3>2. CASE launched[r] > 0 \/ r \in unscheduled
      BY <1>1, <3>2 DEF OwnStep
    <3>3. ASSUME NEW p \in Requests, KeyOf[p] = r, at[p] \in InBootstrap, p # q
          PROVE  \E o \in Requests : KeyOf[o] = r /\ at'[o] \in InBootstrap
      <4>1. at'[p] \in InBootstrap
        BY <3>3 DEF OwnStep
      <4> QED  BY <3>3, <4>1
    <3>4. CASE KeyOf[q] = r /\ at[q] \in InBootstrap
      BY <2>2, <3>4 DEF OwnStep, Reliable
    <3> QED  BY <3>1, <3>2, <3>3, <3>4 DEF Truthful, Relied
  <2> QED  BY <2>1, <2>2
<1>3. AnsweredRuns'
  <2> SUFFICES ASSUME NEW p \in Requests, answer'[p] = "run" PROVE Reliable(KeyOf[p])'
    BY DEF AnsweredRuns
  <2>1. CASE p = q
    BY <2>1 DEF OwnStep
  <2>2. CASE p # q
    <3>1. Reliable(KeyOf[p])
      BY <2>2 DEF OwnStep, Truthful, AnsweredRuns
    <3> QED  BY <1>1, <3>1 DEF OwnStep, Reliable
  <2> QED  BY <2>1, <2>2
<1>4. Followed'
  <2> SUFFICES ASSUME NEW p \in Requests, follows'[p] # "none"
               PROVE  /\ at'[follows'[p]] \in InBootstrap \cup {"done"}
                      /\ answer'[follows'[p]] # "reservation_error"
                      /\ KeyOf[follows'[p]] = KeyOf[p]
    BY DEF Followed
  <2> DEFINE o == follows'[p]
  <2>1. /\ o \in Requests /\ at[o] \in InBootstrap \cup {"done"}
        /\ answer[o] # "reservation_error" /\ KeyOf[o] = KeyOf[p]
    <3>1. CASE o = follows[p]
      BY <1>1, <3>1 DEF Truthful, Followed
    <3>2. CASE o # follows[p]
      <4>1. p = q /\ o \in Owners(KeyOf[q])
        BY <3>2 DEF OwnStep
      <4> QED  BY <1>1, <4>1 DEF Owners, Truthful, Failing
    <3> QED  BY <3>1, <3>2
  <2>2. CASE o = q
    BY <2>1, <2>2 DEF OwnStep
  <2>3. CASE o # q
    BY <2>1, <2>3 DEF OwnStep
  <2> QED  BY <2>1, <2>2, <2>3
<1>5. Failing' /\ Beginning'
  BY DEF Truthful, Failing, Beginning, OwnStep
<1>6. \A p \in Requests : TrueAnswer(p)
  BY DEF TrueAnswer, OwnStep, Reliable
<1> QED  BY <1>2, <1>3, <1>4, <1>5, <1>6 DEF Truthful

\* A request that is answered at once without a run, and one that goes on to its task
LEMMA PlainTruth ==
  ASSUME Core, Truthful, NEW q \in Requests, at[q] \notin InBootstrap \cup {"done"},
         \/ \E a \in {"conflict", "scheduling_error", "cancelled", "read_error"} : Answered(q, a)
         \/ Answered(q, "reservation_error") /\ (row'[KeyOf[q]] = "absent" \/ Unadmitted(q))
         \/ at' = [at EXCEPT ![q] = "created"] /\ answer' = answer /\ follows[q] = "none",
         \A r \in KeyRuns : row'[r] = row[r] \/ row'[r] = "final",
         \A r \in unscheduled : row'[r] = "active" => r \in unscheduled',
         UNCHANGED <<follows, failure, launched>>
  PROVE  OwnStep(q)
<1>1. TypeOK /\ answer[q] = "none" /\ at[q] # "done"
  BY DEF Core, InBootstrap, Truthful, Failing
<1>2. /\ \/ at'[q] = "done" /\ answer'[q] \in {"conflict", "scheduling_error", "cancelled", "read_error"}
         \/ /\ at'[q] = "done" /\ answer'[q] = "reservation_error"
            /\ row'[KeyOf[q]] = "absent" \/ Unadmitted(q)
         \/ at'[q] = "created" /\ answer'[q] = answer[q] /\ follows[q] = "none"
      /\ \A p \in Requests \ {q} : at'[p] = at[p] /\ answer'[p] = answer[p]
  BY <1>1 DEF Answered, TypeOK
<1> QED  BY <1>1, <1>2 DEF OwnStep

\* A request that finds the run of the key, and no barrier
LEMMA ExistingTruth ==
  ASSUME Core, Truthful, Core', NEW q \in Requests, at[q] \in {"none", "asking", "created"},
         Owners(KeyOf[q]) = {}, row[KeyOf[q]] # "absent", follows[q] = "none",
         NEW unread \in {"read_error", "reservation_error"}, ExistingAnswered(q, unread),
         UNCHANGED <<follows, failure, launched>>
  PROVE  OwnStep(q)
<1>1. TypeOK /\ TypeOK' /\ KeyOf[q] \in Runs /\ KeyOf[q] \in KeyRuns /\ at[q] \notin InBootstrap \cup {"done"}
  BY DEF Core, Runs, InBootstrap
<1>2. unread \in Answers
  BY DEF Answers
<1>3. /\ \A s \in Runs : row'[s] = row[s] \/ row'[s] = "final"
      /\ \A s \in unscheduled \ unscheduled' : row'[s] = "final"
      /\ KeyRuns \subseteq Runs /\ unscheduled \subseteq Runs
  BY <1>1, <1>2, ExistingTypes DEF KnownRun, Runs, TypeOK
<1>4. ASSUME Fault, Answered(q, unread) PROVE OwnStep(q)
  <2>1. Unadmitted(q)
    BY <1>1, <1>4, FaultTypes DEF Unadmitted
  <2> QED  BY <1>1, <1>3, <1>4, <2>1, PlainTruth
<1>5. ASSUME Answered(q, "conflict") \/ Answered(q, "scheduling_error") PROVE OwnStep(q)
  BY <1>1, <1>3, <1>5, PlainTruth
<1>6. ASSUME Answered(q, "run"), Reliable(KeyOf[q])' PROVE OwnStep(q)
  <2>1. /\ at'[q] = "done" /\ answer'[q] = "run"
        /\ \A p \in Requests \ {q} : at'[p] = at[p] /\ answer'[p] = answer[p]
    BY <1>1, <1>6 DEF Answered, TypeOK
  <2> QED  BY <1>1, <1>3, <1>6, <2>1 DEF OwnStep
<1>7. ASSUME KeyOf[q] \notin unscheduled, Answered(q, "run"), row' = row PROVE OwnStep(q)
  <2>1. row[KeyOf[q]] \in {"absent", "active", "final"}
    BY <1>1 DEF TypeOK
  <2>2. Reliable(KeyOf[q])'
    BY <1>1, <1>7, <2>1 DEF Reliable, Truthful, Relied, Owners
  <2> QED  BY <1>6, <1>7, <2>2
<1>8. ASSUME Answered(q, IF row'[KeyOf[q]] = "final" THEN "run" ELSE "scheduling_error") PROVE OwnStep(q)
  BY <1>5, <1>6, <1>8 DEF Reliable
<1>9. \/ Fault /\ Answered(q, unread)
      \/ Answered(q, "conflict")
      \/ KeyOf[q] \notin unscheduled /\ Answered(q, "run") /\ row' = row
      \/ Answered(q, IF row'[KeyOf[q]] = "final" THEN "run" ELSE "scheduling_error")
  BY Zenon DEF ExistingAnswered
<1> QED  BY <1>4, <1>5, <1>7, <1>8, <1>9

\* A request that waits for the owner of the barrier
LEMMA WaitsTruth ==
  ASSUME Core, Truthful, NEW q \in Requests, at[q] \in {"none", "asking", "created"},
         NEW place \in {"waiting", "asking"}, Waits(q, place),
         UNCHANGED <<row, unscheduled, failure, launched>>
  PROVE  OwnStep(q)
<1>1. TypeOK /\ at[q] \notin InBootstrap \cup {"done"} /\ q \notin Owners(KeyOf[q]) /\ place # "terminalizing"
  BY DEF Core, InBootstrap, Owners
<1>2. PICK o \in Owners(KeyOf[q]) : /\ at' = [at EXCEPT ![q] = place]
                                    /\ follows' = [follows EXCEPT ![q] = o] /\ answer' = answer
  BY DEF Waits
<1>3. /\ at'[q] = place /\ follows'[q] = o
      /\ \A p \in Requests \ {q} : at'[p] = at[p] /\ follows'[p] = follows[p]
  BY <1>1, <1>2 DEF TypeOK
<1>4. answer'[q] = answer[q] /\ answer[q] = "none"
  BY <1>1, <1>2 DEF Truthful, Failing
<1> QED  BY <1>1, <1>2, <1>3, <1>4 DEF OwnStep

LEMMA StartTruth ==
  ASSUME Core, Truthful, Core', NEW q \in Requests, Start(q) \/ ReplayExisting(q)
  PROVE  OwnStep(q)
<1>1. at[q] \in {"none", "asking"} /\ at[q] \notin InBootstrap \cup {"done"} /\ follows[q] = "none"
  BY DEF Start, ReplayExisting, InBootstrap, Truthful, Beginning
<1>2. UNCHANGED <<failure, launched>>
  BY DEF Start, ReplayExisting, producers
<1>3. ASSUME UNCHANGED <<row, unscheduled, follows>>,
             \/ StartsClosing /\ Answered(q, "reservation_error")
             \/ Answered(q, "read_error")
             \/ at' = [at EXCEPT ![q] = "created"] /\ answer' = answer
      PROVE  OwnStep(q)
  <2>1. StartsClosing => row'[KeyOf[q]] = "absent" \/ Unadmitted(q)
    BY <1>1, <1>3 DEF Unadmitted
  <2> QED  BY <1>1, <1>2, <1>3, <2>1, PlainTruth
<1>4. CASE Start(q)
  BY <1>3, <1>4 DEF Start, rows
<1>5. CASE ReplayExisting(q)
  <2>1. \/ /\ UNCHANGED <<row, unscheduled, follows>>
           /\ \/ StartsClosing /\ Answered(q, "reservation_error")
              \/ Answered(q, "read_error")
              \/ at' = [at EXCEPT ![q] = "created"] /\ answer' = answer
        \/ Waits(q, "asking") /\ UNCHANGED <<row, unscheduled>>
        \/ /\ Owners(KeyOf[q]) = {} /\ row[KeyOf[q]] # "absent"
           /\ ExistingAnswered(q, "read_error") /\ follows' = follows
    BY <1>5, Zenon DEF ReplayExisting
  <2> QED  BY <1>1, <1>2, <1>3, <2>1, WaitsTruth, ExistingTruth
<1> QED  BY <1>4, <1>5

LEMMA RunStartTruth ==
  ASSUME Core, Truthful, Core', NEW q \in Requests, RunStart(q)
  PROVE  OwnStep(q)
<1>1. /\ TypeOK /\ at[q] = "created" /\ at[q] \notin InBootstrap \cup {"done"} /\ answer[q] = "none"
      /\ KeyOf[q] \in KeyRuns /\ KeyRuns \subseteq Runs /\ follows[q] = "none"
  BY DEF RunStart, InBootstrap, Core, Truthful, Failing, Beginning, Runs
<1>2. StartOnce(q) /\ UNCHANGED <<failure, launched>>
  BY DEF RunStart, producers
<1>3. CASE Reserve(q) /\ row[KeyOf[q]] = "absent" /\ UNCHANGED <<settled, follows, unscheduled>>
  <2>1. ASSUME Answered(q, "reservation_error"), row' = row PROVE OwnStep(q)
    <3>1. /\ at'[q] = "done" /\ answer'[q] = "reservation_error"
          /\ \A p \in Requests \ {q} : at'[p] = at[p] /\ answer'[p] = answer[p]
      BY <1>1, <2>1 DEF Answered, TypeOK
    <3> QED  BY <1>1, <1>2, <1>3, <2>1, <3>1 DEF OwnStep
  <2>2. ASSUME NEW place \in {"bootstrapping", "interrupting"}, at' = [at EXCEPT ![q] = place],
               answer' = answer, row' = [row EXCEPT ![KeyOf[q]] = "active"]
        PROVE  OwnStep(q)
    <3>1. /\ at'[q] = place /\ place \in InBootstrap /\ place # "terminalizing"
          /\ \A p \in Requests \ {q} : at'[p] = at[p]
      BY <1>1, <2>2 DEF TypeOK, InBootstrap
    <3>2. \A r \in KeyRuns : row'[r] = row[r] \/ (row[r] = "absent" /\ r = KeyOf[q])
      BY <1>1, <1>3, <2>2 DEF TypeOK
    <3>3. \A r \in unscheduled : row'[r] = "active" => r \in unscheduled'
      BY <1>3
    <3> QED  BY <1>1, <1>2, <1>3, <2>2, <3>1, <3>2, <3>3 DEF OwnStep
  <2> QED  BY <1>3, <2>1, <2>2 DEF Reserve
<1>4. CASE q \in cancelled
  BY <1>1, <1>2, <1>4, PlainTruth DEF StartOnce, rows
<1>5. CASE Waits(q, "waiting") /\ UNCHANGED <<rows, unscheduled>>
  BY <1>1, <1>2, <1>5, WaitsTruth DEF rows
<1>6. CASE ExistingAnswered(q, "reservation_error") /\ follows' = follows /\ Owners(KeyOf[q]) = {} /\ row[KeyOf[q]] # "absent"
  BY <1>1, <1>2, <1>6, ExistingTruth
<1> QED  BY <1>2, <1>3, <1>4, <1>5, <1>6 DEF StartOnce

LEMMA OwnerTruth ==
  ASSUME Core, Truthful, Core', NEW q \in Requests,
         ReservationInterrupted(q) \/ Bootstrapped(q) \/ Terminalized(q)
  PROVE  OwnStep(q)
<1>1. /\ TypeOK /\ at[q] \in InBootstrap /\ at[q] # "done" /\ answer[q] = "none"
      /\ KeyOf[q] \in KeyRuns /\ KeyRuns \subseteq Runs
      /\ "terminalizing" \in InBootstrap
  BY DEF ReservationInterrupted, Bootstrapped, Terminalized, InBootstrap, Core, Truthful, Failing, Runs
<1>2. ASSUME NEW error \in {"cancelled", "scheduling_error"}, Terminalizing(q, error),
             UNCHANGED <<row, follows, unscheduled, launched>>
      PROVE  OwnStep(q)
  <2>1. /\ at'[q] = "terminalizing" /\ failure'[q] = error /\ answer' = answer
        /\ \A p \in Requests \ {q} : at'[p] = at[p] /\ failure'[p] = failure[p]
    BY <1>1, <1>2 DEF Terminalizing, TypeOK
  <2> QED  BY <1>1, <1>2, <2>1 DEF OwnStep
<1>3. CASE /\ launched' = [launched EXCEPT ![KeyOf[q]] = @ + 1] /\ Answered(q, "run")
           /\ UNCHANGED <<rows, failure, follows, unscheduled>>
  <2>1. /\ at'[q] = "done" /\ answer'[q] = "run"
        /\ \A p \in Requests \ {q} : at'[p] = at[p] /\ answer'[p] = answer[p]
    BY <1>1, <1>3 DEF Answered, TypeOK
  <2>2. launched'[KeyOf[q]] > 0 /\ \A r \in Runs : launched[r] > 0 => launched'[r] > 0
    BY <1>1, <1>3 DEF TypeOK
  <2> QED  BY <1>1, <1>3, <2>1, <2>2 DEF OwnStep, Reliable, rows
<1>4. CASE Terminalized(q)
  <2>1. /\ at[q] = "terminalizing" /\ unscheduled' = Unscheduled(KeyOf[q]) /\ Answered(q, failure[q])
        /\ UNCHANGED <<row, follows, failure, launched>>
    BY <1>4 DEF Terminalized, rows, producers
  <2>2. failure[q] \in {"cancelled", "scheduling_error"}
    BY <2>1 DEF Truthful, Failing
  <2>3. /\ at'[q] = "done" /\ answer'[q] = failure[q]
        /\ \A p \in Requests \ {q} : at'[p] = at[p] /\ answer'[p] = answer[p]
    BY <1>1, <2>1 DEF Answered, TypeOK
  <2>4. unscheduled \subseteq unscheduled' /\ (row'[KeyOf[q]] = "final" \/ KeyOf[q] \in unscheduled')
    BY <2>1 DEF Unscheduled, Final
  <2> QED  BY <1>1, <2>1, <2>2, <2>3, <2>4 DEF OwnStep, Reliable
<1> QED  BY <1>2, <1>3, <1>4 DEF ReservationInterrupted, Bootstrapped, rows, producers

LEMMA WokenTruth ==
  ASSUME Core, Truthful, Core', NEW q \in Requests, Woken(q)
  PROVE  OwnStep(q)
<1>1. /\ TypeOK /\ at[q] \notin InBootstrap \cup {"done"} /\ answer[q] = "none"
      /\ follows[q] \in Requests /\ KeyOf[q] \in KeyRuns /\ KeyRuns \subseteq Runs
      /\ UNCHANGED <<row, failure, unscheduled, launched>>
  BY DEF Woken, InBootstrap, Core, Truthful, Failing, Runs, TypeOK, rows, producers
<1>2. ASSUME NEW a \in {"cancelled", "conflict", "read_error", answer[follows[q]]}, Answered(q, a), follows' = follows
      PROVE  OwnStep(q)
  <2>1. a # "reservation_error" /\ (a = "run" => Reliable(KeyOf[q])')
    <3>1. /\ answer[follows[q]] # "reservation_error" /\ KeyOf[follows[q]] = KeyOf[q]
      BY <1>1 DEF Truthful, Followed
    <3>2. answer[follows[q]] = "run" => Reliable(KeyOf[q])
      BY <1>1, <3>1 DEF Truthful, AnsweredRuns
    <3> QED  BY <1>1, <3>1, <3>2 DEF Reliable
  <2>2. /\ at'[q] = "done" /\ answer'[q] = a
        /\ \A p \in Requests \ {q} : at'[p] = at[p] /\ answer'[p] = answer[p]
    BY <1>1, <1>2 DEF Answered, TypeOK
  <2> QED  BY <1>1, <1>2, <2>1, <2>2 DEF OwnStep
<1>3. ASSUME NEW again \in {"created", "asking"}, at' = [at EXCEPT ![q] = again],
             follows' = [follows EXCEPT ![q] = "none"], answer' = answer
      PROVE  OwnStep(q)
  <2>1. /\ at'[q] = again /\ follows'[q] = "none"
        /\ \A p \in Requests \ {q} : at'[p] = at[p] /\ follows'[p] = follows[p]
    BY <1>1, <1>3 DEF TypeOK
  <2> QED  BY <1>1, <1>3, <2>1 DEF OwnStep
<1> QED  BY <1>1, <1>2, <1>3, WokenTypes

LEMMA TruthKept ==
  ASSUME Core, Truthful, Core', [Next]_vars
  PROVE  Truthful' /\ \A q \in Requests : TrueAnswer(q)
<1>1. TypeOK /\ TypeOK'
  BY DEF Core
<1>2. ASSUME NEW q \in Requests, Start(q) \/ ReplayExisting(q) \/ Request(q)
      PROVE  Truthful' /\ \A p \in Requests : TrueAnswer(p)
  BY <1>2, StartTruth, RunStartTruth, OwnerTruth, WokenTruth, OwnTruth DEF Request
<1>3. ASSUME NEW r \in Runs, Producer(r) \/ Cancel(r)
      PROVE  Truthful' /\ \A p \in Requests : TrueAnswer(p)
  <2>1. UNCHANGED <<at, follows, failure, answer, unscheduled, launched>>
    BY <1>3 DEF Producer, ProducerRuns, ProducerExits, ContinuationExits, ProducerDone, TerminalizerRuns,
                TerminalizerDone, Cancel, starts
  <2>2. \A s \in Runs : row'[s] = row[s] \/ row'[s] = "final"
    <3>1. ASSUME NEW s \in Runs \cup {"none"}, Finish(s) PROVE \A u \in Runs : row'[u] = row[u] \/ row'[u] = "final"
      BY <1>1, <3>1 DEF Finish, TypeOK
    <3>2. continuation[r] \in Runs \cup {"none"}
      BY <1>1 DEF TypeOK
    <3>3. row' = row \/ Finish(r) \/ Finish(continuation[r])
      BY <1>3 DEF Producer, ProducerRuns, ProducerExits, ContinuationExits, ProducerDone, TerminalizerRuns,
                  TerminalizerDone, Cancel, rows
    <3> QED  BY <3>1, <3>2, <3>3
  <2> QED  BY <2>1, <2>2, QuietTruth DEF Runs
<1>4. ASSUME NEW r \in Runs, NEW by \in FinishedBy, FinishTask(by, r)
      PROVE  Truthful' /\ \A p \in Requests : TrueAnswer(p)
  <2>1. UNCHANGED <<at, follows, failure, answer, launched>>
    BY <1>4 DEF FinishTask, producers
  <2>2. \A s \in Runs : row'[s] = row[s] \/ row'[s] = "final"
    BY <1>1, <1>4, FinishTypes DEF FinishTask
  <2>3. \A s \in unscheduled : row'[s] = "active" => s \in unscheduled'
    BY <1>4 DEF FinishTask
  <2> QED  BY <2>1, <2>2, <2>3, QuietTruth DEF Runs
<1>5. ASSUME NEW r \in Runs, NEW c \in OtherRuns, ProducerContinues(r, c) \/ Spawn(r, c)
      PROVE  Truthful' /\ \A p \in Requests : TrueAnswer(p)
  <2>1. UNCHANGED <<at, follows, failure, answer, unscheduled>>
    BY <1>5 DEF ProducerContinues, Spawn, starts
  <2>2. \A s \in KeyRuns : s \in Runs /\ s # c
    BY DEF Runs
  <2>3. \A s \in KeyRuns : row'[s] = row[s] \/ row'[s] = "final"
    BY <1>1, <1>5, <2>2 DEF ProducerContinues, Spawn, TypeOK
  <2>4. \A s \in Runs : launched[s] > 0 => launched'[s] > 0
    BY <1>1, <1>5 DEF ProducerContinues, Spawn, TypeOK
  <2> QED  BY <2>1, <2>3, <2>4, QuietTruth
<1>6. CASE Shutdown \/ UNCHANGED vars
  <2>1. UNCHANGED <<row, at, follows, failure, answer, launched>>
    BY <1>6 DEF Shutdown, CloseStarts, RetryStarts, StartsClosed, CommandsClosed, ProducersDrained,
                RetryProducers, ProducersClosed, vars, rows, starts, producers
  <2>2. \A s \in unscheduled : row[s] = "active" => s \in unscheduled'
    BY <1>6 DEF Shutdown, CloseStarts, RetryStarts, StartsClosed, CommandsClosed, ProducersDrained,
                RetryProducers, ProducersClosed, vars, rows, starts, producers, Final
  <2> QED  BY <2>1, <2>2, QuietTruth
<1> QED  BY <1>2, <1>3, <1>4, <1>5, <1>6 DEF Next

\* A start is never answered with a run that nobody has been handed and that is
\* not final.  RunStartReservationError never goes to a request that has reserved a
\* run or waited for one that has, whatever fails and is cancelled: the key has no
\* run, or a closing coordinator or a failing read kept the request from a run that
\* was there before.
THEOREM AnswersAreTrue == Spec => AnswerIsTrue
<1>1. Init => Truthful
  <2> SUFFICES ASSUME Init PROVE Truthful
    OBVIOUS
  <2>1. \A r \in KeyRuns : row[r] # "active"
    BY DEF Init, Runs
  <2> QED  BY <2>1 DEF Init, Truthful, Relied, AnsweredRuns, Followed, Failing, Beginning
<1>2. Core /\ Core' /\ Truthful /\ [Next]_vars => Truthful'
  BY TruthKept
<1>3. Core /\ Core' /\ Truthful /\ [Next]_vars =>
        [\A q \in Requests : answer[q] = "none" =>
          /\ answer'[q] = "run" => row'[KeyOf[q]] = "final" \/ launched'[KeyOf[q]] > 0
          /\ answer'[q] = "reservation_error" => row'[KeyOf[q]] = "absent" \/ Unadmitted(q)]_vars
  BY TruthKept DEF TrueAnswer
<1> QED  BY <1>1, <1>2, <1>3, Invariance, PTL DEF Spec, AnswerIsTrue
=============================================================================
