--------------------------- MODULE ToolRoundProofs ----------------------------
(***************************************************************************)
(* Proofs about the two modules that MCToolRound composes: ToolRound, for any *)
(* rounds, calls, tools and permissions, and ChatTurn, for any number of tool *)
(* rounds, reminders of the plan and pieces of an answer.                  *)
(*                                                                         *)
(* ToolRound: the safety properties follow from one inductive invariant.  It *)
(* ties the state of a call to that of the task that waits for its approval *)
(* and of the request that task cleans up, and all of them to the decision a *)
(* user was told of.                                                       *)
(*                                                                         *)
(* ChatTurn: a run at work is the one whose turn is in progress; a run that *)
(* is not finished has no saved message; and what a user stopped has a turn *)
(* that was told, or is over.                                              *)
(***************************************************************************)
EXTENDS ToolRound, ChatTurn, TLAPS

-----------------------------------------------------------------------------
(* ToolRound *)

USE DEF Permissions, Decisions

\* A request exists exactly as long as the task that will clean it up, and what
\* that task has returned is the decision the user was told of, if there is one.
Asks(c) ==
    /\ call[c] = "idle" => waiter[c] = "none"
    /\ call[c] = "asking" => waiter[c] \in {"created", "waiting", "done"}
    /\ call[c] \in {"executing", "finished", "cancelled"} => waiter[c] \in {"none", "done", "cancelled"}
    /\ call[c] = "cancelling" => request[c] # "pending"
    /\ waiter[c] = "unrun" => call[c] = "cancelling"
    /\ request[c] # "none" <=> waiter[c] \in {"created", "unrun", "waiting"}
    /\ waiter[c] = "done" <=> result[c] # "none"

Answered(c) ==
    /\ told[c] # "none" => waiter[c] # "none"
    /\ told[c] = "none" => request[c] \in {"none", "pending", "cancelled"} /\ result[c] \in {"none", "cancelled"}
    /\ told[c] = "denied" => request[c] \in {"none", "denied"} /\ result[c] \in {"none", "denied"}
    /\ told[c] \in {"once", "session"} =>
           request[c] \in {"none", "approved"} /\ result[c] \in {"none", "approved"}

\* A call in flight belongs to the current wave of a round that is running, and
\* only a round that was cancelled has calls that are being cancelled.
Placed(c) ==
    /\ call[c] \in {"asking", "executing"} =>
           round[RoundOf[c]] = "running" /\ c \in InWave(RoundOf[c])
    /\ call[c] = "cancelling" => round[RoundOf[c]] = "cancelling"

Ran(c) ==
    /\ call[c] = "executing" => c \in ran
    /\ c \in ran => /\ call[c] \in {"executing", "cancelling", "finished", "cancelled"}
                    /\ waiter[c] \in {"none", "done"}

\* A decision the user was told of has its effect, and a chat turn that was
\* stopped asks for nothing.
Kept(c) ==
    /\ told[c] \in {"once", "session"} /\ call[c] = "finished" => c \in ran
    /\ told[c] = "denied" => c \notin ran
    /\ Kind[RoundOf[c]] = "chat" /\ RoundOf[c] \in stopped => request[c] # "pending"

Good(c) == Asks(c) /\ Answered(c) /\ Placed(c) /\ Ran(c) /\ Kept(c)

Permitted(c) ==
    \/ Permission[c] = "allow"
    \/ told[c] \in {"once", "session"}
    \/ Permission[c] = "ask" /\ \E d \in Calls : ToolOf[d] = ToolOf[c] /\ told[d] = "session"

\* Every grant goes back to an approval for the session.
GrantsTold == \A t \in granted : \E d \in Calls : ToolOf[d] = t /\ told[d] = "session"

IInv ==
    /\ TypeOK
    /\ \A c \in Calls : Good(c)
    /\ GrantsTold
    /\ \A c \in ran : Permitted(c)

-----------------------------------------------------------------------------
(* What most steps have in common *)

LEMMA RoundOfType == \A c \in Calls : RoundOf[c] \in Rounds
  BY ToolRoundAssumption

\* The current wave of a round depends on nothing but its number.
LEMMA WaveKept == ASSUME wave' = wave PROVE \A r : InWave(r)' = InWave(r)
  BY DEF InWave

\* A step leaves a call alone, except that it may cancel its request.
Untouched(c) ==
    /\ call'[c] = call[c] /\ waiter'[c] = waiter[c] /\ result'[c] = result[c] /\ told'[c] = told[c]
    /\ c \in ran' <=> c \in ran
    /\ request'[c] = request[c] \/ (request[c] = "pending" /\ request'[c] = "cancelled")
    /\ round'[RoundOf[c]] = round[RoundOf[c]]
    /\ wave' = wave
    /\ Kind[RoundOf[c]] = "chat" /\ RoundOf[c] \in stopped' =>
           RoundOf[c] \in stopped \/ request'[c] # "pending"

LEMMA UntouchedGood == ASSUME NEW c \in Calls, Good(c), Untouched(c) PROVE Good(c)'
<1>1. Asks(c)'
  BY DEF Untouched, Good, Asks
<1>2. Answered(c)'
  BY DEF Untouched, Good, Answered
<1>3. Placed(c)'
  BY WaveKept DEF Untouched, Good, Placed
<1>4. Ran(c)' /\ Kept(c)'
  BY DEF Untouched, Good, Ran, Kept
<1> QED
  BY <1>1, <1>2, <1>3, <1>4 DEF Good

\* A step of one call: it is enough to look at that call, and at its permission
\* if it is executed.
LEMMA OneCall ==
    ASSUME IInv, TypeOK', NEW c \in Calls,
           \A d \in Calls : d # c => Untouched(d),
           told' = told, granted' = granted,
           Good(c)',
           c \in ran' => c \in ran \/ Permitted(c)
    PROVE  IInv'
<1>1. \A d \in Calls : Good(d)'
  BY UntouchedGood DEF IInv
<1>2. GrantsTold'
  BY DEF IInv, GrantsTold
<1>3. ASSUME NEW d \in ran' PROVE Permitted(d)'
  <2>1. d \in Calls /\ Permitted(d)
    BY <1>3 DEF IInv, TypeOK, Untouched
  <2> QED
    BY <2>1 DEF Permitted
<1> QED
  BY <1>1, <1>2, <1>3 DEF IInv

\* A step of a round.
LEMMA AllCalls ==
    ASSUME IInv, TypeOK', \A d \in Calls : Good(d)',
           told' = told, granted' = granted, ran' = ran
    PROVE  IInv'
<1>1. GrantsTold'
  BY DEF IInv, GrantsTold
<1>2. \A d \in ran' : Permitted(d)'
  BY DEF IInv, Permitted
<1> QED
  BY <1>1, <1>2 DEF IInv

-----------------------------------------------------------------------------
(* What cancellations do to the requests *)

Statuses == {"none", "pending"} \cup Decisions

LEMMA ForNode ==
    ASSUME NEW req \in [Calls -> Statuses], NEW node
    PROVE  /\ CancelledForNode(node, req) \in [Calls -> Statuses]
           /\ \A d \in Calls : \/ CancelledForNode(node, req)[d] = req[d]
                               \/ req[d] = "pending" /\ CancelledForNode(node, req)[d] = "cancelled"
           /\ \A d \in Calls : NodeOf[RoundOf[d]] = node => CancelledForNode(node, req)[d] # "pending"
  BY DEF CancelledForNode, Statuses

LEMMA Cancelled ==
    ASSUME TypeOK, NEW C
    PROVE  /\ CancelledWith(C) \in [Calls -> Statuses]
           /\ \A d \in Calls : \/ CancelledWith(C)[d] = request[d]
                               \/ d \in C /\ request[d] = "pending" /\ CancelledWith(C)[d] = "cancelled"
           /\ \A d \in Calls \cap C : CancelledWith(C)[d] # "pending"
  BY DEF CancelledWith, Statuses, TypeOK

LEMMA AskedRequests ==
    ASSUME TypeOK, NEW c \in Calls
    PROVE  /\ Asked(c) \in [Calls -> Statuses]
           /\ \A d \in Calls \ {c} :  \/ Asked(c)[d] = request[d]
                                      \/ request[d] = "pending" /\ Asked(c)[d] = "cancelled"
           /\ Asked(c)[c] \in {"pending", "cancelled"}
           /\ Kind[RoundOf[c]] = "chat" /\ RoundOf[c] \in stopped => Asked(c)[c] # "pending"
<1> DEFINE req == [request EXCEPT ![c] = "pending"]
<1>1. /\ req \in [Calls -> Statuses] /\ req[c] = "pending"
      /\ \A d \in Calls \ {c} : req[d] = request[d]
  BY DEF TypeOK, Statuses
<1>2. Asked(c) = IF Kind[RoundOf[c]] = "chat" /\ RoundOf[c] \in stopped
                 THEN CancelledForNode(NodeOf[RoundOf[c]], req) ELSE req
  BY DEF Asked
<1> HIDE DEF req
<1>3. CASE Kind[RoundOf[c]] = "chat" /\ RoundOf[c] \in stopped
  BY <1>1, <1>2, <1>3, ForNode
<1>4. CASE ~ (Kind[RoundOf[c]] = "chat" /\ RoundOf[c] \in stopped)
  BY <1>1, <1>2, <1>4
<1> QED
  BY <1>3, <1>4

-----------------------------------------------------------------------------
(* The initial states, and the steps that leave everything as it is. *)

LEMMA InitIInv == Init => IInv
  BY RoundOfType DEF Init, IInv, Good, TypeOK, Asks, Answered, Placed, Ran, Kept, GrantsTold, Permitted

LEMMA StutterIInv == ASSUME IInv, UNCHANGED vars PROVE IInv'
<1>1. TypeOK'
  BY DEF IInv, TypeOK, vars, approvals
<1>2. \A d \in Calls : Untouched(d)
  BY DEF Untouched, vars, approvals
<1> QED
  BY <1>1, <1>2, UntouchedGood, AllCalls DEF IInv, vars, approvals

-----------------------------------------------------------------------------
(* The steps of a call *)

LEMMA StartCallIInv == ASSUME IInv, NEW c \in Calls, StartCall(c) PROVE IInv'
<1>1. Good(c) /\ call[c] = "idle" /\ waiter[c] = "none" /\ told[c] = "none" /\ request[c] = "none"
  BY DEF IInv, Good, Asks, Answered, StartCall
<1>2. CASE (Allowed(c) /\ Executes(c)) \/ Finishes(c)
  <2>1. request' = request /\ waiter' = waiter /\ call'[c] \in {"executing", "finished"}
    BY <1>2 DEF IInv, TypeOK, StartCall, Executes, Finishes
  <2>2. TypeOK'
    BY <1>2, <2>1 DEF IInv, TypeOK, StartCall, Executes, Finishes
  <2>3. ASSUME NEW d \in Calls, d # c PROVE Untouched(d)
    BY <1>2, <2>1, <2>3 DEF IInv, TypeOK, StartCall, Executes, Finishes, Untouched
  <2>4. call'[c] = "executing" => c \in ran'
    BY <1>2 DEF IInv, TypeOK, Executes, Finishes
  <2>5. Good(c)'
    BY <1>1, <2>1, <2>4, WaveKept DEF StartCall, Good, Asks, Answered, Placed, Ran, Kept
  <2>6. c \in ran' => c \in ran \/ Permitted(c)
    BY <1>2 DEF IInv, GrantsTold, Permitted, Allowed, Executes, Finishes
  <2> QED
    BY <2>2, <2>3, <2>5, <2>6, OneCall DEF StartCall
<1>3. CASE /\ call' = [call EXCEPT ![c] = "asking"]
           /\ request' = Asked(c) /\ waiter' = [waiter EXCEPT ![c] = "created"] /\ ran' = ran
  <2>1. call'[c] = "asking" /\ waiter'[c] = "created"
    BY <1>3 DEF IInv, TypeOK
  <2>2. TypeOK'
    BY <1>3, AskedRequests DEF IInv, TypeOK, StartCall, Statuses
  <2>3. ASSUME NEW d \in Calls, d # c PROVE Untouched(d)
    <3>1. request'[d] = request[d] \/ (request[d] = "pending" /\ request'[d] = "cancelled")
      BY <1>3, <2>3, AskedRequests DEF IInv
    <3> QED
      BY <1>3, <2>3, <3>1 DEF IInv, TypeOK, StartCall, Untouched
  <2>4. /\ request'[c] \in {"pending", "cancelled"}
        /\ Kind[RoundOf[c]] = "chat" /\ RoundOf[c] \in stopped => request'[c] # "pending"
    BY <1>3, AskedRequests DEF IInv
  <2>5. Good(c)'
    BY <1>1, <1>3, <2>1, <2>4, WaveKept DEF StartCall, Good, Asks, Answered, Placed, Ran, Kept
  <2> QED
    BY <1>3, <2>2, <2>3, <2>5, OneCall DEF StartCall
<1> QED
  BY <1>2, <1>3 DEF StartCall

LEMMA ExecutionEndsIInv == ASSUME IInv, NEW c \in Calls, ExecutionEnds(c) PROVE IInv'
<1>1. TypeOK'
  BY DEF IInv, TypeOK, ExecutionEnds, Finishes, approvals
<1>2. ASSUME NEW d \in Calls, d # c PROVE Untouched(d)
  BY <1>2 DEF IInv, TypeOK, Untouched, ExecutionEnds, Finishes, approvals
<1>3. call'[c] = "finished" /\ ran' = ran
  BY DEF IInv, TypeOK, ExecutionEnds, Finishes, approvals
<1>4. Good(c)'
  BY <1>3, WaveKept DEF IInv, Good, Asks, Answered, Placed, Ran, Kept, ExecutionEnds, approvals
<1> QED
  BY <1>1, <1>2, <1>4, OneCall DEF ExecutionEnds, Finishes, approvals

LEMMA CallCancelledIInv == ASSUME IInv, NEW c \in Calls, CallCancelled(c) PROVE IInv'
<1>1. TypeOK'
  BY DEF IInv, TypeOK, CallCancelled, approvals
<1>2. ASSUME NEW d \in Calls, d # c PROVE Untouched(d)
  BY <1>2 DEF IInv, TypeOK, Untouched, CallCancelled, approvals
<1>3. call'[c] = "cancelled"
  BY DEF IInv, TypeOK, CallCancelled, approvals
<1>4. Good(c)'
  BY <1>3, WaveKept DEF IInv, Good, Asks, Answered, Placed, Ran, Kept, CallCancelled, approvals
<1> QED
  BY <1>1, <1>2, <1>4, OneCall DEF CallCancelled, approvals

LEMMA WaiterStartsIInv == ASSUME IInv, NEW c \in Calls, WaiterStarts(c) PROVE IInv'
<1>1. TypeOK'
  BY DEF IInv, TypeOK, WaiterStarts
<1>2. ASSUME NEW d \in Calls, d # c PROVE Untouched(d)
  BY <1>2 DEF IInv, TypeOK, Untouched, WaiterStarts
<1>3. waiter'[c] = IF call[c] = "cancelling" THEN "unrun" ELSE "waiting"
  BY DEF IInv, TypeOK, WaiterStarts
<1>4. Good(c)'
  BY <1>3, WaveKept DEF IInv, Good, Asks, Answered, Placed, Ran, Kept, WaiterStarts
<1> QED
  BY <1>1, <1>2, <1>4, OneCall DEF WaiterStarts

LEMMA WaiterCleanedUpIInv == ASSUME IInv, NEW c \in Calls, WaiterCleanedUp(c) PROVE IInv'
<1>1. TypeOK'
  BY DEF IInv, TypeOK, WaiterCleanedUp, CleanedUp
<1>2. ASSUME NEW d \in Calls, d # c PROVE Untouched(d)
  BY <1>2 DEF IInv, TypeOK, Untouched, WaiterCleanedUp, CleanedUp
<1>3. waiter'[c] = "cancelled" /\ request'[c] = "none"
  BY DEF IInv, TypeOK, WaiterCleanedUp, CleanedUp
<1>4. Good(c)'
  BY <1>3, WaveKept DEF IInv, Good, Asks, Answered, Placed, Ran, Kept, WaiterCleanedUp
<1> QED
  BY <1>1, <1>2, <1>4, OneCall DEF WaiterCleanedUp, CleanedUp

LEMMA CallWakesIInv == ASSUME IInv, NEW c \in Calls, CallWakes(c) PROVE IInv'
<1>1. TypeOK'
  BY DEF IInv, TypeOK, CallWakes, Executes, Finishes, approvals
<1>2. ASSUME NEW d \in Calls, d # c PROVE Untouched(d)
  BY <1>2 DEF IInv, TypeOK, Untouched, CallWakes, Executes, Finishes, approvals
<1>3. Good(c)
  BY DEF IInv
<1>4. CASE result[c] = "approved"
  <2>1. told[c] \in {"once", "session"}
    BY <1>3, <1>4 DEF IInv, TypeOK, Good, Answered
  <2>2. call'[c] = "executing" /\ c \in ran'
    BY <1>4 DEF IInv, TypeOK, CallWakes, Executes
  <2>3. Good(c)'
    BY <1>3, <2>1, <2>2, WaveKept DEF Good, Asks, Answered, Placed, Ran, Kept, CallWakes, approvals
  <2> QED
    BY <1>1, <1>2, <2>1, <2>3, OneCall DEF Permitted, CallWakes, approvals
<1>5. CASE result[c] # "approved"
  <2>1. call'[c] = "finished" /\ ran' = ran
    BY <1>5 DEF IInv, TypeOK, CallWakes, Finishes
  <2>2. Good(c)'
    BY <1>3, <1>5, <2>1, WaveKept DEF Good, Asks, Answered, Placed, Ran, Kept, CallWakes, approvals
  <2> QED
    BY <1>1, <1>2, <2>1, <2>2, OneCall DEF CallWakes, approvals
<1> QED
  BY <1>4, <1>5

LEMMA WaiterWakesIInv == ASSUME IInv, NEW c \in Calls, WaiterWakes(c) PROVE IInv'
<1>1. Good(c) /\ request[c] \in Statuses
  BY DEF IInv, TypeOK, Statuses
<1>2. TypeOK'
  BY <1>1 DEF IInv, TypeOK, WaiterWakes, Good, Asks, Statuses
<1>3. ASSUME NEW d \in Calls, d # c PROVE Untouched(d)
  BY <1>3 DEF IInv, TypeOK, Untouched, WaiterWakes
<1>4. request'[c] = "none"
  BY DEF IInv, TypeOK, WaiterWakes
<1>5. CASE call[c] = "cancelling"
  <2>1. waiter'[c] = "cancelled" /\ result' = result
    BY <1>5 DEF IInv, TypeOK, WaiterWakes
  <2> QED
    BY <1>1, <1>4, <1>5, <2>1, <1>2, <1>3, OneCall, WaveKept
       DEF Good, Asks, Answered, Placed, Ran, Kept, WaiterWakes
<1>6. CASE call[c] # "cancelling"
  <2>1. waiter'[c] = "done" /\ result'[c] = request[c] /\ request[c] \notin {"none", "pending"}
    BY <1>1, <1>6 DEF IInv, TypeOK, WaiterWakes, Good, Asks
  <2>2. Good(c)'
    BY <1>1, <1>4, <1>6, <2>1, WaveKept DEF Good, Asks, Answered, Placed, Ran, Kept, WaiterWakes
  <2> QED
    BY <1>2, <1>3, <2>2, OneCall DEF WaiterWakes
<1> QED
  BY <1>5, <1>6

LEMMA DecideIInv ==
    ASSUME IInv, NEW c \in Calls, NEW decision \in {"denied", "once", "session"}, Decide(c, decision)
    PROVE  IInv'
<1>1. TypeOK'
  <2>1. ToolOf[c] \in Tools
    BY ToolRoundAssumption
  <2>2. granted' \subseteq Tools
    BY <2>1 DEF IInv, TypeOK, Decide, GrantedWith
  <2> QED
    BY <2>2 DEF IInv, TypeOK, Decide
<1>2. ASSUME NEW d \in Calls, d # c PROVE Untouched(d)
  BY <1>2 DEF IInv, TypeOK, Untouched, Decide
<1>3. Good(c) /\ request[c] = "pending" /\ told[c] = "none" /\ told'[c] = decision
  BY DEF IInv, TypeOK, Good, Answered, Decide
<1>4. request'[c] = IF decision = "denied" THEN "denied" ELSE "approved"
  BY DEF IInv, TypeOK, Decide
<1>5. Good(c)'
  BY <1>3, <1>4, WaveKept DEF Good, Asks, Answered, Placed, Ran, Kept, Decide
<1>6. \A d \in Calls : Good(d)'
  BY <1>2, <1>5, UntouchedGood DEF IInv
<1>7. \A d \in Calls : told[d] # "none" => told'[d] = told[d]
  BY <1>2, <1>3 DEF Untouched
<1>8. ASSUME NEW t \in granted' PROVE \E d \in Calls : ToolOf[d] = t /\ told'[d] = "session"
  <2>1. CASE t \in granted
    BY <1>7, <2>1 DEF IInv, GrantsTold
  <2>2. CASE t \notin granted
    <3>1. t = ToolOf[c] /\ decision = "session"
      BY <1>8, <2>2 DEF Decide, GrantedWith
    <3> QED
      BY <1>3, <3>1
  <2> QED
    BY <2>1, <2>2
<1>9. \A d \in ran' : Permitted(d)'
  <2> SUFFICES ASSUME NEW d \in ran' PROVE Permitted(d)'
    OBVIOUS
  <2>1. d \in Calls /\ Permitted(d)
    BY DEF IInv, TypeOK, Decide
  <2> QED
    BY <1>7, <2>1 DEF Permitted
<1> QED
  BY <1>1, <1>6, <1>8, <1>9 DEF IInv, GrantsTold

-----------------------------------------------------------------------------
(* The steps of a round *)

LEMMA NextWaveIInv == ASSUME IInv, NEW r \in Rounds, NextWave(r) PROVE IInv'
<1>1. TypeOK'
  BY DEF IInv, TypeOK, NextWave, approvals
<1>2. ASSUME NEW d \in Calls PROVE Good(d)'
  <2>1. Good(d) /\ RoundOf[d] \in Rounds
    BY RoundOfType DEF IInv
  <2>2. CASE RoundOf[d] = r
    <3>1. call[d] \notin {"asking", "executing", "cancelling"}
      BY <2>1, <2>2 DEF NextWave, Over, Good, Placed
    <3> QED
      BY <2>1, <3>1 DEF NextWave, approvals, Good, Asks, Answered, Placed, Ran, Kept
  <2>3. CASE RoundOf[d] # r
    <3>1. round'[RoundOf[d]] = round[RoundOf[d]] /\ wave'[RoundOf[d]] = wave[RoundOf[d]]
      BY <2>1, <2>3 DEF IInv, TypeOK, NextWave
    <3>2. InWave(RoundOf[d])' = InWave(RoundOf[d])
      BY <3>1 DEF InWave
    <3> QED
      BY <2>1, <3>1, <3>2 DEF NextWave, approvals, Good, Asks, Answered, Placed, Ran, Kept
  <2> QED
    BY <2>2, <2>3
<1> QED
  BY <1>1, <1>2, AllCalls DEF NextWave, approvals

LEMMA RoundCancelledIInv == ASSUME IInv, NEW r \in Rounds, RoundCancelled(r) PROVE IInv'
<1>1. TypeOK'
  BY DEF IInv, TypeOK, RoundCancelled, approvals
<1>2. ASSUME NEW d \in Calls PROVE Good(d)'
  <2>1. Good(d) /\ RoundOf[d] \in Rounds
    BY RoundOfType DEF IInv
  <2>2. round'[RoundOf[d]] = round[RoundOf[d]] \/ Over(d)
    BY <2>1 DEF IInv, TypeOK, RoundCancelled
  <2> QED
    BY <2>1, <2>2, WaveKept DEF RoundCancelled, Over, approvals, Good, Asks, Answered, Placed, Ran, Kept
<1> QED
  BY <1>1, <1>2, AllCalls DEF RoundCancelled, approvals

LEMMA StopIInv == ASSUME IInv, NEW r \in Rounds, Stop(r) PROVE IInv'
<1>1. request \in [Calls -> Statuses]
  BY DEF IInv, TypeOK, Statuses
<1>2. TypeOK'
  BY <1>1, ForNode DEF IInv, TypeOK, Stop, Statuses
<1>3. ASSUME NEW d \in Calls PROVE Untouched(d)
  <2>1. request'[d] = request[d] \/ (request[d] = "pending" /\ request'[d] = "cancelled")
    BY <1>1, ForNode DEF Stop
  <2>2. Kind[r] = "chat" /\ RoundOf[d] = r => request'[d] # "pending"
    BY <1>1, ForNode DEF Stop
  <2> QED
    BY <2>1, <2>2 DEF Stop, Untouched
<1> QED
  BY <1>2, <1>3, UntouchedGood, AllCalls DEF IInv, Stop

LEMMA CancelRoundIInv == ASSUME IInv, NEW r \in Rounds, CancelRound(r) PROVE IInv'
<1>1. request' = CancelledWith(InFlight(r))
  BY DEF CancelRound
<1>2. TypeOK'
  BY <1>1, Cancelled DEF IInv, TypeOK, CancelRound, Statuses
<1>3. ASSUME NEW d \in Calls PROVE Good(d)'
  <2>1. Good(d) /\ RoundOf[d] \in Rounds
    BY RoundOfType DEF IInv
  <2>2. /\ request'[d] = request[d] \/ (request[d] = "pending" /\ request'[d] = "cancelled")
        /\ d \in InFlight(r) => request'[d] # "pending"
    BY <1>1, Cancelled DEF IInv
  <2>3. round'[RoundOf[d]] = IF RoundOf[d] = r THEN "cancelling" ELSE round[RoundOf[d]]
    BY <2>1 DEF IInv, TypeOK, CancelRound
  <2>4. CASE d \in InFlight(r)
    <3>1. call[d] \in {"asking", "executing"} /\ RoundOf[d] = r /\ call'[d] = "cancelling"
      BY <2>4 DEF CancelRound, InFlight
    <3> QED
      BY <2>1, <2>2, <2>3, <2>4, <3>1 DEF CancelRound, Good, Asks, Answered, Placed, Ran, Kept
  <2>5. CASE d \notin InFlight(r)
    <3>1. \/ call[d] = "idle" /\ call'[d] = "cancelled" /\ RoundOf[d] = r
          \/ call'[d] = call[d] /\ (RoundOf[d] = r => call[d] # "idle")
      BY <2>5 DEF CancelRound
    <3>2. RoundOf[d] = r => call[d] \notin {"asking", "executing", "cancelling"}
      BY <2>1, <2>5 DEF CancelRound, InFlight, Good, Placed
    <3> QED
      BY <2>1, <2>2, <2>3, <2>5, <3>1, <3>2, WaveKept
         DEF CancelRound, Good, Asks, Answered, Placed, Ran, Kept
  <2> QED
    BY <2>4, <2>5
<1> QED
  BY <1>2, <1>3, AllCalls DEF CancelRound

-----------------------------------------------------------------------------
(* The theorems *)

LEMMA StepIInv == IInv /\ [Next]_vars => IInv'
<1> SUFFICES ASSUME IInv, [Next]_vars PROVE IInv'
  OBVIOUS
<1>1. ASSUME NEW c \in Calls, CallStep(c) PROVE IInv'
  BY <1>1, StartCallIInv, CallWakesIInv, ExecutionEndsIInv, CallCancelledIInv,
     WaiterStartsIInv, WaiterCleanedUpIInv, WaiterWakesIInv DEF CallStep
<1>2. ASSUME NEW c \in Calls, NEW decision \in {"denied", "once", "session"}, Decide(c, decision)
      PROVE  IInv'
  BY <1>2, DecideIInv
<1>3. ASSUME NEW r \in Rounds,
             NextWave(r) \/ NoticeStop(r) \/ TurnCancelled(r) \/ RoundCancelled(r) \/ Stop(r)
      PROVE  IInv'
  BY <1>3, NextWaveIInv, CancelRoundIInv, RoundCancelledIInv, StopIInv DEF NoticeStop, TurnCancelled
<1>4. CASE UNCHANGED vars
  BY <1>4, StutterIInv
<1> QED
  BY <1>1, <1>2, <1>3, <1>4 DEF Next

\* The invariant holds in every reachable state.
THEOREM Invariance == Spec => []IInv
  BY InitIInv, StepIInv, PTL DEF Spec

\* Type correctness of the rounds, the calls and the approval manager.
THEOREM TypeCorrect == Spec => []TypeOK
<1>1. IInv => TypeOK
  BY DEF IInv
<1> QED
  BY <1>1, Invariance, PTL

\* No request stays in the approval manager when its call or its round has ended.
THEOREM RequestsAreAwaited == Spec => []RequestIsAwaited
<1>1. IInv => RequestIsAwaited
  BY DEF IInv, TypeOK, RequestIsAwaited, Good, Asks, Placed
<1> QED
  BY <1>1, Invariance, PTL

\* No tool is executed without the permission of the engine or of a user.
THEOREM ToolsArePermitted == Spec => []RunsOnlyPermitted
<1>1. IInv => RunsOnlyPermitted
  BY DEF IInv, Permitted, RunsOnlyPermitted
<1> QED
  BY <1>1, Invariance, PTL

\* What a user was told to have decided is what happens.
THEOREM DecisionsAreKept == Spec => []DecisionIsKept
<1>1. IInv => DecisionIsKept
  BY DEF IInv, Good, Kept, DecisionIsKept
<1> QED
  BY <1>1, Invariance, PTL

\* A chat turn that was stopped asks its user for nothing.
THEOREM StoppedTurnsAskNobody == Spec => []StoppedTurnAsksNobody
<1>1. IInv => StoppedTurnAsksNobody
  BY DEF IInv, Good, Kept, StoppedTurnAsksNobody
<1> QED
  BY <1>1, Invariance, PTL

\* No decision is accepted for a call that has been cancelled.
THEOREM DecisionsComeInTime == Spec => AcceptedWhileAsking
<1>1. IInv /\ [Next]_vars =>
        \A c \in Calls : told'[c] # told[c] => call[c] = "asking"
  <2> SUFFICES ASSUME IInv, [Next]_vars, NEW c \in Calls, told'[c] # told[c]
               PROVE  call[c] = "asking"
    OBVIOUS
  <2>1. PICK d \in Calls, decision \in {"denied", "once", "session"} : Decide(d, decision)
    BY DEF Next, vars, approvals, CallStep, StartCall, CallWakes, ExecutionEnds, CallCancelled,
       WaiterStarts, WaiterCleanedUp, WaiterWakes, NextWave, NoticeStop, TurnCancelled,
       CancelRound, RoundCancelled, Stop
  <2>2. d = c /\ request[c] = "pending"
    BY <2>1 DEF IInv, TypeOK, Decide
  <2> QED
    BY <2>2 DEF IInv, TypeOK, Good, Asks
<1> QED
  BY <1>1, Invariance, PTL DEF Spec, AcceptedWhileAsking

HIDE DEF Permissions, Decisions

-----------------------------------------------------------------------------
(* ChatTurn *)

USE ChatTurnAssumption

RunStatuses == {"none", "queued", "running"} \cup Finished
Messages == {"none", "completed", "stopped", "error"}
Approvals == {"none", "waiting_approval", "approved", "rejected"}
Rows == Approvals \cup {"running", "complete", "stopped", "error"}

\* A run has its node exactly when it has begun, and a message when it has ended.
InOrder ==
    \A r \in ChatRuns :
        /\ run[r] \in {"none", "queued"} => r \notin bound
        /\ run[r] \notin Finished => saved[r] = "none"

\* The run at work is the one of the turn.
AtWork ==
    \A r \in ChatRuns : run[r] = "running" <=> (turn.at # "over" /\ turn.of = r)

Working == turn.at # "over" => turn.of \in bound

InRound == turn.at = "tools" => toolRound # 0

ContinuesTheFirst == run["first"] \notin Finished => run["again"] = "none"

\* Nobody asks a run to stop that does not exist.
AskedExist == \A r \in toStop : run[r] # "none"

TurnInv ==
    /\ TurnTypeOK /\ InOrder /\ AtWork /\ Working /\ InRound /\ ContinuesTheFirst
    /\ AskedExist /\ FailureIsTold /\ StopReaches /\ StoppedIsNotContinued

-----------------------------------------------------------------------------
(* The two ways on from a round *)

\* What the end of a turn needs of the step around it
LEMMA FinishKeeps ==
  ASSUME TurnInv, NEW r \in ChatRuns,
         NEW message \in {"completed", "stopped", "error"}, NEW status \in Finished, NEW retryable \in BOOLEAN,
         Finish(r, message, status, retryable),
         run[r] = "queued" \/ (turn.at # "over" /\ turn.of = r),
         \A q \in ChatRuns : run[q] = "running" => q = r,
         bound' = bound \cup {r}, toStop' = toStop,
         halted' \in BOOLEAN, text' \in Seq(Nat), outcome' \in {"open"} \cup Model!Outcomes, requests' \in Nat,
         toolRound' \in 0..MaxToolRounds, nudges' \in 0..MaxNudges,
         approval' \in [ToolRounds -> Approvals], results' \subseteq ToolRounds,
         status = "failed" => message # "completed",
         message = "error" => status = "failed",
         status = "failed" /\ retryable => "first" \notin toStop
  PROVE  TurnInv'
<1>1. TurnTypeOK /\ InOrder
  BY DEF TurnInv
<1>2. /\ turn' = [of |-> r, at |-> "over"]
      /\ saved' \in [ChatRuns -> Messages]
      /\ \A q \in ChatRuns : saved'[q] = IF q = r THEN message ELSE saved[q]
  BY <1>1 DEF Finish, TurnTypeOK, Messages
<1>3. /\ run' \in [ChatRuns -> RunStatuses]
      /\ run'[r] = status
      /\ \A q \in ChatRuns \ {r} :
            \/ run'[q] = run[q]
            \/ q = "again" /\ r = "first" /\ run'[q] = "queued" /\ status = "failed" /\ retryable
  BY <1>1 DEF Finish, TurnTypeOK, RunStatuses, Continued, ChatRuns
<1>4. row' \in [ToolRounds -> Rows]
  BY <1>1 DEF Finish, Settled, TurnTypeOK, Rows, Approvals
<1>5. run[r] \in {"queued", "running"}
  BY DEF TurnInv, AtWork
<1>6. r = "first" => run["again"] = "none"
  BY <1>5 DEF TurnInv, ContinuesTheFirst, Finished
<1>7. TurnTypeOK'
  BY <1>1, <1>2, <1>3, <1>4 DEF TurnTypeOK, RunStatuses, Messages, Approvals, Rows
<1>8. InOrder'
  BY <1>1, <1>2, <1>3, <1>6 DEF InOrder, Finished, ChatRuns
<1>9. AtWork' /\ Working' /\ InRound' /\ StopReaches'
  <2>1. \A q \in ChatRuns : run'[q] # "running"
    BY <1>3 DEF Finished
  <2> QED  BY <1>2, <2>1 DEF AtWork, Working, InRound, StopReaches
<1>10. ContinuesTheFirst'
  <2>1. CASE r = "first"
    BY <1>3, <2>1 DEF ContinuesTheFirst
  <2>2. CASE r # "first"
    <3>1. run["first"] \in Finished
      BY <1>5, <2>2 DEF TurnInv, ContinuesTheFirst, ChatRuns
    <3> QED  BY <1>3, <2>2, <3>1 DEF ContinuesTheFirst, ChatRuns, Finished
  <2> QED  BY <2>1, <2>2
<1>11. AskedExist'
  BY <1>1, <1>3 DEF TurnInv, AskedExist, Finished, TurnTypeOK
<1>12. FailureIsTold'
  <2> SUFFICES ASSUME NEW q \in bound'
               PROVE  /\ run'[q] = "failed" => saved'[q] # "completed"
                      /\ saved'[q] = "error" => run'[q] = "failed"
    BY DEF FailureIsTold
  <2>1. CASE q = r
    BY <1>2, <1>3, <2>1
  <2>2. CASE q # r
    <3>1. q \in bound /\ q \in ChatRuns \ {r}
      BY <1>1, <2>2 DEF TurnTypeOK
    <3>2. run[q] # "none"
      BY <1>1, <3>1 DEF InOrder
    <3>3. run'[q] = run[q] /\ saved'[q] = saved[q]
      BY <1>2, <1>3, <1>6, <3>1, <3>2
    <3> QED  BY <3>1, <3>3 DEF TurnInv, FailureIsTold
  <2> QED  BY <2>1, <2>2
<1>13. StoppedIsNotContinued'
  <2>1. CASE r = "first"
    <3>1. "again" \in ChatRuns \ {r} /\ "first" \in ChatRuns
      BY <2>1 DEF ChatRuns
    <3> QED  BY <1>3, <1>6, <2>1, <3>1 DEF StoppedIsNotContinued
  <2>2. CASE r # "first"
    <3>1. run["again"] # "none"
      BY <1>5, <2>2 DEF ChatRuns
    <3> QED  BY <3>1 DEF TurnInv, StoppedIsNotContinued
  <2> QED  BY <2>1, <2>2
<1> QED  BY <1>7, <1>8, <1>9, <1>10, <1>11, <1>12, <1>13 DEF TurnInv

LEMMA NextRoundKeeps ==
  ASSUME TurnInv, NEW r \in ChatRuns, NEW halts \in BOOLEAN, NextRound(r, halts),
         run[r] = "queued" \/ (turn.at # "over" /\ turn.of = r),
         \A q \in ChatRuns : run[q] = "running" => q = r,
         bound' = bound \cup {r}, toStop' = toStop, halted' = halts,
         r \in toStop => halts,
         toolRound' \in 0..MaxToolRounds, nudges' \in 0..MaxNudges,
         approval' \in [ToolRounds -> Approvals], results' \subseteq ToolRounds
  PROVE  TurnInv'
<1>1. TurnTypeOK /\ InOrder
  BY DEF TurnInv
<1>2. CASE Finish(r, "stopped", "cancelled", FALSE) /\ UNCHANGED answer
  <2>1. text' \in Seq(Nat) /\ outcome' \in {"open"} \cup Model!Outcomes /\ requests' \in Nat
    BY <1>1, <1>2 DEF TurnTypeOK, answer
  <2> QED  BY <1>2, <2>1, FinishKeeps DEF Finished
<1>3. CASE ~halts
  <2>1. /\ turn' = [of |-> r, at |-> "asking"] /\ run' = [run EXCEPT ![r] = "running"]
        /\ text' = <<>> /\ outcome' = "open" /\ requests' = requests + 1
        /\ row' = [k \in ToolRounds |-> IF k > toolRound' THEN "none" ELSE row[k]] /\ saved' = saved
    BY <1>3 DEF NextRound, HaltedAtTop
  <2>2. run' \in [ChatRuns -> RunStatuses] /\ \A q \in ChatRuns : run'[q] = IF q = r THEN "running" ELSE run[q]
    BY <1>1, <2>1 DEF TurnTypeOK, RunStatuses
  <2>3. run[r] \in {"queued", "running"} /\ run["first"] # "none"
    BY DEF TurnInv, AtWork, ContinuesTheFirst, ChatRuns, Finished
  <2>4. TurnTypeOK'
    <3>1. row' \in [ToolRounds -> Rows] /\ text' \in Seq(Nat)
      BY <1>1, <2>1 DEF TurnTypeOK, Rows, Approvals
    <3>2. requests' \in Nat
      BY <1>1, <2>1 DEF TurnTypeOK
    <3>3. turn' \in [of : ChatRuns, at : {"over", "asking", "tools"}]
      BY <2>1
    <3>4. bound' \subseteq ChatRuns /\ toStop' \subseteq ChatRuns /\ saved' \in [ChatRuns -> Messages]
      BY <1>1, <2>1 DEF TurnTypeOK, Messages
    <3> QED  BY <2>1, <2>2, <3>1, <3>2, <3>3, <3>4 DEF TurnTypeOK, RunStatuses, Messages, Approvals, Rows
  <2>5. InOrder'
    BY <1>1, <2>1, <2>2, <2>3 DEF InOrder, Finished
  <2>6. AtWork' /\ Working' /\ InRound'
    BY <2>1, <2>2 DEF AtWork, Working, InRound
  <2>7. ContinuesTheFirst'
    <3>1. r = "again" => run["first"] \in Finished
      BY <2>3 DEF TurnInv, ContinuesTheFirst
    <3>2. CASE r = "first"
      <4>1. run["again"] = "none"
        BY <2>3, <3>2 DEF TurnInv, ContinuesTheFirst, Finished
      <4> QED  BY <2>2, <3>2, <4>1 DEF ContinuesTheFirst, ChatRuns
    <3>3. CASE r = "again"
      BY <2>2, <3>1, <3>3 DEF ContinuesTheFirst, ChatRuns
    <3> QED  BY <3>2, <3>3 DEF ChatRuns
  <2>8. AskedExist'
    BY <1>1, <2>2 DEF TurnInv, AskedExist, TurnTypeOK
  <2>9. FailureIsTold'
    BY <1>1, <2>1, <2>2, <2>3 DEF TurnInv, FailureIsTold, InOrder, Finished, TurnTypeOK
  <2>10. StopReaches'
    BY <1>3, <2>1 DEF StopReaches
  <2>11. StoppedIsNotContinued'
    <3>1. r = "first" => "first" \notin toStop
      BY <1>3
    <3>2. r = "again" => "first" \notin toStop
      BY <2>3 DEF TurnInv, StoppedIsNotContinued
    <3> QED  BY <3>1, <3>2 DEF StoppedIsNotContinued, ChatRuns
  <2> QED  BY <2>4, <2>5, <2>6, <2>7, <2>8, <2>9, <2>10, <2>11 DEF TurnInv
<1> QED  BY <1>2, <1>3 DEF NextRound, HaltedAtTop

\* Steps within a turn, which touch neither the runs nor what was saved
LEMMA WithinKeeps ==
  ASSUME TurnInv, UNCHANGED <<run, toStop, bound, halted, requests, nudges, saved>>,
         turn' = turn \/ (turn.at # "over" /\ turn' = [of |-> turn.of, at |-> "tools"]),
         text' \in Seq(Nat), outcome' \in {"open"} \cup Model!Outcomes,
         toolRound' \in 0..MaxToolRounds, turn'.at = "tools" => toolRound' # 0,
         approval' \in [ToolRounds -> Approvals], results' \subseteq ToolRounds, row' \in [ToolRounds -> Rows]
  PROVE  TurnInv'
<1>1. turn.of \in ChatRuns /\ turn' \in [of : ChatRuns, at : {"over", "asking", "tools"}]
  BY DEF TurnInv, TurnTypeOK
<1>2. TurnTypeOK'
  BY <1>1 DEF TurnInv, TurnTypeOK, Approvals, Rows
<1>3. AtWork' /\ Working' /\ InRound' /\ StopReaches'
  BY DEF TurnInv, AtWork, Working, InRound, StopReaches
<1> QED  BY <1>2, <1>3 DEF TurnInv, InOrder, ContinuesTheFirst, AskedExist, FailureIsTold, StoppedIsNotContinued

-----------------------------------------------------------------------------
(* The steps of a turn *)

LEMMA BeginKeeps ==
  ASSUME TurnInv, NEW r \in ChatRuns, Begin(r)
  PROVE  TurnInv'
<1>1. run[r] = "queued"
  BY DEF Begin
<1>2. \A q \in ChatRuns : run[q] # "running"
  <2>1. r = "first" => run["again"] = "none"
    BY <1>1 DEF TurnInv, ContinuesTheFirst, Finished
  <2>2. r = "again" => run["first"] \in Finished
    BY <1>1 DEF TurnInv, ContinuesTheFirst
  <2> QED  BY <1>1, <2>1, <2>2 DEF ChatRuns, Finished
<1>3. /\ bound' = bound \cup {r} /\ halted' = StopFound(r) /\ toStop' = toStop
      /\ toolRound' = 0 /\ nudges' = 0 /\ approval' = NoTools /\ results' = {}
      /\ NextRound(r, StopFound(r))
  BY DEF Begin
<1>4. approval' \in [ToolRounds -> Approvals] /\ toolRound' \in 0..MaxToolRounds /\ nudges' \in 0..MaxNudges
  BY <1>3 DEF NoTools, Approvals
<1>5. StopFound(r) \in BOOLEAN /\ (r \in toStop => StopFound(r))
  BY DEF StopFound
<1> QED  BY <1>1, <1>2, <1>3, <1>4, <1>5, NextRoundKeeps

\* What is known of a turn in progress
LEMMA InTurn ==
  ASSUME TurnInv, NEW r \in ChatRuns, At(r, "asking") \/ At(r, "tools")
  PROVE  /\ turn.at # "over" /\ turn.of = r /\ r \in bound /\ bound = bound \cup {r}
         /\ \A q \in ChatRuns : run[q] = "running" => q = r
         /\ r \in toStop => halted
         /\ halted \in BOOLEAN /\ text \in Seq(Nat) /\ outcome \in {"open"} \cup Model!Outcomes
         /\ requests \in Nat /\ toolRound \in 0..MaxToolRounds /\ nudges \in 0..MaxNudges
         /\ approval \in [ToolRounds -> Approvals] /\ results \subseteq ToolRounds
         /\ row \in [ToolRounds -> Rows]
         /\ At(r, "tools") => toolRound # 0
<1>1. turn.at # "over" /\ turn.of = r
  BY DEF At
<1>2. TurnTypeOK /\ AtWork /\ Working /\ InRound /\ StopReaches
  BY DEF TurnInv
<1> QED  BY <1>1, <1>2 DEF At, InRound, TurnTypeOK, AtWork, Working, StopReaches, Approvals, Rows

LEMMA AnswersKeeps ==
  ASSUME TurnInv, NEW r \in ChatRuns, Answers(r)
  PROVE  TurnInv'
<1>1. At(r, "asking")
  BY DEF Answers, ModelFails, ModelStops, AnswerIncomplete, FinalAnswer, TooManyRounds, AnswerEnds, Nudge, AnswerCalls
<1>2. ASSUME NEW how \in Model!Outcomes, NEW message \in {"completed", "stopped", "error"},
             NEW status \in Finished, NEW retryable \in BOOLEAN,
             AnswerEnds(r, how, message, status, retryable),
             status = "failed" => message # "completed",
             message = "error" => status = "failed",
             retryable => how = "error"
      PROVE  TurnInv'
  <2>1. /\ Model!End(how) /\ Finish(r, message, status, retryable)
        /\ UNCHANGED <<toStop, bound, halted, requests, nudges, toolRound, approval, results>>
    BY <1>2 DEF AnswerEnds
  <2>2. text' = text /\ outcome' = how /\ (how = "error" => ~halted)
    BY <2>1 DEF Model!End
  <2>3. retryable => "first" \notin toStop
    <3>1. r = "first" /\ retryable => "first" \notin toStop
      BY <1>1, <1>2, <2>2, InTurn
    <3>2. r = "again" => run["again"] # "none"
      BY <1>1, InTurn DEF TurnInv, AtWork
    <3> QED  BY <3>1, <3>2 DEF TurnInv, StoppedIsNotContinued, ChatRuns
  <2> QED  BY <1>1, <1>2, <2>1, <2>2, <2>3, InTurn, FinishKeeps
<1>3. /\ StatusAtEnd("error") \in {"stopped", "error"} /\ StatusAtEnd("completed") \in {"stopped", "completed"}
      /\ {"complete", "error", "stopped"} = Model!Outcomes /\ {"completed", "failed", "cancelled"} = Finished
  BY DEF StatusAtEnd, Model!Outcomes, Finished
<1>4. CASE ModelFails(r)
  <2>1. PICK retryable \in BOOLEAN : AnswerEnds(r, "error", StatusAtEnd("error"), "failed", retryable)
    BY <1>4 DEF ModelFails
  <2> QED  BY <1>2, <1>3, <2>1
<1>5. CASE ModelStops(r)
  BY <1>2, <1>3, <1>5 DEF ModelStops
<1>6. CASE AnswerIncomplete(r)
  BY <1>2, <1>3, <1>6 DEF AnswerIncomplete
<1>7. CASE FinalAnswer(r)
  BY <1>2, <1>3, <1>7 DEF FinalAnswer
<1>8. CASE TooManyRounds(r)
  BY <1>2, <1>3, <1>8 DEF TooManyRounds
<1>9. CASE Nudge(r)
  <2>1. /\ nudges < MaxNudges /\ nudges' = nudges + 1 /\ NextRound(r, halted)
        /\ UNCHANGED <<toStop, bound, halted, toolRound, approval, results>>
    BY <1>9 DEF Nudge
  <2>2. nudges' \in 0..MaxNudges
    BY <1>1, <2>1, InTurn
  <2> QED  BY <1>1, <2>1, <2>2, InTurn, NextRoundKeeps
<1>10. CASE AnswerCalls(r)
  <2>1. /\ toolRound < MaxToolRounds /\ Model!End("complete") /\ toolRound' = toolRound + 1
        /\ row' = [row EXCEPT ![toolRound'] = "running"] /\ turn' = [of |-> r, at |-> "tools"]
        /\ UNCHANGED <<run, toStop, bound, halted, requests, nudges, approval, results, saved>>
    BY <1>10 DEF AnswerCalls
  <2>2. text' = text /\ outcome' = "complete" /\ "complete" \in Model!Outcomes
    BY <2>1 DEF Model!End, Model!Outcomes
  <2>3. toolRound' \in 0..MaxToolRounds
    BY <1>1, <2>1, InTurn
  <2>4. row' \in [ToolRounds -> Rows]
    BY <1>1, <2>1, InTurn DEF Rows
  <2>5. toolRound' # 0
    <3>1. toolRound \in Nat
      BY <1>1, InTurn
    <3> QED  BY <2>1, <3>1
  <2> QED  BY <1>1, <2>1, <2>2, <2>3, <2>4, <2>5, InTurn, WithinKeeps
<1> QED  BY <1>4, <1>5, <1>6, <1>7, <1>8, <1>9, <1>10 DEF Answers

LEMMA ShowsKeeps ==
  ASSUME TurnInv, NEW r \in ChatRuns, ModelShows(r)
  PROVE  TurnInv'
<1>1. /\ At(r, "asking") /\ text' = Append(text, Len(text) + 1) /\ outcome' = outcome
      /\ UNCHANGED <<run, toStop, bound, turn, halted, requests, nudges, tools, saved>>
  BY DEF ModelShows, Model!Show
<1>2. text' \in Seq(Nat)
  <2>1. text \in Seq(Nat)
    BY <1>1, InTurn
  <2> QED  BY <1>1, <2>1
<1>3. turn.at # "tools"
  BY <1>1 DEF At
<1> QED  BY <1>1, <1>2, <1>3, InTurn, WithinKeeps DEF tools

LEMMA ToolsKeeps ==
  ASSUME TurnInv, NEW r \in ChatRuns,
         \/ \E status \in {"waiting_approval", "approved", "rejected"} : Approval(r, status)
         \/ ToolsDone(r, TRUE) \/ ToolsDone(r, FALSE)
         \/ ToolsStopped(r) \/ ToolsFail(r) \/ ToolsCancelled(r)
  PROVE  TurnInv'
<1>1. At(r, "tools")
  BY DEF Approval, ToolsDone, ToolsStopped, ToolsFail, ToolsCancelled, ToolsEnd
<1>2. ASSUME NEW status \in {"waiting_approval", "approved", "rejected"}, Approval(r, status) PROVE TurnInv'
  <2>1. approval' = [approval EXCEPT ![toolRound] = status]
        /\ UNCHANGED <<run, toStop, bound, turn, halted, answer, nudges, toolRound, results, row, saved>>
    BY <1>2 DEF Approval
  <2>2. approval' \in [ToolRounds -> Approvals]
    BY <1>1, <2>1, InTurn DEF Approvals
  <2> QED  BY <1>1, <2>1, <2>2, InTurn, WithinKeeps DEF answer
<1>3. ASSUME NEW message \in {"completed", "stopped", "error"}, NEW status \in Finished,
             Finish(r, message, status, FALSE), UNCHANGED <<toStop, bound, halted, answer, nudges, toolRound>>,
             results' \subseteq ToolRounds, approval' \in [ToolRounds -> Approvals],
             status = "failed" => message # "completed", message = "error" => status = "failed"
      PROVE  TurnInv'
  <2>1. text' = text /\ outcome' = outcome /\ requests' = requests
    BY <1>3 DEF answer
  <2> QED  BY <1>1, <1>3, <2>1, InTurn, FinishKeeps
<1>4. ASSUME NEW blocking \in BOOLEAN, ToolsDone(r, blocking) PROVE TurnInv'
  <2>1. /\ results' = results \cup {toolRound} /\ approval[toolRound] # "waiting_approval"
        /\ UNCHANGED <<toStop, bound, halted, nudges, toolRound, approval>>
    BY <1>4 DEF ToolsDone
  <2>2. results' \subseteq ToolRounds
    <3>1. toolRound \in ToolRounds
      BY <1>1, InTurn DEF ToolRounds
    <3> QED  BY <1>1, <2>1, <3>1, InTurn
  <2>3. CASE blocking
    <3>1. Finish(r, StatusAtEnd("completed"), "completed", FALSE) /\ UNCHANGED answer
      BY <1>4, <2>3 DEF ToolsDone
    <3>2. StatusAtEnd("completed") \in {"completed", "stopped"} /\ "completed" \in Finished
      BY DEF StatusAtEnd, Finished
    <3> QED  BY <1>1, <1>3, <2>1, <2>2, <3>1, <3>2, InTurn
  <2>4. CASE ~blocking
    <3>1. NextRound(r, halted)
      BY <1>4, <2>4 DEF ToolsDone
    <3> QED  BY <1>1, <2>1, <2>2, <3>1, InTurn, NextRoundKeeps
  <2> QED  BY <2>3, <2>4
<1>5. CASE ToolsStopped(r)
  <2>1. ToolsEnd(r, "stopped", "cancelled") /\ approval' \in [ToolRounds -> Approvals]
    BY <1>1, <1>5, InTurn DEF ToolsStopped, Approvals
  <2> QED  BY <1>1, <1>3, <2>1, InTurn DEF ToolsEnd, Finished
<1>6. CASE ToolsFail(r)
  BY <1>1, <1>3, <1>6, InTurn DEF ToolsFail, ToolsEnd, Finished
<1>7. CASE ToolsCancelled(r)
  BY <1>1, <1>3, <1>7, InTurn DEF ToolsCancelled, ToolsEnd, Finished
<1> QED  BY <1>2, <1>4, <1>5, <1>6, <1>7

LEMMA RestKeeps ==
  ASSUME TurnInv, NEW r \in ChatRuns, Create \/ Refuse(r) \/ StopTurn(r) \/ UNCHANGED turnVars
  PROVE  TurnInv'
<1>1. TurnTypeOK
  BY DEF TurnInv
<1>2. CASE Create
  <2>1. /\ run["first"] = "none" /\ run' = [run EXCEPT !["first"] = "queued"]
        /\ UNCHANGED <<toStop, bound, turn, halted, answer, nudges, tools, saved>>
    BY <1>2 DEF Create
  <2>2. TurnTypeOK'
    BY <1>1, <2>1 DEF TurnTypeOK, answer, tools
  <2>3. \A q \in ChatRuns : run'[q] = IF q = "first" THEN "queued" ELSE run[q]
    BY <1>1, <2>1 DEF TurnTypeOK
  <2>4. "first" \notin bound /\ saved["first"] = "none" /\ "first" \in ChatRuns /\ run["again"] = "none"
    BY <2>1 DEF TurnInv, InOrder, ContinuesTheFirst, ChatRuns, Finished
  <2> QED  BY <1>1, <2>1, <2>2, <2>3, <2>4 DEF TurnInv, InOrder, AtWork, Working, InRound, ContinuesTheFirst,
               AskedExist, FailureIsTold, StopReaches, StoppedIsNotContinued, TurnTypeOK, ChatRuns, Finished, tools
<1>3. CASE Refuse(r)
  <2>1. /\ run[r] = "queued" /\ run' = [run EXCEPT ![r] = "failed"]
        /\ UNCHANGED <<toStop, bound, turn, halted, answer, nudges, tools, saved>>
    BY <1>3 DEF Refuse
  <2>2. TurnTypeOK'
    BY <1>1, <2>1 DEF TurnTypeOK, answer, tools, Finished
  <2>3. \A q \in ChatRuns : run'[q] = IF q = r THEN "failed" ELSE run[q]
    BY <1>1, <2>1 DEF TurnTypeOK
  <2>4. r \notin bound
    BY <2>1 DEF TurnInv, InOrder
  <2>5. r = "again" => run["first"] \in Finished
    BY <2>1 DEF TurnInv, ContinuesTheFirst
  <2>6. InOrder' /\ AtWork' /\ Working' /\ InRound' /\ StopReaches'
    BY <2>1, <2>3, <2>4 DEF TurnInv, InOrder, AtWork, Working, InRound, StopReaches, Finished, tools
  <2>7. ContinuesTheFirst' /\ AskedExist' /\ StoppedIsNotContinued'
    BY <1>1, <2>1, <2>3, <2>5 DEF TurnInv, ContinuesTheFirst, AskedExist, StoppedIsNotContinued,
                                  ChatRuns, Finished, TurnTypeOK
  <2>8. FailureIsTold'
    BY <1>1, <2>1, <2>3, <2>4 DEF TurnInv, FailureIsTold, TurnTypeOK
  <2> QED  BY <2>2, <2>6, <2>7, <2>8 DEF TurnInv
<1>4. CASE StopTurn(r)
  <2>1. /\ run[r] # "none"
        /\ toStop' = IF run[r] \in Finished THEN toStop ELSE toStop \cup {r}
        /\ halted' = (halted \/ (r \in bound /\ turn.at # "over"))
        /\ UNCHANGED <<run, bound, turn, answer, nudges, tools, saved>>
    BY <1>4 DEF StopTurn
  <2>2. TurnTypeOK'
    BY <1>1, <2>1 DEF TurnTypeOK, answer, tools
  <2>3. StopReaches'
    BY <1>1, <2>1 DEF TurnInv, StopReaches, Working
  <2>4. StoppedIsNotContinued'
    BY <2>1 DEF TurnInv, StoppedIsNotContinued, ContinuesTheFirst
  <2>5. AskedExist'
    BY <2>1 DEF TurnInv, AskedExist
  <2> QED  BY <2>1, <2>2, <2>3, <2>4, <2>5 DEF TurnInv, InOrder, AtWork, Working, InRound, ContinuesTheFirst,
               FailureIsTold, tools
<1>5. CASE UNCHANGED turnVars
  BY <1>5 DEF turnVars, answer, tools, TurnInv, TurnTypeOK, InOrder, AtWork, Working, InRound, ContinuesTheFirst,
              AskedExist, FailureIsTold, StopReaches, StoppedIsNotContinued
<1> QED  BY <1>2, <1>3, <1>4, <1>5

LEMMA TurnInvariance == TurnSpec => []TurnInv
<1>1. TurnInit => TurnInv
  <2> SUFFICES ASSUME TurnInit PROVE TurnInv
    OBVIOUS
  <2>1. TurnTypeOK
    <3>1. text \in Seq(Nat) /\ outcome = "open" /\ requests \in Nat
      BY DEF TurnInit
    <3>2. /\ approval \in [ToolRounds -> Approvals] /\ row \in [ToolRounds -> Rows] /\ results \subseteq ToolRounds
          /\ toolRound \in 0..MaxToolRounds /\ nudges \in 0..MaxNudges
      BY DEF TurnInit, NoTools, Approvals, Rows
    <3>3. /\ run \in [ChatRuns -> RunStatuses] /\ saved \in [ChatRuns -> Messages]
          /\ turn \in [of : ChatRuns, at : {"over", "asking", "tools"}] /\ halted \in BOOLEAN
          /\ toStop = {} /\ bound = {}
      BY DEF TurnInit, ChatRuns, RunStatuses, Messages
    <3> QED  BY <3>1, <3>2, <3>3 DEF TurnTypeOK, RunStatuses, Messages, Approvals, Rows
  <2>2. InOrder /\ FailureIsTold /\ AskedExist
    BY DEF TurnInit, InOrder, FailureIsTold, AskedExist
  <2>3. AtWork /\ Working /\ InRound /\ StopReaches
    BY DEF TurnInit, AtWork, Working, InRound, StopReaches
  <2>4. ContinuesTheFirst /\ StoppedIsNotContinued
    BY DEF TurnInit, ContinuesTheFirst, StoppedIsNotContinued, ChatRuns
  <2> QED  BY <2>1, <2>2, <2>3, <2>4 DEF TurnInv
<1>2. TurnInv /\ [TurnNext]_turnVars => TurnInv'
  <2> SUFFICES ASSUME TurnInv, [TurnNext]_turnVars PROVE TurnInv'
    OBVIOUS
  <2>1. "first" \in ChatRuns
    BY DEF ChatRuns
  <2>2. ASSUME NEW r \in ChatRuns, TurnStep(r) PROVE TurnInv'
    BY <2>2, BeginKeeps, ShowsKeeps, AnswersKeeps, ToolsKeeps, RestKeeps DEF TurnStep
  <2> QED  BY <2>1, <2>2, RestKeeps DEF TurnNext
<1> QED  BY <1>1, <1>2, PTL DEF TurnSpec

-----------------------------------------------------------------------------
(* Theorems *)

\* The saved message of a turn (_finalize_assistant_turn) and the status of its
\* run (finish_run) never contradict each other about a failure.
THEOREM FailuresAreTold == TurnSpec => []FailureIsTold
<1>1. TurnInv => FailureIsTold
  BY DEF TurnInv
<1> QED  BY <1>1, TurnInvariance, PTL

\* stop_run_tree reaches the turn: a turn in progress whose run a user asked to
\* stop, before or after bind_target_node, has its stream controller set.
THEOREM StopsReach == TurnSpec => []StopReaches
<1>1. TurnInv => StopReaches
  BY DEF TurnInv
<1> QED  BY <1>1, TurnInvariance, PTL

\* _continue_failed_chat_run does not take up again what a user stopped.
THEOREM StoppedStaysStopped == TurnSpec => []StoppedIsNotContinued
<1>1. TurnInv => StoppedIsNotContinued
  BY DEF TurnInv
<1> QED  BY <1>1, TurnInvariance, PTL

\* No round, reminder of the plan or wave of tools of send_message_stream asks
\* the model again once the turn is stopped.
THEOREM NoRoundAfterAStop == TurnSpec => NoRoundAfterStop
<1>1. ASSUME NEW r \in ChatRuns, NEW halts \in BOOLEAN, NextRound(r, halts), requests' # requests
      PROVE  ~halts
  BY <1>1 DEF NextRound, HaltedAtTop, answer
<1>2. ASSUME NEW r \in ChatRuns, TurnStep(r), requests' # requests PROVE ~halted'
  <2>1. CASE Begin(r)
    <3>1. NextRound(r, StopFound(r)) /\ halted' = StopFound(r) /\ StopFound(r) \in BOOLEAN
      BY <2>1 DEF Begin, StopFound
    <3> QED  BY <1>1, <1>2, <3>1
  <2>2. CASE Nudge(r) \/ ToolsDone(r, FALSE)
    <3>1. NextRound(r, halted) /\ halted' = halted
      BY <2>2 DEF Nudge, ToolsDone
    <3>2. CASE halted
      BY <1>2, <3>1, <3>2 DEF NextRound, HaltedAtTop, answer
    <3>3. CASE ~halted
      BY <3>1, <3>3
    <3> QED  BY <3>2, <3>3
  <2> QED  BY <1>2, <2>1, <2>2 DEF TurnStep, Refuse, ModelShows, Answers, ModelFails, ModelStops, AnswerIncomplete,
               FinalAnswer, TooManyRounds, AnswerEnds, AnswerCalls, Approval, ToolsDone, ToolsStopped, ToolsFail,
               ToolsCancelled, ToolsEnd, StopTurn, answer
<1>3. [TurnNext]_turnVars => [requests' # requests => ~halted']_turnVars
  <2>1. Create => requests' = requests
    BY DEF Create, answer
  <2> QED  BY <1>2, <2>1 DEF TurnNext
<1> QED  BY <1>3, PTL DEF TurnSpec, NoRoundAfterStop
=============================================================================
