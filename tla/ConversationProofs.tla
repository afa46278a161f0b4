-------------------------- MODULE ConversationProofs --------------------------
(***************************************************************************)
(* Proofs about a conversation, for any turns, nodes and pages and every   *)
(* bound: what a finished turn has said is lost with its node only         *)
(* (ConversationTree), the end of a turn is never dropped unnoticed, and   *)
(* the view of a page that was left alone is exact (Transcript); and what  *)
(* a model is told of its chain is complete and in order (ModelContext).   *)
(*                                                                         *)
(* The tree.  The rows of messages and the targets of runs go in the same  *)
(* deletion.  A node number is used once, so that no new node takes the    *)
(* place of one a turn remembers.                                          *)
(*                                                                         *)
(* The transcript.  BaseInv says what the variables hold: in particular no *)
(* two items of a node have one id, so that a patch turns the baseline     *)
(* into the items it was made from (PatchIsExact).  On it rest             *)
(*   - OrderInv: of two things under way in one life of the server, the    *)
(*     one with the later revision was computed later;                     *)
(*   - LastsInv: the last patch of a stream is the last one under way;     *)
(*   - ViewInv: there is a history, the items that the server had at each  *)
(*     revision, such that every page shows the items of its revision, and *)
(*     one that has read its stream to the end has caught up or asks.      *)
(*                                                                         *)
(* The context.  A compaction may read a chain of which an earlier summary *)
(* hides what was said too late for it, and then goes on to hide that one. *)
(* Summarised says that what a summary lacks came late for a summary above *)
(* it: so nothing that was read is lost, by induction along the chain.     *)
(* Numbering says where the rounds of each run of a node begin.            *)
(***************************************************************************)
EXTENDS ConversationTree, Transcript, ModelContext, FiniteSetTheorems, WellFoundedInduction, TLAPS

-----------------------------------------------------------------------------
(* The tree *)

USE TreeAssumption

Messages == {"user", "answer", "summary"}
SomeNode == Nodes \cup {None}

TurnStates ==
    [pc : {"idle", "made", "streaming", "saved", "lost", "done", "failed"},
     node : SomeNode, snapshot : SomeNode, bound : BOOLEAN]

TreeTypeOK ==
    /\ conv \in [exists : BOOLEAN, root : SomeNode, current : SomeNode]
    /\ under \in [Nodes -> SomeNode]
    /\ said \in [Nodes -> SUBSET Messages]
    /\ turn \in [Turns -> TurnStates]
    /\ made \in Nodes
    /\ deletion \in SomeNode

\* Rows are of nodes that were made.
RowsAreMade ==
    /\ present \subseteq 0..made
    /\ \A n \in 0..made : under[n] \in (0..made) \cup {None}
    /\ conv.current \in (0..made) \cup {None} /\ conv.root \in {0, None}
    /\ pruning \in (0..made) \cup {None}

\* A row has its parent's row.
Whole == \A n \in present : under[n] \in present \cup {None}

Rows == RowsAreMade /\ Whole

HasNode == {"made", "streaming", "saved", "done"}

\* What turn t knows was made, and it is bound to a node.
Knows(t) ==
    /\ turn[t].node # None => turn[t].node \in 0..made
    /\ turn[t].snapshot # None => turn[t].snapshot \in 0..made
    /\ turn[t].pc \in HasNode => turn[t].node # None /\ turn[t].snapshot # None

HasTold(t) == turn[t].pc \in {"saved", "done"} /\ turn[t].bound => "answer" \in said[turn[t].node]

TreeInv == TreeTypeOK /\ Rows /\ (\A t \in Turns : Knows(t)) /\ SavedBeforeDone

-----------------------------------------------------------------------------
(* Chains *)

Closed(S) == \A x \in S : under[x] \in S \cup {None}

\* A chain is the least closed set.
LEMMA ChainLeast ==
  ASSUME NEW n \in Nodes, NEW S \in SUBSET Nodes, n \in S, Closed(S)
  PROVE  Chain(n) \subseteq S
  BY DEF Chain, Closed

LEMMA ChainClosed ==
  ASSUME NEW n \in Nodes, under \in [Nodes -> SomeNode]
  PROVE  n \in Chain(n) /\ Chain(n) \subseteq Nodes /\ Closed(Chain(n))
<1>1. n \in Chain(n) /\ Chain(n) \subseteq Nodes
  BY DEF Chain
<1>2. ASSUME NEW x \in Chain(n), under[x] # None PROVE under[x] \in Chain(n)
  <2>1. under[x] \in Nodes
    BY <1>1, <1>2 DEF SomeNode
  <2>2. ASSUME NEW S \in SUBSET Nodes, n \in S, Closed(S) PROVE under[x] \in S
    BY <1>2, <2>2, ChainLeast DEF Closed
  <2> QED  BY <2>1, <2>2 DEF Chain, Closed
<1> QED  BY <1>1, <1>2 DEF Closed

\* The chain of a node that was made is of nodes that were made.
LEMMA ChainIsMade ==
  ASSUME TreeInv, NEW n \in 0..made
  PROVE  n \in Nodes /\ n \in Chain(n) /\ Chain(n) \subseteq 0..made /\ Closed(Chain(n))
<1>1. 0..made \in SUBSET Nodes
  BY DEF TreeInv, TreeTypeOK, Nodes
<1>2. Closed(0..made)
  BY DEF Closed, TreeInv, Rows, RowsAreMade
<1> QED  BY <1>1, <1>2, ChainLeast, ChainClosed DEF TreeInv, TreeTypeOK

-----------------------------------------------------------------------------
(* What a step does to the messages and to the turns *)

\* The messages of a node are kept.
Kept(n) == said[n] \subseteq said'[n]

\* A turn that the step is not about knows what it knew, and keeps what it said
\* unless its run loses its target.
SameTurn(t) ==
    /\ turn'[t].pc = turn[t].pc /\ turn'[t].node = turn[t].node /\ turn'[t].snapshot = turn[t].snapshot
    /\ turn'[t].bound => turn[t].bound
    /\ turn'[t].bound /\ turn[t].pc \in {"saved", "done"} => Kept(turn[t].node)

LEMMA TurnsKeep ==
  ASSUME TreeInv, TreeTypeOK', Rows', made' >= made,
         \A t \in Turns : SameTurn(t) \/ (Knows(t) /\ HasTold(t))'
  PROVE  TreeInv'
<1>1. made \in Nat /\ made' \in Nat
  BY DEF TreeInv, TreeTypeOK, Nodes
<1>2. ASSUME NEW t \in Turns PROVE Knows(t)'
  BY <1>1 DEF TreeInv, Knows, SameTurn
<1>3. SavedBeforeDone'
  BY DEF TreeInv, SavedBeforeDone, SameTurn, HasTold, Kept
<1> QED  BY <1>2, <1>3 DEF TreeInv

\* What holds of every turn before a step
LEMMA OfTurn ==
  ASSUME TreeInv, NEW t \in Turns
  PROVE  /\ turn[t] \in TurnStates /\ made \in Nat /\ made >= made /\ LastNode \in Nat
         /\ Knows(t) /\ HasTold(t)
         /\ turn[t].node # None => turn[t].node \in Nodes
  BY DEF TreeInv, TreeTypeOK, Knows, HasTold, SavedBeforeDone, TurnStates, SomeNode, Nodes

\* Of the tree
LEMMA OfTree ==
  ASSUME TreeInv
  PROVE  /\ made \in Nat /\ made >= made /\ LastNode \in Nat /\ 0..made \subseteq Nodes /\ made <= LastNode
         /\ under \in [Nodes -> SomeNode] /\ said \in [Nodes -> SUBSET Messages]
         /\ turn \in [Turns -> TurnStates]
         /\ conv \in [exists : BOOLEAN, root : SomeNode, current : SomeNode]
         /\ present \subseteq 0..made /\ present \subseteq Nodes
         /\ Loads => Current \in present
  BY DEF TreeInv, TreeTypeOK, Rows, RowsAreMade, SomeNode, Nodes, Loads, Current

-----------------------------------------------------------------------------
(* The steps *)

\* A new node is none that a turn remembers, and has its parent.
LEMMA AddedKeeps ==
  ASSUME TreeInv, Loads, NEW p \in present, NEW focus, NEW messages \in SUBSET Messages,
         Added(p, focus, messages), UNCHANGED <<pruning, deletion>>
  PROVE  /\ made' \in Nodes /\ made' = made + 1 /\ made' >= made /\ Fresh = made'
         /\ said' \in [Nodes -> SUBSET Messages] /\ under' \in [Nodes -> SomeNode]
         /\ conv' \in [exists : BOOLEAN, root : SomeNode, current : SomeNode]
         /\ deletion' \in SomeNode
         /\ Rows' /\ conv'.current \in 0..made'
         /\ \A t \in Turns : turn[t].node # None => Kept(turn[t].node)
<1>1. made \in Nat /\ LastNode \in Nat /\ made + 1 <= LastNode /\ made' = made + 1
  BY OfTree DEF Added, Fresh
<1>2. made + 1 \in Nodes /\ 0..made \subseteq Nodes /\ 0..made' = (0..made) \cup {made'} /\ made' \notin 0..made
  BY <1>1 DEF Nodes
<1>3. /\ said' = [said EXCEPT ![made'] = messages] /\ said \in [Nodes -> SUBSET Messages]
      /\ under' = [under EXCEPT ![made'] = p] /\ under \in [Nodes -> SomeNode]
      /\ present' = present \cup {made'}
      /\ conv' = [conv EXCEPT !.current = IF focus THEN made' ELSE Current]
  BY <1>1, OfTree DEF Added, Fresh
<1>4. \A n \in 0..made : Kept(n)
  BY <1>1, <1>2, <1>3 DEF Kept
<1>5. /\ conv' \in [exists : BOOLEAN, root : SomeNode, current : SomeNode]
      /\ conv'.current \in 0..made' /\ conv'.root = conv.root
  BY <1>1, <1>2, <1>3, OfTree DEF SomeNode
<1>6. /\ said' \in [Nodes -> SUBSET Messages] /\ under' \in [Nodes -> SomeNode]
      /\ under'[made'] = p /\ \A n \in 0..made : under'[n] = under[n]
  BY <1>1, <1>2, <1>3, OfTree DEF SomeNode
<1>7. RowsAreMade'
  <2>1. present' \subseteq 0..made'
    BY <1>2, <1>3, OfTree
  <2>2. ASSUME NEW n \in 0..made' PROVE under'[n] \in (0..made') \cup {None}
    BY <1>2, <1>6, OfTree DEF TreeInv, Rows, RowsAreMade
  <2> QED  BY <1>2, <1>5, <2>1, <2>2 DEF TreeInv, Rows, RowsAreMade
<1>8. Whole'
  BY <1>2, <1>3, <1>6, OfTree DEF TreeInv, Rows, Whole
<1>9. deletion' \in SomeNode
  BY DEF TreeInv, TreeTypeOK
<1> QED  BY <1>1, <1>2, <1>4, <1>5, <1>6, <1>7, <1>8, <1>9 DEF Fresh, TreeInv, Knows, Rows

\* A node is made without a turn.
LEMMA AnchorKeeps ==
  ASSUME TreeInv, Loads, NEW p \in present, NEW focus, NEW messages \in SUBSET Messages,
         Added(p, focus, messages), UNCHANGED <<turn, pruning, deletion>>
  PROVE  TreeInv'
<1>1. TreeTypeOK' /\ made' >= made /\ Rows'
  BY AddedKeeps, OfTree DEF TreeTypeOK
<1>2. ASSUME NEW t \in Turns PROVE SameTurn(t)
  BY AddedKeeps, OfTurn DEF SameTurn, HasNode, Knows
<1> QED  BY <1>1, <1>2, TurnsKeep

LEMMA StartTurnKeeps ==
  ASSUME TreeInv, NEW t \in Turns, NEW p \in Nodes, NEW focus \in BOOLEAN, StartTurn(t, p, focus)
  PROVE  TreeInv'
<1> DEFINE x == [FreshTurn EXCEPT !.pc = "made", !.node = made', !.snapshot = conv'.current]
<1>1. /\ Loads /\ p \in present /\ UNCHANGED <<pruning, deletion>>
      /\ Added(p, focus, {"user"}) /\ {"user"} \in SUBSET Messages
  BY DEF StartTurn, Messages
<1>2. turn' = [turn EXCEPT ![t] = x]
  BY <1>1, AddedKeeps DEF StartTurn
<1>3. /\ x \in TurnStates /\ x.pc = "made" /\ x.node = made' /\ x.snapshot = conv'.current
      /\ turn \in [Turns -> TurnStates]
  BY <1>1, AddedKeeps, OfTree DEF TurnStates, FreshTurn, SomeNode
<1> HIDE DEF x
<1>4. TreeTypeOK' /\ made' >= made /\ Rows'
  BY <1>1, <1>2, <1>3, AddedKeeps DEF TreeTypeOK
<1>5. (Knows(t) /\ HasTold(t))'
  <2>1. made' \in 0..made' /\ made' # None /\ conv'.current \in 0..made' /\ conv'.current # None
    BY <1>1, AddedKeeps DEF Nodes
  <2> QED  BY <1>2, <1>3, <2>1 DEF Knows, HasTold
<1>6. ASSUME NEW u \in Turns \ {t} PROVE SameTurn(u)
  BY <1>1, <1>2, <1>3, AddedKeeps, OfTurn DEF SameTurn, HasNode, Knows
<1> QED  BY <1>4, <1>5, <1>6, TurnsKeep

\* A step of a turn that adds no row but of nodes that were made
LEMMA TurnMoves ==
  ASSUME TreeInv, NEW t \in Turns, NEW x \in TurnStates, turn' = [turn EXCEPT ![t] = x],
         UNCHANGED <<under, made, deletion>>, Rows',
         conv' \in [exists : BOOLEAN, root : SomeNode, current : SomeNode],
         said' \in [Nodes -> SUBSET Messages], \A n \in Nodes : Kept(n),
         x.node # None => x.node \in 0..made, x.snapshot # None => x.snapshot \in 0..made,
         x.pc \in HasNode => x.node # None /\ x.snapshot # None,
         x.pc \in {"saved", "done"} /\ x.bound => "answer" \in said'[x.node]
  PROVE  TreeInv'
<1>1. turn \in [Turns -> TurnStates] /\ turn'[t] = x /\ \A u \in Turns \ {t} : turn'[u] = turn[u]
  BY OfTree
<1>2. TreeTypeOK' /\ made' >= made
  BY <1>1, OfTree DEF TreeInv, TreeTypeOK
<1>3. (Knows(t) /\ HasTold(t))'
  BY <1>1 DEF Knows, HasTold
<1>4. ASSUME NEW u \in Turns \ {t} PROVE SameTurn(u)
  BY <1>1, OfTurn DEF SameTurn, Knows, HasNode
<1> QED  BY <1>2, <1>3, <1>4, TurnsKeep

LEMMA ContinueKeeps ==
  ASSUME TreeInv, NEW t \in Turns, NEW p \in Nodes, ContinueNode(t, p)
  PROVE  TreeInv'
<1> DEFINE x == [FreshTurn EXCEPT !.pc = "made", !.node = p, !.snapshot = p]
<1>1. /\ p \in present /\ turn' = [turn EXCEPT ![t] = x]
      /\ UNCHANGED <<present, under, said, deletion, pruning, made>>
      /\ conv' = [conv EXCEPT !.current = p]
  BY DEF ContinueNode
<1>2. p \in 0..made /\ p \in Nat /\ p # None
  BY <1>1, OfTree
<1>3. conv' \in [exists : BOOLEAN, root : SomeNode, current : SomeNode] /\ conv'.current = p /\ conv'.root = conv.root
  BY <1>1, OfTree DEF SomeNode
<1>4. Rows'
  BY <1>1, <1>2, <1>3 DEF TreeInv, Rows, RowsAreMade, Whole
<1>5. x \in TurnStates /\ x.pc = "made" /\ x.node = p /\ x.snapshot = p
  BY DEF TurnStates, FreshTurn, SomeNode
<1> HIDE DEF x
<1>6. said' \in [Nodes -> SUBSET Messages] /\ \A n \in Nodes : Kept(n)
  BY <1>1, OfTree DEF Kept
<1>7. UNCHANGED <<under, made, deletion>>
  BY <1>1
<1> QED  BY <1>1, <1>2, <1>3, <1>4, <1>5, <1>6, <1>7, TurnMoves

\* A turn goes on with its node, or has none any more, and nothing is written.
LEMMA QuietTurn ==
  ASSUME TreeInv, NEW t \in Turns, NEW x \in TurnStates, turn' = [turn EXCEPT ![t] = x],
         UNCHANGED <<conv, present, under, said, deletion, pruning, made>>,
         \/ x.node = turn[t].node /\ x.snapshot = turn[t].snapshot
         \/ x.node = None /\ x.snapshot = None,
         x.pc \in HasNode => x.node = turn[t].node /\ turn[t].pc \in HasNode /\ x.snapshot = turn[t].snapshot,
         x.pc \in {"saved", "done"} => turn[t].pc \in {"saved", "done"} /\ (x.bound => turn[t].bound)
  PROVE  TreeInv'
<1>1. Rows' /\ conv' \in [exists : BOOLEAN, root : SomeNode, current : SomeNode]
  BY OfTree DEF TreeInv, Rows, RowsAreMade, Whole
<1>2. said' \in [Nodes -> SUBSET Messages] /\ \A n \in Nodes : Kept(n)
  BY OfTree DEF Kept
<1>3. /\ x.node # None => x.node \in 0..made
      /\ x.snapshot # None => x.snapshot \in 0..made
      /\ x.pc \in HasNode => x.node # None /\ x.snapshot # None
      /\ x.pc \in {"saved", "done"} /\ x.bound => "answer" \in said'[x.node]
  BY OfTurn DEF Knows, HasTold, HasNode
<1>4. UNCHANGED <<under, made, deletion>>
  OBVIOUS
<1> QED  BY <1>1, <1>2, <1>3, <1>4, TurnMoves

LEMMA BindKeeps ==
  ASSUME TreeInv, NEW t \in Turns, BindTarget(t)
  PROVE  TreeInv'
<1> DEFINE pc == IF turn[t].node \in present THEN "streaming" ELSE "lost"
           here == turn[t].node \in present
           x == [turn[t] EXCEPT !.pc = pc, !.bound = here]
<1>1. turn[t].pc = "made" /\ UNCHANGED <<conv, present, under, said, deletion, pruning, made>>
  BY DEF BindTarget
<1>2. turn[t] \in TurnStates /\ turn \in [Turns -> TurnStates]
  BY OfTurn, OfTree
<1>3. turn' = [turn EXCEPT ![t] = x]
  BY <1>2 DEF BindTarget, TurnStates
<1>4. pc \in {"streaming", "lost"} /\ here \in BOOLEAN
  OBVIOUS
<1> HIDE DEF pc, here
<1>5. /\ x \in TurnStates /\ x.node = turn[t].node /\ x.snapshot = turn[t].snapshot
      /\ x.pc \in {"streaming", "lost"}
  BY <1>2, <1>4 DEF TurnStates
<1> HIDE DEF x
<1> QED  BY <1>1, <1>3, <1>5, QuietTurn DEF HasNode

LEMMA FailsKeep ==
  ASSUME TreeInv, NEW t \in Turns, TurnFails(t) \/ FinishRun(t)
  PROVE  TreeInv'
<1>1. UNCHANGED <<conv, present, under, said, deletion, pruning, made>>
  BY DEF TurnFails, FinishRun
<1>2. turn[t] \in TurnStates /\ turn \in [Turns -> TurnStates]
  BY OfTurn, OfTree
<1>3. CASE turn' = [turn EXCEPT ![t].pc = "lost"]
  <2> DEFINE x == [turn[t] EXCEPT !.pc = "lost"]
  <2>1. turn' = [turn EXCEPT ![t] = x]
    BY <1>2, <1>3
  <2>2. x \in TurnStates /\ x.node = turn[t].node /\ x.snapshot = turn[t].snapshot /\ x.pc = "lost"
    BY <1>2 DEF TurnStates
  <2> HIDE DEF x
  <2> QED  BY <1>1, <2>1, <2>2, QuietTurn DEF HasNode
<1>4. CASE turn[t].pc = "saved" /\ FinishRun(t)
  <2> DEFINE x == [turn[t] EXCEPT !.pc = "done"]
  <2>1. turn' = [turn EXCEPT ![t] = x]
    BY <1>2, <1>4 DEF FinishRun
  <2>2. /\ x \in TurnStates /\ x.node = turn[t].node /\ x.snapshot = turn[t].snapshot
        /\ x.pc = "done" /\ x.bound = turn[t].bound
    BY <1>2 DEF TurnStates
  <2> HIDE DEF x
  <2> QED  BY <1>1, <1>4, <2>1, <2>2, QuietTurn DEF HasNode
<1>5. CASE turn[t].pc # "saved" /\ FinishRun(t)
  <2> DEFINE x == [FreshTurn EXCEPT !.pc = "failed"]
  <2>1. turn' = [turn EXCEPT ![t] = x]
    BY <1>2, <1>5 DEF FinishRun
  <2>2. x \in TurnStates /\ x.node = None /\ x.snapshot = None /\ x.pc = "failed"
    BY DEF TurnStates, FreshTurn, SomeNode
  <2> HIDE DEF x
  <2> QED  BY <1>1, <2>1, <2>2, QuietTurn DEF HasNode
<1> QED  BY <1>3, <1>4, <1>5 DEF TurnFails

-----------------------------------------------------------------------------
(* Answers *)

LEMMA AnsweredKeeps ==
  ASSUME TreeInv, NEW n \in Nodes, said' = Answered(n)
  PROVE  /\ said' \in [Nodes -> SUBSET Messages] /\ "answer" \in said'[n]
         /\ \A m \in Nodes : Kept(m)
  BY OfTree DEF Answered, Messages, Kept

LEMMA FinalizeKeeps ==
  ASSUME TreeInv, NEW t \in Turns, Finalize(t)
  PROVE  TreeInv'
<1> DEFINE x == [turn[t] EXCEPT !.pc = "saved"]
<1>1. turn[t] \in TurnStates /\ turn \in [Turns -> TurnStates] /\ turn[t].pc = "streaming" /\ Knows(t)
  BY OfTurn, OfTree DEF Finalize
<1>2. turn' = [turn EXCEPT ![t] = x]
  BY <1>1 DEF Finalize
<1>3. x \in TurnStates /\ x.node = turn[t].node /\ x.snapshot = turn[t].snapshot /\ x.pc = "saved"
  BY <1>1 DEF TurnStates
<1> HIDE DEF x
<1>4. turn[t].node \in Nodes /\ said' = Answered(turn[t].node)
  BY <1>1, OfTurn DEF Finalize, Knows, HasNode
<1>5. Rows' /\ conv' \in [exists : BOOLEAN, root : SomeNode, current : SomeNode] /\ UNCHANGED <<under, made, deletion>>
  BY OfTree DEF Finalize, TreeInv, Rows, RowsAreMade, Whole
<1>6. /\ x.node # None => x.node \in 0..made
      /\ x.snapshot # None => x.snapshot \in 0..made
      /\ x.pc \in HasNode => x.node # None /\ x.snapshot # None
  BY <1>1, <1>3 DEF Knows, HasNode
<1> QED  BY <1>2, <1>3, <1>4, <1>5, <1>6, AnsweredKeeps, TurnMoves

\* The branch that is saved again is of nodes that were made, up to its root.
LEMMA FinalizeDeletedKeeps ==
  ASSUME TreeInv, NEW t \in Turns, FinalizeDeleted(t)
  PROVE  TreeInv'
<1> DEFINE n == turn[t].snapshot
           pc == IF turn[t].node \in present' THEN "saved" ELSE "lost"
           x == [turn[t] EXCEPT !.pc = pc]
<1>1. /\ turn[t] \in TurnStates /\ turn \in [Turns -> TurnStates] /\ turn[t].pc = "streaming" /\ Knows(t)
      /\ turn[t].node \in Nodes /\ n \in 0..made
  BY OfTurn, OfTree DEF FinalizeDeleted, Knows, HasNode
<1>2. turn' = [turn EXCEPT ![t] = x]
  BY <1>1 DEF FinalizeDeleted
<1>3. /\ x \in TurnStates /\ x.node = turn[t].node /\ x.snapshot = turn[t].snapshot
      /\ x.pc = pc
  BY <1>1 DEF TurnStates
<1>4. /\ present' = present \cup Chain(n) /\ conv' = [exists |-> TRUE, root |-> 0, current |-> n]
      /\ UNCHANGED <<under, deletion, pruning, made>>
  BY DEF FinalizeDeleted, Restored
<1>5. conv' \in [exists : BOOLEAN, root : SomeNode, current : SomeNode]
  BY <1>1, <1>4, OfTree DEF SomeNode, Nodes
<1>6. Rows'
  <2>1. Chain(n) \subseteq 0..made /\ Closed(Chain(n))
    BY <1>1, ChainIsMade
  <2> HIDE DEF n
  <2>2. RowsAreMade'
    BY <1>1, <1>4, <2>1 DEF TreeInv, Rows, RowsAreMade
  <2>3. Whole'
    BY <1>4, <2>1 DEF TreeInv, Rows, Whole, Closed
  <2> QED  BY <2>2, <2>3 DEF Rows
<1>7. /\ said' \in [Nodes -> SUBSET Messages] /\ \A m \in Nodes : Kept(m)
      /\ pc = "saved" => "answer" \in said'[turn[t].node]
  <2>1. CASE turn[t].node \in present'
    BY <1>1, <2>1, AnsweredKeeps DEF FinalizeDeleted
  <2>2. CASE turn[t].node \notin present'
    BY <2>2, OfTree DEF FinalizeDeleted, Kept
  <2> QED  BY <2>1, <2>2
<1>8. /\ x.node # None => x.node \in 0..made
      /\ x.snapshot # None => x.snapshot \in 0..made
      /\ x.pc \in HasNode => x.node # None /\ x.snapshot # None
      /\ x.pc \in {"saved", "done"} /\ x.bound => "answer" \in said'[x.node]
  BY <1>1, <1>3, <1>7 DEF Knows, HasNode
<1>9. UNCHANGED <<under, made, deletion>>
  BY <1>4
<1> HIDE DEF x
<1> QED  BY <1>2, <1>3, <1>5, <1>6, <1>7, <1>8, <1>9, TurnMoves

-----------------------------------------------------------------------------
(* Summaries, switches and deletions *)

\* A step of no turn that loses no message
LEMMA OtherKeeps ==
  ASSUME TreeInv, UNCHANGED <<present, under, turn, made>>, deletion' \in SomeNode,
         pruning' \in (0..made) \cup {None},
         conv' \in [exists : BOOLEAN, root : SomeNode, current : SomeNode],
         conv'.root = conv.root, conv'.current \in (0..made) \cup {None},
         said' \in [Nodes -> SUBSET Messages], \A n \in Nodes : Kept(n)
  PROVE  TreeInv'
<1>1. TreeTypeOK' /\ made' >= made
  BY OfTree DEF TreeInv, TreeTypeOK
<1>2. Rows'
  BY DEF TreeInv, Rows, RowsAreMade, Whole
<1>3. ASSUME NEW t \in Turns PROVE SameTurn(t)
  BY OfTurn DEF SameTurn, Knows, HasNode
<1> QED  BY <1>1, <1>2, <1>3, TurnsKeep

LEMMA SummaryKeeps ==
  ASSUME TreeInv, PruneSaved
  PROVE  TreeInv'
<1>1. /\ UNCHANGED <<conv, present, under, turn, made, deletion>> /\ pruning' = None
      /\ deletion' \in SomeNode /\ conv' \in [exists : BOOLEAN, root : SomeNode, current : SomeNode]
      /\ conv'.root = conv.root /\ conv'.current \in (0..made) \cup {None}
  BY OfTree DEF PruneSaved, TreeInv, TreeTypeOK, Rows, RowsAreMade
<1>2. said' \in [Nodes -> SUBSET Messages] /\ \A n \in Nodes : Kept(n)
  BY OfTree DEF PruneSaved, Kept, Messages
<1> QED  BY <1>1, <1>2, OtherKeeps

LEMMA NodeStepKeeps ==
  ASSUME TreeInv, NEW n \in Nodes, AnchoredRunFinishes(n) \/ StartPrune(n) \/ SwitchNode(n) \/ ForceDelete(n)
  PROVE  TreeInv'
<1>1. UNCHANGED <<present, under, turn, made, said>> /\ n \in present /\ n \in 0..made /\ deletion' \in SomeNode
  BY OfTree DEF AnchoredRunFinishes, StartPrune, SwitchNode, ForceDelete, SomeNode, TreeInv, TreeTypeOK
<1>2. /\ pruning' \in (0..made) \cup {None}
      /\ conv' \in [exists : BOOLEAN, root : SomeNode, current : SomeNode]
      /\ conv'.root = conv.root /\ conv'.current \in (0..made) \cup {None}
  <2>1. CASE SwitchNode(n)
    BY <1>1, <2>1, OfTree DEF SwitchNode, SomeNode, TreeInv, Rows, RowsAreMade
  <2>2. CASE ~SwitchNode(n)
    BY <1>1, <2>2, OfTree DEF AnchoredRunFinishes, StartPrune, ForceDelete, TreeInv, Rows, RowsAreMade
  <2> QED  BY <2>1, <2>2
<1>3. said' \in [Nodes -> SUBSET Messages] /\ \A m \in Nodes : Kept(m)
  BY <1>1, OfTree DEF Kept
<1> QED  BY <1>1, <1>2, <1>3, OtherKeeps

\* The rows of a branch go together: what is left has its parents.
LEMMA DeletedKeeps ==
  ASSUME TreeInv, NEW n \in present, Loads, Deleted(n), UNCHANGED <<under, pruning, made>>,
         deletion' \in SomeNode
  PROVE  TreeInv'
<1>1. n \in 0..made /\ n \in Nodes
  BY OfTree
<1>2. Subtree(n) \subseteq present
  BY DEF Subtree
<1>3. Whole'
  <2> SUFFICES ASSUME NEW m \in present', under[m] # None PROVE under[m] \in present'
    BY DEF Whole
  <2>1. m \in present /\ n \notin Chain(m) /\ m \in Nodes
    BY OfTree DEF Deleted, Subtree
  <2>2. under[m] \in present /\ under[m] \in Nodes
    BY <2>1, OfTree DEF TreeInv, Rows, Whole
  <2>3. /\ Chain(m) \in SUBSET Nodes /\ m \in Chain(m) /\ Closed(Chain(m))
    BY <2>1, OfTree, ChainClosed
  <2>4. under[m] \in Chain(m)
    BY <2>3 DEF Closed
  <2>5. Chain(under[m]) \subseteq Chain(m)
    BY <2>2, <2>3, <2>4, ChainLeast
  <2> QED  BY <2>1, <2>2, <2>5 DEF Deleted, Subtree
<1>4. /\ conv' \in [exists : BOOLEAN, root : SomeNode, current : SomeNode]
      /\ conv'.current \in (0..made) \cup {None} /\ conv'.root \in {0, None}
  <2>1. under[n] \in (0..made) \cup {None} /\ Current \in 0..made /\ conv.root \in {0, None}
    BY <1>1, OfTree DEF TreeInv, Rows, RowsAreMade
  <2>2. conv' = [conv EXCEPT !.current = IF Current = n THEN under[n] ELSE Current,
                             !.root = IF n = conv.root THEN None ELSE conv.root]
    BY DEF Deleted
  <2> QED  BY <2>1, <2>2, OfTree DEF SomeNode
<1>5. Rows'
  BY <1>3, <1>4, OfTree DEF Rows, RowsAreMade, TreeInv, Deleted
<1>6. said' \in [Nodes -> SUBSET Messages] /\ \A m \in Nodes \ Subtree(n) : Kept(m)
  BY OfTree DEF Deleted, Kept
<1>7. /\ turn' \in [Turns -> TurnStates]
      /\ \A t \in Turns : /\ turn'[t].pc = turn[t].pc /\ turn'[t].node = turn[t].node
                          /\ turn'[t].snapshot = turn[t].snapshot
                          /\ turn'[t].bound => turn[t].bound /\ turn[t].node \notin Subtree(n)
  <2> DEFINE u(t) == IF turn[t].node \in Subtree(n) THEN [turn[t] EXCEPT !.bound = FALSE] ELSE turn[t]
  <2>1. turn' = [t \in Turns |-> u(t)]
    BY DEF Deleted
  <2>2. ASSUME NEW t \in Turns
        PROVE  /\ u(t) \in TurnStates /\ u(t).pc = turn[t].pc /\ u(t).node = turn[t].node
               /\ u(t).snapshot = turn[t].snapshot /\ (u(t).bound => turn[t].bound /\ turn[t].node \notin Subtree(n))
    BY OfTurn DEF TurnStates
  <2> HIDE DEF u
  <2> QED  BY <2>1, <2>2
<1>8. TreeTypeOK' /\ made' >= made
  BY <1>4, <1>6, <1>7, OfTree DEF TreeInv, TreeTypeOK
<1>9. ASSUME NEW t \in Turns PROVE SameTurn(t)
  BY <1>6, <1>7, OfTurn DEF SameTurn, Knows, HasNode
<1> QED  BY <1>5, <1>8, <1>9, TurnsKeep

LEMMA DeletionsKeep ==
  ASSUME TreeInv, (\E n \in Nodes : DeleteBranch(n)) \/ DeleteWaited
  PROVE  TreeInv'
<1>1. ASSUME NEW n \in Nodes, DeleteBranch(n) PROVE TreeInv'
  BY <1>1, DeletedKeeps DEF DeleteBranch, SomeNode
<1>2. CASE DeleteWaited /\ Loads /\ deletion \in present
  BY <1>2, DeletedKeeps DEF DeleteWaited, SomeNode
<1>3. CASE DeleteWaited /\ ~(Loads /\ deletion \in present)
  <2>1. UNCHANGED <<conv, present, said, turn, under, pruning, made>> /\ deletion' \in SomeNode
    BY <1>3 DEF DeleteWaited, SomeNode
  <2>2. said' \in [Nodes -> SUBSET Messages] /\ \A m \in Nodes : Kept(m)
    BY <2>1, OfTree DEF Kept
  <2> QED  BY <2>1, <2>2, OfTree, OtherKeeps DEF TreeInv, Rows, RowsAreMade
<1> QED  BY <1>1, <1>2, <1>3

\* Without its conversation no run has a target.
LEMMA GoneKeeps ==
  ASSUME TreeInv, ConversationGone
  PROVE  TreeInv'
<1>1. /\ UNCHANGED <<under, deletion, pruning, made>> /\ present' = {}
      /\ conv' \in [exists : BOOLEAN, root : SomeNode, current : SomeNode]
      /\ conv'.current = None /\ conv'.root = None
      /\ said' \in [Nodes -> SUBSET Messages]
  BY DEF ConversationGone, SomeNode
<1>2. Rows'
  BY <1>1 DEF TreeInv, Rows, RowsAreMade, Whole
<1>3. /\ turn' \in [Turns -> TurnStates]
      /\ \A t \in Turns : /\ turn'[t].pc = turn[t].pc /\ turn'[t].node = turn[t].node
                          /\ turn'[t].snapshot = turn[t].snapshot /\ turn'[t].bound = FALSE
  <2> DEFINE u(t) == [turn[t] EXCEPT !.bound = FALSE]
  <2>1. turn' = [t \in Turns |-> u(t)]
    BY DEF ConversationGone
  <2>2. ASSUME NEW t \in Turns
        PROVE  /\ u(t) \in TurnStates /\ u(t).pc = turn[t].pc /\ u(t).node = turn[t].node
               /\ u(t).snapshot = turn[t].snapshot /\ u(t).bound = FALSE
    BY OfTurn DEF TurnStates
  <2> HIDE DEF u
  <2> QED  BY <2>1, <2>2
<1>4. TreeTypeOK' /\ made' >= made
  BY <1>1, <1>3, OfTree DEF TreeInv, TreeTypeOK
<1>5. ASSUME NEW t \in Turns PROVE SameTurn(t)
  BY <1>3 DEF SameTurn
<1> QED  BY <1>2, <1>4, <1>5, TurnsKeep

-----------------------------------------------------------------------------
(* Theorems *)

LEMMA TreeInitial ==
  ASSUME Init
  PROVE  TreeInv
<1>1. 0 \in Nodes /\ 0 \in 0..0 /\ 0..0 = {0} /\ FreshTurn \in TurnStates
  BY DEF Nodes, FreshTurn, TurnStates, SomeNode
<1>2. TreeTypeOK /\ Rows
  BY <1>1 DEF Init, TreeTypeOK, Rows, RowsAreMade, Whole, SomeNode
<1> QED  BY <1>1, <1>2 DEF Init, TreeInv, Knows, SavedBeforeDone, FreshTurn, HasNode

LEMMA TreeStep ==
  ASSUME TreeInv, [Next]_vars
  PROVE  TreeInv'
<1>1. ASSUME NEW t \in Turns, Turn(t) PROVE TreeInv'
  BY <1>1, StartTurnKeeps, ContinueKeeps, BindKeeps, FinalizeKeeps, FinalizeDeletedKeeps, FailsKeep DEF Turn
<1>2. ASSUME NEW n \in Nodes, CreateAnchor(n) \/ Compact(n, TRUE) \/ Compact(n, FALSE) PROVE TreeInv'
  <2>1. {"user"} \in SUBSET Messages /\ {"summary"} \in SUBSET Messages
    BY DEF Messages
  <2> QED  BY <1>2, <2>1, AnchorKeeps DEF CreateAnchor, Compact
<1>3. ASSUME NEW n \in Nodes, AnchoredRunFinishes(n) \/ StartPrune(n) \/ SwitchNode(n) \/ ForceDelete(n) PROVE TreeInv'
  BY <1>3, NodeStepKeeps
<1>4. CASE (\E n \in Nodes : DeleteBranch(n)) \/ DeleteWaited
  BY <1>4, DeletionsKeep
<1>5. CASE PruneSaved
  BY <1>5, SummaryKeeps
<1>6. CASE DeleteConversation \/ DeleteProject
  BY <1>6, GoneKeeps DEF DeleteConversation, DeleteProject
<1>7. CASE UNCHANGED vars
  <2>1. said' \in [Nodes -> SUBSET Messages] /\ \A m \in Nodes : Kept(m)
    BY <1>7, OfTree DEF Kept, vars
  <2> QED  BY <1>7, <2>1, OfTree, OtherKeeps DEF TreeInv, TreeTypeOK, Rows, RowsAreMade, vars
<1> QED  BY <1>1, <1>2, <1>3, <1>4, <1>5, <1>6, <1>7 DEF Next

\* The answer of a turn whose run is saved or completed is in the conversation
\* as long as its row has its target, for any turns and whatever is deleted and
\* restored meanwhile (_finalize_assistant_turn, delete_node).
THEOREM AnswersAreKept == Spec => []SavedBeforeDone
<1>1. TreeInv => SavedBeforeDone
  BY DEF TreeInv
<1> QED  BY <1>1, TreeInitial, TreeStep, PTL DEF Spec

\* Every node that is there has its parent, through deletions of branches and
\* through the branch that a turn of a deleted node saves again
\* (get_descendant_node_ids, ensure_branch).
THEOREM BranchesAreWhole == Spec => []Whole
<1>1. TreeInv => Whole
  BY DEF TreeInv, Rows
<1> QED  BY <1>1, TreeInitial, TreeStep, PTL DEF Spec

-----------------------------------------------------------------------------
(* Greatest elements *)

LEMMA LeastNat ==
  ASSUME NEW S, S \subseteq Nat, S # {}
  PROVE  \E x \in S : \A y \in S : x <= y
<1> DEFINE R == {ss \in Nat \X Nat : ss[1] < ss[2]}
<1>1. OpToRel(<, Nat) = R
  BY Zenon DEF OpToRel
<1>2. IsWellFoundedOn(R, Nat)
  BY <1>1, NatLessThanWellFounded, Zenon
<1>3. PICK x \in S : \A y \in S : ~ (<<y, x>> \in R)
  <2> HIDE DEF R
  <2> QED BY <1>2, WFMin
<1>4. ASSUME NEW y \in S PROVE x <= y
  <2>1. x \in Nat /\ y \in Nat
    OBVIOUS
  <2>2. y < x => <<y, x>> \in R
    BY <2>1
  <2> QED BY <1>3, <2>1, <2>2
<1> QED BY <1>4

LEMMA MaxOf ==
  ASSUME NEW n \in Nat, NEW S, S \subseteq 0 .. n, S # {}
  PROVE  Max(S) \in S /\ \A j \in S : Max(S) >= j
<1> DEFINE T == {n - i : i \in S}
<1>1. T \subseteq Nat /\ T # {}
  <2>1. \A i \in S : i \in Int /\ 0 <= i /\ i <= n
    OBVIOUS
  <2>2. \A i \in S : n - i \in Nat
    BY <2>1
  <2> QED BY <2>2
<1>2. PICK t \in T : \A u \in T : t <= u
  BY <1>1, LeastNat
<1>3. PICK i \in S : t = n - i
  OBVIOUS
<1>4. \A j \in S : i >= j
  BY <1>2, <1>3
<1> QED BY <1>4 DEF Max

-----------------------------------------------------------------------------
(* What the variables hold *)

EventKinds == {"text", "call", "usage", "stopping", "done", "finished"}
Statuses == {"none"} \cup Active \cup Final
Words == {"none", "running", "stopping", "finalizing", "complete", "error", "stopped"}
Keys == {"process", "status", "answer"} \X Nat
Things == [id : Keys, status : Words, of : SUBSET (Nat \X Nat)]
Patches == [remove : SUBSET Keys, upsert : SUBSET Things, revision : Nat, made : Nat, last : BOOLEAN]
Views == [open : BOOLEAN, items : SUBSET Things, revision : Nat, made : Nat]
Sessions == [run : 0..MaxRuns, fed : Nat, at : {"none", "open", "ended", "retry", "done"}]
Requests ==
    {NotAsked, [at |-> "sent"]} \cup
    [at : {"answered"}, items : SUBSET Things, revision : Nat, made : Nat]

TranscriptTypeOK ==
    /\ log \in [Runs -> Seq(EventKinds)]
    /\ status \in [Runs -> Statuses]
    /\ kept \in [Runs -> [blocks : SUBSET Nat, answer : SUBSET Nat, done : BOOLEAN]]
    /\ revision \in Nat /\ clock \in Nat
    /\ emitted \in SUBSET Things
    /\ page \in [Pages -> Views]
    /\ session \in [Pages -> Sessions]
    /\ wire \in [Pages -> Seq(Patches)]
    /\ asked \in [Pages -> Requests]
    /\ wants \in [Pages -> BOOLEAN]

-----------------------------------------------------------------------------
(* The items of a node are things with different ids. *)

Streams == [run : Started, status : Words, blocks : SUBSET Nat, answer : SUBSET Nat,
            usage : BOOLEAN, named : BOOLEAN]

\* No two items have one id.
Distinct(items) == \A i, j \in items : i.id = j.id => i = j

LEMMA StartedRuns ==
  ASSUME TranscriptTypeOK
  PROVE  /\ Started \subseteq Runs /\ Started \subseteq Nat /\ IsFiniteSet(Started) /\ MaxRuns \in Nat
         /\ Started # {} => Latest \in Started /\ \A r \in Started : r <= Latest
<1>1. Started \subseteq Runs /\ Runs \subseteq 0..MaxRuns /\ MaxRuns \in Nat
  BY TranscriptAssumption DEF Started, Runs
<1>2. IsFiniteSet(Started)
  <2>1. IsFiniteSet(0..MaxRuns)
    BY <1>1, FS_Interval
  <2>2. Started \in SUBSET (0..MaxRuns)
    BY <1>1
  <2> QED  BY <2>1, <2>2, FS_Subset
<1>3. Started # {} => Latest \in Started /\ \A r \in Started : r <= Latest
  BY <1>1, MaxOf DEF Latest
<1> QED  BY <1>1, <1>2, <1>3

LEMMA StatusWords ==
  /\ \A x \in Statuses : Worded(x) \in Words
  /\ \A word \in Words : ProcessStatus(word) \in Words /\ AnswerStatus(word) \in Words
<1>1. ASSUME NEW x \in Statuses PROVE Worded(x) \in Words
  BY DEF Statuses, Active, Final, Worded, Words
<1>2. ASSUME NEW word \in Words PROVE ProcessStatus(word) \in Words
  BY DEF Words, ProcessStatus
<1>3. ASSUME NEW word \in Words PROVE AnswerStatus(word) \in Words
  BY <1>2 DEF AnswerStatus, Words
<1> QED  BY <1>1, <1>2, <1>3

\* The process of a run is the one after those of the earlier runs.
LEMMA PlacesDiffer ==
  ASSUME NEW S, S \subseteq Nat, IsFiniteSet(S), NEW q \in S, NEW r \in S, q < r
  PROVE  Cardinality({x \in S : x < q}) # Cardinality({x \in S : x < r})
<1> DEFINE Q == {x \in S : x < q}
           R == {x \in S : x < r}
<1>0. q \in Nat /\ r \in Nat /\ S \in SUBSET Nat
  OBVIOUS
<1>1. Q \in SUBSET R /\ R \in SUBSET S /\ q \in R /\ q \notin Q
  <2>1. \A x \in S : x < q => x < r
    BY <1>0
  <2>2. ~ (q < q) /\ q \in S
    BY <1>0
  <2> QED  BY <2>1, <2>2
<1> HIDE DEF Q, R
<1>2. IsFiniteSet(R) /\ IsFiniteSet(Q)
  BY <1>1, FS_Subset
<1>3. Cardinality(Q) # Cardinality(R)
  BY <1>1, <1>2, FS_Subset
<1> QED  BY <1>3 DEF Q, R

LEMMA BlocksOf ==
  ASSUME TranscriptTypeOK, NEW s, s \in Streams \/ s = NoRun, NEW r \in Started
  PROVE  Blocks(r, s) \subseteq Nat
<1>1. kept[r].blocks \subseteq Nat
  BY StartedRuns DEF TranscriptTypeOK
<1>2. CASE s \in Streams
  BY <1>1, <1>2 DEF Streams, Blocks
<1>3. CASE s = NoRun
  BY <1>1, <1>3 DEF Blocks, Live
<1> QED  BY <1>2, <1>3

LEMMA ProcessesAreThings ==
  ASSUME TranscriptTypeOK, NEW s, s \in Streams \/ s = NoRun
  PROVE  /\ ProcessItems(s) \subseteq Things /\ Distinct(ProcessItems(s))
         /\ \A i \in ProcessItems(s) : i.id[1] = "process"
<1> DEFINE shown == {r \in Started : Blocks(r, s) # {}}
           place(r) == Cardinality({q \in shown : q < r})
           item(r) == [id |-> <<"process", place(r)>>, status |-> ProcessStatusFor(r, s),
                       of |-> {r} \X Blocks(r, s)]
<1>1. shown \subseteq Started /\ shown \subseteq Nat /\ IsFiniteSet(shown)
  BY StartedRuns, FS_Subset
<1>2. ASSUME NEW r \in shown PROVE place(r) \in Nat
  <2>1. {q \in shown : q < r} \in SUBSET shown
    OBVIOUS
  <2> QED  BY <1>1, <2>1, FS_Subset, FS_CardinalityType
<1>3. ASSUME NEW q \in shown, NEW r \in shown, q # r PROVE place(q) # place(r)
  <2>1. q \in Nat /\ r \in Nat /\ (q < r \/ r < q)
    BY <1>1, <1>3
  <2> HIDE DEF shown
  <2> QED  BY <1>1, <2>1, PlacesDiffer
<1>4. ASSUME NEW r \in shown PROVE item(r) \in Things
  <2>1. ProcessStatusFor(r, s) \in Words
    <3>1. s # NoRun => s.status \in Words
      BY DEF Streams
    <3>2. status[r] \in Statuses
      BY <1>1, StartedRuns DEF TranscriptTypeOK
    <3> QED  BY <3>1, <3>2, StatusWords DEF ProcessStatusFor
  <2>2. {r} \X Blocks(r, s) \in SUBSET (Nat \X Nat)
    BY <1>1, BlocksOf
  <2>3. <<"process", place(r)>> \in Keys
    BY <1>2 DEF Keys
  <2> HIDE DEF place, shown
  <2> QED  BY <2>1, <2>2, <2>3 DEF Things
<1>5. ProcessItems(s) = {item(r) : r \in shown}
  BY Zenon DEF ProcessItems
<1>6. ASSUME NEW r \in shown PROVE item(r).id = <<"process", place(r)>>
  OBVIOUS
<1> HIDE DEF shown, place, item
<1>7. Distinct(ProcessItems(s))
  <2> SUFFICES ASSUME NEW q \in shown, NEW r \in shown, item(q).id = item(r).id PROVE item(q) = item(r)
    BY <1>5 DEF Distinct
  <2>1. place(q) = place(r)
    BY <1>6
  <2> QED  BY <1>3, <2>1
<1>8. \A i \in ProcessItems(s) : i.id[1] = "process"
  BY <1>5, <1>6
<1> QED  BY <1>4, <1>5, <1>7, <1>8

LEMMA StatusIsThing ==
  ASSUME TranscriptTypeOK, NEW s, s \in Streams \/ (s = NoRun /\ Started # {})
  PROVE  /\ StatusItems(s) \subseteq Things /\ Distinct(StatusItems(s))
         /\ \A i \in StatusItems(s) : i.id[1] = "status"
<1>1. RawStatus(s) \in Words
  <2>1. Started # {} => status[Latest] \in Statuses
    BY StartedRuns DEF TranscriptTypeOK
  <2>2. CASE s # NoRun
    BY <2>2 DEF RawStatus, Streams
  <2>3. CASE s = NoRun
    <3>1. s \notin Streams
      BY <2>3, StartedRuns DEF Streams, NoRun, Runs
    <3> QED  BY <2>1, <2>3, <3>1, StatusWords DEF RawStatus
  <2> QED  BY <2>2, <2>3
<1> DEFINE r == IF s # NoRun THEN s.run ELSE Latest
           i == [id |-> <<"status", r>>, status |-> RawStatus(s), of |-> {}]
<1>2. r \in Nat
  BY StartedRuns DEF Streams
<1>3. StatusItems(s) \subseteq {i}
  BY Zenon DEF StatusItems
<1> HIDE DEF r
<1>4. i \in Things /\ i.id = <<"status", r>>
  BY <1>1, <1>2 DEF Things, Keys
<1>5. i.id[1] = "status"
  BY <1>4
<1> HIDE DEF i
<1> QED  BY <1>3, <1>4, <1>5 DEF Distinct

LEMMA AnswersAreThings ==
  ASSUME TranscriptTypeOK, NEW s, s \in Streams \/ s = NoRun
  PROVE  /\ AnswerItems(s) \subseteq Things /\ Distinct(AnswerItems(s))
         /\ \A i \in AnswerItems(s) : i.id[1] = "answer"
<1> DEFINE saved(r) == [id |-> <<"answer", r>>, status |-> AnswerStatus(Worded(status[r])),
                        of |-> UNION {{q} \X kept[q].answer : q \in 1..r}]
           live == [id |-> <<"answer", s.run>>, status |-> AnswerStatus(s.status),
                    of |-> {s.run} \X s.answer]
           shown == s # NoRun /\ s.run \notin VisibleAnswers
<1>1. AnswerItems(s) \subseteq {saved(r) : r \in VisibleAnswers} \cup (IF shown THEN {live} ELSE {})
  BY Zenon DEF AnswerItems
<1>2. VisibleAnswers \subseteq Started
  BY DEF VisibleAnswers
<1>3. ASSUME NEW r \in VisibleAnswers PROVE saved(r) \in Things /\ saved(r).id = <<"answer", r>>
  <2>1. r \in Nat /\ r \in Runs /\ 1..r \subseteq Runs
    BY <1>2, StartedRuns DEF Runs
  <2>2. AnswerStatus(Worded(status[r])) \in Words
    BY <2>1, StatusWords DEF TranscriptTypeOK
  <2>3. UNION {{q} \X kept[q].answer : q \in 1..r} \in SUBSET (Nat \X Nat)
    <3>1. \A q \in 1..r : q \in Nat /\ kept[q].answer \in SUBSET Nat
      BY <2>1 DEF TranscriptTypeOK
    <3> QED  BY <3>1
  <2> QED  BY <2>1, <2>2, <2>3 DEF Things, Keys
<1>4. ASSUME shown PROVE live \in Things /\ live.id = <<"answer", s.run>>
  <2>1. s.run \in Nat /\ s.answer \in SUBSET Nat /\ AnswerStatus(s.status) \in Words
    BY <1>4, StartedRuns, StatusWords DEF Streams
  <2> QED  BY <2>1 DEF Things, Keys
<1> HIDE DEF saved, live
<1>5. Distinct(AnswerItems(s))
  <2> SUFFICES ASSUME NEW i \in AnswerItems(s), NEW j \in AnswerItems(s), i.id = j.id PROVE i = j
    BY DEF Distinct
  <2>1. ASSUME NEW q \in VisibleAnswers, NEW r \in VisibleAnswers, saved(q).id = saved(r).id PROVE saved(q) = saved(r)
    <3>1. <<"answer", q>> = <<"answer", r>>
      BY <1>3, <2>1
    <3> QED  BY <3>1
  <2>2. ASSUME NEW q \in VisibleAnswers, shown PROVE saved(q).id # live.id
    <3>1. q # s.run
      BY <2>2
    <3> QED  BY <1>3, <1>4, <2>2, <3>1
  <2>3. i \in {saved(r) : r \in VisibleAnswers} \/ (shown /\ i = live)
    BY <1>1
  <2>4. j \in {saved(r) : r \in VisibleAnswers} \/ (shown /\ j = live)
    BY <1>1
  <2> HIDE DEF shown
  <2> QED  BY <2>1, <2>2, <2>3, <2>4
<1> QED  BY <1>1, <1>3, <1>4, <1>5

LEMMA ItemsAreThings ==
  ASSUME TranscriptTypeOK, NEW s, s \in Streams \/ (s = NoRun /\ Started # {})
  PROVE  Items(s) \in SUBSET Things /\ Distinct(Items(s))
<1> DEFINE A == ProcessItems(s)
           B == StatusItems(s)
           C == AnswerItems(s)
<1>1. /\ A \subseteq Things /\ Distinct(A) /\ \A i \in A : i.id[1] = "process"
      /\ B \subseteq Things /\ Distinct(B) /\ \A i \in B : i.id[1] = "status"
      /\ C \subseteq Things /\ Distinct(C) /\ \A i \in C : i.id[1] = "answer"
  BY ProcessesAreThings, StatusIsThing, AnswersAreThings
<1> HIDE DEF A, B, C
<1>2. Distinct(A \cup B \cup C)
  <2> SUFFICES ASSUME NEW i \in A \cup B \cup C, NEW j \in A \cup B \cup C, i.id = j.id PROVE i = j
    BY DEF Distinct
  <2>1. i.id[1] = j.id[1]
    OBVIOUS
  <2>2. CASE i \in A
    BY <1>1, <2>1, <2>2 DEF Distinct
  <2>3. CASE i \in B
    BY <1>1, <2>1, <2>3 DEF Distinct
  <2>4. CASE i \in C
    BY <1>1, <2>1, <2>4 DEF Distinct
  <2> QED  BY <2>2, <2>3, <2>4
<1> QED  BY <1>1, <1>2 DEF Items, A, B, C

\* A page that shows what the patch was made against shows the items then.
LEMMA PatchIsExact ==
  ASSUME NEW items, Distinct(items), Distinct(emitted), NEW last
  PROVE  Applied(emitted, Patch(items, last)) = items
<1>1. /\ Patch(items, last).remove = Ids(emitted) \ Ids(items)
      /\ Patch(items, last).upsert = items \ emitted
  BY DEF Patch, Differs
<1>2. Applied(emitted, Patch(items, last)) =
        {i \in emitted : i.id \notin Ids(emitted) \ Ids(items) /\ i.id \notin Ids(items \ emitted)} \cup (items \ emitted)
  BY <1>1 DEF Applied
<1>3. ASSUME NEW i \in emitted, i.id \in Ids(items), i.id \notin Ids(items \ emitted) PROVE i \in items
  BY <1>3 DEF Ids, Distinct
<1>4. ASSUME NEW i \in emitted, i \in items PROVE i.id \in Ids(items) /\ i.id \notin Ids(items \ emitted)
  BY <1>4 DEF Ids, Distinct
<1>5. ASSUME NEW i \in emitted PROVE i.id \in Ids(emitted)
  BY DEF Ids
<1> QED  BY <1>2, <1>3, <1>4, <1>5

\* A patch that says nothing is made of nothing new.
LEMMA SilentIsSame ==
  ASSUME NEW items, Distinct(items), Distinct(emitted), Differs(items) = [remove |-> {}, upsert |-> {}]
  PROVE  items = emitted
<1>1. items \ emitted = {} /\ Ids(emitted) \ Ids(items) = {}
  BY DEF Differs
<1>2. ASSUME NEW i \in emitted PROVE i \in items
  BY <1>1 DEF Ids, Distinct
<1> QED  BY <1>1, <1>2

-----------------------------------------------------------------------------
(* Streams and snapshots *)

LEMMA StreamsAreStreams ==
  ASSUME TranscriptTypeOK, NEW r \in Started
  PROVE  FinishedStream(r) \in Streams /\ \A n \in Nat : Stream(r, n) \in Streams
<1>1. r \in Runs /\ Worded(status[r]) \in Words
  BY StartedRuns, StatusWords DEF TranscriptTypeOK
<1>2. FinishedStream(r) \in Streams
  BY <1>1 DEF FinishedStream, Streams
<1>3. ASSUME NEW n \in Nat PROVE Stream(r, n) \in Streams
  <2> DEFINE spoken == Positions(r, {"text", "call"}, n)
             s == StreamStatus(r, n)
             tail == IF s = "running" THEN {} ELSE {i \in spoken : i > LastCall(r, n)}
             usage == Positions(r, {"usage"}, n) # {}
  <2>1. s \in Words
    BY <1>1 DEF StreamStatus, Words
  <2>2. spoken \subseteq Nat
    BY DEF Positions
  <2>3. tail \subseteq Nat /\ usage \in BOOLEAN
    BY <2>2
  <2>4. Stream(r, n) = [run |-> r, status |-> s, blocks |-> spoken \ tail, answer |-> tail, usage |-> usage, named |-> TRUE]
    BY DEF Stream
  <2> HIDE DEF spoken, s, tail, usage
  <2> QED  BY <2>1, <2>2, <2>3, <2>4 DEF Streams
<1> QED  BY <1>2, <1>3

LEMMA SnapshotIsThings ==
  ASSUME TranscriptTypeOK
  PROVE  Snapshot \in SUBSET Things
<1>1. CASE Started = {}
  BY <1>1 DEF Snapshot
<1>2. CASE Started # {}
  <2>1. Latest \in Started /\ Len(log[Latest]) \in Nat
    BY <1>2, StartedRuns DEF TranscriptTypeOK
  <2> QED  BY <1>2, <2>1, StreamsAreStreams, ItemsAreThings DEF Snapshot
<1> QED  BY <1>1, <1>2

-----------------------------------------------------------------------------
(* The turns *)

\* A run that has saved has saved what it spoken; its last event ends it.
RunGood(r) ==
    /\ status[r] = "none" => log[r] = <<>>
    /\ kept[r].done => kept[r] = Saved(r)
    /\ \A i \in 1..Len(log[r]) : log[r][i] = "finished" => i = Len(log[r]) /\ status[r] \in Final
    /\ status[r] \in Final /\ faults = {} =>
          kept[r].done /\ Len(log[r]) > 0 /\ log[r][Len(log[r])] = "finished"

\* Runs follow each other, and each but the latest has failed.
InOrder == \E k \in 0..MaxRuns : Started = 1..k /\ \A r \in 1..(k - 1) : status[r] = "failed"

RunsInv == (\A r \in Runs : RunGood(r)) /\ InOrder

LEMMA RunKept ==
  ASSUME NEW r, RunGood(r), log'[r] = log[r], status'[r] = status[r], kept'[r] = kept[r], faults' = {} => faults = {}
  PROVE  RunGood(r)'
  BY DEF RunGood, Saved, Positions, LastCall

\* Other events do not change what a turn has spoken.
LEMMA SameSaid ==
  ASSUME NEW r, log[r] \in Seq(EventKinds), NEW e, e \notin {"text", "call"}, log'[r] = Append(log[r], e)
  PROVE  Saved(r)' = Saved(r)
<1>1. ASSUME NEW kinds, e \notin kinds
      PROVE  {i \in 1..Len(Append(log[r], e)) : Append(log[r], e)[i] \in kinds} = {i \in 1..Len(log[r]) : log[r][i] \in kinds}
  <2>1. /\ Len(Append(log[r], e)) = Len(log[r]) + 1 /\ Len(log[r]) \in Nat
        /\ Append(log[r], e)[Len(log[r]) + 1] = e
        /\ \A i \in 1..Len(log[r]) : Append(log[r], e)[i] = log[r][i]
    OBVIOUS
  <2>2. 1..(Len(log[r]) + 1) = (1..Len(log[r])) \cup {Len(log[r]) + 1}
    BY <2>1
  <2> QED  BY <1>1, <2>1, <2>2
<1>2. /\ Positions(r, {"text", "call"}, Len(log[r]))' = Positions(r, {"text", "call"}, Len(log[r]))
      /\ Positions(r, {"call"}, Len(log[r]))' = Positions(r, {"call"}, Len(log[r]))
  BY <1>1 DEF Positions
<1>3. LastCall(r, Len(log[r]))' = LastCall(r, Len(log[r]))
  BY <1>2 DEF LastCall
<1> QED  BY <1>2, <1>3 DEF Saved

\* What a step of run r may write: an event at the end of its log, its status
\* and what it has kept.
LEMMA LogGrows ==
  ASSUME TranscriptTypeOK, NEW r \in Runs, NEW e \in EventKinds, log' = [log EXCEPT ![r] = Append(@, e)]
  PROVE  /\ log' \in [Runs -> Seq(EventKinds)] /\ log'[r] = Append(log[r], e) /\ log[r] \in Seq(EventKinds)
         /\ Len(log'[r]) = Len(log[r]) + 1 /\ Len(log[r]) \in Nat /\ log'[r][Len(log[r]) + 1] = e
         /\ \A i \in 1..Len(log[r]) : log'[r][i] = log[r][i]
         /\ \A q \in Runs \ {r} : log'[q] = log[q]
  BY DEF TranscriptTypeOK

TurnStep(r) == StartRun(r) \/ Say(r) \/ AskStop(r) \/ Persist(r) \/ Done(r) \/ Finish(r)

LEMMA SavedIsTyped ==
  ASSUME TranscriptTypeOK, NEW r \in Runs
  PROVE  Saved(r) \in [blocks : SUBSET Nat, answer : SUBSET Nat, done : BOOLEAN]
<1> DEFINE spoken == Positions(r, {"text", "call"}, Len(log[r]))
           cut == LastCall(r, Len(log[r]))
<1>1. spoken \subseteq Nat
  BY DEF Positions
<1>2. Saved(r) = [blocks |-> {i \in spoken : i =< cut}, answer |-> {i \in spoken : i > cut}, done |-> TRUE]
  BY DEF Saved
<1> DEFINE A == {i \in spoken : i =< cut}
           B == {i \in spoken : i > cut}
<1>3. A \in SUBSET Nat /\ B \in SUBSET Nat /\ Saved(r) = [blocks |-> A, answer |-> B, done |-> TRUE]
  BY <1>1, <1>2
<1> HIDE DEF A, B
<1> QED  BY <1>3

\* A step of a run concerns no other run.
LEMMA TurnStepType ==
  ASSUME TranscriptTypeOK, NEW r \in Runs, TurnStep(r)
  PROVE  /\ TranscriptTypeOK' /\ UNCHANGED <<nodeVars, pageVars, count, faults>> /\ clock' = clock + 1
         /\ \A q \in Runs \ {r} : log'[q] = log[q] /\ status'[q] = status[q] /\ kept'[q] = kept[q]
<1>1. UNCHANGED <<revision, emitted, page, session, wire, asked, wants, count, faults>> /\ clock' = clock + 1
  BY DEF TurnStep, StartRun, Say, AskStop, Persist, Done, Finish, nodeVars, pageVars, Changed
<1>2. /\ log' \in [Runs -> Seq(EventKinds)]
      /\ \A q \in Runs \ {r} : log'[q] = log[q]
  <2>1. CASE log' = log
    BY <2>1 DEF TranscriptTypeOK
  <2>2. ASSUME NEW e \in EventKinds, log' = [log EXCEPT ![r] = Append(@, e)]
        PROVE  log' \in [Runs -> Seq(EventKinds)] /\ \A q \in Runs \ {r} : log'[q] = log[q]
    BY <2>2, LogGrows
  <2>3. log' = log \/ \E e \in EventKinds : log' = [log EXCEPT ![r] = Append(@, e)]
    <3>1. CASE Say(r)
      BY <3>1, TranscriptAssumption DEF Say, EventKinds
    <3>2. CASE ~ Say(r)
      BY <3>2 DEF TurnStep, StartRun, AskStop, Persist, Done, Finish, EventKinds
    <3> QED  BY <3>1, <3>2
  <2> QED  BY <2>1, <2>2, <2>3
<1>3. /\ status' \in [Runs -> Statuses]
      /\ \A q \in Runs \ {r} : status'[q] = status[q]
  <2>1. status' = status \/ \E x \in Statuses : status' = [status EXCEPT ![r] = x]
    BY DEF TurnStep, StartRun, Say, AskStop, Persist, Done, Finish, Statuses, Active, Final
  <2> QED  BY <2>1 DEF TranscriptTypeOK
<1>4. /\ kept' \in [Runs -> [blocks : SUBSET Nat, answer : SUBSET Nat, done : BOOLEAN]]
      /\ \A q \in Runs \ {r} : kept'[q] = kept[q]
  <2>1. kept' = kept \/ kept' = [kept EXCEPT ![r] = Saved(r)]
    BY DEF TurnStep, StartRun, Say, AskStop, Persist, Done, Finish
  <2> QED  BY <2>1, SavedIsTyped DEF TranscriptTypeOK
<1>5. TranscriptTypeOK'
  BY <1>1, <1>2, <1>3, <1>4 DEF TranscriptTypeOK
<1> QED  BY <1>1, <1>2, <1>3, <1>4, <1>5 DEF nodeVars, pageVars

LEMMA TurnStepRun ==
  ASSUME TranscriptTypeOK, NEW r \in Runs, RunGood(r), TurnStep(r)
  PROVE  RunGood(r)'
<1>1. faults' = faults
  BY TurnStepType
<1>2. CASE StartRun(r)
  <2>1. log'[r] = <<>> /\ status'[r] = "running" /\ kept' = kept /\ Len(log'[r]) = 0
    BY <1>2 DEF StartRun, RunGood, TranscriptTypeOK
  <2>2. Saved(r)' = Saved(r)
    BY <1>2 DEF StartRun, Saved, Positions, LastCall
  <2> QED  BY <2>1, <2>2 DEF RunGood, Final
<1>3. CASE Say(r)
  <2>1. PICK e \in Kinds : log' = [log EXCEPT ![r] = Append(@, e)]
    BY <1>3 DEF Say
  <2>2. e \in EventKinds /\ e # "finished" /\ ~ kept'[r].done /\ status'[r] = status[r] /\ status[r] \in Active
    BY <1>3, <2>1, TranscriptAssumption DEF Say, EventKinds
  <2> QED  BY <2>1, <2>2, LogGrows DEF RunGood, Active, Final
<1>4. CASE AskStop(r)
  <2>1. /\ log' = [log EXCEPT ![r] = Append(@, "stopping")] /\ kept' = kept
        /\ status[r] \in Active /\ status'[r] = "stopping" /\ "stopping" \in EventKinds
    BY <1>4 DEF AskStop, EventKinds, Active, TranscriptTypeOK
  <2>2. Saved(r)' = Saved(r)
    BY <2>1, LogGrows, SameSaid
  <2> QED  BY <2>1, <2>2, LogGrows DEF RunGood, Active, Final
<1>5. CASE Persist(r)
  <2>1. /\ log' = log /\ status' = status /\ kept'[r] = Saved(r) /\ status[r] \in Active
    BY <1>5 DEF Persist, TranscriptTypeOK
  <2>2. Saved(r)' = Saved(r)
    BY <2>1 DEF Saved, Positions, LastCall
  <2> QED  BY <2>1, <2>2 DEF RunGood, Active, Final
<1>6. CASE Done(r)
  <2>1. /\ log' = [log EXCEPT ![r] = Append(@, "done")] /\ kept' = kept
        /\ status[r] \in Active /\ status' = status /\ "done" \in EventKinds
    BY <1>6 DEF Done, EventKinds, Active
  <2>2. Saved(r)' = Saved(r)
    BY <2>1, LogGrows, SameSaid
  <2> QED  BY <2>1, <2>2, LogGrows DEF RunGood, Active, Final
<1>7. CASE Finish(r)
  <2>1. /\ log' = [log EXCEPT ![r] = Append(@, "finished")] /\ kept' = kept /\ kept[r].done
        /\ status[r] \in Active /\ status'[r] \in Final /\ "finished" \in EventKinds
    BY <1>7 DEF Finish, EventKinds, Final, TranscriptTypeOK
  <2>2. Saved(r)' = Saved(r)
    BY <2>1, LogGrows, SameSaid
  <2>3. \A i \in 1..Len(log'[r]) : log'[r][i] = "finished" => i = Len(log'[r])
    BY <2>1, LogGrows DEF RunGood, Active, Final
  <2>4. /\ Len(log'[r]) = Len(log[r]) + 1 /\ Len(log[r]) \in Nat
        /\ log'[r][Len(log'[r])] = "finished"
    <3> DEFINE e == "finished"
    <3>1. e \in EventKinds /\ log' = [log EXCEPT ![r] = Append(@, e)]
      BY <2>1
    <3> HIDE DEF e
    <3>2. /\ Len(log'[r]) = Len(log[r]) + 1 /\ Len(log[r]) \in Nat
          /\ log'[r][Len(log[r]) + 1] = e
      BY <3>1, LogGrows
    <3> QED  BY <3>2 DEF e
  <2>5. kept'[r] = Saved(r)' /\ kept'[r].done /\ status'[r] # "none"
    BY <2>1, <2>2 DEF RunGood, Final
  <2> QED  BY <2>1, <2>3, <2>4, <2>5 DEF RunGood
<1> QED  BY <1>2, <1>3, <1>4, <1>5, <1>6, <1>7 DEF TurnStep

\* A run starts as the next one; the latest one only goes on.
LEMMA TurnStepOrder ==
  ASSUME TranscriptTypeOK, NEW r \in Runs, InOrder, TurnStep(r)
  PROVE  /\ InOrder'
         /\ ~ StartRun(r) => Started' = Started /\ r \in Started /\ r = Latest /\ status[r] \in Active
         /\ StartRun(r) => Started' = Started \cup {r} /\ r \notin Started
<1>1. PICK k \in 0..MaxRuns : Started = 1..k /\ \A q \in 1..(k - 1) : status[q] = "failed"
  BY DEF InOrder
<1>2. /\ k \in Nat /\ r \in Nat /\ r >= 1 /\ MaxRuns \in Nat /\ r <= MaxRuns
      /\ \A q \in Runs \ {r} : status'[q] = status[q]
  BY TranscriptAssumption, TurnStepType DEF Runs
<1>3. CASE StartRun(r)
  <2>1. status[r] = "none" /\ status'[r] = "running" /\ (r > 1 => status[r - 1] = "failed")
    BY <1>3 DEF StartRun, TranscriptTypeOK
  <2>2. r \notin 1..k
    BY <1>1, <2>1 DEF Started
  <2>3. r > 1 => r - 1 \in 1..k
    <3>1. r > 1 => r - 1 \in Runs
      BY <1>2 DEF Runs
    <3> QED  BY <1>1, <2>1, <3>1 DEF Started
  <2>4. r = k + 1
    BY <1>2, <2>2, <2>3
  <2>5. Started' = Started \cup {r}
    BY <1>2, <2>1 DEF Started
  <2>6. k + 1 \in 0..MaxRuns /\ Started' = 1..(k + 1)
    BY <1>1, <1>2, <2>4, <2>5
  <2>7. \A q \in 1..k : status'[q] = "failed"
    <3> SUFFICES ASSUME NEW q \in 1..k PROVE status'[q] = "failed"
      OBVIOUS
    <3>1. q \in Runs \ {r} /\ (q \in 1..(k - 1) \/ q = r - 1)
      BY <1>2, <2>4 DEF Runs
    <3> QED  BY <1>1, <1>2, <2>1, <2>4, <3>1
  <2>8. InOrder'
    BY <1>2, <2>6, <2>7 DEF InOrder
  <2> QED  BY <1>1, <1>3, <2>2, <2>5, <2>8
<1>4. CASE ~ StartRun(r)
  <2>1. status[r] \in Active /\ status'[r] # "none"
    BY <1>4 DEF TurnStep, Say, AskStop, Persist, Done, Finish, Active, TranscriptTypeOK
  <2>2. r \in Started /\ Started' = Started
    BY <1>2, <2>1 DEF Started, Active
  <2>3. r = k
    BY <1>1, <1>2, <2>1, <2>2 DEF Active
  <2>4. r = Latest
    <3>1. Latest \in 1..k /\ k <= Latest
      BY <1>1, <2>2, <2>3, StartedRuns
    <3> QED  BY <1>2, <2>3, <3>1
  <2>5. \A q \in 1..(k - 1) : status'[q] = "failed"
    BY <1>1, <1>2, <2>3 DEF Runs
  <2>6. InOrder'
    BY <1>1, <2>2, <2>5 DEF InOrder
  <2> QED  BY <1>4, <2>1, <2>2, <2>4, <2>6
<1> QED  BY <1>3, <1>4

-----------------------------------------------------------------------------
(* The pages *)

\* A page follows a run that was started.
Followed ==
    \A p \in Pages : \/ session[p].at = "none" /\ session[p].run = 0 /\ wire[p] = <<>>
                     \/ session[p].at # "none" /\ session[p].run \in Started

BaseInv == TranscriptTypeOK /\ RunsInv /\ Distinct(emitted) /\ Followed

\* A step of a page or of another request
LEMMA ServerSame ==
  ASSUME RunsInv, UNCHANGED serverVars, faults' = {} => faults = {}
  PROVE  RunsInv' /\ Started' = Started /\ Latest' = Latest
<1>1. \A r \in Runs : RunGood(r)'
  BY RunKept DEF RunsInv, serverVars
<1>2. Started' = Started
  BY DEF Started, serverVars
<1>3. InOrder'
  BY <1>2 DEF RunsInv, InOrder, serverVars
<1> QED  BY <1>1, <1>2, <1>3 DEF RunsInv, Latest

\* A patch made now
NewPatch(x, items, last) ==
    /\ x \in Patches /\ x.revision = revision + 1 /\ x.made = clock /\ x.last = last
    /\ Applied(emitted, x) = items

LEMMA SendStep ==
  ASSUME TranscriptTypeOK, Distinct(emitted), NEW p \in Pages, NEW items \in SUBSET Things, Distinct(items),
         NEW terminal, NEW last \in BOOLEAN, Send(p, items, terminal, last)
  PROVE  /\ emitted' = items /\ revision' \in Nat /\ wire' \in [Pages -> Seq(Patches)]
         /\ \A q \in Pages \ {p} : wire'[q] = wire[q]
         /\ \/ ~ terminal /\ items = emitted /\ UNCHANGED <<revision, wire>>
            \/ /\ revision' = revision + 1
               /\ \E x : NewPatch(x, items, last) /\ wire' = [wire EXCEPT ![p] = Append(@, x)]
<1>1. revision \in Nat /\ wire \in [Pages -> Seq(Patches)] /\ emitted' = items
  BY DEF TranscriptTypeOK, Send
<1>2. CASE Silent(items, terminal)
  BY <1>1, <1>2, SilentIsSame DEF Send, Silent
<1>3. CASE ~ Silent(items, terminal)
  <2> DEFINE x == Patch(items, last)
  <2>1. revision' = revision + 1 /\ wire' = [wire EXCEPT ![p] = Append(@, x)]
    BY <1>3 DEF Send
  <2>2. x \in Patches
    <3>1. \A i \in Things : i.id \in Keys
      BY DEF Things
    <3>2. emitted \subseteq Things
      BY DEF TranscriptTypeOK
    <3>3. Differs(items).remove \in SUBSET Keys /\ Differs(items).upsert \in SUBSET Things
      BY <3>1, <3>2 DEF Differs, Ids
    <3> QED  BY <1>1, <3>3 DEF Patch, Patches, TranscriptTypeOK
  <2>3. x.revision = revision + 1 /\ x.made = clock /\ x.last = last
    BY DEF Patch
  <2>4. Applied(emitted, x) = items
    BY PatchIsExact
  <2> HIDE DEF x
  <2>5. wire' \in [Pages -> Seq(Patches)] /\ \A q \in Pages \ {p} : wire'[q] = wire[q]
    BY <1>1, <2>1, <2>2
  <2>6. NewPatch(x, items, last)
    BY <2>2, <2>3, <2>4 DEF NewPatch
  <2>7. \E z : NewPatch(z, items, last) /\ wire' = [wire EXCEPT ![p] = Append(@, z)]
    BY <2>1, <2>6, Zenon
  <2>8. revision' \in Nat
    BY <1>1, <2>1
  <2> QED  BY <1>1, <2>1, <2>5, <2>7, <2>8, Zenon
<1> QED  BY <1>2, <1>3

\* Feed sends the items of the stream up to the next event.
LEMMA FeedStep ==
  ASSUME BaseInv, NEW p \in Pages, Feed(p)
  PROVE  LET r == session[p].run
             n == session[p].fed + 1
         IN  /\ BaseInv' /\ UNCHANGED <<log, status, kept, page, asked, wants, clock, count, faults>>
             /\ session[p].at = "open" /\ r \in Started /\ n \in 1..Len(log[r])
             /\ \E x \in Sessions : session' = [session EXCEPT ![p] = x] /\ x.run = r
                   /\ x.at = IF log[r][n] = "finished" THEN "ended" ELSE "open"
             /\ Send(p, Items(Stream(r, n)), IsTerminal(r, n), log[r][n] = "finished")
             /\ Items(Stream(r, n)) \in SUBSET Things /\ Distinct(Items(Stream(r, n)))
<1> DEFINE r == session[p].run
           n == session[p].fed + 1
           y == IF log[r][n] = "finished" THEN "ended" ELSE "open"
           x == [session[p] EXCEPT !.fed = n, !.at = y]
<1>1. TranscriptTypeOK /\ RunsInv /\ Distinct(emitted) /\ Followed
  BY DEF BaseInv
<1>2. /\ UNCHANGED <<log, status, kept, page, asked, wants, clock, count, faults>> /\ session[p].at = "open"
      /\ n <= Len(log[r])
      /\ Send(p, Items(Stream(r, n)), IsTerminal(r, n), log[r][n] = "finished")
  BY DEF Feed, serverVars
<1>3. session[p] \in Sessions /\ session \in [Pages -> Sessions]
  BY <1>1 DEF TranscriptTypeOK
<1>4. session' = [session EXCEPT ![p] = x]
  BY <1>2, <1>3 DEF Feed, Sessions
<1>5. n \in Nat /\ n >= 1 /\ y \in {"ended", "open"}
  BY <1>3 DEF Sessions
<1> HIDE DEF y
<1>6. x \in Sessions /\ x.run = r /\ x.at = y
  BY <1>3, <1>5 DEF Sessions
<1>7. r \in Started /\ Len(log[r]) \in Nat
  BY <1>1, <1>2, StartedRuns DEF Followed, TranscriptTypeOK
<1>8. Items(Stream(r, n)) \in SUBSET Things /\ Distinct(Items(Stream(r, n)))
  BY <1>1, <1>5, <1>7, StreamsAreStreams, ItemsAreThings
<1> HIDE DEF r, n, x
<1>9. /\ emitted' = Items(Stream(r, n)) /\ revision' \in Nat /\ wire' \in [Pages -> Seq(Patches)]
      /\ \A q \in Pages \ {p} : wire'[q] = wire[q]
  BY <1>1, <1>2, <1>8, SendStep
<1>10. TranscriptTypeOK'
  BY <1>1, <1>2, <1>3, <1>4, <1>6, <1>8, <1>9 DEF TranscriptTypeOK
<1>11. RunsInv' /\ Started' = Started
  BY <1>1, <1>2, ServerSame DEF serverVars
<1>12. Followed'
  BY <1>1, <1>3, <1>4, <1>5, <1>6, <1>7, <1>9, <1>11 DEF Followed
<1>13. BaseInv'
  BY <1>8, <1>9, <1>10, <1>11, <1>12 DEF BaseInv
<1>14. n \in 1..Len(log[r])
  BY <1>2, <1>5, <1>7
<1>15. \E z \in Sessions : session' = [session EXCEPT ![p] = z] /\ z.run = r /\ z.at = y
  BY <1>4, <1>6, Zenon
<1> QED  BY <1>2, <1>7, <1>8, <1>13, <1>14, <1>15, Zenon DEF r, n, y

\* A page attaches to the active run, or again to the run that it lost.
LEMMA AttachStep ==
  ASSUME BaseInv, NEW p \in Pages, Attach(p)
  PROVE  /\ BaseInv' /\ UNCHANGED <<log, status, kept, page, asked, wants, clock, count>>
         /\ session[p].at \notin {"open", "ended"} /\ Started # {}
         /\ Happens(IF \E q \in Pages \ {p} : session[q].run # 0 THEN {"tab"} ELSE {})
         /\ \E x \in Sessions :
               /\ session' = [session EXCEPT ![p] = x] /\ x.run \in Started
               /\ \/ x.at = "open" /\ UNCHANGED <<revision, emitted, wire>>
                  \/ /\ x.at = "ended" /\ session[p].at = "retry"
                     /\ Items(FinishedStream(x.run)) \in SUBSET Things /\ Distinct(Items(FinishedStream(x.run)))
                     /\ Send(p, Items(FinishedStream(x.run)), TRUE, TRUE)
<1> DEFINE r == IF session[p].at = "retry" THEN session[p].run ELSE Latest
<1>1. TranscriptTypeOK /\ RunsInv /\ Distinct(emitted) /\ Followed
  BY DEF BaseInv
<1>2. /\ UNCHANGED <<log, status, kept, page, asked, wants, clock, count>>
      /\ session[p].at \notin {"open", "ended"} /\ Started # {}
      /\ Happens(IF \E q \in Pages \ {p} : session[q].run # 0 THEN {"tab"} ELSE {})
  BY Zenon DEF Attach, serverVars
<1>3. session[p] \in Sessions /\ session \in [Pages -> Sessions]
  BY <1>1 DEF TranscriptTypeOK
<1>4. r \in Started /\ r \in 0..MaxRuns
  <2>1. r \in Started
    BY <1>1, <1>2, StartedRuns DEF Followed
  <2> QED  BY <1>1, <2>1, StartedRuns DEF Runs
<1>5. faults' = {} => faults = {}
  BY <1>2 DEF Happens
<1>6. RunsInv' /\ Started' = Started
  BY <1>1, <1>2, <1>5, ServerSame DEF serverVars
<1>7. /\ \/ /\ status[r] \in Active /\ UNCHANGED <<revision, emitted, wire>>
            /\ session' = [session EXCEPT ![p] = [run |-> r, fed |-> 0, at |-> "open"]]
         \/ /\ session[p].at = "retry"
            /\ session' = [session EXCEPT ![p] = [run |-> r, fed |-> 0, at |-> "ended"]]
            /\ Send(p, Items(FinishedStream(r)), TRUE, TRUE)
  BY DEF Attach, nodeVars
<1> HIDE DEF r
<1>8. CASE /\ UNCHANGED <<revision, emitted, wire>>
           /\ session' = [session EXCEPT ![p] = [run |-> r, fed |-> 0, at |-> "open"]]
  <2> DEFINE x == [run |-> r, fed |-> 0, at |-> "open"]
  <2>1. x \in Sessions /\ x.run = r /\ x.at = "open" /\ session' = [session EXCEPT ![p] = x]
    BY <1>4, <1>8 DEF Sessions
  <2> HIDE DEF x
  <2>2. TranscriptTypeOK'
    BY <1>1, <1>2, <1>8, <2>1 DEF TranscriptTypeOK
  <2>3. Followed'
    BY <1>1, <1>3, <1>4, <1>6, <1>8, <2>1 DEF Followed
  <2> QED  BY <1>1, <1>2, <1>4, <1>6, <1>8, <2>1, <2>2, <2>3 DEF BaseInv
<1>9. CASE /\ session[p].at = "retry"
           /\ session' = [session EXCEPT ![p] = [run |-> r, fed |-> 0, at |-> "ended"]]
           /\ Send(p, Items(FinishedStream(r)), TRUE, TRUE)
  <2> DEFINE x == [run |-> r, fed |-> 0, at |-> "ended"]
  <2>1. x \in Sessions /\ x.run = r /\ x.at = "ended" /\ session' = [session EXCEPT ![p] = x]
    BY <1>4, <1>9 DEF Sessions
  <2> HIDE DEF x
  <2>2. Items(FinishedStream(r)) \in SUBSET Things /\ Distinct(Items(FinishedStream(r)))
    BY <1>1, <1>4, StreamsAreStreams, ItemsAreThings
  <2>3. /\ emitted' = Items(FinishedStream(r)) /\ revision' \in Nat /\ wire' \in [Pages -> Seq(Patches)]
        /\ \A q \in Pages \ {p} : wire'[q] = wire[q]
    BY <1>1, <1>9, <2>2, SendStep
  <2>4. TranscriptTypeOK'
    BY <1>1, <1>2, <2>1, <2>2, <2>3 DEF TranscriptTypeOK
  <2>5. Followed'
    BY <1>1, <1>3, <1>4, <1>6, <2>1, <2>3 DEF Followed
  <2>6. BaseInv'
    BY <1>6, <2>2, <2>3, <2>4, <2>5 DEF BaseInv
  <2> QED  BY <1>2, <1>4, <1>9, <2>1, <2>2, <2>6
<1> QED  BY <1>7, <1>8, <1>9

\* The snapshot of a page and its answer
LEMMA AskSteps ==
  ASSUME BaseInv, NEW p \in Pages, Answer(p) \/ Open(p) \/ Calibrate(p) \/ Receive(p)
  PROVE  /\ BaseInv' /\ UNCHANGED <<log, status, kept, revision, emitted, session, wire, clock>>
         /\ \A q \in Pages \ {p} : page'[q] = page[q] /\ asked'[q] = asked[q] /\ wants'[q] = wants[q]
         /\ faults' = {} => faults = {}
         /\ \/ /\ asked[p].at = "sent" /\ UNCHANGED <<page, wants>>
               /\ asked'[p] = [at |-> "answered", items |-> Snapshot, revision |-> revision, made |-> clock]
               /\ faults' = {} => Snapshot = emitted
            \/ /\ asked[p] = NotAsked /\ asked'[p].at = "sent"
               /\ page'[p].items = page[p].items /\ page'[p].revision = page[p].revision /\ page'[p].made = page[p].made
            \/ /\ asked[p].at = "answered" /\ asked'[p] = NotAsked /\ UNCHANGED wants
               /\ page'[p].items = asked[p].items /\ page'[p].revision = asked[p].revision
               /\ page'[p].made = asked[p].made
               /\ faults' = {} => asked[p].made >= page[p].made /\ asked[p].revision >= page[p].revision
<1>1. TranscriptTypeOK /\ RunsInv /\ Distinct(emitted) /\ Followed
  BY DEF BaseInv
<1>2. UNCHANGED <<log, status, kept, revision, emitted, session, wire, clock>>
  BY DEF Answer, Open, Calibrate, Receive, Asks, serverVars, nodeVars
<1>3. faults' = {} => faults = {}
  BY DEF Answer, Open, Calibrate, Receive, Asks, Happens
<1>4. RunsInv' /\ Started' = Started
  BY <1>1, <1>2, <1>3, ServerSame DEF serverVars
<1>5. TranscriptTypeOK' => BaseInv'
  BY <1>1, <1>2, <1>4 DEF BaseInv, Followed
<1>6. /\ page \in [Pages -> Views] /\ asked \in [Pages -> Requests] /\ wants \in [Pages -> BOOLEAN]
      /\ page[p] \in Views /\ asked[p] \in Requests
  BY <1>1 DEF TranscriptTypeOK
<1>7. /\ page' \in [Pages -> Views] /\ asked' \in [Pages -> Requests] /\ wants' \in [Pages -> BOOLEAN]
      => TranscriptTypeOK'
  BY <1>1, <1>2 DEF TranscriptTypeOK
<1>8. CASE Answer(p)
  <2> DEFINE x == [at |-> "answered", items |-> Snapshot, revision |-> revision, made |-> clock]
  <2>1. x \in Requests
    BY <1>1, SnapshotIsThings DEF Requests, TranscriptTypeOK
  <2>2. asked' = [asked EXCEPT ![p] = x] /\ asked[p].at = "sent" /\ UNCHANGED <<page, wants>>
    BY <1>8 DEF Answer
  <2>3. faults' = {} => Snapshot = emitted
    BY <1>8 DEF Answer, Happens
  <2>4. x = [at |-> "answered", items |-> Snapshot, revision |-> revision, made |-> clock]
    OBVIOUS
  <2> HIDE DEF x
  <2> QED  BY <1>2, <1>3, <1>5, <1>6, <1>7, <2>1, <2>2, <2>3, <2>4
<1>9. CASE Open(p) \/ Calibrate(p)
  <2> DEFINE x == [at |-> "sent"]
  <2>1. asked' = [asked EXCEPT ![p] = x] /\ asked[p] = NotAsked
    BY <1>9 DEF Open, Calibrate, Asks
  <2>2. page' = page \/ page' = [page EXCEPT ![p].open = TRUE]
    BY <1>9 DEF Open, Calibrate
  <2>3. /\ page' \in [Pages -> Views]
        /\ page'[p].items = page[p].items /\ page'[p].revision = page[p].revision /\ page'[p].made = page[p].made
        /\ \A q \in Pages \ {p} : page'[q] = page[q]
    BY <1>6, <2>2 DEF Views
  <2>4. wants' \in [Pages -> BOOLEAN] /\ \A q \in Pages \ {p} : wants'[q] = wants[q]
    BY <1>6, <1>9 DEF Open, Calibrate
  <2>5. x \in Requests /\ x.at = "sent"
    BY DEF Requests
  <2> HIDE DEF x
  <2> QED  BY <1>2, <1>3, <1>5, <1>6, <1>7, <2>1, <2>3, <2>4, <2>5
<1>10. CASE Receive(p)
  <2> DEFINE x == [open |-> TRUE, items |-> asked[p].items, revision |-> asked[p].revision, made |-> asked[p].made]
  <2>1. asked[p].at = "answered" /\ page' = [page EXCEPT ![p] = x] /\ asked' = [asked EXCEPT ![p] = NotAsked] /\ UNCHANGED wants
    BY <1>10 DEF Receive
  <2>2. asked[p] \in [at : {"answered"}, items : SUBSET Things, revision : Nat, made : Nat]
    BY <1>6, <2>1 DEF Requests, NotAsked
  <2>3. x \in Views /\ x.items = asked[p].items /\ x.revision = asked[p].revision /\ x.made = asked[p].made
    BY <2>2 DEF Views
  <2>4. faults' = {} => ~ (asked[p].made < page[p].made \/ asked[p].revision < page[p].revision)
    BY <1>10 DEF Receive, Happens
  <2>5. faults' = {} => asked[p].made >= page[p].made /\ asked[p].revision >= page[p].revision
    BY <1>6, <2>2, <2>4 DEF Views
  <2>6. NotAsked \in Requests
    BY DEF Requests
  <2> HIDE DEF x
  <2> QED  BY <1>2, <1>3, <1>5, <1>6, <1>7, <2>1, <2>3, <2>5, <2>6
<1> QED  BY <1>8, <1>9, <1>10

\* A page reads the next patch.
LEMMA ApplyStep ==
  ASSUME BaseInv, NEW p \in Pages, Apply(p)
  PROVE  LET patch == Head(wire[p])
         IN  /\ BaseInv'
             /\ UNCHANGED <<log, status, kept, revision, emitted, asked, clock, count, faults>>
             /\ wire[p] # <<>> /\ wire[p] \in Seq(Patches) /\ patch \in Patches
             /\ wire' = [wire EXCEPT ![p] = Tail(@)]
             /\ \A q \in Pages \ {p} : page'[q] = page[q] /\ wants'[q] = wants[q] /\ session'[q] = session[q]
             /\ \/ /\ patch.revision = page[p].revision + 1
                   /\ page'[p].items = Applied(page[p].items, patch)
                   /\ page'[p].revision = patch.revision /\ page'[p].made = patch.made
                   /\ wants'[p] = wants[p]
                \/ patch.revision > page[p].revision + 1 /\ wants'[p] /\ page' = page
                \/ patch.revision <= page[p].revision /\ wants'[p] = wants[p] /\ page' = page
             /\ session'[p].run = session[p].run
             /\ session'[p].at = IF patch.last THEN "done" ELSE session[p].at
<1> DEFINE patch == Head(wire[p])
<1>1. TranscriptTypeOK /\ RunsInv /\ Distinct(emitted) /\ Followed
  BY DEF BaseInv
<1>2. /\ UNCHANGED <<log, status, kept, revision, emitted, asked, clock, count, faults>>
      /\ wire[p] # <<>> /\ wire' = [wire EXCEPT ![p] = Tail(@)]
  BY DEF Apply, serverVars, nodeVars
<1>3. /\ page \in [Pages -> Views] /\ wants \in [Pages -> BOOLEAN] /\ session \in [Pages -> Sessions]
      /\ page[p] \in Views /\ session[p] \in Sessions /\ wire \in [Pages -> Seq(Patches)] /\ wire[p] \in Seq(Patches)
  BY <1>1 DEF TranscriptTypeOK
<1>4. patch \in Patches /\ wire' \in [Pages -> Seq(Patches)]
  BY <1>2, <1>3
<1>5. /\ page' = IF IsNext(p, patch)
                 THEN [page EXCEPT ![p].items = Applied(@, patch),
                                   ![p].revision = patch.revision, ![p].made = patch.made]
                 ELSE page
      /\ wants' = [wants EXCEPT ![p] = @ \/ IsGap(p, patch)]
      /\ session' = IF patch.last THEN [session EXCEPT ![p].at = "done"] ELSE session
  BY DEF Apply
<1>6. patch.revision \in Nat /\ patch.made \in Nat /\ patch.last \in BOOLEAN /\ patch.upsert \in SUBSET Things
  BY <1>4 DEF Patches
<1> HIDE DEF patch
<1>7. Applied(page[p].items, patch) \in SUBSET Things
  BY <1>3, <1>6 DEF Applied, Views
<1>8. /\ page' \in [Pages -> Views] /\ \A q \in Pages \ {p} : page'[q] = page[q]
      /\ IsNext(p, patch) => /\ page'[p].items = Applied(page[p].items, patch)
                             /\ page'[p].revision = patch.revision /\ page'[p].made = patch.made
      /\ ~ IsNext(p, patch) => page' = page
  <2>1. CASE IsNext(p, patch)
    <3> DEFINE x == [page[p] EXCEPT !.items = Applied(@, patch), !.revision = patch.revision, !.made = patch.made]
    <3>1. page' = [page EXCEPT ![p] = x]
      BY <1>3, <1>5, <2>1
    <3>2. /\ x \in Views /\ x.items = Applied(page[p].items, patch)
          /\ x.revision = patch.revision /\ x.made = patch.made
      BY <1>3, <1>6, <1>7 DEF Views
    <3> HIDE DEF x
    <3> QED  BY <1>3, <2>1, <3>1, <3>2
  <2>2. CASE ~ IsNext(p, patch)
    BY <1>3, <1>5, <2>2
  <2> QED  BY <2>1, <2>2
<1>9. /\ wants' \in [Pages -> BOOLEAN] /\ \A q \in Pages \ {p} : wants'[q] = wants[q]
      /\ IsGap(p, patch) => wants'[p]
      /\ ~ IsGap(p, patch) => wants'[p] = wants[p]
  <2>1. IsGap(p, patch) \in BOOLEAN
    BY DEF IsGap
  <2> QED  BY <1>3, <1>5, <2>1
<1>10. /\ session' \in [Pages -> Sessions] /\ \A q \in Pages \ {p} : session'[q] = session[q]
       /\ session'[p].run = session[p].run
       /\ session'[p].at = IF patch.last THEN "done" ELSE session[p].at
  <2>1. CASE patch.last
    <3> DEFINE x == [session[p] EXCEPT !.at = "done"]
    <3>1. session' = [session EXCEPT ![p] = x]
      BY <1>3, <1>5, <2>1
    <3>2. x \in Sessions /\ x.run = session[p].run /\ x.at = "done"
      BY <1>3 DEF Sessions
    <3> HIDE DEF x
    <3> QED  BY <1>3, <2>1, <3>1, <3>2
  <2>2. CASE ~ patch.last
    BY <1>3, <1>5, <2>2
  <2> QED  BY <2>1, <2>2
<1>11. \/ IsNext(p, patch) /\ ~ IsGap(p, patch) /\ patch.revision = page[p].revision + 1
       \/ IsGap(p, patch) /\ ~ IsNext(p, patch) /\ patch.revision > page[p].revision + 1
       \/ ~ IsGap(p, patch) /\ ~ IsNext(p, patch) /\ patch.revision <= page[p].revision
  BY <1>3, <1>6 DEF IsNext, IsGap, Views
<1>12. TranscriptTypeOK'
  BY <1>1, <1>2, <1>4, <1>8, <1>9, <1>10 DEF TranscriptTypeOK
<1>13. RunsInv' /\ Started' = Started
  BY <1>1, <1>2, ServerSame DEF serverVars
<1>14. Followed'
  <2> SUFFICES ASSUME NEW q \in Pages
               PROVE  \/ session'[q].at = "none" /\ session'[q].run = 0 /\ wire'[q] = <<>>
                      \/ session'[q].at # "none" /\ session'[q].run \in Started
    BY <1>13 DEF Followed
  <2>1. CASE q # p
    BY <1>1, <1>2, <1>3, <1>10, <2>1 DEF Followed
  <2>2. CASE q = p
    BY <1>1, <1>2, <1>10, <2>2 DEF Followed
  <2> QED  BY <2>1, <2>2
<1>15. BaseInv'
  BY <1>1, <1>2, <1>12, <1>13, <1>14 DEF BaseInv
<1> QED  BY <1>2, <1>3, <1>4, <1>8, <1>9, <1>10, <1>11, <1>15 DEF patch

\* Steps that concern every page
LEMMA BumpStep ==
  ASSUME BaseInv, NotificationPatch
  PROVE  /\ BaseInv' /\ revision' = revision + 1
         /\ UNCHANGED <<log, status, kept, emitted, page, session, wire, asked, wants, clock, faults>>
<1>1. /\ revision' = revision + 1
      /\ UNCHANGED <<log, status, kept, emitted, page, session, wire, asked, wants, clock, faults>>
  BY DEF NotificationPatch, serverVars, pageVars
<1>2. TranscriptTypeOK'
  BY <1>1 DEF BaseInv, TranscriptTypeOK
<1>3. RunsInv' /\ Started' = Started
  BY <1>1, ServerSame DEF BaseInv, serverVars
<1> QED  BY <1>1, <1>2, <1>3 DEF BaseInv, Followed

LEMMA LoseStep ==
  ASSUME BaseInv, NEW p \in Pages, Lose(p)
  PROVE  /\ BaseInv' /\ faults' # {}
         /\ UNCHANGED <<log, status, kept, revision, emitted, page, asked, wants, clock>>
         /\ wire' = [wire EXCEPT ![p] = <<>>]
<1> DEFINE x == [session[p] EXCEPT !.at = "retry"]
<1>1. /\ UNCHANGED <<log, status, kept, revision, emitted, page, asked, wants, clock>>
      /\ wire' = [wire EXCEPT ![p] = <<>>] /\ session[p].at # "none"
  BY DEF Lose, serverVars, nodeVars
<1>2. faults' # {} /\ (faults' = {} => faults = {})
  BY DEF Lose, Happens
<1>3. session \in [Pages -> Sessions] /\ session[p] \in Sessions /\ wire \in [Pages -> Seq(Patches)] /\ Followed
  BY DEF BaseInv, TranscriptTypeOK
<1>4. session' = [session EXCEPT ![p] = x]
  BY <1>3 DEF Lose
<1>5. x \in Sessions /\ x.run = session[p].run /\ x.at = "retry"
  BY <1>3 DEF Sessions
<1> HIDE DEF x
<1>6. wire' \in [Pages -> Seq(Patches)] /\ session' \in [Pages -> Sessions]
  BY <1>1, <1>3, <1>4, <1>5
<1>7. TranscriptTypeOK'
  BY <1>1, <1>6 DEF BaseInv, TranscriptTypeOK
<1>8. RunsInv' /\ Started' = Started
  BY <1>1, <1>2, ServerSame DEF BaseInv, serverVars
<1>9. Followed'
  BY <1>1, <1>3, <1>4, <1>5, <1>8 DEF Followed
<1> QED  BY <1>1, <1>2, <1>7, <1>8, <1>9 DEF BaseInv

LEMMA RestartStep ==
  ASSUME BaseInv, Restart
  PROVE  BaseInv' /\ "restart" \in faults'
<1> DEFINE x(p) == IF session[p].at \in {"open", "ended"} THEN [session[p] EXCEPT !.at = "retry"] ELSE session[p]
<1>1. /\ UNCHANGED <<log, kept, page, wants>> /\ revision' = 0 /\ emitted' = {} /\ clock' = clock + 1
      /\ session' = [p \in Pages |-> x(p)] /\ wire' = [p \in Pages |-> <<>>] /\ asked' = [p \in Pages |-> NotAsked]
      /\ status' = [r \in Runs |-> IF status[r] \in Active THEN "interrupted" ELSE status[r]]
      /\ "restart" \in faults'
  BY DEF Restart, Happens, Changed
<1>2. TranscriptTypeOK /\ RunsInv /\ Followed
  BY DEF BaseInv
<1>3. ASSUME NEW p \in Pages
      PROVE  x(p) \in Sessions /\ x(p).run = session[p].run /\ (x(p).at = "none" <=> session[p].at = "none")
  BY <1>2 DEF TranscriptTypeOK, Sessions
<1> HIDE DEF x
<1>4. /\ status' \in [Runs -> Statuses] /\ \A r \in Runs : status'[r] = "none" <=> status[r] = "none"
      /\ \A r \in Runs : status[r] \in Final => status'[r] = status[r]
      /\ \A r \in Runs : status'[r] \notin Active
  BY <1>1, <1>2 DEF TranscriptTypeOK, Statuses, Active, Final
<1>5. Started' = Started
  BY <1>4 DEF Started
<1>6. ASSUME NEW r \in Runs PROVE RunGood(r)'
  <2>1. RunGood(r) /\ Saved(r)' = Saved(r)
    BY <1>1, <1>2 DEF RunsInv, Saved, Positions, LastCall
  <2> QED  BY <1>1, <1>4, <2>1 DEF RunGood
<1>7. InOrder'
  <2>1. PICK k \in 0..MaxRuns : Started = 1..k /\ \A q \in 1..(k - 1) : status[q] = "failed"
    BY <1>2 DEF RunsInv, InOrder
  <2>2. 1..(k - 1) \subseteq Runs
    BY <2>1, TranscriptAssumption DEF Runs
  <2>3. \A q \in 1..(k - 1) : status'[q] = "failed"
    BY <1>4, <2>1, <2>2 DEF Final
  <2> QED  BY <1>5, <2>1, <2>3 DEF InOrder
<1>8. TranscriptTypeOK'
  <2>1. NotAsked \in Requests /\ <<>> \in Seq(Patches) /\ {} \in SUBSET Things
    BY DEF Requests
  <2>2. session' \in [Pages -> Sessions]
    BY <1>1, <1>3
  <2> QED  BY <1>1, <1>2, <1>4, <2>1, <2>2 DEF TranscriptTypeOK
<1>9. Followed'
  <2> SUFFICES ASSUME NEW p \in Pages
               PROVE  \/ session'[p].at = "none" /\ session'[p].run = 0 /\ wire'[p] = <<>>
                      \/ session'[p].at # "none" /\ session'[p].run \in Started
    BY <1>5 DEF Followed
  <2> QED  BY <1>1, <1>2, <1>3 DEF Followed
<1> QED  BY <1>1, <1>6, <1>7, <1>8, <1>9 DEF BaseInv, RunsInv, Distinct

LEMMA TurnsBase ==
  ASSUME BaseInv, NEW r \in Runs, TurnStep(r)
  PROVE  BaseInv'
<1>1. TranscriptTypeOK' /\ UNCHANGED <<nodeVars, pageVars, count, faults>>
      /\ \A q \in Runs \ {r} : log'[q] = log[q] /\ status'[q] = status[q] /\ kept'[q] = kept[q]
  BY TurnStepType DEF BaseInv
<1>2. \A q \in Runs : RunGood(q)'
  BY <1>1, RunKept, TurnStepRun DEF BaseInv, RunsInv
<1>3. InOrder' /\ Started \subseteq Started'
  BY TurnStepOrder DEF BaseInv, RunsInv
<1> QED  BY <1>1, <1>2, <1>3 DEF BaseInv, RunsInv, Followed, nodeVars, pageVars

LEMMA BaseInitial ==
  ASSUME TranscriptInit
  PROVE  BaseInv
<1>1. MaxRuns \in Nat /\ 0 \in 0..MaxRuns
  BY TranscriptAssumption
<1>2. TranscriptTypeOK
  <2>1. NoSession \in Sessions
    BY <1>1 DEF NoSession, Sessions
  <2>2. [open |-> FALSE, items |-> {}, revision |-> 0, made |-> 0] \in Views
    BY DEF Views
  <2>3. NotAsked \in Requests
    BY DEF Requests
  <2>4. <<>> \in Seq(Patches) /\ <<>> \in Seq(EventKinds) /\ "none" \in Statuses
    BY DEF Statuses
  <2>5. [blocks |-> {}, answer |-> {}, done |-> FALSE] \in [blocks : SUBSET Nat, answer : SUBSET Nat, done : BOOLEAN]
    OBVIOUS
  <2> QED  BY <2>1, <2>2, <2>3, <2>4, <2>5 DEF TranscriptInit, TranscriptTypeOK
<1>3. \A r \in Runs : RunGood(r)
  BY DEF TranscriptInit, RunGood, Final
<1>4. Started = {}
  BY DEF Started, TranscriptInit
<1>5. InOrder
  BY <1>1, <1>4 DEF InOrder
<1>6. Followed
  BY DEF TranscriptInit, Followed, NoSession
<1>7. Distinct(emitted)
  BY DEF TranscriptInit, Distinct
<1> QED  BY <1>2, <1>3, <1>5, <1>6, <1>7 DEF BaseInv, RunsInv

-----------------------------------------------------------------------------
(* The end of a turn is noticed *)

HasAnswer(p) == asked[p].at = "answered"

\* In one life of the server a later revision was computed later.
Ordered(p) ==
    /\ page[p].revision <= revision
    /\ HasAnswer(p) => asked[p].revision <= revision
    /\ \A i \in 1..Len(wire[p]) :
          /\ wire[p][i].revision <= revision /\ wire[p][i].made <= clock
          /\ wire[p][i].revision <= page[p].revision => wire[p][i].made <= page[p].made
          /\ HasAnswer(p) /\ wire[p][i].revision <= asked[p].revision => wire[p][i].made <= asked[p].made
          /\ \A j \in 1..Len(wire[p]) :
                wire[p][i].revision <= wire[p][j].revision => wire[p][i].made <= wire[p][j].made

OrderInv == BaseInv /\ ("restart" \notin faults => \A p \in Pages : Ordered(p))

LEMMA PageTypes ==
  ASSUME BaseInv, NEW p \in Pages
  PROVE  /\ page[p] \in Views /\ page[p].revision \in Nat /\ page[p].made \in Nat
         /\ revision \in Nat /\ clock \in Nat
         /\ HasAnswer(p) => asked[p].revision \in Nat /\ asked[p].made \in Nat
         /\ wire[p] \in Seq(Patches) /\ Len(wire[p]) \in Nat /\ wire \in [Pages -> Seq(Patches)]
         /\ \A i \in 1..Len(wire[p]) : wire[p][i] \in Patches /\ wire[p][i].revision \in Nat /\ wire[p][i].made \in Nat
<1>1. /\ page[p] \in Views /\ asked[p] \in Requests /\ wire[p] \in Seq(Patches)
      /\ revision \in Nat /\ clock \in Nat /\ wire \in [Pages -> Seq(Patches)]
  BY DEF BaseInv, TranscriptTypeOK
<1>2. page[p].revision \in Nat /\ page[p].made \in Nat
  BY <1>1 DEF Views
<1>3. HasAnswer(p) => asked[p].revision \in Nat /\ asked[p].made \in Nat
  BY <1>1 DEF HasAnswer, Requests, NotAsked
<1>4. \A i \in 1..Len(wire[p]) : wire[p][i] \in Patches
  BY <1>1
<1>5. \A x \in Patches : x.revision \in Nat /\ x.made \in Nat
  BY DEF Patches
<1> QED  BY <1>1, <1>2, <1>3, <1>4, <1>5

\* A page that a step is not about, while time and the counter go on
LEMMA OrderedSame ==
  ASSUME BaseInv, NEW p \in Pages, Ordered(p), wire'[p] = wire[p],
         page'[p].revision = page[p].revision, page'[p].made = page[p].made,
         HasAnswer(p)' => HasAnswer(p) /\ asked'[p].revision = asked[p].revision /\ asked'[p].made = asked[p].made,
         revision' \in Nat, clock' \in Nat, revision' >= revision, clock' >= clock
  PROVE  Ordered(p)'
<1>1. /\ page'[p].revision <= revision'
      /\ HasAnswer(p)' => asked'[p].revision <= revision'
  BY PageTypes DEF Ordered
<1>2. ASSUME NEW i \in 1..Len(wire[p]) PROVE wire[p][i].revision <= revision' /\ wire[p][i].made <= clock'
  BY PageTypes DEF Ordered
<1> QED  BY <1>1, <1>2 DEF Ordered

\* A new patch is the latest thing of all.
LEMMA OrderedSend ==
  ASSUME BaseInv, NEW p \in Pages, Ordered(p), NEW x \in Patches, x.revision = revision + 1, x.made = clock,
         wire' = [wire EXCEPT ![p] = Append(@, x)], revision' = revision + 1,
         UNCHANGED <<page, asked, clock>>
  PROVE  Ordered(p)'
<1> DEFINE n == Len(wire[p])
           w == wire[p]
           v == wire'[p]
<1>1. n \in Nat /\ Len(v) = n + 1 /\ v[n + 1] = x /\ \A i \in 1..n : v[i] = w[i]
  BY PageTypes
<1>2. \A i \in 1..(n + 1) : i \in 1..n \/ i = n + 1
  BY <1>1
<1>3. \A i \in 1..n : w[i].revision <= revision /\ w[i].made <= clock /\ w[i].revision \in Nat /\ w[i].made \in Nat
  BY PageTypes DEF Ordered
<1>4. revision \in Nat /\ clock \in Nat /\ page[p].revision \in Nat /\ page[p].revision <= revision
  BY PageTypes DEF Ordered
<1>5. HasAnswer(p) => asked[p].revision \in Nat /\ asked[p].revision <= revision
  BY PageTypes DEF Ordered
<1>6. HasAnswer(p)' <=> HasAnswer(p)
  BY DEF HasAnswer
<1> HIDE DEF n, v
<1>7. ASSUME NEW i \in 1..Len(v)
      PROVE  /\ v[i].revision <= revision' /\ v[i].made <= clock
             /\ v[i].revision <= page[p].revision => v[i].made <= page[p].made
             /\ HasAnswer(p) /\ v[i].revision <= asked[p].revision => v[i].made <= asked[p].made
             /\ \A j \in 1..Len(v) : v[i].revision <= v[j].revision => v[i].made <= v[j].made
  <2>1. CASE i = n + 1
    <3>1. v[i] = x
      BY <1>1, <2>1
    <3>2. \A j \in 1..Len(v) : v[i].revision <= v[j].revision => v[i].made <= v[j].made
      <4> SUFFICES ASSUME NEW j \in 1..Len(v), v[i].revision <= v[j].revision PROVE v[i].made <= v[j].made
        OBVIOUS
      <4>1. CASE j = n + 1
        BY <1>1, <1>4, <3>1, <4>1
      <4>2. CASE j \in 1..n
        BY <1>1, <1>3, <1>4, <3>1, <4>2
      <4> QED  BY <1>1, <1>2, <4>1, <4>2
    <3> QED  BY <1>4, <1>5, <3>1, <3>2
  <2>2. CASE i \in 1..n
    <3>1. v[i] = w[i]
      BY <1>1, <2>2
    <3>2. /\ v[i].revision <= revision' /\ v[i].made <= clock
      BY <1>3, <1>4, <2>2, <3>1
    <3>3. /\ v[i].revision <= page[p].revision => v[i].made <= page[p].made
          /\ HasAnswer(p) /\ v[i].revision <= asked[p].revision => v[i].made <= asked[p].made
      BY <2>2, <3>1 DEF Ordered, n
    <3>4. \A j \in 1..Len(v) : v[i].revision <= v[j].revision => v[i].made <= v[j].made
      <4> SUFFICES ASSUME NEW j \in 1..Len(v), v[i].revision <= v[j].revision PROVE v[i].made <= v[j].made
        OBVIOUS
      <4>1. CASE j = n + 1
        BY <1>1, <1>3, <2>2, <3>1, <4>1
      <4>2. CASE j \in 1..n
        <5>1. w[i].revision <= w[j].revision => w[i].made <= w[j].made
          BY <2>2, <4>2 DEF Ordered, n
        <5> QED  BY <1>1, <3>1, <4>2, <5>1
      <4> QED  BY <1>1, <1>2, <4>1, <4>2
    <3> QED  BY <3>2, <3>3, <3>4
  <2> QED  BY <1>1, <1>2, <2>1, <2>2
<1>8. page'[p].revision <= revision' /\ (HasAnswer(p)' => asked'[p].revision <= revision')
  BY <1>4, <1>5, <1>6
<1> QED  BY <1>6, <1>7, <1>8 DEF Ordered, v

LEMMA OrderedWhenSent ==
  ASSUME BaseInv, \A q \in Pages : Ordered(q), NEW p \in Pages, NEW items \in SUBSET Things, Distinct(items),
         NEW terminal, NEW last \in BOOLEAN, Send(p, items, terminal, last),
         UNCHANGED <<page, asked, clock>>
  PROVE  \A q \in Pages : Ordered(q)'
<1>1. /\ revision' \in Nat /\ \A q \in Pages \ {p} : wire'[q] = wire[q]
      /\ \/ UNCHANGED <<revision, wire>>
         \/ /\ revision' = revision + 1
            /\ \E x : NewPatch(x, items, last) /\ wire' = [wire EXCEPT ![p] = Append(@, x)]
  BY SendStep DEF BaseInv
<1>2. revision \in Nat /\ clock \in Nat /\ revision' >= revision
  BY <1>1 DEF BaseInv, TranscriptTypeOK
<1>3. ASSUME NEW q \in Pages, wire'[q] = wire[q] PROVE Ordered(q)'
  BY <1>1, <1>2, <1>3, OrderedSame DEF HasAnswer
<1>4. CASE UNCHANGED wire
  BY <1>3, <1>4
<1>5. ASSUME NEW x, NewPatch(x, items, last), wire' = [wire EXCEPT ![p] = Append(@, x)], revision' = revision + 1
      PROVE  Ordered(p)'
  BY <1>5, OrderedSend DEF NewPatch
<1> QED  BY <1>1, <1>3, <1>4, <1>5

\* The patch that a page reads comes before the others.
LEMMA OrderedApply ==
  ASSUME BaseInv, NEW p \in Pages, Ordered(p), Apply(p)
  PROVE  Ordered(p)'
<1> DEFINE w == wire[p]
           v == wire'[p]
           patch == Head(wire[p])
<1>1. /\ w # <<>> /\ w \in Seq(Patches) /\ v = Tail(w)
  BY ApplyStep, PageTypes
<1>2. Len(w) \in Nat /\ Len(w) > 0 /\ Len(v) = Len(w) - 1 /\ patch = w[1] /\ \A i \in 1..Len(v) : v[i] = w[i + 1]
  BY <1>1
<1>3. UNCHANGED <<revision, clock, asked>> /\ (HasAnswer(p)' <=> HasAnswer(p))
  BY ApplyStep DEF HasAnswer
<1>4. /\ \A i \in 1..Len(w) : w[i].revision \in Nat /\ w[i].made \in Nat
      /\ revision \in Nat /\ page[p].revision \in Nat
  BY PageTypes
<1>5. \/ page'[p].revision = patch.revision /\ page'[p].made = patch.made
      \/ page'[p] = page[p]
  BY ApplyStep, Zenon
<1> HIDE DEF v, patch
<1>6. ASSUME NEW i \in 1..Len(v) PROVE i + 1 \in 1..Len(w) /\ 1 \in 1..Len(w) /\ v[i] = w[i + 1]
  BY <1>2
<1>7. ASSUME NEW i \in 1..Len(v)
      PROVE  /\ v[i].revision <= revision /\ v[i].made <= clock
             /\ v[i].revision <= page'[p].revision => v[i].made <= page'[p].made
             /\ HasAnswer(p) /\ v[i].revision <= asked[p].revision => v[i].made <= asked[p].made
             /\ \A j \in 1..Len(v) : v[i].revision <= v[j].revision => v[i].made <= v[j].made
  <2>1. v[i].revision <= page'[p].revision => v[i].made <= page'[p].made
    BY <1>2, <1>5, <1>6 DEF Ordered
  <2>2. \A j \in 1..Len(v) : v[i].revision <= v[j].revision => v[i].made <= v[j].made
    BY <1>6 DEF Ordered
  <2>3. /\ v[i].revision <= revision /\ v[i].made <= clock
        /\ HasAnswer(p) /\ v[i].revision <= asked[p].revision => v[i].made <= asked[p].made
    BY <1>6 DEF Ordered
  <2> QED  BY <2>1, <2>2, <2>3
<1>8. page'[p].revision <= revision
  BY <1>2, <1>5 DEF Ordered
<1>9. HasAnswer(p) => asked[p].revision <= revision
  BY DEF Ordered
<1> QED  BY <1>3, <1>7, <1>8, <1>9 DEF Ordered, v

LEMMA OrderInitial ==
  ASSUME TranscriptInit
  PROVE  OrderInv
<1>1. ASSUME NEW p \in Pages PROVE Ordered(p)
  BY DEF TranscriptInit, Ordered, HasAnswer, NotAsked
<1> QED  BY <1>1, BaseInitial DEF OrderInv

LEMMA OrderStep ==
  ASSUME OrderInv, [TranscriptNext]_transcriptVars
  PROVE  OrderInv'
<1>1. BaseInv /\ revision \in Nat /\ clock \in Nat /\ clock + 1 >= clock /\ revision + 1 >= revision
  BY DEF OrderInv, BaseInv, TranscriptTypeOK
<1>2. ASSUME NEW r \in Runs, TurnStep(r) PROVE OrderInv'
  <2>1. BaseInv' /\ UNCHANGED <<nodeVars, pageVars, faults>> /\ clock' = clock + 1
    BY <1>1, <1>2, TurnsBase, TurnStepType DEF BaseInv
  <2>2. ASSUME NEW p \in Pages, Ordered(p) PROVE Ordered(p)'
    BY <1>1, <2>1, <2>2, OrderedSame DEF nodeVars, pageVars, HasAnswer
  <2> QED  BY <2>1, <2>2 DEF OrderInv
<1>3. ASSUME NEW p \in Pages, Feed(p) PROVE OrderInv'
  <2> DEFINE shown == Items(Stream(session[p].run, session[p].fed + 1))
             terminal == IsTerminal(session[p].run, session[p].fed + 1)
             last == log[session[p].run][session[p].fed + 1] = "finished"
  <2>1. BaseInv' /\ UNCHANGED <<page, asked, clock, faults>> /\ Send(p, shown, terminal, last) /\ Distinct(shown)
        /\ shown \in SUBSET Things
    BY <1>1, <1>3, FeedStep, Zenon
  <2>2. last \in BOOLEAN
    OBVIOUS
  <2> HIDE DEF shown, terminal, last
  <2>3. (\A q \in Pages : Ordered(q)) => \A q \in Pages : Ordered(q)'
    BY <1>1, <2>1, <2>2, OrderedWhenSent
  <2> QED  BY <2>1, <2>3 DEF OrderInv
<1>4. ASSUME NEW p \in Pages, Attach(p) PROVE OrderInv'
  <2>1. BaseInv' /\ UNCHANGED <<page, asked, clock>> /\ faults \subseteq faults'
    BY <1>1, <1>4, AttachStep DEF Happens
  <2>2. PICK x \in Sessions :
               \/ UNCHANGED <<revision, wire>>
               \/ /\ Items(FinishedStream(x.run)) \in SUBSET Things /\ Distinct(Items(FinishedStream(x.run)))
                  /\ Send(p, Items(FinishedStream(x.run)), TRUE, TRUE)
    BY <1>1, <1>4, AttachStep, Zenon
  <2>3. CASE UNCHANGED <<revision, wire>>
    <3>1. ASSUME NEW q \in Pages, Ordered(q) PROVE Ordered(q)'
      BY <1>1, <2>1, <2>3, <3>1, OrderedSame DEF HasAnswer
    <3> QED  BY <2>1, <3>1 DEF OrderInv
  <2>4. CASE /\ Items(FinishedStream(x.run)) \in SUBSET Things /\ Distinct(Items(FinishedStream(x.run)))
             /\ Send(p, Items(FinishedStream(x.run)), TRUE, TRUE)
    <3>1. (\A q \in Pages : Ordered(q)) => \A q \in Pages : Ordered(q)'
      BY <1>1, <2>1, <2>4, OrderedWhenSent
    <3> QED  BY <2>1, <3>1 DEF OrderInv
  <2> QED  BY <2>2, <2>3, <2>4
<1>5. ASSUME NEW p \in Pages, Answer(p) \/ Open(p) \/ Calibrate(p) \/ Receive(p) PROVE OrderInv'
  <2>1. /\ BaseInv' /\ UNCHANGED <<revision, wire, clock>>
        /\ \A q \in Pages \ {p} : page'[q] = page[q] /\ asked'[q] = asked[q]
    BY <1>1, <1>5, AskSteps, Zenon
  <2>2. ASSUME NEW q \in Pages \ {p}, Ordered(q) PROVE Ordered(q)'
    BY <1>1, <2>1, <2>2, OrderedSame DEF HasAnswer
  <2>3. ASSUME Ordered(p) PROVE Ordered(p)'
    <3>1. \/ /\ UNCHANGED page
             /\ asked'[p] = [at |-> "answered", items |-> Snapshot, revision |-> revision, made |-> clock]
          \/ /\ asked'[p].at = "sent"
             /\ page'[p].items = page[p].items /\ page'[p].revision = page[p].revision /\ page'[p].made = page[p].made
          \/ /\ asked[p].at = "answered" /\ asked'[p] = NotAsked
             /\ page'[p].revision = asked[p].revision /\ page'[p].made = asked[p].made
      BY <1>1, <1>5, AskSteps, Zenon
    <3>2. CASE UNCHANGED page /\ asked'[p] = [at |-> "answered", items |-> Snapshot, revision |-> revision, made |-> clock]
      BY <1>1, <2>1, <2>3, <3>2, PageTypes DEF Ordered, HasAnswer
    <3>3. CASE asked'[p].at = "sent" /\ page'[p].revision = page[p].revision /\ page'[p].made = page[p].made
      BY <1>1, <2>1, <2>3, <3>3, OrderedSame DEF HasAnswer
    <3>4. CASE /\ asked[p].at = "answered" /\ asked'[p] = NotAsked
               /\ page'[p].revision = asked[p].revision /\ page'[p].made = asked[p].made
      <4>1. HasAnswer(p) /\ ~ HasAnswer(p)' /\ wire'[p] = wire[p] /\ UNCHANGED <<revision, clock>>
        BY <2>1, <3>4 DEF HasAnswer, NotAsked
      <4>2. page'[p].revision <= revision
        BY <2>3, <3>4, <4>1 DEF Ordered
      <4>3. ASSUME NEW i \in 1..Len(wire[p])
            PROVE  /\ wire[p][i].revision <= revision /\ wire[p][i].made <= clock
                   /\ wire[p][i].revision <= page'[p].revision => wire[p][i].made <= page'[p].made
                   /\ \A j \in 1..Len(wire[p]) :
                         wire[p][i].revision <= wire[p][j].revision => wire[p][i].made <= wire[p][j].made
        BY <2>3, <3>4, <4>1 DEF Ordered
      <4> QED  BY <4>1, <4>2, <4>3 DEF Ordered
    <3> QED  BY <3>1, <3>2, <3>3, <3>4
  <2>4. faults \subseteq faults'
    BY <1>5 DEF Answer, Open, Calibrate, Receive, Happens
  <2> QED  BY <2>1, <2>2, <2>3, <2>4 DEF OrderInv
<1>6. ASSUME NEW p \in Pages, Apply(p) PROVE OrderInv'
  <2>1. /\ BaseInv' /\ UNCHANGED <<revision, clock, asked, faults>> /\ wire' = [wire EXCEPT ![p] = Tail(@)]
        /\ \A q \in Pages \ {p} : page'[q] = page[q]
    BY <1>1, <1>6, ApplyStep, Zenon
  <2>2. ASSUME NEW q \in Pages \ {p}, Ordered(q) PROVE Ordered(q)'
    <3>1. wire'[q] = wire[q]
      BY <1>1, <2>1, PageTypes
    <3>2. revision' = revision /\ clock' = clock
      BY <2>1
    <3> QED  BY <1>1, <2>1, <2>2, <3>1, <3>2, OrderedSame DEF HasAnswer
  <2> QED  BY <1>1, <1>6, <2>1, <2>2, OrderedApply DEF OrderInv
<1>7. ASSUME NEW p \in Pages, Lose(p) PROVE OrderInv'
  <2>1. /\ BaseInv' /\ UNCHANGED <<revision, page, asked, clock>> /\ wire' = [wire EXCEPT ![p] = <<>>]
    BY <1>1, <1>7, LoseStep, Zenon
  <2>2. ASSUME NEW q \in Pages \ {p}, Ordered(q) PROVE Ordered(q)'
    <3>1. wire'[q] = wire[q]
      BY <1>1, <2>1, PageTypes
    <3> QED  BY <1>1, <2>1, <2>2, <3>1, OrderedSame DEF HasAnswer
  <2>3. ASSUME Ordered(p) PROVE Ordered(p)'
    <3>1. wire'[p] = <<>> /\ Len(wire'[p]) = 0
      BY <1>1, <2>1, PageTypes
    <3> QED  BY <1>1, <2>1, <2>3, <3>1 DEF Ordered, HasAnswer
  <2>4. faults \subseteq faults'
    BY <1>7 DEF Lose, Happens
  <2> QED  BY <2>1, <2>2, <2>3, <2>4 DEF OrderInv
<1>8. CASE NotificationPatch
  <2>1. /\ BaseInv' /\ revision' = revision + 1 /\ UNCHANGED <<page, wire, asked, clock, faults>>
    BY <1>1, <1>8, BumpStep
  <2>2. ASSUME NEW q \in Pages, Ordered(q) PROVE Ordered(q)'
    BY <1>1, <2>1, <2>2, OrderedSame DEF HasAnswer
  <2> QED  BY <2>1, <2>2 DEF OrderInv
<1>9. CASE Restart
  BY <1>1, <1>9, RestartStep DEF OrderInv
<1>10. CASE UNCHANGED transcriptVars
  <2>1. UNCHANGED <<log, status, kept, revision, emitted, page, session, wire, asked, wants, clock, faults>>
    BY <1>10 DEF transcriptVars, serverVars, nodeVars, pageVars
  <2>2. TranscriptTypeOK' /\ RunsInv' /\ Started' = Started
    BY <1>1, <2>1, ServerSame DEF BaseInv, TranscriptTypeOK, serverVars
  <2>3. BaseInv'
    BY <1>1, <2>1, <2>2 DEF BaseInv, Followed
  <2>4. ASSUME NEW q \in Pages, Ordered(q) PROVE Ordered(q)'
    BY <1>1, <2>1, <2>4, OrderedSame DEF HasAnswer
  <2> QED  BY <2>1, <2>3, <2>4 DEF OrderInv
<1> QED  BY <1>2, <1>3, <1>4, <1>5, <1>6, <1>7, <1>8, <1>9, <1>10 DEF TranscriptNext, TurnStep

\* The last patch of a stream is the last one under way, and the page waits for it.
LastsEnd(p) ==
    /\ session[p].at \in {"none", "retry", "done"} => wire[p] = <<>>
    /\ session[p].at = "open" => \A i \in 1..Len(wire[p]) : ~ wire[p][i].last
    /\ session[p].at = "ended" =>
          wire[p] # <<>> /\ \A i \in 1..Len(wire[p]) : wire[p][i].last <=> i = Len(wire[p])

LastsInv == BaseInv /\ \A p \in Pages : LastsEnd(p)

LEMMA LastsSame ==
  ASSUME NEW p, LastsEnd(p), session'[p].at = session[p].at, wire'[p] = wire[p]
  PROVE  LastsEnd(p)'
BY DEF LastsEnd

LEMMA LastsAppend ==
  ASSUME BaseInv, NEW p \in Pages, LastsEnd(p), NEW x \in Patches, NEW v, v = Append(wire[p], x),
         session[p].at \in {"none", "retry", "done", "open"}
  PROVE  v # <<>> /\ Len(v) \in Nat /\ \A i \in 1..Len(v) : v[i].last <=> (i = Len(v) /\ x.last)
<1>1. wire[p] \in Seq(Patches) /\ Len(wire[p]) \in Nat
  BY PageTypes
<1>2. Len(v) = Len(wire[p]) + 1 /\ v[Len(v)] = x /\ \A i \in 1..Len(wire[p]) : v[i] = wire[p][i]
  BY <1>1
<1>3. \A i \in 1..Len(v) : i = Len(v) \/ i \in 1..Len(wire[p])
  BY <1>1, <1>2
<1>4. \A i \in 1..Len(wire[p]) : ~ wire[p][i].last /\ i # Len(v)
  BY <1>1, <1>2 DEF LastsEnd
<1>5. v # <<>>
  BY <1>1
<1> QED  BY <1>1, <1>2, <1>3, <1>4, <1>5

LEMMA LastsWhenSent ==
  ASSUME LastsInv, NEW p \in Pages, NEW items \in SUBSET Things, Distinct(items),
         NEW terminal \in BOOLEAN, NEW last \in BOOLEAN, last => terminal, Send(p, items, terminal, last),
         NEW x \in Sessions, session' = [session EXCEPT ![p] = x], x.at = IF last THEN "ended" ELSE "open",
         session[p].at # "ended"
  PROVE  \A q \in Pages : LastsEnd(q)'
<1>1. /\ wire' \in [Pages -> Seq(Patches)] /\ \A q \in Pages \ {p} : wire'[q] = wire[q]
      /\ \/ ~ terminal /\ UNCHANGED <<revision, wire>>
         \/ \E z : NewPatch(z, items, last) /\ wire' = [wire EXCEPT ![p] = Append(@, z)]
  <2>1. TranscriptTypeOK /\ Distinct(emitted)
    BY DEF LastsInv, BaseInv
  <2>2. /\ wire' \in [Pages -> Seq(Patches)] /\ \A q \in Pages \ {p} : wire'[q] = wire[q]
        /\ \/ ~ terminal /\ items = emitted /\ UNCHANGED <<revision, wire>>
           \/ /\ revision' = revision + 1
              /\ \E y : NewPatch(y, items, last) /\ wire' = [wire EXCEPT ![p] = Append(@, y)]
    BY <2>1, SendStep
  <2> QED  BY <2>2, Zenon
<1>2. session \in [Pages -> Sessions] /\ wire \in [Pages -> Seq(Patches)] /\ session[p] \in Sessions
  BY DEF LastsInv, BaseInv, TranscriptTypeOK
<1>3. session'[p] = x /\ \A q \in Pages \ {p} : session'[q] = session[q]
  BY <1>2
<1>4. ASSUME NEW q \in Pages \ {p} PROVE LastsEnd(q)'
  BY <1>1, <1>3, LastsSame DEF LastsInv
<1>5. LastsEnd(p) /\ BaseInv /\ session[p].at \in {"none", "retry", "done", "open"}
  BY <1>2 DEF LastsInv, Sessions
<1>6. CASE ~ terminal /\ UNCHANGED <<revision, wire>>
  <2>1. \A i \in 1..Len(wire[p]) : ~ wire[p][i].last
    <3>1. CASE session[p].at = "open"
      BY <1>5, <3>1 DEF LastsEnd
    <3>2. CASE session[p].at # "open"
      <4>1. wire[p] = <<>> /\ Len(wire[p]) = 0
        BY <1>5, <3>2 DEF LastsEnd
      <4> QED  BY <4>1
    <3> QED  BY <3>1, <3>2
  <2> QED  BY <1>3, <1>4, <1>6, <2>1 DEF LastsEnd
<1>7. ASSUME NEW z, NewPatch(z, items, last), wire' = [wire EXCEPT ![p] = Append(@, z)]
      PROVE  LastsEnd(p)'
  <2>1. z \in Patches /\ z.last = last
    BY <1>7 DEF NewPatch
  <2>2. wire'[p] = Append(wire[p], z)
    BY <1>1, <1>2, <1>7
  <2>3. wire'[p] # <<>> /\ \A i \in 1..Len(wire'[p]) : wire'[p][i].last <=> (i = Len(wire'[p]) /\ z.last)
    BY <1>5, <2>1, <2>2, LastsAppend
  <2> QED  BY <1>3, <2>1, <2>3 DEF LastsEnd
<1> QED  BY <1>1, <1>4, <1>6, <1>7

LEMMA LastsWhenRead ==
  ASSUME LastsInv, NEW p \in Pages, Apply(p)
  PROVE  \A q \in Pages : LastsEnd(q)'
<1> DEFINE w == wire[p]
           v == wire'[p]
           patch == Head(wire[p])
<1>1. /\ w # <<>> /\ w \in Seq(Patches) /\ v = Tail(w)
      /\ \A q \in Pages \ {p} : session'[q] = session[q] /\ wire'[q] = wire[q]
      /\ session'[p].at = IF patch.last THEN "done" ELSE session[p].at
  BY ApplyStep, PageTypes DEF LastsInv
<1>2. Len(w) \in Nat /\ Len(w) > 0 /\ Len(v) = Len(w) - 1 /\ patch = w[1] /\ \A i \in 1..Len(v) : v[i] = w[i + 1]
  BY <1>1
<1>3. LastsEnd(p) /\ session[p].at \in {"open", "ended"}
  <2>1. session[p] \in Sessions
    BY DEF LastsInv, BaseInv, TranscriptTypeOK
  <2> QED  BY <1>1, <2>1 DEF LastsInv, LastsEnd, Sessions
<1>4. ASSUME NEW q \in Pages \ {p} PROVE LastsEnd(q)'
  BY <1>1, LastsSame DEF LastsInv
<1>5. v = <<>> <=> Len(v) = 0
  <2>1. v \in Seq(Patches)
    BY ApplyStep DEF LastsInv, BaseInv, TranscriptTypeOK
  <2> QED  BY <2>1
<1> HIDE DEF v, patch
<1>6. \A i \in 1..Len(v) : i + 1 \in 1..Len(w) /\ (i + 1 = Len(w) <=> i = Len(v))
  BY <1>2
<1>7. CASE patch.last
  <2>1. Len(w) = 1
    <3>1. 1 \in 1..Len(w) /\ w[1].last
      BY <1>2, <1>7
    <3> QED  BY <1>3, <3>1 DEF LastsEnd
  <2>2. v = <<>>
    BY <1>2, <1>5, <2>1
  <2> QED  BY <1>1, <1>4, <1>7, <2>2 DEF LastsEnd, v
<1>8. CASE ~ patch.last
  <2>1. session'[p].at = session[p].at
    BY <1>1, <1>8
  <2>2. CASE session[p].at = "open"
    <3>1. \A i \in 1..Len(v) : ~ v[i].last
      BY <1>2, <1>3, <1>6, <2>2 DEF LastsEnd
    <3> QED  BY <1>4, <2>1, <2>2, <3>1 DEF LastsEnd, v
  <2>3. CASE session[p].at = "ended"
    <3>1. \A i \in 1..Len(v) : v[i].last <=> i = Len(v)
      BY <1>2, <1>3, <1>6, <2>3 DEF LastsEnd
    <3>2. Len(w) # 1
      BY <1>2, <1>3, <1>8, <2>3 DEF LastsEnd
    <3>3. v # <<>>
      BY <1>2, <1>5, <3>2
    <3> QED  BY <1>4, <2>1, <2>3, <3>1, <3>3 DEF LastsEnd, v
  <2> QED  BY <1>3, <2>2, <2>3
<1> QED  BY <1>7, <1>8

\* Only reading a patch ends the stream of a page.
LEMMA LastsStep ==
  ASSUME LastsInv, [TranscriptNext]_transcriptVars
  PROVE  /\ LastsInv'
         /\ \A p \in Pages : session'[p].at = "done" => session[p].at = "done" \/ Apply(p)
<1>1. BaseInv /\ session \in [Pages -> Sessions] /\ wire \in [Pages -> Seq(Patches)] /\ \A p \in Pages : LastsEnd(p)
  BY DEF LastsInv, BaseInv, TranscriptTypeOK
<1> DEFINE Goal == LastsInv' /\ \A p \in Pages : session'[p].at = "done" => session[p].at = "done" \/ Apply(p)
<1>2. ASSUME BaseInv', UNCHANGED <<session, wire>> PROVE Goal
  BY <1>1, <1>2, LastsSame DEF LastsInv
<1>3. ASSUME NEW r \in Runs, TurnStep(r) PROVE Goal
  <2>1. BaseInv' /\ UNCHANGED pageVars
    BY <1>1, <1>3, TurnsBase, TurnStepType DEF BaseInv
  <2> HIDE DEF Goal
  <2> QED  BY <1>2, <2>1 DEF pageVars
<1>4. ASSUME NEW p \in Pages, Feed(p) PROVE Goal
  <2> DEFINE shown == Items(Stream(session[p].run, session[p].fed + 1))
             terminal == IsTerminal(session[p].run, session[p].fed + 1)
             last == log[session[p].run][session[p].fed + 1] = "finished"
  <2>1. BaseInv' /\ Send(p, shown, terminal, last) /\ Distinct(shown) /\ shown \in SUBSET Things /\ session[p].at = "open"
    BY <1>1, <1>4, FeedStep, Zenon
  <2>2. PICK x \in Sessions : session' = [session EXCEPT ![p] = x] /\ x.at = IF last THEN "ended" ELSE "open"
    BY <1>1, <1>4, FeedStep, Zenon
  <2>3. last \in BOOLEAN /\ terminal \in BOOLEAN /\ (last => terminal)
    BY DEF IsTerminal
  <2> HIDE DEF shown, terminal, last
  <2>4. \A q \in Pages : LastsEnd(q)'
    BY <2>1, <2>2, <2>3, LastsWhenSent
  <2>5. \A q \in Pages : session'[q].at = "done" => session[q].at = "done"
    BY <1>1, <2>2
  <2> QED  BY <2>1, <2>4, <2>5 DEF LastsInv
<1>5. ASSUME NEW p \in Pages, Attach(p) PROVE Goal
  <2>1. PICK x \in Sessions :
               /\ session' = [session EXCEPT ![p] = x]
               /\ \/ x.at = "open" /\ UNCHANGED <<revision, emitted, wire>>
                  \/ /\ x.at = "ended"
                     /\ Items(FinishedStream(x.run)) \in SUBSET Things /\ Distinct(Items(FinishedStream(x.run)))
                     /\ Send(p, Items(FinishedStream(x.run)), TRUE, TRUE)
    BY <1>1, <1>5, AttachStep, Zenon
  <2>2. BaseInv' /\ session[p].at \notin {"open", "ended"}
    BY <1>1, <1>5, AttachStep
  <2>3. session'[p] = x /\ \A q \in Pages \ {p} : session'[q] = session[q]
    BY <1>1, <2>1
  <2>4. \A q \in Pages : LastsEnd(q)'
    <3>1. CASE x.at = "open" /\ UNCHANGED <<revision, emitted, wire>>
      <4>1. wire[p] = <<>> /\ Len(wire[p]) = 0
        BY <1>1, <2>2 DEF LastsEnd, Sessions
      <4>2. LastsEnd(p)'
        BY <2>3, <3>1, <4>1 DEF LastsEnd
      <4>3. ASSUME NEW q \in Pages \ {p} PROVE LastsEnd(q)'
        BY <1>1, <2>3, <3>1, LastsSame
      <4> QED  BY <4>2, <4>3
    <3>2. CASE /\ x.at = "ended"
               /\ Items(FinishedStream(x.run)) \in SUBSET Things /\ Distinct(Items(FinishedStream(x.run)))
               /\ Send(p, Items(FinishedStream(x.run)), TRUE, TRUE)
      <4>1. x.at = IF TRUE THEN "ended" ELSE "open"
        BY <3>2
      <4> QED  BY <2>1, <2>2, <3>2, <4>1, LastsWhenSent
    <3> QED  BY <2>1, <3>1, <3>2
  <2>5. \A q \in Pages : session'[q].at = "done" => session[q].at = "done"
    BY <2>1, <2>3
  <2> QED  BY <2>2, <2>4, <2>5 DEF LastsInv
<1>6. ASSUME NEW p \in Pages, Answer(p) \/ Open(p) \/ Calibrate(p) \/ Receive(p) PROVE Goal
  <2>1. BaseInv' /\ UNCHANGED <<session, wire>>
    BY <1>1, <1>6, AskSteps, Zenon
  <2> HIDE DEF Goal
  <2> QED  BY <1>2, <2>1
<1>7. ASSUME NEW p \in Pages, Apply(p) PROVE Goal
  <2>1. BaseInv' /\ \A q \in Pages \ {p} : session'[q] = session[q]
    BY <1>1, <1>7, ApplyStep, Zenon
  <2>2. \A q \in Pages : LastsEnd(q)'
    BY <1>7, LastsWhenRead
  <2> QED  BY <1>7, <2>1, <2>2 DEF LastsInv
<1>8. ASSUME NEW p \in Pages, Lose(p) PROVE Goal
  <2>1. BaseInv' /\ wire' = [wire EXCEPT ![p] = <<>>]
    BY <1>1, <1>8, LoseStep, Zenon
  <2>2. session' = [session EXCEPT ![p].at = "retry"]
    BY <1>8 DEF Lose
  <2>3. /\ session'[p].at = "retry" /\ wire'[p] = <<>>
        /\ \A q \in Pages \ {p} : session'[q] = session[q] /\ wire'[q] = wire[q]
    BY <1>1, <2>1, <2>2 DEF Sessions
  <2>4. LastsEnd(p)'
    BY <2>3 DEF LastsEnd
  <2>5. ASSUME NEW q \in Pages \ {p} PROVE LastsEnd(q)'
    BY <1>1, <2>3, LastsSame
  <2> QED  BY <2>1, <2>3, <2>4, <2>5 DEF LastsInv
<1>9. ASSUME NotificationPatch PROVE Goal
  <2>1. BaseInv' /\ UNCHANGED <<session, wire>>
    BY <1>1, <1>9, BumpStep
  <2> HIDE DEF Goal
  <2> QED  BY <1>2, <2>1
<1>10. ASSUME Restart PROVE Goal
  <2>1. BaseInv'
    BY <1>1, <1>10, RestartStep
  <2>2. ASSUME NEW q \in Pages
        PROVE  /\ wire'[q] = <<>> /\ session'[q].at \in {"none", "retry", "done"}
               /\ session'[q].at = "done" => session[q].at = "done"
    <3>1. /\ wire'[q] = <<>>
          /\ session'[q] = IF session[q].at \in {"open", "ended"} THEN [session[q] EXCEPT !.at = "retry"] ELSE session[q]
      BY <1>10 DEF Restart
    <3> QED  BY <1>1, <3>1 DEF Sessions
  <2>3. ASSUME NEW q \in Pages PROVE LastsEnd(q)'
    BY <2>2 DEF LastsEnd
  <2> QED  BY <2>1, <2>2, <2>3 DEF LastsInv
<1>11. ASSUME UNCHANGED transcriptVars PROVE Goal
  <2>1. UNCHANGED <<log, status, kept, revision, emitted, page, session, wire, asked, wants, clock, faults>>
    BY <1>11 DEF transcriptVars, serverVars, nodeVars, pageVars
  <2>2. TranscriptTypeOK' /\ RunsInv' /\ Started' = Started
    BY <1>1, <2>1, ServerSame DEF BaseInv, TranscriptTypeOK, serverVars
  <2>3. BaseInv'
    BY <1>1, <2>1, <2>2 DEF BaseInv, Followed
  <2> HIDE DEF Goal
  <2> QED  BY <1>2, <2>1, <2>3
<1> HIDE DEF Goal
<1>12. Goal
  BY <1>3, <1>4, <1>5, <1>6, <1>7, <1>8, <1>9, <1>10, <1>11 DEF TranscriptNext, TurnStep
<1> QED  BY <1>12 DEF Goal

LEMMA LastsInitial ==
  ASSUME TranscriptInit
  PROVE  LastsInv
<1>1. ASSUME NEW p \in Pages PROVE LastsEnd(p)
  BY DEF TranscriptInit, LastsEnd, NoSession
<1> QED  BY <1>1, BaseInitial DEF LastsInv

\* The end of a turn is never dropped unnoticed while the server lives: however
\* many pages share the counter of a node and however late the snapshots come, a
\* page that has read the last patch of its stream shows something computed no
\* earlier or asks for a snapshot (feed, applyTranscriptPatch, flushPatches).
THEOREM EndsAreNoticed == TranscriptSpec => EndIsNoticed
<1>1. ASSUME OrderInv, LastsInv, [TranscriptNext]_transcriptVars, NEW p \in Pages, "restart" \notin faults
      PROVE  EndIsNoticedBy(p)
  <2> SUFFICES ASSUME wire[p] # <<>>, session'[p].at = "done"
               PROVE  page'[p].made >= Head(wire[p]).made \/ wants'[p]
    BY DEF EndIsNoticedBy
  <2>1. session[p].at # "done"
    BY <1>1 DEF LastsInv, LastsEnd
  <2>2. Apply(p)
    BY <1>1, <2>1, LastsStep
  <2> DEFINE patch == Head(wire[p])
  <2>3. /\ wire[p] \in Seq(Patches) /\ patch \in Patches
        /\ \/ page'[p].made = patch.made
           \/ wants'[p]
           \/ patch.revision <= page[p].revision /\ page' = page
    BY <1>1, <2>2, ApplyStep, Zenon DEF LastsInv
  <2>4. patch = wire[p][1] /\ 1 \in 1..Len(wire[p])
    BY <2>3
  <2>5. patch.revision <= page[p].revision => patch.made <= page[p].made
    BY <1>1, <2>4 DEF OrderInv, Ordered
  <2>6. patch.made \in Nat /\ page[p].made \in Nat
    BY <1>1, <2>3, PageTypes DEF Patches, LastsInv
  <2> HIDE DEF patch
  <2>7. page'[p].made >= patch.made \/ wants'[p]
    BY <2>3, <2>5, <2>6
  <2> QED  BY <2>7 DEF patch
<1>2. TranscriptInit => OrderInv /\ LastsInv
  BY OrderInitial, LastsInitial
<1>3. OrderInv /\ LastsInv /\ [TranscriptNext]_transcriptVars => (OrderInv /\ LastsInv)'
  BY OrderStep, LastsStep
<1>4. OrderInv /\ LastsInv /\ [TranscriptNext]_transcriptVars
      => [\A p \in Pages : "restart" \notin faults => EndIsNoticedBy(p)]_transcriptVars
  BY <1>1
<1> QED  BY <1>2, <1>3, <1>4, PTL DEF TranscriptSpec, EndIsNoticed

-----------------------------------------------------------------------------
(* The view of a page that was left alone is exact *)

\* What the stream of the latest run shows at its end
FinalItems == Items(Stream(Latest, Len(log[Latest])))

LEMMA FinalItemsSame ==
  ASSUME UNCHANGED serverVars
  PROVE  FinalItems' = FinalItems
<1>1. log' = log /\ status' = status /\ kept' = kept
  BY DEF serverVars
<1>2. Latest' = Latest /\ Started' = Started
  BY <1>1 DEF Latest, Started
<1> DEFINE n == Len(log[Latest])
<1>3. Stream(Latest, n)' = Stream(Latest, n)
  BY <1>1, <1>2, SMT DEF Stream, StreamStatus, Positions, LastCall, Worded
<1>4. ASSUME NEW z PROVE Items(z)' = Items(z)
  BY <1>1, <1>2, SMT DEF Items, ProcessItems, StatusItems, AnswerItems, Live, Blocks,
     RawStatus, ProcessStatus, ProcessStatusFor, AnswerStatus, VisibleAnswers, Worded
<1> HIDE DEF n
<1>5. PICK z : z = Stream(Latest, n)
  OBVIOUS
<1>6. Items(Stream(Latest, n))' = Items(z)'
  BY <1>3, <1>5
<1> QED  BY <1>4, <1>5, <1>6 DEF FinalItems, n

\* What the stream of a finished run is, when the run has saved what it spoken
LEMMA FinalStream ==
  ASSUME TranscriptTypeOK, RunsInv, faults = {}, NEW r \in Runs, status[r] \in Final
  PROVE  LET s == Stream(r, Len(log[r]))
         IN  /\ s.run = r /\ s.status = Worded(status[r]) /\ s.named
             /\ s.status \in {"complete", "error", "stopped"}
             /\ s.blocks = kept[r].blocks /\ s.answer = kept[r].answer
<1> DEFINE n == Len(log[r])
           spoken == Positions(r, {"text", "call"}, n)
           marks == Positions(r, {"stopping", "done", "finished"}, n)
           cut == LastCall(r, n)
<1>1. n \in Nat /\ n > 0 /\ log[r][n] = "finished" /\ kept[r] = Saved(r)
  BY DEF RunsInv, RunGood, TranscriptTypeOK
<1>2. StreamStatus(r, n) = Worded(status[r])
  <2>1. marks \subseteq 0..n /\ n \in marks
    BY <1>1 DEF Positions
  <2>2. Max(marks) \in marks /\ Max(marks) >= n
    BY <1>1, <2>1, MaxOf
  <2>3. Max(marks) = n
    BY <1>1, <2>1, <2>2
  <2> QED  BY <1>1, <2>1, <2>3 DEF StreamStatus
<1>3. Worded(status[r]) \in {"complete", "error", "stopped"}
  BY DEF Worded, Final
<1>4. cut \in Nat
  <2> DEFINE C == Positions(r, {"call"}, n) \cup {0}
  <2>1. C \subseteq 0..n /\ C # {}
    BY <1>1 DEF Positions
  <2> HIDE DEF C
  <2>2. Max(C) \in 0..n
    BY <1>1, <2>1, MaxOf
  <2> QED  BY <2>2 DEF LastCall, C
<1>5. spoken \subseteq Nat
  BY DEF Positions
<1> DEFINE A == {i \in spoken : i =< cut}
           B == {i \in spoken : i > cut}
<1>6. kept[r].blocks = A /\ kept[r].answer = B
  BY <1>1 DEF Saved
<1>7. /\ Stream(r, n).run = r /\ Stream(r, n).status = StreamStatus(r, n) /\ Stream(r, n).named
      /\ Stream(r, n).answer = B /\ Stream(r, n).blocks = spoken \ B
  BY <1>2, <1>3 DEF Stream
<1>8. spoken \ B = A
  <2> HIDE DEF spoken, cut
  <2>1. \A i \in spoken : i =< cut <=> ~ (i > cut)
    BY <1>4, <1>5
  <2>2. \A i : i \in spoken \ B <=> i \in A
    BY <2>1
  <2> QED  BY <2>2
<1> HIDE DEF spoken, marks, cut, A, B
<1> QED  BY <1>2, <1>3, <1>6, <1>7, <1>8 DEF n

\* A finished turn looks the same to the page that watched it and in a snapshot.
LEMMA FinalView ==
  ASSUME TranscriptTypeOK, RunsInv, faults = {}, Started # {}, status[Latest] \in Final
  PROVE  NotesLeft(FinalItems) = NotesLeft(Snapshot)
<1> DEFINE s == Stream(Latest, Len(log[Latest]))
<1>1. /\ Latest \in Started /\ Latest \in Runs /\ Latest \in Nat /\ Latest >= 1
      /\ Started \subseteq Runs /\ Started \subseteq Nat /\ \A q \in Started : q <= Latest
  BY StartedRuns DEF Runs
<1>2. /\ s.run = Latest /\ s.status = Worded(status[Latest]) /\ s.named
      /\ s.status \in {"complete", "error", "stopped"}
      /\ s.blocks = kept[Latest].blocks /\ s.answer = kept[Latest].answer
  BY <1>1, FinalStream
<1>3. s # NoRun
  <2>1. s.status \in {"complete", "error", "stopped"} /\ s \in Streams
    BY <1>1, <1>2, StreamsAreStreams DEF TranscriptTypeOK
  <2> QED  BY <2>1, <1>1, <1>2 DEF NoRun, Streams
<1>4. Snapshot = Items(NoRun) /\ FinalItems = Items(s)
  BY DEF Snapshot, FinalItems, Active, Final
<1> HIDE DEF s
<1>5. ASSUME NEW q \in Started
      PROVE  Blocks(q, s) = kept[q].blocks /\ Blocks(q, NoRun) = kept[q].blocks
             /\ ProcessStatusFor(q, s) = ProcessStatusFor(q, NoRun)
  BY <1>2, <1>3 DEF Blocks, Live, ProcessStatusFor
<1>6. ProcessItems(s) = ProcessItems(NoRun)
  <2> DEFINE shown(z) == {q \in Started : Blocks(q, z) # {}}
             item(T, z, q) == [id |-> <<"process", Cardinality({x \in T : x < q})>>, status |-> ProcessStatusFor(q, z),
                               of |-> {q} \X Blocks(q, z)]
  <2>1. \A z : ProcessItems(z) = {item(shown(z), z, q) : q \in shown(z)}
    BY Zenon DEF ProcessItems
  <2>2. shown(s) = shown(NoRun)
    BY <1>5
  <2>3. \A T : \A q \in Started : item(T, s, q) = item(T, NoRun, q)
    BY <1>5
  <2>4. \A z : shown(z) \subseteq Started
    OBVIOUS
  <2> HIDE DEF shown, item
  <2> QED  BY <2>1, <2>2, <2>3, <2>4
<1>7. AnswerItems(s) = AnswerItems(NoRun)
  <2>1. s.answer # {} => s.run \in VisibleAnswers
    <3>1. \A q \in Started : ~ (q > Latest)
      BY <1>1
    <3> QED  BY <1>1, <1>2, <3>1 DEF VisibleAnswers
  <2> DEFINE saved == {[id |-> <<"answer", r>>, status |-> AnswerStatus(Worded(status[r])),
                        of |-> UNION {{q} \X kept[q].answer : q \in 1..r}] : r \in VisibleAnswers}
             live(z) == {[id |-> <<"answer", z.run>>, status |-> AnswerStatus(z.status), of |-> {z.run} \X z.answer]}
  <2>2. \A z : AnswerItems(z) =
                 saved \cup (IF z # NoRun /\ z.status # "stopping" /\ z.named /\ z.answer # {} /\ z.run \notin VisibleAnswers
                             THEN live(z) ELSE {})
    BY Zenon DEF AnswerItems
  <2> HIDE DEF saved, live
  <2> QED  BY <2>1, <2>2
<1>8. NotesLeft(StatusItems(s)) = NotesLeft(StatusItems(NoRun))
  <2>1. RawStatus(s) = s.status /\ RawStatus(NoRun) = s.status
    BY <1>2, <1>3 DEF RawStatus
  <2> DEFINE note == [id |-> <<"status", Latest>>, status |-> s.status, of |-> {}]
  <2>2. /\ StatusItems(s) = IF s.status \in {"error", "stopped"} THEN {note} ELSE {}
        /\ StatusItems(NoRun) = IF s.status = "error" THEN {note} ELSE {}
    BY <1>2, <1>3, <2>1 DEF StatusItems
  <2>3. note.id[1] = "status" /\ note.status = s.status
    OBVIOUS
  <2> HIDE DEF note
  <2>4. CASE s.status = "stopped"
    BY <2>2, <2>3, <2>4 DEF NotesLeft
  <2>5. CASE s.status # "stopped"
    BY <1>2, <2>2, <2>5
  <2> QED  BY <2>4, <2>5
<1>9. \A A, B, C : NotesLeft(A \cup B \cup C) = NotesLeft(A) \cup NotesLeft(B) \cup NotesLeft(C)
  BY DEF NotesLeft
<1>10. \A z : NotesLeft(Items(z)) = NotesLeft(ProcessItems(z)) \cup NotesLeft(StatusItems(z)) \cup NotesLeft(AnswerItems(z))
  BY <1>9, SMT DEF Items
<1> QED  BY <1>4, <1>6, <1>7, <1>8, <1>10, Zenon

\* A history gives for every revision the items that the server had then.
Fits(c, x) == x.revision \in 1..revision /\ Applied(c[x.revision - 1], x) = c[x.revision]

CaughtUp(c, k) == \A j \in k..revision : c[j] = emitted

\* A page shows, is told and is answered what the server had at the revision; one
\* that has read its stream to the end has caught up, or will.
PageView(c, p) ==
    /\ page[p].revision <= revision /\ page[p].items = c[page[p].revision]
    /\ HasAnswer(p) => asked[p].revision <= revision /\ asked[p].items = c[asked[p].revision]
    /\ \A i \in 1..Len(wire[p]) : Fits(c, wire[p][i])
    /\ session[p].at # "retry"
    /\ session[p].at = "ended" => CaughtUp(c, wire[p][Len(wire[p])].revision)
    /\ session[p].at = "done" => \/ wants[p] \/ asked[p].at = "sent"
                                 \/ HasAnswer(p) /\ CaughtUp(c, asked[p].revision)
                                 \/ CaughtUp(c, page[p].revision)

History(c) == c \in [Nat -> SUBSET Things] /\ c[revision] = emitted /\ \A p \in Pages : PageView(c, p)

\* One page follows the node.
Sole == \A p, q \in Pages : session[p].run # 0 /\ session[q].run # 0 => p = q

ReadToEnd(p) ==
    session[p].at \in {"ended", "done"} /\ session[p].run = Latest
    => status[Latest] \in Final /\ emitted = FinalItems

ViewInv ==
    LastsInv /\ (faults = {} => Sole /\ (\A p \in Pages : ReadToEnd(p)) /\ \E c : History(c))

LEMMA FollowsRun ==
  ASSUME BaseInv, NEW p \in Pages
  PROVE  /\ session[p].at # "none" => session[p].run # 0 /\ session[p].run \in Started
         /\ session[p].at \in {"none", "open", "ended", "retry", "done"} /\ session[p] \in Sessions
<1>1. session[p] \in Sessions /\ Started \subseteq Runs
  BY StartedRuns DEF BaseInv, TranscriptTypeOK
<1>2. 0 \notin Started
  BY <1>1, TranscriptAssumption DEF Runs
<1> QED  BY <1>1, <1>2 DEF BaseInv, Followed, Sessions

\* A page to which nothing happens
LEMMA ViewSame ==
  ASSUME NEW c, NEW p, PageView(c, p), UNCHANGED <<revision, emitted>>,
         page'[p].items = page[p].items, page'[p].revision = page[p].revision,
         asked'[p] = asked[p], wire'[p] = wire[p], wants'[p] = wants[p], session'[p].at = session[p].at
  PROVE  PageView(c, p)'
BY DEF PageView, Fits, CaughtUp, HasAnswer

\* A page to which nothing happens while a revision is taken
LEMMA ViewGrown ==
  ASSUME LastsInv, NEW c, c \in [Nat -> SUBSET Things], NEW p \in Pages, PageView(c, p),
         revision' = revision + 1, NEW d, d = [c EXCEPT ![revision + 1] = emitted'],
         session[p].at \in {"ended", "done"} => emitted' = emitted,
         page'[p] = page[p], asked'[p] = asked[p], wire'[p] = wire[p], wants'[p] = wants[p], session'[p].at = session[p].at
  PROVE  PageView(d, p)'
<1>1. /\ revision \in Nat /\ page[p].revision \in Nat /\ (HasAnswer(p) => asked[p].revision \in Nat)
      /\ wire[p] \in Seq(Patches) /\ Len(wire[p]) \in Nat /\ \A i \in 1..Len(wire[p]) : wire[p][i].revision \in Nat
  BY PageTypes DEF LastsInv
<1>2. \A j \in Nat : j <= revision => d[j] = c[j]
  BY <1>1
<1>3. d[revision + 1] = emitted'
  BY <1>1
<1>4. ASSUME NEW k \in Nat, k <= revision, CaughtUp(c, k), emitted' = emitted PROVE CaughtUp(d, k)'
  <2> SUFFICES ASSUME NEW j \in k..(revision + 1) PROVE d[j] = emitted'
    BY DEF CaughtUp
  <2>1. CASE j = revision + 1
    BY <1>3, <2>1
  <2>2. CASE j # revision + 1
    <3>1. j \in k..revision /\ j \in Nat /\ j <= revision
      BY <1>1, <2>2
    <3> QED  BY <1>2, <1>4, <3>1 DEF CaughtUp
  <2> QED  BY <2>1, <2>2
<1>5. ASSUME NEW x, Fits(c, x) PROVE Fits(d, x)'
  <2>1. x.revision \in 1..revision /\ x.revision - 1 \in Nat /\ x.revision \in Nat
    BY <1>1, <1>5 DEF Fits
  <2>2. d[x.revision] = c[x.revision] /\ d[x.revision - 1] = c[x.revision - 1] /\ x.revision \in 1..(revision + 1)
    BY <1>1, <1>2, <2>1
  <2> QED  BY <1>5, <2>1, <2>2 DEF Fits, Applied
<1>6. /\ page[p].revision <= revision /\ page[p].items = c[page[p].revision]
      /\ HasAnswer(p) => asked[p].revision <= revision /\ asked[p].items = c[asked[p].revision]
      /\ \A i \in 1..Len(wire[p]) : Fits(c, wire[p][i])
      /\ session[p].at # "retry"
  BY DEF PageView
<1>7. /\ page[p].items = d[page[p].revision] /\ page[p].revision <= revision + 1
      /\ HasAnswer(p) => asked[p].revision <= revision + 1 /\ asked[p].items = d[asked[p].revision]
  BY <1>1, <1>2, <1>6
<1>8. \A i \in 1..Len(wire[p]) : Fits(d, wire[p][i])'
  BY <1>5, <1>6
<1>9. (HasAnswer(p)' <=> HasAnswer(p))
  BY DEF HasAnswer
<1>10. session[p].at = "ended" => CaughtUp(d, wire[p][Len(wire[p])].revision)'
  <2> SUFFICES ASSUME session[p].at = "ended" PROVE CaughtUp(d, wire[p][Len(wire[p])].revision)'
    OBVIOUS
  <2> DEFINE k == wire[p][Len(wire[p])].revision
  <2>1. Len(wire[p]) \in 1..Len(wire[p])
    BY <1>1 DEF LastsInv, LastsEnd
  <2>2. k \in Nat /\ k <= revision
    BY <1>1, <1>6, <2>1 DEF Fits
  <2>3. CaughtUp(c, k)
    BY DEF PageView
  <2> QED  BY <1>4, <2>2, <2>3
<1>11. session[p].at = "done" => \/ wants[p] \/ asked[p].at = "sent"
                                 \/ HasAnswer(p) /\ CaughtUp(d, asked[p].revision)'
                                 \/ CaughtUp(d, page[p].revision)'
  BY <1>1, <1>4, <1>6 DEF PageView
<1> QED  BY <1>6, <1>7, <1>8, <1>9, <1>10, <1>11 DEF PageView

\* The page to which the new patch is sent
LEMMA ViewSent ==
  ASSUME LastsInv, NEW c, c \in [Nat -> SUBSET Things], c[revision] = emitted, NEW p \in Pages, PageView(c, p),
         NEW x, NewPatch(x, emitted', x.last), wire'[p] = Append(wire[p], x),
         revision' = revision + 1, NEW d, d = [c EXCEPT ![revision + 1] = emitted'],
         session[p].at = "open", session'[p].at \in {"open", "ended"},
         page'[p] = page[p], asked'[p] = asked[p]
  PROVE  PageView(d, p)'
<1>1. /\ revision \in Nat /\ page[p].revision \in Nat /\ (HasAnswer(p) => asked[p].revision \in Nat)
      /\ wire[p] \in Seq(Patches) /\ Len(wire[p]) \in Nat /\ \A i \in 1..Len(wire[p]) : wire[p][i].revision \in Nat
  BY PageTypes DEF LastsInv
<1>2. (\A j \in Nat : j <= revision => d[j] = c[j]) /\ d[revision + 1] = emitted'
  BY <1>1
<1>3. x \in Patches /\ x.revision = revision + 1 /\ Applied(emitted, x) = emitted'
  BY DEF NewPatch
<1>4. /\ Len(wire'[p]) = Len(wire[p]) + 1 /\ wire'[p][Len(wire[p]) + 1] = x
      /\ \A i \in 1..Len(wire[p]) : wire'[p][i] = wire[p][i]
  BY <1>1, <1>3
<1>5. ASSUME NEW i \in 1..Len(wire'[p]) PROVE i = Len(wire[p]) + 1 \/ i \in 1..Len(wire[p])
  BY <1>1, <1>4
<1>6. ASSUME NEW y, Fits(c, y) PROVE Fits(d, y)'
  <2>1. y.revision \in 1..revision /\ y.revision - 1 \in Nat /\ y.revision \in Nat
    BY <1>1, <1>6 DEF Fits
  <2>2. d[y.revision] = c[y.revision] /\ d[y.revision - 1] = c[y.revision - 1] /\ y.revision \in 1..(revision + 1)
    BY <1>1, <1>2, <2>1
  <2> QED  BY <1>6, <2>1, <2>2 DEF Fits, Applied
<1>7. Fits(d, x)'
  <2>1. x.revision - 1 = revision /\ d[revision] = emitted /\ x.revision \in 1..(revision + 1)
    BY <1>1, <1>2, <1>3
  <2>2. Applied(d[x.revision - 1], x) = d[x.revision]
    BY <1>2, <1>3, <2>1
  <2> QED  BY <2>1, <2>2 DEF Fits, Applied
<1>8. \A i \in 1..Len(wire'[p]) : Fits(d, wire[p][i])'
  <2> SUFFICES ASSUME NEW i \in 1..Len(wire'[p]) PROVE Fits(d, wire[p][i])'
    OBVIOUS
  <2>1. CASE i = Len(wire[p]) + 1
    BY <1>4, <1>7, <2>1 DEF Fits
  <2>2. CASE i \in 1..Len(wire[p])
    <3>1. Fits(c, wire[p][i])
      BY <2>2 DEF PageView
    <3>2. wire'[p][i] = wire[p][i]
      BY <1>4, <2>2
    <3> QED  BY <1>6, <3>1, <3>2 DEF Fits
  <2> QED  BY <1>5, <2>1, <2>2
<1>9. \A j \in (revision + 1)..revision' : d[j] = emitted'
  BY <1>1, <1>2
<1>10. CaughtUp(d, wire[p][Len(wire[p])].revision)'
  <2>1. wire'[p][Len(wire'[p])].revision = revision + 1
    BY <1>3, <1>4
  <2> QED  BY <1>9, <2>1 DEF CaughtUp
<1>11. /\ page[p].items = d[page[p].revision] /\ page[p].revision <= revision + 1
       /\ HasAnswer(p) => asked[p].revision <= revision + 1 /\ asked[p].items = d[asked[p].revision]
  BY <1>1, <1>2 DEF PageView
<1>12. (HasAnswer(p)' <=> HasAnswer(p))
  BY DEF HasAnswer
<1> QED  BY <1>8, <1>10, <1>11, <1>12 DEF PageView

\* The page that reads a patch
LEMMA ViewRead ==
  ASSUME LastsInv, NEW c, NEW p \in Pages, PageView(c, p), Apply(p)
  PROVE  PageView(c, p)'
<1> DEFINE w == wire[p]
           v == wire'[p]
           patch == Head(wire[p])
<1>1. /\ w # <<>> /\ w \in Seq(Patches) /\ v = Tail(w)
      /\ UNCHANGED <<revision, emitted, asked>>
      /\ \/ /\ patch.revision = page[p].revision + 1
            /\ page'[p].items = Applied(page[p].items, patch)
            /\ page'[p].revision = patch.revision
         \/ wants'[p] /\ page' = page
         \/ patch.revision <= page[p].revision /\ wants'[p] = wants[p] /\ page' = page
      /\ session'[p].at = IF patch.last THEN "done" ELSE session[p].at
  BY ApplyStep, PageTypes DEF LastsInv
<1>2. Len(w) \in Nat /\ Len(w) > 0 /\ Len(v) = Len(w) - 1 /\ patch = w[1] /\ \A i \in 1..Len(v) : v[i] = w[i + 1]
  BY <1>1
<1>3. LastsEnd(p) /\ session[p].at \in {"open", "ended"}
  BY <1>1, FollowsRun DEF LastsInv, LastsEnd, PageView
<1>4. LastsEnd(p)'
  BY LastsWhenRead
<1>5. revision \in Nat /\ page[p].revision \in Nat /\ \A i \in 1..Len(w) : w[i].revision \in Nat
  BY PageTypes DEF LastsInv
<1>6. v = <<>> <=> Len(v) = 0
  <2>1. v \in Seq(Patches)
    BY ApplyStep DEF LastsInv, BaseInv, TranscriptTypeOK
  <2> QED  BY <2>1
<1> HIDE DEF v, patch
<1>7. \A i \in 1..Len(v) : i + 1 \in 1..Len(w)
  BY <1>2
<1>8. 1 \in 1..Len(w)
  BY <1>2
<1>9. Fits(c, patch) /\ patch.revision \in Nat /\ patch.revision <= revision
  BY <1>2, <1>5, <1>8 DEF PageView, Fits
<1>10. page'[p].revision <= revision /\ page'[p].items = c[page'[p].revision]
  <2>1. CASE patch.revision = page[p].revision + 1 /\ page'[p].items = Applied(page[p].items, patch) /\ page'[p].revision = patch.revision
    <3>1. patch.revision - 1 = page[p].revision
      BY <1>5, <1>9, <2>1
    <3> QED  BY <1>9, <2>1, <3>1 DEF PageView, Fits
  <2>2. CASE page' = page
    BY <2>2 DEF PageView
  <2> QED  BY <1>1, <2>1, <2>2
<1>11. \A i \in 1..Len(v) : Fits(c, wire[p][i])'
  <2> SUFFICES ASSUME NEW i \in 1..Len(v) PROVE Fits(c, wire[p][i])'
    OBVIOUS
  <2>1. Fits(c, w[i + 1]) /\ v[i] = w[i + 1]
    BY <1>2, <1>7 DEF PageView
  <2>2. wire'[p][i] = w[i + 1] /\ revision' = revision
    BY <1>1, <2>1 DEF v
  <2> QED  BY <2>1, <2>2 DEF Fits
<1>12. CASE ~ patch.last
  <2>1. session'[p].at = session[p].at
    BY <1>1, <1>12
  <2>2. session[p].at = "ended" => CaughtUp(c, wire[p][Len(wire[p])].revision)'
    <3> SUFFICES ASSUME session[p].at = "ended" PROVE CaughtUp(c, wire[p][Len(wire[p])].revision)'
      OBVIOUS
    <3>1. Len(v) # 0
      BY <1>4, <1>6, <2>1 DEF LastsEnd, v
    <3>2. v[Len(v)] = w[Len(w)]
      <4>1. Len(w) \in Nat /\ Len(w) > 0 /\ Len(v) = Len(w) - 1 /\ Len(v) # 0
        BY <1>2, <3>1
      <4>2. \A m \in Nat : m > 0 /\ m - 1 # 0 => m - 1 \in 1..(m - 1) /\ (m - 1) + 1 = m
        OBVIOUS
      <4>3. Len(v) \in 1..Len(v) /\ Len(v) + 1 = Len(w)
        BY <4>1, <4>2, Zenon
      <4> QED  BY <1>2, <4>3
    <3>3. CaughtUp(c, w[Len(w)].revision)
      BY DEF PageView
    <3> QED  BY <1>1, <3>2, <3>3 DEF CaughtUp, v
  <2> QED  BY <1>1, <1>3, <1>10, <1>11, <2>1, <2>2 DEF PageView, HasAnswer, v
<1>13. CASE patch.last
  <2>1. session'[p].at = "done"
    BY <1>1, <1>13
  <2>2. session[p].at = "ended" /\ Len(w) = 1
    BY <1>2, <1>3, <1>8, <1>13 DEF LastsEnd
  <2>3. CaughtUp(c, patch.revision)
    BY <1>2, <2>2 DEF PageView
  <2>4. wants'[p] \/ CaughtUp(c, page[p].revision)'
    <3>1. patch.revision <= page[p].revision => CaughtUp(c, page[p].revision)
      BY <1>5, <1>9, <2>3 DEF CaughtUp
    <3> QED  BY <1>1, <2>3, <3>1 DEF CaughtUp
  <2> QED  BY <1>1, <1>10, <1>11, <2>1, <2>4 DEF PageView, HasAnswer, v
<1> QED  BY <1>12, <1>13

\* The page that asks for a snapshot or is answered
LEMMA ViewAsks ==
  ASSUME LastsInv, NEW c, c[revision] = emitted, NEW p \in Pages, PageView(c, p), faults' = {},
         Answer(p) \/ Open(p) \/ Calibrate(p) \/ Receive(p)
  PROVE  PageView(c, p)'
<1>1. /\ UNCHANGED <<revision, emitted, session, wire>>
      /\ \/ /\ asked[p].at = "sent" /\ UNCHANGED <<page, wants>>
            /\ asked'[p] = [at |-> "answered", items |-> Snapshot, revision |-> revision, made |-> clock]
            /\ Snapshot = emitted
         \/ /\ asked[p] = NotAsked /\ asked'[p].at = "sent"
            /\ page'[p].items = page[p].items /\ page'[p].revision = page[p].revision
         \/ /\ asked[p].at = "answered" /\ asked'[p] = NotAsked /\ UNCHANGED wants
            /\ page'[p].items = asked[p].items /\ page'[p].revision = asked[p].revision
            /\ asked[p].revision >= page[p].revision
  BY AskSteps DEF LastsInv
<1>2. revision \in Nat /\ page[p].revision \in Nat /\ (HasAnswer(p) => asked[p].revision \in Nat)
  BY PageTypes DEF LastsInv
<1>3. /\ \A i \in 1..Len(wire[p]) : Fits(c, wire[p][i])'
      /\ session[p].at # "retry"
      /\ session[p].at = "ended" => CaughtUp(c, wire[p][Len(wire[p])].revision)'
  BY <1>1 DEF PageView, Fits, CaughtUp
<1>4. CASE /\ asked[p].at = "sent" /\ UNCHANGED <<page, wants>>
           /\ asked'[p] = [at |-> "answered", items |-> Snapshot, revision |-> revision, made |-> clock]
           /\ Snapshot = emitted
  <2>1. CaughtUp(c, revision) /\ asked'[p].revision = revision /\ asked'[p].items = c[revision] /\ asked'[p].at = "answered"
    BY <1>2, <1>4 DEF CaughtUp
  <2>2. CaughtUp(c, asked[p].revision)'
    BY <1>1, <2>1 DEF CaughtUp
  <2> QED  BY <1>1, <1>2, <1>3, <1>4, <2>1, <2>2 DEF PageView, HasAnswer
<1>5. CASE /\ asked[p] = NotAsked /\ asked'[p].at = "sent"
           /\ page'[p].items = page[p].items /\ page'[p].revision = page[p].revision
  BY <1>1, <1>3, <1>5 DEF PageView, HasAnswer
<1>6. CASE /\ asked[p].at = "answered" /\ asked'[p] = NotAsked /\ UNCHANGED wants
           /\ page'[p].items = asked[p].items /\ page'[p].revision = asked[p].revision
           /\ asked[p].revision >= page[p].revision
  <2>1. asked'[p].at = "none" /\ HasAnswer(p)
    BY <1>6 DEF NotAsked, HasAnswer
  <2>2. page'[p].revision <= revision /\ page'[p].items = c[page'[p].revision]
    BY <1>6, <2>1 DEF PageView
  <2>3. CaughtUp(c, page[p].revision) => CaughtUp(c, asked[p].revision)
    BY <1>2, <1>6, <2>1 DEF CaughtUp
  <2>4. CaughtUp(c, page[p].revision)' <=> CaughtUp(c, asked[p].revision)
    BY <1>1, <1>6 DEF CaughtUp
  <2>5. session[p].at = "done" => wants[p] \/ CaughtUp(c, page[p].revision)'
    BY <2>1, <2>3, <2>4, <1>6 DEF PageView
  <2> QED  BY <1>1, <1>3, <1>6, <2>1, <2>2, <2>5 DEF PageView, HasAnswer
<1> QED  BY <1>1, <1>4, <1>5, <1>6

\* A turn goes on only before its page has read it to the end.
LEMMA ReadWhileTurning ==
  ASSUME ViewInv, NEW r \in Runs, TurnStep(r), NEW p \in Pages, ReadToEnd(p)
  PROVE  ReadToEnd(p)'
<1>1. BaseInv /\ TranscriptTypeOK /\ InOrder
  BY DEF ViewInv, LastsInv, BaseInv, RunsInv
<1>2. UNCHANGED <<emitted, session>>
  BY <1>1, TurnStepType DEF nodeVars, pageVars
<1>3. TranscriptTypeOK' /\ InOrder'
  BY <1>1, TurnStepType, TurnStepOrder
<1> SUFFICES ASSUME session[p].at \in {"ended", "done"}, session[p].run = Latest' PROVE FALSE
  BY <1>2 DEF ReadToEnd
<1>4. session[p].run \in Started
  BY <1>1, FollowsRun
<1>5. CASE ~ StartRun(r)
  <2>1. Started' = Started /\ r = Latest /\ status[r] \in Active
    BY <1>1, <1>5, TurnStepOrder
  <2>2. Latest' = Latest
    BY <2>1 DEF Latest
  <2> QED  BY <2>1, <2>2 DEF ReadToEnd, Active, Final
<1>6. CASE StartRun(r)
  <2>1. Started' = Started \cup {r} /\ r \notin Started
    BY <1>1, <1>6, TurnStepOrder
  <2>2. \A q \in Started' : q <= Latest'
    <3>1. Started' \subseteq 0..MaxRuns /\ Started' # {} /\ MaxRuns \in Nat
      BY <2>1, TranscriptAssumption DEF Started, Runs
    <3> QED  BY <3>1, MaxOf DEF Latest
  <2>3. PICK k \in 0..MaxRuns : Started = 1..k
    BY <1>1 DEF InOrder
  <2>4. r \in Nat /\ r >= 1 /\ k \in Nat
    BY <2>3, TranscriptAssumption DEF Runs
  <2>5. r > k
    BY <2>1, <2>3, <2>4
  <2>6. r <= session[p].run /\ session[p].run \in 1..k
    BY <1>4, <2>1, <2>2, <2>3
  <2> QED  BY <2>4, <2>5, <2>6
<1> QED  BY <1>5, <1>6

\* The other pages of a node whose stream is read do not follow it.
LEMMA OthersStay ==
  ASSUME BaseInv, Sole, NEW p \in Pages, session[p].at # "none", NEW q \in Pages \ {p}
  PROVE  session[q].run = 0 /\ session[q].at = "none"
BY FollowsRun DEF Sole

LEMMA ViewFeeds ==
  ASSUME ViewInv, faults = {}, NEW p \in Pages, Feed(p)
  PROVE  Sole' /\ (\A q \in Pages : ReadToEnd(q)') /\ \E c : History(c)'
<1>1. BaseInv /\ LastsInv /\ Sole /\ TranscriptTypeOK /\ RunsInv /\ Distinct(emitted)
  BY DEF ViewInv, LastsInv, BaseInv
<1> DEFINE r == session[p].run
           n == session[p].fed + 1
           shown == Items(Stream(r, n))
           terminal == IsTerminal(r, n)
           last == log[r][n] = "finished"
<1>2. /\ UNCHANGED <<log, status, kept, page, asked, wants, clock, count, faults>>
      /\ session[p].at = "open" /\ r \in Started /\ n \in 1..Len(log[r])
      /\ Send(p, shown, terminal, last) /\ shown \in SUBSET Things /\ Distinct(shown)
  BY <1>1, FeedStep, Zenon
<1>3. PICK x \in Sessions : /\ session' = [session EXCEPT ![p] = x] /\ x.run = r
                            /\ x.at = IF last THEN "ended" ELSE "open"
  BY <1>1, FeedStep, Zenon
<1>4. last \in BOOLEAN /\ terminal \in BOOLEAN /\ (last => terminal)
  BY DEF IsTerminal
<1>5. last => n = Len(log[r]) /\ status[r] \in Final
  BY <1>1, <1>2, StartedRuns DEF RunsInv, RunGood
<1>6. last => (r = Latest => shown = FinalItems)
  BY <1>5 DEF FinalItems
<1> HIDE DEF terminal, last, shown, n
<1>7. /\ emitted' = shown /\ \A q \in Pages \ {p} : wire'[q] = wire[q]
      /\ \/ ~ terminal /\ shown = emitted /\ UNCHANGED <<revision, wire>>
         \/ /\ revision' = revision + 1
            /\ \E y : NewPatch(y, shown, last) /\ wire' = [wire EXCEPT ![p] = Append(@, y)]
  BY <1>1, <1>2, <1>4, SendStep
<1>8. session \in [Pages -> Sessions] /\ wire \in [Pages -> Seq(Patches)] /\ emitted' \in SUBSET Things
  BY <1>1, <1>2, <1>7 DEF TranscriptTypeOK
<1>9. session'[p] = x /\ \A q \in Pages \ {p} : session'[q] = session[q]
  BY <1>3, <1>8
<1>10. Sole'
  <2>1. \A q \in Pages : session'[q].run = session[q].run
    BY <1>3, <1>9
  <2> QED  BY <1>1, <2>1 DEF Sole
<1>11. \A q \in Pages \ {p} : session[q].run = 0 /\ session[q].at = "none"
  BY <1>1, <1>2, OthersStay
<1>12. FinalItems' = FinalItems /\ Latest' = Latest
  BY <1>1, <1>2, FinalItemsSame, ServerSame DEF serverVars
<1>13. ASSUME NEW q \in Pages PROVE ReadToEnd(q)'
  <2>1. CASE q = p
    BY <1>2, <1>3, <1>5, <1>6, <1>7, <1>9, <1>12, <2>1 DEF ReadToEnd
  <2>2. CASE q # p
    BY <1>9, <1>11, <2>2 DEF ReadToEnd
  <2> QED  BY <2>1, <2>2
<1>14. PICK c : History(c)
  BY DEF ViewInv
<1>15. c \in [Nat -> SUBSET Things] /\ c[revision] = emitted /\ \A q \in Pages : PageView(c, q)
  BY <1>14 DEF History
<1>16. revision \in Nat
  BY <1>1 DEF TranscriptTypeOK
<1>17. CASE ~ terminal /\ shown = emitted /\ UNCHANGED <<revision, wire>>
  <2>1. \A q \in Pages : session'[q].at = session[q].at
    BY <1>2, <1>3, <1>4, <1>9, <1>17
  <2>2. ASSUME NEW q \in Pages PROVE PageView(c, q)'
    BY <1>2, <1>7, <1>15, <1>17, <2>1, ViewSame
  <2>3. History(c)'
    BY <1>7, <1>15, <1>17, <2>2 DEF History
  <2> QED  BY <1>10, <1>13, <2>3
<1>18. ASSUME NEW y, NewPatch(y, shown, last), wire' = [wire EXCEPT ![p] = Append(@, y)], revision' = revision + 1
       PROVE  \E d : History(d)'
  <2>1. PICK d : d = [c EXCEPT ![revision + 1] = emitted']
    OBVIOUS
  <2>2. d \in [Nat -> SUBSET Things] /\ d[revision + 1] = emitted'
    BY <1>8, <1>15, <1>16, <2>1
  <2>3. PageView(d, p)'
    <3>1. NewPatch(y, emitted', y.last) /\ wire'[p] = Append(wire[p], y)
      BY <1>7, <1>8, <1>18 DEF NewPatch
    <3>2. session'[p].at \in {"open", "ended"}
      BY <1>3, <1>9
    <3> QED  BY <1>1, <1>2, <1>15, <1>18, <2>1, <3>1, <3>2, ViewSent
  <2>4. ASSUME NEW q \in Pages \ {p} PROVE PageView(d, q)'
    <3>1. wire'[q] = wire[q] /\ session'[q] = session[q] /\ session[q].at = "none"
      BY <1>7, <1>9, <1>11
    <3> QED  BY <1>1, <1>2, <1>15, <1>18, <2>1, <3>1, ViewGrown
  <2>5. History(d)'
    BY <1>18, <2>2, <2>3, <2>4 DEF History
  <2> QED  BY <2>5
<1> QED  BY <1>7, <1>10, <1>13, <1>17, <1>18

LEMMA ViewAttaches ==
  ASSUME ViewInv, faults = {}, faults' = {}, NEW p \in Pages, Attach(p)
  PROVE  Sole' /\ (\A q \in Pages : ReadToEnd(q)') /\ \E c : History(c)'
<1>1. BaseInv /\ Sole /\ TranscriptTypeOK
  BY DEF ViewInv, LastsInv, BaseInv
<1>2. PICK c : History(c)
  BY DEF ViewInv
<1>3. \A q \in Pages : PageView(c, q)
  BY <1>2 DEF History
<1>4. /\ UNCHANGED <<log, status, kept, page, asked, wants, clock, count>>
      /\ Happens(IF \E q \in Pages \ {p} : session[q].run # 0 THEN {"tab"} ELSE {})
  BY <1>1, AttachStep, Zenon
<1>5. \A q \in Pages \ {p} : session[q].run = 0
  BY <1>4 DEF Happens
<1>6. session[p].at # "retry"
  BY <1>3 DEF PageView
<1>7. PICK x \in Sessions : session' = [session EXCEPT ![p] = x] /\ x.at = "open" /\ UNCHANGED <<revision, emitted, wire>>
  BY <1>1, <1>6, AttachStep
<1>8. session'[p] = x /\ \A q \in Pages \ {p} : session'[q] = session[q]
  BY <1>1, <1>7 DEF TranscriptTypeOK
<1>9. Sole'
  BY <1>5, <1>8 DEF Sole
<1>10. ASSUME NEW q \in Pages PROVE ReadToEnd(q)'
  <2>1. CASE q = p
    BY <1>7, <1>8, <2>1 DEF ReadToEnd
  <2>2. CASE q # p
    <3>1. session'[q].at = "none"
      BY <1>1, <1>5, <1>8, <2>2, FollowsRun
    <3> QED  BY <3>1 DEF ReadToEnd
  <2> QED  BY <2>1, <2>2
<1>11. ASSUME NEW q \in Pages PROVE PageView(c, q)'
  <2>1. CASE q = p
    BY <1>3, <1>4, <1>7, <1>8, <2>1 DEF PageView, Fits, HasAnswer
  <2>2. CASE q # p
    BY <1>3, <1>4, <1>7, <1>8, <2>2, ViewSame
  <2> QED  BY <2>1, <2>2
<1>12. History(c)'
  BY <1>2, <1>7, <1>11 DEF History
<1> QED  BY <1>9, <1>10, <1>12

\* The steps that leave the rows, the events and the baseline alone
LEMMA ReadStays ==
  ASSUME BaseInv, UNCHANGED <<log, status, kept, emitted, faults>>, NEW p \in Pages, ReadToEnd(p),
         session'[p].run = session[p].run,
         session'[p].at = session[p].at \/ session[p].at = "ended"
  PROVE  ReadToEnd(p)'
<1>1. FinalItems' = FinalItems /\ Latest' = Latest
  BY FinalItemsSame, ServerSame DEF serverVars, BaseInv
<1> QED  BY <1>1 DEF ReadToEnd

LEMMA ViewStep ==
  ASSUME ViewInv, [TranscriptNext]_transcriptVars
  PROVE  ViewInv'
<1>1. LastsInv /\ LastsInv' /\ BaseInv /\ TranscriptTypeOK
  BY LastsStep DEF ViewInv, LastsInv, BaseInv
<1> DEFINE Good == Sole /\ (\A p \in Pages : ReadToEnd(p)) /\ \E c : History(c)
<1> SUFFICES ASSUME faults' = {} PROVE Good'
  BY <1>1 DEF ViewInv
<1>2. ASSUME faults = {}, UNCHANGED <<log, status, kept, emitted, faults>>,
             \A q \in Pages : session'[q].run = session[q].run /\ (session'[q].at = session[q].at \/ session[q].at = "ended"),
             \A c : History(c) => \E d : History(d)'
      PROVE  Good'
  <2>1. Sole /\ (\A p \in Pages : ReadToEnd(p)) /\ \E c : History(c)
    BY <1>2 DEF ViewInv
  <2>2. Sole'
    BY <1>2, <2>1 DEF Sole
  <2>3. \A p \in Pages : ReadToEnd(p)'
    BY <1>1, <1>2, <2>1, ReadStays
  <2>4. \E d : History(d)'
    BY <1>2, <2>1
  <2> QED  BY <2>2, <2>3, <2>4
<1>3. ASSUME NEW r \in Runs, TurnStep(r) PROVE Good'
  <2>1. UNCHANGED <<revision, emitted, page, session, wire, asked, wants, faults>>
    BY <1>1, <1>3, TurnStepType DEF nodeVars, pageVars
  <2>2. Sole /\ (\A p \in Pages : ReadToEnd(p)) /\ \E c : History(c)
    BY <2>1 DEF ViewInv
  <2>3. Sole'
    BY <2>1, <2>2 DEF Sole
  <2>4. \A p \in Pages : ReadToEnd(p)'
    BY <1>3, <2>2, ReadWhileTurning
  <2>5. PICK c : History(c)
    BY <2>2
  <2>6. \A p \in Pages : PageView(c, p)'
    BY <2>1, <2>5, ViewSame DEF History
  <2>7. History(c)'
    BY <2>1, <2>5, <2>6 DEF History
  <2> QED  BY <2>3, <2>4, <2>7
<1>4. ASSUME NEW p \in Pages, Feed(p) PROVE Good'
  <2>1. faults = {}
    BY <1>4 DEF Feed
  <2>2. Sole' /\ (\A q \in Pages : ReadToEnd(q)') /\ \E c : History(c)'
    BY <1>4, <2>1, ViewFeeds
  <2> QED  BY <2>2
<1>5. ASSUME NEW p \in Pages, Attach(p) PROVE Good'
  <2>1. faults = {}
    BY <1>5 DEF Attach, Happens
  <2>2. Sole' /\ (\A q \in Pages : ReadToEnd(q)') /\ \E c : History(c)'
    BY <1>5, <2>1, ViewAttaches
  <2> QED  BY <2>2
<1>6. ASSUME NEW p \in Pages, Answer(p) \/ Open(p) \/ Calibrate(p) \/ Receive(p) PROVE Good'
  <2>1. /\ UNCHANGED <<log, status, kept, revision, emitted, session, wire, clock>> /\ faults = {}
        /\ \A q \in Pages \ {p} : page'[q] = page[q] /\ asked'[q] = asked[q] /\ wants'[q] = wants[q]
    BY <1>1, <1>6, AskSteps
  <2>2. ASSUME NEW c, History(c) PROVE \E d : History(d)'
    <3>1. ASSUME NEW q \in Pages \ {p} PROVE PageView(c, q)'
      BY <2>1, <2>2, ViewSame DEF History
    <3>2. PageView(c, p)'
      BY <1>1, <1>6, <2>2, ViewAsks DEF History
    <3>3. History(c)'
      BY <2>1, <2>2, <3>1, <3>2 DEF History
    <3> QED  BY <3>3
  <2> HIDE DEF Good
  <2> QED  BY <1>2, <2>1, <2>2
<1>7. ASSUME NEW p \in Pages, Apply(p) PROVE Good'
  <2>1. /\ UNCHANGED <<log, status, kept, revision, emitted, asked, clock, count, faults>>
        /\ \A q \in Pages \ {p} : page'[q] = page[q] /\ wants'[q] = wants[q] /\ session'[q] = session[q]
        /\ wire' = [wire EXCEPT ![p] = Tail(@)]
        /\ session'[p].run = session[p].run
        /\ session'[p].at = IF Head(wire[p]).last THEN "done" ELSE session[p].at
        /\ wire[p] # <<>> /\ wire[p] \in Seq(Patches)
    BY <1>1, <1>7, ApplyStep, Zenon
  <2>2. Head(wire[p]).last => session[p].at = "ended"
    <3>1. Head(wire[p]) = wire[p][1] /\ 1 \in 1..Len(wire[p])
      BY <2>1
    <3>2. session[p].at \in {"open", "ended"}
      BY <1>1, <2>1, FollowsRun DEF LastsInv, LastsEnd
    <3> QED  BY <1>1, <3>1, <3>2 DEF LastsInv, LastsEnd
  <2>3. ASSUME NEW c, History(c) PROVE \E d : History(d)'
    <3>1. ASSUME NEW q \in Pages \ {p} PROVE PageView(c, q)'
      <4>1. wire'[q] = wire[q]
        BY <1>1, <2>1 DEF TranscriptTypeOK
      <4> QED  BY <2>1, <2>3, <4>1, ViewSame DEF History
    <3>2. PageView(c, p)'
      BY <1>1, <1>7, <2>3, ViewRead DEF History
    <3>3. History(c)'
      BY <2>1, <2>3, <3>1, <3>2 DEF History
    <3> QED  BY <3>3
  <2>4. \A q \in Pages : session'[q].run = session[q].run /\ (session'[q].at = session[q].at \/ session[q].at = "ended")
    BY <2>1, <2>2
  <2>5. faults = {}
    BY <2>1
  <2> HIDE DEF Good
  <2> QED  BY <1>2, <2>1, <2>3, <2>4, <2>5
<1>8. ASSUME NEW p \in Pages, Lose(p) PROVE Good'
  BY <1>1, <1>8, LoseStep
<1>9. ASSUME NotificationPatch PROVE Good'
  <2>1. revision' = revision + 1 /\ UNCHANGED <<log, status, kept, emitted, page, session, wire, asked, wants, clock, faults>>
    BY <1>1, <1>9, BumpStep
  <2>2. ASSUME NEW c, History(c) PROVE \E d : History(d)'
    <3>1. PICK d : d = [c EXCEPT ![revision + 1] = emitted']
      OBVIOUS
    <3>2. d \in [Nat -> SUBSET Things] /\ d[revision + 1] = emitted'
      BY <1>1, <2>1, <2>2, <3>1 DEF History, TranscriptTypeOK
    <3>3. ASSUME NEW q \in Pages PROVE PageView(d, q)'
      BY <1>1, <2>1, <2>2, <3>1, ViewGrown DEF History
    <3>4. History(d)'
      BY <2>1, <3>2, <3>3 DEF History
    <3> QED  BY <3>4
  <2>3. faults = {}
    BY <2>1
  <2> HIDE DEF Good
  <2> QED  BY <1>2, <2>1, <2>2, <2>3
<1>10. ASSUME Restart PROVE Good'
  BY <1>1, <1>10, RestartStep
<1>11. ASSUME UNCHANGED transcriptVars PROVE Good'
  <2>1. UNCHANGED <<log, status, kept, revision, emitted, page, session, wire, asked, wants, clock, faults>>
    BY <1>11 DEF transcriptVars, serverVars, nodeVars, pageVars
  <2>2. ASSUME NEW c, History(c) PROVE \E d : History(d)'
    <3>1. ASSUME NEW q \in Pages PROVE PageView(c, q)'
      BY <2>1, <2>2, ViewSame DEF History
    <3>2. History(c)'
      BY <2>1, <2>2, <3>1 DEF History
    <3> QED  BY <3>2
  <2>3. faults = {}
    BY <2>1
  <2> HIDE DEF Good
  <2> QED  BY <1>2, <2>1, <2>2, <2>3
<1> HIDE DEF Good
<1> QED  BY <1>3, <1>4, <1>5, <1>6, <1>7, <1>8, <1>9, <1>10, <1>11 DEF TranscriptNext, TurnStep

LEMMA ViewInitial ==
  ASSUME TranscriptInit
  PROVE  ViewInv
<1>1. LastsInv
  BY LastsInitial
<1>2. PICK c : c = [k \in Nat |-> {}]
  OBVIOUS
<1>3. c \in [Nat -> SUBSET Things] /\ c[0] = {}
  BY <1>2
<1>4. /\ revision = 0 /\ emitted = {}
      /\ \A p \in Pages : /\ page[p].revision = 0 /\ page[p].items = {} /\ asked[p].at = "none"
                          /\ wire[p] = <<>> /\ session[p].at = "none" /\ session[p].run = 0
  BY DEF TranscriptInit, NotAsked, NoSession
<1>5. ASSUME NEW p \in Pages PROVE PageView(c, p)
  <2>1. \A i \in 1..Len(wire[p]) : Fits(c, wire[p][i])
    BY <1>4
  <2>2. page[p].revision <= revision /\ page[p].items = c[page[p].revision]
    <3>1. page[p].revision = 0 /\ revision = 0 /\ page[p].items = {}
      BY <1>4, Zenon
    <3>2. c[page[p].revision] = c[0]
      BY <3>1, Zenon
    <3>3. 0 <= 0
      OBVIOUS
    <3> QED  BY <1>3, <3>1, <3>2, <3>3, Zenon
  <2>3. ~ HasAnswer(p)
    BY <1>4 DEF HasAnswer
  <2> QED  BY <1>4, <2>1, <2>2, <2>3 DEF PageView
<1>6. History(c)
  BY <1>3, <1>4, <1>5 DEF History
<1>7. Sole /\ \A p \in Pages : ReadToEnd(p)
  BY <1>4 DEF Sole, ReadToEnd
<1> QED  BY <1>1, <1>6, <1>7 DEF ViewInv

\* A page that followed a turn and its continuations undisturbed to the end shows
\* what a snapshot shows: no residue of the failed run, nothing missing, no gap,
\* although other requests take revisions whose patches no stream carries (feed,
\* flushPatches, calibrateTranscript).
THEOREM SettledViewsAreExact == TranscriptSpec => []SettledViewIsExact
<1>1. ViewInv => SettledViewIsExact
  <2> SUFFICES ASSUME ViewInv, NEW p \in Pages, Settled(p), faults = {}
               PROVE  NotesLeft(page[p].items) = NotesLeft(Snapshot)
    BY DEF SettledViewIsExact
  <2>1. BaseInv /\ TranscriptTypeOK /\ RunsInv
    BY DEF ViewInv, LastsInv, BaseInv
  <2>2. PICK c : History(c)
    BY DEF ViewInv
  <2>3. /\ session[p].at = "done" /\ ~ wants[p] /\ asked[p].at = "none"
        /\ status[Latest] \in Final /\ session[p].run = Latest
    BY DEF Settled, NotAsked
  <2>4. page[p].items = c[page[p].revision] /\ page[p].revision <= revision /\ CaughtUp(c, page[p].revision)
    BY <2>2, <2>3 DEF History, PageView, HasAnswer
  <2>5. page[p].items = emitted
    <3>1. page[p].revision \in Nat /\ revision \in Nat
      BY <2>1, PageTypes
    <3> QED  BY <2>4, <3>1 DEF CaughtUp
  <2>6. emitted = FinalItems
    BY <2>3 DEF ViewInv, ReadToEnd
  <2>7. Started # {}
    BY <2>1, <2>3, FollowsRun
  <2> QED  BY <2>1, <2>3, <2>5, <2>6, <2>7, FinalView
<1>2. TranscriptInit => ViewInv
  BY ViewInitial
<1>3. ViewInv /\ [TranscriptNext]_transcriptVars => ViewInv'
  BY ViewStep
<1> QED  BY <1>1, <1>2, <1>3, PTL DEF TranscriptSpec

-----------------------------------------------------------------------------
(* The context of a model *)

USE ContextAssumption

(* The chain of n, where ab says the parents: the least set with n that is
   closed under parents *)
Parents == [ContextNodes -> ContextNodes \cup {Absent}]
ClosedUp(ab, S) == \A x \in S : ab[x] \in S \cup {Absent}
ChainUp(ab, n) == {m \in ContextNodes : \A S \in SUBSET ContextNodes : n \in S /\ ClosedUp(ab, S) => m \in S}

LEMMA ChainUpIs ==
  ASSUME NEW ab \in Parents, NEW n \in ContextNodes
  PROVE  ChainUp(ab, n) = {n} \cup IF ab[n] = Absent THEN {} ELSE ChainUp(ab, ab[n])
<1>1. n \in ChainUp(ab, n)
  BY DEF ChainUp
<1>2. CASE ab[n] = Absent
  <2>1. n \in {n} /\ ClosedUp(ab, {n}) /\ {n} \in SUBSET ContextNodes
    BY <1>2 DEF ClosedUp
  <2>2. \A m \in ChainUp(ab, n) : m = n
    BY <2>1 DEF ChainUp
  <2> QED  BY <1>1, <1>2, <2>2
<1>3. CASE ab[n] # Absent
  <2>1. ab[n] \in ContextNodes
    BY <1>3 DEF Parents
  <2>2. ASSUME NEW m \in ChainUp(ab, ab[n]) PROVE m \in ChainUp(ab, n)
    <3> SUFFICES ASSUME NEW S \in SUBSET ContextNodes, n \in S, ClosedUp(ab, S) PROVE m \in S
      BY DEF ChainUp
    <3>1. ab[n] \in S
      BY <1>3 DEF ClosedUp
    <3> QED  BY <3>1 DEF ChainUp
  <2>3. ASSUME NEW m \in ChainUp(ab, n), m # n PROVE m \in ChainUp(ab, ab[n])
    <3> SUFFICES ASSUME NEW S \in SUBSET ContextNodes, ab[n] \in S, ClosedUp(ab, S) PROVE m \in S
      BY <2>3 DEF ChainUp
    <3>1. n \in S \cup {n} /\ ClosedUp(ab, S \cup {n}) /\ S \cup {n} \in SUBSET ContextNodes
      BY DEF ClosedUp
    <3>2. m \in S \cup {n}
      BY <3>1 DEF ChainUp
    <3> QED  BY <2>3, <3>2
  <2> QED  BY <1>1, <1>3, <2>2, <2>3
<1> QED  BY <1>2, <1>3

(* Parents are older *)
Older(ab) == \A n \in ContextNodes : ab[n] # Absent => ab[n] < n

(* The recursive function has the values that the closure has. *)
LEMMA ChainSolution ==
  ASSUME NEW ab \in Parents, Older(ab), NEW up,
         up = CHOOSE f : f = [n \in ContextNodes |-> {n} \cup IF ab[n] = Absent THEN {} ELSE f[ab[n]]]
  PROVE  \A n \in ContextNodes : up[n] = ChainUp(ab, n)
<1> DEFINE least == [n \in ContextNodes |-> ChainUp(ab, n)]
<1>1. ASSUME NEW n \in ContextNodes
      PROVE  ChainUp(ab, n) = {n} \cup IF ab[n] = Absent THEN {} ELSE least[ab[n]]
  <2>1. ab[n] # Absent => least[ab[n]] = ChainUp(ab, ab[n])
    BY DEF Parents
  <2> HIDE DEF least
  <2> QED  BY <2>1, ChainUpIs
<1>2. least = [n \in ContextNodes |-> {n} \cup IF ab[n] = Absent THEN {} ELSE least[ab[n]]]
  BY <1>1
<1>3. up = [n \in ContextNodes |-> {n} \cup IF ab[n] = Absent THEN {} ELSE up[ab[n]]]
  <2> HIDE DEF least
  <2> QED  BY <1>2
<1> SUFFICES ASSUME NEW k \in ContextNodes, up[k] # ChainUp(ab, k) PROVE FALSE
  OBVIOUS
<1> DEFINE Bad == {n \in ContextNodes : up[n] # ChainUp(ab, n)}
<1>4. Bad \subseteq Nat /\ Bad # {}
  <2>1. ContextNodes \subseteq Nat
    BY DEF ContextNodes
  <2> QED  BY <2>1
<1>5. PICK n \in Bad : \A m \in Bad : n <= m
  BY <1>4, LeastNat
<1>6. ab[n] # Absent => ab[n] \in ContextNodes /\ ab[n] < n
  BY DEF Parents, Older
<1>7. ab[n] # Absent => up[ab[n]] = ChainUp(ab, ab[n])
  BY <1>5, <1>6 DEF ContextNodes
<1>8. up[n] = {n} \cup IF ab[n] = Absent THEN {} ELSE up[ab[n]]
  <2> HIDE DEF least
  <2>1. n \in ContextNodes
    OBVIOUS
  <2> HIDE DEF Bad
  <2> QED  BY <1>3, <2>1
<1>9. ChainUp(ab, n) = {n} \cup IF ab[n] = Absent THEN {} ELSE ChainUp(ab, ab[n])
  BY ChainUpIs
<1> QED  BY <1>7, <1>8, <1>9

LEMMA ChainIs ==
  ASSUME above \in Parents, Older(above)
  PROVE  \A n \in ContextNodes : ContextChain[n] = ChainUp(above, n)
<1> DEFINE up == CHOOSE f : f = [n \in ContextNodes |-> {n} \cup IF above[n] = Absent THEN {} ELSE f[above[n]]]
<1>1. ContextChain = up
  BY DEF ContextChain
<1>2. \A n \in ContextNodes : up[n] = ChainUp(above, n)
  BY ChainSolution
<1> HIDE DEF up
<1> QED  BY <1>1, <1>2

LEMMA ChainIsNext ==
  ASSUME above' \in Parents, Older(above')
  PROVE  \A n \in ContextNodes : ContextChain'[n] = ChainUp(above', n)
<1> DEFINE up == CHOOSE f : f = [n \in ContextNodes |-> {n} \cup IF above'[n] = Absent THEN {} ELSE f[above'[n]]]
<1>1. ContextChain' = up
  BY DEF ContextChain
<1>2. \A n \in ContextNodes : up[n] = ChainUp(above', n)
  BY ChainSolution
<1> HIDE DEF up
<1> QED  BY <1>1, <1>2

LEMMA ChainOlder ==
  ASSUME NEW ab \in Parents, Older(ab), NEW n \in ContextNodes, NEW m \in ChainUp(ab, n)
  PROVE  m \in ContextNodes /\ m <= n /\ ChainUp(ab, m) \subseteq ChainUp(ab, n)
<1> DEFINE S == {x \in ContextNodes : x <= n}
<1>1. ClosedUp(ab, S) /\ n \in S /\ S \in SUBSET ContextNodes
  BY DEF ClosedUp, Older, Parents, ContextNodes, Absent
<1>2. m \in S
  BY <1>1 DEF ChainUp
<1>3. ChainUp(ab, m) \subseteq ChainUp(ab, n)
  BY DEF ChainUp
<1> QED  BY <1>2, <1>3

LEMMA ChainHasParents ==
  ASSUME NEW ab \in Parents, NEW n \in ContextNodes, NEW x \in ChainUp(ab, n)
  PROVE  ab[x] \in ChainUp(ab, n) \cup {Absent}
BY DEF ChainUp, ClosedUp, Parents

(* Of two nodes of a chain one is in the chain of the other. *)
LEMMA ChainIsLinear ==
  ASSUME NEW ab \in Parents, NEW n \in ContextNodes, NEW x \in ChainUp(ab, n), NEW y \in ChainUp(ab, n)
  PROVE  x \in ChainUp(ab, y) \/ y \in ChainUp(ab, x)
<1> DEFINE S == {u \in ChainUp(ab, n) : u \in ChainUp(ab, y) \/ y \in ChainUp(ab, u)}
<1>1. y \in ContextNodes /\ x \in ContextNodes /\ ChainUp(ab, n) \subseteq ContextNodes
  BY DEF ChainUp
<1>2. n \in ChainUp(ab, n)
  BY DEF ChainUp
<1>3. ClosedUp(ab, S)
  <2> SUFFICES ASSUME NEW u \in S, ab[u] # Absent PROVE ab[u] \in S
    BY DEF ClosedUp
  <2>1. u \in ContextNodes /\ ab[u] \in ChainUp(ab, n) /\ ab[u] \in ContextNodes
    BY <1>1, ChainHasParents DEF Parents
  <2>2. CASE u \in ChainUp(ab, y)
    BY <1>1, <2>1, <2>2, ChainHasParents
  <2>3. CASE y \in ChainUp(ab, u) /\ y # u
    BY <2>1, <2>3, ChainUpIs
  <2>4. CASE y = u
    BY <1>1, <2>1, <2>4, ChainHasParents, ChainUpIs
  <2> QED  BY <2>1, <2>2, <2>3, <2>4
<1>4. x \in S
  BY <1>1, <1>2, <1>3 DEF ChainUp
<1> QED  BY <1>4

(* A chain is what it was where its nodes have the parents they had. *)
LEMMA ChainKept ==
  ASSUME NEW ab \in Parents, NEW ac \in Parents, NEW n \in ContextNodes,
         \A x \in ChainUp(ab, n) : ac[x] = ab[x]
  PROVE  ChainUp(ac, n) = ChainUp(ab, n)
<1>1. n \in ChainUp(ab, n) /\ n \in ChainUp(ac, n)
      /\ ChainUp(ab, n) \in SUBSET ContextNodes /\ ChainUp(ac, n) \in SUBSET ContextNodes
  BY DEF ChainUp
<1>2. ClosedUp(ac, ChainUp(ab, n))
  BY ChainHasParents DEF ClosedUp
<1>3. ChainUp(ac, n) \subseteq ChainUp(ab, n)
  BY <1>1, <1>2 DEF ChainUp
<1> DEFINE S == ChainUp(ab, n) \cap ChainUp(ac, n)
<1>4. n \in S /\ ClosedUp(ab, S) /\ S \in SUBSET ContextNodes
  BY <1>1, ChainHasParents DEF ClosedUp
<1>5. ChainUp(ab, n) \subseteq S
  <2> HIDE DEF S
  <2> QED  BY <1>4 DEF ChainUp
<1> QED  BY <1>3, <1>5


-----------------------------------------------------------------------------
(* Nodes are placed in the order of their numbers, below nodes that were placed. *)
ContextShape ==
    /\ above \in Parents /\ Older(above)
    /\ \A n \in ContextNodes : above[n] \in Placed \cup {Absent}
    /\ \A n \in Placed, m \in ContextNodes : m < n => m \in Placed
    /\ rounds \in [ContextNodes -> Seq(Int)]
    /\ Compacts \subseteq Placed \ {0} /\ DOMAIN read = Compacts

(* What a summary was made from lacks only what had come late for a summary
   above it. *)
Summarised ==
    /\ \A c \in Compacts : read[c] \subseteq folded[c] \cup Late(above[c])
    /\ \A r \in reading : r.parent \in Placed /\ r.read \subseteq r.folded \cup Late(r.parent)

LEMMA PlacedChains ==
  ASSUME ContextShape, NEW n \in Placed
  PROVE  /\ n \in ContextNodes /\ ContextChain[n] = ChainUp(above, n) /\ n \in ContextChain[n]
         /\ ContextChain[n] \subseteq Placed
         /\ \A m \in ContextChain[n] : ContextChain[m] = ChainUp(above, m) /\ ContextChain[m] \subseteq ContextChain[n]
<1>1. above \in Parents /\ Older(above) /\ n \in ContextNodes
  BY DEF ContextShape, Placed
<1>2. \A m \in ContextNodes : ContextChain[m] = ChainUp(above, m)
  BY <1>1, ChainIs
<1>3. n \in ChainUp(above, n)
  BY <1>1 DEF ChainUp
<1>4. \A m \in ChainUp(above, n) : m \in ContextNodes /\ m <= n /\ ChainUp(above, m) \subseteq ChainUp(above, n)
  BY <1>1, ChainOlder
<1>5. \A m \in ContextNodes : m <= n => m \in Placed
  BY <1>1 DEF ContextShape, ContextNodes
<1> QED  BY <1>1, <1>2, <1>3, <1>4, <1>5

(* The latest compact node of a chain is below all others. *)
LEMMA LatestIs ==
  ASSUME ContextShape, NEW n \in Placed, Boundaries(n) # {}
  PROVE  LatestCompact(n) \in Boundaries(n) /\ Boundaries(n) \subseteq ContextChain[LatestCompact(n)]
<1>1. Boundaries(n) \subseteq ContextChain[n] /\ ContextChain[n] \subseteq ContextNodes
  BY PlacedChains DEF Boundaries, Placed
<1> DEFINE S == {LastContext - c : c \in Boundaries(n)}
<1>2. S \subseteq Nat /\ S # {}
  BY <1>1 DEF ContextNodes
<1>3. PICK d \in S : \A e \in S : d <= e
  BY <1>2, LeastNat
<1>4. PICK c \in Boundaries(n) : d = LastContext - c
  OBVIOUS
<1>5. \A b \in Boundaries(n) : b \in ContextNodes /\ c \in ContextNodes /\ b <= c
  <2> TAKE b \in Boundaries(n)
  <2>1. b \in ContextNodes /\ c \in ContextNodes
    BY <1>1
  <2>2. LastContext - c <= LastContext - b
    BY <1>3, <1>4
  <2> QED  BY <2>1, <2>2 DEF ContextNodes
<1>6. ASSUME NEW b \in Boundaries(n) PROVE b \in ContextChain[c]
  <2>1. /\ ContextChain[n] = ChainUp(above, n) /\ n \in ContextNodes /\ above \in Parents /\ Older(above)
        /\ b \in ContextChain[n] /\ c \in ContextChain[n]
        /\ ContextChain[b] = ChainUp(above, b) /\ ContextChain[c] = ChainUp(above, c)
    BY <1>1, PlacedChains DEF ContextShape
  <2>2. b \in ContextChain[c] \/ c \in ContextChain[b]
    BY <2>1, ChainIsLinear
  <2>3. c \in ContextChain[b] => c = b
    BY <1>5, <2>1, ChainOlder DEF ContextNodes
  <2>4. c \in ContextChain[c]
    BY <1>1, PlacedChains
  <2> QED  BY <2>2, <2>3, <2>4
<1>7. \E u \in Boundaries(n) : Boundaries(n) \subseteq ContextChain[u]
  BY <1>6
<1> QED  BY <1>7 DEF LatestCompact

LEMMA InParts ==
  ASSUME NEW S, NEW x
  PROVE  x \in Parts(S) <=> \E m \in S : x \in {m} \X (0..Len(rounds[m]))
BY DEF Parts

(* Without the turn that is kept as it is, nothing is missing either. *)
LEMMA SummariesSuffice ==
  ASSUME ContextShape, Summarised, NEW n \in Placed, NEW keep \in BOOLEAN
  PROVE  Parts(ContextChain[n]) \subseteq Told(n, keep) \cup Late(n)
<1> SUFFICES ASSUME NEW x \in Parts(ContextChain[n]), x \notin Told(n, keep) PROVE x \in Late(n)
  OBVIOUS
<1>1. PICK m \in ContextChain[n] : x \in {m} \X (0..Len(rounds[m]))
  BY InParts
<1>2. m \notin Cut(n, keep)
  <2>1. m \in Cut(n, keep) => x \in Parts(Cut(n, keep))
    BY <1>1, InParts
  <2> QED  BY <2>1 DEF Told
<1>3. Boundaries(n) # {}
  BY <1>2 DEF Cut
<1> DEFINE c == LatestCompact(n)
<1>4. c \in Boundaries(n) /\ c \in ContextChain[n] /\ c \in Compacts /\ c \in Placed /\ c # 0
  BY <1>3, LatestIs DEF Boundaries, ContextShape
<1> HIDE DEF c
<1>5. c \notin ContextChain[m]
  BY <1>1, <1>2, <1>3 DEF Cut, c
<1>6. /\ ContextChain[n] = ChainUp(above, n) /\ ContextChain[m] = ChainUp(above, m)
      /\ ContextChain[c] = ChainUp(above, c) /\ n \in ContextNodes /\ c \in ContextNodes
      /\ ContextChain[c] \subseteq ContextChain[n] /\ c \in ContextChain[c]
      /\ above \in Parents
  BY <1>1, <1>4, PlacedChains DEF ContextShape
<1>7. m \in ContextChain[c] /\ m # c
  BY <1>1, <1>4, <1>5, <1>6, ChainIsLinear
<1>8. above[c] # Absent /\ above[c] \in ContextChain[c] /\ above[c] \in Placed /\ m \in ContextChain[above[c]]
  <2>1. above[c] # Absent
    BY <1>4 DEF Placed
  <2>2. m \in ChainUp(above, above[c])
    BY <1>6, <1>7, <2>1, ChainUpIs
  <2>3. above[c] \in ContextChain[c]
    BY <1>6, <2>1, ChainHasParents
  <2>4. above[c] \in Placed
    BY <1>6, <2>1 DEF ContextShape
  <2>5. ContextChain[above[c]] = ChainUp(above, above[c])
    BY <2>4, PlacedChains
  <2> QED  BY <2>1, <2>2, <2>3, <2>4, <2>5
<1>9. x \in Parts(ContextChain[above[c]])
  BY <1>1, <1>8, InParts
<1>10. CASE x \in read[c]
  <2>1. c \in Cut(n, keep)
    BY <1>3, <1>4, <1>6 DEF Cut, c
  <2>2. x \notin folded[c]
    BY <1>4, <2>1 DEF Told
  <2>3. x \in Late(above[c])
    BY <1>4, <1>10, <2>2 DEF Summarised
  <2>4. PICK d \in ContextChain[above[c]] \cap Compacts : x \in Parts(ContextChain[above[d]]) \ read[d]
    BY <2>3 DEF Late
  <2>5. d \in ContextChain[n]
    BY <1>4, <1>8, <2>4, PlacedChains
  <2> QED  BY <2>4, <2>5 DEF Late
<1>11. CASE x \notin read[c]
  BY <1>4, <1>9, <1>11 DEF Late
<1> QED  BY <1>10, <1>11

-----------------------------------------------------------------------------
(* What a step leaves: nodes stay where they are, say more, and keep their summary. *)
ContextGrows ==
    /\ \A m \in Placed : above'[m] = above[m]
    /\ \A m \in ContextNodes : Len(rounds[m]) <= Len(rounds'[m])
    /\ \A c \in Compacts : c \in Compacts' /\ read'[c] = read[c] /\ folded'[c] = folded[c]

LEMMA LateGrows ==
  ASSUME ContextShape, ContextShape', ContextGrows, NEW n \in Placed
  PROVE  /\ n \in Placed' /\ ContextChain'[n] = ContextChain[n]
         /\ Late(n) \subseteq Late(n)'
<1>1. \A m \in Placed : /\ m \in ContextNodes /\ ContextChain[m] = ChainUp(above, m)
                        /\ \A x \in ContextChain[m] : x \in Placed
  BY PlacedChains
<1>2. \A m \in Placed : m \in Placed'
  BY DEF ContextGrows, Placed
<1>3. above \in Parents /\ above' \in Parents /\ Older(above')
  BY DEF ContextShape
<1>4. ASSUME NEW m \in Placed PROVE ContextChain'[m] = ContextChain[m]
  <2>1. ContextChain'[m] = ChainUp(above', m)
    BY <1>1, <1>3, ChainIsNext
  <2>2. \A x \in ChainUp(above, m) : above'[x] = above[x]
    BY <1>1 DEF ContextGrows
  <2> QED  BY <1>1, <1>3, <2>1, <2>2, ChainKept
<1>5. ASSUME NEW x \in Late(n) PROVE x \in Late(n)'
  <2>1. PICK c \in ContextChain[n] \cap Compacts : x \in Parts(ContextChain[above[c]]) \ read[c]
    BY <1>5 DEF Late
  <2>2. c \in Placed /\ c \in Compacts' /\ read'[c] = read[c] /\ above'[c] = above[c]
    BY <1>1, <2>1 DEF ContextGrows
  <2>3. above[c] \in Placed
    BY <2>1, <2>2 DEF ContextShape, Placed
  <2>4. PICK m \in ContextChain[above[c]] : x \in {m} \X (0..Len(rounds[m]))
    BY <2>1, InParts
  <2>5. m \in ContextChain'[above'[c]] /\ m \in ContextNodes
    BY <1>1, <1>4, <2>2, <2>3, <2>4
  <2>6. x \in {m} \X (0..Len(rounds'[m]))
    <3>1. Len(rounds[m]) <= Len(rounds'[m]) /\ Len(rounds[m]) \in Nat /\ Len(rounds'[m]) \in Nat
      BY <2>5 DEF ContextGrows, ContextShape
    <3> QED  BY <2>4, <3>1
  <2>7. x \in Parts(ContextChain[above[c]])'
    BY <2>5, <2>6 DEF Parts
  <2> QED  BY <1>4, <2>1, <2>2, <2>7 DEF Late
<1> QED  BY <1>2, <1>4, <1>5

(* A step that ends no compaction; one that begins reads what is there. *)
LEMMA SummarisedKept ==
  ASSUME ContextShape, Summarised, ContextShape', ContextGrows, Compacts' = Compacts,
         \A r \in reading' : r \in reading \/
             \E p \in Placed : r.parent = p /\ r.read = Parts(ContextChain[p]) /\ r.folded = Told(p, FALSE)
  PROVE  Summarised'
<1>1. ASSUME NEW c \in Compacts' PROVE read'[c] \subseteq folded'[c] \cup Late(above[c])'
  <2>1. c \in Compacts /\ c \in Placed /\ above'[c] = above[c] /\ above[c] \in Placed
    BY <1>1 DEF ContextShape, ContextGrows, Placed
  <2>2. Late(above[c]) \subseteq Late(above[c])'
    <3> DEFINE p == above[c]
    <3>1. p \in Placed /\ above'[c] = p
      BY <2>1
    <3>2. Late(p) \subseteq UNION {Parts(ContextChain[above[d]])' \ read'[d] : d \in ContextChain'[p] \cap Compacts'}
      <4> HIDE DEF p
      <4> QED  BY <3>1, LateGrows DEF Late
    <3> QED  BY <3>1, <3>2 DEF Late
  <2> QED  BY <2>1, <2>2 DEF Summarised, ContextGrows
<1>2. ASSUME NEW r \in reading' PROVE r.parent \in Placed' /\ r.read \subseteq r.folded \cup Late(r.parent)'
  <2>1. r.parent \in Placed /\ r.read \subseteq r.folded \cup Late(r.parent)
    BY <1>2, SummariesSuffice DEF Summarised
  <2>2. r.parent \in Placed' /\ Late(r.parent) \subseteq Late(r.parent)'
    BY <2>1, LateGrows
  <2> QED  BY <2>1, <2>2
<1> QED  BY <1>1, <1>2 DEF Summarised


-----------------------------------------------------------------------------
(* The rounds of a node are numbered below their position, those of the run at
   work not yet; and without a crash every other one has its own number. *)
NumberedSoFar(n) ==
    /\ begun[n] \in {Absent} \cup (0..Len(rounds[n]))
    /\ n \notin Placed => rounds[n] = <<>> /\ begun[n] = Absent
    /\ \A i \in 1..Len(rounds[n]) :
          /\ rounds[n][i] = Loose \/ rounds[n][i] \in 0..(i - 1)
          /\ begun[n] # Absent /\ i > begun[n] => rounds[n][i] = Loose
          /\ ~ crashed /\ (begun[n] = Absent \/ i <= begun[n]) => rounds[n][i] = i - 1

Numbering ==
    /\ crashed \in BOOLEAN /\ begun \in [ContextNodes -> Int]
    /\ \A n \in ContextNodes : NumberedSoFar(n)

ContextInv == ContextShape /\ Summarised /\ Numbering

\* The rounds of a run begin behind those of the runs before it.
LEMMA FirstRoundIs ==
  ASSUME ContextShape, Numbering, NEW n \in Running
  PROVE  /\ n \in ContextNodes /\ begun[n] \in 0..Len(rounds[n]) /\ FirstRound(n) \in 0..begun[n]
         /\ ~ crashed => FirstRound(n) = begun[n]
<1>1. /\ n \in ContextNodes /\ begun[n] \in 0..Len(rounds[n]) /\ NumberedSoFar(n)
      /\ rounds[n] \in Seq(Int) /\ DOMAIN rounds[n] = 1..Len(rounds[n]) /\ Len(rounds[n]) \in Nat
  BY DEF Running, Numbering, NumberedSoFar, ContextShape
<1>2. \A i \in Numbered(n) : i \in 1..begun[n] /\ rounds[n][i] \in 0..(i - 1) /\ (~ crashed => rounds[n][i] = i - 1)
  BY <1>1 DEF Numbered, NumberedSoFar, Running
<1> DEFINE len == Len(rounds[n])
<1>a. \A i \in Numbered(n) : rounds[n][i] \in Nat /\ rounds[n][i] < begun[n] /\ begun[n] <= len /\ len \in Nat
  <2> TAKE i \in Numbered(n)
  <2>1. /\ i \in 1..begun[n] /\ rounds[n][i] \in 0..(i - 1) /\ begun[n] \in 0..len /\ len \in Nat
    BY <1>1, <1>2
  <2> HIDE DEF len
  <2> QED  BY <2>1
<1> HIDE DEF len
<1>3. CASE Numbered(n) = {}
  <2>1. ~ crashed => begun[n] = 0
    <3>1. ASSUME ~ crashed, begun[n] # 0 PROVE FALSE
      <4>1. 1 \in 1..Len(rounds[n]) /\ 1 <= begun[n]
        BY <1>1, <3>1
      <4>2. rounds[n][1] = 0
        BY <1>1, <3>1, <4>1 DEF NumberedSoFar
      <4> QED  BY <1>1, <1>3, <4>1, <4>2 DEF Numbered, Loose
    <3> QED  BY <3>1
  <2> QED  BY <1>1, <1>3, <2>1 DEF FirstRound
<1>4. CASE Numbered(n) # {}
  <2> DEFINE S == {len - rounds[n][i] : i \in Numbered(n)}
  <2>1. S \subseteq Nat /\ S # {}
    <3>1. \A i \in Numbered(n) : len - rounds[n][i] \in Nat
      <4> TAKE i \in Numbered(n)
      <4>1. rounds[n][i] \in Nat /\ rounds[n][i] < begun[n] /\ begun[n] <= len /\ len \in Nat
        BY <1>a
      <4>2. begun[n] \in Int
        BY <1>1
      <4> DEFINE round == rounds[n][i]  start == begun[n]
      <4>3. round \in Nat /\ start \in Int /\ round < start /\ start <= len /\ len \in Nat
        BY <4>1, <4>2
      <4> HIDE DEF round, start
      <4>4. len - round \in Nat
        BY <4>3
      <4> QED  BY <4>4 DEF round
    <3> QED  BY <1>4, <3>1
  <2>2. PICK d \in S : \A e \in S : d <= e
    BY <2>1, LeastNat
  <2>3. PICK k \in Numbered(n) : d = len - rounds[n][k]
    OBVIOUS
  <2>4. \A j \in Numbered(n) : rounds[n][j] =< rounds[n][k]
    <3> TAKE j \in Numbered(n)
    <3>1. len - rounds[n][k] <= len - rounds[n][j]
      BY <2>2, <2>3
    <3>2. /\ rounds[n][k] \in Nat /\ rounds[n][j] \in Nat /\ len \in Nat
      BY <1>a
    <3> QED  BY <3>1, <3>2
  <2> DEFINE last == CHOOSE i \in Numbered(n) : \A j \in Numbered(n) : rounds[n][j] =< rounds[n][i]
  <2>5. last \in Numbered(n) /\ \A j \in Numbered(n) : rounds[n][j] =< rounds[n][last]
    BY <2>4
  <2>6. FirstRound(n) = 1 + rounds[n][last]
    BY <1>4 DEF FirstRound
  <2> HIDE DEF last
  <2>7. FirstRound(n) \in 0..begun[n]
    <3>1. rounds[n][last] \in Nat /\ rounds[n][last] < begun[n] /\ begun[n] \in Int
      BY <1>1, <1>a, <2>5
    <3> QED  BY <2>6, <3>1
  <2>8. ASSUME ~ crashed PROVE FirstRound(n) = begun[n]
    <3>1. begun[n] \in 1..Len(rounds[n])
      BY <1>1, <1>2, <2>5
    <3>2. rounds[n][begun[n]] = begun[n] - 1
      <4> DEFINE start == begun[n]
      <4>1. /\ start \in 1..Len(rounds[n]) /\ start \in Int
            /\ \A i \in 1..Len(rounds[n]) : ~ crashed /\ (start = Absent \/ i <= start) => rounds[n][i] = i - 1
        BY <1>1, <3>1 DEF NumberedSoFar
      <4> HIDE DEF start
      <4>2. rounds[n][start] = start - 1
        BY <2>8, <4>1
      <4> QED  BY <4>2 DEF start
    <3>3. begun[n] \in Numbered(n)
      <4>1. begun[n] - 1 # Loose
        BY <3>1 DEF Loose
      <4> QED  BY <1>1, <3>1, <3>2, <4>1 DEF Numbered
    <3>4. begun[n] - 1 <= rounds[n][last]
      BY <2>5, <3>2, <3>3
    <3>5. rounds[n][last] \in Nat /\ rounds[n][last] < begun[n] /\ begun[n] \in Int
      BY <1>1, <1>a, <2>5
    <3> QED  BY <2>6, <3>4, <3>5
  <2> QED  BY <1>1, <2>7, <2>8
<1> QED  BY <1>3, <1>4

\* A node that did not exist gets a parent that does.
LEMMA PlacedNew ==
  ASSUME ContextShape, NEW n \in FreshPlace, NEW p \in Placed, above' = [above EXCEPT ![n] = p]
  PROVE  /\ n \in ContextNodes \ Placed /\ n # 0 /\ p < n /\ p \in ContextNodes
         /\ above' \in Parents /\ Older(above')
         /\ Placed' = Placed \cup {n}
         /\ \A m \in ContextNodes : above'[m] \in Placed' \cup {Absent}
         /\ \A m \in Placed', u \in ContextNodes : u < m => u \in Placed'
         /\ \A m \in Placed : above'[m] = above[m]
<1>1. /\ n \in ContextNodes \ Placed /\ n # 0 /\ p \in ContextNodes /\ 0 \in ContextNodes
      /\ \A m \in ContextNodes \ Placed : n =< m
      /\ above \in Parents /\ above' \in Parents /\ Absent \notin ContextNodes
  BY DEF FreshPlace, Placed, ContextShape, Parents, ContextNodes, Absent
<1>2. p < n
  <2>1. n \notin Placed /\ (n < p => n \in Placed)
    BY <1>1 DEF ContextShape
  <2> QED  BY <1>1, <2>1 DEF ContextNodes
<1>3. /\ above'[n] = p /\ p # Absent
      /\ \A m \in ContextNodes \ {n} : above'[m] = above[m]
  BY <1>1 DEF Parents
<1>4. Placed' = Placed \cup {n}
  BY <1>1, <1>3 DEF Placed
<1>5. Older(above')
  BY <1>1, <1>2, <1>3 DEF Older, ContextShape
<1>6. \A m \in ContextNodes : above'[m] \in Placed' \cup {Absent}
  BY <1>1, <1>3, <1>4 DEF ContextShape
<1>7. ASSUME NEW m \in Placed', NEW u \in ContextNodes, u < m PROVE u \in Placed'
  <2>1. CASE m = n
    <3>1. u \notin Placed => n =< u
      BY <1>1
    <3> QED  BY <1>1, <1>4, <1>7, <2>1, <3>1 DEF ContextNodes
  <2>2. CASE m \in Placed
    BY <1>4, <1>7, <2>2 DEF ContextShape
  <2> QED  BY <1>4, <2>1, <2>2
<1> QED  BY <1>1, <1>2, <1>3, <1>4, <1>5, <1>6, <1>7

LEMMA BeginTurnKeeps ==
  ASSUME ContextInv, NEW p \in ContextNodes, BeginTurn(p)
  PROVE  ContextInv'
<1>1. ContextShape /\ Summarised /\ Numbering /\ p \in Placed
  BY DEF ContextInv, BeginTurn
<1>2. PICK n \in FreshPlace : above' = [above EXCEPT ![n] = p] /\ begun' = [begun EXCEPT ![n] = 0]
  BY DEF BeginTurn
<1>3. UNCHANGED <<rounds, folded, read, reading, crashed>>
  BY DEF BeginTurn
<1>4. /\ n \in ContextNodes \ Placed /\ n # 0 /\ above' \in Parents /\ Older(above') /\ Placed' = Placed \cup {n}
      /\ \A m \in ContextNodes : above'[m] \in Placed' \cup {Absent}
      /\ \A m \in Placed', u \in ContextNodes : u < m => u \in Placed'
      /\ \A m \in Placed : above'[m] = above[m]
  BY <1>1, <1>2, PlacedNew
<1>5. ContextShape'
  BY <1>1, <1>3, <1>4 DEF ContextShape, Compacts
<1>6. ContextGrows
  BY <1>1, <1>3, <1>4 DEF ContextGrows, Compacts, ContextShape
<1>7. Summarised'
  BY <1>1, <1>3, <1>5, <1>6, SummarisedKept DEF Compacts
<1>8. Numbering'
  <2>1. begun'[n] = 0 /\ \A m \in ContextNodes \ {n} : begun'[m] = begun[m]
    BY <1>1, <1>2, <1>4 DEF Numbering
  <2>2. rounds[n] = <<>>
    BY <1>1, <1>4 DEF Numbering, NumberedSoFar
  <2>3. NumberedSoFar(n)'
    BY <1>3, <1>4, <2>1, <2>2 DEF NumberedSoFar
  <2>4. ASSUME NEW m \in ContextNodes \ {n} PROVE NumberedSoFar(m)'
    BY <1>1, <1>3, <1>4, <2>1 DEF Numbering, NumberedSoFar
  <2>5. begun' \in [ContextNodes -> Int]
    <3>1. begun \in [ContextNodes -> Int] /\ 0 \in Int /\ n \in ContextNodes
      BY <1>1, <1>4 DEF Numbering
    <3> QED  BY <1>2, <3>1
  <2>6. \A m \in ContextNodes : NumberedSoFar(m)'
    BY <2>3, <2>4
  <2> QED  BY <1>1, <1>3, <2>5, <2>6 DEF Numbering
<1> QED  BY <1>5, <1>7, <1>8 DEF ContextInv

\* A step that moves nothing and begins or ends no compaction
LEMMA ContextQuiet ==
  ASSUME ContextInv, UNCHANGED <<above, folded, read>>,
         rounds' \in [ContextNodes -> Seq(Int)],
         \A m \in ContextNodes : Len(rounds[m]) <= Len(rounds'[m]),
         \A r \in reading' : r \in reading \/
             \E p \in Placed : r.parent = p /\ r.read = Parts(ContextChain[p]) /\ r.folded = Told(p, FALSE)
  PROVE  ContextShape' /\ Summarised' /\ Placed' = Placed
<1>1. Placed' = Placed /\ Compacts' = Compacts
  BY DEF Placed, Compacts
<1>2. ContextShape' /\ ContextGrows
  BY <1>1 DEF ContextInv, ContextShape, ContextGrows, Parents, Older
<1> QED  BY <1>1, <1>2, SummarisedKept DEF ContextInv

LEMMA TurnContextKeeps ==
  ASSUME ContextInv, NEW n \in ContextNodes, ContinueTurn(n) \/ SayPart(n) \/ EndTurn(n)
  PROVE  ContextInv'
<1>1. ContextShape /\ Summarised /\ Numbering /\ NumberedSoFar(n) /\ UNCHANGED <<above, folded, read, reading, crashed>>
      /\ rounds[n] \in Seq(Int) /\ DOMAIN rounds[n] = 1..Len(rounds[n]) /\ Len(rounds[n]) \in Nat
      /\ rounds \in [ContextNodes -> Seq(Int)] /\ begun \in [ContextNodes -> Int]
  BY DEF ContextInv, ContinueTurn, SayPart, EndTurn, Numbering, ContextShape
<1>2. ASSUME NEW s \in Seq(Int), NEW b \in Int, Len(rounds[n]) <= Len(s), n \in Placed,
             \A m \in ContextNodes : rounds'[m] = IF m = n THEN s ELSE rounds[m],
             \A m \in ContextNodes : begun'[m] = IF m = n THEN b ELSE begun[m],
             rounds' \in [ContextNodes -> Seq(Int)], begun' \in [ContextNodes -> Int],
             b \in {Absent} \cup (0..Len(s)),
             \A i \in 1..Len(s) :
                 /\ s[i] = Loose \/ s[i] \in 0..(i - 1)
                 /\ b # Absent /\ i > b => s[i] = Loose
                 /\ ~ crashed /\ (b = Absent \/ i <= b) => s[i] = i - 1
      PROVE  ContextInv'
  <2>1. \A m \in ContextNodes : Len(rounds[m]) <= Len(rounds'[m])
    <3> TAKE m \in ContextNodes
    <3>1. CASE m = n
      <4>1. rounds'[m] = s /\ rounds[m] = rounds[n]
        BY <1>2, <3>1
      <4> QED  BY <1>2, <4>1
    <3>2. CASE m # n
      <4>1. rounds'[m] = rounds[m] /\ Len(rounds[m]) \in Nat
        BY <1>1, <1>2, <3>2
      <4> QED  BY <4>1
    <3> QED  BY <3>1, <3>2
  <2>2. ContextShape' /\ Summarised' /\ Placed' = Placed
    BY <1>1, <1>2, <2>1, ContextQuiet
  <2>3. NumberedSoFar(n)'
    <3>1. rounds'[n] = s /\ begun'[n] = b /\ n \in Placed' /\ crashed' = crashed
      BY <1>1, <1>2, <2>2
    <3> QED  BY <1>2, <3>1 DEF NumberedSoFar
  <2>4. ASSUME NEW m \in ContextNodes, m # n PROVE NumberedSoFar(m)'
    <3>1. NumberedSoFar(m)
      BY <1>1 DEF Numbering
    <3>2. rounds'[m] = rounds[m] /\ begun'[m] = begun[m] /\ Placed' = Placed /\ crashed' = crashed
      BY <1>1, <1>2, <2>2, <2>4
    <3> QED  BY <3>1, <3>2 DEF NumberedSoFar
  <2>5. ASSUME NEW m \in ContextNodes PROVE NumberedSoFar(m)'
    BY <2>3, <2>4
  <2>6. Numbering'
    BY <1>1, <1>2, <2>5 DEF Numbering
  <2> QED  BY <2>2, <2>6 DEF ContextInv
<1>3. CASE ContinueTurn(n)
  <2>1. n \in Placed /\ begun[n] = Absent /\ rounds' = rounds /\ begun' = [begun EXCEPT ![n] = Len(rounds[n])]
    BY <1>3 DEF ContinueTurn, Running
  <2> DEFINE b == Len(rounds[n])
  <2>2. b \in Nat /\ begun' = [begun EXCEPT ![n] = b]
    BY <1>1, <2>1
  <2>3. \A i \in 1..b : /\ rounds[n][i] = Loose \/ rounds[n][i] \in 0..(i - 1)
                        /\ b # Absent /\ i > b => rounds[n][i] = Loose
                        /\ ~ crashed /\ (b = Absent \/ i <= b) => rounds[n][i] = i - 1
    BY <1>1, <2>1 DEF NumberedSoFar
  <2>4. b \in {Absent} \cup (0..b) /\ b \in Int /\ b <= Len(rounds[n])
    BY <2>2
  <2>5. /\ \A m \in ContextNodes : rounds'[m] = IF m = n THEN rounds[n] ELSE rounds[m]
        /\ \A m \in ContextNodes : begun'[m] = IF m = n THEN b ELSE begun[m]
        /\ rounds' \in [ContextNodes -> Seq(Int)] /\ begun' \in [ContextNodes -> Int]
    BY <1>1, <2>1, <2>2
  <2> QED  BY <1>1, <1>2, <2>1, <2>3, <2>4, <2>5
<1>4. CASE SayPart(n)
  <2>1. begun[n] # Absent /\ begun' = begun /\ rounds' = [rounds EXCEPT ![n] = Append(rounds[n], Loose)]
    BY <1>4 DEF SayPart, Running
  <2>2. n \in Placed /\ begun[n] \in 0..Len(rounds[n])
    BY <1>1, <2>1 DEF NumberedSoFar
  <2> DEFINE s == Append(rounds[n], Loose)
  <2>3. /\ s \in Seq(Int) /\ Len(s) = Len(rounds[n]) + 1 /\ s[Len(rounds[n]) + 1] = Loose
        /\ \A i \in 1..Len(rounds[n]) : s[i] = rounds[n][i]
    BY <1>1 DEF Loose
  <2> HIDE DEF s
  <2>4. \A i \in 1..Len(s) :
          /\ s[i] = Loose \/ s[i] \in 0..(i - 1)
          /\ begun[n] # Absent /\ i > begun[n] => s[i] = Loose
          /\ ~ crashed /\ (begun[n] = Absent \/ i <= begun[n]) => s[i] = i - 1
    <3> TAKE i \in 1..Len(s)
    <3>1. CASE i = Len(rounds[n]) + 1
      BY <1>1, <2>1, <2>2, <2>3, <3>1
    <3>2. CASE i \in 1..Len(rounds[n])
      BY <1>1, <2>1, <2>2, <2>3, <3>2 DEF NumberedSoFar
    <3> QED  BY <1>1, <2>3, <3>1, <3>2
  <2>5. /\ \A m \in ContextNodes : rounds'[m] = IF m = n THEN s ELSE rounds[m]
        /\ rounds' \in [ContextNodes -> Seq(Int)]
    BY <1>1, <2>1, <2>3 DEF s
  <2>6. /\ begun[n] \in Int /\ begun[n] \in {Absent} \cup (0..Len(s)) /\ Len(rounds[n]) <= Len(s)
        /\ \A m \in ContextNodes : begun'[m] = IF m = n THEN begun[n] ELSE begun[m]
        /\ begun' \in [ContextNodes -> Int]
    BY <1>1, <2>1, <2>2, <2>3
  <2> QED  BY <1>2, <2>2, <2>3, <2>4, <2>5, <2>6
<1>5. CASE EndTurn(n)
  <2>1. /\ n \in Running /\ begun[n] # Absent /\ begun' = [begun EXCEPT ![n] = Absent]
    BY <1>5 DEF EndTurn, Running
  <2> DEFINE s == [i \in DOMAIN rounds[n] |->
                     IF i > begun[n] THEN FirstRound(n) + i - begun[n] - 1 ELSE rounds[n][i]]
  <2>2. rounds' = [rounds EXCEPT ![n] = s]
    BY <1>5 DEF EndTurn
  <2>3. /\ n \in Placed /\ begun[n] \in 0..Len(rounds[n]) /\ FirstRound(n) \in 0..begun[n]
        /\ ~ crashed => FirstRound(n) = begun[n]
    BY <1>1, <2>1, FirstRoundIs DEF NumberedSoFar
  <2>4. /\ s \in Seq(Int) /\ Len(s) = Len(rounds[n])
        /\ \A i \in 1..Len(rounds[n]) :
              s[i] = IF i > begun[n] THEN FirstRound(n) + i - begun[n] - 1 ELSE rounds[n][i]
    BY <1>1, <2>3
  <2> HIDE DEF s
  <2>5. \A i \in 1..Len(s) :
          /\ s[i] = Loose \/ s[i] \in 0..(i - 1)
          /\ ~ crashed => s[i] = i - 1
    <3> SUFFICES ASSUME NEW i \in 1..Len(s)
                 PROVE  /\ s[i] = Loose \/ s[i] \in 0..(i - 1)
                        /\ ~ crashed => s[i] = i - 1
      OBVIOUS
    <3>1. i \in 1..Len(rounds[n]) /\ i \in Int /\ begun[n] \in Nat
      BY <1>1, <2>3, <2>4
    <3>2. CASE i > begun[n]
      <4>1. s[i] = FirstRound(n) + i - begun[n] - 1
        BY <2>4, <3>1, <3>2
      <4> DEFINE b == begun[n]  first == FirstRound(n)
      <4>2. /\ b \in Nat /\ first \in 0..b /\ s[i] = first + i - b - 1 /\ i > b /\ i \in Int
            /\ ~ crashed => first = b
        BY <2>3, <3>1, <3>2, <4>1
      <4> HIDE DEF b, first
      <4> QED  BY <4>2
    <3>3. CASE ~ (i > begun[n])
      <4>1. s[i] = rounds[n][i] /\ i <= begun[n]
        BY <2>4, <3>1, <3>3
      <4> QED  BY <1>1, <3>1, <4>1 DEF NumberedSoFar
    <3> QED  BY <3>2, <3>3
  <2>6. /\ \A m \in ContextNodes : rounds'[m] = IF m = n THEN s ELSE rounds[m]
        /\ rounds' \in [ContextNodes -> Seq(Int)]
    BY <1>1, <2>2, <2>4
  <2>7. \A m \in ContextNodes : begun'[m] = IF m = n THEN Absent ELSE begun[m]
    BY <1>1, <2>1
  <2>8. Absent \in Int /\ begun' \in [ContextNodes -> Int]
    BY <1>1, <2>1 DEF Absent
  <2>9. /\ Absent \in {Absent} \cup (0..Len(s)) /\ Len(rounds[n]) <= Len(s) /\ n \in Placed
        /\ s \in Seq(Int)
    BY <1>1, <2>3, <2>4
  <2>10. \A i \in 1..Len(s) :
           /\ s[i] = Loose \/ s[i] \in 0..(i - 1)
           /\ Absent # Absent /\ i > Absent => s[i] = Loose
           /\ ~ crashed /\ (Absent = Absent \/ i <= Absent) => s[i] = i - 1
    BY <2>5
  <2> QED  BY <1>2, <2>6, <2>7, <2>8, <2>9, <2>10
<1> QED  BY <1>3, <1>4, <1>5

LEMMA OtherContextKeeps ==
  ASSUME ContextInv,
         \/ \E p \in ContextNodes : BeginCompaction(p) \/ BeginPrune(p)
         \/ EndPrune \/ Crash \/ UNCHANGED contextVars
  PROVE  ContextInv'
<1>1. ContextShape /\ Numbering /\ UNCHANGED <<above, rounds, folded, read>>
  BY DEF ContextInv, BeginCompaction, BeginPrune, EndPrune, Crash, contextVars
<1>2. /\ rounds' \in [ContextNodes -> Seq(Int)]
      /\ \A m \in ContextNodes : Len(rounds[m]) <= Len(rounds'[m])
  BY <1>1 DEF ContextShape
<1>3. ContextShape' /\ Summarised' /\ Placed' = Placed
  <2>1. ASSUME NEW p \in ContextNodes, BeginCompaction(p) PROVE ContextShape' /\ Summarised' /\ Placed' = Placed
    <3>1. p \in Placed /\ reading' = {[parent |-> p, folded |-> Told(p, FALSE), read |-> Parts(ContextChain[p])]}
      BY <2>1 DEF BeginCompaction, ToSummarise
    <3>2. \A r \in reading' : r.parent = p /\ r.read = Parts(ContextChain[p]) /\ r.folded = Told(p, FALSE)
      <4> DEFINE t == Told(p, FALSE)  c == Parts(ContextChain[p])
      <4>1. reading' = {[parent |-> p, folded |-> t, read |-> c]}
        BY <3>1
      <4> HIDE DEF t, c
      <4>2. \A r \in reading' : r.parent = p /\ r.read = c /\ r.folded = t
        BY <4>1
      <4> QED  BY <4>2 DEF t, c
    <3>3. \A r \in reading' : r \in reading \/
            \E u \in Placed : r.parent = u /\ r.read = Parts(ContextChain[u]) /\ r.folded = Told(u, FALSE)
      BY <3>1, <3>2, Zenon
    <3> QED  BY <1>1, <1>2, <3>3, ContextQuiet
  <2>2. ASSUME reading' \subseteq reading PROVE ContextShape' /\ Summarised' /\ Placed' = Placed
    BY <1>1, <1>2, <2>2, ContextQuiet
  <2> QED  BY <2>1, <2>2 DEF BeginPrune, EndPrune, Crash, contextVars
<1>4. Numbering'
  <2>1. CASE Crash
    <3>1. crashed' = TRUE /\ begun' = [m \in ContextNodes |-> Absent]
      BY <2>1 DEF Crash
    <3>2. ASSUME NEW m \in ContextNodes PROVE NumberedSoFar(m)'
      BY <1>1, <1>3, <3>1 DEF Numbering, NumberedSoFar
    <3> QED  BY <3>1, <3>2 DEF Numbering, Absent
  <2>2. CASE UNCHANGED <<begun, crashed>>
    <3>1. ASSUME NEW m \in ContextNodes PROVE NumberedSoFar(m)'
      BY <1>1, <1>3, <2>2 DEF Numbering, NumberedSoFar
    <3> QED  BY <1>1, <2>2, <3>1 DEF Numbering
  <2> QED  BY <2>1, <2>2 DEF BeginCompaction, BeginPrune, EndPrune, contextVars
<1> QED  BY <1>3, <1>4 DEF ContextInv

LEMMA EndCompactionKeeps ==
  ASSUME ContextInv, EndCompaction
  PROVE  ContextInv'
<1>1. ContextShape /\ Summarised /\ Numbering /\ UNCHANGED <<rounds, begun, crashed>> /\ reading' = {}
  BY DEF ContextInv, EndCompaction
<1>2. PICK r \in reading, n \in FreshPlace :
        /\ above' = [above EXCEPT ![n] = r.parent]
        /\ folded' = Entered(folded, n, r.folded)
        /\ read' = Entered(read, n, r.read)
  BY DEF EndCompaction
<1>3. r.parent \in Placed /\ r.read \subseteq r.folded \cup Late(r.parent)
  BY <1>1 DEF Summarised
<1>4. /\ n \in ContextNodes \ Placed /\ n # 0 /\ above' \in Parents /\ Older(above') /\ Placed' = Placed \cup {n}
      /\ \A m \in ContextNodes : above'[m] \in Placed' \cup {Absent}
      /\ \A m \in Placed', u \in ContextNodes : u < m => u \in Placed'
      /\ \A m \in Placed : above'[m] = above[m]
  BY <1>1, <1>2, <1>3, PlacedNew
<1>5. /\ n \notin Compacts /\ Compacts' = Compacts \cup {n} /\ DOMAIN read' = Compacts'
      /\ folded'[n] = r.folded /\ read'[n] = r.read
      /\ \A c \in Compacts : folded'[c] = folded[c] /\ read'[c] = read[c]
  BY <1>1, <1>2, <1>4 DEF Entered, Compacts, ContextShape
<1>6. ContextShape'
  BY <1>1, <1>4, <1>5 DEF ContextShape
<1>7. ContextGrows
  BY <1>1, <1>4, <1>5 DEF ContextGrows, ContextShape
<1>8. Summarised'
  <2>1. ASSUME NEW c \in Compacts', NEW p \in Placed, above'[c] = p, read'[c] \subseteq folded'[c] \cup Late(p)
        PROVE  read'[c] \subseteq folded'[c] \cup Late(above[c])'
    <3>1. Late(p) \subseteq UNION {Parts(ContextChain[above[d]])' \ read'[d] : d \in ContextChain'[p] \cap Compacts'}
      BY <1>1, <1>6, <1>7, LateGrows DEF Late
    <3> QED  BY <2>1, <3>1 DEF Late
  <2>2. above'[n] = r.parent
    BY <1>1, <1>2, <1>4 DEF ContextShape, Parents
  <2>3. read'[n] \subseteq folded'[n] \cup Late(above[n])'
    BY <1>3, <1>5, <2>1, <2>2
  <2>4. ASSUME NEW c \in Compacts PROVE read'[c] \subseteq folded'[c] \cup Late(above[c])'
    <3>1. /\ above'[c] = above[c] /\ above[c] \in Placed
          /\ read'[c] \subseteq folded'[c] \cup Late(above[c])
      BY <1>1, <1>4, <1>5 DEF ContextShape, Placed, Summarised
    <3> QED  BY <1>5, <2>1, <3>1
  <2> QED  BY <1>1, <1>5, <2>3, <2>4 DEF Summarised
<1>9. Numbering'
  <2>1. ASSUME NEW m \in ContextNodes PROVE NumberedSoFar(m)'
    BY <1>1, <1>4 DEF Numbering, NumberedSoFar
  <2> QED  BY <1>1, <2>1 DEF Numbering
<1> QED  BY <1>6, <1>8, <1>9 DEF ContextInv

LEMMA ContextInitial == ContextInit => ContextInv
<1> SUFFICES ASSUME ContextInit PROVE ContextInv
  OBVIOUS
<1>1. /\ above = [n \in ContextNodes |-> Absent] /\ rounds = [n \in ContextNodes |-> <<>>]
      /\ begun = [n \in ContextNodes |-> Absent] /\ reading = {} /\ crashed = FALSE
      /\ DOMAIN folded = {} /\ DOMAIN read = {}
  BY DEF ContextInit
<1>2. Placed = {0}
  BY <1>1 DEF Placed, ContextNodes
<1>3. ContextShape
  <2>1. above \in Parents /\ Older(above)
    BY <1>1 DEF Parents, Older
  <2>2. \A m \in ContextNodes : ~ (m < 0)
    BY DEF ContextNodes
  <2>3. rounds \in [ContextNodes -> Seq(Int)]
    BY <1>1
  <2> QED  BY <1>1, <1>2, <2>1, <2>2, <2>3 DEF ContextShape, Compacts
<1>4. Numbering
  <2>1. ASSUME NEW n \in ContextNodes PROVE NumberedSoFar(n)
    <3>1. begun[n] = Absent /\ rounds[n] = <<>> /\ Len(rounds[n]) = 0
      BY <1>1
    <3> QED  BY <3>1 DEF NumberedSoFar
  <2>2. begun \in [ContextNodes -> Int]
    BY <1>1 DEF Absent
  <2> QED  BY <1>1, <2>1, <2>2 DEF Numbering
<1> QED  BY <1>1, <1>3, <1>4 DEF ContextInv, Summarised, Compacts

\* Without a crash a node whose first run is over has a message for its first round.
LEMMA FirstRoundHasMessage ==
  ASSUME ~ crashed, NEW n \in ContextNodes, NumberedSoFar(n), rounds[n] \in Seq(Int), rounds[n] # <<>>,
         begun[n] # 0
  PROVE  1 \in Numbered(n)
<1>1. DOMAIN rounds[n] = 1..Len(rounds[n]) /\ Len(rounds[n]) \in Nat /\ 1 \in 1..Len(rounds[n])
  OBVIOUS
<1>2. begun[n] = Absent \/ 1 <= begun[n]
  BY <1>1 DEF NumberedSoFar
<1>3. rounds[n][1] = 1 - 1
  BY <1>1, <1>2 DEF NumberedSoFar
<1> QED  BY <1>1, <1>3 DEF Numbered, Loose

\* A compaction forgets nothing that it could have read, however often the branch is
\* compacted again and whatever is said meanwhile (compact_conversation and
\* _model_node_chain); and without a crash the calls of a node are shown in the
\* order in which they were made, and only those of a first run that is not over
\* twice (_prepare_messages_for_api_with_conversation, persist_assistant_turn).
THEOREM ModelsAreToldAll == ContextSpec => []ToldWhole
<1>1. ContextInv /\ [ContextNext]_contextVars => ContextInv'
  BY BeginTurnKeeps, TurnContextKeeps, OtherContextKeeps, EndCompactionKeeps DEF ContextNext
<1>2. ContextInv => ToldWhole
  <2> SUFFICES ASSUME ContextInv PROVE NothingForgotten /\ ToldInOrder
    BY DEF ToldWhole
  <2>1. NothingForgotten
    BY SummariesSuffice DEF ContextInv, NothingForgotten
  <2>2. ASSUME ~ crashed, NEW n \in Placed, NEW i \in DOMAIN rounds[n], NEW j \in DOMAIN rounds[n], i < j
        PROVE  \/ i \in Numbered(n) /\ j \notin Numbered(n)
               \/ {i, j} \subseteq Numbered(n) /\ rounds[n][i] < rounds[n][j]
               \/ rounds[n][i] = rounds[n][j]
    <3>1. /\ n \in ContextNodes /\ NumberedSoFar(n) /\ DOMAIN rounds[n] = 1..Len(rounds[n])
          /\ Len(rounds[n]) \in Nat
      BY DEF ContextInv, Numbering, ContextShape, Placed
    <3>2. \A k \in 1..Len(rounds[n]) :
            rounds[n][k] = IF begun[n] = Absent \/ k <= begun[n] THEN k - 1 ELSE Loose
      BY <2>2, <3>1 DEF NumberedSoFar
    <3>3. i \in Nat /\ j \in Nat /\ i \in 1..Len(rounds[n]) /\ j \in 1..Len(rounds[n])
          /\ (begun[n] = Absent \/ begun[n] \in Nat)
      BY <3>1 DEF NumberedSoFar
    <3>4. /\ rounds[n][i] = IF begun[n] = Absent \/ i <= begun[n] THEN i - 1 ELSE Loose
          /\ rounds[n][j] = IF begun[n] = Absent \/ j <= begun[n] THEN j - 1 ELSE Loose
      BY <3>2, <3>3
    <3>5. \A k \in {i, j} : k \in Numbered(n) <=> rounds[n][k] # Loose
      BY <3>1, <3>3 DEF Numbered
    <3>6. /\ i - 1 # Loose /\ j - 1 # Loose
      BY <3>1, <3>3 DEF Loose
    <3>7. CASE begun[n] = Absent \/ j <= begun[n]
      <4>1. begun[n] = Absent \/ i <= begun[n]
        BY <2>2, <3>3, <3>7
      <4>2. rounds[n][i] = i - 1 /\ rounds[n][j] = j - 1
        BY <3>4, <3>7, <4>1
      <4>3. {i, j} \subseteq Numbered(n)
        BY <3>5, <3>6, <4>2
      <4>4. rounds[n][i] < rounds[n][j]
        BY <2>2, <3>3, <4>2
      <4> QED  BY <4>3, <4>4
    <3>8. CASE ~ (begun[n] = Absent \/ j <= begun[n])
      <4>1. rounds[n][j] = Loose /\ j \notin Numbered(n)
        BY <3>4, <3>5, <3>8
      <4>2. i \in Numbered(n) \/ rounds[n][i] = Loose
        BY <3>5
      <4> QED  BY <4>1, <4>2
    <3> QED  BY <3>7, <3>8
  <2>3. ASSUME ~ crashed, NEW n \in Placed, NEW x \in Sent(n), NEW y \in Sent(n)
        PROVE  /\ x[1] < y[1] /\ x[2] = y[2] => ShownBefore(n, x, y)
               /\ x[1] = y[1] /\ x # y => begun[n] = 0
    <3>1. /\ x[1] \in DOMAIN rounds[n] /\ y[1] \in DOMAIN rounds[n]
          /\ x = <<x[1], x[2]>> /\ y = <<y[1], y[2]>>
          /\ x[2] \in Copies(n) /\ y[2] \in Copies(n)
      BY DEF Sent
    <3>2. x[1] < y[1] /\ x[2] = y[2] => ShownBefore(n, x, y)
      BY <2>2, <2>3, <3>1 DEF ShownBefore
    <3>3. ASSUME begun[n] # 0 PROVE Copies(n) = {1}
      <4>1. /\ n \in ContextNodes /\ NumberedSoFar(n)
            /\ rounds[n] \in Seq(Int) /\ rounds[n] # <<>>
        BY <3>1 DEF ContextInv, Numbering, ContextShape, Placed
      <4>2. 1 \in Numbered(n)
        BY <2>3, <3>3, <4>1, FirstRoundHasMessage
      <4> QED  BY <4>2 DEF Copies
    <3>4. x[1] = y[1] /\ x # y => begun[n] = 0
      BY <3>1, <3>3
    <3> QED  BY <3>2, <3>4
  <2> QED  BY <2>1, <2>3 DEF ToldInOrder
<1> QED  BY <1>1, <1>2, ContextInitial, PTL DEF ContextSpec

=============================================================================
