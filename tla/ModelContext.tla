----------------------------- MODULE ModelContext -----------------------------
(***************************************************************************)
(* What a model is told of a conversation: the chain of nodes from the     *)
(* root to the current one, cut at the latest compaction, each node as its *)
(* rows show it, with the prune summaries of branches that were explored   *)
(* before (core/chat/chat_manager.py, canonical_reader.py,                 *)
(* prune_summary.py, persistence/repository.py).                           *)
(*                                                                         *)
(* A turn says its user's message (part 0) and then parts, one per round.  *)
(* The calls of a round have rows as soon as they are made; the turn's end *)
(* gives them to the message of their round.  A crash leaves them without. *)
(* A node none of whose rounds has a message yet shows its calls twice.    *)
(* A compaction reads the context of its parent and makes a node for the   *)
(* summary; a prune summary reads the branches below a node in a thread.   *)
(*                                                                         *)
(* Not covered: what the texts say and how they are shortened, imported    *)
(* files, the task and plan sections of the prompt, and deletions.         *)
(***************************************************************************)
EXTENDS Integers, Sequences, SequencesExt

CONSTANTS
    LastContext,  \* bound: nodes 0 .. LastContext, where 0 is the root
    MaxParts,     \* bound: the parts a turn says, its continuation included
    MaxPrunes     \* bound: prune summaries

ASSUME ContextAssumption == {LastContext, MaxParts, MaxPrunes} \subseteq Nat

ContextNodes == 0..LastContext
Absent == -1

VARIABLES
    above,    \* the parent of every node, Absent where there is no node yet
    rounds,   \* the parts of a node in time order: their round, or Loose
    begun,    \* the parts a node had when the run at work in it began, or Absent
    folded,   \* of a compact node: the parts its summary was made from
    read,     \* of a compact node: the parts of its chain when it was read
    reading,  \* the compaction under way
    prunes,   \* the prune summaries of a node: the covered nodes of each
    covering, \* the prune summary under way
    crashed

contextVars == <<above, rounds, begun, folded, read, reading, prunes, covering, crashed>>

Loose == -1
Compacts == DOMAIN folded
Placed == {n \in ContextNodes : n = 0 \/ above[n] # Absent}
FreshPlace == {n \in ContextNodes \ Placed : \A m \in ContextNodes \ Placed : n =< m}

(* _active_controllers *)
Running == {n \in ContextNodes : begun[n] # Absent}

-----------------------------------------------------------------------------
(* The chain and what is left of it *)

(* get_node_chain: n, and the nodes of its parent's chain *)
ContextChain[n \in ContextNodes] ==
    {n} \cup IF above[n] = Absent THEN {} ELSE ContextChain[above[n]]

(* _model_node_chain: the root, the latest compact node and what follows it;
   the last turn before it is kept as it is, unless the cut is made in order
   to compact again. *)
Boundaries(n) == ContextChain[n] \cap Compacts
LatestCompact(n) == CHOOSE c \in Boundaries(n) : Boundaries(n) \subseteq ContextChain[c]
BeforeLatest(n) == ContextChain[LatestCompact(n)] \ (Compacts \cup {0})

Cut(n, keep) ==
    IF Boundaries(n) = {} THEN ContextChain[n]
    ELSE {m \in ContextChain[n] :
            \/ m = 0
            \/ keep /\ m \in BeforeLatest(n) /\ BeforeLatest(n) \subseteq ContextChain[m]
            \/ LatestCompact(n) \in ContextChain[m]}

Parts(nodes) == UNION {{n} \X (0..Len(rounds[n])) : n \in nodes}

(* _prepare_messages_for_api_with_conversation: which parts a model is told,
   the parts themselves and those a summary stands for.  Sent says how often and
   ShownBefore in which order. *)
Told(n, keep) ==
    Parts(Cut(n, keep)) \cup UNION {folded[c] : c \in Cut(n, keep) \cap Compacts}

Numbered(n) == {i \in DOMAIN rounds[n] : rounds[n][i] # Loose}

(* The calls without a message are collected; a node without any round message
   then adds its whole tool history, the same calls again. *)
Copies(n) == IF Numbered(n) = {} THEN {1, 2} ELSE {1}
Sent(n) == (DOMAIN rounds[n]) \X Copies(n)

(* What is sent of a node, as pairs of a part and a copy: the rounds by their
   index, then the collected calls, all of them once and then again.  Of calls
   that a crash left in two runs each keeps its place in its run only, so that they
   may mix (call_index starts again with every run): this order leaves that out. *)
ShownBefore(n, x, y) ==
    \/ x[1] \in Numbered(n) /\ y[1] \notin Numbered(n)
    \/ {x[1], y[1]} \subseteq Numbered(n) /\ rounds[n][x[1]] < rounds[n][y[1]]
    \/ /\ rounds[n][x[1]] = rounds[n][y[1]]
       /\ x[2] < y[2] \/ (x[2] = y[2] /\ x[1] < y[1])

(* get_descendant_node_ids of the children of n *)
Below(n) == {m \in Placed \ {n} : n \in ContextChain[m]}

(* prune_summaries_by_node *)
LatestFirst(m) == Reverse(prunes[m])

(* _latest_prune_summary_for_context: the latest that covers no node of the
   chain as it was cut *)
Applies(covered, n) == covered \cap Cut(n, TRUE) = {}
Pruned(m, n) ==
    LET usable == SelectSeq(LatestFirst(m), LAMBDA covered : Applies(covered, n))
    IN  IF usable = <<>> THEN {} ELSE Head(usable)

-----------------------------------------------------------------------------
(* Turns *)

(* _create_turn_node; the parent may still be at work. *)
BeginTurn(p) ==
    /\ p \in Placed
    /\ \E n \in FreshPlace : above' = [above EXCEPT ![n] = p] /\ begun' = [begun EXCEPT ![n] = 0]
    /\ UNCHANGED <<rounds, folded, read, reading, prunes, covering, crashed>>

(* A turn that has ended goes on in its node: after a failure, or a decision on
   its plan. *)
ContinueTurn(n) ==
    /\ n \in Placed \ (Running \cup Compacts \cup {0})
    /\ Len(rounds[n]) < MaxParts
    /\ begun' = [begun EXCEPT ![n] = Len(rounds[n])]
    /\ UNCHANGED <<above, rounds, folded, read, reading, prunes, covering, crashed>>

(* A round with a call, which has its row at once. *)
SayPart(n) ==
    /\ n \in Running /\ Len(rounds[n]) < MaxParts
    /\ rounds' = [rounds EXCEPT ![n] = Append(@, Loose)]
    /\ UNCHANGED <<above, begun, folded, read, reading, prunes, covering, crashed>>

(* The rounds of a run are numbered after those of the runs before it. *)
FirstRound(n) ==
    IF Numbered(n) = {} THEN 0
    ELSE 1 + rounds[n][CHOOSE i \in Numbered(n) : \A j \in Numbered(n) : rounds[n][j] =< rounds[n][i]]

(* _finalize_assistant_turn and persist_assistant_turn *)
EndTurn(n) ==
    /\ n \in Running
    /\ rounds' = [rounds EXCEPT ![n] =
          [i \in DOMAIN @ |-> IF i > begun[n] THEN FirstRound(n) + i - begun[n] - 1 ELSE @[i]]]
    /\ begun' = [begun EXCEPT ![n] = Absent]
    /\ UNCHANGED <<above, folded, read, reading, prunes, covering, crashed>>

(* What was said so far keeps its rows, its calls have no message. *)
Crash ==
    /\ ~ crashed /\ crashed' = TRUE
    /\ begun' = [n \in ContextNodes |-> Absent]
    /\ reading' = {} /\ covering' = {}
    /\ UNCHANGED <<above, rounds, folded, read, prunes>>

-----------------------------------------------------------------------------
(* Compaction *)

\* mutated form: what the chain keeps as it is does not go into the summary.
ToSummariseLessKept(p) == Told(p, FALSE) \ Parts({p})

(* messages_to_summarize: with include_messages_to_keep=False *)
ToSummarise(p) == Told(p, FALSE)

(* compact_conversation up to its lock, by command or before a turn; a turn that
   is at work in the parent itself refuses it. *)
BeginCompaction(p) ==
    /\ reading = {} /\ FreshPlace # {}
    /\ p \in Placed \ Running
    /\ reading' = {[parent |-> p, folded |-> ToSummarise(p), read |-> Parts(ContextChain[p])]}
    /\ UNCHANGED <<above, rounds, begun, folded, read, prunes, covering, crashed>>

Entered(f, n, value) == [m \in DOMAIN f \cup {n} |-> IF m = n THEN value ELSE f[m]]

(* create_compact_node, the boundary and the summary *)
EndCompaction ==
    /\ \E r \in reading, n \in FreshPlace :
          /\ above' = [above EXCEPT ![n] = r.parent]
          /\ folded' = Entered(folded, n, r.folded)
          /\ read' = Entered(read, n, r.read)
    /\ reading' = {}
    /\ UNCHANGED <<rounds, begun, prunes, covering, crashed>>

-----------------------------------------------------------------------------
(* Prune summaries *)

(* build_prune_packets, in the thread; every branch below p is covered. *)
BeginPrune(p) ==
    /\ covering = {} /\ p \in Placed /\ Below(p) # {}
    /\ covering' = {[parent |-> p, covered |-> Below(p)]}
    /\ UNCHANGED <<above, rounds, begun, folded, read, reading, prunes, crashed>>

EndPrune ==
    /\ \E r \in covering :
          /\ Len(prunes[r.parent]) < MaxPrunes
          /\ prunes' = [prunes EXCEPT ![r.parent] = Append(@, r.covered)]
    /\ covering' = {}
    /\ UNCHANGED <<above, rounds, begun, folded, read, reading, crashed>>

-----------------------------------------------------------------------------
ContextInit ==
    /\ above = [n \in ContextNodes |-> Absent]
    /\ rounds = [n \in ContextNodes |-> <<>>]
    /\ begun = [n \in ContextNodes |-> Absent]
    /\ folded = <<>> /\ read = <<>> /\ reading = {}
    /\ prunes = [n \in ContextNodes |-> <<>>] /\ covering = {}
    /\ crashed = FALSE

ContextNext ==
    \/ \E n \in ContextNodes : BeginTurn(n) \/ ContinueTurn(n) \/ SayPart(n) \/ EndTurn(n)
                                \/ BeginCompaction(n) \/ BeginPrune(n)
    \/ EndCompaction \/ EndPrune \/ Crash

ContextSpec == ContextInit /\ [][ContextNext]_contextVars

-----------------------------------------------------------------------------
(* Properties *)

(* The parts of a chain that were said above a compact node after its summary
   was begun: by a turn that was at work while a later one was compacted, or by
   the continuation of an earlier one. *)
Late(n) ==
    LET higher(c) == Parts(ContextChain[above[c]])
    IN  UNION {higher(c) \ read[c] : c \in ContextChain[n] \cap Compacts}

(* Compaction forgets nothing: a model is told every part of its chain, as it
   is or by a summary that is shown, unless the part came too late for the
   compaction that hides it. *)
NothingForgotten ==
    \A n \in Placed : Parts(ContextChain[n]) \subseteq Told(n, TRUE) \cup Late(n)

(* Without a crash the rows of a node tell its parts in the order in which they
   were said, however often the turn was continued, and none of them twice, but
   for a node at work in its first run: a turn below it is told its calls so far
   in their order and then all of them again. *)
ToldInOrder ==
    ~ crashed =>
        \A n \in Placed : \A x, y \in Sent(n) :
            /\ x[1] < y[1] /\ x[2] = y[2] => ShownBefore(n, x, y)
            /\ x[1] = y[1] /\ x # y => begun[n] = 0

(* A model is told every part of its chain, but those that came too late for a
   compaction, and those of a node in their order; once, but for the calls of a
   first run that is not over. *)
ToldWhole == NothingForgotten /\ ToldInOrder

(* A model is not told a branch twice: a prune summary that is shown to it
   covers no node of its own chain.  The test in test/test_prune_summary.py asks
   this of a continued branch; a compaction takes covered nodes out of the chain
   the code compares with. *)
PrunedApart ==
    \A n \in Placed : \A m \in Cut(n, TRUE) : Pruned(m, n) \cap ContextChain[n] = {}
=============================================================================
