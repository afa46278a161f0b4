--------------------------- MODULE ConversationTree ---------------------------
(***************************************************************************)
(* A conversation: a tree of nodes with messages, the node that is         *)
(* current, and everything that changes it at the same time: chat turns,   *)
(* which reload it when they start and when they end, slash commands,      *)
(* compaction, prune summaries, and users who switch and delete            *)
(* (core/chat/conversation.py, persistence/repository.py,                  *)
(* chat/chat_manager.py, api/routes/conversations.py, api/routes/          *)
(* messages.py).                                                           *)
(*                                                                         *)
(* Every critical section under _lock_for awaits nothing, so it is one     *)
(* step; what happens between the sections of a turn, between the check    *)
(* and the effect of a forced deletion and while a summary is generated    *)
(* in its thread is interleaved.  Deleted rows go by foreign keys.         *)
(*                                                                         *)
(* Not covered: titles, models and usage of a conversation, the text of    *)
(* messages, a crash inside the two transactions that make a node.         *)
(***************************************************************************)
EXTENDS Integers, FiniteSets

CONSTANTS
    Turns,     \* producers of chat runs, one turn each
    None,
    LastNode   \* bound: nodes 0 .. LastNode, where 0 is the root

ASSUME TreeAssumption == LastNode \in Nat /\ None \notin Nat

Nodes == 0..LastNode

VARIABLES
    conv,     \* the row of the conversation
    present,  \* the rows of nodes
    under,    \* the parent of every node ever made
    said,     \* the messages of each node
    turn,     \* the chat turns and their runs
    command,  \* a run without target that is anchored at a node
    deletion, \* the request to delete a branch
    pruning,  \* the request for a prune summary
    made

vars == <<conv, present, under, said, turn, command, deletion, pruning, made>>

-----------------------------------------------------------------------------
(* The tree *)

(* get_node_chain: n, and the parent of every node of the chain *)
Chain(n) ==
    {m \in Nodes : \A S \in SUBSET Nodes :
        n \in S /\ (\A x \in S : under[x] \in S \cup {None}) => m \in S}

(* get_descendant_node_ids *)
Subtree(n) == {m \in present : n \in Chain(m)}

(* from_dict: without its root a conversation does not load. *)
Loads == conv.exists /\ conv.root # None /\ conv.root \in present

(* A current node that is gone is read as the root. *)
Current == IF conv.current \in present THEN conv.current ELSE conv.root

Fresh == made + 1

(* add_node, save and persist_user_turn: a new node under p *)
Added(p, focus, messages) ==
    /\ Fresh <= LastNode
    /\ made' = Fresh
    /\ present' = present \cup {Fresh}
    /\ under' = [under EXCEPT ![Fresh] = p]
    /\ said' = [said EXCEPT ![Fresh] = messages]
    /\ conv' = [conv EXCEPT !.current = IF focus THEN Fresh ELSE Current]

(* del_node and the repository's delete_node: the branch goes; only when n
   itself was current its parent is.  Rows of runs lose a deleted target. *)
Deleted(n) ==
    /\ present' = present \ Subtree(n)
    /\ said' = [m \in Nodes |-> IF m \in Subtree(n) THEN {} ELSE said[m]]
    /\ conv' = [conv EXCEPT !.current = IF Current = n THEN under[n] ELSE Current,
                            !.root = IF n = conv.root THEN None ELSE @]
    /\ turn' = [t \in Turns |-> IF turn[t].node \in Subtree(n) THEN [turn[t] EXCEPT !.bound = FALSE] ELSE turn[t]]

-----------------------------------------------------------------------------
(* Chat turns *)

NoCommand == [node |-> None, status |-> "none"]
FreshTurn == [pc |-> "idle", node |-> None, snapshot |-> None, bound |-> FALSE]
Writing == {"made", "streaming"}
Unfinished == {"made", "streaming", "saved", "lost"}

(* _create_turn_node, after the conversation and the parent were checked.
   snapshot is the current node of the conversation as the turn loaded it. *)
StartTurn(t, p, focus) ==
    /\ turn[t].pc = "idle" /\ Loads /\ p \in present
    /\ Added(p, focus, {"user"})
    /\ turn' = [turn EXCEPT ![t] = [FreshTurn EXCEPT !.pc = "made", !.node = Fresh, !.snapshot = conv'.current]]
    /\ UNCHANGED <<command, deletion, pruning>>

(* The continuation of a node: no new node, and it becomes current. *)
ContinueNode(t, p) ==
    /\ turn[t].pc = "idle" /\ Loads /\ p \in present /\ "user" \in said[p]
    /\ \A u \in Turns : turn[u].node = p => turn[u].pc \notin Unfinished
    /\ conv' = [conv EXCEPT !.current = p]
    /\ turn' = [turn EXCEPT ![t] = [FreshTurn EXCEPT !.pc = "made", !.node = p, !.snapshot = p]]
    /\ UNCHANGED <<present, under, said, command, deletion, pruning, made>>

(* bind_target_node, when the first chunk is consumed *)
BindTarget(t) ==
    /\ turn[t].pc = "made"
    /\ turn' = [turn EXCEPT ![t].pc = IF turn[t].node \in present THEN "streaming" ELSE "lost",
                            ![t].bound = turn[t].node \in present]
    /\ UNCHANGED <<conv, present, under, said, command, deletion, pruning, made>>

(* ensure_branch *)
Restored(n) == Chain(n)

(* mutated form: the answer is persisted only for the current node *)
AnsweredIfCurrent(n) == IF Current = n THEN [said EXCEPT ![n] = @ \cup {"answer"}] ELSE said

(* persist_assistant_turn *)
Answered(n) == [said EXCEPT ![n] = @ \cup {"answer"}]

(* _finalize_assistant_turn, reloading the conversation *)
Finalize(t) ==
    /\ turn[t].pc = "streaming" /\ Loads /\ turn[t].node \in present
    /\ said' = Answered(turn[t].node)
    /\ turn' = [turn EXCEPT ![t].pc = "saved"]
    /\ UNCHANGED <<conv, present, under, command, deletion, pruning, made>>

(* The node or the conversation was deleted: the loaded copy is saved, that
   is the branch of its current node and the row of the conversation; the
   answer goes to the node if that made it again, and is lost otherwise. *)
FinalizeDeleted(t) ==
    /\ turn[t].pc = "streaming" /\ turn[t].node \notin present
    /\ ~conv.exists \/ Loads
    /\ present' = present \cup Restored(turn[t].snapshot)
    /\ conv' = [exists |-> TRUE, root |-> 0, current |-> turn[t].snapshot]
    /\ IF turn[t].node \in present'
       THEN said' = Answered(turn[t].node) /\ turn' = [turn EXCEPT ![t].pc = "saved"]
       ELSE turn' = [turn EXCEPT ![t].pc = "lost"] /\ UNCHANGED said
    /\ UNCHANGED <<under, command, deletion, pruning, made>>

(* A tool call of a node that is gone, or a conversation that does not load,
   ends a turn unsaved; streamed events alone notice nothing. *)
TurnFails(t) ==
    /\ turn[t].pc = "streaming" /\ turn[t].node \notin present
    /\ turn' = [turn EXCEPT ![t].pc = "lost"]
    /\ UNCHANGED <<conv, present, under, said, command, deletion, pruning, made>>

FinishRun(t) ==
    /\ turn[t].pc \in {"saved", "lost"}
    /\ turn' = [turn EXCEPT ![t] = IF turn[t].pc = "saved" THEN [@ EXCEPT !.pc = "done"]
                                   ELSE [FreshTurn EXCEPT !.pc = "failed"]]
    /\ UNCHANGED <<conv, present, under, said, command, deletion, pruning, made>>

-----------------------------------------------------------------------------
(* Slash commands, compaction and summaries *)

(* create_visible_user_anchor_node *)
CreateAnchor(p) ==
    /\ Loads /\ p \in present
    /\ Added(p, TRUE, {"user"})
    /\ UNCHANGED <<turn, command, deletion, pruning>>

(* A command, sub-agent, workflow or direct answer that was anchored at n:
   its run has no target.  Messages of direct answers are left out. *)
AnchoredRunFinishes(n) ==
    /\ Loads /\ n \in present /\ command.status = "none"
    /\ command' = [node |-> n, status |-> "finished"]
    /\ UNCHANGED <<conv, present, under, said, turn, deletion, pruning, made>>

(* compact_conversation; refused while the node has a controller *)
Compact(p, focus) ==
    /\ Loads /\ p \in present
    /\ \A t \in Turns : turn[t].node = p => turn[t].pc \notin Writing
    /\ Added(p, focus, {"summary"})
    /\ UNCHANGED <<turn, command, deletion, pruning>>

StartPrune(n) ==
    /\ pruning = None /\ Loads /\ n \in present /\ "summary" \notin said[n]
    /\ pruning' = n
    /\ UNCHANGED <<conv, present, under, said, turn, command, deletion, made>>

(* Back from the thread: the conversation is loaded again. *)
PruneSaved ==
    /\ pruning # None
    /\ said' = IF Loads /\ pruning \in present THEN [said EXCEPT ![pruning] = @ \cup {"summary"}] ELSE said
    /\ pruning' = None
    /\ UNCHANGED <<conv, present, under, turn, command, deletion, made>>

SwitchNode(n) ==
    /\ Loads /\ n \in present /\ n # conv.current
    /\ conv' = [conv EXCEPT !.current = n]
    /\ UNCHANGED <<present, under, said, turn, command, deletion, pruning, made>>

-----------------------------------------------------------------------------
(* Deletions *)

(* active_runs_for_targets: unfinished runs whose row has its target in ids *)
ActiveIn(ids) == {t \in Turns : turn[t].bound /\ turn[t].node \in ids /\ turn[t].pc \in Unfinished}

(* delete_runs_for_deleted_nodes: finished runs of the branch, and all
   finished runs that have no target *)
Swept == command' = IF command.status = "finished" THEN [command EXCEPT !.status = "swept"] ELSE command

DeleteBranch(n) ==
    /\ deletion = None /\ Loads /\ n \in present
    /\ ActiveIn(Subtree(n)) = {}
    /\ Deleted(n) /\ Swept
    /\ UNCHANGED <<under, deletion, pruning, made>>

(* With force the active runs are asked to stop and awaited. *)
ForceDelete(n) ==
    /\ deletion = None /\ Loads /\ n \in present
    /\ ActiveIn(Subtree(n)) # {}
    /\ deletion' = n
    /\ UNCHANGED <<conv, present, under, said, turn, command, pruning, made>>

(* The runs ended, or ten seconds passed. *)
DeleteWaited ==
    /\ deletion # None
    /\ deletion' = None
    /\ IF Loads /\ deletion \in present
       THEN Deleted(deletion) ELSE UNCHANGED <<conv, present, said, turn>>
    /\ IF Loads THEN Swept ELSE UNCHANGED command
    /\ UNCHANGED <<under, pruning, made>>

ConversationGone ==
    /\ present' = {} /\ conv' = [exists |-> FALSE, root |-> None, current |-> None]
    /\ said' = [n \in Nodes |-> {}]
    /\ turn' = [t \in Turns |-> [turn[t] EXCEPT !.bound = FALSE]]
    /\ command' = NoCommand
    /\ UNCHANGED <<under, deletion, pruning, made>>

(* The route asks nobody whether a turn is running. *)
DeleteConversation == conv.exists /\ ConversationGone

(* The project's routes only ask the runs of a conversation to stop; they
   delete a conversation without any. *)
ActiveRuns == {t \in Turns : turn[t].pc \in Unfinished}

DeleteProject == conv.exists /\ ActiveRuns = {} /\ ConversationGone

-----------------------------------------------------------------------------

Init ==
    /\ conv = [exists |-> TRUE, root |-> 0, current |-> 0]
    /\ present = {0} /\ under = [n \in Nodes |-> None] /\ said = [n \in Nodes |-> {}]
    /\ turn = [t \in Turns |-> FreshTurn]
    /\ command = NoCommand
    /\ deletion = None /\ pruning = None /\ made = 0

Turn(t) ==
    \/ \E p \in Nodes, focus \in BOOLEAN : StartTurn(t, p, focus)
    \/ \E p \in Nodes : ContinueNode(t, p)
    \/ BindTarget(t)
    \/ Finalize(t) \/ FinalizeDeleted(t) \/ TurnFails(t) \/ FinishRun(t)

Next ==
    \/ \E t \in Turns : Turn(t)
    \/ \E n \in Nodes :
          \/ CreateAnchor(n) \/ AnchoredRunFinishes(n) \/ StartPrune(n) \/ SwitchNode(n)
          \/ Compact(n, TRUE) \/ Compact(n, FALSE)
          \/ DeleteBranch(n) \/ ForceDelete(n)
    \/ PruneSaved \/ DeleteWaited \/ DeleteConversation \/ DeleteProject

Spec == Init /\ [][Next]_vars

-----------------------------------------------------------------------------
(* Properties *)

(* _finalize_assistant_turn: saved before [DONE].  The answer of a turn
   whose run completed is in the conversation as long as its row has its
   target, whatever branches around it come and go. *)
SavedBeforeDone ==
    \A t \in Turns : turn[t].pc \in {"saved", "done"} /\ turn[t].bound => "answer" \in said[turn[t].node]

(* Deleting a branch keeps the finished runs of other nodes
   (test_sqlite_run_repository.py). *)
OutsideRunsKept == command.status = "swept" => command.node \notin present
=============================================================================
