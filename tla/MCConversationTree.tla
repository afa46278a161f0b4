------------------------- MODULE MCConversationTree -------------------------
(* Instances of ConversationTree, of what a model is told of its chain
   (ModelContext) and of the transcript of one of its nodes.  They share no
   state, so a behaviour looks at one of them: focus says at which, "tree",
   "context", or the transcript with "runs", a turn and its continuation seen by one
   page; "pages", a turn seen by two pages; "losses", lost connections, late
   snapshots and a restart.  The turns are interchangeable, and the pages. *)
EXTENDS ConversationTree, Transcript, ModelContext, TLC

CONSTANTS p1, p2

VARIABLE focus

Symmetry == Permutations(Turns) \cup Permutations({p1, p2})

OneTurn == status'[2] = "none" /\ \A i \in DOMAIN log'[1] : log'[1][i] # "usage"
AskOnce == \A p \in {p1, p2} : count'.asked[p] =< 1
NoStop == \A r \in DOMAIN status : status'[r] # "stopping"
OnePage == ~ page'[p2].open

Within ==
    \/ focus = "runs" /\ OnePage /\ NoStop /\ faults' = {}
    \/ focus = "pages" /\ OneTurn /\ NoStop /\ AskOnce /\ count'.bumps = 0
          /\ faults' \subseteq {"tab", "late"}
    \/ focus = "losses" /\ OnePage /\ OneTurn /\ AskOnce /\ count'.bumps = 0
          /\ faults' \subseteq {"late", "lost", "ahead", "restart"}

(* bound: four parts in all; prune summaries are about branches, so that nothing
   is said where one is made. *)
ContextStep ==
    /\ ContextNext
    /\ MapThenSumSet(LAMBDA x : Len(rounds'[x]), ContextNodes) <= 4
    /\ (covering' # {} \/ \E n \in ContextNodes : prunes'[n] # <<>>)
         => \A n \in ContextNodes : rounds'[n] = <<>>

MCInit ==
    /\ focus \in {"tree", "context", "runs", "pages", "losses"}
    /\ Init /\ ContextInit /\ TranscriptInit

MCNext ==
    /\ UNCHANGED focus
    /\ \/ focus = "tree" /\ Next /\ UNCHANGED <<contextVars, transcriptVars>>
       \/ focus = "context" /\ ContextStep /\ UNCHANGED <<vars, transcriptVars>>
       \/ focus \notin {"tree", "context"} /\ TranscriptNext /\ Within /\ UNCHANGED <<vars, contextVars>>

MCSpec == MCInit /\ [][MCNext]_<<vars, contextVars, transcriptVars, focus>>
=============================================================================
