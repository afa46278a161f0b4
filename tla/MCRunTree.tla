----------------------------- MODULE MCRunTree -----------------------------
(* Instances of RunTree for TLC, by focus: "deep" trees with one agent and one
   command and two users, "wide" trees of at most three runs and one user.  The
   bounds concern the runs that are started and the stops that are asked for,
   of which no fairness is assumed. *)
EXTENDS RunTree

CONSTANTS b, d, v

VARIABLE focus

MCInit == focus \in {"deep", "wide"} /\ Init

MCNext ==
    /\ UNCHANGED focus
    /\ Next
    /\ focus = "deep" => status'[b] = "none" /\ status'[d] = "none"
    /\ focus = "wide" => Cardinality({r \in Runs : status'[r] # "none"}) <= 3 /\ v \in coming'

MCSpec == MCInit /\ [][MCNext]_<<vars, focus>> /\ Fairness
=============================================================================
