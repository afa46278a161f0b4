------------------------------ MODULE ModelStream ------------------------------
(***************************************************************************)
(* What a chat turn may expect of a model: the pieces of one answer, each  *)
(* once and in order, and then one terminal chunk with nothing after it    *)
(* (generate_response_stream of backend/core/model/base.py).  Nothing is   *)
(* promised about when, or whether, an answer comes to its end that nobody *)
(* stops.                                                                  *)
(***************************************************************************)
EXTENDS Naturals, Sequences

VARIABLES
    text,     \* the pieces of the answer that were shown, by their numbers
    outcome,  \* the status of the terminal chunk
    stopped   \* the controller of the stream is set

vars == <<text, outcome, stopped>>

Outcomes == {"complete", "error", "stopped"}

Init == text = <<>> /\ outcome = "open" /\ stopped = FALSE

Show ==
    /\ outcome = "open"
    /\ text' = Append(text, Len(text) + 1)
    /\ UNCHANGED outcome

\* What goes wrong after a stop is not an error any more.
End(status) ==
    /\ outcome = "open"
    /\ status = "error" => ~stopped
    /\ outcome' = status
    /\ UNCHANGED text

Stop == stopped' = TRUE /\ UNCHANGED <<text, outcome>>

Next ==
    \/ Show /\ UNCHANGED stopped
    \/ \E status \in Outcomes : End(status) /\ UNCHANGED stopped
    \/ Stop

Safe == Init /\ [][Next]_vars

\* A stopped model ends its answer.
Spec == Safe /\ WF_vars(stopped /\ UNCHANGED stopped /\ \E status \in Outcomes : End(status))
=============================================================================
