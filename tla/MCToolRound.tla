---------------------------- MODULE MCToolRound ----------------------------
(* Instances of the parts of a chat turn for TLC: the calls of a round
   (ToolRound), the turn (ChatTurn) and a model provider (ProviderStream).  The
   turn is checked with what ModelStream promises, the provider is shown to keep
   that promise, and a round of the turn is what ToolRound says of one call, so
   that they share no state and a behaviour looks at one of them: focus says at
   which.  The others rest in a state in which none of their fair steps is
   enabled. *)
EXTENDS ToolRound, ChatTurn

CONSTANTS
    chat, agent, a, b, c, d, e, reader, shell, node,
    Protocols, BaseUrl, MaxRetries, MaxPieces

VARIABLES
    focus,
    protocol, variant, failures, phase, upstream, known, output, collected, finish,
    shown, ending, retryable, hushed, uttered, attempts

Provider == INSTANCE ProviderStream
    WITH tools <- collected, text <- shown, outcome <- ending, requests <- attempts,
         stopped <- hushed, said <- uttered

providerVars ==
    <<protocol, variant, failures, phase, upstream, known, output, collected, finish,
      shown, ending, retryable, hushed, uttered, attempts>>

\* A chat turn makes two calls at once and then two more, one after the other;
\* the last one may profit from an approval of the first.  A sub-agent on the
\* same node has a call of that tool for which no grant counts.
MCCallsOf == [r \in Rounds |-> IF r = chat THEN <<a, b, c, d>> ELSE <<e>>]
MCRoundOf == [x \in Calls |-> IF x = e THEN agent ELSE chat]
MCKind == [r \in Rounds |-> IF r = chat THEN "chat" ELSE "sub-agent"]
MCNodeOf == [r \in Rounds |-> node]
MCToolOf == [x \in Calls |-> IF x \in {a, d, e} THEN reader ELSE shell]
MCPermission ==
    [x \in Calls |-> CASE x \in {a, d} -> "ask" [] x = b -> "allow" [] x = c -> "deny" [] x = e -> "always ask"]

\* Rounds that are over, where another part is looked at
AtRest ==
    /\ round = [r \in Rounds |-> "over"] /\ wave = [r \in Rounds |-> 1]
    /\ call = [x \in Calls |-> "cancelled"]
    /\ request = [x \in Calls |-> "none"] /\ waiter = request /\ result = request /\ told = request
    /\ stopped = {} /\ granted = {} /\ ran = {}

MCInit ==
    /\ focus \in {"tools", "turn", "provider"}
    /\ IF focus = "tools" THEN Init ELSE AtRest
    /\ TurnInit /\ Provider!Init /\ (focus # "provider" => protocol = "chat")

MCNext ==
    /\ UNCHANGED focus
    /\ \/ focus = "tools" /\ Next /\ UNCHANGED <<turnVars, providerVars>>
       \/ focus = "turn" /\ TurnNext /\ UNCHANGED <<vars, providerVars>>
       \/ focus = "provider" /\ Provider!Next /\ UNCHANGED <<vars, turnVars>>

MCSpec ==
    /\ MCInit /\ [][MCNext]_<<vars, turnVars, providerVars, focus>>
    /\ Fairness /\ TurnFairness /\ Provider!Fairness

(* Providers: the turn sees one answer and one end, whatever is tried again, and a
   stop brings the end. *)
OneAnswer == Provider!OneAnswer
=============================================================================
