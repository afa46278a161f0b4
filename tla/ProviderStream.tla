----------------------------- MODULE ProviderStream -----------------------------
(***************************************************************************)
(* One call of generate_response_stream of the model providers: the        *)
(* requests it makes until an answer has come through, with fewer          *)
(* parameters or after a delay, and the chunks it yields meanwhile         *)
(* (backend/core/model/providers/openai_compatible.py, with two protocols, *)
(* anthropic_provider.py, gemini_provider.py, sse.py, retry.py).           *)
(*                                                                         *)
(* The upstream sends pieces of text and of tool calls, may say that it has*)
(* finished and for which reason, and the connection ends or fails at any  *)
(* moment.  A request that names an earlier response continues its answer, *)
(* as test_stream_recovery.py has it; any other starts a new one.          *)
(*                                                                         *)
(* Not covered: usage, the items that carry a model's state, the probes    *)
(* that find out the protocol and base URL of an endpoint.                 *)
(***************************************************************************)
EXTENDS Naturals, Sequences

CONSTANTS
    Protocols,    \* those of AllProtocols that are looked at
    BaseUrl,      \* those whose provider has a base URL in its configuration
    MaxRetries,   \* max_stream_retries
    MaxPieces     \* bound: the length of an answer

\* The protocols of the providers
AllProtocols == {"chat", "responses", "anthropic", "gemini"}

VARIABLES
    protocol,
    variant,   \* the index of the parameters in use
    failures,  \* retry_failures
    phase,     \* "streaming", or "delay" before a retry
    upstream,  \* the response that is being read
    known,     \* last_response_id is set
    output,    \* attempt_had_output
    tools,     \* tool calls have been collected
    finish,    \* finish_reason
    text,
    outcome,
    retryable, \* the metadata of the error chunk
    stopped,   \* the stream controller
    said,      \* the reasons for which an upstream said it had finished
    requests   \* number of requests made

request == <<variant, failures, phase, upstream, known, output, tools, finish, requests>>
chunks == <<text, outcome, retryable>>
vars == <<protocol, request, chunks, stopped, said>>

-----------------------------------------------------------------------------
(* Helpers *)

OpenAI == protocol \in {"chat", "responses"}

\* All parameters; without temperature, which is left out only where there is
\* a base URL; without stream_options.
Variants ==
    1 + (IF OpenAI /\ protocol \in BaseUrl THEN 1 ELSE 0) + (IF protocol = "chat" THEN 1 ELSE 0)

Streaming == outcome = "open" /\ phase = "streaming"

NewResponse(first) == [begun |-> FALSE, sent |-> first, finished |-> FALSE]

Ends(status, again) ==
    /\ outcome' = status /\ retryable' = again
    /\ UNCHANGED <<protocol, request, text, stopped, said>>

Stops == Ends("stopped", FALSE)

\* The OpenAI streams ask at every event whether they were stopped, the
\* others only before they show text.
HearsStop(kind) == stopped /\ (OpenAI \/ kind = "text")

-----------------------------------------------------------------------------
(* Events of the upstream *)

\* response.created
Created ==
    /\ Streaming /\ protocol = "responses" /\ ~upstream.begun
    /\ IF stopped THEN Stops
       ELSE /\ upstream' = [upstream EXCEPT !.begun = TRUE]
            /\ known' = TRUE
            /\ UNCHANGED <<protocol, variant, failures, phase, output, tools, finish, requests, chunks, stopped, said>>

\* Text, reasoning, or a piece of a tool call
Piece(kind) ==
    /\ Streaming /\ ~upstream.finished /\ upstream.sent < MaxPieces
    /\ protocol = "responses" => upstream.begun
    /\ IF HearsStop(kind) THEN Stops
       ELSE /\ text' = Append(text, upstream.sent + 1)
            /\ upstream' = [upstream EXCEPT !.begun = TRUE, !.sent = @ + 1]
            /\ output' = TRUE
            /\ tools' = (tools \/ kind = "tool")
            /\ UNCHANGED <<protocol, variant, failures, phase, known, finish, requests, outcome, retryable, stopped, said>>

\* finish_reason, response.completed or .incomplete, message_delta, finishReason
Finish(reason) ==
    /\ Streaming /\ ~upstream.finished
    /\ protocol = "responses" => upstream.begun
    /\ IF HearsStop("finish") THEN Stops
       ELSE /\ upstream' = [upstream EXCEPT !.begun = TRUE, !.finished = TRUE]
            /\ finish' = reason
            /\ said' = said \cup {reason}
            /\ UNCHANGED <<protocol, variant, failures, phase, known, output, tools, requests, chunks, stopped>>

-----------------------------------------------------------------------------
(* Failures and retries *)

Http == {"bad_request", "busy", "refused"}
Retryable(failure) == failure \in {"busy", "network"}

\* mutated form: a stream that has shown something is retried all the same
RepeatsAlways(failure) == Retryable(failure) /\ failures < MaxRetries

\* Only a responses stream that broke off goes on after it has shown something.
Repeats(failure) ==
    /\ Retryable(failure) /\ failures < MaxRetries
    /\ ~output \/ (protocol = "responses" /\ failure = "network")

FewerParameters(failure) == failure = "bad_request" /\ variant < Variants /\ ~output

\* What an attempt starts with.  The chat stream keeps its finish reason, the
\* anthropic stream its finish reason and tool calls.
Request(first) ==
    /\ phase' = "streaming" /\ requests' = requests + 1
    /\ upstream' = NewResponse(first)
    /\ output' = FALSE
    /\ finish' = IF protocol \in {"chat", "anthropic"} THEN finish ELSE "none"
    /\ tools' = (protocol \in {"chat", "anthropic"} /\ tools)

Failed(failure) ==
    IF stopped THEN Stops
    ELSE \/ /\ FewerParameters(failure)
            /\ variant' = variant + 1 /\ failures' = 0 /\ known' = FALSE
            /\ Request(0)
            /\ UNCHANGED <<protocol, chunks, stopped, said>>
         \/ /\ ~FewerParameters(failure) /\ Repeats(failure)
            /\ failures' = failures + 1 /\ phase' = "delay"
            /\ UNCHANGED <<protocol, variant, upstream, known, output, tools, finish, requests, chunks, stopped, said>>
         \/ /\ ~FewerParameters(failure) /\ ~Repeats(failure)
            /\ Ends("error", Retryable(failure))

\* An HTTP status, before anything else is read; a timeout or a lost
\* connection; an error of another kind.
RequestFails(failure) ==
    /\ Streaming
    /\ failure \in Http => ~upstream.begun
    /\ Failed(failure)

\* previous_response_id goes with the parameters once it is known.
Retry ==
    /\ outcome = "open" /\ phase = "delay"
    /\ Request(IF known THEN upstream.sent ELSE 0)
    /\ UNCHANGED <<protocol, variant, failures, known, chunks, stopped, said>>

-----------------------------------------------------------------------------
(* The end *)

Reason ==
    IF tools /\ finish \in {"none", "stop"} THEN "tool_calls"
    ELSE IF finish = "none" THEN "unknown" ELSE finish

Completes ==
    /\ outcome' = "complete" /\ finish' = Reason
    /\ UNCHANGED <<protocol, variant, failures, phase, upstream, known, output, tools, requests, text, retryable, stopped, said>>

\* The OpenAI streams take an end without a word for a lost connection.
ConnectionEnds ==
    /\ Streaming
    /\ IF OpenAI /\ finish = "none" /\ ~output THEN Failed("network") ELSE Completes

\* _await_or_stop, every 50 ms in which nothing arrives
AwaitOrStop == Streaming /\ stopped /\ Stops

\* CancelledError, at any await, ends the stream like a stop.
Cancelled == outcome = "open" /\ Stops

Stop ==
    /\ ~stopped
    /\ stopped' = TRUE
    /\ UNCHANGED <<protocol, request, chunks, said>>

-----------------------------------------------------------------------------
Init ==
    /\ protocol \in Protocols \cap AllProtocols
    /\ variant = 1 /\ failures = 0 /\ phase = "streaming" /\ requests = 1
    /\ upstream = NewResponse(0) /\ known = FALSE
    /\ output = FALSE /\ tools = FALSE /\ finish = "none"
    /\ text = <<>> /\ outcome = "open" /\ retryable = FALSE
    /\ stopped = FALSE /\ said = {}

Next ==
    \/ Created
    \/ \E kind \in {"text", "tool"} : Piece(kind)
    \/ \E reason \in {"stop", "tool_calls", "length"} : Finish(reason)
    \/ \E failure \in Http \cup {"network", "other"} : RequestFails(failure)
    \/ Retry \/ ConnectionEnds \/ AwaitOrStop \/ Cancelled \/ Stop

\* The event loop runs the timers; nothing is assumed of the upstream.
Fairness == WF_vars(Retry) /\ WF_vars(AwaitOrStop)

Spec == Init /\ [][Next]_vars /\ Fairness

-----------------------------------------------------------------------------
(* Properties *)

\* The provider keeps what a turn expects: whatever breaks and is tried again,
\* the turn sees the pieces of one answer, none of them twice, and one end,
\* which is no error once the stream has been stopped.  A stop brings the end,
\* although the upstream is silent (test_provider_stream_stop.py: stop does not
\* wait for the network timeout).
Answer == INSTANCE ModelStream
OneAnswer == Answer!Spec
OneAnswerSafe == Answer!Safe

\* An answer that was cut off is not taken for one that was finished: the
\* provider says "stop" only if an upstream did.
StopWasSaid == outcome = "complete" /\ finish = "stop" => "stop" \in said
=============================================================================
