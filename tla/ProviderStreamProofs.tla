-------------------------- MODULE ProviderStreamProofs --------------------------
(***************************************************************************)
(* ProviderStream implements ModelStream, for any number of retries and any*)
(* length of an answer: whatever is tried again, a turn sees one answer.   *)
(*                                                                         *)
(* The piece that the upstream sends next is the one after those shown.    *)
(* That holds where a responses endpoint is used without a base URL of its *)
(* own; with one, a retry that names the earlier response and is refused as*)
(* a bad request begins the answer anew.                                   *)
(***************************************************************************)
EXTENDS ProviderStream, TLAPS

StreamType ==
    /\ protocol \in AllProtocols
    /\ variant \in Nat \ {0} /\ failures \in Nat
    /\ phase \in {"streaming", "delay"}
    /\ upstream \in [begun : BOOLEAN, sent : Nat, finished : BOOLEAN]
    /\ known \in BOOLEAN /\ output \in BOOLEAN /\ tools \in BOOLEAN /\ stopped \in BOOLEAN
    /\ text \in Seq(Nat)

\* A responses stream knows its response as soon as it has anything of it; the
\* others have nothing when they are tried again.
InStep ==
    /\ upstream.sent = Len(text)
    /\ protocol = "responses" => /\ upstream.begun \/ upstream.sent > 0 => known
                                 /\ variant = 1
    /\ protocol # "responses" => /\ ~known
                                 /\ ~output => upstream.sent = 0
    /\ phase = "delay" /\ ~known => upstream.sent = 0

StreamInv == StreamType /\ InStep

OwnUrl == "responses" \notin BaseUrl

\* The chunks are those of ModelStream.
Mapped == [Answer!Next]_<<text, outcome, stopped>>

LEMMA StreamInit == Init => StreamInv /\ Answer!Init
<1> SUFFICES ASSUME Init PROVE StreamInv /\ Answer!Init
  OBVIOUS
<1>1. upstream = [begun |-> FALSE, sent |-> 0, finished |-> FALSE]
  BY DEF Init, NewResponse
<1>2. text = <<>> /\ Len(text) = 0 /\ text \in Seq(Nat)
  BY DEF Init
<1>3. StreamType
  <2>1. known \in BOOLEAN /\ output \in BOOLEAN /\ tools \in BOOLEAN /\ stopped \in BOOLEAN
    BY Zenon DEF Init
  <2>2. protocol \in AllProtocols /\ phase \in {"streaming", "delay"}
    BY DEF Init
  <2>3. variant \in Nat \ {0} /\ failures \in Nat
    BY DEF Init
  <2>4. upstream \in [begun : BOOLEAN, sent : Nat, finished : BOOLEAN]
    BY <1>1
  <2> QED  BY <1>2, <2>1, <2>2, <2>3, <2>4 DEF StreamType
<1>4. InStep
  BY <1>1, <1>2 DEF Init, InStep
<1>5. Answer!Init
  BY DEF Init, Answer!Init
<1> QED  BY <1>3, <1>4, <1>5 DEF StreamInv

\* One end, of a stream that is open
LEMMA EndsOnce ==
  ASSUME StreamInv, outcome = "open", NEW status \in {"stopped", "error", "complete"}, status = "error" => ~stopped,
         outcome' = status,
         UNCHANGED <<protocol, variant, failures, phase, upstream, known, output, tools, text, stopped>>
  PROVE  StreamInv' /\ Mapped
<1>1. StreamInv'
  BY DEF StreamInv, StreamType, InStep
<1>2. Answer!End(status) /\ UNCHANGED stopped
  BY DEF Answer!End
<1>3. Answer!Next
  BY <1>2 DEF Answer!Next, Answer!Outcomes
<1> QED  BY <1>1, <1>3 DEF Mapped

LEMMA StopsOnce ==
  ASSUME StreamInv, outcome = "open", Stops
  PROVE  StreamInv' /\ Mapped
BY EndsOnce DEF Stops, Ends, request

\* A new request goes on with the next piece.
LEMMA RequestInStep ==
  ASSUME StreamInv, NEW first \in Nat, Request(first), first = Len(text),
         variant' \in Nat \ {0}, failures' \in Nat, known' \in BOOLEAN,
         protocol = "responses" => (first > 0 => known') /\ variant' = 1,
         protocol # "responses" => ~known' /\ first = 0,
         UNCHANGED <<protocol, chunks, stopped>>
  PROVE  StreamInv' /\ Mapped
<1>1. /\ upstream' = [begun |-> FALSE, sent |-> first, finished |-> FALSE]
      /\ phase' = "streaming" /\ output' = FALSE /\ tools' \in BOOLEAN
  BY DEF Request, NewResponse, StreamInv, StreamType
<1>2. text' = text /\ outcome' = outcome /\ stopped' = stopped /\ protocol' = protocol
  BY DEF chunks
<1> QED  BY <1>1, <1>2 DEF StreamInv, StreamType, InStep, Mapped

LEMMA FailedInStep ==
  ASSUME OwnUrl, StreamInv, Streaming, NEW failure, Failed(failure)
  PROVE  StreamInv' /\ Mapped
<1>1. outcome = "open" /\ phase = "streaming"
  BY DEF Streaming
<1>2. CASE stopped
  BY <1>1, <1>2, StopsOnce DEF Failed
<1>3. CASE /\ FewerParameters(failure)
           /\ variant' = variant + 1 /\ failures' = 0 /\ known' = FALSE
           /\ Request(0)
           /\ UNCHANGED <<protocol, chunks, stopped, said>>
  <2>1. protocol # "responses" /\ ~output
    BY <1>3 DEF FewerParameters, Variants, OwnUrl, OpenAI, StreamInv, StreamType, InStep
  <2>2. Len(text) = 0 /\ ~known
    BY <2>1 DEF StreamInv, InStep
  <2>3. variant' \in Nat \ {0}
    BY <1>3 DEF StreamInv, StreamType
  <2>4. failures' \in Nat /\ 0 = Len(text)
    BY <1>3, <2>2
  <2>5. known' \in BOOLEAN /\ ~known'
    BY <1>3
  <2>6. Request(0) /\ UNCHANGED <<protocol, chunks, stopped>>
    BY <1>3
  <2>7. 0 \in Nat /\ ~(0 > 0)
    OBVIOUS
  <2> QED  BY <2>1, <2>3, <2>4, <2>5, <2>6, <2>7, RequestInStep
<1>4. CASE /\ ~FewerParameters(failure) /\ Repeats(failure)
           /\ failures' = failures + 1 /\ phase' = "delay"
           /\ UNCHANGED <<protocol, variant, upstream, known, output, tools, finish, requests, chunks, stopped, said>>
  <2>1. protocol # "responses" => ~output
    BY <1>4 DEF Repeats
  <2>2. ~known => upstream.sent = 0
    BY <2>1 DEF StreamInv, StreamType, InStep
  <2>3. text' = text /\ outcome' = outcome
    BY <1>4 DEF chunks
  <2>4. StreamType'
    BY <1>4, <2>3 DEF StreamInv, StreamType
  <2>5. UNCHANGED <<protocol, variant, upstream, known, output, text>>
    BY <1>4, <2>3
  <2>6. InStep'
    BY <2>2, <2>5 DEF StreamInv, InStep
  <2>7. UNCHANGED <<text, outcome, stopped>>
    BY <1>4, <2>3
  <2>8. Mapped
    BY <2>7 DEF Mapped
  <2> QED  BY <2>4, <2>6, <2>8 DEF StreamInv
<1>5. CASE ~stopped /\ Ends("error", Retryable(failure))
  BY <1>1, <1>5, EndsOnce DEF Ends, request
<1> QED  BY <1>2, <1>3, <1>4, <1>5 DEF Failed

LEMMA PieceInStep ==
  ASSUME StreamInv, NEW kind \in {"text", "tool"}, Piece(kind)
  PROVE  StreamInv' /\ Mapped
<1>1. outcome = "open" /\ (protocol = "responses" => upstream.begun)
  BY DEF Piece, Streaming
<1>2. CASE HearsStop(kind)
  BY <1>1, <1>2, StopsOnce DEF Piece
<1>3. CASE ~HearsStop(kind)
  <2>1. /\ text' = Append(text, upstream.sent + 1)
        /\ upstream' = [upstream EXCEPT !.begun = TRUE, !.sent = @ + 1]
        /\ output' = TRUE /\ tools' = (tools \/ kind = "tool")
        /\ UNCHANGED <<protocol, variant, failures, phase, known, outcome, stopped>>
    BY <1>3 DEF Piece
  <2>2. text \in Seq(Nat) /\ upstream.sent = Len(text)
    BY DEF StreamInv, StreamType, InStep
  <2>3. text' \in Seq(Nat) /\ Len(text') = Len(text) + 1
    BY <2>1, <2>2
  <2>4. upstream' \in [begun : BOOLEAN, sent : Nat, finished : BOOLEAN]
        /\ upstream'.sent = Len(text) + 1 /\ upstream'.begun
    <3>1. upstream \in [begun : BOOLEAN, sent : Nat, finished : BOOLEAN]
      BY DEF StreamInv, StreamType
    <3>2. upstream' = [begun |-> TRUE, sent |-> upstream.sent + 1, finished |-> upstream.finished]
      BY <2>1, <3>1
    <3> QED  BY <2>2, <3>1, <3>2
  <2>5. StreamInv'
    <3>1. phase = "streaming"
      BY DEF Piece, Streaming
    <3>2. StreamType'
      BY <2>1, <2>3, <2>4 DEF StreamInv, StreamType
    <3> QED  BY <1>1, <2>1, <2>3, <2>4, <3>1, <3>2 DEF StreamInv, InStep
  <2>6. Answer!Show /\ UNCHANGED stopped
    BY <1>1, <2>1, <2>2 DEF Answer!Show
  <2> QED  BY <2>5, <2>6 DEF Mapped, Answer!Next
<1> QED  BY <1>2, <1>3

LEMMA StepInStep ==
  ASSUME OwnUrl, StreamInv, [Next]_vars
  PROVE  StreamInv' /\ Mapped
<1>1. CASE Created
  <2>1. CASE stopped
    BY <1>1, <2>1, StopsOnce DEF Created, Streaming
  <2>2. CASE ~stopped
    <3>1. /\ protocol = "responses" /\ upstream' = [upstream EXCEPT !.begun = TRUE] /\ known' = TRUE
          /\ UNCHANGED <<protocol, variant, failures, phase, output, tools, chunks, stopped>>
      BY <1>1, <2>2 DEF Created
    <3>2. upstream' \in [begun : BOOLEAN, sent : Nat, finished : BOOLEAN] /\ upstream'.sent = upstream.sent
      BY <3>1 DEF StreamInv, StreamType
    <3>3. text' = text /\ outcome' = outcome
      BY <3>1 DEF chunks
    <3> QED  BY <3>1, <3>2, <3>3 DEF StreamInv, StreamType, InStep, Mapped
  <2> QED  BY <2>1, <2>2
<1>2. ASSUME NEW reason \in {"stop", "tool_calls", "length"}, Finish(reason) PROVE StreamInv' /\ Mapped
  <2>1. CASE HearsStop("finish")
    BY <1>2, <2>1, StopsOnce DEF Finish, Streaming
  <2>2. CASE ~HearsStop("finish")
    <3>1. /\ upstream' = [upstream EXCEPT !.begun = TRUE, !.finished = TRUE]
          /\ protocol = "responses" => upstream.begun
          /\ UNCHANGED <<protocol, variant, failures, phase, known, output, tools, chunks, stopped>>
      BY <1>2, <2>2 DEF Finish
    <3>2. upstream' \in [begun : BOOLEAN, sent : Nat, finished : BOOLEAN] /\ upstream'.sent = upstream.sent
      BY <3>1 DEF StreamInv, StreamType
    <3>3. text' = text /\ outcome' = outcome
      BY <3>1 DEF chunks
    <3> QED  BY <3>1, <3>2, <3>3 DEF StreamInv, StreamType, InStep, Mapped
  <2> QED  BY <2>1, <2>2
<1>3. ASSUME NEW failure, RequestFails(failure) PROVE StreamInv' /\ Mapped
  BY <1>3, FailedInStep DEF RequestFails
<1>4. CASE Retry
  <2>1. /\ phase = "delay" /\ Request(IF known THEN upstream.sent ELSE 0)
        /\ UNCHANGED <<protocol, variant, failures, known, chunks, stopped, said>>
    BY <1>4 DEF Retry
  <2>2. Len(text) \in Nat /\ (IF known THEN upstream.sent ELSE 0) = Len(text)
    BY <2>1 DEF StreamInv, StreamType, InStep
  <2>3. protocol # "responses" => Len(text) = 0
    BY <2>1, <2>2 DEF StreamInv, InStep
  <2>4. variant \in Nat \ {0} /\ failures \in Nat /\ known \in BOOLEAN
    BY DEF StreamInv, StreamType
  <2>5. /\ protocol = "responses" => (Len(text) > 0 => known) /\ variant = 1
        /\ protocol # "responses" => ~known
    BY DEF StreamInv, InStep
  <2> QED  BY <2>1, <2>2, <2>3, <2>4, <2>5, RequestInStep
<1>5. CASE ConnectionEnds
  <2>1. CASE Failed("network")
    BY <1>5, <2>1, FailedInStep DEF ConnectionEnds
  <2>2. CASE Completes
    BY <1>5, <2>2, EndsOnce DEF ConnectionEnds, Streaming, Completes
  <2> QED  BY <1>5, <2>1, <2>2 DEF ConnectionEnds
<1>6. CASE AwaitOrStop \/ Cancelled
  BY <1>6, StopsOnce DEF AwaitOrStop, Cancelled, Streaming
<1>7. CASE Stop
  <2>1. Answer!Stop
    BY <1>7 DEF Stop, chunks, Answer!Stop
  <2> QED  BY <1>7, <2>1 DEF Stop, request, chunks, StreamInv, StreamType, InStep, Mapped, Answer!Next
<1>8. CASE UNCHANGED vars
  BY <1>8 DEF vars, request, chunks, StreamInv, StreamType, InStep, Mapped
<1> QED  BY <1>1, <1>2, <1>3, <1>4, <1>5, <1>6, <1>7, <1>8, PieceInStep DEF Next

-----------------------------------------------------------------------------
(* Theorems *)

\* generate_response_stream keeps what a turn expects of a model: its chunks are
\* a behaviour of ModelStream, the pieces of one answer, each once and in order,
\* and one end, which is no error once the stream has been stopped.
THEOREM ImplementsModelStream ==
  ASSUME OwnUrl
  PROVE  Spec => OneAnswerSafe
<1>1. Init => StreamInv /\ Answer!Init
  BY StreamInit
<1>2. StreamInv /\ [Next]_vars => StreamInv' /\ [Answer!Next]_(Answer!vars)
  BY StepInStep DEF Mapped, Answer!vars
<1> QED  BY <1>1, <1>2, PTL DEF Spec, OneAnswerSafe, Answer!Safe

\* An answer that was cut off is not taken for one that was finished: a provider
\* says "stop" only when its upstream has (the end of generate_response_stream).
THEOREM StopsWereSaid == Spec => []StopWasSaid
<1> DEFINE Said == /\ finish = "stop" => "stop" \in said
                   /\ outcome = "complete" /\ finish = "stop" => "stop" \in said
<1>1. Init => Said
  BY DEF Init
<1>2. Said /\ [Next]_vars => Said'
  <2> SUFFICES ASSUME Said, [Next]_vars PROVE (finish = "stop" => "stop" \in said)'
    OBVIOUS
  <2>1. ASSUME NEW failure, Failed(failure) PROVE (finish = "stop" => "stop" \in said)'
    BY <2>1 DEF Failed, Stops, Ends, request, Request
  <2>2. CASE Created
    BY <2>2 DEF Created, Stops, Ends, request
  <2>3. ASSUME NEW kind \in {"text", "tool"}, Piece(kind) PROVE (finish = "stop" => "stop" \in said)'
    BY <2>3 DEF Piece, Stops, Ends, request
  <2>4. ASSUME NEW reason \in {"stop", "tool_calls", "length"}, Finish(reason)
        PROVE  (finish = "stop" => "stop" \in said)'
    BY <2>4 DEF Finish, Stops, Ends, request
  <2>5. CASE Retry
    BY <2>5 DEF Retry, Request
  <2>6. CASE ConnectionEnds
    BY <2>1, <2>6 DEF ConnectionEnds, Completes, Reason
  <2>7. CASE AwaitOrStop \/ Cancelled \/ Stop \/ UNCHANGED vars
    BY <2>7 DEF AwaitOrStop, Cancelled, Stop, Stops, Ends, request, vars
  <2> QED  BY <2>1, <2>2, <2>3, <2>4, <2>5, <2>6, <2>7 DEF Next, RequestFails
<1>3. Said => StopWasSaid
  BY DEF StopWasSaid
<1> QED  BY <1>1, <1>2, <1>3, PTL DEF Spec
=============================================================================
