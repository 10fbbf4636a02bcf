--------------------------- MODULE StreamEndpoints ---------------------------
(***************************************************************************)
(* The streaming endpoints of the proxy: the backend a deployment names    *)
(* (BackendClient in server/streaming/handler.rs, gemini_native.rs)        *)
(* decides which translator stands between its answer and the client.  A   *)
(* client must not be able to tell them apart: one protocol, one statement *)
(* of what it has been told, holds of them all.                            *)
(***************************************************************************)
EXTENDS StreamTask

CONSTANT Backends        \* the kinds of backends that are configured

ASSUME BackendsAssumption ==
  Backends \subseteq {"OpenAI", "OpenAIResponses", "GeminiNative"}

VARIABLE backend         \* the backend of this stream

OpenAI    == INSTANCE StreamingTranslator
Responses == INSTANCE ResponsesStreaming
Gemini    == INSTANCE GeminiStreaming

Init ==
  /\ backend \in Backends
  /\ CASE backend = "OpenAI"          -> OpenAI!Init
       [] backend = "OpenAIResponses" -> Responses!Init
       [] backend = "GeminiNative"    -> Gemini!Init

OpenAINext    == backend = "OpenAI" /\ OpenAI!Next /\ UNCHANGED backend
ResponsesNext == backend = "OpenAIResponses" /\ Responses!Next /\ UNCHANGED backend
GeminiNext    == backend = "GeminiNative" /\ Gemini!Next /\ UNCHANGED backend

Next == OpenAINext \/ ResponsesNext \/ GeminiNext

Spec == Init /\ [][Next]_<<vars, backend>>

\* The client reads what is sent while it listens.
Fairness == WF_<<vars, backend>>(Send /\ UNCHANGED backend)

FairSpec == Spec /\ Fairness

-----------------------------------------------------------------------------
(* Properties *)

\* Every variable has the type its field has.
TypeOK ==
  CASE backend = "OpenAI"          -> OpenAI!TypeOK
    [] backend = "OpenAIResponses" -> Responses!TypeOK
    [] backend = "GeminiNative"    -> Gemini!TypeOK

\* Between two frames the client has those blocks open that its translator
\* thinks are open, and knows as much of the end.
InStep ==
  CASE backend = "OpenAI"          -> OpenAI!InStep
    [] backend = "OpenAIResponses" -> Responses!InStep
    [] backend = "GeminiNative"    -> Gemini!InStep

\* Of a Gemini backend, which repeats itself in every response, the client hears
\* everything once.
HeardOnce == backend = "GeminiNative" => Gemini!HeardOnce
=============================================================================
