--------------------------- MODULE UpstreamRequest ---------------------------
(***************************************************************************)
(* One request on its way to the backends: the loop of a client            *)
(* (send_with_retry_policy in crates/client/src/retry.rs, which the        *)
(* Anthropic and Bedrock clients of the proxy repeat) inside the chain of  *)
(* backends (attempt_with_fallback in crates/proxy/src/fallback/mod.rs).   *)
(*                                                                         *)
(* A backend is an actor of its own: it may process, and bill, an attempt  *)
(* whose client has given up.  Retry-After and backoff are a sleep that    *)
(* ends; how long it is, nothing here depends on.                          *)
(***************************************************************************)
EXTENDS Naturals, FiniteSets

CONSTANTS
  Length,              \* backends in the chain
  MaxRetries,          \* attempts at a backend after the first
  TransportRetries     \* values of retry_transport_errors

ASSUME LengthAssumption     == Length \in Nat \ {0}
ASSUME MaxRetriesAssumption == MaxRetries \in Nat
ASSUME TransportAssumption  == TransportRetries \subseteq BOOLEAN

VARIABLES
  transport,           \* retry_transport_errors
  index, last_error, outcome,   \* of the chain
  attempt,             \* of the client's loop
  stage,               \* "send", "wait", "sleep", "done" or "dropped"
  server,              \* what became of each attempt at its backend
  lost                 \* backends one of whose answers went unread

vars == <<transport, index, last_error, outcome, attempt, stage, server, lost>>

Chain == INSTANCE FallbackChain

Backends == 1 .. Length
Attempts == 0 .. MaxRetries

\* An answer is a completion, or a status: one that may pass (408, 5xx, and
\* 429 on account of a rate limit), 429 on account of the quota, any other.
Answers == {"completed", "transient", "quota", "refused"}

Init ==
  /\ transport \in TransportRetries
  /\ Chain!Init
  /\ attempt = 0
  /\ stage = "send"
  /\ server = [b \in Backends |-> [a \in Attempts |-> "unknown"]]
  /\ lost = {}

-----------------------------------------------------------------------------
(* The chain, told what try_backend returned *)

Succeed ==
  /\ Chain!Return("ok", FALSE)
  /\ stage' = "done"
  /\ UNCHANGED attempt

Advance(error) ==
  /\ index' = index + 1 /\ last_error' = error
  /\ attempt' = 0 /\ stage' = "send"
  /\ UNCHANGED outcome

\* Mutant: every error is tried at the next backend.
FailOver(error) ==
  IF index < Length THEN Advance(error)
  ELSE Chain!Return(error, TRUE) /\ stage' = "done" /\ UNCHANGED attempt

Fail(error) ==
  IF Chain!should_fallback(error) /\ index < Length THEN Advance(error)
  ELSE /\ Chain!Return(error, Chain!should_fallback(error))
       /\ stage' = "done"
       /\ UNCHANGED attempt

-----------------------------------------------------------------------------
(* The loop of the client *)

\* Mutant: one attempt more.
OneMore == attempt <= MaxRetries

AttemptsLeft == attempt < MaxRetries

\* Back off.
Retry ==
  /\ stage' = "sleep"
  /\ UNCHANGED <<index, last_error, outcome, attempt>>

Send ==
  /\ stage = "send"
  /\ server' = [server EXCEPT ![index][attempt] = "received"]
  /\ stage' = "wait"
  /\ UNCHANGED <<transport, index, last_error, outcome, attempt, lost>>

\* is_connect: the backend never received the request.
ConnectFails ==
  /\ stage = "send"
  /\ IF transport /\ AttemptsLeft THEN Retry ELSE Fail("transport")
  /\ UNCHANGED <<transport, server, lost>>

\* Mutant: the errors of a request that was sent are retried as well.
GiveUpRetries ==
  /\ stage = "wait"
  /\ lost' = lost \cup {index}
  /\ IF transport /\ AttemptsLeft THEN Retry ELSE Fail("transport")
  /\ UNCHANGED <<transport, server>>

\* The read times out or the connection breaks, whatever the backend does.
GiveUp ==
  /\ stage = "wait"
  /\ lost' = lost \cup {index}
  /\ Fail("transport")
  /\ UNCHANGED <<transport, server>>

\* Mutant: of the 2xx statuses only 200 counts as one.
DecodeOnly200 ==
  /\ stage = "wait" /\ server[index][attempt] = "completed"
  /\ Succeed \/ Fail("transient")
  /\ UNCHANGED <<transport, server, lost>>

\* A completion has arrived, and is decoded.
Decode ==
  /\ stage = "wait" /\ server[index][attempt] = "completed"
  /\ Succeed
  /\ UNCHANGED <<transport, server, lost>>

\* A completion has arrived, but its body cannot be read or decoded.
DecodeFails ==
  /\ stage = "wait" /\ server[index][attempt] = "completed"
  /\ lost' = lost \cup {index}
  /\ Fail("deserialization")
  /\ UNCHANGED <<transport, server>>

\* Any other status has arrived.
Reject ==
  LET status == server[index][attempt] IN
  /\ stage = "wait" /\ status \in {"transient", "quota", "refused"}
  /\ IF status = "transient" /\ AttemptsLeft THEN Retry ELSE Fail(status)
  /\ UNCHANGED <<transport, server, lost>>

\* Mutant: the attempt is not counted.
WakeUncounted ==
  /\ stage = "sleep"
  /\ stage' = "send"
  /\ UNCHANGED <<transport, index, last_error, outcome, attempt, server, lost>>

Wake ==
  /\ stage = "sleep"
  /\ attempt' = attempt + 1
  /\ stage' = "send"
  /\ UNCHANGED <<transport, index, last_error, outcome, server, lost>>

\* The client hangs up, and the future of the request is dropped where it awaits.
Drop ==
  /\ stage \in {"wait", "sleep"}
  /\ stage' = "dropped"
  /\ UNCHANGED <<transport, index, last_error, outcome, attempt, server, lost>>

-----------------------------------------------------------------------------
(* The backends *)

Process(b, a) ==
  /\ server[b][a] = "received"
  /\ \E answer \in Answers : server' = [server EXCEPT ![b][a] = answer]
  /\ UNCHANGED <<transport, index, last_error, outcome, attempt, stage, lost>>

-----------------------------------------------------------------------------
Client == Send \/ ConnectFails \/ GiveUp \/ Decode \/ DecodeFails \/ Reject \/ Wake

Next == Client \/ Drop \/ \E b \in Backends, a \in Attempts : Process(b, a)

Spec == Init /\ [][Next]_vars

\* A wait ends with an answer or with the read timeout, a sleep with its delay.
FairSpec == Spec /\ WF_vars(Client)

-----------------------------------------------------------------------------
(* Properties *)

\* The loop never runs past its last attempt (the unreachable! at its end), and
\* only a request that is over has an outcome.
TypeOK ==
  /\ transport \in TransportRetries
  /\ index \in Backends /\ last_error \in Chain!Errors \cup {"none"}
  /\ outcome \in Chain!Outcome
  /\ attempt \in Attempts
  /\ stage \in {"send", "wait", "sleep", "done", "dropped"}
  /\ server \in [Backends -> [Attempts -> Answers \cup {"unknown", "received"}]]
  /\ lost \subseteq Backends
  /\ stage = "done" <=> outcome # Chain!Pending

Completed(b) == {a \in Attempts : server[b][a] = "completed"}

\* "A retried POST can produce a duplicate completion and a duplicate charge":
\* no backend completes the same request twice, however late it answers.
CompletedOnce == \A b \in Backends : Cardinality(Completed(b)) <= 1

\* Across the chain a completion is made twice only if the first was lost: its
\* client gave up waiting, or could not decode it.
TwiceOnlyIfLost ==
  \A b \in Backends : Completed(b) # {} /\ b < index => b \in lost

\* The loops inside the chain are one step of the chain, or none.
ChainSpec == Chain!Spec

\* The request is answered, or nobody waits for it any more.
Ends == <>(stage \in {"done", "dropped"})
=============================================================================
