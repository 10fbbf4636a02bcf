---------------------------- MODULE FallbackChain ----------------------------
(***************************************************************************)
(* FallbackChain::attempt_with_fallback (crates/proxy/src/fallback/mod.rs) *)
(* over a try_backend that is one step: the backends are tried in order,   *)
(* once each, until one succeeds or fails in a way that another backend    *)
(* would not cure.  UpstreamRequest implements it.                         *)
(***************************************************************************)
EXTENDS Naturals

CONSTANT Length        \* backends in the chain, at least one

VARIABLES
  index,               \* the backend being tried, or tried last
  last_error,          \* what the last backend that failed said
  outcome              \* FallbackOutcome

chainVars == <<index, last_error, outcome>>

\* A status that another backend may not give (408, 429 or 5xx), any other
\* status, and what is not a status at all.
Errors  == {"transient", "quota", "refused", "transport", "deserialization"}

Pending == [result |-> "pending", exhausted |-> FALSE]
Outcome == [result : {"pending", "ok"} \cup Errors, exhausted : BOOLEAN]

\* should_fallback: a status the retry loop would retry too, be it the quota; and
\* whatever is not a status of the backend, because its status_code is 500.
should_fallback(error) == error # "refused"

Init == index = 1 /\ last_error = "none" /\ outcome = Pending

Return(result, exhausted) ==
  /\ outcome' = [result |-> result, exhausted |-> exhausted]
  /\ UNCHANGED <<index, last_error>>

Succeed == outcome = Pending /\ Return("ok", FALSE)

Stop == outcome = Pending /\ \E e \in Errors : ~should_fallback(e) /\ Return(e, FALSE)

FallBack ==
  /\ outcome = Pending /\ index < Length
  /\ index' = index + 1
  /\ \E e \in Errors : should_fallback(e) /\ last_error' = e
  /\ UNCHANGED outcome

Exhaust ==
  /\ outcome = Pending /\ index = Length
  /\ \E e \in Errors : should_fallback(e) /\ Return(e, TRUE)

Next == Succeed \/ Stop \/ FallBack \/ Exhaust

Spec == Init /\ [][Next]_chainVars

-----------------------------------------------------------------------------
(* Properties *)

\* "exhausted" is said of a chain only when its last backend has failed, and no
\* backend is tried after one that refused the request.
ExhaustedMeansAll ==
  /\ index \in 1 .. Length /\ outcome \in Outcome
  /\ outcome.exhausted => index = Length /\ outcome.result \in Errors \ {"refused"}
  /\ last_error # "refused"
=============================================================================
