----------------------------- MODULE BatchEngine -----------------------------
(***************************************************************************)
(* The facade over the job queue and the webhook queue                     *)
(* (crates/batch_engine/src/engine.rs, behind the handlers of              *)
(* crates/proxy/src/batch/routes.rs).                                      *)
(*                                                                         *)
(* submit and cancel commit the job first and enqueue the webhooks of the  *)
(* event afterwards, one URL at a time, each in a transaction of its own.  *)
(* In between other calls run, the client may hang up (which drops the     *)
(* handler's future) and the process may crash.  A delivery that cannot be *)
(* enqueued is logged and forgotten.  What becomes of a delivery once it   *)
(* is enqueued is in WebhookQueue.                                         *)
(***************************************************************************)
EXTENDS BatchQueue

CONSTANT Callers     \* handlers that run at a time

ASSUME CallersAssumption == IsFiniteSet(Callers)

VARIABLES
  call,        \* call[c]: the event handler c has yet to enqueue, and for whom
  told,        \* deliveries that were enqueued, once or more often
  lost         \* deliveries given up, and not made by another handler

engineVars == <<call, told, lost>>
evars == <<vars, engineVars>>

\* The global URL is told of every event, the job's own of its end.
EventKinds == {"batch.queued", "batch.cancelled"}
Urls       == {"global", "own"}

UrlsFor(e) == IF e = "batch.queued" THEN {"global"} ELSE Urls

NoCall == [event |-> "none"]
Calls  == {NoCall} \cup
          [event : EventKinds, job : Jobs, urls : SUBSET Urls]

Deliveries == [event : EventKinds, job : Jobs, url : Urls]

Delivery(e, j, u) == [event |-> e, job |-> j, url |-> u]

\* What the handlers in cs have yet to enqueue.
Pending(cs) ==
  UNION {{Delivery(call[c].event, call[c].job, u) : u \in call[c].urls}
           : c \in {d \in cs : call[d] # NoCall}}

Deliver(ds) == told' = told \cup ds /\ lost' = lost \ ds

\* A delivery that is given up is not lost if another handler has made it.
GiveUp(ds) == lost' = lost \cup (ds \ told)

EngineInit ==
  /\ Init
  /\ call   = [c \in Callers |-> NoCall]
  /\ told   = {}
  /\ lost   = {}

-----------------------------------------------------------------------------
(* Calls *)

Fire(c, e, j) ==
  call' = [call EXCEPT ![c] = [event |-> e, job |-> j, urls |-> UrlsFor(e)]]

EngineSubmit(c, j) ==
  /\ call[c] = NoCall
  /\ Submit(j)
  /\ Fire(c, "batch.queued", j)
  /\ UNCHANGED <<told, lost>>

\* The event is fired for the status the call has left.
EngineCancel(c, j) ==
  /\ call[c] = NoCall
  /\ Cancel(j)
  /\ IF job'[j] = "cancelled" THEN Fire(c, "batch.cancelled", j) ELSE UNCHANGED call
  /\ UNCHANGED <<told, lost>>

\* The cancel of a job that is cancelled already changes nothing, and is answered,
\* and announced, as if it had.
CancelAgain(c, j) ==
  /\ call[c] = NoCall
  /\ job[j] = "cancelled"
  /\ Fire(c, "batch.cancelled", j)
  /\ UNCHANGED <<vars, told, lost>>

\* The second statement of cancel fails: the client gets an error, no one is told.
CancelFails(j) ==
  /\ CancelHalf(j)
  /\ GiveUp({Delivery("batch.cancelled", j, u) : u \in Urls})
  /\ UNCHANGED <<call, told>>

Rest(c, u) ==
  LET urls == call[c].urls \ {u} IN
  call' = [call EXCEPT ![c] = IF urls = {} THEN NoCall ELSE [@ EXCEPT !.urls = urls]]

\* The URLs in their order, the job's own last.
NextUrl(c, u) ==
  /\ call[c] # NoCall
  /\ u \in call[c].urls
  /\ "global" \in call[c].urls => u = "global"

\* Mutant: the loop over the URLs ends with the first.
EnqueueFirst(c, u) ==
  /\ NextUrl(c, u)
  /\ Deliver({Delivery(call[c].event, call[c].job, u)})
  /\ call' = [call EXCEPT ![c] = NoCall]
  /\ UNCHANGED vars

Enqueue(c, u) ==
  /\ NextUrl(c, u)
  /\ Deliver({Delivery(call[c].event, call[c].job, u)})
  /\ Rest(c, u)
  /\ UNCHANGED vars

\* Mutant: the loop over the URLs ends with the first that fails.
EnqueueFailsFirst(c, u) ==
  /\ NextUrl(c, u)
  /\ GiveUp({Delivery(call[c].event, call[c].job, u)})
  /\ call' = [call EXCEPT ![c] = NoCall]
  /\ UNCHANGED <<vars, told>>

EnqueueFails(c, u) ==
  /\ NextUrl(c, u)
  /\ GiveUp({Delivery(call[c].event, call[c].job, u)})
  /\ Rest(c, u)
  /\ UNCHANGED <<vars, told>>

Cut(cs) ==
  /\ GiveUp(Pending(cs))
  /\ call' = [c \in Callers |-> IF c \in cs THEN NoCall ELSE call[c]]
  /\ UNCHANGED told

HangUp(c) ==
  /\ call[c] # NoCall
  /\ Cut({c})
  /\ UNCHANGED vars

\* A crash of the process ends the workers' calls and the handlers'.
EngineCrash == Crash /\ Cut(Callers)

-----------------------------------------------------------------------------
(* The actions of the queue that no handler makes *)
WorkerNext ==
  \/ \E w \in Workers : Work(w) \/ \E i \in Items : Claim(w, i)
  \/ \E i \in Items : ClaimHalf(i) \/ RetryFallsDue(i)
  \/ Reclaim

EngineNext ==
  \/ \E c \in Callers : \/ \E j \in Jobs : EngineSubmit(c, j) \/ EngineCancel(c, j)
                                           \/ CancelAgain(c, j)
                        \/ \E u \in Urls : Enqueue(c, u) \/ EnqueueFails(c, u)
                        \/ HangUp(c)
  \/ \E j \in Jobs : CancelFails(j)
  \/ EngineCrash
  \/ WorkerNext /\ UNCHANGED engineVars

EngineSpec == EngineInit /\ [][EngineNext]_evars

\* The handlers run on: what is fired is enqueued.
EngineFairness ==
  Fairness /\ \A c \in Callers : WF_evars(\E u \in Urls : Enqueue(c, u))

EngineFairSpec == EngineSpec /\ EngineFairness

-----------------------------------------------------------------------------
(* Properties *)

\* The variables of the facade have their types.
EngineTypeOK ==
  /\ TypeOK
  /\ call \in [Callers -> Calls]
  /\ told \subseteq Deliveries
  /\ lost \subseteq Deliveries

\* Between the commit of a cancel and its announcements nothing holds the job: still
\* a cancelled job, for every URL, has been announced to it, is about to be, or a
\* failure or a hang-up is to blame.
NothingForgotten ==
  \A j \in Jobs : job[j] = "cancelled" =>
    \A u \in Urls : Delivery("batch.cancelled", j, u) \in told \cup lost \cup Pending(Callers)

\* A cancelled job is announced to every URL, unless the call that cancelled it
\* was cut short: the commit and the announcement are two transactions.
EventuallyAnnounced ==
  \A j \in Jobs : job[j] = "cancelled" ~>
    \A u \in Urls : Delivery("batch.cancelled", j, u) \in told \cup lost
=============================================================================
