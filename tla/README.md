# anyllm-proxy, in TLA+

anyllm-proxy is a Rust workspace: a proxy that takes requests in the Anthropic,
OpenAI, Gemini and Responses formats, translates them, sends them to one of
several backends, and keeps keys, budgets, batches, webhooks and its own
configuration in SQLite. This directory models the parts of it whose correctness
depends on the order of events. Paths below are relative to `src/crates/`.

## 1. Inventory

| Component | State it keeps | Operations | What is hard | What makes it correct |
|---|---|---|---|---|
| Webhook queue and dispatcher (`batch_engine/src/webhook`) | rows of `webhook_delivery`: status, attempts, lease, next_retry_at; a semaphore; spawned `deliver` tasks | enqueue, claim_next, ack, schedule_retry, dead_letter, reclaim_expired_leases; the dispatcher's loop | outcomes are written by id with no look at the lease; crashes between POST and write; locked database; late copies | the writer still owns its row; settled stays settled; every event ends |
| Batch job queue (`batch_engine/src/queue`) | rows of `batch_job`, `batch_item`, `batch_dead_letter` | enqueue, cancel, claim_next_item, complete_item, fail_item, schedule_retry, dead_letter, is_batch_complete, complete_batch, reclaim_expired_leases | two statements without a transaction; cancel against workers; the last two items finishing together | an item has one worker; results are final; cancel stops work; what ended stays ended; a job completes |
| Batch engine (`batch_engine/src/engine.rs`, `validation.rs`, `file_store.rs`) | none of its own | submit, cancel, get, list, results | the job is committed before its webhooks are enqueued, one by one | what was cancelled is announced unless a call was cut short |
| Virtual keys and budgets (`proxy/src/server/middleware/auth.rs`, `admin/keys.rs`, `admin/routes/keys.rs`, `cost`) | row of `virtual_api_key`; entry of a `DashMap`; marks carried by requests | create, update, revoke; validate_auth; record_cost; prune; load at start | two copies, written in two steps with an await between; costs that arrive late | neither copy overstates; refusals are deserved; revoked stays out; the budget holds |
| Rate limiter (`admin/keys.rs`, `ratelimit.rs`) | two deques per key, or two sorted sets in Redis; the guard on the key's entry | check_rpm, check_tpm, record_tpm, prune | check and record are far apart; Redis fails; clocks of several instances differ; a guard held over awaits | the limit holds; the overshoot in tokens is bounded; refusals end; everybody is answered |
| Streaming translators (`translator/src/mapping/streaming_map.rs`, `responses_`, `gemini_streaming_map.rs`; `proxy/src/server/streaming`, `gemini_native.rs`) | open block, index, tools, finished; a channel to the client | process_chunk, process_event, process_response, finish, read_sse_frames, send_events, timeout | any order of chunk parts; hang-ups and timeouts in the middle of a frame | the client sees a legal message, the same one whichever the backend |
| Deployment routing (`proxy/src/config/model_router`, `route_router.rs`) | per deployment: rpm_used, window start, in_flight, latency; a counter per model; the table behind a lock | select, record_request, record_start, record_finish, rebuild | atomics touched one at a time by concurrent scans; rebuild under running requests | limits overshoot by a bounded amount; a 429 means full, but for windows reset meanwhile; in_flight is the number in flight |
| Managed backends and route table (`proxy/src/admin/routes/managed_backends`, `admin/routes/mod.rs`, `server/state/app_state.rs`, `admin/db`) | rows of `managed_backend`, `model_route`, `route_provider`; the map of backend states; the dispatch table | create, update, delete; changes of a route; rebuild; load at start | three copies, written one after another by handlers that may overlap, fail or be cut short | the copies agree once the handlers are through; a name that is routed is served |
| Endpoints (`server/routes/messages.rs`, `chat_completions`, `gemini_input`) | none | one handler per format | which paths call record_start and record_finish | what is counted in is counted out |
| HTTP client, retry, fallback (`client`, `proxy/src/fallback`) | attempt number; position in the chain | send with retries; attempt_with_fallback | timeouts, Retry-After, what may be sent twice | bounded attempts; no second completion by the same backend; exhausted means all failed |
| Cache (`proxy/src/cache`) | memory, Redis and semantic tiers | get, put | keys that must include everything the answer depends on | no answer for another request |
| Tool loop, thinking repair, MCP (`proxy/src/tools`, `thinking_repair`) | messages of a turn; a bounded store | one loop per request | bounds | the loop ends |
| Admin API, metrics, callbacks, logs | counters, audit rows | fire and forget | none that state depends on | – |
| Message translation, provider catalog, rtk, pxpipe, admin UI | none | pure conversions, generated tables, a browser front end | data, not control | fixtures in the repository |

How they interact. `validate_auth` runs before every handler, under the write
guard of the key's map entry, which it keeps across the handler. The handler asks
the route table for a deployment and the map of backends for its client, sends
the request, streams the answer through a translator and finally hands the cost
to a task that writes the key's row. The administrator's API changes rows and
then the map or the table. The batch engine writes jobs and, in further calls,
webhook events; the dispatcher, started by `async_main`, works through the
events. The repository ships no worker for batch items: the queue's trait says
what one has to do, and the workers of `BatchQueue` do that.

The complete lists, with the source of every part and every hazard at its line,
are in `PROJECT.json` (`components`, `hazards`).

## 2. Modules

| Module | Models | Run | Proofs |
|---|---|---|---|
| `WebhookDelivery` | what the webhook queue promises: an owed event is delivered or abandoned after all its retries, never both, never reopened | as a property of `webhook` | `Refinement` |
| `WebhookQueue` | the table, the dispatcher, its tasks, the network to the endpoint, crashes | `webhook` | `WebhookQueueProofs` |
| `BatchQueue` | jobs, items, workers, cancels, crashes | within `batch` | `BatchEngineProofs` |
| `BatchEngine` | submit and cancel over `BatchQueue`, and the events they announce | `batch` | `BatchEngineProofs` |
| `VirtualKey` | one key in its two copies, requests, administrators, periods | `virtual_key`, `virtual_key_budget` | `VirtualKeyProofs` |
| `RateLimiter` | the windows of one key, local or in Redis, and the guard on its entry | `rate_limit`, `key_guard` | `RateLimiterProofs` |
| `MessageStream` | the events a client of the Messages API may see | as a property of `streaming` | `UsualProtocol` |
| `StreamTask` | the task that reads a backend's frames and sends events, its timeout, the client | within `streaming` | within `StreamEndpointsProofs` |
| `StreamingTranslator`, `ResponsesStreaming`, `GeminiStreaming` | the three backends' answers and their translators | within `streaming`; `streaming_thinking` | within `StreamEndpointsProofs` |
| `StreamEndpoints` | the choice among the three | `streaming` | `StreamEndpointsProofs` |
| `DeploymentRouter` | the deployments' atomics, the five selection strategies, the endpoints' accounting, rebuilds | `router`, `router_gemini` | `DeploymentRouterProofs` |
| `FallbackChain` | the chain of backends over attempts that are one step | as a property of `retry` | `RequestImplementsChain` |
| `UpstreamRequest` | one request in the client's loop of retries inside the chain, and the backends | `retry` | `UpstreamRequestProofs` |
| `ManagedBackends` | the rows, the map and the dispatch table, administrators, requests, restarts | `backends` | `ManagedBackendsProofs` |

Every `MC...` module gives constants their values for the runs. No module
declares a RECURSIVE operator.

### WebhookQueue
One action per SQL statement or network event. `Claim` is one iteration of the
loop that finds a permit and a due row; `Serve` is the endpoint processing the
POST, `Answer` and `Miss` are the two ways `send().await` ends; `Ack`,
`ScheduleRetry` and `DeadLetter` are the three arms that write the outcome.
`WriteFails` is any of the three failing (the code only logs it), `Crash` loses
all tasks. Time is relative: every deadline is a number of ticks left.

The one assumption that everything rests on is `DeliverBound <= Lease`: the
client in `proxy/src/main_helpers/async_main/mod.rs:237-243` gives up
10 s + 30 s after the claim at the latest and SQLite gives up on a locked
database after 5 s, while a lease lasts 60 s. It is an assumption about how long
a task may be held up by the runtime, too: a process that is suspended for a
minute in the middle of a delivery is outside the model.

### BatchQueue
`Cancel` and `Claim` are two statements each; the connection's mutex keeps other
threads out between them, so they are one action, but the second statement may
fail or the process may die after the first: `CancelHalf` and `ClaimHalf`.
Workers follow the trait: one outcome within the lease, then `is_batch_complete`
(`Check`) and `complete_batch`. Between any two calls anything may happen. A worker
writes its outcome before its lease expires (`Abandoned` takes only items nobody
works on): the trait gives it the lease to know how long it has. The order in
which items are claimed (priority, then age) is left open.

A job is native or not (`native`), and the claim takes items only of those that are not
(`queue/sqlite.rs:218`). A submitter within the repository makes native ones alone: the
proxy's handler submits for a backend with a batch API of its own and refuses the others
(`batch/routes.rs:133,193-199`). Nothing in the repository then executes or polls them
(`get_native_jobs_in_progress` has no caller), so the jobs that the proxy accepts at this
commit stay queued until they are cancelled. What the runs say of claims, results and completion is
about jobs of the other mode, which the queue offers to whoever embeds the crate.

`complete_batch` (`queue/sqlite.rs:376`) overwrites any status, so a job that is cancelled
while a worker is about to complete it becomes completed after its cancel was announced,
although `job.rs:94` calls a terminal status one with no further transitions.
`EndedIsFinal` lets through that one change, by a worker that was at the job when it ended, and no other, and says that
no worker starts on a job that has ended.
Two more things the model contains that no run complains of: `dead_letter` leaves the item in processing, to be reclaimed and run
again, although `queue/mod.rs:56` says no further retries; and the item's update
and the job's are not one transaction.

### BatchEngine
It extends `BatchQueue` with handlers: `EngineSubmit` and `EngineCancel` are the
queue's step plus the list of URLs to tell, `Enqueue` tells one of them,
`HangUp` drops the handler's future and `EngineCrash` everything.
`told` is the set of deliveries that were enqueued: what becomes of them is in
`WebhookQueue`. Every step of the engine is a step of the queue or leaves the queue
alone, which is proved, so the queue's theorems hold of it.

The engine says (`engine.rs:19-20`) that the webhook joins the job's ACID
transaction. It does not: a crash or a hang-up in between loses the event, unless another
handler still announces the same (`lost`). A cancel of a cancelled job announces it again under a new event_id,
and as handlers overlap a job's end may be announced before its beginning.

### VirtualKey
`row` and `entry` are the two copies. `RefuseExpired`, `RefuseOverBudget`, `Admit`
are the branches of `validate_auth`; `Admit` keeps the map's guard (phase
`inside`) until `Respond`. `Record` is the cost task: it applies the period mark
that its request may carry and then adds its cost. `CreateRow`/`CreateEntry`,
`UpdateRow`/`UpdateEntry`, `RevokeRow`/`RevokeEntry` are the halves of the admin
handlers. Money is whole units and time is whole budget periods. `total`,
`before` and `admitted` are history: what was recorded, what had been recorded
when a period began, and when a request was admitted.

Beyond the finding of `virtual_key_budget` the model shows that clearing
`budget_duration` (`admin/routes/keys.rs:247`) reaches the row and not the entry, and
that a cost of a new period which is recorded before the request that carries the mark
joins the old total (`cost/mod.rs:294-295`).

### RateLimiter
A request blocks on the guard of its key's entry (`Arrive`, `Unblock`), checks
requests and tokens at the one time it read (`CheckRpm`, `CheckTpm`), holds the guard until
the response begins (`Answer`), and records its tokens (`Record`): before the
guard is dropped for a full answer, from the stream's task for a streamed one.
The entry lies on a shard of the `DashMap`, and the guard locks the whole shard. `Neighbours` are the calls for other
keys of the shard: requests that hold it over their own response, and administrators' handlers
(`Visit`, `UnblockVisit`, `Leave`). They block threads as the key's own requests do. Each
comes once, so the model says nothing of a lock that goes on preferring others.
A blocked request, a blocked neighbour, the blocked pruner and steps without an await occupy a thread
(`Taken`); whatever awaits needs a free one to go on (`Polled`). `limiter`
chooses the local windows or Redis with the open or the closed policy. In Redis
another instance counts with a clock that is behind (`OtherInstance`), records
arrive late or never (`RecordRedis`), and calls fail (`CheckFails`).

What the model shows besides its properties: the local window keeps an entry that is
exactly as old as the window and Redis drops it; `retry_after` is rounded down where
`keys.rs:170` says up, so that an obedient client may be refused once more;
the open policy lets a request in without a look at the local window, where
`ratelimit.rs:3-6` speaks of falling back to it; a request that is refused for its
tokens has used up its slot among the requests.

### The streaming modules
`StreamTask` is what the endpoints share. A translator is a record `st`; every
part of `process_chunk` (or `process_event`, `process_response`) is an operator
on it, composed in the order of the code. The events it produces wait in
`st.out`; the task sends them one at a time, and the client may be gone, or the
wall-clock timeout may fire, between any two. `Sees` is what an Anthropic client
makes of an event; one that fits no message leaves it `confused`. `ProtocolKept`
says that the client's state implements `MessageStream`, for all three backends alike.

`Quirks` names what a backend may do beyond the usual. The usual OpenAI answer reasons
first if at all, then answers or refuses in text, then calls tools, then gives a
finish_reason. The usual Responses answer begins with `response.created` and has one
output item after the other. The usual Gemini answer only grows. All of them may break off anywhere.
`streaming` runs without quirks; what the others do:

* `toolAfterThinking`, `refusalAfterThinking`: the thinking block stays open
  under the new block, with the same index (the subject of `streaming_thinking`).
  In Gemini's translator too, a call right after a thought is put on top of it.
* `textAfterTool`, `nameless`: indices are used twice, or skipped.
* `cutShort`: a Responses stream that ends before `response.created` is finished
  with message_delta and message_stop without a message_start, and so is a Gemini
  stream without a single response.
* `overlap`: two items at a time share one index.
* `shrink`: a Gemini text that shrinks resets the length already sent, and the
  client hears the text again.

### DeploymentRouter
A selection is a scan: every deployment looked at is up to three atomic steps on
its window (`ReadWindow`, `SwapWindow`, `ClearCounter`) and one on its count
(`Take` or `Skip`), and then `Record`. Scans of several requests interleave at
every one of them. The strategies differ in the order of the scan (`FirstLook`),
in whether the first fit is taken, and in the metric. Requests then take one of
three paths through the endpoints: `plain` and `stream` count in and out,
`geminiStream` counts in. A rebuild makes a new table; requests keep the old
deployments (`current = FALSE`), whose counters nobody reads again. Atomics are
sequentially consistent here, while the code uses Relaxed: each variable has one
modification order anyway, and what is lost are reorderings between a count and its window.
`Tick` keeps a thread from taking a whole window (60 s) between reading the
clock and storing the zero.

A request that reads a deployment's count after another one has swapped the window and before it
stores zero passes over a deployment whose new window is empty. With every deployment passed over it gets a
429 that nothing justifies, although `model_router/mod.rs:52-53` gives exhaustion as the only reason, and under failover it
goes to a later deployment out of turn. `RefusedOnlyWhenFull` and `FailoverFillsInOrder` hold in every window and except
exactly this: `reset` collects, for each request that is picking, the deployments whose window another request
was resetting meanwhile, and all others that it passed over were sent their limit in their window.
`EmptyHanded` is a pick without a result. A request for a named model is then answered with 429, and one that
only the route `*` serves goes on to the layers below (`route_router.rs:228-234`), which are not modelled.
The plain path of
`messages.rs` leaks in_flight, too, when the tool policy refuses the request or the client hangs up
(`Serve` may stop at `started` for ever).

### UpstreamRequest and FallbackChain
`UpstreamRequest` is `send_with_retry_policy` inside `attempt_with_fallback`:
`Send`, then an answer that is decoded or not (`Decode`, `DecodeFails`,
`Reject`), a connect error (`ConnectFails`) or a read timeout (`GiveUp`), then a
sleep (`Retry`, `Wake`) or the next backend (`Fail`). The backend is an actor of its own
(`Process`): it may complete an attempt that nobody waits for any more.
`FallbackChain` is the same with one step per backend, and the loop implements it.

`status_code()` is 500 for whatever is not a status, so after a read timeout, or after
a completion that cannot be decoded, the chain goes on and the request is completed
again elsewhere, although `fallback/mod.rs:41-45` lists statuses and connection errors
only. `TwiceOnlyIfLost` bounds that. `CompletedOnce` rests on an assumption about the
backends (`Process`): one that answers with a status that is retried, 408, 429 or 5xx, has not completed the
attempt. A gateway that times out and passes a 504 on while its backend goes on would
break it, and no client can tell. At this commit only tests call the chain; the
server has the loop of one client. How long a `Retry-After` sleep is, nothing caps.

### ManagedBackends
An administrator's handler is a record `call` that moves through the stages
`lookup`, `write`, `map`, `build` and `swap`: it looks the backend up, writes
the row, changes the map, builds a new table from the rows, and swaps it in.
Handlers interleave at every stage, fail, and are cut short by a client that hangs up.
A row is its switch and the rest of its fields; a route is the set of its
enabled providers; the foreign keys of the bundled SQLite take providers away with
their backend. `Restart` loads the rows with a catalog that may have changed, so that
a row may no longer compile. It may fail to read them: the proxy then starts with an empty
map (`config.rs:244`) or an empty table (`main_helpers/async_main/admin/mod.rs:118-123`), with a warning in the log
(`LoadMap`, `LoadTable`). `disturbed` (backends whose handlers overlapped, or were cut between row
and map, or whose rows the start could not read) and `stale` (the handler that ended last was not alone, or was cut
after its commit, or the start had no table) are history.

`MapInStep` speaks of backends that are not disturbed. The entry an update inserts is computed
from the map before the row is written (`managed_backends/handlers.rs:388`), so two updates
at a time, or an update and a delete, leave the map and the row apart
until a restart. In a delete the entry goes before the table is rebuilt: requests in that
window, and requests for rows that could not be loaded, are served by the default
backend (`app_state.rs:184-186`), without a word; `ServedOnceRouted` covers the others.
An older table that is swapped in last stays until the next handler (`TableInStep`).

## 3. Runs

Passing runs (the properties are those of the `.cfg`; each has a mutant in
`PROJECT.json`, a plausible bug that breaks it):

* **webhook** (217 thousand states): 2 rows, 2 permits, 1 retry, a lease of 2 and a
  bound of 1 tick, 2 faults. Two rows and two permits are the least with which a reclaimed row
  could meet its old task; one retry gives a row all three outcomes, and two faults
  exceed `max_retries + 1`. `TaskOwnsRow`, `AttemptsBounded`,
  `NoPhantomDelivery`, `SettledForGood`, `PromiseKept`, `EventuallySettled`.
* **batch** (431 thousand): 1 job of 2 items, 2 workers that try a failed item again once,
  1 handler, 2 faults. The job's rows do not interact with another job's; two workers can
  finish the two last items together. One handler at a time is enough for its hang-ups and crashes against
  the workers; `NothingForgotten` is proved for any number. `NothingForgotten`,
  `WorkerOwnsItem`, `CompletedMeansDone`, `ResultsAreFinal`, `EndedIsFinal`,
  `CancelStopsWork`, `EventuallyCompleted`, `EventuallyAnnounced`.
* **virtual_key** (1.6 million, with symmetry): 2 requests, 2 administrators, budgets of
  1 or none, costs 0 or 1, an expiry within the run or after it, 2 periods, 1 fault.
  Two periods are one rollover; an update and a revocation need two administrators.
  `SpendNotOverstated`, `BlockedOnlyWhenSpent`, `RevokedStaysOut`.
* **rate_limit** (964 thousand): 2 requests and 1 neighbour on 4 threads, local windows of 3 requests, Redis with
  limits 1 and 2, 2 tokens, a window of 3 ticks, a second of 2, a clock that is 1 behind, 1 request
  let in uncounted. A window that is not a whole number of seconds makes the rounding visible, and the
  clock (`MaxTimes`, for each kind of window) runs until the first entry has left the local window or Redis. With more threads than can be blocked (the requests and
  the neighbour but the one that holds the guard, and the pruner) everybody is answered. `RpmCeiling`,
  `TokensBounded`, `RefusedTwiceAtMost`, `Answered`.
* **streaming** (21 thousand): every kind of backend; up to 4 tool calls with
  `MAX_TOOL_CALL_INDEX` 2 instead of 128, so that one call is beyond the limit; 5 items or parts;
  texts of length 3. `TypeOK`, `InStep`, `HeardOnce`, `ProtocolKept`, `CompletedIsSeen`.
* **router** (1.5 million, with symmetry): 2 deployments with limits 1 and 2, unequal
  weights and one price, 2 requests at a time and 4 in all, windows of one tick, 3
  ticks, 1 rebuild, all five strategies. `OvershootBounded`, `SentInWindowBounded`,
  `InFlightNeverLow`, `FailoverFillsInOrder`, `RefusedOnlyWhenFull`.
* **retry** (491 thousand): 3 backends, 2 retries, both settings of `retry_transport_errors`. Three
  backends have a middle one. `TypeOK`, `CompletedOnce`, `TwiceOnlyIfLost`, `ChainSpec`, `Ends`.
* **backends** (519 thousand, with symmetry): 2 backends, 2 values of what is not the switch, 2 administrators,
  patches of one field. There is one backend once handlers have overlapped on it, a start could not read it,
  or the catalog rejects rows (`Bounded`), because what follows concerns that backend and its route alone.
  `MapInStep`, `TableInStep`, `ServedOnceRouted`.

`CHECK_DEADLOCK FALSE` is given where a model comes to rest when everything is
settled or a bound is reached.

Runs that are expected to be violated. Each states what a comment of the
repository says and shows that the code does otherwise:

* **virtual_key_budget** – `admin/keys.rs:126,132`: the budget is compared with the
  spend of the entry, which no cost is added to until a restart reads the row.
* **key_guard** – the guard is a lock held across `next.run(request).await`
  (`auth.rs:542`), and one that is taken blocks the thread: with 2 threads, the key's other request and the neighbour
  leave none to poll the one that holds it, and nobody is answered, whatever the fairness.
* **streaming_thinking** – `streaming_map.rs:309`: a tool call right after reasoning
  opens a block on top of the thinking block, at its index.
* **router_gemini** – `model_router/mod.rs:268`: a Gemini stream is counted in and
  never out. With the `stream` endpoint alone the property holds.

### Fairness

* `WebhookQueue`: the loop polls and reclaims for ever (`dispatcher.rs:50-91`), time
  passes, and a spawned task is run to its end: the POST ends at the read timeout at the
  latest (`Miss`) and the outcome's write is made. Nothing is assumed of the endpoint,
  and faults are bounded, never forced. Weak fairness is enough.
* `BatchQueue`: workers claim and finish what they hold, delays pass, and reclaim is
  called again and again. All of this is the embedder's duty under the trait. `EventuallyCompleted` excepts jobs that someone cancels and
  those for which a crash comes between the last outcome and `complete_batch`
  (`orphaned`): nothing in the code looks at those again. It excepts native jobs, whose items are never claimed.
* `BatchEngine`: in addition a handler whose client stays goes on enqueueing.
* `RateLimiter`: a request whose step is possible takes it in the end: Redis and the
  backend answer or are given up at their timeouts. A step that needs a thread is possible only while
  one is free, which is what `key_guard` turns on. A neighbour that has the guard gives it back in the end. Streams need not end.
* `StreamEndpoints`: only `Send`, i.e. the task goes on sending while the client
  listens. The backend owes nothing.
* `UpstreamRequest`: the client's own steps. A wait ends with the read timeout and a sleep with its delay; the backends owe nothing.
* `VirtualKey`, `DeploymentRouter` and `ManagedBackends` state no liveness and assume no fairness.

## 4. Proofs

`tlapm` checks the following for every value of the constants, under the named
assumptions of the modules (`LeaseAssumption` and the like are the substantial
ones; the rest only give constants their types).

**WebhookQueueProofs.** `TypeCorrect`. `LeaseProtectsTask`: `TaskOwnsRow` is inductive
together with `TypeOK`; its conjunct `left[w] <= leaseLeft[job[w]]` is what carries it
over `Tick`, and `DeliverBound <= Lease` is used in `Claim` alone. `SettledStays`:
only a task changes a row that is not pending, and a task's row is in processing.
`AttemptsStayBounded` needs `AttemptsInv`: a row that is in processing without a task
was left there by a fault, so it has one fault to its account. `NoPhantoms` needs
`CopiesInv`: copies under way, late and processed together are at most the attempts.
`Refinement`: every step of the queue is a step of `WebhookDelivery` or a stutter; the abstract `Finish`
needs that the task's copy was processed, the abstract `Abandon` that the attempt the task carries is the row's.
`EventsDescend` is the safety part of `EventuallySettled`: `MovesLeft(d)` counts the sends an event may still have
(faults included, by `AttemptsInv`), each worth its claim, the moves of its task, the seconds of its lease, the reclaim
and the pause before the retry. No step adds to it, and every move of the row or of its task, and every second that it waits, takes something
away (`RowDescends`). It needs `PauseInv`: only a pending row pauses, and for at most 16 seconds. What remains of `EventuallySettled` is
that someone moves while an event is owed, which is the fairness.

**VirtualKeyProofs.** `TypeCorrect`, `SpendHonest`, `BlockedFairly`, `RevokedOut`.
`SpendNotOverstated` is not inductive: a mark still under way may start a period of
the row, so `LedgerInv` adds that no mark lies ahead of the present and that no period
began with more than was recorded in all. `BlockedFairly` follows because the
entry that a refusal reads has just been rolled over and is honest. `RevokedOut` is an
action property of every step but `CreateEntry`.

**DeploymentRouterProofs.** Every safety property of the passing run, for any number
of deployments, requests, rebuilds and ticks. `CumulativeWeight` is a recursive
function; the proofs need nothing of it but that the code's default covers the case that
no deployment lies beyond the tick.

* `InFlightHigh`: `InFlightNeverLow` is inductive with `TypeOK`. A rebuild makes the
  requests in flight strangers to the new counters, so both sides are zero again.
* `Counts` is the invariant `SelectInv` of the selection. `CountInv` adds to a count those who have
  picked the deployment and not yet recorded (`Pending`): the check `rpm_used < limit`
  leaves room for all requests at once, and a record only moves one from the second term to
  the first. `Overshoot` follows.
* `WindowInv` says that at most one request is between its swap and its store of
  zero on a deployment, because a second winner would have to have read the new start of the
  window as one that is over; this is where the bound in `Tick` is used. `SentInv`
  bounds `admitted` by the old count until the store, and by the new count plus
  what was lost after it; it needs `ScanInv`, that a scan never looks at the
  deployment it has picked already. `SentBounded` follows.
* `SpentInv` says that a deployment's count is never more than what it was sent in its window, unless
  someone is between swap and store there (`Counted`), and that whoever is has marked the deployment
  for every other scan (`Marked`). So the deployments that a scan leaves behind are full or marked (`LeftSpent`, `PickedInOrder`),
  and a reset of a full one marks it. `RefusedWhenFull` and `FailoverInOrder` follow, for every window,
  the first because every scan covers all deployments, the second because failover scans them in order.

**BatchEngineProofs.** Of the queue: `TypeCorrect`, `WorkersOwnTheirItems`, `CompletedJobsAreDone`,
`ResultsStay`, `CancelStops`, for workers of either kind (`FailFirst`), from the
assumption that the items are finitely many. The invariant is `QueueInv`.
`CompletedMeansDone` alone is not inductive: a worker that has seen its job complete
still has to write that, so `SeenComplete` says that such a job has no open item left;
`ItemsFollowJob` says that the items are there when their job is, so that none joins a job
that was seen complete. `ResultsStay` and `CancelStops` follow from the same invariant; `EndIsFinal`
needs the types alone.

Two more say what the liveness of the queue rests on. `LastOutcomeIsSeen`: an open job without an open item
is about to be looked at, or to be completed, by some worker, or is one of the `orphaned`
(`SomeoneWillSee`). Whoever writes the last outcome has yet to check, and a worker that
checked and saw an open item saw it before that outcome. What remains of `EventuallyCompleted` is that workers
get on. `SentRarely`: a worker that fails an item before it copies it sends no item more than
`MaxRetries + 1` times and once more for each crash and failed claim, so the bound
`MaxAttempts` keeps nobody from claiming (`AttemptsBounded`). An item that is in processing without a worker was
left there by a fault, as in the webhook queue.

Of the engine: `EngineImplementsQueue`, every step of the engine is a step of the queue
or leaves its variables alone, so all of the above holds of the engine (`EngineKeepsQueue`
says so for the invariants). `EngineTypeCorrect`. `NoCancelForgotten` is the safety core of
`EventuallyAnnounced`, with any number of handlers: the announcement of a cancelled job is made,
was given up, or is among what some handler has yet to enqueue. No step makes that set (`Owed`) smaller,
and the step that cancels puts the job's deliveries into it.

**UpstreamRequestProofs.** `TypeCorrect`, `CompletedAtMostOnce`,
`CompletedTwiceOnlyIfLost`, and `RequestImplementsChain`: the loops implement
`FallbackChain`, from which `ChainExhausted` follows for the loops. The invariant
is `RequestInv`: what was not tried is unknown to its backend (`Untried`); what was tried before at the same
backend never arrived, or was refused in passing (`Settled`); at most one attempt per backend may
still be completed (`OneLive`), and a backend that was left behind with one is among `lost` (`LostWhenLeft`).
`RequestDescends` is the safety part of `Ends`: `MovesLeft` counts the attempts that are left at this backend and at
those behind it. Every step of the loops, and a client that hangs up, makes it smaller, and no answer of a backend makes it
larger. What remains of `Ends` is that a loop that can go on does.

**ManagedBackendsProofs.** `BackendTypes`, `MapFollowsRows`, `TableFollowsRows`,
`RoutedIsServed`, for any number of backends, administrators and values of the fields. The
invariant `BackendInv` follows a handler through its stages (`Calls`): what it holds agrees with the
row it read as long as no other handler has overlapped with it on that backend and the proxy could read the row when it started. `MapInStep` alone is not inductive,
because between the row and the map a handler carries the difference; `MapOf` states
both sides. `Compiled` says that every table was compiled from rows that stood when it was built, and
`TableInStep` that the one handler without company holds or has swapped in the newest.

**StreamEndpointsProofs.** `UsualProtocol` and `UsualInStep`: the endpoints with any of
the three translators implement `MessageStream`, for answers of any length, provided that each configured backend is
`Usual`, i.e. has none of its `Abuses`. Those are the quirks that break the protocol, by backend: six for an OpenAI
one, `overlap` and `cutShort` for Responses, four for Gemini. The hypothesis is as weak as it can be: with any single
quirk of the set TLC finds `ProtocolKept` violated by that backend on an instance of a few events, and `streaming_thinking` shows
one of these. Other quirks, and those of a backend that is not configured, do no harm.

What needs no such hypothesis is proved without one. `TypeCorrect`: whatever a backend does, the
translators keep no more tool blocks than there were calls (and no more than `MaxToolIndex` + 1), and no more open
items than were begun. `GeminiHeardAllOnce`: a Gemini backend that takes nothing back is heard once, however its
thoughts, text and calls are mixed and wherever it stops; only `shrink` breaks that. `GeminiNothingMissed`: with `shrink`, too, the client has
heard at least the longest text there was (`NothingMissed`): resetting the length repeats text and never skips any.
A client that the protocol confuses goes on hearing, so these follow another path than the first two: `Hears(h, out, g)` says what will have been heard once
a queue is sent, in or out of place, and `Tells` how much an operation of the translator adds to that.

How a stream ends needs no hypothesis either. `CompletedIsTold`: a stream is recorded as completed only if its client, while
it listens, has seen how it ended or has the end as the last of the events that are still sent. `CompletedOnlySends`:
between the two nothing happens but the sends, so what remains of `CompletedIsSeen` is that `Send` is fair.
The invariant `EndInv` says of each translator that once it is finished its queue closes the message
(`Closing`) or is empty and the client knows, whatever blocks were left open or out of place before. A Gemini answer may
leave its end unsaid, and then `finish` says it (`GeminiClosed`); or a late response repeats it, which adds
nothing (`GeminiRepeated`).

Events are queued by a translator and heard later, so the invariant follows the client to where the queue will have
led it. `Reaches(c, out, d)` says that `out`, event by event one that fits, leads client `c` to the view `d`; it
has one lemma for every kind of event at the queue's end and one for the event that leaves at
its beginning (`ReachesFirst`). A translator is then a machine that moves `d`: `OpenAIAt`,
`ResponsesAt` and `GeminiAt` say which view each combination of its flags stands for, and `OpenAIMatch`,
`ResponsesMatch` and `GeminiMatch` which combinations the answer so far can have
led to. These are the strengthening: that a tool call never meets an open thinking block, say,
follows from what the backend has sent and from nothing the translator checks. Gemini's batch of
tool calls is a queue of its own, given event by event (`ReachesCalls`) and joined (`ReachesJoin`). A client that
has left hears nothing more, while the task goes on until it notices; the invariant keeps
some client whom the queue still serves, and it is the real one while that is connected.

**RateLimiterProofs.** `TypeCorrect`, and every safety property of `rate_limit`, for local windows and for Redis under
either policy, for any limits, window, clock skew and number of requests and threads.

* `CeilingHolds` (`WindowInv`). What was let in lately is counted: after any time that is recent
  enough, at most as many requests were admitted as the window has entries, and those Redis did not
  hear of (`Counted`). That says something of every suffix of two sequences, because a check may cut the
  window at a time that lies before the clock of another instance. The window is in order (`InOrder`), which the
  local one owes to the guard: the one request that is in the critical section has read the
  clock no earlier than those before it (`Earliest`). A refused request counts nowhere, and a window that
  is full is not made longer.
* `TokensHold` (`TokensInv`). The local window's tokens, with the most that each request that has passed the check
  may still record, are at most the limit and the most that all requests at once may record. A check passes
  below the limit and makes a spender; a record turns a spender into tokens; a spender lost is room gained.
* `RefusalsHold` (`RefusalInv`). A request that waits as it was told returns less than a second before the entry that
  refused it has left the window, because `retry_after` was rounded down, and at its second return the entry is gone.

`Answered` has no counterpart here: what it needs besides fairness is that fewer calls block than there are threads, which is a count.

All of this is about sequences of any length. The library's induction theorems
take the induction's hypothesis as a parameter, which the provers cannot instantiate, but a set of numbers that is
not empty has a least element (`Least`, from the well-founded order on finite sets), so that a
concrete claim about the lengths or the sums of windows is shown from its least counterexample. Even that the recursive
function `TokensIn` sums with exists is shown in this way.

Only model-checked: liveness (`EventuallySettled`, `EventuallyCompleted`, `EventuallyAnnounced`,
`CompletedIsSeen`, `Ends`, `Answered`), which the prover cannot reach. What each of these but the last rests on besides fairness
is proved, in this order: `EventsDescend`, `LastOutcomeIsSeen`, `NoCancelForgotten`, `CompletedIsTold` and
`RequestDescends`. Every invariant and every action property of a passing run is a theorem.

## 5. Not modelled

* Response cache: lookups and stores of whole answers; what could go wrong is
  the key, a hash of data. Expiry and eviction are those of moka and Redis.
* Thinking repair store: a bounded map behind one lock; what it returns depends on hashes of the conversation.
* Tool loop: all its call sites (`messages.rs:358`, `backend_openai.rs:83`, `handler.rs:396`, `tool_loop.rs:34`)
  pass an empty list of advertised tools, so at this commit it runs no tool.
* Message translation, the reverse translator (Anthropic to OpenAI chunks), the provider catalog, prompt
  compression, the admin front end: data without control.
* Admin metrics, logs and callbacks: counters and fire-and-forget notifications.
* Of modelled components: latency-based selection (least busy with another metric); `tpm_limit` of a
  deployment (`record_tokens` counts, nothing compares); roles; spend alerts (`cost/mod.rs:17`);
  files of a batch and their validation; `update_progress` and
  `get_native_jobs_in_progress`, which have no caller; the matching of a model's name to a route; SSE
  framing. A shutdown of the dispatcher is a crash that waits.

Most of the repository's lines are in these: tables of prices and models, conversions
between formats, and tests.

## 6. Plan

Done: `WebhookQueue`, `BatchQueue`, `BatchEngine`, `VirtualKey`, `RateLimiter`, `DeploymentRouter`, `UpstreamRequest`,
`ManagedBackends` and the three streaming translators, all with proofs of their safety properties.

Next, in this order:

1. Route matching and the removal of single models (`RouteRouter`), over `ManagedBackends`.
2. The cache, with the parts of a request as the key; the reverse translator against a message stream of its own.

## 7. Running

    tlc -workers 2 -config MCWebhookQueue.cfg MCWebhookQueue
    tlapm WebhookQueueProofs.tla

Each `.cfg` names its module by its longest prefix, e.g. `MCVirtualKeyBudget.cfg` is for
`MCVirtualKey`. The runs take between a second and about three minutes each on two workers.
