# notif-service in TLA+

A verification project for notif-service, a Go service that accepts SMS
requests over HTTP, queues them in SQS, sends them through a Twilio-shaped
provider and follows the provider's status callbacks. The modules are written
from the source; a definition's comment names the code it stands for, and
`PROJECT.json` maps each definition to its lines.

## The system

| Component | Code | State it keeps | Operations |
|---|---|---|---|
| API | `internal/httpserver/handlers.go`, `internal/service/notification.go` | none of its own: rows in PostgreSQL, jobs in SQS | `POST /v1/sms/messages` → `CreateAndEnqueueSMS`: idempotency lookup, insert, suppression, consent, daily cap, enqueue; `GET /v1/messages/{id}` |
| Store | `internal/store/pg/store.go`, `deploy/k8s/jobs/sql/001_init.sql` | `messages`, `send_caps_daily`, `suppression_list`, `consents`, `provider_attempts`, `delivery_events` | one SQL statement each, but for the transaction of `IncrementDailyCap` |
| Send queue | SQS FIFO, `producer.go`, `infra/main.tf` | jobs, visibility, receive counts, deduplication ids | send, receive, delete, redrive |
| Worker | `cmd/worker`, `queue/sqs/consumer.go`, `worker/processor.go` | a pool of goroutines, a channel of received jobs, a limiter, a circuit breaker | receive a job, `Process` it, delete it if `Process` returned nil |
| Provider client | `providers/twilio/client.go` | none | `SendSMS`, `ShouldRetry`, `Backoff` |
| Webhook | `httpserver/webhook.go` | none | a status callback: store and apply it (direct mode), or queue it (`WEBHOOK_USE_QUEUE`) |
| Webhook processor | `cmd/webhook-processor`, `queue/sqs/webhook_events.go` | a pool like the worker's | receive an event, apply and store it, delete it |
| Reconcile job | `deploy/k8s/jobs/sql/reconcile-submitted.sql` | none | give a submitted row its last stored terminal outcome |
| Mock provider | `cmd/mock-provider` | a counter, a random source | answer a send, post its callbacks with retries |

They share the `messages` row and nothing else. Its `state` goes `queued` →
`processing` → `submitted` → `delivered` or `failed`, with `suppressed` and
`failed` as early ends; the API creates it, the worker claims it with a
conditional `UPDATE`, and callbacks find it by `provider_msg_id`. Every other
statement on it is unconditional. Two SQS queues, both at least once, lie
between the parts; no part remembers anything across a restart but the
database and the queues.

### What is hard about it

* The same job, request or callback is handled by several goroutines on several
  pods at once, each of them half-way through a sequence of database calls.
* Every call can fail before or after it took effect, and pods die between calls
  (the API and webhook do so on every shutdown: `ListenAndServe` returns as soon
  as `Shutdown` begins, and `main` returns with it).
* A claim is a lock with an expiry, and the expiry is compared with a clock that
  nothing ties to how long a handler takes.
* SQS redelivers after a visibility timeout, honours the newest receipt handle
  only, drops duplicates silently and dead-letters after a number of receives.
* Callbacks come before the row has their sid, twice, late, and in any order.

### What makes each component correct

* **Acceptance**: one job per tenant and key; never over the daily cap; nobody
  who was refused, or who did not want it from the request on, is messaged; no row is left without a job
  unless its client or the row says so.
* **Delivery**: one sender at a time; a settled message is not touched; the row
  names the newest accepted send and the trail has it; a job is not deleted
  before its message is settled, and comes to rest.
* **Callbacks**: what is acknowledged is not lost; what is applied is stored;
  what is stored is applied, in the end.
* **Pool**: nothing is deleted that was not handled; a shutdown ends it by
  itself and leaves nothing running; every message is done with some day.
* **Provider**: a sid means one send; callbacks come in order, with bounded
  retries, and the outcome among them.
* **The whole**: one send per idempotency key; nothing sent that was refused, was
  unwanted from the request on or is over the cap; an outcome that is applied stays and was
  confirmed; every write of `messages.state`, whoever makes it, is a step of a
  message's life; an accepted message ends.

`PROJECT.json` lists the hazards behind these, each at its line.

## The modules

| Module | Models | Role |
|---|---|---|
| `MessageLifecycle` | the life of a message as `messages.state` tells it | the abstract specification: a state and a count of sends per message |
| `MessageStore` | the statements on one `messages` row | operators from old row to new row, used by the three components |
| `Admission` | API and service over database and send queue | one action per call of `CreateAndEnqueueSMS`; a request is one run of the handler, and its name is also the id drawn for it |
| `Delivery` | send queue, worker pool, `Process`, the provider's answers | one action per call of `Process`; a worker is one receipt being handled; has time |
| `StatusCallbacks` | webhook in both modes, events queue, processor, reconcile job | one action per call of the handlers |
| `NotifService` | the three above over one `messages` table | their instances; the steps in which one stood for another are replaced by the other's own |
| `ConsumerPool` | `PollConcurrent` of both queues inside `cmd/worker` and `cmd/webhook-processor` | one action per step of producer, goroutine, `PollConcurrent` and `main`; the handler only returns nil or an error |
| `MockProvider` | `cmd/mock-provider` | one action per step of `handleSend` and per callback posted |
| `MCAdmission`, `MCDelivery`, `MCStatusCallbacks`, `MCNotifService`, `MCConsumerPool`, `MCMockProvider` | — | values of the constants for TLC |
| `AdmissionProofs`, `DeliveryProofs`, `StatusCallbacksProofs`, `NotifServiceProofs`, `ConsumerPoolProofs`, `MockProviderProofs` | — | theorems with their proofs |

`Admission`, `Delivery` and `StatusCallbacks` use `MessageStore`; the first two
and `NotifService` implement `MessageLifecycle` by refinement mappings.
`ConsumerPool` and `MockProvider` stand alone: they look inside what `Delivery`
and `StatusCallbacks` assume of a pool (any received job may be handled, at any
pace, or be dropped with its pod) and of a provider (`KeepsToProtocol`).

How they correspond to the code:

* **Control is kept, data is abstracted.** A `pc` per handler names its next
  database, queue or provider call, and each call is an action, so handlers
  interleave between any two calls of the code. Bodies, phone numbers,
  templates and timestamps are model values or are left out (whether a template
  is known is a choice of `Claim`); a sid is a number, the how-manieth send of
  the message the provider accepted.
* **A failing call** is a disjunct of its action: the statement committed or
  not, then the handler does what the code does with the error, dropped errors
  included (the update after a missing consent or a reached cap, the failed
  mark after a failed send). `Faults` says which kinds happen in a run. Killed
  pods and contexts canceled by a shutdown are covered by `Crash` and by
  failing statements.
* **Time** is in `Delivery` only. A row holds its age since `updated_at` and a
  job the visibility it has left; `Tick` moves both. Ages are not told apart
  above `StaleAfter`, so the state space is finite without a bound on time.
* **The deadlines** `ClaimWithin` (receipt to claim) and `HandleWithin` (claim
  to return) are assumptions, 0 for none, and part of `Tick`'s guard. The code
  limits the limiter's wait (2 s), the provider call (6 s), the attempts (3) and
  the backoff, 27 s or so in all, against a staleness of 60 s by default and
  180 s as deployed; but its database calls and the wait in the jobs channel
  have no limit. So each property is checked with the deadlines it needs, and
  says so.
* **SQS** is modelled as the code and `infra/main.tf` use it. In `Delivery` a
  message has one job, which `OneJobPerKey` of `Admission` justifies; in
  `StatusCallbacks` the queue keeps every event ever sent, so duplicates are
  separate entries.
* **Left out within these**: the order SQS keeps in a FIFO message group (the
  pool does not keep it either) and clock skew between pods (it acts like a
  longer `HandleWithin`).
* `StatusCallbacks` sends each message once: its `SetDetails` is the statement of
  one worker. In `NotifService` the workers of `Delivery` make it, and a send may
  be repeated.
* **Sids.** A sid is a number that counts the sends of one message, so a callback
  has a message besides (`About`) and finds a row when both agree (`HasSid`). In
  the code the sid alone is in the `WHERE`; that one sid never names the sends of
  two messages is the provider's promise (`DistinctSids` looks at the mock's).
* **The cron job** is one SQL statement in two steps: what its snapshot selects of a
  row (`SelectToFix`), and the `UPDATE`, whose only condition is the row's id
  (`UpdateToFix`). A callback may come between and be overwritten; the ten-second
  guard of the statement makes that rare and not impossible. Its `LIMIT` is the
  choice of when it looks at a row.
* **Consent** may be withdrawn and given again, and a number suppressed, at any
  time (`Withdraw`, `OptIn`, after `seed.sql`, which, but for tests, alone
  writes these tables); nothing takes a number off the suppression list. The API
  asks once and the worker does not ask again, so who withdraws after the check
  gets the message. `WithdrawnIsNotSent` is therefore about subscribers who are on
  the list when the request arrives, or have no consent then and give none later.
* **The composition** shares the table and nothing else. `NotifService` replaces
  `Delivery!Enqueue` by the jobs the API sent and `StatusCallbacks!SetDetails` by
  the worker's own, and lets the provider post for a sid only once it has
  accepted the send. `Next` is the whole: pods of every part die, subscribers
  withdraw and give consent, and the day turns. `Spec`, which all the theorems are
  about, has it. The run explores `CalmSpec`, the part of it (`CalmIsPart`) in which
  no worker dies and neither the day nor the subscribers' wishes change; these start
  as any. The one thing left out of both is the processor of the events queue.
* **Shutdown** is `ConsumerPool`'s: a canceled context is a flag the producer
  checks before a receive and in its `select`, that fails a `DeleteMessage`, and
  that fails the worker's handler when it was set before the handler began.
  `detached` tells the two pools apart: `processWebhookEvent` works with
  `context.Background()`.
* **Callbacks of the mock provider** are posted by one goroutine per send, one
  after the other; `todo` is what is left of its sequence. Delays are left out, and
  `retryBackoff` with its jitter and `Retry-After` with them: they decide when, not
  whether, a post is made.

## The runs

Each run asks one question. Bounds are in its `.cfg`.

| Run | Shows | Bounds, and why they are enough |
|---|---|---|
| `Delivery_timely` | with handlers that return before their claim is stale, the claim is a lock (`Exclusive`), the row has the newest sid, settled rows stay, and only steps of the abstract life are taken; a row still queued was never touched, and the trail has the row's sid | 1 message, 2 workers, 3 receives, every fault: two overlapping receipts and one more after both failed. Messages share nothing, so one message shows what one can do |
| `Delivery_rest` | nothing is deleted unsettled (`NoLoss`) and every job comes to rest (liveness), when the visibility timeout exceeds staleness plus the wait for a worker | staleness 1, wait 1, visibility 3, handlers of any speed; 2 workers, so receipts overlap; 2 receives, so a job is redelivered and then dead-lettered; failing statements, dying pods |
| `Delivery_redelivered`, `Delivery_refused`, `Delivery_limited` | three findings, below | 1 worker, no fault, the staleness `main.go` configures; one property each |
| `Admission_racing` | `OneJobPerKey`, `WithinDailyCap`, `SuppressedIsNotSent`, `WithdrawnIsNotSent`, `StrandedIsKnown`, and only steps of the abstract life | 3 requests: two race for a key, the third for the last place under a cap of 1; 2 days; every fault; at any time consent is withdrawn or given, and numbers are suppressed |
| `Admission_foreign` | a finding, below | two tenants, one key |
| `StatusCallbacks_direct` | the message of an acknowledged outcome has an outcome the provider reported of that send, what is applied is stored, and what is stored is applied in the end (liveness) | 1 send, a callback on the way and two outcomes that contradict each other, 2 handlers, each callback posted twice, 1 fault: a handler may die and the provider give up, and callbacks come between the cron job's two steps: 471 184 states |
| `StatusCallbacks_queued` | an acknowledged callback is stored and applied, or in a queue; a queued event is applied or dead-lettered (liveness) | one outcome posted, and perhaps queued, twice, 2 handlers, 2 processors, 2 receives, 2 faults |
| `NotifService_whole` | one send per key from the client to the provider (`OneSendPerKey`); no message reaches the provider of which a client was told it is suppressed (`RefusedIsNotSent`); the message of an acknowledged outcome has one the provider reported, and keeps to such (`OutcomeIsApplied`), and nothing is `delivered` without a stored callback (`DeliveredIsConfirmed`); the abstract life under all three writers; and, with a visibility timeout that `main.go:129` does not leave, what was answered `queued` is settled or dead-lettered (`AcceptedEnds`, liveness; see below) | a request and its repetition for a subscriber of any wishes, 1 worker whose job is redelivered once, 1 callback, 1 handler that may die, failing statements and dying pods of the API: 197 440 states. What two workers or two callbacks do to each other is in the runs above, and proved for any number |
| `ConsumerPool_stops` | `DeletedIsDone`, `ReturnedIsQuiet`; a signal ends the pool by itself and every message is handled or dead-lettered (liveness) | 2 goroutines, a message and a poison one, a channel of 1, so that the producer blocks, batches of 2, 2 receives, 2 signals or kills, so that a pod stops while its successor's redelivery is under way |
| `MockProvider_posts` | distinct sids, callbacks in order and not after a 2xx, and the outcome posted in the end (liveness) | 2 sends to 1 process that may die (processes share nothing), all 4 modes, every configured kind, 1 retry |

`AcceptedEnds` carries over `Delivery_rest` and its assumption: `VisibilityTimeout` is
3, above `StaleAfter + ClaimWithin`. `cmd/worker/main.go:129` makes the first two
equal, and then a message answered `queued` can stay `processing` with no job
(finding 1). It counts every `queued` a client was told, those to a repetition
included; a repetition may be told so of a row whose own request failed, died or
was refused before there was a job (`Stranded`), which is the case
`StrandedIsKnown` is about, and such a row stays `queued` for good.

The counters that the code leaves unbounded are bounded by constants that name
what they bound: `LastDay`, `MaxPosts`, `MaxFaults`, `MaxStops`;
`MaxReceiveCount`, `MaxReceive`, `MaxUpdates` and `MaxRetries` are the system's
own limits (5, 10, 10 and 8), made smaller, as is `ChannelSize` (twice the
goroutines in the code). `MaxFaults` limits `StatusCallbacks`, and the webhook in
`NotifService`; elsewhere faults are not counted.

The one symmetry is that of the workers of `Delivery_timely`, which has no
liveness property. `CHECK_DEADLOCK FALSE` stands in the runs of `Admission`,
`StatusCallbacks`, `NotifService` and `MockProvider`, whose requests, callbacks
and sends are finite and come to an end; `Delivery` and `ConsumerPool`, whose
pools poll for ever, are checked for deadlock.

**Fairness.** A goroutine that has started goes on with its handler, and every
call returns, with an error at the latest (`WF` on `Process`,
`CreateAndEnqueueSMS`, `Handle`, `ProcessWebhookEvent`): Go schedules runnable
goroutines, and contexts or connections end the calls. SQS hands out a visible
message to a polling pool, makes it visible again and redrives it; the cron job
runs again. Nothing is assumed of clients, of the provider's posts, of the
worker's write in `StatusCallbacks`, and no fault ever has to happen. Weak
fairness is enough there, as nobody takes these steps away from an actor but by
taking them. `NotifService` assumes the same of its parts, `MockProvider` of its
handlers and goroutines. `ConsumerPool` needs strong fairness in one place: a
`ReceiveMessage` that returns something alternates with ones that return
nothing, and SQS does not answer a polling consumer with nothing for ever while
it has messages. `Timeout`, the ten seconds of `main`, is not fair: `PoolEnds`
shows that the pool does not need it.

Every property of a passing run has a mutant in `PROJECT.json`: a definition of
the code changed the way a slip would change it, under which the run fails.
Those operators stand before the definition they replace (`ClaimableAtLimit`,
`MarkSuppressedGoesOn`, ...) and nothing else uses them.

## Findings

1. **A failed job is deleted at its redelivery** (`Delivery_redelivered`).
   `cmd/worker/main.go:129` makes the claim's staleness the visibility timeout.
   The claim is younger than the receipt, so when SQS delivers the job again the
   row is `processing` and not yet stale; `Process` takes it for another
   worker's, returns nil, and the job is deleted. The message stays
   `processing`, and neither the queue nor the dead-letter queue has it.
   "let SQS redrive later" (`processor.go:113`) does not happen. With staleness
   plus the wait for a worker below the visibility timeout, `NoLoss` and
   `ComesToRest` hold (`Delivery_rest`).
2. **Transient statuses are not retried** (`Delivery_refused`): `SendSMS` makes
   an error of every status outside 2xx, and `ShouldRetry` looks at the status
   only when there is no error.
3. **A message can fail without having been tried** (`Delivery_limited`): after
   three waits for the limiter, against the comment at `processor.go:102`.
4. **Deduplication ids are not per tenant** (`Admission_foreign`): of two tenants
   with one idempotency key, SQS drops the second one's job while the API says
   `queued`.

Behaviour that no line of the repository contradicts, and so no finding, but
that a reader of the runs should know:

* With an ambiguous `SendMessage` the API marks a row `failed` that a worker may
  already have claimed or submitted (`notification.go:107`). `NotifService_whole`
  therefore runs with failing statements and dying pods but not with a failing
  queue: with `"queue" \in ApiFaults` it leaves the abstract life at that line, and
  so late a mark overwrites even an acknowledged `delivered`.
* Who withdraws consent after the API has asked gets the message: `processor.go`
  does not ask again.
* A callback applied between the snapshot of `reconcile-submitted.sql` and its
  `UPDATE` is overwritten with the outcome stored before it. With contradicting
  outcomes the message shows one of them either way.
* A pod that stops handles what is on its channel with a canceled context: the
  worker's handlers fail at once, the webhook processor's succeed and cannot
  delete their messages, which are then processed again.
* The mock provider numbers its sends per process. Its two replicas, and a
  restarted one, use the same sids, and `messages` finds rows by sid alone:
  `DistinctSids` is a property of one process.
* The mock provider's `retryBackoff` adds its jitter after the cap, so a wait may
  exceed it, and loses the top bits of `base * 2^attempt` from attempt 36 on; the
  default is 8 retries.

## The refinement

`MessageLifecycle` says in eight actions what the components promise together:
a message is sent only while `processing`, `submitted` only when it was sent,
settled by an outcome only after it was sent, and no state is left but along
these steps. The mapping is the row's state and the provider's count of accepted
sends. The statements that write `messages.state` are all unconditional but the
claim's, so that they keep to this is a property of who may be where when they
are issued: the claim in `Delivery`, the insert and the unique key in
`Admission`, the sid in `StatusCallbacks`. All three together implement it as well
(`NotifService`). `Delivery` implements it only with
handlers that return in time; without, a late worker moves a settled row.

## The proofs

`tlapm` checks the six proof modules to the last leaf. The theorems hold for
any sets of messages, workers, requests, callbacks and sends, any timeouts, caps
and counts, and any `Faults`; they assume the `ASSUME`s of the modules, and the
ones marked an assumption more:

* *timely*: `HandleWithin # 0 /\ HandleWithin <= StaleAfter`. A handler returns
  before its claim can go stale. Nothing in the code enforces it; see the
  deadlines above.
* *spaced*: `ClaimWithin # 0 /\ ClaimWithin + StaleAfter < VisibilityTimeout`. A
  redelivered job finds its predecessor's claim stale. `cmd/worker/main.go:129`
  sets the two timeouts equal, which is finding 1: what is proved from it is that
  other timeouts would mend the code, not a property of the code as configured.
* *careful*: `WorkerFaults = {}`. The workers' statements work, the provider's
  answers arrive and no worker's pod dies; the provider may still refuse, and the
  breaker and the limiter too. After any of those faults a worker cannot know
  whether its message was sent, and the code sends again: at least once.
* *no queue error*: `"queue" \notin ApiFaults`, for the reason given below the
  findings.
* *one tenant*: all requests have one tenant. With more, finding 4 applies.
* *direct*: `UseQueue = FALSE`, the mode the statement is about.

`DeliveryProofs`
* `Typing`: `TypeOK`; inductive as it stands.
* `Unclaimed`: `UnclaimedIsPristine`. It is not inductive: that no worker is past
  the claim of a queued row rests on a row without a job having no worker, so
  `PristineInv` adds what holds of absent rows. `PristineFrame` and
  `PristinePastClaim` reduce a step to the message its worker handles.
* `Trail`: `AuditTrail`, strengthened by what `RecordAttempt` leaves for
  `Submit`: the sid about to be written is in the trail.
* `ClaimIsExclusive`, `SubmittedSid`, `Settled` (*timely*): `ClaimInv` is what a
  claim means. A worker that is sending has a row in `processing` whose age is
  at most the time it has been at work (`HoldsClaim`), which its deadline keeps
  within `StaleAfter`, so no other worker can claim (`HeldIsNotClaimable`);
  and the answer it carries is the newest send (`AnswerIsNewest`), as nobody
  else sends. Exclusion alone is not inductive without the ages, nor the newest
  sid without exclusion, so they are proved together.
* `ImplementsTheLifecycle` (*timely*): with `SentInv`, a worker about to submit
  carries a sid the provider has counted, each step maps to one of the
  lifecycle's or stutters.
* `NoJobIsLost` (*spaced*, so not of the code as configured): the repair of finding 1,
  `NoLoss` for handlers of any speed. `KeptInv` relates
  three clocks: the age of a claim, the time a worker has spent on its receipt and
  the visibility the job has left. When a job is visible again the claim of its
  message is stale (`Expires`), so a worker before its claim has the newest
  receipt, alone, and finds no fresh claim to take for somebody's work
  (`Unrivalled`).

`AdmissionProofs`
* `Typing`: `TypeOK`.
* `OneJob`: `KeyInv`, present rows have different keys, and a request that is past
  the insert has its row; a job is sent only from there.
* `Suppressed`: `RefusalInv`, a refused request is done and has no job. The reply
  to a repeated request names another request's row, so the invariant is about
  rows, not replies.
* `DailyCap`: `CapInv`, the requests that have taken a place (sent or about to be)
  are no more than the counter says. It counts a set that grows with the
  counter, by the library's facts on cardinality.
* `ImplementsTheLifecycle`: `OwnInv`, a request's row is absent before its insert
  and `queued` while its handler decides.
* `Stranded` (*one tenant*): `StrandedInv` adds that SQS has taken a job for every
  deduplication id it remembers, so that a handler about to send, the only holder
  of its key, finds its id not remembered (`KeyIsNotRecent`).
* `WithdrawalIsFinal`: `WithdrawnIsNotSent`. As long as the subscriber stays on the
  list, or without consent, no step takes the handler past the check that says so
  (`BarredByList`, `BarredByConsent`), which turns the nested `[]` into an invariant
  from the arrival on.

`StatusCallbacksProofs`
* `Typing`: `TypeOK`, with `HandInv`: a busy handler has a callback, a busy
  processor an entry of the queue.
* `Answered`: `AckedIsKept`. A settled row may change its outcome, but only to another
  one the provider reported: `SourceInv` says that what is in hand, queued or stored
  was posted, and that what the cron job is about to write is a stored outcome of
  the row's sid. So `Grows` (what is stored, applied or acknowledged stays so)
  carries the property over most steps; `OrderInv` says what a handler
  or processor has already done at its present call, so that an answer or a
  delete finds both halves done.
* `DirectAnswers`, `DirectTrail` (*direct*): the queue stays empty (`DirectInv`),
  so of `AckedIsKept` the first half is left; `TrailInv`, the outcomes of messages
  are those of stored callbacks, follows from `OrderInv`.

`ConsumerPoolProofs`
* `Typing`: `TypeOK`, with a working goroutine holding a receipt.
* `DeletedAfterHandling`: `DoneInv`, a goroutine at its delete holds a receipt of a
  handled or a poison message.
* `ReturnsLast`: `QuietInv`, an error in `errCh` means a closed producer, and a
  goroutine is done only with an empty channel and a closed producer. It uses
  that there is a goroutine: with none nobody would have emptied the channel.

`MockProviderProofs`
* `Numbering`: `SidInv`, an accepted send's sid is below its process's counter.
* `Typing`: `TypeOK`.
* `Protocol`: `KeepsToProtocol`. `PostedInv` says of a send that what it has posted
  and what it has still to post are in order and distinct, and that the posts of
  the current callback are its last `attempt` ones, none answered 2xx.

`NotifServiceProofs` is about the composition, over `Spec`. A step is the
API's, a worker's or a callback's (`Steps`), and each component's invariant is
kept by its own steps as proved there. What remains is that the other two leave
it alone, and that is what the new invariants are for:

* `Base`: `BaseInv`, for workers of any speed and all faults. It has the types, the
  components' invariants that need no clock, and two ties: the send queue has the
  API's jobs and no other (`JobInv`), and a row a callback can find is that of a
  message with a job, past `queued` (`FoundInv`). `ApiMove`, `WorkMove` and
  `OutcomeOf` say of each component, in one formula, all it can do to a row, so
  that the others need not look at its calls.
* `OneMessagePerKey`: of the requests of one key at most one reaches the provider.
  A message that was sent has a job and so a row (`SentHasJob`), and rows have
  different keys.
* `RefusalIsFinal` (`RefusedIsNotSent`), `Unwanted` (`UnwantedIsNotSent`) and
  `CapToTheProvider` carry what `Admission` keeps of jobs over to what the
  provider accepts. `UnwantedIsNotSent` is about the subscribers of
  `WithdrawnIsNotSent`, while the others', and later their own, consent and the day
  change. No run has it as a property: wishes do not change in `CalmSpec`, and
  `Admission_racing` explores what changes do.
* `ClaimsStand` (*timely*): `TimedInv`, what holds when a claim is a lock. A row a
  worker is sending is `processing`, or `failed` when the API took an ambiguous
  error of the queue (`Held`: the claim still excludes, as `failed` is not
  claimable), and a row with a sid is nobody's to send (`SidInv`). So callbacks,
  which find rows by sid, never write a row that is being sent, and workers never
  write a row that a callback settled.
* `OneSend` (*timely*, *careful*): `OneSendPerKey`. `OnceInv`: what a worker is
  about to send was never sent, and what was sent is past claiming or in the hands
  of the worker that sent it, which knows it.
* `ImplementsTheLifecycle` (*timely*, *no queue error*): `ImplementsLifecycle`. The
  steps of the three components map to the abstract ones by the components' own
  lemmas.
* `Confirmed` (*direct*, *timely*): `DeliveredIsConfirmed`, by `OrderInv` of the
  callbacks: a handler updates a message after it has stored the event, the cron job
  writes what is stored of the row's sid, which nobody changes between its two
  steps (*timely*), and no other component writes `delivered`.
* `OutcomeStaysApplied` (*direct*, *timely*, *no queue error*): `OutcomeIsApplied`. An
  outcome needs a sid on the row, and neither the API nor a worker writes such a row
  (`SidInv`, `OutcomeStays`); callbacks and the cron job write reported outcomes only.
  With an error of the queue it is false: `notification.go:107` writes `failed` over
  whatever the row says.

Only model-checked: all liveness (`ComesToRest`, `AcceptedEnds`, `StoredIsApplied`,
`QueueDrains`, `PoolEnds`, `Drains`, `OutcomeIsPosted`), which is beyond the
prover, as is `ENABLED`. Every invariant and action property of a passing run is
also a theorem, under the assumptions above.

## What is not modelled

* `GET /v1/messages/{id}`, request decoding and validation, configuration,
  logging, metrics, health checks and deployment: no state that the components
  share.
* The webhook signature, templates, phone numbers, id generation: pure functions
  on strings the models take as model values.
* The sequential `Poll`, which the worker uses for `WORKER_CONCURRENCY <= 0`
  only (20 by default).
* The states of the circuit breaker and the limiter: libraries. The code sees
  nothing of them but the error of a call, and `Delivery` lets every call be
  refused.
* Delays: they decide when a step is taken, and every interleaving is checked.

## What could come next

* The processor of the events queue in the composition, as further steps of `Next`.
* `Poll`, as a second shape of `ConsumerPool`.
* Liveness of the composition with two workers and two callbacks, given a larger
  machine.
