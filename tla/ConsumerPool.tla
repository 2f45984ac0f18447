---------------------------- MODULE ConsumerPool ----------------------------
(***************************************************************************)
(* PollConcurrent (internal/queue/sqs/consumer.go, and line for line again *)
(* in webhook_events.go) inside the main that runs it (cmd/worker and      *)
(* cmd/webhook-processor): a producer goroutine that receives batches, a   *)
(* bounded channel, a pool of goroutines, and the shutdown that a signal   *)
(* sets off through the context, the error channel and the wait group.     *)
(*                                                                         *)
(* The two pools differ in what their handler does with the context: the   *)
(* worker's Process uses it for every call, processWebhookEvent works with *)
(* context.Background().  Both delete messages with it.                    *)
(*                                                                         *)
(* One pod is modelled from start to exit, and the pods that replace it    *)
(* one after the other.  The handler itself is the subject of Delivery and *)
(* StatusCallbacks; here it returns nil or an error.                       *)
(***************************************************************************)
EXTENDS Naturals, Sequences, FiniteSets

CONSTANTS
    Messages,         \* messages in the queue
    Poison,           \* those without a body, or with one that is not a job
    Workers,          \* goroutines of the pool
    NoReceipt,        \* what a waiting goroutine holds
    ChannelSize,      \* of the jobs channel; twice the workers in the code
    MaxMessages,      \* messages a ReceiveMessage may return
    MaxReceiveCount,  \* of the queue's redrive policy
    MaxStops          \* bound on signals and kills

\* A receipt handle: the message, and the how-manieth receive gave it.
Receipts == [message: Messages, number: Nat]

ASSUME PoolAssumption ==
    /\ Poison \subseteq Messages
    /\ Workers # {} /\ NoReceipt \notin Messages
    /\ ChannelSize \in Nat \ {0} /\ MaxMessages \in Nat \ {0}
    /\ MaxReceiveCount \in Nat \ {0} /\ MaxStops \in Nat

VARIABLES
    detached,   \* the handler works with context.Background()
    queue,      \* SQS: the status of each message and how often it was received
    handledOK,  \* the messages a handler returned nil for
    canceled,   \* ctx.Err() # nil
    producer,   \* the next step of the producer goroutine
    batch,      \* what it received and has not sent on the channel
    jobs,       \* the channel
    worker,     \* each goroutine of the pool
    errCh,      \* an error waits in errCh
    poll,       \* where PollConcurrent stands
    main,       \* where main stands
    stops       \* signals and kills so far

vars == <<detached, queue, handledOK, canceled, producer, batch, jobs, worker,
          errCh, poll, main, stops>>

\* A goroutine: its next step, the receipt it holds, and whether the context was
\* canceled when its handler began.
Goroutines == [at: {"range", "handle", "delete", "done"},
               receipt: Receipts \cup {NoReceipt}, late: BOOLEAN]
Waiting == [at |-> "range", receipt |-> NoReceipt, late |-> FALSE]

Init ==
    /\ detached \in BOOLEAN
    /\ queue = [m \in Messages |-> [status |-> "visible", receives |-> 0]]
    /\ handledOK = {}
    /\ canceled = FALSE
    /\ producer = "check" /\ batch = {} /\ jobs = <<>>
    /\ worker = [w \in Workers |-> Waiting]
    /\ errCh = FALSE /\ poll = "wait" /\ main = "running"
    /\ stops = 0

Running == main # "exited"

-----------------------------------------------------------------------------
(* The producer goroutine. *)

StopProducerSilently == producer' = "closed" /\ UNCHANGED errCh

\* sendErr and the deferred close(jobs): the producer returns.
StopProducer == producer' = "closed" /\ errCh' = TRUE

CheckContext ==
    /\ Running /\ producer = "check"
    /\ \/ canceled /\ StopProducer
       \/ ~canceled /\ producer' = "receive" /\ UNCHANGED errCh
    /\ UNCHANGED <<detached, queue, handledOK, canceled, batch, jobs, worker, poll, main, stops>>

Receivable == {m \in Messages : /\ queue[m].status = "visible"
                                /\ queue[m].receives < MaxReceiveCount}

Hide(taken) ==
    queue' = [m \in Messages |->
                 IF m \in taken
                   THEN [status |-> "hidden", receives |-> queue[m].receives + 1]
                   ELSE queue[m]]

GiveUpReceiving  == producer' = "closed" /\ UNCHANGED batch
NothingReceived == producer' = "check" /\ UNCHANGED batch

\* ReceiveMessage hides what it returns.  It may return nothing, and when it
\* fails, for one because the context was canceled meanwhile, what it has hidden
\* reaches nobody; in both cases the producer goes on with its loop.
ReceiveMessage ==
    /\ Running /\ producer = "receive"
    /\ \E taken \in SUBSET Receivable :
          /\ Cardinality(taken) <= MaxMessages
          /\ Hide(taken)
          /\ \/ /\ taken # {} /\ ~canceled
                /\ batch' = {[message |-> m, number |-> queue'[m].receives] : m \in taken}
                /\ producer' = "send"
             \/ NothingReceived
    /\ UNCHANGED <<detached, handledOK, canceled, jobs, worker, errCh, poll, main, stops>>

ChannelHasRoomAtSize == Len(jobs) <= ChannelSize
ChannelHasRoom == Len(jobs) < ChannelSize

\* The select: the channel has room, or the context is done; either, if both.
SendJob ==
    /\ Running /\ producer = "send"
    /\ \/ /\ ChannelHasRoom
          /\ \E r \in batch : jobs' = Append(jobs, r) /\ batch' = batch \ {r}
          /\ producer' = IF batch' = {} THEN "check" ELSE "send"
          /\ UNCHANGED errCh
       \/ canceled /\ StopProducer /\ batch' = {} /\ UNCHANGED jobs
    /\ UNCHANGED <<detached, queue, handledOK, canceled, worker, poll, main, stops>>

-----------------------------------------------------------------------------
(* The goroutines of the pool. *)

\* for m := range jobs.  A poison message is deleted without a handler; a
\* goroutine ends when the channel is closed and empty.
RangeJobs(w) ==
    /\ Running /\ worker[w].at = "range"
    /\ \/ /\ jobs # <<>>
          /\ jobs' = Tail(jobs)
          /\ worker' = [worker EXCEPT ![w] =
                 [at |-> IF Head(jobs).message \in Poison THEN "delete" ELSE "handle",
                  receipt |-> Head(jobs), late |-> canceled]]
       \/ /\ jobs = <<>> /\ producer = "closed"
          /\ worker' = [worker EXCEPT ![w].at = "done"]
          /\ UNCHANGED jobs
    /\ UNCHANGED <<detached, queue, handledOK, canceled, producer, batch, errCh, poll, main, stops>>

HandlerFailsDeletes(w) == worker' = [worker EXCEPT ![w].at = "delete"]

\* "If err != nil: do NOT delete".
HandlerFails(w) == worker' = [worker EXCEPT ![w] = Waiting]

\* The handler returns.  One that began with a canceled context and uses it has
\* failed at its first call.
Handle(w) ==
    /\ Running /\ worker[w].at = "handle"
    /\ \/ /\ worker[w].late => detached
          /\ handledOK' = handledOK \cup {worker[w].receipt.message}
          /\ worker' = [worker EXCEPT ![w].at = "delete"]
       \/ HandlerFails(w) /\ UNCHANGED handledOK
    /\ UNCHANGED <<detached, queue, canceled, producer, batch, jobs, errCh, poll, main, stops>>

\* DeleteMessage with the pool's context: it fails once that is canceled, and it
\* takes effect for the newest receipt handle only.  Its error is ignored.
DeleteMessage(w) ==
    /\ Running /\ worker[w].at = "delete"
    /\ LET m == worker[w].receipt.message IN
       \/ /\ ~canceled
          /\ worker[w].receipt.number = queue[m].receives
          /\ queue[m].status \in {"visible", "hidden"}
          /\ queue' = [queue EXCEPT ![m].status = "deleted"]
       \/ UNCHANGED queue
    /\ worker' = [worker EXCEPT ![w] = Waiting]
    /\ UNCHANGED <<detached, handledOK, canceled, producer, batch, jobs, errCh, poll, main, stops>>

-----------------------------------------------------------------------------
(* PollConcurrent and main. *)

AwaitError ==
    /\ Running /\ poll = "wait" /\ errCh
    /\ errCh' = FALSE
    /\ poll' = "drain"
    /\ UNCHANGED <<detached, queue, handledOK, canceled, producer, batch, jobs, worker, main, stops>>

AllIdle == \A w \in Workers : worker[w].at \in {"range", "done"}
AllDone == \A w \in Workers : worker[w].at = "done"

\* wg.Wait.
AwaitWorkers ==
    /\ Running /\ poll = "drain"
    /\ AllDone
    /\ poll' = "returned"
    /\ UNCHANGED <<detached, queue, handledOK, canceled, producer, batch, jobs, worker, errCh, main, stops>>

Signal ==
    /\ main = "running" /\ stops < MaxStops
    /\ main' = "stopping"
    /\ canceled' = TRUE
    /\ stops' = stops + 1
    /\ UNCHANGED <<detached, queue, handledOK, producer, batch, jobs, worker, errCh, poll>>

\* main ends after PollConcurrent, or without it after ten seconds; a pod is also
\* killed, and main exits at once when its health or metrics server fails.
Exit ==
    /\ main' = "exited"
    /\ UNCHANGED <<detached, queue, handledOK, canceled, producer, batch, jobs, worker, errCh, poll>>

MainReturns == main = "stopping" /\ poll = "returned" /\ Exit /\ UNCHANGED stops
Timeout     == main = "stopping" /\ Exit /\ UNCHANGED stops
Kill        == Running /\ stops < MaxStops /\ Exit /\ stops' = stops + 1

\* The next pod starts; all that is left of the last one is in SQS.
Restart ==
    /\ main = "exited"
    /\ main' = "running" /\ canceled' = FALSE
    /\ producer' = "check" /\ batch' = {} /\ jobs' = <<>>
    /\ worker' = [w \in Workers |-> Waiting]
    /\ errCh' = FALSE /\ poll' = "wait"
    /\ UNCHANGED <<detached, queue, handledOK, stops>>

-----------------------------------------------------------------------------
(* SQS. *)

\* The visibility timeout ends, wherever the receipt is.
Reappear(m) ==
    /\ queue[m].status = "hidden"
    /\ queue' = [queue EXCEPT ![m].status = "visible"]
    /\ UNCHANGED <<detached, handledOK, canceled, producer, batch, jobs, worker, errCh, poll, main, stops>>

Redrive(m) ==
    /\ queue[m].status = "visible" /\ queue[m].receives = MaxReceiveCount
    /\ queue' = [queue EXCEPT ![m].status = "dlq"]
    /\ UNCHANGED <<detached, handledOK, canceled, producer, batch, jobs, worker, errCh, poll, main, stops>>

Producer == CheckContext \/ ReceiveMessage \/ SendJob
Work(w)  == RangeJobs(w) \/ Handle(w) \/ DeleteMessage(w)
Poll     == AwaitError \/ AwaitWorkers

Next ==
    \/ Producer \/ Poll
    \/ \E w \in Workers : Work(w)
    \/ Signal \/ MainReturns \/ Timeout \/ Kill \/ Restart
    \/ \E m \in Messages : Reappear(m) \/ Redrive(m)

Spec == Init /\ [][Next]_vars

\* The goroutines go on (a handler's calls all end), ReceiveMessage does not fail
\* or come back empty for ever while there are messages, a pod that exited is
\* replaced and SQS keeps its time.  The ten seconds need not be over before the
\* pool is.
Fairness ==
    /\ WF_vars(Producer) /\ SF_vars(ReceiveMessage /\ batch' # {})
    /\ WF_vars(Poll)
    /\ \A w \in Workers : WF_vars(Work(w))
    /\ WF_vars(MainReturns) /\ WF_vars(Restart)
    /\ \A m \in Messages : WF_vars(Reappear(m)) /\ WF_vars(Redrive(m))

FairSpec == Spec /\ Fairness

-----------------------------------------------------------------------------
(* Properties. *)

\* Every variable keeps its type, and the channel its size.
TypeOK ==
    /\ detached \in BOOLEAN
    /\ queue \in [Messages -> [status: {"visible", "hidden", "deleted", "dlq"}, receives: Nat]]
    /\ handledOK \subseteq Messages
    /\ canceled \in BOOLEAN
    /\ producer \in {"check", "receive", "send", "closed"}
    /\ batch \subseteq Receipts
    /\ jobs \in Seq(Receipts) /\ Len(jobs) <= ChannelSize
    /\ worker \in [Workers -> Goroutines]
    /\ errCh \in BOOLEAN
    /\ poll \in {"wait", "drain", "returned"}
    /\ main \in {"running", "stopping", "exited"}
    /\ stops \in Nat

\* "Messages are deleted only after handler completes" (consumer.go), and only
\* when it returned nil: whatever is received again, restarted or canceled, a
\* deleted message was handled or is poison.
DeletedIsDone ==
    \A m \in Messages : queue[m].status = "deleted" => m \in handledOK \cup Poison

\* When PollConcurrent returns, nothing of the pool is left: every receipt on the
\* channel was taken, no goroutine is at work, so main may close the store.
ReturnedIsQuiet ==
    poll = "returned" =>
        /\ producer = "closed" /\ batch = {} /\ jobs = <<>>
        /\ \A w \in Workers : worker[w].at = "done"

\* A signal ends the pool by itself: main needs neither its ten seconds nor a kill.
PoolEnds == main = "stopping" ~> poll = "returned" \/ main = "exited"

\* A message is done with some day: handled and deleted, or dead-lettered; stops
\* and canceled deletes only bring it back.
Drains ==
    \A m \in Messages : <>[](queue[m].status \in {"deleted", "dlq"})
=============================================================================
