---------------------------- MODULE NotifService ----------------------------
(***************************************************************************)
(* The service as a whole: the API (Admission), the workers behind the     *)
(* send queue (Delivery) and the status callbacks (StatusCallbacks) over   *)
(* the one messages table they share.                                      *)
(*                                                                         *)
(* The components meet in two places.  SQS turns a job the API sent into   *)
(* one a worker may receive, and the provider posts callbacks for a sid    *)
(* only after it accepted the send of that sid.  The steps of the          *)
(* components that stood for the others (Delivery!Enqueue and              *)
(* StatusCallbacks!SetDetails) are replaced by the real ones.              *)
(***************************************************************************)
EXTENDS MessageStore, Sequences, FiniteSets

CONSTANTS
    Requests, Tenant, IdemKey, To, MaxPerDay, LastDay, ApiFaults,
    Workers, NoMessage, VisibilityTimeout, StaleAfter, MaxReceiveCount,
    ClaimWithin, HandleWithin, WorkerFaults,
    Callbacks, About, Sid, Status, Handlers, Processors, NoCallback, UseQueue,
    MaxUpdates, MaxPosts, MaxReceive, MaxFaults

ASSUME NotifServiceAssumption ==
    /\ IsFiniteSet(Requests) /\ NoMessage \notin Requests
    /\ DOMAIN Tenant = Requests /\ DOMAIN IdemKey = Requests /\ DOMAIN To = Requests
    /\ MaxPerDay \in Nat /\ LastDay \in Nat
    /\ ApiFaults \subseteq {"database", "queue", "crash"}
    /\ VisibilityTimeout \in Nat \ {0} /\ StaleAfter \in Nat /\ MaxReceiveCount \in Nat \ {0}
    /\ ClaimWithin \in Nat /\ HandleWithin \in Nat
    /\ WorkerFaults \subseteq {"database", "transport", "crash"}
    /\ About \in [Callbacks -> Requests]
    /\ Sid \in [Callbacks -> Nat \ {NoSid}]
    /\ Status \in [Callbacks -> {"queued", "sent", "delivered", "failed", "undelivered"}]
    /\ NoCallback \notin Callbacks
    /\ UseQueue \in BOOLEAN
    /\ MaxUpdates \in Nat \ {0} /\ MaxPosts \in Nat /\ MaxReceive \in Nat \ {0}
    /\ MaxFaults \in Nat

VARIABLES
    messages,                                                  \* shared
    caps, suppressed, optedIn, jobs, recent, day, apiPc, now, reason, reply,
    attempts, queue, accepted, workerPc, job, receipt, attempt, answer, spent,
    events, posts, acked, hookPc, handled, tried, eventQueue, ppc, entry, toFix, faults

apiVars    == <<caps, suppressed, optedIn, jobs, recent, day, apiPc, now, reason, reply>>
workerVars == <<attempts, queue, accepted, workerPc, job, receipt, attempt, answer, spent>>
hookVars   == <<events, posts, acked, hookPc, handled, tried, eventQueue, ppc, entry, toFix, faults>>
vars       == <<messages, apiVars, workerVars, hookVars>>

Api    == INSTANCE Admission WITH pc <- apiPc, Faults <- ApiFaults
Worker == INSTANCE Delivery WITH Messages <- Requests, pc <- workerPc, Faults <- WorkerFaults
Hook   == INSTANCE StatusCallbacks
              WITH Messages <- Requests, SidOf <- [r \in Requests |-> 1],
                   pc <- hookPc, queue <- eventQueue

Init ==
    /\ Api!Init
    /\ Worker!Init
    /\ events = <<>> /\ posts = [c \in Callbacks |-> 0] /\ acked = {}
    /\ hookPc = [h \in Handlers |-> "idle"]
    /\ handled = [h \in Handlers |-> NoCallback]
    /\ tried = [h \in Handlers |-> 0]
    /\ eventQueue = <<>>
    /\ ppc = [p \in Processors |-> "idle"]
    /\ entry = [p \in Processors |-> 0]
    /\ toFix = [m \in Requests |-> "none"]
    /\ faults = 0

-----------------------------------------------------------------------------
\* SQS has every job the API sent to hand out.
JobsArrive ==
    queue' = [m \in Requests |-> IF m \in jobs' \ jobs
                                   THEN [queue[m] EXCEPT !.status = "queued"]
                                   ELSE queue[m]]

ApiDoes(step) ==
    /\ step
    /\ JobsArrive
    /\ UNCHANGED <<attempts, accepted, workerPc, job, receipt, attempt, answer, spent, hookVars>>

CreateAndEnqueueSMS(r) == ApiDoes(Api!CreateAndEnqueueSMS(r))

WorkerDoes(step) == step /\ UNCHANGED <<apiVars, hookVars>>

Process(w)    == WorkerDoes(Worker!Process(w))
Receive(w, m) == WorkerDoes(Worker!Receive(w, m))
Redrive(m)    == WorkerDoes(Worker!Redrive(m))
Tick          == WorkerDoes(Worker!Tick)

HookDoes(step) == step /\ UNCHANGED <<apiVars, workerVars>>

Handle(h)    == HookDoes(Hook!Handle(h))
Reconcile(m) == HookDoes(Hook!Reconcile(m))

\* The provider knows the sid of a send it accepted.
Post(h, c) ==
    /\ Sid[c] <= accepted[About[c]]
    /\ HookDoes(Hook!Post(h, c))

\* The calm part: no worker dies, and neither the day nor what subscribers wish
\* changes.  It is what a run can explore.
CalmNext ==
    \/ \E r \in Requests : ApiDoes(Api!Arrive(r)) \/ CreateAndEnqueueSMS(r)
                         \/ ApiDoes(Api!Crash(r))
    \/ \E r \in Requests : ApiDoes(Api!ForgetDeduplication(IdemKey[r]))
    \/ \E w \in Workers : Process(w)
    \/ \E w \in Workers, m \in Requests : Receive(w, m)
    \/ \E m \in Requests : Redrive(m) \/ Reconcile(m)
    \/ \E h \in Handlers : Handle(h) \/ HookDoes(Hook!CrashHandler(h))
    \/ \E h \in Handlers, c \in Callbacks : Post(h, c)
    \/ Tick

Next ==
    \/ CalmNext
    \/ \E w \in Workers : WorkerDoes(Worker!Crash(w))
    \/ \E s \in Api!Subscribers : ApiDoes(Api!Withdraw(s)) \/ ApiDoes(Api!OptIn(s))
    \/ ApiDoes(Api!Midnight)

\* The service, which the proofs are about, and its calm part, which the run explores.
Spec     == Init /\ [][Next]_vars
CalmSpec == Init /\ [][CalmNext]_vars

\* As in the components: what was started goes on, SQS hands out what it holds,
\* time passes and the cron job runs.  Clients and the provider's callbacks may stop.
Fairness ==
    /\ \A r \in Requests : WF_vars(CreateAndEnqueueSMS(r))
    /\ \A w \in Workers : WF_vars(Process(w))
    /\ \A m \in Requests :
          /\ WF_vars(\E w \in Workers : Receive(w, m))
          /\ WF_vars(Redrive(m))
          /\ WF_vars(Reconcile(m))
    /\ \A h \in Handlers : WF_vars(Handle(h))
    /\ WF_vars(Tick)

FairSpec == CalmSpec /\ Fairness

-----------------------------------------------------------------------------
(* Properties. *)

\* The idempotency key of the client is good to the provider's end: however its
\* requests race, are repeated and fail, however jobs are redelivered and calls
\* retried, at most one message of one send reaches the provider, as long as the
\* workers' own calls work and return in time.
OneSendPerKey ==
    \A r, s \in Requests :
        Api!SameKey(r, s) /\ accepted[r] > 0 /\ accepted[s] > 0
            => r = s /\ accepted[r] = 1

\* A refusal holds to the provider's end: a message of which any client was told
\* that it is suppressed has not been sent and will not be.
RefusedIsNotSent ==
    \A r \in Requests : reply[r].state = "suppressed" => accepted[reply[r].id] = 0

\* A subscriber who is on the list when the request arrives, or has no consent then
\* and gives none, gets nothing from the provider, whichever of the calls in between
\* fail.  Who withdraws after the API has asked gets the message all the same: the
\* worker does not ask again.
UnwantedIsNotSent ==
    \A r \in Requests :
        [](apiPc[r] = "new" /\ ([]Api!OnList(r) \/ []Api!NoConsent(r)) => [](accepted[r] = 0))

\* In direct mode an outcome the webhook answered for stays on its message: the
\* callback finds the row although it races with the worker's SetProviderDetails,
\* and no redelivered job writes another state over it.  (The API does, as "failed",
\* if the queue took the job with an error and notification.go:107 comes this late.)
OutcomeIsApplied == Hook!AckedIsApplied

\* In direct mode no message is "delivered" but by a stored callback of its sid.
DeliveredIsConfirmed ==
    \A r \in Requests : messages[r].state = "delivered" =>
        \E c \in Callbacks : /\ Hook!Stored(c) /\ Hook!HasSid(r, c)
                             /\ Hook!NewState(Status[c]) = "delivered"

\* The three components together implement the life of a message, although each
\* writes messages.state without asking the others.
Life == INSTANCE MessageLifecycle
            WITH Messages <- Requests,
                 state <- [r \in Requests |-> messages[r].state], sends <- accepted

ImplementsLifecycle == Life!Spec

\* A request of a message without a job has ended, with another answer than "queued".
Stranded(m) ==
    /\ m \notin jobs
    /\ apiPc[m] = "done" /\ reply[m].state # "queued"

\* "queued" is a promise, to the first request and to a repeated one: the message
\* gets to the provider or is failed, or its job is where an operator finds it, if
\* the visibility timeout leaves room for a stale claim and the wait for a worker.
\* main.go:129 leaves none, and a repetition may be told so of a stranded message.
AcceptedEnds ==
    \A m \in Requests :
        (\E r \in Requests : reply[r] = [id |-> m, state |-> "queued"])
            ~> \/ messages[m].state \in {"submitted", "delivered", "failed"}
               \/ queue[m].status = "dlq"
               \/ Stranded(m)
=============================================================================
