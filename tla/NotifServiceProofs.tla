------------------------- MODULE NotifServiceProofs -------------------------
(***************************************************************************)
(* What holds of NotifService for any number of requests, workers and      *)
(* callbacks.  The proofs of the components are used as they are: their    *)
(* invariants are kept by the component's own steps, so what is left to    *)
(* show is that the steps of the other two keep them as well.              *)
(***************************************************************************)
EXTENDS NotifService, FiniteSetTheorems, TLAPS

A == INSTANCE AdmissionProofs WITH pc <- apiPc, Faults <- ApiFaults
W == INSTANCE DeliveryProofs
         WITH Messages <- Requests, pc <- workerPc, Faults <- WorkerFaults
H == INSTANCE StatusCallbacksProofs
         WITH Messages <- Requests, SidOf <- [r \in Requests |-> 1],
              pc <- hookPc, queue <- eventQueue

-----------------------------------------------------------------------------
(* A step is one of the API, of the workers or of the callbacks. *)

ApiStep ==
    /\ A!Next
    /\ JobsArrive
    /\ UNCHANGED <<attempts, accepted, workerPc, job, receipt, attempt, answer, spent, hookVars>>

WorkerStep ==
    /\ W!Works
    /\ UNCHANGED <<apiVars, hookVars>>

HookWork ==
    \/ \E m \in Requests : H!Reconcile(m)
    \/ \E h \in Handlers : H!Handle(h) \/ H!CrashHandler(h)
    \/ \E h \in Handlers, c \in Callbacks : H!Post(h, c)

HookStep == HookWork /\ UNCHANGED <<apiVars, workerVars>>

\* NotifService and the proofs of its components instantiate the same modules
\* with the same variables, so an action of the one is an action of the other.
LEMMA SameApi ==
    ASSUME NEW r \in Requests
    PROVE  /\ Api!Arrive(r) => A!Arrive(r)
           /\ Api!CreateAndEnqueueSMS(r) => A!CreateAndEnqueueSMS(r)
           /\ Api!Crash(r) => A!Crash(r)
           /\ Api!ForgetDeduplication(IdemKey[r]) => A!ForgetDeduplication(IdemKey[r])
<1>1. Api!FindMessageByIdempotency(r) => A!FindMessageByIdempotency(r)
  BY DEF Api!FindMessageByIdempotency, A!FindMessageByIdempotency,
         Api!DatabaseError, A!DatabaseError, Api!ErrorReply, A!ErrorReply,
         Api!Answer, A!Answer, Api!Goto, A!Goto, Api!Holders, A!Holders,
         Api!SameKey, A!SameKey
<1>2. Api!CreateMessage(r) => A!CreateMessage(r)
  BY DEF Api!CreateMessage, A!CreateMessage, Api!DatabaseError, A!DatabaseError,
         Api!ErrorReply, A!ErrorReply, Api!Answer, A!Answer, Api!Goto, A!Goto,
         Api!Holders, A!Holders, Api!SameKey, A!SameKey,
         Api!InsertMessage, A!InsertMessage
<1>3. Api!IsSuppressed(r) => A!IsSuppressed(r)
  BY DEF Api!IsSuppressed, A!IsSuppressed, Api!DatabaseError, A!DatabaseError,
         Api!ErrorReply, A!ErrorReply, Api!Answer, A!Answer, Api!Goto, A!Goto,
         Api!Refuse, A!Refuse, Api!Subscriber, A!Subscriber
<1>4. Api!IsOptedIn(r) => A!IsOptedIn(r)
  BY DEF Api!IsOptedIn, A!IsOptedIn, Api!DatabaseError, A!DatabaseError,
         Api!ErrorReply, A!ErrorReply, Api!Answer, A!Answer, Api!Goto, A!Goto,
         Api!Refuse, A!Refuse, Api!Subscriber, A!Subscriber
<1>5. Api!IncrementDailyCap(r) => A!IncrementDailyCap(r)
  BY DEF Api!IncrementDailyCap, A!IncrementDailyCap,
         Api!DatabaseError, A!DatabaseError, Api!ErrorReply, A!ErrorReply,
         Api!Answer, A!Answer, Api!Goto, A!Goto, Api!Refuse, A!Refuse,
         Api!Subscriber, A!Subscriber, Api!BelowCap, A!BelowCap
<1>6. Api!EnqueueSMS(r) => A!EnqueueSMS(r)
  BY DEF Api!EnqueueSMS, A!EnqueueSMS, Api!SendMessage, A!SendMessage,
         Api!Answer, A!Answer, Api!Goto, A!Goto
<1>7. Api!MarkSuppressed(r) => A!MarkSuppressed(r)
  BY DEF Api!MarkSuppressed, A!MarkSuppressed, Api!Mark, A!Mark,
         Api!MarkMessageState, A!MarkMessageState, Api!Answer, A!Answer,
         Api!ErrorReply, A!ErrorReply
<1>8. Api!MarkFailed(r) => A!MarkFailed(r)
  BY DEF Api!MarkFailed, A!MarkFailed, Api!Mark, A!Mark,
         Api!MarkMessageState, A!MarkMessageState, Api!Answer, A!Answer,
         Api!ErrorReply, A!ErrorReply
<1>9. Api!Arrive(r) => A!Arrive(r)
  BY DEF Api!Arrive, A!Arrive
<1>10. Api!Crash(r) => A!Crash(r)
  BY DEF Api!Crash, A!Crash, Api!Answer, A!Answer, Api!NoReply, A!NoReply
<1>11. Api!ForgetDeduplication(IdemKey[r]) => A!ForgetDeduplication(IdemKey[r])
  BY DEF Api!ForgetDeduplication, A!ForgetDeduplication
<1> QED
  BY <1>1, <1>2, <1>3, <1>4, <1>5, <1>6, <1>7, <1>8, <1>9, <1>10, <1>11
     DEF Api!CreateAndEnqueueSMS, A!CreateAndEnqueueSMS

\* So are the subscribers' and midnight.
LEMMA SameSubscribers ==
    /\ Api!Subscribers = A!Subscribers
    /\ \A s \in A!Subscribers : /\ Api!Withdraw(s) => A!Withdraw(s)
                                /\ Api!OptIn(s) => A!OptIn(s)
    /\ Api!Midnight => A!Midnight
<1>1. Api!Subscribers = A!Subscribers
  BY DEF Api!Subscribers, A!Subscribers, Api!Subscriber, A!Subscriber
<1>2. \A s \in A!Subscribers : Api!Withdraw(s) => A!Withdraw(s)
  BY DEF Api!Withdraw, A!Withdraw
<1>3. \A s \in A!Subscribers : Api!OptIn(s) => A!OptIn(s)
  BY DEF Api!OptIn, A!OptIn
<1>4. Api!Midnight => A!Midnight
  BY DEF Api!Midnight, A!Midnight
<1> QED
  BY <1>1, <1>2, <1>3, <1>4

\* As for the API, the steps of a worker.
LEMMA SameWorker ==
    ASSUME NEW w \in Workers
    PROVE  /\ Worker!Process(w) => W!Process(w)
           /\ \A m \in Requests : Worker!Receive(w, m) => W!Receive(w, m)
           /\ Worker!Crash(w) => W!Crash(w)
<1>1. Worker!GetMessageForWorker(w) => W!GetMessageForWorker(w)
  BY DEF Worker!GetMessageForWorker, W!GetMessageForWorker,
         Worker!DatabaseError, W!DatabaseError, Worker!Idle, W!Idle,
         Worker!NoAnswer, W!NoAnswer, Worker!NoSid, W!NoSid,
         Worker!AlreadyHandled, W!AlreadyHandled, Worker!Goto, W!Goto
<1>2. Worker!Claim(w) => W!Claim(w)
  BY DEF Worker!Claim, W!Claim, Worker!DatabaseError, W!DatabaseError,
         Worker!Idle, W!Idle, Worker!NoAnswer, W!NoAnswer, Worker!NoSid, W!NoSid,
         Worker!Claimable, W!Claimable, Worker!ClaimMessage, W!ClaimMessage,
         Worker!Goto, W!Goto
<1>3. Worker!RejectTemplate(w) => W!RejectTemplate(w)
  BY DEF Worker!RejectTemplate, W!RejectTemplate,
         Worker!DatabaseError, W!DatabaseError, Worker!Idle, W!Idle,
         Worker!NoAnswer, W!NoAnswer, Worker!NoSid, W!NoSid,
         Worker!GiveUp, W!GiveUp, Worker!MarkMessageState, W!MarkMessageState
<1>4. Worker!AcquireToken(w) => W!AcquireToken(w)
  BY DEF Worker!AcquireToken, W!AcquireToken, Worker!Goto, W!Goto,
         Worker!NextAttempt, W!NextAttempt, Worker!MaxAttempts, W!MaxAttempts
<1>5. Worker!ExecuteWithBreaker(w) => W!ExecuteWithBreaker(w)
  BY DEF Worker!ExecuteWithBreaker, W!ExecuteWithBreaker, Worker!Idle, W!Idle,
         Worker!NoAnswer, W!NoAnswer, Worker!NoSid, W!NoSid,
         Worker!Errors, W!Errors, Worker!Statuses, W!Statuses,
         Worker!Returned, W!Returned, Worker!Goto, W!Goto
<1>6. Worker!RecordAttempt(w) => W!RecordAttempt(w)
  BY DEF Worker!RecordAttempt, W!RecordAttempt,
         Worker!DatabaseError, W!DatabaseError, Worker!Idle, W!Idle,
         Worker!NoAnswer, W!NoAnswer, Worker!NoSid, W!NoSid, Worker!Goto, W!Goto,
         Worker!AfterRecord, W!AfterRecord, Worker!Retries, W!Retries,
         Worker!ShouldRetry, W!ShouldRetry,
         Worker!TransientStatus, W!TransientStatus,
         Worker!NextAttempt, W!NextAttempt, Worker!MaxAttempts, W!MaxAttempts
<1>7. Worker!Submit(w) => W!Submit(w)
  BY DEF Worker!Submit, W!Submit, Worker!DatabaseError, W!DatabaseError,
         Worker!Idle, W!Idle, Worker!NoAnswer, W!NoAnswer, Worker!NoSid, W!NoSid,
         Worker!SetProviderDetails, W!SetProviderDetails, Worker!Goto, W!Goto
<1>8. Worker!MarkNonRetryable(w) => W!MarkNonRetryable(w)
  BY DEF Worker!MarkNonRetryable, W!MarkNonRetryable,
         Worker!DatabaseError, W!DatabaseError, Worker!Idle, W!Idle,
         Worker!NoAnswer, W!NoAnswer, Worker!NoSid, W!NoSid,
         Worker!GiveUp, W!GiveUp, Worker!MarkMessageState, W!MarkMessageState
<1>9. Worker!MarkRetryExhausted(w) => W!MarkRetryExhausted(w)
  BY DEF Worker!MarkRetryExhausted, W!MarkRetryExhausted,
         Worker!DatabaseError, W!DatabaseError, Worker!Idle, W!Idle,
         Worker!NoAnswer, W!NoAnswer, Worker!NoSid, W!NoSid,
         Worker!GiveUp, W!GiveUp, Worker!MarkMessageState, W!MarkMessageState
<1>10. Worker!DeleteMessage(w) => W!DeleteMessage(w)
  BY DEF Worker!DeleteMessage, W!DeleteMessage, Worker!Idle, W!Idle,
         Worker!NoAnswer, W!NoAnswer, Worker!NoSid, W!NoSid
<1>11. \A m \in Requests : Worker!Receive(w, m) => W!Receive(w, m)
  BY DEF Worker!Receive, W!Receive, Worker!Visible, W!Visible
<1>12. Worker!Crash(w) => W!Crash(w)
  BY DEF Worker!Crash, W!Crash, Worker!Idle, W!Idle, Worker!NoAnswer, W!NoAnswer,
         Worker!NoSid, W!NoSid
<1> QED
  BY <1>1, <1>2, <1>3, <1>4, <1>5, <1>6, <1>7, <1>8, <1>9, <1>10, <1>11, <1>12
     DEF Worker!Process, W!Process

\* The steps of SQS and of time.
LEMMA SameQueue ==
    /\ \A m \in Requests : Worker!Redrive(m) => W!Redrive(m)
    /\ Worker!Tick => W!Tick
<1>1. \A m \in Requests : Worker!Redrive(m) => W!Redrive(m)
  BY DEF Worker!Redrive, W!Redrive, Worker!Visible, W!Visible
<1>2. Worker!Tick => W!Tick
  BY DEF Worker!Tick, W!Tick, Worker!Deadline, W!Deadline,
         Worker!BeforeClaim, W!BeforeClaim, Worker!Sending, W!Sending,
         Worker!Older, W!Older
<1> QED
  BY <1>1, <1>2

\* And the callbacks.
LEMMA SameHook ==
    /\ \A m \in Requests : Hook!Reconcile(m) => H!Reconcile(m)
    /\ \A h \in Handlers : Hook!Handle(h) => H!Handle(h)
    /\ \A h \in Handlers : Hook!CrashHandler(h) => H!CrashHandler(h)
    /\ \A h \in Handlers, c \in Callbacks : Hook!Post(h, c) => H!Post(h, c)
<1>1. \A m \in Requests : Hook!Reconcile(m) => H!Reconcile(m)
  <2>1. \A m \in Requests : Hook!SelectToFix(m) => H!SelectToFix(m)
    BY DEF Hook!SelectToFix, H!SelectToFix, Hook!LastTerminal, H!LastTerminal,
           Hook!TerminalEvents, H!TerminalEvents, Hook!Terminal, H!Terminal,
           Hook!NewState, H!NewState, Hook!HasSid, H!HasSid, Hook!handlers, H!handlers,
           Hook!processors, H!processors
  <2>2. \A m \in Requests : Hook!UpdateToFix(m) => H!UpdateToFix(m)
    BY DEF Hook!UpdateToFix, H!UpdateToFix, Hook!MarkMessageState, H!MarkMessageState,
           Hook!Fault, H!Fault, Hook!handlers, H!handlers, Hook!processors, H!processors
  <2> QED
    BY <2>1, <2>2 DEF Hook!Reconcile, H!Reconcile
<1>2. \A h \in Handlers : Hook!EnqueueEvent(h) => H!EnqueueEvent(h)
  BY DEF Hook!EnqueueEvent, H!EnqueueEvent, Hook!Accept, H!Accept,
         Hook!Reject, H!Reject, Hook!Leave, H!Leave, Hook!Fault, H!Fault,
         Hook!processors, H!processors
<1>3. \A h \in Handlers : Hook!InsertDeliveryEvent(h) => H!InsertDeliveryEvent(h)
  BY DEF Hook!InsertDeliveryEvent, H!InsertDeliveryEvent, Hook!Accept, H!Accept,
         Hook!Reject, H!Reject, Hook!Leave, H!Leave, Hook!Fault, H!Fault,
         Hook!processors, H!processors, Hook!Terminal, H!Terminal,
         Hook!NewState, H!NewState
<1>4. \A h \in Handlers : Hook!UpdateMessage(h) => H!UpdateMessage(h)
  BY DEF Hook!UpdateMessage, H!UpdateMessage, Hook!Accept, H!Accept,
         Hook!Reject, H!Reject, Hook!Leave, H!Leave, Hook!Fault, H!Fault,
         Hook!processors, H!processors, Hook!Found, H!Found,
         Hook!UpdateMessageByProviderMsgID, H!UpdateMessageByProviderMsgID,
         Hook!HasSid, H!HasSid, Hook!NewState, H!NewState,
         Hook!MarkMessageState, H!MarkMessageState
<1>5. \A h \in Handlers : Hook!CrashHandler(h) => H!CrashHandler(h)
  BY DEF Hook!CrashHandler, H!CrashHandler, Hook!Accept, H!Accept,
         Hook!Reject, H!Reject, Hook!Leave, H!Leave, Hook!Fault, H!Fault,
         Hook!processors, H!processors
<1>6. \A h \in Handlers, c \in Callbacks : Hook!Post(h, c) => H!Post(h, c)
  BY DEF Hook!Post, H!Post, Hook!processors, H!processors
<1> QED
  BY <1>1, <1>2, <1>3, <1>4, <1>5, <1>6 DEF Hook!Handle, H!Handle

\* The step relation, in the terms of the components.
LEMMA Steps == Next => ApiStep \/ WorkerStep \/ HookStep
<1> SUFFICES ASSUME Next PROVE ApiStep \/ WorkerStep \/ HookStep
  OBVIOUS
<1>1. ASSUME NEW r \in Requests,
             \/ ApiDoes(Api!Arrive(r)) \/ CreateAndEnqueueSMS(r) \/ ApiDoes(Api!Crash(r))
             \/ ApiDoes(Api!ForgetDeduplication(IdemKey[r]))
      PROVE  ApiStep
  <2>1. \/ Api!Arrive(r) \/ Api!CreateAndEnqueueSMS(r) \/ Api!Crash(r)
        \/ Api!ForgetDeduplication(IdemKey[r])
    BY <1>1 DEF ApiDoes, CreateAndEnqueueSMS
  <2>2. A!Next
    BY <2>1, SameApi DEF A!Next
  <2>3. /\ JobsArrive
        /\ UNCHANGED <<attempts, accepted, workerPc, job, receipt, attempt, answer, spent, hookVars>>
    BY <1>1 DEF ApiDoes, CreateAndEnqueueSMS
  <2> QED
    BY <2>2, <2>3 DEF ApiStep
<1>2. ASSUME NEW w \in Workers, Process(w) \/ \E m \in Requests : Receive(w, m)
      PROVE  WorkerStep
  BY <1>2, SameWorker DEF WorkerStep, WorkerDoes, Process, Receive, W!Works, W!LiveWork
<1>3. ASSUME NEW m \in Requests, Redrive(m) PROVE WorkerStep
  BY <1>3, SameQueue DEF WorkerStep, WorkerDoes, Redrive, W!Works, W!LiveWork
<1>4. CASE Tick
  BY <1>4, SameQueue DEF WorkerStep, WorkerDoes, Tick, W!Works, W!LiveWork
<1>5. ASSUME NEW m \in Requests, Reconcile(m) PROVE HookStep
  BY <1>5, SameHook DEF HookStep, HookWork, HookDoes, Reconcile
<1>6. ASSUME NEW h \in Handlers, Handle(h) \/ HookDoes(Hook!CrashHandler(h)) PROVE HookStep
  BY <1>6, SameHook DEF HookStep, HookWork, HookDoes, Handle
<1>7. ASSUME NEW h \in Handlers, NEW c \in Callbacks, Post(h, c) PROVE HookStep
  BY <1>7, SameHook DEF HookStep, HookWork, HookDoes, Post
<1>8. ASSUME NEW w \in Workers, WorkerDoes(Worker!Crash(w)) PROVE WorkerStep
  BY <1>8, SameWorker DEF WorkerStep, WorkerDoes, W!Works
<1>9. ASSUME NEW s \in Api!Subscribers, ApiDoes(Api!Withdraw(s)) \/ ApiDoes(Api!OptIn(s))
      PROVE  ApiStep
  BY <1>9, SameSubscribers DEF ApiStep, ApiDoes, A!Next
<1>10. CASE ApiDoes(Api!Midnight)
  BY <1>10, SameSubscribers DEF ApiStep, ApiDoes, A!Next
<1> QED
  BY <1>1, <1>2, <1>3, <1>4, <1>5, <1>6, <1>7, <1>8, <1>9, <1>10 DEF Next, CalmNext

\* The calm part is part of the whole: what holds of Spec holds of CalmSpec, which
\* the run explores.
LEMMA CalmIsPart == CalmSpec => Spec
<1>1. [CalmNext]_vars => [Next]_vars
  BY DEF Next
<1> QED
  BY <1>1, PTL DEF Spec, CalmSpec

-----------------------------------------------------------------------------
(* The invariant of the whole: the components' own, and what ties them. *)

TypeInv == A!TypeOK /\ W!TypeOK /\ H!TypeInv

\* The send queue has the jobs the API sent and no other, and only an error of the
\* queue takes a handler to MarkFailed.
JobInv ==
    \A r \in Requests :
        /\ r \in jobs <=> queue[r].status # "absent"
        /\ apiPc[r] = "fail" => "queue" \in ApiFaults

\* A row that a callback can find, or the cron job has found, is that of a message
\* whose job was sent.
FoundInv ==
    \A r \in Requests :
        messages[r].sid # NoSid \/ toFix[r] # "none" =>
            r \in jobs /\ messages[r].state \notin {"absent", "queued", "suppressed"}

\* What holds however slow the workers are.
BaseInv ==
    /\ TypeInv
    /\ A!KeyInv /\ A!RefusalInv
    /\ JobInv /\ FoundInv
    /\ W!UnclaimedInv

\* The row of a message a worker is sending says "processing", or "failed" when
\* the handler of the request took an error of the queue for a job that was not
\* sent.
Held == {"processing"} \cup (IF "queue" \in ApiFaults THEN {"failed"} ELSE {})

\* A callback can find only a message that was sent, and that no worker is still
\* sending.
SidRow(r) ==
    messages[r].sid # NoSid =>
        /\ messages[r].state \in {"submitted", "delivered", "failed"}
        /\ accepted[r] > 0
        /\ \A w \in Workers : job[w] = r => workerPc[w] \notin W!Sending

SidInv == \A r \in Requests : SidRow(r)

\* What holds when they return before a claim goes stale.
TimedInv == SidInv /\ W!ClaimInv(Held) /\ W!SentInv /\ H!SourceInv

Inv == BaseInv /\ TimedInv

\* The components speak of the same rows.
LEMMA SameRows ==
    /\ A!Rows = Rows /\ W!Rows = Rows /\ H!Rows = Rows
    /\ A!NoSid = NoSid /\ W!NoSid = NoSid /\ H!NoSid = NoSid
  BY DEF A!Rows, W!Rows, H!Rows, Rows, A!MessageStates, W!MessageStates, H!MessageStates,
         MessageStates, A!LastErrors, W!LastErrors, H!LastErrors, LastErrors,
         A!NoSid, W!NoSid, H!NoSid, NoSid

\* Those states are what the workers' proofs ask of the states a claimed row can have.
LEMMA HeldIsHeld == W!HeldStates(Held)
  BY DEF W!HeldStates, Held

\* What the cron job has found has a sid, if the workers are timely.
LEMMA FixHasSid ==
    ASSUME TimedInv, NEW r \in Requests, toFix[r] # "none" PROVE messages[r].sid # NoSid
  BY NotifServiceAssumption DEF TimedInv, H!SourceInv, H!FixInv, H!HasSid

\* A step of the others that leaves the sids, and gives no row that has one back to
\* a worker, leaves the callbacks and the cron job what they work from.
LEMMA SourceKept ==
    ASSUME TimedInv, UNCHANGED <<events, posts, hookPc, handled, eventQueue, toFix>>,
           \A r \in Requests : messages[r].sid # NoSid =>
               /\ messages'[r].sid = messages[r].sid
               /\ \/ messages'[r].state = messages[r].state
                  \/ messages'[r].state # "processing"
    PROVE  H!SourceInv'
<1>1. H!PostedInv'
  BY DEF TimedInv, H!SourceInv, H!PostedInv, H!Posted, H!Stored
<1>2. ASSUME NEW r \in Requests, toFix'[r] # "none"
      PROVE  /\ messages'[r].state # "processing"
             /\ \E c \in Callbacks : /\ H!Stored(c)' /\ H!Terminal(c)' /\ H!HasSid(r, c)'
                                     /\ H!NewState(Status[c]) = toFix'[r]
  <2>1. toFix[r] # "none" /\ messages[r].sid # NoSid
    BY <1>2, FixHasSid
  <2>2. /\ messages[r].state # "processing"
        /\ \E c \in Callbacks : /\ H!Stored(c) /\ H!Terminal(c) /\ H!HasSid(r, c)
                                /\ H!NewState(Status[c]) = toFix[r]
    BY <2>1 DEF TimedInv, H!SourceInv, H!FixInv
  <2>3. messages'[r].sid = messages[r].sid /\ messages'[r].state # "processing"
    BY <2>1, <2>2
  <2> QED
    BY <2>2, <2>3 DEF H!Stored, H!HasSid, H!Terminal
<1>3. H!FixInv'
  BY <1>2 DEF H!FixInv, H!NewState
<1> QED
  BY <1>1, <1>3 DEF H!SourceInv

-----------------------------------------------------------------------------
(* The steps of the API. *)

\* What a step of the API means for one request: only a row without a job is
\* inserted or refused, and it is failed only over an error of the queue.
ApiMove(r) ==
    /\ messages'[r].sid = messages[r].sid
    /\ \/ messages'[r] = messages[r]
       \/ /\ messages[r].state = "absent" /\ messages'[r].state = "queued"
          /\ queue[r].status = "absent"
       \/ /\ messages[r].state # "absent" /\ messages'[r].state = "suppressed"
          /\ queue[r].status = "absent"
       \/ /\ messages[r].state # "absent" /\ messages'[r].state = "failed"
          /\ "queue" \in ApiFaults
    /\ \/ queue'[r] = queue[r]
       \/ /\ queue[r].status = "absent" /\ queue'[r] = [queue[r] EXCEPT !.status = "queued"]
          /\ messages[r].state # "absent" /\ messages'[r] = messages[r]

\* The handlers do no more than that to any request, and send a job for a row only.
LEMMA ApiMoves ==
    ASSUME BaseInv, ApiStep
    PROVE  JobInv' /\ \A r \in Requests : ApiMove(r)
<1>1. \A m \in Requests : A!HandlerMove(m)
  BY A!HandlerMoveStep, NotifServiceAssumption
     DEF BaseInv, TypeInv, ApiStep, A!FaultKinds, A!IsFiniteSet, IsFiniteSet
<1>2. \A m \in Requests : /\ m \in jobs => apiPc[m] \in {"fail", "done"}
                          /\ m \in jobs \/ apiPc[m] \in A!Created => messages[m].state # "absent"
                          /\ m \in jobs <=> queue[m].status # "absent"
  BY DEF BaseInv, A!RefusalInv, A!KeyInv, A!Present, JobInv
<1>3. queue' = [m \in Requests |-> IF m \in jobs' \ jobs
                                     THEN [queue[m] EXCEPT !.status = "queued"]
                                     ELSE queue[m]]
  BY DEF ApiStep, JobsArrive
<1>4. JobInv'
  <2> SUFFICES ASSUME NEW m \in Requests
               PROVE  /\ m \in jobs' <=> queue'[m].status # "absent"
                      /\ apiPc'[m] = "fail" => "queue" \in ApiFaults
    BY DEF JobInv
  <2>1. m \in jobs => m \in jobs'
    BY <1>1 DEF A!HandlerMove, A!JobMove
  <2>2. m \in jobs' <=> queue'[m].status # "absent"
    <3>1. queue[m] \in [status: {"absent", "queued", "deleted", "dlq"}, wait: Nat, receives: Nat]
      BY DEF BaseInv, TypeInv, W!TypeOK
    <3> QED
      BY <1>2, <1>3, <2>1, <3>1
  <2>3. apiPc'[m] = "fail" => "queue" \in ApiFaults
    BY <1>1 DEF A!HandlerMove, A!TurnMove, BaseInv, JobInv
  <2> QED
    BY <2>2, <2>3
<1>5. ASSUME NEW r \in Requests PROVE ApiMove(r)
  <2>1. /\ messages'[r].sid = messages[r].sid
        /\ \/ messages'[r] = messages[r]
           \/ /\ messages[r].state = "absent" /\ messages'[r].state = "queued"
              /\ queue[r].status = "absent"
           \/ /\ messages[r].state # "absent" /\ messages'[r].state = "suppressed"
              /\ queue[r].status = "absent"
           \/ /\ messages[r].state # "absent" /\ messages'[r].state = "failed"
              /\ "queue" \in ApiFaults
    <3>1. CASE messages'[r] = messages[r]
      BY <3>1
    <3>2. CASE apiPc[r] = "create" /\ A!Holders(r) = {} /\ messages'[r].state = "queued"
               /\ messages'[r].sid = messages[r].sid
      <4>1. messages[r].state = "absent"
        BY <3>2 DEF A!Holders, A!SameKey
      <4> QED
        BY <1>2, <3>2, <4>1
    <3>3. CASE apiPc[r] = "suppress" /\ messages'[r].state = "suppressed"
               /\ messages'[r].sid = messages[r].sid
      BY <1>2, <3>3 DEF A!Created
    <3>4. CASE apiPc[r] = "fail" /\ messages'[r].state = "failed"
               /\ messages'[r].sid = messages[r].sid
      BY <1>2, <3>4 DEF A!Created, BaseInv, JobInv
    <3> QED
      BY <1>1, <3>1, <3>2, <3>3, <3>4 DEF A!HandlerMove, A!RowMove
  <2>2. CASE r \in jobs' \ jobs
    <3>1. apiPc[r] = "enqueue" /\ messages'[r] = messages[r]
      BY <1>1, <2>2 DEF A!HandlerMove, A!JobMove
    <3> QED
      BY <1>2, <1>3, <1>4, <2>1, <2>2, <3>1 DEF ApiMove, A!Created
  <2>3. CASE r \notin jobs' \ jobs
    BY <1>3, <1>4, <2>1, <2>3 DEF ApiMove
  <2> QED
    BY <2>2, <2>3
<1> QED
  BY <1>4, <1>5

\* Every step of the API keeps what needs no timely workers.
LEMMA ApiKeepsBase == ASSUME BaseInv, ApiStep PROVE BaseInv'
<1>1. /\ \A r \in Requests : ApiMove(r)
      /\ JobInv'
  BY ApiMoves
<1>2. UNCHANGED <<attempts, accepted, workerPc, job, receipt, attempt, answer, spent, hookVars>>
  BY DEF ApiStep
<1>3. A!TypeOK'
  BY A!TypeStep, NotifServiceAssumption
     DEF BaseInv, TypeInv, ApiStep, A!FaultKinds, A!IsFiniteSet, IsFiniteSet
<1>4. A!KeyInv'
  BY A!KeyStep, NotifServiceAssumption
     DEF BaseInv, TypeInv, ApiStep, A!FaultKinds, A!IsFiniteSet, IsFiniteSet
<1>5. A!RefusalInv'
  BY A!RefusalStep, NotifServiceAssumption
     DEF BaseInv, TypeInv, ApiStep, A!FaultKinds, A!IsFiniteSet, IsFiniteSet
<1>6. messages' \in [Requests -> Rows] /\ messages \in [Requests -> Rows]
  BY <1>3, SameRows DEF A!TypeOK, BaseInv, TypeInv
<1>7. W!TypeOK'
  <2>1. queue \in [Requests -> [status: {"absent", "queued", "deleted", "dlq"},
                                wait: Nat, receives: Nat]]
    BY DEF BaseInv, TypeInv, W!TypeOK
  <2>2. queue' \in [Requests -> [status: {"absent", "queued", "deleted", "dlq"},
                                 wait: Nat, receives: Nat]]
    BY <2>1 DEF ApiStep, JobsArrive
  <2> QED
    BY <1>2, <1>6, <2>2, SameRows DEF BaseInv, TypeInv, W!TypeOK
<1>8. H!TypeInv'
  BY <1>2, <1>6, SameRows
     DEF BaseInv, TypeInv, H!TypeInv, H!TypeOK, H!HandInv, H!Callback, hookVars
<1>9. W!UnclaimedInv'
  <2> SUFFICES ASSUME NEW r \in Requests PROVE W!UnclaimedRow(r)'
    BY DEF W!UnclaimedInv
  <2>1. W!UnclaimedRow(r) /\ ApiMove(r)
    BY <1>1 DEF BaseInv, W!UnclaimedInv
  <2>2. queue[r] \in [status: {"absent", "queued", "deleted", "dlq"}, wait: Nat, receives: Nat]
    BY DEF BaseInv, TypeInv, W!TypeOK
  <2>3. queue'[r] = queue[r] \/ (queue[r].status = "absent" /\ queue'[r].status = "queued"
                                 /\ messages'[r] = messages[r] /\ messages[r].state # "absent")
    BY <2>1, <2>2 DEF ApiMove
  <2>4. messages[r].state = "absent" => attempts[r] = {}
    BY <2>1 DEF W!UnclaimedRow
  <2> QED
    BY <1>2, <2>1, <2>3, <2>4 DEF ApiMove, W!UnclaimedRow
<1>10. FoundInv'
  <2> SUFFICES ASSUME NEW r \in Requests, messages'[r].sid # NoSid \/ toFix'[r] # "none"
               PROVE  r \in jobs' /\ messages'[r].state \notin {"absent", "queued", "suppressed"}
    BY DEF FoundInv
  <2>1. /\ r \in jobs /\ messages[r].state \notin {"absent", "queued", "suppressed"}
        /\ queue[r].status # "absent"
    BY <1>1, <1>2 DEF BaseInv, FoundInv, JobInv, ApiMove, hookVars
  <2>2. queue'[r] = queue[r] /\ messages'[r].state \notin {"absent", "queued", "suppressed"}
    BY <1>1, <2>1 DEF ApiMove
  <2> QED
    BY <1>1, <2>1, <2>2 DEF JobInv
<1> QED
  BY <1>1, <1>3, <1>4, <1>5, <1>7, <1>8, <1>9, <1>10 DEF BaseInv, TypeInv

\* And what needs them.
LEMMA ApiKeepsTimed == ASSUME BaseInv, TimedInv, ApiStep PROVE TimedInv'
<1>1. \A r \in Requests : ApiMove(r)
  BY ApiMoves
<1>2. UNCHANGED <<attempts, accepted, workerPc, job, receipt, attempt, answer, spent, hookVars>>
  BY DEF ApiStep
<1>3. SidInv'
  <2> SUFFICES ASSUME NEW r \in Requests, messages'[r].sid # NoSid
               PROVE  /\ messages'[r].state \in {"submitted", "delivered", "failed"}
                      /\ accepted'[r] > 0
                      /\ \A w \in Workers : job'[w] = r => workerPc'[w] \notin W!Sending
    BY DEF SidInv, SidRow
  <2>1. /\ messages[r].state \in {"submitted", "delivered", "failed"}
        /\ accepted[r] > 0
        /\ \A w \in Workers : job[w] = r => workerPc[w] \notin W!Sending
    BY <1>1 DEF ApiMove, BaseInv, TimedInv, SidInv, SidRow
  <2>2. queue[r].status # "absent"
    BY <2>1 DEF BaseInv, TimedInv, W!UnclaimedInv, W!UnclaimedRow
  <2> QED
    BY <1>1, <1>2, <2>1, <2>2 DEF ApiMove
<1>4. W!ClaimInv(Held)'
  <2>1. \A w \in Workers : workerPc[w] \in W!Sending =>
            job[w] \in Requests /\ queue[job[w]].status # "absent"
    BY DEF BaseInv, TimedInv, TypeInv, W!TypeOK, W!UnclaimedInv, W!UnclaimedRow, W!Sending
  <2>2. \A w \in Workers : W!HoldsClaim(Held, w)'
    BY <1>1, <1>2, <2>1 DEF BaseInv, TimedInv, W!ClaimInv, W!HoldsClaim, ApiMove, Held
  <2>3. W!SubmittedIsNewest'
    BY <1>1, <1>2 DEF BaseInv, TimedInv, W!ClaimInv, W!SubmittedIsNewest, ApiMove
  <2> QED
    BY <1>2, <2>2, <2>3 DEF BaseInv, TimedInv, W!ClaimInv, W!Exclusive, W!AnswerIsNewest
<1>5. W!SentInv'
  BY <1>2 DEF TimedInv, W!SentInv
<1>6. H!SourceInv'
  <2>1. \A r \in Requests :
            /\ messages'[r].sid = messages[r].sid
            /\ messages[r].sid # NoSid =>
                  \/ messages'[r].state = messages[r].state
                  \/ messages'[r].state # "processing"
    BY <1>1 DEF ApiMove
  <2> QED
    BY <1>2, <2>1, SourceKept DEF hookVars
<1> QED
  BY <1>3, <1>4, <1>5, <1>6 DEF TimedInv

-----------------------------------------------------------------------------
(* The steps of the workers. *)

\* What a step of the workers means for one request: they touch a row only while
\* they handle its job, which is the API's to send.
WorkMove(r) ==
    /\ messages[r].state # "absent" => messages'[r].state # "absent"
    /\ messages'[r].state = "suppressed" => messages[r].state = "suppressed"
    /\ r \notin jobs => /\ messages'[r].state = messages[r].state
                        /\ messages'[r].sid = messages[r].sid
    /\ queue'[r].status = "absent" <=> queue[r].status = "absent"

\* The workers do no more than that to any message.
LEMMA WorkerMoves ==
    ASSUME BaseInv, WorkerStep, NEW r \in Requests
    PROVE  WorkMove(r)
<1>1. W!RowWork(r) /\ W!JobWork(r)
  BY W!WorkMoves, NotifServiceAssumption DEF W!FaultKinds, BaseInv, TypeInv, WorkerStep, W!Works
<1>2. \A w \in Workers : job[w] = r => r \in jobs
  BY DEF BaseInv, JobInv, W!UnclaimedInv, W!UnclaimedRow
<1>3. \A w \in Workers : job[w] = r /\ workerPc[w] \in W!Sending =>
          messages[r].state \notin {"absent", "queued"}
  BY DEF BaseInv, W!UnclaimedInv, W!UnclaimedRow, W!Sending, W!BeforeClaim
<1> QED
  BY <1>1, <1>2, <1>3 DEF W!RowWork, W!JobWork, W!Claimable, WorkMove

\* Every step of the workers keeps what needs no timely ones.
LEMMA WorkerKeepsBase == ASSUME BaseInv, WorkerStep PROVE BaseInv'
<1>1. \A r \in Requests : WorkMove(r)
  BY WorkerMoves
<1>2. UNCHANGED <<apiVars, hookVars>> /\ W!Works /\ W!Next
  BY DEF WorkerStep, W!Works, W!LiveWork, W!Next
<1>3. W!TypeOK'
  BY <1>2, W!TypeStep, NotifServiceAssumption DEF W!FaultKinds, BaseInv, TypeInv
<1>4. messages' \in [Requests -> Rows]
  BY <1>3, SameRows DEF W!TypeOK
<1>5. A!TypeOK'
  BY <1>2, <1>4, SameRows DEF BaseInv, TypeInv, A!TypeOK, apiVars
<1>6. H!TypeInv'
  BY <1>2, <1>4, SameRows DEF BaseInv, TypeInv, H!TypeInv, H!TypeOK, H!HandInv, H!Callback, hookVars
<1>7. W!UnclaimedInv'
  BY <1>2, W!UnclaimedStep, NotifServiceAssumption DEF W!FaultKinds, BaseInv, TypeInv
<1>8. JobInv'
  BY <1>1, <1>2 DEF BaseInv, JobInv, WorkMove, apiVars
<1>9. A!KeyInv'
  <2>1. \A r \in Requests : messages[r].state = "absent" => messages'[r].state = "absent"
    BY <1>1 DEF BaseInv, WorkMove, JobInv, W!UnclaimedInv, W!UnclaimedRow
  <2>2. \A r \in Requests : A!Present(r)' <=> A!Present(r)
    BY <1>1, <2>1 DEF WorkMove, A!Present
  <2> QED
    BY <1>2, <2>2 DEF BaseInv, A!KeyInv, A!SameKey, apiVars
<1>10. A!RefusalInv'
  BY <1>1, <1>2 DEF BaseInv, A!RefusalInv, A!Refused, WorkMove, apiVars
<1>11. FoundInv'
  <2> SUFFICES ASSUME NEW r \in Requests, messages'[r].sid # NoSid \/ toFix'[r] # "none"
               PROVE  r \in jobs' /\ messages'[r].state \notin {"absent", "queued", "suppressed"}
    BY DEF FoundInv
  <2>1. W!RowWork(r)
    BY <1>2, W!WorkMoves, NotifServiceAssumption DEF W!FaultKinds, BaseInv, TypeInv
  <2>2. \A w \in Workers : job[w] = r => r \in jobs
    BY DEF BaseInv, JobInv, W!UnclaimedInv, W!UnclaimedRow
  <2> QED
    BY <1>2, <2>1, <2>2 DEF BaseInv, FoundInv, W!RowWork, W!Claimable, apiVars, hookVars
<1> QED
  BY <1>3, <1>5, <1>6, <1>7, <1>8, <1>9, <1>10, <1>11 DEF BaseInv, TypeInv

\* Every step of timely workers keeps the rest.
LEMMA WorkerKeepsTimed == ASSUME W!Timely, BaseInv, TimedInv, WorkerStep PROVE TimedInv'
<1>1. W!Works /\ W!Next
  BY DEF WorkerStep, W!Works, W!LiveWork, W!Next
<1>2. W!TypeOK'
  BY WorkerKeepsBase DEF BaseInv, TypeInv
<1>3. SidInv'
  <2> SUFFICES ASSUME NEW r \in Requests PROVE SidRow(r)'
    BY DEF SidInv
  <2>1. /\ W!RowWork(r) /\ W!JobWork(r)
        /\ \A w \in Workers : W!TurnWork(w)
    BY <1>1, W!WorkMoves, NotifServiceAssumption DEF W!FaultKinds, BaseInv, TimedInv, TypeInv
  <2>2. SidRow(r) /\ accepted[r] \in Nat /\ accepted'[r] \in Nat /\ accepted'[r] >= accepted[r]
    BY <1>2, <2>1 DEF BaseInv, TimedInv, SidInv, TypeInv, W!TypeOK, W!JobWork
  <2>3. CASE messages'[r].state = messages[r].state /\ messages'[r].sid = messages[r].sid
    BY <2>1, <2>2, <2>3 DEF SidRow, W!TurnWork, W!Claimable
  <2>4. CASE W!Claimable(messages[r], StaleAfter) /\ messages'[r].sid = messages[r].sid
    BY <2>2, <2>4 DEF SidRow, W!Claimable
  <2>5. ASSUME NEW w \in Workers, workerPc[w] \in W!Sending, job[w] = r,
               workerPc'[w] \notin W!Sending,
               \A v \in Workers \ {w} : workerPc'[v] = workerPc[v] /\ job'[v] = job[v],
               \/ messages'[r].state = "failed" /\ messages'[r].sid = messages[r].sid
               \/ /\ workerPc[w] = "submit"
                  /\ messages'[r].state = "submitted" /\ messages'[r].sid = answer[w].sid
        PROVE  SidRow(r)'
    <3>1. \A v \in Workers : job'[v] = r => workerPc'[v] \notin W!Sending
      BY <2>5 DEF BaseInv, TimedInv, W!ClaimInv, W!Exclusive
    <3>2. messages'[r].sid # NoSid => accepted[r] > 0
      <4>1. messages[r].sid = NoSid
        BY <2>2, <2>5 DEF SidRow
      <4>2. workerPc[w] = "submit" /\ answer[w].sid # NoSid => answer[w].sid = accepted[r]
        BY <2>5, SameRows DEF BaseInv, TimedInv, W!ClaimInv, W!AnswerIsNewest
      <4> QED
        BY <2>2, <2>5, <4>1, <4>2 DEF NoSid
    <3> QED
      BY <2>2, <2>5, <3>1, <3>2 DEF SidRow
  <2> QED
    BY <2>1, <2>3, <2>4, <2>5 DEF W!RowWork
<1>4. W!ClaimInv(Held)'
  BY <1>1, W!ClaimStep, HeldIsHeld, NotifServiceAssumption
     DEF W!FaultKinds, BaseInv, TimedInv, TypeInv
<1>5. W!SentInv'
  BY <1>1, W!SentStep, NotifServiceAssumption DEF W!FaultKinds, BaseInv, TimedInv, TypeInv
<1>6. H!SourceInv'
  <2>1. ASSUME NEW r \in Requests, messages[r].sid # NoSid
        PROVE  messages'[r].sid = messages[r].sid /\ messages'[r].state = messages[r].state
    <3>1. W!RowWork(r)
      BY <1>1, W!WorkMoves, NotifServiceAssumption DEF W!FaultKinds, BaseInv, TypeInv
    <3>2. SidRow(r)
      BY DEF TimedInv, SidInv
    <3> QED
      BY <2>1, <3>1, <3>2 DEF SidRow, W!RowWork, W!Claimable
  <2>2. UNCHANGED <<events, posts, hookPc, handled, eventQueue, toFix>>
    BY DEF WorkerStep, hookVars
  <2> QED
    BY <2>1, <2>2, SourceKept
<1> QED
  BY <1>3, <1>4, <1>5, <1>6 DEF TimedInv

-----------------------------------------------------------------------------
(* The steps of the callbacks. *)

\* The callbacks change at most one row, one they or the cron job found, to an outcome.
OutcomeOf(r) ==
    /\ messages[r].sid # NoSid \/ toFix[r] # "none"
    /\ messages'[r].sid = messages[r].sid
    /\ messages'[r].state \in {"delivered", "failed"}
    /\ \A s \in Requests \ {r} : messages'[s] = messages[s]

\* The callbacks do no more than that to any message.
LEMMA HookMoves ==
    ASSUME BaseInv, HookStep
    PROVE  /\ H!TypeInv'
           /\ UNCHANGED messages \/ \E r \in Requests : OutcomeOf(r)
           /\ \A r \in Requests :
                 toFix'[r] # "none" => messages[r].sid # NoSid \/ toFix[r] # "none"
<1>1. H!CallbackStep /\ H!Next
  BY DEF HookStep, HookWork, H!CallbackStep, H!Next
<1>2. H!TypeInv'
  BY <1>1, H!TypeStep, NotifServiceAssumption DEF H!NoSid, NoSid, BaseInv, TypeInv
<1>3. UNCHANGED messages \/ \E r \in Requests : H!Outcome(r)
  BY <1>1, H!CallbackMoves, NotifServiceAssumption DEF H!NoSid, NoSid, BaseInv, TypeInv
<1>4. \A r \in Requests : toFix'[r] # "none" => messages[r].sid # NoSid \/ toFix[r] # "none"
  BY <1>1, SameRows, H!FixMoves, NotifServiceAssumption DEF H!NoSid, NoSid, BaseInv, TypeInv
<1> QED
  BY <1>2, <1>3, <1>4, SameRows DEF H!Outcome, H!Settled, OutcomeOf

\* Every step of the callbacks keeps what needs no timely workers: they find no
\* message that is still to be sent.
LEMMA HookKeepsBase == ASSUME BaseInv, HookStep PROVE BaseInv'
<1>1. H!TypeInv'
  BY HookMoves
<1>2. UNCHANGED <<apiVars, workerVars>>
  BY DEF HookStep
<1>3. messages' \in [Requests -> Rows]
  BY <1>1, SameRows DEF H!TypeInv, H!TypeOK
<1>4. A!TypeOK'
  BY <1>2, <1>3, SameRows DEF BaseInv, TypeInv, A!TypeOK, apiVars
<1>5. W!TypeOK'
  BY <1>2, <1>3, SameRows DEF BaseInv, TypeInv, W!TypeOK, workerVars
<1>6. JobInv'
  BY <1>2 DEF BaseInv, JobInv, apiVars, workerVars
<1>7. CASE UNCHANGED messages
  BY <1>1, <1>2, <1>4, <1>5, <1>6, <1>7, HookMoves
     DEF BaseInv, TypeInv, A!KeyInv, A!Present, A!SameKey, A!RefusalInv, A!Refused,
         FoundInv, W!UnclaimedInv, W!UnclaimedRow, apiVars, workerVars
<1>8. ASSUME NEW r \in Requests, OutcomeOf(r) PROVE BaseInv'
  <2>1. r \in jobs /\ messages[r].state \notin {"absent", "queued", "suppressed"}
    BY <1>8 DEF OutcomeOf, BaseInv, FoundInv
  <2>2. A!KeyInv'
    BY <1>2, <1>8, <2>1 DEF OutcomeOf, BaseInv, A!KeyInv, A!Present, A!SameKey, apiVars
  <2>3. A!RefusalInv'
    BY <1>2, <1>8 DEF OutcomeOf, BaseInv, A!RefusalInv, A!Refused, apiVars
  <2>4. FoundInv'
    BY <1>2, <1>8, <2>1, HookMoves DEF OutcomeOf, BaseInv, FoundInv, apiVars
  <2>5. W!UnclaimedInv'
    BY <1>2, <1>8, <2>1 DEF OutcomeOf, BaseInv, W!UnclaimedInv, W!UnclaimedRow, workerVars
  <2> QED
    BY <1>1, <1>4, <1>5, <1>6, <2>2, <2>3, <2>4, <2>5 DEF BaseInv, TypeInv
<1> QED
  BY <1>7, <1>8, HookMoves

\* And what needs them: they find no message that is being sent.
LEMMA HookKeepsTimed == ASSUME BaseInv, TimedInv, HookStep PROVE TimedInv'
<1>1. UNCHANGED <<apiVars, workerVars>>
  BY DEF HookStep
<1>2. W!SentInv'
  BY <1>1 DEF TimedInv, W!SentInv, workerVars
<1>s. H!SourceInv'
  <2>1. H!Next
    BY DEF HookStep, HookWork, H!Next
  <2> QED
    BY <2>1, H!SourceStep, NotifServiceAssumption
       DEF H!NoSid, NoSid, BaseInv, TypeInv, TimedInv
<1>3. CASE UNCHANGED messages
  BY <1>1, <1>2, <1>s, <1>3
     DEF TimedInv, SidInv, SidRow, W!ClaimInv, W!Exclusive, W!HoldsClaim,
         W!AnswerIsNewest, W!SubmittedIsNewest, workerVars
<1>4. ASSUME NEW r \in Requests, OutcomeOf(r) PROVE TimedInv'
  <2>1. SidRow(r) /\ messages[r].sid # NoSid
    BY <1>4, FixHasSid DEF OutcomeOf, TimedInv, SidInv
  <2>2. SidInv'
    BY <1>1, <1>4, <2>1 DEF OutcomeOf, TimedInv, SidInv, SidRow, workerVars
  <2>3. \A w \in Workers : W!HoldsClaim(Held, w)'
    BY <1>1, <1>4, <2>1
       DEF OutcomeOf, SidRow, BaseInv, TypeInv, W!TypeOK, TimedInv, W!ClaimInv, W!HoldsClaim,
           W!Sending, workerVars
  <2>4. W!ClaimInv(Held)'
    BY <1>1, <1>4, <2>3
       DEF OutcomeOf, TimedInv, W!ClaimInv, W!Exclusive, W!AnswerIsNewest,
           W!SubmittedIsNewest, workerVars
  <2> QED
    BY <1>2, <1>s, <2>2, <2>4 DEF TimedInv
<1> QED
  BY <1>3, <1>4, HookMoves

-----------------------------------------------------------------------------
(* The invariant. *)

\* All three start with nothing to do.
LEMMA InitInv == Init => BaseInv /\ TimedInv
<1> SUFFICES ASSUME Init PROVE BaseInv /\ TimedInv
  OBVIOUS
<1>1. A!Init
  BY DEF Init, Api!Init, A!Init, Api!AbsentRow, A!AbsentRow, Api!NoSid, A!NoSid,
         Api!NoReply, A!NoReply, Api!Subscribers, A!Subscribers,
         Api!Subscriber, A!Subscriber, Api!Days, A!Days
<1>2. W!Init
  BY DEF Init, Worker!Init, W!Init, Worker!AbsentRow, W!AbsentRow, Worker!NoSid, W!NoSid,
         Worker!NoAnswer, W!NoAnswer
<1>3. A!TypeOK /\ A!RefusalInv
  BY <1>1, A!InitTypeOK, A!InitRefusal, NotifServiceAssumption
     DEF A!FaultKinds, A!IsFiniteSet, IsFiniteSet
<1>4. A!KeyInv
  BY <1>1 DEF A!Init, A!KeyInv, A!Present, A!AbsentRow, A!Created
<1>5. W!TypeOK /\ W!UnclaimedInv /\ W!ClaimInv(Held)
  BY <1>2, W!InitTypeOK, W!InitPristine, W!InitClaimInv, NotifServiceAssumption
     DEF W!FaultKinds, W!PristineInv
<1>6. W!SentInv
  BY <1>2 DEF W!Init, W!SentInv
<1>7. JobInv
  BY <1>1, <1>2 DEF A!Init, W!Init, JobInv
<1>8. FoundInv /\ SidInv
  BY <1>1, SameRows DEF Init, A!Init, A!AbsentRow, FoundInv, SidInv, SidRow
<1>9. H!TypeInv
  <2>1. messages \in [Requests -> H!Rows]
    BY <1>5, SameRows DEF W!TypeOK
  <2>2. eventQueue \in Seq([callback: Callbacks, status: {"visible", "hidden", "deleted", "dlq"},
                            receives: 0..MaxReceive])
        /\ Len(eventQueue) = 0 /\ events \in Seq(Callbacks)
    BY DEF Init
  <2> QED
    BY <2>1, <2>2, NotifServiceAssumption DEF Init, H!TypeInv, H!TypeOK, H!HandInv
<1>10. H!SourceInv
  <2>1. H!PostedInv
    BY DEF Init, H!PostedInv, H!Stored
  <2>2. H!FixInv
    BY DEF Init, H!FixInv
  <2> QED
    BY <2>1, <2>2 DEF H!SourceInv
<1> QED
  BY <1>3, <1>4, <1>5, <1>6, <1>7, <1>8, <1>9, <1>10 DEF BaseInv, TimedInv, TypeInv

\* Every step keeps the invariant.
LEMMA BaseStep == BaseInv /\ [Next]_vars => BaseInv'
<1> SUFFICES ASSUME BaseInv, [Next]_vars PROVE BaseInv'
  OBVIOUS
<1>1. CASE Next
  BY <1>1, Steps, ApiKeepsBase, WorkerKeepsBase, HookKeepsBase
<1>2. CASE UNCHANGED vars
  BY <1>2
     DEF vars, apiVars, workerVars, hookVars, BaseInv, TypeInv, A!TypeOK, W!TypeOK,
         H!TypeInv, H!TypeOK, H!HandInv, H!Callback, A!KeyInv, A!Present, A!SameKey,
         A!RefusalInv, A!Refused, JobInv, FoundInv, W!UnclaimedInv, W!UnclaimedRow
<1> QED
  BY <1>1, <1>2

\* And if no handler of a job outlasts a claim, it keeps the rest.
LEMMA TimedStep ==
    ASSUME W!Timely PROVE BaseInv /\ TimedInv /\ [Next]_vars => TimedInv'
<1> SUFFICES ASSUME BaseInv, TimedInv, [Next]_vars PROVE TimedInv'
  OBVIOUS
<1>1. CASE Next
  BY <1>1, Steps, ApiKeepsTimed, WorkerKeepsTimed, HookKeepsTimed
<1>2. CASE UNCHANGED vars
  <2>1. H!SourceInv'
    BY <1>2, SourceKept DEF vars, hookVars
  <2> QED
    BY <1>2, <2>1
       DEF vars, apiVars, workerVars, hookVars, TimedInv, SidInv, SidRow, W!ClaimInv,
           W!Exclusive, W!HoldsClaim, W!AnswerIsNewest, W!SubmittedIsNewest, W!SentInv
<1> QED
  BY <1>1, <1>2

\* However slow the workers are and whatever fails, BaseInv holds.
THEOREM Base == Spec => []BaseInv
  BY InitInv, BaseStep, PTL DEF Spec

\* If no handler of a job outlasts a claim, TimedInv holds as well.
LEMMA Timed == ASSUME W!Timely PROVE Spec => [](BaseInv /\ TimedInv)
  BY InitInv, BaseStep, TimedStep, PTL DEF Spec

\* The claims of the workers stand although the API and the callbacks write the
\* same rows: no two workers are ever sending one message, and a submitted row
\* carries the sid of the newest send.
THEOREM ClaimsStand ==
    ASSUME W!Timely PROVE Spec => [](Worker!Exclusive /\ Worker!SubmittedIsNewest)
<1>1. TimedInv => Worker!Exclusive /\ Worker!SubmittedIsNewest
  BY DEF TimedInv, W!ClaimInv, W!Exclusive, Worker!Exclusive, W!Sending, Worker!Sending,
         W!SubmittedIsNewest, Worker!SubmittedIsNewest, W!NoSid, Worker!NoSid
<1> QED
  BY <1>1, Timed, PTL

-----------------------------------------------------------------------------
(* One send for a key. *)

\* A message that was sent has a job, and a row.
LEMMA SentHasJob ==
    ASSUME BaseInv, NEW r \in Requests, accepted[r] > 0
    PROVE  r \in jobs /\ A!Present(r)
  BY DEF BaseInv, TypeInv, W!TypeOK, W!UnclaimedInv, W!UnclaimedRow, JobInv, A!KeyInv

\* Whatever fails and however slow the workers are, the messages that reach the
\* provider are all of different keys: requests that race with one key or repeat
\* it have one row, and so one message.
THEOREM OneMessagePerKey ==
    Spec => [](\A r, s \in Requests :
                  Api!SameKey(r, s) /\ accepted[r] > 0 /\ accepted[s] > 0 => r = s)
<1>1. BaseInv => \A r, s \in Requests :
                     Api!SameKey(r, s) /\ accepted[r] > 0 /\ accepted[s] > 0 => r = s
  BY SentHasJob DEF BaseInv, A!KeyInv, A!SameKey, Api!SameKey
<1> QED
  BY <1>1, Base, PTL

\* The API and the callbacks leave the sends of the workers alone.
LEMMA OnceKept ==
    ASSUME W!Timely, W!Careful, BaseInv, TimedInv, W!OnceInv, [Next]_vars
    PROVE  W!OnceInv'
<1>1. CASE WorkerStep
  BY <1>1, W!OnceStep, HeldIsHeld, NotifServiceAssumption
     DEF W!FaultKinds, WorkerStep, BaseInv, TypeInv, TimedInv
<1>2. ASSUME UNCHANGED <<accepted, workerPc, job, answer>>,
             \A r \in Requests : accepted[r] # 0 =>
                 \/ messages'[r].state = messages[r].state
                 \/ messages'[r].state \in {"delivered", "failed"}
      PROVE  W!OnceInv'
  BY <1>2 DEF W!OnceInv, W!OnceTurn, W!OnceRow
<1>3. CASE ApiStep
  <2>1. UNCHANGED <<accepted, workerPc, job, answer>>
    BY <1>3 DEF ApiStep
  <2>2. ASSUME NEW r \in Requests, accepted[r] # 0
        PROVE  \/ messages'[r].state = messages[r].state
               \/ messages'[r].state \in {"delivered", "failed"}
    <3>1. queue[r].status # "absent"
      BY <2>2 DEF BaseInv, W!UnclaimedInv, W!UnclaimedRow
    <3> QED
      BY <1>3, <3>1, ApiMoves DEF ApiMove
  <2> QED
    BY <1>2, <2>1, <2>2
<1>4. CASE HookStep
  <2>1. UNCHANGED <<accepted, workerPc, job, answer>>
    BY <1>4 DEF HookStep, workerVars
  <2>2. \A r \in Requests : \/ messages'[r] = messages[r]
                            \/ messages'[r].state \in {"delivered", "failed"}
    BY <1>4, HookMoves DEF OutcomeOf
  <2> QED
    BY <1>2, <2>1, <2>2
<1>5. CASE UNCHANGED vars
  BY <1>2, <1>5 DEF vars, workerVars
<1> QED
  BY <1>1, <1>3, <1>4, <1>5, Steps

\* The idempotency key of the client is good to the provider's end: if no handler
\* of a job outlasts a claim, and the workers' own calls work and their pods live,
\* at most one message of one send reaches the provider, however requests race, are
\* repeated and fail, however jobs are redelivered and whatever the callbacks do.
THEOREM OneSend ==
    ASSUME W!Timely, W!Careful PROVE Spec => []OneSendPerKey
<1>1. Init => W!OnceInv
  <2> SUFFICES ASSUME Init PROVE W!OnceInv
    OBVIOUS
  <2>1. /\ \A w \in Workers : workerPc[w] = "idle"
        /\ \A r \in Requests : accepted[r] = 0
    BY DEF Init, Worker!Init
  <2> QED
    BY <2>1 DEF W!OnceInv, W!OnceTurn, W!OnceRow, W!Sending
<1>2. BaseInv /\ TimedInv /\ W!OnceInv /\ [Next]_vars => W!OnceInv'
  BY OnceKept
<1>3. BaseInv /\ W!OnceInv => OneSendPerKey
  <2> SUFFICES ASSUME BaseInv, W!OnceInv, NEW r \in Requests, NEW s \in Requests,
                      Api!SameKey(r, s), accepted[r] > 0, accepted[s] > 0
               PROVE  r = s /\ accepted[r] = 1
    BY DEF OneSendPerKey
  <2>1. r = s
    BY SentHasJob DEF BaseInv, A!KeyInv, A!SameKey, Api!SameKey
  <2>2. accepted[r] = 1
    BY DEF BaseInv, TypeInv, W!TypeOK, W!OnceInv, W!OnceRow
  <2> QED
    BY <2>1, <2>2
<1> QED
  BY <1>1, <1>2, <1>3, Timed, PTL DEF Spec

-----------------------------------------------------------------------------
(* The life of a message. *)

\* A step of the workers' life is one of the life of the whole.
LEMMA WorkersLife == [W!Life!Next]_W!Life!vars => [Life!Next]_Life!vars
<1>1. W!Life!Next => Life!Next
  BY DEF W!Life!Next, W!Life!Accept, W!Life!Refuse, W!Life!Abandon, W!Life!Claim,
         W!Life!GiveUp, W!Life!Send, W!Life!HandOver, W!Life!Settle, W!Life!Move,
         Life!Next, Life!Accept, Life!Refuse, Life!Abandon, Life!Claim, Life!GiveUp,
         Life!Send, Life!HandOver, Life!Settle, Life!Move
<1>2. UNCHANGED W!Life!vars => UNCHANGED Life!vars
  BY DEF W!Life!vars, Life!vars
<1> QED
  BY <1>1, <1>2

\* So is one of the API's, who sends nothing.
LEMMA HandlersLife ==
    ASSUME [A!Life!Next]_A!Life!vars, UNCHANGED accepted
    PROVE  [Life!Next]_Life!vars
<1>1. CASE UNCHANGED A!Life!vars
  BY <1>1 DEF A!Life!vars, Life!vars
<1>2. ASSUME NEW r \in Requests,
             \/ A!Life!Accept(r) \/ A!Life!Refuse(r) \/ A!Life!Abandon(r)
             \/ A!Life!Claim(r) \/ A!Life!GiveUp(r)
      PROVE  Life!Next
  BY <1>2 DEF A!Life!Accept, A!Life!Refuse, A!Life!Abandon, A!Life!Claim, A!Life!GiveUp,
              A!Life!Move, Life!Next, Life!Accept, Life!Refuse, Life!Abandon, Life!Claim,
              Life!GiveUp, Life!Move
<1>3. ASSUME NEW r \in Requests, A!Life!Send(r) \/ A!Life!HandOver(r) \/ A!Life!Settle(r)
      PROVE  FALSE
  BY <1>3 DEF A!Life!Send, A!Life!HandOver, A!Life!Settle
<1> QED
  BY <1>1, <1>2, <1>3 DEF A!Life!Next

\* Where the send queue works, a row is its handler's alone until its job is sent.
LEMMA OwnKept ==
    ASSUME "queue" \notin ApiFaults, BaseInv, A!OwnInv, [Next]_vars
    PROVE  A!OwnInv'
<1>1. \A r \in Requests : apiPc[r] \in {"new", "find", "create"} \cup A!Created => r \notin jobs
  BY DEF BaseInv, JobInv, A!RefusalInv, A!Created
<1>2. CASE ApiStep
  BY <1>2, A!OwnStep, NotifServiceAssumption
     DEF BaseInv, TypeInv, ApiStep, A!FaultKinds, A!IsFiniteSet, IsFiniteSet
<1>3. CASE WorkerStep
  BY <1>1, <1>3, WorkerMoves DEF A!OwnInv, A!Owned, WorkMove, WorkerStep, apiVars
<1>4. CASE HookStep
  <2>1. \A r \in Requests : r \notin jobs => messages'[r] = messages[r]
    BY <1>4, HookMoves DEF OutcomeOf, BaseInv, FoundInv
  <2> QED
    BY <1>1, <1>4, <2>1 DEF A!OwnInv, A!Owned, HookStep, apiVars
<1>5. CASE UNCHANGED vars
  BY <1>5 DEF vars, apiVars, A!OwnInv, A!Owned
<1> QED
  BY <1>2, <1>3, <1>4, <1>5, Steps

\* Every step of the whole is a step of the life of one message, or none.
LEMMA LifeStep ==
    ASSUME W!Timely, "queue" \notin ApiFaults, BaseInv, TimedInv, A!OwnInv, [Next]_vars
    PROVE  [Life!Next]_Life!vars
<1>1. CASE ApiStep
  <2>1. [A!Life!Next]_A!Life!vars
    BY <1>1, A!LifeStep, NotifServiceAssumption
       DEF BaseInv, TypeInv, ApiStep, A!FaultKinds, A!IsFiniteSet, IsFiniteSet
  <2> QED
    BY <1>1, <2>1, HandlersLife DEF ApiStep
<1>2. CASE WorkerStep
  <2>1. Held = W!Processing
    BY DEF Held, W!Processing
  <2>2. [W!Life!Next]_W!Life!vars
    BY <1>2, <2>1, W!LifeWorks, NotifServiceAssumption
       DEF W!FaultKinds, BaseInv, TypeInv, TimedInv, WorkerStep, W!Works
  <2> QED
    BY <2>2, WorkersLife
<1>3. CASE HookStep
  <2>1. UNCHANGED accepted
    BY <1>3 DEF HookStep, workerVars
  <2>2. CASE UNCHANGED messages
    BY <2>1, <2>2 DEF Life!vars
  <2>3. ASSUME NEW r \in Requests, OutcomeOf(r) PROVE Life!Next
    <3>1. accepted[r] > 0 /\ messages[r].state \in {"submitted", "delivered", "failed"}
      BY <2>3, FixHasSid DEF OutcomeOf, TimedInv, SidInv, SidRow
    <3>2. [s \in Requests |-> messages'[s].state]
             = [[s \in Requests |-> messages[s].state] EXCEPT ![r] = messages'[r].state]
      BY <2>3 DEF OutcomeOf
    <3>3. Life!Settle(r)
      BY <2>1, <2>3, <3>1, <3>2 DEF OutcomeOf, Life!Settle, Life!Move
    <3> QED
      BY <3>3 DEF Life!Next
  <2> QED
    BY <1>3, <2>2, <2>3, HookMoves
<1>4. CASE UNCHANGED vars
  BY <1>4 DEF vars, workerVars, Life!vars
<1> QED
  BY <1>1, <1>2, <1>3, <1>4, Steps

\* If no handler of a job outlasts a claim and the send queue works, the API, the
\* workers and the callbacks together implement the life of a message, although
\* none asks the others before it writes: a message is sent only while it is
\* claimed, submitted only when it was sent, and settled only after that.
THEOREM ImplementsTheLifecycle ==
    ASSUME W!Timely, "queue" \notin ApiFaults PROVE Spec => ImplementsLifecycle
<1>1. Init => A!OwnInv /\ Life!Init
  <2> SUFFICES ASSUME Init PROVE A!OwnInv /\ Life!Init
    OBVIOUS
  <2>1. /\ messages = [r \in Requests |-> Api!AbsentRow]
        /\ apiPc = [r \in Requests |-> "new"]
        /\ accepted = [r \in Requests |-> 0]
    BY DEF Init, Api!Init, Worker!Init
  <2> QED
    BY <2>1 DEF Api!AbsentRow, A!OwnInv, A!Owned, A!Created, Life!Init
<1>2. BaseInv /\ A!OwnInv /\ [Next]_vars => A!OwnInv'
  BY OwnKept
<1>3. BaseInv /\ TimedInv /\ A!OwnInv /\ [Next]_vars => [Life!Next]_Life!vars
  BY LifeStep
<1> QED
  BY <1>1, <1>2, <1>3, Timed, PTL DEF Spec, ImplementsLifecycle, Life!Spec

-----------------------------------------------------------------------------
(* What the API refused. *)

\* However slow the workers are and whatever fails: a message of which a client
\* was told that it is suppressed has not been sent and will not be.
THEOREM RefusalIsFinal == Spec => []RefusedIsNotSent
<1>1. BaseInv => RefusedIsNotSent
  <2> SUFFICES ASSUME BaseInv, NEW r \in Requests, reply[r].state = "suppressed"
               PROVE  accepted[reply[r].id] = 0
    BY DEF RefusedIsNotSent
  <2>1. reply[r].id \in Requests /\ reply[r].id \notin jobs
    BY DEF BaseInv, A!RefusalInv, A!Refused
  <2> QED
    BY <2>1, SentHasJob DEF BaseInv, TypeInv, W!TypeOK
<1> QED
  BY <1>1, Base, PTL

\* As long as a subscriber is on the list, or without consent, no step of the whole
\* takes a handler that has not begun past the check that says so.
LEMMA BarredKept ==
    ASSUME BaseInv, NEW r \in Requests, [Next]_vars
    PROVE  /\ A!BarredByList(r) /\ Api!OnList(r) => A!BarredByList(r)'
           /\ A!BarredByConsent(r) /\ Api!NoConsent(r) => A!BarredByConsent(r)'
<1>1. Api!OnList(r) = A!OnList(r) /\ Api!NoConsent(r) = A!NoConsent(r)
  BY DEF Api!OnList, A!OnList, Api!NoConsent, A!NoConsent, Api!Subscriber, A!Subscriber
<1>2. CASE ApiStep
  BY <1>1, <1>2, A!BarredStep, NotifServiceAssumption
     DEF BaseInv, TypeInv, ApiStep, A!FaultKinds, A!IsFiniteSet, IsFiniteSet
<1>3. CASE UNCHANGED apiVars
  BY <1>3 DEF apiVars, A!BarredByList, A!BarredByConsent
<1> QED
  BY <1>2, <1>3, Steps DEF WorkerStep, HookStep, vars

\* However slow the workers are, whatever fails, and although consent is withdrawn
\* and given all the time: a subscriber who is on the suppression list when the
\* request arrives, or has no consent then and gives none, gets no message.
THEOREM Unwanted == Spec => UnwantedIsNotSent
<1> SUFFICES ASSUME NEW r \in Requests
             PROVE  Spec => [](apiPc[r] = "new" /\ ([]Api!OnList(r) \/ []Api!NoConsent(r))
                                  => [](accepted[r] = 0))
  BY DEF UnwantedIsNotSent
<1>1. BaseInv /\ apiPc[r] = "new" => A!BarredByList(r) /\ A!BarredByConsent(r)
  BY DEF BaseInv, A!RefusalInv, A!BarredByList, A!BarredByConsent
<1>2. BaseInv /\ A!BarredByList(r) /\ Api!OnList(r) /\ [Next]_vars => A!BarredByList(r)'
  BY BarredKept
<1>3. BaseInv /\ A!BarredByConsent(r) /\ Api!NoConsent(r) /\ [Next]_vars
         => A!BarredByConsent(r)'
  BY BarredKept
<1>4. BaseInv /\ (A!BarredByList(r) \/ A!BarredByConsent(r)) => accepted[r] = 0
  BY SentHasJob DEF BaseInv, TypeInv, W!TypeOK, A!BarredByList, A!BarredByConsent
<1> QED
  BY <1>1, <1>2, <1>3, <1>4, Base, PTL DEF Spec

-----------------------------------------------------------------------------
(* The daily cap, to the provider's end. *)

\* The requests of a subscriber and a day whose message reached the provider.
Reached(s, d) == {r \in Requests : accepted[r] > 0 /\ A!Subscriber(r) = s /\ now[r] = d}

ReachedWithinCap ==
    \A s \in A!Subscribers, d \in A!Days : Cardinality(Reached(s, d)) <= MaxPerDay

\* FiniteSets is the same for both.
LEMMA SameCardinality == ASSUME NEW S PROVE A!Cardinality(S) = Cardinality(S)
  BY Zenon DEF A!Cardinality, Cardinality

\* The workers and the callbacks take no place under the cap and give none back.
LEMMA CapKept == ASSUME BaseInv, A!CapInv, [Next]_vars PROVE A!CapInv'
<1>1. CASE ApiStep
  BY <1>1, A!CapStep, NotifServiceAssumption
     DEF BaseInv, TypeInv, ApiStep, A!FaultKinds, A!IsFiniteSet, IsFiniteSet
<1>2. CASE UNCHANGED apiVars
  <2>1. ASSUME NEW s, NEW d PROVE A!Holding(s, d)' = A!Holding(s, d)
    BY <1>2 DEF apiVars, A!Holding
  <2> QED
    BY <1>2, <2>1 DEF apiVars, A!CapInv
<1> QED
  BY <1>1, <1>2, Steps DEF WorkerStep, HookStep, vars

\* However many requests race for a subscriber's day, however often jobs are
\* redelivered and whatever fails: no more of them reach the provider than the cap
\* allows.
THEOREM CapToTheProvider == Spec => []ReachedWithinCap
<1>1. Init => A!CapInv
  <2>1. Init => A!Init
    BY DEF Init, Api!Init, A!Init, Api!AbsentRow, A!AbsentRow, Api!NoSid, A!NoSid,
           Api!NoReply, A!NoReply, Api!Subscribers, A!Subscribers,
           Api!Subscriber, A!Subscriber, Api!Days, A!Days
  <2> QED
    BY <2>1, A!InitCap, NotifServiceAssumption DEF A!FaultKinds, A!IsFiniteSet, IsFiniteSet
<1>2. BaseInv /\ A!CapInv /\ [Next]_vars => A!CapInv'
  BY CapKept
<1>3. BaseInv /\ A!CapInv => ReachedWithinCap
  <2> SUFFICES ASSUME BaseInv, A!CapInv, NEW s \in A!Subscribers, NEW d \in A!Days
               PROVE  Cardinality(Reached(s, d)) <= MaxPerDay
    BY DEF ReachedWithinCap
  <2>1. Reached(s, d) \subseteq A!Holding(s, d)
    BY SentHasJob DEF Reached, A!Holding
  <2>2. IsFiniteSet(A!Holding(s, d))
    BY FS_Subset, NotifServiceAssumption DEF A!Holding
  <2>3. /\ Cardinality(Reached(s, d)) \in Nat
        /\ Cardinality(A!Holding(s, d)) \in Nat
        /\ Cardinality(Reached(s, d)) <= Cardinality(A!Holding(s, d))
    BY <2>1, <2>2, FS_Subset, FS_CardinalityType
  <2>4. Cardinality(A!Holding(s, d)) <= caps[s][d] /\ caps[s][d] <= MaxPerDay
    BY SameCardinality DEF A!CapInv
  <2>5. caps[s][d] \in Nat
    BY DEF BaseInv, TypeInv, A!TypeOK
  <2> QED
    BY <2>3, <2>4, <2>5, NotifServiceAssumption
<1> QED
  BY <1>1, <1>2, <1>3, Base, PTL DEF Spec

-----------------------------------------------------------------------------
(* Outcomes, in direct mode. *)

\* Where the send queue works, the API and the workers leave the state of a message
\* that was sent, and the sid it is found by.
LEMMA OutcomeStays ==
    ASSUME "queue" \notin ApiFaults, BaseInv, TimedInv, ApiStep \/ WorkerStep,
           NEW r \in Requests, messages[r].sid # NoSid
    PROVE  messages'[r].sid = messages[r].sid /\ messages'[r].state = messages[r].state
<1>1. /\ messages[r].state \in {"submitted", "delivered", "failed"}
      /\ \A w \in Workers : job[w] = r => workerPc[w] \notin W!Sending
      /\ queue[r].status # "absent"
  BY DEF BaseInv, TimedInv, SidInv, SidRow, FoundInv, JobInv
<1>2. CASE ApiStep
  BY <1>1, <1>2, ApiMoves DEF ApiMove
<1>3. CASE WorkerStep
  <2>1. W!RowWork(r)
    BY <1>3, W!WorkMoves, NotifServiceAssumption
       DEF W!FaultKinds, BaseInv, TypeInv, WorkerStep, W!Works
  <2> QED
    BY <1>1, <2>1 DEF W!RowWork, W!Claimable
<1> QED
  BY <1>2, <1>3

\* What the other two leave alone of the callbacks.
LEMMA OnlyHooks ==
    ASSUME ApiStep \/ WorkerStep \/ UNCHANGED vars
    PROVE  UNCHANGED <<events, posts, acked, hookPc, handled, tried, eventQueue, ppc, entry, toFix>>
  BY DEF ApiStep, WorkerStep, vars, hookVars

\* Direct mode stays direct, and a handler updates a message only after it stored
\* the event.
LEMMA DirectKept ==
    ASSUME UseQueue = FALSE, BaseInv, TimedInv, H!OrderInv, H!DirectInv, [Next]_vars
    PROVE  H!OrderInv' /\ H!DirectInv'
<1>1. CASE HookStep
  <2>1. H!Next
    BY <1>1 DEF HookStep, HookWork, H!Next
  <2>2. H!OrderInv'
    BY <2>1, H!OrderStep, NotifServiceAssumption
       DEF H!NoSid, NoSid, BaseInv, TimedInv, TypeInv
  <2>3. H!DirectInv'
    <3>1. ~UseQueue /\ H!TypeInv /\ H!DirectInv /\ [H!Next]_H!vars
      BY <2>1 DEF BaseInv, TypeInv
    <3>2. ~UseQueue /\ H!TypeInv /\ H!DirectInv /\ [H!Next]_H!vars => H!DirectInv'
      BY H!DirectStep, NotifServiceAssumption DEF H!NoSid, NoSid
    <3> QED
      BY <3>1, <3>2
  <2> QED
    BY <2>2, <2>3
<1>2. CASE ApiStep \/ WorkerStep \/ UNCHANGED vars
  BY <1>2, OnlyHooks DEF H!OrderInv, H!DirectInv, H!Stored
<1> QED
  BY <1>1, <1>2, Steps

\* A message that is delivered has a stored callback that says so.
ConfirmedInv ==
    \A r \in Requests : messages[r].state = "delivered" =>
        \E c \in Callbacks : /\ H!Stored(c) /\ H!HasSid(r, c)
                             /\ H!NewState(Status[c]) = "delivered"

\* Only a callback's handler makes a message "delivered", and it stored the event.
LEMMA ConfirmedKept ==
    ASSUME UseQueue = FALSE, BaseInv, TimedInv, H!OrderInv, H!DirectInv, ConfirmedInv,
           [Next]_vars
    PROVE  ConfirmedInv'
<1> SUFFICES ASSUME NEW r \in Requests, messages'[r].state = "delivered"
             PROVE  \E c \in Callbacks : /\ H!Stored(c)' /\ H!HasSid(r, c)'
                                         /\ H!NewState(Status[c]) = "delivered"
  BY DEF ConfirmedInv, H!NewState
<1>1. CASE /\ messages[r].state = "delivered" /\ messages'[r].sid = messages[r].sid
           /\ \A c \in Callbacks : H!Stored(c) => H!Stored(c)'
  BY <1>1 DEF ConfirmedInv, H!HasSid
<1>2. CASE HookStep
  <2>1. H!Next
    BY <1>2 DEF HookStep, HookWork, H!Next
  <2>2. \A c \in Callbacks : H!Stored(c) => H!Stored(c)'
    BY <2>1, H!StepGrows, NotifServiceAssumption
       DEF H!NoSid, NoSid, BaseInv, TimedInv, TypeInv, H!Grows
  <2>3. CASE messages'[r] = messages[r]
    BY <1>1, <2>2, <2>3
  <2>4. CASE messages'[r] # messages[r]
    <3>1. H!Settled(r)'
      BY DEF H!Settled
    <3>2. \E c \in Callbacks : /\ H!Stored(c) /\ H!HasSid(r, c)'
                               /\ H!NewState(Status[c]) = messages'[r].state
      BY <2>1, <2>4, <3>1, H!RowMoves, NotifServiceAssumption
         DEF H!NoSid, NoSid, BaseInv, TimedInv, TypeInv
    <3> QED
      BY <2>2, <3>2
  <2> QED
    BY <2>3, <2>4
<1>3. CASE ApiStep \/ WorkerStep \/ UNCHANGED vars
  <2>1. messages'[r].state = messages[r].state /\ messages'[r].sid = messages[r].sid
    <3>1. CASE ApiStep
      BY <3>1, ApiMoves DEF ApiMove
    <3>2. CASE WorkerStep
      <4>1. W!RowWork(r)
        BY <3>2, W!WorkMoves, NotifServiceAssumption
           DEF W!FaultKinds, BaseInv, TypeInv, WorkerStep, W!Works
      <4> QED
        BY <4>1 DEF W!RowWork
    <3> QED
      BY <1>3, <3>1, <3>2 DEF vars
  <2>2. \A c \in Callbacks : H!Stored(c) => H!Stored(c)'
    BY <1>3, OnlyHooks DEF H!Stored
  <2> QED
    BY <1>1, <2>1, <2>2
<1> QED
  BY <1>2, <1>3, Steps

\* A callback that was answered 2xx stays applied.
LEMMA AppliedKept ==
    ASSUME "queue" \notin ApiFaults, BaseInv, TimedInv, H!OrderInv, H!AckedIsKept, [Next]_vars
    PROVE  H!AckedIsKept'
<1>1. CASE HookStep
  <2>1. H!Next
    BY <1>1 DEF HookStep, HookWork, H!Next
  <2> QED
    BY <2>1, H!KeptStep, NotifServiceAssumption
       DEF H!NoSid, NoSid, BaseInv, TimedInv, TypeInv, H!KeptInv
<1>2. CASE ApiStep \/ WorkerStep \/ UNCHANGED vars
  <2>1. ASSUME NEW c \in acked, H!Applied(c) PROVE H!Applied(c)'
    <3>1. c \in Callbacks
      BY DEF BaseInv, TypeInv, H!TypeInv, H!TypeOK
    <3>2. PICK r \in Requests : H!HasSid(r, c) /\ H!Reported(r)
      BY <2>1 DEF H!Applied
    <3>3. messages[r].sid # NoSid
      BY <3>1, <3>2, NotifServiceAssumption DEF H!HasSid
    <3>4. messages'[r].sid = messages[r].sid /\ messages'[r].state = messages[r].state
      BY <1>2, <3>3, OutcomeStays DEF vars
    <3>5. UNCHANGED posts
      BY <1>2, OnlyHooks
    <3>6. H!Reported(r)'
      BY <3>2, <3>4, <3>5 DEF H!Reported, H!HasSid, H!Terminal, H!NewState
    <3> QED
      BY <3>2, <3>4, <3>6 DEF H!Applied, H!HasSid
  <2>2. UNCHANGED <<events, acked, eventQueue>>
    BY <1>2, OnlyHooks
  <2>3. ASSUME NEW c \in acked'
        PROVE  \/ H!Stored(c)' /\ (H!Terminal(c) => H!Applied(c)')
               \/ \E k \in DOMAIN eventQueue' :
                     eventQueue'[k].callback = c /\ eventQueue'[k].status # "deleted"
    BY <2>1, <2>2 DEF H!AckedIsKept, H!Stored
  <2> QED
    BY <2>3 DEF H!AckedIsKept, H!Terminal, H!NewState
<1> QED
  BY <1>1, <1>2, Steps

\* The callbacks start with nothing in hand.
LEMMA InitDirect == Init => H!OrderInv /\ H!DirectInv /\ ConfirmedInv /\ H!AckedIsKept
<1> SUFFICES ASSUME Init PROVE H!OrderInv /\ H!DirectInv /\ ConfirmedInv /\ H!AckedIsKept
  OBVIOUS
<1>1. \A r \in Requests : messages[r].state = "absent"
  BY DEF Init, Api!Init, Api!AbsentRow
<1> QED
  BY <1>1 DEF Init, H!OrderInv, H!DirectInv, ConfirmedInv, H!AckedIsKept

\* If no handler of a job outlasts a claim, no message becomes "delivered" in direct
\* mode but by a stored callback that has its sid, whatever fails and whoever else
\* writes.
THEOREM Confirmed ==
    ASSUME W!Timely, UseQueue = FALSE PROVE Spec => []DeliveredIsConfirmed
<1>1. BaseInv /\ TimedInv /\ H!OrderInv /\ H!DirectInv /\ [Next]_vars
         => H!OrderInv' /\ H!DirectInv'
  BY DirectKept
<1>2. BaseInv /\ TimedInv /\ H!OrderInv /\ H!DirectInv /\ ConfirmedInv /\ [Next]_vars
         => ConfirmedInv'
  BY ConfirmedKept
<1>3. ConfirmedInv => DeliveredIsConfirmed
  BY DEF ConfirmedInv, DeliveredIsConfirmed, H!Stored, Hook!Stored, H!HasSid, Hook!HasSid,
         H!NewState, Hook!NewState
<1> QED
  BY <1>1, <1>2, <1>3, InitDirect, Timed, PTL DEF Spec

\* If no handler of a job outlasts a claim and the send queue works, the row of a
\* terminal callback the webhook answered 2xx in direct mode says what a callback of
\* its send reported, and goes on to: no redelivered job and no handler of the API
\* takes it back.
THEOREM OutcomeStaysApplied ==
    ASSUME W!Timely, UseQueue = FALSE, "queue" \notin ApiFaults
    PROVE  Spec => []OutcomeIsApplied
<1>1. BaseInv /\ TimedInv /\ H!OrderInv /\ H!DirectInv /\ [Next]_vars
         => H!OrderInv' /\ H!DirectInv'
  BY DirectKept
<1>2. BaseInv /\ TimedInv /\ H!OrderInv /\ H!AckedIsKept /\ [Next]_vars => H!AckedIsKept'
  BY AppliedKept
<1>3. H!DirectInv /\ H!AckedIsKept => OutcomeIsApplied
  <2>1. \A c : H!Terminal(c) = Hook!Terminal(c)
    BY DEF H!Terminal, Hook!Terminal, H!NewState, Hook!NewState
  <2>2. \A r, c : H!HasSid(r, c) = Hook!HasSid(r, c)
    BY DEF H!HasSid, Hook!HasSid
  <2>3. \A r : H!Reported(r) => Hook!Reported(r)
    BY <2>1, <2>2 DEF H!Reported, Hook!Reported, H!NewState, Hook!NewState
  <2>4. \A c : H!Applied(c) => Hook!Applied(c)
    BY <2>2, <2>3 DEF H!Applied, Hook!Applied
  <2> QED
    BY <2>1, <2>4 DEF H!DirectInv, H!AckedIsKept, OutcomeIsApplied, Hook!AckedIsApplied
<1> QED
  BY <1>1, <1>2, <1>3, InitDirect, Timed, PTL DEF Spec
=============================================================================
