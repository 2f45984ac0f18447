------------------------------ MODULE Delivery ------------------------------
(***************************************************************************)
(* The sending half of the service: the SQS FIFO queue of SMS jobs, the    *)
(* worker pool that receives them (internal/queue/sqs/consumer.go) and     *)
(* Processor.Process (internal/worker/processor.go), with the provider at  *)
(* the other end of twilio.Client.SendSMS.                                 *)
(*                                                                         *)
(* A worker is one receipt being handled, from the ReceiveMessage that     *)
(* returned it, through its wait in the jobs channel, to the handler's     *)
(* return.  Each database call and each provider call of Process is a step *)
(* of its own, so workers interleave between any two of them, and a worker *)
(* can fail at any of them: the call returns an error (a canceled context  *)
(* and a lost connection included, when the statement may have committed   *)
(* all the same) or the pod is killed.                                     *)
(***************************************************************************)
EXTENDS MessageStore, FiniteSets

CONSTANTS
    Messages,           \* message ids
    Workers,            \* receipts handled at a time, over all pods
    NoMessage,          \* the job of an idle worker
    VisibilityTimeout,  \* SQSVizTimeout: how long a received job stays hidden
    StaleAfter,         \* Processor.claimStaleAfter(); main.go sets SQSVizTimeout
    MaxReceiveCount,    \* of the queue's redrive policy
    ClaimWithin,        \* assumed bound from receipt to claim; 0: none
    HandleWithin,       \* assumed bound from claim to return; 0: none
    Faults              \* what may go wrong, of the FaultKinds

\* "database": a statement returns an error.  "transport": the provider takes a
\* message and its answer is lost.  "crash": a worker pod is killed.
FaultKinds == {"database", "transport", "crash"}

ASSUME DeliveryAssumption ==
    /\ Faults \subseteq FaultKinds
    /\ NoMessage \notin Messages
    /\ VisibilityTimeout \in Nat \ {0}
    /\ StaleAfter \in Nat
    /\ MaxReceiveCount \in Nat \ {0}
    /\ ClaimWithin \in Nat
    /\ HandleWithin \in Nat

VARIABLES
    messages,   \* the messages table, by id
    attempts,   \* the provider_message_ids in provider_attempts, by message; NoSid for a failed call
    queue,      \* the send queue: the one job of each message
    accepted,   \* how many sends of a message the provider accepted; they are its sids
    pc,         \* the next call of each worker
    job,        \* the message it handles
    receipt,    \* the receipt handle it holds: the how-manieth receive gave it
    attempt,    \* the loop counter of Process
    answer,     \* what the provider call returned
    spent       \* time since the receipt, and from the claim on since the claim

vars == <<messages, attempts, queue, accepted, pc, job, receipt, attempt, answer, spent>>

MaxAttempts == 3    \* attempt < 3

BeforeClaim == {"get", "claim"}
Sending     == {"template", "limit", "call", "record", "submit", "refuse", "exhausted"}
Locations   == {"idle", "delete"} \cup BeforeClaim \cup Sending

\* A result of SendSMS: the error, the HTTP status (0: no answer) and the sid.
Statuses == {0, 201, 400, 408, 429, 500}
Errors   == {"nil", "timeout", "other"}
Answers  == [err: Errors, status: Statuses, sid: Nat]
NoAnswer == [err |-> "nil", status |-> 0, sid |-> NoSid]

TransientStatus(status) == status \in {408, 429} \/ status \in 500..599

-----------------------------------------------------------------------------
Init ==
    /\ messages = [m \in Messages |-> AbsentRow]
    /\ attempts = [m \in Messages |-> {}]
    /\ queue    = [m \in Messages |-> [status |-> "absent", wait |-> 0, receives |-> 0]]
    /\ accepted = [m \in Messages |-> 0]
    /\ pc       = [w \in Workers |-> "idle"]
    /\ job      = [w \in Workers |-> NoMessage]
    /\ receipt  = [w \in Workers |-> 0]
    /\ attempt  = [w \in Workers |-> 0]
    /\ answer   = [w \in Workers |-> NoAnswer]
    /\ spent    = [w \in Workers |-> 0]

\* The API's part: the row is inserted and its job sent.
Enqueue(m) ==
    /\ queue[m].status = "absent"
    /\ messages' = [messages EXCEPT ![m] = InsertMessage(@)]
    /\ queue' = [queue EXCEPT ![m].status = "queued"]
    /\ UNCHANGED <<attempts, accepted, pc, job, receipt, attempt, answer, spent>>

-----------------------------------------------------------------------------
(* SQS and the consumer. *)

Visible(m) == queue[m].status = "queued" /\ queue[m].wait = 0

\* ReceiveMessage hides the job for the visibility timeout and numbers the receipt.
Receive(w, m) ==
    /\ pc[w] = "idle"
    /\ Visible(m)
    /\ queue[m].receives < MaxReceiveCount
    /\ queue' = [queue EXCEPT ![m].wait = VisibilityTimeout, ![m].receives = @ + 1]
    /\ pc' = [pc EXCEPT ![w] = "get"]
    /\ job' = [job EXCEPT ![w] = m]
    /\ receipt' = [receipt EXCEPT ![w] = queue[m].receives + 1]
    /\ spent' = [spent EXCEPT ![w] = 0]
    /\ UNCHANGED <<messages, attempts, accepted, attempt, answer>>

\* A job received MaxReceiveCount times goes to the dead-letter queue.
Redrive(m) ==
    /\ Visible(m)
    /\ queue[m].receives = MaxReceiveCount
    /\ queue' = [queue EXCEPT ![m].status = "dlq"]
    /\ UNCHANGED <<messages, attempts, accepted, pc, job, receipt, attempt, answer, spent>>

\* The worker forgets what it held: the handler returned, or the pod died.
Idle(w) ==
    /\ pc' = [pc EXCEPT ![w] = "idle"]
    /\ job' = [job EXCEPT ![w] = NoMessage]
    /\ receipt' = [receipt EXCEPT ![w] = 0]
    /\ attempt' = [attempt EXCEPT ![w] = 0]
    /\ answer' = [answer EXCEPT ![w] = NoAnswer]
    /\ spent' = [spent EXCEPT ![w] = 0]

Goto(w, location) ==
    /\ pc' = [pc EXCEPT ![w] = location]
    /\ UNCHANGED <<job, receipt>>

\* The handler returned nil.  SQS honours the newest receipt handle only, and
\* the consumer ignores the call's error.
DeleteMessage(w) ==
    /\ pc[w] = "delete"
    /\ \/ /\ receipt[w] = queue[job[w]].receives
          /\ queue[job[w]].status = "queued"
          /\ queue' = [queue EXCEPT ![job[w]].status = "deleted"]
       \/ UNCHANGED queue
    /\ Idle(w)
    /\ UNCHANGED <<messages, attempts, accepted>>

Crash(w) ==
    /\ "crash" \in Faults
    /\ pc[w] # "idle"
    /\ Idle(w)
    /\ UNCHANGED <<messages, attempts, queue, accepted>>

-----------------------------------------------------------------------------
(* Processor.Process.  A handler that returns an error leaves the job alone. *)

\* A statement returned an error; it may have committed before.
DatabaseError(w) == "database" \in Faults /\ Idle(w)

GetMessageForWorker(w) ==
    /\ pc[w] = "get"
    /\ \/ DatabaseError(w)
       \/ /\ AlreadyHandled(messages[job[w]])
          /\ Goto(w, "delete")
          /\ UNCHANGED <<attempt, answer, spent>>
       \/ /\ ~AlreadyHandled(messages[job[w]])
          /\ Goto(w, "claim")
          /\ UNCHANGED <<attempt, answer, spent>>
    /\ UNCHANGED <<messages, attempts, queue, accepted>>

\* ClaimMessage, and the lookup of the template, which the worker knows or not:
\* pods of two releases may disagree on it.
Claim(w) ==
    /\ pc[w] = "claim"
    /\ \/ /\ Claimable(messages[job[w]], StaleAfter)
          /\ messages' = [messages EXCEPT ![job[w]] = ClaimMessage(@)]
          /\ \/ DatabaseError(w)
             \/ /\ \E location \in {"limit", "template"} : Goto(w, location)
                /\ spent' = [spent EXCEPT ![w] = 0]
                /\ UNCHANGED <<attempt, answer>>
       \/ /\ ~Claimable(messages[job[w]], StaleAfter)
          /\ Goto(w, "delete")
          /\ UNCHANGED <<messages, attempt, answer, spent>>
       \/ /\ DatabaseError(w)
          /\ UNCHANGED messages
    /\ UNCHANGED <<attempts, queue, accepted>>

\* The three places where Process gives the message up: it marks the row, if the
\* statement does not fail, and returns an error in either case.
GiveUp(w, lastError) ==
    /\ \/ /\ messages' = [messages EXCEPT ![job[w]] =
                              MarkMessageState(@, "failed", lastError)]
          /\ Idle(w)
       \/ /\ DatabaseError(w)
          /\ UNCHANGED messages
    /\ UNCHANGED <<attempts, queue, accepted>>

RejectTemplate(w) == pc[w] = "template" /\ GiveUp(w, "template_not_found")

NextAttempt(w) == IF attempt[w] + 1 < MaxAttempts THEN "limit" ELSE "exhausted"

\* Limiter.Wait: a token, or two seconds without one.
AcquireToken(w) ==
    /\ pc[w] = "limit"
    /\ \/ Goto(w, "call") /\ UNCHANGED attempt
       \/ /\ Goto(w, NextAttempt(w))
          /\ attempt' = [attempt EXCEPT ![w] = @ + 1]
    /\ UNCHANGED <<messages, attempts, queue, accepted, answer, spent>>

\* SendSMS.  A 201 whose body is lost still returns nil, with an empty sid; a
\* call that ends in a transport error may have reached the provider.
Returned(took, a) ==
    \/ took /\ a.err = "nil" /\ a.status = 201
    \/ ~took /\ a.err = "other" /\ a.status \notin {0, 201} /\ a.sid = NoSid
    \/ (took => "transport" \in Faults) /\ a.err # "nil" /\ a.status = 0 /\ a.sid = NoSid

ExecuteWithBreaker(w) ==
    /\ pc[w] = "call"
    /\ \/ \* gobreaker.ErrOpenState, ErrTooManyRequests
          /\ Idle(w)
          /\ UNCHANGED accepted
       \/ \E took \in BOOLEAN, err \in Errors, status \in Statuses,
             sid \in {accepted[job[w]] + 1, NoSid} :
             LET a == [err |-> err, status |-> status, sid |-> sid] IN
             /\ Returned(took, a)
             /\ accepted' = [accepted EXCEPT ![job[w]] = IF took THEN @ + 1 ELSE @]
             /\ answer' = [answer EXCEPT ![w] = a]
             /\ Goto(w, "record")
             /\ UNCHANGED <<attempt, spent>>
    /\ UNCHANGED <<messages, attempts, queue>>

\* twilio.ShouldRetry.
ShouldRetry(a) ==
    IF a.err # "nil" THEN a.err = "timeout" ELSE TransientStatus(a.status)

\* InsertAttempt, and the branch on the answer after it.
Retries(w) == answer[w].err # "nil" /\ ShouldRetry(answer[w])
AfterRecord(w) ==
    IF answer[w].err = "nil" THEN "submit"
    ELSE IF Retries(w) THEN NextAttempt(w) ELSE "refuse"

RecordAttemptSwallowed(w) ==
    /\ pc[w] = "record"
    /\ \/ attempts' = [attempts EXCEPT ![job[w]] = @ \cup {answer[w].sid}]
       \/ "database" \in Faults /\ UNCHANGED attempts
    /\ Goto(w, AfterRecord(w))
    /\ attempt' = [attempt EXCEPT ![w] = IF Retries(w) THEN @ + 1 ELSE @]
    /\ UNCHANGED <<messages, queue, accepted, answer, spent>>

RecordAttempt(w) ==
    /\ pc[w] = "record"
    /\ \/ /\ attempts' = [attempts EXCEPT ![job[w]] = @ \cup {answer[w].sid}]
          /\ \/ DatabaseError(w)
             \/ /\ Goto(w, AfterRecord(w))
                /\ attempt' = [attempt EXCEPT ![w] = IF Retries(w) THEN @ + 1 ELSE @]
                /\ UNCHANGED <<answer, spent>>
       \/ /\ DatabaseError(w)
          /\ UNCHANGED attempts
    /\ UNCHANGED <<messages, queue, accepted>>

Submit(w) ==
    /\ pc[w] = "submit"
    /\ \/ /\ messages' = [messages EXCEPT ![job[w]] = SetProviderDetails(@, answer[w].sid)]
          /\ \/ DatabaseError(w)
             \/ Goto(w, "delete") /\ UNCHANGED <<attempt, answer, spent>>
       \/ DatabaseError(w) /\ UNCHANGED messages
    /\ UNCHANGED <<attempts, queue, accepted>>

MarkNonRetryable(w)   == pc[w] = "refuse" /\ GiveUp(w, "twilio_non_retryable")
MarkRetryExhausted(w) == pc[w] = "exhausted" /\ GiveUp(w, "twilio_retry_exhausted")

-----------------------------------------------------------------------------
(* Time.  A deadline of 0 is no deadline. *)

Deadline(w) ==
    IF pc[w] \in BeforeClaim THEN ClaimWithin
    ELSE IF pc[w] \in Sending THEN HandleWithin ELSE 0

Tick ==
    /\ \A w \in Workers : Deadline(w) # 0 => spent[w] < Deadline(w)
    /\ messages' = [m \in Messages |-> Older(messages[m], StaleAfter)]
    /\ queue' = [m \in Messages |->
                    [queue[m] EXCEPT !.wait = IF @ = 0 THEN 0 ELSE @ - 1]]
    /\ spent' = [w \in Workers |-> IF Deadline(w) = 0 THEN spent[w] ELSE spent[w] + 1]
    /\ UNCHANGED <<attempts, accepted, pc, job, receipt, attempt, answer>>

Process(w) ==
    \/ GetMessageForWorker(w) \/ Claim(w) \/ RejectTemplate(w)
    \/ AcquireToken(w) \/ ExecuteWithBreaker(w) \/ RecordAttempt(w)
    \/ Submit(w) \/ MarkNonRetryable(w) \/ MarkRetryExhausted(w)
    \/ DeleteMessage(w)

Next ==
    \/ \E m \in Messages : Enqueue(m) \/ Redrive(m)
    \/ \E w \in Workers, m \in Messages : Receive(w, m)
    \/ \E w \in Workers : Process(w) \/ Crash(w)
    \/ Tick

Spec == Init /\ [][Next]_vars

\* The goroutines of the pool go on, SQS hands out and redrives what it holds,
\* and time passes; no fault ever has to happen.
Fairness ==
    /\ \A w \in Workers : WF_vars(Process(w))
    /\ \A m \in Messages : WF_vars(Redrive(m)) /\ WF_vars(\E w \in Workers : Receive(w, m))
    /\ WF_vars(Tick)

FairSpec == Spec /\ Fairness

-----------------------------------------------------------------------------
(* Properties. *)

\* Every variable keeps its type, and the loop of Process ends after MaxAttempts.
TypeOK ==
    /\ messages \in [Messages -> Rows]
    /\ attempts \in [Messages -> SUBSET Nat]
    /\ queue \in [Messages -> [status: {"absent", "queued", "deleted", "dlq"},
                               wait: Nat, receives: Nat]]
    /\ accepted \in [Messages -> Nat]
    /\ pc \in [Workers -> Locations]
    /\ job \in [Workers -> Messages \cup {NoMessage}]
    /\ receipt \in [Workers -> Nat]
    /\ attempt \in [Workers -> 0..MaxAttempts]
    /\ answer \in [Workers -> Answers]
    /\ spent \in [Workers -> Nat]
    /\ \A w \in Workers : pc[w] # "idle" => job[w] \in Messages
    /\ \A w \in Workers : pc[w] # "exhausted" => attempt[w] < MaxAttempts

\* A row still "queued" was never sent and its job is still to be had: whatever
\* fails between receipt and claim, no worker is past its claim of that message,
\* no attempt is recorded and no worker has consumed the job.
UnclaimedIsPristine ==
    \A m \in Messages : messages[m].state = "queued" =>
        /\ accepted[m] = 0
        /\ attempts[m] = {}
        /\ queue[m].status \in {"queued", "dlq"}
        /\ \A w \in Workers : job[w] = m => pc[w] \in BeforeClaim

\* The claim does what processor.go says it is for ("avoid duplicate
\* processing"): two workers are never both between claim and return for one
\* message, if no worker takes longer than the staleness the claim allows.
Exclusive ==
    \A v, w \in Workers :
        v # w /\ pc[v] \in Sending /\ pc[w] \in Sending => job[v] # job[w]

\* A sid on a row is one some attempt recorded: the audit trail is written first.
AuditTrail ==
    \A m \in Messages : messages[m].sid # NoSid => messages[m].sid \in attempts[m]

\* A submitted row names the last send the provider took: the status callbacks
\* of that sid are the ones that find the row, and nothing was sent after it.
SubmittedIsNewest ==
    \A m \in Messages :
        messages[m].state = "submitted" /\ messages[m].sid # NoSid =>
            messages[m].sid = accepted[m]

\* No worker takes a message from "submitted" or "failed" to anything else, nor
\* changes the sid its callbacks are matched by.
SettledStays ==
    [][\A m \in Messages :
          messages[m].state \in {"submitted", "failed"} =>
              /\ messages'[m].state = messages[m].state
              /\ messages'[m].sid = messages[m].sid
              /\ accepted'[m] = accepted[m]]_vars

\* The worker implements the life of a message: whatever overlaps and fails, its
\* steps on a row are steps of that life or change nothing of it.
Life == INSTANCE MessageLifecycle
            WITH state <- [m \in Messages |-> messages[m].state], sends <- accepted

ImplementsLifecycle == Life!Spec

\* A job is deleted only when its message has left the worker's hands: one that
\* is still to be sent is left to SQS, which redelivers or dead-letters it
\* (consumer.go, "If err != nil: do NOT delete").
NoLoss ==
    \A m \in Messages :
        queue[m].status = "deleted" => messages[m].state \in {"submitted", "failed"}

\* Every job comes to rest: the message is submitted or failed and the job
\* deleted, or the job is in the dead-letter queue for an operator to see.
ComesToRest ==
    \A m \in Messages :
        queue[m].status = "queued" ~>
            \/ queue[m].status = "deleted" /\ messages[m].state \in {"submitted", "failed"}
            \/ queue[m].status = "dlq"

\* "Retry decision for transient errors": an answer whose status the code calls
\* transient is never taken for a final refusal.
TransientNotRefused ==
    \A w \in Workers : pc[w] = "refuse" => ~TransientStatus(answer[w].status)

\* "If we can't even acquire a token, treat as transient (don't mark failed)": a
\* message is failed for exhausted retries only after a call to the provider.
ExhaustedWasTried ==
    \A m \in Messages :
        messages[m].lastError = "twilio_retry_exhausted" => attempts[m] # {}
=============================================================================
