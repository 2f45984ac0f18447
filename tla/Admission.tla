----------------------------- MODULE Admission -----------------------------
(***************************************************************************)
(* The accepting half of the service: the requests POST /v1/sms/messages   *)
(* hands to NotificationService.CreateAndEnqueueSMS                        *)
(* (internal/service/notification.go), over PostgreSQL and the send queue. *)
(*                                                                         *)
(* A request is one run of the handler, on any pod, and its name is also   *)
(* the message id drawn for it.  A client that tries again is another      *)
(* request with the same tenant and key.  Each call of the handler is one  *)
(* step, so requests interleave between calls; a call may fail before or   *)
(* after it took effect and a pod may die between two calls.               *)
(***************************************************************************)
EXTENDS MessageStore, FiniteSets

CONSTANTS
    Requests,    \* runs of the handler, and the message ids they draw
    Tenant,      \* the tenantId of each request
    IdemKey,     \* its idempotencyKey
    To,          \* its phone number, normalized
    NoMessage,   \* the id in an error reply
    MaxPerDay,   \* NotificationService.MaxPerDay
    LastDay,     \* bound on the calendar: days are 0..LastDay
    Faults       \* what may go wrong, of the FaultKinds

\* "database": a statement returns an error, committed or not.  "queue":
\* SendMessage returns an error, sent or not.  "crash": an API pod is killed.
FaultKinds == {"database", "queue", "crash"}

ASSUME AdmissionAssumption ==
    /\ IsFiniteSet(Requests)
    /\ NoMessage \notin Requests
    /\ DOMAIN Tenant = Requests /\ DOMAIN IdemKey = Requests /\ DOMAIN To = Requests
    /\ MaxPerDay \in Nat
    /\ LastDay \in Nat
    /\ Faults \subseteq FaultKinds

VARIABLES
    messages,    \* the messages table, by id
    caps,        \* send_caps_daily: the count of a subscriber and a day
    suppressed,  \* the subscribers in suppression_list
    optedIn,     \* the subscribers whose consents row says opted_in
    jobs,        \* the message ids whose job SQS took
    recent,      \* the deduplication ids SQS remembers
    day,         \* today
    pc,          \* the next call of each handler
    now,         \* the day of the timestamp the handler was started with
    reason,      \* the last_error it is about to write
    reply        \* what it answered

vars == <<messages, caps, suppressed, optedIn, jobs, recent, day, pc, now, reason, reply>>

Days        == 0..LastDay
Subscriber(r) == <<Tenant[r], To[r]>>
Subscribers == {Subscriber(r) : r \in Requests}

Locations == {"new", "find", "create", "suppression", "consent", "cap", "enqueue",
              "suppress", "fail", "done"}

\* A CreateResponse, "error" for a 502 and "none" for no answer.
Replies == [id: Requests \cup {NoMessage}, state: MessageStates \cup {"none", "error"}]
NoReply    == [id |-> NoMessage, state |-> "none"]
ErrorReply == [id |-> NoMessage, state |-> "error"]

Init ==
    /\ messages = [r \in Requests |-> AbsentRow]
    /\ caps = [s \in Subscribers |-> [d \in Days |-> 0]]
    /\ suppressed \in SUBSET Subscribers
    /\ optedIn \in SUBSET Subscribers
    /\ jobs = {}
    /\ recent = {}
    /\ day = 0
    /\ pc = [r \in Requests |-> "new"]
    /\ now = [r \in Requests |-> 0]
    /\ reason = [r \in Requests |-> ""]
    /\ reply = [r \in Requests |-> NoReply]

-----------------------------------------------------------------------------
Goto(r, location) == pc' = [pc EXCEPT ![r] = location] /\ UNCHANGED <<now, reply>>

Answer(r, answer) ==
    /\ pc' = [pc EXCEPT ![r] = "done"]
    /\ reply' = [reply EXCEPT ![r] = answer]
    /\ UNCHANGED <<now, reason>>

DatabaseError(r) == "database" \in Faults /\ Answer(r, ErrorReply)

\* handleSendSMS: the id and the time are drawn here.
Arrive(r) ==
    /\ pc[r] = "new"
    /\ pc' = [pc EXCEPT ![r] = "find"]
    /\ now' = [now EXCEPT ![r] = day]
    /\ UNCHANGED <<messages, caps, suppressed, optedIn, jobs, recent, day, reason, reply>>

SameKey(r, s) == Tenant[r] = Tenant[s] /\ IdemKey[r] = IdemKey[s]
Holders(r) == {m \in Requests : messages[m].state # "absent" /\ SameKey(m, r)}

FindMessageByIdempotency(r) ==
    /\ pc[r] = "find"
    /\ \/ DatabaseError(r)
       \/ \E m \in Holders(r) : Answer(r, [id |-> m, state |-> messages[m].state])
       \/ Holders(r) = {} /\ Goto(r, "create") /\ UNCHANGED reason
    /\ UNCHANGED <<messages, caps, suppressed, optedIn, jobs, recent, day>>

CreateUnlessSameId(r) ==
    /\ pc[r] = "create"
    /\ \/ /\ messages[r].state = "absent"
          /\ messages' = [messages EXCEPT ![r] = InsertMessage(@)]
          /\ Goto(r, "suppression") /\ UNCHANGED reason
       \/ DatabaseError(r) /\ UNCHANGED messages
    /\ UNCHANGED <<caps, suppressed, optedIn, jobs, recent, day>>

CreateAndSend(r) ==
    /\ pc[r] = "create" /\ Holders(r) = {}
    /\ messages' = [messages EXCEPT ![r] = InsertMessage(@)]
    /\ jobs' = jobs \cup {r}
    /\ Goto(r, "suppression")
    /\ UNCHANGED <<caps, suppressed, optedIn, recent, day, reason>>

\* The INSERT; UNIQUE (tenant_id, idempotency_key) refuses a second holder.
CreateMessage(r) ==
    /\ pc[r] = "create"
    /\ \/ /\ Holders(r) = {}
          /\ messages' = [messages EXCEPT ![r] = InsertMessage(@)]
          /\ \/ Goto(r, "suppression") /\ UNCHANGED reason
             \/ DatabaseError(r)
       \/ /\ Holders(r) # {}
          /\ Answer(r, ErrorReply)
          /\ UNCHANGED messages
       \/ DatabaseError(r) /\ UNCHANGED messages
    /\ UNCHANGED <<caps, suppressed, optedIn, jobs, recent, day>>

RefuseUnmarked(r, lastError) == Answer(r, [id |-> r, state |-> "suppressed"])

Refuse(r, lastError) ==
    Goto(r, "suppress") /\ reason' = [reason EXCEPT ![r] = lastError]

IsSuppressed(r) ==
    /\ pc[r] = "suppression"
    /\ \/ Subscriber(r) \in suppressed /\ Refuse(r, "suppressed")
       \/ Subscriber(r) \notin suppressed /\ Goto(r, "consent") /\ UNCHANGED reason
       \/ DatabaseError(r)
    /\ UNCHANGED <<messages, caps, suppressed, optedIn, jobs, recent, day>>

IsOptedInUnlessError(r) ==
    /\ pc[r] = "consent"
    /\ \/ Subscriber(r) \notin optedIn /\ Refuse(r, "not_opted_in")
       \/ /\ Subscriber(r) \in optedIn \/ "database" \in Faults
          /\ Goto(r, "cap") /\ UNCHANGED reason
    /\ UNCHANGED <<messages, caps, suppressed, optedIn, jobs, recent, day>>

IsOptedIn(r) ==
    /\ pc[r] = "consent"
    /\ \/ Subscriber(r) \notin optedIn /\ Refuse(r, "not_opted_in")
       \/ Subscriber(r) \in optedIn /\ Goto(r, "cap") /\ UNCHANGED reason
       \/ DatabaseError(r)
    /\ UNCHANGED <<messages, caps, suppressed, optedIn, jobs, recent, day>>

\* One transaction: the upsert locks the counter, and an increment over the
\* limit is taken back before the commit.
BelowCapInclusive(r) == caps[Subscriber(r)][now[r]] <= MaxPerDay
BelowCap(r) == caps[Subscriber(r)][now[r]] < MaxPerDay

IncrementDailyCap(r) ==
    /\ pc[r] = "cap"
    /\ \/ /\ BelowCap(r)
          /\ caps' = [caps EXCEPT ![Subscriber(r)][now[r]] = @ + 1]
          /\ \/ Goto(r, "enqueue") /\ UNCHANGED reason
             \/ DatabaseError(r)
       \/ /\ ~BelowCap(r)
          /\ Refuse(r, "cap_exceeded")
          /\ UNCHANGED caps
       \/ DatabaseError(r) /\ UNCHANGED caps
    /\ UNCHANGED <<messages, suppressed, optedIn, jobs, recent, day>>

\* SendMessage: SQS takes the job and remembers its deduplication id, or drops
\* it as a duplicate and says nothing.
SendMessage(r) ==
    /\ jobs' = IF IdemKey[r] \in recent THEN jobs ELSE jobs \cup {r}
    /\ recent' = recent \cup {IdemKey[r]}

EnqueueSMS(r) ==
    /\ pc[r] = "enqueue"
    /\ \/ /\ SendMessage(r)
          /\ Answer(r, [id |-> r, state |-> "queued"])
       \/ /\ "queue" \in Faults
          /\ SendMessage(r) \/ UNCHANGED <<jobs, recent>>
          /\ Goto(r, "fail")
          /\ reason' = [reason EXCEPT ![r] = "enqueue_failed"]
    /\ UNCHANGED <<messages, caps, suppressed, optedIn, day>>

Mark(r, state) ==
    messages' = [messages EXCEPT ![r] = MarkMessageState(@, state, reason[r])]

MarkSuppressedGoesOn(r) ==
    /\ pc[r] = "suppress"
    /\ Mark(r, "suppressed")
    /\ Goto(r, "enqueue") /\ UNCHANGED reason
    /\ UNCHANGED <<caps, suppressed, optedIn, jobs, recent, day>>

\* The error of the update is returned after a suppression, and dropped after a
\* missing consent or a reached cap.
MarkSuppressed(r) ==
    /\ pc[r] = "suppress"
    /\ \/ Mark(r, "suppressed") /\ Answer(r, [id |-> r, state |-> "suppressed"])
       \/ /\ "database" \in Faults
          /\ Mark(r, "suppressed") \/ UNCHANGED messages
          /\ Answer(r, IF reason[r] = "suppressed" THEN ErrorReply
                       ELSE [id |-> r, state |-> "suppressed"])
    /\ UNCHANGED <<caps, suppressed, optedIn, jobs, recent, day>>

MarkFailed(r) ==
    /\ pc[r] = "fail"
    /\ \/ Mark(r, "failed")
       \/ "database" \in Faults /\ UNCHANGED messages
    /\ Answer(r, ErrorReply)
    /\ UNCHANGED <<caps, suppressed, optedIn, jobs, recent, day>>

Crash(r) ==
    /\ "crash" \in Faults
    /\ pc[r] \notin {"new", "done"}
    /\ Answer(r, NoReply)
    /\ UNCHANGED <<messages, caps, suppressed, optedIn, jobs, recent, day>>

-----------------------------------------------------------------------------
(* The world outside the handler. *)

\* A subscriber withdraws: an operator opts them out or puts them on the list.
Withdraw(s) ==
    /\ \/ s \in optedIn /\ optedIn' = optedIn \ {s} /\ UNCHANGED suppressed
       \/ s \notin suppressed /\ suppressed' = suppressed \cup {s} /\ UNCHANGED optedIn
    /\ UNCHANGED <<messages, caps, jobs, recent, day, pc, now, reason, reply>>

\* A subscriber gives consent, perhaps again.  Nothing takes one off the list.
OptIn(s) ==
    /\ s \notin optedIn
    /\ optedIn' = optedIn \cup {s}
    /\ UNCHANGED <<messages, caps, suppressed, jobs, recent, day, pc, now, reason, reply>>

\* SQS forgets a deduplication id after five minutes.
ForgetDeduplication(k) ==
    /\ k \in recent
    /\ recent' = recent \ {k}
    /\ UNCHANGED <<messages, caps, suppressed, optedIn, jobs, day, pc, now, reason, reply>>

Midnight ==
    /\ day < LastDay
    /\ day' = day + 1
    /\ UNCHANGED <<messages, caps, suppressed, optedIn, jobs, recent, pc, now, reason, reply>>

CreateAndEnqueueSMS(r) ==
    \/ FindMessageByIdempotency(r) \/ CreateMessage(r) \/ IsSuppressed(r)
    \/ IsOptedIn(r) \/ IncrementDailyCap(r) \/ EnqueueSMS(r)
    \/ MarkSuppressed(r) \/ MarkFailed(r)

Next ==
    \/ \E r \in Requests : Arrive(r) \/ CreateAndEnqueueSMS(r) \/ Crash(r)
    \/ \E s \in Subscribers : Withdraw(s) \/ OptIn(s)
    \/ \E r \in Requests : ForgetDeduplication(IdemKey[r])
    \/ Midnight

Spec == Init /\ [][Next]_vars

-----------------------------------------------------------------------------
(* Properties. *)

\* Every variable keeps its type.
TypeOK ==
    /\ messages \in [Requests -> Rows]
    /\ caps \in [Subscribers -> [Days -> Nat]]
    /\ suppressed \subseteq Subscribers
    /\ optedIn \subseteq Subscribers
    /\ jobs \subseteq Requests
    /\ recent \subseteq {IdemKey[r] : r \in Requests}
    /\ day \in Days
    /\ pc \in [Requests -> Locations]
    /\ now \in [Requests -> Days]
    /\ reason \in [Requests -> LastErrors]
    /\ reply \in [Requests -> Replies]

\* However many requests race with one key, however they are retried and
\* whatever fails, the send queue gets at most one job for it.
OneJobPerKey == \A r, s \in jobs : SameKey(r, s) => r = s

\* The jobs of a subscriber that were admitted on one day are within the cap, and
\* the counter never shows less than was sent, nor more than the cap.
Sent(s, d) == {r \in jobs : Subscriber(r) = s /\ now[r] = d}

WithinDailyCap ==
    \A s \in Subscribers, d \in Days :
        /\ Cardinality(Sent(s, d)) <= caps[s][d]
        /\ caps[s][d] <= MaxPerDay

\* "suppressed" is a promise: a message whose request, first or repeated, was
\* answered so has no job and never gets one, even when its row could not be marked.
SuppressedIsNotSent ==
    \A r \in Requests : reply[r].state = "suppressed" => reply[r].id \notin jobs

\* A subscriber who is on the list when the request arrives, or has no consent then
\* and gives none, gets nothing from it, whatever fails on the way.  (One who gives
\* consent and is put on the list between the two checks passes both.)
OnList(r)    == Subscriber(r) \in suppressed
NoConsent(r) == Subscriber(r) \notin optedIn

WithdrawnIsNotSent ==
    \A r \in Requests :
        [](pc[r] = "new" /\ ([]OnList(r) \/ []NoConsent(r)) => [](r \notin jobs))

\* Acceptance implements the first steps of the life of a message: no handler,
\* racing or repeated, moves a row but from "queued", nor sends anything itself.
Life == INSTANCE MessageLifecycle
            WITH Messages <- Requests,
                 state <- [r \in Requests |-> messages[r].state],
                 sends <- [r \in Requests |-> 0]

ImplementsLifecycle == Life!Spec

\* No request leaves a row of its own "queued" without a job in silence: its
\* client got an error or no answer, or was refused and only the mark has failed.
StrandedIsKnown ==
    \A r \in Requests :
        pc[r] = "done" /\ messages[r].state = "queued" /\ r \notin jobs =>
            \/ reply[r] \in {ErrorReply, NoReply}
            \/ reply[r].state = "suppressed" /\ reason[r] # ""

\* Keys are per tenant (UNIQUE (tenant_id, idempotency_key) of 001_init.sql): a
\* request that was answered "queued" for a row of its own has a job in the queue.
QueuedIsSent ==
    \A r \in Requests : reply[r] = [id |-> r, state |-> "queued"] => r \in jobs
=============================================================================
