--------------------------- MODULE DeliveryProofs ---------------------------
(***************************************************************************)
(* What holds of Delivery for any number of messages and workers.          *)
(***************************************************************************)
EXTENDS Delivery, TLAPS

-----------------------------------------------------------------------------
(* Rows. *)

\* Every statement on a row gives a row.
LEMMA RowOperators ==
    ASSUME NEW row \in Rows
    PROVE  /\ InsertMessage(row) \in Rows
           /\ ClaimMessage(row) \in Rows
           /\ \A s \in MessageStates, e \in LastErrors : MarkMessageState(row, s, e) \in Rows
           /\ \A sid \in Nat : SetProviderDetails(row, sid) \in Rows
           /\ \A limit \in Nat : Older(row, limit) \in Rows
<1>1. InsertMessage(row) \in Rows
  BY DEF Rows, InsertMessage, MessageStates
<1>2. ClaimMessage(row) \in Rows
  BY DEF Rows, ClaimMessage, MessageStates
<1>3. \A s \in MessageStates, e \in LastErrors : MarkMessageState(row, s, e) \in Rows
  BY DEF Rows, MarkMessageState
<1>4. \A sid \in Nat : SetProviderDetails(row, sid) \in Rows
  BY DEF Rows, SetProviderDetails, MessageStates
<1>5. \A limit \in Nat : Older(row, limit) \in Rows
  BY DEF Rows, Older
<1> QED
  BY <1>1, <1>2, <1>3, <1>4, <1>5

\* The fields each statement sets, and those it leaves.
LEMMA RowFields ==
    ASSUME NEW row \in Rows
    PROVE  /\ ClaimMessage(row).state = "processing"
           /\ ClaimMessage(row).age = 0
           /\ \A s \in MessageStates, e \in LastErrors : MarkMessageState(row, s, e).state = s
           /\ \A sid \in Nat : /\ SetProviderDetails(row, sid).state = "submitted"
                              /\ SetProviderDetails(row, sid).sid = sid
           /\ \A limit \in Nat : /\ Older(row, limit).state = row.state
                                /\ Older(row, limit).sid = row.sid
                                /\ Older(row, limit).age <= row.age + 1
<1>1. ClaimMessage(row).state = "processing" /\ ClaimMessage(row).age = 0
  BY DEF Rows, ClaimMessage
<1>2. \A s \in MessageStates, e \in LastErrors : MarkMessageState(row, s, e).state = s
  BY DEF Rows, MarkMessageState
<1>3. \A sid \in Nat : /\ SetProviderDetails(row, sid).state = "submitted"
                      /\ SetProviderDetails(row, sid).sid = sid
  BY DEF Rows, SetProviderDetails
<1>4. \A limit \in Nat : /\ Older(row, limit).state = row.state
                        /\ Older(row, limit).sid = row.sid
                        /\ Older(row, limit).age <= row.age + 1
  BY DEF Rows, Older
<1> QED
  BY <1>1, <1>2, <1>3, <1>4

\* A job under way is one of Messages.
LEMMA JobOfBusyWorker ==
    ASSUME TypeOK, NEW w \in Workers, pc[w] # "idle"
    PROVE  job[w] \in Messages
  BY DEF TypeOK

-----------------------------------------------------------------------------
(* Types. *)

\* The initial state is well typed.
LEMMA InitTypeOK == Init => TypeOK
<1>1. AbsentRow \in Rows
  BY DEF AbsentRow, Rows, MessageStates, LastErrors, NoSid
<1>2. NoAnswer \in Answers
  BY DEF NoAnswer, Answers, Errors, Statuses, NoSid
<1> QED
  BY <1>1, <1>2 DEF Init, TypeOK, Locations, MaxAttempts

\* A worker that forgets what it held leaves its variables well typed.
LEMMA IdleKeepsType ==
    ASSUME TypeOK, NEW w \in Workers, Idle(w)
    PROVE  /\ pc' \in [Workers -> Locations]
           /\ job' \in [Workers -> Messages \cup {NoMessage}]
           /\ receipt' \in [Workers -> Nat]
           /\ attempt' \in [Workers -> 0..MaxAttempts]
           /\ answer' \in [Workers -> Answers]
           /\ spent' \in [Workers -> Nat]
           /\ \A v \in Workers : pc'[v] # "idle" => job'[v] \in Messages
           /\ \A v \in Workers : pc'[v] # "exhausted" => attempt'[v] < MaxAttempts
  BY DEF TypeOK, Idle, Locations, MaxAttempts, NoAnswer, Answers, Errors, Statuses, NoSid

\* So does a worker that goes on to another call.
LEMMA GotoKeepsType ==
    ASSUME TypeOK, NEW w \in Workers, pc[w] # "idle",
           NEW location \in Locations, Goto(w, location)
    PROVE  /\ pc' \in [Workers -> Locations]
           /\ job' \in [Workers -> Messages \cup {NoMessage}]
           /\ receipt' \in [Workers -> Nat]
           /\ \A v \in Workers : pc'[v] # "idle" => job'[v] \in Messages
           /\ UNCHANGED attempt /\ "exhausted" \notin {pc[w], location} =>
                \A v \in Workers : pc'[v] # "exhausted" => attempt'[v] < MaxAttempts
  BY DEF TypeOK, Goto

\* The call after a failed attempt is one of two.
LEMMA NextAttemptLocation ==
    ASSUME NEW w \in Workers
    PROVE  NextAttempt(w) \in Sending
  BY DEF NextAttempt, Sending

\* Counting an attempt keeps the counter within MaxAttempts.
LEMMA RetryKeepsType ==
    ASSUME TypeOK, NEW w \in Workers, pc[w] \notin {"idle", "exhausted"},
           Goto(w, NextAttempt(w)), attempt' = [attempt EXCEPT ![w] = @ + 1]
    PROVE  /\ pc' \in [Workers -> Locations]
           /\ job' \in [Workers -> Messages \cup {NoMessage}]
           /\ receipt' \in [Workers -> Nat]
           /\ attempt' \in [Workers -> 0..MaxAttempts]
           /\ \A v \in Workers : pc'[v] # "idle" => job'[v] \in Messages
           /\ \A v \in Workers : pc'[v] # "exhausted" => attempt'[v] < MaxAttempts
<1>1. NextAttempt(w) \in Locations
  BY NextAttemptLocation DEF Locations
<1>2. attempt[w] + 1 \in 0..MaxAttempts
  BY DEF TypeOK, MaxAttempts
<1>3. NextAttempt(w) # "exhausted" => attempt[w] + 1 < MaxAttempts
  BY DEF NextAttempt
<1> QED
  BY <1>1, <1>2, <1>3, GotoKeepsType DEF Goto, TypeOK

\* Every step keeps the types: one case per action.
LEMMA TypeStep == TypeOK /\ [Next]_vars => TypeOK'
<1> SUFFICES ASSUME TypeOK, [Next]_vars PROVE TypeOK'
  OBVIOUS
<1>1. ASSUME NEW m \in Messages, Enqueue(m) PROVE TypeOK'
  BY <1>1, RowOperators DEF Enqueue, TypeOK
<1>2. ASSUME NEW m \in Messages, Redrive(m) PROVE TypeOK'
  BY <1>2 DEF Redrive, TypeOK
<1>3. ASSUME NEW w \in Workers, NEW m \in Messages, Receive(w, m) PROVE TypeOK'
  BY <1>3, DeliveryAssumption DEF Receive, TypeOK, Locations, BeforeClaim
<1>4. ASSUME NEW w \in Workers, GetMessageForWorker(w) PROVE TypeOK'
  <2>1. CASE Idle(w)
    BY <1>4, <2>1, IdleKeepsType DEF GetMessageForWorker, TypeOK
  <2>2. ASSUME NEW l \in {"delete", "claim"}, Goto(w, l), UNCHANGED <<attempt, answer, spent>>
        PROVE  TypeOK'
    BY <1>4, <2>2, GotoKeepsType DEF GetMessageForWorker, TypeOK, Locations, BeforeClaim
  <2> QED
    BY <1>4, <2>1, <2>2 DEF GetMessageForWorker, DatabaseError
<1>5. ASSUME NEW w \in Workers, Claim(w) PROVE TypeOK'
  <2>1. pc[w] # "idle" /\ job[w] \in Messages
    BY <1>5, JobOfBusyWorker DEF Claim
  <2>2. messages' \in [Messages -> Rows]
    BY <1>5, <2>1, RowOperators DEF Claim, TypeOK
  <2>3. UNCHANGED <<attempts, queue, accepted>>
    BY <1>5 DEF Claim
  <2>4. CASE Idle(w)
    BY <2>2, <2>3, <2>4, IdleKeepsType DEF TypeOK
  <2>5. ASSUME NEW l \in {"limit", "template", "delete"}, Goto(w, l),
               UNCHANGED <<attempt, answer>>, spent' \in [Workers -> Nat]
        PROVE  TypeOK'
    BY <1>5, <2>1, <2>2, <2>3, <2>5, GotoKeepsType DEF Claim, TypeOK, Locations, Sending
  <2> QED
    <3>1. CASE \E l \in {"limit", "template"} :
                  /\ Goto(w, l)
                  /\ spent' = [spent EXCEPT ![w] = 0]
                  /\ UNCHANGED <<attempt, answer>>
      <4>1. spent' \in [Workers -> Nat]
        BY <3>1 DEF TypeOK
      <4> QED
        BY <2>5, <3>1, <4>1
    <3>2. CASE Goto(w, "delete") /\ UNCHANGED <<attempt, answer, spent>>
      BY <2>5, <3>2 DEF TypeOK
    <3> QED
      BY <1>5, <2>4, <3>1, <3>2 DEF Claim, DatabaseError
<1>6. ASSUME NEW w \in Workers, NEW e \in LastErrors, pc[w] # "idle", GiveUp(w, e) PROVE TypeOK'
  <2>1. job[w] \in Messages
    BY <1>6, JobOfBusyWorker
  <2>2. messages' \in [Messages -> Rows]
    <3>1. MarkMessageState(messages[job[w]], "failed", e) \in Rows
      BY <1>6, <2>1, RowOperators DEF TypeOK, MessageStates
    <3> QED
      BY <1>6, <2>1, <3>1 DEF GiveUp, TypeOK
  <2> QED
    BY <1>6, <2>2, IdleKeepsType DEF GiveUp, DatabaseError, TypeOK
<1>7. ASSUME NEW w \in Workers, AcquireToken(w) PROVE TypeOK'
  <2>1. pc[w] # "idle" /\ attempt[w] \in 0..MaxAttempts - 1
    BY <1>7 DEF AcquireToken, TypeOK, MaxAttempts
  <2>2. CASE Goto(w, "call") /\ UNCHANGED attempt
    BY <1>7, <2>1, <2>2, GotoKeepsType
       DEF AcquireToken, TypeOK, Goto, Locations, Sending, MaxAttempts
  <2>3. CASE Goto(w, NextAttempt(w)) /\ attempt' = [attempt EXCEPT ![w] = @ + 1]
    BY <1>7, <2>1, <2>3, RetryKeepsType DEF AcquireToken, TypeOK
  <2> QED
    BY <1>7, <2>2, <2>3 DEF AcquireToken
<1>8. ASSUME NEW w \in Workers, ExecuteWithBreaker(w) PROVE TypeOK'
  <2>1. pc[w] # "idle" /\ job[w] \in Messages
    BY <1>8, JobOfBusyWorker DEF ExecuteWithBreaker
  <2>2. CASE Idle(w) /\ UNCHANGED accepted
    BY <1>8, <2>2, IdleKeepsType DEF ExecuteWithBreaker, TypeOK
  <2>3. ASSUME NEW took \in BOOLEAN, NEW err \in Errors, NEW status \in Statuses,
               NEW sid \in {accepted[job[w]] + 1, NoSid},
               accepted' = [accepted EXCEPT ![job[w]] = IF took THEN @ + 1 ELSE @],
               answer' = [answer EXCEPT ![w] = [err |-> err, status |-> status, sid |-> sid]],
               Goto(w, "record"), UNCHANGED <<attempt, spent>>
        PROVE  TypeOK'
    <3>1. [err |-> err, status |-> status, sid |-> sid] \in Answers
      BY <2>1 DEF Answers, TypeOK, NoSid
    <3>2. accepted' \in [Messages -> Nat] /\ answer' \in [Workers -> Answers]
      BY <2>1, <2>3, <3>1 DEF TypeOK
    <3> QED
      BY <1>8, <2>1, <2>3, <3>2, GotoKeepsType
         DEF ExecuteWithBreaker, TypeOK, Locations, Sending
  <2> QED
    BY <1>8, <2>2, <2>3 DEF ExecuteWithBreaker
<1>9. ASSUME NEW w \in Workers, RecordAttempt(w) PROVE TypeOK'
  <2>1. pc[w] # "idle" /\ job[w] \in Messages /\ answer[w].sid \in Nat
    BY <1>9, JobOfBusyWorker DEF RecordAttempt, TypeOK, Answers
  <2>2. attempts' \in [Messages -> SUBSET Nat]
    BY <1>9, <2>1 DEF RecordAttempt, TypeOK
  <2>3. CASE Idle(w)
    BY <1>9, <2>2, <2>3, IdleKeepsType DEF RecordAttempt, TypeOK
  <2>4. CASE /\ Goto(w, AfterRecord(w))
             /\ attempt' = [attempt EXCEPT ![w] = IF Retries(w) THEN @ + 1 ELSE @]
             /\ UNCHANGED <<answer, spent>>
    <3>1. CASE Retries(w)
      BY <1>9, <2>1, <2>2, <2>4, <3>1, RetryKeepsType
         DEF RecordAttempt, AfterRecord, Retries, TypeOK
    <3>2. CASE ~Retries(w)
      <4>1. AfterRecord(w) \in {"submit", "refuse"}
        BY <3>2 DEF AfterRecord
      <4>2. AfterRecord(w) \in Locations
        BY <4>1 DEF Locations, Sending
      <4>3. UNCHANGED attempt
        BY <2>4, <3>2 DEF TypeOK
      <4> QED
        BY <1>9, <2>1, <2>2, <2>4, <4>1, <4>2, <4>3, GotoKeepsType
           DEF RecordAttempt, TypeOK, Goto
    <3> QED
      BY <3>1, <3>2
  <2> QED
    BY <1>9, <2>3, <2>4 DEF RecordAttempt, DatabaseError
<1>10. ASSUME NEW w \in Workers, Submit(w) PROVE TypeOK'
  <2>1. pc[w] # "idle" /\ job[w] \in Messages /\ answer[w].sid \in Nat
    BY <1>10, JobOfBusyWorker DEF Submit, TypeOK, Answers
  <2>2. messages' \in [Messages -> Rows]
    <3>1. SetProviderDetails(messages[job[w]], answer[w].sid) \in Rows
      BY <2>1, RowOperators DEF TypeOK
    <3> QED
      BY <1>10, <2>1, <3>1 DEF Submit, TypeOK
  <2>3. CASE Idle(w)
    BY <1>10, <2>2, <2>3, IdleKeepsType DEF Submit, TypeOK
  <2>4. CASE Goto(w, "delete") /\ UNCHANGED <<attempt, answer, spent>>
    BY <1>10, <2>1, <2>2, <2>4, GotoKeepsType DEF Submit, TypeOK, Locations
  <2> QED
    BY <1>10, <2>3, <2>4 DEF Submit, DatabaseError
<1>11. ASSUME NEW w \in Workers, DeleteMessage(w) PROVE TypeOK'
  <2>1. queue' \in [Messages -> [status: {"absent", "queued", "deleted", "dlq"},
                                 wait: Nat, receives: Nat]]
    BY <1>11 DEF DeleteMessage, TypeOK
  <2> QED
    BY <1>11, <2>1, IdleKeepsType DEF DeleteMessage, TypeOK
<1>12. ASSUME NEW w \in Workers, Crash(w) PROVE TypeOK'
  BY <1>12, IdleKeepsType DEF Crash, TypeOK
<1>13. CASE Tick
  <2>1. messages' \in [Messages -> Rows]
    BY <1>13, RowOperators, DeliveryAssumption DEF Tick, TypeOK
  <2>2. queue' \in [Messages -> [status: {"absent", "queued", "deleted", "dlq"},
                                 wait: Nat, receives: Nat]]
    <3>1. ASSUME NEW m \in Messages
          PROVE  [queue[m] EXCEPT !.wait = IF @ = 0 THEN 0 ELSE @ - 1] \in
                   [status: {"absent", "queued", "deleted", "dlq"}, wait: Nat, receives: Nat]
      <4>1. /\ queue[m] \in [status: {"absent", "queued", "deleted", "dlq"},
                              wait: Nat, receives: Nat]
            /\ queue[m].wait # 0 => queue[m].wait - 1 \in Nat
        BY <3>1 DEF TypeOK
      <4> QED
        BY <4>1
    <3> QED
      BY <1>13, <3>1 DEF Tick
  <2>3. spent' \in [Workers -> Nat]
    BY <1>13 DEF Tick, TypeOK
  <2> QED
    BY <1>13, <2>1, <2>2, <2>3 DEF Tick, TypeOK
<1>14. CASE UNCHANGED vars
  BY <1>14 DEF vars, TypeOK
<1>15. ASSUME NEW w \in Workers, Process(w) PROVE TypeOK'
  <2>1. CASE RejectTemplate(w) \/ MarkNonRetryable(w) \/ MarkRetryExhausted(w)
    BY <1>6, <2>1 DEF RejectTemplate, MarkNonRetryable, MarkRetryExhausted, LastErrors
  <2> QED
    BY <1>4, <1>5, <1>7, <1>8, <1>9, <1>10, <1>11, <1>15, <2>1 DEF Process
<1> QED
  BY <1>1, <1>2, <1>3, <1>12, <1>13, <1>14, <1>15 DEF Next

\* Whatever the numbers of messages and workers, the time-outs and the faults,
\* every variable of Delivery keeps its type.
THEOREM Typing == Spec => []TypeOK
  BY InitTypeOK, TypeStep, PTL DEF Spec

-----------------------------------------------------------------------------
(* A row that was never claimed. *)

\* What holds of a message until its claim: the queue knows it only when the
\* table does, workers only when the queue does, and before the claim nothing has
\* been sent, recorded or consumed.
UnclaimedRow(m) ==
    /\ messages[m].state = "absent" => queue[m].status = "absent"
    /\ queue[m].status = "absent" => accepted[m] = 0 /\ \A w \in Workers : job[w] # m
    /\ messages[m].state \in {"absent", "queued"} =>
          /\ accepted[m] = 0
          /\ attempts[m] = {}
          /\ queue[m].status # "deleted"
          /\ \A w \in Workers : job[w] = m => pc[w] \in BeforeClaim

UnclaimedInv == \A m \in Messages : UnclaimedRow(m)

\* Here the API's part is one step, so the table knows no message before the queue.
PristineInv ==
    UnclaimedInv /\ \A m \in Messages : queue[m].status = "absent" => messages[m].state = "absent"

\* The steps of SQS, of the workers and of time: all but the API's part, and with
\* or without workers being killed.
LiveWork ==
    \/ \E m \in Messages : Redrive(m)
    \/ \E w \in Workers, m \in Messages : Receive(w, m)
    \/ \E w \in Workers : Process(w)
    \/ Tick

Works == LiveWork \/ \E w \in Workers : Crash(w)

\* A step of one worker concerns the message it handles.
LEMMA UnclaimedFrame ==
    ASSUME UnclaimedInv, NEW w \in Workers, NEW j \in Messages, job[w] = j,
           \A m \in Messages \ {j} :
              /\ messages'[m] = messages[m] /\ queue'[m] = queue[m]
              /\ accepted'[m] = accepted[m] /\ attempts'[m] = attempts[m],
           \A v \in Workers \ {w} : pc'[v] = pc[v] /\ job'[v] = job[v],
           job'[w] \in {j, NoMessage},
           UnclaimedRow(j)'
    PROVE  UnclaimedInv'
<1> SUFFICES ASSUME NEW m \in Messages, m # j PROVE UnclaimedRow(m)'
  BY DEF UnclaimedInv
<1>1. UnclaimedRow(m) /\ job'[w] # m
  BY DeliveryAssumption DEF UnclaimedInv
<1> QED
  BY <1>1 DEF UnclaimedRow

\* What a step of worker w leaves alone when it does not touch its message's row
\* or job, or only takes the row to a state past the claim.
LEMMA UnclaimedPastClaim ==
    ASSUME TypeOK, UnclaimedInv, NEW w \in Workers, pc[w] \in Sending \cup {"delete"},
           \/ UNCHANGED messages
           \/ \E row \in Rows : /\ row.state \notin {"absent", "queued"}
                                /\ messages' = [messages EXCEPT ![job[w]] = row],
           \/ UNCHANGED queue
           \/ queue' = [queue EXCEPT ![job[w]].status = "deleted"],
           \A m \in Messages \ {job[w]} : accepted'[m] = accepted[m]
                                          /\ attempts'[m] = attempts[m],
           Idle(w) \/ \E l \in Locations : Goto(w, l)
    PROVE  UnclaimedInv'
<1>1. PICK j \in Messages : job[w] = j
  BY JobOfBusyWorker DEF Sending
<1>2. messages[j].state \notin {"absent", "queued"}
  BY <1>1 DEF UnclaimedInv, UnclaimedRow, Sending, BeforeClaim
<1>3. messages'[j].state \notin {"absent", "queued"}
  BY <1>1, <1>2 DEF TypeOK
<1>4. queue[j].status # "absent"
  BY <1>1, <1>2 DEF UnclaimedInv, UnclaimedRow
<1>5. queue'[j].status # "absent"
  BY <1>1, <1>4 DEF TypeOK
<1>6. UnclaimedRow(j)'
  BY <1>3, <1>5 DEF UnclaimedRow
<1>7. /\ \A v \in Workers \ {w} : pc'[v] = pc[v] /\ job'[v] = job[v]
      /\ job'[w] \in {j, NoMessage}
  BY <1>1 DEF Idle, Goto, TypeOK
<1>8. \A m \in Messages \ {j} : messages'[m] = messages[m] /\ queue'[m] = queue[m]
  BY <1>1 DEF TypeOK
<1> QED
  BY <1>1, <1>6, <1>7, <1>8, UnclaimedFrame

\* Every step keeps UnclaimedInv: only ClaimMessage takes a row out of "queued".
LEMMA UnclaimedStep == TypeOK /\ UnclaimedInv /\ [Works]_vars => UnclaimedInv'
<1> SUFFICES ASSUME TypeOK, UnclaimedInv, [Works]_vars PROVE UnclaimedInv'
  OBVIOUS
<1>2. ASSUME NEW m \in Messages, Redrive(m) PROVE UnclaimedInv'
  BY <1>2 DEF Redrive, Visible, UnclaimedInv, UnclaimedRow, TypeOK
<1>3. ASSUME NEW w \in Workers, NEW m \in Messages, Receive(w, m) PROVE UnclaimedInv'
  BY <1>3 DEF Receive, Visible, UnclaimedInv, UnclaimedRow, TypeOK, BeforeClaim
<1>4. ASSUME NEW w \in Workers, GetMessageForWorker(w) PROVE UnclaimedInv'
  BY <1>4, DeliveryAssumption DEF GetMessageForWorker, DatabaseError, Idle, Goto,
     AlreadyHandled, UnclaimedInv, UnclaimedRow, TypeOK, BeforeClaim
<1>5. ASSUME NEW w \in Workers, Claim(w) PROVE UnclaimedInv'
  <2>1. PICK j \in Messages : job[w] = j
    BY <1>5, JobOfBusyWorker DEF Claim
  <2>2. messages[j].state # "absent" /\ queue[j].status # "absent"
    BY <2>1 DEF UnclaimedInv, UnclaimedRow
  <2>3. /\ pc'[w] \in {"idle", "template", "limit", "delete"}
        /\ \A v \in Workers \ {w} : pc'[v] = pc[v] /\ job'[v] = job[v]
        /\ job'[w] \in {j, NoMessage}
    BY <1>5, <2>1 DEF Claim, DatabaseError, Idle, Goto, TypeOK
  <2>4. CASE messages' = [messages EXCEPT ![j] = ClaimMessage(@)]
    <3>1. messages'[j].state = "processing"
      BY <2>4, RowFields DEF TypeOK
    <3>2. UnclaimedRow(j)'
      BY <1>5, <2>2, <3>1 DEF Claim, UnclaimedRow
    <3> QED
      BY <1>5, <2>1, <2>3, <2>4, <3>2, UnclaimedFrame DEF Claim, TypeOK
  <2>5. CASE UNCHANGED messages /\ (Idle(w) \/ ~Claimable(messages[j], StaleAfter))
    <3>1. UnclaimedRow(j) /\ (Idle(w) \/ messages[j].state # "queued")
      BY <2>5 DEF UnclaimedInv, Claimable
    <3>2. UnclaimedRow(j)'
      BY <1>5, <2>1, <2>2, <2>3, <2>5, <3>1, DeliveryAssumption DEF Claim, UnclaimedRow, Idle, TypeOK
    <3> QED
      BY <1>5, <2>1, <2>3, <2>5, <3>2, UnclaimedFrame DEF Claim
  <2> QED
    BY <1>5, <2>1, <2>4, <2>5 DEF Claim, DatabaseError
<1>6. ASSUME NEW w \in Workers, NEW e \in LastErrors, pc[w] \in Sending, GiveUp(w, e)
      PROVE  UnclaimedInv'
  <2>1. job[w] \in Messages
    BY <1>6, JobOfBusyWorker DEF Sending
  <2>2. /\ MarkMessageState(messages[job[w]], "failed", e) \in Rows
        /\ MarkMessageState(messages[job[w]], "failed", e).state = "failed"
    BY <1>6, <2>1, RowOperators, RowFields DEF TypeOK, MessageStates
  <2> QED
    BY <1>6, <2>1, <2>2, UnclaimedPastClaim DEF GiveUp, DatabaseError
<1>7. ASSUME NEW w \in Workers, AcquireToken(w) PROVE UnclaimedInv'
  BY <1>7, UnclaimedPastClaim, NextAttemptLocation DEF AcquireToken, Sending, Locations
<1>8. ASSUME NEW w \in Workers, ExecuteWithBreaker(w) PROVE UnclaimedInv'
  <2>1. \A m \in Messages \ {job[w]} : accepted'[m] = accepted[m]
    BY <1>8 DEF ExecuteWithBreaker, TypeOK
  <2> QED
    BY <1>8, <2>1, UnclaimedPastClaim DEF ExecuteWithBreaker, Sending, Locations
<1>9. ASSUME NEW w \in Workers, RecordAttempt(w) PROVE UnclaimedInv'
  <2>1. \A m \in Messages \ {job[w]} : attempts'[m] = attempts[m]
    BY <1>9 DEF RecordAttempt, TypeOK
  <2>2. AfterRecord(w) \in Locations
    BY NextAttemptLocation DEF AfterRecord, Locations, Sending
  <2> QED
    BY <1>9, <2>1, <2>2, UnclaimedPastClaim DEF RecordAttempt, DatabaseError, Sending
<1>10. ASSUME NEW w \in Workers, Submit(w) PROVE UnclaimedInv'
  <2>1. job[w] \in Messages /\ answer[w].sid \in Nat
    BY <1>10, JobOfBusyWorker DEF Submit, TypeOK, Answers
  <2>2. /\ SetProviderDetails(messages[job[w]], answer[w].sid) \in Rows
        /\ SetProviderDetails(messages[job[w]], answer[w].sid).state = "submitted"
    <3>1. messages[job[w]] \in Rows
      BY <2>1 DEF TypeOK
    <3> QED
      BY <2>1, <3>1, RowOperators, RowFields
  <2> QED
    BY <1>10, <2>1, <2>2, UnclaimedPastClaim
       DEF Submit, DatabaseError, Sending, Locations
<1>11. ASSUME NEW w \in Workers, DeleteMessage(w) PROVE UnclaimedInv'
  BY <1>11, UnclaimedPastClaim DEF DeleteMessage
<1>12. ASSUME NEW w \in Workers, Crash(w) PROVE UnclaimedInv'
  BY <1>12, DeliveryAssumption DEF Crash, Idle, UnclaimedInv, UnclaimedRow, TypeOK
<1>13. CASE Tick
  <2>1. \A m \in Messages : messages'[m].state = messages[m].state
    BY <1>13 DEF Tick, Older, TypeOK, Rows
  <2>2. \A m \in Messages : queue'[m].status = queue[m].status
    BY <1>13 DEF Tick, TypeOK
  <2> QED
    <3>1. ASSUME NEW m \in Messages PROVE UnclaimedRow(m)'
      BY <1>13, <2>1, <2>2 DEF Tick, UnclaimedInv, UnclaimedRow
    <3> QED
      BY <3>1 DEF UnclaimedInv
<1>14. CASE UNCHANGED vars
  BY <1>14 DEF vars, UnclaimedInv, UnclaimedRow
<1>15. ASSUME NEW w \in Workers, Process(w) PROVE UnclaimedInv'
  <2>1. CASE RejectTemplate(w) \/ MarkNonRetryable(w) \/ MarkRetryExhausted(w)
    BY <1>6, <2>1 DEF RejectTemplate, MarkNonRetryable, MarkRetryExhausted, LastErrors, Sending
  <2> QED
    BY <1>4, <1>5, <1>7, <1>8, <1>9, <1>10, <1>11, <1>15, <2>1 DEF Process
<1> QED
  BY <1>2, <1>3, <1>12, <1>13, <1>14, <1>15 DEF Works, LiveWork

\* No job comes up but by Enqueue, and no row goes.
LEMMA PristineStep == TypeOK /\ PristineInv /\ [Next]_vars => PristineInv'
<1> SUFFICES ASSUME TypeOK, PristineInv, [Next]_vars PROVE PristineInv'
  OBVIOUS
<1>1. ASSUME NEW m \in Messages, Enqueue(m) PROVE PristineInv'
  BY <1>1 DEF Enqueue, InsertMessage, PristineInv, UnclaimedInv, UnclaimedRow, TypeOK, Rows
<1>2. ASSUME Works \/ UNCHANGED vars, NEW m \in Messages, queue'[m].status = "absent"
      PROVE  messages'[m].state = "absent"
  <2>1. queue[m].status = "absent"
    <3>1. ASSUME NEW w \in Workers, Process(w), ~DeleteMessage(w) PROVE UNCHANGED queue
      BY <3>1 DEF Process, GetMessageForWorker, Claim, RejectTemplate, MarkNonRetryable,
         MarkRetryExhausted, GiveUp, AcquireToken, ExecuteWithBreaker, RecordAttempt, Submit
    <3>2. ASSUME NEW w \in Workers, DeleteMessage(w) PROVE queue[m].status = "absent"
      BY <1>2, <3>2 DEF DeleteMessage, TypeOK
    <3>3. ASSUME NEW n \in Messages, Redrive(n) PROVE queue[m].status = "absent"
      BY <1>2, <3>3 DEF Redrive, TypeOK
    <3>4. ASSUME NEW w \in Workers, NEW n \in Messages, Receive(w, n)
          PROVE  queue[m].status = "absent"
      BY <1>2, <3>4 DEF Receive, TypeOK
    <3>5. CASE Tick
      BY <1>2, <3>5 DEF Tick, TypeOK
    <3> QED
      BY <1>2, <3>1, <3>2, <3>3, <3>4, <3>5 DEF Works, LiveWork, vars, Crash
  <2>2. messages[m].state = "absent" /\ \A w \in Workers : job[w] # m
    BY <2>1 DEF PristineInv, UnclaimedInv, UnclaimedRow
  <2>3. \/ messages'[m] = messages[m] \/ Tick
    BY <1>2, <2>2, JobOfBusyWorker
       DEF Works, LiveWork, vars, Redrive, Receive, Process, Crash, GetMessageForWorker, Claim,
           RejectTemplate, MarkNonRetryable, MarkRetryExhausted, GiveUp, AcquireToken,
           ExecuteWithBreaker, RecordAttempt, Submit, DeleteMessage, TypeOK
  <2> QED
    BY <2>2, <2>3, RowFields, DeliveryAssumption DEF Tick, TypeOK
<1>3. CASE Works \/ UNCHANGED vars
  BY <1>2, <1>3, UnclaimedStep DEF PristineInv
<1> QED
  BY <1>1, <1>3 DEF Next, Works, LiveWork

\* No message is in the hands of a worker at first.
LEMMA InitPristine == Init => PristineInv
<1> SUFFICES ASSUME Init, NEW m \in Messages
             PROVE  UnclaimedRow(m) /\ (queue[m].status = "absent" => messages[m].state = "absent")
  BY DEF PristineInv, UnclaimedInv
<1>1. messages[m].state = "absent" /\ queue[m].status = "absent"
  BY DEF Init, AbsentRow
<1> QED
  BY <1>1, DeliveryAssumption DEF Init, UnclaimedRow

\* A row that is still "queued" was never sent, recorded or consumed, however
\* many receipts, crashes and failed statements its job has been through.
THEOREM Unclaimed == Spec => []UnclaimedIsPristine
<1>1. TypeOK /\ PristineInv => UnclaimedIsPristine
  BY DEF TypeOK, PristineInv, UnclaimedInv, UnclaimedRow, UnclaimedIsPristine
<1> QED
  BY <1>1, InitTypeOK, TypeStep, InitPristine, PristineStep, PTL DEF Spec

-----------------------------------------------------------------------------
(* The audit trail. *)

\* The sid a worker is about to write to the row is in the trail already.
TrailInv ==
    /\ AuditTrail
    /\ \A w \in Workers : pc[w] = "submit" => answer[w].sid \in attempts[job[w]]

\* A step that writes no sid to a row, or one of the trail, and takes no worker
\* to SetProviderDetails but by InsertAttempt.
LEMMA TrailFrame ==
    ASSUME TypeOK, TrailInv,
           \A m \in Messages : attempts[m] \subseteq attempts'[m],
           \A m \in Messages : \/ messages'[m].sid = messages[m].sid
                               \/ messages'[m].sid \in attempts'[m],
           \A w \in Workers : pc'[w] = "submit" =>
               \/ pc[w] = "submit" /\ job'[w] = job[w] /\ answer'[w] = answer[w]
               \/ answer'[w].sid \in attempts'[job'[w]]
    PROVE  TrailInv'
<1>1. AuditTrail'
  BY DEF TrailInv, AuditTrail
<1>2. ASSUME NEW w \in Workers, pc'[w] = "submit" PROVE answer'[w].sid \in attempts'[job'[w]]
  <2>1. pc[w] = "submit" => job[w] \in Messages
    BY JobOfBusyWorker
  <2> QED
    BY <1>2, <2>1 DEF TrailInv
<1> QED
  BY <1>1, <1>2 DEF TrailInv

\* The statements that give a row no provider_msg_id.
LEMMA SidKept ==
    ASSUME NEW row \in Rows
    PROVE  /\ InsertMessage(row).sid = row.sid
           /\ ClaimMessage(row).sid = row.sid
           /\ \A s \in MessageStates, e \in LastErrors : MarkMessageState(row, s, e).sid = row.sid
  BY DEF Rows, InsertMessage, ClaimMessage, MarkMessageState

\* Every step keeps TrailInv: InsertAttempt comes before SetProviderDetails.
LEMMA TrailStep == TypeOK /\ TrailInv /\ [Next]_vars => TrailInv'
<1> SUFFICES ASSUME TypeOK, TrailInv, [Next]_vars PROVE TrailInv'
  OBVIOUS
<1>1. ASSUME UNCHANGED <<messages, attempts>>,
             \A w \in Workers : pc'[w] = "submit" =>
                 pc[w] = "submit" /\ job'[w] = job[w] /\ answer'[w] = answer[w]
      PROVE  TrailInv'
  BY <1>1, TrailFrame
<1>2. ASSUME NEW m \in Messages, Enqueue(m) PROVE TrailInv'
  BY <1>2, SidKept, TrailFrame DEF Enqueue, TypeOK
<1>3. ASSUME NEW m \in Messages, NEW w \in Workers, Receive(w, m) PROVE TrailInv'
  BY <1>1, <1>3 DEF Receive, TypeOK
<1>4. ASSUME NEW w \in Workers,
             GetMessageForWorker(w) \/ AcquireToken(w) \/ ExecuteWithBreaker(w)
                 \/ DeleteMessage(w) \/ Crash(w)
      PROVE  TrailInv'
  <2>1. CASE Idle(w) /\ UNCHANGED <<messages, attempts>>
    BY <1>1, <2>1 DEF Idle, TypeOK
  <2>2. ASSUME NEW l \in Locations, l # "submit", Goto(w, l), UNCHANGED <<messages, attempts>>,
               \A v \in Workers \ {w} : answer'[v] = answer[v]
        PROVE  TrailInv'
    BY <1>1, <2>2 DEF Goto, TypeOK
  <2>3. CASE GetMessageForWorker(w)
    BY <2>1, <2>2, <2>3 DEF GetMessageForWorker, DatabaseError, Locations, BeforeClaim
  <2>4. CASE AcquireToken(w)
    <3>1. CASE Goto(w, "call")
      BY <2>2, <2>4, <3>1 DEF AcquireToken, Locations, Sending
    <3>2. CASE Goto(w, NextAttempt(w))
      <4>1. NextAttempt(w) \in Locations /\ NextAttempt(w) # "submit"
        BY DEF NextAttempt, Locations, Sending
      <4> QED
        BY <2>2, <2>4, <3>2, <4>1 DEF AcquireToken
    <3> QED
      BY <2>4, <3>1, <3>2 DEF AcquireToken
  <2>5. CASE ExecuteWithBreaker(w)
    <3>1. CASE Idle(w)
      BY <2>1, <2>5, <3>1 DEF ExecuteWithBreaker
    <3>2. CASE Goto(w, "record") /\ \A v \in Workers \ {w} : answer'[v] = answer[v]
      BY <2>2, <2>5, <3>2 DEF ExecuteWithBreaker, Locations, Sending
    <3> QED
      BY <2>5, <3>1, <3>2 DEF ExecuteWithBreaker, TypeOK
  <2>6. CASE DeleteMessage(w) \/ Crash(w)
    BY <2>1, <2>6 DEF DeleteMessage, Crash
  <2> QED
    BY <1>4, <2>3, <2>4, <2>5, <2>6
<1>5. ASSUME NEW w \in Workers, Claim(w) PROVE TrailInv'
  <2>1. \A m \in Messages : messages'[m].sid = messages[m].sid
    BY <1>5, SidKept DEF Claim, TypeOK
  <2>2. \A v \in Workers : pc'[v] = "submit" =>
            pc[v] = "submit" /\ job'[v] = job[v] /\ answer'[v] = answer[v]
    BY <1>5 DEF Claim, DatabaseError, Idle, Goto, TypeOK
  <2> QED
    BY <1>5, <2>1, <2>2, TrailFrame DEF Claim
<1>6. ASSUME NEW w \in Workers, NEW e \in LastErrors, pc[w] # "idle", GiveUp(w, e)
      PROVE  TrailInv'
  <2>1. \A m \in Messages : messages'[m].sid = messages[m].sid
    <3>1. PICK j \in Messages : job[w] = j
      BY <1>6, JobOfBusyWorker
    <3>2. MarkMessageState(messages[j], "failed", e).sid = messages[j].sid
      BY SidKept DEF TypeOK, MessageStates
    <3> QED
      BY <1>6, <3>1, <3>2 DEF GiveUp, TypeOK
  <2>2. \A v \in Workers : pc'[v] = "submit" =>
            pc[v] = "submit" /\ job'[v] = job[v] /\ answer'[v] = answer[v]
    BY <1>6 DEF GiveUp, DatabaseError, Idle, TypeOK
  <2> QED
    BY <1>6, <2>1, <2>2, TrailFrame DEF GiveUp
<1>7. ASSUME NEW w \in Workers, RecordAttempt(w) PROVE TrailInv'
  <2>1. job[w] \in Messages
    BY <1>7, JobOfBusyWorker DEF RecordAttempt
  <2>2. \A m \in Messages : attempts[m] \subseteq attempts'[m]
    BY <1>7 DEF RecordAttempt, TypeOK
  <2>3. ASSUME NEW v \in Workers, pc'[v] = "submit"
        PROVE  \/ pc[v] = "submit" /\ job'[v] = job[v] /\ answer'[v] = answer[v]
               \/ answer'[v].sid \in attempts'[job'[v]]
    BY <1>7, <2>1, <2>3 DEF RecordAttempt, DatabaseError, Idle, Goto, TypeOK
  <2> QED
    BY <1>7, <2>2, <2>3, TrailFrame DEF RecordAttempt
<1>8. ASSUME NEW w \in Workers, Submit(w) PROVE TrailInv'
  <2>1. PICK j \in Messages : job[w] = j
    BY <1>8, JobOfBusyWorker DEF Submit
  <2>2. messages[j] \in Rows /\ answer[w].sid \in Nat /\ answer[w].sid \in attempts[j]
    BY <1>8, <2>1 DEF Submit, TypeOK, Answers, TrailInv
  <2>3. \A m \in Messages : \/ messages'[m].sid = messages[m].sid
                            \/ messages'[m].sid \in attempts[m]
    <3>1. SetProviderDetails(messages[j], answer[w].sid).sid = answer[w].sid
      BY <2>2, RowFields
    <3> QED
      BY <1>8, <2>1, <2>2, <3>1 DEF Submit, TypeOK
  <2>4. \A v \in Workers : pc'[v] = "submit" =>
            pc[v] = "submit" /\ job'[v] = job[v] /\ answer'[v] = answer[v]
    BY <1>8 DEF Submit, DatabaseError, Idle, Goto, TypeOK
  <2> QED
    BY <1>8, <2>3, <2>4, TrailFrame DEF Submit
<1>9. ASSUME Tick PROVE TrailInv'
  <2>1. \A m \in Messages : messages'[m].sid = messages[m].sid
    BY <1>9, RowFields, DeliveryAssumption DEF Tick, TypeOK
  <2> QED
    BY <1>9, <2>1, TrailFrame DEF Tick
<1>10. ASSUME NEW w \in Workers, Process(w) PROVE TrailInv'
  <2>1. CASE RejectTemplate(w) \/ MarkNonRetryable(w) \/ MarkRetryExhausted(w)
    BY <1>6, <2>1 DEF RejectTemplate, MarkNonRetryable, MarkRetryExhausted, LastErrors
  <2> QED
    BY <1>4, <1>5, <1>7, <1>8, <1>10, <2>1 DEF Process
<1> QED
  BY <1>1, <1>2, <1>3, <1>4, <1>9, <1>10 DEF Next, Redrive, vars

\* A provider_msg_id on a row is one that provider_attempts has: with workers of
\* any speed, and whatever fails.
THEOREM Trail == Spec => []AuditTrail
<1>1. Init => TrailInv
  <2>1. AbsentRow.sid = NoSid
    BY DEF AbsentRow
  <2> QED
    BY <2>1 DEF Init, TrailInv, AuditTrail
<1>2. TrailInv => AuditTrail
  BY DEF TrailInv
<1> QED
  BY <1>1, <1>2, InitTypeOK, TypeStep, TrailStep, PTL DEF Spec

-----------------------------------------------------------------------------
(* The claim as a lock. *)

\* A worker that is sending holds the claim: the row is in one of the states that
\* allow no other, and it has said "processing" for no longer than the worker has
\* been at it, which is not long enough for another claim.
HoldsClaim(S, w) ==
    pc[w] \in Sending =>
        /\ messages[job[w]].state \in S
        /\ messages[job[w]].state = "processing" => messages[job[w]].age <= spent[w]
        /\ spent[w] <= HandleWithin

\* The workers on their own leave the row of a claim at "processing".  Where others
\* write to the table too there may be more such states, but never these.
Processing == {"processing"}
HeldStates(S) == "processing" \in S /\ "queued" \notin S /\ "submitted" \notin S

\* The answer a worker is about to write down is the provider's last.
AnswerIsNewest(w) ==
    pc[w] \in {"record", "submit"} /\ answer[w].sid # NoSid =>
        answer[w].sid = accepted[job[w]]

ClaimInv(S) ==
    /\ Exclusive
    /\ \A w \in Workers : HoldsClaim(S, w) /\ AnswerIsNewest(w)
    /\ SubmittedIsNewest

\* Handlers return before a claim goes stale.
Timely == HandleWithin # 0 /\ HandleWithin <= StaleAfter

\* The row a sending worker works on is not yet claimable by another.
LEMMA HeldIsNotClaimable ==
    ASSUME NEW S, HeldStates(S), Timely, TypeOK, ClaimInv(S),
           NEW w \in Workers, pc[w] \in Sending
    PROVE  ~Claimable(messages[job[w]], StaleAfter)
<1>1. job[w] \in Messages
  BY JobOfBusyWorker DEF Sending
<1>2. /\ messages[job[w]].state # "queued"
      /\ messages[job[w]].age \in Nat /\ spent[w] \in Nat
      /\ messages[job[w]].state = "processing" => messages[job[w]].age <= spent[w]
      /\ spent[w] <= HandleWithin
  BY <1>1 DEF ClaimInv, HoldsClaim, HeldStates, TypeOK, Rows
<1> QED
  BY <1>2, DeliveryAssumption DEF Claimable, Timely

\* A step of a worker that holds a claim, or that needs none: it may change its
\* own row only to leave, and its message's sends only as the holder.
LEMMA ClaimFrame ==
    ASSUME NEW S, TypeOK, ClaimInv(S), NEW w \in Workers, NEW j \in Messages, job[w] = j,
           \A m \in Messages \ {j} : messages'[m] = messages[m] /\ accepted'[m] = accepted[m],
           \A v \in Workers \ {w} : /\ pc'[v] = pc[v] /\ job'[v] = job[v]
                                   /\ answer'[v] = answer[v] /\ spent'[v] = spent[v],
           pc'[w] \in Sending => pc[w] \in Sending /\ job'[w] = j,
           \/ messages'[j] = messages[j] /\ accepted'[j] = accepted[j]
           \/ pc[w] \in Sending,
           HoldsClaim(S, w)', AnswerIsNewest(w)',
           messages'[j].state = "submitted" /\ messages'[j].sid # NoSid =>
               \/ messages'[j] = messages[j] /\ accepted'[j] = accepted[j]
               \/ messages'[j].sid = accepted'[j]
    PROVE  ClaimInv(S)'
<1>1. Exclusive'
  BY DEF ClaimInv, Exclusive
<1>2. ASSUME NEW v \in Workers, v # w, pc[v] \in Sending
      PROVE  /\ messages'[job[v]] = messages[job[v]]
             /\ accepted'[job[v]] = accepted[job[v]]
  <2>1. job[v] \in Messages
    BY <1>2, JobOfBusyWorker DEF Sending
  <2>2. pc[w] \in Sending => job[v] # j
    BY <1>2 DEF ClaimInv, Exclusive
  <2> QED
    BY <2>1, <2>2
<1>3. ASSUME NEW v \in Workers PROVE HoldsClaim(S, v)' /\ AnswerIsNewest(v)'
  <2>1. CASE v = w
    BY <2>1
  <2>2. CASE v # w
    BY <1>2, <2>2 DEF ClaimInv, HoldsClaim, AnswerIsNewest, Sending
  <2> QED
    BY <2>1, <2>2
<1>4. SubmittedIsNewest'
  BY DEF ClaimInv, SubmittedIsNewest
<1> QED
  BY <1>1, <1>3, <1>4 DEF ClaimInv

\* What Idle and Goto leave of the other workers.
LEMMA OthersUnchanged ==
    ASSUME TypeOK, NEW w \in Workers,
           Idle(w) \/ (UNCHANGED answer /\ \E l \in Locations : Goto(w, l)),
           Idle(w) \/ UNCHANGED spent
    PROVE  \A v \in Workers \ {w} : /\ pc'[v] = pc[v] /\ job'[v] = job[v]
                                    /\ answer'[v] = answer[v] /\ spent'[v] = spent[v]
  BY DEF TypeOK, Idle, Goto

\* A worker that leaves.
LEMMA ClaimReleased ==
    ASSUME NEW S, TypeOK, ClaimInv(S), NEW w \in Workers, Idle(w), UNCHANGED accepted,
           \/ UNCHANGED messages
           \/ /\ pc[w] \in Sending
              /\ \E row \in Rows : /\ row.state # "submitted"
                                   /\ messages' = [messages EXCEPT ![job[w]] = row],
           pc[w] # "idle"
    PROVE  ClaimInv(S)'
<1>1. PICK j \in Messages : job[w] = j
  BY JobOfBusyWorker
<1>2. pc'[w] = "idle"
  BY DEF Idle, TypeOK
<1>3. HoldsClaim(S, w)' /\ AnswerIsNewest(w)'
  BY <1>2 DEF HoldsClaim, AnswerIsNewest, Sending
<1>4. \A m \in Messages \ {j} : messages'[m] = messages[m] /\ accepted'[m] = accepted[m]
  BY <1>1 DEF TypeOK
<1>5. \/ messages'[j] = messages[j] /\ accepted'[j] = accepted[j]
      \/ pc[w] \in Sending /\ messages'[j].state # "submitted"
  BY <1>1 DEF TypeOK
<1> QED
  BY <1>1, <1>2, <1>3, <1>4, <1>5, OthersUnchanged, ClaimFrame DEF Sending

\* A worker that moves on with nothing changed but its own variables.
LEMMA ClaimKept ==
    ASSUME NEW S, TypeOK, ClaimInv(S), NEW w \in Workers, NEW l \in Locations,
           Goto(w, l), UNCHANGED <<messages, accepted, answer, spent>>, pc[w] # "idle",
           l \in Sending => pc[w] \in Sending,
           l \in {"record", "submit"} => pc[w] \in {"record", "submit"}
    PROVE  ClaimInv(S)'
<1>1. PICK j \in Messages : job[w] = j
  BY JobOfBusyWorker
<1>2. pc'[w] = l /\ job'[w] = j
  BY <1>1 DEF Goto, TypeOK
<1>3. HoldsClaim(S, w)' /\ AnswerIsNewest(w)'
  BY <1>1, <1>2 DEF ClaimInv, HoldsClaim, AnswerIsNewest
<1> QED
  BY <1>1, <1>2, <1>3, OthersUnchanged, ClaimFrame

\* Enqueue finds no worker on its message and leaves its row "queued".
LEMMA ClaimEnqueue ==
    ASSUME NEW S, TypeOK, PristineInv, ClaimInv(S), NEW m \in Messages, Enqueue(m)
    PROVE  ClaimInv(S)'
<1>1. messages[m].state = "absent" /\ \A w \in Workers : job[w] # m
  BY DEF Enqueue, PristineInv, UnclaimedInv, UnclaimedRow
<1>2. messages'[m].state = "queued" /\ \A n \in Messages \ {m} : messages'[n] = messages[n]
  BY <1>1 DEF Enqueue, InsertMessage, TypeOK, Rows
<1>3. Exclusive'
  BY DEF Enqueue, ClaimInv, Exclusive
<1>4. ASSUME NEW w \in Workers PROVE HoldsClaim(S, w)' /\ AnswerIsNewest(w)'
  BY <1>1, <1>2, JobOfBusyWorker
     DEF Enqueue, ClaimInv, HoldsClaim, AnswerIsNewest, Sending
<1>5. SubmittedIsNewest'
  BY <1>2 DEF Enqueue, ClaimInv, SubmittedIsNewest
<1> QED
  BY <1>3, <1>4, <1>5 DEF ClaimInv

\* Every other step of timely workers keeps ClaimInv(S): the clock does not get past
\* the staleness of a claim whose holder is still at work.
LEMMA ClaimStep ==
    ASSUME NEW S, HeldStates(S)
    PROVE  Timely /\ TypeOK /\ ClaimInv(S) /\ [Works]_vars => ClaimInv(S)'
<1> SUFFICES ASSUME Timely, TypeOK, ClaimInv(S), [Works]_vars PROVE ClaimInv(S)'
  OBVIOUS
<1>2. ASSUME NEW m \in Messages, Redrive(m) PROVE ClaimInv(S)'
  BY <1>2 DEF Redrive, ClaimInv, Exclusive, HoldsClaim, AnswerIsNewest, SubmittedIsNewest
<1>3. ASSUME NEW w \in Workers, NEW m \in Messages, Receive(w, m) PROVE ClaimInv(S)'
  <2>1. /\ pc'[w] = "get"
        /\ \A v \in Workers \ {w} : /\ pc'[v] = pc[v] /\ job'[v] = job[v]
                                    /\ spent'[v] = spent[v]
        /\ UNCHANGED <<messages, accepted, answer>>
    BY <1>3 DEF Receive, TypeOK
  <2>2. Exclusive'
    BY <2>1 DEF ClaimInv, Exclusive, Sending
  <2>3. ASSUME NEW v \in Workers PROVE HoldsClaim(S, v)' /\ AnswerIsNewest(v)'
    BY <2>1 DEF ClaimInv, HoldsClaim, AnswerIsNewest, Sending
  <2> QED
    BY <2>1, <2>2, <2>3 DEF ClaimInv, SubmittedIsNewest
<1>4. ASSUME NEW w \in Workers, GetMessageForWorker(w) PROVE ClaimInv(S)'
  <2>1. CASE Idle(w)
    BY <1>4, <2>1, ClaimReleased DEF GetMessageForWorker
  <2>2. ASSUME NEW l \in {"delete", "claim"}, Goto(w, l), UNCHANGED <<attempt, answer, spent>>
        PROVE  ClaimInv(S)'
    BY <1>4, <2>2, ClaimKept DEF GetMessageForWorker, Sending, Locations, BeforeClaim
  <2> QED
    BY <1>4, <2>1, <2>2 DEF GetMessageForWorker, DatabaseError
<1>5. ASSUME NEW w \in Workers, Claim(w) PROVE ClaimInv(S)'
  <2>1. PICK j \in Messages : job[w] = j
    BY <1>5, JobOfBusyWorker DEF Claim
  <2>2. CASE /\ Claimable(messages[j], StaleAfter)
             /\ messages' = [messages EXCEPT ![j] = ClaimMessage(@)]
    <3>1. \A v \in Workers : pc[v] \in Sending => job[v] # j
      BY <2>2, HeldIsNotClaimable
    <3>2. /\ messages'[j].state = "processing" /\ messages'[j].age = 0
          /\ \A m \in Messages \ {j} : messages'[m] = messages[m]
      BY <2>2, RowFields DEF TypeOK
    <3>3. /\ \A v \in Workers \ {w} : /\ pc'[v] = pc[v] /\ job'[v] = job[v]
                                      /\ answer'[v] = answer[v] /\ spent'[v] = spent[v]
          /\ UNCHANGED accepted
          /\ pc'[w] \notin {"record", "submit"}
          /\ pc'[w] \in Sending => job'[w] = j /\ spent'[w] = 0
      BY <1>5, <2>1, <2>2 DEF Claim, DatabaseError, Idle, Goto, TypeOK, Sending
    <3>4. Exclusive'
      BY <3>1, <3>3 DEF ClaimInv, Exclusive
    <3>5. ASSUME NEW v \in Workers PROVE HoldsClaim(S, v)' /\ AnswerIsNewest(v)'
      <4>1. CASE v = w
        BY <3>2, <3>3, <4>1, DeliveryAssumption DEF HoldsClaim, HeldStates, AnswerIsNewest
      <4>2. CASE v # w
        BY <3>1, <3>2, <3>3, <4>2, JobOfBusyWorker
           DEF ClaimInv, HoldsClaim, AnswerIsNewest, Sending
      <4> QED
        BY <4>1, <4>2
    <3>6. SubmittedIsNewest'
      BY <3>2, <3>3 DEF ClaimInv, SubmittedIsNewest
    <3> QED
      BY <3>4, <3>5, <3>6 DEF ClaimInv
  <2>3. CASE Idle(w) /\ UNCHANGED messages
    BY <1>5, <2>3, ClaimReleased DEF Claim
  <2>4. CASE Goto(w, "delete") /\ UNCHANGED <<messages, attempt, answer, spent>>
    BY <1>5, <2>4, ClaimKept DEF Claim, Sending, Locations
  <2> QED
    BY <1>5, <2>1, <2>2, <2>3, <2>4 DEF Claim, DatabaseError
<1>6. ASSUME NEW w \in Workers, NEW e \in LastErrors, pc[w] \in Sending, GiveUp(w, e)
      PROVE  ClaimInv(S)'
  <2>1. pc[w] # "idle" /\ job[w] \in Messages
    BY <1>6, JobOfBusyWorker DEF Sending
  <2>2. /\ MarkMessageState(messages[job[w]], "failed", e) \in Rows
        /\ MarkMessageState(messages[job[w]], "failed", e).state = "failed"
    BY <1>6, <2>1, RowOperators, RowFields DEF TypeOK, MessageStates
  <2> QED
    BY <1>6, <2>1, <2>2, ClaimReleased DEF GiveUp, DatabaseError
<1>7. ASSUME NEW w \in Workers, AcquireToken(w) PROVE ClaimInv(S)'
  <2>1. NextAttempt(w) \in Sending \ {"record", "submit"}
    BY DEF NextAttempt, Sending
  <2> QED
    BY <1>7, <2>1, ClaimKept DEF AcquireToken, Sending, Locations
<1>8. ASSUME NEW w \in Workers, ExecuteWithBreaker(w) PROVE ClaimInv(S)'
  <2>1. pc[w] \in Sending /\ pc[w] # "idle"
    BY <1>8 DEF ExecuteWithBreaker, Sending
  <2>2. PICK j \in Messages : job[w] = j
    BY <2>1, JobOfBusyWorker
  <2>3. CASE Idle(w) /\ UNCHANGED accepted
    BY <1>8, <2>1, <2>3, ClaimReleased DEF ExecuteWithBreaker
  <2>4. ASSUME NEW took \in BOOLEAN, NEW err \in Errors, NEW status \in Statuses,
               NEW sid \in {accepted[job[w]] + 1, NoSid},
               Returned(took, [err |-> err, status |-> status, sid |-> sid]),
               accepted' = [accepted EXCEPT ![job[w]] = IF took THEN @ + 1 ELSE @],
               answer' = [answer EXCEPT ![w] = [err |-> err, status |-> status, sid |-> sid]],
               Goto(w, "record"), UNCHANGED <<attempt, spent, messages>>
        PROVE  ClaimInv(S)'
    <3>1. sid # NoSid => sid = accepted'[j]
      BY <2>2, <2>4 DEF Returned, TypeOK
    <3>2. /\ pc'[w] = "record" /\ job'[w] = j /\ answer'[w].sid = sid
          /\ \A v \in Workers \ {w} : /\ pc'[v] = pc[v] /\ job'[v] = job[v]
                                      /\ answer'[v] = answer[v] /\ spent'[v] = spent[v]
          /\ \A m \in Messages \ {j} : messages'[m] = messages[m] /\ accepted'[m] = accepted[m]
      BY <2>2, <2>4 DEF Goto, TypeOK
    <3>3. messages'[j].state # "submitted"
      BY <2>1, <2>2, <2>4 DEF ClaimInv, HoldsClaim, HeldStates
    <3>4. HoldsClaim(S, w)' /\ AnswerIsNewest(w)'
      BY <2>1, <2>2, <2>4, <3>1, <3>2 DEF ClaimInv, HoldsClaim, AnswerIsNewest
    <3> QED
      BY <2>1, <2>2, <3>2, <3>3, <3>4, ClaimFrame
  <2> QED
    BY <1>8, <2>3, <2>4 DEF ExecuteWithBreaker
<1>9. ASSUME NEW w \in Workers, RecordAttempt(w) PROVE ClaimInv(S)'
  <2>1. AfterRecord(w) \in Sending
    BY NextAttemptLocation DEF AfterRecord, Sending
  <2>2. CASE Idle(w)
    BY <1>9, <2>2, ClaimReleased DEF RecordAttempt
  <2>3. CASE Goto(w, AfterRecord(w)) /\ UNCHANGED <<answer, spent>>
    BY <1>9, <2>1, <2>3, ClaimKept DEF RecordAttempt, Sending, Locations
  <2> QED
    BY <1>9, <2>2, <2>3 DEF RecordAttempt, DatabaseError
<1>10. ASSUME NEW w \in Workers, Submit(w) PROVE ClaimInv(S)'
  <2>1. pc[w] \in Sending /\ pc[w] # "idle" /\ answer[w].sid \in Nat
    BY <1>10 DEF Submit, Sending, TypeOK, Answers
  <2>2. PICK j \in Messages : job[w] = j
    BY <2>1, JobOfBusyWorker
  <2>3. CASE UNCHANGED messages /\ Idle(w)
    BY <1>10, <2>1, <2>3, ClaimReleased DEF Submit
  <2>4. CASE messages' = [messages EXCEPT ![j] = SetProviderDetails(@, answer[w].sid)]
    <3>1. messages[j] \in Rows
      BY DEF TypeOK
    <3>2. /\ messages'[j].sid = answer[w].sid
          /\ \A m \in Messages \ {j} : messages'[m] = messages[m]
      BY <2>1, <2>4, <3>1, RowFields DEF TypeOK
    <3>3. messages'[j].sid # NoSid => messages'[j].sid = accepted[j]
      BY <1>10, <2>2, <3>2 DEF Submit, ClaimInv, AnswerIsNewest
    <3>4. /\ pc'[w] \in {"idle", "delete"}
          /\ \A v \in Workers \ {w} : /\ pc'[v] = pc[v] /\ job'[v] = job[v]
                                      /\ answer'[v] = answer[v] /\ spent'[v] = spent[v]
      BY <1>10 DEF Submit, DatabaseError, Idle, Goto, TypeOK
    <3>5. HoldsClaim(S, w)' /\ AnswerIsNewest(w)'
      BY <3>4 DEF HoldsClaim, AnswerIsNewest, Sending
    <3> QED
      BY <1>10, <2>1, <2>2, <3>2, <3>3, <3>4, <3>5, ClaimFrame DEF Submit, Sending
  <2>5. CASE UNCHANGED messages /\ Goto(w, "delete") /\ UNCHANGED <<attempt, answer, spent>>
    BY <1>10, <2>1, <2>5, ClaimKept DEF Submit, Sending, Locations
  <2> QED
    BY <1>10, <2>2, <2>3, <2>4, <2>5 DEF Submit, DatabaseError
<1>11. ASSUME NEW w \in Workers, DeleteMessage(w) PROVE ClaimInv(S)'
  BY <1>11, ClaimReleased DEF DeleteMessage
<1>12. ASSUME NEW w \in Workers, Crash(w) PROVE ClaimInv(S)'
  BY <1>12, ClaimReleased DEF Crash
<1>13. CASE Tick
  <2>1. ASSUME NEW m \in Messages
        PROVE  /\ messages'[m].state = messages[m].state
               /\ messages'[m].sid = messages[m].sid
               /\ messages'[m].age <= messages[m].age + 1
               /\ messages'[m].age \in Nat
    <3>1. messages[m] \in Rows
      BY DEF TypeOK
    <3>2. messages'[m] = Older(messages[m], StaleAfter) /\ messages'[m] \in Rows
      BY <1>13, <3>1, RowOperators, DeliveryAssumption DEF Tick
    <3> QED
      BY <3>1, <3>2, RowFields, DeliveryAssumption DEF Rows
  <2>2. ASSUME NEW w \in Workers, pc[w] \in Sending
        PROVE  spent'[w] = spent[w] + 1 /\ spent[w] < HandleWithin
    <3>1. Deadline(w) = HandleWithin /\ Deadline(w) # 0
      BY <2>2 DEF Deadline, Timely, Sending, BeforeClaim
    <3> QED
      BY <1>13, <3>1 DEF Tick
  <2>3. ASSUME NEW w \in Workers PROVE HoldsClaim(S, w)'
    <3>1. SUFFICES ASSUME pc[w] \in Sending
                   PROVE  /\ messages'[job[w]].state \in S
                          /\ messages'[job[w]].state = "processing" =>
                               messages'[job[w]].age <= spent'[w]
                          /\ spent'[w] <= HandleWithin
      BY <1>13 DEF Tick, HoldsClaim
    <3>2. job[w] \in Messages
      BY <3>1, JobOfBusyWorker DEF Sending
    <3>3. /\ messages[job[w]].state \in S
          /\ messages[job[w]].state = "processing" => messages[job[w]].age <= spent[w]
          /\ messages[job[w]].age \in Nat /\ spent[w] \in Nat
      BY <3>1, <3>2 DEF ClaimInv, HoldsClaim, TypeOK, Rows
    <3> QED
      BY <2>1, <2>2, <3>1, <3>2, <3>3, DeliveryAssumption
  <2> QED
    BY <1>13, <2>1, <2>3 DEF Tick, ClaimInv, Exclusive, AnswerIsNewest, SubmittedIsNewest
<1>14. CASE UNCHANGED vars
  BY <1>14 DEF vars, ClaimInv, Exclusive, HoldsClaim, AnswerIsNewest, SubmittedIsNewest
<1>15. ASSUME NEW w \in Workers, Process(w) PROVE ClaimInv(S)'
  <2>1. CASE RejectTemplate(w) \/ MarkNonRetryable(w) \/ MarkRetryExhausted(w)
    BY <1>6, <2>1 DEF RejectTemplate, MarkNonRetryable, MarkRetryExhausted, LastErrors, Sending
  <2> QED
    BY <1>4, <1>5, <1>7, <1>8, <1>9, <1>10, <1>11, <1>15, <2>1 DEF Process
<1> QED
  BY <1>2, <1>3, <1>12, <1>13, <1>14, <1>15 DEF Works, LiveWork

\* No message is claimed at first.
LEMMA InitClaimInv == ASSUME NEW S PROVE Init => ClaimInv(S)
<1> SUFFICES ASSUME Init PROVE ClaimInv(S)
  OBVIOUS
<1>1. /\ \A w \in Workers : pc[w] = "idle"
      /\ \A m \in Messages : messages[m].state = "absent"
  BY DEF Init, AbsentRow
<1> QED
  BY <1>1 DEF ClaimInv, Exclusive, HoldsClaim, AnswerIsNewest, SubmittedIsNewest, Sending

\* The inductive invariant as a whole, for the three theorems that rest on it.
LEMMA ClaimInvariant == ASSUME Timely PROVE Spec => [](TypeOK /\ PristineInv /\ ClaimInv(Processing))
<1>1. Init => TypeOK /\ PristineInv /\ ClaimInv(Processing)
  BY InitTypeOK, InitPristine, InitClaimInv
<1>2. TypeOK /\ PristineInv /\ ClaimInv(Processing) /\ [Next]_vars => (TypeOK /\ PristineInv /\ ClaimInv(Processing))'
  <2>1. HeldStates(Processing)
    BY DEF HeldStates, Processing
  <2> QED
    BY <2>1, TypeStep, PristineStep, ClaimEnqueue, ClaimStep DEF Next, Works, LiveWork
<1> QED
  BY <1>1, <1>2, PTL DEF Spec

\* If every handler returns within the staleness of a claim, no two workers are
\* ever sending one message, whatever fails and however often it is redelivered.
THEOREM ClaimIsExclusive == ASSUME Timely PROVE Spec => []Exclusive
<1>1. ClaimInv(Processing) => Exclusive
  BY DEF ClaimInv
<1> QED
  BY <1>1, ClaimInvariant, PTL

\* Under the same assumption the sid on a submitted row is that of the last send.
THEOREM SubmittedSid == ASSUME Timely PROVE Spec => []SubmittedIsNewest
<1>1. ClaimInv(Processing) => SubmittedIsNewest
  BY DEF ClaimInv
<1> QED
  BY <1>1, ClaimInvariant, PTL

\* What SettledStays asks of one message in one step.
Untouched(m) ==
    messages[m].state \in {"submitted", "failed"} =>
        /\ messages'[m].state = messages[m].state
        /\ messages'[m].sid = messages[m].sid
        /\ accepted'[m] = accepted[m]

\* From the claim invariant: a step finds no worker in the middle of a settled
\* message, so it cannot write to its row.
LEMMA SettledStep ==
    ASSUME Timely, TypeOK, PristineInv, ClaimInv(Processing), Next, NEW m \in Messages
    PROVE  Untouched(m)
<1>1. ASSUME UNCHANGED <<messages, accepted>> PROVE Untouched(m)
  BY <1>1 DEF Untouched
<1>2. ASSUME NEW n \in Messages, Enqueue(n) PROVE Untouched(m)
  BY <1>2 DEF Enqueue, InsertMessage, PristineInv, UnclaimedInv, UnclaimedRow, Untouched, TypeOK
<1>3. ASSUME NEW w \in Workers, pc[w] \in Sending,
             \A n \in Messages \ {job[w]} : messages'[n] = messages[n]
                                            /\ accepted'[n] = accepted[n]
      PROVE  Untouched(m)
  BY <1>3 DEF ClaimInv, HoldsClaim, Processing, Untouched
<1>4. ASSUME NEW w \in Workers, Claim(w) PROVE Untouched(m)
  BY <1>4 DEF Claim, Claimable, Untouched, TypeOK
<1>5. ASSUME NEW w \in Workers, Process(w) PROVE Untouched(m)
  <2>1. CASE GetMessageForWorker(w) \/ AcquireToken(w) \/ RecordAttempt(w) \/ DeleteMessage(w)
    BY <1>1, <2>1 DEF GetMessageForWorker, AcquireToken, RecordAttempt, DeleteMessage
  <2>2. CASE RejectTemplate(w) \/ MarkNonRetryable(w) \/ MarkRetryExhausted(w)
    BY <1>3, <2>2
       DEF RejectTemplate, MarkNonRetryable, MarkRetryExhausted, GiveUp, Sending, TypeOK
  <2>3. CASE ExecuteWithBreaker(w)
    BY <1>3, <2>3 DEF ExecuteWithBreaker, Sending, TypeOK
  <2>4. CASE Submit(w)
    BY <1>3, <2>4 DEF Submit, Sending, TypeOK
  <2> QED
    BY <1>4, <1>5, <2>1, <2>2, <2>3, <2>4 DEF Process
<1>6. CASE Tick
  <2>1. messages[m] \in Rows /\ messages'[m] = Older(messages[m], StaleAfter)
    BY <1>6 DEF Tick, TypeOK
  <2> QED
    BY <1>6, <2>1, RowFields, DeliveryAssumption DEF Tick, Untouched
<1> QED
  BY <1>1, <1>2, <1>5, <1>6 DEF Next, Redrive, Receive, Crash

\* And no worker ever touches a message that is submitted or failed again.
THEOREM Settled == ASSUME Timely PROVE Spec => SettledStays
<1>1. Timely /\ TypeOK /\ PristineInv /\ ClaimInv(Processing) /\ [Next]_vars =>
          [\A m \in Messages :
              messages[m].state \in {"submitted", "failed"} =>
                  /\ messages'[m].state = messages[m].state
                  /\ messages'[m].sid = messages[m].sid
                  /\ accepted'[m] = accepted[m]]_vars
  BY SettledStep DEF Untouched
<1> QED
  BY <1>1, ClaimInvariant, PTL DEF Spec, SettledStays

-----------------------------------------------------------------------------
(* The life of a message. *)

\* A worker about to hand a message over has had it accepted.
SentInv ==
    \A w \in Workers : pc[w] \in {"record", "submit"} =>
        /\ pc[w] = "submit" => answer[w].err = "nil"
        /\ answer[w].err = "nil" => accepted[job[w]] > 0

\* A step that forgets no send, and takes no worker to InsertAttempt or past it
\* but with an answer it had.
LEMMA SentFrame ==
    ASSUME TypeOK, SentInv,
           \A m \in Messages : accepted'[m] >= accepted[m],
           accepted' \in [Messages -> Nat],
           \A w \in Workers : pc'[w] \in {"record", "submit"} =>
               /\ pc[w] \in {"record", "submit"}
               /\ job'[w] = job[w] /\ answer'[w] = answer[w]
               /\ pc'[w] = "submit" => answer[w].err = "nil"
    PROVE  SentInv'
<1> SUFFICES ASSUME NEW w \in Workers, pc'[w] \in {"record", "submit"}
             PROVE  /\ pc'[w] = "submit" => answer'[w].err = "nil"
                    /\ answer'[w].err = "nil" => accepted'[job'[w]] > 0
  BY DEF SentInv
<1>1. job[w] \in Messages
  BY JobOfBusyWorker
<1>2. answer[w].err = "nil" => accepted[job[w]] > 0
  BY DEF SentInv
<1> QED
  BY <1>1, <1>2 DEF TypeOK

\* Every step keeps SentInv: a call that returns nil was accepted.
LEMMA SentStep == TypeOK /\ SentInv /\ [Next]_vars => SentInv'
<1> SUFFICES ASSUME TypeOK, SentInv, [Next]_vars PROVE SentInv'
  OBVIOUS
<1>1. ASSUME UNCHANGED accepted, UNCHANGED <<pc, job, answer>> PROVE SentInv'
  BY <1>1 DEF SentInv
<1>0. UNCHANGED accepted => /\ \A m \in Messages : accepted'[m] >= accepted[m]
                           /\ accepted' \in [Messages -> Nat]
  BY DEF TypeOK
<1>2. ASSUME NEW w \in Workers, Idle(w), UNCHANGED accepted PROVE SentInv'
  <2>1. \A v \in Workers : pc'[v] \in {"record", "submit"} =>
            pc'[v] = pc[v] /\ job'[v] = job[v] /\ answer'[v] = answer[v]
    BY <1>2 DEF Idle, TypeOK
  <2> QED
    BY <1>0, <1>2, <2>1, SentFrame DEF SentInv
<1>3. ASSUME NEW w \in Workers, NEW l \in Locations \ {"record", "submit"},
             Goto(w, l), UNCHANGED <<accepted, answer>>
      PROVE  SentInv'
  <2>1. \A v \in Workers : pc'[v] \in {"record", "submit"} =>
            pc'[v] = pc[v] /\ job'[v] = job[v] /\ answer'[v] = answer[v]
    BY <1>3 DEF Goto, TypeOK
  <2> QED
    BY <1>0, <1>3, <2>1, SentFrame DEF SentInv
<1>4. ASSUME NEW m \in Messages, NEW w \in Workers, Receive(w, m) PROVE SentInv'
  BY <1>4, SentFrame DEF Receive, TypeOK
<1>5. ASSUME NEW w \in Workers, ExecuteWithBreaker(w) PROVE SentInv'
  <2>1. job[w] \in Messages
    BY <1>5, JobOfBusyWorker DEF ExecuteWithBreaker
  <2>2. ASSUME NEW took \in BOOLEAN, NEW err \in Errors, NEW status \in Statuses,
               NEW sid \in {accepted[job[w]] + 1, NoSid},
               Returned(took, [err |-> err, status |-> status, sid |-> sid]),
               accepted' = [accepted EXCEPT ![job[w]] = IF took THEN @ + 1 ELSE @],
               answer' = [answer EXCEPT ![w] = [err |-> err, status |-> status, sid |-> sid]],
               Goto(w, "record")
        PROVE  SentInv'
    <3>1. err = "nil" => took
      BY <2>2 DEF Returned
    <3>2. /\ \A m \in Messages : accepted'[m] >= accepted[m] /\ accepted[m] \in Nat
          /\ took => accepted'[job[w]] = accepted[job[w]] + 1
      BY <2>1, <2>2 DEF TypeOK
    <3>3. /\ pc'[w] = "record" /\ job'[w] = job[w] /\ answer'[w].err = err
          /\ \A v \in Workers \ {w} : /\ pc'[v] = pc[v] /\ job'[v] = job[v]
                                      /\ answer'[v] = answer[v]
      BY <2>2 DEF Goto, TypeOK
    <3>4. ASSUME NEW v \in Workers, pc'[v] \in {"record", "submit"}
          PROVE  /\ pc'[v] = "submit" => answer'[v].err = "nil"
                 /\ answer'[v].err = "nil" => accepted'[job'[v]] > 0
      <4>1. CASE v = w
        BY <2>1, <3>1, <3>2, <3>3, <4>1
      <4>2. CASE v # w
        <5>1. /\ pc[v] = pc'[v] /\ job[v] = job'[v] /\ answer[v] = answer'[v]
              /\ job[v] \in Messages
          BY <3>3, <3>4, <4>2, JobOfBusyWorker
        <5>2. /\ pc[v] = "submit" => answer[v].err = "nil"
              /\ answer[v].err = "nil" => accepted[job[v]] > 0
          BY <3>4, <5>1 DEF SentInv
        <5>3. /\ accepted[job[v]] \in Nat /\ accepted'[job[v]] \in Nat
              /\ accepted'[job[v]] >= accepted[job[v]]
          BY <2>1, <2>2, <5>1 DEF TypeOK
        <5> QED
          BY <5>1, <5>2, <5>3
      <4> QED
        BY <4>1, <4>2
    <3> QED
      BY <3>4 DEF SentInv
  <2> QED
    BY <1>2, <1>5, <2>2 DEF ExecuteWithBreaker
<1>6. ASSUME NEW w \in Workers, RecordAttempt(w) PROVE SentInv'
  <2>1. CASE Idle(w)
    BY <1>2, <1>6, <2>1 DEF RecordAttempt
  <2>2. CASE Goto(w, AfterRecord(w)) /\ UNCHANGED answer
    <3>1. pc'[w] = AfterRecord(w) /\ \A v \in Workers \ {w} : pc'[v] = pc[v]
      BY <2>2 DEF Goto, TypeOK
    <3>2. AfterRecord(w) = "submit" => answer[w].err = "nil"
      BY DEF AfterRecord, NextAttempt
    <3>3. AfterRecord(w) # "record"
      BY DEF AfterRecord, NextAttempt
    <3>4. /\ UNCHANGED <<accepted, job, answer>> /\ pc[w] = "record"
          /\ accepted \in [Messages -> Nat]
      BY <1>6, <2>2 DEF RecordAttempt, Goto, TypeOK
    <3>5. \A v \in Workers : pc[v] = "submit" => answer[v].err = "nil"
      BY DEF SentInv
    <3>6. \A m \in Messages : accepted'[m] >= accepted[m]
      BY <3>4
    <3> QED
      BY <3>1, <3>2, <3>3, <3>4, <3>5, <3>6, SentFrame
  <2> QED
    BY <1>6, <2>1, <2>2 DEF RecordAttempt, DatabaseError
<1>7. ASSUME NEW w \in Workers, Process(w) PROVE SentInv'
  <2>1. CASE RejectTemplate(w) \/ MarkNonRetryable(w) \/ MarkRetryExhausted(w)
    BY <1>2, <2>1 DEF RejectTemplate, MarkNonRetryable, MarkRetryExhausted, GiveUp, DatabaseError
  <2>2. CASE GetMessageForWorker(w) \/ Claim(w) \/ Submit(w) \/ DeleteMessage(w)
    BY <1>2, <1>3, <2>2 DEF GetMessageForWorker, Claim, Submit, DeleteMessage, DatabaseError,
       Locations, BeforeClaim, Sending
  <2>3. CASE AcquireToken(w)
    <3>1. NextAttempt(w) \in Locations \ {"record", "submit"}
      BY DEF NextAttempt, Locations, Sending
    <3> QED
      BY <1>3, <2>3, <3>1 DEF AcquireToken, Locations, Sending
  <2> QED
    BY <1>5, <1>6, <1>7, <2>1, <2>2, <2>3 DEF Process
<1> QED
  BY <1>1, <1>2, <1>4, <1>7 DEF Next, Enqueue, Redrive, Crash, Tick, vars

\* The rows' states, the first variable of the life.
States == [m \in Messages |-> messages[m].state]

\* A statement on one row is a move of that message.
LEMMA RowMoves ==
    ASSUME TypeOK, NEW m \in Messages, NEW row \in Rows,
           messages' = [messages EXCEPT ![m] = row]
    PROVE  States' = [States EXCEPT ![m] = row.state]
  BY DEF States, TypeOK

\* The statements that move a message, and what they ask of it.
LEMMA LifeMoves ==
    ASSUME TypeOK, NEW m \in Messages, NEW row \in Rows,
           messages' = [messages EXCEPT ![m] = row], UNCHANGED accepted,
           \/ messages[m].state = "absent" /\ row.state = "queued"
           \/ messages[m].state = "queued" /\ row.state = "processing"
           \/ messages[m].state = "processing" /\ row.state \in {"processing", "failed"}
           \/ messages[m].state = "processing" /\ row.state = "submitted" /\ accepted[m] > 0
    PROVE  [Life!Next]_Life!vars
<1>1. States' = [States EXCEPT ![m] = row.state] /\ States[m] = messages[m].state
  BY RowMoves DEF States
<1>2. CASE messages[m].state = row.state
  BY <1>1, <1>2 DEF States, Life!vars
<1>3. CASE messages[m].state = "absent" /\ row.state = "queued"
  BY <1>1, <1>3 DEF States, Life!Next, Life!Accept, Life!Move
<1>4. CASE messages[m].state = "queued" /\ row.state = "processing"
  BY <1>1, <1>4 DEF States, Life!Next, Life!Claim, Life!Move
<1>5. CASE messages[m].state = "processing" /\ row.state = "failed"
  BY <1>1, <1>5 DEF States, Life!Next, Life!GiveUp, Life!Move
<1>6. CASE messages[m].state = "processing" /\ row.state = "submitted" /\ accepted[m] > 0
  BY <1>1, <1>6 DEF States, Life!Next, Life!HandOver, Life!Move
<1> QED
  BY <1>2, <1>3, <1>4, <1>5, <1>6

\* Every step of workers that hold their claims is a step of the life of one
\* message, or none.
LEMMA LifeWorks ==
    ASSUME TypeOK, ClaimInv(Processing), SentInv, Works
    PROVE  [Life!Next]_Life!vars
<1>1. ASSUME UNCHANGED <<messages, accepted>> PROVE [Life!Next]_Life!vars
  BY <1>1 DEF Life!vars
<1>3. ASSUME NEW w \in Workers, Claim(w) PROVE [Life!Next]_Life!vars
  <2>1. job[w] \in Messages /\ messages[job[w]] \in Rows
    BY <1>3, JobOfBusyWorker DEF Claim, TypeOK
  <2>2. /\ ClaimMessage(messages[job[w]]) \in Rows
        /\ ClaimMessage(messages[job[w]]).state = "processing"
    BY <2>1, RowOperators, RowFields
  <2> QED
    BY <1>1, <1>3, <2>1, <2>2, LifeMoves DEF Claim, Claimable
<1>4. ASSUME NEW w \in Workers, NEW e \in LastErrors, pc[w] \in Sending, GiveUp(w, e)
      PROVE  [Life!Next]_Life!vars
  <2>1. job[w] \in Messages /\ messages[job[w]] \in Rows
    BY <1>4, JobOfBusyWorker DEF Sending, TypeOK
  <2>2. /\ MarkMessageState(messages[job[w]], "failed", e) \in Rows
        /\ MarkMessageState(messages[job[w]], "failed", e).state = "failed"
    <3>1. "failed" \in MessageStates
      BY DEF MessageStates
    <3> QED
      BY <1>4, <2>1, <3>1, RowOperators, RowFields
  <2>3. messages[job[w]].state = "processing"
    BY <1>4 DEF ClaimInv, HoldsClaim, Processing
  <2> QED
    BY <1>1, <1>4, <2>1, <2>2, <2>3, LifeMoves DEF GiveUp
<1>5. ASSUME NEW w \in Workers, ExecuteWithBreaker(w) PROVE [Life!Next]_Life!vars
  <2>1. job[w] \in Messages /\ messages[job[w]].state = "processing"
    BY <1>5, JobOfBusyWorker DEF ExecuteWithBreaker, ClaimInv, HoldsClaim, Processing, Sending
  <2>2. CASE accepted' = [accepted EXCEPT ![job[w]] = @ + 1]
    BY <1>5, <2>1, <2>2 DEF ExecuteWithBreaker, Life!Next, Life!Send
  <2>3. CASE UNCHANGED accepted
    BY <1>1, <1>5, <2>3 DEF ExecuteWithBreaker
  <2> QED
    BY <1>5, <2>2, <2>3 DEF ExecuteWithBreaker, TypeOK
<1>6. ASSUME NEW w \in Workers, Submit(w) PROVE [Life!Next]_Life!vars
  <2>1. job[w] \in Messages /\ messages[job[w]] \in Rows /\ answer[w].sid \in Nat
    BY <1>6, JobOfBusyWorker DEF Submit, TypeOK, Answers
  <2>2. messages[job[w]].state = "processing" /\ accepted[job[w]] > 0
    BY <1>6 DEF Submit, ClaimInv, HoldsClaim, Processing, SentInv, Sending
  <2>3. /\ SetProviderDetails(messages[job[w]], answer[w].sid) \in Rows
        /\ SetProviderDetails(messages[job[w]], answer[w].sid).state = "submitted"
    BY <2>1, RowOperators, RowFields
  <2> QED
    BY <1>1, <1>6, <2>1, <2>2, <2>3, LifeMoves DEF Submit
<1>7. ASSUME NEW w \in Workers, Process(w) PROVE [Life!Next]_Life!vars
  <2>1. CASE RejectTemplate(w) \/ MarkNonRetryable(w) \/ MarkRetryExhausted(w)
    BY <1>4, <2>1 DEF RejectTemplate, MarkNonRetryable, MarkRetryExhausted, LastErrors, Sending
  <2>2. CASE GetMessageForWorker(w) \/ AcquireToken(w) \/ RecordAttempt(w) \/ DeleteMessage(w)
    BY <1>1, <2>2 DEF GetMessageForWorker, AcquireToken, RecordAttempt, DeleteMessage
  <2> QED
    BY <1>3, <1>5, <1>6, <1>7, <2>1, <2>2 DEF Process
<1>8. CASE Tick
  <2>1. \A m \in Messages : messages'[m].state = messages[m].state
    BY <1>8, RowFields, DeliveryAssumption DEF Tick, TypeOK
  <2>2. UNCHANGED States
    BY <2>1 DEF States
  <2> QED
    BY <1>8, <2>2 DEF Tick, States, Life!vars
<1> QED
  BY <1>1, <1>7, <1>8 DEF Works, LiveWork, Redrive, Receive, Crash

\* The API's part is the first step of that life.
LEMMA LifeEnqueue ==
    ASSUME TypeOK, PristineInv, NEW m \in Messages, Enqueue(m)
    PROVE  [Life!Next]_Life!vars
<1>1. messages[m].state = "absent" /\ messages[m] \in Rows
  BY DEF Enqueue, PristineInv, UnclaimedInv, UnclaimedRow, TypeOK
<1>2. InsertMessage(messages[m]) \in Rows /\ InsertMessage(messages[m]).state = "queued"
  BY <1>1, RowOperators DEF InsertMessage, Rows
<1> QED
  BY <1>1, <1>2, LifeMoves DEF Enqueue

\* If every handler returns within the staleness of a claim, the queue and its
\* workers implement the life of a message: it is sent only while it is claimed,
\* submitted only when it was sent, and given up only by the worker that holds it.
THEOREM ImplementsTheLifecycle == ASSUME Timely PROVE Spec => ImplementsLifecycle
<1>1. Init => SentInv
  BY DEF Init, SentInv
<1>2. Init => Life!Init
  <2>1. AbsentRow.state = "absent"
    BY DEF AbsentRow
  <2> QED
    BY <2>1 DEF Init, Life!Init
<1>3. TypeOK /\ PristineInv /\ ClaimInv(Processing) /\ SentInv /\ [Next]_vars => [Life!Next]_Life!vars
  <2>1. CASE UNCHANGED vars
    BY <2>1 DEF vars, Life!vars
  <2> QED
    BY <2>1, LifeEnqueue, LifeWorks DEF Next, Works, LiveWork
<1> QED
  BY <1>1, <1>2, <1>3, SentStep, ClaimInvariant, PTL DEF Spec, ImplementsLifecycle, Life!Spec

-----------------------------------------------------------------------------
(* What the workers may do to a table they share. *)

\* What a step of the workers makes of one row: nothing but its age, a claim, or
\* the last step of a worker that was sending it.
RowWork(m) ==
    \/ messages'[m].state = messages[m].state /\ messages'[m].sid = messages[m].sid
    \/ /\ Claimable(messages[m], StaleAfter) /\ \E w \in Workers : job[w] = m
       /\ messages'[m].state = "processing" /\ messages'[m].sid = messages[m].sid
    \/ \E w \in Workers :
          /\ pc[w] \in Sending /\ job[w] = m /\ pc'[w] \notin Sending
          /\ \A v \in Workers \ {w} : pc'[v] = pc[v] /\ job'[v] = job[v]
          /\ \/ messages'[m].state = "failed" /\ messages'[m].sid = messages[m].sid
             \/ /\ pc[w] = "submit"
                /\ messages'[m].state = "submitted" /\ messages'[m].sid = answer[w].sid

\* A worker is sending because it was, or because it has just made a claim.
TurnWork(w) ==
    pc'[w] \in Sending =>
        /\ job'[w] = job[w]
        /\ \/ pc[w] \in Sending
           \/ pc[w] = "claim" /\ Claimable(messages[job[w]], StaleAfter)

\* A job never comes or goes, and sends are only added.
JobWork(m) ==
    /\ queue'[m].status = "absent" <=> queue[m].status = "absent"
    /\ accepted'[m] >= accepted[m]

\* Every step of the workers does no more than that.
LEMMA WorkMoves ==
    ASSUME TypeOK, Works
    PROVE  /\ \A m \in Messages : RowWork(m) /\ JobWork(m)
           /\ \A w \in Workers : TurnWork(w)
<1> DEFINE Done == /\ \A m \in Messages : RowWork(m) /\ JobWork(m)
                   /\ \A w \in Workers : TurnWork(w)
<1>a. ASSUME UNCHANGED messages PROVE \A m \in Messages : RowWork(m)
  BY <1>a DEF RowWork
<1>b. ASSUME UNCHANGED <<queue, accepted>> PROVE \A m \in Messages : JobWork(m)
  BY <1>b DEF JobWork, TypeOK
<1>c. ASSUME NEW w \in Workers, Idle(w) PROVE \A v \in Workers : TurnWork(v)
  BY <1>c DEF TurnWork, Idle, TypeOK, Sending
<1>d. ASSUME NEW w \in Workers, NEW l \in Locations, Goto(w, l),
             l \in Sending => \/ pc[w] \in Sending
                              \/ pc[w] = "claim" /\ Claimable(messages[job[w]], StaleAfter)
      PROVE  \A v \in Workers : TurnWork(v)
  BY <1>d DEF TurnWork, Goto, TypeOK
<1>1. ASSUME NEW m \in Messages, Redrive(m) PROVE Done
  <2>1. \A n \in Messages : JobWork(n)
    BY <1>1 DEF Redrive, Visible, JobWork, TypeOK
  <2> QED
    BY <1>1, <1>a, <2>1 DEF Redrive, TurnWork
<1>2. ASSUME NEW w \in Workers, NEW m \in Messages, Receive(w, m) PROVE Done
  <2>1. \A n \in Messages : JobWork(n)
    BY <1>2 DEF Receive, Visible, JobWork, TypeOK
  <2>2. \A v \in Workers : TurnWork(v)
    BY <1>2 DEF Receive, TurnWork, TypeOK, Sending
  <2> QED
    BY <1>2, <1>a, <2>1, <2>2 DEF Receive
<1>3. ASSUME NEW w \in Workers, GetMessageForWorker(w) PROVE Done
  BY <1>3, <1>a, <1>b, <1>c, <1>d
     DEF GetMessageForWorker, DatabaseError, Locations, BeforeClaim, Sending
<1>4. ASSUME NEW w \in Workers, Claim(w) PROVE Done
  <2>1. job[w] \in Messages
    BY <1>4, JobOfBusyWorker DEF Claim
  <2>2. ASSUME NEW m \in Messages PROVE RowWork(m)
    <3>1. CASE m = job[w] /\ Claimable(messages[m], StaleAfter)
               /\ messages'[m] = ClaimMessage(messages[m])
      BY <3>1, RowFields, SidKept DEF RowWork, TypeOK
    <3>2. CASE messages'[m] = messages[m]
      BY <3>2 DEF RowWork
    <3> QED
      BY <1>4, <2>1, <3>1, <3>2 DEF Claim, TypeOK
  <2>3. \A v \in Workers : TurnWork(v)
    BY <1>4, <1>c, <1>d DEF Claim, DatabaseError, Locations, Sending
  <2> QED
    BY <1>4, <1>b, <2>2, <2>3 DEF Claim
<1>5. ASSUME NEW w \in Workers, pc[w] \in Sending, Idle(w) \/ Goto(w, "delete"),
             NEW row \in Rows, messages' = [messages EXCEPT ![job[w]] = row],
             \/ row.state = "failed" /\ row.sid = messages[job[w]].sid
             \/ pc[w] = "submit" /\ row.state = "submitted" /\ row.sid = answer[w].sid
      PROVE  \A m \in Messages : RowWork(m)
  <2>1. job[w] \in Messages
    BY <1>5, JobOfBusyWorker DEF Sending
  <2>2. /\ pc'[w] \notin Sending
        /\ \A v \in Workers \ {w} : pc'[v] = pc[v] /\ job'[v] = job[v]
    BY <1>5 DEF Idle, Goto, TypeOK, Sending
  <2>3. ASSUME NEW m \in Messages PROVE RowWork(m)
    <3>1. CASE m # job[w]
      BY <1>5, <2>1, <3>1 DEF RowWork, TypeOK
    <3>2. CASE m = job[w]
      BY <1>5, <2>1, <2>2, <3>2 DEF RowWork, TypeOK
    <3> QED
      BY <3>1, <3>2
  <2> QED
    BY <2>3
<1>6. ASSUME NEW w \in Workers, NEW e \in LastErrors, pc[w] \in Sending, GiveUp(w, e) PROVE Done
  <2>1. job[w] \in Messages /\ messages[job[w]] \in Rows
    BY <1>6, JobOfBusyWorker DEF Sending, TypeOK
  <2>2. /\ MarkMessageState(messages[job[w]], "failed", e) \in Rows
        /\ MarkMessageState(messages[job[w]], "failed", e).state = "failed"
        /\ MarkMessageState(messages[job[w]], "failed", e).sid = messages[job[w]].sid
    <3>1. "failed" \in MessageStates
      BY DEF MessageStates
    <3>2. /\ MarkMessageState(messages[job[w]], "failed", e) \in Rows
          /\ MarkMessageState(messages[job[w]], "failed", e).state = "failed"
      BY <1>6, <2>1, <3>1, RowOperators, RowFields
    <3>3. MarkMessageState(messages[job[w]], "failed", e).sid = messages[job[w]].sid
      BY <1>6, <2>1, <3>1, SidKept
    <3> QED
      BY <3>2, <3>3
  <2>3. \A m \in Messages : RowWork(m)
    BY <1>6, <1>5, <1>a, <2>2 DEF GiveUp
  <2> QED
    BY <1>6, <1>b, <1>c, <2>3 DEF GiveUp, DatabaseError
<1>7. ASSUME NEW w \in Workers, AcquireToken(w) PROVE Done
  BY <1>7, <1>a, <1>b, <1>d, NextAttemptLocation DEF AcquireToken, Locations, Sending
<1>8. ASSUME NEW w \in Workers, ExecuteWithBreaker(w) PROVE Done
  <2>1. job[w] \in Messages
    BY <1>8, JobOfBusyWorker DEF ExecuteWithBreaker
  <2>2. \A m \in Messages : JobWork(m)
    <3>1. UNCHANGED queue /\ \/ UNCHANGED accepted
                             \/ accepted' = [accepted EXCEPT ![job[w]] = @ + 1]
      BY <1>8 DEF ExecuteWithBreaker, TypeOK
    <3> QED
      BY <2>1, <3>1 DEF JobWork, TypeOK
  <2>3. \A v \in Workers : TurnWork(v)
    BY <1>8, <1>c, <1>d DEF ExecuteWithBreaker, Locations, Sending
  <2> QED
    BY <1>8, <1>a, <2>2, <2>3 DEF ExecuteWithBreaker
<1>9. ASSUME NEW w \in Workers, RecordAttempt(w) PROVE Done
  <2>1. AfterRecord(w) \in Locations
    BY NextAttemptLocation DEF AfterRecord, Locations, Sending
  <2>2. \A v \in Workers : TurnWork(v)
    BY <1>9, <1>c, <1>d, <2>1 DEF RecordAttempt, DatabaseError, Sending
  <2> QED
    BY <1>9, <1>a, <1>b, <2>2 DEF RecordAttempt
<1>10. ASSUME NEW w \in Workers, Submit(w) PROVE Done
  <2>1. job[w] \in Messages /\ messages[job[w]] \in Rows /\ answer[w].sid \in Nat
    BY <1>10, JobOfBusyWorker DEF Submit, TypeOK, Answers
  <2>2. /\ SetProviderDetails(messages[job[w]], answer[w].sid) \in Rows
        /\ SetProviderDetails(messages[job[w]], answer[w].sid).state = "submitted"
        /\ SetProviderDetails(messages[job[w]], answer[w].sid).sid = answer[w].sid
    <3>1. SetProviderDetails(messages[job[w]], answer[w].sid) \in Rows
      BY <2>1, RowOperators
    <3> QED
      BY <2>1, <3>1, RowFields
  <2>3. pc[w] = "submit" /\ pc[w] \in Sending /\ (Idle(w) \/ Goto(w, "delete"))
    BY <1>10 DEF Submit, DatabaseError, Sending
  <2>4. \A m \in Messages : RowWork(m)
    BY <1>10, <1>5, <1>a, <2>2, <2>3 DEF Submit
  <2> QED
    BY <1>10, <1>b, <1>c, <1>d, <2>3, <2>4 DEF Submit, Locations, Sending
<1>11. ASSUME NEW w \in Workers, DeleteMessage(w) PROVE Done
  <2>1. \A m \in Messages : JobWork(m)
    <3>1. job[w] \in Messages /\ UNCHANGED accepted
      BY <1>11, JobOfBusyWorker DEF DeleteMessage
    <3>2. \A m \in Messages : \/ queue'[m].status = queue[m].status
                              \/ queue[m].status = "queued" /\ queue'[m].status = "deleted"
      BY <1>11, <3>1 DEF DeleteMessage, TypeOK
    <3>3. \A m \in Messages : accepted'[m] = accepted[m] /\ accepted[m] \in Nat
      BY <3>1 DEF TypeOK
    <3> QED
      BY <3>2, <3>3 DEF JobWork
  <2> QED
    BY <1>11, <1>a, <1>c, <2>1 DEF DeleteMessage
<1>12. ASSUME NEW w \in Workers, Crash(w) PROVE Done
  BY <1>12, <1>a, <1>b, <1>c DEF Crash
<1>13. CASE Tick
  <2>1. \A m \in Messages : RowWork(m)
    BY <1>13, RowFields, DeliveryAssumption DEF Tick, RowWork, TypeOK
  <2>2. \A m \in Messages : JobWork(m)
    BY <1>13 DEF Tick, JobWork, TypeOK
  <2> QED
    BY <1>13, <2>1, <2>2 DEF Tick, TurnWork
<1>14. ASSUME NEW w \in Workers, Process(w) PROVE Done
  <2>1. CASE RejectTemplate(w) \/ MarkNonRetryable(w) \/ MarkRetryExhausted(w)
    BY <1>6, <2>1 DEF RejectTemplate, MarkNonRetryable, MarkRetryExhausted, LastErrors, Sending
  <2> QED
    BY <1>3, <1>4, <1>7, <1>8, <1>9, <1>10, <1>11, <1>14, <2>1 DEF Process
<1> QED
  BY <1>1, <1>2, <1>12, <1>13, <1>14 DEF Works, LiveWork

-----------------------------------------------------------------------------
(* One send of a message. *)

\* The statements of the workers work, the answers of the provider arrive and no
\* pod dies.
Careful == Faults = {}

\* A worker tries only what was never sent, and knows whether its call sent it.
OnceTurn(w) ==
    /\ pc[w] \in Sending \ {"record", "submit"} => accepted[job[w]] = 0
    /\ pc[w] \in {"record", "submit"} =>
          accepted[job[w]] = IF answer[w].err = "nil" THEN 1 ELSE 0

\* What was sent is out of the workers' reach, or in the hands of the one who did.
OnceRow(m) ==
    /\ accepted[m] <= 1
    /\ accepted[m] # 0 => \/ messages[m].state \in {"submitted", "delivered", "failed"}
                          \/ \E w \in Workers : pc[w] \in {"record", "submit"} /\ job[w] = m

OnceInv == (\A w \in Workers : OnceTurn(w)) /\ \A m \in Messages : OnceRow(m)

\* A step of worker w on its own message, which only a sending one may send.
LEMMA OnceFrame ==
    ASSUME TypeOK, OnceInv, Exclusive, NEW w \in Workers, NEW j \in Messages, job[w] = j,
           \A m \in Messages \ {j} : /\ messages'[m] = messages[m]
                                    /\ accepted'[m] = accepted[m],
           \A v \in Workers \ {w} : /\ pc'[v] = pc[v] /\ job'[v] = job[v]
                                   /\ answer'[v] = answer[v],
           pc[w] \in Sending \/ accepted'[j] = accepted[j],
           OnceTurn(w)', OnceRow(j)'
    PROVE  OnceInv'
<1>1. ASSUME NEW v \in Workers, v # w PROVE OnceTurn(v)'
  <2>1. pc[v] \in Sending => job[v] \in Messages /\ accepted'[job[v]] = accepted[job[v]]
    BY <1>1, JobOfBusyWorker DEF Exclusive, Sending
  <2> QED
    BY <1>1, <2>1 DEF OnceInv, OnceTurn, Sending
<1>2. ASSUME NEW m \in Messages, m # j PROVE OnceRow(m)'
  BY <1>2 DEF OnceInv, OnceRow
<1> QED
  BY <1>1, <1>2 DEF OnceInv

\* A worker that has no answer in hand goes on, or leaves, and nothing is sent.
LEMMA OnceQuiet ==
    ASSUME TypeOK, OnceInv, Exclusive, NEW w \in Workers, pc[w] \notin {"idle", "record", "submit"},
           UNCHANGED <<messages, accepted>>,
           \/ Idle(w)
           \/ /\ UNCHANGED answer
              /\ \E l \in Locations \ {"record", "submit"} :
                    Goto(w, l) /\ (l \in Sending => pc[w] \in Sending)
    PROVE  OnceInv'
<1>1. PICK j \in Messages : job[w] = j
  BY JobOfBusyWorker
<1>2. \A v \in Workers \ {w} : pc'[v] = pc[v] /\ job'[v] = job[v] /\ answer'[v] = answer[v]
  BY DEF Idle, Goto, TypeOK
<1>3. /\ pc'[w] \notin {"record", "submit"}
      /\ pc'[w] \in Sending => pc[w] \in Sending /\ job'[w] = j
  BY <1>1 DEF Idle, Goto, TypeOK, Sending
<1>4. OnceTurn(w)'
  BY <1>1, <1>3 DEF OnceInv, OnceTurn
<1>5. OnceRow(j)'
  BY <1>2 DEF OnceInv, OnceRow
<1> QED
  BY <1>1, <1>2, <1>4, <1>5, OnceFrame

\* Every step of timely and careful workers keeps OnceInv: a claim finds
\* nothing sent, and what is sent is submitted before it is let go.
LEMMA OnceStep ==
    ASSUME NEW S, HeldStates(S), Timely, Careful, TypeOK, UnclaimedInv, ClaimInv(S),
           SentInv, OnceInv, Works
    PROVE  OnceInv'
<1>0. Exclusive /\ \A w \in Workers : ~DatabaseError(w)
  BY DEF ClaimInv, DatabaseError, Careful
<1>1. ASSUME UNCHANGED <<accepted, answer>>, \A m \in Messages : messages'[m].state = messages[m].state,
             \A w \in Workers : \/ pc'[w] = pc[w] /\ job'[w] = job[w]
                                \/ pc[w] \notin Sending /\ pc'[w] \notin Sending
      PROVE  OnceInv'
  <2>1. \A w \in Workers : OnceTurn(w)'
    BY <1>1 DEF OnceInv, OnceTurn, Sending
  <2>2. \A w \in Workers : pc[w] \in {"record", "submit"} => pc'[w] = pc[w] /\ job'[w] = job[w]
    BY <1>1 DEF Sending
  <2>3. \A m \in Messages : OnceRow(m)'
    BY <1>1, <2>2 DEF OnceInv, OnceRow
  <2> QED
    BY <2>1, <2>3 DEF OnceInv
<1>2. ASSUME NEW m \in Messages, Redrive(m) PROVE OnceInv'
  BY <1>1, <1>2 DEF Redrive
<1>3. ASSUME NEW w \in Workers, NEW m \in Messages, Receive(w, m) PROVE OnceInv'
  BY <1>1, <1>3 DEF Receive, TypeOK, Sending
<1>4. CASE Tick
  <2>1. \A m \in Messages : messages'[m].state = messages[m].state
    BY <1>4, RowFields, DeliveryAssumption DEF Tick, TypeOK
  <2> QED
    BY <1>1, <1>4, <2>1 DEF Tick
<1>5. ASSUME NEW w \in Workers, GetMessageForWorker(w) PROVE OnceInv'
  BY <1>0, <1>5, OnceQuiet DEF GetMessageForWorker, Locations, BeforeClaim, Sending
<1>6. ASSUME NEW w \in Workers, Claim(w) PROVE OnceInv'
  <2>1. PICK j \in Messages : job[w] = j
    BY <1>6, JobOfBusyWorker DEF Claim
  <2>2. CASE Claimable(messages[j], StaleAfter)
    <3>1. \A v \in Workers : pc[v] \in Sending => job[v] # j
      BY <2>2, HeldIsNotClaimable
    <3>2. accepted[j] = 0
      <4>1. CASE messages[j].state = "queued"
        BY <4>1 DEF UnclaimedInv, UnclaimedRow
      <4>2. CASE messages[j].state = "processing"
        BY <3>1, <4>2 DEF OnceInv, OnceRow, Sending
      <4> QED
        BY <2>2, <4>1, <4>2 DEF Claimable
    <3>3. /\ \A m \in Messages \ {j} : messages'[m] = messages[m] /\ accepted'[m] = accepted[m]
          /\ \A v \in Workers \ {w} : pc'[v] = pc[v] /\ job'[v] = job[v] /\ answer'[v] = answer[v]
          /\ accepted'[j] = accepted[j]
          /\ pc'[w] \in {"limit", "template"} /\ job'[w] = j
      BY <1>0, <1>6, <2>1, <2>2 DEF Claim, Goto, TypeOK
    <3>4. OnceTurn(w)' /\ OnceRow(j)'
      BY <3>2, <3>3 DEF OnceTurn, OnceRow
    <3> QED
      BY <1>0, <2>1, <3>3, <3>4, OnceFrame
  <2>3. CASE ~Claimable(messages[j], StaleAfter)
    BY <1>0, <1>6, <2>1, <2>3, OnceQuiet DEF Claim, Locations, Sending
  <2> QED
    BY <2>2, <2>3
<1>7. ASSUME NEW w \in Workers, NEW e \in LastErrors,
             pc[w] \in Sending \ {"record", "submit"}, GiveUp(w, e)
      PROVE  OnceInv'
  <2>1. PICK j \in Messages : job[w] = j
    BY <1>7, JobOfBusyWorker DEF Sending
  <2>2. accepted[j] = 0
    BY <1>7, <2>1 DEF OnceInv, OnceTurn
  <2>3. /\ \A m \in Messages \ {j} : messages'[m] = messages[m] /\ accepted'[m] = accepted[m]
        /\ \A v \in Workers \ {w} : pc'[v] = pc[v] /\ job'[v] = job[v] /\ answer'[v] = answer[v]
        /\ accepted'[j] = accepted[j] /\ pc'[w] = "idle"
    BY <1>0, <1>7, <2>1 DEF GiveUp, Idle, TypeOK
  <2>4. OnceTurn(w)' /\ OnceRow(j)'
    BY <2>2, <2>3 DEF OnceTurn, OnceRow, Sending
  <2> QED
    BY <1>0, <2>1, <2>3, <2>4, OnceFrame
<1>8. ASSUME NEW w \in Workers, AcquireToken(w) PROVE OnceInv'
  <2>1. NextAttempt(w) \in Sending \ {"record", "submit"}
    BY DEF NextAttempt, Sending
  <2> QED
    BY <1>0, <1>8, <2>1, OnceQuiet DEF AcquireToken, Locations, Sending
<1>9. ASSUME NEW w \in Workers, ExecuteWithBreaker(w) PROVE OnceInv'
  <2>1. PICK j \in Messages : job[w] = j /\ pc[w] = "call" /\ pc[w] \in Sending
    BY <1>9, JobOfBusyWorker DEF ExecuteWithBreaker, Sending
  <2>2. CASE Idle(w) /\ UNCHANGED accepted
    BY <1>0, <1>9, <2>1, <2>2, OnceQuiet DEF ExecuteWithBreaker
  <2>3. ASSUME NEW took \in BOOLEAN, NEW err \in Errors, NEW status \in Statuses,
               NEW sid \in {accepted[job[w]] + 1, NoSid},
               Returned(took, [err |-> err, status |-> status, sid |-> sid]),
               accepted' = [accepted EXCEPT ![job[w]] = IF took THEN @ + 1 ELSE @],
               answer' = [answer EXCEPT ![w] = [err |-> err, status |-> status, sid |-> sid]],
               Goto(w, "record")
        PROVE  OnceInv'
    <3>1. took <=> err = "nil"
      BY <2>3 DEF Returned, Careful
    <3>2. accepted[j] = 0
      BY <2>1 DEF OnceInv, OnceTurn
    <3>3. /\ \A m \in Messages \ {j} : messages'[m] = messages[m] /\ accepted'[m] = accepted[m]
          /\ \A v \in Workers \ {w} : pc'[v] = pc[v] /\ job'[v] = job[v] /\ answer'[v] = answer[v]
      BY <1>9, <2>1, <2>3 DEF ExecuteWithBreaker, Goto, TypeOK
    <3>4. /\ accepted'[j] = IF took THEN 1 ELSE 0
          /\ pc'[w] = "record" /\ job'[w] = j /\ answer'[w].err = err
      BY <2>1, <2>3, <3>2 DEF Goto, TypeOK
    <3>5. OnceTurn(w)' /\ OnceRow(j)'
      BY <3>1, <3>4 DEF OnceTurn, OnceRow
    <3> QED
      BY <1>0, <2>1, <3>3, <3>5, OnceFrame
  <2> QED
    BY <1>9, <2>2, <2>3 DEF ExecuteWithBreaker
<1>10. ASSUME NEW w \in Workers, RecordAttempt(w) PROVE OnceInv'
  <2>1. PICK j \in Messages : job[w] = j /\ pc[w] = "record"
    BY <1>10, JobOfBusyWorker DEF RecordAttempt
  <2>2. /\ Goto(w, AfterRecord(w)) /\ UNCHANGED <<messages, accepted, answer>>
    BY <1>0, <1>10 DEF RecordAttempt
  <2>3. /\ pc'[w] = AfterRecord(w)
        /\ \A v \in Workers \ {w} : pc'[v] = pc[v]
        /\ UNCHANGED job
    BY <2>2 DEF Goto, TypeOK
  <2>4. /\ accepted[j] = IF answer[w].err = "nil" THEN 1 ELSE 0
        /\ AfterRecord(w) = "submit" <=> answer[w].err = "nil"
        /\ AfterRecord(w) # "record"
    BY <2>1 DEF OnceInv, OnceTurn, AfterRecord, NextAttempt
  <2>5. OnceTurn(w)'
    BY <2>1, <2>2, <2>3, <2>4 DEF OnceTurn
  <2>6. OnceRow(j)'
    BY <2>1, <2>2, <2>3, <2>4 DEF OnceRow
  <2> QED
    BY <1>0, <2>1, <2>2, <2>3, <2>5, <2>6, OnceFrame
<1>11. ASSUME NEW w \in Workers, Submit(w) PROVE OnceInv'
  <2>1. PICK j \in Messages : job[w] = j /\ pc[w] = "submit"
    BY <1>11, JobOfBusyWorker DEF Submit
  <2>2. messages[j] \in Rows /\ answer[w].sid \in Nat
    BY DEF TypeOK, Answers
  <2>3. /\ messages' = [messages EXCEPT ![j] = SetProviderDetails(@, answer[w].sid)]
        /\ Goto(w, "delete") /\ UNCHANGED <<accepted, answer>>
    BY <1>0, <1>11, <2>1 DEF Submit
  <2>4. /\ \A m \in Messages \ {j} : messages'[m] = messages[m] /\ accepted'[m] = accepted[m]
        /\ \A v \in Workers \ {w} : pc'[v] = pc[v] /\ job'[v] = job[v] /\ answer'[v] = answer[v]
        /\ accepted'[j] = accepted[j] /\ pc'[w] = "delete"
        /\ messages'[j].state = "submitted"
    BY <2>2, <2>3, RowFields DEF Goto, TypeOK
  <2>5. accepted[j] <= 1
    BY DEF OnceInv, OnceRow
  <2>6. OnceTurn(w)' /\ OnceRow(j)'
    BY <2>4, <2>5 DEF OnceTurn, OnceRow, Sending
  <2> QED
    BY <1>0, <2>1, <2>4, <2>6, OnceFrame
<1>12. ASSUME NEW w \in Workers, DeleteMessage(w) PROVE OnceInv'
  BY <1>0, <1>12, OnceQuiet DEF DeleteMessage
<1>13. ASSUME NEW w \in Workers, Process(w) PROVE OnceInv'
  <2>1. CASE RejectTemplate(w) \/ MarkNonRetryable(w) \/ MarkRetryExhausted(w)
    BY <1>7, <2>1 DEF RejectTemplate, MarkNonRetryable, MarkRetryExhausted, LastErrors, Sending
  <2> QED
    BY <1>5, <1>6, <1>8, <1>9, <1>10, <1>11, <1>12, <1>13, <2>1 DEF Process
<1>14. ASSUME NEW w \in Workers, Crash(w) PROVE OnceInv'
  BY <1>14 DEF Crash, Careful
<1> QED
  BY <1>2, <1>3, <1>4, <1>13, <1>14 DEF Works, LiveWork

-----------------------------------------------------------------------------
(* No job is lost. *)

\* A job comes back later than the claim of its last receipt can still be fresh.
\* main.go configures StaleAfter = VisibilityTimeout, which rules this out.
Spaced == ClaimWithin # 0 /\ ClaimWithin + StaleAfter < VisibilityTimeout

Final == {"submitted", "failed"}

\* A worker before its claim has the newest receipt, and finds no fresh claim.
Unrivalled(w) ==
    pc[w] \in BeforeClaim =>
        /\ spent[w] <= ClaimWithin
        /\ queue[job[w]].wait + spent[w] >= VisibilityTimeout
        /\ messages[job[w]].state = "processing" => messages[job[w]].age > StaleAfter

\* When the job of a claimed message is visible again, the claim is stale.
Expires(m) ==
    messages[m].state = "processing" =>
        \/ messages[m].age > StaleAfter
        \/ queue[m].wait + messages[m].age >= VisibilityTimeout - ClaimWithin

KeptInv ==
    /\ NoLoss
    /\ \A m \in Messages : /\ messages[m].state \in {"absent", "queued", "processing"} \cup Final
                           /\ Expires(m)
    /\ \A w \in Workers : /\ Unrivalled(w)
                          /\ pc[w] = "delete" => messages[job[w]].state \in Final
    /\ \A v, w \in Workers :
          v # w /\ pc[v] \in BeforeClaim /\ pc[w] \in BeforeClaim => job[v] # job[w]

\* A step of worker w that leaves its row alone or settles it, and consumes its
\* job only when the row is settled.
LEMMA KeptFrame ==
    ASSUME TypeOK, KeptInv, NEW w \in Workers, NEW j \in Messages, job[w] = j,
           \A m \in Messages \ {j} : messages'[m] = messages[m] /\ queue'[m] = queue[m],
           messages'[j] = messages[j] \/ messages'[j].state \in Final,
           queue'[j] = queue[j] \/ (queue'[j].wait = queue[j].wait /\ messages'[j].state \in Final),
           \A v \in Workers \ {w} : /\ pc'[v] = pc[v] /\ job'[v] = job[v]
                                   /\ spent'[v] = spent[v],
           pc'[w] \in BeforeClaim => pc[w] \in BeforeClaim /\ job'[w] = j /\ spent'[w] = spent[w],
           pc'[w] = "delete" => job'[w] = j /\ messages'[j].state \in Final
    PROVE  KeptInv'
<1>1. NoLoss'
  BY DEF KeptInv, NoLoss, Final
<1>2. \A m \in Messages : /\ messages'[m].state \in {"absent", "queued", "processing"} \cup Final
                          /\ Expires(m)'
  BY DEF KeptInv, Expires, Final
<1>3. \A m \in Messages : messages'[m] = messages[m] \/ messages'[m].state \in Final
  OBVIOUS
<1>4. \A m \in Messages : queue'[m].wait = queue[m].wait
  OBVIOUS
<1>5. \A v \in Workers : pc'[v] \in BeforeClaim =>
          /\ pc[v] \in BeforeClaim /\ job'[v] = job[v] /\ spent'[v] = spent[v]
          /\ job[v] \in Messages
  BY JobOfBusyWorker DEF BeforeClaim
<1>6. ASSUME NEW v \in Workers PROVE Unrivalled(v)'
  BY <1>3, <1>4, <1>5 DEF KeptInv, Unrivalled, Final
<1>7. ASSUME NEW v \in Workers, pc'[v] = "delete" PROVE messages'[job'[v]].state \in Final
  <2>1. CASE v = w
    BY <1>7, <2>1
  <2>2. CASE v # w
    <3>1. pc[v] = "delete" /\ job'[v] = job[v] /\ job[v] \in Messages
      BY <1>7, <2>2, JobOfBusyWorker
    <3> QED
      BY <1>3, <3>1 DEF KeptInv
  <2> QED
    BY <2>1, <2>2
<1>8. \A u, v \in Workers :
          u # v /\ pc'[u] \in BeforeClaim /\ pc'[v] \in BeforeClaim => job'[u] # job'[v]
  BY <1>5 DEF KeptInv
<1> QED
  BY <1>1, <1>2, <1>6, <1>7, <1>8 DEF KeptInv

\* A worker that leaves, or goes on past its claim.
LEMMA KeptOnward ==
    ASSUME TypeOK, KeptInv, NEW w \in Workers, pc[w] # "idle",
           UNCHANGED queue,
           \/ UNCHANGED messages
           \/ \E row \in Rows : /\ row.state \in Final
                                /\ messages' = [messages EXCEPT ![job[w]] = row],
           \/ Idle(w)
           \/ \E l \in Locations : /\ Goto(w, l) /\ l \notin BeforeClaim /\ UNCHANGED spent
                                   /\ l = "delete" => messages'[job[w]].state \in Final
    PROVE  KeptInv'
<1>1. PICK j \in Messages : job[w] = j
  BY JobOfBusyWorker
<1>2. /\ \A m \in Messages \ {j} : messages'[m] = messages[m] /\ queue'[m] = queue[m]
      /\ messages'[j] = messages[j] \/ messages'[j].state \in Final
      /\ queue'[j] = queue[j]
  BY <1>1 DEF TypeOK
<1>3. /\ \A v \in Workers \ {w} : pc'[v] = pc[v] /\ job'[v] = job[v] /\ spent'[v] = spent[v]
      /\ pc'[w] \notin BeforeClaim
      /\ pc'[w] = "delete" => job'[w] = j /\ messages'[j].state \in Final
  BY <1>1 DEF Idle, Goto, TypeOK, BeforeClaim
<1> QED
  BY <1>1, <1>2, <1>3, KeptFrame

\* Every step of spaced receipts keeps KeptInv: a worker that is refused the claim
\* finds the message settled.
LEMMA KeptStep == Spaced /\ TypeOK /\ PristineInv /\ KeptInv /\ [Next]_vars => KeptInv'
<1> SUFFICES ASSUME Spaced, TypeOK, PristineInv, KeptInv, [Next]_vars PROVE KeptInv'
  OBVIOUS
<1>1. ASSUME NEW m \in Messages, Enqueue(m) PROVE KeptInv'
  <2>1. \A w \in Workers : job[w] # m
    BY <1>1 DEF Enqueue, PristineInv, UnclaimedInv, UnclaimedRow
  <2>2. /\ messages'[m].state = "queued" /\ queue'[m].status = "queued"
        /\ \A n \in Messages \ {m} : messages'[n] = messages[n] /\ queue'[n] = queue[n]
        /\ UNCHANGED <<pc, job, spent>>
    BY <1>1 DEF Enqueue, InsertMessage, TypeOK, Rows
  <2>3. NoLoss'
    BY <2>2 DEF KeptInv, NoLoss
  <2>4. \A n \in Messages : /\ messages'[n].state \in {"absent", "queued", "processing"} \cup Final
                            /\ Expires(n)'
    BY <2>2 DEF KeptInv, Expires
  <2>5. ASSUME NEW w \in Workers
        PROVE  Unrivalled(w)' /\ (pc'[w] = "delete" => messages'[job'[w]].state \in Final)
    BY <2>1, <2>2, JobOfBusyWorker DEF KeptInv, Unrivalled, BeforeClaim
  <2> QED
    BY <2>2, <2>3, <2>4, <2>5 DEF KeptInv
<1>2. ASSUME NEW m \in Messages, Redrive(m) PROVE KeptInv'
  <2>1. /\ UNCHANGED <<messages, pc, job, spent>>
        /\ \A n \in Messages : /\ queue'[n].wait = queue[n].wait
                               /\ queue'[n].status = "deleted" => queue[n].status = "deleted"
    BY <1>2 DEF Redrive, TypeOK
  <2>2. NoLoss'
    BY <2>1 DEF KeptInv, NoLoss
  <2>3. \A n \in Messages : Expires(n)'
    BY <2>1 DEF KeptInv, Expires
  <2>4. \A w \in Workers : Unrivalled(w)'
    BY <2>1, JobOfBusyWorker DEF KeptInv, Unrivalled, BeforeClaim
  <2> QED
    BY <2>1, <2>2, <2>3, <2>4 DEF KeptInv
<1>3. ASSUME NEW w \in Workers, NEW m \in Messages, Receive(w, m) PROVE KeptInv'
  <2>1. \A v \in Workers : pc[v] \in BeforeClaim => job[v] # m
    <3>1. ASSUME NEW v \in Workers, pc[v] \in BeforeClaim, job[v] = m PROVE FALSE
      <4>1. queue[m].wait + spent[v] >= VisibilityTimeout /\ spent[v] <= ClaimWithin
        BY <3>1 DEF KeptInv, Unrivalled
      <4>2. queue[m].wait = 0 /\ spent[v] \in Nat
        BY <1>3 DEF Receive, Visible, TypeOK
      <4> QED
        BY <4>1, <4>2, DeliveryAssumption DEF Spaced
    <3> QED
      BY <3>1
  <2>2. messages[m].state = "processing" => messages[m].age > StaleAfter
    <3>1. queue[m].wait = 0 /\ messages[m].age \in Nat
      BY <1>3 DEF Receive, Visible, TypeOK, Rows
    <3>2. Expires(m)
      BY DEF KeptInv
    <3> QED
      BY <3>1, <3>2, DeliveryAssumption DEF Expires, Spaced
  <2>3. /\ pc'[w] = "get" /\ job'[w] = m /\ spent'[w] = 0
        /\ \A v \in Workers \ {w} : pc'[v] = pc[v] /\ job'[v] = job[v] /\ spent'[v] = spent[v]
        /\ UNCHANGED messages
    BY <1>3 DEF Receive, TypeOK
  <2>4. /\ queue'[m].wait = VisibilityTimeout /\ queue'[m].status = queue[m].status
        /\ \A n \in Messages \ {m} : queue'[n] = queue[n]
    BY <1>3 DEF Receive, TypeOK
  <2>5. NoLoss'
    BY <2>3, <2>4 DEF KeptInv, NoLoss
  <2>6. ASSUME NEW n \in Messages PROVE Expires(n)'
    <3>1. CASE n = m
      BY <2>2, <2>3, <3>1 DEF Expires
    <3>2. CASE n # m
      BY <2>3, <2>4, <3>2 DEF KeptInv, Expires
    <3> QED
      BY <3>1, <3>2
  <2>7. ASSUME NEW v \in Workers PROVE Unrivalled(v)'
    <3>1. CASE v = w
      BY <2>2, <2>3, <2>4, <3>1, DeliveryAssumption DEF Unrivalled
    <3>2. CASE v # w
      BY <2>1, <2>3, <2>4, <3>2, JobOfBusyWorker DEF KeptInv, Unrivalled, BeforeClaim
    <3> QED
      BY <3>1, <3>2
  <2>8. \A v \in Workers : pc'[v] = "delete" => messages'[job'[v]].state \in Final
    BY <2>3 DEF KeptInv
  <2>9. \A u, v \in Workers :
            u # v /\ pc'[u] \in BeforeClaim /\ pc'[v] \in BeforeClaim => job'[u] # job'[v]
    BY <2>1, <2>3 DEF KeptInv
  <2> QED
    BY <2>3, <2>5, <2>6, <2>7, <2>8, <2>9 DEF KeptInv
<1>4. ASSUME NEW w \in Workers, GetMessageForWorker(w) PROVE KeptInv'
  <2>1. CASE Idle(w)
    BY <1>4, <2>1, KeptOnward DEF GetMessageForWorker
  <2>2. CASE AlreadyHandled(messages[job[w]]) /\ Goto(w, "delete") /\ UNCHANGED spent
    <3>1. job[w] \in Messages
      BY <1>4, JobOfBusyWorker DEF GetMessageForWorker
    <3>2. messages[job[w]].state \in Final
      BY <2>2, <3>1 DEF AlreadyHandled, KeptInv, Final
    <3> QED
      BY <1>4, <2>2, <3>2, KeptOnward DEF GetMessageForWorker, Locations, BeforeClaim
  <2>3. CASE Goto(w, "claim") /\ UNCHANGED spent
    <3>1. PICK j \in Messages : job[w] = j
      BY <1>4, JobOfBusyWorker DEF GetMessageForWorker
    <3>2. /\ pc[w] \in BeforeClaim /\ pc'[w] = "claim" /\ job'[w] = j
          /\ UNCHANGED <<messages, queue, spent>>
          /\ \A v \in Workers \ {w} : pc'[v] = pc[v] /\ job'[v] = job[v]
      BY <1>4, <2>3, <3>1 DEF GetMessageForWorker, Goto, TypeOK, BeforeClaim
    <3> QED
      BY <3>1, <3>2, KeptFrame
  <2> QED
    BY <1>4, <2>1, <2>2, <2>3 DEF GetMessageForWorker, DatabaseError
<1>5. ASSUME NEW w \in Workers, Claim(w) PROVE KeptInv'
  <2>1. PICK j \in Messages : job[w] = j
    BY <1>5, JobOfBusyWorker DEF Claim
  <2>2. pc[w] \in BeforeClaim
    BY <1>5 DEF Claim, BeforeClaim
  <2>3. CASE messages' = [messages EXCEPT ![j] = ClaimMessage(@)]
    <3>1. /\ messages'[j].state = "processing" /\ messages'[j].age = 0
          /\ \A m \in Messages \ {j} : messages'[m] = messages[m]
          /\ UNCHANGED queue
      BY <1>5, <2>3, RowFields DEF Claim, TypeOK
    <3>2. /\ \A v \in Workers \ {w} : pc'[v] = pc[v] /\ job'[v] = job[v] /\ spent'[v] = spent[v]
          /\ pc'[w] \notin BeforeClaim \cup {"delete"}
      <4>1. \A l \in {"limit", "template"} : Goto(w, l) =>
                pc'[w] = l /\ \A v \in Workers \ {w} : pc'[v] = pc[v] /\ job'[v] = job[v]
        BY DEF Goto, TypeOK
      <4>2. Idle(w) => /\ pc'[w] = "idle"
                       /\ \A v \in Workers \ {w} : /\ pc'[v] = pc[v] /\ job'[v] = job[v]
                                                   /\ spent'[v] = spent[v]
        BY DEF Idle, TypeOK
      <4>3. messages[j].state # "processing" \/ messages[j].age > StaleAfter
        BY <2>1, <2>2 DEF KeptInv, Unrivalled
      <4>4. messages'[j] # messages[j]
        BY <3>1, <4>3, DeliveryAssumption
      <4>5. Idle(w) \/ (/\ \E l \in {"limit", "template"} : Goto(w, l)
                        /\ spent' = [spent EXCEPT ![w] = 0])
        BY <1>5, <4>4 DEF Claim, DatabaseError
      <4> QED
        BY <4>1, <4>2, <4>5 DEF BeforeClaim, TypeOK
    <3>3. messages[j].state \notin Final
      <4>1. ~Claimable(messages[j], StaleAfter) => UNCHANGED messages
        BY <1>5, <2>1 DEF Claim
      <4>2. messages[j].state \in Final => UNCHANGED messages
        BY <4>1 DEF Claimable, Final
      <4> QED
        BY <3>1, <4>2 DEF Final
    <3>4. NoLoss'
      BY <3>1, <3>3 DEF KeptInv, NoLoss, Final
    <3>5. ASSUME NEW m \in Messages PROVE Expires(m)'
      <4>1. CASE m = j
        <5>1. queue[j].wait + spent[w] >= VisibilityTimeout /\ spent[w] <= ClaimWithin
          BY <2>1, <2>2 DEF KeptInv, Unrivalled
        <5>2. queue[j].wait \in Nat /\ spent[w] \in Nat
          BY DEF TypeOK
        <5> QED
          BY <3>1, <4>1, <5>1, <5>2, DeliveryAssumption DEF Expires
      <4>2. CASE m # j
        BY <3>1, <4>2 DEF KeptInv, Expires
      <4> QED
        BY <4>1, <4>2
    <3>6. ASSUME NEW v \in Workers
          PROVE  Unrivalled(v)' /\ (pc'[v] = "delete" => messages'[job'[v]].state \in Final)
      <4>1. CASE v = w
        BY <3>2, <4>1 DEF Unrivalled
      <4>2. CASE v # w /\ pc[v] \in BeforeClaim
        BY <2>1, <2>2, <3>1, <3>2, <4>2, JobOfBusyWorker DEF KeptInv, Unrivalled, BeforeClaim
      <4>3. CASE v # w /\ pc[v] \notin BeforeClaim
        BY <3>1, <3>2, <3>3, <4>3, JobOfBusyWorker DEF KeptInv, Unrivalled
      <4> QED
        BY <4>1, <4>2, <4>3
    <3>7. \A u, v \in Workers :
              u # v /\ pc'[u] \in BeforeClaim /\ pc'[v] \in BeforeClaim => job'[u] # job'[v]
      BY <3>2 DEF KeptInv
    <3>8. \A m \in Messages : messages'[m].state \in {"absent", "queued", "processing"} \cup Final
      BY <3>1 DEF KeptInv
    <3> QED
      BY <3>4, <3>5, <3>6, <3>7, <3>8 DEF KeptInv
  <2>4. CASE Idle(w) /\ UNCHANGED messages
    BY <1>5, <2>4, KeptOnward DEF Claim
  <2>5. CASE ~Claimable(messages[j], StaleAfter) /\ Goto(w, "delete")
             /\ UNCHANGED <<messages, attempt, answer, spent>>
    <3>1. messages[j].state # "absent"
      BY <2>1 DEF PristineInv, UnclaimedInv, UnclaimedRow
    <3>2. messages[j].state \in Final
      BY <2>1, <2>2, <2>5, <3>1 DEF KeptInv, Unrivalled, Claimable
    <3> QED
      BY <1>5, <2>1, <2>5, <3>2, KeptOnward DEF Claim, Locations, BeforeClaim
  <2> QED
    BY <1>5, <2>1, <2>3, <2>4, <2>5 DEF Claim, DatabaseError
<1>6. ASSUME NEW w \in Workers, NEW e \in LastErrors, pc[w] \in Sending, GiveUp(w, e)
      PROVE  KeptInv'
  <2>1. job[w] \in Messages /\ messages[job[w]] \in Rows /\ "failed" \in MessageStates
    BY <1>6, JobOfBusyWorker DEF Sending, TypeOK, MessageStates
  <2>2. /\ MarkMessageState(messages[job[w]], "failed", e) \in Rows
        /\ MarkMessageState(messages[job[w]], "failed", e).state = "failed"
    BY <1>6, <2>1, RowOperators, RowFields
  <2> QED
    BY <1>6, <2>1, <2>2, KeptOnward DEF GiveUp, DatabaseError, Final, Sending
<1>7. ASSUME NEW w \in Workers, AcquireToken(w) PROVE KeptInv'
  <2>1. NextAttempt(w) \in Locations \ (BeforeClaim \cup {"delete"})
    BY DEF NextAttempt, Locations, Sending, BeforeClaim
  <2> QED
    BY <1>7, <2>1, KeptOnward DEF AcquireToken, Locations, Sending, BeforeClaim
<1>8. ASSUME NEW w \in Workers, ExecuteWithBreaker(w) PROVE KeptInv'
  <2>1. pc[w] # "idle" /\ UNCHANGED <<messages, queue>>
    BY <1>8 DEF ExecuteWithBreaker
  <2>2. Idle(w) \/ (Goto(w, "record") /\ UNCHANGED spent)
    BY <1>8 DEF ExecuteWithBreaker
  <2>3. "record" \in Locations \ (BeforeClaim \cup {"delete"})
    BY DEF Locations, Sending, BeforeClaim
  <2> QED
    BY <2>1, <2>2, <2>3, KeptOnward
<1>9. ASSUME NEW w \in Workers, RecordAttempt(w) PROVE KeptInv'
  <2>1. AfterRecord(w) \in Locations \ (BeforeClaim \cup {"delete"})
    BY DEF AfterRecord, NextAttempt, Locations, Sending, BeforeClaim
  <2> QED
    BY <1>9, <2>1, KeptOnward DEF RecordAttempt, DatabaseError
<1>10. ASSUME NEW w \in Workers, Submit(w) PROVE KeptInv'
  <2>1. job[w] \in Messages /\ messages[job[w]] \in Rows /\ answer[w].sid \in Nat
    BY <1>10, JobOfBusyWorker DEF Submit, TypeOK, Answers
  <2>2. /\ SetProviderDetails(messages[job[w]], answer[w].sid) \in Rows
        /\ SetProviderDetails(messages[job[w]], answer[w].sid).state \in Final
    BY <2>1, RowOperators, RowFields DEF Final
  <2>3. CASE messages' = [messages EXCEPT ![job[w]] = SetProviderDetails(@, answer[w].sid)]
    <3>1. messages'[job[w]].state \in Final
      BY <2>1, <2>2, <2>3 DEF TypeOK
    <3> QED
      BY <1>10, <2>2, <2>3, <3>1, KeptOnward DEF Submit, DatabaseError, Locations, BeforeClaim
  <2>4. CASE Idle(w) /\ UNCHANGED messages
    BY <1>10, <2>4, KeptOnward DEF Submit
  <2> QED
    BY <1>10, <2>3, <2>4 DEF Submit, DatabaseError
<1>11. ASSUME NEW w \in Workers, DeleteMessage(w) PROVE KeptInv'
  <2>1. PICK j \in Messages : job[w] = j
    BY <1>11, JobOfBusyWorker DEF DeleteMessage
  <2>2. messages[j].state \in Final /\ UNCHANGED messages
    BY <1>11, <2>1 DEF DeleteMessage, KeptInv
  <2>3. /\ \A m \in Messages \ {j} : queue'[m] = queue[m]
        /\ queue'[j].wait = queue[j].wait
    BY <1>11, <2>1 DEF DeleteMessage, TypeOK
  <2>4. /\ pc'[w] = "idle"
        /\ \A v \in Workers \ {w} : pc'[v] = pc[v] /\ job'[v] = job[v] /\ spent'[v] = spent[v]
    BY <1>11 DEF DeleteMessage, Idle, TypeOK
  <2> QED
    BY <2>1, <2>2, <2>3, <2>4, KeptFrame DEF BeforeClaim
<1>12. ASSUME NEW w \in Workers, Crash(w) PROVE KeptInv'
  BY <1>12, KeptOnward DEF Crash
<1>13. CASE Tick
  <2>1. ASSUME NEW m \in Messages
        PROVE  /\ messages'[m].state = messages[m].state
               /\ messages[m].age > StaleAfter => messages'[m].age = messages[m].age
               /\ messages[m].age <= StaleAfter => messages'[m].age = messages[m].age + 1
               /\ messages[m].age \in Nat
    <3>1. messages[m] \in Rows /\ messages'[m] = Older(messages[m], StaleAfter)
      BY <1>13 DEF Tick, TypeOK
    <3> QED
      BY <3>1, DeliveryAssumption DEF Older, Rows
  <2>2. ASSUME NEW m \in Messages
        PROVE  /\ queue'[m].status = queue[m].status
               /\ queue[m].wait \in Nat /\ queue'[m].wait \in Nat
               /\ queue'[m].wait = IF queue[m].wait = 0 THEN 0 ELSE queue[m].wait - 1
    <3>1. /\ queue[m] \in [status: {"absent", "queued", "deleted", "dlq"}, wait: Nat, receives: Nat]
          /\ queue'[m] = [queue[m] EXCEPT !.wait = IF @ = 0 THEN 0 ELSE @ - 1]
      BY <1>13 DEF Tick, TypeOK
    <3> QED
      BY <3>1
  <2>3. NoLoss'
    BY <2>1, <2>2 DEF KeptInv, NoLoss
  <2>4. ASSUME NEW m \in Messages PROVE Expires(m)'
    <3>1. Expires(m)
      BY DEF KeptInv
    <3> QED
      BY <2>1, <2>2, <3>1, DeliveryAssumption DEF Expires
  <2>5. ASSUME NEW w \in Workers PROVE Unrivalled(w)'
    <3>1. SUFFICES ASSUME pc[w] \in BeforeClaim
                   PROVE  /\ spent'[w] <= ClaimWithin
                          /\ queue'[job[w]].wait + spent'[w] >= VisibilityTimeout
                          /\ messages'[job[w]].state = "processing" =>
                                messages'[job[w]].age > StaleAfter
      BY <1>13 DEF Tick, Unrivalled
    <3>2. job[w] \in Messages /\ spent[w] \in Nat
      BY <3>1, JobOfBusyWorker DEF BeforeClaim, TypeOK
    <3>3. Deadline(w) = ClaimWithin /\ Deadline(w) # 0
      BY <3>1 DEF Deadline, Spaced
    <3>4. spent[w] < ClaimWithin /\ spent'[w] = spent[w] + 1
      BY <1>13, <3>3 DEF Tick
    <3>5. /\ queue[job[w]].wait + spent[w] >= VisibilityTimeout
          /\ messages[job[w]].state = "processing" => messages[job[w]].age > StaleAfter
      BY <3>1 DEF KeptInv, Unrivalled
    <3>6. queue'[job[w]].wait = queue[job[w]].wait - 1
      BY <2>2, <3>2, <3>4, <3>5, DeliveryAssumption DEF Spaced
    <3>7. queue[job[w]].wait \in Nat
      BY <2>2, <3>2
    <3> QED
      BY <2>1, <3>2, <3>4, <3>5, <3>6, <3>7, DeliveryAssumption
  <2>6. \A w \in Workers : pc'[w] = "delete" => messages'[job'[w]].state \in Final
    BY <1>13, <2>1, JobOfBusyWorker DEF Tick, KeptInv
  <2> QED
    BY <1>13, <2>1, <2>3, <2>4, <2>5, <2>6 DEF Tick, KeptInv
<1>14. CASE UNCHANGED vars
  BY <1>14 DEF vars, KeptInv, NoLoss, Expires, Unrivalled
<1>15. ASSUME NEW w \in Workers, Process(w) PROVE KeptInv'
  <2>1. CASE RejectTemplate(w) \/ MarkNonRetryable(w) \/ MarkRetryExhausted(w)
    BY <1>6, <2>1 DEF RejectTemplate, MarkNonRetryable, MarkRetryExhausted, LastErrors, Sending
  <2> QED
    BY <1>4, <1>5, <1>7, <1>8, <1>9, <1>10, <1>11, <1>15, <2>1 DEF Process
<1> QED
  BY <1>1, <1>2, <1>3, <1>12, <1>13, <1>14, <1>15 DEF Next

\* What would mend main.go:129, which makes the staleness of a claim the visibility
\* timeout (with that NoLoss is false: run Delivery_redelivered).  If a job stays
\* hidden for longer than its receiver may take to claim and the claim to go stale,
\* no job is deleted before its message is submitted or failed: whatever fails,
\* however long a send takes, and for any number of workers.
THEOREM NoJobIsLost == ASSUME Spaced PROVE Spec => []NoLoss
<1>1. Init => KeptInv
  <2>1. Init => /\ \A w \in Workers : pc[w] = "idle"
                /\ \A m \in Messages : /\ messages[m].state = "absent"
                                       /\ queue[m].status = "absent"
    <3>1. AbsentRow.state = "absent"
      BY DEF AbsentRow
    <3> QED
      BY <3>1 DEF Init
  <2> QED
    BY <2>1 DEF KeptInv, NoLoss, Expires, Unrivalled, BeforeClaim
<1>2. KeptInv => NoLoss
  BY DEF KeptInv
<1> QED
  BY <1>1, <1>2, InitTypeOK, TypeStep, InitPristine, PristineStep, KeptStep, PTL DEF Spec
=============================================================================
