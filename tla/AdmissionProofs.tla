--------------------------- MODULE AdmissionProofs ---------------------------
(***************************************************************************)
(* What holds of Admission for any requests, keys, caps and faults.        *)
(***************************************************************************)
EXTENDS Admission, FiniteSetTheorems, TLAPS

-----------------------------------------------------------------------------
(* Types. *)

\* The fields of a row after each of the statements the handler issues.
LEMMA AdmissionRows ==
    ASSUME NEW row \in Rows
    PROVE  /\ InsertMessage(row) \in Rows /\ InsertMessage(row).state = "queued"
           /\ \A s \in MessageStates, e \in LastErrors :
                 MarkMessageState(row, s, e) \in Rows /\ MarkMessageState(row, s, e).state = s
<1>1. InsertMessage(row) \in Rows /\ InsertMessage(row).state = "queued"
  BY DEF Rows, InsertMessage, MessageStates
<1>2. \A s \in MessageStates, e \in LastErrors :
         MarkMessageState(row, s, e) \in Rows /\ MarkMessageState(row, s, e).state = s
  BY DEF Rows, MarkMessageState
<1> QED
  BY <1>1, <1>2

\* The initial state is well typed.
LEMMA InitTypeOK == Init => TypeOK
<1>1. AbsentRow \in Rows
  BY DEF AbsentRow, Rows, MessageStates, LastErrors, NoSid
<1>2. NoReply \in Replies
  BY DEF NoReply, Replies
<1>3. 0 \in Days
  BY AdmissionAssumption DEF Days
<1>4. Init => /\ messages \in [Requests -> Rows]
              /\ caps \in [Subscribers -> [Days -> Nat]]
              /\ now \in [Requests -> Days] /\ day \in Days
  <2>1. SUFFICES ASSUME Init
                 PROVE  /\ messages \in [Requests -> Rows]
                        /\ caps \in [Subscribers -> [Days -> Nat]]
                        /\ now \in [Requests -> Days] /\ day \in Days
    OBVIOUS
  <2>2. messages \in [Requests -> Rows]
    BY <1>1, <2>1 DEF Init
  <2>3. [d \in Days |-> 0] \in [Days -> Nat]
    OBVIOUS
  <2>4. caps \in [Subscribers -> [Days -> Nat]]
    BY <2>1, <2>3, Zenon DEF Init
  <2> QED
    BY <1>3, <2>1, <2>2, <2>4 DEF Init
<1>5. Init => /\ pc \in [Requests -> Locations]
              /\ reason \in [Requests -> LastErrors]
              /\ reply \in [Requests -> Replies]
  BY <1>2 DEF Init, Locations, LastErrors
<1>6. Init => /\ suppressed \subseteq Subscribers /\ optedIn \subseteq Subscribers
              /\ jobs \subseteq Requests
              /\ recent \subseteq {IdemKey[r] : r \in Requests}
  BY DEF Init
<1> QED
  BY <1>4, <1>5, <1>6, Zenon DEF TypeOK

\* A handler that goes on to another call leaves its variables well typed.
LEMMA GotoKeepsType ==
    ASSUME TypeOK, NEW r \in Requests, NEW l \in Locations, Goto(r, l)
    PROVE  pc' \in [Requests -> Locations] /\ UNCHANGED <<now, reply>>
  BY DEF TypeOK, Goto

\* So does a handler that answers.
LEMMA AnswerKeepsType ==
    ASSUME TypeOK, NEW r \in Requests, NEW answer \in Replies, Answer(r, answer)
    PROVE  /\ pc' \in [Requests -> Locations]
           /\ reply' \in [Requests -> Replies]
           /\ UNCHANGED <<now, reason>>
  BY DEF TypeOK, Answer, Locations

\* The two constant replies are replies.
LEMMA RepliesAre ==
    ASSUME NEW r \in Requests, NEW s \in MessageStates
    PROVE  /\ [id |-> r, state |-> s] \in Replies
           /\ ErrorReply \in Replies /\ NoReply \in Replies
  BY DEF Replies, ErrorReply, NoReply

\* A request's subscriber is one of the subscribers.
LEMMA SubscriberOf == ASSUME NEW r \in Requests PROVE Subscriber(r) \in Subscribers
  BY DEF Subscribers

\* Marking a message sets its state and leaves the others.
LEMMA MarkKeepsType ==
    ASSUME TypeOK, NEW r \in Requests, NEW s \in MessageStates, Mark(r, s)
    PROVE  /\ messages' \in [Requests -> Rows]
           /\ messages'[r].state = s
           /\ \A m \in Requests \ {r} : messages'[m] = messages[m]
<1>1. messages[r] \in Rows /\ reason[r] \in LastErrors
  BY DEF TypeOK
<1>2. /\ MarkMessageState(messages[r], s, reason[r]) \in Rows
      /\ MarkMessageState(messages[r], s, reason[r]).state = s
  BY <1>1, AdmissionRows
<1> QED
  BY <1>2 DEF Mark, TypeOK

\* Every step keeps the types: one case per action.
LEMMA TypeStep == TypeOK /\ [Next]_vars => TypeOK'
<1> SUFFICES ASSUME TypeOK, [Next]_vars PROVE TypeOK'
  OBVIOUS
<1> USE DEF MessageStates
<1>1. ASSUME NEW r \in Requests, Arrive(r) PROVE TypeOK'
  BY <1>1 DEF Arrive, TypeOK, Locations
<1>2. ASSUME NEW r \in Requests, FindMessageByIdempotency(r) PROVE TypeOK'
  <2>1. \A m \in Requests : [id |-> m, state |-> messages[m].state] \in Replies
    BY DEF TypeOK, Rows, Replies
  <2> QED
    BY <1>2, <2>1, RepliesAre, AnswerKeepsType, GotoKeepsType
       DEF FindMessageByIdempotency, DatabaseError, Holders, TypeOK, Locations
<1>3. ASSUME NEW r \in Requests, CreateMessage(r) PROVE TypeOK'
  <2>1. messages' \in [Requests -> Rows]
    BY <1>3, AdmissionRows DEF CreateMessage, TypeOK
  <2> QED
    BY <1>3, <2>1, RepliesAre, AnswerKeepsType, GotoKeepsType
       DEF CreateMessage, DatabaseError, TypeOK, Locations
<1>4. ASSUME NEW r \in Requests, IsSuppressed(r) PROVE TypeOK'
  BY <1>4, RepliesAre, AnswerKeepsType, GotoKeepsType
     DEF IsSuppressed, Refuse, DatabaseError, TypeOK, Locations, LastErrors
<1>5. ASSUME NEW r \in Requests, IsOptedIn(r) PROVE TypeOK'
  BY <1>5, RepliesAre, AnswerKeepsType, GotoKeepsType
     DEF IsOptedIn, Refuse, DatabaseError, TypeOK, Locations, LastErrors
<1>6. ASSUME NEW r \in Requests, IncrementDailyCap(r) PROVE TypeOK'
  <2>1. caps' \in [Subscribers -> [Days -> Nat]]
    <3>1. CASE caps' = [caps EXCEPT ![Subscriber(r)][now[r]] = @ + 1]
      <4>1. Subscriber(r) \in Subscribers /\ now[r] \in Days
        BY SubscriberOf DEF TypeOK
      <4>2. [caps[Subscriber(r)] EXCEPT ![now[r]] = @ + 1] \in [Days -> Nat]
        BY <4>1 DEF TypeOK
      <4> QED
        BY <3>1, <4>1, <4>2 DEF TypeOK
    <3> QED
      BY <1>6, <3>1 DEF IncrementDailyCap, TypeOK
  <2> QED
    BY <1>6, <2>1, RepliesAre, AnswerKeepsType, GotoKeepsType
       DEF IncrementDailyCap, Refuse, DatabaseError, TypeOK, Locations, LastErrors
<1>7. ASSUME NEW r \in Requests, EnqueueSMS(r) PROVE TypeOK'
  BY <1>7, RepliesAre, AnswerKeepsType, GotoKeepsType
     DEF EnqueueSMS, SendMessage, TypeOK, Locations, LastErrors
<1>8. ASSUME NEW r \in Requests, MarkSuppressed(r) PROVE TypeOK'
  <2>1. messages' \in [Requests -> Rows]
    BY <1>8, MarkKeepsType DEF MarkSuppressed, TypeOK
  <2> QED
    BY <1>8, <2>1, RepliesAre, AnswerKeepsType DEF MarkSuppressed, TypeOK
<1>9. ASSUME NEW r \in Requests, MarkFailed(r) PROVE TypeOK'
  <2>1. messages' \in [Requests -> Rows]
    BY <1>9, MarkKeepsType DEF MarkFailed, TypeOK
  <2> QED
    BY <1>9, <2>1, RepliesAre, AnswerKeepsType DEF MarkFailed, TypeOK
<1>10. ASSUME NEW r \in Requests, Crash(r) PROVE TypeOK'
  BY <1>10, RepliesAre, AnswerKeepsType DEF Crash, TypeOK
<1>11. ASSUME NEW s \in Subscribers, Withdraw(s) \/ OptIn(s) PROVE TypeOK'
  BY <1>11 DEF Withdraw, OptIn, TypeOK
<1>12. ASSUME NEW r \in Requests, ForgetDeduplication(IdemKey[r]) PROVE TypeOK'
  BY <1>12 DEF ForgetDeduplication, TypeOK
<1>13. CASE Midnight
  BY <1>13, AdmissionAssumption DEF Midnight, TypeOK, Days
<1>14. CASE UNCHANGED vars
  BY <1>14 DEF vars, TypeOK
<1> QED
  BY <1>1, <1>2, <1>3, <1>4, <1>5, <1>6, <1>7, <1>8, <1>9, <1>10, <1>11, <1>12, <1>13, <1>14
     DEF Next, CreateAndEnqueueSMS

\* Every variable of Admission keeps its type.
THEOREM Typing == Spec => []TypeOK
  BY InitTypeOK, TypeStep, PTL DEF Spec

-----------------------------------------------------------------------------
(* One row, and so one job, for a key. *)

\* The locations behind the INSERT: the request's row is there.
Created == {"suppression", "consent", "cap", "enqueue", "suppress", "fail"}

Present(r) == messages[r].state # "absent"

KeyInv ==
    /\ \A r, s \in Requests : Present(r) /\ Present(s) /\ SameKey(r, s) => r = s
    /\ \A r \in Requests : r \in jobs \/ pc[r] \in Created => Present(r)

\* A step that adds no row keeps the keys apart.
LEMMA KeyFrame ==
    ASSUME TypeOK, KeyInv, NEW r \in Requests,
           \A m \in Requests : Present(m)' <=> Present(m),
           \A m \in Requests \ {r} : pc'[m] = pc[m] /\ (m \in jobs' => m \in jobs),
           pc'[r] \in Created \/ r \in jobs' => pc[r] \in Created \/ r \in jobs
    PROVE  KeyInv'
  BY DEF KeyInv, SameKey

\* Every step keeps KeyInv: the unique constraint admits one row of a key.
LEMMA KeyStep == TypeOK /\ KeyInv /\ [Next]_vars => KeyInv'
<1> SUFFICES ASSUME TypeOK, KeyInv, [Next]_vars PROVE KeyInv'
  OBVIOUS
<1>1. ASSUME NEW r \in Requests, Arrive(r) PROVE KeyInv'
  BY <1>1, KeyFrame DEF Arrive, TypeOK, Present, Created
<1>2. ASSUME NEW r \in Requests, FindMessageByIdempotency(r) PROVE KeyInv'
  BY <1>2, KeyFrame
     DEF FindMessageByIdempotency, DatabaseError, Answer, Goto, TypeOK, Present, Created
<1>3. ASSUME NEW r \in Requests, CreateMessage(r) PROVE KeyInv'
  <2>1. CASE Holders(r) = {} /\ messages' = [messages EXCEPT ![r] = InsertMessage(@)]
    <3>1. ASSUME NEW m \in Requests PROVE Present(m)' <=> Present(m) \/ m = r
      BY <2>1, AdmissionRows DEF TypeOK, Present
    <3>2. \A m \in Requests : Present(m) => ~SameKey(m, r) /\ ~SameKey(r, m)
      BY <2>1 DEF Holders, Present, SameKey
    <3>3. \A m \in Requests \ {r} : pc'[m] = pc[m]
      BY <1>3 DEF CreateMessage, DatabaseError, Answer, Goto, TypeOK
    <3>4. UNCHANGED jobs
      BY <1>3 DEF CreateMessage
    <3> QED
      BY <3>1, <3>2, <3>3, <3>4 DEF KeyInv, SameKey
  <2>2. CASE UNCHANGED messages /\ \E a \in Replies : Answer(r, a)
    BY <1>3, <2>2, KeyFrame DEF CreateMessage, Answer, TypeOK, Present, Created
  <2> QED
    BY <1>3, <2>1, <2>2, RepliesAre DEF CreateMessage, DatabaseError, MessageStates
<1>4. ASSUME NEW r \in Requests, IsSuppressed(r) PROVE KeyInv'
  BY <1>4, KeyFrame DEF IsSuppressed, Refuse, DatabaseError, Answer, Goto, TypeOK, Present, Created
<1>5. ASSUME NEW r \in Requests, IsOptedIn(r) PROVE KeyInv'
  BY <1>5, KeyFrame DEF IsOptedIn, Refuse, DatabaseError, Answer, Goto, TypeOK, Present, Created
<1>6. ASSUME NEW r \in Requests, IncrementDailyCap(r) PROVE KeyInv'
  BY <1>6, KeyFrame
     DEF IncrementDailyCap, Refuse, DatabaseError, Answer, Goto, TypeOK, Present, Created
<1>7. ASSUME NEW r \in Requests, EnqueueSMS(r) PROVE KeyInv'
  BY <1>7, KeyFrame DEF EnqueueSMS, SendMessage, Answer, Goto, TypeOK, Present, Created
<1>8. ASSUME NEW r \in Requests, MarkSuppressed(r) \/ MarkFailed(r) PROVE KeyInv'
  <2>1. Present(r)
    BY <1>8 DEF MarkSuppressed, MarkFailed, KeyInv, Created
  <2>2. \A m \in Requests : Present(m)' <=> Present(m)
    BY <1>8, <2>1, MarkKeepsType DEF MarkSuppressed, MarkFailed, Present, MessageStates
  <2> QED
    BY <1>8, <2>2, KeyFrame DEF MarkSuppressed, MarkFailed, Answer, TypeOK, Created
<1>9. ASSUME NEW r \in Requests, Crash(r) PROVE KeyInv'
  BY <1>9, KeyFrame DEF Crash, Answer, TypeOK, Present, Created
<1>10. ASSUME UNCHANGED <<messages, jobs, pc>> PROVE KeyInv'
  BY <1>10 DEF KeyInv, Present, SameKey
<1> QED
  BY <1>1, <1>2, <1>3, <1>4, <1>5, <1>6, <1>7, <1>8, <1>9, <1>10
     DEF Next, CreateAndEnqueueSMS, Withdraw, OptIn, ForgetDeduplication, Midnight, vars

\* However many requests race with one key, however they are retried and whatever
\* fails, the send queue gets at most one job for it.
THEOREM OneJob == Spec => []OneJobPerKey
<1>1. Init => KeyInv
  <2>1. Init => /\ \A r \in Requests : pc[r] = "new" /\ messages[r] = AbsentRow
                /\ jobs = {}
    BY Zenon DEF Init
  <2> QED
    <3>1. AbsentRow.state = "absent"
      BY DEF AbsentRow
    <3> QED
      BY <2>1, <3>1 DEF KeyInv, Present, Created
<1>2. TypeOK /\ KeyInv => OneJobPerKey
  BY DEF TypeOK, KeyInv, OneJobPerKey
<1> QED
  BY <1>1, <1>2, InitTypeOK, TypeStep, KeyStep, PTL DEF Spec

-----------------------------------------------------------------------------
(* A refusal is final. *)

\* A job is sent by the handler's last step but MarkFailed, so a handler that
\* has refused, or that is still deciding, has sent none and a refused message
\* is never sent.
Refused(m) == pc[m] = "done" /\ m \notin jobs

RefusalInv ==
    /\ \A r \in Requests : r \in jobs => pc[r] \in {"fail", "done"}
    /\ \A r \in Requests : messages[r].state = "suppressed" => Refused(r)
    /\ \A r \in Requests :
          reply[r].state = "suppressed" => reply[r].id \in Requests /\ Refused(reply[r].id)

\* A step of handler r that gives no new refusal and sends at most its own job.
LEMMA RefusalFrame ==
    ASSUME TypeOK, RefusalInv, NEW r \in Requests, pc[r] # "done",
           \A m \in Requests \ {r} :
               /\ pc'[m] = pc[m] /\ reply'[m] = reply[m]
               /\ messages'[m].state = messages[m].state
               /\ m \in jobs' => m \in jobs,
           r \in jobs' => pc'[r] \in {"fail", "done"},
           messages'[r].state = "suppressed" => Refused(r)',
           reply'[r].state = "suppressed" =>
               reply'[r].id \in Requests /\ Refused(reply[r].id)'
    PROVE  RefusalInv'
<1>1. \A m \in Requests : m # r /\ Refused(m) => Refused(m)'
  BY DEF Refused
<1>2. \A m \in Requests : Refused(m) => m # r
  BY DEF Refused
<1>3. \A m \in Requests : m # r => (reply'[m].state = "suppressed" =>
          reply'[m].id \in Requests /\ reply'[m].id # r /\ Refused(reply[m].id)')
  BY <1>1, <1>2 DEF RefusalInv
<1>4. \A m \in Requests : messages'[m].state = "suppressed" => Refused(m)'
  BY <1>1, <1>2 DEF RefusalInv
<1>5. \A m \in Requests : m \in jobs' => pc'[m] \in {"fail", "done"}
  BY DEF RefusalInv
<1> QED
  BY <1>3, <1>4, <1>5 DEF RefusalInv

\* Every step keeps RefusalInv: a refused request never gets to EnqueueSMS.
LEMMA RefusalStep == TypeOK /\ RefusalInv /\ [Next]_vars => RefusalInv'
<1> SUFFICES ASSUME TypeOK, RefusalInv, [Next]_vars PROVE RefusalInv'
  OBVIOUS
<1>a. ASSUME NEW r \in Requests, pc[r] # "done", UNCHANGED <<messages, jobs>>,
             r \in jobs => pc[r] = "fail",
             \/ \E l \in Locations : Goto(r, l) /\ pc[r] # "fail"
             \/ \E a \in Replies : Answer(r, a) /\ a.state # "suppressed"
      PROVE  RefusalInv'
  <2>1. messages[r].state # "suppressed" /\ reply[r].state = "suppressed" => reply[r].id # r
    BY <1>a DEF RefusalInv, Refused
  <2>2. messages[r].state # "suppressed"
    BY <1>a DEF RefusalInv, Refused
  <2>3. \A m \in Requests \ {r} : pc'[m] = pc[m] /\ reply'[m] = reply[m]
    BY <1>a DEF Goto, Answer, TypeOK
  <2>4. r \in jobs => pc'[r] \in {"fail", "done"}
    BY <1>a DEF Goto, Answer, TypeOK
  <2>5. reply'[r].state = "suppressed" => reply'[r].id \in Requests /\ Refused(reply[r].id)'
    <3>1. SUFFICES ASSUME reply'[r].state = "suppressed"
                   PROVE  reply'[r].id \in Requests /\ Refused(reply[r].id)'
      OBVIOUS
    <3>2. reply' = reply
      BY <1>a, <3>1 DEF Goto, Answer, TypeOK
    <3>3. reply[r].id \in Requests \ {r} /\ Refused(reply[r].id)
      BY <2>1, <2>2, <3>1, <3>2 DEF RefusalInv
    <3> QED
      BY <1>a, <2>3, <3>2, <3>3 DEF Refused
  <2> QED
    BY <1>a, <2>2, <2>3, <2>4, <2>5, RefusalFrame
<1>1. ASSUME NEW r \in Requests, Arrive(r) PROVE RefusalInv'
  <2>1. r \notin jobs /\ pc'[r] = "find" /\ \A m \in Requests \ {r} : pc'[m] = pc[m]
    BY <1>1 DEF Arrive, TypeOK, RefusalInv
  <2> QED
    BY <1>1, <2>1 DEF Arrive, RefusalInv, Refused
<1>2. ASSUME NEW r \in Requests, FindMessageByIdempotency(r) PROVE RefusalInv'
  <2>1. pc[r] = "find" /\ r \notin jobs
    BY <1>2 DEF FindMessageByIdempotency, RefusalInv
  <2>2. CASE Goto(r, "create") /\ UNCHANGED reason
    BY <1>2, <1>a, <2>1, <2>2 DEF FindMessageByIdempotency, Locations
  <2>3. CASE Answer(r, ErrorReply)
    BY <1>2, <1>a, <2>1, <2>3, RepliesAre DEF FindMessageByIdempotency, ErrorReply, MessageStates
  <2>4. ASSUME NEW m \in Requests, messages[m].state # "absent",
               Answer(r, [id |-> m, state |-> messages[m].state])
        PROVE  RefusalInv'
    <3>1. /\ reply'[r] = [id |-> m, state |-> messages[m].state]
          /\ pc'[r] = "done"
          /\ \A n \in Requests \ {r} : pc'[n] = pc[n] /\ reply'[n] = reply[n]
      BY <2>4 DEF Answer, TypeOK
    <3>2. UNCHANGED <<messages, jobs>>
      BY <1>2 DEF FindMessageByIdempotency
    <3>3. messages[r].state # "suppressed"
      BY <2>1 DEF RefusalInv, Refused
    <3>4. messages[m].state = "suppressed" => Refused(m)'
      BY <2>1, <3>1, <3>2 DEF RefusalInv, Refused
    <3>5. reply'[r].state = "suppressed" => reply'[r].id \in Requests /\ Refused(reply[r].id)'
      BY <3>1, <3>4
    <3> QED
      BY <2>1, <3>1, <3>2, <3>3, <3>5, RefusalFrame
  <2> QED
    BY <1>2, <2>2, <2>3, <2>4 DEF FindMessageByIdempotency, DatabaseError, Holders
<1>3. ASSUME NEW r \in Requests, CreateMessage(r) PROVE RefusalInv'
  <2>1. pc[r] = "create" /\ r \notin jobs /\ UNCHANGED jobs
    BY <1>3 DEF CreateMessage, RefusalInv
  <2>2. CASE UNCHANGED messages /\ Answer(r, ErrorReply)
    BY <1>a, <2>1, <2>2, RepliesAre DEF ErrorReply, MessageStates
  <2>3. CASE /\ messages' = [messages EXCEPT ![r] = InsertMessage(@)]
             /\ Goto(r, "suppression") \/ Answer(r, ErrorReply)
    <3>1. /\ messages'[r].state = "queued"
          /\ \A m \in Requests \ {r} : messages'[m] = messages[m]
      BY <2>3, AdmissionRows DEF TypeOK
    <3>2. /\ \A m \in Requests \ {r} : pc'[m] = pc[m] /\ reply'[m] = reply[m]
          /\ pc'[r] # "create"
          /\ reply'[r].state # "suppressed" \/ reply'[r] = reply[r]
      BY <2>3 DEF Goto, Answer, ErrorReply, TypeOK
    <3>3. reply'[r].state = "suppressed" => reply'[r].id \in Requests /\ Refused(reply[r].id)'
      BY <2>1, <3>2 DEF RefusalInv, Refused
    <3> QED
      BY <2>1, <3>1, <3>2, <3>3, RefusalFrame
  <2> QED
    BY <1>3, <2>2, <2>3 DEF CreateMessage, DatabaseError
<1>4. ASSUME NEW r \in Requests, IsSuppressed(r) \/ IsOptedIn(r) \/ IncrementDailyCap(r)
      PROVE  RefusalInv'
  <2>1. /\ pc[r] \in {"suppression", "consent", "cap"} /\ r \notin jobs
        /\ UNCHANGED <<messages, jobs>>
    BY <1>4 DEF IsSuppressed, IsOptedIn, IncrementDailyCap, RefusalInv
  <2>2. \/ \E l \in Locations : Goto(r, l)
        \/ Answer(r, ErrorReply)
    BY <1>4 DEF IsSuppressed, IsOptedIn, IncrementDailyCap, Refuse, DatabaseError, Locations
  <2> QED
    BY <1>a, <2>1, <2>2, RepliesAre DEF ErrorReply, MessageStates
<1>5. ASSUME NEW r \in Requests, EnqueueSMS(r) PROVE RefusalInv'
  <2>1. /\ pc[r] = "enqueue" /\ r \notin jobs /\ UNCHANGED messages
        /\ messages[r].state # "suppressed"
    BY <1>5 DEF EnqueueSMS, RefusalInv, Refused
  <2>2. /\ pc'[r] \in {"fail", "done"}
        /\ \A m \in Requests \ {r} : pc'[m] = pc[m] /\ reply'[m] = reply[m]
        /\ reply'[r].state # "suppressed" \/ reply'[r] = reply[r]
    BY <1>5 DEF EnqueueSMS, Goto, Answer, TypeOK
  <2>3. jobs' \subseteq jobs \cup {r}
    BY <1>5 DEF EnqueueSMS, SendMessage
  <2>4. reply'[r].state = "suppressed" => reply'[r].id \in Requests /\ Refused(reply[r].id)'
    BY <2>1, <2>2, <2>3 DEF RefusalInv, Refused
  <2> QED
    BY <2>1, <2>2, <2>3, <2>4, RefusalFrame
<1>6. ASSUME NEW r \in Requests, MarkSuppressed(r) PROVE RefusalInv'
  <2>1. pc[r] = "suppress" /\ r \notin jobs /\ UNCHANGED jobs
    BY <1>6 DEF MarkSuppressed, RefusalInv
  <2>2. \A m \in Requests \ {r} : messages'[m] = messages[m]
    BY <1>6, MarkKeepsType DEF MarkSuppressed, MessageStates
  <2>3. /\ pc'[r] = "done"
        /\ reply'[r] \in {ErrorReply, [id |-> r, state |-> "suppressed"]}
        /\ \A m \in Requests \ {r} : pc'[m] = pc[m] /\ reply'[m] = reply[m]
    BY <1>6 DEF MarkSuppressed, Answer, TypeOK
  <2>4. Refused(r)'
    BY <2>1, <2>3 DEF Refused
  <2>5. reply'[r].state = "suppressed" => reply'[r].id = r
    BY <2>3 DEF ErrorReply
  <2> QED
    BY <2>1, <2>2, <2>3, <2>4, <2>5, RefusalFrame
<1>7. ASSUME NEW r \in Requests, MarkFailed(r) PROVE RefusalInv'
  <2>1. pc[r] = "fail" /\ UNCHANGED jobs /\ messages[r].state # "suppressed"
    BY <1>7 DEF MarkFailed, RefusalInv, Refused
  <2>2. /\ messages'[r].state # "suppressed"
        /\ \A m \in Requests \ {r} : messages'[m] = messages[m]
    BY <1>7, <2>1, MarkKeepsType DEF MarkFailed, MessageStates
  <2>3. /\ pc'[r] = "done" /\ reply'[r].state # "suppressed"
        /\ \A m \in Requests \ {r} : pc'[m] = pc[m] /\ reply'[m] = reply[m]
    BY <1>7 DEF MarkFailed, Answer, ErrorReply, TypeOK
  <2> QED
    BY <2>1, <2>2, <2>3, RefusalFrame
<1>8. ASSUME NEW r \in Requests, Crash(r) PROVE RefusalInv'
  BY <1>8, <1>a, RepliesAre DEF Crash, NoReply, RefusalInv, MessageStates
<1>9. ASSUME UNCHANGED <<messages, jobs, pc, reply>> PROVE RefusalInv'
  BY <1>9 DEF RefusalInv, Refused
<1> QED
  BY <1>1, <1>2, <1>3, <1>4, <1>5, <1>6, <1>7, <1>8, <1>9
     DEF Next, CreateAndEnqueueSMS, Withdraw, OptIn, ForgetDeduplication, Midnight, vars

\* Nothing is refused or sent at first.
LEMMA InitRefusal == Init => RefusalInv
<1>1. Init => /\ \A r \in Requests : reply[r] = NoReply /\ messages[r] = AbsentRow
              /\ jobs = {}
  BY Zenon DEF Init
<1>2. AbsentRow.state = "absent" /\ NoReply.state = "none"
  BY DEF AbsentRow, NoReply
<1> QED
  BY <1>1, <1>2 DEF RefusalInv

\* "suppressed" is a promise: a message whose request, first or repeated, was
\* answered so has no job and never gets one.
THEOREM Suppressed == Spec => []SuppressedIsNotSent
<1>1. RefusalInv => SuppressedIsNotSent
  BY DEF RefusalInv, Refused, SuppressedIsNotSent
<1> QED
  BY <1>1, InitRefusal, InitTypeOK, TypeStep, RefusalStep, PTL DEF Spec

-----------------------------------------------------------------------------
(* The daily cap. *)

\* The requests that hold a place of a subscriber's day: between the increment
\* and the send, or sent.  The counter is at least their number.
Holding(s, d) ==
    {r \in Requests : Subscriber(r) = s /\ now[r] = d /\ (pc[r] = "enqueue" \/ r \in jobs)}

CapInv ==
    \A s \in Subscribers, d \in Days :
        Cardinality(Holding(s, d)) <= caps[s][d] /\ caps[s][d] <= MaxPerDay

\* The requests that hold a place under the cap can be counted.
LEMMA HoldingIsFinite ==
    ASSUME NEW s, NEW d
    PROVE  IsFiniteSet(Holding(s, d)) /\ Cardinality(Holding(s, d)) \in Nat
  BY AdmissionAssumption, FS_Subset, FS_CardinalityType DEF Holding

\* A step that takes no place leaves the cap alone.
LEMMA CapFrame ==
    ASSUME TypeOK, CapInv, UNCHANGED caps,
           \A r \in Requests : pc'[r] = "enqueue" \/ r \in jobs' =>
               (pc[r] = "enqueue" \/ r \in jobs) /\ now'[r] = now[r]
    PROVE  CapInv'
<1> SUFFICES ASSUME NEW s \in Subscribers, NEW d \in Days
             PROVE  Cardinality(Holding(s, d)') <= caps[s][d] /\ caps[s][d] <= MaxPerDay
  BY DEF CapInv
<1>1. Holding(s, d)' \subseteq Holding(s, d)
  BY DEF Holding
<1>2. Cardinality(Holding(s, d)') <= Cardinality(Holding(s, d))
      /\ Cardinality(Holding(s, d)') \in Nat
  BY <1>1, HoldingIsFinite, FS_Subset, FS_CardinalityType
<1>3. Cardinality(Holding(s, d)) <= caps[s][d] /\ caps[s][d] <= MaxPerDay /\ caps[s][d] \in Nat
  BY DEF CapInv, TypeOK
<1> QED
  BY <1>2, <1>3, HoldingIsFinite

\* Every step keeps CapInv: a place is taken before the job is sent.
LEMMA CapStep == TypeOK /\ RefusalInv /\ CapInv /\ [Next]_vars => CapInv'
<1> SUFFICES ASSUME TypeOK, RefusalInv, CapInv, [Next]_vars PROVE CapInv'
  OBVIOUS
<1>1. ASSUME NEW r \in Requests, Arrive(r) PROVE CapInv'
  BY <1>1, CapFrame DEF Arrive, TypeOK, RefusalInv
<1>2. ASSUME NEW r \in Requests, IncrementDailyCap(r), UNCHANGED caps,
             Refuse(r, "cap_exceeded") \/ DatabaseError(r)
      PROVE  CapInv'
  BY <1>2, CapFrame DEF IncrementDailyCap, Refuse, DatabaseError, Goto, Answer, TypeOK
<1>3. ASSUME NEW r \in Requests, IncrementDailyCap(r), BelowCap(r),
             caps' = [caps EXCEPT ![Subscriber(r)][now[r]] = @ + 1]
      PROVE  CapInv'
  <2> SUFFICES ASSUME NEW s \in Subscribers, NEW d \in Days
               PROVE  Cardinality(Holding(s, d)') <= caps'[s][d] /\ caps'[s][d] <= MaxPerDay
    BY DEF CapInv
  <2>1. Cardinality(Holding(s, d)) <= caps[s][d] /\ caps[s][d] <= MaxPerDay /\ caps[s][d] \in Nat
    BY DEF CapInv, TypeOK
  <2>2. /\ UNCHANGED <<jobs, now>>
        /\ \A m \in Requests \ {r} : pc'[m] = pc[m]
    BY <1>3 DEF IncrementDailyCap, DatabaseError, Refuse, Goto, Answer, TypeOK
  <2>3. CASE s = Subscriber(r) /\ d = now[r]
    <3>1. caps'[s][d] = caps[s][d] + 1 /\ caps[s][d] < MaxPerDay
      BY <1>3, <2>3 DEF BelowCap, TypeOK
    <3>2. Holding(s, d)' \subseteq Holding(s, d) \cup {r}
      BY <2>2 DEF Holding
    <3>3. IsFiniteSet(Holding(s, d) \cup {r})
          /\ Cardinality(Holding(s, d) \cup {r}) <= Cardinality(Holding(s, d)) + 1
      <4>1. IsFiniteSet(Holding(s, d)) /\ Cardinality(Holding(s, d)) \in Nat
        BY HoldingIsFinite
      <4>2. /\ IsFiniteSet(Holding(s, d) \cup {r})
            /\ Cardinality(Holding(s, d) \cup {r}) =
                  IF r \in Holding(s, d) THEN Cardinality(Holding(s, d))
                  ELSE Cardinality(Holding(s, d)) + 1
        BY <4>1, FS_AddElement, Zenon
      <4> QED
        BY <4>1, <4>2
    <3>4. Cardinality(Holding(s, d)') <= Cardinality(Holding(s, d) \cup {r})
      BY <3>2, <3>3, FS_Subset
    <3>5. Cardinality(Holding(s, d)') \in Nat /\ Cardinality(Holding(s, d) \cup {r}) \in Nat
      BY <3>2, <3>3, FS_Subset, FS_CardinalityType
    <3> QED
      BY <2>1, <3>1, <3>3, <3>4, <3>5, HoldingIsFinite, AdmissionAssumption
  <2>4. CASE ~(s = Subscriber(r) /\ d = now[r])
    <3>1. caps'[s][d] = caps[s][d]
      BY <1>3, <2>4, SubscriberOf DEF TypeOK
    <3>2. Holding(s, d)' = Holding(s, d)
      BY <2>2, <2>4 DEF Holding
    <3> QED
      BY <2>1, <3>1, <3>2
  <2> QED
    BY <2>3, <2>4
<1>4. ASSUME NEW r \in Requests, CreateAndEnqueueSMS(r) PROVE CapInv'
  <2>1. CASE FindMessageByIdempotency(r) \/ CreateMessage(r)
    BY <2>1, CapFrame
       DEF FindMessageByIdempotency, CreateMessage, DatabaseError, Goto, Answer, TypeOK
  <2>2. CASE IsSuppressed(r) \/ IsOptedIn(r)
    BY <2>2, CapFrame DEF IsSuppressed, IsOptedIn, Refuse, DatabaseError, Goto, Answer, TypeOK
  <2>3. CASE EnqueueSMS(r) \/ MarkSuppressed(r) \/ MarkFailed(r)
    BY <2>3, CapFrame
       DEF EnqueueSMS, SendMessage, MarkSuppressed, MarkFailed, Goto, Answer, TypeOK
  <2> QED
    BY <1>2, <1>3, <1>4, <2>1, <2>2, <2>3 DEF CreateAndEnqueueSMS, IncrementDailyCap
<1>5. ASSUME NEW r \in Requests, Crash(r) PROVE CapInv'
  BY <1>5, CapFrame DEF Crash, Answer, TypeOK
<1>6. ASSUME UNCHANGED <<caps, jobs, pc, now>> PROVE CapInv'
  BY <1>6, CapFrame
<1> QED
  BY <1>1, <1>4, <1>5, <1>6 DEF Next, Withdraw, OptIn, ForgetDeduplication, Midnight, vars

\* No place is taken at first.
LEMMA InitCap == Init => CapInv
<1> SUFFICES ASSUME Init, NEW s \in Subscribers, NEW d \in Days
             PROVE  Cardinality(Holding(s, d)) <= caps[s][d] /\ caps[s][d] <= MaxPerDay
  BY DEF CapInv
<1>1. caps[s][d] = 0
  BY DEF Init
<1>2. Holding(s, d) = {}
  BY DEF Init, Holding
<1> QED
  BY <1>1, <1>2, FS_EmptySet, AdmissionAssumption

\* However many requests race for a subscriber's day, whatever fails between the
\* increment and the send, and whenever midnight falls, the jobs admitted for the
\* day are within the counter and the counter within the cap.
THEOREM DailyCap == Spec => []WithinDailyCap
<1>1. Init => CapInv
  BY InitCap
<1>2. TypeOK /\ CapInv => WithinDailyCap
  <2> SUFFICES ASSUME TypeOK, CapInv, NEW s \in Subscribers, NEW d \in Days
               PROVE  Cardinality(Sent(s, d)) <= caps[s][d] /\ caps[s][d] <= MaxPerDay
    BY DEF WithinDailyCap
  <2>1. Sent(s, d) \subseteq Holding(s, d)
    BY DEF Sent, Holding, TypeOK
  <2>2. Cardinality(Sent(s, d)) <= Cardinality(Holding(s, d)) /\ Cardinality(Sent(s, d)) \in Nat
    BY <2>1, HoldingIsFinite, FS_Subset, FS_CardinalityType
  <2>3. Cardinality(Holding(s, d)) <= caps[s][d] /\ caps[s][d] <= MaxPerDay /\ caps[s][d] \in Nat
    BY DEF CapInv, TypeOK
  <2> QED
    BY <2>2, <2>3, HoldingIsFinite
<1> QED
  BY <1>1, <1>2, InitRefusal, InitTypeOK, TypeStep, RefusalStep, CapStep, PTL DEF Spec

-----------------------------------------------------------------------------
(* The life of a message. *)

\* A request's row is its handler's alone: absent before the INSERT, "queued"
\* while the handler decides.
Owned(r) ==
    /\ pc[r] \in {"new", "find", "create"} => messages[r].state = "absent"
    /\ pc[r] \in Created => messages[r].state = "queued"

OwnInv == \A r \in Requests : Owned(r)

\* A step of handler r that changes no other row keeps OwnInv if it keeps its own.
LEMMA OwnFrame ==
    ASSUME OwnInv, NEW r \in Requests, Owned(r)',
           \A m \in Requests \ {r} : pc'[m] = pc[m] /\ messages'[m] = messages[m]
    PROVE  OwnInv'
<1>1. ASSUME NEW m \in Requests \ {r} PROVE Owned(m)'
  BY <1>1 DEF OwnInv, Owned
<1> QED
  BY <1>1 DEF OwnInv

\* Every step keeps OwnInv.
LEMMA OwnStep == TypeOK /\ OwnInv /\ [Next]_vars => OwnInv'
<1> SUFFICES ASSUME TypeOK, OwnInv, [Next]_vars PROVE OwnInv'
  OBVIOUS
<1>1. ASSUME NEW r \in Requests, Arrive(r) \/ FindMessageByIdempotency(r) PROVE OwnInv'
  BY <1>1, OwnFrame
     DEF Arrive, FindMessageByIdempotency, DatabaseError, Answer, Goto, TypeOK, OwnInv, Owned, Created
<1>2. ASSUME NEW r \in Requests, CreateMessage(r) PROVE OwnInv'
  <2>1. \/ messages' = messages
        \/ messages' = [messages EXCEPT ![r] = InsertMessage(@)]
    BY <1>2 DEF CreateMessage
  <2>2. /\ pc'[r] \in {"suppression", "done"}
        /\ pc'[r] = "suppression" => messages' = [messages EXCEPT ![r] = InsertMessage(@)]
        /\ \A m \in Requests \ {r} : pc'[m] = pc[m]
    BY <1>2 DEF CreateMessage, DatabaseError, Answer, Goto, TypeOK
  <2>3. InsertMessage(messages[r]).state = "queued"
    BY AdmissionRows DEF TypeOK
  <2>4. Owned(r)' /\ \A m \in Requests \ {r} : messages'[m] = messages[m]
    BY <2>1, <2>2, <2>3 DEF TypeOK, Owned, Created
  <2> QED
    BY <2>2, <2>4, OwnFrame
<1>3. ASSUME NEW r \in Requests, IsSuppressed(r) \/ IsOptedIn(r) \/ IncrementDailyCap(r)
      PROVE  OwnInv'
  BY <1>3, OwnFrame
     DEF IsSuppressed, IsOptedIn, IncrementDailyCap, Refuse, DatabaseError, Answer, Goto,
         TypeOK, OwnInv, Owned, Created
<1>4. ASSUME NEW r \in Requests, EnqueueSMS(r) PROVE OwnInv'
  BY <1>4, OwnFrame DEF EnqueueSMS, Answer, Goto, TypeOK, OwnInv, Owned, Created
<1>5. ASSUME NEW r \in Requests, MarkSuppressed(r) \/ MarkFailed(r) PROVE OwnInv'
  <2>1. \A m \in Requests \ {r} : messages'[m] = messages[m]
    BY <1>5, MarkKeepsType DEF MarkSuppressed, MarkFailed, MessageStates
  <2> QED
    BY <1>5, <2>1, OwnFrame DEF MarkSuppressed, MarkFailed, Answer, TypeOK, Owned, Created
<1>6. ASSUME NEW r \in Requests, Crash(r) PROVE OwnInv'
  BY <1>6, OwnFrame DEF Crash, Answer, TypeOK, Owned, Created
<1>7. ASSUME UNCHANGED <<messages, pc>> PROVE OwnInv'
  BY <1>7 DEF OwnInv, Owned
<1> QED
  BY <1>1, <1>2, <1>3, <1>4, <1>5, <1>6, <1>7
     DEF Next, CreateAndEnqueueSMS, Withdraw, OptIn, ForgetDeduplication, Midnight, vars

\* No row is there at first.
LEMMA InitOwn == Init => OwnInv
<1>1. Init => \A r \in Requests : pc[r] = "new" /\ messages[r] = AbsentRow
  BY Zenon DEF Init
<1>2. AbsentRow.state = "absent"
  BY DEF AbsentRow
<1> QED
  BY <1>1, <1>2 DEF OwnInv, Owned, Created

\* The rows' states, the first variable of the life.
States == [r \in Requests |-> messages[r].state]

\* The two statements of a handler on its row are moves of the message.
LEMMA HandlerMoves ==
    ASSUME TypeOK, NEW r \in Requests, NEW row \in Rows,
           messages' = [messages EXCEPT ![r] = row],
           \/ messages[r].state = "absent" /\ row.state = "queued"
           \/ messages[r].state = "queued" /\ row.state \in {"suppressed", "failed"}
    PROVE  [Life!Next]_Life!vars
<1>1. States' = [States EXCEPT ![r] = row.state] /\ States[r] = messages[r].state
  BY DEF States, TypeOK
<1>2. CASE messages[r].state = "absent" /\ row.state = "queued"
  BY <1>1, <1>2 DEF States, Life!Next, Life!Accept, Life!Move
<1>3. CASE messages[r].state = "queued" /\ row.state = "suppressed"
  BY <1>1, <1>3 DEF States, Life!Next, Life!Refuse, Life!Move
<1>4. CASE messages[r].state = "queued" /\ row.state = "failed"
  BY <1>1, <1>4 DEF States, Life!Next, Life!Abandon, Life!Move
<1> QED
  BY <1>2, <1>3, <1>4

\* A mark is written by a handler that owns its row.
LEMMA MarkMoves ==
    ASSUME TypeOK, OwnInv, NEW r \in Requests, pc[r] \in Created,
           NEW s \in {"suppressed", "failed"}, Mark(r, s)
    PROVE  [Life!Next]_Life!vars
<1>1. messages[r] \in Rows /\ reason[r] \in LastErrors /\ s \in MessageStates
  BY DEF TypeOK, MessageStates
<1>2. /\ MarkMessageState(messages[r], s, reason[r]) \in Rows
      /\ MarkMessageState(messages[r], s, reason[r]).state = s
  BY <1>1, AdmissionRows
<1>3. messages[r].state = "queued"
  BY DEF OwnInv, Owned
<1> QED
  BY <1>2, <1>3, HandlerMoves DEF Mark

\* Every step of acceptance is a step of the life of one message, or none.
LEMMA LifeStep == TypeOK /\ OwnInv /\ [Next]_vars => [Life!Next]_Life!vars
<1> SUFFICES ASSUME TypeOK, OwnInv, [Next]_vars PROVE [Life!Next]_Life!vars
  OBVIOUS
<1>1. ASSUME UNCHANGED messages PROVE [Life!Next]_Life!vars
  BY <1>1 DEF Life!vars
<1>2. ASSUME NEW r \in Requests, CreateMessage(r) PROVE [Life!Next]_Life!vars
  <2>1. messages[r].state = "absent" /\ messages[r] \in Rows
    BY <1>2 DEF CreateMessage, OwnInv, Owned, TypeOK
  <2>2. InsertMessage(messages[r]) \in Rows /\ InsertMessage(messages[r]).state = "queued"
    BY <2>1, AdmissionRows
  <2> QED
    BY <1>1, <1>2, <2>1, <2>2, HandlerMoves DEF CreateMessage
<1>3. ASSUME NEW r \in Requests, MarkSuppressed(r) \/ MarkFailed(r) PROVE [Life!Next]_Life!vars
  BY <1>1, <1>3, MarkMoves DEF MarkSuppressed, MarkFailed, Created
<1> QED
  BY <1>1, <1>2, <1>3
     DEF Next, CreateAndEnqueueSMS, Arrive, FindMessageByIdempotency, IsSuppressed, IsOptedIn,
         IncrementDailyCap, EnqueueSMS, Crash, Withdraw, OptIn, ForgetDeduplication, Midnight, vars

\* However requests race, repeat and fail, acceptance implements the first steps
\* of the life of a message: each row is inserted, refused or abandoned by its
\* own handler, once.
THEOREM ImplementsTheLifecycle == Spec => ImplementsLifecycle
<1>1. Init => Life!Init
  <2>1. Init => \A r \in Requests : messages[r] = AbsentRow
    BY Zenon DEF Init
  <2>2. AbsentRow.state = "absent"
    BY DEF AbsentRow
  <2> QED
    BY <2>1, <2>2 DEF Life!Init
<1> QED
  BY <1>1, InitTypeOK, TypeStep, InitOwn, OwnStep, LifeStep, PTL
     DEF Spec, ImplementsLifecycle, Life!Spec

-----------------------------------------------------------------------------
(* What the handlers may do to a table they share. *)

\* What a step of the API makes of the row of one request: its own handler
\* inserts it, or gives it up with the handler's last call.
RowMove(r) ==
    \/ messages'[r] = messages[r]
    \/ /\ messages'[r].sid = messages[r].sid
       /\ \/ /\ pc[r] = "create" /\ Holders(r) = {}
             /\ messages'[r].state = "queued"
          \/ /\ pc[r] = "suppress" /\ pc'[r] = "done"
             /\ messages'[r].state = "suppressed"
          \/ /\ pc[r] = "fail" /\ pc'[r] = "done"
             /\ messages'[r].state = "failed"

\* Where a handler may go: before the INSERT only from before it, behind it only
\* from there or by it, and to MarkFailed only by an error of the queue.
TurnMove(r) ==
    /\ pc'[r] \in {"new", "find", "create"} =>
          pc[r] \in {"new", "find", "create"} /\ messages'[r] = messages[r]
    /\ pc'[r] \in Created =>
          \/ pc[r] \in Created /\ messages'[r] = messages[r]
          \/ pc[r] = "create" /\ messages'[r].state = "queued"
    /\ pc'[r] = "fail" => pc[r] = "fail" \/ "queue" \in Faults

\* A job stays, and comes by EnqueueSMS only.
JobMove(r) ==
    /\ r \in jobs => r \in jobs'
    /\ r \in jobs' \ jobs =>
          pc[r] = "enqueue" /\ pc'[r] \in {"fail", "done"} /\ messages'[r] = messages[r]
    /\ pc[r] \in {"fail", "done"} => pc'[r] \in {"fail", "done"}

HandlerMove(r) == RowMove(r) /\ TurnMove(r) /\ JobMove(r)

\* No statement of the handler touches a provider_msg_id.
LEMMA SidStays ==
    ASSUME NEW row \in Rows
    PROVE  /\ InsertMessage(row).sid = row.sid
           /\ \A s \in MessageStates, e \in LastErrors : MarkMessageState(row, s, e).sid = row.sid
  BY DEF Rows, InsertMessage, MarkMessageState

\* Every step of the API does no more than that, to any request.
LEMMA HandlerMoveStep ==
    ASSUME TypeOK, Next, NEW r \in Requests
    PROVE  HandlerMove(r)
<1>1. ASSUME messages'[r] = messages[r], pc'[r] = pc[r], r \in jobs' <=> r \in jobs
      PROVE  HandlerMove(r)
  BY <1>1 DEF HandlerMove, RowMove, TurnMove, JobMove
<1>2. CASE Arrive(r) \/ FindMessageByIdempotency(r) \/ IsSuppressed(r) \/ IsOptedIn(r)
           \/ IncrementDailyCap(r) \/ Crash(r)
  BY <1>2 DEF Arrive, FindMessageByIdempotency, IsSuppressed, IsOptedIn, IncrementDailyCap,
     Crash, Refuse, DatabaseError, Answer, Goto, TypeOK,
     HandlerMove, RowMove, TurnMove, JobMove, Created
<1>3. CASE CreateMessage(r)
  <2>1. CASE Holders(r) = {} /\ messages' = [messages EXCEPT ![r] = InsertMessage(@)]
    <3>1. messages'[r].state = "queued" /\ messages'[r].sid = messages[r].sid
      BY <2>1, AdmissionRows, SidStays DEF TypeOK
    <3>2. pc[r] = "create" /\ pc'[r] \in {"suppression", "done"} /\ UNCHANGED jobs
      BY <1>3 DEF CreateMessage, DatabaseError, Answer, Goto, TypeOK
    <3> QED
      BY <2>1, <3>1, <3>2 DEF HandlerMove, RowMove, TurnMove, JobMove, Created
  <2>2. CASE UNCHANGED messages /\ \E a \in Replies : Answer(r, a)
    BY <1>3, <2>2 DEF CreateMessage, Answer, TypeOK,
       HandlerMove, RowMove, TurnMove, JobMove, Created
  <2> QED
    BY <1>3, <2>1, <2>2, RepliesAre DEF CreateMessage, DatabaseError, MessageStates
<1>4. CASE EnqueueSMS(r)
  BY <1>4 DEF EnqueueSMS, SendMessage, Answer, Goto, TypeOK,
     HandlerMove, RowMove, TurnMove, JobMove, Created
<1>5. CASE MarkSuppressed(r) \/ MarkFailed(r)
  <2>1. /\ pc[r] \in {"suppress", "fail"} /\ pc'[r] = "done" /\ UNCHANGED jobs
        /\ pc[r] = "suppress" => UNCHANGED messages \/ Mark(r, "suppressed")
        /\ pc[r] = "fail" => UNCHANGED messages \/ Mark(r, "failed")
    BY <1>5 DEF MarkSuppressed, MarkFailed, Answer, TypeOK
  <2>2. ASSUME NEW s \in {"suppressed", "failed"}, Mark(r, s)
        PROVE  messages'[r].state = s /\ messages'[r].sid = messages[r].sid
    <3>1. messages[r] \in Rows /\ reason[r] \in LastErrors /\ s \in MessageStates
      BY DEF TypeOK, MessageStates
    <3>2. messages'[r] = MarkMessageState(messages[r], s, reason[r])
      BY <2>2 DEF Mark, TypeOK
    <3> QED
      BY <3>1, <3>2, AdmissionRows, SidStays
  <2> QED
    BY <2>1, <2>2 DEF HandlerMove, RowMove, TurnMove, JobMove, Created
<1>6. ASSUME NEW s \in Requests, s # r, Arrive(s) \/ CreateAndEnqueueSMS(s) \/ Crash(s)
      PROVE  HandlerMove(r)
  <2>1. messages'[r] = messages[r]
    BY <1>6, MarkKeepsType
       DEF Arrive, CreateAndEnqueueSMS, FindMessageByIdempotency, CreateMessage, IsSuppressed,
           IsOptedIn, IncrementDailyCap, EnqueueSMS, MarkSuppressed, MarkFailed, Crash,
           MessageStates, TypeOK
  <2>2. pc'[r] = pc[r] /\ (r \in jobs' <=> r \in jobs)
    BY <1>6
       DEF Arrive, CreateAndEnqueueSMS, FindMessageByIdempotency, CreateMessage, IsSuppressed,
           IsOptedIn, IncrementDailyCap, EnqueueSMS, MarkSuppressed, MarkFailed, Crash,
           SendMessage, Refuse, DatabaseError, Answer, Goto, TypeOK
  <2> QED
    BY <1>1, <2>1, <2>2
<1> QED
  BY <1>1, <1>2, <1>3, <1>4, <1>5, <1>6
     DEF Next, CreateAndEnqueueSMS, Withdraw, OptIn, ForgetDeduplication, Midnight

-----------------------------------------------------------------------------
(* A stranded row is known. *)

\* All requests are of one tenant: the deduplication id of SQS is the bare key, so
\* for two tenants that choose one key the second's job is dropped in silence.
OneTenant == \A r, s \in Requests : Tenant[r] = Tenant[s]

\* What SQS remembers it has taken a job for, and a handler that has refused
\* knows why.
StrandedInv ==
    /\ StrandedIsKnown
    /\ \A k \in recent : \E m \in jobs : IdemKey[m] = k
    /\ \A r \in Requests : pc[r] = "suppress" => reason[r] # ""

\* A step of handler r that only adds jobs, and leaves its row known.
LEMMA StrandedFrame ==
    ASSUME StrandedInv, NEW r \in Requests, jobs \subseteq jobs',
           \A m \in Requests \ {r} :
               /\ pc'[m] = pc[m] /\ reply'[m] = reply[m] /\ reason'[m] = reason[m]
               /\ messages'[m].state = messages[m].state,
           \A k \in recent' : k \in recent \/ \E m \in jobs' : IdemKey[m] = k,
           pc'[r] = "suppress" => reason'[r] # "",
           pc'[r] = "done" /\ messages'[r].state = "queued" /\ r \notin jobs' =>
               \/ reply'[r] \in {ErrorReply, NoReply}
               \/ reply'[r].state = "suppressed" /\ reason'[r] # ""
    PROVE  StrandedInv'
<1>1. StrandedIsKnown'
  <2> SUFFICES ASSUME NEW m \in Requests,
                      pc'[m] = "done", messages'[m].state = "queued", m \notin jobs'
               PROVE  \/ reply'[m] \in {ErrorReply, NoReply}
                      \/ reply'[m].state = "suppressed" /\ reason'[m] # ""
    BY DEF StrandedIsKnown, ErrorReply, NoReply
  <2>1. CASE m = r
    BY <2>1
  <2>2. CASE m # r
    <3>1. /\ pc[m] = "done" /\ messages[m].state = "queued" /\ m \notin jobs
          /\ reply'[m] = reply[m] /\ reason'[m] = reason[m]
      BY <2>2
    <3> QED
      BY <3>1 DEF StrandedInv, StrandedIsKnown
  <2> QED
    BY <2>1, <2>2
<1>2. \A k \in recent' : \E m \in jobs' : IdemKey[m] = k
  BY DEF StrandedInv
<1>3. \A m \in Requests : pc'[m] = "suppress" => reason'[m] # ""
  BY DEF StrandedInv
<1> QED
  BY <1>1, <1>2, <1>3 DEF StrandedInv

\* With one tenant, a handler about to send finds its key not yet sent: no other
\* row has the key, and only the handler itself sends the row's job.
LEMMA KeyIsNotRecent ==
    ASSUME OneTenant, TypeOK, KeyInv, RefusalInv, StrandedInv,
           NEW r \in Requests, pc[r] = "enqueue"
    PROVE  IdemKey[r] \notin recent
<1> SUFFICES ASSUME IdemKey[r] \in recent PROVE FALSE
  OBVIOUS
<1>1. PICK m \in jobs : IdemKey[m] = IdemKey[r]
  BY DEF StrandedInv
<1>2. m \in Requests /\ SameKey(m, r)
  BY <1>1 DEF TypeOK, OneTenant, SameKey
<1>3. m = r
  BY <1>1, <1>2 DEF KeyInv, Created
<1> QED
  BY <1>1, <1>3 DEF RefusalInv

\* Every step keeps StrandedInv: a handler ends with a job sent, an error or a
\* refusal.
LEMMA StrandedStep ==
    OneTenant /\ TypeOK /\ KeyInv /\ RefusalInv /\ OwnInv /\ StrandedInv /\ [Next]_vars
        => StrandedInv'
<1> SUFFICES ASSUME OneTenant, TypeOK, KeyInv, RefusalInv, OwnInv, StrandedInv, [Next]_vars
             PROVE  StrandedInv'
  OBVIOUS
<1>1. ASSUME NEW r \in Requests, Arrive(r) PROVE StrandedInv'
  BY <1>1, StrandedFrame DEF Arrive, TypeOK
<1>2. ASSUME NEW r \in Requests, FindMessageByIdempotency(r) PROVE StrandedInv'
  <2>1. messages[r].state = "absent"
    BY <1>2 DEF FindMessageByIdempotency, OwnInv, Owned
  <2> QED
    BY <1>2, <2>1, StrandedFrame
       DEF FindMessageByIdempotency, DatabaseError, Answer, Goto, TypeOK
<1>3. ASSUME NEW r \in Requests, CreateMessage(r) PROVE StrandedInv'
  <2>1. /\ messages[r].state = "absent"
        /\ \A m \in Requests \ {r} : messages'[m] = messages[m]
    BY <1>3 DEF CreateMessage, OwnInv, Owned, TypeOK
  <2>2. /\ \A m \in Requests \ {r} : pc'[m] = pc[m] /\ reply'[m] = reply[m]
        /\ UNCHANGED <<reason, jobs, recent>>
        /\ pc'[r] = "suppression" \/ (pc'[r] = "done" /\ reply'[r] = ErrorReply)
    BY <1>3 DEF CreateMessage, DatabaseError, Answer, Goto, TypeOK
  <2> QED
    BY <2>1, <2>2, StrandedFrame
<1>4. ASSUME NEW r \in Requests, IsSuppressed(r) \/ IsOptedIn(r) \/ IncrementDailyCap(r)
      PROVE  StrandedInv'
  <2>1. UNCHANGED <<messages, jobs, recent>>
    BY <1>4 DEF IsSuppressed, IsOptedIn, IncrementDailyCap
  <2>2. /\ \A m \in Requests \ {r} :
               pc'[m] = pc[m] /\ reply'[m] = reply[m] /\ reason'[m] = reason[m]
        /\ pc'[r] = "suppress" => reason'[r] # ""
        /\ pc'[r] = "done" => reply'[r] = ErrorReply
    BY <1>4 DEF IsSuppressed, IsOptedIn, IncrementDailyCap, Refuse, DatabaseError, Answer, Goto,
       TypeOK
  <2> QED
    BY <2>1, <2>2, StrandedFrame
<1>5. ASSUME NEW r \in Requests, EnqueueSMS(r) PROVE StrandedInv'
  <2>1. SendMessage(r) => /\ jobs' = jobs \cup {r} /\ recent' = recent \cup {IdemKey[r]}
    BY <1>5, KeyIsNotRecent DEF EnqueueSMS, SendMessage
  <2>2. /\ jobs \subseteq jobs'
        /\ \A k \in recent' : k \in recent \/ \E m \in jobs' : IdemKey[m] = k
    BY <1>5, <2>1 DEF EnqueueSMS, Answer, Goto
  <2>3. /\ UNCHANGED messages
        /\ \A m \in Requests \ {r} :
               pc'[m] = pc[m] /\ reply'[m] = reply[m] /\ reason'[m] = reason[m]
        /\ pc'[r] \in {"done", "fail"}
        /\ pc'[r] = "done" => r \in jobs'
    BY <1>5, <2>1 DEF EnqueueSMS, Answer, Goto, TypeOK
  <2> QED
    BY <2>2, <2>3, StrandedFrame
<1>6. ASSUME NEW r \in Requests, MarkSuppressed(r) PROVE StrandedInv'
  <2>1. \A m \in Requests \ {r} : messages'[m] = messages[m]
    BY <1>6, MarkKeepsType DEF MarkSuppressed, MessageStates
  <2>2. pc[r] = "suppress" /\ reason[r] # ""
    BY <1>6 DEF MarkSuppressed, StrandedInv
  <2>3. /\ UNCHANGED <<reason, jobs, recent>>
        /\ \A m \in Requests \ {r} : pc'[m] = pc[m] /\ reply'[m] = reply[m]
        /\ pc'[r] = "done"
        /\ reply'[r] \in {ErrorReply, [id |-> r, state |-> "suppressed"]}
    BY <1>6 DEF MarkSuppressed, Answer, TypeOK
  <2>4. reply'[r] = ErrorReply \/ (reply'[r].state = "suppressed" /\ reason'[r] # "")
    <3>1. reason'[r] # ""
      BY <2>2, <2>3
    <3>2. [id |-> r, state |-> "suppressed"].state = "suppressed"
      OBVIOUS
    <3> QED
      BY <2>3, <3>1, <3>2, Zenon
  <2>5. /\ jobs \subseteq jobs'
        /\ \A k \in recent' : k \in recent \/ \E m \in jobs' : IdemKey[m] = k
        /\ pc'[r] # "suppress"
        /\ \A m \in Requests \ {r} : reason'[m] = reason[m]
    BY <2>3
  <2> QED
    BY <2>1, <2>3, <2>4, <2>5, StrandedFrame
<1>7. ASSUME NEW r \in Requests, MarkFailed(r) PROVE StrandedInv'
  <2>1. \A m \in Requests \ {r} : messages'[m] = messages[m]
    BY <1>7, MarkKeepsType DEF MarkFailed, MessageStates
  <2> QED
    BY <1>7, <2>1, StrandedFrame DEF MarkFailed, Answer, TypeOK
<1>8. ASSUME NEW r \in Requests, Crash(r) PROVE StrandedInv'
  BY <1>8, StrandedFrame DEF Crash, Answer, TypeOK
<1>9. ASSUME UNCHANGED <<messages, jobs, pc, reply, reason>>, recent' \subseteq recent
      PROVE  StrandedInv'
  BY <1>9 DEF StrandedInv, StrandedIsKnown
<1> QED
  BY <1>1, <1>2, <1>3, <1>4, <1>5, <1>6, <1>7, <1>8, <1>9
     DEF Next, CreateAndEnqueueSMS, Withdraw, OptIn, ForgetDeduplication, Midnight, vars

\* For the requests of one tenant, a row is never left "queued" without a job in
\* silence: its client got an error or no answer, or was refused and only the mark
\* has failed.
THEOREM Stranded == ASSUME OneTenant PROVE Spec => []StrandedIsKnown
<1>1. Init => KeyInv /\ StrandedInv
  <2>1. Init => /\ \A r \in Requests : pc[r] = "new" /\ messages[r] = AbsentRow
                /\ jobs = {} /\ recent = {}
    BY Zenon DEF Init
  <2>2. AbsentRow.state = "absent"
    BY DEF AbsentRow
  <2> QED
    BY <2>1, <2>2 DEF KeyInv, Present, Created, StrandedInv, StrandedIsKnown
<1>2. StrandedInv => StrandedIsKnown
  BY DEF StrandedInv
<1> QED
  BY <1>1, <1>2, InitTypeOK, InitRefusal, InitOwn, TypeStep, KeyStep, RefusalStep, OwnStep,
     StrandedStep, PTL DEF Spec

-----------------------------------------------------------------------------
(* A withdrawal is final. *)

\* As long as its subscriber is on the list, or without consent, a handler that has
\* not begun gets no further than the check that says so.
BarredByList(r) ==
    /\ r \notin jobs
    /\ pc[r] \in {"new", "find", "create", "suppression", "suppress", "done"}

BarredByConsent(r) ==
    /\ r \notin jobs
    /\ pc[r] \in {"new", "find", "create", "suppression", "consent", "suppress", "done"}

\* No step takes a barred handler past the check it is barred by.
LEMMA BarredStep ==
    ASSUME TypeOK, NEW r \in Requests, [Next]_vars
    PROVE  /\ BarredByList(r) /\ OnList(r) => BarredByList(r)'
           /\ BarredByConsent(r) /\ NoConsent(r) => BarredByConsent(r)'
<1> USE DEF BarredByList, BarredByConsent, OnList, NoConsent
<1>1. ASSUME NEW m \in Requests, Arrive(m)
      PROVE  /\ BarredByList(r) /\ OnList(r) => BarredByList(r)'
             /\ BarredByConsent(r) /\ NoConsent(r) => BarredByConsent(r)'
  BY <1>1 DEF Arrive, TypeOK
<1>2. ASSUME NEW m \in Requests, FindMessageByIdempotency(m) \/ CreateMessage(m)
      PROVE  /\ BarredByList(r) /\ OnList(r) => BarredByList(r)'
             /\ BarredByConsent(r) /\ NoConsent(r) => BarredByConsent(r)'
  BY <1>2 DEF FindMessageByIdempotency, CreateMessage, DatabaseError, Answer, Goto, TypeOK
<1>3. ASSUME NEW m \in Requests, IsSuppressed(m) \/ IsOptedIn(m)
      PROVE  /\ BarredByList(r) /\ OnList(r) => BarredByList(r)'
             /\ BarredByConsent(r) /\ NoConsent(r) => BarredByConsent(r)'
  BY <1>3 DEF IsSuppressed, IsOptedIn, Refuse, DatabaseError, Answer, Goto, TypeOK
<1>4. ASSUME NEW m \in Requests, IncrementDailyCap(m) \/ EnqueueSMS(m)
      PROVE  /\ BarredByList(r) /\ OnList(r) => BarredByList(r)'
             /\ BarredByConsent(r) /\ NoConsent(r) => BarredByConsent(r)'
  <2>1. pc[m] \in {"cap", "enqueue"} /\ \A n \in Requests \ {m} : pc'[n] = pc[n]
    BY <1>4 DEF IncrementDailyCap, EnqueueSMS, Refuse, DatabaseError, Answer, Goto, TypeOK
  <2>2. jobs' \subseteq jobs \cup {m}
    BY <1>4 DEF IncrementDailyCap, EnqueueSMS, SendMessage
  <2> QED
    BY <2>1, <2>2
<1>5. ASSUME NEW m \in Requests, MarkSuppressed(m) \/ MarkFailed(m) \/ Crash(m)
      PROVE  /\ BarredByList(r) /\ OnList(r) => BarredByList(r)'
             /\ BarredByConsent(r) /\ NoConsent(r) => BarredByConsent(r)'
  BY <1>5 DEF MarkSuppressed, MarkFailed, Crash, Answer, TypeOK
<1>6. ASSUME UNCHANGED <<jobs, pc>>
      PROVE  /\ BarredByList(r) /\ OnList(r) => BarredByList(r)'
             /\ BarredByConsent(r) /\ NoConsent(r) => BarredByConsent(r)'
  BY <1>6
<1> QED
  BY <1>1, <1>2, <1>3, <1>4, <1>5, <1>6
     DEF Next, CreateAndEnqueueSMS, Withdraw, OptIn, ForgetDeduplication, Midnight, vars

\* A subscriber who is on the list when the request arrives, or has no consent then
\* and gives none, gets nothing from it, whatever fails on the way.
THEOREM WithdrawalIsFinal == Spec => WithdrawnIsNotSent
<1> SUFFICES ASSUME NEW r \in Requests
             PROVE  Spec => [](pc[r] = "new" /\ ([]OnList(r) \/ []NoConsent(r))
                                  => [](r \notin jobs))
  BY DEF WithdrawnIsNotSent
<1>1. RefusalInv /\ pc[r] = "new" => BarredByList(r) /\ BarredByConsent(r)
  BY DEF RefusalInv, BarredByList, BarredByConsent
<1>2. TypeOK /\ BarredByList(r) /\ OnList(r) /\ [Next]_vars => BarredByList(r)'
  BY BarredStep
<1>3. TypeOK /\ BarredByConsent(r) /\ NoConsent(r) /\ [Next]_vars => BarredByConsent(r)'
  BY BarredStep
<1>4. (BarredByList(r) => r \notin jobs) /\ (BarredByConsent(r) => r \notin jobs)
  BY DEF BarredByList, BarredByConsent
<1> QED
  BY <1>1, <1>2, <1>3, <1>4, InitTypeOK, InitRefusal, TypeStep, RefusalStep, PTL DEF Spec
=============================================================================
