------------------------ MODULE StatusCallbacksProofs ------------------------
(***************************************************************************)
(* What holds of StatusCallbacks for any messages, callbacks, handlers and *)
(* processors, in either mode of the webhook.                              *)
(***************************************************************************)
EXTENDS StatusCallbacks, SequenceTheorems, TLAPS

-----------------------------------------------------------------------------
(* Rows, events and queue entries. *)

Entries == [callback: Callbacks, status: {"visible", "hidden", "deleted", "dlq"},
            receives: 0..MaxReceive]

\* The statements of this module on a row, and the fields they keep.
LEMMA CallbackRows ==
    ASSUME NEW row \in Rows
    PROVE  /\ \A sid \in Nat : SetProviderDetails(row, sid) \in Rows
           /\ \A s \in MessageStates, e \in LastErrors :
                 /\ MarkMessageState(row, s, e) \in Rows
                 /\ MarkMessageState(row, s, e).state = s
                 /\ MarkMessageState(row, s, e).sid = row.sid
<1>1. \A sid \in Nat : SetProviderDetails(row, sid) \in Rows
  BY DEF SetProviderDetails, Rows, MessageStates
<1>2. \A s \in MessageStates, e \in LastErrors :
          /\ MarkMessageState(row, s, e) \in Rows
          /\ MarkMessageState(row, s, e).state = s
          /\ MarkMessageState(row, s, e).sid = row.sid
  BY DEF MarkMessageState, Rows
<1> QED
  BY <1>1, <1>2

\* A terminal status settles a message.
LEMMA TerminalStates ==
    ASSUME NEW c \in Callbacks, Terminal(c)
    PROVE  NewState(Status[c]) \in {"delivered", "failed"}
  BY DEF Terminal, NewState

\* The UPDATE by provider_msg_id: rows of the sid are settled with the callback's
\* outcome, the others are left alone, and no sid changes.
LEMMA UpdateRows ==
    ASSUME TypeOK, NEW c \in Callbacks, Terminal(c),
           NEW updated, updated = UpdateMessageByProviderMsgID(c)
    PROVE  /\ updated \in [Messages -> Rows]
           /\ \A m \in Messages :
                 /\ updated[m].sid = messages[m].sid
                 /\ ~HasSid(m, c) => updated[m] = messages[m]
                 /\ HasSid(m, c) => updated[m].state = NewState(Status[c])
<1>1. NewState(Status[c]) \in MessageStates /\ "provider_code" \in LastErrors
  BY TerminalStates DEF MessageStates, LastErrors
<1>2. ASSUME NEW m \in Messages
      PROVE  /\ updated[m] \in Rows
             /\ updated[m].sid = messages[m].sid
             /\ ~HasSid(m, c) => updated[m] = messages[m]
             /\ HasSid(m, c) => updated[m].state = NewState(Status[c])
  <2>1. messages[m] \in Rows
    BY DEF TypeOK
  <2>2. updated[m] = IF HasSid(m, c)
                     THEN MarkMessageState(messages[m], NewState(Status[c]), "provider_code")
                     ELSE messages[m]
    BY DEF UpdateMessageByProviderMsgID
  <2> QED
    BY <1>1, <2>1, <2>2, CallbackRows
<1>3. updated = [m \in Messages |-> updated[m]]
  BY DEF UpdateMessageByProviderMsgID
<1> QED
  BY <1>2, <1>3

\* SendMessage puts a new entry behind the others.
LEMMA EntryAdded ==
    ASSUME queue \in Seq(Entries), NEW c \in Callbacks,
           NEW longer, longer = Append(queue, [callback |-> c, status |-> "visible", receives |-> 0])
    PROVE  /\ longer \in Seq(Entries) /\ Len(longer) = Len(queue) + 1
           /\ \A k \in 1..Len(queue) : longer[k] = queue[k]
           /\ longer[Len(longer)].callback = c /\ longer[Len(longer)].status = "visible"
<1>1. [callback |-> c, status |-> "visible", receives |-> 0] \in Entries
  BY CallbacksAssumption DEF Entries
<1> QED
  BY <1>1, AppendProperties

\* The other operations on the queue change one entry in place.
LEMMA EntryChanged ==
    ASSUME queue \in Seq(Entries), NEW k \in 1..Len(queue), NEW e \in Entries,
           e.callback = queue[k].callback,
           NEW changed, changed = [queue EXCEPT ![k] = e]
    PROVE  /\ changed \in Seq(Entries) /\ Len(changed) = Len(queue)
           /\ changed[k] = e
           /\ \A i \in 1..Len(queue) : /\ changed[i].callback = queue[i].callback
                                       /\ i # k => changed[i] = queue[i]
  BY ExceptSeq

\* An entry with another status is an entry.
LEMMA EntryStatus ==
    ASSUME queue \in Seq(Entries), NEW k \in 1..Len(queue),
           NEW s \in {"visible", "hidden", "deleted", "dlq"}
    PROVE  /\ queue[k] \in Entries
           /\ [queue[k] EXCEPT !.status = s] \in Entries
           /\ [queue[k] EXCEPT !.status = s].callback = queue[k].callback
           /\ [queue[k] EXCEPT !.status = s].status = s
           /\ [queue EXCEPT ![k].status = s] = [queue EXCEPT ![k] = [queue[k] EXCEPT !.status = s]]
<1>1. queue[k] \in Entries
  BY ElementOfSeq
<1> QED
  BY <1>1 DEF Entries

\* And so are the others when one entry's status changes.
LEMMA EntryMoved ==
    ASSUME queue \in Seq(Entries), NEW k \in 1..Len(queue),
           NEW s \in {"visible", "hidden", "deleted", "dlq"},
           NEW changed, changed = [queue EXCEPT ![k].status = s]
    PROVE  /\ changed \in Seq(Entries) /\ Len(changed) = Len(queue)
           /\ changed[k].status = s
           /\ \A i \in 1..Len(queue) : /\ changed[i].callback = queue[i].callback
                                       /\ i # k => changed[i] = queue[i]
<1>1. PICK e \in Entries : /\ e.callback = queue[k].callback /\ e.status = s
                           /\ changed = [queue EXCEPT ![k] = e]
  BY EntryStatus
<1> QED
  BY <1>1, EntryChanged

\* An entry that is received once more is an entry.
LEMMA EntryReceived ==
    ASSUME NEW e \in Entries, e.receives < MaxReceive,
           NEW received, received = [e EXCEPT !.status = "hidden", !.receives = @ + 1]
    PROVE  received \in Entries /\ received.callback = e.callback /\ received.status = "hidden"
<1>1. e.receives + 1 \in 0..MaxReceive
  BY CallbacksAssumption DEF Entries
<1> QED
  BY <1>1 DEF Entries

-----------------------------------------------------------------------------
(* Types. *)

\* What a handler and a processor have in hand.
Callback(p) == queue[entry[p]].callback

HandInv ==
    /\ \A h \in Handlers : /\ pc[h] # "idle" => handled[h] \in Callbacks
                           /\ pc[h] = "update" => Terminal(handled[h])
    /\ \A p \in Processors : /\ ppc[p] # "idle" => entry[p] \in 1..Len(queue)
                             /\ ppc[p] = "update" => Terminal(Callback(p))

TypeInv == TypeOK /\ HandInv

\* TypeOK says of the queue what Entries abbreviates.
LEMMA QueueType == ASSUME TypeOK PROVE queue \in Seq(Entries) /\ Len(queue) \in Nat
  BY LenProperties DEF TypeOK, Entries

\* The callback of an entry in hand.
LEMMA EntryInHand ==
    ASSUME TypeInv, NEW p \in Processors, ppc[p] # "idle"
    PROVE  entry[p] \in 1..Len(queue) /\ Callback(p) \in Callbacks
<1>1. entry[p] \in 1..Len(queue)
  BY DEF TypeInv, HandInv
<1>2. queue[entry[p]] \in Entries
  BY <1>1, QueueType, ElementOfSeq DEF TypeInv
<1> QED
  BY <1>1, <1>2 DEF Callback, Entries

\* What a handler's step asks of its own variables.
HandlerType ==
    /\ acked' \subseteq Callbacks
    /\ pc' \in [Handlers -> {"idle", "enqueue", "insert", "update"}]
    /\ handled' \in [Handlers -> Callbacks \cup {NoCallback}]
    /\ tried' \in [Handlers -> 0..MaxUpdates - 1]
    /\ faults' \in 0..MaxFaults
    /\ \A h \in Handlers : /\ pc'[h] # "idle" => handled'[h] \in Callbacks
                           /\ pc'[h] = "update" => Terminal(handled'[h])

\* A handler that leaves keeps the types, whether the provider heard it or not.
LEMMA LeaveKeepsType ==
    ASSUME TypeInv, NEW h \in Handlers, pc[h] # "idle", Accept(h) \/ Reject(h),
           UNCHANGED faults \/ Fault
    PROVE  HandlerType
<1>1. handled[h] \in Callbacks
  BY DEF TypeInv, HandInv
<1>2. acked' \subseteq Callbacks
  BY <1>1 DEF Accept, Reject, TypeInv, TypeOK
<1>3. /\ pc' = [pc EXCEPT ![h] = "idle"]
      /\ handled' = [handled EXCEPT ![h] = NoCallback]
      /\ tried' = [tried EXCEPT ![h] = 0]
  BY DEF Accept, Reject, Leave
<1>4. faults' \in 0..MaxFaults
  BY CallbacksAssumption DEF Fault, TypeInv, TypeOK
<1> QED
  BY <1>2, <1>3, <1>4, CallbacksAssumption DEF HandlerType, TypeInv, TypeOK, HandInv

\* What a processor's step asks of its own variables, the queue and the faults.
ProcessorType ==
    /\ queue' \in Seq(Entries)
    /\ ppc' \in [Processors -> {"idle", "update", "insert", "delete"}]
    /\ entry' \in [Processors -> 0..Len(queue')]
    /\ faults' \in 0..MaxFaults
    /\ \A p \in Processors : /\ ppc'[p] # "idle" => entry'[p] \in 1..Len(queue')
                             /\ ppc'[p] = "update" => Terminal(Callback(p))'

\* Nothing a processor holds changes when the queue only grows.
LEMMA ProcessorsKeepType ==
    ASSUME TypeInv, UNCHANGED processors, faults' \in 0..MaxFaults,
           queue' \in Seq(Entries), Len(queue') >= Len(queue),
           \A k \in 1..Len(queue) : queue'[k].callback = queue[k].callback
    PROVE  ProcessorType
<1>1. Len(queue) \in Nat /\ Len(queue') \in Nat
  BY QueueType, LenProperties DEF TypeInv
<1>2. entry' \in [Processors -> 0..Len(queue')]
  BY <1>1 DEF TypeInv, TypeOK, processors
<1>3. ASSUME NEW p \in Processors, ppc[p] # "idle"
      PROVE  /\ entry[p] \in 1..Len(queue)
             /\ entry[p] \in 1..Len(queue')
             /\ Callback(p)' = Callback(p)
  BY <1>1, <1>3, EntryInHand DEF Callback, processors
<1> QED
  BY <1>2, <1>3 DEF ProcessorType, TypeInv, TypeOK, HandInv, processors, Terminal

\* The parts make up the whole.
LEMMA TypeFromParts ==
    ASSUME TypeInv, HandlerType, ProcessorType, messages' \in [Messages -> Rows],
           events' \in Seq(Callbacks), posts' \in [Callbacks -> 0..MaxPosts],
           UNCHANGED toFix
    PROVE  TypeInv'
  BY DEF HandlerType, ProcessorType, TypeInv, TypeOK, HandInv, Entries

\* A processor that lets its entry go keeps the types.
LEMMA DropKeepsType ==
    ASSUME TypeInv, NEW p \in Processors, Drop(p), faults' \in 0..MaxFaults,
           queue' \in Seq(Entries), Len(queue') = Len(queue),
           \A k \in 1..Len(queue) : queue'[k].callback = queue[k].callback
    PROVE  ProcessorType
<1>1. Len(queue) \in Nat
  BY QueueType DEF TypeInv
<1>2. ppc' = [ppc EXCEPT ![p] = "idle"] /\ entry' = [entry EXCEPT ![p] = 0]
  BY DEF Drop
<1>3. /\ ppc' \in [Processors -> {"idle", "update", "insert", "delete"}]
      /\ entry' \in [Processors -> 0..Len(queue')]
      /\ ppc'[p] = "idle"
  BY <1>1, <1>2 DEF TypeInv, TypeOK
<1>4. ASSUME NEW q \in Processors, q # p, ppc[q] # "idle"
      PROVE  /\ entry[q] \in 1..Len(queue)
             /\ Callback(q)' = Callback(q)
  BY <1>2, <1>4, EntryInHand DEF Callback, TypeInv, TypeOK
<1>5. \A q \in Processors : q # p => ppc'[q] = ppc[q] /\ entry'[q] = entry[q]
  BY <1>2 DEF TypeInv, TypeOK
<1> QED
  BY <1>3, <1>4, <1>5 DEF ProcessorType, TypeInv, HandInv, Terminal

\* A processor that goes on with its entry keeps the types.
LEMMA GoOnKeepsType ==
    ASSUME TypeInv, NEW p \in Processors, ppc[p] # "idle", NEW l \in {"insert", "delete"},
           ppc' = [ppc EXCEPT ![p] = l], UNCHANGED <<entry, queue, faults>>
    PROVE  ProcessorType
<1>1. ppc' \in [Processors -> {"idle", "update", "insert", "delete"}]
  BY DEF TypeInv, TypeOK
<1>2. /\ ppc'[p] = l /\ entry[p] \in 1..Len(queue)
      /\ \A q \in Processors : q # p => ppc'[q] = ppc[q]
  BY DEF TypeInv, TypeOK, HandInv
<1> QED
  BY <1>1, <1>2, QueueType DEF ProcessorType, TypeInv, TypeOK, HandInv, Callback, Terminal

\* A step that is not a handler's.
LEMMA HandlersKeepType ==
    ASSUME TypeInv, UNCHANGED <<acked, handlers>>, faults' \in 0..MaxFaults
    PROVE  HandlerType
  BY DEF HandlerType, TypeInv, TypeOK, HandInv, handlers

\* A fault is counted.
LEMMA FaultKeepsType == ASSUME TypeInv, UNCHANGED faults \/ Fault PROVE faults' \in 0..MaxFaults
  BY CallbacksAssumption DEF Fault, TypeInv, TypeOK

\* A step of a handler that leaves the queue alone.
LEMMA HandlerStepType ==
    ASSUME TypeInv, HandlerType, UNCHANGED <<queue, processors>>
    PROVE  ProcessorType
  BY ProcessorsKeepType, QueueType DEF HandlerType, TypeInv

\* Every step of a handler keeps the types.
LEMMA HandleKeepsType ==
    ASSUME TypeInv, NEW h \in Handlers, Handle(h) \/ CrashHandler(h)
    PROVE  TypeInv'
<1>1. pc[h] # "idle"
  BY DEF Handle, EnqueueEvent, InsertDeliveryEvent, UpdateMessage, CrashHandler
<1>2. handled[h] \in Callbacks
  BY <1>1 DEF TypeInv, HandInv
<1>3. UNCHANGED posts /\ UNCHANGED processors /\ UNCHANGED toFix
  BY DEF Handle, EnqueueEvent, InsertDeliveryEvent, UpdateMessage, CrashHandler
<1>4. posts' \in [Callbacks -> 0..MaxPosts]
  BY <1>3 DEF TypeInv, TypeOK
<1>5. events' \in Seq(Callbacks)
  <2>1. events \in Seq(Callbacks) /\ Append(events, handled[h]) \in Seq(Callbacks)
    BY <1>2, AppendProperties DEF TypeInv, TypeOK
  <2> QED
    BY <2>1 DEF Handle, EnqueueEvent, InsertDeliveryEvent, UpdateMessage, CrashHandler
<1>6. messages' \in [Messages -> Rows]
  <2>1. CASE UNCHANGED messages
    BY <2>1 DEF TypeInv, TypeOK
  <2>2. CASE UpdateMessage(h)
    <3>1. Terminal(handled[h])
      BY <2>2 DEF UpdateMessage, TypeInv, HandInv
    <3>2. messages \in [Messages -> Rows]
          /\ UpdateMessageByProviderMsgID(handled[h]) \in [Messages -> Rows]
      BY <1>2, <3>1, UpdateRows DEF TypeInv, TypeOK
    <3> QED
      BY <2>2, <3>2 DEF UpdateMessage
  <2> QED
    BY <2>1, <2>2 DEF Handle, EnqueueEvent, InsertDeliveryEvent, CrashHandler
<1>7. HandlerType
  <2>1. CASE (Accept(h) \/ Reject(h)) /\ (UNCHANGED faults \/ Fault)
    BY <1>1, <2>1, LeaveKeepsType
  <2>2. CASE /\ Terminal(handled[h])
             /\ pc' = [pc EXCEPT ![h] = "update"]
             /\ UNCHANGED <<handled, tried, acked, faults>>
    BY <1>2, <2>2 DEF HandlerType, TypeInv, TypeOK, HandInv
  <2>3. CASE /\ tried[h] + 1 < MaxUpdates
             /\ tried' = [tried EXCEPT ![h] = @ + 1]
             /\ UNCHANGED <<acked, pc, handled, faults>>
    <3>1. tried[h] + 1 \in 0..MaxUpdates - 1
      BY <2>3, CallbacksAssumption DEF TypeInv, TypeOK
    <3>2. tried' \in [Handlers -> 0..MaxUpdates - 1]
      BY <2>3, <3>1 DEF TypeInv, TypeOK
    <3> QED
      BY <2>3, <3>2 DEF HandlerType, TypeInv, TypeOK, HandInv
  <2> QED
    BY <2>1, <2>2, <2>3
       DEF Handle, EnqueueEvent, InsertDeliveryEvent, UpdateMessage, CrashHandler
<1>8. ProcessorType
  <2>1. CASE UNCHANGED queue
    BY <1>3, <1>7, <2>1, HandlerStepType
  <2>2. CASE queue' = Append(queue, [callback |-> handled[h], status |-> "visible", receives |-> 0])
    <3>1. queue \in Seq(Entries) /\ Len(queue) \in Nat
      BY QueueType DEF TypeInv
    <3>2. /\ queue' \in Seq(Entries) /\ Len(queue') = Len(queue) + 1
          /\ \A k \in 1..Len(queue) : queue'[k] = queue[k]
      BY <1>2, <2>2, <3>1, EntryAdded
    <3> QED
      BY <1>3, <1>7, <3>1, <3>2, ProcessorsKeepType DEF HandlerType
  <2> QED
    BY <2>1, <2>2 DEF Handle, EnqueueEvent, InsertDeliveryEvent, UpdateMessage, CrashHandler
<1> QED
  BY <1>3, <1>4, <1>5, <1>6, <1>7, <1>8, TypeFromParts

\* Every step of a processor keeps the types.
LEMMA ProcessKeepsType ==
    ASSUME TypeInv, NEW p \in Processors, ProcessWebhookEvent(p) \/ CrashProcessor(p)
    PROVE  TypeInv'
<1>1. ppc[p] # "idle"
  BY DEF ProcessWebhookEvent, ProcessUpdate, ProcessInsert, DeleteEvent, CrashProcessor
<1>2. entry[p] \in 1..Len(queue) /\ Callback(p) \in Callbacks
  BY <1>1, EntryInHand
<1>3. UNCHANGED <<posts, acked, handlers, toFix>>
  BY DEF ProcessWebhookEvent, ProcessUpdate, ProcessInsert, DeleteEvent, CrashProcessor
<1>4. posts' \in [Callbacks -> 0..MaxPosts]
  BY <1>3 DEF TypeInv, TypeOK
<1>5. events' \in Seq(Callbacks)
  <2>1. events \in Seq(Callbacks) /\ Append(events, Callback(p)) \in Seq(Callbacks)
    BY <1>2, AppendProperties DEF TypeInv, TypeOK
  <2> QED
    BY <2>1 DEF ProcessWebhookEvent, ProcessUpdate, ProcessInsert, DeleteEvent, CrashProcessor,
       Callback
<1>6. messages' \in [Messages -> Rows]
  <2>1. CASE UNCHANGED messages
    BY <2>1 DEF TypeInv, TypeOK
  <2>2. CASE ProcessUpdate(p)
    <3>1. Terminal(Callback(p))
      BY <2>2 DEF ProcessUpdate, TypeInv, HandInv
    <3>2. messages \in [Messages -> Rows]
          /\ UpdateMessageByProviderMsgID(Callback(p)) \in [Messages -> Rows]
      BY <1>2, <3>1, UpdateRows DEF TypeInv, TypeOK
    <3> QED
      BY <2>2, <3>2 DEF ProcessUpdate, Callback
  <2> QED
    BY <2>1, <2>2 DEF ProcessWebhookEvent, ProcessInsert, DeleteEvent, CrashProcessor
<1>7. faults' \in 0..MaxFaults
  BY FaultKeepsType
     DEF ProcessWebhookEvent, ProcessUpdate, ProcessInsert, DeleteEvent, CrashProcessor
<1>8. HandlerType
  BY <1>3, <1>7, HandlersKeepType
<1>9. ProcessorType
  <2>1. ASSUME NEW l \in {"insert", "delete"}, ppc' = [ppc EXCEPT ![p] = l],
               UNCHANGED <<entry, queue, faults>>
        PROVE  ProcessorType
    BY <1>1, <2>1, GoOnKeepsType
  <2>2. CASE Drop(p) /\ UNCHANGED queue
    BY <1>7, <2>2, QueueType, DropKeepsType DEF TypeInv
  <2>3. CASE Drop(p) /\ queue' = [queue EXCEPT ![entry[p]].status = "deleted"]
    <3>1. queue \in Seq(Entries)
      BY QueueType DEF TypeInv
    <3>2. /\ queue' \in Seq(Entries) /\ Len(queue') = Len(queue)
          /\ \A k \in 1..Len(queue) : queue'[k].callback = queue[k].callback
      BY <1>2, <2>3, <3>1, EntryMoved
    <3> QED
      BY <1>7, <2>3, <3>2, DropKeepsType
  <2> QED
    BY <2>1, <2>2, <2>3
       DEF ProcessWebhookEvent, ProcessUpdate, ProcessInsert, DeleteEvent, CrashProcessor
<1> QED
  BY <1>3, <1>4, <1>5, <1>6, <1>8, <1>9, TypeFromParts

\* SQS's steps on an entry keep the types.
LEMMA QueueKeepsType ==
    ASSUME TypeInv, NEW k \in QueueIndices, Reappear(k) \/ RedriveEvent(k)
    PROVE  TypeInv'
<1>1. queue \in Seq(Entries) /\ Len(queue) \in Nat
  BY QueueType DEF TypeInv
<1>2. k \in 1..Len(queue)
  BY <1>1, LenProperties DEF Reappear, RedriveEvent
<1>3. PICK s \in {"visible", "dlq"} : queue' = [queue EXCEPT ![k].status = s]
  BY DEF Reappear, RedriveEvent
<1>4. /\ queue' \in Seq(Entries) /\ Len(queue') = Len(queue)
      /\ \A i \in 1..Len(queue) : queue'[i].callback = queue[i].callback
  BY <1>1, <1>2, <1>3, EntryMoved
<1>5. UNCHANGED <<messages, events, posts, acked, handlers, processors, toFix, faults>>
  BY DEF Reappear, RedriveEvent
<1>6. faults' \in 0..MaxFaults
  BY <1>5, FaultKeepsType
<1>7. ProcessorType
  BY <1>1, <1>4, <1>5, <1>6, ProcessorsKeepType
<1>8. HandlerType
  BY <1>5, <1>6, HandlersKeepType
<1> QED
  BY <1>5, <1>7, <1>8, TypeFromParts DEF TypeInv, TypeOK

\* So does a receive.
LEMMA ReceiveKeepsType ==
    ASSUME TypeInv, NEW p \in Processors, NEW k \in QueueIndices, Receive(p, k)
    PROVE  TypeInv'
<1>1. queue \in Seq(Entries) /\ Len(queue) \in Nat
  BY QueueType DEF TypeInv
<1>2. k \in 1..Len(queue)
  BY <1>1, LenProperties DEF Receive
<1> DEFINE received == [queue[k] EXCEPT !.status = "hidden", !.receives = @ + 1]
<1>3. queue[k] \in Entries
  BY <1>1, <1>2, ElementOfSeq
<1>4. received \in Entries /\ received.callback = queue[k].callback
  BY <1>3, EntryReceived DEF Receive
<1>5. queue' = [queue EXCEPT ![k] = received]
  BY DEF Receive
<1>6. /\ queue' \in Seq(Entries) /\ Len(queue') = Len(queue)
      /\ \A i \in 1..Len(queue) : queue'[i].callback = queue[i].callback
  BY <1>1, <1>2, <1>4, <1>5, EntryChanged
<1>7. UNCHANGED <<messages, events, posts, acked, handlers, toFix, faults>>
  BY DEF Receive
<1>8. faults' \in 0..MaxFaults
  BY <1>7, FaultKeepsType
<1>9. ProcessorType
  <2>1. /\ ppc' \in [Processors -> {"idle", "update", "insert", "delete"}]
        /\ entry' \in [Processors -> 0..Len(queue')]
    BY <1>1, <1>2, <1>6 DEF Receive, TypeInv, TypeOK
  <2>2. /\ entry'[p] = k
        /\ ppc'[p] = "update" => Terminal(queue[k].callback)
        /\ \A q \in Processors : q # p => ppc'[q] = ppc[q] /\ entry'[q] = entry[q]
    BY DEF Receive, TypeInv, TypeOK
  <2>3. ASSUME NEW q \in Processors, ppc'[q] # "idle"
        PROVE  entry'[q] \in 1..Len(queue') /\ (ppc'[q] = "update" => Terminal(Callback(q))')
    <3>1. CASE q = p
      <4>1. Callback(p)' = queue[k].callback
        BY <1>2, <1>6, <2>2 DEF Callback
      <4> QED
        BY <1>2, <1>6, <2>2, <3>1, <4>1 DEF Terminal
    <3>2. CASE q # p
      <4>1. entry[q] \in 1..Len(queue) /\ Callback(q)' = Callback(q)
        BY <1>6, <2>2, <2>3, <3>2, EntryInHand DEF Callback
      <4> QED
        BY <1>6, <2>2, <3>2, <4>1 DEF TypeInv, HandInv, Terminal
    <3> QED
      BY <3>1, <3>2
  <2> QED
    BY <1>6, <1>8, <2>1, <2>3 DEF ProcessorType
<1>10. HandlerType
  BY <1>7, <1>8, HandlersKeepType
<1> QED
  BY <1>7, <1>9, <1>10, TypeFromParts DEF TypeInv, TypeOK

\* What the cron job selects for a row is the outcome of a stored callback of its sid.
LEMMA Selected ==
    ASSUME TypeOK, NEW m \in Messages, SelectToFix(m)
    PROVE  \E c \in Callbacks :
               /\ Stored(c) /\ Terminal(c) /\ HasSid(m, c)
               /\ toFix' = [toFix EXCEPT ![m] = NewState(Status[c])]
<1>1. PICK i \in LastTerminal(m) : toFix' = [toFix EXCEPT ![m] = NewState(Status[events[i]])]
  BY DEF SelectToFix
<1>2. i \in DOMAIN events /\ Terminal(events[i]) /\ HasSid(m, events[i])
  BY DEF LastTerminal, TerminalEvents
<1>3. events[i] \in Callbacks
  BY <1>2, ElementOfSeq, LenProperties DEF TypeOK
<1> QED
  BY <1>1, <1>2, <1>3 DEF Stored

\* And its UPDATE gives the row that outcome, or changes nothing.
LEMMA Fixed ==
    ASSUME TypeOK, NEW m \in Messages, UpdateToFix(m)
    PROVE  /\ messages' \in [Messages -> Rows]
           /\ messages'[m].sid = messages[m].sid
           /\ messages'[m].state = toFix[m] \/ UNCHANGED messages
           /\ \A n \in Messages \ {m} : messages'[n] = messages[n]
<1>1. messages[m] \in Rows /\ toFix[m] \in MessageStates /\ "provider_code" \in LastErrors
  BY DEF TypeOK, UpdateToFix, MessageStates, LastErrors
<1> DEFINE row == MarkMessageState(messages[m], toFix[m], "provider_code")
<1>2. row \in Rows /\ row.state = toFix[m] /\ row.sid = messages[m].sid
  BY <1>1, CallbackRows
<1>3. messages' = [messages EXCEPT ![m] = row] \/ UNCHANGED messages
  BY DEF UpdateToFix
<1> HIDE DEF row
<1> QED
  BY <1>2, <1>3 DEF TypeOK

\* A receive changes no entry's callback.
LEMMA ReceiveEntries ==
    ASSUME TypeInv, NEW p \in Processors, NEW k \in QueueIndices, Receive(p, k)
    PROVE  /\ Len(queue') = Len(queue)
           /\ \A i \in 1..Len(queue) : queue'[i].callback = queue[i].callback
<1>1. queue \in Seq(Entries)
  BY QueueType DEF TypeInv
<1>2. k \in 1..Len(queue) /\ queue[k] \in Entries
  BY <1>1, LenProperties, ElementOfSeq DEF Receive
<1> DEFINE received == [queue[k] EXCEPT !.status = "hidden", !.receives = @ + 1]
<1>3. received \in Entries /\ received.callback = queue[k].callback
  BY <1>2, EntryReceived DEF Receive
<1>4. queue' = [queue EXCEPT ![k] = received]
  BY DEF Receive
<1> QED
  BY <1>1, <1>2, <1>3, <1>4, EntryChanged

\* Every step keeps the types.
LEMMA TypeStep == TypeInv /\ [Next]_vars => TypeInv'
<1> SUFFICES ASSUME TypeInv, [Next]_vars PROVE TypeInv'
  OBVIOUS
<1>1. ASSUME UNCHANGED <<events, posts, acked, handlers, queue, processors>>,
             messages' \in [Messages -> Rows], faults' \in 0..MaxFaults,
             toFix' \in [Messages -> {"none", "delivered", "failed"}]
      PROVE  TypeInv'
  BY <1>1 DEF TypeInv, TypeOK, HandInv, handlers, processors, Callback, Terminal
<1>2. ASSUME NEW m \in Messages, SetDetails(m) PROVE TypeInv'
  <2>1. messages[m] \in Rows /\ SidOf[m] \in Nat
    BY CallbacksAssumption DEF TypeInv, TypeOK, NoSid
  <2>2. SetProviderDetails(messages[m], SidOf[m]) \in Rows
    BY <2>1, CallbackRows
  <2> QED
    BY <1>1, <1>2, <2>2 DEF SetDetails, TypeInv, TypeOK
<1>3. ASSUME NEW m \in Messages, Reconcile(m) PROVE TypeInv'
  <2>1. CASE SelectToFix(m)
    <3>1. PICK c \in Callbacks : Terminal(c) /\ toFix' = [toFix EXCEPT ![m] = NewState(Status[c])]
      BY <2>1, Selected DEF TypeInv
    <3> QED
      BY <1>1, <2>1, <3>1, TerminalStates DEF SelectToFix, TypeInv, TypeOK
  <2>2. CASE UpdateToFix(m)
    <3>1. messages' \in [Messages -> Rows]
      BY <2>2, Fixed DEF TypeInv
    <3>2. faults' \in 0..MaxFaults
      BY <2>2, FaultKeepsType DEF UpdateToFix
    <3> QED
      BY <1>1, <2>2, <3>1, <3>2 DEF UpdateToFix, TypeInv, TypeOK
  <2> QED
    BY <1>3, <2>1, <2>2 DEF Reconcile
<1>4. ASSUME NEW h \in Handlers, NEW c \in Callbacks, Post(h, c) PROVE TypeInv'
  <2>1. posts' \in [Callbacks -> 0..MaxPosts]
    <3>1. posts[c] + 1 \in 0..MaxPosts
      BY <1>4, CallbacksAssumption DEF Post, TypeInv, TypeOK
    <3> QED
      BY <1>4, <3>1 DEF Post, TypeInv, TypeOK
  <2>2. HandlerType
    BY <1>4 DEF Post, HandlerType, TypeInv, TypeOK, HandInv
  <2>3. ProcessorType
    BY <1>4, <2>2, HandlerStepType DEF Post
  <2> QED
    BY <1>4, <2>1, <2>2, <2>3, TypeFromParts DEF Post, TypeInv, TypeOK
<1>5. CASE UNCHANGED vars
  BY <1>1, <1>5 DEF vars, TypeInv, TypeOK
<1> QED
  BY <1>2, <1>3, <1>4, <1>5, HandleKeepsType, ProcessKeepsType, QueueKeepsType, ReceiveKeepsType
     DEF Next

\* The initial state is well typed.
LEMMA InitTypeInv == Init => TypeInv
<1> SUFFICES ASSUME Init PROVE TypeInv
  OBVIOUS
<1>1. ClaimMessage(InsertMessage(AbsentRow)) \in Rows
  BY DEF ClaimMessage, InsertMessage, AbsentRow, Rows, MessageStates, LastErrors, NoSid
<1>2. <<>> \in Seq(Callbacks) /\ <<>> \in Seq(Entries) /\ Len(<<>>) = 0
  BY EmptySeq
<1> QED
  BY <1>1, <1>2, CallbacksAssumption DEF Init, TypeInv, TypeOK, HandInv, Entries

\* Whatever is posted, lost, repeated and redelivered, every variable of
\* StatusCallbacks keeps its type.
THEOREM Typing == Spec => []TypeOK
<1>1. TypeInv => TypeOK
  BY DEF TypeInv
<1> QED
  BY <1>1, InitTypeInv, TypeStep, PTL DEF Spec

-----------------------------------------------------------------------------
(* What is stored, applied or queued stays so. *)

\* What is in hand, queued or stored was posted.
Posted(c) == posts[c] > 0

PostedInv ==
    /\ \A h \in Handlers : pc[h] # "idle" => Posted(handled[h])
    /\ \A k \in 1..Len(queue) : Posted(queue[k].callback)
    /\ \A c \in Callbacks : Stored(c) => Posted(c)

\* What the cron job is about to write is a stored outcome of the sid of a row that
\* keeps it.
FixInv ==
    \A m \in Messages : toFix[m] # "none" =>
        /\ messages[m].state # "processing"
        /\ \E c \in Callbacks : /\ Stored(c) /\ Terminal(c) /\ HasSid(m, c)
                                /\ NewState(Status[c]) = toFix[m]

SourceInv == PostedInv /\ FixInv

\* Callbacks are only posted, events and entries only added, and a row with a
\* reported outcome keeps its sid and has one afterwards.
Grows ==
    /\ \A c \in Callbacks : /\ Posted(c) => Posted(c)'
                            /\ Stored(c) => Stored(c)'
                            /\ Applied(c) => Applied(c)'
    /\ \A k \in 1..Len(queue) : k \in 1..Len(queue') /\ queue'[k].callback = queue[k].callback

\* An event that is appended is stored, and the others stay.
LEMMA StoredGrows ==
    ASSUME events \in Seq(Callbacks), NEW c \in Callbacks, events' = Append(events, c)
    PROVE  /\ Stored(c)'
           /\ \A d \in Callbacks : /\ Stored(d) => Stored(d)'
                                   /\ Stored(d)' => Stored(d) \/ d = c
<1>1. /\ events' \in Seq(Callbacks) /\ Len(events') = Len(events) + 1
      /\ \A i \in 1..Len(events) : events'[i] = events[i]
      /\ events'[Len(events) + 1] = c
  BY AppendProperties
<1>2. /\ Len(events) \in Nat /\ DOMAIN events = 1..Len(events)
      /\ DOMAIN events' = 1..Len(events) + 1
  BY <1>1, LenProperties
<1>3. \A d \in Callbacks : Stored(d) => Stored(d)'
  BY <1>1, <1>2 DEF Stored
<1>4. Stored(c)'
  BY <1>1, <1>2 DEF Stored
<1>5. ASSUME NEW d \in Callbacks, Stored(d)' PROVE Stored(d) \/ d = c
  <2>1. PICK i \in 1..Len(events) + 1 : events'[i] = d
    BY <1>2, <1>5 DEF Stored
  <2> QED
    BY <1>1, <1>2, <2>1 DEF Stored
<1> QED
  BY <1>3, <1>4, <1>5

\* A callback that was posted stays posted.
LEMMA PostedGrows == TypeInv /\ [Next]_vars => \A c \in Callbacks : Posted(c) => Posted(c)'
<1> SUFFICES ASSUME TypeInv, [Next]_vars, NEW c \in Callbacks, Posted(c) PROVE Posted(c)'
  OBVIOUS
<1>1. posts \in [Callbacks -> 0..MaxPosts]
  BY DEF TypeInv, TypeOK
<1>2. ASSUME NEW h \in Handlers, NEW d \in Callbacks, Post(h, d) PROVE Posted(c)'
  BY <1>1, <1>2 DEF Post, Posted
<1>3. CASE UNCHANGED posts
  BY <1>3 DEF Posted
<1> QED
  BY <1>2, <1>3
     DEF Next, vars, SetDetails, Reconcile, SelectToFix, UpdateToFix, Handle, EnqueueEvent,
     InsertDeliveryEvent, UpdateMessage, CrashHandler, Receive, Reappear, RedriveEvent,
     ProcessWebhookEvent, ProcessUpdate, ProcessInsert, DeleteEvent, CrashProcessor

\* A row with a reported outcome is settled.
LEMMA ReportedIsSettled == ASSUME NEW m \in Messages, Reported(m) PROVE Settled(m)
  BY TerminalStates DEF Reported, Settled

\* A step that keeps the sid of a row, and its state or gives it a reported outcome.
LEMMA ReportedGrows ==
    ASSUME \A c \in Callbacks : Posted(c) => Posted(c)',
           NEW m \in Messages, messages'[m].sid = messages[m].sid,
           \/ Reported(m) /\ messages'[m].state = messages[m].state
           \/ \E c \in Callbacks : /\ Posted(c) /\ HasSid(m, c) /\ Terminal(c)
                                   /\ messages'[m].state = NewState(Status[c])
    PROVE  Reported(m)'
<1>1. PICK c \in Callbacks : /\ Posted(c) /\ HasSid(m, c) /\ Terminal(c)
                             /\ messages'[m].state = NewState(Status[c])
  BY DEF Reported, Posted
<1> QED
  BY <1>1 DEF Reported, Posted, HasSid, Terminal

\* And so no callback is unapplied.
LEMMA AppliedGrows ==
    ASSUME \A m \in Messages :
               Reported(m) => Reported(m)' /\ messages'[m].sid = messages[m].sid
    PROVE  \A c \in Callbacks : Applied(c) => Applied(c)'
  BY DEF Applied, HasSid

\* The UPDATE by provider_msg_id of a posted callback unsettles nothing, and applies
\* its callback when it finds a row.
LEMMA UpdateApplies ==
    ASSUME TypeInv, [Next]_vars, NEW c \in Callbacks, Terminal(c), Posted(c),
           messages' = UpdateMessageByProviderMsgID(c)
    PROVE  /\ \A m \in Messages :
                  Reported(m) => Reported(m)' /\ messages'[m].sid = messages[m].sid
           /\ Found(c) => Applied(c)'
<1>1. \A m \in Messages :
          /\ messages'[m].sid = messages[m].sid
          /\ ~HasSid(m, c) => messages'[m] = messages[m]
          /\ HasSid(m, c) => messages'[m].state = NewState(Status[c])
  BY UpdateRows DEF TypeInv
<1>2. \A m \in Messages : Reported(m) \/ HasSid(m, c) => Reported(m)'
  BY <1>1, PostedGrows, ReportedGrows
<1> QED
  BY <1>1, <1>2 DEF Found, Applied, HasSid

\* No step forgets anything.
LEMMA StepGrows == TypeInv /\ SourceInv /\ [Next]_vars => Grows
<1> SUFFICES ASSUME TypeInv, SourceInv, [Next]_vars PROVE Grows
  OBVIOUS
<1>1. queue \in Seq(Entries) /\ Len(queue) \in Nat /\ events \in Seq(Callbacks)
  BY QueueType DEF TypeInv, TypeOK
<1>p. \A c \in Callbacks : Posted(c) => Posted(c)'
  BY PostedGrows
<1>a. UNCHANGED events => \A c \in Callbacks : Stored(c) => Stored(c)'
  BY DEF Stored
<1>b. UNCHANGED messages => \A c \in Callbacks : Applied(c) => Applied(c)'
  BY <1>p, ReportedGrows, AppliedGrows
<1>c. UNCHANGED queue => \A k \in 1..Len(queue) : /\ k \in 1..Len(queue')
                                                 /\ queue'[k].callback = queue[k].callback
  OBVIOUS
<1>2. ASSUME NEW m \in Messages, SetDetails(m) PROVE Grows
  <2>1. ~Settled(m) /\ \A n \in Messages \ {m} : messages'[n] = messages[n]
    BY <1>2 DEF SetDetails, Settled, TypeInv, TypeOK
  <2>2. \A c \in Callbacks : Applied(c) => Applied(c)'
    BY <1>p, <2>1, ReportedIsSettled, ReportedGrows, AppliedGrows
  <2> QED
    BY <1>2, <1>p, <1>a, <1>c, <2>2 DEF SetDetails, Grows
<1>3. ASSUME NEW m \in Messages, Reconcile(m) PROVE Grows
  <2>1. CASE SelectToFix(m)
    BY <1>p, <1>a, <1>b, <1>c, <2>1 DEF SelectToFix, Grows
  <2>2. CASE UpdateToFix(m)
    <3>1. /\ messages'[m].sid = messages[m].sid
          /\ messages'[m].state = toFix[m] \/ UNCHANGED messages
          /\ \A n \in Messages \ {m} : messages'[n] = messages[n]
      BY <2>2, Fixed DEF TypeInv
    <3>2. PICK c \in Callbacks : /\ Posted(c) /\ Terminal(c) /\ HasSid(m, c)
                                 /\ NewState(Status[c]) = toFix[m]
      BY <2>2 DEF UpdateToFix, SourceInv, FixInv, PostedInv
    <3>3. Reported(m) => Reported(m)'
      BY <1>p, <3>1, <3>2, ReportedGrows
    <3>4. \A n \in Messages : Reported(n) => Reported(n)' /\ messages'[n].sid = messages[n].sid
      BY <1>p, <3>1, <3>3, ReportedGrows
    <3>5. \A d \in Callbacks : Applied(d) => Applied(d)'
      BY <3>4, AppliedGrows
    <3> QED
      BY <1>p, <1>a, <1>c, <2>2, <3>5 DEF UpdateToFix, Grows
  <2> QED
    BY <1>3, <2>1, <2>2 DEF Reconcile
<1>4. ASSUME NEW h \in Handlers, Handle(h) \/ CrashHandler(h) PROVE Grows
  <2>1. handled[h] \in Callbacks /\ Posted(handled[h])
    BY <1>4 DEF Handle, EnqueueEvent, InsertDeliveryEvent, UpdateMessage, CrashHandler,
       TypeInv, HandInv, SourceInv, PostedInv
  <2>2. \A c \in Callbacks : Stored(c) => Stored(c)'
    BY <1>1, <1>4, <1>a, <2>1, StoredGrows
       DEF Handle, EnqueueEvent, InsertDeliveryEvent, UpdateMessage, CrashHandler
  <2>3. \A c \in Callbacks : Applied(c) => Applied(c)'
    <3>1. CASE UpdateMessage(h) /\ messages' = UpdateMessageByProviderMsgID(handled[h])
      BY <2>1, <3>1, UpdateApplies, AppliedGrows DEF UpdateMessage, TypeInv, HandInv
    <3> QED
      BY <1>4, <1>b, <3>1
         DEF Handle, EnqueueEvent, InsertDeliveryEvent, UpdateMessage, CrashHandler
  <2>4. \A k \in 1..Len(queue) : k \in 1..Len(queue') /\ queue'[k].callback = queue[k].callback
    <3>1. CASE queue' = Append(queue, [callback |-> handled[h], status |-> "visible",
                                       receives |-> 0])
      BY <1>1, <2>1, <3>1, EntryAdded
    <3> QED
      BY <1>4, <1>c, <3>1
         DEF Handle, EnqueueEvent, InsertDeliveryEvent, UpdateMessage, CrashHandler
  <2> QED
    BY <1>p, <2>2, <2>3, <2>4 DEF Grows
<1>5. ASSUME NEW p \in Processors, ProcessWebhookEvent(p) \/ CrashProcessor(p) PROVE Grows
  <2>1. Callback(p) \in Callbacks /\ entry[p] \in 1..Len(queue) /\ Posted(Callback(p))
    BY <1>5, EntryInHand
       DEF ProcessWebhookEvent, ProcessUpdate, ProcessInsert, DeleteEvent, CrashProcessor,
       SourceInv, PostedInv, Callback
  <2>2. \A c \in Callbacks : Stored(c) => Stored(c)'
    BY <1>1, <1>5, <1>a, <2>1, StoredGrows
       DEF ProcessWebhookEvent, ProcessUpdate, ProcessInsert, DeleteEvent, CrashProcessor, Callback
  <2>3. \A c \in Callbacks : Applied(c) => Applied(c)'
    <3>1. CASE ProcessUpdate(p) /\ messages' = UpdateMessageByProviderMsgID(Callback(p))
      BY <2>1, <3>1, UpdateApplies, AppliedGrows DEF ProcessUpdate, TypeInv, HandInv
    <3> QED
      BY <1>5, <1>b, <3>1 DEF ProcessWebhookEvent, ProcessUpdate, ProcessInsert, DeleteEvent,
         CrashProcessor, Callback
  <2>4. \A k \in 1..Len(queue) : k \in 1..Len(queue') /\ queue'[k].callback = queue[k].callback
    <3>1. CASE queue' = [queue EXCEPT ![entry[p]].status = "deleted"]
      BY <1>1, <2>1, <3>1, EntryMoved
    <3> QED
      BY <1>5, <1>c, <3>1
         DEF ProcessWebhookEvent, ProcessUpdate, ProcessInsert, DeleteEvent, CrashProcessor
  <2> QED
    BY <1>p, <2>2, <2>3, <2>4 DEF Grows
<1>6. ASSUME NEW k \in QueueIndices, Reappear(k) \/ RedriveEvent(k) PROVE Grows
  <2>1. k \in 1..Len(queue)
    BY <1>1, <1>6, LenProperties DEF Reappear, RedriveEvent
  <2>2. \A i \in 1..Len(queue) : i \in 1..Len(queue') /\ queue'[i].callback = queue[i].callback
    BY <1>1, <1>6, <2>1, EntryMoved DEF Reappear, RedriveEvent
  <2> QED
    BY <1>6, <1>p, <1>a, <1>b, <2>2 DEF Reappear, RedriveEvent, Grows
<1>7. ASSUME NEW p \in Processors, NEW k \in QueueIndices, Receive(p, k) PROVE Grows
  <2>1. \A i \in 1..Len(queue) : i \in 1..Len(queue') /\ queue'[i].callback = queue[i].callback
    BY <1>7, ReceiveEntries
  <2> QED
    BY <1>7, <1>p, <1>a, <1>b, <2>1 DEF Receive, Grows
<1>8. ASSUME NEW h \in Handlers, NEW c \in Callbacks, Post(h, c) PROVE Grows
  BY <1>8, <1>p, <1>a, <1>b, <1>c DEF Post, Grows
<1>9. CASE UNCHANGED vars
  BY <1>9, <1>p, <1>a, <1>b, <1>c DEF vars, Grows
<1> QED
  BY <1>2, <1>3, <1>4, <1>5, <1>6, <1>7, <1>8, <1>9 DEF Next

\* What comes into hand, into the queue or into the table was posted.
LEMMA PostedStep == TypeInv /\ SourceInv /\ [Next]_vars => PostedInv'
<1> SUFFICES ASSUME TypeInv, SourceInv, [Next]_vars PROVE PostedInv'
  OBVIOUS
<1>0. /\ queue \in Seq(Entries) /\ Len(queue) \in Nat /\ events \in Seq(Callbacks)
      /\ Grows /\ PostedInv
  BY QueueType, StepGrows DEF TypeInv, TypeOK, SourceInv
<1>q. ASSUME NEW k \in 1..Len(queue) PROVE queue[k].callback \in Callbacks
  <2>1. queue[k] \in Entries
    BY <1>0, ElementOfSeq
  <2> QED
    BY <2>1 DEF Entries
<1>1. /\ queue \in Seq(Entries) /\ Len(queue) \in Nat /\ events \in Seq(Callbacks)
      /\ Grows /\ PostedInv
      /\ \A k \in 1..Len(queue) : queue[k].callback \in Callbacks
  BY <1>0, <1>q
<1>2. UNCHANGED handlers => \A h \in Handlers : pc'[h] # "idle" => Posted(handled[h])'
  BY <1>1 DEF handlers, PostedInv, Grows, Posted, TypeInv, HandInv
<1>3. UNCHANGED events => \A c \in Callbacks : Stored(c)' => Posted(c)'
  BY <1>1 DEF PostedInv, Grows, Stored
<1>4. Len(queue') = Len(queue) => \A k \in 1..Len(queue') : Posted(queue[k].callback)'
  BY <1>1 DEF PostedInv, Grows, Posted
<1>5. ASSUME NEW h \in Handlers, NEW c \in Callbacks, Post(h, c) PROVE PostedInv'
  <2>1. posts'[c] > 0 /\ UNCHANGED <<events, queue>>
    BY <1>5 DEF Post, TypeInv, TypeOK
  <2>2. \A g \in Handlers : pc'[g] # "idle" => Posted(handled[g])'
    BY <1>1, <1>5, <2>1 DEF Post, TypeInv, TypeOK, HandInv, PostedInv, Grows, Posted
  <2> QED
    BY <1>3, <1>4, <2>1, <2>2 DEF PostedInv
<1>6. ASSUME NEW h \in Handlers, Handle(h) \/ CrashHandler(h) PROVE PostedInv'
  <2>a. pc[h] # "idle" /\ UNCHANGED posts
    BY <1>6 DEF Handle, EnqueueEvent, InsertDeliveryEvent, UpdateMessage, CrashHandler
  <2>1. handled[h] \in Callbacks /\ Posted(handled[h]) /\ posts'[handled[h]] > 0 /\ pc[h] # "idle"
    BY <1>1, <2>a DEF TypeInv, HandInv, PostedInv, Posted
  <2>2. ASSUME NEW g \in Handlers, pc'[g] # "idle"
        PROVE  pc[g] # "idle" /\ handled'[g] = handled[g]
    <3>1. CASE Leave(h)
      BY <2>2, <3>1 DEF Leave, TypeInv, TypeOK
    <3>2. CASE UNCHANGED handled /\ \A f \in Handlers : f # h => pc'[f] = pc[f]
      BY <2>1, <2>2, <3>2
    <3> QED
      BY <1>6, <3>1, <3>2 DEF Handle, EnqueueEvent, InsertDeliveryEvent, UpdateMessage,
         CrashHandler, Accept, Reject, TypeInv, TypeOK
  <2>3. \A g \in Handlers : pc'[g] # "idle" => Posted(handled[g])'
    BY <1>1, <2>2 DEF PostedInv, Grows, Posted, TypeInv, HandInv
  <2>4. \A c \in Callbacks : Stored(c)' => Posted(c)'
    <3>1. CASE events' = Append(events, handled[h])
      BY <1>1, <2>1, <3>1, StoredGrows DEF PostedInv, Grows, Posted
    <3> QED
      BY <1>3, <1>6, <3>1
         DEF Handle, EnqueueEvent, InsertDeliveryEvent, UpdateMessage, CrashHandler
  <2>5. \A k \in 1..Len(queue') : Posted(queue[k].callback)'
    <3>1. CASE queue' = Append(queue, [callback |-> handled[h], status |-> "visible",
                                       receives |-> 0])
      <4>1. /\ Len(queue') = Len(queue) + 1 /\ queue'[Len(queue')].callback = handled[h]
            /\ \A k \in 1..Len(queue) : queue'[k] = queue[k]
        BY <1>1, <2>1, <3>1, EntryAdded
      <4> QED
        BY <1>1, <2>1, <4>1 DEF PostedInv, Grows, Posted
    <3> QED
      BY <1>4, <1>6, <3>1
         DEF Handle, EnqueueEvent, InsertDeliveryEvent, UpdateMessage, CrashHandler
  <2> QED
    BY <2>3, <2>4, <2>5 DEF PostedInv
<1>7. ASSUME NEW p \in Processors, ProcessWebhookEvent(p) \/ CrashProcessor(p) PROVE PostedInv'
  <2>1. Callback(p) \in Callbacks /\ entry[p] \in 1..Len(queue) /\ Posted(Callback(p))
    BY <1>1, <1>7, EntryInHand
       DEF ProcessWebhookEvent, ProcessUpdate, ProcessInsert, DeleteEvent, CrashProcessor,
       PostedInv, Callback
  <2>2. UNCHANGED handlers
    BY <1>7 DEF ProcessWebhookEvent, ProcessUpdate, ProcessInsert, DeleteEvent, CrashProcessor
  <2>3. \A c \in Callbacks : Stored(c)' => Posted(c)'
    <3>1. CASE events' = Append(events, Callback(p))
      BY <1>1, <2>1, <3>1, StoredGrows DEF PostedInv, Grows
    <3> QED
      BY <1>3, <1>7, <3>1 DEF ProcessWebhookEvent, ProcessUpdate, ProcessInsert, DeleteEvent,
         CrashProcessor, Callback
  <2>4. Len(queue') = Len(queue)
    <3>1. CASE queue' = [queue EXCEPT ![entry[p]].status = "deleted"]
      BY <1>1, <2>1, <3>1, EntryMoved
    <3> QED
      BY <1>7, <3>1
         DEF ProcessWebhookEvent, ProcessUpdate, ProcessInsert, DeleteEvent, CrashProcessor
  <2> QED
    BY <1>2, <1>4, <2>2, <2>3, <2>4 DEF PostedInv
<1>8. ASSUME NEW k \in QueueIndices, Reappear(k) \/ RedriveEvent(k) PROVE PostedInv'
  <2>1. k \in 1..Len(queue)
    BY <1>1, <1>8, LenProperties DEF Reappear, RedriveEvent
  <2>2. Len(queue') = Len(queue)
    BY <1>1, <1>8, <2>1, EntryMoved DEF Reappear, RedriveEvent
  <2> QED
    BY <1>2, <1>3, <1>4, <1>8, <2>2 DEF Reappear, RedriveEvent, PostedInv
<1>9. ASSUME NEW p \in Processors, NEW k \in QueueIndices, Receive(p, k) PROVE PostedInv'
  <2>1. Len(queue') = Len(queue)
    BY <1>9, ReceiveEntries
  <2> QED
    BY <1>2, <1>3, <1>4, <1>9, <2>1 DEF Receive, PostedInv
<1>10. CASE UNCHANGED <<events, handlers, queue>>
  BY <1>2, <1>3, <1>4, <1>10 DEF PostedInv
<1> QED
  BY <1>5, <1>6, <1>7, <1>8, <1>9, <1>10
     DEF Next, vars, SetDetails, Reconcile, SelectToFix, UpdateToFix

\* A row that is not the worker's any more keeps its sid: what the cron job is about
\* to write stays an outcome stored of it.
LEMMA FixKept ==
    ASSUME FixInv, \A c \in Callbacks : Stored(c) => Stored(c)',
           NEW m \in Messages, toFix'[m] # "none", toFix'[m] = toFix[m],
           messages'[m].sid = messages[m].sid,
           messages'[m].state = messages[m].state \/ messages'[m].state # "processing"
    PROVE  /\ messages'[m].state # "processing"
           /\ \E c \in Callbacks : /\ Stored(c)' /\ Terminal(c)' /\ HasSid(m, c)'
                                   /\ NewState(Status[c]) = toFix'[m]
<1>1. PICK c \in Callbacks : /\ Stored(c) /\ Terminal(c) /\ HasSid(m, c)
                             /\ NewState(Status[c]) = toFix[m]
  BY DEF FixInv
<1>2. messages[m].state # "processing"
  BY DEF FixInv
<1> QED
  BY <1>1, <1>2 DEF HasSid, Terminal

\* The UPDATE by provider_msg_id gives no row back to a worker.
LEMMA UpdateKeepsFix ==
    ASSUME TypeInv, NEW c \in Callbacks, Terminal(c), NEW m \in Messages,
           messages' = UpdateMessageByProviderMsgID(c)
    PROVE  /\ messages'[m].sid = messages[m].sid
           /\ messages'[m].state = messages[m].state \/ messages'[m].state # "processing"
<1>1. /\ messages'[m].sid = messages[m].sid
      /\ ~HasSid(m, c) => messages'[m] = messages[m]
      /\ HasSid(m, c) => messages'[m].state = NewState(Status[c])
  BY UpdateRows DEF TypeInv
<1> QED
  BY <1>1, TerminalStates

\* Every step keeps it so.
LEMMA FixStep == TypeInv /\ SourceInv /\ [Next]_vars => FixInv'
<1> SUFFICES ASSUME TypeInv, SourceInv, [Next]_vars PROVE FixInv'
  OBVIOUS
<1>1. /\ FixInv /\ \A c \in Callbacks : Stored(c) => Stored(c)'
      /\ toFix \in [Messages -> {"none", "delivered", "failed"}]
      /\ messages \in [Messages -> Rows]
  BY StepGrows DEF SourceInv, Grows, TypeInv, TypeOK
<1>2. ASSUME UNCHANGED toFix,
             \A m \in Messages : toFix[m] # "none" =>
                 /\ messages'[m].sid = messages[m].sid
                 /\ messages'[m].state = messages[m].state \/ messages'[m].state # "processing"
      PROVE  FixInv'
  BY <1>1, <1>2, FixKept DEF FixInv
<1>3. ASSUME NEW m \in Messages, SetDetails(m) PROVE FixInv'
  <2>1. toFix[m] = "none" /\ \A n \in Messages \ {m} : messages'[n] = messages[n]
    BY <1>1, <1>3 DEF SetDetails, FixInv
  <2> QED
    BY <1>2, <1>3, <2>1 DEF SetDetails
<1>4. ASSUME NEW m \in Messages, SelectToFix(m) PROVE FixInv'
  <2>1. PICK c \in Callbacks : /\ Stored(c) /\ Terminal(c) /\ HasSid(m, c)
                               /\ toFix' = [toFix EXCEPT ![m] = NewState(Status[c])]
    BY <1>4, Selected DEF TypeInv
  <2>2. UNCHANGED <<messages, events>> /\ messages[m].state = "submitted"
    BY <1>4 DEF SelectToFix
  <2>3. /\ messages'[m].state # "processing"
        /\ \E d \in Callbacks : /\ Stored(d)' /\ Terminal(d)' /\ HasSid(m, d)'
                                /\ NewState(Status[d]) = toFix'[m]
    BY <1>1, <2>1, <2>2 DEF Stored, Terminal, HasSid
  <2>4. \A n \in Messages \ {m} : toFix'[n] = toFix[n]
    BY <1>1, <2>1
  <2> QED
    BY <1>1, <2>2, <2>3, <2>4, FixKept DEF FixInv
<1>5. ASSUME NEW m \in Messages, UpdateToFix(m) PROVE FixInv'
  <2>1. toFix'[m] = "none" /\ \A n \in Messages \ {m} : toFix'[n] = toFix[n]
    BY <1>1, <1>5 DEF UpdateToFix
  <2>2. \A n \in Messages \ {m} : messages'[n] = messages[n]
    BY <1>5, Fixed DEF TypeInv
  <2> QED
    BY <1>1, <2>1, <2>2, FixKept DEF FixInv
<1>6. ASSUME NEW h \in Handlers, UpdateMessage(h) PROVE FixInv'
  <2>1. handled[h] \in Callbacks /\ Terminal(handled[h])
    BY <1>6 DEF UpdateMessage, TypeInv, HandInv
  <2>2. UNCHANGED toFix /\ (UNCHANGED messages \/ messages' = UpdateMessageByProviderMsgID(handled[h]))
    BY <1>6 DEF UpdateMessage
  <2> QED
    BY <1>2, <2>1, <2>2, UpdateKeepsFix
<1>7. ASSUME NEW p \in Processors, ProcessUpdate(p) PROVE FixInv'
  <2>1. Callback(p) \in Callbacks /\ Terminal(Callback(p))
    BY <1>7, EntryInHand DEF ProcessUpdate, TypeInv, HandInv
  <2>2. UNCHANGED toFix /\ (UNCHANGED messages \/ messages' = UpdateMessageByProviderMsgID(Callback(p)))
    BY <1>7 DEF ProcessUpdate, Callback
  <2> QED
    BY <1>2, <2>1, <2>2, UpdateKeepsFix
<1>8. CASE UNCHANGED <<messages, toFix>>
  BY <1>2, <1>8
<1> QED
  BY <1>3, <1>4, <1>5, <1>6, <1>7, <1>8
     DEF Next, vars, Reconcile, Post, Handle, EnqueueEvent, InsertDeliveryEvent, CrashHandler,
     Receive, Reappear, RedriveEvent, ProcessWebhookEvent, ProcessInsert, DeleteEvent,
     CrashProcessor

\* Initially nothing is posted, and the cron job has nothing to write.
LEMMA InitSource == Init => SourceInv
<1> SUFFICES ASSUME Init PROVE SourceInv
  OBVIOUS
<1>1. Len(queue) = 0 /\ DOMAIN events = {}
  BY EmptySeq DEF Init
<1>2. PostedInv
  BY <1>1 DEF Init, PostedInv, Stored
<1>3. FixInv
  BY DEF Init, FixInv
<1> QED
  BY <1>2, <1>3 DEF SourceInv

\* Every step keeps what callbacks and the cron job work from.
LEMMA SourceStep == TypeInv /\ SourceInv /\ [Next]_vars => SourceInv'
  BY PostedStep, FixStep DEF SourceInv

-----------------------------------------------------------------------------
(* Who may do what: the only steps that matter to a callback on its way. *)

\* A handler is at its UPDATE because it was, or because it has just stored its event.
LEMMA HandlerMoves ==
    ASSUME TypeInv, [Next]_vars, NEW h \in Handlers, pc'[h] = "update"
    PROVE  /\ handled'[h] = handled[h] /\ handled[h] \in Callbacks
           /\ pc[h] = "update" \/ events' = Append(events, handled[h])
<1> DEFINE Goal == /\ handled'[h] = handled[h] /\ handled[h] \in Callbacks
                   /\ pc[h] = "update" \/ events' = Append(events, handled[h])
<1>1. pc \in [Handlers -> {"idle", "enqueue", "insert", "update"}]
      /\ handled \in [Handlers -> Callbacks \cup {NoCallback}]
      /\ \A g \in Handlers : pc[g] # "idle" => handled[g] \in Callbacks
  BY DEF TypeInv, TypeOK, HandInv
<1>2. ASSUME UNCHANGED handlers PROVE Goal
  BY <1>1, <1>2 DEF handlers
<1>3. ASSUME NEW g \in Handlers, NEW c \in Callbacks, Post(g, c) PROVE Goal
  BY <1>1, <1>3 DEF Post
<1>4. ASSUME NEW g \in Handlers, Leave(g) PROVE Goal
  BY <1>1, <1>4 DEF Leave
<1>5. ASSUME NEW g \in Handlers, Handle(g) \/ CrashHandler(g) PROVE Goal
  <2>1. CASE InsertDeliveryEvent(g)
    BY <1>1, <1>4, <2>1 DEF InsertDeliveryEvent, Accept, Reject
  <2>2. CASE UpdateMessage(g)
    BY <1>1, <1>4, <2>2 DEF UpdateMessage, Accept, Reject
  <2> QED
    BY <1>4, <1>5, <2>1, <2>2 DEF Handle, EnqueueEvent, CrashHandler, Accept, Reject
<1> QED
  BY <1>2, <1>3, <1>5
     DEF Next, vars, SetDetails, Reconcile, SelectToFix, UpdateToFix, Receive, Reappear,
     RedriveEvent, ProcessWebhookEvent, ProcessUpdate, ProcessInsert, DeleteEvent, CrashProcessor

\* A processor is where it was, or it has gone one call further, or it has just
\* received an entry.
LEMMA ProcessorMoves ==
    ASSUME TypeInv, [Next]_vars, NEW p \in Processors, ppc'[p] # "idle"
    PROVE  \/ ppc'[p] = ppc[p] /\ entry'[p] = entry[p]
           \/ /\ ppc[p] = "update" /\ ppc'[p] = "insert" /\ entry'[p] = entry[p]
              /\ Found(Callback(p)) /\ messages' = UpdateMessageByProviderMsgID(Callback(p))
           \/ /\ ppc[p] = "insert" /\ ppc'[p] = "delete" /\ entry'[p] = entry[p]
              /\ events' = Append(events, Callback(p))
           \/ /\ entry'[p] \in 1..Len(queue)
              /\ ppc'[p] = IF Terminal(queue[entry'[p]].callback) THEN "update" ELSE "insert"
<1> DEFINE Goal ==
        \/ ppc'[p] = ppc[p] /\ entry'[p] = entry[p]
        \/ /\ ppc[p] = "update" /\ ppc'[p] = "insert" /\ entry'[p] = entry[p]
           /\ Found(Callback(p)) /\ messages' = UpdateMessageByProviderMsgID(Callback(p))
        \/ /\ ppc[p] = "insert" /\ ppc'[p] = "delete" /\ entry'[p] = entry[p]
           /\ events' = Append(events, Callback(p))
        \/ /\ entry'[p] \in 1..Len(queue)
           /\ ppc'[p] = IF Terminal(queue[entry'[p]].callback) THEN "update" ELSE "insert"
<1>1. /\ ppc \in [Processors -> {"idle", "update", "insert", "delete"}]
      /\ entry \in [Processors -> 0..Len(queue)]
      /\ DOMAIN queue = 1..Len(queue)
  BY LenProperties DEF TypeInv, TypeOK
<1>2. ASSUME UNCHANGED processors PROVE Goal
  BY <1>2 DEF processors
<1>3. ASSUME NEW q \in Processors, Drop(q) PROVE Goal
  BY <1>1, <1>3 DEF Drop
<1>4. ASSUME NEW q \in Processors, ProcessWebhookEvent(q) \/ CrashProcessor(q) PROVE Goal
  <2>1. CASE ProcessUpdate(q)
    BY <1>1, <1>3, <2>1 DEF ProcessUpdate, Callback
  <2>2. CASE ProcessInsert(q)
    BY <1>1, <1>3, <2>2 DEF ProcessInsert, Callback
  <2> QED
    BY <1>3, <1>4, <2>1, <2>2 DEF ProcessWebhookEvent, DeleteEvent, CrashProcessor
<1>5. ASSUME NEW q \in Processors, NEW k \in QueueIndices, Receive(q, k) PROVE Goal
  BY <1>1, <1>5 DEF Receive
<1> QED
  BY <1>2, <1>4, <1>5
     DEF Next, vars, SetDetails, Reconcile, SelectToFix, UpdateToFix, Post, Handle,
     EnqueueEvent, InsertDeliveryEvent,
     UpdateMessage, CrashHandler, Reappear, RedriveEvent

\* A callback is answered 2xx only once it is queued, or stored and, if terminal,
\* applied.
LEMMA AckMoves ==
    ASSUME TypeInv, [Next]_vars, NEW c \in acked' \ acked
    PROVE  \E h \in Handlers :
               /\ handled[h] = c /\ c \in Callbacks
               /\ \/ /\ pc[h] = "enqueue"
                     /\ queue' = Append(queue, [callback |-> c, status |-> "visible", receives |-> 0])
                  \/ ~Terminal(c) /\ events' = Append(events, c)
                  \/ pc[h] = "update" /\ Found(c) /\ messages' = UpdateMessageByProviderMsgID(c)
<1>1. \A h \in Handlers : pc[h] # "idle" => handled[h] \in Callbacks
  BY DEF TypeInv, HandInv
<1>2. PICK h \in Handlers : Handle(h)
  BY DEF Next, vars, SetDetails, Reconcile, SelectToFix, UpdateToFix, Post, CrashHandler,
     Reject, Receive, Reappear,
     RedriveEvent, ProcessWebhookEvent, ProcessUpdate, ProcessInsert, DeleteEvent, CrashProcessor
<1>3. Accept(h) /\ handled[h] = c
  BY <1>2 DEF Handle, EnqueueEvent, InsertDeliveryEvent, UpdateMessage, Accept, Reject
<1>4. pc'[h] = "idle"
  BY <1>3 DEF Accept, Leave, TypeInv, TypeOK
<1>5. CASE EnqueueEvent(h)
  BY <1>1, <1>3, <1>5 DEF EnqueueEvent, Reject
<1>6. CASE InsertDeliveryEvent(h)
  BY <1>1, <1>3, <1>6 DEF InsertDeliveryEvent, Reject
<1>7. CASE UpdateMessage(h)
  BY <1>1, <1>3, <1>7 DEF UpdateMessage, Reject
<1> QED
  BY <1>2, <1>5, <1>6, <1>7 DEF Handle

\* An entry is deleted only by a processor that holds it and has stored its event.
LEMMA DeleteMoves ==
    ASSUME TypeInv, [Next]_vars, NEW k \in 1..Len(queue),
           queue[k].status # "deleted", queue'[k].status = "deleted"
    PROVE  \E p \in Processors : ppc[p] = "delete" /\ entry[p] = k
<1>1. queue \in Seq(Entries) /\ Len(queue) \in Nat /\ DOMAIN queue = 1..Len(queue)
  BY QueueType DEF TypeInv
<1>2. queue' # queue
  OBVIOUS
<1>3. ASSUME NEW h \in Handlers, EnqueueEvent(h) PROVE FALSE
  <2>1. handled[h] \in Callbacks
    BY <1>3 DEF EnqueueEvent, TypeInv, HandInv
  <2>2. queue'[k] = queue[k]
    BY <1>1, <1>2, <1>3, <2>1, EntryAdded DEF EnqueueEvent
  <2> QED
    BY <2>2
<1>4. ASSUME NEW i \in QueueIndices, Reappear(i) \/ RedriveEvent(i) PROVE FALSE
  <2>1. i \in 1..Len(queue)
    BY <1>1, <1>4 DEF Reappear, RedriveEvent
  <2>2. PICK s \in {"visible", "dlq"} : queue' = [queue EXCEPT ![i].status = s]
    BY <1>4 DEF Reappear, RedriveEvent
  <2>3. /\ queue'[i].status = s
        /\ \A n \in 1..Len(queue) : n # i => queue'[n] = queue[n]
    BY <1>1, <2>1, <2>2, EntryMoved
  <2> QED
    BY <2>3
<1>5. ASSUME NEW p \in Processors, NEW i \in QueueIndices, Receive(p, i) PROVE FALSE
  <2>1. i \in 1..Len(queue) /\ queue[i] \in Entries
    BY <1>1, <1>5, ElementOfSeq DEF Receive
  <2> DEFINE received == [queue[i] EXCEPT !.status = "hidden", !.receives = @ + 1]
  <2>2. /\ received \in Entries /\ received.callback = queue[i].callback
        /\ received.status = "hidden"
    BY <1>5, <2>1, EntryReceived DEF Receive
  <2>3. queue' = [queue EXCEPT ![i] = received]
    BY <1>5 DEF Receive
  <2>4. queue'[i] = received /\ \A n \in 1..Len(queue) : n # i => queue'[n] = queue[n]
    BY <1>1, <2>1, <2>2, <2>3, EntryChanged
  <2> QED
    BY <2>2, <2>4
<1>6. PICK p \in Processors : DeleteEvent(p)
  BY <1>2, <1>3, <1>4, <1>5
     DEF Next, vars, SetDetails, Reconcile, SelectToFix, UpdateToFix, Post, Handle,
     InsertDeliveryEvent, UpdateMessage,
     CrashHandler, ProcessWebhookEvent, ProcessUpdate, ProcessInsert, CrashProcessor
<1>7. queue' = [queue EXCEPT ![entry[p]].status = "deleted"]
  BY <1>2, <1>6 DEF DeleteEvent
<1>8. entry[p] \in 1..Len(queue)
  BY <1>6, EntryInHand DEF DeleteEvent
<1>9. \A n \in 1..Len(queue) : n # entry[p] => queue'[n] = queue[n]
  BY <1>1, <1>7, <1>8, EntryMoved
<1> QED
  BY <1>6, <1>9 DEF DeleteEvent

-----------------------------------------------------------------------------
(* A callback that the provider was told to forget is kept. *)

\* One callback is kept: where it has to be, or in a queue.
Kept(c) ==
    \/ Stored(c) /\ (Terminal(c) => Applied(c))
    \/ \E k \in DOMAIN queue : queue[k].callback = c /\ queue[k].status # "deleted"

\* The order of the calls, at each of them: a handler stores, then updates; a
\* processor updates, then stores, then deletes.
OrderInv ==
    /\ \A h \in Handlers : pc[h] = "update" => Stored(handled[h])
    /\ \A p \in Processors :
          /\ ppc[p] \in {"insert", "delete"} /\ Terminal(Callback(p)) => Applied(Callback(p))
          /\ ppc[p] = "delete" => Stored(Callback(p))

KeptInv == TypeInv /\ SourceInv /\ AckedIsKept /\ OrderInv

\* What an entry in hand is about does not change.
LEMMA CallbackStays ==
    ASSUME TypeInv, Grows, NEW p \in Processors, ppc[p] # "idle", entry'[p] = entry[p]
    PROVE  Callback(p)' = Callback(p) /\ Callback(p) \in Callbacks
<1>1. entry[p] \in 1..Len(queue) /\ Callback(p) \in Callbacks
  BY EntryInHand
<1> QED
  BY <1>1 DEF Grows, Callback

\* Every step keeps the order.
LEMMA OrderStep == TypeInv /\ SourceInv /\ OrderInv /\ [Next]_vars => OrderInv'
<1> SUFFICES ASSUME TypeInv, SourceInv, OrderInv, [Next]_vars PROVE OrderInv'
  OBVIOUS
<1>1. Grows /\ events \in Seq(Callbacks)
  BY StepGrows DEF TypeInv, TypeOK
<1>2. ASSUME NEW h \in Handlers, pc'[h] = "update" PROVE Stored(handled[h])'
  <2>1. /\ handled'[h] = handled[h] /\ handled[h] \in Callbacks
        /\ pc[h] = "update" \/ events' = Append(events, handled[h])
    BY <1>2, HandlerMoves
  <2>2. \E i \in DOMAIN events' : events'[i] = handled[h]
    <3>1. CASE pc[h] = "update"
      BY <1>1, <2>1, <3>1 DEF Grows, OrderInv, Stored
    <3>2. CASE events' = Append(events, handled[h])
      BY <1>1, <2>1, <3>2, StoredGrows DEF Stored
    <3> QED
      BY <2>1, <3>1, <3>2
  <2> QED
    BY <2>1, <2>2 DEF Stored
<1>3. ASSUME NEW p \in Processors, ppc'[p] # "idle"
      PROVE  /\ ppc'[p] \in {"insert", "delete"} /\ Terminal(Callback(p))' => Applied(Callback(p))'
             /\ ppc'[p] = "delete" => Stored(Callback(p))'
  <2> DEFINE c == Callback(p)
  <2>1. ASSUME ppc[p] # "idle", entry'[p] = entry[p], NEW d \in Callbacks, d = c,
               /\ ppc'[p] \in {"insert", "delete"} /\ Terminal(d)
                     => (\E m \in Messages : m = About[d] /\ messages'[m].sid = Sid[d] /\ Reported(m)')
               /\ ppc'[p] = "delete" => (\E i \in DOMAIN events' : events'[i] = d)
        PROVE  /\ ppc'[p] \in {"insert", "delete"} /\ Terminal(Callback(p))' => Applied(Callback(p))'
               /\ ppc'[p] = "delete" => Stored(Callback(p))'
    <3>1. Callback(p)' = d
      BY <1>1, <2>1, CallbackStays
    <3> QED
      BY <2>1, <3>1 DEF Applied, HasSid, Stored, Terminal
  <2>2. CASE ppc'[p] = ppc[p] /\ entry'[p] = entry[p]
    <3>1. c \in Callbacks
      BY <1>1, <1>3, <2>2, CallbackStays
    <3>2. ppc'[p] \in {"insert", "delete"} /\ Terminal(c)
             => (\E m \in Messages : m = About[c] /\ messages'[m].sid = Sid[c] /\ Reported(m)')
      BY <1>1, <2>2, <3>1 DEF Grows, OrderInv, Applied, HasSid
    <3>3. ppc'[p] = "delete" => (\E i \in DOMAIN events' : events'[i] = c)
      BY <1>1, <2>2, <3>1 DEF Grows, OrderInv, Stored
    <3> QED
      BY <1>3, <2>1, <2>2, <3>1, <3>2, <3>3
  <2>3. CASE /\ ppc[p] = "update" /\ ppc'[p] = "insert" /\ entry'[p] = entry[p]
             /\ Found(c) /\ messages' = UpdateMessageByProviderMsgID(c)
    <3>1. c \in Callbacks /\ Terminal(c)
      BY <1>1, <2>3, CallbackStays DEF TypeInv, HandInv
    <3>2. Posted(c) /\ TypeInv
      BY <1>1, <2>3, EntryInHand DEF SourceInv, PostedInv, Callback
    <3>3. PICK d \in Callbacks : d = c
      BY <3>1
    <3>4. \E m \in Messages : m = About[d] /\ messages'[m].sid = Sid[d] /\ Reported(m)'
      <4>1. Applied(d)'
        BY <2>3, <3>1, <3>2, <3>3, UpdateApplies
      <4> QED
        BY <4>1 DEF Applied, HasSid
    <3> QED
      BY <2>1, <2>3, <3>3, <3>4
  <2>4. CASE /\ ppc[p] = "insert" /\ ppc'[p] = "delete" /\ entry'[p] = entry[p]
             /\ events' = Append(events, c)
    <3>1. c \in Callbacks
      BY <1>1, <2>4, CallbackStays
    <3>2. Terminal(c) => (\E m \in Messages : m = About[c] /\ messages'[m].sid = Sid[c] /\ Reported(m)')
      BY <1>1, <2>4, <3>1 DEF Grows, OrderInv, Applied, HasSid
    <3>3. \E i \in DOMAIN events' : events'[i] = c
      BY <1>1, <2>4, <3>1, StoredGrows DEF Stored
    <3> QED
      BY <2>1, <2>4, <3>1, <3>2, <3>3
  <2>5. CASE /\ entry'[p] \in 1..Len(queue)
             /\ ppc'[p] = IF Terminal(queue[entry'[p]].callback) THEN "update" ELSE "insert"
    <3>1. Callback(p)' = queue[entry'[p]].callback
      BY <1>1, <2>5 DEF Grows, Callback
    <3> QED
      BY <2>5, <3>1 DEF Terminal
  <2> QED
    BY <1>3, <2>2, <2>3, <2>4, <2>5, ProcessorMoves
<1> QED
  BY <1>2, <1>3 DEF OrderInv

\* No step forgets a callback, and none answers for one that is not kept.
LEMMA KeptStep == KeptInv /\ [Next]_vars => KeptInv'
<1> SUFFICES ASSUME KeptInv, [Next]_vars PROVE KeptInv'
  OBVIOUS
<1>1. TypeInv /\ TypeInv' /\ SourceInv /\ SourceInv' /\ OrderInv /\ OrderInv' /\ Grows
  BY TypeStep, SourceStep, OrderStep, StepGrows DEF KeptInv
<1>2. /\ queue \in Seq(Entries) /\ Len(queue) \in Nat /\ DOMAIN queue = 1..Len(queue)
      /\ queue' \in Seq(Entries) /\ DOMAIN queue' = 1..Len(queue')
  BY <1>1, QueueType, LenProperties DEF TypeInv, TypeOK, Entries
<1>3. ASSUME NEW c \in acked PROVE Kept(c)'
  <2>1. c \in Callbacks /\ Kept(c)
    BY <1>1 DEF KeptInv, AckedIsKept, Kept, TypeInv, TypeOK
  <2>2. CASE Stored(c) /\ (Terminal(c) => Applied(c))
    BY <1>1, <2>1, <2>2 DEF Grows, Kept, Terminal
  <2>3. ASSUME NEW k \in 1..Len(queue), queue[k].callback = c, queue[k].status # "deleted"
        PROVE  Kept(c)'
    <3>1. k \in 1..Len(queue') /\ queue'[k].callback = c
      BY <1>1, <2>3 DEF Grows
    <3>2. CASE queue'[k].status # "deleted"
      BY <1>2, <3>1, <3>2 DEF Kept
    <3>3. CASE queue'[k].status = "deleted"
      <4>1. PICK p \in Processors : ppc[p] = "delete" /\ entry[p] = k
        BY <1>1, <2>3, <3>3, DeleteMoves
      <4>2. Callback(p) = c
        BY <2>3, <4>1 DEF Callback
      <4>3. Stored(c) /\ (Terminal(c) => Applied(c))
        BY <1>1, <4>1, <4>2 DEF OrderInv
      <4> QED
        BY <1>1, <2>1, <4>3 DEF Grows, Kept, Terminal
    <3> QED
      BY <3>2, <3>3
  <2> QED
    BY <1>2, <2>1, <2>2, <2>3 DEF Kept
<1>4. ASSUME NEW c \in acked' \ acked PROVE Kept(c)'
  <2>1. PICK h \in Handlers :
            /\ handled[h] = c /\ c \in Callbacks
            /\ \/ /\ pc[h] = "enqueue"
                  /\ queue' = Append(queue, [callback |-> c, status |-> "visible", receives |-> 0])
               \/ ~Terminal(c) /\ events' = Append(events, c)
               \/ pc[h] = "update" /\ Found(c) /\ messages' = UpdateMessageByProviderMsgID(c)
    BY <1>1, AckMoves
  <2>2. CASE queue' = Append(queue, [callback |-> c, status |-> "visible", receives |-> 0])
    <3>1. /\ Len(queue') = Len(queue) + 1
          /\ queue'[Len(queue')].callback = c /\ queue'[Len(queue')].status = "visible"
      BY <1>2, <2>1, <2>2, EntryAdded
    <3>2. Len(queue') \in DOMAIN queue'
      BY <1>2, <3>1
    <3> QED
      BY <3>1, <3>2 DEF Kept
  <2>3. CASE ~Terminal(c) /\ events' = Append(events, c)
    BY <1>1, <2>1, <2>3, StoredGrows DEF Kept, Terminal, TypeInv, TypeOK
  <2>4. CASE pc[h] = "update" /\ Found(c) /\ messages' = UpdateMessageByProviderMsgID(c)
    <3>1. Terminal(c) /\ Stored(c)
      BY <1>1, <2>1, <2>4 DEF TypeInv, HandInv, OrderInv
    <3>2. Applied(c)'
      BY <1>1, <2>1, <2>4, <3>1, UpdateApplies DEF TypeInv, SourceInv, PostedInv
    <3> QED
      BY <1>1, <2>1, <3>1, <3>2 DEF Grows, Kept
  <2> QED
    BY <2>1, <2>2, <2>3, <2>4
<1> QED
  BY <1>1, <1>3, <1>4 DEF KeptInv, AckedIsKept, Kept

\* In either mode of the webhook, whatever fails: a callback answered 2xx is
\* stored and, when terminal, applied, or it waits in the events queue or its
\* dead-letter queue.
THEOREM Answered == Spec => []AckedIsKept
<1>1. Init => KeptInv
  <2> SUFFICES ASSUME Init PROVE KeptInv
    OBVIOUS
  <2> QED
    BY InitTypeInv, InitSource DEF Init, KeptInv, AckedIsKept, OrderInv
<1>2. KeptInv => AckedIsKept
  BY DEF KeptInv
<1> QED
  BY <1>1, <1>2, KeptStep, PTL DEF Spec

-----------------------------------------------------------------------------
(* Direct mode. *)

\* WEBHOOK_USE_QUEUE is off: nothing is queued, and no processor has work.
DirectInv ==
    /\ queue = <<>>
    /\ \A h \in Handlers : pc[h] # "enqueue"
    /\ \A p \in Processors : ppc[p] = "idle"

\* The outcomes of the messages are those of stored callbacks.
TrailInv ==
    \A m \in Messages : Settled(m) =>
        \E c \in Callbacks : /\ Stored(c) /\ HasSid(m, c)
                             /\ NewState(Status[c]) = messages[m].state

\* Direct mode stays direct.
LEMMA DirectStep ==
    ~UseQueue /\ TypeInv /\ DirectInv /\ [Next]_vars => DirectInv'
<1> SUFFICES ASSUME ~UseQueue, TypeInv, DirectInv, [Next]_vars PROVE DirectInv'
  OBVIOUS
<1>1. /\ pc \in [Handlers -> {"idle", "enqueue", "insert", "update"}]
      /\ DOMAIN queue = {}
  BY DEF TypeInv, TypeOK, DirectInv
<1>2. ASSUME NEW h \in Handlers, NEW c \in Callbacks, Post(h, c) PROVE DirectInv'
  BY <1>1, <1>2 DEF Post, DirectInv, processors
<1>3. ASSUME NEW h \in Handlers, Handle(h) \/ CrashHandler(h) PROVE DirectInv'
  <2>1. UNCHANGED <<queue, processors>>
    BY <1>3 DEF Handle, EnqueueEvent, InsertDeliveryEvent, UpdateMessage, CrashHandler, DirectInv
  <2>2. \A g \in Handlers : pc'[g] # "enqueue"
    BY <1>1, <1>3 DEF Handle, EnqueueEvent, InsertDeliveryEvent, UpdateMessage, CrashHandler,
       Accept, Reject, Leave, DirectInv
  <2> QED
    BY <2>1, <2>2 DEF DirectInv, processors
<1>4. ASSUME NEW p \in Processors, ProcessWebhookEvent(p) \/ CrashProcessor(p) PROVE DirectInv'
  BY <1>4 DEF ProcessWebhookEvent, ProcessUpdate, ProcessInsert, DeleteEvent, CrashProcessor,
     DirectInv
<1>5. ASSUME NEW k \in QueueIndices, Reappear(k) \/ RedriveEvent(k) PROVE DirectInv'
  BY <1>1, <1>5 DEF Reappear, RedriveEvent
<1>6. ASSUME NEW p \in Processors, NEW k \in QueueIndices, Receive(p, k) PROVE DirectInv'
  BY <1>1, <1>6 DEF Receive
<1>7. CASE UNCHANGED <<handlers, queue, processors>>
  BY <1>7 DEF handlers, processors, DirectInv
<1> QED
  BY <1>2, <1>3, <1>4, <1>5, <1>6, <1>7
     DEF Next, vars, SetDetails, Reconcile, SelectToFix, UpdateToFix

\* A row is settled by a handler that has stored its event, or by the cron job
\* from a stored event.
LEMMA RowMoves ==
    ASSUME TypeInv, SourceInv, OrderInv, DirectInv, [Next]_vars,
           NEW m \in Messages, messages'[m] # messages[m], Settled(m)'
    PROVE  \E c \in Callbacks : /\ Stored(c) /\ HasSid(m, c)'
                                /\ NewState(Status[c]) = messages'[m].state
<1>1. messages \in [Messages -> Rows]
  BY DEF TypeInv, TypeOK
<1>2. ASSUME NEW n \in Messages, SetDetails(n) PROVE FALSE
  <2>1. messages'[m].state = "submitted"
    BY <1>1, <1>2 DEF SetDetails, SetProviderDetails, Rows
  <2> QED
    BY <2>1 DEF Settled
<1>3. ASSUME NEW n \in Messages, Reconcile(n)
      PROVE  \E c \in Callbacks : /\ Stored(c) /\ HasSid(m, c)'
                                  /\ NewState(Status[c]) = messages'[m].state
  <2>1. UpdateToFix(n)
    BY <1>3 DEF Reconcile, SelectToFix
  <2>2. /\ messages'[n].sid = messages[n].sid
        /\ messages'[n].state = toFix[n] \/ UNCHANGED messages
        /\ \A l \in Messages \ {n} : messages'[l] = messages[l]
    BY <2>1, Fixed DEF TypeInv
  <2>3. n = m /\ messages'[m].state = toFix[m] /\ messages'[m].sid = messages[m].sid
    BY <2>2
  <2>4. \E c \in Callbacks : /\ Stored(c) /\ HasSid(m, c)
                             /\ NewState(Status[c]) = toFix[m]
    BY <2>1, <2>3 DEF UpdateToFix, SourceInv, FixInv
  <2> QED
    BY <2>3, <2>4 DEF HasSid
<1>4. ASSUME NEW h \in Handlers, UpdateMessage(h)
      PROVE  \E c \in Callbacks : /\ Stored(c) /\ HasSid(m, c)'
                                  /\ NewState(Status[c]) = messages'[m].state
  <2>1. handled[h] \in Callbacks /\ Terminal(handled[h]) /\ Stored(handled[h])
    BY <1>4 DEF UpdateMessage, TypeInv, HandInv, OrderInv
  <2>2. messages' = UpdateMessageByProviderMsgID(handled[h])
    BY <1>4 DEF UpdateMessage
  <2>3. /\ messages'[m].sid = messages[m].sid /\ HasSid(m, handled[h])
        /\ messages'[m].state = NewState(Status[handled[h]])
    BY <2>1, <2>2, UpdateRows DEF TypeInv
  <2> QED
    BY <2>1, <2>3 DEF HasSid
<1>5. ASSUME NEW p \in Processors, ProcessWebhookEvent(p) PROVE FALSE
  BY <1>5 DEF ProcessWebhookEvent, ProcessUpdate, ProcessInsert, DeleteEvent, DirectInv
<1> QED
  BY <1>2, <1>3, <1>4, <1>5
     DEF Next, vars, Post, Handle, EnqueueEvent, InsertDeliveryEvent, CrashHandler, Receive,
     Reappear, RedriveEvent, CrashProcessor

\* Every step keeps the trail.
LEMMA TrailStep ==
    TypeInv /\ SourceInv /\ OrderInv /\ DirectInv /\ TrailInv /\ [Next]_vars => TrailInv'
<1> SUFFICES ASSUME TypeInv, SourceInv, OrderInv, DirectInv, TrailInv, [Next]_vars,
                    NEW m \in Messages, Settled(m)'
             PROVE  \E c \in Callbacks : /\ Stored(c)' /\ HasSid(m, c)'
                                         /\ NewState(Status[c]) = messages'[m].state
  BY DEF TrailInv
<1>1. \A c \in Callbacks : Stored(c) => Stored(c)'
  BY StepGrows DEF Grows
<1>2. CASE messages'[m] = messages[m]
  <2>1. Settled(m)
    BY <1>2 DEF Settled
  <2> QED
    BY <1>1, <1>2, <2>1 DEF TrailInv, HasSid
<1>3. CASE messages'[m] # messages[m]
  BY <1>1, <1>3, RowMoves
<1> QED
  BY <1>2, <1>3

\* Direct mode starts direct, with nothing settled.
LEMMA InitDirect == Init => KeptInv /\ DirectInv /\ TrailInv
<1> SUFFICES ASSUME Init PROVE KeptInv /\ DirectInv /\ TrailInv
  OBVIOUS
<1>1. KeptInv /\ DirectInv
  BY InitTypeInv, InitSource DEF Init, KeptInv, AckedIsKept, OrderInv, DirectInv
<1>2. \A m \in Messages : messages[m].state = "processing"
  BY DEF Init, ClaimMessage, InsertMessage, AbsentRow
<1> QED
  BY <1>1, <1>2 DEF TrailInv, Settled

\* In direct mode no acknowledged outcome leaves its message unsettled.
THEOREM DirectAnswers ==
    ASSUME UseQueue = FALSE PROVE Spec => []AckedIsApplied
<1>1. KeptInv /\ DirectInv /\ [Next]_vars => (KeptInv /\ DirectInv)'
  BY KeptStep, DirectStep DEF KeptInv
<1>2. KeptInv /\ DirectInv => AckedIsApplied
  BY DEF KeptInv, DirectInv, AckedIsKept, AckedIsApplied
<1> QED
  BY <1>1, <1>2, InitDirect, PTL DEF Spec

\* In direct mode a settled message has its outcome on the trail.
THEOREM DirectTrail ==
    ASSUME UseQueue = FALSE PROVE Spec => []AppliedIsStored
<1> DEFINE IInv == TypeInv /\ SourceInv /\ OrderInv /\ DirectInv /\ TrailInv
<1>1. Init => IInv
  BY InitDirect DEF KeptInv
<1>2. IInv /\ [Next]_vars => IInv'
  BY TypeStep, SourceStep, OrderStep, DirectStep, TrailStep
<1>3. IInv => AppliedIsStored
  <2> SUFFICES ASSUME IInv, NEW m \in Messages, Settled(m)
               PROVE  \E i \in DOMAIN events :
                         /\ HasSid(m, events[i])
                         /\ NewState(Status[events[i]]) = messages[m].state
    BY DEF AppliedIsStored
  <2> QED
    BY DEF TrailInv, Stored
<1> QED
  BY <1>1, <1>2, <1>3, PTL DEF Spec

-----------------------------------------------------------------------------
(* What the callbacks may do to a table they share. *)

\* All steps but SetDetails, the worker's.
CallbackStep ==
    \/ \E m \in Messages : Reconcile(m)
    \/ \E h \in Handlers, c \in Callbacks : Post(h, c)
    \/ \E h \in Handlers : Handle(h) \/ CrashHandler(h)
    \/ \E p \in Processors, k \in QueueIndices : Receive(p, k)
    \/ \E k \in QueueIndices : Reappear(k) \/ RedriveEvent(k)
    \/ \E p \in Processors : ProcessWebhookEvent(p) \/ CrashProcessor(p)

\* The one row that changes is a row with a sid, a message's that was sent, or one
\* that had it when the cron job looked: it gets an outcome.
Outcome(m) ==
    /\ messages[m].sid # NoSid \/ toFix[m] # "none"
    /\ messages'[m].sid = messages[m].sid
    /\ Settled(m)'
    /\ messages' \in [Messages -> Rows]
    /\ \A n \in Messages \ {m} : messages'[n] = messages[n]

\* The UPDATE by provider_msg_id changes at most the row of the callback's message.
LEMMA UpdateIsOutcome ==
    ASSUME TypeInv, NEW c \in Callbacks, Terminal(c), messages' = UpdateMessageByProviderMsgID(c)
    PROVE  UNCHANGED messages \/ \E m \in Messages : Outcome(m)
<1>1. /\ messages' \in [Messages -> Rows] /\ messages \in [Messages -> Rows]
      /\ \A m \in Messages :
            /\ messages'[m].sid = messages[m].sid
            /\ ~HasSid(m, c) => messages'[m] = messages[m]
            /\ HasSid(m, c) => messages'[m].state = NewState(Status[c])
  BY UpdateRows DEF TypeInv, TypeOK
<1>2. About[c] \in Messages /\ Sid[c] # NoSid
  BY CallbacksAssumption
<1>3. CASE HasSid(About[c], c)
  <2>1. \A n \in Messages \ {About[c]} : messages'[n] = messages[n]
    BY <1>1 DEF HasSid
  <2>2. Settled(About[c])'
    BY <1>1, <1>2, <1>3, TerminalStates DEF Settled
  <2>3. messages[About[c]].sid # NoSid
    BY <1>2, <1>3 DEF HasSid
  <2>4. Outcome(About[c])
    BY <1>1, <1>2, <1>3, <2>1, <2>2, <2>3 DEF Outcome
  <2> QED
    BY <1>2, <2>4
<1>4. CASE ~HasSid(About[c], c)
  <2>1. \A n \in Messages : messages'[n] = messages[n]
    BY <1>1, <1>4 DEF HasSid
  <2> QED
    BY <1>1, <2>1
<1> QED
  BY <1>3, <1>4

\* Every step of the callbacks is an outcome of one message, or changes no row.
LEMMA CallbackMoves ==
    ASSUME TypeInv, CallbackStep
    PROVE  UNCHANGED messages \/ \E m \in Messages : Outcome(m)
<1>1. ASSUME NEW m \in Messages, Reconcile(m)
      PROVE  UNCHANGED messages \/ Outcome(m)
  <2>1. CASE SelectToFix(m)
    BY <2>1 DEF SelectToFix
  <2>2. CASE UpdateToFix(m)
    <3>1. /\ messages' \in [Messages -> Rows]
          /\ messages'[m].sid = messages[m].sid
          /\ messages'[m].state = toFix[m] \/ UNCHANGED messages
          /\ \A n \in Messages \ {m} : messages'[n] = messages[n]
      BY <2>2, Fixed DEF TypeInv
    <3>2. toFix[m] \in {"delivered", "failed"}
      BY <2>2 DEF UpdateToFix, TypeInv, TypeOK
    <3> QED
      BY <3>1, <3>2 DEF Outcome, Settled
  <2> QED
    BY <1>1, <2>1, <2>2 DEF Reconcile
<1>2. ASSUME NEW h \in Handlers, UpdateMessage(h)
      PROVE  UNCHANGED messages \/ \E m \in Messages : Outcome(m)
  <2>1. handled[h] \in Callbacks /\ Terminal(handled[h])
    BY <1>2 DEF UpdateMessage, TypeInv, HandInv
  <2> QED
    BY <1>2, <2>1, UpdateIsOutcome DEF UpdateMessage
<1>3. ASSUME NEW p \in Processors, ProcessUpdate(p)
      PROVE  UNCHANGED messages \/ \E m \in Messages : Outcome(m)
  <2>1. Callback(p) \in Callbacks /\ Terminal(Callback(p))
    BY <1>3, EntryInHand DEF ProcessUpdate, TypeInv, HandInv
  <2> QED
    BY <1>3, <2>1, UpdateIsOutcome DEF ProcessUpdate, Callback
<1> QED
  BY <1>1, <1>2, <1>3
     DEF CallbackStep, Post, Handle, EnqueueEvent, InsertDeliveryEvent, CrashHandler, Receive,
     Reappear, RedriveEvent, ProcessWebhookEvent, ProcessInsert, DeleteEvent, CrashProcessor

\* The cron job selects only rows that have the sid of a callback.
LEMMA FixMoves ==
    ASSUME TypeInv, CallbackStep, NEW m \in Messages, toFix'[m] # "none"
    PROVE  messages[m].sid # NoSid \/ toFix[m] # "none"
<1> DEFINE Goal == messages[m].sid # NoSid \/ toFix[m] # "none"
<1>1. toFix \in [Messages -> {"none", "delivered", "failed"}]
  BY DEF TypeInv, TypeOK
<1>2. ASSUME NEW n \in Messages, SelectToFix(n) PROVE Goal
  <2>1. PICK c \in Callbacks : /\ HasSid(n, c)
                               /\ toFix' = [toFix EXCEPT ![n] = NewState(Status[c])]
    BY <1>2, Selected DEF TypeInv
  <2>2. messages[n].sid # NoSid
    BY <2>1, CallbacksAssumption DEF HasSid
  <2> QED
    BY <1>1, <2>1, <2>2
<1>3. ASSUME NEW n \in Messages, UpdateToFix(n) PROVE Goal
  BY <1>1, <1>3 DEF UpdateToFix
<1>4. CASE UNCHANGED toFix
  BY <1>4
<1> QED
  BY <1>2, <1>3, <1>4
     DEF CallbackStep, Reconcile, Post, Handle, EnqueueEvent, InsertDeliveryEvent, UpdateMessage,
     CrashHandler, Receive, Reappear, RedriveEvent, ProcessWebhookEvent, ProcessUpdate,
     ProcessInsert, DeleteEvent, CrashProcessor
=============================================================================
