-------------------------- MODULE StatusCallbacks --------------------------
(***************************************************************************)
(* What becomes of the provider's status callbacks: the webhook handler    *)
(* (internal/httpserver/webhook.go) in its two modes, the webhook events   *)
(* queue and its processor (cmd/webhook-processor/main.go), and the        *)
(* reconciling cron job (deploy/k8s/jobs/sql/reconcile-submitted.sql).     *)
(*                                                                         *)
(* A callback is one status of one send.  The provider posts it until it   *)
(* is answered 2xx or the provider loses patience, and posts again while   *)
(* an earlier handler still runs: handlers outlive their connection.  The  *)
(* callbacks of a send come in any order, and possibly before the worker   *)
(* has written the sid to the row.                                         *)
(***************************************************************************)
EXTENDS MessageStore, Sequences, FiniteSets

CONSTANTS
    Messages,     \* message ids, each sent once
    SidOf,        \* the sid of each message's send
    Callbacks,    \* the callbacks of those sends
    About,        \* the message whose send a callback is of
    Sid,          \* the sid of a callback
    Status,       \* its MessageStatus
    Handlers,     \* requests handled at a time, over all webhook pods
    Processors,   \* queued events handled at a time
    NoCallback,   \* what an idle handler handles
    UseQueue,     \* WEBHOOK_USE_QUEUE
    MaxUpdates,   \* the update attempts of a handler: 10
    MaxPosts,     \* how often the provider posts a callback at most
    MaxReceive,   \* of the events queue's redrive policy
    MaxFaults     \* bound on failed database and queue calls

ASSUME CallbacksAssumption ==
    /\ SidOf \in [Messages -> Nat \ {NoSid}]
    /\ About \in [Callbacks -> Messages]
    /\ Sid \in [Callbacks -> Nat \ {NoSid}]
    /\ Status \in [Callbacks -> {"queued", "sent", "delivered", "failed", "undelivered"}]
    /\ NoCallback \notin Callbacks
    /\ UseQueue \in BOOLEAN
    /\ MaxUpdates \in Nat \ {0} /\ MaxPosts \in Nat /\ MaxReceive \in Nat \ {0}
    /\ MaxFaults \in Nat

VARIABLES
    messages,    \* the messages table
    events,      \* delivery_events in the order of received_at: the callbacks stored
    posts,       \* how often the provider has posted each callback
    acked,       \* the callbacks it got a 2xx for
    pc, handled, tried,  \* each handler: its next call, its callback, its updates
    queue,       \* the events queue: every message ever sent to it
    ppc, entry,  \* each processor: its next call, the queue message it holds
    toFix,       \* the cron job: the state it is about to give each row, or "none"
    faults       \* failed calls so far

handlers == <<pc, handled, tried>>
processors == <<ppc, entry>>
vars == <<messages, events, posts, acked, handlers, queue, processors, toFix, faults>>

\* newState: "" for a status that is not terminal.
NewState(status) ==
    CASE status = "delivered" -> "delivered"
      [] status \in {"failed", "undelivered"} -> "failed"
      [] OTHER -> ""

Terminal(c) == NewState(Status[c]) # ""

\* provider_msg_id = sid.  The provider never gives one sid to two sends, so a
\* row, which holds the number of a send of its own message, has the sid of a
\* callback when both are of one message.
HasSid(m, c) == m = About[c] /\ messages[m].sid = Sid[c]

Init ==
    /\ messages = [m \in Messages |-> ClaimMessage(InsertMessage(AbsentRow))]
    /\ events = <<>>
    /\ posts = [c \in Callbacks |-> 0]
    /\ acked = {}
    /\ pc = [h \in Handlers |-> "idle"]
    /\ handled = [h \in Handlers |-> NoCallback]
    /\ tried = [h \in Handlers |-> 0]
    /\ queue = <<>>
    /\ ppc = [p \in Processors |-> "idle"]
    /\ entry = [p \in Processors |-> 0]
    /\ toFix = [m \in Messages |-> "none"]
    /\ faults = 0

-----------------------------------------------------------------------------
Fault == faults < MaxFaults /\ faults' = faults + 1

\* The SetProviderDetails of the one worker that sent the message, late or never.
SetDetails(m) ==
    /\ messages[m].state = "processing"
    /\ messages' = [messages EXCEPT ![m] = SetProviderDetails(@, SidOf[m])]
    /\ UNCHANGED <<events, posts, acked, handlers, queue, processors, toFix, faults>>

\* The provider posts a callback it has no answer for.
Post(h, c) ==
    /\ pc[h] = "idle"
    /\ c \notin acked
    /\ posts[c] < MaxPosts
    /\ posts' = [posts EXCEPT ![c] = @ + 1]
    /\ pc' = [pc EXCEPT ![h] = IF UseQueue THEN "enqueue" ELSE "insert"]
    /\ handled' = [handled EXCEPT ![h] = c]
    /\ UNCHANGED <<messages, events, acked, tried, queue, processors, toFix, faults>>

Leave(h) ==
    /\ pc' = [pc EXCEPT ![h] = "idle"]
    /\ handled' = [handled EXCEPT ![h] = NoCallback]
    /\ tried' = [tried EXCEPT ![h] = 0]

\* 200: the provider is content, unless it has hung up in the meantime.
Accept(h) ==
    /\ Leave(h)
    /\ acked' \in {acked, acked \cup {handled[h]}}

\* 500 or 503.
Reject(h) == Leave(h) /\ UNCHANGED acked

\* Queue mode: the event is sent to the queue before the answer.
EnqueueEvent(h) ==
    /\ pc[h] = "enqueue"
    /\ LET longer == Append(queue, [callback |-> handled[h], status |-> "visible", receives |-> 0])
       IN  \/ queue' = longer /\ Accept(h) /\ UNCHANGED faults
           \/ queue' \in {queue, longer} /\ Reject(h) /\ Fault
    /\ UNCHANGED <<messages, events, posts, processors, toFix>>

\* Direct mode: the event is stored first; a status that is not terminal is
\* answered, a terminal one goes on to the message.
InsertDeliveryEventLate(h) ==
    /\ pc[h] = "insert"
    /\ IF Terminal(handled[h])
         THEN pc' = [pc EXCEPT ![h] = "update"] /\ UNCHANGED <<handled, tried, acked, events>>
         ELSE Accept(h) /\ events' = Append(events, handled[h])
    /\ UNCHANGED <<messages, posts, queue, processors, toFix, faults>>

InsertDeliveryEvent(h) ==
    /\ pc[h] = "insert"
    /\ LET stored == Append(events, handled[h])
       IN  \/ /\ events' = stored
              /\ IF Terminal(handled[h])
                   THEN pc' = [pc EXCEPT ![h] = "update"] /\ UNCHANGED <<handled, tried, acked>>
                   ELSE Accept(h)
              /\ UNCHANGED faults
           \/ events' \in {events, stored} /\ Reject(h) /\ Fault
    /\ UNCHANGED <<messages, posts, queue, processors, toFix>>

\* UPDATE ... WHERE provider_msg_id = sid, of any state.
Found(c) == \E m \in Messages : HasSid(m, c)
UpdateMessageByProviderMsgID(c) ==
    [m \in Messages |->
        IF HasSid(m, c)
          THEN MarkMessageState(messages[m], NewState(Status[c]), "provider_code")
          ELSE messages[m]]

\* One turn of the handler's loop.  It leaves after a failed statement, when its
\* five seconds are over, and after the last turn without a row.
UpdateNotFoundIsFine(h) ==
    /\ pc[h] = "update"
    /\ messages' = UpdateMessageByProviderMsgID(handled[h])
    /\ Accept(h)
    /\ UNCHANGED <<events, posts, queue, processors, toFix, faults>>

UpdateMessage(h) ==
    /\ pc[h] = "update"
    /\ LET updated == UpdateMessageByProviderMsgID(handled[h])
       IN  \/ /\ Found(handled[h])
              /\ messages' = updated
              /\ Accept(h)
              /\ UNCHANGED faults
           \/ /\ ~Found(handled[h]) /\ tried[h] + 1 < MaxUpdates
              /\ tried' = [tried EXCEPT ![h] = @ + 1]
              /\ UNCHANGED <<messages, acked, pc, handled, faults>>
           \/ /\ ~Found(handled[h]) /\ tried[h] + 1 = MaxUpdates
              /\ Reject(h)
              /\ UNCHANGED <<messages, faults>>
           \/ messages' \in {messages, updated} /\ Reject(h) /\ Fault
    /\ UNCHANGED <<events, posts, queue, processors, toFix>>

\* A webhook pod dies.
CrashHandler(h) ==
    /\ pc[h] # "idle"
    /\ Reject(h) /\ Fault
    /\ UNCHANGED <<messages, events, posts, queue, processors, toFix>>

-----------------------------------------------------------------------------
(* The events queue and its processor. *)

\* A message is received, and hidden for a while.
Receive(p, k) ==
    /\ ppc[p] = "idle" /\ k \in DOMAIN queue
    /\ queue[k].status = "visible" /\ queue[k].receives < MaxReceive
    /\ queue' = [queue EXCEPT ![k].status = "hidden", ![k].receives = @ + 1]
    /\ ppc' = [ppc EXCEPT ![p] = IF Terminal(queue[k].callback) THEN "update" ELSE "insert"]
    /\ entry' = [entry EXCEPT ![p] = k]
    /\ UNCHANGED <<messages, events, posts, acked, handlers, toFix, faults>>

\* The visibility timeout ends, whether its receiver has failed or is slow.
Reappear(k) ==
    /\ k \in DOMAIN queue
    /\ queue[k].status = "hidden"
    /\ queue' = [queue EXCEPT ![k].status = "visible"]
    /\ UNCHANGED <<messages, events, posts, acked, handlers, processors, toFix, faults>>

RedriveEvent(k) ==
    /\ k \in DOMAIN queue
    /\ queue[k].status = "visible" /\ queue[k].receives = MaxReceive
    /\ queue' = [queue EXCEPT ![k].status = "dlq"]
    /\ UNCHANGED <<messages, events, posts, acked, handlers, processors, toFix, faults>>

Drop(p) ==
    /\ ppc' = [ppc EXCEPT ![p] = "idle"]
    /\ entry' = [entry EXCEPT ![p] = 0]

\* processWebhookEvent, first half: a terminal status goes to the message, and
\* is tried again later when no message has the sid yet.
ProcessUpdateIgnored(p) ==
    /\ ppc[p] = "update"
    /\ messages' = UpdateMessageByProviderMsgID(queue[entry[p]].callback)
    /\ ppc' = [ppc EXCEPT ![p] = "insert"]
    /\ UNCHANGED <<events, posts, acked, handlers, queue, entry, toFix, faults>>

ProcessUpdate(p) ==
    /\ ppc[p] = "update"
    /\ LET c == queue[entry[p]].callback
           updated == UpdateMessageByProviderMsgID(c)
       IN  \/ /\ Found(c)
              /\ messages' = updated
              /\ ppc' = [ppc EXCEPT ![p] = "insert"]
              /\ UNCHANGED <<entry, faults>>
           \/ ~Found(c) /\ Drop(p) /\ UNCHANGED <<messages, faults>>
           \/ messages' \in {messages, updated} /\ Drop(p) /\ Fault
    /\ UNCHANGED <<events, posts, acked, handlers, queue, toFix>>

\* Second half: the event is stored.
ProcessInsert(p) ==
    /\ ppc[p] = "insert"
    /\ LET stored == Append(events, queue[entry[p]].callback)
       IN  \/ events' = stored /\ ppc' = [ppc EXCEPT ![p] = "delete"] /\ UNCHANGED <<entry, faults>>
           \/ events' \in {events, stored} /\ Drop(p) /\ Fault
    /\ UNCHANGED <<messages, posts, acked, handlers, queue, toFix>>

\* The handler returned nil.  A standard queue may deliver again what was
\* deleted, which Reappear before the call stands for.
DeleteEvent(p) ==
    /\ ppc[p] = "delete"
    /\ \/ /\ queue[entry[p]].status # "dlq"
          /\ queue' = [queue EXCEPT ![entry[p]].status = "deleted"]
       \/ UNCHANGED queue
    /\ Drop(p)
    /\ UNCHANGED <<messages, events, posts, acked, handlers, toFix, faults>>

CrashProcessor(p) ==
    /\ ppc[p] # "idle"
    /\ Drop(p) /\ Fault
    /\ UNCHANGED <<messages, events, posts, acked, handlers, queue, toFix>>

-----------------------------------------------------------------------------
(* reconcile-submitted.sql, as it changes one row old enough to be looked at. *)

\* Where delivery_events has a terminal outcome of a row's sid; the latest counts.
TerminalEvents(m) == {i \in DOMAIN events : Terminal(events[i]) /\ HasSid(m, events[i])}

LastTerminal(m) ==
    {i \in TerminalEvents(m) : \A k \in TerminalEvents(m) : k <= i}

SelectDelivered(m) ==
    /\ messages[m].state = "submitted"
    /\ toFix[m] = "none"
    /\ \E i \in DOMAIN events :
          HasSid(m, events[i]) /\ Status[events[i]] = "delivered"
    /\ toFix' = [toFix EXCEPT ![m] = "delivered"]
    /\ UNCHANGED <<messages, events, posts, acked, handlers, queue, processors, faults>>

\* last_terminal and to_fix: what the statement's snapshot says of the row.
SelectToFix(m) ==
    /\ messages[m].state = "submitted"
    /\ toFix[m] = "none"
    /\ \E i \in LastTerminal(m) :
          toFix' = [toFix EXCEPT ![m] = NewState(Status[events[i]])]
    /\ UNCHANGED <<messages, events, posts, acked, handlers, queue, processors, faults>>

\* The UPDATE, by id: whatever the row has become since the snapshot.  It may fail,
\* and nothing of it stays.
UpdateToFix(m) ==
    /\ toFix[m] # "none"
    /\ toFix' = [toFix EXCEPT ![m] = "none"]
    /\ \/ /\ messages' = [messages EXCEPT ![m] = MarkMessageState(@, toFix[m], "provider_code")]
          /\ UNCHANGED faults
       \/ Fault /\ UNCHANGED messages
    /\ UNCHANGED <<events, posts, acked, handlers, queue, processors>>

Reconcile(m) == SelectToFix(m) \/ UpdateToFix(m)

-----------------------------------------------------------------------------
\* Every post puts at most one message into the queue.
QueueIndices == 1..Cardinality(Callbacks) * MaxPosts

Handle(h) == EnqueueEvent(h) \/ InsertDeliveryEvent(h) \/ UpdateMessage(h)
ProcessWebhookEvent(p) == ProcessUpdate(p) \/ ProcessInsert(p) \/ DeleteEvent(p)

Next ==
    \/ \E m \in Messages : SetDetails(m) \/ Reconcile(m)
    \/ \E h \in Handlers, c \in Callbacks : Post(h, c)
    \/ \E h \in Handlers : Handle(h) \/ CrashHandler(h)
    \/ \E p \in Processors, k \in QueueIndices : Receive(p, k)
    \/ \E k \in QueueIndices : Reappear(k) \/ RedriveEvent(k)
    \/ \E p \in Processors : ProcessWebhookEvent(p) \/ CrashProcessor(p)

Spec == Init /\ [][Next]_vars

\* The pods go on, SQS hands out and redrives what it holds, the cron job runs
\* again and again.  The provider need not post, nor the worker write the sid.
Fairness ==
    /\ \A h \in Handlers : WF_vars(Handle(h))
    /\ \A p \in Processors : WF_vars(ProcessWebhookEvent(p))
    /\ \A k \in QueueIndices :
          /\ WF_vars(Reappear(k) \/ RedriveEvent(k))
          /\ WF_vars(\E p \in Processors : Receive(p, k))
    /\ \A m \in Messages : WF_vars(Reconcile(m))

FairSpec == Spec /\ Fairness

-----------------------------------------------------------------------------
(* Properties. *)

\* Every variable keeps its type.
TypeOK ==
    /\ messages \in [Messages -> Rows]
    /\ events \in Seq(Callbacks)
    /\ posts \in [Callbacks -> 0..MaxPosts]
    /\ acked \subseteq Callbacks
    /\ pc \in [Handlers -> {"idle", "enqueue", "insert", "update"}]
    /\ handled \in [Handlers -> Callbacks \cup {NoCallback}]
    /\ tried \in [Handlers -> 0..MaxUpdates - 1]
    /\ queue \in Seq([callback: Callbacks, status: {"visible", "hidden", "deleted", "dlq"},
                      receives: 0..MaxReceive])
    /\ ppc \in [Processors -> {"idle", "update", "insert", "delete"}]
    /\ entry \in [Processors -> 0..Len(queue)]
    /\ toFix \in [Messages -> {"none", "delivered", "failed"}]
    /\ faults \in 0..MaxFaults

Settled(m) == messages[m].state \in {"delivered", "failed"}
Stored(c)  == \E i \in DOMAIN events : events[i] = c

\* A row has the outcome of a callback of its sid that the provider posted.
Reported(m) ==
    \E c \in Callbacks : /\ posts[c] > 0 /\ HasSid(m, c) /\ Terminal(c)
                         /\ messages[m].state = NewState(Status[c])

\* The row of a callback's sid has the outcome reported for it: the callback's own,
\* unless the provider posted another one.
Applied(c) == \E m \in Messages : HasSid(m, c) /\ Reported(m)

\* A callback the provider is told to forget is not forgotten: it is stored, and
\* applied when terminal, or it is in the events queue or its dead-letter queue.
AckedIsKept ==
    \A c \in acked :
        \/ Stored(c) /\ (Terminal(c) => Applied(c))
        \/ \E k \in DOMAIN queue : queue[k].callback = c /\ queue[k].status # "deleted"

\* In direct mode the answer waits for the message: the message of an acknowledged
\* terminal callback has an outcome the provider reported of that send.
AckedIsApplied ==
    \A c \in acked : Terminal(c) => Applied(c)

\* In direct mode a message is settled only by an outcome that is stored, the
\* trail the cron job and an operator rely on.
AppliedIsStored ==
    \A m \in Messages : Settled(m) =>
        \E i \in DOMAIN events :
            HasSid(m, events[i]) /\ NewState(Status[events[i]]) = messages[m].state

\* A stored terminal outcome reaches its message, whatever became of the handler
\* that stored it and of the provider's patience.
StoredIsApplied ==
    \A m \in Messages :
        (\E c \in Callbacks : Stored(c) /\ Terminal(c) /\ HasSid(m, c)) ~> Settled(m)

\* A queued event does not linger: it is consumed or dead-lettered, and its
\* outcome applied in the first case.
QueueDrains ==
    \A k \in QueueIndices :
        k \in DOMAIN queue ~>
            /\ k \in DOMAIN queue
            /\ \/ queue[k].status = "dlq"
               \/ /\ queue[k].status = "deleted"
                  /\ Terminal(queue[k].callback) => Applied(queue[k].callback)
=============================================================================
