------------------------- MODULE ConsumerPoolProofs -------------------------
(***************************************************************************)
(* What holds of ConsumerPool for any messages, goroutines and stops.      *)
(***************************************************************************)
EXTENDS ConsumerPool, SequenceTheorems, TLAPS

-----------------------------------------------------------------------------
(* Types. *)

Entries == [status: {"visible", "hidden", "deleted", "dlq"}, receives: Nat]

\* A goroutine that works holds a receipt.
HandInv == \A w \in Workers : worker[w].at \in {"handle", "delete"} => worker[w].receipt \in Receipts

TypeInv == TypeOK /\ HandInv

\* A goroutine that moves on is one.
LEMMA GoroutineMoves ==
    ASSUME NEW g \in Goroutines, NEW l \in {"range", "handle", "delete", "done"}
    PROVE  [g EXCEPT !.at = l] \in Goroutines /\ [g EXCEPT !.at = l].at = l
           /\ [g EXCEPT !.at = l].receipt = g.receipt
  BY DEF Goroutines

\* A goroutine that waits again is one, and holds nothing.
LEMMA WaitingType == Waiting \in Goroutines /\ Waiting.at = "range"
  BY DEF Waiting, Goroutines

\* The producer's steps keep the types.
LEMMA ProducerType == TypeInv /\ Producer => TypeInv'
<1> SUFFICES ASSUME TypeInv, Producer PROVE TypeInv'
  OBVIOUS
<1>1. CASE CheckContext
  BY <1>1 DEF CheckContext, StopProducer, TypeInv, TypeOK, HandInv
<1>2. CASE ReceiveMessage
  <2>1. PICK taken \in SUBSET Receivable :
            /\ Hide(taken)
            /\ \/ /\ batch' = {[message |-> m, number |-> queue'[m].receives] : m \in taken}
                  /\ producer' = "send"
               \/ NothingReceived
    BY <1>2 DEF ReceiveMessage
  <2>2. queue' \in [Messages -> Entries]
    <3>1. \A m \in Messages : queue[m] \in Entries
      BY DEF TypeInv, TypeOK, Entries
    <3>2. \A m \in Messages : [status |-> "hidden", receives |-> queue[m].receives + 1] \in Entries
      BY <3>1 DEF Entries
    <3> QED
      BY <2>1, <3>1, <3>2 DEF Hide
  <2>3. /\ batch' \subseteq Receipts
        /\ producer' \in {"check", "receive", "send", "closed"}
    <3>1. CASE batch' = {[message |-> m, number |-> queue'[m].receives] : m \in taken}
      <4>1. \A m \in taken : [message |-> m, number |-> queue'[m].receives] \in Receipts
        BY <2>2 DEF Entries, Receipts, Receivable
      <4> QED
        BY <2>1, <3>1, <4>1 DEF NothingReceived
    <3> QED
      BY <2>1, <3>1 DEF NothingReceived, TypeInv, TypeOK
  <2> QED
    BY <1>2, <2>2, <2>3 DEF ReceiveMessage, TypeInv, TypeOK, HandInv, Entries
<1>3. CASE SendJob
  <2>1. ASSUME ChannelHasRoom, NEW r \in batch, jobs' = Append(jobs, r)
        PROVE  jobs' \in Seq(Receipts) /\ Len(jobs') <= ChannelSize
    <3>1. r \in Receipts /\ jobs \in Seq(Receipts)
      BY DEF TypeInv, TypeOK
    <3>2. jobs' \in Seq(Receipts) /\ Len(jobs') = Len(jobs) + 1 /\ Len(jobs) \in Nat
      BY <2>1, <3>1, AppendProperties, LenProperties
    <3> QED
      BY <2>1, <3>2, PoolAssumption DEF ChannelHasRoom
  <2> QED
    BY <1>3, <2>1 DEF SendJob, StopProducer, TypeInv, TypeOK, HandInv
<1> QED
  BY <1>1, <1>2, <1>3 DEF Producer

\* The steps of a goroutine of the pool keep the types.
LEMMA WorkType == ASSUME TypeInv, NEW w \in Workers, Work(w) PROVE TypeInv'
<1>1. worker[w] \in Goroutines /\ jobs \in Seq(Receipts) /\ Len(jobs) \in Nat
  BY LenProperties DEF TypeInv, TypeOK
<1>2. ASSUME NEW g \in Goroutines, worker' = [worker EXCEPT ![w] = g],
             g.at \in {"handle", "delete"} => g.receipt \in Receipts
      PROVE  worker' \in [Workers -> Goroutines] /\ HandInv'
  BY <1>2 DEF TypeInv, TypeOK, HandInv
<1>3. CASE RangeJobs(w)
  <2>1. CASE jobs # <<>>
    <3>1. /\ Head(jobs) \in Receipts /\ Tail(jobs) \in Seq(Receipts)
          /\ Len(Tail(jobs)) = Len(jobs) - 1
      BY <1>1, <2>1, HeadTailProperties
    <3> DEFINE g == [at |-> IF Head(jobs).message \in Poison THEN "delete" ELSE "handle",
                     receipt |-> Head(jobs), late |-> canceled]
    <3>2. g \in Goroutines /\ g.receipt \in Receipts
      BY <3>1 DEF Goroutines, TypeInv, TypeOK
    <3>3. worker' = [worker EXCEPT ![w] = g] /\ jobs' = Tail(jobs)
      BY <1>3, <2>1 DEF RangeJobs
    <3>4. worker' \in [Workers -> Goroutines] /\ HandInv'
      BY <1>2, <3>2, <3>3
    <3>5. jobs' \in Seq(Receipts) /\ Len(jobs') <= ChannelSize
      BY <1>1, <3>1, <3>3, PoolAssumption DEF TypeInv, TypeOK
    <3> QED
      BY <1>3, <3>4, <3>5 DEF RangeJobs, TypeInv, TypeOK
  <2>2. CASE jobs = <<>>
    <3>1. worker' = [worker EXCEPT ![w] = [worker[w] EXCEPT !.at = "done"]]
      BY <1>3, <2>2 DEF RangeJobs
    <3>2. worker' \in [Workers -> Goroutines] /\ HandInv'
      BY <1>1, <1>2, <3>1, GoroutineMoves
    <3> QED
      BY <1>3, <2>2, <3>2 DEF RangeJobs, TypeInv, TypeOK
  <2> QED
    BY <2>1, <2>2
<1>4. CASE Handle(w)
  <2>1. worker[w].receipt \in Receipts
    BY <1>4 DEF Handle, TypeInv, HandInv
  <2>2. worker[w].receipt.message \in Messages
    BY <2>1 DEF Receipts
  <2>3. worker' \in [Workers -> Goroutines] /\ HandInv'
    <3>1. CASE worker' = [worker EXCEPT ![w].at = "delete"]
      BY <1>1, <1>2, <2>1, <3>1, GoroutineMoves
    <3>2. CASE worker' = [worker EXCEPT ![w] = Waiting]
      BY <1>2, <3>2, WaitingType
    <3> QED
      BY <1>4, <3>1, <3>2 DEF Handle, HandlerFails
  <2> QED
    BY <1>4, <2>2, <2>3 DEF Handle, TypeInv, TypeOK
<1>5. CASE DeleteMessage(w)
  <2>1. worker' \in [Workers -> Goroutines] /\ HandInv'
    BY <1>2, <1>5, WaitingType DEF DeleteMessage
  <2>2. queue' \in [Messages -> Entries]
    BY <1>5 DEF DeleteMessage, TypeInv, TypeOK, Entries
  <2> QED
    BY <1>5, <2>1, <2>2 DEF DeleteMessage, TypeInv, TypeOK, Entries
<1> QED
  BY <1>3, <1>4, <1>5 DEF Work

\* So do those of PollConcurrent and main.
LEMMA MainType ==
    TypeInv /\ (Poll \/ Signal \/ MainReturns \/ Timeout \/ Kill \/ Restart) => TypeInv'
<1>1. TypeInv /\ (Poll \/ Signal \/ MainReturns \/ Timeout \/ Kill) => TypeInv'
  <2> SUFFICES ASSUME TypeInv, Poll \/ Signal \/ MainReturns \/ Timeout \/ Kill PROVE TypeInv'
    OBVIOUS
  <2>1. /\ canceled' \in BOOLEAN /\ errCh' \in BOOLEAN
        /\ poll' \in {"wait", "drain", "returned"}
        /\ main' \in {"running", "stopping", "exited"}
    BY DEF Poll, AwaitError, AwaitWorkers, Signal, MainReturns, Timeout, Kill, Exit, TypeInv, TypeOK
  <2>2. stops' \in Nat
    BY DEF Poll, AwaitError, AwaitWorkers, Signal, MainReturns, Timeout, Kill, TypeInv, TypeOK
  <2>3. UNCHANGED <<detached, queue, handledOK, producer, batch, jobs, worker>>
    BY DEF Poll, AwaitError, AwaitWorkers, Signal, MainReturns, Timeout, Kill, Exit
  <2> QED
    BY <2>1, <2>2, <2>3 DEF TypeInv, TypeOK, HandInv
<1>2. TypeInv /\ Restart => TypeInv'
  <2> SUFFICES ASSUME TypeInv, Restart PROVE TypeInv'
    OBVIOUS
  <2>1. worker' \in [Workers -> Goroutines] /\ HandInv'
    BY WaitingType DEF Restart, HandInv
  <2>2. jobs' \in Seq(Receipts) /\ Len(jobs') <= ChannelSize
    BY EmptySeq, PoolAssumption DEF Restart
  <2> QED
    BY <2>1, <2>2 DEF Restart, TypeInv, TypeOK
<1> QED
  BY <1>1, <1>2

\* And those of SQS.
LEMMA SQSType ==
    ASSUME TypeInv, NEW m \in Messages, Reappear(m) \/ Redrive(m) PROVE TypeInv'
<1>1. queue' \in [Messages -> Entries]
  BY DEF Reappear, Redrive, TypeInv, TypeOK, Entries
<1> QED
  BY <1>1 DEF Reappear, Redrive, TypeInv, TypeOK, HandInv, Entries

\* Every step keeps the types.
LEMMA TypeStep == TypeInv /\ [Next]_vars => TypeInv'
<1>1. TypeInv /\ UNCHANGED vars => TypeInv'
  BY DEF vars, TypeInv, TypeOK, HandInv
<1> QED
  BY <1>1, ProducerType, WorkType, MainType, SQSType DEF Next

\* The initial state is well typed.
LEMMA InitType == Init => TypeInv
<1> SUFFICES ASSUME Init PROVE TypeInv
  OBVIOUS
<1>1. worker \in [Workers -> Goroutines] /\ HandInv
  BY WaitingType DEF Init, HandInv
<1>2. jobs \in Seq(Receipts) /\ Len(jobs) <= ChannelSize
  BY EmptySeq, PoolAssumption DEF Init
<1> QED
  BY <1>1, <1>2 DEF Init, TypeInv, TypeOK

\* Every variable of ConsumerPool keeps its type, and the jobs channel its size.
THEOREM Typing == Spec => []TypeOK
<1>1. TypeInv => TypeOK
  BY DEF TypeInv
<1> QED
  BY <1>1, InitType, TypeStep, PTL DEF Spec

-----------------------------------------------------------------------------
(* What is deleted was handled. *)

\* A goroutine that is about to delete has the handler's nil, or a poison message.
DoneInv ==
    /\ DeletedIsDone
    /\ \A w \in Workers :
          worker[w].at = "delete" => worker[w].receipt.message \in handledOK \cup Poison

\* Every step keeps it.
LEMMA DoneStep == TypeInv /\ DoneInv /\ [Next]_vars => DoneInv'
<1> SUFFICES ASSUME TypeInv, DoneInv, [Next]_vars PROVE DoneInv'
  OBVIOUS
<1>1. worker \in [Workers -> Goroutines] /\ queue \in [Messages -> Entries]
  BY DEF TypeInv, TypeOK, Entries
<1>2. CASE UNCHANGED <<handledOK, worker>>
           /\ \A m \in Messages : queue'[m].status = "deleted" => queue[m].status = "deleted"
  BY <1>2 DEF DoneInv, DeletedIsDone
<1>3. CASE Producer
  <2>1. UNCHANGED <<handledOK, worker>>
    BY <1>3 DEF Producer, CheckContext, ReceiveMessage, SendJob
  <2>2. \A m \in Messages : queue'[m].status = "deleted" => queue[m].status = "deleted"
    BY <1>3 DEF Producer, CheckContext, ReceiveMessage, SendJob, Hide
  <2> QED
    BY <1>2, <2>1, <2>2
<1>4. ASSUME NEW w \in Workers, Work(w) PROVE DoneInv'
  <2>1. worker[w] \in Goroutines
    BY <1>1
  <2>2. ASSUME NEW g, worker' = [worker EXCEPT ![w] = g],
               g.at = "delete" => g.receipt.message \in handledOK' \cup Poison,
               handledOK \subseteq handledOK',
               \A m \in Messages : queue'[m].status = "deleted" =>
                                       queue[m].status = "deleted" \/ m \in handledOK' \cup Poison
        PROVE  DoneInv'
    BY <1>1, <2>2 DEF DoneInv, DeletedIsDone
  <2>3. CASE RangeJobs(w)
    <3>1. CASE jobs # <<>>
      <4> DEFINE g == [at |-> IF Head(jobs).message \in Poison THEN "delete" ELSE "handle",
                       receipt |-> Head(jobs), late |-> canceled]
      <4>1. worker' = [worker EXCEPT ![w] = g] /\ UNCHANGED <<queue, handledOK>>
        BY <2>3, <3>1 DEF RangeJobs
      <4>2. g.at = "delete" => g.receipt.message \in handledOK' \cup Poison
        OBVIOUS
      <4> QED
        BY <2>2, <4>1, <4>2
    <3>2. CASE jobs = <<>>
      <4>1. worker' = [worker EXCEPT ![w] = [worker[w] EXCEPT !.at = "done"]]
            /\ UNCHANGED <<queue, handledOK>>
        BY <2>3, <3>2 DEF RangeJobs
      <4>2. [worker[w] EXCEPT !.at = "done"].at = "done"
        BY <2>1, GoroutineMoves
      <4> QED
        BY <2>2, <4>1, <4>2
    <3> QED
      BY <3>1, <3>2
  <2>4. CASE Handle(w)
    <3>1. CASE /\ handledOK' = handledOK \cup {worker[w].receipt.message}
               /\ worker' = [worker EXCEPT ![w].at = "delete"]
      <4>1. PICK g \in Goroutines :
                worker' = [worker EXCEPT ![w] = g] /\ g.receipt = worker[w].receipt
        BY <2>1, <3>1, GoroutineMoves
      <4>2. g.receipt.message \in handledOK' \cup Poison
        BY <3>1, <4>1
      <4>3. UNCHANGED queue
        BY <2>4 DEF Handle
      <4> QED
        BY <2>2, <3>1, <4>1, <4>2, <4>3
    <3>2. CASE HandlerFails(w) /\ UNCHANGED handledOK
      BY <2>2, <2>4, <3>2, WaitingType DEF Handle, HandlerFails
    <3> QED
      BY <2>4, <3>1, <3>2 DEF Handle
  <2>5. CASE DeleteMessage(w)
    <3>1. worker[w].receipt.message \in handledOK \cup Poison
      BY <2>5 DEF DeleteMessage, DoneInv
    <3>2. \A m \in Messages : queue'[m].status = "deleted" =>
              queue[m].status = "deleted" \/ m = worker[w].receipt.message
      BY <1>1, <2>5 DEF DeleteMessage
    <3>3. worker' = [worker EXCEPT ![w] = Waiting] /\ UNCHANGED handledOK
      BY <2>5 DEF DeleteMessage
    <3> QED
      BY <2>2, <3>1, <3>2, <3>3, WaitingType
  <2> QED
    BY <1>4, <2>3, <2>4, <2>5 DEF Work
<1>5. CASE Restart
  BY <1>5, WaitingType DEF Restart, DoneInv, DeletedIsDone
<1>6. ASSUME NEW m \in Messages, Reappear(m) \/ Redrive(m) PROVE DoneInv'
  <2>1. \A n \in Messages : n # m => queue'[n] = queue[n]
    BY <1>1, <1>6 DEF Reappear, Redrive
  <2>2. queue'[m].status \in {"visible", "dlq"}
    BY <1>1, <1>6 DEF Reappear, Redrive, Entries
  <2>3. \A n \in Messages : queue'[n].status = "deleted" => queue[n].status = "deleted"
    BY <2>1, <2>2
  <2> QED
    BY <1>2, <1>6, <2>3 DEF Reappear, Redrive
<1>7. CASE UNCHANGED <<handledOK, worker, queue>>
  BY <1>2, <1>7
<1> QED
  BY <1>3, <1>4, <1>5, <1>6, <1>7
     DEF Next, vars, Poll, AwaitError, AwaitWorkers, Signal, MainReturns, Timeout, Kill, Exit

\* Whatever is received again, canceled, killed or restarted, a message is deleted
\* only after a handler returned nil for it, or because it is poison.
THEOREM DeletedAfterHandling == Spec => []DeletedIsDone
<1>1. Init => DoneInv
  <2> SUFFICES ASSUME Init PROVE DoneInv
    OBVIOUS
  <2> QED
    BY WaitingType DEF Init, DoneInv, DeletedIsDone
<1>2. DoneInv => DeletedIsDone
  BY DEF DoneInv
<1> QED
  BY <1>1, <1>2, InitType, TypeStep, DoneStep, PTL DEF Spec

-----------------------------------------------------------------------------
(* PollConcurrent returns last. *)

\* The producer is behind every error, an empty closed channel behind every
\* goroutine that is done, and the pool behind PollConcurrent.
QuietInv ==
    /\ producer # "send" => batch = {}
    /\ errCh \/ poll # "wait" => producer = "closed"
    /\ \A w \in Workers : worker[w].at = "done" => producer = "closed" /\ jobs = <<>>
    /\ poll = "returned" => AllDone

\* Every step keeps it.
LEMMA QuietStep == TypeInv /\ QuietInv /\ [Next]_vars => QuietInv'
<1> SUFFICES ASSUME TypeInv, QuietInv, [Next]_vars PROVE QuietInv'
  OBVIOUS
<1>1. worker \in [Workers -> Goroutines]
  BY DEF TypeInv, TypeOK
<1>2. CASE CheckContext
  BY <1>2 DEF CheckContext, StopProducer, QuietInv, AllDone
<1>3. CASE ReceiveMessage
  BY <1>3 DEF ReceiveMessage, NothingReceived, QuietInv, AllDone
<1>4. CASE SendJob
  BY <1>4 DEF SendJob, StopProducer, QuietInv, AllDone
<1>5. ASSUME NEW w \in Workers, Work(w) PROVE QuietInv'
  <2>1. ASSUME NEW g, worker' = [worker EXCEPT ![w] = g], worker[w].at # "done",
               g.at = "done" => producer = "closed" /\ jobs = <<>>,
               UNCHANGED <<producer, batch, errCh, poll>>,
               jobs # <<>> \/ UNCHANGED jobs
        PROVE  QuietInv'
    BY <1>1, <2>1 DEF QuietInv, AllDone
  <2>2. CASE RangeJobs(w)
    <3>1. CASE jobs # <<>>
      BY <2>1, <2>2, <3>1 DEF RangeJobs
    <3>2. CASE jobs = <<>>
      BY <2>1, <2>2, <3>2 DEF RangeJobs
    <3> QED
      BY <3>1, <3>2
  <2>3. CASE Handle(w)
    <3>1. [worker[w] EXCEPT !.at = "delete"].at = "delete"
      BY <1>1, GoroutineMoves
    <3>2. \/ worker' = [worker EXCEPT ![w] = [worker[w] EXCEPT !.at = "delete"]]
          \/ worker' = [worker EXCEPT ![w] = Waiting]
      BY <2>3 DEF Handle, HandlerFails
    <3> QED
      BY <2>1, <2>3, <3>1, <3>2, WaitingType DEF Handle
  <2>4. CASE DeleteMessage(w)
    BY <2>1, <2>4, WaitingType DEF DeleteMessage
  <2> QED
    BY <1>5, <2>2, <2>3, <2>4 DEF Work
<1>6. CASE AwaitError
  BY <1>6 DEF AwaitError, QuietInv, AllDone
<1>7. CASE AwaitWorkers
  BY <1>7 DEF AwaitWorkers, QuietInv, AllDone
<1>8. CASE Restart
  BY <1>8, WaitingType DEF Restart, QuietInv, AllDone
<1>9. CASE UNCHANGED <<producer, batch, jobs, worker, errCh, poll>>
  BY <1>9 DEF QuietInv, AllDone
<1> QED
  BY <1>2, <1>3, <1>4, <1>5, <1>6, <1>7, <1>8, <1>9
     DEF Next, vars, Producer, Poll, Signal, MainReturns, Timeout, Kill, Exit, Reappear, Redrive

\* When PollConcurrent returns, the producer has stopped and every goroutine is
\* done: main closes the store behind nobody's back.
THEOREM ReturnsLast == Spec => []ReturnedIsQuiet
<1>1. Init => QuietInv
  <2> SUFFICES ASSUME Init PROVE QuietInv
    OBVIOUS
  <2> QED
    BY WaitingType DEF Init, QuietInv
<1>2. QuietInv => ReturnedIsQuiet
  BY PoolAssumption DEF QuietInv, AllDone, ReturnedIsQuiet
<1> QED
  BY <1>1, <1>2, InitType, TypeStep, QuietStep, PTL DEF Spec
=============================================================================
