------------------------- MODULE MockProviderProofs -------------------------
(***************************************************************************)
(* Types, sids and callbacks of MockProvider, for any sends,                *)
(* processes and outcomes.                                                 *)
(***************************************************************************)
EXTENDS MockProvider, SequenceTheorems, TLAPS

\* The variables the sids depend on.
SidType ==
    /\ alive \subseteq Instances
    /\ idx \in [Instances -> Nat]
    /\ pc \in [Sends -> {"new", "rejected", "classify", "posting", "done", "lost"}]
    /\ instance \in [Sends -> Instances \cup {NoInstance}]
    /\ sid \in [Sends -> Nat]
    /\ posts = [s \in Sends |-> posts[s]]

\* A send is not posted before it is accepted; an accepted one has a number below
\* its process's counter, which never goes back.
SidInv ==
    /\ SidType
    /\ \A s \in Sends :
          /\ pc[s] = "classify" => instance[s] \in Instances
          /\ pc[s] \in {"new", "classify"} => posts[s] = <<>>
          /\ Accepted(s) => instance[s] \in Instances /\ sid[s] < idx[instance[s]]
    /\ DistinctSids

\* A step that accepts no send, moves no counter back and renumbers nothing keeps
\* the invariant.
LEMMA NothingAccepted ==
    ASSUME SidInv, SidType', UNCHANGED sid,
           \A i \in Instances : idx[i] <= idx'[i],
           \A s \in Sends :
              /\ Accepted(s)' => Accepted(s) /\ instance'[s] = instance[s]
              /\ pc'[s] = "classify" => instance'[s] \in Instances
              /\ pc'[s] \in {"new", "classify"} => posts'[s] = <<>>
    PROVE  SidInv'
<1>1. ASSUME NEW s \in Sends, Accepted(s)'
      PROVE  /\ Accepted(s) /\ instance'[s] = instance[s] /\ sid'[s] = sid[s]
             /\ instance'[s] \in Instances /\ sid'[s] < idx'[instance'[s]]
  <2>1. /\ Accepted(s) /\ instance'[s] = instance[s] /\ sid'[s] = sid[s]
        /\ instance[s] \in Instances /\ sid[s] < idx[instance[s]]
    BY <1>1 DEF SidInv
  <2> QED
    BY <2>1 DEF SidInv, SidType
<1>2. DistinctSids'
  <2> SUFFICES ASSUME NEW s \in Sends, NEW t \in Sends,
                      s # t, Accepted(s)', Accepted(t)', instance'[s] = instance'[t]
               PROVE  sid'[s] # sid'[t]
    BY DEF DistinctSids
  <2> QED
    BY <1>1 DEF SidInv, DistinctSids
<1> QED
  BY <1>1, <1>2 DEF SidInv

\* Accepting a send draws the counter's value and moves the counter past it.
LEMMA AcceptNumbers == ASSUME SidInv, NEW s \in Sends, Accept(s) PROVE SidInv'
<1> DEFINE i == instance[s]
<1>1. i \in Instances /\ idx[i] \in Nat
  BY DEF Accept, SidInv, SidType
<1>2. /\ idx'[i] = idx[i] + 1 /\ sid'[s] = idx[i]
      /\ \A j \in Instances : j # i => idx'[j] = idx[j]
      /\ \A t \in Sends : t # s => sid'[t] = sid[t] /\ pc'[t] = pc[t]
      /\ pc'[s] = "posting" /\ UNCHANGED <<instance, posts>>
  BY <1>1 DEF Accept, Advance, SidInv, SidType
<1>3. SidType'
  BY <1>1 DEF Accept, Advance, SidInv, SidType
<1>4. ASSUME NEW t \in Sends, t # s, Accepted(t)'
      PROVE  /\ Accepted(t) /\ sid'[t] = sid[t] /\ instance[t] \in Instances
             /\ sid[t] < idx[instance[t]]
  BY <1>2, <1>4 DEF Accepted, SidInv
<1>5. \A t \in Sends : Accepted(t)' => /\ instance'[t] \in Instances
                                       /\ sid'[t] < idx'[instance'[t]]
  <2>1. SUFFICES ASSUME NEW t \in Sends, Accepted(t)'
                 PROVE  instance[t] \in Instances /\ sid'[t] < idx'[instance[t]]
    BY <1>2
  <2>2. CASE t = s
    BY <1>1, <1>2, <2>2
  <2>3. CASE t # s
    <3>1. /\ sid'[t] = sid[t] /\ instance[t] \in Instances /\ sid[t] < idx[instance[t]]
          /\ sid[t] \in Nat /\ idx[instance[t]] \in Nat
      BY <1>4, <2>1, <2>3 DEF SidInv, SidType
    <3>2. idx'[instance[t]] = idx[instance[t]] \/ idx'[instance[t]] = idx[instance[t]] + 1
      BY <1>2, <3>1
    <3> QED
      BY <3>1, <3>2
  <2> QED
    BY <2>2, <2>3
<1>6. ASSUME NEW t \in Sends, t # s, Accepted(t)', instance[t] = i PROVE sid'[t] < sid'[s]
  BY <1>2, <1>4, <1>6
<1>7. DistinctSids'
  <2> SUFFICES ASSUME NEW t \in Sends, NEW u \in Sends,
                      t # u, Accepted(t)', Accepted(u)', instance'[t] = instance'[u]
               PROVE  sid'[t] # sid'[u]
    BY DEF DistinctSids
  <2>1. sid'[t] \in Nat /\ sid'[u] \in Nat /\ instance[t] = instance[u]
    BY <1>2, <1>3 DEF SidType
  <2>2. CASE t = s
    BY <1>6, <2>1, <2>2
  <2>3. CASE u = s
    BY <1>6, <2>1, <2>3
  <2>4. CASE t # s /\ u # s
    BY <1>4, <2>1, <2>4 DEF SidInv, DistinctSids
  <2> QED
    BY <2>2, <2>3, <2>4
<1>8. \A t \in Sends : /\ pc'[t] = "classify" => instance'[t] \in Instances
                       /\ pc'[t] \in {"new", "classify"} => posts'[t] = <<>>
  BY <1>2 DEF SidInv
<1> QED
  BY <1>3, <1>5, <1>7, <1>8 DEF SidInv

\* Every step keeps the invariant.
LEMMA SidStep == SidInv /\ [Next]_vars => SidInv'
<1> SUFFICES ASSUME SidInv, [Next]_vars PROVE SidInv'
  OBVIOUS
<1>1. SidType
  BY DEF SidInv
<1>2. ASSUME NEW s \in Sends, Reject(s) \/ Refuse(s) PROVE SidInv'
  <2>1. SidType' /\ UNCHANGED <<sid, idx, instance, posts>>
    BY <1>1, <1>2 DEF Reject, Refuse, SidType
  <2>2. \A t \in Sends : pc'[t] = IF t = s THEN "rejected" ELSE pc[t]
    BY <1>1, <1>2 DEF Reject, Refuse, SidType
  <2>3. \A i \in Instances : idx[i] <= idx'[i]
    BY <2>1 DEF SidType
  <2> QED
    BY <2>1, <2>2, <2>3, NothingAccepted DEF Accepted, SidInv
<1>3. ASSUME NEW s \in Sends, NEW i \in Instances, nextOutcome(s, i) PROVE SidInv'
  <2>1. SidType' /\ UNCHANGED <<sid, posts>>
    BY <1>1, <1>3 DEF nextOutcome, SidType
  <2>2. \A t \in Sends : /\ pc'[t] = IF t = s THEN "classify" ELSE pc[t]
                         /\ instance'[t] = IF t = s THEN i ELSE instance[t]
    BY <1>1, <1>3 DEF nextOutcome, SidType
  <2>3. \A j \in Instances : idx[j] <= idx'[j]
    BY <1>1, <1>3 DEF nextOutcome, SidType
  <2>4. pc[s] = "new" /\ posts[s] = <<>>
    BY <1>3 DEF nextOutcome, SidInv
  <2> QED
    BY <2>1, <2>2, <2>3, <2>4, NothingAccepted DEF Accepted, SidInv
<1>4. ASSUME NEW s \in Sends, PostWebhook(s) PROVE SidInv'
  <2>1. /\ UNCHANGED <<alive, idx, instance, sid>> /\ pc[s] = "posting"
        /\ \A t \in Sends \ {s} : pc'[t] = pc[t] /\ posts'[t] = posts[t]
        /\ pc'[s] \in {"posting", "done"}
    BY <1>1, <1>4 DEF PostWebhook, SidType
  <2>2. SidType'
    BY <1>1, <1>4 DEF PostWebhook, SidType
  <2>3. \A i \in Instances : idx[i] <= idx'[i]
    BY <2>1, <2>2 DEF SidType
  <2>4. \A t \in Sends : Accepted(t)' => Accepted(t)
    BY <2>1 DEF Accepted
  <2> QED
    BY <2>1, <2>2, <2>3, <2>4, NothingAccepted DEF SidInv
<1>5. ASSUME NEW i \in Instances, Crash(i) PROVE SidInv'
  <2>1. SidType' /\ UNCHANGED <<sid, idx, instance, posts>>
    BY <1>1, <1>5 DEF Crash, SidType
  <2>2. \A t \in Sends : pc'[t] = pc[t] \/ pc'[t] = "lost"
    BY <1>5 DEF Crash
  <2>3. \A j \in Instances : idx[j] <= idx'[j]
    BY <2>1 DEF SidType
  <2> QED
    BY <2>1, <2>2, <2>3, NothingAccepted DEF Accepted, SidInv
<1>6. CASE UNCHANGED vars
  BY <1>6 DEF vars, SidInv, SidType, DistinctSids, Accepted
<1> QED
  BY <1>2, <1>3, <1>4, <1>5, <1>6, AcceptNumbers DEF Next

\* However the handlers of a process interleave, in every outcome mode, no two
\* sends it accepts get the same sid.
THEOREM Numbering == Spec => []DistinctSids
<1>1. Init => SidInv
  BY DEF Init, SidInv, SidType, DistinctSids, Accepted
<1>2. SidInv => DistinctSids
  BY DEF SidInv
<1> QED
  BY <1>1, <1>2, SidStep, PTL DEF Spec

-----------------------------------------------------------------------------
(* Types. *)

Posted == [status: CallbackStatus, ok: BOOLEAN]

\* A send that is answered 201 has callbacks to post, and one at work has some left.
HandInv ==
    /\ \A s \in Sends : pc[s] = "posting" => todo[s] # <<>>
    /\ \A s \in Sends : pc[s] = "classify" => instance[s] \in Instances

TypeInv == TypeOK /\ HandInv

\* The callbacks of an accepted kind.
LEMMA CallbacksType ==
    ASSUME NEW kind \in Kinds, HTTPStatus(kind) = 201
    PROVE  CallbacksOf(kind) \in Seq(CallbackStatus) /\ CallbacksOf(kind) # <<>>
<1>1. kind \in {"ok", "undelivered", "failed"}
  BY DEF HTTPStatus, Kinds
<1> DEFINE first == IF IncludeQueued THEN <<"queued">> ELSE <<>>
           second == IF kind = "failed" THEN <<>> ELSE <<"sent">>
           last == <<FinalStatus(kind)>>
<1>2. first \in Seq(CallbackStatus) /\ second \in Seq(CallbackStatus)
  BY DEF CallbackStatus
<1>3. last \in Seq(CallbackStatus) /\ Len(last) = 1
  BY <1>1 DEF FinalStatus, CallbackStatus
<1> HIDE DEF first, second, last
<1>4. PICK front \in Seq(CallbackStatus) : front = first \o second
  BY <1>2, ConcatProperties
<1>5. /\ front \o last \in Seq(CallbackStatus)
      /\ Len(front \o last) = Len(front) + 1 /\ Len(front) \in Nat
  <2>1. front \in Seq(CallbackStatus) /\ last \in Seq(CallbackStatus)
    BY <1>3, <1>4
  <2>2. front \o last \in Seq(CallbackStatus) /\ Len(front \o last) = Len(front) + Len(last)
    BY <2>1, ConcatProperties, Zenon
  <2>3. Len(front) \in Nat
    BY <2>1, LenProperties
  <2> QED
    BY <1>3, <2>2, <2>3
<1>6. front \o last # <<>>
  BY <1>5, EmptySeq
<1> QED
  BY <1>4, <1>5, <1>6 DEF CallbacksOf, first, second, last

\* The next outcome is a kind the configuration allows.
LEMMA OutcomeType ==
    ASSUME TypeInv, NEW s \in Sends, NEW i \in Instances, nextOutcome(s, i)
    PROVE  outcome' \in [Sends -> Kinds]
<1>1. Len(Outcomes) \in Nat \ {0} /\ \A k \in 1..Len(Outcomes) : Outcomes[k] \in Kinds
  BY ProviderAssumption, LenProperties, EmptySeq, ElementOfSeq
<1>2. (idx[i] % Len(Outcomes)) + 1 \in 1..Len(Outcomes)
  BY <1>1 DEF TypeInv, TypeOK
<1>3. "ok" \in Kinds /\ FailureKinds \subseteq Kinds /\ DOMAIN Outcomes = 1..Len(Outcomes)
  BY ProviderAssumption, LenProperties DEF Kinds
<1>4. PICK kind \in CASE mode = "round_robin" -> {Outcomes[(idx[i] % Len(Outcomes)) + 1]}
                      [] mode = "weighted"    -> {"ok"} \cup FailureKinds
                      [] mode = "random"      -> {Outcomes[k] : k \in DOMAIN Outcomes}
                      [] mode = "fixed"       -> {Outcomes[1]} :
          outcome' = [outcome EXCEPT ![s] = kind]
  BY DEF nextOutcome
<1>5. kind \in Kinds
  <2>1. mode \in Modes
    BY DEF TypeInv, TypeOK
  <2>2. CASE mode = "round_robin"
    BY <1>1, <1>2, <1>4, <2>2
  <2>3. CASE mode = "weighted"
    BY <1>3, <1>4, <2>3
  <2>4. CASE mode = "random"
    BY <1>1, <1>3, <1>4, <2>4
  <2>5. CASE mode = "fixed"
    BY <1>1, <1>4, <2>5
  <2> QED
    BY <2>1, <2>2, <2>3, <2>4, <2>5 DEF Modes
<1> QED
  BY <1>4, <1>5 DEF TypeInv, TypeOK

\* A post keeps the types: the loop stops at its last attempt.
LEMMA PostType == ASSUME TypeInv, NEW s \in Sends, PostWebhook(s) PROVE TypeInv'
<1>1. todo[s] \in Seq(CallbackStatus) /\ todo[s] # <<>> /\ posts[s] \in Seq(Posted)
  BY DEF PostWebhook, TypeInv, TypeOK, HandInv, Posted
<1>2. Head(todo[s]) \in CallbackStatus /\ Tail(todo[s]) \in Seq(CallbackStatus)
  BY <1>1, HeadTailProperties
<1>3. PICK status \in Statuses :
          /\ posts' = [posts EXCEPT ![s] = Append(@, [status |-> Head(todo[s]), ok |-> Success(status)])]
          /\ \/ /\ attempt' = [attempt EXCEPT ![s] = 0]
                /\ todo' = [todo EXCEPT ![s] = AfterCallback(s, status)]
                /\ pc' = [pc EXCEPT ![s] = IF todo'[s] = <<>> THEN "done" ELSE "posting"]
             \/ /\ ~LastAttempt(s)
                /\ attempt' = [attempt EXCEPT ![s] = @ + 1]
                /\ UNCHANGED <<todo, pc>>
  BY DEF PostWebhook, Finished
<1>4. posts' \in [Sends -> Seq(Posted)]
  <2>1. Success(status) \in BOOLEAN
    BY DEF Success
  <2>2. [status |-> Head(todo[s]), ok |-> Success(status)] \in Posted
    BY <1>2, <2>1, Zenon DEF Posted
  <2>3. Append(posts[s], [status |-> Head(todo[s]), ok |-> Success(status)]) \in Seq(Posted)
    BY <1>1, <2>2, AppendProperties
  <2> QED
    BY <1>3, <2>3 DEF TypeInv, TypeOK, Posted
<1>5. todo' \in [Sends -> Seq(CallbackStatus)]
  BY <1>2, <1>3 DEF AfterCallback, TypeInv, TypeOK
<1>6. attempt' \in [Sends -> 0..MaxRetries]
  <2>1. attempt[s] \in 0..MaxRetries
    BY DEF TypeInv, TypeOK
  <2>2. ~LastAttempt(s) => attempt[s] + 1 \in 0..MaxRetries
    BY <2>1, ProviderAssumption DEF LastAttempt
  <2>3. 0 \in 0..MaxRetries
    BY ProviderAssumption
  <2> QED
    BY <1>3, <2>2, <2>3 DEF TypeInv, TypeOK
<1>7. pc' \in [Sends -> {"new", "rejected", "classify", "posting", "done", "lost"}] /\ HandInv'
  BY <1>3, <1>5 DEF PostWebhook, TypeInv, TypeOK, HandInv
<1> QED
  BY <1>4, <1>5, <1>6, <1>7 DEF PostWebhook, TypeInv, TypeOK, Posted

\* Every step keeps the types.
LEMMA TypeStep == TypeInv /\ [Next]_vars => TypeInv'
<1> SUFFICES ASSUME TypeInv, [Next]_vars PROVE TypeInv'
  OBVIOUS
<1>1. ASSUME NEW s \in Sends, Reject(s) \/ Refuse(s) PROVE TypeInv'
  BY <1>1 DEF Reject, Refuse, TypeInv, TypeOK, HandInv
<1>2. ASSUME NEW s \in Sends, NEW i \in Instances, nextOutcome(s, i) PROVE TypeInv'
  <2>1. outcome' \in [Sends -> Kinds]
    BY <1>2, OutcomeType
  <2>2. idx' \in [Instances -> Nat]
    BY <1>2 DEF nextOutcome, TypeInv, TypeOK
  <2> QED
    BY <1>2, <2>1, <2>2 DEF nextOutcome, TypeInv, TypeOK, HandInv
<1>3. ASSUME NEW s \in Sends, Accept(s) PROVE TypeInv'
  <2>1. outcome[s] \in Kinds /\ HTTPStatus(outcome[s]) = 201 /\ instance[s] \in Instances
    BY <1>3 DEF Accept, TypeInv, TypeOK, HandInv
  <2>2. CallbacksOf(outcome[s]) \in Seq(CallbackStatus) /\ CallbacksOf(outcome[s]) # <<>>
    BY <2>1, CallbacksType
  <2>3. todo' \in [Sends -> Seq(CallbackStatus)] /\ HandInv'
    BY <1>3, <2>2 DEF Accept, TypeInv, TypeOK, HandInv
  <2>4. idx' \in [Instances -> Nat] /\ sid' \in [Sends -> Nat]
    BY <1>3, <2>1 DEF Accept, Advance, TypeInv, TypeOK
  <2> QED
    BY <1>3, <2>3, <2>4 DEF Accept, TypeInv, TypeOK
<1>4. ASSUME NEW i \in Instances, Crash(i) PROVE TypeInv'
  BY <1>4 DEF Crash, TypeInv, TypeOK, HandInv
<1>5. CASE UNCHANGED vars
  BY <1>5 DEF vars, TypeInv, TypeOK, HandInv
<1> QED
  BY <1>1, <1>2, <1>3, <1>4, <1>5, PostType DEF Next

\* The initial state is well typed.
LEMMA InitTypeInv == Init => TypeInv
<1> SUFFICES ASSUME Init PROVE TypeInv
  OBVIOUS
<1>1. <<>> \in Seq(CallbackStatus) /\ <<>> \in Seq(Posted)
  BY EmptySeq
<1> QED
  BY <1>1, ProviderAssumption DEF Init, TypeInv, TypeOK, HandInv, Kinds, Posted

\* Every variable of MockProvider keeps its type, and no callback is attempted
\* more than MaxRetries + 1 times.
THEOREM Typing == Spec => []TypeOK
<1>1. TypeInv => TypeOK
  BY DEF TypeInv
<1> QED
  BY <1>1, InitTypeInv, TypeStep, PTL DEF Spec

-----------------------------------------------------------------------------
(* The protocol of the posts. *)

\* A sequence without repetition.
Distinct(seq) == \A i, j \in 1..Len(seq) : i # j => seq[i] # seq[j]

\* What KeepsToProtocol asks of the posts of one send.
InOrder(seq) ==
    \A i, j \in 1..Len(seq) : i < j =>
        IF seq[i].status = seq[j].status
          THEN ~seq[i].ok /\ j - i <= MaxRetries
          ELSE \A k \in j..Len(seq) : seq[k].status # seq[i].status

\* Of what was posted, the last n posts are the failed ones of the next callback to
\* do; what was posted before them is not posted again.
Recent(seq, next, n) ==
    \A i \in 1..Len(seq) :
        IF i > Len(seq) - n
          THEN seq[i].status = next[1] /\ ~seq[i].ok
          ELSE \A k \in 1..Len(next) : seq[i].status # next[k]

\* The next callback may be posted again, after its failed posts.
LEMMA PostInOrder ==
    ASSUME NEW seq \in Seq(Posted), NEW next \in Seq(CallbackStatus), Len(next) > 0,
           NEW n \in 0..MaxRetries, n <= Len(seq),
           InOrder(seq), Recent(seq, next, n),
           NEW p \in Posted, p.status = next[1],
           NEW longer, longer = Append(seq, p)
    PROVE  InOrder(longer)
<1>1. /\ Len(seq) \in Nat /\ MaxRetries \in Nat /\ Len(longer) = Len(seq) + 1
      /\ \A i \in 1..Len(seq) : longer[i] = seq[i]
      /\ longer[Len(seq) + 1] = p
  BY AppendProperties, LenProperties, ProviderAssumption
<1>2. 1 \in 1..Len(next)
  BY LenProperties
<1>3. \A i \in 1..Len(seq) : seq[i].status = next[1] => i > Len(seq) - n /\ ~seq[i].ok
  BY <1>2 DEF Recent
<1>4. \A i \in 1..Len(seq) : i > Len(seq) - n => seq[i].status = next[1]
  BY DEF Recent
<1> SUFFICES ASSUME NEW i \in 1..Len(longer), NEW j \in 1..Len(longer), i < j
             PROVE  IF longer[i].status = longer[j].status
                      THEN ~longer[i].ok /\ j - i <= MaxRetries
                      ELSE \A k \in j..Len(longer) : longer[k].status # longer[i].status
  BY DEF InOrder
<1>5. i \in 1..Len(seq) /\ longer[i] = seq[i]
  BY <1>1
<1>6. CASE j = Len(seq) + 1
  <2>1. longer[j] = p
    BY <1>1, <1>6
  <2>2. CASE seq[i].status = next[1]
    <3>1. ~seq[i].ok /\ i > Len(seq) - n
      BY <1>3, <1>5, <2>2
    <3>2. j - i <= MaxRetries
      BY <1>1, <1>5, <1>6, <3>1
    <3> QED
      BY <1>5, <2>1, <2>2, <3>1, <3>2
  <2>3. CASE seq[i].status # next[1]
    <3>1. \A k \in j..Len(longer) : k = j
      BY <1>1, <1>6
    <3> QED
      BY <1>5, <2>1, <2>3, <3>1
  <2> QED
    BY <2>2, <2>3
<1>7. CASE j # Len(seq) + 1
  <2>1. j \in 1..Len(seq) /\ longer[j] = seq[j]
    BY <1>1, <1>7
  <2>2. IF seq[i].status = seq[j].status
          THEN ~seq[i].ok /\ j - i <= MaxRetries
          ELSE \A k \in j..Len(seq) : seq[k].status # seq[i].status
    BY <1>5, <2>1 DEF InOrder
  <2>3. CASE seq[i].status = seq[j].status
    BY <1>5, <2>1, <2>2, <2>3
  <2>4. CASE seq[i].status # seq[j].status
    <3>1. seq[i].status # next[1]
      <4>1. SUFFICES ASSUME seq[i].status = next[1] PROVE FALSE
        OBVIOUS
      <4>2. i > Len(seq) - n
        BY <1>3, <1>5, <4>1
      <4>3. j > Len(seq) - n
        BY <1>1, <1>5, <2>1, <4>2
      <4> QED
        BY <1>4, <2>1, <2>4, <4>1, <4>3
    <3>2. ASSUME NEW k \in j..Len(longer) PROVE longer[k].status # longer[i].status
      <4>1. CASE k = Len(seq) + 1
        BY <1>1, <1>5, <3>1, <4>1
      <4>2. CASE k # Len(seq) + 1
        <5>1. k \in j..Len(seq) /\ k \in 1..Len(seq)
          BY <1>1, <2>1, <3>2, <4>2
        <5> QED
          BY <1>1, <1>5, <2>2, <2>4, <5>1
      <4> QED
        BY <4>1, <4>2
    <3> QED
      BY <1>5, <2>1, <2>4, <3>2
  <2> QED
    BY <2>3, <2>4
<1> QED
  BY <1>6, <1>7

\* A failed post is one more of the last ones.
LEMMA PostFailed ==
    ASSUME NEW seq \in Seq(Posted), NEW next \in Seq(CallbackStatus),
           NEW n \in Nat, n <= Len(seq), Recent(seq, next, n),
           NEW p \in Posted, p.status = next[1], ~p.ok,
           NEW longer, longer = Append(seq, p)
    PROVE  Recent(longer, next, n + 1)
<1>1. /\ Len(seq) \in Nat /\ Len(longer) = Len(seq) + 1
      /\ \A i \in 1..Len(seq) : longer[i] = seq[i]
      /\ longer[Len(seq) + 1] = p
  BY AppendProperties, LenProperties
<1> SUFFICES ASSUME NEW i \in 1..Len(longer)
             PROVE  IF i > Len(longer) - (n + 1)
                      THEN longer[i].status = next[1] /\ ~longer[i].ok
                      ELSE \A k \in 1..Len(next) : longer[i].status # next[k]
  BY DEF Recent
<1>2. CASE i = Len(seq) + 1
  <2>1. longer[i] = p /\ i > Len(longer) - (n + 1)
    BY <1>1, <1>2
  <2> QED
    BY <2>1
<1>3. CASE i # Len(seq) + 1
  <2>1. i \in 1..Len(seq) /\ longer[i] = seq[i] /\ Len(longer) - (n + 1) = Len(seq) - n
    BY <1>1, <1>3
  <2> QED
    BY <2>1 DEF Recent
<1> QED
  BY <1>2, <1>3

\* With the next callback done, nothing that was posted is posted again.
LEMMA PostDone ==
    ASSUME NEW seq \in Seq(Posted), NEW next \in Seq(CallbackStatus), Len(next) > 0,
           NEW n \in Nat, n <= Len(seq), Recent(seq, next, n), Distinct(next),
           NEW p \in Posted, p.status = next[1],
           NEW longer, longer = Append(seq, p), NEW rest, rest = Tail(next)
    PROVE  Recent(longer, rest, 0) /\ Distinct(rest)
<1>1. /\ Len(seq) \in Nat /\ Len(longer) = Len(seq) + 1
      /\ \A i \in 1..Len(seq) : longer[i] = seq[i]
      /\ longer[Len(seq) + 1] = p
  BY AppendProperties, LenProperties
<1>2. /\ Len(next) \in Nat /\ Len(rest) = Len(next) - 1
      /\ \A k \in 1..Len(rest) : rest[k] = next[k + 1]
  BY HeadTailProperties, LenProperties, EmptySeq
<1>3. Distinct(rest)
  BY <1>2 DEF Distinct
<1>4. \A k \in 1..Len(rest) : rest[k] # next[1]
  BY <1>2 DEF Distinct
<1>5. ASSUME NEW i \in 1..Len(longer), NEW k \in 1..Len(rest) PROVE longer[i].status # rest[k]
  <2>1. CASE longer[i].status = next[1]
    BY <1>4, <2>1
  <2>2. CASE longer[i].status # next[1]
    <3>1. i \in 1..Len(seq) /\ longer[i] = seq[i]
      BY <1>1, <2>2
    <3>2. k + 1 \in 1..Len(next) /\ rest[k] = next[k + 1]
      BY <1>2
    <3> QED
      BY <2>2, <3>1, <3>2 DEF Recent
  <2> QED
    BY <2>1, <2>2
<1>6. \A i \in 1..Len(longer) : ~(i > Len(longer) - 0)
  BY <1>1
<1> QED
  BY <1>3, <1>5, <1>6 DEF Recent

\* A sequence of one element, and one of none.
LEMMA ShortSequences ==
    ASSUME NEW S, NEW e \in S
    PROVE  /\ <<e>> \in Seq(S) /\ Len(<<e>>) = 1 /\ <<e>>[1] = e
           /\ <<>> \in Seq(S) /\ Len(<<>>) = 0
  OBVIOUS

\* The elements of a sequence.
Within(seq, elements) == \A i \in 1..Len(seq) : seq[i] \in elements

\* What comes first, if anything, comes before what else there is.
LEMMA JoinedDistinct ==
    ASSUME NEW S, NEW e \in S, NEW first \in {<<>>, <<e>>},
           NEW seq \in Seq(S), Distinct(seq), NEW others, Within(seq, others), e \notin others,
           NEW all, all = first \o seq
    PROVE  all \in Seq(S) /\ Distinct(all) /\ Within(all, others \cup {e})
<1>1. CASE first = <<>>
  <2>1. all = seq
    BY <1>1, ConcatEmptySeq
  <2> QED
    BY <2>1 DEF Within
<1>2. CASE first = <<e>>
  <2>1. first \in Seq(S) /\ Len(first) = 1 /\ first[1] = e /\ Len(seq) \in Nat
    BY <1>2, ShortSequences, LenProperties
  <2>2. /\ all \in Seq(S) /\ Len(all) = 1 + Len(seq)
        /\ \A i \in 1..1 + Len(seq) : all[i] = IF i <= 1 THEN first[i] ELSE seq[i - 1]
    <3>1. first \in Seq(S) /\ seq \in Seq(S)
      BY <2>1
    <3>2. /\ first \o seq \in Seq(S) /\ Len(first \o seq) = Len(first) + Len(seq)
          /\ \A i \in 1..Len(first) + Len(seq) :
                (first \o seq)[i] = IF i <= Len(first) THEN first[i] ELSE seq[i - Len(first)]
      BY ONLY <3>1, ConcatProperties, ZenonT(30)
    <3> QED
      BY <2>1, <3>2
  <2>3. all[1] = e /\ \A i \in 2..Len(all) : i - 1 \in 1..Len(seq) /\ all[i] = seq[i - 1]
    BY <2>1, <2>2
  <2>4. \A i \in 1..Len(all) : i = 1 \/ i \in 2..Len(all)
    BY <2>1, <2>2
  <2>5. Distinct(all)
    <3> SUFFICES ASSUME NEW i \in 1..Len(all), NEW j \in 1..Len(all), i # j
                 PROVE  all[i] # all[j]
      BY DEF Distinct
    <3>1. CASE i = 1
      BY <2>3, <2>4, <3>1 DEF Within
    <3>2. CASE j = 1
      BY <2>3, <2>4, <3>2 DEF Within
    <3>3. CASE i # 1 /\ j # 1
      <4>1. /\ i - 1 \in 1..Len(seq) /\ all[i] = seq[i - 1]
            /\ j - 1 \in 1..Len(seq) /\ all[j] = seq[j - 1] /\ i - 1 # j - 1
        BY <2>2, <2>3, <2>4, <3>3
      <4> QED
        BY <4>1 DEF Distinct
    <3> QED
      BY <3>1, <3>2, <3>3
  <2>6. Within(all, others \cup {e})
    BY <2>3, <2>4 DEF Within
  <2> QED
    BY <2>2, <2>5, <2>6
<1> QED
  BY <1>1, <1>2

\* The callbacks of a send are distinct.
LEMMA CallbacksDistinct ==
    ASSUME NEW kind \in Kinds, HTTPStatus(kind) = 201
    PROVE  Distinct(CallbacksOf(kind))
<1>1. kind \in {"ok", "undelivered", "failed"}
  BY DEF HTTPStatus, Kinds
<1> DEFINE first == IF IncludeQueued THEN <<"queued">> ELSE <<>>
           second == IF kind = "failed" THEN <<>> ELSE <<"sent">>
           last == <<FinalStatus(kind)>>
<1>2. FinalStatus(kind) \in {"delivered", "undelivered", "failed"}
  BY <1>1 DEF FinalStatus
<1>3. {"queued", "sent", "delivered", "undelivered", "failed"} = CallbackStatus
  BY DEF CallbackStatus
<1>4. /\ last \in Seq(CallbackStatus) /\ Len(last) = 1 /\ last[1] = FinalStatus(kind)
  BY <1>2, <1>3, ShortSequences
<1>5. first \in {<<>>, <<"queued">>} /\ second \in {<<>>, <<"sent">>}
  OBVIOUS
<1> HIDE DEF first, second, last
<1> DEFINE outcomes == {"delivered", "undelivered", "failed"}
<1>6. Distinct(last) /\ Within(last, outcomes)
  BY <1>2, <1>4 DEF Distinct, Within
<1>7. "sent" \in CallbackStatus /\ "sent" \notin outcomes
      /\ "queued" \in CallbackStatus /\ "queued" \notin outcomes \cup {"sent"}
  BY <1>3
<1> HIDE DEF outcomes
<1>8. /\ second \o last \in Seq(CallbackStatus) /\ Distinct(second \o last)
      /\ Within(second \o last, outcomes \cup {"sent"})
  BY <1>4, <1>5, <1>6, <1>7, JoinedDistinct
<1>9. Distinct(first \o (second \o last))
  BY <1>5, <1>7, <1>8, JoinedDistinct
<1>10. (first \o second) \o last = first \o (second \o last)
  <2>1. first \in Seq(CallbackStatus) /\ second \in Seq(CallbackStatus)
    BY DEF first, second, CallbackStatus
  <2> QED
    BY <1>4, <2>1, ConcatAssociative
<1> QED
  BY <1>9, <1>10 DEF CallbacksOf, first, second, last

\* What is posted, what is left to post and the attempts, of every send.
PostedInv ==
    \A s \in Sends :
        /\ Distinct(todo[s]) /\ InOrder(posts[s]) /\ Recent(posts[s], todo[s], attempt[s])
        /\ attempt[s] <= Len(posts[s])
        /\ pc[s] \in {"new", "classify"} => posts[s] = <<>> /\ attempt[s] = 0

\* A post keeps it: it joins the failed posts of its callback, or is the last of them.
LEMMA PostKeepsProtocol ==
    ASSUME TypeInv, PostedInv, NEW s \in Sends, PostWebhook(s) PROVE PostedInv'
<1>1. /\ todo[s] \in Seq(CallbackStatus) /\ todo[s] # <<>> /\ posts[s] \in Seq(Posted)
      /\ Len(posts[s]) \in Nat /\ attempt[s] \in 0..MaxRetries /\ attempt[s] <= Len(posts[s])
      /\ MaxRetries \in Nat
  BY ProviderAssumption, LenProperties
     DEF PostWebhook, PostedInv, TypeInv, TypeOK, HandInv, Posted
<1>2. Len(todo[s]) > 0 /\ Head(todo[s]) = todo[s][1] /\ Head(todo[s]) \in CallbackStatus
  BY <1>1, HeadTailProperties, LenProperties, EmptySeq
<1>3. /\ Distinct(todo[s]) /\ InOrder(posts[s]) /\ Recent(posts[s], todo[s], attempt[s])
  BY DEF PostedInv
<1>4. PICK status \in Statuses :
          /\ posts' = [posts EXCEPT ![s] = Append(@, [status |-> Head(todo[s]), ok |-> Success(status)])]
          /\ \/ /\ attempt' = [attempt EXCEPT ![s] = 0]
                /\ todo' = [todo EXCEPT ![s] = Tail(todo[s])]
             \/ /\ ~Success(status)
                /\ attempt' = [attempt EXCEPT ![s] = @ + 1]
                /\ UNCHANGED todo
  BY DEF PostWebhook, Finished, AfterCallback
<1>5. PICK p \in Posted : /\ p = [status |-> Head(todo[s]), ok |-> Success(status)]
                          /\ p.status = todo[s][1] /\ (~Success(status) => ~p.ok)
  <2>1. Success(status) \in BOOLEAN
    BY DEF Success
  <2>2. [status |-> Head(todo[s]), ok |-> Success(status)] \in Posted
    BY <1>2, <2>1, Zenon DEF Posted
  <2> QED
    BY <1>2, <2>2, Zenon
<1>6. PICK longer \in Seq(Posted) : /\ longer = Append(posts[s], p) /\ posts'[s] = longer
                                    /\ Len(longer) = Len(posts[s]) + 1
  <2>1. posts'[s] = Append(posts[s], p)
    BY <1>4, <1>5 DEF TypeInv, TypeOK
  <2>2. Append(posts[s], p) \in Seq(Posted) /\ Len(Append(posts[s], p)) = Len(posts[s]) + 1
    BY <1>1, AppendProperties, Zenon
  <2> QED
    BY <2>1, <2>2
<1>7. InOrder(longer)
  BY <1>1, <1>2, <1>3, <1>5, <1>6, PostInOrder
<1>8. pc'[s] \notin {"new", "classify"}
  BY DEF PostWebhook, TypeInv, TypeOK
<1>9. \A t \in Sends \ {s} : /\ posts'[t] = posts[t] /\ attempt'[t] = attempt[t]
                             /\ todo'[t] = todo[t] /\ pc'[t] = pc[t]
  BY DEF PostWebhook, TypeInv, TypeOK
<1>10. ASSUME Distinct(todo'[s]), Recent(longer, todo'[s], attempt'[s]), attempt'[s] <= Len(longer)
       PROVE  PostedInv'
  <2> SUFFICES ASSUME NEW t \in Sends
               PROVE  /\ Distinct(todo'[t]) /\ InOrder(posts'[t])
                      /\ Recent(posts'[t], todo'[t], attempt'[t])
                      /\ attempt'[t] <= Len(posts'[t])
                      /\ pc'[t] \in {"new", "classify"} => posts'[t] = <<>> /\ attempt'[t] = 0
    BY DEF PostedInv, Distinct, InOrder, Recent
  <2>1. CASE t = s
    BY <1>6, <1>7, <1>8, <1>10, <2>1
  <2>2. CASE t # s
    BY <1>9, <2>2 DEF PostedInv
  <2> QED
    BY <2>1, <2>2
<1>11. CASE attempt' = [attempt EXCEPT ![s] = 0] /\ todo' = [todo EXCEPT ![s] = Tail(todo[s])]
  <2>1. attempt'[s] = 0 /\ todo'[s] = Tail(todo[s])
    BY <1>11 DEF TypeInv, TypeOK
  <2>2. Recent(longer, Tail(todo[s]), 0) /\ Distinct(Tail(todo[s]))
    <3>1. attempt[s] \in Nat
      BY <1>1
    <3> QED
      BY <1>1, <1>2, <1>3, <1>5, <1>6, <3>1, PostDone, Zenon
  <2> QED
    BY <1>1, <1>6, <1>10, <2>1, <2>2
<1>12. CASE ~Success(status) /\ attempt' = [attempt EXCEPT ![s] = @ + 1] /\ UNCHANGED todo
  <2>1. attempt'[s] = attempt[s] + 1 /\ todo'[s] = todo[s]
    BY <1>12 DEF TypeInv, TypeOK
  <2>2. Recent(longer, todo[s], attempt[s] + 1)
    <3>1. attempt[s] \in Nat
      BY <1>1
    <3> QED
      BY <1>1, <1>3, <1>5, <1>6, <1>12, <3>1, PostFailed, Zenon
  <2> QED
    BY <1>1, <1>3, <1>6, <1>10, <2>1, <2>2
<1> QED
  BY <1>4, <1>11, <1>12

\* The other steps post nothing.
LEMMA PostedStep == TypeInv /\ PostedInv /\ [Next]_vars => PostedInv'
<1> SUFFICES ASSUME TypeInv, PostedInv, [Next]_vars PROVE PostedInv'
  OBVIOUS
<1>1. ASSUME UNCHANGED <<posts, attempt, todo>>,
             \A s \in Sends : pc'[s] \in {"new", "classify"} => pc[s] \in {"new", "classify"}
      PROVE  PostedInv'
  BY <1>1 DEF PostedInv, Distinct, InOrder, Recent
<1>2. ASSUME NEW s \in Sends, Reject(s) \/ Refuse(s) PROVE PostedInv'
  BY <1>1, <1>2 DEF Reject, Refuse, TypeInv, TypeOK
<1>3. ASSUME NEW s \in Sends, NEW i \in Instances, nextOutcome(s, i) PROVE PostedInv'
  BY <1>1, <1>3 DEF nextOutcome, TypeInv, TypeOK
<1>4. ASSUME NEW s \in Sends, Accept(s) PROVE PostedInv'
  <2>1. /\ todo'[s] = CallbacksOf(outcome[s]) /\ pc'[s] = "posting"
        /\ \A t \in Sends \ {s} : todo'[t] = todo[t] /\ pc'[t] = pc[t]
        /\ UNCHANGED <<posts, attempt>>
    BY <1>4 DEF Accept, TypeInv, TypeOK
  <2>2. outcome[s] \in Kinds /\ HTTPStatus(outcome[s]) = 201
    BY <1>4 DEF Accept, TypeInv, TypeOK
  <2>3. Distinct(todo'[s])
    BY <2>1, <2>2, CallbacksDistinct
  <2>4. posts[s] = <<>> /\ attempt[s] = 0
    BY <1>4 DEF Accept, PostedInv
  <2> SUFFICES ASSUME NEW t \in Sends
               PROVE  /\ Distinct(todo'[t]) /\ InOrder(posts[t])
                      /\ Recent(posts[t], todo'[t], attempt[t])
                      /\ attempt[t] <= Len(posts[t])
                      /\ pc'[t] \in {"new", "classify"} => posts[t] = <<>> /\ attempt[t] = 0
    BY <2>1 DEF PostedInv, Distinct, InOrder, Recent
  <2>5. CASE t = s
    <3>1. Recent(posts[s], todo'[s], 0)
      BY <2>4 DEF Recent
    <3> QED
      BY <2>1, <2>3, <2>4, <2>5, <3>1 DEF PostedInv
  <2>6. CASE t # s
    BY <2>1, <2>6 DEF PostedInv
  <2> QED
    BY <2>5, <2>6
<1>5. ASSUME NEW i \in Instances, Crash(i) PROVE PostedInv'
  BY <1>1, <1>5 DEF Crash, TypeInv, TypeOK
<1>6. CASE UNCHANGED vars
  BY <1>1, <1>6 DEF vars
<1> QED
  BY <1>2, <1>3, <1>4, <1>5, <1>6, PostKeepsProtocol DEF Next

\* Whatever is answered, lost or retried: a callback answered 2xx is not posted
\* again, none is posted more than MaxRetries + 1 times, and the callbacks of a
\* send are posted one after the other.
THEOREM Protocol == Spec => []KeepsToProtocol
<1>1. Init => PostedInv
  <2> SUFFICES ASSUME Init PROVE PostedInv
    OBVIOUS
  <2>1. \A s \in Sends : posts[s] = <<>> /\ todo[s] = <<>> /\ attempt[s] = 0
    BY DEF Init
  <2> QED
    BY <2>1 DEF PostedInv, Distinct, InOrder, Recent
<1>2. TypeInv /\ PostedInv => KeepsToProtocol
  <2> SUFFICES ASSUME TypeInv, PostedInv, NEW s \in Sends,
                      NEW i \in DOMAIN posts[s], NEW j \in DOMAIN posts[s], i < j
               PROVE  IF posts[s][i].status = posts[s][j].status
                        THEN ~posts[s][i].ok /\ j - i <= MaxRetries
                        ELSE \A k \in j..Len(posts[s]) : posts[s][k].status # posts[s][i].status
    BY DEF KeepsToProtocol
  <2>1. posts[s] \in Seq(Posted) /\ DOMAIN posts[s] = 1..Len(posts[s])
    BY LenProperties DEF TypeInv, TypeOK, Posted
  <2>2. InOrder(posts[s])
    BY DEF PostedInv
  <2> QED
    BY <2>1, <2>2 DEF InOrder
<1> QED
  BY <1>1, <1>2, InitTypeInv, TypeStep, PostedStep, PTL DEF Spec
=============================================================================
