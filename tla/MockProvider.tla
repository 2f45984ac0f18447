---------------------------- MODULE MockProvider ----------------------------
(***************************************************************************)
(* The provider the service is run and load-tested against                 *)
(* (cmd/mock-provider/main.go): it decides the outcome of each send,       *)
(* numbers the ones it accepts and posts their status callbacks from a     *)
(* goroutine per send, with retries.  StatusCallbacks assumes a provider   *)
(* like this one; KeepsToProtocol says in what.                            *)
(*                                                                         *)
(* An instance is one process with a counter of its own: the replicas of   *)
(* the deployment, and the pods that replace them.                         *)
(***************************************************************************)
EXTENDS Naturals, Sequences, FiniteSets

CONSTANTS
    Sends,           \* the requests SendSMS makes
    Instances,       \* processes
    NoInstance,      \* where a send is before it is made
    Outcomes,        \* MOCK_OUTCOMES, a sequence of kinds
    FailureKinds,    \* those MOCK_FAILURE_WEIGHTS gives a weight
    IncludeQueued,   \* MOCK_WEBHOOK_INCLUDE_QUEUED
    MaxRetries       \* MOCK_WEBHOOK_MAX_RETRIES

Modes == {"round_robin", "weighted", "random", "fixed"}

\* classifyOutcome: the status of the answer, and the callbacks of a send that is
\* accepted.
Kinds == {"ok", "undelivered", "failed", "rate_limit", "bad_request",
          "server_error", "timeout", "unknown"}

HTTPStatus(kind) ==
    CASE kind \in {"ok", "undelivered", "failed"} -> 201
      [] kind = "rate_limit" -> 429
      [] kind = "bad_request" -> 400
      [] kind \in {"server_error", "unknown"} -> 500
      [] kind = "timeout" -> 504

CallbackStatus == {"queued", "sent", "delivered", "undelivered", "failed"}

FinalStatus(kind) == IF kind = "ok" THEN "delivered" ELSE kind

CallbacksOf(kind) ==
    (IF IncludeQueued THEN <<"queued">> ELSE <<>>)
    \o (IF kind = "failed" THEN <<>> ELSE <<"sent">>)
    \o <<FinalStatus(kind)>>

\* Answers to a callback: 0 is an error instead of one.
Statuses == {0, 200, 202, 400, 403, 429, 500, 503}
Success(status) == status \in 200..299
isRetryableStatus(status) == status \in {429, 500, 502, 503, 504}

ASSUME ProviderAssumption ==
    /\ NoInstance \notin Instances
    /\ Outcomes \in Seq(Kinds) /\ Outcomes # <<>>
    /\ FailureKinds \subseteq Kinds /\ FailureKinds # {}
    /\ IncludeQueued \in BOOLEAN
    /\ MaxRetries \in Nat

VARIABLES
    mode,       \* MOCK_OUTCOME_MODE
    alive,      \* the instances that run
    idx,        \* the counter of each
    pc,         \* the next step of each send
    instance,   \* the instance that handles it
    outcome,    \* the kind drawn for it
    sid,        \* its number, once it is accepted
    todo,       \* the callbacks its goroutine has not finished with
    attempt,    \* the loop counter of postWebhookWithRetry
    posts       \* what was posted for it: the callback's status, and whether it got a 2xx

vars == <<mode, alive, idx, pc, instance, outcome, sid, todo, attempt, posts>>

Init ==
    /\ mode \in Modes
    /\ alive = Instances
    /\ idx = [i \in Instances |-> 0]
    /\ pc = [s \in Sends |-> "new"]
    /\ instance = [s \in Sends |-> NoInstance]
    /\ outcome = [s \in Sends |-> "ok"]
    /\ sid = [s \in Sends |-> 0]
    /\ todo = [s \in Sends |-> <<>>]
    /\ attempt = [s \in Sends |-> 0]
    /\ posts = [s \in Sends |-> <<>>]

-----------------------------------------------------------------------------
(* handleSend. *)

\* Credentials or a parameter are wrong, or the client has gone before the delay
\* is over: nothing is drawn.
Reject(s) ==
    /\ pc[s] = "new"
    /\ pc' = [pc EXCEPT ![s] = "rejected"]
    /\ UNCHANGED <<mode, alive, idx, instance, outcome, sid, todo, attempt, posts>>

\* nextOutcome: only round_robin moves the counter.
nextOutcome(s, i) ==
    /\ pc[s] = "new" /\ i \in alive
    /\ outcome' \in
          {[outcome EXCEPT ![s] = kind] : kind \in
              CASE mode = "round_robin" -> {Outcomes[(idx[i] % Len(Outcomes)) + 1]}
                [] mode = "weighted"    -> {"ok"} \cup FailureKinds
                [] mode = "random"      -> {Outcomes[k] : k \in DOMAIN Outcomes}
                [] mode = "fixed"       -> {Outcomes[1]}}
    /\ idx' = IF mode = "round_robin" THEN [idx EXCEPT ![i] = @ + 1] ELSE idx
    /\ instance' = [instance EXCEPT ![s] = i]
    /\ pc' = [pc EXCEPT ![s] = "classify"]
    /\ UNCHANGED <<mode, alive, sid, todo, attempt, posts>>

Refuse(s) ==
    /\ pc[s] = "classify" /\ HTTPStatus(outcome[s]) # 201
    /\ pc' = [pc EXCEPT ![s] = "rejected"]
    /\ UNCHANGED <<mode, alive, idx, instance, outcome, sid, todo, attempt, posts>>

AdvanceUnlessRoundRobin(i) ==
    idx' = IF mode = "round_robin" THEN idx ELSE [idx EXCEPT ![i] = @ + 1]

Advance(i) == idx' = [idx EXCEPT ![i] = @ + 1]

\* The sid is drawn from the same counter, and the goroutine started; every send
\* has a callback URL, its own or MOCK_WEBHOOK_URL.
Accept(s) ==
    /\ pc[s] = "classify" /\ HTTPStatus(outcome[s]) = 201
    /\ Advance(instance[s])
    /\ sid' = [sid EXCEPT ![s] = idx[instance[s]]]
    /\ todo' = [todo EXCEPT ![s] = CallbacksOf(outcome[s])]
    /\ pc' = [pc EXCEPT ![s] = "posting"]
    /\ UNCHANGED <<mode, alive, instance, outcome, attempt, posts>>

-----------------------------------------------------------------------------
(* maybeWebhookSequence and postWebhookWithRetry. *)

LastAttemptLate(s) == attempt[s] = MaxRetries + 1
LastAttempt(s) == attempt[s] = MaxRetries

FinishedOnlyWhenExhausted(s, status) == LastAttempt(s)

\* Whether the loop ends with this answer; its result is ignored.
Finished(s, status) ==
    \/ Success(status)
    \/ LastAttempt(s)
    \/ status # 0 /\ ~isRetryableStatus(status)

AfterCallbackUnlessFailed(s, status) == IF Success(status) THEN Tail(todo[s]) ELSE <<>>
AfterCallback(s, status) == Tail(todo[s])

PostWebhook(s) ==
    /\ pc[s] = "posting"
    /\ \E status \in Statuses :
          /\ posts' = [posts EXCEPT ![s] = Append(@, [status |-> Head(todo[s]), ok |-> Success(status)])]
          /\ \/ /\ Finished(s, status)
                /\ attempt' = [attempt EXCEPT ![s] = 0]
                /\ todo' = [todo EXCEPT ![s] = AfterCallback(s, status)]
                /\ pc' = [pc EXCEPT ![s] = IF todo'[s] = <<>> THEN "done" ELSE "posting"]
             \/ /\ ~Finished(s, status)
                /\ attempt' = [attempt EXCEPT ![s] = @ + 1]
                /\ UNCHANGED <<todo, pc>>
    /\ UNCHANGED <<mode, alive, idx, instance, outcome, sid>>

\* A process dies, and its goroutines and unanswered requests with it.
Crash(i) ==
    /\ i \in alive
    /\ alive' = alive \ {i}
    /\ pc' = [s \in Sends |-> IF instance[s] = i /\ pc[s] \in {"classify", "posting"}
                                THEN "lost" ELSE pc[s]]
    /\ UNCHANGED <<mode, idx, instance, outcome, sid, todo, attempt, posts>>

Next ==
    \/ \E s \in Sends : Reject(s) \/ Refuse(s) \/ Accept(s) \/ PostWebhook(s)
    \/ \E s \in Sends, i \in Instances : nextOutcome(s, i)
    \/ \E i \in Instances : Crash(i)

Spec == Init /\ [][Next]_vars

\* Handlers and goroutines of a live process go on; requests need not come.
FairSpec ==
    /\ Spec
    /\ \A s \in Sends : WF_vars(Refuse(s) \/ Accept(s) \/ PostWebhook(s))

-----------------------------------------------------------------------------
(* Properties. *)

\* Every variable keeps its type, and no callback is tried more than MaxRetries + 1 times.
TypeOK ==
    /\ mode \in Modes
    /\ alive \subseteq Instances
    /\ idx \in [Instances -> Nat]
    /\ pc \in [Sends -> {"new", "rejected", "classify", "posting", "done", "lost"}]
    /\ instance \in [Sends -> Instances \cup {NoInstance}]
    /\ outcome \in [Sends -> Kinds]
    /\ sid \in [Sends -> Nat]
    /\ todo \in [Sends -> Seq(CallbackStatus)]
    /\ attempt \in [Sends -> 0..MaxRetries]
    /\ posts \in [Sends -> Seq([status: CallbackStatus, ok: BOOLEAN])]

Accepted(s) == pc[s] \in {"posting", "done"} \/ posts[s] # <<>>

\* The sids of one process are distinct, however its handlers interleave and
\* although round_robin draws outcomes from the counter the sids come from.
DistinctSids ==
    \A s, t \in Sends :
        s # t /\ Accepted(s) /\ Accepted(t) /\ instance[s] = instance[t] => sid[s] # sid[t]

\* What StatusCallbacks assumes of the provider: a callback that was answered 2xx
\* is not posted again, none is posted more than MaxRetries + 1 times, and a later
\* one is posted only when the provider is through with those before it.
KeepsToProtocol ==
    \A s \in Sends : \A i, j \in DOMAIN posts[s] : i < j =>
        IF posts[s][i].status = posts[s][j].status
          THEN ~posts[s][i].ok /\ j - i <= MaxRetries
          ELSE \A k \in j..Len(posts[s]) : posts[s][k].status # posts[s][i].status

\* The outcome of an accepted send is posted in the end, whatever became of the
\* callbacks before it, unless its process died.
OutcomeIsPosted ==
    \A s \in Sends :
        pc[s] = "posting" ~>
            \/ pc[s] = "lost"
            \/ \E i \in DOMAIN posts[s] : posts[s][i].status = FinalStatus(outcome[s])
=============================================================================
