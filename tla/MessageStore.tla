---------------------------- MODULE MessageStore ----------------------------
(***************************************************************************)
(* The messages table of internal/store/pg, as the SQL statements of       *)
(* store.go change one of its rows.  Every statement is one atomic step of *)
(* PostgreSQL, so each is an operator from the old row to the new one; the *)
(* modules that issue the statements hold the table itself.                *)
(*                                                                         *)
(* A row keeps what the other statements look at: the state, the           *)
(* provider_msg_id (a number, NoSid for NULL and for '', which the queries *)
(* COALESCE), last_error, and updated_at.  updated_at is only ever         *)
(* compared with the clock, so a row holds its age: the time since         *)
(* updated_at, counted by the Tick actions of the modules that have time.  *)
(***************************************************************************)
EXTENDS Naturals

NoSid == 0

\* internal/domain/types.go and the comment on messages.state in 001_init.sql,
\* and "absent" for an id no INSERT has used yet.
MessageStates == {"absent", "queued", "processing", "suppressed",
                  "submitted", "delivered", "failed"}

\* The values the code gives last_error ("" for NULL), and the code the
\* provider sends with a status.
LastErrors == {"", "suppressed", "not_opted_in", "cap_exceeded", "enqueue_failed",
               "template_not_found", "twilio_non_retryable",
               "twilio_retry_exhausted", "provider_code"}

Rows == [state: MessageStates, sid: Nat, lastError: LastErrors, age: Nat]

AbsentRow == [state |-> "absent", sid |-> NoSid, lastError |-> "", age |-> 0]

InsertMessage(row) == [row EXCEPT !.state = "queued", !.age = 0]

MarkMessageStateSwapped(row, state, lastError) ==
    [row EXCEPT !.state = lastError, !.lastError = state, !.age = 0]

MarkMessageState(row, state, lastError) ==
    [row EXCEPT !.state = state, !.lastError = lastError, !.age = 0]

SetProviderDetails(row, sid) ==
    [row EXCEPT !.sid = sid, !.state = "submitted", !.age = 0]

\* ClaimMessage is an UPDATE whose WHERE clause decides: Claimable is the
\* clause, ClaimMessage the row it writes.
ClaimableEvenFresh(row, staleAfter) == row.state \in {"queued", "processing"}
ClaimableAtLimit(row, staleAfter) ==
    row.state = "queued" \/ (row.state = "processing" /\ row.age >= staleAfter)
ClaimableOnce(row, staleAfter) == row.state = "queued"
ClaimableWhenOld(row, staleAfter) ==
    row.state \in {"queued", "processing"} /\ row.age > staleAfter
ClaimableSubmitted(row, staleAfter) ==
    row.state \in {"queued", "processing", "submitted"}
    /\ (row.state = "queued" \/ row.age > staleAfter)

Claimable(row, staleAfter) ==
    \/ row.state = "queued"
    \/ row.state = "processing" /\ row.age > staleAfter

ClaimMessage(row) == [row EXCEPT !.state = "processing", !.age = 0]

\* Process returns nil at once for these rows (processor.go, "Idempotent consumer").

AlreadyHandled(row) ==
    \/ row.state \in {"suppressed", "delivered", "failed"}
    \/ row.sid # NoSid /\ row.state = "submitted"

\* Time passes: ages are not told apart above the limit.
Older(row, limit) == [row EXCEPT !.age = IF @ > limit THEN @ ELSE @ + 1]
=============================================================================
