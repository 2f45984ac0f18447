-------------------------- MODULE MessageLifecycle --------------------------
(***************************************************************************)
(* The life of a message as messages.state tells it (the states and their  *)
(* order in internal/domain/types.go and 001_init.sql), without claims,    *)
(* queues, retries or time.  It is what the components promise together:   *)
(* a message is sent only while it is "processing", is "submitted" only    *)
(* when it was sent, and is settled by an outcome only after it was sent.  *)
(*                                                                         *)
(* Admission and Delivery implement it, each with the steps that are its   *)
(* own; NotifService is their composition with the status callbacks.       *)
(***************************************************************************)
EXTENDS Naturals

CONSTANT Messages

VARIABLES
    state,   \* the state of each message
    sends    \* how often the provider accepted it

vars == <<state, sends>>

Init ==
    /\ state = [m \in Messages |-> "absent"]
    /\ sends = [m \in Messages |-> 0]

Move(m, from, to) ==
    /\ state[m] \in from
    /\ state' = [state EXCEPT ![m] = to]
    /\ UNCHANGED sends

Accept(m)  == Move(m, {"absent"}, "queued")
Refuse(m)  == Move(m, {"queued"}, "suppressed")
Abandon(m) == Move(m, {"queued"}, "failed")
Claim(m)   == Move(m, {"queued"}, "processing")
GiveUp(m)  == Move(m, {"processing"}, "failed")

Send(m) ==
    /\ state[m] = "processing"
    /\ sends' = [sends EXCEPT ![m] = @ + 1]
    /\ UNCHANGED state

HandOver(m) == sends[m] > 0 /\ Move(m, {"processing"}, "submitted")

\* The newest outcome wins.
Settle(m) ==
    /\ sends[m] > 0
    /\ \E outcome \in {"delivered", "failed"} :
          Move(m, {"submitted", "delivered", "failed"}, outcome)

Next ==
    \E m \in Messages :
        \/ Accept(m) \/ Refuse(m) \/ Abandon(m) \/ Claim(m) \/ GiveUp(m)
        \/ Send(m) \/ HandOver(m) \/ Settle(m)

Spec == Init /\ [][Next]_vars
=============================================================================
