------------------------- MODULE MCStatusCallbacks -------------------------
(***************************************************************************)
(* StatusCallbacks for TLC: one send with a callback on the way and two    *)
(* outcomes that contradict each other.                                    *)
(***************************************************************************)
EXTENDS StatusCallbacks, TLC

CONSTANTS m1, sent, delivered, undelivered, h1, h2, p1, p2

OneSid   == m1 :> 1
AllAbout == [c \in Callbacks |-> m1]
AllSid   == [c \in Callbacks |-> 1]
AllStatus == [c \in Callbacks |->
    CASE c = sent -> "sent" [] c = delivered -> "delivered" [] c = undelivered -> "undelivered"]
=============================================================================
