--------------------------- MODULE MCNotifService ---------------------------
(***************************************************************************)
(* NotifService for TLC: a request and its repetition, one send and its    *)
(* outcome.                                                                *)
(***************************************************************************)
EXTENDS NotifService

CONSTANTS r1, r2, t1, k1, p1, delivered

OneTenant == [r \in Requests |-> t1]
OneKey    == [r \in Requests |-> k1]
OnePhone  == [r \in Requests |-> p1]

AllAbout  == [c \in Callbacks |-> r1]
AllSid    == [c \in Callbacks |-> 1]
AllStatus == [c \in Callbacks |-> "delivered"]
=============================================================================
