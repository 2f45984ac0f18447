--------------------------- MODULE MCConsumerPool ---------------------------
(***************************************************************************)
(* ConsumerPool for TLC.                                                   *)
(***************************************************************************)
EXTENDS ConsumerPool, TLC

CONSTANTS m1, m2, w1, w2
=============================================================================
