----------------------------- MODULE MCDelivery -----------------------------
(***************************************************************************)
(* Delivery for TLC: symmetric workers.                                    *)
(***************************************************************************)
EXTENDS Delivery, TLC

CONSTANTS m1, w1, w2

WorkerSymmetry == Permutations(Workers)
=============================================================================
