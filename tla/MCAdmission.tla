---------------------------- MODULE MCAdmission ----------------------------
(***************************************************************************)
(* Admission for TLC: who asks for what.                                   *)
(***************************************************************************)
EXTENDS Admission, TLC

CONSTANTS r1, r2, r3, t1, t2, k1, k2, p1

\* Two requests race for one key and a third, of the same subscriber, for the
\* last place under the cap.
RacingTenant == r1 :> t1 @@ r2 :> t1 @@ r3 :> t1
RacingKey    == r1 :> k1 @@ r2 :> k1 @@ r3 :> k2

\* Two tenants that happen to choose one key.
ForeignTenant == r1 :> t1 @@ r2 :> t2
ForeignKey    == r1 :> k1 @@ r2 :> k1

OnePhone == [r \in Requests |-> p1]
=============================================================================
