--------------------------- MODULE MCMockProvider ---------------------------
(***************************************************************************)
(* MockProvider for TLC: the kinds of the deployment's configuration.      *)
(***************************************************************************)
EXTENDS MockProvider, TLC

CONSTANTS s1, s2, i1

Rotation == <<"ok", "failed", "timeout">>
=============================================================================
