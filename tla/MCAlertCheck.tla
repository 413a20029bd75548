---------------------------- MODULE MCAlertCheck ----------------------------
(***************************************************************************)
(* Two replicas and one or two conditions, all of them model values.       *)
(***************************************************************************)
EXTENDS AlertCheck

CONSTANTS r1, r2, c1, c2
=============================================================================
