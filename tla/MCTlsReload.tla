---------------------------- MODULE MCTlsReload ----------------------------
(***************************************************************************)
(* Three uploads, the second of them refused by nginx; the first two reach *)
(* one backend process, the third another.                                 *)
(***************************************************************************)
EXTENDS TlsReload

CONSTANTS u1, u2, u3, b1, b2

MCHome == [u \in Uploads |-> IF u = u3 THEN b2 ELSE b1]
=============================================================================
