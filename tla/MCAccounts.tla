----------------------------- MODULE MCAccounts -----------------------------
(***************************************************************************)
(* Two requests and two users for every model of Accounts; one import of   *)
(* everything and one of a part of it.                                     *)
(***************************************************************************)
EXTENDS Accounts, TLC

MCImports == {"i1", "i2"}
MCUsers == {"u", "v"}
MCExportedBy == [i \in MCImports |-> IF i = "i1" THEN MCUsers ELSE {"u"}]
MCKeyNames == [u \in MCUsers |-> {"k"}]

\* The same two requests for every model.
SlotSymmetry == Permutations(Slots)
=============================================================================
