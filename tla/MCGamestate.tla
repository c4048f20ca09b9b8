---------------------------- MODULE MCGamestate ----------------------------
(***************************************************************************)
(* GamestateSystem for TLC; the .cfg files give the sizes.                 *)
(***************************************************************************)
EXTENDS GamestateInvariant
=============================================================================
