----------------------------- MODULE MCPlayerAging -----------------------------
(***************************************************************************)
(* PlayerAging with the model values of MCPlayerCache.                     *)
(***************************************************************************)
EXTENDS PlayerAging, MCPlayerCache
=============================================================================
