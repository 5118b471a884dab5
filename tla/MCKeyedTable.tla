---------------------------- MODULE MCKeyedTable ----------------------------
(***************************************************************************)
(* KeyedTable for TLC: three keys, two data pointers, three slots, so     *)
(* every key can be filed at once and a walk can be interrupted between   *)
(* any two of its records.                                                *)
(***************************************************************************)
EXTENDS KeyedTable
=============================================================================
