---------------------------- MODULE MCPlayerCache ----------------------------
(***************************************************************************)
(* Model values for PlayerCache and WizMoney: two objects, both players at *)
(* start (do_toad makes things of them), object 1 a wizard; A_QUEUEMAX a   *)
(* valid override on 0 and missing on 1.                                   *)
(***************************************************************************)
EXTENDS WizMoney, TLC

MCQMaxAttr == (0 :> 5) @@ (1 :> NoAttr)
=============================================================================
