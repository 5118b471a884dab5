------------------------------- MODULE Purse --------------------------------
(***************************************************************************)
(* What Pennies / s_Pennies promise their callers (spec 4.4): every object *)
(* has a purse; reading it returns the amount last set, however the player *)
(* cache happens to hold it (cached and dirty, cached and clean, flushed   *)
(* to the A_MONEY attribute, or never cached).  A step of a command may    *)
(* set several purses (do_poor); written is the set of objects whose       *)
(* purse the last step set, and no other purse changes in that step.       *)
(***************************************************************************)
CONSTANTS
    Objs,       \* object dbrefs
    Amounts     \* amounts a purse can hold in the model

VARIABLES
    purse,      \* obj -> amount
    seen,       \* [obj, val] returned by the last read
    written     \* the objects whose purse the last step set

vars == <<purse, seen, written>>

Init ==
    /\ purse \in [Objs -> Amounts]
    /\ seen \in [obj : Objs, val : Amounts]
    /\ written = {}

\* A step that sets the purses of W (to any amounts) and no others.
SetPurses(W) ==
    /\ written' = W
    /\ purse' \in [Objs -> Amounts]
    /\ \A o \in Objs \ W : purse'[o] = purse[o]
    /\ UNCHANGED seen

GetPurse(o) ==
    /\ seen' = [obj |-> o, val |-> purse[o]]
    /\ written' = {}
    /\ UNCHANGED purse

\* Any other step: no purse changes.
Settle ==
    /\ written' = {}
    /\ UNCHANGED <<purse, seen>>

Next == \/ \E W \in SUBSET Objs : W # {} /\ SetPurses(W)
        \/ \E o \in Objs : GetPurse(o)
        \/ Settle

Spec == Init /\ [][Next]_vars
=============================================================================
