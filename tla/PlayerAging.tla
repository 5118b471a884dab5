------------------------------ MODULE PlayerAging ------------------------------
(***************************************************************************)
(* The two-generation clock of pcache_trim against its promise (spec 4.4   *)
(* and the player aging property of spec 8): an entry that is not found    *)
(* again is evicted by the second trim after its last pcache_find, unless  *)
(* commands charged to it are still queued.                                *)
(*                                                                         *)
(* The history variable age counts, per cached object, the pcache_trim     *)
(* calls it has been through since its last pcache_find (2 stands for two  *)
(* or more), and is 0 for objects without an entry.  It is kept apart from *)
(* PF_REF, the code's own record of the same thing.  Each step of WizMoney *)
(* is conjoined with its update.                                           *)
(***************************************************************************)
EXTENDS WizMoney

VARIABLE age            \* obj -> trims survived since the last pcache_find

agingVars == <<vars, age>>

\* The history after a step that called pcache_find on the objects found;
\* trimmed says whether the step was pcache_trim.
Aged(found, trimmed) ==
    [o \in Objs |-> IF pc'[o] = Nil \/ o \in found THEN 0
                    ELSE IF trimmed /\ age[o] < 2 THEN age[o] + 1 ELSE age[o]]

\* The calls on o that go through pcache_find: those on a player.
Finds(o) == IF isPlayer[o] THEN {o} ELSE {}

AgingInit == Init /\ age = [o \in Objs |-> 0]

\* The handlers of WizNext but do_toad, each with the objects it finds;
\* do_poor finds every player.
AgingNext ==
    \/ pcache_trim /\ age' = Aged({}, TRUE)
    \/ pcache_sync /\ age' = Aged({}, FALSE)
    \/ \E o \in Objs :
          /\ \/ pcache_reload(o) \/ QueueCommand(o) \/ RunCommand(o)
             \/ QueueMax(o) \/ Pennies(o) \/ \E v \in Moneys : s_Pennies(o, v)
          /\ age' = Aged(Finds(o), FALSE)
    \/ \E o \in Objs, v \in Moneys : s_PenniesDirect(o, v) /\ age' = Aged({}, FALSE)
    \/ \E amt \in Moneys : do_poor(amt) /\ age' = Aged({a \in Objs : isPlayer[a]}, FALSE)

\* With do_toad, whose s_Pennies finds nothing: the victim is a thing by then.
AgingWizNext ==
    \/ AgingNext
    \/ \E v \in Objs : do_toad(v) /\ age' = Aged({}, FALSE)

AgingSpec == AgingInit /\ [][AgingNext]_agingVars
AgingWizSpec == AgingInit /\ [][AgingWizNext]_agingVars

\* Player aging: an entry still cached after two pcache_trim calls since it
\* was last found is held only by queued commands of its object, so every
\* entry whose object has nothing queued is freed by the second trim.
AgingBounded == \A o \in Objs : pc[o] # Nil /\ age[o] = 2 => cmds[o] > 0
=============================================================================
