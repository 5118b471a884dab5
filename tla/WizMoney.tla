------------------------------- MODULE WizMoney -------------------------------
(***************************************************************************)
(* The wizard commands of wiz.cpp that change purses through the player    *)
(* cache, composed with it:                                                *)
(*   - do_toad turns a player into a thing, then s_Pennies(victim, 1);     *)
(*     since the victim no longer OwnsOthers, that s_Pennies writes        *)
(*     A_MONEY directly and leaves the victim's cache entry in place;      *)
(*   - do_poor visits every object in dbref order and lowers the money of  *)
(*     every player holding more than the given amount.                   *)
(* Matching, logging, notification, chown_all, renaming and booting are    *)
(* left out: they do not touch the player cache.  A command that fails a  *)
(* check (no match, not a player, No_Destroy, not a number) returns before *)
(* any change and is a stutter.                                            *)
(***************************************************************************)
EXTENDS PlayerCache

\* do_toad, from the type change (line 437) to s_Pennies (line 440): the
\* flags are written first, so s_Pennies sees a thing.
do_toad(victim) ==
    /\ isPlayer[victim]
    /\ isPlayer' = [isPlayer EXCEPT ![victim] = FALSE]
    /\ SetS(SetPennies(S, isPlayer', victim, 1))
    /\ wrote' = {victim}
    /\ UNCHANGED <<cmds, money_reply, limit_reply>>

\* The DO_WHOLE_DB loop of do_poor from dbref a on.
RECURSIVE PoorFrom(_, _, _)
PoorFrom(s, a, amt) ==
    IF a >= DbTop THEN s
    ELSE IF ~isPlayer[a] THEN PoorFrom(s, a + 1, amt)
    ELSE LET f == pcache_find(s, a)
         IN  PoorFrom(IF amt < f.pc[a].money THEN SetPennies(f, isPlayer, a, amt) ELSE f,
                      a + 1, amt)

do_poor(amt) ==
    /\ SetS(PoorFrom(S, 0, amt))
    /\ wrote' = {a \in Objs : isPlayer[a] /\ amt < Money(a)}
    /\ UNCHANGED <<isPlayer, cmds, money_reply, limit_reply>>

WizNext ==
    \/ PlayerCacheNext
    \/ \E v \in Objs : do_toad(v)
    \/ \E amt \in Moneys : do_poor(amt)

WizSpec == Init /\ [][WizNext]_vars
=============================================================================
