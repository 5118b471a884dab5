------------------------------- MODULE MCNameTab -------------------------------
(***************************************************************************)
(* NameTab for TLC: three entries, two of which share the abbreviation     *)
(* "qu" (minlen 1 and 2), a mortal, a wizard and God, and the perm values  *)
(* "none needed", "wizard" and "god".  minmatch is the prefix test of      *)
(* stringutil.cpp (case folding left out): the typed text must be a prefix *)
(* of the name, at least minlen long unless it is the whole name.          *)
(*                                                                         *)
(* enable_names is cut to two of its nine entries (wiz.cpp 801-812):       *)
(* cleaning, which needs two letters, and dequeueing, which needs one.     *)
(* The flag bit and the keys are those of command.h, outside this         *)
(* repository; key 0 stands for any key that is neither GLOB_ENABLE nor    *)
(* GLOB_DISABLE.                                                           *)
(***************************************************************************)
EXTENDS WizGlobal, TLC

MCTable == << [name |-> <<"q", "u", "i", "e", "t">>, minlen |-> 1, flag |-> 1],
              [name |-> <<"q", "u", "o", "t", "a">>, minlen |-> 2, flag |-> 2],
              [name |-> <<"w", "i", "z">>, minlen |-> 1, flag |-> 4] >>
MCTyped == {<<"q">>, <<"q", "u">>, <<"q", "u", "o">>, <<"q", "u", "i", "e", "t">>,
            <<"q", "u", "o", "t", "a">>, <<"w", "i", "z">>, <<"x">>}
MCPrivs == [p \in {"mortal", "wizard", "god"} |->
               CASE p = "mortal" -> {} [] p = "wizard" -> {"W"} [] OTHER -> {"W", "G"}]
MCPlayers == DOMAIN MCPrivs
MCPerms == {{}, {"W"}, {"G"}}
MCPrefix == <<"P">>
MCTrue == <<"Y">>
MCFalse == <<"N">>
MCEnableNames ==
    << [name |-> <<"c", "l", "e", "a", "n", "i", "n", "g">>, minlen |-> 2, flag |-> 4],
       [name |-> <<"d", "e", "q", "u", "e", "u", "e", "i", "n", "g">>, minlen |-> 1, flag |-> 8] >>
MCGlobalTyped == {<<"c">>, <<"c", "l">>, <<"d">>}
MCCheckAccess(player, p) == p \subseteq MCPrivs[player]
MCMinMatch(str, target, min) ==
    IsPrefix(str, target) /\ (Len(str) >= min \/ Len(str) = Len(target))
=============================================================================
