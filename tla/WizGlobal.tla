------------------------------ MODULE WizGlobal ------------------------------
(***************************************************************************)
(* do_global of wiz.cpp (@enable / @disable), composed with the name       *)
(* tables it reads: it looks the flag up in enable_names with              *)
(* search_nametab and sets or clears it in mudconf.control_flags, telling  *)
(* the scheduler the lowest priority it may run when the flag is           *)
(* dequeueing.                                                             *)
(*                                                                         *)
(* The name tables keep their own state (perm, out) and commands; EN is    *)
(* the enable_names table, whose entries are all CA_PUBLIC and which no    *)
(* cf_ntab_access directive names.  The command table that gives do_global *)
(* its key, the scheduler and notify are outside this repository: the key *)
(* is a parameter, the scheduler is the priority it was last given, a      *)
(* notification is the out variable.                                       *)
(***************************************************************************)
EXTENDS NameTab

CONSTANTS
    EnableNames,        \* enable_names without its terminator
    GlobalTyped,        \* flag names a wizard may type to @enable/@disable
    CA_PUBLIC,          \* the perm of every enable_names entry
    CF_DEQUEUE,         \* the dequeueing flag
    GLOB_ENABLE, GLOB_DISABLE,      \* do_global's keys (@enable, @disable)
    GlobalKeys,         \* the keys the command table may pass to do_global
    PRIORITY_CF_DEQUEUE_ENABLED, PRIORITY_CF_DEQUEUE_DISABLED,
    Quiets              \* players for which Quiet(player) holds

VARIABLES
    control_flags,      \* mudconf.control_flags, as its set of flag bits
    minPriority         \* what scheduler.SetMinPriority was last given

globalVars == <<control_flags, minPriority>>

EN == INSTANCE NameTab WITH Table <- EnableNames,
                            perm <- [i \in 1..Len(EnableNames) |-> CA_PUBLIC]

EnableFlags == {EnableNames[i].flag : i \in 1..Len(EnableNames)}

\* A notification to player, unless it is Quiet.
Tell(player, what) ==
    IF player \in Quiets THEN NoMsg ELSE [call |-> "global", player |-> player, text |-> what]

\* Mutant: @disable dequeueing clears the flag but leaves the scheduler's
\* priority floor where it was.
do_globalNoPriority(executor, key, flag) ==
    LET s == EN!SearchFrom(executor, flag, 1)
    IN  \/ /\ ~s.ok
           /\ out' = [call |-> "global", player |-> executor, text |-> "unknown"]
           /\ UNCHANGED <<control_flags, minPriority>>
        \/ /\ s.ok /\ key = GLOB_ENABLE
           /\ minPriority' = IF s.flag = CF_DEQUEUE THEN PRIORITY_CF_DEQUEUE_ENABLED ELSE minPriority
           /\ control_flags' = control_flags \cup {s.flag}
           /\ out' = Tell(executor, "Enabled.")
        \/ /\ s.ok /\ key = GLOB_DISABLE
           /\ control_flags' = control_flags \ {s.flag}
           /\ out' = Tell(executor, "Disabled.")
           /\ UNCHANGED minPriority
        \/ /\ s.ok /\ key \notin {GLOB_ENABLE, GLOB_DISABLE}
           /\ out' = [call |-> "global", player |-> executor, text |-> "illegal"]
           /\ UNCHANGED <<control_flags, minPriority>>

\* do_global: search_nametab, then enable or disable the flag it returned.
do_global(executor, key, flag) ==
    LET s == EN!SearchFrom(executor, flag, 1)
    IN  \/ /\ ~s.ok
           /\ out' = [call |-> "global", player |-> executor, text |-> "unknown"]
           /\ UNCHANGED <<control_flags, minPriority>>
        \/ /\ s.ok /\ key = GLOB_ENABLE
           /\ minPriority' = IF s.flag = CF_DEQUEUE THEN PRIORITY_CF_DEQUEUE_ENABLED ELSE minPriority
           /\ control_flags' = control_flags \cup {s.flag}
           /\ out' = Tell(executor, "Enabled.")
        \/ /\ s.ok /\ key = GLOB_DISABLE
           /\ minPriority' = IF s.flag = CF_DEQUEUE THEN PRIORITY_CF_DEQUEUE_DISABLED ELSE minPriority
           /\ control_flags' = control_flags \ {s.flag}
           /\ out' = Tell(executor, "Disabled.")
        \/ /\ s.ok /\ key \notin {GLOB_ENABLE, GLOB_DISABLE}
           /\ out' = [call |-> "global", player |-> executor, text |-> "illegal"]
           /\ UNCHANGED <<control_flags, minPriority>>

GlobalInit ==
    /\ Init
    /\ control_flags \in SUBSET EnableFlags
    /\ minPriority = IF CF_DEQUEUE \in control_flags THEN PRIORITY_CF_DEQUEUE_ENABLED ELSE PRIORITY_CF_DEQUEUE_DISABLED

GlobalNext ==
    \/ Next /\ UNCHANGED globalVars
    \/ \E pl \in Players, key \in GlobalKeys, n \in GlobalTyped :
          do_global(pl, key, n) /\ UNCHANGED perm

GlobalSpec == GlobalInit /\ [][GlobalNext]_<<vars, globalVars>>

\* The scheduler runs dequeued work exactly when dequeueing is enabled:
\* after any sequence of @enable and @disable, whatever abbreviation was
\* typed, the priority floor given to the scheduler matches the
\* CF_DEQUEUE bit of mudconf.control_flags.
DequeueAgrees == (CF_DEQUEUE \in control_flags) <=> (minPriority = PRIORITY_CF_DEQUEUE_ENABLED)
=============================================================================
