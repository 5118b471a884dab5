------------------------------- MODULE NameTab -------------------------------
(***************************************************************************)
(* The name tables of htab.cpp: a NAMETAB array of (name, minlen, perm,    *)
(* flag) entries ended by a null name, looked up by an abbreviation        *)
(* (search_nametab, find_nametab_ent), listed (display_nametab,            *)
(* interp_nametab, listset_nametab), and re-permissioned by the            *)
(* configuration directive cf_ntab_access.                                 *)
(*                                                                         *)
(* Table is the array without its terminator; perm is its only field that  *)
(* changes.  Texts are sequences of one-character strings, so a listing is *)
(* the lbuf the code builds.  minmatch, check_access, God and              *)
(* cf_modify_bits live outside this repository and are parameters: an      *)
(* abbreviation test, the player's permission test, the set of Gods, and   *)
(* the perm values a cf_modify_bits call can produce.  The lbuf never      *)
(* fills up with the tables of the model (safe_str truncation is not       *)
(* reached), and notify is the out variable.                               *)
(***************************************************************************)
EXTENDS Integers, Sequences, SequencesExt, Bitwise

CONSTANTS
    Table,          \* <<[name, minlen, flag], ...>>: the static fields
    Perms,          \* perm values cf_modify_bits may leave in an entry
    Players,        \* players calling the lookups and listings
    Gods,           \* players for which God(player) holds
    CheckAccess(_, _),  \* check_access(player, perm)
    MinMatch(_, _, _),  \* minmatch(str, target, min)
    Typed,          \* abbreviations a player or the config file may type
    FlagWords,      \* flag words interp_nametab and listset_nametab show
    Prefix, TrueText, FalseText,    \* texts passed by the callers
    NoMsg           \* nothing notified

Idx == 1..Len(Table)

VARIABLES
    perm,           \* entry index -> nt->perm
    out             \* what the last call returned or notified

vars == <<perm, out>>

Init ==
    /\ perm \in [Idx -> Perms]
    /\ out = NoMsg

Chr(c) == <<c>>

\* The entries a listing shows to player: God sees them all.
Shown(player, i) == player \in Gods \/ CheckAccess(player, perm[i])

-----------------------------------------------------------------------------
(* The loops, each from entry i on.                                       *)

\* search_nametab: the first entry the name abbreviates decides.
RECURSIVE SearchFrom(_, _, _)
SearchFrom(player, flagname, i) ==
    IF i > Len(Table) THEN [ok |-> FALSE, flag |-> -1]
    ELSE IF MinMatch(flagname, Table[i].name, Table[i].minlen)
         THEN IF CheckAccess(player, perm[i])
              THEN [ok |-> TRUE, flag |-> Table[i].flag]
              ELSE [ok |-> FALSE, flag |-> -2]
         ELSE SearchFrom(player, flagname, i + 1)

\* find_nametab_ent: the first entry it abbreviates that player may use;
\* 0 is nullptr.
RECURSIVE FindFrom(_, _, _)
FindFrom(player, flagname, i) ==
    IF i > Len(Table) THEN 0
    ELSE IF MinMatch(flagname, Table[i].name, Table[i].minlen)
            /\ CheckAccess(player, perm[i])
         THEN i
         ELSE FindFrom(player, flagname, i + 1)

\* The loop of display_nametab: " name" for every entry shown.
RECURSIVE DisplayFrom(_, _, _)
DisplayFrom(player, i, buf) ==
    IF i > Len(Table) THEN buf
    ELSE DisplayFrom(player, i + 1,
                     IF Shown(player, i) THEN buf \o Chr(" ") \o Table[i].name ELSE buf)

\* The loop of interp_nametab; bFirst is its separator flag.
RECURSIVE InterpFrom(_, _, _, _, _)
InterpFrom(player, flagword, i, bFirst, buf) ==
    IF i > Len(Table) THEN buf
    ELSE IF Shown(player, i)
         THEN LET sep == IF ~bFirst THEN Chr(";") ELSE <<>>
                  b2 == IF ~bFirst THEN FALSE ELSE bFirst
                  val == IF (flagword & Table[i].flag) # 0 THEN TrueText ELSE FalseText
              IN  InterpFrom(player, flagword, i + 1, b2,
                             buf \o sep \o Chr(" ") \o Table[i].name \o <<".", ".", ".">> \o val)
         ELSE InterpFrom(player, flagword, i + 1, bFirst, buf)

\* The loop of listset_nametab: " name" for every set flag shown.
RECURSIVE ListSetFrom(_, _, _, _)
ListSetFrom(player, flagword, i, buf) ==
    IF i > Len(Table) THEN buf
    ELSE ListSetFrom(player, flagword, i + 1,
                     IF (flagword & Table[i].flag) # 0 /\ Shown(player, i)
                     THEN buf \o Chr(" ") \o Table[i].name ELSE buf)

\* The loop of cf_ntab_access: the first entry the name abbreviates.
RECURSIVE NtabFrom(_, _)
NtabFrom(name, i) ==
    IF i > Len(Table) THEN 0
    ELSE IF MinMatch(name, Table[i].name, Table[i].minlen) THEN i
    ELSE NtabFrom(name, i + 1)

-----------------------------------------------------------------------------
(* Calls.                                                                 *)

search_nametab(player, flagname) ==
    /\ out' = [call |-> "search", player |-> player, name |-> flagname,
               res |-> SearchFrom(player, flagname, 1)]
    /\ UNCHANGED perm

find_nametab_ent(player, flagname) ==
    /\ out' = [call |-> "find", player |-> player, name |-> flagname,
               res |-> FindFrom(player, flagname, 1)]
    /\ UNCHANGED perm

\* A listing is notified when it shows an entry or list_if_none is set.
display_nametab(player, list_if_none) ==
    /\ LET buf == DisplayFrom(player, 1, Prefix \o Chr(":"))
       IN  out' = IF buf # Prefix \o Chr(":") \/ list_if_none
                  THEN [call |-> "display", player |-> player, text |-> buf]
                  ELSE NoMsg
    /\ UNCHANGED perm

interp_nametab(player, flagword) ==
    /\ out' = [call |-> "interp", player |-> player, flagword |-> flagword,
               text |-> InterpFrom(player, flagword, 1, TRUE, Prefix)]
    /\ UNCHANGED perm

listset_nametab(player, flagword, list_if_none) ==
    /\ LET buf == ListSetFrom(player, flagword, 1, Prefix \o Chr(":"))
       IN  out' = IF buf # Prefix \o Chr(":") \/ list_if_none
                  THEN [call |-> "listset", player |-> player, text |-> buf]
                  ELSE NoMsg
    /\ UNCHANGED perm

\* cf_ntab_access "name perms": cf_modify_bits on the first entry the name
\* abbreviates (its result returned), or -1 when none does.
cf_ntab_access(name, p) ==
    LET i == NtabFrom(name, 1)
    IN  /\ perm' = IF i = 0 THEN perm ELSE [perm EXCEPT ![i] = p]
        /\ out' = [call |-> "ntab", res |-> IF i = 0 THEN -1 ELSE 0]

Next ==
    \/ \E pl \in Players, n \in Typed : search_nametab(pl, n) \/ find_nametab_ent(pl, n)
    \/ \E pl \in Players, b \in BOOLEAN : display_nametab(pl, b)
    \/ \E pl \in Players, w \in FlagWords : interp_nametab(pl, w)
    \/ \E pl \in Players, w \in FlagWords, b \in BOOLEAN : listset_nametab(pl, w, b)
    \/ \E n \in Typed, p \in Perms : cf_ntab_access(n, p)

Spec == Init /\ [][Next]_vars
-----------------------------------------------------------------------------
(* Properties.                                                            *)

\* The entries a listing shows player, in table order.
Listed(player) == SelectSeq([i \in Idx |-> i], LAMBDA i : Shown(player, i))

\* search_nametab and find_nametab_ent, both commented as searching the
\* table for a match, agree: find returns an entry exactly when search
\* succeeds, and search returns that entry's flag.
SearchFindAgree ==
    \A pl \in Players, n \in Typed :
        LET s == SearchFrom(pl, n, 1)
            f == FindFrom(pl, n, 1)
        IN  /\ s.ok = (f # 0)
            /\ s.ok => s.flag = Table[f].flag

\* interp_nametab separates the entries it lists with ";": its text is the
\* prefix followed by the " name...value" items joined by ";".
InterpItem(pl, w, i) ==
    Chr(" ") \o Table[i].name \o <<".", ".", ".">>
    \o (IF (w & Table[i].flag) # 0 THEN TrueText ELSE FalseText)
InterpSeparated ==
    out # NoMsg /\ out.call = "interp" =>
        LET L == Listed(out.player)
        IN  out.text = Prefix \o FlattenSeq([j \in 1..Len(L) |->
                          (IF j = 1 THEN <<>> ELSE Chr(";")) \o InterpItem(out.player, out.flagword, L[j])])
=============================================================================
