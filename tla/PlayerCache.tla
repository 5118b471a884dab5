----------------------------- MODULE PlayerCache -----------------------------
(***************************************************************************)
(* The player cache of player_c.cpp: money, queued-command count and       *)
(* queue limit of player objects, kept in PCACHE entries reachable from a  *)
(* singly linked chain (pcache_head / next) and from pcache_htab, aged by  *)
(* the two-generation clock of pcache_trim (PF_REF) and flushed to the     *)
(* A_MONEY attribute when dirty (PF_MONEY_CH).                             *)
(*                                                                         *)
(* Objects are the dbrefs 0..DbTop-1, in the order DO_WHOLE_DB visits      *)
(* them.  OwnsOthers(x) holds of player objects; isPlayer records it, and  *)
(* changes only when a command turns a player into a thing (WizMoney).     *)
(* An attribute holds the amount written by mux_ltoa and read back by      *)
(* mux_atol, a round trip that is the identity on int; NoAttr is a missing *)
(* or empty attribute.  The server, not the standalone converter, is       *)
(* modelled: mudstate.bStandAlone is false.                                *)
(* The queued-command counts are driven by the command queue (cque.cpp),   *)
(* modelled as QueueCommand / RunCommand with cmds, the commands each      *)
(* object has outstanding.                                                 *)
(***************************************************************************)
EXTENDS Integers, Sequences, FiniteSets, KeyedIndex

CONSTANTS
    DbTop,          \* mudstate.db_top: objects are 0..DbTop-1
    Players,        \* the objects that are players at start
    Wizards,        \* players for which Wizard(player) holds
    Moneys,         \* amounts a purse can be set to
    QMaxAttr,       \* obj -> A_QUEUEMAX value, or NoAttr
    queuemax,       \* mudconf.queuemax
    MaxQueue,       \* bound on the commands an object has outstanding
    NoAttr,         \* a missing or empty attribute
    Nil             \* nullptr

Objs == 0..(DbTop - 1)

ASSUME /\ DbTop \in Nat \ {0} /\ Players \subseteq Objs /\ Wizards \subseteq Players
       /\ Moneys \subseteq Int /\ queuemax \in Nat /\ MaxQueue \in Nat
       /\ QMaxAttr \in [Objs -> Int \cup {NoAttr}]
       /\ NoAttr \notin Int /\ Nil \notin Objs

VARIABLES
    isPlayer,       \* obj -> OwnsOthers(obj)
    attr,           \* obj -> A_MONEY attribute (amount or NoAttr)
    pc,             \* obj -> its PCACHE entry, or Nil
    pcache_head,    \* head of the chain
    htab,           \* pcache_htab
    cmds,           \* obj -> commands outstanding in the command queue
    money_reply,    \* [obj, val] returned by the last Pennies
    limit_reply,    \* [obj, val] returned by the last QueueMax
    wrote           \* the objects this step's s_Pennies calls wrote (ghost)

pcVars == <<attr, pc, pcache_head, htab>>
vars == <<isPlayer, pcVars, cmds, money_reply, limit_reply, wrote>>

Entry == [money : Int, queue : Int, qmax : Int, ref : BOOLEAN,
          dirty : BOOLEAN, next : Objs \cup {Nil}]

-----------------------------------------------------------------------------
(* The cache and the A_MONEY attributes as one record S, so that a         *)
(* handler is a composition of the helpers it calls.                       *)

S == [attr |-> attr, pc |-> pc, head |-> pcache_head, htab |-> htab]

SetS(s) ==
    /\ attr' = s.attr /\ pc' = s.pc /\ pcache_head' = s.head /\ htab' = s.htab

\* mux_atol(atr_get_raw(obj, A_MONEY)), 0 when there is no attribute.
AttrMoney(a, o) == IF a[o] = NoAttr THEN 0 ELSE a[o]

\* Mutant: the A_QUEUEMAX value is taken without the missing/negative check.
pcache_reload1NoCheck(e, a, p) ==
    [e EXCEPT !.money = AttrMoney(a, p), !.dirty = @ \/ a[p] = NoAttr,
              !.qmax = QMaxAttr[p]]

\* pcache_reload1: money from A_MONEY (0 and dirty when missing), the limit
\* from A_QUEUEMAX (-1 when missing or negative).
pcache_reload1(e, a, p) ==
    [e EXCEPT !.money = AttrMoney(a, p),
              !.dirty = @ \/ a[p] = NoAttr,
              !.qmax = IF QMaxAttr[p] = NoAttr \/ QMaxAttr[p] < 0 THEN -1
                       ELSE QMaxAttr[p]]

\* Mutant: a new entry is filed in the index but not pushed on the chain.
pcache_findNoLink(s, p) ==
    IF hashfindLEN(s.htab, p) # {}
    THEN [s EXCEPT !.pc[p].ref = TRUE]
    ELSE [s EXCEPT !.pc[p] = pcache_reload1([money |-> 0, queue |-> 0, qmax |-> -1,
                                              ref |-> TRUE, dirty |-> FALSE,
                                              next |-> Nil], s.attr, p),
                   !.htab = hashaddLEN(@, p, p)]

\* pcache_find: a hit sets PF_REF; a miss allocates an entry with only
\* PF_REF, loads it, pushes it on the chain and files it in the index.
pcache_find(s, p) ==
    IF hashfindLEN(s.htab, p) # {}
    THEN [s EXCEPT !.pc[p].ref = TRUE]
    ELSE [s EXCEPT !.pc[p] = pcache_reload1([money |-> 0, queue |-> 0, qmax |-> -1,
                                              ref |-> TRUE, dirty |-> FALSE,
                                              next |-> s.head], s.attr, p),
                   !.head = p,
                   !.htab = hashaddLEN(@, p, p)]

\* pcache_save: a dirty money field is written to A_MONEY and cleaned.
pcache_save(s, p) ==
    IF s.pc[p].dirty
    THEN [s EXCEPT !.attr[p] = s.pc[p].money, !.pc[p].dirty = FALSE]
    ELSE s

\* Mutant: the sweep ages entries by PF_REF alone, ignoring queued commands.
RECURSIVE SweepIgnoreQueue(_, _, _, _)
SweepIgnoreQueue(s, pp, pplast, fuel) ==
    IF pp = Nil \/ fuel = 0 THEN s
    ELSE LET ppnext == s.pc[pp].next
         IN  IF s.pc[pp].ref
             THEN SweepIgnoreQueue([s EXCEPT !.pc[pp].ref = FALSE], ppnext, pp, fuel - 1)
             ELSE LET u == IF pplast # Nil THEN [s EXCEPT !.pc[pplast].next = ppnext]
                           ELSE [s EXCEPT !.head = ppnext]
                  IN  SweepIgnoreQueue([pcache_save(u, pp) EXCEPT !.htab = hashdeleteLEN(@, pp),
                                                                 !.pc[pp] = Nil],
                                       ppnext, pplast, fuel - 1)

\* Mutant: a surviving entry keeps its PF_REF (the flag is never cleared).
RECURSIVE SweepKeepRef(_, _, _, _)
SweepKeepRef(s, pp, pplast, fuel) ==
    IF pp = Nil \/ fuel = 0 THEN s
    ELSE LET ppnext == s.pc[pp].next
         IN  IF s.pc[pp].queue # 0 \/ s.pc[pp].ref
             THEN SweepKeepRef(s, ppnext, pp, fuel - 1)
             ELSE LET u == IF pplast # Nil THEN [s EXCEPT !.pc[pplast].next = ppnext]
                           ELSE [s EXCEPT !.head = ppnext]
                  IN  SweepKeepRef([pcache_save(u, pp) EXCEPT !.htab = hashdeleteLEN(@, pp),
                                                             !.pc[pp] = Nil],
                                   ppnext, pplast, fuel - 1)

\* The loop of pcache_trim from pp, pplast the last entry kept; fuel bounds
\* the walk so that a malformed chain cannot recurse forever.
RECURSIVE Sweep(_, _, _, _)
Sweep(s, pp, pplast, fuel) ==
    IF pp = Nil \/ fuel = 0 THEN s
    ELSE LET ppnext == s.pc[pp].next
         IN  IF s.pc[pp].queue # 0 \/ s.pc[pp].ref
             THEN Sweep([s EXCEPT !.pc[pp].ref = FALSE], ppnext, pp, fuel - 1)
             ELSE LET u == IF pplast # Nil THEN [s EXCEPT !.pc[pplast].next = ppnext]
                           ELSE [s EXCEPT !.head = ppnext]
                      v == pcache_save(u, pp)
                  IN  Sweep([v EXCEPT !.htab = hashdeleteLEN(@, pp), !.pc[pp] = Nil],
                            ppnext, pplast, fuel - 1)

\* The loop of pcache_sync.
RECURSIVE SaveChain(_, _, _)
SaveChain(s, pp, fuel) ==
    IF pp = Nil \/ fuel = 0 THEN s
    ELSE SaveChain(pcache_save(s, pp), s.pc[pp].next, fuel - 1)

Fuel == DbTop + 1

-----------------------------------------------------------------------------
(* Handlers.                                                               *)

\* pcache_init, on a database just loaded.
Init ==
    /\ isPlayer = [o \in Objs |-> o \in Players]
    /\ attr \in [Objs -> Moneys \cup {NoAttr}]
    /\ pc = [o \in Objs |-> Nil]
    /\ pcache_head = Nil
    /\ htab = EmptyIndex
    /\ cmds = [o \in Objs |-> 0]
    /\ money_reply = [obj |-> 0, val |-> 0]
    /\ limit_reply = [obj |-> 0, val |-> 0]
    /\ wrote = {}

\* Mutant: pcache_reload reloads without flushing the dirty money first.
pcache_reloadNoSave(p) ==
    /\ isPlayer[p]
    /\ LET s == pcache_find(S, p)
       IN  SetS([s EXCEPT !.pc[p] = pcache_reload1(@, s.attr, p)])
    /\ UNCHANGED <<isPlayer, cmds, money_reply, limit_reply>>
    /\ wrote' = {}

\* pcache_reload: flush, then reload from the attributes.
pcache_reload(p) ==
    /\ isPlayer[p]
    /\ LET s == pcache_save(pcache_find(S, p), p)
       IN  SetS([s EXCEPT !.pc[p] = pcache_reload1(@, s.attr, p)])
    /\ UNCHANGED <<isPlayer, cmds, money_reply, limit_reply>>
    /\ wrote' = {}

pcache_trim ==
    /\ SetS(Sweep(S, pcache_head, Nil, Fuel))
    /\ UNCHANGED <<isPlayer, cmds, money_reply, limit_reply>>
    /\ wrote' = {}

pcache_sync ==
    /\ SetS(SaveChain(S, pcache_head, Fuel))
    /\ UNCHANGED <<isPlayer, cmds, money_reply, limit_reply>>
    /\ wrote' = {}

\* a_Queue: adjust the count of a player's entry; no effect on others.
a_Queue(s, p, adj) ==
    IF isPlayer[p]
    THEN LET f == pcache_find(s, p) IN [f EXCEPT !.pc[p].queue = @ + adj]
    ELSE s

\* cque.cpp queues a command charged to p, or runs one of p's commands.
QueueCommand(p) ==
    /\ cmds[p] < MaxQueue
    /\ cmds' = [cmds EXCEPT ![p] = @ + 1]
    /\ SetS(a_Queue(S, p, 1))
    /\ UNCHANGED <<isPlayer, money_reply, limit_reply>>
    /\ wrote' = {}

RunCommand(p) ==
    /\ cmds[p] > 0
    /\ cmds' = [cmds EXCEPT ![p] = @ - 1]
    /\ SetS(a_Queue(S, p, -1))
    /\ UNCHANGED <<isPlayer, money_reply, limit_reply>>
    /\ wrote' = {}

\* QueueMax: the entry's override, else the game-wide limit, raised to
\* db_top+1 for wizards; 0 for non-players.
QueueMax(p) ==
    /\ IF isPlayer[p]
         THEN LET f == pcache_find(S, p)
                  m == IF f.pc[p].qmax >= 0 THEN f.pc[p].qmax
                       ELSE IF p \in Wizards /\ queuemax < DbTop + 1 THEN DbTop + 1
                       ELSE queuemax
              IN  SetS(f) /\ limit_reply' = [obj |-> p, val |-> m]
         ELSE UNCHANGED pcVars /\ limit_reply' = [obj |-> p, val |-> 0]
    /\ UNCHANGED <<isPlayer, cmds, money_reply>>
    /\ wrote' = {}

\* Pennies: a player's money comes from its entry, anyone else's from A_MONEY.
Pennies(o) ==
    /\ IF isPlayer[o]
         THEN LET f == pcache_find(S, o)
              IN  SetS(f) /\ money_reply' = [obj |-> o, val |-> f.pc[o].money]
         ELSE UNCHANGED pcVars /\ money_reply' = [obj |-> o, val |-> AttrMoney(attr, o)]
    /\ UNCHANGED <<isPlayer, cmds, limit_reply>>
    /\ wrote' = {}

\* s_Pennies on the state s, with OwnsOthers as given by player.
SetPennies(s, player, o, v) ==
    IF player[o]
    THEN LET f == pcache_find(s, o)
         IN  [f EXCEPT !.pc[o].money = v, !.pc[o].dirty = TRUE]
    ELSE [s EXCEPT !.attr[o] = v]

s_Pennies(o, v) ==
    /\ SetS(SetPennies(S, isPlayer, o, v))
    /\ wrote' = {o}
    /\ UNCHANGED <<isPlayer, cmds, money_reply, limit_reply>>

\* s_PenniesDirect writes A_MONEY; db_rw.cpp calls it while loading, when
\* the object has no cache entry.
s_PenniesDirect(o, v) ==
    /\ pc[o] = Nil
    /\ attr' = [attr EXCEPT ![o] = v]
    /\ wrote' = {o}
    /\ UNCHANGED <<isPlayer, pc, pcache_head, htab, cmds, money_reply, limit_reply>>

PlayerCacheNext ==
    \/ pcache_trim \/ pcache_sync
    \/ \E o \in Objs :
          \/ pcache_reload(o) \/ QueueCommand(o) \/ RunCommand(o)
          \/ QueueMax(o) \/ Pennies(o)
          \/ \E v \in Moneys : s_Pennies(o, v) \/ s_PenniesDirect(o, v)

Spec == Init /\ [][PlayerCacheNext]_vars
-----------------------------------------------------------------------------
(* Properties.                                                            *)

Cached == {o \in Objs : pc[o] # Nil}

\* The chain read from pcache_head along next, one step longer than the
\* number of objects at most so that a cycle shows as an overlong walk.
RECURSIVE ChainFrom(_, _)
ChainFrom(e, n) == IF e = Nil \/ n = 0 THEN <<>> ELSE <<e>> \o ChainFrom(pc[e].next, n - 1)
Chain == ChainFrom(pcache_head, Fuel)

TypeOK ==
    /\ isPlayer \in [Objs -> BOOLEAN]
    /\ attr \in [Objs -> Int \cup {NoAttr}]
    /\ \A o \in Cached : pc[o] \in Entry
    /\ pcache_head \in Objs \cup {Nil}
    /\ IndexedKeys(htab) \subseteq Objs
    /\ cmds \in [Objs -> 0..MaxQueue]

\* pcache_find, pcache_trim and the unlinking of trim keep the chain and
\* pcache_htab describing the same entries: the chain visits every cached
\* object once and nothing else, and the index files each of them once.
ChainIndexExact ==
    /\ Len(Chain) = Cardinality(Cached)
    /\ {Chain[i] : i \in 1..Len(Chain)} = Cached
    /\ IndexedKeys(htab) = Cached
    /\ \A o \in Cached : Copies(htab, o) = 1

\* The queued-command count of a player, as a_Queue reads it: the entry's
\* count, or 0 for an entry that a later pcache_find will create.
QueueCount(p) == IF pc[p] = Nil THEN 0 ELSE pc[p].queue

\* Every player's cached count equals the commands it has outstanding:
\* pcache_trim never evicts an entry with queued commands, so no count is
\* lost and no later decrement drives one below zero.
QueueAccounted == \A p \in Objs : isPlayer[p] => QueueCount(p) = cmds[p]

\* The amount Pennies reports: a player's cached money, else A_MONEY.
Money(o) == IF isPlayer[o] /\ pc[o] # Nil THEN pc[o].money ELSE AttrMoney(attr, o)

\* The player cache, its dirty flags, trims, syncs and reloads implement a
\* plain purse per object: the amount changes only by s_Pennies or
\* s_PenniesDirect, and Pennies returns the amount last set.
PS == INSTANCE Purse WITH purse <- [o \in Objs |-> Money(o)], seen <- money_reply,
                          written <- wrote, Amounts <- Moneys \cup {0}
RefinesPurse == PS!Spec
=============================================================================
