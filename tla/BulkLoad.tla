------------------------------- MODULE BulkLoad -------------------------------
(***************************************************************************)
(* The bulk conversion of attrcache.cpp against its promise (spec 4.3 and  *)
(* the bulk replay equivalence of spec 8): redirecting puts to the spool   *)
(* files and replaying them with cache_pass2 leaves the attribute file as  *)
(* if redirect had never been used.                                        *)
(*                                                                         *)
(* Every handler of AttrCache is conjoined with an update of the history   *)
(* variable direct: the attribute file as it would be had each accepted    *)
(* cache_put and cache_del been executed at the moment it was called.      *)
(* cache_cleanup is the abort path, which discards the spooled puts: the   *)
(* history restarts from the file as it is.                                *)
(*                                                                         *)
(* The converter's calling protocol is a constraint on the caller: the     *)
(* cache stays open while the spool files are open.  The liberties a       *)
(* caller may take are parameters: DelInBulk and PutAfterCleanup of        *)
(* AttrCache, and a second cache_redirect (RedirectTwice).                 *)
(***************************************************************************)
EXTENDS AttrCache

CONSTANT RedirectTwice  \* the caller may cache_redirect with the spool open

ASSUME RedirectTwice \in BOOLEAN

VARIABLE direct         \* key -> text the file would hold without redirect

bulkVars == <<vars, direct>>

BulkInit == Init /\ direct = [k \in Keys |-> Absent]

\* The calls that leave the history alone: they commit nothing, or (the
\* replay) commit what was already counted when the put was spooled.
Quiet ==
    \/ cache_init \/ (cache_close /\ ~spoolOpen)
    \/ \E k \in Keys : cache_get(k)
    \/ cache_redirect \/ Pass2Begin \/ Pass2Step
    \/ \E b \in BOOLEAN : SetWriteProtect(b)

\* An accepted cache_put: committed at once when executed directly.
PutH(k, v) ==
    /\ cache_put(k, v)
    /\ direct' = [direct EXCEPT ![k] = Stored(v)]

\* An accepted cache_del: the key is gone at once.
DelH(k) ==
    /\ cache_del(k)
    /\ direct' = [direct EXCEPT ![k] = Absent]

\* cache_cleanup: the spooled puts are abandoned with the spool files.
CleanupH ==
    /\ cache_cleanup
    /\ direct' = StoreDict

\* cache_redirect while the spool files are open: mux_fopen with "wb+"
\* truncates each file, and the FILE* handles holding the spooled records
\* are dropped without fclose; the records never reach the new files.
RedirectAgainH ==
    /\ RedirectTwice
    /\ Converter
    /\ replay = Idle /\ spoolOpen
    /\ TempFiles' = [i \in Parts |-> <<>>]
    /\ cache_redirected' = TRUE
    /\ UNCHANGED <<cache_initted, write_protect, store, cacheVars, spoolOpen,
                   replay, reply, direct>>
    /\ lastOp' = NoOp

BulkNext ==
    \/ Quiet /\ UNCHANGED direct
    \/ \E k \in Keys, v \in Texts : PutH(k, v)
    \/ \E k \in Keys : DelH(k)
    \/ CleanupH

\* With the second cache_redirect, which only the RedirectTwice check takes.
BulkRedirectNext == BulkNext \/ RedirectAgainH

BulkSpec == BulkInit /\ [][BulkNext]_bulkVars

BulkRedirectSpec == BulkInit /\ [][BulkRedirectNext]_bulkVars

\* Bulk replay equivalence: whenever no spool file is open and no replay is
\* running, the attribute file holds exactly what it would hold had every
\* put and del been executed directly, in the order the caller issued them.
BulkReplayEquivalent ==
    replay = Idle /\ ~spoolOpen => StoreDict = direct
=============================================================================
