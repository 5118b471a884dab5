------------------------------ MODULE AttrCache ------------------------------
(***************************************************************************)
(* The upper-level attribute cache of attrcache.cpp, with the persistent   *)
(* attribute file it fronts and the two-pass bulk conversion (redirect /   *)
(* pass2 / cleanup).                                                       *)
(*                                                                         *)
(* State (code name in brackets):                                          *)
(*   store      the records of the attribute file [hfAttributeFile], a set *)
(*              of [key, val]; a hash chain is the records whose key has   *)
(*              the same Hash, and every reader re-compares the full key;  *)
(*   ent        the allocated cache entries, by key (an entry is a header  *)
(*              plus payload; val = <<>> for a negative entry) or Nil;     *)
(*   prev, next, head, tail   the intrusive recency list [pPrevEntry,      *)
(*              pNextEntry, pCacheHead, pCacheTail]; an entry is named by  *)
(*              its key, which is unique while the index is exact;         *)
(*   CacheSize  running footprint [CacheSize];                             *)
(*   htab       the cache index [mudstate.acache_htab], a KeyedIndex bag   *)
(*              of [key, data] records whose data names the entry;         *)
(*   TempFiles  the spool files [$convtemp.0..7], sequences of [key, val]; *)
(*   replay     the file cache_pass2 is replaying, Idle outside it.        *)
(* Texts are byte sequences; NUL is 0.  The persistent file's paging,      *)
(* Tick and Sync are external and not modelled.                            *)
(* Two liberties the converter's caller could take are parameters: a       *)
(* cache_del while the spool files are open, and a cache_put after         *)
(* cache_cleanup has closed them (the redirect flag stays set).           *)
(***************************************************************************)
EXTENDS Integers, Sequences, SequencesExt, FiniteSets, FiniteSetsExt, KeyedIndex

CONSTANTS
    Keys,           \* Aname values <<object, attrnum>>
    Hash,           \* Hash[k] = CRC32_ProcessInteger2(object, attrnum)
    Texts,          \* byte strings callers pass to cache_put
    LBUF_SIZE,      \* sizeof(TempRecord.attrText)
    HDR,            \* sizeof(CENT_HDR)
    max_cache_size, \* mudconf.max_cache_size
    N_TEMP_FILES,   \* number of spool files
    MaxSpool,       \* model bound: records per spool file
    StandAlone,     \* mudstate.bStandAlone
    StoreMayFail,   \* hfAttributeFile.Insert may report failure
    AllocMayFail,   \* MEMALLOC may return nullptr
    Converter,      \* the caller is the converter, which uses redirect/pass2
    DelInBulk,      \* the caller may cache_del while the spool is open
    PutAfterCleanup,\* the caller may cache_put after cache_cleanup
    Nil             \* null pointer / freed entry

ASSUME /\ \A k \in Keys : k \in Nat \X Nat
       /\ \A k \in Keys : Hash[k] \in 0..2147483647
       /\ Texts \subseteq Seq(Nat) /\ <<>> \notin Texts
       /\ {LBUF_SIZE, HDR, max_cache_size, N_TEMP_FILES, MaxSpool} \subseteq Nat \ {0}
       /\ {StandAlone, StoreMayFail, AllocMayFail, Converter,
           DelInBulk, PutAfterCleanup} \subseteq BOOLEAN

VARIABLES
    cache_initted, write_protect, cache_redirected,
    store,
    ent, prev, next, head, tail, CacheSize, htab,
    TempFiles, spoolOpen, replay,
    reply,          \* [key, val] returned by the last cache_get
    lastOp          \* [name, key] of this step's get/put/del, NoOp otherwise

cacheVars == <<ent, prev, next, head, tail, CacheSize, htab>>
spoolVars == <<TempFiles, spoolOpen, replay>>
vars == <<cache_initted, write_protect, cache_redirected, store,
          cacheVars, spoolVars, reply, lastOp>>

NUL == 0
Absent == <<>>
Idle == -1
\* lastOp of a step that is no get, put or del of a key.
NoOp == [name |-> "none", key |-> CHOOSE k \in Keys : TRUE]
Parts == 0..(N_TEMP_FILES - 1)

-----------------------------------------------------------------------------
(* Data conversions of cache_put and the spool partition.                 *)

\* The stored text: clamped to LBUF_SIZE bytes, last byte forced to NUL.
Stored(v) ==
    LET len == IF Len(v) > LBUF_SIZE THEN LBUF_SIZE ELSE Len(v)
    IN  [SubSeq(v, 1, len) EXCEPT ![len] = NUL]

\* Spool file of a key: (N_TEMP_FILES-1) & (nHash >> 29).
Part(k) == (Hash[k] \div 2^29) % N_TEMP_FILES

\* Mutant: the chain walk compares the attribute number only.
SameKeyAttrOnly(a, b) == a[2] = b[2]

\* Full key comparison done on every chain candidate (attrnum, object).
SameKey(a, b) == a[2] = b[2] /\ a[1] = b[1]

\* The records of k's hash chain whose key is k.
Found(k) == {r \in store : Hash[r.key] = Hash[k] /\ SameKey(r.key, k)}

\* The chain walk of cache_put / cache_del that removes every match.
RemoveRecords(s, k) == s \ {r \in s : Hash[r.key] = Hash[k] /\ SameKey(r.key, k)}

-----------------------------------------------------------------------------
(* The cache as one record, so that a handler can be written as a         *)
(* composition of the helpers it calls.                                    *)

C == [ent |-> ent, prev |-> prev, next |-> next, head |-> head,
      tail |-> tail, size |-> CacheSize, htab |-> htab]

SetC(c) ==
    /\ ent' = c.ent /\ prev' = c.prev /\ next' = c.next
    /\ head' = c.head /\ tail' = c.tail
    /\ CacheSize' = c.size /\ htab' = c.htab

\* Mutant: unlinking the head forgets to clear the new head's back pointer.
REMOVE_ENTRY_KeepPrev(c, e) ==
    IF e = c.head /\ e # c.tail
    THEN [c EXCEPT !.head = c.next[e], !.next = [@ EXCEPT ![e] = Nil]]
    ELSE IF e = c.head THEN [c EXCEPT !.head = Nil, !.tail = Nil]
    ELSE IF e = c.tail
         THEN [c EXCEPT !.tail = c.prev[e],
                        !.next = [@ EXCEPT ![c.prev[e]] = Nil],
                        !.prev = [@ EXCEPT ![e] = Nil]]
         ELSE [c EXCEPT !.prev = [@ EXCEPT ![c.next[e]] = c.prev[e], ![e] = Nil],
                        !.next = [@ EXCEPT ![c.prev[e]] = c.next[e], ![e] = Nil]]

\* REMOVE_ENTRY: unlink e from the recency list.
REMOVE_ENTRY(c, e) ==
    IF e = c.head
    THEN IF e = c.tail
         THEN [c EXCEPT !.head = Nil, !.tail = Nil]
         ELSE [c EXCEPT !.head = c.next[e],
                        !.prev = [@ EXCEPT ![c.next[e]] = Nil],
                        !.next = [@ EXCEPT ![e] = Nil]]
    ELSE IF e = c.tail
         THEN [c EXCEPT !.tail = c.prev[e],
                        !.next = [@ EXCEPT ![c.prev[e]] = Nil],
                        !.prev = [@ EXCEPT ![e] = Nil]]
         ELSE [c EXCEPT !.prev = [@ EXCEPT ![c.next[e]] = c.prev[e], ![e] = Nil],
                        !.next = [@ EXCEPT ![c.prev[e]] = c.next[e], ![e] = Nil]]

\* ADD_ENTRY: link e in at the head of the recency list.
ADD_ENTRY(c, e) ==
    LET linked == IF c.head # Nil THEN [c.prev EXCEPT ![c.head] = e] ELSE c.prev
    IN
    [c EXCEPT !.prev = [linked EXCEPT ![e] = Nil],
              !.next = [@ EXCEPT ![e] = c.head],
              !.head = e,
              !.tail = IF c.tail = Nil THEN e ELSE c.tail]

\* Mutant: the footprint of a freed entry is not subtracted.
FreeEntryKeepSize(c, e) ==
    LET u == REMOVE_ENTRY(c, e)
    IN  [u EXCEPT !.htab = hashdeleteLEN(@, e), !.ent = [@ EXCEPT ![e] = Nil]]

\* Mutant: the footprint is subtracted twice (by the caller and the helper).
FreeEntrySubtractTwice(c, e) ==
    LET u == REMOVE_ENTRY(c, e)
    IN  [u EXCEPT !.size = @ - 2 * c.ent[e].nSize,
                  !.htab = hashdeleteLEN(@, e),
                  !.ent = [@ EXCEPT ![e] = Nil]]

\* The "delete it" block of cache_put, cache_del and TrimCache: unlink,
\* subtract the footprint, remove the index record, free.
FreeEntry(c, e) ==
    LET u == REMOVE_ENTRY(c, e)
    IN  [u EXCEPT !.size = @ - c.ent[e].nSize,
                  !.htab = hashdeleteLEN(@, e),
                  !.ent = [@ EXCEPT ![e] = Nil]]

\* Mutant: eviction starts from pCacheHead instead of pCacheTail.
RECURSIVE TrimCacheFromHead(_)
TrimCacheFromHead(c) ==
    IF c.size > max_cache_size
    THEN IF c.head = Nil
         THEN [c EXCEPT !.size = 0]
         ELSE TrimCacheFromHead(FreeEntry(c, c.head))
    ELSE c

\* TrimCache: evict from the tail while the footprint exceeds the bound.
RECURSIVE TrimCache(_)
TrimCache(c) ==
    IF c.size > max_cache_size
    THEN IF c.tail = Nil
         THEN [c EXCEPT !.size = 0]
         ELSE TrimCache(FreeEntry(c, c.tail))
    ELSE c

\* Allocate an entry for k holding payload val, link it at the head, index
\* it, then trim (the "Add this information to the cache" blocks).
AddToCache(c, k, val) ==
    LET n == HDR + Len(val)
        a == [c EXCEPT !.ent = [@ EXCEPT ![k] = [val |-> val, nSize |-> n]],
                       !.size = @ + n]
    IN  TrimCache([ADD_ENTRY(a, k) EXCEPT !.htab = hashaddLEN(@, k, k)])
-----------------------------------------------------------------------------
(* Handlers.  A call made while cache_pass2 is replaying cannot happen    *)
(* (the replay is one synchronous call), hence replay = Idle guards.      *)

Init ==
    /\ cache_initted = FALSE
    /\ write_protect = FALSE
    /\ cache_redirected = FALSE
    /\ store = {}
    /\ ent = [k \in Keys |-> Nil]
    /\ prev = [k \in Keys |-> Nil]
    /\ next = [k \in Keys |-> Nil]
    /\ head = Nil /\ tail = Nil
    /\ CacheSize = 0
    /\ htab = EmptyIndex
    /\ TempFiles = [i \in Parts |-> <<>>]
    /\ spoolOpen = FALSE
    /\ replay = Idle
    /\ reply = [key |-> CHOOSE k \in Keys : TRUE, val |-> Absent]
    /\ lastOp = NoOp

\* cache_init: opening an already open cache, or a failed Open, changes
\* nothing; a successful Open marks the cache live.
cache_init ==
    /\ replay = Idle
    /\ ~cache_initted
    /\ cache_initted' = TRUE
    /\ UNCHANGED <<write_protect, cache_redirected, store, cacheVars,
                   spoolVars, reply>>
    /\ lastOp' = NoOp

\* cache_close: closes the file; the cache entries are left in place.
cache_close ==
    /\ replay = Idle
    /\ cache_initted' = FALSE
    /\ UNCHANGED <<write_protect, cache_redirected, store, cacheVars,
                   spoolVars, reply>>
    /\ lastOp' = NoOp

\* cache_get on a closed cache: nullptr, length 0.
GetClosed(k) ==
    /\ ~cache_initted
    /\ reply' = [key |-> k, val |-> Absent]
    /\ UNCHANGED cacheVars

\* cache_get, index hit: move the entry to the head; a negative entry
\* (footprint not above the header) reports absent.
GetHit(k) ==
    /\ cache_initted /\ ~StandAlone
    /\ \E e \in hashfindLEN(htab, k) :
          /\ SetC(ADD_ENTRY(REMOVE_ENTRY(C, e), e))
          /\ reply' = [key |-> k,
                       val |-> IF HDR < ent[e].nSize THEN ent[e].val ELSE Absent]

\* cache_get, index miss: scan k's chain in the file; cache what was found,
\* or a negative entry, unless standalone or the allocation fails.
GetFromFile(k) ==
    /\ cache_initted
    /\ StandAlone \/ hashfindLEN(htab, k) = {}
    /\ \/ \E r \in Found(k) :
             /\ reply' = [key |-> k, val |-> r.val]
             /\ \/ ~StandAlone /\ SetC(AddToCache(C, k, r.val))
                \/ (StandAlone \/ AllocMayFail) /\ UNCHANGED cacheVars
       \/ /\ Found(k) = {}
          /\ reply' = [key |-> k, val |-> Absent]
          /\ \/ ~StandAlone /\ SetC(AddToCache(C, k, Absent))
             \/ (StandAlone \/ AllocMayFail) /\ UNCHANGED cacheVars

cache_get(k) ==
    /\ replay = Idle
    /\ GetClosed(k) \/ GetHit(k) \/ GetFromFile(k)
    /\ lastOp' = [name |-> "get", key |-> k]
    /\ UNCHANGED <<cache_initted, write_protect, cache_redirected, store, spoolVars>>

\* Mutant: the old cache entry of k is not dropped before the new one is added.
PutToFileKeepOld(k, v) ==
    /\ store' = RemoveRecords(store, k) \cup {[key |-> k, val |-> Stored(v)]}
    /\ IF StandAlone THEN UNCHANGED cacheVars
                     ELSE SetC(AddToCache(C, k, Stored(v)))

\* The update of the file and of the cache by cache_put outside redirect:
\* remove every record of k, insert the new one (which may fail), drop the
\* old entry, cache the new text unless standalone or out of memory.
PutToFile(k, v) ==
    LET text == Stored(v)
        purged == RemoveRecords(store, k)
        dropped == IF hashfindLEN(htab, k) # {}
                   THEN FreeEntry(C, CHOOSE e \in hashfindLEN(htab, k) : TRUE)
                   ELSE C
    IN  /\ \/ store' = purged \cup {[key |-> k, val |-> text]}
           \/ StoreMayFail /\ store' = purged
        /\ IF StandAlone
             THEN UNCHANGED cacheVars
             ELSE \/ SetC(AddToCache(dropped, k, text))
                  \/ AllocMayFail /\ SetC(dropped)

\* cache_put in redirect mode: append (key, text) to the key's spool file.
\* A write to a closed spool (after cache_cleanup) is undefined; the model
\* lets it write nothing.
PutToSpool(k, v) ==
    \/ /\ spoolOpen
       /\ Len(TempFiles[Part(k)]) < MaxSpool
       /\ TempFiles' = [TempFiles EXCEPT ![Part(k)] = Append(@, [key |-> k, val |-> Stored(v)])]
    \/ ~spoolOpen /\ PutAfterCleanup /\ UNCHANGED TempFiles

\* cache_put: rejected when closed or write-protected.
cache_put(k, v) ==
    /\ replay = Idle
    /\ cache_initted /\ ~write_protect
    /\ \/ cache_redirected /\ PutToSpool(k, v) /\ UNCHANGED <<store, cacheVars>>
       \/ ~cache_redirected /\ PutToFile(k, v) /\ UNCHANGED TempFiles
    /\ lastOp' = [name |-> "put", key |-> k]
    /\ UNCHANGED <<cache_initted, write_protect, cache_redirected, spoolOpen,
                   replay, reply>>

\* Mutant: cache_del removes the file's records but keeps the cache entry.
cache_delKeepEntry(k) ==
    /\ replay = Idle
    /\ cache_initted /\ ~write_protect
    /\ ~spoolOpen \/ DelInBulk
    /\ store' = RemoveRecords(store, k)
    /\ lastOp' = [name |-> "del", key |-> k]
    /\ UNCHANGED <<cache_initted, write_protect, cache_redirected, cacheVars,
                   spoolVars, reply>>

\* cache_del: remove every record of k from the file (even in redirect
\* mode), and k's cache entry; no negative entry is left behind.
cache_del(k) ==
    /\ replay = Idle
    /\ cache_initted /\ ~write_protect
    /\ ~spoolOpen \/ DelInBulk
    /\ store' = RemoveRecords(store, k)
    /\ IF ~StandAlone /\ hashfindLEN(htab, k) # {}
         THEN SetC(FreeEntry(C, CHOOSE e \in hashfindLEN(htab, k) : TRUE))
         ELSE UNCHANGED cacheVars
    /\ lastOp' = [name |-> "del", key |-> k]
    /\ UNCHANGED <<cache_initted, write_protect, cache_redirected, spoolVars, reply>>

\* cache_redirect: open (truncate) the spool files and divert puts.
\* Opening them while they are open would leak and truncate them; the
\* conversion calls it once, so it is guarded by ~spoolOpen.
cache_redirect ==
    /\ Converter
    /\ replay = Idle /\ ~spoolOpen
    /\ TempFiles' = [i \in Parts |-> <<>>]
    /\ spoolOpen' = TRUE
    /\ cache_redirected' = TRUE
    /\ UNCHANGED <<cache_initted, write_protect, store, cacheVars, replay,
                   reply>>
    /\ lastOp' = NoOp

\* cache_pass2, entry: leave redirect mode and rewind file 0.
Pass2Begin ==
    /\ replay = Idle /\ spoolOpen
    /\ cache_redirected' = FALSE
    /\ replay' = 0
    /\ UNCHANGED <<cache_initted, write_protect, store, cacheVars, TempFiles,
                   spoolOpen, reply>>
    /\ lastOp' = NoOp

\* Mutant: the replay reads a spool file from its end.
Pass2RecordBackwards ==
    /\ replay # Idle
    /\ TempFiles[replay] # <<>>
    /\ LET r == Last(TempFiles[replay]) IN
       /\ IF cache_initted /\ ~write_protect
            THEN PutToFile(r.key, r.val) /\ lastOp' = [name |-> "put", key |-> r.key]
            ELSE UNCHANGED <<store, cacheVars>> /\ lastOp' = NoOp
    /\ TempFiles' = [TempFiles EXCEPT ![replay] = Front(@)]
    /\ UNCHANGED <<cache_initted, write_protect, cache_redirected, spoolOpen,
                   replay, reply>>

\* cache_pass2, loop body: read the next record of the current file and
\* feed it to cache_put, which may reject it.
Pass2Record ==
    /\ replay # Idle
    /\ TempFiles[replay] # <<>>
    /\ LET r == Head(TempFiles[replay]) IN
       /\ IF cache_initted /\ ~write_protect
            THEN PutToFile(r.key, r.val) /\ lastOp' = [name |-> "put", key |-> r.key]
            ELSE UNCHANGED <<store, cacheVars>> /\ lastOp' = NoOp
    /\ TempFiles' = [TempFiles EXCEPT ![replay] = Tail(@)]
    /\ UNCHANGED <<cache_initted, write_protect, cache_redirected, spoolOpen,
                   replay, reply>>

\* cache_pass2, end of a file: close and remove it, go to the next one.
Pass2EndFile ==
    /\ replay # Idle
    /\ TempFiles[replay] = <<>>
    /\ replay' = IF replay + 1 < N_TEMP_FILES THEN replay + 1 ELSE Idle
    /\ spoolOpen' = (replay + 1 < N_TEMP_FILES)
    /\ UNCHANGED <<cache_initted, write_protect, cache_redirected, store,
                   cacheVars, TempFiles, reply>>
    /\ lastOp' = NoOp

\* cache_cleanup: close and remove the spool files without replay; the
\* redirect flag is left as it was.
cache_cleanup ==
    /\ replay = Idle /\ spoolOpen
    /\ TempFiles' = [i \in Parts |-> <<>>]
    /\ spoolOpen' = FALSE
    /\ UNCHANGED <<cache_initted, write_protect, cache_redirected, store,
                   cacheVars, replay, reply>>
    /\ lastOp' = NoOp

\* mudstate.write_protect, set in a forked dumping process of the server
\* and cleared by its owner; the converter does not fork.
SetWriteProtect(b) ==
    /\ ~Converter
    /\ replay = Idle
    /\ write_protect' = b
    /\ UNCHANGED <<cache_initted, cache_redirected, store, cacheVars,
                   spoolVars, reply>>
    /\ lastOp' = NoOp

Pass2Step == Pass2Record \/ Pass2EndFile

Next ==
    \/ cache_init \/ cache_close
    \/ \E k \in Keys : cache_get(k) \/ cache_del(k)
    \/ \E k \in Keys, v \in Texts : cache_put(k, v)
    \/ cache_redirect \/ Pass2Begin \/ Pass2Step \/ cache_cleanup
    \/ \E b \in BOOLEAN : SetWriteProtect(b)

Spec == Init /\ [][Next]_vars
-----------------------------------------------------------------------------
(* Properties.                                                            *)

Alloc == {k \in Keys : ent[k] # Nil}

\* The recency list read from pCacheHead along pNextEntry, at most one step
\* longer than the number of keys so that a cycle shows as an overlong walk.
RECURSIVE Walk(_, _)
Walk(e, n) == IF e = Nil \/ n = 0 THEN <<>> ELSE <<e>> \o Walk(next[e], n - 1)
Order == Walk(head, Cardinality(Keys) + 1)
Pos(e) == CHOOSE i \in 1..Len(Order) : Order[i] = e

Entry == [val : Seq(Nat), nSize : Nat]
Record == [key : Keys, val : Seq(Nat)]

TypeOK ==
    /\ cache_initted \in BOOLEAN /\ write_protect \in BOOLEAN
    /\ cache_redirected \in BOOLEAN /\ spoolOpen \in BOOLEAN
    /\ store \subseteq Record
    /\ ent \in [Keys -> Entry \cup {Nil}]
    /\ prev \in [Keys -> Keys \cup {Nil}] /\ next \in [Keys -> Keys \cup {Nil}]
    /\ head \in Keys \cup {Nil} /\ tail \in Keys \cup {Nil}
    /\ CacheSize \in Nat
    /\ IndexedKeys(htab) \subseteq Keys
    /\ TempFiles \in [Parts -> Seq(Record)]
    /\ replay \in Parts \cup {Idle}
    /\ reply \in [key : Keys, val : Seq(Nat)]

\* REMOVE_ENTRY / ADD_ENTRY keep the list doubly linked: walking from
\* pCacheHead along pNextEntry visits every live entry exactly once and ends
\* at pCacheTail, and each pPrevEntry points at the entry walked before.
ListWellFormed ==
    /\ Len(Order) = Cardinality(Alloc)
    /\ ToSet(Order) = Alloc
    /\ tail = IF Order = <<>> THEN Nil ELSE Last(Order)
    /\ \A i \in 1..Len(Order) : prev[Order[i]] = IF i = 1 THEN Nil ELSE Order[i - 1]

\* Every live entry is filed in acache_htab exactly once, and the index
\* never points at a freed entry (cache_get, cache_put, cache_del and
\* TrimCache each pair hashaddLEN/hashdeleteLEN with allocation/free).
IndexExact ==
    /\ IndexedKeys(htab) = Alloc
    /\ \A k \in Alloc : Copies(htab, k) = 1 /\ hashfindLEN(htab, k) = {k}

\* CacheSize equals the sum of the live entries' footprints and, once a
\* handler has returned, does not exceed max_cache_size.
FootprintAccounted ==
    /\ CacheSize = MapThenSumSet(LAMBDA k : ent[k].nSize, Alloc)
    /\ CacheSize <= max_cache_size

\* The cache never disagrees with the attribute file: a live entry holds
\* the text of the one record of its key, and a negative entry stands for
\* a key with no record.
CacheCoherent ==
    \A k \in Alloc :
        IF HDR < ent[k].nSize
        THEN Found(k) = {[key |-> k, val |-> ent[k].val]}
        ELSE Found(k) = {}

\* The recency list is kept in LRU order by every handler: after a get or
\* put of k on an open cache, k's entry (if cached) is at the head; an entry
\* freed while an entry behind it survives can only be the one cache_del
\* removed, so TrimCache always takes the least recently used entries.
LRUDiscipline ==
    [][/\ cache_initted /\ lastOp'.name \in {"get", "put"} /\ lastOp'.key \in Alloc'
          => head' = lastOp'.key
       /\ \A e \in Alloc \ Alloc', s \in (Alloc \cap Alloc') \ {lastOp'.key} :
          \/ lastOp'.name = "del" /\ e = lastOp'.key
          \/ Pos(s) < Pos(e)]_vars

-----------------------------------------------------------------------------
(* Refinement of AttrStore: the file's records are the committed texts    *)
(* and the spooled records of a key, in file order, its deferred puts.    *)

StoreDict == [k \in Keys |-> IF Found(k) = {} THEN Absent
                              ELSE (CHOOSE r \in Found(k) : TRUE).val]
Deferred == [k \in Keys |->
                LET sel == SelectSeq(TempFiles[Part(k)], LAMBDA r : r.key = k)
                IN  [i \in 1..Len(sel) |-> sel[i].val]]
=============================================================================
