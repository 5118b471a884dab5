# TLA+ models of the TinyMUX caching layer

This directory holds TLA+ models of the caching engine in `src/mux/src`, and
the TLC configurations that check them. The engine is:

- the keyed-index wrappers of `htab.cpp`;
- the LRU attribute cache and bulk loader of `attrcache.cpp`;
- the player cache of `player_c.cpp`;
- the two wizard commands of `wiz.cpp` that change purses through the player
  cache;
- the name tables of `htab.cpp` (lookup, listing and re-permissioning),
  and `do_global` of `wiz.cpp` (@enable/@disable), which reads one of them;
- the random-number generator of `svdrand.cpp`, which the spec treats as an
  external collaborator but which is source in this repository.

## 1. Inventory

| Part | Source | State it keeps | Operations |
|---|---|---|---|
| KeyedIndex | `htab.cpp` 39-300 | a CHashTable of `(key, data)` records, the table's own walk position (FindFirst/FindNext), and the static `htab_rec` scratch record | `hashfindLEN`, `hashaddLEN` (does not check for duplicates), `hashdeleteLEN` (removes every match), `hashreplLEN`, `hashreplall`, `hashflush`/`hashreset`, `hash_first/next{entry,key}` |
| NameTables | `htab.cpp` 307-487 | the `perm` field of each NAMETAB entry | `search_nametab`, `find_nametab_ent`, `display_nametab`, `interp_nametab`, `listset_nametab`, `cf_ntab_access` |
| AttributeCache | `attrcache.cpp` 41-500 | `cache_initted`; a doubly linked recency list (`pCacheHead`, `pCacheTail`, `pPrevEntry`, `pNextEntry`); `CacheSize`; `acache_htab`; the attribute file `hfAttributeFile`; the static `TempRecord` | `cache_init`, `cache_close`, `cache_get`, `cache_put`, `cache_del`, `TrimCache`, `cache_sync`, `cache_tick` |
| BulkLoader | `attrcache.cpp` 72-132, 366-377 | `cache_redirected`; `TempFiles[N_TEMP_FILES]` | `cache_redirect`, `cache_put` in redirect mode, `cache_pass2`, `cache_cleanup` |
| PlayerCache | `player_c.cpp` | PCACHE entries (money, queue, qmax, `PF_REF`, `PF_MONEY_CH`); the singly linked chain `pcache_head`; `pcache_htab`; the A_MONEY attribute | `pcache_init`, `pcache_find`, `pcache_reload1`, `pcache_save`, `pcache_reload`, `pcache_trim`, `pcache_sync`, `a_Queue`, `QueueMax`, `Pennies`, `s_Pennies`, `s_PenniesDirect` |
| Wizard commands | `wiz.cpp` | the object type (player or thing); `mudconf.control_flags` and the scheduler's priority floor | `do_toad`, `do_poor` (purse changes); `do_global` (flags); the other commands do not touch a cache or a table |
| PersistentStore | external (CHashFile) | hashed records | `Insert`, `Remove`, `FindFirstKey`, `FindNextKey`, `Copy` |
| RNG | `svdrand.cpp` | `mt[N]`, `left`, `next`, `bSeeded` | `SeedRandomNumberGenerator`, `sgenrand`, `sgenrand_from_array`, `next_state`, `genrand`, `RandomINT32` |
| ANSI | `ansi.h` | constants | none |

How the parts interact:

- AttrCache and PlayerCache each own a KeyedIndex.
- `cache_get` falls through to the attribute file on an index miss, and
  `cache_put`/`cache_del` write through to it.
- While `cache_redirected` is set, the BulkLoader sits in front of
  `cache_put`. `cache_pass2` then replays the spooled records through the
  ordinary `cache_put`.
- The PlayerCache reads and writes the A_MONEY attribute. It writes only on
  a flush of dirty money, in `pcache_save` (called by trim, sync and reload).
- `do_toad` and `do_poor` call `Pennies`/`s_Pennies`. Which path those take
  depends on whether the object `OwnsOthers`, which is true of players.
- `do_global` looks the typed flag name up in `enable_names` with
  `search_nametab`, so the name-table lookup decides which flag it changes.
  When that flag is dequeueing, it also moves the scheduler's priority floor.

Behaviours that are hard to test:

- **AttrCache recency list.** Pointer surgery in `REMOVE_ENTRY`/`ADD_ENTRY`
  runs under long sequences of hits, puts, deletes and trims.
- **Footprint accounting.** `CacheSize` is a `size_t`, and `TrimCache`
  silently zeroes it.
- **Duplicate index records.** `hashaddLEN` never checks for duplicates.
- **Hash collisions.** They are resolved by a full-key compare.
- **Ignored insert result.** `hashaddLEN` drops the result of
  `CHashTable::Insert` and returns true, although its comment promises
  false on failure.
- **Walk position shared with `hashreplall`.** `hash_nextentry` continues
  from a position kept inside the table. `hashreplall` walks with the same
  FindFirst/FindNext and leaves that position at the end. It is not
  checked (section 7).
- **Store-insert failure.** It is logged, but the cache is updated anyway.
- **The forced NUL.** It is written on every put.
- **Bulk-load ordering.** Records are replayed file by file. A `cache_del`
  issued during redirect takes effect at once. `cache_cleanup` leaves
  redirect mode on.
- **PlayerCache aging.** The two-generation clock interacts with queued
  commands (an entry with queued commands is never trimmed).
- **Lazy money flush.** It interacts with objects that stop being players
  (`do_toad`).
- **Queue counts after @toad.** `a_Queue` ignores an object that no longer
  owns others, so counts taken before the toad are never given back.
- **Name lookup order.** `search_nametab` stops at the first entry an
  abbreviation matches. `find_nametab_ent` goes on past entries the player
  may not use.
- **In-place MT regeneration.** `next_state` reads words it has already
  rewritten in the same pass.
- **TempRecord aliasing.** `cache_get` may return a pointer into the static
  `TempRecord`. `cache_put` walks the new key's hash chain through that same
  record before it copies the value in.
- **Double redirect.** A second `cache_redirect` reopens the spool files
  with `wb+`, truncating what was spooled.
- **Dequeue floor.** The scheduler keeps its own copy of the dequeueing
  flag. Only `do_global` keeps it in step.
- **Rejection sampling.** `RandomINT32` has an off-by-one-prone limit, and a
  signed subtraction that overflows on wide ranges.

## 2. Correctness properties

KeyedIndex (from the comments of htab.cpp; the spec names no property):

- Used with find-before-add, the wrappers implement a partial function
  from keys to data pointers: `hashaddLEN`'s true means the key is filed,
  a lookup returns the last pointer filed or replaced under the key, and
  `hashreplLEN` reports whether the key was there.

AttrCache (spec sections 3 and 4.2-4.3):

- The recency list is a well-formed doubly linked list of exactly the live
  entries.
- Each live entry is filed once in the index.
- `CacheSize` is the sum of the footprints and at most `max_cache_size`.
- Hits and puts move the key to the head, and only least-recently-used
  entries are evicted.
- Cached texts and negative entries agree with the file.
- A text got from `cache_get` and passed straight to `cache_put` is what the
  file then holds (the round trip of spec 8). This fails; see below.
- The whole implements a keyed store in which bulk-mode puts are deferred
  and later committed per key in issue order, and a del also drops the
  key's deferred puts (spec 4.3: as if redirect had never been used). In
  the converter this is checked for a caller that keeps its protocol.

BulkLoader (spec 4.3 and the bulk replay equivalence of spec 8):

- Once no spool file is open and no replay runs, the attribute file holds
  what direct execution of the same puts and dels, in issue order, would
  have left.

PlayerCache (spec sections 3, 4.4 and the player aging property of 8):

- The chain and the index describe the same entries, once each.
- A player's cached queue count equals its outstanding commands.
- Pennies/s_Pennies implement a plain purse per object. Trims, syncs and
  reloads never change an amount, and a read returns the last amount set.
- An entry that has been through two `pcache_trim` calls since it was last
  found is still cached only if commands charged to it are queued.

NameTables (from the code's comments; the spec names no property):

- `search_nametab` and `find_nametab_ent` agree (fails; see below).
- `interp_nametab` separates its items with `;` (fails; see below).
- After any `@enable`/`@disable`, the scheduler's priority floor matches the
  dequeueing bit of `control_flags`.

RNG (from the MT19937 reference and the comment of `RandomINT32`):

- `genrand` returns the tempered MT19937 sequence of the state it was
  seeded with.
- `RandomINT32(lLow, lHigh)` with `lLow < lHigh` draws, returns a value of
  the interval, and its accepted draws map onto every value equally often.

## 3. Modules

| Module | Models | Notes |
|---|---|---|
| `KeyedIndex` | the htab.cpp wrappers | A table is a bag of `[key, data]` records, so duplicate records stay visible. A lookup returns the set of data it may return, because chain order is unspecified. |
| `KeyedTable` | the htab.cpp wrappers over one CHashTable, with its walk | Records lie in directory slots; `cursor` is the position FindFirst/FindNext keep. `RefinesKeyedMap` is stated here. |
| `KeyedMap` | abstract spec of the wrappers | a partial function from keys to data, the last lookup's result, the last add/replace result |
| `MCKeyedTable` | model values | extends KeyedTable |
| `AttrStore` | abstract spec of the attribute cache | keyed texts, deferred bulk puts, an open/closed flag |
| `AttrCache` | attrcache.cpp | The cache is one record `C`, so a handler is the composition of the helpers it calls (`REMOVE_ENTRY`, `ADD_ENTRY`, `FreeEntry`, `TrimCache`, `AddToCache`). The file is a set of `[key, val]` records. |
| `AttrTemp` | attrcache.cpp's `TempRecord` | Extends AttrCache with `ptr` (where the last `cache_get` text lies) and `copied`. `PutReply` is `cache_put` given that text; the chain walk (`Chain`, `CopyRecord`, `ValueRead`) rewrites it first, in a nondeterministic chain order. |
| `MCAttrTemp` | model values | extends AttrTemp and MCAttrCache |
| `MCAttrCache` | model values, refinement mapping | `AS == INSTANCE AttrStore WITH ...`, with `RefinesAttrStore == AS!Spec` |
| `Purse` | abstract spec of Pennies/s_Pennies | one amount per object. `written` records which purses a step set. |
| `PlayerCache` | player_c.cpp | Entries are a function from object to record (or Nil). `next` pointers form the chain. `pcache_trim` is the recursive `Sweep` with `pplast`. `RefinesPurse` is stated here. |
| `WizMoney` | wiz.cpp do_toad, do_poor | extends PlayerCache |
| `MCPlayerCache` | model values | |
| `BulkLoad` | the converter's use of attrcache.cpp | Extends AttrCache with the history variable `direct`, the file as direct execution would leave it. `PutH`, `DelH` and `CleanupH` are `cache_put`, `cache_del` and `cache_cleanup` with its update. |
| `MCBulkLoad` | model values | extends MCAttrCache |
| `PlayerAging` | pcache_trim's two-generation clock | Extends WizMoney with the history variable `age`: trims since the last `pcache_find`, counted apart from `PF_REF`. |
| `MCPlayerAging` | model values | extends MCPlayerCache |
| `NameTab` | htab.cpp 307-486 | The table is a sequence of `[name, minlen, flag]` records and `perm` a variable. Each loop is a RECURSIVE operator, and each call an action whose result is `out`. |
| `WizGlobal` | wiz.cpp do_global, enable_names | Extends NameTab with `control_flags` and `minPriority`. `EN` is NameTab instantiated on `enable_names`, with every perm `CA_PUBLIC`. |
| `MCNameTab` | a three-entry table, two enable_names entries | extends WizGlobal |
| `Rng` | svdrand.cpp | `mt` is a function `0..N-1 -> Word`. Each loop is a RECURSIVE operator, and `RandomINT32` is one action containing its whole rejection loop. |
| `MCRng` | seeds, urandom reads, ranges | |

### Correspondence with the code

**KeyedTable.**

- CHashTable is not in the repository. Its records lie in `Slots`, whose
  order is the order of the directory; FindFirst/FindNext follow it, and it
  also orders a collision chain. Insert puts a record in any free slot.
- The full-key compare is key equality, so `Chain(k)` is the set of
  records a chain walk accepts, and the hash does not appear.
- `cursor` is the table's position: `hash_firstentry` starts it with
  FindFirst, `hash_nextentry` moves it with FindNext, and `hashreplall` and
  `hashflush` leave it at the end.
- `hashaddLEN` is guarded by the key being absent, the contract every
  caller keeps (`attrcache.cpp`, `player_c.cpp` look up first). A failing
  Insert is enabled by `InsertMayFail`.
- Slots never move, which a CHashTable that splits its pages need not
  keep. Spec 4.1 calls the walk unsafe under concurrent changes, so no
  property is stated of what a walk returns while the table changes.
- `AbsMap` maps a table to what `hashfindLEN` returns for each key.

**AttrCache.**

- The variables are the C globals. `ent[k]` is the CENT_HDR of key `k`: its
  payload, and `nSize = HDR + Len(payload)`. `prev`/`next` are the list
  pointers.
- `store` is `hfAttributeFile`. `TempFiles` are the spool files.
- `replay` is the loop index of `cache_pass2`. `cache_pass2` is one
  synchronous call, so its loop is split into `Pass2Begin`, `Pass2Record`
  (one record, fed to the model of `cache_put`) and `Pass2EndFile`. Every
  other action is guarded by `replay = Idle`.
- `cache_get`, `cache_put` and `cache_del` are each one action. That action
  includes the trailing `TrimCache`.
- Text is a sequence of bytes (NUL = 0). `Stored` is the clamp and the
  forced NUL of `cache_put`.
- Allocation failure (`MEMALLOC` returning null) is enabled by
  `AllocMayFail`. A failing file `Insert` is enabled by `StoreMayFail`.
- `mudstate.bStandAlone` is `StandAlone`. `Converter` marks the standalone
  converter, the only caller of `cache_redirect`. The converter does not
  fork, so it never sets `write_protect`.

**PlayerCache.**

- The handlers and the file record `S` (attributes, entries, head, index)
  compose `pcache_find`, `pcache_save` and `pcache_reload1` as in the code.
- The command queue (`cque.cpp`, not in the repository) is modelled from
  the spec as `QueueCommand`/`RunCommand`, which call `a_Queue(p, +1/-1)`.
  `cmds` counts the commands each object has outstanding.
- `do_toad` changes the type first and then calls `s_Pennies` (wiz.cpp
  437-440). `do_poor` walks the objects in dbref order.
- `PlayerAging` conjoins each WizMoney step with the update of `age`.
  `Finds(o)` is the set of objects a call on `o` runs `pcache_find` on: `o`
  when it owns others (`a_Queue`, `QueueMax`, `Pennies`, `s_Pennies`,
  `pcache_reload`). `age` is reset by a find, not by `PF_REF`, so a trim that
  mishandles `PF_REF` is visible.

**BulkLoad.**

- `BulkNext` is AttrCache's next-state relation with `direct` updated:
  - an accepted put sets `direct[k]` to the stored text;
  - a del clears it;
  - `cache_cleanup`, the abort path, restarts `direct` from the file;
  - the replay leaves it alone, because the put was counted when it was
    spooled.
- Three liberties of the caller are constants. `DelInBulk` (a `cache_del`
  while the spool is open) and `PutAfterCleanup` are AttrCache's, guards
  of `cache_del` and of `PutToSpool`'s closed-file arm, so the converter
  run of AttrCache keeps the same protocol. `RedirectTwice`
  (`RedirectAgainH`, a second `cache_redirect` while the spool is open)
  is BulkLoad's.

**AttrTemp.**

- `PtrOf(k)` is where `cache_get(k)` leaves its result: the cache entry on a
  hit, `TempRecord.attrText` after a file read, nullptr on a miss.
- `PutReply(k)` is `cache_put(k, p, len)` right after that get. When `p` is
  `TempRecord.attrText`, the value stored is what `Copy` of each record of
  `k`'s chain, in the file's order, left in those bytes (`ValueRead`).

**WizGlobal.**

- `do_global` is one action with the four arms of the code: unknown flag,
  enable, disable, and any other key.
- The command table that supplies the key is outside the repository.
  `GlobalKeys` gives the two keys and one other.
- `Quiet(executor)` is the set `Quiets`. The scheduler is the value
  `minPriority` it was last given.
- `GlobalInit` starts with any set of flags and a floor consistent with
  them. The configuration loader that sets them is not in the repository.

**NameTab.**

- `minmatch`, `check_access`, `God` and `cf_modify_bits` are not in the
  repository. They are the constants `MinMatch`, `CheckAccess`, `Gods` and
  `Perms`.
- A text is a sequence of one-character strings, so a listing is the lbuf
  the code builds. `notify` is the variable `out`.
- `InterpFrom` keeps the code's `if (!bFirst) { ';'; bFirst = false; }`
  exactly.

**Rng.**

- A UINT32 is a W-bit word and an INT32 a W-bit two's complement value
  (`W = 8`). Every sum, product and shift is taken modulo 2^W. For sums,
  products and left shifts this is what 32-bit arithmetic leaves in the
  low W bits. It is not so for right shifts, which in 32 bits bring higher
  bits down. The model is therefore an MT19937 of width W, computed by the
  code's formulas, and `GenrandIsMT19937` compares it with a reference
  recurrence of the same width. TLC's integers are signed 32-bit, so the
  full width cannot be held.
- `N = 5` and `M = 3` stand for 624 and 397. With these, all three loops of
  `next_state` run, and a word's twist partner lies on either side of the
  wrap.
- At this width the shifts by 11, 15, 18 and 30 give 0. Tempering and
  seeding are therefore weaker mixes than in the code, but they are
  computed by the same formulas.
- The bitwise operators of the community module Bitwise are tabulated once
  over the words. `Bind` evaluates a loop's state once per iteration.
- What `/dev/urandom` and the clock give are the constants `SysWords` and
  `Seeds`. A read shorter than four words falls back to the clock, as the
  code's `nRandomSystemBytes >= sizeof(UINT32)` test does.
- The history variables `seedmt` and `ys` record the seeded state and every
  value `genrand` returned.
- `lHigh - lLow` overflows `int` for ranges of more than INT32_MAX + 1
  values, which is undefined behaviour. The constant `Elided` gives the two
  outcomes a build can produce:
  - the wrapped difference fails the `INT32_MAX_VALUE` test, and the call
    returns -1;
  - the compiler drops the test as dead, and on the full range `x++` wraps
    to 0, so `n % x` faults.

## 4. Runs

| Run | cfg | Expect | Shows |
|---|---|---|---|
| keyed_table | `MCKeyedTable.cfg` | pass | `RefinesKeyedMap` under every interleaving of lookups, adds, deletes, replacements, flushes and walks (8,280 states) |
| attrcache_struct | `MCAttrCacheStruct.cfg` | pass | `TypeOK`, `ListWellFormed`, `IndexExact`, `FootprintAccounted` and `LRUDiscipline` under every interleaving of get, put, del, close/open and write protection, with inserts that may fail (28,296 states) |
| attrcache_coherence | `MCAttrCache.cfg` | pass | `CacheCoherent` and `RefinesAttrStore`, with allocations that may fail (16,323 states) |
| wizmoney_struct | `MCWizMoney.cfg` | pass | `TypeOK`, `ChainIndexExact` and `QueueAccounted` with do_toad and do_poor (2.6 M states, about 2 minutes) |
| toad_lost_update | `MCWizMoneyToad.cfg` | violation | `RefinesPurse`: after @toad, a stale dirty entry is saved over the victim's money |
| attrcache_convert | `MCAttrCacheConvert.cfg` | pass | `RefinesAttrStore` in the converter, for a caller keeping its protocol: redirect, spooled puts, pass2 or cleanup, with close/open interleaved (14,400 states) |
| bulk_equivalence | `MCBulkLoad.cfg` | pass | `BulkReplayEquivalent` when the converter neither deletes while spooling, puts after cleanup, nor redirects twice (7,560 states) |
| pcache_aging | `MCPlayerAging.cfg` | pass | `AgingBounded` and `RefinesPurse` under finds, trims, syncs, reloads, queued commands, purse calls and do_poor (195,165 states, about 20 s) |
| nametab_listing | `MCNameTab.cfg` | pass | `DequeueAgrees` under @enable/@disable with every abbreviation, beside lookups and listings for every player and permission assignment `cf_ntab_access` can make (7,956 states) |
| attrcache_alias | `MCAttrTemp.cfg` | violation | `CopyFaithful`: `cache_put(k2, cache_get(k1))` stores bytes of `k2`'s old record |
| nametab_interp | `MCNameTabInterp.cfg` | violation | `InterpSeparated`: `interp_nametab` never emits `;` between items |
| rng_mt19937 | `MCRng.cfg` | pass | `GenrandIsMT19937` and `RandomUniform` over both seed sources, eager and lazy seeding, 12 draws (two regenerations) and ranges up to INT32_MAX + 1 values (177 states) |

Nine more configurations each show a disagreement. They are not among the
listed runs, so as to keep the project to twelve runs. Each is checked with
`tlc -config <cfg> <module>`, and each reports its invariant violated:

| cfg (module) | Invariant | Shows |
|---|---|---|
| `MCAttrCacheInsertFail.cfg` (MCAttrCache) | `CacheCoherent` | a put whose insert fails still caches the text |
| `MCBulkLoadDel.cfg` (MCBulkLoad) | `BulkReplayEquivalent` | a del while a put of the key is spooled is undone by pass2 |
| `MCBulkLoadRedirect.cfg` (MCBulkLoad) | `BulkReplayEquivalent` | a second redirect truncates a spooled put |
| `MCBulkLoadCleanup.cfg` (MCBulkLoad) | `BulkReplayEquivalent` | a put after `cache_cleanup` is accepted and lost |
| `MCAttrCacheRoundTrip.cfg` (MCAttrCache) | `RefinesAttrStore` | a text without a final NUL reads back with its last byte replaced |
| `MCPlayerAgingToad.cfg` (MCPlayerAging) | `AgingBounded` | after @toad the victim's entry keeps its queue count and outlives every trim |
| `MCKeyedTableInsertFail.cfg` (MCKeyedTable) | `RefinesKeyedMap` | `hashaddLEN` returns true when Insert failed |
| `MCNameTabSearch.cfg` (MCNameTab) | `SearchFindAgree` | the two lookups disagree on an abbreviation |
| `MCRngWide.cfg` (MCRng) | `RandomUniform` | a range of INT32_MAX + 2 values returns -1 without drawing |

### Findings

1. **Store-insert failure** (`attrcache.cpp:399`). The cache is updated even
   when the file insert failed. The cache then serves a text the file lacks,
   and once the entry is evicted, `get` reports the attribute absent again.
   Spec section 9 leaves this open.
2. **Forced NUL** (`attrcache.cpp:370`, `:395`). The last byte is forced to
   NUL on every put, not only when the text was clamped as spec 4.2 says.
   The round trip of spec section 8 therefore holds only for texts ending in
   NUL (`MCAttrCacheRoundTrip.cfg`).
3. **Toad lost update** (`wiz.cpp:440` with `player_c.cpp:138-147`). The
   trace, in four steps:
   1. Player 0 has no A_MONEY.
   2. A queued command loads its entry, which defaults the money to 0 and
      marks it dirty.
   3. @toad writes A_MONEY = 1 directly.
   4. `pcache_sync` writes the stale 0 over it.

   The same happens after any `s_Pennies` that has not been flushed yet.
4. **Del during redirect** (`attrcache.cpp:450`). The trace:
   1. After `cache_redirect`, `put(k, P)` is spooled.
   2. `cache_del(k)` purges the file's records of `k` at once.
   3. `cache_pass2` replays `put(k, P)`, so the deleted attribute comes back.

   Spec 4.3 says replay leaves the file as if redirect had never been used.
   The converter must not delete while redirecting, or deletes must be
   spooled too.
5. **Toad pins an entry** (`player_c.cpp:247`, with `wiz.cpp:437`). The
   trace:
   1. A command charged to player 0 is queued.
   2. Two trims pass.
   3. @toad makes 0 a thing.
   4. The command runs. `a_Queue(0, -1)` does nothing, since 0 no longer
      owns others, so the entry keeps `queue = 1`.

   `pcache_trim` never frees such an entry.
6. **Put after cleanup** (`attrcache.cpp:123-132`, `:366`). `cache_cleanup`
   closes the spool files and leaves `cache_redirected` set. A later
   `cache_put` then writes to a closed `FILE*`, which is undefined, and
   returns true. In the model the put is lost (`MCBulkLoadCleanup.cfg`).
7. **No separator in `interp_nametab`** (`htab.cpp:398-401`).
   `bFirst = false` is inside `if (!bFirst)`, so it never runs, and the
   items are never separated by `;` (`MCNameTabInterp.cfg`, run
   nametab_interp).
8. **Lookups disagree** (`htab.cpp:311-321`, `:336-344`). For a mortal
   player, `quiet` needs wizard permission and `quota` does not.
   - `search_nametab` on `qu` stops at `quiet` and returns -2.
   - `find_nametab_ent` on `qu` returns `quota`.

   Both functions are commented "Search a name table for a match"
   (`MCNameTabSearch.cfg`).
9. **Wide ranges in `RandomINT32`** (`svdrand.cpp:112-115`). A range of more
   than INT32_MAX + 1 values overflows the signed subtraction. The call
   returns -1 without drawing, although -1 lies inside the range and the
   comment promises a value of the interval. With the test elided, the
   full range divides by zero (`MCRngWide.cfg`).
10. **TempRecord aliasing** (`attrcache.cpp:307`, `:381-398`). The trace:
    1. `put(<<1,10>>, "\0")` and `put(<<1,11>>, "a\0")`.
    2. `get(<<1,11>>)` reads the file and returns `TempRecord.attrText`,
       holding `"a\0"`.
    3. `cache_put(<<1,10>>, that pointer, 2)` walks `<<1,10>>`'s chain with
       `Copy(..., &TempRecord)`. Its own old record overwrites the text
       with `"\0"` before the `memcpy`. The file then holds `"\0\0"` for `<<1,10>>`.

    The spec names no such caller, and none in the repository does this;
    it is a hazard of the interface (`MCAttrTemp.cfg`, run attrcache_alias).
11. **Double redirect** (`attrcache.cpp:78`). `cache_redirect` opens the
    spool files with `wb+` whether or not they are open. A put spooled
    before a second redirect is truncated away, and pass2 never replays it
    (`MCBulkLoadRedirect.cfg`).
12. **`hashaddLEN` cannot fail** (`htab.cpp:136`). It drops the result of
    `CHashTable::Insert` and returns true, although its comment says "false
    for failure". When Insert fails, the caller believes the key is filed
    and the next lookup misses (`MCKeyedTableInsertFail.cfg`, against
    `RefinesKeyedMap`).
### Mutants

Every property of a passing run is broken by a mutant of the code it is
about. Each mutant operator is defined next to its original:

| Mutant | Breaks |
|---|---|
| `hashreplLEN` inserting a new record instead of updating | RefinesKeyedMap |
| `FreeEntry` subtracting the footprint twice | TypeOK |
| `REMOVE_ENTRY` not clearing the new head's back pointer | ListWellFormed |
| `PutToFile` not dropping the old entry | IndexExact |
| `FreeEntry` not subtracting | FootprintAccounted |
| `TrimCache` evicting from the head | LRUDiscipline |
| `SameKey` comparing the attribute number only | CacheCoherent |
| `cache_del` keeping the entry | RefinesAttrStore |
| `Pass2Record` reading a file backwards | RefinesAttrStore in the converter |
| `pcache_reload` without the flush | RefinesPurse (in pcache_aging) |
| `pcache_reload1` without the A_QUEUEMAX check | TypeOK |
| `pcache_find` not linking a new entry | ChainIndexExact |
| `Sweep` ignoring queued commands | QueueAccounted |
| `Pass2Record` reading a file backwards | BulkReplayEquivalent |
| `Sweep` not clearing `PF_REF` on survivors | AgingBounded |
| `do_global` leaving the floor on @disable | DequeueAgrees |
| `NextState` twisting the last word with the old `mt[0]` | GenrandIsMT19937 |
| `NLimit` one too high (`while (n > nLimit)`) | RandomUniform |

## 5. Bounds and why they are enough

**KeyedTable.**

- Three keys, two data pointers and three slots. Every key can be filed at
  once, and a replacement can make two keys share a pointer (so
  `hashreplall` changes more than one record).
- Three slots let an add land before or after the walk's position, and a
  walk meet zero to three records.

**AttrCache.**

- Keys: three, `<<1,10>>`, `<<2,10>>` and `<<1,11>>`. The first two share a
  hash and an attribute number, so the full-key compare matters. Two of the
  three share a spool file.
- Texts: `<<0>>` (a 1-byte payload), `<<97,0>>`, and `<<97,98,0>>`, which
  `LBUF_SIZE = 2` clamps.
- Footprints: with `HDR = 1`, they range from 1 (a negative entry) to 3, and
  `max_cache_size = 5`. Each insertion can therefore evict zero, one or two
  entries, and the bound allows every key at once only when the entries are
  small.
- Spool: `MaxSpool = 2` records per file, enough for two puts of one key
  (order matters) or of two keys. The converter run uses the two colliding
  keys and two texts to stay small.
- Hash values: TLC integers are signed 32-bit, so a hash is at most
  2^31 - 1. Only spool files 0-3 can be chosen, and files 4-7 are always
  empty in the model.

**PlayerCache.**

- Objects: two (`DbTop = 2`), both players at start, one of them a wizard.
- Amounts: {1, 2}, plus 0 from a missing attribute.
- `MaxQueue = 1`.
- Two entries are enough for the chain's head/non-head unlink cases in
  `Sweep`. Three objects take the state space past 2.5 M within a minute.
- `age` saturates at 2, the value the property is about.

**NameTab.**

- Three entries: `quiet` (minlen 1), `quota` (minlen 2) and `wiz`. `qu`
  abbreviates both of the first two, so the order of the table matters.
- Three players: mortal, wizard and god.
- Three perm values, and flag words that set none, some or all flags.
- The typed names are every prefix of interest and one unknown word.
- `enable_names` keeps `cleaning` (minlen 2) and `dequeueing` (minlen 1),
  typed as `c` (too short), `cl` and `d`, with the keys enable, disable and
  one other. This gives every arm of `do_global` and both values of the
  floor. The composed state space is the name tables' times the four flag
  sets; the full nine-entry table adds nothing to the lookup and multiplies
  it by 2^7.

**AttrTemp.**

- The AttrCache bounds, with `LBUF_SIZE = 2`. The text returned for one
  key (`<<1,11>>`) is overwritten by the old record of the key put
  (`<<1,10>>`), the first record its chain walk copies. `<<1,10>>` and
  `<<2,10>>` share a hash, so a walk may also meet another key's record
  first.

**Rng.**

- `W = 8`, `N = 5`, `M = 3`.
- Two clock seeds, one at most 1000 (moved up) and one above.
- Three reads of `/dev/urandom`: failed, too short, and four words.
- `MaxDraws = 12` covers more than two regenerations of `mt`.
- The ranges are:
  - `lHigh < lLow` and `lHigh = lLow`;
  - two small ranges;
  - both ranges of exactly INT32_MAX + 1 values (at the limit of the test);
  - in `MCRngWide`, one value more.

## 6. Fairness

No fairness is assumed, and no liveness property is checked. Every
operation is invoked at the caller's discretion. `cache_pass2` is one
synchronous call with bounded loops, so that it finishes says nothing
about the code. In particular,
`pcache_trim` runs from the timer queue only when the server is idle, so
`AgingBounded` is a safety property about the second trim, not a promise
that the trim comes.

## 7. Not modelled, and why

- `hashreset`, which only clears CHashTable's statistics.
- What a walk with `hash_firstentry`/`hash_nextentry` returns while the
  table changes. Spec 4.1 calls the walk unsafe under concurrent changes,
  and how CHashTable moves records is outside the repository. One case
  lies in `htab.cpp` itself: `hashreplall` walks with the same table-held
  position and leaves it at the end, so a caller's walk around it ends
  early. No caller does this.
- Whether every listed name can be typed back. `check_access` is outside
  the repository, and in `enable_names`, the only table in it, no name
  abbreviates an earlier entry. A check would only repeat the listing's
  permission filter.
- The shared static `htab_rec` buffer behind `hash_firstkey`'s key
  pointer: the model returns the key itself, not a pointer into a buffer the
  next call overwrites.
- The buffer limit of the name-table listings (`safe_str` truncation at
  LBUF_SIZE): the modelled tables never reach it.
- The failure of `cf_modify_bits` (an unknown permission name), which
  leaves `perm` unchanged and returns -1.
- Pointer lifetimes of `cache_get` results, beyond the one next call of
  `cache_put` that `AttrTemp` models.
- `cache_sync` and `cache_tick`: delegation to the file's durability.
- The CHashFile's paging.
- The standalone mode of the PlayerCache.
- The wizard commands other than toad, poor and global. `do_motd` only
  stores and prints four strings, and composing its messages with the name
  tables multiplied the state space past what a run can check.
  `do_teleport`, `do_force`, `do_newpassword`, `do_boot` and `do_cut` act
  through matching, movement, the command queue and the descriptor list,
  none of which is in the repository.
- The matching, logging and notification inside toad/poor.
- The full 32-bit width of `svdrand.cpp`: it is modelled at 8 bits (see
  Rng above). The CRC of the clock and the pid is an input.
- `ansi.h`.

## 8. Plan for later work

1. **PlayerCache liveness.** Under a fair timer, an entry with nothing
   queued is eventually evicted. This needs the timer's fairness made
   explicit.
