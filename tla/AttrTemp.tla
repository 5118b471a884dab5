------------------------------ MODULE AttrTemp ------------------------------
(***************************************************************************)
(* The static scratch record TempRecord of attrcache.cpp, shared by        *)
(* cache_get and cache_put.  cache_get returns a pointer into it when it   *)
(* reads the attribute file (or into a cache entry on a hit), and          *)
(* cache_put first walks the new key's hash chain with                     *)
(* hfAttributeFile.Copy(iDir, &nRecord, &TempRecord) and only then copies  *)
(* its value into TempRecord.attrText.  A caller that passes the text it   *)
(* has just got to cache_put -- cache_put(k2, cache_get(k1)) -- therefore  *)
(* hands over a buffer that the chain walk rewrites before it is read.     *)
(*                                                                         *)
(* AttrCache's handlers are kept as they are; ptr records where the text   *)
(* of the last cache_get points, and PutReply is cache_put given that      *)
(* pointer right after the get.  The order in which hfAttributeFile walks  *)
(* a chain is the file's own and is a nondeterministic choice.  The copy   *)
(* memcpy(TempRecord.attrText, value, len) with value = TempRecord.attrText *)
(* leaves the bytes as they are.                                           *)
(***************************************************************************)
EXTENDS AttrCache

VARIABLES
    ptr,        \* where the last cache_get's text lies: TempRecord, entry, nullptr
    copied      \* [key, val]: the put just made from the text got, or NoCopy

tempVars == <<vars, ptr, copied>>

NoCopy == [key |-> CHOOSE k \in Keys : TRUE, val |-> Absent]

\* Where cache_get(k) returns its text: a hit returns the entry's payload,
\* a read of the file returns TempRecord.attrText, a miss nullptr.
PtrOf(k) ==
    IF cache_initted /\ ~StandAlone /\ hashfindLEN(htab, k) # {}
    THEN IF reply'.val = Absent THEN "nullptr" ELSE "entry"
    ELSE IF reply'.val = Absent THEN "nullptr" ELSE "TempRecord"

\* hfAttributeFile.Copy of record r into TempRecord: its text overwrites
\* the first Len(r.val) bytes of attrText, the rest is left.
CopyRecord(t, r) ==
    [i \in 1..Len(t) |-> IF i <= Len(r.val) THEN r.val[i] ELSE t[i]]

\* The hash chain of k in the file, every key of that hash.
Chain(k) == {r \in store : Hash[r.key] = Hash[k]}

\* The len bytes cache_put reads from value: through TempRecord they are
\* what the walk of k's chain, in the file's order, left there.
ValueRead(k, t) ==
    IF ptr = "TempRecord" /\ ~cache_redirected
    THEN {FoldLeft(CopyRecord, t, o) : o \in SetToSeqs(Chain(k))}
    ELSE {t}

\* cache_put(k, p, len) where p and len are what cache_get just returned.
PutReply(k) ==
    /\ lastOp.name = "get" /\ ptr # "nullptr"
    /\ \E v \in ValueRead(k, reply.val) : cache_put(k, v)
    /\ copied' = [key |-> k, val |-> reply.val]
    /\ UNCHANGED ptr

TempInit == Init /\ ptr = "nullptr" /\ copied = NoCopy

TempNext ==
    \/ \E k \in Keys : cache_get(k) /\ ptr' = PtrOf(k) /\ copied' = NoCopy
    \/ \E k \in Keys : PutReply(k)
    \/ /\ \/ cache_init \/ cache_close
          \/ \E k \in Keys : cache_del(k)
          \/ \E k \in Keys, v \in Texts : cache_put(k, v)
          \/ cache_redirect \/ Pass2Begin \/ Pass2Step \/ cache_cleanup
          \/ \E b \in BOOLEAN : SetWriteProtect(b)
       /\ copied' = NoCopy
       /\ UNCHANGED ptr

TempSpec == TempInit /\ [][TempNext]_tempVars

\* A text got from cache_get and given straight back to cache_put is what
\* the file then holds for the key put (spec 4.2: put stores the value it
\* is given; 8, round trip), whichever records share the key's hash.
CopyFaithful ==
    copied # NoCopy /\ ~cache_redirected =>
        \A r \in Found(copied.key) : r.val = Stored(copied.val)
=============================================================================
