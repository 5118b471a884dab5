----------------------------- MODULE KeyedIndex -----------------------------
(***************************************************************************)
(* The keyed-index wrappers of htab.cpp over CHashTable.                   *)
(*                                                                         *)
(* CHashTable only knows hashes: it hands back every record filed under a  *)
(* hash and the wrappers compare the full key (length and bytes) of each   *)
(* candidate.  A table is therefore modelled as a bag of records           *)
(* [key |-> k, data |-> d]: hashaddLEN never looks for an existing record, *)
(* so the same key can be filed twice when a caller forgets to check, and  *)
(* the bag keeps that visible.  The order of a collision chain is not      *)
(* specified, so a lookup returns the SET of data pointers it may return;  *)
(* the empty set is nullptr.  Key equality stands for the length check and *)
(* memcmp of the wrappers.                                                 *)
(***************************************************************************)
LOCAL INSTANCE BagsExt
LOCAL INSTANCE Functions

\* The empty table (CHashTable after Reset, or freshly constructed).
EmptyIndex == [r \in {} |-> 0]

\* The candidates of the chain walk whose full key equals k.
Matches(t, k) == {r \in DOMAIN t : r.key = k}

\* hashfindLEN: the data pointers the walk may return first; {} = nullptr.
hashfindLEN(t, k) == {r.data : r \in Matches(t, k)}

\* hashaddLEN: files a new record without checking for an existing one.
hashaddLEN(t, k, d) == BagAdd(t, [key |-> k, data |-> d])

\* hashdeleteLEN: the walk removes every record whose key matches.
hashdeleteLEN(t, k) == RestrictDomain(t, LAMBDA r : r.key # k)

\* hashreplLEN: the first matching record (any of them) gets the new data;
\* the set of tables it may produce, {t} when no record matches.
hashreplLEN(t, k, d) ==
    IF Matches(t, k) = {} THEN {t}
    ELSE {BagAdd(BagRemove(t, r), [r EXCEPT !.data = d]) : r \in Matches(t, k)}

\* hashreplall: every record pointing at old is re-pointed at new.
hashreplall(t, old, new) ==
    LET repoint(r) == IF r.data = old THEN [r EXCEPT !.data = new] ELSE r
    IN  [x \in {repoint(r) : r \in DOMAIN t} |->
            SumFunctionOnSet(t, {r \in DOMAIN t : repoint(r) = x})]

\* The keys filed in t, and how many records each has.
IndexedKeys(t) == {r.key : r \in DOMAIN t}
Copies(t, k) == SumFunctionOnSet(t, Matches(t, k))
=============================================================================
