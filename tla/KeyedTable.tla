----------------------------- MODULE KeyedTable -----------------------------
(***************************************************************************)
(* One CHashTable used through every wrapper of htab.cpp, with the        *)
(* table's own walk: hash_firstentry/hash_nextentry and                   *)
(* hash_firstkey/hash_nextkey go through FindFirst/FindNext, which keep   *)
(* their position inside the table (they take no position argument),     *)
(* while the chain walks of hashfindLEN, hashdeleteLEN and hashreplLEN go *)
(* through FindFirstKey/FindNextKey, which are handed the position.       *)
(* hashreplall walks with FindFirst/FindNext itself.                      *)
(*                                                                         *)
(* CHashTable is not in this repository.  Its records lie in Slots; the   *)
(* order of the slots is the order of its directory, which FindFirst and  *)
(* FindNext follow and which also orders a collision chain; Insert puts   *)
(* a record in any free slot.  The full-key compare of the wrappers is    *)
(* key equality, so the hash only selects which records a chain walk      *)
(* looks at and does not appear.  Every caller in the repository looks a  *)
(* key up before it adds it (attrcache.cpp, player_c.cpp), which is the  *)
(* contract hashaddLEN states; the keys are fixed-size, so the nKey <= 0  *)
(* returns are never taken.  The spec leaves a walk under concurrent     *)
(* changes unspecified (section 4.1), so nothing is claimed of what a     *)
(* walk returns while the table changes: slots never move here, which a   *)
(* CHashTable that splits its pages need not keep.                        *)
(***************************************************************************)
EXTENDS Naturals, FiniteSetsExt

CONSTANTS
    Keys, Data, Nil,
    NSlots,             \* directory slots of the table
    InsertMayFail       \* CHashTable::Insert may fail (its result is dropped)

ASSUME NSlots \in Nat /\ InsertMayFail \in BOOLEAN

VARIABLES
    slot,       \* slot -> [key, data] or Nil
    cursor,     \* FindFirst/FindNext's position: 0 before, End after the end
    result,     \* what the last lookup or walk step returned: [data, key]
    ok          \* the bool the last hashaddLEN or hashreplLEN returned

vars == <<slot, cursor, result, ok>>

Slots == 1..NSlots
End == NSlots + 1
NoResult == [data |-> Nil, key |-> Nil]

Filled(t) == {s \in Slots : t[s] # Nil}

\* FindFirst/FindNext: the first record after position c, or End.
NextFilled(c) ==
    IF {s \in Filled(slot) : s > c} = {} THEN End ELSE Min({s \in Filled(slot) : s > c})

\* FindFirstKey/FindNextKey with the full-key compare: the records of k.
Chain(k) == {s \in Filled(slot) : slot[s].key = k}

\* hashfindLEN: the first record of the chain whose key matches.
hashfindLEN(k) ==
    /\ result' = [data |-> IF Chain(k) = {} THEN Nil ELSE slot[Min(Chain(k))].data,
                  key |-> Nil]
    /\ UNCHANGED <<slot, cursor, ok>>

\* hashaddLEN: Insert, whose result is not looked at; returns true.
hashaddLEN(k, d) ==
    /\ Chain(k) = {}
    /\ \/ \E s \in Slots \ Filled(slot) : slot' = [slot EXCEPT ![s] = [key |-> k, data |-> d]]
       \/ InsertMayFail /\ UNCHANGED slot
    /\ ok' = TRUE
    /\ UNCHANGED <<cursor, result>>

\* hashdeleteLEN: every record of the chain whose key matches is removed.
hashdeleteLEN(k) ==
    /\ slot' = [s \in Slots |-> IF s \in Chain(k) THEN Nil ELSE slot[s]]
    /\ UNCHANGED <<cursor, result, ok>>

\* Mutant: the replacement is inserted as a new record instead of
\* updating the one found.
hashreplLENInsert(k, d) ==
    /\ slot' = IF Chain(k) = {} \/ Filled(slot) = Slots THEN slot
               ELSE [slot EXCEPT ![Max(Slots \ Filled(slot))] = [key |-> k, data |-> d]]
    /\ ok' = (Chain(k) # {})
    /\ UNCHANGED <<cursor, result>>

\* hashreplLEN: the first matching record gets the new data.
hashreplLEN(k, d) ==
    /\ slot' = IF Chain(k) = {} THEN slot
               ELSE [slot EXCEPT ![Min(Chain(k))].data = d]
    /\ ok' = (Chain(k) # {})
    /\ UNCHANGED <<cursor, result>>

\* hashreplall: a FindFirst/FindNext walk that re-points old at new and
\* leaves the table's position at the end.
hashreplall(old, new) ==
    /\ slot' = [s \in Slots |-> IF slot[s] # Nil /\ slot[s].data = old
                                THEN [slot[s] EXCEPT !.data = new] ELSE slot[s]]
    /\ cursor' = End
    /\ UNCHANGED <<result, ok>>

\* hashflush: Reset empties the table.
hashflush ==
    /\ slot' = [s \in Slots |-> Nil]
    /\ cursor' = End
    /\ UNCHANGED <<result, ok>>

\* What a walk step returns from slot c: the data, and the key when the
\* hash_*key form is used; nullptr at the end.
StepResult(c, withKey) ==
    IF c = End THEN NoResult
    ELSE [data |-> slot[c].data, key |-> IF withKey THEN slot[c].key ELSE Nil]

\* hash_firstentry / hash_firstkey: FindFirst, a walk begins.
WalkFirst(withKey) ==
    LET c == NextFilled(0)
    IN  /\ cursor' = c
        /\ result' = StepResult(c, withKey)
        /\ UNCHANGED <<slot, ok>>

\* hash_nextentry / hash_nextkey: FindNext from the table's position.
WalkNext(withKey) ==
    LET c == NextFilled(cursor)
    IN  /\ cursor' = c
        /\ result' = StepResult(c, withKey)
        /\ UNCHANGED <<slot, ok>>

hash_firstentry == WalkFirst(FALSE)
hash_firstkey == WalkFirst(TRUE)
hash_nextentry == WalkNext(FALSE)
hash_nextkey == WalkNext(TRUE)

Init ==
    /\ slot = [s \in Slots |-> Nil]
    /\ cursor = End
    /\ result = NoResult
    /\ ok = FALSE

Next ==
    \/ \E k \in Keys : hashfindLEN(k) \/ hashdeleteLEN(k)
    \/ \E k \in Keys, d \in Data : hashaddLEN(k, d) \/ hashreplLEN(k, d)
    \/ \E old, new \in Data : hashreplall(old, new)
    \/ hashflush
    \/ hash_firstentry \/ hash_firstkey \/ hash_nextentry \/ hash_nextkey

Spec == Init /\ [][Next]_vars
-----------------------------------------------------------------------------
(* Properties.                                                            *)

\* The key map the table stands for: what hashfindLEN would return.
AbsMap == [k \in Keys |-> IF Chain(k) = {} THEN Nil ELSE slot[Min(Chain(k))].data]

KM == INSTANCE KeyedMap WITH map <- AbsMap, found <- result.data

\* The wrappers, used as their callers use them, implement a partial
\* function from keys to data pointers: hashaddLEN's true means the key is
\* filed, a lookup returns the last pointer filed or replaced under the
\* key, hashreplLEN reports whether the key was there.
RefinesKeyedMap == KM!Spec

=============================================================================
