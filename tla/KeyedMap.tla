------------------------------ MODULE KeyedMap ------------------------------
(***************************************************************************)
(* What the htab.cpp wrappers promise a caller that keeps their contract  *)
(* ("this function requires that the Key does not already exist"): a      *)
(* partial function from keys to data pointers.  hashaddLEN returns       *)
(* "false for failure. true for success"; hashreplLEN returns whether the *)
(* key was there.  A lookup returns the pointer filed under the key or    *)
(* nullptr; a walk step returns a pointer filed in the table, or nullptr  *)
(* at its end.                                                            *)
(***************************************************************************)
CONSTANTS Keys, Data, Nil

VARIABLES
    map,        \* the data pointer filed under each key, or Nil
    found,      \* what the last lookup or walk step returned
    ok          \* what the last add or replace returned

absVars == <<map, found, ok>>

Init == map = [k \in Keys |-> Nil] /\ found = Nil /\ ok = FALSE

Add(k, d) ==
    /\ map[k] = Nil
    /\ \/ map' = [map EXCEPT ![k] = d] /\ ok' = TRUE
       \/ UNCHANGED map /\ ok' = FALSE
    /\ UNCHANGED found

Delete(k) == map' = [map EXCEPT ![k] = Nil] /\ UNCHANGED <<found, ok>>

Replace(k, d) ==
    /\ map' = IF map[k] # Nil THEN [map EXCEPT ![k] = d] ELSE map
    /\ ok' = (map[k] # Nil)
    /\ UNCHANGED found

ReplaceAll(old, new) ==
    /\ map' = [k \in Keys |-> IF map[k] = old THEN new ELSE map[k]]
    /\ UNCHANGED <<found, ok>>

Flush == map' = [k \in Keys |-> Nil] /\ UNCHANGED <<found, ok>>

Find(k) == found' = map[k] /\ UNCHANGED <<map, ok>>

WalkStep == found' \in {map[k] : k \in Keys} \cup {Nil} /\ UNCHANGED <<map, ok>>

Next ==
    \/ \E k \in Keys, d \in Data : Add(k, d) \/ Replace(k, d)
    \/ \E k \in Keys : Delete(k) \/ Find(k)
    \/ \E old, new \in Data : ReplaceAll(old, new)
    \/ Flush \/ WalkStep

Spec == Init /\ [][Next]_absVars
=============================================================================
