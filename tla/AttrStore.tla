------------------------------ MODULE AttrStore ------------------------------
(***************************************************************************)
(* What the attribute cache promises its callers (spec sections 4.2, 4.3): *)
(* a keyed store of attribute texts in which                               *)
(*   - a get returns the text last committed for the key, or nothing;      *)
(*     a get on a closed store returns nothing;                            *)
(*   - a put outside bulk mode commits the (clamped) text at once;         *)
(*   - a put in bulk mode is deferred, and deferred puts of one key are    *)
(*     committed later in the order they were issued;                      *)
(*   - a del removes the key, and with it the key's deferred puts: the     *)
(*     store ends as if bulk mode had never been used (4.3);              *)
(*   - a put or del may be rejected (closed cache, write protection), and  *)
(*     then changes nothing.                                               *)
(* No cache, LRU list, hash chain or spool file appears here.              *)
(***************************************************************************)
EXTENDS Sequences

CONSTANTS
    Keys,       \* attribute keys (object, attrnum)
    Texts,      \* texts a put may be given
    Committed(_) \* Committed(v): what the store keeps of a put of v

VARIABLES
    dict,       \* key -> committed text, <<>> when absent
    pending,    \* key -> texts put in bulk mode and not yet committed
    bulk,       \* bulk (redirect) mode is on
    open,       \* the store is open
    reply       \* the key and text returned by the last get

vars == <<dict, pending, bulk, open, reply>>

Absent == <<>>

Init ==
    /\ dict = [k \in Keys |-> Absent]
    /\ pending = [k \in Keys |-> <<>>]
    /\ bulk = FALSE
    /\ open = FALSE
    /\ reply = [key |-> CHOOSE k \in Keys : TRUE, val |-> Absent]

Get(k) ==
    /\ reply' = [key |-> k, val |-> IF open THEN dict[k] ELSE Absent]
    /\ UNCHANGED <<dict, pending, bulk, open>>

Open ==
    /\ open' = TRUE
    /\ UNCHANGED <<dict, pending, bulk, reply>>

Close ==
    /\ open' = FALSE
    /\ UNCHANGED <<dict, pending, bulk, reply>>

Put(k, v) ==
    /\ open
    /\ IF bulk
         THEN /\ pending' = [pending EXCEPT ![k] = Append(@, Committed(v))]
              /\ UNCHANGED dict
         ELSE /\ dict' = [dict EXCEPT ![k] = Committed(v)]
              /\ UNCHANGED pending
    /\ UNCHANGED <<bulk, open, reply>>

Del(k) ==
    /\ open
    /\ dict' = [dict EXCEPT ![k] = Absent]
    /\ pending' = [pending EXCEPT ![k] = <<>>]
    /\ UNCHANGED <<bulk, open, reply>>

BeginBulk ==
    /\ bulk' = TRUE
    /\ UNCHANGED <<dict, pending, open, reply>>

EndBulk ==
    /\ bulk' = FALSE
    /\ UNCHANGED <<dict, pending, open, reply>>

\* The oldest deferred put of k is committed.
CommitDeferred(k) ==
    /\ ~bulk
    /\ pending[k] # <<>>
    /\ dict' = [dict EXCEPT ![k] = Head(pending[k])]
    /\ pending' = [pending EXCEPT ![k] = Tail(@)]
    /\ UNCHANGED <<bulk, open, reply>>

\* The oldest deferred put of k is replayed but rejected (closed store,
\* write protection): it is dropped.
DropDeferred(k) ==
    /\ ~bulk
    /\ pending[k] # <<>>
    /\ pending' = [pending EXCEPT ![k] = Tail(@)]
    /\ UNCHANGED <<dict, bulk, open, reply>>

\* Deferred puts are thrown away (abort of a bulk load).
DiscardDeferred ==
    /\ pending' = [k \in Keys |-> <<>>]
    /\ UNCHANGED <<dict, bulk, open, reply>>

Next ==
    \/ \E k \in Keys : Get(k) \/ Del(k) \/ CommitDeferred(k) \/ DropDeferred(k)
    \/ \E k \in Keys, v \in Texts : Put(k, v)
    \/ BeginBulk \/ EndBulk \/ DiscardDeferred \/ Open \/ Close

Spec == Init /\ [][Next]_vars
=============================================================================
