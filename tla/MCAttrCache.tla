----------------------------- MODULE MCAttrCache -----------------------------
(***************************************************************************)
(* AttrCache instantiated for TLC: three attribute keys, two of which      *)
(* collide on one hash (and spool file 3), the third in spool file 1.      *)
(* Texts are byte strings (97 = 'a', 98 = 'b', 0 = NUL) as callers pass    *)
(* them, terminator included; LBUF_SIZE = 2 so the 3-byte text is clamped. *)
(***************************************************************************)
EXTENDS AttrCache, TLC

MCKeys == {<<1, 10>>, <<2, 10>>, <<1, 11>>}
MCHash == (<<1, 10>> :> 1610612736) @@ (<<2, 10>> :> 1610612736)
          @@ (<<1, 11>> :> 536870919)
MCTexts == {<<0>>, <<97, 0>>, <<97, 98, 0>>}
\* A caller passing a text without its terminator (length = strlen).
MCTextsUnterminated == {<<97>>, <<97, 0>>}
MCKeysSpool == {<<1, 10>>, <<2, 10>>}
MCTextsSpool == {<<0>>, <<97, 0>>}

\* What the spec says is kept of a put: clamped, and then terminated.
SpecStored(v) == IF Len(v) > LBUF_SIZE THEN Stored(v) ELSE v

AS == INSTANCE AttrStore WITH dict <- StoreDict, pending <- Deferred,
                              bulk <- cache_redirected, open <- cache_initted,
                              Committed <- SpecStored

\* The cache, seen through the file and the spool, is the keyed store the
\* spec describes: gets return the committed text, spooled puts of a key
\* are committed in the order they were issued.
RefinesAttrStore == AS!Spec

=============================================================================
