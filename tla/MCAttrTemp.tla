------------------------------ MODULE MCAttrTemp ------------------------------
(***************************************************************************)
(* AttrTemp with the keys and texts of MCAttrCache: <<1, 10>> and          *)
(* <<2, 10>> share a hash chain, so a put of either walks both records.    *)
(***************************************************************************)
EXTENDS AttrTemp, MCAttrCache
=============================================================================
