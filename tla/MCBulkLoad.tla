------------------------------ MODULE MCBulkLoad ------------------------------
(***************************************************************************)
(* BulkLoad with the model values of MCAttrCache: the two keys that share  *)
(* a hash and a spool file, and two texts, so that two puts of one key and *)
(* puts of two keys can sit in one spool file.                             *)
(***************************************************************************)
EXTENDS BulkLoad, MCAttrCache
=============================================================================
