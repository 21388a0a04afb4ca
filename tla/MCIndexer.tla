------------------------------ MODULE MCIndexer ------------------------------
(***************************************************************************)
(* Small instances of Indexer: one claim, one policy, a handful of blocks. *)
(***************************************************************************)
EXTENDS Indexer
=============================================================================
