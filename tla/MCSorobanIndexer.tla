-------------------------- MODULE MCSorobanIndexer --------------------------
(***************************************************************************)
(* Small instances of SorobanIndexer for TLC; the configurations give the  *)
(* constants their values.                                                 *)
(***************************************************************************)
EXTENDS SorobanIndexer
=============================================================================
