---------------------------- MODULE MCSharedStore ---------------------------
(* Small instances of SharedStore for TLC. *)
EXTENDS SharedStore
=============================================================================
