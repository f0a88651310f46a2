---------------------------- MODULE MCDataMatrix ----------------------------
(* Small instances of DataMatrix for TLC. *)
EXTENDS DataMatrix
=============================================================================
