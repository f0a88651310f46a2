---------------------------- MODULE MCSubmitBlob ----------------------------
(* Small instances of SubmitBlob for TLC. *)
EXTENDS SubmitBlob
=============================================================================
