--------------------------- MODULE MCSamplingLoop ---------------------------
(* Small instances of SamplingLoop for TLC. *)
EXTENDS SamplingLoop
=============================================================================
