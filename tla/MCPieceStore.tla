---------------------------- MODULE MCPieceStore ----------------------------
(* Instances of PieceStore for TLC. *)
EXTENDS PieceStore, TLC

\* Headers are told apart by nothing but their numbers and the y values of their
\* segments, which Init draws in every combination.
HeaderSymmetry == Permutations(Header)
=============================================================================
