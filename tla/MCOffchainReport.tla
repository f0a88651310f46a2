-------------------------- MODULE MCOffchainReport --------------------------
(* A small instance of OffchainReport for TLC. *)
EXTENDS OffchainReport, TLC

CONSTANTS a1, a2, n1, c1

\* One node holds both keys of the session.
OneNode == n1 :> {a1, a2}
TwoKeys == {<<a1, a2>>}
OneList == {<<c1>>}
=============================================================================
