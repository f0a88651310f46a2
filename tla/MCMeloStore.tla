---------------------------- MODULE MCMeloStore ----------------------------
(* Small instances of MeloStore for TLC. *)
EXTENDS MeloStore

CONSTANTS a1, a2, a3, c1, c2, c3

\* Three validators, and a session that drops one and reorders the others.
RotatingSessions == {<<a1, a2, a3>>, <<a2, a1>>}
LoneValidator == {<<a1>>}

\* One commitment, and more than MaxBlobNum = 1 of them.
TwoLists == {<<c1>>, <<c2, c3>>}
OneList == {<<c1>>}
=============================================================================
