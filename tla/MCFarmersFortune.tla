-------------------------- MODULE MCFarmersFortune --------------------------
(* A small instance of FarmersFortune for TLC. *)
EXTENDS FarmersFortune

CONSTANTS a1, c1, f1

LoneKey == {<<a1>>}
OneList == {<<c1>>}
=============================================================================
