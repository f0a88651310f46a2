----------------------------- MODULE MCClients -----------------------------
(* A small instance of Clients for TLC. *)
EXTENDS Clients

CONSTANTS t1, t2, d1

\* The tasks of one program.
MCConnOf == [t \in Task |-> d1]
=============================================================================
