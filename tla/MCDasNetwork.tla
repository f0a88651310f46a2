---------------------------- MODULE MCDasNetwork ----------------------------
(* Small instances of DasNetwork for TLC. *)
EXTENDS DasNetwork

\* Three keys in chunks of two with a record to put and a removal, and two
\* add_address calls of one peer with a bootstrap, a start of listening and a get.
MCWorkloads == {
    [gets |-> 3, puts |-> 1, adds |-> 0, others |-> {"remove"}],
    [gets |-> 1, puts |-> 0, adds |-> 2, others |-> {"bootstrap", "listen"}]}
=============================================================================
