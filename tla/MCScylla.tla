------------------------------ MODULE MCScylla ------------------------------
(* Scylla on small instances. *)
EXTENDS Scylla
=============================================================================
