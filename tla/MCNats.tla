------------------------------- MODULE MCNats -------------------------------
(* Nats on a small instance. *)
EXTENDS Nats, TLC

Symmetry == Permutations(Clients) \cup Permutations(Tasks)
=============================================================================
