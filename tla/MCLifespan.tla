----------------------------- MODULE MCLifespan -----------------------------
(* Lifespan, which has no parameters: the managers are those of the code. *)
EXTENDS Lifespan
=============================================================================
