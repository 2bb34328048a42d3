------------------------------ MODULE MCAvatar ------------------------------
(* Two users, three requests under way at a time, two file ids. *)
EXTENDS Avatar, TLC

CONSTANTS u1, u2, r1, r2, r3, f1, f2

Symmetry == Permutations(Users) \cup Permutations(Requests) \cup Permutations(Fids)
=============================================================================
