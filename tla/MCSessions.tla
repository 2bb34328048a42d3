----------------------------- MODULE MCSessions -----------------------------
(* Sessions with two requests under way at a time.  *)
EXTENDS Sessions, TLC

CONSTANTS b1, b2, r1, r2, s1, s2, t1, t2, u1, u2

Symmetry == Permutations(Browsers) \cup Permutations(Requests) \cup Permutations(Sids)
                \cup Permutations(Tokens) \cup Permutations(Users)
=============================================================================
