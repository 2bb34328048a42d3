----------------------------- MODULE MCAccounts -----------------------------
(* Accounts on small sets: two overlapping logins, two or three accounts,  *)
(* one of which may report two addresses, and ids that share a username.   *)
EXTENDS Accounts, TLC

CONSTANTS l1, l2, google1, google2, github, u1, u2, u3, m1, m2, m3, n1, n2

\* google1 changes its address to one that google2 has, or had.
MCMailsOf == google1 :> {m1, m2} @@ google2 :> {m2}
\* The ids u1 and u2 end in the same twelve digits.
MCUsername == [u \in Users |-> IF u = u3 THEN n2 ELSE n1]

\* Two Google accounts that share an address for good, and one of GitHub.
MCStableMailsOf == [a \in Accounts |-> IF a = github THEN {m3} ELSE {m1}]
\* The slots are interchangeable, and so are the two colliding ids.
Symmetry == Permutations(Logins) \cup Permutations({u1, u2})
=============================================================================
