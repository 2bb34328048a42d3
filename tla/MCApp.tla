------------------------------- MODULE MCApp -------------------------------
(* App with two accounts, one of which may report the other's address or one  *)
(* of its own, so that a session can change hands: two browsers whose logins  *)
(* overlap, or one browser with two tabs.                                     *)
EXTENDS App, TLC

CONSTANTS b1, b2, t1, t2, a1, a2, u1, u2, m1, m2, n1

MCBrowser == [t \in Tabs |-> b1]
MCMailsOf == a1 :> {m1} @@ a2 :> {m1, m2}
MCUsername == [u \in Users |-> u]

BrowserSymmetry == Permutations(Logins) \cup Permutations(Users)
TabSymmetry == Permutations(Tabs) \cup Permutations(Users)

\* Bound of the run about forms, which no status has a say in.
Unmoderated == \A u \in Users : status[u] \in {"absent", "ACTIVE"}
=============================================================================
