----------------------------- MODULE Directory -----------------------------
(***************************************************************************)
(* What the account directory of Space-Killer promises, with every login   *)
(* as one indivisible step: the first login with a provider account either *)
(* registers a new user for the e-mail address the provider reports or     *)
(* links the account to the user who already has that address; every later *)
(* login with the account finds the same user.                             *)
(*                                                                         *)
(* The promise leaves one hole, and names it: an account that is already   *)
(* bound and now presents an address nobody has can leave behind a user    *)
(* that no account leads to (Strand).  Accounts.tla is the code's          *)
(* transaction, statement by statement, and implements this module.        *)
(***************************************************************************)
CONSTANTS
    Accounts,   \* a provider with the id of a user there
    Users,      \* values of users.id
    Mails,      \* e-mail addresses
    MailsOf,    \* the addresses an account's provider may report for it
    None        \* none of these; what is assumed of the constants is what
                \* Accounts assumes

VARIABLES
    email,      \* email[u] is the address of user u, None if there is no u
    owner       \* owner[a] is the user account a leads to, None if unbound

vars == <<email, owner>>

Init ==
    /\ email = [u \in Users |-> None]
    /\ owner = [a \in Accounts |-> None]

Unknown(m) == \A u \in Users : email[u] # m

\* A user appears with its address and its first account in one step.
Register(a, m, u) ==
    /\ owner[a] = None
    /\ Unknown(m)
    /\ email[u] = None
    /\ email' = [email EXCEPT ![u] = m]
    /\ owner' = [owner EXCEPT ![a] = u]

\* A further account of a person who is known by the address.
Link(a, m, u) ==
    /\ owner[a] = None
    /\ email[u] = m
    /\ owner' = [owner EXCEPT ![a] = u]
    /\ UNCHANGED email

\* A user no account leads to: only an account that reports a second address
\* can cause it.
Strand(a, m, u) ==
    /\ owner[a] # None
    /\ Unknown(m)
    /\ email[u] = None
    /\ email' = [email EXCEPT ![u] = m]
    /\ UNCHANGED owner

Next == \E a \in Accounts, u \in Users : \E m \in MailsOf[a] :
            Register(a, m, u) \/ Link(a, m, u) \/ Strand(a, m, u)

Spec == Init /\ [][Next]_vars
-----------------------------------------------------------------------------
\* Every account that may report address m reports no other.  This is so for
\* GitHub, Telegram, Yandex and StackOverflow, whose address is made from the
\* id, and for Google accounts that never change their address.
Settled(m) == \A a \in Accounts : m \in MailsOf[a] => MailsOf[a] = {m}

\* An account leads to a user who exists and has an address the account's
\* provider reports for it (get_safe_user_info fixes id and address together).
OwnersExist == \A a \in Accounts : owner[a] # None => email[owner[a]] \in MailsOf[a]

\* A user with a settled address is not stranded: some account leads to it.
Reachable == \A u \in Users : email[u] # None /\ Settled(email[u]) =>
                \E a \in Accounts : owner[a] = u
=============================================================================
