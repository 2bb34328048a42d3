------------------------------ MODULE Accounts ------------------------------
(***************************************************************************)
(* pg_resolve_user_id (modules/auth/common/postgres_repo.py): the single   *)
(* PostgreSQL transaction with which every OAuth callback turns a provider *)
(* account into a user, under any number of concurrent logins.             *)
(*                                                                         *)
(* Each statement is one action.  PostgreSQL runs them READ COMMITTED: a   *)
(* statement sees what is committed when it starts, a write waits for the  *)
(* transactions that have already written a row with the same unique key,  *)
(* and then works on the version they committed.  A transaction's own      *)
(* writes are kept in writes[l] until it commits; what it has locked       *)
(* follows from them.                                                      *)
(***************************************************************************)
EXTENDS FiniteSets

CONSTANTS
    Logins,     \* the slots of the callback handlers that run at one time
    Accounts,   \* (provider, provider_user_id)
    Users,      \* values of users.id, UUIDv7s: each is handed out once
    Mails,      \* values of users.email
    MailsOf,    \* addresses the provider reports for an account
    Usernames,  \* values of lower(profiles.username)
    Username,   \* "user-" and the last 12 digits of an id; ids may collide here
    None

ASSUME AccountsAssumption ==
    /\ MailsOf \in [Accounts -> SUBSET Mails]
    /\ Username \in [Users -> Usernames]
    /\ None \notin Accounts \cup Users \cup Mails \cup {"banned", "error"}
    /\ Users \cap {"banned", "error"} = {}

Statuses == {"ACTIVE", "DELETED", "BANNED"}

Stages == {"idle", "search", "reactivate", "upsert", "profile", "identity", "commit"}

Writes == {"insertUser", "touchUser", "setActive", "insertProfile", "insertIdentity"}

VARIABLES
    \* committed rows
    status,     \* users.status, "absent" when there is no row
    email,      \* users.email
    profiled,   \* the users with a row in profiles
    identity,   \* user_identities: account -> user_id
    \* the transactions
    pc,         \* the statement a login runs next
    info,       \* the SafeUserInfo it was called with: account and address
    found,      \* user_id of the handler, the result row of search or upsert
    writes,     \* its uncommitted writes
    result,     \* what the call returned: a user, "banned" or "error"
    \* history
    touched     \* users whose status another party changed since a login's search

tables == <<status, email, profiled, identity>>
vars == <<status, email, profiled, identity, pc, info, found, writes, result, touched>>
-----------------------------------------------------------------------------
Exists(u) == status[u] # "absent"

WritesUser(l) == writes[l] \cap {"insertUser", "touchUser", "setActive"} # {}

\* The rows and index entries that transaction l has locked.
\* The row lock on a user, or the unique-index entry of a new one.
MailOf(l) == IF "setActive" \in writes[l] THEN email[found[l]] ELSE info[l].mail
LocksMail(l, m) == WritesUser(l) /\ MailOf(l) = m

\* Slip: the row in users, once written, keeps every username locked.
LocksUsernameEarly(l, n) == WritesUser(l)

LocksUsername(l, n) == "insertProfile" \in writes[l] /\ Username[found[l]] = n

LocksAccount(l, a) == "insertIdentity" \in writes[l] /\ info[l].account = a

MailFree(l, m) == \A k \in Logins \ {l} : ~LocksMail(k, m)
UsernameFree(l, n) == \A k \in Logins \ {l} : ~LocksUsername(k, n)
AccountFree(l, a) == \A k \in Logins \ {l} : ~LocksAccount(k, a)

\* An id that is neither committed nor given to a row being inserted.
FreshId(u) == ~Exists(u) /\ \A k \in Logins : "insertUser" \in writes[k] => found[k] # u

Running(l) == pc[l] # "idle"

\* The login is past its search.
Searched(l) == pc[l] \notin {"idle", "search"}

\* The logins that have searched take note of the users whose status changes.
Note(changed) ==
    [k \in Logins |-> IF Searched(k) THEN touched[k] \cup changed ELSE touched[k]]

-----------------------------------------------------------------------------
(* Slips: actions as a plausible mistake in the code would make them.  No     *)
(* specification uses them; they show what each property would catch.         *)

\* The login goes on to a stage, with u found and w written.
Slip(l, stage, u, w) ==
    /\ pc' = [pc EXCEPT ![l] = stage]
    /\ found' = [found EXCEPT ![l] = u]
    /\ writes' = [writes EXCEPT ![l] = @ \cup w]
    /\ UNCHANGED <<tables, info, result, touched>>

\* Reactivation tests status # ACTIVE instead of status = DELETED.
SearchRevivesAll(l) == LET u == identity[info[l].account] IN
    /\ pc[l] = "search"
    /\ Slip(l, IF u = None THEN "upsert"
               ELSE IF status[u] # "ACTIVE" THEN "reactivate" ELSE "commit", u, {})

\* The address path forgets that a user may be banned.
UpsertKnownUnchecked(l, u) ==
    /\ pc[l] = "upsert" /\ MailFree(l, info[l].mail)
    /\ Exists(u) /\ email[u] = info[l].mail
    /\ Slip(l, "profile", u, {"touchUser"})

\* The handler returns the user it knows before it links the account.
UpsertKnownReturns(l, u) ==
    /\ pc[l] = "upsert" /\ MailFree(l, info[l].mail)
    /\ Exists(u) /\ email[u] = info[l].mail /\ status[u] # "BANNED"
    /\ Slip(l, "commit", u, {"touchUser"})

\* SELECT, then a plain INSERT into a table without the unique address.
UpsertNewUnlocked(l, u) ==
    /\ pc[l] = "upsert" /\ FreshId(u)
    /\ \A v \in Users : email[v] # info[l].mail
    /\ Slip(l, "profile", u, {"insertUser"})

\* A new user gets no profile.
UpsertNewBare(l, u) ==
    /\ pc[l] = "upsert" /\ FreshId(u) /\ MailFree(l, info[l].mail)
    /\ \A v \in Users : email[v] # info[l].mail
    /\ Slip(l, "identity", u, {"insertUser"})

\* The insert takes a lock on the table users, not on an index entry.
InsertProfileLocksAll(l) ==
    /\ pc[l] = "profile"
    /\ \A k \in Logins \ {l} : ~WritesUser(k)
    /\ Slip(l, "identity", found[l], {"insertProfile"})

\* DO UPDATE SET user_id where the code has DO NOTHING.
InsertIdentityOverwrites(l) ==
    /\ pc[l] = "identity" /\ AccountFree(l, info[l].account)
    /\ Slip(l, "commit", found[l], {"insertIdentity"})

\* A new user is committed before its account is linked.
ApplyUnlinked(l) == LET w == writes[l]  u == found[l] IN
    /\ status' = [status EXCEPT ![u] =
                     IF w \cap {"insertUser", "setActive"} # {} THEN "ACTIVE" ELSE @]
    /\ email' = [email EXCEPT ![u] = IF "insertUser" \in w THEN info[l].mail ELSE @]
    /\ profiled' = IF "insertProfile" \in w THEN profiled \cup {u} ELSE profiled
    /\ UNCHANGED identity
-----------------------------------------------------------------------------
\* The call returns or raises r, and its locals are gone.
Finish(l, r, changed) ==
    /\ pc' = [pc EXCEPT ![l] = "idle"]
    /\ found' = [found EXCEPT ![l] = None]
    /\ writes' = [writes EXCEPT ![l] = {}]
    /\ result' = [result EXCEPT ![l] = r]
    /\ touched' = [Note(changed) EXCEPT ![l] = {}]
    /\ UNCHANGED info

\* The transaction ends without effect.
Rollback(l, r) ==
    /\ Finish(l, r, {})
    /\ UNCHANGED tables
-----------------------------------------------------------------------------
Init ==
    /\ status = [u \in Users |-> "absent"]
    /\ email = [u \in Users |-> None]
    /\ profiled = {}
    /\ identity = [a \in Accounts |-> None]
    /\ pc = [l \in Logins |-> "idle"]
    /\ info = [l \in Logins |-> [account |-> None, mail |-> None]]
    /\ found = [l \in Logins |-> None]
    /\ writes = [l \in Logins |-> {}]
    /\ result = [l \in Logins |-> None]
    /\ touched = [l \in Logins |-> {}]

\* A callback handler has the provider's answer and opens the transaction.
Begin(l, a, m) ==
    /\ pc[l] = "idle"
    /\ m \in MailsOf[a]
    /\ pc' = [pc EXCEPT ![l] = "search"]
    /\ info' = [info EXCEPT ![l] = [account |-> a, mail |-> m]]
    /\ result' = [result EXCEPT ![l] = None]
    /\ UNCHANGED <<tables, found, writes, touched>>

\* SELECT users JOIN user_identities: takes no lock.
Search(l) == LET u == identity[info[l].account] IN
    /\ pc[l] = "search"
    /\ \/ /\ u # None /\ status[u] = "BANNED"
          /\ Rollback(l, "banned")
       \/ /\ u # None => status[u] # "BANNED"
          /\ found' = [found EXCEPT ![l] = u]
          /\ pc' = [pc EXCEPT ![l] = IF u = None THEN "upsert"
                                     ELSE IF status[u] = "DELETED" THEN "reactivate"
                                     ELSE "commit"]
          /\ UNCHANGED <<tables, info, writes, result, touched>>

\* UPDATE users SET status = ACTIVE WHERE id = found: whatever the status is now.
Reactivate(l) ==
    /\ pc[l] = "reactivate"
    /\ MailFree(l, email[found[l]])
    /\ pc' = [pc EXCEPT ![l] = "commit"]
    /\ writes' = [writes EXCEPT ![l] = @ \cup {"setActive"}]
    /\ UNCHANGED <<tables, info, found, result, touched>>

\* INSERT INTO users ... ON CONFLICT (email) DO UPDATE ... RETURNING id, status.
\* The user with the address is locked and keeps its status.
UpsertKnown(l, u) ==
    /\ pc[l] = "upsert"
    /\ MailFree(l, info[l].mail)
    /\ Exists(u) /\ email[u] = info[l].mail
    /\ \/ /\ status[u] = "BANNED"
          /\ Rollback(l, "banned")
       \/ /\ status[u] # "BANNED"
          /\ found' = [found EXCEPT ![l] = u]
          /\ pc' = [pc EXCEPT ![l] = "profile"]
          /\ writes' = [writes EXCEPT ![l] = @ \cup {"touchUser"}]
          /\ UNCHANGED <<tables, info, result, touched>>

UpsertNew(l, u) ==
    /\ pc[l] = "upsert"
    /\ MailFree(l, info[l].mail)
    /\ \A v \in Users : email[v] # info[l].mail
    /\ FreshId(u)
    /\ found' = [found EXCEPT ![l] = u]
    /\ pc' = [pc EXCEPT ![l] = "profile"]
    /\ writes' = [writes EXCEPT ![l] = @ \cup {"insertUser"}]
    /\ UNCHANGED <<tables, info, result, touched>>

\* INSERT INTO profiles ... ON CONFLICT (user_id) DO NOTHING.  A username that
\* is taken is not the conflict the statement expects: the transaction fails.
InsertProfile(l) == LET u == found[l] IN
    /\ pc[l] = "profile"
    /\ \/ /\ u \in profiled
          /\ pc' = [pc EXCEPT ![l] = "identity"]
          /\ UNCHANGED <<tables, info, found, writes, result, touched>>
       \/ /\ u \notin profiled
          /\ \E v \in profiled : Username[v] = Username[u]
          /\ Rollback(l, "error")
       \/ /\ u \notin profiled
          /\ \A v \in profiled : Username[v] # Username[u]
          /\ UsernameFree(l, Username[u])
          /\ pc' = [pc EXCEPT ![l] = "identity"]
          /\ writes' = [writes EXCEPT ![l] = @ \cup {"insertProfile"}]
          /\ UNCHANGED <<tables, info, found, result, touched>>

\* INSERT INTO user_identities ... ON CONFLICT (provider, provider_user_id)
\* DO NOTHING: whoever got there first keeps the account.
InsertIdentity(l) == LET a == info[l].account IN
    /\ pc[l] = "identity"
    /\ identity[a] # None \/ AccountFree(l, a)
    /\ pc' = [pc EXCEPT ![l] = "commit"]
    /\ writes' = [writes EXCEPT ![l] = IF identity[a] = None
                                       THEN @ \cup {"insertIdentity"} ELSE @]
    /\ UNCHANGED <<tables, info, found, result, touched>>

\* The writes of a transaction reach the tables together.
Apply(l) == LET w == writes[l]  u == found[l] IN
    /\ status' = [status EXCEPT ![u] =
                     IF w \cap {"insertUser", "setActive"} # {} THEN "ACTIVE" ELSE @]
    /\ email' = [email EXCEPT ![u] = IF "insertUser" \in w THEN info[l].mail ELSE @]
    /\ profiled' = IF "insertProfile" \in w THEN profiled \cup {u} ELSE profiled
    /\ identity' = [identity EXCEPT ![info[l].account] =
                     IF "insertIdentity" \in w THEN u ELSE @]

\* COMMIT.  The answer may be lost with the connection after the commit took
\* effect; the caller then sees an exception.
Commit(l, r) ==
    /\ pc[l] = "commit"
    /\ r \in {found[l], "error"}
    /\ Apply(l)
    /\ Finish(l, r, {u \in Users : status'[u] # status[u]})

\* Slip: without session_maker.begin(), what ran before the failure stays.
FailCommits(l) ==
    /\ Running(l)
    /\ found[l] # None
    /\ Apply(l)
    /\ Finish(l, "error", {u \in Users : status'[u] # status[u]})

\* A statement fails, the connection breaks, the handler is cancelled or the
\* process dies: session_maker.begin() rolls back, or the server does.
Fail(l) ==
    /\ Running(l)
    /\ Rollback(l, "error")

\* An operator changes a status by hand; no code of the repository does.
Moderate(u, s) ==
    /\ Exists(u) /\ status[u] # s
    /\ \A k \in Logins : ~LocksMail(k, email[u])
    /\ status' = [status EXCEPT ![u] = s]
    /\ touched' = Note({u})
    /\ UNCHANGED <<email, profiled, identity, pc, info, found, writes, result>>

Step(l) ==
    \/ Search(l)
    \/ Reactivate(l)
    \/ \E u \in Users : UpsertKnown(l, u) \/ UpsertNew(l, u)
    \/ InsertProfile(l)
    \/ InsertIdentity(l)
    \/ Commit(l, found[l]) \/ Commit(l, "error")

Next ==
    \/ \E l \in Logins : Step(l) \/ Fail(l)
    \/ \E l \in Logins, a \in Accounts, m \in Mails : Begin(l, a, m)
    \/ \E u \in Users, s \in Statuses : Moderate(u, s)

Spec == Init /\ [][Next]_vars

\* PostgreSQL grants a lock in the order it was asked for, so a statement that
\* waits for a lock which becomes free again and again is not passed over.
FairSpec == Spec /\ \A l \in Logins : SF_vars(Step(l))
-----------------------------------------------------------------------------
Dir == INSTANCE Directory WITH owner <- identity

Outcomes == Users \cup {None, "banned", "error"}

TypeOK ==
    /\ status \in [Users -> Statuses \cup {"absent"}]
    /\ email \in [Users -> Mails \cup {None}]
    /\ profiled \subseteq Users
    /\ identity \in [Accounts -> Users \cup {None}]
    /\ pc \in [Logins -> Stages]
    /\ info \in [Logins -> [account : Accounts \cup {None}, mail : Mails \cup {None}]]
    /\ found \in [Logins -> Users \cup {None}]
    /\ writes \in [Logins -> SUBSET Writes]
    /\ result \in [Logins -> Outcomes]
    /\ touched \in [Logins -> SUBSET Users]

\* A user another request can see has its profile, without which
\* pg_resolve_user_meta (.one()) raises on every page; an account leads to a
\* user that exists, with an address its provider reports.
AccountsComplete ==
    /\ \A u \in Users : Exists(u) => u \in profiled
    /\ \A a \in Accounts : identity[a] # None =>
            Exists(identity[a]) /\ email[identity[a]] \in MailsOf[a]

\* Two rows never share an address or a username, whatever the logins overlap.
UsersDistinct == \A u, v \in Users : u # v =>
    /\ Exists(u) /\ Exists(v) => email[u] # email[v]
    /\ u \in profiled /\ v \in profiled => Username[u] # Username[v]

\* The user a login answers with is the one every later login of the account
\* gets, unless the account is bound to a user with another address: the
\* upsert and the identity insert (78-109) do not look at each other's result.
AnswerOK(l) == result[l] \in Users =>
    LET owner == identity[info[l].account] IN
        owner # None /\ (owner = result[l] \/ email[owner] # info[l].mail)
AnswerIsBound == \A l \in Logins : AnswerOK(l)

\* An account never moves to another user, and no user changes its address.
KeepsBindings ==
    /\ \A a \in Accounts : identity[a] # None => identity'[a] = identity[a]
    /\ \A u \in Users : email[u] # None => email'[u] = email[u]
BindingsStable == [][KeepsBindings]_vars

Ends(l) == Running(l) /\ ~Running(l)'

\* A login that answers with a user whose status nobody else changed since its
\* search answers with an active one; on the e-mail path, which does not reactivate
\* (78-83), the user may be a deleted one.
HonoursStatus(l) == Ends(l) /\ result'[l] \in Users \ touched[l] =>
    \/ status'[result'[l]] = "ACTIVE"
    \/ status'[result'[l]] = "DELETED" /\ "touchUser" \in writes[l]
StatusHonoured == [][\A l \in Logins : HonoursStatus(l)]_vars

\* A login lifts a ban only when the status changed after its search, which is
\* to say that the ban in force came after it: the UPDATE that lifts it tests
\* nothing but the id (67-72).
LiftsOnlyStale(l) == Ends(l) =>
    \A u \in Users : status[u] = "BANNED" /\ status'[u] # "BANNED" =>
        found[l] = u /\ u \in touched[l]
BanLiftedOnlyByStaleRead == [][\A l \in Logins : LiftsOnlyStale(l)]_vars

\* The transactions that hold what the next statement of l has to lock.
WaitsFor(l) == {k \in Logins \ {l} :
    \/ pc[l] = "reactivate" /\ LocksMail(k, email[found[l]])
    \/ pc[l] = "upsert" /\ LocksMail(k, info[l].mail)
    \/ /\ pc[l] = "profile" /\ found[l] \notin profiled
       /\ LocksUsername(k, Username[found[l]])
    \/ /\ pc[l] = "identity" /\ identity[info[l].account] = None
       /\ LocksAccount(k, info[l].account)}

\* No transactions wait for each other in a circle: among any of them there is
\* one that waits for none of the others, although addresses, usernames and
\* accounts are locked one after the other and logins collide on each.
NoCircle == \A some \in SUBSET Logins : some # {} =>
    \E l \in some : WaitsFor(l) \cap some = {}

\* Every login ends: the transactions never wait for each other in a circle.
LoginsEnd == \A l \in Logins : Running(l) ~> ~Running(l)

\* A user whose address no account will ever trade for another can be reached
\* by a login, also when the first logins of a person overlap or fail halfway.
NobodyStranded == \A u \in Users : Exists(u) /\ Dir!Settled(email[u]) =>
    \E a \in Accounts : identity[a] = u

\* Logins happen one at a time as far as anyone can tell from the rows.
DirectorySpec == Dir!Spec
=============================================================================
