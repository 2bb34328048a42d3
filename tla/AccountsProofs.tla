--------------------------- MODULE AccountsProofs ---------------------------
(***************************************************************************)
(* The directory, the login transaction that implements it, with its       *)
(* inductive invariant, and the application on top of it: the theorems,    *)
(* for any number of logins, accounts, users and addresses.                *)
(***************************************************************************)
EXTENDS App, Naturals, TLAPS

\* What is committed: a row in users has its address and its profile, and the
\* unique indexes hold.
RowsOK ==
    /\ \A u \in Users : (Exists(u) <=> email[u] # None) /\ (Exists(u) <=> u \in profiled)
    /\ AccountsComplete
    /\ UsersDistinct

\* What is locked has one owner, and an id is given to one new row.
LocksExclusive == \A k, l \in Logins : k # l =>
    /\ \A m \in Mails : ~(LocksMail(k, m) /\ LocksMail(l, m))
    /\ \A n \in Usernames : ~(LocksUsername(k, n) /\ LocksUsername(l, n))
    /\ \A a \in Accounts : ~(LocksAccount(k, a) /\ LocksAccount(l, a))
    /\ ~("insertUser" \in writes[k] /\ "insertUser" \in writes[l] /\ found[k] = found[l])

\* Which writes a transaction has made when it reaches a statement.
StageOK(l) ==
    /\ Running(l) => info[l].account \in Accounts /\ info[l].mail \in MailsOf[info[l].account]
    /\ pc[l] \in {"idle", "search"} => touched[l] = {}
    /\ pc[l] \in {"idle", "search", "upsert"} => writes[l] = {} /\ found[l] = None
    /\ pc[l] = "reactivate" => writes[l] = {}
    /\ pc[l] = "profile" => writes[l] = {"insertUser"} \/ writes[l] = {"touchUser"}
    /\ pc[l] = "identity" => \/ writes[l] = {"insertUser", "insertProfile"}
                             \/ writes[l] = {"touchUser"}
    /\ pc[l] = "commit" => \/ writes[l] = {} \/ writes[l] = {"setActive"}
                           \/ writes[l] \ {"insertIdentity"} = {"insertUser", "insertProfile"}
                           \/ writes[l] \ {"insertIdentity"} = {"touchUser"}

\* What the transaction may rely on when it commits, whatever the others do.
WritesOK(l) ==
    /\ pc[l] = "reactivate" \/ (pc[l] = "commit" /\ writes[l] \in {{}, {"setActive"}}) =>
            found[l] \in Users /\ found[l] = identity[info[l].account]
    /\ "insertUser" \in writes[l] =>
            found[l] \in Users /\ ~Exists(found[l]) /\ \A v \in Users : email[v] # info[l].mail
    /\ "touchUser" \in writes[l] =>
            found[l] \in Users /\ Exists(found[l]) /\ email[found[l]] = info[l].mail
    /\ "insertProfile" \in writes[l] =>
            \A v \in profiled : Username[v] # Username[found[l]]
    /\ "insertIdentity" \in writes[l] => identity[info[l].account] = None
    /\ pc[l] = "commit" /\ "insertIdentity" \notin writes[l] => identity[info[l].account] # None

\* What the transaction knows of the status of the user it has found.
StatusOK(l) ==
    /\ pc[l] = "reactivate" \/ "setActive" \in writes[l] =>
            status[found[l]] = "DELETED" \/ found[l] \in touched[l]
    /\ pc[l] = "commit" /\ writes[l] = {} =>
            status[found[l]] = "ACTIVE" \/ found[l] \in touched[l]
    /\ "touchUser" \in writes[l] => status[found[l]] \in {"ACTIVE", "DELETED"}

\* The inductive invariant: no single statement of the transaction is safe by
\* itself, only with what the locks taken before it exclude.
LoginsOK == \A l \in Logins : StageOK(l) /\ WritesOK(l) /\ StatusOK(l)
IInv == TypeOK /\ RowsOK /\ LocksExclusive /\ LoginsOK
-----------------------------------------------------------------------------
(* Typing.  *)

LEMMA InitType == Init => TypeOK
BY AccountsAssumption DEF Init, TypeOK, Statuses, Stages, Outcomes

LEMMA NoteType ==
    ASSUME TypeOK, NEW S \in SUBSET Users
    PROVE  Note(S) \in [Logins -> SUBSET Users]
BY DEF Note, TypeOK

LEMMA FinishType ==
    ASSUME TypeOK, NEW l \in Logins, NEW r \in Outcomes, NEW S \in SUBSET Users,
           Finish(l, r, S)
    PROVE  /\ pc' \in [Logins -> Stages]
           /\ info' \in [Logins -> [account : Accounts \cup {None}, mail : Mails \cup {None}]]
           /\ found' \in [Logins -> Users \cup {None}]
           /\ writes' \in [Logins -> SUBSET Writes]
           /\ result' \in [Logins -> Outcomes]
           /\ touched' \in [Logins -> SUBSET Users]
BY NoteType DEF Finish, TypeOK, Stages

LEMMA RollbackType ==
    ASSUME TypeOK, NEW l \in Logins, NEW r \in Outcomes, Rollback(l, r)
    PROVE  TypeOK'
BY FinishType DEF Rollback, tables, TypeOK

LEMMA CommitType ==
    ASSUME TypeOK, NEW l \in Logins, NEW r \in Outcomes, Commit(l, r),
           info[l].account \in Accounts, info[l].mail \in Mails, found[l] \in Users
    PROVE  TypeOK'
<1>1. status' \in [Users -> Statuses \cup {"absent"}]
  BY DEF Commit, Apply, TypeOK, Statuses
<1>2. email' \in [Users -> Mails \cup {None}]  BY DEF Commit, Apply, TypeOK
<1>3. identity' \in [Accounts -> Users \cup {None}]  BY DEF Commit, Apply, TypeOK
<1>4. profiled' \subseteq Users  BY DEF Commit, Apply, TypeOK
<1> QED
  BY <1>1, <1>2, <1>3, <1>4, FinishType DEF Commit, TypeOK

\* What a write tells about the stage and the other writes.
LEMMA WritesTell ==
    ASSUME IInv, NEW l \in Logins
    PROVE  /\ writes[l] # {} => Running(l)
           /\ "setActive" \in writes[l] => pc[l] = "commit" /\ writes[l] = {"setActive"}
           /\ "insertProfile" \in writes[l] => "insertUser" \in writes[l]
           /\ "insertIdentity" \in writes[l] => pc[l] = "commit"
<1>1. pc[l] \in Stages /\ StageOK(l)  BY DEF IInv, TypeOK, LoginsOK
<1>2. CASE pc[l] \in {"idle", "search", "upsert", "reactivate"}
  BY <1>1, <1>2 DEF StageOK, Running
<1>3. CASE pc[l] = "profile"  BY <1>1, <1>3 DEF StageOK, Running
<1>4. CASE pc[l] = "identity"  BY <1>1, <1>4 DEF StageOK, Running
<1>5. CASE pc[l] = "commit"
  <2>1. "setActive" \in writes[l] => writes[l] = {"setActive"}  BY <1>1, <1>5 DEF StageOK
  <2>2. "insertProfile" \in writes[l] => "insertUser" \in writes[l]
    BY <1>1, <1>5 DEF StageOK
  <2> QED  BY <1>5, <2>1, <2>2 DEF Running
<1> QED  BY <1>1, <1>2, <1>3, <1>4, <1>5 DEF Stages

\* At the last statement the handler holds the id of a user, whichever path it
\* took.
LEMMA CommitFound ==
    ASSUME IInv, NEW l \in Logins, pc[l] = "commit"
    PROVE  /\ found[l] \in Users
           /\ info[l].account \in Accounts
           /\ info[l].mail \in MailsOf[info[l].account] /\ info[l].mail \in Mails
<1>1. info[l].account \in Accounts /\ info[l].mail \in MailsOf[info[l].account]
  BY DEF IInv, LoginsOK, StageOK, Running
<1>2. info[l].mail \in Mails  BY <1>1, AccountsAssumption
<1>3. found[l] \in Users
  <2>1. \/ writes[l] = {} \/ writes[l] = {"setActive"}
        \/ "insertUser" \in writes[l] \/ "touchUser" \in writes[l]
    BY DEF IInv, LoginsOK, StageOK
  <2> QED  BY <2>1 DEF IInv, LoginsOK, WritesOK
<1> QED  BY <1>1, <1>2, <1>3
-----------------------------------------------------------------------------
(* Steps that leave the tables alone and change the state of one login only. *)

Local(l) ==
    /\ UNCHANGED tables
    /\ \A k \in Logins \ {l} :
          /\ pc'[k] = pc[k] /\ info'[k] = info[k] /\ found'[k] = found[k]
          /\ writes'[k] = writes[k] /\ result'[k] = result[k] /\ touched'[k] = touched[k]

LEMMA RollbackLocal ==
    ASSUME TypeOK, NEW l \in Logins, NEW r, Rollback(l, r)
    PROVE  /\ Local(l)
           /\ pc'[l] = "idle" /\ writes'[l] = {} /\ found'[l] = None /\ touched'[l] = {}
           /\ result'[l] = r /\ info'[l] = info[l]
<1>1. Note({}) \in [Logins -> SUBSET Users]  BY NoteType
<1>2. \A k \in Logins : Note({})[k] = touched[k]  BY DEF Note, TypeOK
<1> QED  BY <1>1, <1>2 DEF Rollback, Finish, Local, TypeOK

\* Such a step leaves the committed rows as they are, and what the invariant
\* says of the other logins.
LEMMA LocalFrame ==
    ASSUME IInv, NEW l \in Logins, Local(l)
    PROVE  /\ RowsOK'
           /\ \A k \in Logins \ {l} : (StageOK(k) /\ WritesOK(k) /\ StatusOK(k))'
<1>1. RowsOK'
  BY DEF IInv, Local, tables, RowsOK, AccountsComplete, UsersDistinct, Exists
<1>2. ASSUME NEW k \in Logins, k # l
      PROVE  (StageOK(k) /\ WritesOK(k) /\ StatusOK(k))'
  <2>1. /\ pc'[k] = pc[k] /\ info'[k] = info[k] /\ found'[k] = found[k]
        /\ writes'[k] = writes[k] /\ touched'[k] = touched[k] /\ UNCHANGED tables
    BY <1>2 DEF Local
  <2>2. StageOK(k)'  BY <2>1 DEF IInv, LoginsOK, StageOK, Running
  <2>3. WritesOK(k)'  BY <2>1 DEF IInv, LoginsOK, WritesOK, tables, Exists
  <2>4. StatusOK(k)'  BY <2>1 DEF IInv, LoginsOK, StatusOK, tables
  <2> QED  BY <2>2, <2>3, <2>4
<1> QED  BY <1>1, <1>2

\* A login that takes no new lock, or only locks that are free, keeps the
\* locks exclusive.
LEMMA LocalLocks ==
    ASSUME IInv, NEW l \in Logins, Local(l),
           \A k \in Logins \ {l} :
              /\ \A m \in Mails : LocksMail(l, m)' => ~LocksMail(k, m)
              /\ \A n \in Usernames : LocksUsername(l, n)' => ~LocksUsername(k, n)
              /\ \A a \in Accounts : LocksAccount(l, a)' => ~LocksAccount(k, a)
              /\ ~("insertUser" \in writes[k] /\ "insertUser" \in writes'[l]
                                                /\ found[k] = found'[l])
    PROVE  LocksExclusive'
<1>1. ASSUME NEW k \in Logins \ {l}
      PROVE  /\ \A m : LocksMail(k, m)' <=> LocksMail(k, m)
             /\ \A n : LocksUsername(k, n)' <=> LocksUsername(k, n)
             /\ \A a : LocksAccount(k, a)' <=> LocksAccount(k, a)
             /\ writes'[k] = writes[k] /\ found'[k] = found[k]
  BY DEF Local, tables, LocksMail, LocksUsername, LocksAccount, WritesUser, MailOf
<1> QED  BY <1>1 DEF IInv, LocksExclusive

LEMMA LocalStep ==
    ASSUME IInv, NEW l \in Logins, Local(l), TypeOK', LocksExclusive',
           (StageOK(l) /\ WritesOK(l) /\ StatusOK(l))'
    PROVE  IInv'
BY LocalFrame DEF IInv, LoginsOK
-----------------------------------------------------------------------------
(* The statements, one lemma each.  *)

LEMMA RollbackStep ==
    ASSUME IInv, NEW l \in Logins, NEW r \in {"banned", "error"}, Rollback(l, r)
    PROVE  IInv'
<1> USE RollbackLocal DEF IInv
<1>1. TypeOK'  BY RollbackType DEF Outcomes
<1>2. LocksExclusive'
  BY LocalLocks DEF LocksMail, LocksUsername, LocksAccount, WritesUser
<1>3. (StageOK(l) /\ WritesOK(l) /\ StatusOK(l))'
  BY DEF StageOK, WritesOK, StatusOK, Running
<1> QED  BY <1>1, <1>2, <1>3, LocalStep

LEMMA BeginStep ==
    ASSUME IInv, NEW l \in Logins, NEW a \in Accounts, NEW m \in Mails, Begin(l, a, m)
    PROVE  IInv'
<1>1. TypeOK'  BY DEF IInv, TypeOK, Begin, tables, Stages, Outcomes
<1>2. /\ Local(l)
      /\ pc'[l] = "search" /\ writes'[l] = {} /\ found'[l] = None
      /\ info'[l].account = a /\ info'[l].mail = m /\ m \in MailsOf[a] /\ touched'[l] = {}
  <2>1. pc[l] = "idle" /\ writes[l] = {} /\ found[l] = None /\ touched[l] = {}
    BY DEF Begin, IInv, LoginsOK, StageOK
  <2> QED  BY <2>1 DEF IInv, TypeOK, Begin, Local
<1>3. LocksExclusive'
  BY <1>2, LocalLocks DEF LocksMail, LocksUsername, LocksAccount, WritesUser
<1>4. (StageOK(l) /\ WritesOK(l) /\ StatusOK(l))'
  BY <1>2 DEF StageOK, WritesOK, StatusOK, Running
<1> QED  BY <1>1, <1>2, <1>3, <1>4, LocalStep

LEMMA SearchStep ==
    ASSUME IInv, NEW l \in Logins, Search(l)
    PROVE  IInv'
<1> DEFINE u == identity[info[l].account]
<1>1. CASE u # None /\ status[u] = "BANNED" /\ Rollback(l, "banned")
  BY <1>1, RollbackStep
<1>2. CASE /\ u # None => status[u] # "BANNED"
           /\ found' = [found EXCEPT ![l] = u]
           /\ pc' = [pc EXCEPT ![l] = IF u = None THEN "upsert"
                                      ELSE IF status[u] = "DELETED" THEN "reactivate"
                                      ELSE "commit"]
           /\ UNCHANGED <<tables, info, writes, result, touched>>
  <2>1. /\ pc[l] = "search" /\ writes[l] = {} /\ found[l] = None
        /\ info[l].account \in Accounts /\ info[l].mail \in MailsOf[info[l].account]
    BY DEF Search, IInv, LoginsOK, StageOK, Running
  <2>2. u \in Users \cup {None} /\ (u # None => Exists(u))
    BY <2>1 DEF IInv, TypeOK, RowsOK, AccountsComplete
  <2>3. TypeOK'  BY <1>2, <2>2 DEF IInv, TypeOK, tables, Stages
  <2>4. /\ Local(l)
        /\ pc'[l] = IF u = None THEN "upsert"
                    ELSE IF status[u] = "DELETED" THEN "reactivate" ELSE "commit"
        /\ found'[l] = u /\ writes'[l] = {} /\ info'[l] = info[l] /\ UNCHANGED tables
    BY <1>2, <2>1 DEF IInv, TypeOK, Local
  <2>5. LocksExclusive'
    BY <2>4, LocalLocks DEF LocksMail, LocksUsername, LocksAccount, WritesUser
  <2>6. u # None => status[u] \in {"ACTIVE", "DELETED"}
    BY <1>2, <2>2 DEF IInv, TypeOK, Statuses, Exists
  <2>7. StageOK(l)'  BY <2>1, <2>4 DEF StageOK, Running
  <2>8. WritesOK(l)'  BY <2>2, <2>4 DEF WritesOK, tables
  <2>9. StatusOK(l)'  BY <2>4, <2>6 DEF StatusOK, tables
  <2> QED  BY <2>3, <2>4, <2>5, <2>7, <2>8, <2>9, LocalStep
<1> QED  BY <1>1, <1>2 DEF Search

LEMMA ReactivateStep ==
    ASSUME IInv, NEW l \in Logins, Reactivate(l)
    PROVE  IInv'
<1>1. /\ pc[l] = "reactivate" /\ writes[l] = {}
      /\ info[l].account \in Accounts /\ info[l].mail \in MailsOf[info[l].account]
      /\ found[l] \in Users /\ found[l] = identity[info[l].account]
      /\ status[found[l]] = "DELETED" \/ found[l] \in touched[l]
  BY DEF Reactivate, IInv, LoginsOK, StageOK, WritesOK, StatusOK, Running
<1>2. TypeOK'  BY DEF Reactivate, IInv, TypeOK, tables, Stages, Writes
<1>3. /\ Local(l)
      /\ pc'[l] = "commit" /\ found'[l] = found[l] /\ writes'[l] = {"setActive"}
      /\ info'[l] = info[l] /\ touched'[l] = touched[l] /\ UNCHANGED tables
  BY <1>1 DEF Reactivate, IInv, TypeOK, Local
<1>4. LocksExclusive'
  <2>1. \A m : LocksMail(l, m)' => m = email[found[l]]
    BY <1>3 DEF LocksMail, MailOf, tables
  <2> QED
    BY <1>3, <2>1, LocalLocks DEF Reactivate, MailFree, LocksUsername, LocksAccount
<1>5. StageOK(l)'  BY <1>1, <1>3 DEF StageOK, Running
<1>6. WritesOK(l)'  BY <1>1, <1>3, AccountsAssumption DEF WritesOK, tables
<1>7. StatusOK(l)'  BY <1>1, <1>3 DEF StatusOK, tables
<1> QED  BY <1>2, <1>3, <1>4, <1>5, <1>6, <1>7, LocalStep

LEMMA UpsertKnownStep ==
    ASSUME IInv, NEW l \in Logins, NEW u \in Users, UpsertKnown(l, u)
    PROVE  IInv'
<1>1. CASE status[u] = "BANNED" /\ Rollback(l, "banned")
  BY <1>1, RollbackStep
<1>2. CASE /\ status[u] # "BANNED"
           /\ found' = [found EXCEPT ![l] = u]
           /\ pc' = [pc EXCEPT ![l] = "profile"]
           /\ writes' = [writes EXCEPT ![l] = @ \cup {"touchUser"}]
           /\ UNCHANGED <<tables, info, result, touched>>
  <2>1. /\ pc[l] = "upsert" /\ writes[l] = {}
        /\ info[l].account \in Accounts /\ info[l].mail \in MailsOf[info[l].account]
        /\ Exists(u) /\ email[u] = info[l].mail /\ MailFree(l, info[l].mail)
    BY DEF UpsertKnown, IInv, LoginsOK, StageOK, Running
  <2>2. TypeOK'  BY <1>2 DEF IInv, TypeOK, tables, Stages, Writes
  <2>3. /\ Local(l)
        /\ pc'[l] = "profile" /\ found'[l] = u /\ writes'[l] = {"touchUser"}
        /\ info'[l] = info[l] /\ UNCHANGED tables
    BY <1>2, <2>1 DEF IInv, TypeOK, Local
  <2>4. LocksExclusive'
    <3>1. \A m : LocksMail(l, m)' => m = info[l].mail
      BY <2>3 DEF LocksMail, MailOf, tables
    <3> QED  BY <2>1, <2>3, <3>1, LocalLocks DEF MailFree, LocksUsername, LocksAccount
  <2>5. status[u] \in {"ACTIVE", "DELETED"}
    BY <1>2, <2>1 DEF IInv, TypeOK, Statuses, Exists
  <2>6. StageOK(l)'  BY <2>1, <2>3 DEF StageOK, Running
  <2>7. WritesOK(l)'  BY <2>1, <2>3 DEF WritesOK, tables, Exists
  <2>8. StatusOK(l)'  BY <2>3, <2>5 DEF StatusOK, tables
  <2> QED  BY <2>2, <2>3, <2>4, <2>6, <2>7, <2>8, LocalStep
<1> QED  BY <1>1, <1>2 DEF UpsertKnown

LEMMA UpsertNewStep ==
    ASSUME IInv, NEW l \in Logins, NEW u \in Users, UpsertNew(l, u)
    PROVE  IInv'
<1>1. /\ pc[l] = "upsert" /\ writes[l] = {}
      /\ info[l].account \in Accounts /\ info[l].mail \in MailsOf[info[l].account]
      /\ FreshId(u) /\ MailFree(l, info[l].mail) /\ \A v \in Users : email[v] # info[l].mail
  BY DEF UpsertNew, IInv, LoginsOK, StageOK, Running
<1>2. TypeOK'  BY DEF UpsertNew, IInv, TypeOK, tables, Stages, Writes
<1>3. /\ Local(l)
      /\ pc'[l] = "profile" /\ found'[l] = u /\ writes'[l] = {"insertUser"}
      /\ info'[l] = info[l] /\ UNCHANGED tables
  BY <1>1 DEF UpsertNew, IInv, TypeOK, Local
<1>4. LocksExclusive'
  <2>1. \A m : LocksMail(l, m)' => m = info[l].mail
    BY <1>3 DEF LocksMail, MailOf, tables
  <2> QED
    BY <1>1, <1>3, <2>1, LocalLocks DEF MailFree, FreshId, LocksUsername, LocksAccount
<1>5. StageOK(l)'  BY <1>1, <1>3 DEF StageOK, Running
<1>6. WritesOK(l)'  BY <1>1, <1>3 DEF WritesOK, tables, Exists, FreshId
<1>7. StatusOK(l)'  BY <1>3 DEF StatusOK, tables
<1> QED  BY <1>2, <1>3, <1>4, <1>5, <1>6, <1>7, LocalStep

LEMMA InsertProfileStep ==
    ASSUME IInv, NEW l \in Logins, InsertProfile(l)
    PROVE  IInv'
<1> DEFINE u == found[l]
<1>1. /\ pc[l] = "profile" /\ u \in Users
      /\ writes[l] = {"insertUser"} \/ writes[l] = {"touchUser"}
      /\ info[l].account \in Accounts /\ info[l].mail \in MailsOf[info[l].account]
      /\ "insertUser" \in writes[l] => ~Exists(u) /\ \A v \in Users : email[v] # info[l].mail
      /\ "touchUser" \in writes[l] => /\ Exists(u) /\ email[u] = info[l].mail
                                      /\ status[u] \in {"ACTIVE", "DELETED"}
      /\ u \in profiled <=> Exists(u)
  BY DEF InsertProfile, IInv, LoginsOK, StageOK, WritesOK, StatusOK, Running, RowsOK
<1>2. CASE /\ u \in profiled
           /\ pc' = [pc EXCEPT ![l] = "identity"]
           /\ UNCHANGED <<tables, info, found, writes, result, touched>>
  <2>1. TypeOK'  BY <1>2 DEF IInv, TypeOK, tables, Stages
  <2>2. /\ Local(l) /\ pc'[l] = "identity" /\ writes'[l] = {"touchUser"}
        /\ UNCHANGED <<tables, info, found, writes>>
    BY <1>1, <1>2 DEF IInv, TypeOK, Local
  <2>3. LocksExclusive'
    BY <2>2 DEF IInv, LocksExclusive, LocksMail, LocksUsername, LocksAccount, WritesUser,
                MailOf, tables
  <2>4. StageOK(l)'  BY <1>1, <2>2 DEF StageOK, Running
  <2>5. WritesOK(l)'  BY <1>1, <2>2 DEF WritesOK, tables, Exists
  <2>6. StatusOK(l)'  BY <1>1, <2>2 DEF StatusOK, tables
  <2> QED  BY <2>1, <2>2, <2>3, <2>4, <2>5, <2>6, LocalStep
<1>3. CASE Rollback(l, "error")
  BY <1>3, RollbackStep
<1>4. CASE /\ u \notin profiled
           /\ \A v \in profiled : Username[v] # Username[u]
           /\ UsernameFree(l, Username[u])
           /\ pc' = [pc EXCEPT ![l] = "identity"]
           /\ writes' = [writes EXCEPT ![l] = @ \cup {"insertProfile"}]
           /\ UNCHANGED <<tables, info, found, result, touched>>
  <2>1. TypeOK'  BY <1>4 DEF IInv, TypeOK, tables, Stages, Writes
  <2>2. /\ Local(l)
        /\ pc'[l] = "identity" /\ writes'[l] = {"insertUser", "insertProfile"}
        /\ writes[l] = {"insertUser"} /\ UNCHANGED <<tables, info, found>>
    BY <1>1, <1>4 DEF IInv, TypeOK, Local
  <2>3. LocksExclusive'
    <3>1. /\ \A m : LocksMail(l, m)' => LocksMail(l, m)
          /\ \A n : LocksUsername(l, n)' => n = Username[u]
          /\ \A a : ~LocksAccount(l, a)'
          /\ "insertUser" \in writes[l]
      BY <2>2 DEF LocksMail, LocksUsername, LocksAccount, WritesUser, MailOf, tables
    <3> QED  BY <1>4, <2>2, <3>1, LocalLocks DEF UsernameFree, IInv, LocksExclusive
  <2>4. StageOK(l)'  BY <1>1, <2>2 DEF StageOK, Running
  <2>5. WritesOK(l)'  BY <1>1, <1>4, <2>2 DEF WritesOK, tables, Exists
  <2>6. StatusOK(l)'  BY <2>2 DEF StatusOK, tables
  <2> QED  BY <2>1, <2>2, <2>3, <2>4, <2>5, <2>6, LocalStep
<1> QED  BY <1>2, <1>3, <1>4 DEF InsertProfile

LEMMA InsertIdentityStep ==
    ASSUME IInv, NEW l \in Logins, InsertIdentity(l)
    PROVE  IInv'
<1> DEFINE a == info[l].account
<1>1. /\ pc[l] = "identity" /\ a \in Accounts /\ info[l].mail \in MailsOf[a]
      /\ writes[l] = {"insertUser", "insertProfile"} \/ writes[l] = {"touchUser"}
      /\ identity[a] # None \/ AccountFree(l, a)
      /\ WritesOK(l) /\ StatusOK(l)
  BY DEF InsertIdentity, IInv, LoginsOK, StageOK, Running
<1>2. TypeOK'  BY DEF InsertIdentity, IInv, TypeOK, tables, Stages, Writes
<1>3. /\ Local(l) /\ pc'[l] = "commit" /\ UNCHANGED <<tables, info, found, touched>>
      /\ writes'[l] = IF identity[a] = None THEN writes[l] \cup {"insertIdentity"}
                      ELSE writes[l]
  BY DEF InsertIdentity, IInv, TypeOK, Local
<1>4. LocksExclusive'
  <2>1. /\ \A m : LocksMail(l, m)' => LocksMail(l, m)
        /\ \A n : LocksUsername(l, n)' => LocksUsername(l, n)
        /\ \A b : LocksAccount(l, b)' => b = a /\ identity[a] = None
        /\ "insertUser" \in writes'[l] => "insertUser" \in writes[l]
    BY <1>1, <1>3 DEF LocksMail, LocksUsername, LocksAccount, WritesUser, MailOf, tables
  <2> QED  BY <1>1, <1>3, <2>1, LocalLocks DEF AccountFree, IInv, LocksExclusive
<1>5. StageOK(l)'  BY <1>1, <1>3 DEF StageOK, Running
<1>6. WritesOK(l)'  BY <1>1, <1>3 DEF WritesOK, tables, Exists
<1>7. StatusOK(l)'  BY <1>1, <1>3 DEF StatusOK, tables
<1> QED  BY <1>2, <1>3, <1>4, <1>5, <1>6, <1>7, LocalStep
-----------------------------------------------------------------------------
(* The commit, the one step of a login that the others can see.  *)

\* The new rows, one by one.
LEMMA CommitRows ==
    ASSUME IInv, NEW l \in Logins, NEW r, Commit(l, r)
    PROVE  /\ \A v \in Users \ {found[l]} : status'[v] = status[v] /\ email'[v] = email[v]
           /\ status'[found[l]] = IF writes[l] \cap {"insertUser", "setActive"} # {}
                                  THEN "ACTIVE" ELSE status[found[l]]
           /\ email'[found[l]] = IF "insertUser" \in writes[l]
                                 THEN info[l].mail ELSE email[found[l]]
           /\ profiled' = IF "insertProfile" \in writes[l]
                          THEN profiled \cup {found[l]} ELSE profiled
           /\ \A b \in Accounts \ {info[l].account} : identity'[b] = identity[b]
           /\ identity'[info[l].account] = IF "insertIdentity" \in writes[l]
                                           THEN found[l] ELSE identity[info[l].account]
<1>1. pc[l] = "commit" /\ Apply(l)  BY DEF Commit
<1>2. found[l] \in Users /\ info[l].account \in Accounts  BY <1>1, CommitFound
<1> QED  BY <1>1, <1>2 DEF Apply, IInv, TypeOK

\* The other logins keep their state, but note a change of status.
LEMMA CommitOthers ==
    ASSUME IInv, NEW l \in Logins, NEW r, Commit(l, r)
    PROVE  /\ pc'[l] = "idle" /\ writes'[l] = {} /\ found'[l] = None /\ touched'[l] = {}
           /\ result'[l] = r /\ info' = info
           /\ \A k \in Logins \ {l} :
                 /\ pc'[k] = pc[k] /\ found'[k] = found[k] /\ writes'[k] = writes[k]
                 /\ result'[k] = result[k] /\ touched[k] \subseteq touched'[k]
                 /\ ~Searched(k) => touched'[k] = touched[k]
                 /\ Searched(k) => \A v \in Users : status'[v] # status[v] => v \in touched'[k]
<1> DEFINE S == {u \in Users : status'[u] # status[u]}
<1>1. Finish(l, r, S)  BY DEF Commit
<1>2. Note(S) \in [Logins -> SUBSET Users]  BY NoteType DEF IInv
<1>3. \A k \in Logins : Note(S)[k] = IF Searched(k) THEN touched[k] \cup S ELSE touched[k]
  BY DEF Note
<1> QED  BY <1>1, <1>2, <1>3 DEF Finish, IInv, TypeOK, Running, Searched

\* What the committing login knows, by the path it took.
LEMMA CommitPaths ==
    ASSUME IInv, NEW l \in Logins, pc[l] = "commit"
    PROVE  /\ StageOK(l) /\ WritesOK(l) /\ StatusOK(l)
           /\ \/ /\ writes[l] \in {{}, {"setActive"}}
                 /\ found[l] = identity[info[l].account] /\ Exists(found[l])
              \/ /\ writes[l] \ {"insertIdentity"} = {"touchUser"}
                 /\ Exists(found[l]) /\ email[found[l]] = info[l].mail
              \/ /\ writes[l] \ {"insertIdentity"} = {"insertUser", "insertProfile"}
                 /\ ~Exists(found[l])
<1>1. found[l] \in Users /\ info[l].account \in Accounts  BY CommitFound
<1>2. StageOK(l) /\ WritesOK(l) /\ StatusOK(l)  BY DEF IInv, LoginsOK
<1>3. CASE writes[l] \in {{}, {"setActive"}}
  <2>1. found[l] = identity[info[l].account]  BY <1>2, <1>3 DEF WritesOK
  <2> QED
    BY <1>1, <1>2, <1>3, <2>1, AccountsAssumption DEF IInv, RowsOK, AccountsComplete
<1>4. CASE writes[l] \ {"insertIdentity"} = {"touchUser"}
  BY <1>2, <1>4 DEF WritesOK
<1>5. CASE writes[l] \ {"insertIdentity"} = {"insertUser", "insertProfile"}
  BY <1>2, <1>5 DEF WritesOK
<1> QED  BY <1>2, <1>3, <1>4, <1>5 DEF StageOK

LEMMA CommitKeepsRows ==
    ASSUME IInv, NEW l \in Logins, NEW r, Commit(l, r)
    PROVE  RowsOK'
<1> DEFINE u == found[l]  a == info[l].account  m == info[l].mail
<1>1. pc[l] = "commit"  BY DEF Commit
<1>2. u \in Users /\ a \in Accounts /\ m \in MailsOf[a] /\ m \in Mails /\ m # None
  BY <1>1, CommitFound, AccountsAssumption
<1>3. RowsOK /\ StageOK(l) /\ WritesOK(l)  BY <1>1, CommitPaths DEF IInv
<1>4. CASE "insertUser" \in writes[l]
  <2>1. /\ ~Exists(u) /\ "insertProfile" \in writes[l]
        /\ \A v \in Users : email[v] # m
        /\ \A v \in profiled : Username[v] # Username[u]
        /\ "insertIdentity" \in writes[l] => identity[a] = None
    BY <1>1, <1>3, <1>4 DEF StageOK, WritesOK
  <2>2. /\ \A v \in Users \ {u} : status'[v] = status[v] /\ email'[v] = email[v]
        /\ status'[u] = "ACTIVE" /\ email'[u] = m /\ profiled' = profiled \cup {u}
        /\ \A b \in Accounts \ {a} : identity'[b] = identity[b]
        /\ identity'[a] = u \/ identity'[a] = identity[a]
    BY <1>4, <2>1, CommitRows
  <2>3. \A v \in Users : (Exists(v)' <=> email'[v] # None) /\ (Exists(v)' <=> v \in profiled')
    BY <1>2, <1>3, <2>2 DEF RowsOK, Exists
  <2>4. ASSUME NEW b \in Accounts, identity'[b] # None
        PROVE  Exists(identity[b])' /\ email'[identity'[b]] \in MailsOf[b]
    <3>1. CASE b = a /\ identity'[a] = u  BY <1>2, <2>2, <3>1 DEF Exists
    <3>2. CASE identity'[b] = identity[b]
      <4>1. identity[b] \in Users \ {u} /\ Exists(identity[b]) /\ email[identity[b]] \in MailsOf[b]
        BY <1>3, <2>1, <2>4, <3>2 DEF RowsOK, AccountsComplete, IInv, TypeOK
      <4> QED  BY <2>2, <3>2, <4>1 DEF Exists
    <3> QED  BY <2>2, <3>1, <3>2
  <2>5. ASSUME NEW v \in Users, NEW w \in Users, v # w
        PROVE  /\ Exists(v)' /\ Exists(w)' => email'[v] # email'[w]
               /\ v \in profiled' /\ w \in profiled' => Username[v] # Username[w]
    BY <1>3, <2>1, <2>2, <2>5 DEF RowsOK, UsersDistinct, Exists
  <2> QED  BY <2>3, <2>4, <2>5 DEF RowsOK, AccountsComplete, UsersDistinct
<1>5. CASE "insertUser" \notin writes[l]
  <2>1. /\ Exists(u) /\ "insertProfile" \notin writes[l]
        /\ "insertIdentity" \in writes[l] => email[u] = m
    BY <1>1, <1>5, CommitPaths
  <2>2. /\ \A v \in Users : email'[v] = email[v] /\ (Exists(v)' <=> Exists(v))
        /\ profiled' = profiled
        /\ \A b \in Accounts \ {a} : identity'[b] = identity[b]
        /\ \/ identity'[a] = identity[a]
           \/ identity'[a] = u /\ email[u] = m
    <3>1. /\ status'[u] \in {"ACTIVE", status[u]} /\ email'[u] = email[u]
          /\ profiled' = profiled
      BY <1>5, <2>1, CommitRows
    <3>2. \A v \in Users : email'[v] = email[v] /\ (Exists(v)' <=> Exists(v))
      BY <1>2, <2>1, <3>1, CommitRows DEF Exists
    <3>3. identity'[a] = identity[a] \/ (identity'[a] = u /\ email[u] = m)
      BY <2>1, CommitRows
    <3>4. \A b \in Accounts \ {a} : identity'[b] = identity[b]
      BY CommitRows
    <3> QED  BY <3>1, <3>2, <3>3, <3>4
  <2>3. \A v \in Users : (Exists(v)' <=> email'[v] # None) /\ (Exists(v)' <=> v \in profiled')
    BY <1>3, <2>2 DEF RowsOK
  <2>4. ASSUME NEW b \in Accounts, identity'[b] # None
        PROVE  Exists(identity[b])' /\ email'[identity'[b]] \in MailsOf[b]
    <3>1. \/ identity'[b] = u /\ b = a /\ email[u] = m
          \/ identity'[b] = identity[b] /\ identity[b] \in Users
      BY <2>2, <2>4 DEF IInv, TypeOK
    <3>2. identity'[b] \in Users /\ Exists(identity'[b]) /\ email[identity'[b]] \in MailsOf[b]
      BY <1>2, <1>3, <2>1, <2>4, <3>1 DEF RowsOK, AccountsComplete
    <3> QED  BY <2>2, <3>2 DEF Exists
  <2>5. UsersDistinct'
    BY <1>3, <2>2 DEF RowsOK, UsersDistinct
  <2> QED  BY <1>3, <2>2, <2>3, <2>4, <2>5 DEF RowsOK, AccountsComplete
<1> QED  BY <1>4, <1>5

LEMMA CommitKeepsLocks ==
    ASSUME IInv, NEW l \in Logins, NEW r, Commit(l, r)
    PROVE  LocksExclusive'
<1>1. pc[l] = "commit"  BY DEF Commit
<1>2. ASSUME NEW k \in Logins \ {l}
      PROVE  /\ \A m : LocksMail(k, m)' <=> LocksMail(k, m)
             /\ \A n : LocksUsername(k, n)' <=> LocksUsername(k, n)
             /\ \A a : LocksAccount(k, a)' <=> LocksAccount(k, a)
             /\ writes'[k] = writes[k] /\ found'[k] = found[k]
  <2>1. writes'[k] = writes[k] /\ found'[k] = found[k] /\ info'[k] = info[k]
    BY CommitOthers
  <2>2. ASSUME "setActive" \in writes[k]  PROVE  email'[found[k]] = email[found[k]]
    <3>1. pc[k] = "commit"  BY <2>2, WritesTell
    <3>2. found[k] \in Users /\ Exists(found[k])
      BY <2>2, <3>1, CommitPaths, CommitFound
    <3>3. "insertUser" \in writes[l] => found[l] # found[k]
      BY <1>1, <3>2, CommitPaths
    <3> QED  BY <3>2, <3>3, CommitRows
  <2> QED  BY <2>1, <2>2 DEF LocksMail, LocksUsername, LocksAccount, WritesUser, MailOf
<1>3. writes'[l] = {}  BY CommitOthers
<1> QED
  BY <1>2, <1>3 DEF IInv, LocksExclusive, LocksMail, LocksUsername, LocksAccount, WritesUser

LEMMA CommitKeepsWritesOK ==
    ASSUME IInv, NEW l \in Logins, NEW r, Commit(l, r), NEW k \in Logins \ {l}
    PROVE  WritesOK(k)'
<1> DEFINE u == found[l]  a == info[l].account  m == info[l].mail
<1>1. /\ pc[l] = "commit" /\ StageOK(l) /\ WritesOK(l) /\ StageOK(k) /\ WritesOK(k)
      /\ u \in Users /\ a \in Accounts /\ m \in Mails
  BY CommitFound DEF Commit, IInv, LoginsOK
<1>2. /\ pc'[k] = pc[k] /\ found'[k] = found[k] /\ writes'[k] = writes[k]
      /\ info'[k] = info[k]
  BY CommitOthers
<1>3. \A b \in Accounts : identity[b] # None => identity'[b] = identity[b]
  BY <1>1, CommitRows DEF WritesOK
<1>4. \A v \in Users : Exists(v) => Exists(v)' /\ email'[v] = email[v]
  <2>1. \A v \in Users \ {u} : status'[v] = status[v] /\ email'[v] = email[v]
    BY CommitRows
  <2>2. status'[u] \in {"ACTIVE", status[u]}  BY CommitRows
  <2>3. Exists(u) => email'[u] = email[u]  BY <1>1, CommitRows DEF WritesOK
  <2> QED  BY <2>1, <2>2, <2>3 DEF Exists
<1>5. ASSUME pc[k] = "reactivate" \/ (pc[k] = "commit" /\ writes[k] \in {{}, {"setActive"}})
      PROVE  found[k] \in Users /\ found[k] = identity'[info[k].account]
  <2>1. found[k] \in Users /\ found[k] = identity[info[k].account] /\ info[k].account \in Accounts
    BY <1>1, <1>5 DEF WritesOK, StageOK, Running
  <2> QED  BY <1>3, <2>1, AccountsAssumption
<1>6. ASSUME "insertUser" \in writes[k]
      PROVE  /\ found[k] \in Users /\ ~Exists(found[k])'
             /\ \A v \in Users : email'[v] # info[k].mail
  <2>1. found[k] \in Users /\ ~Exists(found[k]) /\ \A v \in Users : email[v] # info[k].mail
    BY <1>1, <1>6 DEF WritesOK
  <2>2. u # found[k]
    <3>1. CASE "insertUser" \in writes[l]  BY <1>6, <3>1 DEF IInv, LocksExclusive
    <3>2. CASE "insertUser" \notin writes[l]  BY <1>1, <2>1, <3>2, CommitPaths
    <3> QED  BY <3>1, <3>2
  <2>3. ASSUME "insertUser" \in writes[l], m = info[k].mail  PROVE  FALSE
    <3>1. "setActive" \notin writes[k] /\ "setActive" \notin writes[l]
      BY <1>6, <2>3, WritesTell
    <3>2. LocksMail(k, m) /\ LocksMail(l, m)
      BY <1>6, <2>3, <3>1 DEF LocksMail, WritesUser, MailOf
    <3> QED  BY <1>1, <3>2 DEF IInv, LocksExclusive
  <2>4. \A v \in Users : email'[v] # info[k].mail
    BY <1>1, <2>1, <2>3, CommitRows
  <2>5. status'[found[k]] = status[found[k]]  BY <2>1, <2>2, CommitRows
  <2> QED  BY <1>2, <2>1, <2>4, <2>5 DEF Exists
<1>7. ASSUME "touchUser" \in writes[k]
      PROVE  /\ found[k] \in Users /\ Exists(found[k])'
             /\ email'[found[k]] = info[k].mail
  <2>1. found[k] \in Users /\ Exists(found[k]) /\ email[found[k]] = info[k].mail
    BY <1>1, <1>7 DEF WritesOK
  <2> QED  BY <1>2, <1>4, <2>1 DEF Exists
<1>8. ASSUME "insertProfile" \in writes[k]
      PROVE  \A v \in profiled' : Username[v] # Username[found[k]]
  <2>1. /\ \A v \in profiled : Username[v] # Username[found[k]]
        /\ "insertUser" \in writes[k] /\ found[k] \in Users
    BY <1>1, <1>8, WritesTell DEF WritesOK
  <2>2. "insertProfile" \in writes[l] => Username[u] # Username[found[k]]
    <3>1. Username[u] \in Usernames  BY <1>1, AccountsAssumption
    <3> QED  BY <1>8, <3>1 DEF IInv, LocksExclusive, LocksUsername
  <2> QED  BY <2>1, <2>2, CommitRows
<1>9. ASSUME "insertIdentity" \in writes[k]
      PROVE  identity'[info[k].account] = None
  <2>1. identity[info[k].account] = None /\ info[k].account \in Accounts
    BY <1>1, <1>9, WritesTell DEF WritesOK, StageOK
  <2>2. "insertIdentity" \in writes[l] => a # info[k].account
    BY <1>1, <1>9 DEF IInv, LocksExclusive, LocksAccount
  <2> QED  BY <1>1, <2>1, <2>2, CommitRows
<1>10. ASSUME pc[k] = "commit", "insertIdentity" \notin writes[k]
       PROVE  identity'[info[k].account] # None
  <2>1. identity[info[k].account] # None /\ info[k].account \in Accounts
    BY <1>1, <1>10 DEF WritesOK, StageOK, Running
  <2> QED  BY <1>3, <2>1
<1> QED
  BY <1>2, <1>5, <1>6, <1>7, <1>8, <1>9, <1>10 DEF WritesOK, Exists

LEMMA CommitKeepsStatusOK ==
    ASSUME IInv, NEW l \in Logins, NEW r, Commit(l, r), NEW k \in Logins \ {l}
    PROVE  StatusOK(k)'
<1>1. /\ pc'[k] = pc[k] /\ found'[k] = found[k] /\ writes'[k] = writes[k]
      /\ touched[k] \subseteq touched'[k]
      /\ Searched(k) => \A v \in Users : status'[v] # status[v] => v \in touched'[k]
  BY CommitOthers
<1>2. StatusOK(k) /\ WritesOK(k) /\ StageOK(k)  BY DEF IInv, LoginsOK
<1>3. ASSUME pc[k] = "reactivate" \/ "setActive" \in writes[k]
      PROVE  status'[found[k]] = "DELETED" \/ found[k] \in touched'[k]
  <2>1. found[k] \in Users /\ Searched(k)
    BY <1>2, <1>3, WritesTell DEF WritesOK, Searched
  <2> QED  BY <1>1, <1>2, <1>3, <2>1 DEF StatusOK
<1>4. ASSUME pc[k] = "commit", writes[k] = {}
      PROVE  status'[found[k]] = "ACTIVE" \/ found[k] \in touched'[k]
  <2>1. found[k] \in Users /\ Searched(k)  BY <1>2, <1>4 DEF WritesOK, Searched
  <2> QED  BY <1>1, <1>2, <1>4, <2>1 DEF StatusOK
<1>5. ASSUME "touchUser" \in writes[k]
      PROVE  status'[found[k]] \in {"ACTIVE", "DELETED"}
  <2>1. found[k] \in Users /\ status[found[k]] \in {"ACTIVE", "DELETED"}
    BY <1>2, <1>5 DEF WritesOK, StatusOK
  <2> QED  BY <2>1, CommitRows
<1> QED  BY <1>1, <1>3, <1>4, <1>5 DEF StatusOK

LEMMA CommitStep ==
    ASSUME IInv, NEW l \in Logins, NEW r \in {found[l], "error"}, Commit(l, r)
    PROVE  IInv'
<1>1. pc[l] = "commit"  BY DEF Commit
<1>2. r \in Outcomes  BY <1>1, CommitFound DEF Outcomes
<1>3. TypeOK'  BY <1>1, <1>2, CommitFound, CommitType DEF IInv
<1>4. RowsOK' /\ LocksExclusive'  BY CommitKeepsRows, CommitKeepsLocks
<1>5. (StageOK(l) /\ WritesOK(l) /\ StatusOK(l))'
  BY CommitOthers DEF StageOK, WritesOK, StatusOK, Running
<1>6. ASSUME NEW k \in Logins \ {l}  PROVE  (StageOK(k) /\ WritesOK(k) /\ StatusOK(k))'
  <2>1. StageOK(k)'
    BY CommitOthers DEF IInv, LoginsOK, StageOK, Running, Searched
  <2> QED  BY <2>1, CommitKeepsWritesOK, CommitKeepsStatusOK
<1> QED  BY <1>3, <1>4, <1>5, <1>6 DEF IInv, LoginsOK
-----------------------------------------------------------------------------
(* An operator changes a status behind the logins' back.  *)

LEMMA ModerateStep ==
    ASSUME IInv, NEW u \in Users, NEW s \in Statuses, Moderate(u, s)
    PROVE  IInv'
<1>1. /\ UNCHANGED <<email, profiled, identity, pc, info, found, writes, result>>
      /\ status' = [status EXCEPT ![u] = s] /\ touched' = Note({u})
      /\ \A k \in Logins : ~LocksMail(k, email[u])
      /\ Exists(u)
  BY DEF Moderate
<1>2. TypeOK'  BY <1>1, NoteType DEF IInv, TypeOK
<1>3. /\ status'[u] = s /\ s # "absent" /\ \A v \in Users \ {u} : status'[v] = status[v]
      /\ \A v \in Users : Exists(v)' <=> Exists(v)
  BY <1>1 DEF IInv, TypeOK, Exists, Statuses
<1>4. \A k \in Logins : touched'[k] = IF Searched(k) THEN touched[k] \cup {u} ELSE touched[k]
  BY <1>1 DEF Note
<1>5. RowsOK'
  <2>1. \A a \in Accounts : identity[a] # None => identity[a] \in Users
    BY DEF IInv, TypeOK
  <2>2. AccountsComplete'
    BY <1>1, <1>3, <2>1 DEF IInv, RowsOK, AccountsComplete, Exists
  <2>3. UsersDistinct'  BY <1>1, <1>3 DEF IInv, RowsOK, UsersDistinct
  <2> QED  BY <1>1, <1>3, <2>2, <2>3 DEF IInv, RowsOK
<1>6. LocksExclusive'
  BY <1>1 DEF IInv, LocksExclusive, LocksMail, LocksUsername, LocksAccount, WritesUser, MailOf
<1>7. ASSUME NEW k \in Logins  PROVE  (StageOK(k) /\ WritesOK(k) /\ StatusOK(k))'
  <2>1. StageOK(k) /\ WritesOK(k) /\ StatusOK(k)  BY DEF IInv, LoginsOK
  <2>2. StageOK(k)'  BY <1>1, <1>4, <2>1 DEF StageOK, Running, Searched
  <2>3. WritesOK(k)'  BY <1>1, <1>3, <2>1 DEF WritesOK, Exists
  <2>4. "touchUser" \in writes[k] => found[k] # u
    <3>1. "touchUser" \in writes[k] => LocksMail(k, info[k].mail)
      BY WritesTell DEF LocksMail, WritesUser, MailOf
    <3> QED  BY <1>1, <2>1, <3>1 DEF WritesOK
  <2>5. StatusOK(k)'
    <3>1. found[k] # u => status'[found[k]] = status[found[k]] \/ found[k] \notin Users
      BY <1>3
    <3>2. Searched(k) /\ found[k] = u => found[k] \in touched'[k]  BY <1>4
    <3>3. touched[k] \subseteq touched'[k]  BY <1>4
    <3>4. pc[k] = "reactivate" \/ writes[k] # {} \/ pc[k] = "commit" =>
             Searched(k) /\ found[k] \in Users
      BY <2>1, WritesTell, CommitFound DEF WritesOK, Running, Searched, StageOK, IInv, TypeOK,
                                           Stages
    <3> QED  BY <1>1, <2>1, <2>4, <3>1, <3>2, <3>3, <3>4 DEF StatusOK
  <2> QED  BY <2>2, <2>3, <2>5
<1> QED  BY <1>2, <1>5, <1>6, <1>7 DEF IInv, LoginsOK
-----------------------------------------------------------------------------
(* The induction. *)

LEMMA InitInv == Init => IInv
<1> SUFFICES ASSUME Init PROVE IInv  OBVIOUS
<1>1. TypeOK  BY InitType
<1>2. RowsOK  BY DEF Init, RowsOK, AccountsComplete, UsersDistinct, Exists
<1>3. LocksExclusive
  BY DEF Init, LocksExclusive, LocksMail, LocksUsername, LocksAccount, WritesUser
<1>4. LoginsOK  BY DEF Init, LoginsOK, StageOK, WritesOK, StatusOK, Running
<1> QED  BY <1>1, <1>2, <1>3, <1>4 DEF IInv

LEMMA StutterInv == IInv /\ UNCHANGED vars => IInv'
<1> SUFFICES ASSUME IInv, UNCHANGED vars PROVE IInv'  OBVIOUS
<1> USE DEF vars, IInv
<1>1. TypeOK'  BY DEF TypeOK
<1>2. RowsOK'  BY DEF RowsOK, AccountsComplete, UsersDistinct, Exists
<1>3. LocksExclusive'
  BY DEF LocksExclusive, LocksMail, LocksUsername, LocksAccount, WritesUser, MailOf
<1>4. LoginsOK'  BY DEF LoginsOK, StageOK, WritesOK, StatusOK, Running, Exists
<1> QED  BY <1>1, <1>2, <1>3, <1>4

LEMMA StepInv == ASSUME IInv, NEW l \in Logins, Step(l) PROVE IInv'
BY SearchStep, ReactivateStep, UpsertKnownStep, UpsertNewStep, InsertProfileStep,
   InsertIdentityStep, CommitStep DEF Step

LEMMA NextInv == IInv /\ [Next]_vars => IInv'
<1> SUFFICES ASSUME IInv, [Next]_vars PROVE IInv'  OBVIOUS
<1>1. ASSUME NEW l \in Logins, Step(l) PROVE IInv'  BY <1>1, StepInv
<1>2. ASSUME NEW l \in Logins, Fail(l) PROVE IInv'  BY <1>2, RollbackStep DEF Fail
<1>3. ASSUME NEW l \in Logins, NEW a \in Accounts, NEW m \in Mails, Begin(l, a, m)
      PROVE  IInv'
  BY <1>3, BeginStep
<1>4. ASSUME NEW u \in Users, NEW s \in Statuses, Moderate(u, s) PROVE IInv'
  BY <1>4, ModerateStep
<1> QED  BY <1>1, <1>2, <1>3, <1>4, StutterInv DEF Next

\* The strengthened invariant holds in every reachable state.
THEOREM Inductive == Spec => []IInv
BY InitInv, NextInv, PTL DEF Spec

\* Every variable keeps its type.
THEOREM TypeCorrect == Spec => []TypeOK
<1>1. IInv => TypeOK  BY DEF IInv
<1> QED  BY <1>1, Inductive, PTL

\* No request ever meets a user without a profile or an account that leads
\* nowhere, however the logins that create them overlap, fail or lose their
\* connection (pg_resolve_user_id commits 78-109 as one transaction).
THEOREM Complete == Spec => []AccountsComplete
<1>1. IInv => AccountsComplete  BY DEF IInv, RowsOK
<1> QED  BY <1>1, Inductive, PTL

\* Two users never share an address or a username.
THEOREM Distinct == Spec => []UsersDistinct
<1>1. IInv => UsersDistinct  BY DEF IInv, RowsOK
<1> QED  BY <1>1, Inductive, PTL
-----------------------------------------------------------------------------
(* What a step may never do.  *)

\* Only a commit and an operator change a table.
LEMMA TablesChange ==
    ASSUME IInv, [Next]_vars
    PROVE  \/ UNCHANGED tables
           \/ \E l \in Logins, r \in Outcomes : Commit(l, r)
           \/ \E u \in Users, s \in Statuses : Moderate(u, s)
<1>1. CASE UNCHANGED vars  BY <1>1 DEF vars, tables
<1>2. ASSUME NEW l \in Logins, Step(l)
      PROVE  UNCHANGED tables \/ \E r \in Outcomes : Commit(l, r)
  <2>1. Commit(l, found[l]) => found[l] \in Outcomes
    BY CommitFound DEF Commit, Outcomes
  <2>2. "error" \in Outcomes  BY DEF Outcomes
  <2> QED
    BY <1>2, <2>1, <2>2 DEF Step, Search, Reactivate, UpsertKnown, UpsertNew, InsertProfile,
                            InsertIdentity, Rollback
<1>3. ASSUME NEW l \in Logins, Fail(l)  PROVE  UNCHANGED tables
  BY <1>3 DEF Fail, Rollback
<1>4. ASSUME NEW l \in Logins, NEW a \in Accounts, NEW m \in Mails, Begin(l, a, m)
      PROVE  UNCHANGED tables
  BY <1>4 DEF Begin
<1> QED  BY <1>1, <1>2, <1>3, <1>4 DEF Next

\* A step ends at most the login that takes it, by commit or by rollback.
LEMMA HowLoginsEnd ==
    ASSUME IInv, [Next]_vars, NEW l \in Logins, Ends(l)
    PROVE  \/ \E r \in {found[l], "error"} : Commit(l, r)
           \/ \E r \in {"banned", "error"} : Rollback(l, r)
<1> USE DEF Ends, Running
<1>1. CASE UNCHANGED vars  BY <1>1 DEF vars
<1>2. ASSUME NEW k \in Logins, Step(k) \/ Fail(k), k # l  PROVE  FALSE
  <2>1. pc'[l] = pc[l]
    BY <1>2 DEF IInv, TypeOK, Step, Fail, Search, Reactivate, UpsertKnown, UpsertNew,
                InsertProfile, InsertIdentity, Commit, Rollback, Finish
  <2> QED  BY <2>1
<1>3. ASSUME Step(l)
      PROVE  \/ \E r \in {found[l], "error"} : Commit(l, r)
             \/ \E r \in {"banned", "error"} : Rollback(l, r)
  BY <1>3 DEF IInv, TypeOK, Step, Search, Reactivate, UpsertKnown, UpsertNew,
              InsertProfile, InsertIdentity
<1>4. ASSUME Fail(l)  PROVE  Rollback(l, "error")  BY <1>4 DEF Fail
<1>5. ASSUME NEW k \in Logins, NEW a \in Accounts, NEW m \in Mails, Begin(k, a, m)
      PROVE  FALSE
  BY <1>5 DEF Begin, IInv, TypeOK
<1>6. ASSUME NEW u \in Users, NEW s \in Statuses, Moderate(u, s)  PROVE  FALSE
  BY <1>6 DEF Moderate
<1> QED  BY <1>1, <1>2, <1>3, <1>4, <1>5, <1>6 DEF Next

LEMMA BindingsStep == ASSUME IInv, [Next]_vars PROVE KeepsBindings
<1>1. CASE UNCHANGED tables  BY <1>1 DEF tables, KeepsBindings
<1>2. ASSUME NEW l \in Logins, NEW r \in Outcomes, Commit(l, r)  PROVE  KeepsBindings
  <2>1. pc[l] = "commit" /\ info[l].account \in Accounts  BY <1>2, CommitFound DEF Commit
  <2>2. "insertIdentity" \in writes[l] => identity[info[l].account] = None
    BY <2>1, CommitPaths DEF WritesOK
  <2>3. "insertUser" \in writes[l] => email[found[l]] = None
    BY <2>1, CommitPaths, CommitFound DEF WritesOK, IInv, RowsOK
  <2> QED  BY <1>2, <2>1, <2>2, <2>3, CommitRows DEF KeepsBindings
<1>3. ASSUME NEW u \in Users, NEW s \in Statuses, Moderate(u, s)  PROVE  KeepsBindings
  BY <1>3 DEF Moderate, KeepsBindings
<1> QED  BY <1>1, <1>2, <1>3, TablesChange

LEMMA StatusStep == ASSUME IInv, [Next]_vars, NEW l \in Logins PROVE HonoursStatus(l)
<1> SUFFICES ASSUME Ends(l), result'[l] \in Users \ touched[l]
             PROVE  \/ status'[result'[l]] = "ACTIVE"
                    \/ status'[result'[l]] = "DELETED" /\ "touchUser" \in writes[l]
  BY DEF HonoursStatus
<1>1. ASSUME NEW r \in {"banned", "error"}, Rollback(l, r)  PROVE  FALSE
  BY <1>1, RollbackLocal, AccountsAssumption DEF IInv
<1>2. ASSUME NEW r \in {found[l], "error"}, Commit(l, r)
      PROVE  \/ status'[found[l]] = "ACTIVE"
             \/ status'[found[l]] = "DELETED" /\ "touchUser" \in writes[l]
  <2>1. pc[l] = "commit"  BY <1>2 DEF Commit
  <2>2. result'[l] = found[l] /\ found[l] \notin touched[l]
    BY <1>2, CommitOthers, AccountsAssumption
  <2>3. CASE writes[l] \cap {"insertUser", "setActive"} # {}
    BY <1>2, <2>3, CommitRows
  <2>4. CASE writes[l] \cap {"insertUser", "setActive"} = {}
    <3>1. status'[found[l]] = status[found[l]]  BY <1>2, <2>4, CommitRows
    <3>2. CASE writes[l] = {}
      BY <2>1, <2>2, <3>1, <3>2, CommitPaths DEF StatusOK
    <3>3. CASE "touchUser" \in writes[l]
      BY <2>1, <3>1, <3>3, CommitPaths DEF StatusOK
    <3>4. writes[l] = {} \/ "touchUser" \in writes[l]
      BY <2>1, <2>4, CommitPaths
    <3> QED  BY <3>2, <3>3, <3>4
  <2> QED  BY <2>3, <2>4
<1>3. ASSUME NEW r \in {found[l], "error"}, Commit(l, r)  PROVE  result'[l] = found[l]
  BY <1>3, CommitOthers, AccountsAssumption
<1> QED  BY <1>1, <1>2, <1>3, HowLoginsEnd

LEMMA BanStep == ASSUME IInv, [Next]_vars, NEW l \in Logins PROVE LiftsOnlyStale(l)
<1> SUFFICES ASSUME Ends(l), NEW u \in Users, status[u] = "BANNED", status'[u] # "BANNED"
             PROVE  found[l] = u /\ u \in touched[l]
  BY DEF LiftsOnlyStale
<1>1. ASSUME NEW r \in {"banned", "error"}, Rollback(l, r)  PROVE  FALSE
  BY <1>1 DEF Rollback, tables
<1>2. ASSUME NEW r \in {found[l], "error"}, Commit(l, r)
      PROVE  found[l] = u /\ u \in touched[l]
  <2>1. pc[l] = "commit"  BY <1>2 DEF Commit
  <2>2. found[l] = u /\ writes[l] \cap {"insertUser", "setActive"} # {}
    BY <1>2, CommitRows
  <2>3. "insertUser" \notin writes[l]  BY <2>1, <2>2, CommitPaths DEF Exists
  <2> QED  BY <2>1, <2>2, <2>3, CommitPaths DEF StatusOK
<1> QED  BY <1>1, <1>2, HowLoginsEnd

\* Once bound, always bound to the same user (the ON CONFLICT DO NOTHING of the
\* identity insert, 96-109), and addresses are for life.
THEOREM Stable == Spec => BindingsStable
<1>1. IInv /\ [Next]_vars => [KeepsBindings]_vars  BY BindingsStep
<1> QED  BY <1>1, Inductive, PTL DEF Spec, BindingsStable

\* The status checks of pg_resolve_user_id (64-72, 82-83) hold for the answer,
\* not only for the row that was read, unless somebody else intervened.
THEOREM StatusRespected == Spec => StatusHonoured
<1>1. IInv /\ [Next]_vars => [\A l \in Logins : HonoursStatus(l)]_vars  BY StatusStep
<1> QED  BY <1>1, Inductive, PTL DEF Spec, StatusHonoured

\* A ban is undone by a login only when it came after the login's search.
THEOREM BansLast == Spec => BanLiftedOnlyByStaleRead
<1>1. IInv /\ [Next]_vars => [\A l \in Logins : LiftsOnlyStale(l)]_vars  BY BanStep
<1> QED  BY <1>1, Inductive, PTL DEF Spec, BanLiftedOnlyByStaleRead
-----------------------------------------------------------------------------
(* The answer of a login and the rows agree, now and later.  *)

\* A login with an answer knows its account.
InfoOK == \A l \in Logins : result[l] \in Users => info[l].account \in Accounts

LEMMA AnswerKept ==
    ASSUME IInv, InfoOK, NEW l \in Logins, AnswerOK(l), KeepsBindings,
           result'[l] = result[l], info'[l] = info[l]
    PROVE  AnswerOK(l)' /\ (result'[l] \in Users => info'[l].account \in Accounts)
<1> SUFFICES ASSUME result[l] \in Users  PROVE AnswerOK(l)' /\ info'[l].account \in Accounts
  BY DEF AnswerOK, InfoOK
<1> DEFINE owner == identity[info[l].account]
<1>1. /\ info[l].account \in Accounts /\ owner # None /\ owner \in Users
      /\ owner = result[l] \/ email[owner] # info[l].mail
  BY DEF AnswerOK, InfoOK, IInv, TypeOK
<1>2. email[owner] # None  BY <1>1 DEF IInv, RowsOK, AccountsComplete
<1>3. identity'[info[l].account] = owner /\ email'[owner] = email[owner]
  BY <1>1, <1>2 DEF KeepsBindings
<1> QED  BY <1>1, <1>3 DEF AnswerOK

LEMMA CommitAnswer ==
    ASSUME IInv, NEW l \in Logins, NEW r \in {found[l], "error"}, Commit(l, r)
    PROVE  AnswerOK(l)' /\ info'[l].account \in Accounts
<1> DEFINE u == found[l]  a == info[l].account  m == info[l].mail
<1>1. /\ pc[l] = "commit" /\ u \in Users /\ a \in Accounts /\ m \in Mails
      /\ info' = info /\ result'[l] = r /\ WritesOK(l)
  BY CommitFound, CommitPaths, CommitOthers DEF Commit
<1>2. CASE "insertIdentity" \in writes[l]
  <2>1. identity'[a] = u /\ u # None  BY <1>1, <1>2, CommitRows, AccountsAssumption
  <2> QED  BY <1>1, <2>1, AccountsAssumption DEF AnswerOK
<1>3. CASE "insertIdentity" \notin writes[l]
  <2>1. /\ identity'[a] = identity[a] /\ identity[a] \in Users
        /\ Exists(identity[a])
    BY <1>1, <1>3, CommitRows DEF WritesOK, IInv, TypeOK, RowsOK, AccountsComplete
  <2>2. identity[a] = u \/ email[identity[a]] # m
    <3>1. CASE writes[l] \in {{}, {"setActive"}}  BY <1>1, <3>1, CommitPaths
    <3>2. CASE "touchUser" \in writes[l]
      <4>1. Exists(u) /\ email[u] = m  BY <1>1, <3>2 DEF WritesOK
      <4> QED  BY <1>1, <2>1, <4>1 DEF IInv, RowsOK, UsersDistinct
    <3>3. CASE "insertUser" \in writes[l]  BY <1>1, <2>1, <3>3 DEF WritesOK
    <3> QED  BY <1>1, <3>1, <3>2, <3>3, CommitPaths
  <2>3. identity[a] # u => email'[identity[a]] = email[identity[a]]
    BY <2>1, CommitRows
  <2> QED  BY <1>1, <2>1, <2>2, <2>3, AccountsAssumption DEF AnswerOK
<1> QED  BY <1>1, <1>2, <1>3

LEMMA AnswerStep ==
    ASSUME IInv, InfoOK, AnswerIsBound, [Next]_vars  PROVE InfoOK' /\ AnswerIsBound'
<1> SUFFICES ASSUME NEW l \in Logins
             PROVE  AnswerOK(l)' /\ (result'[l] \in Users => info'[l].account \in Accounts)
  BY DEF InfoOK, AnswerIsBound
<1>1. KeepsBindings /\ AnswerOK(l)  BY BindingsStep DEF AnswerIsBound
<1>2. CASE result'[l] = result[l] /\ info'[l] = info[l]  BY <1>1, <1>2, AnswerKept
<1>3. CASE result'[l] \notin Users  BY <1>3 DEF AnswerOK
<1>4. CASE \E r \in {found[l], "error"} : Commit(l, r)  BY <1>4, CommitAnswer
<1>5. \/ result'[l] = result[l] /\ info'[l] = info[l]
      \/ result'[l] \notin Users
      \/ \E r \in {found[l], "error"} : Commit(l, r)
  <2>1. CASE UNCHANGED vars  BY <2>1 DEF vars
  <2>2. ASSUME NEW k \in Logins, Step(k) \/ Fail(k), k # l
        PROVE  result'[l] = result[l] /\ info'[l] = info[l]
    BY <2>2 DEF IInv, TypeOK, Step, Fail, Search, Reactivate, UpsertKnown, UpsertNew,
                InsertProfile, InsertIdentity, Commit, Rollback, Finish
  <2>3. ASSUME NEW r \in {"banned", "error"}, Rollback(l, r)  PROVE  result'[l] \notin Users
    BY <2>3, RollbackLocal, AccountsAssumption DEF IInv
  <2>4. CASE Step(l) \/ Fail(l)
    BY <2>3, <2>4 DEF Step, Fail, Search, Reactivate, UpsertKnown, UpsertNew,
                      InsertProfile, InsertIdentity
  <2>5. ASSUME NEW k \in Logins, NEW a \in Accounts, NEW m \in Mails, Begin(k, a, m)
        PROVE  \/ result'[l] = result[l] /\ info'[l] = info[l]
               \/ result'[l] \notin Users
    BY <2>5, AccountsAssumption DEF Begin, IInv, TypeOK
  <2>6. ASSUME NEW u \in Users, NEW s \in Statuses, Moderate(u, s)
        PROVE  result'[l] = result[l] /\ info'[l] = info[l]
    BY <2>6 DEF Moderate
  <2> QED  BY <2>1, <2>2, <2>4, <2>5, <2>6 DEF Next
<1> QED  BY <1>2, <1>3, <1>4, <1>5

\* What a login has answered stays true: the account is bound, and to the user
\* of the answer unless that is one with another address.
THEOREM AnswersBound == Spec => []AnswerIsBound
<1>1. Init => InfoOK /\ AnswerIsBound
  BY AccountsAssumption DEF Init, InfoOK, AnswerIsBound, AnswerOK
<1>2. IInv /\ InfoOK /\ AnswerIsBound /\ [Next]_vars => (InfoOK /\ AnswerIsBound)'
  BY AnswerStep
<1> QED  BY <1>1, <1>2, Inductive, PTL DEF Spec
-----------------------------------------------------------------------------
(* The abstract directory keeps what it promises, for every set of accounts *)
(* and users.                                                               *)

\* Reachable needs OwnersExist: a user is left without an account only when its
\* account leads elsewhere, to a user with another address of that account.
DirInv ==
    /\ email \in [Users -> Mails \cup {None}]
    /\ identity \in [Accounts -> Users \cup {None}]
    /\ Dir!OwnersExist
    /\ Dir!Reachable

LEMMA DirInit == Dir!Init => DirInv
BY DEF Dir!Init, DirInv, Dir!OwnersExist, Dir!Reachable

LEMMA DirStep == DirInv /\ [Dir!Next]_(Dir!vars) => DirInv'
<1> SUFFICES ASSUME DirInv, [Dir!Next]_(Dir!vars)  PROVE DirInv'  OBVIOUS
<1> USE AccountsAssumption
<1>1. CASE UNCHANGED Dir!vars  BY <1>1 DEF Dir!vars, DirInv, Dir!OwnersExist, Dir!Reachable, Dir!Settled
<1>2. ASSUME NEW a \in Accounts, NEW u \in Users, NEW m \in MailsOf[a], Dir!Register(a, m, u)
      PROVE  DirInv'
  <2>1. /\ m \in Mails /\ u # None /\ m # None
        /\ email' \in [Users -> Mails \cup {None}] /\ identity' \in [Accounts -> Users \cup {None}]
        /\ email'[u] = m /\ identity'[a] = u /\ identity[a] = None /\ email[u] = None
        /\ \A v \in Users \ {u} : email'[v] = email[v]
        /\ \A b \in Accounts \ {a} : identity'[b] = identity[b]
    BY <1>2 DEF Dir!Register, DirInv
  <2>2. Dir!OwnersExist'
    <3> SUFFICES ASSUME NEW b \in Accounts, identity'[b] # None
                 PROVE  email'[identity'[b]] \in MailsOf[b]
      BY DEF Dir!OwnersExist
    <3>1. CASE b = a  BY <2>1, <3>1
    <3>2. CASE b # a
      <4>1. identity[b] \in Users /\ email[identity[b]] \in MailsOf[b] /\ identity'[b] = identity[b]
        BY <2>1, <3>2 DEF DirInv, Dir!OwnersExist
      <4>2. MailsOf[b] \subseteq Mails  OBVIOUS
      <4>3. identity[b] # u  BY <2>1, <4>1, <4>2
      <4> QED  BY <2>1, <4>1, <4>3
    <3> QED  BY <3>1, <3>2
  <2>3. Dir!Reachable'
    <3> SUFFICES ASSUME NEW v \in Users, email'[v] # None, Dir!Settled(email'[v])
                 PROVE  \E b \in Accounts : identity'[b] = v
      BY DEF Dir!Reachable, Dir!Settled
    <3>1. CASE v # u
      <4>1. PICK b \in Accounts : identity[b] = v  BY <2>1, <3>1 DEF DirInv, Dir!Reachable
      <4>2. b # a  BY <2>1, <4>1
      <4> QED  BY <2>1, <4>1, <4>2
    <3>2. CASE v = u  BY <2>1, <3>2
    <3> QED  BY <3>1, <3>2
  <2> QED  BY <2>1, <2>2, <2>3 DEF DirInv
<1>3. ASSUME NEW a \in Accounts, NEW u \in Users, NEW m \in MailsOf[a], Dir!Link(a, m, u)
      PROVE  DirInv'
  <2>1. /\ email' = email /\ email[u] = m /\ identity'[a] = u /\ identity[a] = None
        /\ \A b \in Accounts \ {a} : identity'[b] = identity[b]
        /\ identity' \in [Accounts -> Users \cup {None}]
    BY <1>3 DEF Dir!Link, DirInv
  <2>2. Dir!OwnersExist'  BY <2>1 DEF DirInv, Dir!OwnersExist
  <2>3. Dir!Reachable'
    <3> SUFFICES ASSUME NEW v \in Users, email[v] # None, Dir!Settled(email[v])
                 PROVE  \E b \in Accounts : identity'[b] = v
      BY <2>1 DEF Dir!Reachable, Dir!Settled
    <3>1. PICK b \in Accounts : identity[b] = v  BY DEF DirInv, Dir!Reachable
    <3>2. b # a  BY <2>1, <3>1
    <3> QED  BY <2>1, <3>1, <3>2
  <2> QED  BY <2>1, <2>2, <2>3 DEF DirInv
<1>4. ASSUME NEW a \in Accounts, NEW u \in Users, NEW m \in MailsOf[a], Dir!Strand(a, m, u)
      PROVE  DirInv'
  <2>1. /\ m \in Mails /\ m # None /\ identity' = identity /\ identity[a] # None
        /\ email' \in [Users -> Mails \cup {None}]
        /\ email'[u] = m /\ email[u] = None /\ \A v \in Users : email[v] # m
        /\ \A v \in Users \ {u} : email'[v] = email[v]
    BY <1>4 DEF Dir!Strand, Dir!Unknown, DirInv
  <2>2. ASSUME NEW b \in Accounts, identity[b] # None
        PROVE  identity[b] \in Users \ {u} /\ email[identity[b]] \in MailsOf[b]
    <3>1. identity[b] \in Users /\ email[identity[b]] \in MailsOf[b]
      BY <2>2 DEF DirInv, Dir!OwnersExist
    <3>2. MailsOf[b] \subseteq Mails  OBVIOUS
    <3> QED  BY <2>1, <3>1, <3>2
  <2>3. Dir!OwnersExist'  BY <2>1, <2>2 DEF Dir!OwnersExist
  <2>4. Dir!Reachable'
    <3> SUFFICES ASSUME NEW v \in Users, email'[v] # None, Dir!Settled(email'[v])
                 PROVE  \E b \in Accounts : identity[b] = v
      BY <2>1 DEF Dir!Reachable, Dir!Settled
    <3>1. CASE v # u  BY <2>1, <3>1 DEF DirInv, Dir!Reachable
    <3>2. CASE v = u
      <4>1. MailsOf[a] = {m}  BY <2>1, <3>2 DEF Dir!Settled
      <4>2. email[identity[a]] = m /\ identity[a] \in Users  BY <2>1, <2>2, <4>1
      <4> QED  BY <2>1, <4>2
    <3> QED  BY <3>1, <3>2
  <2> QED  BY <2>1, <2>3, <2>4 DEF DirInv
<1> QED  BY <1>1, <1>2, <1>3, <1>4 DEF Dir!Next

\* An account leads to a user who exists, with an address its provider reports.
THEOREM DirectoryOwners == Dir!Spec => []Dir!OwnersExist
<1>1. DirInv => Dir!OwnersExist  BY DEF DirInv
<1> QED  BY <1>1, DirInit, DirStep, PTL DEF Dir!Spec

\* A user with a settled address is led to by some account.
THEOREM DirectoryReachable == Dir!Spec => []Dir!Reachable
<1>1. DirInv => Dir!Reachable  BY DEF DirInv
<1> QED  BY <1>1, DirInit, DirStep, PTL DEF Dir!Spec
-----------------------------------------------------------------------------
(* Who waits for whom.  *)

\* How far a transaction is: locks are taken at 1, 2 and 3.
Position(l) == CASE pc[l] = "profile" -> 1 [] pc[l] = "identity" -> 2 [] pc[l] = "commit" -> 3
                 [] OTHER -> 0

\* A transaction waits only for one that has come further.
LEMMA WaitsUpward ==
    ASSUME IInv, NEW l \in Logins, NEW k \in WaitsFor(l)
    PROVE  Position(k) > Position(l)
<1>1. k \in Logins /\ pc[k] \in Stages /\ StageOK(k)
  BY DEF WaitsFor, IInv, TypeOK, LoginsOK
<1>2. writes[k] # {} => pc[k] \in {"profile", "identity", "commit"}
  BY <1>1 DEF StageOK, Stages
<1>3. "insertProfile" \in writes[k] => pc[k] \in {"identity", "commit"}
  BY <1>1, <1>2 DEF StageOK
<1>4. "insertIdentity" \in writes[k] => pc[k] = "commit"
  BY <1>1, WritesTell
<1>5. CASE pc[l] \in {"reactivate", "upsert"}
  <2>1. writes[k] # {}
    BY <1>5 DEF WaitsFor, LocksMail, WritesUser
  <2> QED BY <1>2, <1>5, <2>1 DEF Position
<1>6. CASE pc[l] = "profile"
  BY <1>3, <1>6 DEF WaitsFor, LocksUsername, Position
<1>7. CASE pc[l] = "identity"
  BY <1>4, <1>7 DEF WaitsFor, LocksAccount, Position
<1> QED BY <1>5, <1>6, <1>7 DEF WaitsFor

\* pg_resolve_user_id takes its locks in one order (postgres_repo.py 78-109), so
\* that any number of overlapping logins never blocks itself.
THEOREM NobodyInACircle == Spec => []NoCircle
<1>1. IInv => NoCircle
  <2> SUFFICES ASSUME IInv, NEW some \in SUBSET Logins, some # {}
               PROVE  \E l \in some : WaitsFor(l) \cap some = {}
    BY DEF NoCircle
  <2>1. \A l \in some : Position(l) \in 0..3
    BY DEF Position
  <2>2. \E l \in some : \A k \in some : Position(k) <= Position(l)
    BY <2>1
  <2>3. PICK l \in some : \A k \in some : Position(k) <= Position(l)
    BY <2>2
  <2>4. \A k \in WaitsFor(l) : Position(k) > Position(l)
    BY WaitsUpward
  <2> QED BY <2>1, <2>3, <2>4
<1> QED BY <1>1, Inductive, PTL
-----------------------------------------------------------------------------
(* The refinement.  *)

LEMMA CommitRefines ==
    ASSUME IInv, NEW l \in Logins, NEW r \in Outcomes, Commit(l, r)
    PROVE  Dir!Next \/ UNCHANGED <<email, identity>>
<1> DEFINE u == found[l]  a == info[l].account  m == info[l].mail
<1>1. /\ pc[l] = "commit" /\ u \in Users /\ a \in Accounts /\ m \in MailsOf[a] /\ m \in Mails
      /\ WritesOK(l)
  BY CommitFound, CommitPaths DEF Commit
<1>2. /\ email' = [email EXCEPT ![u] = IF "insertUser" \in writes[l] THEN m ELSE @]
      /\ identity' = [identity EXCEPT ![a] = IF "insertIdentity" \in writes[l] THEN u ELSE @]
  BY DEF Commit, Apply
<1>3. email \in [Users -> Mails \cup {None}] /\ identity \in [Accounts -> Users \cup {None}]
  BY DEF IInv, TypeOK
<1>4. CASE "insertUser" \in writes[l] /\ "insertIdentity" \in writes[l]
  <2>1. Dir!Register(a, m, u)
    BY <1>1, <1>2, <1>4 DEF Dir!Register, Dir!Unknown, WritesOK, IInv, RowsOK
  <2> QED  BY <1>1, <2>1 DEF Dir!Next
<1>5. CASE "insertUser" \in writes[l] /\ "insertIdentity" \notin writes[l]
  <2>1. identity' = identity  BY <1>1, <1>2, <1>3, <1>5
  <2>2. Dir!Strand(a, m, u)
    BY <1>1, <1>2, <1>5, <2>1 DEF Dir!Strand, Dir!Unknown, WritesOK, IInv, RowsOK
  <2> QED  BY <1>1, <2>2 DEF Dir!Next
<1>6. CASE "insertUser" \notin writes[l] /\ "insertIdentity" \in writes[l]
  <2>1. email' = email  BY <1>1, <1>2, <1>3, <1>6
  <2>2. email[u] = m  BY <1>1, <1>6, CommitPaths
  <2>3. Dir!Link(a, m, u)
    BY <1>1, <1>2, <1>6, <2>1, <2>2 DEF Dir!Link, WritesOK
  <2> QED  BY <1>1, <2>3 DEF Dir!Next
<1>7. CASE "insertUser" \notin writes[l] /\ "insertIdentity" \notin writes[l]
  BY <1>1, <1>2, <1>3, <1>7
<1> QED  BY <1>4, <1>5, <1>6, <1>7

LEMMA NextRefines == ASSUME IInv, [Next]_vars PROVE [Dir!Next]_(Dir!vars)
<1>1. ASSUME NEW l \in Logins, NEW r \in Outcomes, Commit(l, r)
      PROVE  Dir!Next \/ UNCHANGED Dir!vars
  BY <1>1, CommitRefines DEF Dir!vars
<1>2. CASE UNCHANGED tables  BY <1>2 DEF tables, Dir!vars
<1>3. ASSUME NEW u \in Users, NEW s \in Statuses, Moderate(u, s)  PROVE UNCHANGED Dir!vars
  BY <1>3 DEF Moderate, Dir!vars
<1> QED  BY <1>1, <1>2, <1>3, TablesChange

\* The transaction of pg_resolve_user_id, with every interleaving of its
\* statements, does to the directory what one indivisible step would do.
THEOREM Refinement == Spec => DirectorySpec
<1>1. Init => Dir!Init  BY DEF Init, Dir!Init
<1>2. IInv /\ [Next]_vars => [Dir!Next]_(Dir!vars)  BY NextRefines
<1> QED  BY <1>1, <1>2, Inductive, PTL DEF Spec, DirectorySpec, Dir!Spec

\* What the directory promises of its users the rows of Accounts keep: the
\* steps that break it between two statements are not seen.
THEOREM RowsReachable == Spec => []Dir!Reachable
BY Refinement, DirectoryReachable DEF DirectorySpec

\* Overlapping or failing first logins strand nobody whose address is settled:
\* the user and the account that leads to it become visible together.
THEOREM NoStranding == Spec => []NobodyStranded
<1>1. IInv /\ Dir!Reachable => NobodyStranded
  BY DEF IInv, RowsOK, NobodyStranded, Dir!Reachable
<1> QED  BY <1>1, Inductive, RowsReachable, PTL
-----------------------------------------------------------------------------
(* The pages on top of the directory: what is proved of Accounts holds      *)
(* under them, and carries over to the sessions.                           *)

Texts == Names \cup {Given, Trimmed, Unfit, None}
FormType == [nickname : Texts, bio : Texts, of : Users \cup {None}, typed : BOOLEAN]

\* A form's nickname, unless typed, is the row's, with blanks or without, also
\* after a refusal.
NicknameOK(t) == Open(t) /\ ~overtaken[t] =>
    \/ form[t].nickname \in Names \cup {Unfit}
    \/ form[t].nickname \in {nickname[form[t].of], Trim(nickname[form[t].of])}

\* A form was read from a profile, and shows it unless it was saved since.
TabOK(t) ==
    /\ Open(t) => form[t].of \in profiled
    /\ NicknameOK(t)
    /\ Current(t)

\* A session's user has a profile, and forms are what their reads made of them.
PagesOK ==
    /\ user \in [Logins -> Users \cup {None}]
    /\ nickname \in [Users -> Texts] /\ bio \in [Users -> Texts]
    /\ form \in [Tabs -> FormType]
    /\ overtaken \in [Tabs -> BOOLEAN]
    /\ \A u \in profiled : nickname[u] # None
    /\ \A b \in Logins : user[b] # None => user[b] \in profiled
    /\ \A t \in Tabs : TabOK(t)

AppInv == IInv /\ PagesOK

LEMMA Trims ==
    ASSUME NEW x
    PROVE  /\ Trim(Trim(x)) = Trim(x)
           /\ x \in Names => Trim(x) \in Names
           /\ Trim(Unfit) = Unfit
           /\ x \in Texts => Trim(x) \in Texts
           /\ x # None => Trim(x) # None
BY AppAssumption DEF Trim, Texts
-----------------------------------------------------------------------------
LEMMA CallbackIsNext == ASSUME NEW b \in Logins, Callback(b) PROVE Next
BY DEF Callback, Next

LEMMA AppIsNext == [AppNext]_appVars => [Next]_vars
<1>1. ASSUME NEW b \in Logins, Callback(b) PROVE Next
  BY <1>1, CallbackIsNext
<1>2. ASSUME NEW b \in Logins, Logout(b) PROVE UNCHANGED vars
  BY <1>2 DEF Logout
<1>3. ASSUME NEW t \in Tabs, NEW n, NEW d,
             EditForm(t) \/ CloseForm(t) \/ Save(t, n, d) \/ SaveRefused(t, n, d)
      PROVE  UNCHANGED vars
  BY <1>3 DEF EditForm, CloseForm, Save, SaveRefused
<1>4. ASSUME NEW u \in Users, NEW s \in Statuses, Moderate(u, s) PROVE Next
  BY <1>4 DEF Next
<1>5. UNCHANGED appVars => UNCHANGED vars
  BY DEF appVars
<1> QED BY <1>1, <1>2, <1>3, <1>4, <1>5 DEF AppNext

\* Profiles only become more.
LEMMA ProfilesStay == ASSUME IInv, [Next]_vars PROVE profiled \subseteq profiled'
<1>1. ASSUME NEW l \in Logins, NEW r \in Outcomes, Commit(l, r) PROVE profiled \subseteq profiled'
  BY <1>1, CommitRows
<1>2. ASSUME NEW u \in Users, NEW s \in Statuses, Moderate(u, s) PROVE profiled' = profiled
  BY <1>2 DEF Moderate
<1> QED BY <1>1, <1>2, TablesChange DEF tables

\* A login that ends with a user is a commit, and the user then has a profile.
LEMMA GrantedFound ==
    ASSUME IInv, NEW b \in Logins, Callback(b), ~Running(b)', result'[b] \in Users
    PROVE  /\ pc[b] = "commit" /\ result'[b] = found[b] /\ Commit(b, found[b])
           /\ found[b] \in profiled'
<1>1. [Next]_vars
  BY CallbackIsNext
<1>2. Running(b)
  BY DEF Callback, Begin, Step, Fail, Search, Reactivate, UpsertKnown, UpsertNew, InsertProfile,
         InsertIdentity, Commit, Running, IInv, TypeOK
<1>3. Ends(b)
  BY <1>2 DEF Ends
<1>4. /\ \A r \in {found[b], "error"} : Commit(b, r) => result'[b] = r
      /\ \A r \in {"banned", "error"} : Rollback(b, r) => result'[b] = r
  BY DEF Commit, Rollback, Finish, IInv, TypeOK
<1>5. Commit(b, found[b]) /\ result'[b] = found[b]
  BY <1>1, <1>3, <1>4, HowLoginsEnd, AccountsAssumption
<1>6. pc[b] = "commit"
  BY <1>5 DEF Commit
<1>7. found[b] \in profiled'
  <2>1. found[b] \in Users
    BY <1>6, CommitFound
  <2>2. profiled' = IF "insertProfile" \in writes[b] THEN profiled \cup {found[b]} ELSE profiled
    BY <1>5, CommitRows
  <2> QED BY <1>6, <2>1, <2>2, CommitPaths DEF IInv, RowsOK
<1> QED BY <1>5, <1>6, <1>7
-----------------------------------------------------------------------------
LEMMA AppInitially == AppInit => AppInv
<1> SUFFICES ASSUME AppInit PROVE AppInv
  OBVIOUS
<1>1. IInv
  BY InitInv DEF AppInit
<1>2. \A t \in Tabs : form[t] = NoForm
  BY DEF AppInit
<1>3. \A t \in Tabs : TabOK(t)
  BY <1>2 DEF TabOK, NicknameOK, Current, Open
<1>4. form \in [Tabs -> FormType]
  BY DEF AppInit, NoForm, FormType, Texts
<1>5. PagesOK
  BY <1>3, <1>4 DEF AppInit, Init, PagesOK, Texts
<1> QED BY <1>1, <1>5 DEF AppInv

\* A step that leaves a form and the row it was read from as they are.
LEMMA TabKept ==
    ASSUME NEW t \in Tabs, TabOK(t), profiled \subseteq profiled',
           form'[t] = form[t], overtaken'[t] = overtaken[t],
           Open(t) => /\ nickname'[form[t].of] = nickname[form[t].of]
                      /\ bio'[form[t].of] = bio[form[t].of]
    PROVE  TabOK(t)'
BY Zenon DEF TabOK, NicknameOK, Current, Open, Trim

\* A step that only the form of one tab is affected by.
LEMMA FormPages ==
    ASSUME AppInv, NEW t \in Tabs, NEW f \in FormType, NEW o \in BOOLEAN,
           form' = [form EXCEPT ![t] = f], overtaken' = [overtaken EXCEPT ![t] = o], TabOK(t)',
           UNCHANGED <<vars, user, nickname, bio>>
    PROVE  PagesOK'
<1>1. profiled' = profiled
  BY DEF vars
<1>2. form' \in [Tabs -> FormType] /\ overtaken' \in [Tabs -> BOOLEAN]
  BY DEF AppInv, PagesOK
<1>3. ASSUME NEW c \in Tabs PROVE TabOK(c)'
  <2>1. CASE c = t
    BY <2>1
  <2>2. CASE c # t
    <3>1. form'[c] = form[c] /\ overtaken'[c] = overtaken[c]
      BY <2>2 DEF AppInv, PagesOK
    <3> QED BY <1>1, <3>1, TabKept DEF AppInv, PagesOK
  <2> QED BY <2>1, <2>2
<1> QED BY <1>1, <1>2, <1>3 DEF AppInv, PagesOK

LEMMA CallbackPages ==
    ASSUME AppInv, NEW b \in Logins, Callback(b)
    PROVE  PagesOK'
<1> USE DEF AppInv
<1>1. profiled \subseteq profiled' /\ profiled' \subseteq Users
  <2>1. [Next]_vars
    BY CallbackIsNext
  <2> QED BY <2>1, ProfilesStay, NextInv DEF IInv, TypeOK
<1>2. /\ nickname' \in [Users -> Texts]
      /\ \A u \in Users : nickname'[u] = IF u \in profiled' \ profiled THEN Given ELSE nickname[u]
      /\ UNCHANGED <<bio, form, overtaken>>
  BY DEF Callback, Name, PagesOK, Texts
<1>3. \A u \in profiled' : nickname'[u] # None
  BY <1>1, <1>2, AppAssumption DEF PagesOK
<1>4. ASSUME NEW t \in Tabs PROVE TabOK(t)'
  <2>1. Open(t) => form[t].of \in profiled /\ form[t].of \in Users
    BY <1>1 DEF PagesOK, TabOK
  <2>2. Open(t) => nickname'[form[t].of] = nickname[form[t].of]
    BY <1>2, <2>1
  <2> QED BY <1>1, <1>2, <2>2, TabKept DEF PagesOK
<1>5. /\ user' \in [Logins -> Users \cup {None}]
      /\ \A c \in Logins : user'[c] # None => user'[c] \in profiled'
  <2>1. CASE ~Running(b)' /\ result'[b] \in Users
    <3>1. result'[b] \in profiled'
      BY <2>1, GrantedFound
    <3>2. user' = [user EXCEPT ![b] = result'[b]]
      BY <2>1 DEF Callback
    <3> QED BY <1>1, <2>1, <3>1, <3>2 DEF PagesOK
  <2>2. CASE ~(~Running(b)' /\ result'[b] \in Users)
    <3>1. user' = user
      BY <2>2 DEF Callback
    <3> QED BY <1>1, <3>1 DEF PagesOK
  <2> QED BY <2>1, <2>2
<1> QED BY <1>2, <1>3, <1>4, <1>5 DEF PagesOK

LEMMA SavePages ==
    ASSUME AppInv, NEW t \in Tabs, NEW n \in Texts \ {None}, NEW d \in Texts, Save(t, n, d)
    PROVE  PagesOK'
<1> USE DEF AppInv
<1> DEFINE u == user[Browser[t]]
<1>1. u \in profiled /\ u \in Users /\ profiled \subseteq Users
  BY AppAssumption DEF Save, PagesOK, IInv, TypeOK
<1>2. /\ nickname' = [nickname EXCEPT ![u] = Trim(n)] /\ bio' = [bio EXCEPT ![u] = d]
      /\ form' \in {form, [form EXCEPT ![t] = NoForm]}
      /\ overtaken' = [c \in Tabs |-> form'[c] # NoForm /\ (overtaken[c] \/ form[c].of = u)]
      /\ UNCHANGED <<profiled, user>>
  BY <1>1 DEF Save, vars
<1>3. /\ nickname' \in [Users -> Texts] /\ bio' \in [Users -> Texts]
      /\ \A v \in Users \ {u} : nickname'[v] = nickname[v] /\ bio'[v] = bio[v]
      /\ nickname'[u] # None
  BY <1>1, <1>2, Trims DEF PagesOK
<1>4. /\ form' \in [Tabs -> FormType]
      /\ \A c \in Tabs : form'[c] = NoForm \/ form'[c] = form[c]
  <2>1. NoForm \in FormType
    BY DEF NoForm, FormType, Texts
  <2> QED BY <1>2, <2>1 DEF PagesOK
<1>5. overtaken' \in [Tabs -> BOOLEAN]
  BY <1>2 DEF PagesOK
<1>6. ASSUME NEW c \in Tabs PROVE TabOK(c)'
  <2>1. CASE form'[c] = NoForm
    BY <2>1 DEF TabOK, NicknameOK, Current, Open
  <2>2. CASE form'[c] # NoForm /\ form[c].of = u
    <3>1. overtaken'[c] /\ form'[c] = form[c]
      BY <1>2, <1>4, <2>2
    <3> QED BY <1>1, <1>2, <2>2, <3>1 DEF TabOK, NicknameOK, Current, Open
  <2>3. CASE form'[c] # NoForm /\ form[c].of # u
    <3>1. form'[c] = form[c] /\ overtaken'[c] = overtaken[c] /\ TabOK(c)
      BY <1>2, <1>4, <2>3 DEF PagesOK
    <3>2. Open(c) => form[c].of \in Users \ {u}
      BY <1>1, <2>3, <3>1 DEF TabOK
    <3> QED BY <1>2, <1>3, <3>1, <3>2, TabKept
  <2> QED BY <2>1, <2>2, <2>3
<1>7. \A v \in profiled' : nickname'[v] # None
  BY <1>1, <1>2, <1>3 DEF PagesOK
<1> QED BY <1>2, <1>3, <1>4, <1>5, <1>6, <1>7 DEF PagesOK

LEMMA EditFormPages == ASSUME AppInv, NEW t \in Tabs, EditForm(t) PROVE PagesOK'
<1> DEFINE u == user[Browser[t]]
           f == [nickname |-> nickname[u], bio |-> bio[u], of |-> u, typed |-> FALSE]
<1>1. u \in profiled /\ u \in Users
  BY DEF EditForm, AppInv, IInv, TypeOK
<1>2. /\ form' = [form EXCEPT ![t] = f] /\ overtaken' = [overtaken EXCEPT ![t] = FALSE]
      /\ UNCHANGED <<vars, user, nickname, bio>>
  BY DEF EditForm, Shows
<1>3. f \in FormType
  BY <1>1 DEF FormType, AppInv, PagesOK
<1>4. form'[t] = f /\ ~overtaken'[t] /\ profiled' = profiled
  BY <1>2 DEF AppInv, PagesOK, vars
<1>5. TabOK(t)'
  BY <1>1, <1>2, <1>4 DEF TabOK, NicknameOK, Current
<1> QED BY <1>2, <1>3, <1>5, FormPages

LEMMA CloseFormPages == ASSUME AppInv, NEW t \in Tabs, CloseForm(t) PROVE PagesOK'
<1>1. /\ form' = [form EXCEPT ![t] = NoForm] /\ overtaken' = [overtaken EXCEPT ![t] = FALSE]
      /\ UNCHANGED <<vars, user, nickname, bio>>
  BY DEF CloseForm, Shows
<1>2. NoForm \in FormType
  BY DEF NoForm, FormType, Texts
<1>3. form'[t] = NoForm
  BY <1>1 DEF AppInv, PagesOK
<1>4. TabOK(t)'
  BY <1>3 DEF TabOK, NicknameOK, Current, Open
<1> QED BY <1>1, <1>2, <1>4, FormPages

\* What is typed into a refused form or kept in it.
LEMMA RefusedPages ==
    ASSUME AppInv, NEW t \in Tabs, NEW n \in Nicknames(t), NEW d \in Texts, SaveRefused(t, n, d)
    PROVE  PagesOK'
<1> DEFINE f == [nickname |-> Trim(n), bio |-> d, of |-> form[t].of, typed |-> TRUE]
<1>1. /\ form' = [form EXCEPT ![t] = f] /\ Open(t)
      /\ UNCHANGED <<vars, user, nickname, bio, overtaken>>
  BY DEF SaveRefused
<1>2. n \in Texts /\ form[t] \in FormType /\ TabOK(t)
  BY DEF AppInv, PagesOK, Nicknames, FormType, Texts
<1>3. f \in FormType
  BY <1>2, Trims DEF FormType
<1>4. form'[t] = f /\ overtaken'[t] = overtaken[t] /\ profiled' = profiled
      /\ overtaken' = [overtaken EXCEPT ![t] = overtaken[t]] /\ overtaken[t] \in BOOLEAN
  BY <1>1 DEF AppInv, PagesOK, vars
<1>5. NicknameOK(t)'
  <2> SUFFICES ASSUME ~overtaken[t], Trim(n) \notin Names \cup {Unfit}
               PROVE  Trim(n) \in {nickname[form[t].of], Trim(nickname[form[t].of])}
    BY <1>1, <1>4 DEF NicknameOK, Trim
  <2>1. n = form[t].nickname /\ n \notin Names \cup {Unfit}
    BY Trims DEF Nicknames
  <2>2. n \in {nickname[form[t].of], Trim(nickname[form[t].of])}
    BY <1>1, <1>2, <2>1 DEF TabOK, NicknameOK
  <2> QED BY <2>2, Trims
<1>6. TabOK(t)'
  BY <1>1, <1>2, <1>4, <1>5 DEF TabOK, Current
<1> QED BY <1>1, <1>3, <1>4, <1>6, FormPages

LEMMA AppStep == AppInv /\ [AppNext]_appVars => AppInv'
<1> SUFFICES ASSUME AppInv, [AppNext]_appVars PROVE AppInv'
  OBVIOUS
<1>1. IInv'
  BY AppIsNext, NextInv DEF AppInv
<1>2. ASSUME profiled' = profiled, UNCHANGED <<nickname, bio, form, overtaken>>,
             user' \in [Logins -> Users \cup {None}],
             \A b \in Logins : user'[b] # None => user'[b] = user[b]
      PROVE  PagesOK'
  <2>1. \A t \in Tabs : TabOK(t)'
    BY <1>2, TabKept DEF AppInv, PagesOK
  <2> QED BY <1>2, <2>1 DEF AppInv, PagesOK
<1>3. PagesOK'
  <2>1. ASSUME NEW b \in Logins, Callback(b) PROVE PagesOK'
    BY <2>1, CallbackPages
  <2>2. ASSUME NEW b \in Logins, Logout(b) PROVE PagesOK'
    BY <1>2, <2>2 DEF Logout, AppInv, PagesOK, vars
  <2>3. ASSUME NEW t \in Tabs, NEW n \in Nicknames(t), NEW d \in Bios(t),
               Save(t, n, d) \/ SaveRefused(t, n, d)
        PROVE  PagesOK'
    <3>1. n \in Texts \ {None} /\ d \in Texts
      BY AppAssumption DEF Texts, AppInv, PagesOK, Nicknames, Bios, FormType
    <3> QED BY <2>3, <3>1, SavePages, RefusedPages
  <2>4. ASSUME NEW u \in Users, NEW s \in Statuses, Moderate(u, s), UNCHANGED pageVars PROVE PagesOK'
    BY <1>2, <2>4 DEF Moderate, pageVars, AppInv, PagesOK
  <2>5. CASE UNCHANGED appVars
    BY <1>2, <2>5 DEF appVars, vars, pageVars, AppInv, PagesOK
  <2> QED BY <2>1, <2>2, <2>3, <2>4, <2>5, EditFormPages, CloseFormPages DEF AppNext
<1> QED BY <1>1, <1>3 DEF AppInv

\* The pages only watch the directory: a run of the application is a run of
\* Accounts, and whatever is proved of Accounts holds of it.
THEOREM Composition == AppSpec => Spec
<1>1. AppInit => Init
  BY DEF AppInit
<1>2. [AppNext]_appVars => [Next]_vars
  BY AppIsNext
<1> QED BY <1>1, <1>2, PTL DEF AppSpec, Spec

\* Through them it implements the abstract directory.
THEOREM AppRefinement == AppSpec => DirectorySpec
BY Composition, Refinement

THEOREM AppInductive == AppSpec => []AppInv
<1>1. AppInit => AppInv
  BY AppInitially
<1>2. AppInv /\ [AppNext]_appVars => AppInv'
  BY AppStep
<1> QED BY <1>1, <1>2, PTL DEF AppSpec

\* Every session's user has a profile: pg_resolve_user_meta's one() never
\* raises, whatever logins overlap, fail or lose their answers.
THEOREM SessionsServed == AppSpec => []SessionServed
<1>1. AppInv => SessionServed
  BY DEF AppInv, PagesOK, SessionServed
<1> QED BY <1>1, AppInductive, PTL

\* A form shows the row it was read from until that profile is saved, although
\* nothing but the session at the time of the save says whose profile it is.
THEOREM FormsHonest == AppSpec => []FormsCurrent
<1>1. AppInv => FormsCurrent
  BY DEF AppInv, PagesOK, TabOK, FormsCurrent
<1> QED BY <1>1, AppInductive, PTL

\* What a step that changes profile u has to show for it.
Explained(u) == \E t \in Tabs :
    /\ user[Browser[t]] = u
    /\ \/ nickname'[u] \in Names \cup {nickname[u], Trim(nickname[u])}
       \/ Brings(t, u) /\ (overtaken[t] \/ form[t].of # u)

LEMMA EditStep ==
    ASSUME AppInv, [AppNext]_appVars, NEW u \in profiled,
           nickname'[u] # nickname[u] \/ bio'[u] # bio[u]
    PROVE  Explained(u)
<1>1. u \in Users
  BY DEF AppInv, IInv, TypeOK
<1>2. ASSUME NEW b \in Logins, Callback(b) PROVE FALSE
  BY <1>1, <1>2 DEF Callback, Name
<1>3. ASSUME NEW t \in Tabs, NEW n \in Nicknames(t), NEW d, Save(t, n, d) PROVE Explained(u)
  <2>1. u = user[Browser[t]] /\ nickname'[u] = Trim(n) /\ Trim(n) # Unfit
    BY <1>1, <1>3 DEF Save, AppInv, PagesOK
  <2>2. ASSUME n \notin Names, ~overtaken[t], form[t].of = u
        PROVE  nickname'[u] \in Names \cup {nickname[u], Trim(nickname[u])}
    <3>1. n # Unfit
      BY <2>1, Trims
    <3>2. n = form[t].nickname /\ n # None
      BY <2>2, <3>1 DEF Nicknames
    <3>3. Open(t)
      BY <3>2 DEF Open, NoForm
    <3>4. n \in {nickname[u], Trim(nickname[u])}
      BY <2>2, <3>1, <3>2, <3>3 DEF AppInv, PagesOK, TabOK, NicknameOK
    <3> QED BY <2>1, <3>4, Trims
  <2>3. CASE n \in Names
    BY <2>1, <2>3, Trims DEF Explained
  <2>4. CASE n \notin Names
    <3>1. n = form[t].nickname /\ n # None
      BY <2>1, <2>4, Trims DEF Nicknames
    <3>2. Brings(t, u)
      BY <2>1, <3>1 DEF Brings
    <3> QED BY <2>1, <2>2, <2>4, <3>2 DEF Explained
  <2> QED BY <2>3, <2>4
<1>4. UNCHANGED <<nickname, bio>> => FALSE
  OBVIOUS
<1>5. ASSUME NEW b \in Logins, Logout(b) PROVE FALSE
  BY <1>4, <1>5 DEF Logout
<1>6. ASSUME NEW t \in Tabs, NEW n, NEW d, EditForm(t) \/ CloseForm(t) \/ SaveRefused(t, n, d)
      PROVE  FALSE
  BY <1>4, <1>6 DEF EditForm, CloseForm, SaveRefused
<1>7. UNCHANGED appVars \/ UNCHANGED pageVars => FALSE
  BY <1>4 DEF appVars, pageVars
<1> QED BY <1>2, <1>3, <1>5, <1>6, <1>7 DEF AppNext

\* No login changes a profile that exists (ON CONFLICT DO NOTHING, postgres_repo.py
\* 85-94), and a save that nobody overtook, of a form of the session's own user,
\* changes no nickname that its owner left as it was.
THEOREM OwnersEdit == AppSpec => EditsKept
<1>1. AppInv /\ [AppNext]_appVars =>
        [\A u \in profiled :
            nickname'[u] # nickname[u] \/ bio'[u] # bio[u] =>
                \E t \in Tabs :
                    /\ user[Browser[t]] = u
                    /\ \/ nickname'[u] \in Names \cup {nickname[u], Trim(nickname[u])}
                       \/ Brings(t, u) /\ (overtaken[t] \/ form[t].of # u)]_appVars
  BY EditStep DEF Explained
<1> QED BY <1>1, AppInductive, PTL DEF AppSpec, EditsKept

LEMMA BannedStep ==
    ASSUME AppInv, [AppNext]_appVars, NEW b \in Logins,
           user'[b] # user[b], user'[b] \in Users, status[user'[b]] = "BANNED"
    PROVE  user'[b] \in touched[b]
<1>1. ASSUME NEW c \in Logins, Callback(c) PROVE c = b /\ ~Running(b)' /\ result'[b] \in Users
  BY <1>1 DEF Callback, AppInv, PagesOK
<1>2. ASSUME Callback(b), ~Running(b)', result'[b] \in Users PROVE user'[b] \in touched[b]
  <2>1. pc[b] = "commit" /\ user'[b] = found[b]
    BY <1>2, GrantedFound DEF Callback, AppInv, PagesOK
  <2> QED BY <2>1, CommitPaths DEF AppInv, StatusOK, Exists
<1>3. ASSUME NEW c \in Logins, Logout(c) PROVE FALSE
  BY <1>3, AccountsAssumption DEF Logout, AppInv, PagesOK
<1>4. ASSUME NEW t \in Tabs, NEW n, NEW d,
             EditForm(t) \/ CloseForm(t) \/ Save(t, n, d) \/ SaveRefused(t, n, d)
      PROVE  FALSE
  BY <1>4 DEF EditForm, CloseForm, Save, SaveRefused
<1>5. UNCHANGED appVars \/ UNCHANGED pageVars => FALSE
  BY DEF appVars, pageVars
<1> QED BY <1>1, <1>2, <1>3, <1>4, <1>5 DEF AppNext

\* Nobody who is banned gets a new session, but by a login that had searched
\* before the ban.
THEOREM BansShutOut == AppSpec => BannedBeginNothing
<1>1. AppInv /\ [AppNext]_appVars =>
        [\A b \in Logins :
            user'[b] # user[b] /\ user'[b] \in Users /\ status[user'[b]] = "BANNED"
                => user'[b] \in touched[b]]_appVars
  BY BannedStep
<1> QED BY <1>1, AppInductive, PTL DEF AppSpec, BannedBeginNothing
=============================================================================
