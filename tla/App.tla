-------------------------------- MODULE App --------------------------------
(***************************************************************************)
(* The pages of ui/entrypoint.py on top of the account directory: a        *)
(* browser logs in through Accounts, statement by statement, keeps the     *)
(* user it got in its session, and shows and edits that user's profile.    *)
(*                                                                         *)
(* A browser is a login slot of Accounts: its session is user[b], from the *)
(* end of one callback to a logout or the next callback.  What overlapping *)
(* requests of one browser do to the session is the subject of Sessions;   *)
(* here the browsers overlap with each other.  A browser has tabs, each    *)
(* with a form at most; a form stays open when the session ends or passes  *)
(* to another user.  Requests that are answered without a change - a page, *)
(* a fragment or a save without a session (401) - are no steps.            *)
(***************************************************************************)
EXTENDS Accounts

CONSTANTS
    Tabs,
    Browser,    \* the browser a tab belongs to
    Names,      \* nicknames and bios that people enter, without outer blanks
    Given,      \* the name that a login's provider reports
    Trimmed,    \* Given without outer blanks
    Unfit       \* a text that is too long, or empty where it must not be

ASSUME AppAssumption ==
    /\ Browser \in [Tabs -> Logins]
    /\ None \notin Names \cup {Given, Trimmed, Unfit}
    /\ Unfit \notin Names \cup {Given}
    /\ Given \in Names => Trimmed = Given

VARIABLES
    user,       \* the user_id in the session of each browser
    nickname, bio,  \* profiles.nickname, profiles.bio
    form,       \* the edit form a tab shows
    \* history
    overtaken   \* the profile a form was read from was saved since

pageVars == <<user, nickname, bio, form, overtaken>>
appVars == <<vars, pageVars>>

\* A form's of and typed are history: the user whose profile it was read from,
\* and whether it shows what was typed instead of what was read.
NoForm == [nickname |-> None, bio |-> None, of |-> None, typed |-> FALSE]
Open(t) == form[t] # NoForm

\* nickname.strip().
Trim(n) == IF n = Given THEN Trimmed ELSE n

AppInit ==
    /\ Init
    /\ user = [b \in Logins |-> None]
    /\ nickname = [u \in Users |-> None]
    /\ bio = [u \in Users |-> None]
    /\ form = [t \in Tabs |-> NoForm]
    /\ overtaken = [t \in Tabs |-> FALSE]

\* Slip: ON CONFLICT DO UPDATE SET nickname.
NameAnew(b) ==
    nickname' = IF ~Running(b)' /\ result'[b] \in Users /\ WritesUser(b)
                THEN [nickname EXCEPT ![result'[b]] = Given] ELSE nickname

\* A profile starts with the provider's name and keeps what it has after that.
Name(b) ==
    nickname' = [u \in Users |-> IF u \in profiled' \ profiled THEN Given ELSE nickname[u]]

\* A callback of browser b begins or goes on; when it ends with a user, the
\* user is put into the session, and when it ends otherwise the session stays.
Callback(b) ==
    /\ \/ \E a \in Accounts, m \in Mails : Begin(b, a, m)
       \/ Step(b)
       \/ Fail(b)
    /\ Name(b)
    /\ user' = IF ~Running(b)' /\ result'[b] \in Users
               THEN [user EXCEPT ![b] = result'[b]] ELSE user
    /\ UNCHANGED <<bio, form, overtaken>>

Logout(b) ==
    /\ user[b] # None
    /\ user' = [user EXCEPT ![b] = None]
    /\ UNCHANGED <<vars, nickname, bio, form, overtaken>>

Shows(t, f) ==
    /\ form' = [form EXCEPT ![t] = f]
    /\ overtaken' = [overtaken EXCEPT ![t] = FALSE]

\* Slip: the form shows the name that the session keeps, given_name.
EditFormFromSession(t) == LET u == user[Browser[t]] IN
    /\ u \in profiled
    /\ Shows(t, [nickname |-> Given, bio |-> bio[u], of |-> u, typed |-> FALSE])
    /\ UNCHANGED <<vars, user, nickname, bio>>

\* edit_form_fragment reads the row of the session's user.
EditForm(t) == LET u == user[Browser[t]] IN
    /\ u \in profiled
    /\ Shows(t, [nickname |-> nickname[u], bio |-> bio[u], of |-> u, typed |-> FALSE])
    /\ UNCHANGED <<vars, user, nickname, bio>>

\* view_fragment takes the form's place, or the tab goes elsewhere.
CloseForm(t) ==
    /\ Open(t) /\ Shows(t, NoForm)
    /\ UNCHANGED <<vars, user, nickname, bio>>

\* save_profile_fragment: an UPDATE of both columns with what the request
\* carries, changed or not, whatever the row holds by now and whoever's row the
\* form showed; only the session says whose profile it is.  The form gives way
\* to the answer, unless the answer is lost.
Save(t, n, d) == LET u == user[Browser[t]] IN
    /\ u # None /\ Trim(n) # Unfit /\ d # Unfit
    /\ nickname' = IF u \in profiled THEN [nickname EXCEPT ![u] = Trim(n)] ELSE nickname
    /\ bio' = IF u \in profiled THEN [bio EXCEPT ![u] = d] ELSE bio
    /\ form' \in {form, [form EXCEPT ![t] = NoForm]}
    /\ overtaken' = [c \in Tabs |-> form'[c] # NoForm /\ (overtaken[c] \/ form[c].of = u)]
    /\ UNCHANGED <<vars, user>>

\* A text that does not do is not saved, and the form shows what was sent.
SaveRefused(t, n, d) ==
    /\ user[Browser[t]] # None /\ Open(t) /\ Unfit \in {Trim(n), d}
    /\ form' = [form EXCEPT ![t] = [nickname |-> Trim(n), bio |-> d, of |-> form[t].of,
                                    typed |-> TRUE]]
    /\ UNCHANGED <<vars, user, nickname, bio, overtaken>>

\* What the fields of a form can hold when it is sent.
Nicknames(t) == (Names \cup {form[t].nickname, Unfit}) \ {None}
Bios(t) == Names \cup {form[t].bio, None, Unfit}

AppNext ==
    \/ \E b \in Logins : Callback(b) \/ Logout(b)
    \/ \E t \in Tabs :
          \/ EditForm(t) \/ CloseForm(t)
          \/ \E n \in Nicknames(t), d \in Bios(t) : Save(t, n, d) \/ SaveRefused(t, n, d)
    \/ \E u \in Users, s \in Statuses : Moderate(u, s) /\ UNCHANGED pageVars

AppSpec == AppInit /\ [][AppNext]_appVars
-----------------------------------------------------------------------------
\* The user of a session has a profile with a nickname, so that no page of a
\* logged-in browser fails: pg_resolve_user_meta (user_meta_repo.py 24) asks
\* for exactly one row and would answer every request with a 500.
SessionServed == \A b \in Logins : user[b] # None =>
    user[b] \in profiled /\ nickname[user[b]] # None

\* A form goes on showing the row it was read from until somebody saves that
\* profile, whoever logs in and out meanwhile, in this browser or another.
Current(t) == Open(t) /\ ~form[t].typed /\ ~overtaken[t] =>
    form[t].nickname = nickname[form[t].of] /\ form[t].bio = bio[form[t].of]
FormsCurrent == \A t \in Tabs : Current(t)

\* A profile that exists changes only by a save from a session of its user: no
\* login, by whatever account and through whatever path, touches it.  And what
\* nobody typed takes the place of a nickname only from a form that was read
\* before another save of the profile or from another user's profile, by a
\* session that has changed hands since; else it is the same but for blanks.
Brings(t, u) == form[t].nickname # None /\ nickname'[u] = Trim(form[t].nickname)
EditsKept == [][\A u \in profiled :
    nickname'[u] # nickname[u] \/ bio'[u] # bio[u] =>
        \E t \in Tabs :
            /\ user[Browser[t]] = u
            /\ \/ nickname'[u] \in Names \cup {nickname[u], Trim(nickname[u])}
               \/ Brings(t, u) /\ (overtaken[t] \/ form[t].of # u)]_appVars

\* Pages never look at the status, so a session outlives a ban; but a banned
\* user gets a new one only from a login that had searched before the ban.
BannedBeginNothing == [][\A b \in Logins :
    user'[b] # user[b] /\ user'[b] \in Users /\ status[user'[b]] = "BANNED"
        => user'[b] \in touched[b]]_appVars
=============================================================================
