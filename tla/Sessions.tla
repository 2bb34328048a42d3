------------------------------ MODULE Sessions ------------------------------
(***************************************************************************)
(* The login session of a browser: the cookie "sid", the row in Redis it   *)
(* names, and the requests that read and rewrite that row.                 *)
(*                                                                         *)
(* Every request works on a copy of the session.  SessionMiddleware loads  *)
(* the copy when the request arrives and, because the session is rolling,  *)
(* writes all of it back when the response starts, also when the handler   *)
(* changed nothing; an exception that leaves the application skips the     *)
(* write.  What a handler does between the two touches only the copy, so   *)
(* handler and write are one action here; the load is another, and the     *)
(* requests of one browser overlap freely between the two.                 *)
(***************************************************************************)
CONSTANTS
    Browsers,
    Requests,   \* the requests that are under way at one time
    Kinds,      \* the kinds of request that are sent
    Sids,       \* session ids, each made once
    Tokens,     \* OAuth state tokens, each made once
    Users,      \* user ids that pg_resolve_user_id can answer
    None, Junk, NoRow

\* login and callback are those of GitHub and StackOverflow, which check the
\* slot "state" themselves; libLogin and libCallback go through authlib.
\* telegram is a callback without a login.  page is everything else.
AllKinds == {"page", "login", "libLogin", "callback", "libCallback", "telegram", "logout"}

\* The session dictionary: user_id (given_name goes with it), the one slot
\* "state" that every login overwrites, and the keys _state_<provider>_<token>
\* that authlib keeps for Google and Yandex.
Content == [user : Users \cup {None}, state : Tokens \cup {None, Junk},
            pending : SUBSET Tokens]
Empty == [user |-> None, state |-> None, pending |-> {}]

ASSUME SessionsAssumption ==
    /\ Kinds \subseteq AllKinds
    /\ None \notin Sids \cup Tokens \cup Users \cup Browsers
    /\ Junk \notin Tokens \cup {None}
    /\ Sids \cap {"keep", "delete"} = {} /\ NoRow \notin Content

VARIABLES
    jar,        \* the cookie each browser holds
    store,      \* Redis: sid -> row
    req,        \* the requests under way
    minted,     \* the sids made so far
    \* history
    issued,     \* token -> browser it was made for
    granted,    \* the pairs of a browser and a user it was logged in as
    seen,       \* the user that the answers a browser got say it is
    quiet,      \* nothing has disturbed the session of the browser
    out         \* the browser has logged out undisturbed, and not in again

vars == <<jar, store, req, minted, issued, granted, seen, quiet, out>>

NoRequest == [phase |-> "none", browser |-> None, kind |-> "page", token |-> None,
              sid |-> None, sess |-> Empty, blank |-> TRUE, cookie |-> "keep",
              answer |-> None, alone |-> TRUE]

Active(b) == {r \in Requests : req[r].phase # "none" /\ req[r].browser = b}

\* No other request of the browser has been under way with r.
Alone(r) == req[r].alone
-----------------------------------------------------------------------------
Init ==
    /\ jar = [b \in Browsers |-> None]
    /\ store = [s \in Sids |-> NoRow]
    /\ req = [r \in Requests |-> NoRequest]
    /\ minted = {}
    /\ issued = [t \in Tokens |-> None]
    /\ granted = {}
    /\ seen = [b \in Browsers |-> None]
    /\ quiet = [b \in Browsers |-> TRUE]
    /\ out = [b \in Browsers |-> FALSE]

\* A browser sends a request with its cookie.  The provider sends the browser
\* that follows a login's redirect back with the token, but the address can
\* be opened in another browser, or twice.
Send(r, b, k, t) ==
    /\ req[r].phase = "none"
    /\ IF k \in {"callback", "libCallback"} THEN t \in Tokens /\ issued[t] # None
                                            ELSE t = None
    /\ req' = [q \in Requests |->
                 IF q = r THEN [NoRequest EXCEPT !.phase = "sent", !.browser = b, !.kind = k,
                                  !.token = t, !.sid = jar[b], !.alone = (Active(b) = {})]
                 ELSE [req[q] EXCEPT !.alone = @ /\ q \notin Active(b)]]
    /\ quiet' = [quiet EXCEPT ![b] = @ /\ Active(b) = {}]
    /\ UNCHANGED <<jar, store, minted, issued, granted, seen, out>>

Copy(r, c) == req' = [req EXCEPT ![r].phase = "loaded", ![r].sess = c,
                                 ![r].blank = (c = Empty)]

\* SessionAutoloadMiddleware fills the copy; no row is an empty session.
Load(r) ==
    /\ req[r].phase = "sent"
    /\ Copy(r, IF req[r].sid = None \/ store[req[r].sid] = NoRow THEN Empty
               ELSE store[req[r].sid])
    /\ UNCHANGED <<jar, store, minted, issued, granted, seen, quiet, out>>

\* RedisSessionStore.read catches every error and answers b"": an empty session.
LoadFails(r) ==
    /\ req[r].phase = "sent" /\ req[r].sid # None
    /\ Copy(r, Empty)
    /\ quiet' = [quiet EXCEPT ![req[r].browser] = FALSE]
    /\ UNCHANGED <<jar, store, minted, issued, granted, seen, out>>
-----------------------------------------------------------------------------
(* The response: what SessionMiddleware does with the copy, now c.         *)

\* The request is over; the answer carries the cookie and says u is logged in.
Answer(r, cookie, u) ==
    req' = [req EXCEPT ![r] = [NoRequest EXCEPT
               !.phase = "done", !.browser = req[r].browser, !.kind = req[r].kind,
               !.alone = req[r].alone, !.cookie = cookie, !.answer = u]]

\* A session that was empty and still is: no row, no cookie.
SaveNothing(r, c) ==
    /\ c = Empty /\ req[r].blank
    /\ Answer(r, "keep", None)
    /\ UNCHANGED <<store, minted, quiet>>

\* Slip: the cookie goes, the row stays.  (Slips are what a plausible mistake
\* would make of an action; no specification uses them.)
DestroyCookie(r, c) ==
    /\ c = Empty /\ ~req[r].blank
    /\ Answer(r, "delete", None)
    /\ UNCHANGED <<store, minted, quiet>>

\* The row and the cookie go.
Destroy(r, c) ==
    /\ c = Empty /\ ~req[r].blank
    /\ store' = [store EXCEPT ![req[r].sid] = NoRow]
    /\ Answer(r, "delete", None)
    /\ UNCHANGED <<minted, quiet>>

\* Slip: new sessions get a sid that may be in use.
SaveRowAnySid(r, c, u, s) ==
    /\ c # Empty
    /\ req[r].sid # None => s = req[r].sid
    /\ store' = [store EXCEPT ![s] = c]
    /\ minted' = minted \cup {s}
    /\ Answer(r, s, u)
    /\ UNCHANGED quiet

\* The copy replaces the row, under the sid that came or under a new one.
SaveRow(r, c, u, s) ==
    /\ c # Empty
    /\ IF req[r].sid # None THEN s = req[r].sid ELSE s \notin minted
    /\ store' = [store EXCEPT ![s] = c]
    /\ minted' = minted \cup {s}
    /\ Answer(r, s, u)
    /\ UNCHANGED quiet

\* RedisSessionStore.write and remove raise again: the answer is a 500 without
\* a cookie.  Redis may have done the work before the error.
SaveFails(r, c) ==
    /\ c # Empty \/ ~req[r].blank
    /\ \/ UNCHANGED store
       \/ req[r].sid # None /\ store' = [store EXCEPT ![req[r].sid] =
                                           IF c = Empty THEN NoRow ELSE c]
    /\ Answer(r, "keep", None)
    /\ quiet' = [quiet EXCEPT ![req[r].browser] = FALSE]
    /\ UNCHANGED minted

Save(r, c, u) ==
    \/ SaveNothing(r, c)
    \/ Destroy(r, c)
    \/ \E s \in Sids : SaveRow(r, c, u, s)
    \/ SaveFails(r, c)

\* The handlers that log nobody in or out.
Respond(r, c) ==
    /\ Save(r, c, None)
    /\ UNCHANGED <<jar, granted, seen, out>>

\* session.update({"user_id": u, ...}) at the end of a callback.
Grant(r, c, u) == LET b == req[r].browser IN
    /\ Save(r, [c EXCEPT !.user = u], u)
    /\ granted' = granted \cup {<<b, u>>}
    /\ seen' = [seen EXCEPT ![b] = u]
    /\ out' = [out EXCEPT ![b] = FALSE]
    /\ UNCHANGED <<jar, issued>>
-----------------------------------------------------------------------------
(* The handlers.                                                            *)

Loaded(r, kinds) == req[r].phase = "loaded" /\ req[r].kind \in kinds

\* A page, a request the rate limiter turns away (429), a callback that carries
\* an error of the provider or lacks its parameters: the session is as it was.
Untouched(r) ==
    /\ Loaded(r, AllKinds \ {"logout"})
    /\ Respond(r, req[r].sess)
    /\ UNCHANGED issued

\* request.session["state"] = token_urlsafe(32), sent to GitHub or StackOverflow.
Login(r, t) ==
    /\ Loaded(r, {"login"})
    /\ issued[t] = None
    /\ issued' = [issued EXCEPT ![t] = req[r].browser]
    /\ Respond(r, [req[r].sess EXCEPT !.state = t])

\* The same slot is written for Google and Yandex, where nobody will ask for
\* it; authlib makes the token that counts and stores it under a key of its own.
LibLogin(r, t) ==
    /\ Loaded(r, {"libLogin"})
    /\ issued[t] = None
    /\ issued' = [issued EXCEPT ![t] = req[r].browser]
    /\ Respond(r, [req[r].sess EXCEPT !.state = Junk, !.pending = @ \cup {t}])

\* Slips: a mismatch clears the session; the token is never compared.
CallbackRefusedClears(r) ==
    /\ Loaded(r, {"callback"})
    /\ Respond(r, Empty)
    /\ UNCHANGED issued

CallbackUnchecked(r, u) ==
    /\ Loaded(r, {"callback"})
    /\ Grant(r, [req[r].sess EXCEPT !.state = None], u)

\* session.pop("state") comes first, whether the token matches or not, and
\* stays popped when the provider or the database then fails (caught).
CallbackRefused(r) ==
    /\ Loaded(r, {"callback"})
    /\ Respond(r, [req[r].sess EXCEPT !.state = None])
    /\ UNCHANGED issued

CallbackAccepted(r, u) ==
    /\ Loaded(r, {"callback"})
    /\ req[r].token = req[r].sess.state
    /\ Grant(r, [req[r].sess EXCEPT !.state = None], u)

\* authorize_access_token drops the token's key, then fails without its data.
LibCallbackRefused(r) ==
    /\ Loaded(r, {"libCallback"})
    /\ Respond(r, [req[r].sess EXCEPT !.pending = @ \ {req[r].token}])
    /\ UNCHANGED issued

LibCallbackAccepted(r, u) ==
    /\ Loaded(r, {"libCallback"})
    /\ req[r].token \in req[r].sess.pending
    /\ Grant(r, [req[r].sess EXCEPT !.pending = @ \ {req[r].token}], u)

\* Telegram signs the user's data itself; no state is kept.
TelegramAccepted(r, u) ==
    /\ Loaded(r, {"telegram"})
    /\ Grant(r, req[r].sess, u)

\* session.clear(), for whomever the copy says.
Logout(r) == LET b == req[r].browser IN
    /\ Loaded(r, {"logout"})
    /\ Save(r, Empty, None)
    /\ seen' = [seen EXCEPT ![b] = None]
    /\ out' = [out EXCEPT ![b] = @ \/ (~req[r].blank /\ Alone(r)
                                        /\ req'[r].cookie = "delete")]
    /\ UNCHANGED <<jar, issued, granted>>

\* UserBannedError, or any error a handler lets out: ServerErrorMiddleware
\* answers 500 outside SessionMiddleware, and the copy is dropped.
Crash(r) ==
    /\ Loaded(r, AllKinds \ {"logout"})
    /\ Answer(r, "keep", None)
    /\ UNCHANGED <<jar, store, minted, issued, granted, seen, quiet, out>>
-----------------------------------------------------------------------------
\* The answer reaches the browser, in whatever order the answers arrive.
Deliver(r) == LET b == req[r].browser  c == req[r].cookie IN
    /\ req[r].phase = "done"
    /\ jar' = [jar EXCEPT ![b] = IF c = "delete" THEN None ELSE IF c = "keep" THEN @ ELSE c]
    /\ req' = [req EXCEPT ![r] = NoRequest]
    /\ quiet' = [quiet EXCEPT ![b] = @ \/ (req[r].kind = "logout" /\ c = "delete" /\ Alone(r))]
    /\ UNCHANGED <<store, minted, issued, granted, seen, out>>

\* The answer is lost, and with it a cookie the browser does not have yet.
Lose(r) == LET b == req[r].browser  c == req[r].cookie IN
    /\ req[r].phase = "done"
    /\ req' = [req EXCEPT ![r] = NoRequest]
    /\ quiet' = [quiet EXCEPT ![b] = @ /\ c \in {"keep", "delete", jar[b]}]
    /\ UNCHANGED <<jar, store, minted, issued, granted, seen, out>>

\* The TTL of a row runs out, or Redis forgets it.
Expire(s) ==
    /\ store[s] # NoRow
    /\ store' = [store EXCEPT ![s] = NoRow]
    /\ quiet' = [b \in Browsers |-> quiet[b] /\ jar[b] # s
                                     /\ \A r \in Active(b) : s \notin {req[r].sid, req[r].cookie}]
    /\ UNCHANGED <<jar, req, minted, issued, granted, seen, out>>

Handle(r) ==
    \/ Untouched(r)
    \/ \E t \in Tokens : Login(r, t) \/ LibLogin(r, t)
    \/ CallbackRefused(r) \/ LibCallbackRefused(r)
    \/ \E u \in Users : \/ CallbackAccepted(r, u)
                        \/ LibCallbackAccepted(r, u)
                        \/ TelegramAccepted(r, u)
    \/ Logout(r)
    \/ Crash(r)

Next ==
    \/ \E r \in Requests, b \in Browsers, k \in Kinds, t \in Tokens \cup {None} : Send(r, b, k, t)
    \/ \E r \in Requests : Load(r) \/ LoadFails(r) \/ Handle(r) \/ Deliver(r) \/ Lose(r)
    \/ \E s \in Sids : Expire(s)

Spec == Init /\ [][Next]_vars
-----------------------------------------------------------------------------
Phases == {"none", "sent", "loaded", "done"}

TypeOK ==
    /\ jar \in [Browsers -> Sids \cup {None}]
    /\ store \in [Sids -> Content \cup {NoRow}]
    /\ req \in [Requests -> [phase : Phases, browser : Browsers \cup {None}, kind : AllKinds,
                             token : Tokens \cup {None}, sid : Sids \cup {None},
                             sess : Content, blank : BOOLEAN,
                             cookie : Sids \cup {"keep", "delete"},
                             answer : Users \cup {None}, alone : BOOLEAN]]
    /\ minted \subseteq Sids
    /\ issued \in [Tokens -> Browsers \cup {None}]
    /\ granted \subseteq Browsers \X Users
    /\ seen \in [Browsers -> Users \cup {None}]
    /\ quiet \in [Browsers -> BOOLEAN]
    /\ out \in [Browsers -> BOOLEAN]

\* The session a browser's next request would find.
Session(b) == IF jar[b] = None \/ store[jar[b]] = NoRow THEN Empty ELSE store[jar[b]]

\* A browser is only ever somebody a callback in this browser made it, however
\* requests overlap, answers get lost and rows are written back late.
UserProvenance == \A b \in Browsers :
    /\ Session(b).user # None => <<b, Session(b).user>> \in granted
    /\ \A r \in Active(b) : req[r].sess.user # None => <<b, req[r].sess.user>> \in granted

\* A callback that logs somebody in carries a token that a login in the same
\* browser made, also when the two ran with other requests between them.
AcceptsOwnState == [][\A r \in Requests :
    req[r].phase = "loaded" /\ req'[r].answer # None /\ req[r].kind # "telegram"
        => issued[req[r].token] = req[r].browser]_vars

\* After a logout that found its session and had no other request of the
\* browser beside it, the old user does not come back, whatever is sent next.
LogoutSticks == \A b \in Browsers : out[b] =>
    /\ Session(b).user = None
    /\ \A r \in Active(b) : req[r].sess.user = None

\* In a session that nothing disturbs - no overlap, no failing store, no lost
\* answer, no expiry - the browser is who its last callback or logout says.
QuietSessionExact == \A b \in Browsers :
    quiet[b] /\ Active(b) = {} => Session(b).user = seen[b]
=============================================================================
