# Space-Killer: specifications and proofs

Space-Killer is a FastAPI application: people log in through Google, GitHub,
Yandex, StackOverflow or Telegram, get a profile with an avatar, and look at a
feed and at a map of satellites that a separate worker feeds. This directory
holds TLA+ models of the parts whose correctness depends on the order in which
things happen, the TLC configurations that check them on small instances, and
TLAPS proofs of the theorems that matter most. Paths below are relative to the
repository.

## The system

| Component | State | Operations | Talks to | Hard because |
|---|---|---|---|---|
| Account directory `src/modules/auth/common/postgres_repo.py`, `mappers.py`, `src/infra/persistence/models` | tables `users`, `profiles`, `user_identities` | `pg_resolve_user_id` | called at the end of every callback | concurrent first logins, two paths to a user, statuses read and then acted on, crashes |
| Login sessions `src/main.py`, `src/infra/session_store.py`, `serializer.py`, `src/modules/auth/**` | cookie `sid`, a row in Redis, a copy per request | login, callback, logout, every page | the providers, Redis, the account directory | each request rewrites the whole row, requests of a browser overlap, Redis fails |
| Avatars `src/ui/entrypoint.py`, `src/infra/seaweed.py`, `user_profile_repo.py` | `profiles.fid`, blobs in SeaweedFS | upload, delete | PostgreSQL, SeaweedFS | two stores, no common transaction, time-outs |
| Profile pages `src/ui/entrypoint.py`, `src/modules/profile` | `profiles.nickname`, `bio` | view, edit | PostgreSQL | they assume that a session's user has a profile, and write back what a form read earlier |
| OAuth exchange `src/infra/auth_http_client.py`, `stackoverflow/callback_helpers.py`, the callback handlers | a single-use code | redeem, fetch the user, retry | the providers | a retry after a lost answer |
| Rate limiting `src/core/dependencies.py` | GCRA counters in Redis | check | Redis | none of it is this code's: one script of a library |
| Lifespan `src/core/lifespan*.py`, the `connect`/`disconnect` of each manager, `src/healthz.py` | one client per service | start, stop, ping | all services | partial failure, cancellation by time-out |
| Scylla manager `src/infra/scylla/manager.py` | session, cache of prepared statements | connect, query, disconnect | Scylla | the cache is used across awaits (not started by the application at this commit) |
| NATS manager `src/infra/nats/core_manager.py` | one connection | connect, disconnect, publish, subscribe, ping | NATS | a slot tested before an await and assigned after it (not started either) |
| Geo worker `src/modules/geo`, `src/infra/centrifugo.py` | satellites, matrix, ticker task | TLE update, tick, stop | Centrifugo, APScheduler | two tasks share the matrix, and one may die unnoticed |

What makes each of them correct:

- *Account directory*: an account always leads to the same user; nobody is
  duplicated, left without a profile or out of reach; bans hold.
- *Sessions*: a browser is only ever somebody it logged in as; a login is
  accepted only with a token made for this browser; a logout is final.
- *Avatars*: a profile shows a picture that exists; no picture is left over
  without a reason.
- *Profile pages*: a session's user has a profile; nobody's edit is undone by
  somebody else's login, nor by a form that still shows its row.
- *Exchange*: a granted login is not refused without a reason; one code gives
  one login; retries end.
- *Lifespan*: what was opened is closed; the process serves only when connected;
  "ready" means ready; start and end always finish.
- *Scylla*: a statement is executed by the session that prepared it; the cache
  keeps its bound; nobody waits for ever for its lock.
- *NATS*: a connection is closed by somebody, and not while it is used.
- *Geo*: an update is not missed, and the ticker survives a bad TLE.

`PROJECT.json` lists every hazard with the line where it bites and the
properties that watch it.

## The modules

| Module | Models | Theorems in |
|---|---|---|
| `Directory` | the abstract account directory: a login is one step that registers a user, links an account, or (the one hole) strands a user | `AccountsProofs` |
| `Accounts` | `pg_resolve_user_id`, one action per SQL statement; implements `Directory` | `AccountsProofs` |
| `Sessions` | cookie, Redis row and request copies with all login, callback and logout handlers | `SessionsProofs` |
| `Avatar` | uploads and deletes over PostgreSQL and SeaweedFS | `AvatarProofs` |
| `App` | `EXTENDS Accounts`: sessions, pages and the profile form on top of the directory | `AccountsProofs` |
| `Exchange` | the requests of an OAuth callback with their retries | `ExchangeProofs` |
| `Lifespan` | start, life and end of the web process, with the readiness probe | `LifespanProofs` |
| `Scylla` | queries through the statement cache, beside connects and disconnects | `ScyllaProofs` |
| `Nats` | overlapping connects and disconnects over one slot | `NatsProofs` |
| `Geo` | TLE updates, ticks and the end of the ticker | `GeoProofs` |
| `MC*` | the small sets TLC works on, and their symmetries | |

Each component module has *slips*: versions of an action as a
plausible mistake would make them (a lock that is not taken, a check that is
forgotten, a step left out). No specification contains them. For every
property of every run one slip, put in the place of the action it resembles,
makes TLC report that property violated (`mutants` in `PROJECT.json`).

Actions are as large as the code allows: what asyncio runs between two awaits
(`Sessions`, `Avatar`, `Exchange`, `Lifespan`, `Scylla`, `Nats`, `Geo`), or one SQL
statement (`Accounts`), is one step. Variables under *history* are not in the
code; they record what a property has to know about the past.

### Accounts

`status`, `email`, `profiled`, `identity` are the committed rows; `pc`, `info`,
`found`, `writes`, `result` are one transaction per login slot. A statement reads
what is committed when it runs (READ COMMITTED) and adds to `writes`, which
`Commit` applies together. What a transaction has locked follows from its
writes: the row or unique-index entry of the address (`users.email`), of
`lower(profiles.username)`, and of `(provider, provider_user_id)`; a statement
that needs one is enabled when no other transaction has it, which is waiting.

- `Search` is `_build_fast_way` with the two status tests (lines 58-76). It
  locks nothing, so `Reactivate` may act on a status that is no longer true.
- `UpsertKnown` and `UpsertNew` are the two outcomes of `INSERT ... ON CONFLICT
  (email) DO UPDATE` (78-83). `SET email = email` changes nothing but takes the lock.
- `InsertProfile` and `InsertIdentity` have the `DO NOTHING` branch; a username
  that is taken is no conflict on `user_id` and fails the transaction.
- `Commit(l, "error")` is a commit whose answer is lost; `Fail` is every other
  failure, at every statement, with `session_maker.begin()` rolling back.
- `Moderate` is external: no code of the repository sets `BANNED` or `DELETED`,
  somebody with SQL does.

For every provider but Google the address is made from the provider's id, so an
account has one address; a Google account may report a new one. `MailsOf`
carries this. Names, verification and timestamps are abstracted away; so is the
failure of an overlong name, which is among the outcomes of `Fail`.

### Sessions

A request is *sent* with the cookie the browser has, *loaded* (a copy of the row,
or an empty session when there is no row or the read fails), *handled* and
saved, and its answer is *delivered* or lost. Handlers only touch the copy, so
handling and saving are one action; everything between load and save is open
to the browser's other requests. The middleware
saves the whole copy whatever the handler did (`rolling=True`), under the sid
that came with the request; an empty copy that was empty before saves nothing;
one that was not deletes row and cookie. A failing write answers 500, and Redis may
have carried it out. `UserBannedError` has no handler and passes the middleware
by: nothing is saved (`Crash`).

`state` is the one slot that all logins write (`login.py`, 21), including those
of Google and Yandex, for whom nobody asks for it (`Junk`); `pending` stands for
the keys authlib keeps per token. GitHub and StackOverflow pop the slot before they
compare. A callback may be opened in another browser, or twice. The store is
a library's (starsessions) around this repository's `RedisSessionStore`; the save
rules are modelled from how the library uses that store.

### Avatar

`Assign`, `Upload`, `Record` are the awaits of `upload_avatar`; `ReadAvatar`,
`Erase`, `Clear` those of `delete_avatar`. A call to SeaweedFS that fails for
the handler may have been carried out or be carried out later (`late`, `doomed`,
`Land`, `Vanish`). `Erase` goes on whatever `delete_blob` answers, and `Clear`
tests nothing but the user, as in the code. `Abandon` is a failed call (the
handler answers 500) or the death of the process. Every user has a row
in `profiles`, which `AccountsComplete` justifies.

### App

A composition: `App` extends `Accounts`, a browser is a login slot, and what the
slot's callback answers goes into the browser's session `user`. `Callback` is any
step of the transaction together with what the handler does when it ends;
`EditForm` and `CloseForm` are `edit_form_fragment` and `view_fragment` (or a tab that
goes elsewhere), `Save` and `SaveRefused` are `save_profile_fragment`. A browser has
`Tabs`, and a form stays open in its tab when the session ends or passes to another
user: neither the callback nor the logout knows of it. A save needs a session and
nothing else. It writes what the request carries, from an open form or not, into the
profile of the session's user, whosever profile the form was read from (`form[t].of`, a
history field) and whatever was saved since (`overtaken`); the form is gone with the
answer, or stays when that is lost. A save that is refused puts what was sent back
into the form. `nickname.strip()` is `Trim`: only the provider's name can have outer blanks,
since what people enter has lost them. `Name` says how a profile gets its
nickname. The many pages that only read, and requests without a session, change
nothing. The overlap of one browser's own requests is the subject of
`Sessions`; here browsers overlap with each other. `Composition` proves that
every step of `App` is a step of `Accounts` or leaves it alone, so that all
theorems about the directory hold in the application.

### Exchange

`cb` is a callback with the request it waits for and the number of failed
attempts, as tenacity counts them; `redeemed` says which attempt spent a code.
`TokenLost` is an attempt without an answer, or with one of the retryable statuses:
its post was carried out, never will be, or is `late` and may still `Land`. The budgets are those of `do_retry` (GitHub's two
requests), of `exchange_so_token` (StackOverflow's first), and one for everything
else: StackOverflow's profile, and what authlib sends for Google and Yandex. `TokenRefused` is a provider's answer to
a spent code, in the three forms the handlers tell apart.

### Lifespan

No parameters: the managers are the four of the code. `at` is how far the
`safe_start` of each is, `client` whether it holds a client, `open` whether a
client has not been closed. `TimeOut` is the cancellation by `wait_for`, which no
`except Exception` sees: what `connect` had assigned stays, and the start goes
on to `Settle`, which either serves or turns to `silent_close`. `Service` lets any service come and go at any time. The probe is
four pings at once under one time limit, and `Pong` has SeaweedFS's `False`,
which is no error.

### Scylla

`prepared` is the `OrderedDict`, `lock` and `waiting` the `asyncio.Lock` with its
queue. `Call` is a query up to its first await: a hit (`Use`), a miss with the lock
free (`Prepare`: make room, ask for the session), or a wait. `Enter` gets the lock and
looks again; `Prepared` fills the cache; `Break` is a failure or a cancellation
anywhere. `Connect`, `Connected`, `ConnectFails`, `Disconnect`, `Teardown` are the life of the
manager, in any number of overlapping tasks, beside the queries.

### Nats

`nc` is the slot, `client` the state of every connection ever made, `task` the
calls of `connect` and `disconnect` at their awaits. `Connected` assigns the slot
whatever it holds by then, `Drained` empties it likewise, and `DrainTimesOut` closes
the connection the slot has at that moment, or fails on `None` when another call has
emptied it. `DrainBreaksOff` is a disconnect that is cancelled, or whose drain raises
something else than a time-out: `close` is passed over, the slot is emptied, and the
connection, drained half-way, is `stuck`. `silent_close`, through which the shutdown would call
it, has the same limit of five seconds as the drain, so the cancellation is
a time-out like any other. `DisconnectInVain` is a drain that returns or raises at once because the
connection is draining, closed or reconnecting. What a connection does by itself
(`Outage`, and how `drain` answers in each state) is nats-py's and external.

### Geo

`rec` is the parsed element set of each satellite, `named` the satellites with a
`norad_id`, `needs` the rebuild flag, `array` and `idMap` the matrix and its
ids. `Update` is one `update_tle`: no await, so one action over a whole
catalogue, a sequence of triples of which some are bad (the orbit model reports an
error) or junk (they cannot be parsed). `Tick` is one pass of `_bulk_ticker` up to
its await: rebuild if the flag is up, compute, publish. `Published`, `Wake`
and `Stop` are the awaits. Positions and their arithmetic are abstracted away.

## What the runs check

| Run | Instance | Shows |
|---|---|---|
| `accounts` | 2 logins at a time, any number in sequence; 2 Google accounts, one of which changes to the other's address; 3 users, two of them with the same username; moderation at any moment | `AccountsComplete`, `UsersDistinct`, `NoCircle`, `AnswerIsBound`, `BindingsStable`, `StatusHonoured`, `BanLiftedOnlyByStaleRead`, and the refinement `DirectorySpec` |
| `accounts_live` | 3 accounts with one address each, two of them sharing it; 2 users with one username | `NobodyStranded`, `LoginsEnd` |
| `sessions` | 1 browser, 2 requests at a time of all 7 kinds, 2 sids, 2 users | `LogoutSticks`, `QuietSessionExact` |
| `sessions_two` | 2 browsers, 2 requests, 2 tokens; pages, GitHub/StackOverflow logins and callbacks | `UserProvenance`, `AcceptsOwnState` |
| `avatar` | 2 users, 3 requests, 2 fids | `NoBrokenAvatar`, `AnswerExact`, `GarbageExplained` |
| `app` | 2 browsers without forms; 2 accounts, one of which may report the other's address or one of its own; 2 users | `SessionServed`, `BannedBeginNothing` |
| `app_forms` | 1 browser with 2 tabs, the same accounts, 1 name to enter and a provider's name with outer blanks, nobody banned or deleted | `FormsCurrent`, `EditsKept` |
| `exchange` | 2 callbacks, one code of each of the 4 providers | `RefusalExplained`, `OneLoginPerCode`, `RetriesShrink`, `CallbacksEnd` |
| `lifespan` | the 4 managers, complete | `ReadyMeansReached`, `ClosedAtExit`, `ServesConnected`, `Decides` |
| `scylla` | 2 queries at a time over 2 statements, a cache of 1, 2 connects or disconnects at a time, 2 clusters | `CacheBounded`, `PreparesOnce`, `StaleExplained`, `LeaksExplained`, `LockServed`, `CallsEnd` |
| `geo` | 2 satellites, 2 good element sets, catalogues of up to 3 triples | `NothingMissed`, `DeathExplained`, `CatchesUp` |
| `nats` | 3 connects or disconnects at a time, 3 connections | `LossesExplained`, `WorkingSpared` |

Why these bounds are enough to be interesting. The hazards of the directory are
between two transactions, and a third user leaves room for one that is stranded;
`MailsOf` is chosen so that one account presents two addresses and two accounts present
the same one. The hazards of a session are between two requests of one browser, or one
request each of two; requests end and are sent again, so histories
are long although only two run at a time. Sids and tokens are made once and run
out: two of each let a browser lose its session and get another. Two
file ids and three requests let an avatar be replaced and deleted while another
upload is on its way. Two callbacks may carry one code, and the three attempts of a
budget are all there. A cache of one statement makes every second query evict, and
the second query waits for the lock of the first. Two clusters let a teardown meet the next
session. Three connections let one be replaced, one be drained and one be in use.
Two tabs of one browser let
a form be overtaken, and be sent when the session has passed to the other user; a save
from another browser of that user is to the row what one from the other tab is, and the theorems
are about any number of browsers. The constraint `Unmoderated` of that run leaves out
statuses, which no form depends on. A catalogue of three triples can name a satellite twice, once well and once
badly. All bounds are the sizes of these sets, `Unmoderated` and `MaxTriples`; what counts
(`tries`, `failed`) is bounded by the code's own budgets.

What the properties say about the code, where it may surprise:

- A ban can be lifted by a login whose search came before it
  (`BanLiftedOnlyByStaleRead` says: only so), and a deleted user who comes in by
  address is logged in and stays deleted (`StatusHonoured`). A session outlives the
  ban of its user; what a ban stops is new sessions, but for logins that had searched before it
  (`BannedBeginNothing`).
- A form read as one user can be saved into another's profile, and an old form undoes what
  was saved since: `EditsKept` names these two as the only ways in which a nickname is
  replaced by one that nobody typed.
- A Google account that changed its address and logs in twice at once, its first
  time, can leave a user behind whom no account leads to. `Directory!Strand` names
  the hole, and `NobodyStranded` shows that accounts with one address are free of it.
- A logout is final only if nothing overlapped it and its session was read:
  `LogoutSticks` has both conditions, and fails without either.
- A single answer about an avatar is only as good as the absence of overlaps
  (`AnswerExact`), deletes can lose an upload and leave pictures behind
  (`GarbageExplained` lists how), but a profile never ends up pointing at
  nothing by overlap alone (`NoBrokenAvatar`).
- A retry can spend a code and then be refused for it: `RefusalExplained` names this
  as one of two reasons a granted login fails, possible at GitHub and StackOverflow only.
- A Redis client is never closed by the end of the process: `ClosedAtExit` says that its
  manager still holds it, and that nothing else is lost.
- A statement that was being prepared when its session was torn down goes into the
  cache of the next session (`StaleExplained`), and overlapping connects lose clusters
  (`LeaksExplained`).
- A drain of NATS that times out may close somebody else's connection, but only after
  an overlap (`WorkingSpared`). A disconnect that is cancelled during the drain forgets a living
  connection, without any overlap (`LossesExplained`).
- Bad elements stop the ticker for good if they are the first a satellite gets, and
  only then (`DeathExplained`).

Deadlock is checked in every run but these, where the modelled system comes to rest:
`exchange` (a callback is made once),
`lifespan` (the process has ended), `scylla` (the clusters are used up) and `geo`
(the worker has stopped).

### Fairness

Failures, new requests, new calls, moderation and services that come back have no fairness
anywhere. What is assumed:

- `Accounts`: strong fairness of each login's next statement. A statement without a
  lock to wait for runs, because the event loop and PostgreSQL go on; one that waits
  gets the lock although others take it in between, because PostgreSQL queues those
  who wait. `LoginsEnd` says that every login comes to its end.
- `Exchange`: weak fairness of each callback's work; `auth_timeout` ends every request
  one way or another. `CallbacksEnd` says that the retries do not go on for ever.
- `Lifespan`: weak fairness of the start and end of the process, and of each manager's
  own start, whose steps include its time-out. That a service ever answers is not
  assumed: `Decides` holds with all of them away.
- `Scylla`: weak fairness of each query's next step. The driver answers or raises after
  `request_timeout`, and `asyncio.Lock` is first come, first served; that a query
  breaks off is not assumed. `CallsEnd` needs the lock to be handed on in every case.
- `Geo`: weak fairness of the ticker, whose sleep ends and whose publication has a
  time-out. `CatchesUp` says that good elements reach the computation.

## What is proved

Assumed: one `ASSUME` per module, which says that the constants are of the right kind,
that `None` and the other markers are none of them, that the cache has room for one
statement, and that a catalogue is a sequence of triples. `Lifespan` has no parameters and
assumes nothing. The theorems hold for any number of logins, users, browsers, requests,
callbacks, queries, tasks, connections and satellites. Type correctness is a theorem of
every module and no property of a run.

**Directory** (`AccountsProofs`, where it is `Dir`): `OwnersExist` and `Reachable`. It has no run
of its own: the runs of `Accounts` check that it is implemented, and `NobodyStranded` is `Reachable`
read from the rows.

**Accounts** (`AccountsProofs`): `AccountsComplete`, `UsersDistinct`, `BindingsStable`,
`StatusHonoured`, `BanLiftedOnlyByStaleRead`, `AnswerIsBound`, `NoCircle`, `DirectorySpec` (the
transactions implement `Directory` with `owner <- identity`) and `NobodyStranded`.
None of these is inductive alone: that a row is complete after a commit
depends on what the transaction did before. `IInv` is

- `TypeOK`;
- `RowsOK`: the committed rows are complete and distinct, which is what a transaction
  may rely on;
- `LocksExclusive`: no two transactions have the same address, username or account
  locked, so nothing a transaction found under its lock is outdated when it commits;
- `LoginsOK`: per login, the writes fit the stage (`StageOK`), what they will do to
  the rows is still right (`WritesOK`), and the status it saw is the status unless
  `touched`, which collects changes from the login's search on, says otherwise (`StatusOK`).

Steps that leave the tables alone change one login only and are handled by the
lemmas `LocalStep` and `RollbackStep`; `CommitStep` is the heart, with one lemma per
conjunct. `Refinement` maps a commit that inserts user and identity to `Register`,
one that inserts an identity to `Link`, one that inserts a user to `Strand`, and
everything else to a stutter. What the directory promises then holds of the rows
(`RowsReachable`), and `NoStranding` is that promise read for the accounts: it is
proved once, of the small specification, and carried over.

`NoCircle` is proved by the order of the locks. `Position` numbers the next statement of a
transaction, and `WaitsUpward` shows that who is waited for is at a later one: a row or
index entry is locked only by a transaction that has gone past the statement that locks
it. The transaction furthest ahead in any set waits for nobody in it.

**Sessions** (`SessionsProofs`): `UserProvenance`, `LogoutSticks`, `QuietSessionExact`,
`AcceptsOwnState`. `IInv` needs to know whose a session is. `Knows(b, s)` says that
browser b has the sid s in its cookie, in a request under way or in an answer to it;
`OneOwner` that no sid is known to two browsers and that none is before it is minted.
From this `RowsFit` and `CopiesFit`: what rows and copies hold, user and tokens, was
granted and issued to the browser that knows the sid. `AloneIsAlone` and `QuietIsExact`
say what the history variables are worth. A step changes one request and at most one
row, so that for another browser nothing changes: one lemma per kind of save
(nothing, destroy, write, failure), and one per request step, does the work.

**Avatar** (`AvatarProofs`): `NoBrokenAvatar`, `AnswerExact`, `GarbageExplained`. `IInv`
has `OneOwner` (a file id is never held by two users), `UploadsFresh` (an upload's
fid is nowhere else, so its blob is not about to vanish), `DoomKnown` and `ErasedGone` (what a
delete has told SeaweedFS), `AloneIsAlone`, and the properties themselves.

**App** (`AccountsProofs`): `Composition` (every behaviour of `App` is one of
`Accounts`, hence of `Directory`: `AppRefinement`), then `SessionServed`,
`FormsCurrent`, `EditsKept`, `BannedBeginNothing`, from the invariants of `Accounts` and
`PagesOK`, which ties sessions and forms to rows. `FormsCurrent` is not enough for `EditsKept`,
because a refused form shows what was typed: `NicknameOK` says what such a form may still hold of
the row.

**Exchange** (`ExchangeProofs`): `RefusalExplained`, `OneLoginPerCode`, and
`GiveUpEarned`: a login is given up only when one request has used its own attempts.
`Held` says that whoever has a token has spent the code, with an attempt of its own.
`RetriesShrink` is the part of termination that needs no fairness: `Ahead` counts what a
callback may still do, up to three attempts for each request and one step for the answer, and
every step of the callback lowers it. The budgets are those of the code, so no order of
losses can make the retries go on.

**Lifespan** (`LifespanProofs`): `ReadyMeansReached`, `ClosedAtExit`, `ServesConnected`.
TLC's run is complete here; the proof says why the result holds. `StartOK` says what a
manager that has come so far holds and has seen, also when it was cancelled on the way;
`ServeOK` ties the probe to the process; `EndOK` says, for each rest of `silent_close`'s
list, which clients are already gone.

**Scylla** (`ScyllaProofs`): `CacheBounded`, `PreparesOnce` and `ReadyHasSession`, whatever
overlaps; the key is `Locking`: the query that prepares holds the lock, and the room it
made stays. `StaleExplained` and `LeaksExplained` from `Sequential`, which is what holds as
long as connects and disconnects come one after the other. `LockServed` from
`Queued`: who enters, and who is cancelled in the middle of the queue, leaves it, and nobody is
in it twice.

**Nats** (`NatsProofs`): `LossesExplained`, `WorkingSpared`. `IInv` is about the calls nobody
ran into: such a call has the slot as it found it (`AloneOwns`), a draining task drains
its own connection (`DrainsOwn`), and a draining one in the slot is drained by somebody (`SlotDrained`). A drain that breaks
off is a reason of its own.

**Geo** (`GeoProofs`): `NothingMissed` and `DeathExplained`, for catalogues of any length. What a
catalogue leaves behind is the last good triple of each satellite; that there is one is the
well-foundedness of the order of the natural numbers, by which the set of the positions behind
the good ones has a least member (`LastPosition`). `IInv` adds that the satellites with parsed
elements are those with an id, unless bad elements came first.

Only model-checked: the five liveness properties (`LoginsEnd`, `CallbacksEnd`, `Decides`,
`CallsEnd`, `CatchesUp`). Fairness and `ENABLED` are out of the prover's reach. What of them is
safety is proved: nobody waits in a circle (`NoCircle`), retries are used up
(`RetriesShrink`), the lock is never left behind (`LockServed`), no update is forgotten
(`NothingMissed`).

## Not modelled

- `src/modules/geo/local_tles.py` is 46157 of the repository's 50392 lines: a
  catalogue of orbital elements as data. No model can map it; the share of the *code* that is modelled is
  what the rest of the lines says. In `Geo` it is one of the catalogues an update may bring.
- Orbits (floating-point arithmetic of a library), and rate limiting (GCRA in a library's Redis
  script; a refused request is a step of `Sessions` that leaves the session as it was).
- The length of a provider's name against `String(50)`: names are abstracted, the failure it
  causes is one of `Fail`'s. It is listed as a hazard without a property.
- The feed (a redirect), schema and migrations (run by hand; their constraints are in
  `Accounts`), templates and front end, deployment, settings, logging: no state, or no code
  of their own that could go wrong by order.
- Scylla's paging and rows, the content of NATS messages, and Centrifugo's client, of
  which `Geo` has the outcome of a publication.
