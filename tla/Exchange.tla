------------------------------ MODULE Exchange ------------------------------
(***************************************************************************)
(* What an accepted OAuth callback does with its single-use code: redeem   *)
(* it at the provider, fetch the profile, resolve the user.  GitHub's two  *)
(* requests go through AuthHttpClient (infra/auth_http_client.py) and      *)
(* StackOverflow's first through exchange_so_token, which repeat what got  *)
(* no answer; authlib sends Google's and Yandex's once.                    *)
(*                                                                         *)
(* The callbacks here have passed the test of state (module Sessions); two *)
(* of them may bring one code, as when a browser loads the address twice.  *)
(***************************************************************************)
EXTENDS Naturals

CONSTANTS Callbacks, Codes, None,
          Provider      \* the provider that issued each code

Providers == {"github", "stackoverflow", "google", "yandex"}

ASSUME ExchangeAssumption == /\ Provider \in [Codes -> Providers]
                             /\ None \notin Callbacks

VARIABLES cb,           \* the callbacks; tries is tenacity's count of failed attempts
          redeemed,     \* the callback, and its attempt, that spent each code
          late,         \* posts given up by their callback that may still arrive
          failed        \* history: the attempts of each callback that got no answer

vars == <<cb, redeemed, late, failed>>

\* what a callback waits for, and how it ends
Stages == {"idle", "token", "profile", "resolve"}
Ends == {"in", "banned", "refused", "error", "busy", "gaveup"}
Fresh == [by |-> None, try |-> 0]

\* Slip: every token request is repeated.
TokenTriesAll(p) == 3

\* stop_after_attempt(3), where do_retry decorates the request
TokenTries(p) == IF p \in {"github", "stackoverflow"} THEN 3 ELSE 1
ProfileTries(p) == IF p = "github" THEN 3 ELSE 1

Code(c) == cb[c].code
ProviderOf(c) == Provider[Code(c)]
Attempt(c) == [by |-> c, try |-> failed[c].token + 1]
Spend(k, a) == redeemed' = IF redeemed[k] = Fresh THEN [redeemed EXCEPT ![k] = a] ELSE redeemed
Go(c, at) == cb' = [cb EXCEPT ![c] = [@ EXCEPT !.at = at, !.tries = 0]]

\* An attempt of c brought a RequestError, a 5xx or a 429: another one, or the end.
Again(c, budget) ==
    IF cb[c].tries + 1 < budget
    THEN cb' = [cb EXCEPT ![c].tries = @ + 1]
    ELSE Go(c, "gaveup")

Init ==
    /\ cb = [c \in Callbacks |-> [at |-> "idle", code |-> None, tries |-> 0]]
    /\ redeemed = [k \in Codes |-> Fresh]
    /\ late = {}
    /\ failed = [c \in Callbacks |-> [token |-> 0, profile |-> 0]]

Callback(c, k) ==
    /\ cb[c].at = "idle"
    /\ cb' = [cb EXCEPT ![c] = [at |-> "token", code |-> k, tries |-> 0]]
    /\ UNCHANGED <<redeemed, late, failed>>

\* Google's answer holds the profile already.
TokenGranted(c) ==
    /\ cb[c].at = "token" /\ redeemed[Code(c)] = Fresh
    /\ Spend(Code(c), Attempt(c))
    /\ Go(c, IF ProviderOf(c) = "google" THEN "resolve" ELSE "profile")
    /\ UNCHANGED <<late, failed>>

\* Slip: GitHub's 200 is taken for a token without a look for "error".
TokenRefusedTaken(c) ==
    /\ cb[c].at = "token" /\ redeemed[Code(c)] # Fresh
    /\ Go(c, IF ProviderOf(c) = "github" THEN "profile" ELSE "refused")
    /\ UNCHANGED <<redeemed, late, failed>>

\* A spent code: GitHub's 200 with an error, StackOverflow's 400, authlib's
\* OAuthError.  None of them is retryable.
TokenRefused(c) ==
    /\ cb[c].at = "token" /\ redeemed[Code(c)] # Fresh
    /\ Go(c, "refused")
    /\ UNCHANGED <<redeemed, late, failed>>

\* Any other answer without a token in it; the code may be spent by it.
TokenUnusable(c) ==
    /\ cb[c].at = "token"
    /\ UNCHANGED redeemed \/ Spend(Code(c), Attempt(c))
    /\ Go(c, "error")
    /\ UNCHANGED <<late, failed>>

\* No answer: the post was carried out, or never will be, or will be later.
TokenLost(c) ==
    /\ cb[c].at = "token"
    /\ failed' = [failed EXCEPT ![c].token = @ + 1]
    /\ Again(c, TokenTries(ProviderOf(c)))
    /\ \/ Spend(Code(c), Attempt(c)) /\ UNCHANGED late
       \/ UNCHANGED <<redeemed, late>>
       \/ late' = late \cup {Attempt(c)} /\ UNCHANGED redeemed

Land(a) ==
    /\ a \in late
    /\ late' = late \ {a}
    /\ Spend(Code(a.by), a)
    /\ UNCHANGED <<cb, failed>>

ProfileAnswered(c) ==
    /\ cb[c].at = "profile"
    /\ Go(c, "resolve")
    /\ UNCHANGED <<redeemed, late, failed>>

\* Slip: the attempts begin again when they are used up.
ProfileLostForever(c) ==
    /\ cb[c].at = "profile"
    /\ cb' = [cb EXCEPT ![c].tries = (@ + 1) % ProfileTries(ProviderOf(c))]
    /\ UNCHANGED <<redeemed, late, failed>>

ProfileLost(c) ==
    /\ cb[c].at = "profile"
    /\ failed' = [failed EXCEPT ![c].profile = @ + 1]
    /\ Again(c, ProfileTries(ProviderOf(c)))
    /\ UNCHANGED <<redeemed, late>>

\* A 4xx or an answer without the user; StackOverflow's backoff is passed on
\* as a 429.
ProfileRefused(c) ==
    /\ cb[c].at = "profile"
    /\ \/ Go(c, "error")
       \/ ProviderOf(c) = "stackoverflow" /\ Go(c, "busy")
    /\ UNCHANGED <<redeemed, late, failed>>

\* get_safe_user_info and pg_resolve_user_id; only "in" writes to the session.
Resolve(c) ==
    /\ cb[c].at = "resolve"
    /\ \E end \in {"in", "banned", "error"} : Go(c, end)
    /\ UNCHANGED <<redeemed, late, failed>>

Token(c) == TokenGranted(c) \/ TokenRefused(c) \/ TokenUnusable(c) \/ TokenLost(c)
Profile(c) == ProfileAnswered(c) \/ ProfileLost(c) \/ ProfileRefused(c)
Work(c) == Token(c) \/ Profile(c) \/ Resolve(c)

Next ==
    \/ \E c \in Callbacks : Work(c) \/ \E k \in Codes : Callback(c, k)
    \/ \E a \in late : Land(a)

Spec == Init /\ [][Next]_vars

\* The server goes on with a callback it has begun: every request has a
\* time-out (auth_timeout), so each attempt ends one way or another.
FairSpec == Spec /\ \A c \in Callbacks : WF_vars(Work(c))
-----------------------------------------------------------------------------
\* The callbacks have attempts left while they make them, a code is spent by an
\* attempt that a callback has made for it, and a post that is late is one that
\* its callback has given up.
TypeOK ==
    /\ cb \in [Callbacks -> [at : Stages \cup Ends, code : Codes \cup {None}, tries : Nat]]
    /\ redeemed \in [Codes -> [by : Callbacks \cup {None}, try : Nat]]
    /\ late \subseteq [by : Callbacks, try : Nat]
    /\ failed \in [Callbacks -> [token : Nat, profile : Nat]]
    /\ \A c \in Callbacks :
        /\ cb[c].at # "idle" => Code(c) \in Codes
        /\ cb[c].at = "token" => /\ cb[c].tries = failed[c].token
                                 /\ cb[c].tries < TokenTries(ProviderOf(c))
        /\ cb[c].at = "profile" => /\ cb[c].tries = failed[c].profile
                                   /\ cb[c].tries < ProfileTries(ProviderOf(c))
    /\ \A k \in Codes : redeemed[k] # Fresh =>
        /\ redeemed[k].by \in Callbacks /\ Code(redeemed[k].by) = k
        /\ redeemed[k].try \in 1..(failed[redeemed[k].by].token + 1)
    /\ \A a \in late : a.try \in 1..failed[a.by].token

\* A login whose code the provider refuses as spent has spent it itself, with an
\* earlier attempt whose answer it did not wait for - which only GitHub's and
\* StackOverflow's can, the price of do_retry (auth_http_client.py 60-66,
\* callback_helpers.py 73-83) - or another callback came with the same code.
RefusalExplained == \A c \in Callbacks : cb[c].at = "refused" =>
    LET r == redeemed[Code(c)] IN
    \/ r.by \in Callbacks \ {c}
    \/ r.by = c /\ r.try <= failed[c].token /\ ProviderOf(c) \in {"github", "stackoverflow"}

\* A login is given up for want of answers only when one of its two requests
\* got none as often as it may be tried: failures of the first are not charged
\* to the second.
GiveUpEarned == \A c \in Callbacks : cb[c].at = "gaveup" =>
    \/ failed[c].token = TokenTries(ProviderOf(c))
    \/ failed[c].profile = ProfileTries(ProviderOf(c))

\* At most one callback gets as far as a profile with a code, however many
\* callbacks and attempts bring it and however late they arrive.
OneLoginPerCode == \A c, d \in Callbacks :
    /\ cb[c].at \in {"profile", "resolve", "in"}
    /\ cb[d].at \in {"profile", "resolve", "in"}
    /\ Code(c) = Code(d)
    => c = d

\* How many answers, and attempts without one, a callback has before it at most.
Ahead(c) == LET p == ProviderOf(c) IN
    CASE cb[c].at = "token" -> TokenTries(p) - cb[c].tries + ProfileTries(p) + 1
      [] cb[c].at = "profile" -> ProfileTries(p) - cb[c].tries + 1
      [] cb[c].at = "resolve" -> 1
      [] OTHER -> 0

\* Whatever comes back, or does not, brings a callback nearer to its end: no
\* retry, and no post that lands late, begins anything anew; and after the end
\* nothing happens to it.
RetriesShrink == [][\A c \in Callbacks : cb[c].at # "idle" /\ cb'[c] # cb[c] =>
    Ahead(c)' < Ahead(c) /\ Ahead(c) <= 7]_vars

\* The retries end: every callback is answered.
CallbacksEnd == \A c \in Callbacks : cb[c].at # "idle" ~> cb[c].at \in Ends
=============================================================================
