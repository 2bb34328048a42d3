--------------------------- MODULE ExchangeProofs ---------------------------
(* Proofs about Exchange, for any number of callbacks and codes. *)
EXTENDS Exchange, TLAPS

\* What the callbacks keep to on their way: nothing has failed before it was
\* begun, whoever has a token has spent the code, and whoever still asks for one
\* can have spent it only with a post it no longer waits for.
Held == \A c \in Callbacks :
    /\ cb[c].at = "idle" => failed[c].token = 0 /\ \A k \in Codes : redeemed[k].by # c
    /\ cb[c].at \in {"idle", "token"} => failed[c].profile = 0
    /\ cb[c].at \in {"profile", "resolve", "in"} => redeemed[Code(c)].by = c
    /\ cb[c].at = "token" /\ redeemed[Code(c)].by = c
        => redeemed[Code(c)].try <= failed[c].token

IInv == TypeOK /\ Held /\ RefusalExplained /\ GiveUpEarned
-----------------------------------------------------------------------------
LEMMA Budgets ==
    ASSUME NEW p \in Providers
    PROVE  /\ TokenTries(p) \in 1..3 /\ ProfileTries(p) \in 1..3
           /\ TokenTries(p) > 1 => p \in {"github", "stackoverflow"}
BY DEF TokenTries, ProfileTries, Providers

LEMMA Initially == Init => IInv
<1> SUFFICES ASSUME Init PROVE IInv
  OBVIOUS
<1> USE ExchangeAssumption DEF Init
<1>1. TypeOK
  BY DEF TypeOK, Stages, Fresh
<1>2. Held /\ RefusalExplained /\ GiveUpEarned
  BY DEF Held, RefusalExplained, GiveUpEarned, Fresh
<1> QED BY <1>1, <1>2 DEF IInv

\* A callback that goes elsewhere keeps its code, and the others stay.
LEMMA Goes ==
    ASSUME TypeOK, NEW c \in Callbacks, NEW at \in Stages \cup Ends, Go(c, at)
    PROVE  /\ cb' \in [Callbacks -> [at : Stages \cup Ends, code : Codes \cup {None}, tries : Nat]]
           /\ cb'[c].at = at /\ cb'[c].tries = 0
           /\ \A d \in Callbacks \ {c} : cb'[d] = cb[d]
           /\ \A d \in Callbacks : Code(d)' = Code(d) /\ ProviderOf(d)' = ProviderOf(d)
<1>1. cb[c] \in [at : Stages \cup Ends, code : Codes \cup {None}, tries : Nat]
  BY DEF TypeOK
<1> DEFINE new == [cb[c] EXCEPT !.at = at, !.tries = 0]
<1>2. cb' = [cb EXCEPT ![c] = new]
  BY DEF Go
<1>3. /\ new \in [at : Stages \cup Ends, code : Codes \cup {None}, tries : Nat]
      /\ new.at = at /\ new.tries = 0 /\ new.code = cb[c].code
  BY <1>1
<1> HIDE DEF new
<1>4. /\ cb' \in [Callbacks -> [at : Stages \cup Ends, code : Codes \cup {None}, tries : Nat]]
      /\ cb'[c] = new
      /\ \A d \in Callbacks \ {c} : cb'[d] = cb[d]
  BY <1>2, <1>3 DEF TypeOK
<1>5. \A d \in Callbacks : cb'[d].code = cb[d].code
  BY <1>3, <1>4
<1> QED BY <1>3, <1>4, <1>5 DEF Code, ProviderOf

LEMMA GoKeeps ==
    ASSUME IInv, NEW c \in Callbacks, NEW at \in Stages \cup Ends, Go(c, at),
           cb[c].at # "idle", UNCHANGED <<redeemed, late, failed>>,
           at \in {"resolve", "in"} => cb[c].at \in {"profile", "resolve"},
           at \in {"resolve", "in", "banned", "error", "busy", "refused"},
           at = "refused" => cb[c].at = "token" /\ redeemed[Code(c)] # Fresh
    PROVE  IInv'
<1> USE DEF IInv
<1>1. /\ cb' \in [Callbacks -> [at : Stages \cup Ends, code : Codes \cup {None}, tries : Nat]]
      /\ cb'[c].at = at
      /\ \A d \in Callbacks \ {c} : cb'[d] = cb[d]
      /\ \A d \in Callbacks : Code(d)' = Code(d) /\ ProviderOf(d)' = ProviderOf(d)
  BY Goes
<1>2. TypeOK'
  BY <1>1 DEF TypeOK
<1>3. Held'
  BY <1>1 DEF Held
<1>4. RefusalExplained'
  <2>1. ASSUME at = "refused"
        PROVE  LET r == redeemed[Code(c)] IN
               \/ r.by \in Callbacks \ {c}
               \/ r.by = c /\ r.try <= failed[c].token /\ ProviderOf(c) \in {"github", "stackoverflow"}
    <3>1. /\ cb[c].at = "token" /\ Code(c) \in Codes /\ redeemed[Code(c)] # Fresh
          /\ redeemed[Code(c)].by \in Callbacks
          /\ redeemed[Code(c)].try \in 1..(failed[redeemed[Code(c)].by].token + 1)
      BY <2>1 DEF TypeOK
    <3>2. CASE redeemed[Code(c)].by = c
      <4>1. redeemed[Code(c)].try <= failed[c].token
        BY <3>1, <3>2 DEF Held
      <4>2. failed[c].token \in Nat /\ failed[c].token >= 1 /\ failed[c].token < TokenTries(ProviderOf(c))
        BY <3>1, <4>1 DEF TypeOK
      <4>3. ProviderOf(c) \in Providers
        BY <3>1, ExchangeAssumption DEF ProviderOf
      <4> QED BY <3>2, <4>1, <4>2, <4>3, Budgets
    <3> QED BY <3>1, <3>2
  <2> QED BY <1>1, <2>1 DEF RefusalExplained
<1>5. GiveUpEarned'
  BY <1>1 DEF GiveUpEarned
<1> QED BY <1>2, <1>3, <1>4, <1>5

LEMMA CallbackKeeps ==
    ASSUME IInv, NEW c \in Callbacks, NEW k \in Codes, Callback(c, k)
    PROVE  IInv'
<1> USE DEF IInv
<1>1. /\ cb' \in [Callbacks -> [at : Stages \cup Ends, code : Codes \cup {None}, tries : Nat]]
      /\ cb[c].at = "idle"
      /\ cb'[c] = [at |-> "token", code |-> k, tries |-> 0]
      /\ \A d \in Callbacks \ {c} : cb'[d] = cb[d]
      /\ UNCHANGED <<redeemed, late, failed>>
  BY DEF Callback, TypeOK, Stages
<1>2. failed[c].token = 0 /\ failed[c].profile = 0
  BY <1>1 DEF Held
<1>3. \A j \in Codes : redeemed[j].by # c
  BY <1>1 DEF Held
<1>4. TypeOK'
  <2>1. /\ redeemed' \in [Codes -> [by : Callbacks \cup {None}, try : Nat]]
        /\ late' \subseteq [by : Callbacks, try : Nat]
        /\ failed' \in [Callbacks -> [token : Nat, profile : Nat]]
        /\ \A a \in late' : a.try \in 1..failed'[a.by].token
    BY <1>1 DEF TypeOK
  <2>2. Code(c)' = k /\ \A d \in Callbacks \ {c} : Code(d)' = Code(d) /\ cb'[d] = cb[d]
    BY <1>1 DEF Code
  <2>3. ASSUME NEW d \in Callbacks
        PROVE  /\ cb'[d].at # "idle" => Code(d)' \in Codes
               /\ cb'[d].at = "token" => /\ cb'[d].tries = failed'[d].token
                                         /\ cb'[d].tries < TokenTries(ProviderOf(d)')
               /\ cb'[d].at = "profile" => /\ cb'[d].tries = failed'[d].profile
                                           /\ cb'[d].tries < ProfileTries(ProviderOf(d)')
    <3>1. CASE d = c
      BY <1>1, <1>2, <2>2, <3>1, Budgets, ExchangeAssumption DEF ProviderOf
    <3>2. CASE d # c
      BY <1>1, <2>2, <3>2 DEF TypeOK, ProviderOf
    <3> QED BY <3>1, <3>2
  <2>4. \A j \in Codes : redeemed'[j] # Fresh =>
          /\ redeemed'[j].by \in Callbacks /\ cb'[redeemed'[j].by].code = j
          /\ redeemed'[j].try \in 1..(failed'[redeemed'[j].by].token + 1)
    BY <1>1, <1>3 DEF TypeOK, Code
  <2>5. /\ \A d \in Callbacks : ProviderOf(d)' = Provider[Code(d)']
        /\ \A j \in Codes : redeemed'[j] # Fresh => Code(redeemed[j].by)' = j
    BY <1>1, <2>4 DEF ProviderOf, Code
  <2> QED BY <1>1, <2>1, <2>3, <2>4, <2>5 DEF TypeOK
<1>5. Held'
  BY <1>1, <1>2, <1>3 DEF Held, Code
<1>6. RefusalExplained' /\ GiveUpEarned'
  BY <1>1, <1>2 DEF RefusalExplained, GiveUpEarned, Code, ProviderOf
<1> QED BY <1>4, <1>5, <1>6

\* A code, once spent, stays spent by the same attempt.
LEMMA SpentOnce ==
    ASSUME TypeOK, NEW c \in Callbacks, NEW a \in [by : Callbacks, try : Nat],
           a.by = c, Code(c) \in Codes,
           UNCHANGED redeemed \/ Spend(Code(c), a),
           failed' \in [Callbacks -> [token : Nat, profile : Nat]],
           a.try \in 1..(failed'[c].token + 1),
           \A d \in Callbacks : failed'[d].token >= failed[d].token,
           \A d \in Callbacks : cb'[d].code = cb[d].code
    PROVE  /\ redeemed' \in [Codes -> [by : Callbacks \cup {None}, try : Nat]]
           /\ \A k \in Codes : redeemed'[k] # Fresh =>
                /\ redeemed'[k].by \in Callbacks /\ cb'[redeemed'[k].by].code = k
                /\ redeemed'[k].try \in 1..(failed'[redeemed'[k].by].token + 1)
           /\ \A k \in Codes :
                \/ redeemed'[k] = redeemed[k]
                \/ redeemed[k] = Fresh /\ k = Code(c) /\ redeemed'[k] = a
<1>1. /\ redeemed' \in [Codes -> [by : Callbacks \cup {None}, try : Nat]]
      /\ \A k \in Codes :
                \/ redeemed'[k] = redeemed[k]
                \/ redeemed[k] = Fresh /\ k = Code(c) /\ redeemed'[k] = a
  BY DEF TypeOK, Spend
<1>2. ASSUME NEW k \in Codes, redeemed'[k] # Fresh
      PROVE  /\ redeemed'[k].by \in Callbacks /\ cb'[redeemed'[k].by].code = k
             /\ redeemed'[k].try \in 1..(failed'[redeemed'[k].by].token + 1)
  <2>1. CASE redeemed'[k] = redeemed[k]
    <3>1. /\ redeemed[k].by \in Callbacks /\ Code(redeemed[k].by) = k
          /\ redeemed[k].try \in 1..(failed[redeemed[k].by].token + 1)
      BY <1>2, <2>1 DEF TypeOK
    <3>2. /\ failed[redeemed[k].by].token \in Nat /\ failed'[redeemed[k].by].token \in Nat
          /\ cb'[redeemed[k].by].code = k
      BY <3>1 DEF TypeOK, Code
    <3> QED BY <2>1, <3>1, <3>2
  <2>2. CASE k = Code(c) /\ redeemed'[k] = a
    BY <2>2 DEF Code
  <2> QED BY <1>1, <2>1, <2>2
<1> QED BY <1>1, <1>2

\* What a request of callback c has to establish: that the invariant holds of c.
LEMMA Keeps ==
    ASSUME IInv, NEW c \in Callbacks, NEW a \in [by : Callbacks, try : Nat],
           a.by = c, cb[c].at # "idle",
           UNCHANGED redeemed \/ Spend(Code(c), a),
           a.try \in 1..(failed'[c].token + 1),
           failed' \in [Callbacks -> [token : Nat, profile : Nat]],
           failed'[c].token >= failed[c].token,
           \A d \in Callbacks \ {c} : failed'[d] = failed[d] /\ cb'[d] = cb[d],
           cb' \in [Callbacks -> [at : Stages \cup Ends, code : Codes \cup {None}, tries : Nat]],
           \A d \in Callbacks : cb'[d].code = cb[d].code,
           \A b \in late' : b \in late \/ (b = a /\ a.try <= failed'[c].token),
           cb'[c].at \in {"idle", "refused"} => UNCHANGED cb,
           cb'[c].at = "token" => /\ cb'[c].tries = failed'[c].token
                                  /\ cb'[c].tries < TokenTries(ProviderOf(c))
                                  /\ failed'[c].profile = 0
                                  /\ redeemed'[Code(c)] = a => a.try <= failed'[c].token,
           cb'[c].at = "profile" => /\ cb'[c].tries = failed'[c].profile
                                    /\ cb'[c].tries < ProfileTries(ProviderOf(c)),
           cb'[c].at \in {"profile", "resolve", "in"} => redeemed'[Code(c)].by = c,
           cb'[c].at = "gaveup" => \/ failed'[c].token = TokenTries(ProviderOf(c))
                                   \/ failed'[c].profile = ProfileTries(ProviderOf(c)),
           cb'[c].at = "token" => cb[c].at = "token"
    PROVE  IInv'
<1> USE DEF IInv
<1>0. \A d \in Callbacks : Code(d)' = Code(d) /\ ProviderOf(d)' = ProviderOf(d)
  BY DEF Code, ProviderOf
<1>1. /\ Code(c) \in Codes
      /\ failed \in [Callbacks -> [token : Nat, profile : Nat]]
      /\ \A d \in Callbacks : failed'[d].token >= failed[d].token
  BY DEF TypeOK
<1>2. /\ redeemed' \in [Codes -> [by : Callbacks \cup {None}, try : Nat]]
      /\ \A k \in Codes : redeemed'[k] # Fresh =>
           /\ redeemed'[k].by \in Callbacks /\ cb'[redeemed'[k].by].code = k
           /\ redeemed'[k].try \in 1..(failed'[redeemed'[k].by].token + 1)
      /\ \A k \in Codes :
           \/ redeemed'[k] = redeemed[k]
           \/ redeemed[k] = Fresh /\ k = Code(c) /\ redeemed'[k] = a
  BY <1>1, SpentOnce
<1>3. \A d \in Callbacks : cb'[d].at # "idle" => Code(d) \in Codes
  BY <1>1 DEF TypeOK
<1>4. TypeOK'
  <2>1. late' \subseteq [by : Callbacks, try : Nat] /\ \A b \in late' : b.try \in 1..failed'[b.by].token
    BY <1>1 DEF TypeOK
  <2>2. ASSUME NEW d \in Callbacks
        PROVE  /\ cb'[d].at = "token" => /\ cb'[d].tries = failed'[d].token
                                         /\ cb'[d].tries < TokenTries(ProviderOf(d))
               /\ cb'[d].at = "profile" => /\ cb'[d].tries = failed'[d].profile
                                           /\ cb'[d].tries < ProfileTries(ProviderOf(d))
    BY DEF TypeOK
  <2>3. \A k \in Codes : redeemed'[k] # Fresh => cb'[redeemed'[k].by].code = k
    BY <1>2
  <2> QED BY <1>0, <1>2, <1>3, <2>1, <2>2, <2>3 DEF TypeOK, Code
<1>5. Held'
  <2>1. ASSUME NEW d \in Callbacks
        PROVE  /\ cb'[d].at = "idle" => failed'[d].token = 0 /\ \A k \in Codes : redeemed'[k].by # d
               /\ cb'[d].at \in {"idle", "token"} => failed'[d].profile = 0
               /\ cb'[d].at \in {"profile", "resolve", "in"} => redeemed'[Code(d)].by = d
               /\ cb'[d].at = "token" /\ redeemed'[Code(d)].by = d
                    => redeemed'[Code(d)].try <= failed'[d].token
    <3>1. CASE d = c
      <4>1. cb'[c].at # "idle"
        OBVIOUS
      <4>2. cb[c].at = "token" /\ redeemed[Code(c)].by = c => redeemed[Code(c)].try <= failed'[c].token
        BY <1>1 DEF Held, TypeOK
      <4> QED BY <3>1, <4>1, <4>2, <1>1, <1>2
    <3>2. CASE d # c
      <4>1. cb'[d] = cb[d] /\ failed'[d] = failed[d]
        BY <3>2
      <4>2. \A k \in Codes : redeemed'[k].by = d => redeemed'[k] = redeemed[k]
        BY <3>2, <1>2
      <4>3. cb[d].at # "idle" /\ redeemed[Code(d)].by = d => redeemed'[Code(d)] = redeemed[Code(d)]
        BY <1>2, <1>3, <4>1, ExchangeAssumption DEF Fresh
      <4> QED BY <4>1, <4>2, <4>3, <1>3 DEF Held
    <3> QED BY <3>1, <3>2
  <2> QED BY <1>0, <2>1 DEF Held
<1>6. RefusalExplained'
  <2>1. \A d \in Callbacks : cb'[d].at = "refused" => cb[d].at = "refused" /\ failed'[d].token >= failed[d].token
    BY <1>1
  <2>2. ASSUME NEW d \in Callbacks, cb'[d].at = "refused"
        PROVE  LET r == redeemed'[Code(d)] IN
               \/ r.by \in Callbacks \ {d}
               \/ r.by = d /\ r.try <= failed'[d].token /\ ProviderOf(d) \in {"github", "stackoverflow"}
    <3> DEFINE r == redeemed[Code(d)]
    <3>1. \/ r.by \in Callbacks \ {d}
          \/ r.by = d /\ r.try <= failed[d].token /\ ProviderOf(d) \in {"github", "stackoverflow"}
      BY <2>1, <2>2 DEF RefusalExplained
    <3>2. r # Fresh /\ Code(d) \in Codes
      BY <3>1, <1>3, <2>2, ExchangeAssumption DEF Fresh
    <3>3. redeemed'[Code(d)] = r /\ r.try \in Nat /\ failed'[d].token \in Nat /\ failed[d].token \in Nat
      BY <3>2, <1>1, <1>2 DEF TypeOK
    <3> HIDE DEF r
    <3> QED BY <3>1, <3>3, <2>1, <2>2
  <2> QED BY <1>0, <2>2 DEF RefusalExplained
<1>7. GiveUpEarned'
  BY <1>0 DEF GiveUpEarned
<1> QED BY <1>4, <1>5, <1>6, <1>7

LEMMA TokenKeeps ==
    ASSUME IInv, NEW c \in Callbacks, Token(c)
    PROVE  IInv'
<1> USE DEF IInv
<1> DEFINE a == Attempt(c)
<1>1. /\ cb[c].at = "token" /\ Code(c) \in Codes /\ ProviderOf(c) \in Providers
      /\ cb[c].tries = failed[c].token /\ cb[c].tries < TokenTries(ProviderOf(c))
      /\ failed[c] \in [token : Nat, profile : Nat] /\ failed[c].profile = 0
      /\ TokenTries(ProviderOf(c)) \in 1..3 /\ ProfileTries(ProviderOf(c)) \in 1..3
  BY ExchangeAssumption, Budgets DEF Token, TokenGranted, TokenRefused, TokenUnusable, TokenLost,
     TypeOK, ProviderOf, Held
<1>2. a \in [by : Callbacks, try : Nat] /\ a.by = c /\ a.try = failed[c].token + 1
  BY <1>1 DEF Attempt
<1>3. failed \in [Callbacks -> [token : Nat, profile : Nat]]
  BY DEF TypeOK
<1>4. CASE TokenGranted(c)
  <2> DEFINE at == IF ProviderOf(c) = "google" THEN "resolve" ELSE "profile"
  <2>1. /\ redeemed[Code(c)] = Fresh /\ Spend(Code(c), a) /\ UNCHANGED <<late, failed>>
        /\ Go(c, at) /\ at \in Stages \cup Ends /\ at \in {"resolve", "profile"}
    BY <1>4 DEF TokenGranted, Stages
  <2>2. redeemed'[Code(c)] = a
    BY <2>1, <1>1 DEF Spend, TypeOK
  <2> HIDE DEF a, at
  <2>3. /\ cb' \in [Callbacks -> [at : Stages \cup Ends, code : Codes \cup {None}, tries : Nat]]
        /\ cb'[c].at \in {"resolve", "profile"} /\ cb'[c].tries = 0
        /\ \A d \in Callbacks \ {c} : cb'[d] = cb[d]
        /\ \A d \in Callbacks : cb'[d].code = cb[d].code
    BY <2>1, Goes DEF Code
  <2> QED BY <1>1, <1>2, <1>3, <2>1, <2>2, <2>3, Keeps
<1>5. CASE TokenRefused(c)
  BY <1>1, <1>5, GoKeeps DEF TokenRefused, Ends
<1>6. CASE TokenUnusable(c)
  <2>1. UNCHANGED redeemed \/ Spend(Code(c), a)
    BY <1>6 DEF TokenUnusable
  <2>2. UNCHANGED <<late, failed>> /\ Go(c, "error") /\ "error" \in Stages \cup Ends
    BY <1>6 DEF TokenUnusable, Ends
  <2> HIDE DEF a
  <2>3. /\ cb' \in [Callbacks -> [at : Stages \cup Ends, code : Codes \cup {None}, tries : Nat]]
        /\ cb'[c].at = "error"
        /\ \A d \in Callbacks \ {c} : cb'[d] = cb[d]
        /\ \A d \in Callbacks : cb'[d].code = cb[d].code
    BY <2>2, Goes DEF Code
  <2> QED BY <1>1, <1>2, <1>3, <2>1, <2>2, <2>3, Keeps
<1>7. CASE TokenLost(c)
  <2>1. /\ UNCHANGED redeemed \/ Spend(Code(c), a)
        /\ late' = late \/ late' = late \cup {a}
        /\ failed' = [failed EXCEPT ![c].token = @ + 1]
        /\ Again(c, TokenTries(ProviderOf(c)))
    BY <1>7 DEF TokenLost
  <2> HIDE DEF a
  <2>2. /\ failed' \in [Callbacks -> [token : Nat, profile : Nat]]
        /\ failed'[c].token = failed[c].token + 1 /\ failed'[c].profile = 0
        /\ \A d \in Callbacks \ {c} : failed'[d] = failed[d]
    BY <1>1, <1>3, <2>1
  <2>3. CASE cb[c].tries + 1 < TokenTries(ProviderOf(c))
    <3>1. cb' = [cb EXCEPT ![c].tries = @ + 1]
      BY <2>1, <2>3 DEF Again
    <3>2. /\ cb' \in [Callbacks -> [at : Stages \cup Ends, code : Codes \cup {None}, tries : Nat]]
          /\ cb'[c].at = "token" /\ cb'[c].tries = failed'[c].token
          /\ \A d \in Callbacks \ {c} : cb'[d] = cb[d]
          /\ \A d \in Callbacks : cb'[d].code = cb[d].code
      <4>1. cb[c].tries + 1 \in Nat /\ cb[c].tries + 1 = failed'[c].token
        BY <1>1, <2>2
      <4> DEFINE R == [at : Stages \cup Ends, code : Codes \cup {None}, tries : Nat]
                 r == [cb[c] EXCEPT !.tries = @ + 1]
      <4>2. cb \in [Callbacks -> R]
        BY DEF TypeOK
      <4>3. r \in R /\ r.at = "token" /\ r.tries = failed'[c].token /\ r.code = cb[c].code
        BY <1>1, <4>1, <4>2
      <4>4. cb' = [cb EXCEPT ![c] = r]
        BY <3>1
      <4> HIDE DEF r, R
      <4>5. cb' \in [Callbacks -> R] /\ cb'[c] = r /\ \A d \in Callbacks \ {c} : cb'[d] = cb[d]
        BY <4>2, <4>3, <4>4
      <4> QED BY <4>3, <4>5 DEF R
    <3>3. /\ failed'[c].token \in Nat /\ a.try = failed'[c].token /\ a.try >= 1
          /\ failed'[c].token >= failed[c].token
          /\ cb'[c].tries < TokenTries(ProviderOf(c))
      BY ONLY <1>1, <1>2, <2>2, <2>3, <3>2
    <3>4. /\ cb[c].at # "idle" /\ a.try \in 1..(failed'[c].token + 1)
          /\ \A b \in late' : b \in late \/ (b = a /\ a.try <= failed'[c].token)
          /\ UNCHANGED redeemed \/ Spend(Code(c), a)
      BY ONLY <1>1, <2>1, <3>3
    <3> QED BY <1>1, <1>2, <2>2, <3>2, <3>3, <3>4, Keeps
  <2>4. CASE ~(cb[c].tries + 1 < TokenTries(ProviderOf(c)))
    <3>1. Go(c, "gaveup") /\ "gaveup" \in Stages \cup Ends
      BY <2>1, <2>4 DEF Again, Ends
    <3>2. /\ cb' \in [Callbacks -> [at : Stages \cup Ends, code : Codes \cup {None}, tries : Nat]]
          /\ cb'[c].at = "gaveup"
          /\ \A d \in Callbacks \ {c} : cb'[d] = cb[d]
          /\ \A d \in Callbacks : cb'[d].code = cb[d].code
      BY <3>1, Goes DEF Code
    <3>3. failed'[c].token = TokenTries(ProviderOf(c))
      BY <1>1, <2>2, <2>4
    <3> QED BY <1>1, <1>2, <1>3, <2>1, <2>2, <3>2, <3>3, Keeps
  <2> QED BY <2>3, <2>4
<1> QED BY <1>4, <1>5, <1>6, <1>7 DEF Token

LEMMA LandKeeps ==
    ASSUME IInv, NEW a \in late, Land(a)
    PROVE  IInv'
<1> USE DEF IInv
<1> DEFINE c == a.by
<1>1. /\ a \in [by : Callbacks, try : Nat] /\ c \in Callbacks /\ a.try \in 1..failed[c].token
      /\ failed \in [Callbacks -> [token : Nat, profile : Nat]]
  BY DEF TypeOK
<1>2. cb[c].at # "idle" /\ Code(c) \in Codes
  BY <1>1 DEF Held, TypeOK
<1>3. Spend(Code(c), a) /\ late' \subseteq late /\ UNCHANGED <<cb, failed>>
  BY DEF Land
<1>4. \/ redeemed'[Code(c)] = redeemed[Code(c)]
      \/ redeemed[Code(c)] = Fresh /\ redeemed'[Code(c)] = a
  BY <1>2, <1>3 DEF Spend, TypeOK
<1>5. cb[c].at \in {"profile", "resolve", "in"} => redeemed'[Code(c)].by = c
  BY <1>1, <1>4 DEF Held
<1>6. /\ cb[c].at = "token" => /\ cb[c].tries = failed[c].token
                               /\ cb[c].tries < TokenTries(ProviderOf(c))
                               /\ failed[c].profile = 0
      /\ cb[c].at = "profile" => /\ cb[c].tries = failed[c].profile
                                 /\ cb[c].tries < ProfileTries(ProviderOf(c))
      /\ cb[c].at = "gaveup" => \/ failed[c].token = TokenTries(ProviderOf(c))
                                \/ failed[c].profile = ProfileTries(ProviderOf(c))
      /\ cb \in [Callbacks -> [at : Stages \cup Ends, code : Codes \cup {None}, tries : Nat]]
  BY <1>1 DEF TypeOK, Held, GiveUpEarned
<1> HIDE DEF c
<1>7. a.by = c
  BY DEF c
<1> QED BY <1>1, <1>2, <1>3, <1>5, <1>6, <1>7, Keeps

LEMMA ProfileKeeps ==
    ASSUME IInv, NEW c \in Callbacks, Profile(c)
    PROVE  IInv'
<1> USE DEF IInv
<1>1. /\ cb[c].at = "profile" /\ Code(c) \in Codes /\ ProviderOf(c) \in Providers
      /\ cb[c].tries = failed[c].profile /\ cb[c].tries < ProfileTries(ProviderOf(c))
      /\ failed[c] \in [token : Nat, profile : Nat] /\ redeemed[Code(c)].by = c
      /\ ProfileTries(ProviderOf(c)) \in 1..3
  BY ExchangeAssumption, Budgets DEF Profile, ProfileAnswered, ProfileRefused, ProfileLost,
     TypeOK, ProviderOf, Held
<1>2. CASE ProfileAnswered(c)
  BY <1>1, <1>2, GoKeeps DEF ProfileAnswered, Stages
<1>3. CASE ProfileRefused(c)
  <2>1. CASE Go(c, "error")
    BY <1>1, <1>3, <2>1, GoKeeps DEF ProfileRefused, Ends
  <2>2. CASE Go(c, "busy")
    BY <1>1, <1>3, <2>2, GoKeeps DEF ProfileRefused, Ends
  <2> QED BY <1>3, <2>1, <2>2 DEF ProfileRefused
<1>4. CASE ProfileLost(c)
  <2> DEFINE a == [by |-> c, try |-> 1]
  <2>1. /\ UNCHANGED <<redeemed, late>>
        /\ failed' = [failed EXCEPT ![c].profile = @ + 1]
        /\ Again(c, ProfileTries(ProviderOf(c)))
        /\ a \in [by : Callbacks, try : Nat] /\ a.by = c /\ a.try = 1
    BY <1>4 DEF ProfileLost
  <2> HIDE DEF a
  <2>2. /\ failed' \in [Callbacks -> [token : Nat, profile : Nat]]
        /\ failed'[c].profile = failed[c].profile + 1 /\ failed'[c].token = failed[c].token
        /\ \A d \in Callbacks \ {c} : failed'[d] = failed[d]
    BY <1>1, <2>1 DEF TypeOK
  <2>3. CASE cb[c].tries + 1 < ProfileTries(ProviderOf(c))
    <3>1. cb' = [cb EXCEPT ![c].tries = @ + 1]
      BY <2>1, <2>3 DEF Again
    <3>2. /\ cb' \in [Callbacks -> [at : Stages \cup Ends, code : Codes \cup {None}, tries : Nat]]
          /\ cb'[c].at = "profile" /\ cb'[c].tries = failed'[c].profile
          /\ \A d \in Callbacks \ {c} : cb'[d] = cb[d]
          /\ \A d \in Callbacks : cb'[d].code = cb[d].code
      <4>1. cb[c].tries + 1 \in Nat /\ cb[c].tries + 1 = failed'[c].profile
        BY <1>1, <2>2
      <4>2. cb \in [Callbacks -> [at : Stages \cup Ends, code : Codes \cup {None}, tries : Nat]]
        BY DEF TypeOK
      <4> QED BY <1>1, <3>1, <4>1, <4>2
    <3> QED BY <1>1, <2>1, <2>2, <2>3, <3>2, Keeps
  <2>4. CASE ~(cb[c].tries + 1 < ProfileTries(ProviderOf(c)))
    <3>1. Go(c, "gaveup") /\ "gaveup" \in Stages \cup Ends
      BY <2>1, <2>4 DEF Again, Ends
    <3>2. /\ cb' \in [Callbacks -> [at : Stages \cup Ends, code : Codes \cup {None}, tries : Nat]]
          /\ cb'[c].at = "gaveup"
          /\ \A d \in Callbacks \ {c} : cb'[d] = cb[d]
          /\ \A d \in Callbacks : cb'[d].code = cb[d].code
      BY <3>1, Goes DEF Code
    <3>3. failed'[c].profile = ProfileTries(ProviderOf(c))
      BY <1>1, <2>2, <2>4
    <3> QED BY <1>1, <2>1, <2>2, <3>2, <3>3, Keeps
  <2> QED BY <2>3, <2>4
<1> QED BY <1>2, <1>3, <1>4 DEF Profile

LEMMA ResolveKeeps ==
    ASSUME IInv, NEW c \in Callbacks, Resolve(c)
    PROVE  IInv'
<1>1. PICK end \in {"in", "banned", "error"} : Go(c, end)
  BY DEF Resolve
<1> QED BY <1>1, GoKeeps DEF Resolve, Ends

LEMMA StepKeeps == IInv /\ [Next]_vars => IInv'
<1> SUFFICES ASSUME IInv, [Next]_vars PROVE IInv'
  OBVIOUS
<1>1. CASE UNCHANGED vars
  BY <1>1 DEF vars, IInv, TypeOK, Held, RefusalExplained, GiveUpEarned, Code, ProviderOf
<1>2. ASSUME NEW c \in Callbacks, Work(c) PROVE IInv'
  BY <1>2, TokenKeeps, ProfileKeeps, ResolveKeeps DEF Work
<1>3. ASSUME NEW c \in Callbacks, NEW k \in Codes, Callback(c, k) PROVE IInv'
  BY <1>3, CallbackKeeps
<1>4. ASSUME NEW a \in late, Land(a) PROVE IInv'
  BY <1>4, LandKeeps
<1> QED BY <1>1, <1>2, <1>3, <1>4 DEF Next

\* The invariant holds throughout: see its parts.
THEOREM Inductive == Spec => []IInv
<1>1. Init => IInv
  BY Initially
<1>2. IInv /\ [Next]_vars => IInv'
  BY StepKeeps
<1> QED BY <1>1, <1>2, PTL DEF Spec

\* The state is well-formed, and nobody tries more often than stop_after_attempt
\* allows (auth_http_client.py 60-66, callback_helpers.py 73-80).
THEOREM TypeCorrect == Spec => []TypeOK
<1>1. IInv => TypeOK
  BY DEF IInv
<1> QED BY <1>1, Inductive, PTL

\* Whatever the number of callbacks and the order in which lost posts arrive, a
\* code is refused as spent only after an earlier post of the same login, which
\* only the retried exchanges send, or another callback with the same code.
THEOREM Refusals == Spec => []RefusalExplained
<1>1. IInv => RefusalExplained
  BY DEF IInv
<1> QED BY <1>1, Inductive, PTL

\* A login is given up only after every attempt of one of its requests.
THEOREM GivenUpLast == Spec => []GiveUpEarned
<1>1. IInv => GiveUpEarned
  BY DEF IInv
<1> QED BY <1>1, Inductive, PTL

\* No code lets two callbacks in.
THEOREM SingleUse == Spec => []OneLoginPerCode
<1>1. IInv => OneLoginPerCode
  BY DEF IInv, Held, OneLoginPerCode
<1> QED BY <1>1, Inductive, PTL
-----------------------------------------------------------------------------
LEMMA AheadBounded ==
    ASSUME IInv, NEW c \in Callbacks
    PROVE  /\ Ahead(c) \in 0..7
           /\ cb[c].at \in Ends => Ahead(c) = 0
           /\ cb[c].at \in {"token", "profile", "resolve"} => Ahead(c) > 0
           /\ cb[c].at = "token" => Ahead(c) > ProfileTries(ProviderOf(c)) + 1
<1>1. CASE cb[c].at \in {"token", "profile"}
  <2>1. ProviderOf(c) \in Providers /\ cb[c].tries \in Nat
    BY <1>1, ExchangeAssumption DEF IInv, TypeOK, ProviderOf
  <2>2. TokenTries(ProviderOf(c)) \in 1..3 /\ ProfileTries(ProviderOf(c)) \in 1..3
    BY <2>1, Budgets
  <2>3. /\ cb[c].at = "token" => cb[c].tries < TokenTries(ProviderOf(c))
        /\ cb[c].at = "profile" => cb[c].tries < ProfileTries(ProviderOf(c))
    BY DEF IInv, TypeOK
  <2> QED BY <1>1, <2>1, <2>2, <2>3 DEF Ahead, Ends
<1>2. CASE cb[c].at \notin {"token", "profile"}
  BY <1>2 DEF Ahead, Ends
<1> QED BY <1>1, <1>2

\* A callback that goes on to its next request, or to its end, has less ahead.
LEMMA GoShrinks ==
    ASSUME IInv, NEW c \in Callbacks, NEW at \in Stages \cup Ends, Go(c, at),
           \/ cb[c].at = "token" /\ at \in {"profile", "resolve"} \cup Ends
           \/ cb[c].at = "profile" /\ at \in {"resolve"} \cup Ends
           \/ cb[c].at = "resolve" /\ at \in Ends
    PROVE  Ahead(c)' < Ahead(c)
<1>1. cb'[c].at = at /\ cb'[c].tries = 0 /\ ProviderOf(c)' = ProviderOf(c)
  BY Goes DEF IInv
<1>2. ProviderOf(c) \in Providers
  BY ExchangeAssumption DEF IInv, TypeOK, ProviderOf
<1>3. ProfileTries(ProviderOf(c)) \in 1..3
  BY <1>2, Budgets
<1>4. at = "profile" => Ahead(c)' = ProfileTries(ProviderOf(c)) + 1
  BY <1>1, <1>3 DEF Ahead
<1>5. at = "resolve" => Ahead(c)' = 1
  BY <1>1 DEF Ahead
<1>6. at \in Ends => Ahead(c)' = 0
  BY <1>1 DEF Ahead, Ends
<1>7. cb[c].at = "profile" => Ahead(c) > 1
  <2> SUFFICES ASSUME cb[c].at = "profile" PROVE Ahead(c) > 1
    OBVIOUS
  <2>1. cb[c].tries \in Nat /\ cb[c].tries < ProfileTries(ProviderOf(c))
    BY DEF IInv, TypeOK
  <2> QED BY <1>3, <2>1 DEF Ahead
<1> QED BY <1>3, <1>4, <1>5, <1>6, <1>7, AheadBounded DEF Ends

LEMMA AgainShrinks ==
    ASSUME IInv, NEW c \in Callbacks,
           \/ cb[c].at = "token" /\ Again(c, TokenTries(ProviderOf(c)))
           \/ cb[c].at = "profile" /\ Again(c, ProfileTries(ProviderOf(c)))
    PROVE  Ahead(c)' < Ahead(c)
<1>1. CASE Go(c, "gaveup")
  BY <1>1, GoShrinks DEF Stages, Ends
<1>2. CASE cb' = [cb EXCEPT ![c].tries = @ + 1]
  <2>1. /\ cb'[c].at = cb[c].at /\ cb'[c].tries = cb[c].tries + 1 /\ cb'[c].code = cb[c].code
        /\ cb[c].tries \in Nat
    BY <1>2 DEF IInv, TypeOK
  <2>2. ProviderOf(c) \in Providers /\ ProviderOf(c)' = ProviderOf(c)
    BY <2>1, ExchangeAssumption DEF IInv, TypeOK, ProviderOf, Code
  <2>3. TokenTries(ProviderOf(c)) \in 1..3 /\ ProfileTries(ProviderOf(c)) \in 1..3
    BY <2>2, Budgets
  <2> QED BY <2>1, <2>2, <2>3 DEF Ahead
<1> QED BY <1>1, <1>2 DEF Again

LEMMA WorkShrinks ==
    ASSUME IInv, NEW c \in Callbacks, Work(c)
    PROVE  Ahead(c)' < Ahead(c)
<1> USE DEF Stages, Ends
<1>1. CASE TokenGranted(c)
  <2>1. PICK at \in {"resolve", "profile"} : Go(c, at)
    BY <1>1 DEF TokenGranted
  <2> QED BY <1>1, <2>1, GoShrinks DEF TokenGranted
<1>2. CASE TokenRefused(c)
  BY <1>2, GoShrinks DEF TokenRefused
<1>3. CASE TokenUnusable(c)
  BY <1>3, GoShrinks DEF TokenUnusable
<1>4. CASE TokenLost(c)
  BY <1>4, AgainShrinks DEF TokenLost
<1>5. CASE ProfileAnswered(c)
  BY <1>5, GoShrinks DEF ProfileAnswered
<1>6. CASE ProfileLost(c)
  BY <1>6, AgainShrinks DEF ProfileLost
<1>7. CASE ProfileRefused(c)
  BY <1>7, GoShrinks DEF ProfileRefused
<1>8. CASE Resolve(c)
  BY <1>8, GoShrinks DEF Resolve
<1> QED BY <1>1, <1>2, <1>3, <1>4, <1>5, <1>6, <1>7, <1>8 DEF Work, Token, Profile

\* A step is about one callback.
LEMMA OthersStay ==
    ASSUME IInv, NEW c \in Callbacks, Work(c), NEW d \in Callbacks, d # c
    PROVE  cb'[d] = cb[d]
BY DEF IInv, TypeOK, Work, Token, Profile, TokenGranted, TokenRefused, TokenUnusable, TokenLost,
       ProfileAnswered, ProfileLost, ProfileRefused, Resolve, Go, Again

\* Every callback makes at most seven steps, in whatever order answers, failures
\* and late posts come: the budgets are never begun anew (stop_after_attempt).
THEOREM RetriesRunOut == Spec => RetriesShrink
<1>1. IInv /\ [Next]_vars =>
        [\A c \in Callbacks : cb[c].at # "idle" /\ cb'[c] # cb[c] =>
            Ahead(c)' < Ahead(c) /\ Ahead(c) <= 7]_vars
  <2> SUFFICES ASSUME IInv, [Next]_vars, NEW c \in Callbacks, cb[c].at # "idle", cb'[c] # cb[c]
               PROVE  Ahead(c)' < Ahead(c) /\ Ahead(c) <= 7
    OBVIOUS
  <2>1. Ahead(c) \in 0..7
    BY AheadBounded
  <2>2. Work(c)
    <3>1. ASSUME NEW d \in Callbacks, Work(d) PROVE Work(c)
      BY <3>1, OthersStay
    <3>2. ASSUME NEW d \in Callbacks, NEW k \in Codes, Callback(d, k) PROVE FALSE
      BY <3>2 DEF Callback, IInv, TypeOK
    <3>3. ASSUME NEW a \in late, Land(a) PROVE FALSE
      BY <3>3 DEF Land
    <3> QED BY <3>1, <3>2, <3>3 DEF Next, vars
  <2> QED BY <2>1, <2>2, WorkShrinks
<1> QED BY <1>1, Inductive, PTL DEF Spec, RetriesShrink
=============================================================================
