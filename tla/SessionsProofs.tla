--------------------------- MODULE SessionsProofs ---------------------------
(* Proofs about Sessions, for any number of browsers, requests, sids,      *)
(* tokens and users.                                                       *)
EXTENDS Sessions, TLAPS

Busy(r) == req[r].phase # "none"

\* Browser b can come by sid s: it has the cookie, or a request has it under way.
Knows(b, s) == \/ jar[b] = s
               \/ \E r \in Active(b) : s \in {req[r].sid, req[r].cookie}

\* Session content c is right for browser b.
Fits(b, c) == /\ c.user # None => <<b, c.user>> \in granted
              /\ c.state \in Tokens => issued[c.state] = b
              /\ \A t \in c.pending : issued[t] = b
              /\ out[b] => c.user = None

Formed == \A r \in Requests :
    /\ Busy(r) => req[r].browser \in Browsers
    /\ req[r].phase # "loaded" => req[r].sess = Empty
    /\ req[r].phase = "loaded" => /\ req[r].blank <=> req[r].sess = Empty
                                  /\ req[r].sid = None => req[r].blank
    /\ req[r].phase # "done" => req[r].answer = None /\ req[r].cookie = "keep"
    /\ req[r].phase = "done" => req[r].sid = None
    /\ req[r].phase \in {"sent", "loaded"} /\ req[r].kind \in {"callback", "libCallback"}
        => req[r].token \in Tokens

\* A sid has been made, and is one browser's.
OneOwner == \A s \in Sids :
    /\ \A b \in Browsers : Knows(b, s) => s \in minted
    /\ \A b, c \in Browsers : Knows(b, s) /\ Knows(c, s) => b = c
    /\ store[s] # NoRow => s \in minted

RowsFit == \A b \in Browsers, s \in Sids : Knows(b, s) /\ store[s] # NoRow => Fits(b, store[s])
CopiesFit == \A r \in Requests : req[r].phase = "loaded" => Fits(req[r].browser, req[r].sess)

AloneIsAlone == \A r \in Requests : Busy(r) /\ req[r].alone =>
    /\ Active(req[r].browser) = {r}
    /\ req[r].phase # "done" => req[r].sid = jar[req[r].browser]
    /\ req[r].kind = "logout" /\ req[r].cookie = "delete" => seen[req[r].browser] = None

\* What the answer of request r will leave browser b with.
Awaits(b, r) ==
    /\ req[r].alone
    /\ req[r].phase = "sent" => Session(b).user = seen[b]
    /\ req[r].phase = "loaded" => req[r].sess = Session(b) /\ Session(b).user = seen[b]
    /\ req[r].cookie = "keep" => Session(b).user = seen[b]
    /\ req[r].cookie = "delete" => Session(b).user = None /\ seen[b] = None
    /\ req[r].cookie \in Sids => /\ store[req[r].cookie] # NoRow
                                 /\ store[req[r].cookie].user = seen[b]
QuietIsExact == \A b \in Browsers : quiet[b] =>
    /\ Active(b) = {} => Session(b).user = seen[b]
    /\ \A r \in Active(b) : Awaits(b, r)

IInv == /\ TypeOK /\ Formed /\ OneOwner /\ RowsFit /\ CopiesFit /\ AloneIsAlone /\ QuietIsExact
-----------------------------------------------------------------------------
Request == [phase : Phases, browser : Browsers \cup {None}, kind : AllKinds,
            token : Tokens \cup {None}, sid : Sids \cup {None}, sess : Content, blank : BOOLEAN,
            cookie : Sids \cup {"keep", "delete"}, answer : Users \cup {None}, alone : BOOLEAN]

LEMMA Nothing == Empty \in Content /\ NoRequest \in Request
BY DEF Empty, Content, NoRequest, Request, Phases, AllKinds

LEMMA Initially == Init => IInv
<1> SUFFICES ASSUME Init PROVE IInv
  OBVIOUS
<1> USE Nothing, SessionsAssumption DEF Init
<1>1. TypeOK
  BY DEF TypeOK, Request
<1>2. Formed
  BY DEF Formed, NoRequest, Busy
<1>3. OneOwner
  BY DEF OneOwner, Knows, Active, NoRequest
<1>4. RowsFit /\ CopiesFit
  BY DEF RowsFit, CopiesFit, NoRequest
<1>5. AloneIsAlone
  BY DEF AloneIsAlone, Busy, NoRequest
<1>6. QuietIsExact
  BY DEF QuietIsExact, Awaits, Active, Session, Empty, NoRequest
<1> QED BY <1>1, <1>2, <1>3, <1>4, <1>5, <1>6 DEF IInv

\* What becomes of the requests, action by action: one is sent,
LEMMA Sends ==
    ASSUME IInv, NEW r \in Requests, NEW b \in Browsers, NEW k \in Kinds,
           NEW t \in Tokens \cup {None}, Send(r, b, k, t)
    PROVE  /\ req' \in [Requests -> Request]
           /\ req'[r] = [NoRequest EXCEPT !.phase = "sent", !.browser = b, !.kind = k,
                                 !.token = t, !.sid = jar[b], !.alone = (Active(b) = {})]
           /\ \A q \in Requests \ {r} : \E a \in BOOLEAN :
                 /\ req'[q] = [req[q] EXCEPT !.alone = a]
                 /\ a <=> req[q].alone /\ q \notin Active(b)
<1> DEFINE new == [NoRequest EXCEPT !.phase = "sent", !.browser = b, !.kind = k,
                                 !.token = t, !.sid = jar[b], !.alone = (Active(b) = {})]
           still(q) == req[q].alone /\ q \notin Active(b)
           old(q) == [req[q] EXCEPT !.alone = still(q)]
<1>1. TypeOK /\ k \in AllKinds
  BY SessionsAssumption DEF IInv
<1>2. new \in Request
  <2>1. jar[b] \in Sids \cup {None} /\ (Active(b) = {}) \in BOOLEAN
    BY <1>1 DEF TypeOK
  <2> QED BY <1>1, <2>1, Nothing DEF Request, NoRequest, Phases
<1>3. \A q \in Requests : still(q) \in BOOLEAN /\ old(q) \in Request
  <2> TAKE q \in Requests
  <2>1. req[q] \in Request /\ req[q].alone \in BOOLEAN
    BY <1>1 DEF TypeOK, Request
  <2>2. still(q) \in BOOLEAN
    BY <2>1
  <2> HIDE DEF still
  <2> QED BY <2>1, <2>2 DEF Request
<1>4. req' = [q \in Requests |-> IF q = r THEN new ELSE old(q)]
  BY Zenon DEF Send
<1> HIDE DEF new, old
<1>5. /\ req' \in [Requests -> Request] /\ req'[r] = new
      /\ \A q \in Requests \ {r} : req'[q] = old(q)
  BY <1>2, <1>3, <1>4
<1> HIDE DEF still
<1>6. \A q \in Requests \ {r} : \E a \in BOOLEAN :
          req'[q] = [req[q] EXCEPT !.alone = a] /\ (a <=> still(q))
  BY <1>3, <1>5 DEF old
<1> QED BY <1>5, <1>6 DEF new, still

\* one gets its copy,
LEMMA Copies ==
    ASSUME TypeOK, NEW r \in Requests, NEW c \in Content, Copy(r, c)
    PROVE  /\ req' \in [Requests -> Request]
           /\ req'[r] = [req[r] EXCEPT !.phase = "loaded", !.sess = c, !.blank = (c = Empty)]
           /\ \A q \in Requests \ {r} : req'[q] = req[q]
<1> DEFINE none == (c = Empty)
           new == [req[r] EXCEPT !.phase = "loaded", !.sess = c, !.blank = none]
<1>1. new \in Request
  <2>1. req[r] \in Request /\ none \in BOOLEAN
    BY DEF TypeOK, Request
  <2> HIDE DEF none
  <2> QED BY <2>1 DEF Request, Phases
<1>2. req' = [req EXCEPT ![r] = new]
  BY Zenon DEF Copy
<1> HIDE DEF new
<1>3. /\ req' \in [Requests -> Request] /\ req'[r] = new
      /\ \A q \in Requests \ {r} : req'[q] = req[q]
  BY <1>1, <1>2 DEF TypeOK, Request
<1> QED BY <1>3 DEF new

\* one is answered.
LEMMA Answers ==
    ASSUME TypeOK, NEW r \in Requests, NEW k \in Sids \cup {"keep", "delete"},
           NEW u \in Users \cup {None}, Answer(r, k, u)
    PROVE  /\ req' \in [Requests -> Request]
           /\ req'[r] = [NoRequest EXCEPT !.phase = "done", !.browser = req[r].browser,
                                 !.kind = req[r].kind, !.alone = req[r].alone, !.cookie = k,
                                 !.answer = u]
           /\ \A q \in Requests \ {r} : req'[q] = req[q]
<1> DEFINE new == [NoRequest EXCEPT !.phase = "done", !.browser = req[r].browser,
                          !.kind = req[r].kind, !.alone = req[r].alone, !.cookie = k, !.answer = u]
<1>1. new \in Request
  BY Nothing DEF TypeOK, Request, NoRequest, Phases
<1>2. req' = [req EXCEPT ![r] = new]
  BY DEF Answer
<1> HIDE DEF new
<1>3. /\ req' \in [Requests -> Request] /\ req'[r] = new
      /\ \A q \in Requests \ {r} : req'[q] = req[q]
  BY <1>1, <1>2 DEF TypeOK, Request
<1> QED BY <1>3 DEF new
-----------------------------------------------------------------------------
\* The outcomes of Save, with the cookie k that the answer carries.
Saved(r, c, k) ==
    \/ k = "keep" /\ c = req[r].sess /\ UNCHANGED <<store, minted, quiet>>
    \/ /\ k = "delete" /\ c = Empty /\ ~req[r].blank
       /\ store' = [store EXCEPT ![req[r].sid] = NoRow]
       /\ UNCHANGED <<minted, quiet>>
    \/ /\ k \in Sids /\ (k = req[r].sid \/ k \notin minted)
       /\ store' = [store EXCEPT ![k] = c] /\ minted' = minted \cup {k}
       /\ UNCHANGED quiet
    \/ /\ k = "keep" /\ quiet' = [quiet EXCEPT ![req[r].browser] = FALSE]
       /\ \/ UNCHANGED store
          \/ req[r].sid \in Sids /\ store' = [store EXCEPT ![req[r].sid] =
                                                  IF c = Empty THEN NoRow ELSE c]
       /\ UNCHANGED minted

LEMMA Outcomes ==
    ASSUME IInv, NEW r \in Requests, req[r].phase = "loaded", NEW c \in Content,
           NEW u \in Users \cup {None}, Save(r, c, u)
    PROVE  \E k \in Sids \cup {"keep", "delete"}, v \in {u, None} :
               Answer(r, k, v) /\ Saved(r, c, k)
<1>1. CASE SaveNothing(r, c)
  BY <1>1 DEF SaveNothing, Saved, IInv, Formed
<1>2. CASE Destroy(r, c)
  BY <1>2 DEF Destroy, Saved
<1>3. CASE \E s \in Sids : SaveRow(r, c, u, s)
  BY <1>3 DEF SaveRow, Saved
<1>4. CASE SaveFails(r, c)
  BY <1>4 DEF SaveFails, Saved, TypeOK, IInv
<1> QED BY <1>1, <1>2, <1>3, <1>4 DEF Save

\* A response of request r that leaves c in the session keeps the invariant if c
\* fits the browser, and if it says what an undisturbed browser is told.
LEMMA SaveStep ==
    ASSUME IInv, NEW r \in Requests, NEW b \in Browsers, b = req[r].browser,
           req[r].phase = "loaded", NEW c \in Content,
           NEW k \in Sids \cup {"keep", "delete"}, NEW u \in Users \cup {None},
           Answer(r, k, u), Saved(r, c, k), UNCHANGED jar,
           issued' \in [Tokens -> Browsers \cup {None}], granted' \subseteq Browsers \X Users,
           seen' \in [Browsers -> Users \cup {None}], out' \in [Browsers -> BOOLEAN],
           \A t \in Tokens : issued[t] # None => issued'[t] = issued[t],
           granted \subseteq granted',
           \A d \in Browsers \ {b} : seen'[d] = seen[d] /\ out'[d] = out[d],
           Fits(b, c)',
           out'[b] => out[b] \/ (req[r].alone /\ k = "delete"),
           quiet[b] => c.user = seen'[b],
           req[r].kind = "logout" => seen'[b] = None
    PROVE  IInv'
<1> USE DEF IInv
<1> DEFINE s0 == req[r].sid
<1>1. /\ req' \in [Requests -> Request]
      /\ req'[r] = [NoRequest EXCEPT !.phase = "done", !.browser = b, !.kind = req[r].kind,
                            !.alone = req[r].alone, !.cookie = k, !.answer = u]
      /\ \A q \in Requests \ {r} : req'[q] = req[q]
  <2>1. TypeOK
    OBVIOUS
  <2>2. /\ req' \in [Requests -> Request]
        /\ req'[r] = [NoRequest EXCEPT !.phase = "done", !.browser = req[r].browser,
                             !.kind = req[r].kind, !.alone = req[r].alone, !.cookie = k,
                             !.answer = u]
        /\ \A q \in Requests \ {r} : req'[q] = req[q]
    BY <2>1, Answers, Zenon
  <2> QED BY <2>2
<1>2. /\ req'[r].phase = "done" /\ req'[r].browser = b /\ req'[r].sid = None
      /\ req'[r].cookie = k /\ req'[r].sess = Empty /\ req'[r].alone = req[r].alone
      /\ req'[r].kind = req[r].kind
  BY <1>1 DEF NoRequest
<1>2a. /\ \A q \in Requests : /\ req'[q].browser = req[q].browser
                               /\ (req'[q].phase # "none") = (req[q].phase # "none")
       /\ \A d : Active(d)' = Active(d)
  <2>1. ASSUME NEW q \in Requests
        PROVE  req'[q].browser = req[q].browser /\ (req'[q].phase # "none") = (req[q].phase # "none")
    <3>1. CASE q = r
      BY <1>2, <3>1
    <3>2. CASE q # r
      <4>1. req'[q] = req[q]
        BY <1>1, <3>2
      <4> QED BY <4>1
    <3> QED BY <3>1, <3>2
  <2>2. ASSUME NEW d PROVE Active(d)' = Active(d)
    BY <2>1 DEF Active
  <2> QED BY <2>1, <2>2
<1>3. /\ c # NoRow /\ None \notin Browsers /\ None \notin Sids /\ "keep" \notin Sids
      /\ "delete" \notin Sids
  BY SessionsAssumption
<1>4. /\ s0 \in Sids \cup {None}
      /\ s0 # None => Knows(b, s0)
      /\ ~req[r].blank => s0 # None
  BY <1>3 DEF TypeOK, Knows, Active, Formed
\* The row that changes is the browser's own, or is new.
<1>5. \A s \in Sids : \/ store'[s] = store[s]
                      \/ store'[s] \in {NoRow, c} /\ (s = s0 \/ s \notin minted)
  BY <1>4 DEF Saved, TypeOK
<1>6. /\ minted \subseteq minted' /\ minted' \subseteq Sids /\ store' \in [Sids -> Content \cup {NoRow}]
      /\ quiet' \in [Browsers -> BOOLEAN] /\ \A d \in Browsers : quiet'[d] => quiet[d]
      /\ \A s \in Sids : store'[s] # NoRow => store[s] # NoRow \/ s \in minted'
  <2>1. s0 # None => s0 \in minted
    BY <1>4 DEF OneOwner
  <2>2. minted \subseteq Sids /\ store \in [Sids -> Content \cup {NoRow}] /\ quiet \in [Browsers -> BOOLEAN]
    BY DEF TypeOK
  <2>3. /\ minted \subseteq minted' /\ minted' \subseteq Sids
        /\ quiet' \in [Browsers -> BOOLEAN] /\ \A d \in Browsers : quiet'[d] => quiet[d]
    BY <2>2 DEF Saved
  <2>4. store' \in [Sids -> Content \cup {NoRow}]
    BY <2>2 DEF Saved
  <2>5. ASSUME NEW s \in Sids, store'[s] # NoRow PROVE store[s] # NoRow \/ s \in minted'
    <3>1. CASE UNCHANGED store
      BY <2>5, <3>1
    <3>2. CASE s0 \in Sids /\ \E x \in {c, NoRow} : store' = [store EXCEPT ![s0] = x]
      BY <2>1, <2>2, <2>3, <2>5, <3>2, <1>3
    <3>3. CASE k \in Sids /\ store' = [store EXCEPT ![k] = c] /\ minted' = minted \cup {k}
      BY <2>2, <2>5, <3>3
    <3> QED BY <3>1, <3>2, <3>3, <1>3, <1>4 DEF Saved
  <2> QED BY <2>3, <2>4, <2>5
<1>7. \A d \in Browsers, s \in Sids :
          Knows(d, s)' => Knows(d, s) \/ (d = b /\ s \notin minted /\ s \in minted')
  <2>1. k \in Sids => (k = s0 \/ k \notin minted) /\ k \in minted'
    BY <1>3 DEF Saved
  <2>2. SUFFICES ASSUME NEW d \in Browsers, NEW s \in Sids, NEW q \in Requests,
                        req'[q].phase # "none", req'[q].browser = d,
                        s \in {req'[q].sid, req'[q].cookie}
                 PROVE  Knows(d, s) \/ (d = b /\ s \notin minted /\ s \in minted')
    BY DEF Knows, Active
  <2>3. CASE q = r
    BY <1>2, <1>3, <1>4, <2>1, <2>2, <2>3
  <2>4. CASE q # r
    BY <1>1, <2>2, <2>4 DEF Knows, Active
  <2> QED BY <2>3, <2>4
\* What fitted a browser still does, unless this is a logout that worked.
<1>8. \A d \in Browsers : \A x \in Content : Fits(d, x) /\ (d # b \/ (out'[b] => out[b])) => Fits(d, x)'
  BY <1>3 DEF Fits, Content
<1>9. out'[b] /\ ~out[b] =>
        /\ \A s \in Sids : Knows(b, s)' => store'[s] = NoRow
        /\ \A q \in Requests \ {r} : Busy(q) => req[q].browser # b
  <2> SUFFICES ASSUME out'[b], ~out[b]
               PROVE  /\ \A s \in Sids : Knows(b, s)' => store'[s] = NoRow
                      /\ \A q \in Requests \ {r} : Busy(q) => req[q].browser # b
    OBVIOUS
  <2>1. req[r].alone /\ k = "delete"
    OBVIOUS
  <2>2. Active(b) = {r} /\ s0 = jar[b]
    BY <2>1 DEF AloneIsAlone, Busy
  <2>3. s0 \in Sids /\ store' = [store EXCEPT ![s0] = NoRow]
    BY <1>3, <1>4, <2>1 DEF Saved
  <2>4. \A q \in Requests \ {r} : Busy(q) => req[q].browser # b
    BY <2>2 DEF Active, Busy
  <2>5. ASSUME NEW s \in Sids, Knows(b, s)', s # jar[b] PROVE FALSE
    <3>1. PICK q \in Requests : req'[q].phase # "none" /\ req'[q].browser = b
                               /\ s \in {req'[q].sid, req'[q].cookie}
      BY <2>5 DEF Knows, Active
    <3>2. q = r
      BY <1>1, <2>4, <3>1 DEF Busy
    <3> QED BY <1>2, <1>3, <2>1, <3>1, <3>2
  <2> QED BY <2>2, <2>3, <2>4, <2>5 DEF TypeOK
<1>10. TypeOK'
  BY <1>1, <1>6 DEF TypeOK, Request
<1>11. Formed'
  <2> SUFFICES ASSUME NEW q \in Requests
               PROVE  /\ req'[q].phase # "none" => req'[q].browser \in Browsers
                      /\ req'[q].phase # "loaded" => req'[q].sess = Empty
                      /\ req'[q].phase = "loaded" => /\ (req'[q].blank <=> req'[q].sess = Empty)
                                                     /\ req'[q].sid = None => req'[q].blank
                      /\ req'[q].phase # "done" => req'[q].answer = None /\ req'[q].cookie = "keep"
                      /\ req'[q].phase = "done" => req'[q].sid = None
                      /\ /\ req'[q].phase \in {"sent", "loaded"}
                         /\ req'[q].kind \in {"callback", "libCallback"}
                         => req'[q].token \in Tokens
    BY Zenon DEF Formed, Busy
  <2>1. CASE q = r
    BY <1>2, <2>1
  <2>2. CASE q # r
    <3>1. req'[q] = req[q]
      BY <1>1, <2>2
    <3> QED BY <3>1 DEF Formed, Busy
  <2> QED BY <2>1, <2>2
<1>12. OneOwner'
  BY <1>3, <1>4, <1>6, <1>7 DEF OneOwner
<1>13. RowsFit'
  <2> SUFFICES ASSUME NEW d \in Browsers, NEW s \in Sids, Knows(d, s)',
                      NEW x \in Content, x = store'[s]
               PROVE  Fits(d, x)'
    BY <1>6 DEF RowsFit, Fits
  <2>1. CASE store'[s] = store[s]
    <3>1. Knows(d, s)
      BY <1>3, <1>7, <2>1, SessionsAssumption DEF OneOwner
    <3>2. Fits(d, x)
      BY <2>1, <3>1, SessionsAssumption DEF RowsFit
    <3> QED BY <1>8, <1>9, <3>2, SessionsAssumption
  <2>2. CASE x = c /\ (s = s0 \/ s \notin minted)
    <3>1. d = b
      BY <1>4, <1>7, <2>2, SessionsAssumption DEF OneOwner
    <3> QED BY <2>2, <3>1
  <2> QED BY <1>5, <2>1, <2>2, SessionsAssumption
<1>14. CopiesFit'
  <2> SUFFICES ASSUME NEW q \in Requests, req'[q].phase = "loaded",
                      NEW d, d = req'[q].browser, NEW x, x = req'[q].sess
               PROVE  Fits(d, x)'
    BY DEF CopiesFit, Fits
  <2>1. q # r /\ req'[q] = req[q] /\ Busy(q)
    BY <1>1, <1>2 DEF Busy
  <2>2. d \in Browsers /\ x \in Content /\ Fits(d, x)
    BY <2>1 DEF CopiesFit, Formed, TypeOK
  <2> QED BY <1>8, <1>9, <2>1, <2>2
<1>15. AloneIsAlone'
  <2> SUFFICES ASSUME NEW q \in Requests, req'[q].phase # "none", req'[q].alone
               PROVE  /\ Active(req[q].browser)' = {q}
                      /\ req'[q].phase # "done" => req'[q].sid = jar'[req'[q].browser]
                      /\ req'[q].kind = "logout" /\ req'[q].cookie = "delete"
                         => seen'[req'[q].browser] = None
    BY DEF AloneIsAlone, Busy
  <2> SUFFICES ASSUME NEW d, d = req'[q].browser
               PROVE  /\ Active(d)' = {q}
                      /\ req'[q].phase # "done" => req'[q].sid = jar[d]
                      /\ req'[q].kind = "logout" /\ req'[q].cookie = "delete" => seen'[d] = None
    BY DEF Active
  <2>1. CASE q = r
    <3>1. d = b /\ Active(b) = {r}
      BY <1>2, <2>1 DEF AloneIsAlone, Busy
    <3> QED BY <1>2, <1>2a, <2>1, <3>1
  <2>2. CASE q # r
    <3>1. req'[q] = req[q] /\ Busy(q) /\ Active(d) = {q}
      <4>1. req'[q] = req[q] /\ d = req[q].browser /\ req[q].phase # "none" /\ req[q].alone
        BY <1>1, <2>2
      <4> QED BY ONLY <4>1, AloneIsAlone DEF AloneIsAlone, Busy
    <3>2. d # b /\ d \in Browsers
      BY <2>2, <3>1 DEF Active, Formed
    <3> QED BY <1>2a, <3>1, <3>2 DEF AloneIsAlone
  <2> QED BY <2>1, <2>2
<1>16. QuietIsExact'
  <2> SUFFICES ASSUME NEW d \in Browsers, quiet'[d]
               PROVE  /\ Active(d)' = {} => Session(d)'.user = seen'[d]
                      /\ \A q \in Active(d)' : Awaits(d, q)'
    BY DEF QuietIsExact
  <2>0. quiet[d]
    BY <1>6
  <2>1. CASE d # b
    <3>1. Active(d)' = Active(d) /\ \A q \in Active(d) : req'[q] = req[q]
      BY <1>1, <1>2a, <2>1 DEF Active
    <3>2. \A s \in Sids : Knows(d, s) => store'[s] = store[s]
      BY <1>4, <1>5, <2>1, SessionsAssumption DEF OneOwner
    <3>3. Session(d)' = Session(d)
      BY <3>2 DEF Session, Knows, TypeOK
    <3>4. \A q \in Active(d) : Awaits(d, q)'
      BY <2>0, <2>1, <3>1, <3>2, <3>3 DEF QuietIsExact, Awaits, Knows
    <3> QED BY <2>0, <2>1, <3>1, <3>3, <3>4 DEF QuietIsExact
  <2>2. CASE d = b
    <3>1. r \in Active(b) /\ Awaits(b, r) /\ Active(b) = {r}
      BY <2>0, <2>2 DEF QuietIsExact, Active, Awaits, AloneIsAlone, Busy
    <3>2. Active(b)' = {r}
      BY <1>2a, <3>1
    <3>3. /\ req[r].alone /\ req[r].sess = Session(b) /\ c.user = seen'[b]
          /\ s0 = jar[b]
      BY <2>0, <2>2, <3>1 DEF Awaits, AloneIsAlone, Busy
    <3>4. CASE k = "keep"
      <4>1. c = req[r].sess /\ UNCHANGED store
        BY <1>3, <2>2, <3>4 DEF Saved, TypeOK
      <4>2. Session(b)' = c
        BY <3>3, <4>1 DEF Session
      <4>3. Session(b)'.user = seen'[b]
        BY <3>3, <4>1, <4>2
      <4>4. Awaits(b, r)'
        BY <1>2, <1>3, <3>3, <3>4, <4>3 DEF Awaits
      <4> QED BY <2>2, <3>2, <4>4
    <3>5. CASE k = "delete"
      <4>1. c = Empty /\ s0 \in Sids /\ store' = [store EXCEPT ![s0] = NoRow]
        BY <1>3, <1>4, <3>5 DEF Saved
      <4>2. Session(b)' = Empty
        BY <3>3, <4>1 DEF Session, TypeOK
      <4>3. Session(b)'.user = None /\ seen'[b] = None
        BY <3>3, <4>1, <4>2 DEF Empty
      <4>4. Awaits(b, r)'
        BY <1>2, <1>3, <3>3, <3>5, <4>3 DEF Awaits
      <4> QED BY <2>2, <3>2, <4>4
    <3>6. CASE k \in Sids
      <4>1. store'[k] = c
        BY <1>3, <3>6 DEF Saved, TypeOK
      <4>2. Awaits(b, r)'
        BY <1>2, <1>3, <3>3, <3>6, <4>1 DEF Awaits
      <4> QED BY <2>2, <3>2, <4>2
    <3> QED BY <3>4, <3>5, <3>6
  <2> QED BY <2>1, <2>2
<1> QED BY <1>10, <1>11, <1>12, <1>13, <1>14, <1>15, <1>16
-----------------------------------------------------------------------------
\* What a request that has its copy can count on.
LEMMA HasCopy ==
    ASSUME IInv, NEW r \in Requests, req[r].phase = "loaded"
    PROVE  /\ req[r].browser \in Browsers /\ req[r].sess \in Content
           /\ Fits(req[r].browser, req[r].sess)
           /\ quiet[req[r].browser] => req[r].sess.user = seen[req[r].browser]
<1>1. req[r].browser \in Browsers /\ req[r].sess \in Content /\ Fits(req[r].browser, req[r].sess)
  BY DEF IInv, TypeOK, Formed, Busy, CopiesFit
<1>2. r \in Active(req[r].browser)
  BY DEF Active
<1> QED BY <1>1, <1>2 DEF IInv, QuietIsExact, Awaits

\* A handler that logs nobody in or out and leaves c, which fits.
LEMMA RespondStep ==
    ASSUME IInv, NEW r \in Requests, req[r].phase = "loaded", req[r].kind # "logout",
           NEW c \in Content, Respond(r, c), c.user = req[r].sess.user,
           issued' \in [Tokens -> Browsers \cup {None}],
           \A t \in Tokens : issued[t] # None => issued'[t] = issued[t],
           NEW b, b = req[r].browser, Fits(b, c)'
    PROVE  IInv'
<1>1. PICK k \in Sids \cup {"keep", "delete"}, v \in {None} : Answer(r, k, v) /\ Saved(r, c, k)
  BY Outcomes DEF Respond
<1>2. b \in Browsers /\ (quiet[b] => c.user = seen[b])
  BY HasCopy
<1>3. UNCHANGED <<jar, granted, seen, out>> /\ TypeOK
  BY DEF Respond, IInv
<1> QED BY <1>1, <1>2, <1>3, SaveStep DEF TypeOK

\* A handler that logs user u in, with the slots of c.
LEMMA GrantStep ==
    ASSUME IInv, NEW r \in Requests, req[r].phase = "loaded", req[r].kind # "logout",
           NEW u \in Users, NEW c \in Content, Grant(r, c, u),
           c.state \in Tokens => issued[c.state] = req[r].browser,
           \A t \in c.pending : issued[t] = req[r].browser
    PROVE  IInv'
<1> DEFINE b == req[r].browser
           d == [c EXCEPT !.user = u]
<1>1. d \in Content /\ d.user = u /\ d.state = c.state /\ d.pending = c.pending
  BY DEF Content
<1>2. Save(r, d, u) /\ b \in Browsers /\ TypeOK
  BY HasCopy DEF Grant, IInv
<1>3. PICK k \in Sids \cup {"keep", "delete"}, v \in {u, None} : Answer(r, k, v) /\ Saved(r, d, k)
  BY <1>1, <1>2, Outcomes
<1>4. /\ UNCHANGED <<jar, issued>> /\ granted' = granted \cup {<<b, u>>}
      /\ seen' = [seen EXCEPT ![b] = u] /\ out' = [out EXCEPT ![b] = FALSE]
  BY DEF Grant
<1> HIDE DEF d
<1>5. ASSUME NEW e, e = b PROVE Fits(e, d)'
  BY <1>1, <1>2, <1>4, <1>5 DEF Fits, TypeOK
<1>6. PICK e \in Browsers : e = b
  BY <1>2
<1> HIDE DEF b
<1>7. seen \in [Browsers -> Users \cup {None}] /\ out \in [Browsers -> BOOLEAN]
      /\ granted \subseteq Browsers \X Users /\ issued \in [Tokens -> Browsers \cup {None}]
  BY <1>2 DEF TypeOK
<1>8. /\ seen' \in [Browsers -> Users \cup {None}] /\ seen'[e] = u
      /\ \A x \in Browsers \ {e} : seen'[x] = seen[x]
  BY <1>4, <1>6, <1>7
<1>9. /\ out' \in [Browsers -> BOOLEAN] /\ ~out'[e]
      /\ \A x \in Browsers \ {e} : out'[x] = out[x]
  BY <1>4, <1>6, <1>7
<1>10. granted' \subseteq Browsers \X Users /\ granted \subseteq granted'
  BY <1>4, <1>6, <1>7
<1>11. e = req[r].browser /\ Fits(e, d)'
  BY <1>5, <1>6 DEF b
<1> QED
  <2>1. /\ issued' \in [Tokens -> Browsers \cup {None}]
        /\ \A t \in Tokens : issued[t] # None => issued'[t] = issued[t]
        /\ UNCHANGED jar
    BY <1>4, <1>7
  <2> QED BY <1>1, <1>3, <1>8, <1>9, <1>10, <1>11, <2>1, SaveStep

\* The load of a copy c that fits, and is the session of an undisturbed browser.
LEMMA LoadStep ==
    ASSUME IInv, NEW r \in Requests, NEW b \in Browsers, b = req[r].browser,
           req[r].phase = "sent", NEW c \in Content, Copy(r, c),
           UNCHANGED <<jar, store, minted, issued, granted, seen, out>>,
           quiet' \in [Browsers -> BOOLEAN], \A d \in Browsers : quiet'[d] => quiet[d],
           Fits(b, c), req[r].sid = None => c = Empty, quiet'[b] => c = Session(b)
    PROVE  IInv'
<1> USE DEF IInv
<1>1. /\ req' \in [Requests -> Request]
      /\ req'[r] = [req[r] EXCEPT !.phase = "loaded", !.sess = c, !.blank = (c = Empty)]
      /\ \A q \in Requests \ {r} : req'[q] = req[q]
  <2>1. TypeOK
    OBVIOUS
  <2> QED BY <2>1, Copies, Zenon
<1>2. /\ req'[r].phase = "loaded" /\ req'[r].sess = c /\ (req'[r].blank <=> c = Empty)
      /\ req'[r].browser = b /\ req'[r].sid = req[r].sid /\ req'[r].cookie = "keep"
      /\ req'[r].kind = req[r].kind /\ req'[r].token = req[r].token
      /\ req'[r].alone = req[r].alone /\ req'[r].answer = None
  <2>1. req[r] \in Request /\ req[r].cookie = "keep" /\ req[r].answer = None
    BY DEF TypeOK, Request, Formed
  <2> QED BY <1>1, <2>1 DEF Request
<1>3. /\ \A q \in Requests : /\ req'[q].browser = req[q].browser
                             /\ (req'[q].phase # "none") = (req[q].phase # "none")
      /\ \A d : Active(d)' = Active(d)
  <2>1. ASSUME NEW q \in Requests
        PROVE  /\ req'[q].browser = req[q].browser
               /\ (req'[q].phase # "none") = (req[q].phase # "none")
    <3>1. CASE q = r
      BY <1>2, <3>1
    <3>2. CASE q # r
      <4>1. req'[q] = req[q]
        BY <1>1, <3>2
      <4> QED BY <4>1
    <3> QED BY <3>1, <3>2
  <2>2. ASSUME NEW d PROVE Active(d)' = Active(d)
    BY <2>1 DEF Active
  <2> QED BY <2>1, <2>2
<1>4. TypeOK'
  BY <1>1 DEF TypeOK, Request
<1>5. Formed'
  <2> SUFFICES ASSUME NEW q \in Requests
               PROVE  /\ req'[q].phase # "none" => req'[q].browser \in Browsers
                      /\ req'[q].phase # "loaded" => req'[q].sess = Empty
                      /\ req'[q].phase = "loaded" => /\ (req'[q].blank <=> req'[q].sess = Empty)
                                                     /\ req'[q].sid = None => req'[q].blank
                      /\ req'[q].phase # "done" => req'[q].answer = None /\ req'[q].cookie = "keep"
                      /\ req'[q].phase = "done" => req'[q].sid = None
                      /\ /\ req'[q].phase \in {"sent", "loaded"}
                         /\ req'[q].kind \in {"callback", "libCallback"}
                         => req'[q].token \in Tokens
    BY Zenon DEF Formed, Busy
  <2>1. CASE q = r
    BY <1>2, <2>1 DEF Formed
  <2>2. CASE q # r
    <3>1. req'[q] = req[q]
      BY <1>1, <2>2
    <3> QED BY <3>1 DEF Formed, Busy
  <2> QED BY <2>1, <2>2
<1>6. \A d \in Browsers, s \in Sids : Knows(d, s)' <=> Knows(d, s)
  <2>1. \A q \in Requests : req'[q].sid = req[q].sid /\ req'[q].cookie = req[q].cookie
    BY <1>1, <1>2 DEF Formed
  <2> QED BY <1>3, <2>1 DEF Knows, Active
<1>7. OneOwner'
  BY <1>6 DEF OneOwner
<1>8. \A d, x : Fits(d, x)' <=> Fits(d, x)
  BY DEF Fits
<1>9. RowsFit'
  BY <1>6, <1>8 DEF RowsFit, Fits
<1>10. CopiesFit'
  <2> SUFFICES ASSUME NEW q \in Requests, req'[q].phase = "loaded",
                      NEW d, d = req'[q].browser, NEW x, x = req'[q].sess
               PROVE  Fits(d, x)
    BY <1>8 DEF CopiesFit, Fits
  <2> QED BY <1>1, <1>2 DEF CopiesFit
<1>11. AloneIsAlone'
  <2> SUFFICES ASSUME NEW q \in Requests, req'[q].phase # "none", req'[q].alone,
                      NEW d, d = req'[q].browser
               PROVE  /\ Active(d)' = {q}
                      /\ req'[q].phase # "done" => req'[q].sid = jar[d]
                      /\ req'[q].kind = "logout" /\ req'[q].cookie = "delete" => seen[d] = None
    BY DEF AloneIsAlone, Busy
  <2>1. CASE q = r
    BY <1>2, <1>3, <2>1, SessionsAssumption DEF AloneIsAlone, Busy
  <2>2. CASE q # r
    BY <1>1, <1>3, <2>2 DEF AloneIsAlone, Busy
  <2> QED BY <2>1, <2>2
<1>12. QuietIsExact'
  <2> SUFFICES ASSUME NEW d \in Browsers, quiet'[d]
               PROVE  /\ Active(d) = {} => Session(d).user = seen[d]
                      /\ \A q \in Active(d) : Awaits(d, q)'
    BY <1>3 DEF QuietIsExact, Session
  <2>1. ASSUME NEW q \in Active(d) PROVE Awaits(d, q)'
    <3>1. Awaits(d, q) /\ Session(d)' = Session(d) /\ q \in Requests /\ req[q].browser = d
      BY <2>1 DEF QuietIsExact, Session, Active
    <3>2. CASE q = r
      BY <1>2, <3>1, <3>2, SessionsAssumption DEF Awaits
    <3>3. CASE q # r
      BY <1>1, <3>1, <3>3 DEF Awaits
    <3> QED BY <3>2, <3>3
  <2> QED BY <2>1 DEF QuietIsExact
<1> QED BY <1>4, <1>5, <1>7, <1>9, <1>10, <1>11, <1>12

LEMMA LogoutStep == ASSUME IInv, NEW r \in Requests, Logout(r) PROVE IInv'
<1>1. /\ TypeOK /\ req[r].phase = "loaded" /\ Save(r, Empty, None) /\ UNCHANGED <<jar, issued, granted>>
      /\ seen' = [seen EXCEPT ![req[r].browser] = None]
      /\ out' = [out EXCEPT ![req[r].browser] =
                    @ \/ (~req[r].blank /\ Alone(r) /\ req'[r].cookie = "delete")]
  BY DEF Logout, Loaded, IInv
<1>2. PICK b \in Browsers : b = req[r].browser
  BY <1>1, HasCopy
<1>3. PICK k \in Sids \cup {"keep", "delete"} : Answer(r, k, None) /\ Saved(r, Empty, k)
  <2>1. PICK k \in Sids \cup {"keep", "delete"}, v \in {None, None} :
            Answer(r, k, v) /\ Saved(r, Empty, k)
    BY <1>1, Nothing, Outcomes
  <2> QED BY <2>1
<1>4. req'[r].cookie = k
  <2>1. TypeOK
    BY <1>1
  <2>2. ASSUME NEW v \in Users \cup {None}, Answer(r, k, v) PROVE req'[r].cookie = k
    <3>1. /\ req' \in [Requests -> Request]
          /\ req'[r] = [NoRequest EXCEPT !.phase = "done", !.browser = req[r].browser,
                             !.kind = req[r].kind, !.alone = req[r].alone, !.cookie = k,
                             !.answer = v]
          /\ \A q \in Requests \ {r} : req'[q] = req[q]
      BY <1>3, <2>1, <2>2, Answers, Zenon
    <3> QED BY <3>1 DEF NoRequest
  <2> QED BY <1>3, <2>2
<1>5. /\ seen \in [Browsers -> Users \cup {None}] /\ out \in [Browsers -> BOOLEAN]
      /\ granted \subseteq Browsers \X Users /\ issued \in [Tokens -> Browsers \cup {None}]
      /\ req[r].blank \in BOOLEAN /\ req[r].alone \in BOOLEAN
  BY <1>1 DEF TypeOK
<1>6. /\ seen' \in [Browsers -> Users \cup {None}] /\ seen'[b] = None
      /\ \A x \in Browsers \ {b} : seen'[x] = seen[x]
  BY <1>1, <1>2, <1>5
<1>7. /\ out' \in [Browsers -> BOOLEAN]
      /\ out'[b] => out[b] \/ (req[r].alone /\ k = "delete")
      /\ \A x \in Browsers \ {b} : out'[x] = out[x]
  BY <1>1, <1>2, <1>4, <1>5 DEF Alone
<1>8. Fits(b, Empty)' /\ Empty \in Content /\ Empty.user = None
  BY SessionsAssumption, Nothing DEF Fits, Empty
<1>9. /\ issued' \in [Tokens -> Browsers \cup {None}] /\ granted' \subseteq Browsers \X Users
      /\ \A t \in Tokens : issued[t] # None => issued'[t] = issued[t]
      /\ granted \subseteq granted' /\ UNCHANGED jar
  BY <1>1, <1>5
<1> QED BY <1>1, <1>2, <1>3, <1>6, <1>7, <1>8, <1>9, SaveStep

LEMMA SendStep ==
    ASSUME IInv, NEW r \in Requests, NEW b \in Browsers, NEW k \in Kinds,
           NEW t \in Tokens \cup {None}, Send(r, b, k, t)
    PROVE  IInv'
<1> USE DEF IInv
<1>1. /\ req' \in [Requests -> Request]
      /\ req'[r] = [NoRequest EXCEPT !.phase = "sent", !.browser = b, !.kind = k,
                                !.token = t, !.sid = jar[b], !.alone = (Active(b) = {})]
      /\ \A q \in Requests \ {r} : \E a \in BOOLEAN :
            /\ req'[q] = [req[q] EXCEPT !.alone = a]
            /\ a <=> req[q].alone /\ q \notin Active(b)
  <2>1. IInv
    OBVIOUS
  <2> HIDE DEF IInv
  <2> QED BY <2>1, Sends, Zenon
<1>2. /\ req'[r].phase = "sent" /\ req'[r].browser = b /\ req'[r].kind = k
      /\ req'[r].token = t /\ req'[r].sid = jar[b] /\ req'[r].sess = Empty
      /\ req'[r].cookie = "keep" /\ req'[r].answer = None
  BY <1>1 DEF NoRequest
<1>3. req'[r].alone => Active(b) = {}
  <2> DEFINE free == (Active(b) = {})
  <2>1. req'[r] = [NoRequest EXCEPT !.phase = "sent", !.browser = b, !.kind = k,
                                !.token = t, !.sid = jar[b], !.alone = free]
    BY <1>1
  <2> HIDE DEF free
  <2>2. req'[r].alone = free
    BY <2>1 DEF NoRequest
  <2> QED BY <2>2 DEF free
<1>4. \A q \in Requests \ {r} :
         /\ req'[q].phase = req[q].phase /\ req'[q].browser = req[q].browser
         /\ req'[q].kind = req[q].kind /\ req'[q].token = req[q].token
         /\ req'[q].sid = req[q].sid /\ req'[q].sess = req[q].sess
         /\ req'[q].blank = req[q].blank /\ req'[q].cookie = req[q].cookie
         /\ req'[q].answer = req[q].answer
         /\ req'[q].alone <=> req[q].alone /\ q \notin Active(b)
  <2> TAKE q \in Requests \ {r}
  <2>1. PICK a \in BOOLEAN : /\ req'[q] = [req[q] EXCEPT !.alone = a]
                             /\ a <=> req[q].alone /\ q \notin Active(b)
    BY <1>1
  <2>2. req[q] \in Request
    BY DEF TypeOK, Request
  <2>3. req'[q].alone = a
    BY <2>1, <2>2 DEF Request
  <2>4. /\ req'[q].phase = req[q].phase /\ req'[q].browser = req[q].browser
        /\ req'[q].kind = req[q].kind /\ req'[q].token = req[q].token
        /\ req'[q].sid = req[q].sid /\ req'[q].sess = req[q].sess
        /\ req'[q].blank = req[q].blank /\ req'[q].cookie = req[q].cookie
        /\ req'[q].answer = req[q].answer
    BY <2>1, <2>2 DEF Request
  <2> QED BY <2>1, <2>3, <2>4
<1>5. /\ req[r].phase = "none" /\ UNCHANGED <<jar, store, minted, issued, granted, seen, out>>
      /\ quiet' = [quiet EXCEPT ![b] = @ /\ Active(b) = {}]
      /\ k \in {"callback", "libCallback"} => t \in Tokens
  BY Zenon DEF Send
<1>6. /\ quiet' \in [Browsers -> BOOLEAN] /\ \A d \in Browsers : quiet'[d] => quiet[d]
      /\ quiet'[b] => Active(b) = {}
  <2> DEFINE free == (Active(b) = {})
  <2>1. quiet' = [quiet EXCEPT ![b] = @ /\ free] /\ quiet \in [Browsers -> BOOLEAN]
    BY <1>5 DEF TypeOK
  <2>2. free \in BOOLEAN
    OBVIOUS
  <2> HIDE DEF free
  <2>3. /\ quiet' \in [Browsers -> BOOLEAN] /\ \A d \in Browsers : quiet'[d] => quiet[d]
        /\ quiet'[b] => free
    BY <2>1, <2>2
  <2> QED BY <2>3 DEF free
<1>7. Active(b)' = Active(b) \cup {r} /\ \A d \in Browsers \ {b} : Active(d)' = Active(d)
  <2>1. \A q \in Requests : q = r \/ (/\ req'[q].browser = req[q].browser
                                      /\ req'[q].phase = req[q].phase)
    BY <1>4
  <2> QED BY <1>2, <1>5, <2>1 DEF Active
<1>8. \A d \in Browsers, s \in Sids : Knows(d, s)' => Knows(d, s)
  <2>1. ASSUME NEW d \in Browsers, NEW s \in Sids, NEW q \in Requests,
               req'[q].phase # "none", req'[q].browser = d, s \in {req'[q].sid, req'[q].cookie}
        PROVE  Knows(d, s)
    <3>1. CASE q = r
      BY <1>2, <2>1, <3>1, SessionsAssumption DEF Knows
    <3>2. CASE q # r
      BY <1>4, <2>1, <3>2 DEF Knows, Active
    <3> QED BY <3>1, <3>2
  <2> QED BY <1>5, <2>1 DEF Knows, Active
<1>9. TypeOK'
  BY <1>1, <1>5, <1>6 DEF TypeOK, Request
<1>10. Formed'
  <2> SUFFICES ASSUME NEW q \in Requests
               PROVE  /\ req'[q].phase # "none" => req'[q].browser \in Browsers
                      /\ req'[q].phase # "loaded" => req'[q].sess = Empty
                      /\ req'[q].phase = "loaded" => /\ (req'[q].blank <=> req'[q].sess = Empty)
                                                     /\ req'[q].sid = None => req'[q].blank
                      /\ req'[q].phase # "done" => req'[q].answer = None /\ req'[q].cookie = "keep"
                      /\ req'[q].phase = "done" => req'[q].sid = None
                      /\ /\ req'[q].phase \in {"sent", "loaded"}
                         /\ req'[q].kind \in {"callback", "libCallback"}
                         => req'[q].token \in Tokens
    BY Zenon DEF Formed, Busy
  <2>1. CASE q = r
    BY <1>2, <1>5, <2>1
  <2>2. CASE q # r
    BY <1>4, <2>2 DEF Formed, Busy
  <2> QED BY <2>1, <2>2
<1>11. OneOwner'
  BY <1>5, <1>8 DEF OneOwner
<1>12. \A d, x : Fits(d, x)' <=> Fits(d, x)
  BY <1>5 DEF Fits
<1>13. RowsFit'
  BY <1>5, <1>8, <1>12 DEF RowsFit, Fits
<1>14. CopiesFit'
  <2> SUFFICES ASSUME NEW q \in Requests, req'[q].phase = "loaded",
                      NEW d, d = req'[q].browser, NEW x, x = req'[q].sess
               PROVE  Fits(d, x)
    BY <1>12 DEF CopiesFit, Fits
  <2> QED BY <1>2, <1>4 DEF CopiesFit
<1>15. AloneIsAlone'
  <2> SUFFICES ASSUME NEW q \in Requests, req'[q].phase # "none", req'[q].alone,
                      NEW d, d = req'[q].browser
               PROVE  /\ Active(d)' = {q}
                      /\ req'[q].phase # "done" => req'[q].sid = jar'[d]
                      /\ req'[q].kind = "logout" /\ req'[q].cookie = "delete" => seen'[d] = None
    BY DEF AloneIsAlone, Busy
  <2>1. CASE q = r
    BY <1>2, <1>3, <1>5, <1>7, <2>1
  <2>2. CASE q # r
    <3>1. Busy(q) /\ req[q].alone /\ q \notin Active(b) /\ d = req[q].browser
      BY <1>4, <2>2 DEF Busy
    <3>2. d # b /\ d \in Browsers
      BY <3>1 DEF Active, Busy, Formed
    <3> QED BY <1>4, <1>5, <1>7, <2>2, <3>1, <3>2 DEF AloneIsAlone
  <2> QED BY <2>1, <2>2
<1>16. QuietIsExact'
  <2> SUFFICES ASSUME NEW d \in Browsers, quiet'[d]
               PROVE  /\ Active(d)' = {} => Session(d).user = seen[d]
                      /\ \A q \in Active(d)' : Awaits(d, q)'
    BY <1>5 DEF QuietIsExact, Session
  <2>0. Session(d)' = Session(d) /\ quiet[d]
    BY <1>5, <1>6 DEF Session
  <2>1. CASE d = b
    <3>1. Active(b) = {} /\ Session(b).user = seen[b] /\ Active(b)' = {r}
      BY <1>6, <1>7, <2>0, <2>1 DEF QuietIsExact
    <3>2. req'[r].alone
      <4> DEFINE free == (Active(b) = {})
      <4>1. req'[r] = [NoRequest EXCEPT !.phase = "sent", !.browser = b, !.kind = k,
                                    !.token = t, !.sid = jar[b], !.alone = free]
        BY <1>1
      <4>2. free
        BY <3>1
      <4> HIDE DEF free
      <4> QED BY <4>1, <4>2 DEF NoRequest
    <3>3. Awaits(b, r)'
      BY <1>2, <1>5, <2>0, <2>1, <3>1, <3>2, SessionsAssumption DEF Awaits
    <3> QED BY <2>1, <3>1, <3>3
  <2>2. CASE d # b
    <3>1. ASSUME NEW q \in Active(d) PROVE Awaits(d, q)'
      <4>1. q # r /\ q \notin Active(b) /\ q \in Requests
        BY <1>5, <2>2, <3>1 DEF Active
      <4> QED BY <1>4, <1>5, <2>0, <3>1, <4>1 DEF QuietIsExact, Awaits
    <3> QED BY <1>7, <2>0, <2>2, <3>1 DEF QuietIsExact
  <2> QED BY <2>1, <2>2
<1> QED BY <1>9, <1>10, <1>11, <1>13, <1>14, <1>15, <1>16

\* What an answer that is gone leaves of the requests.
Ends(r) == req[r].phase = "done" /\ req' = [req EXCEPT ![r] = NoRequest]

LEMMA Gone ==
    ASSUME IInv, NEW r \in Requests, Ends(r), NEW b \in Browsers, b = req[r].browser
    PROVE  /\ req' \in [Requests -> Request] /\ req'[r] = NoRequest
           /\ \A q \in Requests \ {r} : req'[q] = req[q]
           /\ Active(b)' = Active(b) \ {r}
           /\ \A d \in Browsers \ {b} : Active(d)' = Active(d)
           /\ req[r].alone => Active(b)' = {}
<1>1. /\ req' \in [Requests -> Request] /\ req'[r] = NoRequest
      /\ \A q \in Requests \ {r} : req'[q] = req[q]
  BY Nothing DEF Ends, IInv, TypeOK, Request
<1>2. NoRequest.phase = "none"
  BY DEF NoRequest
<1>3. /\ Active(b)' = Active(b) \ {r}
      /\ \A d \in Browsers \ {b} : Active(d)' = Active(d)
  BY <1>1, <1>2 DEF Ends, Active
<1>4. req[r].alone => Active(b) = {r}
  BY DEF Ends, IInv, AloneIsAlone, Busy
<1> QED BY <1>1, <1>3, <1>4

\* An answer goes, and the cookie that it carries may replace the browser's.
LEMMA GoneStep ==
    ASSUME IInv, NEW r \in Requests, Ends(r), NEW b \in Browsers, b = req[r].browser,
           UNCHANGED <<store, minted, issued, granted, seen, out>>,
           jar' \in [Browsers -> Sids \cup {None}],
           jar'[b] \in {jar[b], None, req[r].cookie},
           quiet' \in [Browsers -> BOOLEAN],
           \A d \in Browsers \ {b} : jar'[d] = jar[d] /\ quiet'[d] = quiet[d],
           Active(b)' = {} /\ quiet'[b] => Session(b)'.user = seen[b],
           quiet'[b] => Active(b)' = {}
    PROVE  IInv'
<1> USE DEF IInv
<1>1. /\ req' \in [Requests -> Request] /\ req'[r] = NoRequest
      /\ \A q \in Requests \ {r} : req'[q] = req[q]
      /\ Active(b)' = Active(b) \ {r}
      /\ \A d \in Browsers \ {b} : Active(d)' = Active(d)
  <2>1. IInv
    OBVIOUS
  <2> HIDE DEF IInv
  <2> QED BY <2>1, Gone
<1>2. /\ req[r].phase = "done" /\ NoRequest.phase = "none" /\ NoRequest.sess = Empty /\ NoRequest.answer = None
      /\ NoRequest.cookie = "keep"
  BY DEF NoRequest, Ends
<1>3. TypeOK'
  BY <1>1 DEF TypeOK, Request
<1>4. Formed'
  BY <1>1, <1>2 DEF Formed, Busy
<1>5. \A d \in Browsers, s \in Sids : Knows(d, s)' => Knows(d, s)
  <2> SUFFICES ASSUME NEW d \in Browsers, NEW s \in Sids, Knows(d, s)' PROVE Knows(d, s)
    OBVIOUS
  <2>1. r \in Active(b)
    BY DEF Ends, Active
  <2>2. CASE jar'[d] = s
    BY <2>1, <2>2, SessionsAssumption DEF Knows
  <2>3. ASSUME NEW q \in Active(d)', s \in {req'[q].sid, req'[q].cookie} PROVE Knows(d, s)
    <3>1. q \in Active(d) /\ q # r /\ q \in Requests
      BY <1>1, <1>2, <2>3 DEF Active
    <3> QED BY <1>1, <2>3, <3>1 DEF Knows
  <2> QED BY <2>2, <2>3 DEF Knows
<1>6. OneOwner'
  BY <1>5 DEF OneOwner
<1>7. \A d, x : Fits(d, x)' <=> Fits(d, x)
  BY DEF Fits
<1>8. RowsFit'
  BY <1>5, <1>7 DEF RowsFit, Fits
<1>9. CopiesFit'
  <2> SUFFICES ASSUME NEW q \in Requests, req'[q].phase = "loaded",
                      NEW d, d = req'[q].browser, NEW x, x = req'[q].sess
               PROVE  Fits(d, x)
    BY <1>7 DEF CopiesFit, Fits
  <2> QED BY <1>1, <1>2 DEF CopiesFit
<1>10. AloneIsAlone'
  <2> SUFFICES ASSUME NEW q \in Requests, req'[q].phase # "none", req'[q].alone,
                      NEW d, d = req'[q].browser
               PROVE  /\ Active(d)' = {q}
                      /\ req'[q].phase # "done" => req'[q].sid = jar'[d]
                      /\ req'[q].kind = "logout" /\ req'[q].cookie = "delete" => seen[d] = None
    BY DEF AloneIsAlone, Busy
  <2>1. q # r /\ req'[q] = req[q] /\ Busy(q)
    BY <1>1, <1>2 DEF Busy
  <2>2. d # b /\ d \in Browsers
    BY <1>2, <2>1 DEF AloneIsAlone, Active, Formed, Busy
  <2> QED BY <1>1, <2>1, <2>2 DEF AloneIsAlone
<1>11. QuietIsExact'
  <2> SUFFICES ASSUME NEW d \in Browsers, quiet'[d]
               PROVE  /\ Active(d)' = {} => Session(d)'.user = seen[d]
                      /\ \A q \in Active(d)' : Awaits(d, q)'
    BY DEF QuietIsExact
  <2>1. CASE d = b
    BY <2>1
  <2>2. CASE d # b
    <3>1. Active(d)' = Active(d) /\ Session(d)' = Session(d) /\ quiet[d]
      BY <1>1, <2>2 DEF Session
    <3>2. ASSUME NEW q \in Active(d) PROVE Awaits(d, q)'
      <4>1. q # r /\ req'[q] = req[q] /\ Awaits(d, q)
        BY <1>1, <2>2, <3>1, <3>2 DEF Active, QuietIsExact
      <4> QED BY <3>1, <4>1 DEF Awaits
    <3> QED BY <3>1, <3>2 DEF QuietIsExact
  <2> QED BY <2>1, <2>2
<1> QED BY <1>3, <1>4, <1>6, <1>8, <1>9, <1>10, <1>11

LEMMA DeliverStep == ASSUME IInv, NEW r \in Requests, Deliver(r) PROVE IInv'
<1>1. PICK b \in Browsers : b = req[r].browser
  BY DEF IInv, Deliver, Formed, Busy
<1>2. PICK k \in Sids \cup {"keep", "delete"} : k = req[r].cookie
  BY DEF IInv, TypeOK
<1>3. /\ req[r].phase = "done" /\ req' = [req EXCEPT ![r] = NoRequest]
      /\ jar' = [jar EXCEPT ![b] = IF k = "delete" THEN None ELSE IF k = "keep" THEN @ ELSE k]
      /\ UNCHANGED <<store, minted, issued, granted, seen, out>>
  BY <1>1, <1>2 DEF Deliver
<1>4. /\ jar \in [Browsers -> Sids \cup {None}] /\ quiet \in [Browsers -> BOOLEAN]
      /\ store \in [Sids -> Content \cup {NoRow}] /\ req[r].alone \in BOOLEAN
  BY DEF IInv, TypeOK
<1>5. /\ quiet' \in [Browsers -> BOOLEAN] /\ \A d \in Browsers \ {b} : quiet'[d] = quiet[d]
      /\ quiet'[b] => quiet[b] \/ (req[r].kind = "logout" /\ k = "delete" /\ req[r].alone)
  <2>1. quiet' = [quiet EXCEPT ![b] = @ \/ (req[r].kind = "logout" /\ k = "delete" /\ req[r].alone)]
    BY <1>1, <1>2, Zenon DEF Deliver, Alone
  <2> QED BY <1>4, <2>1
<1>6. /\ jar' \in [Browsers -> Sids \cup {None}] /\ \A d \in Browsers \ {b} : jar'[d] = jar[d]
      /\ k = "delete" => jar'[b] = None
      /\ k = "keep" => jar'[b] = jar[b]
      /\ k \in Sids => jar'[b] = k
  BY <1>3, <1>4, SessionsAssumption
<1>7. r \in Active(b)
  BY <1>1, <1>3 DEF Active
<1>7a. Ends(r) /\ (req[r].alone => Active(b)' = {})
  BY <1>1, <1>3, Gone DEF Ends
<1>8. ASSUME quiet'[b] PROVE Active(b)' = {} /\ Session(b)'.user = seen[b]
  <2>1. CASE quiet[b]
    <3>1. Awaits(b, r)
      BY <1>7, <2>1 DEF IInv, QuietIsExact
    <3>2. k = "keep" => Session(b)' = Session(b)
      BY <1>3, <1>6 DEF Session
    <3>3. k = "delete" => Session(b)' = Empty
      BY <1>6 DEF Session
    <3>4. k \in Sids => Session(b)' = store[k] /\ store[k].user = seen[b]
      BY <1>2, <1>3, <1>6, <3>1, SessionsAssumption DEF Session, Awaits
    <3>5. Session(b)'.user = seen[b]
      BY <1>2, <3>1, <3>2, <3>3, <3>4 DEF Awaits, Empty
    <3> QED BY <1>7a, <3>1, <3>5 DEF Awaits
  <2>2. CASE req[r].kind = "logout" /\ k = "delete" /\ req[r].alone
    <3>1. seen[b] = None
      BY <1>1, <1>2, <1>3, <2>2 DEF IInv, AloneIsAlone, Busy
    <3>2. Session(b)' = Empty
      BY <1>6, <2>2 DEF Session
    <3> QED BY <1>7a, <2>2, <3>1, <3>2 DEF Empty
  <2> QED BY <1>5, <1>8, <2>1, <2>2
<1>9. jar'[b] \in {jar[b], None, req[r].cookie}
  BY <1>2, <1>6
<1> QED BY <1>1, <1>3, <1>5, <1>6, <1>7a, <1>8, <1>9, GoneStep

LEMMA LoseStep == ASSUME IInv, NEW r \in Requests, Lose(r) PROVE IInv'
<1>1. PICK b \in Browsers : b = req[r].browser
  BY DEF IInv, Lose, Formed, Busy
<1>2. PICK k \in Sids \cup {"keep", "delete"} : k = req[r].cookie
  BY DEF IInv, TypeOK
<1>3. /\ req[r].phase = "done" /\ req' = [req EXCEPT ![r] = NoRequest]
      /\ UNCHANGED <<jar, store, minted, issued, granted, seen, out>>
      /\ quiet' = [quiet EXCEPT ![b] = @ /\ k \in {"keep", "delete", jar[b]}]
  BY <1>1, <1>2, Zenon DEF Lose
<1>4. /\ jar \in [Browsers -> Sids \cup {None}] /\ quiet \in [Browsers -> BOOLEAN]
  BY DEF IInv, TypeOK
<1>5. /\ quiet' \in [Browsers -> BOOLEAN] /\ \A d \in Browsers \ {b} : quiet'[d] = quiet[d]
      /\ quiet'[b] => quiet[b] /\ k \in {"keep", "delete", jar[b]}
  BY <1>3, <1>4
<1>6. r \in Active(b)
  BY <1>1, <1>3 DEF Active
<1>6a. Ends(r) /\ (req[r].alone => Active(b)' = {})
  BY <1>1, <1>3, Gone DEF Ends
<1>7. ASSUME quiet'[b] PROVE Active(b)' = {} /\ Session(b)'.user = seen[b]
  <2>1. Awaits(b, r)
    BY <1>5, <1>6, <1>7 DEF IInv, QuietIsExact
  <2>2. Session(b)' = Session(b)
    BY <1>3 DEF Session
  <2>3. Session(b).user = seen[b]
    BY <1>2, <1>4, <1>5, <1>7, <2>1, SessionsAssumption DEF Awaits, Session
  <2> QED BY <1>6a, <2>1, <2>2, <2>3 DEF Awaits
<1>8. /\ jar' \in [Browsers -> Sids \cup {None}] /\ jar'[b] \in {jar[b], None, req[r].cookie}
      /\ \A d \in Browsers \ {b} : jar'[d] = jar[d] /\ quiet'[d] = quiet[d]
  BY <1>3, <1>4, <1>5
<1> QED BY <1>1, <1>3, <1>5, <1>6a, <1>7, <1>8, GoneStep

LEMMA ExpireStep == ASSUME IInv, NEW s \in Sids, Expire(s) PROVE IInv'
<1> USE DEF IInv
<1>1. /\ store' = [store EXCEPT ![s] = NoRow]
      /\ UNCHANGED <<jar, req, minted, issued, granted, seen, out>>
  BY DEF Expire
<1>2. /\ quiet' \in [Browsers -> BOOLEAN]
      /\ \A d \in Browsers : quiet'[d] => quiet[d] /\ jar[d] # s
            /\ \A r \in Active(d) : s # req[r].cookie
  <2> DEFINE still(d) == /\ quiet[d] /\ jar[d] # s
                         /\ \A r \in Active(d) : s \notin {req[r].sid, req[r].cookie}
  <2>1. quiet' = [d \in Browsers |-> still(d)]
    BY Zenon DEF Expire
  <2>2. \A d \in Browsers : still(d) \in BOOLEAN
    BY DEF TypeOK
  <2> HIDE DEF still
  <2>3. quiet' \in [Browsers -> BOOLEAN] /\ \A d \in Browsers : quiet'[d] => still(d)
    BY <2>1, <2>2
  <2> QED BY <2>3 DEF still
<1>3. /\ store' \in [Sids -> Content \cup {NoRow}]
      /\ \A x \in Sids : store'[x] = store[x] \/ store'[x] = NoRow
      /\ \A x \in Sids \ {s} : store'[x] = store[x]
  BY <1>1 DEF TypeOK
<1>4. TypeOK' /\ Formed' /\ AloneIsAlone' /\ CopiesFit'
  BY <1>1, <1>2, <1>3 DEF TypeOK, Formed, AloneIsAlone, CopiesFit, Fits, Active, Busy
<1>5. \A d, x : Knows(d, x)' <=> Knows(d, x)
  BY <1>1 DEF Knows, Active
<1>6. OneOwner'
  BY <1>1, <1>3, <1>5 DEF OneOwner
<1>7. RowsFit'
  <2> SUFFICES ASSUME NEW d \in Browsers, NEW x \in Sids, Knows(d, x), store'[x] # NoRow,
                      NEW c, c = store'[x]
               PROVE  Fits(d, c)'
    BY <1>5 DEF RowsFit, Fits
  <2>1. Fits(d, c)
    BY <1>3 DEF RowsFit
  <2> QED BY <1>1, <2>1 DEF Fits
<1>8. QuietIsExact'
  <2> SUFFICES ASSUME NEW d \in Browsers, quiet'[d]
               PROVE  /\ Active(d) = {} => Session(d)'.user = seen[d]
                      /\ \A q \in Active(d) : Awaits(d, q)'
    BY <1>1 DEF QuietIsExact, Active
  <2>1. Session(d)' = Session(d) /\ quiet[d]
    BY <1>1, <1>2, <1>3 DEF Session, TypeOK
  <2>2. ASSUME NEW q \in Active(d) PROVE Awaits(d, q)'
    <3>1. Awaits(d, q) /\ s # req[q].cookie
      BY <1>2, <2>1, <2>2 DEF QuietIsExact
    <3> QED BY <1>1, <1>3, <2>1, <3>1 DEF Awaits
  <2> QED BY <2>1, <2>2 DEF QuietIsExact
<1> QED BY <1>4, <1>6, <1>7, <1>8
-----------------------------------------------------------------------------
\* The handlers, one by one.
LEMMA HandleStep == ASSUME IInv, NEW r \in Requests, Handle(r) PROVE IInv'
<1>a. req[r].phase = "loaded"
  BY Zenon DEF Handle, Untouched, Login, LibLogin, CallbackRefused, LibCallbackRefused,
               CallbackAccepted, LibCallbackAccepted, TelegramAccepted, Logout, Crash, Loaded
<1>b. PICK b \in Browsers : b = req[r].browser
  BY <1>a, HasCopy
<1>c. PICK x \in Content : x = req[r].sess
  BY <1>a, HasCopy
<1>1. /\ req[r].phase = "loaded" /\ b = req[r].browser /\ x = req[r].sess /\ Fits(b, x)
      /\ issued \in [Tokens -> Browsers \cup {None}] /\ TypeOK
      /\ quiet[b] => x.user = seen[b]
  BY <1>a, <1>b, <1>c, HasCopy DEF IInv, TypeOK
<1>2. CASE Untouched(r)
  <2>1. /\ req[r].kind # "logout" /\ Respond(r, x)
        /\ UNCHANGED <<issued, granted, out>>
    BY <1>1, <1>2 DEF Untouched, Loaded, Respond
  <2>2. Fits(b, x)'
    BY <1>1, <2>1 DEF Fits
  <2> QED BY <1>1, <1>b, <1>c, <2>1, <2>2, RespondStep
<1>3. ASSUME NEW t \in Tokens, Login(r, t) PROVE IInv'
  <2> DEFINE c == [x EXCEPT !.state = t]
  <2>1. /\ req[r].kind # "logout" /\ Respond(r, c)
        /\ issued[t] = None /\ issued' = [issued EXCEPT ![t] = b] /\ UNCHANGED <<granted, out>>
    BY <1>1, <1>3 DEF Login, Loaded, Respond
  <2>2. c \in Content /\ c.user = x.user /\ c.state = t /\ c.pending = x.pending
    BY <1>c DEF Content
  <2>3. /\ issued' \in [Tokens -> Browsers \cup {None}] /\ issued'[t] = b
        /\ \A s \in Tokens : issued[s] # None => issued'[s] = issued[s]
    BY <1>1, <2>1
  <2>4. x.pending \subseteq Tokens /\ b # None
    BY <1>b, <1>c, SessionsAssumption DEF Content
  <2> HIDE DEF c
  <2>5. Fits(b, c)'
    BY <1>1, <2>1, <2>2, <2>3, <2>4 DEF Fits
  <2> QED BY <1>1, <2>1, <1>b, <1>c, <2>2, <2>3, <2>5, RespondStep
<1>4. ASSUME NEW t \in Tokens, LibLogin(r, t) PROVE IInv'
  <2> DEFINE c == [x EXCEPT !.state = Junk, !.pending = @ \cup {t}]
  <2>1. /\ req[r].kind # "logout" /\ Respond(r, c)
        /\ issued[t] = None /\ issued' = [issued EXCEPT ![t] = b] /\ UNCHANGED <<granted, out>>
    BY <1>1, <1>4 DEF LibLogin, Loaded, Respond
  <2>2. c \in Content /\ c.user = x.user /\ c.state = Junk /\ c.pending = x.pending \cup {t}
    BY <1>c DEF Content
  <2>3. /\ issued' \in [Tokens -> Browsers \cup {None}] /\ issued'[t] = b
        /\ \A s \in Tokens : issued[s] # None => issued'[s] = issued[s]
    BY <1>1, <2>1
  <2>4. x.pending \subseteq Tokens /\ b # None /\ Junk \notin Tokens
    BY <1>b, <1>c, SessionsAssumption DEF Content
  <2> HIDE DEF c
  <2>5. Fits(b, c)'
    BY <1>1, <2>1, <2>2, <2>3, <2>4 DEF Fits
  <2> QED BY <1>1, <2>1, <1>b, <1>c, <2>2, <2>3, <2>5, RespondStep
<1>5. CASE CallbackRefused(r)
  <2> DEFINE c == [x EXCEPT !.state = None]
  <2>1. /\ req[r].kind # "logout" /\ Respond(r, c)
        /\ UNCHANGED <<issued, granted, out>>
    BY <1>1, <1>5 DEF CallbackRefused, Loaded, Respond
  <2>2. c \in Content /\ c.user = x.user /\ c.state = None /\ c.pending = x.pending
    BY <1>c DEF Content
  <2> HIDE DEF c
  <2>3. Fits(b, c)'
    BY <1>1, <2>1, <2>2, SessionsAssumption DEF Fits
  <2> QED BY <1>1, <1>b, <1>c, <2>1, <2>2, <2>3, RespondStep
<1>6. CASE LibCallbackRefused(r)
  <2>a. PICK a : a = req[r].token
    OBVIOUS
  <2> DEFINE c == [x EXCEPT !.pending = @ \ {a}]
  <2>1. /\ req[r].kind # "logout" /\ Respond(r, c)
        /\ UNCHANGED <<issued, granted, out>>
    BY <1>1, <1>6, <2>a DEF LibCallbackRefused, Loaded, Respond
  <2>2. /\ c \in Content /\ c.user = x.user /\ c.state = x.state
        /\ c.pending = x.pending \ {a}
    BY <1>c DEF Content
  <2> HIDE DEF c
  <2>3. Fits(b, c)'
    BY <1>1, <2>1, <2>2 DEF Fits
  <2> QED BY <1>1, <1>b, <1>c, <2>1, <2>2, <2>3, RespondStep
<1>7. ASSUME NEW u \in Users, CallbackAccepted(r, u) PROVE IInv'
  <2> DEFINE c == [x EXCEPT !.state = None]
  <2>1. req[r].kind # "logout" /\ Grant(r, c, u)
    BY <1>1, <1>7 DEF CallbackAccepted, Loaded
  <2>2. c \in Content /\ c.state = None /\ c.pending = x.pending
    BY <1>c DEF Content
  <2> HIDE DEF c
  <2> QED BY <1>1, <2>1, <2>2, GrantStep, SessionsAssumption DEF Fits
<1>8. ASSUME NEW u \in Users, LibCallbackAccepted(r, u) PROVE IInv'
  <2> DEFINE c == [x EXCEPT !.pending = @ \ {req[r].token}]
  <2>1. req[r].kind # "logout" /\ Grant(r, c, u)
    BY <1>1, <1>8 DEF LibCallbackAccepted, Loaded
  <2>2. c \in Content /\ c.state = x.state /\ c.pending = x.pending \ {req[r].token}
    BY <1>c DEF Content
  <2> HIDE DEF c
  <2> QED BY <1>1, <2>1, <2>2, GrantStep DEF Fits
<1>9. ASSUME NEW u \in Users, TelegramAccepted(r, u) PROVE IInv'
  <2>1. req[r].kind # "logout" /\ Grant(r, x, u)
    BY <1>1, <1>9 DEF TelegramAccepted, Loaded
  <2> QED BY <1>1, <2>1, GrantStep DEF Fits
<1>10. CASE Crash(r)
  <2>1. /\ req[r].kind # "logout" /\ Answer(r, "keep", None)
        /\ UNCHANGED <<jar, store, minted, issued, granted, seen, quiet, out>>
    BY <1>1, <1>10 DEF Crash, Loaded
  <2>2. Saved(r, x, "keep")
    BY <1>1, <2>1 DEF Saved
  <2>3. Fits(b, x)' /\ (quiet[b] => x.user = seen'[b])
    BY <1>1, <2>1 DEF Fits
  <2>4. \A k \in {"keep"}, v \in {None} : Answer(r, k, v) /\ Saved(r, x, k)
    BY <2>1, <2>2
  <2> QED BY <1>1, <1>b, <1>c, <2>1, <2>3, <2>4, SaveStep DEF TypeOK
<1> QED BY <1>2, <1>3, <1>4, <1>5, <1>6, <1>7, <1>8, <1>9, <1>10, LogoutStep DEF Handle

LEMMA LoadsStep == ASSUME IInv, NEW r \in Requests, Load(r) \/ LoadFails(r) PROVE IInv'
<1>1. PICK b \in Browsers : b = req[r].browser
  BY DEF IInv, Load, LoadFails, Formed, Busy
<1>2. /\ req[r].phase = "sent" /\ UNCHANGED <<jar, store, minted, issued, granted, seen, out>>
      /\ TypeOK /\ quiet \in [Browsers -> BOOLEAN]
  BY DEF Load, LoadFails, IInv, TypeOK
<1>3. Fits(b, Empty)
  BY SessionsAssumption DEF Fits, Empty
<1>4. CASE Load(r)
  <2> DEFINE c == IF req[r].sid = None \/ store[req[r].sid] = NoRow THEN Empty
                  ELSE store[req[r].sid]
  <2>1. Copy(r, c) /\ quiet' = quiet
    BY <1>4 DEF Load
  <2>2. r \in Active(b)
    BY <1>1, <1>2 DEF Active
  <2>3. req[r].sid \in Sids \cup {None}
    BY <1>2 DEF TypeOK
  <2>4. req[r].sid # None => Knows(b, req[r].sid)
    BY <2>2 DEF Knows
  <2>5. c \in Content /\ Fits(b, c)
    BY <1>2, <1>3, <2>3, <2>4, Nothing DEF IInv, TypeOK, RowsFit
  <2>6. quiet[b] => c = Session(b)
    <3>1. SUFFICES ASSUME quiet[b] PROVE c = Session(b)
      OBVIOUS
    <3>2. req[r].alone
      BY <2>2, <3>1 DEF IInv, QuietIsExact, Awaits
    <3>3. req[r].sid = jar[b]
      BY <1>1, <1>2, <3>2 DEF IInv, AloneIsAlone, Busy
    <3> QED BY <3>3 DEF Session
  <2>7. req[r].sid = None => c = Empty
    OBVIOUS
  <2> HIDE DEF c
  <2> QED BY <1>1, <1>2, <2>1, <2>5, <2>6, <2>7, LoadStep
<1>5. CASE LoadFails(r)
  <2>1. Copy(r, Empty) /\ quiet' = [quiet EXCEPT ![b] = FALSE]
    BY <1>1, <1>5 DEF LoadFails
  <2> QED BY <1>1, <1>2, <1>3, <2>1, LoadStep, Nothing
<1> QED BY <1>4, <1>5

LEMMA Preserved == IInv /\ [Next]_vars => IInv'
<1> SUFFICES ASSUME IInv, [Next]_vars PROVE IInv'
  OBVIOUS
<1>1. ASSUME NEW r \in Requests, NEW b \in Browsers, NEW k \in Kinds,
             NEW t \in Tokens \cup {None}, Send(r, b, k, t)
      PROVE  IInv'
  BY <1>1, SendStep
<1>2. ASSUME NEW r \in Requests, Load(r) \/ LoadFails(r) \/ Handle(r) \/ Deliver(r) \/ Lose(r)
      PROVE  IInv'
  BY <1>2, LoadsStep, HandleStep, DeliverStep, LoseStep
<1>3. ASSUME NEW s \in Sids, Expire(s) PROVE IInv'
  BY <1>3, ExpireStep
<1>4. CASE UNCHANGED vars
  BY <1>4 DEF IInv, TypeOK, Formed, OneOwner, RowsFit, CopiesFit, AloneIsAlone, QuietIsExact,
              Awaits, Session, Fits, Knows, Active, Busy, vars
<1> QED BY <1>1, <1>2, <1>3, <1>4 DEF Next

\* The invariant that the properties follow from: a sid is one browser's, and
\* what is stored under it or copied from it was put there for that browser.
THEOREM Inductive == Spec => []IInv
BY Initially, Preserved, PTL DEF Spec

\* The state of the session machinery keeps its types.
THEOREM TypeCorrect == Spec => []TypeOK
<1>1. IInv => TypeOK
  BY DEF IInv
<1> QED BY <1>1, Inductive, PTL

\* UserProvenance: overlapping requests, lost answers and late writes never
\* make a browser somebody no callback in it made it.
THEOREM UsersGranted == Spec => []UserProvenance
<1>1. IInv => UserProvenance
  <2> SUFFICES ASSUME IInv, NEW b \in Browsers
               PROVE  /\ Session(b).user # None => <<b, Session(b).user>> \in granted
                      /\ \A r \in Active(b) : req[r].sess.user # None
                                                => <<b, req[r].sess.user>> \in granted
    BY Zenon DEF UserProvenance
  <2>1. Session(b).user # None => <<b, Session(b).user>> \in granted
    BY DEF IInv, TypeOK, RowsFit, Fits, Knows, Session, Empty
  <2>2. ASSUME NEW r \in Active(b), req[r].sess.user # None
        PROVE  <<b, req[r].sess.user>> \in granted
    <3>1. r \in Requests /\ req[r].browser = b
      BY <2>2 DEF Active
    <3>2. req[r].phase = "loaded"
      BY <2>2, <3>1 DEF IInv, Formed, Empty
    <3> QED BY <2>2, <3>1, <3>2 DEF IInv, CopiesFit, Fits
  <2> QED BY <2>1, <2>2
<1> QED BY <1>1, Inductive, PTL

\* LogoutSticks: after an undisturbed logout the old user stays away, whatever
\* is sent next.
THEOREM LogoutsStick == Spec => []LogoutSticks
<1>1. IInv => LogoutSticks
  <2> SUFFICES ASSUME IInv, NEW b \in Browsers, out[b]
               PROVE  Session(b).user = None /\ \A r \in Active(b) : req[r].sess.user = None
    BY DEF LogoutSticks
  <2>1. Session(b).user = None
    BY DEF IInv, TypeOK, RowsFit, Fits, Knows, Session, Empty
  <2>2. ASSUME NEW r \in Active(b) PROVE req[r].sess.user = None
    <3>1. r \in Requests /\ req[r].browser = b
      BY <2>2 DEF Active
    <3>2. CASE req[r].phase = "loaded"
      BY <3>1, <3>2 DEF IInv, CopiesFit, Fits
    <3>3. CASE req[r].phase # "loaded"
      BY <3>1, <3>3 DEF IInv, Formed, Empty
    <3> QED BY <3>2, <3>3
  <2> QED BY <2>1, <2>2
<1> QED BY <1>1, Inductive, PTL

\* QuietSessionExact: an undisturbed browser is who its last callback or logout
\* says.
THEOREM QuietSessionsExact == Spec => []QuietSessionExact
<1>1. IInv => QuietSessionExact
  BY DEF IInv, QuietIsExact, QuietSessionExact
<1> QED BY <1>1, Inductive, PTL

\* AcceptsOwnState: a callback that logs somebody in carries a token that a
\* login in the same browser made.
THEOREM OwnStateAccepted == Spec => AcceptsOwnState
<1> DEFINE A == \A r \in Requests :
                   req[r].phase = "loaded" /\ req'[r].answer # None /\ req[r].kind # "telegram"
                     => issued[req[r].token] = req[r].browser
<1>1. IInv /\ [Next]_vars => [A]_vars
  <2> SUFFICES ASSUME IInv, Next, NEW r \in Requests, req[r].phase = "loaded",
                      req'[r].answer # None, req[r].kind # "telegram"
               PROVE  issued[req[r].token] = req[r].browser
    BY DEF A
  <2>1. TypeOK /\ Fits(req[r].browser, req[r].sess) /\ req[r].answer = None /\ req[r] \in Request
        /\ NoRequest.answer = None
    BY HasCopy DEF IInv, Formed, TypeOK, Request, NoRequest
  <2>2. ASSUME NEW q \in Requests, q # r, NEW c, Copy(q, c) \/ req' = [req EXCEPT ![q] = c]
        PROVE  FALSE
    BY <2>1, <2>2 DEF Copy, TypeOK
  <2>3. ASSUME NEW q \in Requests, NEW k, NEW u, Answer(q, k, u) PROVE q = r /\ u # None
    BY <2>1, <2>2, <2>3 DEF Answer, TypeOK, Request, NoRequest
  <2>4. ASSUME NEW q \in Requests, NEW c, NEW u, Save(q, c, u) PROVE q = r /\ u # None
    BY <2>3, <2>4 DEF Save, SaveNothing, Destroy, SaveRow, SaveFails
  <2>5. ASSUME NEW q \in Requests, NEW b \in Browsers, NEW k \in Kinds,
               NEW t \in Tokens \cup {None}, Send(q, b, k, t)
        PROVE  FALSE
    <3>1. q # r
      BY <2>5, Zenon DEF Send
    <3>2. /\ req' \in [Requests -> Request]
          /\ req'[q] = [NoRequest EXCEPT !.phase = "sent", !.browser = b, !.kind = k,
                                !.token = t, !.sid = jar[b], !.alone = (Active(b) = {})]
          /\ \A p \in Requests \ {q} : \E a \in BOOLEAN :
                /\ req'[p] = [req[p] EXCEPT !.alone = a]
                /\ a <=> req[p].alone /\ p \notin Active(b)
      BY <2>5, Sends, Zenon
    <3>3. PICK a \in BOOLEAN : req'[r] = [req[r] EXCEPT !.alone = a]
      BY <3>1, <3>2
    <3> QED BY <2>1, <3>3 DEF Request
  <2>6. ASSUME NEW q \in Requests, Load(q) \/ LoadFails(q) \/ Deliver(q) \/ Lose(q) PROVE FALSE
    BY <2>2, <2>6 DEF Load, LoadFails, Deliver, Lose
  <2>7. ASSUME NEW q \in Requests, Handle(q) PROVE issued[req[r].token] = req[r].browser
    <3>1. CASE Untouched(q)
      BY <2>4, <3>1 DEF Untouched, Respond
    <3>2. ASSUME NEW t \in Tokens, Login(q, t) \/ LibLogin(q, t) PROVE FALSE
      BY <2>4, <3>2 DEF Login, LibLogin, Respond
    <3>3. CASE CallbackRefused(q) \/ LibCallbackRefused(q)
      BY <2>4, <3>3 DEF CallbackRefused, LibCallbackRefused, Respond
    <3>4. ASSUME NEW u \in Users, CallbackAccepted(q, u)
          PROVE  issued[req[r].token] = req[r].browser
      <4>1. q = r
        BY <2>4, <3>4 DEF CallbackAccepted, Grant
      <4>2. req[r].token = req[r].sess.state /\ req[r].token \in Tokens
        BY <3>4, <4>1 DEF CallbackAccepted, Loaded, IInv, Formed
      <4> QED BY <2>1, <4>2 DEF Fits
    <3>5. ASSUME NEW u \in Users, LibCallbackAccepted(q, u)
          PROVE  issued[req[r].token] = req[r].browser
      <4>1. q = r
        BY <2>4, <3>5 DEF LibCallbackAccepted, Grant
      <4>2. req[r].token \in req[r].sess.pending
        BY <3>5, <4>1 DEF LibCallbackAccepted
      <4> QED BY <2>1, <4>2 DEF Fits
    <3>6. ASSUME NEW u \in Users, TelegramAccepted(q, u) PROVE FALSE
      <4>1. q = r
        BY <2>4, <3>6 DEF TelegramAccepted, Grant
      <4> QED BY <3>6, <4>1 DEF TelegramAccepted, Loaded
    <3>7. CASE Logout(q)
      BY <2>4, <3>7 DEF Logout
    <3>8. CASE Crash(q)
      BY <2>3, <3>8 DEF Crash
    <3> QED BY <2>7, <3>1, <3>2, <3>3, <3>4, <3>5, <3>6, <3>7, <3>8 DEF Handle
  <2>8. ASSUME NEW s \in Sids, Expire(s) PROVE FALSE
    BY <2>1, <2>8 DEF Expire
  <2> QED BY <2>5, <2>6, <2>7, <2>8 DEF Next
<1> QED BY <1>1, Inductive, PTL DEF Spec, AcceptsOwnState
=============================================================================
