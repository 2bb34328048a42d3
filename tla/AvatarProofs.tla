---------------------------- MODULE AvatarProofs ----------------------------
(* Proofs about Avatar, for any number of users, requests and file ids. *)
EXTENDS Avatar, TLAPS

Busy(r) == req[r].at # "idle"

\* File f is the avatar of user u, or some request of u works on it.
Holds(u, f) == fid[u] = f \/ \E r \in Requests : Busy(r) /\ req[r].user = u /\ req[r].fid = f

Uploading(r) == req[r].at \in {"upload", "record"}

\* A request that has begun has a user, and a file unless it only clears.
Formed == \A r \in Requests : Busy(r) =>
    req[r].user \in Users /\ (req[r].at # "clear" => req[r].fid # None)

\* A file has been handed out, and is one user's.
OneOwner == \A u, v \in Users : \A f \in Fids : Holds(u, f) =>
    f \in assigned /\ (Holds(v, f) => u = v)
Known == doomed \subseteq assigned /\ late \subseteq abandoned

\* Nobody but its upload knows a file before it is recorded.
UploadsFresh == \A r \in Requests : Uploading(r) =>
    /\ req[r].fid \notin doomed
    /\ \A u \in Users : fid[u] # req[r].fid
    /\ \A q \in Requests \ {r} : Busy(q) => req[q].fid # req[r].fid
    /\ req[r].at = "record" => req[r].fid \in blobs

\* What may still be deleted is shown only where a delete is known of, and what
\* is shown but gone likewise: NoBrokenAvatar, file by file.
DoomKnown == \A u \in Users, f \in Fids : fid[u] = f /\ f \in doomed =>
    f \in abandoned \/ Deleting(f)
Unbroken == \A u \in Users, f \in Fids : fid[u] = f =>
    f \in blobs \/ f \in abandoned \/ Deleting(f)

\* GarbageExplained, file by file.
WorkedOn(f) == \E r \in Requests : Busy(r) /\ req[r].fid = f
Shown(f) == \E u \in Users : fid[u] = f
Explained == \A f \in Fids : f \in blobs => Shown(f) \/ WorkedOn(f) \/ f \in left \cup abandoned

\* What a delete has left behind is accounted for before it is through.
ErasedGone == \A r \in Requests : req[r].at = "clear" /\ req[r].fid \in blobs =>
    req[r].fid \in left \cup abandoned

\* Who was alone still is, and nothing of the user has begun since its last
\* answer if that was exact.
AloneIsAlone ==
    /\ \A r \in Requests : Busy(r) /\ req[r].alone => Active(req[r].user) = {r}
    /\ \A u \in Users : exact[u] => Active(u) = {}

IInv == /\ TypeOK /\ Formed /\ OneOwner /\ Known /\ UploadsFresh /\ DoomKnown /\ ErasedGone
        /\ AloneIsAlone /\ Unbroken /\ AnswerExact /\ Explained
-----------------------------------------------------------------------------
Request == [at : Phases, user : Users \cup {None}, fid : Fids \cup {None}, alone : BOOLEAN]

LEMMA Initially == Init => IInv
BY AvatarAssumption DEF Init, IInv, TypeOK, Formed, OneOwner, Known, UploadsFresh, DoomKnown,
    ErasedGone, AloneIsAlone, Unbroken, AnswerExact, Explained, Holds, Busy,
    Uploading, Deleting, Active, Idle, Phases

\* What becomes of the requests, action by action: one begins,
LEMMA Enters ==
    ASSUME TypeOK, NEW r \in Requests, NEW u \in Users, NEW at \in Phases,
           NEW f \in Fids \cup {None}, Enter(r, u, at, f)
    PROVE  /\ req' \in [Requests -> Request] /\ exact' \in [Users -> BOOLEAN]
           /\ req'[r] = [at |-> at, user |-> u, fid |-> f, alone |-> Active(u) = {}]
           /\ \A q \in Requests \ {r} :
                 /\ req'[q].at = req[q].at /\ req'[q].user = req[q].user /\ req'[q].fid = req[q].fid
                 /\ req'[q].alone => req[q].alone /\ q \notin Active(u)
           /\ ~exact'[u]
           /\ \A v \in Users \ {u} : exact'[v] = exact[v]
<1> DEFINE new == [at |-> at, user |-> u, fid |-> f, alone |-> Active(u) = {}]
           old(q) == [req[q] EXCEPT !.alone = @ /\ q \notin Active(u)]
<1>1. new \in Request /\ \A q \in Requests : old(q) \in Request
  <2>1. (Active(u) = {}) \in BOOLEAN
    OBVIOUS
  <2>2. new \in Request
    BY <2>1 DEF Request
  <2>3. \A q \in Requests : req[q] \in Request /\ (req[q].alone /\ q \notin Active(u)) \in BOOLEAN
    BY DEF TypeOK, Request
  <2> QED BY <2>2, <2>3 DEF Request
<1>2. \A q \in Requests : /\ old(q).at = req[q].at /\ old(q).user = req[q].user
                          /\ old(q).fid = req[q].fid
                          /\ old(q).alone => req[q].alone /\ q \notin Active(u)
  BY DEF TypeOK, Request
<1>3. req' = [q \in Requests |-> IF q = r THEN new ELSE old(q)]
  BY DEF Enter
<1> HIDE DEF new, old
<1>4. /\ req' \in [Requests -> Request]
      /\ req'[r] = new
      /\ \A q \in Requests \ {r} : req'[q] = old(q)
  BY <1>1, <1>3
<1>5. /\ exact' \in [Users -> BOOLEAN] /\ ~exact'[u]
      /\ \A v \in Users \ {u} : exact'[v] = exact[v]
  BY DEF Enter, TypeOK
<1> QED BY <1>2, <1>4, <1>5 DEF new

\* one moves on,
LEMMA Proceeds ==
    ASSUME TypeOK, NEW r \in Requests, NEW at \in Phases, Proceed(r, at)
    PROVE  /\ req' \in [Requests -> Request] /\ UNCHANGED <<shown, exact>>
           /\ req'[r].at = at /\ req'[r].user = req[r].user /\ req'[r].fid = req[r].fid
           /\ req'[r].alone = req[r].alone
           /\ \A q \in Requests \ {r} : req'[q] = req[q]
<1>1. req[r] \in Request /\ req' = [req EXCEPT ![r] = [req[r] EXCEPT !.at = at]]
  BY DEF Proceed, TypeOK, Request
<1> QED BY <1>1 DEF Proceed, TypeOK, Request

\* one ends.
LEMMA Concludes ==
    ASSUME TypeOK, NEW r \in Requests, NEW f \in Fids \cup {None}, NEW answered \in BOOLEAN,
           req[r].user \in Users, Conclude(r, f, answered)
    PROVE  /\ req' \in [Requests -> Request]
           /\ shown' \in [Users -> Fids \cup {None}] /\ exact' \in [Users -> BOOLEAN]
           /\ req'[r] = Idle
           /\ \A q \in Requests \ {r} : req'[q] = req[q]
           /\ exact'[req[r].user] => answered /\ req[r].alone /\ shown'[req[r].user] = f
           /\ \A v \in Users \ {req[r].user} : exact'[v] = exact[v] /\ shown'[v] = shown[v]
<1>1. Idle \in Request
  BY DEF Idle, Request, Phases
<1>2. (answered /\ req[r].alone) \in BOOLEAN
  BY DEF TypeOK
<1>3. /\ req' = [req EXCEPT ![r] = Idle]
      /\ shown' = [shown EXCEPT ![req[r].user] = IF answered THEN f ELSE @]
      /\ exact' = [exact EXCEPT ![req[r].user] = answered /\ req[r].alone]
  BY DEF Conclude
<1>4. /\ req' \in [Requests -> Request] /\ req'[r] = Idle
      /\ \A q \in Requests \ {r} : req'[q] = req[q]
  BY <1>1, <1>3 DEF TypeOK, Request
<1>5. /\ shown' \in [Users -> Fids \cup {None}]
      /\ answered => shown'[req[r].user] = f
      /\ \A v \in Users \ {req[r].user} : shown'[v] = shown[v]
  BY <1>3 DEF TypeOK
<1>6. /\ exact' \in [Users -> BOOLEAN]
      /\ exact'[req[r].user] = (answered /\ req[r].alone)
      /\ \A v \in Users \ {req[r].user} : exact'[v] = exact[v]
  BY <1>3 DEF TypeOK
<1> QED BY <1>4, <1>5, <1>6
-----------------------------------------------------------------------------
\* An upload begins with a file that nobody has.
LEMMA AssignStep ==
    ASSUME IInv, NEW r \in Requests, NEW u \in Users, NEW f \in Fids, Assign(r, u, f)
    PROVE  IInv'
<1> USE DEF IInv
<1>1. /\ req' \in [Requests -> Request] /\ exact' \in [Users -> BOOLEAN]
      /\ req'[r] = [at |-> "upload", user |-> u, fid |-> f, alone |-> Active(u) = {}]
      /\ \A q \in Requests \ {r} :
            /\ req'[q].at = req[q].at /\ req'[q].user = req[q].user /\ req'[q].fid = req[q].fid
            /\ req'[q].alone => req[q].alone /\ q \notin Active(u)
      /\ ~exact'[u] /\ \A v \in Users \ {u} : exact'[v] = exact[v]
  BY Enters DEF Assign, Phases
<1>2. /\ ~Busy(r) /\ f \notin assigned /\ assigned' = assigned \cup {f}
      /\ UNCHANGED <<fid, blobs, late, doomed, abandoned, left, shown>>
  BY DEF Assign, Busy
<1>3. f # None /\ f \notin doomed /\ (\A v \in Users : fid[v] # f)
      /\ \A q \in Requests : Busy(q) => req[q].fid # f
  BY <1>2, AvatarAssumption DEF Known, OneOwner, Holds, Formed
<1>4. /\ \A g \in Fids : Deleting(g) => Deleting(g)'
      /\ \A g \in Fids : WorkedOn(g) => WorkedOn(g)'
      /\ \A g \in Fids : Shown(g) => Shown(g)'
  BY <1>1, <1>2 DEF Deleting, WorkedOn, Shown, Busy
<1>5. TypeOK'
  BY <1>1, <1>2 DEF TypeOK, Request
<1>6. Formed'
  BY <1>1, <1>3 DEF Formed, Busy
<1>7. OneOwner'
  BY <1>1, <1>2 DEF OneOwner, Holds, Busy
<1>8. Known'
  BY <1>2 DEF Known
<1>9. UploadsFresh'
  BY <1>1, <1>2, <1>3 DEF UploadsFresh, Uploading, Busy
<1>10. DoomKnown'
  BY <1>2, <1>4 DEF DoomKnown
<1>11. ErasedGone'
  BY <1>1, <1>2 DEF ErasedGone
<1>12. AloneIsAlone'
  BY <1>1 DEF AloneIsAlone, Active, Busy
<1>13. Unbroken'
  BY <1>2, <1>4 DEF Unbroken
<1>14. AnswerExact'
  BY <1>1, <1>2 DEF AnswerExact
<1>15. Explained'
  BY <1>2, <1>4 DEF Explained
<1> QED BY <1>5, <1>6, <1>7, <1>8, <1>9, <1>10, <1>11, <1>12, <1>13, <1>14, <1>15

\* A picture is stored.
LEMMA UploadStep ==
    ASSUME IInv, NEW r \in Requests, Upload(r)
    PROVE  IInv'
<1> USE DEF IInv
<1>1. /\ req' \in [Requests -> Request] /\ UNCHANGED <<shown, exact>>
      /\ req'[r].at = "record" /\ req'[r].user = req[r].user /\ req'[r].fid = req[r].fid
      /\ req'[r].alone = req[r].alone
      /\ \A q \in Requests \ {r} : req'[q] = req[q]
  BY Proceeds DEF Upload, Phases
<1>2. /\ req[r].at = "upload" /\ blobs' = blobs \cup {req[r].fid}
      /\ UNCHANGED <<fid, assigned, late, doomed, abandoned, left>>
  BY DEF Upload
<1>3. /\ req[r].user \in Users /\ req[r].fid \in Fids
      /\ \A q \in Requests \ {r} : Busy(q) => req[q].fid # req[r].fid
  BY <1>2 DEF Formed, UploadsFresh, Uploading, Busy, TypeOK
<1>4. /\ \A g \in Fids : Deleting(g) => Deleting(g)'
      /\ \A g \in Fids : WorkedOn(g) => WorkedOn(g)'
      /\ \A g \in Fids : Shown(g) => Shown(g)'
  BY <1>1, <1>2 DEF Deleting, WorkedOn, Shown, Busy
<1>5. TypeOK'
  BY <1>1, <1>2, <1>3 DEF TypeOK, Request
<1>6. Formed'
  BY <1>1, <1>2 DEF Formed, Busy
<1>7. OneOwner'
  BY <1>1, <1>2 DEF OneOwner, Holds, Busy
<1>8. Known'
  BY <1>2 DEF Known
<1>9. UploadsFresh'
  BY <1>1, <1>2 DEF UploadsFresh, Uploading, Busy, Formed
<1>10. DoomKnown'
  BY <1>2, <1>4 DEF DoomKnown
<1>11. ErasedGone'
  BY <1>1, <1>2, <1>3 DEF ErasedGone, Busy
<1>12. AloneIsAlone'
  BY <1>1, <1>2 DEF AloneIsAlone, Active, Busy
<1>13. Unbroken'
  BY <1>2, <1>4 DEF Unbroken
<1>14. AnswerExact'
  BY <1>1, <1>2 DEF AnswerExact
<1>15. Explained'
  BY <1>2, <1>4 DEF Explained, WorkedOn, Busy
<1> QED BY <1>5, <1>6, <1>7, <1>8, <1>9, <1>10, <1>11, <1>12, <1>13, <1>14, <1>15

\* A file becomes the avatar of its user.
LEMMA RecordStep ==
    ASSUME IInv, NEW r \in Requests, NEW answered \in BOOLEAN, Record(r, answered)
    PROVE  IInv'
<1> USE DEF IInv
<1>1. /\ req[r].at = "record" /\ Busy(r) /\ req[r].user \in Users /\ req[r].fid \in Fids
      /\ req[r].fid \in blobs /\ req[r].fid \notin doomed
      /\ \A q \in Requests \ {r} : Busy(q) => req[q].fid # req[r].fid
  BY DEF Record, Formed, UploadsFresh, Uploading, Busy, TypeOK
<1>2. /\ req' \in [Requests -> Request]
      /\ shown' \in [Users -> Fids \cup {None}] /\ exact' \in [Users -> BOOLEAN]
      /\ req'[r] = Idle /\ (\A q \in Requests \ {r} : req'[q] = req[q])
      /\ exact'[req[r].user] => req[r].alone /\ shown'[req[r].user] = req[r].fid
      /\ \A v \in Users \ {req[r].user} : exact'[v] = exact[v] /\ shown'[v] = shown[v]
  BY <1>1, Concludes DEF Record, TypeOK
<1>3. /\ fid' = [fid EXCEPT ![req[r].user] = req[r].fid]
      /\ left' = left \cup ({fid[req[r].user]} \ {None})
      /\ UNCHANGED <<blobs, assigned, late, doomed, abandoned>>
  BY DEF Record
<1>4. /\ \A v \in Users : fid'[v] = IF v = req[r].user THEN req[r].fid ELSE fid[v]
      /\ \A v \in Users : Holds(v, req[r].fid) => v = req[r].user
  BY <1>1, <1>3 DEF TypeOK, OneOwner, Holds, Busy
<1>5. /\ \A g \in Fids : Deleting(g) => Deleting(g)'
      /\ \A g \in Fids : WorkedOn(g) => WorkedOn(g)' \/ g = req[r].fid
      /\ \A g \in Fids : Shown(g) => Shown(g)' \/ g \in left'
      /\ \A g \in Fids : g = req[r].fid => Shown(g)'
  BY <1>1, <1>2, <1>3, <1>4, AvatarAssumption DEF Deleting, WorkedOn, Shown, Busy
<1>6. TypeOK'
  BY <1>1, <1>2, <1>3 DEF TypeOK, Request, Idle
<1>7. Formed'
  BY <1>2 DEF Formed, Busy, Idle
<1>8. OneOwner'
  BY <1>1, <1>2, <1>3 DEF OneOwner, Holds, Busy, Idle
<1>9. Known'
  BY <1>3 DEF Known
<1>10. UploadsFresh'
  BY <1>1, <1>2, <1>3 DEF UploadsFresh, Uploading, Busy, Idle
<1>11. DoomKnown'
  BY <1>1, <1>3, <1>5 DEF DoomKnown
<1>12. ErasedGone'
  BY <1>2, <1>3 DEF ErasedGone, Idle
<1>13. AloneIsAlone'
  BY <1>1, <1>2 DEF AloneIsAlone, Active, Busy, Idle
<1>14. Unbroken'
  BY <1>1, <1>3, <1>5 DEF Unbroken
<1>15. AnswerExact'
  BY <1>1, <1>2, <1>3, <1>4 DEF AnswerExact
<1>16. Explained'
  BY <1>3, <1>5 DEF Explained
<1> QED BY <1>6, <1>7, <1>8, <1>9, <1>10, <1>11, <1>12, <1>13, <1>14, <1>15, <1>16

\* A delete begins with what the profile shows.
LEMMA ReadAvatarStep ==
    ASSUME IInv, NEW r \in Requests, NEW u \in Users, ReadAvatar(r, u)
    PROVE  IInv'
<1> USE DEF IInv
<1>1. /\ req' \in [Requests -> Request] /\ exact' \in [Users -> BOOLEAN]
      /\ req'[r] = [at |-> IF fid[u] = None THEN "clear" ELSE "erase", user |-> u, fid |-> fid[u], alone |-> Active(u) = {}]
      /\ \A q \in Requests \ {r} :
            /\ req'[q].at = req[q].at /\ req'[q].user = req[q].user /\ req'[q].fid = req[q].fid
            /\ req'[q].alone => req[q].alone /\ q \notin Active(u)
      /\ ~exact'[u] /\ \A v \in Users \ {u} : exact'[v] = exact[v]
  BY Enters DEF ReadAvatar, Phases, TypeOK
<1>2. /\ ~Busy(r)
      /\ UNCHANGED <<fid, blobs, assigned, late, doomed, abandoned, left, shown>>
  BY DEF ReadAvatar, Busy, stores
<1>3. /\ fid[u] \in Fids \cup {None}
      /\ \A q \in Requests : Uploading(q) => req[q].fid # fid[u]
  BY DEF TypeOK, UploadsFresh
<1>4. /\ \A g \in Fids : Deleting(g) => Deleting(g)'
      /\ \A g \in Fids : WorkedOn(g) => WorkedOn(g)'
      /\ \A g \in Fids : Shown(g) => Shown(g)'
  BY <1>1, <1>2 DEF Deleting, WorkedOn, Shown, Busy
<1>5. TypeOK'
  BY <1>1, <1>2 DEF TypeOK, Request
<1>6. Formed'
  BY <1>1 DEF Formed, Busy
<1>7. OneOwner'
  BY <1>1, <1>2 DEF OneOwner, Holds, Busy
<1>8. Known'
  BY <1>2 DEF Known
<1>9. UploadsFresh'
  BY <1>1, <1>2 DEF UploadsFresh, Uploading, Busy
<1>10. DoomKnown'
  BY <1>2, <1>4 DEF DoomKnown
<1>11. ErasedGone'
  BY <1>1, <1>2, AvatarAssumption DEF ErasedGone, TypeOK
<1>12. AloneIsAlone'
  BY <1>1 DEF AloneIsAlone, Active, Busy
<1>13. Unbroken'
  BY <1>2, <1>4 DEF Unbroken
<1>14. AnswerExact'
  BY <1>1, <1>2 DEF AnswerExact
<1>15. Explained'
  BY <1>2, <1>4 DEF Explained
<1> QED BY <1>5, <1>6, <1>7, <1>8, <1>9, <1>10, <1>11, <1>12, <1>13, <1>14, <1>15

\* The picture is deleted, or perhaps later, or not.
LEMMA EraseStep ==
    ASSUME IInv, NEW r \in Requests, Erase(r)
    PROVE  IInv'
<1> USE DEF IInv
<1>1. /\ req' \in [Requests -> Request] /\ UNCHANGED <<shown, exact>>
      /\ req'[r].at = "clear" /\ req'[r].user = req[r].user /\ req'[r].fid = req[r].fid
      /\ req'[r].alone = req[r].alone
      /\ \A q \in Requests \ {r} : req'[q] = req[q]
  BY Proceeds DEF Erase, Phases
<1>2. /\ req[r].at = "erase" /\ Busy(r) /\ req[r].user \in Users /\ req[r].fid \in Fids
      /\ UNCHANGED <<fid, assigned, late, abandoned>>
  BY DEF Erase, Formed, Busy, TypeOK
<1>3. \/ blobs' = blobs \ {req[r].fid} /\ UNCHANGED <<doomed, left>>
      \/ /\ doomed' \in {doomed, doomed \cup {req[r].fid}} /\ left' = left \cup {req[r].fid}
         /\ UNCHANGED blobs
  BY DEF Erase
<1>4. /\ req[r].fid \in assigned
      /\ \A v \in Users : fid[v] = req[r].fid => v = req[r].user
      /\ \A q \in Requests \ {r} : Uploading(q) => req[q].fid # req[r].fid
  BY <1>2 DEF OneOwner, Holds, UploadsFresh, Busy
<1>5. /\ \A g \in Fids : Deleting(g) => Deleting(g)'
      /\ \A g \in Fids : WorkedOn(g) => WorkedOn(g)'
      /\ \A g \in Fids : Shown(g) => Shown(g)'
      /\ Deleting(req[r].fid)'
  BY <1>1, <1>2 DEF Deleting, WorkedOn, Shown, Busy
<1>6. TypeOK'
  BY <1>1, <1>2, <1>3 DEF TypeOK, Request
<1>7. Formed'
  BY <1>1, <1>2 DEF Formed, Busy
<1>8. OneOwner'
  BY <1>1, <1>2 DEF OneOwner, Holds, Busy
<1>9. Known'
  BY <1>2, <1>3, <1>4 DEF Known
<1>10. UploadsFresh'
  BY <1>1, <1>2, <1>3 DEF UploadsFresh, Uploading, Busy
<1>11. DoomKnown'
  BY <1>1, <1>2, <1>3, <1>5 DEF DoomKnown
<1>12. ErasedGone'
  BY <1>1, <1>2, <1>3 DEF ErasedGone
<1>13. AloneIsAlone'
  BY <1>1, <1>2 DEF AloneIsAlone, Active, Busy
<1>14. Unbroken'
  BY <1>1, <1>2, <1>3, <1>5 DEF Unbroken
<1>15. AnswerExact'
  BY <1>1, <1>2, <1>3, <1>4 DEF AnswerExact, AloneIsAlone, Active, Busy
<1>16. Explained'
  BY <1>2, <1>3, <1>5 DEF Explained
<1> QED BY <1>6, <1>7, <1>8, <1>9, <1>10, <1>11, <1>12, <1>13, <1>14, <1>15, <1>16

\* The column is cleared, whatever it holds.
LEMMA ClearStep ==
    ASSUME IInv, NEW r \in Requests, NEW answered \in BOOLEAN, Clear(r, answered)
    PROVE  IInv'
<1> USE DEF IInv
<1>1. req[r].at = "clear" /\ Busy(r) /\ req[r].user \in Users
  BY DEF Clear, Formed, Busy
<1>2. /\ req' \in [Requests -> Request]
      /\ shown' \in [Users -> Fids \cup {None}] /\ exact' \in [Users -> BOOLEAN]
      /\ req'[r] = Idle /\ (\A q \in Requests \ {r} : req'[q] = req[q])
      /\ exact'[req[r].user] => req[r].alone /\ shown'[req[r].user] = None
      /\ \A v \in Users \ {req[r].user} : exact'[v] = exact[v] /\ shown'[v] = shown[v]
  BY <1>1, Concludes DEF Clear
<1>3. /\ fid' = [fid EXCEPT ![req[r].user] = None]
      /\ left' = left \cup ({fid[req[r].user]} \ {None, req[r].fid})
      /\ UNCHANGED <<blobs, assigned, late, doomed, abandoned>>
  BY DEF Clear
<1>4. /\ \A v \in Users : fid'[v] = IF v = req[r].user THEN None ELSE fid[v]
      /\ None \notin Fids
      /\ \A v \in Users : req[r].fid \in Fids /\ fid[v] = req[r].fid => v = req[r].user
  BY <1>1, <1>3, AvatarAssumption DEF TypeOK, OneOwner, Holds
<1>5. /\ \A g \in Fids : Deleting(g) => Deleting(g)' \/ g = req[r].fid
      /\ \A g \in Fids : WorkedOn(g) => WorkedOn(g)' \/ g = req[r].fid
      /\ \A g \in Fids : Shown(g) => Shown(g)' \/ g \in left' \/ g = req[r].fid
      /\ req[r].fid \in blobs => req[r].fid \in left \cup abandoned
  BY <1>1, <1>2, <1>3 DEF Deleting, WorkedOn, Shown, Busy, ErasedGone
<1>6. TypeOK'
  BY <1>1, <1>2, <1>3 DEF TypeOK, Request, Idle
<1>7. Formed'
  BY <1>2 DEF Formed, Busy, Idle
<1>8. OneOwner'
  BY <1>2, <1>3, <1>4 DEF OneOwner, Holds, Busy, Idle
<1>9. Known'
  BY <1>3 DEF Known
<1>10. UploadsFresh'
  BY <1>2, <1>3 DEF UploadsFresh, Uploading, Busy, Idle, Formed
<1>11. DoomKnown'
  BY <1>3, <1>4, <1>5 DEF DoomKnown
<1>12. ErasedGone'
  BY <1>2, <1>3 DEF ErasedGone, Idle
<1>13. AloneIsAlone'
  BY <1>1, <1>2 DEF AloneIsAlone, Active, Busy, Idle
<1>14. Unbroken'
  BY <1>3, <1>4, <1>5 DEF Unbroken
<1>15. AnswerExact'
  BY <1>2, <1>3, <1>4 DEF AnswerExact
<1>16. Explained'
  BY <1>3, <1>5 DEF Explained
<1> QED BY <1>6, <1>7, <1>8, <1>9, <1>10, <1>11, <1>12, <1>13, <1>14, <1>15, <1>16

\* A request fails.
LEMMA AbandonStep ==
    ASSUME IInv, NEW r \in Requests, Abandon(r)
    PROVE  IInv'
<1> USE DEF IInv
<1>1. /\ Busy(r) /\ req[r].user \in Users /\ req[r].fid \in Fids \cup {None}
      /\ UNCHANGED <<fid, blobs, assigned, left>>
  BY DEF Abandon, Formed, Busy, TypeOK
<1>2. /\ req' \in [Requests -> Request]
      /\ shown' \in [Users -> Fids \cup {None}] /\ exact' \in [Users -> BOOLEAN]
      /\ req'[r] = Idle /\ (\A q \in Requests \ {r} : req'[q] = req[q])
      /\ exact'[req[r].user] => FALSE
      /\ \A v \in Users \ {req[r].user} : exact'[v] = exact[v] /\ shown'[v] = shown[v]
  BY <1>1, Concludes DEF Abandon
<1>3. /\ late' \in {late, late \cup (IF req[r].at = "upload" THEN {req[r].fid} ELSE {})}
      /\ doomed' \in {doomed, doomed \cup (IF req[r].at = "erase" THEN {req[r].fid} ELSE {})}
      /\ abandoned' = abandoned \cup ({req[r].fid} \ {None})
  BY DEF Abandon
<1>4. /\ req[r].at # "clear" => req[r].fid \in Fids /\ req[r].fid \in assigned
      /\ \A v \in Users : req[r].fid \in Fids /\ fid[v] = req[r].fid => v = req[r].user
      /\ \A q \in Requests \ {r} : Uploading(q) => req[q].fid # req[r].fid
  BY <1>1 DEF Formed, OneOwner, Holds, UploadsFresh, Busy
<1>5. /\ \A g \in Fids : Deleting(g) => Deleting(g)' \/ g \in abandoned'
      /\ \A g \in Fids : WorkedOn(g) => WorkedOn(g)' \/ g \in abandoned'
      /\ \A g \in Fids : Shown(g) => Shown(g)'
  BY <1>1, <1>2, <1>3, AvatarAssumption DEF Deleting, WorkedOn, Shown, Busy
<1>6. TypeOK'
  BY <1>1, <1>2, <1>3, <1>4 DEF TypeOK, Request, Idle
<1>7. Formed'
  BY <1>2 DEF Formed, Busy, Idle
<1>8. OneOwner'
  BY <1>1, <1>2 DEF OneOwner, Holds, Busy, Idle
<1>9. Known'
  BY <1>1, <1>3, <1>4, AvatarAssumption DEF Known
<1>10. UploadsFresh'
  BY <1>1, <1>2, <1>3 DEF UploadsFresh, Uploading, Busy, Idle
<1>11. DoomKnown'
  BY <1>1, <1>3, <1>5, AvatarAssumption DEF DoomKnown
<1>12. ErasedGone'
  BY <1>1, <1>2, <1>3 DEF ErasedGone, Idle
<1>13. AloneIsAlone'
  BY <1>2 DEF AloneIsAlone, Active, Busy, Idle
<1>14. Unbroken'
  BY <1>1, <1>3, <1>5 DEF Unbroken
<1>15. AnswerExact'
  BY <1>1, <1>2, <1>3, <1>4 DEF AnswerExact
<1>16. Explained'
  BY <1>1, <1>3, <1>5 DEF Explained
<1> QED BY <1>6, <1>7, <1>8, <1>9, <1>10, <1>11, <1>12, <1>13, <1>14, <1>15, <1>16

\* A picture is stored late.
LEMMA LandStep ==
    ASSUME IInv, NEW f \in Fids, Land(f)
    PROVE  IInv'
<1> USE DEF IInv
<1>1. /\ f \in abandoned /\ late' = late \ {f} /\ blobs' = blobs \cup {f}
      /\ UNCHANGED <<fid, assigned, doomed, req, abandoned, left, shown, exact>>
  BY DEF Land, Known
<1>2. /\ \A g \in Fids : Deleting(g) => Deleting(g)'
      /\ \A g \in Fids : WorkedOn(g) => WorkedOn(g)'
      /\ \A g \in Fids : Shown(g) => Shown(g)'
  BY <1>1 DEF Deleting, WorkedOn, Shown, Busy
<1>3. TypeOK'
  BY <1>1 DEF TypeOK, Request
<1>4. Formed'
  BY <1>1 DEF Formed, Busy
<1>5. OneOwner'
  BY <1>1 DEF OneOwner, Holds, Busy
<1>6. Known'
  BY <1>1 DEF Known
<1>7. UploadsFresh'
  BY <1>1 DEF UploadsFresh, Uploading, Busy
<1>8. DoomKnown'
  BY <1>1, <1>2 DEF DoomKnown
<1>9. ErasedGone'
  BY <1>1 DEF ErasedGone
<1>10. AloneIsAlone'
  BY <1>1 DEF AloneIsAlone, Active, Busy
<1>11. Unbroken'
  BY <1>1, <1>2 DEF Unbroken
<1>12. AnswerExact'
  BY <1>1 DEF AnswerExact
<1>13. Explained'
  BY <1>1, <1>2 DEF Explained
<1> QED BY <1>3, <1>4, <1>5, <1>6, <1>7, <1>8, <1>9, <1>10, <1>11, <1>12, <1>13

\* A picture is deleted late.
LEMMA VanishStep ==
    ASSUME IInv, NEW f \in Fids, Vanish(f)
    PROVE  IInv'
<1> USE DEF IInv
<1>1. /\ f \in doomed /\ doomed' = doomed \ {f} /\ blobs' = blobs \ {f}
      /\ UNCHANGED <<fid, assigned, late, req, abandoned, left, shown, exact>>
  BY DEF Vanish
<1>2. /\ \A g \in Fids : Deleting(g) => Deleting(g)'
      /\ \A g \in Fids : WorkedOn(g) => WorkedOn(g)'
      /\ \A g \in Fids : Shown(g) => Shown(g)'
  BY <1>1 DEF Deleting, WorkedOn, Shown, Busy
<1>3. TypeOK'
  BY <1>1 DEF TypeOK, Request
<1>4. Formed'
  BY <1>1 DEF Formed, Busy
<1>5. OneOwner'
  BY <1>1 DEF OneOwner, Holds, Busy
<1>6. Known'
  BY <1>1 DEF Known
<1>7. UploadsFresh'
  BY <1>1 DEF UploadsFresh, Uploading, Busy
<1>8. DoomKnown'
  BY <1>1, <1>2 DEF DoomKnown
<1>9. ErasedGone'
  BY <1>1 DEF ErasedGone
<1>10. AloneIsAlone'
  BY <1>1 DEF AloneIsAlone, Active, Busy
<1>11. Unbroken'
  BY <1>1, <1>2 DEF Unbroken, DoomKnown
<1>12. AnswerExact'
  BY <1>1 DEF AnswerExact
<1>13. Explained'
  BY <1>1, <1>2 DEF Explained
<1> QED BY <1>3, <1>4, <1>5, <1>6, <1>7, <1>8, <1>9, <1>10, <1>11, <1>12, <1>13

LEMMA StutterStep ==
    ASSUME IInv, UNCHANGED vars PROVE IInv'
BY DEF IInv, vars, TypeOK, Formed, OneOwner, Known, UploadsFresh, DoomKnown, ErasedGone,
    AloneIsAlone, Unbroken, AnswerExact, Explained, Holds, Busy, Uploading, Deleting, Active,
    WorkedOn, Shown

\* Everything else about uploads and deletes follows from this one.
THEOREM Inductive == Spec => []IInv
<1>1. ASSUME IInv, [Next]_vars PROVE IInv'
  BY <1>1, AssignStep, UploadStep, RecordStep, ReadAvatarStep, EraseStep, ClearStep, AbandonStep,
     LandStep, VanishStep, StutterStep DEF Next
<1> QED BY Initially, <1>1, PTL DEF Spec

\* Types are kept (user_profile_repo.py, seaweed.py).
THEOREM TypeCorrect == Spec => []TypeOK
<1>1. IInv => TypeOK
  BY DEF IInv
<1> QED BY Inductive, <1>1, PTL

\* A profile points at a missing picture only after a delete of that very
\* picture, one that is on its way or was broken off (delete_avatar).
THEOREM AvatarsUnbroken == Spec => []NoBrokenAvatar
<1>1. IInv => NoBrokenAvatar
  BY DEF IInv, TypeOK, Unbroken, NoBrokenAvatar
<1> QED BY Inductive, <1>1, PTL

\* An answer that nothing overlapped tells what the profile has, and the
\* picture is there (upload_avatar, delete_avatar).
THEOREM AnswersExact == Spec => []AnswerExact
<1>1. IInv => AnswerExact
  BY DEF IInv
<1> QED BY Inductive, <1>1, PTL

\* A picture that nobody shows has one of the known causes (upload_avatar,
\* delete_avatar, delete_blob).
THEOREM GarbageKnown == Spec => []GarbageExplained
<1>1. IInv => GarbageExplained
  BY DEF IInv, TypeOK, Explained, GarbageExplained, WorkedOn, Shown, Busy
<1> QED BY Inductive, <1>1, PTL
=============================================================================
