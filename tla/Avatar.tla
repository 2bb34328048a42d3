------------------------------- MODULE Avatar -------------------------------
(***************************************************************************)
(* The avatar of a user (ui/entrypoint.py): its file id is in the column   *)
(* profiles.fid in PostgreSQL, the picture is a blob in SeaweedFS, and no  *)
(* transaction covers both.  An upload gets a fresh fid, stores the blob   *)
(* and then records the fid; a delete reads the fid, deletes the blob and  *)
(* then clears the column, whatever it holds by then.                      *)
(*                                                                         *)
(* Each call to a store is one action, so that uploads and deletes of a    *)
(* user overlap.  A call to SeaweedFS that times out may still be carried  *)
(* out, later (late, doomed); an update of PostgreSQL may take effect and  *)
(* its answer be lost.                                                     *)
(***************************************************************************)
CONSTANTS
    Users,      \* logged-in users, each with its row in profiles
    Requests,   \* the uploads and deletes under way at one time
    Fids,       \* the file ids SeaweedFS hands out, each once
    None

ASSUME AvatarAssumption == None \notin Fids \cup Users

VARIABLES
    fid,        \* profiles.fid of each user
    blobs,      \* the fids under which SeaweedFS has a picture
    assigned,   \* the fids handed out
    late,       \* the fids whose blob is still being stored for nobody
    doomed,     \* the fids whose blob is still being deleted for nobody
    req,        \* the requests under way
    \* history
    abandoned,  \* fids of requests that ended before they were through
    left,       \* fids taken out of a profile by a request that did not delete the blob
    shown,      \* the fid the last answer to a user showed it
    exact       \* that answer was to a request no other of the user overlapped

stores == <<fid, blobs, assigned, late, doomed>>
vars == <<fid, blobs, assigned, late, doomed, req, abandoned, left, shown, exact>>

Phases == {"idle", "upload", "record", "erase", "clear"}

Idle == [at |-> "idle", user |-> None, fid |-> None, alone |-> TRUE]

Active(u) == {r \in Requests : req[r].at # "idle" /\ req[r].user = u}

\* Request r of user u gets to work on file f, beside the user's other requests.
Enter(r, u, at, f) ==
    /\ req' = [q \in Requests |->
                 IF q = r THEN [at |-> at, user |-> u, fid |-> f, alone |-> Active(u) = {}]
                 ELSE [req[q] EXCEPT !.alone = @ /\ q \notin Active(u)]]
    /\ exact' = [exact EXCEPT ![u] = FALSE]

\* Request r moves on.
Proceed(r, at) ==
    /\ req' = [req EXCEPT ![r].at = at]
    /\ UNCHANGED <<shown, exact>>

\* The request is over; its answer, unless it is lost, shows f.
Conclude(r, f, answered) == LET u == req[r].user IN
    /\ req' = [req EXCEPT ![r] = Idle]
    /\ shown' = [shown EXCEPT ![u] = IF answered THEN f ELSE @]
    /\ exact' = [exact EXCEPT ![u] = answered /\ req[r].alone]
-----------------------------------------------------------------------------
Init ==
    /\ fid = [u \in Users |-> None]
    /\ blobs = {} /\ assigned = {} /\ late = {} /\ doomed = {}
    /\ req = [r \in Requests |-> Idle]
    /\ abandoned = {} /\ left = {}
    /\ shown = [u \in Users |-> None]
    /\ exact = [u \in Users |-> TRUE]

\* Slips: what a plausible mistake would make of an action.  No specification
\* uses them.  An upload goes on after a failed post;
UploadUnchecked(r) ==
    /\ req[r].at = "upload"
    /\ blobs' \in {blobs, blobs \cup {req[r].fid}}
    /\ Proceed(r, "record")
    /\ UNCHANGED <<fid, assigned, late, doomed, abandoned, left>>

\* a delete is through once the blob is gone;
EraseReturns(r) == LET f == req[r].fid IN
    /\ req[r].at = "erase"
    /\ blobs' = blobs \ {f}
    /\ Conclude(r, None, TRUE)
    /\ UNCHANGED <<fid, assigned, late, doomed, abandoned, left>>

\* a delete does not call delete_blob.
ReadOnlyClears(r, u) ==
    /\ req[r].at = "idle"
    /\ Enter(r, u, "clear", fid[u])
    /\ UNCHANGED <<stores, abandoned, left, shown>>

\* POST /profile/avatar/upload, up to /dir/assign.  A failure ends the request
\* before it has done anything.
Assign(r, u, f) ==
    /\ req[r].at = "idle"
    /\ f \notin assigned
    /\ assigned' = assigned \cup {f}
    /\ Enter(r, u, "upload", f)
    /\ UNCHANGED <<fid, blobs, late, doomed, abandoned, left, shown>>

\* upload_blob answers.
Upload(r) ==
    /\ req[r].at = "upload"
    /\ blobs' = blobs \cup {req[r].fid}
    /\ Proceed(r, "record")
    /\ UNCHANGED <<fid, assigned, late, doomed, abandoned, left>>

\* pg_update_avatar(fid): the fid that was there is forgotten, its blob stays.
Record(r, answered) == LET u == req[r].user IN
    /\ req[r].at = "record"
    /\ fid' = [fid EXCEPT ![u] = req[r].fid]
    /\ left' = left \cup ({fid[u]} \ {None})
    /\ Conclude(r, req[r].fid, answered)
    /\ UNCHANGED <<blobs, assigned, late, doomed, abandoned>>

\* DELETE /profile/avatar, up to pg_resolve_profile.
ReadAvatar(r, u) ==
    /\ req[r].at = "idle"
    /\ Enter(r, u, IF fid[u] = None THEN "clear" ELSE "erase", fid[u])
    /\ UNCHANGED <<stores, abandoned, left, shown>>

\* delete_blob, true or false: the handler does not look at the answer.
Erase(r) == LET f == req[r].fid IN
    /\ req[r].at = "erase"
    /\ Proceed(r, "clear")
    /\ \/ /\ blobs' = blobs \ {f}
          /\ UNCHANGED <<doomed, left>>
       \/ /\ doomed' \in {doomed, doomed \cup {f}}
          /\ left' = left \cup {f}
          /\ UNCHANGED blobs
    /\ UNCHANGED <<fid, assigned, late, abandoned>>

\* pg_update_avatar(None): tests nothing but the user.
Clear(r, answered) == LET u == req[r].user IN
    /\ req[r].at = "clear"
    /\ fid' = [fid EXCEPT ![u] = None]
    /\ left' = left \cup ({fid[u]} \ {None, req[r].fid})
    /\ Conclude(r, None, answered)
    /\ UNCHANGED <<blobs, assigned, late, doomed, abandoned>>

\* A call fails and the handler answers 500, or the process dies.  What was
\* being asked of SeaweedFS may have been done or be done later.
Abandon(r) == LET f == req[r].fid  at == req[r].at IN
    /\ at # "idle"
    /\ late' \in {late, late \cup (IF at = "upload" THEN {f} ELSE {})}
    /\ doomed' \in {doomed, doomed \cup (IF at = "erase" THEN {f} ELSE {})}
    /\ abandoned' = abandoned \cup ({f} \ {None})
    /\ Conclude(r, None, FALSE)
    /\ UNCHANGED <<fid, blobs, assigned, left>>

\* SeaweedFS carries out what nobody waits for any more.
Land(f) ==
    /\ f \in late
    /\ late' = late \ {f}
    /\ blobs' = blobs \cup {f}
    /\ UNCHANGED <<fid, assigned, doomed, req, abandoned, left, shown, exact>>

Vanish(f) ==
    /\ f \in doomed
    /\ doomed' = doomed \ {f}
    /\ blobs' = blobs \ {f}
    /\ UNCHANGED <<fid, assigned, late, req, abandoned, left, shown, exact>>

Next ==
    \/ \E r \in Requests, u \in Users : ReadAvatar(r, u) \/ \E f \in Fids : Assign(r, u, f)
    \/ \E r \in Requests : Upload(r) \/ Erase(r) \/ Abandon(r)
    \/ \E r \in Requests, answered \in BOOLEAN : Record(r, answered) \/ Clear(r, answered)
    \/ \E f \in Fids : Land(f) \/ Vanish(f)

Spec == Init /\ [][Next]_vars
-----------------------------------------------------------------------------
TypeOK ==
    /\ fid \in [Users -> Fids \cup {None}]
    /\ blobs \subseteq Fids /\ assigned \subseteq Fids
    /\ late \subseteq Fids /\ doomed \subseteq Fids
    /\ req \in [Requests -> [at : Phases, user : Users \cup {None},
                             fid : Fids \cup {None}, alone : BOOLEAN]]
    /\ abandoned \subseteq Fids /\ left \subseteq Fids
    /\ shown \in [Users -> Fids \cup {None}]
    /\ exact \in [Users -> BOOLEAN]

\* A delete that has read f and will clear the column of its user.
Deleting(f) == \E r \in Requests : req[r].at \in {"erase", "clear"} /\ req[r].fid = f

\* A profile points at a picture that is gone only while a delete that read
\* this very fid is on its way, or when one ended before it cleared the column;
\* never because an upload, or a delete of another avatar, came in between.
NoBrokenAvatar == \A u \in Users : fid[u] # None =>
    fid[u] \in blobs \/ fid[u] \in abandoned \/ Deleting(fid[u])

\* What the last answer shows is what the profile has, and the picture is
\* there, if no other request of the user overlapped the one it answers:
\* also after earlier requests failed or while SeaweedFS is still catching up.
AnswerExact == \A u \in Users : exact[u] =>
    /\ fid[u] = shown[u]
    /\ fid[u] # None => fid[u] \in blobs \ doomed

\* A picture no profile shows and no request works on is there for a reason:
\* a newer avatar replaced it, a delete cleared the column over it without
\* having read it or without having deleted the blob, or a request failed.
GarbageExplained == \A f \in blobs :
    \/ \E u \in Users : fid[u] = f
    \/ \E r \in Requests : req[r].at # "idle" /\ req[r].fid = f
    \/ f \in left \cup abandoned
=============================================================================
