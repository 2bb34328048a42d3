------------------------------- MODULE Scylla -------------------------------
(***************************************************************************)
(* ScyllaManager (infra/scylla/manager.py): the cluster, the session and   *)
(* the bounded cache of prepared statements that every query goes through, *)
(* while connect and disconnect run beside the queries and each other.     *)
(*                                                                         *)
(* What runs between two awaits of asyncio is one action.  A cluster and   *)
(* the session created from it share an id.                                *)
(***************************************************************************)
EXTENDS Naturals, Sequences, SequencesExt

CONSTANTS
    Ids,            \* clusters, each created once; the bound on connects
    Queries, Callers,
    Tasks,          \* calls of connect and disconnect under way at one time
    MaxPrepared,    \* scylla_max_prepared
    None

ASSUME ScyllaAssumption == /\ None \notin Ids \cup Callers
                           /\ MaxPrepared \in Nat \ {0}

VARIABLES
    cluster, session, ready,
    prepared,       \* the cached statements, least recently used first
    lock, waiting,  \* _prep_lock: its holder, and who waits for it, in order
    call,           \* the queries under way
    task,           \* the connects and disconnects under way
    clusters, open, \* clusters not destroyed, sessions not closed
    \* history
    created, failed, \* clusters ever created, those whose connect or close failed
    overlap         \* two connects or disconnects have overlapped

queryVars == <<prepared, lock, waiting, call>>
lifeVars == <<cluster, session, ready, task, clusters, open, created, failed, overlap>>
vars == <<queryVars, lifeVars>>

\* A statement belongs to the session s that prepared it; torn: a teardown ran
\* while it was being prepared.
Entry == [q : Queries, s : Ids, torn : BOOLEAN]

NoCall == [at |-> "idle", q |-> None, s |-> None, torn |-> FALSE]
NoTask == [at |-> "idle", id |-> None]

Cached(q) == \E i \in DOMAIN prepared : prepared[i].q = q

\* OrderedDict.move_to_end of the i-th entry
MoveToEnd(i) == Append(RemoveAt(prepared, i), prepared[i])

Busy == \E t \in Tasks : task[t].at # "idle"

\* Query q of caller c is in the cache and is executed.
Use(c, q) == \E i \in DOMAIN prepared :
    /\ prepared[i].q = q
    /\ prepared' = MoveToEnd(i)
    /\ call' = [call EXCEPT ![c] = [@ EXCEPT !.at = "exec", !.q = q]]
    /\ UNCHANGED lock

\* Slip: the cache makes room one statement too late.  (Slips are what a
\* plausible mistake would make of a definition; no specification uses them.)
PrepareLate(c, q) ==
    /\ ~Cached(q)
    /\ prepared' = IF Len(prepared) > MaxPrepared THEN Tail(prepared) ELSE prepared
    /\ IF session = None
       THEN call' = [call EXCEPT ![c] = NoCall] /\ UNCHANGED lock
       ELSE /\ call' = [call EXCEPT ![c] = [at |-> "prep", q |-> q, s |-> session, torn |-> FALSE]]
            /\ lock' = c

\* Caller c has the lock and makes room before it asks for the session.
Prepare(c, q) ==
    /\ ~Cached(q)
    /\ prepared' = IF Len(prepared) >= MaxPrepared THEN Tail(prepared) ELSE prepared
    /\ IF session = None
       THEN call' = [call EXCEPT ![c] = NoCall] /\ UNCHANGED lock
       ELSE /\ call' = [call EXCEPT ![c] = [at |-> "prep", q |-> q, s |-> session, torn |-> FALSE]]
            /\ lock' = c
-----------------------------------------------------------------------------
Init ==
    /\ cluster = None /\ session = None /\ ready = FALSE
    /\ prepared = <<>> /\ lock = None /\ waiting = <<>>
    /\ call = [c \in Callers |-> NoCall]
    /\ task = [t \in Tasks |-> NoTask]
    /\ clusters = {} /\ open = {} /\ created = {} /\ failed = {}
    /\ overlap = FALSE

\* Slips: the lock is taken without a second search of the cache;
EnterUnchecked(c) == LET q == call[c].q IN
    /\ lock = None /\ waiting # <<>> /\ Head(waiting) = c
    /\ waiting' = Tail(waiting)
    /\ lock' = c
    /\ call' = [call EXCEPT ![c] = [@ EXCEPT !.at = "prep", !.s = session]]
    /\ session # None
    /\ UNCHANGED <<lifeVars, prepared>>

\* the lock is not given back after an error;
BreakHolding(c) ==
    /\ call[c].at # "idle"
    /\ call' = [call EXCEPT ![c] = NoCall]
    /\ \/ call[c].at # "wait" /\ UNCHANGED waiting
       \/ \E i \in DOMAIN waiting : waiting[i] = c /\ waiting' = RemoveAt(waiting, i)
    /\ UNCHANGED <<lifeVars, prepared, lock>>

\* a lost connection leaves what was prepared on it;
TeardownKeeps(t, closed) ==
    /\ task[t].at = "closing"
    /\ clusters' = clusters \ {cluster}
    /\ open' = IF closed THEN open \ {task[t].id} ELSE open
    /\ cluster' = None /\ session' = None /\ ready' = FALSE
    /\ failed' = IF closed THEN failed ELSE failed \cup {task[t].id}
    /\ task' = [task EXCEPT ![t] = NoTask]
    /\ UNCHANGED <<prepared, lock, waiting, call, created, overlap>>

\* connect goes on although the manager is ready.
ConnectAgain(t, k) ==
    /\ task[t].at = "idle" /\ k \notin created
    /\ cluster' = k
    /\ clusters' = clusters \cup {k} /\ created' = created \cup {k}
    /\ task' = [task EXCEPT ![t] = [at |-> "connecting", id |-> k]]
    /\ overlap' = (overlap \/ Busy)
    /\ UNCHANGED <<queryVars, session, ready, open, failed>>

\* execute, fetch_one and fetch_page, up to their first await.
Call(c, q) ==
    /\ call[c].at = "idle" /\ ready /\ session # None
    /\ \/ Use(c, q) /\ UNCHANGED waiting
       \/ /\ lock = None /\ waiting = <<>>
          /\ Prepare(c, q)
          /\ UNCHANGED waiting
       \/ /\ ~Cached(q) /\ (lock # None \/ waiting # <<>>)
          /\ waiting' = Append(waiting, c)
          /\ call' = [call EXCEPT ![c] = [@ EXCEPT !.at = "wait", !.q = q]]
          /\ UNCHANGED <<prepared, lock>>
    /\ UNCHANGED lifeVars

\* The lock is free for the caller that waits longest; it searches again.
Enter(c) ==
    /\ call[c].at = "wait" /\ lock = None /\ waiting # <<>> /\ Head(waiting) = c
    /\ waiting' = Tail(waiting)
    /\ Use(c, call[c].q) \/ Prepare(c, call[c].q)
    /\ UNCHANGED lifeVars

\* create_prepared answers: the statement goes into the cache as it is by now,
\* without a look at the session the manager has by now.
Prepared(c) ==
    /\ call[c].at = "prep"
    /\ prepared' = Append(prepared, [q |-> call[c].q, s |-> call[c].s, torn |-> call[c].torn])
    /\ lock' = None
    /\ call' = [call EXCEPT ![c].at = "exec"]
    /\ UNCHANGED <<lifeVars, waiting>>

\* session.execute answers.
Execute(c) ==
    /\ call[c].at = "exec"
    /\ call' = [call EXCEPT ![c] = NoCall]
    /\ UNCHANGED <<lifeVars, prepared, lock, waiting>>

\* What the query waits for raises, or the query is cancelled.
Break(c) ==
    /\ call[c].at # "idle"
    /\ call' = [call EXCEPT ![c] = NoCall]
    /\ lock' = IF lock = c THEN None ELSE lock
    /\ \/ call[c].at # "wait" /\ UNCHANGED waiting
       \/ \E i \in DOMAIN waiting : waiting[i] = c /\ waiting' = RemoveAt(waiting, i)
    /\ UNCHANGED <<lifeVars, prepared>>

\* connect, up to create_session.
Connect(t, k) ==
    /\ task[t].at = "idle" /\ ~ready /\ k \notin created
    /\ cluster' = k
    /\ clusters' = clusters \cup {k} /\ created' = created \cup {k}
    /\ task' = [task EXCEPT ![t] = [at |-> "connecting", id |-> k]]
    /\ overlap' = (overlap \/ Busy)
    /\ UNCHANGED <<queryVars, session, ready, open, failed>>

Connected(t) == LET k == task[t].id IN
    /\ task[t].at = "connecting"
    /\ session' = k /\ ready' = TRUE
    /\ open' = open \cup {k}
    /\ task' = [task EXCEPT ![t] = NoTask]
    /\ UNCHANGED <<queryVars, cluster, clusters, created, failed, overlap>>

\* create_session raises, or connect is cancelled.  The disconnect in the
\* handler does nothing unless another connect has made the manager ready.
ConnectFails(t, cancelled) ==
    /\ task[t].at = "connecting"
    /\ failed' = failed \cup {task[t].id}
    /\ task' = [task EXCEPT ![t] = IF ready /\ ~cancelled
                                   THEN [at |-> "closing", id |-> session] ELSE NoTask]
    /\ UNCHANGED <<queryVars, cluster, session, ready, clusters, open, created, overlap>>

\* disconnect, up to session.close.  Queries still find the session.
Disconnect(t) ==
    /\ task[t].at = "idle" /\ ready
    /\ task' = [task EXCEPT ![t] = [at |-> "closing", id |-> session]]
    /\ overlap' = (overlap \/ Busy)
    /\ UNCHANGED <<queryVars, cluster, session, ready, clusters, open, created, failed>>

\* The finally of _teardown, whether the session closed or not: it takes away
\* the cluster and the session the manager has by now.
Teardown(t, closed) ==
    /\ task[t].at = "closing"
    /\ clusters' = clusters \ {cluster}
    /\ open' = IF closed THEN open \ {task[t].id} ELSE open
    /\ failed' = IF closed THEN failed ELSE failed \cup {task[t].id}
    /\ prepared' = <<>>
    /\ cluster' = None /\ session' = None /\ ready' = FALSE
    /\ call' = [c \in Callers |-> [call[c] EXCEPT !.torn = @ \/ call[c].at = "prep"]]
    /\ task' = [task EXCEPT ![t] = NoTask]
    /\ UNCHANGED <<lock, waiting, created, overlap>>

\* What asyncio and the driver do for a query that waits.
Step(c) == Enter(c) \/ Prepared(c) \/ Execute(c)

Next ==
    \/ \E c \in Callers : Step(c) \/ Break(c) \/ \E q \in Queries : Call(c, q)
    \/ \E t \in Tasks : Connected(t) \/ Disconnect(t) \/ \E k \in Ids : Connect(t, k)
    \/ \E t \in Tasks, b \in BOOLEAN : ConnectFails(t, b) \/ Teardown(t, b)

Spec == Init /\ [][Next]_vars

\* The driver answers, or raises after request_timeout, and asyncio hands the
\* lock to the first that waits; that a query is cancelled is never relied on.
FairSpec == Spec /\ \A c \in Callers : WF_vars(Step(c))
-----------------------------------------------------------------------------
TypeOK ==
    /\ cluster \in Ids \cup {None} /\ session \in Ids \cup {None} /\ ready \in BOOLEAN
    /\ prepared \in Seq(Entry)
    /\ lock \in Callers \cup {None} /\ waiting \in Seq(Callers)
    /\ call \in [Callers -> [at : {"idle", "wait", "prep", "exec"}, q : Queries \cup {None},
                             s : Ids \cup {None}, torn : BOOLEAN]]
    /\ task \in [Tasks -> [at : {"idle", "connecting", "closing"}, id : Ids \cup {None}]]
    /\ clusters \subseteq created /\ open \subseteq created
    /\ created \subseteq Ids /\ failed \subseteq Ids
    /\ overlap \in BOOLEAN

\* The cache never holds more than scylla_max_prepared statements, although
\* the room is made before an await and filled after it.
CacheBounded == Len(prepared) <= MaxPrepared

\* While a query prepares its statement nobody else has put it into the cache,
\* and no query has two statements there: none is prepared twice for nothing.
PreparesOnce ==
    /\ \A c \in Callers : call[c].at = "prep" => ~Cached(call[c].q)
    /\ \A i, j \in DOMAIN prepared : prepared[i].q = prepared[j].q => i = j

\* A manager that calls itself ready has a session, so that the second half of
\* _assert_ready, and Disconnect, never meet None: also after overlapping
\* connects of which some fail.
ReadyHasSession == ready <=> session # None

\* Without overlapping connects and disconnects, a statement in the cache is
\* of the session in use, unless a teardown ran while it was being prepared:
\* that one alone survives into the next session.
StaleExplained == ~overlap =>
    \A i \in DOMAIN prepared : prepared[i].s = session \/ prepared[i].torn

\* Without overlapping connects and disconnects, every cluster the manager has
\* let go of is destroyed and every such session closed, except those of a
\* connect or a close that failed.
LeaksExplained == ~overlap =>
    /\ clusters \ {cluster} \subseteq failed
    /\ open \ {session} \subseteq failed

\* The lock is held only for a query that still prepares, so that nobody leaves
\* with it, and the queue behind it is those that wait, each of them once, also
\* after one of them is cancelled in the middle of it.
LockServed ==
    /\ lock # None => call[lock].at = "prep"
    /\ \A c \in Callers : call[c].at = "wait" <=> \E i \in DOMAIN waiting : waiting[i] = c
    /\ \A i, j \in DOMAIN waiting : waiting[i] = waiting[j] => i = j

\* Every query ends: the lock is always handed on.
CallsEnd == \A c \in Callers : call[c].at # "idle" ~> call[c].at = "idle"
=============================================================================
