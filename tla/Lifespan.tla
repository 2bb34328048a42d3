------------------------------ MODULE Lifespan ------------------------------
(***************************************************************************)
(* One life of the web process (core/lifespan.py): the four managers       *)
(* connect at the same time, each under its own time limit, the process    *)
(* serves if all did, and closes them, Redis excepted, when it ends or     *)
(* when one did not.  While it serves, the readiness probe (healthz.py)    *)
(* asks the managers whether their services answer.                        *)
(*                                                                         *)
(* A time-out is a cancellation, which the handlers for Exception in the   *)
(* managers do not see.                                                    *)
(***************************************************************************)
EXTENDS Sequences

VARIABLES
    phase,
    at,         \* how far the safe_start of each manager is
    client,     \* the managers that hold a client
    open,       \* the managers whose last client has not been closed
    todo,       \* what silent_close still has to close, in order
    up,         \* the services that can be reached
    probe,      \* what the pings of the readiness probe under way have come to
    answer,     \* its last answer
    \* history
    seen,       \* services that were up since the start, or since the probe began
    unclosed    \* managers whose close raised or was cancelled

serving == <<probe, answer>>
vars == <<phase, at, client, open, todo, up, serving, seen, unclosed>>

Managers == {"pg", "redis", "seaweed", "http"}

\* Their connect waits for a ping; the others only make a client.
Pinging == {"pg", "redis"}

CloseOrder == <<"http", "seaweed", "pg">>

NoProbe == [x \in Managers |-> "none"]

\* disconnect: the client is forgotten whether it closed or not.
Disconnect(x, closed) ==
    /\ client' = client \ {x}
    /\ open' = IF closed THEN open \ {x} ELSE open
    /\ unclosed' = IF closed THEN unclosed ELSE unclosed \cup {x}

Settled == \A x \in Managers : at[x] \in {"ok", "failed"}
-----------------------------------------------------------------------------
Init ==
    /\ phase = "starting"
    /\ at = [x \in Managers |-> "new"]
    /\ client = {} /\ open = {} /\ todo = <<>>
    /\ up \in SUBSET Managers
    /\ probe = NoProbe /\ answer = 0
    /\ seen = up /\ unclosed = {}

\* Slips: what a plausible mistake would make of an action.  No specification
\* uses them.  safe_start logs the time-out and does not raise;
TimeOutSwallows(x) ==
    /\ phase = "starting" /\ at[x] \in {"pinging", "closing"}
    /\ at' = [at EXCEPT ![x] = "ok"]
    /\ UNCHANGED <<phase, client, open, todo, up, serving, seen, unclosed>>

\* a ping has no time limit;
TimeOutClosing(x) ==
    /\ phase = "starting" /\ at[x] = "closing"
    /\ at' = [at EXCEPT ![x] = "failed"]
    /\ Disconnect(x, FALSE)
    /\ UNCHANGED <<phase, todo, up, serving, seen>>

\* the failure path forgets what did start;
SettleBare ==
    /\ phase = "starting" /\ Settled
    /\ IF \A x \in Managers : at[x] = "ok"
       THEN phase' = "serving" /\ UNCHANGED todo
       ELSE phase' = "ending" /\ todo' = SelectSeq(CloseOrder, LAMBDA x : at[x] = "failed")
    /\ UNCHANGED <<at, client, open, up, serving, seen, unclosed>>

\* the probe reports the pings that came to an end.
ProbeEndsEarly ==
    /\ probe # NoProbe
    /\ \E x \in Managers : probe[x] = "ok"
    /\ answer' = IF \E x \in Managers : probe[x] = "error" THEN 503 ELSE 200
    /\ probe' = NoProbe
    /\ UNCHANGED <<phase, at, client, open, todo, up, seen, unclosed>>

\* connect, up to its ping or to its end: the client is made, or is refused.
Create(x) ==
    /\ phase = "starting" /\ at[x] = "new"
    /\ \/ /\ client' = client \cup {x} /\ open' = open \cup {x}
          /\ at' = [at EXCEPT ![x] = IF x \in Pinging THEN "pinging" ELSE "ok"]
       \/ at' = [at EXCEPT ![x] = "failed"] /\ UNCHANGED <<client, open>>
    /\ UNCHANGED <<phase, todo, up, serving, seen, unclosed>>

\* The ping of connect answers, or raises: the handler disconnects.
Pinged(x) ==
    /\ phase = "starting" /\ at[x] = "pinging"
    /\ \/ x \in up /\ at' = [at EXCEPT ![x] = "ok"]
       \/ at' = [at EXCEPT ![x] = "closing"]
    /\ UNCHANGED <<phase, client, open, todo, up, serving, seen, unclosed>>

\* The disconnect of the handler ends; connect raises.
Refused(x, closed) ==
    /\ phase = "starting" /\ at[x] = "closing"
    /\ Disconnect(x, closed)
    /\ at' = [at EXCEPT ![x] = "failed"]
    /\ UNCHANGED <<phase, todo, up, serving, seen>>

\* wait_for cancels a connect: in its ping the client stays where it is.
TimeOut(x) ==
    /\ phase = "starting" /\ at[x] \in {"pinging", "closing"}
    /\ at' = [at EXCEPT ![x] = "failed"]
    /\ IF at[x] = "pinging" THEN UNCHANGED <<client, open, unclosed>> ELSE Disconnect(x, FALSE)
    /\ UNCHANGED <<phase, todo, up, serving, seen>>

\* gather has all four results.
Settle ==
    /\ phase = "starting" /\ Settled
    /\ IF \A x \in Managers : at[x] = "ok"
       THEN phase' = "serving" /\ UNCHANGED todo
       ELSE phase' = "ending" /\ todo' = CloseOrder
    /\ UNCHANGED <<at, client, open, up, serving, seen, unclosed>>

\* The server stops; it has waited for the requests under way.
Shutdown ==
    /\ phase = "serving" /\ probe = NoProbe
    /\ phase' = "ending" /\ todo' = CloseOrder
    /\ UNCHANGED <<at, client, open, up, serving, seen, unclosed>>

\* silent_close of the next manager; a close that fails or takes too long is
\* logged, and one without a client is through at once.
Close(closed) == LET x == Head(todo) IN
    /\ phase = "ending" /\ todo # <<>>
    /\ IF x \in client THEN Disconnect(x, closed) ELSE UNCHANGED <<client, open, unclosed>>
    /\ todo' = Tail(todo)
    /\ UNCHANGED <<phase, at, up, serving, seen>>

Exit ==
    /\ phase = "ending" /\ todo = <<>>
    /\ phase' = "down"
    /\ UNCHANGED <<at, client, open, todo, up, serving, seen, unclosed>>

\* GET /healthz/readiness: four pings at once.
ProbeStarts ==
    /\ phase = "serving" /\ probe = NoProbe
    /\ probe' = [x \in Managers |-> "pending"]
    /\ answer' = 0 /\ seen' = up
    /\ UNCHANGED <<phase, at, client, open, todo, up, unclosed>>

\* A ping ends.  SeaweedManager without a client says False, which is no error.
Pong(x) ==
    /\ probe[x] = "pending"
    /\ \/ /\ IF x \in client THEN x \in up ELSE x = "seaweed"
          /\ probe' = [probe EXCEPT ![x] = "ok"]
       \/ probe' = [probe EXCEPT ![x] = "error"]
    /\ UNCHANGED <<phase, at, client, open, todo, up, answer, seen, unclosed>>

ProbeEnds ==
    /\ probe # NoProbe
    /\ \A x \in Managers : probe[x] # "pending"
    /\ answer' = IF \E x \in Managers : probe[x] = "error" THEN 503 ELSE 200
    /\ probe' = NoProbe
    /\ UNCHANGED <<phase, at, client, open, todo, up, seen, unclosed>>

\* wait_for cancels the pings.
ProbeTimesOut ==
    /\ \E x \in Managers : probe[x] = "pending"
    /\ answer' = 503 /\ probe' = NoProbe
    /\ UNCHANGED <<phase, at, client, open, todo, up, seen, unclosed>>

\* A service becomes reachable, or ceases to be.
Service(x) ==
    /\ phase # "down"
    /\ up' = IF x \in up THEN up \ {x} ELSE up \cup {x}
    /\ seen' = seen \cup up'
    /\ UNCHANGED <<phase, at, client, open, todo, serving, unclosed>>

Start(x) == Create(x) \/ TimeOut(x) \/ \E closed \in BOOLEAN : Refused(x, closed)
Progress == Settle \/ Exit \/ \E closed \in BOOLEAN : Close(closed)

Next ==
    \/ \E x \in Managers : Start(x) \/ Pinged(x) \/ Pong(x) \/ Service(x)
    \/ Progress \/ Shutdown \/ ProbeStarts \/ ProbeEnds \/ ProbeTimesOut

Spec == Init /\ [][Next]_vars

\* The event loop runs what is ready and its timers fire; that a service ever
\* answers is not assumed.
FairSpec == Spec /\ WF_vars(Progress) /\ \A x \in Managers : WF_vars(Start(x))
-----------------------------------------------------------------------------
TypeOK ==
    /\ phase \in {"starting", "serving", "ending", "down"}
    /\ at \in [Managers -> {"new", "pinging", "closing", "ok", "failed"}]
    /\ client \subseteq Managers /\ open \subseteq Managers /\ unclosed \subseteq Managers
    /\ todo \in Seq(Managers)
    /\ up \subseteq Managers /\ seen \subseteq Managers
    /\ probe \in [Managers -> {"none", "pending", "ok", "error"}]
    /\ answer \in {0, 200, 503}

\* The process serves only with a client in every manager, and only if
\* PostgreSQL and Redis were up at some time while it started, whatever failed
\* or timed out in the others' connects.
ServesConnected == [][phase' = "serving" /\ phase # "serving" =>
                        client = Managers /\ Pinging \subseteq seen]_vars

\* A probe that says 200 had every service up at some time while it ran; in
\* particular the False of an unconnected SeaweedManager is never behind it.
ReadyMeansReached == answer = 200 => seen = Managers

\* No client is lost.  At every moment, half-way through a start that fails or
\* times out too: what a manager holds is open, so that nothing is used or
\* closed after its close; and what is open is held, unless its close raised or
\* was cancelled.  When the process has ended, only Redis's is held.
ClosedAtExit ==
    /\ client \subseteq open
    /\ open \ client \subseteq unclosed
    /\ phase = "down" => client \subseteq {"redis"}

\* The start and the end of the process always come to an end, though no
\* service ever answers.
Decides == phase \in {"starting", "ending"} ~> phase \in {"serving", "down"}
=============================================================================
