-------------------------------- MODULE Nats --------------------------------
(***************************************************************************)
(* CoreNATSManager: one slot _nc for the connection, filled by connect and *)
(* emptied by disconnect, both of which test it, wait, and then assign it. *)
(* Calls overlap freely, and the service comes and goes beside them.       *)
(* ping, publish and subscribe read the slot and leave it as it is.        *)
(***************************************************************************)
CONSTANTS
    Tasks,      \* calls of connect and disconnect that can run at one time
    Clients,    \* connections, each made once
    None

ASSUME NatsAssumption == None \notin Clients

VARIABLES
    nc,         \* the slot _nc
    client,     \* what has become of each connection
    task

vars == <<nc, client, task>>

\* A task stands at one of the awaits; on is the connection it is draining, and
\* alone says, as history, that no other call has run beside it.
NoTask == [at |-> "idle", on |-> None, alone |-> TRUE]

Busy(t) == task[t].at # "idle"
Alive(c) == client[c] \in {"open", "away", "draining", "stuck"}
-----------------------------------------------------------------------------
Init ==
    /\ nc = None
    /\ client = [c \in Clients |-> "new"]
    /\ task = [t \in Tasks |-> NoTask]

\* Call t runs, and now stands at a; the others are no longer alone.
Enter(t, a, c) ==
    task' = [s \in Tasks |->
               IF s = t THEN [at |-> a, on |-> c, alone |-> \A o \in Tasks \ {t} : ~Busy(o)]
               ELSE [task[s] EXCEPT !.alone = @ /\ ~Busy(s)]]

\* Call t is over.
Leave(t) == task' = [task EXCEPT ![t] = NoTask]

\* connect returns at once when there is a connection.
Connect(t) ==
    /\ ~Busy(t) /\ nc = None
    /\ Enter(t, "connecting", None)
    /\ UNCHANGED <<nc, client>>

\* The slot is assigned after the await, whatever it holds by then.
Connected(t, c) ==
    /\ task[t].at = "connecting" /\ client[c] = "new"
    /\ client' = [client EXCEPT ![c] = "open"]
    /\ nc' = c
    /\ Leave(t)

ConnectFails(t) ==
    /\ task[t].at = "connecting"
    /\ Leave(t)
    /\ UNCHANGED <<nc, client>>

\* Slip: the connection is closed at once instead of drained.  (Slips are what
\* a plausible mistake would make of an action; no specification uses them.)
DisconnectAtOnce(t) ==
    /\ ~Busy(t) /\ nc # None /\ client[nc] = "open"
    /\ client' = [client EXCEPT ![nc] = "closed"]
    /\ Enter(t, "draining", nc)
    /\ UNCHANGED nc

Disconnect(t) ==
    /\ ~Busy(t) /\ nc # None /\ client[nc] = "open"
    /\ client' = [client EXCEPT ![nc] = "draining"]
    /\ Enter(t, "draining", nc)
    /\ UNCHANGED nc

\* drain returns at once when another call is draining, and raises when the
\* connection is closed or reconnecting; either way the slot is emptied.
DisconnectInVain(t) ==
    /\ ~Busy(t) /\ nc # None /\ client[nc] # "open"
    /\ nc' = None
    /\ task' = [s \in Tasks |-> [task[s] EXCEPT !.alone = @ /\ ~Busy(s)]]
    /\ UNCHANGED client

\* The drained connection closes itself; the slot is emptied, whatever it holds.
Drained(t) ==
    /\ task[t].at = "draining"
    /\ client' = [client EXCEPT ![task[t].on] = "closed"]
    /\ nc' = None
    /\ Leave(t)

\* The disconnect is cancelled, or drain raises what is not a time-out: close is
\* passed over and the slot emptied all the same, with the connection alive and
\* drained half-way.  The shutdown (lifespan.py 62, commented out) would call it
\* through silent_close, which allows it the five seconds it allows the drain,
\* so that either time-out may come first.
DrainBreaksOff(t) ==
    /\ task[t].at = "draining"
    /\ client' = [client EXCEPT ![task[t].on] = IF @ = "draining" THEN "stuck" ELSE @]
    /\ nc' = None
    /\ Leave(t)

\* Slip: the connection that would not drain is left as it is.
DrainTimesOutIdly(t) ==
    /\ task[t].at = "draining"
    /\ nc' = None /\ Leave(t) /\ UNCHANGED client

\* After five seconds the connection in the slot is closed, which need not be
\* the one that would not drain; with an empty slot that is an AttributeError.
DrainTimesOut(t) ==
    /\ task[t].at = "draining"
    /\ IF nc = None THEN Leave(t) /\ UNCHANGED client
       ELSE /\ client' = [client EXCEPT ![nc] = "closed"]
            /\ task' = [task EXCEPT ![t].at = "closing"]
    /\ UNCHANGED nc

\* The close is over, done, failed or cancelled.
Closed(t) ==
    /\ task[t].at = "closing"
    /\ nc' = None
    /\ Leave(t)
    /\ UNCHANGED client

\* The service goes and comes back, or stays away until the client gives up.
Outage(c) ==
    /\ \/ client[c] = "open" /\ client' = [client EXCEPT ![c] = "away"]
       \/ client[c] = "away" /\ \E x \in {"open", "closed"} : client' = [client EXCEPT ![c] = x]
    /\ UNCHANGED <<nc, task>>

Call(t) ==
    \/ Connect(t) \/ ConnectFails(t)
    \/ \E c \in Clients : Connected(t, c)
    \/ Disconnect(t) \/ DisconnectInVain(t)
    \/ Drained(t) \/ DrainBreaksOff(t) \/ DrainTimesOut(t) \/ Closed(t)

Next ==
    \/ \E t \in Tasks : Call(t)
    \/ \E c \in Clients : Outage(c)

Spec == Init /\ [][Next]_vars
-----------------------------------------------------------------------------
TypeOK ==
    /\ nc \in Clients \cup {None}
    /\ client \in [Clients -> {"new", "open", "away", "draining", "stuck", "closed"}]
    /\ task \in [Tasks -> [at : {"idle", "connecting", "draining", "closing"},
                           on : Clients \cup {None}, alone : BOOLEAN]]

\* Nobody can close connection c any more.
Lost(c) == Alive(c) /\ nc # c /\ \A t \in Tasks : task[t].at = "draining" => task[t].on # c

\* A connection is lost only when two calls run into each other, when it is
\* reconnecting at the time of the disconnect, or when its drain breaks off
\* before the time-out of the drain; that time-out alone loses none.
LossesExplained == [][\A c \in Clients : Lost(c)' /\ ~Lost(c) =>
    \/ client[c] = "away" /\ nc = c
    \/ client[c] = "draining" /\ client'[c] = "stuck"
    \/ \E t \in Tasks : Busy(t) /\ ~task[t].alone]_vars

\* A connection that works is closed under its users only by a disconnect that
\* another call ran into, whose time-out hits what the slot holds by then.
WorkingSpared == [][\A c \in Clients : client[c] = "open" /\ client'[c] = "closed" =>
    \E t \in Tasks : task[t].at = "draining" /\ task[t].on # c /\ ~task[t].alone]_vars
=============================================================================
