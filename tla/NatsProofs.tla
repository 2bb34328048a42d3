----------------------------- MODULE NatsProofs -----------------------------
(* Proofs about Nats, for any number of calls and connections.             *)
EXTENDS Nats, TLAPS

\* What a draining call is at, and what a call that runs alone can count on.
DrainsOwn == \A t \in Tasks : task[t].at = "draining" =>
    task[t].on \in Clients /\ client[task[t].on] \in {"draining", "stuck", "closed"}

AloneOwns == \A t \in Tasks : Busy(t) /\ task[t].alone =>
    /\ \A s \in Tasks \ {t} : ~Busy(s)
    /\ task[t].at = "connecting" => nc = None
    /\ task[t].at \in {"draining", "closing"} => nc = task[t].on
    /\ task[t].at = "closing" => task[t].on \in Clients /\ client[task[t].on] = "closed"

SlotDrained == nc # None =>
    /\ client[nc] # "stuck"
    /\ client[nc] = "draining" => \E t \in Tasks : task[t].at = "draining" /\ task[t].on = nc

IInv == TypeOK /\ DrainsOwn /\ AloneOwns /\ SlotDrained

Task == [at : {"idle", "connecting", "draining", "closing"}, on : Clients \cup {None},
         alone : BOOLEAN]

LEMMA Initially == Init => IInv
BY DEF Init, IInv, TypeOK, DrainsOwn, AloneOwns, SlotDrained, NoTask, Busy

\* What the other calls see of a call that begins, stands elsewhere, or ends.
LEMMA Enters ==
    ASSUME TypeOK, NEW t \in Tasks, NEW a \in {"connecting", "draining"},
           NEW c \in Clients \cup {None}, Enter(t, a, c)
    PROVE  /\ task' \in [Tasks -> Task] /\ task'[t].at = a /\ task'[t].on = c
           /\ task'[t].alone => \A o \in Tasks \ {t} : ~Busy(o)
           /\ \A s \in Tasks \ {t} : /\ task'[s].at = task[s].at /\ task'[s].on = task[s].on
                                     /\ task'[s].alone => ~Busy(s)
<1> DEFINE free == \A o \in Tasks \ {t} : ~Busy(o)
           new == [at |-> a, on |-> c, alone |-> free]
           still(s) == task[s].alone /\ ~Busy(s)
           old(s) == [task[s] EXCEPT !.alone = still(s)]
<1>1. free \in BOOLEAN /\ \A s \in Tasks : task[s] \in Task /\ still(s) \in BOOLEAN
  BY DEF TypeOK, Task, Busy
<1>2. task' = [s \in Tasks |-> IF s = t THEN new ELSE old(s)]
  BY Zenon DEF Enter
<1> HIDE DEF free, still
<1>3. new \in Task /\ new.at = a /\ new.on = c /\ (new.alone => free)
  BY <1>1 DEF Task
<1>4. \A s \in Tasks : /\ old(s) \in Task /\ old(s).at = task[s].at /\ old(s).on = task[s].on
                       /\ old(s).alone => still(s)
  <2>1. ASSUME NEW s \in Tasks, NEW x \in BOOLEAN, x = still(s)
        PROVE  /\ [task[s] EXCEPT !.alone = x] \in Task
               /\ [task[s] EXCEPT !.alone = x].at = task[s].at
               /\ [task[s] EXCEPT !.alone = x].on = task[s].on
               /\ [task[s] EXCEPT !.alone = x].alone => x
    <3>1. task[s] \in Task
      BY <1>1
    <3> QED BY <3>1 DEF Task
  <2>2. ASSUME NEW s \in Tasks
        PROVE  /\ old(s) \in Task /\ old(s).at = task[s].at /\ old(s).on = task[s].on
               /\ old(s).alone => still(s)
    <3>1. still(s) \in BOOLEAN
      BY <1>1
    <3> QED BY <2>1, <3>1
  <2> HIDE DEF old, still
  <2> QED BY <2>2, Zenon
<1> HIDE DEF new, old
<1>5. task' \in [Tasks -> Task] /\ task'[t] = new /\ \A s \in Tasks \ {t} : task'[s] = old(s)
  BY <1>2, <1>3, <1>4
<1> QED BY <1>3, <1>4, <1>5 DEF free, still

LEMMA Leaves ==
    ASSUME TypeOK, NEW t \in Tasks, Leave(t)
    PROVE  /\ task' \in [Tasks -> Task] /\ ~Busy(t)' /\ task'[t].at = "idle"
           /\ \A s \in Tasks \ {t} : task'[s] = task[s]
BY DEF TypeOK, Leave, NoTask, Task, Busy

\* The steps that begin or end a call, and the outages, keep the invariant.
LEMMA ConnectStep == ASSUME IInv, NEW t \in Tasks, Connect(t) PROVE IInv'
<1>1. ~Busy(t) /\ nc = None /\ Enter(t, "connecting", None) /\ UNCHANGED <<nc, client>> /\ TypeOK
  BY DEF Connect, IInv
<1>2. /\ task' \in [Tasks -> Task] /\ task'[t].at = "connecting" /\ task'[t].on = None
      /\ task'[t].alone => \A o \in Tasks \ {t} : ~Busy(o)
      /\ \A s \in Tasks \ {t} : /\ task'[s].at = task[s].at /\ task'[s].on = task[s].on
                                /\ task'[s].alone => ~Busy(s)
  BY <1>1, Enters
<1>3. TypeOK'
  BY <1>1, <1>2 DEF TypeOK, Task
<1>4. DrainsOwn' /\ SlotDrained'
  BY <1>1, <1>2 DEF IInv, DrainsOwn, SlotDrained
<1>5. AloneOwns'
  BY <1>1, <1>2 DEF IInv, AloneOwns, Busy
<1> QED BY <1>3, <1>4, <1>5 DEF IInv

LEMMA ConnectedStep ==
    ASSUME IInv, NEW t \in Tasks, NEW c \in Clients, Connected(t, c) PROVE IInv'
<1>1. /\ task[t].at = "connecting" /\ client[c] = "new" /\ nc' = c /\ Leave(t) /\ TypeOK
      /\ client' = [client EXCEPT ![c] = "open"]
  BY DEF Connected, IInv
<1>2. /\ task' \in [Tasks -> Task] /\ task'[t].at = "idle"
      /\ \A s \in Tasks \ {t} : task'[s] = task[s]
  BY <1>1, Leaves
<1>3. TypeOK'
  BY <1>1, <1>2 DEF TypeOK, Task
<1>4. DrainsOwn' /\ SlotDrained'
  BY <1>1, <1>2, NatsAssumption DEF IInv, DrainsOwn, SlotDrained, TypeOK
<1>5. AloneOwns'
  BY <1>1, <1>2 DEF IInv, AloneOwns, Busy, TypeOK
<1> QED BY <1>3, <1>4, <1>5 DEF IInv

LEMMA DisconnectStep == ASSUME IInv, NEW t \in Tasks, Disconnect(t) PROVE IInv'
<1>1. /\ ~Busy(t) /\ nc \in Clients /\ client[nc] = "open" /\ Enter(t, "draining", nc) /\ TypeOK
      /\ client' = [client EXCEPT ![nc] = "draining"] /\ nc' = nc
  BY DEF Disconnect, IInv, TypeOK
<1>2. /\ task' \in [Tasks -> Task] /\ task'[t].at = "draining" /\ task'[t].on = nc
      /\ task'[t].alone => \A o \in Tasks \ {t} : ~Busy(o)
      /\ \A s \in Tasks \ {t} : /\ task'[s].at = task[s].at /\ task'[s].on = task[s].on
                                /\ task'[s].alone => ~Busy(s)
  <2>1. PICK c \in Clients : c = nc
    BY <1>1
  <2>2. Enter(t, "draining", c)
    BY <1>1, <2>1 DEF Enter
  <2> QED BY <1>1, <2>1, <2>2, Enters
<1>3. TypeOK'
  BY <1>1, <1>2 DEF TypeOK, Task
<1>4. DrainsOwn' /\ SlotDrained'
  BY <1>1, <1>2 DEF IInv, DrainsOwn, SlotDrained, TypeOK
<1>5. AloneOwns'
  BY <1>1, <1>2 DEF IInv, AloneOwns, Busy, TypeOK
<1> QED BY <1>3, <1>4, <1>5 DEF IInv

LEMMA InVainStep == ASSUME IInv, NEW t \in Tasks, DisconnectInVain(t) PROVE IInv'
<1> DEFINE still(s) == task[s].alone /\ ~Busy(s)
           old(s) == [task[s] EXCEPT !.alone = still(s)]
<1>1. /\ nc' = None /\ UNCHANGED client /\ TypeOK
      /\ task' = [s \in Tasks |-> old(s)]
  BY Zenon DEF DisconnectInVain, IInv
<1>2. \A s \in Tasks : /\ old(s) \in Task /\ old(s).at = task[s].at /\ old(s).on = task[s].on
                       /\ old(s).alone => still(s)
  <2>1. ASSUME NEW s \in Tasks, NEW x \in BOOLEAN, x = still(s)
        PROVE  /\ [task[s] EXCEPT !.alone = x] \in Task
               /\ [task[s] EXCEPT !.alone = x].at = task[s].at
               /\ [task[s] EXCEPT !.alone = x].on = task[s].on
               /\ [task[s] EXCEPT !.alone = x].alone => x
    <3>1. task[s] \in Task
      BY <1>1 DEF TypeOK, Task, Busy
    <3> QED BY <3>1 DEF Task
  <2>2. ASSUME NEW s \in Tasks
        PROVE  /\ old(s) \in Task /\ old(s).at = task[s].at /\ old(s).on = task[s].on
               /\ old(s).alone => still(s)
    <3>1. still(s) \in BOOLEAN
      BY <1>1 DEF TypeOK, Task, Busy
    <3> QED BY <2>1, <3>1
  <2> HIDE DEF old, still
  <2> QED BY <2>2, Zenon
<1> HIDE DEF old
<1>3. /\ task' \in [Tasks -> Task]
      /\ \A s \in Tasks : /\ task'[s].at = task[s].at /\ task'[s].on = task[s].on
                          /\ task'[s].alone => ~Busy(s)
  BY <1>1, <1>2
<1>4. TypeOK'
  BY <1>1, <1>3 DEF TypeOK, Task
<1>5. DrainsOwn' /\ SlotDrained'
  BY <1>1, <1>3 DEF IInv, DrainsOwn, SlotDrained
<1>6. AloneOwns'
  BY <1>3 DEF AloneOwns, Busy
<1> QED BY <1>4, <1>5, <1>6 DEF IInv

LEMMA TimesOutStep == ASSUME IInv, NEW t \in Tasks, DrainTimesOut(t) PROVE IInv'
<1>1. TypeOK /\ task[t].at = "draining" /\ nc' = nc
  BY DEF DrainTimesOut, IInv
<1>2. CASE nc = None
  <2>1. Leave(t) /\ UNCHANGED client
    BY <1>2 DEF DrainTimesOut
  <2>2. /\ task' \in [Tasks -> Task] /\ task'[t].at = "idle"
        /\ \A s \in Tasks \ {t} : task'[s] = task[s]
    BY <1>1, <2>1, Leaves
  <2>3. TypeOK'
    BY <1>1, <2>1, <2>2 DEF TypeOK, Task
  <2>4. DrainsOwn' /\ SlotDrained'
    BY <1>1, <1>2, <2>1, <2>2 DEF IInv, DrainsOwn, SlotDrained
  <2>5. AloneOwns'
    BY <1>1, <2>1, <2>2 DEF IInv, AloneOwns, Busy
  <2> QED BY <2>3, <2>4, <2>5 DEF IInv
<1>3. CASE nc # None
  <2>1. /\ nc \in Clients /\ client' = [client EXCEPT ![nc] = "closed"]
        /\ task' = [task EXCEPT ![t].at = "closing"]
    BY <1>1, <1>3 DEF DrainTimesOut, TypeOK
  <2>2. /\ task' \in [Tasks -> Task] /\ task'[t].at = "closing" /\ task'[t].on = task[t].on
        /\ task'[t].alone = task[t].alone
        /\ \A s \in Tasks \ {t} : task'[s] = task[s]
    BY <1>1, <2>1 DEF TypeOK, Task
  <2>3. TypeOK'
    BY <1>1, <2>1, <2>2 DEF TypeOK, Task
  <2>4. DrainsOwn' /\ SlotDrained'
    BY <1>1, <2>1, <2>2 DEF IInv, DrainsOwn, SlotDrained, TypeOK
  <2>5. AloneOwns'
    BY <1>1, <2>1, <2>2 DEF IInv, AloneOwns, DrainsOwn, Busy, TypeOK
  <2> QED BY <2>3, <2>4, <2>5 DEF IInv
<1> QED BY <1>2, <1>3

LEMMA EndStep ==
    ASSUME IInv, NEW t \in Tasks, ConnectFails(t) \/ Drained(t) \/ Closed(t) PROVE IInv'
<1>1. /\ TypeOK /\ Leave(t) /\ task[t].at # "idle"
      /\ \/ UNCHANGED <<nc, client>> /\ task[t].at # "draining"
         \/ /\ nc' = None
            /\ UNCHANGED client \/ (/\ client' = [client EXCEPT ![task[t].on] = "closed"]
                                    /\ task[t].on \in Clients)
  BY DEF ConnectFails, Drained, Closed, IInv, DrainsOwn
<1>2. /\ task' \in [Tasks -> Task] /\ task'[t].at = "idle"
      /\ \A s \in Tasks \ {t} : task'[s] = task[s]
  BY <1>1, Leaves
<1>3. TypeOK'
  BY <1>1, <1>2 DEF TypeOK, Task
<1>4. DrainsOwn' /\ SlotDrained'
  BY <1>1, <1>2 DEF IInv, DrainsOwn, SlotDrained, TypeOK
<1>5. AloneOwns'
  BY <1>1, <1>2 DEF IInv, AloneOwns, Busy, TypeOK
<1> QED BY <1>3, <1>4, <1>5 DEF IInv

LEMMA BreaksOffStep == ASSUME IInv, NEW t \in Tasks, DrainBreaksOff(t) PROVE IInv'
<1>1. /\ TypeOK /\ Leave(t) /\ task[t].at = "draining" /\ nc' = None
      /\ task[t].on \in Clients
      /\ \E x \in {"stuck", "closed"} : client' = [client EXCEPT ![task[t].on] = x]
  BY DEF DrainBreaksOff, IInv, DrainsOwn, TypeOK
<1>2. /\ task' \in [Tasks -> Task] /\ task'[t].at = "idle"
      /\ \A s \in Tasks \ {t} : task'[s] = task[s]
  BY <1>1, Leaves
<1>3. TypeOK'
  BY <1>1, <1>2 DEF TypeOK, Task
<1>4. DrainsOwn' /\ SlotDrained'
  BY <1>1, <1>2 DEF IInv, DrainsOwn, SlotDrained, TypeOK
<1>5. AloneOwns'
  BY <1>1, <1>2 DEF IInv, AloneOwns, Busy, TypeOK
<1> QED BY <1>3, <1>4, <1>5 DEF IInv

LEMMA OutageStep == ASSUME IInv, NEW c \in Clients, Outage(c) PROVE IInv'
<1>1. /\ UNCHANGED <<nc, task>> /\ TypeOK
      /\ \E x \in {"open", "away", "closed"} : client' = [client EXCEPT ![c] = x]
      /\ client[c] \in {"open", "away"}
  BY DEF Outage, IInv
<1>2. TypeOK'
  BY <1>1 DEF TypeOK
<1>3. DrainsOwn' /\ SlotDrained'
  BY <1>1 DEF IInv, DrainsOwn, SlotDrained, TypeOK
<1>4. AloneOwns'
  BY <1>1 DEF IInv, AloneOwns, Busy, TypeOK
<1> QED BY <1>2, <1>3, <1>4 DEF IInv

LEMMA Preserved == IInv /\ [Next]_vars => IInv'
<1> SUFFICES ASSUME IInv, [Next]_vars PROVE IInv'
  OBVIOUS
<1>1. ASSUME NEW t \in Tasks, Call(t) PROVE IInv'
  BY <1>1, ConnectStep, ConnectedStep, DisconnectStep, InVainStep, TimesOutStep, BreaksOffStep,
     EndStep DEF Call
<1>2. ASSUME NEW c \in Clients, Outage(c) PROVE IInv'
  BY <1>2, OutageStep
<1>3. CASE UNCHANGED vars
  BY <1>3 DEF vars, IInv, TypeOK, DrainsOwn, AloneOwns, SlotDrained, Busy
<1> QED BY <1>1, <1>2, <1>3 DEF Next

\* The invariant behind the results: a call that nothing ran into owns the slot.
THEOREM Inductive == Spec => []IInv
BY Initially, Preserved, PTL DEF Spec

\* The manager keeps its types.
THEOREM TypeCorrect == Spec => []TypeOK
<1>1. IInv => TypeOK
  BY DEF IInv
<1> QED BY <1>1, Inductive, PTL

\* WorkingSpared: a disconnect that nothing runs into closes no other connection.
THEOREM WorkingLeft == Spec => WorkingSpared
<1> DEFINE A == \A c \in Clients : client[c] = "open" /\ client'[c] = "closed" =>
                   \E t \in Tasks : task[t].at = "draining" /\ task[t].on # c /\ ~task[t].alone
<1>1. IInv /\ [Next]_vars => [A]_vars
  <2> SUFFICES ASSUME IInv, Next, NEW c \in Clients, client[c] = "open", client'[c] = "closed"
               PROVE  \E t \in Tasks : /\ task[t].at = "draining" /\ task[t].on # c
                                       /\ ~task[t].alone
    BY DEF A
  <2>1. TypeOK /\ DrainsOwn /\ AloneOwns
    BY DEF IInv
  <2>2. ASSUME NEW t \in Tasks, Call(t)
        PROVE  Drained(t) \/ DrainBreaksOff(t) \/ DrainTimesOut(t)
    BY <2>1, <2>2 DEF Call, Connect, ConnectFails, Connected, Disconnect, DisconnectInVain, Closed,
                      TypeOK
  <2>3. ASSUME NEW t \in Tasks, Drained(t) \/ DrainBreaksOff(t) PROVE FALSE
    BY <2>1, <2>3 DEF Drained, DrainBreaksOff, DrainsOwn, TypeOK
  <2>4. ASSUME NEW t \in Tasks, DrainTimesOut(t)
        PROVE  task[t].at = "draining" /\ task[t].on # c /\ ~task[t].alone
    BY <2>1, <2>4 DEF DrainTimesOut, DrainsOwn, AloneOwns, Busy, TypeOK
  <2>5. ASSUME NEW d \in Clients, Outage(d) PROVE FALSE
    BY <2>1, <2>5 DEF Outage, TypeOK
  <2> QED BY <2>2, <2>3, <2>4, <2>5 DEF Next
<1> QED BY <1>1, Inductive, PTL DEF Spec, WorkingSpared

\* LossesExplained: no connection is lost by the time-out of its drain alone.
THEOREM LossesKnown == Spec => LossesExplained
<1> DEFINE A == \A c \in Clients : Lost(c)' /\ ~Lost(c) =>
                   \/ client[c] = "away" /\ nc = c
                   \/ client[c] = "draining" /\ client'[c] = "stuck"
                   \/ \E t \in Tasks : Busy(t) /\ ~task[t].alone
<1>1. IInv /\ [Next]_vars => [A]_vars
  <2> SUFFICES ASSUME IInv, Next, NEW c \in Clients, Lost(c)', ~Lost(c),
                      ~(client[c] = "away" /\ nc = c),
                      ~(client[c] = "draining" /\ client'[c] = "stuck"),
                      \A t \in Tasks : Busy(t) => task[t].alone
               PROVE  FALSE
    BY DEF A
  <2>1. TypeOK /\ DrainsOwn /\ AloneOwns /\ SlotDrained
    BY DEF IInv
  <2>2. /\ client'[c] \in {"open", "away", "draining", "stuck"} /\ nc' # c
        /\ \A t \in Tasks : task'[t].at = "draining" => task'[t].on # c
    BY DEF Lost, Alive
  <2>3. \/ client[c] \notin {"open", "away", "draining", "stuck"} \/ nc = c
        \/ \E t \in Tasks : task[t].at = "draining" /\ task[t].on = c
    BY DEF Lost, Alive
  <2>4. ASSUME NEW t \in Tasks, Connect(t) PROVE FALSE
    <3>1. /\ ~Busy(t) /\ nc = None /\ Enter(t, "connecting", None) /\ UNCHANGED <<nc, client>>
      BY <2>4 DEF Connect
    <3>2. \A s \in Tasks \ {t} : task'[s].at = task[s].at /\ task'[s].on = task[s].on
      BY <2>1, <3>1, Enters
    <3> QED BY <2>2, <2>3, <3>1, <3>2 DEF Busy
  <2>5. ASSUME NEW t \in Tasks, NEW d \in Clients, Connected(t, d) PROVE FALSE
    BY <2>1, <2>2, <2>3, <2>5, Leaves, NatsAssumption DEF Connected, AloneOwns, Busy, TypeOK
  <2>6. ASSUME NEW t \in Tasks, Disconnect(t) PROVE FALSE
    <3>1. PICK d \in Clients : d = nc
      BY <2>1, <2>6 DEF Disconnect, TypeOK
    <3>2. /\ ~Busy(t) /\ Enter(t, "draining", d) /\ nc' = d
          /\ client' = [client EXCEPT ![d] = "draining"]
      BY <2>6, <3>1 DEF Disconnect, Enter
    <3>3. /\ task'[t].at = "draining" /\ task'[t].on = d
          /\ \A s \in Tasks \ {t} : task'[s].at = task[s].at /\ task'[s].on = task[s].on
      BY <2>1, <3>2, Enters
    <3> QED BY <2>1, <2>2, <2>3, <3>1, <3>2, <3>3 DEF Busy, TypeOK
  <2>7. ASSUME NEW t \in Tasks, DisconnectInVain(t) PROVE FALSE
    <3>1. /\ client[nc] # "open" /\ UNCHANGED client
          /\ \A s \in Tasks : task'[s].at = task[s].at /\ task'[s].on = task[s].on
      BY <2>1, <2>7 DEF DisconnectInVain, TypeOK
    <3> QED BY <2>1, <2>2, <2>3, <3>1, NatsAssumption DEF SlotDrained, TypeOK
  <2>8. ASSUME NEW t \in Tasks, Drained(t) PROVE FALSE
    BY <2>1, <2>2, <2>3, <2>8, Leaves DEF Drained, DrainsOwn, AloneOwns, Busy, TypeOK
  <2>9. ASSUME NEW t \in Tasks, DrainTimesOut(t) PROVE FALSE
    <3>1. task[t].at = "draining" /\ nc = task[t].on /\ nc \in Clients
      BY <2>1, <2>9 DEF DrainTimesOut, DrainsOwn, AloneOwns, Busy
    <3>2. /\ client' = [client EXCEPT ![nc] = "closed"] /\ nc' = nc
          /\ task' = [task EXCEPT ![t].at = "closing"]
      BY <2>9, <3>1, NatsAssumption DEF DrainTimesOut
    <3> QED BY <2>1, <2>2, <2>3, <3>1, <3>2 DEF TypeOK
  <2>10. ASSUME NEW t \in Tasks, Closed(t) PROVE FALSE
    BY <2>1, <2>2, <2>3, <2>10, Leaves DEF Closed, AloneOwns, Busy, TypeOK
  <2>11. ASSUME NEW t \in Tasks, ConnectFails(t) PROVE FALSE
    BY <2>1, <2>2, <2>3, <2>11, Leaves DEF ConnectFails
  <2>12. ASSUME NEW t \in Tasks, DrainBreaksOff(t) PROVE FALSE
    <3>1. task[t].at = "draining" /\ nc' = None /\ Leave(t) /\ nc = task[t].on /\ nc \in Clients
      BY <2>1, <2>12 DEF DrainBreaksOff, DrainsOwn, AloneOwns, Busy
    <3>2. \A s \in Tasks \ {t} : task'[s] = task[s] /\ ~Busy(s)
      BY <2>1, <3>1, Leaves DEF AloneOwns, Busy
    <3>3. client[nc] = "draining" \/ client[nc] = "closed"
      BY <2>1, <3>1, NatsAssumption DEF DrainsOwn, SlotDrained
    <3>4. c = nc
      BY <2>1, <2>2, <2>3, <2>12, <3>1, <3>2 DEF DrainBreaksOff, Busy, TypeOK
    <3> QED BY <2>1, <2>2, <2>12, <3>1, <3>3, <3>4 DEF DrainBreaksOff, TypeOK
  <2>13. ASSUME NEW d \in Clients, Outage(d) PROVE FALSE
    BY <2>1, <2>2, <2>3, <2>13 DEF Outage, TypeOK
  <2> QED BY <2>4, <2>5, <2>6, <2>7, <2>8, <2>9, <2>10, <2>11, <2>12, <2>13
      DEF Next, Call
<1> QED BY <1>1, Inductive, PTL DEF Spec, LossesExplained
=============================================================================
