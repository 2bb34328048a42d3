--------------------------- MODULE LifespanProofs ---------------------------
(* The start, the life and the end of the process, whichever manager fails  *)
(* or is cancelled at whichever point.                                      *)
EXTENDS Lifespan, TLAPS

\* How far a manager is tells what it holds, and what it has seen.
StartOK == phase = "starting" => \A x \in Managers :
    /\ at[x] \in {"pinging", "closing", "ok"} => x \in client
    /\ at[x] = "ok" /\ x \in Pinging => x \in seen
    /\ at[x] = "new" => x \notin open

\* A probe runs only while the process serves, with every client there, and a
\* ping that answered was one of a service that was up.
ServeOK ==
    /\ phase = "serving" => client = Managers
    /\ probe # NoProbe => phase = "serving" /\ \A x \in Managers : probe[x] # "none"
    /\ \A x \in Managers : probe[x] = "ok" => x \in seen

\* What silent_close has still to do, and what is left for it.
EndOK == phase = "ending" =>
    \/ todo = CloseOrder
    \/ todo = <<"seaweed", "pg">> /\ "http" \notin client
    \/ todo = <<"pg">> /\ client \cap {"http", "seaweed"} = {}
    \/ todo = <<>> /\ client \subseteq {"redis"}

IInv == /\ TypeOK /\ up \subseteq seen /\ StartOK /\ ServeOK /\ EndOK
        /\ ClosedAtExit /\ ReadyMeansReached
-----------------------------------------------------------------------------
LEMMA InitInv == Init => IInv
BY DEF Init, IInv, TypeOK, StartOK, ServeOK, EndOK, ClosedAtExit, ReadyMeansReached, NoProbe,
       Managers

LEMMA AllOfThem ==
    ASSUME NEW S, S \subseteq Managers, \A x \in Managers : x \in S
    PROVE  S = Managers
OBVIOUS

\* The client of one manager goes.
LEMMA DisconnectKeepsHeld ==
    ASSUME IInv, NEW x \in client, NEW closed \in BOOLEAN, Disconnect(x, closed)
    PROVE  /\ client' = client \ {x} /\ client' \subseteq open' /\ open' \subseteq Managers
           /\ open' \subseteq open /\ unclosed' \subseteq Managers
           /\ open' \ client' \subseteq unclosed'
BY DEF Disconnect, IInv, TypeOK, ClosedAtExit

\* The steps of one manager's start.
LEMMA StartInv ==
    ASSUME IInv, NEW x \in Managers, Start(x) \/ Pinged(x)
    PROVE  IInv'
<1>1. /\ phase = "starting" /\ UNCHANGED <<phase, todo, up, serving, seen>>
      /\ at' \in [Managers -> {"new", "pinging", "closing", "ok", "failed"}]
      /\ \A y \in Managers \ {x} : at'[y] = at[y]
  <2> USE DEF IInv, TypeOK
  <2>1. CASE Create(x)
    BY <2>1 DEF Create
  <2>2. CASE Pinged(x)
    BY <2>2 DEF Pinged
  <2>3. CASE TimeOut(x)
    BY <2>3 DEF TimeOut
  <2>4. ASSUME NEW closed \in BOOLEAN, Refused(x, closed)
        PROVE  /\ phase = "starting" /\ UNCHANGED <<phase, todo, up, serving, seen>>
               /\ at' = [at EXCEPT ![x] = "failed"]
    BY <2>4 DEF Refused
  <2> QED BY <2>1, <2>2, <2>3, <2>4 DEF Start
<1>2. ASSUME /\ client' \subseteq open' /\ open' \subseteq Managers /\ unclosed' \subseteq Managers
             /\ client \ {x} \subseteq client' /\ open' \ {x} \subseteq open
             /\ at'[x] \in {"pinging", "closing", "ok"} => x \in client'
             /\ at'[x] = "ok" /\ x \in Pinging => x \in seen
             /\ at'[x] # "new"
             /\ open' \ client' \subseteq unclosed'
      PROVE  IInv'
  <2>1. TypeOK'
    BY <1>1, <1>2 DEF IInv, TypeOK, serving
  <2>2. StartOK'
    BY <1>1, <1>2 DEF IInv, StartOK
  <2>3. ServeOK' /\ EndOK' /\ ReadyMeansReached'
    BY <1>1 DEF IInv, ServeOK, EndOK, ReadyMeansReached, serving, NoProbe
  <2> QED BY <1>1, <1>2, <2>1, <2>2, <2>3 DEF IInv, ClosedAtExit
<1>3. CASE Create(x)
  <2>1. at[x] = "new" /\ at'[x] \in {"pinging", "ok", "failed"} /\ unclosed' = unclosed
    BY <1>3 DEF Create, IInv, TypeOK
  <2>2. CASE client' = client \cup {x} /\ open' = open \cup {x} /\ at'[x] = IF x \in Pinging THEN "pinging" ELSE "ok"
    BY <1>2, <2>1, <2>2 DEF IInv, TypeOK, ClosedAtExit
  <2>3. CASE at'[x] = "failed" /\ UNCHANGED <<client, open>>
    BY <1>2, <2>1, <2>3 DEF IInv, TypeOK, ClosedAtExit
  <2> QED BY <1>3, <2>2, <2>3 DEF Create, IInv, TypeOK
<1>4. CASE Pinged(x)
  <2>1. /\ at[x] = "pinging" /\ at'[x] \in {"ok", "closing"}
        /\ at'[x] = "ok" => x \in up
        /\ UNCHANGED <<client, open, unclosed>>
    BY <1>4 DEF Pinged, IInv, TypeOK
  <2> QED BY <1>1, <1>2, <2>1 DEF IInv, TypeOK, StartOK, ClosedAtExit
<1>5. ASSUME NEW closed \in BOOLEAN, Disconnect(x, closed), at[x] = "closing", at'[x] = "failed"
      PROVE  IInv'
  <2>1. x \in client
    BY <1>1, <1>5 DEF IInv, StartOK
  <2> QED BY <1>2, <1>5, <2>1, DisconnectKeepsHeld
<1>6. CASE \E closed \in BOOLEAN : Refused(x, closed)
  BY <1>5, <1>6 DEF Refused, IInv, TypeOK
<1>7. CASE TimeOut(x)
  <2>1. CASE at[x] = "pinging"
    <3>1. at'[x] = "failed" /\ UNCHANGED <<client, open, unclosed>>
      BY <1>7, <2>1 DEF TimeOut, IInv, TypeOK
    <3> QED BY <1>2, <3>1 DEF IInv, TypeOK, ClosedAtExit
  <2>2. CASE at[x] = "closing"
    <3>1. at'[x] = "failed"
      BY <1>7 DEF TimeOut, IInv, TypeOK
    <3>2. Disconnect(x, FALSE)
      BY <1>7, <2>2 DEF TimeOut
    <3> QED BY <1>5, <2>2, <3>1, <3>2
  <2> QED BY <1>7, <2>1, <2>2 DEF TimeOut
<1> QED BY <1>3, <1>4, <1>6, <1>7 DEF Start

\* gather, and the end of the process.
LEMMA ProgressInv ==
    ASSUME IInv, Progress \/ Shutdown
    PROVE  IInv'
<1> USE DEF IInv, TypeOK, StartOK, ServeOK, EndOK, ClosedAtExit, ReadyMeansReached, serving, NoProbe
<1>1. CASE Settle
  <2>1. /\ phase = "starting" /\ UNCHANGED <<at, client, open, up, serving, seen, unclosed>>
        /\ \/ (\A x \in Managers : at[x] = "ok") /\ phase' = "serving" /\ todo' = todo
           \/ phase' = "ending" /\ todo' = CloseOrder
    BY <1>1 DEF Settle
  <2>2. CloseOrder \in Seq(Managers)
    BY DEF CloseOrder, Managers
  <2>3. CASE (\A x \in Managers : at[x] = "ok") /\ phase' = "serving" /\ todo' = todo
    <3>1. client' = Managers
      <4>1. \A x \in Managers : x \in client
        BY <2>1, <2>3
      <4>2. client' = client /\ client \subseteq Managers
        BY <2>1
      <4> QED BY <4>1, <4>2, AllOfThem
    <3> QED BY <2>1, <2>3, <3>1
  <2>4. CASE phase' = "ending" /\ todo' = CloseOrder
    BY <2>1, <2>2, <2>4
  <2> QED BY <2>1, <2>3, <2>4
<1>2. CASE Shutdown
  <2>1. CloseOrder \in Seq(Managers)
    BY DEF CloseOrder, Managers
  <2> QED BY <1>2, <2>1 DEF Shutdown
<1>3. CASE Exit
  BY <1>3 DEF Exit, CloseOrder
<1>4. ASSUME NEW closed \in BOOLEAN, Close(closed) PROVE IInv'
  <2> DEFINE x == Head(todo)
  <2>1. /\ phase = "ending" /\ todo # <<>> /\ UNCHANGED <<phase, at, up, serving, seen>>
        /\ todo' = Tail(todo)
        /\ IF x \in client THEN Disconnect(x, closed) ELSE UNCHANGED <<client, open, unclosed>>
    BY <1>4 DEF Close
  <2>2. /\ client' = client \ {x} /\ client' \subseteq open' /\ open' \subseteq Managers
        /\ unclosed' \subseteq Managers /\ open' \ client' \subseteq unclosed'
    BY <2>1, DisconnectKeepsHeld
  <2>3. todo' \in Seq(Managers)
    BY <2>1
  <2>4. EndOK'
    <3>1. CASE todo = <<"http", "seaweed", "pg">>
      BY <2>1, <2>2, <3>1
    <3>2. CASE todo = <<"seaweed", "pg">> /\ "http" \notin client
      BY <2>1, <2>2, <3>2
    <3>3. CASE todo = <<"pg">> /\ client \cap {"http", "seaweed"} = {}
      <4>1. x = "pg" /\ todo' = <<>> /\ phase' = "ending"
        BY <2>1, <3>3
      <4>2. client' \subseteq {"redis"}
        <5>1. client \subseteq {"pg", "redis"}
          BY <3>3 DEF Managers
        <5> QED BY <2>2, <4>1, <5>1
      <4> QED BY <4>1, <4>2
    <3> QED BY <2>1, <3>1, <3>2, <3>3 DEF CloseOrder
  <2> QED BY <2>1, <2>2, <2>3, <2>4
<1> QED BY <1>1, <1>2, <1>3, <1>4 DEF Progress

\* The readiness probe, and the services that come and go.
LEMMA ProbeInv ==
    ASSUME IInv,
           \/ ProbeStarts \/ ProbeEnds \/ ProbeTimesOut
           \/ \E x \in Managers : Pong(x) \/ Service(x)
    PROVE  IInv'
<1> USE DEF IInv, TypeOK, StartOK, ServeOK, EndOK, ClosedAtExit, ReadyMeansReached, serving, NoProbe
<1>1. CASE ProbeStarts
  BY <1>1 DEF ProbeStarts
<1>2. CASE ProbeEnds
  <2>1. /\ probe' = [x \in Managers |-> "none"] /\ answer' \in {200, 503}
        /\ UNCHANGED <<phase, at, client, open, todo, up, seen, unclosed>>
    BY <1>2 DEF ProbeEnds
  <2>2. ASSUME answer' = 200 PROVE seen' = Managers
    <3>1. \A x \in Managers : probe[x] \notin {"none", "pending", "error"}
      BY <1>2, <2>2 DEF ProbeEnds
    <3>2. \A x \in Managers : probe[x] = "ok"
      BY <3>1
    <3>3. \A x \in Managers : x \in seen
      BY <3>2
    <3>4. seen' = seen /\ seen \subseteq Managers
      BY <2>1
    <3>5. seen = Managers
      BY ONLY <3>3, <3>4, AllOfThem
    <3> QED BY <3>4, <3>5
  <2> QED BY <2>1, <2>2
<1>3. CASE ProbeTimesOut
  BY <1>3 DEF ProbeTimesOut
<1>4. ASSUME NEW x \in Managers, Pong(x) PROVE IInv'
  <2>1. phase = "serving" /\ x \in client
    BY <1>4 DEF Pong
  <2>2. /\ probe[x] = "pending" /\ UNCHANGED <<phase, at, client, open, todo, up, answer, seen, unclosed>>
        /\ \/ x \in up /\ probe' = [probe EXCEPT ![x] = "ok"]
           \/ probe' = [probe EXCEPT ![x] = "error"]
    BY <1>4, <2>1 DEF Pong
  <2> QED BY <2>1, <2>2
<1>5. ASSUME NEW x \in Managers, Service(x) PROVE IInv'
  BY <1>5 DEF Service
<1> QED BY <1>1, <1>2, <1>3, <1>4, <1>5

LEMMA NextInv == IInv /\ [Next]_vars => IInv'
<1> SUFFICES ASSUME IInv, [Next]_vars PROVE IInv'
  OBVIOUS
<1>1. CASE UNCHANGED vars
  BY <1>1 DEF vars, serving, IInv, TypeOK, StartOK, ServeOK, EndOK, ClosedAtExit, ReadyMeansReached, NoProbe
<1> QED BY <1>1, StartInv, ProgressInv, ProbeInv DEF Next

THEOREM Inductive == Spec => []IInv
BY InitInv, NextInv, PTL DEF Spec

\* Every variable keeps its type.
THEOREM TypeCorrect == Spec => []TypeOK
<1>1. IInv => TypeOK
  BY DEF IInv
<1> QED BY <1>1, Inductive, PTL

\* A readiness probe answers 200 only if every service was up while it ran.
THEOREM ReadinessTrue == Spec => []ReadyMeansReached
<1>1. IInv => ReadyMeansReached
  BY DEF IInv
<1> QED BY <1>1, Inductive, PTL

\* No manager keeps a client that was closed, none drops one without a close,
\* and a process that has ended holds none but Redis's, however its start or
\* its end went.
THEOREM ExitCloses == Spec => []ClosedAtExit
<1>1. IInv => ClosedAtExit
  BY DEF IInv
<1> QED BY <1>1, Inductive, PTL

\* The process serves only when connected, and never a second time.
THEOREM ServesWhenConnected == Spec => ServesConnected
<1>1. IInv /\ [Next]_vars => [phase' = "serving" /\ phase # "serving" =>
                                client = Managers /\ Pinging \subseteq seen]_vars
  <2> SUFFICES ASSUME IInv, [Next]_vars, phase' = "serving", phase # "serving"
               PROVE  client = Managers /\ Pinging \subseteq seen
    OBVIOUS
  <2>1. Settle /\ \A x \in Managers : at[x] = "ok"
    BY DEF Next, Progress, Settle, Exit, Close, Shutdown, ProbeStarts, ProbeEnds, ProbeTimesOut, Start,
           Create, TimeOut, Refused, Pinged, Pong, Service, vars
  <2>2. \A x \in Managers : x \in client /\ (x \in Pinging => x \in seen)
    BY <2>1 DEF Settle, IInv, StartOK
  <2>3. Pinging \subseteq Managers /\ client \subseteq Managers
    BY DEF Pinging, Managers, IInv, TypeOK
  <2> QED BY <2>2, <2>3
<1> QED BY <1>1, Inductive, PTL DEF Spec, ServesConnected
=============================================================================
