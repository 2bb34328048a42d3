---------------------------- MODULE ScyllaProofs ----------------------------
(* Proofs about Scylla, for any number of queries, connects and disconnects. *)
EXTENDS Scylla, SequenceTheorems, TLAPS

\* The query that prepares is the one that holds the lock, and the room made
\* for its statement stays until it is there.
Locking == \A c \in Callers :
    /\ call[c].at = "prep" <=> lock = c
    /\ call[c].at = "prep" => call[c].q \in Queries /\ call[c].s \in Ids
    /\ call[c].at = "prep" => Len(prepared) < MaxPrepared
    /\ call[c].at = "wait" => call[c].q \in Queries

\* A connect or disconnect under way works on a cluster that was created.
Tasking == \A t \in Tasks :
    /\ task[t].at # "idle" => task[t].id \in Ids
    /\ task[t].at = "connecting" => task[t].id \in created

CacheInv == TypeOK /\ Locking /\ Tasking /\ CacheBounded /\ PreparesOnce /\ ReadyHasSession
-----------------------------------------------------------------------------
LEMMA RemoveAtFacts ==
    ASSUME NEW S, NEW s \in Seq(S), NEW i \in 1..Len(s)
    PROVE  /\ RemoveAt(s, i) \in Seq(S)
           /\ Len(RemoveAt(s, i)) = Len(s) - 1
           /\ \A j \in 1..(Len(s) - 1) : RemoveAt(s, i)[j] = IF j < i THEN s[j] ELSE s[j + 1]
<1> DEFINE a == SubSeq(s, 1, i - 1)  b == SubSeq(s, i + 1, Len(s))
<1>1. Len(s) \in Nat /\ i \in Nat /\ i >= 1 /\ i <= Len(s)
  BY LenProperties
<1>2. a \in Seq(S) /\ Len(a) = i - 1 /\ \A j \in 1..(i - 1) : a[j] = s[j]
  BY <1>1, SubSeqProperties, SMTT(30)
<1>3. b \in Seq(S) /\ Len(b) = Len(s) - i /\ \A j \in 1..(Len(s) - i) : b[j] = s[i + j]
  BY <1>1, SubSeqProperties, SMTT(30)
<1> HIDE DEF a, b
<1>4. /\ a \o b \in Seq(S) /\ Len(a \o b) = Len(a) + Len(b)
      /\ \A j \in 1..(Len(a) + Len(b)) : (a \o b)[j] = IF j <= Len(a) THEN a[j] ELSE b[j - Len(a)]
  BY <1>2, <1>3, ConcatProperties
<1>5. Len(a \o b) = Len(s) - 1
  BY <1>1, <1>2, <1>3, <1>4
<1>6. ASSUME NEW j \in 1..(Len(s) - 1)
      PROVE  (a \o b)[j] = IF j < i THEN s[j] ELSE s[j + 1]
  <2> j \in 1..(Len(a) + Len(b)) /\ j \in Nat
    BY <1>1, <1>2, <1>3
  <2>1. CASE j < i
    <3>1. j <= Len(a) /\ j \in 1..(i - 1)
      BY <2>1, <1>1, <1>2
    <3> QED BY <2>1, <3>1, <1>2, <1>4
  <2>2. CASE ~(j < i)
    <3>1. j - Len(a) \in 1..(Len(s) - i) /\ i + (j - Len(a)) = j + 1
      BY <2>2, <1>1, <1>2
    <3>2. ~(j <= Len(a))
      BY <2>2, <1>1, <1>2
    <3> QED BY <3>1, <3>2, <2>2, <1>3, <1>4
  <2> QED BY <2>1, <2>2
<1>7. RemoveAt(s, i) = a \o b
  BY DEF RemoveAt, a, b
<1> QED BY <1>4, <1>5, <1>6, <1>7

LEMMA MoveToEndFacts ==
    ASSUME prepared \in Seq(Entry), NEW i \in DOMAIN prepared
    PROVE  /\ MoveToEnd(i) \in Seq(Entry) /\ Len(MoveToEnd(i)) = Len(prepared)
           /\ \A j \in DOMAIN prepared : MoveToEnd(i)[j] =
                 IF j < i THEN prepared[j] ELSE IF j < Len(prepared) THEN prepared[j + 1] ELSE prepared[i]
<1>1. DOMAIN prepared = 1..Len(prepared) /\ Len(prepared) \in Nat /\ prepared[i] \in Entry
  BY LenProperties, ElementOfSeq
<1>2. /\ RemoveAt(prepared, i) \in Seq(Entry)
      /\ Len(RemoveAt(prepared, i)) = Len(prepared) - 1
      /\ \A j \in 1..(Len(prepared) - 1) :
            RemoveAt(prepared, i)[j] = IF j < i THEN prepared[j] ELSE prepared[j + 1]
  BY <1>1, RemoveAtFacts
<1> DEFINE r == RemoveAt(prepared, i)  e == prepared[i]
<1>6. /\ r \in Seq(Entry) /\ Len(r) = Len(prepared) - 1
      /\ \A j \in 1..(Len(prepared) - 1) : r[j] = IF j < i THEN prepared[j] ELSE prepared[j + 1]
  BY <1>2
<1>5. MoveToEnd(i) = Append(r, e) /\ e = prepared[i] /\ e \in Entry
  BY <1>1 DEF MoveToEnd
<1> HIDE DEF r, e
<1>3. /\ Append(r, e) \in Seq(Entry) /\ Len(Append(r, e)) = Len(r) + 1
      /\ \A j \in 1..Len(r) : Append(r, e)[j] = r[j]
      /\ Append(r, e)[Len(r) + 1] = e
  BY <1>5, <1>6, AppendProperties
<1>4. ASSUME NEW j \in DOMAIN prepared
      PROVE  MoveToEnd(i)[j] =
               IF j < i THEN prepared[j] ELSE IF j < Len(prepared) THEN prepared[j + 1] ELSE prepared[i]
  <2>1. CASE j < Len(prepared)
    BY <2>1, <1>1, <1>3, <1>5, <1>6
  <2>2. CASE j = Len(prepared)
    BY <2>2, <1>1, <1>3, <1>5, <1>6
  <2> QED BY <2>1, <2>2, <1>1
<1> DEFINE m == Append(r, e)
<1>7. MoveToEnd(i) = m /\ m \in Seq(Entry) /\ Len(m) = Len(r) + 1
  BY <1>3, <1>5
<1> HIDE DEF m
<1>8. Len(m) = Len(prepared)
  BY <1>1, <1>6, <1>7
<1> QED BY <1>4, <1>7, <1>8

\* The part of TypeOK about the queries, and what is left of it after a step
\* that leaves the connects alone.
CallRecord == [at : {"idle", "wait", "prep", "exec"}, q : Queries \cup {None},
               s : Ids \cup {None}, torn : BOOLEAN]
CallType == call \in [Callers -> CallRecord]

LEMMA CallUpdate ==
    ASSUME TypeOK, NEW c \in Callers, NEW r \in CallRecord, call' = [call EXCEPT ![c] = r]
    PROVE  CallType'
<1>1. CallType
  BY DEF TypeOK, CallType, CallRecord
<1> QED BY <1>1 DEF CallType

LEMMA QueryTypes ==
    ASSUME TypeOK, UNCHANGED lifeVars, prepared' \in Seq(Entry),
           lock' \in Callers \cup {None}, waiting' \in Seq(Callers), CallType'
    PROVE  TypeOK'
BY DEF TypeOK, CallType, CallRecord, lifeVars

\* What a query does to the cache and the lock, as far as CacheInv goes.
LEMMA UseFacts ==
    ASSUME CacheInv, NEW c \in Callers, NEW q \in Queries,
           call[c].at # "prep", Use(c, q), waiting' \in Seq(Callers), UNCHANGED lifeVars
    PROVE  CacheInv'
<1> USE DEF CacheInv
<1>1. PICK i \in DOMAIN prepared :
        /\ prepared[i].q = q
        /\ prepared' = MoveToEnd(i)
        /\ call' = [call EXCEPT ![c] = [@ EXCEPT !.at = "exec", !.q = q]]
        /\ UNCHANGED lock
  BY DEF Use
<1>2. /\ prepared' \in Seq(Entry) /\ Len(prepared') = Len(prepared)
      /\ \A j \in DOMAIN prepared : prepared'[j] =
            IF j < i THEN prepared[j] ELSE IF j < Len(prepared) THEN prepared[j + 1] ELSE prepared[i]
  BY <1>1, MoveToEndFacts DEF TypeOK
<1>3. DOMAIN prepared' = DOMAIN prepared /\ DOMAIN prepared = 1..Len(prepared) /\ Len(prepared) \in Nat
  BY <1>2, LenProperties DEF TypeOK
<1>4. TypeOK'
  <2>1. call[c] \in CallRecord
    BY DEF TypeOK, CallRecord
  <2>2. [call[c] EXCEPT !.at = "exec", !.q = q] \in CallRecord
    BY <2>1 DEF CallRecord
  <2>3. CallType'
    BY <1>1, <2>2, CallUpdate
  <2>4. lock' \in Callers \cup {None}
    BY <1>1 DEF TypeOK
  <2> QED BY <1>2, <2>3, <2>4, QueryTypes
<1>5. Locking'
  BY <1>1, <1>2 DEF TypeOK, Locking
<1>6. PreparesOnce'
  <2>1. ASSUME NEW d \in Callers, call'[d].at = "prep", NEW j \in DOMAIN prepared'
        PROVE  prepared'[j].q # call'[d].q
    <3>1. call[d].at = "prep" /\ call'[d] = call[d]
      BY <1>1, <2>1 DEF TypeOK
    <3> QED BY <3>1, <1>2, <1>3 DEF PreparesOnce, Cached
  <2>2. ASSUME NEW j \in DOMAIN prepared', NEW k \in DOMAIN prepared', prepared'[j].q = prepared'[k].q
        PROVE  j = k
    <3> DEFINE old(n) == IF n < i THEN n ELSE IF n < Len(prepared) THEN n + 1 ELSE i
    <3>1. \A n \in DOMAIN prepared : prepared'[n] = prepared[old(n)] /\ old(n) \in DOMAIN prepared
      BY <1>2, <1>3
    <3>2. old(j) = old(k) => j = k
      BY <1>3
    <3> HIDE DEF old
    <3>3. prepared[old(j)].q = prepared[old(k)].q
      BY <2>2, <3>1, <1>3
    <3> QED BY <3>1, <3>2, <3>3, <1>3 DEF PreparesOnce
  <2> QED BY <2>1, <2>2 DEF PreparesOnce, Cached
<1> QED BY <1>2, <1>4, <1>5, <1>6 DEF Tasking, CacheBounded, ReadyHasSession, lifeVars

LEMMA PrepareFacts ==
    ASSUME CacheInv, NEW c \in Callers, NEW q \in Queries,
           lock = None, Prepare(c, q), waiting' \in Seq(Callers), UNCHANGED lifeVars
    PROVE  CacheInv'
<1> USE DEF CacheInv
<1>1. /\ prepared' \in Seq(Entry) /\ Len(prepared') \in Nat /\ Len(prepared') < MaxPrepared
      /\ DOMAIN prepared' = 1..Len(prepared')
      /\ \A j \in DOMAIN prepared' : \E k \in DOMAIN prepared : prepared'[j] = prepared[k]
      /\ \A j, k \in DOMAIN prepared' : prepared'[j].q = prepared'[k].q => j = k
  <2> prepared \in Seq(Entry) /\ Len(prepared) \in Nat /\ DOMAIN prepared = 1..Len(prepared)
    BY LenProperties DEF TypeOK
  <2> MaxPrepared \in Nat /\ MaxPrepared > 0
    BY ScyllaAssumption
  <2>1. CASE Len(prepared) >= MaxPrepared
    <3>1. prepared # <<>> /\ prepared' = Tail(prepared)
      BY <2>1 DEF Prepare
    <3>2. /\ prepared' \in Seq(Entry) /\ Len(prepared') = Len(prepared) - 1
          /\ \A j \in 1..(Len(prepared) - 1) : prepared'[j] = prepared[j + 1]
      BY <3>1, HeadTailProperties
    <3>3. DOMAIN prepared' = 1..(Len(prepared) - 1) /\ Len(prepared) - 1 \in Nat
      BY <3>2, LenProperties
    <3>4. \A j \in 1..(Len(prepared) - 1) : j + 1 \in DOMAIN prepared
      OBVIOUS
    <3>5. ASSUME NEW j \in DOMAIN prepared', NEW k \in DOMAIN prepared', prepared'[j].q = prepared'[k].q
          PROVE  j = k
      <4>1. j + 1 = k + 1
        <5>1. j + 1 \in DOMAIN prepared /\ k + 1 \in DOMAIN prepared
          BY <3>3, <3>4, <3>5
        <5>2. prepared[j + 1].q = prepared[k + 1].q
          BY <3>2, <3>3, <3>5
        <5> QED BY <5>1, <5>2 DEF PreparesOnce
      <4> QED BY <4>1, <3>3
    <3>6. \A j \in DOMAIN prepared' : \E k \in DOMAIN prepared : prepared'[j] = prepared[k]
      BY <3>2, <3>3, <3>4
    <3>7. Len(prepared') \in Nat /\ Len(prepared') < MaxPrepared /\ DOMAIN prepared' = 1..Len(prepared')
      BY <3>2, <3>3 DEF CacheBounded
    <3> QED BY <3>2, <3>5, <3>6, <3>7
  <2>2. CASE ~(Len(prepared) >= MaxPrepared)
    BY <2>2 DEF Prepare, PreparesOnce
  <2> QED BY <2>1, <2>2
<1>2. \A d \in Callers : call[d].at # "prep"
  BY ScyllaAssumption DEF Locking
<1>3. CASE session = None
  <2>1. call' = [call EXCEPT ![c] = NoCall] /\ UNCHANGED lock
    BY <1>3 DEF Prepare
  <2>2. TypeOK'
    BY <2>1, <1>1 DEF TypeOK, lifeVars, NoCall
  <2>3. \A d \in Callers : call'[d].at # "prep"
    BY <2>1, <1>2 DEF TypeOK, NoCall
  <2>4. Locking'
    BY <2>1, <2>3, ScyllaAssumption DEF Locking, TypeOK, NoCall
  <2> QED BY <2>2, <2>3, <2>4, <1>1, ScyllaAssumption
          DEF PreparesOnce, CacheBounded, Tasking, ReadyHasSession, lifeVars
<1>4. CASE session # None
  <2>1. /\ call' = [call EXCEPT ![c] = [at |-> "prep", q |-> q, s |-> session, torn |-> FALSE]]
        /\ lock' = c /\ ~Cached(q)
    BY <1>4 DEF Prepare
  <2>2. TypeOK'
    BY <2>1, <1>1 DEF TypeOK, lifeVars
  <2>3. \A d \in Callers : call'[d].at = "prep" <=> d = c
    BY <2>1, <1>2 DEF TypeOK
  <2>4. call'[c].q = q /\ call'[c].s = session /\ session \in Ids
    BY <2>1, <1>4 DEF TypeOK
  <2>5. Locking'
    BY <2>1, <2>3, <2>4, <1>1 DEF Locking, TypeOK
  <2>6. PreparesOnce'
    BY <2>1, <2>3, <2>4, <1>1 DEF PreparesOnce, Cached
  <2> QED BY <2>2, <2>5, <2>6, <1>1, ScyllaAssumption
          DEF CacheBounded, Tasking, ReadyHasSession, lifeVars
<1> QED BY <1>3, <1>4

\* One statement more, and the lock is free again.
LEMMA PreparedFacts ==
    ASSUME CacheInv, NEW c \in Callers, Prepared(c)
    PROVE  CacheInv'
<1> USE DEF CacheInv
<1> DEFINE e == [q |-> call[c].q, s |-> call[c].s, torn |-> call[c].torn]
<1>1. /\ call[c].at = "prep" /\ prepared' = Append(prepared, e)
      /\ lock' = None /\ call' = [call EXCEPT ![c].at = "exec"]
      /\ UNCHANGED <<lifeVars, waiting>>
  BY DEF Prepared
<1>2. e \in Entry /\ e.q = call[c].q /\ prepared \in Seq(Entry) /\ Len(prepared) < MaxPrepared
  BY <1>1 DEF Entry, TypeOK, Locking
<1> HIDE DEF e
<1>3. /\ prepared' \in Seq(Entry) /\ Len(prepared') = Len(prepared) + 1
      /\ \A j \in 1..Len(prepared) : prepared'[j] = prepared[j]
      /\ prepared'[Len(prepared) + 1] = e
  BY <1>1, <1>2, AppendProperties
<1>4. /\ DOMAIN prepared = 1..Len(prepared) /\ Len(prepared) \in Nat
      /\ DOMAIN prepared' = 1..(Len(prepared) + 1)
  BY <1>2, <1>3, LenProperties
<1>5. lock = c /\ \A d \in Callers : call[d].at = "prep" => d = c
  BY <1>1 DEF Locking
<1>6. \A d \in Callers : call'[d].at # "prep"
  BY <1>1, <1>5 DEF TypeOK
<1>7. TypeOK'
  <2>1. call[c] \in CallRecord
    BY DEF TypeOK, CallRecord
  <2>2. [call[c] EXCEPT !.at = "exec"] \in CallRecord
    BY <2>1 DEF CallRecord
  <2>3. CallType'
    BY <1>1, <2>2, CallUpdate
  <2>4. lock' \in Callers \cup {None} /\ waiting' \in Seq(Callers) /\ UNCHANGED lifeVars
    BY <1>1 DEF TypeOK
  <2> QED BY <1>3, <2>3, <2>4, QueryTypes
<1>8. Locking'
  BY <1>1, <1>6, ScyllaAssumption DEF Locking, TypeOK
<1>9. PreparesOnce'
  <2>1. \A j \in DOMAIN prepared : prepared[j].q # e.q
    BY <1>1, <1>2 DEF PreparesOnce, Cached
  <2>2. ASSUME NEW j \in DOMAIN prepared', NEW k \in DOMAIN prepared', prepared'[j].q = prepared'[k].q
        PROVE  j = k
    <3>1. j \in DOMAIN prepared \/ j = Len(prepared) + 1
      BY <1>4
    <3>2. k \in DOMAIN prepared \/ k = Len(prepared) + 1
      BY <1>4
    <3> QED BY <3>1, <3>2, <2>1, <2>2, <1>3, <1>4 DEF PreparesOnce
  <2> QED BY <2>2, <1>6 DEF PreparesOnce
<1>10. CacheBounded'
  BY <1>2, <1>3, <1>4, ScyllaAssumption DEF CacheBounded
<1> QED BY <1>1, <1>7, <1>8, <1>9, <1>10 DEF Tasking, ReadyHasSession, lifeVars

\* Everything the manager does keeps the cache in order.
LEMMA CacheInvariant == Spec => []CacheInv
<1> USE DEF CacheInv
<1>1. Init => CacheInv
  <2> SUFFICES ASSUME Init PROVE CacheInv
    OBVIOUS
  <2>1. prepared \in Seq(Entry) /\ Len(prepared) = 0 /\ DOMAIN prepared = {}
    BY DEF Init
  <2>2. /\ \A c \in Callers : call[c] = NoCall
        /\ \A t \in Tasks : task[t] = NoTask
        /\ lock = None /\ session = None /\ ready = FALSE
    BY DEF Init
  <2>3. TypeOK
    <3>1. waiting \in Seq(Callers)
      BY DEF Init
    <3>2. /\ call \in [Callers -> [at : {"idle", "wait", "prep", "exec"}, q : Queries \cup {None},
                                  s : Ids \cup {None}, torn : BOOLEAN]]
          /\ task \in [Tasks -> [at : {"idle", "connecting", "closing"}, id : Ids \cup {None}]]
      BY DEF Init, NoCall, NoTask
    <3> QED BY <2>1, <3>1, <3>2 DEF Init, TypeOK
  <2>4. Locking /\ Tasking
    BY <2>2, ScyllaAssumption DEF NoCall, NoTask, Locking, Tasking
  <2> QED BY <2>1, <2>2, <2>3, <2>4, ScyllaAssumption DEF NoCall, CacheBounded, PreparesOnce,
             ReadyHasSession, Cached
<1>2. CacheInv /\ [Next]_vars => CacheInv'
  <2> SUFFICES ASSUME CacheInv, [Next]_vars PROVE CacheInv'
    OBVIOUS
  <2>1. ASSUME NEW c \in Callers, NEW q \in Queries, Call(c, q) PROVE CacheInv'
    <3>1. call[c].at # "prep" /\ UNCHANGED lifeVars
      BY <2>1 DEF Call
    <3>0. waiting' \in Seq(Callers)
      <4>1. waiting \in Seq(Callers) /\ Append(waiting, c) \in Seq(Callers)
        BY AppendProperties DEF TypeOK
      <4> QED BY <2>1, <4>1 DEF Call
    <3>2. CASE Use(c, q)
      BY <3>0, <3>1, <3>2, UseFacts
    <3>3. CASE lock = None /\ Prepare(c, q)
      BY <3>0, <3>1, <3>3, PrepareFacts
    <3>4. CASE /\ call[c].at = "idle"
               /\ call' = [call EXCEPT ![c] = [@ EXCEPT !.at = "wait", !.q = q]]
               /\ UNCHANGED <<prepared, lock>>
      <4>1. TypeOK'
        <5>1. call[c] \in CallRecord
          BY DEF TypeOK, CallRecord
        <5>2. [call[c] EXCEPT !.at = "wait", !.q = q] \in CallRecord
          BY <5>1 DEF CallRecord
        <5>3. CallType'
          BY <3>4, <5>2, CallUpdate
        <5>4. prepared' \in Seq(Entry) /\ lock' \in Callers \cup {None}
          BY <3>4 DEF TypeOK
        <5> QED BY <3>0, <3>1, <5>3, <5>4, QueryTypes
      <4>2. \A d \in Callers : d # c => call'[d] = call[d]
        BY <3>4 DEF TypeOK
      <4>3. call'[c].at = "wait" /\ call'[c].q = q
        BY <3>4 DEF TypeOK
      <4>4. Locking'
        BY <3>1, <3>4, <4>2, <4>3 DEF Locking
      <4> QED BY <3>1, <3>4, <4>1, <4>2, <4>3, <4>4
              DEF PreparesOnce, Cached, CacheBounded, Tasking, ReadyHasSession, lifeVars
    <3> QED BY <2>1, <3>2, <3>3, <3>4 DEF Call
  <2>2. ASSUME NEW c \in Callers, Enter(c) PROVE CacheInv'
    <3>1. call[c].at = "wait" /\ call[c].q \in Queries /\ lock = None /\ UNCHANGED lifeVars
      BY <2>2 DEF Enter, Locking
    <3>2. waiting' \in Seq(Callers)
      BY <2>2, HeadTailProperties DEF Enter, TypeOK
    <3> QED BY <2>2, <3>1, <3>2, UseFacts, PrepareFacts DEF Enter
  <2>3. ASSUME NEW c \in Callers, Prepared(c) PROVE CacheInv'
    BY <2>3, PreparedFacts
  <2>4. ASSUME NEW c \in Callers, Execute(c) \/ Break(c) PROVE CacheInv'
    <3>1. /\ call' = [call EXCEPT ![c] = NoCall]
          /\ lock' = IF lock = c THEN None ELSE lock
          /\ UNCHANGED <<lifeVars, prepared>>
      BY <2>4 DEF Execute, Break, Locking
    <3>0. waiting' \in Seq(Callers)
      <4>1. waiting \in Seq(Callers) /\ DOMAIN waiting = 1..Len(waiting)
        BY LenProperties DEF TypeOK
      <4>2. \A i \in DOMAIN waiting : RemoveAt(waiting, i) \in Seq(Callers)
        BY <4>1, RemoveAtFacts
      <4> QED BY <2>4, <4>1, <4>2 DEF Execute, Break
    <3>2. TypeOK'
      BY <3>0, <3>1 DEF TypeOK, lifeVars, NoCall
    <3>3. call'[c].at = "idle" /\ \A d \in Callers : d # c => call'[d] = call[d]
      BY <3>1 DEF TypeOK, NoCall
    <3>4. Locking'
      BY <3>1, <3>3, ScyllaAssumption DEF Locking
    <3> QED BY <3>1, <3>2, <3>3, <3>4
            DEF PreparesOnce, Cached, CacheBounded, Tasking, ReadyHasSession, lifeVars
  <2>5. ASSUME NEW t \in Tasks,
               \/ \E k \in Ids : Connect(t, k)
               \/ Connected(t) \/ Disconnect(t) \/ \E b \in BOOLEAN : ConnectFails(t, b)
        PROVE  CacheInv'
    <3>1. UNCHANGED queryVars
      BY <2>5 DEF Connect, Connected, Disconnect, ConnectFails
    <3> UNCHANGED <<prepared, lock, waiting, call>>
      BY <3>1 DEF queryVars
    <3> USE ScyllaAssumption DEF TypeOK, Tasking, ReadyHasSession, NoTask
    <3>2. TypeOK' /\ Tasking' /\ ReadyHasSession'
      <4>1. ASSUME NEW k \in Ids, Connect(t, k) PROVE TypeOK' /\ Tasking' /\ ReadyHasSession'
        <5>1. /\ task' = [task EXCEPT ![t] = [at |-> "connecting", id |-> k]]
              /\ created' = created \cup {k}
          BY <4>1 DEF Connect
        <5>2. task' \in [Tasks -> [at : {"idle", "connecting", "closing"}, id : Ids \cup {None}]]
          BY <5>1
        <5>3. Tasking'
          BY <5>1
        <5> QED BY <4>1, <5>2, <5>3 DEF Connect
      <4>2. CASE Connected(t)
        <5>1. /\ task[t].id \in created /\ created' = created
              /\ task' = [task EXCEPT ![t] = NoTask]
          BY <4>2 DEF Connected
        <5>2. task' \in [Tasks -> [at : {"idle", "connecting", "closing"}, id : Ids \cup {None}]]
          BY <5>1
        <5>3. Tasking'
          BY <5>1
        <5> QED BY <4>2, <5>1, <5>2, <5>3 DEF Connected
      <4>3. CASE Disconnect(t)
        BY <4>3 DEF Disconnect
      <4>4. CASE \E b \in BOOLEAN : ConnectFails(t, b)
        BY <4>4 DEF ConnectFails
      <4> QED BY <2>5, <4>1, <4>2, <4>3, <4>4
    <3> QED BY <3>1, <3>2 DEF queryVars, Locking, PreparesOnce, Cached, CacheBounded
  <2>6. ASSUME NEW t \in Tasks, NEW b \in BOOLEAN, Teardown(t, b) PROVE CacheInv'
    <3>1. /\ prepared' = <<>> /\ session' = None /\ ready' = FALSE /\ cluster' = None
          /\ call' = [d \in Callers |-> [call[d] EXCEPT !.torn = @ \/ call[d].at = "prep"]]
          /\ task' = [task EXCEPT ![t] = NoTask] /\ UNCHANGED <<lock, waiting, created, overlap>>
          /\ clusters' \subseteq clusters /\ open' \subseteq open /\ failed' \subseteq failed \cup {task[t].id}
          /\ task[t].id \in Ids
      BY <2>6 DEF Teardown, Tasking
    <3>2. prepared' \in Seq(Entry) /\ Len(prepared') = 0 /\ DOMAIN prepared' = {}
      BY <3>1
    <3>3. \A d \in Callers : /\ call'[d].at = call[d].at /\ call'[d].q = call[d].q
                             /\ call'[d].s = call[d].s
      BY <3>1 DEF TypeOK
    <3>4. TypeOK'
      <4>1. CallType'
        <5>1. ASSUME NEW d \in Callers
              PROVE  [call[d] EXCEPT !.torn = @ \/ call[d].at = "prep"] \in CallRecord
          <6>1. call[d] \in CallRecord
            BY DEF TypeOK, CallRecord
          <6> QED BY <6>1 DEF CallRecord
        <5> QED BY <3>1, <5>1 DEF CallType
      <4>2. task' \in [Tasks -> [at : {"idle", "connecting", "closing"}, id : Ids \cup {None}]]
        BY <3>1 DEF TypeOK, NoTask
      <4>3. /\ clusters' \subseteq created' /\ open' \subseteq created'
            /\ created' \subseteq Ids /\ failed' \subseteq Ids
        BY <3>1 DEF TypeOK
      <4>4. lock' \in Callers \cup {None} /\ waiting' \in Seq(Callers) /\ overlap' \in BOOLEAN
        BY <3>1 DEF TypeOK
      <4>5. cluster' \in Ids \cup {None} /\ session' \in Ids \cup {None} /\ ready' \in BOOLEAN
        BY <3>1
      <4> QED BY <3>2, <4>1, <4>2, <4>3, <4>4, <4>5 DEF TypeOK, CallType, CallRecord
    <3>5. Locking'
      BY <3>1, <3>2, <3>3, ScyllaAssumption DEF Locking
    <3>6. Tasking' /\ ReadyHasSession'
      BY <3>1 DEF Tasking, ReadyHasSession, TypeOK, NoTask
    <3> QED BY <3>1, <3>2, <3>4, <3>5, <3>6, ScyllaAssumption DEF PreparesOnce, Cached, CacheBounded
  <2>7. CASE UNCHANGED vars
    BY <2>7 DEF vars, queryVars, lifeVars, TypeOK, Locking, Tasking, PreparesOnce, Cached,
       CacheBounded, ReadyHasSession
  <2> QED BY <2>1, <2>2, <2>3, <2>4, <2>5, <2>6, <2>7 DEF Next, Step
<1> QED BY <1>1, <1>2, PTL DEF Spec

\* Every variable keeps its type.
THEOREM TypeCorrect == Spec => []TypeOK
BY CacheInvariant, PTL DEF CacheInv

\* The cache is bounded, however queries, connects and disconnects overlap.
THEOREM CacheKept == Spec => []CacheBounded
BY CacheInvariant, PTL DEF CacheInv

\* It prepares no statement that it has, and no two callers prepare at once.
THEOREM PreparedOnce == Spec => []PreparesOnce
BY CacheInvariant, PTL DEF CacheInv

\* A manager that is ready has a session to execute on.
THEOREM ReadyServed == Spec => []ReadyHasSession
BY CacheInvariant, PTL DEF CacheInv
-----------------------------------------------------------------------------
\* What holds of one connect or disconnect after the other: the one under way
\* works on the cluster and the session the manager has, a cluster left behind
\* is that of a failed connect, and what is being prepared belongs to the
\* session in use unless a teardown ran meanwhile.
Sequential ==
    /\ \A t, u \in Tasks : task[t].at # "idle" /\ task[u].at # "idle" => t = u
    /\ \A t \in Tasks : task[t].at = "connecting" => ~ready /\ cluster = task[t].id
    /\ \A t \in Tasks : task[t].at = "closing" => ready /\ session = task[t].id
    /\ ~ready => \/ cluster \in failed \cup {None}
                  \/ \E t \in Tasks : task[t].at = "connecting"
    /\ \A c \in Callers : call[c].at = "prep" => call[c].s = session \/ call[c].torn
    /\ \A i \in DOMAIN prepared : prepared[i].s = session \/ prepared[i].torn
    /\ clusters \subseteq failed \cup {cluster}
    /\ open \subseteq failed \cup {session}

\* The steps of a query leave the connects alone.
LEMMA SequentialQuery ==
    ASSUME CacheInv, ~overlap => Sequential, UNCHANGED lifeVars,
           \A c \in Callers : call'[c].at = "prep" =>
               call'[c].s = session \/ (call[c].at = "prep" /\ call'[c] = call[c]),
           \A i \in DOMAIN prepared' :
               \/ \E j \in DOMAIN prepared : prepared'[i] = prepared[j]
               \/ \E c \in Callers : /\ call[c].at = "prep" /\ prepared'[i].s = call[c].s
                                    /\ prepared'[i].torn = call[c].torn
    PROVE  ~overlap' => Sequential'
BY DEF lifeVars, Sequential

\* Clusters, sessions and statements: what outlives its session, and what is
\* never destroyed or closed, comes from a failure or from a teardown during a
\* preparation, as long as connects and disconnects do not overlap.
LEMMA LifeSafety == Spec => [](StaleExplained /\ LeaksExplained)
<1>1. Init => (~overlap => Sequential)
  <2> SUFFICES ASSUME Init PROVE Sequential
    OBVIOUS
  <2>1. DOMAIN prepared = {}
    BY DEF Init
  <2> QED BY <2>1 DEF Init, Sequential, NoTask, NoCall
<1>2. CacheInv /\ (~overlap => Sequential) /\ [Next]_vars => (~overlap' => Sequential')
  <2> SUFFICES ASSUME CacheInv, ~overlap => Sequential, [Next]_vars
               PROVE  ~overlap' => Sequential'
    OBVIOUS
  <2> USE DEF CacheInv
  <2>0. prepared \in Seq(Entry) /\ DOMAIN prepared = 1..Len(prepared) /\ Len(prepared) \in Nat
    BY LenProperties DEF TypeOK
  <2> DEFINE Kept == \A i \in DOMAIN prepared' : \E j \in DOMAIN prepared : prepared'[i] = prepared[j]
  <2>1. ASSUME NEW c \in Callers, NEW q \in Queries, Use(c, q)
        PROVE  Kept /\ call'[c].at = "exec" /\ \A d \in Callers : d # c => call'[d] = call[d]
    <3>1. PICK i \in DOMAIN prepared :
            /\ prepared' = MoveToEnd(i)
            /\ call' = [call EXCEPT ![c] = [@ EXCEPT !.at = "exec", !.q = q]]
      BY <2>1 DEF Use
    <3>2. /\ prepared' \in Seq(Entry) /\ Len(prepared') = Len(prepared)
          /\ \A j \in DOMAIN prepared : prepared'[j] =
               IF j < i THEN prepared[j] ELSE IF j < Len(prepared) THEN prepared[j + 1] ELSE prepared[i]
      BY <3>1, <2>0, MoveToEndFacts
    <3>3. DOMAIN prepared' = DOMAIN prepared
      BY <3>2, <2>0, LenProperties
    <3>4. Kept
      BY <3>2, <3>3, <2>0
    <3> QED BY <3>1, <3>4 DEF TypeOK
  <2>2. ASSUME NEW c \in Callers, NEW q \in Queries, Prepare(c, q)
        PROVE  /\ Kept
               /\ call'[c].at = "prep" => call'[c].s = session
               /\ \A d \in Callers : d # c => call'[d] = call[d]
    <3>1. Kept
      <4>1. CASE Len(prepared) >= MaxPrepared
        <5>1. prepared # <<>> /\ prepared' = Tail(prepared)
          BY <2>2, <4>1, <2>0, ScyllaAssumption DEF Prepare
        <5>2. /\ prepared' \in Seq(Entry) /\ Len(prepared') = Len(prepared) - 1
              /\ \A j \in 1..(Len(prepared) - 1) : prepared'[j] = prepared[j + 1]
          BY <5>1, <2>0, HeadTailProperties
        <5>3. DOMAIN prepared' = 1..(Len(prepared) - 1)
          BY <5>2, LenProperties
        <5> QED BY <5>2, <5>3, <2>0
      <4>2. CASE ~(Len(prepared) >= MaxPrepared)
        BY <2>2, <4>2 DEF Prepare
      <4> QED BY <4>1, <4>2
    <3> QED BY <2>2, <3>1 DEF Prepare, TypeOK, NoCall
  <2>3. ASSUME NEW c \in Callers, NEW q \in Queries, Call(c, q) PROVE ~overlap' => Sequential'
    <3>1. UNCHANGED lifeVars
      BY <2>3 DEF Call
    <3>2. CASE Use(c, q)
      BY <3>1, <3>2, <2>1, SequentialQuery
    <3>3. CASE Prepare(c, q)
      BY <3>1, <3>3, <2>2, SequentialQuery
    <3>4. CASE /\ call' = [call EXCEPT ![c] = [@ EXCEPT !.at = "wait", !.q = q]]
               /\ UNCHANGED <<prepared, lock>>
      <4>1. call'[c].at = "wait" /\ \A d \in Callers : d # c => call'[d] = call[d]
        BY <3>4 DEF TypeOK
      <4> QED BY <3>1, <3>4, <4>1, SequentialQuery
    <3> HIDE DEF Kept
    <3> QED BY <2>3, <3>2, <3>3, <3>4 DEF Call
  <2>4. ASSUME NEW c \in Callers, Enter(c) PROVE ~overlap' => Sequential'
    <3>1. UNCHANGED lifeVars /\ call[c].q \in Queries
      BY <2>4 DEF Enter, Locking
    <3>2. CASE Use(c, call[c].q)
      BY <3>1, <3>2, <2>1, SequentialQuery
    <3>3. CASE Prepare(c, call[c].q)
      BY <3>1, <3>3, <2>2, SequentialQuery
    <3> QED BY <2>4, <3>2, <3>3 DEF Enter
  <2>5. ASSUME NEW c \in Callers, Prepared(c) PROVE ~overlap' => Sequential'
    <3> DEFINE e == [q |-> call[c].q, s |-> call[c].s, torn |-> call[c].torn]
    <3>1. /\ call[c].at = "prep" /\ prepared' = Append(prepared, e)
          /\ call' = [call EXCEPT ![c].at = "exec"] /\ UNCHANGED lifeVars
      BY <2>5 DEF Prepared
    <3>2. e \in Entry /\ e.s = call[c].s /\ e.torn = call[c].torn
      BY <3>1 DEF Entry, TypeOK, Locking
    <3> HIDE DEF e
    <3>3. /\ prepared' \in Seq(Entry) /\ Len(prepared') = Len(prepared) + 1
          /\ \A j \in 1..Len(prepared) : prepared'[j] = prepared[j]
          /\ prepared'[Len(prepared) + 1] = e
      BY <3>1, <3>2, <2>0, AppendProperties
    <3>4. \A i \in DOMAIN prepared' : i \in DOMAIN prepared \/ prepared'[i] = e
      BY <3>3, <2>0, LenProperties
    <3>5. call'[c].at = "exec" /\ \A d \in Callers : d # c => call'[d] = call[d]
      BY <3>1 DEF TypeOK
    <3> QED BY <3>1, <3>2, <3>3, <3>4, <3>5, <2>0, SequentialQuery
  <2>6. ASSUME NEW c \in Callers, Execute(c) \/ Break(c) PROVE ~overlap' => Sequential'
    <3>1. call' = [call EXCEPT ![c] = NoCall] /\ UNCHANGED <<lifeVars, prepared>>
      BY <2>6 DEF Execute, Break
    <3>2. call'[c].at = "idle" /\ \A d \in Callers : d # c => call'[d] = call[d]
      BY <3>1 DEF TypeOK, NoCall
    <3> QED BY <3>1, <3>2, SequentialQuery
  <2>7. ASSUME NEW t \in Tasks, NEW k \in Ids, Connect(t, k) PROVE ~overlap' => Sequential'
    <3> SUFFICES ASSUME ~overlap' PROVE Sequential'
      OBVIOUS
    <3>1. /\ ~overlap /\ ~ready /\ UNCHANGED <<prepared, call, session, ready, open, failed>>
          /\ cluster' = k /\ clusters' = clusters \cup {k}
          /\ task' = [task EXCEPT ![t] = [at |-> "connecting", id |-> k]]
          /\ \A u \in Tasks : task[u].at = "idle"
      BY <2>7 DEF Connect, Busy, queryVars
    <3>2. task'[t] = [at |-> "connecting", id |-> k] /\ \A u \in Tasks : u # t => task'[u].at = "idle"
      BY <3>1 DEF TypeOK
    <3>3. clusters \subseteq failed \cup {None} \cup {cluster} /\ cluster \in failed \cup {None}
      BY <3>1 DEF Sequential
    <3>4. None \notin clusters
      BY ScyllaAssumption DEF TypeOK
    <3> QED BY <3>1, <3>2, <3>3, <3>4 DEF Sequential
  <2>8. ASSUME NEW t \in Tasks, Connected(t) PROVE ~overlap' => Sequential'
    <3> SUFFICES ASSUME ~overlap PROVE Sequential'
      BY <2>8 DEF Connected
    <3>1. session = None /\ cluster = task[t].id
      BY <2>8 DEF Connected, Sequential, ReadyHasSession
    <3>2. \A i \in DOMAIN prepared : prepared[i].torn
      <4>1. \A i \in DOMAIN prepared : prepared[i] \in Entry
        BY <2>0, ElementOfSeq
      <4>2. \A i \in DOMAIN prepared : prepared[i].s # None
        BY <4>1, ScyllaAssumption DEF Entry
      <4> QED BY <3>1, <4>2 DEF Sequential
    <3>3. \A c \in Callers : call[c].at = "prep" => call[c].torn
      BY <3>1, ScyllaAssumption DEF Sequential, Locking
    <3>4. task' = [task EXCEPT ![t] = NoTask] /\ \A u \in Tasks : task'[u].at = "idle"
      BY <2>8 DEF Connected, Sequential, TypeOK, NoTask
    <3>5. /\ session' = task[t].id /\ ready' /\ open' = open \cup {session'}
          /\ UNCHANGED <<prepared, call, cluster, clusters, failed>>
      BY <2>8 DEF Connected, queryVars
    <3>6. None \notin open
      BY ScyllaAssumption DEF TypeOK
    <3> QED BY <3>1, <3>2, <3>3, <3>4, <3>5, <3>6 DEF Sequential
  <2>9. ASSUME NEW t \in Tasks, NEW b \in BOOLEAN, ConnectFails(t, b) PROVE ~overlap' => Sequential'
    <3> SUFFICES ASSUME ~overlap PROVE Sequential'
      BY <2>9 DEF ConnectFails
    <3>1. ~ready /\ cluster = task[t].id
      BY <2>9 DEF ConnectFails, Sequential
    <3>2. \A u \in Tasks : task'[u].at = "idle"
      BY <2>9, <3>1 DEF ConnectFails, Sequential, TypeOK, NoTask
    <3> QED BY <2>9, <3>1, <3>2 DEF ConnectFails, Sequential, queryVars
  <2>10. ASSUME NEW t \in Tasks, Disconnect(t) PROVE ~overlap' => Sequential'
    <3> SUFFICES ASSUME ~overlap' PROVE Sequential'
      OBVIOUS
    <3>1. Sequential /\ ready /\ (\A u \in Tasks : task[u].at = "idle")
      BY <2>10 DEF Disconnect, Busy
    <3>2. /\ task' = [task EXCEPT ![t] = [at |-> "closing", id |-> session]]
          /\ UNCHANGED <<cluster, session, ready, prepared, call, clusters, open, failed>>
      BY <2>10 DEF Disconnect, queryVars
    <3>3. task'[t] = [at |-> "closing", id |-> session] /\ \A u \in Tasks \ {t} : task'[u] = task[u]
      BY <3>2 DEF TypeOK
    <3> QED BY <3>1, <3>2, <3>3 DEF Sequential
  <2>11. ASSUME NEW t \in Tasks, NEW b \in BOOLEAN, Teardown(t, b) PROVE ~overlap' => Sequential'
    <3> SUFFICES ASSUME ~overlap PROVE Sequential'
      BY <2>11 DEF Teardown
    <3>1. session = task[t].id
      BY <2>11 DEF Teardown, Sequential
    <3>2. \A u \in Tasks : task'[u].at = "idle"
      BY <2>11 DEF Teardown, Sequential, TypeOK, NoTask
    <3>3. \A c \in Callers : call'[c].at = "prep" => call'[c].torn
      BY <2>11 DEF Teardown, TypeOK
    <3>4. DOMAIN prepared' = {} /\ cluster' = None
      BY <2>11 DEF Teardown
    <3> QED BY <2>11, <3>1, <3>2, <3>3, <3>4 DEF Teardown, Sequential
  <2>12. CASE UNCHANGED vars
    BY <2>12 DEF vars, queryVars, lifeVars, Sequential
  <2> QED BY <2>3, <2>4, <2>5, <2>6, <2>7, <2>8, <2>9, <2>10, <2>11, <2>12 DEF Next, Step
<1>3. (~overlap => Sequential) => StaleExplained /\ LeaksExplained
  BY DEF Sequential, StaleExplained, LeaksExplained
<1> QED BY <1>1, <1>2, <1>3, CacheInvariant, PTL DEF Spec

\* A statement of a session that is gone was being prepared when the session
\* was torn down, or connects and disconnects overlapped.
THEOREM StaleKnown == Spec => []StaleExplained
BY LifeSafety, PTL

\* A cluster or session nobody will close is one whose connect or close failed,
\* or connects and disconnects overlapped.
THEOREM LeaksKnown == Spec => []LeaksExplained
BY LifeSafety, PTL
-----------------------------------------------------------------------------
\* Who waits is in the queue, once.
Queued ==
    /\ \A c \in Callers : call[c].at = "wait" <=> \E i \in DOMAIN waiting : waiting[i] = c
    /\ \A i, j \in DOMAIN waiting : waiting[i] = waiting[j] => i = j

\* Nobody joins the queue or leaves it.
LEMMA QueueKept ==
    ASSUME Queued, UNCHANGED waiting,
           \A c \in Callers : call'[c].at = "wait" <=> call[c].at = "wait"
    PROVE  Queued'
BY DEF Queued

\* The i-th leaves the queue, and waits no longer.
LEMMA QueueLeft ==
    ASSUME Queued, NEW c \in Callers, NEW i \in DOMAIN waiting, waiting[i] = c,
           waiting \in Seq(Callers), waiting' \in Seq(Callers), Len(waiting') = Len(waiting) - 1,
           \A j \in 1..(Len(waiting) - 1) :
               waiting'[j] = IF j < i THEN waiting[j] ELSE waiting[j + 1],
           call'[c].at # "wait", \A d \in Callers : d # c => call'[d] = call[d]
    PROVE  Queued'
<1> DEFINE was(j) == IF j < i THEN j ELSE j + 1
           now(j) == IF j < i THEN j ELSE j - 1
<1>1. /\ DOMAIN waiting = 1..Len(waiting) /\ Len(waiting) \in Nat
      /\ DOMAIN waiting' = 1..(Len(waiting) - 1)
  BY LenProperties
<1>2. \A j \in DOMAIN waiting' : was(j) \in DOMAIN waiting /\ was(j) # i /\ waiting'[j] = waiting[was(j)]
  BY <1>1
<1>3. \A j, k \in DOMAIN waiting' : was(j) = was(k) => j = k
  BY <1>1
<1>4. \A j \in DOMAIN waiting : j # i => now(j) \in DOMAIN waiting' /\ was(now(j)) = j
  BY <1>1
<1> HIDE DEF was, now
<1>5. \A j \in DOMAIN waiting' : waiting'[j] # c
  BY <1>2 DEF Queued
<1>6. ASSUME NEW d \in Callers, d # c
      PROVE  (\E j \in DOMAIN waiting : waiting[j] = d) <=> (\E j \in DOMAIN waiting' : waiting'[j] = d)
  <2>1. ASSUME NEW j \in DOMAIN waiting, waiting[j] = d
        PROVE  now(j) \in DOMAIN waiting' /\ waiting'[now(j)] = d
    <3>1. j # i
      BY <1>6, <2>1
    <3> QED BY <2>1, <3>1, <1>2, <1>4
  <2>2. ASSUME NEW j \in DOMAIN waiting', waiting'[j] = d
        PROVE  was(j) \in DOMAIN waiting /\ waiting[was(j)] = d
    BY <2>2, <1>2
  <2> QED BY <2>1, <2>2
<1>7. \A d \in Callers : call'[d].at = "wait" <=> \E j \in DOMAIN waiting' : waiting'[j] = d
  BY <1>5, <1>6 DEF Queued
<1>8. \A j, k \in DOMAIN waiting' : waiting'[j] = waiting'[k] => j = k
  BY <1>2, <1>3 DEF Queued
<1> QED BY <1>7, <1>8 DEF Queued

\* One that does not wait yet joins the queue at its end.
LEMMA QueueJoined ==
    ASSUME Queued, NEW c \in Callers, waiting \in Seq(Callers), call[c].at # "wait",
           waiting' = Append(waiting, c),
           call'[c].at = "wait", \A d \in Callers : d # c => call'[d] = call[d]
    PROVE  Queued'
<1>1. /\ waiting' \in Seq(Callers) /\ Len(waiting') = Len(waiting) + 1
      /\ \A j \in 1..Len(waiting) : waiting'[j] = waiting[j]
      /\ waiting'[Len(waiting) + 1] = c
  BY AppendProperties
<1>2. /\ DOMAIN waiting = 1..Len(waiting) /\ Len(waiting) \in Nat
      /\ DOMAIN waiting' = 1..(Len(waiting) + 1)
  BY <1>1, LenProperties
<1>3. \A j \in DOMAIN waiting' : j \in DOMAIN waiting \/ j = Len(waiting) + 1
  BY <1>2
<1>4. DOMAIN waiting \subseteq DOMAIN waiting' /\ Len(waiting) + 1 \in DOMAIN waiting'
  BY <1>2
<1>5. \A j \in DOMAIN waiting : waiting[j] # c
  BY DEF Queued
<1>6. \A d \in Callers : call'[d].at = "wait" <=> \E j \in DOMAIN waiting' : waiting'[j] = d
  <2> SUFFICES ASSUME NEW d \in Callers
               PROVE  call'[d].at = "wait" <=> \E j \in DOMAIN waiting' : waiting'[j] = d
    OBVIOUS
  <2>1. CASE d = c
    BY <2>1, <1>1, <1>4
  <2>2. CASE d # c
    <3>1. call'[d] = call[d]
      BY <2>2
    <3>2. (\E j \in DOMAIN waiting : waiting[j] = d) <=> (\E j \in DOMAIN waiting' : waiting'[j] = d)
      BY <2>2, <1>1, <1>2, <1>3, <1>4
    <3> QED BY <3>1, <3>2 DEF Queued
  <2> QED BY <2>1, <2>2
<1>7. \A j, k \in DOMAIN waiting' : waiting'[j] = waiting'[k] => j = k
  BY <1>1, <1>2, <1>3, <1>5 DEF Queued
<1> QED BY <1>6, <1>7 DEF Queued

\* Who enters, or gives up, leaves the queue.
LEMMA QueueInvariant == Spec => []Queued
<1>1. Init => Queued
  <2> SUFFICES ASSUME Init PROVE Queued
    OBVIOUS
  <2>1. DOMAIN waiting = {} /\ \A c \in Callers : call[c].at = "idle"
    BY DEF Init, NoCall
  <2> QED BY <2>1 DEF Queued
<1>2. CacheInv /\ Queued /\ [Next]_vars => Queued'
  <2> SUFFICES ASSUME CacheInv, Queued, [Next]_vars PROVE Queued'
    OBVIOUS
  <2>0. /\ waiting \in Seq(Callers) /\ DOMAIN waiting = 1..Len(waiting) /\ Len(waiting) \in Nat
        /\ CallType
    BY LenProperties DEF CacheInv, TypeOK, CallType, CallRecord
  <2>1. ASSUME NEW c \in Callers, NEW q, Use(c, q) \/ Prepare(c, q)
        PROVE  call'[c].at # "wait" /\ \A d \in Callers : d # c => call'[d] = call[d]
    <3>1. CASE Use(c, q)
      BY <3>1, <2>0 DEF Use, CallType, CallRecord
    <3>2. CASE Prepare(c, q)
      BY <3>2, <2>0 DEF Prepare, CallType, CallRecord, NoCall
    <3> QED BY <2>1, <3>1, <3>2
  <2>2. ASSUME NEW c \in Callers, NEW q \in Queries, Call(c, q) PROVE Queued'
    <3>1. call[c].at = "idle"
      BY <2>2 DEF Call
    <3>2. CASE (Use(c, q) \/ Prepare(c, q)) /\ UNCHANGED waiting
      BY <3>1, <3>2, <2>1, QueueKept
    <3>3. CASE /\ waiting' = Append(waiting, c)
               /\ call' = [call EXCEPT ![c] = [@ EXCEPT !.at = "wait", !.q = q]]
      <4>1. call'[c].at = "wait" /\ \A d \in Callers : d # c => call'[d] = call[d]
        BY <3>3, <2>0 DEF CallType, CallRecord
      <4> QED BY <3>1, <3>3, <4>1, <2>0, QueueJoined
    <3> QED BY <2>2, <3>2, <3>3 DEF Call
  <2>3. ASSUME NEW c \in Callers, Enter(c) PROVE Queued'
    <3>1. /\ waiting # <<>> /\ Head(waiting) = c /\ waiting' = Tail(waiting)
          /\ Use(c, call[c].q) \/ Prepare(c, call[c].q)
      BY <2>3 DEF Enter
    <3>2. /\ waiting' \in Seq(Callers) /\ Len(waiting') = Len(waiting) - 1
          /\ \A j \in 1..(Len(waiting) - 1) : waiting'[j] = waiting[j + 1]
      BY <3>1, <2>0, HeadTailProperties
    <3>3. 1 \in DOMAIN waiting /\ waiting[1] = c
      BY <3>1, <2>0, EmptySeq
    <3>4. \A j \in 1..(Len(waiting) - 1) : waiting'[j] = IF j < 1 THEN waiting[j] ELSE waiting[j + 1]
      BY <3>2, <2>0
    <3> QED BY <3>1, <3>2, <3>3, <3>4, <2>0, <2>1, QueueLeft
  <2>4. ASSUME NEW c \in Callers, Prepared(c) PROVE Queued'
    BY <2>4, <2>0, QueueKept DEF Prepared, CallType, CallRecord
  <2>5. ASSUME NEW c \in Callers, Execute(c) PROVE Queued'
    BY <2>5, <2>0, QueueKept DEF Execute, CallType, CallRecord, NoCall
  <2>6. ASSUME NEW c \in Callers, Break(c) PROVE Queued'
    <3>1. call'[c].at = "idle" /\ \A d \in Callers : d # c => call'[d] = call[d]
      BY <2>6, <2>0 DEF Break, CallType, NoCall
    <3>2. CASE call[c].at # "wait" /\ UNCHANGED waiting
      BY <3>1, <3>2, QueueKept
    <3>3. ASSUME NEW i \in DOMAIN waiting, waiting[i] = c, waiting' = RemoveAt(waiting, i)
          PROVE  Queued'
      <4>1. /\ waiting' \in Seq(Callers) /\ Len(waiting') = Len(waiting) - 1
            /\ \A j \in 1..(Len(waiting) - 1) :
                  waiting'[j] = IF j < i THEN waiting[j] ELSE waiting[j + 1]
        BY <3>3, <2>0, RemoveAtFacts
      <4> QED BY <3>1, <3>3, <4>1, <2>0, QueueLeft
    <3> QED BY <2>6, <3>2, <3>3 DEF Break
  <2>7. ASSUME UNCHANGED queryVars PROVE Queued'
    BY <2>7, QueueKept DEF queryVars
  <2>8. ASSUME NEW t \in Tasks, NEW b \in BOOLEAN, Teardown(t, b) PROVE Queued'
    BY <2>8, <2>0, QueueKept DEF Teardown, CallType, CallRecord
  <2>9. CASE \E t \in Tasks : \/ Connected(t) \/ Disconnect(t)
                              \/ \E k \in Ids : Connect(t, k)
                              \/ \E b \in BOOLEAN : ConnectFails(t, b)
    BY <2>9, <2>7 DEF Connected, Disconnect, Connect, ConnectFails
  <2>10. CASE UNCHANGED vars
    BY <2>10, <2>7 DEF vars
  <2> QED BY <2>2, <2>3, <2>4, <2>5, <2>6, <2>8, <2>9, <2>10 DEF Next, Step
<1> QED BY <1>1, <1>2, CacheInvariant, PTL DEF Spec

\* Nobody leaves with the lock, and who waits for it is in its queue, once.
THEOREM LockKept == Spec => []LockServed
<1>1. CacheInv /\ Queued => LockServed
  BY DEF CacheInv, TypeOK, Locking, Queued, LockServed
<1> QED BY <1>1, CacheInvariant, QueueInvariant, PTL
=============================================================================
