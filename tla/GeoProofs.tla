----------------------------- MODULE GeoProofs -----------------------------
(* The worker's table, matrix and flag, for any satellites and catalogues. *)
EXTENDS Geo, WellFoundedInduction, TLAPS

\* A satellite gets its id with its first good elements; until some are good
\* and the flag is down, nothing that the table has is missing in the matrix.
IInv ==
    /\ TypeOK
    /\ NothingMissed
    /\ ~poisoned => Ready \subseteq named
    /\ \A s \in Sats : rec[s] \in Elements => s \in named
    /\ DeathExplained
-----------------------------------------------------------------------------
(* What update_or_create leaves of a catalogue. *)

\* A set of positions that is not empty has a last one.
LEMMA LastPosition ==
    ASSUME NEW n \in Nat, NEW I \in SUBSET (1..n), I # {}
    PROVE  \E i \in I : \A j \in I : j <= i
<1> DEFINE T == {k \in 0..n : n - k \in I}
<1>1. T \subseteq Nat
  OBVIOUS
<1>2. \A i \in I : i \in Int /\ n - i \in T
  OBVIOUS
<1>3. T # {}
  BY <1>2
<1>4. PICK m \in T : \A k \in T : <<k, m>> \notin OpToRel(<, Nat)
  <2> HIDE DEF T
  <2> QED BY <1>1, <1>3, NatLessThanWellFounded, WFMin
<1>5. \A k \in T : ~(k < m)
  BY <1>1, <1>4 DEF OpToRel
<1>6. n - m \in I /\ m \in Nat
  OBVIOUS
<1>7. ASSUME NEW j \in I PROVE j <= n - m
  <2>1. j \in Int /\ n - j \in Nat /\ ~(n - j < m)
    <3> HIDE DEF T
    <3> QED BY <1>1, <1>2, <1>5
  <2> HIDE DEF T
  <2> QED BY <2>1, <1>6
<1> QED BY <1>6, <1>7

\* The elements of a satellite after an update are good or bad ones that the
\* catalogue has for it, or those it had before if the catalogue has none.
LEMMA ParsedFrom ==
    ASSUME NEW c \in Catalogues, NEW s \in Sats
    PROVE  \/ Triples(c, s, Elements \cup {"bad"}) = {} /\ Parsed(c, s) = rec[s]
           \/ \E i \in Triples(c, s, Elements \cup {"bad"}) : Parsed(c, s) = c[i].el
<1> DEFINE I == Triples(c, s, Elements \cup {"bad"})
           Last(i) == \A j \in I : j <= i
<1>1. I \in SUBSET (1..Len(c)) /\ Len(c) \in Nat
  BY GeoAssumption DEF Triples
<1>2. CASE I = {}
  BY <1>2 DEF Parsed
<1>3. CASE I # {}
  <2>1. \E i \in I : Last(i)
    <3> HIDE DEF I
    <3> QED BY <1>1, <1>3, LastPosition
  <2>2. (CHOOSE i \in I : Last(i)) \in I
    <3> HIDE DEF I, Last
    <3> QED BY <2>1
  <2>3. Parsed(c, s) = c[CHOOSE i \in I : Last(i)].el
    BY <1>3 DEF Parsed
  <2> QED BY <2>2, <2>3
<1> QED BY <1>2, <1>3

\* In particular: they are good only if the satellite gets its id by the same
\* update, or were so before; and a satellite that has elements keeps some.
LEMMA ParsedKind ==
    ASSUME NEW c \in Catalogues, NEW s \in Sats, TypeOK
    PROVE  /\ Parsed(c, s) \in Elements \cup {"none", "bad"}
           /\ Parsed(c, s) \in Elements => s \in Good(c) \/ Parsed(c, s) = rec[s]
           /\ Parsed(c, s) = "none" => rec[s] = "none" /\ s \notin Good(c)
           /\ Parsed(c, s) \in {rec[s], "bad"} \/ s \in Good(c)
<1>1. \A i \in Triples(c, s, Elements \cup {"bad"}) :
        /\ c[i].el \in Elements \cup {"bad"}
        /\ c[i].el \in Elements => s \in Good(c)
  BY DEF Triples, Good
<1>2. s \in Good(c) => Triples(c, s, Elements \cup {"bad"}) # {}
  BY DEF Triples, Good
<1>3. rec[s] \in Elements \cup {"none", "bad"}
  BY DEF TypeOK
<1> QED BY <1>1, <1>2, <1>3, ParsedFrom, GeoAssumption
-----------------------------------------------------------------------------
LEMMA InitInv == Init => IInv
BY GeoAssumption DEF Init, IInv, TypeOK, NothingMissed, DeathExplained, Ready, In

LEMMA UpdateInv ==
    ASSUME IInv, NEW c \in Catalogues, Update(c)
    PROVE  IInv'
<1>1. /\ phase' = phase /\ ticker' = ticker /\ array' = array /\ idMap' = idMap
      /\ named' = named \cup Good(c) /\ needs' = (needs \/ Good(c) # {})
      /\ \A s \in Sats : rec'[s] = Parsed(c, s)
      /\ poisoned' = (poisoned \/ \E s \in Sats \ named' : rec'[s] = "bad")
  BY DEF Update
<1>2. \A s \in Sats :
        /\ rec'[s] \in Elements \cup {"none", "bad"}
        /\ rec'[s] \in Elements => s \in Good(c) \/ rec'[s] = rec[s]
        /\ rec'[s] = "none" => rec[s] = "none" /\ s \notin Good(c)
        /\ rec'[s] \in {rec[s], "bad"} \/ s \in Good(c)
  BY <1>1, ParsedKind DEF IInv
<1>3. rec' \in [Sats -> Elements \cup {"none", "bad"}]
  BY <1>2 DEF Update
<1>4. Good(c) \subseteq Sats
  BY DEF Good
<1>5. Ready \subseteq Ready' /\ Good(c) \subseteq Ready'
  BY <1>2, <1>4 DEF Ready, In
<1>6. TypeOK'
  BY <1>1, <1>3, <1>5 DEF IInv, TypeOK, Ready, In
<1>7. NothingMissed'
  BY <1>1, <1>2 DEF IInv, NothingMissed
<1>8. (~poisoned => Ready \subseteq named)'
  BY <1>1, <1>2, <1>3, GeoAssumption DEF IInv, Ready, In
<1>9. (\A s \in Sats : rec[s] \in Elements => s \in named)'
  BY <1>1, <1>2 DEF IInv
<1> QED BY <1>1, <1>6, <1>7, <1>8, <1>9 DEF IInv, DeathExplained

LEMMA TickInv ==
    ASSUME IInv, Tick
    PROVE  IInv'
<1> DEFINE rebuild == needs /\ Ready # {}
           broken == rebuild /\ ~(Ready \subseteq named)
<1>1. /\ phase = "running" /\ ticker = "due" /\ UNCHANGED <<phase, rec, named, poisoned>>
      /\ array' = IF rebuild THEN rec ELSE array
      /\ idMap' = IF rebuild /\ ~broken THEN Ready ELSE idMap
      /\ needs' = (needs /\ (broken \/ ~rebuild))
      /\ broken => ticker' = "dead"
      /\ ~broken => ticker' \in {"publishing", "sleeping"}
  BY DEF Tick
<1>2. Ready' = Ready /\ In(array') \subseteq Ready /\ Ready \subseteq Sats
  BY <1>1 DEF IInv, TypeOK, Ready, In
<1>3. TypeOK'
  BY <1>1, <1>2 DEF IInv, TypeOK, Ready, In
<1>4. NothingMissed'
  BY <1>1, GeoAssumption DEF IInv, NothingMissed, Ready, In
<1>5. DeathExplained'
  BY <1>1 DEF IInv, DeathExplained
<1> QED BY <1>1, <1>2, <1>3, <1>4, <1>5 DEF IInv

LEMMA NextInv == IInv /\ [Next]_vars => IInv'
<1> SUFFICES ASSUME IInv, [Next]_vars PROVE IInv'
  OBVIOUS
<1> USE DEF IInv, TypeOK, NothingMissed, DeathExplained, Ready, In
<1>1. CASE Start
  BY <1>1 DEF Start, table
<1>2. CASE Stop
  BY <1>2 DEF Stop, table
<1>3. CASE Wake
  BY <1>3 DEF Wake, table
<1>4. CASE Published
  BY <1>4 DEF Published, table
<1>5. CASE UNCHANGED vars
  BY <1>5 DEF vars, table
<1> QED BY <1>1, <1>2, <1>3, <1>4, <1>5, UpdateInv, TickInv DEF Next, Ticker

THEOREM Inductive == Spec => []IInv
BY InitInv, NextInv, PTL DEF Spec

\* The ticker task is one of the worker's, and ends with it or by itself; ids
\* and the matrix never name a satellite without elements.
THEOREM TypeCorrect == Spec => []TypeOK
<1>1. IInv => TypeOK
  BY DEF IInv
<1> QED BY <1>1, Inductive, PTL

\* The flag that update_tle raises and _rebuild_matrix lowers loses no update,
\* whatever the catalogues bring.
THEOREM UpdatesArrive == Spec => []NothingMissed
<1>1. IInv => NothingMissed
  BY DEF IInv
<1> QED BY <1>1, Inductive, PTL

\* The ticker ends by itself only after a satellite's first elements were bad.
THEOREM DeathsKnown == Spec => []DeathExplained
<1>1. IInv => DeathExplained
  BY DEF IInv
<1> QED BY <1>1, Inductive, PTL
=============================================================================
