-------------------------------- MODULE Geo --------------------------------
(***************************************************************************)
(* The geo worker (modules/geo): an hourly job brings the orbital elements *)
(* of the satellites, and a ticker of its own puts the positions of all of *)
(* them on a channel, many times a second.  The two share the table of     *)
(* satellites and a flag that says that it has changed.                    *)
(*                                                                         *)
(* The elements of a satellite are good (any of Elements), bad (the orbit  *)
(* model reports an error for them) or junk (they cannot be parsed); what  *)
(* is computed from them is left out.  The job reads a file of the code    *)
(* that stands for a download; here each update may bring new elements.    *)
(***************************************************************************)
EXTENDS Naturals, Sequences, FiniteSets

CONSTANTS
    Sats,
    Elements,    \* good orbital elements
    Catalogues   \* what an update may bring: sequences of [sat, el]

ASSUME GeoAssumption ==
    /\ Elements \cap {"none", "bad", "junk"} = {}
    /\ \A c \in Catalogues : c \in Seq([sat : Sats, el : Elements \cup {"bad", "junk"}])

VARIABLES
    phase,      \* of the worker
    ticker,     \* where the ticker task is
    rec,        \* satrec of each satellite
    named,      \* the satellites with a norad_id
    needs,      \* _needs_rebuild
    array,      \* _satrec_array: the elements of each satellite in it
    idMap,      \* the satellites in _id_map, in the same order
    \* history
    poisoned    \* the first elements of some satellite were bad

table == <<rec, named, needs, poisoned>>
vars == <<phase, ticker, table, array, idMap>>

Triples(c, s, els) == {i \in DOMAIN c : c[i].sat = s /\ c[i].el \in els}

\* update_or_create on one triple after the other: the last elements that
\* could be parsed stay, and any good ones give the satellite its id.
Parsed(c, s) == LET is == Triples(c, s, Elements \cup {"bad"}) IN
    IF is = {} THEN rec[s] ELSE c[CHOOSE i \in is : \A j \in is : j <= i].el
Good(c) == {s \in Sats : Triples(c, s, Elements) # {}}

In(f) == {s \in Sats : f[s] # "none"}
Ready == In(rec)
-----------------------------------------------------------------------------
Init ==
    /\ phase = "new" /\ ticker = "none"
    /\ rec = [s \in Sats |-> "none"] /\ named = {} /\ needs = FALSE
    /\ array = [s \in Sats |-> "none"] /\ idMap = {}
    /\ poisoned = FALSE

\* Slips: what a plausible mistake would make of an action.  No specification
\* uses them.  Every update starts from new satellites;
UpdateAnew(c) ==
    /\ phase = "running"
    /\ rec' = [s \in Sats |-> Parsed(c, s)]
    /\ named' = Good(c) \cup {s \in named : \A i \in DOMAIN c : c[i].sat # s}
    /\ needs' = (needs \/ Good(c) # {})
    /\ poisoned' = (poisoned \/ \E s \in Sats \ (named \cup Good(c)) : rec'[s] = "bad")
    /\ UNCHANGED <<phase, ticker, array, idMap>>

\* the flag is lowered once the positions are out;
PublishedLowers ==
    /\ ticker = "publishing"
    /\ ticker' = "sleeping" /\ needs' = FALSE
    /\ UNCHANGED <<phase, rec, named, poisoned, array, idMap>>

\* a publication that fails ends the ticker.
PublishedOrDead ==
    /\ ticker = "publishing"
    /\ ticker' \in {"sleeping", "dead"}
    /\ UNCHANGED <<phase, table, array, idMap>>

\* geo_lifespan: the ticker is created, then the scheduler started.
Start ==
    /\ phase = "new"
    /\ phase' = "running" /\ ticker' = "due"
    /\ UNCHANGED <<table, array, idMap>>

\* update_tle: has no await, so that no tick falls into it.
Update(c) ==
    /\ phase = "running"
    /\ rec' = [s \in Sats |-> Parsed(c, s)]
    /\ named' = named \cup Good(c)
    /\ needs' = (needs \/ Good(c) # {})
    /\ poisoned' = (poisoned \/ \E s \in Sats \ named' : rec'[s] = "bad")
    /\ UNCHANGED <<phase, ticker, array, idMap>>

\* One pass of _bulk_ticker up to its await.  _rebuild_matrix has replaced the
\* array when it fails on a satellite without an id; nothing but the end of the
\* ticker catches that.  A payload of unequal columns is dropped.
Tick ==
    /\ phase = "running" /\ ticker = "due"
    /\ LET rebuild == needs /\ Ready # {}  broken == rebuild /\ ~(Ready \subseteq named) IN
       /\ array' = IF rebuild THEN rec ELSE array
       /\ idMap' = IF rebuild /\ ~broken THEN Ready ELSE idMap
       /\ needs' = (needs /\ (broken \/ ~rebuild))
       /\ ticker' = IF broken THEN "dead"
                    ELSE IF In(array') # {} /\ Cardinality(In(array')) = Cardinality(idMap')
                    THEN "publishing" ELSE "sleeping"
    /\ UNCHANGED <<phase, rec, named, poisoned>>

\* batch_publish ends; what fails there is logged.
Published ==
    /\ ticker = "publishing"
    /\ ticker' = "sleeping"
    /\ UNCHANGED <<phase, table, array, idMap>>

Wake ==
    /\ ticker = "sleeping"
    /\ ticker' = "due"
    /\ UNCHANGED <<phase, table, array, idMap>>

\* The worker is interrupted: the scheduler is shut down, the ticker cancelled
\* at the await it is in, the client closed.
Stop ==
    /\ phase = "running"
    /\ phase' = "down"
    /\ ticker' = IF ticker = "dead" THEN "dead" ELSE "cancelled"
    /\ UNCHANGED <<table, array, idMap>>

Ticker == Tick \/ Wake \/ Published

Next == Start \/ Stop \/ Ticker \/ \E c \in Catalogues : Update(c)

Spec == Init /\ [][Next]_vars

\* The event loop runs the ticker: its sleep ends, and a publication answers or
\* times out.
FairSpec == Spec /\ WF_vars(Ticker)
-----------------------------------------------------------------------------
TypeOK ==
    /\ phase \in {"new", "running", "down"}
    /\ ticker \in {"none", "due", "publishing", "sleeping", "dead", "cancelled"}
    /\ ticker \in {"due", "publishing", "sleeping"} <=> phase = "running" /\ ticker # "dead"
    /\ rec \in [Sats -> Elements \cup {"none", "bad"}]
    /\ named \subseteq Ready /\ needs \in BOOLEAN
    /\ array \in [Sats -> Elements \cup {"none", "bad"}]
    /\ In(array) \subseteq Ready /\ idMap \subseteq named
    /\ poisoned \in BOOLEAN

\* No update is missed: unless a rebuild is still due, good elements are the
\* ones positions are computed from, under the satellite's id, although the
\* flag is set and read by tasks that know nothing of each other.
NothingMissed == ~needs => \A s \in Sats : rec[s] \in Elements =>
    array[s] = rec[s] /\ s \in idMap

\* Only a satellite whose very first elements were bad can end the ticker, not
\* bad elements after good ones, junk, a failed publication or an update
\* between two ticks.
DeathExplained == ticker = "dead" => poisoned

\* Good elements reach the computation, unless newer ones replace them, the
\* worker stops, or some satellite's first elements were bad.
CatchesUp == \A s \in Sats, el \in Elements : phase = "running" /\ rec[s] = el ~>
    array[s] = el \/ rec[s] # el \/ poisoned \/ phase = "down"
=============================================================================
