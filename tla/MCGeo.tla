------------------------------- MODULE MCGeo --------------------------------
(* Geo on small instances: catalogues of up to MaxTriples triples. *)
EXTENDS Geo, SequencesExt

CONSTANTS MaxTriples

MCCatalogues == BoundedSeq([sat : Sats, el : Elements \cup {"bad", "junk"}], MaxTriples)
=============================================================================
