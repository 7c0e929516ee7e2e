--------------------------- MODULE MCCatalogPurge ---------------------------
(***************************************************************************)
(* Model-checks the purge with the catalog on images that have expired.    *)
(***************************************************************************)
EXTENDS CatalogPurge

MCKind == [d \in Digests |-> "image"]

MCConfigCreated == [d \in Digests |-> 10]

MCAnnotationCreated == [d \in Digests |-> ZeroTime]

NoKeepFile == [r \in Repos |-> {}]
=============================================================================
