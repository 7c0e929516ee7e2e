------------------------------- MODULE MCPurge -------------------------------
(***************************************************************************)
(* Model-checks the purge task on one repository of three tags, with       *)
(* manifests of every sort: two that have expired, a fresh one, an index.  *)
(***************************************************************************)
EXTENDS PurgeRefinement

CONSTANTS oldest, old, fresh, index

MCDigests == {oldest, old, fresh, index}

MCKind == [d \in Digests |-> IF d = index THEN "index" ELSE "image"]

MCConfigCreated ==
  [d \in Digests |-> CASE d = oldest -> 10
                         [] d = fresh -> 90
                         [] OTHER -> ZeroTime]

\* The date of `old` is in an annotation only.
MCAnnotationCreated == [d \in Digests |-> IF d = old THEN 40 ELSE ZeroTime]

OneRepo == {<<1>>}

NoKeepFile == [r \in Repos |-> {}]

KeepTagOne == [r \in Repos |-> {1}]
=============================================================================
