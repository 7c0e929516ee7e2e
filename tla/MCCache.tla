------------------------------- MODULE MCCache -------------------------------
(***************************************************************************)
(* Model-checks the tag cache: one handler that lists and deletes, the     *)
(* background refresh, and pushes that may move any tag at any time.       *)
(***************************************************************************)
EXTENDS CacheHistory
=============================================================================
