--------------------------- MODULE PurgeRefinement ---------------------------
(***************************************************************************)
(* The purge task implements PurgeContract.                                *)
(***************************************************************************)
EXTENDS Purge

\* The candidate in hand is off the plan from the moment its deletion took
\* effect or was given up, not only when the loop goes on to the next one.
Settled(r) ==
  IF stage = "purge" /\ call[Purger].pc \in {"uncache", "done"} /\ r = FirstRepo
  THEN {FirstLeft(r)} ELSE {}

TagsNow == [r \in Repos |-> Present(r)]

PlanNow == [r \in Repos |-> NamesAt(scanned[r], left[r] \ Settled(r))]

ProtectedTags == [r \in Repos |-> KeepRegexpTags \cup TagsFromFile(r)]

Contract == INSTANCE PurgeContract WITH
  tags <- TagsNow, plan <- PlanNow, Protected <- ProtectedTags

\* Scan, decision, requests that fail or lose their answer, and pushes at any
\* time in between (main.go, tasks.go) come down to the steps of the contract:
\* what goes was decided on at once, is not protected and leaves keep_count,
\* no tag comes back on the list, and each is settled in the end.  It needs
\* images that are tagged once and users who do not delete tags meanwhile.
ImplementsContract == Contract!ContractSpec
=============================================================================
