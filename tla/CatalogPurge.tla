---------------------------- MODULE CatalogPurge ----------------------------
(***************************************************************************)
(* The purge together with the catalog: a scheduled purge refreshes the    *)
(* catalog on the client that it shares with the background job, and works *)
(* on the list that GetRepos returns afterwards.  The registry keeps its   *)
(* repositories and the process is not killed here, and RefreshTags is     *)
(* off: see Catalog for those.  A first refresh that fails ends the        *)
(* process, and the model with it.                                         *)
(***************************************************************************)
EXTENDS Purge, Catalog

\* With neither an include list nor a bad keep file, a run begins with
\* client.RefreshCatalog() ...
BeginRun == /\ stage = "idle"
            /\ StartRefresh(Purger)
            /\ UNCHANGED pvars

\* ... and goes on with what client.GetRepos() returns.
WorkOnCatalog(dry) ==
  /\ PurgeReturned
  /\ \E list \in Reads : StartPurge(dry, list)

\* StartBackgroundJobs.
BackgroundStep == /\ \/ StartRefresh(Background)
                     \/ RefreshStep(Background)
                     \/ BackgroundReturned
                  /\ UNCHANGED pvars

CatalogPurgeInit == PurgeInit /\ CatalogInit /\ live = Repos

CatalogPurgeNext ==
  /\ alive
  /\ \/ BackgroundStep
     \/ BeginRun
     \/ RefreshStep(Purger) /\ UNCHANGED pvars
     \/ \E dry \in BOOLEAN :
          \/ WorkOnCatalog(dry)
          \/ job[Purger].pc = "idle" /\ RefusePurge(dry) /\ UNCHANGED cvars
     \/ PurgerStep /\ UNCHANGED cvars
     \/ Next /\ UNCHANGED <<purgeVars, cvars>>

CatalogPurgeSpec == CatalogPurgeInit /\ [][CatalogPurgeNext]_<<pvars, cvars>>
=============================================================================
