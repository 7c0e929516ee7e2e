-------------------------------- MODULE Purge --------------------------------
(***************************************************************************)
(* The purge task (registry/tasks.go, RunPurgeOldTags) as it runs on a     *)
(* live registry: the goroutine Purger drives the client of RegistryClient *)
(* call by call, while pushes, handlers and the background refresh go on.  *)
(* It scans every repository of the catalog, decides with the rule of      *)
(* Retention, and deletes the candidates one by one.                       *)
(***************************************************************************)
EXTENDS RegistryClient, ImageInfo, Retention

CONSTANTS
  Catalogs,     \* the repository lists a run may work on: -purge-include-repos
                \* as given, or what RefreshCatalog left in Client.repos
  ExcludeRepos, \* -purge-exclude-repos
  KeepFromFile, \* whether purge_tags.keep_from_file names a file
  KeepFileTags, \* the tags the keep file lists for each repository
  DottedRepos,  \* the repositories with a dot in their name
  Now           \* the hour of the run

ASSUME PurgerAssumption == Purger \in Procs \ (Handlers \cup {Refresher})

\* The catalog without the repositories to exclude.
Included(catalog) ==
  IF ExcludeRepos = {} THEN catalog
  ELSE SelectSeq(catalog, LAMBDA r : r \notin ExcludeRepos)

ASSUME PurgeConfigAssumption ==
  /\ \A catalog \in Catalogs : Included(catalog) \in Seq(Repos)
  /\ KeepFromFile \in BOOLEAN
  /\ KeepFileTags \in [Repos -> SUBSET Tags]
  /\ Now \in Int
  /\ DOMAIN Kind = Digests

VARIABLES
  stage,      \* where RunPurgeOldTags is
  dryRun,     \* its argument purgeDryRun
  success,    \* result.Success
  todoRepos,  \* the part of the catalog that is still to be scanned
  todoTags,   \* the tags of the repository in hand that are still to be scanned
  scanned,    \* repos: the dated tags of each repository
  purgeTags,  \* the positions of scanned to purge
  left,       \* those of them that are still to be deleted
  deleted,    \* those DeleteTag deleted (DeletedTagCount)
  failed      \* those DeleteTag returned an error for

purgeVars == <<stage, dryRun, success, todoRepos, todoTags,
               scanned, purgeTags, left, deleted, failed>>
pvars == <<vars, purgeVars>>

Nothing == [r \in Repos |-> {}]

(***************************************************************************)
(* dataFromFile.Get(repo): the name is a gjson path, in which a dot goes   *)
(* down one level, so a repository with a dot in its name is not found.    *)
(***************************************************************************)
TagsFromFile(r) ==
  IF KeepFromFile /\ r \notin DottedRepos THEN KeepFileTags[r] ELSE {}

Candidates(r) == NamesAt(scanned[r], purgeTags[r])

\* The next tag of a repository to scan: puller.List returns them in order.
FirstTag(tags) == CHOOSE t \in tags : \A u \in tags : t <= u

\* The repository, and the position in its sorted list, to delete next.
FirstRepo == CHOOSE r \in Repos : /\ left[r] # {}
                                  /\ \A q \in Repos : left[q] # {} => r <= q

FirstLeft(r) == CHOOSE i \in left[r] :
                  \A j \in left[r] : j # i => Before(scanned[r], i, j)

PurgeInit ==
  /\ Init
  /\ stage = "idle" /\ dryRun = FALSE /\ success = TRUE
  /\ todoRepos = <<>> /\ todoTags = {}
  /\ scanned = [r \in Repos |-> <<>>]
  /\ purgeTags = Nothing /\ left = Nothing
  /\ deleted = Nothing /\ failed = Nothing

-----------------------------------------------------------------------------
(***************************************************************************)
(* The scheduler or the command line starts a run.                         *)
(***************************************************************************)

\* The keep file is missing or cannot be read: "Not purging anything!".
RefusePurge(dry) ==
  /\ stage = "idle"
  /\ KeepFromFile
  /\ stage' = "done" /\ dryRun' = dry /\ success' = FALSE
  /\ UNCHANGED <<vars, todoRepos, todoTags, scanned, purgeTags, left, deleted, failed>>

StartPurge(dry, catalog) ==
  /\ stage = "idle"
  /\ stage' = "fetch" /\ dryRun' = dry
  /\ todoRepos' = Included(catalog)
  /\ UNCHANGED <<vars, success, todoTags, scanned, purgeTags, left, deleted, failed>>

(***************************************************************************)
(* The scan loop.                                                          *)
(***************************************************************************)
FetchRepo ==
  /\ stage = "fetch" /\ call[Purger].pc = "idle" /\ todoRepos # <<>>
  /\ call' = [call EXCEPT ![Purger] = FetchFrame(Head(todoRepos))]
  /\ UNCHANGED <<tagRef, manifests, pushed, tagsCache, todo, purgeVars>>

\* An empty list, also one that is empty because the fetch failed, is skipped.
FetchedRepo ==
  /\ stage = "fetch" /\ call[Purger].pc = "done"
  /\ call' = [call EXCEPT ![Purger] = IdleFrame]
  /\ todoTags' = call[Purger].tags
  /\ stage' = "scan"
  /\ UNCHANGED <<tagRef, manifests, pushed, tagsCache, todo, dryRun, success,
                 todoRepos, scanned, purgeTags, left, deleted, failed>>

\* GetImageInfo succeeds; a tag without a date is skipped.
ScanTag ==
  /\ stage = "scan" /\ todoTags # {}
  /\ LET r == Head(todoRepos)
         t == FirstTag(todoTags)
     IN  /\ tagRef[r][t] # None
         /\ LET created == GetImageInfoCreated(tagRef[r][t])
            IN  scanned' = IF created = ZeroTime THEN scanned
                           ELSE [scanned EXCEPT ![r] =
                                   Append(@, [name |-> t, created |-> created])]
         /\ todoTags' = todoTags \ {t}
  /\ UNCHANGED <<vars, stage, dryRun, success, todoRepos, purgeTags, left, deleted, failed>>

\* GetImageInfo fails: the tag is gone, or a request failed.
ScanFail ==
  /\ stage = "scan" /\ todoTags # {}
  /\ success' = FALSE
  /\ todoTags' = todoTags \ {FirstTag(todoTags)}
  /\ UNCHANGED <<vars, stage, dryRun, todoRepos, scanned, purgeTags, left, deleted, failed>>

ScannedRepo ==
  /\ stage = "scan" /\ todoTags = {}
  /\ todoRepos' = Tail(todoRepos)
  /\ stage' = "fetch"
  /\ UNCHANGED <<vars, dryRun, success, todoTags, scanned, purgeTags, left, deleted, failed>>

(***************************************************************************)
(* The filter, over everything that was scanned.                           *)
(***************************************************************************)
\* Fault: a dry run deletes, too.
FilterTagsForReal ==
  /\ stage = "fetch" /\ call[Purger].pc = "idle" /\ todoRepos = <<>>
  /\ purgeTags' = [r \in Repos |-> PurgeSet(scanned[r], Now, TagsFromFile(r))]
  /\ left' = purgeTags'
  /\ stage' = "purge"
  /\ UNCHANGED <<vars, dryRun, success, todoRepos, todoTags, scanned, deleted, failed>>

FilterTags ==
  /\ stage = "fetch" /\ call[Purger].pc = "idle" /\ todoRepos = <<>>
  /\ purgeTags' = [r \in Repos |-> PurgeSet(scanned[r], Now, TagsFromFile(r))]
  /\ left' = IF dryRun THEN Nothing ELSE purgeTags'
  /\ stage' = "purge"
  /\ UNCHANGED <<vars, dryRun, success, todoRepos, todoTags, scanned, deleted, failed>>

(***************************************************************************)
(* The delete loop: repositories by name, tags from newest to oldest.      *)
(***************************************************************************)
PurgeTag ==
  /\ stage = "purge" /\ call[Purger].pc = "idle"
  /\ \E r \in Repos : left[r] # {}
  /\ LET r == FirstRepo
     IN  call' = [call EXCEPT ![Purger] =
                    DeleteFrame(r, scanned[r][FirstLeft(r)].name)]
  /\ UNCHANGED <<tagRef, manifests, pushed, tagsCache, todo, purgeVars>>

\* Fault: an error of DeleteTag is not reported.
PurgedTagIgnoresError ==
  /\ stage = "purge" /\ call[Purger].pc = "done"
  /\ LET r == FirstRepo
         i == FirstLeft(r)
     IN  /\ left' = [left EXCEPT ![r] = @ \ {i}]
         /\ IF call[Purger].ok
            THEN deleted' = [deleted EXCEPT ![r] = @ \cup {i}] /\ UNCHANGED failed
            ELSE failed' = [failed EXCEPT ![r] = @ \cup {i}] /\ UNCHANGED deleted
  /\ call' = [call EXCEPT ![Purger] = IdleFrame]
  /\ UNCHANGED <<tagRef, manifests, pushed, tagsCache, todo, stage, dryRun, success,
                 todoRepos, todoTags, scanned, purgeTags>>

\* Fault: a tag whose deletion failed is tried again.
PurgedTagRetries ==
  /\ stage = "purge" /\ call[Purger].pc = "done"
  /\ LET r == FirstRepo
         i == FirstLeft(r)
     IN  IF call[Purger].ok
         THEN /\ left' = [left EXCEPT ![r] = @ \ {i}]
              /\ deleted' = [deleted EXCEPT ![r] = @ \cup {i}]
         ELSE UNCHANGED <<left, deleted>>
  /\ call' = [call EXCEPT ![Purger] = IdleFrame]
  /\ UNCHANGED <<tagRef, manifests, pushed, tagsCache, todo, stage, dryRun, success,
                 todoRepos, todoTags, scanned, purgeTags, failed>>

PurgedTag ==
  /\ stage = "purge" /\ call[Purger].pc = "done"
  /\ LET r == FirstRepo
         i == FirstLeft(r)
     IN  /\ left' = [left EXCEPT ![r] = @ \ {i}]
         /\ IF call[Purger].ok
            THEN /\ deleted' = [deleted EXCEPT ![r] = @ \cup {i}]
                 /\ UNCHANGED <<failed, success>>
            ELSE /\ failed' = [failed EXCEPT ![r] = @ \cup {i}]
                 /\ success' = FALSE
                 /\ UNCHANGED deleted
  /\ call' = [call EXCEPT ![Purger] = IdleFrame]
  /\ UNCHANGED <<tagRef, manifests, pushed, tagsCache, todo, stage, dryRun,
                 todoRepos, todoTags, scanned, purgeTags>>

FinishPurge ==
  /\ stage = "purge" /\ call[Purger].pc = "idle"
  /\ \A r \in Repos : left[r] = {}
  /\ stage' = "done"
  /\ UNCHANGED <<vars, dryRun, success, todoRepos, todoTags, scanned, purgeTags,
                 left, deleted, failed>>

\* Fault: the next run starts with the counts of this one.
RecordPurgeKeepsCounts ==
  /\ stage = "done"
  /\ stage' = "idle" /\ dryRun' = FALSE /\ success' = TRUE
  /\ scanned' = [r \in Repos |-> <<>>]
  /\ purgeTags' = Nothing
  /\ UNCHANGED <<vars, todoRepos, todoTags, left, deleted, failed>>

\* The result is recorded, and the scheduler waits for the next run.
RecordPurge ==
  /\ stage = "done"
  /\ stage' = "idle" /\ dryRun' = FALSE /\ success' = TRUE
  /\ scanned' = [r \in Repos |-> <<>>]
  /\ purgeTags' = Nothing /\ deleted' = Nothing /\ failed' = Nothing
  /\ UNCHANGED <<vars, todoRepos, todoTags, left>>

-----------------------------------------------------------------------------
PurgerStep ==
  \/ FetchRepo \/ FetchedRepo \/ ScanTag \/ ScanFail \/ ScannedRepo
  \/ FilterTags \/ PurgeTag \/ PurgedTag \/ FinishPurge \/ RecordPurge

PurgeNext ==
  \/ \E dry \in BOOLEAN :
       RefusePurge(dry) \/ \E catalog \in Catalogs : StartPurge(dry, catalog)
  \/ PurgerStep
  \/ Next /\ UNCHANGED purgeVars

PurgeSpec == PurgeInit /\ [][PurgeNext]_pvars

(***************************************************************************)
(* A run that has started goes on: every call it makes returns.  Nothing   *)
(* makes a run start.                                                      *)
(***************************************************************************)
PurgeFairness == /\ WF_pvars(PurgerStep)
                 /\ WF_pvars(FetchStep(Purger) /\ UNCHANGED purgeVars)
                 /\ WF_pvars(DeleteStep(Purger) /\ UNCHANGED purgeVars)

FairPurgeSpec == PurgeSpec /\ PurgeFairness

-----------------------------------------------------------------------------
(***************************************************************************)
(* Properties.                                                             *)
(***************************************************************************)
PurgeTypeOK ==
  /\ TypeOK
  /\ stage \in {"idle", "fetch", "scan", "purge", "done"}
  /\ dryRun \in BOOLEAN /\ success \in BOOLEAN
  /\ todoRepos \in Seq(Repos) /\ todoTags \in SUBSET Tags
  /\ stage = "scan" => todoRepos # <<>>
  /\ scanned \in [Repos -> Seq(TagData)]
  /\ purgeTags \in [Repos -> SUBSET Nat] /\ left \in [Repos -> SUBSET Nat]
  /\ deleted \in [Repos -> SUBSET Nat] /\ failed \in [Repos -> SUBSET Nat]
  /\ \A r \in Repos : /\ purgeTags[r] \subseteq DOMAIN scanned[r]
                      /\ left[r] \cup deleted[r] \cup failed[r] \subseteq purgeTags[r]

\* The purge deletes a manifest of the registry in this step.
PurgerDeletes == /\ call[Purger].pc = "delete" /\ call'[Purger] # call[Purger]
                 /\ tagRef' # tagRef

\* The tags that disappear from repository r in this step.
Lost(r) == Present(r) \ Present(r)'

\* What the purge removes from a live registry are tags it has put on its list,
\* in a run that is not a dry run: never a tag it has not scanned, has decided
\* to keep, or that was pushed since under another name, although DeleteTag
\* deletes whatever manifest the tag points to by then.  It needs images that
\* have one tag each (Retagging = FALSE).
PurgeRemovesOnlyCandidates ==
  [][PurgerDeletes => ~dryRun /\ \A r \in Repos : Lost(r) \subseteq Candidates(r)]_pvars

\* The purge never takes a repository from keep_count tags or more to fewer,
\* run after run, whatever is pushed meanwhile and whichever reads and deletes
\* of it fail (keep_count in config.yml: "at least keep_count are kept").
KeepCountSurvives ==
  [][PurgerDeletes => \A r \in Repos :
       Cardinality(Present(r)) >= KeepCount => Cardinality(Present(r)') >= KeepCount]_pvars

\* A run that has ended accounts for every candidate: each was deleted or its
\* deletion failed, never both, unless the run was a dry run, which did
\* neither; a run that reports success has deleted them all.
FinishedRunAccounts ==
  stage = "done" =>
    \A r \in Repos :
      /\ deleted[r] \cap failed[r] = {}
      /\ IF dryRun THEN deleted[r] \cup failed[r] = {}
                   ELSE deleted[r] \cup failed[r] = purgeTags[r]
      /\ success => failed[r] = {}

\* A run that has started ends, whatever fails on the way.
PurgeTerminates == (stage # "idle") ~> (stage = "idle")

\* "Keep tags matching this regexp no matter how old they are" and "keep the
\* tags listed in the file no matter how old they are" (config.yml:91, 95):
\* no step of a purge takes such a tag off the registry.
ProtectedTagsSurvive ==
  [][PurgerDeletes => \A r \in Repos :
       Lost(r) \cap (KeepRegexpTags \cup KeepFileTags[r]) = {}]_pvars

\* keep_days is "how many days tags are kept" (config.yml:87): an image that
\* the purge deletes is older than that.
OnlyExpiredImagesDeleted ==
  [][PurgerDeletes => \A r \in Repos : \A t \in Lost(r) :
       /\ GetImageInfoCreated(tagRef[r][t]) # ZeroTime
       /\ DaysOld(Now, GetImageInfoCreated(tagRef[r][t])) > KeepDays]_pvars
=============================================================================
