CONSTANTS
  Repos = {1}
  Tags = {1, 2, 3}
  oldest = oldest
  old = old
  fresh = fresh
  index = index
  Digests <- MCDigests
  Kind <- MCKind
  ConfigCreated <- MCConfigCreated
  AnnotationCreated <- MCAnnotationCreated
  ZeroTime = ZeroTime
  Handlers = {}
  Refresher = refresh
  Purger = purge
  Procs = {refresh, purge}
  AsyncRefresh = FALSE
  OnlineMaxCount = 0
  Retagging = FALSE
  None = None
  NotCached = NotCached
  KeepDays = 1
  KeepCount = 1
  KeepRegexpTags = {3}
  Catalogs <- OneRepo
  ExcludeRepos = {}
  KeepFromFile = TRUE
  KeepFileTags <- NoKeepFile
  DottedRepos = {}
  Now = 100
SPECIFICATION FairPurgeSpec
INVARIANTS
  PurgeTypeOK
  FinishedRunAccounts
PROPERTIES
  PurgeRemovesOnlyCandidates
  ProtectedTagsSurvive
  KeepCountSurvives
  PurgeTerminates
  ImplementsContract
