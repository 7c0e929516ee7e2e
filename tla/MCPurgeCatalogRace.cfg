CONSTANTS
  Repos = {1}
  Tags = {1, 2}
  Digests = {old, older}
  Kind <- MCKind
  ConfigCreated <- MCConfigCreated
  AnnotationCreated <- MCAnnotationCreated
  ZeroTime = ZeroTime
  Handlers = {}
  Refresher = refresh
  Purger = purge
  Procs = {refresh, purge}
  AsyncRefresh = FALSE
  OnlineMaxCount = 0
  Retagging = FALSE
  None = None
  NotCached = NotCached
  KeepDays = 1
  KeepCount = 1
  KeepRegexpTags = {}
  Catalogs = {}
  ExcludeRepos = {}
  KeepFromFile = FALSE
  KeepFileTags <- NoKeepFile
  DottedRepos = {}
  Now = 100
  Background = background
  CatalogInterval = 60
  TagsInterval = 0
  MaxChanges = 0
  MaxFaults = 0
SPECIFICATION CatalogPurgeSpec
PROPERTIES
  KeepCountSurvives
