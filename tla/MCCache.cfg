CONSTANTS
  Repos = {1}
  Tags = {1, 2}
  Digests = {d1, d2}
  Handlers = {h1}
  Refresher = refresh
  Purger = purge
  Procs = {h1, refresh}
  AsyncRefresh = TRUE
  OnlineMaxCount = 1
  Retagging = TRUE
  None = None
  NotCached = NotCached
SPECIFICATION FairHSpec
INVARIANTS
  TypeOK
  ListingRegular
  CacheRegular
PROPERTIES
  CacheConverges
