CONSTANTS
  Repos = {1, 2}
  Background = background
  Purger = purge
  CatalogInterval = 60
  TagsInterval = 360
  MaxChanges = 1
  MaxFaults = 1
  Layouts <- MCLayouts
  TagCount <- MCTagCount
SPECIFICATION FairCatalogSpec
INVARIANTS
  RefreshComplete
  CountsAddUp
PROPERTIES
  TwiceOnlyByOverlap
  CatalogConverges
