SPECIFICATION FairSpec
CONSTANTS
  NLists = 5
  SizeMod = 1024
  Threads = {t1}
  NULL = NULL
  Arena = 14
  HeapLimit = 30
  Requests = {0, 8, 80}
  ForeignSizes = {2}
  InitialBits = {}
INVARIANTS
  TypeOK BoundaryTags ListsHoldFreeBlocks NoAdjacentFree BitmapTracksLists
  ClientsOwnBlocks DataAvoidHeaders MisfiledOnlyAtTop MissesOnlyAtTop NeverAstray
  NothingLost
PROPERTIES
  EveryCallReturns ImplementsAllocator
