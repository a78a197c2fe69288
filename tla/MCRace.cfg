SPECIFICATION Spec
CONSTANTS
  NLists = 5
  SizeMod = 1024
  Threads = {t1, t2}
  NULL = NULL
  Arena = 14
  HeapLimit = 14
  Requests = {8}
  ForeignSizes = {2}
  InitialBits = {}
INVARIANTS HandedOutDisjoint
