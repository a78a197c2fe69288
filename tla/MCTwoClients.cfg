SPECIFICATION Spec
CONSTANTS
  NLists = 5
  SizeMod = 1024
  Threads = {t1, t2}
  NULL = NULL
  Arena = 10
  HeapLimit = 20
  Requests = {8}
  ForeignSizes = {}
  InitialBits = {}
CONSTRAINT HeapSound
INVARIANTS SearchOnList
PROPERTIES OnlyTheWindowCorrupts
