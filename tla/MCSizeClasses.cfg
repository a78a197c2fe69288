SPECIFICATION EveryRequest
CONSTANTS
  NLists = 59
  SizeMod = 1024
INVARIANTS
  BlockHoldsRequest FormulasAgree ListsOrdered UnmovedOnlyAtTop
