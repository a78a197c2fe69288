SPECIFICATION Spec
CONSTANTS
  NLists = 2
  Blocks = {11, 12}
  NULL = NULL
INVARIANTS VerdictExact
PROPERTIES Terminates
