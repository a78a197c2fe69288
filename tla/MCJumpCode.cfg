SPECIFICATION Spec
CONSTANTS
  Word = {0, 1}
  Other = 2
  Zero = 0
  MaxLocals = 1
  MaxTop = 5
  HexTop = 3
  Fields = {f}
  TopsLeft = {2}
  MaxLength = 7
  MaxJumps = 2
INVARIANTS TypeOK TakesTheSameBranch OperandsFollowJumps SavedRegistersKept
CHECK_DEADLOCK FALSE
