SPECIFICATION Spec
CONSTANTS
  Word = {0, 1}
  Other = 2
  Zero = 0
  MaxLocals = 1
  MaxTop = 5
  HexTop = 0
  Fields = {}
  TopsLeft = {0}
  MaxLength = 7
  MaxJumps = 2
INVARIANT JoinsKeepOperands
CHECK_DEADLOCK FALSE
