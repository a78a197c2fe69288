SPECIFICATION Spec
CONSTANTS
  Word = {0, 1}
  Other = 2
  MaxStack = 5
  MaxLocals = 0
  MaxTop = 5
  HexTop = 5
  Fields = {f}
  Operations = {"add", "shl"}
  Result <- MCResult
  Negated <- MCNegated
INVARIANTS FrameKept
