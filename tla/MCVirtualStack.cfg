SPECIFICATION Spec
CONSTANTS
  Word = {0, 1}
  Other = 2
  MaxStack = 5
  MaxLocals = 1
  MaxTop = 5
  HexTop = 4
  Fields = {f}
  Operations = {"add", "shl"}
  Result <- MCResult
  Negated <- MCNegated
INVARIANTS TypeOK FrameKept
PROPERTIES ImplementsOperandStack
