SPECIFICATION Spec
CONSTANTS
  Word = {0, 1}
  Other = 2
  MaxStack = 6
  MaxLocals = 1
  MaxTop = 6
  HexTop = 4
  Fields = {f}
  Operations = {"add", "shl"}
  Result <- MCResult
  Negated <- MCNegated
PROPERTIES ImplementsOperandStack
