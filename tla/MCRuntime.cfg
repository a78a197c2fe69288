SPECIFICATION Spec
CONSTANTS
  ByteBits = 2
  Ints <- IntConstants
  Longs <- LongConstants
  Types = {"byte", "char", "short", "int", "long"}
  MaxComputed = 2
  MaxArrays = 1
INVARIANTS TypeOK TrustedBytesRight ReportsWhatJavaRefuses AcceptedIsDone
CHECK_DEADLOCK FALSE
