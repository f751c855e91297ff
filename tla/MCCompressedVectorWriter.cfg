CONSTANTS
  ByteBits = 4
  PacketMax = 40
  HeaderSize = 2
  LengthSize = 1
  LongPrefix = 2
  Batch = 1
  FloatPrecision = 256
  Prototypes <- SmallPrototypes
  Requests = {1, 4}
  MaxRecords = 12
SPECIFICATION Spec
INVARIANTS
  TypeOK
  BitsConserved
  ClosedIsComplete
  PacketsVerify
  NarrowNoInternalError
PROPERTIES
  WriteFinishes
  CloseFinishes
CHECK_DEADLOCK FALSE
