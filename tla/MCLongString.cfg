CONSTANTS
  ByteBits = 4
  PacketMax = 40
  HeaderSize = 2
  LengthSize = 1
  LongPrefix = 2
  Batch = 1
  FloatPrecision = 256
  Prototypes <- StringPrototype
  Requests = {1, 4}
  MaxRecords = 12
SPECIFICATION Spec
INVARIANT
  NoInternalError
CHECK_DEADLOCK FALSE
