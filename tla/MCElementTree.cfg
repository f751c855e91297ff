SPECIFICATION Spec
CONSTANTS
  Malformed = {"a b"}
  MaxIndex = 2
  INT64_MIN <- Lowest
  INT64_MAX = 10
  FLOAT_MIN <- LowestFloat
  FLOAT_MAX = 8
  DOUBLE_MIN <- Lowest
  DOUBLE_MAX = 10
  FloatStep = 2
  DecimalStep = 3
  LogicalPageSize = 1020
  ChecksumSize = 4
  VERSION_1_0_URI = "v1"
  Kits <- MCKits
  Buffers <- MCBuffers
  Starts <- MCStarts
  MaxRecords = 1
INVARIANTS
  TypeOK
  ClassInvariant
  VectorsUniform
  LeavesCovered
  ReaderAccepts
  RoundTrip
PROPERTY
  RelationsStay
CHECK_DEADLOCK FALSE
