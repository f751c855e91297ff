CONSTANTS
  ByteBits = 4
  InBufferSize = 4
  Prototypes <- SmallPrototypes
  Counts = {0, 4}
  Capacities = {1, 3, 4}
  MaxPackets = 3
SPECIFICATION Spec
INVARIANTS
  TypeOK
  FedInOrder
  PackedNoInternalError
PROPERTIES
  ReadIsFull
  ReadFinishes
CHECK_DEADLOCK FALSE
