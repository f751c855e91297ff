CONSTANTS
  ByteBits = 4
  InBufferSize = 4
  Prototypes <- StringPrototype
  Counts = {4}
  Capacities = {2}
  MaxPackets = 3
SPECIFICATION Spec
INVARIANT
  NoInternalError
CHECK_DEADLOCK FALSE
