CONSTANTS
  ByteBits = 4
  InBufferSize = 4
  Prototypes <- SmallPrototypes
  Counts = {4}
  Capacities = {2}
  MaxPackets = 3
SPECIFICATION RebufferSpec
PROPERTY
  ReadIsFull
CHECK_DEADLOCK FALSE
