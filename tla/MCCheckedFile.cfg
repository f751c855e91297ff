SPECIFICATION Spec
CONSTANTS
  LogicalPageSize = 2
  ChecksumSize = 1
  Byte = {z, b}
  Zero = z
  Policies = {0, 50, 100}
  MaxLogicalLength = 4
  MaxTransfer = 4
  ShortWrites = FALSE
INVARIANTS
  TypeOK
  PagesSound
  LengthBacked
PROPERTY
  ImplementsFlatFile
