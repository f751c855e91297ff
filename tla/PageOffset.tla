----------------------------- MODULE PageOffset -----------------------------
(***************************************************************************)
(* The two ways CheckedFile.h addresses a file: a physical offset counts   *)
(* all bytes, a logical one leaves out the checksums that end the pages.   *)
(***************************************************************************)
EXTENDS Integers

CONSTANTS
  LogicalPageSize,   \* logicalPageSize: 1020 in the code
  ChecksumSize       \* bytes of checksum that end a physical page: 4

ASSUME PageSizeAssumption ==
  /\ LogicalPageSize \in Nat \ {0}
  /\ ChecksumSize \in Nat \ {0}

PhysicalPageSize == LogicalPageSize + ChecksumSize

Lesser(a, b) == IF a < b THEN a ELSE b

logicalToPhysical(offset) ==
  (offset \div LogicalPageSize) * PhysicalPageSize + (offset % LogicalPageSize)

physicalToLogical(offset) ==
  (offset \div PhysicalPageSize) * LogicalPageSize
    + Lesser(offset % PhysicalPageSize, LogicalPageSize)
=============================================================================
