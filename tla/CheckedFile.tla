---------------------------- MODULE CheckedFile ----------------------------
(***************************************************************************)
(* The paged file of src/src/CheckedFile.cpp.  The disk file is a sequence *)
(* of physical pages, each LogicalPageSize data bytes followed by a        *)
(* checksum of ChecksumSize bytes.  Clients address the file by logical    *)
(* offsets, in which the checksums are invisible; read, write and extend   *)
(* translate, read-modify-write the partial pages and keep the checksums.  *)
(*                                                                         *)
(* The disk is a sequence of cells.  A data cell holds a byte; each of the *)
(* ChecksumSize cells that end a page holds the page's checksum as one     *)
(* opaque value.  A read or write call is one action.  An I/O error may    *)
(* stop a multi-page call before any of its pages: the earlier pages stay  *)
(* written, the exception leaves logicalLength_ alone.                     *)
(***************************************************************************)
EXTENDS PageOffset, Sequences

CONSTANTS
  Byte,              \* the byte values a model distinguishes
  Zero,              \* the byte 0, that memset and a sparse file produce
  Policies,          \* checksum policies a file may be opened with, percent
  MaxLogicalLength,  \* bound: no call extends the file past this offset
  MaxTransfer,       \* bound: bytes of one read or write call
  ShortWrites        \* TRUE: ::write may store less than a page and say so

ASSUME ByteAssumption == Zero \in Byte
ASSUME PolicyAssumption == Policies \subseteq 0 .. 100
ASSUME BoundAssumption ==
  /\ MaxLogicalLength \in Nat
  /\ MaxTransfer \in Nat
  /\ ShortWrites \in BOOLEAN

VARIABLES
  disk,           \* the cells of the file, which outlive the process
  mode,           \* "closed", or the mode of the open CheckedFile
  logicalLength,  \* logicalLength_; after close, what it was
  cursor,         \* the position of the descriptor, physical
  policy,         \* checkSumPolicy_
  outcome         \* how the last call ended, with the bytes it read or wrote

vars == <<disk, mode, logicalLength, cursor, policy, outcome>>

Greater(a, b) == IF a < b THEN b ELSE a

-----------------------------------------------------------------------------
(***************************************************************************)
(* Pages of the disk.  The checksum is perfect: it is the data itself, so  *)
(* two pages with different data have different checksums.                 *)
(***************************************************************************)
PageData == [0 .. LogicalPageSize - 1 -> Byte]
Cell == Byte \cup PageData

checksum(data) == data

PageStarted(d, p) == p * PhysicalPageSize < Len(d)
PageComplete(d, p) == (p + 1) * PhysicalPageSize <= Len(d)

CellAt(d, p, i) == d[p * PhysicalPageSize + i + 1]

DataOf(d, p) == [i \in 0 .. LogicalPageSize - 1 |-> CellAt(d, p, i)]

ChecksumMatches(d, p) ==
  \A i \in LogicalPageSize .. PhysicalPageSize - 1 :
    CellAt(d, p, i) = checksum(DataOf(d, p))

\* A page that lseek past the end left behind: no call ever stored it.
IsHole(d, p) ==
  \A i \in 0 .. PhysicalPageSize - 1 : CellAt(d, p, i) = Zero

\* Mutant: the logical offset used as a physical one.
ByteAtUntranslated(d, offset) == d[offset + 1]

\* The byte at a logical offset whose page is on the disk.
ByteAt(d, offset) == d[logicalToPhysical(offset) + 1]

-----------------------------------------------------------------------------
(***************************************************************************)
(* The loop that write and extend share.  It covers [start, end) page by   *)
(* page.  The buffer of a page that is on the disk is filled by            *)
(* readPhysicalPage first.  The buffer of a page past the end is not: it   *)
(* holds zeros on the first page, and what the previous page left later.   *)
(***************************************************************************)
\* Mutant: the loop stops one byte early.
PagesOfShort(start, end) ==
  IF end - start < 2 THEN {}
  ELSE start \div LogicalPageSize .. (end - 2) \div LogicalPageSize

PagesOf(start, end) ==
  IF start = end THEN {}
  ELSE start \div LogicalPageSize .. (end - 1) \div LogicalPageSize

\* Mutant: the page is not read before part of it is replaced.
InBufferUnread(d, p, i) == Zero

InBuffer(d, p, i) ==
  IF PageStarted(d, p) THEN CellAt(d, p, i) ELSE Zero

\* The data part of page_buffer when page p of the call is stored.
PageImage(d, start, buf, p) ==
  LET end == start + Len(buf)
      Covered(q, i) == q * LogicalPageSize + i \in start .. end - 1
      New(q, i) == buf[q * LogicalPageSize + i - start + 1]
      First == start \div LogicalPageSize
  IN  [i \in 0 .. LogicalPageSize - 1 |->
         IF Covered(p, i) THEN New(p, i)
         ELSE IF PageStarted(d, p) \/ p = First THEN InBuffer(d, p, i)
         ELSE IF Covered(p - 1, i) THEN New(p - 1, i)
         ELSE InBuffer(d, p - 1, i)]

\* Mutant: writePhysicalPage leaves the checksum of the buffer as it was.
CellOfNoChecksum(image, i) == IF i < LogicalPageSize THEN image[i] ELSE Zero

\* Cell i of the page that writePhysicalPage makes of the data image.
CellOf(image, i) == IF i < LogicalPageSize THEN image[i] ELSE checksum(image)

\* The disk after pages P of the call, of which page p stored stored[p] cells.
StorePages(d, start, buf, stored) ==
  LET P == DOMAIN stored
      extent == {Len(d)} \cup {p * PhysicalPageSize + stored[p] : p \in P}
      newLen == CHOOSE n \in extent : \A m \in extent : m <= n
  IN  [c \in 1 .. newLen |->
         LET p == (c - 1) \div PhysicalPageSize
             i == (c - 1) % PhysicalPageSize
         IN  IF p \in P /\ i < stored[p]
             THEN CellOf(PageImage(d, start, buf, p), i)
             ELSE IF c <= Len(d) THEN d[c] ELSE Zero]

\* readPhysicalPage finds only part of the page on the disk.
Torn(d, p) == PageStarted(d, p) /\ ~PageComplete(d, p)

\* What writePhysicalPage stores of each page of P when no error is raised.
StoredCounts(P) ==
  LET full == [p \in P |-> PhysicalPageSize]
  IN  {full} \cup
      (IF ShortWrites
       THEN {[full EXCEPT ![p] = n] : p \in P, n \in 0 .. PhysicalPageSize - 1}
       ELSE {})

Done(data) == [ok |-> TRUE, data |-> data]
Exception(data) == [ok |-> FALSE, data |-> data]

\* The loop ends: every page of the call is stored.
StoreAll(start, buf) ==
  LET end == start + Len(buf)
      P == PagesOf(start, end)
  IN  /\ end <= MaxLogicalLength
      /\ \A p \in P : ~Torn(disk, p)
      /\ \E stored \in StoredCounts(P) :
           disk' = StorePages(disk, start, buf, stored)
      /\ cursor' = logicalToPhysical(end)
      /\ outcome' = Done(buf)

\* An exception leaves the loop at page f, by an I/O error or a torn page.
StoreUntil(start, buf, f) ==
  LET P == PagesOf(start, start + Len(buf))
      before == {p \in P : p < f}
  IN  /\ start + Len(buf) <= MaxLogicalLength
      /\ f \in P
      /\ \A p \in before : ~Torn(disk, p)
      /\ \E stored \in StoredCounts(before) :
           disk' = StorePages(disk, start, buf, stored)
      /\ cursor' = IF Torn(disk, f) THEN Len(disk) ELSE f * PhysicalPageSize
      /\ outcome' = Exception(buf)
      /\ UNCHANGED logicalLength

-----------------------------------------------------------------------------
(* The operations. *)

Init ==
  /\ disk = <<>>
  /\ mode = "closed"
  /\ logicalLength = 0
  /\ cursor = 0
  /\ policy = 100
  /\ outcome = Done(<<>>)

\* CheckedFile( fileName, Write, policy ): the file is created or truncated.
OpenWrite(percent) ==
  /\ mode = "closed"
  /\ mode' = "write"
  /\ disk' = <<>>
  /\ logicalLength' = 0
  /\ cursor' = 0
  /\ policy' = percent
  /\ outcome' = Done(<<>>)

\* CheckedFile( fileName, Read, policy ), and the same from a memory buffer.
OpenRead(percent) ==
  /\ mode = "closed"
  /\ IF Len(disk) % PhysicalPageSize # 0
     THEN /\ outcome' = Exception(<<>>)
          /\ UNCHANGED <<mode, logicalLength, cursor, policy>>
     ELSE /\ mode' = "read"
          /\ logicalLength' = physicalToLogical(Len(disk))
          /\ cursor' = 0
          /\ policy' = percent
          /\ outcome' = Done(<<>>)
  /\ UNCHANGED disk

\* A memory buffer, which is read like a file, has no position past its end.
seek(offset) ==
  /\ mode # "closed"
  /\ \/ /\ cursor' = logicalToPhysical(offset)
        /\ outcome' = Done(<<>>)
     \/ /\ mode = "read"
        /\ logicalToPhysical(offset) > Len(disk)
        /\ cursor' = Len(disk)
        /\ outcome' = Exception(<<>>)
  /\ UNCHANGED <<disk, mode, logicalLength, policy>>

\* write and extend refuse a file opened for reading.
RefuseReadOnly ==
  /\ mode = "read"
  /\ outcome' = Exception(<<>>)
  /\ UNCHANGED <<disk, mode, logicalLength, cursor, policy>>

write(buf) ==
  /\ mode = "write"
  /\ LET start == physicalToLogical(cursor)
     IN  \/ /\ StoreAll(start, buf)
            /\ logicalLength' = Greater(logicalLength, start + Len(buf))
         \/ \E f \in PagesOf(start, start + Len(buf)) : StoreUntil(start, buf, f)
  /\ UNCHANGED <<mode, policy>>

extend(newLength) ==
  /\ mode = "write"
  /\ LET zeros == [i \in 1 .. newLength - logicalLength |-> Zero]
     IN  \/ /\ newLength >= logicalLength
            /\ StoreAll(logicalLength, zeros)
            /\ logicalLength' = newLength
         \/ /\ newLength >= logicalLength
            /\ \E f \in PagesOf(logicalLength, newLength) :
                 StoreUntil(logicalLength, zeros, f)
         \/ /\ newLength < logicalLength
            /\ outcome' = Exception(<<>>)
            /\ UNCHANGED <<disk, logicalLength, cursor>>
  /\ UNCHANGED <<mode, policy>>

\* nearbyint( 100.0 / percent ): a quotient halfway between goes to the even.
checksumMod(percent) ==
  LET up == (200 + percent) \div (2 * percent)
      halfway == (200 + percent) % (2 * percent) = 0
  IN  IF halfway /\ up % 2 = 1 THEN up - 1 ELSE up

\* Whether read verifies page p, with n bytes still wanted from it on.
Verifies(p, n) ==
  \/ policy = 100
  \/ /\ policy \in 1 .. 99
     /\ p % checksumMod(policy) = 0 \/ n < PhysicalPageSize

\* readPhysicalPage and verifyChecksum accept page p of a read of [start, end).
PageReads(p, start, end) ==
  /\ PageComplete(disk, p)
  /\ Verifies(p, end - Greater(start, p * LogicalPageSize))
       => ChecksumMatches(disk, p)

read(n) ==
  /\ mode # "closed"
  /\ LET start == physicalToLogical(cursor)
         end == start + n
         P == PagesOf(start, end)
         bad == {p \in P : ~PageReads(p, start, end)}
     IN  \/ /\ end <= logicalLength
            /\ bad = {}
            /\ cursor' = logicalToPhysical(end)
            /\ outcome' = Done([i \in 1 .. n |-> ByteAt(disk, start + i - 1)])
         \/ /\ end <= logicalLength
            /\ bad # {}
            /\ \E p \in bad :
                 /\ \A q \in bad : p <= q
                 /\ cursor' = Lesser((p + 1) * PhysicalPageSize, Len(disk))
            /\ outcome' = Exception(<<>>)
         \/ \* ::read fails
            /\ end <= logicalLength
            /\ \E p \in P :
                 /\ \A q \in bad : p <= q
                 /\ cursor' = p * PhysicalPageSize
            /\ outcome' = Exception(<<>>)
         \/ /\ end > logicalLength
            /\ outcome' = Exception(<<>>)
            /\ UNCHANGED cursor
  /\ UNCHANGED <<disk, mode, logicalLength, policy>>

\* close, the destructor, or the end of the process: nothing is buffered.
close ==
  /\ mode # "closed"
  /\ mode' = "closed"
  /\ outcome' = Done(<<>>)
  /\ UNCHANGED <<disk, logicalLength, cursor, policy>>

\* The storage alters one cell of a file at rest.
Decay ==
  /\ mode = "closed"
  /\ \A p \in 0 .. Len(disk) \div PhysicalPageSize - 1 : ChecksumMatches(disk, p)
  /\ \E c \in 1 .. Len(disk), b \in Byte :
       /\ disk[c] # b
       /\ disk' = [disk EXCEPT ![c] = b]
  /\ UNCHANGED <<mode, logicalLength, cursor, policy, outcome>>

\* What clients write.  write(<<>>) past the end would set logicalLength_ with
\* no page behind it; ImageFileImpl and the binary sections never ask for it.
Buffers ==
  UNION {[1 .. n -> Byte] : n \in
           (IF physicalToLogical(cursor) <= logicalLength THEN 0 ELSE 1)
             .. MaxTransfer}

Next ==
  \/ \E percent \in Policies : OpenWrite(percent) \/ OpenRead(percent)
  \/ \E offset \in 0 .. MaxLogicalLength : seek(offset)
  \/ \E buf \in Buffers : write(buf)
  \/ \E newLength \in 0 .. MaxLogicalLength : extend(newLength)
  \/ RefuseReadOnly
  \/ \E n \in 0 .. MaxTransfer : read(n)
  \/ close
  \/ Decay

Spec == Init /\ [][Next]_vars

-----------------------------------------------------------------------------
(* Properties. *)

\* The state is well formed; in particular a read that returns hands out bytes
\* only, never a checksum or what lies past the end (CheckedFile::read).
TypeOK ==
  /\ disk \in Seq(Cell)
  /\ mode \in {"closed", "write", "read"}
  /\ logicalLength \in Nat
  /\ cursor \in Nat
  /\ policy \in Nat
  /\ outcome \in [ok : BOOLEAN, data : Seq(Byte)]

(***************************************************************************)
(* While the file is being written its pages are sound, whatever sequence  *)
(* of seeks, writes, extends and I/O errors led here: the disk is a whole  *)
(* number of pages, and each page has its checksum or was never stored     *)
(* (CheckedFile.cpp, write, extend and writePhysicalPage).                 *)
(***************************************************************************)
PagesSound ==
  mode = "write" =>
    /\ Len(disk) % PhysicalPageSize = 0
    /\ \A p \in 0 .. (Len(disk) \div PhysicalPageSize) - 1 :
         ChecksumMatches(disk, p) \/ IsHole(disk, p)

(***************************************************************************)
(* Every logical byte of an open file is on the disk: logicalLength_ never *)
(* runs ahead of the pages, also when a call fails between two pages.      *)
(* read relies on it when it only checks end against logicalLength_.       *)
(***************************************************************************)
LengthBacked ==
  mode # "closed" => logicalLength <= physicalToLogical(Len(disk))

(***************************************************************************)
(* The file seen through its logical offsets.  A byte of a page whose      *)
(* checksum does not match is Lost.                                        *)
(***************************************************************************)
Lost == "lost"

LogicalView ==
  [k \in 1 .. logicalLength |->
     LET p == (k - 1) \div LogicalPageSize
     IN  IF PageComplete(disk, p) /\ ChecksumMatches(disk, p)
         THEN ByteAt(disk, k - 1)
         ELSE Lost]

Flat == INSTANCE FlatFile WITH
          content <- LogicalView,
          at <- physicalToLogical(cursor)

(***************************************************************************)
(* CheckedFile implements a flat array of bytes (module FlatFile): pages,  *)
(* checksums, read-modify-write and the translation of offsets show        *)
(* nowhere but in exceptions.                                              *)
(***************************************************************************)
ImplementsFlatFile == Flat!Spec
=============================================================================
