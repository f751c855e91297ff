------------------------- MODULE CheckedFileProofs --------------------------
(***************************************************************************)
(* Proofs about module CheckedFile, for any page size, checksum size and   *)
(* bytes: its invariants and, where the file system stores the pages it is *)
(* given, that CheckedFile implements FlatFile.                            *)
(***************************************************************************)
EXTENDS CheckedFile, SequenceTheorems, TLAPS

-----------------------------------------------------------------------------
(* Division. *)

(***************************************************************************)
(* Multiplication is monotonic.                                            *)
(***************************************************************************)
LEMMA TimesMonotonic ==
  ASSUME NEW a \in Nat, NEW b \in Nat, NEW k \in Nat, a <= b
  PROVE  a * k <= b * k
<1>1. PICK c \in Nat : b = a + c
  <2>1. b - a \in Nat /\ b = a + (b - a)
    OBVIOUS
  <2> QED
    BY <2>1, Zenon
<1>2. b * k = a * k + c * k /\ c * k \in Nat /\ a * k \in Nat
  BY <1>1
<1> QED
  BY <1>2

\* The numbers \div and % yield.
LEMMA DivModInt ==
  ASSUME NEW x \in Int, NEW k \in Int, k > 0
  PROVE  x = k * (x \div k) + (x % k)
OBVIOUS

(***************************************************************************)
(* Quotient and remainder.                                                 *)
(***************************************************************************)
LEMMA DivMod ==
  ASSUME NEW x \in Nat, NEW k \in Nat \ {0}
  PROVE  /\ x \div k \in Nat
         /\ x % k \in 0 .. k - 1
         /\ x = (x \div k) * k + (x % k)
<1>1. x \in Int /\ k \in Int /\ k > 0
  OBVIOUS
<1>2. x \div k \in Nat
  OBVIOUS
<1>3. x % k \in 0 .. k - 1
  OBVIOUS
<1>4. x = k * (x \div k) + (x % k)
  BY <1>1, DivModInt, Zenon
<1>5. \A a, b \in Nat : a * b = b * a
  OBVIOUS
<1>6. k * (x \div k) = (x \div k) * k
  BY <1>2, <1>5, Zenon
<1> QED
  BY <1>2, <1>3, <1>4, <1>6, Zenon

(***************************************************************************)
(* They are unique.                                                        *)
(***************************************************************************)
LEMMA DivUnique ==
  ASSUME NEW p \in Nat, NEW k \in Nat \ {0}, NEW i \in 0 .. k - 1
  PROVE  (p * k + i) \div k = p /\ (p * k + i) % k = i
<1> DEFINE x == p * k + i
           q == x \div k
           r == x % k
<1>1. x \in Nat /\ p * k \in Nat
  OBVIOUS
<1>2. q \in Nat /\ r \in 0 .. k - 1 /\ x = q * k + r
  BY <1>1, DivMod, Zenon
<1> HIDE DEF q, r
<1>3. ~(p + 1 <= q)
  <2> SUFFICES ASSUME p + 1 <= q
               PROVE  FALSE
    BY Zenon
  <2>1. (p + 1) * k <= q * k
    BY <1>2, TimesMonotonic
  <2>2. (p + 1) * k = p * k + k
    OBVIOUS
  <2>3. q * k \in Nat
    BY <1>2
  <2> QED
    BY <1>1, <1>2, <2>1, <2>2, <2>3
<1>4. ~(q + 1 <= p)
  <2> SUFFICES ASSUME q + 1 <= p
               PROVE  FALSE
    BY Zenon
  <2>1. (q + 1) * k <= p * k
    BY <1>2, TimesMonotonic
  <2>2. (q + 1) * k = q * k + k
    BY <1>2
  <2>3. q * k \in Nat
    BY <1>2
  <2> QED
    BY <1>1, <1>2, <2>1, <2>2, <2>3
<1>5. p = q
  BY <1>2, <1>3, <1>4
<1>6. r = i
  BY <1>1, <1>2, <1>5
<1> QED
  BY <1>5, <1>6, Zenon DEF q, r

(***************************************************************************)
(* Division is monotonic.                                                  *)
(***************************************************************************)
LEMMA DivMonotonic ==
  ASSUME NEW x \in Nat, NEW y \in Nat, NEW k \in Nat \ {0}, x <= y
  PROVE  x \div k <= y \div k
<1> DEFINE q == x \div k
           r == y \div k
<1>1. q \in Nat /\ r \in Nat /\ q * k <= x /\ y < (r + 1) * k
  <2>1. /\ x \div k \in Nat /\ x % k \in 0 .. k - 1 /\ x = (x \div k) * k + (x % k)
        /\ y \div k \in Nat /\ y % k \in 0 .. k - 1 /\ y = (y \div k) * k + (y % k)
    BY DivMod, Zenon
  <2>2. \A n \in Nat : n * k \in Nat /\ (n + 1) * k = n * k + k
    OBVIOUS
  <2> QED
    BY <2>1, <2>2
<1> HIDE DEF q, r
<1>2. ~(r + 1 <= q)
  <2> SUFFICES ASSUME r + 1 <= q
               PROVE  FALSE
    BY Zenon
  <2>1. (r + 1) * k <= q * k
    BY <1>1, TimesMonotonic
  <2>2. q * k \in Nat /\ (r + 1) * k \in Nat
    BY <1>1
  <2> QED
    BY <1>1, <2>1, <2>2
<1>3. q <= r
  BY <1>1, <1>2
<1> QED
  BY <1>3, Zenon DEF q, r

-----------------------------------------------------------------------------
(* Offsets and cells. *)

\* A page is its data and at least a byte of checksum.
LEMMA PageSizes ==
  /\ LogicalPageSize \in Nat \ {0}
  /\ PhysicalPageSize \in Nat \ {0}
  /\ LogicalPageSize < PhysicalPageSize
BY PageSizeAssumption DEF PhysicalPageSize

(***************************************************************************)
(* logicalToPhysical leads to a data byte of the page of the offset.       *)
(***************************************************************************)
LEMMA ToPhysical ==
  ASSUME NEW x \in Nat
  PROVE  /\ x \div LogicalPageSize \in Nat
         /\ x % LogicalPageSize \in 0 .. LogicalPageSize - 1
         /\ logicalToPhysical(x)
              = (x \div LogicalPageSize) * PhysicalPageSize + (x % LogicalPageSize)
         /\ logicalToPhysical(x) \in Nat
<1>1. x \div LogicalPageSize \in Nat /\ x % LogicalPageSize \in 0 .. LogicalPageSize - 1
  BY DivMod, PageSizes, Zenon
<1>2. \A n, m \in Nat : n * m \in Nat
  OBVIOUS
<1>3. (x \div LogicalPageSize) * PhysicalPageSize \in Nat
  BY <1>1, <1>2, PageSizes, Zenon
<1>4. logicalToPhysical(x) = (x \div LogicalPageSize) * PhysicalPageSize + (x % LogicalPageSize)
  BY Zenon DEF logicalToPhysical
<1> QED
  BY <1>1, <1>3, <1>4, PageSizes

(***************************************************************************)
(* physicalToLogical yields an offset; of a whole number of pages, their   *)
(* data bytes.                                                             *)
(***************************************************************************)
LEMMA ToLogical ==
  /\ \A x \in Nat : physicalToLogical(x) \in Nat
  /\ \A n \in Nat : physicalToLogical(n * PhysicalPageSize) = n * LogicalPageSize
<1>1. \A n, m \in Nat : n * m \in Nat
  OBVIOUS
<1>2. ASSUME NEW x \in Nat
      PROVE  physicalToLogical(x) \in Nat
  <2>1. x \div PhysicalPageSize \in Nat /\ x % PhysicalPageSize \in Nat
    BY DivMod, PageSizes
  <2>2. (x \div PhysicalPageSize) * LogicalPageSize \in Nat
    BY <1>1, <2>1, PageSizes, Zenon
  <2>3. Lesser(x % PhysicalPageSize, LogicalPageSize) \in Nat
    BY <2>1, PageSizes, Zenon DEF Lesser
  <2> QED
    BY <2>2, <2>3 DEF physicalToLogical
<1>3. ASSUME NEW n \in Nat
      PROVE  physicalToLogical(n * PhysicalPageSize) = n * LogicalPageSize
  <2>1. 0 \in 0 .. PhysicalPageSize - 1
    BY PageSizes
  <2>2. n * PhysicalPageSize \in Nat /\ n * LogicalPageSize \in Nat
    BY <1>1, PageSizes, Zenon
  <2>3. n * PhysicalPageSize + 0 = n * PhysicalPageSize
    BY <2>2
  <2>4. (n * PhysicalPageSize) \div PhysicalPageSize = n
          /\ (n * PhysicalPageSize) % PhysicalPageSize = 0
    BY <2>1, <2>3, DivUnique, PageSizes
  <2>5. Lesser(0, LogicalPageSize) = 0
    BY PageSizes DEF Lesser
  <2> QED
    BY <2>2, <2>4, <2>5 DEF physicalToLogical
<1> QED
  BY <1>2, <1>3, Zenon

\* The place of cell i of page p on the disk.
CellNumber(p, i) == p * PhysicalPageSize + i + 1

(***************************************************************************)
(* Every cell has one page and one place in it.                            *)
(***************************************************************************)
LEMMA CellPlace ==
  ASSUME NEW p \in Nat, NEW i \in 0 .. PhysicalPageSize - 1
  PROVE  /\ CellNumber(p, i) \in Nat \ {0}
         /\ (CellNumber(p, i) - 1) \div PhysicalPageSize = p
         /\ (CellNumber(p, i) - 1) % PhysicalPageSize = i
         /\ \A d : CellAt(d, p, i) = d[CellNumber(p, i)]
         /\ \A n \in Nat : p < n => CellNumber(p, i) <= n * PhysicalPageSize
<1> DEFINE K == PhysicalPageSize
<1>1. K \in Nat \ {0} /\ p * K \in Nat
  BY PageSizes
<1>2. (p * K + i) \div K = p /\ (p * K + i) % K = i
  BY <1>1, DivUnique, Zenon
<1>3. CellNumber(p, i) = (p * K + i) + 1 /\ CellNumber(p, i) - 1 = p * K + i
  BY <1>1 DEF CellNumber
<1>4. \A n \in Nat : p < n => CellNumber(p, i) <= n * K
  <2> TAKE n \in Nat
  <2> HAVE p < n
  <2>1. (p + 1) * K <= n * K
    BY <1>1, TimesMonotonic
  <2>2. (p + 1) * K = p * K + K /\ n * K \in Nat
    BY <1>1
  <2> QED
    BY <1>1, <1>3, <2>1, <2>2
<1>5. \A d : CellAt(d, p, i) = d[CellNumber(p, i)]
  BY Zenon DEF CellAt, CellNumber
<1> QED
  BY <1>1, <1>2, <1>3, <1>4, <1>5

(***************************************************************************)
(* ... and back.                                                           *)
(***************************************************************************)
LEMMA PlaceOfCell ==
  ASSUME NEW c \in Nat \ {0}
  PROVE  /\ (c - 1) \div PhysicalPageSize \in Nat
         /\ (c - 1) % PhysicalPageSize \in 0 .. PhysicalPageSize - 1
         /\ c = CellNumber((c - 1) \div PhysicalPageSize, (c - 1) % PhysicalPageSize)
<1>1. c - 1 \in Nat
  OBVIOUS
<1>2. /\ (c - 1) \div PhysicalPageSize \in Nat
      /\ (c - 1) % PhysicalPageSize \in 0 .. PhysicalPageSize - 1
      /\ c - 1 = ((c - 1) \div PhysicalPageSize) * PhysicalPageSize
                   + ((c - 1) % PhysicalPageSize)
  BY <1>1, DivMod, PageSizes, Zenon
<1>3. \A n, m \in Nat : n * m \in Nat
  OBVIOUS
<1>4. ((c - 1) \div PhysicalPageSize) * PhysicalPageSize \in Nat
  BY <1>2, <1>3, PageSizes, Zenon
<1> QED
  BY <1>2, <1>4 DEF CellNumber

-----------------------------------------------------------------------------
(* What write and extend store. *)

(***************************************************************************)
(* Only bytes where data belong.  It makes TypeOK inductive: what a read   *)
(* returns, and what the page buffer holds, comes from there.              *)
(***************************************************************************)
DataCells(d) ==
  \A c \in 1 .. Len(d) : (c - 1) % PhysicalPageSize < LogicalPageSize => d[c] \in Byte

\* A data cell of a page that is on the disk is a byte.
LEMMA DataCellType ==
  ASSUME NEW d \in Seq(Cell), DataCells(d), NEW p \in Nat, PageComplete(d, p),
         NEW i \in 0 .. LogicalPageSize - 1
  PROVE  CellAt(d, p, i) \in Byte
<1>1. i \in 0 .. PhysicalPageSize - 1 /\ i < LogicalPageSize /\ Len(d) \in Nat
  BY PageSizes, LenProperties
<1>2. /\ CellNumber(p, i) \in Nat \ {0}
      /\ (CellNumber(p, i) - 1) % PhysicalPageSize = i
      /\ CellAt(d, p, i) = d[CellNumber(p, i)]
      /\ CellNumber(p, i) <= (p + 1) * PhysicalPageSize
  <2>1. p + 1 \in Nat /\ p < p + 1
    OBVIOUS
  <2> QED
    BY <1>1, <2>1, CellPlace, Zenon
<1>3. (p + 1) * PhysicalPageSize <= Len(d)
  BY Zenon DEF PageComplete
<1>4. (p + 1) * PhysicalPageSize \in Nat
  BY PageSizes
<1>5. CellNumber(p, i) \in 1 .. Len(d)
  BY <1>1, <1>2, <1>3, <1>4
<1> QED
  BY <1>1, <1>2, <1>5, Zenon DEF DataCells

\* readPhysicalPage leaves bytes in the buffer, unless it throws.
LEMMA InBufferType ==
  ASSUME NEW d \in Seq(Cell), DataCells(d), NEW p \in Nat, ~Torn(d, p),
         NEW i \in 0 .. LogicalPageSize - 1
  PROVE  InBuffer(d, p, i) \in Byte
<1>1. CASE PageStarted(d, p)
  BY <1>1, DataCellType, Zenon DEF Torn, InBuffer
<1>2. CASE ~PageStarted(d, p)
  BY <1>2, ByteAssumption, Zenon DEF InBuffer
<1> QED
  BY <1>1, <1>2, Zenon

(***************************************************************************)
(* The data of a page to be stored are bytes, if neither it nor the page   *)
(* the buffer was used for before it is torn.                              *)
(***************************************************************************)
LEMMA PageImageType ==
  ASSUME NEW d \in Seq(Cell), DataCells(d), NEW start \in Nat, NEW buf \in Seq(Byte),
         NEW p \in Nat, ~Torn(d, p),
         p # start \div LogicalPageSize => p - 1 \in Nat /\ ~Torn(d, p - 1)
  PROVE  PageImage(d, start, buf, p) \in PageData
<1> DEFINE end == start + Len(buf)
           Covered(q, i) == q * LogicalPageSize + i \in start .. end - 1
           New(q, i) == buf[q * LogicalPageSize + i - start + 1]
           First == start \div LogicalPageSize
           Value(i) == IF Covered(p, i) THEN New(p, i)
                       ELSE IF PageStarted(d, p) \/ p = First THEN InBuffer(d, p, i)
                       ELSE IF Covered(p - 1, i) THEN New(p - 1, i)
                       ELSE InBuffer(d, p - 1, i)
<1>1. ASSUME NEW q \in Nat, NEW i \in 0 .. LogicalPageSize - 1, Covered(q, i)
      PROVE  New(q, i) \in Byte
  <2>1. Len(buf) \in Nat /\ q * LogicalPageSize \in Nat
    BY PageSizes, LenProperties
  <2>2. q * LogicalPageSize + i - start + 1 \in 1 .. Len(buf)
    BY <1>1, <2>1
  <2> QED
    BY <2>2, ElementOfSeq, Zenon
<1>2. \A i \in 0 .. LogicalPageSize - 1 : InBuffer(d, p, i) \in Byte
  BY InBufferType, Zenon
<1>3. p # First => p - 1 \in Nat /\ \A i \in 0 .. LogicalPageSize - 1 : InBuffer(d, p - 1, i) \in Byte
  BY InBufferType, Zenon
<1>4. PageImage(d, start, buf, p) = [i \in 0 .. LogicalPageSize - 1 |-> Value(i)]
  BY Zenon DEF PageImage
<1> HIDE DEF Covered, New, First
<1>5. \A i \in 0 .. LogicalPageSize - 1 : Value(i) \in Byte
  BY <1>1, <1>2, <1>3, Zenon
<1> HIDE DEF Value
<1> QED
  BY <1>4, <1>5, Zenon DEF PageData

\* Cell c of the disk after a call that stored stored[p] cells of each page p.
NewCell(d, start, buf, stored, c) ==
  LET p == (c - 1) \div PhysicalPageSize
      i == (c - 1) % PhysicalPageSize
  IN  IF p \in DOMAIN stored /\ i < stored[p]
      THEN CellOf(PageImage(d, start, buf, p), i)
      ELSE IF c <= Len(d) THEN d[c] ELSE Zero

\* The length of that disk, of a call that stored pages a to b.
NewLength(d, a, b, stored) ==
  IF b < a THEN Len(d) ELSE Greater(Len(d), b * PhysicalPageSize + stored[b])

\* Disk e is disk d after that call.
IsStored(e, d, start, buf, a, b, stored) ==
  LET n == NewLength(d, a, b, stored)
  IN  /\ n \in Nat
      /\ Len(d) <= n
      /\ \A c \in 1 .. n : e[c] = NewCell(d, start, buf, stored, c)
      /\ \A T : (\A c \in 1 .. n : NewCell(d, start, buf, stored, c) \in T) =>
               e \in [1 .. n -> T]

(***************************************************************************)
(* The disk reaches to the end of the last page stored, if that is past    *)
(* its end.                                                                *)
(***************************************************************************)
LEMMA StorePagesLength ==
  ASSUME NEW d \in Seq(Cell), NEW start, NEW buf, NEW a \in Nat, NEW b \in Int,
         NEW stored \in [a .. b -> 0 .. PhysicalPageSize]
  PROVE  IsStored(StorePages(d, start, buf, stored), d, start, buf, a, b, stored)
<1> DEFINE K == PhysicalPageSize
           n == NewLength(d, a, b, stored)
           extent == {Len(d)} \cup {p * K + stored[p] : p \in DOMAIN stored}
           N == CHOOSE x \in extent : \A m \in extent : m <= x
<1>1. K \in Nat \ {0} /\ Len(d) \in Nat /\ DOMAIN stored = a .. b
  BY PageSizes, LenProperties, Zenon
<1>2. \A p \in a .. b : p \in Nat /\ stored[p] \in Nat /\ stored[p] <= K /\ p * K \in Nat
  BY <1>1
<1> HIDE DEF K
<1>3. n \in Nat /\ n \in extent /\ Len(d) <= n
  <2>1. CASE b < a
    BY <1>1, <2>1 DEF NewLength
  <2>2. CASE ~(b < a)
    <3>1. b \in a .. b
      BY <2>2
    <3>2. b * K + stored[b] \in Nat /\ b * K + stored[b] \in extent
      BY <1>1, <1>2, <3>1
    <3>3. n = Greater(Len(d), b * K + stored[b])
      BY <2>2, Zenon DEF NewLength, K
    <3> HIDE DEF n, extent
    <3>4. Len(d) \in extent
      BY Zenon DEF extent
    <3> QED
      BY <1>1, <3>2, <3>3, <3>4 DEF Greater
  <2> QED
    BY <2>1, <2>2, Zenon
<1>4. \A m \in extent : m \in Nat /\ m <= n
  <2>1. ASSUME NEW p \in a .. b
        PROVE  p * K + stored[p] \in Nat /\ p * K + stored[p] <= n
    <3>1. b \in a .. b /\ ~(b < a) /\ p \in Nat /\ b \in Nat
      BY <2>1
    <3>2. b * K + stored[b] <= n /\ b * K + stored[b] \in Nat
      <4>1. b * K + stored[b] \in Nat
        BY <1>2, <3>1
      <4>2. n = Greater(Len(d), b * K + stored[b])
        BY <3>1, Zenon DEF NewLength, K
      <4> HIDE DEF n
      <4> QED
        BY <1>1, <4>1, <4>2 DEF Greater
    <3>3. CASE p = b
      BY <3>2, <3>3, Zenon
    <3>4. CASE p < b
      <4>1. (p + 1) * K <= b * K
        BY <1>1, <3>1, <3>4, TimesMonotonic
      <4>2. (p + 1) * K = p * K + K
        BY <1>1, <3>1
      <4>3. p * K \in Nat /\ stored[p] \in Nat /\ stored[p] <= K
        BY <1>2, Zenon
      <4>4. b * K \in Nat /\ stored[b] \in Nat
        BY <1>2, <3>1, Zenon
      <4>5. n \in Nat
        BY <1>3, Zenon
      <4>6. \A x, y, u, v, k, m \in Nat : x + k <= y /\ u <= k /\ y + v <= m => x + u <= m
        OBVIOUS
      <4> HIDE DEF n, extent
      <4>7. p * K + K <= b * K
        BY <4>1, <4>2, Zenon
      <4>8. p * K + stored[p] \in Nat
        BY <4>3
      <4>9. K \in Nat
        BY <1>1, Zenon
      <4>10. p * K + stored[p] <= n
        BY <3>2, <4>3, <4>4, <4>5, <4>6, <4>7, <4>9, Zenon
      <4> QED
        BY <4>8, <4>10, Zenon
    <3> QED
      BY <3>1, <3>3, <3>4
  <2> HIDE DEF n
  <2> QED
    BY <1>1, <1>3, <2>1, Zenon
<1> HIDE DEF n
<1>5. N = n
  <2> HIDE DEF extent
  <2>1. N \in extent /\ \A m \in extent : m <= N
    BY <1>3, <1>4, Zenon
  <2>2. N \in Nat /\ N <= n /\ n <= N
    BY <1>3, <1>4, <2>1, Zenon
  <2> QED
    BY <1>3, <2>2
<1>6. StorePages(d, start, buf, stored) =
        [c \in 1 .. N |-> NewCell(d, start, buf, stored, c)]
  BY Zenon DEF StorePages, NewCell, K
<1> HIDE DEF N
<1>7. /\ \A c \in 1 .. n :
           StorePages(d, start, buf, stored)[c] = NewCell(d, start, buf, stored, c)
      /\ \A T : (\A c \in 1 .. n : NewCell(d, start, buf, stored, c) \in T) =>
               StorePages(d, start, buf, stored) \in [1 .. n -> T]
  BY <1>5, <1>6, Zenon
<1> QED
  BY <1>3, <1>7, Zenon DEF n, IsStored

\* A function on 1 .. n with values in S is a sequence over S.
LEMMA FunctionIsSeq ==
  ASSUME NEW S, NEW n \in Nat, NEW f \in [1 .. n -> S]
  PROVE  f \in Seq(S) /\ Len(f) = n
BY SeqDef

(***************************************************************************)
(* Storing pages of bytes leaves a disk with bytes where data belong.      *)
(***************************************************************************)
LEMMA StorePagesType ==
  ASSUME NEW d \in Seq(Cell), DataCells(d), NEW start, NEW buf, NEW a \in Nat, NEW b \in Int,
         NEW stored \in [a .. b -> 0 .. PhysicalPageSize],
         \A p \in a .. b : PageImage(d, start, buf, p) \in PageData
  PROVE  LET e == StorePages(d, start, buf, stored)
         IN  /\ e \in Seq(Cell)
             /\ Len(e) = NewLength(d, a, b, stored)
             /\ DataCells(e)
<1> DEFINE e == StorePages(d, start, buf, stored)
           n == NewLength(d, a, b, stored)
<1>1. /\ n \in Nat
      /\ \A c \in 1 .. n : e[c] = NewCell(d, start, buf, stored, c)
      /\ (\A c \in 1 .. n : NewCell(d, start, buf, stored, c) \in Cell) => e \in [1 .. n -> Cell]
  <2>1. IsStored(e, d, start, buf, a, b, stored)
    BY StorePagesLength, Zenon
  <2> HIDE DEF e
  <2> QED
    BY <2>1, Zenon DEF IsStored
<1> HIDE DEF n, e
<1>2. ASSUME NEW c \in 1 .. n
      PROVE  /\ NewCell(d, start, buf, stored, c) \in Cell
             /\ (c - 1) % PhysicalPageSize < LogicalPageSize =>
                  NewCell(d, start, buf, stored, c) \in Byte
  <2> DEFINE p == (c - 1) \div PhysicalPageSize
             i == (c - 1) % PhysicalPageSize
             image == PageImage(d, start, buf, p)
  <2>1. p \in Nat /\ i \in 0 .. PhysicalPageSize - 1 /\ c \in Nat \ {0}
    <3>1. c \in Nat \ {0}
      BY <1>1
    <3> QED
      BY <3>1, PlaceOfCell, Zenon
  <2>2. CASE p \in a .. b /\ i < stored[p]
    <3>1. NewCell(d, start, buf, stored, c) = CellOf(image, i)
      BY <2>2, Zenon DEF NewCell
    <3>2. image \in PageData
      BY <2>2, Zenon
    <3> HIDE DEF image, i, p
    <3>3. i < LogicalPageSize => i \in 0 .. LogicalPageSize - 1
      BY <2>1, PageSizes
    <3>4. i < LogicalPageSize => CellOf(image, i) \in Byte
      BY <3>2, <3>3, Zenon DEF PageData, CellOf
    <3>5. ~(i < LogicalPageSize) => CellOf(image, i) \in PageData
      BY <3>2, Zenon DEF CellOf, checksum
    <3> QED
      BY <3>1, <3>4, <3>5, Zenon DEF Cell, i
  <2>3. CASE ~(p \in a .. b /\ i < stored[p]) /\ c <= Len(d)
    <3>1. NewCell(d, start, buf, stored, c) = d[c]
      BY <2>3, Zenon DEF NewCell
    <3>2. c \in 1 .. Len(d)
      BY <2>1, <2>3, LenProperties
    <3>3. d[c] \in Cell
      BY <3>2, ElementOfSeq, Zenon
    <3> QED
      BY <3>1, <3>2, <3>3, Zenon DEF DataCells
  <2>4. CASE ~(p \in a .. b /\ i < stored[p]) /\ ~(c <= Len(d))
    <3>1. NewCell(d, start, buf, stored, c) = Zero
      BY <2>4, Zenon DEF NewCell
    <3> QED
      BY <3>1, ByteAssumption, Zenon DEF Cell
  <2> QED
    BY <2>2, <2>3, <2>4, Zenon
<1>3. e \in [1 .. n -> Cell]
  BY <1>1, <1>2, Zenon
<1>4. e \in Seq(Cell) /\ Len(e) = n
  BY <1>1, <1>3, FunctionIsSeq, Zenon
<1>5. DataCells(e)
  BY <1>1, <1>2, <1>4, Zenon DEF DataCells
<1> QED
  BY <1>4, <1>5, Zenon DEF e, n

\* The last page of a call that stores length bytes from start on.
LastPage(start, length) ==
  IF length = 0 THEN (start \div LogicalPageSize) - 1
  ELSE (start + length - 1) \div LogicalPageSize

(***************************************************************************)
(* The pages of a call.                                                    *)
(***************************************************************************)
LEMMA PagesOfCall ==
  ASSUME NEW start \in Nat, NEW length \in Nat
  PROVE  /\ start \div LogicalPageSize \in Nat
         /\ LastPage(start, length) \in Int
         /\ PagesOf(start, start + length)
              = start \div LogicalPageSize .. LastPage(start, length)
<1>1. start \div LogicalPageSize \in Nat
  BY DivMod, PageSizes, Zenon
<1>2. CASE length = 0
  BY <1>1, <1>2 DEF PagesOf, LastPage
<1>3. CASE length # 0
  <2>1. start + length - 1 \in Nat /\ start # start + length
    BY <1>3
  <2>2. (start + length - 1) \div LogicalPageSize \in Nat
    BY <2>1, DivMod, PageSizes, Zenon
  <2> QED
    BY <1>1, <1>3, <2>1, <2>2 DEF PagesOf, LastPage
<1> QED
  BY <1>2, <1>3, Zenon

\* What writePhysicalPage stores of a page is at most the page.
LEMMA StoredCountsType ==
  ASSUME NEW P, NEW stored \in StoredCounts(P)
  PROVE  /\ stored \in [P -> 0 .. PhysicalPageSize]
         /\ ~ShortWrites => stored = [p \in P |-> PhysicalPageSize]
<1> DEFINE full == [p \in P |-> PhysicalPageSize]
<1>1. full \in [P -> 0 .. PhysicalPageSize]
  BY PageSizes
<1>2. \/ stored = full
      \/ ShortWrites /\ \E p \in P, n \in 0 .. PhysicalPageSize - 1 : stored = [full EXCEPT ![p] = n]
  BY DEF StoredCounts
<1> HIDE DEF full
<1>3. ASSUME NEW p \in P, NEW n \in 0 .. PhysicalPageSize - 1
      PROVE  [full EXCEPT ![p] = n] \in [P -> 0 .. PhysicalPageSize]
  <2>1. n \in 0 .. PhysicalPageSize
    BY PageSizes
  <2> QED
    BY <1>1, <2>1, Zenon
<1> QED
  BY <1>1, <1>2, <1>3 DEF full

\* The inductive invariant for the types: a data cell holds a byte.
TypeInv == TypeOK /\ DataCells(disk)

(***************************************************************************)
(* The pages of a call that reads no torn page are stored with bytes for   *)
(* data.                                                                   *)
(***************************************************************************)
LEMMA ImagesOfCall ==
  ASSUME TypeInv, NEW start \in Nat, NEW buf \in Seq(Byte), NEW b \in Int,
         \A p \in start \div LogicalPageSize .. b : ~Torn(disk, p)
  PROVE  \A p \in start \div LogicalPageSize .. b : PageImage(disk, start, buf, p) \in PageData
<1> DEFINE a == start \div LogicalPageSize
<1>1. a \in Nat /\ disk \in Seq(Cell) /\ DataCells(disk)
  BY DivMod, PageSizes, Zenon DEF TypeInv, TypeOK
<1> SUFFICES ASSUME NEW p \in a .. b
             PROVE  PageImage(disk, start, buf, p) \in PageData
  BY Zenon
<1>2. p \in Nat /\ ~Torn(disk, p)
  BY <1>1
<1>3. p # a => p - 1 \in Nat /\ p - 1 \in a .. b
  BY <1>1
<1> QED
  BY <1>1, <1>2, <1>3, PageImageType, Zenon

(***************************************************************************)
(* The disk of a call that stores its pages up to page b.                  *)
(***************************************************************************)
LEMMA CallStores ==
  ASSUME TypeInv, NEW start \in Nat, NEW buf \in Seq(Byte), NEW b \in Int,
         NEW P, P = start \div LogicalPageSize .. b, \A p \in P : ~Torn(disk, p),
         NEW stored \in StoredCounts(P)
  PROVE  LET e == StorePages(disk, start, buf, stored)
         IN  /\ e \in Seq(Cell)
             /\ Len(e) = NewLength(disk, start \div LogicalPageSize, b, stored)
             /\ DataCells(e)
<1> DEFINE a == start \div LogicalPageSize
<1>1. a \in Nat /\ disk \in Seq(Cell) /\ DataCells(disk)
  BY DivMod, PageSizes, Zenon DEF TypeInv, TypeOK
<1>2. stored \in [a .. b -> 0 .. PhysicalPageSize]
  BY StoredCountsType, Zenon
<1>3. \A p \in a .. b : PageImage(disk, start, buf, p) \in PageData
  BY ImagesOfCall, Zenon
<1> QED
  BY <1>1, <1>2, <1>3, StorePagesType, Zenon

\* A call from start on that stores its pages up to page b.
Stores(start, buf, b) ==
  LET P == start \div LogicalPageSize .. b
  IN  /\ \A p \in P : ~Torn(disk, p)
      /\ \E stored \in StoredCounts(P) : disk' = StorePages(disk, start, buf, stored)

(***************************************************************************)
(* A call that ends stores all its pages.                                  *)
(***************************************************************************)
LEMMA StoreAllStores ==
  ASSUME TypeInv, NEW start \in Nat, NEW buf \in Seq(Byte), StoreAll(start, buf)
  PROVE  /\ Stores(start, buf, LastPage(start, Len(buf)))
         /\ cursor' \in Nat
         /\ outcome' \in [ok : BOOLEAN, data : Seq(Byte)]
<1> DEFINE P == PagesOf(start, start + Len(buf))
<1>1. Len(buf) \in Nat /\ start + Len(buf) \in Nat
  BY LenProperties
<1>2. P = start \div LogicalPageSize .. LastPage(start, Len(buf))
  BY <1>1, PagesOfCall, Zenon
<1>3. /\ \A p \in P : ~Torn(disk, p)
      /\ \E stored \in StoredCounts(P) : disk' = StorePages(disk, start, buf, stored)
  BY Zenon DEF StoreAll
<1>4. cursor' = logicalToPhysical(start + Len(buf)) /\ outcome' = Done(buf)
  BY Zenon DEF StoreAll
<1>5. cursor' \in Nat
  BY <1>1, <1>4, ToPhysical, Zenon
<1> HIDE DEF P
<1> QED
  BY <1>2, <1>3, <1>4, <1>5, Zenon DEF Stores, Done

(***************************************************************************)
(* A call that an error stops at page f stores its pages before f.         *)
(***************************************************************************)
LEMMA StoreUntilStores ==
  ASSUME TypeInv, NEW start \in Nat, NEW buf \in Seq(Byte), NEW f, StoreUntil(start, buf, f)
  PROVE  /\ f \in Int
         /\ Stores(start, buf, f - 1)
         /\ cursor' \in Nat
         /\ outcome' \in [ok : BOOLEAN, data : Seq(Byte)]
         /\ logicalLength' = logicalLength
<1> DEFINE P == PagesOf(start, start + Len(buf))
           before == {p \in P : p < f}
           a == start \div LogicalPageSize
<1>1. Len(buf) \in Nat
  BY LenProperties, Zenon
<1>2. P = a .. LastPage(start, Len(buf)) /\ a \in Nat /\ LastPage(start, Len(buf)) \in Int
  BY <1>1, PagesOfCall, Zenon
<1>3. /\ f \in P
      /\ \A p \in before : ~Torn(disk, p)
      /\ \E stored \in StoredCounts(before) : disk' = StorePages(disk, start, buf, stored)
      /\ cursor' = IF Torn(disk, f) THEN Len(disk) ELSE f * PhysicalPageSize
      /\ outcome' = Exception(buf)
      /\ logicalLength' = logicalLength
  BY Zenon DEF StoreUntil
<1> HIDE DEF a, P
<1>4. f \in Nat /\ before = a .. f - 1
  BY <1>2, <1>3
<1> HIDE DEF before
<1>5. Stores(start, buf, f - 1)
  BY <1>3, <1>4, Zenon DEF Stores, a
<1>6. cursor' \in Nat
  <2>1. Len(disk) \in Nat /\ f * PhysicalPageSize \in Nat
    BY <1>4, PageSizes, LenProperties DEF TypeInv, TypeOK
  <2> QED
    BY <1>3, <2>1, Zenon
<1> QED
  BY <1>3, <1>4, <1>5, <1>6 DEF Exception

(***************************************************************************)
(* The disk of such a call is well formed.                                 *)
(***************************************************************************)
LEMMA StoresType ==
  ASSUME TypeInv, NEW start \in Nat, NEW buf \in Seq(Byte), NEW b \in Int,
         Stores(start, buf, b)
  PROVE  disk' \in Seq(Cell) /\ DataCells(disk')
<1> DEFINE P == start \div LogicalPageSize .. b
<1>1. PICK stored \in StoredCounts(P) : disk' = StorePages(disk, start, buf, stored)
  BY Zenon DEF Stores
<1>2. \A p \in P : ~Torn(disk, p)
  BY Zenon DEF Stores
<1> QED
  BY <1>1, <1>2, CallStores, Zenon

\* What extend writes.
Zeros(newLength) == [i \in 1 .. newLength - logicalLength |-> Zero]

\* What extend writes is bytes, as many as the file grows by.
LEMMA ZerosType ==
  ASSUME TypeInv, NEW newLength \in Nat, newLength >= logicalLength
  PROVE  Zeros(newLength) \in Seq(Byte) /\ Len(Zeros(newLength)) = newLength - logicalLength
<1>1. newLength - logicalLength \in Nat
  BY DEF TypeInv, TypeOK
<1>2. Zeros(newLength) \in [1 .. newLength - logicalLength -> Byte]
  BY ByteAssumption, Zenon DEF Zeros
<1> QED
  BY <1>1, <1>2, FunctionIsSeq, Zenon

(***************************************************************************)
(* What write and extend do, in these terms.                               *)
(***************************************************************************)
LEMMA WriteStores ==
  ASSUME TypeInv, NEW buf \in Seq(Byte), write(buf)
  PROVE  LET start == physicalToLogical(cursor)
         IN  /\ mode = "write" /\ mode' = mode /\ policy' = policy
             /\ start \in Nat
             /\ cursor' \in Nat
             /\ outcome' \in [ok : BOOLEAN, data : Seq(Byte)]
             /\ \/ /\ Stores(start, buf, LastPage(start, Len(buf)))
                   /\ logicalLength' = Greater(logicalLength, start + Len(buf))
                \/ /\ \E b \in Int : Stores(start, buf, b)
                   /\ logicalLength' = logicalLength
<1> DEFINE start == physicalToLogical(cursor)
<1>1. start \in Nat
  BY ToLogical, Zenon DEF TypeInv, TypeOK
<1>2. /\ mode = "write" /\ mode' = mode /\ policy' = policy
      /\ \/ /\ StoreAll(start, buf)
            /\ logicalLength' = Greater(logicalLength, start + Len(buf))
         \/ \E f : StoreUntil(start, buf, f)
  BY Zenon DEF write
<1> HIDE DEF start
<1>3. CASE StoreAll(start, buf) /\ logicalLength' = Greater(logicalLength, start + Len(buf))
  BY <1>1, <1>2, <1>3, StoreAllStores, Zenon DEF start
<1>4. CASE \E f : StoreUntil(start, buf, f)
  <2>1. PICK f : StoreUntil(start, buf, f)
    BY <1>4, Zenon
  <2>2. /\ f \in Int
        /\ Stores(start, buf, f - 1)
        /\ cursor' \in Nat
        /\ outcome' \in [ok : BOOLEAN, data : Seq(Byte)]
        /\ logicalLength' = logicalLength
    BY <1>1, <2>1, StoreUntilStores, Zenon
  <2>3. f - 1 \in Int
    BY <2>2
  <2> QED
    BY <1>1, <1>2, <2>2, <2>3, Zenon DEF start
<1> QED
  BY <1>2, <1>3, <1>4, Zenon

\* What extend does, in the same terms.
LEMMA ExtendStores ==
  ASSUME TypeInv, NEW newLength \in Nat, extend(newLength)
  PROVE  /\ mode = "write" /\ mode' = mode /\ policy' = policy
         /\ cursor' \in Nat
         /\ outcome' \in [ok : BOOLEAN, data : Seq(Byte)]
         /\ \/ /\ newLength >= logicalLength
               /\ Stores(logicalLength, Zeros(newLength),
                         LastPage(logicalLength, newLength - logicalLength))
               /\ logicalLength' = newLength
            \/ /\ newLength >= logicalLength
               /\ \E b \in Int : Stores(logicalLength, Zeros(newLength), b)
               /\ logicalLength' = logicalLength
            \/ disk' = disk /\ logicalLength' = logicalLength
<1> DEFINE zeros == Zeros(newLength)
<1>1. logicalLength \in Nat /\ cursor \in Nat
  BY Zenon DEF TypeInv, TypeOK
<1>2. /\ mode = "write" /\ mode' = mode /\ policy' = policy
      /\ \/ /\ newLength >= logicalLength
            /\ StoreAll(logicalLength, zeros)
            /\ logicalLength' = newLength
         \/ /\ newLength >= logicalLength
            /\ \E f : StoreUntil(logicalLength, zeros, f)
         \/ /\ outcome' = Exception(<<>>)
            /\ disk' = disk /\ logicalLength' = logicalLength /\ cursor' = cursor
  BY Zenon DEF extend, Zeros
<1> HIDE DEF zeros
<1>3. CASE newLength >= logicalLength /\ StoreAll(logicalLength, zeros) /\ logicalLength' = newLength
  <2>1. zeros \in Seq(Byte) /\ Len(zeros) = newLength - logicalLength
    BY <1>3, ZerosType, Zenon DEF zeros
  <2>2. /\ Stores(logicalLength, zeros, LastPage(logicalLength, Len(zeros)))
        /\ cursor' \in Nat
        /\ outcome' \in [ok : BOOLEAN, data : Seq(Byte)]
    BY <1>1, <1>3, <2>1, StoreAllStores, Zenon
  <2> QED
    BY <1>2, <1>3, <2>1, <2>2, Zenon DEF zeros
<1>4. CASE newLength >= logicalLength /\ \E f : StoreUntil(logicalLength, zeros, f)
  <2>1. zeros \in Seq(Byte)
    BY <1>4, ZerosType, Zenon DEF zeros
  <2>2. PICK f : StoreUntil(logicalLength, zeros, f)
    BY <1>4, Zenon
  <2>3. /\ f \in Int
        /\ Stores(logicalLength, zeros, f - 1)
        /\ cursor' \in Nat
        /\ outcome' \in [ok : BOOLEAN, data : Seq(Byte)]
        /\ logicalLength' = logicalLength
    BY <1>1, <2>1, <2>2, StoreUntilStores, Zenon
  <2>4. f - 1 \in Int
    BY <2>3
  <2> QED
    BY <1>2, <1>4, <2>3, <2>4, Zenon DEF zeros
<1>5. CASE outcome' = Exception(<<>>) /\ disk' = disk /\ logicalLength' = logicalLength /\ cursor' = cursor
  BY <1>1, <1>2, <1>5 DEF Exception
<1> QED
  BY <1>2, <1>3, <1>4, <1>5, Zenon

(***************************************************************************)
(* A logical offset in a page that is on the disk leads to a byte.         *)
(***************************************************************************)
LEMMA ByteAtType ==
  ASSUME NEW d \in Seq(Cell), DataCells(d), NEW x \in Nat,
         PageComplete(d, x \div LogicalPageSize)
  PROVE  ByteAt(d, x) \in Byte
<1> DEFINE p == x \div LogicalPageSize
           i == x % LogicalPageSize
<1>1. p \in Nat /\ i \in 0 .. LogicalPageSize - 1 /\ logicalToPhysical(x) = p * PhysicalPageSize + i
  BY ToPhysical, Zenon
<1>2. CellAt(d, p, i) \in Byte
  BY <1>1, DataCellType, Zenon
<1>3. CellAt(d, p, i) = d[p * PhysicalPageSize + i + 1]
  BY Zenon DEF CellAt
<1> QED
  BY <1>1, <1>2, <1>3, Zenon DEF ByteAt

(***************************************************************************)
(* read returns bytes or an exception, and changes only the cursor.        *)
(***************************************************************************)
LEMMA ReadType ==
  ASSUME TypeInv, NEW n \in Nat, read(n)
  PROVE  /\ UNCHANGED <<disk, mode, logicalLength, policy>>
         /\ cursor' \in Nat
         /\ outcome' \in [ok : BOOLEAN, data : Seq(Byte)]
<1> DEFINE start == physicalToLogical(cursor)
           end == start + n
           P == PagesOf(start, end)
           bad == {p \in P : ~PageReads(p, start, end)}
           data == [i \in 1 .. n |-> ByteAt(disk, start + i - 1)]
<1>1. UNCHANGED <<disk, mode, logicalLength, policy>>
  BY Zenon DEF read
<1>2. \/ bad = {} /\ cursor' = logicalToPhysical(end) /\ outcome' = Done(data)
      \/ /\ \E p \in bad : cursor' = Lesser((p + 1) * PhysicalPageSize, Len(disk))
         /\ outcome' = Exception(<<>>)
      \/ (\E p \in P : cursor' = p * PhysicalPageSize) /\ outcome' = Exception(<<>>)
      \/ outcome' = Exception(<<>>) /\ cursor' = cursor
  BY Zenon DEF read
<1>3. start \in Nat /\ end \in Nat /\ cursor \in Nat /\ disk \in Seq(Cell) /\ DataCells(disk)
  <2>1. cursor \in Nat /\ disk \in Seq(Cell) /\ DataCells(disk)
    BY Zenon DEF TypeInv, TypeOK
  <2>2. start \in Nat
    BY <2>1, ToLogical, Zenon
  <2> HIDE DEF start
  <2> QED
    BY <2>1, <2>2
<1> HIDE DEF start
<1>4. P = start \div LogicalPageSize .. LastPage(start, n) /\ start \div LogicalPageSize \in Nat
  BY <1>3, PagesOfCall, Zenon
<1> HIDE DEF P, bad, data
<1>5. CASE bad = {} /\ cursor' = logicalToPhysical(end) /\ outcome' = Done(data)
  <2>1. ASSUME NEW i \in 1 .. n
        PROVE  ByteAt(disk, start + i - 1) \in Byte
    <3> DEFINE x == start + i - 1
               last == start + n - 1
               p == x \div LogicalPageSize
    <3>1. x \in Nat /\ last \in Nat /\ start <= x /\ x <= last /\ n # 0
      BY <1>3
    <3>2. LastPage(start, n) = last \div LogicalPageSize
      BY <3>1, Zenon DEF LastPage
    <3> HIDE DEF x, last
    <3>3. /\ start \div LogicalPageSize <= p
          /\ p <= last \div LogicalPageSize
          /\ p \in Nat
          /\ last \div LogicalPageSize \in Nat
      BY <1>3, <3>1, DivMonotonic, DivMod, PageSizes, Zenon
    <3> HIDE DEF p
    <3>4. p \in P
      BY <1>4, <3>2, <3>3
    <3>5. PageComplete(disk, p)
      BY <1>5, <3>4, Zenon DEF bad, PageReads
    <3>6. ByteAt(disk, x) \in Byte
      BY <1>3, <3>1, <3>5, ByteAtType, Zenon DEF p
    <3> QED
      BY <3>6, Zenon DEF x
  <2>2. data \in [1 .. n -> Byte]
    BY <2>1, Zenon DEF data
  <2>3. data \in Seq(Byte)
    BY <2>2, FunctionIsSeq, Zenon
  <2> QED
    BY <1>1, <1>3, <1>5, <2>3, ToPhysical, Zenon DEF Done
<1>6. CASE /\ \E p \in bad : cursor' = Lesser((p + 1) * PhysicalPageSize, Len(disk))
           /\ outcome' = Exception(<<>>)
  <2>1. PICK p \in bad : cursor' = Lesser((p + 1) * PhysicalPageSize, Len(disk))
    BY <1>6, Zenon
  <2>2. p \in Nat
    BY <1>4, <2>1 DEF bad
  <2>3. (p + 1) * PhysicalPageSize \in Nat /\ Len(disk) \in Nat
    BY <1>3, <2>2, PageSizes, LenProperties
  <2> QED
    BY <1>1, <1>6, <2>1, <2>3 DEF Lesser, Exception
<1>7. CASE outcome' = Exception(<<>>) /\ cursor' = cursor
  BY <1>1, <1>3, <1>7 DEF Exception
<1>8. CASE (\E p \in P : cursor' = p * PhysicalPageSize) /\ outcome' = Exception(<<>>)
  <2>1. PICK p \in P : cursor' = p * PhysicalPageSize
    BY <1>8, Zenon
  <2>2. p \in Nat
    BY <1>4, <2>1
  <2>3. p * PhysicalPageSize \in Nat
    BY <2>2, PageSizes
  <2> QED
    BY <1>1, <1>8, <2>1, <2>3 DEF Exception
<1> QED
  BY <1>2, <1>5, <1>6, <1>7, <1>8, Zenon

\* What clients write is bytes.
LEMMA BuffersType ==
  ASSUME TypeInv, NEW buf \in Buffers
  PROVE  /\ buf \in Seq(Byte)
         /\ Len(buf) = 0 => physicalToLogical(cursor) <= logicalLength
<1> DEFINE low == IF physicalToLogical(cursor) <= logicalLength THEN 0 ELSE 1
<1>1. PICK n \in low .. MaxTransfer : buf \in [1 .. n -> Byte]
  BY Zenon DEF Buffers
<1>2. n \in Nat /\ low <= n
  BY BoundAssumption
<1>3. buf \in Seq(Byte) /\ Len(buf) = n
  BY <1>1, <1>2, FunctionIsSeq, Zenon
<1> QED
  BY <1>2, <1>3

(***************************************************************************)
(* Every step keeps the state well formed.                                 *)
(***************************************************************************)
LEMMA TypeStep ==
  ASSUME TypeInv, [Next]_vars
  PROVE  TypeInv'
<1> DEFINE Outcomes == [ok : BOOLEAN, data : Seq(Byte)]
<1> USE DEF TypeInv, TypeOK
<1>1. Done(<<>>) \in Outcomes /\ Exception(<<>>) \in Outcomes
  BY DEF Done, Exception
<1>2. ASSUME NEW percent \in Policies, OpenWrite(percent)
      PROVE  TypeInv'
  <2>1. percent \in Nat
    BY PolicyAssumption
  <2>2. <<>> \in Seq(Cell) /\ DataCells(<<>>)
    BY DEF DataCells
  <2> QED
    BY <1>1, <1>2, <2>1, <2>2, Zenon DEF OpenWrite
<1>3. ASSUME NEW percent \in Policies, OpenRead(percent)
      PROVE  TypeInv'
  <2>1. percent \in Nat
    BY PolicyAssumption
  <2>2. physicalToLogical(Len(disk)) \in Nat
    BY ToLogical, LenProperties, Zenon
  <2> QED
    BY <1>1, <1>3, <2>1, <2>2 DEF OpenRead
<1>4. ASSUME NEW offset \in 0 .. MaxLogicalLength, seek(offset)
      PROVE  TypeInv'
  <2>1. offset \in Nat
    BY BoundAssumption
  <2>2. logicalToPhysical(offset) \in Nat
    BY <2>1, ToPhysical, Zenon
  <2>3. Len(disk) \in Nat
    BY LenProperties, Zenon
  <2> QED
    BY <1>1, <1>4, <2>2, <2>3, Zenon DEF seek
<1>5. ASSUME NEW buf \in Buffers, write(buf)
      PROVE  TypeInv'
  <2> DEFINE start == physicalToLogical(cursor)
  <2>1. buf \in Seq(Byte) /\ Len(buf) \in Nat
    BY BuffersType, LenProperties, Zenon
  <2>2. /\ mode' = mode /\ policy' = policy
        /\ start \in Nat /\ cursor' \in Nat /\ outcome' \in Outcomes
        /\ \/ /\ Stores(start, buf, LastPage(start, Len(buf)))
              /\ logicalLength' = Greater(logicalLength, start + Len(buf))
           \/ /\ \E b \in Int : Stores(start, buf, b)
              /\ logicalLength' = logicalLength
    BY <1>5, <2>1, WriteStores, Zenon
  <2> HIDE DEF start
  <2>3. LastPage(start, Len(buf)) \in Int
    BY <2>1, <2>2, PagesOfCall, Zenon
  <2>4. \E b \in Int : Stores(start, buf, b)
    BY <2>2, <2>3, Zenon
  <2>5. disk' \in Seq(Cell) /\ DataCells(disk')
    BY <2>1, <2>2, <2>4, StoresType, Zenon
  <2>6. logicalLength' \in Nat
    BY <2>1, <2>2 DEF Greater
  <2> QED
    BY <2>2, <2>5, <2>6, Zenon
<1>6. ASSUME NEW newLength \in 0 .. MaxLogicalLength, extend(newLength)
      PROVE  TypeInv'
  <2> DEFINE zeros == Zeros(newLength)
  <2>1. newLength \in Nat
    BY BoundAssumption
  <2>2. /\ mode' = mode /\ policy' = policy
        /\ cursor' \in Nat /\ outcome' \in Outcomes
        /\ \/ /\ newLength >= logicalLength
              /\ Stores(logicalLength, zeros, LastPage(logicalLength, newLength - logicalLength))
              /\ logicalLength' = newLength
           \/ /\ newLength >= logicalLength
              /\ \E b \in Int : Stores(logicalLength, zeros, b)
              /\ logicalLength' = logicalLength
           \/ disk' = disk /\ logicalLength' = logicalLength
    BY <1>6, <2>1, ExtendStores, Zenon
  <2> HIDE DEF zeros
  <2>3. CASE newLength >= logicalLength /\ \E b \in Int : Stores(logicalLength, zeros, b)
    <3>1. zeros \in Seq(Byte)
      BY <2>1, <2>3, ZerosType, Zenon DEF zeros
    <3>2. disk' \in Seq(Cell) /\ DataCells(disk')
      BY <2>3, <3>1, StoresType, Zenon
    <3> QED
      BY <2>1, <2>2, <3>2, Zenon
  <2>4. CASE disk' = disk /\ logicalLength' = logicalLength
    BY <2>2, <2>4, Zenon
  <2>5. newLength >= logicalLength => LastPage(logicalLength, newLength - logicalLength) \in Int
    <3>1. newLength >= logicalLength => newLength - logicalLength \in Nat
      BY <2>1
    <3> QED
      BY <3>1, PagesOfCall, Zenon
  <2> QED
    BY <2>2, <2>3, <2>4, <2>5, Zenon
<1>7. CASE RefuseReadOnly
  BY <1>1, <1>7, Zenon DEF RefuseReadOnly
<1>8. ASSUME NEW n \in 0 .. MaxTransfer, read(n)
      PROVE  TypeInv'
  <2>1. n \in Nat
    BY BoundAssumption
  <2> QED
    BY <1>8, <2>1, ReadType, Zenon
<1>9. CASE close
  BY <1>1, <1>9, Zenon DEF close
<1>10. CASE Decay
  <2>1. PICK c \in 1 .. Len(disk), byte \in Byte : disk' = [disk EXCEPT ![c] = byte]
    BY <1>10, Zenon DEF Decay
  <2>2. byte \in Cell
    BY Zenon DEF Cell
  <2>3. disk' \in Seq(Cell) /\ Len(disk') = Len(disk)
    BY <2>1, <2>2, ExceptSeq
  <2>4. \A k \in 1 .. Len(disk) : disk'[k] = IF k = c THEN byte ELSE disk[k]
    BY <2>1, <2>2, ExceptSeq
  <2>5. DataCells(disk')
    BY <2>3, <2>4, Zenon DEF DataCells
  <2> QED
    BY <1>10, <2>3, <2>5, Zenon DEF Decay
<1>11. CASE UNCHANGED vars
  BY <1>11, Zenon DEF vars
<1> QED
  BY <1>2, <1>3, <1>4, <1>5, <1>6, <1>7, <1>8, <1>9, <1>10, <1>11, Zenon DEF Next

(***************************************************************************)
(* The state is well formed in every reachable state: in particular a read *)
(* that returns hands out bytes only, never a checksum or what lies past   *)
(* the end (CheckedFile::read), however the file was written or decayed.   *)
(***************************************************************************)
THEOREM TypeCorrect == Spec => []TypeOK
<1>1. Init => TypeInv
  BY DEF Init, TypeInv, TypeOK, DataCells, Done
<1>2. TypeInv /\ [Next]_vars => TypeInv'
  BY TypeStep, Zenon
<1>3. TypeInv => TypeOK
  BY Zenon DEF TypeInv
<1> QED
  BY <1>1, <1>2, <1>3, PTL DEF Spec

-----------------------------------------------------------------------------
(* Whole pages. *)

\* The pages of a disk that ends with a whole page, before and after a call
\* that stores pages a to b.
PagesAfter(n, a, b) == IF b < a THEN n ELSE Greater(n, b + 1)

(***************************************************************************)
(* Cell i of page p after a call that stores whole pages, a to b, on a     *)
(* disk of n pages.                                                        *)
(***************************************************************************)
LEMMA NewCellOfPage ==
  ASSUME NEW d \in Seq(Cell), NEW n \in Nat, Len(d) = n * PhysicalPageSize,
         NEW start, NEW buf, NEW a \in Nat, NEW b \in Int,
         NEW p \in Nat, NEW i \in 0 .. PhysicalPageSize - 1
  PROVE  NewCell(d, start, buf, [q \in a .. b |-> PhysicalPageSize], CellNumber(p, i))
           = IF p \in a .. b THEN CellOf(PageImage(d, start, buf, p), i)
             ELSE IF p < n THEN CellAt(d, p, i) ELSE Zero
<1> DEFINE stored == [q \in a .. b |-> PhysicalPageSize]
           c == CellNumber(p, i)
<1>1. /\ c \in Nat \ {0}
      /\ (c - 1) \div PhysicalPageSize = p
      /\ (c - 1) % PhysicalPageSize = i
      /\ CellAt(d, p, i) = d[c]
      /\ p < n => c <= n * PhysicalPageSize
  BY CellPlace, Zenon
<1>2. p \in DOMAIN stored /\ i < stored[p] <=> p \in a .. b
  BY PageSizes
<1>3. ~(p < n) => ~(c <= n * PhysicalPageSize)
  <2>1. SUFFICES ASSUME n <= p
                 PROVE  ~(c <= n * PhysicalPageSize)
    OBVIOUS
  <2>2. n * PhysicalPageSize <= p * PhysicalPageSize
    BY <2>1, PageSizes, TimesMonotonic, Zenon
  <2>3. c = p * PhysicalPageSize + i + 1
    BY Zenon DEF CellNumber
  <2>4. p * PhysicalPageSize \in Nat /\ n * PhysicalPageSize \in Nat
    BY PageSizes
  <2>5. \A x, y, z \in Nat : x <= y => ~(y + z + 1 <= x)
    OBVIOUS
  <2>6. i \in Nat
    BY PageSizes
  <2> HIDE DEF c
  <2> QED
    BY <2>2, <2>3, <2>4, <2>5, <2>6, Zenon
<1> HIDE DEF c, stored
<1>4. NewCell(d, start, buf, stored, c)
        = IF p \in DOMAIN stored /\ i < stored[p]
          THEN CellOf(PageImage(d, start, buf, p), i)
          ELSE IF c <= Len(d) THEN d[c] ELSE Zero
  BY <1>1, Zenon DEF NewCell
<1>5. NewCell(d, start, buf, stored, c)
        = IF p \in a .. b THEN CellOf(PageImage(d, start, buf, p), i)
          ELSE IF p < n THEN CellAt(d, p, i) ELSE Zero
  BY <1>1, <1>2, <1>3, <1>4, Zenon
<1> QED
  BY <1>5, Zenon DEF c, stored

(***************************************************************************)
(* A call that stores whole pages on a disk of n pages leaves a disk of    *)
(* whole pages, each as it was, stored by the call, or skipped over.       *)
(***************************************************************************)
LEMMA StoresWhole ==
  ASSUME TypeInv, ~ShortWrites, NEW n \in Nat, Len(disk) = n * PhysicalPageSize,
         NEW start \in Nat, NEW buf \in Seq(Byte), NEW b \in Int, Stores(start, buf, b)
  PROVE  LET a == start \div LogicalPageSize
             m == PagesAfter(n, a, b)
         IN  /\ a \in Nat
             /\ m \in Nat
             /\ n <= m
             /\ a <= b => b + 1 <= m
             /\ Len(disk') = m * PhysicalPageSize
             /\ \A p \in 0 .. m - 1, i \in 0 .. PhysicalPageSize - 1 :
                  CellAt(disk', p, i)
                    = IF p \in a .. b THEN CellOf(PageImage(disk, start, buf, p), i)
                      ELSE IF p < n THEN CellAt(disk, p, i) ELSE Zero
             /\ \A p \in a .. b : PageImage(disk, start, buf, p) \in PageData
<1> DEFINE a == start \div LogicalPageSize
           m == PagesAfter(n, a, b)
           stored == [q \in a .. b |-> PhysicalPageSize]
           K == PhysicalPageSize
<1>1. a \in Nat /\ disk \in Seq(Cell)
  BY DivMod, PageSizes, Zenon DEF TypeInv, TypeOK
<1>2. disk' = StorePages(disk, start, buf, stored) /\ stored \in StoredCounts(a .. b)
  <2>1. PICK s \in StoredCounts(a .. b) : disk' = StorePages(disk, start, buf, s)
    BY Zenon DEF Stores
  <2>2. s = stored
    BY StoredCountsType, Zenon
  <2> QED
    BY <2>1, <2>2, Zenon
<1>3. \A p \in a .. b : ~Torn(disk, p)
  BY Zenon DEF Stores
<1>4. \A p \in a .. b : PageImage(disk, start, buf, p) \in PageData
  BY <1>3, ImagesOfCall, Zenon
<1>5. Len(disk') = NewLength(disk, a, b, stored)
  BY <1>2, <1>3, CallStores, Zenon
<1>6. stored \in [a .. b -> 0 .. K]
  BY PageSizes
<1>7. IsStored(disk', disk, start, buf, a, b, stored)
  <2> HIDE DEF a, stored, K
  <2>1. stored \in [a .. b -> 0 .. PhysicalPageSize]
    BY <1>6, Zenon DEF K
  <2> QED
    BY <1>1, <1>2, <2>1, StorePagesLength, Zenon
<1>8. K \in Nat \ {0}
  BY PageSizes, Zenon
<1>9. m \in Nat /\ n <= m /\ (a <= b => b + 1 <= m)
  <2> HIDE DEF a
  <2> QED
    BY <1>1 DEF PagesAfter, Greater
<1>10. Len(disk') = m * K
  <2>1. CASE b < a
    BY <1>5, <2>1, Zenon DEF NewLength, PagesAfter
  <2>2. CASE ~(b < a)
    <3>1. b \in Nat /\ b \in a .. b
      BY <1>1, <2>2
    <3>2. stored[b] = K
      BY <3>1, Zenon
    <3>3. Len(disk') = Greater(n * K, b * K + K)
      BY <1>5, <2>2, <3>2, Zenon DEF NewLength
    <3>4. b * K + K = (b + 1) * K /\ n * K \in Nat /\ (b + 1) * K \in Nat
      BY <1>8, <3>1
    <3>5. m = Greater(n, b + 1)
      BY <2>2, Zenon DEF PagesAfter
    <3> HIDE DEF m, K, stored, a
    <3>6. CASE n < b + 1
      <4>1. n * K <= (b + 1) * K
        BY <1>8, <3>1, <3>6, TimesMonotonic
      <4> QED
        BY <3>3, <3>4, <3>5, <3>6, <4>1 DEF Greater
    <3>7. CASE b + 1 <= n
      <4>1. (b + 1) * K <= n * K
        BY <1>8, <3>1, <3>7, TimesMonotonic
      <4>2. m = n
        BY <3>1, <3>5, <3>7 DEF Greater
      <4> QED
        BY <3>3, <3>4, <4>1, <4>2 DEF Greater
    <3> QED
      BY <3>1, <3>6, <3>7
  <2> QED
    BY <2>1, <2>2, Zenon
<1>11. ASSUME NEW p \in 0 .. m - 1, NEW i \in 0 .. K - 1
       PROVE  CellAt(disk', p, i)
                = IF p \in a .. b THEN CellOf(PageImage(disk, start, buf, p), i)
                  ELSE IF p < n THEN CellAt(disk, p, i) ELSE Zero
  <2> DEFINE c == CellNumber(p, i)
  <2> HIDE DEF m
  <2>1. p \in Nat /\ p < m
    BY <1>9
  <2>2. c \in Nat \ {0} /\ CellAt(disk', p, i) = disk'[c] /\ c <= m * K
    BY <1>9, <2>1, CellPlace, Zenon
  <2>3. NewCell(disk, start, buf, stored, c)
          = IF p \in a .. b THEN CellOf(PageImage(disk, start, buf, p), i)
            ELSE IF p < n THEN CellAt(disk, p, i) ELSE Zero
    BY <1>1, <2>1, NewCellOfPage
  <2> HIDE DEF c, stored, K, a
  <2>4. c \in 1 .. NewLength(disk, a, b, stored)
    <3>1. NewLength(disk, a, b, stored) \in Nat
      BY <1>7, Zenon DEF IsStored
    <3> QED
      BY <1>5, <1>10, <2>2, <3>1
  <2>5. disk'[c] = NewCell(disk, start, buf, stored, c)
    BY <1>7, <2>4, Zenon DEF IsStored
  <2> QED
    BY <2>2, <2>3, <2>5, Zenon
<1> HIDE DEF m, a, K, stored
<1>12. \A p \in 0 .. m - 1, i \in 0 .. K - 1 :
         CellAt(disk', p, i)
           = IF p \in a .. b THEN CellOf(PageImage(disk, start, buf, p), i)
             ELSE IF p < n THEN CellAt(disk, p, i) ELSE Zero
  BY <1>11, Zenon
<1> QED
  BY <1>1, <1>4, <1>9, <1>10, <1>12, Zenon DEF m, a, K

\* A disk of whole pages, each with its checksum or never stored.
Sound(d) ==
  /\ Len(d) % PhysicalPageSize = 0
  /\ \A p \in 0 .. (Len(d) \div PhysicalPageSize) - 1 : ChecksumMatches(d, p) \/ IsHole(d, p)

\* A disk of m whole pages has the length m * PhysicalPageSize.
LEMMA WholePages ==
  ASSUME NEW m \in Nat
  PROVE  /\ (m * PhysicalPageSize) % PhysicalPageSize = 0
         /\ (m * PhysicalPageSize) \div PhysicalPageSize = m
<1>1. 0 \in 0 .. PhysicalPageSize - 1 /\ m * PhysicalPageSize + 0 = m * PhysicalPageSize
  BY PageSizes
<1>2. (m * PhysicalPageSize + 0) \div PhysicalPageSize = m
      /\ (m * PhysicalPageSize + 0) % PhysicalPageSize = 0
  BY <1>1, PageSizes, DivUnique, Zenon
<1> QED
  BY <1>1, <1>2, Zenon

\* A sound disk is a number of whole pages.
LEMMA SoundIsWhole ==
  ASSUME NEW d \in Seq(Cell), Sound(d)
  PROVE  \E n \in Nat : Len(d) = n * PhysicalPageSize
<1>1. Len(d) \in Nat /\ Len(d) % PhysicalPageSize = 0
  BY LenProperties, Zenon DEF Sound
<1>2. /\ Len(d) \div PhysicalPageSize \in Nat
      /\ Len(d) = (Len(d) \div PhysicalPageSize) * PhysicalPageSize + (Len(d) % PhysicalPageSize)
  BY <1>1, DivMod, PageSizes, Zenon
<1>3. \A x \in Nat : x + 0 = x
  OBVIOUS
<1>4. (Len(d) \div PhysicalPageSize) * PhysicalPageSize \in Nat
  BY <1>2, PageSizes
<1>5. Len(d) = (Len(d) \div PhysicalPageSize) * PhysicalPageSize
  BY <1>1, <1>2, <1>3, <1>4, Zenon
<1> QED
  BY <1>2, <1>5, Zenon

(***************************************************************************)
(* Two pages with the same cells are both sound or both not.               *)
(***************************************************************************)
LEMMA SamePage ==
  ASSUME NEW d, NEW e, NEW p,
         \A i \in 0 .. PhysicalPageSize - 1 : CellAt(e, p, i) = CellAt(d, p, i)
  PROVE  /\ ChecksumMatches(d, p) => ChecksumMatches(e, p)
         /\ IsHole(d, p) => IsHole(e, p)
<1>1. \A i \in 0 .. LogicalPageSize - 1 : i \in 0 .. PhysicalPageSize - 1
  BY PageSizes
<1>2. \A i \in LogicalPageSize .. PhysicalPageSize - 1 : i \in 0 .. PhysicalPageSize - 1
  BY PageSizes
<1>3. DataOf(e, p) = DataOf(d, p)
  BY <1>1, Zenon DEF DataOf
<1> QED
  BY <1>2, <1>3, Zenon DEF ChecksumMatches, IsHole

(***************************************************************************)
(* A page that writePhysicalPage stored has its checksum.                  *)
(***************************************************************************)
LEMMA StoredPage ==
  ASSUME NEW e, NEW p, NEW image \in PageData,
         \A i \in 0 .. PhysicalPageSize - 1 : CellAt(e, p, i) = CellOf(image, i)
  PROVE  DataOf(e, p) = image /\ ChecksumMatches(e, p)
<1>1. ASSUME NEW i \in 0 .. LogicalPageSize - 1
      PROVE  CellAt(e, p, i) = image[i]
  <2>1. i \in 0 .. PhysicalPageSize - 1 /\ i < LogicalPageSize
    BY PageSizes
  <2> QED
    BY <2>1, Zenon DEF CellOf
<1>2. ASSUME NEW i \in LogicalPageSize .. PhysicalPageSize - 1
      PROVE  CellAt(e, p, i) = image
  <2>1. i \in 0 .. PhysicalPageSize - 1 /\ ~(i < LogicalPageSize)
    BY PageSizes
  <2> QED
    BY <2>1, Zenon DEF CellOf, checksum
<1>3. DataOf(e, p) = image
  <2>1. image \in [0 .. LogicalPageSize - 1 -> Byte]
    BY Zenon DEF PageData
  <2>2. image = [i \in 0 .. LogicalPageSize - 1 |-> image[i]]
    BY <2>1, Zenon
  <2> QED
    BY <1>1, <2>2, Zenon DEF DataOf
<1> QED
  BY <1>2, <1>3, Zenon DEF ChecksumMatches, checksum

(***************************************************************************)
(* A call that stores whole pages keeps the disk sound.                    *)
(***************************************************************************)
LEMMA StoresSound ==
  ASSUME TypeInv, ~ShortWrites, Sound(disk),
         NEW start \in Nat, NEW buf \in Seq(Byte), NEW b \in Int, Stores(start, buf, b)
  PROVE  Sound(disk')
<1>1. PICK n \in Nat : Len(disk) = n * PhysicalPageSize
  BY SoundIsWhole, Zenon DEF TypeInv, TypeOK
<1> DEFINE a == start \div LogicalPageSize
           m == PagesAfter(n, a, b)
<1>2. /\ m \in Nat
      /\ Len(disk') = m * PhysicalPageSize
      /\ \A p \in 0 .. m - 1, i \in 0 .. PhysicalPageSize - 1 :
           CellAt(disk', p, i)
             = IF p \in a .. b THEN CellOf(PageImage(disk, start, buf, p), i)
               ELSE IF p < n THEN CellAt(disk, p, i) ELSE Zero
      /\ \A p \in a .. b : PageImage(disk, start, buf, p) \in PageData
  BY <1>1, StoresWhole
<1> HIDE DEF m, a
<1>3. ASSUME NEW p \in 0 .. m - 1
      PROVE  ChecksumMatches(disk', p) \/ IsHole(disk', p)
  <2>1. CASE p \in a .. b
    <3>1. \A i \in 0 .. PhysicalPageSize - 1 :
            CellAt(disk', p, i) = CellOf(PageImage(disk, start, buf, p), i)
      BY <1>2, <2>1, Zenon
    <3> QED
      BY <1>2, <2>1, <3>1, StoredPage, Zenon
  <2>2. CASE ~(p \in a .. b) /\ p < n
    <3>1. \A i \in 0 .. PhysicalPageSize - 1 : CellAt(disk', p, i) = CellAt(disk, p, i)
      BY <1>2, <2>2, Zenon
    <3>2. Len(disk) \div PhysicalPageSize = n
      BY <1>1, WholePages, Zenon
    <3>3. p \in 0 .. n - 1
      BY <1>2, <2>2
    <3>4. ChecksumMatches(disk, p) \/ IsHole(disk, p)
      BY <3>2, <3>3, Zenon DEF Sound
    <3> QED
      BY <3>1, <3>4, SamePage, Zenon
  <2>3. CASE ~(p \in a .. b) /\ ~(p < n)
    <3>1. \A i \in 0 .. PhysicalPageSize - 1 : CellAt(disk', p, i) = Zero
      BY <1>2, <2>3, Zenon
    <3> QED
      BY <3>1, Zenon DEF IsHole
  <2> QED
    BY <2>1, <2>2, <2>3, Zenon
<1>4. Len(disk') % PhysicalPageSize = 0 /\ Len(disk') \div PhysicalPageSize = m
  BY <1>2, WholePages, Zenon
<1> QED
  BY <1>3, <1>4, Zenon DEF Sound

(***************************************************************************)
(* A call that stores all its whole pages leaves them behind the length.   *)
(***************************************************************************)
LEMMA StoresLength ==
  ASSUME TypeInv, ~ShortWrites, Sound(disk),
         NEW start \in Nat, NEW buf \in Seq(Byte), NEW b \in Int, Stores(start, buf, b)
  PROVE  /\ physicalToLogical(Len(disk)) \in Nat
         /\ physicalToLogical(Len(disk')) \in Nat
         /\ physicalToLogical(Len(disk)) <= physicalToLogical(Len(disk'))
         /\ b = LastPage(start, Len(buf)) /\ Len(buf) # 0 =>
              start + Len(buf) <= physicalToLogical(Len(disk'))
<1>1. PICK n \in Nat : Len(disk) = n * PhysicalPageSize
  BY SoundIsWhole, Zenon DEF TypeInv, TypeOK
<1> DEFINE a == start \div LogicalPageSize
           m == PagesAfter(n, a, b)
           L == LogicalPageSize
<1>2. /\ a \in Nat /\ m \in Nat /\ n <= m /\ (a <= b => b + 1 <= m)
      /\ Len(disk') = m * PhysicalPageSize
  BY <1>1, StoresWhole, Zenon
<1> HIDE DEF m
<1>3. L \in Nat \ {0} /\ Len(buf) \in Nat
  BY PageSizes, LenProperties, Zenon
<1>4. physicalToLogical(Len(disk)) = n * L /\ physicalToLogical(Len(disk')) = m * L
  BY <1>1, <1>2, ToLogical, Zenon
<1>5. n * L <= m * L /\ n * L \in Nat /\ m * L \in Nat
  BY <1>2, <1>3, TimesMonotonic
<1>6. ASSUME b = LastPage(start, Len(buf)), Len(buf) # 0
      PROVE  start + Len(buf) <= m * L
  <2> DEFINE x == start + Len(buf) - 1
  <2>1. x \in Nat /\ start <= x /\ start + Len(buf) = x + 1
    BY <1>3, <1>6
  <2>2. b = x \div L
    BY <1>6, Zenon DEF LastPage
  <2> HIDE DEF x, L
  <2>3. b \in Nat /\ x % L \in 0 .. L - 1 /\ x = b * L + (x % L)
    BY <1>3, <2>1, <2>2, DivMod, Zenon
  <2>4. a <= b
    BY <1>3, <2>1, <2>2, DivMonotonic, Zenon DEF L
  <2>5. (b + 1) * L <= m * L
    BY <1>2, <1>3, <2>3, <2>4, TimesMonotonic
  <2>6. (b + 1) * L = b * L + L /\ b * L \in Nat
    BY <1>3, <2>3
  <2>7. \A r \in 0 .. L - 1 : \A y, z \in Nat : y + L <= z => (y + r) + 1 <= z
    BY <1>3
  <2>8. b * L + L <= m * L
    BY <2>5, <2>6, Zenon
  <2>9. (b * L + (x % L)) + 1 <= m * L
    BY <1>5, <2>3, <2>6, <2>7, <2>8, Zenon
  <2> QED
    BY <2>1, <2>3, <2>9, Zenon
<1> HIDE DEF L
<1> QED
  BY <1>4, <1>5, <1>6, Zenon

\* The inductive invariant, for a file system that stores whole pages.
PageInv == TypeInv /\ PagesSound /\ LengthBacked

(***************************************************************************)
(* Every step keeps the pages sound and the logical length behind them.    *)
(***************************************************************************)
LEMMA PageStep ==
  ASSUME ~ShortWrites, PageInv, [Next]_vars
  PROVE  PageInv'
<1>1. TypeInv /\ TypeInv'
  BY TypeStep, Zenon DEF PageInv
<1>2. PagesSound <=> (mode = "write" => Sound(disk))
  BY Zenon DEF PagesSound, Sound
<1>3. PagesSound' <=> (mode' = "write" => Sound(disk'))
  BY Zenon DEF PagesSound, Sound
<1>4. LengthBacked <=> (mode # "closed" => logicalLength <= physicalToLogical(Len(disk)))
  BY Zenon DEF LengthBacked
<1>5. LengthBacked' <=> (mode' # "closed" => logicalLength' <= physicalToLogical(Len(disk')))
  BY Zenon DEF LengthBacked
<1> DEFINE Backed == logicalLength <= physicalToLogical(Len(disk))
           BackedNext == logicalLength' <= physicalToLogical(Len(disk'))
<1>7. SUFFICES (mode' = "write" => Sound(disk')) /\ (mode' # "closed" => BackedNext)
  BY <1>1, <1>3, <1>5, Zenon DEF PageInv
<1>8. (mode = "write" => Sound(disk)) /\ (mode # "closed" => Backed)
  BY <1>2, <1>4, Zenon DEF PageInv
<1>9. /\ logicalLength \in Nat /\ cursor \in Nat /\ disk \in Seq(Cell)
      /\ physicalToLogical(Len(disk)) \in Nat
  BY <1>1, ToLogical, LenProperties, Zenon DEF TypeInv, TypeOK
<1> HIDE DEF Backed, BackedNext
<1>10. ASSUME NEW percent \in Policies, OpenWrite(percent)
       PROVE  (mode' = "write" => Sound(disk')) /\ (mode' # "closed" => BackedNext)
  <2>1. disk' = <<>> /\ logicalLength' = 0
    BY <1>10, Zenon DEF OpenWrite
  <2>2. Len(disk') = 0 * PhysicalPageSize /\ 0 \in Nat
    BY <2>1, PageSizes
  <2>3. Len(disk') % PhysicalPageSize = 0 /\ Len(disk') \div PhysicalPageSize = 0
    BY <2>2, WholePages, Zenon
  <2>4. Sound(disk')
    BY <2>3 DEF Sound
  <2>5. physicalToLogical(Len(disk')) \in Nat
    BY <2>1, ToLogical, Zenon
  <2> QED
    BY <2>1, <2>4, <2>5 DEF BackedNext
<1>11. ASSUME NEW percent \in Policies, OpenRead(percent)
       PROVE  (mode' = "write" => Sound(disk')) /\ (mode' # "closed" => BackedNext)
  <2>1. disk' = disk
    BY <1>11, Zenon DEF OpenRead
  <2>2. \/ mode' = "closed"
        \/ mode' = "read" /\ logicalLength' = physicalToLogical(Len(disk))
    BY <1>11, Zenon DEF OpenRead
  <2> QED
    BY <1>9, <2>1, <2>2 DEF BackedNext
<1>12. ASSUME UNCHANGED <<disk, mode, logicalLength>>
       PROVE  (mode' = "write" => Sound(disk')) /\ (mode' # "closed" => BackedNext)
  BY <1>8, <1>12, Zenon DEF Backed, BackedNext
<1>13. ASSUME NEW offset, seek(offset)
       PROVE  UNCHANGED <<disk, mode, logicalLength>>
  BY <1>13, Zenon DEF seek
<1>14. ASSUME NEW start \in Nat, NEW buf \in Seq(Byte), NEW b \in Int, Stores(start, buf, b),
              mode = "write"
       PROVE  /\ Sound(disk')
              /\ logicalLength <= physicalToLogical(Len(disk'))
              /\ physicalToLogical(Len(disk')) \in Nat
              /\ b = LastPage(start, Len(buf)) /\ Len(buf) # 0 =>
                   start + Len(buf) <= physicalToLogical(Len(disk'))
  <2>1. Sound(disk) /\ logicalLength <= physicalToLogical(Len(disk))
    BY <1>8, <1>14, Zenon DEF Backed
  <2>2. Sound(disk')
    BY <1>1, <1>14, <2>1, StoresSound, Zenon
  <2>3. /\ physicalToLogical(Len(disk)) \in Nat
        /\ physicalToLogical(Len(disk')) \in Nat
        /\ physicalToLogical(Len(disk)) <= physicalToLogical(Len(disk'))
        /\ b = LastPage(start, Len(buf)) /\ Len(buf) # 0 =>
             start + Len(buf) <= physicalToLogical(Len(disk'))
    BY <1>1, <1>14, <2>1, StoresLength, Zenon
  <2>4. \A x, y, z \in Nat : x <= y /\ y <= z => x <= z
    OBVIOUS
  <2>5. logicalLength <= physicalToLogical(Len(disk'))
    BY <1>9, <2>1, <2>3, <2>4, Zenon
  <2> QED
    BY <2>2, <2>3, <2>5, Zenon
<1>15. ASSUME NEW buf \in Buffers, write(buf)
       PROVE  (mode' = "write" => Sound(disk')) /\ (mode' # "closed" => BackedNext)
  <2> DEFINE start == physicalToLogical(cursor)
             last == LastPage(start, Len(buf))
  <2>1. buf \in Seq(Byte) /\ Len(buf) \in Nat /\ (Len(buf) = 0 => start <= logicalLength)
    BY <1>1, BuffersType, LenProperties, Zenon
  <2>2. /\ mode = "write" /\ start \in Nat
        /\ \/ /\ Stores(start, buf, last)
              /\ logicalLength' = Greater(logicalLength, start + Len(buf))
           \/ /\ \E b \in Int : Stores(start, buf, b)
              /\ logicalLength' = logicalLength
    BY <1>1, <1>15, <2>1, WriteStores, Zenon
  <2> HIDE DEF start
  <2>3. last \in Int
    BY <2>1, <2>2, PagesOfCall, Zenon
  <2>4. CASE Stores(start, buf, last) /\ logicalLength' = Greater(logicalLength, start + Len(buf))
    <3>1. /\ Sound(disk')
          /\ logicalLength <= physicalToLogical(Len(disk'))
          /\ physicalToLogical(Len(disk')) \in Nat
          /\ Len(buf) # 0 => start + Len(buf) <= physicalToLogical(Len(disk'))
      BY <1>14, <2>1, <2>2, <2>3, <2>4, Zenon
    <3>2. logicalLength' <= physicalToLogical(Len(disk'))
      BY <1>9, <2>1, <2>2, <2>4, <3>1 DEF Greater
    <3> QED
      BY <3>1, <3>2, Zenon DEF BackedNext
  <2>5. CASE (\E b \in Int : Stores(start, buf, b)) /\ logicalLength' = logicalLength
    <3>1. Sound(disk') /\ logicalLength <= physicalToLogical(Len(disk'))
      BY <1>14, <2>1, <2>2, <2>5, Zenon
    <3> QED
      BY <2>5, <3>1, Zenon DEF BackedNext
  <2> QED
    BY <2>2, <2>4, <2>5, Zenon
<1>16. ASSUME NEW newLength \in 0 .. MaxLogicalLength, extend(newLength)
       PROVE  (mode' = "write" => Sound(disk')) /\ (mode' # "closed" => BackedNext)
  <2> DEFINE zeros == Zeros(newLength)
             last == LastPage(logicalLength, newLength - logicalLength)
  <2>1. newLength \in Nat
    BY BoundAssumption
  <2>2. /\ mode = "write" /\ mode' = mode
        /\ \/ /\ newLength >= logicalLength
              /\ Stores(logicalLength, zeros, last)
              /\ logicalLength' = newLength
           \/ /\ newLength >= logicalLength
              /\ \E b \in Int : Stores(logicalLength, zeros, b)
              /\ logicalLength' = logicalLength
           \/ disk' = disk /\ logicalLength' = logicalLength
    BY <1>1, <1>16, <2>1, ExtendStores, Zenon
  <2>3. newLength >= logicalLength =>
          zeros \in Seq(Byte) /\ Len(zeros) = newLength - logicalLength
    BY <1>1, <2>1, ZerosType, Zenon
  <2> HIDE DEF zeros
  <2>4. CASE /\ newLength >= logicalLength
             /\ Stores(logicalLength, zeros, last)
             /\ logicalLength' = newLength
    <3>1. last \in Int
      <4>1. newLength - logicalLength \in Nat
        BY <1>9, <2>1, <2>4
      <4> QED
        BY <1>9, <4>1, PagesOfCall, Zenon
    <3>2. /\ Sound(disk')
          /\ logicalLength <= physicalToLogical(Len(disk'))
          /\ physicalToLogical(Len(disk')) \in Nat
          /\ Len(zeros) # 0 => logicalLength + Len(zeros) <= physicalToLogical(Len(disk'))
      BY <1>9, <1>14, <2>2, <2>3, <2>4, <3>1
    <3>3. logicalLength' <= physicalToLogical(Len(disk'))
      BY <1>9, <2>1, <2>3, <2>4, <3>2
    <3> QED
      BY <3>2, <3>3, Zenon DEF BackedNext
  <2>5. CASE /\ newLength >= logicalLength
             /\ \E b \in Int : Stores(logicalLength, zeros, b)
             /\ logicalLength' = logicalLength
    <3>1. Sound(disk') /\ logicalLength <= physicalToLogical(Len(disk'))
      BY <1>9, <1>14, <2>2, <2>3, <2>5, Zenon
    <3> QED
      BY <2>5, <3>1, Zenon DEF BackedNext
  <2>6. CASE disk' = disk /\ logicalLength' = logicalLength
    BY <1>12, <2>2, <2>6, Zenon
  <2> QED
    BY <2>2, <2>4, <2>5, <2>6, Zenon
<1>17. CASE RefuseReadOnly
  BY <1>12, <1>17, Zenon DEF RefuseReadOnly
<1>18. ASSUME NEW n \in 0 .. MaxTransfer, read(n)
       PROVE  UNCHANGED <<disk, mode, logicalLength>>
  BY <1>18, Zenon DEF read
<1>19. CASE close
  BY <1>19, Zenon DEF close
<1>20. CASE Decay
  BY <1>20, Zenon DEF Decay
<1>21. CASE UNCHANGED vars
  BY <1>12, <1>21, Zenon DEF vars
<1> QED
  BY <1>10, <1>11, <1>12, <1>13, <1>15, <1>16, <1>17, <1>18, <1>19, <1>20, <1>21, Zenon DEF Next

(***************************************************************************)
(* Where the file system stores the pages it is given, the pages of a file *)
(* being written are sound, for every page size and every sequence of      *)
(* seeks, writes, extends and I/O errors between two pages (CheckedFile,   *)
(* write, extend and writePhysicalPage).                                   *)
(***************************************************************************)
THEOREM PagesStaySound == ~ShortWrites => (Spec => []PagesSound)
<1> SUFFICES ASSUME ~ShortWrites
             PROVE  Spec => []PagesSound
  BY Zenon
<1>1. Init => PageInv
  <2>1. Init => TypeInv
    BY DEF Init, TypeInv, TypeOK, DataCells, Done
  <2> QED
    BY <2>1, Zenon DEF Init, PageInv, PagesSound, LengthBacked
<1>2. PageInv /\ [Next]_vars => PageInv'
  BY PageStep, Zenon
<1>3. PageInv => PagesSound
  BY Zenon DEF PageInv
<1> QED
  BY <1>1, <1>2, <1>3, PTL DEF Spec

(***************************************************************************)
(* There also, logicalLength_ of an open file never runs ahead of the      *)
(* pages on the disk, which read relies on (CheckedFile::read).            *)
(***************************************************************************)
THEOREM LengthStaysBacked == ~ShortWrites => (Spec => []LengthBacked)
<1> SUFFICES ASSUME ~ShortWrites
             PROVE  Spec => []LengthBacked
  BY Zenon
<1>1. Init => PageInv
  <2>1. Init => TypeInv
    BY DEF Init, TypeInv, TypeOK, DataCells, Done
  <2> QED
    BY <2>1, Zenon DEF Init, PageInv, PagesSound, LengthBacked
<1>2. PageInv /\ [Next]_vars => PageInv'
  BY PageStep, Zenon
<1>3. PageInv => LengthBacked
  BY Zenon DEF PageInv
<1> QED
  BY <1>1, <1>2, <1>3, PTL DEF Spec

-----------------------------------------------------------------------------
(* The logical view of the disk. *)

\* Byte k of the view, counted from 1, of disk d.
ViewByte(d, k) ==
  IF PageComplete(d, (k - 1) \div LogicalPageSize)
       /\ ChecksumMatches(d, (k - 1) \div LogicalPageSize)
  THEN ByteAt(d, k - 1)
  ELSE Lost

\* The first n bytes of the view.
View(d, n) == [k \in 1 .. n |-> ViewByte(d, k)]

\* The view of the state before and after a step.
LEMMA ViewIs ==
  LogicalView = View(disk, logicalLength) /\ LogicalView' = View(disk', logicalLength')
BY Zenon DEF LogicalView, View, ViewByte, ByteAt, ChecksumMatches, DataOf, CellAt, PageComplete

(***************************************************************************)
(* The byte at a logical offset is a cell of its page.                     *)
(***************************************************************************)
LEMMA ByteOfPage ==
  ASSUME NEW k \in Nat \ {0}
  PROVE  LET p == (k - 1) \div LogicalPageSize
             i == (k - 1) % LogicalPageSize
         IN  /\ p \in Nat
             /\ i \in 0 .. LogicalPageSize - 1
             /\ i \in 0 .. PhysicalPageSize - 1
             /\ k - 1 = p * LogicalPageSize + i
             /\ \A d : ByteAt(d, k - 1) = CellAt(d, p, i)
<1> DEFINE x == k - 1
           p == x \div LogicalPageSize
           i == x % LogicalPageSize
<1>1. x \in Nat
  OBVIOUS
<1> HIDE DEF x
<1>2. p \in Nat /\ i \in 0 .. LogicalPageSize - 1 /\ x = p * LogicalPageSize + i
  BY <1>1, DivMod, PageSizes, Zenon
<1>3. logicalToPhysical(x) = p * PhysicalPageSize + i
  BY <1>1, ToPhysical, Zenon
<1>4. \A d : ByteAt(d, x) = CellAt(d, p, i)
  BY <1>3, Zenon DEF ByteAt, CellAt
<1>5. i \in 0 .. PhysicalPageSize - 1
  BY <1>2, PageSizes
<1> HIDE DEF p, i
<1> QED
  BY <1>2, <1>4, <1>5, Zenon DEF p, i, x

(***************************************************************************)
(* The view is a sequence of bytes, some of them lost.                     *)
(***************************************************************************)
LEMMA ViewType ==
  ASSUME NEW d \in Seq(Cell), DataCells(d), NEW n \in Nat
  PROVE  /\ View(d, n) \in Seq(Byte \cup {Lost})
         /\ Len(View(d, n)) = n
         /\ \A k \in 1 .. n : View(d, n)[k] = ViewByte(d, k)
<1>1. ASSUME NEW k \in 1 .. n
      PROVE  ViewByte(d, k) \in Byte \cup {Lost}
  <2>1. k - 1 \in Nat
    OBVIOUS
  <2>2. PageComplete(d, (k - 1) \div LogicalPageSize) => ByteAt(d, k - 1) \in Byte
    BY <2>1, ByteAtType, Zenon
  <2> QED
    BY <2>2, Zenon DEF ViewByte
<1>2. View(d, n) \in [1 .. n -> Byte \cup {Lost}]
  BY <1>1, Zenon DEF View
<1>3. View(d, n) \in Seq(Byte \cup {Lost}) /\ Len(View(d, n)) = n
  BY <1>2, FunctionIsSeq, Zenon
<1> QED
  BY <1>3, Zenon DEF View

\* Translating a logical offset and back returns it.
LEMMA ThereAndBack ==
  ASSUME NEW x \in Nat
  PROVE  physicalToLogical(logicalToPhysical(x)) = x
<1> DEFINE p == x \div LogicalPageSize
           i == x % LogicalPageSize
           y == p * PhysicalPageSize + i
<1>1. p \in Nat /\ i \in 0 .. LogicalPageSize - 1 /\ x = p * LogicalPageSize + i
  BY DivMod, PageSizes, Zenon
<1>2. logicalToPhysical(x) = y
  BY ToPhysical, Zenon
<1> HIDE DEF p, i
<1>3. i \in 0 .. PhysicalPageSize - 1 /\ i < LogicalPageSize
  BY <1>1, PageSizes
<1>4. y \div PhysicalPageSize = p /\ y % PhysicalPageSize = i
  BY <1>1, <1>3, PageSizes, DivUnique, Zenon
<1> HIDE DEF y
<1>5. Lesser(i, LogicalPageSize) = i
  BY <1>3, Zenon DEF Lesser
<1>6. physicalToLogical(y) = p * LogicalPageSize + i
  BY <1>4, <1>5, Zenon DEF physicalToLogical
<1> QED
  BY <1>1, <1>2, <1>6, Zenon

(***************************************************************************)
(* A byte within the length of a disk of m pages is in one of them.        *)
(***************************************************************************)
LEMMA PageOfByte ==
  ASSUME NEW m \in Nat, NEW k \in Nat \ {0}, k <= m * LogicalPageSize
  PROVE  (k - 1) \div LogicalPageSize \in 0 .. m - 1
<1> DEFINE p == (k - 1) \div LogicalPageSize
           i == (k - 1) % LogicalPageSize
           L == LogicalPageSize
<1>1. p \in Nat /\ i \in 0 .. L - 1 /\ k - 1 = p * L + i
  BY ByteOfPage, Zenon
<1>2. L \in Nat \ {0}
  BY PageSizes, Zenon
<1> HIDE DEF p, i, L
<1>3. ~(m <= p)
  <2> SUFFICES ASSUME m <= p
               PROVE  FALSE
    BY Zenon
  <2>1. m * L <= p * L
    BY <1>1, <1>2, TimesMonotonic, Zenon
  <2>2. m * L \in Nat /\ p * L \in Nat /\ i \in Nat /\ k <= m * L
    BY <1>1, <1>2 DEF L
  <2>3. \A u, v \in Nat : u <= v /\ k <= u /\ k - 1 = v + i => FALSE
    BY <2>2
  <2> QED
    BY <1>1, <2>1, <2>2, <2>3, Zenon
<1>4. p \in 0 .. m - 1
  BY <1>1, <1>3
<1> QED
  BY <1>4, Zenon DEF p

\* The first m pages of a disk of m pages are complete.
LEMMA PagesComplete ==
  ASSUME NEW d, NEW m \in Nat, Len(d) = m * PhysicalPageSize, NEW p \in 0 .. m - 1
  PROVE  PageComplete(d, p) /\ PageStarted(d, p)
<1>1. p \in Nat /\ p + 1 \in Nat /\ p + 1 <= m
  OBVIOUS
<1>2. (p + 1) * PhysicalPageSize <= m * PhysicalPageSize
  BY <1>1, PageSizes, TimesMonotonic, Zenon
<1>3. /\ (p + 1) * PhysicalPageSize = p * PhysicalPageSize + PhysicalPageSize
      /\ p * PhysicalPageSize \in Nat /\ m * PhysicalPageSize \in Nat
  BY <1>1, PageSizes
<1>4. \A x, y, z \in Nat : z # 0 /\ x + z <= y => x < y
  OBVIOUS
<1>5. PhysicalPageSize \in Nat /\ PhysicalPageSize # 0
  BY PageSizes, Zenon
<1>6. p * PhysicalPageSize + PhysicalPageSize <= m * PhysicalPageSize
  BY <1>2, <1>3, Zenon
<1>7. p * PhysicalPageSize < m * PhysicalPageSize
  BY <1>3, <1>4, <1>5, <1>6, Zenon
<1> QED
  BY <1>2, <1>7, Zenon DEF PageComplete, PageStarted

-----------------------------------------------------------------------------
(* What a call does to the view. *)

\* Byte k is among those a call wrote to pages up to b.
Written(start, buf, b, k) ==
  /\ k \in start + 1 .. start + Len(buf)
  /\ (k - 1) \div LogicalPageSize \in start \div LogicalPageSize .. b

(***************************************************************************)
(* In the view after a call that stores whole pages, a byte it wrote has   *)
(* its new value, and another one that was in the file keeps its value.    *)
(***************************************************************************)
LEMMA ViewAfter ==
  ASSUME TypeInv, ~ShortWrites, Sound(disk),
         NEW start \in Nat, NEW buf \in Seq(Byte), NEW b \in Int, Stores(start, buf, b),
         NEW k \in Nat \ {0}, k <= physicalToLogical(Len(disk'))
  PROVE  /\ Written(start, buf, b, k) => ViewByte(disk', k) = buf[k - start]
         /\ ~Written(start, buf, b, k) /\ k <= physicalToLogical(Len(disk)) =>
              ViewByte(disk, k) = Lost \/ ViewByte(disk', k) = ViewByte(disk, k)
<1>1. PICK n \in Nat : Len(disk) = n * PhysicalPageSize
  BY SoundIsWhole, Zenon DEF TypeInv, TypeOK
<1> DEFINE a == start \div LogicalPageSize
           m == PagesAfter(n, a, b)
           p == (k - 1) \div LogicalPageSize
           i == (k - 1) % LogicalPageSize
           image == PageImage(disk, start, buf, p)
<1>2. /\ a \in Nat /\ m \in Nat /\ n <= m
      /\ Len(disk') = m * PhysicalPageSize
      /\ \A q \in 0 .. m - 1, j \in 0 .. PhysicalPageSize - 1 :
           CellAt(disk', q, j)
             = IF q \in a .. b THEN CellOf(PageImage(disk, start, buf, q), j)
               ELSE IF q < n THEN CellAt(disk, q, j) ELSE Zero
      /\ \A q \in a .. b : PageImage(disk, start, buf, q) \in PageData
  BY <1>1, StoresWhole
<1> HIDE DEF m
<1>3. /\ physicalToLogical(Len(disk)) = n * LogicalPageSize
      /\ physicalToLogical(Len(disk')) = m * LogicalPageSize
  BY <1>1, <1>2, ToLogical, Zenon
<1>4. p \in 0 .. m - 1
  BY <1>2, <1>3, PageOfByte, Zenon
<1>5. k <= physicalToLogical(Len(disk)) => p \in 0 .. n - 1
  BY <1>3, PageOfByte, Zenon
<1>6. /\ p \in Nat /\ i \in 0 .. LogicalPageSize - 1 /\ i \in 0 .. PhysicalPageSize - 1
      /\ k - 1 = p * LogicalPageSize + i
      /\ ByteAt(disk, k - 1) = CellAt(disk, p, i)
      /\ ByteAt(disk', k - 1) = CellAt(disk', p, i)
  BY ByteOfPage, Zenon
<1>7. PageComplete(disk', p)
  BY <1>2, <1>4, PagesComplete, Zenon
<1>8. p \in 0 .. n - 1 => PageComplete(disk, p) /\ PageStarted(disk, p) /\ p < n
  BY <1>1, PagesComplete
<1>9. /\ ViewByte(disk, k) = IF PageComplete(disk, p) /\ ChecksumMatches(disk, p)
                             THEN ByteAt(disk, k - 1) ELSE Lost
      /\ ViewByte(disk', k) = IF PageComplete(disk', p) /\ ChecksumMatches(disk', p)
                              THEN ByteAt(disk', k - 1) ELSE Lost
  BY Zenon DEF ViewByte
<1>10. Written(start, buf, b, k) <=> k \in start + 1 .. start + Len(buf) /\ p \in a .. b
  BY Zenon DEF Written
<1>11. image[i] = IF p * LogicalPageSize + i \in start .. start + Len(buf) - 1
                  THEN buf[p * LogicalPageSize + i - start + 1]
                  ELSE IF PageStarted(disk, p) \/ p = a THEN InBuffer(disk, p, i)
                  ELSE IF (p - 1) * LogicalPageSize + i \in start .. start + Len(buf) - 1
                  THEN buf[(p - 1) * LogicalPageSize + i - start + 1]
                  ELSE InBuffer(disk, p - 1, i)
  BY <1>6 DEF PageImage
<1> HIDE DEF p, i, a, image
<1>12. /\ p * LogicalPageSize + i \in start .. start + Len(buf) - 1
            <=> k \in start + 1 .. start + Len(buf)
       /\ p * LogicalPageSize + i - start + 1 = k - start
  <2> DEFINE x == p * LogicalPageSize
  <2>1. x \in Nat /\ i \in Nat /\ Len(buf) \in Nat
    BY <1>6, PageSizes, LenProperties
  <2>2. k - 1 = x + i
    BY <1>6, Zenon
  <2> HIDE DEF x
  <2>3. x + i \in start .. start + Len(buf) - 1 <=> k \in start + 1 .. start + Len(buf)
    BY <2>1, <2>2
  <2>4. x + i - start + 1 = k - start
    BY <2>1, <2>2
  <2> QED
    BY <2>3, <2>4, Zenon DEF x
<1>13. CASE p \in a .. b
  <2>1. image \in PageData
    BY <1>2, <1>13, Zenon DEF image
  <2>2. \A j \in 0 .. PhysicalPageSize - 1 : CellAt(disk', p, j) = CellOf(image, j)
    BY <1>2, <1>4, <1>13, Zenon DEF image
  <2>3. ChecksumMatches(disk', p)
    BY <2>1, <2>2, StoredPage, Zenon
  <2>4. CellOf(image, i) = image[i]
    <3>1. i < LogicalPageSize
      BY <1>6, PageSizes
    <3> QED
      BY <3>1, Zenon DEF CellOf
  <2>5. ViewByte(disk', k) = image[i]
    BY <1>6, <1>7, <1>9, <2>2, <2>3, <2>4, Zenon
  <2>6. k \in start + 1 .. start + Len(buf) => image[i] = buf[k - start]
    BY <1>11, <1>12, Zenon
  <2>7. k \notin start + 1 .. start + Len(buf) /\ PageStarted(disk, p)
          => image[i] = CellAt(disk, p, i)
    BY <1>11, <1>12, Zenon DEF InBuffer
  <2>8. CASE Written(start, buf, b, k)
    BY <1>10, <2>5, <2>6, <2>8, Zenon
  <2>9. CASE ~Written(start, buf, b, k) /\ k <= physicalToLogical(Len(disk))
    <3>1. ViewByte(disk', k) = CellAt(disk, p, i)
      BY <1>5, <1>8, <1>10, <1>13, <2>5, <2>7, <2>9, Zenon
    <3> QED
      BY <1>6, <1>9, <2>9, <3>1, Zenon
  <2> QED
    BY <2>8, <2>9, Zenon
<1>14. CASE ~(p \in a .. b)
  <2>1. SUFFICES ASSUME k <= physicalToLogical(Len(disk))
                 PROVE  ViewByte(disk, k) = Lost \/ ViewByte(disk', k) = ViewByte(disk, k)
    BY <1>10, <1>14, Zenon
  <2>2. PageComplete(disk, p) /\ p < n
    BY <1>5, <1>8, <2>1, Zenon
  <2>3. \A j \in 0 .. PhysicalPageSize - 1 : CellAt(disk', p, j) = CellAt(disk, p, j)
    BY <1>2, <1>4, <1>14, <2>2, Zenon
  <2>4. ChecksumMatches(disk, p) => ChecksumMatches(disk', p)
    BY <2>3, SamePage, Zenon
  <2>5. CellAt(disk', p, i) = CellAt(disk, p, i)
    BY <1>6, <2>3, Zenon
  <2> QED
    BY <1>6, <1>7, <1>9, <2>4, <2>5, Zenon
<1> QED
  BY <1>13, <1>14, Zenon

-----------------------------------------------------------------------------
(* The simulation, one operation at a time. *)

\* The inductive invariant.  A closed file keeps the length it had.
RefInv ==
  /\ PageInv
  /\ logicalLength <= physicalToLogical(Len(disk))
  /\ policy <= 100

\* What the invariant says of the variables.
LEMMA RefTypes ==
  ASSUME RefInv
  PROVE  /\ TypeInv
         /\ disk \in Seq(Cell) /\ Len(disk) \in Nat
         /\ logicalLength \in Nat
         /\ cursor \in Nat
         /\ physicalToLogical(cursor) \in Nat
         /\ physicalToLogical(Len(disk)) \in Nat
         /\ mode = "write" => Sound(disk)
<1>1. TypeInv /\ disk \in Seq(Cell) /\ logicalLength \in Nat /\ cursor \in Nat
  BY Zenon DEF RefInv, PageInv, TypeInv, TypeOK
<1>2. Len(disk) \in Nat
  BY <1>1, LenProperties, Zenon
<1>3. mode = "write" => Sound(disk)
  BY Zenon DEF RefInv, PageInv, PagesSound, Sound
<1> QED
  BY <1>1, <1>2, <1>3, ToLogical, Zenon

(***************************************************************************)
(* The invariant is inductive.                                             *)
(***************************************************************************)
LEMMA RefStep ==
  ASSUME ~ShortWrites, RefInv, [Next]_vars
  PROVE  RefInv'
<1>1. PageInv'
  BY PageStep, Zenon DEF RefInv
<1>2. TypeInv /\ disk \in Seq(Cell) /\ policy <= 100
      /\ logicalLength <= physicalToLogical(Len(disk))
  BY RefTypes, Zenon DEF RefInv
<1>3. mode' # "closed" => logicalLength' <= physicalToLogical(Len(disk'))
  BY <1>1, Zenon DEF PageInv, LengthBacked
<1>4. ASSUME mode' = "closed"
      PROVE  logicalLength' = logicalLength /\ Len(disk') = Len(disk)
  <2>1. CASE Decay
    <3>1. PICK c \in 1 .. Len(disk), byte \in Byte : disk' = [disk EXCEPT ![c] = byte]
      BY <2>1, Zenon DEF Decay
    <3>2. byte \in Cell
      BY Zenon DEF Cell
    <3>3. Len(disk') = Len(disk)
      BY <1>2, <3>1, <3>2, ExceptSeq
    <3> QED
      BY <2>1, <3>3, Zenon DEF Decay
  <2>2. CASE close \/ UNCHANGED vars
    BY <2>2, Zenon DEF close, vars
  <2>3. ASSUME NEW percent \in Policies, OpenRead(percent)
        PROVE  logicalLength' = logicalLength /\ Len(disk') = Len(disk)
    BY <1>4, <2>3, Zenon DEF OpenRead
  <2>4. ASSUME NEW percent \in Policies, OpenWrite(percent)
        PROVE  FALSE
    BY <1>4, <2>4, Zenon DEF OpenWrite
  <2>5. ASSUME NEW x, seek(x) \/ write(x) \/ extend(x) \/ read(x) \/ RefuseReadOnly
        PROVE  FALSE
    <3>1. mode # "closed" /\ mode' = mode
      BY <2>5, Zenon DEF seek, write, extend, read, RefuseReadOnly
    <3> QED
      BY <1>4, <3>1, Zenon
  <2> QED
    BY <2>1, <2>2, <2>3, <2>4, <2>5, Zenon DEF Next
<1>5. policy' <= 100
  <2>1. ASSUME NEW percent \in Policies, OpenWrite(percent) \/ OpenRead(percent)
        PROVE  policy' <= 100
    <3>1. percent <= 100
      BY PolicyAssumption
    <3> QED
      BY <1>2, <2>1, <3>1, Zenon DEF OpenWrite, OpenRead
  <2>2. ASSUME NEW x, seek(x) \/ write(x) \/ extend(x) \/ read(x) \/ RefuseReadOnly
        PROVE  policy' = policy
    BY <2>2, Zenon DEF seek, write, extend, read, RefuseReadOnly
  <2>3. CASE close \/ Decay \/ UNCHANGED vars
    BY <1>2, <2>3, Zenon DEF close, Decay, vars
  <2> QED
    BY <1>2, <2>1, <2>2, <2>3, Zenon DEF Next
<1>6. mode' = "closed" => logicalLength' <= physicalToLogical(Len(disk'))
  BY <1>2, <1>4, Zenon
<1> QED
  BY <1>1, <1>3, <1>5, <1>6, Zenon DEF RefInv

\* The view before and after a step.
LEMMA Views ==
  ASSUME RefInv, RefInv'
  PROVE  /\ Len(LogicalView) = logicalLength
         /\ Len(LogicalView') = logicalLength'
         /\ \A k \in 1 .. logicalLength : LogicalView[k] = ViewByte(disk, k)
         /\ \A k \in 1 .. logicalLength' : LogicalView'[k] = ViewByte(disk', k)
<1>1. disk \in Seq(Cell) /\ DataCells(disk) /\ logicalLength \in Nat
  BY Zenon DEF RefInv, PageInv, TypeInv, TypeOK
<1>2. disk' \in Seq(Cell) /\ DataCells(disk') /\ logicalLength' \in Nat
  BY Zenon DEF RefInv, PageInv, TypeInv, TypeOK
<1> QED
  BY <1>1, <1>2, ViewType, ViewIs, Zenon

\* A step that leaves the disk and the length alone leaves the view alone.
LEMMA SameView ==
  ASSUME UNCHANGED <<disk, logicalLength>>
  PROVE  LogicalView' = LogicalView
BY Zenon DEF LogicalView, ByteAt, ChecksumMatches, DataOf, CellAt, PageComplete

\* The first byte of the file is the first byte of the disk.
LEMMA ZeroIsZero == physicalToLogical(0) = 0
<1>1. 0 * PhysicalPageSize = 0 /\ 0 * LogicalPageSize = 0
  BY PageSizes
<1>2. 0 \in Nat
  BY Zenon
<1> QED
  BY <1>1, <1>2, ToLogical, Zenon

\* Opening for writing empties the flat file.
LEMMA OpenWriteSimulates ==
  ASSUME RefInv, NEW percent \in Policies, OpenWrite(percent)
  PROVE  Flat!Open
<1>1. logicalLength' = 0 /\ cursor' = 0 /\ mode = "closed" /\ mode' = "write" /\ outcome'.ok
  BY Zenon DEF OpenWrite, Done
<1>2. LogicalView' = <<>>
  BY <1>1 DEF LogicalView
<1> QED
  BY <1>1, <1>2, ZeroIsZero, Zenon DEF Flat!Open, Flat!Returned

\* Opening for reading keeps the bytes, up to whole pages, or fails.
LEMMA OpenReadSimulates ==
  ASSUME RefInv, RefInv', NEW percent \in Policies, OpenRead(percent)
  PROVE  Flat!Open \/ Flat!OpenFails
<1>1. disk' = disk /\ mode = "closed"
  BY Zenon DEF OpenRead
<1>2. CASE /\ outcome' = Exception(<<>>)
           /\ UNCHANGED <<mode, logicalLength, cursor, policy>>
  <2>1. LogicalView' = LogicalView
    BY <1>1, <1>2, SameView, Zenon
  <2>2. physicalToLogical(cursor)' = physicalToLogical(cursor)
    BY <1>2, Zenon DEF physicalToLogical
  <2> QED
    BY <1>1, <1>2, <2>1, <2>2, Zenon DEF Flat!OpenFails, Flat!Threw, Exception
<1>3. CASE /\ mode' = "read"
           /\ logicalLength' = physicalToLogical(Len(disk))
           /\ cursor' = 0
           /\ outcome' = Done(<<>>)
  <2>1. /\ logicalLength \in Nat /\ logicalLength' \in Nat
        /\ logicalLength <= logicalLength'
    BY <1>3, RefTypes, Zenon DEF RefInv
  <2>2. \A k \in 1 .. logicalLength : LogicalView'[k] = LogicalView[k]
    BY <1>1, <2>1, Views
  <2>3. Len(LogicalView') >= Len(LogicalView) /\ Len(LogicalView) = logicalLength
    BY <2>1, Views, Zenon
  <2> QED
    BY <1>1, <1>3, <2>2, <2>3, ZeroIsZero, Zenon DEF Flat!Open, Flat!Returned, Done
<1> QED
  BY <1>2, <1>3, Zenon DEF OpenRead

\* close changes the mode only.
LEMMA CloseSimulates ==
  ASSUME RefInv, RefInv', close
  PROVE  Flat!Close
<1>1. /\ UNCHANGED <<disk, logicalLength, cursor, policy>>
      /\ mode # "closed" /\ mode' = "closed" /\ outcome'.ok
  BY Zenon DEF close, Done
<1>2. LogicalView' = LogicalView
  BY <1>1, SameView, Zenon
<1>3. physicalToLogical(cursor)' = physicalToLogical(cursor)
  BY <1>1, Zenon DEF physicalToLogical
<1> QED
  BY <1>1, <1>2, <1>3, Zenon DEF Flat!Close, Flat!Returned

\* A call that throws without storing anything leaves the bytes alone.
LEMMA RefusalSimulates ==
  ASSUME RefInv, RefInv', mode # "closed", outcome' = Exception(<<>>),
         UNCHANGED <<disk, logicalLength, mode, policy>>
  PROVE  Flat!Refuse
<1>1. LogicalView' = LogicalView
  BY SameView, Zenon
<1>2. physicalToLogical(cursor') \in Nat
  BY ToLogical, Zenon DEF RefInv, PageInv, TypeInv, TypeOK
<1> QED
  BY <1>1, <1>2, Zenon DEF Flat!Refuse, Flat!Threw, Exception

\* seek moves the cursor, or throws.
LEMMA SeekSimulates ==
  ASSUME RefInv, RefInv', NEW offset \in 0 .. MaxLogicalLength, seek(offset)
  PROVE  Flat!Seek \/ Flat!Refuse
<1>1. UNCHANGED <<disk, logicalLength, mode, policy>> /\ mode # "closed"
  BY Zenon DEF seek
<1>2. LogicalView' = LogicalView
  BY <1>1, SameView, Zenon
<1>3. physicalToLogical(cursor') \in Nat
  BY ToLogical, Zenon DEF RefInv, PageInv, TypeInv, TypeOK
<1>4. outcome' = Done(<<>>) \/ outcome' = Exception(<<>>)
  BY Zenon DEF seek
<1>5. CASE outcome' = Done(<<>>)
  BY <1>1, <1>2, <1>3, <1>5, Zenon DEF Flat!Seek, Flat!Returned, Done
<1>6. CASE outcome' = Exception(<<>>)
  BY <1>1, <1>6, RefusalSimulates, Zenon
<1> QED
  BY <1>4, <1>5, <1>6, Zenon

(***************************************************************************)
(* The page of every byte of a call is among the call's pages.             *)
(***************************************************************************)
LEMMA PageOfTransfer ==
  ASSUME NEW start \in Nat, NEW n \in Nat, NEW k \in start + 1 .. start + n
  PROVE  /\ k \in Nat \ {0}
         /\ (k - 1) \div LogicalPageSize
              \in start \div LogicalPageSize .. LastPage(start, n)
<1> DEFINE x == k - 1
           last == start + n - 1
           p == x \div LogicalPageSize
<1>1. x \in Nat /\ last \in Nat /\ start <= x /\ x <= last /\ n # 0 /\ k \in Nat \ {0}
  OBVIOUS
<1>2. LastPage(start, n) = last \div LogicalPageSize
  BY <1>1, Zenon DEF LastPage
<1> HIDE DEF x, last
<1>3. /\ start \div LogicalPageSize <= p
      /\ p <= last \div LogicalPageSize
      /\ p \in Nat
      /\ start \div LogicalPageSize \in Nat
      /\ last \div LogicalPageSize \in Nat
  BY <1>1, DivMonotonic, DivMod, PageSizes, Zenon
<1> HIDE DEF p
<1>4. p \in start \div LogicalPageSize .. LastPage(start, n)
  BY <1>2, <1>3
<1> QED
  BY <1>1, <1>4, Zenon DEF p, x

\* read returns the bytes of the view, or throws.
LEMMA ReadSimulates ==
  ASSUME RefInv, RefInv', NEW n \in 0 .. MaxTransfer, read(n)
  PROVE  Flat!Read \/ Flat!Refuse
<1> DEFINE start == physicalToLogical(cursor)
           end == start + n
           P == PagesOf(start, end)
           bad == {p \in P : ~PageReads(p, start, end)}
           data == [i \in 1 .. n |-> ByteAt(disk, start + i - 1)]
<1>1. UNCHANGED <<disk, mode, logicalLength, policy>> /\ mode # "closed"
  BY Zenon DEF read
<1>2. \/ /\ end <= logicalLength /\ bad = {}
         /\ cursor' = logicalToPhysical(end) /\ outcome' = Done(data)
      \/ outcome' = Exception(<<>>)
  BY Zenon DEF read
<1>3. CASE outcome' = Exception(<<>>)
  BY <1>1, <1>3, RefusalSimulates, Zenon
<1>4. CASE /\ end <= logicalLength /\ bad = {}
           /\ cursor' = logicalToPhysical(end) /\ outcome' = Done(data)
  <2>1. n \in Nat /\ start \in Nat /\ end \in Nat /\ logicalLength \in Nat /\ policy \in Nat
    <3>1. n \in Nat /\ logicalLength \in Nat /\ policy \in Nat
      BY BoundAssumption DEF RefInv, PageInv, TypeInv, TypeOK
    <3>2. start \in Nat
      BY RefTypes, Zenon
    <3> HIDE DEF start
    <3> QED
      BY <3>1, <3>2
  <2> HIDE DEF start
  <2>2. P = start \div LogicalPageSize .. LastPage(start, n)
    BY <2>1, PagesOfCall, Zenon
  <2>3. data \in Seq(Byte) /\ Len(data) = n
    <3>1. data \in Seq(Byte)
      <4>1. outcome' \in [ok : BOOLEAN, data : Seq(Byte)]
        BY Zenon DEF RefInv, PageInv, TypeInv, TypeOK
      <4> HIDE DEF data
      <4> QED
        BY <1>4, <4>1, Zenon DEF Done
    <3>2. DOMAIN data = 1 .. n
      BY Zenon
    <3> HIDE DEF data
    <3> QED
      BY <2>1, <3>1, <3>2, LenProperties
  <2>4. physicalToLogical(cursor') = end
    BY <1>4, <2>1, ThereAndBack, Zenon
  <2>5. LogicalView' = LogicalView
    BY <1>1, SameView, Zenon
  <2>6. ASSUME NEW i \in 1 .. n
        PROVE  \/ data[i] = LogicalView[start + i]
               \/ LogicalView[start + i] = Lost /\ policy < 100
    <3> DEFINE k == start + i
               p == (k - 1) \div LogicalPageSize
    <3>1. /\ k \in start + 1 .. start + n /\ k \in 1 .. logicalLength
          /\ start + i - 1 = k - 1
      BY <1>4, <2>1
    <3>2. data[i] = ByteAt(disk, k - 1)
      BY <3>1, Zenon
    <3> HIDE DEF k, data
    <3>3. p \in P
      BY <2>1, <2>2, <3>1, PageOfTransfer, Zenon
    <3>4. PageReads(p, start, end)
      BY <1>4, <3>3, Zenon DEF bad
    <3>5. PageComplete(disk, p) /\ (policy = 100 => ChecksumMatches(disk, p))
      BY <3>4, Zenon DEF PageReads, Verifies
    <3>6. LogicalView[k] = ViewByte(disk, k)
      BY <3>1, Views, Zenon
    <3>7. ViewByte(disk, k) = IF PageComplete(disk, p) /\ ChecksumMatches(disk, p)
                              THEN ByteAt(disk, k - 1) ELSE Lost
      BY Zenon DEF ViewByte
    <3>8. policy # 100 => policy < 100
      BY <2>1 DEF RefInv
    <3> HIDE DEF p
    <3>9. data[i] = LogicalView[k] \/ (LogicalView[k] = Lost /\ policy < 100)
      BY <3>2, <3>5, <3>6, <3>7, <3>8, Zenon
    <3> QED
      BY <3>9, Zenon DEF k
  <2> HIDE DEF data, end, P, bad
  <2>7. Len(LogicalView) = logicalLength
    BY Views, Zenon
  <2>8. outcome'.ok /\ outcome'.data = data
    BY <1>4, Zenon DEF Done
  <2>9. physicalToLogical(cursor') = start + Len(data) /\ start + Len(data) <= Len(LogicalView)
    BY <1>4, <2>3, <2>4, <2>7, Zenon DEF end
  <2>10. Flat!Read
    BY <1>1, <2>3, <2>5, <2>6, <2>8, <2>9
    DEF Flat!Read, Flat!Returned, Flat!Transferred, start
  <2> QED
    BY <2>10
<1> QED
  BY <1>2, <1>3, <1>4

(***************************************************************************)
(* A call that stores all its pages stores its bytes and touches no other. *)
(***************************************************************************)
LEMMA StoreAllSimulates ==
  ASSUME ~ShortWrites, RefInv, RefInv', mode = "write",
         NEW start \in Nat, NEW buf \in Seq(Byte), StoreAll(start, buf),
         logicalLength' = Greater(logicalLength, start + Len(buf))
  PROVE  Flat!Stored(start, buf)
<1> DEFINE end == start + Len(buf)
           b == LastPage(start, Len(buf))
<1>1. Len(buf) \in Nat /\ end \in Nat /\ TypeInv /\ Sound(disk) /\ logicalLength \in Nat
  BY LenProperties, RefTypes
<1>2. Stores(start, buf, b) /\ b \in Int
  BY <1>1, StoreAllStores, PagesOfCall
<1>3. physicalToLogical(cursor') = end
  <2>1. cursor' = logicalToPhysical(end)
    BY DEF StoreAll
  <2> QED
    BY <1>1, <2>1, ThereAndBack
<1>4. /\ logicalLength <= physicalToLogical(Len(disk))
      /\ logicalLength' <= physicalToLogical(Len(disk'))
      /\ physicalToLogical(Len(disk)) \in Nat
      /\ physicalToLogical(Len(disk')) \in Nat
      /\ logicalLength' \in Nat
  <2>1. disk' \in Seq(Cell) /\ logicalLength' \in Nat
    BY DEF RefInv, PageInv, TypeInv, TypeOK
  <2> QED
    BY <2>1, RefTypes, ToLogical, LenProperties DEF RefInv
<1> HIDE DEF b
<1>5. ASSUME NEW k \in 1 .. logicalLength'
      PROVE  /\ k \in start + 1 .. end => LogicalView'[k] = buf[k - start]
             /\ ~(k \in start + 1 .. end) /\ k <= logicalLength => Flat!Kept(k)
  <2>1. k \in Nat \ {0} /\ k <= physicalToLogical(Len(disk'))
    BY <1>4
  <2>2. /\ Written(start, buf, b, k) => ViewByte(disk', k) = buf[k - start]
        /\ ~Written(start, buf, b, k) /\ k <= physicalToLogical(Len(disk)) =>
             ViewByte(disk, k) = Lost \/ ViewByte(disk', k) = ViewByte(disk, k)
    BY <1>1, <1>2, <2>1, ViewAfter
  <2>3. Written(start, buf, b, k) <=> k \in start + 1 .. end
    BY <1>1, PageOfTransfer DEF Written, b
  <2>4. LogicalView'[k] = ViewByte(disk', k)
    BY Views
  <2>5. k <= logicalLength => LogicalView[k] = ViewByte(disk, k) /\ k <= physicalToLogical(Len(disk))
    <3> SUFFICES ASSUME k <= logicalLength
                 PROVE  LogicalView[k] = ViewByte(disk, k) /\ k <= physicalToLogical(Len(disk))
      OBVIOUS
    <3>1. k \in 1 .. logicalLength /\ k <= physicalToLogical(Len(disk))
      BY <1>1, <1>4, <2>1
    <3> QED
      BY <3>1, Views
  <2> HIDE DEF end
  <2>6. CASE k \in start + 1 .. end
    BY <2>2, <2>3, <2>4, <2>6, Zenon
  <2>7. CASE ~(k \in start + 1 .. end) /\ k <= logicalLength
    BY <2>2, <2>3, <2>4, <2>5, <2>7, Zenon DEF Flat!Kept
  <2> QED
    BY <2>6, <2>7, Zenon
<1>6. Len(LogicalView') = logicalLength' /\ Len(LogicalView) = logicalLength
  BY Views
<1>7. logicalLength' = IF end > logicalLength THEN end ELSE logicalLength
  BY <1>1 DEF Greater
<1> HIDE DEF end
<1> QED
  BY <1>3, <1>5, <1>6, <1>7 DEF Flat!Stored, end

(***************************************************************************)
(* A call that an error stops stores some of its bytes and touches no      *)
(* other.                                                                  *)
(***************************************************************************)
LEMMA StoreUntilSimulates ==
  ASSUME ~ShortWrites, RefInv, RefInv', mode = "write",
         NEW start \in Nat, NEW buf \in Seq(Byte), NEW f, StoreUntil(start, buf, f)
  PROVE  /\ outcome' = Exception(buf)
         /\ logicalLength' = logicalLength
         /\ physicalToLogical(cursor') \in Nat
         /\ Len(LogicalView') = Len(LogicalView) /\ Len(LogicalView) = logicalLength
         /\ \A k \in 1 .. logicalLength :
              \/ Flat!Kept(k)
              \/ k \in start + 1 .. start + Len(buf) /\ LogicalView'[k] = buf[k - start]
<1>1. TypeInv /\ Sound(disk) /\ logicalLength \in Nat
  BY RefTypes
<1>2. Stores(start, buf, f - 1) /\ f - 1 \in Int /\ logicalLength' = logicalLength
  BY <1>1, StoreUntilStores
<1>3. outcome' = Exception(buf)
  BY DEF StoreUntil
<1>4. physicalToLogical(cursor') \in Nat
  BY ToLogical DEF RefInv, PageInv, TypeInv, TypeOK
<1>5. Len(LogicalView') = Len(LogicalView) /\ Len(LogicalView) = logicalLength
  BY <1>2, Views
<1>6. /\ logicalLength <= physicalToLogical(Len(disk))
      /\ logicalLength <= physicalToLogical(Len(disk'))
      /\ physicalToLogical(Len(disk)) \in Nat
      /\ physicalToLogical(Len(disk')) \in Nat
  <2>1. disk' \in Seq(Cell)
    BY DEF RefInv, PageInv, TypeInv, TypeOK
  <2> QED
    BY <1>2, <2>1, RefTypes, ToLogical, LenProperties DEF RefInv
<1>7. ASSUME NEW k \in 1 .. logicalLength
      PROVE  \/ Flat!Kept(k)
             \/ k \in start + 1 .. start + Len(buf) /\ LogicalView'[k] = buf[k - start]
  <2> DEFINE b == f - 1
  <2>1. /\ k \in Nat \ {0} /\ k <= physicalToLogical(Len(disk'))
        /\ k <= physicalToLogical(Len(disk))
    BY <1>1, <1>6
  <2> HIDE DEF b
  <2>2. /\ Written(start, buf, b, k) => ViewByte(disk', k) = buf[k - start]
        /\ ~Written(start, buf, b, k) /\ k <= physicalToLogical(Len(disk)) =>
             ViewByte(disk, k) = Lost \/ ViewByte(disk', k) = ViewByte(disk, k)
    BY <1>1, <1>2, <2>1, ViewAfter DEF b
  <2>3. Written(start, buf, b, k) => k \in start + 1 .. start + Len(buf)
    BY DEF Written
  <2>4. LogicalView'[k] = ViewByte(disk', k) /\ LogicalView[k] = ViewByte(disk, k)
    BY <1>2, Views
  <2> QED
    BY <2>1, <2>2, <2>3, <2>4, Zenon DEF Flat!Kept
<1> QED
  BY <1>2, <1>3, <1>4, <1>5, <1>7

\* write replaces the bytes it is given, or throws with some replaced.
LEMMA WriteSimulates ==
  ASSUME ~ShortWrites, RefInv, RefInv', NEW buf \in Buffers, write(buf)
  PROVE  Flat!WriteReturns \/ Flat!WriteThrows
<1> DEFINE start == physicalToLogical(cursor)
<1>1. start \in Nat /\ buf \in Seq(Byte)
  BY RefTypes, BuffersType
<1>2. /\ mode = "write" /\ UNCHANGED <<mode, policy>>
      /\ \/ /\ StoreAll(start, buf)
            /\ logicalLength' = Greater(logicalLength, start + Len(buf))
         \/ \E f : StoreUntil(start, buf, f)
  BY DEF write
<1> HIDE DEF start
<1>3. CASE /\ StoreAll(start, buf)
           /\ logicalLength' = Greater(logicalLength, start + Len(buf))
  <2>1. Flat!Stored(start, buf)
    BY <1>1, <1>2, <1>3, StoreAllSimulates
  <2>2. outcome'.ok /\ outcome'.data = buf
    BY <1>3 DEF StoreAll, Done
  <2> QED
    BY <1>2, <2>1, <2>2 DEF Flat!WriteReturns, Flat!Returned, Flat!Transferred, start
<1>4. CASE \E f : StoreUntil(start, buf, f)
  <2>1. PICK f : StoreUntil(start, buf, f)
    BY <1>4
  <2>2. /\ outcome' = Exception(buf)
        /\ physicalToLogical(cursor') \in Nat
        /\ Len(LogicalView') = Len(LogicalView) /\ Len(LogicalView) = logicalLength
        /\ \A k \in 1 .. logicalLength :
             \/ Flat!Kept(k)
             \/ k \in start + 1 .. start + Len(buf) /\ LogicalView'[k] = buf[k - start]
    BY <1>1, <1>2, <2>1, StoreUntilSimulates
  <2>3. ~outcome'.ok /\ outcome'.data = buf
    BY <2>2 DEF Exception
  <2>4. Flat!PartlyStored(start, buf)
    BY <2>2 DEF Flat!PartlyStored
  <2> QED
    BY <1>2, <2>3, <2>4 DEF Flat!WriteThrows, Flat!Threw, Flat!Transferred, start
<1> QED
  BY <1>2, <1>3, <1>4

(***************************************************************************)
(* extend writes zeros from the end on.  One that an error stops has not   *)
(* touched a byte of the file.                                             *)
(***************************************************************************)
LEMMA ExtendSimulates ==
  ASSUME ~ShortWrites, RefInv, RefInv', NEW newLength \in 0 .. MaxLogicalLength,
         extend(newLength)
  PROVE  Flat!Extend \/ Flat!WriteThrows \/ Flat!Refuse
<1> DEFINE zeros == Zeros(newLength)
<1>1. newLength \in Nat /\ logicalLength \in Nat /\ TypeInv
  BY BoundAssumption, RefTypes
<1>2. /\ mode = "write" /\ UNCHANGED <<mode, policy>>
      /\ \/ /\ newLength >= logicalLength
            /\ StoreAll(logicalLength, zeros)
            /\ logicalLength' = newLength
         \/ /\ newLength >= logicalLength
            /\ \E f : StoreUntil(logicalLength, zeros, f)
         \/ /\ outcome' = Exception(<<>>)
            /\ UNCHANGED <<disk, logicalLength, cursor>>
  BY Zenon DEF extend, Zeros
<1>3. newLength >= logicalLength =>
        /\ zeros \in Seq(Byte)
        /\ Len(zeros) = newLength - logicalLength
        /\ \A i \in 1 .. Len(zeros) : zeros[i] = Zero
  <2>1. newLength >= logicalLength =>
          zeros \in Seq(Byte) /\ Len(zeros) = newLength - logicalLength
    BY <1>1, ZerosType
  <2>2. \A i \in 1 .. newLength - logicalLength : zeros[i] = Zero
    BY DEF Zeros
  <2> HIDE DEF zeros
  <2> QED
    BY <2>1, <2>2
<1> HIDE DEF zeros
<1>4. CASE /\ newLength >= logicalLength
           /\ StoreAll(logicalLength, zeros)
           /\ logicalLength' = newLength
  <2>1. logicalLength' = Greater(logicalLength, logicalLength + Len(zeros))
    BY <1>1, <1>3, <1>4 DEF Greater
  <2>2. Flat!Stored(logicalLength, zeros)
    BY <1>1, <1>2, <1>3, <1>4, <2>1, StoreAllSimulates
  <2>3. outcome'.ok /\ outcome'.data = zeros
    BY <1>4 DEF StoreAll, Done
  <2>4. Len(LogicalView) = logicalLength
    BY Views
  <2>5. Flat!Extend
    BY <1>2, <1>3, <1>4, <2>2, <2>3, <2>4 DEF Flat!Extend, Flat!Returned, Flat!Transferred
  <2> QED
    BY <2>5
<1>5. CASE newLength >= logicalLength /\ \E f : StoreUntil(logicalLength, zeros, f)
  <2>1. PICK f : StoreUntil(logicalLength, zeros, f)
    BY <1>5
  <2>2. /\ outcome' = Exception(zeros)
        /\ physicalToLogical(cursor') \in Nat
        /\ Len(LogicalView') = Len(LogicalView) /\ Len(LogicalView) = logicalLength
        /\ \A k \in 1 .. logicalLength :
             \/ Flat!Kept(k)
             \/ /\ k \in logicalLength + 1 .. logicalLength + Len(zeros)
                /\ LogicalView'[k] = zeros[k - logicalLength]
    BY <1>1, <1>2, <1>3, <1>5, <2>1, StoreUntilSimulates
  <2>3. ~outcome'.ok /\ outcome'.data = zeros
    BY <2>2 DEF Exception
  <2>4. \A k \in 1 .. logicalLength : k \notin logicalLength + 1 .. logicalLength + Len(zeros)
    BY <1>1
  <2>5. \A k \in 1 .. logicalLength : Flat!Kept(k)
    BY <2>2, <2>4, Zenon
  <2>6. Flat!PartlyStored(physicalToLogical(cursor), zeros)
    BY <2>2, <2>5 DEF Flat!PartlyStored
  <2>7. Flat!WriteThrows
    BY <1>2, <2>3, <2>6 DEF Flat!WriteThrows, Flat!Threw, Flat!Transferred
  <2> QED
    BY <2>7
<1>6. CASE outcome' = Exception(<<>>) /\ UNCHANGED <<disk, logicalLength, cursor>>
  BY <1>2, <1>6, RefusalSimulates
<1> QED
  BY <1>2, <1>4, <1>5, <1>6

\* Disk e is disk d with another value in one cell.
OneCellChanged(d, e) ==
  \E c \in 1 .. Len(d), byte \in Cell : d[c] # byte /\ e = [d EXCEPT ![c] = byte]

SameCells(d, e, p) ==
  \A i \in 0 .. PhysicalPageSize - 1 : CellAt(e, p, i) = CellAt(d, p, i)

(***************************************************************************)
(* A page with its checksum does not have it any more once a cell of it    *)
(* has changed.                                                            *)
(***************************************************************************)
LEMMA DecayedPage ==
  ASSUME NEW d \in Seq(Cell), NEW e, OneCellChanged(d, e),
         NEW p \in Nat, PageComplete(d, p), ChecksumMatches(d, p), ChecksumMatches(e, p)
  PROVE  SameCells(d, e, p)
<1>0. PICK c \in 1 .. Len(d), byte \in Cell : d[c] # byte /\ e = [d EXCEPT ![c] = byte]
  BY Zenon DEF OneCellChanged
<1> DEFINE K == PhysicalPageSize
           L == LogicalPageSize
<1>1. K \in Nat \ {0} /\ L \in Nat \ {0} /\ L < K /\ Len(d) \in Nat
  BY PageSizes, LenProperties
<1>2. \A x \in 1 .. Len(d) : e[x] = IF x = c THEN byte ELSE d[x]
  BY <1>0, ExceptSeq
<1>3. ASSUME NEW i \in 0 .. K - 1
      PROVE  /\ CellAt(d, p, i) = d[CellNumber(p, i)]
             /\ CellAt(e, p, i) = IF CellNumber(p, i) = c THEN byte ELSE CellAt(d, p, i)
  <2>1. /\ CellNumber(p, i) \in Nat \ {0}
        /\ CellAt(d, p, i) = d[CellNumber(p, i)]
        /\ CellAt(e, p, i) = e[CellNumber(p, i)]
        /\ CellNumber(p, i) <= (p + 1) * K
    <3>1. p + 1 \in Nat /\ p < p + 1
      OBVIOUS
    <3> QED
      BY <3>1, CellPlace, Zenon
  <2>2. (p + 1) * K <= Len(d) /\ (p + 1) * K \in Nat
    BY <1>1 DEF PageComplete
  <2>3. CellNumber(p, i) \in 1 .. Len(d)
    <3> DEFINE x == CellNumber(p, i)
               y == (p + 1) * K
    <3>1. x \in Nat \ {0} /\ y \in Nat /\ x <= y /\ y <= Len(d)
      BY <2>1, <2>2
    <3> HIDE DEF x, y
    <3>2. x \in 1 .. Len(d)
      BY <1>1, <3>1
    <3> QED
      BY <3>2 DEF x
  <2> QED
    BY <1>2, <2>1, <2>3, Zenon
<1>4. \A i, j \in 0 .. K - 1 : CellNumber(p, i) = CellNumber(p, j) => i = j
  <2> TAKE i, j \in 0 .. K - 1
  <2>1. (CellNumber(p, i) - 1) % PhysicalPageSize = i /\ (CellNumber(p, j) - 1) % PhysicalPageSize = j
    BY CellPlace
  <2> QED
    BY <2>1
<1>5. ASSUME NEW i \in 0 .. K - 1, CellNumber(p, i) = c
      PROVE  FALSE
  <2>1. CellAt(e, p, i) = byte /\ CellAt(d, p, i) # byte
    BY <1>0, <1>3, <1>5, Zenon
  <2>2. \A j \in 0 .. K - 1 : j # i => CellAt(e, p, j) = CellAt(d, p, j)
    BY <1>3, <1>4, <1>5, Zenon
  <2>3. \A j \in L .. K - 1 : CellAt(d, p, j) = DataOf(d, p) /\ CellAt(e, p, j) = DataOf(e, p)
    BY DEF ChecksumMatches, checksum
  <2>4. CASE i < L
    <3>1. L \in L .. K - 1 /\ L \in 0 .. K - 1 /\ L # i /\ i \in 0 .. L - 1
      BY <1>1, <2>4
    <3>2. DataOf(e, p) = DataOf(d, p)
      <4>1. CellAt(e, p, L) = CellAt(d, p, L)
        BY <2>2, <3>1
      <4>2. CellAt(d, p, L) = DataOf(d, p) /\ CellAt(e, p, L) = DataOf(e, p)
        BY <2>3, <3>1
      <4> QED
        BY <4>1, <4>2, Zenon
    <3>3. DataOf(e, p)[i] = CellAt(e, p, i) /\ DataOf(d, p)[i] = CellAt(d, p, i)
      BY <3>1 DEF DataOf
    <3> QED
      BY <2>1, <3>2, <3>3, Zenon
  <2>5. CASE ~(i < L)
    <3>1. i \in L .. K - 1
      BY <1>1, <2>5
    <3>2. \A j \in 0 .. L - 1 : j \in 0 .. K - 1 /\ j # i
      BY <1>1, <2>5
    <3>3. \A j \in 0 .. L - 1 : CellAt(e, p, j) = CellAt(d, p, j)
      BY <2>2, <3>2, Zenon
    <3>4. DataOf(e, p) = DataOf(d, p)
      BY <3>3 DEF DataOf
    <3> QED
      BY <2>1, <2>3, <3>1, <3>4, Zenon
  <2> QED
    BY <2>4, <2>5
<1> QED
  BY <1>3, <1>5, Zenon DEF SameCells

\* A cell that changes at rest loses the bytes of its page, and no other.
LEMMA DecaySimulates ==
  ASSUME RefInv, RefInv', Decay
  PROVE  Flat!LoseBytes
<1>1. /\ mode = "closed" /\ UNCHANGED <<mode, logicalLength, cursor, policy, outcome>>
      /\ \A p \in 0 .. (Len(disk) \div PhysicalPageSize) - 1 : ChecksumMatches(disk, p)
  BY DEF Decay
<1>2. PICK c \in 1 .. Len(disk), byte \in Byte :
        disk[c] # byte /\ disk' = [disk EXCEPT ![c] = byte]
  BY Zenon DEF Decay
<1>3. byte \in Cell /\ disk \in Seq(Cell) /\ Len(disk) \in Nat /\ logicalLength \in Nat
  BY RefTypes DEF Cell
<1>4. Len(disk') = Len(disk)
  BY <1>2, <1>3, ExceptSeq
<1>5. ASSUME NEW k \in 1 .. logicalLength
      PROVE  LogicalView'[k] \in {LogicalView[k], Lost}
  <2> DEFINE p == (k - 1) \div LogicalPageSize
             i == (k - 1) % LogicalPageSize
  <2>1. LogicalView[k] = ViewByte(disk, k) /\ LogicalView'[k] = ViewByte(disk', k)
    BY <1>1, Views
  <2>2. k \in Nat \ {0}
    BY <1>3
  <2>3. /\ p \in Nat /\ i \in 0 .. PhysicalPageSize - 1
        /\ ByteAt(disk, k - 1) = CellAt(disk, p, i)
        /\ ByteAt(disk', k - 1) = CellAt(disk', p, i)
    BY <2>2, ByteOfPage
  <2>4. /\ ViewByte(disk, k) = IF PageComplete(disk, p) /\ ChecksumMatches(disk, p)
                               THEN ByteAt(disk, k - 1) ELSE Lost
        /\ ViewByte(disk', k) = IF PageComplete(disk', p) /\ ChecksumMatches(disk', p)
                                THEN ByteAt(disk', k - 1) ELSE Lost
    BY DEF ViewByte
  <2> HIDE DEF p, i
  <2>5. PageComplete(disk', p) => PageComplete(disk, p)
    BY <1>4 DEF PageComplete
  <2>6. PageComplete(disk, p) => ChecksumMatches(disk, p)
    <3> SUFFICES ASSUME PageComplete(disk, p)
                 PROVE  ChecksumMatches(disk, p)
      OBVIOUS
    <3>1. p + 1 \in Nat /\ (p + 1) * PhysicalPageSize \in Nat
      BY <2>3, PageSizes
    <3>2. (p + 1) * PhysicalPageSize <= Len(disk)
      BY DEF PageComplete
    <3>3. ((p + 1) * PhysicalPageSize) \div PhysicalPageSize = p + 1
      BY <3>1, WholePages
    <3>4. p + 1 <= Len(disk) \div PhysicalPageSize /\ Len(disk) \div PhysicalPageSize \in Nat
      <4>1. ((p + 1) * PhysicalPageSize) \div PhysicalPageSize <= Len(disk) \div PhysicalPageSize
        BY <1>3, <3>1, <3>2, PageSizes, DivMonotonic
      <4>2. Len(disk) \div PhysicalPageSize \in Nat
        BY <1>3, PageSizes, DivMod, Zenon
      <4> QED
        BY <3>3, <4>1, <4>2
    <3>5. p \in 0 .. (Len(disk) \div PhysicalPageSize) - 1
      BY <2>3, <3>4
    <3> QED
      BY <1>1, <3>5
  <2>7. CASE PageComplete(disk', p) /\ ChecksumMatches(disk', p)
    <3>1. PageComplete(disk, p) /\ ChecksumMatches(disk, p)
      BY <2>5, <2>6, <2>7
    <3>2. OneCellChanged(disk, disk')
      BY <1>2, <1>3, Zenon DEF OneCellChanged
    <3>3. CellAt(disk', p, i) = CellAt(disk, p, i)
      <4>1. SameCells(disk, disk', p)
        BY <1>3, <2>3, <2>7, <3>1, <3>2, DecayedPage, Zenon
      <4> QED
        BY <2>3, <4>1 DEF SameCells
    <3>4. LogicalView'[k] = LogicalView[k]
      BY <2>1, <2>3, <2>4, <2>7, <3>1, <3>3, Zenon
    <3> QED
      BY <3>4
  <2>8. CASE ~(PageComplete(disk', p) /\ ChecksumMatches(disk', p))
    <3>1. LogicalView'[k] = Lost
      BY <2>1, <2>4, <2>8, Zenon
    <3> QED
      BY <3>1
  <2> QED
    BY <2>7, <2>8
<1>6. Len(LogicalView') = Len(LogicalView) /\ Len(LogicalView) = logicalLength
  BY <1>1, Views
<1>7. physicalToLogical(cursor)' = physicalToLogical(cursor)
  BY <1>1 DEF physicalToLogical
<1> QED
  BY <1>1, <1>5, <1>6, <1>7 DEF Flat!LoseBytes

(***************************************************************************)
(* CheckedFile implements a flat array of bytes, for every page size,      *)
(* checksum size and set of bytes: where the file system stores the pages  *)
(* it is given, every open, seek, read, write, extend and close, and every *)
(* I/O error between two pages, is a step of FlatFile on the logical view  *)
(* of the disk.                                                            *)
(***************************************************************************)
THEOREM FlatFileImplemented == ~ShortWrites => (Spec => ImplementsFlatFile)
<1> SUFFICES ASSUME ~ShortWrites
             PROVE  Spec => ImplementsFlatFile
  OBVIOUS
<1>1. Init => RefInv
  <2> SUFFICES ASSUME Init
               PROVE  RefInv
    OBVIOUS
  <2>1. TypeInv
    BY DEF Init, TypeInv, TypeOK, DataCells, Done
  <2>2. PageInv
    BY <2>1 DEF Init, PageInv, PagesSound, LengthBacked
  <2>3. physicalToLogical(Len(disk)) = 0
    BY ZeroIsZero DEF Init
  <2> QED
    BY <2>2, <2>3 DEF Init, RefInv
<1>2. RefInv /\ [Next]_vars => RefInv'
  BY RefStep
<1>3. Init => Flat!Init
  <2> SUFFICES ASSUME Init
               PROVE  Flat!Init
    OBVIOUS
  <2>1. LogicalView = <<>>
    BY DEF Init, LogicalView
  <2>2. physicalToLogical(cursor) = 0
    BY ZeroIsZero DEF Init
  <2> QED
    BY <2>1, <2>2 DEF Init, Flat!Init, Done
<1>4. RefInv /\ RefInv' /\ [Next]_vars => [Flat!Next]_(Flat!vars)
  <2> SUFFICES ASSUME RefInv, RefInv', [Next]_vars
               PROVE  [Flat!Next]_(Flat!vars)
    OBVIOUS
  <2>1. ASSUME NEW percent \in Policies, OpenWrite(percent)
        PROVE  Flat!Next
    BY <2>1, OpenWriteSimulates DEF Flat!Next
  <2>2. ASSUME NEW percent \in Policies, OpenRead(percent)
        PROVE  Flat!Next
    BY <2>2, OpenReadSimulates DEF Flat!Next
  <2>3. ASSUME NEW offset \in 0 .. MaxLogicalLength, seek(offset)
        PROVE  Flat!Next
    BY <2>3, SeekSimulates DEF Flat!Next
  <2>4. ASSUME NEW buf \in Buffers, write(buf)
        PROVE  Flat!Next
    BY <2>4, WriteSimulates DEF Flat!Next
  <2>5. ASSUME NEW newLength \in 0 .. MaxLogicalLength, extend(newLength)
        PROVE  Flat!Next
    BY <2>5, ExtendSimulates DEF Flat!Next
  <2>6. ASSUME RefuseReadOnly
        PROVE  Flat!Next
    <3>1. /\ mode # "closed" /\ outcome' = Exception(<<>>)
          /\ UNCHANGED <<disk, logicalLength, mode, policy>>
      BY <2>6 DEF RefuseReadOnly
    <3> QED
      BY <3>1, RefusalSimulates DEF Flat!Next
  <2>7. ASSUME NEW n \in 0 .. MaxTransfer, read(n)
        PROVE  Flat!Next
    BY <2>7, ReadSimulates DEF Flat!Next
  <2>8. ASSUME close
        PROVE  Flat!Next
    BY <2>8, CloseSimulates DEF Flat!Next
  <2>9. ASSUME Decay
        PROVE  Flat!Next
    BY <2>9, DecaySimulates DEF Flat!Next
  <2>10. ASSUME UNCHANGED vars
         PROVE  UNCHANGED Flat!vars
    <3>1. UNCHANGED <<disk, mode, logicalLength, cursor, policy, outcome>>
      BY <2>10 DEF vars
    <3>2. LogicalView' = LogicalView
      BY <3>1, SameView
    <3>3. physicalToLogical(cursor)' = physicalToLogical(cursor)
      BY <3>1 DEF physicalToLogical
    <3> QED
      BY <3>1, <3>2, <3>3 DEF Flat!vars
  <2> QED
    BY <2>1, <2>2, <2>3, <2>4, <2>5, <2>6, <2>7, <2>8, <2>9, <2>10 DEF Next
<1> QED
  BY <1>1, <1>2, <1>3, <1>4, PTL DEF Spec, ImplementsFlatFile, Flat!Spec
=============================================================================
