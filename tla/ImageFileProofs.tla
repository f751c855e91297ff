-------------------------- MODULE ImageFileProofs ---------------------------
(***************************************************************************)
(* Proofs about module ImageFile, for any vectors, blobs, handles and      *)
(* sizes: type correctness, that the two counts are the numbers of open    *)
(* writers and readers, that at most one of them is open, and which writes *)
(* and extends, those of new blobs and writers among them, keep the        *)
(* sections that are in the file and what can be read of them.             *)
(***************************************************************************)
EXTENDS ImageFile, FiniteSetTheorems, TLAPS

(***************************************************************************)
(* A function on 1 .. n with values in S is a sequence over S.             *)
(***************************************************************************)
LEMMA FunctionIsSeq ==
  ASSUME NEW S, NEW n \in Nat, NEW f \in [1 .. n -> S]
  PROVE  f \in Seq(S) /\ Len(f) = n
OBVIOUS

(***************************************************************************)
(* A sequence over S is a function on 1 .. Len(s) with values in S.        *)
(***************************************************************************)
LEMMA SeqLength ==
  ASSUME NEW S, NEW s \in Seq(S)
  PROVE  Len(s) \in Nat /\ DOMAIN s = 1 .. Len(s) /\ s \in [1 .. Len(s) -> S]
OBVIOUS

(***************************************************************************)
(* The elements of a sequence over S are in S.                             *)
(***************************************************************************)
LEMMA SeqElement ==
  ASSUME NEW S, NEW s \in Seq(S), NEW i \in 1 .. Len(s)
  PROVE  s[i] \in S
OBVIOUS

(***************************************************************************)
(* The empty sequence is one over every set.                               *)
(***************************************************************************)
LEMMA SeqEmpty ==
  ASSUME NEW S
  PROVE  << >> \in Seq(S) /\ Len(<< >>) = 0
OBVIOUS

(***************************************************************************)
(* The first n elements of a sequence, as a sequence: the part of a write  *)
(* that reaches the file before it fails.                                  *)
(***************************************************************************)
LEMMA SeqPrefix ==
  ASSUME NEW S, NEW s, NEW n \in Nat, \A i \in 1 .. n : s[i] \in S
  PROVE  /\ SubSeq(s, 1, n) \in Seq(S) /\ Len(SubSeq(s, 1, n)) = n
         /\ \A i \in 1 .. n : SubSeq(s, 1, n)[i] = s[i]
OBVIOUS

(***************************************************************************)
(* CheckedFile::write of items yields a file of items, and the file is as  *)
(* long as it was or reaches the end of the items.                         *)
(***************************************************************************)
LEMMA PutType ==
  ASSUME NEW d \in Seq(ItemType), NEW offset \in Nat, NEW items \in Seq(ItemType)
  PROVE  /\ Put(d, offset, items) \in Seq(ItemType)
         /\ Len(Put(d, offset, items)) =
              IF offset + Len(items) > Len(d) THEN offset + Len(items) ELSE Len(d)
<1> DEFINE end == offset + Len(items)
           n == IF end > Len(d) THEN end ELSE Len(d)
<1>1. n \in Nat /\ end \in Nat
  BY SeqLength
<1>2. ZeroItem \in ItemType
  BY Zenon DEF ItemType
<1>3. ASSUME NEW i \in 1 .. n
      PROVE  (IF i \in offset + 1 .. end THEN items[i - offset]
              ELSE IF i <= Len(d) THEN d[i] ELSE ZeroItem) \in ItemType
  <2>1. CASE i \in offset + 1 .. end
    <3>1. i - offset \in 1 .. Len(items)
      BY <2>1, <1>1, SeqLength
    <3> QED
      BY <2>1, <3>1, SeqElement, Zenon
  <2>2. CASE i \notin offset + 1 .. end /\ i <= Len(d)
    <3>1. i \in 1 .. Len(d)
      BY <2>2, <1>1, SeqLength
    <3> QED
      BY <2>2, <3>1, SeqElement, Zenon
  <2>3. CASE i \notin offset + 1 .. end /\ ~(i <= Len(d))
    BY <2>3, <1>2, Zenon
  <2> QED
    BY <2>1, <2>2, <2>3, Zenon
<1>4. Put(d, offset, items) \in [1 .. n -> ItemType]
  BY <1>3, Zenon DEF Put
<1> HIDE DEF n
<1>5. Put(d, offset, items) \in Seq(ItemType) /\ Len(Put(d, offset, items)) = n
  BY <1>1, <1>4, FunctionIsSeq, Zenon
<1> QED
  BY <1>5, Zenon DEF n

(***************************************************************************)
(* CheckedFile::extend yields a file of items of the length asked for.     *)
(***************************************************************************)
LEMMA ExtendedType ==
  ASSUME NEW d \in Seq(ItemType), NEW length \in Nat, length >= Len(d)
  PROVE  Extended(d, length) \in Seq(ItemType) /\ Len(Extended(d, length)) = length
<1> DEFINE zeros == [i \in 1 .. length - Len(d) |-> ZeroItem]
<1>1. Len(d) \in Nat /\ length - Len(d) \in Nat
  BY SeqLength
<1>2. zeros \in [1 .. length - Len(d) -> ItemType]
  BY Zenon DEF ItemType
<1>3. zeros \in Seq(ItemType) /\ Len(zeros) = length - Len(d)
  BY <1>1, <1>2, FunctionIsSeq, Zenon
<1>4. Extended(d, length) = Put(d, Len(d), zeros)
  BY Zenon DEF Extended
<1> HIDE DEF zeros
<1>5. /\ Put(d, Len(d), zeros) \in Seq(ItemType)
      /\ Len(Put(d, Len(d), zeros)) =
           IF Len(d) + Len(zeros) > Len(d) THEN Len(d) + Len(zeros) ELSE Len(d)
  BY <1>1, <1>3, PutType, Zenon
<1> QED
  BY <1>1, <1>3, <1>4, <1>5

-----------------------------------------------------------------------------
(***************************************************************************)
(* A section header records end - start: it is a length only because the   *)
(* section of an open writer starts in allocated space.  TypeOK is not     *)
(* inductive without this.                                                 *)
(***************************************************************************)
SectionAllocated ==
  \A h \in Handle :
    handle[h].kind = "writer" /\ handle[h].isOpen => handle[h].start <= unused

TypeInv == TypeOK /\ SectionAllocated

(***************************************************************************)
(* The fields of an open writer, from the type of the handles.             *)
(***************************************************************************)
LEMMA WriterFields ==
  ASSUME TypeOK, NEW h \in Handle, handle[h].kind = "writer", handle[h].isOpen
  PROVE  handle[h] \in [kind : {"writer"}, isOpen : {TRUE}, cv : CV, start : Nat,
                         data : Nat, pending : Nat, count : Nat]
<1>1. handle[h] \in HandleType
  BY Zenon DEF TypeOK
<1> QED
  BY <1>1, Zenon DEF HandleType

(***************************************************************************)
(* The tree of a file that is being created refers to no section.          *)
(***************************************************************************)
LEMMA TreeTypeNone == NoTree \in TreeType
BY Zenon DEF NoTree, TreeType

(***************************************************************************)
(* What close leaves of a writer or reader is a handle that is not open.   *)
(***************************************************************************)
LEMMA HandleTypeClosed ==
  ASSUME NEW kind \in {"none", "writer", "reader"}
  PROVE  ClosedHandle(kind) \in HandleType /\ ~ClosedHandle(kind).isOpen
BY Zenon DEF ClosedHandle, HandleType

(***************************************************************************)
(* Constructing or destroying the ImageFile gives every variable its type. *)
(***************************************************************************)
LEMMA ResetType ==
  ASSUME NEW s \in {"none", "open", "closed"}, NEW w \in BOOLEAN, NEW n \in Nat,
         NEW t \in TreeType, Reset(s, w, n, t),
         exists' \in BOOLEAN, bytes' \in Seq(ItemType), damaged' \subseteq CV
  PROVE  TypeInv'
<1>1. NoHandle \in HandleType /\ ~NoHandle.isOpen
  BY HandleTypeClosed, Zenon DEF NoHandle
<1>2. TypeOK'
  BY <1>1 DEF Reset, TypeOK
<1>3. SectionAllocated'
  BY <1>1, Zenon DEF Reset, SectionAllocated
<1> QED
  BY <1>2, <1>3, Zenon DEF TypeInv

(***************************************************************************)
(* What Opens accepts parses to a tree.                                    *)
(***************************************************************************)
LEMMA ParsedTreeType ==
  ASSUME NEW d \in Seq(ItemType), Opens(d)
  PROVE  ParsedTree(d) \in TreeType
<1> DEFINE first == At(d, At(d, 0).xml)
<1>1. Len(d) \in Nat /\ Len(d) >= 1
  BY SeqLength, Zenon DEF Opens, HeaderSize
<1>2. At(d, 0) \in ItemType
  BY <1>1, SeqElement DEF At
<1>3. At(d, 0).xml \in Nat
  BY <1>2 DEF Opens, ItemType, ZeroItem
<1>4. At(d, 0).xml + 1 \in 1 .. Len(d)
  BY <1>1, <1>3, SizeAssumption DEF Opens
<1>5. first \in ItemType
  BY <1>4, SeqElement, Zenon DEF At
<1>6. 0 \in 0 .. XmlSize - 1 /\ At(d, 0).xml + 0 = At(d, 0).xml
  BY <1>3, SizeAssumption
<1>7. first.what = "xml"
  BY <1>6, Zenon DEF Opens
<1> QED
  BY <1>5, <1>7 DEF ParsedTree, ItemType, ZeroItem

-----------------------------------------------------------------------------
(* The actions, one lemma each for those that write to the file. *)

(***************************************************************************)
(* Allocating a blob keeps the types, also when extend or the write of the *)
(* section header throws.                                                  *)
(***************************************************************************)
LEMMA NewBlobType ==
  ASSUME TypeInv, NEW b \in Blob, NewBlob(b)
  PROVE  TypeInv'
<1> USE DEF TypeInv
<1>1. BlobSection \in Nat /\ unused' \in Nat /\ unused <= unused'
  BY SizeAssumption DEF TypeOK, NewBlob, BlobSection, SectionHeaderSize
<1>2. bytes' \in Seq(ItemType)
  <2>1. CASE Extends(BlobSection) /\ unused' = unused + BlobSection
    <3>1. unused' >= Len(bytes)
      BY <2>1, Zenon DEF Extends
    <3>2. Extended(bytes, unused') \in Seq(ItemType)
      BY <1>1, <3>1, ExtendedType, Zenon DEF TypeOK
    <3>3. <<BlobHeaderItem(b)>> \in Seq(ItemType)
      BY DEF BlobHeaderItem, ItemType
    <3>4. Put(Extended(bytes, unused'), unused, <<BlobHeaderItem(b)>>) \in Seq(ItemType)
      BY <3>2, <3>3, PutType, Zenon DEF TypeOK
    <3> QED
      BY <3>2, <3>4, Zenon DEF NewBlob, TypeOK
  <2> QED
    BY <2>1, Zenon DEF NewBlob, TypeOK
<1>3. tree' \in TreeType
  BY DEF NewBlob, TypeOK, TreeType
<1>4. TypeOK'
  BY <1>1, <1>2, <1>3, Zenon DEF NewBlob, TypeOK
<1>5. SectionAllocated'
  <2> SUFFICES ASSUME NEW h \in Handle, handle[h].kind = "writer", handle[h].isOpen
               PROVE  handle[h].start <= unused'
    BY Zenon DEF SectionAllocated, NewBlob
  <2>1. handle[h].start \in Nat /\ handle[h].start <= unused
    BY WriterFields, Zenon DEF SectionAllocated
  <2> QED
    BY <1>1, <2>1 DEF TypeOK
<1> QED
  BY <1>4, <1>5, Zenon

(***************************************************************************)
(* Writing to a blob keeps the types.                                      *)
(***************************************************************************)
LEMMA BlobWriteType ==
  ASSUME TypeInv, NEW b \in Blob, BlobWrite(b)
  PROVE  TypeInv'
<1> USE DEF TypeInv
<1>1. PICK start \in 0 .. BlobSize, n \in 1 .. BlobSize + 1 :
        bytes' = Put(bytes, tree.blob[b] + SectionHeaderSize + start,
                     [i \in 1 .. n |-> BlobItem(b)])
  BY Zenon DEF BlobWrite
<1> DEFINE items == [i \in 1 .. n |-> BlobItem(b)]
<1>2. items \in [1 .. n -> ItemType] /\ n \in Nat
  BY SizeAssumption DEF BlobItem, ItemType
<1>3. items \in Seq(ItemType)
  BY <1>2, FunctionIsSeq, Zenon
<1>4. tree.blob[b] + SectionHeaderSize + start \in Nat
  BY SizeAssumption DEF TypeOK, TreeType, SectionHeaderSize
<1> HIDE DEF items
<1>5. Put(bytes, tree.blob[b] + SectionHeaderSize + start, items) \in Seq(ItemType)
  BY <1>3, <1>4, PutType, Zenon DEF TypeOK
<1>6. bytes' \in Seq(ItemType)
  BY <1>1, <1>5, Zenon DEF items
<1> QED
  BY <1>6, Zenon DEF BlobWrite, memory, TypeOK, SectionAllocated

(***************************************************************************)
(* Constructing a writer keeps the types: its section starts at the offset *)
(* allocateSpace returned.                                                 *)
(***************************************************************************)
LEMMA NewWriterType ==
  ASSUME TypeInv, NEW h \in Handle, NEW cv \in CV, NewWriter(h, cv)
  PROVE  TypeInv'
<1> USE DEF TypeInv
<1>1. unused' \in Nat /\ unused <= unused'
  BY DEF TypeOK, NewWriter, SectionHeaderSize
<1> DEFINE w == [kind |-> "writer", isOpen |-> TRUE, cv |-> cv, start |-> unused,
                 data |-> 0, pending |-> 0, count |-> 0]
<1>2. w \in HandleType /\ w.start <= unused'
  BY <1>1, Zenon DEF TypeOK, HandleType
<1>3. handle' \in {handle, [handle EXCEPT ![h] = w]}
  BY Zenon DEF NewWriter
<1> HIDE DEF w
<1>4. handle' \in [Handle -> HandleType]
  BY <1>2, <1>3, Zenon DEF TypeOK
<1>5. bytes' \in Seq(ItemType)
  <2>1. CASE Extends(SectionHeaderSize)
    <3>1. unused' >= Len(bytes)
      BY <2>1, Zenon DEF Extends, NewWriter
    <3>2. Extended(bytes, unused') \in Seq(ItemType)
      BY <1>1, <3>1, ExtendedType, Zenon DEF TypeOK
    <3> QED
      BY <3>2, Zenon DEF NewWriter, TypeOK
  <2> QED
    BY <2>1, Zenon DEF NewWriter, TypeOK
<1>6. writerCount' \in Int
  BY DEF NewWriter, TypeOK
<1>7. TypeOK'
  BY <1>1, <1>4, <1>5, <1>6, Zenon DEF NewWriter, TypeOK
<1>8. SectionAllocated'
  <2> SUFFICES ASSUME NEW g \in Handle, handle'[g].kind = "writer", handle'[g].isOpen
               PROVE  handle'[g].start <= unused'
    BY Zenon DEF SectionAllocated
  <2>1. handle'[g] \in {handle[g], w}
    BY <1>3, Zenon DEF TypeOK
  <2>2. CASE handle'[g] = handle[g]
    <3>1. handle[g].start \in Nat /\ handle[g].start <= unused
      BY <2>2, WriterFields, Zenon DEF SectionAllocated
    <3> QED
      BY <1>1, <2>2, <3>1 DEF TypeOK
  <2> QED
    BY <1>2, <2>1, <2>2, Zenon
<1> QED
  BY <1>7, <1>8, Zenon

(***************************************************************************)
(* A step that stores at most one packet, keeps the fields of writer h     *)
(* typed and its section where it was, and moves unusedLogicalStart_ up    *)
(* keeps the types.  write( n ) and write( 0 ) are such steps.             *)
(***************************************************************************)
LEMMA WriterStepType ==
  ASSUME TypeInv, NEW h \in Handle, WriterOpen(h),
         NEW d \in Nat, NEW p \in Nat, NEW c \in Nat,
         handle' = [handle EXCEPT ![h].data = d, ![h].pending = p, ![h].count = c],
         unused' \in Nat, unused <= unused', bytes' \in Seq(ItemType), damaged' \subseteq CV,
         UNCHANGED <<state, isWriter, writerCount, readerCount, tree, exists>>
  PROVE  TypeInv'
<1> USE DEF TypeInv
<1> DEFINE W == [kind : {"writer"}, isOpen : {TRUE}, cv : CV, start : Nat,
                 data : Nat, pending : Nat, count : Nat]
<1>1. handle[h] \in W
  BY WriterFields, Zenon DEF WriterOpen
<1>2. handle'[h] \in W /\ handle'[h].start = handle[h].start
  BY <1>1, Zenon DEF TypeOK
<1>3. \A g \in Handle : g # h => handle'[g] = handle[g]
  BY Zenon DEF TypeOK
<1>4. handle' \in [Handle -> HandleType]
  <2>1. W \subseteq HandleType
    BY Zenon DEF HandleType
  <2>2. \A g \in Handle : handle'[g] \in HandleType
    BY <1>2, <1>3, <2>1, Zenon DEF TypeOK
  <2>3. handle' = [g \in Handle |-> handle'[g]]
    BY Zenon DEF TypeOK
  <2> QED
    BY <2>2, <2>3, Zenon
<1>5. TypeOK'
  BY <1>4, Zenon DEF TypeOK
<1>6. SectionAllocated'
  <2> SUFFICES ASSUME NEW g \in Handle, handle'[g].kind = "writer", handle'[g].isOpen
               PROVE  handle'[g].start <= unused'
    BY Zenon DEF SectionAllocated
  <2>1. CASE g = h
    <3>1. handle[h].start \in Nat /\ handle[h].start <= unused
      BY <1>1, Zenon DEF SectionAllocated, WriterOpen
    <3> QED
      BY <1>2, <2>1, <3>1 DEF TypeOK
  <2>2. CASE g # h
    <3>1. handle[g].start \in Nat /\ handle[g].start <= unused
      BY <1>3, <2>2, WriterFields, Zenon DEF SectionAllocated
    <3> QED
      BY <1>3, <2>2, <3>1 DEF TypeOK
  <2> QED
    BY <2>1, <2>2, Zenon
<1> QED
  BY <1>5, <1>6, Zenon

(***************************************************************************)
(* Storing a data packet keeps the type of the file.                       *)
(***************************************************************************)
LEMMA PacketStoredType ==
  ASSUME TypeOK, NEW cv \in CV, NEW n \in Nat
  PROVE  Put(bytes, unused, <<PacketItem(cv, n)>>) \in Seq(ItemType)
<1>1. <<PacketItem(cv, n)>> \in Seq(ItemType)
  BY DEF PacketItem, ItemType
<1> QED
  BY <1>1, PutType, Zenon DEF TypeOK

(***************************************************************************)
(* write( n ) keeps the types: it stores a packet, does not, or throws.    *)
(***************************************************************************)
LEMMA WriteType ==
  ASSUME TypeInv, NEW h \in Handle, Write(h)
  PROVE  TypeInv'
<1> USE DEF TypeInv
<1> DEFINE w == handle[h]
           W == [kind : {"writer"}, isOpen : {TRUE}, cv : CV, start : Nat,
                 data : Nat, pending : Nat, count : Nat]
<1>1. WriterOpen(h)
  BY Zenon DEF Write
<1>2. w \in W
  BY <1>1, WriterFields, Zenon DEF WriterOpen
<1>3. w.pending + 1 \in Nat /\ w.count + 1 \in Nat /\ FirstData(w, unused) \in Nat
  BY <1>2 DEF FirstData, TypeOK
<1>4. unused + 1 \in Nat /\ unused <= unused + 1 /\ unused <= unused
  BY DEF TypeOK
<1>5. Put(bytes, unused, <<PacketItem(w.cv, w.pending + 1)>>) \in Seq(ItemType)
  BY <1>2, <1>3, PacketStoredType, Zenon
<1>6. UNCHANGED <<state, isWriter, writerCount, readerCount, tree, exists>>
  BY Zenon DEF Write
<1>7. \E d \in Nat, p \in Nat, c \in Nat :
        handle' = [handle EXCEPT ![h].data = d, ![h].pending = p, ![h].count = c]
  <2>1. CASE handle' = [handle EXCEPT ![h].pending = @ + 1, ![h].count = @ + 1]
    <3>1. handle' = [handle EXCEPT ![h].data = w.data, ![h].pending = w.pending + 1,
                                   ![h].count = w.count + 1]
      BY <1>2, <2>1, Zenon DEF TypeOK
    <3> QED
      BY <1>2, <1>3, <3>1, Zenon
  <2>2. CASE handle' = [handle EXCEPT ![h].pending = 0, ![h].count = @ + 1,
                                      ![h].data = FirstData(w, unused)]
    <3>1. handle' = [handle EXCEPT ![h].data = FirstData(w, unused), ![h].pending = 0,
                                   ![h].count = w.count + 1]
      BY <1>2, <2>2 DEF TypeOK
    <3> QED
      BY <1>3, <3>1, Zenon
  <2>3. CASE handle' = [handle EXCEPT ![h].pending = 0]
    <3>1. handle' = [handle EXCEPT ![h].data = w.data, ![h].pending = 0,
                                   ![h].count = w.count]
      BY <1>2, <2>3, Zenon DEF TypeOK
    <3> QED
      BY <1>2, <3>1, Zenon
  <2> QED
    BY <2>1, <2>2, <2>3, Zenon DEF Write
<1>8. /\ unused' \in {unused, unused + 1}
      /\ bytes' \in {bytes, Put(bytes, unused, <<PacketItem(w.cv, w.pending + 1)>>)}
      /\ damaged' \in {damaged, damaged \cup {w.cv}}
  BY Zenon DEF Write
<1>9. unused' \in Nat /\ unused <= unused' /\ bytes' \in Seq(ItemType) /\ damaged' \subseteq CV
  BY <1>2, <1>4, <1>5, <1>8, Zenon DEF TypeOK
<1> QED
  BY <1>1, <1>6, <1>7, <1>9, WriterStepType, Zenon

(***************************************************************************)
(* write( 0 ) keeps the types.                                             *)
(***************************************************************************)
LEMMA WriteZeroRecordsType ==
  ASSUME TypeInv, NEW h \in Handle, WriteZeroRecords(h)
  PROVE  TypeInv'
<1> USE DEF TypeInv
<1> DEFINE w == handle[h]
           W == [kind : {"writer"}, isOpen : {TRUE}, cv : CV, start : Nat,
                 data : Nat, pending : Nat, count : Nat]
<1>1. WriterOpen(h)
  BY Zenon DEF WriteZeroRecords
<1>2. w \in W
  BY <1>1, WriterFields, Zenon DEF WriterOpen
<1>3. unused' \in Nat /\ unused <= unused'
  BY DEF WriteZeroRecords, TypeOK
<1>4. \E d \in Nat, p \in Nat, c \in Nat :
        handle' = [handle EXCEPT ![h].data = d, ![h].pending = p, ![h].count = c]
  <2>1. CASE handle' = [handle EXCEPT ![h].data = unused]
    <3>1. handle' = [handle EXCEPT ![h].data = unused, ![h].pending = w.pending,
                                   ![h].count = w.count]
      BY <1>2, <2>1, Zenon DEF TypeOK
    <3> QED
      BY <1>2, <3>1, Zenon DEF TypeOK
  <2>2. CASE handle' = handle
    <3>1. handle' = [handle EXCEPT ![h].data = w.data, ![h].pending = w.pending,
                                   ![h].count = w.count]
      BY <1>2, <2>2, Zenon DEF TypeOK
    <3> QED
      BY <1>2, <3>1, Zenon
  <2> QED
    BY <2>1, <2>2, Zenon DEF WriteZeroRecords
<1>5. Put(bytes, unused, <<PacketItem(w.cv, 0)>>) \in Seq(ItemType)
  BY <1>2, PacketStoredType, Zenon
<1>6. bytes' \in Seq(ItemType) /\ damaged' \subseteq CV
  BY <1>2, <1>5, Zenon DEF WriteZeroRecords, TypeOK
<1>7. UNCHANGED <<state, isWriter, writerCount, readerCount, tree, exists>>
  BY Zenon DEF WriteZeroRecords
<1> QED
  BY <1>1, <1>3, <1>4, <1>6, <1>7, WriterStepType, Zenon

(***************************************************************************)
(* Closing or destroying a writer or reader leaves handles of their type,  *)
(* and no new open one.                                                    *)
(***************************************************************************)
LEMMA LeaveType ==
  ASSUME TypeOK, NEW h \in Handle, NEW gone \in BOOLEAN, Leave(h, gone)
  PROVE  /\ handle' \in [Handle -> HandleType]
         /\ ~handle'[h].isOpen
         /\ \A g \in Handle : g # h => handle'[g] = handle[g]
<1>1. handle[h] \in HandleType
  BY Zenon DEF TypeOK
<1>2. handle[h].kind \in {"none", "writer", "reader"}
  BY <1>1, Zenon DEF HandleType
<1> DEFINE left == IF gone THEN NoHandle ELSE ClosedHandle(handle[h].kind)
<1>3. left \in HandleType /\ ~left.isOpen
  BY <1>2, HandleTypeClosed, Zenon DEF NoHandle
<1>4. handle' = [handle EXCEPT ![h] = left]
  BY Zenon DEF Leave
<1> HIDE DEF left
<1> QED
  BY <1>3, <1>4, Zenon DEF TypeOK

(***************************************************************************)
(* The sections stay in allocated space when unusedLogicalStart_ does not  *)
(* move down and no handle is opened.                                      *)
(***************************************************************************)
LEMMA SectionsStayAllocated ==
  ASSUME TypeInv, unused' \in Nat, unused <= unused',
         \A g \in Handle : handle'[g] = handle[g] \/ ~handle'[g].isOpen
  PROVE  SectionAllocated'
<1> SUFFICES ASSUME NEW g \in Handle, handle'[g].kind = "writer", handle'[g].isOpen
             PROVE  handle'[g].start <= unused'
  BY Zenon DEF SectionAllocated
<1>1. handle'[g] = handle[g]
  BY Zenon
<1>2. handle[g].start \in Nat /\ handle[g].start <= unused
  BY <1>1, WriterFields, Zenon DEF TypeInv, SectionAllocated
<1> QED
  BY <1>1, <1>2 DEF TypeInv, TypeOK

(***************************************************************************)
(* The packets close stores: what was pending, and the index packet.       *)
(***************************************************************************)
LEMMA CloseItems ==
  ASSUME NEW cv \in CV, NEW n \in Nat, NEW items,
         items = Append(IF n > 0 THEN <<PacketItem(cv, n)>> ELSE <<>>, IndexItem(cv))
  PROVE  items \in Seq(ItemType) /\ Len(items) \in Nat
<1>1. PacketItem(cv, n) \in ItemType /\ IndexItem(cv) \in ItemType
  BY Zenon DEF PacketItem, IndexItem, ItemType
<1> DEFINE flushed == IF n > 0 THEN <<PacketItem(cv, n)>> ELSE <<>>
<1>2. flushed \in Seq(ItemType)
  <2>1. <<PacketItem(cv, n)>> \in Seq(ItemType) /\ <<>> \in Seq(ItemType)
    BY <1>1
  <2> QED
    BY <2>1, Zenon
<1> HIDE DEF flushed
<1>3. Append(flushed, IndexItem(cv)) \in Seq(ItemType)
  BY <1>1, <1>2
<1>4. items \in Seq(ItemType)
  BY <1>3, Zenon DEF flushed
<1> QED
  BY <1>4, SeqLength, Zenon

(***************************************************************************)
(* A section header with a length and an offset is an item.                *)
(***************************************************************************)
LEMMA SectionItemType ==
  ASSUME NEW cv \in CV, NEW length \in Nat, NEW data \in Nat
  PROVE  <<SectionItem(cv, length, data)>> \in Seq(ItemType)
<1>1. SectionItem(cv, length, data) \in ItemType
  BY Zenon DEF SectionItem, ItemType
<1> QED
  BY <1>1

(***************************************************************************)
(* Closing a writer keeps the types, whichever of its stores throws.       *)
(***************************************************************************)
LEMMA CloseWriterType ==
  ASSUME TypeInv, NEW h \in Handle, NEW gone \in BOOLEAN, CloseWriter(h, gone)
  PROVE  TypeInv'
<1> USE DEF TypeInv
<1> DEFINE w == handle[h]
           W == [kind : {"writer"}, isOpen : {TRUE}, cv : CV, start : Nat,
                 data : Nat, pending : Nat, count : Nat]
           items == Append(IF w.pending > 0 THEN <<PacketItem(w.cv, w.pending)>>
                           ELSE <<>>, IndexItem(w.cv))
           end == unused + Len(items)
           data == IF w.pending > 0 THEN FirstData(w, unused) ELSE w.data
           header == SectionItem(w.cv, end - w.start, data)
<1>1. WriterOpen(h) /\ Leave(h, gone) /\ writerCount' = writerCount - 1
  BY Zenon DEF CloseWriter
<1>2. w \in W /\ w.start <= unused
  BY <1>1, WriterFields, Zenon DEF WriterOpen, SectionAllocated
<1>3. \/ /\ unused' = end
         /\ bytes' = Put(Put(bytes, unused, items), w.start, <<header>>)
         /\ tree' = [tree EXCEPT !.cv[w.cv] = [start |-> w.start, count |-> w.count]]
      \/ \E k \in 0 .. Len(items) :
           /\ unused' = IF k = Len(items) THEN end ELSE unused + k + 1
           /\ bytes' = Put(bytes, unused, SubSeq(items, 1, k))
           /\ UNCHANGED tree
  BY Zenon DEF CloseWriter
<1>4. items \in Seq(ItemType) /\ Len(items) \in Nat
  <2>1. w.cv \in CV /\ w.pending \in Nat
    BY <1>2, Zenon
  <2> HIDE DEF w
  <2> QED
    BY <2>1, CloseItems, Zenon
<1> HIDE DEF items
<1>5. end \in Nat /\ unused <= end /\ end - w.start \in Nat /\ data \in Nat
  BY <1>2, <1>4 DEF TypeOK, FirstData
<1> HIDE DEF data
<1>6. <<header>> \in Seq(ItemType)
  BY <1>2, <1>5, SectionItemType, Zenon
<1> HIDE DEF header
<1>7. unused' \in Nat /\ unused <= unused' /\ bytes' \in Seq(ItemType) /\ tree' \in TreeType
  <2>1. CASE /\ unused' = end
             /\ bytes' = Put(Put(bytes, unused, items), w.start, <<header>>)
             /\ tree' = [tree EXCEPT !.cv[w.cv] = [start |-> w.start, count |-> w.count]]
    <3>1. Put(bytes, unused, items) \in Seq(ItemType)
      BY <1>4, PutType, Zenon DEF TypeOK
    <3>2. bytes' \in Seq(ItemType)
      BY <1>2, <1>6, <2>1, <3>1, PutType, Zenon
    <3>3. tree' \in TreeType
      BY <1>2, <2>1, Zenon DEF TypeOK, TreeType
    <3> QED
      BY <1>5, <2>1, <3>2, <3>3, Zenon
  <2>2. ASSUME NEW k \in 0 .. Len(items),
               unused' = IF k = Len(items) THEN end ELSE unused + k + 1,
               bytes' = Put(bytes, unused, SubSeq(items, 1, k)),
               UNCHANGED tree
        PROVE  unused' \in Nat /\ unused <= unused' /\ bytes' \in Seq(ItemType)
                 /\ tree' \in TreeType
    <3>1. k \in Nat /\ k <= Len(items) /\ Len(items) \in Nat
      BY <1>4
    <3>2. \A i \in 1 .. k : items[i] \in ItemType
      BY <1>4, <3>1, SeqElement
    <3>3. SubSeq(items, 1, k) \in Seq(ItemType)
      BY <3>1, <3>2, SeqPrefix, Zenon
    <3>4. bytes' \in Seq(ItemType)
      BY <2>2, <3>3, PutType, Zenon DEF TypeOK
    <3>5. unused' \in Nat /\ unused <= unused'
      BY <1>5, <2>2, <3>1 DEF TypeOK
    <3> QED
      BY <2>2, <3>4, <3>5, Zenon DEF TypeOK
  <2> QED
    BY <1>3, <2>1, <2>2, Zenon
<1>8. /\ handle' \in [Handle -> HandleType]
      /\ \A g \in Handle : handle'[g] = handle[g] \/ ~handle'[g].isOpen
  BY <1>1, LeaveType, Zenon
<1>9. UNCHANGED <<state, isWriter, readerCount, exists, damaged>>
  BY Zenon DEF CloseWriter
<1>10. TypeOK'
  BY <1>1, <1>7, <1>8, <1>9 DEF TypeOK
<1> QED
  BY <1>7, <1>8, <1>10, SectionsStayAllocated, Zenon

(***************************************************************************)
(* Constructing, closing and destroying readers keeps the types.           *)
(***************************************************************************)
LEMMA ReaderType ==
  ASSUME TypeInv, NEW h \in Handle,
         \/ \E cv \in CV : NewReader(h, cv)
         \/ \E gone \in BOOLEAN : CloseReader(h, gone)
         \/ Destroy(h)
  PROVE  TypeInv'
<1> USE DEF TypeInv
<1>1. unused' = unused
  BY Zenon DEF NewReader, CloseReader, Destroy
<1>a. unused' \in Nat /\ unused <= unused'
  BY <1>1 DEF TypeOK
<1>2. CASE \E cv \in CV : NewReader(h, cv)
  <2>1. PICK cv \in CV : NewReader(h, cv)
    BY <1>2, Zenon
  <2> DEFINE r == [kind |-> "reader", isOpen |-> TRUE, cv |-> cv]
  <2>2. r \in HandleType /\ r.kind # "writer"
    BY Zenon DEF HandleType
  <2>3. handle' = [handle EXCEPT ![h] = r] /\ readerCount' = readerCount + 1
    BY <2>1, Zenon DEF NewReader
  <2>4. UNCHANGED <<state, isWriter, unused, writerCount, tree, exists, bytes, damaged>>
    BY <2>1, Zenon DEF NewReader
  <2> HIDE DEF r
  <2>5. handle' \in [Handle -> HandleType] /\ readerCount' \in Int
    BY <2>2, <2>3 DEF TypeOK
  <2>6. TypeOK'
    BY <2>4, <2>5, Zenon DEF TypeOK
  <2>7. SectionAllocated'
    BY <1>1, <2>2, <2>3, Zenon DEF SectionAllocated, TypeOK
  <2> QED
    BY <2>6, <2>7, Zenon
<1>3. CASE \E gone \in BOOLEAN : CloseReader(h, gone)
  <2>1. PICK gone \in BOOLEAN : CloseReader(h, gone)
    BY <1>3, Zenon
  <2>2. Leave(h, gone)
    BY <2>1, Zenon DEF CloseReader
  <2>3. TypeOK'
    BY <2>1, <2>2, LeaveType DEF CloseReader, TypeOK
  <2> QED
    BY <1>a, <2>2, <2>3, LeaveType, SectionsStayAllocated, Zenon
<1>4. CASE Destroy(h)
  <2>1. Leave(h, TRUE)
    BY <1>4, Zenon DEF Destroy
  <2>2. TypeOK'
    BY <1>4, <2>1, LeaveType, Zenon DEF Destroy, TypeOK
  <2> QED
    BY <1>a, <2>1, <2>2, LeaveType, SectionsStayAllocated, Zenon
<1> QED
  BY <1>2, <1>3, <1>4, Zenon

(***************************************************************************)
(* The length of a file, in pages, is a natural number.                    *)
(***************************************************************************)
LEMMA PagesType ==
  ASSUME NEW d \in Seq(ItemType)
  PROVE  Pages(d) \in Nat
<1>1. Len(d) + PageSize - 1 \in Nat /\ PageSize \in Nat \ {0}
  BY SeqLength, SizeAssumption
<1>2. \A n \in Nat, m \in Nat \ {0} : n \div m \in Nat
  OBVIOUS
<1> QED
  BY <1>1, <1>2, Zenon DEF Pages

(***************************************************************************)
(* Closing the ImageFile keeps the types, wherever it stops.               *)
(***************************************************************************)
LEMMA CloseType ==
  ASSUME TypeInv, close
  PROVE  TypeInv'
<1> USE DEF TypeInv
<1>1. ASSUME NEW k \in 0 .. XmlSize
      PROVE  XmlStored(k) \in Seq(ItemType)
  <2> DEFINE items == [i \in 1 .. k |-> XmlItem(tree, i - 1)]
  <2>1. k \in Nat
    BY SizeAssumption
  <2>2. \A i \in 1 .. k : XmlItem(tree, i - 1) \in ItemType
    BY <2>1 DEF XmlItem, ItemType, TypeOK
  <2>3. items \in [1 .. k -> ItemType]
    BY <2>2, Zenon
  <2>4. XmlStored(k) = Put(bytes, unused, items)
    BY Zenon DEF XmlStored
  <2> HIDE DEF items
  <2>5. items \in Seq(ItemType)
    BY <2>1, <2>3, FunctionIsSeq, Zenon
  <2> QED
    BY <2>4, <2>5, PutType, Zenon DEF TypeOK
<1>2. HeaderStored \in Seq(ItemType)
  <2> DEFINE d == XmlStored(XmlSize)
             header == HeaderItem(unused, Pages(d))
  <2>1. d \in Seq(ItemType)
    BY <1>1, SizeAssumption
  <2>2. HeaderStored = Put(d, 0, <<header>>)
    BY Zenon DEF HeaderStored
  <2> HIDE DEF d
  <2>3. Pages(d) \in Nat
    BY <2>1, PagesType, Zenon
  <2>4. header \in ItemType
    BY <2>3, Zenon DEF HeaderItem, ItemType, TypeOK
  <2> HIDE DEF header
  <2>5. <<header>> \in Seq(ItemType)
    BY <2>4
  <2> QED
    BY <2>1, <2>2, <2>5, PutType, Zenon
<1>3. bytes' \in Seq(ItemType) /\ state' \in {"none", "open", "closed"}
  BY <1>1, <1>2, Zenon DEF close, TypeOK
<1>4. TypeOK'
  BY <1>3, Zenon DEF close, TypeOK
<1>5. SectionAllocated'
  BY Zenon DEF close, SectionAllocated
<1> QED
  BY <1>4, <1>5, Zenon

(***************************************************************************)
(* Cancelling, destroying and losing the ImageFile keeps the types.        *)
(***************************************************************************)
LEMMA EndType ==
  ASSUME TypeInv, cancel \/ DestroyImageFile \/ Crash
  PROVE  TypeInv'
<1> USE DEF TypeInv
<1>1. exists' \in BOOLEAN /\ bytes' \in Seq(ItemType) /\ damaged' \subseteq CV
  BY SeqEmpty, Zenon DEF cancel, DestroyImageFile, Crash, Unlinked, TypeOK
<1>2. CASE cancel
  <2>1. TypeOK'
    BY <1>1, <1>2, Zenon DEF cancel, TypeOK
  <2>2. SectionAllocated'
    BY <1>2, Zenon DEF cancel, SectionAllocated
  <2> QED
    BY <2>1, <2>2, Zenon
<1>3. CASE DestroyImageFile \/ Crash
  <2>1. Reset("none", FALSE, 0, NoTree)
    BY <1>3, Zenon DEF DestroyImageFile, Crash
  <2> QED
    BY <1>1, <2>1, ResetType, TreeTypeNone, Zenon
<1> QED
  BY <1>2, <1>3, Zenon

(***************************************************************************)
(* Opening the ImageFile keeps the types: what a reader parses is a tree.  *)
(***************************************************************************)
LEMMA OpenType ==
  ASSUME TypeInv, OpenWrite \/ OpenRead
  PROVE  TypeInv'
<1> USE DEF TypeInv
<1>1. CASE OpenWrite
  <2>1. exists' \in BOOLEAN /\ bytes' \in Seq(ItemType) /\ damaged' \subseteq CV
    BY <1>1, SeqEmpty, Zenon DEF OpenWrite
  <2>2. Reset("open", TRUE, 1, NoTree)
    BY <1>1, Zenon DEF OpenWrite, HeaderSize
  <2> QED
    BY <2>1, <2>2, ResetType, TreeTypeNone, Zenon
<1>2. CASE OpenRead
  <2>1. exists' \in BOOLEAN /\ bytes' \in Seq(ItemType) /\ damaged' \subseteq CV
    BY <1>2, Zenon DEF OpenRead, TypeOK
  <2>2. Reset("open", FALSE, 1, ParsedTree(bytes)) /\ Opens(bytes)
    BY <1>2, Zenon DEF OpenRead, HeaderSize
  <2>3. ParsedTree(bytes) \in TreeType
    BY <2>2, ParsedTreeType, Zenon DEF TypeOK
  <2> QED
    BY <2>1, <2>2, <2>3, ResetType, Zenon
<1> QED
  BY <1>1, <1>2, Zenon

-----------------------------------------------------------------------------
(***************************************************************************)
(* TypeInv holds initially and every step of the ImageFile, its blobs,     *)
(* writers and readers preserves it.                                       *)
(***************************************************************************)
LEMMA TypeInvInductive ==
  /\ Init => TypeInv
  /\ TypeInv /\ [Next]_vars => TypeInv'
<1>1. Init => TypeInv
  <2> SUFFICES ASSUME Init PROVE TypeInv
    BY Zenon
  <2>1. NoHandle \in HandleType /\ ~NoHandle.isOpen
    BY HandleTypeClosed, Zenon DEF NoHandle
  <2>2. TypeOK
    <3>1. <<>> \in Seq(ItemType)
      BY SeqEmpty, Zenon
    <3>2. [h \in Handle |-> NoHandle] \in [Handle -> HandleType]
      BY <2>1, Zenon
    <3>3. bytes \in Seq(ItemType) /\ handle \in [Handle -> HandleType] /\ tree \in TreeType
      BY <3>1, <3>2, TreeTypeNone, Zenon DEF Init
    <3>4. /\ state \in {"none", "open", "closed"}
          /\ isWriter \in BOOLEAN /\ exists \in BOOLEAN /\ damaged \subseteq CV
      BY Zenon DEF Init
    <3>5. unused \in Nat /\ writerCount \in Int /\ readerCount \in Int
      BY DEF Init
    <3> QED
      BY <3>3, <3>4, <3>5, Zenon DEF TypeOK
  <2>3. SectionAllocated
    BY <2>1, Zenon DEF Init, SectionAllocated
  <2> QED
    BY <2>2, <2>3, Zenon DEF TypeInv
<1>2. ASSUME TypeInv, [Next]_vars
      PROVE  TypeInv'
  <2>1. CASE OpenWrite \/ OpenRead
    BY <1>2, <2>1, OpenType, Zenon
  <2>2. ASSUME NEW b \in Blob, NewBlob(b) \/ BlobWrite(b)
        PROVE  TypeInv'
    BY <1>2, <2>2, NewBlobType, BlobWriteType, Zenon
  <2>3. ASSUME NEW h \in Handle, NEW cv \in CV, NewWriter(h, cv) \/ NewReader(h, cv)
        PROVE  TypeInv'
    BY <1>2, <2>3, NewWriterType, ReaderType, Zenon
  <2>4. ASSUME NEW h \in Handle, Write(h) \/ WriteZeroRecords(h)
        PROVE  TypeInv'
    BY <1>2, <2>4, WriteType, WriteZeroRecordsType, Zenon
  <2>5. ASSUME NEW h \in Handle, NEW gone \in BOOLEAN,
               CloseWriter(h, gone) \/ CloseReader(h, gone)
        PROVE  TypeInv'
    BY <1>2, <2>5, CloseWriterType, ReaderType, Zenon
  <2>6. ASSUME NEW h \in Handle, Destroy(h)
        PROVE  TypeInv'
    BY <1>2, <2>6, ReaderType, Zenon
  <2>7. CASE close
    BY <1>2, <2>7, CloseType, Zenon
  <2>8. CASE cancel \/ DestroyImageFile \/ Crash
    BY <1>2, <2>8, EndType, Zenon
  <2>9. CASE UNCHANGED vars
    BY <1>2, <2>9, Zenon DEF vars, memory, TypeInv, TypeOK, SectionAllocated
  <2> QED
    BY <1>2, <2>1, <2>2, <2>3, <2>4, <2>5, <2>6, <2>7, <2>8, <2>9 DEF Next
<1> QED
  BY <1>1, <1>2, Zenon

(***************************************************************************)
(* Every variable keeps its type, through every error and crash: the       *)
(* length in a section header is a natural number, whatever the parser     *)
(* returns is a tree, and an open writer or reader has all its fields.     *)
(***************************************************************************)
THEOREM TypeCorrect == Spec => []TypeOK
<1>1. TypeInv => TypeOK
  BY Zenon DEF TypeInv
<1> QED
  BY <1>1, TypeInvInductive, PTL DEF Spec

-----------------------------------------------------------------------------
(***************************************************************************)
(* The counts.  CountsMatch and OneAtATime are inductive only together:    *)
(* the constructors look at the counts to keep the objects apart, and      *)
(* close, which takes one off a count, is right because the object it      *)
(* closes is the only open one.                                            *)
(***************************************************************************)
CountInv == CountsMatch /\ OneAtATime

\* CountInv of the handles hd and the counts w and r, in any state.
OpenIn(hd, kind) == {h \in Handle : hd[h].kind = kind /\ hd[h].isOpen}

Counted(hd, w, r) ==
  /\ w = Cardinality(OpenIn(hd, "writer"))
  /\ r = Cardinality(OpenIn(hd, "reader"))
  /\ \A g, h \in Handle : hd[g].isOpen /\ hd[h].isOpen => g = h

(***************************************************************************)
(* CountInv, before and after a step, is about the handles and the counts. *)
(***************************************************************************)
LEMMA CountInvCounted ==
  /\ CountInv <=> Counted(handle, writerCount, readerCount)
  /\ CountInv' <=> Counted(handle', writerCount', readerCount')
BY Zenon DEF CountInv, CountsMatch, OneAtATime, OpenHandles, Counted, OpenIn

(***************************************************************************)
(* No object open: both counts must be zero.                               *)
(***************************************************************************)
LEMMA NoneOpen ==
  ASSUME NEW hd, NEW w, NEW r, \A g \in Handle : ~hd[g].isOpen
  PROVE  Counted(hd, w, r) <=> w = 0 /\ r = 0
<1>1. OpenIn(hd, "writer") = {} /\ OpenIn(hd, "reader") = {}
  BY Zenon DEF OpenIn
<1>2. Cardinality(OpenIn(hd, "writer")) = 0 /\ Cardinality(OpenIn(hd, "reader")) = 0
  BY <1>1, FS_EmptySet, Zenon
<1> QED
  BY <1>2, Zenon DEF Counted

(***************************************************************************)
(* One object open: the count of its kind must be one, the other zero.     *)
(***************************************************************************)
LEMMA OneOpen ==
  ASSUME NEW hd, NEW w, NEW r, NEW h \in Handle, hd[h].isOpen,
         \A g \in Handle : g # h => ~hd[g].isOpen
  PROVE  /\ hd[h].kind = "writer" => (Counted(hd, w, r) <=> w = 1 /\ r = 0)
         /\ hd[h].kind = "reader" => (Counted(hd, w, r) <=> w = 0 /\ r = 1)
<1>1. CASE hd[h].kind = "writer"
  <2>1. OpenIn(hd, "writer") = {h} /\ OpenIn(hd, "reader") = {}
    BY <1>1, Zenon DEF OpenIn
  <2>2. Cardinality(OpenIn(hd, "writer")) = 1 /\ Cardinality(OpenIn(hd, "reader")) = 0
    BY <2>1, FS_EmptySet, FS_Singleton, Zenon
  <2> QED
    BY <1>1, <2>2, Zenon DEF Counted
<1>2. CASE hd[h].kind = "reader"
  <2>1. OpenIn(hd, "reader") = {h} /\ OpenIn(hd, "writer") = {}
    BY <1>2, Zenon DEF OpenIn
  <2>2. Cardinality(OpenIn(hd, "reader")) = 1 /\ Cardinality(OpenIn(hd, "writer")) = 0
    BY <2>1, FS_EmptySet, FS_Singleton, Zenon
  <2> QED
    BY <1>2, <2>2, Zenon DEF Counted
<1> QED
  BY <1>1, <1>2, Zenon

(***************************************************************************)
(* The guard of writer and reader, that neither count is positive, says    *)
(* that no object is open.                                                 *)
(***************************************************************************)
LEMMA GuardExcludes ==
  ASSUME TypeOK, CountInv, NoOtherOpen
  PROVE  /\ \A g \in Handle : ~handle[g].isOpen
         /\ writerCount = 0 /\ readerCount = 0
<1>1. ASSUME NEW h \in Handle, handle[h].isOpen
      PROVE  FALSE
  <2>1. \A g \in Handle : g # h => ~handle[g].isOpen
    BY <1>1, Zenon DEF CountInv, OneAtATime
  <2>2. handle[h] \in HandleType
    BY Zenon DEF TypeOK
  <2>3. handle[h].kind = "writer" \/ handle[h].kind = "reader"
    BY <1>1, <2>2, Zenon DEF HandleType
  <2>4. writerCount = 1 \/ readerCount = 1
    BY <1>1, <2>1, <2>3, OneOpen, CountInvCounted, Zenon
  <2> QED
    BY <2>4 DEF NoOtherOpen, TypeOK
<1>2. \A g \in Handle : ~handle[g].isOpen
  BY <1>1, Zenon
<1> QED
  BY <1>2, NoneOpen, CountInvCounted

(***************************************************************************)
(* A step that opens and closes nothing and leaves the counts alone keeps  *)
(* CountInv.                                                               *)
(***************************************************************************)
LEMMA SameOpen ==
  ASSUME CountInv, UNCHANGED <<writerCount, readerCount>>,
         \A g \in Handle : /\ handle'[g].isOpen <=> handle[g].isOpen
                           /\ handle[g].isOpen => handle'[g].kind = handle[g].kind
  PROVE  CountInv'
<1>1. OpenHandles("writer")' = OpenHandles("writer")
  BY Zenon DEF OpenHandles
<1>2. OpenHandles("reader")' = OpenHandles("reader")
  BY Zenon DEF OpenHandles
<1>3. CountsMatch'
  BY <1>1, <1>2, Zenon DEF CountInv, CountsMatch
<1>4. OneAtATime'
  BY Zenon DEF CountInv, OneAtATime
<1> QED
  BY <1>3, <1>4, Zenon DEF CountInv

(***************************************************************************)
(* Constructing and destroying the ImageFile leaves no object open.        *)
(***************************************************************************)
LEMMA ResetCounts ==
  ASSUME NEW s, NEW w, NEW n, NEW t, Reset(s, w, n, t)
  PROVE  CountInv'
<1>1. ~NoHandle.isOpen
  BY HandleTypeClosed, Zenon DEF NoHandle
<1>2. \A g \in Handle : ~handle'[g].isOpen
  BY <1>1, Zenon DEF Reset
<1>3. writerCount' = 0 /\ readerCount' = 0
  BY Zenon DEF Reset
<1> QED
  BY <1>2, <1>3, NoneOpen, CountInvCounted, Zenon

(***************************************************************************)
(* A constructor that passed the guard makes its object the only open one. *)
(***************************************************************************)
LEMMA NewCounts ==
  ASSUME TypeOK, CountInv, NEW h \in Handle, NEW cv \in CV,
         NewWriter(h, cv) \/ NewReader(h, cv)
  PROVE  CountInv'
<1>1. NoOtherOpen
  BY Zenon DEF NewWriter, NewReader
<1>2. (\A g \in Handle : ~handle[g].isOpen) /\ writerCount = 0 /\ readerCount = 0
  BY <1>1, GuardExcludes, Zenon
<1>3. CASE UNCHANGED <<writerCount, readerCount, handle>>
  BY <1>3, SameOpen, Zenon
<1>4. CASE /\ writerCount' = writerCount + 1 /\ readerCount' = readerCount
           /\ handle' = [handle EXCEPT ![h] =
                [kind |-> "writer", isOpen |-> TRUE, cv |-> cv, start |-> unused,
                 data |-> 0, pending |-> 0, count |-> 0]]
  <2>1. handle'[h].isOpen /\ handle'[h].kind = "writer"
    BY <1>4, Zenon DEF TypeOK
  <2>2. \A g \in Handle : g # h => ~handle'[g].isOpen
    BY <1>2, <1>4, Zenon DEF TypeOK
  <2>3. writerCount' = 1 /\ readerCount' = 0
    BY <1>2, <1>4
  <2> QED
    BY <2>1, <2>2, <2>3, OneOpen, CountInvCounted, Zenon
<1>5. CASE /\ readerCount' = readerCount + 1 /\ writerCount' = writerCount
           /\ handle' = [handle EXCEPT ![h] =
                           [kind |-> "reader", isOpen |-> TRUE, cv |-> cv]]
  <2>1. handle'[h].isOpen /\ handle'[h].kind = "reader"
    BY <1>5, Zenon DEF TypeOK
  <2>2. \A g \in Handle : g # h => ~handle'[g].isOpen
    BY <1>2, <1>5, Zenon DEF TypeOK
  <2>3. writerCount' = 0 /\ readerCount' = 1
    BY <1>2, <1>5
  <2> QED
    BY <2>1, <2>2, <2>3, OneOpen, CountInvCounted, Zenon
<1> QED
  BY <1>3, <1>4, <1>5, Zenon DEF NewWriter, NewReader

(***************************************************************************)
(* close takes one off the count of the only open object.                  *)
(***************************************************************************)
LEMMA CloseCounts ==
  ASSUME TypeOK, CountInv, NEW h \in Handle, NEW gone \in BOOLEAN,
         CloseWriter(h, gone) \/ CloseReader(h, gone)
  PROVE  CountInv'
<1>1. Leave(h, gone) /\ handle[h].isOpen
  BY Zenon DEF CloseWriter, CloseReader, WriterOpen
<1>2. \A g \in Handle : g # h => ~handle[g].isOpen
  BY <1>1, Zenon DEF CountInv, OneAtATime
<1>3. \A g \in Handle : ~handle'[g].isOpen
  BY <1>1, <1>2, LeaveType, Zenon
<1>4. writerCount' = 0 /\ readerCount' = 0
  <2>1. CASE CloseWriter(h, gone)
    <3>1. handle[h].kind = "writer" /\ writerCount' = writerCount - 1
            /\ readerCount' = readerCount
      BY <2>1, Zenon DEF CloseWriter, WriterOpen
    <3>2. writerCount = 1 /\ readerCount = 0
      BY <1>1, <1>2, <3>1, OneOpen, CountInvCounted, Zenon
    <3> QED
      BY <3>1, <3>2
  <2>2. CASE CloseReader(h, gone)
    <3>1. handle[h].kind = "reader" /\ readerCount' = readerCount - 1
            /\ writerCount' = writerCount
      BY <2>2, Zenon DEF CloseReader
    <3>2. readerCount = 1 /\ writerCount = 0
      BY <1>1, <1>2, <3>1, OneOpen, CountInvCounted, Zenon
    <3> QED
      BY <3>1, <3>2
  <2> QED
    BY <2>1, <2>2, Zenon
<1> QED
  BY <1>3, <1>4, NoneOpen, CountInvCounted, Zenon

(***************************************************************************)
(* A write changes neither the kind of its handle nor whether it is open.  *)
(***************************************************************************)
LEMMA WriteCounts ==
  ASSUME TypeOK, CountInv, NEW h \in Handle, Write(h) \/ WriteZeroRecords(h)
  PROVE  CountInv'
<1> DEFINE W == [kind : {"writer"}, isOpen : {TRUE}, cv : CV, start : Nat,
                 data : Nat, pending : Nat, count : Nat]
<1>1. UNCHANGED <<writerCount, readerCount>>
  BY Zenon DEF Write, WriteZeroRecords
<1>2. handle[h] \in W
  BY WriterFields, Zenon DEF Write, WriteZeroRecords, WriterOpen
<1>3. \/ handle' = [handle EXCEPT ![h].pending = @ + 1, ![h].count = @ + 1]
      \/ handle' = [handle EXCEPT ![h].pending = 0, ![h].count = @ + 1,
                                  ![h].data = FirstData(handle[h], unused)]
      \/ handle' = [handle EXCEPT ![h].pending = 0]
      \/ handle' = [handle EXCEPT ![h].data = unused]
      \/ handle' = handle
  BY Zenon DEF Write, WriteZeroRecords
<1>4. handle'[h].isOpen = handle[h].isOpen /\ handle'[h].kind = handle[h].kind
  BY <1>2, <1>3 DEF TypeOK
<1>5. \A g \in Handle : g # h => handle'[g] = handle[g]
  BY <1>3, Zenon DEF TypeOK
<1>6. \A g \in Handle : /\ handle'[g].isOpen <=> handle[g].isOpen
                        /\ handle[g].isOpen => handle'[g].kind = handle[g].kind
  BY <1>4, <1>5, Zenon
<1> QED
  BY <1>1, <1>6, SameOpen, Zenon

(***************************************************************************)
(* CountInv holds initially and every step preserves it.                   *)
(***************************************************************************)
LEMMA CountInvInductive ==
  /\ Init => CountInv
  /\ TypeOK /\ CountInv /\ [Next]_vars => CountInv'
<1>1. ASSUME Init
      PROVE  CountInv
  <2>1. ~NoHandle.isOpen
    BY HandleTypeClosed, Zenon DEF NoHandle
  <2>2. (\A g \in Handle : ~handle[g].isOpen) /\ writerCount = 0 /\ readerCount = 0
    BY <1>1, <2>1, Zenon DEF Init
  <2> QED
    BY <2>2, NoneOpen, CountInvCounted, Zenon
<1>2. ASSUME TypeOK, CountInv, [Next]_vars
      PROVE  CountInv'
  <2>1. CASE OpenWrite \/ OpenRead \/ DestroyImageFile \/ Crash
    BY <2>1, ResetCounts, Zenon DEF OpenWrite, OpenRead, DestroyImageFile, Crash
  <2>2. ASSUME NEW b \in Blob, NewBlob(b) \/ BlobWrite(b)
        PROVE  CountInv'
    <3>1. UNCHANGED <<writerCount, readerCount, handle>>
      BY <2>2, Zenon DEF NewBlob, BlobWrite, memory
    <3> QED
      BY <1>2, <3>1, SameOpen, Zenon
  <2>3. ASSUME NEW h \in Handle, NEW cv \in CV, NewWriter(h, cv) \/ NewReader(h, cv)
        PROVE  CountInv'
    BY <1>2, <2>3, NewCounts, Zenon
  <2>4. ASSUME NEW h \in Handle, Write(h) \/ WriteZeroRecords(h)
        PROVE  CountInv'
    BY <1>2, <2>4, WriteCounts, Zenon
  <2>5. ASSUME NEW h \in Handle, NEW gone \in BOOLEAN,
               CloseWriter(h, gone) \/ CloseReader(h, gone)
        PROVE  CountInv'
    BY <1>2, <2>5, CloseCounts, Zenon
  <2>6. ASSUME NEW h \in Handle, Destroy(h)
        PROVE  CountInv'
    <3>1. Leave(h, TRUE) /\ ~handle[h].isOpen /\ UNCHANGED <<writerCount, readerCount>>
      BY <2>6, Zenon DEF Destroy
    <3>2. ~handle'[h].isOpen /\ \A g \in Handle : g # h => handle'[g] = handle[g]
      BY <1>2, <3>1, LeaveType, Zenon
    <3> QED
      BY <1>2, <3>1, <3>2, SameOpen, Zenon
  <2>7. CASE close \/ cancel \/ UNCHANGED vars
    <3>1. UNCHANGED <<writerCount, readerCount, handle>>
      BY <2>7, Zenon DEF close, cancel, vars, memory
    <3> QED
      BY <1>2, <3>1, SameOpen, Zenon
  <2> QED
    BY <1>2, <2>1, <2>2, <2>3, <2>4, <2>5, <2>6, <2>7 DEF Next
<1> QED
  BY <1>1, <1>2, Zenon

(***************************************************************************)
(* writerCount_ and readerCount_ are at all times the numbers of open      *)
(* writers and readers, for any number of handles, vectors and blobs.      *)
(***************************************************************************)
THEOREM CountsAreAccurate == Spec => []CountsMatch
<1>1. CountInv => CountsMatch
  BY Zenon DEF CountInv
<1> QED
  BY <1>1, TypeCorrect, CountInvInductive, PTL DEF Spec

(***************************************************************************)
(* The two counts keep writers and readers apart: at no time are two of    *)
(* them open.                                                              *)
(***************************************************************************)
THEOREM WritersAndReadersExclude == Spec => []OneAtATime
<1>1. CountInv => OneAtATime
  BY Zenon DEF CountInv
<1> QED
  BY <1>1, TypeCorrect, CountInvInductive, PTL DEF Spec

-----------------------------------------------------------------------------
(* The layout of a file being written. *)

Finished(t) == {c \in CV : t.cv[c].start # 0}
Created(t) == {b \in Blob : t.blob[b] # 0}

\* The offsets at which a section begins, and the first after it.
First(t, c) == t.cv[c].start
After(t, d, c) == t.cv[c].start + At(d, t.cv[c].start).length
AfterBlob(t, b) == t.blob[b] + SectionHeaderSize + BlobSize

\* Two extents of space share no offset.
Apart(start1, end1, start2, end2) == end1 <= start2 \/ end2 <= start1

\* Every finished section has its header and lies within the file.
SectionsOK(t, d) ==
  \A c \in Finished(t) :
    /\ First(t, c) < Len(d)
    /\ At(d, First(t, c)).what = "section"
    /\ First(t, c) < After(t, d, c)
    /\ After(t, d, c) <= Len(d)

\* All sections and blobs lie below s.
Below(t, d, s) ==
  /\ \A c \in Finished(t) : After(t, d, c) <= s
  /\ \A b \in Created(t) : AfterBlob(t, b) <= s

\* No two of them overlap.
AllApart(t, d) ==
  /\ \A c \in Finished(t), b \in Created(t) :
       Apart(First(t, c), After(t, d, c), t.blob[b], AfterBlob(t, b))
  /\ \A c1, c2 \in Finished(t) :
       c1 # c2 => Apart(First(t, c1), After(t, d, c1), First(t, c2), After(t, d, c2))
  /\ \A b1, b2 \in Created(t) :
       b1 # b2 => Apart(t.blob[b1], AfterBlob(t, b1), t.blob[b2], AfterBlob(t, b2))

Layout(t, d, u) ==
  /\ HeaderSize <= u
  /\ SectionsOK(t, d)
  /\ Below(t, d, u)
  /\ AllApart(t, d)
  /\ IsFiniteSet(Finished(t)) /\ IsFiniteSet(Created(t))

\* The section of an open writer comes after all others.
WritersLast(t, d, hd, u) ==
  \A h \in Handle : hd[h].kind = "writer" /\ hd[h].isOpen =>
    /\ HeaderSize <= hd[h].start
    /\ hd[h].start < u
    /\ Below(t, d, hd[h].start)

(***************************************************************************)
(* The inductive invariant.  Only a file being written is laid out: the    *)
(* tree a reader parses may come from any program.                         *)
(***************************************************************************)
SpaceInv ==
  /\ state = "none" => tree = NoTree
  /\ state = "open" /\ isWriter =>
       Layout(tree, bytes, unused) /\ WritersLast(tree, bytes, handle, unused)

\* The finished sections of d are in e as they were.
Keeps(t, d, e) ==
  /\ Len(d) <= Len(e)
  /\ \A c \in Finished(t) : \A i \in 0 .. At(d, First(t, c)).length - 1 :
       At(e, First(t, c) + i) = At(d, First(t, c) + i)

-----------------------------------------------------------------------------
(* The file. *)

(***************************************************************************)
(* What CheckedFile::write leaves at an offset: the item written there, or *)
(* the one that was there.                                                 *)
(***************************************************************************)
LEMMA PutAt ==
  ASSUME NEW d \in Seq(ItemType), NEW offset \in Nat, NEW items \in Seq(ItemType),
         NEW i \in Nat
  PROVE  /\ offset <= i /\ i < offset + Len(items) =>
              At(Put(d, offset, items), i) = items[i - offset + 1]
         /\ i < Len(d) /\ (i < offset \/ offset + Len(items) <= i) =>
              At(Put(d, offset, items), i) = At(d, i)
<1> DEFINE end == offset + Len(items)
           n == IF end > Len(d) THEN end ELSE Len(d)
<1>1. Len(d) \in Nat /\ Len(items) \in Nat /\ n \in Nat
  BY SeqLength
<1>2. ASSUME NEW k \in 1 .. n
      PROVE  Put(d, offset, items)[k] =
               IF k \in offset + 1 .. end THEN items[k - offset]
               ELSE IF k <= Len(d) THEN d[k] ELSE ZeroItem
  BY Zenon DEF Put
<1>3. ASSUME offset <= i, i < end
      PROVE  At(Put(d, offset, items), i) = items[i - offset + 1]
  <2>1. i + 1 \in 1 .. n /\ i + 1 \in offset + 1 .. end /\ (i + 1) - offset = i - offset + 1
    BY <1>1, <1>3
  <2> QED
    BY <1>2, <2>1 DEF At
<1>4. ASSUME i < Len(d), i < offset \/ end <= i
      PROVE  At(Put(d, offset, items), i) = At(d, i)
  <2>1. i + 1 \in 1 .. n /\ i + 1 \notin offset + 1 .. end /\ i + 1 <= Len(d)
    BY <1>1, <1>4
  <2> QED
    BY <1>2, <2>1, Zenon DEF At
<1> QED
  BY <1>3, <1>4, Zenon

(***************************************************************************)
(* The offsets of a finished section are natural numbers.                  *)
(***************************************************************************)
LEMMA SectionNumbers ==
  ASSUME NEW t \in TreeType, NEW d \in Seq(ItemType), SectionsOK(t, d),
         NEW c \in Finished(t)
  PROVE  /\ First(t, c) \in Nat \ {0}
         /\ At(d, First(t, c)).length \in Nat
         /\ After(t, d, c) = First(t, c) + At(d, First(t, c)).length
         /\ After(t, d, c) \in Nat
<1>1. First(t, c) \in Nat \ {0}
  BY Zenon DEF First, Finished, TreeType
<1>2. First(t, c) + 1 \in 1 .. Len(d) /\ At(d, First(t, c)).what = "section"
  BY <1>1, SeqLength DEF SectionsOK
<1>3. At(d, First(t, c)) \in ItemType
  BY <1>2, SeqElement, Zenon DEF At
<1>4. At(d, First(t, c)).length \in Nat
  BY <1>2, <1>3 DEF ItemType, ZeroItem
<1> QED
  BY <1>1, <1>4 DEF After, First

(***************************************************************************)
(* A blob occupies natural offsets.                                        *)
(***************************************************************************)
LEMMA BlobNumbers ==
  ASSUME NEW t \in TreeType, NEW b \in Created(t)
  PROVE  t.blob[b] \in Nat \ {0} /\ AfterBlob(t, b) \in Nat /\ t.blob[b] + 1 < AfterBlob(t, b)
BY SizeAssumption DEF Created, TreeType, AfterBlob, SectionHeaderSize

(***************************************************************************)
(* A write that stays clear of the finished sections keeps them.           *)
(***************************************************************************)
LEMMA PutKeeps ==
  ASSUME NEW t \in TreeType, NEW d \in Seq(ItemType), SectionsOK(t, d),
         NEW offset \in Nat, NEW items \in Seq(ItemType),
         \A c \in Finished(t) :
           After(t, d, c) <= offset \/ offset + Len(items) <= First(t, c)
  PROVE  Keeps(t, d, Put(d, offset, items))
<1>1. Len(d) \in Nat /\ Len(items) \in Nat
  BY SeqLength, Zenon
<1>2. Len(d) <= Len(Put(d, offset, items))
  BY <1>1, PutType
<1>3. ASSUME NEW c \in Finished(t), NEW i \in 0 .. At(d, First(t, c)).length - 1
      PROVE  At(Put(d, offset, items), First(t, c) + i) = At(d, First(t, c) + i)
  <2> DEFINE k == First(t, c) + i
  <2>1. /\ First(t, c) \in Nat /\ At(d, First(t, c)).length \in Nat
        /\ After(t, d, c) = First(t, c) + At(d, First(t, c)).length
    BY SectionNumbers, Zenon
  <2>2. k \in Nat /\ First(t, c) <= k /\ k < After(t, d, c)
    BY <2>1
  <2>3. After(t, d, c) <= Len(d) /\ After(t, d, c) \in Nat
    BY SectionNumbers, Zenon DEF SectionsOK
  <2>4. k < Len(d) /\ (k < offset \/ offset + Len(items) <= k)
    BY <1>1, <2>1, <2>2, <2>3, SMTT(30)
  <2> QED
    BY <2>2, <2>4, PutAt
<1> QED
  BY <1>2, <1>3, Zenon DEF Keeps

(***************************************************************************)
(* What is kept still has its header, and its place.                       *)
(***************************************************************************)
LEMMA KeptSections ==
  ASSUME NEW t \in TreeType, NEW d \in Seq(ItemType), NEW e \in Seq(ItemType),
         SectionsOK(t, d), Keeps(t, d, e)
  PROVE  /\ SectionsOK(t, e)
         /\ \A c \in Finished(t) : After(t, e, c) = After(t, d, c)
<1>1. Len(d) \in Nat /\ Len(e) \in Nat /\ Len(d) <= Len(e)
  BY SeqLength, Zenon DEF Keeps
<1>2. ASSUME NEW c \in Finished(t)
      PROVE  /\ At(e, First(t, c)) = At(d, First(t, c))
             /\ After(t, e, c) = After(t, d, c)
  <2>1. /\ First(t, c) \in Nat /\ At(d, First(t, c)).length \in Nat
        /\ After(t, d, c) = First(t, c) + At(d, First(t, c)).length
    BY SectionNumbers, Zenon
  <2>2. First(t, c) < After(t, d, c)
    BY Zenon DEF SectionsOK
  <2>3. 0 \in 0 .. At(d, First(t, c)).length - 1 /\ First(t, c) + 0 = First(t, c)
    BY <2>1, <2>2
  <2>4. At(e, First(t, c)) = At(d, First(t, c))
    BY <2>3, Zenon DEF Keeps
  <2> QED
    BY <2>4, Zenon DEF After, First
<1>3. ASSUME NEW c \in Finished(t)
      PROVE  /\ First(t, c) < Len(e)
             /\ At(e, First(t, c)).what = "section"
             /\ First(t, c) < After(t, e, c)
             /\ After(t, e, c) <= Len(e)
  BY <1>1, <1>2, SectionNumbers DEF SectionsOK
<1> QED
  BY <1>2, <1>3, Zenon DEF SectionsOK

(***************************************************************************)
(* Keeping is transitive.                                                  *)
(***************************************************************************)
LEMMA KeepsTwice ==
  ASSUME NEW t \in TreeType, NEW d \in Seq(ItemType), NEW e \in Seq(ItemType),
         NEW f \in Seq(ItemType), SectionsOK(t, d), Keeps(t, d, e), Keeps(t, e, f)
  PROVE  Keeps(t, d, f)
<1>1. Len(d) <= Len(f)
  BY SeqLength DEF Keeps
<1>2. ASSUME NEW c \in Finished(t)
      PROVE  At(e, First(t, c)).length = At(d, First(t, c)).length
  <2>1. /\ First(t, c) \in Nat /\ At(d, First(t, c)).length \in Nat
        /\ After(t, d, c) = First(t, c) + At(d, First(t, c)).length
    BY SectionNumbers, Zenon
  <2>2. First(t, c) < After(t, d, c)
    BY Zenon DEF SectionsOK
  <2>3. 0 \in 0 .. At(d, First(t, c)).length - 1 /\ First(t, c) + 0 = First(t, c)
    BY <2>1, <2>2
  <2> QED
    BY <2>3, Zenon DEF Keeps
<1> QED
  BY <1>1, <1>2, Zenon DEF Keeps

-----------------------------------------------------------------------------
(* The layout. *)

(***************************************************************************)
(* A layout survives a write that keeps its sections, and a higher         *)
(* unusedLogicalStart_.                                                    *)
(***************************************************************************)
LEMMA LayoutKept ==
  ASSUME NEW t \in TreeType, NEW d \in Seq(ItemType), NEW e \in Seq(ItemType),
         NEW u \in Nat, NEW v \in Nat, u <= v, Layout(t, d, u), Keeps(t, d, e)
  PROVE  /\ Layout(t, e, v)
         /\ \A s \in Nat : Below(t, d, s) => Below(t, e, s)
<1>1. SectionsOK(t, d) /\ Below(t, d, u) /\ AllApart(t, d)
  BY Zenon DEF Layout
<1>2. SectionsOK(t, e) /\ \A c \in Finished(t) : After(t, e, c) = After(t, d, c)
  BY <1>1, KeptSections, Zenon
<1>3. \A s \in Nat : Below(t, d, s) => Below(t, e, s)
  BY <1>2, Zenon DEF Below
<1>4. AllApart(t, e)
  BY <1>1, <1>2, Zenon DEF AllApart
<1>5. Below(t, d, v)
  <2>1. \A c \in Finished(t) : After(t, d, c) \in Nat
    BY <1>1, SectionNumbers, Zenon
  <2>2. \A b \in Created(t) : AfterBlob(t, b) \in Nat
    BY BlobNumbers, Zenon
  <2> QED
    BY <1>1, <2>1, <2>2 DEF Below
<1> QED
  BY <1>2, <1>3, <1>4, <1>5 DEF Layout, HeaderSize

(***************************************************************************)
(* The step of a file being written that keeps its tree and its sections:  *)
(* the writers that are open afterwards were open before, with the same    *)
(* section.                                                                *)
(***************************************************************************)
LEMMA QuietStep ==
  ASSUME TypeOK, TypeOK', SpaceInv, state = "open", isWriter,
         UNCHANGED <<isWriter, tree>>, state' # "none", unused <= unused',
         Keeps(tree, bytes, bytes'),
         \A h \in Handle : handle'[h].kind = "writer" /\ handle'[h].isOpen =>
           /\ handle[h].kind = "writer" /\ handle[h].isOpen
           /\ handle'[h].start = handle[h].start
  PROVE  SpaceInv'
<1>1. /\ tree \in TreeType /\ bytes \in Seq(ItemType) /\ bytes' \in Seq(ItemType)
      /\ unused \in Nat /\ unused' \in Nat
  BY Zenon DEF TypeOK
<1>2. Layout(tree, bytes, unused) /\ WritersLast(tree, bytes, handle, unused)
  BY Zenon DEF SpaceInv
<1>3. /\ Layout(tree, bytes', unused')
      /\ \A s \in Nat : Below(tree, bytes, s) => Below(tree, bytes', s)
  BY <1>1, <1>2, LayoutKept, Zenon
<1>4. ASSUME NEW h \in Handle, handle'[h].kind = "writer", handle'[h].isOpen
      PROVE  /\ HeaderSize <= handle'[h].start
             /\ handle'[h].start < unused'
             /\ Below(tree, bytes', handle'[h].start)
  <2>1. handle[h].kind = "writer" /\ handle[h].isOpen /\ handle'[h].start = handle[h].start
    BY <1>4, Zenon
  <2>2. handle[h].start \in Nat
    BY <2>1, WriterFields, Zenon
  <2>3. /\ HeaderSize <= handle[h].start
        /\ handle[h].start < unused
        /\ Below(tree, bytes, handle[h].start)
    BY <1>2, <2>1, Zenon DEF WritersLast
  <2> QED
    BY <1>1, <1>3, <2>1, <2>2, <2>3
<1>5. WritersLast(tree, bytes', handle', unused')
  BY <1>4, Zenon DEF WritersLast
<1> QED
  BY <1>3, <1>5, Zenon DEF SpaceInv

(***************************************************************************)
(* A write at or above unusedLogicalStart_ keeps the sections.             *)
(***************************************************************************)
LEMMA AllocatedPutKeeps ==
  ASSUME NEW t \in TreeType, NEW d \in Seq(ItemType), NEW u \in Nat, Layout(t, d, u),
         NEW offset \in Nat, u <= offset, NEW items \in Seq(ItemType)
  PROVE  Keeps(t, d, Put(d, offset, items))
<1>1. SectionsOK(t, d) /\ Below(t, d, u)
  BY Zenon DEF Layout
<1>2. \A c \in Finished(t) : After(t, d, c) <= offset
  BY <1>1, SectionNumbers DEF Below
<1> QED
  BY <1>1, <1>2, PutKeeps, Zenon

\* The same of what is stored at unusedLogicalStart_ itself.
LEMMA PutAtEnd ==
  ASSUME NEW t \in TreeType, NEW d \in Seq(ItemType), NEW u \in Nat, Layout(t, d, u),
         NEW items \in Seq(ItemType)
  PROVE  Keeps(t, d, Put(d, u, items))
BY AllocatedPutKeeps

(***************************************************************************)
(* So does an extend.                                                      *)
(***************************************************************************)
LEMMA ExtendedKeeps ==
  ASSUME NEW t \in TreeType, NEW d \in Seq(ItemType), SectionsOK(t, d),
         NEW length \in Nat, length >= Len(d)
  PROVE  Keeps(t, d, Extended(d, length))
<1> DEFINE zeros == [i \in 1 .. length - Len(d) |-> ZeroItem]
<1>1. Len(d) \in Nat /\ length - Len(d) \in Nat
  BY SeqLength
<1>2. zeros \in [1 .. length - Len(d) -> ItemType]
  BY Zenon DEF ItemType
<1>3. zeros \in Seq(ItemType)
  BY <1>1, <1>2, FunctionIsSeq, Zenon
<1>4. Extended(d, length) = Put(d, Len(d), zeros)
  BY Zenon DEF Extended
<1> HIDE DEF zeros
<1>5. \A c \in Finished(t) : After(t, d, c) <= Len(d)
  BY Zenon DEF SectionsOK
<1> QED
  BY <1>1, <1>3, <1>4, <1>5, PutKeeps, Zenon

-----------------------------------------------------------------------------
(* The actions that allocate the space of a blob or a writer. *)

(***************************************************************************)
(* A blob gets the space from unusedLogicalStart_ on, if no writer is      *)
(* open, whatever then throws.                                             *)
(***************************************************************************)
LEMMA NewBlobSpace ==
  ASSUME TypeInv, TypeInv', SpaceInv, isWriter, NEW b \in Blob, NewBlob(b),
         OpenHandles("writer") = {}
  PROVE  SpaceInv' /\ Keeps(tree, bytes, bytes')
<1> USE DEF TypeInv
<1>1. /\ tree \in TreeType /\ bytes \in Seq(ItemType) /\ bytes' \in Seq(ItemType)
      /\ unused \in Nat /\ unused' \in Nat /\ tree' \in TreeType
  BY Zenon DEF TypeOK
<1>2. /\ state = "open" /\ tree.blob[b] = 0
      /\ BlobSection \in Nat /\ unused' = unused + BlobSection /\ unused < unused'
      /\ unused' = unused + SectionHeaderSize + BlobSize
  BY <1>1, SizeAssumption DEF NewBlob, MayAllocate, BlobSection, SectionHeaderSize
<1>3. UNCHANGED <<state, isWriter, handle>>
  BY Zenon DEF NewBlob
<1>4. Layout(tree, bytes, unused)
  BY <1>2, Zenon DEF SpaceInv
<1>5. \A h \in Handle : ~(handle'[h].kind = "writer" /\ handle'[h].isOpen)
  BY <1>3, Zenon DEF OpenHandles
<1>6. Extends(BlobSection) => /\ Extended(bytes, unused') \in Seq(ItemType)
                              /\ Keeps(tree, bytes, Extended(bytes, unused'))
  BY <1>1, <1>2, <1>4, ExtendedType, ExtendedKeeps, Zenon DEF Extends, Layout
<1>7. CASE /\ Extends(BlobSection)
           /\ bytes' = Put(Extended(bytes, unused'), unused, <<BlobHeaderItem(b)>>)
           /\ tree' = [tree EXCEPT !.blob[b] = unused]
  <2> DEFINE e == Extended(bytes, unused')
             item == <<BlobHeaderItem(b)>>
  <2>1. e \in Seq(ItemType) /\ Keeps(tree, bytes, e) /\ bytes' = Put(e, unused, item)
    BY <1>6, <1>7, Zenon
  <2>2. item \in Seq(ItemType)
    BY DEF BlobHeaderItem, ItemType
  <2> HIDE DEF e, item
  <2>3. Layout(tree, e, unused)
    BY <1>1, <1>4, <2>1, LayoutKept
  <2>4. Keeps(tree, e, bytes')
    BY <1>1, <2>1, <2>2, <2>3, AllocatedPutKeeps
  <2>5. Keeps(tree, bytes, bytes')
    BY <1>1, <1>4, <2>1, <2>4, KeepsTwice, Zenon DEF Layout
  <2>6. Layout(tree, bytes', unused)
    BY <1>1, <1>4, <2>5, LayoutKept
  <2>7. /\ Finished(tree') = Finished(tree)
        /\ \A c \in Finished(tree) : /\ First(tree', c) = First(tree, c)
                                     /\ After(tree', bytes', c) = After(tree, bytes', c)
    BY <1>1, <1>7, Zenon DEF Finished, First, After, TreeType
  <2>8. /\ Created(tree') = Created(tree) \cup {b}
        /\ tree'.blob[b] = unused /\ AfterBlob(tree', b) = unused'
        /\ \A g \in Created(tree) : /\ g # b
                                    /\ tree'.blob[g] = tree.blob[g]
                                    /\ AfterBlob(tree', g) = AfterBlob(tree, g)
    <3>1. unused # 0
      BY <1>1, <1>4 DEF Layout, HeaderSize
    <3>2. tree'.blob = [tree.blob EXCEPT ![b] = unused] /\ tree.blob \in [Blob -> Nat]
      BY <1>1, <1>7, Zenon DEF TreeType
    <3> QED
      BY <1>2, <3>1, <3>2, Zenon DEF Created, AfterBlob
  <2>9. SectionsOK(tree', bytes')
    BY <2>6, <2>7, Zenon DEF Layout, SectionsOK
  <2>10. /\ \A c \in Finished(tree) : After(tree, bytes', c) \in Nat
                                      /\ After(tree, bytes', c) <= unused
         /\ \A g \in Created(tree) : AfterBlob(tree, g) \in Nat /\ AfterBlob(tree, g) <= unused
    BY <1>1, <2>6, SectionNumbers, BlobNumbers, Zenon DEF Layout, Below
  <2>11. Below(tree', bytes', unused')
    BY <1>1, <1>2, <2>7, <2>8, <2>10 DEF Below
  <2>12. AllApart(tree', bytes')
    <3>1. AllApart(tree, bytes')
      BY <2>6, Zenon DEF Layout
    <3>2. \A c \in Finished(tree'), g \in Created(tree') :
            Apart(First(tree', c), After(tree', bytes', c), tree'.blob[g], AfterBlob(tree', g))
      BY <2>7, <2>8, <2>10, <3>1, Zenon DEF AllApart, Apart
    <3>3. \A c1, c2 \in Finished(tree') :
            c1 # c2 => Apart(First(tree', c1), After(tree', bytes', c1),
                             First(tree', c2), After(tree', bytes', c2))
      BY <2>7, <3>1, Zenon DEF AllApart
    <3>4. \A b1, b2 \in Created(tree') :
            b1 # b2 => Apart(tree'.blob[b1], AfterBlob(tree', b1),
                             tree'.blob[b2], AfterBlob(tree', b2))
      BY <2>8, <2>10, <3>1, Zenon DEF AllApart, Apart
    <3> QED
      BY <3>2, <3>3, <3>4, Zenon DEF AllApart
  <2>13. IsFiniteSet(Finished(tree')) /\ IsFiniteSet(Created(tree'))
    BY <2>6, <2>7, <2>8, FS_AddElement, Zenon DEF Layout
  <2>14. HeaderSize <= unused'
    BY <1>1, <1>2, <1>4 DEF Layout, HeaderSize
  <2>15. Layout(tree', bytes', unused')
    BY <2>9, <2>11, <2>12, <2>13, <2>14, Zenon DEF Layout
  <2>16. WritersLast(tree', bytes', handle', unused')
    BY <1>5, Zenon DEF WritersLast
  <2>17. state' # "none"
    BY <1>2, <1>3, Zenon
  <2> QED
    BY <2>5, <2>15, <2>16, <2>17, Zenon DEF SpaceInv
<1>8. ASSUME tree' = tree, Keeps(tree, bytes, bytes')
      PROVE  SpaceInv' /\ Keeps(tree, bytes, bytes')
  <2>1. unused <= unused' /\ state' # "none"
    BY <1>1, <1>2, <1>3
  <2> QED
    BY <1>2, <1>3, <1>5, <1>8, <2>1, QuietStep, Zenon
<1>9. CASE Extends(BlobSection) /\ bytes' = Extended(bytes, unused') /\ UNCHANGED tree
  BY <1>6, <1>8, <1>9, Zenon
<1>10. CASE UNCHANGED <<bytes, tree>>
  <2>1. Keeps(tree, bytes, bytes')
    BY <1>1, <1>10, SeqLength DEF Keeps
  <2> QED
    BY <1>8, <1>10, <2>1, Zenon
<1> QED
  BY <1>7, <1>9, <1>10, Zenon DEF NewBlob

(***************************************************************************)
(* BlobNodeImpl::write stays within the blob.                              *)
(***************************************************************************)
LEMMA BlobWriteSpace ==
  ASSUME TypeInv, TypeInv', SpaceInv, NEW b \in Blob, BlobWrite(b)
  PROVE  SpaceInv' /\ Keeps(tree, bytes, bytes')
<1> USE DEF TypeInv
<1>1. /\ tree \in TreeType /\ bytes \in Seq(ItemType) /\ unused \in Nat
      /\ state = "open" /\ isWriter /\ tree.blob[b] # 0
      /\ UNCHANGED <<state, isWriter, unused, tree, handle>>
  BY Zenon DEF TypeOK, BlobWrite, memory
<1>2. PICK start \in 0 .. BlobSize, n \in 1 .. BlobSize + 1 :
        /\ BlobFits(start, n)
        /\ bytes' = Put(bytes, tree.blob[b] + SectionHeaderSize + start,
                        [i \in 1 .. n |-> BlobItem(b)])
  BY Zenon DEF BlobWrite
<1> DEFINE items == [i \in 1 .. n |-> BlobItem(b)]
           offset == tree.blob[b] + SectionHeaderSize + start
<1>3. items \in [1 .. n -> ItemType] /\ n \in Nat /\ start \in Nat
  BY SizeAssumption DEF BlobItem, ItemType
<1>4. items \in Seq(ItemType) /\ Len(items) = n
  BY <1>3, FunctionIsSeq, Zenon
<1>5. b \in Created(tree)
  BY <1>1, Zenon DEF Created
<1>6. /\ tree.blob[b] \in Nat /\ offset \in Nat
      /\ tree.blob[b] <= offset /\ offset + n <= AfterBlob(tree, b)
      /\ AfterBlob(tree, b) \in Nat
  <2> DEFINE x == tree.blob[b]
  <2>1. x \in Nat /\ AfterBlob(tree, b) \in Nat
    BY <1>1, <1>5, BlobNumbers, Zenon
  <2>2. AfterBlob(tree, b) = x + SectionHeaderSize + BlobSize
    BY Zenon DEF AfterBlob
  <2>3. BlobSize \in Nat /\ start + n <= BlobSize /\ SectionHeaderSize \in Nat
    BY <1>2, SizeAssumption, Zenon DEF BlobFits, SectionHeaderSize
  <2> HIDE DEF x
  <2> QED
    BY <1>3, <2>1, <2>2, <2>3 DEF x
<1>7. Layout(tree, bytes, unused)
  BY <1>1, Zenon DEF SpaceInv
<1> HIDE DEF items, offset
<1>8. \A c \in Finished(tree) :
        After(tree, bytes, c) <= offset \/ offset + Len(items) <= First(tree, c)
  <2> SUFFICES ASSUME NEW c \in Finished(tree)
               PROVE  After(tree, bytes, c) <= offset \/ offset + Len(items) <= First(tree, c)
    BY Zenon
  <2>1. After(tree, bytes, c) <= tree.blob[b] \/ AfterBlob(tree, b) <= First(tree, c)
    BY <1>5, <1>7, Zenon DEF Layout, AllApart, Apart
  <2>2. First(tree, c) \in Nat /\ After(tree, bytes, c) \in Nat
    BY <1>1, <1>7, SectionNumbers, Zenon DEF Layout
  <2> QED
    BY <1>3, <1>4, <1>6, <2>1, <2>2
<1>9. Keeps(tree, bytes, bytes')
  <2>1. bytes' = Put(bytes, offset, items)
    BY <1>2, Zenon DEF items, offset
  <2> QED
    BY <1>1, <1>4, <1>6, <1>7, <1>8, <2>1, PutKeeps DEF Layout
<1>10. /\ unused <= unused' /\ state' # "none" /\ isWriter' = isWriter /\ tree' = tree
       /\ handle' = handle
  BY <1>1
<1>11. TypeOK /\ TypeOK' /\ state = "open" /\ isWriter
  BY <1>1, Zenon
<1> QED
  BY <1>9, <1>10, <1>11, QuietStep, Zenon

(***************************************************************************)
(* The section of a new writer comes after all there is.                   *)
(***************************************************************************)
LEMMA NewWriterSpace ==
  ASSUME TypeInv, TypeInv', CountInv, SpaceInv,
         NEW h \in Handle, NEW cv \in CV, NewWriter(h, cv)
  PROVE  SpaceInv' /\ Keeps(tree, bytes, bytes')
<1> USE DEF TypeInv
<1>1. /\ tree \in TreeType /\ bytes \in Seq(ItemType) /\ bytes' \in Seq(ItemType)
      /\ unused \in Nat /\ unused' \in Nat
  BY Zenon DEF TypeOK
<1>2. /\ state = "open" /\ isWriter
      /\ unused' = unused + SectionHeaderSize /\ unused < unused'
      /\ UNCHANGED <<state, isWriter, tree>>
  BY <1>1 DEF NewWriter, MayAllocate, SectionHeaderSize
<1>3. Layout(tree, bytes, unused)
  BY <1>2, Zenon DEF SpaceInv
<1>4. \A g \in Handle : ~handle[g].isOpen
  BY GuardExcludes, Zenon DEF NewWriter
<1>5. CASE /\ Extends(SectionHeaderSize)
           /\ bytes' = Extended(bytes, unused')
           /\ writerCount' = writerCount + 1
           /\ handle' = [handle EXCEPT ![h] =
                [kind |-> "writer", isOpen |-> TRUE, cv |-> cv, start |-> unused,
                 data |-> 0, pending |-> 0, count |-> 0]]
  <2>1. Keeps(tree, bytes, bytes')
    BY <1>1, <1>2, <1>3, <1>5, ExtendedKeeps DEF Extends, Layout
  <2>2. /\ Layout(tree, bytes', unused')
        /\ \A s \in Nat : Below(tree, bytes, s) => Below(tree, bytes', s)
    BY <1>1, <1>2, <1>3, <2>1, LayoutKept
  <2>3. Below(tree, bytes', unused) /\ HeaderSize <= unused
    BY <1>1, <1>3, <2>2, Zenon DEF Layout
  <2>4. \A g \in Handle : handle'[g].isOpen => handle'[g].start = unused
    BY <1>4, <1>5, Zenon DEF TypeOK
  <2>5. WritersLast(tree, bytes', handle', unused')
    BY <1>2, <2>3, <2>4, Zenon DEF WritersLast
  <2> QED
    BY <1>2, <2>1, <2>2, <2>5 DEF SpaceInv
<1>6. CASE UNCHANGED <<bytes, writerCount, handle>>
  <2>1. Keeps(tree, bytes, bytes')
    BY <1>1, <1>6, SeqLength DEF Keeps
  <2>2. unused <= unused' /\ state' # "none"
    BY <1>1, <1>2
  <2> QED
    BY <1>2, <1>4, <1>6, <2>1, <2>2, QuietStep
<1> QED
  BY <1>5, <1>6, Zenon DEF NewWriter

(***************************************************************************)
(* The XML goes at unusedLogicalStart_, after all sections.                *)
(***************************************************************************)
LEMMA XmlStoredKeeps ==
  ASSUME TypeOK, Layout(tree, bytes, unused), NEW k \in 0 .. XmlSize
  PROVE  /\ XmlStored(k) \in Seq(ItemType)
         /\ Keeps(tree, bytes, XmlStored(k))
         /\ unused + k <= Len(XmlStored(k))
         /\ \A i \in 0 .. k - 1 : At(XmlStored(k), unused + i) = XmlItem(tree, i)
<1> DEFINE items == [i \in 1 .. k |-> XmlItem(tree, i - 1)]
<1>1. k \in Nat /\ unused \in Nat /\ tree \in TreeType /\ bytes \in Seq(ItemType)
  BY SizeAssumption DEF TypeOK
<1>2. \A i \in 1 .. k : XmlItem(tree, i - 1) \in ItemType
  BY <1>1 DEF XmlItem, ItemType
<1>3. items \in [1 .. k -> ItemType]
  BY <1>2, Zenon
<1>4. XmlStored(k) = Put(bytes, unused, items)
  BY Zenon DEF XmlStored
<1>5. \A i \in 0 .. k - 1 : items[i + 1] = XmlItem(tree, i)
  <2> TAKE i \in 0 .. k - 1
  <2>1. i + 1 \in 1 .. k /\ i + 1 - 1 = i
    BY <1>1
  <2> QED
    BY <2>1
<1> HIDE DEF items
<1>6. items \in Seq(ItemType) /\ Len(items) = k
  BY <1>1, <1>3, FunctionIsSeq, Zenon
<1>7. /\ XmlStored(k) \in Seq(ItemType)
      /\ Len(XmlStored(k)) = IF unused + k > Len(bytes) THEN unused + k ELSE Len(bytes)
  BY <1>1, <1>4, <1>6, PutType
<1>8. unused + k <= Len(XmlStored(k))
  BY <1>1, <1>7, SeqLength
<1>9. Keeps(tree, bytes, XmlStored(k))
  BY <1>1, <1>4, <1>6, PutAtEnd, Zenon
<1>10. \A i \in 0 .. k - 1 : At(XmlStored(k), unused + i) = XmlItem(tree, i)
  <2> TAKE i \in 0 .. k - 1
  <2>1. /\ unused + i \in Nat /\ unused <= unused + i /\ unused + i < unused + Len(items)
        /\ unused + i - unused + 1 = i + 1
    BY <1>1, <1>6
  <2>2. At(XmlStored(k), unused + i) = items[unused + i - unused + 1]
    BY <1>1, <1>4, <1>6, <2>1, PutAt
  <2> QED
    BY <1>5, <2>1, <2>2, Zenon
<1> QED
  BY <1>7, <1>8, <1>9, <1>10, Zenon

-----------------------------------------------------------------------------
(* What a reader finds in the sections. *)

\* Tree u has all that t refers to.
Within(t, u) ==
  /\ \A c \in Finished(t) : t.cv[c] = u.cv[c]
  /\ \A b \in Created(t) : t.blob[b] = u.blob[b]

\* Whatever XML the file holds, of a close that threw too, is of such a tree.
XmlWithin(d, t) ==
  \A i \in 1 .. Len(d) : d[i].what = "xml" => Within(d[i].tree, t)

\* The sections and blobs of t are in d.
SectionsRead(t, d, lost) ==
  \A c \in Finished(t) \ lost : SectionReads(d, c, t.cv[c])

BlobsThere(t, d) ==
  \A b \in Created(t) : t.blob[b] < Len(d) /\ At(d, t.blob[b]) = BlobHeaderItem(b)

FileReads(t, d, lost) ==
  XmlWithin(d, t) /\ SectionsRead(t, d, lost) /\ BlobsThere(t, d)

-----------------------------------------------------------------------------
(* What a write leaves readable. *)

(***************************************************************************)
(* What CheckedFile::write leaves of the XML.                              *)
(***************************************************************************)
LEMMA PutXml ==
  ASSUME NEW t, NEW d \in Seq(ItemType), NEW offset \in Nat, NEW items \in Seq(ItemType),
         XmlWithin(d, t), XmlWithin(items, t)
  PROVE  XmlWithin(Put(d, offset, items), t)
<1> DEFINE e == Put(d, offset, items)
           end == offset + Len(items)
<1>1. Len(d) \in Nat /\ Len(items) \in Nat
  BY SeqLength, Zenon
<1>2. Len(e) = IF end > Len(d) THEN end ELSE Len(d)
  BY PutType, Zenon
<1>3. ASSUME NEW i \in 1 .. Len(e)
      PROVE  e[i] = IF i \in offset + 1 .. end THEN items[i - offset]
                    ELSE IF i <= Len(d) THEN d[i] ELSE ZeroItem
  BY <1>2, Zenon DEF Put
<1>4. ASSUME NEW i \in 1 .. Len(e), e[i].what = "xml"
      PROVE  Within(e[i].tree, t)
  <2>1. CASE i \in offset + 1 .. end
    <3>1. i - offset \in 1 .. Len(items) /\ e[i] = items[i - offset]
      BY <1>1, <1>3, <2>1
    <3> QED
      BY <1>4, <3>1, Zenon DEF XmlWithin
  <2>2. CASE i \notin offset + 1 .. end /\ i <= Len(d)
    <3>1. i \in 1 .. Len(d) /\ e[i] = d[i]
      BY <1>1, <1>3, <2>2
    <3> QED
      BY <1>4, <3>1, Zenon DEF XmlWithin
  <2>3. CASE i \notin offset + 1 .. end /\ ~(i <= Len(d))
    BY <1>3, <1>4, <2>3 DEF ZeroItem
  <2> QED
    BY <2>1, <2>2, <2>3, Zenon
<1> QED
  BY <1>4, Zenon DEF XmlWithin

(***************************************************************************)
(* A write that does not touch the headers of the blobs keeps them.        *)
(***************************************************************************)
LEMMA PutBlobs ==
  ASSUME NEW t \in TreeType, NEW d \in Seq(ItemType), NEW offset \in Nat,
         NEW items \in Seq(ItemType), BlobsThere(t, d),
         \A b \in Created(t) : t.blob[b] < offset \/ offset + Len(items) <= t.blob[b]
  PROVE  BlobsThere(t, Put(d, offset, items))
<1> SUFFICES ASSUME NEW b \in Created(t)
             PROVE  /\ t.blob[b] < Len(Put(d, offset, items))
                    /\ At(Put(d, offset, items), t.blob[b]) = BlobHeaderItem(b)
  BY Zenon DEF BlobsThere
<1>1. t.blob[b] \in Nat /\ t.blob[b] < Len(d) /\ At(d, t.blob[b]) = BlobHeaderItem(b)
  BY BlobNumbers, Zenon DEF BlobsThere
<1>2. At(Put(d, offset, items), t.blob[b]) = At(d, t.blob[b])
  BY <1>1, PutAt
<1>3. t.blob[b] < Len(Put(d, offset, items))
  <2>1. Len(Put(d, offset, items)) =
          IF offset + Len(items) > Len(d) THEN offset + Len(items) ELSE Len(d)
    BY PutType, Zenon
  <2>2. Len(d) \in Nat /\ Len(items) \in Nat
    BY SeqLength, Zenon
  <2> QED
    BY <1>1, <2>1, <2>2
<1> QED
  BY <1>1, <1>2, <1>3, Zenon

(***************************************************************************)
(* What a reader finds depends on the packets it walks over only.          *)
(***************************************************************************)
LEMMA SameFound ==
  ASSUME NEW d, NEW e, NEW c, NEW data \in Nat, NEW last \in Int,
         \A j \in data .. last : At(e, j) = At(d, j)
  PROVE  RecordsFound(e, c, data, last) = RecordsFound(d, c, data, last)
<1> DEFINE found(x, i) ==
             (\A j \in data .. i : At(x, j).what \in {"data", "index"} /\ At(x, j).cv = c)
               /\ At(x, i).what = "data"
<1>1. ASSUME NEW n \in 1 .. last + 1 - data
      PROVE  (IF found(e, data + (n - 1)) THEN At(e, data + (n - 1)).records ELSE 0)
               = IF found(d, data + (n - 1)) THEN At(d, data + (n - 1)).records ELSE 0
  <2> DEFINE i == data + (n - 1)
  <2>1. i \in data .. last /\ \A j \in data .. i : j \in data .. last
    OBVIOUS
  <2> HIDE DEF i
  <2>2. found(e, i) <=> found(d, i)
    BY <2>1, Zenon
  <2> HIDE DEF found
  <2> QED
    BY <2>1, <2>2, Zenon DEF i
<1> QED
  BY <1>1, Zenon DEF RecordsFound

(***************************************************************************)
(* A section that is kept can be read as before.                           *)
(***************************************************************************)
LEMMA KeptReads ==
  ASSUME NEW t \in TreeType, NEW d \in Seq(ItemType), NEW e \in Seq(ItemType),
         SectionsOK(t, d), Keeps(t, d, e), NEW c \in Finished(t),
         SectionReads(d, c, t.cv[c])
  PROVE  SectionReads(e, c, t.cv[c])
<1> DEFINE start == t.cv[c].start
           header == At(d, start)
           last == start + header.length - 1
<1>1. start \in Nat /\ header.length \in Nat /\ start = First(t, c)
  BY SectionNumbers, Zenon DEF First
<1>2. header.length > 0
  BY <1>1 DEF SectionsOK, After, First
<1>3. \A i \in start .. last : At(e, i) = At(d, i)
  <2> TAKE i \in start .. last
  <2>1. i - start \in 0 .. header.length - 1 /\ start + (i - start) = i
    BY <1>1
  <2>2. At(e, start + (i - start)) = At(d, start + (i - start))
    BY <1>1, <2>1, Zenon DEF Keeps
  <2> QED
    BY <2>1, <2>2, Zenon
<1>4. At(e, start) = header
  BY <1>1, <1>2, <1>3
<1>5. header.what = "section" /\ header.cv = c /\ last < Len(e)
  <2>1. header.what = "section" /\ header.cv = c /\ last < Len(d)
    BY Zenon DEF SectionReads
  <2>2. Len(d) <= Len(e) /\ Len(d) \in Nat /\ Len(e) \in Nat /\ last \in Int
    BY <1>1, SeqLength DEF Keeps
  <2> QED
    BY <2>1, <2>2
<1>6. ASSUME t.cv[c].count > 0
      PROVE  /\ header.data > start
             /\ Total(RecordsFound(e, c, header.data, last)) = t.cv[c].count
  <2>1. header.data > start /\ Total(RecordsFound(d, c, header.data, last)) = t.cv[c].count
    BY <1>6, Zenon DEF SectionReads
  <2>2. header.data \in Nat
    <3>1. start + 1 \in 1 .. Len(d)
      BY <1>1, SeqLength DEF SectionsOK
    <3>2. header \in ItemType
      BY <3>1, SeqElement, Zenon DEF At
    <3> QED
      BY <1>5, <3>2 DEF ItemType, ZeroItem
  <2> HIDE DEF header, start
  <2>3. last \in Int /\ \A j \in header.data .. last : At(e, j) = At(d, j)
    BY <1>1, <1>3, <2>1, <2>2
  <2> HIDE DEF last
  <2>4. RecordsFound(e, c, header.data, last) = RecordsFound(d, c, header.data, last)
    BY <2>2, <2>3, SameFound
  <2> QED
    BY <2>1, <2>4, Zenon
<1> QED
  BY <1>4, <1>5, <1>6, Zenon DEF SectionReads

(***************************************************************************)
(* A write that keeps the sections and the headers of the blobs, and       *)
(* stores no XML but of such trees, keeps the file readable.               *)
(***************************************************************************)
LEMMA PutReads ==
  ASSUME NEW t \in TreeType, NEW d \in Seq(ItemType), NEW offset \in Nat,
         NEW items \in Seq(ItemType), NEW lost, SectionsOK(t, d), FileReads(t, d, lost),
         Keeps(t, d, Put(d, offset, items)), XmlWithin(items, t),
         \A b \in Created(t) : t.blob[b] < offset \/ offset + Len(items) <= t.blob[b]
  PROVE  FileReads(t, Put(d, offset, items), lost)
<1> DEFINE e == Put(d, offset, items)
<1>1. e \in Seq(ItemType)
  BY PutType, Zenon
<1>2. XmlWithin(e, t)
  BY PutXml, Zenon DEF FileReads
<1>3. BlobsThere(t, e)
  BY PutBlobs, Zenon DEF FileReads
<1> HIDE DEF e
<1>4. Keeps(t, d, e)
  BY Zenon DEF e
<1>5. SectionsRead(t, e, lost)
  <2> SUFFICES ASSUME NEW c \in Finished(t) \ lost
               PROVE  SectionReads(e, c, t.cv[c])
    BY Zenon DEF SectionsRead
  <2>1. SectionReads(d, c, t.cv[c])
    BY Zenon DEF FileReads, SectionsRead
  <2> QED
    BY <1>1, <1>4, <2>1, KeptReads, Zenon
<1> QED
  BY <1>2, <1>3, <1>5, Zenon DEF FileReads, e

(***************************************************************************)
(* So does a write at or above unusedLogicalStart_.                        *)
(***************************************************************************)
LEMMA AppendedReads ==
  ASSUME NEW t \in TreeType, NEW d \in Seq(ItemType), NEW u \in Nat, Layout(t, d, u),
         NEW offset \in Nat, u <= offset, NEW items \in Seq(ItemType), NEW lost,
         FileReads(t, d, lost), XmlWithin(items, t)
  PROVE  FileReads(t, Put(d, offset, items), lost)
<1>1. Keeps(t, d, Put(d, offset, items))
  BY AllocatedPutKeeps, Zenon
<1>2. \A b \in Created(t) : t.blob[b] < offset
  <2> TAKE b \in Created(t)
  <2>1. t.blob[b] \in Nat /\ AfterBlob(t, b) \in Nat /\ t.blob[b] + 1 < AfterBlob(t, b)
    BY BlobNumbers, Zenon
  <2>2. AfterBlob(t, b) <= u
    BY Zenon DEF Layout, Below
  <2> QED
    BY <2>1, <2>2
<1> QED
  BY <1>1, <1>2, PutReads, Zenon DEF Layout

(***************************************************************************)
(* CheckedFile::extend stores zeros at the end of the file.                *)
(***************************************************************************)
LEMMA ExtendedReads ==
  ASSUME NEW t \in TreeType, NEW d \in Seq(ItemType), NEW u \in Nat, Layout(t, d, u),
         NEW length \in Nat, Len(d) <= length, NEW lost, FileReads(t, d, lost)
  PROVE  FileReads(t, Extended(d, length), lost)
<1> DEFINE items == [i \in 1 .. length - Len(d) |-> ZeroItem]
<1>1. Len(d) \in Nat /\ length - Len(d) \in Nat
  BY SeqLength
<1>2. items \in Seq(ItemType) /\ Len(items) = length - Len(d)
  <2>1. ZeroItem \in ItemType
    BY Zenon DEF ItemType
  <2>2. items \in [1 .. length - Len(d) -> ItemType]
    BY <2>1, Zenon
  <2> HIDE DEF items
  <2> QED
    BY <1>1, <2>2, FunctionIsSeq, Zenon
<1>3. \A i \in 1 .. Len(items) : items[i].what = "zero"
  BY <1>2, Zenon DEF ZeroItem
<1>4. Extended(d, length) = Put(d, Len(d), items)
  BY Zenon DEF Extended
<1> HIDE DEF items
<1>5. XmlWithin(items, t)
  BY <1>3, Zenon DEF XmlWithin
<1>6. Keeps(t, d, Put(d, Len(d), items))
  <2>1. \A c \in Finished(t) : After(t, d, c) <= Len(d)
    BY Zenon DEF Layout, SectionsOK
  <2> QED
    BY <1>1, <1>2, <2>1, PutKeeps, Zenon DEF Layout
<1>7. \A b \in Created(t) : t.blob[b] < Len(d)
  BY Zenon DEF FileReads, BlobsThere
<1> QED
  BY <1>1, <1>2, <1>4, <1>5, <1>6, <1>7, PutReads DEF Layout

(***************************************************************************)
(* A tree that refers to more has all that trees within the old one have.  *)
(***************************************************************************)
LEMMA WithinMore ==
  ASSUME NEW t, NEW u, Within(t, u), NEW d, XmlWithin(d, t)
  PROVE  XmlWithin(d, u)
<1>1. ASSUME NEW s, Within(s, t)
      PROVE  Within(s, u)
  <2>1. \A c \in Finished(s) : c \in Finished(t) /\ s.cv[c] = t.cv[c]
    BY <1>1, Zenon DEF Within, Finished
  <2>2. \A b \in Created(s) : b \in Created(t) /\ s.blob[b] = t.blob[b]
    BY <1>1, Zenon DEF Within, Created
  <2> QED
    BY <2>1, <2>2, Zenon DEF Within
<1> QED
  BY <1>1, Zenon DEF XmlWithin

(***************************************************************************)
(* What FileReads says of an open file, and of the file on the disk: the   *)
(* tree that opening it would parse refers to nothing that the tree in     *)
(* memory does not.                                                        *)
(***************************************************************************)
LEMMA ReadsAll ==
  TypeOK /\ FileReads(tree, bytes, damaged) => DiskFileReads /\ OpenFileReads
<1> SUFFICES ASSUME TypeOK, FileReads(tree, bytes, damaged)
             PROVE  DiskFileReads /\ OpenFileReads
  BY Zenon
<1>1. /\ \A c \in Finished(tree) \ damaged : SectionReads(bytes, c, tree.cv[c])
      /\ \A b \in Created(tree) : At(bytes, tree.blob[b]) = BlobHeaderItem(b)
  BY Zenon DEF FileReads, SectionsRead, BlobsThere
<1>2. TreeReads(tree, bytes)
  BY <1>1, Zenon DEF TreeReads, Finished, Created
<1>3. ASSUME Opens(bytes)
      PROVE  TreeReads(ParsedTree(bytes), bytes)
  <2> DEFINE xml == At(bytes, 0).xml
             t == ParsedTree(bytes)
  <2>1. xml \in Nat /\ xml + XmlSize <= Len(bytes)
    <3>1. 0 + 1 \in 1 .. Len(bytes) /\ bytes \in Seq(ItemType)
      BY <1>3, SeqLength DEF Opens, HeaderSize, TypeOK
    <3>2. At(bytes, 0) \in ItemType
      BY <3>1, SeqElement, Zenon DEF At
    <3>3. At(bytes, 0).what = "header"
      BY <1>3, Zenon DEF Opens
    <3>4. At(bytes, 0).xml \in Nat
      BY <3>2, <3>3 DEF ItemType, ZeroItem
    <3> QED
      BY <1>3, <3>4, Zenon DEF Opens
  <2>2. At(bytes, xml).what = "xml"
    <3>1. 0 \in 0 .. XmlSize - 1
      BY SizeAssumption
    <3>2. At(bytes, xml + 0).what = "xml"
      BY <1>3, <3>1, Zenon DEF Opens
    <3>3. xml + 0 = xml
      BY <2>1
    <3> QED
      BY <3>2, <3>3, Zenon
  <2>3. xml + 1 \in 1 .. Len(bytes)
    BY <2>1, SizeAssumption, SeqLength DEF TypeOK
  <2>4. Within(t, tree)
    BY <2>2, <2>3, Zenon DEF FileReads, XmlWithin, ParsedTree, At
  <2> HIDE DEF t, xml
  <2>5. \A c \in Finished(t) : c \in Finished(tree) /\ t.cv[c] = tree.cv[c]
    BY <2>4, Zenon DEF Within, Finished
  <2>6. \A b \in Created(t) : b \in Created(tree) /\ t.blob[b] = tree.blob[b]
    BY <2>4, Zenon DEF Within, Created
  <2>7. /\ \A c \in Finished(t) \ damaged : SectionReads(bytes, c, t.cv[c])
        /\ \A b \in Created(t) : At(bytes, t.blob[b]) = BlobHeaderItem(b)
    BY <1>1, <2>5, <2>6, Zenon
  <2>8. TreeReads(t, bytes)
    BY <2>7, Zenon DEF TreeReads, Finished, Created
  <2> QED
    BY <2>8, Zenon DEF t
<1> QED
  BY <1>2, <1>3, Zenon DEF DiskFileReads, OpenFileReads

(***************************************************************************)
(* An item that is stored is found where it was stored, and the others     *)
(* where they were.                                                        *)
(***************************************************************************)
LEMMA PutOne ==
  ASSUME NEW d \in Seq(ItemType), NEW offset \in Nat, NEW items \in Seq(ItemType),
         Len(items) = 1
  PROVE  /\ At(Put(d, offset, items), offset) = items[1]
         /\ Len(Put(d, offset, items)) \in Nat /\ Len(d) <= Len(Put(d, offset, items))
         /\ offset < Len(Put(d, offset, items))
         /\ \A i \in Nat : i < Len(d) /\ i # offset => At(Put(d, offset, items), i) = At(d, i)
<1> DEFINE e == Put(d, offset, items)
<1>1. e \in Seq(ItemType)
      /\ Len(e) = IF offset + Len(items) > Len(d) THEN offset + Len(items) ELSE Len(d)
  BY PutType, Zenon
<1>2. /\ offset <= offset /\ offset < offset + Len(items) =>
            At(e, offset) = items[offset - offset + 1]
  BY PutAt, Zenon
<1>3. ASSUME NEW i \in Nat, i < Len(d), i # offset
      PROVE  At(e, i) = At(d, i)
  <2>1. i < offset \/ offset + Len(items) <= i
    BY <1>3
  <2> QED
    BY <1>3, <2>1, PutAt
<1> HIDE DEF e
<1>4. offset < offset + Len(items) /\ offset <= offset /\ offset - offset + 1 = 1
  OBVIOUS
<1>5. At(e, offset) = items[1]
  BY <1>2, <1>4, Zenon
<1>6. Len(e) \in Nat /\ Len(d) <= Len(e) /\ offset < Len(e)
  BY <1>1
<1> QED
  BY <1>3, <1>5, <1>6, Zenon DEF e
=============================================================================
