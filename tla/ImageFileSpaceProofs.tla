------------------------ MODULE ImageFileSpaceProofs ------------------------
(***************************************************************************)
(* The theorems about the space of an ImageFile and what can be read of    *)
(* it, for any vectors, blobs, handles and sizes: allocateSpace hands out  *)
(* each offset once, so that sections do not overlap, a finished section   *)
(* never changes, a close that returns leaves a file that opens to the     *)
(* same tree, and what a tree refers to can be read from the file.         *)
(***************************************************************************)
EXTENDS ImageFileReadProofs

-----------------------------------------------------------------------------
(* The actions, of a file being written. *)

(***************************************************************************)
(* A packet is stored at unusedLogicalStart_, and the section of the       *)
(* writer starts where it did.                                             *)
(***************************************************************************)
LEMMA WriteSpace ==
  ASSUME TypeInv, TypeInv', SpaceInv, isWriter, NEW h \in Handle,
         Write(h) \/ WriteZeroRecords(h)
  PROVE  SpaceInv' /\ Keeps(tree, bytes, bytes')
<1> USE DEF TypeInv
<1> DEFINE w == handle[h]
           W == [kind : {"writer"}, isOpen : {TRUE}, cv : CV, start : Nat,
                 data : Nat, pending : Nat, count : Nat]
<1>1. /\ tree \in TreeType /\ bytes \in Seq(ItemType) /\ bytes' \in Seq(ItemType)
      /\ unused \in Nat /\ unused' \in Nat
  BY Zenon DEF TypeOK
<1>2. state = "open" /\ w \in W
  BY WriterFields, Zenon DEF Write, WriteZeroRecords, WriterOpen
<1>3. UNCHANGED <<state, isWriter, tree>>
  BY Zenon DEF Write, WriteZeroRecords
<1>4. Layout(tree, bytes, unused)
  BY <1>2, Zenon DEF SpaceInv
<1>5. \/ handle' = [handle EXCEPT ![h].pending = @ + 1, ![h].count = @ + 1]
      \/ handle' = [handle EXCEPT ![h].pending = 0, ![h].count = @ + 1,
                                  ![h].data = FirstData(handle[h], unused)]
      \/ handle' = [handle EXCEPT ![h].pending = 0]
      \/ handle' = [handle EXCEPT ![h].data = unused]
      \/ handle' = handle
  BY Zenon DEF Write, WriteZeroRecords
<1>6. /\ w.kind = "writer" /\ w.isOpen /\ handle'[h].start = w.start
      /\ w.cv \in CV /\ w.pending \in Nat
      /\ \A g \in Handle : g # h => handle'[g] = handle[g]
  <2>2. w.kind = "writer" /\ w.isOpen /\ w.cv \in CV /\ w.pending \in Nat
    BY <1>2, Zenon
  <2>3. handle = [g \in Handle |-> handle[g]]
    BY Zenon DEF TypeOK
  <2>4. handle[h] = [kind |-> w.kind, isOpen |-> w.isOpen, cv |-> w.cv, start |-> w.start,
                     data |-> w.data, pending |-> w.pending, count |-> w.count]
    BY <1>2, Zenon
  <2>5. handle'[h].start = handle[h].start /\ \A g \in Handle : g # h => handle'[g] = handle[g]
    <3>1. CASE handle' = [handle EXCEPT ![h].pending = @ + 1, ![h].count = @ + 1]
      BY <2>3, <2>4, <3>1, Zenon
    <3>2. CASE handle' = [handle EXCEPT ![h].pending = 0, ![h].count = @ + 1,
                                  ![h].data = FirstData(handle[h], unused)]
      BY <2>3, <2>4, <3>2, Zenon
    <3>3. CASE handle' = [handle EXCEPT ![h].pending = 0]
      BY <2>3, <2>4, <3>3, Zenon
    <3>4. CASE handle' = [handle EXCEPT ![h].data = unused]
      BY <2>3, <2>4, <3>4, Zenon
    <3>5. CASE handle' = handle
      BY <2>3, <2>4, <3>5, Zenon
    <3> QED
      BY <1>5, <3>1, <3>2, <3>3, <3>4, <3>5, Zenon
  <2> QED
    BY <2>2, <2>5, Zenon
<1>7. unused' \in {unused, unused + 1}
  BY Zenon DEF Write, WriteZeroRecords
<1>8. \/ bytes' = bytes
      \/ bytes' = Put(bytes, unused, <<PacketItem(w.cv, w.pending + 1)>>)
      \/ bytes' = Put(bytes, unused, <<PacketItem(w.cv, 0)>>)
  BY Zenon DEF Write, WriteZeroRecords
<1>9. Keeps(tree, bytes, bytes')
  <2>1. CASE bytes' = bytes
    BY <1>1, <2>1, SeqLength DEF Keeps
  <2>2. ASSUME NEW n \in Nat, bytes' = Put(bytes, unused, <<PacketItem(w.cv, n)>>)
        PROVE  Keeps(tree, bytes, bytes')
    <3>1. w.cv \in CV
      BY <1>6, Zenon
    <3> HIDE DEF w
    <3>2. PacketItem(w.cv, n) \in ItemType
      BY <3>1, Zenon DEF PacketItem, ItemType
    <3>3. <<PacketItem(w.cv, n)>> \in Seq(ItemType)
      BY <3>2
    <3> QED
      BY <1>1, <1>4, <2>2, <3>3, PutAtEnd, Zenon
  <2>3. w.pending + 1 \in Nat /\ 0 \in Nat
    <3> HIDE DEF w
    <3> QED
      BY <1>6
  <2> QED
    BY <1>8, <2>1, <2>2, <2>3, Zenon
<1>10. unused <= unused' /\ state' # "none"
  BY <1>1, <1>2, <1>3, <1>7
<1>11. \A g \in Handle : handle'[g].kind = "writer" /\ handle'[g].isOpen =>
         /\ handle[g].kind = "writer" /\ handle[g].isOpen
         /\ handle'[g].start = handle[g].start
  BY <1>6, Zenon
<1> HIDE DEF w, W
<1> QED
  BY <1>2, <1>3, <1>9, <1>10, <1>11, QuietStep, Zenon

(***************************************************************************)
(* Closing a writer appends its last packets, and stores the header of its *)
(* section in front of them; the section is then one of the finished ones, *)
(* and ends at unusedLogicalStart_.                                        *)
(***************************************************************************)
LEMMA CloseWriterSpace ==
  ASSUME TypeInv, TypeInv', CountInv, SpaceInv, isWriter,
         NEW h \in Handle, NEW gone \in BOOLEAN, CloseWriter(h, gone)
  PROVE  SpaceInv' /\ Keeps(tree, bytes, bytes')
<1> USE DEF TypeInv
<1> DEFINE w == handle[h]
           W == [kind : {"writer"}, isOpen : {TRUE}, cv : CV, start : Nat,
                 data : Nat, pending : Nat, count : Nat]
           items == Append(IF w.pending > 0 THEN <<PacketItem(w.cv, w.pending)>>
                           ELSE <<>>, IndexItem(w.cv))
           end == unused + Len(items)
           data == IF w.pending > 0 THEN FirstData(w, unused) ELSE w.data
           header == SectionItem(w.cv, end - w.start, data)
<1>1. /\ tree \in TreeType /\ bytes \in Seq(ItemType) /\ bytes' \in Seq(ItemType)
      /\ unused \in Nat /\ unused' \in Nat /\ tree' \in TreeType
  BY Zenon DEF TypeOK
<1>2. WriterOpen(h) /\ Leave(h, gone) /\ state = "open" /\ UNCHANGED <<state, isWriter>>
  BY Zenon DEF CloseWriter, WriterOpen
<1>3. w \in W
  BY <1>2, WriterFields, Zenon DEF WriterOpen
<1>4. \/ /\ unused' = end
         /\ bytes' = Put(Put(bytes, unused, items), w.start, <<header>>)
         /\ tree' = [tree EXCEPT !.cv[w.cv] = [start |-> w.start, count |-> w.count]]
      \/ \E k \in 0 .. Len(items) :
           /\ unused' = IF k = Len(items) THEN end ELSE unused + k + 1
           /\ bytes' = Put(bytes, unused, SubSeq(items, 1, k))
           /\ UNCHANGED tree
  BY Zenon DEF CloseWriter
<1>5. items \in Seq(ItemType) /\ Len(items) \in Nat
  <2>1. w.cv \in CV /\ w.pending \in Nat
    BY <1>3, Zenon
  <2> HIDE DEF w
  <2> QED
    BY <2>1, CloseItems, Zenon
<1>6. /\ Layout(tree, bytes, unused)
      /\ HeaderSize <= w.start /\ w.start < unused
      /\ Below(tree, bytes, w.start)
  BY <1>2, Zenon DEF SpaceInv, WritersLast, WriterOpen
<1>7. \A g \in Handle : ~handle'[g].isOpen
  <2>1. \A g \in Handle : g # h => ~handle[g].isOpen
    BY <1>2, Zenon DEF CountInv, OneAtATime, WriterOpen
  <2> QED
    BY <1>2, <2>1, LeaveType, Zenon
<1>8. w.cv \in CV /\ w.start \in Nat /\ w.count \in Nat /\ data \in Nat
  BY <1>1, <1>3, Zenon DEF FirstData
<1> HIDE DEF items, data, w, W
<1>9. end \in Nat /\ end - w.start \in Nat /\ w.start < end /\ unused <= end
  BY <1>1, <1>5, <1>6, <1>8
<1>10. <<header>> \in Seq(ItemType) /\ Len(<<header>>) = 1
  BY <1>8, <1>9, SectionItemType, Zenon
<1>11. CASE /\ unused' = end
            /\ bytes' = Put(Put(bytes, unused, items), w.start, <<header>>)
            /\ tree' = [tree EXCEPT !.cv[w.cv] = [start |-> w.start, count |-> w.count]]
  <2> DEFINE e == Put(bytes, unused, items)
  <2>1. /\ e \in Seq(ItemType) /\ Keeps(tree, bytes, e)
        /\ end <= Len(e) /\ Len(e) \in Nat
    <3>1. e \in Seq(ItemType) /\ Len(e) = IF end > Len(bytes) THEN end ELSE Len(bytes)
      BY <1>1, <1>5, PutType, Zenon
    <3>2. Keeps(tree, bytes, e)
      BY <1>1, <1>5, <1>6, AllocatedPutKeeps
    <3> QED
      BY <1>1, <1>9, <3>1, <3>2, SeqLength
  <2> HIDE DEF e
  <2>2. bytes' = Put(e, w.start, <<header>>)
    BY <1>11, Zenon DEF e
  <2>3. /\ Layout(tree, e, unused) /\ Below(tree, e, w.start)
    BY <1>1, <1>6, <1>8, <2>1, LayoutKept
  <2>4. Keeps(tree, e, bytes')
    <3>1. \A c \in Finished(tree) : After(tree, e, c) <= w.start
      BY <2>3, Zenon DEF Below
    <3> QED
      BY <1>1, <1>8, <1>10, <2>1, <2>2, <2>3, <3>1, PutKeeps, Zenon DEF Layout
  <2>5. Keeps(tree, bytes, bytes')
    BY <1>1, <1>6, <2>1, <2>4, KeepsTwice, Zenon DEF Layout
  <2>6. Layout(tree, bytes', unused) /\ Below(tree, bytes', w.start)
    BY <1>1, <1>6, <1>8, <2>5, LayoutKept
  <2>7. At(bytes', w.start) = header /\ end <= Len(bytes') /\ Len(bytes') \in Nat
    <3>1. w.start <= w.start /\ w.start < w.start + 1 /\ w.start - w.start + 1 = 1
      BY <1>8
    <3>2. At(Put(e, w.start, <<header>>), w.start) = <<header>>[1]
      <4> DEFINE hs == <<header>>
      <4>1. hs \in Seq(ItemType) /\ Len(hs) = 1
        BY <1>10, Zenon
      <4> HIDE DEF hs
      <4>2. At(Put(e, w.start, hs), w.start) = hs[w.start - w.start + 1]
        BY <1>8, <2>1, <3>1, <4>1, PutAt
      <4> QED
        BY <3>1, <4>2, Zenon DEF hs
    <3>3. <<header>>[1] = header
      BY Zenon
    <3>4. end <= Len(bytes') /\ Len(bytes') \in Nat
      BY <1>1, <1>9, <2>1, <2>4, SeqLength DEF Keeps
    <3> QED
      BY <2>2, <3>2, <3>3, <3>4, Zenon
  <2>8. /\ tree'.cv = [tree.cv EXCEPT ![w.cv] = [start |-> w.start, count |-> w.count]]
        /\ tree'.blob = tree.blob /\ tree.cv \in [CV -> [start : Nat, count : Nat]]
    BY <1>1, <1>11, Zenon DEF TreeType
  <2>9. w.start # 0
    BY <1>6, <1>8 DEF HeaderSize
  <2>10. /\ First(tree', w.cv) = w.start
         /\ After(tree', bytes', w.cv) = end
         /\ \A c \in Finished(tree) \ {w.cv} :
              /\ First(tree', c) = First(tree, c)
              /\ After(tree', bytes', c) = After(tree, bytes', c)
    <3>1. header.length = end - w.start
      BY Zenon DEF SectionItem
    <3>2. tree'.cv[w.cv].start = w.start
      BY <1>8, <2>8
    <3>3. \A c \in Finished(tree) \ {w.cv} : tree'.cv[c] = tree.cv[c]
      BY <2>8, Zenon DEF Finished
    <3>4. w.start + (end - w.start) = end
      BY <1>8, <1>9
    <3> HIDE DEF header, end
    <3> QED
      BY <2>7, <3>1, <3>2, <3>3, <3>4, Zenon DEF First, After
  <2>11. Finished(tree') = Finished(tree) \cup {w.cv}
    BY <1>8, <2>8, <2>9 DEF Finished
  <2>12. /\ Created(tree') = Created(tree)
         /\ \A b \in Created(tree) : AfterBlob(tree', b) = AfterBlob(tree, b)
    BY <2>8, Zenon DEF Created, AfterBlob
  <2>13. /\ \A c \in Finished(tree) : After(tree, bytes', c) \in Nat
                                      /\ After(tree, bytes', c) <= w.start
         /\ \A b \in Created(tree) : AfterBlob(tree, b) \in Nat /\ AfterBlob(tree, b) <= w.start
    BY <1>1, <2>6, SectionNumbers, BlobNumbers, Zenon DEF Layout, Below
  <2>14. SectionsOK(tree', bytes')
    <3>1. SectionsOK(tree, bytes')
      BY <2>6, Zenon DEF Layout
    <3>2. header.what = "section"
      BY Zenon DEF SectionItem
    <3> HIDE DEF header
    <3>3. /\ First(tree', w.cv) < Len(bytes')
          /\ At(bytes', First(tree', w.cv)).what = "section"
          /\ First(tree', w.cv) < After(tree', bytes', w.cv)
          /\ After(tree', bytes', w.cv) <= Len(bytes')
      BY <1>8, <1>9, <2>7, <2>10, <3>2
    <3> QED
      BY <2>10, <2>11, <3>1, <3>3, Zenon DEF SectionsOK
  <2> HIDE DEF header, end
  <2>15. Below(tree', bytes', unused')
    BY <1>8, <1>9, <1>11, <2>10, <2>11, <2>12, <2>13 DEF Below
  <2>16. AllApart(tree', bytes')
    <3>1. AllApart(tree, bytes')
      BY <2>6, Zenon DEF Layout
    <3>2. \A c \in Finished(tree'), b \in Created(tree') :
            Apart(First(tree', c), After(tree', bytes', c), tree'.blob[b], AfterBlob(tree', b))
      <4> TAKE c \in Finished(tree'), b \in Created(tree')
      <4>1. /\ b \in Created(tree)
            /\ tree'.blob[b] = tree.blob[b] /\ AfterBlob(tree', b) = AfterBlob(tree, b)
        BY <2>8, <2>12, Zenon
      <4>2. CASE c = w.cv
        <5>1. AfterBlob(tree, b) <= w.start
          BY <2>13, <4>1, Zenon
        <5> QED
          BY <2>10, <4>1, <4>2, <5>1, Zenon DEF Apart
      <4>3. CASE c # w.cv
        <5>1. c \in Finished(tree) \ {w.cv}
          BY <2>11, <4>3, Zenon
        <5>2. Apart(First(tree, c), After(tree, bytes', c), tree.blob[b], AfterBlob(tree, b))
          BY <3>1, <4>1, <5>1, Zenon DEF AllApart
        <5>3. First(tree', c) = First(tree, c) /\ After(tree', bytes', c) = After(tree, bytes', c)
          BY <2>10, <5>1, Zenon
        <5> QED
          BY <4>1, <5>2, <5>3, Zenon
      <4> QED
        BY <4>2, <4>3, Zenon
    <3>3. \A c1, c2 \in Finished(tree') :
            c1 # c2 => Apart(First(tree', c1), After(tree', bytes', c1),
                             First(tree', c2), After(tree', bytes', c2))
      BY <2>10, <2>11, <2>13, <3>1, Zenon DEF AllApart, Apart
    <3>4. \A b1, b2 \in Created(tree') :
            b1 # b2 => Apart(tree'.blob[b1], AfterBlob(tree', b1),
                             tree'.blob[b2], AfterBlob(tree', b2))
      <4> TAKE b1, b2 \in Created(tree')
      <4>1. /\ b1 \in Created(tree) /\ b2 \in Created(tree)
            /\ tree'.blob[b1] = tree.blob[b1] /\ AfterBlob(tree', b1) = AfterBlob(tree, b1)
            /\ tree'.blob[b2] = tree.blob[b2] /\ AfterBlob(tree', b2) = AfterBlob(tree, b2)
        BY <2>8, <2>12, Zenon
      <4>2. b1 # b2 => Apart(tree.blob[b1], AfterBlob(tree, b1),
                             tree.blob[b2], AfterBlob(tree, b2))
        BY <3>1, <4>1, Zenon DEF AllApart
      <4> QED
        BY <4>1, <4>2, Zenon
    <3> QED
      BY <3>2, <3>3, <3>4, Zenon DEF AllApart
  <2>17. IsFiniteSet(Finished(tree')) /\ IsFiniteSet(Created(tree'))
    BY <2>6, <2>11, <2>12, FS_AddElement, Zenon DEF Layout
  <2>18. HeaderSize <= unused'
    BY <1>1, <1>9, <1>11, <2>6 DEF Layout, HeaderSize
  <2>19. Layout(tree', bytes', unused')
    BY <2>14, <2>15, <2>16, <2>17, <2>18, Zenon DEF Layout
  <2>20. WritersLast(tree', bytes', handle', unused')
    BY <1>7, Zenon DEF WritersLast
  <2> QED
    BY <1>2, <2>5, <2>19, <2>20, Zenon DEF SpaceInv
<1>12. ASSUME NEW k \in 0 .. Len(items),
              unused' = IF k = Len(items) THEN end ELSE unused + k + 1,
              bytes' = Put(bytes, unused, SubSeq(items, 1, k)),
              UNCHANGED tree
       PROVE  SpaceInv' /\ Keeps(tree, bytes, bytes')
  <2>1. k \in Nat /\ k <= Len(items)
    BY <1>5, <1>12
  <2>2. \A i \in 1 .. k : items[i] \in ItemType
    BY <1>5, <2>1, SeqElement
  <2>3. SubSeq(items, 1, k) \in Seq(ItemType)
    BY <1>5, <2>1, <2>2, SeqPrefix, Zenon
  <2>4. Keeps(tree, bytes, bytes')
    BY <1>1, <1>6, <1>12, <2>3, PutAtEnd, Zenon
  <2>5. unused <= unused' /\ state' # "none"
    BY <1>1, <1>2, <1>9, <1>12, <2>1
  <2> QED
    BY <1>2, <1>7, <1>12, <2>4, <2>5, QuietStep, Zenon
<1> QED
  BY <1>4, <1>11, <1>12, Zenon

(***************************************************************************)
(* The file header goes to offset 0, below all sections and the XML.       *)
(***************************************************************************)
LEMMA HeaderStoredKeeps ==
  ASSUME TypeOK, Layout(tree, bytes, unused)
  PROVE  LET d == XmlStored(XmlSize)
         IN  /\ HeaderStored \in Seq(ItemType)
             /\ Keeps(tree, bytes, HeaderStored)
             /\ Len(HeaderStored) = Len(d)
             /\ At(HeaderStored, 0) = HeaderItem(unused, Pages(d))
             /\ \A i \in Nat \ {0} : i < Len(d) => At(HeaderStored, i) = At(d, i)
<1> DEFINE d == XmlStored(XmlSize)
           header == HeaderItem(unused, Pages(d))
           items == <<header>>
<1>1. unused \in Nat /\ tree \in TreeType /\ bytes \in Seq(ItemType) /\ HeaderSize <= unused
  BY Zenon DEF TypeOK, Layout
<1>2. XmlSize \in 0 .. XmlSize /\ XmlSize \in Nat \ {0}
  BY SizeAssumption
<1>3. d \in Seq(ItemType) /\ Keeps(tree, bytes, d) /\ unused + XmlSize <= Len(d)
  BY <1>2, XmlStoredKeeps, Zenon
<1>4. HeaderStored = Put(d, 0, items)
  BY Zenon DEF HeaderStored
<1> HIDE DEF d
<1>5. header \in ItemType
  BY <1>1, <1>3, PagesType, Zenon DEF HeaderItem, ItemType
<1> HIDE DEF header
<1>6. items \in Seq(ItemType) /\ Len(items) = 1 /\ items[1] = header
  BY <1>5
<1> HIDE DEF items
<1>7. Len(d) \in Nat /\ 1 < Len(d) /\ 0 \in Nat
  BY <1>1, <1>2, <1>3, SeqLength DEF HeaderSize
<1>8. HeaderStored \in Seq(ItemType) /\ Len(HeaderStored) = Len(d)
  BY <1>3, <1>4, <1>6, <1>7, PutType
<1>9. At(HeaderStored, 0) = header
  <2>1. 0 <= 0 /\ 0 < 0 + Len(items) /\ 0 - 0 + 1 = 1
    BY <1>6
  <2>2. At(HeaderStored, 0) = items[0 - 0 + 1]
    BY <1>3, <1>4, <1>6, <1>7, <2>1, PutAt, Zenon
  <2> QED
    BY <1>6, <2>1, <2>2, Zenon
<1>10. \A i \in Nat \ {0} : i < Len(d) => At(HeaderStored, i) = At(d, i)
  <2> TAKE i \in Nat \ {0}
  <2> HAVE i < Len(d)
  <2>1. ASSUME NEW offset \in Nat, offset = 0
        PROVE  At(Put(d, offset, items), i) = At(d, i)
    <3>1. d \in Seq(ItemType) /\ items \in Seq(ItemType) /\ i \in Nat
      BY <1>3, <1>6, Zenon
    <3>2. i < Len(d) /\ (i < offset \/ offset + Len(items) <= i)
      BY <1>6, <2>1
    <3> QED
      BY <3>1, <3>2, PutAt
  <2> QED
    BY <1>4, <1>7, <2>1, Zenon
<1>11. Keeps(tree, bytes, HeaderStored)
  <2>1. SectionsOK(tree, bytes) /\ SectionsOK(tree, d)
    BY <1>1, <1>3, KeptSections, Zenon DEF Layout
  <2>2. \A c \in Finished(tree) : 0 + Len(items) <= First(tree, c)
    BY <1>1, <1>3, <1>6, <2>1, SectionNumbers
  <2>3. Keeps(tree, d, HeaderStored)
    BY <1>1, <1>3, <1>4, <1>6, <1>7, <2>1, <2>2, PutKeeps, Zenon
  <2> QED
    BY <1>1, <1>3, <1>8, <2>1, <2>3, KeepsTwice, Zenon
<1> QED
  BY <1>8, <1>9, <1>10, <1>11, Zenon DEF d, header

(***************************************************************************)
(* Closing the ImageFile leaves the sections as they are, wherever it      *)
(* stops.                                                                  *)
(***************************************************************************)
LEMMA CloseSpace ==
  ASSUME TypeInv, TypeInv', SpaceInv, isWriter, close
  PROVE  SpaceInv' /\ Keeps(tree, bytes, bytes')
<1> USE DEF TypeInv
<1>1. state = "open" /\ state' # "none" /\ UNCHANGED <<isWriter, unused, tree, handle>>
  BY Zenon DEF close
<1>2. Layout(tree, bytes, unused)
  BY <1>1, Zenon DEF SpaceInv
<1>3. bytes' = HeaderStored \/ \E k \in 0 .. XmlSize : bytes' = XmlStored(k)
  BY Zenon DEF close
<1>4. Keeps(tree, bytes, bytes')
  BY <1>2, <1>3, XmlStoredKeeps, HeaderStoredKeeps, Zenon
<1>5. unused <= unused'
  BY <1>1 DEF TypeOK
<1> QED
  BY <1>1, <1>4, <1>5, QuietStep, Zenon

-----------------------------------------------------------------------------
(* All steps. *)

(***************************************************************************)
(* Only a file being written has an open writer.                           *)
(***************************************************************************)
WritersWrite ==
  \A h \in Handle : handle[h].kind = "writer" /\ handle[h].isOpen => isWriter

(***************************************************************************)
(* WritersWrite is inductive: only CompressedVectorNodeImpl::writer opens a *)
(* writer, and it requires a file being written.                           *)
(***************************************************************************)
LEMMA WritersWriteInductive ==
  /\ Init => WritersWrite
  /\ TypeOK /\ WritersWrite /\ [Next]_vars => WritersWrite'
<1>0. ~NoHandle.isOpen
  BY HandleTypeClosed, Zenon DEF NoHandle
<1>1. ASSUME Init
      PROVE  WritersWrite
  BY <1>0, <1>1, Zenon DEF Init, WritersWrite
<1>2. ASSUME TypeOK, WritersWrite, [Next]_vars
      PROVE  WritersWrite'
  <2>1. CASE OpenWrite \/ OpenRead \/ DestroyImageFile \/ Crash
    BY <1>0, <2>1, Zenon DEF OpenWrite, OpenRead, DestroyImageFile, Crash, Reset, WritersWrite
  <2>2. ASSUME NEW b \in Blob, NewBlob(b) \/ BlobWrite(b)
        PROVE  WritersWrite'
    BY <1>2, <2>2 DEF NewBlob, BlobWrite, memory, WritersWrite
  <2>3. ASSUME NEW h \in Handle, NEW cv \in CV, NewWriter(h, cv)
        PROVE  WritersWrite'
    BY <2>3, Zenon DEF NewWriter, WritersWrite
  <2>4. ASSUME NEW h \in Handle, NEW cv \in CV, NewReader(h, cv)
        PROVE  WritersWrite'
    <3>1. handle'[h].kind = "reader" /\ \A g \in Handle : g # h => handle'[g] = handle[g]
      BY <1>2, <2>4, Zenon DEF NewReader, TypeOK
    <3> QED
      BY <1>2, <2>4, <3>1, Zenon DEF NewReader, WritersWrite
  <2>5. ASSUME NEW h \in Handle, Write(h) \/ WriteZeroRecords(h)
        PROVE  WritersWrite'
    <3>1. isWriter /\ isWriter' = isWriter
      BY <1>2, <2>5, Zenon DEF Write, WriteZeroRecords, WriterOpen, WritersWrite
    <3> QED
      BY <3>1, Zenon DEF WritersWrite
  <2>6. ASSUME NEW h \in Handle, NEW gone \in BOOLEAN, Leave(h, gone), isWriter' = isWriter
        PROVE  WritersWrite'
    <3>1. ~handle'[h].isOpen /\ \A g \in Handle : g # h => handle'[g] = handle[g]
      BY <1>2, <2>6, LeaveType, Zenon
    <3> QED
      BY <1>2, <2>6, <3>1, Zenon DEF WritersWrite
  <2>7. CASE close \/ cancel \/ UNCHANGED vars
    BY <1>2, <2>7, SMTT(30) DEF close, cancel, vars, memory, WritersWrite
  <2>8. ASSUME NEW h \in Handle, NEW gone \in BOOLEAN,
               CloseWriter(h, gone) \/ CloseReader(h, gone)
        PROVE  WritersWrite'
    BY <2>6, <2>8, Zenon DEF CloseWriter, CloseReader
  <2>9. ASSUME NEW h \in Handle, Destroy(h)
        PROVE  WritersWrite'
    BY <2>6, <2>9, Zenon DEF Destroy
  <2> QED
    BY <1>2, <2>1, <2>2, <2>3, <2>4, <2>5, <2>7, <2>8, <2>9, Zenon DEF Next
<1> QED
  BY <1>1, <1>2, Zenon

(***************************************************************************)
(* What FinishedStays says of a step.                                      *)
(***************************************************************************)
StaysStep ==
  \A cv \in CV :
    tree.cv[cv].start # 0 /\ state' # "none" /\ exists' =>
      \A i \in 0 .. At(bytes, tree.cv[cv].start).length - 1 :
        At(bytes', tree.cv[cv].start + i) = At(bytes, tree.cv[cv].start + i)

(***************************************************************************)
(* A step that keeps the finished sections is one of FinishedStays.        *)
(***************************************************************************)
LEMMA KeepsStays ==
  Keeps(tree, bytes, bytes') \/ bytes' = bytes => StaysStep
BY Zenon DEF Keeps, Finished, First, StaysStep

(***************************************************************************)
(* The steps that store nothing: of readers, of handles closed already,    *)
(* and of a file that is not being written.                                *)
(***************************************************************************)
LEMMA StoresNothing ==
  ASSUME TypeOK, TypeOK', SpaceInv, bytes' = bytes,
         UNCHANGED <<state, isWriter, tree>>, unused <= unused',
         \A h \in Handle : isWriter /\ handle'[h].kind = "writer" /\ handle'[h].isOpen =>
           handle'[h] = handle[h]
  PROVE  SpaceInv' /\ StaysStep
<1>1. StaysStep
  BY KeepsStays, Zenon
<1>2. CASE state = "open" /\ isWriter
  <2>1. Keeps(tree, bytes, bytes')
    BY SeqLength DEF Keeps, TypeOK
  <2>2. \A h \in Handle : handle'[h].kind = "writer" /\ handle'[h].isOpen =>
          /\ handle[h].kind = "writer" /\ handle[h].isOpen
          /\ handle'[h].start = handle[h].start
    BY <1>2, Zenon
  <2>3. state' # "none" /\ isWriter' = isWriter /\ tree' = tree
    BY <1>2, Zenon
  <2> QED
    BY <1>1, <1>2, <2>1, <2>2, <2>3, QuietStep, Zenon
<1>3. CASE ~(state = "open" /\ isWriter)
  BY <1>1, <1>3, Zenon DEF SpaceInv
<1> QED
  BY <1>2, <1>3, Zenon

(***************************************************************************)
(* Every step keeps the layout, and the finished sections.                 *)
(***************************************************************************)
LEMMA StepSpace ==
  ASSUME TypeInv, TypeInv', CountInv, WritersWrite, SpaceInv, [Next]_vars
  PROVE  SpaceInv' /\ StaysStep
<1> USE DEF TypeInv
<1>1. CASE OpenWrite
  <2>1. /\ state = "none" /\ tree = NoTree /\ tree' = NoTree /\ unused' = HeaderSize
        /\ state' = "open" /\ handle' = [h \in Handle |-> NoHandle]
    BY <1>1, Zenon DEF OpenWrite, Reset, SpaceInv
  <2>2. /\ \A c \in CV : NoTree.cv[c].start = 0
        /\ Finished(NoTree) = {} /\ Created(NoTree) = {}
    BY Zenon DEF NoTree, Finished, Created
  <2>3. Layout(tree', bytes', unused')
    <3>1. SectionsOK(NoTree, bytes') /\ Below(NoTree, bytes', unused') /\ AllApart(NoTree, bytes')
      BY <2>2, Zenon DEF SectionsOK, Below, AllApart
    <3>2. IsFiniteSet(Finished(NoTree)) /\ IsFiniteSet(Created(NoTree))
      BY <2>2, FS_EmptySet, Zenon
    <3>3. HeaderSize <= HeaderSize
      BY DEF HeaderSize
    <3> QED
      BY <2>1, <3>1, <3>2, <3>3, Zenon DEF Layout
  <2>4. ~NoHandle.isOpen
    BY HandleTypeClosed, Zenon DEF NoHandle
  <2>5. WritersLast(tree', bytes', handle', unused')
    BY <2>1, <2>4, Zenon DEF WritersLast
  <2>6. StaysStep
    BY <2>1, <2>2, Zenon DEF StaysStep
  <2> QED
    BY <2>1, <2>3, <2>5, <2>6, Zenon DEF SpaceInv
<1>2. CASE OpenRead
  <2>1. bytes' = bytes /\ state' = "open" /\ isWriter' = FALSE
    BY <1>2, Zenon DEF OpenRead, Reset
  <2> QED
    BY <2>1, KeepsStays, Zenon DEF SpaceInv
<1>3. CASE DestroyImageFile \/ Crash
  <2>1. state' = "none" /\ tree' = NoTree
    BY <1>3, Zenon DEF DestroyImageFile, Crash, Reset
  <2> QED
    BY <2>1, Zenon DEF SpaceInv, StaysStep
<1>4. CASE cancel
  <2>1. state' = "closed" /\ (exists' = FALSE \/ bytes' = bytes)
    BY <1>4, Zenon DEF cancel, Unlinked
  <2>2. StaysStep
    BY <2>1, KeepsStays, Zenon DEF StaysStep
  <2> QED
    BY <2>1, <2>2, Zenon DEF SpaceInv
<1>5. CASE close
  <2>1. CASE isWriter
    BY <1>5, <2>1, CloseSpace, KeepsStays, Zenon
  <2>2. CASE ~isWriter
    <3>1. bytes' = bytes /\ isWriter' = FALSE /\ state' = "closed"
      BY <1>5, <2>2, Zenon DEF close, TypeOK
    <3> QED
      BY <3>1, KeepsStays, Zenon DEF SpaceInv
  <2> QED
    BY <2>1, <2>2, Zenon
<1>6. ASSUME NEW b \in Blob, OpenHandles("writer") = {}, NewBlob(b)
      PROVE  SpaceInv' /\ StaysStep
  <2>1. CASE isWriter
    BY <1>6, <2>1, NewBlobSpace, KeepsStays, Zenon
  <2>2. CASE ~isWriter
    <3>1. bytes' = bytes /\ isWriter' = isWriter /\ state' = state /\ state = "open"
      BY <1>6, <2>2, Zenon DEF NewBlob, Extends, MayAllocate
    <3> QED
      BY <2>2, <3>1, KeepsStays, Zenon DEF SpaceInv
  <2> QED
    BY <2>1, <2>2, Zenon
<1>7. ASSUME NEW b \in Blob, BlobWrite(b)
      PROVE  SpaceInv' /\ StaysStep
  BY <1>7, BlobWriteSpace, KeepsStays, Zenon
<1>8. ASSUME NEW h \in Handle, NEW cv \in CV, NewWriter(h, cv)
      PROVE  SpaceInv' /\ StaysStep
  BY <1>8, NewWriterSpace, KeepsStays, Zenon
<1>9. ASSUME NEW h \in Handle, Write(h) \/ WriteZeroRecords(h)
      PROVE  SpaceInv' /\ StaysStep
  <2>1. isWriter
    BY <1>9, Zenon DEF Write, WriteZeroRecords, WriterOpen, WritersWrite
  <2> QED
    BY <1>9, <2>1, WriteSpace, KeepsStays, Zenon
<1>10. ASSUME NEW h \in Handle, NEW gone \in BOOLEAN, CloseWriter(h, gone)
       PROVE  SpaceInv' /\ StaysStep
  <2>1. isWriter
    BY <1>10, Zenon DEF CloseWriter, WriterOpen, WritersWrite
  <2> QED
    BY <1>10, <2>1, CloseWriterSpace, KeepsStays, Zenon
<1>11. ASSUME bytes' = bytes, UNCHANGED <<state, isWriter, tree, unused>>,
              \A g \in Handle : handle'[g].kind = "writer" /\ handle'[g].isOpen =>
                handle'[g] = handle[g]
       PROVE  SpaceInv' /\ StaysStep
  <2>1. unused <= unused'
    BY <1>11 DEF TypeOK
  <2> QED
    BY <1>11, <2>1, StoresNothing, Zenon
<1>12. ASSUME NEW h \in Handle, NEW cv \in CV, NewReader(h, cv)
       PROVE  SpaceInv' /\ StaysStep
  <2>1. handle'[h].kind = "reader" /\ \A g \in Handle : g # h => handle'[g] = handle[g]
    BY <1>12, Zenon DEF NewReader, TypeOK
  <2> QED
    BY <1>11, <1>12, <2>1, Zenon DEF NewReader
<1>13. ASSUME NEW h \in Handle, NEW gone \in BOOLEAN, CloseReader(h, gone) \/ Destroy(h)
       PROVE  SpaceInv' /\ StaysStep
  <2>1. Leave(h, gone) \/ Leave(h, TRUE)
    BY <1>13, Zenon DEF CloseReader, Destroy
  <2>2. ~handle'[h].isOpen /\ \A g \in Handle : g # h => handle'[g] = handle[g]
    BY <2>1, LeaveType, Zenon
  <2> QED
    BY <1>11, <1>13, <2>2, Zenon DEF CloseReader, Destroy
<1>14. CASE UNCHANGED vars
  BY <1>11, <1>14, Zenon DEF vars, memory
<1> QED
  BY <1>1, <1>2, <1>3, <1>4, <1>5, <1>6, <1>7, <1>8, <1>9, <1>10, <1>12, <1>13, <1>14, Zenon
  DEF Next

(***************************************************************************)
(* All invariants together are inductive.                                  *)
(***************************************************************************)
LayoutInv == TypeInv /\ CountInv /\ WritersWrite /\ SpaceInv

(***************************************************************************)
(* LayoutInv holds initially; every step preserves it and leaves the       *)
(* finished sections alone.                                                *)
(***************************************************************************)
LEMMA LayoutInvInductive ==
  /\ Init => LayoutInv
  /\ LayoutInv /\ [Next]_vars => LayoutInv' /\ StaysStep
<1>1. Init => SpaceInv
  BY Zenon DEF Init, SpaceInv
<1>2. ASSUME LayoutInv, [Next]_vars
      PROVE  LayoutInv' /\ StaysStep
  <2>1. TypeInv' /\ CountInv' /\ WritersWrite'
    BY <1>2, TypeInvInductive, CountInvInductive, WritersWriteInductive, Zenon DEF LayoutInv, TypeInv
  <2>2. SpaceInv' /\ StaysStep
    BY <1>2, <2>1, StepSpace, Zenon DEF LayoutInv
  <2> QED
    BY <2>1, <2>2, Zenon DEF LayoutInv
<1> QED
  BY <1>1, <1>2, TypeInvInductive, CountInvInductive, WritersWriteInductive, Zenon DEF LayoutInv

-----------------------------------------------------------------------------
(***************************************************************************)
(* No step of a file being written changes a finished section: no later    *)
(* allocation, packet, blob or close stores into it, whatever throws.      *)
(***************************************************************************)
THEOREM FinishedSectionsStay == Spec => FinishedStays
<1>1. LayoutInv /\ [Next]_vars => [StaysStep]_vars
  BY LayoutInvInductive, Zenon
<1>2. Spec => [][StaysStep]_vars
  BY <1>1, LayoutInvInductive, PTL DEF Spec
<1> QED
  BY <1>2, Zenon DEF FinishedStays, StaysStep

(***************************************************************************)
(* What close has stored at the end opens, to the tree of the ImageFile.   *)
(***************************************************************************)
LEMMA ClosedOpens ==
  ASSUME TypeInv, SpaceInv, state = "open", isWriter
  PROVE  Opens(HeaderStored) /\ ParsedTree(HeaderStored) = tree
<1> USE DEF TypeInv
<1> DEFINE d == XmlStored(XmlSize)
           e == HeaderStored
<1>1. Layout(tree, bytes, unused) /\ unused \in Nat \ {0} /\ XmlSize \in Nat \ {0}
  BY SizeAssumption DEF SpaceInv, Layout, HeaderSize, TypeOK
<1>2. XmlSize \in 0 .. XmlSize
  BY <1>1
<1>3. /\ d \in Seq(ItemType) /\ unused + XmlSize <= Len(d)
      /\ \A i \in 0 .. XmlSize - 1 : At(d, unused + i) = XmlItem(tree, i)
  BY <1>1, <1>2, XmlStoredKeeps, Zenon
<1>4. /\ Len(e) = Len(d) /\ At(e, 0) = HeaderItem(unused, Pages(d))
      /\ \A i \in Nat \ {0} : i < Len(d) => At(e, i) = At(d, i)
  BY <1>1, HeaderStoredKeeps, Zenon
<1> HIDE DEF d, e
<1>5. Len(d) \in Nat /\ Len(e) >= HeaderSize
  BY <1>1, <1>3, <1>4, SeqLength DEF HeaderSize
<1>6. At(e, 0).what = "header" /\ At(e, 0).pages = Pages(e) /\ At(e, 0).xml = unused
  BY <1>4 DEF HeaderItem, Pages
<1>7. \A i \in 0 .. XmlSize - 1 : At(e, unused + i) = XmlItem(tree, i)
  <2> TAKE i \in 0 .. XmlSize - 1
  <2>1. unused + i \in Nat \ {0} /\ unused + i < Len(d)
    BY <1>1, <1>3, <1>5
  <2> QED
    BY <1>3, <1>4, <2>1, Zenon
<1>8. At(e, unused).tree = tree
  <2>1. 0 \in 0 .. XmlSize - 1 /\ unused + 0 = unused
    BY <1>1
  <2>2. At(e, unused) = XmlItem(tree, 0)
    BY <1>7, <2>1, Zenon
  <2> QED
    BY <2>2 DEF XmlItem
<1>9. \A i \in 0 .. XmlSize - 1 : XmlItem(tree, i).what = "xml"
  BY Zenon DEF XmlItem
<1>10. At(e, 0).xml + XmlSize <= Len(e)
  BY <1>3, <1>4, <1>6, Zenon
<1> QED
  BY <1>5, <1>6, <1>7, <1>8, <1>9, <1>10, Zenon DEF Opens, ParsedTree, e

(***************************************************************************)
(* When ImageFileImpl::close returns, the file on the disk opens, and parses *)
(* to the tree that was written, for any tree and any sizes.               *)
(***************************************************************************)
THEOREM CloseAccurate == Spec => CloseIsAccurate
<1> DEFINE AccurateStep == close /\ isWriter /\ state' = "closed" =>
                             Opens(bytes') /\ ParsedTree(bytes') = tree
<1>1. LayoutInv => AccurateStep
  <2> SUFFICES ASSUME LayoutInv, close, isWriter, state' = "closed"
               PROVE  Opens(bytes') /\ ParsedTree(bytes') = tree
    BY Zenon
  <2>1. state = "open" /\ bytes' = HeaderStored
    BY Zenon DEF close
  <2> QED
    BY <2>1, ClosedOpens, Zenon DEF LayoutInv
<1> HIDE DEF AccurateStep
<1>2. Spec => [][AccurateStep]_vars
  BY <1>1, LayoutInvInductive, PTL DEF Spec
<1> QED
  BY <1>2, Zenon DEF CloseIsAccurate, AccurateStep

-----------------------------------------------------------------------------
(* The spaces of SpaceDisjoint, and their number. *)

\* The sets of S are those of f, not empty and pairwise disjoint.
Family(I, S, f) ==
  /\ IsFiniteSet(I)
  /\ f \in [I -> S]
  /\ \A s \in S : \E a \in I : f[a] = s
  /\ \A a \in I : f[a] # {}
  /\ \A a, b \in I : a # b => f[a] \cap f[b] = {}

(***************************************************************************)
(* Sets that are not empty and pairwise disjoint are as many as their      *)
(* indices.                                                                *)
(***************************************************************************)
LEMMA FamilySize ==
  ASSUME NEW I, NEW S, NEW f, Family(I, S, f)
  PROVE  IsFiniteSet(S) /\ Cardinality(S) = Cardinality(I)
<1>1. \A a, b \in I : f[a] = f[b] => a = b
  BY Zenon DEF Family
<1>2. f \in Bijection(I, S)
  BY <1>1, Zenon DEF Family, Bijection, Injection, Surjection, IsInjective
<1>3. ExistsBijection(I, S) /\ IsFiniteSet(I)
  BY <1>2, Zenon DEF ExistsBijection, Family
<1> QED
  BY <1>3, FS_Bijection, Zenon

(***************************************************************************)
(* Three families of which no two share an element add up.                 *)
(***************************************************************************)
LEMMA ThreeFamilies ==
  ASSUME NEW S, NEW T, NEW U, IsFiniteSet(S), IsFiniteSet(T), IsFiniteSet(U),
         S \cap T = {}, (S \cup T) \cap U = {}
  PROVE  Cardinality(S \cup T \cup U) = Cardinality(S) + Cardinality(T) + Cardinality(U)
<1>1. /\ Cardinality(S) \in Nat /\ Cardinality(T) \in Nat /\ Cardinality(U) \in Nat
      /\ Cardinality({}) = 0
  BY FS_CardinalityType, FS_EmptySet, Zenon
<1>2. /\ IsFiniteSet(S \cup T)
      /\ Cardinality(S \cup T) = Cardinality(S) + Cardinality(T) - Cardinality({})
  BY FS_Union
<1>3. Cardinality((S \cup T) \cup U) = Cardinality(S \cup T) + Cardinality(U) - Cardinality({})
  BY <1>2, FS_Union
<1> QED
  BY <1>1, <1>2, <1>3

(***************************************************************************)
(* Extents that are apart share no offset.                                 *)
(***************************************************************************)
LEMMA ApartExtents ==
  ASSUME NEW start1 \in Nat, NEW end1 \in Nat, NEW start2 \in Nat, NEW end2 \in Nat,
         Apart(start1, end1, start2, end2)
  PROVE  (start1 .. end1 - 1) \cap (start2 .. end2 - 1) = {}
BY DEF Apart

(***************************************************************************)
(* The layout is what SpaceDisjoint says of the sets of offsets.           *)
(***************************************************************************)
LEMMA LayoutDisjoint ==
  ASSUME TypeInv, CountInv, SpaceInv
  PROVE  SpaceDisjoint
<1> USE DEF TypeInv
<1> SUFFICES ASSUME state = "open", isWriter
             PROVE  LET spaces == FinishedSpace(tree, bytes) \cup BlobSpace(tree)
                                    \cup OpenSpace
                        owners == Cardinality({c \in CV : tree.cv[c].start # 0})
                                    + Cardinality({b \in Blob : tree.blob[b] # 0})
                                    + Cardinality(OpenHandles("writer"))
                    IN  /\ \A s \in spaces : s \subseteq HeaderSize .. unused - 1
                        /\ \A s, r \in spaces : s # r => s \cap r = {}
                        /\ Cardinality(spaces) = owners
  BY Zenon DEF SpaceDisjoint
<1> DEFINE F == FinishedSpace(tree, bytes)
           B == BlobSpace(tree)
           O == OpenSpace
           Fs == Finished(tree)
           Bs == Created(tree)
           Os == OpenHandles("writer")
           f == [c \in Fs |-> First(tree, c) .. After(tree, bytes, c) - 1]
           g == [b \in Bs |-> tree.blob[b] .. AfterBlob(tree, b) - 1]
           o == [h \in Os |-> handle[h].start .. unused - 1]
<1>1. /\ tree \in TreeType /\ bytes \in Seq(ItemType) /\ unused \in Nat
      /\ Layout(tree, bytes, unused) /\ WritersLast(tree, bytes, handle, unused)
  BY Zenon DEF TypeOK, SpaceInv
<1>2. \A c \in Fs : /\ First(tree, c) \in Nat /\ After(tree, bytes, c) \in Nat
                    /\ HeaderSize <= First(tree, c)
                    /\ First(tree, c) < After(tree, bytes, c)
                    /\ After(tree, bytes, c) <= unused
  <2> TAKE c \in Fs
  <2>1. SectionsOK(tree, bytes) /\ Below(tree, bytes, unused)
    BY <1>1, Zenon DEF Layout
  <2>2. First(tree, c) \in Nat \ {0} /\ After(tree, bytes, c) \in Nat
    BY <1>1, <2>1, SectionNumbers, Zenon
  <2>3. First(tree, c) < After(tree, bytes, c) /\ After(tree, bytes, c) <= unused
    BY <2>1, Zenon DEF SectionsOK, Below
  <2>4. HeaderSize <= First(tree, c)
    BY <2>2 DEF HeaderSize
  <2> QED
    BY <2>2, <2>3, <2>4, Zenon
<1>3. \A b \in Bs : /\ tree.blob[b] \in Nat /\ AfterBlob(tree, b) \in Nat
                    /\ HeaderSize <= tree.blob[b]
                    /\ tree.blob[b] < AfterBlob(tree, b)
                    /\ AfterBlob(tree, b) <= unused
  <2> TAKE b \in Bs
  <2>1. tree.blob[b] \in Nat \ {0} /\ AfterBlob(tree, b) \in Nat
        /\ tree.blob[b] + 1 < AfterBlob(tree, b)
    BY <1>1, BlobNumbers, Zenon
  <2>2. AfterBlob(tree, b) <= unused
    BY <1>1, Zenon DEF Layout, Below
  <2>3. HeaderSize <= tree.blob[b] /\ tree.blob[b] < AfterBlob(tree, b)
    BY <2>1 DEF HeaderSize
  <2> QED
    BY <2>1, <2>2, <2>3, Zenon
<1>4. \A h \in Os : /\ handle[h].start \in Nat
                    /\ HeaderSize <= handle[h].start
                    /\ handle[h].start < unused
                    /\ \A c \in Fs : After(tree, bytes, c) <= handle[h].start
                    /\ \A b \in Bs : AfterBlob(tree, b) <= handle[h].start
  <2> TAKE h \in Os
  <2>1. h \in Handle /\ handle[h].kind = "writer" /\ handle[h].isOpen
    BY Zenon DEF OpenHandles
  <2>2. handle[h].start \in Nat
    BY <2>1, WriterFields, Zenon
  <2> QED
    BY <1>1, <2>1, <2>2, Zenon DEF WritersLast, Below
<1>5. \A h1, h2 \in Os : h1 = h2
  BY Zenon DEF OpenHandles, CountInv, OneAtATime
<1>6. F = {f[c] : c \in Fs}
  <2>1. \A c \in Fs : f[c] = tree.cv[c].start ..
                              tree.cv[c].start + At(bytes, tree.cv[c].start).length - 1
    <3> TAKE c \in Fs
    <3>1. f[c] = First(tree, c) .. After(tree, bytes, c) - 1
      BY Zenon
    <3>2. First(tree, c) = tree.cv[c].start
      BY Zenon DEF First
    <3>3. /\ After(tree, bytes, c) = tree.cv[c].start + At(bytes, tree.cv[c].start).length
          /\ tree.cv[c].start \in Nat /\ At(bytes, tree.cv[c].start).length \in Nat
      BY <1>1, <3>2, SectionNumbers, Zenon DEF After, Layout
    <3> DEFINE x == tree.cv[c].start
               y == At(bytes, x).length
    <3>4. x \in Nat /\ y \in Nat /\ After(tree, bytes, c) = x + y /\ First(tree, c) = x
      BY <3>2, <3>3, Zenon
    <3> HIDE DEF f, x, y
    <3>5. After(tree, bytes, c) - 1 = x + y - 1
      BY <3>4
    <3>6. f[c] = x .. x + y - 1
      BY <3>1, <3>4, <3>5, Zenon
    <3> QED
      BY <3>6, Zenon DEF x, y
  <2>2. F = {tree.cv[c].start .. tree.cv[c].start + At(bytes, tree.cv[c].start).length - 1 :
               c \in Fs}
    BY Zenon DEF FinishedSpace, Finished
  <2> HIDE DEF f, F, Fs
  <2> QED
    BY <2>1, <2>2, Zenon
<1>7. B = {g[b] : b \in Bs}
  <2>1. \A b \in Bs : AfterBlob(tree, b) - 1 = tree.blob[b] + BlobSize
    BY <1>3, SizeAssumption DEF AfterBlob, SectionHeaderSize
  <2>2. \A b \in Bs : g[b] = tree.blob[b] .. tree.blob[b] + BlobSize
    BY <2>1, Zenon
  <2>3. B = {tree.blob[b] .. tree.blob[b] + BlobSize : b \in Bs}
    BY Zenon DEF BlobSpace, Created
  <2> HIDE DEF g, B
  <2> QED
    BY <2>2, <2>3, Zenon
<1>8. O = {o[h] : h \in Os}
  BY Zenon DEF OpenSpace
<1>9. AllApart(tree, bytes)
  BY <1>1, Zenon DEF Layout
<1>10. \A c \in Fs : f[c] # {} /\ f[c] \subseteq HeaderSize .. unused - 1
  <2> TAKE c \in Fs
  <2>1. First(tree, c) \in f[c]
    BY <1>2
  <2> QED
    BY <1>1, <1>2, <2>1 DEF HeaderSize
<1>11. \A b \in Bs : g[b] # {} /\ g[b] \subseteq HeaderSize .. unused - 1
  <2> TAKE b \in Bs
  <2>1. tree.blob[b] \in g[b]
    BY <1>3
  <2> QED
    BY <1>1, <1>3, <2>1, SMTT(30) DEF HeaderSize
<1>12. \A h \in Os : o[h] # {} /\ o[h] \subseteq HeaderSize .. unused - 1
  <2> TAKE h \in Os
  <2> DEFINE n == handle[h].start
  <2>1. o[h] = n .. unused - 1
    BY Zenon
  <2>2. n \in Nat /\ HeaderSize <= n /\ n < unused /\ unused \in Nat
    BY <1>1, <1>4, Zenon
  <2> HIDE DEF n, o, Os
  <2>3. n \in n .. unused - 1
    BY <2>2
  <2>4. n .. unused - 1 \subseteq HeaderSize .. unused - 1
    BY <2>2 DEF HeaderSize
  <2> QED
    BY <2>1, <2>3, <2>4, Zenon
<1>13. \A c1, c2 \in Fs : c1 # c2 => f[c1] \cap f[c2] = {}
  BY <1>2, <1>9, ApartExtents, Zenon DEF AllApart
<1>14. \A b1, b2 \in Bs : b1 # b2 => g[b1] \cap g[b2] = {}
  BY <1>3, <1>9, ApartExtents, Zenon DEF AllApart
<1>15. \A c \in Fs, b \in Bs : f[c] \cap g[b] = {}
  BY <1>2, <1>3, <1>9, ApartExtents, Zenon DEF AllApart
<1>16. \A c \in Fs, h \in Os : f[c] \cap o[h] = {}
  BY <1>1, <1>2, <1>4, ApartExtents, Zenon DEF Apart
<1>17. \A b \in Bs, h \in Os : g[b] \cap o[h] = {}
  BY <1>1, <1>3, <1>4, ApartExtents, Zenon DEF Apart
<1>18. f \in [Fs -> F] /\ g \in [Bs -> B] /\ o \in [Os -> O]
  <2>1. f \in [Fs -> F]
    BY <1>6, Zenon
  <2>2. g \in [Bs -> B]
    <3> HIDE DEF B
    <3> QED
      BY <1>7, Zenon
  <2>3. o \in [Os -> O]
    BY <1>8, Zenon
  <2> QED
    BY <2>1, <2>2, <2>3, Zenon
<1>19. IsFiniteSet(Fs) /\ IsFiniteSet(Bs) /\ IsFiniteSet(Os)
  <2>1. Os = {} \/ \E h \in Os : Os = {h}
    BY <1>5, Zenon
  <2>2. IsFiniteSet(Os)
    BY <2>1, FS_EmptySet, FS_Singleton
  <2> QED
    BY <1>1, <2>2, Zenon DEF Layout
<1>20. /\ {c \in CV : tree.cv[c].start # 0} = Fs
       /\ {b \in Blob : tree.blob[b] # 0} = Bs
  BY Zenon DEF Finished, Created
<1> HIDE DEF F, B, O, Fs, Bs, Os, f, g, o
<1>21. /\ \A s \in F : \E c \in Fs : f[c] = s
       /\ \A s \in B : \E b \in Bs : g[b] = s
       /\ \A s \in O : \E h \in Os : o[h] = s
  BY <1>6, <1>7, <1>8, Zenon
<1>22. IsFiniteSet(F) /\ Cardinality(F) = Cardinality(Fs)
  <2>1. \A c \in Fs : f[c] # {}
    BY <1>10, Zenon
  <2>3. Family(Fs, F, f)
    BY <2>1, <1>13, <1>18, <1>19, <1>21, Zenon DEF Family
  <2> QED
    BY <2>3, FamilySize, Zenon
<1>23. IsFiniteSet(B) /\ Cardinality(B) = Cardinality(Bs)
  <2>1. \A b \in Bs : g[b] # {}
    BY <1>11, Zenon
  <2>3. Family(Bs, B, g)
    BY <2>1, <1>14, <1>18, <1>19, <1>21, Zenon DEF Family
  <2> QED
    BY <2>3, FamilySize, Zenon
<1>24. IsFiniteSet(O) /\ Cardinality(O) = Cardinality(Os)
  <2>1. \A h \in Os : o[h] # {}
    BY <1>12, Zenon
  <2>2. \A h1, h2 \in Os : h1 # h2 => o[h1] \cap o[h2] = {}
    BY <1>5, Zenon
  <2>3. Family(Os, O, o)
    BY <2>1, <2>2, <1>18, <1>19, <1>21, Zenon DEF Family
  <2> QED
    BY <2>3, FamilySize, Zenon
<1>25. \A s \in F, r \in B : s \cap r = {}
  BY <1>15, <1>21
<1>26. \A s \in F \cup B, r \in O : s \cap r = {}
  BY <1>16, <1>17, <1>21, SMTT(30)
<1>27. \A s \in F \cup B \cup O : s # {} /\ s \subseteq HeaderSize .. unused - 1
  BY <1>10, <1>11, <1>12, <1>21
<1>28. F \cap B = {} /\ (F \cup B) \cap O = {}
  BY <1>25, <1>26, <1>27
<1>29. /\ \A s, r \in F : s # r => s \cap r = {}
       /\ \A s, r \in B : s # r => s \cap r = {}
       /\ \A s, r \in O : s = r
  BY <1>5, <1>13, <1>14, <1>21
<1>30. \A s, r \in F \cup B \cup O : s # r => s \cap r = {}
  <2>1. \A s \in B, r \in F : s \cap r = {}
    BY <1>25, Zenon
  <2>2. \A s \in O, r \in F \cup B : s \cap r = {}
    BY <1>26, Zenon
  <2> QED
    BY <1>25, <1>26, <1>29, <2>1, <2>2
<1>31. Cardinality(F \cup B \cup O) = Cardinality(Fs) + Cardinality(Bs) + Cardinality(Os)
  BY <1>22, <1>23, <1>24, <1>28, ThreeFamilies
<1> QED
  BY <1>20, <1>27, <1>30, <1>31, Zenon DEF F, B, O, Os

(***************************************************************************)
(* The finished sections, the blobs and the section of an open writer of a *)
(* file being written share no offset with one another, with the file      *)
(* header, or with the space not yet allocated.                            *)
(***************************************************************************)
THEOREM SpaceNeverShared == Spec => []SpaceDisjoint
<1>1. LayoutInv => SpaceDisjoint
  BY LayoutDisjoint, Zenon DEF LayoutInv
<1> QED
  BY <1>1, LayoutInvInductive, PTL DEF Spec

-----------------------------------------------------------------------------
(* What can be read, in all steps. *)

(***************************************************************************)
(* A step that leaves the file and the tree alone, and opens no writer.    *)
(***************************************************************************)
LEMMA ReadsStill ==
  ASSUME ReadInv, UNCHANGED <<state, isWriter, tree, exists, bytes, damaged>>,
         isWriter => unused' = unused,
         isWriter => \A g \in Handle : handle'[g].kind = "writer" /\ handle'[g].isOpen =>
                       handle'[g] = handle[g]
  PROVE  ReadInv'
<1>1. DiskFileReads' /\ OpenFileReads'
  BY Zenon DEF ReadInv, DiskFileReads, OpenFileReads, TreeReads
<1>2. ASSUME state' = "open", isWriter'
      PROVE  WritingReads'
  <2>1. WritingReads
    BY <1>2, Zenon DEF ReadInv
  <2>2. unused' = unused /\ \A g \in Handle : handle'[g].kind = "writer" /\ handle'[g].isOpen =>
                              handle'[g] = handle[g]
    BY <1>2, Zenon
  <2>3. FileReads(tree', bytes', damaged')
    BY <2>1, Zenon DEF WritingReads
  <2>4. WritersRead(tree', bytes', handle', unused', damaged')
    BY <2>1, <2>2, Zenon DEF WritingReads, WritersRead
  <2> QED
    BY <2>3, <2>4, Zenon DEF WritingReads
<1> QED
  BY <1>1, <1>2, Zenon DEF ReadInv

(***************************************************************************)
(* A step after which no object has the file open, and the file is as it   *)
(* was or gone.                                                            *)
(***************************************************************************)
LEMMA ReadsOnDisk ==
  ASSUME ReadInv, state' # "open", UNCHANGED damaged,
         exists' = FALSE \/ UNCHANGED <<exists, bytes>>
  PROVE  ReadInv'
<1>1. DiskFileReads'
  BY Zenon DEF ReadInv, DiskFileReads, TreeReads
<1> QED
  BY <1>1, Zenon DEF ReadInv, OpenFileReads

(***************************************************************************)
(* Every step keeps what can be read.                                      *)
(***************************************************************************)
LEMMA StepReads ==
  ASSUME LayoutInv, LayoutInv', ReadInv, [Next]_vars
  PROVE  ReadInv'
<1>1. /\ TypeInv /\ TypeInv' /\ TypeOK /\ TypeOK' /\ CountInv /\ SpaceInv /\ WritersWrite
  BY Zenon DEF LayoutInv, TypeInv
<1>2. ASSUME WritingReads'
      PROVE  ReadInv'
  BY <1>1, <1>2, WritingReadsAll, PTL
<1>3. state = "open" /\ isWriter => WritingReads
  BY Zenon DEF ReadInv
<1>4. CASE OpenWrite
  <2>1. /\ tree' = NoTree /\ bytes' = <<>> /\ handle' = [h \in Handle |-> NoHandle]
    BY <1>4, Zenon DEF OpenWrite, Reset
  <2>2. Finished(NoTree) = {} /\ Created(NoTree) = {} /\ ~NoHandle.isOpen /\ Len(<<>>) = 0
    BY HandleTypeClosed, Zenon DEF NoTree, Finished, Created, NoHandle
  <2>3. FileReads(NoTree, <<>>, damaged')
    <3>1. XmlWithin(<<>>, NoTree)
      BY DEF XmlWithin
    <3> QED
      BY <2>2, <3>1, Zenon DEF FileReads, SectionsRead, BlobsThere
  <2>4. WritersRead(tree', bytes', handle', unused', damaged')
    BY <2>1, <2>2, Zenon DEF WritersRead
  <2>5. WritingReads'
    BY <2>1, <2>3, <2>4, Zenon DEF WritingReads
  <2> QED
    BY <1>2, <2>5, Zenon
<1>5. CASE OpenRead
  <2>1. /\ exists /\ Opens(bytes) /\ isWriter' = FALSE /\ tree' = ParsedTree(bytes)
        /\ UNCHANGED <<exists, bytes, damaged>>
    BY <1>5, Zenon DEF OpenRead, Reset
  <2>2. TreeReads(ParsedTree(bytes), bytes)
    BY <2>1, Zenon DEF ReadInv, DiskFileReads
  <2>3. DiskFileReads'
    BY <2>1, Zenon DEF ReadInv, DiskFileReads, TreeReads
  <2>4. OpenFileReads'
    BY <2>1, <2>2, Zenon DEF OpenFileReads, TreeReads
  <2> QED
    BY <2>1, <2>3, <2>4, Zenon DEF ReadInv
<1>6. CASE DestroyImageFile \/ Crash \/ cancel
  <2>1. /\ state' # "open" /\ UNCHANGED damaged
        /\ exists' = FALSE \/ UNCHANGED <<exists, bytes>>
    BY <1>6, Zenon DEF DestroyImageFile, Crash, cancel, Unlinked, Reset
  <2> QED
    BY <2>1, ReadsOnDisk, Zenon
<1>7. CASE close
  <2>1. CASE isWriter
    <3>1. state = "open"
      BY <1>7, Zenon DEF close
    <3>2. WritingReads'
      BY <1>1, <1>3, <1>7, <2>1, <3>1, CloseReads, Zenon
    <3> QED
      BY <1>2, <3>2, Zenon
  <2>2. CASE ~isWriter
    <3>1. state' = "closed" /\ UNCHANGED <<exists, bytes, damaged>>
      BY <1>1, <1>7, <2>2, Zenon DEF close, TypeOK
    <3> QED
      BY <3>1, ReadsOnDisk, Zenon
  <2> QED
    BY <2>1, <2>2, Zenon
<1>8. ASSUME NEW b \in Blob, OpenHandles("writer") = {}, NewBlob(b)
      PROVE  ReadInv'
  <2>1. state = "open"
    BY <1>8, Zenon DEF NewBlob, MayAllocate
  <2>2. CASE isWriter
    <3>1. WritingReads'
      BY <1>1, <1>3, <1>8, <2>1, <2>2, NewBlobReads, Zenon
    <3> QED
      BY <1>2, <3>1, Zenon
  <2>3. CASE ~isWriter
    <3>1. UNCHANGED <<state, isWriter, tree, exists, bytes, damaged>>
      BY <1>8, <2>3, Zenon DEF NewBlob, Extends
    <3> QED
      BY <2>3, <3>1, ReadsStill, Zenon
  <2> QED
    BY <2>2, <2>3, Zenon
<1>9. ASSUME NEW b \in Blob, BlobWrite(b)
      PROVE  ReadInv'
  <2>1. WritingReads
    BY <1>3, <1>9, Zenon DEF BlobWrite
  <2>2. WritingReads'
    BY <1>1, <1>9, <2>1, BlobWriteReads, Zenon
  <2> QED
    BY <1>2, <2>2, Zenon
<1>10. ASSUME NEW h \in Handle, NEW cv \in CV, NewWriter(h, cv)
       PROVE  ReadInv'
  <2>1. WritingReads
    BY <1>3, <1>10, Zenon DEF NewWriter, MayAllocate
  <2>2. WritingReads'
    BY <1>1, <1>10, <2>1, NewWriterReads, Zenon
  <2> QED
    BY <1>2, <2>2, SMTT(30)
<1>11. ASSUME NEW h \in Handle, Write(h) \/ WriteZeroRecords(h)
       PROVE  ReadInv'
  <2>1. state = "open" /\ isWriter
    BY <1>1, <1>11, Zenon DEF Write, WriteZeroRecords, WriterOpen, WritersWrite
  <2>2. WritingReads'
    BY <1>1, <1>3, <1>11, <2>1, WriteReads, Zenon
  <2> QED
    BY <1>2, <2>2, Zenon
<1>12. ASSUME NEW h \in Handle, NEW gone \in BOOLEAN, CloseWriter(h, gone)
       PROVE  ReadInv'
  <2>1. state = "open" /\ isWriter
    BY <1>1, <1>12, Zenon DEF CloseWriter, WriterOpen, WritersWrite
  <2>2. WritingReads'
    BY <1>1, <1>3, <1>12, <2>1, CloseWriterReads, Zenon
  <2> QED
    BY <1>2, <2>2, Zenon
<1>13. ASSUME NEW h \in Handle, NEW cv \in CV, NewReader(h, cv)
       PROVE  ReadInv'
  <2>1. handle'[h].kind = "reader" /\ \A g \in Handle : g # h => handle'[g] = handle[g]
    BY <1>1, <1>13, Zenon DEF NewReader, TypeOK
  <2> QED
    BY <1>13, <2>1, ReadsStill, Zenon DEF NewReader
<1>14. ASSUME NEW h \in Handle, NEW gone \in BOOLEAN, CloseReader(h, gone) \/ Destroy(h)
       PROVE  ReadInv'
  <2>1. Leave(h, gone) \/ Leave(h, TRUE)
    BY <1>14, Zenon DEF CloseReader, Destroy
  <2>2. ~handle'[h].isOpen /\ \A g \in Handle : g # h => handle'[g] = handle[g]
    BY <1>1, <2>1, LeaveType, Zenon
  <2>3. UNCHANGED <<state, isWriter, unused, tree, exists, bytes, damaged>>
    BY <1>14, Zenon DEF CloseReader, Destroy
  <2> QED
    BY <2>2, <2>3, ReadsStill, Zenon
<1>15. CASE UNCHANGED vars
  BY <1>15, ReadsStill, Zenon DEF vars, memory
<1> QED
  BY <1>4, <1>5, <1>6, <1>7, <1>8, <1>9, <1>10, <1>11, <1>12, <1>13, <1>14, <1>15, Zenon
  DEF Next

(***************************************************************************)
(* ReadInv holds of the initial state, and with LayoutInv it is inductive. *)
(***************************************************************************)
LEMMA ReadInvInductive ==
  /\ Init => ReadInv
  /\ LayoutInv /\ ReadInv /\ [Next]_vars => ReadInv'
<1>1. Init => ReadInv
  BY Zenon DEF Init, ReadInv, DiskFileReads, OpenFileReads
<1>2. LayoutInv /\ ReadInv /\ [Next]_vars => ReadInv'
  BY StepReads, LayoutInvInductive, Zenon
<1> QED
  BY <1>1, <1>2, Zenon

-----------------------------------------------------------------------------
(***************************************************************************)
(* While a file is open, being written or read, everything that its tree   *)
(* refers to is in it: all records of every vector whose writer closed it  *)
(* without an error, and every blob.                                       *)
(***************************************************************************)
THEOREM OpenFilesRead == Spec => []OpenFileReads
<1>1. ReadInv => OpenFileReads
  BY Zenon DEF ReadInv
<1> QED
  BY <1>1, ReadInvInductive, LayoutInvInductive, PTL DEF Spec

(***************************************************************************)
(* A file on the disk that opens has everything its tree refers to,        *)
(* wherever the calls that wrote it threw and whenever the process ended:  *)
(* ImageFileImpl::close stores the file header last.                       *)
(***************************************************************************)
THEOREM DiskFilesRead == Spec => []DiskFileReads
<1>1. ReadInv => DiskFileReads
  BY Zenon DEF ReadInv
<1> QED
  BY <1>1, ReadInvInductive, LayoutInvInductive, PTL DEF Spec
=============================================================================
