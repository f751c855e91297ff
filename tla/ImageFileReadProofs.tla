------------------------ MODULE ImageFileReadProofs -------------------------
(***************************************************************************)
(* Proofs that what the tree of an ImageFile refers to can be read back,   *)
(* for any vectors, blobs, handles and sizes: each action of a file being  *)
(* written keeps it so, wherever it throws.  ImageFileSpaceProofs puts the *)
(* actions together.                                                       *)
(***************************************************************************)
EXTENDS ImageFileProofs, ArithmeticProofs

-----------------------------------------------------------------------------
(* What an open writer has stored. *)

\* The records of the packets from offset start on.
RecordsFrom(d, start) == [n \in Nat |-> At(d, start + (n - 1)).records]

(***************************************************************************)
(* The section of an open writer w, up to offset u: from the first data    *)
(* packet on there are data packets only, and they hold the records that   *)
(* the encoders have passed on.                                            *)
(***************************************************************************)
PacketsThere(w, d, u) ==
  IF w.data = 0 THEN w.count = w.pending
  ELSE /\ w.start < w.data
       /\ w.data < u
       /\ u <= Len(d)
       /\ \A i \in w.data .. u - 1 : At(d, i).what = "data" /\ At(d, i).cv = w.cv
       /\ SumTo(RecordsFrom(d, w.data), u - w.data) + w.pending = w.count

\* Writer v is w after it stored a data packet of n records at offset u.
Stored(w, v, u, n) ==
  /\ v.cv = w.cv
  /\ v.start = w.start
  /\ v.data = FirstData(w, u)
  /\ v.pending = 0
  /\ v.count \in Nat
  /\ v.count + w.pending = w.count + n

WritersRead(t, d, hd, u, lost) ==
  \A h \in Handle : hd[h].kind = "writer" /\ hd[h].isOpen =>
    /\ t.cv[hd[h].cv].start = 0
    /\ hd[h].cv \notin lost => PacketsThere(hd[h], d, u)

WritingReads ==
  /\ FileReads(tree, bytes, damaged)
  /\ WritersRead(tree, bytes, handle, unused, damaged)

(***************************************************************************)
(* The inductive invariant.                                                *)
(***************************************************************************)
ReadInv ==
  /\ DiskFileReads
  /\ OpenFileReads
  /\ state = "open" /\ isWriter => WritingReads

-----------------------------------------------------------------------------
(* The packets of an open writer. *)

(***************************************************************************)
(* The packets from offset a up to offset u, counted from 1: where they    *)
(* are, and that one more is the packet at u.                              *)
(***************************************************************************)
LEMMA Offsets ==
  ASSUME NEW a \in Nat, NEW u \in Nat, a < u
  PROVE  /\ u - a \in Nat
         /\ (u - a) + 1 \in Nat
         /\ (u - a) + 1 = u + 1 - a
         /\ (u - a) + 1 = (u + 1) - a
         /\ a + (((u - a) + 1) - 1) = u
         /\ \A k \in 1 .. u - a : /\ k \in Nat
                                 /\ k \in 1 .. u + 1 - a
                                 /\ a + (k - 1) \in a .. u - 1
                                 /\ (a + (k - 1)) + 1 \in 1 .. u
OBVIOUS

(***************************************************************************)
(* A write that leaves the packets alone.                                  *)
(***************************************************************************)
LEMMA PacketsKept ==
  ASSUME NEW w, w.start \in Nat, w.data \in Nat, NEW d \in Seq(ItemType),
         NEW e \in Seq(ItemType), NEW u \in Nat, PacketsThere(w, d, u), Len(d) <= Len(e),
         \A i \in w.start + 1 .. u - 1 : i < Len(d) => At(e, i) = At(d, i)
  PROVE  PacketsThere(w, e, u)
<1>1. CASE w.data = 0
  BY <1>1, Zenon DEF PacketsThere
<1>2. CASE w.data # 0
  <2>1. /\ w.start < w.data
        /\ w.data < u
        /\ u <= Len(d)
        /\ \A i \in w.data .. u - 1 : At(d, i).what = "data" /\ At(d, i).cv = w.cv
        /\ SumTo(RecordsFrom(d, w.data), u - w.data) + w.pending = w.count
    BY <1>2, Zenon DEF PacketsThere
  <2>2. Len(d) \in Nat /\ Len(e) \in Nat /\ u <= Len(e)
    BY <2>1, SeqLength
  <2>3. \A i \in w.data .. u - 1 : At(e, i) = At(d, i)
    BY <2>1, <2>2
  <2>4. \A n \in 1 .. u - w.data : RecordsFrom(e, w.data)[n] = RecordsFrom(d, w.data)[n]
    <3> TAKE n \in 1 .. u - w.data
    <3>1. n \in Nat /\ w.data + (n - 1) \in w.data .. u - 1
      BY <2>1
    <3> QED
      BY <2>3, <3>1, Zenon DEF RecordsFrom
  <2>5. u - w.data \in Nat
    BY <2>1
  <2>6. SumTo(RecordsFrom(e, w.data), u - w.data) = SumTo(RecordsFrom(d, w.data), u - w.data)
    BY <2>4, <2>5, SumSame, Zenon
  <2>7. \A i \in w.data .. u - 1 : At(e, i).what = "data" /\ At(e, i).cv = w.cv
    BY <2>1, <2>3, Zenon
  <2> QED
    BY <1>2, <2>1, <2>2, <2>6, <2>7, Zenon DEF PacketsThere
<1> QED
  BY <1>1, <1>2, Zenon

(***************************************************************************)
(* The data packets of a writer hold a number of records.                  *)
(***************************************************************************)
LEMMA RecordsNat ==
  ASSUME NEW w, w.start \in Nat, w.data \in Nat, w.data # 0, NEW d \in Seq(ItemType),
         NEW u \in Nat, PacketsThere(w, d, u)
  PROVE  SumTo(RecordsFrom(d, w.data), u - w.data) \in Nat
<1> DEFINE f == RecordsFrom(d, w.data)
           m == u - w.data
<1>1. /\ w.data < u /\ u <= Len(d)
      /\ \A i \in w.data .. u - 1 : At(d, i).what = "data"
  BY Zenon DEF PacketsThere
<1>2. ASSUME NEW k \in 1 .. m
      PROVE  f[k] \in Nat
  <2> DEFINE i == w.data + (k - 1)
  <2>1. k \in Nat /\ i \in w.data .. u - 1 /\ i + 1 \in 1 .. u
    BY <1>1, Offsets, Zenon
  <2>2. At(d, i).what = "data"
    BY <1>1, <2>1, Zenon
  <2>3. f[k] = At(d, i).records
    BY <2>1, Zenon DEF RecordsFrom
  <2>4. At(d, i) \in ItemType
    <3>1. u <= Len(d) /\ Len(d) \in Nat
      BY <1>1, SeqLength, Zenon
    <3> HIDE DEF i
    <3>2. i + 1 \in 1 .. Len(d)
      BY <2>1, <3>1
    <3> QED
      BY <3>2, SeqElement, Zenon DEF At
  <2> HIDE DEF i
  <2> QED
    BY <2>2, <2>3, <2>4 DEF ItemType, ZeroItem
<1>3. m \in Nat
  BY <1>1, Offsets, Zenon
<1> HIDE DEF f, m
<1>4. SumTo(f, m) \in Nat
  BY <1>2, <1>3, SumNat, Zenon
<1> QED
  BY <1>4, Zenon DEF f, m

(***************************************************************************)
(* Records that the encoders keep for a later packet.                      *)
(***************************************************************************)
LEMMA PacketsPending ==
  ASSUME NEW w, w.start \in Nat, w.data \in Nat, w.pending \in Nat, w.count \in Nat,
         NEW d \in Seq(ItemType), NEW u \in Nat, PacketsThere(w, d, u),
         NEW v, v.cv = w.cv, v.start = w.start, v.data = w.data,
         v.pending = w.pending + 1, v.count = w.count + 1
  PROVE  PacketsThere(v, d, u)
<1>1. CASE w.data = 0
  BY <1>1, Zenon DEF PacketsThere
<1>2. CASE w.data # 0
  <2> DEFINE sum == SumTo(RecordsFrom(d, w.data), u - w.data)
  <2>1. sum \in Nat
    BY <1>2, RecordsNat, Zenon
  <2>2. /\ w.start < w.data
        /\ w.data < u
        /\ u <= Len(d)
        /\ \A i \in w.data .. u - 1 : At(d, i).what = "data" /\ At(d, i).cv = w.cv
        /\ sum + w.pending = w.count
    BY <1>2, Zenon DEF PacketsThere
  <2> HIDE DEF sum
  <2>3. sum + v.pending = v.count
    BY <2>1, <2>2
  <2> QED
    BY <1>2, <2>2, <2>3, Zenon DEF PacketsThere, sum
<1> QED
  BY <1>1, <1>2, Zenon

(***************************************************************************)
(* A data packet with n records is stored after the others.                *)
(***************************************************************************)
LEMMA PacketAdded ==
  ASSUME NEW w, w.start \in Nat, w.data \in Nat, w.pending \in Nat, w.count \in Nat,
         NEW d \in Seq(ItemType), NEW e \in Seq(ItemType), NEW u \in Nat, w.start < u,
         PacketsThere(w, d, u), Len(d) <= Len(e), u < Len(e), NEW n \in Nat,
         At(e, u) = PacketItem(w.cv, n),
         \A i \in w.start + 1 .. u - 1 : i < Len(d) => At(e, i) = At(d, i),
         NEW v, Stored(w, v, u, n)
  PROVE  PacketsThere(v, e, u + 1)
<1>1. At(e, u).what = "data" /\ At(e, u).cv = w.cv /\ At(e, u).records = n
  BY DEF PacketItem
<1>2. u + 1 <= Len(e) /\ u + 1 \in Nat
  BY SeqLength
<1>3. CASE w.data = 0
  <2>1. /\ v.data = u /\ v.data # 0 /\ v.count = n /\ v.pending = 0
        /\ v.start = w.start /\ v.cv = w.cv
    BY <1>3 DEF FirstData, PacketsThere, Stored
  <2>2. v.start < v.data /\ v.data < u + 1
    BY <2>1
  <2>3. \A i \in v.data .. (u + 1) - 1 : At(e, i).what = "data" /\ At(e, i).cv = v.cv
    BY <1>1, <2>1
  <2>4. SumTo(RecordsFrom(e, u), 1) = n
    <3> DEFINE f == RecordsFrom(e, u)
    <3>1. u + (1 - 1) = u
      OBVIOUS
    <3>2. f[1] = n
      BY <1>1, <3>1, Zenon DEF RecordsFrom
    <3> HIDE DEF f
    <3>3. SumTo(f, 0) = 0
      BY SumZero, Zenon
    <3>4. ASSUME NEW k \in Nat, k = 0
          PROVE  SumTo(f, 1) = SumTo(f, 0) + f[1]
      <4>1. SumTo(f, k + 1) = SumTo(f, k) + f[k + 1]
        BY SumStep, Zenon
      <4>2. k + 1 = 1
        BY <3>4
      <4> QED
        BY <3>4, <4>1, <4>2, Zenon
    <3>5. SumTo(f, 1) = n
      BY <3>2, <3>3, <3>4
    <3> QED
      BY <3>5, Zenon DEF f
  <2>5. (u + 1) - v.data = 1
    BY <2>1
  <2>6. SumTo(RecordsFrom(e, v.data), (u + 1) - v.data) + v.pending = v.count
    BY <2>1, <2>4, <2>5
  <2> QED
    BY <1>2, <2>1, <2>2, <2>3, <2>6, Zenon DEF PacketsThere
<1>4. CASE w.data # 0
  <2>1. PacketsThere(w, e, u)
    BY PacketsKept, Zenon
  <2>2. /\ w.start < w.data
        /\ w.data < u
        /\ \A i \in w.data .. u - 1 : At(e, i).what = "data" /\ At(e, i).cv = w.cv
        /\ SumTo(RecordsFrom(e, w.data), u - w.data) + w.pending = w.count
    BY <1>4, <2>1, Zenon DEF PacketsThere
  <2>3. /\ v.data = w.data /\ v.start = w.start /\ v.cv = w.cv /\ v.pending = 0
        /\ v.count \in Nat /\ v.count + w.pending = w.count + n
    BY <1>4, Zenon DEF FirstData, Stored
  <2> DEFINE f == RecordsFrom(e, w.data)
             m == u - w.data
  <2>4. /\ m \in Nat /\ m + 1 \in Nat /\ m + 1 = (u + 1) - w.data
        /\ w.data + ((m + 1) - 1) = u /\ w.data < u
    <3>1. w.data < u
      BY <2>2, Zenon
    <3> QED
      BY <3>1, Offsets, Zenon
  <2>5. f[m + 1] = n
    <3> HIDE DEF m
    <3> QED
      BY <1>1, <2>4, Zenon DEF RecordsFrom
  <2>6. \A i \in w.data .. (u + 1) - 1 : At(e, i).what = "data" /\ At(e, i).cv = w.cv
    <3> TAKE i \in w.data .. (u + 1) - 1
    <3>1. i \in w.data .. u - 1 \/ i = u
      OBVIOUS
    <3> QED
      BY <1>1, <2>2, <3>1, Zenon
  <2>7. SumTo(f, m) \in Nat
    BY <1>4, <2>1, RecordsNat, Zenon
  <2>8. SumTo(f, m + 1) = SumTo(f, m) + n
    <3> HIDE DEF f, m
    <3> QED
      BY <2>4, <2>5, SumStep, Zenon
  <2>9. SumTo(f, m + 1) + v.pending = v.count
    <3>1. SumTo(f, m) + w.pending = w.count
      BY <2>2, Zenon
    <3>2. (SumTo(f, m) + n) + 0 = v.count
      <4> DEFINE sum == SumTo(f, m)
                 pending == w.pending
                 count == w.count
                 after == v.count
      <4>1. /\ sum \in Nat /\ pending \in Nat /\ count \in Nat /\ after \in Nat
            /\ sum + pending = count /\ after + pending = count + n
        BY <2>3, <2>7, <3>1, Zenon
      <4> HIDE DEF sum, pending, count, after
      <4>2. (sum + n) + 0 = after
        BY <4>1
      <4> QED
        BY <4>2, Zenon DEF sum, after
    <3> QED
      BY <2>3, <2>8, <3>2, Zenon
  <2>10. v.start < v.data /\ v.data < u + 1
    BY <2>2, <2>3
  <2>11. /\ v.data # 0
         /\ \A i \in v.data .. (u + 1) - 1 : At(e, i).what = "data" /\ At(e, i).cv = v.cv
         /\ SumTo(RecordsFrom(e, v.data), (u + 1) - v.data) + v.pending = v.count
    BY <1>4, <2>3, <2>4, <2>6, <2>9, Zenon
  <2> QED
    BY <1>2, <2>10, <2>11, Zenon DEF PacketsThere
<1> QED
  BY <1>3, <1>4, Zenon

(***************************************************************************)
(* Once close has stored the index packet after them and the section       *)
(* header in front, a reader finds the records of the writer v.            *)
(***************************************************************************)
LEMMA SectionFound ==
  ASSUME NEW v, v.start \in Nat, v.data \in Nat, v.pending = 0, v.count \in Nat,
         NEW e \in Seq(ItemType), NEW x \in Nat, v.start < x, x < Len(e),
         PacketsThere(v, e, x), At(e, x).what = "index",
         At(e, v.start) = SectionItem(v.cv, x + 1 - v.start, v.data)
  PROVE  SectionReads(e, v.cv, [start |-> v.start, count |-> v.count])
<1> DEFINE header == At(e, v.start)
           last == v.start + header.length - 1
<1>1. /\ header.what = "section" /\ header.cv = v.cv
      /\ header.length = x + 1 - v.start /\ header.data = v.data
  BY DEF SectionItem
<1>2. last = x
  BY <1>1
<1>3. ASSUME v.count > 0
      PROVE  v.data > v.start /\ Total(RecordsFound(e, v.cv, v.data, x)) = v.count
  <2> DEFINE g == RecordsFrom(e, v.data)
             f == RecordsFound(e, v.cv, v.data, x)
             m == x - v.data
  <2>1. /\ v.start < v.data
        /\ v.data < x
        /\ \A i \in v.data .. x - 1 : At(e, i).what = "data" /\ At(e, i).cv = v.cv
        /\ SumTo(g, m) + v.pending = v.count
    BY <1>3 DEF PacketsThere
  <2>2. /\ m \in Nat /\ m + 1 = x + 1 - v.data /\ v.data + ((m + 1) - 1) = x
        /\ v.start < v.data /\ v.data < x
    <3>1. v.start < v.data /\ v.data < x
      BY <2>1, Zenon
    <3> QED
      BY <3>1, Offsets, Zenon
  <2>3. ASSUME NEW k \in 1 .. m
        PROVE  f[k] = g[k] /\ g[k] \in Nat
    <3> DEFINE i == v.data + (k - 1)
    <3>1. /\ k \in Nat /\ i \in v.data .. x - 1 /\ k \in 1 .. x + 1 - v.data
          /\ i + 1 \in 1 .. x
      BY <2>2, Offsets, Zenon
    <3>2. At(e, i).what = "data"
      BY <2>1, <3>1, Zenon
    <3>3. At(e, i) \in ItemType
      <4>1. i + 1 \in 1 .. Len(e)
        <5>1. Len(e) \in Nat
          BY SeqLength, Zenon
        <5> HIDE DEF i
        <5> QED
          BY <3>1, <5>1
      <4> QED
        BY <4>1, SeqElement, Zenon DEF At
    <3>4. \A j \in v.data .. i : At(e, j).what \in {"data", "index"} /\ At(e, j).cv = v.cv
      <4> TAKE j \in v.data .. i
      <4>1. j \in v.data .. x - 1
        BY <3>1
      <4> QED
        BY <2>1, <4>1, Zenon
    <3>5. g[k] = At(e, i).records
      BY <3>1, Zenon DEF RecordsFrom
    <3>6. f[k] = At(e, i).records
      BY <3>1, <3>2, <3>4, Zenon DEF RecordsFound
    <3> HIDE DEF i, f, g
    <3>7. g[k] \in Nat
      BY <3>2, <3>3, <3>5 DEF ItemType, ZeroItem
    <3> QED
      BY <3>5, <3>6, <3>7, Zenon
  <2>4. DOMAIN f = 1 .. m + 1
    BY <2>2, Zenon DEF RecordsFound
  <2>5. f[m + 1] = 0
    <3>1. m + 1 \in 1 .. x + 1 - v.data
      BY <2>2
    <3> HIDE DEF m
    <3>2. f[m + 1] = 0
      BY <2>2, <3>1, Zenon DEF RecordsFound
    <3> QED
      BY <3>2, Zenon
  <2> HIDE DEF f, g, m
  <2>6. \A k \in 1 .. m + 1 : f[k] \in Nat
    <3> TAKE k \in 1 .. m + 1
    <3>1. k \in 1 .. m \/ k = m + 1
      BY <2>2
    <3> QED
      BY <2>3, <2>5, <3>1
  <2>7. Total(f) = SumTo(f, m + 1)
    <3>1. m + 1 \in Nat
      BY <2>2
    <3> QED
      BY <2>4, <2>6, <3>1, TotalAsSum, Zenon
  <2>8. SumTo(f, m + 1) = SumTo(f, m) + 0
    BY <2>2, <2>5, SumStep
  <2>9. SumTo(f, m) = SumTo(g, m) /\ SumTo(g, m) \in Nat
    BY <2>2, <2>3, SumSame, SumNat
  <2>10. Total(f) = v.count
    BY <2>1, <2>7, <2>8, <2>9, Zenon
  <2> QED
    BY <2>1, <2>10, Zenon DEF f
<1>4. [start |-> v.start, count |-> v.count].start = v.start
      /\ [start |-> v.start, count |-> v.count].count = v.count
  BY Zenon
<1> HIDE DEF header
<1> QED
  BY <1>1, <1>2, <1>3, <1>4, Zenon DEF SectionReads, header

-----------------------------------------------------------------------------
(* The actions, of a file being written. *)

(***************************************************************************)
(* The tree may refer to more, if that can be read as well.                *)
(***************************************************************************)
LEMMA MoreReads ==
  ASSUME NEW t, NEW u, NEW d, NEW lost, FileReads(t, d, lost), Within(t, u),
         \A c \in Finished(u) \ Finished(t) : c \notin lost => SectionReads(d, c, u.cv[c]),
         \A b \in Created(u) \ Created(t) :
           u.blob[b] < Len(d) /\ At(d, u.blob[b]) = BlobHeaderItem(b)
  PROVE  FileReads(u, d, lost)
<1>1. XmlWithin(d, u)
  BY WithinMore, Zenon DEF FileReads
<1>2. SectionsRead(u, d, lost)
  <2> SUFFICES ASSUME NEW c \in Finished(u) \ lost
               PROVE  SectionReads(d, c, u.cv[c])
    BY Zenon DEF SectionsRead
  <2>1. CASE c \in Finished(t)
    BY <2>1, Zenon DEF FileReads, SectionsRead, Within
  <2>2. CASE c \notin Finished(t)
    BY <2>2, Zenon
  <2> QED
    BY <2>1, <2>2, Zenon
<1>3. BlobsThere(u, d)
  <2> SUFFICES ASSUME NEW b \in Created(u)
               PROVE  u.blob[b] < Len(d) /\ At(d, u.blob[b]) = BlobHeaderItem(b)
    BY Zenon DEF BlobsThere
  <2>1. CASE b \in Created(t)
    BY <2>1, Zenon DEF FileReads, BlobsThere, Within
  <2>2. CASE b \notin Created(t)
    BY <2>2, Zenon
  <2> QED
    BY <2>1, <2>2, Zenon
<1> QED
  BY <1>1, <1>2, <1>3, Zenon DEF FileReads

(***************************************************************************)
(* Each action below keeps WritingReads; this is what it says.             *)
(***************************************************************************)
LEMMA WritingReadsAll == TypeOK /\ WritingReads => ReadInv
BY ReadsAll, Zenon DEF WritingReads, ReadInv

(***************************************************************************)
(* A blob is attached once its header is in the file; where the            *)
(* constructor throws before that the tree does not refer to it.           *)
(***************************************************************************)
LEMMA NewBlobReads ==
  ASSUME TypeInv, TypeInv', SpaceInv, WritingReads, isWriter, NEW b \in Blob, NewBlob(b),
         OpenHandles("writer") = {}
  PROVE  WritingReads'
<1> USE DEF TypeInv
<1>1. /\ tree \in TreeType /\ bytes \in Seq(ItemType) /\ bytes' \in Seq(ItemType)
      /\ unused \in Nat /\ unused' \in Nat
  BY Zenon DEF TypeOK
<1>2. /\ state = "open" /\ tree.blob[b] = 0
      /\ unused' = unused + BlobSection /\ unused < unused'
      /\ UNCHANGED <<handle, damaged>>
  BY <1>1, SizeAssumption DEF NewBlob, MayAllocate, BlobSection, SectionHeaderSize
<1>3. Layout(tree, bytes, unused) /\ FileReads(tree, bytes, damaged)
  BY <1>2, Zenon DEF SpaceInv, WritingReads
<1>4. WritersRead(tree, bytes, handle, unused, damaged)'
  BY <1>2, Zenon DEF OpenHandles, WritersRead
<1>5. Extends(BlobSection) =>
        /\ Extended(bytes, unused') \in Seq(ItemType)
        /\ Len(Extended(bytes, unused')) = unused'
        /\ Keeps(tree, bytes, Extended(bytes, unused'))
        /\ FileReads(tree, Extended(bytes, unused'), damaged)
  BY <1>1, <1>2, <1>3, ExtendedType, ExtendedKeeps, ExtendedReads, Zenon DEF Extends, Layout
<1>6. CASE /\ Extends(BlobSection)
           /\ bytes' = Put(Extended(bytes, unused'), unused, <<BlobHeaderItem(b)>>)
           /\ tree' = [tree EXCEPT !.blob[b] = unused]
  <2> DEFINE e == Extended(bytes, unused')
             item == <<BlobHeaderItem(b)>>
  <2>1. /\ e \in Seq(ItemType) /\ Keeps(tree, bytes, e) /\ bytes' = Put(e, unused, item)
        /\ FileReads(tree, e, damaged) /\ Len(e) = unused'
    BY <1>5, <1>6, Zenon
  <2>2. /\ item \in Seq(ItemType) /\ Len(item) = 1 /\ item[1] = BlobHeaderItem(b)
        /\ XmlWithin(item, tree)
    BY DEF BlobHeaderItem, ItemType, XmlWithin
  <2> HIDE DEF e, item
  <2>3. Layout(tree, e, unused)
    BY <1>1, <1>3, <2>1, LayoutKept
  <2>4. FileReads(tree, bytes', damaged)
    BY <1>1, <2>1, <2>2, <2>3, AppendedReads
  <2>5. At(bytes', unused) = BlobHeaderItem(b) /\ unused < Len(bytes')
    <3>1. e \in Seq(ItemType) /\ unused \in Nat /\ item \in Seq(ItemType) /\ Len(item) = 1
      BY <1>1, <2>1, <2>2, Zenon
    <3>2. /\ At(Put(e, unused, item), unused) = item[1]
          /\ unused < Len(Put(e, unused, item))
      BY <3>1, PutOne, Zenon
    <3> QED
      BY <2>1, <2>2, <3>2, Zenon
  <2>6. /\ tree'.cv = tree.cv
        /\ tree'.blob = [tree.blob EXCEPT ![b] = unused] /\ tree.blob \in [Blob -> Nat]
    BY <1>1, <1>6, Zenon DEF TreeType
  <2>7. Within(tree, tree') /\ Finished(tree') = Finished(tree)
        /\ Created(tree') \subseteq Created(tree) \cup {b} /\ tree'.blob[b] = unused
    BY <1>2, <2>6, Zenon DEF Within, Finished, Created
  <2>8. FileReads(tree', bytes', damaged)
    BY <2>4, <2>5, <2>7, MoreReads, Zenon
  <2> QED
    BY <1>2, <1>4, <2>8, Zenon DEF WritingReads
<1>7. CASE Extends(BlobSection) /\ bytes' = Extended(bytes, unused') /\ UNCHANGED tree
  BY <1>2, <1>4, <1>5, <1>7, Zenon DEF WritingReads
<1>8. CASE UNCHANGED <<bytes, tree>>
  BY <1>2, <1>3, <1>4, <1>8, Zenon DEF WritingReads
<1> QED
  BY <1>6, <1>7, <1>8, Zenon DEF NewBlob

(***************************************************************************)
(* The bytes of a blob go between its header and whatever comes next; the  *)
(* packets of an open writer come after all blobs.                         *)
(***************************************************************************)
LEMMA BlobWriteReads ==
  ASSUME TypeInv, TypeInv', SpaceInv, WritingReads, NEW b \in Blob, BlobWrite(b)
  PROVE  WritingReads'
<1> USE DEF TypeInv
<1>1. /\ tree \in TreeType /\ bytes \in Seq(ItemType) /\ bytes' \in Seq(ItemType)
      /\ unused \in Nat /\ b \in Created(tree)
      /\ state = "open" /\ isWriter /\ UNCHANGED <<unused, tree, handle, damaged>>
  BY Zenon DEF TypeOK, BlobWrite, memory, Created
<1>2. PICK start \in 0 .. BlobSize, n \in 1 .. BlobSize + 1 :
        /\ BlobFits(start, n)
        /\ bytes' = Put(bytes, tree.blob[b] + SectionHeaderSize + start,
                        [i \in 1 .. n |-> BlobItem(b)])
  BY Zenon DEF BlobWrite
<1> DEFINE items == [i \in 1 .. n |-> BlobItem(b)]
           offset == tree.blob[b] + SectionHeaderSize + start
<1>3. bytes' = Put(bytes, offset, items)
  BY <1>2, Zenon
<1>4. items \in [1 .. n -> ItemType] /\ n \in Nat /\ start \in Nat
  BY SizeAssumption DEF BlobItem, ItemType
<1>5. items \in Seq(ItemType) /\ Len(items) = n
  BY <1>4, FunctionIsSeq, Zenon
<1>6. XmlWithin(items, tree)
  BY <1>5, Zenon DEF XmlWithin, BlobItem
<1>7. /\ tree.blob[b] \in Nat /\ offset \in Nat
      /\ tree.blob[b] < offset /\ offset + n <= AfterBlob(tree, b)
      /\ AfterBlob(tree, b) \in Nat
  <2> DEFINE x == tree.blob[b]
  <2>1. x \in Nat /\ AfterBlob(tree, b) \in Nat
    BY <1>1, BlobNumbers, Zenon
  <2>2. AfterBlob(tree, b) = x + SectionHeaderSize + BlobSize
    BY Zenon DEF AfterBlob
  <2>3. BlobSize \in Nat /\ start + n <= BlobSize /\ SectionHeaderSize = 1
    BY <1>2, SizeAssumption, Zenon DEF BlobFits, SectionHeaderSize
  <2> HIDE DEF x
  <2> QED
    BY <1>4, <2>1, <2>2, <2>3 DEF x
<1> HIDE DEF items, offset
<1>8. /\ Layout(tree, bytes, unused) /\ WritersLast(tree, bytes, handle, unused)
      /\ FileReads(tree, bytes, damaged)
      /\ WritersRead(tree, bytes, handle, unused, damaged)
  BY <1>1, Zenon DEF SpaceInv, WritingReads
<1>9. Keeps(tree, bytes, bytes')
  BY BlobWriteSpace, Zenon
<1>10. FileReads(tree, bytes', damaged)
  <2>1. ASSUME NEW g \in Created(tree)
        PROVE  tree.blob[g] < offset \/ offset + Len(items) <= tree.blob[g]
    <3>1. CASE g = b
      BY <1>7, <3>1, Zenon
    <3>2. CASE g # b
      <4>1. AfterBlob(tree, g) <= tree.blob[b] \/ AfterBlob(tree, b) <= tree.blob[g]
        BY <1>1, <1>8, <3>2, Zenon DEF Layout, AllApart, Apart
      <4>2. /\ tree.blob[g] \in Nat /\ AfterBlob(tree, g) \in Nat
            /\ tree.blob[g] + 1 < AfterBlob(tree, g)
        BY <1>1, BlobNumbers, Zenon
      <4> QED
        BY <1>4, <1>5, <1>7, <4>1, <4>2
    <3> QED
      BY <3>1, <3>2, Zenon
  <2> QED
    BY <1>1, <1>3, <1>5, <1>6, <1>7, <1>8, <1>9, <2>1, PutReads, Zenon DEF Layout
<1>11. WritersRead(tree, bytes', handle, unused, damaged)
  <2> SUFFICES ASSUME NEW h \in Handle, handle[h].kind = "writer", handle[h].isOpen
               PROVE  /\ tree.cv[handle[h].cv].start = 0
                      /\ handle[h].cv \notin damaged =>
                           PacketsThere(handle[h], bytes', unused)
    BY Zenon DEF WritersRead
  <2> DEFINE w == handle[h]
  <2>1. w.start \in Nat /\ w.data \in Nat
    BY WriterFields, Zenon
  <2>2. Below(tree, bytes, w.start)
    BY <1>8, Zenon DEF WritersLast
  <2>3. AfterBlob(tree, b) <= w.start
    BY <1>1, <2>2, Zenon DEF Below
  <2>4. /\ tree.cv[w.cv].start = 0
        /\ w.cv \notin damaged => PacketsThere(w, bytes, unused)
    BY <1>8, Zenon DEF WritersRead
  <2> HIDE DEF w
  <2>5. offset + n <= w.start
    BY <1>4, <1>7, <2>1, <2>3
  <2>6. ASSUME NEW i \in w.start + 1 .. unused - 1, i < Len(bytes)
        PROVE  At(bytes', i) = At(bytes, i)
    <3>1. i \in Nat /\ offset + Len(items) <= i
      BY <1>1, <1>4, <1>5, <1>7, <2>1, <2>5, SMTT(30)
    <3> QED
      BY <1>1, <1>3, <1>5, <1>7, <2>6, <3>1, PutAt
  <2>7. Len(bytes) <= Len(bytes')
    BY <1>9, Zenon DEF Keeps
  <2>8. PacketsThere(w, bytes, unused) => PacketsThere(w, bytes', unused)
    BY <1>1, <2>1, <2>6, <2>7, PacketsKept, Zenon
  <2> QED
    BY <2>4, <2>8, Zenon DEF w
<1> QED
  BY <1>1, <1>10, <1>11, Zenon DEF WritingReads

(***************************************************************************)
(* A new writer has passed on no records, and its vector no section yet.   *)
(***************************************************************************)
LEMMA NewWriterReads ==
  ASSUME TypeInv, TypeInv', CountInv, SpaceInv, WritingReads,
         NEW h \in Handle, NEW cv \in CV, NewWriter(h, cv)
  PROVE  WritingReads'
<1> USE DEF TypeInv
<1>1. /\ tree \in TreeType /\ bytes \in Seq(ItemType)
      /\ unused \in Nat /\ unused' \in Nat
  BY Zenon DEF TypeOK
<1>2. /\ state = "open" /\ isWriter /\ tree.cv[cv].start = 0
      /\ unused' = unused + SectionHeaderSize
      /\ UNCHANGED <<tree, damaged>>
  BY Zenon DEF NewWriter, MayAllocate
<1>3. Layout(tree, bytes, unused) /\ FileReads(tree, bytes, damaged)
  BY <1>2, Zenon DEF SpaceInv, WritingReads
<1>4. \A g \in Handle : ~handle[g].isOpen
  BY GuardExcludes, Zenon DEF NewWriter
<1>5. CASE /\ Extends(SectionHeaderSize)
           /\ bytes' = Extended(bytes, unused')
           /\ handle' = [handle EXCEPT ![h] =
                [kind |-> "writer", isOpen |-> TRUE, cv |-> cv, start |-> unused,
                 data |-> 0, pending |-> 0, count |-> 0]]
  <2>1. FileReads(tree, bytes', damaged)
    BY <1>1, <1>2, <1>3, <1>5, ExtendedReads, Zenon DEF Extends
  <2>2. \A g \in Handle : handle'[g].isOpen =>
          /\ handle'[g].cv = cv /\ handle'[g].data = 0
          /\ handle'[g].pending = 0 /\ handle'[g].count = 0
    BY <1>4, <1>5, Zenon DEF TypeOK
  <2>3. WritersRead(tree, bytes', handle', unused', damaged)
    BY <1>2, <2>2, Zenon DEF WritersRead, PacketsThere
  <2> QED
    BY <1>2, <2>1, <2>3, Zenon DEF WritingReads
<1>6. CASE UNCHANGED <<bytes, handle>>
  <2>1. WritersRead(tree, bytes', handle', unused', damaged)
    BY <1>4, <1>6, Zenon DEF WritersRead
  <2> QED
    BY <1>2, <1>3, <1>6, <2>1, Zenon DEF WritingReads
<1> QED
  BY <1>5, <1>6, Zenon DEF NewWriter

(***************************************************************************)
(* The file stays readable when one more vector is known to be damaged.    *)
(***************************************************************************)
LEMMA LostReads ==
  ASSUME NEW t, NEW d, NEW lost, NEW more, lost \subseteq more, FileReads(t, d, lost)
  PROVE  FileReads(t, d, more)
BY Zenon DEF FileReads, SectionsRead

(***************************************************************************)
(* write( n ) counts the records it passes to the encoders, and those in   *)
(* the packet it stores; when storing it throws the vector is damaged.     *)
(***************************************************************************)
LEMMA WriteReads ==
  ASSUME TypeInv, TypeInv', CountInv, SpaceInv, WritingReads, isWriter, NEW h \in Handle,
         Write(h) \/ WriteZeroRecords(h)
  PROVE  WritingReads'
<1> USE DEF TypeInv
<1> DEFINE w == handle[h]
           v == handle'[h]
           W == [kind : {"writer"}, isOpen : {TRUE}, cv : CV, start : Nat,
                 data : Nat, pending : Nat, count : Nat]
<1>1. /\ tree \in TreeType /\ bytes \in Seq(ItemType) /\ bytes' \in Seq(ItemType)
      /\ unused \in Nat /\ unused' \in Nat
  BY Zenon DEF TypeOK
<1>2. /\ state = "open" /\ w.kind = "writer" /\ w.isOpen /\ w.cv \notin damaged
      /\ UNCHANGED tree
  BY Zenon DEF Write, WriteZeroRecords, WriterOpen
<1>3. w \in W
  BY <1>2, WriterFields, Zenon
<1>4. /\ w.cv \in CV /\ w.start \in Nat /\ w.data \in Nat /\ w.pending \in Nat
      /\ w.count \in Nat
  BY <1>3, Zenon
<1>5. /\ Layout(tree, bytes, unused) /\ w.start < unused /\ FileReads(tree, bytes, damaged)
      /\ tree.cv[w.cv].start = 0 /\ PacketsThere(w, bytes, unused)
  BY <1>2, Zenon DEF SpaceInv, WritersLast, WritingReads, WritersRead
<1>6. \/ /\ handle' = [handle EXCEPT ![h].pending = @ + 1, ![h].count = @ + 1]
         /\ UNCHANGED <<unused, bytes, damaged>>
      \/ /\ handle' = [handle EXCEPT ![h].pending = 0, ![h].count = @ + 1,
                                     ![h].data = FirstData(w, unused)]
         /\ unused' = unused + 1
         /\ bytes' = Put(bytes, unused, <<PacketItem(w.cv, w.pending + 1)>>)
         /\ UNCHANGED damaged
      \/ /\ handle' = [handle EXCEPT ![h].data = unused]
         /\ w.count = 0 /\ w.data = 0
         /\ unused' = unused + 1
         /\ bytes' = Put(bytes, unused, <<PacketItem(w.cv, 0)>>)
         /\ UNCHANGED damaged
      \/ /\ handle' = [handle EXCEPT ![h].pending = 0] \/ handle' = handle
         /\ damaged' = damaged \cup {w.cv}
         /\ UNCHANGED bytes
  BY Zenon DEF Write, WriteZeroRecords
<1>7. handle = [g \in Handle |-> handle[g]]
  BY Zenon DEF TypeOK
<1>8. handle[h] = [kind |-> w.kind, isOpen |-> w.isOpen, cv |-> w.cv, start |-> w.start,
                   data |-> w.data, pending |-> w.pending, count |-> w.count]
  BY <1>3, Zenon
<1>9. \A g \in Handle : g # h => handle'[g] = handle[g]
  BY <1>6, <1>7, Zenon
<1>10. ASSUME FileReads(tree, bytes', damaged'), v.cv = w.cv,
              v.cv \notin damaged' => PacketsThere(v, bytes', unused')
       PROVE  WritingReads'
  <2>1. \A g \in Handle : g # h => ~handle[g].isOpen
    BY <1>2, Zenon DEF CountInv, OneAtATime
  <2>2. \A g \in Handle : handle'[g].isOpen => g = h
    BY <1>9, <2>1, Zenon
  <2>3. WritersRead(tree, bytes', handle', unused', damaged')
    <3> SUFFICES ASSUME NEW g \in Handle, handle'[g].isOpen
                 PROVE  /\ tree.cv[handle'[g].cv].start = 0
                        /\ handle'[g].cv \notin damaged' =>
                             PacketsThere(handle'[g], bytes', unused')
      BY Zenon DEF WritersRead
    <3>1. g = h
      BY <2>2, Zenon
    <3> QED
      BY <1>5, <1>10, <3>1, Zenon
  <2> QED
    BY <1>2, <1>10, <2>3, Zenon DEF WritingReads
<1>11. CASE /\ handle' = [handle EXCEPT ![h].pending = @ + 1, ![h].count = @ + 1]
            /\ UNCHANGED <<unused, bytes, damaged>>
  <2>1. /\ v.cv = w.cv /\ v.start = w.start /\ v.data = w.data
        /\ v.pending = w.pending + 1 /\ v.count = w.count + 1
    BY <1>7, <1>8, <1>11, Zenon
  <2> HIDE DEF w, v
  <2>2. PacketsThere(v, bytes, unused)
    BY <1>1, <1>4, <1>5, <2>1, PacketsPending, Zenon
  <2> QED
    BY <1>5, <1>10, <1>11, <2>1, <2>2, Zenon
<1>12. ASSUME NEW n \in Nat, unused' = unused + 1, damaged' = damaged,
              bytes' = Put(bytes, unused, <<PacketItem(w.cv, n)>>),
              Stored(w, v, unused, n)
       PROVE  WritingReads'
  <2> DEFINE items == <<PacketItem(w.cv, n)>>
  <2>1. w.cv \in CV
    BY <1>4, Zenon
  <2> HIDE DEF w, v
  <2>2. /\ items \in Seq(ItemType) /\ Len(items) = 1 /\ items[1] = PacketItem(w.cv, n)
        /\ XmlWithin(items, tree)
    BY <2>1 DEF PacketItem, ItemType, XmlWithin
  <2>3. bytes' = Put(bytes, unused, items)
    BY <1>12, Zenon
  <2> HIDE DEF items
  <2>4. FileReads(tree, bytes', damaged)
    <3>1. unused <= unused
      BY <1>1
    <3> QED
      BY <1>1, <1>5, <2>2, <2>3, <3>1, AppendedReads, Zenon
  <2>5. At(bytes', unused) = PacketItem(w.cv, n)
    BY <1>1, <2>2, <2>3, PutOne
  <2>6. Len(bytes) <= Len(bytes') /\ unused < Len(bytes')
    BY <1>1, <2>2, <2>3, PutOne, Zenon
  <2>7. ASSUME NEW i \in w.start + 1 .. unused - 1, i < Len(bytes)
        PROVE  At(bytes', i) = At(bytes, i)
    <3>1. i \in Nat /\ i < unused
      BY <1>1, <1>4
    <3> QED
      BY <1>1, <2>2, <2>3, <2>7, <3>1, PutAt
  <2>8. PacketsThere(v, bytes', unused + 1)
    BY <1>1, <1>4, <1>5, <1>12, <2>5, <2>6, <2>7, PacketAdded, Zenon
  <2>9. v.cv = w.cv
    BY <1>12, Zenon DEF Stored
  <2> QED
    BY <1>10, <1>12, <2>4, <2>8, <2>9, Zenon
<1>13. CASE /\ handle' = [handle EXCEPT ![h].pending = 0, ![h].count = @ + 1,
                                        ![h].data = FirstData(w, unused)]
            /\ unused' = unused + 1
            /\ bytes' = Put(bytes, unused, <<PacketItem(w.cv, w.pending + 1)>>)
            /\ UNCHANGED damaged
  <2>1. /\ v.cv = w.cv /\ v.start = w.start /\ v.data = FirstData(w, unused)
        /\ v.pending = 0 /\ v.count = w.count + 1
    BY <1>7, <1>8, <1>13, Zenon
  <2> HIDE DEF w, v
  <2>2. w.pending + 1 \in Nat /\ Stored(w, v, unused, w.pending + 1)
    BY <1>4, <2>1 DEF Stored
  <2> QED
    BY <1>12, <1>13, <2>2, Zenon
<1>14. CASE /\ handle' = [handle EXCEPT ![h].data = unused]
            /\ w.count = 0 /\ w.data = 0
            /\ unused' = unused + 1
            /\ bytes' = Put(bytes, unused, <<PacketItem(w.cv, 0)>>)
            /\ UNCHANGED damaged
  <2>1. /\ v.cv = w.cv /\ v.start = w.start /\ v.data = unused
        /\ v.pending = w.pending /\ v.count = w.count
    BY <1>7, <1>8, <1>14, Zenon
  <2> HIDE DEF w, v
  <2>2. w.pending = 0
    BY <1>5, <1>14, Zenon DEF PacketsThere
  <2>3. Stored(w, v, unused, 0)
    BY <1>14, <2>1, <2>2 DEF Stored, FirstData
  <2> QED
    BY <1>12, <1>14, <2>3, Zenon
<1>15. CASE /\ handle' = [handle EXCEPT ![h].pending = 0] \/ handle' = handle
            /\ damaged' = damaged \cup {w.cv}
            /\ UNCHANGED bytes
  <2>1. v.cv = w.cv
    <3>1. CASE handle' = [handle EXCEPT ![h].pending = 0]
      BY <1>7, <1>8, <3>1, Zenon
    <3> QED
      BY <1>15, <3>1, Zenon
  <2> HIDE DEF w, v
  <2>2. FileReads(tree, bytes', damaged')
    BY <1>5, <1>15, LostReads, Zenon
  <2> QED
    BY <1>10, <1>15, <2>1, <2>2, Zenon
<1> QED
  BY <1>6, <1>11, <1>13, <1>14, <1>15, Zenon

(***************************************************************************)
(* The packets close stores: what was pending, and the index packet.       *)
(***************************************************************************)
LEMMA ClosingPackets ==
  ASSUME NEW cv \in CV, NEW n \in Nat, NEW items,
         items = Append(IF n > 0 THEN <<PacketItem(cv, n)>> ELSE <<>>, IndexItem(cv))
  PROVE  /\ n > 0 => /\ Len(items) = 2
                     /\ items[1] = PacketItem(cv, n) /\ items[2] = IndexItem(cv)
         /\ n = 0 => Len(items) = 1 /\ items[1] = IndexItem(cv)
         /\ \A i \in 1 .. Len(items) : items[i].what # "xml"
<1>1. PacketItem(cv, n).what = "data" /\ IndexItem(cv).what = "index"
  BY Zenon DEF PacketItem, IndexItem
<1>2. CASE n > 0
  <2>1. items = Append(<<PacketItem(cv, n)>>, IndexItem(cv))
    BY <1>2, Zenon
  <2>2. Len(items) = 2 /\ items[1] = PacketItem(cv, n) /\ items[2] = IndexItem(cv)
    BY <2>1
  <2>3. \A i \in 1 .. Len(items) : i = 1 \/ i = 2
    BY <2>2
  <2> QED
    BY <1>1, <1>2, <2>2, <2>3
<1>3. CASE n = 0
  <2>1. items = Append(<<>>, IndexItem(cv))
    BY <1>3
  <2>2. Len(items) = 1 /\ items[1] = IndexItem(cv)
    <3>1. \A x : Len(Append(<<>>, x)) = 1 /\ Append(<<>>, x)[1] = x
      OBVIOUS
    <3> QED
      BY <2>1, <3>1, Zenon
  <2>3. \A i \in 1 .. Len(items) : i = 1
    BY <2>2
  <2> QED
    BY <1>1, <1>3, <2>2, <2>3
<1> QED
  BY <1>2, <1>3

(***************************************************************************)
(* A file e that has the packets of close after those of the writer, and   *)
(* the section header in front of them: the section can be read.           *)
(***************************************************************************)
LEMMA ClosedSection ==
  ASSUME NEW w, w.cv \in CV, w.start \in Nat, w.data \in Nat, w.pending \in Nat,
         w.count \in Nat, NEW d \in Seq(ItemType), NEW e \in Seq(ItemType), NEW u \in Nat,
         w.start < u, PacketsThere(w, d, u), NEW items,
         items = Append(IF w.pending > 0 THEN <<PacketItem(w.cv, w.pending)>> ELSE <<>>,
                        IndexItem(w.cv)),
         Len(d) <= Len(e), u + Len(items) <= Len(e),
         \A i \in w.start + 1 .. u - 1 : i < Len(d) => At(e, i) = At(d, i),
         \A i \in 1 .. Len(items) : At(e, u + (i - 1)) = items[i],
         At(e, w.start) = SectionItem(w.cv, (u + Len(items)) - w.start,
                                      IF w.pending > 0 THEN FirstData(w, u) ELSE w.data)
  PROVE  SectionReads(e, w.cv, [start |-> w.start, count |-> w.count])
<1>1. /\ w.pending > 0 => /\ Len(items) = 2
                          /\ items[1] = PacketItem(w.cv, w.pending)
                          /\ items[2] = IndexItem(w.cv)
      /\ w.pending = 0 => Len(items) = 1 /\ items[1] = IndexItem(w.cv)
  BY ClosingPackets
<1>2. IndexItem(w.cv).what = "index"
  BY Zenon DEF IndexItem
<1>3. CASE w.pending > 0
  <2> DEFINE v == [cv |-> w.cv, start |-> w.start, data |-> FirstData(w, u),
                   pending |-> 0, count |-> w.count]
  <2>1. /\ v.cv = w.cv /\ v.start = w.start /\ v.data = FirstData(w, u) /\ v.pending = 0
        /\ v.count = w.count
    BY Zenon
  <2> HIDE DEF v
  <2>2. Stored(w, v, u, w.pending)
    BY <2>1, Zenon DEF Stored
  <2>3. /\ 1 \in 1 .. Len(items) /\ u + (1 - 1) = u
        /\ 2 \in 1 .. Len(items) /\ u + (2 - 1) = u + 1 /\ u < Len(e) /\ u + 1 < Len(e)
        /\ u + 1 \in Nat /\ w.start < u + 1
        /\ (u + Len(items)) - w.start = (u + 1) + 1 - w.start
    <3>1. Len(items) = 2 /\ Len(e) \in Nat
      BY <1>1, <1>3, SeqLength, Zenon
    <3> QED
      BY <3>1
  <2>4. At(e, u) = PacketItem(w.cv, w.pending) /\ At(e, u + 1) = IndexItem(w.cv)
    <3>1. At(e, u + (1 - 1)) = items[1] /\ At(e, u + (2 - 1)) = items[2]
      BY <2>3, Zenon
    <3> QED
      BY <1>1, <1>3, <2>3, <3>1, Zenon
  <2>5. PacketsThere(v, e, u + 1)
    BY <2>2, <2>3, <2>4, PacketAdded, Zenon
  <2>6. At(e, v.start) = SectionItem(v.cv, (u + 1) + 1 - v.start, v.data)
    BY <1>3, <2>1, <2>3, Zenon
  <2>7. /\ v.start \in Nat /\ v.data \in Nat /\ v.pending = 0 /\ v.count \in Nat
        /\ v.start < u + 1
    BY <2>1, <2>3, SMTT(30) DEF FirstData
  <2>8. SectionReads(e, v.cv, [start |-> v.start, count |-> v.count])
    BY <1>2, <2>3, <2>4, <2>5, <2>6, <2>7, SectionFound, Zenon
  <2> QED
    BY <2>1, <2>8, Zenon
<1>4. CASE w.pending = 0
  <2>1. /\ 1 \in 1 .. Len(items) /\ u + (1 - 1) = u /\ u < Len(e)
        /\ (u + Len(items)) - w.start = u + 1 - w.start
    <3>1. Len(items) = 1 /\ Len(e) \in Nat
      BY <1>1, <1>4, SeqLength, Zenon
    <3> QED
      BY <3>1
  <2>2. At(e, u) = IndexItem(w.cv)
    <3>1. At(e, u + (1 - 1)) = items[1]
      BY <2>1, Zenon
    <3> QED
      BY <1>1, <1>4, <2>1, <3>1, Zenon
  <2>3. PacketsThere(w, e, u)
    BY PacketsKept, Zenon
  <2>4. At(e, w.start) = SectionItem(w.cv, u + 1 - w.start, w.data)
    BY <1>4, <2>1
  <2> QED
    BY <1>2, <1>4, <2>1, <2>2, <2>3, <2>4, SectionFound, Zenon
<1> QED
  BY <1>3, <1>4

(***************************************************************************)
(* CompressedVectorWriterImpl::close gives the vector its section only     *)
(* after all of it is stored; where a store throws the vector stays as it  *)
(* was.                                                                    *)
(***************************************************************************)
LEMMA CloseWriterReads ==
  ASSUME TypeInv, TypeInv', CountInv, SpaceInv, WritingReads, isWriter,
         NEW h \in Handle, NEW gone \in BOOLEAN, CloseWriter(h, gone)
  PROVE  WritingReads'
<1> USE DEF TypeInv
<1> DEFINE w == handle[h]
           items == Append(IF w.pending > 0 THEN <<PacketItem(w.cv, w.pending)>>
                           ELSE <<>>, IndexItem(w.cv))
           end == unused + Len(items)
           data == IF w.pending > 0 THEN FirstData(w, unused) ELSE w.data
           header == SectionItem(w.cv, end - w.start, data)
<1>1. /\ tree \in TreeType /\ bytes \in Seq(ItemType) /\ bytes' \in Seq(ItemType)
      /\ unused \in Nat /\ unused' \in Nat
  BY Zenon DEF TypeOK
<1>2. /\ WriterOpen(h) /\ Leave(h, gone) /\ state = "open" /\ UNCHANGED damaged
      /\ w.kind = "writer" /\ w.isOpen
  BY Zenon DEF CloseWriter, WriterOpen
<1>3. \/ /\ bytes' = Put(Put(bytes, unused, items), w.start, <<header>>)
         /\ tree' = [tree EXCEPT !.cv[w.cv] = [start |-> w.start, count |-> w.count]]
      \/ \E k \in 0 .. Len(items) :
           /\ bytes' = Put(bytes, unused, SubSeq(items, 1, k))
           /\ UNCHANGED tree
  BY Zenon DEF CloseWriter
<1>4. /\ w.cv \in CV /\ w.start \in Nat /\ w.data \in Nat /\ w.pending \in Nat
      /\ w.count \in Nat
  BY <1>2, WriterFields, Zenon
<1>5. /\ Layout(tree, bytes, unused) /\ w.start < unused /\ HeaderSize <= w.start
      /\ Below(tree, bytes, w.start) /\ FileReads(tree, bytes, damaged)
      /\ tree.cv[w.cv].start = 0
      /\ w.cv \notin damaged => PacketsThere(w, bytes, unused)
  BY <1>2, Zenon DEF SpaceInv, WritersLast, WritingReads, WritersRead
<1>6. WritersRead(tree, bytes, handle, unused, damaged)'
  <2>1. \A g \in Handle : g # h => ~handle[g].isOpen
    BY <1>2, Zenon DEF CountInv, OneAtATime
  <2>2. \A g \in Handle : ~handle'[g].isOpen
    BY <1>2, <2>1, LeaveType, Zenon
  <2> QED
    BY <2>2, Zenon DEF WritersRead
<1> HIDE DEF w
<1>7. /\ items \in Seq(ItemType) /\ Len(items) \in Nat
      /\ \A i \in 1 .. Len(items) : items[i].what # "xml"
  <2>1. items \in Seq(ItemType) /\ Len(items) \in Nat
    BY <1>4, CloseItems, Zenon
  <2>2. \A i \in 1 .. Len(items) : items[i].what # "xml"
    <3> DEFINE cv == w.cv
               n == w.pending
    <3>1. cv \in CV /\ n \in Nat
          /\ items = Append(IF n > 0 THEN <<PacketItem(cv, n)>> ELSE <<>>, IndexItem(cv))
      BY <1>4, Zenon
    <3> HIDE DEF cv, n, items
    <3> QED
      BY <3>1, ClosingPackets
  <2> QED
    BY <2>1, <2>2, Zenon
<1>8. data \in Nat
  BY <1>1, <1>4, Zenon DEF FirstData
<1> HIDE DEF items, data
<1>9. end \in Nat /\ end - w.start \in Nat /\ unused <= end
  BY <1>1, <1>4, <1>5, <1>7
<1>10. CASE /\ bytes' = Put(Put(bytes, unused, items), w.start, <<header>>)
            /\ tree' = [tree EXCEPT !.cv[w.cv] = [start |-> w.start, count |-> w.count]]
  <2> DEFINE e == Put(bytes, unused, items)
             hs == <<header>>
  <2>1. e \in Seq(ItemType) /\ Len(e) = IF end > Len(bytes) THEN end ELSE Len(bytes)
    BY <1>1, <1>7, PutType, SMTT(30)
  <2>2. Keeps(tree, bytes, e) /\ FileReads(tree, e, damaged)
    <3>1. XmlWithin(items, tree)
      BY <1>7, Zenon DEF XmlWithin
    <3>2. unused <= unused
      BY <1>1
    <3> QED
      BY <1>1, <1>5, <1>7, <3>1, <3>2, AllocatedPutKeeps, AppendedReads, Zenon
  <2>3. hs \in Seq(ItemType) /\ Len(hs) = 1 /\ hs[1] = header
    BY <1>4, <1>8, <1>9, SectionItemType, Zenon
  <2>4. XmlWithin(hs, tree)
    <3>1. header.what = "section"
      BY Zenon DEF SectionItem
    <3> HIDE DEF header
    <3> QED
      BY <3>1 DEF XmlWithin
  <2>5. bytes' = Put(e, w.start, hs)
    BY <1>10, Zenon
  <2> HIDE DEF e, hs, header
  <2>6. Len(e) = IF end > Len(bytes) THEN end ELSE Len(bytes)
    BY <2>1, Zenon
  <2>7. Len(bytes) \in Nat /\ Len(e) \in Nat /\ Len(bytes) <= Len(e) /\ end <= Len(e)
    BY <1>1, <1>9, <2>1, <2>6, SeqLength
  <2>8. Len(bytes') = Len(e)
    <3>1. Len(bytes') = IF w.start + Len(hs) > Len(e) THEN w.start + Len(hs) ELSE Len(e)
      BY <1>4, <2>1, <2>3, <2>5, PutType, Zenon
    <3>2. w.start + 1 <= Len(e)
      BY <1>1, <1>4, <1>5, <1>9, <2>7
    <3> QED
      BY <1>4, <2>3, <2>7, <3>1, <3>2
  <2>9. Layout(tree, e, unused) /\ Below(tree, e, w.start)
    <3>1. unused <= unused
      BY <1>1
    <3> QED
      BY <1>1, <1>4, <1>5, <2>1, <2>2, <3>1, LayoutKept, Zenon
  <2>10. FileReads(tree, bytes', damaged)
    <3>1. \A c \in Finished(tree) : After(tree, e, c) <= w.start
      BY <2>9, Zenon DEF Below
    <3>2. Keeps(tree, e, bytes')
      BY <1>1, <1>4, <2>1, <2>3, <2>5, <2>9, <3>1, PutKeeps, Zenon DEF Layout
    <3>3. \A b \in Created(tree) : tree.blob[b] < w.start
      <4> TAKE b \in Created(tree)
      <4>1. tree.blob[b] \in Nat /\ AfterBlob(tree, b) \in Nat
            /\ tree.blob[b] + 1 < AfterBlob(tree, b)
        BY <1>1, BlobNumbers, Zenon
      <4>2. AfterBlob(tree, b) <= w.start
        BY <2>9, Zenon DEF Below
      <4> QED
        BY <1>4, <4>1, <4>2
    <3> QED
      BY <1>1, <1>4, <2>1, <2>2, <2>3, <2>4, <2>5, <2>9, <3>2, <3>3, PutReads, Zenon
      DEF Layout
  <2>11. ASSUME NEW i \in Nat, w.start < i, i < Len(e)
         PROVE  At(bytes', i) = At(e, i)
    <3>1. e \in Seq(ItemType) /\ w.start \in Nat /\ hs \in Seq(ItemType) /\ Len(hs) = 1
      BY <1>4, <2>1, <2>3, Zenon
    <3>2. \A j \in Nat : j < Len(e) /\ j # w.start => At(Put(e, w.start, hs), j) = At(e, j)
      BY <3>1, PutOne, Zenon
    <3>3. i # w.start
      BY <2>11, <3>1
    <3> QED
      BY <2>5, <2>11, <3>2, <3>3, Zenon
  <2>12. At(bytes', w.start) = header
    BY <1>4, <2>1, <2>3, <2>5, PutOne, Zenon
  <2>13. ASSUME NEW i \in w.start + 1 .. unused - 1, i < Len(bytes)
         PROVE  At(bytes', i) = At(bytes, i)
    <3> HIDE DEF items
    <3>1. i \in Nat /\ w.start < i /\ i < Len(e) /\ i < unused
      BY <1>1, <1>4, <2>7, <2>13
    <3>2. At(e, i) = At(bytes, i)
      BY <1>1, <1>7, <2>13, <3>1, PutAt DEF e
    <3> QED
      BY <2>11, <3>1, <3>2, Zenon
  <2>14. ASSUME NEW i \in 1 .. Len(items)
         PROVE  At(bytes', unused + (i - 1)) = items[i]
    <3> HIDE DEF items
    <3> DEFINE k == unused + (i - 1)
    <3>1. /\ k \in Nat /\ unused <= k /\ k < unused + Len(items) /\ k - unused + 1 = i
          /\ w.start < k /\ k < Len(e)
      BY <1>1, <1>4, <1>5, <1>7, <2>7
    <3> HIDE DEF k
    <3>2. At(e, k) = items[k - unused + 1]
      BY <1>1, <1>7, <3>1, PutAt DEF e
    <3>3. At(bytes', k) = items[i]
      BY <2>11, <3>1, <3>2, Zenon
    <3> QED
      BY <3>3, Zenon DEF k
  <2>15. w.cv \notin damaged =>
           SectionReads(bytes', w.cv, [start |-> w.start, count |-> w.count])
    <3>1. /\ items = Append(IF w.pending > 0 THEN <<PacketItem(w.cv, w.pending)>> ELSE <<>>,
                            IndexItem(w.cv))
          /\ At(bytes', w.start) =
               SectionItem(w.cv, (unused + Len(items)) - w.start,
                           IF w.pending > 0 THEN FirstData(w, unused) ELSE w.data)
      BY <2>12, Zenon DEF items, header, data
    <3>2. Len(bytes) <= Len(bytes') /\ unused + Len(items) <= Len(bytes')
      BY <2>7, <2>8, Zenon
    <3> QED
      BY <1>1, <1>4, <1>5, <2>13, <2>14, <3>1, <3>2, ClosedSection, Zenon
  <2>16. /\ tree'.cv = [tree.cv EXCEPT ![w.cv] = [start |-> w.start, count |-> w.count]]
         /\ tree'.blob = tree.blob /\ tree.cv \in [CV -> [start : Nat, count : Nat]]
    BY <1>1, <1>10, Zenon DEF TreeType
  <2>17. /\ \A c \in CV : c # w.cv => tree'.cv[c] = tree.cv[c]
         /\ tree'.cv[w.cv] = [start |-> w.start, count |-> w.count]
    BY <1>4, <2>16, Zenon
  <2>18. Within(tree, tree') /\ Created(tree') = Created(tree)
    BY <1>5, <2>16, <2>17, Zenon DEF Within, Finished, Created
  <2>19. \A c \in Finished(tree') \ Finished(tree) : c = w.cv
    BY <2>17, Zenon DEF Finished
  <2>20. FileReads(tree', bytes', damaged)
    BY <2>10, <2>15, <2>17, <2>18, <2>19, MoreReads, Zenon
  <2> QED
    BY <1>2, <1>6, <2>20, Zenon DEF WritingReads
<1>11. ASSUME NEW k \in 0 .. Len(items), bytes' = Put(bytes, unused, SubSeq(items, 1, k)),
              UNCHANGED tree
       PROVE  WritingReads'
  <2> DEFINE part == SubSeq(items, 1, k)
  <2>1. k \in Nat /\ k <= Len(items)
    BY <1>7, <1>11
  <2>2. \A i \in 1 .. k : items[i] \in ItemType
    BY <1>7, <2>1, SeqElement
  <2>3. /\ part \in Seq(ItemType) /\ Len(part) = k
        /\ \A i \in 1 .. k : part[i] = items[i]
    BY <2>1, <2>2, SeqPrefix, SMTT(20)
  <2> HIDE DEF part
  <2>4. XmlWithin(part, tree)
    BY <1>7, <2>1, <2>3 DEF XmlWithin
  <2>5. bytes' = Put(bytes, unused, part) /\ unused <= unused
    BY <1>1, <1>11, SMTT(30) DEF part
  <2>6. FileReads(tree, bytes', damaged)
    BY <1>1, <1>5, <2>3, <2>4, <2>5, AppendedReads, Zenon
  <2> QED
    BY <1>2, <1>6, <1>11, <2>6, Zenon DEF WritingReads
<1> QED
  BY <1>3, <1>10, <1>11, Zenon

(***************************************************************************)
(* The XML that close stores is of the tree in memory, all of which is in  *)
(* the file by then; whichever of its stores throws.                       *)
(***************************************************************************)
LEMMA CloseReads ==
  ASSUME TypeInv, TypeInv', SpaceInv, WritingReads, isWriter, close
  PROVE  WritingReads'
<1> USE DEF TypeInv
<1>1. /\ tree \in TreeType /\ bytes \in Seq(ItemType) /\ unused \in Nat
      /\ state = "open" /\ Quiet /\ UNCHANGED <<tree, handle, damaged>>
  BY Zenon DEF TypeOK, close
<1>2. Layout(tree, bytes, unused) /\ FileReads(tree, bytes, damaged)
  BY <1>1, Zenon DEF SpaceInv, WritingReads
<1>3. ASSUME NEW k \in 0 .. XmlSize
      PROVE  FileReads(tree, XmlStored(k), damaged)
  <2> DEFINE items == [i \in 1 .. k |-> XmlItem(tree, i - 1)]
  <2>1. k \in Nat /\ unused <= unused
    BY <1>1, SizeAssumption
  <2>2. \A i \in 1 .. k : XmlItem(tree, i - 1) \in ItemType
    BY <1>1, <2>1 DEF XmlItem, ItemType
  <2>3. items \in [1 .. k -> ItemType] /\ \A i \in 1 .. k : items[i].tree = tree
    BY <2>2, Zenon DEF XmlItem
  <2>4. XmlStored(k) = Put(bytes, unused, items)
    BY Zenon DEF XmlStored
  <2> HIDE DEF items
  <2>5. items \in Seq(ItemType) /\ Len(items) = k
    BY <2>1, <2>3, FunctionIsSeq, Zenon
  <2>6. XmlWithin(items, tree)
    BY <2>3, <2>5, SMTT(30) DEF XmlWithin, Within
  <2> QED
    BY <1>1, <1>2, <2>1, <2>4, <2>5, <2>6, AppendedReads, Zenon
<1>4. FileReads(tree, HeaderStored, damaged)
  <2> DEFINE d == XmlStored(XmlSize)
             header == HeaderItem(unused, Pages(d))
             items == <<header>>
  <2>1. XmlSize \in 0 .. XmlSize /\ 0 \in Nat
    BY SizeAssumption
  <2>2. d \in Seq(ItemType) /\ Keeps(tree, bytes, d) /\ FileReads(tree, d, damaged)
    BY <1>2, <1>3, <2>1, XmlStoredKeeps, Zenon
  <2>3. HeaderStored = Put(d, 0, items)
    BY Zenon DEF HeaderStored
  <2> HIDE DEF d
  <2>4. SectionsOK(tree, d)
    BY <1>1, <1>2, <2>2, KeptSections, SMTT(30) DEF Layout
  <2>5. header \in ItemType /\ header.what = "header"
    BY <1>1, <2>2, PagesType, Zenon DEF HeaderItem, ItemType
  <2> HIDE DEF header
  <2>6. items \in Seq(ItemType) /\ Len(items) = 1 /\ XmlWithin(items, tree)
    BY <2>5 DEF XmlWithin
  <2> HIDE DEF items
  <2>7. \A c \in Finished(tree) : 0 + Len(items) <= First(tree, c)
    BY <1>1, <2>2, <2>4, <2>6, SectionNumbers
  <2>8. Keeps(tree, d, Put(d, 0, items))
    BY <1>1, <2>1, <2>2, <2>4, <2>6, <2>7, PutKeeps, Zenon
  <2>9. \A b \in Created(tree) : 0 + Len(items) <= tree.blob[b]
    BY <1>1, <2>6, BlobNumbers
  <2> QED
    BY <1>1, <2>1, <2>2, <2>3, <2>4, <2>6, <2>8, <2>9, PutReads, Zenon
<1>5. bytes' = HeaderStored \/ \E k \in 0 .. XmlSize : bytes' = XmlStored(k)
  BY Zenon DEF close
<1>6. FileReads(tree, bytes', damaged)
  BY <1>3, <1>4, <1>5, Zenon
<1>7. WritersRead(tree, bytes', handle, unused', damaged)
  BY <1>1, Zenon DEF Quiet, WritersRead
<1> QED
  BY <1>1, <1>6, <1>7, Zenon DEF WritingReads
=============================================================================
