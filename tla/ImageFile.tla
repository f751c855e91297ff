----------------------------- MODULE ImageFile -----------------------------
(***************************************************************************)
(* The life of an E57 file (src/src/ImageFileImpl.cpp): opening it, the    *)
(* space allocator, the binary sections that blobs and compressed vectors  *)
(* put in it, the counts of open writers and readers that keep them apart, *)
(* and close, which writes the XML section and then the header.            *)
(*                                                                         *)
(* The file is the byte array of module FlatFile, seen as a sequence of    *)
(* items: the file header, a section header, a packet, or a piece of XML   *)
(* is one item at one offset.  Each call is one action.  An I/O error or   *)
(* the end of the process can stop it at any of its file operations.       *)
(***************************************************************************)
EXTENDS FiniteSets, Arithmetic

CONSTANTS
  CV,          \* the CompressedVectorNodes attached under the root
  Blob,        \* the BlobNodes a client may create
  Handle,      \* CompressedVectorWriter and CompressedVectorReader objects
  BlobSize,    \* offsets a blob occupies after its section header
  XmlSize,     \* offsets the XML section occupies
  PageSize,    \* offsets per page: the header records the length in pages
  MaxRecords,  \* bound: records written to one vector
  MaxUnused    \* bound: no call allocates space past this offset

ASSUME SizeAssumption ==
  /\ BlobSize \in Nat \ {0}
  /\ XmlSize \in Nat \ {0}
  /\ PageSize \in Nat \ {0}
  /\ MaxRecords \in Nat
  /\ MaxUnused \in Nat

VARIABLES
  state,        \* "none", or the ImageFile object is "open" or "closed"
  isWriter,     \* isWriter_
  unused,       \* unusedLogicalStart_
  writerCount,  \* writerCount_
  readerCount,  \* readerCount_
  tree,         \* what the node tree knows of the binary sections
  handle,       \* the writer and reader objects
  exists,       \* there is a file on the disk
  bytes,        \* its items; the offset of bytes[i] is i - 1
  damaged       \* vectors one of whose write calls threw

memory == <<state, isWriter, unused, writerCount, readerCount, tree, handle>>
vars == <<memory, exists, bytes, damaged>>

-----------------------------------------------------------------------------
(* What the file holds. *)

HeaderSize == 1         \* sizeof( E57FileHeader )
SectionHeaderSize == 1  \* sizeof( CompressedVectorSectionHeader )

ZeroItem == [what |-> "zero"]
HeaderItem(xml, pages) == [what |-> "header", xml |-> xml, pages |-> pages]
XmlItem(t, part) == [what |-> "xml", tree |-> t, part |-> part]
BlobHeaderItem(b) == [what |-> "blobHeader", blob |-> b]
BlobItem(b) == [what |-> "blob", blob |-> b]
SectionItem(cv, length, data) ==
  [what |-> "section", cv |-> cv, length |-> length, data |-> data]
PacketItem(cv, records) == [what |-> "data", cv |-> cv, records |-> records]
IndexItem(cv) == [what |-> "index", cv |-> cv]

At(d, offset) == d[offset + 1]

\* Mutant: the number of the last full page.
PagesLast(d) == (Len(d) \div PageSize) - 1

\* length( Physical ), in pages.
Pages(d) == (Len(d) + PageSize - 1) \div PageSize

\* CheckedFile::write of items at an offset; a gap before them reads as zero.
Put(d, offset, items) ==
  LET end == offset + Len(items)
  IN  [i \in 1 .. IF end > Len(d) THEN end ELSE Len(d) |->
         IF i \in offset + 1 .. end THEN items[i - offset]
         ELSE IF i <= Len(d) THEN d[i] ELSE ZeroItem]

\* CheckedFile::extend to a length that is not below the current one.
Extended(d, length) ==
  Put(d, Len(d), [i \in 1 .. length - Len(d) |-> ZeroItem])

NoTree == [cv |-> [c \in CV |-> [start |-> 0, count |-> 0]],
           blob |-> [b \in Blob |-> 0]]

ClosedHandle(kind) == [kind |-> kind, isOpen |-> FALSE]
NoHandle == ClosedHandle("none")

OpenHandles(kind) == {h \in Handle : handle[h].kind = kind /\ handle[h].isOpen}

\* readFileHeader and the XML parser accept the file d.
Opens(d) ==
  /\ Len(d) >= HeaderSize
  /\ At(d, 0).what = "header"
  /\ At(d, 0).pages = Pages(d)
  /\ At(d, 0).xml + XmlSize <= Len(d)
  /\ \A i \in 0 .. XmlSize - 1 :
       LET item == At(d, At(d, 0).xml + i)
       IN  /\ item.what = "xml"
           /\ item = XmlItem(At(d, At(d, 0).xml).tree, i)

ParsedTree(d) == At(d, At(d, 0).xml).tree

-----------------------------------------------------------------------------
(* Opening. *)

Reset(openState, writes, start, t) ==
  /\ state' = openState
  /\ isWriter' = writes
  /\ unused' = start
  /\ writerCount' = 0
  /\ readerCount' = 0
  /\ tree' = t
  /\ handle' = [h \in Handle |-> NoHandle]

Init ==
  /\ state = "none"
  /\ isWriter = FALSE
  /\ unused = 0
  /\ writerCount = 0
  /\ readerCount = 0
  /\ tree = NoTree
  /\ handle = [h \in Handle |-> NoHandle]
  /\ exists = FALSE
  /\ bytes = <<>>
  /\ damaged = {}

\* construct2( fileName, "w" ), the file created or truncated.
OpenWrite ==
  /\ state = "none"
  /\ Reset("open", TRUE, HeaderSize, NoTree)
  /\ exists' = TRUE
  /\ bytes' = <<>>
  /\ damaged' = {}

\* construct2( fileName, "r" ); it throws, and no object exists, unless Opens.
OpenRead ==
  /\ state = "none"
  /\ exists
  /\ Opens(bytes)
  /\ Reset("open", FALSE, HeaderSize, ParsedTree(bytes))
  /\ UNCHANGED <<exists, bytes, damaged>>

-----------------------------------------------------------------------------
(* Blobs. *)

MayAllocate(size) ==
  /\ state = "open"
  /\ unused + size <= MaxUnused

\* allocateSpace( size, true ) and its extend return.
Extends(size) ==
  /\ isWriter
  /\ unused + size >= Len(bytes)

\* Mutant: the section header is left out of the length of the section.
BlobSectionBare == BlobSize

\* binarySectionLogicalLength_
BlobSection == SectionHeaderSize + BlobSize

\* BlobNodeImpl( destImageFile, byteCount ), then attached under the root.
\* unusedLogicalStart_ moves before anything that can throw.
NewBlob(b) ==
  /\ MayAllocate(BlobSection)
  /\ tree.blob[b] = 0
  /\ unused' = unused + BlobSection
  /\ \/ /\ Extends(BlobSection)
        /\ bytes' = Put(Extended(bytes, unused'), unused, <<BlobHeaderItem(b)>>)
        /\ tree' = [tree EXCEPT !.blob[b] = unused]
     \/ \* writing the header throws
        /\ Extends(BlobSection)
        /\ bytes' = Extended(bytes, unused')
        /\ UNCHANGED tree
     \/ \* extend throws
        UNCHANGED <<bytes, tree>>
  /\ UNCHANGED <<state, isWriter, writerCount, readerCount, handle, exists, damaged>>

\* Mutant: only the start is checked.
BlobFitsStart(start, count) == start < BlobSize

\* What write accepts of the bytes start .. start + count - 1 of a blob.
BlobFits(start, count) == start + count <= BlobSize

\* BlobNodeImpl::write, or the part of it before an I/O error.
BlobWrite(b) ==
  /\ state = "open"
  /\ isWriter
  /\ tree.blob[b] # 0
  /\ \E start \in 0 .. BlobSize, n \in 1 .. BlobSize + 1 :
       /\ BlobFits(start, n)
       /\ bytes' = Put(bytes, tree.blob[b] + SectionHeaderSize + start,
                       [i \in 1 .. n |-> BlobItem(b)])
  /\ UNCHANGED <<memory, exists, damaged>>

-----------------------------------------------------------------------------
(* Writers. *)

\* Mutant: the readers are not looked at.
NoOtherWriter == writerCount <= 0

\* The check writer and reader make before they construct an object.
NoOtherOpen == writerCount <= 0 /\ readerCount <= 0

\* CompressedVectorNodeImpl::writer and the constructor it calls.  A vector
\* is written once: the clients see to it, the code does not check.
NewWriter(h, cv) ==
  /\ MayAllocate(SectionHeaderSize)
  /\ NoOtherOpen
  /\ isWriter
  /\ handle[h] = NoHandle
  /\ tree.cv[cv].start = 0
  /\ unused' = unused + SectionHeaderSize
  /\ \/ /\ Extends(SectionHeaderSize)
        /\ bytes' = Extended(bytes, unused')
        /\ writerCount' = writerCount + 1
        /\ handle' = [handle EXCEPT ![h] =
             [kind |-> "writer", isOpen |-> TRUE, cv |-> cv, start |-> unused,
              data |-> 0, pending |-> 0, count |-> 0]]
     \/ \* extend throws
        UNCHANGED <<bytes, writerCount, handle>>
  /\ UNCHANGED <<state, isWriter, readerCount, tree, exists,
                 damaged>>

WriterOpen(h) ==
  /\ state = "open"
  /\ handle[h].kind = "writer"
  /\ handle[h].isOpen

\* Mutant: the offset of the latest packet instead of the first.
LatestData(w, offset) == offset

\* dataPhysicalOffset_ once a data packet has been stored at offset.
FirstData(w, offset) == IF w.data = 0 THEN offset ELSE w.data

\* write( n ) with n > 0.  The encoders keep the new records, or fill a packet.
Write(h) ==
  LET w == handle[h]
  IN  /\ WriterOpen(h)
      /\ w.cv \notin damaged
      /\ w.count < MaxRecords
      /\ w.data # 0 => w.count > 0
      /\ \/ /\ handle' = [handle EXCEPT ![h].pending = @ + 1, ![h].count = @ + 1]
            /\ UNCHANGED <<unused, bytes, damaged>>
         \/ /\ MayAllocate(1)
            /\ unused' = unused + 1
            /\ bytes' = Put(bytes, unused, <<PacketItem(w.cv, w.pending + 1)>>)
            /\ handle' = [handle EXCEPT ![h].pending = 0, ![h].count = @ + 1,
                                        ![h].data = FirstData(w, unused)]
            /\ UNCHANGED damaged
         \/ \* the packet's bytes have left the encoders when its write throws
            /\ MayAllocate(1)
            /\ unused' = unused + 1
            /\ handle' = [handle EXCEPT ![h].pending = 0]
            /\ damaged' = damaged \cup {w.cv}
            /\ UNCHANGED bytes
      /\ UNCHANGED <<state, isWriter, writerCount, readerCount, tree, exists>>

\* write( 0 ), the only write of a vector without records.
WriteZeroRecords(h) ==
  LET w == handle[h]
  IN  /\ WriterOpen(h)
      /\ w.cv \notin damaged
      /\ w.count = 0
      /\ w.data = 0
      /\ MayAllocate(1)
      /\ unused' = unused + 1
      /\ \/ /\ bytes' = Put(bytes, unused, <<PacketItem(w.cv, 0)>>)
            /\ handle' = [handle EXCEPT ![h].data = unused]
            /\ UNCHANGED damaged
         \/ /\ damaged' = damaged \cup {w.cv}
            /\ UNCHANGED <<bytes, handle>>
      /\ UNCHANGED <<state, isWriter, writerCount, readerCount, tree, exists>>

\* Mutant: isOpen_ is not reset.
LeaveOpen(h, gone) ==
  handle' = [handle EXCEPT ![h] = IF gone THEN NoHandle ELSE handle[h]]

\* What is left of a handle that close or its destructor went through.
Leave(h, gone) ==
  handle' = [handle EXCEPT ![h] = IF gone THEN NoHandle
                                  ELSE ClosedHandle(handle[h].kind)]

\* CompressedVectorWriterImpl::close, or the destructor that calls it (gone).
CloseWriter(h, gone) ==
  LET w == handle[h]
      flushed == IF w.pending > 0 THEN <<PacketItem(w.cv, w.pending)>> ELSE <<>>
      items == Append(flushed, IndexItem(w.cv))
      end == unused + Len(items)
      data == IF w.pending > 0 THEN FirstData(w, unused) ELSE w.data
      header == SectionItem(w.cv, end - w.start, data)
  IN  /\ WriterOpen(h)
      /\ MayAllocate(Len(items))
      /\ writerCount' = writerCount - 1
      /\ Leave(h, gone)
      /\ \/ /\ unused' = end
            /\ bytes' = Put(Put(bytes, unused, items), w.start, <<header>>)
            /\ tree' = [tree EXCEPT !.cv[w.cv] = [start |-> w.start, count |-> w.count]]
         \/ \* storing item k + 1, or the header after them all, throws
            \E k \in 0 .. Len(items) :
              /\ unused' = IF k = Len(items) THEN end ELSE unused + k + 1
              /\ bytes' = Put(bytes, unused, SubSeq(items, 1, k))
              /\ UNCHANGED tree
      /\ UNCHANGED <<state, isWriter, readerCount, exists, damaged>>

\* close() of a closed writer: the count goes down before isOpen_ is looked at.
RecloseWriter(h) ==
  /\ state = "open"
  /\ handle[h].kind = "writer"
  /\ ~handle[h].isOpen
  /\ writerCount >= 0
  /\ writerCount' = writerCount - 1
  /\ UNCHANGED <<state, isWriter, unused, readerCount, tree, handle, exists,
                 bytes, damaged>>

-----------------------------------------------------------------------------
(* Readers. *)

\* The reader's constructor finds a section header and a data packet.
SectionOpens(cv) ==
  LET start == tree.cv[cv].start
  IN  /\ start # 0
      /\ start < Len(bytes)
      /\ At(bytes, start).what = "section"
      /\ At(bytes, start).data < Len(bytes)
      /\ At(bytes, At(bytes, start).data).what = "data"

\* CompressedVectorNodeImpl::reader and the constructor it calls.
NewReader(h, cv) ==
  /\ state = "open"
  /\ NoOtherOpen
  /\ handle[h] = NoHandle
  /\ SectionOpens(cv)
  /\ readerCount' = readerCount + 1
  /\ handle' = [handle EXCEPT ![h] =
                  [kind |-> "reader", isOpen |-> TRUE, cv |-> cv]]
  /\ UNCHANGED <<state, isWriter, unused, writerCount, tree, exists, bytes, damaged>>

CloseReader(h, gone) ==
  /\ state = "open"
  /\ handle[h].kind = "reader"
  /\ handle[h].isOpen
  /\ readerCount' = readerCount - 1
  /\ Leave(h, gone)
  /\ UNCHANGED <<state, isWriter, unused, writerCount, tree, exists, bytes, damaged>>

RecloseReader(h) ==
  /\ state = "open"
  /\ handle[h].kind = "reader"
  /\ ~handle[h].isOpen
  /\ readerCount >= 0
  /\ readerCount' = readerCount - 1
  /\ UNCHANGED <<state, isWriter, unused, writerCount, tree, handle, exists,
                 bytes, damaged>>

\* The destructor of a writer or reader that is closed already.
Destroy(h) ==
  /\ handle[h] # NoHandle
  /\ ~handle[h].isOpen
  /\ Leave(h, TRUE)
  /\ UNCHANGED <<state, isWriter, unused, writerCount, readerCount, tree, exists,
                 bytes, damaged>>

-----------------------------------------------------------------------------
(***************************************************************************)
(* Closing.  Writers and readers need their ImageFile open, also to close: *)
(* clients close them first.                                               *)
(***************************************************************************)
Quiet == \A h \in Handle : ~handle[h].isOpen

\* Mutant: the XML starts after the header, not after the sections.
XmlStoredEarly(k) ==
  Put(bytes, HeaderSize, [i \in 1 .. k |-> XmlItem(tree, i - 1)])

\* The file once close has stored the first k pieces of XML, or everything.
XmlStored(k) == Put(bytes, unused, [i \in 1 .. k |-> XmlItem(tree, i - 1)])

\* Mutant: the length taken before the XML is written.
HeaderStoredStale ==
  Put(XmlStored(XmlSize), 0, <<HeaderItem(unused, Pages(bytes))>>)

HeaderStored ==
  LET d == XmlStored(XmlSize)
  IN  Put(d, 0, <<HeaderItem(unused, Pages(d))>>)

\* ImageFileImpl::close.  When it throws the ImageFile is still open.
close ==
  /\ state = "open"
  /\ Quiet
  /\ \/ /\ isWriter
        /\ bytes' = HeaderStored
        /\ state' = "closed"
     \/ /\ isWriter
        /\ bytes' \in {XmlStored(k) : k \in 0 .. XmlSize} \cup {HeaderStored}
        /\ UNCHANGED state
     \/ /\ ~isWriter
        /\ state' = "closed"
        /\ UNCHANGED bytes
  /\ UNCHANGED <<isWriter, unused, writerCount, readerCount, tree, handle,
                 exists, damaged>>

\* A file being written is removed; a failure of std::remove is not reported.
Unlinked ==
  \/ isWriter /\ exists' = FALSE /\ bytes' = <<>>
  \/ UNCHANGED <<exists, bytes>>

cancel ==
  /\ state = "open"
  /\ Quiet
  /\ state' = "closed"
  /\ Unlinked
  /\ UNCHANGED <<isWriter, unused, writerCount, readerCount, tree, handle, damaged>>

\* ~ImageFileImpl: cancels an open file, whatever that throws.
DestroyImageFile ==
  /\ state # "none"
  /\ Quiet
  /\ IF state = "open" THEN Unlinked ELSE UNCHANGED <<exists, bytes>>
  /\ Reset("none", FALSE, 0, NoTree)
  /\ UNCHANGED damaged

\* The process ends between two calls.
Crash ==
  /\ state # "none"
  /\ Reset("none", FALSE, 0, NoTree)
  /\ UNCHANGED <<exists, bytes, damaged>>

Next ==
  \/ OpenWrite \/ OpenRead
  \/ \E b \in Blob : (OpenHandles("writer") = {} /\ NewBlob(b)) \/ BlobWrite(b)
  \/ \E h \in Handle, cv \in CV : NewWriter(h, cv) \/ NewReader(h, cv)
  \/ \E h \in Handle : Write(h) \/ WriteZeroRecords(h)
  \/ \E h \in Handle, gone \in BOOLEAN : CloseWriter(h, gone) \/ CloseReader(h, gone)
  \/ \E h \in Handle : Destroy(h)
  \/ close \/ cancel \/ DestroyImageFile \/ Crash

Spec == Init /\ [][Next]_vars

(***************************************************************************)
(* Next leaves out two things the documentation lets clients do: calling   *)
(* close on a writer or reader that is closed, and creating a blob while a *)
(* writer is open.  Specifications with each of them:                      *)
(***************************************************************************)
RecloseSpec ==
  Init /\ [][Next \/ \E h \in Handle : RecloseWriter(h) \/ RecloseReader(h)]_vars

BlobWhileWritingSpec == Init /\ [][Next \/ \E b \in Blob : NewBlob(b)]_vars

-----------------------------------------------------------------------------
(* Properties. *)

TreeType == [cv : [CV -> [start : Nat, count : Nat]], blob : [Blob -> Nat]]

HandleType ==
  [kind : {"none", "writer", "reader"}, isOpen : {FALSE}]
    \cup [kind : {"writer"}, isOpen : {TRUE}, cv : CV, start : Nat, data : Nat,
          pending : Nat, count : Nat]
    \cup [kind : {"reader"}, isOpen : {TRUE}, cv : CV]

ItemType ==
  {ZeroItem}
    \cup [what : {"header"}, xml : Nat, pages : Nat]
    \cup [what : {"xml"}, tree : TreeType, part : Nat]
    \cup [what : {"blobHeader", "blob"}, blob : Blob]
    \cup [what : {"section"}, cv : CV, length : Nat, data : Nat]
    \cup [what : {"data"}, cv : CV, records : Nat]
    \cup [what : {"index"}, cv : CV]

(***************************************************************************)
(* Every variable has its type.  In particular a section header never      *)
(* records a negative length, and the counts of pages that close and       *)
(* readFileHeader compare are natural numbers.                             *)
(***************************************************************************)
TypeOK ==
  /\ state \in {"none", "open", "closed"}
  /\ isWriter \in BOOLEAN
  /\ unused \in Nat
  /\ writerCount \in Int
  /\ readerCount \in Int
  /\ tree \in TreeType
  /\ handle \in [Handle -> HandleType]
  /\ exists \in BOOLEAN
  /\ bytes \in Seq(ItemType)
  /\ damaged \subseteq CV

(***************************************************************************)
(* writerCount_ and readerCount_ are the numbers of open writers and       *)
(* readers, through every order of constructors that throw, closes that    *)
(* throw, and destructors (ImageFileImpl::incrWriterCount and the others). *)
(***************************************************************************)
CountsMatch ==
  /\ writerCount = Cardinality(OpenHandles("writer"))
  /\ readerCount = Cardinality(OpenHandles("reader"))

(***************************************************************************)
(* An ImageFile never has two writers, two readers, or a writer and a      *)
(* reader open at once: the checks in CompressedVectorNodeImpl::writer and *)
(* reader read the counts, not the objects.                                *)
(***************************************************************************)
OneAtATime ==
  \A g, h \in Handle : handle[g].isOpen /\ handle[h].isOpen => g = h

(***************************************************************************)
(* The space of every finished section, open writer and blob: from its     *)
(* start to the end its section header records.                            *)
(***************************************************************************)
FinishedSpace(t, d) ==
  {t.cv[cv].start .. t.cv[cv].start + At(d, t.cv[cv].start).length - 1 :
     cv \in {c \in CV : t.cv[c].start # 0}}

BlobSpace(t) ==
  {t.blob[b] .. t.blob[b] + BlobSize : b \in {c \in Blob : t.blob[c] # 0}}

OpenSpace == {handle[h].start .. unused - 1 : h \in OpenHandles("writer")}

(***************************************************************************)
(* No two of them share an offset, and none reaches the file header or the *)
(* space not yet allocated, where close will put the XML: allocateSpace    *)
(* hands out each offset once, whatever fails in between.                  *)
(***************************************************************************)
SpaceDisjoint ==
  state = "open" /\ isWriter =>
    LET spaces == FinishedSpace(tree, bytes) \cup BlobSpace(tree) \cup OpenSpace
        owners == Cardinality({c \in CV : tree.cv[c].start # 0})
                    + Cardinality({b \in Blob : tree.blob[b] # 0})
                    + Cardinality(OpenHandles("writer"))
    IN  /\ \A s \in spaces : s \subseteq HeaderSize .. unused - 1
        /\ \A s, r \in spaces : s # r => s \cap r = {}
        /\ Cardinality(spaces) = owners

(***************************************************************************)
(* A reader finds the records of a vector: it opens at the section header  *)
(* and walks from the first data packet to the next packet and the next,   *)
(* until it has them all; anything but a packet of this section stops it.  *)
(***************************************************************************)
RecordsFound(d, cv, data, last) ==
  LET isPacket(i) == At(d, i).what \in {"data", "index"} /\ At(d, i).cv = cv
      walked(i) == \A j \in data .. i : isPacket(j)
  IN  [n \in 1 .. last + 1 - data |->
         LET i == data + (n - 1)
         IN  IF walked(i) /\ At(d, i).what = "data" THEN At(d, i).records ELSE 0]

SectionReads(d, cv, entry) ==
  LET header == At(d, entry.start)
      last == entry.start + header.length - 1
  IN  /\ header.what = "section" /\ header.cv = cv
      /\ last < Len(d)
      /\ entry.count > 0 =>
           /\ header.data > entry.start
           /\ Total(RecordsFound(d, cv, header.data, last)) = entry.count

TreeReads(t, d) ==
  /\ \A cv \in CV \ damaged : t.cv[cv].start # 0 => SectionReads(d, cv, t.cv[cv])
  /\ \A b \in Blob : t.blob[b] # 0 => At(d, t.blob[b]) = BlobHeaderItem(b)

(***************************************************************************)
(* While a file is open everything its tree refers to is in it: a vector   *)
(* whose writer closed it can be read back packet by packet, and a blob    *)
(* has its section header (CompressedVectorWriterImpl::close, BlobNodeImpl *)
(* and the reader's walk over the packets).                                *)
(***************************************************************************)
OpenFileReads == state = "open" => TreeReads(tree, bytes)

(***************************************************************************)
(* The same of any file on the disk that the library would open, however   *)
(* the session that wrote it ended: ImageFileImpl::close writes the header *)
(* last, so a crash or an error before that leaves a file that is refused, *)
(* never a partial one that opens.                                         *)
(***************************************************************************)
DiskFileReads == exists /\ Opens(bytes) => TreeReads(ParsedTree(bytes), bytes)

(***************************************************************************)
(* ImageFile::close that returns leaves a file that opens to the same tree *)
(* (ImageFile.cpp: "the file on disk will be an accurate representation of *)
(* the ImageFile").                                                        *)
(***************************************************************************)
CloseIsAccurate ==
  [][close /\ isWriter /\ state' = "closed" =>
       Opens(bytes') /\ ParsedTree(bytes') = tree]_vars

(***************************************************************************)
(* A finished section never changes while its file is being written: no    *)
(* later allocation, packet, blob or close touches it.                     *)
(***************************************************************************)
FinishedStays ==
  [][\A cv \in CV :
       tree.cv[cv].start # 0 /\ state' # "none" /\ exists' =>
         \A i \in 0 .. At(bytes, tree.cv[cv].start).length - 1 :
           At(bytes', tree.cv[cv].start + i) = At(bytes, tree.cv[cv].start + i)]_vars

(***************************************************************************)
(* The records given to a writer that is destroyed without a call of close *)
(* do not reach its vector, which keeps the record count it had            *)
(* (CompressedVectorWriter.cpp: "all writes to the CompressedVectorNode    *)
(* will be lost (it will have zero children)").  The code does not keep to *)
(* this: the destructor calls close, which sets the count.                 *)
(***************************************************************************)
DestroyedIsLost ==
  [][\A h \in Handle :
       WriterOpen(h) /\ handle'[h] = NoHandle /\ state' = "open" =>
         tree'.cv[handle[h].cv].count = tree.cv[handle[h].cv].count]_vars
=============================================================================
