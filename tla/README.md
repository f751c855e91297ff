# libE57Format in TLA+

libE57Format reads and writes ASTM E57 files: point clouds and images in a
paged, checksummed container with an XML section that describes binary
sections. This directory holds TLA+ models of its core, the TLC configurations
that check them on small instances, and proofs checked by TLAPS. Paths below
are relative to the repository; `PROJECT.json` maps every definition to the
lines it models.

## The system

| Part | State | Operations | Hard behaviours | Module |
|---|---|---|---|---|
| CheckedFile | file descriptor, `logicalLength_`, cursor, checksum policy | open, seek, read, write, extend, close | partial pages, errors between pages, pages that are not verified | `CheckedFile`, `FlatFile` |
| ImageFile | open or closed, mode, `unusedLogicalStart_`, writer and reader counts, root | construct, `allocateSpace`, close, cancel, destructor | errors and crashes between sections, XML and header | `ImageFile` |
| Blobs | section start and length | construct, read, write | space taken before a throw, creation during a write | `ImageFile` |
| CompressedVectorWriter and encoders | bytestreams with register and output buffer, record counts, section start | construct, write, close | partial words, packets that overflow, long strings, throws half way | `CompressedVectorWriter`, and as a handle in `ImageFile` |
| CompressedVectorReader, channels, decoders | position of every channel, input buffers, records completed | construct, read, close | channels that drift apart, blocks smaller than packets | `CompressedVectorReader`, and as a handle in `ImageFile` |
| PacketReadCache | entries, lock count, use count | lock, unlock, `readPacket` | entries overwritten before they are verified | not modelled |
| Node tree, leaves, names | parents, children, attachment, element names, bounds | construct, set, append, lookup by path, `checkBuffers`, `writeXml` | late attachment, homogeneous vectors, paths resolved in different ways | `LeafNode`, `NodeTree`, `ElementTree` |
| XML parser | stack of open elements | `startElement`, `characters`, `endElement` | attributes left out, names escaped, nodes built late | `XmlParser`, `ElementTree` |
| SourceDestBuffer, values in encoders and decoders | cursor in a user buffer | `getNext...`, `setNext...`, encode, decode | ranges, widths, scaling, rounding | `SourceDestBuffer` |
| Simple API | the two vectors of a file | all operations of `Writer` and `Reader` | half-built scans, computed limits, elements left out, copies | `SimpleData`, `SimpleWriter`, `SimpleReader`, `SimpleApi` |
| Public handles, exceptions, versions | none | forwarding, `checkInvariant`, formatting | none | `checkInvariant` in `NodeTree` |

How they interact: nodes, writers and readers share one ImageFile, which owns
one CheckedFile. Sections, packets and blobs get their space from
`allocateSpace`. A writer turns the user's buffers into packets through its
encoders. A reader takes packets from the cache, which reads them from the
CheckedFile, and feeds them to decoders that fill the user's buffers. The tree
of nodes becomes XML when the file is closed, and the parser makes a tree of it
when the file is opened. The Simple API stands on top: it lays out a scan or an
image as nodes and vectors, and reads them back. The code runs in one thread. What makes it hard is not concurrency but the order of
calls, errors in the middle of a call, and boundaries between pages, words,
buffers and packets.

## Modules

**`CheckedFile`** models `src/src/CheckedFile.cpp`. The disk is a sequence of
cells: data bytes and, at the end of each page, the page's checksum. A call is
one action with alternatives for an I/O error before any of its pages; a seek
past the end of a file in memory fails, as `BufferView::seek` does. The
checksum is perfect: it is a function of the page's bytes that is injective.
`Decay` is the storage losing a cell of a file at rest. **`PageOffset`** has the
conversions between physical and logical offsets, which the XML needs too.

**`FlatFile`** is what CheckedFile promises: an array of bytes with a cursor.
`CheckedFile!Flat` instantiates it with the logical view of the disk, and
`ImplementsFlatFile` says that the paged file implements it. A failed write may
have stored some of its bytes and no others; a read returns the bytes of the
array, or throws, or, if the policy skips pages, returns lost bytes wrongly.

**`ImageFile`** models `ImageFileImpl.cpp`, `BlobNodeImpl.cpp`, and those parts
of the compressed vector's node, writer and reader that concern the file as a
whole. The file is the flat array, seen as items: a file header, a section
header, a packet or a piece of XML is one item at one offset. A call is one
action; its alternatives are the places where an I/O error can stop it, and
`Crash` ends the process. Clients are taken to follow the documented order:
writers and readers are closed before their ImageFile, a vector is written
once, and a writer that threw is only closed. `RecloseSpec` and
`BlobWhileWritingSpec` add what the documentation allows beyond that.

**`CompressedVectorWriter`** models `CompressedVectorWriterImpl.cpp` with
`Encoder.cpp`. The contents of a byte are left out; how many bits there are of
each bytestream, and where they are (register, output buffer, packets, the rest
of a string), is kept. An iteration of the loops in `write` and `close` is one
step and `pc` keeps other calls out. The share of a bytestream in a packet that
overflows is computed in float by the code: where the exact share is close
enough to a whole number, by the precision `FloatPrecision` of a float, it may
come out one byte less or one byte more. The code's check of the sum has no
alternative of its own because it never fails: the byte it leaves free is more
than the floats can be off (`CountsBounds`). A string encoder takes one string
an iteration, and an element of the wrong type is refused at the first.

**`CompressedVectorReader`** models `CompressedVectorReaderImpl.cpp` with
`DecodeChannel.cpp` and `Decoder.cpp` in the same way. The section is *any*
sequence of packets that holds the bytestreams, however cut, because other
programs write E57 files too.

**`NodeTree`** models `NodeImpl.cpp`, `StructureNodeImpl.cpp`,
`VectorNodeImpl.cpp`, the leaves, `CompressedVectorNodeImpl.cpp` as a node, and
the names and paths of `ImageFileImpl.cpp`. A heap is a function from addresses
to nodes, and every operation is an operator from a heap to a heap and an
error. `CheckInvariant` is what the `checkInvariant` functions test.
**`LeafNode`** has the numeric leaves: their bounds, and what becomes of them in
the text of the XML. A double and an integer are written exactly. A float has
eight significant digits, which are read as a double: values lie on three
grids (doubles, floats, decimals), and the decimal nearest to `FLT_MAX` is
larger than `FLT_MAX`, as in the code.

**`XmlParser`** holds `writeXml`, as the sequence of events a SAX parser makes of
its text, and the handlers of `E57XmlParser.cpp`, which take one event a step.
An attribute is left out where the code leaves it out. Numbers go through the
text of `LeafNode`, and the `fileOffset` of blobs and compressed vectors is a
physical offset in the XML and a logical one in the nodes. CDATA sections are
cut and joined as the code does it.

**`ElementTree`** composes the two: an application constructs nodes, sets and
appends them, registers extensions, makes compressed vectors, writes records and
lets nodes go; the file is closed and opened. A call that throws changes nothing
here, so only calls that succeed are steps. The application keeps three rules
that the library does not enforce: no node is put below itself, children of a
vector are appended and not set by path, and prototypes and codecs are used for
nothing else.

**`SourceDestBuffer`** models `SourceDestBufferImpl.cpp` and the values that
encoders and decoders make of it. A real is a number of units, so that scaling
and rounding are exact; the widths of the integer representations are constants.
Casts of a real to an integer type that the language leaves undefined saturate
or yield the minimum, by the processor: `saturates` is chosen once, in `Init`.
They do occur: `RealMax` is the limit as the code compares it, cast to the type
of the real, which for `Int32` and `UInt32` against a float, and for `Int64`
always, is one more than the largest integer.

**`SimpleData`**, **`SimpleWriter`** and **`SimpleReader`** model
`E57SimpleData.h`, `E57SimpleData.cpp`, `WriterImpl.cpp`, `ReaderImpl.cpp` and
`_fillMinMaxData` of `E57SimpleWriter.cpp` as operators: from a header to the
elements of a scan and back, from points to the codes of a vector and back.
`NewData3D` yields the elements made so far when it throws. The section of a
vector is absent, bare (written, without data packets) or has packets.

**`SimpleApi`** composes them: a Writer is called any way, some calls throw, the
file is closed and a Reader asked. The Reader's calls are const, so each is the
first of a file just opened. A file whose floats are out of their bounds once
they are text (`Legible`) is refused when it is opened. `log` and `imageLog`
record what the caller gave; the properties compare the answers with them.
Fewer than 50 records are written at once, so a write encodes one bytestream
after the other, and one that throws does so at the first value refused.

**`MC...`** modules give the instances and symmetries for TLC.
**`Arithmetic`** holds the sums and roundings that the writer and the reader of
vectors share.

The theorems are in modules of their own:

| Module | About |
|---|---|
| `ArithmeticProofs` | lemmas on sums, products, quotients and rounding |
| `CheckedFileProofs` | types and pages of `CheckedFile`, and that it implements `FlatFile` |
| `ImageFileProofs` | types and counts of `ImageFile`; what keeps the sections in a file |
| `ImageFileReadProofs` | that each action keeps what can be read of a file |
| `ImageFileSpaceProofs` | the space of an `ImageFile`, its close, and what can be read |
| `CompressedVectorShapeProofs` | one encoder, one packet, and where the encoders can stand |
| `CompressedVectorWriterProofs` | the theorems about `CompressedVectorWriter` |
| `CompressedVectorReaderProofs` | the theorems about `CompressedVectorReader` |

A definition whose comment starts with "Mutant:" is a plausible wrong version of
the definition that follows it. `PROJECT.json` says which property each one
breaks when it is put in that definition's place.

## What the runs check

| Run | Shows | Distinct states |
|---|---|---|
| `checked_file` | Pages keep their checksums (`PagesSound`), the length never runs ahead of the disk (`LengthBacked`), the file is a flat array (`ImplementsFlatFile`). | 21,919 |
| `image_file` | Counts match the open objects (`CountsMatch`) and keep them apart (`OneAtATime`); no space is handed out twice (`SpaceDisjoint`); what the tree refers to is there, in the open file (`OpenFileReads`) and in any file on the disk that would open (`DiskFileReads`); a close that returns is accurate (`CloseIsAccurate`); finished sections do not change (`FinishedStays`). | 87,839 |
| `cv_writer` | No bit is lost or doubled (`BitsConserved`), a closed vector is complete (`ClosedIsComplete`), packets pass the reader's checks (`PacketsVerify`), no internal error for narrow prototypes (`NarrowNoInternalError`), write and close end (`WriteFinishes`, `CloseFinishes`). | 33,713 |
| `cv_reader` | Decoders get each byte once and in order (`FedInOrder`), reads are full (`ReadIsFull`) and end (`ReadFinishes`), no internal error unless strings are read in small blocks (`PackedNoInternalError`). | 69,109 |
| `node_tree` | Pointers do not dangle (`TypeOK`) and the class invariants hold after every call and of the tree that is read, but around a child that was given no name (`ClassInvariant`); what is placed stays (`RelationsStay`); children of a homogeneous vector stay equivalent (`VectorsUniform`); buffers a writer accepts leave out no leaf (`LeavesCovered`); a file is refused exactly if its tree is not `Readable` (`ReaderAccepts`), and else read back as it was, but for floats, which come back as their eight digits (`RoundTrip`). | 101,855 |
| `simple_api` | A header comes back, as far as its leaves can hold it (`HeaderKept`), and, if it is `Copyable`, makes the same scan again (`CopyStable`); points and groups come back (`PointsKept`) or are refused without a trace (`FailureLeavesNoPoints`); computed limits admit their points, and `NewData3D` takes them if 0 is among them (`FilledLimitsHold`); conversions wrap in no case but those named (`NeverWraps`); sizes and images agree with what was written (`SizesAgree`, `ImagesKept`). | 189,142 |

Six runs end in a violation: each checks what a document or comment says and
the code does not do.

| Run | Disagreement |
|---|---|
| `reclose` | `close` of a closed writer or reader is documented as harmless; it decrements the count of open ones again. |
| `blob_while_writing` | A blob may be created at any time; while a writer is open it lands between the writer's packets, and the vector cannot be read back. |
| `destroyed_writer` | The records of a writer destroyed without `close` are documented as lost; the destructor closes it, and the record count of the vector goes from 0 to what was written. |
| `long_string` | A vector of one string field throws `ErrorInternal` for strings that fill the output buffer: the padding's double check refuses the last byte of the packet. |
| `string_blocks` | Strings cannot be read in blocks: the string decoder does not stop at a full buffer. |
| `new_buffers` | `read( dbufs )` returns a count without transferring anything, because channels and decoders keep the old buffers. |

### Bounds

Sizes are constants, so a small instance keeps the relations that matter.

- `checked_file`: pages of 2 data bytes and 1 checksum cell, up to 4 bytes,
  transfers of up to 4 bytes. Every transfer within a page, ending at a
  boundary, and spanning pages occurs. Policy 0 verifies no page and 100 all.
  Policy 50 skips every other page unless less than a page is left to read,
  which takes three pages to happen: with 5 bytes and policies 50 and 100 (106,828 states) the
  run passes too, and `FlatFileImplemented` is proved for all policies and
  lengths. A write of no bytes past the end, which sets a length without a
  page, is left out: no caller makes one. `ShortWrites` is FALSE; with TRUE a
  short `::write`, which the code accepts, breaks `PagesSound` and
  `LengthBacked`.
- `image_file`: two vectors, a blob, two handles, two records per vector, six
  offsets. That is enough for two sections, a blob, failures between them, and
  a second session that reads. With seven offsets (524,104 states) and eight
  (2,880,446 states) it passes too.
- `cv_writer`: bytes of 4 bits, words of 1 and 2 bytes, packets of 40 bytes, 12
  records. The prototypes are two narrow ones, one that is only a constant, one
  wide enough for packets to overflow, and two with strings longer than a
  packet. Records cross words, buffers shift and packets overflow. With
  `FloatPrecision` 256, where the code has 2^22, shares that are rounded up
  and shares that are rounded down both occur. With 24 records (369,212
  states) it passes too. `Batch` is 1 where the code asks for 50 records at a
  time; the proofs are for any `Batch` of bit-packed fields.
- `cv_reader`: 4 records, capacities 1, 3 and 4, every cut into up to three
  packets, input buffers of two words of the widest decoder.
- `node_tree`: twelve kits of one to six nodes, each aimed at one family of cases:
  structures and compressed vectors in homogeneous vectors, names (numbers,
  extensions, malformed, `e57Root`), namespaces, every kind of leaf, floats up to
  `FLT_MAX`, paths that end with a slash, nodes let go, prototypes. All orders
  of set and append of a kit are explored. Strings have two `]]>`, and are cut
  and joined. Pages have their real size, and sections start in the first,
  second and third page.
- `simple_api`: six units to 1.0, floats two units apart, decimals of eight
  digits three apart, `int64_t` from -16 to 15 and the narrower integers below
  it, so that every limit can be met and passed. There are 59 scans (each field
  group as Integer, ScaledInteger, Float and Double, fields without the one
  their limits are read from, limits given, computed and extreme, constants,
  groups, bounds) and four images; three of the scans and one image may come
  second, and one further write follows. Readers have buffers for 1 and 3
  points; fields are also read through twelve kinds of the caller's own buffers.

`checked_file` and `image_file` check for deadlock. The other runs do not: a
closed writer or reader, a tree that has been read and a Reader that has
answered do nothing more.

### What the library does not refuse

Modelling met cases that the interface accepts and that the properties above
leave out by name. None contradicts a line of the documentation, so none is a
violation run.

- `Readable` lists the trees that can be written and not opened: a name that is
  empty or a number in a structure, a nested structure named `e57Root`, codecs
  that are homogeneous, a homogeneous vector whose children differ in what the
  XML shows of them (such as the record counts of compressed vectors), the
  E57 namespace registered under a prefix of its own, and a single precision
  float of `FLT_MAX` or `-FLT_MAX`: its text is 3.4028235e+38, which is read as
  a double above the maximum.
- For the same reason a scan with an intensity limit of `FLT_MAX`, as a Float,
  makes a file that cannot be opened (`HeaderKept`). Every other float is read
  back as the double of its eight digits, not as the float.
- `StructureNode::set` with a path that ends with a slash makes a child with an
  empty name; `checkInvariant` throws on it, on its parent and, in the file, on
  what is below it (`ClassInvariant`).
- `Copyable` lists the headers that `ReadData3D` does not give back in full: y or
  z without x, elevation without azimuth, `returnCount` without `returnIndex`,
  intensity limits of another type without the intensity, a scale of 0, colour
  limits beyond 16 bits, boxes of limits that are 0 without their fraction.
- A value of 2^31, 2^32 or 2^63 in a Float field passes the check of an `Int32`,
  `UInt32` or `Int64` buffer when the maximum, as a float or double, is rounded
  up to it, and overflows (`NeverWraps`). The same holds of 2^63 as the raw
  value of a ScaledInteger that is written (`PointsKept`).
- A `Bool` buffer is filled with the opposite of the value, and doubles beyond
  the range of a float become infinite in a `Real32` buffer (`NeverWraps`).
- `StructureNode::set` with a path into a vector checks neither index nor type.
- A prototype can be set as the child of another structure before its vector is
  attached.
- A buffer with an absolute path is accepted only for Float leaves
  (`checkLeavesInSet`); LeavesCovered holds nevertheless.
- A scan whose fields are all constant has no data packet and cannot be read.
- The constant encoder compares unscaled values: a ScaledInteger with one raw
  value refuses points that would round to it (`FilledLimitsHold` says so).
- Computed limits that exclude 0 leave a scan without points, because the
  prototype's value is 0; the indices of the others are right
  (`FailureLeavesNoPoints`, `FilledLimitsHold`).
- A scale of 0 is refused for points and angles, not for intensity and time.
- A second write of a scan that throws loses the points of the first.
- Scaling into an `Int64` buffer is not checked for overflow (`NeverWraps`).

### Fairness

Only steps inside a call have weak fairness (`WriteStep`, `CloseStep`,
`ReadStep`): the thread that entered the loop goes on executing it. Calls are
never forced, and neither are the alternatives that throw, so termination does
not rest on an error coming to help.

## What is proved

`CheckedFileProofs` proves, for all page and checksum sizes that satisfy
`PageSizeAssumption`, any bytes, and any naturals as `MaxLogicalLength` and
`MaxTransfer`:

- `TypeCorrect`: `Spec => []TypeOK`, short writes included. `TypeOK` says that
  what a read returns is bytes, which is not inductive: a cell may hold a
  checksum. `DataCells` adds that the cells of the data part of a page hold
  bytes. A page that is torn, only partly on the disk, could bring the buffer
  something else; `PageImageType` uses that write and extend throw before they
  store such a page or the one after it.
- `PagesStaySound`: `~ShortWrites => (Spec => []PagesSound)`.
- `LengthStaysBacked`: `~ShortWrites => (Spec => []LengthBacked)`. Both follow
  from `PageInv`, the two with the types. `StoresWhole` says what a call does to a
  disk of whole pages: each page after it is as before, stored by the call, or
  skipped over and zero. It covers calls that return and calls that an error
  stops, which differ in the last page only.

It also proves `FlatFileImplemented`:
`~ShortWrites => (Spec => ImplementsFlatFile)`. `RefInv` adds to `PageInv` that
the length stays backed while the file is closed, which opening it again relies
on, and that the policy is a percentage. `ViewAfter` reads `StoresWhole` through
the logical view: a byte the call wrote has its new value, any other byte of the
file keeps its value or was lost before. `DecayedPage` shows that a page whose
checksum matched does not match once a cell of it has changed. One lemma per
operation maps its steps to steps of `FlatFile`.

The hypothesis `~ShortWrites` is needed: `::write` may store less than a page and
say so in its result, which `writePhysicalPage` takes for success.

`ImageFileProofs` proves, for every set of vectors, blobs and handles and all
sizes that satisfy `SizeAssumption` (the bounds `MaxRecords` and `MaxUnused` may
be any naturals):

- `TypeCorrect`: `Spec => []TypeOK`. `TypeOK` is not inductive: a section header
  records `unused - start`, which is natural only if the start of an open
  writer's section lies below `unused`. `SectionAllocated` adds that, and
  `TypeInv == TypeOK /\ SectionAllocated` is inductive. One lemma per action
  shows that it keeps `TypeInv`; the lemmas on `Put` and `Extended` carry the
  types of what the file holds.
- `CountsAreAccurate`: `Spec => []CountsMatch`.
- `WritersAndReadersExclude`: `Spec => []OneAtATime`. The two need each other:
  the counts say that no object is open only if they are right, and a close
  takes one off correctly only if the object closed was the only one open.
  `CountInv == CountsMatch /\ OneAtATime` is inductive together with `TypeInv`.

Handles need not be finite: as at most one is open, the sets that are counted
have at most one element.

`ImageFileSpaceProofs` proves, under the same assumptions:

- `SpaceNeverShared`: `Spec => []SpaceDisjoint`.
- `FinishedSectionsStay`: `Spec => FinishedStays`.
- `CloseAccurate`: `Spec => CloseIsAccurate`.

None of them is inductive. Where a section ends is recorded in the file, so two
sections stay disjoint only if no write touches a section header, and a write
touches none only if it goes at or above `unused`, into a blob of its own, over
the header at offset 0, or over the header of the section being closed.
`SpaceInv` says so: in a file being written every finished section has its
header and lies within the file (`SectionsOK`), everything lies below `unused`
(`Below`), no two extents overlap (`AllApart`), and the section of an open writer
comes after all others (`WritersLast`), which is why its header can be stored
last. `WritersWrite` adds that only a file being written has writers. `Keeps`
says that a write leaves the finished sections as they are; `PutKeeps` derives it
from the extents, `LayoutKept` derives from it that the layout survives, and one
lemma per action shows both. `CountInv` is needed too: it leaves one writer at
most to be last. `SpaceDisjoint` also counts: `LayoutDisjoint` maps each owner to
its offsets and adds up the three families. `CloseAccurate` needs of the layout
only that `unused` is above the file header, so that the header does not
overwrite the XML. The proof for `NewBlob` uses that no writer is open;
run `blob_while_writing` shows what happens without that.

It also proves what a reader finds, whatever threw or crashed before:

- `OpenFilesRead`: `Spec => []OpenFileReads`.
- `DiskFilesRead`: `Spec => []DiskFileReads`.

Neither is inductive: a section can be read because its packets were stored one
by one before it had a header, and the file on the disk because the tree in its
XML was one of the trees in memory. `ReadInv` adds three facts about a file
being written. The sections of vectors whose writers never threw, and the
headers of blobs, are in the file (`SectionsRead`, `BlobsThere`). From the first
data packet of an open writer up to `unused` there are data packets of its
vector only, and their records and the pending ones are those that were written
(`PacketsThere`). And every piece of XML in the file, that of a close that threw
included, describes a tree that the tree in memory extends (`XmlWithin`): this is
why a file whose header a later close stored opens to nothing that is missing.
`SectionFound` is the step from packets to a section: once the index packet and
the section header are stored, the walk of a reader meets the packets that were
counted, and their sum is the record count of the tree. `KeptReads` carries that
over every write that keeps the section. `LayoutInv`, which is the invariant of
the three theorems above, says which writes do. One lemma per action in
`ImageFileReadProofs` shows that it keeps `ReadInv`.

`CompressedVectorWriterProofs` proves, for every prototype that satisfies
`PrototypeAssumption`, all sizes that satisfy `SizeAssumption` and any number of
records:

- `TypeCorrect`: `Spec => []TypeOK`.
- `BitsAreConserved`: `Spec => []BitsConserved`.
- `ClosesComplete`: `Spec => []ClosedIsComplete`.
- `PacketsAreValid`: `Spec => []PacketsVerify`.
- `NarrowIsSafe`: `Spec => []NarrowNoInternalError`.

Two invariants carry the first three. `WriterShape` says where an encoder can stand:
between calls that succeed all are at `recordCount`, and while records are
packed the output of a bit-packed encoder leaves room for one more word. The
second part is what close relies on: `registerFlushToOutput` does nothing if
there is no room, and the loop of close would end with bits still in the
register. `Accounted` says what became of the bits. As long as nothing threw it
is exact: the bytes produced are the whole words of the bits, and the register
holds the remainder, until the flush of close rounds up to the next word.
`BitsConserved` alone is not inductive, because after the flush it has to be
known that the register was below one word. After a throw only a bound is left.
`PackBitsBalanced` is the lemma behind it: an encoder asked for up to `Batch`
records takes as many as fit, and moves the quotient of its bits to the output
and the remainder to the register. `Shares` and `CountsBounds` say that the
shares of a packet that overflows are no more than what is available and
together no more than the payload, rounded down or up: a share that is rounded
up is short of a whole number by no more than the precision of a float
(`FloatShare`), and together these are less than the byte that the code keeps
free (`Slack`, from `PacketMax <= FloatPrecision`). For
`NarrowIsSafe`, `NarrowRoom` adds up what the streams have and what the flush
may still add; one iteration adds `Growth` to each at most, and starts below
the target.

`PrototypeAssumption` says that what one iteration adds to one bit-packed stream
fits between the target size of a packet and its maximum. In the code that is
50 records of at most 8 bytes against a quarter of 64 KiB. Without it an encoder
may fill its output and wait for a packet that is never due.

`CompressedVectorReaderProofs` proves, for every prototype, every capacity, every
number of records and every section that `IsSection` admits:

- `TypeCorrect`: `Spec => []TypeOK`.
- `BytesAreFedInOrder`: `Spec => []FedInOrder`.
- `ReadIsConsistent`: `Spec => []PackedNoInternalError`.
- `ReadsAreFull`: `Spec => ReadIsFull`.

All follow from `ReaderOK`. Of each channel it says what its decoder has in hand
(`DecoderOK`) and where it stands in the section (`PlaceOK`): the bytes received
are those of the packets before its own, and of its own up to its index. Two
facts are needed that no property states. A string decoder never holds a
complete string, so the first pass of `read`, which does not look at the
capacity, stores none. And all channels that stand together when `read` is called
stand together when it returns. `MovedOK` shows that a decoder that needs
bytes always finds a packet to move to: `SkippedPackets` sums the packets that
`findNextDataPacket` skips to 0, and the section holds the whole bytestream.
`AllStored` shows that when no channel is hungry every one of them has stored the
same number of records. The prototype is not empty, because the constructor
refuses an empty `dbufs`.

`ArithmeticProofs` proves what these rest on: sums are monotonic, additive and
bounded (`SumMonotonic`, `SumAdd`, `SumGrows`, `SumGap`), quotients are unique
(`DivUnique`) and `RoundUp` yields the least multiple. Induction over the numbers
is done through a least counterexample (`LeastNatural`) and sets
(`SetInduction`), because a theorem with an operator as parameter cannot be
instantiated.

TLC confirmed `WriterShape`, `Accounted`, `NarrowRoom`, `ReaderOK` and `ReadInv` on
the instances of the runs before they were proved.

Only model-checked:

- `NodeTree`, `XmlParser` and `ElementTree`: what they compute of a tree, the
  XML and its parse, is defined by recursion over the tree, and needs an
  induction over trees;
- the Simple API, which is a comparison of two long tables of fields rather than
  an induction over steps;
- termination (`WriteFinishes`, `CloseFinishes`, `ReadFinishes`), which is
  liveness under fairness.

## What is not modelled

- The packet cache: a reader gets the packet at the offset it asks for.
- The shifts and masks within a word, and the bytes of packets and of blobs below
  the Simple API.
- CRC-32C (CRCpp), taken to detect every damage, and Xerces, taken to deliver the
  events of the document.
- XML of other programs: the parser is given what `writeXml` makes.
- Strings in buffers, strings that an encoder takes several at a time, the
  compatibility check of buffers of two writes, and the rounding of an `int64_t`
  above 2^53 in a double.
- The public classes forward to the implementation. `seek` of a reader always
  throws. `dump` functions, messages and versions have no state.

## Plan

1. `PacketCache`: a packet handed out is the one at the offset asked for, also
   after an earlier read threw.
2. Theorems: what can be shown of `ElementTree` without recursion (`TypeOK`,
   `RelationsStay`).
