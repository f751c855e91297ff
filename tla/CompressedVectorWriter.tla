----------------------- MODULE CompressedVectorWriter -----------------------
(***************************************************************************)
(* How records become packets: CompressedVectorWriterImpl.cpp over the     *)
(* encoders of Encoder.cpp.  Each field of the prototype has an encoder, a *)
(* bytestream: records enter a bit register, full words move on to an      *)
(* output buffer, and packetWrite takes bytes from all the buffers at once *)
(* to make a data packet.  What a byte says is left out; how many there    *)
(* are, and where they are, is kept.                                       *)
(*                                                                         *)
(* write and close are loops.  An iteration is a step here; pc makes sure  *)
(* nothing comes between the steps of a call.  A step can throw: an I/O    *)
(* error in packetWrite, a value the encoder refuses in processRecords.    *)
(***************************************************************************)
EXTENDS Arithmetic

CONSTANTS
  ByteBits,       \* bits of a byte: 8 in the code
  PacketMax,      \* DATA_PACKET_MAX: 65536, also the size of outBuffer_
  HeaderSize,     \* sizeof( DataPacketHeader ): 6
  LengthSize,     \* sizeof( uint16_t ), per bytestream
  LongPrefix,     \* worst case of a string's length prefix: 8 bytes
  Batch,          \* records processRecords is asked for at most: 50
  FloatPrecision, \* a float share is off by one part in so many: 2^22
  Prototypes,     \* prototypes to try: sequences of encoders, see Encoder
  Requests,       \* sizes of write calls
  MaxRecords      \* bound: records in one vector

(***************************************************************************)
(* An encoder: bits per record (0 for the constant integer encoder), bytes *)
(* per register word or float, and for a string encoder the lengths its    *)
(* strings may have, prefix included, in bytes ({} for the other kinds).   *)
(***************************************************************************)
Encoder == [bits : Nat, word : Nat \ {0}, strings : SUBSET Nat]

\* Bytes one iteration and the flush of close can add to the output of e.
Growth(e) ==
  LET word == e.word * ByteBits
  IN  ((word - 1 + Batch * e.bits) \div word + 1) * e.word

ASSUME SizeAssumption ==
  /\ {ByteBits, PacketMax, HeaderSize, LengthSize, LongPrefix, Batch}
       \subseteq Nat \ {0}
  /\ PacketMax % 4 = 0
  /\ FloatPrecision \in Nat /\ PacketMax <= FloatPrecision
ASSUME PrototypeAssumption ==
  \A p \in Prototypes :
    /\ p \in Seq(Encoder)
    /\ HeaderSize + Len(p) * LengthSize < (PacketMax * 3) \div 4
    /\ \A s \in DOMAIN p : p[s].bits <= p[s].word * ByteBits
    /\ \A s \in DOMAIN p :
         IF p[s].strings # {}
         THEN /\ p[s].word = 1
              /\ Batch = 1  \* processRecords of strings is modelled for one record
         ELSE \* above the target there is room for 50 records of 8 bytes
              (PacketMax * 3) \div 4 + Growth(p[s]) <= PacketMax - p[s].word
ASSUME RequestAssumption == Requests \subseteq Nat /\ MaxRecords \in Nat

VARIABLES
  encoders,     \* bytestreams_
  pc,           \* "idle", in the loop of "write" or of "close", or "closed"
  endRecord,    \* endRecordIndex of the current write
  recordCount,  \* recordCount_
  index,        \* currentRecordIndex_ of each encoder
  register,     \* registerBitsUsed_ of each encoder
  first, end,   \* outBufferFirst_ and outBufferEnd_ of each encoder
  rest,         \* bytes of the active string not yet in outBuffer_
  fetched,      \* bytes of all strings taken from the source buffer
  sent,         \* bytes of each bytestream in stored packets
  packet,       \* the last data packet: its length and its bytes per stream
  error         \* "none", or why the last call threw

vars == <<encoders, pc, endRecord, recordCount, index, register, first, end,
          rest, fetched, sent, packet, error>>

Streams == DOMAIN encoders
Bits(s) == encoders[s].bits
Word(s) == encoders[s].word
IsString(s) == encoders[s].strings # {}

outputAvailable == [s \in Streams |-> end[s] - first[s]]

\* Header and bytestreamBufferLength fields of a packet.
Overhead == HeaderSize + Len(encoders) * LengthSize

currentPacketSize == Overhead + Total(outputAvailable)

\* Mutant: a target no output buffer can reach.
TargetUnreachable == PacketMax * 3

\* E57_TARGET_PACKET_SIZE
Target == (PacketMax * 3) \div 4

PacketMaxPayload == PacketMax - Overhead

-----------------------------------------------------------------------------
(* Encoders. *)

\* Mutant: the end is not rounded up to the alignment.
ShiftedEndUnaligned(s) == outputAvailable[s]

\* outBufferShiftDown: where the output of s starts and ends afterwards.
ShiftedEnd(s) == RoundUp(outputAvailable[s], Word(s))
ShiftedFirst(s) == ShiftedEnd(s) - outputAvailable[s]

\* Records that fit in the output of s, after the shift.
MaxOutputRecords(s) ==
  LET word == Word(s) * ByteBits
      capacity == (PacketMax - ShiftedEnd(s)) \div Word(s)
  IN  (capacity * word + word - register[s] - 1) \div Bits(s)

\* The encoder of s after processRecords, as a record of its new state.
Unchanged(s) ==
  [index |-> index[s], register |-> register[s], first |-> first[s],
   end |-> end[s], rest |-> rest[s], fetched |-> fetched[s]]

\* Mutant: bits that did not fit in a word are dropped with it.
PackBitsNoCarry(s, n) ==
  LET count == Lesser(n, MaxOutputRecords(s))
      word == Word(s) * ByteBits
      filled == register[s] + count * Bits(s)
  IN  [Unchanged(s) EXCEPT
         !.index = @ + count,
         !.register = IF filled < word THEN filled ELSE 0,
         !.first = ShiftedFirst(s),
         !.end = ShiftedEnd(s) + (filled \div word) * Word(s)]

PackBits(s, n) ==
  LET count == Lesser(n, MaxOutputRecords(s))
      word == Word(s) * ByteBits
      filled == register[s] + count * Bits(s)
  IN  [Unchanged(s) EXCEPT
         !.index = @ + count,
         !.register = filled % word,
         !.first = ShiftedFirst(s),
         !.end = ShiftedEnd(s) + (filled \div word) * Word(s)]

\* One string: the rest of the active one, or the next, of the given length.
PackString(s, length) ==
  LET free == PacketMax - ShiftedEnd(s)
      todo == IF rest[s] > 0 THEN rest[s] ELSE length
      stored == Lesser(todo, free)
  IN  IF free < LongPrefix
      THEN [Unchanged(s) EXCEPT !.first = ShiftedFirst(s), !.end = ShiftedEnd(s)]
      ELSE [Unchanged(s) EXCEPT
              !.index = IF stored = todo THEN @ + 1 ELSE @,
              !.first = ShiftedFirst(s),
              !.end = ShiftedEnd(s) + stored,
              !.rest = todo - stored,
              !.fetched = IF rest[s] > 0 THEN @ ELSE @ + length]

\* The encoder of s after processRecords( n ); length is its next string's.
Processed(s, n, length) ==
  IF IsString(s) THEN PackString(s, length)
  ELSE IF Bits(s) = 0 THEN [Unchanged(s) EXCEPT !.index = @ + n]
  ELSE PackBits(s, n)

Becomes(e) ==
  /\ index' = [s \in Streams |-> e[s].index]
  /\ register' = [s \in Streams |-> e[s].register]
  /\ first' = [s \in Streams |-> e[s].first]
  /\ end' = [s \in Streams |-> e[s].end]
  /\ rest' = [s \in Streams |-> e[s].rest]
  /\ fetched' = [s \in Streams |-> e[s].fetched]
-----------------------------------------------------------------------------
(* Packets. *)

\* Mutant: only multiples of 4 bytes are taken, so as to need no padding.
PacketCountsAligned == {[s \in Streams |-> (outputAvailable[s] \div 4) * 4]}

(***************************************************************************)
(* The bytes packetWrite may take of each bytestream: all, or shares       *)
(* rounded down.  A share is computed in float: the total, the fraction    *)
(* and the product are rounded, and where that crosses an integer the      *)
(* share is one byte less or one byte more.  The check of their sum does   *)
(* not fail, as the byte of slack is more than the float can be off.       *)
(***************************************************************************)
PacketCounts ==
  LET total == Total(outputAvailable)
      share == [s \in Streams |-> (PacketMaxPayload - 1) * outputAvailable[s]]
      whole == [s \in Streams |-> share[s] \div total]
      Low == {s \in Streams :
                share[s] * (FloatPrecision - 1) < whole[s] * (total * FloatPrecision)}
      High == {s \in Streams :
                 (whole[s] + 1) * (total * FloatPrecision) <= share[s] * (FloatPrecision + 1)}
  IN  IF total < PacketMaxPayload THEN {outputAvailable}
      ELSE {[s \in Streams |-> (whole[s] + IF s \in off \cap High THEN 1 ELSE 0)
                                 - IF s \in off \cap Low THEN 1 ELSE 0] :
              off \in SUBSET (Low \cup High)}

\* A packet with these bytes, before padding.
UnpaddedLength(counts) == HeaderSize + Len(counts) * LengthSize + Total(counts)

\* Mutant: packets are padded to multiples of 2.
PaddedLengthEven(counts) == RoundUp(UnpaddedLength(counts), 2)

PaddedLength(counts) == RoundUp(UnpaddedLength(counts), 4)

\* The padding loop refuses to fill the last byte of the packet buffer.
PaddingThrows(counts) ==
  /\ UnpaddedLength(counts) % 4 # 0
  /\ PaddedLength(counts) = PacketMax

\* The bytes leave the encoders before anything can throw.
OutputRead(counts) == first' = [s \in Streams |-> first[s] + counts[s]]

\* packetWrite returns.
PacketStored(counts) ==
  /\ OutputRead(counts)
  /\ ~PaddingThrows(counts)
  /\ sent' = [s \in Streams |-> sent[s] + counts[s]]
  /\ packet' = [length |-> PaddedLength(counts), counts |-> counts]
  /\ UNCHANGED error

\* packetWrite throws.
PacketLost(counts, why) ==
  /\ OutputRead(counts)
  /\ PaddingThrows(counts) <=> why = "internal"
  /\ error' = why
  /\ UNCHANGED <<sent, packet>>

\* registerFlushToOutput succeeds, or has nothing to do.
HasRoom(s) == end[s] < PacketMax - Word(s)

flush ==
  /\ end' = [s \in Streams |-> IF register[s] > 0 /\ HasRoom(s)
                               THEN end[s] + Word(s) ELSE end[s]]
  /\ register' = [s \in Streams |-> IF HasRoom(s) THEN 0 ELSE register[s]]

-----------------------------------------------------------------------------
(* The writer. *)

Init ==
  /\ encoders \in Prototypes
  /\ pc = "idle"
  /\ endRecord = 0
  /\ recordCount = 0
  /\ index = [s \in Streams |-> 0]
  /\ register = [s \in Streams |-> 0]
  /\ first = [s \in Streams |-> 0]
  /\ end = [s \in Streams |-> 0]
  /\ rest = [s \in Streams |-> 0]
  /\ fetched = [s \in Streams |-> 0]
  /\ sent = [s \in Streams |-> 0]
  /\ packet = [length |-> 0, counts |-> <<>>]
  /\ error = "none"

\* write( n ), n > 0, up to its loop.  A writer that threw is only closed.
write(n) ==
  /\ pc = "idle"
  /\ error = "none"
  /\ recordCount + n <= MaxRecords
  /\ pc' = "write"
  /\ endRecord' = recordCount + n
  /\ UNCHANGED <<encoders, recordCount, index, register, first, end, rest,
                 fetched, sent, packet, error>>

\* write( 0 ): a packet that has a header and no bytestreams.
packetWriteZeroRecords ==
  /\ pc = "idle"
  /\ error = "none"
  /\ \/ /\ packet' = [length |-> PaddedLength(<<>>), counts |-> <<>>]
        /\ UNCHANGED error
     \/ /\ error' = "io"
        /\ UNCHANGED packet
  /\ UNCHANGED <<encoders, pc, endRecord, recordCount, index, register, first,
                 end, rest, fetched, sent>>

InWrite == pc = "write" /\ UNCHANGED <<encoders, endRecord>>

Remaining == Total([s \in Streams |-> endRecord - index[s]])

WriteReturns ==
  /\ InWrite
  /\ Remaining = 0
  /\ pc' = "idle"
  /\ recordCount' = endRecord
  /\ UNCHANGED <<index, register, first, end, rest, fetched, sent, packet, error>>

Sends == InWrite /\ Remaining # 0 /\ currentPacketSize >= Target

WriteSendsPacket ==
  /\ Sends
  /\ \E counts \in PacketCounts :
       \/ PacketStored(counts) /\ UNCHANGED pc
       \/ PacketLost(counts, "internal") /\ pc' = "idle"
  /\ UNCHANGED <<recordCount, index, register, end, rest, fetched>>

\* The file cannot be extended or written.
WriteFails ==
  /\ Sends
  /\ \E counts \in PacketCounts : PacketLost(counts, "io")
  /\ pc' = "idle"
  /\ UNCHANGED <<recordCount, index, register, end, rest, fetched>>

Encodes == InWrite /\ Remaining # 0 /\ currentPacketSize < Target

\* Mutant: no limit on the records of an iteration.
AskedUnlimited(s) == endRecord - index[s]

\* Records the iteration asks of the encoder of s.
Asked(s) == Lesser(endRecord - index[s], Batch)

\* What the iteration makes of the encoder of s.
Iterated(s, length) ==
  IF index[s] < endRecord THEN Processed(s, Asked(s), length) ELSE Unchanged(s)

\* The next string of every string encoder.
NextStrings ==
  {length \in [Streams -> {0} \cup UNION {encoders[s].strings : s \in Streams}] :
     \A s \in Streams : IF IsString(s) THEN length[s] \in encoders[s].strings
                        ELSE length[s] = 0}

WriteEncodes ==
  /\ Encodes
  /\ \E length \in NextStrings :
       Becomes([s \in Streams |-> Iterated(s, length[s])])
  /\ UNCHANGED <<pc, recordCount, sent, packet, error>>

\* The records of this iteration that encoder k may refuse: those it looks at,
\* and of strings the first, where the buffer turns out to hold no strings.
Tried(k) ==
  IF IsString(k) THEN IF fetched[k] = 0 THEN Asked(k) ELSE 0
  ELSE IF Bits(k) = 0 THEN Asked(k)
  ELSE Lesser(Asked(k), MaxOutputRecords(k))

\* Encoder k after j records and a value that it refuses.
Refused(k, j) ==
  [Unchanged(k) EXCEPT
     !.first = ShiftedFirst(k),
     !.end = ShiftedEnd(k),
     !.register = (@ + j * Bits(k)) % (Word(k) * ByteBits)]

\* Encoder k throws; the encoders after it get no turn.
WriteRefusesValue ==
  /\ Encodes
  /\ \E k \in Streams : \E length \in NextStrings : \E j \in 0 .. Tried(k) - 1 :
       Becomes([s \in Streams |-> IF s < k THEN Iterated(s, length[s])
                                 ELSE IF s = k THEN Refused(s, j)
                                 ELSE Unchanged(s)])
  /\ error' = "value"
  /\ pc' = "idle"
  /\ UNCHANGED <<recordCount, sent, packet>>

\* Mutant: the registers are flushed only after a packet.
closeUnflushed ==
  /\ pc = "idle"
  /\ pc' = "close"
  /\ UNCHANGED <<encoders, endRecord, recordCount, index, register, first, end,
                 rest, fetched, sent, packet, error>>

\* close() up to its loop: the registers are flushed.
close ==
  /\ pc = "idle"
  /\ pc' = "close"
  /\ flush
  /\ UNCHANGED <<encoders, endRecord, recordCount, index, first, rest, fetched,
                 sent, packet, error>>

InClose ==
  pc = "close" /\ UNCHANGED <<encoders, endRecord, recordCount, index, rest, fetched>>

\* An exception leaves close with isOpen_ reset: the writer is closed.
CloseSendsPacket ==
  /\ InClose
  /\ Total(outputAvailable) > 0
  /\ \E counts \in PacketCounts :
       \/ PacketStored(counts) /\ flush /\ UNCHANGED pc
       \/ /\ PacketLost(counts, "internal")
          /\ pc' = "closed"
          /\ UNCHANGED <<end, register>>

\* The index packet and the section header are written.
CloseReturns ==
  /\ InClose
  /\ Total(outputAvailable) = 0
  /\ pc' = "closed"
  /\ UNCHANGED <<register, first, end, sent, packet, error>>

\* A packet, the index packet or the header cannot be written.
CloseFails ==
  /\ InClose
  /\ \/ Total(outputAvailable) > 0 /\ \E counts \in PacketCounts : PacketLost(counts, "io")
     \/ /\ Total(outputAvailable) = 0
        /\ error' = "io"
        /\ UNCHANGED <<first, sent, packet>>
  /\ pc' = "closed"
  /\ UNCHANGED <<register, end>>

WriteStep == WriteReturns \/ WriteSendsPacket \/ WriteEncodes
CloseStep == CloseSendsPacket \/ CloseReturns

Next ==
  \/ \E n \in Requests : write(n)
  \/ packetWriteZeroRecords
  \/ WriteStep
  \/ WriteFails
  \/ WriteRefusesValue
  \/ close
  \/ CloseStep
  \/ CloseFails

\* A call that has been entered goes on, with no need of an I/O error or of a
\* refused value.
Spec ==
  Init /\ [][Next]_vars /\ WF_vars(WriteStep) /\ WF_vars(CloseStep)

-----------------------------------------------------------------------------
(* Properties. *)

\* The state is well formed: every output buffer holds a segment of itself,
\* every register less than a word (outBuffer_, registerBitsUsed_).
TypeOK ==
  /\ encoders \in Prototypes
  /\ pc \in {"idle", "write", "close", "closed"}
  /\ recordCount \in 0 .. MaxRecords
  /\ endRecord \in 0 .. MaxRecords
  /\ \A s \in Streams :
       /\ index[s] \in 0 .. endRecord
       /\ register[s] \in 0 .. Word(s) * ByteBits - 1
       /\ end[s] \in 0 .. PacketMax
       /\ first[s] \in 0 .. end[s]
       /\ end[s] % Word(s) = 0
       /\ rest[s] \in Nat
       /\ sent[s] \in 0 .. fetched[s] + (index[s] * Bits(s) + Word(s) * ByteBits)
  /\ error \in {"none", "io", "value", "internal"}

\* Bits of stream s that exist somewhere: stored, in outBuffer_, in register_.
BitsHeld(s) == (sent[s] + outputAvailable[s]) * ByteBits + register[s]

\* As long as no call threw, no bit is lost or made twice on its way from the
\* records through processRecords, outBufferShiftDown and packetWrite; close
\* only adds the bits that fill the last word (registerFlushToOutput).
BitsConserved ==
  error = "none" =>
    \A s \in Streams :
      IF IsString(s)
      THEN sent[s] + outputAvailable[s] + rest[s] = fetched[s]
      ELSE IF pc \in {"idle", "write"} THEN BitsHeld(s) = index[s] * Bits(s)
      ELSE RoundUp(BitsHeld(s), Word(s) * ByteBits)
             = RoundUp(index[s] * Bits(s), Word(s) * ByteBits)

\* When close returns without a throw on the way, every bytestream holds all
\* the records setRecordCount announces: nothing is left in outBuffer_, in
\* register_ or of a string, and no encoder is behind or ahead.
ClosedIsComplete ==
  pc = "closed" /\ error = "none" =>
    \A s \in Streams :
      /\ outputAvailable[s] = 0
      /\ register[s] = 0
      /\ rest[s] = 0
      /\ index[s] = recordCount

\* A stored packet is within DATA_PACKET_MAX, a multiple of 4, and no more
\* than 3 bytes longer than what it holds: DataPacket::verify accepts it.
PacketsVerify ==
  packet.length # 0 =>
    /\ packet.length <= PacketMax
    /\ packet.length % 4 = 0
    /\ packet.length - UnpaddedLength(packet.counts) \in 0 .. 3

\* A prototype that leaves room for one iteration above the target size.
Narrow ==
  /\ \A s \in Streams : ~IsString(s)
  /\ Target - 1 + Total([s \in Streams |-> Growth(encoders[s])]) <= PacketMax - 4

\* packetWrite never throws ErrorInternal: its double checks do not fail.
NoInternalError == error # "internal"

\* ... unless one iteration of the loop can add more than the space above
\* E57_TARGET_PACKET_SIZE.
NarrowNoInternalError == Narrow => NoInternalError

\* A write that was called returns or throws: every iteration of its loop
\* encodes something or empties something.
WriteFinishes == pc = "write" ~> pc = "idle"

\* A close that was called returns or throws.
CloseFinishes == pc = "close" ~> pc = "closed"

=============================================================================
