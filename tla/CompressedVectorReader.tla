----------------------- MODULE CompressedVectorReader -----------------------
(***************************************************************************)
(* How packets become records: CompressedVectorReaderImpl.cpp over the     *)
(* channels of DecodeChannel.cpp and the decoders of Decoder.cpp.  Each    *)
(* field being read is a channel with a position of its own in the binary  *)
(* section: a packet, and an index in the channel's bytestream there.      *)
(* Channels drift apart, because their bytestreams end at different        *)
(* records in a packet, and a channel stops when its buffer is full.       *)
(*                                                                         *)
(* What a byte says is left out; which bytes a decoder was given, and how  *)
(* many records they make, is kept.  A section is any sequence of packets  *)
(* that holds the bytestreams, however they were cut: the writer of this   *)
(* library is not the only one.                                            *)
(*                                                                         *)
(* read is a loop.  An iteration is a step here; pc makes sure nothing     *)
(* comes between the steps of a call.                                      *)
(***************************************************************************)
EXTENDS Arithmetic, FiniteSetsExt

CONSTANTS
  ByteBits,      \* bits of a byte: 8 in the code
  InBufferSize,  \* size of inBuffer_: 1024
  Prototypes,    \* prototypes to try: sequences of decoders, see Decoder
  Counts,        \* numbers of records to try
  Capacities,    \* capacities of destination buffers to try
  MaxPackets     \* bound: packets in a section

(***************************************************************************)
(* A decoder: for a bit-packed one, bits per record and bytes per word;    *)
(* for a string one, the length of every string, prefix included.          *)
(***************************************************************************)
Decoder ==
  [kind : {"packed"}, bits : Nat \ {0}, word : Nat \ {0}]
    \cup [kind : {"string"}, lengths : Seq(Nat \ {0})]
    \cup [kind : {"constant"}]

ASSUME SizeAssumption ==
  /\ {ByteBits, InBufferSize, MaxPackets} \subseteq Nat \ {0}
  /\ Counts \subseteq Nat
  /\ Capacities \subseteq Nat \ {0}
ASSUME PrototypeAssumption ==
  \A p \in Prototypes :
    /\ p \in Seq(Decoder)
    /\ p # <<>>  \* the constructor refuses an empty dbufs
    /\ \A c \in DOMAIN p :
         /\ p[c].kind = "packed" =>
              /\ p[c].bits <= p[c].word * ByteBits
              /\ 2 * p[c].word <= InBufferSize
         /\ p[c].kind = "string" => \A n \in Counts : n <= Len(p[c].lengths)

VARIABLES
  decoders,    \* the decoder of each channel
  packets,     \* the binary section: packets with the bytes of each channel
  maxRecords,  \* maxRecordCount_
  capacity,    \* of every destination buffer
  chan,        \* channels_
  pc,          \* "idle", in the loop of "read", or "closed"
  rebuffered,  \* the caller's buffers are no longer those of the channels
  start,       \* records each channel had completed when read was called
  result,      \* what the last read returned
  error        \* "none", or why the last read threw

section == <<decoders, packets, maxRecords, capacity>>
vars == <<section, chan, pc, rebuffered, start, result, error>>

Channels == DOMAIN decoders

\* The bit of its bytestream where record n of a decoder ends.
EndBit(d, n) ==
  IF d.kind = "packed" THEN n * d.bits
  ELSE IF d.kind = "string" THEN SumTo(d.lengths, n) * ByteBits
  ELSE 0

\* Length in bytes of the bytestream of n records: whole words.
StreamLength(d, n) ==
  IF d.kind = "packed"
  THEN RoundUp(EndBit(d, n), d.word * ByteBits) \div ByteBits
  ELSE EndBit(d, n) \div ByteBits

-----------------------------------------------------------------------------
(* Channels and decoders. *)

\* isOutputBlocked
OutputBlocked(ch) == ch.done >= maxRecords \/ ch.next = capacity

\* Mutant: a channel at the end of its bytestream buffer is not blocked.
InputBlockedAtEnd(ch) == ch.finished

\* isInputBlocked
InputBlocked(ch) == ch.finished \/ ch.index = ch.length

\* Records a decoder may complete: a string decoder does not look at the
\* room in the destination buffer.
RecordLimit(d, ch) ==
  IF d.kind = "string" THEN maxRecords
  ELSE Lesser(maxRecords, ch.done + capacity - ch.next)

\* Mutant: a record that ends with the last byte is not complete.
CompletedEarly(d, ch, bytes) ==
  Max({n \in ch.done .. RecordLimit(d, ch) :
         n = ch.done \/ EndBit(d, n) < bytes * ByteBits})

\* Records complete in the first bytes of the bytestream.
Completed(d, ch, bytes) ==
  Max({n \in ch.done .. RecordLimit(d, ch) : EndBit(d, n) <= bytes * ByteBits})

\* inBuffer_ starts with the word of the first bit not yet eaten.
InBufferStart(d, done) ==
  IF d.kind = "packed"
  THEN (EndBit(d, done) \div (d.word * ByteBits)) * d.word
  ELSE StreamLength(d, done)

\* Mutant: the size of inBuffer_ is not looked at.
InputProcessUnbounded(d, ch, offered) ==
  LET done == Completed(d, ch, ch.received + offered)
  IN  [ch EXCEPT !.done = done,
                 !.next = @ + (done - ch.done),
                 !.received = @ + offered]

(***************************************************************************)
(* inputProcess: the decoder is offered the rest of its bytestream in the  *)
(* packet, and alternates between filling inBuffer_ and eating records     *)
(* until it has stored all bytes or its output is blocked.  setNextString  *)
(* throws beyond the capacity: next is then more than that.                *)
(***************************************************************************)
InputProcess(d, ch, offered) ==
  LET done == Completed(d, ch, ch.received + offered)
      received == IF d.kind = "string" THEN ch.received + offered
                  ELSE Lesser(ch.received + offered,
                              InBufferStart(d, done) + InBufferSize)
  IN  [ch EXCEPT !.done = done,
                 !.next = @ + (done - ch.done),
                 !.received = received]

\* ConstantIntegerDecoder::inputProcess needs no bytes.
ConstantProcess(ch) ==
  LET count == Lesser(capacity - ch.next, maxRecords - ch.done)
  IN  [ch EXCEPT !.done = @ + count, !.next = @ + count]

Process(d, ch, offered) ==
  IF d.kind = "constant" THEN ConstantProcess(ch) ELSE InputProcess(d, ch, offered)

\* What inputProcess returns: the bytes stored, but a constant decoder the
\* records.
Processed(d, before, after) ==
  IF d.kind = "constant" THEN after.done - before.done
  ELSE after.received - before.received

-----------------------------------------------------------------------------
(* The reader. *)

\* Ways to cut a bytestream of the given length into p packets.
Cuts(length, p) == {f \in [1 .. p -> 0 .. length] : SumTo(f, p) = length}

\* A binary section that holds n records; the packets in skipped are index
\* or empty packets, of which only the place matters.
IsSection(n, p, skipped) ==
  \E cut \in [Channels -> UNION {Cuts(StreamLength(decoders[c], n), p) : c \in Channels}] :
    /\ \A c \in Channels : cut[c] \in Cuts(StreamLength(decoders[c], n), p)
    /\ \A c \in Channels, i \in skipped : cut[c][i] = 0
    /\ packets = [i \in 1 .. p |-> [data |-> i \notin skipped,
                                    bytes |-> [c \in Channels |-> cut[c][i]]]]

\* The constructor: channels_ at the first data packet, if there are records.
NewChannel(c) ==
  [pkt |-> IF maxRecords > 0 THEN 1 ELSE 0,
   index |-> 0,
   length |-> IF maxRecords > 0 THEN packets[1].bytes[c] ELSE 0,
   finished |-> FALSE, done |-> 0, received |-> 0, next |-> 0]

Init ==
  /\ decoders \in Prototypes
  /\ maxRecords \in Counts
  /\ capacity \in Capacities
  /\ \E p \in 1 .. MaxPackets : \E skipped \in SUBSET (2 .. p) :
       IsSection(maxRecords, p, skipped)
  /\ chan = [c \in Channels |-> NewChannel(c)]
  /\ pc = "idle"
  /\ rebuffered = FALSE
  /\ start = [c \in Channels |-> 0]
  /\ result = 0
  /\ error = "none"

\* read() up to its loop.  The buffers rewound are the ones of the last call.
BeginRead(other) ==
  /\ pc = "idle"
  /\ error = "none"
  /\ pc' = "read"
  /\ rebuffered' = other
  /\ start' = [c \in Channels |-> chan[c].done]
  /\ chan' = [c \in Channels |->
                Process(decoders[c],
                        IF other THEN chan[c] ELSE [chan[c] EXCEPT !.next = 0], 0)]
  /\ UNCHANGED <<section, result, error>>

read == BeginRead(rebuffered)

\* read( dbufs ) with other buffers than the constructor got: dbufs_ changes,
\* the buffers of the channels and of the decoders stay.
readInto == BeginRead(TRUE)

\* Mutant: a channel that has exhausted its packet asks for no other.
HungryInPacket ==
  {c \in Channels : ~OutputBlocked(chan[c]) /\ ~InputBlocked(chan[c])}

Hungry == {c \in Channels : ~OutputBlocked(chan[c]) /\ ~chan[c].finished}

\* earliestPacketNeededForInput
Earliest == Min({chan[c].pkt : c \in Hungry})

\* findNextDataPacket; past the last packet when there is none.
NextDataPacket(i) ==
  Min({j \in i + 1 .. Len(packets) : packets[j].data} \cup {Len(packets) + 1})

\* Mutant: whether the output is blocked is not looked at.
ReadingBlocked(ch, i) == ch.pkt = i

\* Channels that have not already read packet i (_alreadyReadPacket).
Reading(ch, i) == ch.pkt = i /\ ~OutputBlocked(ch)

Moved(c, ch, i) ==
  IF i <= Len(packets)
  THEN [ch EXCEPT !.pkt = i, !.index = 0, !.length = packets[i].bytes[c]]
  ELSE [ch EXCEPT !.finished = TRUE]

\* The channels after feedPacketToDecoders has fed packet i.
Fed(i) ==
  [c \in Channels |->
     IF Reading(chan[c], i)
     THEN LET fed == Process(decoders[c], chan[c], packets[i].bytes[c] - chan[c].index)
          IN  [fed EXCEPT !.index = @ + Processed(decoders[c], chan[c], fed)]
     ELSE chan[c]]

\* ... and after it has moved channels on, once one has exhausted packet i.
MovedOn(fed, i) ==
  LET exhausted == \E c \in Channels : Reading(chan[c], i) /\ InputBlocked(fed[c])
      next == NextDataPacket(i)
  IN  [c \in Channels |-> IF exhausted /\ Reading(fed[c], i)
                          THEN Moved(c, fed[c], next) ELSE fed[c]]

InRead == pc = "read" /\ UNCHANGED <<section, rebuffered, start>>

Overflows(fed) == \E c \in Channels : fed[c].next > capacity

feedPacketToDecoders ==
  /\ InRead
  /\ Hungry # {}
  /\ \E i \in {Earliest} : \E fed \in {Fed(i)} :
       ~Overflows(fed) /\ chan' = MovedOn(fed, i)
  /\ UNCHANGED <<pc, result, error>>

\* setNextString throws.  What is left of the reader is only closed.
StringOverflows ==
  /\ InRead
  /\ Hungry # {}
  /\ Overflows(Fed(Earliest))
  /\ pc' = "idle"
  /\ error' = "internal"
  /\ UNCHANGED <<chan, result>>

\* A packet cannot be read, or a value does not fit its buffer.
ReadFails ==
  /\ InRead
  /\ Hungry # {}
  /\ pc' = "idle"
  /\ error' \in {"io", "value"}
  /\ UNCHANGED <<chan, result>>

\* Nobody is hungry: every channel must have produced as many records.
ReadReturns ==
  /\ InRead
  /\ Hungry = {}
  /\ pc' = "idle"
  /\ result' = chan[1].next
  /\ error' = IF \A c \in Channels : chan[c].next = chan[1].next
              THEN "none" ELSE "internal"
  /\ UNCHANGED chan

close ==
  /\ pc = "idle"
  /\ pc' = "closed"
  /\ UNCHANGED <<section, chan, rebuffered, start, result, error>>

ReadStep == feedPacketToDecoders \/ StringOverflows \/ ReadReturns

Next == read \/ ReadStep \/ ReadFails \/ close

\* A read that has been entered goes on, with no need of an error.
Spec == Init /\ [][Next]_vars /\ WF_vars(ReadStep)

\* ... by a caller that brings new buffers.
RebufferSpec == Init /\ [][Next \/ readInto]_vars /\ WF_vars(ReadStep)
-----------------------------------------------------------------------------
(* Properties. *)

\* The state is well formed, and no decoder holds more than inBuffer_ can.
TypeOK ==
  /\ pc \in {"idle", "read", "closed"}
  /\ error \in {"none", "io", "value", "internal"}
  /\ result \in 0 .. capacity
  /\ \A c \in Channels :
       LET ch == chan[c]
       IN  /\ ch.pkt \in 0 .. Len(packets)
           /\ ch.done \in 0 .. maxRecords
           /\ ch.next \in 0 .. capacity
           /\ ch.received - InBufferStart(decoders[c], ch.done) <= InBufferSize
                \/ decoders[c].kind = "string"

\* Bytes of channel c in the data packets before packet i.
BytesBefore(c, i) == SumTo([j \in 1 .. Len(packets) |-> packets[j].bytes[c]], i - 1)

\* Every decoder has been given a prefix of its bytestream, each byte once and
\* in order, and its channel stands right behind it: no channel is moved on
\* with bytes of the packet unread, even when others have exhausted it.
FedInOrder ==
  \A c \in Channels :
    LET ch == chan[c]
    IN  maxRecords > 0 =>
          /\ ch.length = packets[ch.pkt].bytes[c]
          /\ ch.index <= ch.length
          /\ ch.received = BytesBefore(c, ch.pkt) + ch.index

\* A read that returns has put into every buffer the next records of its
\* channel: as many as the capacity, unless the vector ends first.
ReadIsFull ==
  [][pc = "read" /\ pc' = "idle" /\ error' = "none" =>
       \A c \in Channels :
         /\ result' = Lesser(capacity, maxRecords - start[c])
         /\ chan'[c].done = start[c] + result']_vars

\* read never throws ErrorInternal.
NoInternalError == error # "internal"

\* ... unless a string channel is read in smaller blocks than the vector.
PackedNoInternalError ==
  (\A c \in Channels : decoders[c].kind # "string") \/ maxRecords <= capacity
    => NoInternalError

\* A read that was called returns or throws: every packet it feeds gives a
\* hungry channel records or moves it on.
ReadFinishes == pc = "read" ~> pc = "idle"

=============================================================================
