-------------------- MODULE CompressedVectorReaderProofs --------------------
(***************************************************************************)
(* Proofs about CompressedVectorReader, for every prototype, every way to  *)
(* cut the bytestreams into packets, and every capacity of the buffers.    *)
(***************************************************************************)
EXTENDS CompressedVectorReader, ArithmeticProofs

Kind(c) == decoders[c].kind

\* The bytes of channel c in each packet.
PacketBytes(c) == [j \in 1 .. Len(packets) |-> packets[j].bytes[c]]

(***************************************************************************)
(* What IsSection says of the packets: together they hold the bytestreams, *)
(* and findNextDataPacket skips no byte of them.                           *)
(***************************************************************************)
SectionOK ==
  /\ decoders \in Prototypes
  /\ maxRecords \in Counts
  /\ capacity \in Capacities
  /\ Len(packets) \in Nat \ {0}
  /\ \A c \in Channels :
       /\ \A i \in 1 .. Len(packets) :
            /\ packets[i].bytes[c] \in Nat
            /\ ~packets[i].data => packets[i].bytes[c] = 0
       /\ SumTo(PacketBytes(c), Len(packets)) = StreamLength(decoders[c], maxRecords)

Channel ==
  [pkt : Nat, index : Nat, length : Nat, finished : BOOLEAN, done : Nat, received : Nat,
   next : Nat]

\* What the decoder of channel c has in hand, as record ch of its state.
DecoderOK(c, ch) ==
  /\ ch \in Channel
  /\ ch.done <= maxRecords
  /\ EndBit(decoders[c], ch.done) <= ch.received * ByteBits
  /\ Kind(c) # "string" =>
       ch.received <= InBufferStart(decoders[c], ch.done) + InBufferSize
  /\ Kind(c) = "string" =>
       ch.done = maxRecords \/ ch.received * ByteBits < EndBit(decoders[c], ch.done + 1)

\* Where the channel stands in the section.
PlaceOK(c, ch) ==
  /\ ch.pkt \in 0 .. Len(packets)
  /\ ~ch.finished
  /\ maxRecords > 0 =>
       /\ ch.pkt > 0
       /\ ch.length = packets[ch.pkt].bytes[c]
       /\ ch.index <= ch.length
       /\ ch.received = BytesBefore(c, ch.pkt) + ch.index

(***************************************************************************)
(* The inductive invariant.  It needs two facts that TypeOK does not say:  *)
(* a string decoder never has a complete string in hand, so that the first *)
(* pass of read, which does not look at the capacity, stores none; and the *)
(* channels that stand together when read is called stand together when it *)
(* returns.                                                                *)
(***************************************************************************)
ReaderOK ==
  /\ SectionOK
  /\ chan \in [Channels -> Channel]
  /\ start \in [Channels -> Nat]
  /\ \A c \in Channels : /\ DecoderOK(c, chan[c])
                         /\ PlaceOK(c, chan[c])
                         /\ chan[c].next <= capacity
  /\ pc \in {"idle", "read", "closed"}
  /\ error \in {"none", "io", "value", "internal"}
  /\ result \in 0 .. capacity
  /\ rebuffered = FALSE
  /\ pc = "idle" /\ error = "none" =>
       \A c, b \in Channels : chan[c].done = chan[b].done
  /\ pc = "read" =>
       /\ error = "none"
       /\ \A c, b \in Channels : start[c] = start[b]
       /\ \A c \in Channels : /\ chan[c].done = start[c] + chan[c].next
                              /\ Kind(c) = "constant" => OutputBlocked(chan[c])
  /\ error = "internal" =>
       maxRecords > capacity /\ \E c \in Channels : Kind(c) = "string"

-----------------------------------------------------------------------------
(* Decoders. *)

\* The sizes and bounds are numbers (SizeAssumption).
LEMMA Sizes ==
  /\ ByteBits \in Nat \ {0}
  /\ InBufferSize \in Nat \ {0}
  /\ MaxPackets \in Nat \ {0}
  /\ Counts \subseteq Nat
  /\ Capacities \subseteq Nat \ {0}
BY SizeAssumption, Zenon

\* What PrototypeAssumption says of one decoder of a prototype.
LEMMA DecoderTypes ==
  ASSUME NEW p \in Prototypes, NEW c \in DOMAIN p
  PROVE  /\ p[c].kind \in {"packed", "string", "constant"}
         /\ p[c].kind = "packed" =>
              /\ p[c].bits \in Nat \ {0}
              /\ p[c].word \in Nat \ {0}
              /\ p[c].word * ByteBits \in Nat \ {0}
              /\ p[c].bits <= p[c].word * ByteBits
              /\ 2 * p[c].word <= InBufferSize
         /\ p[c].kind = "string" =>
              /\ p[c].lengths \in Seq(Nat \ {0})
              /\ \A n \in Counts : n <= Len(p[c].lengths)
<1>1. p \in Seq(Decoder)
  BY PrototypeAssumption, Zenon
<1>2. p[c] \in Decoder
  BY <1>1
<1>3. p[c].kind \in {"packed", "string", "constant"}
  BY <1>2, Zenon DEF Decoder
<1>4. ASSUME p[c].kind = "packed"
      PROVE  /\ p[c].bits \in Nat \ {0}
             /\ p[c].word \in Nat \ {0}
             /\ p[c].word * ByteBits \in Nat \ {0}
             /\ p[c].bits <= p[c].word * ByteBits
             /\ 2 * p[c].word <= InBufferSize
  <2>1. p[c].bits \in Nat \ {0} /\ p[c].word \in Nat \ {0}
    BY <1>2, <1>4, Zenon DEF Decoder
  <2>2. p[c].bits <= p[c].word * ByteBits /\ 2 * p[c].word <= InBufferSize
    BY <1>4, PrototypeAssumption, Zenon
  <2>3. p[c].word * ByteBits \in Nat \ {0}
    <3>1. p[c].word * ByteBits \in Nat
      BY <2>1, Sizes, TimesNat, Zenon
    <3> QED
      BY <2>1, <2>2, <3>1
  <2> QED
    BY <2>1, <2>2, <2>3, Zenon
<1>5. ASSUME p[c].kind = "string"
      PROVE  /\ p[c].lengths \in Seq(Nat \ {0})
             /\ \A n \in Counts : n <= Len(p[c].lengths)
  <2>1. p[c].lengths \in Seq(Nat \ {0})
    BY <1>2, <1>5, Zenon DEF Decoder
  <2>2. \A n \in Counts : n <= Len(p[c].lengths)
    BY <1>5, PrototypeAssumption, Zenon
  <2> QED
    BY <2>1, <2>2, Zenon
<1> QED
  BY <1>3, <1>4, <1>5, Zenon

\* A section has a record count, and a reader a capacity and a channel.
LEMMA SectionTypes ==
  ASSUME SectionOK
  PROVE  /\ maxRecords \in Nat
         /\ capacity \in Nat \ {0}
         /\ Channels # {}
         /\ 1 \in Channels
<1>1. maxRecords \in Nat /\ capacity \in Nat \ {0}
  BY Sizes, Zenon DEF SectionOK
<1>2. decoders \in Seq(Decoder) /\ decoders # <<>>
  BY PrototypeAssumption, Zenon DEF SectionOK
<1>3. 1 \in DOMAIN decoders
  BY <1>2
<1> QED
  BY <1>1, <1>3, Zenon DEF Channels

\* What DecoderTypes says, of the decoders of the section being read.
LEMMA KindTypes ==
  ASSUME SectionOK, NEW c \in Channels
  PROVE  /\ Kind(c) \in {"packed", "string", "constant"}
         /\ Kind(c) = "packed" =>
              /\ decoders[c].bits \in Nat \ {0}
              /\ decoders[c].word \in Nat \ {0}
              /\ decoders[c].word * ByteBits \in Nat \ {0}
              /\ decoders[c].bits <= decoders[c].word * ByteBits
              /\ 2 * decoders[c].word <= InBufferSize
         /\ Kind(c) = "string" =>
              /\ maxRecords <= Len(decoders[c].lengths)
              /\ \A i \in 1 .. maxRecords : decoders[c].lengths[i] \in Nat \ {0}
<1> DEFINE d == decoders[c]
<1>1. decoders \in Prototypes /\ c \in DOMAIN decoders /\ maxRecords \in Counts
  BY Zenon DEF SectionOK, Channels
<1>2. /\ d.kind \in {"packed", "string", "constant"}
      /\ d.kind = "packed" =>
           /\ d.bits \in Nat \ {0}
           /\ d.word \in Nat \ {0}
           /\ d.word * ByteBits \in Nat \ {0}
           /\ d.bits <= d.word * ByteBits
           /\ 2 * d.word <= InBufferSize
      /\ d.kind = "string" =>
           /\ d.lengths \in Seq(Nat \ {0})
           /\ \A n \in Counts : n <= Len(d.lengths)
  BY <1>1, DecoderTypes, Zenon
<1> HIDE DEF d
<1>3. ASSUME d.kind = "string"
      PROVE  /\ maxRecords <= Len(d.lengths)
             /\ \A i \in 1 .. maxRecords : d.lengths[i] \in Nat \ {0}
  <2>1. d.lengths \in Seq(Nat \ {0}) /\ maxRecords <= Len(d.lengths)
    BY <1>1, <1>2, <1>3, Zenon
  <2>2. maxRecords \in Nat
    BY SectionTypes, Zenon
  <2> QED
    BY <2>1, <2>2
<1> QED
  BY <1>2, <1>3, Zenon DEF Kind, d

\* Records end one after the other; those of a string decoder are not empty.
LEMMA EndBitOrder ==
  ASSUME SectionOK, NEW c \in Channels, NEW n \in 0 .. maxRecords
  PROVE  /\ EndBit(decoders[c], n) \in Nat
         /\ \A m \in 0 .. n : EndBit(decoders[c], m) <= EndBit(decoders[c], n)
         /\ EndBit(decoders[c], 0) = 0
<1> DEFINE d == decoders[c]
<1>1. maxRecords \in Nat /\ n \in Nat
  BY SectionTypes
<1>2. CASE Kind(c) = "packed"
  <2>1. d.bits \in Nat
    BY <1>2, KindTypes, Zenon
  <2>2. \A m : EndBit(d, m) = m * d.bits
    BY <1>2, Zenon DEF EndBit, Kind
  <2>3. n * d.bits \in Nat
    BY <1>1, <2>1, TimesNat, Zenon
  <2>4. \A m \in 0 .. n : m * d.bits <= n * d.bits
    <3> TAKE m \in 0 .. n
    <3>1. m \in Nat /\ m <= n
      BY <1>1
    <3> QED
      BY <1>1, <2>1, <3>1, TimesMonotonic, Zenon
  <2>5. 0 * d.bits = 0
    BY <2>1
  <2> QED
    BY <2>2, <2>3, <2>4, <2>5
<1>3. CASE Kind(c) = "string"
  <2> DEFINE f == d.lengths
  <2>1. \A i \in 1 .. n : f[i] \in Nat
    <3>1. \A i \in 1 .. maxRecords : f[i] \in Nat
      BY <1>3, KindTypes, Zenon
    <3> QED
      BY <1>1, <3>1
  <2>2. \A m : EndBit(d, m) = SumTo(f, m) * ByteBits
    BY <1>3, Zenon DEF EndBit, Kind
  <2> HIDE DEF f
  <2>3. SumTo(f, n) \in Nat
    BY <1>1, <2>1, SumNat, Zenon
  <2>4. ASSUME NEW m \in 0 .. n
        PROVE  SumTo(f, m) * ByteBits <= SumTo(f, n) * ByteBits
    <3>1. SumTo(f, m) <= SumTo(f, n)
      BY <1>1, <2>1, SumGrows, Zenon
    <3>2. m \in Nat /\ \A i \in 1 .. m : f[i] \in Nat
      BY <1>1, <2>1
    <3>3. SumTo(f, m) \in Nat
      BY <3>2, SumNat, Zenon
    <3> QED
      BY <2>3, <3>1, <3>3, Sizes, TimesMonotonic, Zenon
  <2>5. SumTo(f, n) * ByteBits \in Nat
    BY <2>3, Sizes, TimesNat, Zenon
  <2>6. SumTo(f, 0) * ByteBits = 0
    BY SumZero, Sizes
  <2> QED
    BY <2>2, <2>4, <2>5, <2>6
<1>4. CASE Kind(c) = "constant"
  <2>1. \A m : EndBit(d, m) = 0
    BY <1>4, Zenon DEF EndBit, Kind
  <2> QED
    BY <2>1
<1> QED
  BY <1>2, <1>3, <1>4, KindTypes, Zenon

\* The first string of a stream has bytes.
LEMMA StringGrows ==
  ASSUME SectionOK, NEW c \in Channels, Kind(c) = "string", maxRecords > 0
  PROVE  0 < EndBit(decoders[c], 1)
<1> DEFINE f == decoders[c].lengths
<1>1. \A i \in 1 .. maxRecords : f[i] \in Nat \ {0}
  BY KindTypes, Zenon
<1>2. f[1] \in Nat \ {0}
  BY <1>1, SectionTypes
<1>3. EndBit(decoders[c], 1) = SumTo(f, 1) * ByteBits
  BY Zenon DEF EndBit, Kind
<1> HIDE DEF f
<1>4. SumTo(f, 1) = f[1]
  <2>1. SumTo(f, 0 + 1) = SumTo(f, 0) + f[0 + 1]
    BY SumStep, Zenon
  <2>2. SumTo(f, 0) = 0
    BY SumZero, Zenon
  <2> QED
    BY <1>2, <2>1, <2>2
<1>5. f[1] * ByteBits \in Nat /\ 1 * ByteBits <= f[1] * ByteBits
  BY <1>2, Sizes, TimesMonotonic, TimesNat
<1> QED
  BY <1>3, <1>4, <1>5, Sizes

\* The bytestreams of a section are long enough for its records.
LEMMA StreamHoldsRecords ==
  ASSUME SectionOK, NEW c \in Channels, NEW n \in 0 .. maxRecords
  PROVE  /\ StreamLength(decoders[c], n) \in Nat
         /\ EndBit(decoders[c], n) <= StreamLength(decoders[c], n) * ByteBits
<1> DEFINE d == decoders[c]
           e == EndBit(d, n)
<1>1. e \in Nat
  BY EndBitOrder, Zenon
<1>2. CASE Kind(c) = "packed"
  <2>1. d.word \in Nat \ {0} /\ d.word * ByteBits \in Nat \ {0}
    BY <1>2, KindTypes, Zenon
  <2>2. PICK q \in Nat : RoundUp(e, d.word * ByteBits) = q * (d.word * ByteBits)
    BY <1>1, <2>1, RoundUpBounds, Zenon
  <2>3. e <= RoundUp(e, d.word * ByteBits)
    BY <1>1, <2>1, RoundUpBounds, Zenon
  <2>4. StreamLength(d, n) = RoundUp(e, d.word * ByteBits) \div ByteBits
    BY <1>2, Zenon DEF StreamLength, Kind
  <2> HIDE DEF d, e
  <2>5. q * (d.word * ByteBits) = (q * d.word) * ByteBits
    BY <2>1, <2>2, Sizes
  <2>6. q * d.word \in Nat
    BY <2>1, <2>2, TimesNat, Zenon
  <2>7. ((q * d.word) * ByteBits + 0) \div ByteBits = q * d.word
    <3>1. 0 \in 0 .. ByteBits - 1
      BY Sizes
    <3> QED
      BY <2>6, <3>1, Sizes, DivUnique, Zenon
  <2>8. (q * d.word) * ByteBits \in Nat
    BY <2>6, Sizes, TimesNat, Zenon
  <2>9. StreamLength(d, n) = q * d.word
    BY <2>2, <2>4, <2>5, <2>7, <2>8
  <2> QED
    BY <2>2, <2>3, <2>5, <2>6, <2>9, Zenon DEF d, e
<1>3. CASE Kind(c) # "packed"
  <2>1. PICK k \in Nat : e = k * ByteBits
    <3>1. CASE Kind(c) = "string"
      <4>1. e = SumTo(d.lengths, n) * ByteBits
        BY <3>1, Zenon DEF EndBit, Kind
      <4>2. n \in Nat /\ \A i \in 1 .. n : d.lengths[i] \in Nat
        <5>1. \A i \in 1 .. maxRecords : d.lengths[i] \in Nat
          BY <3>1, KindTypes, Zenon
        <5> QED
          BY <5>1, SectionTypes
      <4>3. SumTo(d.lengths, n) \in Nat
        BY <4>2, SumNat, Zenon
      <4> QED
        BY <4>1, <4>3, Zenon
    <3>2. CASE Kind(c) = "constant"
      <4>1. e = 0
        BY <3>2, Zenon DEF EndBit, Kind
      <4>2. 0 = 0 * ByteBits
        BY Sizes
      <4> QED
        BY <4>1, <4>2
    <3> QED
      BY <1>3, <3>1, <3>2, KindTypes, Zenon
  <2>2. StreamLength(d, n) = e \div ByteBits
    BY <1>3, Zenon DEF StreamLength, Kind
  <2> HIDE DEF e
  <2>3. (k * ByteBits + 0) \div ByteBits = k
    <3>1. 0 \in 0 .. ByteBits - 1
      BY Sizes
    <3> QED
      BY <3>1, Sizes, DivUnique, Zenon
  <2>4. k * ByteBits \in Nat
    BY Sizes, TimesNat, Zenon
  <2>5. StreamLength(d, n) = k
    BY <2>1, <2>2, <2>3, <2>4
  <2> QED
    BY <2>1, <2>4, <2>5 DEF e
<1> QED
  BY <1>2, <1>3, Zenon

\* inBuffer_ starts at a word, within a word of the first bit not yet eaten.
LEMMA BufferStart ==
  ASSUME SectionOK, NEW c \in Channels, Kind(c) = "packed", NEW n \in 0 .. maxRecords
  PROVE  /\ InBufferStart(decoders[c], n) \in Nat
         /\ InBufferStart(decoders[c], n) * ByteBits <= EndBit(decoders[c], n)
         /\ EndBit(decoders[c], n)
              < InBufferStart(decoders[c], n) * ByteBits + decoders[c].word * ByteBits
         /\ \A m \in 0 .. n : InBufferStart(decoders[c], m) <= InBufferStart(decoders[c], n)
<1> DEFINE d == decoders[c]
           wb == d.word * ByteBits
<1>1. d.word \in Nat \ {0} /\ wb \in Nat \ {0}
  BY KindTypes, Zenon
<1>2. \A m : InBufferStart(d, m) = (EndBit(d, m) \div wb) * d.word
  BY Zenon DEF InBufferStart, Kind
<1>3. ASSUME NEW m \in 0 .. n
      PROVE  InBufferStart(d, m) <= InBufferStart(d, n)
  <2>1. m \in 0 .. maxRecords /\ n \in 0 .. maxRecords
    BY SectionTypes
  <2>2. EndBit(d, m) \in Nat /\ EndBit(d, n) \in Nat /\ EndBit(d, m) <= EndBit(d, n)
    BY <2>1, EndBitOrder, Zenon
  <2> HIDE DEF d, wb
  <2>3. EndBit(d, m) \div wb <= EndBit(d, n) \div wb
    BY <1>1, <2>2, DivMonotonic, Zenon
  <2>4. EndBit(d, m) \div wb \in Nat /\ EndBit(d, n) \div wb \in Nat
    BY <1>1, <2>2, DivMod, Zenon
  <2>5. (EndBit(d, m) \div wb) * d.word <= (EndBit(d, n) \div wb) * d.word
    BY <1>1, <2>3, <2>4, TimesMonotonic, Zenon
  <2> QED
    BY <1>2, <2>5
<1>4. /\ InBufferStart(d, n) \in Nat
      /\ InBufferStart(d, n) * ByteBits <= EndBit(d, n)
      /\ EndBit(d, n) < InBufferStart(d, n) * ByteBits + wb
  <2> DEFINE e == EndBit(d, n)
             q == e \div wb
  <2>1. e \in Nat
    BY EndBitOrder, Zenon
  <2>2. q \in Nat /\ e % wb \in 0 .. wb - 1 /\ e = q * wb + (e % wb)
    BY <1>1, <2>1, DivMod, Zenon
  <2>3. q * d.word \in Nat
    BY <1>1, <2>2, TimesNat, Zenon
  <2>4. (q * d.word) * ByteBits = q * wb
    BY <1>1, <2>2, Sizes
  <2>5. InBufferStart(d, n) = q * d.word
    BY <1>2, Zenon
  <2>6. q * wb \in Nat
    BY <1>1, <2>2, TimesNat, Zenon
  <2> HIDE DEF d, wb, e, q
  <2> QED
    BY <1>1, <2>1, <2>2, <2>3, <2>4, <2>5, <2>6 DEF e
<1> QED
  BY <1>3, <1>4, Zenon

\* Max of a bounded set of numbers is its greatest element.
LEMMA MaxOf ==
  ASSUME NEW S, S \subseteq Nat, S # {}, NEW bound \in Nat, \A x \in S : x <= bound
  PROVE  Max(S) \in S /\ \A x \in S : x <= Max(S)
<1>1. PICK m \in S : \A x \in S : x <= m
  BY GreatestNatural, Zenon
<1>2. \A x \in S : m >= x
  BY <1>1, Zenon
<1> QED
  BY <1>2, Zenon DEF Max

\* Min of a set of numbers is its least element.
LEMMA MinOf ==
  ASSUME NEW S, S \subseteq Nat, S # {}
  PROVE  Min(S) \in S /\ \A x \in S : Min(S) <= x
<1>1. PICK m \in S : \A x \in S : m <= x
  BY LeastNatural, Zenon
<1> QED
  BY <1>1, Zenon DEF Min

\* The counters of a channel are numbers.
LEMMA ChannelTypes ==
  ASSUME NEW ch \in Channel
  PROVE  /\ ch.pkt \in Nat /\ ch.index \in Nat /\ ch.length \in Nat
         /\ ch.done \in Nat /\ ch.received \in Nat /\ ch.next \in Nat
BY Zenon DEF Channel

\* What the decoder completes: the records that end within the bytes, up to
\* its limit.
LEMMA CompletedRecords ==
  ASSUME SectionOK, NEW c \in Channels, NEW ch \in Channel, NEW bytes \in Nat,
         ch.done <= maxRecords, ch.next <= capacity,
         EndBit(decoders[c], ch.done) <= bytes * ByteBits
  PROVE  LET done == Completed(decoders[c], ch, bytes)
             limit == RecordLimit(decoders[c], ch)
         IN  /\ limit \in Nat /\ limit <= maxRecords
             /\ Kind(c) # "string" => limit <= ch.done + (capacity - ch.next)
             /\ done \in ch.done .. limit
             /\ EndBit(decoders[c], done) <= bytes * ByteBits
             /\ done < limit => bytes * ByteBits < EndBit(decoders[c], done + 1)
<1> DEFINE d == decoders[c]
           limit == RecordLimit(d, ch)
           S == {n \in ch.done .. limit : EndBit(d, n) <= bytes * ByteBits}
           done == Completed(d, ch, bytes)
<1>1. maxRecords \in Nat /\ capacity \in Nat /\ ch.done \in Nat /\ ch.next \in Nat
  BY SectionTypes, ChannelTypes, Zenon
<1>2. /\ limit \in Nat /\ limit <= maxRecords /\ ch.done <= limit
      /\ Kind(c) # "string" => limit <= ch.done + (capacity - ch.next)
      /\ Kind(c) # "string" =>
           limit = maxRecords \/ limit = ch.done + (capacity - ch.next)
  <2>1. CASE Kind(c) = "string"
    <3>1. limit = maxRecords
      BY <2>1, Zenon DEF RecordLimit, Kind
    <3> QED
      BY <1>1, <2>1, <3>1
  <2>2. CASE Kind(c) # "string"
    <3>1. limit = Lesser(maxRecords, ch.done + capacity - ch.next)
      BY <2>2, Zenon DEF RecordLimit, Kind
    <3>2. ch.done + capacity - ch.next = ch.done + (capacity - ch.next)
      BY <1>1, Zenon
    <3> QED
      BY <1>1, <3>1, <3>2 DEF Lesser
  <2> QED
    BY <2>1, <2>2, Zenon
<1> HIDE DEF limit
<1>3. S \subseteq Nat /\ ch.done \in S /\ \A x \in S : x <= limit
  BY <1>1, <1>2
<1>4. done = Max(S)
  BY Zenon DEF Completed, limit
<1>5. done \in S /\ \A x \in S : x <= done
  <2> HIDE DEF S, done
  <2> QED
    BY <1>2, <1>3, <1>4, MaxOf, Zenon
<1>6. done \in ch.done .. limit /\ EndBit(d, done) <= bytes * ByteBits
  BY <1>5, Zenon
<1>7. ASSUME done < limit
      PROVE  bytes * ByteBits < EndBit(d, done + 1)
  <2> HIDE DEF done
  <2>1. done \in Nat /\ done + 1 \in ch.done .. limit /\ done + 1 \in 0 .. maxRecords
    BY <1>1, <1>2, <1>6, <1>7
  <2>2. ~(EndBit(d, done + 1) <= bytes * ByteBits)
    BY <1>5, <2>1
  <2>3. EndBit(d, done + 1) \in Nat
    BY <2>1, EndBitOrder, Zenon
  <2>4. bytes * ByteBits \in Nat
    BY Sizes, TimesNat, Zenon
  <2> QED
    BY <2>2, <2>3, <2>4
<1> QED
  BY <1>2, <1>6, <1>7, Zenon DEF limit

(***************************************************************************)
(* inputProcess of the decoders that read bytes.  A decoder whose output   *)
(* is not blocked afterwards has stored all that it was offered, and has   *)
(* no complete record in hand.                                             *)
(***************************************************************************)
LEMMA InputProcessFields ==
  ASSUME NEW d, NEW ch \in Channel, NEW offered
  PROVE  LET x == InputProcess(d, ch, offered)
             done == Completed(d, ch, ch.received + offered)
         IN  /\ x.pkt = ch.pkt /\ x.index = ch.index /\ x.length = ch.length
             /\ x.finished = ch.finished
             /\ x.done = done
             /\ x.next = ch.next + (done - ch.done)
             /\ d.kind = "string" => x.received = ch.received + offered
             /\ d.kind # "string" =>
                  x.received = Lesser(ch.received + offered, InBufferStart(d, done) + InBufferSize)
             /\ done \in Nat /\ ch.next + (done - ch.done) \in Nat /\ x.received \in Nat =>
                  x \in Channel
BY Zenon DEF InputProcess, Channel

\* inputProcess keeps a decoder in order: it completes no record twice, takes no
\* byte twice, and when it stops with the buffers not full it has taken all the
\* bytes it was offered and has less than one record in hand.
LEMMA InputProcessOK ==
  ASSUME SectionOK, NEW c \in Channels, Kind(c) # "constant", NEW ch, DecoderOK(c, ch),
         ch.next <= capacity, NEW offered \in Nat
  PROVE  LET x == InputProcess(decoders[c], ch, offered)
         IN  /\ DecoderOK(c, x)
             /\ x.pkt = ch.pkt /\ x.index = ch.index /\ x.length = ch.length
             /\ x.finished = ch.finished
             /\ ch.done <= x.done
             /\ x.next = ch.next + (x.done - ch.done)
             /\ Kind(c) # "string" => x.next <= capacity
             /\ ch.received <= x.received /\ x.received <= ch.received + offered
             /\ ~OutputBlocked(x) /\ x.next <= capacity =>
                  /\ x.received = ch.received + offered
                  /\ x.done < maxRecords
                  /\ x.received * ByteBits < EndBit(decoders[c], x.done + 1)
<1> DEFINE d == decoders[c]
           x == InputProcess(d, ch, offered)
           bytes == ch.received + offered
           done == Completed(d, ch, bytes)
           limit == RecordLimit(d, ch)
<1>1. /\ ch \in Channel /\ ch.done <= maxRecords
      /\ EndBit(d, ch.done) <= ch.received * ByteBits
      /\ Kind(c) # "string" => ch.received <= InBufferStart(d, ch.done) + InBufferSize
  BY Zenon DEF DecoderOK
<1>2. /\ maxRecords \in Nat /\ capacity \in Nat /\ ch.done \in Nat /\ ch.next \in Nat
      /\ ch.received \in Nat /\ bytes \in Nat
  BY <1>1, SectionTypes, ChannelTypes
<1>3. EndBit(d, ch.done) <= bytes * ByteBits
  <2>1. ch.done \in 0 .. maxRecords
    BY <1>1, <1>2
  <2>2. EndBit(d, ch.done) \in Nat
    BY <2>1, EndBitOrder, Zenon
  <2>3. ch.received * ByteBits <= bytes * ByteBits
    BY <1>2, Sizes, TimesMonotonic
  <2>4. ch.received * ByteBits \in Nat /\ bytes * ByteBits \in Nat
    BY <1>2, Sizes, TimesNat, Zenon
  <2> HIDE DEF bytes
  <2> QED
    BY <1>1, <2>2, <2>3, <2>4
<1>4. /\ limit \in Nat /\ limit <= maxRecords
      /\ Kind(c) # "string" => limit <= ch.done + (capacity - ch.next)
      /\ done \in ch.done .. limit
      /\ EndBit(d, done) <= bytes * ByteBits
      /\ done < limit => bytes * ByteBits < EndBit(d, done + 1)
  <2> HIDE DEF bytes
  <2> QED
    BY <1>1, <1>2, <1>3, CompletedRecords, Zenon
<1>5. done \in 0 .. maxRecords /\ done \in Nat /\ ch.done <= done
  <2> HIDE DEF done, limit
  <2> QED
    BY <1>2, <1>4
<1>6. /\ x.pkt = ch.pkt /\ x.index = ch.index /\ x.length = ch.length
      /\ x.finished = ch.finished
      /\ x.done = done
      /\ x.next = ch.next + (done - ch.done)
      /\ Kind(c) = "string" => x.received = bytes
      /\ Kind(c) # "string" => x.received = Lesser(bytes, InBufferStart(d, done) + InBufferSize)
      /\ done \in Nat /\ ch.next + (done - ch.done) \in Nat /\ x.received \in Nat => x \in Channel
  BY <1>1, InputProcessFields, Zenon DEF Kind
<1> HIDE DEF x, done
<1>7. /\ x.next \in Nat
      /\ Kind(c) # "string" => x.next <= capacity
  <2> HIDE DEF limit
  <2>1. x.next \in Nat
    BY <1>2, <1>5, <1>6
  <2>2. ASSUME Kind(c) # "string"
        PROVE  x.next <= capacity
    <3>1. limit <= ch.done + (capacity - ch.next) /\ done <= limit
      BY <1>4, <2>2
    <3> QED
      BY <1>2, <1>4, <1>5, <1>6, <3>1
  <2> QED
    BY <2>1, <2>2, Zenon
<1>8. CASE Kind(c) = "string"
  <2>1. x.received = bytes /\ limit = maxRecords
    BY <1>6, <1>8, Zenon DEF RecordLimit, Kind
  <2>2. x \in Channel
    BY <1>2, <1>5, <1>6, <1>7, <2>1, Zenon
  <2>3. done = maxRecords \/ bytes * ByteBits < EndBit(d, done + 1)
    BY <1>2, <1>4, <1>5, <2>1
  <2>4. DecoderOK(c, x)
    BY <1>4, <1>5, <1>6, <1>8, <2>1, <2>2, <2>3 DEF DecoderOK
  <2>5. ~OutputBlocked(x) => x.done < maxRecords
    BY <1>2, <1>5, <1>6 DEF OutputBlocked
  <2>6. ch.received <= bytes
    BY <1>2
  <2>7. ~OutputBlocked(x) => x.received * ByteBits < EndBit(d, x.done + 1)
    BY <1>2, <1>5, <1>6, <2>1, <2>3, <2>5
  <2> HIDE DEF limit, bytes
  <2> QED
    BY <1>2, <1>5, <1>6, <1>8, <2>1, <2>4, <2>5, <2>6, <2>7 DEF x, bytes
<1>9. CASE Kind(c) # "string"
  <2>0. Kind(c) = "packed"
    BY <1>9, KindTypes, Zenon
  <2> DEFINE b == InBufferStart(d, done)
             most == b + InBufferSize
  <2>1. d.word \in Nat \ {0} /\ 2 * d.word <= InBufferSize /\ d.bits \in Nat
        /\ d.bits <= d.word * ByteBits /\ d.word * ByteBits \in Nat
    BY <2>0, KindTypes, Zenon
  <2>2. /\ b \in Nat
        /\ EndBit(d, done) < b * ByteBits + d.word * ByteBits
        /\ \A m \in 0 .. done : InBufferStart(d, m) <= b
    BY <1>5, <2>0, BufferStart, Zenon
  <2>3. ch.done \in 0 .. done /\ ch.done \in 0 .. maxRecords
    BY <1>1, <1>2, <1>5
  <2>4. InBufferStart(d, ch.done) <= b /\ InBufferStart(d, ch.done) \in Nat
    BY <2>0, <2>2, <2>3, BufferStart, Zenon
  <2>5. most \in Nat /\ x.received = Lesser(bytes, most)
    BY <1>6, <1>9, <2>2, Sizes
  <2>6. ch.received <= most
    BY <1>1, <1>2, <1>9, <2>2, <2>4, Sizes
  <2> HIDE DEF most
  <2>7. /\ x.received \in Nat /\ ch.received <= x.received /\ x.received <= bytes
        /\ x.received <= most /\ (x.received = bytes \/ x.received = most)
    BY <1>2, <2>5, <2>6 DEF Lesser
  <2>8. x \in Channel
    BY <1>5, <1>6, <1>7, <2>7, Zenon
  <2> HIDE DEF b, d
  <2>9. EndBit(d, done) \in Nat
    BY <1>5, EndBitOrder, Zenon DEF d
  <2>10. /\ b * ByteBits + d.word * ByteBits + d.word * ByteBits <= most * ByteBits
         /\ b * ByteBits \in Nat /\ most * ByteBits \in Nat
    <3>1. b + 2 * d.word <= most /\ b + 2 * d.word \in Nat
      BY <2>1, <2>2, Sizes DEF most
    <3>2. (b + 2 * d.word) * ByteBits <= most * ByteBits
      BY <2>5, <3>1, Sizes, TimesMonotonic, Zenon
    <3>3. (b + 2 * d.word) * ByteBits
            = b * ByteBits + d.word * ByteBits + d.word * ByteBits
      BY <2>1, <2>2, Sizes
    <3> QED
      BY <2>2, <2>5, <3>2, <3>3, Sizes, TimesNat, Zenon
  <2>11. EndBit(d, done) <= most * ByteBits
    BY <2>1, <2>2, <2>9, <2>10
  <2>12. EndBit(d, done) <= x.received * ByteBits
    BY <1>4, <2>7, <2>11, Zenon
  <2>13. DecoderOK(c, x)
    BY <1>2, <1>5, <1>6, <1>9, <2>7, <2>8, <2>12 DEF DecoderOK, d, most, b
  <2>14. ASSUME ~OutputBlocked(x)
         PROVE  /\ x.received = ch.received + offered
                /\ x.done < maxRecords
                /\ x.received * ByteBits < EndBit(d, x.done + 1)
    <3>1. x.done < maxRecords /\ x.next # capacity
      BY <1>2, <1>5, <1>6, <2>14 DEF OutputBlocked
    <3>2. done < limit
      <4>1. limit = Lesser(maxRecords, ch.done + capacity - ch.next)
        BY <1>9, Zenon DEF RecordLimit, Kind, d
      <4>2. limit = maxRecords \/ limit = ch.done + (capacity - ch.next)
        BY <1>2, <4>1, Zenon DEF Lesser
      <4>3. x.next < capacity
        BY <1>2, <1>7, <1>9, <3>1
      <4> HIDE DEF limit
      <4> QED
        BY <1>2, <1>4, <1>5, <1>6, <3>1, <4>2, <4>3
    <3>3. bytes * ByteBits < EndBit(d, done + 1)
      BY <1>4, <3>2, Zenon
    <3>4. EndBit(d, done + 1) = EndBit(d, done) + d.bits
      <4>1. EndBit(d, done + 1) = (done + 1) * d.bits /\ EndBit(d, done) = done * d.bits
        BY <2>0, Zenon DEF EndBit, Kind, d
      <4>2. done \in Nat /\ d.bits \in Nat
        BY <1>5, <2>1, Zenon
      <4>3. (done + 1) * d.bits = done * d.bits + d.bits
        BY <4>2, TimesSuccessor, Zenon
      <4> QED
        BY <4>1, <4>3, Zenon
    <3>5. bytes * ByteBits \in Nat
      BY <1>2, Sizes, TimesNat, Zenon
    <3> HIDE DEF bytes
    <3>6. bytes * ByteBits < most * ByteBits
      BY <2>1, <2>2, <2>9, <2>10, <3>3, <3>4, <3>5
    <3>7. bytes < most
      <4> SUFFICES ASSUME most <= bytes
                   PROVE  FALSE
        BY <1>2, <2>5
      <4>1. most * ByteBits <= bytes * ByteBits
        BY <1>2, <2>5, Sizes, TimesMonotonic, Zenon
      <4> QED
        BY <2>10, <3>5, <3>6, <4>1
    <3>8. x.received = bytes
      BY <1>2, <2>5, <3>7, Zenon DEF Lesser
    <3> QED
      BY <1>6, <3>1, <3>3, <3>8, Zenon DEF bytes
  <2>15. /\ x.pkt = ch.pkt /\ x.index = ch.index /\ x.length = ch.length
         /\ x.finished = ch.finished
         /\ ch.done <= x.done
         /\ x.next = ch.next + (x.done - ch.done)
         /\ x.next <= capacity
         /\ ch.received <= x.received /\ x.received <= ch.received + offered
    BY <1>5, <1>6, <1>7, <1>9, <2>7, Zenon
  <2> QED
    BY <2>13, <2>14, <2>15, Zenon DEF x, d
<1> QED
  BY <1>8, <1>9, Zenon

-----------------------------------------------------------------------------
(* The steps of a channel. *)

\* Where a channel stands depends on its place, not on its decoder's records.
LEMMA PlaceSame ==
  ASSUME NEW c, NEW x, NEW y, PlaceOK(c, x), y.pkt = x.pkt, y.index = x.index,
         y.length = x.length, y.finished = x.finished, y.received = x.received
  PROVE  PlaceOK(c, y)
BY Zenon DEF PlaceOK

\* dbufs_ are rewound.
LEMMA RewoundOK ==
  ASSUME NEW c, NEW ch, DecoderOK(c, ch)
  PROVE  LET x == [ch EXCEPT !.next = 0]
         IN  /\ DecoderOK(c, x)
             /\ x.pkt = ch.pkt /\ x.index = ch.index /\ x.length = ch.length
             /\ x.finished = ch.finished /\ x.done = ch.done /\ x.received = ch.received
             /\ x.next = 0
<1> DEFINE x == [ch EXCEPT !.next = 0]
<1>1. ch \in Channel
  BY Zenon DEF DecoderOK
<1>2. /\ x \in Channel
      /\ x.pkt = ch.pkt /\ x.index = ch.index /\ x.length = ch.length
      /\ x.finished = ch.finished /\ x.done = ch.done /\ x.received = ch.received
      /\ x.next = 0
  BY <1>1, Zenon DEF Channel
<1> HIDE DEF x
<1>3. DecoderOK(c, x)
  BY <1>2, Zenon DEF DecoderOK
<1> QED
  BY <1>2, <1>3, Zenon DEF x

\* The constant integer decoder fills the buffers, or ends the vector.
LEMMA ConstantProcessOK ==
  ASSUME SectionOK, NEW c \in Channels, Kind(c) = "constant", NEW ch, DecoderOK(c, ch),
         ch.next <= capacity
  PROVE  LET x == ConstantProcess(ch)
         IN  /\ DecoderOK(c, x)
             /\ x.pkt = ch.pkt /\ x.index = ch.index /\ x.length = ch.length
             /\ x.finished = ch.finished /\ x.received = ch.received
             /\ x.next = ch.next + (x.done - ch.done)
             /\ x.next <= capacity
             /\ OutputBlocked(x)
<1> DEFINE x == ConstantProcess(ch)
           count == Lesser(capacity - ch.next, maxRecords - ch.done)
<1>1. ch \in Channel /\ ch.done <= maxRecords
  BY Zenon DEF DecoderOK
<1>2. maxRecords \in Nat /\ capacity \in Nat /\ ch.done \in Nat /\ ch.next \in Nat
  BY <1>1, SectionTypes, ChannelTypes, Zenon
<1>3. /\ count \in Nat /\ ch.done + count <= maxRecords /\ ch.next + count <= capacity
      /\ ch.done + count = maxRecords \/ ch.next + count = capacity
  BY <1>1, <1>2 DEF Lesser
<1>4. /\ x.pkt = ch.pkt /\ x.index = ch.index /\ x.length = ch.length
      /\ x.finished = ch.finished /\ x.received = ch.received
      /\ x.done = ch.done + count /\ x.next = ch.next + count
      /\ ch.done + count \in Nat /\ ch.next + count \in Nat => x \in Channel
  BY <1>1, Zenon DEF ConstantProcess, Channel
<1> HIDE DEF x, count
<1>5. x \in Channel /\ x.done <= maxRecords
  BY <1>2, <1>3, <1>4
<1>6. /\ EndBit(decoders[c], x.done) = EndBit(decoders[c], ch.done)
      /\ InBufferStart(decoders[c], x.done) = InBufferStart(decoders[c], ch.done)
  BY Zenon DEF EndBit, InBufferStart, StreamLength, Kind
<1>7. DecoderOK(c, x)
  BY <1>4, <1>5, <1>6, Zenon DEF DecoderOK
<1>8. OutputBlocked(x)
  BY <1>2, <1>3, <1>4, Zenon DEF OutputBlocked
<1>9. x.next = ch.next + (x.done - ch.done) /\ x.next <= capacity
  BY <1>2, <1>3, <1>4
<1> QED
  BY <1>4, <1>7, <1>8, <1>9, Zenon DEF x

\* The first pass of read: the decoders get no new bytes.
LEMMA ProcessNothing ==
  ASSUME SectionOK, NEW c \in Channels, NEW ch, DecoderOK(c, ch), ch.next = 0
  PROVE  LET x == Process(decoders[c], ch, 0)
         IN  /\ DecoderOK(c, x)
             /\ x.pkt = ch.pkt /\ x.index = ch.index /\ x.length = ch.length
             /\ x.finished = ch.finished /\ x.received = ch.received
             /\ x.done = ch.done + x.next
             /\ x.next <= capacity
             /\ Kind(c) = "constant" => OutputBlocked(x)
<1> DEFINE x == Process(decoders[c], ch, 0)
<1>1. ch \in Channel /\ ch.done <= maxRecords
  BY Zenon DEF DecoderOK
<1>2. /\ maxRecords \in Nat /\ capacity \in Nat /\ ch.done \in Nat /\ ch.received \in Nat
      /\ ch.next <= capacity
  BY <1>1, SectionTypes, ChannelTypes
<1>3. CASE Kind(c) = "constant"
  <2>1. x = ConstantProcess(ch)
    BY <1>3, Zenon DEF Process, Kind
  <2>2. /\ DecoderOK(c, x)
        /\ x.pkt = ch.pkt /\ x.index = ch.index /\ x.length = ch.length
        /\ x.finished = ch.finished /\ x.received = ch.received
        /\ x.next = ch.next + (x.done - ch.done)
        /\ x.next <= capacity
        /\ OutputBlocked(x)
    BY <1>2, <1>3, <2>1, ConstantProcessOK
  <2> HIDE DEF x
  <2>3. x.done \in Nat
    BY <2>2, ChannelTypes, Zenon DEF DecoderOK
  <2>4. x.done = ch.done + x.next
    BY <1>2, <2>2, <2>3
  <2> QED
    BY <2>2, <2>4, Zenon DEF x
<1>4. CASE Kind(c) # "constant"
  <2>1. x = InputProcess(decoders[c], ch, 0)
    BY <1>4, Zenon DEF Process, Kind
  <2>2. /\ DecoderOK(c, x)
        /\ x.pkt = ch.pkt /\ x.index = ch.index /\ x.length = ch.length
        /\ x.finished = ch.finished
        /\ ch.done <= x.done
        /\ x.next = ch.next + (x.done - ch.done)
        /\ Kind(c) # "string" => x.next <= capacity
        /\ ch.received <= x.received /\ x.received <= ch.received + 0
    BY <1>2, <1>4, <2>1, InputProcessOK
  <2> HIDE DEF x
  <2>3. x.done \in Nat /\ x.received \in Nat /\ x.done <= maxRecords
        /\ EndBit(decoders[c], x.done) <= x.received * ByteBits
    BY <2>2, ChannelTypes, Zenon DEF DecoderOK
  <2>4. x.received = ch.received /\ x.done = ch.done + x.next
    BY <1>2, <2>2, <2>3
  <2>5. ASSUME Kind(c) = "string"
        PROVE  x.next <= capacity
    <3>1. ch.done = maxRecords \/ ch.received * ByteBits < EndBit(decoders[c], ch.done + 1)
      BY <2>5, Zenon DEF DecoderOK
    <3>2. x.done = ch.done
      <4> SUFFICES ASSUME x.done # ch.done
                   PROVE  FALSE
        BY Zenon
      <4>1. ch.done + 1 \in 0 .. x.done /\ x.done \in 0 .. maxRecords /\ ch.done # maxRecords
            /\ ch.done + 1 \in 0 .. maxRecords
        BY <1>2, <2>2, <2>3
      <4>2. EndBit(decoders[c], ch.done + 1) <= EndBit(decoders[c], x.done)
            /\ EndBit(decoders[c], x.done) \in Nat
        BY <4>1, EndBitOrder, Zenon
      <4>3. EndBit(decoders[c], ch.done + 1) \in Nat
        BY <4>1, EndBitOrder, Zenon
      <4>4. ch.received * ByteBits \in Nat
        BY <1>2, Sizes, TimesNat, Zenon
      <4>5. EndBit(decoders[c], x.done) <= ch.received * ByteBits
        BY <2>3, <2>4, Zenon
      <4> QED
        BY <3>1, <4>1, <4>2, <4>3, <4>4, <4>5
    <3>3. x.next = 0
      BY <1>2, <2>2, <3>2
    <3> QED
      BY <1>2, <3>3, Zenon
  <2> QED
    BY <1>4, <2>2, <2>4, <2>5, Zenon DEF x
<1> QED
  BY <1>3, <1>4, Zenon

\* The packets of a section hold its bytestreams: no more and no less.
LEMMA BytesTypes ==
  ASSUME SectionOK, NEW c \in Channels
  PROVE  /\ Len(packets) \in Nat \ {0}
         /\ \A i \in 1 .. Len(packets) : /\ PacketBytes(c)[i] \in Nat
                                         /\ PacketBytes(c)[i] = packets[i].bytes[c]
         /\ \A i \in 1 .. Len(packets) : ~packets[i].data => PacketBytes(c)[i] = 0
         /\ SumTo(PacketBytes(c), Len(packets)) = StreamLength(decoders[c], maxRecords)
         /\ \A i : BytesBefore(c, i) = SumTo(PacketBytes(c), i - 1)
BY Zenon DEF SectionOK, PacketBytes, BytesBefore

\* bytestreamBufferIndex moves by the bytes that the decoder has stored.
LEMMA IndexMoves ==
  ASSUME NEW index1 \in Nat, NEW length1 \in Nat, NEW received1 \in Nat, NEW received2 \in Nat,
         NEW index2, index1 <= length1, received1 <= received2,
         received2 <= received1 + (length1 - index1),
         index2 = index1 + (received2 - received1)
  PROVE  /\ index2 \in Nat
         /\ index2 <= length1
         /\ received2 = received1 + (length1 - index1) => index2 = length1
         /\ \A before \in Int : received1 = before + index1 => received2 = before + index2
OBVIOUS

\* feedPacketToDecoders: the state of a channel that reads packet i.
LEMMA FedOK ==
  ASSUME ReaderOK, pc = "read", NEW c \in Channels, NEW i, Reading(chan[c], i)
  PROVE  LET x == Fed(i)[c]
         IN  /\ maxRecords > 0 /\ i \in 1 .. Len(packets)
             /\ Kind(c) # "constant"
             /\ DecoderOK(c, x)
             /\ PlaceOK(c, x)
             /\ x.pkt = i
             /\ x.done = start[c] + x.next
             /\ Kind(c) # "string" => x.next <= capacity
             /\ ~OutputBlocked(x) /\ x.next <= capacity =>
                  /\ x.index = x.length
                  /\ x.done < maxRecords
                  /\ x.received * ByteBits < EndBit(decoders[c], x.done + 1)
<1> DEFINE ch == chan[c]
           offered == packets[i].bytes[c] - ch.index
           fed == InputProcess(decoders[c], ch, offered)
           x == Fed(i)[c]
<1>1. /\ SectionOK /\ DecoderOK(c, ch) /\ PlaceOK(c, ch) /\ ch.next <= capacity
      /\ ch.done = start[c] + ch.next /\ start[c] \in Nat
      /\ Kind(c) = "constant" => OutputBlocked(ch)
  BY Zenon DEF ReaderOK
<1>2. ch.pkt = i /\ ~OutputBlocked(ch)
  BY Zenon DEF Reading
<1>3. ch \in Channel /\ ch.done <= maxRecords /\ Kind(c) # "constant"
  BY <1>1, <1>2, Zenon DEF DecoderOK
<1>4. /\ maxRecords \in Nat /\ capacity \in Nat /\ ch.done \in Nat /\ ch.next \in Nat
      /\ ch.received \in Nat /\ ch.index \in Nat /\ ch.length \in Nat /\ ch.pkt \in Nat
  BY <1>1, <1>3, SectionTypes, ChannelTypes, Zenon
<1>5. maxRecords > 0
  BY <1>2, <1>4 DEF OutputBlocked
<1>6. /\ i \in 1 .. Len(packets) /\ ~ch.finished
      /\ ch.length = packets[i].bytes[c] /\ ch.index <= ch.length
      /\ ch.received = BytesBefore(c, i) + ch.index
  <2>1. /\ ch.pkt \in 0 .. Len(packets) /\ ch.pkt > 0 /\ ~ch.finished
        /\ ch.length = packets[ch.pkt].bytes[c] /\ ch.index <= ch.length
        /\ ch.received = BytesBefore(c, ch.pkt) + ch.index
    BY <1>1, <1>5, Zenon DEF PlaceOK
  <2>2. Len(packets) \in Nat
    BY <1>1, Zenon DEF SectionOK
  <2> QED
    BY <1>2, <1>4, <2>1, <2>2
<1>7. offered \in Nat /\ offered = ch.length - ch.index
  BY <1>4, <1>6
<1>8. /\ DecoderOK(c, fed)
      /\ fed.pkt = ch.pkt /\ fed.index = ch.index /\ fed.length = ch.length
      /\ fed.finished = ch.finished
      /\ ch.done <= fed.done
      /\ fed.next = ch.next + (fed.done - ch.done)
      /\ Kind(c) # "string" => fed.next <= capacity
      /\ ch.received <= fed.received /\ fed.received <= ch.received + offered
      /\ ~OutputBlocked(fed) /\ fed.next <= capacity =>
           /\ fed.received = ch.received + offered
           /\ fed.done < maxRecords
           /\ fed.received * ByteBits < EndBit(decoders[c], fed.done + 1)
  <2>1. /\ SectionOK /\ c \in Channels /\ Kind(c) # "constant" /\ DecoderOK(c, ch)
        /\ ch.next <= capacity /\ offered \in Nat
    BY <1>1, <1>3, <1>7, Zenon
  <2> HIDE DEF ch, offered
  <2> QED
    BY <2>1, InputProcessOK, Zenon
<1>9. x = [fed EXCEPT !.index = @ + (fed.received - ch.received)]
  BY <1>3, Zenon DEF Fed, Process, Processed, Kind
<1> HIDE DEF fed, x, ch, offered
<1>10. /\ fed \in Channel /\ fed.received \in Nat /\ fed.done \in Nat /\ fed.index \in Nat
       /\ fed.next \in Nat
  BY <1>8, ChannelTypes, Zenon DEF DecoderOK
<1>11. /\ x.pkt = fed.pkt /\ x.length = fed.length /\ x.finished = fed.finished
       /\ x.done = fed.done /\ x.received = fed.received /\ x.next = fed.next
       /\ x.index = fed.index + (fed.received - ch.received)
       /\ fed.index + (fed.received - ch.received) \in Nat => x \in Channel
  BY <1>9, <1>10, Zenon DEF Channel
<1>12. /\ x.index \in Nat /\ x.index <= ch.length
       /\ x.received = ch.received + offered => x.index = ch.length
       /\ \A before \in Int : ch.received = before + ch.index => x.received = before + x.index
  <2>1. /\ ch.index \in Nat /\ ch.length \in Nat /\ ch.received \in Nat /\ fed.received \in Nat
        /\ ch.index <= ch.length /\ ch.received <= fed.received
        /\ fed.received <= ch.received + (ch.length - ch.index)
        /\ x.index = ch.index + (fed.received - ch.received)
    BY <1>4, <1>6, <1>7, <1>8, <1>10, <1>11, Zenon
  <2>2. /\ x.index \in Nat
        /\ x.index <= ch.length
        /\ fed.received = ch.received + (ch.length - ch.index) => x.index = ch.length
        /\ \A before \in Int : ch.received = before + ch.index => fed.received = before + x.index
    BY <2>1, IndexMoves
  <2> QED
    BY <1>7, <1>11, <2>2, Zenon
<1>13. DecoderOK(c, x)
  BY <1>8, <1>11, <1>12, Zenon DEF DecoderOK
<1>14. PlaceOK(c, x)
  <2>1. BytesBefore(c, i) \in Int
    <3>1. /\ Len(packets) \in Nat
          /\ \A j \in 1 .. Len(packets) : PacketBytes(c)[j] \in Nat
          /\ BytesBefore(c, i) = SumTo(PacketBytes(c), i - 1)
      BY <1>1, BytesTypes, Zenon
    <3>2. i - 1 \in Nat /\ \A j \in 1 .. i - 1 : PacketBytes(c)[j] \in Nat
      BY <1>6, <3>1
    <3>3. SumTo(PacketBytes(c), i - 1) \in Nat
      BY <3>2, SumNat, Zenon
    <3> QED
      BY <3>1, <3>3
  <2>2. x.received = BytesBefore(c, i) + x.index
    BY <1>6, <1>12, <2>1, Zenon
  <2>3. x.pkt = i /\ x.length = ch.length /\ ~x.finished
    BY <1>2, <1>6, <1>8, <1>11, Zenon
  <2>4. i \in 0 .. Len(packets) /\ i > 0
    BY <1>6
  <2> QED
    BY <1>6, <1>12, <2>2, <2>3, <2>4, Zenon DEF PlaceOK
<1>15. x.done = start[c] + x.next
  BY <1>1, <1>4, <1>8, <1>10, <1>11
<1>16. OutputBlocked(x) = OutputBlocked(fed)
  BY <1>11, Zenon DEF OutputBlocked
<1>17. ASSUME ~OutputBlocked(x), x.next <= capacity
       PROVE  /\ x.index = x.length
              /\ x.done < maxRecords
              /\ x.received * ByteBits < EndBit(decoders[c], x.done + 1)
  BY <1>8, <1>11, <1>12, <1>16, <1>17, Zenon
<1> QED
  BY <1>2, <1>3, <1>5, <1>6, <1>8, <1>11, <1>13, <1>14, <1>15, <1>17, Zenon DEF x

\* findNextDataPacket skips only packets without bytes.
LEMMA SkippedPackets ==
  ASSUME SectionOK, NEW c \in Channels, NEW i \in 1 .. Len(packets)
  PROVE  LET next == NextDataPacket(i)
         IN  /\ next \in i + 1 .. Len(packets) + 1
             /\ SumTo(PacketBytes(c), next - 1) = BytesBefore(c, i) + packets[i].bytes[c]
<1> DEFINE S == {j \in i + 1 .. Len(packets) : packets[j].data} \cup {Len(packets) + 1}
           next == NextDataPacket(i)
           f == PacketBytes(c)
<1>1. /\ Len(packets) \in Nat
      /\ \A j \in 1 .. Len(packets) : f[j] \in Nat /\ f[j] = packets[j].bytes[c]
      /\ \A j \in 1 .. Len(packets) : ~packets[j].data => f[j] = 0
      /\ BytesBefore(c, i) = SumTo(f, i - 1)
  BY BytesTypes, Zenon
<1>2. S \subseteq Nat /\ S # {} /\ S \subseteq i + 1 .. Len(packets) + 1
  BY <1>1
<1>3. next = Min(S)
  BY Zenon DEF NextDataPacket
<1>4. next \in S /\ \A j \in S : next <= j
  <2> HIDE DEF S, next
  <2> QED
    BY <1>2, <1>3, MinOf, Zenon
<1>5. next \in i + 1 .. Len(packets) + 1
  BY <1>2, <1>4, Zenon
<1>6. \A j \in i + 1 .. next - 1 : f[j] = 0
  <2> TAKE j \in i + 1 .. next - 1
  <2> HIDE DEF next, f
  <2>1. j \in i + 1 .. Len(packets) /\ j \in 1 .. Len(packets) /\ ~(next <= j)
    BY <1>1, <1>5
  <2>2. ~packets[j].data
    BY <1>4, <2>1, Zenon
  <2> QED
    BY <1>1, <2>1, <2>2, Zenon
<1> HIDE DEF next, f, S
<1>7. /\ next - 1 \in Nat /\ i \in 0 .. next - 1 /\ i - 1 \in Nat
      /\ \A j \in 1 .. next - 1 : f[j] \in Nat
  BY <1>1, <1>5
<1>8. SumTo(f, i) = SumTo(f, next - 1)
  BY <1>6, <1>7, SumGap, Zenon
<1>9. SumTo(f, (i - 1) + 1) = SumTo(f, i - 1) + f[(i - 1) + 1]
  BY <1>7, SumStep, Zenon
<1>10. (i - 1) + 1 = i
  OBVIOUS
<1> QED
  BY <1>1, <1>5, <1>8, <1>9, <1>10, Zenon DEF next, f

\* A channel is moved on only when it has read all of its packet, and there
\* is always a packet to move to.
LEMMA MovedOK ==
  ASSUME SectionOK, NEW c \in Channels, NEW i \in 1 .. Len(packets), NEW x,
         DecoderOK(c, x), PlaceOK(c, x), maxRecords > 0, x.pkt = i, x.index = x.length,
         x.done < maxRecords, x.received * ByteBits < EndBit(decoders[c], x.done + 1)
  PROVE  LET y == Moved(c, x, NextDataPacket(i))
         IN  /\ DecoderOK(c, y)
             /\ PlaceOK(c, y)
             /\ y.done = x.done /\ y.next = x.next
<1> DEFINE to == NextDataPacket(i)
           y == Moved(c, x, to)
<1>1. /\ Len(packets) \in Nat
      /\ \A j \in 1 .. Len(packets) : packets[j].bytes[c] \in Nat
      /\ SumTo(PacketBytes(c), Len(packets)) = StreamLength(decoders[c], maxRecords)
      /\ \A j : BytesBefore(c, j) = SumTo(PacketBytes(c), j - 1)
  BY BytesTypes, Zenon DEF SectionOK
<1>2. /\ to \in i + 1 .. Len(packets) + 1
      /\ SumTo(PacketBytes(c), to - 1) = BytesBefore(c, i) + packets[i].bytes[c]
  BY SkippedPackets, Zenon
<1>3. /\ x.received = BytesBefore(c, i) + packets[i].bytes[c] /\ ~x.finished
  BY Zenon DEF PlaceOK
<1>4. x \in Channel /\ x.done \in Nat /\ x.received \in Nat
  BY ChannelTypes, Zenon DEF DecoderOK
<1> HIDE DEF to
<1>5. to <= Len(packets)
  <2>0. to <= Len(packets) \/ to = Len(packets) + 1
    <3>1. Len(packets) \in Nat /\ i \in 1 .. Len(packets) /\ to \in i + 1 .. Len(packets) + 1
      BY <1>1, <1>2, Zenon
    <3> QED
      BY <3>1
  <2> SUFFICES ASSUME to = Len(packets) + 1
               PROVE  FALSE
    BY <2>0, Zenon
  <2>1. x.received = StreamLength(decoders[c], maxRecords)
    <3>1. (Len(packets) + 1) - 1 = Len(packets)
      BY <1>1
    <3> QED
      BY <1>1, <1>2, <1>3, <3>1, Zenon
  <2>2. maxRecords \in Nat
    BY SectionTypes, Zenon
  <2>3. x.done + 1 \in 0 .. maxRecords /\ maxRecords \in 0 .. maxRecords
    BY <1>4, <2>2
  <2>4. /\ EndBit(decoders[c], x.done + 1) <= EndBit(decoders[c], maxRecords)
        /\ EndBit(decoders[c], maxRecords) \in Nat
    BY <2>3, EndBitOrder, Zenon
  <2>5. EndBit(decoders[c], x.done + 1) \in Nat
    BY <2>3, EndBitOrder, Zenon
  <2>6. EndBit(decoders[c], maxRecords) <= x.received * ByteBits
    BY <2>1, <2>3, StreamHoldsRecords, Zenon
  <2>7. x.received * ByteBits \in Nat
    BY <1>4, Sizes, TimesNat, Zenon
  <2> QED
    BY <2>4, <2>5, <2>6, <2>7
<1>6. to \in 1 .. Len(packets) /\ to \in Nat /\ packets[to].bytes[c] \in Nat
  BY <1>1, <1>2, <1>5
<1> DEFINE bytes == packets[to].bytes[c]
<1>7. y = [x EXCEPT !.pkt = to, !.index = 0, !.length = bytes]
  BY <1>5, Zenon DEF Moved
<1> HIDE DEF y, bytes
<1>8. /\ y \in Channel
      /\ y.pkt = to /\ y.index = 0 /\ y.length = packets[to].bytes[c]
      /\ y.finished = x.finished /\ y.done = x.done /\ y.received = x.received
      /\ y.next = x.next
  <2>1. x \in Channel /\ to \in Nat /\ bytes \in Nat
    BY <1>4, <1>6, Zenon DEF bytes
  <2>2. /\ y \in Channel
        /\ y.pkt = to /\ y.index = 0 /\ y.length = bytes
        /\ y.finished = x.finished /\ y.done = x.done /\ y.received = x.received
        /\ y.next = x.next
    BY <1>7, <2>1, Zenon DEF Channel
  <2> QED
    BY <2>2, Zenon DEF bytes
<1>9. DecoderOK(c, y)
  BY <1>8, Zenon DEF DecoderOK
<1>10. PlaceOK(c, y)
  <2>1. y.received = BytesBefore(c, y.pkt) + y.index
    BY <1>1, <1>2, <1>3, <1>4, <1>8
  <2>2. y.pkt \in 0 .. Len(packets) /\ y.pkt > 0 /\ y.index <= y.length
    BY <1>1, <1>6, <1>8
  <2> QED
    BY <1>3, <1>8, <2>1, <2>2, Zenon DEF PlaceOK
<1> QED
  BY <1>8, <1>9, <1>10, Zenon DEF y, to

-----------------------------------------------------------------------------
(* The steps of the reader. *)

(***************************************************************************)
(* ReaderOK after a step.  The section stays, so only what the step says   *)
(* of the other variables is to be shown.                                  *)
(***************************************************************************)
LEMMA ReaderKept ==
  ASSUME SectionOK, UNCHANGED section, rebuffered' = FALSE,
         chan' \in [Channels -> Channel], start' \in [Channels -> Nat],
         \A c \in Channels : /\ DecoderOK(c, chan'[c])
                             /\ PlaceOK(c, chan'[c])
                             /\ chan'[c].next <= capacity,
         pc' \in {"idle", "read", "closed"}, error' \in {"none", "io", "value", "internal"},
         result' \in 0 .. capacity,
         pc' = "idle" /\ error' = "none" =>
           \A c, b \in Channels : chan'[c].done = chan'[b].done,
         pc' = "read" =>
           /\ error' = "none"
           /\ \A c, b \in Channels : start'[c] = start'[b]
           /\ \A c \in Channels : /\ chan'[c].done = start'[c] + chan'[c].next
                                  /\ Kind(c) = "constant" => OutputBlocked(chan'[c]),
         error' = "internal" =>
           maxRecords > capacity /\ \E c \in Channels : Kind(c) = "string"
  PROVE  ReaderOK'
<1>1. decoders' = decoders /\ packets' = packets /\ maxRecords' = maxRecords
      /\ capacity' = capacity
  BY Zenon DEF section
<1>2. Channels' = Channels /\ \A c : Kind(c)' = Kind(c)
  BY <1>1, Zenon DEF Channels, Kind
<1>3. SectionOK'
  BY <1>1, <1>2, Zenon DEF SectionOK, PacketBytes
<1>4. \A c \in Channels : DecoderOK(c, chan[c])' /\ PlaceOK(c, chan[c])'
  BY <1>1, <1>2, Zenon DEF DecoderOK, PlaceOK, BytesBefore, Kind
<1>5. \A c \in Channels : OutputBlocked(chan[c])' = OutputBlocked(chan'[c])
  BY <1>1, Zenon DEF OutputBlocked
<1> QED
  BY <1>1, <1>2, <1>3, <1>4, <1>5, Zenon DEF ReaderOK

\* The channels of a new reader stand before the first byte.
LEMMA ReaderInit == Init => ReaderOK
<1> SUFFICES ASSUME Init
             PROVE  ReaderOK
  BY Zenon
<1>1. /\ decoders \in Prototypes /\ maxRecords \in Counts /\ capacity \in Capacities
      /\ chan = [c \in Channels |-> NewChannel(c)] /\ start = [c \in Channels |-> 0]
      /\ pc = "idle" /\ rebuffered = FALSE /\ result = 0 /\ error = "none"
  BY Zenon DEF Init
<1>2. PICK p \in 1 .. MaxPackets : \E skipped \in SUBSET (2 .. p) :
        IsSection(maxRecords, p, skipped)
  BY Zenon DEF Init
<1>3. PICK skipped \in SUBSET (2 .. p) : IsSection(maxRecords, p, skipped)
  BY <1>2, Zenon
<1>4. PICK cut \in [Channels ->
                      UNION {Cuts(StreamLength(decoders[c], maxRecords), p) : c \in Channels}] :
        /\ \A c \in Channels : cut[c] \in Cuts(StreamLength(decoders[c], maxRecords), p)
        /\ \A c \in Channels, i \in skipped : cut[c][i] = 0
        /\ packets = [i \in 1 .. p |-> [data |-> i \notin skipped,
                                        bytes |-> [c \in Channels |-> cut[c][i]]]]
  BY <1>3, Zenon DEF IsSection
<1>5. p \in Nat \ {0} /\ Len(packets) = p
  BY <1>4, Sizes
<1>6. \A c \in Channels, i \in 1 .. p :
        packets[i].bytes[c] = cut[c][i] /\ packets[i].data = (i \notin skipped)
  BY <1>4, Zenon
<1>7. ASSUME NEW c \in Channels
      PROVE  /\ cut[c] \in [1 .. p -> Nat]
             /\ SumTo(cut[c], p) = StreamLength(decoders[c], maxRecords)
  BY <1>4 DEF Cuts
<1>8. \A c \in Channels : PacketBytes(c) = cut[c]
  BY <1>5, <1>6, <1>7, Zenon DEF PacketBytes
<1>9. SectionOK
  <2>1. ASSUME NEW c \in Channels, NEW i \in 1 .. Len(packets)
        PROVE  /\ packets[i].bytes[c] \in Nat
               /\ ~packets[i].data => packets[i].bytes[c] = 0
    BY <1>4, <1>5, <1>6, <1>7, Zenon
  <2>2. ASSUME NEW c \in Channels
        PROVE  SumTo(PacketBytes(c), Len(packets)) = StreamLength(decoders[c], maxRecords)
    BY <1>5, <1>7, <1>8, Zenon
  <2> QED
    BY <1>1, <1>5, <2>1, <2>2, Zenon DEF SectionOK
<1>10. maxRecords \in Nat /\ capacity \in Nat \ {0}
  BY <1>9, SectionTypes, Zenon
<1>11. ASSUME NEW c \in Channels
       PROVE  /\ DecoderOK(c, chan[c]) /\ PlaceOK(c, chan[c])
              /\ chan[c].next = 0 /\ chan[c].done = 0
  <2> DEFINE ch == chan[c]
  <2>1. packets[1].bytes[c] \in Nat
    BY <1>5, <1>9 DEF SectionOK
  <2>2. /\ ch.pkt = IF maxRecords > 0 THEN 1 ELSE 0
        /\ ch.length = IF maxRecords > 0 THEN packets[1].bytes[c] ELSE 0
        /\ ch.index = 0 /\ ch.finished = FALSE /\ ch.done = 0 /\ ch.received = 0 /\ ch.next = 0
        /\ ch \in Channel
    BY <1>1, <2>1, Zenon DEF NewChannel, Channel
  <2> HIDE DEF ch
  <2>3. DecoderOK(c, ch)
    <3>1. 0 \in 0 .. maxRecords
      BY <1>10
    <3>2. EndBit(decoders[c], 0) = 0
      BY <1>9, <3>1, EndBitOrder, Zenon
    <3>3. 0 * ByteBits = 0
      BY Sizes
    <3>4. ASSUME Kind(c) # "string"
          PROVE  0 <= InBufferStart(decoders[c], 0) + InBufferSize
      <4>1. InBufferStart(decoders[c], 0) \in Nat
        <5>1. CASE Kind(c) = "packed"
          BY <1>9, <3>1, <5>1, BufferStart, Zenon
        <5>2. CASE Kind(c) # "packed"
          <6>1. InBufferStart(decoders[c], 0) = StreamLength(decoders[c], 0)
            BY <5>2, Zenon DEF InBufferStart, Kind
          <6> QED
            BY <1>9, <3>1, <6>1, StreamHoldsRecords, Zenon
        <5> QED
          BY <5>1, <5>2, Zenon
      <4> QED
        BY <4>1, Sizes
    <3>5. ASSUME Kind(c) = "string"
          PROVE  0 = maxRecords \/ 0 * ByteBits < EndBit(decoders[c], 0 + 1)
      <4>1. CASE maxRecords > 0
        <5>1. 0 < EndBit(decoders[c], 1)
          BY <1>9, <3>5, <4>1, StringGrows, Zenon
        <5> QED
          BY <3>3, <5>1
      <4> QED
        BY <1>10, <4>1
    <3> QED
      BY <1>10, <2>2, <3>2, <3>3, <3>4, <3>5 DEF DecoderOK
  <2>4. PlaceOK(c, ch)
    <3>1. BytesBefore(c, 1) = SumTo(PacketBytes(c), 1 - 1)
      BY Zenon DEF BytesBefore, PacketBytes
    <3>2. BytesBefore(c, 1) = 0
      BY <3>1, SumZero
    <3>3. ch.pkt \in 0 .. Len(packets)
      BY <1>5, <2>2
    <3> QED
      BY <2>1, <2>2, <3>2, <3>3 DEF PlaceOK
  <2> QED
    BY <2>2, <2>3, <2>4, Zenon DEF ch
<1>12. chan \in [Channels -> Channel]
  <2>1. \A c \in Channels : chan[c] \in Channel
    BY <1>11, Zenon DEF DecoderOK
  <2> QED
    BY <1>1, <2>1, Zenon
<1> QED
  BY <1>1, <1>9, <1>10, <1>11, <1>12 DEF ReaderOK

\* read up to its loop.
LEMMA ReaderBegins == ReaderOK /\ read => ReaderOK'
<1> SUFFICES ASSUME ReaderOK, read
             PROVE  ReaderOK'
  BY Zenon
<1> DEFINE rewound(c) == [chan[c] EXCEPT !.next = 0]
<1>1. /\ SectionOK /\ rebuffered = FALSE /\ result \in 0 .. capacity
      /\ chan \in [Channels -> Channel]
  BY Zenon DEF ReaderOK
<1>2. /\ pc = "idle" /\ error = "none" /\ pc' = "read" /\ rebuffered' = rebuffered
      /\ start' = [c \in Channels |-> chan[c].done]
      /\ UNCHANGED section /\ result' = result /\ error' = error
  BY Zenon DEF read, BeginRead
<1>3. chan' = [c \in Channels |-> Process(decoders[c], rewound(c), 0)]
  BY <1>1, Zenon DEF read, BeginRead
<1>4. ASSUME NEW c \in Channels
      PROVE  /\ DecoderOK(c, chan'[c]) /\ PlaceOK(c, chan'[c]) /\ chan'[c] \in Channel
             /\ chan'[c].next <= capacity
             /\ chan'[c].done = chan[c].done + chan'[c].next
             /\ Kind(c) = "constant" => OutputBlocked(chan'[c])
  <2> DEFINE x == Process(decoders[c], rewound(c), 0)
  <2>1. DecoderOK(c, chan[c]) /\ PlaceOK(c, chan[c])
    BY Zenon DEF ReaderOK
  <2>2. /\ DecoderOK(c, rewound(c))
        /\ rewound(c).pkt = chan[c].pkt /\ rewound(c).index = chan[c].index
        /\ rewound(c).length = chan[c].length /\ rewound(c).finished = chan[c].finished
        /\ rewound(c).done = chan[c].done /\ rewound(c).received = chan[c].received
        /\ rewound(c).next = 0
    BY <2>1, RewoundOK
  <2> HIDE DEF rewound
  <2>3. /\ DecoderOK(c, x)
        /\ x.pkt = rewound(c).pkt /\ x.index = rewound(c).index
        /\ x.length = rewound(c).length
        /\ x.finished = rewound(c).finished /\ x.received = rewound(c).received
        /\ x.done = rewound(c).done + x.next
        /\ x.next <= capacity
        /\ Kind(c) = "constant" => OutputBlocked(x)
    BY <1>1, <2>2, ProcessNothing
  <2> HIDE DEF x
  <2>4. PlaceOK(c, x)
    BY <2>1, <2>2, <2>3, PlaceSame, Zenon
  <2>5. x \in Channel
    BY <2>3, Zenon DEF DecoderOK
  <2>6. chan'[c] = x
    BY <1>3, Zenon DEF x
  <2> QED
    BY <2>2, <2>3, <2>4, <2>5, <2>6, Zenon
<1> HIDE DEF rewound
<1>5. chan' \in [Channels -> Channel]
  BY <1>3, <1>4, Zenon
<1>6. \A c \in Channels : start'[c] = chan[c].done /\ chan[c].done \in Nat
  BY <1>1, <1>2, ChannelTypes, Zenon
<1>7. start' \in [Channels -> Nat]
  BY <1>2, <1>6, Zenon
<1>8. \A c, b \in Channels : start'[c] = start'[b]
  BY <1>2, <1>6, Zenon DEF ReaderOK
<1> QED
  BY <1>1, <1>2, <1>4, <1>5, <1>6, <1>7, <1>8, ReaderKept, Zenon

\* What feedPacketToDecoders leaves of a channel.
LEMMA ChannelFed ==
  ASSUME ReaderOK, pc = "read", NEW c \in Channels, NEW i, Fed(i)[c].next <= capacity
  PROVE  LET y == MovedOn(Fed(i), i)[c]
         IN  /\ DecoderOK(c, y)
             /\ PlaceOK(c, y)
             /\ y.next <= capacity
             /\ y.done = start[c] + y.next
             /\ Kind(c) = "constant" => OutputBlocked(y)
<1> DEFINE x == Fed(i)[c]
           y == MovedOn(Fed(i), i)[c]
<1>1. y = x \/ (Reading(x, i) /\ y = Moved(c, x, NextDataPacket(i)))
  BY Zenon DEF MovedOn
<1>2. SectionOK
  BY Zenon DEF ReaderOK
<1>3. CASE ~Reading(chan[c], i)
  <2>1. x = chan[c]
    BY <1>3, Zenon DEF Fed
  <2>2. y = chan[c]
    BY <1>1, <1>3, <2>1, Zenon
  <2> HIDE DEF y
  <2> QED
    BY <2>2, Zenon DEF ReaderOK, y
<1>4. CASE Reading(chan[c], i)
  <2>1. /\ maxRecords > 0 /\ i \in 1 .. Len(packets)
        /\ Kind(c) # "constant"
        /\ DecoderOK(c, x)
        /\ PlaceOK(c, x)
        /\ x.pkt = i
        /\ x.done = start[c] + x.next
        /\ ~OutputBlocked(x) /\ x.next <= capacity =>
             /\ x.index = x.length
             /\ x.done < maxRecords
             /\ x.received * ByteBits < EndBit(decoders[c], x.done + 1)
    BY <1>4, FedOK, Zenon
  <2> HIDE DEF x, y
  <2>2. x.next <= capacity
    BY Zenon DEF x
  <2>3. CASE y = x
    BY <2>1, <2>2, <2>3, Zenon DEF y
  <2>4. CASE Reading(x, i) /\ y = Moved(c, x, NextDataPacket(i))
    <3>1. ~OutputBlocked(x)
      BY <2>4, Zenon DEF Reading
    <3>2. DecoderOK(c, y) /\ PlaceOK(c, y) /\ y.done = x.done /\ y.next = x.next
      BY <1>2, <2>1, <2>2, <2>4, <3>1, MovedOK
    <3> QED
      BY <2>1, <2>2, <3>2, Zenon DEF y
  <2> QED
    BY <1>1, <2>3, <2>4, Zenon
<1> QED
  BY <1>3, <1>4, Zenon

\* feedPacketToDecoders keeps ReaderOK.
LEMMA ReaderFeeds == ReaderOK /\ feedPacketToDecoders => ReaderOK'
<1> SUFFICES ASSUME ReaderOK, feedPacketToDecoders
             PROVE  ReaderOK'
  BY Zenon
<1> DEFINE i == Earliest
<1>1. /\ SectionOK /\ rebuffered = FALSE /\ result \in 0 .. capacity
      /\ start \in [Channels -> Nat]
  BY Zenon DEF ReaderOK
<1>2. /\ pc = "read" /\ UNCHANGED section /\ rebuffered' = rebuffered /\ start' = start
      /\ pc' = pc /\ result' = result /\ error' = error
      /\ ~Overflows(Fed(i)) /\ chan' = MovedOn(Fed(i), i)
  BY Zenon DEF feedPacketToDecoders, InRead
<1> HIDE DEF i
<1>3. /\ error = "none"
      /\ \A c, b \in Channels : start[c] = start[b]
  BY <1>2, Zenon DEF ReaderOK
<1>4. ASSUME NEW c \in Channels
      PROVE  Fed(i)[c].next <= capacity
  <2> DEFINE x == Fed(i)[c]
  <2>1. ~(x.next > capacity)
    BY <1>2, Zenon DEF Overflows
  <2>2. x.next \in Nat /\ capacity \in Nat
    <3>1. DecoderOK(c, x)
      <4>1. CASE Reading(chan[c], i)
        BY <1>2, <4>1, FedOK, Zenon
      <4>2. CASE ~Reading(chan[c], i)
        <5>1. x = chan[c]
          BY <4>2, Zenon DEF Fed
        <5> QED
          BY <5>1, Zenon DEF ReaderOK
      <4> QED
        BY <4>1, <4>2, Zenon
    <3> HIDE DEF x
    <3> QED
      BY <1>1, <3>1, SectionTypes, ChannelTypes, Zenon DEF DecoderOK
  <2> HIDE DEF x
  <2>3. x.next <= capacity
    BY <2>1, <2>2
  <2> QED
    BY <2>3, Zenon DEF x
<1>5. ASSUME NEW c \in Channels
      PROVE  /\ DecoderOK(c, chan'[c]) /\ PlaceOK(c, chan'[c]) /\ chan'[c] \in Channel
             /\ chan'[c].next <= capacity
             /\ chan'[c].done = start[c] + chan'[c].next
             /\ Kind(c) = "constant" => OutputBlocked(chan'[c])
  <2> DEFINE y == MovedOn(Fed(i), i)[c]
  <2>1. /\ DecoderOK(c, y)
        /\ PlaceOK(c, y)
        /\ y.next <= capacity
        /\ y.done = start[c] + y.next
        /\ Kind(c) = "constant" => OutputBlocked(y)
    BY <1>2, <1>4, ChannelFed, Zenon
  <2>2. chan'[c] = y
    BY <1>2, Zenon
  <2> HIDE DEF y
  <2> QED
    BY <2>1, <2>2, Zenon DEF DecoderOK
<1>6. chan' \in [Channels -> Channel]
  <2>1. chan' = [c \in Channels |-> chan'[c]]
    BY <1>2, Zenon DEF MovedOn
  <2> QED
    BY <1>5, <2>1, Zenon
<1> QED
  BY <1>1, <1>2, <1>3, <1>5, <1>6, ReaderKept, Zenon

\* Only a string decoder stores more than its buffer holds.
LEMMA ReaderOverflows == ReaderOK /\ StringOverflows => ReaderOK'
<1> SUFFICES ASSUME ReaderOK, StringOverflows
             PROVE  ReaderOK'
  BY Zenon
<1> DEFINE i == Earliest
<1>1. /\ SectionOK /\ rebuffered = FALSE /\ result \in 0 .. capacity
      /\ start \in [Channels -> Nat] /\ chan \in [Channels -> Channel]
      /\ \A c \in Channels : /\ DecoderOK(c, chan[c])
                             /\ PlaceOK(c, chan[c])
                             /\ chan[c].next <= capacity
  BY Zenon DEF ReaderOK
<1>2. /\ pc = "read" /\ UNCHANGED section /\ rebuffered' = rebuffered /\ start' = start
      /\ pc' = "idle" /\ result' = result /\ error' = "internal" /\ chan' = chan
      /\ Overflows(Fed(i))
  BY Zenon DEF StringOverflows, InRead
<1> HIDE DEF i
<1>3. PICK c \in Channels : Fed(i)[c].next > capacity
  BY <1>2, Zenon DEF Overflows
<1>4. maxRecords \in Nat /\ capacity \in Nat /\ start[c] \in Nat
  BY <1>1, SectionTypes, Zenon
<1>5. Reading(chan[c], i)
  <2> SUFFICES ASSUME ~Reading(chan[c], i)
               PROVE  FALSE
    BY Zenon
  <2>1. Fed(i)[c] = chan[c]
    BY Zenon DEF Fed
  <2>2. chan[c].next \in Nat /\ chan[c].next <= capacity /\ chan[c].next > capacity
    BY <1>1, <1>3, <2>1, ChannelTypes, Zenon
  <2> QED
    BY <1>4, <2>2
<1> DEFINE x == Fed(i)[c]
<1>6. /\ DecoderOK(c, x)
      /\ x.done = start[c] + x.next
      /\ Kind(c) # "string" => x.next <= capacity
  BY <1>2, <1>5, FedOK, Zenon
<1>7. x.next > capacity
  BY <1>3, Zenon
<1> HIDE DEF x
<1>8. x.next \in Nat /\ x.done \in Nat /\ x.done <= maxRecords
  BY <1>6, ChannelTypes, Zenon DEF DecoderOK
<1>9. Kind(c) = "string" /\ maxRecords > capacity
  BY <1>4, <1>6, <1>7, <1>8
<1> QED
  BY <1>1, <1>2, <1>9, ReaderKept, Zenon

(***************************************************************************)
(* The end of read's loop: the output of every channel is blocked, so all  *)
(* have stored as many records as there are left, or as the buffers hold.  *)
(***************************************************************************)
LEMMA AllStored ==
  ASSUME ReaderOK, pc = "read", Hungry = {}, NEW c \in Channels
  PROVE  /\ chan[c].next = Lesser(capacity, maxRecords - start[c])
         /\ chan[c].done = start[c] + chan[c].next
<1>1. /\ SectionOK /\ start[c] \in Nat /\ chan[c] \in Channel
      /\ DecoderOK(c, chan[c]) /\ PlaceOK(c, chan[c]) /\ chan[c].next <= capacity
      /\ chan[c].done = start[c] + chan[c].next
  BY Zenon DEF ReaderOK
<1>2. OutputBlocked(chan[c])
  BY <1>1, Zenon DEF Hungry, PlaceOK
<1> DEFINE ch == chan[c]
<1>3. /\ ch.done \in Nat /\ ch.next \in Nat /\ maxRecords \in Nat /\ capacity \in Nat
      /\ ch.done <= maxRecords
  BY <1>1, SectionTypes, ChannelTypes, Zenon DEF DecoderOK
<1>4. ch.done >= maxRecords \/ ch.next = capacity
  BY <1>2, Zenon DEF OutputBlocked
<1> HIDE DEF ch
<1>5. ch.next <= capacity /\ ch.done = start[c] + ch.next
  BY <1>1, Zenon DEF ch
<1>6. ch.next = Lesser(capacity, maxRecords - start[c])
  BY <1>1, <1>3, <1>4, <1>5 DEF Lesser
<1> QED
  BY <1>5, <1>6, Zenon DEF ch

\* A read that returns keeps ReaderOK, and every channel has the records it said.
LEMMA ReaderReturns ==
  ReaderOK /\ ReadReturns =>
    /\ ReaderOK'
    /\ error' = "none"
    /\ \A c \in Channels : /\ result' = Lesser(capacity, maxRecords - start[c])
                           /\ chan'[c].done = start[c] + result'
<1> SUFFICES ASSUME ReaderOK, ReadReturns
             PROVE  /\ ReaderOK'
                    /\ error' = "none"
                    /\ \A c \in Channels :
                         /\ result' = Lesser(capacity, maxRecords - start[c])
                         /\ chan'[c].done = start[c] + result'
  BY Zenon
<1>1. /\ SectionOK /\ rebuffered = FALSE
      /\ start \in [Channels -> Nat] /\ chan \in [Channels -> Channel]
      /\ \A c \in Channels : /\ DecoderOK(c, chan[c])
                             /\ PlaceOK(c, chan[c])
                             /\ chan[c].next <= capacity
  BY Zenon DEF ReaderOK
<1>2. /\ pc = "read" /\ Hungry = {} /\ UNCHANGED section /\ rebuffered' = rebuffered
      /\ start' = start /\ pc' = "idle" /\ result' = chan[1].next /\ chan' = chan
      /\ error' = IF \A c \in Channels : chan[c].next = chan[1].next
                  THEN "none" ELSE "internal"
  BY Zenon DEF ReadReturns, InRead
<1>3. 1 \in Channels /\ capacity \in Nat /\ chan[1].next \in Nat
  BY <1>1, SectionTypes, ChannelTypes, Zenon
<1>4. \A c \in Channels : /\ chan[c].next = Lesser(capacity, maxRecords - start[c])
                          /\ chan[c].done = start[c] + chan[c].next
  BY <1>2, AllStored, Zenon
<1>5. \A c \in Channels : start[c] = start[1]
  BY <1>2, <1>3, Zenon DEF ReaderOK
<1>6. \A c \in Channels : chan[c].next = chan[1].next
  BY <1>3, <1>4, <1>5, Zenon
<1>7. error' = "none"
  BY <1>2, <1>6, Zenon
<1>8. \A c \in Channels : /\ result' = Lesser(capacity, maxRecords - start[c])
                          /\ chan'[c].done = start[c] + result'
  BY <1>2, <1>4, <1>6, Zenon
<1>9. \A c, b \in Channels : chan'[c].done = chan'[b].done
  BY <1>5, <1>8, Zenon
<1>10. result' \in 0 .. capacity
  BY <1>1, <1>2, <1>3
<1>11. ReaderOK'
  BY <1>1, <1>2, <1>7, <1>9, <1>10, ReaderKept, Zenon
<1> QED
  BY <1>7, <1>8, <1>11, Zenon

\* The steps that leave the channels alone.
LEMMA ReaderRests == ReaderOK /\ (ReadFails \/ close \/ UNCHANGED vars) => ReaderOK'
<1> SUFFICES ASSUME ReaderOK, ReadFails \/ close \/ UNCHANGED vars
             PROVE  ReaderOK'
  BY Zenon
<1>1. /\ SectionOK /\ rebuffered = FALSE /\ result \in 0 .. capacity
      /\ start \in [Channels -> Nat] /\ chan \in [Channels -> Channel]
      /\ \A c \in Channels : /\ DecoderOK(c, chan[c])
                             /\ PlaceOK(c, chan[c])
                             /\ chan[c].next <= capacity
      /\ pc \in {"idle", "read", "closed"}
      /\ error \in {"none", "io", "value", "internal"}
      /\ error = "internal" =>
           maxRecords > capacity /\ \E c \in Channels : Kind(c) = "string"
  BY Zenon DEF ReaderOK
<1>2. CASE ReadFails
  <2>1. /\ UNCHANGED section /\ rebuffered' = rebuffered /\ start' = start /\ chan' = chan
        /\ result' = result /\ pc' = "idle" /\ error' \in {"io", "value"}
    BY <1>2, Zenon DEF ReadFails, InRead
  <2> QED
    BY <1>1, <2>1, ReaderKept, Zenon
<1>3. CASE close
  <2>1. /\ UNCHANGED section /\ rebuffered' = rebuffered /\ start' = start /\ chan' = chan
        /\ result' = result /\ pc' = "closed" /\ error' = error
    BY <1>3, Zenon DEF close
  <2> QED
    BY <1>1, <2>1, ReaderKept, Zenon
<1>4. CASE UNCHANGED vars
  <2>1. /\ UNCHANGED section /\ rebuffered' = rebuffered /\ start' = start /\ chan' = chan
        /\ result' = result /\ pc' = pc /\ error' = error
    BY <1>4, Zenon DEF vars
  <2>2. /\ pc = "idle" /\ error = "none" =>
             \A c, b \in Channels : chan[c].done = chan[b].done
        /\ pc = "read" =>
             /\ error = "none"
             /\ \A c, b \in Channels : start[c] = start[b]
             /\ \A c \in Channels : /\ chan[c].done = start[c] + chan[c].next
                                    /\ Kind(c) = "constant" => OutputBlocked(chan[c])
    BY Zenon DEF ReaderOK
  <2> QED
    BY <1>1, <2>1, <2>2, ReaderKept, Zenon
<1> QED
  BY <1>2, <1>3, <1>4, Zenon

-----------------------------------------------------------------------------
(* The theorems. *)

\* ReaderOK is an invariant.
LEMMA ReaderAlways == Spec => []ReaderOK
<1>1. Init => ReaderOK
  BY ReaderInit, Zenon
<1>2. ReaderOK /\ [Next]_vars => ReaderOK'
  BY ReaderBegins, ReaderFeeds, ReaderOverflows, ReaderReturns, ReaderRests, Zenon DEF Next, ReadStep
<1> QED
  BY <1>1, <1>2, PTL DEF Spec

(***************************************************************************)
(* However a section is cut into packets, the reader's state stays well    *)
(* formed: no channel points behind the last packet, no buffer gets more   *)
(* records than it holds, and no bit-packed decoder keeps more bytes than  *)
(* inBuffer_ has.                                                          *)
(***************************************************************************)
THEOREM TypeCorrect == Spec => []TypeOK
<1>1. ReaderOK => TypeOK
  <2> SUFFICES ASSUME ReaderOK
               PROVE  TypeOK
    BY Zenon
  <2>1. ASSUME NEW c \in Channels
        PROVE  /\ chan[c].pkt \in 0 .. Len(packets)
               /\ chan[c].done \in 0 .. maxRecords
               /\ chan[c].next \in 0 .. capacity
               /\ chan[c].received - InBufferStart(decoders[c], chan[c].done) <= InBufferSize
                    \/ decoders[c].kind = "string"
    <3> DEFINE ch == chan[c]
    <3>1. /\ SectionOK /\ DecoderOK(c, ch) /\ PlaceOK(c, ch) /\ ch.next <= capacity
          /\ ch \in Channel
      BY Zenon DEF ReaderOK
    <3> HIDE DEF ch
    <3>2. /\ ch.done \in Nat /\ ch.next \in Nat /\ ch.received \in Nat
          /\ maxRecords \in Nat /\ capacity \in Nat
      BY <3>1, SectionTypes, ChannelTypes, Zenon
    <3>3. ch.done \in 0 .. maxRecords /\ ch.next \in 0 .. capacity
      BY <3>1, <3>2 DEF DecoderOK
    <3>4. ASSUME Kind(c) # "string"
          PROVE  ch.received - InBufferStart(decoders[c], ch.done) <= InBufferSize
      <4> DEFINE b == InBufferStart(decoders[c], ch.done)
      <4>1. b \in Nat
        <5>1. CASE Kind(c) = "packed"
          BY <3>1, <3>3, <5>1, BufferStart, Zenon
        <5>2. CASE Kind(c) # "packed"
          <6>1. b = StreamLength(decoders[c], ch.done)
            BY <5>2, Zenon DEF InBufferStart, Kind
          <6> QED
            BY <3>1, <3>3, <6>1, StreamHoldsRecords, Zenon
        <5> QED
          BY <5>1, <5>2, Zenon
      <4>2. ch.received <= b + InBufferSize
        BY <3>1, <3>4, Zenon DEF DecoderOK
      <4> HIDE DEF b
      <4>3. ch.received - b <= InBufferSize
        BY <3>2, <4>1, <4>2, Sizes
      <4> QED
        BY <4>3, Zenon DEF b
    <3> QED
      BY <3>1, <3>3, <3>4, Zenon DEF ch, Kind, PlaceOK
  <2> QED
    BY <2>1, Zenon DEF TypeOK, ReaderOK
<1> QED
  BY <1>1, ReaderAlways, PTL

(***************************************************************************)
(* feedPacketToDecoders gives every decoder the bytes of its bytestream    *)
(* each once and in order, and moves no channel on that has bytes of the   *)
(* packet unread, although one channel that has exhausted the packet makes *)
(* it move others on.                                                      *)
(***************************************************************************)
THEOREM BytesAreFedInOrder == Spec => []FedInOrder
<1>1. ReaderOK => FedInOrder
  BY Zenon DEF ReaderOK, PlaceOK, FedInOrder
<1> QED
  BY <1>1, ReaderAlways, PTL

(***************************************************************************)
(* read throws ErrorInternal only when a string field is read in blocks    *)
(* smaller than the vector: the channels have always stored equally many   *)
(* records when its loop ends.                                             *)
(***************************************************************************)
THEOREM ReadIsConsistent == Spec => []PackedNoInternalError
<1>1. ReaderOK => PackedNoInternalError
  <2> SUFFICES ASSUME ReaderOK, error = "internal",
                      (\A c \in Channels : decoders[c].kind # "string")
                        \/ maxRecords <= capacity
               PROVE  FALSE
    BY Zenon DEF PackedNoInternalError, NoInternalError
  <2>1. maxRecords > capacity /\ \E c \in Channels : Kind(c) = "string"
    BY Zenon DEF ReaderOK
  <2>2. maxRecords \in Nat /\ capacity \in Nat
    BY SectionTypes, Zenon DEF ReaderOK
  <2> QED
    BY <2>1, <2>2 DEF Kind
<1> QED
  BY <1>1, ReaderAlways, PTL

(***************************************************************************)
(* A read that returns has filled every buffer, or stored all records that *)
(* were left, for every channel, in whatever order their packets were fed. *)
(***************************************************************************)
THEOREM ReadsAreFull == Spec => ReadIsFull
<1> DEFINE Full == pc = "read" /\ pc' = "idle" /\ error' = "none" =>
                     \A c \in Channels :
                       /\ result' = Lesser(capacity, maxRecords - start[c])
                       /\ chan'[c].done = start[c] + result'
<1>1. ReaderOK /\ [Next]_vars => [Full]_vars
  <2> SUFFICES ASSUME ReaderOK, Next, pc = "read", pc' = "idle", error' = "none"
               PROVE  \A c \in Channels :
                        /\ result' = Lesser(capacity, maxRecords - start[c])
                        /\ chan'[c].done = start[c] + result'
    BY Zenon DEF vars
  <2>1. ReadReturns
    BY Zenon DEF Next, ReadStep, read, BeginRead, feedPacketToDecoders, StringOverflows, ReadFails,
           close
  <2> QED
    BY <2>1, ReaderReturns, Zenon
<1> QED
  BY <1>1, ReaderAlways, PTL DEF Spec, ReadIsFull
=============================================================================
