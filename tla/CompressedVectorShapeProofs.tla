-------------------- MODULE CompressedVectorShapeProofs ---------------------
(***************************************************************************)
(* Proofs about CompressedVectorWriter, for every prototype, packet size   *)
(* and number of records: what a step of an encoder does with its register *)
(* and output, how much a packet takes of every bytestream, and that every *)
(* step of write and close keeps the shape of the encoders.  The           *)
(* invariants of the next module are defined here, too.                    *)
(***************************************************************************)
EXTENDS CompressedVectorWriter, ArithmeticProofs

(***************************************************************************)
(* The state x of an encoder e, as a record: what it holds fits outBuffer_ *)
(* and register_, and only a string encoder has a string half stored.      *)
(***************************************************************************)
EncoderOK(e, x) ==
  /\ x.index \in Nat
  /\ x.register \in 0 .. e.word * ByteBits - 1
  /\ x.end \in 0 .. PacketMax
  /\ x.first \in 0 .. x.end
  /\ x.end % e.word = 0
  /\ x.rest \in Nat
  /\ x.fetched \in Nat
  /\ IF e.strings # {} THEN x.register = 0 ELSE x.rest = 0 /\ x.fetched = 0

(***************************************************************************)
(* The inductive invariant behind the type invariant.  Between calls that  *)
(* succeed all encoders are at recordCount; the output of a bit-packed     *)
(* encoder leaves room for the word in its register, so that the first     *)
(* flush of close empties all registers.  The lemmas name it Shape, and    *)
(* open it where they need its parts.                                      *)
(***************************************************************************)
WriterShape ==
  /\ encoders \in Prototypes
  /\ pc \in {"idle", "write", "close", "closed"}
  /\ error \in {"none", "io", "value", "internal"}
  /\ recordCount \in 0 .. MaxRecords
  /\ endRecord \in 0 .. MaxRecords
  /\ \A f \in {index, register, first, end, rest, fetched, sent} : f \in [Streams -> Nat]
  /\ \A s \in Streams : EncoderOK(encoders[s], Unchanged(s)) /\ index[s] <= endRecord
  /\ pc = "write" =>
       error = "none" /\ \A s \in Streams : rest[s] > 0 => index[s] < endRecord
  /\ pc # "write" /\ error = "none" =>
       \A s \in Streams : index[s] = recordCount /\ rest[s] = 0
  /\ pc \in {"idle", "write"} => \A s \in Streams : ~IsString(s) => HasRoom(s)
  /\ pc \in {"close", "closed"} => \A s \in Streams : register[s] = 0
  /\ pc = "closed" /\ error = "none" => \A s \in Streams : first[s] = end[s]

Shape == WriterShape

(***************************************************************************)
(* What became of the records of stream s.                                 *)
(***************************************************************************)
WordBits(s) == Word(s) * ByteBits
Produced(s) == sent[s] + outputAvailable[s]

Exact(s) ==
  IF IsString(s) THEN Produced(s) + rest[s] = fetched[s]
  ELSE LET bits == index[s] * Bits(s)
       IN  IF pc \in {"idle", "write"}
           THEN /\ Produced(s) = (bits \div WordBits(s)) * Word(s)
                /\ register[s] = bits % WordBits(s)
           ELSE Produced(s) * ByteBits = RoundUp(bits, WordBits(s))

Bounded(s) ==
  IF IsString(s) THEN Produced(s) + rest[s] <= fetched[s]
  ELSE Produced(s) * ByteBits <= index[s] * Bits(s)
         + IF pc \in {"idle", "write"} THEN 0 ELSE WordBits(s)

Accounted ==
  \A s \in Streams : (error = "none" => Exact(s)) /\ Bounded(s)

\* write may be called, or is running: the registers are in use.
Packing == pc \in {"idle", "write"}

\* Room that the flush of close may still need in the packets.
Pending == [s \in Streams |-> IF pc \in {"idle", "write"} THEN Word(s) ELSE 0]

NarrowRoom ==
  Narrow =>
    /\ Overhead + Total([s \in Streams |-> outputAvailable[s] + Pending[s]]) <= PacketMax - 4
    /\ error # "internal"

-----------------------------------------------------------------------------
(* The constants. *)

\* Sizes are positive, and a packet is a whole number of 4-byte units.
LEMMA Sizes ==
  /\ ByteBits \in Nat \ {0}
  /\ PacketMax \in Nat \ {0}
  /\ HeaderSize \in Nat \ {0}
  /\ LengthSize \in Nat \ {0}
  /\ LongPrefix \in Nat \ {0}
  /\ Batch \in Nat \ {0}
  /\ PacketMax % 4 = 0
BY SizeAssumption, Zenon

\* What the constructors of the encoders see to.
LEMMA EncoderTypes ==
  ASSUME NEW p \in Prototypes, NEW s \in DOMAIN p
  PROVE  /\ p[s].bits \in Nat
         /\ p[s].word \in Nat \ {0}
         /\ p[s].strings \subseteq Nat
         /\ p[s].word * ByteBits \in Nat \ {0}
         /\ p[s].bits <= p[s].word * ByteBits
         /\ p[s].strings # {} => p[s].word = 1
         /\ p[s].strings = {} =>
              (PacketMax * 3) \div 4 + Growth(p[s]) <= PacketMax - p[s].word
<1>1. p \in Seq(Encoder)
  BY PrototypeAssumption, Zenon
<1>2. p[s] \in Encoder
  BY <1>1
<1>3. p[s].bits \in Nat /\ p[s].word \in Nat \ {0} /\ p[s].strings \subseteq Nat
  BY <1>2, Zenon DEF Encoder
<1>4. p[s].word * ByteBits \in Nat \ {0}
  <2>1. \A a, b \in Nat \ {0} : a * b \in Nat \ {0}
    OBVIOUS
  <2> QED
    BY <1>3, <2>1, Sizes, Zenon
<1>5. p[s].bits <= p[s].word * ByteBits
  BY PrototypeAssumption, Zenon
<1>6. /\ p[s].strings # {} => p[s].word = 1
      /\ p[s].strings = {} =>
           (PacketMax * 3) \div 4 + Growth(p[s]) <= PacketMax - p[s].word
  BY PrototypeAssumption, Zenon
<1> QED
  BY <1>3, <1>4, <1>5, <1>6, Zenon

\* The streams are numbered; their headers fit below the target size.
LEMMA StreamCount ==
  ASSUME NEW p \in Prototypes
  PROVE  /\ Len(p) \in Nat
         /\ DOMAIN p = 1 .. Len(p)
         /\ HeaderSize + Len(p) * LengthSize < Target
         /\ Target \in Nat
         /\ Target < PacketMax
<1>1. p \in Seq(Encoder) /\ HeaderSize + Len(p) * LengthSize < (PacketMax * 3) \div 4
  BY PrototypeAssumption, Zenon
<1>2. Target \in Nat /\ Target < PacketMax
  BY Sizes DEF Target
<1> QED
  BY <1>1, <1>2 DEF Target

\* An iteration adds at least the word that the flush of close may add.
LEMMA GrowthBounds ==
  ASSUME NEW p \in Prototypes, NEW s \in DOMAIN p
  PROVE  /\ Growth(p[s]) \in Nat
         /\ p[s].word <= Growth(p[s])
         /\ \A filled \in Nat :
              filled <= p[s].word * ByteBits - 1 + Batch * p[s].bits =>
                /\ (filled \div (p[s].word * ByteBits)) * p[s].word \in Nat
                /\ (filled \div (p[s].word * ByteBits)) * p[s].word + p[s].word
                     <= Growth(p[s])
<1> DEFINE word == p[s].word
           wb == p[s].word * ByteBits
           most == wb - 1 + Batch * p[s].bits
           q == most \div wb
<1>1. word \in Nat \ {0} /\ wb \in Nat \ {0} /\ p[s].bits \in Nat
  BY EncoderTypes, Zenon
<1>2. most \in Nat
  <2>1. Batch * p[s].bits \in Nat
    BY <1>1, Sizes
  <2> QED
    BY <2>1, <1>1
<1>3. q \in Nat
  BY <1>1, <1>2, DivMod, Zenon
<1>4. Growth(p[s]) = (q + 1) * word
  BY Zenon DEF Growth
<1> HIDE DEF word, wb, most, q
<1>5. (q + 1) * word = q * word + word /\ q * word \in Nat
  BY <1>1, <1>3
<1>6. ASSUME NEW filled \in Nat, filled <= most
      PROVE  /\ (filled \div wb) * word \in Nat
             /\ (filled \div wb) * word <= q * word
  <2>1. filled \div wb \in Nat
    BY <1>1, DivMod, Zenon
  <2>2. filled \div wb <= q
    BY <1>1, <1>2, <1>6, DivMonotonic, Zenon DEF q
  <2> QED
    BY <2>1, <2>2, <1>1, <1>3, TimesMonotonic, TimesNat, Zenon
<1>7. Growth(p[s]) \in Nat /\ word <= Growth(p[s])
  BY <1>1, <1>4, <1>5
<1>8. \A filled \in Nat : filled <= most =>
        /\ (filled \div wb) * word \in Nat
        /\ (filled \div wb) * word + word <= Growth(p[s])
  BY <1>1, <1>4, <1>5, <1>6
<1> QED
  BY <1>7, <1>8, Zenon DEF word, wb, most

-----------------------------------------------------------------------------
(* Encoders. *)

\* The type of the state of one encoder, from the invariant.
LEMMA StreamShape ==
  ASSUME Shape, NEW s \in Streams
  PROVE  /\ encoders \in Prototypes
         /\ Bits(s) \in Nat
         /\ Word(s) \in Nat \ {0}
         /\ WordBits(s) \in Nat \ {0}
         /\ Bits(s) <= WordBits(s)
         /\ IsString(s) => Word(s) = 1 /\ register[s] = 0
         /\ ~IsString(s) => rest[s] = 0 /\ fetched[s] = 0
         /\ index[s] \in 0 .. endRecord
         /\ register[s] \in 0 .. WordBits(s) - 1
         /\ end[s] \in 0 .. PacketMax
         /\ first[s] \in 0 .. end[s]
         /\ end[s] % Word(s) = 0
         /\ rest[s] \in Nat
         /\ fetched[s] \in Nat
         /\ sent[s] \in Nat
         /\ outputAvailable[s] = end[s] - first[s]
         /\ outputAvailable[s] \in 0 .. end[s]
         /\ endRecord \in Nat
<1> WriterShape
  BY Zenon DEF Shape
<1>1. encoders \in Prototypes /\ s \in DOMAIN encoders /\ endRecord \in Nat
  BY RequestAssumption DEF WriterShape, Streams
<1>2. /\ Bits(s) \in Nat
      /\ Word(s) \in Nat \ {0}
      /\ WordBits(s) \in Nat \ {0}
      /\ Bits(s) <= WordBits(s)
      /\ IsString(s) => Word(s) = 1
  BY <1>1, EncoderTypes, Zenon DEF Bits, Word, WordBits, IsString
<1>3. EncoderOK(encoders[s], Unchanged(s)) /\ index[s] <= endRecord
  BY Zenon DEF WriterShape
<1>4. /\ index[s] \in Nat
      /\ register[s] \in 0 .. WordBits(s) - 1
      /\ end[s] \in 0 .. PacketMax
      /\ first[s] \in 0 .. end[s]
      /\ end[s] % Word(s) = 0
      /\ rest[s] \in Nat
      /\ fetched[s] \in Nat
      /\ IsString(s) => register[s] = 0
      /\ ~IsString(s) => rest[s] = 0 /\ fetched[s] = 0
  BY <1>3, Zenon DEF EncoderOK, Unchanged, WordBits, Word, IsString
<1>5. sent[s] \in Nat
  BY Zenon DEF WriterShape
<1>6. outputAvailable[s] = end[s] - first[s]
  BY Zenon DEF outputAvailable
<1>7. outputAvailable[s] \in 0 .. end[s]
  BY <1>4, <1>6, Sizes
<1> QED
  BY <1>1, <1>2, <1>3, <1>4, <1>5, <1>6, <1>7

(***************************************************************************)
(* outBufferShiftDown keeps the output, and ends it aligned and no later   *)
(* than before.                                                            *)
(***************************************************************************)
LEMMA ShiftedOutput ==
  ASSUME Shape, NEW s \in Streams
  PROVE  /\ ShiftedEnd(s) \in Nat
         /\ ShiftedEnd(s) <= end[s]
         /\ ShiftedEnd(s) % Word(s) = 0
         /\ ShiftedEnd(s) <= outputAvailable[s] + (Word(s) - 1)
         /\ ShiftedFirst(s) \in 0 .. ShiftedEnd(s)
         /\ ShiftedEnd(s) - ShiftedFirst(s) = outputAvailable[s]
<1>1. /\ Word(s) \in Nat \ {0}
      /\ end[s] \in Nat
      /\ end[s] % Word(s) = 0
      /\ outputAvailable[s] \in 0 .. end[s]
  BY StreamShape, Sizes
<1>2. outputAvailable[s] \in Nat /\ outputAvailable[s] <= end[s]
  BY <1>1
<1>3. /\ ShiftedEnd(s) \in Nat
      /\ ShiftedEnd(s) % Word(s) = 0
      /\ outputAvailable[s] <= ShiftedEnd(s)
      /\ ShiftedEnd(s) <= outputAvailable[s] + (Word(s) - 1)
  BY <1>1, <1>2, RoundUpBounds, Zenon DEF ShiftedEnd
<1>4. ShiftedEnd(s) <= end[s]
  BY <1>1, <1>2, RoundUpLeast, Zenon DEF ShiftedEnd
<1>5. ShiftedFirst(s) = ShiftedEnd(s) - outputAvailable[s]
  BY Zenon DEF ShiftedFirst
<1> HIDE DEF outputAvailable
<1> QED
  BY <1>2, <1>3, <1>4, <1>5

(***************************************************************************)
(* What BitpackIntegerEncoder and BitpackFloatEncoder do with n records:   *)
(* how many they take, the bits these and the register make, and the words *)
(* that go to the output.                                                  *)
(***************************************************************************)
Count(s, n) == Lesser(n, MaxOutputRecords(s))
Filled(s, n) == register[s] + Count(s, n) * Bits(s)
Words(s, n) == Filled(s, n) \div WordBits(s)

\* maxOutputRecords is such that the words fit in outBuffer_.
LEMMA PackBitsFits ==
  ASSUME Shape, NEW s \in Streams, ~IsString(s), Bits(s) # 0, NEW n \in Nat
  PROVE  /\ Count(s, n) \in 0 .. n
         /\ Filled(s, n) \in Nat
         /\ Words(s, n) \in Nat
         /\ Words(s, n) * Word(s) \in Nat
         /\ ShiftedEnd(s) + Words(s, n) * Word(s) <= PacketMax
<1> DEFINE W == Word(s)
           wb == WordBits(s)
           r == register[s]
           b == Bits(s)
           free == PacketMax - ShiftedEnd(s)
           capacity == free \div W
           room == capacity * wb + ((wb - r) - 1)
           most == room \div b
           c == Count(s, n)
<1>1. W \in Nat \ {0} /\ wb \in Nat \ {0} /\ r \in 0 .. wb - 1 /\ b \in Nat \ {0}
  BY StreamShape, Zenon
<1>2. free \in Nat
  <2>1. ShiftedEnd(s) \in Nat /\ ShiftedEnd(s) <= end[s]
    BY ShiftedOutput, Zenon
  <2>2. end[s] \in 0 .. PacketMax
    BY StreamShape, Zenon
  <2> QED
    BY <2>1, <2>2, Sizes
<1>3. capacity \in Nat /\ capacity * W <= free /\ capacity * W \in Nat
  <2>1. capacity \in Nat /\ free % W \in 0 .. W - 1 /\ free = capacity * W + (free % W)
    BY <1>1, <1>2, DivMod, Zenon
  <2>2. capacity * W \in Nat
    BY <1>1, <2>1, TimesNat, Zenon
  <2> QED
    BY <2>1, <2>2
<1>4. capacity * wb \in Nat
  BY <1>1, <1>3, TimesNat, Zenon
<1>5. room \in Nat /\ room + r = capacity * wb + (wb - 1)
  BY <1>1, <1>4
<1>6. most \in Nat /\ most * b <= room /\ most * b \in Nat
  <2>1. most \in Nat /\ room % b \in 0 .. b - 1 /\ room = most * b + (room % b)
    BY <1>1, <1>5, DivMod, Zenon
  <2>2. most * b \in Nat
    BY <1>1, <2>1, TimesNat, Zenon
  <2> QED
    BY <2>1, <2>2, <1>5
<1>7. MaxOutputRecords(s) = most
  <2>1. room = capacity * (Word(s) * ByteBits) + Word(s) * ByteBits - register[s] - 1
    BY <1>1, <1>4, Zenon DEF WordBits
  <2> QED
    BY <2>1, Zenon DEF MaxOutputRecords
<1> HIDE DEF most
<1>8. c \in 0 .. n /\ c <= most
  BY <1>6, <1>7, LesserBounds DEF Count
<1> HIDE DEF c
<1>9. c * b <= most * b /\ c * b \in Nat
  BY <1>1, <1>6, <1>8, TimesMonotonic, TimesNat
<1>10. Filled(s, n) = r + c * b
  BY Zenon DEF Filled, c
<1> HIDE DEF room
<1>11. Filled(s, n) \in Nat /\ Filled(s, n) <= capacity * wb + (wb - 1)
  BY <1>1, <1>4, <1>5, <1>6, <1>9, <1>10
<1>12. Words(s, n) \in Nat /\ Words(s, n) <= capacity
  <2>1. (capacity * wb + (wb - 1)) \div wb = capacity
    <3>1. wb - 1 \in 0 .. wb - 1
      BY <1>1
    <3> QED
      BY <1>1, <1>3, <3>1, DivUnique, Zenon
  <2>2. capacity * wb + (wb - 1) \in Nat
    BY <1>1, <1>4
  <2>3. Filled(s, n) \div wb <= (capacity * wb + (wb - 1)) \div wb
    BY <1>1, <1>11, <2>2, DivMonotonic, Zenon
  <2> QED
    BY <1>1, <1>11, <2>1, <2>3, DivMod, Zenon DEF Words
<1> HIDE DEF capacity
<1>13. Words(s, n) * W <= capacity * W /\ Words(s, n) * W \in Nat
  BY <1>1, <1>3, <1>12, TimesMonotonic, TimesNat, Zenon
<1>14. ShiftedEnd(s) + Words(s, n) * W <= PacketMax
  BY <1>2, <1>3, <1>13, ShiftedOutput, Sizes
<1> QED
  BY <1>8, <1>11, <1>12, <1>13, <1>14, Zenon DEF c

\* The state of the encoder afterwards, field by field.
LEMMA PackBitsFields ==
  ASSUME NEW s, NEW n
  PROVE  /\ PackBits(s, n).index = index[s] + Count(s, n)
         /\ PackBits(s, n).register = Filled(s, n) % WordBits(s)
         /\ PackBits(s, n).first = ShiftedFirst(s)
         /\ PackBits(s, n).end = ShiftedEnd(s) + Words(s, n) * Word(s)
         /\ PackBits(s, n).rest = rest[s]
         /\ PackBits(s, n).fetched = fetched[s]
BY Zenon DEF PackBits, Unchanged, Count, Filled, Words, WordBits

\* processRecords of a bit-packed encoder leaves it well formed.
LEMMA PackBitsOK ==
  ASSUME Shape, NEW s \in Streams, ~IsString(s), Bits(s) # 0, NEW n \in Nat
  PROVE  EncoderOK(encoders[s], PackBits(s, n))
<1> DEFINE x == PackBits(s, n)
<1>1. x.index \in Nat
  <2>1. index[s] \in Nat /\ Count(s, n) \in Nat
    BY PackBitsFits, StreamShape
  <2> QED
    BY <2>1, PackBitsFields
<1>2. x.register \in 0 .. encoders[s].word * ByteBits - 1
  <2>1. Filled(s, n) \in Nat /\ WordBits(s) \in Nat \ {0}
    BY PackBitsFits, StreamShape, Zenon
  <2>2. Filled(s, n) % WordBits(s) \in 0 .. WordBits(s) - 1
    BY <2>1, DivMod, Zenon
  <2> QED
    BY <2>2, PackBitsFields, Zenon DEF WordBits, Word
<1>3. x.end \in 0 .. PacketMax /\ x.first \in 0 .. x.end
  <2>1. x.end = ShiftedEnd(s) + Words(s, n) * Word(s) /\ x.first = ShiftedFirst(s)
    BY PackBitsFields, Zenon
  <2>2. /\ ShiftedEnd(s) \in Nat
        /\ ShiftedFirst(s) \in 0 .. ShiftedEnd(s)
        /\ Words(s, n) * Word(s) \in Nat
        /\ ShiftedEnd(s) + Words(s, n) * Word(s) <= PacketMax
    BY PackBitsFits, ShiftedOutput, Zenon
  <2> HIDE DEF x
  <2> QED
    BY <2>1, <2>2, Sizes
<1>4. x.end % encoders[s].word = 0
  <2>1. /\ ShiftedEnd(s) \in Nat
        /\ Words(s, n) \in Nat
        /\ Word(s) \in Nat \ {0}
        /\ ShiftedEnd(s) % Word(s) = 0
    BY PackBitsFits, ShiftedOutput, StreamShape, Zenon
  <2>2. (ShiftedEnd(s) + Words(s, n) * Word(s)) % Word(s) = 0
    BY <2>1, AddMultiple, Zenon
  <2> QED
    BY <2>2, PackBitsFields, Zenon DEF Word
<1>5. x.rest = 0 /\ x.fetched = 0 /\ encoders[s].strings = {}
  BY PackBitsFields, StreamShape DEF IsString
<1> HIDE DEF x
<1>6. EncoderOK(encoders[s], x)
  BY <1>1, <1>2, <1>3, <1>4, <1>5 DEF EncoderOK
<1> QED
  BY <1>6, Zenon DEF x

(***************************************************************************)
(* StringEncoder: every byte of the string is stored, or stays to be       *)
(* stored, and the string counts as a record when none stays.              *)
(***************************************************************************)
LEMMA PackStringOK ==
  ASSUME Shape, NEW s \in Streams, IsString(s), NEW length \in Nat
  PROVE  LET x == PackString(s, length)
         IN  /\ EncoderOK(encoders[s], x)
             /\ x.index \in {index[s], index[s] + 1}
             /\ x.rest > 0 => x.index = index[s]
             /\ (x.end - x.first) + x.rest + fetched[s]
                  = outputAvailable[s] + rest[s] + x.fetched
<1> DEFINE x == PackString(s, length)
           free == PacketMax - ShiftedEnd(s)
           todo == IF rest[s] > 0 THEN rest[s] ELSE length
           stored == Lesser(todo, free)
<1>1. /\ Word(s) = 1 /\ encoders[s].word = 1 /\ encoders[s].strings # {}
      /\ register[s] = 0 /\ register[s] \in 0 .. encoders[s].word * ByteBits - 1
      /\ index[s] \in Nat /\ rest[s] \in Nat /\ fetched[s] \in Nat
      /\ outputAvailable[s] \in Nat
  BY StreamShape DEF IsString, Word, WordBits
<1>2. /\ ShiftedEnd(s) \in Nat
      /\ ShiftedFirst(s) \in 0 .. ShiftedEnd(s)
      /\ ShiftedEnd(s) - ShiftedFirst(s) = outputAvailable[s]
  BY ShiftedOutput, Zenon
<1>3. free \in Nat
  <2>1. ShiftedEnd(s) <= end[s] /\ end[s] \in 0 .. PacketMax
    BY ShiftedOutput, StreamShape, Zenon
  <2> QED
    BY <2>1, <1>2, Sizes
<1>4. todo \in Nat /\ stored \in 0 .. todo /\ stored <= free
  <2>1. todo \in Nat
    BY <1>1, Zenon
  <2> QED
    BY <2>1, <1>3, LesserBounds
<1>5. \A e \in Nat : e % 1 = 0
  OBVIOUS
<1>6. CASE free < LongPrefix
  <2>1. /\ x.index = index[s] /\ x.register = register[s]
        /\ x.first = ShiftedFirst(s) /\ x.end = ShiftedEnd(s)
        /\ x.rest = rest[s] /\ x.fetched = fetched[s]
    BY <1>6, Zenon DEF PackString, Unchanged
  <2> HIDE DEF x
  <2>2. x.end \in 0 .. PacketMax /\ x.first \in 0 .. x.end /\ x.end % 1 = 0
    BY <1>2, <1>3, <1>5, <2>1, Sizes
  <2>3. EncoderOK(encoders[s], x)
    BY <1>1, <2>1, <2>2, Zenon DEF EncoderOK
  <2>4. (x.end - x.first) + x.rest + fetched[s] = outputAvailable[s] + rest[s] + x.fetched
    BY <1>1, <1>2, <2>1, Zenon
  <2> QED
    BY <2>1, <2>3, <2>4, Zenon DEF x
<1>7. CASE ~(free < LongPrefix)
  <2>1. /\ x.index = IF stored = todo THEN index[s] + 1 ELSE index[s]
        /\ x.register = register[s]
        /\ x.first = ShiftedFirst(s) /\ x.end = ShiftedEnd(s) + stored
        /\ x.rest = todo - stored
        /\ x.fetched = IF rest[s] > 0 THEN fetched[s] ELSE fetched[s] + length
    BY <1>7, Zenon DEF PackString, Unchanged
  <2> HIDE DEF x, stored
  <2>2. x.end \in 0 .. PacketMax /\ x.first \in 0 .. x.end /\ x.end % 1 = 0
    <3>1. x.end \in Nat /\ x.end <= PacketMax
      BY <1>2, <1>3, <1>4, <2>1, Sizes
    <3> QED
      BY <1>2, <1>4, <1>5, <2>1, <3>1
  <2>3. x.rest \in Nat /\ x.fetched \in Nat /\ x.index \in Nat
    BY <1>1, <1>4, <2>1
  <2>4. EncoderOK(encoders[s], x)
    BY <1>1, <2>1, <2>2, <2>3, Zenon DEF EncoderOK
  <2>5. (x.end - x.first) + x.rest + fetched[s] = outputAvailable[s] + rest[s] + x.fetched
    BY <1>1, <1>2, <1>4, <2>1
  <2>6. x.index \in {index[s], index[s] + 1} /\ (x.rest > 0 => x.index = index[s])
    BY <1>1, <1>4, <2>1
  <2> QED
    BY <2>4, <2>5, <2>6, Zenon DEF x
<1> QED
  BY <1>6, <1>7, Zenon

\* processRecords of an encoder that still has n records to go.
LEMMA ProcessedOK ==
  ASSUME Shape, NEW s \in Streams, NEW n \in Nat \ {0}, NEW length \in Nat
  PROVE  LET x == Processed(s, n, length)
         IN  /\ EncoderOK(encoders[s], x)
             /\ x.index \in index[s] .. index[s] + n
             /\ x.rest > 0 => x.index = index[s]
             /\ ~IsString(s) => x.end <= end[s] \/ (Bits(s) # 0 /\ x = PackBits(s, n))
<1> WriterShape
  BY Zenon DEF Shape
<1>1. index[s] \in Nat
  BY StreamShape
<1>2. CASE IsString(s)
  <2>1. Processed(s, n, length) = PackString(s, length)
    BY <1>2, Zenon DEF Processed
  <2>2. EncoderOK(encoders[s], PackString(s, length))
    BY <1>2, PackStringOK, Zenon
  <2>3. /\ PackString(s, length).index \in {index[s], index[s] + 1}
        /\ PackString(s, length).rest > 0 => PackString(s, length).index = index[s]
    BY <1>2, PackStringOK, Zenon
  <2>4. {index[s], index[s] + 1} \subseteq index[s] .. index[s] + n
    BY <1>1
  <2> QED
    BY <1>2, <2>1, <2>2, <2>3, <2>4, Zenon
<1>3. CASE ~IsString(s) /\ Bits(s) = 0
  <2> DEFINE x == Processed(s, n, length)
  <2>1. /\ x.index = index[s] + n /\ x.register = register[s]
        /\ x.first = first[s] /\ x.end = end[s]
        /\ x.rest = rest[s] /\ x.fetched = fetched[s]
    BY <1>3, Zenon DEF Processed, Unchanged
  <2>2. EncoderOK(encoders[s], Unchanged(s))
    BY Zenon DEF WriterShape
  <2>3. /\ Unchanged(s).index = index[s] /\ Unchanged(s).register = register[s]
        /\ Unchanged(s).first = first[s] /\ Unchanged(s).end = end[s]
        /\ Unchanged(s).rest = rest[s] /\ Unchanged(s).fetched = fetched[s]
    BY Zenon DEF Unchanged
  <2> HIDE DEF x
  <2>4. x.index \in Nat /\ x.index \in index[s] .. index[s] + n
    BY <1>1, <2>1
  <2>5. EncoderOK(encoders[s], x)
    BY <2>1, <2>2, <2>3, <2>4, Zenon DEF EncoderOK
  <2>6. x.rest = 0 /\ x.end <= end[s]
    BY <1>3, <2>1, StreamShape
  <2> QED
    BY <2>4, <2>5, <2>6 DEF x
<1>4. CASE ~IsString(s) /\ Bits(s) # 0
  <2> DEFINE x == Processed(s, n, length)
  <2>1. x = PackBits(s, n)
    BY <1>4, Zenon DEF Processed
  <2>2. EncoderOK(encoders[s], PackBits(s, n))
    BY <1>4, PackBitsOK, Zenon
  <2>3. Count(s, n) \in 0 .. n
    BY <1>4, PackBitsFits, Zenon
  <2>4. PackBits(s, n).index = index[s] + Count(s, n) /\ PackBits(s, n).rest = rest[s]
    BY PackBitsFields, Zenon
  <2>5. rest[s] = 0
    BY <1>4, StreamShape, Zenon
  <2> HIDE DEF x
  <2>6. x.index \in index[s] .. index[s] + n
    BY <1>1, <2>1, <2>3, <2>4
  <2> QED
    BY <1>4, <2>1, <2>2, <2>4, <2>5, <2>6 DEF x
<1> QED
  BY <1>2, <1>3, <1>4, Zenon

\* One iteration adds less than there is above the target size, so that the
\* output of a bit-packed encoder never comes close to the end of outBuffer_.
LEMMA PackBitsGrowth ==
  ASSUME Shape, NEW s \in Streams, ~IsString(s), Bits(s) # 0,
         NEW n \in Nat, n <= Batch
  PROVE  Words(s, n) * Word(s) + Word(s) <= Growth(encoders[s])
<1>1. /\ encoders \in Prototypes /\ s \in DOMAIN encoders
      /\ Bits(s) \in Nat /\ register[s] \in 0 .. WordBits(s) - 1 /\ WordBits(s) \in Nat
  BY StreamShape, Zenon DEF Streams
<1>2. Count(s, n) \in Nat /\ Count(s, n) <= Batch /\ Filled(s, n) \in Nat
  <2>1. Count(s, n) \in 0 .. n /\ Filled(s, n) \in Nat
    BY PackBitsFits, Zenon
  <2> QED
    BY <2>1, Sizes
<1>3. /\ Count(s, n) * Bits(s) <= Batch * Bits(s)
      /\ Count(s, n) * Bits(s) \in Nat /\ Batch * Bits(s) \in Nat
  BY <1>1, <1>2, Sizes, TimesMonotonic, TimesNat, Zenon
<1>4. Filled(s, n) <= WordBits(s) - 1 + Batch * Bits(s)
  <2>1. Filled(s, n) = register[s] + Count(s, n) * Bits(s)
    BY Zenon DEF Filled
  <2> QED
    BY <1>1, <1>3, <2>1
<1>5. (Filled(s, n) \div WordBits(s)) * Word(s) + Word(s) <= Growth(encoders[s])
  BY <1>1, <1>2, <1>4, GrowthBounds, Zenon DEF WordBits, Word, Bits
<1> QED
  BY <1>5, Zenon DEF Words

\* Below the target size, an iteration leaves room for the flush of the register.
LEMMA PackBitsLeavesRoom ==
  ASSUME Shape, NEW s \in Streams, ~IsString(s), Bits(s) # 0,
         NEW n \in Nat, n <= Batch, outputAvailable[s] < Target
  PROVE  PackBits(s, n).end < PacketMax - Word(s)
<1>1. /\ encoders \in Prototypes /\ s \in DOMAIN encoders /\ encoders[s].strings = {}
      /\ Word(s) \in Nat \ {0} /\ outputAvailable[s] \in Nat
  BY StreamShape, Sizes DEF Streams, IsString
<1>2. Target + Growth(encoders[s]) <= PacketMax - Word(s)
  BY <1>1, EncoderTypes, Zenon DEF Target, Word
<1>3. Growth(encoders[s]) \in Nat /\ Target \in Nat
  BY <1>1, GrowthBounds, StreamCount, Zenon
<1>4. Words(s, n) * Word(s) + Word(s) <= Growth(encoders[s]) /\ Words(s, n) * Word(s) \in Nat
  BY PackBitsGrowth, PackBitsFits, Zenon
<1>5. ShiftedEnd(s) \in Nat /\ ShiftedEnd(s) <= outputAvailable[s] + (Word(s) - 1)
  BY ShiftedOutput, Zenon
<1>6. PackBits(s, n).end = ShiftedEnd(s) + Words(s, n) * Word(s)
  BY PackBitsFields, Zenon
<1> QED
  BY <1>1, <1>2, <1>3, <1>4, <1>5, <1>6, Sizes

\* The records an iteration asks of an encoder that is not at the end.
LEMMA AskedBounds ==
  ASSUME Shape, NEW s \in Streams, index[s] < endRecord
  PROVE  Asked(s) \in Nat \ {0} /\ Asked(s) <= Batch /\ index[s] + Asked(s) <= endRecord
<1>1. index[s] \in Nat /\ endRecord \in Nat
  BY StreamShape
<1>2. endRecord - index[s] \in Nat \ {0}
  BY <1>1
<1> QED
  BY <1>1, <1>2, Sizes DEF Asked, Lesser

(***************************************************************************)
(* What an iteration of write makes of an encoder keeps the invariant.     *)
(***************************************************************************)
LEMMA IteratedOK ==
  ASSUME Shape, pc = "write", NEW s \in Streams, NEW length \in Nat,
         outputAvailable[s] < Target
  PROVE  LET x == Iterated(s, length)
         IN  /\ EncoderOK(encoders[s], x)
             /\ x.index \in index[s] .. endRecord
             /\ x.rest > 0 => x.index < endRecord
             /\ ~IsString(s) => x.end < PacketMax - Word(s)
<1> WriterShape
  BY Zenon DEF Shape
<1> DEFINE x == Iterated(s, length)
<1>1. index[s] \in 0 .. endRecord /\ endRecord \in Nat /\ end[s] \in Nat
  BY StreamShape, Sizes
<1>2. ~IsString(s) => end[s] < PacketMax - Word(s)
  BY Zenon DEF WriterShape, HasRoom
<1>3. CASE ~(index[s] < endRecord)
  <2>1. x = Unchanged(s)
    BY <1>3, Zenon DEF Iterated
  <2>2. EncoderOK(encoders[s], Unchanged(s)) /\ (rest[s] > 0 => index[s] < endRecord)
    BY Zenon DEF WriterShape
  <2>3. Unchanged(s).index = index[s] /\ Unchanged(s).rest = rest[s] /\ Unchanged(s).end = end[s]
    BY Zenon DEF Unchanged
  <2>4. index[s] \in index[s] .. endRecord
    BY <1>1
  <2> QED
    BY <1>2, <2>1, <2>2, <2>3, <2>4, Zenon
<1>4. CASE index[s] < endRecord
  <2> DEFINE n == Asked(s)
  <2>1. x = Processed(s, n, length)
    BY <1>4, Zenon DEF Iterated
  <2>2. n \in Nat \ {0} /\ n <= Batch /\ index[s] + n <= endRecord
    BY <1>4, AskedBounds, Zenon
  <2> HIDE DEF n, x
  <2>3. /\ EncoderOK(encoders[s], x)
        /\ x.index \in index[s] .. index[s] + n
        /\ x.rest > 0 => x.index = index[s]
        /\ ~IsString(s) => x.end <= end[s] \/ (Bits(s) # 0 /\ x = PackBits(s, n))
    BY <2>1, <2>2, ProcessedOK, Zenon
  <2>4. x.index \in index[s] .. endRecord /\ (x.rest > 0 => x.index < endRecord)
    BY <1>1, <1>4, <2>2, <2>3
  <2>5. ASSUME ~IsString(s) PROVE x.end < PacketMax - Word(s)
    <3>1. CASE x.end <= end[s]
      <4>1. x.end \in Nat /\ Word(s) \in Nat
        BY <2>3, StreamShape DEF EncoderOK
      <4> QED
        BY <1>1, <1>2, <2>5, <3>1, <4>1, Sizes
    <3>2. CASE Bits(s) # 0 /\ x = PackBits(s, n)
      BY <2>2, <2>5, <3>2, PackBitsLeavesRoom, Zenon
    <3> QED
      BY <2>3, <2>5, <3>1, <3>2, Zenon
  <2> QED
    BY <2>3, <2>4, <2>5, Zenon DEF x
<1> QED
  BY <1>3, <1>4, Zenon

\* Of strings only the first of an iteration is refused (getNextString).
LEMMA RefusedString ==
  ASSUME Shape, NEW s \in Streams, NEW j \in 0 .. Tried(s) - 1
  PROVE  j \in Nat /\ (IsString(s) => j = 0)
<1> SUFFICES ASSUME IsString(s)
             PROVE  j = 0
  OBVIOUS
<1>1. encoders \in Prototypes /\ s \in DOMAIN encoders
  BY StreamShape, Zenon DEF Streams
<1>2. Batch = 1
  BY <1>1, PrototypeAssumption, Zenon DEF IsString
<1>3. Tried(s) \in {0, Asked(s)}
  BY Zenon DEF Tried
<1>4. endRecord - index[s] \in Nat
  BY StreamShape
<1>5. Asked(s) \in Nat /\ Asked(s) <= 1
  BY <1>2, <1>4, LesserBounds DEF Asked
<1> QED
  BY <1>3, <1>5

\* An encoder that refuses a value has only shifted its output, and has in its
\* register part of what it was given.
LEMMA RefusedOK ==
  ASSUME Shape, NEW s \in Streams, NEW j \in Nat, IsString(s) => j = 0
  PROVE  LET x == Refused(s, j)
         IN  /\ EncoderOK(encoders[s], x)
             /\ x.index = index[s]
             /\ x.rest = rest[s]
             /\ x.end <= end[s]
             /\ x.end - x.first = outputAvailable[s]
             /\ x.end \in Nat
<1> DEFINE x == Refused(s, j)
<1>1. /\ x.index = index[s] /\ x.rest = rest[s] /\ x.fetched = fetched[s]
      /\ x.first = ShiftedFirst(s) /\ x.end = ShiftedEnd(s)
      /\ x.register = (register[s] + j * Bits(s)) % WordBits(s)
  BY Zenon DEF Refused, Unchanged, WordBits
<1> HIDE DEF x
<1>2. /\ ShiftedEnd(s) \in Nat /\ ShiftedEnd(s) <= end[s]
      /\ ShiftedEnd(s) % Word(s) = 0
      /\ ShiftedFirst(s) \in 0 .. ShiftedEnd(s)
      /\ ShiftedEnd(s) - ShiftedFirst(s) = outputAvailable[s]
  BY ShiftedOutput, Zenon
<1>3. /\ index[s] \in Nat /\ register[s] \in Nat /\ end[s] \in 0 .. PacketMax
      /\ rest[s] \in Nat /\ fetched[s] \in Nat
      /\ Bits(s) \in Nat /\ WordBits(s) \in Nat \ {0}
      /\ IF IsString(s) THEN register[s] = 0 ELSE rest[s] = 0 /\ fetched[s] = 0
  BY StreamShape
<1>7. IsString(s) => x.register = 0
  <2> SUFFICES ASSUME IsString(s)
               PROVE  x.register = 0
    BY Zenon
  <2>1. j = 0 /\ register[s] = 0
    BY <1>3, Zenon
  <2>2. \A b \in Nat, w \in Nat \ {0} : (0 + 0 * b) % w = 0
    OBVIOUS
  <2>3. (0 + 0 * Bits(s)) % WordBits(s) = 0
    BY <1>3, <2>2, Zenon
  <2> QED
    BY <1>1, <2>1, <2>3, Zenon
<1>4. x.register \in 0 .. WordBits(s) - 1
  <2>1. register[s] + j * Bits(s) \in Nat
    BY <1>3, TimesNat
  <2> QED
    BY <1>1, <1>3, <2>1, DivMod, Zenon
<1>5. x.end \in 0 .. PacketMax /\ x.first \in 0 .. x.end
  <2>1. x.end \in Nat /\ x.end <= end[s] /\ end[s] \in 0 .. PacketMax
    BY <1>1, <1>2, <1>3, Zenon
  <2>2. x.first \in 0 .. x.end
    BY <1>1, <1>2, Zenon
  <2> QED
    BY <2>1, <2>2, Sizes
<1>6. EncoderOK(encoders[s], x)
  BY <1>1, <1>2, <1>3, <1>4, <1>5, <1>7 DEF EncoderOK, WordBits, Word, IsString
<1> QED
  BY <1>1, <1>2, <1>6, Zenon DEF x

-----------------------------------------------------------------------------
(* Totals. *)

\* The output of a stream is no more than that of all of them.
LEMMA AvailableTotal ==
  ASSUME Shape
  PROVE  /\ Total(outputAvailable) \in Nat
         /\ \A s \in Streams : outputAvailable[s] <= Total(outputAvailable)
         /\ Total(outputAvailable) = SumTo(outputAvailable, Len(encoders))
<1> WriterShape
  BY Zenon DEF Shape
<1>1. encoders \in Prototypes
  BY Zenon DEF WriterShape
<1>2. Len(encoders) \in Nat /\ Streams = 1 .. Len(encoders)
  BY <1>1, StreamCount, Zenon DEF Streams
<1>3. DOMAIN outputAvailable = Streams
  BY Zenon DEF outputAvailable
<1>4. \A s \in Streams : outputAvailable[s] \in Nat
  BY StreamShape, Sizes
<1> HIDE DEF outputAvailable, Streams
<1> QED
  BY <1>2, <1>3, <1>4, TotalAsSum, Zenon

\* Header and lengths fit below the target.
LEMMA OverheadBounds ==
  ASSUME Shape
  PROVE  /\ Overhead \in Nat
         /\ Overhead < Target
         /\ Target < PacketMax
         /\ PacketMaxPayload \in Nat \ {0}
         /\ PacketMaxPayload + Overhead = PacketMax
<1> WriterShape
  BY Zenon DEF Shape
<1>1. encoders \in Prototypes
  BY Zenon DEF WriterShape
<1>2. /\ Len(encoders) \in Nat
      /\ HeaderSize + Len(encoders) * LengthSize < Target
      /\ Target \in Nat /\ Target < PacketMax
  BY <1>1, StreamCount, Zenon
<1>3. Overhead \in Nat /\ Overhead < Target
  BY <1>2, Sizes DEF Overhead
<1> HIDE DEF Overhead
<1> QED
  BY <1>2, <1>3, Sizes DEF PacketMaxPayload

\* An iteration that encodes finds every output below the target size.
LEMMA BelowTarget ==
  ASSUME Shape, currentPacketSize < Target
  PROVE  \A s \in Streams : outputAvailable[s] < Target
<1>1. Total(outputAvailable) \in Nat
  BY AvailableTotal, Zenon
<1>2. Overhead \in Nat /\ Target \in Nat
  BY OverheadBounds, Sizes DEF Target
<1>3. Total(outputAvailable) < Target
  BY <1>1, <1>2 DEF currentPacketSize
<1> TAKE s \in Streams
<1>4. outputAvailable[s] \in Nat /\ outputAvailable[s] <= Total(outputAvailable)
  BY AvailableTotal, StreamShape, Sizes
<1> QED
  BY <1>1, <1>2, <1>3, <1>4

\* The loop of write ends when every encoder is at the end.
LEMMA RemainingZero ==
  ASSUME Shape, Remaining = 0
  PROVE  \A s \in Streams : index[s] = endRecord
<1> WriterShape
  BY Zenon DEF Shape
<1> DEFINE left == [s \in Streams |-> endRecord - index[s]]
<1>1. encoders \in Prototypes
  BY Zenon DEF WriterShape
<1>2. Len(encoders) \in Nat /\ Streams = 1 .. Len(encoders)
  BY <1>1, StreamCount, Zenon DEF Streams
<1>3. \A s \in Streams : index[s] \in 0 .. endRecord /\ endRecord \in Nat
  BY StreamShape, Zenon
<1>4. DOMAIN left = Streams /\ \A s \in Streams : left[s] \in Nat
  BY <1>3
<1>5. \A s \in Streams : left[s] = endRecord - index[s]
  BY Zenon
<1>6. Total(left) = 0
  BY Zenon DEF Remaining
<1> HIDE DEF left, Streams
<1>7. \A s \in Streams : left[s] <= 0
  BY <1>2, <1>4, <1>6, TotalAsSum, Zenon
<1> QED
  BY <1>3, <1>4, <1>5, <1>7

-----------------------------------------------------------------------------
(* Packets. *)

(***************************************************************************)
(* Where each share is at most a fraction most / total of what its stream  *)
(* has, it is at most what the stream has, and the shares together are at  *)
(* most that fraction of the sum.                                          *)
(***************************************************************************)
LEMMA Shares ==
  ASSUME NEW n \in Nat, NEW a, NEW c, NEW total \in Nat \ {0}, NEW most \in Nat,
         most <= total,
         \A s \in 1 .. n : /\ a[s] \in Nat
                           /\ c[s] \in Nat
                           /\ c[s] * total <= most * a[s]
  PROVE  /\ \A s \in 1 .. n : c[s] <= a[s]
         /\ total * SumTo(c, n) <= most * SumTo(a, n)
<1>1. ASSUME NEW s \in 1 .. n PROVE c[s] <= a[s]
  <2>1. a[s] \in Nat /\ c[s] \in Nat /\ c[s] * total <= most * a[s]
    BY Zenon
  <2>2. most * a[s] <= total * a[s]
    BY <2>1, TimesMonotonic, Zenon
  <2>3. total * a[s] = a[s] * total /\ most * a[s] \in Nat /\ a[s] * total \in Nat
    BY <2>1
  <2>4. c[s] * total \in Nat
    BY <2>1
  <2>5. c[s] * total <= a[s] * total
    BY <2>1, <2>2, <2>3, <2>4
  <2> QED
    BY <2>1, <2>5, TimesCancel, Zenon
<1> DEFINE ct == [s \in 1 .. n |-> total * c[s]]
           ma == [s \in 1 .. n |-> most * a[s]]
<1>2. \A s \in 1 .. n : ct[s] = total * c[s] /\ ma[s] = most * a[s]
  BY Zenon
<1>3. \A s \in 1 .. n : ct[s] \in Nat /\ ma[s] \in Nat /\ ct[s] <= ma[s]
  <2> TAKE s \in 1 .. n
  <2>1. a[s] \in Nat /\ c[s] \in Nat /\ c[s] * total <= most * a[s]
    BY Zenon
  <2>2. total * c[s] = c[s] * total /\ total * c[s] \in Nat /\ most * a[s] \in Nat
    BY <2>1
  <2> QED
    BY <1>2, <2>1, <2>2, Zenon
<1> HIDE DEF ct, ma
<1>4. SumTo(ct, n) <= SumTo(ma, n)
  BY <1>3, SumMonotonic, Zenon
<1>5. SumTo(ct, n) = total * SumTo(c, n)
  BY SumTimes, Zenon DEF ct
<1>6. SumTo(ma, n) = most * SumTo(a, n)
  BY SumTimes, Zenon DEF ma
<1> QED
  BY <1>1, <1>4, <1>5, <1>6, Zenon

(***************************************************************************)
(* A share x / total that a float computes with a relative error of one    *)
(* part in f, and that is then rounded down, is at most (f + 1) / f times  *)
(* what it should be.                                                      *)
(***************************************************************************)
LEMMA FloatShare ==
  ASSUME NEW x \in Nat, NEW total \in Nat \ {0}, NEW f \in Nat \ {0}, NEW c,
         NEW low \in 0 .. 1, NEW high \in 0 .. 1,
         c = ((x \div total) + high) - low,
         low = 1 => x * (f - 1) < (x \div total) * (total * f),
         high = 1 => ((x \div total) + 1) * (total * f) <= x * (f + 1)
  PROVE  c \in Nat /\ c * (total * f) <= x * (f + 1)
<1> DEFINE q == x \div total
           u == total * f
<1>1. q \in Nat /\ x % total \in 0 .. total - 1 /\ x = q * total + (x % total)
  BY DivMod, Zenon
<1>2. u \in Nat \ {0} /\ x * (f - 1) \in Nat /\ x * (f + 1) \in Nat
  <2>1. total * f \in Nat /\ total * f # 0
    OBVIOUS
  <2>2. x * (f - 1) \in Nat
    <3>1. f - 1 \in Nat
      OBVIOUS
    <3> QED
      BY <3>1, TimesNat, Zenon
  <2>3. x * (f + 1) \in Nat
    <3>1. f + 1 \in Nat
      OBVIOUS
    <3> QED
      BY <3>1, TimesNat, Zenon
  <2> QED
    BY <2>1, <2>2, <2>3
<1>3. q * u <= x * (f + 1)
  <2>1. q * total \in Nat /\ q * total <= x
    <3>1. q * total \in Nat
      BY <1>1, TimesNat, Zenon
    <3> HIDE DEF q
    <3> QED
      BY <1>1, <3>1
  <2>2. (q * total) * f <= x * f
    BY <2>1, TimesMonotonic, Zenon
  <2>3. x * (f + 1) = x * f + x
    OBVIOUS
  <2>4. x * f \in Nat
    BY TimesNat, Zenon
  <2> HIDE DEF q
  <2>5. q * u = (q * total) * f
    BY <1>1
  <2>6. (q * total) * f \in Nat
    BY <2>1, TimesNat, Zenon
  <2> QED
    BY <2>2, <2>3, <2>4, <2>5, <2>6
<1>4. low = 1 => q # 0
  <2> SUFFICES ASSUME low = 1, q = 0
               PROVE  FALSE
    BY Zenon
  <2>1. q * u = 0
    BY <1>2
  <2>2. x * (f - 1) < q * u
    BY Zenon
  <2> HIDE DEF u, q
  <2> QED
    BY <1>2, <2>1, <2>2
<1>5. high = 1 => (q + 1) * u <= x * (f + 1)
  BY Zenon
<1>6. c = (q + high) - low
  BY Zenon
<1> HIDE DEF q, u
<1>7. c \in Nat /\ c <= q + high
  BY <1>1, <1>4, <1>6
<1>8. (q + high) * u <= x * (f + 1)
  <2>1. high = 0 \/ high = 1
    OBVIOUS
  <2>2. q + 0 = q
    BY <1>1
  <2> QED
    BY <1>3, <1>5, <2>1, <2>2, Zenon
<1>9. q + high \in Nat
  BY <1>1
<1>10. c * u <= (q + high) * u
  BY <1>2, <1>7, <1>9, TimesMonotonic
<1>11. c * u \in Nat /\ (q + high) * u \in Nat
  BY <1>2, <1>7, <1>9, TimesNat
<1>12. c * u <= x * (f + 1)
  BY <1>2, <1>8, <1>10, <1>11
<1> QED
  BY <1>7, <1>12, Zenon DEF u

(***************************************************************************)
(* The byte of slack: shares that are together at most (f + 1) / f times   *)
(* payload - 1 are less than the payload, and each is less than what there *)
(* is, when the payload is at most f.                                      *)
(***************************************************************************)
LEMMA Slack ==
  ASSUME NEW payload \in Nat \ {0}, NEW f \in Nat \ {0}, NEW total \in Nat \ {0},
         payload <= f, payload <= total
  PROVE  /\ (payload - 1) * (f + 1) \in Nat
         /\ (payload - 1) * (f + 1) <= total * f
         /\ \A sum \in Nat : (total * f) * sum <= ((payload - 1) * (f + 1)) * total
                               => sum < payload
<1> DEFINE most == (payload - 1) * (f + 1)
<1>1. most \in Nat /\ most = (payload * f - f) + (payload - 1)
  <2>1. most = (payload * f - f) + (payload - 1)
    OBVIOUS
  <2>2. payload - 1 \in Nat /\ f + 1 \in Nat
    OBVIOUS
  <2> QED
    BY <2>1, <2>2, TimesNat, Zenon
<1>2. payload * f \in Nat /\ total * f \in Nat /\ payload * f <= total * f
  BY TimesNat, TimesMonotonic
<1> HIDE DEF most
<1>3. most < payload * f
  BY <1>1, <1>2
<1>4. most <= total * f
  BY <1>1, <1>2, <1>3
<1>5. ASSUME NEW sum \in Nat, (total * f) * sum <= most * total
      PROVE  sum < payload
  <2>1. (total * f) * sum = (sum * f) * total
    OBVIOUS
  <2>2. sum * f \in Nat
    BY TimesNat, Zenon
  <2>3. (sum * f) * total <= most * total
    BY <1>5, <2>1, Zenon
  <2>4. sum * f <= most
    BY <1>1, <2>2, <2>3, TimesCancel, Zenon
  <2>5. SUFFICES ASSUME payload <= sum
                 PROVE  FALSE
    OBVIOUS
  <2>6. payload * f <= sum * f
    BY <2>5, TimesMonotonic, Zenon
  <2> QED
    BY <1>1, <1>2, <1>3, <2>2, <2>4, <2>6
<1> QED
  BY <1>1, <1>4, <1>5, Zenon DEF most

(***************************************************************************)
(* packetWrite takes no more of a stream than there is, and no more in all *)
(* than leaves a byte of the packet free.                                  *)
(***************************************************************************)
LEMMA CountsBounds ==
  ASSUME Shape, NEW counts \in PacketCounts
  PROVE  /\ DOMAIN counts = Streams
         /\ \A s \in Streams : counts[s] \in Nat /\ counts[s] <= outputAvailable[s]
         /\ Total(counts) \in Nat
         /\ Total(counts) < PacketMaxPayload
<1> WriterShape
  BY Zenon DEF Shape
<1> DEFINE n == Len(encoders)
           total == Total(outputAvailable)
           share == [s \in Streams |-> (PacketMaxPayload - 1) * outputAvailable[s]]
           whole == [s \in Streams |-> share[s] \div total]
           Low == {s \in Streams :
                     share[s] * (FloatPrecision - 1) < whole[s] * (total * FloatPrecision)}
           High == {s \in Streams :
                      (whole[s] + 1) * (total * FloatPrecision)
                        <= share[s] * (FloatPrecision + 1)}
           unit == total * FloatPrecision
           most == (PacketMaxPayload - 1) * (FloatPrecision + 1)
<1>1. n \in Nat /\ Streams = 1 .. n
  <2>1. encoders \in Prototypes
    BY Zenon DEF WriterShape
  <2> QED
    BY <2>1, StreamCount, Zenon DEF Streams
<1>2. total \in Nat /\ total = SumTo(outputAvailable, n)
  BY AvailableTotal, Zenon
<1>3. \A s \in Streams : outputAvailable[s] \in Nat
  BY StreamShape, Sizes
<1>4. PacketMaxPayload \in Nat \ {0}
  BY OverheadBounds, Zenon
<1>5. CASE total < PacketMaxPayload
  <2>1. counts = outputAvailable
    BY <1>5, Zenon DEF PacketCounts
  <2>2. DOMAIN outputAvailable = Streams
    BY Zenon DEF outputAvailable
  <2> QED
    BY <1>2, <1>3, <1>5, <2>1, <2>2
<1>6. CASE ~(total < PacketMaxPayload)
  <2>1. PICK off \in SUBSET (Low \cup High) :
          counts = [s \in Streams |-> (whole[s] + IF s \in off \cap High THEN 1 ELSE 0)
                                        - IF s \in off \cap Low THEN 1 ELSE 0]
    BY <1>6, Zenon DEF PacketCounts
  <2>2. /\ total \in Nat \ {0} /\ PacketMaxPayload - 1 \in Nat /\ PacketMaxPayload <= total
        /\ FloatPrecision \in Nat \ {0} /\ PacketMaxPayload <= FloatPrecision
    <3>1. PacketMaxPayload <= PacketMax /\ PacketMax \in Nat \ {0}
      BY <1>4, OverheadBounds, Sizes
    <3>2. FloatPrecision \in Nat /\ PacketMax <= FloatPrecision
      BY SizeAssumption, Zenon
    <3> QED
      BY <1>2, <1>4, <1>6, <3>1, <3>2
  <2>3. ASSUME NEW s \in Streams
        PROVE  counts[s] \in Nat /\ counts[s] * unit <= most * outputAvailable[s]
    <3> DEFINE x == (PacketMaxPayload - 1) * outputAvailable[s]
               l == IF s \in off \cap Low THEN 1 ELSE 0
               h == IF s \in off \cap High THEN 1 ELSE 0
    <3>1. x \in Nat /\ share[s] = x /\ whole[s] = x \div total
      BY <1>3, <2>2, TimesNat, Zenon
    <3>2. counts[s] = ((x \div total) + h) - l
      BY <2>1, <3>1, Zenon
    <3>3. l = 1 => x * (FloatPrecision - 1) < (x \div total) * (total * FloatPrecision)
      <4>1. s \in off \cap Low => x * (FloatPrecision - 1) < (x \div total) * (total * FloatPrecision)
        BY <2>1, <3>1, Zenon
      <4>2. l = 1 => s \in off \cap Low
        OBVIOUS
      <4> QED
        BY <4>1, <4>2, Zenon
    <3>4. h = 1 => ((x \div total) + 1) * (total * FloatPrecision) <= x * (FloatPrecision + 1)
      <4>1. s \in off \cap High =>
              ((x \div total) + 1) * (total * FloatPrecision) <= x * (FloatPrecision + 1)
        BY <2>1, <3>1, Zenon
      <4>2. h = 1 => s \in off \cap High
        OBVIOUS
      <4> QED
        BY <4>1, <4>2, Zenon
    <3>5. l \in 0 .. 1 /\ h \in 0 .. 1
      OBVIOUS
    <3> HIDE DEF x, l, h, share, whole
    <3>6. counts[s] \in Nat /\ counts[s] * unit <= x * (FloatPrecision + 1)
      BY <2>2, <3>1, <3>2, <3>3, <3>4, <3>5, FloatShare, Zenon
    <3>7. x * (FloatPrecision + 1) = most * outputAvailable[s]
      BY <1>3, <2>2 DEF x
    <3> QED
      BY <3>6, <3>7, Zenon
  <2>4. DOMAIN counts = Streams
    BY <2>1, Zenon
  <2>5. /\ most \in Nat
        /\ most <= unit
        /\ \A sum \in Nat : unit * sum <= most * total => sum < PacketMaxPayload
    BY <1>4, <2>2, Slack, Zenon
  <2>6. unit \in Nat \ {0}
    BY <2>2
  <2> HIDE DEF n, total, share, whole, Low, High, unit, most
  <2>7. \A s \in 1 .. n : /\ outputAvailable[s] \in Nat
                          /\ counts[s] \in Nat
                          /\ counts[s] * unit <= most * outputAvailable[s]
    BY <1>1, <1>3, <2>3, Zenon
  <2>8. /\ \A s \in 1 .. n : counts[s] <= outputAvailable[s]
        /\ unit * SumTo(counts, n) <= most * SumTo(outputAvailable, n)
    BY <1>1, <2>5, <2>6, <2>7, Shares, Zenon
  <2>9. Total(counts) \in Nat /\ Total(counts) = SumTo(counts, n)
    BY <1>1, <2>4, <2>7, TotalAsSum, Zenon
  <2>10. Total(counts) < PacketMaxPayload
    BY <1>2, <2>5, <2>8, <2>9, Zenon
  <2> QED
    BY <1>1, <2>4, <2>7, <2>8, <2>9, <2>10, Zenon
<1> QED
  BY <1>5, <1>6, Zenon

-----------------------------------------------------------------------------
(* The shape of the state is an invariant. *)

\* EncoderOK looks at the fields of a state only.
LEMMA SameFields ==
  ASSUME NEW e, NEW x, NEW y, EncoderOK(e, x),
         x.index = y.index, x.register = y.register, x.first = y.first,
         x.end = y.end, x.rest = y.rest, x.fetched = y.fetched
  PROVE  EncoderOK(e, y)
BY Zenon DEF EncoderOK

\* Lengths of strings are natural numbers.
LEMMA NextStringsNat ==
  ASSUME Shape, NEW length \in NextStrings
  PROVE  \A s \in Streams : length[s] \in Nat
<1> WriterShape
  BY Zenon DEF Shape
<1> TAKE s \in Streams
<1>1. encoders \in Prototypes
  BY Zenon DEF WriterShape
<1>2. encoders[s].strings \subseteq Nat
  BY <1>1, EncoderTypes, Zenon DEF Streams
<1>3. IF IsString(s) THEN length[s] \in encoders[s].strings ELSE length[s] = 0
  BY Zenon DEF NextStrings
<1> QED
  BY <1>2, <1>3

\* A new writer has the shape.
LEMMA ShapeInit == Init => Shape
<1> SUFFICES ASSUME Init
             PROVE  Shape
  BY Zenon
<1>1. encoders \in Prototypes
  BY Zenon DEF Init
<1>2. \A f \in {index, register, first, end, rest, fetched, sent} : f = [s \in Streams |-> 0]
  BY Zenon DEF Init
<1>3. ASSUME NEW s \in Streams
      PROVE  /\ EncoderOK(encoders[s], Unchanged(s))
             /\ index[s] = 0 /\ rest[s] = 0 /\ (~IsString(s) => HasRoom(s))
  <2>1. /\ Unchanged(s).index = 0 /\ Unchanged(s).register = 0 /\ Unchanged(s).first = 0
        /\ Unchanged(s).end = 0 /\ Unchanged(s).rest = 0 /\ Unchanged(s).fetched = 0
    BY <1>2, Zenon DEF Unchanged
  <2>2. encoders[s].word \in Nat \ {0} /\ encoders[s].word * ByteBits \in Nat \ {0}
    BY <1>1, EncoderTypes, Zenon DEF Streams
  <2>3. 0 % encoders[s].word = 0
    BY <2>2
  <2>4. EncoderOK(encoders[s], Unchanged(s))
    BY <2>1, <2>2, <2>3, Sizes DEF EncoderOK
  <2>5. ~IsString(s) => HasRoom(s)
    <3> SUFFICES ASSUME ~IsString(s)
                 PROVE  HasRoom(s)
      BY Zenon
    <3>1. Target + Growth(encoders[s]) <= PacketMax - encoders[s].word
      BY <1>1, EncoderTypes, Zenon DEF Streams, IsString, Target
    <3>2. Growth(encoders[s]) \in Nat /\ Target \in Nat /\ encoders[s].word <= Growth(encoders[s])
      BY <1>1, GrowthBounds, StreamCount, Zenon DEF Streams
    <3>3. end[s] = 0
      BY <1>2, Zenon
    <3> QED
      BY <2>2, <3>1, <3>2, <3>3, Sizes DEF HasRoom, Word
  <2> QED
    BY <1>2, <2>4, <2>5, Zenon
<1>4. /\ pc = "idle" /\ error = "none" /\ recordCount = 0 /\ endRecord = 0
      /\ 0 \in 0 .. MaxRecords
  BY RequestAssumption DEF Init
<1>5. \A f \in {index, register, first, end, rest, fetched, sent} : f \in [Streams -> Nat]
  BY <1>2
<1>6. \A s \in Streams : EncoderOK(encoders[s], Unchanged(s)) /\ index[s] <= endRecord
  BY <1>3, <1>4
<1> QED
  BY <1>1, <1>3, <1>4, <1>5, <1>6, Zenon DEF Shape, WriterShape

\* A step that changes no encoder.
LEMMA ShapeSameEncoders ==
  ASSUME Shape, UNCHANGED <<encoders, index, register, first, end, rest, fetched>>
  PROVE  /\ Streams' = Streams
         /\ encoders' \in Prototypes
         /\ \A f \in {index, register, first, end, rest, fetched} : f \in [Streams -> Nat]
         /\ \A s \in Streams : EncoderOK(encoders[s], Unchanged(s))'
         /\ \A s \in Streams : IsString(s)' = IsString(s) /\ HasRoom(s)' = HasRoom(s)
<1> WriterShape
  BY Zenon DEF Shape
<1>1. Streams' = Streams /\ encoders' \in Prototypes
  BY Zenon DEF WriterShape, Streams
<1>2. \A f \in {index, register, first, end, rest, fetched} : f \in [Streams -> Nat]
  BY Zenon DEF WriterShape
<1>3. ASSUME NEW s \in Streams PROVE EncoderOK(encoders[s], Unchanged(s))'
  <2>1. EncoderOK(encoders[s], Unchanged(s))
    BY Zenon DEF WriterShape
  <2>2. Unchanged(s)' = Unchanged(s)
    BY Zenon DEF Unchanged
  <2> QED
    BY <2>1, <2>2, Zenon DEF EncoderOK
<1>4. ASSUME NEW s \in Streams PROVE IsString(s)' = IsString(s) /\ HasRoom(s)' = HasRoom(s)
  BY Zenon DEF IsString, HasRoom, Word
<1> QED
  BY <1>1, <1>2, <1>3, <1>4, Zenon

\* Entering write keeps the shape.
LEMMA ShapeWrite ==
  ASSUME Shape, NEW n \in Requests, write(n)
  PROVE  Shape'
<1> WriterShape
  BY Zenon DEF Shape
<1> SUFFICES WriterShape'
  BY Zenon DEF Shape
<1>1. /\ pc = "idle" /\ error = "none" /\ pc' = "write" /\ endRecord' = recordCount + n
      /\ recordCount + n <= MaxRecords
      /\ UNCHANGED <<encoders, recordCount, index, register, first, end, rest, fetched, sent, error>>
  BY Zenon DEF write
<1>2. /\ Streams' = Streams /\ encoders' \in Prototypes
      /\ \A f \in {index, register, first, end, rest, fetched} : f \in [Streams -> Nat]
      /\ \A s \in Streams : EncoderOK(encoders[s], Unchanged(s))'
      /\ \A s \in Streams : IsString(s)' = IsString(s) /\ HasRoom(s)' = HasRoom(s)
  BY <1>1, ShapeSameEncoders, Zenon
<1>3. /\ recordCount \in 0 .. MaxRecords /\ sent \in [Streams -> Nat]
      /\ \A s \in Streams : index[s] = recordCount /\ rest[s] = 0
      /\ \A s \in Streams : ~IsString(s) => HasRoom(s)
  BY <1>1, Zenon DEF WriterShape
<1>4. n \in Nat /\ MaxRecords \in Nat
  BY RequestAssumption, Zenon
<1>5. endRecord' \in 0 .. MaxRecords /\ \A s \in Streams : index'[s] <= endRecord'
  BY <1>1, <1>3, <1>4
<1>6. \A f \in {index', register', first', end', rest', fetched', sent'} : f \in [Streams' -> Nat]
  BY <1>1, <1>2, <1>3, Zenon
<1>7. \A s \in Streams : rest'[s] > 0 => index'[s] < endRecord'
  BY <1>1, <1>3
<1> QED
  BY <1>1, <1>2, <1>3, <1>5, <1>6, <1>7, Zenon DEF WriterShape

\* write( 0 ) keeps the shape.
LEMMA ShapeZeroRecords ==
  ASSUME Shape, packetWriteZeroRecords
  PROVE  Shape'
<1> WriterShape
  BY Zenon DEF Shape
<1> SUFFICES WriterShape'
  BY Zenon DEF Shape
<1>1. /\ pc = "idle" /\ pc' = "idle" /\ error = "none" /\ error' \in {"none", "io"}
      /\ UNCHANGED <<encoders, endRecord, recordCount, index, register, first, end, rest,
                     fetched, sent>>
  BY Zenon DEF packetWriteZeroRecords
<1>2. /\ Streams' = Streams /\ encoders' \in Prototypes
      /\ \A f \in {index, register, first, end, rest, fetched} : f \in [Streams -> Nat]
      /\ \A s \in Streams : EncoderOK(encoders[s], Unchanged(s))'
      /\ \A s \in Streams : IsString(s)' = IsString(s) /\ HasRoom(s)' = HasRoom(s)
  BY <1>1, ShapeSameEncoders, Zenon
<1>3. /\ recordCount \in 0 .. MaxRecords /\ endRecord \in 0 .. MaxRecords
      /\ sent \in [Streams -> Nat]
      /\ \A s \in Streams : index[s] = recordCount /\ rest[s] = 0
      /\ \A s \in Streams : index[s] <= endRecord
      /\ \A s \in Streams : ~IsString(s) => HasRoom(s)
  BY <1>1, Zenon DEF WriterShape
<1>6. \A f \in {index', register', first', end', rest', fetched', sent'} : f \in [Streams' -> Nat]
  BY <1>1, <1>2, <1>3, Zenon
<1> QED
  BY <1>1, <1>2, <1>3, <1>6, Zenon DEF WriterShape

\* The return of write keeps the shape: all encoders are at endRecordIndex.
LEMMA ShapeWriteReturns ==
  ASSUME Shape, WriteReturns
  PROVE  Shape'
<1> WriterShape
  BY Zenon DEF Shape
<1> SUFFICES WriterShape'
  BY Zenon DEF Shape
<1>1. /\ pc = "write" /\ pc' = "idle" /\ error' = error /\ Remaining = 0
      /\ recordCount' = endRecord
      /\ UNCHANGED <<encoders, endRecord, index, register, first, end, rest, fetched, sent>>
  BY Zenon DEF WriteReturns, InWrite
<1>2. /\ Streams' = Streams /\ encoders' \in Prototypes
      /\ \A f \in {index, register, first, end, rest, fetched} : f \in [Streams -> Nat]
      /\ \A s \in Streams : EncoderOK(encoders[s], Unchanged(s))'
      /\ \A s \in Streams : IsString(s)' = IsString(s) /\ HasRoom(s)' = HasRoom(s)
  BY <1>1, ShapeSameEncoders, Zenon
<1>3. /\ endRecord \in 0 .. MaxRecords /\ error = "none"
      /\ sent \in [Streams -> Nat]
      /\ \A s \in Streams : rest[s] > 0 => index[s] < endRecord
      /\ \A s \in Streams : ~IsString(s) => HasRoom(s)
  BY <1>1, Zenon DEF WriterShape
<1>4. \A s \in Streams : index[s] = endRecord
  BY <1>1, RemainingZero, Zenon
<1>5. \A s \in Streams : index[s] <= endRecord /\ rest[s] = 0
  <2> TAKE s \in Streams
  <2>1. index[s] = endRecord /\ (rest[s] > 0 => index[s] < endRecord)
    BY <1>3, <1>4, Zenon
  <2>2. rest[s] \in Nat /\ endRecord \in Nat
    BY StreamShape, Zenon
  <2> QED
    BY <2>1, <2>2
<1>6. \A f \in {index', register', first', end', rest', fetched', sent'} : f \in [Streams' -> Nat]
  BY <1>1, <1>2, <1>3, Zenon
<1> QED
  BY <1>1, <1>2, <1>3, <1>4, <1>5, <1>6, Zenon DEF WriterShape

(***************************************************************************)
(* The encoders become the states e, all of them sound.                    *)
(***************************************************************************)
LEMMA ShapeBecomes ==
  ASSUME Shape, NEW e, Becomes(e), UNCHANGED encoders,
         \A s \in Streams : EncoderOK(encoders[s], e[s])
  PROVE  /\ Streams' = Streams
         /\ encoders' \in Prototypes
         /\ \A f \in {index', register', first', end', rest', fetched'} : f \in [Streams -> Nat]
         /\ \A s \in Streams : EncoderOK(encoders[s], Unchanged(s))'
         /\ \A s \in Streams : /\ IsString(s)' = IsString(s)
                               /\ Word(s)' = Word(s)
                               /\ index'[s] = e[s].index /\ rest'[s] = e[s].rest
                               /\ end'[s] = e[s].end /\ first'[s] = e[s].first
<1> WriterShape
  BY Zenon DEF Shape
<1>1. Streams' = Streams /\ encoders' \in Prototypes
  BY Zenon DEF WriterShape, Streams
<1>2. \A s \in Streams : /\ index'[s] = e[s].index /\ register'[s] = e[s].register
                         /\ first'[s] = e[s].first /\ end'[s] = e[s].end
                         /\ rest'[s] = e[s].rest /\ fetched'[s] = e[s].fetched
  BY Zenon DEF Becomes
<1>3. ASSUME NEW s \in Streams PROVE EncoderOK(encoders[s], Unchanged(s))'
  <2> DEFINE y == [index |-> index'[s], register |-> register'[s], first |-> first'[s],
                   end |-> end'[s], rest |-> rest'[s], fetched |-> fetched'[s]]
  <2>1. Unchanged(s)' = y
    BY Zenon DEF Unchanged
  <2>2. /\ e[s].index = y.index /\ e[s].register = y.register /\ e[s].first = y.first
        /\ e[s].end = y.end /\ e[s].rest = y.rest /\ e[s].fetched = y.fetched
    BY <1>2, Zenon
  <2> HIDE DEF y
  <2>3. EncoderOK(encoders[s], y)
    BY <2>2, SameFields, Zenon
  <2> QED
    BY <2>1, <2>3, Zenon DEF EncoderOK
<1>4. \A s \in Streams : /\ e[s].index \in Nat /\ e[s].register \in Nat /\ e[s].first \in Nat
                         /\ e[s].end \in Nat /\ e[s].rest \in Nat /\ e[s].fetched \in Nat
  <2> TAKE s \in Streams
  <2>1. EncoderOK(encoders[s], e[s])
    BY Zenon
  <2>2. encoders[s].word * ByteBits \in Nat
    BY StreamShape, Zenon DEF WordBits, Word
  <2> QED
    BY <2>1, <2>2, Sizes DEF EncoderOK
<1>5. \A f \in {index', register', first', end', rest', fetched'} : f \in [Streams -> Nat]
  BY <1>4, Zenon DEF Becomes
<1> QED
  BY <1>1, <1>2, <1>3, <1>5, Zenon DEF IsString, Word

\* An iteration of processRecords over all encoders keeps the shape.
LEMMA ShapeWriteEncodes ==
  ASSUME Shape, WriteEncodes
  PROVE  Shape'
<1> WriterShape
  BY Zenon DEF Shape
<1> SUFFICES WriterShape'
  BY Zenon DEF Shape
<1>1. PICK length \in NextStrings : Becomes([s \in Streams |-> Iterated(s, length[s])])
  BY Zenon DEF WriteEncodes
<1> DEFINE e == [s \in Streams |-> Iterated(s, length[s])]
<1>2. /\ pc = "write" /\ pc' = "write" /\ currentPacketSize < Target
      /\ UNCHANGED <<encoders, endRecord, recordCount, sent, error>>
  BY Zenon DEF WriteEncodes, Encodes, InWrite
<1>3. \A s \in Streams : length[s] \in Nat /\ outputAvailable[s] < Target
  BY <1>2, NextStringsNat, BelowTarget, Zenon
<1>4. \A s \in Streams : /\ EncoderOK(encoders[s], e[s])
                         /\ e[s].index \in index[s] .. endRecord
                         /\ e[s].rest > 0 => e[s].index < endRecord
                         /\ ~IsString(s) => e[s].end < PacketMax - Word(s)
  BY <1>2, <1>3, IteratedOK, Zenon
<1>5. Becomes(e)
  BY <1>1, Zenon
<1> HIDE DEF e
<1>6. /\ Streams' = Streams
      /\ encoders' \in Prototypes
      /\ \A f \in {index', register', first', end', rest', fetched'} : f \in [Streams -> Nat]
      /\ \A s \in Streams : EncoderOK(encoders[s], Unchanged(s))'
      /\ \A s \in Streams : /\ IsString(s)' = IsString(s)
                            /\ Word(s)' = Word(s)
                            /\ index'[s] = e[s].index /\ rest'[s] = e[s].rest
                            /\ end'[s] = e[s].end /\ first'[s] = e[s].first
  BY <1>2, <1>4, <1>5, ShapeBecomes, Zenon
<1>7. /\ endRecord \in 0 .. MaxRecords /\ recordCount \in 0 .. MaxRecords
      /\ error = "none" /\ sent \in [Streams -> Nat]
  BY <1>2, Zenon DEF WriterShape
<1>8. \A f \in {index', register', first', end', rest', fetched', sent'} : f \in [Streams' -> Nat]
  BY <1>2, <1>6, <1>7, Zenon
<1>9. \A s \in Streams : /\ index'[s] <= endRecord
                         /\ rest'[s] > 0 => index'[s] < endRecord
                         /\ ~IsString(s)' => HasRoom(s)'
  <2> TAKE s \in Streams
  <2>1. index[s] \in Nat /\ endRecord \in Nat
    BY StreamShape
  <2> QED
    BY <1>4, <1>6, <2>1, SMTT(60) DEF HasRoom
<1> QED
  BY <1>2, <1>6, <1>7, <1>8, <1>9, Zenon DEF WriterShape

\* An encoder that throws in the middle of an iteration keeps the shape.
LEMMA ShapeWriteRefusesValue ==
  ASSUME Shape, WriteRefusesValue
  PROVE  Shape'
<1> WriterShape
  BY Zenon DEF Shape
<1> SUFFICES WriterShape'
  BY Zenon DEF Shape
<1>0. PICK k \in Streams :
        \E length \in NextStrings : \E j \in 0 .. Tried(k) - 1 :
          Becomes([s \in Streams |-> IF s < k THEN Iterated(s, length[s])
                                    ELSE IF s = k THEN Refused(s, j)
                                    ELSE Unchanged(s)])
  BY Zenon DEF WriteRefusesValue
<1>1. PICK length \in NextStrings, j \in 0 .. Tried(k) - 1 :
        Becomes([s \in Streams |-> IF s < k THEN Iterated(s, length[s])
                                  ELSE IF s = k THEN Refused(s, j)
                                  ELSE Unchanged(s)])
  BY <1>0, Zenon
<1> DEFINE e == [s \in Streams |-> IF s < k THEN Iterated(s, length[s])
                                   ELSE IF s = k THEN Refused(s, j)
                                   ELSE Unchanged(s)]
<1>2. /\ pc = "write" /\ pc' = "idle" /\ currentPacketSize < Target /\ error' = "value"
      /\ UNCHANGED <<encoders, endRecord, recordCount, sent>>
  BY Zenon DEF WriteRefusesValue, Encodes, InWrite
<1>3. \A s \in Streams : length[s] \in Nat /\ outputAvailable[s] < Target
  BY <1>2, NextStringsNat, BelowTarget, Zenon
<1>4. ASSUME NEW s \in Streams
      PROVE  /\ EncoderOK(encoders[s], e[s])
             /\ e[s].index <= endRecord
             /\ ~IsString(s) => e[s].end < PacketMax - Word(s)
  <2>1. /\ index[s] \in 0 .. endRecord /\ endRecord \in Nat /\ end[s] \in Nat
        /\ Word(s) \in Nat
    BY StreamShape, Sizes
  <2>2. ~IsString(s) => end[s] < PacketMax - Word(s)
    BY <1>2, Zenon DEF WriterShape, HasRoom
  <2>3. CASE s < k
    <3>1. e[s] = Iterated(s, length[s])
      BY <2>3, Zenon
    <3>2. /\ EncoderOK(encoders[s], Iterated(s, length[s]))
          /\ Iterated(s, length[s]).index \in index[s] .. endRecord
          /\ ~IsString(s) => Iterated(s, length[s]).end < PacketMax - Word(s)
      BY <1>2, <1>3, IteratedOK, Zenon
    <3> HIDE DEF e
    <3> QED
      BY <2>1, <3>1, <3>2
  <2>4. CASE ~(s < k) /\ s = k
    <3>1. e[s] = Refused(s, j)
      BY <2>4, Zenon
    <3>2. j \in Nat /\ (IsString(s) => j = 0)
      BY <2>4, RefusedString, Zenon
    <3>3. /\ EncoderOK(encoders[s], Refused(s, j))
          /\ Refused(s, j).index = index[s]
          /\ Refused(s, j).end <= end[s] /\ Refused(s, j).end \in Nat
      BY <3>2, RefusedOK, Zenon
    <3> HIDE DEF e
    <3> QED
      BY <2>1, <2>2, <3>1, <3>3, Sizes
  <2>5. CASE ~(s < k) /\ s # k
    <3>1. e[s] = Unchanged(s)
      BY <2>5, Zenon
    <3>2. EncoderOK(encoders[s], Unchanged(s))
      BY Zenon DEF WriterShape
    <3>3. Unchanged(s).index = index[s] /\ Unchanged(s).end = end[s]
      BY Zenon DEF Unchanged
    <3> HIDE DEF e
    <3> QED
      BY <2>1, <2>2, <3>1, <3>2, <3>3
  <2> QED
    BY <2>3, <2>4, <2>5, Zenon
<1>5. Becomes(e)
  BY <1>1, Zenon
<1> HIDE DEF e
<1>6. /\ Streams' = Streams
      /\ encoders' \in Prototypes
      /\ \A f \in {index', register', first', end', rest', fetched'} : f \in [Streams -> Nat]
      /\ \A s \in Streams : EncoderOK(encoders[s], Unchanged(s))'
      /\ \A s \in Streams : /\ IsString(s)' = IsString(s)
                            /\ Word(s)' = Word(s)
                            /\ index'[s] = e[s].index /\ rest'[s] = e[s].rest
                            /\ end'[s] = e[s].end /\ first'[s] = e[s].first
  BY <1>2, <1>4, <1>5, ShapeBecomes, Zenon
<1>7. /\ endRecord \in 0 .. MaxRecords /\ recordCount \in 0 .. MaxRecords
      /\ sent \in [Streams -> Nat]
  BY <1>2, Zenon DEF WriterShape
<1>8. \A f \in {index', register', first', end', rest', fetched', sent'} : f \in [Streams' -> Nat]
  BY <1>2, <1>6, <1>7, Zenon
<1>9. \A s \in Streams : index'[s] <= endRecord /\ (~IsString(s)' => HasRoom(s)')
  BY <1>4, <1>6, Zenon DEF HasRoom
<1> QED
  BY <1>2, <1>6, <1>7, <1>8, <1>9, Zenon DEF WriterShape

(***************************************************************************)
(* The encoders after packetWrite has taken bytes from their output.       *)
(***************************************************************************)
LEMMA ShapeOutputRead ==
  ASSUME Shape, NEW counts \in PacketCounts, OutputRead(counts),
         UNCHANGED <<encoders, index, register, end, rest, fetched>>
  PROVE  /\ Streams' = Streams
         /\ encoders' \in Prototypes
         /\ \A f \in {index', register', first', end', rest', fetched'} : f \in [Streams -> Nat]
         /\ \A s \in Streams : EncoderOK(encoders[s], Unchanged(s))'
         /\ \A s \in Streams : IsString(s)' = IsString(s) /\ HasRoom(s)' = HasRoom(s)
         /\ [s \in Streams |-> sent[s] + counts[s]] \in [Streams -> Nat]
<1> WriterShape
  BY Zenon DEF Shape
<1>1. Streams' = Streams /\ encoders' \in Prototypes
  BY Zenon DEF WriterShape, Streams
<1>2. ASSUME NEW s \in Streams
      PROVE  counts[s] \in Nat /\ first[s] + counts[s] \in 0 .. end[s] /\ end[s] \in Nat
  <2>1. counts[s] \in Nat /\ counts[s] <= outputAvailable[s]
    BY CountsBounds, Zenon
  <2>2. first[s] \in 0 .. end[s] /\ end[s] \in Nat /\ outputAvailable[s] = end[s] - first[s]
    BY StreamShape, Sizes
  <2> QED
    BY <2>1, <2>2
<1>3. \A s \in Streams : first'[s] = first[s] + counts[s]
  BY Zenon DEF OutputRead
<1>4. first' \in [Streams -> Nat]
  BY <1>2 DEF OutputRead
<1>5. \A f \in {index, register, end, rest, fetched, sent} : f \in [Streams -> Nat]
  BY DEF WriterShape
<1>6. ASSUME NEW s \in Streams PROVE EncoderOK(encoders[s], Unchanged(s))'
  <2> DEFINE y == [index |-> index[s], register |-> register[s], first |-> first'[s],
                   end |-> end[s], rest |-> rest[s], fetched |-> fetched[s]]
  <2>1. Unchanged(s)' = y
    BY Zenon DEF Unchanged
  <2>2. EncoderOK(encoders[s], Unchanged(s))
    BY Zenon DEF WriterShape
  <2>3. /\ Unchanged(s).index = y.index /\ Unchanged(s).register = y.register
        /\ Unchanged(s).end = y.end /\ Unchanged(s).rest = y.rest
        /\ Unchanged(s).fetched = y.fetched
    BY Zenon DEF Unchanged
  <2>4. y.first \in 0 .. y.end
    BY <1>2, <1>3, Zenon
  <2> HIDE DEF y
  <2>5. EncoderOK(encoders[s], y)
    BY <2>2, <2>3, <2>4, Zenon DEF EncoderOK
  <2> QED
    BY <2>1, <2>5, Zenon DEF EncoderOK
<1>7. \A s \in Streams : IsString(s)' = IsString(s) /\ HasRoom(s)' = HasRoom(s)
  BY Zenon DEF IsString, HasRoom, Word
<1>8. [s \in Streams |-> sent[s] + counts[s]] \in [Streams -> Nat]
  BY <1>2, <1>5
<1> QED
  BY <1>1, <1>4, <1>5, <1>6, <1>7, <1>8

\* A packet of write, stored or lost, keeps the shape.
LEMMA ShapeWriteSends ==
  ASSUME Shape, WriteSendsPacket \/ WriteFails
  PROVE  Shape'
<1> WriterShape
  BY Zenon DEF Shape
<1> SUFFICES WriterShape'
  BY Zenon DEF Shape
<1>1. PICK counts \in PacketCounts :
        /\ OutputRead(counts)
        /\ sent' \in {sent, [s \in Streams |-> sent[s] + counts[s]]}
        /\ \/ pc' = "write" /\ error' = error
           \/ pc' = "idle" /\ error' \in {"io", "internal"}
  BY Zenon DEF WriteSendsPacket, WriteFails, PacketStored, PacketLost, Sends, InWrite
<1>2. /\ pc = "write"
      /\ UNCHANGED <<encoders, endRecord, recordCount, index, register, end, rest, fetched>>
  BY Zenon DEF WriteSendsPacket, WriteFails, Sends, InWrite
<1>3. /\ Streams' = Streams
      /\ encoders' \in Prototypes
      /\ \A f \in {index', register', first', end', rest', fetched'} : f \in [Streams -> Nat]
      /\ \A s \in Streams : EncoderOK(encoders[s], Unchanged(s))'
      /\ \A s \in Streams : IsString(s)' = IsString(s) /\ HasRoom(s)' = HasRoom(s)
      /\ [s \in Streams |-> sent[s] + counts[s]] \in [Streams -> Nat]
  BY <1>1, <1>2, ShapeOutputRead, Zenon
<1>4. /\ endRecord \in 0 .. MaxRecords /\ recordCount \in 0 .. MaxRecords /\ error = "none"
      /\ sent \in [Streams -> Nat]
      /\ \A s \in Streams : index[s] <= endRecord
      /\ \A s \in Streams : rest[s] > 0 => index[s] < endRecord
      /\ \A s \in Streams : ~IsString(s) => HasRoom(s)
  BY <1>2, Zenon DEF WriterShape
<1>5. \A f \in {index', register', first', end', rest', fetched', sent'} : f \in [Streams' -> Nat]
  BY <1>1, <1>3, <1>4, Zenon
<1> QED
  BY <1>1, <1>2, <1>3, <1>4, <1>5, Zenon DEF WriterShape

(***************************************************************************)
(* The first flush of close moves every register to the output.            *)
(***************************************************************************)
LEMMA ShapeClose ==
  ASSUME Shape, close
  PROVE  Shape'
<1> WriterShape
  BY Zenon DEF Shape
<1> SUFFICES WriterShape'
  BY Zenon DEF Shape
<1>1. /\ pc = "idle" /\ pc' = "close" /\ flush
      /\ UNCHANGED <<encoders, endRecord, recordCount, index, first, rest, fetched, sent, error>>
  BY Zenon DEF close
<1>2. Streams' = Streams /\ encoders' \in Prototypes
  BY <1>1, Zenon DEF WriterShape, Streams
<1>3. ASSUME NEW s \in Streams
      PROVE  /\ register'[s] = 0
             /\ end'[s] = IF register[s] > 0 THEN end[s] + Word(s) ELSE end[s]
             /\ register[s] > 0 => end[s] < PacketMax - Word(s)
  <2>1. register[s] \in Nat /\ (IsString(s) => register[s] = 0)
    BY StreamShape, SMTT(60)
  <2>2. ~IsString(s) => HasRoom(s)
    BY <1>1, Zenon DEF WriterShape
  <2>3. register[s] > 0 => HasRoom(s)
    BY <2>1, <2>2
  <2>4. /\ end'[s] = IF register[s] > 0 /\ HasRoom(s) THEN end[s] + Word(s) ELSE end[s]
        /\ register'[s] = IF HasRoom(s) THEN 0 ELSE register[s]
    BY <1>1, Zenon DEF flush
  <2> QED
    BY <2>1, <2>3, <2>4, SMTT(60) DEF HasRoom
<1>4. ASSUME NEW s \in Streams
      PROVE  /\ EncoderOK(encoders[s], Unchanged(s))' /\ end'[s] \in Nat /\ register'[s] \in Nat
  <2> DEFINE y == [index |-> index[s], register |-> register'[s], first |-> first[s],
                   end |-> end'[s], rest |-> rest[s], fetched |-> fetched[s]]
  <2>1. Unchanged(s)' = y
    BY <1>1, Zenon DEF Unchanged
  <2>2. EncoderOK(encoders[s], Unchanged(s))
    BY Zenon DEF WriterShape
  <2>3. /\ Unchanged(s).index = y.index /\ Unchanged(s).first = y.first
        /\ Unchanged(s).end = end[s] /\ Unchanged(s).rest = y.rest
        /\ Unchanged(s).fetched = y.fetched
    BY Zenon DEF Unchanged
  <2>4. /\ end[s] \in 0 .. PacketMax /\ first[s] \in 0 .. end[s] /\ end[s] % Word(s) = 0
        /\ Word(s) \in Nat \ {0} /\ WordBits(s) \in Nat \ {0}
    BY StreamShape, Zenon
  <2>5. end'[s] \in 0 .. PacketMax /\ first[s] \in 0 .. end'[s]
    <3>1. PacketMax \in Nat
      BY Sizes, Zenon
    <3>2. /\ end'[s] = IF register[s] > 0 THEN end[s] + Word(s) ELSE end[s]
          /\ register[s] > 0 => end[s] < PacketMax - Word(s)
      BY <1>3, Zenon
    <3> QED
      BY <2>4, <3>1, <3>2, SMTT(60)
  <2>6. end'[s] % Word(s) = 0
    <3>1. (end[s] + 1 * Word(s)) % Word(s) = 0
      <4>1. end[s] \in Nat
        BY <2>4, Sizes
      <4> QED
        BY <2>4, <4>1, AddMultiple, Zenon
    <3>2. 1 * Word(s) = Word(s)
      BY <2>4
    <3> QED
      BY <1>3, <2>4, <3>1, <3>2
  <2>7. y.register = 0 /\ y.end = end'[s] /\ 0 \in 0 .. encoders[s].word * ByteBits - 1
    BY <1>3, <2>4, SMTT(60) DEF WordBits, Word
  <2> HIDE DEF y
  <2>8. y.end \in 0 .. PacketMax /\ y.first \in 0 .. y.end /\ y.end % encoders[s].word = 0
    BY <2>3, <2>5, <2>6, <2>7, Zenon DEF Unchanged, Word
  <2>9. EncoderOK(encoders[s], y)
    BY <2>2, <2>3, <2>7, <2>8, Zenon DEF EncoderOK
  <2>10. end'[s] \in Nat /\ register'[s] \in Nat
    BY <1>3, <2>5, Sizes
  <2> QED
    BY <1>1, <2>1, <2>9, <2>10, Zenon DEF EncoderOK
<1>5. end' \in [Streams -> Nat] /\ register' \in [Streams -> Nat]
  BY <1>1, <1>4, Zenon DEF flush
<1>6. /\ endRecord \in 0 .. MaxRecords /\ recordCount \in 0 .. MaxRecords
      /\ error \in {"none", "io", "value", "internal"}
      /\ \A f \in {index, first, rest, fetched, sent} : f \in [Streams -> Nat]
      /\ \A s \in Streams : index[s] <= endRecord
      /\ error = "none" => \A s \in Streams : index[s] = recordCount /\ rest[s] = 0
  BY <1>1, Zenon DEF WriterShape
<1>7. \A f \in {index', register', first', end', rest', fetched', sent'} : f \in [Streams' -> Nat]
  BY <1>1, <1>2, <1>5, <1>6, Zenon
<1> QED
  BY <1>1, <1>2, <1>3, <1>4, <1>6, <1>7, Zenon DEF WriterShape

\* ... so that the later ones find nothing to do.
LEMMA FlushEmpty ==
  ASSUME Shape, pc = "close", flush
  PROVE  UNCHANGED <<end, register>>
<1> WriterShape
  BY Zenon DEF Shape
<1>1. /\ end \in [Streams -> Nat] /\ register \in [Streams -> Nat]
      /\ \A s \in Streams : register[s] = 0
  BY Zenon DEF WriterShape
<1>2. \A s \in Streams : end'[s] = end[s] /\ register'[s] = register[s]
  BY <1>1 DEF flush
<1>3. end' = [s \in Streams |-> end'[s]] /\ register' = [s \in Streams |-> register'[s]]
  BY Zenon DEF flush
<1> QED
  BY <1>1, <1>2, <1>3, Zenon

\* What packetWrite does in close, whether it returns or throws.
LEMMA ClosePacket ==
  ASSUME Shape, CloseSendsPacket \/ CloseFails, Total(outputAvailable) > 0
  PROVE  \E counts \in PacketCounts :
           /\ OutputRead(counts)
           /\ UNCHANGED <<encoders, endRecord, recordCount, index, register, end, rest, fetched>>
           /\ \/ /\ pc' = "close" /\ error' = error
                 /\ sent' = [s \in Streams |-> sent[s] + counts[s]]
              \/ pc' = "closed" /\ error' \in {"io", "internal"} /\ sent' = sent
<1>1. pc = "close" /\ UNCHANGED <<encoders, endRecord, recordCount, index, rest, fetched>>
  BY Zenon DEF CloseSendsPacket, CloseFails, InClose
<1>2. CASE CloseSendsPacket
  <2>1. PICK counts \in PacketCounts :
          \/ PacketStored(counts) /\ flush /\ UNCHANGED pc
          \/ /\ PacketLost(counts, "internal")
             /\ pc' = "closed"
             /\ UNCHANGED <<end, register>>
    BY <1>2, Zenon DEF CloseSendsPacket
  <2>2. UNCHANGED <<end, register>>
    BY <1>1, <2>1, FlushEmpty, Zenon
  <2>3. OutputRead(counts)
    BY <2>1, Zenon DEF PacketStored, PacketLost
  <2>4. \/ /\ pc' = "close" /\ error' = error
           /\ sent' = [s \in Streams |-> sent[s] + counts[s]]
        \/ pc' = "closed" /\ error' \in {"io", "internal"} /\ sent' = sent
    BY <1>1, <2>1, Zenon DEF PacketStored, PacketLost
  <2> QED
    BY <1>1, <2>2, <2>3, <2>4, Zenon
<1>3. CASE CloseFails
  <2>1. ~(Total(outputAvailable) = 0)
    BY AvailableTotal
  <2>2. PICK counts \in PacketCounts : PacketLost(counts, "io")
    BY <1>3, <2>1, Zenon DEF CloseFails
  <2> QED
    BY <1>1, <1>3, <2>2, Zenon DEF CloseFails, PacketLost
<1> QED
  BY <1>2, <1>3, Zenon

\* A packet of close, stored or lost, keeps the shape.
LEMMA ShapeClosePacket ==
  ASSUME Shape, CloseSendsPacket \/ CloseFails, Total(outputAvailable) > 0
  PROVE  Shape'
<1> WriterShape
  BY Zenon DEF Shape
<1> SUFFICES WriterShape'
  BY Zenon DEF Shape
<1>1. PICK counts \in PacketCounts :
        /\ OutputRead(counts)
        /\ UNCHANGED <<encoders, endRecord, recordCount, index, register, end, rest, fetched>>
        /\ \/ /\ pc' = "close" /\ error' = error
              /\ sent' = [s \in Streams |-> sent[s] + counts[s]]
           \/ pc' = "closed" /\ error' \in {"io", "internal"} /\ sent' = sent
  BY ClosePacket, Zenon
<1>2. pc = "close"
  BY Zenon DEF CloseSendsPacket, CloseFails, InClose
<1>3. /\ Streams' = Streams
      /\ encoders' \in Prototypes
      /\ \A f \in {index', register', first', end', rest', fetched'} : f \in [Streams -> Nat]
      /\ \A s \in Streams : EncoderOK(encoders[s], Unchanged(s))'
      /\ [s \in Streams |-> sent[s] + counts[s]] \in [Streams -> Nat]
  BY <1>1, ShapeOutputRead, Zenon
<1>4. /\ endRecord \in 0 .. MaxRecords /\ recordCount \in 0 .. MaxRecords
      /\ error \in {"none", "io", "value", "internal"}
      /\ sent \in [Streams -> Nat]
      /\ \A s \in Streams : index[s] <= endRecord
      /\ error = "none" => \A s \in Streams : index[s] = recordCount /\ rest[s] = 0
      /\ \A s \in Streams : register[s] = 0
  BY <1>2, Zenon DEF WriterShape
<1>5. \A f \in {index', register', first', end', rest', fetched', sent'} : f \in [Streams' -> Nat]
  BY <1>1, <1>3, <1>4, Zenon
<1> QED
  BY <1>1, <1>3, <1>4, <1>5, Zenon DEF WriterShape

\* close comes to its end: nothing is left in the output.
LEMMA ShapeCloseEnds ==
  ASSUME Shape, CloseReturns \/ CloseFails, Total(outputAvailable) = 0
  PROVE  Shape'
<1> WriterShape
  BY Zenon DEF Shape
<1> SUFFICES WriterShape'
  BY Zenon DEF Shape
<1>1. /\ pc = "close" /\ pc' = "closed"
      /\ UNCHANGED <<encoders, endRecord, recordCount, index, register, first, end, rest, fetched,
                     sent>>
      /\ error' \in {error, "io"}
  BY DEF CloseReturns, CloseFails, InClose
<1>2. /\ Streams' = Streams /\ encoders' \in Prototypes
      /\ \A f \in {index, register, first, end, rest, fetched} : f \in [Streams -> Nat]
      /\ \A s \in Streams : EncoderOK(encoders[s], Unchanged(s))'
  BY <1>1, ShapeSameEncoders, Zenon
<1>3. /\ endRecord \in 0 .. MaxRecords /\ recordCount \in 0 .. MaxRecords
      /\ error \in {"none", "io", "value", "internal"}
      /\ sent \in [Streams -> Nat]
      /\ \A s \in Streams : index[s] <= endRecord
      /\ error = "none" => \A s \in Streams : index[s] = recordCount /\ rest[s] = 0
      /\ \A s \in Streams : register[s] = 0
  BY <1>1, Zenon DEF WriterShape
<1>4. \A s \in Streams : first[s] = end[s]
  <2> TAKE s \in Streams
  <2>1. outputAvailable[s] <= 0
    BY AvailableTotal, Zenon
  <2>2. outputAvailable[s] \in 0 .. end[s] /\ outputAvailable[s] = end[s] - first[s]
        /\ first[s] \in 0 .. end[s] /\ end[s] \in 0 .. PacketMax
    BY StreamShape, Zenon
  <2> QED
    BY <2>1, <2>2, Sizes
<1>5. \A f \in {index', register', first', end', rest', fetched', sent'} : f \in [Streams' -> Nat]
  BY <1>1, <1>2, <1>3, Zenon
<1> QED
  BY <1>1, <1>2, <1>3, <1>4, <1>5, Zenon DEF WriterShape

\* A step that changes nothing keeps the shape.
LEMMA ShapeStutter ==
  ASSUME Shape, UNCHANGED vars
  PROVE  Shape'
<1> WriterShape
  BY Zenon DEF Shape
<1> SUFFICES WriterShape'
  BY Zenon DEF Shape
<1>1. UNCHANGED <<encoders, pc, endRecord, recordCount, index, register, first, end, rest,
                  fetched, sent, error>>
  BY Zenon DEF vars
<1>2. /\ Streams' = Streams /\ encoders' \in Prototypes
      /\ \A f \in {index, register, first, end, rest, fetched} : f \in [Streams -> Nat]
      /\ \A s \in Streams : EncoderOK(encoders[s], Unchanged(s))'
      /\ \A s \in Streams : IsString(s)' = IsString(s) /\ HasRoom(s)' = HasRoom(s)
  BY <1>1, ShapeSameEncoders, Zenon
<1>3. \A f \in {index', register', first', end', rest', fetched', sent'} : f \in [Streams' -> Nat]
  BY <1>1, <1>2, Zenon DEF WriterShape
<1> QED
  BY <1>1, <1>2, <1>3, Zenon DEF WriterShape

\* Every step keeps the shape.
LEMMA ShapeStep == Shape /\ [Next]_vars => Shape'
<1> SUFFICES ASSUME Shape, [Next]_vars
             PROVE  Shape'
  BY Zenon
<1>1. CASE \E n \in Requests : write(n)
  BY <1>1, ShapeWrite, Zenon
<1>2. CASE packetWriteZeroRecords
  BY <1>2, ShapeZeroRecords, Zenon
<1>3. CASE WriteReturns
  BY <1>3, ShapeWriteReturns, Zenon
<1>4. CASE WriteSendsPacket \/ WriteFails
  BY <1>4, ShapeWriteSends, Zenon
<1>5. CASE WriteEncodes
  BY <1>5, ShapeWriteEncodes, Zenon
<1>6. CASE WriteRefusesValue
  BY <1>6, ShapeWriteRefusesValue, Zenon
<1>7. CASE close
  BY <1>7, ShapeClose, Zenon
<1>8. CASE CloseStep \/ CloseFails
  <2>1. Total(outputAvailable) \in Nat
    BY AvailableTotal, Zenon
  <2>2. CASE Total(outputAvailable) > 0
    <3>1. CloseSendsPacket \/ CloseFails
      BY <1>8, <2>2 DEF CloseStep, CloseReturns
    <3> QED
      BY <2>2, <3>1, ShapeClosePacket, Zenon
  <2>3. CASE Total(outputAvailable) = 0
    <3>1. CloseReturns \/ CloseFails
      BY <1>8, <2>3 DEF CloseStep, CloseSendsPacket
    <3> QED
      BY <2>3, <3>1, ShapeCloseEnds, Zenon
  <2> QED
    BY <2>1, <2>2, <2>3
<1>9. CASE UNCHANGED vars
  BY <1>9, ShapeStutter, Zenon
<1> QED
  BY <1>1, <1>2, <1>3, <1>4, <1>5, <1>6, <1>7, <1>8, <1>9, Zenon DEF Next, WriteStep
=============================================================================
