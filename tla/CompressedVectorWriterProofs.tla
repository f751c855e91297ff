-------------------- MODULE CompressedVectorWriterProofs --------------------
(***************************************************************************)
(* The theorems about CompressedVectorWriter.  They follow from the shape  *)
(* of the encoders and from three more facts shown here: no bit is lost or *)
(* made twice, the packets stored are such as DataPacket::verify accepts,  *)
(* and a prototype with room above the target size of a packet leaves room *)
(* for the padding.                                                        *)
(***************************************************************************)
EXTENDS CompressedVectorShapeProofs

-----------------------------------------------------------------------------
(* No bit is lost or made twice. *)

\* Whole words take no more bits than there are.
LEMMA WholeWords ==
  ASSUME NEW bits \in Nat, NEW word \in Nat \ {0}
  PROVE  /\ word * ByteBits \in Nat \ {0}
         /\ bits \div (word * ByteBits) \in Nat
         /\ (bits \div (word * ByteBits)) * word \in Nat
         /\ ((bits \div (word * ByteBits)) * word) * ByteBits + (bits % (word * ByteBits)) = bits
         /\ bits % (word * ByteBits) \in Nat
<1>1. word * ByteBits \in Nat \ {0}
  BY Sizes, TimesNat
<1> DEFINE q == bits \div (word * ByteBits)
           r == bits % (word * ByteBits)
<1>2. q \in Nat /\ r \in 0 .. word * ByteBits - 1 /\ bits = q * (word * ByteBits) + r
  BY <1>1, DivMod, Zenon
<1>3. q * word \in Nat
  BY <1>2, TimesNat, Zenon
<1>4. r \in Nat
  BY <1>1, <1>2
<1> HIDE DEF q, r
<1>5. (q * word) * ByteBits = q * (word * ByteBits)
  BY <1>2, Sizes
<1> QED
  BY <1>1, <1>2, <1>3, <1>4, <1>5, Zenon DEF q, r

\* The bits of the records and the bytes made of them are numbers.
LEMMA RecordBits ==
  ASSUME Shape, NEW s \in Streams
  PROVE  index[s] * Bits(s) \in Nat /\ Produced(s) \in Nat /\ sent[s] <= Produced(s)
<1>1. index[s] \in Nat /\ Bits(s) \in Nat
  BY StreamShape
<1>2. sent[s] \in Nat /\ outputAvailable[s] \in Nat
  <2>1. sent[s] \in Nat /\ outputAvailable[s] \in 0 .. end[s] /\ end[s] \in 0 .. PacketMax
    BY StreamShape, Zenon
  <2> QED
    BY <2>1, Sizes
<1> QED
  BY <1>1, <1>2, TimesNat DEF Produced

\* An exact account is within the bound that also holds after a throw.
LEMMA ExactBounded ==
  ASSUME Shape, NEW s \in Streams, Exact(s)
  PROVE  Bounded(s)
<1>1. CASE IsString(s)
  <2>1. Produced(s) \in Nat /\ rest[s] \in Nat /\ fetched[s] \in Nat
    BY RecordBits, StreamShape, Zenon
  <2> QED
    BY <1>1, <2>1 DEF Exact, Bounded
<1>2. CASE ~IsString(s)
  <2> DEFINE bits == index[s] * Bits(s)
  <2>1. bits \in Nat /\ Word(s) \in Nat \ {0} /\ WordBits(s) \in Nat \ {0}
    BY RecordBits, StreamShape, Zenon
  <2>2. CASE pc \in {"idle", "write"}
    <3>1. Produced(s) = (bits \div WordBits(s)) * Word(s)
      BY <1>2, <2>2, Zenon DEF Exact
    <3>2. /\ ((bits \div WordBits(s)) * Word(s)) * ByteBits + (bits % WordBits(s)) = bits
          /\ bits % WordBits(s) \in Nat
          /\ (bits \div WordBits(s)) * Word(s) \in Nat
      BY <2>1, WholeWords, Zenon DEF WordBits
    <3> HIDE DEF bits
    <3>3. Produced(s) * ByteBits <= bits
      <4>1. Produced(s) * ByteBits \in Nat
        BY <3>1, <3>2, Sizes, TimesNat, Zenon
      <4> QED
        BY <2>1, <3>1, <3>2, <4>1
    <3> QED
      BY <1>2, <2>1, <2>2, <3>3 DEF Bounded, bits
  <2>3. CASE ~(pc \in {"idle", "write"})
    <3>1. Produced(s) * ByteBits = RoundUp(bits, WordBits(s))
      BY <1>2, <2>3, Zenon DEF Exact
    <3>2. RoundUp(bits, WordBits(s)) <= bits + (WordBits(s) - 1) /\ RoundUp(bits, WordBits(s)) \in Nat
      BY <2>1, RoundUpBounds, Zenon
    <3> HIDE DEF bits
    <3>3. Produced(s) * ByteBits <= bits + WordBits(s)
      BY <2>1, <3>1, <3>2
    <3> QED
      BY <1>2, <2>3, <3>3, Zenon DEF Bounded, bits
  <2> QED
    BY <2>2, <2>3, Zenon
<1> QED
  BY <1>1, <1>2, Zenon

(***************************************************************************)
(* The state x of an encoder e that has produced p bytes, in write: nothing *)
(* is lost.                                                                *)
(***************************************************************************)
Balanced(e, x, p) ==
  IF e.strings # {} THEN p + x.rest = x.fetched
  ELSE LET bits == x.index * e.bits
           word == e.word * ByteBits
       IN  p = (bits \div word) * e.word /\ x.register = bits % word

\* Exact, said of the state of an encoder as a record.
LEMMA UnchangedBalanced ==
  ASSUME NEW s \in Streams, pc \in {"idle", "write"}
  PROVE  Exact(s) <=> Balanced(encoders[s], Unchanged(s), Produced(s))
BY Zenon DEF Exact, Balanced, Unchanged, IsString, Bits, Word, WordBits

\* processRecords of the bit-packed encoders moves whole words only.
LEMMA PackBitsBalanced ==
  ASSUME Shape, pc = "write", NEW s \in Streams, ~IsString(s), Bits(s) # 0, NEW n \in Nat, Exact(s)
  PROVE  LET x == PackBits(s, n)
         IN  Balanced(encoders[s], x, sent[s] + (x.end - x.first))
<1> DEFINE bits == index[s] * Bits(s)
           q == bits \div WordBits(s)
           c == Count(s, n)
           filled == Filled(s, n)
           words == Words(s, n)
<1>1. /\ bits \in Nat /\ Bits(s) \in Nat /\ Word(s) \in Nat \ {0} /\ WordBits(s) \in Nat \ {0}
      /\ index[s] \in Nat
  BY RecordBits, StreamShape
<1>2. Produced(s) = q * Word(s) /\ register[s] = bits % WordBits(s)
  BY Zenon DEF Exact
<1>3. c \in Nat /\ filled \in Nat /\ words \in Nat /\ words * Word(s) \in Nat
  BY PackBitsFits
<1>4. q \in Nat /\ register[s] \in Nat /\ bits = q * WordBits(s) + register[s]
  <2>1. /\ bits \div WordBits(s) \in Nat /\ bits % WordBits(s) \in 0 .. WordBits(s) - 1
        /\ bits = (bits \div WordBits(s)) * WordBits(s) + (bits % WordBits(s))
    BY <1>1, DivMod, Zenon
  <2> QED
    BY <1>1, <1>2, <2>1
<1>5. filled = register[s] + c * Bits(s) /\ words = filled \div WordBits(s)
  BY Zenon DEF Filled, Words, Count
<1>6. /\ filled % WordBits(s) \in 0 .. WordBits(s) - 1
      /\ filled = words * WordBits(s) + (filled % WordBits(s))
  <2>1. /\ filled % WordBits(s) \in 0 .. WordBits(s) - 1
        /\ filled = (filled \div WordBits(s)) * WordBits(s) + (filled % WordBits(s))
    BY <1>1, <1>3, DivMod, Zenon
  <2> QED
    BY <1>5, <2>1, Zenon
<1>7. (index[s] + c) * Bits(s) = (q + words) * WordBits(s) + (filled % WordBits(s))
  <2> DEFINE f == filled % WordBits(s)
  <2>1. f \in Nat
    BY <1>1, <1>6
  <2>2. (index[s] + c) * Bits(s) = bits + c * Bits(s)
    BY <1>1, <1>3
  <2>3. c * Bits(s) \in Nat /\ q * WordBits(s) \in Nat /\ words * WordBits(s) \in Nat
    BY <1>1, <1>3, <1>4, TimesNat, Zenon
  <2>4. (q + words) * WordBits(s) = q * WordBits(s) + words * WordBits(s)
    BY <1>1, <1>3, <1>4
  <2> HIDE DEF bits, q, c, filled, words, f
  <2>5. bits + c * Bits(s) = q * WordBits(s) + (words * WordBits(s) + f)
    BY <1>4, <1>5, <1>6, <2>1, <2>3 DEF f
  <2> QED
    BY <2>1, <2>2, <2>3, <2>4, <2>5 DEF f
<1>8. /\ ((index[s] + c) * Bits(s)) \div WordBits(s) = q + words
      /\ ((index[s] + c) * Bits(s)) % WordBits(s) = filled % WordBits(s)
  <2>1. q + words \in Nat
    BY <1>3, <1>4
  <2> HIDE DEF q, c, filled, words
  <2>2. /\ ((q + words) * WordBits(s) + (filled % WordBits(s))) \div WordBits(s) = q + words
        /\ ((q + words) * WordBits(s) + (filled % WordBits(s))) % WordBits(s) = filled % WordBits(s)
    BY <1>1, <1>6, <2>1, DivUnique, Zenon
  <2> QED
    BY <1>7, <2>2, Zenon
<1> DEFINE x == PackBits(s, n)
<1>9. /\ x.index = index[s] + c /\ x.register = filled % WordBits(s)
      /\ x.first = ShiftedFirst(s) /\ x.end = ShiftedEnd(s) + words * Word(s)
  BY PackBitsFields, Zenon
<1>10. sent[s] + (x.end - x.first) = (q + words) * Word(s)
  <2>1. /\ ShiftedEnd(s) \in Nat /\ ShiftedFirst(s) \in 0 .. ShiftedEnd(s)
        /\ ShiftedEnd(s) - ShiftedFirst(s) = outputAvailable[s]
    BY ShiftedOutput, Zenon
  <2>2. sent[s] \in Nat
    BY StreamShape, Zenon
  <2>3. q * Word(s) \in Nat
    BY <1>1, <1>4, TimesNat, Zenon
  <2>4. (q + words) * Word(s) = q * Word(s) + words * Word(s)
    BY <1>1, <1>3, <1>4
  <2>5. sent[s] + outputAvailable[s] = q * Word(s)
    BY <1>2, Zenon DEF Produced
  <2> HIDE DEF q, words, x
  <2> QED
    BY <1>3, <1>9, <2>1, <2>2, <2>3, <2>4, <2>5
<1> HIDE DEF q, c, filled, words, x
<1>11. /\ sent[s] + (x.end - x.first)
            = ((x.index * encoders[s].bits) \div (encoders[s].word * ByteBits)) * encoders[s].word
       /\ x.register = (x.index * encoders[s].bits) % (encoders[s].word * ByteBits)
  BY <1>8, <1>9, <1>10, Zenon DEF Bits, Word, WordBits
<1> QED
  BY <1>11, Zenon DEF Balanced, IsString, x

\* What an iteration makes of an encoder accounts for its records.
LEMMA IteratedBalanced ==
  ASSUME Shape, pc = "write", NEW s \in Streams, NEW length \in Nat, Exact(s)
  PROVE  LET x == Iterated(s, length)
         IN  Balanced(encoders[s], x, sent[s] + (x.end - x.first))
<1>1. CASE ~(index[s] < endRecord)
  <2>1. Iterated(s, length) = Unchanged(s)
    BY <1>1, Zenon DEF Iterated
  <2>2. Balanced(encoders[s], Unchanged(s), Produced(s))
    BY UnchangedBalanced, Zenon
  <2>3. Produced(s) = sent[s] + (Unchanged(s).end - Unchanged(s).first)
    BY Zenon DEF Produced, Unchanged, outputAvailable
  <2> QED
    BY <2>1, <2>2, <2>3, Zenon
<1>2. CASE index[s] < endRecord
  <2>1. Iterated(s, length) = Processed(s, Asked(s), length) /\ Asked(s) \in Nat
    BY <1>2, AskedBounds, Zenon DEF Iterated
  <2>2. CASE IsString(s)
    <3> DEFINE x == PackString(s, length)
    <3>1. x = Iterated(s, length)
      BY <2>1, <2>2, Zenon DEF Processed
    <3>2. /\ (x.end - x.first) + x.rest + fetched[s] = outputAvailable[s] + rest[s] + x.fetched
          /\ EncoderOK(encoders[s], x)
      BY <2>2, PackStringOK, Zenon
    <3>3. /\ x.end \in 0 .. PacketMax /\ x.first \in 0 .. x.end /\ x.rest \in Nat /\ x.fetched \in Nat
      BY <3>2, Zenon DEF EncoderOK
    <3>4. sent[s] + outputAvailable[s] + rest[s] = fetched[s]
      BY <2>2, Zenon DEF Exact, Produced
    <3>5. sent[s] \in Nat /\ outputAvailable[s] \in 0 .. end[s] /\ end[s] \in 0 .. PacketMax
          /\ rest[s] \in Nat /\ fetched[s] \in Nat
      BY StreamShape, Zenon
    <3> HIDE DEF x
    <3> DEFINE d == x.end - x.first
    <3>6. d \in Int /\ x.rest \in Int /\ x.fetched \in Int
      BY <3>3, Sizes
    <3>7. sent[s] \in Int /\ outputAvailable[s] \in Int /\ rest[s] \in Int /\ fetched[s] \in Int
      BY <3>5, Sizes
    <3>8. PICK r1 \in Int, f1 \in Int : r1 = x.rest /\ f1 = x.fetched
      BY <3>6, Zenon
    <3>9. d + r1 + fetched[s] = outputAvailable[s] + rest[s] + f1
      BY <3>2, <3>8, Zenon
    <3> HIDE DEF d
    <3>10. sent[s] + d + r1 = f1
      BY <3>4, <3>6, <3>7, <3>9
    <3> QED
      BY <2>2, <3>1, <3>8, <3>10, Zenon DEF Balanced, IsString, d
  <2>3. CASE ~IsString(s) /\ Bits(s) = 0
    <3> DEFINE x == [Unchanged(s) EXCEPT !.index = @ + Asked(s)]
    <3>1. x = Iterated(s, length)
      BY <2>1, <2>3, Zenon DEF Processed
    <3>2. /\ x.index = index[s] + Asked(s) /\ x.register = register[s]
          /\ x.end - x.first = outputAvailable[s]
      BY Zenon DEF Unchanged, outputAvailable
    <3> HIDE DEF x
    <3>3. index[s] \in Nat
      BY StreamShape
    <3>4. x.index * encoders[s].bits = index[s] * Bits(s)
      BY <2>1, <2>3, <3>2, <3>3 DEF Bits
    <3>5. /\ Produced(s) = ((index[s] * Bits(s)) \div WordBits(s)) * Word(s)
          /\ register[s] = (index[s] * Bits(s)) % WordBits(s)
      BY <2>3, Zenon DEF Exact
    <3>6. sent[s] + (x.end - x.first) = Produced(s)
      BY <3>2, Zenon DEF Produced
    <3>7. Balanced(encoders[s], x, Produced(s))
      BY <2>3, <3>2, <3>4, <3>5, Zenon DEF Balanced, IsString, Word, WordBits
    <3> QED
      BY <3>1, <3>6, <3>7, Zenon
  <2>4. CASE ~IsString(s) /\ Bits(s) # 0
    <3>1. Iterated(s, length) = PackBits(s, Asked(s))
      BY <2>1, <2>4, Zenon DEF Processed
    <3> QED
      BY <2>1, <2>4, <3>1, PackBitsBalanced, Zenon
  <2> QED
    BY <2>2, <2>3, <2>4, Zenon
<1> QED
  BY <1>1, <1>2, Zenon

-----------------------------------------------------------------------------
(* The account. *)

\* Bytes that move from outBuffer_ to a packet do not change the account.
LEMMA ExactKept ==
  ASSUME NEW s \in Streams, UNCHANGED <<encoders, index, register, rest, fetched>>,
         Produced(s)' = Produced(s), Packing' <=> Packing, Exact(s)
  PROVE  Exact(s)'
BY Zenon DEF Exact, Packing, IsString, Bits, Word, WordBits

\* Losing bytes keeps the bound.
LEMMA BoundedKept ==
  ASSUME Shape, NEW s \in Streams, UNCHANGED <<encoders, index, rest, fetched>>,
         Produced(s)' \in Nat, Produced(s)' <= Produced(s), Packing' <=> Packing, Bounded(s)
  PROVE  Bounded(s)'
<1>1. /\ Produced(s) \in Nat /\ rest[s] \in Nat /\ fetched[s] \in Nat
      /\ index[s] * Bits(s) \in Nat /\ WordBits(s) \in Nat
  BY RecordBits, StreamShape, Zenon
<1>2. IsString(s)' = IsString(s) /\ Bits(s)' = Bits(s) /\ WordBits(s)' = WordBits(s)
  BY Zenon DEF IsString, Bits, Word, WordBits
<1>3. CASE IsString(s)
  <2>1. Produced(s) + rest[s] <= fetched[s]
    BY <1>3, Zenon DEF Bounded
  <2>2. Produced(s)' + rest[s] <= fetched[s]
    BY <1>1, <2>1
  <2> QED
    BY <1>2, <1>3, <2>2, Zenon DEF Bounded
<1>4. CASE ~IsString(s)
  <2> DEFINE slack == IF Packing THEN 0 ELSE WordBits(s)
  <2>1. slack \in Nat
    BY <1>1, Zenon
  <2>2. Produced(s) * ByteBits <= index[s] * Bits(s) + slack
    BY <1>4, Zenon DEF Bounded, Packing
  <2>3. Produced(s)' * ByteBits <= Produced(s) * ByteBits
    BY <1>1, Sizes, TimesMonotonic, Zenon
  <2>4. Produced(s)' * ByteBits \in Nat /\ Produced(s) * ByteBits \in Nat
    BY <1>1, Sizes, TimesNat, Zenon
  <2> HIDE DEF slack
  <2>5. Produced(s)' * ByteBits <= index[s] * Bits(s) + slack
    BY <1>1, <2>1, <2>2, <2>3, <2>4
  <2> QED
    BY <1>2, <1>4, <2>5, Zenon DEF Bounded, Packing, slack
<1> QED
  BY <1>3, <1>4, Zenon

\* A new writer has nothing to account for.
LEMMA AccountedInit == Init => Accounted
<1> SUFFICES ASSUME Init, NEW s \in Streams
             PROVE  (error = "none" => Exact(s)) /\ Bounded(s)
  BY Zenon DEF Accounted
<1>1. Shape
  BY ShapeInit, Zenon
<1>2. Produced(s) = 0
  BY DEF Init, Produced, outputAvailable
<1>3. Exact(s)
  <2>1. CASE IsString(s)
    BY <1>2, <2>1 DEF Exact, Init
  <2>2. CASE ~IsString(s)
    <3>1. Bits(s) \in Nat /\ Word(s) \in Nat \ {0} /\ WordBits(s) \in Nat \ {0}
      BY <1>1, StreamShape, Zenon
    <3>2. index[s] * Bits(s) = 0 /\ register[s] = 0 /\ pc = "idle"
      BY <3>1 DEF Init
    <3>3. 0 \div WordBits(s) = 0 /\ 0 % WordBits(s) = 0 /\ 0 * Word(s) = 0
      BY <3>1, DivMod
    <3> QED
      BY <1>2, <2>2, <3>2, <3>3, Zenon DEF Exact
  <2> QED
    BY <2>1, <2>2, Zenon
<1> QED
  BY <1>1, <1>3, ExactBounded, Zenon

\* Steps that leave the encoders and the packets alone.
LEMMA AccountedSame ==
  ASSUME Shape, Accounted,
         UNCHANGED <<encoders, index, register, first, end, rest, fetched, sent>>,
         Packing' <=> Packing, error' = "none" => error = "none"
  PROVE  Accounted'
<1> SUFFICES ASSUME NEW s \in Streams
             PROVE  (error' = "none" => Exact(s)') /\ Bounded(s)'
  BY Zenon DEF Accounted, Streams
<1>1. Produced(s)' = Produced(s) /\ Produced(s) \in Nat
  BY RecordBits, Zenon DEF Produced, outputAvailable, Streams
<1>2. (error = "none" => Exact(s)) /\ Bounded(s)
  BY Zenon DEF Accounted
<1>3. error' = "none" => Exact(s)'
  BY <1>1, <1>2, ExactKept, Zenon
<1>4. Bounded(s)'
  BY <1>1, <1>2, BoundedKept
<1> QED
  BY <1>3, <1>4, Zenon

\* What leaves the output arrives in a packet, or is lost with an exception.
LEMMA AccountedSends ==
  ASSUME Shape, Accounted, NEW counts \in PacketCounts, OutputRead(counts),
         UNCHANGED <<encoders, index, register, end, rest, fetched>>,
         Packing' <=> Packing,
         \/ error' = error /\ sent' = [s \in Streams |-> sent[s] + counts[s]]
         \/ error' # "none" /\ sent' = sent
  PROVE  Accounted'
<1> SUFFICES ASSUME NEW s \in Streams
             PROVE  (error' = "none" => Exact(s)') /\ Bounded(s)'
  BY Zenon DEF Accounted, Streams
<1>1. /\ counts[s] \in Nat /\ counts[s] <= outputAvailable[s]
  BY CountsBounds, Zenon
<1>2. /\ sent[s] \in Nat /\ first[s] \in 0 .. end[s] /\ end[s] \in Nat
      /\ outputAvailable[s] = end[s] - first[s]
  BY StreamShape, Sizes
<1>3. /\ Produced(s) = sent[s] + (end[s] - first[s])
      /\ Produced(s)' = sent'[s] + (end[s] - (first[s] + counts[s]))
  BY Zenon DEF Produced, outputAvailable, OutputRead, Streams
<1>4. (error = "none" => Exact(s)) /\ Bounded(s)
  BY Zenon DEF Accounted
<1>5. CASE error' = error /\ sent' = [t \in Streams |-> sent[t] + counts[t]]
  <2>1. sent'[s] = sent[s] + counts[s]
    BY <1>5, Zenon
  <2>2. Produced(s)' = Produced(s) /\ Produced(s) \in Nat
    BY <1>1, <1>2, <1>3, <2>1
  <2>3. error' = "none" => Exact(s)'
    BY <1>4, <1>5, <2>2, ExactKept, Zenon
  <2>4. Bounded(s)'
    BY <1>4, <2>2, BoundedKept
  <2> QED
    BY <2>3, <2>4, Zenon
<1>6. CASE error' # "none" /\ sent' = sent
  <2>1. Produced(s)' \in Nat /\ Produced(s)' <= Produced(s)
    BY <1>1, <1>2, <1>3, <1>6
  <2>2. Bounded(s)'
    BY <1>4, <2>1, BoundedKept, Zenon
  <2> QED
    BY <1>6, <2>2, Zenon
<1> QED
  BY <1>5, <1>6, Zenon

\* Encoders that account for their records do so once they are the state.
LEMMA BecomesExact ==
  ASSUME NEW e, Becomes(e), UNCHANGED <<encoders, sent>>, Packing', NEW s \in Streams,
         Balanced(encoders[s], e[s], sent[s] + (e[s].end - e[s].first))
  PROVE  Exact(s)'
<1>1. /\ index'[s] = e[s].index /\ register'[s] = e[s].register /\ rest'[s] = e[s].rest
      /\ fetched'[s] = e[s].fetched
      /\ end'[s] = e[s].end /\ first'[s] = e[s].first
  BY Zenon DEF Becomes
<1>2. Produced(s)' = sent[s] + (e[s].end - e[s].first)
  BY <1>1, Zenon DEF Produced, outputAvailable, Streams
<1>3. /\ IsString(s)' = (encoders[s].strings # {}) /\ Bits(s)' = encoders[s].bits
      /\ Word(s)' = encoders[s].word /\ WordBits(s)' = encoders[s].word * ByteBits
  BY Zenon DEF IsString, Bits, Word, WordBits
<1> QED
  BY <1>1, <1>2, <1>3, Zenon DEF Exact, Balanced, Packing

\* ExactBounded as an implication between state predicates.
LEMMA ExactBoundedAlways == Shape => \A s \in Streams : Exact(s) => Bounded(s)
BY ExactBounded, Zenon

\* An iteration keeps the account.
LEMMA AccountedWriteEncodes ==
  ASSUME Shape, Accounted, WriteEncodes
  PROVE  Accounted'
<1> WriterShape
  BY Zenon DEF Shape
<1>1. PICK length \in NextStrings : Becomes([s \in Streams |-> Iterated(s, length[s])])
  BY Zenon DEF WriteEncodes
<1>2. pc = "write" /\ pc' = "write" /\ UNCHANGED <<encoders, sent, error>>
  BY Zenon DEF WriteEncodes, Encodes, InWrite
<1>3. error = "none"
  BY <1>2, Zenon DEF WriterShape
<1> DEFINE e == [s \in Streams |-> Iterated(s, length[s])]
<1>4. ASSUME NEW s \in Streams PROVE Exact(s)'
  <2>1. length[s] \in Nat
    BY NextStringsNat, Zenon
  <2>2. Exact(s)
    BY <1>3, Zenon DEF Accounted
  <2>3. e[s] = Iterated(s, length[s])
    BY Zenon
  <2>4. Balanced(encoders[s], Iterated(s, length[s]),
                 sent[s] + (Iterated(s, length[s]).end - Iterated(s, length[s]).first))
    BY <1>2, <2>1, <2>2, IteratedBalanced, Zenon
  <2>5. Becomes(e) /\ Packing'
    BY <1>1, <1>2, Zenon DEF Packing
  <2> HIDE DEF e
  <2> QED
    BY <1>2, <2>3, <2>4, <2>5, BecomesExact
<1>5. Shape'
  BY ShapeWriteEncodes, Zenon
<1>6. (\A s \in Streams : Exact(s) => Bounded(s))'
  BY <1>5, ExactBoundedAlways, PTL
<1>7. Streams' = Streams
  BY <1>2, Zenon DEF Streams
<1> QED
  BY <1>4, <1>6, <1>7, Zenon DEF Accounted

\* A refused value keeps the bound: the bits of its iteration are lost.
LEMMA AccountedWriteRefusesValue ==
  ASSUME Shape, Accounted, WriteRefusesValue
  PROVE  Accounted'
<1> WriterShape
  BY Zenon DEF Shape
<1>0. PICK k \in Streams :
        \E length \in NextStrings : \E j \in 0 .. Tried(k) - 1 :
          Becomes([s \in Streams |-> IF s < k THEN Iterated(s, length[s])
                                    ELSE IF s = k THEN Refused(s, j)
                                    ELSE Unchanged(s)])
  BY Zenon DEF WriteRefusesValue
<1>1. PICK length \in NextStrings, j \in 0 .. Tried(k) - 1 :
        Becomes([s \in Streams |-> IF s < k THEN Iterated(s, length[s])
                                  ELSE IF s = k THEN Refused(s, j)
                                  ELSE Unchanged(s)])
  BY <1>0, Zenon
<1> DEFINE e == [s \in Streams |-> IF s < k THEN Iterated(s, length[s])
                                   ELSE IF s = k THEN Refused(s, j)
                                   ELSE Unchanged(s)]
<1>2. pc = "write" /\ pc' = "idle" /\ error' = "value" /\ UNCHANGED <<encoders, sent>>
  BY Zenon DEF WriteRefusesValue, Encodes, InWrite
<1>3. error = "none" /\ Packing /\ Packing'
  BY <1>2, Zenon DEF WriterShape, Packing
<1>4. Shape' /\ Streams' = Streams
  BY <1>2, ShapeWriteRefusesValue, Zenon DEF Streams
<1>5. (\A s \in Streams : Exact(s) => Bounded(s))'
  BY <1>4, ExactBoundedAlways, PTL
<1>6. Becomes(e)
  BY <1>1, Zenon
<1>7. ASSUME NEW s \in Streams PROVE Bounded(s)'
  <2>1. Exact(s) /\ Bounded(s)
    BY <1>3, Zenon DEF Accounted
  <2>2. CASE s < k
    <3>1. e[s] = Iterated(s, length[s])
      BY <2>2, Zenon
    <3>2. length[s] \in Nat
      BY NextStringsNat, Zenon
    <3>3. Balanced(encoders[s], Iterated(s, length[s]),
                   sent[s] + (Iterated(s, length[s]).end - Iterated(s, length[s]).first))
      BY <1>2, <2>1, <3>2, IteratedBalanced, Zenon
    <3> HIDE DEF e
    <3>4. Exact(s)'
      BY <1>2, <1>3, <1>6, <3>1, <3>3, BecomesExact
    <3> QED
      BY <1>4, <1>5, <3>4, Zenon
  <2>3. CASE ~(s < k)
    <3>1. /\ e[s].index = index[s] /\ e[s].rest = rest[s] /\ e[s].fetched = fetched[s]
          /\ e[s].end - e[s].first = outputAvailable[s]
      <4>1. CASE s = k
        <5>1. e[s] = Refused(s, j)
          BY <2>3, <4>1, Zenon
        <5>2. Refused(s, j).end - Refused(s, j).first = outputAvailable[s]
          BY <4>1, RefusedString, RefusedOK, Zenon
        <5>3. /\ Refused(s, j).index = index[s] /\ Refused(s, j).rest = rest[s]
              /\ Refused(s, j).fetched = fetched[s]
          BY Zenon DEF Refused, Unchanged
        <5> QED
          BY <5>1, <5>2, <5>3, Zenon
      <4>2. CASE s # k
        <5>1. e[s] = Unchanged(s)
          BY <2>3, <4>2, Zenon
        <5> QED
          BY <5>1 DEF Unchanged, outputAvailable
      <4> QED
        BY <4>1, <4>2, Zenon
    <3> HIDE DEF e
    <3>2. /\ index'[s] = index[s] /\ rest'[s] = rest[s] /\ fetched'[s] = fetched[s]
          /\ end'[s] - first'[s] = outputAvailable[s]
      BY <1>6, <3>1, Zenon DEF Becomes
    <3>3. Produced(s)' = Produced(s)
      BY <1>2, <3>2, Zenon DEF Produced, outputAvailable, Streams
    <3>4. IsString(s)' = IsString(s) /\ Bits(s)' = Bits(s)
      BY <1>2, Zenon DEF IsString, Bits
    <3> QED
      BY <1>3, <2>1, <3>2, <3>3, <3>4 DEF Bounded, Packing
  <2> QED
    BY <2>2, <2>3, Zenon
<1> QED
  BY <1>2, <1>4, <1>7, Zenon DEF Accounted

\* The word that close flushes is the last one that the records need.
LEMMA AccountedClose ==
  ASSUME Shape, Accounted, close
  PROVE  Accounted'
<1> WriterShape
  BY Zenon DEF Shape
<1>1. /\ pc = "idle" /\ pc' = "close" /\ flush
      /\ UNCHANGED <<encoders, index, first, rest, fetched, sent, error>>
  BY Zenon DEF close
<1>2. Streams' = Streams /\ Shape'
  BY <1>1, ShapeClose, Zenon DEF Streams
<1> SUFFICES ASSUME NEW s \in Streams
             PROVE  (error' = "none" => Exact(s)') /\ Bounded(s)'
  BY <1>2, Zenon DEF Accounted
<1>3. /\ IsString(s)' = IsString(s) /\ Bits(s)' = Bits(s)
      /\ Word(s)' = Word(s) /\ WordBits(s)' = WordBits(s)
  BY <1>1, Zenon DEF IsString, Bits, Word, WordBits
<1>4. (error = "none" => Exact(s)) /\ Bounded(s)
  BY Zenon DEF Accounted
<1>5. /\ register[s] \in 0 .. WordBits(s) - 1 /\ (IsString(s) => register[s] = 0)
      /\ Word(s) \in Nat \ {0} /\ WordBits(s) \in Nat \ {0}
      /\ sent[s] \in Nat /\ first[s] \in 0 .. end[s] /\ end[s] \in Nat
      /\ rest[s] \in Nat /\ fetched[s] \in Nat
      /\ Produced(s) \in Nat /\ index[s] * Bits(s) \in Nat
  BY StreamShape, RecordBits, Sizes
<1>6. register[s] > 0 => HasRoom(s)
  BY <1>1, <1>5 DEF WriterShape
<1>7. end'[s] = IF register[s] > 0 THEN end[s] + Word(s) ELSE end[s]
  <2>1. end'[s] = IF register[s] > 0 /\ HasRoom(s) THEN end[s] + Word(s) ELSE end[s]
    BY <1>1, Zenon DEF flush
  <2> QED
    BY <1>6, <2>1, Zenon
<1>8. Produced(s)' = IF register[s] > 0 THEN Produced(s) + Word(s) ELSE Produced(s)
  <2>1. Produced(s)' = sent[s] + (end'[s] - first[s]) /\ Produced(s) = sent[s] + (end[s] - first[s])
    BY <1>1, Zenon DEF Produced, outputAvailable, Streams
  <2> QED
    BY <1>5, <1>7, <2>1
<1>9. CASE IsString(s)
  <2>1. Produced(s)' = Produced(s)
    BY <1>5, <1>8, <1>9
  <2> QED
    BY <1>1, <1>3, <1>4, <1>9, <2>1, Zenon DEF Exact, Bounded
<1>10. CASE ~IsString(s)
  <2> DEFINE bits == index[s] * Bits(s)
             q == bits \div WordBits(s)
  <2>1. error' = "none" => Exact(s)'
    <3> SUFFICES ASSUME error' = "none" PROVE Exact(s)'
      BY Zenon
    <3>1. Produced(s) = q * Word(s) /\ register[s] = bits % WordBits(s)
      BY <1>1, <1>4, <1>10, Zenon DEF Exact
    <3>2. q \in Nat /\ bits = q * WordBits(s) + (bits % WordBits(s))
      BY <1>5, DivMod, Zenon
    <3> HIDE DEF q, bits
    <3>3. RoundUp(bits, WordBits(s)) = (IF register[s] = 0 THEN q ELSE q + 1) * WordBits(s)
      <4>1. RoundUp(q * WordBits(s) + register[s], WordBits(s))
              = (IF register[s] = 0 THEN q ELSE q + 1) * WordBits(s)
        BY <1>5, <3>2, RoundUpExact, Zenon
      <4> QED
        BY <3>1, <3>2, <4>1, Zenon
    <3>4. Produced(s)' = (IF register[s] = 0 THEN q ELSE q + 1) * Word(s)
      <4>1. (q + 1) * Word(s) = q * Word(s) + Word(s)
        BY <1>5, <3>2
      <4>2. register[s] \in Nat
        BY <1>5
      <4> QED
        BY <1>8, <3>1, <4>1, <4>2
    <3> DEFINE n == IF register[s] = 0 THEN q ELSE q + 1
    <3>5. n \in Nat
      BY <3>2
    <3> HIDE DEF n
    <3>6. (n * Word(s)) * ByteBits = n * WordBits(s)
      BY <1>5, <3>5, Sizes DEF WordBits
    <3>7. Produced(s)' * ByteBits = RoundUp(bits, WordBits(s))
      BY <3>3, <3>4, <3>6, Zenon DEF n
    <3> QED
      BY <1>1, <1>3, <1>10, <3>7, Zenon DEF Exact, bits
  <2>2. Bounded(s)'
    <3>1. Produced(s) * ByteBits <= bits
      BY <1>1, <1>4, <1>5, <1>10 DEF Bounded
    <3> HIDE DEF bits
    <3>2. bits \in Nat
      BY <1>5, Zenon DEF bits
    <3>3. Produced(s)' \in Nat /\ Produced(s)' <= Produced(s) + Word(s)
      BY <1>5, <1>8
    <3>4. Produced(s)' * ByteBits <= (Produced(s) + Word(s)) * ByteBits
      BY <1>5, <3>3, Sizes, TimesMonotonic
    <3>5. (Produced(s) + Word(s)) * ByteBits = Produced(s) * ByteBits + WordBits(s)
      BY <1>5, Sizes DEF WordBits
    <3>6. Produced(s)' * ByteBits \in Nat /\ Produced(s) * ByteBits \in Nat
      BY <1>5, <3>3, Sizes, TimesNat, Zenon
    <3>7. Produced(s)' * ByteBits <= bits + WordBits(s)
      BY <1>5, <3>1, <3>2, <3>4, <3>5, <3>6
    <3> QED
      BY <1>1, <1>3, <1>10, <3>7, Zenon DEF Bounded, bits
  <2> QED
    BY <2>1, <2>2, Zenon
<1> QED
  BY <1>9, <1>10, Zenon

\* Every step keeps the account.
LEMMA AccountedStep == Shape /\ Accounted /\ [Next]_vars => Accounted'
<1> SUFFICES ASSUME Shape, Accounted, [Next]_vars
             PROVE  Accounted'
  BY Zenon
<1>1. CASE \/ \E n \in Requests : write(n)
           \/ packetWriteZeroRecords
           \/ WriteReturns
           \/ UNCHANGED vars
  <2>1. /\ UNCHANGED <<encoders, index, register, first, end, rest, fetched, sent>>
        /\ Packing' <=> Packing
        /\ error' = "none" => error = "none"
    BY <1>1, Zenon DEF write, packetWriteZeroRecords, WriteReturns, InWrite, vars, Packing
  <2> QED
    BY <2>1, AccountedSame, Zenon
<1>2. CASE WriteSendsPacket \/ WriteFails
  <2>1. PICK counts \in PacketCounts :
          /\ OutputRead(counts)
          /\ \/ error' = error /\ sent' = [s \in Streams |-> sent[s] + counts[s]]
             \/ error' # "none" /\ sent' = sent
    BY <1>2, Zenon DEF WriteSendsPacket, WriteFails, PacketStored, PacketLost
  <2>2. /\ UNCHANGED <<encoders, index, register, end, rest, fetched>>
        /\ Packing' <=> Packing
    BY <1>2, Zenon DEF WriteSendsPacket, WriteFails, Sends, InWrite, Packing
  <2> QED
    BY <2>1, <2>2, AccountedSends, Zenon
<1>3. CASE WriteEncodes
  BY <1>3, AccountedWriteEncodes, Zenon
<1>4. CASE WriteRefusesValue
  BY <1>4, AccountedWriteRefusesValue, Zenon
<1>5. CASE close
  BY <1>5, AccountedClose, Zenon
<1>6. CASE CloseStep \/ CloseFails
  <2>1. Total(outputAvailable) \in Nat
    BY AvailableTotal, Zenon
  <2>2. CASE Total(outputAvailable) > 0
    <3>1. CloseSendsPacket \/ CloseFails
      BY <1>6, <2>2 DEF CloseStep, CloseReturns
    <3>2. PICK counts \in PacketCounts :
            /\ OutputRead(counts)
            /\ UNCHANGED <<encoders, endRecord, recordCount, index, register, end, rest, fetched>>
            /\ \/ /\ pc' = "close" /\ error' = error
                  /\ sent' = [s \in Streams |-> sent[s] + counts[s]]
               \/ pc' = "closed" /\ error' \in {"io", "internal"} /\ sent' = sent
      BY <2>2, <3>1, ClosePacket, Zenon
    <3>3. pc = "close"
      BY <3>1, Zenon DEF CloseSendsPacket, CloseFails, InClose
    <3>4. Packing' <=> Packing
      BY <3>2, <3>3, Zenon DEF Packing
    <3>5. \/ error' = error /\ sent' = [s \in Streams |-> sent[s] + counts[s]]
          \/ error' # "none" /\ sent' = sent
      BY <3>2, Zenon
    <3> QED
      BY <3>2, <3>4, <3>5, AccountedSends, Zenon
  <2>3. CASE Total(outputAvailable) = 0
    <3>1. CloseReturns \/ CloseFails
      BY <1>6, <2>3 DEF CloseStep, CloseSendsPacket
    <3>2. /\ UNCHANGED <<encoders, index, register, first, end, rest, fetched, sent>>
          /\ Packing' <=> Packing
          /\ error' = "none" => error = "none"
      BY <2>3, <3>1 DEF CloseReturns, CloseFails, InClose, Packing
    <3> QED
      BY <3>2, AccountedSame, Zenon
  <2> QED
    BY <2>1, <2>2, <2>3
<1> QED
  BY <1>1, <1>2, <1>3, <1>4, <1>5, <1>6, Zenon DEF Next, WriteStep

-----------------------------------------------------------------------------
(* Packets. *)

\* Padding to a multiple of 4 adds at most 3 bytes.
LEMMA PaddedBounds ==
  ASSUME NEW u \in Nat, NEW most \in Nat, most % 4 = 0, u <= most
  PROVE  /\ RoundUp(u, 4) \in Nat
         /\ RoundUp(u, 4) <= most
         /\ RoundUp(u, 4) % 4 = 0
         /\ RoundUp(u, 4) - u \in 0 .. 3
<1>1. 4 \in Nat \ {0}
  OBVIOUS
<1>2. /\ RoundUp(u, 4) \in Nat /\ RoundUp(u, 4) % 4 = 0
      /\ u <= RoundUp(u, 4) /\ RoundUp(u, 4) <= u + (4 - 1)
  BY <1>1, RoundUpBounds, Zenon
<1>3. RoundUp(u, 4) <= most
  BY <1>1, RoundUpLeast, Zenon
<1> QED
  BY <1>2, <1>3

\* What packetWrite takes fits in a packet.
LEMMA UnpaddedBounds ==
  ASSUME Shape, NEW counts \in PacketCounts
  PROVE  /\ UnpaddedLength(counts) \in Nat
         /\ UnpaddedLength(counts) = Overhead + Total(counts)
         /\ UnpaddedLength(counts) < PacketMax
<1> WriterShape
  BY Zenon DEF Shape
<1>1. DOMAIN counts = Streams /\ Total(counts) \in Nat /\ Total(counts) < PacketMaxPayload
  BY CountsBounds, Zenon
<1>2. Len(encoders) \in Nat /\ Streams = 1 .. Len(encoders)
  BY StreamCount, Zenon DEF WriterShape, Streams
<1>3. Len(counts) = Len(encoders)
  BY <1>1, <1>2
<1>4. Overhead \in Nat /\ PacketMaxPayload \in Nat /\ PacketMaxPayload + Overhead = PacketMax
  BY OverheadBounds, Zenon
<1>5. UnpaddedLength(counts) = Overhead + Total(counts)
  BY <1>3, Zenon DEF UnpaddedLength, Overhead
<1> QED
  BY <1>1, <1>4, <1>5

\* The packet of write( 0 ) has its header only.
LEMMA EmptyPacketBounds ==
  ASSUME Shape
  PROVE  UnpaddedLength(<<>>) \in Nat /\ UnpaddedLength(<<>>) < PacketMax
<1> WriterShape
  BY Zenon DEF Shape
<1>1. Len(<<>>) = 0
  BY Zenon
<1>2. Total(<<>>) = 0
  BY <1>1, SumZero, Zenon DEF Total
<1>3. UnpaddedLength(<<>>) = HeaderSize
  BY <1>1, <1>2, Sizes DEF UnpaddedLength
<1>4. encoders \in Prototypes
  BY Zenon DEF WriterShape
<1>5. /\ Len(encoders) \in Nat /\ HeaderSize + Len(encoders) * LengthSize < Target
      /\ Target \in Nat /\ Target < PacketMax
  BY <1>4, StreamCount, Zenon
<1>6. Len(encoders) * LengthSize \in Nat
  BY <1>5, Sizes, TimesNat, Zenon
<1> QED
  BY <1>3, <1>5, <1>6, Sizes

\* The packets a step may store.
LEMMA PacketStep ==
  ASSUME [Next]_vars
  PROVE  \/ packet' = packet
         \/ \E counts \in PacketCounts \cup {<<>>} :
              packet' = [length |-> PaddedLength(counts), counts |-> counts]
<1>1. CASE WriteSendsPacket \/ WriteFails \/ CloseSendsPacket \/ CloseFails
  BY <1>1, Zenon DEF WriteSendsPacket, WriteFails, CloseSendsPacket, CloseFails, PacketStored, PacketLost
<1>2. CASE packetWriteZeroRecords
  BY <1>2, Zenon DEF packetWriteZeroRecords
<1>3. CASE \/ \E n \in Requests : write(n)
           \/ WriteReturns \/ WriteEncodes \/ WriteRefusesValue \/ close \/ CloseReturns
           \/ UNCHANGED vars
  BY <1>3, Zenon DEF write, WriteReturns, WriteEncodes, WriteRefusesValue, close, CloseReturns, vars
<1> QED
  BY <1>1, <1>2, <1>3, Zenon DEF Next, WriteStep, CloseStep

\* Every step keeps PacketsVerify.
LEMMA PacketsVerifyStep == Shape /\ PacketsVerify /\ [Next]_vars => PacketsVerify'
<1> SUFFICES ASSUME Shape, PacketsVerify, [Next]_vars
             PROVE  PacketsVerify'
  BY Zenon
<1>1. CASE packet' = packet
  BY <1>1, Zenon DEF PacketsVerify
<1>2. ASSUME NEW counts \in PacketCounts \cup {<<>>},
             packet' = [length |-> PaddedLength(counts), counts |-> counts]
      PROVE  PacketsVerify'
  <2>1. UnpaddedLength(counts) \in Nat /\ UnpaddedLength(counts) < PacketMax
    BY UnpaddedBounds, EmptyPacketBounds, Zenon
  <2>2. PacketMax \in Nat /\ PacketMax % 4 = 0
    BY Sizes, Zenon
  <2>3. /\ PaddedLength(counts) <= PacketMax
        /\ PaddedLength(counts) % 4 = 0
        /\ PaddedLength(counts) - UnpaddedLength(counts) \in 0 .. 3
    BY <2>1, <2>2, PaddedBounds DEF PaddedLength
  <2>4. packet'.length = PaddedLength(counts) /\ packet'.counts = counts
    BY <1>2, Zenon
  <2>5. UnpaddedLength(packet.counts)' = UnpaddedLength(counts)
    BY <2>4, Zenon DEF UnpaddedLength
  <2> QED
    BY <2>3, <2>4, <2>5, Zenon DEF PacketsVerify
<1> QED
  BY <1>1, <1>2, PacketStep, Zenon

-----------------------------------------------------------------------------
(* A narrow prototype leaves room for the padding. *)

\* A sum of terms that are not greater is not greater.
LEMMA TotalMonotonic ==
  ASSUME NEW n \in Nat, NEW f, NEW g, DOMAIN f = 1 .. n, DOMAIN g = 1 .. n,
         \A i \in 1 .. n : f[i] \in Nat /\ g[i] \in Nat /\ f[i] <= g[i]
  PROVE  Total(f) \in Nat /\ Total(g) \in Nat /\ Total(f) <= Total(g)
<1>1. Total(f) = SumTo(f, n) /\ Total(f) \in Nat
  BY TotalAsSum, Zenon
<1>2. Total(g) = SumTo(g, n) /\ Total(g) \in Nat
  BY TotalAsSum, Zenon
<1>3. SumTo(f, n) <= SumTo(g, n)
  BY SumMonotonic, Zenon
<1> QED
  BY <1>1, <1>2, <1>3, Zenon

\* h is the sum of f and g, element by element.
Adds(n, f, g, h) ==
  /\ DOMAIN f = 1 .. n /\ DOMAIN g = 1 .. n /\ DOMAIN h = 1 .. n
  /\ \A i \in 1 .. n : f[i] \in Nat /\ g[i] \in Nat /\ h[i] = f[i] + g[i]

\* The sum of the terms of two sequences is the sum of their sums.
LEMMA TotalAdd ==
  ASSUME NEW n \in Nat, NEW f, NEW g, NEW h, Adds(n, f, g, h)
  PROVE  Total(f) \in Nat /\ Total(g) \in Nat /\ Total(h) = Total(f) + Total(g)
<1>0. /\ DOMAIN f = 1 .. n /\ DOMAIN g = 1 .. n /\ DOMAIN h = 1 .. n
      /\ \A i \in 1 .. n : f[i] \in Nat /\ g[i] \in Nat /\ h[i] = f[i] + g[i]
  BY Zenon DEF Adds
<1>1. Total(f) = SumTo(f, n) /\ Total(f) \in Nat
  BY <1>0, TotalAsSum, Zenon
<1>2. Total(g) = SumTo(g, n) /\ Total(g) \in Nat
  BY <1>0, TotalAsSum, Zenon
<1>3. \A i \in 1 .. n : h[i] \in Nat
  BY <1>0
<1>4. Total(h) = SumTo(h, n)
  BY <1>0, <1>3, TotalAsSum, Zenon
<1>5. SumTo(h, n) = SumTo(f, n) + SumTo(g, n)
  BY <1>0, SumAdd
<1> QED
  BY <1>1, <1>2, <1>4, <1>5, Zenon

Rooms == [s \in Streams |-> outputAvailable[s] + Pending[s]]

\* The room that the streams need is a number.
LEMMA RoomsNat ==
  Shape => /\ Len(encoders) \in Nat
           /\ Streams = 1 .. Len(encoders)
           /\ \A s \in Streams : /\ outputAvailable[s] \in Nat
                                 /\ Pending[s] \in Nat /\ Pending[s] <= Word(s)
                                 /\ Rooms[s] \in Nat
                                 /\ Rooms[s] = outputAvailable[s] + Pending[s]
<1> SUFFICES ASSUME Shape
             PROVE  /\ Len(encoders) \in Nat
                    /\ Streams = 1 .. Len(encoders)
                    /\ \A s \in Streams : /\ outputAvailable[s] \in Nat
                                          /\ Pending[s] \in Nat /\ Pending[s] <= Word(s)
                                          /\ Rooms[s] \in Nat
                                          /\ Rooms[s] = outputAvailable[s] + Pending[s]
  BY Zenon
<1> WriterShape
  BY Zenon DEF Shape
<1>1. Len(encoders) \in Nat /\ Streams = 1 .. Len(encoders)
  BY StreamCount, Zenon DEF WriterShape, Streams
<1>2. ASSUME NEW s \in Streams
      PROVE  /\ outputAvailable[s] \in Nat
             /\ Pending[s] \in Nat /\ Pending[s] <= Word(s)
             /\ Rooms[s] \in Nat
             /\ Rooms[s] = outputAvailable[s] + Pending[s]
  <2>1. outputAvailable[s] \in Nat /\ Word(s) \in Nat
    BY StreamShape, Sizes
  <2>2. Pending[s] \in Nat /\ Pending[s] <= Word(s)
    BY <2>1 DEF Pending
  <2>3. Rooms[s] = outputAvailable[s] + Pending[s]
    BY Zenon DEF Rooms
  <2> QED
    BY <2>1, <2>2, <2>3
<1> QED
  BY <1>1, <1>2, Zenon

\* While the room is kept, no packet needs the last byte of the buffer.
LEMMA NarrowPacket ==
  ASSUME Shape, NarrowRoom, Narrow, NEW counts \in PacketCounts
  PROVE  ~PaddingThrows(counts)
<1>1. Overhead + Total(Rooms) <= PacketMax - 4
  BY Zenon DEF NarrowRoom, Rooms
<1>2. /\ Len(encoders) \in Nat /\ DOMAIN outputAvailable = 1 .. Len(encoders)
      /\ DOMAIN Rooms = 1 .. Len(encoders)
      /\ \A s \in 1 .. Len(encoders) : /\ outputAvailable[s] \in Nat /\ Rooms[s] \in Nat
                                       /\ outputAvailable[s] <= Rooms[s]
  BY RoomsNat DEF outputAvailable, Rooms
<1>3. /\ Total(outputAvailable) \in Nat /\ Total(Rooms) \in Nat
      /\ Total(outputAvailable) <= Total(Rooms)
  BY <1>2, TotalMonotonic, Zenon
<1>4. Overhead \in Nat /\ PacketMaxPayload \in Nat /\ PacketMaxPayload + Overhead = PacketMax
  BY OverheadBounds, Zenon
<1>5. Total(outputAvailable) < PacketMaxPayload
  BY <1>1, <1>3, <1>4, Sizes
<1>6. counts = outputAvailable
  BY <1>5, Zenon DEF PacketCounts
<1>7. UnpaddedLength(counts) \in Nat /\ UnpaddedLength(counts) = Overhead + Total(outputAvailable)
  BY <1>6, UnpaddedBounds, Zenon
<1>8. UnpaddedLength(counts) <= PacketMax - 4
  BY <1>1, <1>3, <1>4, <1>7, Sizes
<1>9. PacketMax - 4 \in Nat /\ (PacketMax - 4) % 4 = 0
  BY Sizes, <1>7, <1>8
<1>10. PaddedLength(counts) <= PacketMax - 4 /\ PaddedLength(counts) \in Nat
  BY <1>7, <1>8, <1>9, PaddedBounds, Zenon DEF PaddedLength
<1> QED
  BY <1>10, Sizes DEF PaddingThrows

\* Only the padding loop throws ErrorInternal.
LEMMA InternalIsPadding ==
  ASSUME [Next]_vars, error # "internal", error' = "internal"
  PROVE  \E counts \in PacketCounts : PaddingThrows(counts)
<1>1. CASE WriteSendsPacket \/ WriteFails \/ CloseSendsPacket \/ CloseFails
  BY <1>1, Zenon DEF WriteSendsPacket, WriteFails, CloseSendsPacket, CloseFails, PacketStored, PacketLost
<1>2. CASE \/ \E n \in Requests : write(n)
           \/ packetWriteZeroRecords
           \/ WriteReturns \/ WriteEncodes \/ WriteRefusesValue \/ close \/ CloseReturns
           \/ UNCHANGED vars
  BY <1>2, Zenon DEF write, packetWriteZeroRecords, WriteReturns, WriteEncodes, WriteRefusesValue, close,
              CloseReturns, vars
<1> QED
  BY <1>1, <1>2, Zenon DEF Next, WriteStep, CloseStep

\* The encoders are those of the constructor.
LEMMA EncodersStay ==
  ASSUME [Next]_vars
  PROVE  UNCHANGED encoders
BY Zenon DEF Next, WriteStep, CloseStep, write, packetWriteZeroRecords, WriteReturns, WriteSendsPacket,
       WriteFails, WriteEncodes, WriteRefusesValue, close, CloseSendsPacket, CloseReturns,
       CloseFails, Sends, Encodes, InWrite, InClose, vars

\* Steps that need no more room.
LEMMA NarrowShrinks ==
  ASSUME Shape, Shape', NarrowRoom, [Next]_vars, \A s \in Streams : Rooms'[s] <= Rooms[s]
  PROVE  NarrowRoom'
<1>1. UNCHANGED encoders
  BY EncodersStay, Zenon
<1>2. Narrow' = Narrow /\ Overhead' = Overhead /\ Streams' = Streams
  BY <1>1, Zenon DEF Narrow, Overhead, Streams, IsString
<1> SUFFICES ASSUME Narrow
             PROVE  /\ Overhead + Total(Rooms)' <= PacketMax - 4
                    /\ error' # "internal"
  BY <1>2, Zenon DEF NarrowRoom, Rooms
<1>3. error' # "internal"
  BY NarrowPacket, InternalIsPadding, Zenon DEF NarrowRoom
<1>4. /\ Len(encoders) \in Nat /\ Streams = 1 .. Len(encoders)
      /\ \A s \in Streams : Rooms[s] \in Nat
  BY RoomsNat, Zenon
<1>5. (\A s \in Streams : Rooms[s] \in Nat)'
  <2>1. (/\ Len(encoders) \in Nat
         /\ Streams = 1 .. Len(encoders)
         /\ \A s \in Streams : /\ outputAvailable[s] \in Nat
                               /\ Pending[s] \in Nat /\ Pending[s] <= Word(s)
                               /\ Rooms[s] \in Nat
                               /\ Rooms[s] = outputAvailable[s] + Pending[s])'
    BY RoomsNat, PTL
  <2> QED
    BY <2>1, Zenon
<1>6. DOMAIN Rooms = Streams /\ DOMAIN Rooms' = Streams
  BY <1>2, Zenon DEF Rooms
<1>7. Total(Rooms') <= Total(Rooms) /\ Total(Rooms') \in Nat /\ Total(Rooms) \in Nat
  <2>1. \A s \in 1 .. Len(encoders) : /\ Rooms'[s] \in Nat /\ Rooms[s] \in Nat
                                      /\ Rooms'[s] <= Rooms[s]
    BY <1>2, <1>4, <1>5, Zenon
  <2> QED
    BY <1>4, <1>6, <2>1, TotalMonotonic, Zenon
<1>8. Overhead + Total(Rooms) <= PacketMax - 4 /\ Overhead \in Nat
  BY OverheadBounds, Zenon DEF NarrowRoom, Rooms
<1> QED
  BY <1>3, <1>7, <1>8, Sizes

\* An iteration adds no more than Growth.
LEMMA NarrowGrows ==
  ASSUME Shape, Shape', NarrowRoom, [Next]_vars, currentPacketSize < Target,
         \A s \in Streams : ~IsString(s) => Rooms'[s] <= outputAvailable[s] + Growth(encoders[s])
  PROVE  NarrowRoom'
<1> WriterShape
  BY Zenon DEF Shape
<1>1. UNCHANGED encoders
  BY EncodersStay, Zenon
<1>2. Narrow' = Narrow /\ Overhead' = Overhead /\ Streams' = Streams
  BY <1>1, Zenon DEF Narrow, Overhead, Streams, IsString
<1> SUFFICES ASSUME Narrow
             PROVE  /\ Overhead + Total(Rooms)' <= PacketMax - 4
                    /\ error' # "internal"
  BY <1>2, Zenon DEF NarrowRoom, Rooms
<1>3. error' # "internal"
  BY NarrowPacket, InternalIsPadding, Zenon DEF NarrowRoom
<1>4. /\ Len(encoders) \in Nat /\ Streams = 1 .. Len(encoders)
      /\ \A s \in Streams : outputAvailable[s] \in Nat
  BY RoomsNat, Zenon
<1>5. (\A s \in Streams : Rooms[s] \in Nat)'
  <2>1. (/\ Len(encoders) \in Nat
         /\ Streams = 1 .. Len(encoders)
         /\ \A s \in Streams : /\ outputAvailable[s] \in Nat
                               /\ Pending[s] \in Nat /\ Pending[s] <= Word(s)
                               /\ Rooms[s] \in Nat
                               /\ Rooms[s] = outputAvailable[s] + Pending[s])'
    BY RoomsNat, PTL
  <2> QED
    BY <2>1, Zenon
<1> DEFINE g == [s \in Streams |-> Growth(encoders[s])]
           h == [s \in Streams |-> outputAvailable[s] + g[s]]
<1>6. \A s \in Streams : g[s] \in Nat /\ g[s] = Growth(encoders[s])
  <2>1. encoders \in Prototypes
    BY Zenon DEF WriterShape
  <2> QED
    BY <2>1, GrowthBounds, Zenon DEF Streams
<1>7. \A s \in Streams : h[s] = outputAvailable[s] + g[s] /\ h[s] \in Nat
  BY <1>4, <1>6
<1>8. /\ DOMAIN g = Streams /\ DOMAIN h = Streams /\ DOMAIN outputAvailable = Streams
      /\ DOMAIN Rooms' = Streams
  BY <1>2, Zenon DEF outputAvailable, Rooms
<1>9. Target - 1 + Total(g) <= PacketMax - 4 /\ \A s \in Streams : ~IsString(s)
  BY Zenon DEF Narrow
<1> HIDE DEF g, h
<1>10. /\ Total(outputAvailable) \in Nat /\ Total(g) \in Nat
       /\ Total(h) = Total(outputAvailable) + Total(g)
  <2> DEFINE n == Len(encoders)
  <2>1. n \in Nat /\ DOMAIN outputAvailable = 1 .. n /\ DOMAIN g = 1 .. n /\ DOMAIN h = 1 .. n
    BY <1>4, <1>8, Zenon
  <2>2. \A s \in 1 .. n : outputAvailable[s] \in Nat /\ g[s] \in Nat
                         /\ h[s] = outputAvailable[s] + g[s]
    BY <1>4, <1>6, <1>7, Zenon
  <2> HIDE DEF n
  <2>3. Adds(n, outputAvailable, g, h)
    BY <2>1, <2>2, Zenon DEF Adds
  <2> QED
    BY <2>1, <2>3, TotalAdd
<1>11. Total(Rooms') <= Total(h) /\ Total(Rooms') \in Nat
  <2>1. \A s \in 1 .. Len(encoders) : Rooms'[s] \in Nat /\ h[s] \in Nat /\ Rooms'[s] <= h[s]
    BY <1>2, <1>4, <1>5, <1>6, <1>7, <1>9, Zenon
  <2> QED
    BY <1>4, <1>8, <2>1, TotalMonotonic, Zenon
<1>12. /\ Overhead + Total(outputAvailable) < Target /\ Overhead \in Nat /\ Target \in Nat
  BY OverheadBounds, StreamCount, Zenon DEF currentPacketSize, WriterShape
<1>13. Overhead + Total(Rooms') <= PacketMax - 4
  BY <1>9, <1>10, <1>11, <1>12, Sizes
<1> QED
  BY <1>3, <1>13, Zenon

\* The growth of an encoder includes the word its flush adds.
LEMMA WordWithinGrowth ==
  ASSUME Shape, NEW s \in Streams
  PROVE  Growth(encoders[s]) \in Nat /\ Word(s) <= Growth(encoders[s])
<1> WriterShape
  BY Zenon DEF Shape
<1>1. encoders \in Prototypes
  BY Zenon DEF WriterShape
<1> QED
  BY <1>1, GrowthBounds, Zenon DEF Streams, Word

\* An iteration and the flush after it add no more than Growth.
LEMMA IteratedGrowth ==
  ASSUME Shape, NEW s \in Streams, ~IsString(s), NEW length \in Nat
  PROVE  LET x == Iterated(s, length)
         IN  (x.end - x.first) + Word(s) <= outputAvailable[s] + Growth(encoders[s])
<1>1. outputAvailable[s] \in Nat /\ Word(s) \in Nat
  BY StreamShape, Sizes
<1>2. Growth(encoders[s]) \in Nat /\ Word(s) <= Growth(encoders[s])
  BY WordWithinGrowth, Zenon
<1>3. CASE ~(index[s] < endRecord)
  <2>1. Iterated(s, length) = Unchanged(s)
    BY <1>3, Zenon DEF Iterated
  <2>2. Unchanged(s).end - Unchanged(s).first = outputAvailable[s]
    BY Zenon DEF Unchanged, outputAvailable
  <2> QED
    BY <1>1, <1>2, <2>1, <2>2, SMTT(60)
<1>4. CASE index[s] < endRecord
  <2>1. /\ Iterated(s, length) = Processed(s, Asked(s), length)
        /\ Asked(s) \in Nat /\ Asked(s) <= Batch
    BY <1>4, AskedBounds, Zenon DEF Iterated
  <2>2. CASE Bits(s) = 0
    <3>1. Iterated(s, length) = [Unchanged(s) EXCEPT !.index = @ + Asked(s)]
      BY <2>1, <2>2, Zenon DEF Processed
    <3>2. Iterated(s, length).end - Iterated(s, length).first = outputAvailable[s]
      BY <3>1, Zenon DEF Unchanged, outputAvailable
    <3> QED
      BY <1>1, <1>2, <3>2
  <2>3. CASE Bits(s) # 0
    <3> DEFINE n == Asked(s)
               x == PackBits(s, n)
    <3>1. Iterated(s, length) = x
      BY <2>1, <2>3, Zenon DEF Processed
    <3>2. Words(s, n) * Word(s) + Word(s) <= Growth(encoders[s])
      BY <2>1, <2>3, PackBitsGrowth, Zenon
    <3>3. x.first = ShiftedFirst(s) /\ x.end = ShiftedEnd(s) + Words(s, n) * Word(s)
      BY PackBitsFields, Zenon
    <3>4. Words(s, n) * Word(s) \in Nat
      BY <2>1, <2>3, PackBitsFits, Zenon
    <3>5. /\ ShiftedEnd(s) \in Nat /\ ShiftedFirst(s) \in 0 .. ShiftedEnd(s)
          /\ ShiftedEnd(s) - ShiftedFirst(s) = outputAvailable[s]
      BY ShiftedOutput, Zenon
    <3> HIDE DEF x, n
    <3>6. (x.end - x.first) + Word(s) <= outputAvailable[s] + Growth(encoders[s])
      BY <1>1, <1>2, <3>2, <3>3, <3>4, <3>5
    <3> QED
      BY <3>1, <3>6, Zenon
  <2> QED
    BY <2>2, <2>3, Zenon
<1> QED
  BY <1>3, <1>4, Zenon

\* A new writer has the room.
LEMMA NarrowInit == Init => NarrowRoom
<1> SUFFICES ASSUME Init, Narrow
             PROVE  Overhead + Total(Rooms) <= PacketMax - 4 /\ error # "internal"
  BY Zenon DEF NarrowRoom, Rooms
<1>1. Shape
  BY ShapeInit, Zenon
<1> WriterShape
  BY <1>1, Zenon DEF Shape
<1>2. /\ Len(encoders) \in Nat /\ Streams = 1 .. Len(encoders)
      /\ \A s \in Streams : Rooms[s] \in Nat /\ Rooms[s] = outputAvailable[s] + Pending[s]
                            /\ Pending[s] <= Word(s) /\ Pending[s] \in Nat
  BY <1>1, RoomsNat, Zenon
<1> DEFINE g == [s \in Streams |-> Growth(encoders[s])]
<1>3. \A s \in Streams : Rooms[s] <= g[s] /\ g[s] \in Nat
  <2> TAKE s \in Streams
  <2>1. outputAvailable[s] = 0
    BY DEF outputAvailable, Init
  <2>2. g[s] \in Nat /\ Word(s) <= g[s]
    BY <1>1, WordWithinGrowth, Zenon
  <2>3. Word(s) \in Nat
    BY <1>1, StreamShape, Zenon
  <2> HIDE DEF g
  <2> QED
    BY <1>2, <2>1, <2>2, <2>3
<1>4. DOMAIN g = Streams /\ DOMAIN Rooms = Streams
  BY Zenon DEF Rooms
<1>5. Target - 1 + Total(g) <= PacketMax - 4
  BY Zenon DEF Narrow
<1> HIDE DEF g
<1>6. Total(Rooms) \in Nat /\ Total(g) \in Nat /\ Total(Rooms) <= Total(g)
  <2>1. \A s \in 1 .. Len(encoders) : Rooms[s] \in Nat /\ g[s] \in Nat /\ Rooms[s] <= g[s]
    BY <1>2, <1>3, Zenon
  <2> QED
    BY <1>2, <1>4, <2>1, TotalMonotonic, Zenon
<1>7. Overhead \in Nat /\ Overhead < Target /\ Target \in Nat
  BY <1>1, OverheadBounds, StreamCount, Zenon DEF WriterShape
<1> QED
  BY <1>5, <1>6, <1>7, Sizes DEF Init

\* Every step keeps the room of a narrow prototype.
LEMMA NarrowStep == Shape /\ NarrowRoom /\ [Next]_vars => NarrowRoom'
<1> SUFFICES ASSUME Shape, NarrowRoom, [Next]_vars
             PROVE  NarrowRoom'
  BY Zenon
<1>1. Shape'
  BY ShapeStep, Zenon
<1>2. UNCHANGED encoders /\ Streams' = Streams
  BY EncodersStay, Zenon DEF Streams
<1>3. ASSUME NEW s \in Streams
      PROVE  /\ Rooms[s] = outputAvailable[s] + (IF Packing THEN Word(s) ELSE 0)
             /\ Rooms'[s] = (end'[s] - first'[s]) + (IF Packing' THEN Word(s) ELSE 0)
             /\ end[s] \in Nat /\ first[s] \in 0 .. end[s] /\ Word(s) \in Nat
             /\ outputAvailable[s] = end[s] - first[s]
  <2>1. Rooms[s] = outputAvailable[s] + (IF Packing THEN Word(s) ELSE 0)
    BY Zenon DEF Rooms, Pending, Packing
  <2>2. Rooms'[s] = (end'[s] - first'[s]) + (IF Packing' THEN Word(s) ELSE 0)
    BY <1>2, Zenon DEF Rooms, Pending, Packing, outputAvailable, Word
  <2>3. end[s] \in Nat /\ first[s] \in 0 .. end[s] /\ Word(s) \in Nat
    BY StreamShape, Sizes
  <2>4. outputAvailable[s] = end[s] - first[s]
    BY Zenon DEF outputAvailable
  <2> QED
    BY <2>1, <2>2, <2>3, <2>4, Zenon
<1>4. CASE \/ \E n \in Requests : write(n)
           \/ packetWriteZeroRecords
           \/ WriteReturns
           \/ CloseReturns
           \/ CloseFails /\ ~(Total(outputAvailable) > 0)
           \/ UNCHANGED vars
  <2>1. /\ UNCHANGED <<first, end>>
        /\ Packing' <=> Packing
    BY <1>4, Zenon DEF write, packetWriteZeroRecords, WriteReturns, CloseReturns, CloseFails, InWrite,
                InClose, vars, Packing
  <2>2. \A s \in Streams : Rooms'[s] <= Rooms[s]
    BY <1>3, <2>1
  <2> QED
    BY <1>1, <2>2, NarrowShrinks, Zenon
<1>5. ASSUME NEW counts \in PacketCounts, OutputRead(counts), end' = end, Packing' <=> Packing
      PROVE  NarrowRoom'
  <2>1. ASSUME NEW s \in Streams PROVE Rooms'[s] <= Rooms[s]
    <3>1. counts[s] \in Nat /\ first'[s] = first[s] + counts[s]
      BY <1>5, CountsBounds, Zenon DEF OutputRead
    <3>2. first[s] \in Nat
      BY <1>3
    <3> QED
      BY <1>3, <1>5, <3>1, <3>2, SMTT(60)
  <2> QED
    BY <1>1, <2>1, NarrowShrinks, Zenon
<1>6. CASE WriteSendsPacket \/ WriteFails
  <2>1. /\ \E counts \in PacketCounts : OutputRead(counts)
        /\ end' = end /\ (Packing' <=> Packing)
    BY <1>6, Zenon DEF WriteSendsPacket, WriteFails, PacketStored, PacketLost, Sends, InWrite, Packing
  <2> QED
    BY <1>5, <2>1, Zenon
<1>7. CASE CloseSendsPacket \/ (CloseFails /\ Total(outputAvailable) > 0)
  <2>1. Total(outputAvailable) > 0 /\ pc = "close"
    BY <1>7, Zenon DEF CloseSendsPacket, CloseFails, InClose
  <2>2. PICK counts \in PacketCounts :
          /\ OutputRead(counts)
          /\ UNCHANGED <<encoders, endRecord, recordCount, index, register, end, rest, fetched>>
          /\ \/ /\ pc' = "close" /\ error' = error
                /\ sent' = [s \in Streams |-> sent[s] + counts[s]]
             \/ pc' = "closed" /\ error' \in {"io", "internal"} /\ sent' = sent
    BY <1>7, <2>1, ClosePacket, Zenon
  <2>3. Packing' <=> Packing
    BY <2>1, <2>2, Zenon DEF Packing
  <2> QED
    BY <1>5, <2>2, <2>3, Zenon
<1>8. CASE close
  <2>1. ASSUME NEW s \in Streams PROVE Rooms'[s] <= Rooms[s]
    <3>1. first'[s] = first[s] /\ end'[s] \in {end[s], end[s] + Word(s)} /\ Packing /\ ~Packing'
      BY <1>8, Zenon DEF close, flush, Packing
    <3> QED
      BY <1>3, <3>1
  <2> QED
    BY <1>1, <2>1, NarrowShrinks, Zenon
<1>9. CASE WriteEncodes
  <2>1. PICK length \in NextStrings : Becomes([s \in Streams |-> Iterated(s, length[s])])
    BY <1>9, Zenon DEF WriteEncodes
  <2>2. currentPacketSize < Target /\ Packing'
    BY <1>9, Zenon DEF WriteEncodes, Encodes, InWrite, Packing
  <2>3. ASSUME NEW s \in Streams, ~IsString(s)
        PROVE  Rooms'[s] <= outputAvailable[s] + Growth(encoders[s])
    <3> DEFINE x == Iterated(s, length[s])
    <3>1. length[s] \in Nat
      BY NextStringsNat, Zenon
    <3>2. (x.end - x.first) + Word(s) <= outputAvailable[s] + Growth(encoders[s])
      BY <2>3, <3>1, IteratedGrowth, Zenon
    <3>3. end'[s] = x.end /\ first'[s] = x.first
      BY <2>1, Zenon DEF Becomes
    <3> HIDE DEF x
    <3>4. Rooms'[s] = (end'[s] - first'[s]) + Word(s)
      BY <1>3, <2>2, Zenon
    <3> QED
      BY <3>2, <3>3, <3>4, Zenon
  <2> QED
    BY <1>1, <2>2, <2>3, NarrowGrows
<1>10. CASE WriteRefusesValue
  <2>1. PICK k \in Streams :
          \E length \in NextStrings : \E j \in 0 .. Tried(k) - 1 :
            Becomes([s \in Streams |-> IF s < k THEN Iterated(s, length[s])
                                      ELSE IF s = k THEN Refused(s, j)
                                      ELSE Unchanged(s)])
    BY <1>10, Zenon DEF WriteRefusesValue
  <2>2. PICK length \in NextStrings, j \in 0 .. Tried(k) - 1 :
          Becomes([s \in Streams |-> IF s < k THEN Iterated(s, length[s])
                                    ELSE IF s = k THEN Refused(s, j)
                                    ELSE Unchanged(s)])
    BY <2>1, Zenon
  <2>3. currentPacketSize < Target /\ Packing'
    BY <1>10, Zenon DEF WriteRefusesValue, Encodes, InWrite, Packing
  <2>4. ASSUME NEW s \in Streams, ~IsString(s)
        PROVE  Rooms'[s] <= outputAvailable[s] + Growth(encoders[s])
    <3> DEFINE x == IF s < k THEN Iterated(s, length[s])
                    ELSE IF s = k THEN Refused(s, j)
                    ELSE Unchanged(s)
    <3>1. length[s] \in Nat
      BY NextStringsNat, Zenon
    <3>2. end'[s] = x.end /\ first'[s] = x.first
      BY <2>2, Zenon DEF Becomes
    <3>3. outputAvailable[s] \in Nat /\ Word(s) \in Nat
          /\ Growth(encoders[s]) \in Nat /\ Word(s) <= Growth(encoders[s])
      <4>1. Growth(encoders[s]) \in Nat /\ Word(s) <= Growth(encoders[s])
        BY WordWithinGrowth, Zenon
      <4>2. Word(s) \in Nat /\ outputAvailable[s] \in Nat
        BY StreamShape, Sizes
      <4> QED
        BY <4>1, <4>2, Zenon
    <3>4. (x.end - x.first) + Word(s) <= outputAvailable[s] + Growth(encoders[s])
      <4>1. CASE s < k
        BY <2>4, <3>1, <4>1, IteratedGrowth, Zenon
      <4>2. CASE ~(s < k)
        <5>1. x = IF s = k THEN Refused(s, j) ELSE Unchanged(s)
          BY <4>2, Zenon
        <5>2. s = k => Refused(s, j).end - Refused(s, j).first = outputAvailable[s]
          BY RefusedString, RefusedOK, Zenon
        <5>3. Unchanged(s).end - Unchanged(s).first = outputAvailable[s]
          BY Zenon DEF Unchanged, outputAvailable
        <5> HIDE DEF x
        <5>4. x.end - x.first = outputAvailable[s]
          BY <5>1, <5>2, <5>3, Zenon
        <5> QED
          BY <3>3, <5>4
      <4> QED
        BY <4>1, <4>2, Zenon
    <3> HIDE DEF x
    <3>5. Rooms'[s] = (end'[s] - first'[s]) + Word(s)
      BY <1>3, <2>3, Zenon
    <3> QED
      BY <3>2, <3>4, <3>5, Zenon
  <2> QED
    BY <1>1, <2>3, <2>4, NarrowGrows, Zenon
<1> QED
  BY <1>4, <1>6, <1>7, <1>8, <1>9, <1>10 DEF Next, WriteStep, CloseStep

-----------------------------------------------------------------------------
(* Theorems. *)

\* Shape is an invariant.
LEMMA ShapeAlways == Spec => []Shape
<1>1. Init => Shape
  BY ShapeInit, Zenon
<1>2. Shape /\ [Next]_vars => Shape'
  BY ShapeStep, Zenon
<1> QED
  BY <1>1, <1>2, PTL DEF Spec

\* Accounted is an invariant.
LEMMA AccountedAlways == Spec => []Accounted
<1>1. Init => Accounted
  BY AccountedInit, Zenon
<1>2. Shape /\ Accounted /\ [Next]_vars => Accounted'
  BY AccountedStep, Zenon
<1> QED
  BY <1>1, <1>2, ShapeAlways, PTL DEF Spec

(***************************************************************************)
(* Whatever the prototype, the requests and the throws, every output       *)
(* buffer stays within outBuffer_, every register below a word, and no     *)
(* more bytes are stored than the records processed make                   *)
(* (CompressedVectorWriterImpl::write and close, Encoder.cpp).             *)
(***************************************************************************)
THEOREM TypeCorrect == Spec => []TypeOK
<1>1. Shape /\ Accounted => TypeOK
  <2> SUFFICES ASSUME Shape, Accounted
               PROVE  TypeOK
    BY Zenon
  <2> WriterShape
    BY Zenon DEF Shape
  <2>1. /\ encoders \in Prototypes
        /\ pc \in {"idle", "write", "close", "closed"}
        /\ recordCount \in 0 .. MaxRecords
        /\ endRecord \in 0 .. MaxRecords
        /\ error \in {"none", "io", "value", "internal"}
    BY Zenon DEF WriterShape
  <2>2. ASSUME NEW s \in Streams
        PROVE  /\ index[s] \in 0 .. endRecord
               /\ register[s] \in 0 .. Word(s) * ByteBits - 1
               /\ end[s] \in 0 .. PacketMax
               /\ first[s] \in 0 .. end[s]
               /\ end[s] % Word(s) = 0
               /\ rest[s] \in Nat
               /\ sent[s] \in 0 .. fetched[s] + (index[s] * Bits(s) + Word(s) * ByteBits)
    <3>1. /\ index[s] \in 0 .. endRecord
          /\ register[s] \in 0 .. Word(s) * ByteBits - 1
          /\ end[s] \in 0 .. PacketMax
          /\ first[s] \in 0 .. end[s]
          /\ end[s] % Word(s) = 0
          /\ rest[s] \in Nat
      BY StreamShape, Zenon DEF WordBits
    <3>2. /\ sent[s] \in Nat /\ sent[s] <= Produced(s) /\ Produced(s) \in Nat
          /\ fetched[s] \in Nat /\ WordBits(s) \in Nat /\ index[s] * Bits(s) \in Nat
      BY StreamShape, RecordBits, Zenon
    <3>3. Bounded(s)
      BY Zenon DEF Accounted
    <3>4. sent[s] <= fetched[s] + (index[s] * Bits(s) + WordBits(s))
      <4>1. CASE IsString(s)
        <5>1. Produced(s) + rest[s] <= fetched[s]
          BY <3>3, <4>1, Zenon DEF Bounded
        <5>2. rest[s] \in Nat
          BY <3>1, Zenon
        <5> QED
          BY <3>2, <5>1, <5>2, SMTT(20)
      <4>2. CASE ~IsString(s)
        <5> DEFINE slack == IF pc \in {"idle", "write"} THEN 0 ELSE WordBits(s)
        <5>1. slack \in Nat /\ slack <= WordBits(s)
          BY <3>2
        <5>2. Produced(s) * ByteBits <= index[s] * Bits(s) + slack
          BY <3>3, <4>2, Zenon DEF Bounded
        <5>3. Produced(s) <= Produced(s) * ByteBits
          <6>1. 1 * Produced(s) <= ByteBits * Produced(s)
            BY <3>2, Sizes, TimesMonotonic
          <6> QED
            BY <3>2, <6>1, Sizes
        <5>4. Produced(s) * ByteBits \in Nat
          BY <3>2, Sizes, TimesNat, Zenon
        <5> HIDE DEF slack
        <5> QED
          BY <3>2, <5>1, <5>2, <5>3, <5>4
      <4> QED
        BY <4>1, <4>2, Zenon
    <3> QED
      BY <3>1, <3>2, <3>4, SMTT(60) DEF WordBits
  <2> QED
    BY <2>1, <2>2, Zenon DEF TypeOK
<1> QED
  BY <1>1, ShapeAlways, AccountedAlways, PTL

(***************************************************************************)
(* As long as no call threw, the bits of the records processed are exactly *)
(* those in stored packets, outBuffer_ and register_, whatever the word    *)
(* size of the encoder, the shares of packetWrite and the order of         *)
(* processRecords, outBufferShiftDown, outputRead and                      *)
(* registerFlushToOutput.                                                  *)
(***************************************************************************)
THEOREM BitsAreConserved == Spec => []BitsConserved
<1>1. Shape /\ Accounted => BitsConserved
  <2> SUFFICES ASSUME Shape, Accounted, error = "none", NEW s \in Streams
               PROVE  IF IsString(s)
                      THEN sent[s] + outputAvailable[s] + rest[s] = fetched[s]
                      ELSE IF pc \in {"idle", "write"} THEN BitsHeld(s) = index[s] * Bits(s)
                      ELSE RoundUp(BitsHeld(s), Word(s) * ByteBits)
                             = RoundUp(index[s] * Bits(s), Word(s) * ByteBits)
    BY Zenon DEF BitsConserved
  <2> WriterShape
    BY Zenon DEF Shape
  <2>1. Exact(s)
    BY Zenon DEF Accounted
  <2>2. CASE IsString(s)
    BY <2>1, <2>2, Zenon DEF Exact, Produced
  <2>3. CASE ~IsString(s)
    <3> DEFINE bits == index[s] * Bits(s)
    <3>1. /\ bits \in Nat /\ Word(s) \in Nat \ {0} /\ WordBits(s) \in Nat \ {0}
          /\ Produced(s) \in Nat
      BY RecordBits, StreamShape, Zenon
    <3>2. BitsHeld(s) = Produced(s) * ByteBits + register[s]
      BY Zenon DEF BitsHeld, Produced
    <3>3. CASE pc \in {"idle", "write"}
      <4>1. /\ Produced(s) = (bits \div WordBits(s)) * Word(s)
            /\ register[s] = bits % WordBits(s)
        BY <2>1, <2>3, <3>3, Zenon DEF Exact
      <4>2. ((bits \div WordBits(s)) * Word(s)) * ByteBits + (bits % WordBits(s)) = bits
        BY <3>1, WholeWords, Zenon DEF WordBits
      <4> QED
        BY <2>3, <3>2, <3>3, <4>1, <4>2
    <3>4. CASE ~(pc \in {"idle", "write"})
      <4>1. Produced(s) * ByteBits = RoundUp(bits, WordBits(s))
        BY <2>1, <2>3, <3>4, Zenon DEF Exact
      <4>2. register[s] = 0
        BY <3>4, Zenon DEF WriterShape
      <4>3. PICK q \in Nat : RoundUp(bits, WordBits(s)) = q * WordBits(s)
        BY <3>1, RoundUpBounds, Zenon
      <4>4. BitsHeld(s) = q * WordBits(s) + 0
        <5>1. Produced(s) * ByteBits \in Nat
          BY <3>1, Sizes, TimesNat, Zenon
        <5> QED
          BY <3>2, <4>1, <4>2, <4>3, <5>1, Zenon
      <4>5. RoundUp(q * WordBits(s) + 0, WordBits(s)) = q * WordBits(s)
        <5>1. 0 \in 0 .. WordBits(s) - 1
          BY <3>1
        <5> QED
          BY <3>1, <5>1, RoundUpExact, Zenon
      <4> QED
        BY <2>3, <3>4, <4>3, <4>4, <4>5 DEF WordBits
    <3> QED
      BY <3>3, <3>4, Zenon
  <2> QED
    BY <2>2, <2>3, Zenon
<1> QED
  BY <1>1, ShapeAlways, AccountedAlways, PTL

(***************************************************************************)
(* A close that returns, with no throw before it, has sent everything: the *)
(* loop of close ends when the outputs are empty, and its first flush has  *)
(* found room for the last word of every register.                         *)
(***************************************************************************)
THEOREM ClosesComplete == Spec => []ClosedIsComplete
<1>1. Shape => ClosedIsComplete
  <2> SUFFICES ASSUME Shape, pc = "closed", error = "none", NEW s \in Streams
               PROVE  /\ outputAvailable[s] = 0
                      /\ register[s] = 0
                      /\ rest[s] = 0
                      /\ index[s] = recordCount
    BY Zenon DEF ClosedIsComplete
  <2> WriterShape
    BY Zenon DEF Shape
  <2>1. first[s] = end[s] /\ register[s] = 0 /\ rest[s] = 0 /\ index[s] = recordCount
    BY Zenon DEF WriterShape
  <2>2. outputAvailable[s] = end[s] - first[s] /\ end[s] \in Nat
    BY StreamShape, Sizes, SMTT(60)
  <2> QED
    BY <2>1, <2>2
<1> QED
  BY <1>1, ShapeAlways, PTL

(***************************************************************************)
(* Every packet that packetWrite stores fits DATA_PACKET_MAX and is padded *)
(* as DataPacket::verify wants it, also when the shares of the bytestreams *)
(* come out of a division in float.                                        *)
(***************************************************************************)
THEOREM PacketsAreValid == Spec => []PacketsVerify
<1>1. Init => PacketsVerify
  BY DEF Init, PacketsVerify
<1>2. Shape /\ PacketsVerify /\ [Next]_vars => PacketsVerify'
  BY PacketsVerifyStep, Zenon
<1> QED
  BY <1>1, <1>2, ShapeAlways, PTL DEF Spec

(***************************************************************************)
(* A prototype whose encoders, in one iteration of the loop of write, add  *)
(* no more than the room between E57_TARGET_PACKET_SIZE and                *)
(* DATA_PACKET_MAX, less 4 bytes, never meets the padding loop's           *)
(* ErrorInternal, in write or in close.                                    *)
(***************************************************************************)
THEOREM NarrowIsSafe == Spec => []NarrowNoInternalError
<1>1. Init => NarrowRoom
  BY NarrowInit, Zenon
<1>2. Shape /\ NarrowRoom /\ [Next]_vars => NarrowRoom'
  BY NarrowStep, Zenon
<1>3. NarrowRoom => NarrowNoInternalError
  BY Zenon DEF NarrowRoom, NarrowNoInternalError, NoInternalError
<1> QED
  BY <1>1, <1>2, <1>3, ShapeAlways, PTL DEF Spec
=============================================================================
