-------------------------- MODULE SourceDestBuffer --------------------------
(***************************************************************************)
(* SourceDestBufferImpl.cpp: one field of the user's memory, from which    *)
(* the encoders take values and into which the decoders put them, with the *)
(* conversions between the representations in memory and in the file.      *)
(*                                                                         *)
(* A real is a number of units, Unit of which make 1.0, so that scaling    *)
(* and rounding are exact; a float is a multiple of FloatStep units.  An   *)
(* integer is itself.  A buffer is a record; every operation yields        *)
(* [error, value, buf], and one that throws leaves the buffer as it was.   *)
(***************************************************************************)
EXTENDS LeafNode, Sequences, FiniteSetsExt

CONSTANTS
  Unit,           \* units in 1.0
  RepMin, RepMax  \* stand-ins for the limits of the integer representations

IntegerReps == {"Int8", "UInt8", "Int16", "UInt16", "Int32", "UInt32", "Int64"}
RealReps == {"Real32", "Real64"}

ASSUME UnitAssumption == Unit \in Nat \ {0} /\ Unit % FloatStep = 0
ASSUME RepAssumption ==
  /\ RepMin \in [IntegerReps -> Int] /\ RepMax \in [IntegerReps -> Int]
  /\ RepMin["Int64"] = INT64_MIN /\ RepMax["Int64"] = INT64_MAX
  /\ \A r \in IntegerReps : INT64_MIN <= RepMin[r] /\ RepMax[r] <= INT64_MAX
  /\ FLOAT_MIN < Unit * INT64_MIN /\ Unit * (INT64_MAX + 1) < FLOAT_MAX

-----------------------------------------------------------------------------
(* Numbers. *)

\* static_cast of an integer to double.
ToReal(n) == Unit * n

\* A real without its fraction.
Truncate(x) == IF x >= 0 THEN x \div Unit ELSE -((-x) \div Unit)

InRep(r, n) == RepMin[r] <= n /\ n <= RepMax[r]

\* static_cast of a whole real to an integer type.  The language does not
\* define it for a value out of range: some processors saturate, the others
\* yield the minimum.
CastTo(rep, n, saturates) ==
  IF InRep(rep, n) THEN n
  ELSE IF saturates /\ n > 0 THEN RepMax[rep]
  ELSE RepMin[rep]

\* static_cast to int64_t.
Cast(n, saturates) == CastTo("Int64", n, saturates)

\* floor(x / y + 0.5)
RoundedQuotient(x, y) ==
  LET n == IF y < 0 THEN -x ELSE x
      d == IF y < 0 THEN -y ELSE y
  IN  ((2 * n) + d) \div (2 * d)

\* floor(x + 0.5)
Rounded(x) == RoundedQuotient(x, Unit)

\* static_cast of a double to float; one that is too large is infinite.
ToFloat(x) ==
  IF Single(x) > FLOAT_MAX THEN DOUBLE_MAX + 1
  ELSE IF Single(x) < FLOAT_MIN THEN DOUBLE_MIN - 1
  ELSE Single(x)

-----------------------------------------------------------------------------
(* Buffers. *)

\* The constructors; data is the memory at base_, one value per record.
Buffer(path, rep, data, doConversion, doScaling, stride) ==
  [pathName |-> path, rep |-> rep, data |-> data, doConversion |-> doConversion,
   doScaling |-> doScaling, stride |-> stride, nextIndex |-> 0]

Capacity(b) == Len(b.data)

\* checkState_, in the constructors, for a path of an open file.  base is
\* "NULL" where there is no memory.
CheckState(rep, base, stride) ==
  IF base = "NULL" \/ (rep # "UString" /\ stride = 0) THEN "BadBuffer" ELSE "none"

Fault(b, e) == [error |-> e, value |-> 0, buf |-> b]
Got(b, v) == [error |-> "none", value |-> v, buf |-> [b EXCEPT !.nextIndex = @ + 1]]
Put(b, v) ==
  [error |-> "none", value |-> v,
   buf |-> [b EXCEPT !.data[b.nextIndex + 1] = v, !.nextIndex = @ + 1]]

\* What every numeric operation checks first; the representations in free
\* need no doConversion_.
Obstacle(b, free) ==
  IF b.nextIndex >= Capacity(b) THEN "Internal"
  ELSE IF b.rep = "UString" THEN "ExpectingNumeric"
  ELSE IF b.rep \notin free /\ ~b.doConversion THEN "ConversionRequired"
  ELSE "none"

\* The next value as a real, whatever its representation.
RealValue(b) ==
  LET x == b.data[b.nextIndex + 1]
  IN  CASE b.rep \in IntegerReps -> ToReal(x)
        [] b.rep = "Bool" -> IF x THEN Unit ELSE 0
        [] OTHER -> x

-----------------------------------------------------------------------------
(* Taking values. *)

\* getNextInt64()
GetNextInt64(b, saturates) ==
  LET e == Obstacle(b, IntegerReps)
  IN  IF e # "none" THEN Fault(b, e)
      ELSE Got(b, Cast(Truncate(RealValue(b)), saturates))

\* getNextInt64(scale, offset): the raw value of a ScaledInteger.  The limit
\* it is held to is INT64_MAX as a double, which is one more.
GetNextScaled(b, scale, offset, saturates) ==
  LET e == Obstacle(b, IntegerReps \cup {"Bool"})
      raw == RoundedQuotient(RealValue(b) - offset, scale)
  IN  IF ~b.doScaling THEN GetNextInt64(b, saturates)
      ELSE IF scale = 0 THEN Fault(b, "Internal")
      ELSE IF e # "none" THEN Fault(b, e)
      ELSE IF raw < INT64_MIN \/ INT64_MAX + 1 < raw
           THEN Fault(b, "ScaledValueNotRepresentable")
      ELSE Got(b, Cast(raw, saturates))

\* getNextFloat: the limits a Real64 is held to are those of a double.
GetNextFloat(b) ==
  LET e == Obstacle(b, RealReps)
      x == RealValue(b)
  IN  IF e # "none" THEN Fault(b, e)
      ELSE IF b.rep = "Real64" /\ (x < DOUBLE_MIN \/ DOUBLE_MAX < x)
           THEN Fault(b, "Real64TooLarge")
      ELSE Got(b, ToFloat(x))

\* getNextDouble
GetNextDouble(b) ==
  LET e == Obstacle(b, RealReps)
  IN  IF e # "none" THEN Fault(b, e) ELSE Got(b, RealValue(b))

-----------------------------------------------------------------------------
(* Storing values. *)

\* Mutant: an integer that does not fit wraps around.
SetNextInt64Wrapping(b, n) ==
  LET e == Obstacle(b, IntegerReps \cup {"Bool"})
      size == RepMax[b.rep] - RepMin[b.rep] + 1
  IN  IF e # "none" THEN Fault(b, e)
      ELSE Put(b, CASE b.rep \in IntegerReps -> ((n - RepMin[b.rep]) % size) + RepMin[b.rep]
                    [] b.rep = "Bool" -> n = 0
                    [] b.rep = "Real32" -> ToFloat(ToReal(n))
                    [] b.rep = "Real64" -> ToReal(n))

\* setNextInt64(value): a Bool is stored as the opposite of the value.
SetNextInt64(b, n) ==
  LET e == Obstacle(b, IntegerReps \cup {"Bool"})
  IN  IF e # "none" THEN Fault(b, e)
      ELSE IF b.rep \in IntegerReps /\ ~InRep(b.rep, n)
           THEN Fault(b, "ValueNotRepresentable")
      ELSE Put(b, CASE b.rep \in IntegerReps -> n
                    [] b.rep = "Bool" -> n = 0
                    [] b.rep = "Real32" -> ToFloat(ToReal(n))
                    [] b.rep = "Real64" -> ToReal(n))

(***************************************************************************)
(* setNextInt64(value, scale, offset).  A real keeps the full resolution,  *)
(* an integer is rounded.  The range of Int64 is not checked.              *)
(***************************************************************************)
SetNextScaled(b, n, scale, offset, saturates) ==
  LET e == Obstacle(b, IntegerReps \cup {"Bool"})
      x == (n * scale) + offset
  IN  IF ~b.doScaling THEN SetNextInt64(b, n)
      ELSE IF e # "none" THEN Fault(b, e)
      ELSE IF b.rep \in IntegerReps \ {"Int64"} /\ ~InRep(b.rep, Rounded(x))
           THEN Fault(b, "ScaledValueNotRepresentable")
      ELSE IF b.rep = "Real32" /\ (x < DOUBLE_MIN \/ DOUBLE_MAX < x)
           THEN Fault(b, "ScaledValueNotRepresentable")
      ELSE Put(b, CASE b.rep \in IntegerReps -> Cast(Rounded(x), saturates)
                    [] b.rep = "Bool" -> Rounded(x) = 0
                    [] b.rep = "Real32" -> ToFloat(x)
                    [] b.rep = "Real64" -> x)

\* static_cast<T> of the maximum of a representation, for the T of a
\* FloatNode: a type with fewer bits than the maximum rounds it up.
RealMax(rep, isDouble) ==
  ToReal(IF rep = "Int64" \/ (rep \in {"Int32", "UInt32"} /\ ~isDouble)
         THEN RepMax[rep] + 1 ELSE RepMax[rep])

\* _setNextReal, for setNextFloat and setNextDouble.  The range is that of
\* the real, before its fraction is cut off.
SetNextReal(b, x, isDouble, saturates) ==
  LET e == Obstacle(b, RealReps)
  IN  IF e # "none" THEN Fault(b, e)
      ELSE IF b.rep \in IntegerReps
              /\ (x < ToReal(RepMin[b.rep]) \/ RealMax(b.rep, isDouble) < x)
           THEN Fault(b, "ValueNotRepresentable")
      ELSE IF b.rep = "Real32" /\ isDouble /\ (x < DOUBLE_MIN \/ DOUBLE_MAX < x)
           THEN Fault(b, "ValueNotRepresentable")
      ELSE Put(b, CASE b.rep \in IntegerReps -> CastTo(b.rep, Truncate(x), saturates)
                    [] b.rep = "Bool" -> x = 0
                    [] b.rep = "Real32" -> ToFloat(x)
                    [] b.rep = "Real64" -> x)

-----------------------------------------------------------------------------
(* The codecs of one numeric field, at the level of values: how the bits   *)
(* of the records are packed is in CompressedVectorWriter and -Reader.     *)

\* Mutant: one bit too few where the range is a power of two.
BitsNeededShort(minimum, maximum) ==
  CHOOSE n \in 0 .. (maximum - minimum + 1) :
    2^n >= maximum - minimum /\ \A m \in 0 .. (n - 1) : 2^m < maximum - minimum

\* bitsNeeded: the bits that hold maximum - minimum.
BitsNeeded(minimum, maximum) ==
  CHOOSE n \in 0 .. (maximum - minimum + 1) :
    2^n > maximum - minimum /\ \A m \in 0 .. (n - 1) : 2^m <= maximum - minimum

\* The field takes no bits: EncoderFactory makes a ConstantIntegerEncoder.
IsConstant(node) ==
  node.type # "Float" /\ BitsNeeded(node.attr.minimum, node.attr.maximum) = 0

\* Mutant: a value out of bounds is encoded.
EncodeNextUnchecked(node, b, saturates) ==
  LET a == node.attr
      got == IF node.type = "ScaledInteger" THEN GetNextScaled(b, a.scale, a.offset, saturates)
             ELSE GetNextInt64(b, saturates)
  IN  IF node.type = "Float"
      THEN IF a.precision = "single" THEN GetNextFloat(b) ELSE GetNextDouble(b)
      ELSE [got EXCEPT !.value = @ - a.minimum]

(***************************************************************************)
(* processRecords, for the next record.  ConstantIntegerEncoder takes the  *)
(* value unscaled, also for a ScaledInteger.  The float encoders do not    *)
(* look at the bounds.                                                     *)
(***************************************************************************)
EncodeNext(node, b, saturates) ==
  LET a == node.attr
      got == IF node.type = "ScaledInteger" /\ ~IsConstant(node)
             THEN GetNextScaled(b, a.scale, a.offset, saturates)
             ELSE GetNextInt64(b, saturates)
  IN  IF node.type = "Float"
      THEN IF a.precision = "single" THEN GetNextFloat(b) ELSE GetNextDouble(b)
      ELSE IF got.error # "none" THEN got
      ELSE IF got.value < a.minimum \/ a.maximum < got.value
           THEN Fault(b, "ValueOutOfBounds")
      ELSE [got EXCEPT !.value = (@ - a.minimum) % 2^BitsNeeded(a.minimum, a.maximum)]

\* inputProcess, for the next record.
DecodeNext(node, code, b, saturates) ==
  LET a == node.attr
  IN  CASE node.type = "Float" -> SetNextReal(b, code, a.precision = "double", saturates)
        [] node.type = "ScaledInteger" ->
             SetNextScaled(b, a.minimum + code, a.scale, a.offset, saturates)
        [] node.type = "Integer" -> SetNextInt64(b, a.minimum + code)

\* All the records of a field: the codes, up to the first that throws.
EncodeField(node, b, count, saturates) ==
  LET done[n \in 0 .. count] ==
        IF n = 0 THEN [error |-> "none", codes |-> <<>>, buf |-> b]
        ELSE LET before == done[n - 1]
                 r == EncodeNext(node, before.buf, saturates)
             IN  IF before.error # "none" THEN before
                 ELSE [error |-> r.error, buf |-> r.buf,
                       codes |-> IF r.error = "none" THEN Append(before.codes, r.value)
                                 ELSE before.codes]
  IN  done[count]

DecodeField(node, codes, b, saturates) ==
  LET done[n \in 0 .. Len(codes)] ==
        IF n = 0 THEN [error |-> "none", buf |-> b]
        ELSE LET before == done[n - 1]
                 r == DecodeNext(node, codes[n], before.buf, saturates)
             IN  IF before.error # "none" THEN before
                 ELSE [error |-> r.error, buf |-> r.buf]
  IN  done[Len(codes)]
=============================================================================
