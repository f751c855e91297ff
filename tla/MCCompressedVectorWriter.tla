---------------------- MODULE MCCompressedVectorWriter ----------------------
(***************************************************************************)
(* CompressedVectorWriter at a small scale: packets of 40 bytes of 4 bits, *)
(* a header of 2 bytes and one-byte lengths.                               *)
(***************************************************************************)
EXTENDS CompressedVectorWriter

Integer3 == [bits |-> 3, word |-> 1, strings |-> {}]
Integer5 == [bits |-> 5, word |-> 2, strings |-> {}]
Float == [bits |-> 8, word |-> 2, strings |-> {}]
Constant == [bits |-> 0, word |-> 1, strings |-> {}]
String(lengths) == [bits |-> 0, word |-> 1, strings |-> lengths]

\* Narrow, wide enough for packets to overflow, and with long strings.
SmallPrototypes ==
  {<<Integer3, Float>>,
   <<Integer3, Integer5>>,
   <<Constant>>,
   [s \in 1 .. 8 |-> Float],
   <<Integer3, Integer3, Integer3, String({2, 50})>>,
   <<Constant, String({1, 45})>>}

\* A prototype of a single string.
StringPrototype == {<<String({1, 50})>>}
=============================================================================
