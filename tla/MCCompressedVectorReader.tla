---------------------- MODULE MCCompressedVectorReader ----------------------
(***************************************************************************)
(* CompressedVectorReader at a small scale: bytes of 4 bits, words of one  *)
(* and two bytes, sections of up to three packets cut in every way.        *)
(***************************************************************************)
EXTENDS CompressedVectorReader

Packed(b, w) == [kind |-> "packed", bits |-> b, word |-> w]
String(lengths) == [kind |-> "string", lengths |-> lengths]
Constant == [kind |-> "constant"]

SmallPrototypes ==
  {<<Packed(3, 1), Packed(5, 2)>>,
   <<Packed(8, 2), Constant>>,
   <<Packed(3, 1), String(<<1, 3, 2, 1>>)>>}

\* A prototype with a string.
StringPrototype == {<<Packed(3, 1), String(<<1, 3, 2, 1>>)>>}
=============================================================================
