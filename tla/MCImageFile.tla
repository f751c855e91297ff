---------------------------- MODULE MCImageFile ----------------------------
(***************************************************************************)
(* Two vectors, two handles and a blob: enough for two writers to meet, a  *)
(* blob to fall between two sections, and a reader to follow a writer.     *)
(***************************************************************************)
EXTENDS ImageFile, TLC

Symmetry == Permutations(CV) \cup Permutations(Handle)
=============================================================================
