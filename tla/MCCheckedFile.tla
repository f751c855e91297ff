--------------------------- MODULE MCCheckedFile ---------------------------
(* CheckedFile on pages of two data bytes, two pages at most. *)
EXTENDS CheckedFile
=============================================================================
