----------------------------- MODULE Arithmetic -----------------------------
(***************************************************************************)
(* Arithmetic on counts of bits, bytes and records that the writer and the *)
(* reader of compressed vectors share.                                     *)
(***************************************************************************)
EXTENDS Integers, Sequences

Lesser(a, b) == IF a < b THEN a ELSE b
RoundUp(n, m) == ((n + m - 1) \div m) * m

\* The sum of the first n elements of a sequence.
SumTo(f, n) ==
  LET sum[i \in 0 .. n] == IF i = 0 THEN 0 ELSE sum[i - 1] + f[i]
  IN  sum[n]

\* The sum of a sequence.
Total(f) == SumTo(f, Len(f))
=============================================================================
