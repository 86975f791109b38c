---------------------------- MODULE StreamBytes ----------------------------
(***************************************************************************)
(* Operations on the bytes of a stream, a sequence indexed from 1 whose    *)
(* stream offsets count from 0.                                            *)
(***************************************************************************)
EXTENDS Integers, Sequences

MinOf(a, b) == IF a <= b THEN a ELSE b
MaxOf(a, b) == IF a >= b THEN a ELSE b

\* The n bytes from offset off on, or as many as there are.
Slice(s, off, n) == SubSeq(s, off + 1, MinOf(off + n, Len(s)))

\* n times the byte b.
Repeat(b, n) == [i \in 1..n |-> b]

\* s with bytes written over it at offset off; gap fills what lies between.
Splice(s, off, bytes, gap) ==
  IF bytes = <<>> THEN s
  ELSE SubSeq(s, 1, MinOf(off, Len(s)))
         \o Repeat(gap, off - MinOf(off, Len(s)))
         \o bytes
         \o SubSeq(s, off + Len(bytes) + 1, Len(s))

\* s cut, or extended with zeros, to n bytes.
Resize(s, n) == SubSeq(s, 1, MinOf(n, Len(s))) \o Repeat(0, n - MinOf(n, Len(s)))
=============================================================================
