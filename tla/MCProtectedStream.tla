------------------------- MODULE MCProtectedStream -------------------------
(* Small instances of ProtectedStream: AES units of 2 bytes, blocks of 4.  *)
EXTENDS ProtectedStream

\* Byte strings the client writes: shorter than a unit, longer than a block.
\* Their bytes include the values padding uses.
MCPayloads == {<<1>>, <<3, 2, 2, 1, 1>>}

MCLengths == {3, 6}

\* Plaintexts of every length up to two blocks and a byte.
MCTexts == {[i \in 1..n |-> i % 3] : n \in 0..9}

\* For the run in which anything may be called: one byte value.
OnePayloads == {<<1, 1>>}
OneTexts    == {[i \in 1..n |-> 1] : n \in {3}}
=============================================================================
