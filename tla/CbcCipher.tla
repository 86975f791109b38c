----------------------------- MODULE CbcCipher -----------------------------
(***************************************************************************)
(* Cbc4kCryptoProvider: AES in CBC mode, restarted with a fresh IV at      *)
(* every block of CBC4K_BLOCK_SIZE bytes; the final block carries PKCS#7   *)
(* padding.  The cipher is symbolic and perfect.  A cipher byte records    *)
(* what CBC makes it depend on: the block number (hence the IV), the       *)
(* plaintext of its block up to the end of its own AES unit, and its place *)
(* in the block.  A unit decrypts to its plaintext only if it is whole and *)
(* follows the very unit (or IV) it was chained to; otherwise it decrypts  *)
(* to Garbage, which never looks like valid padding.                       *)
(***************************************************************************)
EXTENDS StreamBytes

CONSTANTS AES128_BLOCK_SIZE,   \* 16 in the code
          CBC4K_BLOCK_SIZE     \* 4096 in the code

A == AES128_BLOCK_SIZE
B == CBC4K_BLOCK_SIZE

ASSUME CipherSizes ==
  /\ AES128_BLOCK_SIZE \in Nat \ {0}
  /\ CBC4K_BLOCK_SIZE \in Nat \ {0}
  /\ CBC4K_BLOCK_SIZE % AES128_BLOCK_SIZE = 0

\* A plaintext byte that comes out of a broken CBC chain.
Garbage == -1

\* A byte of the backing stream that nobody wrote.
Hole == [blk |-> -1, prefix |-> <<>>, at |-> 0]

GetPaddedSize(cbSize) == (cbSize \div A + 1) * A

(***************************************************************************)
(* PKCS#7: n padding bytes, each of value n, with n in 1 .. A.             *)
(***************************************************************************)
AddPadding(plain) ==
  LET n == GetPaddedSize(Len(plain)) - Len(plain)
  IN  plain \o Repeat(n, n)

HasPadding(plain) ==
  LET n == plain[Len(plain)]
  IN  n \in 1..A /\ \A i \in (Len(plain) - n + 1)..Len(plain) : plain[i] = n

\* Index of the first byte of the CBC block, and of the AES unit, of byte i.
BlockFirst(i) == ((i - 1) \div B) * B + 1
UnitFirst(i)  == ((i - 1) \div A) * A + 1

CipherByte(text, dwStartingBlockNumber, i) ==
  [blk    |-> dwStartingBlockNumber + (i - 1) \div B,
   prefix |-> SubSeq(text, BlockFirst(i), UnitFirst(i) + A - 1),
   at     |-> i - BlockFirst(i) + 1]

(***************************************************************************)
(* Encrypt returns ok = FALSE where the code throws.                       *)
(***************************************************************************)
Encrypt(plain, dwStartingBlockNumber, isFinal) ==
  LET text == IF isFinal THEN AddPadding(plain) ELSE plain
  IN  IF ~isFinal /\ Len(plain) % B # 0
        THEN [ok |-> FALSE, out |-> <<>>]
        ELSE [ok  |-> TRUE,
              out |-> [i \in 1..Len(text) |->
                         CipherByte(text, dwStartingBlockNumber, i)]]

\* The unit that starts at u is one whole AES block of some encryption.
WholeUnit(cipher, u) ==
  LET p == cipher[u].prefix
  IN  /\ Len(p) >= A
      /\ \A j \in 0..(A - 1) :
           /\ cipher[u + j].blk = cipher[u].blk
           /\ cipher[u + j].prefix = p
           /\ cipher[u + j].at = Len(p) - A + 1 + j

\* What the unit at u was chained to is what stands before it here.
ChainedUnit(cipher, u, blk) ==
  IF u = BlockFirst(u)
    THEN cipher[u].blk = blk /\ Len(cipher[u].prefix) = A
    ELSE /\ WholeUnit(cipher, u - A)
         /\ cipher[u - A].blk = cipher[u].blk
         /\ cipher[u - A].prefix =
              SubSeq(cipher[u].prefix, 1, Len(cipher[u].prefix) - A)

PlainByte(cipher, dwStartingBlockNumber, i) ==
  LET u == UnitFirst(i)
      c == cipher[i]
  IN  IF WholeUnit(cipher, u)
         /\ ChainedUnit(cipher, u, dwStartingBlockNumber + (i - 1) \div B)
        THEN c.prefix[c.at] ELSE Garbage

(***************************************************************************)
(* Decrypt writes into the caller's buffer as it goes: `out' is what the   *)
(* buffer received, also when the padding check of the last unit throws.   *)
(***************************************************************************)
Decrypt(cipher, dwStartingBlockNumber, isFinal) ==
  LET n     == Len(cipher)
      plain == [i \in 1..n |-> PlainByte(cipher, dwStartingBlockNumber, i)]
  IN  CASE \/ ~isFinal /\ n % B # 0
           \/ n % A # 0
           \/ isFinal /\ n < A   -> [ok |-> FALSE, out |-> <<>>]
        [] ~isFinal /\ n % B = 0 -> [ok |-> TRUE, out |-> plain]
        [] OTHER ->
             IF HasPadding(plain)
               THEN [ok |-> TRUE, out |-> SubSeq(plain, 1, n - plain[n])]
               ELSE [ok |-> FALSE, out |-> SubSeq(plain, 1, n - A)]
=============================================================================
