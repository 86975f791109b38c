-------------------------- MODULE CbcCipherProofs --------------------------
(***************************************************************************)
(* What the operations on the bytes of a stream return, the arithmetic of  *)
(* blocks, and what Encrypt and Decrypt return: their types and lengths,   *)
(* when they fail, and that Decrypt undoes Encrypt.                        *)
(*                                                                         *)
(* A cipher byte depends on its block up to the end of its unit and on     *)
(* nothing else, so two plaintexts that agree there are encrypted to the   *)
(* same byte, and Decrypt finds every byte in the one it was made from.    *)
(* All of it is said byte by byte, so no induction over texts is needed.   *)
(***************************************************************************)
EXTENDS CbcCipher, TLAPS

\* n bytes b.
LEMMA RepeatType ==
  ASSUME NEW S, NEW b \in S, NEW n \in Nat
  PROVE  Repeat(b, n) \in Seq(S) /\ Len(Repeat(b, n)) = n
  BY DEF Repeat

\* Nothing, whatever the byte.
LEMMA RepeatNone ==
  ASSUME NEW S, NEW b
  PROVE  Repeat(b, 0) \in Seq(S) /\ Len(Repeat(b, 0)) = 0
<1>1. Repeat(b, 0) = <<>>
  BY DEF Repeat
<1>2. <<>> \in Seq(S) /\ Len(<<>>) = 0
  OBVIOUS
<1> QED BY <1>1, <1>2

LEMMA SliceType ==
  ASSUME NEW S, NEW s \in Seq(S), NEW off \in Nat, NEW n \in Nat
  PROVE  /\ Slice(s, off, n) \in Seq(S)
         /\ Len(Slice(s, off, n)) <= n
         /\ off + n <= Len(s) => Len(Slice(s, off, n)) = n
         /\ off <= Len(s) => off + Len(Slice(s, off, n)) <= Len(s)
  BY DEF Slice, MinOf

\* Bytes written over s from an offset within it.
LEMMA SpliceWithin ==
  ASSUME NEW S, NEW s \in Seq(S), NEW off \in 0..Len(s), NEW bytes \in Seq(S), NEW gap
  PROVE  /\ Splice(s, off, bytes, gap) \in Seq(S)
         /\ Len(Splice(s, off, bytes, gap)) = MaxOf(Len(s), off + Len(bytes))
<1>1. CASE bytes = <<>>
  BY <1>1 DEF Splice, MaxOf
<1>2. CASE bytes # <<>>
  <2> DEFINE a == SubSeq(s, 1, off)
             r == Repeat(gap, 0)
             c == SubSeq(s, off + Len(bytes) + 1, Len(s))
  <2>1. a \in Seq(S) /\ Len(a) = off
    OBVIOUS
  <2>2. r \in Seq(S) /\ Len(r) = 0
    BY RepeatNone
  <2>3. /\ c \in Seq(S)
        /\ off + Len(bytes) < Len(s) => Len(c) = Len(s) - (off + Len(bytes))
        /\ off + Len(bytes) >= Len(s) => Len(c) = 0
    OBVIOUS
  <2>4. Splice(s, off, bytes, gap) = a \o r \o bytes \o c
    <3>1. MinOf(off, Len(s)) = off /\ off - off = 0
      BY DEF MinOf
    <3> QED BY <1>2, <3>1 DEF Splice
  <2> HIDE DEF a, r, c
  <2> DEFINE ar == a \o r
             arb == ar \o bytes
  <2>5. ar \in Seq(S) /\ Len(ar) = off
    BY <2>1, <2>2
  <2> HIDE DEF ar
  <2>6. arb \in Seq(S) /\ Len(arb) = off + Len(bytes)
    BY <2>5
  <2> HIDE DEF arb
  <2>7. arb \o c \in Seq(S) /\ Len(arb \o c) = Len(arb) + Len(c)
    BY <2>3, <2>6, SMTT(60)
  <2>8. Splice(s, off, bytes, gap) = arb \o c
    BY <2>4 DEF ar, arb
  <2>9. Len(arb) + Len(c) = MaxOf(Len(s), off + Len(bytes))
    <3>1. PICK m \in Nat, k \in Nat, x \in Nat, y \in Nat :
            m = Len(s) /\ k = off + Len(bytes) /\ x = Len(c) /\ y = Len(arb)
      BY <2>3, <2>6
    <3>2. y = k /\ (k < m => x = m - k) /\ (k >= m => x = 0)
      BY <2>3, <2>6, <3>1
    <3>3. y + x = MaxOf(m, k)
      BY ONLY <3>2 DEF MaxOf
    <3> QED BY <3>1, <3>3
  <2> QED BY <2>7, <2>8, <2>9
<1> QED BY <1>1, <1>2

\* ... or beyond its end.
LEMMA SpliceType ==
  ASSUME NEW S, NEW s \in Seq(S), NEW off \in Nat, NEW bytes \in Seq(S), NEW gap \in S
  PROVE  Splice(s, off, bytes, gap) \in Seq(S)
<1> DEFINE m == MinOf(off, Len(s))
           a == SubSeq(s, 1, m)
           r == Repeat(gap, off - m)
           c == SubSeq(s, off + Len(bytes) + 1, Len(s))
<1>1. m \in 0..Len(s) /\ off - m \in Nat
  BY DEF MinOf
<1> HIDE DEF m
<1>2. a \in Seq(S) /\ c \in Seq(S)
  BY <1>1
<1>3. r \in Seq(S)
  BY <1>1, RepeatType
<1>4. Splice(s, off, bytes, gap) = IF bytes = <<>> THEN s ELSE a \o r \o bytes \o c
  BY DEF Splice, m
<1> HIDE DEF a, r, c
<1> QED BY <1>2, <1>3, <1>4

LEMMA ResizeType ==
  ASSUME NEW s \in Seq(Nat), NEW n \in Nat
  PROVE  Resize(s, n) \in Seq(Nat) /\ Len(Resize(s, n)) = n
<1>1. PICK m \in 0..Len(s), k \in Nat : m = MinOf(n, Len(s)) /\ k = n - m
  BY DEF MinOf
<1>2. PICK x \in Seq(Nat) : x = SubSeq(s, 1, m) /\ Len(x) = m
  <2>1. SubSeq(s, 1, m) \in Seq(Nat) /\ Len(SubSeq(s, 1, m)) = m
    OBVIOUS
  <2> QED BY <2>1
<1>3. PICK y \in Seq(Nat) : y = Repeat(0, k) /\ Len(y) = k
  BY RepeatType
<1>4. Len(x) = m /\ Len(y) = k /\ m + k = n
  BY <1>1, <1>2, <1>3
<1>5. x \o y \in Seq(Nat) /\ Len(x \o y) = Len(x) + Len(y)
  OBVIOUS
<1>6. Resize(s, n) = x \o y
  BY <1>1, <1>2, <1>3 DEF Resize
<1> QED BY <1>4, <1>5, <1>6

-----------------------------------------------------------------------------
(* Blocks of d bytes *)

LEMMA DivMod ==
  ASSUME NEW d \in Nat \ {0}, NEW n \in Nat
  PROVE  /\ n \div d \in Nat /\ n % d \in 0..(d - 1)
         /\ n = d * (n \div d) + (n % d)
  OBVIOUS

\* A number between two multiples.
LEMMA DivUnique ==
  ASSUME NEW d \in Nat \ {0}, NEW n \in Nat, NEW q \in Int, d * q <= n, n < d * q + d
  PROVE  n \div d = q
<1>1. /\ n \div d \in Nat /\ n % d \in 0..(d - 1) /\ n = d * (n \div d) + (n % d)
  BY DivMod
<1> DEFINE k == n \div d
<1> HIDE DEF k
<1>2. k \in Nat /\ d * k <= n /\ n < d * k + d
  BY <1>1 DEF k
<1>3. ~(k >= q + 1)
  <2> SUFFICES ASSUME k >= q + 1 PROVE FALSE
    OBVIOUS
  <2>1. d * k >= d * (q + 1)
    BY <1>2
  <2>2. d * (q + 1) = d * q + d
    OBVIOUS
  <2> QED BY <1>2, <2>1, <2>2
<1>4. ~(q >= k + 1)
  <2> SUFFICES ASSUME q >= k + 1 PROVE FALSE
    OBVIOUS
  <2>1. d * q >= d * (k + 1)
    BY <1>2
  <2>2. d * (k + 1) = d * k + d
    BY <1>2
  <2> QED BY <1>2, <2>1, <2>2
<1> QED BY <1>2, <1>3, <1>4 DEF k

LEMMA MultipleMod ==
  ASSUME NEW d \in Nat \ {0}, NEW q \in Nat
  PROVE  (q * d) % d = 0 /\ (d * q) % d = 0 /\ (q * d) \div d = q
<1>1. q * d = d * q /\ q * d \in Nat /\ d * q < d * q + d
  OBVIOUS
<1>2. PICK m \in Nat : m = q * d
  BY <1>1
<1>3. d * q <= m /\ m < d * q + d /\ q \in Int
  BY <1>1, <1>2
<1>4. m \div d = q
  BY <1>3, DivUnique
<1>5. m = d * (m \div d) + (m % d) /\ m % d \in Nat
  BY DivMod
<1>6. m % d = 0
  BY <1>2, <1>4, <1>5
<1> QED BY <1>1, <1>2, <1>4, <1>6

LEMMA ModSum ==
  ASSUME NEW d \in Nat \ {0}, NEW m \in Nat, NEW n \in Nat, m % d = 0, n % d = 0
  PROVE  (m + n) % d = 0
<1>1. m = d * (m \div d) /\ n = d * (n \div d) /\ m \div d \in Nat /\ n \div d \in Nat
  BY DivMod
<1>2. PICK q \in Nat : q = (m \div d) + (n \div d)
  BY <1>1
<1>3. m + n = d * q
  BY <1>1, <1>2
<1>4. (d * q) % d = 0
  BY <1>2, MultipleMod
<1> QED BY <1>3, <1>4

\* A multiple of a multiple.
LEMMA ModTrans ==
  ASSUME NEW a \in Nat \ {0}, NEW b \in Nat \ {0}, NEW n \in Nat, b % a = 0, n % b = 0
  PROVE  n % a = 0
<1>1. b = a * (b \div a) /\ n = b * (n \div b) /\ b \div a \in Nat /\ n \div b \in Nat
  BY DivMod
<1>2. PICK u \in Nat, v \in Nat : b = a * u /\ n = b * v
  BY <1>1
<1>3. PICK q \in Nat : q = u * v
  BY <1>2
<1>4. n = a * q
  BY <1>2, <1>3
<1>5. (a * q) % a = 0
  BY <1>3, MultipleMod
<1> QED BY <1>4, <1>5

-----------------------------------------------------------------------------
(* Cbc4kCryptoProvider *)

USE CipherSizes DEF A, B

\* A byte that some encryption has made: nobody else's, and not a hole.
CipherBytes == [blk : Nat, prefix : Seq(Int), at : Nat]

LEMMA PaddedSize ==
  ASSUME NEW n \in Nat
  PROVE  /\ GetPaddedSize(n) \in Nat /\ GetPaddedSize(n) % A = 0
         /\ n < GetPaddedSize(n) /\ GetPaddedSize(n) <= n + A
<1>1. PICK q \in Nat : q = n \div A
  BY DivMod
<1>2. n % A \in 0..(A - 1) /\ n = A * q + (n % A)
  BY <1>1, DivMod
<1>3. PICK k \in Nat : k = q + 1
  OBVIOUS
<1>4. (k * A) % A = 0 /\ k * A = A * q + A
  BY <1>3, MultipleMod
<1>5. GetPaddedSize(n) = k * A
  BY <1>1, <1>3 DEF GetPaddedSize
<1>6. k * A \in Nat
  OBVIOUS
<1> QED BY <1>2, <1>4, <1>5, <1>6

LEMMA PaddingType ==
  ASSUME NEW plain \in Seq(Int)
  PROVE  AddPadding(plain) \in Seq(Int) /\ Len(AddPadding(plain)) = GetPaddedSize(Len(plain))
<1>1. PICK l \in Nat : l = Len(plain)
  OBVIOUS
<1>2. GetPaddedSize(l) \in Nat /\ l < GetPaddedSize(l)
  BY PaddedSize
<1>3. PICK g \in Nat : g = GetPaddedSize(l)
  BY <1>2
<1>4. PICK n \in Nat : n = g - l
  BY <1>2, <1>3
<1>5. Repeat(n, n) \in Seq(Int) /\ Len(Repeat(n, n)) = n
  BY DEF Repeat
<1>6. PICK y \in Seq(Int) : y = Repeat(n, n) /\ Len(y) = n
  BY <1>5
<1>7. plain \o y \in Seq(Int) /\ Len(plain \o y) = l + n /\ l + n = g
  BY <1>1, <1>4, <1>6
<1>8. AddPadding(plain) = plain \o y
  BY <1>1, <1>3, <1>4, <1>6 DEF AddPadding
<1> QED BY <1>1, <1>3, <1>7, <1>8

\* The block and the AES unit of a byte start at it or before.
LEMMA FirstBytes ==
  ASSUME NEW i \in Nat \ {0}
  PROVE  /\ BlockFirst(i) \in 1..i
         /\ UnitFirst(i) \in 1..i /\ i < UnitFirst(i) + A
<1>1. PICK k \in Nat : k = i - 1
  OBVIOUS
<1>2. PICK q \in Nat, r \in Nat : q = k \div A /\ r = k \div B
  BY DivMod
<1>3. /\ k = A * q + (k % A) /\ k % A \in 0..(A - 1)
      /\ k = B * r + (k % B) /\ k % B \in 0..(B - 1)
  BY <1>2, DivMod
<1>4. q * A = A * q /\ r * B = B * r /\ A * q \in Nat /\ B * r \in Nat
  OBVIOUS
<1>5. BlockFirst(i) = B * r + 1 /\ UnitFirst(i) = A * q + 1
  BY <1>1, <1>2, <1>4 DEF BlockFirst, UnitFirst
<1> QED BY <1>1, <1>3, <1>4, <1>5

LEMMA CipherByteType ==
  ASSUME NEW text \in Seq(Int), Len(text) % A = 0, NEW b \in Nat, NEW i \in 1..Len(text)
  PROVE  CipherByte(text, b, i) \in CipherBytes
<1>1. PICK u \in 1..i, f \in 1..i : u = UnitFirst(i) /\ f = BlockFirst(i) /\ i < u + A
  BY FirstBytes, SMTT(60)
<1>2. u + A - 1 <= Len(text)
  <2>1. PICK n \in Nat, l \in Nat : l = Len(text) /\ l = A * n
    <3>1. PICK l \in Nat : l = Len(text) /\ l % A = 0
      OBVIOUS
    <3>2. l \div A \in Nat /\ l = A * (l \div A) + (l % A)
      BY DivMod
    <3>3. PICK n \in Nat : n = l \div A
      BY <3>2
    <3>4. l = A * n
      BY <3>1, <3>2, <3>3
    <3> QED BY <3>1, <3>4
  <2>2. PICK q \in Nat : u = A * q + 1
    <3>1. (i - 1) \div A \in Nat
      OBVIOUS
    <3>2. PICK q \in Nat : q = (i - 1) \div A
      BY <3>1
    <3>3. u = A * q + 1
      BY <1>1, <3>2 DEF UnitFirst
    <3> QED BY <3>3
  <2>3. A * q < A * n
    BY <2>1, <2>2
  <2>4. ~(q >= n)
    <3> SUFFICES ASSUME q >= n PROVE FALSE
      OBVIOUS
    <3>1. A * q >= A * n
      OBVIOUS
    <3> QED BY <2>3, <3>1
  <2>5. A * (q + 1) <= A * n /\ A * (q + 1) = A * q + A
    BY <2>4
  <2> QED BY <2>1, <2>2, <2>5
<1>3. PICK e \in Nat : e = u + A - 1 /\ e <= Len(text)
  BY <1>2
<1>4. SubSeq(text, f, e) \in Seq(Int)
  BY <1>3
<1>5. b + (i - 1) \div B \in Nat /\ i - f + 1 \in Nat
  <2>1. (i - 1) \div B \in Nat
    OBVIOUS
  <2> QED BY <2>1
<1>6. CipherByte(text, b, i) = [blk |-> b + (i - 1) \div B, prefix |-> SubSeq(text, f, e), at |-> i - f + 1]
  BY <1>1, <1>3 DEF CipherByte
<1> QED BY <1>4, <1>5, <1>6 DEF CipherBytes

\* Encrypt fails for an incomplete block that is not the final one; what it returns
\* is at least as long as the plaintext and consists of whole AES units.
LEMMA EncryptType ==
  ASSUME NEW plain \in Seq(Int), NEW b \in Nat, NEW isFinal \in BOOLEAN,
         NEW e, e = Encrypt(plain, b, isFinal)
  PROVE  /\ isFinal \/ Len(plain) % B = 0 => e.ok
         /\ ~isFinal /\ Len(plain) % B # 0 => ~e.ok
         /\ e.out \in Seq(CipherBytes) /\ Len(e.out) % A = 0
         /\ e.ok => Len(plain) <= Len(e.out) /\ Len(e.out) <= Len(plain) + A
<1>1. CASE ~isFinal /\ Len(plain) % B # 0
  <2>1. e = [ok |-> FALSE, out |-> <<>>]
    BY <1>1 DEF Encrypt
  <2>2. <<>> \in Seq(CipherBytes) /\ Len(<<>>) = 0 /\ 0 % A = 0
    OBVIOUS
  <2>3. e.ok = FALSE /\ e.out = <<>>
    BY <2>1
  <2> QED BY <1>1, <2>2, <2>3
<1>2. CASE isFinal \/ Len(plain) % B = 0
  <2>1. PICK text \in Seq(Int) :
          /\ text = IF isFinal THEN AddPadding(plain) ELSE plain
          /\ Len(text) % A = 0 /\ Len(plain) <= Len(text) /\ Len(text) <= Len(plain) + A
    <3>0. PICK l \in Nat : l = Len(plain)
      OBVIOUS
    <3>1. CASE isFinal
      <4>1. /\ AddPadding(plain) \in Seq(Int) /\ Len(AddPadding(plain)) = GetPaddedSize(l)
            /\ GetPaddedSize(l) % A = 0 /\ l < GetPaddedSize(l) /\ GetPaddedSize(l) <= l + A
            /\ GetPaddedSize(l) \in Nat
        BY <3>0, PaddingType, PaddedSize
      <4> QED BY <3>0, <3>1, <4>1
    <3>2. CASE ~isFinal
      <4>1. l % A = 0
        BY <1>2, <3>0, <3>2, ModTrans
      <4> QED BY <3>0, <3>2, <4>1
    <3> QED BY <3>1, <3>2
  <2>2. PICK out : out = [i \in 1..Len(text) |-> CipherByte(text, b, i)]
    OBVIOUS
  <2>3. e = [ok |-> TRUE, out |-> out]
    BY <1>2, <2>1, <2>2 DEF Encrypt
  <2>4. out \in Seq(CipherBytes) /\ Len(out) = Len(text)
    <3>1. \A i \in 1..Len(text) : CipherByte(text, b, i) \in CipherBytes
      BY <2>1, CipherByteType
    <3> QED BY <2>2, <3>1
  <2>5. e.ok = TRUE /\ e.out = out
    BY <2>3
  <2> QED BY <1>2, <2>1, <2>4, <2>5
<1> QED BY <1>1, <1>2

\* A byte that is decrypted within a whole unit is one of the plaintext.
LEMMA PlainByteType ==
  ASSUME NEW cipher \in Seq(CipherBytes), NEW b \in Nat, NEW i \in 1..Len(cipher)
  PROVE  PlainByte(cipher, b, i) \in Int
<1>1. PICK u \in 1..i : u = UnitFirst(i) /\ i < u + A
  BY FirstBytes, SMTT(60)
<1>2. CASE WholeUnit(cipher, u)
  <2>1. PICK p \in Seq(Int) : p = cipher[i].prefix
    <3>1. cipher[i] \in CipherBytes
      OBVIOUS
    <3> QED BY <3>1 DEF CipherBytes
  <2>2. PICK j \in 0..(A - 1) : i = u + j
    <3>1. i - u \in 0..(A - 1) /\ i = u + (i - u)
      BY <1>1
    <3> QED BY <3>1
  <2>3. cipher[i].prefix = cipher[u].prefix /\ cipher[i].at = Len(cipher[u].prefix) - A + 1 + j
        /\ Len(cipher[u].prefix) >= A
    BY <1>2, <2>2 DEF WholeUnit
  <2>4. cipher[i].at \in 1..Len(p)
    BY <2>1, <2>3
  <2>5. p[cipher[i].at] \in Int
    BY <2>4
  <2> QED BY <2>1, <2>5 DEF PlainByte, Garbage
<1>3. CASE ~WholeUnit(cipher, u)
  BY <1>1, <1>3 DEF PlainByte, Garbage
<1> QED BY <1>2, <1>3

\* Decrypt delivers no more bytes than it is given, also where it throws; a whole block
\* that is not the final one never fails.
LEMMA DecryptType ==
  ASSUME NEW cipher \in Seq(CipherBytes), NEW b \in Nat, NEW isFinal \in BOOLEAN,
         NEW d, d = Decrypt(cipher, b, isFinal)
  PROVE  /\ d.out \in Seq(Int) /\ Len(d.out) <= Len(cipher)
         /\ ~isFinal /\ Len(cipher) % B = 0 => d.ok /\ Len(d.out) = Len(cipher)
<1>1. PICK n \in Nat : n = Len(cipher)
  OBVIOUS
<1>2. PICK plain \in Seq(Int) :
        plain = [i \in 1..n |-> PlainByte(cipher, b, i)] /\ Len(plain) = n
  <2>1. [i \in 1..n |-> PlainByte(cipher, b, i)] \in Seq(Int)
    BY <1>1, PlainByteType
  <2>2. Len([i \in 1..n |-> PlainByte(cipher, b, i)]) = n
    OBVIOUS
  <2> QED BY <2>1, <2>2
<1>3. CASE \/ ~isFinal /\ n % B # 0
           \/ n % A # 0
           \/ isFinal /\ n < A
  <2>1. d = [ok |-> FALSE, out |-> <<>>]
    <3>1. CASE ~isFinal /\ n % B # 0
      BY <1>1, <3>1 DEF Decrypt
    <3>2. CASE n % A # 0
      <4>1. n % B # 0
        BY <3>2, ModTrans
      <4> QED BY <1>1, <3>2, <4>1 DEF Decrypt
    <3>3. CASE isFinal /\ n < A
      BY <1>1, <3>3 DEF Decrypt
    <3> QED BY <1>3, <3>1, <3>2, <3>3
  <2>2. n % B = 0 => n % A = 0
    BY ModTrans
  <2>3. d.ok = FALSE /\ d.out = <<>> /\ <<>> \in Seq(Int) /\ Len(<<>>) = 0
    BY <2>1
  <2> QED BY <1>1, <1>3, <2>2, <2>3
<1>4. CASE ~isFinal /\ n % B = 0
  <2>1. n % A = 0
    BY <1>4, ModTrans
  <2>2. d = [ok |-> TRUE, out |-> plain]
    BY <1>1, <1>2, <1>4, <2>1 DEF Decrypt
  <2> QED BY <1>1, <1>2, <2>2
<1>5. CASE isFinal /\ n % A = 0 /\ n >= A
  <2>1. d = IF HasPadding(plain) THEN [ok |-> TRUE, out |-> SubSeq(plain, 1, n - plain[n])]
            ELSE [ok |-> FALSE, out |-> SubSeq(plain, 1, n - A)]
    BY <1>1, <1>2, <1>5 DEF Decrypt
  <2>2. CASE HasPadding(plain)
    <3>1. PICK k \in 1..A : k = plain[n]
      BY <1>2, <2>2 DEF HasPadding
    <3>2. PICK m \in 0..n : m = n - k
      BY <1>5
    <3>3. SubSeq(plain, 1, m) \in Seq(Int) /\ Len(SubSeq(plain, 1, m)) = m
      BY <1>2
    <3>4. d.ok = TRUE /\ d.out = SubSeq(plain, 1, m)
      BY <2>1, <2>2, <3>1, <3>2, SMTT(60)
    <3>5. d.out \in Seq(Int) /\ Len(d.out) = m
      BY <3>3, <3>4
    <3>6. Len(d.out) <= Len(cipher)
      BY <1>1, <3>2, <3>5
    <3> QED BY <1>5, <3>5, <3>6
  <2>3. CASE ~HasPadding(plain)
    <3>1. PICK m \in 0..n : m = n - A
      BY <1>5
    <3>2. SubSeq(plain, 1, m) \in Seq(Int) /\ Len(SubSeq(plain, 1, m)) = m
      BY <1>2
    <3>3. d.ok = FALSE /\ d.out = SubSeq(plain, 1, m)
      BY <2>1, <2>3, <3>1
    <3>4. d.out \in Seq(Int) /\ Len(d.out) = m
      BY <3>2, <3>3
    <3>5. Len(d.out) <= Len(cipher)
      BY <1>1, <3>1, <3>4
    <3> QED BY <1>5, <3>4, <3>5
  <2> QED BY <2>2, <2>3
<1> QED BY <1>3, <1>4, <1>5

-----------------------------------------------------------------------------
(* What is encrypted is decrypted again *)

LEMMA SameSeq ==
  ASSUME NEW S, NEW s \in Seq(S), NEW t \in Seq(S), Len(s) = Len(t),
         \A i \in 1..Len(s) : s[i] = t[i]
  PROVE  s = t
  OBVIOUS

LEMMA Divide ==
  ASSUME NEW d \in Nat \ {0}, NEW n \in Nat
  PROVE  \E q \in Nat, r \in 0..(d - 1) : n = d * q + r
<1>1. n \div d \in Nat /\ n % d \in 0..(d - 1) /\ n = d * (n \div d) + (n % d)
  BY DivMod
<1>2. PICK q \in Nat : q = n \div d
  BY <1>1
<1>3. PICK r \in 0..(d - 1) : r = n % d
  BY <1>1
<1>4. n = d * q + r
  BY <1>1, <1>2, <1>3
<1> QED BY <1>4

\* A block is a whole number of units.
LEMMA BlockUnits == \E m \in Nat : B = A * m
<1>1. B \div A \in Nat /\ B = A * (B \div A) + (B % A) /\ B % A = 0
  BY DivMod
<1>2. PICK m \in Nat : m = B \div A
  BY <1>1
<1>3. B = A * m
  BY <1>1, <1>2
<1> QED BY <1>3

\* i is byte t + 1 of unit w of block q; the block starts at offset Q, the unit W later.
AtPlace(i, q, w, t, Q, W) ==
  Q = q * B /\ W = w * A /\ W + A <= B /\ i = Q + W + t + 1

LEMMA PlaceOf ==
  ASSUME NEW i \in Nat, NEW q \in Nat, NEW w \in Nat, NEW t \in 0..(A - 1),
         NEW Q \in Nat, NEW W \in Nat, AtPlace(i, q, w, t, Q, W)
  PROVE  /\ i \in Nat \ {0} /\ (i - 1) \div B = q
         /\ BlockFirst(i) = Q + 1 /\ UnitFirst(i) = Q + W + 1
<1>1. Q = q * B /\ W = w * A /\ W + A <= B /\ i = Q + W + t + 1
  BY DEF AtPlace
<1>2. PICK k \in Nat : k = Q + W + t /\ i = k + 1
  BY <1>1
<1>3. k \div B = q
  <2>1. B * q <= k /\ k < B * q + B /\ q \in Int
    BY <1>1, <1>2
  <2> QED BY <2>1, DivUnique
<1>4. PICK m \in Nat : B = A * m
  BY BlockUnits
<1>5. PICK n \in Nat : n = q * m + w /\ A * n = Q + W
  <2>1. PICK x \in Nat : x = q * m
    BY <1>1
  <2>2. A * (x + w) = A * x + w * A
    BY <1>1
  <2>3. A * x = Q
    BY <1>1, <1>4, <2>1
  <2> QED BY <1>1, <2>1, <2>2, <2>3
<1>6. k \div A = n
  <2>1. A * n <= k /\ k < A * n + A /\ n \in Int
    BY <1>1, <1>2, <1>5
  <2> QED BY <2>1, DivUnique
<1>7. i - 1 = k /\ n * A = A * n
  BY <1>2
<1>8. BlockFirst(i) = Q + 1 /\ UnitFirst(i) = Q + W + 1
  BY <1>1, <1>3, <1>5, <1>6, <1>7 DEF BlockFirst, UnitFirst
<1> QED BY <1>2, <1>3, <1>7, <1>8

\* Every byte has such a place.
LEMMA HasPlace ==
  ASSUME NEW i \in Nat \ {0}
  PROVE  \E q \in Nat, w \in Nat, t \in 0..(A - 1), Q \in Nat, W \in Nat :
           AtPlace(i, q, w, t, Q, W)
<1>1. PICK k \in Nat : k = i - 1
  OBVIOUS
<1>2. PICK q \in Nat, x \in 0..(B - 1) : k = B * q + x
  BY Divide, ZenonT(60)
<1>3. PICK w \in Nat, t \in 0..(A - 1) : x = A * w + t
  <2>1. x \in Nat
    OBVIOUS
  <2> QED BY <2>1, Divide, ZenonT(60)
<1>4. PICK m \in Nat : B = A * m
  BY BlockUnits
<1>5. A * w < A * m
  BY <1>3, <1>4
<1>6. ~(w >= m)
  <2> SUFFICES ASSUME w >= m PROVE FALSE
    OBVIOUS
  <2>1. A * w >= A * m
    OBVIOUS
  <2> QED BY <1>5, <2>1
<1>7. A * (w + 1) <= A * m /\ A * (w + 1) = A * w + A
  BY <1>6
<1>8. PICK Q \in Nat, W \in Nat : Q = q * B /\ W = w * A
  OBVIOUS
<1>9. W + A <= B
  BY <1>4, <1>7, <1>8
<1>10. i = Q + W + t + 1
  BY <1>1, <1>2, <1>3, <1>8
<1>11. AtPlace(i, q, w, t, Q, W)
  BY <1>8, <1>9, <1>10 DEF AtPlace
<1> QED BY <1>11

LEMMA SubSeqFacts ==
  ASSUME NEW S, NEW s \in Seq(S), NEW f \in Nat \ {0}, NEW l \in Nat, l <= Len(s), f <= l + 1
  PROVE  /\ SubSeq(s, f, l) \in Seq(S) /\ Len(SubSeq(s, f, l)) = l - f + 1
         /\ \A i \in 1..(l - f + 1) : SubSeq(s, f, l)[i] = s[f + i - 1]
<1>1. SubSeq(s, f, l) \in Seq(S)
  OBVIOUS
<1>2. Len(SubSeq(s, f, l)) = l - f + 1
  OBVIOUS
<1>3. \A i \in 1..(l - f + 1) : SubSeq(s, f, l)[i] = s[f + i - 1]
  OBVIOUS
<1> QED BY <1>1, <1>2, <1>3

\* c is what text encrypts to from its block s on, for Len(c) bytes.
CipherOf(c, text, s) ==
  /\ Len(c) % A = 0 /\ s * B + Len(c) <= Len(text)
  /\ \A j \in 1..Len(c) : c[j] = CipherByte(text, 0, s * B + j)

\* One unit of it: block q of c is block r of text, which starts at offset S.
UnitAt(c, s, q, w, Q, W, r, S) ==
  /\ Q = q * B /\ W = w * A /\ W + A <= B /\ Q + W + A <= Len(c)
  /\ r = s + q /\ S = r * B /\ S = s * B + Q

LEMMA UnitOfCipher ==
  ASSUME NEW text \in Seq(Int), NEW s \in Nat, NEW c \in Seq(CipherBytes), CipherOf(c, text, s),
         NEW q \in Nat, NEW w \in Nat, NEW Q \in Nat, NEW W \in Nat, NEW r \in Nat, NEW S \in Nat,
         UnitAt(c, s, q, w, Q, W, r, S)
  PROVE  \E P \in Seq(Int) :
           /\ P = SubSeq(text, S + 1, S + W + A) /\ Len(P) = W + A
           /\ \A i \in 1..(W + A) : P[i] = text[S + i]
           /\ \A t \in 0..(A - 1) :
                c[Q + W + 1 + t] = [blk |-> r, prefix |-> P, at |-> W + t + 1]
           /\ WholeUnit(c, Q + W + 1)
<1>1. W + A <= B /\ Q + W + A <= Len(c)
  BY DEF UnitAt
<1>2. PICK R \in Nat : R = s * B
  OBVIOUS
<1>3. S = R + Q
  BY <1>2 DEF UnitAt
<1>4. R + Len(c) <= Len(text) /\ \A j \in 1..Len(c) : c[j] = CipherByte(text, 0, R + j)
  BY <1>2 DEF CipherOf
<1>5. Len(c) \in Nat /\ Len(text) \in Nat
  OBVIOUS
<1>6. S + W + A <= Len(text)
  BY <1>1, <1>3, <1>4, <1>5
<1>7. PICK P \in Seq(Int) :
        /\ P = SubSeq(text, S + 1, S + W + A) /\ Len(P) = W + A
        /\ \A i \in 1..(W + A) : P[i] = text[S + i]
  <2>1. S + 1 \in Nat \ {0} /\ S + W + A \in Nat /\ S + 1 <= (S + W + A) + 1
    OBVIOUS
  <2>2. /\ SubSeq(text, S + 1, S + W + A) \in Seq(Int)
        /\ Len(SubSeq(text, S + 1, S + W + A)) = (S + W + A) - (S + 1) + 1
        /\ \A i \in 1..((S + W + A) - (S + 1) + 1) :
             SubSeq(text, S + 1, S + W + A)[i] = text[(S + 1) + i - 1]
    BY <1>6, <2>1, SubSeqFacts
  <2>3. (S + W + A) - (S + 1) + 1 = W + A
    OBVIOUS
  <2>4. \A i \in 1..(W + A) : SubSeq(text, S + 1, S + W + A)[i] = text[S + i]
    <3> TAKE i \in 1..(W + A)
    <3>1. (S + 1) + i - 1 = S + i
      OBVIOUS
    <3> QED BY <2>2, <2>3, <3>1
  <2>5. Len(SubSeq(text, S + 1, S + W + A)) = W + A
    BY <2>2, <2>3
  <2> QED BY <2>2, <2>4, <2>5
<1>8. PICK u \in Nat : u = Q + W + 1
  OBVIOUS
<1>9. ASSUME NEW t \in 0..(A - 1)
      PROVE  c[u + t] = [blk |-> r, prefix |-> P, at |-> W + t + 1]
  <2>1. PICK j \in Nat : j = u + t
    BY <1>8
  <2>2. j \in 1..Len(c)
    BY <1>1, <1>5, <1>8, <2>1
  <2>3. c[j] = CipherByte(text, 0, R + j)
    BY <1>4, <2>2
  <2>4. PICK i \in Nat : i = R + j
    OBVIOUS
  <2>5. i = S + W + t + 1
    BY <1>3, <1>8, <2>1, <2>4
  <2>6. S = r * B /\ W = w * A
    BY DEF UnitAt
  <2>7. AtPlace(i, r, w, t, S, W)
    BY <1>1, <2>5, <2>6 DEF AtPlace
  <2>8. (i - 1) \div B = r /\ BlockFirst(i) = S + 1 /\ UnitFirst(i) = S + W + 1
    BY <2>7, PlaceOf, SMTT(60)
  <2>9. (S + W + 1) + A - 1 = S + W + A /\ 0 + r = r
    OBVIOUS
  <2>10. i - (S + 1) + 1 = W + t + 1
    BY <2>5
  <2>11. CipherByte(text, 0, i) =
           [blk |-> r, prefix |-> SubSeq(text, S + 1, S + W + A), at |-> W + t + 1]
    BY <2>8, <2>9, <2>10 DEF CipherByte
  <2> QED BY <1>7, <2>1, <2>3, <2>4, <2>11
<1>10. WholeUnit(c, u)
  <2>1. u + 0 = u /\ 0 \in 0..(A - 1)
    BY <1>8
  <2>2. c[u] = [blk |-> r, prefix |-> P, at |-> W + 0 + 1]
    BY <1>9, <2>1
  <2>3. c[u].prefix = P /\ c[u].blk = r
    BY <2>2
  <2>4. ASSUME NEW j \in 0..(A - 1)
        PROVE  c[u + j].blk = r /\ c[u + j].prefix = P /\ c[u + j].at = Len(P) - A + 1 + j
    <3>1. c[u + j] = [blk |-> r, prefix |-> P, at |-> W + j + 1]
      BY <1>9
    <3>2. W + j + 1 = (W + A) - A + 1 + j
      OBVIOUS
    <3> QED BY <1>7, <3>1, <3>2
  <2>5. W + A >= A
    OBVIOUS
  <2>6. Len(P) >= A
    BY <1>7, <2>5
  <2> QED BY <2>3, <2>4, <2>6 DEF WholeUnit
<1>11. Q + W + 1 = u
  BY <1>8
<1> WITNESS P \in Seq(Int)
<1> QED BY <1>7, <1>9, <1>10, <1>11

\* A unit that starts within a whole number of units ends within it.
LEMMA UnitFits ==
  ASSUME NEW n \in Nat, n % A = 0, NEW q \in Nat, NEW w \in Nat, NEW Q \in Nat, NEW W \in Nat,
         Q = q * B, W = w * A, Q + W < n
  PROVE  Q + W + A <= n
<1>1. PICK m \in Nat : B = A * m
  BY BlockUnits
<1>2. PICK k \in Nat : k = n \div A
  BY DivMod
<1>3. n = A * k
  BY <1>2, DivMod
<1>4. PICK x \in Nat : x = q * m + w
  BY <1>1
<1>5. A * x = Q + W
  <2>1. PICK y \in Nat : y = q * m
    BY <1>1
  <2>2. A * (y + w) = A * y + w * A
    BY <1>1
  <2>3. A * y = Q
    BY <1>1, <2>1
  <2> QED BY <1>4, <2>1, <2>2, <2>3
<1>6. A * x < A * k
  BY <1>3, <1>5
<1>7. ~(x >= k)
  <2> SUFFICES ASSUME x >= k PROVE FALSE
    OBVIOUS
  <2>1. A * x >= A * k
    OBVIOUS
  <2> QED BY <1>6, <2>1
<1>8. A * (x + 1) <= A * k /\ A * (x + 1) = A * x + A
  BY <1>7
<1> QED BY <1>3, <1>5, <1>8

LEMMA SubSubSeq ==
  ASSUME NEW S, NEW s \in Seq(S), NEW f \in Nat, NEW m \in Nat, NEW l \in Nat,
         m <= l, f + l <= Len(s)
  PROVE  SubSeq(SubSeq(s, f + 1, f + l), 1, m) = SubSeq(s, f + 1, f + m)
<1>1. /\ SubSeq(s, f + 1, f + l) \in Seq(S) /\ Len(SubSeq(s, f + 1, f + l)) = l
      /\ \A i \in 1..l : SubSeq(s, f + 1, f + l)[i] = s[f + i]
  OBVIOUS
<1>2. /\ SubSeq(s, f + 1, f + m) \in Seq(S) /\ Len(SubSeq(s, f + 1, f + m)) = m
      /\ \A i \in 1..m : SubSeq(s, f + 1, f + m)[i] = s[f + i]
  OBVIOUS
<1>3. PICK t \in Seq(S) : t = SubSeq(s, f + 1, f + l)
  BY <1>1
<1>4. SubSeq(t, 1, m) \in Seq(S) /\ Len(SubSeq(t, 1, m)) = m
      /\ \A i \in 1..m : SubSeq(t, 1, m)[i] = t[i]
  BY <1>1, <1>3
<1>5. \A i \in 1..m : SubSeq(t, 1, m)[i] = s[f + i]
  BY <1>1, <1>3, <1>4
<1> QED BY <1>2, <1>3, <1>4, <1>5, SameSeq

LEMMA UnitPlace ==
  ASSUME NEW c, NEW s \in Nat, NEW q \in Nat, NEW w \in Nat, NEW Q \in Nat, NEW W \in Nat,
         NEW r \in Nat, NEW S \in Nat, UnitAt(c, s, q, w, Q, W, r, S)
  PROVE  BlockFirst(Q + W + 1) = Q + 1
<1>1. Q = q * B /\ W = w * A /\ W + A <= B
  BY DEF UnitAt
<1>2. PICK i \in Nat, t \in 0..(A - 1) : i = Q + W + 1 /\ t = 0
  OBVIOUS
<1>3. i = Q + W + t + 1
  BY <1>2
<1>4. AtPlace(i, q, w, t, Q, W)
  BY <1>1, <1>3 DEF AtPlace
<1>5. (i - 1) \div B = q /\ BlockFirst(i) = Q + 1 /\ UnitFirst(i) = Q + W + 1
  BY <1>4, PlaceOf
<1> QED BY <1>2, <1>5

\* The unit is chained to what stands before it.
LEMMA UnitChained ==
  ASSUME NEW text \in Seq(Int), NEW s \in Nat, NEW c \in Seq(CipherBytes), CipherOf(c, text, s),
         NEW q \in Nat, NEW w \in Nat, NEW Q \in Nat, NEW W \in Nat, NEW r \in Nat, NEW S \in Nat,
         UnitAt(c, s, q, w, Q, W, r, S)
  PROVE  ChainedUnit(c, Q + W + 1, r)
<1>1. PICK P \in Seq(Int) :
        /\ P = SubSeq(text, S + 1, S + W + A) /\ Len(P) = W + A
        /\ \A i \in 1..(W + A) : P[i] = text[S + i]
        /\ \A t \in 0..(A - 1) :
             c[Q + W + 1 + t] = [blk |-> r, prefix |-> P, at |-> W + t + 1]
        /\ WholeUnit(c, Q + W + 1)
  BY UnitOfCipher
<1>2. PICK u \in Nat : u = Q + W + 1
  OBVIOUS
<1>3. 0 \in 0..(A - 1) /\ Q + W + 1 + 0 = u
  BY <1>2
<1>4. c[u] = [blk |-> r, prefix |-> P, at |-> W + 0 + 1]
  BY <1>1, <1>3
<1>5. c[u].blk = r /\ c[u].prefix = P
  BY <1>4
<1>6. BlockFirst(u) = Q + 1
  <2>1. BlockFirst(Q + W + 1) = Q + 1
    BY UnitPlace
  <2> QED BY <1>2, <2>1
<1>7. CASE W = 0
  <2>1. u = BlockFirst(u) /\ Len(P) = A
    BY <1>1, <1>2, <1>6, <1>7
  <2> QED BY <1>2, <1>5, <2>1 DEF ChainedUnit
<1>8. CASE W # 0
  <2>1. w # 0 /\ W = w * A
    BY <1>8 DEF UnitAt
  <2>2. PICK x \in Nat : x = w - 1
    BY <2>1
  <2>3. x * A = W - A
    <3>1. w = x + 1
      BY <2>2
    <3>2. (x + 1) * A = x * A + A
      OBVIOUS
    <3> QED BY <2>1, <3>1, <3>2
  <2>4. PICK X \in Nat : X = x * A
    OBVIOUS
  <2>5. W = X + A
    BY <2>3, <2>4
  <2>6. UnitAt(c, s, q, x, Q, X, r, S)
    BY <2>4, <2>5 DEF UnitAt
  <2>7. PICK P1 \in Seq(Int) :
          /\ P1 = SubSeq(text, S + 1, S + X + A) /\ Len(P1) = X + A
          /\ \A i \in 1..(X + A) : P1[i] = text[S + i]
          /\ \A t \in 0..(A - 1) :
               c[Q + X + 1 + t] = [blk |-> r, prefix |-> P1, at |-> X + t + 1]
          /\ WholeUnit(c, Q + X + 1)
    BY <2>6, UnitOfCipher, ZenonT(60)
  <2>8. Q + X + 1 = u - A /\ Q + X + 1 + 0 = u - A /\ S + X + A = S + W
    BY <1>2, <2>5
  <2>9. c[u - A] = [blk |-> r, prefix |-> P1, at |-> X + 0 + 1]
    BY <1>3, <2>7, <2>8
  <2>10. c[u - A].blk = r /\ c[u - A].prefix = P1
    BY <2>9
  <2>11. SubSeq(P, 1, Len(P) - A) = P1
    <3>1. S + W + A <= Len(text)
      <4>1. PICK R \in Nat : R = s * B
        OBVIOUS
      <4>2. S = R + Q /\ Q + W + A <= Len(c)
        BY <4>1 DEF UnitAt
      <4>3. R + Len(c) <= Len(text)
        BY <4>1 DEF CipherOf
      <4>4. Len(c) \in Nat /\ Len(text) \in Nat
        OBVIOUS
      <4> QED BY <4>2, <4>3, <4>4
    <3>2. PICK l \in Nat : l = W + A
      OBVIOUS
    <3>3. W <= l /\ S + l <= Len(text) /\ S + W + A = S + l
      BY <3>1, <3>2
    <3>4. SubSeq(SubSeq(text, S + 1, S + l), 1, W) = SubSeq(text, S + 1, S + W)
      BY <3>3, SubSubSeq
    <3>5. (W + A) - A = W
      OBVIOUS
    <3> QED BY <1>1, <2>7, <2>8, <3>3, <3>4, <3>5
  <2>12. u # BlockFirst(u)
    BY <1>2, <1>6, <1>8
  <2> QED BY <1>2, <1>5, <2>7, <2>8, <2>10, <2>11, <2>12 DEF ChainedUnit
<1> QED BY <1>7, <1>8

\* Decrypting gives the byte that was encrypted.
LEMMA PlainByteOf ==
  ASSUME NEW text \in Seq(Int), NEW s \in Nat, NEW c \in Seq(CipherBytes), CipherOf(c, text, s),
         NEW j \in 1..Len(c), NEW R \in Nat, R = s * B
  PROVE  PlainByte(c, s, j) = text[R + j]
<1>1. Len(c) \in Nat /\ j \in Nat \ {0}
  OBVIOUS
<1>2. PICK q \in Nat, w \in Nat, t \in 0..(A - 1), Q \in Nat, W \in Nat :
        AtPlace(j, q, w, t, Q, W)
  BY <1>1, HasPlace
<1>3. (j - 1) \div B = q /\ UnitFirst(j) = Q + W + 1
  <2>1. j \in Nat
    BY <1>1
  <2> QED BY <1>2, <2>1, PlaceOf
<1>4. Q = q * B /\ W = w * A
  BY <1>2 DEF AtPlace
<1>5. W + A <= B /\ j = Q + W + t + 1
  BY <1>2 DEF AtPlace
<1>6. Q + W < Len(c)
  BY <1>1, <1>5
<1>7. Q + W + A <= Len(c)
  <2>1. Len(c) % A = 0
    BY DEF CipherOf
  <2> QED BY <1>1, <1>4, <1>6, <2>1, UnitFits
<1>8. PICK r \in Nat, S \in Nat : r = s + q /\ S = r * B
  OBVIOUS
<1>9. S = s * B + Q
  <2>1. (s + q) * B = s * B + q * B
    OBVIOUS
  <2> QED BY <1>4, <1>8, <2>1
<1>10. UnitAt(c, s, q, w, Q, W, r, S)
  BY <1>4, <1>5, <1>7, <1>8, <1>9 DEF UnitAt
<1>11. PICK P \in Seq(Int) :
        /\ P = SubSeq(text, S + 1, S + W + A) /\ Len(P) = W + A
        /\ \A i \in 1..(W + A) : P[i] = text[S + i]
        /\ \A x \in 0..(A - 1) :
             c[Q + W + 1 + x] = [blk |-> r, prefix |-> P, at |-> W + x + 1]
        /\ WholeUnit(c, Q + W + 1)
  BY <1>10, UnitOfCipher
<1>12. ChainedUnit(c, Q + W + 1, r)
  BY <1>10, UnitChained
<1>13. Q + W + 1 + t = j
  BY <1>5
<1>14. c[j] = [blk |-> r, prefix |-> P, at |-> W + t + 1]
  BY <1>11, <1>13
<1>15. c[j].prefix[c[j].at] = P[W + t + 1]
  BY <1>14
<1>16. W + t + 1 \in 1..(W + A)
  OBVIOUS
<1>17. S + (W + t + 1) = R + j
  BY <1>5, <1>9
<1>18. P[W + t + 1] = text[R + j]
  BY <1>11, <1>16, <1>17
<1> QED BY <1>3, <1>8, <1>11, <1>12, <1>15, <1>18 DEF PlainByte

\* All of what was encrypted.
LEMMA PlainOf ==
  ASSUME NEW text \in Seq(Int), NEW s \in Nat, NEW c \in Seq(CipherBytes), CipherOf(c, text, s)
  PROVE  [i \in 1..Len(c) |-> PlainByte(c, s, i)] = SubSeq(text, s * B + 1, s * B + Len(c))
<1>1. PICK R \in Nat : R = s * B
  OBVIOUS
<1>2. PICK n \in Nat : n = Len(c)
  OBVIOUS
<1>3. R + n <= Len(text)
  BY <1>1, <1>2 DEF CipherOf
<1>4. /\ SubSeq(text, R + 1, R + n) \in Seq(Int) /\ Len(SubSeq(text, R + 1, R + n)) = n
      /\ \A i \in 1..n : SubSeq(text, R + 1, R + n)[i] = text[R + i]
  BY <1>3
<1>5. ASSUME NEW i \in 1..n PROVE PlainByte(c, s, i) = text[R + i]
  <2>1. i \in 1..Len(c)
    BY <1>2
  <2> QED BY <1>1, <2>1, PlainByteOf
<1>6. PICK t \in Seq(Int) : t = SubSeq(text, R + 1, R + n)
  BY <1>4
<1>7. t = [i \in 1..n |-> t[i]]
  <2>1. Len(t) = n
    BY <1>4, <1>6
  <2>2. t = [i \in 1..Len(t) |-> t[i]]
    OBVIOUS
  <2> QED BY <2>1, <2>2
<1>8. \A i \in 1..n : PlainByte(c, s, i) = t[i]
  BY <1>4, <1>5, <1>6
<1>9. [i \in 1..n |-> PlainByte(c, s, i)] = t
  BY <1>7, <1>8
<1> QED BY <1>1, <1>2, <1>6, <1>9

LEMMA DecryptMiddle ==
  ASSUME NEW text \in Seq(Int), NEW s \in Nat, NEW c \in Seq(CipherBytes), CipherOf(c, text, s),
         Len(c) % B = 0
  PROVE  Decrypt(c, s, FALSE) = [ok |-> TRUE, out |-> SubSeq(text, s * B + 1, s * B + Len(c))]
<1>1. Len(c) % A = 0
  BY DEF CipherOf
<1> QED BY <1>1, PlainOf DEF Decrypt

\* The padding, as it is added.
LEMMA PaddingBytes ==
  ASSUME NEW plain \in Seq(Int)
  PROVE  \E n \in 1..A :
           /\ AddPadding(plain) \in Seq(Int) /\ Len(AddPadding(plain)) = Len(plain) + n
           /\ \A i \in 1..Len(plain) : AddPadding(plain)[i] = plain[i]
           /\ \A i \in (Len(plain) + 1)..(Len(plain) + n) : AddPadding(plain)[i] = n
<1>1. PICK n \in 1..A : n = GetPaddedSize(Len(plain)) - Len(plain)
  BY PaddedSize
<1>2. PICK pad \in Seq(Int) : pad = Repeat(n, n) /\ Len(pad) = n /\ \A i \in 1..n : pad[i] = n
  <2>1. Repeat(n, n) \in Seq(Int) /\ Len(Repeat(n, n)) = n
    BY DEF Repeat
  <2> QED BY <2>1 DEF Repeat
<1>3. AddPadding(plain) = plain \o pad
  BY <1>1, <1>2 DEF AddPadding
<1>4. plain \o pad \in Seq(Int) /\ Len(plain \o pad) = Len(plain) + n
  BY <1>2
<1>5. \A i \in 1..Len(plain) : (plain \o pad)[i] = plain[i]
  OBVIOUS
<1>6. ASSUME NEW i \in (Len(plain) + 1)..(Len(plain) + n) PROVE (plain \o pad)[i] = n
  <2>1. i > Len(plain) /\ i <= Len(plain) + Len(pad) /\ i - Len(plain) \in 1..n
    BY <1>2
  <2>2. (plain \o pad)[i] = pad[i - Len(plain)]
    BY <2>1
  <2> QED BY <1>2, <2>1, <2>2
<1> QED BY <1>3, <1>4, <1>5, <1>6

LEMMA SubSeqOf ==
  ASSUME NEW S, NEW s \in Seq(S), NEW f \in Nat, NEW n \in Nat, f + n <= Len(s)
  PROVE  /\ SubSeq(s, f + 1, f + n) \in Seq(S) /\ Len(SubSeq(s, f + 1, f + n)) = n
         /\ \A i \in 1..n : SubSeq(s, f + 1, f + n)[i] = s[f + i]
  OBVIOUS

PlainBytes(c, s) == [i \in 1..Len(c) |-> PlainByte(c, s, i)]

LEMMA DecryptPadded ==
  ASSUME NEW c \in Seq(CipherBytes), NEW s, Len(c) % A = 0, Len(c) >= A,
         HasPadding(PlainBytes(c, s))
  PROVE  Decrypt(c, s, TRUE) =
           [ok  |-> TRUE,
            out |-> SubSeq(PlainBytes(c, s), 1, Len(c) - PlainBytes(c, s)[Len(c)])]
  BY DEF Decrypt, PlainBytes

LEMMA SamePrefix ==
  ASSUME NEW S, NEW s \in Seq(S), NEW t \in Seq(S), NEW f \in Nat, NEW l \in Nat, f <= l,
         l <= Len(s), l <= Len(t), \A i \in 1..l : s[i] = t[i]
  PROVE  SubSeq(s, f + 1, l) = SubSeq(t, f + 1, l)
<1>1. PICK n \in Nat : n = l - f
  OBVIOUS
<1>2. PICK x \in Seq(S) : /\ x = SubSeq(s, f + 1, l) /\ Len(x) = n
                          /\ \A i \in 1..n : x[i] = s[f + i]
  <2>1. f + n = l /\ f + n <= Len(s)
    BY <1>1
  <2>2. /\ SubSeq(s, f + 1, f + n) \in Seq(S) /\ Len(SubSeq(s, f + 1, f + n)) = n
        /\ \A i \in 1..n : SubSeq(s, f + 1, f + n)[i] = s[f + i]
    BY <2>1, SubSeqOf
  <2> QED BY <2>1, <2>2
<1>3. PICK y \in Seq(S) : /\ y = SubSeq(t, f + 1, l) /\ Len(y) = n
                          /\ \A i \in 1..n : y[i] = t[f + i]
  <2>1. f + n = l /\ f + n <= Len(t)
    BY <1>1
  <2>2. /\ SubSeq(t, f + 1, f + n) \in Seq(S) /\ Len(SubSeq(t, f + 1, f + n)) = n
        /\ \A i \in 1..n : SubSeq(t, f + 1, f + n)[i] = t[f + i]
    BY <2>1, SubSeqOf, SMTT(60)
  <2> QED BY <2>1, <2>2
<1>4. \A i \in 1..n : f + i \in 1..l
  BY <1>1
<1>5. \A i \in 1..n : x[i] = y[i]
  BY <1>2, <1>3, <1>4
<1>6. x = y
  BY <1>2, <1>3, <1>5, SameSeq
<1> QED BY <1>2, <1>3, <1>6

\* A whole number of units, if any.
LEMMA AtLeastUnit ==
  ASSUME NEW n \in Nat, n % A = 0, n # 0
  PROVE  n >= A
<1>1. n \div A \in Nat /\ n = A * (n \div A) + (n % A)
  BY DivMod
<1>2. PICK k \in Nat : k = n \div A
  BY <1>1
<1>3. n = A * k
  BY <1>1, <1>2
<1>4. k # 0
  BY <1>3
<1>5. PICK j \in Nat : k = j + 1
  BY <1>4
<1>6. A * (j + 1) = A * j + A /\ A * j >= 0
  OBVIOUS
<1> QED BY <1>3, <1>5, <1>6

\* Padding comes off as it went on.
LEMMA DecryptFinal ==
  ASSUME NEW plain \in Seq(Int), NEW s \in Nat, NEW c \in Seq(CipherBytes), c # <<>>,
         CipherOf(c, AddPadding(plain), s), s * B + Len(c) = Len(AddPadding(plain))
  PROVE  /\ s * B <= Len(plain)
         /\ Decrypt(c, s, TRUE) = [ok |-> TRUE, out |-> SubSeq(plain, s * B + 1, Len(plain))]
<1>1. PICK R \in Nat : R = s * B
  OBVIOUS
<1>2. PICK n \in Nat : n = Len(c)
  OBVIOUS
<1>3. n % A = 0 /\ n # 0
  BY <1>2 DEF CipherOf
<1>4. n >= A
  BY <1>3, AtLeastUnit
<1>5. PICK l \in Nat : l = Len(plain)
  OBVIOUS
<1>6. PICK pad \in 1..A :
        /\ AddPadding(plain) \in Seq(Int) /\ Len(AddPadding(plain)) = Len(plain) + pad
        /\ \A i \in 1..Len(plain) : AddPadding(plain)[i] = plain[i]
        /\ \A i \in (Len(plain) + 1)..(Len(plain) + pad) : AddPadding(plain)[i] = pad
  BY PaddingBytes
<1>7. PICK text \in Seq(Int) : text = AddPadding(plain)
  BY <1>6
<1>8. /\ Len(text) = l + pad /\ \A i \in 1..l : text[i] = plain[i]
      /\ \A i \in (l + 1)..(l + pad) : text[i] = pad
  BY <1>5, <1>6, <1>7
<1>9. R + n = l + pad
  BY <1>1, <1>2, <1>7, <1>8
<1>10. PICK m \in Nat : m = n - pad
  BY <1>4
<1>11. R + m = l /\ R <= l
  BY <1>9, <1>10
<1>12. PICK x \in Seq(Int) :
         /\ x = SubSeq(text, R + 1, R + n) /\ Len(x) = n
         /\ \A i \in 1..n : x[i] = text[R + i]
  <2>1. R + n <= Len(text)
    BY <1>8, <1>9
  <2>2. SubSeq(text, R + 1, R + n) \in Seq(Int)
    BY <2>1
  <2>3. Len(SubSeq(text, R + 1, R + n)) = n
    BY <2>1
  <2>4. \A i \in 1..n : SubSeq(text, R + 1, R + n)[i] = text[R + i]
    BY <2>1
  <2> QED BY <2>2, <2>3, <2>4
<1>13. \A i \in (m + 1)..n : x[i] = pad
  <2> TAKE i \in (m + 1)..n
  <2>1. i \in 1..n /\ R + i \in (l + 1)..(l + pad)
    BY <1>9, <1>10, <1>11
  <2> QED BY <1>8, <1>12, <2>1
<1>14. n \in (m + 1)..n
  BY <1>4, <1>10
<1>15. x[n] = pad
  BY <1>13, <1>14
<1>16. HasPadding(x)
  <2>1. (n - pad) + 1 = m + 1 /\ n - pad + 1 = m + 1
    BY <1>10
  <2> QED BY <1>12, <1>13, <1>15, <2>1, ZenonT(60) DEF HasPadding
<1>17. SubSeq(x, 1, n - pad) = SubSeq(plain, R + 1, l)
  <2>1. m <= n /\ R + n <= Len(text)
    BY <1>8, <1>9, <1>10
  <2>2. SubSeq(SubSeq(text, R + 1, R + n), 1, m) = SubSeq(text, R + 1, R + m)
    BY <2>1, SubSubSeq
  <2>3. l <= Len(text) /\ l <= Len(plain)
    BY <1>5, <1>8
  <2>4. SubSeq(text, R + 1, l) = SubSeq(plain, R + 1, l)
    BY <1>8, <1>11, <2>3, SamePrefix
  <2> QED BY <1>10, <1>11, <1>12, <2>2, <2>4
<1>18. PlainBytes(c, s) = x
  <2>1. CipherOf(c, text, s)
    BY <1>7
  <2>2. [i \in 1..Len(c) |-> PlainByte(c, s, i)] = SubSeq(text, s * B + 1, s * B + Len(c))
    BY <2>1, PlainOf
  <2> QED BY <1>1, <1>2, <1>12, <2>2 DEF PlainBytes
<1>19. Decrypt(c, s, TRUE) = [ok |-> TRUE, out |-> SubSeq(x, 1, n - pad)]
  BY <1>2, <1>3, <1>4, <1>15, <1>16, <1>18, DecryptPadded
<1> QED BY <1>1, <1>5, <1>11, <1>17, <1>19

\* What CBC makes of the byte at a place of the text.
ByteAt(text, r, Q, W, t) ==
  [blk |-> r, prefix |-> SubSeq(text, Q + 1, Q + (W + A)), at |-> W + t + 1]

LEMMA CipherAt ==
  ASSUME NEW i \in Nat, NEW q \in Nat, NEW w \in Nat, NEW t \in Nat, t < A,
         NEW Q \in Nat, NEW W \in Nat, AtPlace(i, q, w, t, Q, W)
  PROVE  \A text : \A b \in Nat : CipherByte(text, b, i) = ByteAt(text, b + q, Q, W, t)
<1>1. (i - 1) \div B = q /\ BlockFirst(i) = Q + 1 /\ UnitFirst(i) = Q + W + 1
  <2>1. t \in 0..(A - 1)
    OBVIOUS
  <2> QED BY <2>1, PlaceOf
<1>2. i = Q + W + t + 1
  BY DEF AtPlace
<1>3. (Q + W + 1) + A - 1 = Q + (W + A) /\ i - (Q + 1) + 1 = W + t + 1
  BY <1>2
<1> QED BY <1>1, <1>3 DEF CipherByte, ByteAt

\* Block b starts at offset R.
StartsAt(b, R) == R = b * B

\* The first m bytes of part, whole units, are those of text from offset R on.
PartAt(part, text, R, m) ==
  /\ part \in Seq(Int) /\ text \in Seq(Int)
  /\ m % A = 0 /\ m <= Len(part) /\ R + m <= Len(text)
  /\ \A i \in 1..m : part[i] = text[R + i]

\* n bytes from offset f on.
Window(s, f, n) == SubSeq(s, f + 1, f + n)

SameBytes(s, f, t, g, n) ==
  /\ s \in Seq(Int) /\ t \in Seq(Int) /\ f + n <= Len(s) /\ g + n <= Len(t)
  /\ \A k \in 1..n : s[f + k] = t[g + k]

LEMMA SameWindow ==
  ASSUME NEW part, NEW text, NEW Q \in Nat, NEW S \in Nat, NEW n \in Nat,
         SameBytes(part, Q, text, S, n)
  PROVE  Window(part, Q, n) = Window(text, S, n)
<1> USE DEF SameBytes
<1>1. PICK x \in Seq(Int) : /\ x = SubSeq(part, Q + 1, Q + n) /\ Len(x) = n
                            /\ \A k \in 1..n : x[k] = part[Q + k]
  <2>1. /\ SubSeq(part, Q + 1, Q + n) \in Seq(Int) /\ Len(SubSeq(part, Q + 1, Q + n)) = n
        /\ \A k \in 1..n : SubSeq(part, Q + 1, Q + n)[k] = part[Q + k]
    BY SubSeqOf
  <2> QED BY <2>1
<1>2. PICK y \in Seq(Int) : /\ y = SubSeq(text, S + 1, S + n) /\ Len(y) = n
                            /\ \A k \in 1..n : y[k] = text[S + k]
  <2>1. /\ SubSeq(text, S + 1, S + n) \in Seq(Int) /\ Len(SubSeq(text, S + 1, S + n)) = n
        /\ \A k \in 1..n : SubSeq(text, S + 1, S + n)[k] = text[S + k]
    BY SubSeqOf
  <2> QED BY <2>1
<1>3. \A k \in 1..n : x[k] = y[k]
  BY <1>1, <1>2
<1>4. x = y
  BY <1>1, <1>2, <1>3, SameSeq, ZenonT(60)
<1> QED BY <1>1, <1>2, <1>4 DEF Window

LEMMA SamePlace ==
  ASSUME NEW text, NEW part, NEW b \in Nat, NEW w \in Nat, NEW t \in Nat, t < A, NEW W \in Nat,
         NEW j \in Nat, NEW q \in Nat, NEW Q \in Nat, AtPlace(j, q, w, t, Q, W),
         NEW i \in Nat, NEW r \in Nat, NEW S \in Nat, AtPlace(i, r, w, t, S, W)
  PROVE  r = b + q /\ Window(part, Q, W + A) = Window(text, S, W + A)
           => CipherByte(part, b, j) = CipherByte(text, 0, i)
<1>1. /\ CipherByte(part, b, j) = ByteAt(part, b + q, Q, W, t)
      /\ CipherByte(text, 0, i) = ByteAt(text, 0 + r, S, W, t)
  BY CipherAt
<1> HAVE r = b + q /\ Window(part, Q, W + A) = Window(text, S, W + A)
<1>2. 0 + r = b + q
  OBVIOUS
<1> QED BY <1>1, <1>2 DEF ByteAt, Window

LEMMA ShiftedPlace ==
  ASSUME NEW text, NEW part, NEW b \in Nat, NEW R \in Nat, StartsAt(b, R),
         NEW m \in Nat, PartAt(part, text, R, m), NEW j \in Nat, j <= m,
         NEW q \in Nat, NEW w \in Nat, NEW t \in Nat, t < A, NEW Q \in Nat, NEW W \in Nat,
         AtPlace(j, q, w, t, Q, W)
  PROVE  CipherByte(part, b, j) = CipherByte(text, 0, R + j)
<1>1. Len(text) \in Nat /\ Len(part) \in Nat /\ text \in Seq(Int) /\ part \in Seq(Int)
  BY DEF PartAt
<1>3. W + A <= B /\ j = Q + W + t + 1 /\ Q + W < m
  BY DEF AtPlace
<1>4. Q = q * B /\ W = w * A
  BY DEF AtPlace
<1>5. Q + W + A <= m
  <2>1. m % A = 0
    BY DEF PartAt
  <2> QED BY <1>3, <1>4, <2>1, UnitFits
<1>6. PICK r \in Nat, S \in Nat, i \in Nat : r = b + q /\ S = R + Q /\ i = R + j
  BY <1>1
<1>7. S = r * B
  <2>1. (b + q) * B = b * B + q * B
    OBVIOUS
  <2> QED BY <1>4, <1>6, <2>1 DEF StartsAt
<1>8. i = S + W + t + 1
  BY <1>3, <1>6
<1>9. AtPlace(i, r, w, t, S, W)
  BY <1>3, <1>4, <1>7, <1>8 DEF AtPlace
<1>10. PICK n \in Nat : n = W + A
  OBVIOUS
<1>11. Q + n <= Len(part) /\ S + n <= Len(text) /\ Q + n <= m
  BY <1>1, <1>5, <1>6, <1>10 DEF PartAt
<1>12. ASSUME NEW k \in 1..n PROVE part[Q + k] = text[S + k]
  <2>1. Q + k \in 1..m /\ R + (Q + k) = S + k
    BY <1>6, <1>11
  <2>2. part[Q + k] = text[R + (Q + k)]
    BY <2>1 DEF PartAt
  <2> QED BY <2>1, <2>2
<1>13. Window(part, Q, n) = Window(text, S, n)
  <2>1. SameBytes(part, Q, text, S, n)
    BY <1>1, <1>11, <1>12 DEF SameBytes
  <2> QED BY <2>1, SameWindow
<1>15. CipherByte(part, b, j) = CipherByte(text, 0, i)
  <2>1. r = b + q /\ Window(part, Q, W + A) = Window(text, S, W + A)
    BY <1>6, <1>10, <1>13
  <2> QED BY <1>9, <2>1, SamePlace
<1> QED BY <1>6, <1>15

\* A byte of the ciphertext depends on its own block only, up to the end of its own unit:
\* encrypting the text from block b on gives the same bytes at the same place.
LEMMA ShiftedByte ==
  ASSUME NEW text, NEW part, NEW b \in Nat, NEW R \in Nat, StartsAt(b, R),
         NEW m \in Nat, PartAt(part, text, R, m), NEW j \in Nat, 1 <= j, j <= m
  PROVE  CipherByte(part, b, j) = CipherByte(text, 0, R + j)
<1>1. j \in Nat \ {0}
  OBVIOUS
<1>2. PICK q \in Nat, w \in Nat, t \in 0..(A - 1), Q \in Nat, W \in Nat : AtPlace(j, q, w, t, Q, W)
  BY <1>1, HasPlace
<1>3. t \in Nat /\ t < A
  OBVIOUS
<1> QED BY <1>2, <1>3, ShiftedPlace

\* The same bytes before the end of unit m encrypt to the same bytes.
LEMMA SameCipherByte ==
  ASSUME NEW text \in Seq(Int), NEW other \in Seq(Int), NEW m \in Nat, PartAt(text, other, 0, m),
         NEW j \in Nat, 1 <= j, j <= m
  PROVE  CipherByte(text, 0, j) = CipherByte(other, 0, j)
<1>1. StartsAt(0, 0)
  BY DEF StartsAt
<1>2. CipherByte(text, 0, j) = CipherByte(other, 0, 0 + j)
  BY <1>1, ShiftedByte
<1> QED BY <1>2

\* Padding a text after whole units.
LEMMA PaddedShift ==
  ASSUME NEW R \in Nat, R % A = 0, NEW l \in Nat
  PROVE  GetPaddedSize(R + l) = R + GetPaddedSize(l)
<1>1. PICK x \in Nat : R = A * x
  <2>1. R \div A \in Nat /\ R = A * (R \div A) + (R % A)
    BY DivMod
  <2> QED BY <2>1
<1>2. PICK y \in Nat, z \in 0..(A - 1) : l = A * y + z /\ y = l \div A
  <2>1. l \div A \in Nat /\ l % A \in 0..(A - 1) /\ l = A * (l \div A) + (l % A)
    BY DivMod
  <2> QED BY <2>1
<1>3. PICK n \in Nat : n = R + l
  OBVIOUS
<1>4. A * (x + y) = A * x + A * y
  OBVIOUS
<1>5. n \div A = x + y
  <2>1. A * (x + y) <= n /\ n < A * (x + y) + A /\ x + y \in Int
    BY <1>1, <1>2, <1>3, <1>4
  <2> QED BY <2>1, DivUnique
<1>6. ((x + y) + 1) * A = A * x + (y + 1) * A
  OBVIOUS
<1> QED BY <1>1, <1>2, <1>3, <1>5, <1>6 DEF GetPaddedSize

LEMMA PaddingShift ==
  ASSUME NEW text \in Seq(Int), NEW part \in Seq(Int), NEW R \in Nat, R % A = 0,
         SameBytes(part, 0, text, R, Len(part)), Len(text) = R + Len(part)
  PROVE  /\ PartAt(AddPadding(part), AddPadding(text), R, Len(AddPadding(part)))
         /\ Len(AddPadding(text)) = R + Len(AddPadding(part))
<1>1. PICK l \in Nat : l = Len(part)
  OBVIOUS
<1>2. PICK n \in 1..A :
         /\ AddPadding(part) \in Seq(Int) /\ Len(AddPadding(part)) = Len(part) + n
         /\ \A i \in 1..Len(part) : AddPadding(part)[i] = part[i]
         /\ \A i \in (Len(part) + 1)..(Len(part) + n) : AddPadding(part)[i] = n
  BY PaddingBytes
<1>3. PICK k \in 1..A :
         /\ AddPadding(text) \in Seq(Int) /\ Len(AddPadding(text)) = Len(text) + k
         /\ \A i \in 1..Len(text) : AddPadding(text)[i] = text[i]
         /\ \A i \in (Len(text) + 1)..(Len(text) + k) : AddPadding(text)[i] = k
  BY PaddingBytes
<1>4. Len(AddPadding(part)) = GetPaddedSize(l) /\ Len(AddPadding(text)) = GetPaddedSize(R + l)
  BY <1>1, PaddingType
<1>5. GetPaddedSize(R + l) = R + GetPaddedSize(l) /\ GetPaddedSize(l) % A = 0
  BY PaddedShift, PaddedSize
<1>6. n = k
  <2>1. PICK g \in Nat : g = GetPaddedSize(l)
    BY PaddedSize
  <2>2. g = l + n
    BY <1>1, <1>2, <1>4, <2>1
  <2>3. R + g = R + l + k
    BY <1>1, <1>3, <1>4, <1>5, <2>1
  <2> QED BY <2>2, <2>3
<1>7. PICK p \in Seq(Int), q \in Seq(Int) : p = AddPadding(part) /\ q = AddPadding(text)
  BY <1>2, <1>3
<1>8. ASSUME NEW i \in 1..(l + n) PROVE p[i] = q[R + i]
  <2>1. CASE i <= l
    <3>1. part[0 + i] = text[R + i] /\ 0 + i = i
      BY <1>1, <2>1 DEF SameBytes
    <3>2. R + i \in 1..Len(text) /\ i \in 1..Len(part)
      BY <1>1, <2>1
    <3> QED BY <1>2, <1>3, <1>7, <3>1, <3>2
  <2>2. CASE i > l
    <3>1. i \in (Len(part) + 1)..(Len(part) + n) /\ R + i \in (Len(text) + 1)..(Len(text) + k)
      BY <1>1, <1>6, <2>2
    <3> QED BY <1>2, <1>3, <1>6, <1>7, <3>1
  <2> QED BY <2>1, <2>2
<1>9. Len(p) = l + n /\ Len(q) = R + (l + n) /\ Len(p) % A = 0
  BY <1>1, <1>2, <1>3, <1>4, <1>5, <1>6, <1>7
<1>10. PartAt(p, q, R, Len(p))
  BY <1>8, <1>9 DEF PartAt
<1> QED BY <1>7, <1>9, <1>10

LEMMA ConcatBytes ==
  ASSUME NEW S, NEW s \in Seq(S), NEW t \in Seq(S)
  PROVE  /\ s \o t \in Seq(S) /\ Len(s \o t) = Len(s) + Len(t)
         /\ \A i \in 1..Len(s) : (s \o t)[i] = s[i]
         /\ \A i \in 1..Len(t) : (s \o t)[Len(s) + i] = t[i]
  OBVIOUS

\* x is s with bytes written over it from an offset within it.
Overwritten(x, s, off, bytes) ==
  /\ Len(x) = MaxOf(Len(s), off + Len(bytes))
  /\ \A i \in 1..off : x[i] = s[i]
  /\ \A i \in 1..Len(bytes) : x[off + i] = bytes[i]

LEMMA SpliceBytes ==
  ASSUME NEW S, NEW s \in Seq(S), NEW off \in Nat, off <= Len(s), NEW bytes \in Seq(S), NEW gap
  PROVE  /\ Splice(s, off, bytes, gap) \in Seq(S)
         /\ Overwritten(Splice(s, off, bytes, gap), s, off, bytes)
<1> USE DEF Overwritten
<1>0. PICK x : x = Splice(s, off, bytes, gap)
  OBVIOUS
<1>1. x \in Seq(S) /\ Len(x) = MaxOf(Len(s), off + Len(bytes))
  <2>1. off \in 0..Len(s)
    OBVIOUS
  <2> QED BY <1>0, <2>1, SpliceWithin
<1>2. CASE bytes = <<>>
  BY <1>0, <1>1, <1>2 DEF Splice
<1>3. CASE bytes # <<>>
  <2>1. PICK a \in Seq(S) : a = SubSeq(s, 1, off) /\ Len(a) = off /\ \A i \in 1..off : a[i] = s[i]
    <3>1. /\ SubSeq(s, 0 + 1, 0 + off) \in Seq(S) /\ Len(SubSeq(s, 0 + 1, 0 + off)) = off
          /\ \A i \in 1..off : SubSeq(s, 0 + 1, 0 + off)[i] = s[0 + i]
      BY SubSeqOf
    <3>2. 0 + 1 = 1 /\ 0 + off = off /\ \A i \in 1..off : 0 + i = i
      OBVIOUS
    <3>3. /\ SubSeq(s, 1, off) \in Seq(S) /\ Len(SubSeq(s, 1, off)) = off
      BY <3>1, <3>2
    <3>4. \A i \in 1..off : SubSeq(s, 1, off)[i] = s[i]
      BY <3>1, <3>2
    <3> QED BY <3>3, <3>4
  <2>2. PICK r \in Seq(S) : r = Repeat(gap, 0) /\ Len(r) = 0
    BY RepeatNone
  <2>3. PICK c \in Seq(S) : c = SubSeq(s, off + Len(bytes) + 1, Len(s))
    <3>1. SubSeq(s, off + Len(bytes) + 1, Len(s)) \in Seq(S)
      OBVIOUS
    <3> QED BY <3>1
  <2>4. x = a \o r \o bytes \o c
    <3>1. MinOf(off, Len(s)) = off /\ off - off = 0
      BY DEF MinOf
    <3> QED BY <1>0, <1>3, <2>1, <2>2, <2>3, <3>1 DEF Splice
  <2>5. PICK ar \in Seq(S) : ar = a \o r
    BY ConcatBytes
  <2>6. Len(ar) = off /\ \A i \in 1..off : ar[i] = s[i]
    BY <2>1, <2>2, <2>5, ConcatBytes
  <2>7. PICK arb \in Seq(S) : arb = ar \o bytes
    BY ConcatBytes
  <2>8. /\ Len(arb) = off + Len(bytes) /\ \A i \in 1..off : arb[i] = s[i]
        /\ \A i \in 1..Len(bytes) : arb[off + i] = bytes[i]
    <3>1. /\ Len(ar \o bytes) = Len(ar) + Len(bytes)
          /\ \A i \in 1..Len(ar) : (ar \o bytes)[i] = ar[i]
          /\ \A i \in 1..Len(bytes) : (ar \o bytes)[Len(ar) + i] = bytes[i]
      BY ConcatBytes
    <3> QED BY <2>6, <2>7, <3>1
  <2>9. x = arb \o c
    BY <2>4, <2>5, <2>7
  <2>10. \A i \in 1..(off + Len(bytes)) : x[i] = arb[i]
    BY <2>8, <2>9, ConcatBytes
  <2>11. \A i \in 1..Len(bytes) : off + i \in 1..(off + Len(bytes))
    OBVIOUS
  <2>12. \A i \in 1..off : i \in 1..(off + Len(bytes))
    OBVIOUS
  <2> QED BY <1>0, <1>1, <2>8, <2>10, <2>11, <2>12
<1> QED BY <1>2, <1>3
=============================================================================
