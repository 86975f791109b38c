-------------------------- MODULE StreamUseProofs --------------------------
(***************************************************************************)
(* What a client of a protected stream gets, in the two uses the code      *)
(* serves as a plain byte stream: a stream that is only read, and a fresh  *)
(* stream that is written from its start on.  Both parts assume nothing of *)
(* the sizes of units and blocks, the texts, payloads, offsets and the     *)
(* number of calls.                                                        *)
(*                                                                         *)
(* Reading.  That reads return the content is not inductive: a call goes   *)
(* through several blocks, so ReadSoFar says what its loop has delivered;  *)
(* what it copies from is the cached block, so ReaderCache says which part *)
(* of the content that block is; and a block gets there through Decrypt,   *)
(* so ReaderFile says that the file holds the content byte by byte, which  *)
(* no step of a reader may change.  ReaderTrack adds where the position is *)
(* at each place of a call, and then every step is one of ByteStream, or   *)
(* one its client does not see.                                            *)
(*                                                                         *)
(* Writing.  The content changes at once in the mind of the client, the    *)
(* stream follows byte by byte: WriterSize and WriterRest say that what    *)
(* has reached the stream and what the call still has in hand make up the  *)
(* content.  The position stays at the end and the cached block is the     *)
(* last one (WriterCache), which holds its part of the content             *)
(* (WriterBlock); the file is right up to the block that is not written    *)
(* back (WriterFile), though behind that it may still have the padding of  *)
(* an earlier Flush.                                                       *)
(***************************************************************************)
EXTENDS ProtectedStreamProofs

USE StreamConstants, CipherSizes DEF A, B

-----------------------------------------------------------------------------
(* A file that holds a text *)

\* The first n bytes of f are those text is encrypted to.
Stored(f, text, n) == \A i \in 1..n : f[i] = CipherByte(text, 0, i)

\* f is what Encrypt makes of text, with its padding.
FileHolds(f, text) ==
  Len(f) = Len(AddPadding(text)) /\ Stored(f, AddPadding(text), Len(f))

LEMMA ModDiff ==
  ASSUME NEW d \in Nat \ {0}, NEW m \in Nat, NEW n \in Nat, m % d = 0, n % d = 0, m <= n
  PROVE  (n - m) % d = 0
<1>1. m = d * (m \div d) /\ n = d * (n \div d) /\ m \div d \in Nat /\ n \div d \in Nat
  BY DivMod
<1>2. PICK p \in Nat, q \in Nat : p = m \div d /\ q = n \div d
  BY <1>1
<1>3. m = d * p /\ n = d * q
  BY <1>1, <1>2
<1>4. p <= q
  <2> SUFFICES ASSUME p > q PROVE FALSE
    OBVIOUS
  <2>1. d * p >= d * (q + 1) /\ d * (q + 1) = d * q + d
    OBVIOUS
  <2> QED BY <1>3, <2>1
<1>5. PICK k \in Nat : k = q - p
  BY <1>4
<1>6. d * k = d * q - d * p
  BY <1>5
<1>7. n - m = d * k
  BY <1>3, <1>6
<1> QED BY <1>7, MultipleMod

LEMMA NextUnit ==
  ASSUME NEW m \in Nat, NEW n \in Nat, m % A = 0, n % A = 0, m < n
  PROVE  m + A <= n
<1>1. PICK k \in Nat : k = n - m
  OBVIOUS
<1>2. (n - m) % A = 0
  <2>1. A \in Nat \ {0} /\ m <= n
    OBVIOUS
  <2> QED BY <2>1, ModDiff
<1>3. k % A = 0 /\ k # 0
  BY <1>1, <1>2
<1>4. k >= A
  BY <1>3, AtLeastUnit
<1> QED BY <1>1, <1>4

LEMMA BlockStart ==
  ASSUME NEW b \in Nat
  PROVE  b * B \in Nat /\ (b * B) % B = 0 /\ (b * B) % A = 0
<1>1. PICK s \in Nat : s = b * B
  OBVIOUS
<1>2. (b * B) % B = 0
  BY MultipleMod
<1>3. s % B = 0 /\ B % A = 0
  BY <1>1, <1>2
<1>4. s % A = 0
  BY <1>3, ModTrans
<1> QED BY <1>1, <1>2, <1>4

LEMMA EncryptedFile ==
  ASSUME NEW text \in Seq(Int)
  PROVE  FileHolds(Encrypt(text, 0, TRUE).out, text)
<1>1. PICK t \in Seq(Int) : t = AddPadding(text)
  BY PaddingType
<1>2. PICK f : f = [i \in 1..Len(t) |-> CipherByte(t, 0, i)]
  OBVIOUS
<1>3. Encrypt(text, 0, TRUE).out = f
  BY <1>1, <1>2 DEF Encrypt
<1>4. Len(f) = Len(t) /\ \A i \in 1..Len(t) : f[i] = CipherByte(t, 0, i)
  BY <1>2
<1> QED BY <1>1, <1>3, <1>4 DEF FileHolds, Stored

\* Reading a block of the file gives the bytes of the text at its place.
LEMMA ReadOfFile ==
  ASSUME NEW f \in Seq(CipherBytes), NEW text \in Seq(Int), FileHolds(f, text), Readable,
         NEW b \in Nat, b * B < Len(f)
  PROVE  /\ Len(text) < Len(f)
         /\ SimpleRead(f, Len(f), b * B, b, IsLast(b * B, Len(f))) =
              [ok |-> TRUE, out |-> Slice(text, b * B, B)]
<1>1. PICK start \in Nat : start = b * B /\ start % B = 0 /\ start % A = 0
  BY BlockStart
<1>2. PICK n \in Nat : n = Len(f)
  OBVIOUS
<1>3. PICK l \in Nat : l = Len(text)
  OBVIOUS
<1>4. PICK pad \in Seq(Int) : pad = AddPadding(text) /\ Len(pad) = GetPaddedSize(l)
  BY <1>3, PaddingType
<1>5. n = Len(pad) /\ \A i \in 1..n : f[i] = CipherByte(pad, 0, i)
  BY <1>2, <1>4 DEF FileHolds, Stored
<1>6. n % A = 0 /\ l < n /\ n <= l + A
  BY <1>4, <1>5, PaddedSize
<1>7. \A i \in 1..l : pad[i] = text[i]
  <2>1. \A i \in 1..Len(text) : AddPadding(text)[i] = text[i]
    BY PaddingBytes
  <2> QED BY <1>3, <1>4, <2>1
<1>8. start < n
  BY <1>1, <1>2
<1>9. PICK k \in Nat : k = MinOf(B, n - start)
  <2>1. MinOf(B, n - start) \in Nat
    BY <1>8 DEF MinOf
  <2> QED BY <2>1
<1>10. /\ k > 0 /\ start + k <= n
       /\ start + B >= n => k = n - start
       /\ start + B < n => k = B
  BY <1>8, <1>9 DEF MinOf
<1>11. k % A = 0
  <2>1. CASE start + B >= n
    <3>1. A \in Nat \ {0} /\ start <= n /\ start % A = 0 /\ n % A = 0
      BY <1>1, <1>6, <1>8
    <3>2. (n - start) % A = 0
      BY <3>1, ModDiff
    <3> QED BY <1>10, <2>1, <3>2
  <2>2. CASE start + B < n
    BY <1>10, <2>2
  <2> QED BY <2>1, <2>2
<1>12. PICK c \in Seq(CipherBytes) :
         /\ c = SubSeq(f, start + 1, start + k) /\ Len(c) = k
         /\ \A i \in 1..k : c[i] = f[start + i]
  <2>1. start + k <= Len(f)
    BY <1>2, <1>10
  <2>2. /\ SubSeq(f, start + 1, start + k) \in Seq(CipherBytes)
        /\ Len(SubSeq(f, start + 1, start + k)) = k
        /\ \A i \in 1..k : SubSeq(f, start + 1, start + k)[i] = f[start + i]
    BY <2>1, SubSeqOf
  <2> QED BY <2>2
<1>13. Slice(f, start, k) = c /\ c # <<>>
  <2>1. MinOf(start + k, Len(f)) = start + k
    BY <1>2, <1>10 DEF MinOf
  <2>2. c # <<>>
    <3>1. Len(c) # 0
      BY <1>10, <1>12
    <3> QED BY <3>1
  <2> QED BY <1>12, <2>1, <2>2 DEF Slice
<1>14. CipherOf(c, pad, b)
  <2>1. \A i \in 1..k : c[i] = CipherByte(pad, 0, start + i)
    <3> TAKE i \in 1..k
    <3>1. start + i \in 1..n
      BY <1>10
    <3> QED BY <1>5, <1>12, <3>1
  <2>2. start + k <= Len(pad)
    BY <1>5, <1>10
  <2> QED BY <1>1, <1>11, <1>12, <2>1, <2>2 DEF CipherOf
<1>15. SimpleRead(f, n, start, b, IsLast(start, n)) = Decrypt(c, b, IsLast(start, n))
  <2>1. MinOf(B, ContentLeft(n, start)) = k
    BY <1>8, <1>9 DEF ContentLeft
  <2> QED BY <1>13, <2>1 DEF SimpleRead
<1>16. CASE start + B >= n
  <2>1. start + k = n
    BY <1>8, <1>10, <1>16
  <2>2. CipherOf(c, AddPadding(text), b) /\ b * B + Len(c) = Len(AddPadding(text))
    BY <1>1, <1>4, <1>5, <1>12, <1>14, <2>1
  <2>3. /\ b * B <= Len(text)
        /\ Decrypt(c, b, TRUE) = [ok |-> TRUE, out |-> SubSeq(text, b * B + 1, Len(text))]
    BY <1>13, <2>2, DecryptFinal
  <2>4. MinOf(start + B, l) = l
    BY <1>6, <1>16 DEF MinOf
  <2>5. IsLast(start, n) = TRUE
    BY <1>16 DEF IsLast
  <2> QED BY <1>1, <1>2, <1>3, <1>6, <1>15, <2>3, <2>4, <2>5 DEF Slice
<1>17. CASE start + B < n
  <2>1. k = B
    BY <1>10, <1>17
  <2>2. Len(c) % B = 0
    <3>1. (1 * B) % B = 0 /\ 1 * B = B
      BY MultipleMod
    <3> QED BY <1>12, <2>1, <3>1
  <2>3. Decrypt(c, b, FALSE) = [ok |-> TRUE, out |-> SubSeq(pad, b * B + 1, b * B + Len(c))]
    BY <1>14, <2>2, DecryptMiddle
  <2>4. start + B <= l
    <3>1. PICK m \in Nat : m = start + B
      OBVIOUS
    <3>2. (start + B) % A = 0
      BY <1>1, ModSum
    <3>3. m + A <= n
      BY <1>6, <1>17, <3>1, <3>2, NextUnit
    <3> QED BY <1>6, <3>1, <3>3
  <2>5. SubSeq(pad, start + 1, start + B) = SubSeq(text, start + 1, start + B)
    <3>1. PICK m \in Nat : m = start + B
      OBVIOUS
    <3>2. m <= Len(pad) /\ m <= Len(text) /\ start <= m /\ \A i \in 1..m : pad[i] = text[i]
      BY <1>3, <1>5, <1>6, <1>7, <2>4, <3>1
    <3>3. SubSeq(pad, start + 1, m) = SubSeq(text, start + 1, m)
      BY <3>2, SamePrefix
    <3> QED BY <3>1, <3>3
  <2>6. MinOf(start + B, l) = start + B
    BY <2>4 DEF MinOf
  <2>7. IsLast(start, n) = FALSE
    BY <1>17 DEF IsLast
  <2> QED BY <1>1, <1>2, <1>3, <1>6, <1>12, <1>15, <2>1, <2>3, <2>5, <2>6, <2>7 DEF Slice
<1> QED BY <1>16, <1>17

-----------------------------------------------------------------------------
(* A stream that is only read *)

\* The file is as it was opened: it holds the content, encrypted, or nothing at all.
ReaderFile ==
  /\ contentSize = Len(file) /\ ~writePending /\ ~finalBlockHasBeenWritten
  /\ (file = <<>> /\ content = <<>>) \/ FileHolds(file, content)

\* The cached block holds its part of the content.
ReaderCache ==
  cacheStart # U64Max \/ op.pc = "copy" => CachedBytes = Slice(content, cacheStart, B)

\* Where a call may be, and what it may rely on there.
ReaderCall ==
  /\ position <= contentSize
  /\ op.pc \in {"idle", "seek", "flush", "loop", "load", "copy", "return"}
  /\ op.kind \notin {"Write", "Size"} /\ op.zeros = 0
  /\ op.pc = "flush" => op.kind = "Flush"
  /\ op.pc \in {"loop", "load", "copy"} => op.kind = "Read"
  /\ op.pc \in {"load", "copy"} => position < contentSize
  /\ op.pc = "load" => op.blk = position \div B
  /\ op.pc = "copy" => InBlock(position)
  /\ op.kind = "Read" => Readable /\ op.at <= contentSize
  /\ op.pc = "seek" => op.data = <<>>

\* What the loop of ReadAsync has delivered.
ReadSoFar ==
  op.pc \in {"loop", "load", "copy"} =>
    /\ op.at <= position /\ position <= op.at + op.n
    /\ position <= MaxOf(op.at, Len(content))
    /\ op.data = SubSeq(content, op.at + 1, position)

ReaderInv ==
  /\ ReaderFile /\ ReaderCache /\ ReaderCall /\ ReadSoFar
  /\ ReadsReturnContent /\ ReadsNeverFail

LEMMA ReaderFacts ==
  ASSUME StreamInv, ReaderInv
  PROVE  /\ GetSizeInternal = contentSize /\ contentSize = Len(file) /\ contentSize \in Nat
         /\ file \in Seq(CipherBytes) /\ content \in Seq(Int) /\ Len(content) \in Nat
         /\ Len(content) <= contentSize
         /\ contentSize > 0 => FileHolds(file, content) /\ Len(content) < contentSize
         /\ position \in Nat /\ op.at \in Nat /\ op.n \in Nat /\ op.data \in Seq(Int)
         /\ TypeOK
<1>1. /\ TypeOK /\ content \in Seq(Nat) /\ GetSizeInternal = StreamSize /\ position \in Nat
      /\ op.at \in Nat
  BY StepFacts
<1>2. op.n \in Nat /\ op.data \in Seq(Int)
  BY <1>1, OpFields
<1>3. /\ contentSize = Len(file) /\ ~writePending
      /\ (file = <<>> /\ content = <<>>) \/ FileHolds(file, content)
  BY DEF ReaderInv, ReaderFile
<1>4. StreamSize = contentSize /\ file \in Seq(CipherBytes)
  BY <1>3 DEF StreamSize, StreamInv, BackingRight
<1>5. PICK t \in Seq(Int) : t = content
  <2>1. content \in Seq(Int)
    BY <1>1
  <2> QED BY <2>1
<1>6. CASE file = <<>> /\ content = <<>>
  BY <1>1, <1>2, <1>3, <1>4, <1>5, <1>6
<1>7. CASE FileHolds(file, content)
  <2>1. Len(file) = Len(AddPadding(t)) /\ Len(AddPadding(t)) = GetPaddedSize(Len(t))
    BY <1>5, <1>7, PaddingType DEF FileHolds
  <2>2. PICK l \in Nat : l = Len(t)
    OBVIOUS
  <2>3. l < GetPaddedSize(l)
    BY PaddedSize
  <2>4. Len(content) < contentSize
    BY <1>3, <1>5, <2>1, <2>2, <2>3
  <2>5. contentSize \in Nat /\ Len(content) \in Nat
    BY <1>3, <1>4, <1>5
  <2> QED BY <1>1, <1>2, <1>3, <1>4, <1>5, <1>7, <2>4, <2>5
<1> QED BY <1>3, <1>6, <1>7

LEMMA ReaderInit == Init => ReaderInv
<1> SUFFICES ASSUME Init PROVE ReaderInv
  OBVIOUS
<1>1. StreamInv
  BY StreamInitInv
<1>2. /\ contentSize = Len(file) /\ cacheStart = U64Max /\ finalBlockHasBeenWritten = FALSE
      /\ writePending = FALSE /\ position = 0 /\ op = Idle /\ ret.kind = "None"
  BY DEF Init
<1>3. op.pc = "idle" /\ op.kind = "None" /\ op.zeros = 0
  BY <1>2 DEF Idle
<1>4. (file = <<>> /\ content = <<>>) \/ FileHolds(file, content)
  <2>1. CASE content = <<>> /\ file = <<>>
    BY <2>1
  <2>2. CASE content \in InitialTexts /\ file = Encrypt(content, 0, TRUE).out
    <3>1. content \in Seq(Nat)
      BY <2>2
    <3>2. content \in Seq(Int)
      BY <3>1
    <3>3. FileHolds(Encrypt(content, 0, TRUE).out, content)
      BY <3>2, EncryptedFile
    <3> QED BY <2>2, <3>3
  <2> QED BY <2>1, <2>2 DEF Init
<1>5. position <= contentSize
  BY <1>1, <1>2 DEF StreamInv, TypeOK
<1> QED BY <1>2, <1>3, <1>4, <1>5 DEF ReaderInv, ReaderFile, ReaderCache, ReaderCall, ReadSoFar,
           ReadsReturnContent, ReadsNeverFail

LEMMA ReaderFrame ==
  ASSUME ReaderInv, UNCHANGED <<backing, cached, content>>,
         op'.pc = "copy" => cacheStart # U64Max \/ op.pc = "copy"
  PROVE  ReaderFile' /\ ReaderCache'
  BY DEF ReaderInv, ReaderFile, ReaderCache, backing, cached, CachedBytes

\* A call begins.
LEMMA ReaderStart ==
  ASSUME StreamInv, ReaderInv, NEW kind \in {"Read", "Seek", "Flush"}, NEW pc \in {"seek", "flush"},
         NEW at \in Nat, NEW n, Start(kind, pc, at, n, <<>>), UNCHANGED content,
         pc = "flush" <=> kind = "Flush", kind = "Read" => Readable /\ at <= contentSize
  PROVE  ReaderInv'
<1>1. /\ op'.pc = pc /\ op'.kind = kind /\ op'.at = at /\ op'.n = n /\ op'.data = <<>>
      /\ op'.zeros = 0 /\ UNCHANGED <<backing, cached, cursor, ret>>
  BY DEF Start
<1>2. ReaderFile' /\ ReaderCache'
  BY <1>1, ReaderFrame
<1>3. ReaderCall'
  BY <1>1 DEF ReaderInv, ReaderCall, backing, cursor
<1>4. ReadSoFar' /\ ReadsReturnContent' /\ ReadsNeverFail'
  BY <1>1 DEF ReaderInv, ReadSoFar, ReadsReturnContent, ReadsNeverFail
<1> QED BY <1>2, <1>3, <1>4 DEF ReaderInv

LEMMA ReaderRefuse ==
  ASSUME ReaderInv, Refuse
  PROVE  ReaderInv'
<1>1. /\ UNCHANGED <<backing, cached, cursor, op, content>> /\ ret'.kind = "Refused"
  BY DEF Refuse
<1>2. ReaderFile' /\ ReaderCache'
  BY <1>1, ReaderFrame DEF ReaderInv, ReaderCall, ReaderCache
<1> QED BY <1>1, <1>2 DEF ReaderInv, ReaderCall, ReadSoFar, ReadsReturnContent, ReadsNeverFail,
           backing, cached, cursor, InBlock

\* The client's calls: none of them changes the content of a stream it cannot write.
LEMMA ReaderCalls ==
  ASSUME ~Writable, "PastEnd" \notin Calls, StreamInv, ReaderInv,
         \/ \E n \in Lengths : Read(n)
         \/ \E d \in Payloads : Write(d)
         \/ \E at \in 0..MaxSize, n \in Lengths : ReadAsyncAt(at, n)
         \/ \E at \in 0..MaxSize, d \in Payloads : WriteAsyncAt(at, d)
         \/ \E p \in 0..MaxSize : Seek(p)
         \/ \E v \in 0..MaxSize : Size(v)
         \/ Flush
  PROVE  ReaderInv'
<1>1. /\ GetSizeInternal = contentSize /\ position \in Nat
  BY ReaderFacts
<1>2. position <= contentSize
  BY DEF ReaderInv, ReaderCall
<1>3. ASSUME NEW at \in Nat, NEW n, ReadAsync(at, n), at <= contentSize PROVE ReaderInv'
  <2>1. CASE Readable /\ Start("Read", "seek", at, n, <<>>) /\ UNCHANGED content
    BY <1>3, <2>1, ReaderStart
  <2>2. CASE Refuse
    BY <2>2, ReaderRefuse
  <2> QED BY <1>3, <2>1, <2>2 DEF ReadAsync
<1>4. ASSUME NEW n \in Lengths, Read(n) PROVE ReaderInv'
  BY <1>1, <1>2, <1>3, <1>4 DEF Read
<1>5. ASSUME NEW at \in 0..MaxSize, NEW n \in Lengths, ReadAsyncAt(at, n) PROVE ReaderInv'
  <2>1. at \in Nat /\ at <= contentSize /\ ReadAsync(at, n)
    BY <1>1, <1>5 DEF ReadAsyncAt
  <2> QED BY <1>3, <2>1
<1>6. ASSUME NEW at, NEW d, WriteAsync(at, d) PROVE ReaderInv'
  BY <1>6, ReaderRefuse DEF WriteAsync
<1>7. ASSUME NEW p \in 0..MaxSize, Seek(p) PROVE ReaderInv'
  <2>1. p \in Nat /\ Start("Seek", "seek", p, 0, <<>>) /\ UNCHANGED content
    BY <1>7 DEF Seek
  <2> QED BY <2>1, ReaderStart
<1>8. ASSUME NEW v \in 0..MaxSize, Size(v) PROVE ReaderInv'
  BY <1>8, ReaderRefuse DEF Size
<1>9. CASE Flush
  <2>1. Start("Flush", "flush", 0, 0, <<>>) /\ UNCHANGED content
    BY <1>9 DEF Flush
  <2> QED BY <2>1, ReaderStart
<1> QED BY <1>4, <1>5, <1>6, <1>7, <1>8, <1>9 DEF Write, WriteAsyncAt

LEMMA ReaderSeek ==
  ASSUME ~Writable, StreamInv, ReaderInv, SeekWithin \/ SeekInvalid
  PROVE  ReaderInv'
<1>1. /\ GetSizeInternal = contentSize /\ op.at \in Nat /\ op.n \in Nat /\ content \in Seq(Int)
      /\ TypeOK /\ Len(content) \in Nat /\ contentSize \in Nat
  BY ReaderFacts
<1>2. /\ op.pc = "seek" /\ Goto(AfterSeek) /\ UNCHANGED <<backing, cached, ret, content>>
      /\ SeekWithin => position' = op.at /\ op.at <= contentSize
      /\ SeekInvalid => position' = position /\ op.kind # "Read"
  BY <1>1 DEF SeekWithin, SeekInvalid, ReaderInv, ReaderCall
<1>3. /\ op.data = <<>> /\ op.kind \notin {"Write", "Size"} /\ op.zeros = 0
      /\ position <= contentSize
      /\ op.kind = "Read" => Readable /\ op.at <= contentSize
  BY <1>2 DEF ReaderInv, ReaderCall
<1>4. /\ AfterSeek \in {"loop", "return"}
      /\ AfterSeek = "loop" => op.kind = "Read"
      /\ AfterSeek = "return" => op.kind # "Read"
  BY <1>3 DEF AfterSeek
<1>5. /\ op'.pc = AfterSeek /\ op'.kind = op.kind /\ op'.at = op.at /\ op'.n = op.n
      /\ op'.data = <<>> /\ op'.zeros = 0
  BY <1>1, <1>2, <1>3, <1>4, GotoFields
<1>6. ReaderFile' /\ ReaderCache'
  BY <1>2, <1>4, <1>5, ReaderFrame
<1>7. ReaderCall'
  BY <1>2, <1>3, <1>4, <1>5 DEF ReaderCall, backing
<1>8. ReadSoFar'
  <2> SUFFICES ASSUME op'.pc = "loop"
               PROVE  /\ op'.at <= position' /\ position' <= op'.at + op'.n
                      /\ position' <= MaxOf(op'.at, Len(content'))
                      /\ op'.data = SubSeq(content', op'.at + 1, position')
    BY <1>4, <1>5 DEF ReadSoFar
  <2>1. position' = op.at /\ content' = content
    BY <1>2, <1>4, <1>5
  <2>2. SubSeq(content, op.at + 1, op.at) = <<>>
    BY <1>1
  <2>3. op.at <= MaxOf(op.at, Len(content))
    BY <1>1 DEF MaxOf
  <2> QED BY <1>1, <1>5, <2>1, <2>2, <2>3
<1>9. ReadsReturnContent' /\ ReadsNeverFail'
  BY <1>2, <1>4, <1>5 DEF ReaderInv, ReadsReturnContent, ReadsNeverFail
<1> QED BY <1>6, <1>7, <1>8, <1>9 DEF ReaderInv

\* What has been read is all there is to read: the position is at the end of what was
\* asked for, or at the end of the content.
LEMMA ReadIsWhole ==
  ASSUME StreamInv, ReaderInv, op.pc \in {"loop", "copy"},
         Len(op.data) >= op.n \/ position >= Len(content)
  PROVE  op.data = Slice(content, op.at, op.n)
<1>1. /\ op.at \in Nat /\ op.n \in Nat /\ content \in Seq(Int) /\ position \in Nat
  BY ReaderFacts
<1>2. PICK at \in Nat, n \in Nat, l \in Nat, p \in Nat :
        at = op.at /\ n = op.n /\ l = Len(content) /\ p = position
  BY <1>1
<1>3. /\ at <= p /\ p <= at + n /\ p <= MaxOf(at, l) /\ op.data = SubSeq(content, at + 1, p)
  BY <1>2 DEF ReaderInv, ReadSoFar
<1>4. CASE p = at
  <2>1. op.data = <<>> /\ Len(op.data) = 0
    BY <1>1, <1>3, <1>4
  <2>2. n = 0 \/ at >= l
    BY <1>2, <1>4, <2>1
  <2>3. MinOf(at + n, l) <= at /\ MinOf(at + n, l) \in Nat
    BY <2>2 DEF MinOf
  <2>4. SubSeq(content, at + 1, MinOf(at + n, l)) = <<>>
    BY <1>1, <2>3
  <2> QED BY <1>2, <2>1, <2>4 DEF Slice
<1>5. CASE p # at
  <2>1. p > at /\ p <= l
    BY <1>3, <1>5 DEF MaxOf
  <2>2. PICK m \in Nat : m = p - at
    BY <2>1
  <2>3. at + m = p /\ at + m <= Len(content)
    BY <1>2, <2>1, <2>2
  <2>4. Len(op.data) = m
    <3>1. Len(SubSeq(content, at + 1, at + m)) = m
      BY <1>1, <2>3, SubSeqOf
    <3> QED BY <1>3, <2>3, <3>1
  <2>5. p = MinOf(at + n, l)
    <3>1. m >= n \/ p >= l
      BY <1>2, <2>4
    <3>2. p <= at + n
      BY <1>3
    <3> QED BY <2>1, <2>2, <3>1, <3>2 DEF MinOf
  <2> QED BY <1>2, <1>3, <2>5 DEF Slice
<1> QED BY <1>4, <1>5

LEMMA ReaderLoopDone ==
  ASSUME StreamInv, ReaderInv, LoopDone
  PROVE  ReaderInv'
<1>1. /\ op.pc = "loop" /\ ~LoopGoesOn /\ Goto("return")
      /\ UNCHANGED <<backing, cached, cursor, ret, content>>
  BY DEF LoopDone
<1>2. /\ TypeOK /\ GetSizeInternal = contentSize /\ Len(content) <= contentSize
      /\ position \in Nat /\ contentSize \in Nat /\ Len(content) \in Nat /\ op.n \in Nat
      /\ op.data \in Seq(Int)
  BY ReaderFacts
<1>3. op.kind = "Read"
  BY <1>1 DEF ReaderInv, ReaderCall
<1>4. Len(op.data) >= op.n \/ position >= Len(content)
  BY <1>1, <1>2, <1>3 DEF LoopGoesOn
<1>5. op.data = Slice(content, op.at, op.n)
  BY <1>1, <1>4, ReadIsWhole
<1>6. /\ op'.pc = "return" /\ op'.kind = "Read" /\ op'.at = op.at /\ op'.n = op.n
      /\ op'.data = op.data /\ op'.zeros = op.zeros
  BY <1>1, <1>2, <1>3, GotoFields
<1>7. ReaderFile' /\ ReaderCache'
  BY <1>1, <1>6, ReaderFrame
<1>8. ReaderCall'
  BY <1>1, <1>3, <1>6 DEF ReaderInv, ReaderCall, backing, cursor
<1>9. ReadSoFar' /\ ReadsReturnContent' /\ ReadsNeverFail'
  BY <1>1, <1>5, <1>6 DEF ReaderInv, ReadSoFar, ReadsReturnContent, ReadsNeverFail
<1> QED BY <1>7, <1>8, <1>9 DEF ReaderInv

LEMMA OwnBlock ==
  ASSUME NEW p \in Nat
  PROVE  p \div B \in Nat /\ (p \div B) * B <= p /\ p < (p \div B) * B + B
<1>1. p \div B \in Nat /\ p % B \in 0..(B - 1) /\ p = B * (p \div B) + (p % B)
  BY DivMod
<1>2. PICK q \in Nat, r \in 0..(B - 1) : q = p \div B /\ r = p % B
  BY <1>1
<1>3. p = B * q + r /\ B * q = q * B
  BY <1>1, <1>2
<1>4. q * B <= p /\ p < q * B + B
  BY <1>3
<1> QED BY <1>2, <1>4

LEMMA SameBlock ==
  ASSUME NEW start \in Nat, start % B = 0, NEW p \in Nat, start \div B = p \div B
  PROVE  start <= p /\ p < start + B
<1>1. (p \div B) * B <= p /\ p < (p \div B) * B + B
  BY OwnBlock
<1>2. (start \div B) * B = start
  BY MultipleOf
<1> QED BY <1>1, <1>2

LEMMA ReaderHit ==
  ASSUME StreamInv, ReaderInv, UpdateBlockHit
  PROVE  ReaderInv'
<1>1. /\ NeedsBlock /\ CacheIsCurrent(NeededOffset) /\ Goto(AfterUpdate)
      /\ UNCHANGED <<backing, cached, cursor, ret, content>>
  BY DEF UpdateBlockHit
<1>2. /\ TypeOK /\ GetSizeInternal = contentSize /\ position \in Nat
  BY ReaderFacts
<1>3. op.pc = "loop" /\ LoopGoesOn
  BY <1>1 DEF NeedsBlock, LoopGoesOn, ReaderInv, ReaderCall
<1>4. op.kind = "Read" /\ op.zeros = 0 /\ position < contentSize
  BY <1>2, <1>3 DEF LoopGoesOn, ReaderInv, ReaderCall
<1>5. AfterUpdate = "copy" /\ NeededOffset = position
  BY <1>3, <1>4 DEF AfterUpdate, NeededOffset
<1>6. /\ op'.pc = "copy" /\ op'.kind = "Read" /\ op'.at = op.at /\ op'.n = op.n
      /\ op'.data = op.data /\ op'.zeros = 0
  BY <1>1, <1>2, <1>4, <1>5, GotoFields
<1>7. cacheStart # U64Max /\ cacheStart \div B = position \div B
  BY <1>1, <1>5 DEF CacheIsCurrent, CalculateBlockNumber, ReaderInv, ReaderFile
<1>8. cacheStart \in Nat /\ cacheStart % B = 0
  BY <1>2, <1>7 DEF TypeOK
<1>9. InBlock(position)
  BY <1>2, <1>7, <1>8, SameBlock DEF InBlock
<1>10. ReaderFile' /\ ReaderCache'
  BY <1>1, <1>7, ReaderFrame
<1>11. ReaderCall'
  BY <1>1, <1>4, <1>6, <1>9 DEF ReaderInv, ReaderCall, backing, cached, cursor, InBlock
<1>12. ReadSoFar'
  BY <1>1, <1>3, <1>6 DEF ReaderInv, ReadSoFar, cursor
<1>13. ReadsReturnContent' /\ ReadsNeverFail'
  BY <1>1, <1>6 DEF ReaderInv, ReadsReturnContent, ReadsNeverFail
<1> QED BY <1>10, <1>11, <1>12, <1>13 DEF ReaderInv

LEMMA ReaderMiss ==
  ASSUME StreamInv, ReaderInv, UpdateBlockMiss
  PROVE  ReaderInv'
<1>1. NeedsBlock /\ UNCHANGED <<cacheStart, cacheSize, cache, cursor, content>>
  BY DEF UpdateBlockMiss
<1>2. /\ TypeOK /\ GetSizeInternal = contentSize /\ position \in Nat
  BY ReaderFacts
<1>3. op.pc = "loop" /\ LoopGoesOn
  BY <1>1 DEF NeedsBlock, LoopGoesOn, ReaderInv, ReaderCall
<1>4. op.kind = "Read" /\ op.zeros = 0 /\ position < contentSize
  BY <1>2, <1>3 DEF LoopGoesOn, ReaderInv, ReaderCall
<1>5. NeededOffset = position /\ ~writePending /\ ~finalBlockHasBeenWritten
  BY <1>3 DEF NeededOffset, ReaderInv, ReaderFile
<1>6. WriteBack(position) = [ok |-> TRUE, file |-> file, size |-> contentSize]
  BY <1>5 DEF WriteBack
<1>7. /\ file' = file /\ contentSize' = contentSize /\ UNCHANGED ret
      /\ finalBlockHasBeenWritten' = FALSE /\ writePending' = FALSE
      /\ op' = [op EXCEPT !.pc = "load", !.blk = CalculateBlockNumber(position)]
  BY <1>5, <1>6 DEF UpdateBlockMiss
<1>8. CalculateBlockNumber(position) = position \div B
  BY <1>5 DEF CalculateBlockNumber
<1>9. /\ op'.pc = "load" /\ op'.kind = "Read" /\ op'.at = op.at /\ op'.n = op.n
      /\ op'.data = op.data /\ op'.zeros = 0 /\ op'.blk = position \div B
  BY <1>2, <1>4, <1>7, <1>8 DEF TypeOK, Ops
<1>10. ReaderFile'
  BY <1>1, <1>7 DEF ReaderInv, ReaderFile
<1>11. ReaderCache'
  BY <1>1, <1>3, <1>9 DEF ReaderInv, ReaderCache, CachedBytes
<1>12. ReaderCall'
  BY <1>1, <1>4, <1>7, <1>9 DEF ReaderInv, ReaderCall, cursor
<1>13. ReadSoFar'
  BY <1>1, <1>3, <1>9 DEF ReaderInv, ReadSoFar, cursor
<1>14. ReadsReturnContent' /\ ReadsNeverFail'
  BY <1>7, <1>9 DEF ReaderInv, ReadsReturnContent, ReadsNeverFail
<1> QED BY <1>10, <1>11, <1>12, <1>13, <1>14 DEF ReaderInv

\* What is written over the start of the buffer is what is cached.
LEMMA LoadedBytes ==
  ASSUME TypeOK, NEW out \in Seq(Int), Len(out) <= B
  PROVE  SubSeq(Splice(cache, 0, out, 0), 1, Len(out)) = out
<1>1. PICK c \in Seq(Int) : c = cache /\ Len(c) = B
  BY CachedBytesType
<1>2. CASE out = <<>>
  <2>1. SubSeq(c, 1, 0) = <<>> /\ Len(out) = 0
    BY <1>2
  <2> QED BY <1>1, <1>2, <2>1 DEF Splice
<1>3. CASE out # <<>>
  <2>1. PICK n \in Nat : n = Len(out)
    OBVIOUS
  <2>2. PICK rest \in Seq(Int) : rest = SubSeq(c, n + 1, Len(c))
    <3>1. n + 1 \in Nat \ {0} /\ Len(c) \in Nat /\ n + 1 <= Len(c) + 1
      BY <1>1, <2>1
    <3>2. SubSeq(c, n + 1, Len(c)) \in Seq(Int)
      BY <3>1
    <3> QED BY <3>2
  <2>3. MinOf(0, Len(c)) = 0 /\ 0 + Len(out) + 1 = n + 1 /\ 0 - 0 = 0
    BY <1>1, <2>1 DEF MinOf
  <2>4. SubSeq(c, 1, 0) = <<>> /\ Repeat(0, 0) = <<>>
    BY DEF Repeat
  <2>5. Splice(c, 0, out, 0) = <<>> \o <<>> \o out \o rest
    BY <1>3, <2>2, <2>3, <2>4 DEF Splice
  <2>6. <<>> \o <<>> \o out \o rest = out \o rest
    OBVIOUS
  <2>7. PICK s \in Seq(Int) : s = out \o rest /\ Len(s) >= n /\ \A i \in 1..n : s[i] = out[i]
    <3>1. out \o rest \in Seq(Int) /\ Len(out \o rest) = Len(out) + Len(rest)
      OBVIOUS
    <3>2. \A i \in 1..Len(out) : (out \o rest)[i] = out[i]
      OBVIOUS
    <3>3. Len(rest) \in Nat
      OBVIOUS
    <3>4. Len(out \o rest) >= n
      BY <2>1, <3>1, <3>3
    <3>5. \A i \in 1..n : (out \o rest)[i] = out[i]
      BY <2>1, <3>2
    <3> QED BY <3>1, <3>4, <3>5
  <2>8. SubSeq(s, 0 + 1, n) = SubSeq(out, 0 + 1, n)
    <3>1. 0 <= n /\ n <= Len(s) /\ n <= Len(out) /\ 0 \in Nat
      BY <2>1, <2>7
    <3> QED BY <2>7, <3>1, SamePrefix
  <2>9. SubSeq(out, 1, Len(out)) = out
    OBVIOUS
  <2> QED BY <1>1, <2>1, <2>5, <2>6, <2>7, <2>8, <2>9
<1> QED BY <1>2, <1>3

LEMMA ReaderLoad ==
  ASSUME StreamInv, ReaderInv, LoadBlock
  PROVE  ReaderInv'
<1>1. /\ op.pc = "load"
      /\ UNCHANGED <<backing, finalBlockHasBeenWritten, writePending, cursor, content>>
  BY DEF LoadBlock
<1>2. /\ TypeOK /\ contentSize = Len(file) /\ contentSize \in Nat /\ position \in Nat
      /\ file \in Seq(CipherBytes) /\ content \in Seq(Int)
      /\ contentSize > 0 => FileHolds(file, content)
  BY ReaderFacts
<1>3. /\ op.kind = "Read" /\ op.zeros = 0 /\ position < contentSize /\ op.blk = position \div B
      /\ Readable
  BY <1>1 DEF ReaderInv, ReaderCall
<1>4. PICK b \in Nat : b = op.blk /\ b * B <= position /\ position < b * B + B
  BY <1>2, <1>3, OwnBlock
<1>5. PICK start \in Nat : start = b * B
  OBVIOUS
<1>6. b * B < Len(file) /\ contentSize > 0
  BY <1>2, <1>3, <1>4, <1>5
<1>7. SimpleRead(file, Len(file), b * B, b, IsLast(b * B, Len(file))) =
        [ok |-> TRUE, out |-> Slice(content, b * B, B)]
  BY <1>2, <1>3, <1>6, ReadOfFile
<1>8. PICK out \in Seq(Int) : out = Slice(content, start, B) /\ Len(out) <= B
  BY <1>2, SliceType
<1>9. /\ cacheStart' = start /\ cache' = Splice(cache, 0, out, 0) /\ cacheSize' = Len(out)
      /\ Goto(AfterUpdate) /\ UNCHANGED ret
  BY <1>2, <1>4, <1>5, <1>7, <1>8 DEF LoadBlock
<1>10. CachedBytes' = out
  BY <1>2, <1>8, <1>9, LoadedBytes DEF CachedBytes
<1>11. AfterUpdate = "copy"
  BY <1>3 DEF AfterUpdate
<1>12. /\ op'.pc = "copy" /\ op'.kind = "Read" /\ op'.at = op.at /\ op'.n = op.n
       /\ op'.data = op.data /\ op'.zeros = 0
  BY <1>2, <1>3, <1>9, <1>11, GotoFields
<1>13. ReaderFile' /\ ReaderCache'
  <2>1. ReaderFile'
    BY <1>1 DEF ReaderInv, ReaderFile, backing
  <2>2. ReaderCache'
    BY <1>1, <1>8, <1>9, <1>10 DEF ReaderCache
  <2> QED BY <2>1, <2>2
<1>14. ReaderCall'
  <2>1. position' = position /\ contentSize' = contentSize
    BY <1>1 DEF cursor, backing
  <2>2. InBlock(position)'
    BY <1>4, <1>5, <1>9, <2>1 DEF InBlock
  <2> QED BY <1>3, <1>12, <2>1, <2>2 DEF ReaderInv, ReaderCall
<1>15. ReadSoFar'
  BY <1>1, <1>12 DEF ReaderInv, ReadSoFar, cursor
<1>16. ReadsReturnContent' /\ ReadsNeverFail'
  BY <1>9, <1>12 DEF ReaderInv, ReadsReturnContent, ReadsNeverFail
<1> QED BY <1>13, <1>14, <1>15, <1>16 DEF ReaderInv

\* Two neighbouring parts of a sequence.
LEMMA JoinParts ==
  ASSUME NEW S, NEW s \in Seq(S), NEW f \in Nat, NEW m \in Nat, NEW l \in Nat,
         f <= m, m <= l, l <= Len(s)
  PROVE  SubSeq(s, f + 1, m) \o SubSeq(s, m + 1, l) = SubSeq(s, f + 1, l)
<1>1. PICK j \in Nat, k \in Nat : j = m - f /\ k = l - m
  OBVIOUS
<1>2. PICK x \in Seq(S) : /\ x = SubSeq(s, f + 1, m) /\ Len(x) = j
                          /\ \A i \in 1..j : x[i] = s[f + i]
  <2>1. f + j = m /\ f + j <= Len(s)
    BY <1>1
  <2>2. /\ SubSeq(s, f + 1, f + j) \in Seq(S) /\ Len(SubSeq(s, f + 1, f + j)) = j
        /\ \A i \in 1..j : SubSeq(s, f + 1, f + j)[i] = s[f + i]
    BY <2>1, SubSeqOf
  <2> QED BY <2>1, <2>2
<1>3. PICK y \in Seq(S) : /\ y = SubSeq(s, m + 1, l) /\ Len(y) = k
                          /\ \A i \in 1..k : y[i] = s[m + i]
  <2>1. m + k = l /\ m + k <= Len(s)
    BY <1>1
  <2>2. /\ SubSeq(s, m + 1, m + k) \in Seq(S) /\ Len(SubSeq(s, m + 1, m + k)) = k
        /\ \A i \in 1..k : SubSeq(s, m + 1, m + k)[i] = s[m + i]
    BY <2>1, SubSeqOf
  <2> QED BY <2>1, <2>2
<1>4. PICK z \in Seq(S) : /\ z = SubSeq(s, f + 1, l) /\ Len(z) = j + k
                          /\ \A i \in 1..(j + k) : z[i] = s[f + i]
  <2>1. f + (j + k) = l /\ f + (j + k) <= Len(s) /\ j + k \in Nat
    BY <1>1
  <2>2. /\ SubSeq(s, f + 1, f + (j + k)) \in Seq(S)
        /\ Len(SubSeq(s, f + 1, f + (j + k))) = j + k
        /\ \A i \in 1..(j + k) : SubSeq(s, f + 1, f + (j + k))[i] = s[f + i]
    BY <2>1, SubSeqOf
  <2> QED BY <2>1, <2>2
<1>5. PICK w \in Seq(S) : w = x \o y
  <2>1. x \o y \in Seq(S)
    OBVIOUS
  <2> QED BY <2>1
<1>6. Len(x) = j /\ Len(y) = k
  BY <1>2, <1>3
<1>7. Len(w) = j + k
  <2>1. Len(x \o y) = Len(x) + Len(y)
    OBVIOUS
  <2> QED BY <1>5, <1>6, <2>1
<1>8. ASSUME NEW i \in 1..(j + k) PROVE w[i] = z[i]
  <2>1. CASE i <= j
    <3>1. i \in 1..j /\ i \in 1..Len(x)
      BY <1>2, <2>1
    <3>2. (x \o y)[i] = x[i]
      BY <3>1
    <3> QED BY <1>2, <1>4, <1>5, <3>1, <3>2
  <2>2. CASE i > j
    <3>1. i - j \in 1..k /\ i > Len(x) /\ i <= Len(x) + Len(y) /\ m + (i - j) = f + i
      BY <1>1, <1>6, <2>2
    <3>2. (x \o y)[i] = y[i - Len(x)]
      BY <3>1, SMTT(60)
    <3>3. y[i - j] = s[m + (i - j)]
      BY <1>3, <3>1
    <3> QED BY <1>4, <1>5, <1>6, <3>1, <3>2, <3>3
  <2> QED BY <2>1, <2>2
<1>9. w = z
  BY <1>4, <1>7, <1>8, SameSeq
<1> QED BY <1>2, <1>3, <1>4, <1>5, <1>9

\* A part of a part.
LEMMA PartOfPart ==
  ASSUME NEW S, NEW s \in Seq(S), NEW f \in Nat, NEW l \in Nat, NEW d \in Nat, NEW k \in Nat,
         f + l <= Len(s), d + k <= l
  PROVE  SubSeq(SubSeq(s, f + 1, f + l), d + 1, d + k) = SubSeq(s, (f + d) + 1, (f + d) + k)
<1>1. PICK x \in Seq(S) : /\ x = SubSeq(s, f + 1, f + l) /\ Len(x) = l
                          /\ \A i \in 1..l : x[i] = s[f + i]
  <2>1. /\ SubSeq(s, f + 1, f + l) \in Seq(S) /\ Len(SubSeq(s, f + 1, f + l)) = l
        /\ \A i \in 1..l : SubSeq(s, f + 1, f + l)[i] = s[f + i]
    BY SubSeqOf
  <2> QED BY <2>1
<1>2. Len(x) = l
  BY <1>1
<1>3. PICK y \in Seq(S) : /\ y = SubSeq(x, d + 1, d + k) /\ Len(y) = k
                          /\ \A i \in 1..k : y[i] = x[d + i]
  <2>1. d + k <= Len(x)
    BY <1>2
  <2>2. /\ SubSeq(x, d + 1, d + k) \in Seq(S) /\ Len(SubSeq(x, d + 1, d + k)) = k
        /\ \A i \in 1..k : SubSeq(x, d + 1, d + k)[i] = x[d + i]
    BY <2>1, SubSeqOf
  <2> QED BY <2>2
<1>4. PICK g \in Nat : g = f + d
  OBVIOUS
<1>5. PICK z \in Seq(S) : /\ z = SubSeq(s, g + 1, g + k) /\ Len(z) = k
                          /\ \A i \in 1..k : z[i] = s[g + i]
  <2>1. g + k <= Len(s)
    BY <1>4
  <2>2. /\ SubSeq(s, g + 1, g + k) \in Seq(S) /\ Len(SubSeq(s, g + 1, g + k)) = k
        /\ \A i \in 1..k : SubSeq(s, g + 1, g + k)[i] = s[g + i]
    BY <2>1, SubSeqOf
  <2> QED BY <2>2
<1>6. ASSUME NEW i \in 1..k PROVE y[i] = z[i]
  <2>1. d + i \in 1..l /\ f + (d + i) = g + i
    BY <1>4
  <2>2. y[i] = x[d + i] /\ x[d + i] = s[f + (d + i)] /\ z[i] = s[g + i]
    BY <1>1, <1>3, <1>5, <2>1
  <2> QED BY <2>1, <2>2
<1>7. y = z
  BY <1>3, <1>5, <1>6, SameSeq
<1> QED BY <1>1, <1>3, <1>4, <1>5, <1>7

\* ReadFromBlock copies what the content has at the position, and nothing only when
\* nothing is wanted or the content has ended.
LEMMA CopiedBytes ==
  ASSUME TypeOK, content \in Seq(Int), cacheStart \in Nat, InBlock(position),
         CachedBytes = Slice(content, cacheStart, B),
         NEW wanted \in Nat, op.n - Len(op.data) = wanted
  PROVE  \E k \in Nat :
           /\ BytesFromBlock = SubSeq(content, position + 1, position + k)
           /\ Len(BytesFromBlock) = k /\ k <= wanted
           /\ k > 0 => position + k <= Len(content)
           /\ k = 0 => wanted = 0 \/ position >= Len(content)
<1>1. PICK p \in Nat, c \in Nat, l \in Nat :
        p = position /\ c = cacheStart /\ l = Len(content) /\ c <= p /\ p < c + B
  <2>1. position \in Nat /\ Len(content) \in Nat
    BY DEF TypeOK
  <2>2. cacheStart <= position /\ position < cacheStart + B
    BY DEF InBlock
  <2> QED BY <2>1, <2>2
<1>2. PICK cs \in Nat : cs = cacheSize /\ cs <= B
  BY DEF TypeOK
<1>3. Len(CachedBytes) = cs /\ CachedBytes = SubSeq(content, c + 1, MinOf(c + B, l))
  BY <1>1, <1>2, CachedBytesType DEF Slice
<1>4. /\ c <= l => c + cs = MinOf(c + B, l)
      /\ c > l => cs = 0
  <2>1. CASE c <= l
    <3>1. PICK m \in Nat : m = MinOf(c + B, l) - c
      <4>1. MinOf(c + B, l) - c \in Nat
        BY <2>1 DEF MinOf
      <4> QED BY <4>1
    <3>2. c + m = MinOf(c + B, l) /\ c + m <= Len(content)
      BY <1>1, <3>1 DEF MinOf
    <3>3. Len(SubSeq(content, c + 1, c + m)) = m
      <4>1. c + m <= Len(content)
        BY <3>2
      <4>2. /\ SubSeq(content, c + 1, c + m) \in Seq(Int)
            /\ Len(SubSeq(content, c + 1, c + m)) = m
            /\ \A i \in 1..m : SubSeq(content, c + 1, c + m)[i] = content[c + i]
        BY <4>1, SubSeqOf
      <4> QED BY <4>2
    <3>4. m = cs
      BY <1>3, <3>2, <3>3
    <3> QED BY <2>1, <3>2, <3>4
  <2>2. CASE c > l
    <3>1. MinOf(c + B, l) = l
      BY <2>2 DEF MinOf
    <3>2. SubSeq(content, c + 1, l) = <<>>
      BY <1>1, <2>2
    <3> QED BY <1>3, <2>2, <3>1, <3>2
  <2> QED BY <2>1, <2>2
<1>5. CASE ~InCache(position)
  <2>1. BytesFromBlock = <<>>
    BY <1>5 DEF BytesFromBlock
  <2>2. p >= c + cs
    BY <1>1, <1>2, <1>5 DEF InCache
  <2>3. p >= l
    BY <1>1, <1>4, <2>2 DEF MinOf
  <2>4. SubSeq(content, p + 1, p + 0) = <<>>
    OBVIOUS
  <2>5. Len(<<>>) = 0 /\ 0 \in Nat
    OBVIOUS
  <2> QED BY <1>1, <2>1, <2>3, <2>4, <2>5
<1>6. CASE InCache(position)
  <2>1. p < c + cs
    BY <1>1, <1>2, <1>6 DEF InCache
  <2>2. c <= l /\ c + cs <= l /\ c + cs = MinOf(c + B, l)
    BY <1>1, <1>4, <2>1 DEF MinOf
  <2>3. PICK d \in Nat : d = p - c
    BY <1>1
  <2>4. PICK k \in Nat : k = MinOf(wanted, cs - d)
    <3>1. MinOf(wanted, cs - d) \in Nat
      BY <1>1, <2>1, <2>3 DEF MinOf
    <3> QED BY <3>1
  <2>5. /\ MinOf(d + wanted, cs) = d + k /\ d + k <= cs /\ k <= wanted
        /\ k = 0 => wanted = 0
    BY <1>1, <2>1, <2>3, <2>4 DEF MinOf
  <2>6. BytesFromBlock = SubSeq(CachedBytes, d + 1, d + k)
    <3>1. BytesFromBlock = Slice(CachedBytes, d, wanted)
      BY <1>1, <1>6, <2>3 DEF BytesFromBlock
    <3> QED BY <1>3, <2>5, <3>1 DEF Slice
  <2>7. CachedBytes = SubSeq(content, c + 1, c + cs)
    BY <1>3, <2>2
  <2>8. SubSeq(SubSeq(content, c + 1, c + cs), d + 1, d + k)
          = SubSeq(content, (c + d) + 1, (c + d) + k)
    <3>1. c + cs <= Len(content)
      BY <1>1, <2>2
    <3> QED BY <2>5, <3>1, PartOfPart
  <2>9. c + d = p
    BY <1>1, <2>3
  <2>10. BytesFromBlock = SubSeq(content, p + 1, p + k)
    BY <2>6, <2>7, <2>8, <2>9
  <2>11. p + k <= Len(content)
    BY <1>1, <2>2, <2>3, <2>5
  <2>12. Len(SubSeq(content, p + 1, p + k)) = k
    BY <2>11
  <2> QED BY <1>1, <2>5, <2>10, <2>11, <2>12
<1> QED BY <1>5, <1>6

LEMMA ReaderCopy ==
  ASSUME StreamInv, ReaderInv, ReadFromBlock
  PROVE  ReaderInv'
<1>1. /\ op.pc = "copy" /\ position' = position + Len(BytesFromBlock)
      /\ op' = [op EXCEPT !.data = op.data \o BytesFromBlock,
                          !.pc = IF BytesFromBlock = <<>> THEN "return" ELSE "loop"]
      /\ UNCHANGED <<backing, cached, positionValid, ret, content>>
  BY DEF ReadFromBlock
<1>2. /\ TypeOK /\ position \in Nat /\ contentSize \in Nat /\ op.at \in Nat /\ op.n \in Nat
      /\ op.data \in Seq(Int) /\ content \in Seq(Int) /\ Len(content) \in Nat
      /\ Len(content) <= contentSize
  BY ReaderFacts
<1>3. /\ op.kind = "Read" /\ op.zeros = 0 /\ InBlock(position) /\ position <= contentSize
      /\ Readable /\ op.at <= contentSize
  BY <1>1 DEF ReaderInv, ReaderCall
<1>4. /\ op.at <= position /\ position <= op.at + op.n
      /\ position <= MaxOf(op.at, Len(content))
      /\ op.data = SubSeq(content, op.at + 1, position)
  BY <1>1 DEF ReaderInv, ReadSoFar
<1>5. cacheStart \in Nat /\ cacheSize \in 0..B
  BY <1>1, <1>2 DEF StreamInv, CacheRight, Aligned, TypeOK
<1>6. CachedBytes = Slice(content, cacheStart, B)
  BY <1>1 DEF ReaderInv, ReaderCache
<1>7. PICK wanted \in Nat : op.n - Len(op.data) = wanted
  <2>1. CASE position <= Len(content)
    <3>1. PICK m \in Nat : m = position - op.at
      BY <1>2, <1>4
    <3>2. op.at + m = position /\ op.at + m <= Len(content)
      BY <1>2, <2>1, <3>1
    <3>3. Len(SubSeq(content, op.at + 1, op.at + m)) = m
      BY <1>2, <3>2, SubSeqOf
    <3>4. Len(op.data) = m
      BY <1>4, <3>2, <3>3
    <3>5. op.n - m \in Nat
      BY <1>2, <1>4, <3>2
    <3> QED BY <3>4, <3>5
  <2>2. CASE position > Len(content)
    <3>1. position = op.at
      BY <1>2, <1>4, <2>2 DEF MaxOf
    <3>2. SubSeq(content, op.at + 1, op.at) = <<>>
      BY <1>2
    <3>3. Len(op.data) = 0
      <4>1. op.data = <<>>
        BY <1>4, <3>1, <3>2
      <4>2. Len(<<>>) = 0
        OBVIOUS
      <4> QED BY <4>1, <4>2
    <3> QED BY <1>2, <3>3
  <2> QED BY <1>2, <2>1, <2>2
<1>8. PICK k \in Nat :
        /\ BytesFromBlock = SubSeq(content, position + 1, position + k)
        /\ Len(BytesFromBlock) = k /\ k <= wanted
        /\ k > 0 => position + k <= Len(content)
        /\ k = 0 => wanted = 0 \/ position >= Len(content)
  BY <1>2, <1>3, <1>5, <1>6, <1>7, CopiedBytes
<1>9. PICK bytes \in Seq(Int) : bytes = BytesFromBlock
  BY <1>1, <1>2, BytesFromBlockType DEF StreamInv
<1>10. Len(bytes) = k /\ (bytes = <<>> <=> k = 0)
  <2>1. Len(bytes) = k
    BY <1>8, <1>9
  <2>2. bytes = <<>> <=> Len(bytes) = 0
    OBVIOUS
  <2> QED BY <2>1, <2>2
<1>11. /\ op'.pc = (IF k = 0 THEN "return" ELSE "loop") /\ op'.data = op.data \o bytes
       /\ op'.kind = "Read" /\ op'.at = op.at /\ op'.n = op.n /\ op'.zeros = 0
       /\ position' = position + k
  BY <1>1, <1>2, <1>3, <1>9, <1>10 DEF TypeOK, Ops
<1>12. ReaderFile' /\ ReaderCache'
  BY <1>1, <1>11, ReaderFrame
<1>13. ReaderCall'
  <2>1. position + k <= contentSize
    BY <1>2, <1>3, <1>8
  <2> QED BY <1>1, <1>3, <1>11, <2>1 DEF ReaderCall, backing
<1>14. CASE k = 0
  <2>1. op'.data = op.data /\ op'.pc = "return"
    BY <1>2, <1>10, <1>11, <1>14
  <2>2. Len(op.data) >= op.n \/ position >= Len(content)
    BY <1>2, <1>7, <1>8, <1>14
  <2>3. op.data = Slice(content, op.at, op.n)
    BY <1>1, <2>2, ReadIsWhole
  <2>4. ReadSoFar' /\ ReadsReturnContent' /\ ReadsNeverFail'
    BY <1>1, <1>11, <2>1, <2>3 DEF ReaderInv, ReadSoFar, ReadsReturnContent, ReadsNeverFail
  <2> QED BY <1>12, <1>13, <2>4 DEF ReaderInv
<1>15. CASE k > 0
  <2>1. PICK at \in Nat, p \in Nat, q \in Nat : at = op.at /\ p = position /\ q = p + k
    BY <1>2
  <2>2. at <= p /\ p <= q /\ q <= Len(content)
    BY <1>4, <1>8, <1>15, <2>1
  <2>3. SubSeq(content, at + 1, p) \o SubSeq(content, p + 1, q) = SubSeq(content, at + 1, q)
    BY <1>2, <2>2, JoinParts
  <2>4. op'.data = SubSeq(content, at + 1, q)
    BY <1>4, <1>8, <1>9, <1>11, <2>1, <2>3
  <2>5. q <= at + op.n
    <3>1. Len(op.data) = p - at
      <4>1. PICK m \in Nat : m = p - at
        BY <2>2
      <4>2. at + m = p /\ at + m <= Len(content)
        BY <1>2, <2>2, <4>1
      <4>3. Len(SubSeq(content, at + 1, at + m)) = m
        BY <1>2, <4>2, SubSeqOf
      <4> QED BY <1>4, <2>1, <4>1, <4>2, <4>3
    <3> QED BY <1>2, <1>7, <1>8, <2>1, <3>1, SMTT(60)
  <2>6. ReadSoFar'
    <3>1. op'.pc = "loop" /\ op'.at = at /\ op'.n = op.n /\ position' = q /\ content' = content
      BY <1>1, <1>11, <1>15, <2>1
    <3>2. q <= MaxOf(at, Len(content)) /\ at <= q
      BY <1>2, <2>2 DEF MaxOf
    <3> QED BY <2>4, <2>5, <3>1, <3>2 DEF ReadSoFar
  <2>7. ReadsReturnContent' /\ ReadsNeverFail'
    BY <1>1, <1>11, <1>15 DEF ReaderInv, ReadsReturnContent, ReadsNeverFail
  <2> QED BY <1>12, <1>13, <2>6, <2>7 DEF ReaderInv
<1> QED BY <1>14, <1>15

\* Flush of a stream that cannot be written throws.
LEMMA ReaderFlush ==
  ASSUME ~Writable, StreamInv, ReaderInv, CachedBlockFlush
  PROVE  ReaderInv'
<1>1. ~FlushWrite.ok
  BY DEF FlushWrite, SimpleWrite
<1>2. op.pc = "flush" /\ Throw /\ UNCHANGED <<backing, cached, cursor, content>>
  BY <1>1 DEF CachedBlockFlush
<1>3. op.kind = "Flush"
  BY <1>2 DEF ReaderInv, ReaderCall
<1>4. op' = Idle /\ ret'.kind = "Flush"
  BY <1>2, <1>3 DEF Throw
<1>5. op'.pc = "idle" /\ op'.kind = "None" /\ op'.zeros = 0
  BY <1>4 DEF Idle
<1>6. ReaderFile' /\ ReaderCache'
  BY <1>2, <1>5, ReaderFrame
<1> QED BY <1>2, <1>4, <1>5, <1>6 DEF ReaderInv, ReaderCall, ReadSoFar, ReadsReturnContent,
           ReadsNeverFail, backing, cursor

LEMMA ReaderReturn ==
  ASSUME StreamInv, ReaderInv, Return
  PROVE  ReaderInv'
<1>1. op' = Idle /\ ret'.status = "ok" /\ UNCHANGED <<backing, cached, cursor, content>>
  BY DEF Return
<1>2. op'.pc = "idle" /\ op'.kind = "None" /\ op'.zeros = 0
  BY <1>1 DEF Idle
<1>3. ReaderFile' /\ ReaderCache'
  BY <1>1, <1>2, ReaderFrame
<1> QED BY <1>1, <1>2, <1>3 DEF ReaderInv, ReaderCall, ReadSoFar, ReadsReturnContent,
           ReadsNeverFail, backing, cursor

LEMMA ReaderNext ==
  ASSUME ~Writable, "PastEnd" \notin Calls
  PROVE  StreamInv /\ ReaderInv /\ [Next]_vars => ReaderInv'
<1> SUFFICES ASSUME StreamInv, ReaderInv, [Next]_vars PROVE ReaderInv'
  OBVIOUS
<1>1. CASE UNCHANGED vars
  BY <1>1 DEF vars, backing, cached, cursor, ReaderInv, ReaderFile, ReaderCache, ReaderCall, ReadSoFar,
     ReadsReturnContent, ReadsNeverFail, CachedBytes, InBlock
<1>2. CASE Step
  <2>1. op.pc \notin {"size", "fill", "fillblock", "zero", "shrink", "rewrite", "stuck"}
    BY DEF ReaderInv, ReaderCall
  <2>2. op.pc = "copy" => op.kind = "Read"
    BY DEF ReaderInv, ReaderCall
  <2>3. ~(Grow \/ GrowEndless \/ SizeUnchanged \/ Shrink \/ FillWithZeros \/ FillDone
          \/ WriteChunk \/ ZeroChunk \/ RelockHangs \/ RewriteFinalBlock)
    BY <2>1, <2>2 DEF Grow, GrowEndless, SizeUnchanged, Shrink, FillWithZeros, FillDone,
       WriteChunk, ZeroChunk, RelockHangs, RewriteFinalBlock
  <2> QED BY <1>2, <2>3, ReaderSeek, ReaderLoopDone, ReaderHit, ReaderMiss, ReaderLoad, ReaderCopy,
             ReaderFlush, ReaderReturn DEF Step
<1> QED BY <1>1, <1>2, ReaderCalls DEF Next

\* Whatever is read from a well-formed file, in any order and from any offset within the
\* stream, ReadAsync delivers exactly the plaintext of the file there: across blocks, with
\* the padding of the final block taken off, and also after refused writes and failed flushes.
THEOREM ReaderGetsContent ==
  ASSUME ~Writable, "PastEnd" \notin Calls
  PROVE  Spec => []ReadsReturnContent
<1>1. ReaderInv => ReadsReturnContent
  BY DEF ReaderInv
<1>2. StreamInv /\ ReaderInv /\ [Next]_vars => ReaderInv'
  BY ReaderNext
<1> QED BY <1>1, <1>2, ReaderInit, StreamInitInv, StreamStepInv, PTL DEF Spec

\* No read of a well-formed file ends in an exception: every block can be decrypted and the
\* final one has its padding (LoadBlock, Decrypt).
THEOREM ReaderNeverFails ==
  ASSUME ~Writable, "PastEnd" \notin Calls
  PROVE  Spec => []ReadsNeverFail
<1>1. ReaderInv => ReadsNeverFail
  BY DEF ReaderInv
<1>2. StreamInv /\ ReaderInv /\ [Next]_vars => ReaderInv'
  BY ReaderNext
<1> QED BY <1>1, <1>2, ReaderInit, StreamInitInv, StreamStepInv, PTL DEF Spec

-----------------------------------------------------------------------------
(* A stream that is only read implements a plain byte stream *)

\* How the position of a call in progress relates to where it began and what it has done.
ReaderTrack ==
  /\ op.pc = "idle" <=> op.kind = "None"
  /\ op.pc = "idle" => op = Idle
  /\ op.pc \in {"seek", "flush"} => position = op.origin
  /\ op.pc = "seek" => op.kind \in {"Read", "Seek"}
  /\ op.pc = "return" =>
       \/ op.kind = "Read" /\ position = op.at + Len(op.data)
       \/ op.kind = "Seek" /\ (position = op.at \/ (op.at > Len(content) /\ position = op.origin))

\* A step inside a call is not seen by the client.
LEMMA InsideCall ==
  ASSUME op.pc # "idle", op'.pc # "idle", op'.kind = op.kind, op'.at = op.at, op'.n = op.n,
         op'.origin = op.origin, UNCHANGED <<ret, content>>
  PROVE  UNCHANGED BS!vars
  BY DEF BS!vars

LEMMA GoesOn ==
  ASSUME TypeOK, op.pc # "idle", NEW pc \in {"loop", "load", "copy", "return"}, Goto(pc),
         UNCHANGED <<ret, content>>
  PROVE  UNCHANGED BS!vars
<1>1. op'.pc = pc /\ op'.kind = op.kind /\ op'.at = op.at /\ op'.n = op.n /\ op'.origin = op.origin
  BY GotoFields
<1> QED BY <1>1, InsideCall

LEMMA TrackStart ==
  ASSUME ReaderTrack, op.pc = "idle", NEW kind \in {"Read", "Seek", "Flush"},
         NEW pc \in {"seek", "flush"}, NEW at, NEW n, NEW data, Start(kind, pc, at, n, data),
         UNCHANGED content, pc = "flush" <=> kind = "Flush"
  PROVE  ReaderTrack' /\ BS!Call(kind, at, n, content)
<1>1. /\ op' = [pc |-> pc, kind |-> kind, at |-> at, n |-> n, data |-> data,
                origin |-> position, zeros |-> 0, blk |-> 0]
      /\ UNCHANGED <<cursor, ret>>
  BY DEF Start
<1>2. op = Idle /\ op.kind = "None" /\ op.at = 0 /\ op.n = 0
  BY DEF ReaderTrack, Idle
<1>3. ReaderTrack'
  BY <1>1 DEF ReaderTrack, cursor
<1>4. BS!Call(kind, at, n, content)
  BY <1>1, <1>2 DEF BS!Call, BS!NoCall, cursor
<1> QED BY <1>3, <1>4

LEMMA TrackRefuse ==
  ASSUME ReaderTrack, op.pc = "idle", Refuse
  PROVE  ReaderTrack' /\ BS!Refuse
<1>1. /\ UNCHANGED <<cursor, op, content>>
      /\ ret' = [kind |-> "Refused", status |-> "invalid", data |-> <<>>]
  BY DEF Refuse
<1>2. op = Idle /\ op.kind = "None" /\ op.at = 0 /\ op.n = 0
  BY DEF ReaderTrack, Idle
<1>3. ReaderTrack'
  BY <1>1 DEF ReaderTrack, cursor
<1> QED BY <1>1, <1>2, <1>3 DEF BS!Refuse, BS!NoCall, cursor

LEMMA TrackCalls ==
  ASSUME ~Writable, ReaderTrack,
         \/ \E n \in Lengths : Read(n)
         \/ \E d \in Payloads : Write(d)
         \/ \E at \in 0..MaxSize, n \in Lengths : ReadAsyncAt(at, n)
         \/ \E at \in 0..MaxSize, d \in Payloads : WriteAsyncAt(at, d)
         \/ \E p \in 0..MaxSize : Seek(p)
         \/ \E v \in 0..MaxSize : Size(v)
         \/ Flush, position \in Nat
  PROVE  ReaderTrack' /\ BS!Next
<1>1. op.pc = "idle"
  BY DEF Read, Write, ReadAsyncAt, WriteAsyncAt, Seek, Size, Flush, MayCall
<1>2. CASE Refuse
  BY <1>1, <1>2, TrackRefuse DEF BS!Next
<1>3. ASSUME NEW at \in Nat, NEW n \in Lengths, ReadAsync(at, n) PROVE ReaderTrack' /\ BS!Next
  <2>1. CASE Start("Read", "seek", at, n, <<>>) /\ UNCHANGED content
    <3>1. ReaderTrack' /\ BS!Call("Read", at, n, content)
      BY <1>1, <2>1, TrackStart
    <3>2. at \in 0..MaxSize
      BY <1>3 DEF ReadAsync, Offset
    <3> QED BY <3>1, <3>2 DEF BS!Next, BS!CallRead
  <2> QED BY <1>2, <1>3, <2>1 DEF ReadAsync
<1>4. ASSUME NEW n \in Lengths, Read(n) PROVE ReaderTrack' /\ BS!Next
  BY <1>3, <1>4 DEF Read
<1>5. ASSUME NEW at \in 0..MaxSize, NEW n \in Lengths, ReadAsyncAt(at, n)
      PROVE  ReaderTrack' /\ BS!Next
  BY <1>3, <1>5 DEF ReadAsyncAt
<1>6. ASSUME NEW at, NEW d, WriteAsync(at, d) PROVE ReaderTrack' /\ BS!Next
  BY <1>2, <1>6 DEF WriteAsync
<1>7. ASSUME NEW p \in 0..MaxSize, Seek(p) PROVE ReaderTrack' /\ BS!Next
  <2>1. Start("Seek", "seek", p, 0, <<>>) /\ UNCHANGED content
    BY <1>7 DEF Seek
  <2>2. ReaderTrack' /\ BS!Call("Seek", p, 0, content)
    BY <1>1, <2>1, TrackStart
  <2> QED BY <2>2 DEF BS!Next, BS!CallSeek
<1>8. ASSUME NEW v \in 0..MaxSize, Size(v) PROVE ReaderTrack' /\ BS!Next
  BY <1>2, <1>8 DEF Size
<1>9. CASE Flush
  <2>1. Start("Flush", "flush", 0, 0, <<>>) /\ UNCHANGED content
    BY <1>9 DEF Flush
  <2>2. ReaderTrack' /\ BS!Call("Flush", 0, 0, content)
    BY <1>1, <2>1, TrackStart
  <2> QED BY <2>2 DEF BS!Next, BS!CallFlush
<1> QED BY <1>4, <1>5, <1>6, <1>7, <1>8, <1>9 DEF Write, WriteAsyncAt

\* The position follows what the loop of ReadAsync has delivered.
LEMMA ReadLength ==
  ASSUME StreamInv, ReaderInv, op.pc \in {"loop", "load", "copy"}
  PROVE  position = op.at + Len(op.data)
<1>1. /\ op.at \in Nat /\ content \in Seq(Int) /\ position \in Nat /\ Len(content) \in Nat
  BY ReaderFacts
<1>2. /\ op.at <= position /\ position <= MaxOf(op.at, Len(content))
      /\ op.data = SubSeq(content, op.at + 1, position)
  BY DEF ReaderInv, ReadSoFar
<1>3. PICK m \in Nat : m = position - op.at
  BY <1>1, <1>2
<1>4. op.at + m = position
  BY <1>1, <1>3
<1>5. CASE m = 0
  <2>1. position = op.at
    BY <1>1, <1>4, <1>5
  <2>2. SubSeq(content, op.at + 1, op.at) = <<>>
    BY <1>1
  <2>3. op.data = <<>>
    BY <1>2, <2>1, <2>2
  <2>4. Len(<<>>) = 0
    OBVIOUS
  <2> QED BY <1>1, <2>1, <2>3, <2>4
<1>6. CASE m # 0
  <2>1. op.at + m <= Len(content)
    BY <1>1, <1>2, <1>4, <1>6 DEF MaxOf
  <2>2. Len(SubSeq(content, op.at + 1, op.at + m)) = m
    BY <1>1, <2>1, SubSeqOf
  <2> QED BY <1>2, <1>4, <2>2
<1> QED BY <1>5, <1>6

LEMMA TrackSeek ==
  ASSUME ~Writable, StreamInv, ReaderInv, ReaderTrack, SeekWithin \/ SeekInvalid
  PROVE  ReaderTrack' /\ UNCHANGED BS!vars
<1>1. /\ GetSizeInternal = contentSize /\ op.at \in Nat /\ TypeOK /\ contentSize \in Nat
      /\ Len(content) <= contentSize /\ Len(content) \in Nat
  BY ReaderFacts
<1>2. /\ op.pc = "seek" /\ Goto(AfterSeek) /\ UNCHANGED <<ret, content>>
      /\ SeekWithin => position' = op.at
      /\ SeekInvalid => position' = position /\ op.at > contentSize
  BY <1>1 DEF SeekWithin, SeekInvalid
<1>3. op.kind \in {"Read", "Seek"} /\ position = op.origin
  BY <1>2 DEF ReaderTrack
<1>4. AfterSeek = IF op.kind = "Read" THEN "loop" ELSE "return"
  BY <1>3 DEF AfterSeek
<1>5. /\ op'.pc = AfterSeek /\ op'.kind = op.kind /\ op'.at = op.at /\ op'.n = op.n
      /\ op'.origin = op.origin
  BY <1>1, <1>2, <1>4, GotoFields
<1>6. UNCHANGED BS!vars
  BY <1>2, <1>4, <1>5, InsideCall
<1>7. ReaderTrack'
  BY <1>1, <1>2, <1>3, <1>4, <1>5 DEF ReaderTrack
<1> QED BY <1>6, <1>7

\* A step from one place of the loop to another.
LEMMA TrackLoop ==
  ASSUME op.pc \in {"loop", "load", "copy"}, op'.pc \in {"loop", "load", "copy"},
         op.kind = "Read", op'.kind = "Read", op'.at = op.at, op'.n = op.n,
         op'.origin = op.origin, UNCHANGED <<ret, content>>
  PROVE  ReaderTrack' /\ UNCHANGED BS!vars
  BY InsideCall DEF ReaderTrack

LEMMA TrackLoopDone ==
  ASSUME StreamInv, ReaderInv, LoopDone
  PROVE  ReaderTrack' /\ UNCHANGED BS!vars
<1>1. /\ op.pc = "loop" /\ Goto("return") /\ UNCHANGED <<cursor, ret, content>>
  BY DEF LoopDone
<1>2. op.kind = "Read"
  BY <1>1 DEF ReaderInv, ReaderCall
<1>3. /\ op'.pc = "return" /\ op'.kind = op.kind /\ op'.at = op.at /\ op'.n = op.n
      /\ op'.origin = op.origin /\ op'.data = op.data
  BY <1>1, GotoFields DEF StreamInv
<1>4. position = op.at + Len(op.data)
  BY <1>1, ReadLength
<1>5. ReaderTrack'
  BY <1>1, <1>2, <1>3, <1>4 DEF ReaderTrack, cursor
<1> QED BY <1>1, <1>3, <1>5, InsideCall

LEMMA TrackUpdate ==
  ASSUME StreamInv, ReaderInv, ReaderInv', UpdateBlockHit \/ UpdateBlockMiss \/ LoadBlock
  PROVE  ReaderTrack' /\ UNCHANGED BS!vars
<1>1. TypeOK /\ UNCHANGED content
  BY DEF StreamInv, UpdateBlockHit, UpdateBlockMiss, LoadBlock
<1>2. op.pc \in {"loop", "load"}
  BY DEF UpdateBlockHit, UpdateBlockMiss, LoadBlock, NeedsBlock, LoopGoesOn, ReaderInv, ReaderCall
<1>3. op.kind = "Read" /\ op.zeros = 0
  BY <1>2 DEF ReaderInv, ReaderCall
<1>4. ~Throw
  BY <1>3 DEF Throw, ReaderInv, ReadsNeverFail
<1>5. AfterUpdate = "copy"
  BY <1>3 DEF AfterUpdate
<1>6. \/ Goto(AfterUpdate) /\ UNCHANGED ret
      \/ op' = [op EXCEPT !.pc = "load", !.blk = op'.blk] /\ UNCHANGED ret
  <2>1. CASE UpdateBlockHit
    BY <2>1 DEF UpdateBlockHit
  <2>2. CASE UpdateBlockMiss
    <3>1. PICK b : op' = [op EXCEPT !.pc = "load", !.blk = b] /\ UNCHANGED ret
      BY <1>4, <2>2 DEF UpdateBlockMiss
    <3> QED BY <1>1, <3>1 DEF TypeOK, Ops
  <2>3. CASE LoadBlock
    BY <1>4, <2>3 DEF LoadBlock
  <2> QED BY <2>1, <2>2, <2>3
<1>7. /\ op'.pc \in {"load", "copy"} /\ op'.kind = "Read" /\ op'.at = op.at /\ op'.n = op.n
      /\ op'.origin = op.origin /\ UNCHANGED ret
  <2>1. CASE Goto(AfterUpdate) /\ UNCHANGED ret
    BY <1>1, <1>3, <1>5, <2>1, GotoFields
  <2>2. CASE op' = [op EXCEPT !.pc = "load", !.blk = op'.blk] /\ UNCHANGED ret
    BY <1>1, <1>3, <2>2 DEF TypeOK, Ops
  <2> QED BY <1>6, <2>1, <2>2
<1> QED BY <1>1, <1>2, <1>3, <1>7, TrackLoop

LEMMA TrackCopy ==
  ASSUME StreamInv, ReaderInv, ReadFromBlock
  PROVE  ReaderTrack' /\ UNCHANGED BS!vars
<1>1. /\ op.pc = "copy" /\ op.kind = "Read" /\ position' = position + Len(BytesFromBlock)
      /\ op' = [op EXCEPT !.data = op.data \o BytesFromBlock,
                          !.pc = IF BytesFromBlock = <<>> THEN "return" ELSE "loop"]
      /\ UNCHANGED <<ret, content>>
  BY DEF ReadFromBlock
<1>2. TypeOK /\ op.data \in Seq(Int) /\ op.at \in Nat
  BY ReaderFacts
<1>3. PICK bytes \in Seq(Int) : bytes = BytesFromBlock
  BY <1>1, <1>2, BytesFromBlockType DEF StreamInv
<1>4. /\ op'.pc = (IF bytes = <<>> THEN "return" ELSE "loop") /\ op'.kind = "Read"
      /\ op'.at = op.at /\ op'.n = op.n /\ op'.origin = op.origin
      /\ op'.data = op.data \o bytes
  BY <1>1, <1>2, <1>3 DEF TypeOK, Ops
<1>5. position' = op.at + Len(op'.data)
  <2>1. position = op.at + Len(op.data)
    BY <1>1, ReadLength
  <2>2. Len(op.data \o bytes) = Len(op.data) + Len(bytes) /\ Len(op.data) \in Nat /\ Len(bytes) \in Nat
    BY <1>2
  <2> QED BY <1>1, <1>2, <1>3, <1>4, <2>1, <2>2
<1>6. ReaderTrack'
  BY <1>4, <1>5 DEF ReaderTrack
<1> QED BY <1>1, <1>4, <1>6, InsideCall

LEMMA TrackFlush ==
  ASSUME ~Writable, ReaderInv, ReaderTrack, CachedBlockFlush
  PROVE  ReaderTrack' /\ BS!Return
<1>1. ~FlushWrite.ok
  BY DEF FlushWrite, SimpleWrite
<1>2. op.pc = "flush" /\ Throw /\ UNCHANGED <<cursor, content>>
  BY <1>1 DEF CachedBlockFlush
<1>3. op.kind = "Flush" /\ position = op.origin
  BY <1>2 DEF ReaderInv, ReaderCall, ReaderTrack
<1>4. op' = Idle /\ ret' = [kind |-> "Flush", status |-> "exception", data |-> <<>>]
  BY <1>2, <1>3 DEF Throw
<1>5. op'.pc = "idle" /\ op'.kind = "None" /\ op'.at = 0 /\ op'.n = 0
  BY <1>4 DEF Idle
<1>6. ReaderTrack'
  BY <1>4, <1>5 DEF ReaderTrack
<1>7. BS!Return
  BY <1>2, <1>3, <1>4, <1>5 DEF BS!Return, BS!NoCall, BS!Status, BS!Data, cursor
<1> QED BY <1>6, <1>7

LEMMA TrackReturn ==
  ASSUME ReaderInv, ReaderTrack, Return
  PROVE  ReaderTrack' /\ BS!Return
<1>1. /\ op.pc = "return" /\ op' = Idle /\ UNCHANGED <<cursor, content>>
      /\ ret' = [kind |-> op.kind, status |-> "ok",
                 data |-> IF op.kind = "Read" THEN op.data ELSE <<>>]
  BY DEF Return
<1>2. op'.pc = "idle" /\ op'.kind = "None" /\ op'.at = 0 /\ op'.n = 0
  BY <1>1 DEF Idle
<1>3. ReaderTrack'
  BY <1>1, <1>2 DEF ReaderTrack
<1>4. CASE op.kind = "Read" /\ position = op.at + Len(op.data)
  <2>1. op.data = Slice(content, op.at, op.n)
    BY <1>1, <1>4 DEF ReaderInv, ReadsReturnContent
  <2>2. BS!Slice(content, op.at, op.n) = op.data
    BY <2>1 DEF BS!Slice, BS!MinOf, Slice, MinOf
  <2> QED BY <1>1, <1>2, <1>3, <1>4, <2>2 DEF BS!Return, BS!NoCall, BS!Status, BS!Data, cursor
<1>5. CASE op.kind = "Seek" /\ (position = op.at \/ (op.at > Len(content) /\ position = op.origin))
  BY <1>1, <1>2, <1>3, <1>5 DEF BS!Return, BS!NoCall, BS!Status, BS!Data, cursor
<1> QED BY <1>1, <1>4, <1>5 DEF ReaderTrack

LEMMA TrackNext ==
  ASSUME ~Writable
  PROVE  StreamInv /\ ReaderInv /\ ReaderInv' /\ ReaderTrack /\ [Next]_vars
           => ReaderTrack' /\ [BS!Next]_(BS!vars)
<1> SUFFICES ASSUME StreamInv, ReaderInv, ReaderInv', ReaderTrack, [Next]_vars
             PROVE  ReaderTrack' /\ [BS!Next]_(BS!vars)
  OBVIOUS
<1>1. CASE UNCHANGED vars
  BY <1>1 DEF vars, backing, cached, cursor, ReaderTrack, BS!vars
<1>2. CASE Step
  <2>1. op.pc \notin {"size", "fill", "fillblock", "zero", "shrink", "rewrite", "stuck"}
    BY DEF ReaderInv, ReaderCall
  <2>2. op.pc = "copy" => op.kind = "Read"
    BY DEF ReaderInv, ReaderCall
  <2>3. ~(Grow \/ GrowEndless \/ SizeUnchanged \/ Shrink \/ FillWithZeros \/ FillDone
          \/ WriteChunk \/ ZeroChunk \/ RelockHangs \/ RewriteFinalBlock)
    BY <2>1, <2>2 DEF Grow, GrowEndless, SizeUnchanged, Shrink, FillWithZeros, FillDone,
       WriteChunk, ZeroChunk, RelockHangs, RewriteFinalBlock
  <2>4. CASE CachedBlockFlush \/ Return
    BY <2>4, TrackFlush, TrackReturn DEF BS!Next
  <2>5. CASE SeekWithin \/ SeekInvalid \/ LoopDone \/ UpdateBlockHit \/ UpdateBlockMiss \/ LoadBlock
             \/ ReadFromBlock
    BY <2>5, TrackSeek, TrackLoopDone, TrackUpdate, TrackCopy
  <2> QED BY <1>2, <2>3, <2>4, <2>5 DEF Step
<1>3. position \in Nat
  BY ReaderFacts
<1> QED BY <1>1, <1>2, <1>3, TrackCalls DEF Next

\* A stream that can only be read behaves as a plain byte stream that holds the plaintext of
\* the file: every step of a call is invisible to the client, and every return delivers what
\* the byte stream would, in the data, the status and the position.
THEOREM ReaderImplementsByteStream ==
  ASSUME ~Writable, "PastEnd" \notin Calls
  PROVE  Spec => ImplementsByteStream
<1>1. Init => BS!Init /\ ReaderTrack
  <2> SUFFICES ASSUME Init PROVE BS!Init /\ ReaderTrack
    OBVIOUS
  <2>1. /\ op = Idle /\ position = 0 /\ ret = [kind |-> "None", status |-> "ok", data |-> <<>>]
        /\ \/ "fresh" \in Starts /\ content = <<>>
           \/ "opened" \in Starts /\ content \in InitialTexts
    BY DEF Init
  <2>2. op.pc = "idle" /\ op.kind = "None" /\ op.at = 0 /\ op.n = 0
    BY <2>1 DEF Idle
  <2>3. content \in (IF "fresh" \in Starts THEN {<<>>} ELSE {})
                   \cup (IF "opened" \in Starts THEN InitialTexts ELSE {})
    BY <2>1
  <2>4. BS!Init
    BY <2>1, <2>2, <2>3 DEF BS!Init, BS!NoCall
  <2> QED BY <2>1, <2>2, <2>4 DEF ReaderTrack
<1>2. StreamInv /\ ReaderInv /\ [Next]_vars => ReaderInv'
  BY ReaderNext
<1>3. StreamInv /\ ReaderInv /\ ReaderInv' /\ ReaderTrack /\ [Next]_vars
        => ReaderTrack' /\ [BS!Next]_(BS!vars)
  BY TrackNext
<1> QED BY <1>1, <1>2, <1>3, ReaderInit, StreamInitInv, StreamStepInv, PTL
           DEF Spec, ImplementsByteStream, BS!Spec

-----------------------------------------------------------------------------
(* Writing a block to a file that holds the text before it *)

LEMMA StoredBefore ==
  ASSUME NEW f, NEW text \in Seq(Int), NEW other \in Seq(Int), NEW n \in Nat,
         Stored(f, text, n), PartAt(text, other, 0, n)
  PROVE  Stored(f, other, n)
<1>1. ASSUME NEW i \in 1..n PROVE f[i] = CipherByte(other, 0, i)
  <2>1. i \in Nat /\ 1 <= i /\ i <= n
    OBVIOUS
  <2>2. CipherByte(text, 0, i) = CipherByte(other, 0, i)
    BY <2>1, SameCipherByte
  <2> QED BY <2>2 DEF Stored
<1> QED BY <1>1 DEF Stored

\* What block b and the next ones hold of a text.
CipherOfBlock(part, b) == [i \in 1..Len(part) |-> CipherByte(part, b, i)]

\* A block written at its place leaves the file with the text up to the end of the block.
LEMMA StoredBlock ==
  ASSUME NEW f \in Seq(CipherBytes), NEW text \in Seq(Int), NEW part \in Seq(Int),
         NEW b \in Nat, NEW R \in Nat, StartsAt(b, R), R <= Len(f), Stored(f, text, R),
         PartAt(part, text, R, Len(part)),
         NEW g, g = Splice(f, R, CipherOfBlock(part, b), Hole)
  PROVE  /\ g \in Seq(CipherBytes) /\ Len(g) = MaxOf(Len(f), R + Len(part))
         /\ Stored(g, text, R + Len(part))
<1>1. PICK n \in Nat : n = Len(part)
  OBVIOUS
<1>2. PICK out : out = CipherOfBlock(part, b) /\ out = [i \in 1..n |-> CipherByte(part, b, i)]
  BY <1>1 DEF CipherOfBlock
<1>3. out \in Seq(CipherBytes) /\ Len(out) = n
  <2>1. ASSUME NEW i \in 1..n PROVE CipherByte(part, b, i) \in CipherBytes
    <3>1. Len(part) % A = 0 /\ i \in 1..Len(part)
      BY <1>1 DEF PartAt
    <3> QED BY <3>1, CipherByteType
  <2> QED BY <1>2, <2>1
<1>4. /\ g \in Seq(CipherBytes) /\ Len(g) = MaxOf(Len(f), R + Len(out))
      /\ \A i \in 1..R : g[i] = f[i]
      /\ \A i \in 1..Len(out) : g[R + i] = out[i]
  <2>1. /\ Splice(f, R, out, Hole) \in Seq(CipherBytes)
        /\ Overwritten(Splice(f, R, out, Hole), f, R, out)
    BY <1>3, SpliceBytes
  <2>2. g \in Seq(CipherBytes) /\ Overwritten(g, f, R, out)
    BY <1>2, <2>1
  <2> QED BY <2>2 DEF Overwritten
<1>5. ASSUME NEW i \in 1..(R + n) PROVE g[i] = CipherByte(text, 0, i)
  <2>1. CASE i <= R
    <3>1. i \in 1..R
      BY <2>1
    <3> QED BY <1>4, <3>1 DEF Stored
  <2>2. CASE i > R
    <3>1. PICK j \in Nat : j = i - R
      BY <2>2
    <3>2. 1 <= j /\ j <= n /\ R + j = i /\ j \in 1..n
      BY <2>2, <3>1
    <3>3. CipherByte(part, b, j) = CipherByte(text, 0, R + j)
      BY <1>1, <3>2, ShiftedByte
    <3>4. g[R + j] = out[j] /\ out[j] = CipherByte(part, b, j)
      BY <1>2, <1>3, <1>4, <3>2
    <3> QED BY <3>2, <3>3, <3>4
  <2> QED BY <2>1, <2>2
<1>6. Stored(g, text, R + n)
  BY <1>5 DEF Stored
<1> QED BY <1>1, <1>3, <1>4, <1>6

\* The final block, with its padding, completes the file.
LEMMA FinishedFile ==
  ASSUME NEW f \in Seq(CipherBytes), NEW text \in Seq(Int), NEW part \in Seq(Int),
         NEW b \in Nat, NEW R \in Nat, StartsAt(b, R), R <= Len(f), R % A = 0,
         Stored(f, text, R), Len(f) <= GetPaddedSize(Len(text)),
         SameBytes(part, 0, text, R, Len(part)), Len(text) = R + Len(part),
         NEW g, g = Splice(f, R, Encrypt(part, b, TRUE).out, Hole)
  PROVE  g \in Seq(CipherBytes) /\ FileHolds(g, text)
<1>1. PICK p \in Seq(Int), t \in Seq(Int) : p = AddPadding(part) /\ t = AddPadding(text)
  BY PaddingType
<1>2. PartAt(p, t, R, Len(p)) /\ Len(t) = R + Len(p)
  BY <1>1, PaddingShift
<1>3. g = Splice(f, R, CipherOfBlock(p, b), Hole)
  BY <1>1 DEF Encrypt, CipherOfBlock
<1>4. Stored(f, t, R)
  <2>1. \A i \in 1..Len(text) : AddPadding(text)[i] = text[i]
    BY PaddingBytes
  <2>2. R <= Len(text) /\ 0 + R <= Len(t)
    BY <1>2
  <2>3. ASSUME NEW i \in 1..R PROVE text[i] = t[0 + i]
    <3>1. i \in 1..Len(text) /\ 0 + i = i
      BY <2>2
    <3> QED BY <1>1, <2>1, <3>1
  <2>4. PartAt(text, t, 0, R)
    BY <2>2, <2>3 DEF PartAt
  <2> QED BY <2>4, StoredBefore
<1>5. /\ g \in Seq(CipherBytes) /\ Len(g) = MaxOf(Len(f), R + Len(p))
      /\ Stored(g, t, R + Len(p))
  BY <1>2, <1>3, <1>4, StoredBlock
<1>6. Len(t) = GetPaddedSize(Len(text))
  BY <1>1, PaddingType
<1>7. Len(g) = Len(t)
  <2>1. PICK m \in Nat, n \in Nat : m = Len(f) /\ n = Len(t)
    OBVIOUS
  <2>2. m <= n /\ R + Len(p) = n
    BY <1>2, <1>6, <2>1
  <2>3. MaxOf(m, n) = n
    BY <2>2 DEF MaxOf
  <2> QED BY <1>5, <2>1, <2>2, <2>3
<1> QED BY <1>1, <1>2, <1>5, <1>7 DEF FileHolds

\* A file that holds a text decrypts to it.
LEMMA FileDecrypts ==
  ASSUME NEW f \in Seq(CipherBytes), NEW text \in Seq(Int), FileHolds(f, text)
  PROVE  Decrypt(f, 0, TRUE) = [ok |-> TRUE, out |-> text]
<1>1. PICK t \in Seq(Int) : t = AddPadding(text) /\ Len(t) = GetPaddedSize(Len(text))
  BY PaddingType
<1>2. Len(t) % A = 0 /\ Len(t) > 0
  BY <1>1, PaddedSize
<1>3. Len(f) = Len(t) /\ Stored(f, t, Len(f))
  BY <1>1 DEF FileHolds
<1>4. f # <<>>
  <2>1. Len(f) # 0
    BY <1>2, <1>3
  <2> QED BY <2>1
<1>5. PICK s \in Nat : s = 0
  OBVIOUS
<1>6. s * B = 0
  BY <1>5
<1>7. CipherOf(f, AddPadding(text), s) /\ s * B + Len(f) = Len(AddPadding(text))
  <2>1. \A j \in 1..Len(f) : f[j] = CipherByte(t, 0, 0 + j)
    BY <1>3 DEF Stored
  <2> QED BY <1>1, <1>2, <1>3, <1>6, <2>1 DEF CipherOf
<1>8. /\ s * B <= Len(text)
      /\ Decrypt(f, s, TRUE) = [ok |-> TRUE, out |-> SubSeq(text, s * B + 1, Len(text))]
  BY <1>4, <1>7, DecryptFinal
<1>9. SubSeq(text, 1, Len(text)) = text
  OBVIOUS
<1>10. SubSeq(text, s * B + 1, Len(text)) = text
  BY <1>6, <1>9
<1> QED BY <1>5, <1>8, <1>10

-----------------------------------------------------------------------------
(* A stream that is written from its start to its end *)

\* How much of the call in progress has not reached the stream yet, and what comes next.
Remaining == IF op.kind = "Write" THEN Len(op.data)
             ELSE IF op.kind = "Seek" THEN op.at - StreamSize ELSE 0
NextByte(i) == IF op.kind = "Write" THEN op.data[i] ELSE 0

\* The file is up to date before this offset.
WrittenTo == IF writePending THEN cacheStart ELSE (contentSize \div B) * B

\* The cached block is the last one, and the position is at its end.
WriterCache ==
  /\ ~(writePending /\ finalBlockHasBeenWritten)
  /\ contentSize <= StreamSize /\ position = StreamSize
  /\ cacheStart = U64Max => contentSize = 0 /\ cacheSize = 0 /\ ~writePending
  /\ cacheStart # U64Max => cacheStart + cacheSize = StreamSize

\* Where a call may be, and what it may rely on there.
WriterCall ==
  /\ op.pc \in {"idle", "seek", "flush", "fill", "fillblock", "zero", "loop", "load", "copy", "return"}
  /\ op.kind # "Size"
  /\ op.pc = "idle" => op = Idle
  /\ op.pc # "idle" => op.kind # "None"
  /\ op.pc = "seek" => op.kind # "Flush"
  /\ op.pc = "flush" => op.kind = "Flush"
  /\ op.pc = "copy" => op.kind = "Write"
  /\ op.pc = "loop" => op.kind \in {"Read", "Write"}
  /\ op.pc \in {"fill", "fillblock", "zero"} => op.kind = "Seek"
  /\ op.pc = "load" => op.kind \in {"Write", "Seek"} /\ contentSize = op.blk * B /\ ~writePending
                       /\ (op.kind = "Seek" <=> op.zeros > 0)
  /\ op.pc \in {"copy", "zero"} => InBlock(position)
  /\ op.pc \in {"fillblock", "zero"} => op.zeros > 0
  /\ op.pc \notin {"load", "fillblock", "zero"} => op.zeros = 0

\* What the call was asked for.
WriterAsked ==
  /\ op.kind = "Read" => op.at = position /\ op.data = <<>>
  /\ op.kind = "Flush" => op.origin = position
  /\ op.kind = "Write" => Len(content) = op.at + op.n
  /\ op.kind = "Write" /\ op.pc = "seek" => op.at = position

\* Of the size: what has reached the stream and what is still to come add up.
WriterSize ==
  /\ Len(content) <= MaxSize
  /\ Remaining >= 0 /\ Len(content) = StreamSize + Remaining
  /\ op.pc = "return" => Remaining = 0
  /\ op.kind = "Seek" => op.zeros <= Remaining

\* The content is what has reached the stream followed by what is still to come.
WriterRest == \A i \in 1..Remaining : content[StreamSize + i] = NextByte(i)

\* The cached block holds its part of the content.
WriterBlock == \A i \in 1..cacheSize : cache[i] = content[cacheStart + i]

\* The file is no longer than the padded stream, holds every block that was written back,
\* and when a Flush returns, everything.
WriterFile ==
  /\ Len(file) <= GetPaddedSize(StreamSize)
  /\ Stored(file, content, WrittenTo)
  /\ op.pc = "return" /\ op.kind = "Flush" => FileHolds(file, content)

WriterInv ==
  /\ WriterCache /\ WriterCall /\ WriterAsked /\ WriterSize /\ WriterRest /\ WriterBlock
  /\ WriterFile /\ NoException

\* The stream is written and read from its start on: calls that name an offset of their own,
\* go back or change the size are not made.
Sequential == Calls \subseteq {"Read", "Write", "Seek", "Flush", "PastEnd", "Retry"}

LEMMA WriterFacts ==
  ASSUME StreamInv, WriterInv
  PROVE  /\ TypeOK /\ GetSizeInternal = StreamSize /\ StreamSize \in Nat
         /\ contentSize \in Nat /\ position \in Nat /\ position = StreamSize
         /\ cacheStart \in Nat /\ cacheSize \in 0..B
         /\ cacheStart # U64Max => cacheStart % B = 0
         /\ file \in Seq(CipherBytes) /\ content \in Seq(Int) /\ content \in Seq(Nat)
         /\ Len(content) \in Nat
         /\ op.at \in Nat /\ op.n \in Nat /\ op.zeros \in Nat /\ op.data \in Seq(Int)
         /\ Remaining \in Nat /\ Len(content) = StreamSize + Remaining
         /\ Len(content) <= MaxSize /\ StreamSize <= MaxSize
         /\ writePending \in BOOLEAN /\ finalBlockHasBeenWritten \in BOOLEAN
<1>1. /\ TypeOK /\ content \in Seq(Nat) /\ GetSizeInternal = StreamSize /\ position \in Nat
      /\ op.at \in Nat /\ StreamSize \in Nat
  BY StepFacts
<1>2. op.n \in Nat /\ op.data \in Seq(Int) /\ op.zeros \in Nat
  BY <1>1, OpFields
<1>3. position = StreamSize
  BY DEF WriterInv, WriterCache
<1>4. Remaining >= 0 /\ Len(content) = StreamSize + Remaining /\ Len(content) <= MaxSize
  BY DEF WriterInv, WriterSize
<1>5. Remaining \in Int
  BY <1>1, <1>2 DEF Remaining
<1>6. content \in Seq(Int) /\ Len(content) \in Nat
  BY <1>1
<1>7. StreamSize <= MaxSize /\ Remaining \in Nat
  BY <1>1, <1>4, <1>5, <1>6
<1>8. /\ contentSize \in Nat /\ cacheSize \in 0..B /\ cacheStart \in Nat
      /\ cacheStart # U64Max => cacheStart % B = 0
      /\ writePending \in BOOLEAN /\ finalBlockHasBeenWritten \in BOOLEAN
  BY <1>1 DEF TypeOK
<1>9. file \in Seq(CipherBytes)
  BY DEF StreamInv, BackingRight
<1> QED BY <1>1, <1>2, <1>3, <1>4, <1>6, <1>7, <1>8, <1>9

\* A writer stands at the end of its stream, which is within the bound, so it never
\* seeks to a position that has wrapped around.
LEMMA WriterNotEndless ==
  ASSUME StreamInv, WriterInv
  PROVE  ~GrowEndless
<1> SUFFICES ASSUME GrowEndless PROVE FALSE
  OBVIOUS
<1>1. op.pc = "seek" /\ op.at > StreamSize /\ op.at = U64Max /\ position = StreamSize
  BY WriterFacts DEF GrowEndless
<1>2. op.kind \in {"Read", "Write", "Seek"}
  BY <1>1, WriterFacts DEF WriterInv, WriterCall, TypeOK, Ops
<1>3. op.kind = "Seek"
  BY <1>1, <1>2, WriterFacts, SMTT(60) DEF WriterInv, WriterAsked
<1>4. Remaining = op.at - StreamSize
  BY <1>3 DEF Remaining
<1> QED BY <1>1, <1>4, WriterFacts

LEMMA WriterInit ==
  ASSUME "opened" \notin Starts
  PROVE  Init => WriterInv
<1> SUFFICES ASSUME Init PROVE WriterInv
  OBVIOUS
<1>1. /\ content = <<>> /\ file = <<>> /\ contentSize = Len(file) /\ cacheStart = U64Max
      /\ cacheSize = 0 /\ finalBlockHasBeenWritten = FALSE /\ writePending = FALSE
      /\ position = 0 /\ op = Idle /\ ret.status = "ok"
  BY DEF Init
<1>2. op.pc = "idle" /\ op.kind = "None" /\ op.zeros = 0
  BY <1>1 DEF Idle
<1>3. Len(<<>>) = 0
  OBVIOUS
<1>4. contentSize = 0 /\ StreamSize = 0 /\ Len(content) = 0 /\ Len(file) = 0
  BY <1>1, <1>3 DEF StreamSize
<1>5. Remaining = 0
  BY <1>2 DEF Remaining
<1>6. WrittenTo = 0
  <2>1. 0 \div B = 0 /\ 0 * B = 0
    <3>1. (0 * B) \div B = 0 /\ 0 * B = 0
      BY MultipleMod
    <3> QED BY <3>1
  <2> QED BY <1>1, <1>4, <2>1 DEF WrittenTo
<1>7. GetPaddedSize(0) \in Nat
  BY PaddedSize
<1>8. WriterCache /\ WriterCall /\ WriterAsked /\ WriterSize
  BY <1>1, <1>2, <1>4, <1>5 DEF WriterCache, WriterCall, WriterAsked, WriterSize
<1>9. WriterRest /\ WriterBlock
  BY <1>1, <1>5 DEF WriterRest, WriterBlock
<1>10. WriterFile
  BY <1>2, <1>4, <1>6, <1>7 DEF WriterFile, Stored
<1> QED BY <1>1, <1>8, <1>9, <1>10 DEF WriterInv, NoException

LEMMA WrittenToFacts ==
  ASSUME StreamInv, WriterInv
  PROVE  WrittenTo \in Nat /\ WrittenTo % A = 0 /\ WrittenTo <= StreamSize
<1>1. /\ cacheStart \in Nat /\ cacheSize \in 0..B /\ contentSize \in Nat /\ StreamSize \in Nat
      /\ cacheStart # U64Max => cacheStart % B = 0
  BY WriterFacts
<1>2. /\ contentSize <= StreamSize
      /\ writePending => cacheStart # U64Max
      /\ cacheStart # U64Max => cacheStart + cacheSize = StreamSize
  BY DEF WriterInv, WriterCache
<1>3. CASE writePending
  <2>1. cacheStart % B = 0 /\ WrittenTo = cacheStart /\ cacheStart <= StreamSize
    BY <1>1, <1>2, <1>3 DEF WrittenTo
  <2>2. PICK c \in Nat : c = cacheStart
    BY <1>1
  <2>3. A \in Nat \ {0} /\ B \in Nat \ {0} /\ B % A = 0 /\ c % B = 0
    BY <2>1, <2>2
  <2>4. c % A = 0
    BY <2>3, ModTrans
  <2> QED BY <2>1, <2>2, <2>4
<1>4. CASE ~writePending
  <2>1. PICK b \in Nat : b = contentSize \div B /\ b * B <= contentSize
    BY <1>1, OwnBlock
  <2>2. b * B \in Nat /\ (b * B) % A = 0
    BY BlockStart
  <2>3. WrittenTo = b * B
    BY <1>4, <2>1 DEF WrittenTo
  <2>4. b * B <= StreamSize
    <3>1. PICK m \in Nat : m = b * B
      BY <2>2
    <3>2. m <= contentSize
      BY <2>1, <3>1
    <3>3. m <= StreamSize
      BY <1>1, <1>2, <3>2
    <3> QED BY <3>1, <3>3
  <2> QED BY <2>2, <2>3, <2>4
<1> QED BY <1>3, <1>4

\* The client now expects m more bytes at the end: its own, or zeros.
Extended(kind, data, m) ==
  /\ content' \in Seq(Int) /\ Len(content') = Len(content) + m /\ Len(content') <= MaxSize
  /\ \A i \in 1..Len(content) : content'[i] = content[i]
  /\ \A i \in 1..m : content'[Len(content) + i] = IF kind = "Write" THEN data[i] ELSE 0

\* A call begins, and the content grows by what it will write.
LEMMA WriterStart ==
  ASSUME StreamInv, WriterInv, op.pc = "idle", NEW m \in Nat,
         NEW kind \in {"Read", "Write", "Seek", "Flush"}, NEW pc \in {"seek", "flush"},
         NEW at, NEW n, NEW data, Start(kind, pc, at, n, data),
         pc = "flush" <=> kind = "Flush",
         Extended(kind, data, m),
         kind = "Write" => Len(data) = m /\ n = m /\ at = position,
         kind = "Seek" => at = Len(content) + m,
         kind = "Read" => m = 0 /\ at = position /\ data = <<>>,
         kind = "Flush" => m = 0
  PROVE  WriterInv'
<1>0. /\ content' \in Seq(Int) /\ Len(content') = Len(content) + m /\ Len(content') <= MaxSize
      /\ \A i \in 1..Len(content) : content'[i] = content[i]
      /\ \A i \in 1..m : content'[Len(content) + i] = IF kind = "Write" THEN data[i] ELSE 0
  BY DEF Extended
<1>1. /\ op'.pc = pc /\ op'.kind = kind /\ op'.at = at /\ op'.n = n /\ op'.data = data
      /\ op'.origin = position /\ op'.zeros = 0 /\ UNCHANGED <<backing, cached, cursor, ret>>
  BY DEF Start
<1>2. /\ StreamSize \in Nat /\ position = StreamSize /\ Len(content) = StreamSize + Remaining
      /\ content \in Seq(Int) /\ Len(content) \in Nat /\ cacheStart \in Nat /\ cacheSize \in 0..B
  BY WriterFacts
<1>3. op = Idle
  BY DEF WriterInv, WriterCall
<1>4. op.kind = "None"
  BY <1>3 DEF Idle
<1>5. Remaining = 0
  BY <1>4 DEF Remaining
<1>6. Len(content) = StreamSize
  BY <1>2, <1>5
<1>7. StreamSize' = StreamSize /\ WrittenTo' = WrittenTo
  BY <1>1 DEF StreamSize, WrittenTo, backing, cached
<1>8. Remaining' = m
  BY <1>0, <1>1, <1>2, <1>6, <1>7 DEF Remaining
<1>9. WriterCache'
  BY <1>1, <1>7 DEF WriterInv, WriterCache, backing, cached, cursor
<1>10. WriterCall'
  BY <1>1 DEF WriterCall
<1>11. WriterAsked'
  BY <1>0, <1>1, <1>2, <1>6, <1>7 DEF WriterAsked, cursor
<1>12. WriterSize'
  BY <1>0, <1>1, <1>6, <1>7, <1>8 DEF WriterSize
<1>13. WriterRest'
  BY <1>0, <1>1, <1>6, <1>7, <1>8 DEF WriterRest, NextByte
<1>14. WriterBlock'
  <2>1. cacheSize' = cacheSize /\ cacheStart' = cacheStart /\ cache' = cache
    BY <1>1 DEF cached
  <2>2. ASSUME NEW i \in 1..cacheSize PROVE cache[i] = content'[cacheStart + i]
    <3>1. cacheStart # U64Max
      BY DEF WriterInv, WriterCache
    <3>2. cacheStart + cacheSize = StreamSize
      BY <3>1 DEF WriterInv, WriterCache
    <3>3. cacheStart + i \in 1..Len(content)
      BY <1>2, <1>6, <3>2
    <3> QED BY <1>0, <3>3 DEF WriterInv, WriterBlock
  <2> QED BY <2>1, <2>2 DEF WriterBlock
<1>15. WriterFile'
  <2>1. file' = file
    BY <1>1 DEF backing
  <2>2. PICK w \in Nat : w = WrittenTo /\ w % A = 0 /\ w <= StreamSize
    BY WrittenToFacts
  <2>3. PartAt(content, content', 0, w)
    <3>1. \A i \in 1..w : content[i] = content'[0 + i]
      BY <1>0, <1>2, <1>6, <2>2
    <3>2. w <= Len(content) /\ w <= Len(content')
      <4>1. PICK c \in Nat : c = Len(content)
        BY <1>2
      <4>2. w <= c /\ c <= c + m
        BY <1>6, <2>2, <4>1
      <4>3. Len(content') = c + m
        BY <1>0, <4>1
      <4> QED BY <4>1, <4>2, <4>3
    <3>3. 0 + w <= Len(content')
      BY <3>2
    <3> QED BY <1>0, <1>2, <2>2, <3>1, <3>2, <3>3 DEF PartAt
  <2>4. Stored(file, content, w)
    BY <2>2 DEF WriterInv, WriterFile
  <2>5. Stored(file, content', w)
    BY <1>0, <1>2, <2>3, <2>4, StoredBefore
  <2> QED BY <1>1, <1>7, <2>1, <2>2, <2>5 DEF WriterInv, WriterFile
<1>16. NoException'
  BY <1>1 DEF WriterInv, NoException
<1> QED BY <1>9, <1>10, <1>11, <1>12, <1>13, <1>14, <1>15, <1>16 DEF WriterInv

LEMMA WriterRefuse ==
  ASSUME WriterInv, Refuse
  PROVE  WriterInv'
  BY DEF Refuse, WriterInv, WriterCache, WriterCall, WriterAsked, WriterSize, WriterRest, WriterBlock,
     WriterFile, NoException, StreamSize, Remaining, NextByte, WrittenTo, backing, cached, cursor,
     InBlock, Idle

LEMMA ResizeBytes ==
  ASSUME NEW s \in Seq(Nat), NEW m \in Nat
  PROVE  /\ Resize(s, Len(s) + m) \in Seq(Nat) /\ Len(Resize(s, Len(s) + m)) = Len(s) + m
         /\ \A i \in 1..Len(s) : Resize(s, Len(s) + m)[i] = s[i]
         /\ \A i \in 1..m : Resize(s, Len(s) + m)[Len(s) + i] = 0
<1>1. PICK z \in Seq(Nat) : z = Repeat(0, m) /\ Len(z) = m
  <2>1. Repeat(0, m) \in Seq(Nat) /\ Len(Repeat(0, m)) = m
    BY DEF Repeat
  <2> QED BY <2>1
<1>2. \A i \in 1..m : z[i] = 0
  BY <1>1 DEF Repeat
<1>3. MinOf(Len(s) + m, Len(s)) = Len(s) /\ (Len(s) + m) - Len(s) = m
  BY DEF MinOf
<1>4. SubSeq(s, 1, Len(s)) = s
  OBVIOUS
<1>5. Resize(s, Len(s) + m) = s \o z
  BY <1>1, <1>3, <1>4 DEF Resize
<1>6. /\ s \o z \in Seq(Nat) /\ Len(s \o z) = Len(s) + Len(z)
      /\ \A i \in 1..Len(s) : (s \o z)[i] = s[i]
      /\ \A i \in 1..Len(z) : (s \o z)[Len(s) + i] = z[i]
  BY ConcatBytes
<1> QED BY <1>1, <1>2, <1>5, <1>6

\* The client's calls, refused or begun.
LEMMA WriterCalls ==
  ASSUME Writable, Sequential, StreamInv, WriterInv,
         \/ \E n \in Lengths : Read(n)
         \/ \E d \in Payloads : Write(d)
         \/ \E at \in 0..MaxSize, n \in Lengths : ReadAsyncAt(at, n)
         \/ \E at \in 0..MaxSize, d \in Payloads : WriteAsyncAt(at, d)
         \/ \E p \in 0..MaxSize : Seek(p)
         \/ \E v \in 0..MaxSize : Size(v)
         \/ Flush
  PROVE  WriterInv'
<1>1. /\ GetSizeInternal = StreamSize /\ StreamSize \in Nat /\ position = StreamSize
      /\ content \in Seq(Int) /\ content \in Seq(Nat) /\ Len(content) \in Nat
      /\ Len(content) = StreamSize + Remaining /\ Len(content) <= MaxSize
  BY WriterFacts
<1>2. op.pc = "idle" => Len(content) = StreamSize
  <2> SUFFICES ASSUME op.pc = "idle" PROVE Len(content) = StreamSize
    OBVIOUS
  <2>1. op = Idle
    BY DEF WriterInv, WriterCall
  <2>2. op.kind = "None"
    BY <2>1 DEF Idle
  <2>3. Remaining = 0
    BY <2>2 DEF Remaining
  <2> QED BY <1>1, <2>3
<1>3. ASSUME op.pc = "idle", NEW kind \in {"Read", "Seek", "Flush"}, NEW pc \in {"seek", "flush"},
             NEW at, NEW n, NEW data, Start(kind, pc, at, n, data), UNCHANGED content,
             pc = "flush" <=> kind = "Flush",
             kind = "Seek" => at = Len(content),
             kind = "Read" => at = position /\ data = <<>>
      PROVE  WriterInv'
  <2>1. Extended(kind, data, 0)
    BY <1>1, <1>3 DEF Extended
  <2>3. kind = "Seek" => at = Len(content) + 0
    BY <1>1, <1>3
  <2>4. PICK m \in Nat : m = 0
    OBVIOUS
  <2> QED BY <1>3, <2>1, <2>3, <2>4, WriterStart
<1>4. ASSUME NEW n \in Lengths, Read(n) PROVE WriterInv'
  <2>1. op.pc = "idle" /\ ReadAsync(position, n)
    BY <1>4 DEF Read, MayCall
  <2>2. CASE Start("Read", "seek", position, n, <<>>) /\ UNCHANGED content
    BY <1>3, <2>1, <2>2
  <2>3. CASE Refuse
    BY <2>3, WriterRefuse
  <2> QED BY <2>1, <2>2, <2>3 DEF ReadAsync
<1>5. ASSUME NEW d \in Payloads, Write(d) PROVE WriterInv'
  <2>1. /\ op.pc = "idle" /\ position + Len(d) <= MaxSize
        /\ Start("Write", "seek", position, Len(d), d)
        /\ content' = Splice(content, position, d, 0)
    BY <1>1, <1>5, WriterFacts DEF Write, MayCall, WriteAsync
  <2>2. PICK m \in Nat : m = Len(d) /\ d \in Seq(Int) /\ d \in Seq(Nat)
    OBVIOUS
  <2>3. position = Len(content) /\ position \in Nat /\ position <= Len(content)
    BY <1>1, <1>2, <2>1
  <2>4. Splice(content, position, d, 0) \in Seq(Int)
        /\ Overwritten(Splice(content, position, d, 0), content, position, d)
    BY <1>1, <2>2, <2>3, SpliceBytes
  <2>5. /\ content' \in Seq(Int) /\ Len(content') = MaxOf(Len(content), position + Len(d))
        /\ \A i \in 1..position : content'[i] = content[i]
        /\ \A i \in 1..Len(d) : content'[position + i] = d[i]
    BY <2>1, <2>4 DEF Overwritten
  <2>6. Len(content') = Len(content) + m /\ Len(content') <= MaxSize
    BY <1>1, <2>1, <2>2, <2>3, <2>5 DEF MaxOf
  <2>7. /\ \A i \in 1..Len(content) : content'[i] = content[i]
        /\ \A i \in 1..m : content'[Len(content) + i] = d[i]
    BY <2>2, <2>3, <2>5
  <2>8. Extended("Write", d, m)
    BY <2>5, <2>6, <2>7 DEF Extended
  <2>9. PICK l \in Nat : l = m /\ Start("Write", "seek", position, l, d)
    BY <2>1, <2>2
  <2> QED BY <2>1, <2>2, <2>8, <2>9, WriterStart
<1>6. ASSUME NEW p \in 0..MaxSize, Seek(p) PROVE WriterInv'
  <2>1. /\ op.pc = "idle" /\ Start("Seek", "seek", p, 0, <<>>)
        /\ content' = IF p > Len(content) /\ p > GetSizeInternal THEN Resize(content, p) ELSE content
        /\ ~(p < position)
    BY <1>6 DEF Seek, MayCall, Sequential
  <2>2. Len(content) = StreamSize /\ p >= Len(content)
    BY <1>1, <1>2, <2>1
  <2>3. PICK m \in Nat : p = Len(content) + m
    <3>1. p - Len(content) \in Nat /\ p = Len(content) + (p - Len(content))
      BY <1>1, <2>2
    <3> QED BY <3>1
  <2>4. CASE m = 0
    <3>1. content' = content /\ p = Len(content)
      BY <1>1, <2>1, <2>3, <2>4
    <3> QED BY <1>3, <2>1, <3>1
  <2>5. CASE m > 0
    <3>1. content' = Resize(content, Len(content) + m)
      BY <1>1, <2>1, <2>2, <2>3, <2>5
    <3>2. /\ content' \in Seq(Nat) /\ Len(content') = Len(content) + m
          /\ \A i \in 1..Len(content) : content'[i] = content[i]
          /\ \A i \in 1..m : content'[Len(content) + i] = 0
      <4>1. PICK s \in Seq(Nat) : s = content
        BY <1>1
      <4>2. /\ Resize(s, Len(s) + m) \in Seq(Nat) /\ Len(Resize(s, Len(s) + m)) = Len(s) + m
            /\ \A i \in 1..Len(s) : Resize(s, Len(s) + m)[i] = s[i]
            /\ \A i \in 1..m : Resize(s, Len(s) + m)[Len(s) + i] = 0
        BY ResizeBytes
      <4> QED BY <3>1, <4>1, <4>2
    <3>3. content' \in Seq(Int) /\ Len(content') <= MaxSize
      BY <2>3, <3>2
    <3>4. Extended("Seek", <<>>, m)
      BY <3>2, <3>3 DEF Extended
    <3> QED BY <2>1, <2>3, <3>4, WriterStart
  <2> QED BY <2>4, <2>5
<1>7. CASE Flush
  <2>1. op.pc = "idle" /\ Start("Flush", "flush", 0, 0, <<>>) /\ UNCHANGED content
    BY <1>7 DEF Flush, MayCall
  <2> QED BY <1>3, <2>1
<1>8. ~\E at \in 0..MaxSize, n \in Lengths : ReadAsyncAt(at, n)
  BY DEF ReadAsyncAt, MayCall, Sequential
<1>9. ~\E at \in 0..MaxSize, d \in Payloads : WriteAsyncAt(at, d)
  BY DEF WriteAsyncAt, MayCall, Sequential
<1>10. ~\E v \in 0..MaxSize : Size(v)
  BY DEF Size, MayCall, Sequential
<1> QED BY <1>4, <1>5, <1>6, <1>7, <1>8, <1>9, <1>10

\* A step that moves the call on and touches nothing else.
LEMMA WriterMove ==
  ASSUME StreamInv, WriterInv, UNCHANGED <<backing, cached, ret, content>>, position' = position,
         op'.kind = op.kind, op'.at = op.at, op'.n = op.n, op'.data = op.data,
         op'.origin = op.origin,
         op'.pc = "return" => Remaining = 0 /\ op.kind # "Flush",
         op.kind = "Seek" => op'.zeros <= Remaining, op'.pc # "seek", WriterCall'
  PROVE  WriterInv'
<1>1. /\ StreamSize' = StreamSize /\ WrittenTo' = WrittenTo
  BY DEF StreamSize, WrittenTo, backing, cached
<1>2. Remaining' = Remaining /\ \A i : NextByte(i)' = NextByte(i)
  BY <1>1 DEF Remaining, NextByte
<1>3. WriterCache'
  BY <1>1 DEF WriterInv, WriterCache, backing, cached
<1>4. WriterAsked'
  BY <1>1 DEF WriterInv, WriterAsked
<1>5. WriterSize'
  BY <1>1, <1>2 DEF WriterInv, WriterSize
<1>6. WriterRest'
  BY <1>1, <1>2 DEF WriterInv, WriterRest
<1>7. WriterBlock'
  BY DEF WriterInv, WriterBlock, cached
<1>8. WriterFile'
  BY <1>1 DEF WriterInv, WriterFile, backing
<1> QED BY <1>3, <1>4, <1>5, <1>6, <1>7, <1>8 DEF WriterInv, NoException

\* SeekInternal leaves the position where it is, at the end, or finds that zeros are needed.
LEMMA WriterSeek ==
  ASSUME Writable, StreamInv, WriterInv, SeekWithin \/ SeekInvalid \/ Grow
  PROVE  WriterInv'
<1>1. /\ TypeOK /\ GetSizeInternal = StreamSize /\ StreamSize \in Nat /\ position = StreamSize
      /\ op.at \in Nat /\ Remaining \in Nat
  BY WriterFacts
<1>2. op.pc = "seek"
  BY DEF SeekWithin, SeekInvalid, Grow, WriterInv, WriterCall
<1>3. op.kind \in {"Read", "Write", "Seek"} /\ op.zeros = 0
  BY <1>1, <1>2 DEF WriterInv, WriterCall, TypeOK, Ops
<1>4. /\ op.kind \in {"Read", "Write"} => op.at = StreamSize
      /\ op.kind = "Seek" => Remaining = op.at - StreamSize
  BY <1>1, <1>2 DEF WriterInv, WriterAsked, Remaining
<1>5. CASE SeekWithin
  <2>1. /\ op.at <= StreamSize /\ position' = op.at /\ Goto(AfterSeek)
        /\ UNCHANGED <<backing, cached, ret, content>>
    BY <1>1, <1>5 DEF SeekWithin
  <2>2. op.at = StreamSize
    BY <1>1, <1>3, <1>4, <2>1
  <2>3. /\ AfterSeek \in {"loop", "return"}
        /\ AfterSeek = "loop" => op.kind \in {"Read", "Write"}
        /\ AfterSeek = "return" => op.kind = "Seek"
    BY <1>3 DEF AfterSeek
  <2>4. /\ op'.pc = AfterSeek /\ op'.kind = op.kind /\ op'.at = op.at /\ op'.n = op.n
        /\ op'.data = op.data /\ op'.zeros = 0 /\ op'.origin = op.origin
    BY <1>1, <1>3, <2>1, <2>3, GotoFields
  <2>5. WriterCall'
    BY <1>3, <2>3, <2>4 DEF WriterCall
  <2>6. op'.pc = "return" => Remaining = 0 /\ op.kind # "Flush"
    BY <1>1, <1>4, <2>2, <2>3, <2>4
  <2>7. op'.zeros <= Remaining
    BY <1>1, <2>4
  <2>8. position' = position /\ op'.pc # "seek"
    BY <1>1, <2>1, <2>2, <2>3, <2>4
  <2> QED BY <2>1, <2>4, <2>5, <2>6, <2>7, <2>8, WriterMove
<1>6. CASE Grow
  <2>1. /\ op.at > StreamSize /\ position' = StreamSize /\ Goto("fill")
        /\ UNCHANGED <<backing, cached, ret, content>>
    BY <1>1, <1>6 DEF Grow
  <2>2. op.kind = "Seek"
    BY <1>1, <1>3, <1>4, <2>1
  <2>3. /\ op'.pc = "fill" /\ op'.kind = op.kind /\ op'.at = op.at /\ op'.n = op.n
        /\ op'.data = op.data /\ op'.zeros = 0 /\ op'.origin = op.origin
    BY <1>1, <1>3, <2>1, GotoFields
  <2>4. WriterCall'
    BY <2>2, <2>3 DEF WriterCall
  <2>5. op'.zeros <= Remaining
    BY <1>1, <2>3
  <2> QED BY <1>1, <2>1, <2>3, <2>4, <2>5, WriterMove
<1>7. ~SeekInvalid
  BY DEF SeekInvalid
<1> QED BY <1>5, <1>6, <1>7

\* Growing goes on until the stream is as long as was asked for.
LEMMA WriterFill ==
  ASSUME StreamInv, WriterInv, FillWithZeros \/ FillDone
  PROVE  WriterInv'
<1>1. /\ TypeOK /\ GetSizeInternal = StreamSize /\ StreamSize \in Nat /\ position = StreamSize
      /\ op.at \in Nat /\ Remaining \in Nat /\ op \in Ops
  BY WriterFacts DEF TypeOK
<1>2. op.pc = "fill" /\ UNCHANGED <<backing, cached, ret, content>>
  BY DEF FillWithZeros, FillDone
<1>3. op.kind = "Seek" /\ op.zeros = 0
  BY <1>2 DEF WriterInv, WriterCall
<1>4. Remaining = op.at - StreamSize
  BY <1>3 DEF Remaining
<1>5. CASE FillWithZeros
  <2>1. PICK z \in Nat : z = MinOf(op.at - StreamSize, B) /\ z > 0 /\ z <= Remaining
    BY <1>1, <1>4, <1>5 DEF FillWithZeros, MinOf
  <2>2. op' = [op EXCEPT !.pc = "fillblock", !.zeros = z] /\ position' = position
    BY <1>1, <1>5, <2>1 DEF FillWithZeros, cursor
  <2>3. /\ op'.pc = "fillblock" /\ op'.kind = op.kind /\ op'.at = op.at /\ op'.n = op.n
        /\ op'.data = op.data /\ op'.zeros = z /\ op'.origin = op.origin
    BY <1>1, <2>2 DEF Ops
  <2>4. WriterCall'
    BY <1>3, <2>1, <2>3 DEF WriterCall
  <2> QED BY <1>2, <2>1, <2>2, <2>3, <2>4, WriterMove
<1>6. CASE FillDone
  <2>1. op.at <= StreamSize /\ position' = op.at /\ Goto("return")
    BY <1>1, <1>3, <1>6 DEF FillDone, AfterSeek
  <2>2. Remaining = 0 /\ position' = position
    BY <1>1, <1>4, <2>1
  <2>3. /\ op'.pc = "return" /\ op'.kind = op.kind /\ op'.at = op.at /\ op'.n = op.n
        /\ op'.data = op.data /\ op'.zeros = 0 /\ op'.origin = op.origin
    BY <1>1, <1>3, <2>1, GotoFields
  <2>4. WriterCall'
    BY <1>3, <2>3 DEF WriterCall
  <2> QED BY <1>2, <1>3, <2>2, <2>3, <2>4, WriterMove
<1> QED BY <1>5, <1>6

LEMMA WriterLoopDone ==
  ASSUME StreamInv, WriterInv, LoopDone
  PROVE  WriterInv'
<1>1. TypeOK /\ Remaining \in Nat /\ op.data \in Seq(Int)
  BY WriterFacts
<1>2. /\ op.pc = "loop" /\ ~LoopGoesOn /\ Goto("return")
      /\ UNCHANGED <<backing, cached, cursor, ret, content>>
  BY DEF LoopDone
<1>3. op.kind \in {"Read", "Write"} /\ op.zeros = 0
  BY <1>2 DEF WriterInv, WriterCall
<1>4. Remaining = 0
  <2>1. CASE op.kind = "Read"
    BY <2>1 DEF Remaining
  <2>2. CASE op.kind = "Write"
    <3>1. op.data = <<>>
      BY <1>2, <2>2 DEF LoopGoesOn
    <3>2. Len(<<>>) = 0
      OBVIOUS
    <3> QED BY <2>2, <3>1, <3>2 DEF Remaining
  <2> QED BY <1>3, <2>1, <2>2
<1>5. /\ op'.pc = "return" /\ op'.kind = op.kind /\ op'.at = op.at /\ op'.n = op.n
      /\ op'.data = op.data /\ op'.zeros = 0 /\ op'.origin = op.origin
  BY <1>1, <1>2, <1>3, GotoFields
<1>6. WriterCall'
  BY <1>3, <1>5 DEF WriterCall
<1>7. position' = position /\ op.kind # "Flush"
  BY <1>2, <1>3 DEF cursor
<1> QED BY <1>2, <1>3, <1>4, <1>5, <1>6, <1>7, WriterMove

LEMMA WriterReturn ==
  ASSUME StreamInv, WriterInv, Return
  PROVE  WriterInv'
<1>1. /\ op.pc = "return" /\ ret'.status = "ok" /\ op' = Idle
      /\ UNCHANGED <<backing, cached, cursor, content>>
  BY DEF Return
<1>2. op'.pc = "idle" /\ op'.kind = "None" /\ op'.zeros = 0
  BY <1>1 DEF Idle
<1>3. /\ StreamSize' = StreamSize /\ WrittenTo' = WrittenTo
  BY <1>1 DEF StreamSize, WrittenTo, backing, cached
<1>4. Remaining' = 0 /\ Remaining = 0
  BY <1>1, <1>2 DEF Remaining, WriterInv, WriterSize
<1>5. WriterCache'
  BY <1>1, <1>3 DEF WriterInv, WriterCache, backing, cached, cursor
<1>6. WriterCall' /\ WriterAsked'
  BY <1>1, <1>2 DEF WriterCall, WriterAsked
<1>7. WriterSize'
  BY <1>1, <1>2, <1>3, <1>4 DEF WriterInv, WriterSize
<1>8. WriterRest'
  BY <1>4 DEF WriterRest
<1>9. WriterBlock'
  BY <1>1 DEF WriterInv, WriterBlock, cached
<1>10. WriterFile'
  BY <1>1, <1>2, <1>3 DEF WriterInv, WriterFile, backing
<1> QED BY <1>1, <1>5, <1>6, <1>7, <1>8, <1>9, <1>10 DEF WriterInv, NoException

\* The block numbers of the cached block and of the position are their own: the
\* correction for a final block that ends at a boundary is never made here.
LEMMA WriterBlockNumber ==
  ASSUME StreamInv, WriterInv
  PROVE  /\ CalculateBlockNumber(position) = position \div B
         /\ cacheStart # U64Max => CalculateBlockNumber(cacheStart) = cacheStart \div B
<1>1. /\ TypeOK /\ position = StreamSize /\ cacheStart \in Nat /\ cacheSize \in 0..B
      /\ contentSize \in Nat /\ StreamSize \in Nat
      /\ cacheStart # U64Max => cacheStart % B = 0
  BY WriterFacts
<1>2. /\ ~(writePending /\ finalBlockHasBeenWritten)
      /\ cacheStart # U64Max => cacheStart + cacheSize = StreamSize
  BY DEF WriterInv, WriterCache
<1>3. CASE ~finalBlockHasBeenWritten
  BY <1>3 DEF CalculateBlockNumber
<1>4. CASE finalBlockHasBeenWritten
  <2>1. StreamSize = contentSize
    BY <1>2, <1>4 DEF StreamSize
  <2>2. CalculateBlockNumber(position) = position \div B
    BY <1>1, <2>1 DEF CalculateBlockNumber
  <2>3. ASSUME cacheStart # U64Max PROVE CalculateBlockNumber(cacheStart) = cacheStart \div B
    <3>1. (cacheStart \div B) * B = cacheStart
      BY <1>1, <2>3, MultipleOf
    <3> QED BY <3>1 DEF CalculateBlockNumber
  <2> QED BY <2>2, <2>3
<1> QED BY <1>3, <1>4

\* Only a write and the filling with zeros need a block: a read is at the end already.
LEMMA WriterNeeds ==
  ASSUME StreamInv, WriterInv, NeedsBlock
  PROVE  /\ NeededOffset = position /\ op.kind \in {"Write", "Seek"} /\ op.pc # "return"
         /\ op.kind = "Seek" <=> op.zeros > 0
         /\ AfterUpdate = IF op.kind = "Seek" THEN "zero" ELSE "copy"
<1>1. /\ GetSizeInternal = StreamSize /\ StreamSize \in Nat /\ position = StreamSize
      /\ op.zeros \in Nat
  BY WriterFacts
<1>2. op.pc \notin {"shrink", "return"}
  BY DEF WriterInv, WriterCall, NeedsBlock, LoopGoesOn
<1>3. CASE LoopGoesOn
  <2>1. op.kind = "Write" /\ op.zeros = 0
    BY <1>1, <1>3 DEF LoopGoesOn, WriterInv, WriterCall
  <2> QED BY <1>2, <2>1 DEF NeededOffset, AfterUpdate
<1>4. CASE op.pc = "fillblock"
  <2>1. op.kind = "Seek" /\ op.zeros > 0
    BY <1>4 DEF WriterInv, WriterCall
  <2> QED BY <1>2, <2>1 DEF NeededOffset, AfterUpdate
<1> QED BY <1>2, <1>3, <1>4 DEF NeedsBlock

LEMMA WriterHit ==
  ASSUME StreamInv, WriterInv, UpdateBlockHit
  PROVE  WriterInv'
<1>1. /\ NeedsBlock /\ CacheIsCurrent(NeededOffset) /\ Goto(AfterUpdate)
      /\ UNCHANGED <<backing, cached, cursor, ret, content>>
  BY DEF UpdateBlockHit
<1>2. /\ NeededOffset = position /\ op.kind \in {"Write", "Seek"} /\ op.pc # "return"
      /\ op.kind = "Seek" <=> op.zeros > 0
      /\ AfterUpdate = IF op.kind = "Seek" THEN "zero" ELSE "copy"
  BY <1>1, WriterNeeds
<1>3. /\ TypeOK /\ op.zeros \in Nat /\ position \in Nat /\ cacheStart \in Nat
      /\ cacheStart # U64Max => cacheStart % B = 0
  BY WriterFacts
<1>4. /\ op'.pc = AfterUpdate /\ op'.kind = op.kind /\ op'.at = op.at /\ op'.n = op.n
      /\ op'.data = op.data /\ op'.zeros = op.zeros /\ op'.origin = op.origin
  BY <1>1, <1>2, <1>3, GotoFields
<1>5. cacheStart # U64Max /\ cacheStart \div B = position \div B
  BY <1>1, <1>2, WriterBlockNumber DEF CacheIsCurrent
<1>6. InBlock(position)
  BY <1>3, <1>5, SameBlock DEF InBlock
<1>7. InBlock(position)' /\ position' = position
  BY <1>1, <1>6 DEF InBlock, cached, cursor
<1>8. WriterCall'
  BY <1>2, <1>3, <1>4, <1>7 DEF WriterCall
<1>9. op.kind = "Seek" => op'.zeros <= Remaining
  BY <1>4 DEF WriterInv, WriterSize
<1> QED BY <1>1, <1>2, <1>4, <1>7, <1>8, <1>9, WriterMove

\* The cached bytes are those of the content from the start of the block to its end.
LEMMA WriterCached ==
  ASSUME StreamInv, WriterInv, cacheStart # U64Max
  PROVE  /\ CachedBytes \in Seq(Int) /\ Len(CachedBytes) = cacheSize
         /\ SameBytes(CachedBytes, 0, content, cacheStart, cacheSize)
<1>1. /\ TypeOK /\ cacheStart \in Nat /\ cacheSize \in 0..B /\ content \in Seq(Int)
      /\ StreamSize \in Nat /\ Remaining \in Nat /\ Len(content) = StreamSize + Remaining
  BY WriterFacts
<1>2. cacheStart + cacheSize = StreamSize
  BY DEF WriterInv, WriterCache
<1>3. PICK c \in Seq(Int), n \in 0..B : c = cache /\ n = cacheSize /\ Len(c) = B
  BY <1>1, CachedBytesType
<1>4. PICK d \in Seq(Int) : d = CachedBytes /\ Len(d) = n
  BY <1>1, <1>3, CachedBytesType
<1>5. \A i \in 1..n : d[i] = c[i]
  BY <1>3, <1>4 DEF CachedBytes
<1>6. \A i \in 1..n : c[i] = content[cacheStart + i]
  BY <1>3 DEF WriterInv, WriterBlock
<1>7. \A k \in 1..n : d[0 + k] = content[cacheStart + k]
  BY <1>5, <1>6
<1>8. 0 + n <= Len(d) /\ cacheStart + n <= Len(content)
  BY <1>1, <1>2, <1>3, <1>4
<1> QED BY <1>1, <1>3, <1>4, <1>7, <1>8 DEF SameBytes

\* A new block is needed only at a block boundary, when the cached block is full.
LEMMA WriterFull ==
  ASSUME StreamInv, WriterInv, ~CacheIsCurrent(position)
  PROVE  /\ position % B = 0 /\ (position \div B) * B = position
         /\ cacheStart # U64Max => cacheSize = B
<1>1. /\ cacheStart \in Nat /\ cacheSize \in 0..B /\ position \in Nat /\ position = StreamSize
      /\ cacheStart # U64Max => cacheStart % B = 0
  BY WriterFacts
<1>2. CASE cacheStart = U64Max
  <2>1. contentSize = 0 /\ ~writePending
    BY <1>2 DEF WriterInv, WriterCache
  <2>2. position = 0
    BY <1>1, <2>1 DEF StreamSize
  <2>3. (0 * B) % B = 0 /\ 0 * B = 0
    BY MultipleMod
  <2>4. position % B = 0
    BY <2>2, <2>3
  <2> QED BY <1>1, <1>2, <2>4, MultipleOf
<1>3. CASE cacheStart # U64Max
  <2>1. cacheStart % B = 0 /\ cacheStart + cacheSize = position
    BY <1>1, <1>3 DEF WriterInv, WriterCache
  <2>2. cacheStart \div B # position \div B
    BY <1>3, WriterBlockNumber DEF CacheIsCurrent
  <2>3. PICK q \in Nat, s \in Nat : q = cacheStart \div B /\ s = cacheStart /\ q * B = s
    BY <1>1, <2>1, OwnBlock, MultipleOf
  <2>4. cacheSize = B
    <3> SUFFICES ASSUME cacheSize < B PROVE FALSE
      BY <1>1
    <3>1. B * q = s /\ B * q <= position /\ position < B * q + B /\ B \in Nat \ {0} /\ q \in Int
      BY <1>1, <2>1, <2>3
    <3>2. position \div B = q
      BY <1>1, <3>1, DivUnique
    <3> QED BY <2>2, <2>3, <3>2
  <2>5. (s + B) % B = 0
    <3>1. (1 * B) % B = 0 /\ 1 * B = B
      BY MultipleMod
    <3>2. B % B = 0 /\ s % B = 0 /\ B \in Nat \ {0} /\ B \in Nat
      BY <2>1, <2>3, <3>1
    <3> QED BY <3>2, ModSum
  <2>6. position % B = 0
    BY <2>1, <2>3, <2>4, <2>5
  <2> QED BY <1>1, <2>4, <2>6, MultipleOf
<1> QED BY <1>2, <1>3

\* What a write back of a full block leaves in the file.
LEMMA WriterBack ==
  ASSUME StreamInv, WriterInv, writePending, cacheSize = B, position = cacheStart + B
  PROVE  \E g \in Seq(CipherBytes) :
           /\ WriteBack(position) = [ok |-> TRUE, file |-> g, size |-> position]
           /\ Len(g) <= GetPaddedSize(StreamSize) /\ Stored(g, content, position)
<1>1. /\ TypeOK /\ cacheStart \in Nat /\ contentSize \in Nat /\ position \in Nat
      /\ position = StreamSize /\ content \in Seq(Int) /\ file \in Seq(CipherBytes)
      /\ cacheStart # U64Max => cacheStart % B = 0
  BY WriterFacts
<1>2. /\ cacheStart # U64Max /\ contentSize <= StreamSize
  BY DEF WriterInv, WriterCache
<1>3. cacheStart <= Len(file) /\ Writable /\ cacheStart % B = 0
  BY DEF StreamInv, CacheRight, Aligned
<1>4. PICK R \in Nat, b \in Nat : R = cacheStart /\ b = cacheStart \div B /\ b * B = R
  BY <1>1, <1>3, OwnBlock, MultipleOf
<1>5. StartsAt(b, R)
  BY <1>4 DEF StartsAt
<1>6. PICK part \in Seq(Int) :
        part = CachedBytes /\ Len(part) = B /\ SameBytes(part, 0, content, R, B)
  BY <1>2, <1>4, WriterCached
<1>7. PartAt(part, content, R, Len(part))
  <2>1. R + B <= Len(content) /\ \A k \in 1..B : part[0 + k] = content[R + k]
    BY <1>6 DEF SameBytes
  <2>2. ASSUME NEW i \in 1..B PROVE part[i] = content[R + i]
    <3>1. 0 + i = i
      OBVIOUS
    <3> QED BY <2>1, <3>1
  <2>3. B % A = 0 /\ B <= Len(part)
    BY <1>6
  <2>4. PartAt(part, content, R, B)
    BY <1>1, <2>1, <2>2, <2>3 DEF PartAt
  <2> QED BY <1>6, <2>4
<1>8. Stored(file, content, R)
  BY <1>4 DEF WriterInv, WriterFile, WrittenTo
<1>9. PICK g : g = Splice(file, R, CipherOfBlock(part, b), Hole)
  OBVIOUS
<1>10. /\ g \in Seq(CipherBytes) /\ Len(g) = MaxOf(Len(file), R + Len(part))
       /\ Stored(g, content, R + Len(part))
  <2>1. R <= Len(file)
    BY <1>3, <1>4
  <2> QED BY <1>1, <1>5, <1>7, <1>8, <1>9, <2>1, StoredBlock
<1>11. R + Len(part) = position
  BY <1>4, <1>6
<1>12. Len(g) <= GetPaddedSize(StreamSize)
  <2>1. PICK z \in Nat : z = GetPaddedSize(StreamSize) /\ StreamSize < z
    BY <1>1, PaddedSize
  <2>2. Len(file) <= z
    BY <2>1 DEF WriterInv, WriterFile
  <2> QED BY <1>1, <1>10, <1>11, <2>1, <2>2 DEF MaxOf
<1>13. WriteBack(position) = [ok |-> TRUE, file |-> g, size |-> position]
  <2>1. ~(position < cacheStart + B)
    BY <1>1
  <2>2. CalculateBlockNumber(cacheStart) = b
    BY <1>2, <1>4, WriterBlockNumber
  <2>3. WriteBack(position) = SimpleWrite(file, contentSize, part, R, b, FALSE)
    BY <1>4, <1>6, <2>1, <2>2 DEF WriteBack
  <2>4. Len(part) % B = 0
    <3>1. (1 * B) % B = 0 /\ 1 * B = B
      BY MultipleMod
    <3> QED BY <1>6, <3>1
  <2>5. /\ Encrypt(part, b, FALSE).ok
        /\ Encrypt(part, b, FALSE).out = CipherOfBlock(part, b)
    BY <2>4 DEF Encrypt, CipherOfBlock
  <2>6. MaxOf(contentSize, R + Len(part)) = position
    <3>1. MaxOf(contentSize, position) = position
      BY <1>1, <1>2 DEF MaxOf
    <3> QED BY <1>11, <3>1
  <2>7. Splice(file, R, Encrypt(part, b, FALSE).out, Hole) = g
    BY <1>9, <2>5
  <2> QED BY <1>3, <2>3, <2>5, <2>6, <2>7 DEF SimpleWrite
<1> QED BY <1>10, <1>11, <1>12, <1>13

LEMMA WriterMiss ==
  ASSUME StreamInv, WriterInv, UpdateBlockMiss
  PROVE  WriterInv'
<1>1. /\ NeedsBlock /\ ~CacheIsCurrent(NeededOffset)
      /\ UNCHANGED <<cacheStart, cacheSize, cache, cursor, content>>
  BY DEF UpdateBlockMiss
<1>2. /\ NeededOffset = position /\ op.kind \in {"Write", "Seek"} /\ op.pc # "return"
      /\ op.kind = "Seek" <=> op.zeros > 0
  BY <1>1, WriterNeeds
<1>3. /\ TypeOK /\ position \in Nat /\ position = StreamSize /\ contentSize \in Nat
      /\ cacheStart \in Nat
  BY WriterFacts
<1>4. /\ position % B = 0 /\ (position \div B) * B = position
      /\ cacheStart # U64Max => cacheSize = B
  BY <1>1, <1>2, WriterFull
<1>5. /\ ~(writePending /\ finalBlockHasBeenWritten) /\ contentSize <= StreamSize
      /\ cacheStart = U64Max => contentSize = 0 /\ cacheSize = 0 /\ ~writePending
      /\ cacheStart # U64Max => cacheStart + cacheSize = StreamSize
  BY DEF WriterInv, WriterCache
<1>6. PICK g \in Seq(CipherBytes) :
        /\ WriteBack(position) = [ok |-> TRUE, file |-> g, size |-> position]
        /\ Len(g) <= GetPaddedSize(StreamSize) /\ Stored(g, content, position)
  <2>1. CASE writePending
    BY <1>3, <1>4, <1>5, <2>1, WriterBack
  <2>2. CASE ~writePending
    <3>1. contentSize = position /\ WrittenTo = position
      BY <1>3, <1>4, <2>2 DEF StreamSize, WrittenTo
    <3>2. WriteBack(position) = [ok |-> TRUE, file |-> file, size |-> position]
      BY <2>2, <3>1 DEF WriteBack
    <3>3. file \in Seq(CipherBytes)
      BY WriterFacts
    <3>4. Len(file) <= GetPaddedSize(StreamSize) /\ Stored(file, content, position)
      BY <3>1 DEF WriterInv, WriterFile
    <3> QED BY <3>2, <3>3, <3>4
  <2> QED BY <2>1, <2>2
<1>7. /\ file' = g /\ contentSize' = position /\ writePending' = FALSE
      /\ op' = [op EXCEPT !.pc = "load", !.blk = CalculateBlockNumber(position)]
      /\ UNCHANGED ret
  BY <1>2, <1>6 DEF UpdateBlockMiss
<1>8. CalculateBlockNumber(position) = position \div B
  BY WriterBlockNumber
<1>9. /\ op'.pc = "load" /\ op'.kind = op.kind /\ op'.at = op.at /\ op'.n = op.n
      /\ op'.data = op.data /\ op'.zeros = op.zeros /\ op'.blk = position \div B
      /\ op'.origin = op.origin
  BY <1>3, <1>7, <1>8 DEF TypeOK, Ops
<1>10. position' = position /\ content' = content
  BY <1>1 DEF cursor
<1>11. StreamSize' = StreamSize /\ WrittenTo' = position
  BY <1>3, <1>4, <1>7, <1>10 DEF StreamSize, WrittenTo
<1>12. Remaining' = Remaining /\ \A i : NextByte(i)' = NextByte(i)
  BY <1>9, <1>11 DEF Remaining, NextByte
<1>13. WriterCache'
  <2>1. cacheStart = U64Max => position = 0
    BY <1>3, <1>5 DEF StreamSize
  <2> QED BY <1>1, <1>3, <1>5, <1>7, <1>10, <1>11, <2>1 DEF WriterCache
<1>14. WriterCall'
  BY <1>2, <1>4, <1>7, <1>9 DEF WriterCall
<1>15. WriterAsked' /\ WriterSize'
  BY <1>9, <1>10, <1>11, <1>12 DEF WriterInv, WriterAsked, WriterSize
<1>16. WriterRest' /\ WriterBlock'
  BY <1>1, <1>10, <1>11, <1>12 DEF WriterInv, WriterRest, WriterBlock
<1>17. WriterFile'
  BY <1>6, <1>7, <1>9, <1>10, <1>11 DEF WriterFile
<1> QED BY <1>7, <1>13, <1>14, <1>15, <1>16, <1>17 DEF WriterInv, NoException

\* The new block is beyond the end of the file: nothing is loaded.
LEMMA WriterLoad ==
  ASSUME StreamInv, WriterInv, LoadBlock
  PROVE  WriterInv'
<1>1. /\ op.pc = "load" /\ UNCHANGED <<backing, finalBlockHasBeenWritten, writePending, cursor, content>>
  BY DEF LoadBlock
<1>2. /\ op.kind \in {"Write", "Seek"} /\ contentSize = op.blk * B /\ ~writePending
      /\ op.kind = "Seek" <=> op.zeros > 0
  BY <1>1 DEF WriterInv, WriterCall
<1>3. /\ TypeOK /\ contentSize \in Nat /\ file \in Seq(CipherBytes) /\ position = StreamSize
      /\ op.zeros \in Nat /\ StreamSize \in Nat
  BY WriterFacts
<1>4. PICK start \in Nat : start = op.blk * B /\ start = contentSize
  BY <1>2, <1>3
<1>5. position = start /\ contentSize = start /\ start # U64Max
  <2>1. position = start
    BY <1>2, <1>3, <1>4 DEF StreamSize
  <2>2. start <= MaxSize
    BY <1>3, <2>1, WriterFacts
  <2> QED BY <1>4, <2>1, <2>2
<1>6. SimpleRead(file, contentSize, start, op.blk, IsLast(start, contentSize)) =
        [ok |-> TRUE, out |-> <<>>]
  <2>1. ContentLeft(contentSize, start) = 0
    BY <1>3, <1>4 DEF ContentLeft
  <2>2. MinOf(B, 0) = 0
    BY DEF MinOf
  <2>3. Slice(file, start, 0) = <<>>
    <3>1. MinOf(start + 0, Len(file)) < start + 1
      BY <1>3 DEF MinOf
    <3>2. MinOf(start + 0, Len(file)) \in Nat
      BY <1>3 DEF MinOf
    <3> QED BY <1>3, <3>1, <3>2 DEF Slice
  <2> QED BY <2>1, <2>2, <2>3 DEF SimpleRead
<1>7. /\ cacheStart' = start /\ cache' = Splice(cache, 0, <<>>, 0) /\ cacheSize' = Len(<<>>)
      /\ Goto(AfterUpdate) /\ UNCHANGED ret
  BY <1>4, <1>6 DEF LoadBlock
<1>8. cacheSize' = 0
  BY <1>7
<1>9. AfterUpdate = IF op.kind = "Seek" THEN "zero" ELSE "copy"
  BY <1>2, <1>3 DEF AfterUpdate
<1>10. /\ op'.pc = AfterUpdate /\ op'.kind = op.kind /\ op'.at = op.at /\ op'.n = op.n
       /\ op'.data = op.data /\ op'.zeros = op.zeros /\ op'.origin = op.origin
  BY <1>3, <1>7, <1>9, GotoFields
<1>11. position' = position /\ contentSize' = contentSize /\ writePending' = FALSE /\ file' = file
  BY <1>1, <1>2, <1>3 DEF cursor, backing, TypeOK
<1>12. StreamSize' = StreamSize /\ WrittenTo' = WrittenTo
  BY <1>2, <1>11 DEF StreamSize, WrittenTo
<1>13. Remaining' = Remaining /\ \A i : NextByte(i)' = NextByte(i)
  BY <1>10, <1>12 DEF Remaining, NextByte
<1>14. WriterCache'
  <2>1. cacheStart' # U64Max /\ cacheStart' + cacheSize' = StreamSize'
    <3>1. start + 0 = start
      OBVIOUS
    <3> QED BY <1>3, <1>5, <1>7, <1>8, <1>12, <3>1
  <2>2. contentSize' <= StreamSize' /\ position' = StreamSize'
    <3>1. contentSize' = start
      BY <1>5, <1>11
    <3>2. StreamSize' = start /\ position' = start
      BY <1>3, <1>5, <1>11, <1>12
    <3>3. start <= start
      OBVIOUS
    <3> QED BY <3>1, <3>2, <3>3
  <2> QED BY <1>11, <2>1, <2>2 DEF WriterCache
<1>15. InBlock(position)'
  BY <1>5, <1>7, <1>11 DEF InBlock
<1>16. WriterCall'
  BY <1>2, <1>3, <1>9, <1>10, <1>15 DEF WriterCall
<1>17. WriterAsked' /\ WriterSize'
  BY <1>1, <1>9, <1>10, <1>11, <1>12, <1>13 DEF WriterInv, WriterAsked, WriterSize
<1>18. WriterRest' /\ WriterBlock'
  BY <1>1, <1>8, <1>12, <1>13 DEF WriterInv, WriterRest, WriterBlock
<1>19. WriterFile'
  BY <1>1, <1>9, <1>10, <1>11, <1>12 DEF WriterInv, WriterFile
<1> QED BY <1>7, <1>14, <1>16, <1>17, <1>18, <1>19 DEF WriterInv, NoException

LEMMA PaddedMonotone ==
  ASSUME NEW m \in Nat, NEW n \in Nat, m <= n
  PROVE  GetPaddedSize(m) <= GetPaddedSize(n)
<1>1. PICK p \in Nat, q \in Nat : p = m \div A /\ q = n \div A
  BY DivMod
<1>2. A * p <= m /\ n < A * q + A
  BY <1>1, DivMod
<1>3. p <= q
  <2> SUFFICES ASSUME p >= q + 1 PROVE FALSE
    OBVIOUS
  <2>1. A * p >= A * (q + 1) /\ A * (q + 1) = A * q + A
    OBVIOUS
  <2> QED BY <1>2, <2>1
<1>4. (p + 1) * A <= (q + 1) * A
  BY <1>3
<1> QED BY <1>1, <1>4 DEF GetPaddedSize

\* While the position is in the cached block, the file is right up to that block.
LEMMA WrittenToCache ==
  ASSUME StreamInv, WriterInv, cacheStart # U64Max, InBlock(position)
  PROVE  WrittenTo = cacheStart
<1>1. /\ cacheStart \in Nat /\ position \in Nat /\ position = StreamSize
      /\ cacheStart # U64Max => cacheStart % B = 0
  BY WriterFacts
<1>2. CASE writePending
  BY <1>2 DEF WrittenTo
<1>3. CASE ~writePending
  <2>1. position = contentSize
    BY <1>1, <1>3 DEF StreamSize
  <2>2. PICK q \in Nat : q = cacheStart \div B /\ q * B = cacheStart
    BY <1>1, OwnBlock, MultipleOf
  <2>3. B * q <= position /\ position < B * q + B /\ B \in Nat \ {0} /\ q \in Int
    BY <1>1, <2>2 DEF InBlock
  <2>4. position \div B = q
    BY <1>1, <2>3, DivUnique
  <2> QED BY <1>3, <2>1, <2>2, <2>4 DEF WrittenTo
<1> QED BY <1>2, <1>3

\* WriteToBlock appends as many of the bytes as the block has room for.
LEMMA WriterAppend ==
  ASSUME StreamInv, WriterInv, Aligned, InBlock(position), NEW bytes \in Seq(Int),
         NEW l \in Nat, l = Len(bytes), l <= Remaining, \A i \in 1..l : bytes[i] = NextByte(i),
         WriteToBlock(position, bytes), UNCHANGED <<backing, content>>
  PROVE  \E k \in 0..l :
           /\ k = Room(position, l)
           /\ k = 0 => l = 0
           /\ StreamSize' = StreamSize + k
           /\ position' = position + k => WriterCache'
           /\ WriterBlock'
           /\ Len(file') <= GetPaddedSize(StreamSize')
           /\ Stored(file', content', WrittenTo')
<1>1. /\ TypeOK /\ cacheStart \in Nat /\ cacheSize \in 0..B /\ position = StreamSize
      /\ contentSize \in Nat /\ StreamSize \in Nat /\ position \in Nat /\ Remaining \in Nat
      /\ StreamSize <= MaxSize
      /\ writePending \in BOOLEAN /\ finalBlockHasBeenWritten \in BOOLEAN
  BY WriterFacts
<1>2. cacheStart # U64Max
  BY <1>1 DEF InBlock
<1>3. /\ ~(writePending /\ finalBlockHasBeenWritten) /\ contentSize <= StreamSize
      /\ cacheStart + cacheSize = StreamSize
  BY <1>2 DEF WriterInv, WriterCache
<1>4. PICK off \in 0..(B - 1) : off = cacheSize /\ position - cacheStart = off
  BY <1>1, <1>3 DEF InBlock
<1>5. PICK k \in 0..l : k = Room(position, l) /\ off + k <= B /\ (k = 0 => l = 0)
  BY <1>4 DEF Room, MinOf
<1>6. IsLast(cacheStart, contentSize)
  BY <1>1, <1>3, <1>4 DEF IsLast
<1>7. /\ cache' = Splice(cache, off, SubSeq(bytes, 1, k), 0)
      /\ cacheSize' = MaxOf(cacheSize, off + k)
      /\ writePending' = (writePending \/ k > 0)
      /\ finalBlockHasBeenWritten' =
           (finalBlockHasBeenWritten /\ ~IsLast(cacheStart, contentSize))
      /\ UNCHANGED cacheStart
  BY <1>4, <1>5 DEF WriteToBlock
<1>8. cacheSize' = cacheSize + k /\ finalBlockHasBeenWritten' = FALSE
  <2>1. MaxOf(off, off + k) = off + k
    BY DEF MaxOf
  <2>2. finalBlockHasBeenWritten' = FALSE
    BY <1>6, <1>7
  <2> QED BY <1>4, <1>7, <2>1, <2>2
<1>9. contentSize' = contentSize /\ file' = file /\ content' = content
  BY DEF backing
<1>10. StreamSize' = StreamSize + k
  <2>1. CASE writePending'
    <3>1. StreamSize' = cacheStart + (cacheSize + k)
      BY <1>7, <1>8, <2>1 DEF StreamSize
    <3> QED BY <1>1, <1>3, <3>1
  <2>2. CASE ~writePending'
    <3>1. k = 0 /\ ~writePending
      <4>1. ~(writePending \/ k > 0)
        BY <1>7, <2>2
      <4> QED BY <4>1
    <3>2. StreamSize' = contentSize /\ StreamSize = contentSize
      BY <1>9, <2>2, <3>1 DEF StreamSize
    <3> QED BY <1>1, <3>1, <3>2
  <2> QED BY <2>1, <2>2
<1>11. ASSUME position' = position + k PROVE WriterCache'
  <2>1. position' = StreamSize' /\ contentSize' <= StreamSize'
    BY <1>1, <1>3, <1>9, <1>10, <1>11
  <2>2. cacheStart' + cacheSize' = StreamSize'
    BY <1>1, <1>3, <1>7, <1>8, <1>10
  <2> QED BY <1>2, <1>7, <1>8, <2>1, <2>2 DEF WriterCache
<1>12. WriterBlock'
  <2>1. PICK d \in Seq(Int) : d = SubSeq(bytes, 1, k) /\ Len(d) = k /\ \A i \in 1..k : d[i] = bytes[i]
    <3>1. SubSeq(bytes, 1, k) \in Seq(Int) /\ Len(SubSeq(bytes, 1, k)) = k
      BY <1>5
    <3>2. \A i \in 1..k : SubSeq(bytes, 1, k)[i] = bytes[i]
      BY <1>5
    <3> QED BY <3>1, <3>2
  <2>2. PICK c \in Seq(Int) : c = cache /\ Len(c) = B
    BY <1>1, CachedBytesType
  <2>3. off \in Nat /\ off <= Len(c)
    BY <1>4, <2>2
  <2>4. Overwritten(Splice(c, off, d, 0), c, off, d)
    BY <2>3, SpliceBytes
  <2>5. /\ \A i \in 1..off : cache'[i] = cache[i]
        /\ \A i \in 1..k : cache'[off + i] = bytes[i]
    BY <1>7, <2>1, <2>2, <2>4 DEF Overwritten
  <2>6. ASSUME NEW i \in 1..(off + k) PROVE cache'[i] = content[cacheStart + i]
    <3>1. CASE i <= off
      <4>1. i \in 1..off /\ i \in 1..cacheSize
        BY <1>4, <3>1
      <4> QED BY <2>5, <4>1 DEF WriterInv, WriterBlock
    <3>2. CASE i > off
      <4>1. PICK j \in 1..k : j = i - off
        BY <3>2
      <4>2. j \in 1..l /\ j \in 1..Remaining /\ off + j = i
        BY <1>1, <1>5, <4>1
      <4>3. cache'[off + j] = NextByte(j)
        BY <2>5, <4>1, <4>2
      <4>4. content[StreamSize + j] = NextByte(j)
        BY <4>2 DEF WriterInv, WriterRest
      <4>5. StreamSize + j = cacheStart + i
        BY <1>1, <1>3, <1>4, <4>1
      <4> QED BY <4>2, <4>3, <4>4, <4>5
    <3> QED BY <3>1, <3>2
  <2>7. cacheSize' = off + k
    BY <1>4, <1>8
  <2> QED BY <1>7, <1>9, <2>6, <2>7 DEF WriterBlock
<1>13. WrittenTo' = WrittenTo
  <2>1. WrittenTo = cacheStart
    BY <1>2, WrittenToCache
  <2>2. CASE writePending'
    BY <1>7, <2>1, <2>2 DEF WrittenTo
  <2>3. CASE ~writePending'
    <3>1. ~writePending
      BY <1>7, <2>3
    <3> QED BY <1>9, <2>3, <3>1 DEF WrittenTo
  <2> QED BY <2>2, <2>3
<1>14. Len(file') <= GetPaddedSize(StreamSize') /\ Stored(file', content', WrittenTo')
  <2>1. Len(file) <= GetPaddedSize(StreamSize) /\ Stored(file, content, WrittenTo)
    BY DEF WriterInv, WriterFile
  <2>2. PICK s \in Nat, t \in Nat : s = StreamSize /\ t = StreamSize + k /\ s <= t
    BY <1>1
  <2>3. GetPaddedSize(s) <= GetPaddedSize(t) /\ GetPaddedSize(s) \in Nat /\ GetPaddedSize(t) \in Nat
    BY <2>2, PaddedMonotone, PaddedSize
  <2>4. Len(file) \in Nat
    BY DEF StreamInv, BackingRight
  <2> QED BY <1>9, <1>10, <1>13, <2>1, <2>2, <2>3, <2>4
<1> QED BY <1>5, <1>10, <1>11, <1>12, <1>14

LEMMA WriterChunk ==
  ASSUME StreamInv, WriterInv, WriteChunk
  PROVE  WriterInv'
<1>1. /\ op.pc = "copy" /\ op.kind = "Write" /\ WriteToBlock(position, op.data)
      /\ UNCHANGED <<backing, positionValid, ret, content>>
  BY DEF WriteChunk
<1>2. Aligned /\ InBlock(position) /\ op.zeros = 0
  BY <1>1 DEF StreamInv, CacheRight, WriterInv, WriterCall
<1>3. /\ TypeOK /\ op \in Ops /\ StreamSize \in Nat /\ position = StreamSize
  BY WriterFacts DEF TypeOK
<1>4. PICK bytes \in Seq(Int), l \in Nat : bytes = op.data /\ l = Len(bytes)
  BY <1>3, OpFields
<1>5. Remaining = l /\ \A i : NextByte(i) = bytes[i]
  BY <1>1, <1>4 DEF Remaining, NextByte
<1>6. PICK k \in 0..l :
        /\ k = Room(position, l)
        /\ k = 0 => l = 0
        /\ StreamSize' = StreamSize + k
        /\ position' = position + k => WriterCache'
        /\ WriterBlock'
        /\ Len(file') <= GetPaddedSize(StreamSize')
        /\ Stored(file', content', WrittenTo')
  <2>1. l <= Remaining /\ \A i \in 1..l : bytes[i] = NextByte(i)
    BY <1>5
  <2>2. WriteToBlock(position, bytes) /\ UNCHANGED <<backing, content>>
    BY <1>1, <1>4
  <2> QED BY <1>2, <1>4, <2>1, <2>2, WriterAppend
<1>7. PICK rest \in Seq(Int) :
        /\ rest = SubSeq(bytes, k + 1, l) /\ Len(rest) = l - k
        /\ \A i \in 1..(l - k) : rest[i] = bytes[k + i]
  <2>1. PICK f \in Nat, m \in Nat : f = k /\ m = l - k
    BY <1>6
  <2>2. f + m = l
    BY <1>6, <2>1
  <2>3. f + m <= Len(bytes)
    BY <1>4, <2>2
  <2>4. /\ SubSeq(bytes, f + 1, f + m) \in Seq(Int) /\ Len(SubSeq(bytes, f + 1, f + m)) = m
        /\ \A i \in 1..m : SubSeq(bytes, f + 1, f + m)[i] = bytes[f + i]
    BY <2>3, SubSeqOf
  <2> QED BY <2>1, <2>2, <2>4
<1>8. PICK pc \in {"return", "loop"} : pc = IF k = 0 THEN "return" ELSE "loop"
  OBVIOUS
<1>9. position' = position + k /\ op' = [op EXCEPT !.data = rest, !.pc = pc]
  BY <1>4, <1>6, <1>7, <1>8 DEF WriteChunk
<1>10. /\ op'.pc = pc /\ op'.kind = "Write" /\ op'.at = op.at /\ op'.n = op.n /\ op'.data = rest
       /\ op'.zeros = 0 /\ op'.origin = op.origin
  BY <1>1, <1>2, <1>3, <1>9 DEF Ops
<1>11. content' = content /\ ret' = ret
  BY <1>1
<1>12. Remaining' = l - k /\ \A i : NextByte(i)' = rest[i]
  BY <1>7, <1>10 DEF Remaining, NextByte
<1>13. WriterCache'
  BY <1>6, <1>9
<1>14. WriterCall'
  BY <1>8, <1>10 DEF WriterCall
<1>15. WriterAsked'
  BY <1>1, <1>8, <1>10, <1>11 DEF WriterInv, WriterAsked
<1>16. WriterSize'
  <2>1. Len(content) <= MaxSize /\ Len(content) = StreamSize + l
    BY <1>5 DEF WriterInv, WriterSize
  <2>2. StreamSize + l = (StreamSize + k) + (l - k) /\ l - k >= 0
    BY <1>3, <1>6
  <2>3. pc = "return" => l - k = 0
    BY <1>6, <1>8
  <2> QED BY <1>6, <1>10, <1>11, <1>12, <2>1, <2>2, <2>3 DEF WriterSize
<1>17. WriterRest'
  <2>1. ASSUME NEW i \in 1..(l - k) PROVE content[(StreamSize + k) + i] = rest[i]
    <3>1. PICK j \in 1..l : j = k + i
      BY <1>6
    <3>2. content[StreamSize + j] = bytes[j]
      BY <1>5 DEF WriterInv, WriterRest
    <3>3. StreamSize + j = (StreamSize + k) + i
      BY <1>3, <1>6, <3>1
    <3> QED BY <1>7, <3>1, <3>2, <3>3
  <2> QED BY <1>6, <1>11, <1>12, <2>1 DEF WriterRest
<1>18. WriterFile'
  BY <1>6, <1>10 DEF WriterFile
<1> QED BY <1>6, <1>11, <1>13, <1>14, <1>15, <1>16, <1>17, <1>18 DEF WriterInv, NoException

LEMMA WriterZeros ==
  ASSUME StreamInv, WriterInv, ZeroChunk
  PROVE  WriterInv'
<1>1. /\ op.pc = "zero" /\ WriteToBlock(position, Repeat(0, op.zeros))
      /\ UNCHANGED <<backing, positionValid, ret, content>>
  BY DEF ZeroChunk
<1>2. Aligned /\ InBlock(position) /\ op.kind = "Seek" /\ op.zeros > 0
  BY <1>1 DEF StreamInv, CacheRight, WriterInv, WriterCall
<1>3. /\ TypeOK /\ op \in Ops /\ StreamSize \in Nat /\ position = StreamSize /\ Remaining \in Nat
      /\ op.at \in Nat
  BY WriterFacts DEF TypeOK
<1>4. PICK l \in Nat : l = op.zeros /\ l > 0 /\ l <= Remaining
  BY <1>2, WriterFacts DEF WriterInv, WriterSize
<1>5. PICK bytes \in Seq(Int) :
        bytes = Repeat(0, op.zeros) /\ l = Len(bytes) /\ \A i \in 1..l : bytes[i] = 0
  <2>1. /\ Repeat(0, l) \in Seq(Int) /\ Len(Repeat(0, l)) = l
        /\ \A i \in 1..l : Repeat(0, l)[i] = 0
    BY DEF Repeat
  <2> QED BY <1>4, <2>1
<1>6. \A i : NextByte(i) = 0
  BY <1>2 DEF NextByte
<1>7. PICK k \in 0..l :
        /\ k = Room(position, l)
        /\ k = 0 => l = 0
        /\ StreamSize' = StreamSize + k
        /\ position' = position + k => WriterCache'
        /\ WriterBlock'
        /\ Len(file') <= GetPaddedSize(StreamSize')
        /\ Stored(file', content', WrittenTo')
  <2>1. \A i \in 1..l : bytes[i] = NextByte(i)
    BY <1>5, <1>6
  <2>2. WriteToBlock(position, bytes) /\ UNCHANGED <<backing, content>>
    BY <1>1, <1>5
  <2> QED BY <1>2, <1>4, <1>5, <2>1, <2>2, WriterAppend
<1>8. k > 0
  BY <1>4, <1>7
<1>9. PICK left \in Nat : left = l - k
  BY <1>7
<1>10. PICK pc \in {"fill", "fillblock"} : pc = IF left = 0 THEN "fill" ELSE "fillblock"
  OBVIOUS
<1>11. position' = position + k /\ op' = [op EXCEPT !.zeros = left, !.pc = pc]
  <2>1. /\ (IF k = 0 THEN 0 ELSE op.zeros - k) = left
        /\ (IF k = 0 \/ k = op.zeros THEN "fill" ELSE "fillblock") = pc
    BY <1>4, <1>8, <1>9, <1>10
  <2> QED BY <1>4, <1>7, <2>1 DEF ZeroChunk
<1>12. /\ op'.pc = pc /\ op'.kind = "Seek" /\ op'.at = op.at /\ op'.zeros = left
  BY <1>2, <1>3, <1>11 DEF Ops
<1>13. content' = content /\ ret' = ret
  BY <1>1
<1>14. Remaining = op.at - StreamSize /\ Remaining' = Remaining - k
  <2>1. Remaining = op.at - StreamSize
    BY <1>2 DEF Remaining
  <2>2. Remaining' = op.at - (StreamSize + k)
    BY <1>7, <1>12 DEF Remaining
  <2> QED BY <1>3, <1>7, <2>1, <2>2, SMTT(60)
<1>15. \A i : NextByte(i)' = 0
  BY <1>12 DEF NextByte
<1>16. WriterCache'
  BY <1>7, <1>11
<1>17. WriterCall'
  BY <1>9, <1>10, <1>12 DEF WriterCall
<1>18. WriterAsked'
  BY <1>10, <1>12 DEF WriterAsked
<1>19. WriterSize'
  <2>1. Len(content) <= MaxSize /\ Len(content) = StreamSize + Remaining
    BY DEF WriterInv, WriterSize
  <2>2. PICK r \in Nat : r = Remaining
    BY <1>3
  <2>3. StreamSize + r = (StreamSize + k) + (r - k) /\ r - k >= 0 /\ left <= r - k
    BY <1>3, <1>4, <1>7, <1>9, <2>2, SMTT(60)
  <2> QED BY <1>7, <1>10, <1>12, <1>13, <1>14, <2>1, <2>2, <2>3 DEF WriterSize
<1>20. WriterRest'
  <2>1. PICK r \in Nat : r = Remaining
    BY <1>3
  <2>2. ASSUME NEW i \in 1..(r - k) PROVE content[(StreamSize + k) + i] = 0
    <3>1. PICK j \in 1..r : j = k + i
      BY <1>7
    <3>2. content[StreamSize + j] = 0
      BY <1>6, <2>1 DEF WriterInv, WriterRest
    <3>3. StreamSize + j = (StreamSize + k) + i
      BY <1>3, <1>7, <3>1
    <3> QED BY <3>2, <3>3
  <2> QED BY <1>7, <1>13, <1>14, <1>15, <2>1, <2>2 DEF WriterRest
<1>21. WriterFile'
  BY <1>7, <1>10, <1>12 DEF WriterFile
<1> QED BY <1>7, <1>13, <1>16, <1>17, <1>18, <1>19, <1>20, <1>21 DEF WriterInv, NoException

\* A file that holds a text holds every part of it that ends with an AES unit.
LEMMA HeldPart ==
  ASSUME NEW g \in Seq(CipherBytes), NEW text \in Seq(Int), FileHolds(g, text),
         NEW w \in Nat, w % A = 0, w <= Len(text)
  PROVE  Stored(g, text, w) /\ Len(g) = GetPaddedSize(Len(text))
<1>1. PICK t \in Seq(Int) : t = AddPadding(text) /\ Len(t) = GetPaddedSize(Len(text))
  BY PaddingType
<1>2. Len(g) = Len(t) /\ Stored(g, t, Len(g))
  BY <1>1 DEF FileHolds
<1>3. Len(text) < Len(t)
  BY <1>1, PaddedSize
<1>4. \A i \in 1..Len(text) : AddPadding(text)[i] = text[i]
  BY PaddingBytes
<1>5. \A i \in 1..w : t[i] = text[0 + i]
  BY <1>1, <1>4
<1>6. w <= Len(t) /\ 0 + w <= Len(text)
  BY <1>3
<1>7. PartAt(t, text, 0, w)
  BY <1>5, <1>6 DEF PartAt
<1>8. Stored(g, t, w)
  BY <1>2, <1>6 DEF Stored
<1>9. Stored(g, text, w)
  BY <1>7, <1>8, StoredBefore
<1> QED BY <1>1, <1>2, <1>9

\* What Flush finds: the cached bytes are the end of the content, from a block boundary on
\* up to which the file is right.
LEMMA WriterEnd ==
  ASSUME StreamInv, WriterInv, Remaining = 0
  PROVE  \E R \in Nat, b \in Nat : \E part \in Seq(Int) :
           /\ R = IF cacheStart = U64Max THEN 0 ELSE cacheStart
           /\ b = CalculateBlockNumber(R) /\ StartsAt(b, R)
           /\ R <= Len(file) /\ R % A = 0 /\ Stored(file, content, R)
           /\ IsLast(R, contentSize) /\ R + Len(part) = StreamSize
           /\ part = CachedBytes /\ SameBytes(part, 0, content, R, Len(part))
<1>1. /\ TypeOK /\ cacheStart \in Nat /\ cacheSize \in 0..B /\ position = StreamSize
      /\ contentSize \in Nat /\ StreamSize \in Nat /\ content \in Seq(Int)
      /\ file \in Seq(CipherBytes)
      /\ cacheStart # U64Max => cacheStart % B = 0
  BY WriterFacts
<1>2. CASE cacheStart = U64Max
  <2>1. contentSize = 0 /\ cacheSize = 0 /\ ~writePending
    BY <1>2 DEF WriterInv, WriterCache
  <2>2. StreamSize = 0
    BY <2>1 DEF StreamSize
  <2>3. PICK part \in Seq(Int) : part = CachedBytes /\ Len(part) = 0
    BY <1>1, <2>1, CachedBytesType
  <2>4. 0 * B = 0 /\ (0 * B) \div B = 0
    BY MultipleMod
  <2>5. CalculateBlockNumber(0) = 0
    BY <2>4 DEF CalculateBlockNumber
  <2>6. StartsAt(0, 0)
    BY <2>4 DEF StartsAt
  <2>7. 0 % A = 0
    <3>1. (0 * A) % A = 0 /\ 0 * A = 0
      BY MultipleMod
    <3> QED BY <3>1
  <2>8. 0 <= Len(file) /\ Stored(file, content, 0) /\ IsLast(0, contentSize)
    BY <1>1, <2>1 DEF Stored, IsLast
  <2>9. SameBytes(part, 0, content, 0, 0)
    BY <1>1, <2>3 DEF SameBytes
  <2>10. PICK R \in Nat : R = 0
    OBVIOUS
  <2>11. PICK b \in Nat : b = 0
    OBVIOUS
  <2> WITNESS R \in Nat, b \in Nat
  <2> WITNESS part \in Seq(Int)
  <2> QED BY <1>2, <2>2, <2>3, <2>5, <2>6, <2>7, <2>8, <2>9, <2>10, <2>11
<1>3. CASE cacheStart # U64Max
  <2>1. PICK R \in Nat, b \in Nat : R = cacheStart /\ b = cacheStart \div B /\ b * B = R
    BY <1>1, <1>3, OwnBlock, MultipleOf
  <2>2. PICK part \in Seq(Int) :
          part = CachedBytes /\ Len(part) = cacheSize /\ SameBytes(part, 0, content, R, Len(part))
    BY <1>3, <2>1, WriterCached
  <2>3. contentSize <= StreamSize /\ R + cacheSize = StreamSize
    BY <1>3, <2>1 DEF WriterInv, WriterCache
  <2>4. b = CalculateBlockNumber(R) /\ StartsAt(b, R)
    BY <1>3, <2>1, WriterBlockNumber DEF StartsAt
  <2>5. R <= Len(file)
    BY <1>3, <2>1 DEF StreamInv, CacheRight, Aligned
  <2>6. R % A = 0
    BY <2>1, BlockStart
  <2>7. IsLast(R, contentSize)
    BY <1>1, <2>3 DEF IsLast
  <2>8. Stored(file, content, R)
    <3>1. Stored(file, content, WrittenTo)
      BY DEF WriterInv, WriterFile
    <3>2. CASE writePending
      BY <2>1, <3>1, <3>2 DEF WrittenTo
    <3>3. CASE ~writePending
      <4>1. contentSize = StreamSize
        BY <3>3 DEF StreamSize
      <4>2. PICK q \in Nat : q = contentSize \div B /\ q * B <= contentSize /\ contentSize < q * B + B
        BY <1>1, OwnBlock
      <4>3. b <= q
        <5> SUFFICES ASSUME b >= q + 1 PROVE FALSE
          OBVIOUS
        <5>1. b * B >= (q + 1) * B /\ (q + 1) * B = q * B + B
          OBVIOUS
        <5>2. PICK x \in Nat : x = q * B
          OBVIOUS
        <5>3. R >= x + B
          BY <2>1, <5>1, <5>2
        <5>4. contentSize < x + B
          BY <4>2, <5>2
        <5>5. R > contentSize
          BY <1>1, <5>3, <5>4
        <5> QED BY <1>1, <2>3, <4>1, <5>5
      <4>4. PICK w \in Nat : w = q * B /\ R <= w
        <5>1. b * B <= q * B /\ q * B \in Nat
          BY <4>3
        <5> QED BY <2>1, <5>1
      <4>5. WrittenTo = w
        BY <3>3, <4>2, <4>4 DEF WrittenTo
      <4>6. Stored(file, content, w) /\ \A i \in 1..R : i \in 1..w
        BY <3>1, <4>4, <4>5
      <4> QED BY <4>6 DEF Stored
    <3> QED BY <3>2, <3>3
  <2> WITNESS R \in Nat, b \in Nat
  <2> WITNESS part \in Seq(Int)
  <2> QED BY <1>3, <2>1, <2>2, <2>3, <2>4, <2>5, <2>6, <2>7, <2>8
<1> QED BY <1>2, <1>3

LEMMA WriterFlush ==
  ASSUME Writable, StreamInv, WriterInv, CachedBlockFlush
  PROVE  WriterInv'
<1>1. op.pc = "flush" /\ UNCHANGED <<cursor, content>>
  BY DEF CachedBlockFlush
<1>2. op.kind = "Flush" /\ op.zeros = 0
  BY <1>1 DEF WriterInv, WriterCall
<1>3. Remaining = 0
  BY <1>2 DEF Remaining
<1>4. /\ TypeOK /\ position = StreamSize /\ contentSize \in Nat /\ StreamSize \in Nat
      /\ content \in Seq(Int) /\ file \in Seq(CipherBytes) /\ cacheStart \in Nat
      /\ Len(content) = StreamSize + Remaining /\ Len(content) <= MaxSize
  BY WriterFacts
<1>5. PICK R \in Nat, b \in Nat : \E part \in Seq(Int) :
           /\ R = IF cacheStart = U64Max THEN 0 ELSE cacheStart
           /\ b = CalculateBlockNumber(R) /\ StartsAt(b, R)
           /\ R <= Len(file) /\ R % A = 0 /\ Stored(file, content, R)
           /\ IsLast(R, contentSize) /\ R + Len(part) = StreamSize
           /\ part = CachedBytes /\ SameBytes(part, 0, content, R, Len(part))
  BY <1>3, WriterEnd
<1>6. PICK part \in Seq(Int) :
           /\ R = IF cacheStart = U64Max THEN 0 ELSE cacheStart
           /\ b = CalculateBlockNumber(R) /\ StartsAt(b, R)
           /\ R <= Len(file) /\ R % A = 0 /\ Stored(file, content, R)
           /\ IsLast(R, contentSize) /\ R + Len(part) = StreamSize
           /\ part = CachedBytes /\ SameBytes(part, 0, content, R, Len(part))
  BY <1>5
<1>7. Len(content) = StreamSize
  BY <1>3, <1>4
<1>8. PICK g : g = Splice(file, R, Encrypt(part, b, TRUE).out, Hole)
  OBVIOUS
<1>9. g \in Seq(CipherBytes) /\ FileHolds(g, content)
  <2>1. Len(file) <= GetPaddedSize(Len(content))
    BY <1>7 DEF WriterInv, WriterFile
  <2>2. Len(content) = R + Len(part)
    BY <1>6, <1>7
  <2> QED BY <1>4, <1>6, <1>8, <2>1, <2>2, FinishedFile
<1>10. FlushWrite = [ok |-> TRUE, file |-> g, size |-> StreamSize]
  <2>1. FlushWrite = SimpleWrite(file, contentSize, part, R, b, TRUE)
    BY <1>6 DEF FlushWrite
  <2>2. Encrypt(part, b, TRUE).ok = TRUE
    BY DEF Encrypt
  <2>3. MaxOf(contentSize, R + Len(part)) = StreamSize
    <3>1. contentSize <= StreamSize
      BY DEF WriterInv, WriterCache
    <3>2. MaxOf(contentSize, StreamSize) = StreamSize
      BY <1>4, <3>1 DEF MaxOf
    <3> QED BY <1>6, <3>2
  <2> QED BY <1>8, <2>1, <2>2, <2>3 DEF SimpleWrite
<1>11. /\ file' = g /\ contentSize' = StreamSize /\ writePending' = FALSE /\ Goto("return")
       /\ UNCHANGED <<cacheStart, cacheSize, cache, ret>>
  BY <1>10 DEF CachedBlockFlush
<1>12. /\ op'.pc = "return" /\ op'.kind = "Flush" /\ op'.zeros = 0 /\ op'.origin = op.origin
  BY <1>2, <1>4, <1>11, GotoFields
<1>13. position' = position /\ content' = content
  BY <1>1 DEF cursor
<1>14. StreamSize' = StreamSize /\ Remaining' = 0
  BY <1>11, <1>12 DEF StreamSize, Remaining
<1>15. WriterCache'
  <2>1. /\ cacheStart = U64Max => contentSize = 0 /\ cacheSize = 0 /\ ~writePending
        /\ cacheStart # U64Max => cacheStart + cacheSize = StreamSize
    BY DEF WriterInv, WriterCache
  <2>2. cacheStart = U64Max => StreamSize = 0
    BY <2>1 DEF StreamSize
  <2>3. contentSize' <= StreamSize' /\ position' = StreamSize'
    BY <1>4, <1>11, <1>13, <1>14
  <2> QED BY <1>11, <1>14, <2>1, <2>2, <2>3 DEF WriterCache
<1>16. WriterCall'
  BY <1>12 DEF WriterCall
<1>17. WriterAsked'
  BY <1>1, <1>2, <1>12, <1>13 DEF WriterInv, WriterAsked
<1>18. WriterSize'
  BY <1>4, <1>7, <1>12, <1>13, <1>14 DEF WriterSize
<1>19. WriterRest'
  BY <1>14 DEF WriterRest
<1>20. WriterBlock'
  BY <1>11, <1>13 DEF WriterInv, WriterBlock
<1>21. WriterFile'
  <2>1. PICK q \in Nat : q = StreamSize \div B /\ q * B <= StreamSize
    BY <1>4, OwnBlock
  <2>2. q * B \in Nat /\ (q * B) % A = 0
    BY BlockStart
  <2>3. PICK w \in Nat : w = q * B /\ w % A = 0 /\ w <= Len(content)
    BY <1>7, <2>1, <2>2
  <2>4. WrittenTo' = w
    BY <1>11, <1>14, <2>1, <2>3 DEF WrittenTo
  <2>5. Stored(g, content, w) /\ Len(g) = GetPaddedSize(Len(content))
    BY <1>4, <1>9, <2>3, HeldPart
  <2>6. Len(g) <= GetPaddedSize(StreamSize)
    <3>1. GetPaddedSize(StreamSize) \in Nat
      BY <1>4, PaddedSize
    <3> QED BY <1>7, <2>5, <3>1
  <2> QED BY <1>9, <1>11, <1>13, <1>14, <2>4, <2>5, <2>6 DEF WriterFile
<1> QED BY <1>11, <1>15, <1>16, <1>17, <1>18, <1>19, <1>20, <1>21 DEF WriterInv, NoException

LEMMA WriterNext ==
  ASSUME Writable, Sequential
  PROVE  StreamInv /\ WriterInv /\ [Next]_vars => WriterInv'
<1> SUFFICES ASSUME StreamInv, WriterInv, [Next]_vars PROVE WriterInv'
  OBVIOUS
<1>1. CASE UNCHANGED vars
  BY <1>1 DEF vars, backing, cached, cursor, WriterInv, WriterCache, WriterCall, WriterAsked,
     WriterSize, WriterRest, WriterBlock, WriterFile, NoException, StreamSize, Remaining, NextByte,
     WrittenTo, InBlock
<1>2. CASE Step
  <2>1. op.pc \notin {"size", "shrink", "rewrite", "stuck"}
    BY DEF WriterInv, WriterCall
  <2>2. op.pc = "copy" => op.kind = "Write"
    BY DEF WriterInv, WriterCall
  <2>3. ~(SizeUnchanged \/ Shrink \/ ReadFromBlock \/ RelockHangs \/ RewriteFinalBlock
          \/ GrowEndless)
    BY <2>1, <2>2, WriterNotEndless DEF SizeUnchanged, Shrink, ReadFromBlock, RelockHangs,
       RewriteFinalBlock
  <2> QED BY <1>2, <2>3, WriterSeek, WriterFill, WriterLoopDone, WriterHit, WriterMiss, WriterLoad,
             WriterChunk, WriterZeros, WriterFlush, WriterReturn DEF Step
<1> QED BY <1>1, <1>2, WriterCalls DEF Next

\* Between the calls of a client that writes a stream from its start on, GetSizeInternal is the
\* number of bytes the client has written or sought past: the cached block, the block that is
\* still to be written back and the file never count a byte twice or lose one.
THEOREM WriterSizeIsRight ==
  ASSUME Writable, "opened" \notin Starts, Sequential
  PROVE  Spec => []SizeIsContentLength
<1>1. StreamInv /\ WriterInv => SizeIsContentLength
  <2> SUFFICES ASSUME StreamInv, WriterInv, op.pc = "idle" PROVE GetSizeInternal = Len(content)
    BY DEF SizeIsContentLength
  <2>1. GetSizeInternal = StreamSize /\ StreamSize \in Nat /\ Len(content) = StreamSize + Remaining
    BY WriterFacts
  <2>2. op = Idle
    BY DEF WriterInv, WriterCall
  <2>3. op.kind = "None"
    BY <2>2 DEF Idle
  <2>4. Remaining = 0
    BY <2>3 DEF Remaining
  <2> QED BY <2>1, <2>4
<1>2. StreamInv /\ WriterInv /\ [Next]_vars => WriterInv'
  BY WriterNext
<1>3. Init => WriterInv
  BY WriterInit
<1> QED BY <1>1, <1>2, <1>3, StreamInitInv, StreamStepInv, PTL DEF Spec

\* No call of such a client ends in an exception of the cipher or of the backing stream: a block
\* that leaves the cache is full, and none has to be read back (UpdateBlock, CachedBlock::Flush).
THEOREM WriterNeverFails ==
  ASSUME Writable, "opened" \notin Starts, Sequential
  PROVE  Spec => []NoException
<1>1. WriterInv => NoException
  BY DEF WriterInv
<1>2. StreamInv /\ WriterInv /\ [Next]_vars => WriterInv'
  BY WriterNext
<1>3. Init => WriterInv
  BY WriterInit
<1> QED BY <1>1, <1>2, <1>3, StreamInitInv, StreamStepInv, PTL DEF Spec

\* When a Flush of such a client returns, the backing stream decrypts to exactly what the client
\* has written, however often it has flushed before: a final block that grows again replaces its
\* own padding, and blocks behind the cached one have reached the file in order.
THEOREM WriterFlushPersists ==
  ASSUME Writable, "opened" \notin Starts, Sequential
  PROVE  Spec => []FlushPersists
<1>1. StreamInv /\ WriterInv => FlushPersists
  <2> SUFFICES ASSUME StreamInv, WriterInv, op.pc = "return", op.kind = "Flush"
               PROVE  Decrypt(file, 0, TRUE) = [ok |-> TRUE, out |-> content]
    BY DEF FlushPersists
  <2>1. FileHolds(file, content)
    BY DEF WriterInv, WriterFile
  <2>2. file \in Seq(CipherBytes) /\ content \in Seq(Int)
    BY WriterFacts
  <2> QED BY <2>1, <2>2, FileDecrypts
<1>2. StreamInv /\ WriterInv /\ [Next]_vars => WriterInv'
  BY WriterNext
<1>3. Init => WriterInv
  BY WriterInit
<1> QED BY <1>1, <1>2, <1>3, StreamInitInv, StreamStepInv, PTL DEF Spec

-----------------------------------------------------------------------------
(* A stream that is written from its start on implements a plain byte stream *)

LEMMA WriterIdle ==
  ASSUME StreamInv, WriterInv, op.pc = "idle"
  PROVE  /\ op.kind = "None" /\ op.at = 0 /\ op.n = 0
         /\ GetSizeInternal = Len(content) /\ position = Len(content) /\ position \in Nat
<1>1. op = Idle
  BY DEF WriterInv, WriterCall
<1>2. op.kind = "None" /\ op.at = 0 /\ op.n = 0
  BY <1>1 DEF Idle
<1>3. Remaining = 0
  BY <1>2 DEF Remaining
<1>4. /\ GetSizeInternal = StreamSize /\ StreamSize \in Nat /\ position = StreamSize
      /\ Len(content) = StreamSize + Remaining
  BY WriterFacts
<1> QED BY <1>2, <1>3, <1>4

LEMMA CallMade ==
  ASSUME op.pc = "idle", op.kind = "None", op.at = 0, op.n = 0,
         NEW kind, NEW pc \in {"seek", "flush"}, NEW at, NEW n, NEW data,
         Start(kind, pc, at, n, data)
  PROVE  BS!Call(kind, at, n, content')
<1>1. /\ op'.pc = pc /\ op'.kind = kind /\ op'.at = at /\ op'.n = n /\ op'.origin = position
      /\ UNCHANGED <<cursor, ret>>
  BY DEF Start
<1> QED BY <1>1 DEF BS!Call, BS!NoCall, cursor

LEMMA CallsMade ==
  ASSUME Writable, Sequential, StreamInv, WriterInv,
         \/ \E n \in Lengths : Read(n)
         \/ \E d \in Payloads : Write(d)
         \/ \E at \in 0..MaxSize, n \in Lengths : ReadAsyncAt(at, n)
         \/ \E at \in 0..MaxSize, d \in Payloads : WriteAsyncAt(at, d)
         \/ \E p \in 0..MaxSize : Seek(p)
         \/ \E v \in 0..MaxSize : Size(v)
         \/ Flush
  PROVE  BS!Next
<1>1. op.pc = "idle"
  BY DEF Read, Write, ReadAsyncAt, WriteAsyncAt, Seek, Size, Flush, MayCall
<1>2. /\ op.kind = "None" /\ op.at = 0 /\ op.n = 0
      /\ GetSizeInternal = Len(content) /\ position = Len(content) /\ position \in Nat
  BY <1>1, WriterIdle
<1>3. ASSUME NEW n \in Lengths, Read(n) PROVE BS!Next
  <2>1. ReadAsync(position, n)
    BY <1>3 DEF Read
  <2>2. CASE Start("Read", "seek", position, n, <<>>) /\ UNCHANGED content
    <3>1. BS!Call("Read", position, n, content)
      BY <1>1, <1>2, <2>2, CallMade
    <3>2. position \in 0..MaxSize
      BY <1>2, WriterFacts
    <3> QED BY <3>1, <3>2 DEF BS!Next, BS!CallRead
  <2>3. CASE Refuse
    <3>1. /\ UNCHANGED <<cursor, op, content>>
          /\ ret' = [kind |-> "Refused", status |-> "invalid", data |-> <<>>]
      BY <2>3 DEF Refuse
    <3>2. BS!Refuse
      BY <1>1, <1>2, <3>1 DEF BS!Refuse, BS!NoCall, cursor
    <3> QED BY <3>2 DEF BS!Next
  <2> QED BY <2>1, <2>2, <2>3 DEF ReadAsync
<1>4. ASSUME NEW d \in Payloads, Write(d) PROVE BS!Next
  <2>1. /\ position + Len(d) <= MaxSize /\ Start("Write", "seek", position, Len(d), d)
        /\ content' = Splice(content, position, d, 0)
    BY <1>4, WriterFacts DEF Write, WriteAsync
  <2>2. BS!Splice(content, position, d, 0) = Splice(content, position, d, 0)
    BY DEF BS!Splice, BS!MinOf, BS!Repeat, Splice, MinOf, Repeat
  <2>3. BS!Call("Write", position, Len(d), BS!Splice(content, position, d, 0))
    BY <1>1, <1>2, <2>1, <2>2, CallMade
  <2>4. position \in 0..MaxSize
    <3>1. Len(d) \in Nat
      OBVIOUS
    <3> QED BY <1>2, <2>1, <3>1
  <2> QED BY <2>3, <2>4 DEF BS!Next, BS!CallWrite
<1>5. ASSUME NEW p \in 0..MaxSize, Seek(p) PROVE BS!Next
  <2>1. /\ Start("Seek", "seek", p, 0, <<>>)
        /\ content' = IF Writable /\ p > Len(content) THEN Resize(content, p) ELSE content
    BY <1>2, <1>5 DEF Seek
  <2>2. BS!Resize(content, p) = Resize(content, p)
    BY DEF BS!Resize, BS!MinOf, BS!Repeat, Resize, MinOf, Repeat
  <2>3. BS!Call("Seek", p, 0,
                IF Writable /\ p > Len(content) THEN BS!Resize(content, p) ELSE content)
    BY <1>1, <1>2, <2>1, <2>2, CallMade
  <2> QED BY <2>3 DEF BS!Next, BS!CallSeek
<1>6. CASE Flush
  <2>1. Start("Flush", "flush", 0, 0, <<>>) /\ UNCHANGED content
    BY <1>6 DEF Flush
  <2>2. BS!Call("Flush", 0, 0, content)
    BY <1>1, <1>2, <2>1, CallMade
  <2> QED BY <2>2 DEF BS!Next, BS!CallFlush
<1>7. ~\E at \in 0..MaxSize, n \in Lengths : ReadAsyncAt(at, n)
  BY DEF ReadAsyncAt, MayCall, Sequential
<1>8. ~\E at \in 0..MaxSize, d \in Payloads : WriteAsyncAt(at, d)
  BY DEF WriteAsyncAt, MayCall, Sequential
<1>9. ~\E v \in 0..MaxSize : Size(v)
  BY DEF Size, MayCall, Sequential
<1> QED BY <1>3, <1>4, <1>5, <1>6, <1>7, <1>8, <1>9

\* The steps of a call, from its start to its return, are not seen by the client.
LEMMA CallGoesOn ==
  ASSUME Writable, StreamInv, WriterInv, WriterInv', Step, ~Return
  PROVE  UNCHANGED BS!vars
<1>1. TypeOK /\ op.pc # "idle"
  BY DEF StreamInv, Step, SeekWithin, SeekInvalid, Grow, GrowEndless, SizeUnchanged, Shrink,
     FillWithZeros, FillDone, LoopDone, UpdateBlockHit, UpdateBlockMiss, LoadBlock, ReadFromBlock, WriteChunk, ZeroChunk,
     RelockHangs, RewriteFinalBlock, CachedBlockFlush, NeedsBlock, LoopGoesOn
<1>2. ~Throw
  BY DEF Throw, WriterInv, NoException
<1>3. ASSUME NEW pc \in {"seek", "fill", "zero", "loop", "load", "copy", "return"}, Goto(pc),
             UNCHANGED <<ret, content>>
      PROVE  UNCHANGED BS!vars
  <2>1. op'.pc = pc /\ op'.kind = op.kind /\ op'.at = op.at /\ op'.n = op.n /\ op'.origin = op.origin
    BY <1>1, <1>3, GotoFields
  <2> QED BY <1>1, <1>3, <2>1, InsideCall
<1>4. op.pc \notin {"size", "shrink", "rewrite", "stuck"} /\ (op.pc = "copy" => op.kind = "Write")
  BY DEF WriterInv, WriterCall
<1>5. ~(SizeUnchanged \/ Shrink \/ ReadFromBlock \/ RelockHangs \/ RewriteFinalBlock \/ SeekInvalid
        \/ GrowEndless)
  BY <1>4, WriterNotEndless DEF SizeUnchanged, Shrink, ReadFromBlock, RelockHangs,
     RewriteFinalBlock, SeekInvalid
<1>6. CASE SeekWithin \/ FillDone
  <2>1. AfterSeek \in {"loop", "return"} /\ Goto(AfterSeek) /\ UNCHANGED <<ret, content>>
    BY <1>6 DEF SeekWithin, FillDone, AfterSeek
  <2> QED BY <1>3, <2>1
<1>7. CASE Grow \/ LoopDone
  BY <1>3, <1>7 DEF Grow, LoopDone
<1>8. CASE UpdateBlockHit \/ LoadBlock
  <2>1. op.kind # "Size"
    BY DEF WriterInv, WriterCall
  <2>2. AfterUpdate \in {"zero", "copy"}
    BY <2>1 DEF AfterUpdate
  <2>3. Goto(AfterUpdate) /\ UNCHANGED <<ret, content>>
    BY <1>2, <1>8 DEF UpdateBlockHit, LoadBlock
  <2> QED BY <1>3, <2>2, <2>3
<1>9. CASE CachedBlockFlush
  <2>1. Goto("return") /\ UNCHANGED <<ret, content>>
    BY <1>2, <1>9 DEF CachedBlockFlush
  <2> QED BY <1>3, <2>1
<1>10. CASE FillWithZeros
  <2>1. PICK z : op' = [op EXCEPT !.pc = "fillblock", !.zeros = z] /\ UNCHANGED <<ret, content>>
    BY <1>10 DEF FillWithZeros
  <2>2. op'.pc = "fillblock" /\ op'.kind = op.kind /\ op'.at = op.at /\ op'.n = op.n
        /\ op'.origin = op.origin
    BY <1>1, <2>1 DEF TypeOK, Ops
  <2> QED BY <1>1, <2>1, <2>2, InsideCall
<1>11. CASE UpdateBlockMiss
  <2>1. PICK b : op' = [op EXCEPT !.pc = "load", !.blk = b] /\ UNCHANGED <<ret, content>>
    BY <1>2, <1>11 DEF UpdateBlockMiss
  <2>2. op'.pc = "load" /\ op'.kind = op.kind /\ op'.at = op.at /\ op'.n = op.n
        /\ op'.origin = op.origin
    BY <1>1, <2>1 DEF TypeOK, Ops
  <2> QED BY <1>1, <2>1, <2>2, InsideCall
<1>12. CASE WriteChunk
  <2>1. PICK k : op' = [op EXCEPT !.data = SubSeq(op.data, k + 1, Len(op.data)),
                                  !.pc = IF k = 0 THEN "return" ELSE "loop"]
                 /\ UNCHANGED <<ret, content>>
    BY <1>12 DEF WriteChunk
  <2>2. op'.pc \in {"return", "loop"} /\ op'.kind = op.kind /\ op'.at = op.at /\ op'.n = op.n
        /\ op'.origin = op.origin
    BY <1>1, <2>1 DEF TypeOK, Ops
  <2> QED BY <1>1, <2>1, <2>2, InsideCall
<1>13. CASE ZeroChunk
  <2>1. PICK k : op' = [op EXCEPT !.zeros = IF k = 0 THEN 0 ELSE op.zeros - k,
                                  !.pc = IF k = 0 \/ k = op.zeros THEN "fill" ELSE "fillblock"]
                 /\ UNCHANGED <<ret, content>>
    BY <1>13 DEF ZeroChunk
  <2>2. op'.pc \in {"fill", "fillblock"} /\ op'.kind = op.kind /\ op'.at = op.at /\ op'.n = op.n
        /\ op'.origin = op.origin
    BY <1>1, <2>1 DEF TypeOK, Ops
  <2> QED BY <1>1, <2>1, <2>2, InsideCall
<1> QED BY <1>5, <1>6, <1>7, <1>8, <1>9, <1>10, <1>11, <1>12, <1>13 DEF Step

\* At the return the position and the data are those of the byte stream.
LEMMA CallReturns ==
  ASSUME Writable, StreamInv, WriterInv, Return
  PROVE  BS!Return
<1>1. /\ op.pc = "return" /\ op' = Idle /\ UNCHANGED <<cursor, content>>
      /\ ret' = [kind |-> op.kind, status |-> "ok",
                 data |-> IF op.kind = "Read" THEN op.data ELSE <<>>]
  BY DEF Return
<1>2. op'.pc = "idle" /\ op'.kind = "None" /\ op'.at = 0 /\ op'.n = 0
  BY <1>1 DEF Idle
<1>3. /\ TypeOK /\ StreamSize \in Nat /\ position = StreamSize /\ op.at \in Nat /\ op.n \in Nat
      /\ Len(content) = StreamSize + Remaining /\ Remaining \in Nat /\ content \in Seq(Int)
  BY WriterFacts
<1>4. Remaining = 0
  BY <1>1 DEF WriterInv, WriterSize
<1>5. position = Len(content)
  BY <1>3, <1>4
<1>6. op.kind \in {"Read", "Write", "Seek", "Flush"}
  BY <1>1, <1>3 DEF WriterInv, WriterCall, TypeOK, Ops
<1>7. CASE op.kind = "Read"
  <2>1. op.at = position /\ op.data = <<>>
    BY <1>7 DEF WriterInv, WriterAsked
  <2>2. BS!Slice(content, op.at, op.n) = <<>>
    <3>1. PICK p \in Nat : p = op.at /\ p = Len(content)
      BY <1>5, <1>3, <2>1
    <3>2. BS!MinOf(p + op.n, Len(content)) = p
      BY <1>3, <3>1 DEF BS!MinOf
    <3>3. SubSeq(content, p + 1, p) = <<>>
      BY <1>3, <3>1
    <3> QED BY <3>1, <3>2, <3>3 DEF BS!Slice
  <2>3. Len(<<>>) = 0 /\ op.at + 0 = position
    BY <1>3, <2>1
  <2> QED BY <1>1, <1>2, <1>7, <2>1, <2>2, <2>3 DEF BS!Return, BS!NoCall, BS!Status, BS!Data, cursor
<1>8. CASE op.kind = "Write"
  <2>1. position = op.at + op.n
    BY <1>5, <1>8 DEF WriterInv, WriterAsked
  <2> QED BY <1>1, <1>2, <1>8, <2>1 DEF BS!Return, BS!NoCall, BS!Status, BS!Data, cursor
<1>9. CASE op.kind = "Seek"
  <2>1. Remaining = op.at - StreamSize
    BY <1>9 DEF Remaining
  <2>2. position = op.at
    BY <1>3, <1>4, <2>1
  <2> QED BY <1>1, <1>2, <1>9, <2>2 DEF BS!Return, BS!NoCall, BS!Status, BS!Data, cursor
<1>10. CASE op.kind = "Flush"
  <2>1. op.origin = position
    BY <1>10 DEF WriterInv, WriterAsked
  <2> QED BY <1>1, <1>2, <1>10, <2>1 DEF BS!Return, BS!NoCall, BS!Status, BS!Data, cursor
<1> QED BY <1>6, <1>7, <1>8, <1>9, <1>10

\* A stream that is written from its start on behaves as a plain byte stream: what a call puts
\* into the stream is there at once, seeking past the end appends zeros, and every return finds
\* the position where the byte stream has it, whatever is cached and whatever is on the file.
THEOREM WriterImplementsByteStream ==
  ASSUME Writable, "opened" \notin Starts, Sequential
  PROVE  Spec => ImplementsByteStream
<1>1. Init => BS!Init
  <2> SUFFICES ASSUME Init PROVE BS!Init
    OBVIOUS
  <2>1. /\ op = Idle /\ position = 0 /\ ret = [kind |-> "None", status |-> "ok", data |-> <<>>]
        /\ "fresh" \in Starts /\ content = <<>>
    BY DEF Init
  <2>2. op.pc = "idle" /\ op.kind = "None" /\ op.at = 0 /\ op.n = 0
    BY <2>1 DEF Idle
  <2>3. content \in (IF "fresh" \in Starts THEN {<<>>} ELSE {})
                   \cup (IF "opened" \in Starts THEN InitialTexts ELSE {})
    BY <2>1
  <2> QED BY <2>1, <2>2, <2>3 DEF BS!Init, BS!NoCall
<1>2. StreamInv /\ WriterInv /\ [Next]_vars => WriterInv'
  BY WriterNext
<1>3. StreamInv /\ WriterInv /\ WriterInv' /\ [Next]_vars => [BS!Next]_(BS!vars)
  <2> SUFFICES ASSUME StreamInv, WriterInv, WriterInv', [Next]_vars PROVE [BS!Next]_(BS!vars)
    OBVIOUS
  <2>1. CASE UNCHANGED vars
    BY <2>1 DEF vars, backing, cached, cursor, BS!vars
  <2>2. CASE Return
    BY <2>2, CallReturns DEF BS!Next
  <2>3. CASE Step /\ ~Return
    BY <2>3, CallGoesOn
  <2> QED BY <2>1, <2>2, <2>3, CallsMade DEF Next, Step
<1>4. Init => WriterInv
  BY WriterInit
<1> QED BY <1>1, <1>2, <1>3, <1>4, StreamInitInv, StreamStepInv, PTL
           DEF Spec, ImplementsByteStream, BS!Spec
=============================================================================
