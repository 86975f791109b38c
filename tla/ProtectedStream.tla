--------------------------- MODULE ProtectedStream ---------------------------
(***************************************************************************)
(* One protected stream: BlockBasedProtectedStream over CachedBlock over   *)
(* SimpleProtectedStream over a standard-library stream.  A client call    *)
(* holds m_locker from the start to the return, so calls never overlap;    *)
(* inside a call, every pass through UpdateBlock, ReadFromBlock or         *)
(* WriteToBlock is one step.  An exception of the cipher or of the backing *)
(* stream ends the call where it occurs and leaves the members as they     *)
(* are.                                                                    *)
(***************************************************************************)
EXTENDS CbcCipher

CONSTANTS Starts,        \* "fresh": on an empty backing stream; "opened": on a file
          InitialTexts,  \* the plaintexts an opened file may hold
          Readable,      \* the backing stream can be read
          Writable,      \* the backing stream can be written
          Calls,         \* the calls the client makes, see MayCall
          Payloads,      \* the byte strings the client writes
          Lengths,       \* the lengths the client reads
          MaxSize,       \* bound on the offsets and sizes the client uses
          U64Max         \* numeric_limits<uint64_t>::max()

CallKinds == {"Read", "ReadAsync", "Write", "WriteAsync", "Seek", "SeekBack",
              "Size", "Flush", "PastEnd", "Retry"}

ASSUME StreamConstants ==
  /\ Starts \subseteq {"fresh", "opened"}
  /\ Readable \in BOOLEAN /\ Writable \in BOOLEAN
  /\ MaxSize \in Nat
  /\ U64Max \in Nat /\ U64Max > MaxSize + 2 * B
  /\ Calls \subseteq CallKinds
  /\ Payloads \subseteq Seq(Nat)
  /\ InitialTexts \subseteq Seq(Nat)
  /\ \A text \in InitialTexts : Len(text) < U64Max   \* sizes are uint64_t
  /\ Lengths \subseteq Nat

VARIABLES
  file,          \* bytes of the backing stream from m_u64ContentStart on
  contentSize,   \* SimpleProtectedStream::m_u64ContentSize
  cacheStart,    \* CachedBlock::m_u64CacheStart, U64Max when nothing is cached
  cacheSize,     \* CachedBlock::m_u64CacheSize
  cache,         \* CachedBlock::m_cache, all B bytes of it
  finalBlockHasBeenWritten,
  writePending,
  position,      \* BlockBasedProtectedStream::m_u64Position
  positionValid,
  op,            \* the call in progress and where it is
  ret,           \* the outcome of the last call
  content        \* history variable: the plaintext the client expects

backing  == <<file, contentSize>>
cached   == <<cacheStart, cacheSize, cache, finalBlockHasBeenWritten, writePending>>
cursor   == <<position, positionValid>>
vars     == <<backing, cached, cursor, op, ret, content>>

Idle == [pc |-> "idle", kind |-> "None", at |-> 0, n |-> 0,
         data |-> <<>>, origin |-> 0, zeros |-> 0, blk |-> 0]

Init ==
  /\ \/ "fresh" \in Starts /\ content = <<>> /\ file = <<>>
     \/ /\ "opened" \in Starts
        /\ content \in InitialTexts
        /\ file = Encrypt(content, 0, TRUE).out
  /\ contentSize = Len(file)
  /\ cacheStart = U64Max
  /\ cacheSize = 0
  /\ cache = [i \in 1..B |-> 0]
  /\ finalBlockHasBeenWritten = FALSE
  /\ writePending = FALSE
  /\ position = 0
  /\ positionValid = TRUE
  /\ op = Idle
  /\ ret = [kind |-> "None", status |-> "ok", data |-> <<>>]

-----------------------------------------------------------------------------
(* SimpleProtectedStream *)

SimpleWrite(f, size, bytes, offset, blk, isFinal) ==
  LET e == Encrypt(bytes, blk, isFinal)
  IN  IF e.ok /\ Writable
        THEN [ok   |-> TRUE,
              file |-> Splice(f, offset, e.out, Hole),
              size |-> MaxOf(size, offset + Len(bytes))]
        ELSE [ok |-> FALSE, file |-> f, size |-> size]

\* Mutation of ContentLeft: off by one.
ContentLeftShort(size, offset) == IF offset < size THEN size - offset - 1 ELSE 0

\* A content size below the offset wraps around to a huge rest.
ContentLeft(size, offset) == IF offset <= size THEN size - offset ELSE U64Max

SimpleRead(f, size, offset, blk, isFinal) ==
  LET toRead == MinOf(B, ContentLeft(size, offset))
      cipher == Slice(f, offset, toRead)
  IN  IF ~Readable /\ toRead > 0 THEN [ok |-> FALSE, out |-> <<>>]
      ELSE IF cipher = <<>> THEN [ok |-> TRUE, out |-> <<>>]
      ELSE Decrypt(cipher, blk, isFinal)

-----------------------------------------------------------------------------
(* CachedBlock *)

CalculateBlockNumber(p) ==
  LET n == p \div B
  IN  IF finalBlockHasBeenWritten /\ n * B = contentSize /\ p # contentSize /\ n > 0
        THEN n - 1 ELSE n

\* Mutation of GetSizeInternal: the cached bytes are forgotten.
SizeOfBacking == contentSize

GetSizeInternal ==
  IF writePending /\ ~finalBlockHasBeenWritten
    THEN CalculateBlockNumber(cacheStart) * B + cacheSize
    ELSE contentSize

\* The block that starts at offset start is the last one, given the size.
IsLast(start, size) == start + B >= size

CachedBytes == SubSeq(cache, 1, cacheSize)

\* Mutations of WriteBack: the number of the new block; never final; forgotten.
WriteBackNewNumber(p) ==
  IF writePending
    THEN SimpleWrite(file, contentSize, CachedBytes, cacheStart, CalculateBlockNumber(p),
                     IsLast(cacheStart, contentSize) /\ p < cacheStart + B)
    ELSE [ok |-> TRUE, file |-> file, size |-> contentSize]
WriteBackNotFinal(p) ==
  IF writePending
    THEN SimpleWrite(file, contentSize, CachedBytes, cacheStart,
                     CalculateBlockNumber(cacheStart), FALSE)
    ELSE [ok |-> TRUE, file |-> file, size |-> contentSize]
WriteBackForgotten(p) == [ok |-> TRUE, file |-> file, size |-> contentSize]

\* UpdateBlock, first half: the dirty block goes to the backing stream.
WriteBack(p) ==
  IF writePending
    THEN SimpleWrite(file, contentSize, CachedBytes, cacheStart,
                     CalculateBlockNumber(cacheStart),
                     IsLast(cacheStart, contentSize) /\ p < cacheStart + B)
    ELSE [ok |-> TRUE, file |-> file, size |-> contentSize]

InCache(p) == cacheStart <= p /\ p < cacheStart + cacheSize
InBlock(p) == cacheStart <= p /\ p < cacheStart + B

\* Mutation of Room: the end of the block is forgotten.
RoomUnlimited(p, n) == IF InBlock(p) THEN n ELSE 0

\* How many of n bytes WriteToBlock takes at stream offset p.
Room(p, n) == IF InBlock(p) THEN MinOf(n, B - (p - cacheStart)) ELSE 0

WriteToBlock(p, bytes) ==
  LET k == Room(p, Len(bytes))
  IN  IF InBlock(p)
        THEN /\ cache' = Splice(cache, p - cacheStart, SubSeq(bytes, 1, k), 0)
             /\ cacheSize' = MaxOf(cacheSize, p - cacheStart + k)
             /\ writePending' = (writePending \/ k > 0)
             /\ finalBlockHasBeenWritten' =
                  (finalBlockHasBeenWritten /\ ~IsLast(cacheStart, contentSize))
             /\ UNCHANGED cacheStart
        ELSE UNCHANGED cached

-----------------------------------------------------------------------------
(* The client's calls *)

\* Besides the names of the calls, Calls may hold "SeekBack" (seek to an
\* earlier offset), "PastEnd" (asynchronous reads beyond the end) and "Retry"
\* (go on using the stream after an exception).
MayCall(c) ==
  /\ op.pc = "idle"
  /\ c \in Calls
  /\ ret.status = "exception" => "Retry" \in Calls

Start(kind, pc, at, n, data) ==
  /\ op' = [pc |-> pc, kind |-> kind, at |-> at, n |-> n, data |-> data,
            origin |-> position, zeros |-> 0, blk |-> 0]
  /\ UNCHANGED <<backing, cached, cursor, ret>>

Refuse ==
  /\ ret' = [kind |-> "Refused", status |-> "invalid", data |-> <<>>]
  /\ UNCHANGED <<backing, cached, cursor, op, content>>

\* The offsets a call may use: the client's, within the bound, and the position of
\* a writable stream that a failed Size(0) has wrapped around.
Offset(at) == at <= MaxSize \/ (Writable /\ at = U64Max)

ReadAsync(at, n) ==
  /\ Offset(at)
  /\ IF Readable /\ positionValid
       THEN Start("Read", "seek", at, n, <<>>) /\ UNCHANGED content
       ELSE Refuse

\* A write at the wrapped position never gets as far as its bytes.
WriteAsync(at, d) ==
  /\ at + Len(d) <= MaxSize \/ at = U64Max
  /\ IF Writable
       THEN /\ Start("Write", "seek", at, Len(d), d)
            /\ content' = IF at = U64Max THEN content ELSE Splice(content, at, d, 0)
       ELSE Refuse

Read(n)  == MayCall("Read") /\ ReadAsync(position, n)
Write(d) == MayCall("Write") /\ WriteAsync(position, d)

ReadAsyncAt(at, n) ==
  /\ MayCall("ReadAsync")
  /\ at <= GetSizeInternal \/ "PastEnd" \in Calls
  /\ ReadAsync(at, n)

WriteAsyncAt(at, d) == MayCall("WriteAsync") /\ WriteAsync(at, d)

Seek(p) ==
  /\ MayCall("Seek")
  /\ p < position => "SeekBack" \in Calls
  /\ Start("Seek", "seek", p, 0, <<>>)
  /\ content' = IF Writable /\ p > Len(content) /\ p > GetSizeInternal
                  THEN Resize(content, p) ELSE content

Size(v) ==
  /\ MayCall("Size")
  /\ IF Writable
       THEN Start("Size", "size", v, 0, <<>>) /\ content' = Resize(content, v)
       ELSE Refuse

Flush == MayCall("Flush") /\ Start("Flush", "flush", 0, 0, <<>>) /\ UNCHANGED content

-----------------------------------------------------------------------------
(* The steps of a call *)

Goto(pc) == op' = [op EXCEPT !.pc = pc]

\* Where a call goes on once SeekInternal has placed the position.
AfterSeek == IF op.kind \in {"Read", "Write"} THEN "loop" ELSE "return"

Throw ==
  /\ op' = Idle
  /\ ret' = [kind |-> op.kind, status |-> "exception", data |-> <<>>]

SeekWithin ==
  /\ op.pc = "seek" /\ op.at <= GetSizeInternal
  /\ position' = op.at /\ positionValid' = TRUE
  /\ Goto(AfterSeek)
  /\ UNCHANGED <<backing, cached, ret, content>>

SeekInvalid ==
  /\ op.pc = "seek" /\ op.at > GetSizeInternal /\ ~Writable
  /\ positionValid' = FALSE
  /\ Goto(AfterSeek)
  /\ UNCHANGED <<backing, cached, position, ret, content>>

\* Mutation of Grow: the position is the new end at once.
GrowJumps ==
  /\ \/ op.pc = "seek" /\ Writable
     \/ op.pc = "size"
  /\ op.at > GetSizeInternal /\ op.at # U64Max
  /\ position' = op.at /\ positionValid' = TRUE
  /\ Goto("fill")
  /\ UNCHANGED <<backing, cached, ret, content>>

\* SizeInner(value) with a larger value, reached from SeekInternal or Size.
Grow ==
  /\ \/ op.pc = "seek" /\ Writable
     \/ op.pc = "size"
  /\ op.at > GetSizeInternal /\ op.at # U64Max
  /\ position' = GetSizeInternal /\ positionValid' = TRUE
  /\ Goto("fill")
  /\ UNCHANGED <<backing, cached, ret, content>>

\* Seeking to the wrapped position fills the stream with zeros up to 2^64 - 1, a
\* block at a time and whether or not the backing stream still takes them: for
\* all purposes the call does not return.
GrowEndless ==
  /\ op.pc = "seek" /\ Writable
  /\ op.at > GetSizeInternal /\ op.at = U64Max
  /\ Goto("endless")
  /\ UNCHANGED <<backing, cached, cursor, ret, content>>

SizeUnchanged ==
  /\ op.pc = "size" /\ op.at = GetSizeInternal
  /\ Goto("return")
  /\ UNCHANGED <<backing, cached, cursor, ret, content>>

Shrink ==
  /\ op.pc = "size" /\ op.at < GetSizeInternal
  /\ Goto(IF op.at = 0 THEN "rewrite" ELSE "shrink")
  /\ UNCHANGED <<backing, cached, cursor, ret, content>>

FillWithZeros ==
  /\ op.pc = "fill" /\ op.at > GetSizeInternal
  /\ op' = [op EXCEPT !.pc = "fillblock", !.zeros = MinOf(op.at - GetSizeInternal, B)]
  /\ UNCHANGED <<backing, cached, cursor, ret, content>>

\* Mutation of FillDone: every caller gets the old position back.
FillDoneGoesBack ==
  /\ op.pc = "fill" /\ op.at <= GetSizeInternal
  /\ position' = MinOf(op.origin, GetSizeInternal)
  /\ Goto(AfterSeek)
  /\ UNCHANGED <<backing, cached, positionValid, ret, content>>

FillDone ==
  /\ op.pc = "fill" /\ op.at <= GetSizeInternal
  /\ position' = IF op.kind = "Size" THEN MinOf(op.origin, GetSizeInternal) ELSE op.at
  /\ Goto(AfterSeek)
  /\ UNCHANGED <<backing, cached, positionValid, ret, content>>

\* The loop of ReadAsync or of WriteInternalAsync goes round once more.
LoopGoesOn ==
  /\ op.pc = "loop"
  /\ \/ op.kind = "Read" /\ Len(op.data) < op.n /\ position < GetSizeInternal
     \/ op.kind = "Write" /\ op.data # <<>>

LoopDone ==
  /\ op.pc = "loop" /\ ~LoopGoesOn
  /\ Goto("return")
  /\ UNCHANGED <<backing, cached, cursor, ret, content>>

\* The offset whose block a call is about to need.
NeededOffset == IF op.pc = "shrink" THEN op.at - 1 ELSE position

NeedsBlock == LoopGoesOn \/ op.pc \in {"fillblock", "shrink"}

\* Where a call goes on once UpdateBlock has returned.
AfterUpdate == IF op.zeros > 0 THEN "zero"
               ELSE IF op.kind = "Size" THEN "rewrite" ELSE "copy"

CacheIsCurrent(p) ==
  /\ cacheStart # U64Max
  /\ CalculateBlockNumber(cacheStart) = CalculateBlockNumber(p)

UpdateBlockHit ==
  /\ NeedsBlock /\ CacheIsCurrent(NeededOffset)
  /\ Goto(AfterUpdate)
  /\ UNCHANGED <<backing, cached, cursor, ret, content>>

\* The cached block is going to be replaced: a dirty one is written back first.
\* When that throws nothing has changed.
UpdateBlockMiss ==
  LET p == NeededOffset
      w == WriteBack(p)
  IN  /\ NeedsBlock /\ ~CacheIsCurrent(p)
      /\ IF w.ok
           THEN /\ file' = w.file
                /\ contentSize' = w.size
                /\ finalBlockHasBeenWritten' =
                     \/ finalBlockHasBeenWritten
                     \/ writePending /\ IsLast(cacheStart, contentSize)
                                     /\ p < cacheStart + B
                /\ writePending' = FALSE
                /\ op' = [op EXCEPT !.pc = "load", !.blk = CalculateBlockNumber(p)]
                /\ UNCHANGED ret
           ELSE Throw /\ UNCHANGED <<backing, finalBlockHasBeenWritten, writePending>>
      /\ UNCHANGED <<cacheStart, cacheSize, cache, cursor, content>>

\* The needed block is read and decrypted into the cache.  When that throws,
\* m_u64CacheStart already names the new block, while m_u64CacheSize and all of
\* the buffer that Decrypt has not overwritten still belong to the old one.
LoadBlock ==
  LET start == op.blk * B
      r     == SimpleRead(file, contentSize, start, op.blk, IsLast(start, contentSize))
  IN  /\ op.pc = "load"
      /\ cacheStart' = start
      /\ cache' = Splice(cache, 0, r.out, 0)
      /\ IF r.ok THEN cacheSize' = Len(r.out) /\ Goto(AfterUpdate) /\ UNCHANGED ret
                 ELSE Throw /\ UNCHANGED cacheSize
      /\ UNCHANGED <<backing, finalBlockHasBeenWritten, writePending, cursor, content>>

\* What ReadFromBlock copies into the caller's buffer.
BytesFromBlock ==
  IF InCache(position)
    THEN Slice(CachedBytes, position - cacheStart, op.n - Len(op.data)) ELSE <<>>

\* Mutations of ReadFromBlock: one block per call; no break when nothing comes;
\* the position moves by what was asked for.
ReadOneBlock ==
  /\ op.pc = "copy" /\ op.kind = "Read"
  /\ position' = position + Len(BytesFromBlock)
  /\ op' = [op EXCEPT !.data = op.data \o BytesFromBlock, !.pc = "return"]
  /\ UNCHANGED <<backing, cached, positionValid, ret, content>>
ReadNoBreak ==
  /\ op.pc = "copy" /\ op.kind = "Read"
  /\ position' = position + Len(BytesFromBlock)
  /\ op' = [op EXCEPT !.data = op.data \o BytesFromBlock, !.pc = "loop"]
  /\ UNCHANGED <<backing, cached, positionValid, ret, content>>
ReadMovesTooFar ==
  /\ op.pc = "copy" /\ op.kind = "Read"
  /\ position' = position + op.n - Len(op.data)
  /\ op' = [op EXCEPT !.data = op.data \o BytesFromBlock,
                      !.pc = IF BytesFromBlock = <<>> THEN "return" ELSE "loop"]
  /\ UNCHANGED <<backing, cached, positionValid, ret, content>>

ReadFromBlock ==
  /\ op.pc = "copy" /\ op.kind = "Read"
  /\ position' = position + Len(BytesFromBlock)
  /\ op' = [op EXCEPT !.data = op.data \o BytesFromBlock,
                      !.pc = IF BytesFromBlock = <<>> THEN "return" ELSE "loop"]
  /\ UNCHANGED <<backing, cached, positionValid, ret, content>>

WriteChunk ==
  LET k == Room(position, Len(op.data))
  IN  /\ op.pc = "copy" /\ op.kind = "Write"
      /\ WriteToBlock(position, op.data)
      /\ position' = position + k
      /\ op' = [op EXCEPT !.data = SubSeq(op.data, k + 1, Len(op.data)),
                          !.pc = IF k = 0 THEN "return" ELSE "loop"]
      /\ UNCHANGED <<backing, positionValid, ret, content>>

\* Mutation of ZeroChunk: the position does not follow the zeros.
ZeroChunkStays ==
  LET k == Room(position, op.zeros)
  IN  /\ op.pc = "zero"
      /\ WriteToBlock(position, Repeat(0, op.zeros))
      /\ op' = [op EXCEPT !.zeros = IF k = 0 THEN 0 ELSE op.zeros - k,
                          !.pc = IF k = 0 \/ k = op.zeros THEN "fill" ELSE "fillblock"]
      /\ UNCHANGED <<backing, cursor, ret, content>>

ZeroChunk ==
  LET k == Room(position, op.zeros)
  IN  /\ op.pc = "zero"
      /\ WriteToBlock(position, Repeat(0, op.zeros))
      /\ position' = position + k
      /\ op' = [op EXCEPT !.zeros = IF k = 0 THEN 0 ELSE op.zeros - k,
                          !.pc = IF k = 0 \/ k = op.zeros THEN "fill" ELSE "fillblock"]
      /\ UNCHANGED <<backing, positionValid, ret, content>>

\* The rest of a shrinking Size(v) once the block of offset v - 1 is cached:
\* RewriteFinalBlock writes that byte back (an uninitialised one when the cache
\* does not reach it), then SizeInternal cuts the sizes.
ByteValues == {0} \cup UNION {{d[i] : i \in DOMAIN d} : d \in Payloads}

LastByte(v) == IF v > 0 /\ InCache(v - 1) THEN {cache[v - cacheStart]} ELSE ByteValues

Rewritten(v, byte) ==
  IF v > 0 /\ InBlock(v - 1)
    THEN [cache   |-> Splice(cache, v - 1 - cacheStart, <<byte>>, 0),
          size    |-> MaxOf(cacheSize, v - cacheStart),
          pending |-> TRUE, written |-> FALSE]
    ELSE [cache   |-> cache, size |-> cacheSize, pending |-> writePending,
          written |-> v = 0 /\ finalBlockHasBeenWritten]

\* SimpleProtectedStream::Size, asked to grow while it holds its own mutex,
\* calls AppendZeros, whose Position() locks that mutex again: the call hangs.
RelockHangs ==
  /\ op.pc = "rewrite" /\ contentSize < op.at
  /\ Goto("stuck")
  /\ UNCHANGED <<backing, cached, cursor, ret, content>>

\* CachedBlock::SizeInternal throws when the cached block starts beyond v (or
\* nothing is cached); BlockBasedProtectedStream has moved its position by then.
SizeInternalThrows(v, r) ==
  /\ cacheStart > v
  /\ Throw
  /\ cacheSize' = r.size
  /\ position' = IF position <= v THEN position ELSE IF v = 0 THEN U64Max ELSE v - 1
  /\ UNCHANGED positionValid

SizeInternalCuts(v, r) ==
  LET cut == MinOf(r.size, v - cacheStart)
  IN  /\ cacheStart <= v
      /\ cacheSize' = cut
      /\ position' = MinOf(op.origin,
                           IF r.pending /\ ~r.written THEN cacheStart + cut ELSE v)
      /\ positionValid' = TRUE
      /\ Goto("return")
      /\ UNCHANGED ret

RewriteFinalBlock ==
  /\ op.pc = "rewrite" /\ contentSize >= op.at
  /\ contentSize' = op.at
  /\ \E byte \in LastByte(op.at) :
       LET r == Rewritten(op.at, byte)
       IN  /\ cache' = r.cache
           /\ writePending' = r.pending
           /\ finalBlockHasBeenWritten' = r.written
           /\ SizeInternalThrows(op.at, r) \/ SizeInternalCuts(op.at, r)
  /\ UNCHANGED <<file, cacheStart, content>>

\* Mutation of FlushWrite: the padding is forgotten.
FlushWriteNotFinal ==
  LET start == IF cacheStart = U64Max THEN 0 ELSE cacheStart
  IN  SimpleWrite(file, contentSize, CachedBytes, start,
                  CalculateBlockNumber(start), FALSE)

FlushWrite ==
  LET start == IF cacheStart = U64Max THEN 0 ELSE cacheStart
  IN  SimpleWrite(file, contentSize, CachedBytes, start,
                  CalculateBlockNumber(start), IsLast(start, contentSize))

CachedBlockFlush ==
  /\ op.pc = "flush"
  /\ IF FlushWrite.ok
       THEN /\ file' = FlushWrite.file
            /\ contentSize' = FlushWrite.size
            /\ finalBlockHasBeenWritten' =
                 \/ finalBlockHasBeenWritten
                 \/ IsLast(IF cacheStart = U64Max THEN 0 ELSE cacheStart, contentSize)
            /\ writePending' = FALSE
            /\ Goto("return")
            /\ UNCHANGED <<cacheStart, cacheSize, cache, ret>>
       ELSE Throw /\ UNCHANGED <<backing, cached>>
  /\ UNCHANGED <<cursor, content>>

\* The call returns and releases m_locker.
Return ==
  /\ op.pc = "return"
  /\ ret' = [kind |-> op.kind, status |-> "ok",
             data |-> IF op.kind = "Read" THEN op.data ELSE <<>>]
  /\ op' = Idle
  /\ UNCHANGED <<backing, cached, cursor, content>>

Step ==
  \/ SeekWithin \/ SeekInvalid \/ Grow \/ GrowEndless \/ SizeUnchanged \/ Shrink
  \/ FillWithZeros \/ FillDone \/ LoopDone
  \/ UpdateBlockHit \/ UpdateBlockMiss \/ LoadBlock
  \/ ReadFromBlock \/ WriteChunk \/ ZeroChunk
  \/ RelockHangs \/ RewriteFinalBlock
  \/ CachedBlockFlush \/ Return

Next ==
  \/ \E n \in Lengths : Read(n)
  \/ \E d \in Payloads : Write(d)
  \/ \E at \in 0..MaxSize, n \in Lengths : ReadAsyncAt(at, n)
  \/ \E at \in 0..MaxSize, d \in Payloads : WriteAsyncAt(at, d)
  \/ \E p \in 0..MaxSize : Seek(p)
  \/ \E v \in 0..MaxSize : Size(v)
  \/ Flush
  \/ Step

Spec == Init /\ [][Next]_vars

\* A call that has started is run to its end by the calling thread.
FairSpec == Spec /\ WF_vars(Step)

-----------------------------------------------------------------------------
(* Properties *)

Ops == [pc : {"idle", "seek", "size", "fill", "fillblock", "zero", "loop", "load",
              "copy", "shrink", "rewrite", "flush", "return", "stuck", "endless"},
        kind : {"None", "Read", "Write", "Seek", "Size", "Flush"},
        at : 0..MaxSize \cup {U64Max}, n : Nat, data : Seq(Int), origin : Nat, zeros : Nat, blk : Nat]

\* Type invariant: the cached block is aligned, never larger than a block, and
\* the backing stream is always a whole number of AES units.
TypeOK ==
  /\ Len(file) % A = 0
  /\ contentSize \in Nat
  /\ cacheStart = U64Max \/ (cacheStart \in Nat /\ cacheStart % B = 0)
  /\ cacheSize \in 0..B
  /\ cache \in [1..B -> Int]
  /\ finalBlockHasBeenWritten \in BOOLEAN /\ writePending \in BOOLEAN
  /\ position \in Nat /\ positionValid \in BOOLEAN
  /\ op \in Ops
  /\ ret.status \in {"ok", "invalid", "exception"}
  /\ content \in Seq(Nat)

\* A read delivers exactly the bytes the client's own earlier calls and the
\* opened file define at that offset, across block boundaries, cache refills
\* and the padding of the final block (ReadAsync, UpdateBlock, ReadFromBlock).
ReadsReturnContent ==
  op.pc = "return" /\ op.kind = "Read" => op.data = Slice(content, op.at, op.n)

\* Between calls, Size() is the number of bytes the client has put into the
\* stream, wherever they are: in the cache, in the backing stream or in both
\* (GetSizeInternal's choice between m_u64ContentSize and the cache).
SizeIsContentLength ==
  op.pc = "idle" /\ ret.status # "exception" => GetSizeInternal = Len(content)

\* When Flush returns, the backing stream decrypts, from its first byte to its
\* last, to the client's content: no block is missing, stale or unpadded.
FlushPersists ==
  op.pc = "return" /\ op.kind = "Flush" =>
    Decrypt(file, 0, TRUE) = [ok |-> TRUE, out |-> content]

\* No call ends in an exception of the cipher or of the backing stream.
NoException == ret.status # "exception"

\* A read never ends in an exception.
ReadsNeverFail == ret.kind = "Read" => ret.status # "exception"

\* A dirty block that leaves the cache can always be encrypted: it is a full
\* block, or the last one and then written with padding.  Otherwise UpdateBlock
\* would throw "Block is not aligned" and the client's bytes would be lost.
WriteBackNeverFails ==
  NeedsBlock /\ ~CacheIsCurrent(NeededOffset) => WriteBack(NeededOffset).ok

\* FillWithZeros writes at PositionInner(); the SeekInternal inside that write
\* must not find the position beyond the end, or growing would re-enter itself.
FillNeverNests == op.pc = "fill" => position <= GetSizeInternal

\* Blocks reach the backing stream in order: no write starts beyond its end (a
\* std::stringstream would drop the seek and put the block somewhere else).
BackingHasNoHole == \A i \in DOMAIN file : file[i] # Hole

\* Whatever was called before, and whatever failed, the loops of ReadAsync,
\* WriteInternalAsync and FillWithZeros end; only the relocked mutex hangs, and
\* only a position that Size(0) has wrapped around makes the fill run on.
LoopsEnd == (op.pc # "idle") ~> (op.pc \in {"idle", "stuck", "endless"})

\* Size(v) waits for its own mutex only when it cuts into bytes that a write has
\* left in the cache; on a stream that has been flushed it always gets through,
\* whatever was called before (SimpleProtectedStream::Size, AppendZeros).
SizeHangsOnlyDirty ==
  op.pc = "stuck" => /\ writePending /\ ~finalBlockHasBeenWritten
                     /\ contentSize < op.at /\ op.at < GetSizeInternal

\* Every call returns (or throws): the loops of ReadAsync, WriteInternalAsync
\* and FillWithZeros make progress in every round.
CallsReturn == (op.pc # "idle") ~> (op.pc = "idle")

\* The stream implements a plain byte stream.
BS == INSTANCE ByteStream WITH
        InitialTexts <- (IF "fresh" \in Starts THEN {<<>>} ELSE {})
                        \cup (IF "opened" \in Starts THEN InitialTexts ELSE {}),
        position     <- IF op.pc = "idle" THEN position ELSE op.origin,
        call         <- [kind |-> op.kind, at |-> op.at, n |-> op.n],
        result       <- ret
ImplementsByteStream == BS!Spec
=============================================================================
