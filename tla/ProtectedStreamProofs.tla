----------------------- MODULE ProtectedStreamProofs -----------------------
(***************************************************************************)
(* What holds of every use of a protected stream, in any order of calls    *)
(* and after any exception, for any sizes of units and blocks, texts,      *)
(* payloads and offsets.                                                   *)
(*                                                                         *)
(* No property here is inductive.  That the fill does not nest is about    *)
(* the position and the size; the size is computed from the cached block   *)
(* and the backing stream (StreamSize), so the invariant says that the     *)
(* block starts at a boundary within the backing stream (CacheRight), that *)
(* a call that is about to write stands within the stream (PositionRight), *)
(* and what a call in progress has established (CallRight).  BackingRight  *)
(* is about the bytes: Encrypt returns cipher bytes, and every write starts*)
(* within the backing stream or at its end, so no hole appears.            *)
(*                                                                         *)
(* That a dirty block can always be written back needs more: the cipher    *)
(* takes a short block only as the final one, so a cached block that is    *)
(* not the last must be full (FullBlocks), also when the final block has   *)
(* been written behind it (WrittenFull).  A load that fails because the    *)
(* backing stream cannot be read leaves the new start with the old size    *)
(* and breaks this; the theorem is about streams that can be read.         *)
(***************************************************************************)
EXTENDS ProtectedStream, CbcCipherProofs

-----------------------------------------------------------------------------
(* The inductive invariant *)

\* What GetSizeInternal computes while the cached block is aligned.
StreamSize ==
  IF writePending /\ ~finalBlockHasBeenWritten THEN cacheStart + cacheSize ELSE contentSize

\* The backing stream holds cipher bytes only, and all of the content.
BackingRight == file \in Seq(CipherBytes) /\ contentSize <= Len(file)

\* The cached block starts at a block boundary within the backing stream.
Aligned == cacheStart \in Nat /\ cacheStart % B = 0 /\ cacheStart <= Len(file)

CacheRight ==
  /\ cacheStart = U64Max \/ Aligned
  /\ writePending => Aligned /\ Writable
  /\ op.pc \in {"copy", "zero"} \/ (op.pc = "rewrite" /\ op.at > 0) => Aligned

\* A call that writes never finds the position beyond the end of the stream.
PositionRight ==
  \/ op.pc \in {"fill", "fillblock", "zero", "copy"}
  \/ op.pc = "loop" /\ op.kind = "Write"
  \/ op.pc = "load" /\ AfterUpdate # "rewrite"
  => position <= StreamSize

CallRight ==
  /\ op.pc = "load" => ~writePending /\ op.blk * B <= contentSize
  /\ op.pc = "shrink" => op.at > 0 /\ op.at <= StreamSize
  /\ op.pc \in {"size", "shrink"} => op.kind = "Size" /\ op.zeros = 0
  /\ op.pc = "zero" => op.zeros > 0
  /\ \/ op.pc \in {"fill", "fillblock", "zero", "size", "shrink", "rewrite"}
     \/ op.kind \in {"Write", "Size"}
     \/ op.zeros > 0
     => Writable

StreamInv == TypeOK /\ BackingRight /\ CacheRight /\ PositionRight /\ CallRight

USE StreamConstants, CipherSizes DEF A, B

-----------------------------------------------------------------------------
(* Block numbers and sizes *)

LEMMA MultipleOf ==
  ASSUME NEW n \in Nat, n % B = 0
  PROVE  (n \div B) * B = n
<1>1. n \div B \in Nat /\ n = B * (n \div B) + (n % B)
  BY DivMod
<1> QED BY <1>1

LEMMA BlockNumber ==
  ASSUME TypeOK, NEW p \in Nat
  PROVE  CalculateBlockNumber(p) \in Nat /\ CalculateBlockNumber(p) * B <= p
<1>1. PICK n \in Nat : n = p \div B /\ n * B <= p
  <2>1. p \div B \in Nat /\ p % B \in 0..(B - 1) /\ p = B * (p \div B) + (p % B)
    BY DivMod
  <2> QED BY <2>1
<1>2. CalculateBlockNumber(p) = n \/ (n > 0 /\ CalculateBlockNumber(p) = n - 1)
  BY <1>1 DEF CalculateBlockNumber
<1>3. CASE CalculateBlockNumber(p) = n
  BY <1>1, <1>3
<1>4. CASE n > 0 /\ CalculateBlockNumber(p) = n - 1
  <2>1. (n - 1) * B <= n * B
    BY <1>4
  <2> QED BY <1>1, <1>4, <2>1
<1> QED BY <1>2, <1>3, <1>4

\* GetSizeInternal, without the detour over block numbers.
LEMMA SizeValue ==
  ASSUME TypeOK, CacheRight
  PROVE  GetSizeInternal = StreamSize /\ StreamSize \in Nat
<1>1. CASE writePending /\ ~finalBlockHasBeenWritten
  <2>1. cacheStart \in Nat /\ cacheStart % B = 0
    BY <1>1 DEF CacheRight, Aligned
  <2>2. CalculateBlockNumber(cacheStart) = cacheStart \div B
    BY <1>1 DEF CalculateBlockNumber
  <2>3. CalculateBlockNumber(cacheStart) * B = cacheStart
    BY <2>1, <2>2, MultipleOf
  <2> QED BY <1>1, <2>1, <2>3 DEF GetSizeInternal, StreamSize, TypeOK
<1>2. CASE ~(writePending /\ ~finalBlockHasBeenWritten)
  BY <1>2 DEF GetSizeInternal, StreamSize, TypeOK
<1> QED BY <1>1, <1>2

\* The offset whose block is needed is never beyond the end.
LEMMA NeededWithin ==
  ASSUME StreamInv, NeedsBlock
  PROVE  NeededOffset \in Nat /\ NeededOffset <= StreamSize
<1>1. GetSizeInternal = StreamSize /\ StreamSize \in Nat
  BY SizeValue DEF StreamInv
<1>2. position \in Nat /\ op \in Ops
  BY DEF StreamInv, TypeOK
<1>3. CASE op.pc = "shrink"
  <2>1. op.at \in Nat
    BY <1>2 DEF Ops
  <2> QED BY <1>1, <1>3, <2>1 DEF StreamInv, CallRight, NeededOffset
<1>4. CASE op.pc = "fillblock"
  BY <1>1, <1>2, <1>4 DEF StreamInv, PositionRight, NeededOffset
<1>5. CASE LoopGoesOn
  BY <1>1, <1>2, <1>5 DEF StreamInv, PositionRight, NeededOffset, LoopGoesOn
<1> QED BY <1>3, <1>4, <1>5 DEF NeedsBlock

\* A step that touches neither the backing stream nor the cache.
LEMMA CallOnly ==
  ASSUME StreamInv, UNCHANGED <<backing, cached>>,
         op' \in Ops, position' \in Nat, positionValid' \in BOOLEAN,
         ret'.status \in {"ok", "invalid", "exception"}, content' \in Seq(Nat),
         op'.pc \in {"copy", "zero"} \/ (op'.pc = "rewrite" /\ op'.at > 0) => Aligned,
         PositionRight', CallRight'
  PROVE  StreamInv'
  BY DEF StreamInv, TypeOK, BackingRight, CacheRight, Aligned, backing, cached

\* The fields of the call in progress.
LEMMA OpFields ==
  ASSUME TypeOK
  PROVE  /\ op.at \in Nat /\ op.n \in Nat /\ op.data \in Seq(Int)
         /\ op.origin \in Nat /\ op.zeros \in Nat /\ op.blk \in Nat
         /\ Idle \in Ops
  BY DEF TypeOK, Ops, Idle

\* Goto changes where the call is, and nothing else of it.
LEMMA GotoFields ==
  ASSUME TypeOK, NEW pc \in {"seek", "size", "fill", "fillblock", "zero", "loop", "load",
                             "copy", "shrink", "rewrite", "flush", "return", "stuck", "endless"},
         Goto(pc)
  PROVE  /\ op' \in Ops /\ op'.pc = pc /\ op'.kind = op.kind /\ op'.at = op.at
         /\ op'.zeros = op.zeros /\ op'.blk = op.blk /\ op'.data = op.data
         /\ op'.n = op.n /\ op'.origin = op.origin
  BY DEF Goto, TypeOK, Ops

-----------------------------------------------------------------------------
(* The client's calls *)

LEMMA StartInv ==
  ASSUME StreamInv,
         NEW kind \in {"Read", "Write", "Seek", "Size", "Flush"},
         NEW pc \in {"seek", "size", "flush"},
         NEW at \in 0..MaxSize \cup {U64Max}, NEW n \in Nat, NEW data \in Seq(Int),
         Start(kind, pc, at, n, data), content' \in Seq(Nat),
         pc = "size" <=> kind = "Size", kind \in {"Write", "Size"} => Writable
  PROVE  StreamInv'
<1>1. position \in Nat /\ positionValid \in BOOLEAN
      /\ ret.status \in {"ok", "invalid", "exception"}
  BY DEF StreamInv, TypeOK
<1>2. /\ op' \in Ops /\ op'.pc = pc /\ op'.kind = kind /\ op'.zeros = 0
  BY <1>1 DEF Start, Ops
<1>3. UNCHANGED <<backing, cached, position, positionValid, ret>>
  BY DEF Start, cursor
<1>4. PositionRight'
  BY <1>2 DEF PositionRight
<1>5. CallRight'
  BY <1>2 DEF CallRight
<1> QED BY <1>1, <1>2, <1>3, <1>4, <1>5, CallOnly

LEMMA RefuseInv ==
  ASSUME StreamInv, Refuse
  PROVE  StreamInv'
  BY DEF Refuse, StreamInv, TypeOK, BackingRight, CacheRight, Aligned, PositionRight,
         CallRight, StreamSize, AfterUpdate, backing, cached, cursor

LEMMA ReadAsyncInv ==
  ASSUME StreamInv, NEW at \in Nat, NEW n \in Lengths, ReadAsync(at, n)
  PROVE  StreamInv'
<1>1. content \in Seq(Nat) /\ at \in 0..MaxSize \cup {U64Max} /\ n \in Nat /\ <<>> \in Seq(Int)
  BY DEF StreamInv, TypeOK, ReadAsync, Offset
<1>2. CASE Readable /\ positionValid
  BY <1>1, <1>2, StartInv DEF ReadAsync
<1>3. CASE ~(Readable /\ positionValid)
  BY <1>3, RefuseInv DEF ReadAsync
<1> QED BY <1>2, <1>3

LEMMA WriteAsyncInv ==
  ASSUME StreamInv, NEW at \in Nat, NEW d \in Payloads, WriteAsync(at, d)
  PROVE  StreamInv'
<1>1. content \in Seq(Nat) /\ d \in Seq(Nat) /\ d \in Seq(Int) /\ Len(d) \in Nat
  BY DEF StreamInv, TypeOK
<1>2. at \in 0..MaxSize \cup {U64Max}
  BY <1>1 DEF WriteAsync
<1>3. CASE Writable
  <2>1. content' \in Seq(Nat)
    BY <1>1, <1>3, SpliceType DEF WriteAsync
  <2> QED BY <1>1, <1>2, <1>3, <2>1, StartInv DEF WriteAsync
<1>4. CASE ~Writable
  BY <1>4, RefuseInv DEF WriteAsync
<1> QED BY <1>3, <1>4

LEMMA SeekInv ==
  ASSUME StreamInv, NEW p \in 0..MaxSize, Seek(p)
  PROVE  StreamInv'
<1>1. content \in Seq(Nat) /\ <<>> \in Seq(Int)
  BY DEF StreamInv, TypeOK
<1>2. content' \in Seq(Nat)
  BY <1>1, ResizeType DEF Seek
<1>3. PICK n \in Nat : n = 0 /\ Start("Seek", "seek", p, n, <<>>)
  BY DEF Seek
<1> QED BY <1>1, <1>2, <1>3, StartInv

LEMMA SizeInv ==
  ASSUME StreamInv, NEW v \in 0..MaxSize, Size(v)
  PROVE  StreamInv'
<1>1. content \in Seq(Nat) /\ <<>> \in Seq(Int)
  BY DEF StreamInv, TypeOK
<1>2. CASE Writable
  <2>1. content' \in Seq(Nat)
    BY <1>1, <1>2, ResizeType DEF Size
  <2>2. PICK n \in Nat : n = 0 /\ Start("Size", "size", v, n, <<>>)
    BY <1>2 DEF Size
  <2> QED BY <1>1, <1>2, <2>1, <2>2, StartInv
<1>3. CASE ~Writable
  BY <1>3, RefuseInv DEF Size
<1> QED BY <1>2, <1>3

LEMMA FlushInv ==
  ASSUME StreamInv, Flush
  PROVE  StreamInv'
<1>1. content' \in Seq(Nat) /\ <<>> \in Seq(Int) /\ 0 \in 0..MaxSize
  BY DEF StreamInv, TypeOK, Flush
<1>2. PICK n \in Nat, at \in 0..MaxSize : n = 0 /\ at = 0 /\ Start("Flush", "flush", at, n, <<>>)
  BY <1>1 DEF Flush
<1> QED BY <1>1, <1>2, StartInv

-----------------------------------------------------------------------------
(* The steps that leave the backing stream and the cache alone *)

\* The facts every one of them starts from.
LEMMA StepFacts ==
  ASSUME StreamInv
  PROVE  /\ TypeOK /\ PositionRight /\ CallRight
         /\ GetSizeInternal = StreamSize /\ StreamSize \in Nat
         /\ op \in Ops /\ op.at \in Nat /\ op.zeros \in Nat /\ op.origin \in Nat
         /\ position \in Nat /\ positionValid \in BOOLEAN
         /\ ret.status \in {"ok", "invalid", "exception"} /\ content \in Seq(Nat)
  BY SizeValue, OpFields DEF StreamInv, TypeOK

\* What the size depends on is left alone.
LEMMA SameSize ==
  ASSUME UNCHANGED <<backing, cached>>
  PROVE  /\ StreamSize' = StreamSize /\ writePending' = writePending
         /\ contentSize' = contentSize
  BY DEF StreamSize, backing, cached

LEMMA SeekWithinInv ==
  ASSUME StreamInv, SeekWithin
  PROVE  StreamInv'
<1>1. op.pc = "seek" /\ op.at <= StreamSize /\ position' = op.at /\ positionValid' = TRUE
      /\ UNCHANGED <<backing, cached, ret, content>> /\ Goto(AfterSeek)
  BY StepFacts DEF SeekWithin
<1>2. AfterSeek \in {"loop", "return"}
  BY DEF AfterSeek
<1>3. /\ op' \in Ops /\ op'.pc = AfterSeek /\ op'.kind = op.kind /\ op'.zeros = op.zeros
  BY <1>1, <1>2, GotoFields, StepFacts
<1>4. PositionRight'
  BY <1>1, <1>2, <1>3, SameSize DEF PositionRight
<1>5. CallRight'
  BY <1>1, <1>2, <1>3, StepFacts DEF CallRight
<1> QED BY <1>1, <1>2, <1>3, <1>4, <1>5, StepFacts, CallOnly

LEMMA SeekInvalidInv ==
  ASSUME StreamInv, SeekInvalid
  PROVE  StreamInv'
<1>1. op.pc = "seek" /\ ~Writable /\ position' = position /\ positionValid' = FALSE
      /\ UNCHANGED <<backing, cached, ret, content>> /\ Goto(AfterSeek)
  BY DEF SeekInvalid
<1>2. AfterSeek \in {"loop", "return"} /\ op.kind # "Write"
  BY <1>1, StepFacts DEF AfterSeek, CallRight
<1>3. /\ op' \in Ops /\ op'.pc = AfterSeek /\ op'.kind = op.kind /\ op'.zeros = op.zeros
  BY <1>1, <1>2, GotoFields, StepFacts
<1>4. PositionRight'
  BY <1>1, <1>2, <1>3 DEF PositionRight
<1>5. CallRight'
  BY <1>1, <1>2, <1>3, StepFacts DEF CallRight
<1> QED BY <1>1, <1>2, <1>3, <1>4, <1>5, StepFacts, CallOnly

LEMMA GrowInv ==
  ASSUME StreamInv, Grow
  PROVE  StreamInv'
<1>1. position' = StreamSize /\ positionValid' = TRUE
      /\ UNCHANGED <<backing, cached, ret, content>> /\ Goto("fill")
  BY StepFacts DEF Grow
<1>2. Writable
  BY StepFacts DEF Grow, CallRight
<1>3. /\ op' \in Ops /\ op'.pc = "fill" /\ op'.kind = op.kind /\ op'.zeros = op.zeros
  BY <1>1, GotoFields, StepFacts
<1>4. PositionRight'
  BY <1>1, <1>3, SameSize, StepFacts DEF PositionRight
<1>5. CallRight'
  BY <1>2, <1>3 DEF CallRight
<1> QED BY <1>1, <1>3, <1>4, <1>5, StepFacts, CallOnly

\* A step that only moves the call to a place without a promise of its own.
LEMMA MoveInv ==
  ASSUME StreamInv, NEW pc \in {"return", "rewrite", "stuck", "endless"}, Goto(pc),
         pc = "rewrite" => Writable /\ op.at = 0,
         UNCHANGED <<backing, cached, cursor, ret, content>>
  PROVE  StreamInv'
<1>1. /\ op' \in Ops /\ op'.pc = pc /\ op'.kind = op.kind /\ op'.zeros = op.zeros
      /\ op'.at = op.at
  BY GotoFields, StepFacts
<1>2. PositionRight'
  BY <1>1 DEF PositionRight
<1>3. CallRight'
  BY <1>1, StepFacts DEF CallRight
<1> QED BY <1>1, <1>2, <1>3, StepFacts, CallOnly DEF cursor

LEMMA ShrinkInv ==
  ASSUME StreamInv, Shrink
  PROVE  StreamInv'
<1>1. CASE op.at = 0
  BY <1>1, MoveInv, StepFacts DEF Shrink, CallRight
<1>2. CASE op.at # 0
  <2>1. /\ op.pc = "size" /\ op.at > 0 /\ op.at <= StreamSize /\ Goto("shrink")
        /\ UNCHANGED <<backing, cached, cursor, ret, content>>
    BY <1>2, StepFacts DEF Shrink
  <2>2. /\ op' \in Ops /\ op'.pc = "shrink" /\ op'.kind = op.kind /\ op'.at = op.at
        /\ op'.zeros = op.zeros
    BY <2>1, GotoFields, StepFacts
  <2>3. PositionRight'
    BY <2>2 DEF PositionRight
  <2>4. CallRight'
    BY <2>1, <2>2, StepFacts, SameSize DEF CallRight
  <2> QED BY <2>1, <2>2, <2>3, <2>4, StepFacts, CallOnly DEF cursor
<1> QED BY <1>1, <1>2

LEMMA FillWithZerosInv ==
  ASSUME StreamInv, FillWithZeros
  PROVE  StreamInv'
<1>1. PICK z \in Nat : z = MinOf(op.at - StreamSize, B) /\ z > 0
  BY StepFacts DEF FillWithZeros, MinOf
<1>2. /\ op.pc = "fill" /\ op' = [op EXCEPT !.pc = "fillblock", !.zeros = z]
      /\ UNCHANGED <<backing, cached, cursor, ret, content>>
  BY <1>1, StepFacts DEF FillWithZeros
<1>3. /\ op' \in Ops /\ op'.pc = "fillblock" /\ op'.kind = op.kind /\ op'.zeros = z
  BY <1>2, StepFacts DEF Ops
<1>4. PositionRight'
  BY <1>2, <1>3, StepFacts, SameSize DEF PositionRight, cursor
<1>5. CallRight'
  BY <1>2, <1>3, StepFacts DEF CallRight
<1> QED BY <1>2, <1>3, <1>4, <1>5, StepFacts, CallOnly DEF cursor

LEMMA FillDoneInv ==
  ASSUME StreamInv, FillDone
  PROVE  StreamInv'
<1>1. /\ op.pc = "fill" /\ op.at <= StreamSize /\ Goto(AfterSeek)
      /\ position' = IF op.kind = "Size" THEN MinOf(op.origin, StreamSize) ELSE op.at
      /\ UNCHANGED <<backing, cached, positionValid, ret, content>>
  BY StepFacts DEF FillDone
<1>2. AfterSeek \in {"loop", "return"} /\ position' \in Nat
  BY <1>1, StepFacts DEF AfterSeek, MinOf
<1>3. /\ op' \in Ops /\ op'.pc = AfterSeek /\ op'.kind = op.kind /\ op'.zeros = op.zeros
  BY <1>1, <1>2, GotoFields, StepFacts
<1>4. PositionRight'
  BY <1>1, <1>2, <1>3, SameSize DEF PositionRight
<1>5. CallRight'
  BY <1>1, <1>2, <1>3, StepFacts DEF CallRight
<1> QED BY <1>1, <1>2, <1>3, <1>4, <1>5, StepFacts, CallOnly

LEMMA UpdateBlockHitInv ==
  ASSUME StreamInv, UpdateBlockHit
  PROVE  StreamInv'
<1>1. /\ NeedsBlock /\ cacheStart # U64Max /\ Goto(AfterUpdate)
      /\ UNCHANGED <<backing, cached, cursor, ret, content>>
  BY DEF UpdateBlockHit, CacheIsCurrent
<1>2. Aligned
  BY <1>1 DEF StreamInv, CacheRight
<1>3. AfterUpdate \in {"zero", "rewrite", "copy"}
  BY DEF AfterUpdate
<1>4. /\ op' \in Ops /\ op'.pc = AfterUpdate /\ op'.kind = op.kind /\ op'.zeros = op.zeros
  BY <1>1, <1>3, GotoFields, StepFacts
<1>5. PositionRight'
  <2>1. CASE op.pc = "shrink"
    BY <1>4, <2>1, StepFacts DEF PositionRight, CallRight, AfterUpdate
  <2>2. CASE op.pc # "shrink"
    BY <1>1, <1>3, <1>4, <2>2, NeededWithin, SameSize DEF PositionRight, NeededOffset, cursor
  <2> QED BY <2>1, <2>2
<1>6. CallRight'
  BY <1>1, <1>4, StepFacts DEF CallRight, AfterUpdate
<1> QED BY <1>1, <1>2, <1>4, <1>5, <1>6, StepFacts, CallOnly DEF cursor

LEMMA CachedBytesType ==
  ASSUME TypeOK
  PROVE  /\ CachedBytes \in Seq(Int) /\ Len(CachedBytes) = cacheSize
         /\ cache \in Seq(Int) /\ Len(cache) = B
<1>1. cacheSize \in 0..B /\ cache \in Seq(Int) /\ Len(cache) = B
  BY DEF TypeOK
<1>2. PICK c \in Seq(Int), n \in 0..B : c = cache /\ n = cacheSize /\ Len(c) = B
  BY <1>1
<1>3. SubSeq(c, 1, n) \in Seq(Int) /\ Len(SubSeq(c, 1, n)) = n
  BY <1>2
<1> QED BY <1>1, <1>2, <1>3 DEF CachedBytes

\* What ReadFromBlock copies are bytes of the cached block.
LEMMA BytesFromBlockType ==
  ASSUME TypeOK, CacheRight, op.pc = "copy"
  PROVE  BytesFromBlock \in Seq(Int)
<1>1. CASE ~InCache(position)
  BY <1>1 DEF BytesFromBlock
<1>2. CASE InCache(position)
  <2>1. cacheStart \in Nat /\ position \in Nat
    BY DEF TypeOK, CacheRight, Aligned
  <2>2. PICK c \in Seq(Int) : c = CachedBytes
    BY CachedBytesType
  <2>3. PICK off \in Nat, m \in Int : off = position - cacheStart /\ m = op.n - Len(op.data)
    <3>1. position - cacheStart \in Nat
      BY <1>2, <2>1 DEF InCache
    <3>2. op.n - Len(op.data) \in Int
      BY OpFields
    <3> QED BY <3>1, <3>2
  <2>4. Slice(c, off, m) \in Seq(Int)
    BY DEF Slice, MinOf
  <2> QED BY <1>2, <2>2, <2>3, <2>4 DEF BytesFromBlock
<1> QED BY <1>1, <1>2

LEMMA ReadFromBlockInv ==
  ASSUME StreamInv, ReadFromBlock
  PROVE  StreamInv'
<1>1. PICK d \in Seq(Int) : d = BytesFromBlock
  BY BytesFromBlockType, StepFacts DEF StreamInv, ReadFromBlock
<1>2. PICK e \in Seq(Int) : e = op.data \o d
  <2>1. PICK a \in Seq(Int) : a = op.data
    BY OpFields, StepFacts
  <2>2. a \o d \in Seq(Int)
    OBVIOUS
  <2> QED BY <2>1, <2>2
<1>3. PICK pc \in {"return", "loop"} : pc = IF BytesFromBlock = <<>> THEN "return" ELSE "loop"
  OBVIOUS
<1>4. /\ op.kind = "Read" /\ position' = position + Len(d)
      /\ op' = [op EXCEPT !.data = e, !.pc = pc]
      /\ UNCHANGED <<backing, cached, positionValid, ret, content>>
  BY <1>1, <1>2, <1>3 DEF ReadFromBlock
<1>5. /\ op' \in Ops /\ op'.pc = pc /\ op'.kind = "Read" /\ op'.zeros = op.zeros
  BY <1>4, StepFacts DEF Ops
<1>6. PositionRight'
  BY <1>5 DEF PositionRight
<1>7. CallRight'
  BY <1>5, StepFacts DEF CallRight
<1>8. position' \in Nat
  BY <1>4, StepFacts
<1> QED BY <1>4, <1>5, <1>6, <1>7, <1>8, StepFacts, CallOnly

LEMMA ReturnInv ==
  ASSUME StreamInv, Return
  PROVE  StreamInv'
<1>1. /\ op' = Idle /\ ret'.status = "ok" /\ UNCHANGED <<backing, cached, cursor, content>>
  BY DEF Return
<1>2. op' \in Ops /\ op'.pc = "idle" /\ op'.kind = "None" /\ op'.zeros = 0
  BY <1>1, OpFields, StepFacts DEF Idle
<1>3. PositionRight' /\ CallRight'
  BY <1>2 DEF PositionRight, CallRight
<1> QED BY <1>1, <1>2, <1>3, StepFacts, CallOnly DEF cursor

-----------------------------------------------------------------------------
(* The steps that write the backing stream *)

\* Cipher bytes in whole AES units.
WholeUnits(f) == f \in Seq(CipherBytes) /\ Len(f) % A = 0

\* A block written at a block boundary within the backing stream leaves no hole.
LEMMA SimpleWriteFacts ==
  ASSUME BackingRight, Len(file) % A = 0, contentSize \in Nat,
         NEW bytes \in Seq(Int), NEW off \in Nat, off % B = 0, off <= Len(file),
         NEW blk \in Nat, NEW isFinal \in BOOLEAN,
         NEW w, w = SimpleWrite(file, contentSize, bytes, off, blk, isFinal)
  PROVE  /\ w.ok \in BOOLEAN
         /\ WholeUnits(w.file)
         /\ Len(w.file) >= Len(file)
         /\ w.size \in Nat /\ w.size <= Len(w.file)
         /\ w.ok => w.size = MaxOf(contentSize, off + Len(bytes))
         /\ ~w.ok => w.file = file /\ w.size = contentSize
         /\ Writable /\ (isFinal \/ Len(bytes) % B = 0) => w.ok
<1>1. PICK e : e = Encrypt(bytes, blk, isFinal)
  OBVIOUS
<1>2. /\ isFinal \/ Len(bytes) % B = 0 => e.ok
      /\ ~isFinal /\ Len(bytes) % B # 0 => ~e.ok
      /\ e.out \in Seq(CipherBytes) /\ Len(e.out) % A = 0
      /\ e.ok => Len(bytes) <= Len(e.out)
  BY <1>1, EncryptType
<1>3. PICK f \in Seq(CipherBytes), l \in Nat, n \in Nat, m \in Nat :
        f = file /\ l = Len(f) /\ n = Len(e.out) /\ m = Len(bytes)
  BY <1>2 DEF BackingRight
<1>4. CASE e.ok /\ Writable
  <2>1. w = [ok |-> TRUE, file |-> Splice(f, off, e.out, Hole),
             size |-> MaxOf(contentSize, off + m)]
    BY <1>1, <1>3, <1>4 DEF SimpleWrite
  <2>2. /\ Splice(f, off, e.out, Hole) \in Seq(CipherBytes)
        /\ Len(Splice(f, off, e.out, Hole)) = MaxOf(l, off + n)
    BY <1>2, <1>3, SpliceWithin
  <2>3. MaxOf(l, off + n) % A = 0
    <3>1. off % A = 0
      BY ModTrans
    <3>2. (off + n) % A = 0 /\ l % A = 0
      BY <1>2, <1>3, <3>1, ModSum
    <3> QED BY <3>2 DEF MaxOf
  <2>4. contentSize <= l /\ m <= n
    BY <1>2, <1>3, <1>4 DEF BackingRight
  <2>5. PICK x \in Nat, y \in Nat : x = MaxOf(l, off + n) /\ y = MaxOf(contentSize, off + m)
    BY DEF MaxOf
  <2>6. y <= x /\ l <= x
    BY <2>4, <2>5 DEF MaxOf
  <2>7. w.ok = TRUE /\ w.file = Splice(f, off, e.out, Hole) /\ w.size = y
    BY <2>1, <2>5
  <2>8. w.file \in Seq(CipherBytes) /\ Len(w.file) = x
    BY <2>2, <2>5, <2>7
  <2> QED BY <1>3, <2>3, <2>5, <2>6, <2>7, <2>8 DEF WholeUnits
<1>5. CASE ~(e.ok /\ Writable)
  <2>1. w = [ok |-> FALSE, file |-> file, size |-> contentSize]
    BY <1>1, <1>5 DEF SimpleWrite
  <2> QED BY <1>2, <1>5, <2>1 DEF BackingRight, WholeUnits
<1> QED BY <1>4, <1>5

\* The cached bytes written at a block boundary within the backing stream.
LEMMA CachedWriteFacts ==
  ASSUME StreamInv, NEW off \in Nat, off % B = 0, off <= Len(file), NEW isFinal \in BOOLEAN
  PROVE  \E w :
         /\ w = SimpleWrite(file, contentSize, CachedBytes, off,
                            CalculateBlockNumber(off), isFinal)
         /\ w.ok \in BOOLEAN
         /\ WholeUnits(w.file)
         /\ Len(w.file) >= Len(file)
         /\ w.size \in Nat /\ w.size <= Len(w.file)
         /\ w.ok => w.size = MaxOf(contentSize, off + cacheSize)
         /\ Writable /\ (isFinal \/ cacheSize % B = 0) => w.ok
<1>1. /\ TypeOK /\ BackingRight /\ Len(file) % A = 0 /\ contentSize \in Nat
  BY DEF StreamInv, TypeOK
<1>2. PICK blk \in Nat : blk = CalculateBlockNumber(off)
  BY <1>1, BlockNumber
<1>3. PICK c \in Seq(Int) : c = CachedBytes /\ Len(c) = cacheSize
  BY <1>1, CachedBytesType
<1>4. PICK w : w = SimpleWrite(file, contentSize, c, off, blk, isFinal)
  OBVIOUS
<1>5. /\ w.ok \in BOOLEAN
      /\ WholeUnits(w.file)
      /\ Len(w.file) >= Len(file)
      /\ w.size \in Nat /\ w.size <= Len(w.file)
      /\ w.ok => w.size = MaxOf(contentSize, off + Len(c))
      /\ Writable /\ (isFinal \/ Len(c) % B = 0) => w.ok
  <2>1. BackingRight /\ Len(file) % A = 0 /\ contentSize \in Nat
    BY <1>1
  <2>2. w.ok \in BOOLEAN
    BY <2>1, <1>4, SimpleWriteFacts
  <2>3. WholeUnits(w.file)
    BY <2>1, <1>4, SimpleWriteFacts
  <2>4. Len(w.file) >= Len(file)
    BY <2>1, <1>4, SimpleWriteFacts
  <2>5. w.size \in Nat /\ w.size <= Len(w.file)
    BY <2>1, <1>4, SimpleWriteFacts
  <2>6. w.ok => w.size = MaxOf(contentSize, off + Len(c))
    BY <2>1, <1>4, SimpleWriteFacts, ZenonT(60)
  <2>7. Writable /\ (isFinal \/ Len(c) % B = 0) => w.ok
    BY <2>1, <1>4, SimpleWriteFacts
  <2> QED BY <2>2, <2>3, <2>4, <2>5, <2>6, <2>7
<1>6. w = SimpleWrite(file, contentSize, CachedBytes, off, CalculateBlockNumber(off), isFinal)
  BY <1>2, <1>3, <1>4
<1> WITNESS w
<1> QED BY <1>3, <1>5, <1>6

\* UpdateBlock's write of the dirty block.
LEMMA WriteBackFacts ==
  ASSUME StreamInv, NEW p \in Nat
  PROVE  \E w :
         /\ w = WriteBack(p) /\ w.ok \in BOOLEAN
         /\ WholeUnits(w.file)
         /\ Len(w.file) >= Len(file)
         /\ w.size \in Nat /\ w.size <= Len(w.file)
         /\ w.ok => w.size = IF writePending THEN MaxOf(contentSize, cacheStart + cacheSize)
                             ELSE contentSize
         /\ w.ok => StreamSize <= w.size
         /\ ~writePending => w.ok
         /\ writePending /\ (\/ IsLast(cacheStart, contentSize) /\ p < cacheStart + B
                             \/ cacheSize % B = 0) => w.ok
<1>1. /\ TypeOK /\ BackingRight /\ Len(file) % A = 0 /\ contentSize \in Nat /\ cacheSize \in Nat
  BY DEF StreamInv, TypeOK
<1>2. CASE writePending
  <2>1. cacheStart \in Nat /\ cacheStart % B = 0 /\ cacheStart <= Len(file) /\ Writable
    BY <1>2 DEF StreamInv, CacheRight, Aligned
  <2>2. PICK isFinal \in BOOLEAN :
          isFinal = (IsLast(cacheStart, contentSize) /\ p < cacheStart + B)
    OBVIOUS
  <2>3. PICK off \in Nat : off = cacheStart
    BY <2>1
  <2>4. off % B = 0 /\ off <= Len(file)
    BY <2>1, <2>3
  <2>5. PICK x :
        /\ x = SimpleWrite(file, contentSize, CachedBytes, off,
                           CalculateBlockNumber(off), isFinal)
        /\ x.ok \in BOOLEAN
        /\ WholeUnits(x.file)
        /\ Len(x.file) >= Len(file)
        /\ x.size \in Nat /\ x.size <= Len(x.file)
        /\ x.ok => x.size = MaxOf(contentSize, off + cacheSize)
        /\ Writable /\ (isFinal \/ cacheSize % B = 0) => x.ok
    BY <2>4, CachedWriteFacts
  <2>6. x = WriteBack(p)
    BY <1>2, <2>2, <2>3, <2>5 DEF WriteBack
  <2>7. StreamSize <= MaxOf(contentSize, cacheStart + cacheSize)
    BY <1>1, <2>1 DEF StreamSize, MaxOf
  <2> WITNESS x
  <2> QED BY <1>2, <2>1, <2>2, <2>3, <2>5, <2>6, <2>7
<1>3. CASE ~writePending
  <2>1. PICK x : x = [ok |-> TRUE, file |-> file, size |-> contentSize]
    OBVIOUS
  <2>2. x = WriteBack(p)
    BY <1>3, <2>1 DEF WriteBack
  <2>3. StreamSize = contentSize
    BY <1>3 DEF StreamSize
  <2> WITNESS x
  <2> QED BY <1>1, <1>3, <2>1, <2>2, <2>3 DEF BackingRight, WholeUnits
<1> QED BY <1>1, <1>2, <1>3 DEF TypeOK

\* An exception before anything has changed.
LEMMA ThrowFields ==
  ASSUME StreamInv, Throw
  PROVE  /\ op' \in Ops /\ op'.pc = "idle" /\ op'.kind = "None" /\ op'.zeros = 0
         /\ ret'.status = "exception" /\ PositionRight' /\ CallRight'
<1>1. op' \in Ops /\ op'.pc = "idle" /\ op'.kind = "None" /\ op'.zeros = 0
  BY OpFields, StepFacts DEF Throw, Idle
<1>2. ret'.status = "exception"
  BY DEF Throw
<1>3. PositionRight' /\ CallRight'
  BY <1>1 DEF PositionRight, CallRight
<1> QED BY <1>1, <1>2, <1>3

LEMMA UpdateBlockMissInv ==
  ASSUME StreamInv, UpdateBlockMiss
  PROVE  StreamInv'
<1>1. PICK p \in Nat : p = NeededOffset /\ p <= StreamSize
  BY NeededWithin DEF UpdateBlockMiss
<1>2. PICK w :
        /\ w = WriteBack(p)
        /\ WholeUnits(w.file)
        /\ Len(w.file) >= Len(file) /\ w.size \in Nat /\ w.size <= Len(w.file)
        /\ w.ok => StreamSize <= w.size
  BY WriteBackFacts
<1>3. /\ WholeUnits(w.file)
      /\ Len(w.file) >= Len(file) /\ w.size \in Nat /\ w.size <= Len(w.file)
      /\ w.ok => StreamSize <= w.size
      /\ w.file \in Seq(CipherBytes) /\ Len(w.file) % A = 0
  BY <1>2 DEF WholeUnits
<1>4. NeedsBlock /\ UNCHANGED <<cacheStart, cacheSize, cache, cursor, content>>
  BY DEF UpdateBlockMiss
<1>5. CASE w.ok
  <2>1. PICK b \in Nat : b = CalculateBlockNumber(p) /\ b * B <= p
    BY BlockNumber, StepFacts
  <2>2. /\ file' = w.file /\ contentSize' = w.size /\ writePending' = FALSE
        /\ finalBlockHasBeenWritten' \in BOOLEAN
        /\ op' = [op EXCEPT !.pc = "load", !.blk = b] /\ ret' = ret
    BY <1>1, <1>2, <1>5, <2>1 DEF UpdateBlockMiss, StreamInv, TypeOK
  <2>3. /\ op' \in Ops /\ op'.pc = "load" /\ op'.blk = b /\ op'.kind = op.kind
        /\ op'.zeros = op.zeros
    BY <2>2, StepFacts DEF Ops
  <2>4. TypeOK'
    BY <1>3, <1>4, <2>2, <2>3 DEF StreamInv, TypeOK, cursor
  <2>5. BackingRight'
    BY <1>3, <2>2 DEF BackingRight
  <2>6. CacheRight'
    <3>1. Len(file) \in Nat /\ Len(file') \in Nat /\ Len(file') >= Len(file)
      BY <1>3, <2>2 DEF StreamInv, BackingRight
    <3>2. Aligned => Aligned'
      BY <1>4, <3>1 DEF Aligned
    <3> QED BY <1>4, <2>2, <2>3, <3>2 DEF StreamInv, CacheRight
  <2>7. StreamSize' = w.size
    BY <2>2 DEF StreamSize
  <2>8. PositionRight'
    <3>1. CASE op.pc = "shrink"
      BY <2>3, <3>1, StepFacts DEF PositionRight, CallRight, AfterUpdate
    <3>2. CASE op.pc # "shrink"
      BY <1>1, <1>3, <1>4, <1>5, <2>7, <3>2, StepFacts DEF PositionRight, NeededOffset, cursor
    <3> QED BY <3>1, <3>2
  <2>9. CallRight'
    <3>1. b * B <= w.size
      BY <1>1, <1>3, <1>5, <2>1, StepFacts
    <3>2. op.zeros > 0 \/ op.kind \in {"Write", "Size"} => Writable
      BY StepFacts DEF CallRight
    <3> QED BY <2>2, <2>3, <3>1, <3>2 DEF CallRight
  <2> QED BY <2>4, <2>5, <2>6, <2>8, <2>9 DEF StreamInv
<1>6. CASE ~w.ok
  <2>1. Throw /\ UNCHANGED <<backing, cached, cursor, content>>
    BY <1>1, <1>2, <1>4, <1>6 DEF UpdateBlockMiss, cached
  <2> QED BY <2>1, ThrowFields, StepFacts, CallOnly DEF cursor
<1> QED BY <1>5, <1>6

-----------------------------------------------------------------------------
(* The steps that fill and write the cached block *)

\* Fewer than B bytes written over the cache leave a block of B bytes.
LEMMA CacheSplice ==
  ASSUME TypeOK, NEW off \in Nat, NEW bytes \in Seq(Int), off + Len(bytes) <= B
  PROVE  Splice(cache, off, bytes, 0) \in [1..B -> Int]
<1>1. PICK c \in Seq(Int) : c = cache /\ Len(c) = B
  BY CachedBytesType
<1>2. off \in 0..Len(c)
  BY <1>1
<1>3. PICK x \in Seq(Int) : x = Splice(c, off, bytes, 0) /\ Len(x) = MaxOf(Len(c), off + Len(bytes))
  BY <1>2, SpliceWithin
<1>4. Len(x) = B
  BY <1>1, <1>3 DEF MaxOf
<1>5. x \in [1..B -> Int]
  BY <1>4
<1> QED BY <1>1, <1>3, <1>5

\* What the block that is loaded delivers.
LEMMA SimpleReadFacts ==
  ASSUME StreamInv, op.pc = "load"
  PROVE  \E start \in Nat : \E r :
           /\ start = op.blk * B /\ start % B = 0 /\ start <= contentSize
           /\ r = SimpleRead(file, contentSize, start, op.blk, IsLast(start, contentSize))
           /\ r.out \in Seq(Int) /\ Len(r.out) <= B
           /\ Readable /\ ~IsLast(start, contentSize) => r.ok /\ Len(r.out) = B
<1>1. PICK b \in Nat : b = op.blk /\ b * B <= contentSize
  BY StepFacts, OpFields DEF CallRight
<1>2. PICK start \in Nat : start = b * B /\ start % B = 0 /\ start <= contentSize
  BY <1>1, MultipleMod
<1>3. PICK size \in Nat, f \in Seq(CipherBytes) : size = contentSize /\ f = file /\ size <= Len(f)
  BY DEF StreamInv, BackingRight, TypeOK
<1>4. PICK toRead \in Nat :
        /\ toRead = MinOf(B, ContentLeft(size, start)) /\ toRead <= B
        /\ start + B < size => toRead = B
  <2>1. PICK left \in Nat : left = ContentLeft(size, start) /\ left = size - start
    BY <1>2, <1>3 DEF ContentLeft
  <2>2. MinOf(B, left) \in Nat /\ MinOf(B, left) <= B /\ (B < left => MinOf(B, left) = B)
    BY DEF MinOf
  <2>3. start + B < size => B < left
    BY <2>1
  <2> QED BY <2>1, <2>2, <2>3
<1>5. PICK cipher \in Seq(CipherBytes) :
        /\ cipher = Slice(f, start, toRead) /\ Len(cipher) <= toRead
        /\ start + toRead <= Len(f) => Len(cipher) = toRead
  <2>1. /\ Slice(f, start, toRead) \in Seq(CipherBytes) /\ Len(Slice(f, start, toRead)) <= toRead
        /\ start + toRead <= Len(f) => Len(Slice(f, start, toRead)) = toRead
    BY SliceType
  <2> QED BY <2>1
<1>6. PICK isFinal \in BOOLEAN : isFinal = IsLast(start, size)
  <2>1. IsLast(start, size) \in BOOLEAN
    BY DEF IsLast
  <2> QED BY <2>1
<1>7. PICK r : r = SimpleRead(f, size, start, b, isFinal)
  OBVIOUS
<1>8. PICK d : d = Decrypt(cipher, b, isFinal)
  OBVIOUS
<1>9. /\ d.out \in Seq(Int) /\ Len(d.out) <= Len(cipher)
      /\ ~isFinal /\ Len(cipher) % B = 0 => d.ok /\ Len(d.out) = Len(cipher)
  BY <1>8, DecryptType
<1>10. \/ r = d /\ cipher # <<>>
       \/ r = [ok |-> TRUE, out |-> <<>>] /\ (Readable => cipher = <<>>)
       \/ r = [ok |-> FALSE, out |-> <<>>] /\ ~Readable
  BY <1>4, <1>5, <1>7, <1>8 DEF SimpleRead
<1>11. r.out \in Seq(Int) /\ Len(r.out) <= B
  <2>1. CASE r = d
    BY <1>4, <1>5, <1>9, <2>1
  <2>2. CASE r # d
    <3>1. r.out = <<>> /\ <<>> \in Seq(Int) /\ Len(<<>>) = 0
      BY <1>10, <2>2
    <3> QED BY <3>1
  <2> QED BY <2>1, <2>2
<1>12. ASSUME Readable, ~isFinal
       PROVE  r.ok /\ Len(r.out) = B
  <2>1. start + B < size
    <3>1. ~IsLast(start, size)
      BY <1>6, <1>12
    <3> QED BY <3>1 DEF IsLast
  <2>2. toRead = B /\ start + toRead <= Len(f)
    BY <1>3, <1>4, <2>1
  <2>3. Len(cipher) = B /\ cipher # <<>>
    BY <1>5, <2>2
  <2>4. B % B = 0
    BY MultipleMod
  <2>5. r = d
    BY <1>10, <1>12, <2>3
  <2> QED BY <1>9, <1>12, <2>3, <2>4, <2>5
<1>13. /\ start = op.blk * B
       /\ r = SimpleRead(file, contentSize, start, op.blk, IsLast(start, contentSize))
       /\ isFinal = IsLast(start, contentSize)
  BY <1>1, <1>2, <1>3, <1>6, <1>7
<1> WITNESS start \in Nat
<1> WITNESS r
<1> QED BY <1>2, <1>11, <1>12, <1>13

LEMMA LoadBlockInv ==
  ASSUME StreamInv, LoadBlock
  PROVE  StreamInv'
<1>1. op.pc = "load" /\ UNCHANGED <<backing, finalBlockHasBeenWritten, writePending, cursor, content>>
  BY DEF LoadBlock
<1>2. PICK start \in Nat : \E r :
        /\ start = op.blk * B /\ start % B = 0 /\ start <= contentSize
        /\ r = SimpleRead(file, contentSize, start, op.blk, IsLast(start, contentSize))
        /\ r.out \in Seq(Int) /\ Len(r.out) <= B
  BY <1>1, SimpleReadFacts
<1>3. PICK r :
        /\ start = op.blk * B /\ start % B = 0 /\ start <= contentSize
        /\ r = SimpleRead(file, contentSize, start, op.blk, IsLast(start, contentSize))
        /\ r.out \in Seq(Int) /\ Len(r.out) <= B
  BY <1>2
<1>4. /\ cacheStart' = start /\ cache' = Splice(cache, 0, r.out, 0)
      /\ \/ r.ok /\ cacheSize' = Len(r.out) /\ Goto(AfterUpdate) /\ UNCHANGED ret
         \/ Throw /\ UNCHANGED cacheSize
  BY <1>3 DEF LoadBlock
<1>5. cache' \in [1..B -> Int]
  <2>1. PICK z \in Nat, d \in Seq(Int) : z = 0 /\ d = r.out /\ z + Len(d) <= B
    BY <1>3
  <2> QED BY <1>4, <2>1, CacheSplice, StepFacts
<1>6. Aligned' /\ BackingRight' /\ ~writePending' /\ StreamSize' = contentSize
  BY <1>1, <1>3, <1>4, StepFacts DEF CallRight, Aligned, StreamInv, BackingRight, TypeOK,
     StreamSize, backing
<1>7. CASE r.ok /\ cacheSize' = Len(r.out) /\ Goto(AfterUpdate) /\ UNCHANGED ret
  <2>1. AfterUpdate \in {"zero", "rewrite", "copy"}
    BY DEF AfterUpdate
  <2>2. /\ op' \in Ops /\ op'.pc = AfterUpdate /\ op'.kind = op.kind /\ op'.zeros = op.zeros
    BY <1>7, <2>1, GotoFields, StepFacts
  <2>3. TypeOK'
    BY <1>1, <1>3, <1>4, <1>5, <1>7, <2>2 DEF StreamInv, TypeOK, backing, cursor
  <2>4. CacheRight'
    BY <1>6 DEF CacheRight
  <2>5. PositionRight'
    BY <1>1, <1>6, <2>2, StepFacts DEF PositionRight, AfterUpdate, StreamSize, CallRight, cursor
  <2>6. CallRight'
    BY <1>1, <2>2, StepFacts DEF CallRight, AfterUpdate
  <2> QED BY <1>6, <2>3, <2>4, <2>5, <2>6 DEF StreamInv
<1>8. CASE Throw /\ UNCHANGED cacheSize
  <2>1. /\ op' \in Ops /\ ret'.status = "exception" /\ PositionRight' /\ CallRight'
    BY <1>8, ThrowFields
  <2>2. TypeOK'
    BY <1>1, <1>3, <1>4, <1>5, <1>8, <2>1 DEF StreamInv, TypeOK, backing, cursor
  <2>3. CacheRight'
    BY <1>6 DEF CacheRight
  <2> QED BY <1>6, <2>1, <2>2, <2>3 DEF StreamInv
<1> QED BY <1>4, <1>7, <1>8

\* WriteToBlock takes as many bytes as the block has room for, and the stream
\* then reaches at least to their end.
LEMMA WriteToBlockFacts ==
  ASSUME StreamInv, Aligned, Writable, position <= StreamSize,
         NEW bytes \in Seq(Int), WriteToBlock(position, bytes),
         UNCHANGED <<backing, positionValid, ret, content>>
  PROVE  \E k \in 0..Len(bytes) :
           /\ k = Room(position, Len(bytes))
           /\ k = 0 /\ Len(bytes) > 0 => UNCHANGED cached
           /\ position + k <= StreamSize'
           /\ BackingRight' /\ Aligned'
           /\ cacheSize' \in 0..B /\ cache' \in [1..B -> Int]
           /\ finalBlockHasBeenWritten' \in BOOLEAN /\ writePending' \in BOOLEAN
<1>1. /\ TypeOK /\ BackingRight /\ cacheStart \in Nat /\ cacheSize \in 0..B
      /\ position \in Nat /\ contentSize \in Nat /\ cache \in [1..B -> Int]
      /\ finalBlockHasBeenWritten \in BOOLEAN /\ writePending \in BOOLEAN
  BY DEF StreamInv, TypeOK, Aligned
<1>2. PICK l \in Nat : l = Len(bytes)
  OBVIOUS
<1>3. CASE InBlock(position)
  <2>1. PICK off \in 0..(B - 1) : off = position - cacheStart
    BY <1>1, <1>3 DEF InBlock
  <2>2. PICK k \in 0..l : k = Room(position, l) /\ off + k <= B /\ (l > 0 => k > 0)
    BY <1>3, <2>1 DEF Room, MinOf
  <2>3. /\ cache' = Splice(cache, off, SubSeq(bytes, 1, k), 0)
        /\ cacheSize' = MaxOf(cacheSize, off + k)
        /\ writePending' = (writePending \/ k > 0)
        /\ finalBlockHasBeenWritten' =
             (finalBlockHasBeenWritten /\ ~IsLast(cacheStart, contentSize))
        /\ UNCHANGED cacheStart
    BY <1>2, <1>3, <2>1, <2>2 DEF WriteToBlock
  <2>4. PICK d \in Seq(Int) : d = SubSeq(bytes, 1, k) /\ Len(d) = k
    <3>1. SubSeq(bytes, 1, k) \in Seq(Int) /\ Len(SubSeq(bytes, 1, k)) = k
      BY <1>2
    <3> QED BY <3>1
  <2>5. cache' \in [1..B -> Int]
    <3>1. off \in Nat /\ off + Len(d) <= B
      BY <2>2, <2>4
    <3>2. Splice(cache, off, d, 0) \in [1..B -> Int]
      BY <1>1, <3>1, CacheSplice
    <3> QED BY <2>3, <2>4, <3>2
  <2>6. cacheSize' \in 0..B /\ off + k <= cacheSize'
    BY <1>1, <2>2, <2>3 DEF MaxOf
  <2>7. BackingRight' /\ Aligned'
    BY <1>1, <2>3 DEF BackingRight, Aligned, backing
  <2>8. finalBlockHasBeenWritten' \in BOOLEAN /\ writePending' \in BOOLEAN
    BY <2>3
  <2>9. position + k <= StreamSize'
    <3>1. contentSize' = contentSize /\ position + k = cacheStart + (off + k)
      BY <1>1, <2>1 DEF backing
    <3>2. CASE finalBlockHasBeenWritten'
      <4>1. ~IsLast(cacheStart, contentSize) /\ StreamSize' = contentSize'
        BY <2>3, <3>2 DEF StreamSize
      <4> QED BY <1>1, <2>2, <3>1, <4>1 DEF IsLast
    <3>3. CASE ~finalBlockHasBeenWritten' /\ writePending'
      <4>1. StreamSize' = cacheStart + cacheSize'
        BY <2>3, <3>3 DEF StreamSize
      <4>2. PICK m \in 0..B, c \in Nat : m = cacheSize' /\ c = cacheStart /\ off + k <= m
        BY <1>1, <2>6
      <4>3. c + (off + k) <= c + m
        <5>1. off + k <= m
          BY <4>2
        <5> QED BY <5>1
      <4> QED BY <3>1, <4>1, <4>2, <4>3
    <3>4. CASE ~finalBlockHasBeenWritten' /\ ~writePending'
      <4>1. k = 0 /\ ~writePending
        <5>1. ~(writePending \/ k > 0)
          BY <2>3, <3>4
        <5> QED BY <5>1
      <4>2. StreamSize' = contentSize /\ StreamSize = contentSize
        BY <3>1, <3>4, <4>1 DEF StreamSize
      <4> QED BY <1>1, <4>1, <4>2
    <3> QED BY <2>8, <3>2, <3>3, <3>4
  <2> QED BY <1>2, <2>2, <2>5, <2>6, <2>7, <2>8, <2>9
<1>4. CASE ~InBlock(position)
  <2>1. Room(position, l) = 0 /\ UNCHANGED cached
    BY <1>4 DEF Room, WriteToBlock
  <2>2. StreamSize' = StreamSize /\ StreamSize \in Nat
    BY <2>1, SameSize, StepFacts
  <2>3. BackingRight' /\ Aligned'
    BY <1>1, <2>1 DEF BackingRight, Aligned, backing, cached
  <2>4. 0 \in 0..Len(bytes) /\ position + 0 <= StreamSize'
    BY <1>1, <2>2
  <2> QED BY <1>1, <1>2, <2>1, <2>3, <2>4 DEF cached
<1> QED BY <1>3, <1>4

LEMMA WriteChunkInv ==
  ASSUME StreamInv, WriteChunk
  PROVE  StreamInv'
<1>1. /\ op.pc = "copy" /\ op.kind = "Write" /\ WriteToBlock(position, op.data)
      /\ UNCHANGED <<backing, positionValid, ret, content>>
  BY DEF WriteChunk
<1>2. Aligned /\ Writable /\ position <= StreamSize
  BY <1>1, StepFacts DEF StreamInv, CacheRight, PositionRight, CallRight
<1>3. PICK bytes \in Seq(Int) : bytes = op.data
  BY StepFacts, OpFields
<1>4. PICK k \in 0..Len(bytes) :
        /\ k = Room(position, Len(bytes))
        /\ k = 0 /\ Len(bytes) > 0 => UNCHANGED cached
        /\ position + k <= StreamSize'
        /\ BackingRight' /\ Aligned'
        /\ cacheSize' \in 0..B /\ cache' \in [1..B -> Int]
        /\ finalBlockHasBeenWritten' \in BOOLEAN /\ writePending' \in BOOLEAN
  BY <1>1, <1>2, <1>3, WriteToBlockFacts
<1>5. PICK rest \in Seq(Int) : rest = SubSeq(bytes, k + 1, Len(bytes))
  <2>1. SubSeq(bytes, k + 1, Len(bytes)) \in Seq(Int)
    OBVIOUS
  <2> QED BY <2>1
<1>6. PICK pc \in {"return", "loop"} : pc = IF k = 0 THEN "return" ELSE "loop"
  OBVIOUS
<1>7. position' = position + k /\ op' = [op EXCEPT !.data = rest, !.pc = pc]
  BY <1>3, <1>4, <1>5, <1>6 DEF WriteChunk
<1>8. /\ op' \in Ops /\ op'.pc = pc /\ op'.kind = "Write" /\ op'.zeros = op.zeros
  BY <1>1, <1>7, StepFacts DEF Ops
<1>9. TypeOK'
  <2>1. position' \in Nat
    BY <1>7, StepFacts
  <2> QED BY <1>1, <1>4, <1>8, <2>1 DEF StreamInv, TypeOK, BackingRight, Aligned, backing
<1>10. CacheRight'
  BY <1>2, <1>4 DEF CacheRight
<1>11. PositionRight'
  BY <1>4, <1>7 DEF PositionRight
<1>12. CallRight'
  BY <1>2, <1>8 DEF CallRight
<1> QED BY <1>4, <1>9, <1>10, <1>11, <1>12 DEF StreamInv

LEMMA ZeroChunkInv ==
  ASSUME StreamInv, ZeroChunk
  PROVE  StreamInv'
<1>1. /\ op.pc = "zero" /\ WriteToBlock(position, Repeat(0, op.zeros))
      /\ UNCHANGED <<backing, positionValid, ret, content>>
  BY DEF ZeroChunk
<1>2. Aligned /\ Writable /\ position <= StreamSize
  BY <1>1, StepFacts DEF StreamInv, CacheRight, PositionRight, CallRight
<1>3. PICK z \in Nat : z = op.zeros
  BY StepFacts, OpFields
<1>4. PICK bytes \in Seq(Int) : bytes = Repeat(0, op.zeros) /\ Len(bytes) = z
  <2>1. Repeat(0, z) \in Seq(Int) /\ Len(Repeat(0, z)) = z
    <3>1. PICK b \in Int : b = 0
      OBVIOUS
    <3> QED BY <3>1, RepeatType
  <2> QED BY <1>3, <2>1
<1>5. PICK k \in 0..Len(bytes) :
        /\ k = Room(position, Len(bytes))
        /\ k = 0 /\ Len(bytes) > 0 => UNCHANGED cached
        /\ position + k <= StreamSize'
        /\ BackingRight' /\ Aligned'
        /\ cacheSize' \in 0..B /\ cache' \in [1..B -> Int]
        /\ finalBlockHasBeenWritten' \in BOOLEAN /\ writePending' \in BOOLEAN
  BY <1>1, <1>2, <1>4, WriteToBlockFacts
<1>6. PICK left \in Nat : left = IF k = 0 THEN 0 ELSE op.zeros - k
  BY <1>3, <1>4
<1>7. PICK pc \in {"fill", "fillblock"} :
        pc = IF k = 0 \/ k = op.zeros THEN "fill" ELSE "fillblock"
  OBVIOUS
<1>8. position' = position + k /\ op' = [op EXCEPT !.zeros = left, !.pc = pc]
  BY <1>3, <1>4, <1>5, <1>6, <1>7 DEF ZeroChunk
<1>9. /\ op' \in Ops /\ op'.pc = pc
  BY <1>8, StepFacts DEF Ops
<1>10. TypeOK'
  <2>1. position' \in Nat
    BY <1>8, StepFacts, SMTT(60)
  <2> QED BY <1>1, <1>5, <1>9, <2>1 DEF StreamInv, TypeOK, BackingRight, Aligned, backing
<1>11. CacheRight'
  BY <1>2, <1>5 DEF CacheRight
<1>12. PositionRight'
  BY <1>5, <1>8 DEF PositionRight
<1>13. CallRight'
  BY <1>2, <1>9 DEF CallRight
<1> QED BY <1>5, <1>10, <1>11, <1>12, <1>13 DEF StreamInv

\* The byte RewriteFinalBlock writes back is a byte.
LEMMA LastByteType ==
  ASSUME TypeOK, NEW v \in Nat, NEW byte \in LastByte(v)
  PROVE  byte \in Int
<1>1. CASE v > 0 /\ InCache(v - 1)
  <2>1. cacheStart \in Nat /\ cacheSize \in 0..B /\ cache \in [1..B -> Int]
    BY DEF TypeOK
  <2>2. v - cacheStart \in 1..B
    BY <1>1, <2>1 DEF InCache
  <2>3. byte = cache[v - cacheStart]
    BY <1>1 DEF LastByte
  <2> QED BY <2>1, <2>2, <2>3
<1>2. CASE ~(v > 0 /\ InCache(v - 1))
  <2>1. byte \in ByteValues
    BY <1>2 DEF LastByte
  <2>2. CASE byte = 0
    BY <2>2
  <2>3. CASE byte # 0
    <3>1. PICK d \in Payloads : byte \in {d[i] : i \in DOMAIN d}
      BY <2>1, <2>3 DEF ByteValues
    <3>2. PICK i \in DOMAIN d : byte = d[i]
      BY <3>1
    <3>3. d \in Seq(Nat)
      OBVIOUS
    <3>4. d[i] \in Nat
      BY <3>3
    <3> QED BY <3>2, <3>4
  <2> QED BY <2>2, <2>3
<1> QED BY <1>1, <1>2

\* The cached block after RewriteFinalBlock has written the last byte into it.
LEMMA RewrittenFacts ==
  ASSUME StreamInv, NEW v \in Nat, NEW byte \in LastByte(v), v <= contentSize,
         v > 0 => Aligned
  PROVE  \E r :
           /\ r = Rewritten(v, byte)
           /\ r.cache \in [1..B -> Int] /\ r.size \in 0..B
           /\ r.pending \in BOOLEAN /\ r.written \in BOOLEAN
           /\ r.pending => Aligned
           /\ \/ v > 0 /\ InBlock(v - 1) /\ ~r.written
              \/ /\ ~(v > 0 /\ InBlock(v - 1)) /\ r.size = cacheSize
                 /\ r.pending = writePending
                 /\ r.written = (v = 0 /\ finalBlockHasBeenWritten)
<1>1. /\ TypeOK /\ cacheStart \in Nat /\ cacheSize \in 0..B /\ cache \in [1..B -> Int]
      /\ writePending \in BOOLEAN /\ finalBlockHasBeenWritten \in BOOLEAN
      /\ contentSize \in Nat
  BY DEF StreamInv, TypeOK
<1>2. PICK r : r = Rewritten(v, byte)
  OBVIOUS
<1>3. CASE v > 0 /\ InBlock(v - 1)
  <2>1. PICK off \in 0..(B - 1) : off = v - 1 - cacheStart
    BY <1>1, <1>3 DEF InBlock
  <2>2. PICK d \in Seq(Int) : d = <<byte>> /\ Len(d) = 1
    <3>1. byte \in Int
      BY <1>1, LastByteType
    <3>2. <<byte>> \in Seq(Int) /\ Len(<<byte>>) = 1
      BY <3>1
    <3> QED BY <3>2
  <2>3. PICK c \in [1..B -> Int] : c = Splice(cache, off, d, 0)
    <3>1. off \in Nat /\ off + Len(d) <= B
      BY <2>2
    <3>2. Splice(cache, off, d, 0) \in [1..B -> Int]
      BY <1>1, <3>1, CacheSplice
    <3> QED BY <3>2
  <2>4. PICK n \in 0..B : n = MaxOf(cacheSize, v - cacheStart)
    <3>1. PICK k \in 0..B, m \in 0..B : k = v - cacheStart /\ m = cacheSize
      BY <1>1, <2>1
    <3>2. MaxOf(m, k) \in 0..B
      BY DEF MaxOf
    <3> QED BY <3>1, <3>2
  <2>5. r = [cache |-> c, size |-> n, pending |-> TRUE, written |-> FALSE]
    BY <1>2, <1>3, <2>1, <2>2, <2>3, <2>4 DEF Rewritten
  <2>7. Aligned
    BY <1>3
  <2>8. /\ r.cache = c /\ r.size = n /\ r.pending = TRUE /\ r.written = FALSE
    BY <2>5
  <2> WITNESS r
  <2> QED BY <1>2, <1>3, <2>7, <2>8
<1>4. CASE ~(v > 0 /\ InBlock(v - 1))
  <2>1. r = [cache |-> cache, size |-> cacheSize, pending |-> writePending,
             written |-> v = 0 /\ finalBlockHasBeenWritten]
    BY <1>2, <1>4 DEF Rewritten
  <2>2. writePending => Aligned
    BY DEF StreamInv, CacheRight
  <2> WITNESS r
  <2> QED BY <1>1, <1>2, <1>4, <2>1, <2>2
<1> QED BY <1>3, <1>4

LEMMA RewriteFinalBlockInv ==
  ASSUME StreamInv, RewriteFinalBlock
  PROVE  StreamInv'
<1>1. /\ op.pc = "rewrite" /\ contentSize >= op.at /\ contentSize' = op.at
      /\ UNCHANGED <<file, cacheStart, content>>
  BY DEF RewriteFinalBlock
<1>2. PICK v \in Nat : v = op.at /\ v <= contentSize /\ (v > 0 => Aligned)
  BY <1>1, StepFacts, OpFields DEF TypeOK, StreamInv, CacheRight
<1>3. PICK byte \in LastByte(v) :
        /\ cache' = Rewritten(v, byte).cache
        /\ writePending' = Rewritten(v, byte).pending
        /\ finalBlockHasBeenWritten' = Rewritten(v, byte).written
        /\ SizeInternalThrows(v, Rewritten(v, byte)) \/ SizeInternalCuts(v, Rewritten(v, byte))
  BY <1>2 DEF RewriteFinalBlock
<1>4. PICK r :
        /\ r = Rewritten(v, byte)
        /\ r.cache \in [1..B -> Int] /\ r.size \in 0..B
        /\ r.pending \in BOOLEAN /\ r.written \in BOOLEAN
        /\ r.pending => Aligned
  BY <1>2, RewrittenFacts
<1>5. /\ cache' \in [1..B -> Int]
      /\ finalBlockHasBeenWritten' \in BOOLEAN /\ writePending' \in BOOLEAN
      /\ writePending' => Aligned
      /\ SizeInternalThrows(v, r) \/ SizeInternalCuts(v, r)
  BY <1>3, <1>4
<1>6. Writable
  BY <1>1, StepFacts DEF CallRight
<1>7. /\ cacheSize' \in 0..B /\ position' \in Nat /\ positionValid' \in BOOLEAN
      /\ op' \in Ops /\ op'.pc \in {"idle", "return"}
      /\ ret'.status \in {"ok", "invalid", "exception"}
  <2>1. CASE SizeInternalThrows(v, r)
    <3>1. /\ op' \in Ops /\ op'.pc = "idle" /\ ret'.status = "exception"
      BY <2>1, ThrowFields DEF SizeInternalThrows
    <3>2. position' \in Nat
      BY <2>1, StepFacts DEF SizeInternalThrows
    <3> QED BY <1>4, <2>1, <3>1, <3>2, StepFacts DEF SizeInternalThrows
  <2>2. CASE SizeInternalCuts(v, r)
    <3>1. cacheStart \in Nat /\ cacheStart <= v
      BY <2>2 DEF SizeInternalCuts, StreamInv, TypeOK
    <3>2. PICK n \in 0..B : n = r.size
      BY <1>4
    <3>3. PICK cut \in 0..B : cut = MinOf(n, v - cacheStart)
      <4>1. PICK k \in Nat : k = v - cacheStart
        BY <3>1
      <4>2. MinOf(n, k) \in 0..B
        BY DEF MinOf
      <4> QED BY <4>1, <4>2
    <3>4. PICK end \in Nat : end = IF r.pending /\ ~r.written THEN cacheStart + cut ELSE v
      BY <3>1
    <3>5. /\ cacheSize' = cut /\ position' = MinOf(op.origin, end) /\ positionValid' = TRUE
          /\ Goto("return") /\ ret' = ret
      BY <2>2, <3>2, <3>3, <3>4 DEF SizeInternalCuts
    <3>6. position' \in Nat
      BY <3>5, StepFacts DEF MinOf
    <3>7. op' \in Ops /\ op'.pc = "return"
      BY <3>5, GotoFields, StepFacts
    <3> QED BY <3>5, <3>6, <3>7, StepFacts
  <2> QED BY <1>5, <2>1, <2>2
<1>8. TypeOK'
  BY <1>1, <1>2, <1>5, <1>7 DEF StreamInv, TypeOK
<1>9. BackingRight'
  BY <1>1, <1>2, StepFacts DEF StreamInv, BackingRight, TypeOK
<1>10. CacheRight'
  BY <1>1, <1>5, <1>6, <1>7 DEF StreamInv, CacheRight, Aligned
<1>11. PositionRight' /\ CallRight'
  BY <1>6, <1>7 DEF PositionRight, CallRight
<1> QED BY <1>8, <1>9, <1>10, <1>11 DEF StreamInv

LEMMA CachedBlockFlushInv ==
  ASSUME StreamInv, CachedBlockFlush
  PROVE  StreamInv'
<1>1. op.pc = "flush" /\ UNCHANGED <<cursor, content>>
  BY DEF CachedBlockFlush
<1>2. PICK start \in Nat :
        /\ start = IF cacheStart = U64Max THEN 0 ELSE cacheStart
        /\ start % B = 0 /\ start <= Len(file)
  <2>1. 0 % B = 0 /\ Len(file) \in Nat
    BY MultipleMod DEF StreamInv, BackingRight
  <2> QED BY <2>1 DEF StreamInv, CacheRight, Aligned
<1>3. PICK isFinal \in BOOLEAN : isFinal = IsLast(start, contentSize)
  <2>1. IsLast(start, contentSize) \in BOOLEAN
    BY DEF IsLast
  <2> QED BY <2>1
<1>4. PICK w :
        /\ w = SimpleWrite(file, contentSize, CachedBytes, start,
                           CalculateBlockNumber(start), isFinal)
        /\ WholeUnits(w.file) /\ Len(w.file) >= Len(file)
        /\ w.size \in Nat /\ w.size <= Len(w.file)
  BY <1>2, CachedWriteFacts
<1>5. w = FlushWrite
  BY <1>2, <1>3, <1>4 DEF FlushWrite
<1>6. CASE w.ok
  <2>1. /\ file' = w.file /\ contentSize' = w.size
        /\ finalBlockHasBeenWritten' = (finalBlockHasBeenWritten \/ isFinal)
        /\ writePending' = FALSE /\ Goto("return")
        /\ UNCHANGED <<cacheStart, cacheSize, cache, ret>>
    BY <1>2, <1>3, <1>5, <1>6 DEF CachedBlockFlush
  <2>2. finalBlockHasBeenWritten' \in BOOLEAN
    BY <2>1
  <2>3. op' \in Ops /\ op'.pc = "return" /\ op'.kind = op.kind /\ op'.zeros = op.zeros
    BY <2>1, GotoFields, StepFacts
  <2>4. /\ file' \in Seq(CipherBytes) /\ Len(file') % A = 0 /\ Len(file') >= Len(file)
        /\ contentSize' \in Nat /\ contentSize' <= Len(file')
    BY <1>4, <2>1 DEF WholeUnits
  <2>5. TypeOK'
    BY <1>1, <2>1, <2>2, <2>3, <2>4 DEF StreamInv, TypeOK, cursor
  <2>6. BackingRight'
    BY <2>4 DEF BackingRight
  <2>7. CacheRight'
    <3>1. Len(file) \in Nat /\ Len(file') \in Nat
      BY <2>4 DEF StreamInv, BackingRight
    <3>2. Aligned => Aligned'
      BY <2>1, <2>4, <3>1 DEF Aligned
    <3> QED BY <2>1, <2>3, <3>2 DEF StreamInv, CacheRight
  <2>8. PositionRight'
    BY <2>3 DEF PositionRight
  <2>9. CallRight'
    BY <2>3, StepFacts DEF CallRight
  <2> QED BY <2>5, <2>6, <2>7, <2>8, <2>9 DEF StreamInv
<1>7. CASE ~w.ok
  <2>1. Throw /\ UNCHANGED <<backing, cached>>
    BY <1>5, <1>7 DEF CachedBlockFlush
  <2> QED BY <1>1, <2>1, ThrowFields, StepFacts, CallOnly DEF cursor
<1> QED BY <1>6, <1>7

-----------------------------------------------------------------------------
(* The invariant, for every use of the stream *)

LEMMA StreamInitInv == Init => StreamInv
<1> SUFFICES ASSUME Init PROVE StreamInv
  OBVIOUS
<1>1. /\ contentSize = Len(file) /\ cacheStart = U64Max /\ cacheSize = 0
      /\ cache = [i \in 1..B |-> 0] /\ finalBlockHasBeenWritten = FALSE
      /\ writePending = FALSE /\ position = 0 /\ positionValid = TRUE /\ op = Idle
      /\ ret.status = "ok"
  BY DEF Init
<1>2. file \in Seq(CipherBytes) /\ Len(file) % A = 0 /\ content \in Seq(Nat)
  <2>1. CASE content = <<>> /\ file = <<>>
    <3>1. 0 % A = 0
      BY MultipleMod
    <3> QED BY <2>1, <3>1
  <2>2. CASE content \in InitialTexts /\ file = Encrypt(content, 0, TRUE).out
    <3>1. PICK text \in Seq(Int) : text = content
      <4>1. content \in Seq(Nat)
        BY <2>2
      <4>2. content \in Seq(Int)
        BY <4>1
      <4> QED BY <4>2
    <3>5. PICK b \in Nat : b = 0
      OBVIOUS
    <3>6. PICK isFinal \in BOOLEAN : isFinal = TRUE
      OBVIOUS
    <3>2. PICK e : e = Encrypt(text, b, isFinal)
      OBVIOUS
    <3>3. e.out \in Seq(CipherBytes) /\ Len(e.out) % A = 0
      BY <3>2, EncryptType
    <3>4. file = e.out
      BY <2>2, <3>1, <3>2, <3>5, <3>6
    <3> QED BY <2>2, <3>3, <3>4
  <2> QED BY <2>1, <2>2 DEF Init
<1>3. Idle \in Ops /\ Idle.pc = "idle" /\ Idle.kind = "None" /\ Idle.zeros = 0
  BY DEF Idle, Ops
<1>4. TypeOK
  <2>1. cache \in [1..B -> Int]
    BY <1>1
  <2>2. contentSize \in Nat /\ cacheSize \in 0..B /\ position \in Nat
    BY <1>1, <1>2
  <2> QED BY <1>1, <1>2, <1>3, <2>1, <2>2 DEF TypeOK
<1>5. BackingRight
  BY <1>1, <1>2 DEF BackingRight
<1>6. CacheRight /\ PositionRight /\ CallRight
  BY <1>1, <1>3 DEF CacheRight, PositionRight, CallRight
<1> QED BY <1>4, <1>5, <1>6 DEF StreamInv

LEMMA StreamStepInv == StreamInv /\ [Next]_vars => StreamInv'
<1> SUFFICES ASSUME StreamInv, [Next]_vars PROVE StreamInv'
  OBVIOUS
<1>1. CASE UNCHANGED vars
  BY <1>1 DEF vars, backing, cached, cursor, StreamInv, TypeOK, BackingRight, CacheRight,
     Aligned, PositionRight, CallRight, StreamSize, AfterUpdate
<1>2. ASSUME NEW n \in Lengths, Read(n) PROVE StreamInv'
  BY <1>2, ReadAsyncInv, StepFacts DEF Read
<1>3. ASSUME NEW d \in Payloads, Write(d) PROVE StreamInv'
  BY <1>3, WriteAsyncInv, StepFacts DEF Write
<1>4. ASSUME NEW at \in 0..MaxSize, NEW n \in Lengths, ReadAsyncAt(at, n) PROVE StreamInv'
  BY <1>4, ReadAsyncInv DEF ReadAsyncAt
<1>5. ASSUME NEW at \in 0..MaxSize, NEW d \in Payloads, WriteAsyncAt(at, d) PROVE StreamInv'
  BY <1>5, WriteAsyncInv DEF WriteAsyncAt
<1>6. ASSUME NEW p \in 0..MaxSize, Seek(p) PROVE StreamInv'
  BY <1>6, SeekInv
<1>7. ASSUME NEW v \in 0..MaxSize, Size(v) PROVE StreamInv'
  BY <1>7, SizeInv
<1>8. CASE Flush
  BY <1>8, FlushInv
<1>9. CASE Step
  <2>1. CASE SizeUnchanged
    BY <2>1, MoveInv DEF SizeUnchanged
  <2>2. CASE LoopDone
    BY <2>2, MoveInv DEF LoopDone
  <2>3. CASE RelockHangs
    BY <2>3, MoveInv DEF RelockHangs
  <2>4. CASE GrowEndless
    BY <2>4, MoveInv DEF GrowEndless
  <2> QED BY <1>9, <2>1, <2>2, <2>3, <2>4, SeekWithinInv, SeekInvalidInv, GrowInv, ShrinkInv,
             FillWithZerosInv, FillDoneInv, UpdateBlockHitInv, UpdateBlockMissInv,
             LoadBlockInv, ReadFromBlockInv, WriteChunkInv, ZeroChunkInv,
             RewriteFinalBlockInv, CachedBlockFlushInv, ReturnInv DEF Step
<1> QED BY <1>1, <1>2, <1>3, <1>4, <1>5, <1>6, <1>7, <1>8, <1>9 DEF Next

\* Whatever the client calls, in whatever order, also after exceptions and on backing
\* streams that cannot be read or written: the state of BlockBasedProtectedStream,
\* CachedBlock and SimpleProtectedStream satisfies the inductive invariant.
THEOREM StreamInvariant == Spec => []StreamInv
  BY StreamInitInv, StreamStepInv, PTL DEF Spec

\* The cached block is always aligned and no larger than a block, and the backing stream
\* a whole number of AES units.
THEOREM StreamTypeCorrect == Spec => []TypeOK
<1>1. StreamInv => TypeOK
  BY DEF StreamInv
<1> QED BY <1>1, StreamInvariant, PTL

\* FillWithZeros never finds the position beyond the end, so growing a stream never
\* re-enters itself through SeekInternal.
THEOREM FillDoesNotNest == Spec => []FillNeverNests
<1>1. StreamInv => FillNeverNests
  BY SizeValue DEF StreamInv, PositionRight, FillNeverNests
<1> QED BY <1>1, StreamInvariant, PTL

\* UpdateBlock and Flush never write beyond the end of the backing stream.
THEOREM BlocksReachBackingInOrder == Spec => []BackingHasNoHole
<1>1. StreamInv => BackingHasNoHole
  <2> SUFFICES ASSUME StreamInv, NEW i \in DOMAIN file PROVE file[i] # Hole
    BY DEF BackingHasNoHole
  <2>1. file[i] \in CipherBytes
    BY DEF StreamInv, BackingRight
  <2>2. file[i].blk \in Nat /\ Hole.blk = -1
    BY <2>1 DEF CipherBytes, Hole
  <2> QED BY <2>2
<1> QED BY <1>1, StreamInvariant, PTL

-----------------------------------------------------------------------------
(* A backing stream that can be read *)

\* Only the last block may be short.
FullBlocks == IsLast(cacheStart, contentSize) \/ cacheSize = B

\* A dirty block that is not the end of the stream is a full one, or empty.
WrittenFull == writePending /\ finalBlockHasBeenWritten => cacheSize \in {0, B}

BlocksInv == StreamInv /\ FullBlocks /\ WrittenFull

LEMMA BlocksFacts ==
  ASSUME StreamInv
  PROVE  /\ cacheStart \in Nat /\ contentSize \in Nat /\ cacheSize \in 0..B
         /\ writePending \in BOOLEAN /\ finalBlockHasBeenWritten \in BOOLEAN
         /\ position \in Nat
  BY DEF StreamInv, TypeOK

LEMMA BlocksInit == Init => FullBlocks /\ WrittenFull
<1> SUFFICES ASSUME Init PROVE FullBlocks /\ WrittenFull
  OBVIOUS
<1>1. /\ contentSize = Len(file) /\ cacheStart = U64Max /\ writePending = FALSE
  BY DEF Init
<1>2. CASE file = <<>>
  BY <1>1, <1>2 DEF FullBlocks, WrittenFull, IsLast
<1>3. CASE content \in InitialTexts /\ file = Encrypt(content, 0, TRUE).out
  <2>1. PICK text \in Seq(Int) : text = content /\ Len(text) < U64Max
    <3>1. content \in Seq(Nat) /\ Len(content) < U64Max
      BY <1>3
    <3>2. content \in Seq(Int)
      BY <3>1
    <3> QED BY <3>1, <3>2
  <2>2. PICK b \in Nat : b = 0
    OBVIOUS
  <2>3. PICK isFinal \in BOOLEAN : isFinal = TRUE
    OBVIOUS
  <2>4. PICK e : e = Encrypt(text, b, isFinal)
    OBVIOUS
  <2>5. e.out \in Seq(CipherBytes)
    BY <2>4, EncryptType
  <2>6. Len(e.out) <= Len(text) + A
    <3>1. e.ok
      BY <2>3, <2>4, EncryptType
    <3> QED BY <2>4, <3>1, EncryptType
  <2>7. A <= B
    <3>1. B = A * (B \div A) + (B % A) /\ B \div A \in Nat
      BY DivMod
    <3>2. PICK m \in Nat : m = B \div A
      BY <3>1
    <3>3. B = A * m
      BY <3>1, <3>2
    <3>4. m # 0
      BY <3>3
    <3>5. A * m >= A * 1
      BY <3>4
    <3> QED BY <3>3, <3>5
  <2>8. file = e.out
    BY <1>3, <2>1, <2>2, <2>3, <2>4
  <2>9. PICK n \in Nat : n = contentSize /\ n <= Len(text) + A
    BY <1>1, <2>5, <2>6, <2>8
  <2>10. U64Max + B >= n
    BY <2>1, <2>7, <2>9
  <2> QED BY <1>1, <2>9, <2>10 DEF FullBlocks, WrittenFull, IsLast
<1> QED BY <1>2, <1>3 DEF Init

\* The block that leaves the cache is full, empty, or the final one.
LEMMA WriteBackOk == BlocksInv => WriteBackNeverFails
<1> SUFFICES ASSUME BlocksInv, NeedsBlock, ~CacheIsCurrent(NeededOffset)
             PROVE  WriteBack(NeededOffset).ok
  BY DEF WriteBackNeverFails
<1>1. StreamInv
  BY DEF BlocksInv
<1>2. PICK p \in Nat : p = NeededOffset /\ p <= StreamSize
  BY <1>1, NeededWithin
<1>3. PICK w :
        /\ w = WriteBack(p)
        /\ ~writePending => w.ok
        /\ writePending /\ (\/ IsLast(cacheStart, contentSize) /\ p < cacheStart + B
                            \/ cacheSize % B = 0) => w.ok
  BY <1>1, WriteBackFacts
<1>4. CASE ~writePending
  BY <1>2, <1>3, <1>4
<1>5. CASE writePending
  <2>1. 0 % B = 0 /\ B % B = 0
    BY MultipleMod
  <2>2. CASE cacheSize \in {0, B}
    <3>1. cacheSize % B = 0
      BY <2>1, <2>2
    <3> QED BY <1>2, <1>3, <1>5, <3>1
  <2>3. CASE cacheSize \notin {0, B}
    <3>1. IsLast(cacheStart, contentSize) /\ ~finalBlockHasBeenWritten
      BY <1>5, <2>3 DEF BlocksInv, FullBlocks, WrittenFull
    <3>2. p <= cacheStart + cacheSize
      BY <1>2, <1>5, <3>1 DEF StreamSize
    <3>3. p < cacheStart + B
      BY <1>1, <2>3, <3>2, BlocksFacts
    <3> QED BY <1>2, <1>3, <1>5, <3>1, <3>3
  <2> QED BY <2>2, <2>3
<1> QED BY <1>1, <1>4, <1>5, BlocksFacts

LEMMA BlocksMiss ==
  ASSUME BlocksInv, UpdateBlockMiss
  PROVE  FullBlocks' /\ WrittenFull'
<1>1. StreamInv
  BY DEF BlocksInv
<1>2. PICK p \in Nat : p = NeededOffset
  BY <1>1, NeededWithin DEF UpdateBlockMiss
<1>3. PICK w :
        /\ w = WriteBack(p)
        /\ w.ok => w.size = IF writePending THEN MaxOf(contentSize, cacheStart + cacheSize)
                            ELSE contentSize
  BY <1>1, WriteBackFacts
<1>4. w.ok
  BY <1>2, <1>3, WriteBackOk DEF UpdateBlockMiss, WriteBackNeverFails
<1>5. contentSize' = w.size /\ writePending' = FALSE /\ UNCHANGED <<cacheStart, cacheSize>>
  BY <1>2, <1>3, <1>4 DEF UpdateBlockMiss
<1>6. FullBlocks'
  BY <1>1, <1>3, <1>4, <1>5, BlocksFacts DEF BlocksInv, FullBlocks, IsLast, MaxOf
<1> QED BY <1>5, <1>6 DEF WrittenFull

LEMMA BlocksLoad ==
  ASSUME BlocksInv, Readable, LoadBlock
  PROVE  FullBlocks' /\ WrittenFull'
<1>1. StreamInv /\ op.pc = "load" /\ UNCHANGED <<backing, writePending>>
  BY DEF BlocksInv, LoadBlock
<1>2. PICK start \in Nat : \E r :
        /\ start = op.blk * B
        /\ r = SimpleRead(file, contentSize, start, op.blk, IsLast(start, contentSize))
        /\ ~IsLast(start, contentSize) => r.ok /\ Len(r.out) = B
  BY <1>1, SimpleReadFacts
<1>3. PICK r :
        /\ start = op.blk * B
        /\ r = SimpleRead(file, contentSize, start, op.blk, IsLast(start, contentSize))
        /\ ~IsLast(start, contentSize) => r.ok /\ Len(r.out) = B
  BY <1>2
<1>4. cacheStart' = start /\ (r.ok => cacheSize' = Len(r.out)) /\ contentSize' = contentSize
  BY <1>1, <1>3 DEF LoadBlock, backing
<1>5. FullBlocks'
  BY <1>3, <1>4 DEF FullBlocks
<1>6. ~writePending'
  BY <1>1, StepFacts DEF CallRight
<1> QED BY <1>5, <1>6 DEF WrittenFull

LEMMA BlocksWrite ==
  ASSUME BlocksInv, NEW k \in Nat, NEW bytes, k = Room(position, Len(bytes)),
         WriteToBlock(position, bytes), contentSize' = contentSize, cacheSize' \in 0..B
  PROVE  FullBlocks' /\ WrittenFull'
<1>1. CASE InBlock(position)
  <2>1. /\ cacheSize' = MaxOf(cacheSize, position - cacheStart + k)
        /\ finalBlockHasBeenWritten' =
             (finalBlockHasBeenWritten /\ ~IsLast(cacheStart, contentSize))
        /\ UNCHANGED cacheStart
    BY <1>1 DEF WriteToBlock
  <2>2. cacheSize = B => cacheSize' = B
    BY <2>1, BlocksFacts DEF BlocksInv, MaxOf
  <2>3. FullBlocks'
    BY <2>1, <2>2 DEF BlocksInv, FullBlocks
  <2>4. finalBlockHasBeenWritten' => cacheSize' = B
    BY <2>1, <2>2 DEF BlocksInv, FullBlocks
  <2> QED BY <2>3, <2>4 DEF WrittenFull
<1>2. CASE ~InBlock(position)
  BY <1>2 DEF WriteToBlock, cached, BlocksInv, FullBlocks, WrittenFull
<1> QED BY <1>1, <1>2

LEMMA BlocksRewrite ==
  ASSUME BlocksInv, RewriteFinalBlock
  PROVE  FullBlocks' /\ WrittenFull'
<1>1. /\ StreamInv /\ op.pc = "rewrite" /\ contentSize >= op.at /\ contentSize' = op.at
      /\ UNCHANGED <<file, cacheStart, content>>
  BY DEF BlocksInv, RewriteFinalBlock
<1>2. PICK v \in Nat : v = op.at /\ v <= contentSize /\ (v > 0 => Aligned)
  BY <1>1, StepFacts, OpFields DEF TypeOK, StreamInv, CacheRight
<1>3. PICK byte \in LastByte(v) :
        /\ cache' = Rewritten(v, byte).cache
        /\ writePending' = Rewritten(v, byte).pending
        /\ finalBlockHasBeenWritten' = Rewritten(v, byte).written
        /\ SizeInternalThrows(v, Rewritten(v, byte)) \/ SizeInternalCuts(v, Rewritten(v, byte))
  BY <1>2 DEF RewriteFinalBlock
<1>4. PICK r :
        /\ r = Rewritten(v, byte) /\ r.size \in 0..B
        /\ \/ v > 0 /\ InBlock(v - 1) /\ ~r.written
           \/ /\ ~(v > 0 /\ InBlock(v - 1)) /\ r.size = cacheSize
              /\ r.pending = writePending
              /\ r.written = (v = 0 /\ finalBlockHasBeenWritten)
  BY <1>1, <1>2, RewrittenFacts
<1>5. /\ writePending' = r.pending /\ finalBlockHasBeenWritten' = r.written
      /\ SizeInternalThrows(v, r) \/ SizeInternalCuts(v, r)
      /\ contentSize' = v /\ cacheStart' = cacheStart
  BY <1>1, <1>2, <1>3, <1>4
<1>6. PICK c \in Nat, m \in 0..B, s \in Nat :
        c = cacheStart /\ m = cacheSize /\ s = contentSize /\ v <= s
  BY <1>1, <1>2, BlocksFacts
<1>7. c + B >= s \/ m = B
  BY <1>6 DEF BlocksInv, FullBlocks, IsLast
<1>8. CASE SizeInternalThrows(v, r)
  <2>1. c > v /\ cacheSize' = r.size
    BY <1>6, <1>8 DEF SizeInternalThrows
  <2>2. FullBlocks'
    BY <1>5, <1>6, <2>1 DEF FullBlocks, IsLast
  <2>3. ~(v > 0 /\ InBlock(v - 1))
    BY <1>6, <2>1 DEF InBlock
  <2>4. /\ r.size = cacheSize /\ r.pending = writePending
        /\ r.written => finalBlockHasBeenWritten
    BY <1>4, <2>3
  <2>5. WrittenFull'
    BY <1>5, <2>1, <2>4 DEF BlocksInv, WrittenFull
  <2> QED BY <2>2, <2>5
<1>9. CASE SizeInternalCuts(v, r)
  <2>1. c <= v /\ cacheSize' = MinOf(r.size, v - c)
    BY <1>6, <1>9 DEF SizeInternalCuts
  <2>2. FullBlocks'
    <3>1. CASE c + B >= v
      BY <1>5, <1>6, <3>1 DEF FullBlocks, IsLast
    <3>2. CASE c + B < v
      <4>1. ~InBlock(v - 1) /\ m = B
        BY <1>6, <1>7, <3>2 DEF InBlock
      <4>2. r.size = B
        BY <1>4, <1>6, <4>1
      <4>3. cacheSize' = B
        BY <2>1, <3>2, <4>2 DEF MinOf
      <4> QED BY <4>3 DEF FullBlocks
    <3> QED BY <3>1, <3>2
  <2>3. WrittenFull'
    <3>1. CASE v = 0
      <4>1. PICK n \in 0..B : n = r.size
        BY <1>4
      <4>2. cacheSize' = 0
        BY <2>1, <3>1, <4>1 DEF MinOf
      <4> QED BY <4>2 DEF WrittenFull
    <3>2. CASE v # 0
      BY <1>4, <1>5, <3>2 DEF WrittenFull
    <3> QED BY <3>1, <3>2
  <2> QED BY <2>2, <2>3
<1> QED BY <1>5, <1>8, <1>9

LEMMA BlocksFlush ==
  ASSUME BlocksInv, CachedBlockFlush
  PROVE  FullBlocks' /\ WrittenFull'
<1>1. StreamInv
  BY DEF BlocksInv
<1>2. PICK start \in Nat :
        /\ start = IF cacheStart = U64Max THEN 0 ELSE cacheStart
        /\ start % B = 0 /\ start <= Len(file)
  <2>1. 0 % B = 0 /\ Len(file) \in Nat
    BY <1>1, MultipleMod DEF StreamInv, BackingRight
  <2> QED BY <1>1, <2>1 DEF StreamInv, CacheRight, Aligned
<1>3. PICK isFinal \in BOOLEAN : isFinal = IsLast(start, contentSize)
  <2>1. IsLast(start, contentSize) \in BOOLEAN
    BY DEF IsLast
  <2> QED BY <2>1
<1>4. PICK w :
        /\ w = SimpleWrite(file, contentSize, CachedBytes, start,
                           CalculateBlockNumber(start), isFinal)
        /\ w.ok => w.size = MaxOf(contentSize, start + cacheSize)
  BY <1>1, <1>2, CachedWriteFacts
<1>5. w = FlushWrite
  BY <1>2, <1>3, <1>4 DEF FlushWrite
<1>6. CASE w.ok
  <2>1. /\ contentSize' = MaxOf(contentSize, start + cacheSize) /\ writePending' = FALSE
        /\ UNCHANGED <<cacheStart, cacheSize>>
    BY <1>4, <1>5, <1>6 DEF CachedBlockFlush
  <2>2. FullBlocks'
    BY <1>1, <1>2, <2>1, BlocksFacts DEF BlocksInv, FullBlocks, IsLast, MaxOf
  <2> QED BY <2>1, <2>2 DEF WrittenFull
<1>7. CASE ~w.ok
  <2>1. UNCHANGED <<backing, cached>>
    BY <1>5, <1>7 DEF CachedBlockFlush
  <2> QED BY <2>1 DEF backing, cached, BlocksInv, FullBlocks, WrittenFull
<1> QED BY <1>6, <1>7

\* The other steps touch neither the backing stream nor the cache.
LEMMA BlocksSame ==
  ASSUME BlocksInv, UNCHANGED <<backing, cached>>
  PROVE  FullBlocks' /\ WrittenFull'
  BY DEF backing, cached, BlocksInv, FullBlocks, WrittenFull

LEMMA BlocksStep ==
  ASSUME BlocksInv, Readable, [Next]_vars
  PROVE  BlocksInv'
<1>1. StreamInv'
  BY StreamStepInv DEF BlocksInv
<1>2. \/ UNCHANGED <<backing, cached>> \/ UpdateBlockMiss \/ LoadBlock \/ WriteChunk \/ ZeroChunk
      \/ RewriteFinalBlock \/ CachedBlockFlush
  BY DEF Next, Step, vars, Read, Write, ReadAsyncAt, WriteAsyncAt, ReadAsync, WriteAsync,
         Seek, Size, Flush, Start, Refuse, SeekWithin, SeekInvalid, Grow, GrowEndless,
         SizeUnchanged, Shrink, FillWithZeros, FillDone, LoopDone, UpdateBlockHit, ReadFromBlock,
         RelockHangs, Return
<1>3. CASE WriteChunk
  <2>1. PICK bytes \in Seq(Int) : bytes = op.data
    BY StepFacts, OpFields DEF BlocksInv
  <2>2. PICK k \in Nat : k = Room(position, Len(bytes))
    BY BlocksFacts DEF BlocksInv, Room, MinOf, InBlock
  <2>3. WriteToBlock(position, bytes) /\ contentSize' = contentSize /\ cacheSize' \in 0..B
    BY <1>1, <1>3, <2>1 DEF WriteChunk, backing, StreamInv, TypeOK
  <2>4. FullBlocks' /\ WrittenFull'
    BY <2>2, <2>3, BlocksWrite
  <2> QED BY <1>1, <2>4 DEF BlocksInv
<1>4. CASE ZeroChunk
  <2>1. PICK bytes \in Seq(Int) : bytes = Repeat(0, op.zeros)
    <3>1. PICK b \in Int, n \in Nat : b = 0 /\ n = op.zeros
      BY StepFacts DEF BlocksInv
    <3> QED BY <3>1, RepeatType
  <2>2. PICK k \in Nat : k = Room(position, Len(bytes))
    BY BlocksFacts DEF BlocksInv, Room, MinOf, InBlock
  <2>3. WriteToBlock(position, bytes) /\ contentSize' = contentSize /\ cacheSize' \in 0..B
    BY <1>1, <1>4, <2>1 DEF ZeroChunk, backing, StreamInv, TypeOK
  <2>4. FullBlocks' /\ WrittenFull'
    BY <2>2, <2>3, BlocksWrite
  <2> QED BY <1>1, <2>4 DEF BlocksInv
<1> QED BY <1>1, <1>2, <1>3, <1>4, BlocksSame, BlocksMiss, BlocksLoad, BlocksRewrite,
           BlocksFlush DEF BlocksInv

\* On a backing stream that can be read, UpdateBlock never throws "Block is not aligned":
\* whatever was called before and whatever failed, a dirty block that leaves the cache is
\* full, empty, or the last one and then padded.
THEOREM DirtyBlocksCanBeWritten ==
  ASSUME Readable
  PROVE  Spec => []WriteBackNeverFails
<1>1. Init => BlocksInv
  BY StreamInitInv, BlocksInit DEF BlocksInv
<1>2. BlocksInv /\ [Next]_vars => BlocksInv'
  BY BlocksStep
<1> QED BY <1>1, <1>2, WriteBackOk, PTL DEF Spec

-----------------------------------------------------------------------------
(* When Size(v) hangs *)

\* Size(v) with a smaller v: either the content reaches to v already, or the bytes
\* up to v are pending in the cached block.
DirtyCut == writePending /\ ~finalBlockHasBeenWritten /\ op.at < StreamSize

CutRight ==
  /\ op.pc = "fillblock" => op.zeros > 0
  /\ op.pc = "shrink" => op.at < StreamSize
  /\ op.pc = "load" /\ op.kind = "Size" /\ op.zeros = 0 => op.at <= contentSize
  /\ op.pc = "rewrite" => op.at <= contentSize \/ DirtyCut
  /\ op.pc = "stuck" => contentSize < op.at /\ DirtyCut

CutInv == StreamInv /\ CutRight

\* The places in a call that CutRight says nothing about.
LEMMA CutElsewhere ==
  ASSUME op'.pc \notin {"fillblock", "shrink", "load", "rewrite", "stuck"}
  PROVE  CutRight'
  BY DEF CutRight

\* A call that hangs takes no further step; no call starts meanwhile.
LEMMA CutCalls ==
  ASSUME CutInv,
         \/ \E n \in Lengths : Read(n)
         \/ \E d \in Payloads : Write(d)
         \/ \E at \in 0..MaxSize, n \in Lengths : ReadAsyncAt(at, n)
         \/ \E at \in 0..MaxSize, d \in Payloads : WriteAsyncAt(at, d)
         \/ \E p \in 0..MaxSize : Seek(p)
         \/ \E v \in 0..MaxSize : Size(v)
         \/ Flush
  PROVE  CutRight'
<1>1. op'.pc \in {"idle", "seek", "size", "flush"}
  BY DEF Read, Write, ReadAsyncAt, WriteAsyncAt, ReadAsync, WriteAsync, Seek, Size, Flush,
         Start, Refuse, MayCall
<1> QED BY <1>1, CutElsewhere

\* UpdateBlock writes the pending bytes back when it has to load another block, so
\* the content then reaches to v; a block that stays keeps them pending.
LEMMA CutMiss ==
  ASSUME CutInv, UpdateBlockMiss
  PROVE  CutRight'
<1>1. PICK p \in Nat : p = NeededOffset
  BY NeededWithin DEF UpdateBlockMiss, CutInv
<1>2. PICK w : w = WriteBack(p) /\ (w.ok => StreamSize <= w.size) /\ w.size \in Nat
  BY WriteBackFacts DEF CutInv
<1>3. CASE w.ok
  <2>1. /\ contentSize' = w.size /\ NeedsBlock
        /\ op' = [op EXCEPT !.pc = "load", !.blk = CalculateBlockNumber(p)]
    BY <1>1, <1>2, <1>3 DEF UpdateBlockMiss
  <2>2. /\ op'.pc = "load" /\ op'.kind = op.kind /\ op'.zeros = op.zeros /\ op'.at = op.at
    BY <2>1, StepFacts DEF CutInv, Ops
  <2>3. op.kind = "Size" /\ op.zeros = 0 => op.pc = "shrink"
    BY <2>1 DEF NeedsBlock, LoopGoesOn, CutInv, CutRight
  <2>4. op.kind = "Size" /\ op.zeros = 0 => op.at < StreamSize
    BY <2>3 DEF CutInv, CutRight
  <2>5. op.at \in Nat /\ StreamSize \in Nat
    BY StepFacts DEF CutInv
  <2> QED BY <1>2, <1>3, <2>1, <2>2, <2>4, <2>5 DEF CutRight
<1>4. CASE ~w.ok
  <2>1. Throw
    BY <1>1, <1>2, <1>4 DEF UpdateBlockMiss
  <2>2. op'.pc = "idle"
    BY <2>1, ThrowFields DEF CutInv
  <2> QED BY <2>2, CutElsewhere
<1> QED BY <1>3, <1>4

LEMMA CutHit ==
  ASSUME CutInv, UpdateBlockHit
  PROVE  CutRight'
<1>1. NeedsBlock /\ Goto(AfterUpdate) /\ UNCHANGED <<backing, cached>>
  BY DEF UpdateBlockHit
<1>2. AfterUpdate \in {"zero", "rewrite", "copy"}
  BY DEF AfterUpdate
<1>3. op'.pc = AfterUpdate /\ op'.at = op.at
  BY <1>1, <1>2, GotoFields, StepFacts DEF CutInv
<1>4. CASE AfterUpdate = "rewrite"
  <2>1. op.kind = "Size" /\ op.zeros = 0
    BY <1>4, StepFacts DEF AfterUpdate, CutInv
  <2>2. op.pc = "shrink"
    BY <1>1, <2>1 DEF NeedsBlock, LoopGoesOn, CutInv, CutRight
  <2>3. op.at < StreamSize /\ op.at \in Nat /\ StreamSize \in Nat
    BY <2>2, StepFacts DEF CutInv, CutRight
  <2>4. op.at <= contentSize \/ DirtyCut
    BY <2>3 DEF StreamSize, DirtyCut
  <2> QED BY <1>1, <1>3, <1>4, <2>4 DEF CutRight, DirtyCut, StreamSize, backing, cached
<1>5. CASE AfterUpdate # "rewrite"
  BY <1>2, <1>3, <1>5, CutElsewhere
<1> QED BY <1>4, <1>5

LEMMA CutLoad ==
  ASSUME CutInv, LoadBlock
  PROVE  CutRight'
<1>1. op.pc = "load" /\ contentSize' = contentSize /\ (Goto(AfterUpdate) \/ Throw)
  BY DEF LoadBlock, backing
<1>2. CASE Throw
  <2>1. op'.pc = "idle"
    BY <1>2, ThrowFields DEF CutInv
  <2> QED BY <2>1, CutElsewhere
<1>3. CASE Goto(AfterUpdate)
  <2>1. AfterUpdate \in {"zero", "rewrite", "copy"}
    BY DEF AfterUpdate
  <2>2. op'.pc = AfterUpdate /\ op'.at = op.at
    BY <1>3, <2>1, GotoFields, StepFacts DEF CutInv
  <2>3. AfterUpdate = "rewrite" => op.at <= contentSize
    BY <1>1, StepFacts DEF AfterUpdate, CutInv, CutRight
  <2> QED BY <1>1, <2>1, <2>2, <2>3 DEF CutRight
<1> QED BY <1>1, <1>2, <1>3

LEMMA CutStep == CutInv /\ [Next]_vars => CutInv'
<1> SUFFICES ASSUME CutInv, [Next]_vars PROVE CutRight'
  BY StreamStepInv DEF CutInv
<1> USE DEF CutInv
<1>1. CASE UNCHANGED vars
  BY <1>1 DEF vars, backing, cached, cursor, CutRight, DirtyCut, StreamSize
<1>2. CASE Shrink
  <2>1. /\ op.at < StreamSize /\ UNCHANGED <<backing, cached>>
        /\ Goto(IF op.at = 0 THEN "rewrite" ELSE "shrink")
    BY <1>2, StepFacts DEF Shrink
  <2>2. PICK pc \in {"rewrite", "shrink"} : Goto(pc) /\ (pc = "rewrite" => op.at = 0)
    BY <2>1
  <2>3. op'.pc = pc /\ op'.at = op.at
    BY <2>2, GotoFields, StepFacts
  <2>4. contentSize' \in Nat
    BY <2>1, StepFacts DEF TypeOK, backing
  <2> QED BY <2>1, <2>2, <2>3, <2>4, SameSize DEF CutRight
<1>3. CASE FillWithZeros
  <2>1. /\ op' = [op EXCEPT !.pc = "fillblock", !.zeros = MinOf(op.at - StreamSize, B)]
        /\ op.at > StreamSize
    BY <1>3, StepFacts DEF FillWithZeros
  <2>2. MinOf(op.at - StreamSize, B) > 0
    BY <2>1, StepFacts DEF MinOf
  <2>3. op'.pc = "fillblock" /\ op'.zeros > 0
    BY <2>1, <2>2, StepFacts DEF Ops
  <2> QED BY <2>3 DEF CutRight
<1>4. CASE ZeroChunk
  <2>1. PICK k : k = Room(position, op.zeros)
    OBVIOUS
  <2>2. k \in Nat /\ k <= op.zeros
    <3>1. cacheStart \in Nat /\ position \in Nat /\ op.zeros \in Nat
      BY StepFacts DEF TypeOK
    <3> QED BY <2>1, <3>1 DEF Room, MinOf, InBlock
  <2>3. op' = [op EXCEPT !.zeros = IF k = 0 THEN 0 ELSE op.zeros - k,
                         !.pc = IF k = 0 \/ k = op.zeros THEN "fill" ELSE "fillblock"]
    BY <1>4, <2>1 DEF ZeroChunk
  <2>4. op'.pc = "fill" \/ (op'.pc = "fillblock" /\ op'.zeros > 0)
    BY <2>2, <2>3, StepFacts DEF Ops
  <2> QED BY <2>4 DEF CutRight
<1>5. CASE RelockHangs
  <2>1. /\ op.pc = "rewrite" /\ contentSize < op.at /\ Goto("stuck")
        /\ UNCHANGED <<backing, cached>>
    BY <1>5 DEF RelockHangs
  <2>2. op'.pc = "stuck" /\ op'.at = op.at
    BY <2>1, GotoFields, StepFacts
  <2>3. DirtyCut
    BY <2>1, StepFacts DEF CutRight, TypeOK
  <2> QED BY <2>1, <2>2, <2>3 DEF CutRight, DirtyCut, StreamSize, backing, cached
<1>6. CASE SeekWithin \/ SeekInvalid \/ Grow \/ GrowEndless \/ SizeUnchanged \/ FillDone
           \/ LoopDone
  <2>1. AfterSeek \in {"loop", "return"}
    BY DEF AfterSeek
  <2>2. PICK pc \in {"loop", "return", "fill", "endless"} : Goto(pc)
    BY <1>6, <2>1 DEF SeekWithin, SeekInvalid, Grow, GrowEndless, SizeUnchanged, FillDone,
       LoopDone
  <2>3. op'.pc = pc
    BY <2>2, GotoFields, StepFacts
  <2> QED BY <2>2, <2>3, CutElsewhere
<1>7. CASE ReadFromBlock \/ WriteChunk
  <2>1. op'.pc \in {"loop", "return"}
    BY <1>7, StepFacts DEF ReadFromBlock, WriteChunk, Ops
  <2> QED BY <2>1, CutElsewhere
<1>8. CASE RewriteFinalBlock \/ CachedBlockFlush \/ Return
  <2>1. Throw \/ Goto("return") \/ op' = Idle
    BY <1>8 DEF RewriteFinalBlock, SizeInternalThrows, SizeInternalCuts, CachedBlockFlush,
       Return
  <2>2. op'.pc \in {"idle", "return"}
    BY <2>1, ThrowFields, GotoFields, StepFacts DEF Idle
  <2> QED BY <2>2, CutElsewhere
<1>9. Next => \/ Shrink \/ FillWithZeros \/ ZeroChunk \/ RelockHangs
              \/ SeekWithin \/ SeekInvalid \/ Grow \/ GrowEndless \/ SizeUnchanged
              \/ FillDone \/ LoopDone \/ ReadFromBlock \/ WriteChunk
              \/ RewriteFinalBlock \/ CachedBlockFlush \/ Return
              \/ UpdateBlockHit \/ UpdateBlockMiss \/ LoadBlock
              \/ CutRight'
  BY CutCalls DEF Next, Step
<1> QED BY <1>1, <1>2, <1>3, <1>4, <1>5, <1>6, <1>7, <1>8, <1>9, CutHit, CutMiss, CutLoad

\* Whatever was called before and whatever failed: SimpleProtectedStream::Size waits for
\* its own mutex only when Size(v) cuts into bytes that are pending in the cache, so
\* never on a stream that has been flushed.
THEOREM SizeHangsOnlyWhenDirty == Spec => []SizeHangsOnlyDirty
<1>1. Init => CutInv
  <2> SUFFICES ASSUME Init PROVE CutInv
    OBVIOUS
  <2>1. op.pc = "idle"
    BY DEF Init, Idle
  <2> QED BY <2>1, StreamInitInv DEF CutInv, CutRight
<1>2. CutInv => SizeHangsOnlyDirty
  BY StepFacts DEF CutInv, CutRight, DirtyCut, SizeHangsOnlyDirty
<1> QED BY <1>1, <1>2, CutStep, PTL DEF Spec
=============================================================================
