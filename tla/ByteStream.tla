---------------------------- MODULE ByteStream -----------------------------
(***************************************************************************)
(* What a protected stream promises its client: it behaves as a plain      *)
(* random-access byte stream (rmscrypto IStream, "transparent encryption   *)
(* and decryption").  A call takes effect when it is made; its result is   *)
(* delivered when it returns.  Calls do not overlap: the stream's lock is  *)
(* held from call to return.                                               *)
(***************************************************************************)
EXTENDS StreamBytes

CONSTANTS Writable,      \* may the stream be written
          Payloads,      \* the byte strings a client writes
          Lengths,       \* the lengths a client reads
          InitialTexts,  \* the plaintexts a stream may be opened on
          MaxSize        \* bound on offsets and sizes

VARIABLES content,   \* the plaintext bytes
          position,  \* the client's position
          call,      \* the call in progress
          result     \* what the last call returned

vars == <<content, position, call, result>>

NoCall == [kind |-> "None", at |-> 0, n |-> 0]

Init == /\ content \in InitialTexts
        /\ position = 0
        /\ call = NoCall
        /\ result = [kind |-> "None", status |-> "ok", data |-> <<>>]

Call(kind, at, n, text) ==
  /\ call = NoCall
  /\ call' = [kind |-> kind, at |-> at, n |-> n]
  /\ content' = text
  /\ UNCHANGED <<position, result>>

CallRead == \E at \in 0..MaxSize, n \in Lengths : Call("Read", at, n, content)

CallWrite ==
  /\ Writable
  /\ \E at \in 0..MaxSize, d \in Payloads :
       Call("Write", at, Len(d), Splice(content, at, d, 0))

\* Seeking past the end of a writable stream extends it with zeros.
CallSeek ==
  \E at \in 0..MaxSize :
    Call("Seek", at, 0,
         IF Writable /\ at > Len(content) THEN Resize(content, at) ELSE content)

CallSize == Writable /\ \E v \in 0..MaxSize : Call("Size", v, 0, Resize(content, v))

CallFlush == Call("Flush", 0, 0, content)

\* A call that is not allowed is refused at once.
Refuse ==
  /\ call = NoCall
  /\ result' = [kind |-> "Refused", status |-> "invalid", data |-> <<>>]
  /\ UNCHANGED <<content, position, call>>

Data == IF call.kind = "Read" THEN Slice(content, call.at, call.n) ELSE <<>>

\* Flushing a stream that cannot be written throws.
Status == IF call.kind = "Flush" /\ ~Writable THEN "exception" ELSE "ok"

Return ==
  /\ call # NoCall
  /\ call' = NoCall
  /\ result' = [kind |-> call.kind, status |-> Status, data |-> Data]
  /\ CASE call.kind = "Read"  -> position' = call.at + Len(Data)
       [] call.kind = "Write" -> position' = call.at + call.n
       [] call.kind = "Seek"  -> \/ position' = call.at
                                 \/ /\ call.at > Len(content)
                                    /\ position' = position
       [] call.kind = "Size"  -> position' = MinOf(position, call.at)
       [] call.kind = "Flush" -> position' = position
  /\ UNCHANGED content

Next == \/ CallRead \/ CallWrite \/ CallSeek \/ CallSize \/ CallFlush
        \/ Refuse \/ Return

Spec == Init /\ [][Next]_vars
=============================================================================
