------------------------------- MODULE PFile -------------------------------
(***************************************************************************)
(* The header of a protected file: what PfileHeaderWriter lays out and what*)
(* PfileHeaderReader makes of the bytes it finds.  The parts of variable   *)
(* length are represented by their lengths, the bytes by where they are.   *)
(*                                                                         *)
(* A file may have been cut, or still be growing under its writer.  The    *)
(* reader ignores how much IStream::Read delivered, so a number it could   *)
(* not read keeps the value the variable had: 0, or anything for the       *)
(* variables that are not initialised.  It goes on from where the file     *)
(* ended: when the file has grown since, what it reads is not the number   *)
(* laid out there, and nothing is said of it.                              *)
(***************************************************************************)
EXTENDS Integers

\* The length of CleartextRedirectHeader, the text for readers without the SDK.
RedirectLength == 396

\* Version, and lengths of extension, publishing license and metadata.
Headers == [major : 2..3, minor : 0..255, ext : Nat, pl : Nat, md : Nat]

\* Files without original size and metadata have version 2.0.
HasMetadata(major, minor) == major > 2 \/ (major = 2 /\ minor >= 1)

HeaderSize(major, minor) == IF HasMetadata(major, minor) THEN 8 * 4 + 8 ELSE 6 * 4
redirectOffset  == 6 + 2 * 4
headerOffset    == redirectOffset + 4 + RedirectLength

\* The offsets in the header.
WriteHeader(h) ==
  LET extensionOffset == headerOffset + HeaderSize(h.major, h.minor)
      plOffset        == extensionOffset + h.ext
      metadataOffset  == plOffset + h.pl
  IN  [ext |-> extensionOffset, pl |-> plOffset, md |-> metadataOffset,
       content |-> metadataOffset + h.md]

-----------------------------------------------------------------------------
(* Reading a file with header h of which n bytes exist, a number at a time *)

\* Where the numbers are.
majorAt   == 6
minorAt   == majorAt + 4
lengthAt  == redirectOffset
extAt     == headerOffset + 4
extLenAt  == headerOffset + 8
plAt      == headerOffset + 12
plLenAt   == headerOffset + 16
contentAt == headerOffset + 20
originalAt == headerOffset + 24
mdAt      == headerOffset + 32
mdLenAt   == headerOffset + 36
Places == {majorAt, minorAt, lengthAt, extAt, extLenAt, plAt, plLenAt, contentAt, mdAt, mdLenAt}

\* The number laid out at a place.
Value(h, at) ==
  LET w == WriteHeader(h)
  IN  CASE at = majorAt   -> h.major
        [] at = minorAt   -> h.minor
        [] at = lengthAt  -> RedirectLength
        [] at = extAt     -> w.ext
        [] at = extLenAt  -> h.ext
        [] at = plAt      -> w.pl
        [] at = plLenAt   -> h.pl
        [] at = contentAt -> w.content
        [] at = mdAt      -> w.md
        [] OTHER          -> h.md

\* A number of which nothing is known, and the variables before they are read.
Unknown == -1
Numbers == Nat \cup {Unknown}
Uninitialised == [at \in Places |-> IF at \in {majorAt, minorAt, lengthAt} THEN Unknown ELSE 0]

\* How many of the bytes from offset on are there.
Present(n, offset, length) ==
  IF offset >= n THEN 0 ELSE IF offset + length <= n THEN length ELSE n - offset

Length(at) == IF at = originalAt THEN 8 ELSE 4

\* stream->Read delivers k bytes of a number into a variable with a value.
ReadNumber(old, value, k) ==
  IF k = 4 THEN value
  ELSE IF k = 0 \/ old = Unknown THEN old
  ELSE CASE k = 3 -> value % (256 * 256 * 256)
         [] k = 2 -> value % (256 * 256)
         [] OTHER -> value % 256

\* The reader remembers nothing of a short read, the model does: the size the file
\* had at the first one, or Whole.
Whole == headerOffset + HeaderSize(3, 0)
ShortAfter(short, n, at, length) == IF short = Whole /\ n < at + length THEN n ELSE short

\* The number read at a place, from where it is or out of step.
NumberRead(h, old, short, n, at) ==
  IF short = Whole THEN ReadNumber(old, Value(h, at), Present(n, at, 4))
  ELSE IF n > short THEN Unknown
  ELSE old

\* Sums and comparisons; those with a number of which nothing is known come out either way.
Plus(a, b) == IF Unknown \in {a, b} THEN Unknown ELSE a + b
MayExceed(a, b) == Unknown \in {a, b} \/ a > b
MayNotExceed(a, b) == Unknown \in {a, b} \/ a <= b

\* The values a number of which nothing is known may have.
Possible(number, values) == IF number = Unknown THEN values ELSE {number}

-----------------------------------------------------------------------------
(* ProtectedFileStream::Create *)

\* The header of a new file without metadata, and where its content begins.
NewHeader(ext, pl) == [major |-> 3, minor |-> 0, ext |-> ext, pl |-> pl, md |-> 0]

\* Mutation of contentStartPosition: one byte off.
contentStartPositionShort(h) == h.ext + h.pl + h.md + 453

contentStartPosition(h) == h.ext + h.pl + h.md + 454
=============================================================================
