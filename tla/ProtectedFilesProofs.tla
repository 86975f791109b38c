------------------------ MODULE ProtectedFilesProofs ------------------------
(***************************************************************************)
(* The properties of ProtectedFiles for any files, licenses, threads, cuts *)
(* and number of policy objects.                                           *)
(*                                                                         *)
(* FilesInv, for where streams start: what a reader has read so far is what*)
(* the header's writer laid out, up to its first short read (ReadRight), so*)
(* a call that goes on with a whole license has the right start, unless the*)
(* file has overtaken it (StartRight).                                     *)
(* CipherInv, for new files: a policy whose license has no old file keeps  *)
(* the cipher of the license, since nobody converts it (Conversions), and  *)
(* so do the files and streams made with it; Versions, that a call with a  *)
(* license has the version of its file, or that license is noted.          *)
(* ConversionInv, for old files: a policy in mode CBC4K has that provider  *)
(* unless a thread is between the assignments (Converted), and a call that *)
(* is past the check has found or set that mode (Checked).                 *)
(***************************************************************************)
EXTENDS ProtectedFiles, TLAPS

\* The places of the numbers.
LEMMA Offsets ==
  /\ majorAt = 6 /\ minorAt = 10 /\ lengthAt = 14 /\ headerOffset = 414
  /\ extAt = 418 /\ extLenAt = 422 /\ plAt = 426 /\ plLenAt = 430 /\ contentAt = 434
  /\ originalAt = 438 /\ mdAt = 446 /\ mdLenAt = 450 /\ Whole = 454
  BY DEF majorAt, minorAt, lengthAt, headerOffset, redirectOffset, RedirectLength, extAt, extLenAt,
         plAt, plLenAt, contentAt, originalAt, mdAt, mdLenAt, Whole, HeaderSize, HasMetadata

LEMMA SizeOfHeader ==
  ASSUME NEW v \in Int, NEW m \in Int
  PROVE  HeaderSize(v, m) \in {24, 40}
  BY DEF HeaderSize

LEMMA LayoutNat ==
  ASSUME NEW h \in Headers
  PROVE  /\ WriteHeader(h).ext \in Nat /\ WriteHeader(h).pl \in Nat /\ WriteHeader(h).md \in Nat
         /\ WriteHeader(h).pl >= contentAt + 4
         /\ WriteHeader(h).content \in Nat
         /\ h.md = 0 => WriteHeader(h).content = WriteHeader(h).pl + h.pl
<1>1. HeaderSize(h.major, h.minor) \in {24, 40}
  BY SizeOfHeader DEF Headers
<1> QED BY <1>1, Offsets DEF Headers, WriteHeader

LEMMA ValueNat ==
  ASSUME NEW h \in Headers, NEW at \in Places
  PROVE  Value(h, at) \in Nat
<1>1. RedirectLength \in Nat
  BY DEF RedirectLength
<1> QED BY <1>1, LayoutNat, Offsets DEF Value, Places, Headers

\* Reading a number gives a number, and the right one in step and whole.
LEMMA NumberIsNumber ==
  ASSUME NEW h \in Headers, NEW old \in Numbers, NEW short \in Nat, NEW n \in Nat, NEW at \in Places
  PROVE  NumberRead(h, old, short, n, at) \in Numbers
<1>1. PICK v \in Nat : v = Value(h, at)
  BY ValueNat
<1>2. \A k : ReadNumber(old, v, k) \in Numbers
  BY DEF ReadNumber, Numbers
<1> QED BY <1>1, <1>2 DEF NumberRead, Numbers

LEMMA NumberIsRight ==
  ASSUME NEW h \in Headers, NEW old \in Numbers, NEW n \in Nat, NEW at \in Places, at + 4 <= n
  PROVE  NumberRead(h, old, Whole, n, at) = Value(h, at)
<1>1. at \in Nat
  BY Offsets DEF Places
<1>2. Present(n, at, 4) = 4
  BY <1>1 DEF Present
<1> QED BY <1>2 DEF NumberRead, ReadNumber

\* The version is right or not known.
LEMMA MajorRead ==
  ASSUME NEW h \in Headers, NEW short, NEW n
  PROVE  NumberRead(h, Unknown, short, n, majorAt) \in {Unknown, 2, 3}
<1>1. Value(h, majorAt) \in {2, 3}
  BY Offsets DEF Value, Headers
<1> QED BY <1>1 DEF NumberRead, ReadNumber

-----------------------------------------------------------------------------
Content(n) == WriteHeader(files[n].header).content

\* The places of the numbers up to the content offset, as read in turn.
Turns == {majorAt, minorAt, lengthAt, headerOffset, extAt, extLenAt, plAt, plLenAt, contentAt}

\* What is known of a call that reads the header of a file: where it is, that a read
\* before that place was the first to fall short, if any was, and that the content
\* offset is right when it was there to be read.
ReadRight(c, f) ==
  /\ c.short = Whole \/ c.short < c.at
  /\ c.pc = "read" => c.at \in Turns \/ c.at > contentAt
  /\ c.pc = "version" => c.at = lengthAt
  /\ c.pc = "redirect" => c.at = lengthAt + 4
  /\ c.pc \in {"extension", "license", "metadata"} => c.at > contentAt
  /\ c.got[majorAt] \in {Unknown, 2, 3}
  /\ c.at = majorAt => c.got[majorAt] = Unknown
  /\ c.at >= lengthAt /\ c.pc # "version" => c.got[majorAt] # Unknown
  /\ c.at > contentAt /\ c.short >= contentAt + 4 => c.got[contentAt] = WriteHeader(f.header).content
  /\ c.pc = "metadata" => f.header.pl > 0 /\ WriteHeader(f.header).pl + f.header.pl <= f.size

\* A call that has read or laid out its header knows where the content begins, unless
\* the file has overtaken it, and the file already reaches there.
StartRight(c, f) ==
  /\ \/ c.short < contentAt + 4 /\ c.short < f.size
     \/ c.start = WriteHeader(f.header).content
  /\ f.header.md = 0 /\ c.pc # "write" => WriteHeader(f.header).content <= f.size

CallsRight ==
  \A t \in Threads :
    /\ call[t].pc \in Reading => ReadRight(call[t], files[call[t].name])
    /\ call[t].pc \notin Reading \cup {"idle"} => StartRight(call[t], files[call[t].name])

FilesInv == TypeOK /\ CallsRight /\ StartsAgree

USE ProtectedFilesConstants DEF At, Goto, Fail, Idle

LEMMA FilesInitInv == Init => FilesInv
<1> SUFFICES ASSUME Init PROVE FilesInv
  OBVIOUS
<1>1. TypeOK
  BY DEF Init, TypeOK, Opening
<1>2. CallsRight /\ StartsAgree
  BY DEF Init, CallsRight, StartsAgree, Reading
<1> QED BY <1>1, <1>2 DEF FilesInv

\* A call that reads the header of a file.
LEMMA ReadCall ==
  ASSUME FilesInv, NEW t \in Threads, call[t].pc \in Reading
  PROVE  /\ call[t] \in ReadCalls /\ call[t].name \in Names
         /\ files[call[t].name] \in Files /\ files[call[t].name] # NoFile
         /\ files[call[t].name].header \in Headers /\ files[call[t].name].size \in Nat
         /\ files[call[t].name].license \in Licenses
         /\ call[t].at \in Nat /\ call[t].short \in Nat /\ call[t].got \in [Places -> Numbers]
         /\ ReadRight(call[t], files[call[t].name])
<1>1. call[t] \in ReadCalls
  BY DEF FilesInv, TypeOK, AcquireCalls, PolicyCalls, Reading
<1>2. call[t].name \in Names /\ call[t].at \in Nat /\ call[t].short \in Nat
      /\ call[t].got \in [Places -> Numbers]
  BY <1>1 DEF ReadCalls
<1>3. files[call[t].name] \in Files /\ files[call[t].name] # NoFile
  BY <1>2 DEF FilesInv, TypeOK, Reading
<1>4. ReadRight(call[t], files[call[t].name])
  BY DEF FilesInv, CallsRight
<1> QED BY <1>1, <1>2, <1>3, <1>4 DEF Files

\* A step of the reader leads to a right state when the call it leads to is right.
LEMMA ReadsOn ==
  ASSUME FilesInv, NEW t \in Threads, NEW n \in Names, files[n] # NoFile, NEW c,
         \/ c = Idle
         \/ c \in ReadCalls /\ c.name = n /\ ReadRight(c, files[n])
         \/ c \in AcquireCalls /\ c.name = n /\ StartRight(c, files[n]),
         call' = [call EXCEPT ![t] = c],
         UNCHANGED <<files, objects>>,
         \/ UNCHANGED stream
         \/ stream' = [stream EXCEPT ![t] = NoStream],
         misread' \subseteq Licenses
  PROVE  FilesInv'
<1>1. \/ c = Idle /\ c.pc = "idle"
      \/ c \in ReadCalls /\ c.pc \in Reading /\ c.name = n /\ ReadRight(c, files[n])
      \/ c \in AcquireCalls /\ c.pc = "acquire" /\ c.name = n /\ StartRight(c, files[n])
  BY DEF ReadCalls, AcquireCalls
<1>2. /\ call' \in [Threads -> {Idle} \cup ReadCalls \cup AcquireCalls \cup PolicyCalls]
      /\ call'[t] = c /\ \A u \in Threads : u # t => call'[u] = call[u]
  BY <1>1 DEF FilesInv, TypeOK
<1>3. c.pc \in Opening /\ (c.pc # "idle" => c.name = n)
  BY <1>1 DEF Opening
<1>4. /\ stream' \in [Threads -> {NoStream} \cup Streams]
      /\ \A u \in Threads : stream'[u] \in {stream[u], NoStream}
  BY DEF FilesInv, TypeOK
<1>5. TypeOK'
  <2>1. \A u \in Threads : ~At(u, "idle")' => files'[call'[u].name] # NoFile
    BY <1>2, <1>3 DEF FilesInv, TypeOK
  <2>2. \A u \in Threads : call'[u].pc \notin Opening =>
          /\ call'[u].object \in DOMAIN objects'
          /\ objects'[call'[u].object].license = files'[call'[u].name].license
    BY <1>2, <1>3 DEF FilesInv, TypeOK
  <2>3. \A u \in Threads : stream'[u] # NoStream => files'[stream'[u].name] # NoFile
    BY <1>4 DEF FilesInv, TypeOK
  <2> QED BY <1>2, <1>4, <2>1, <2>2, <2>3 DEF FilesInv, TypeOK
<1>6. CallsRight'
  <2> SUFFICES ASSUME NEW u \in Threads
               PROVE  /\ call'[u].pc \in Reading => ReadRight(call'[u], files[call'[u].name])
                      /\ call'[u].pc \notin Reading \cup {"idle"} =>
                           StartRight(call'[u], files[call'[u].name])
    BY ZenonT(60) DEF CallsRight, ReadRight, StartRight
  <2>1. CASE u = t
    BY <1>1, <1>2, <2>1 DEF Reading
  <2>2. CASE u # t
    BY <1>2, <2>2 DEF FilesInv, CallsRight
  <2> QED BY <2>1, <2>2
<1>7. StartsAgree'
  BY <1>4 DEF FilesInv, StartsAgree, Overtaken
<1> QED BY <1>5, <1>6, <1>7 DEF FilesInv

LEMMA CheckPreambleInv ==
  ASSUME FilesInv, NEW t \in Threads, NEW n \in Names, CheckPreamble(t, n)
  PROVE  FilesInv'
<1>1. files[n] # NoFile /\ UNCHANGED <<files, objects, misread>> /\ misread \subseteq Licenses
      /\ stream' = [stream EXCEPT ![t] = NoStream]
  BY DEF CheckPreamble, FilesInv, TypeOK, GiveUp
<1>2. CASE call' = [call EXCEPT ![t] = Idle]
  BY <1>1, <1>2, ReadsOn
<1>3. ASSUME NEW c, c = [pc |-> "read", name |-> n, at |-> majorAt, short |-> Whole,
                         got |-> Uninitialised],
             call' = [call EXCEPT ![t] = c]
      PROVE  FilesInv'
  <2>1. /\ Uninitialised \in [Places -> Numbers]
        /\ Uninitialised[majorAt] = Unknown
    BY Offsets DEF Uninitialised, Places, Numbers
  <2>2. c \in ReadCalls
    BY <1>3, <2>1, Offsets DEF ReadCalls, Reading
  <2>3. ReadRight(c, files[n])
    BY <1>3, <2>1, Offsets DEF ReadRight, Turns
  <2> QED BY <1>1, <1>3, <2>2, <2>3, ReadsOn
<1> QED BY <1>2, <1>3 DEF CheckPreamble

LEMMA ReadOneInv ==
  ASSUME FilesInv, NEW t \in Threads, ReadOne(t)
  PROVE  FilesInv'
<1>1. PICK c : c = call[t]
  OBVIOUS
<1>2. PICK n \in Names : n = c.name
  BY <1>1, ReadCall DEF ReadOne, Reading
<1>3. /\ c \in ReadCalls /\ files[n] # NoFile /\ files[n].header \in Headers
      /\ files[n].size \in Nat /\ c.at \in Nat /\ c.short \in Nat
      /\ c.got \in [Places -> Numbers] /\ ReadRight(c, files[n]) /\ c.pc = "read"
  BY <1>1, <1>2, ReadCall DEF ReadOne, Reading
<1> DEFINE g == [p \in Places |->
                  IF p = c.at THEN NumberRead(files[n].header, c.got[p], c.short, files[n].size, p)
                  ELSE c.got[p]]
           s == ShortAfter(c.short, files[n].size, c.at, Length(c.at))
           d == [pc |-> AfterNumber(c), name |-> c.name, at |-> c.at + Length(c.at), short |-> s,
                 got |-> g]
<1>4. g \in [Places -> Numbers]
  BY <1>3, NumberIsNumber
<1>5. Length(c.at) \in {4, 8} /\ (c.at <= contentAt => Length(c.at) = 4)
  BY <1>3, Offsets DEF Length
<1>6. s \in Nat /\ (s = Whole \/ s < c.at + Length(c.at))
  BY <1>3, <1>5 DEF ShortAfter, ReadRight
<1>7. /\ d.pc = AfterNumber(c) /\ d.name = n /\ d.at = c.at + Length(c.at)
      /\ d.short = s /\ d.got = g
  BY <1>2
<1>8. AfterNumber(c) \in {"read", "version", "redirect", "extension"}
  BY DEF AfterNumber
<1>9. d \in ReadCalls
  <2> HIDE DEF g, s
  <2>1. c.at + Length(c.at) \in Nat
    BY <1>3, <1>5
  <2> QED BY <1>2, <1>4, <1>6, <1>8, <2>1 DEF ReadCalls, Reading
<1>10. call' = [call EXCEPT ![t] = d] /\ UNCHANGED <<files, objects, stream, misread>>
  BY <1>1, <1>2 DEF ReadOne
<1>11. g[majorAt] \in {Unknown, 2, 3} /\ (c.at # majorAt => g[majorAt] = c.got[majorAt])
  <2>1. majorAt \in Places
    BY DEF Places
  <2>2. CASE c.at = majorAt
    <3>1. c.got[majorAt] = Unknown
      BY <1>3, <2>2 DEF ReadRight
    <3> QED BY <1>3, <2>1, <2>2, <3>1, MajorRead
  <2>3. CASE c.at # majorAt
    BY <1>3, <2>1, <2>3 DEF ReadRight
  <2> QED BY <2>2, <2>3
<1>12. c.at + Length(c.at) > contentAt /\ s >= contentAt + 4 =>
         g[contentAt] = WriteHeader(files[n].header).content
  <2> SUFFICES ASSUME c.at + Length(c.at) > contentAt, s >= contentAt + 4
               PROVE  g[contentAt] = WriteHeader(files[n].header).content
    OBVIOUS
  <2>1. contentAt \in Places
    BY DEF Places
  <2>2. CASE c.at > contentAt
    <3>1. c.short >= contentAt + 4
      BY <1>3, Offsets DEF ShortAfter
    <3>2. g[contentAt] = c.got[contentAt]
      BY <1>3, <2>1, <2>2, Offsets
    <3> QED BY <1>3, <2>2, <3>1, <3>2 DEF ReadRight
  <2>3. CASE ~(c.at > contentAt)
    <3>1. c.at = contentAt
      BY <1>3, <1>5, <2>3, Offsets DEF ReadRight, Turns
    <3>2. c.short = Whole /\ contentAt + 4 <= files[n].size
      BY <1>3, <1>5, <2>3, <3>1, Offsets DEF ShortAfter, ReadRight
    <3>3. NumberRead(files[n].header, c.got[contentAt], Whole, files[n].size, contentAt) =
            Value(files[n].header, contentAt)
      BY <1>3, <2>1, <3>2, NumberIsRight
    <3>4. Value(files[n].header, contentAt) = WriteHeader(files[n].header).content
      BY Offsets DEF Value
    <3> QED BY <2>1, <3>1, <3>2, <3>3, <3>4
  <2> QED BY <2>2, <2>3
<1> HIDE DEF g, s, d
<1>13. /\ AfterNumber(c) = "version" => c.at = minorAt
       /\ AfterNumber(c) = "redirect" => c.at = lengthAt
       /\ AfterNumber(c) = "extension" => c.at + Length(c.at) > contentAt
       /\ AfterNumber(c) = "read" => c.at \notin {minorAt, lengthAt}
  <2>1. HeaderSize(c.got[majorAt], c.got[minorAt]) \in {24, 40}
    BY DEF HeaderSize
  <2> QED BY <1>3, <1>5, <2>1, Offsets DEF AfterNumber
<1>14. ReadRight(d, files[n])
  <2>1. d.short = Whole \/ d.short < d.at
    BY <1>6, <1>7
  <2>2. d.pc = "read" => d.at \in Turns \/ d.at > contentAt
    BY <1>3, <1>5, <1>7, <1>13, Offsets DEF ReadRight, Turns
  <2>3. /\ d.pc = "version" => d.at = lengthAt
        /\ d.pc = "redirect" => d.at = lengthAt + 4
        /\ d.pc \in {"extension", "license", "metadata"} => d.at > contentAt
        /\ d.pc # "metadata"
    BY <1>3, <1>5, <1>7, <1>8, <1>13, Offsets
  <2>4. /\ d.got[majorAt] \in {Unknown, 2, 3} /\ d.at # majorAt
        /\ d.at > contentAt /\ d.short >= contentAt + 4 =>
             d.got[contentAt] = WriteHeader(files[n].header).content
    BY <1>3, <1>5, <1>7, <1>11, <1>12, Offsets DEF ReadRight, Turns
  <2>5. d.at >= lengthAt /\ d.pc # "version" => d.got[majorAt] # Unknown
    BY <1>3, <1>5, <1>7, <1>11, <1>13, Offsets DEF ReadRight, Turns, AfterNumber
  <2> QED BY <2>1, <2>2, <2>3, <2>4, <2>5 DEF ReadRight
<1> QED BY <1>3, <1>7, <1>9, <1>10, <1>14, ReadsOn DEF FilesInv, TypeOK

LEMMA CheckVersionInv ==
  ASSUME FilesInv, NEW t \in Threads, CheckVersion(t)
  PROVE  FilesInv'
<1>1. PICK c : c = call[t]
  OBVIOUS
<1>2. PICK n \in Names : n = c.name
  BY <1>1, ReadCall DEF CheckVersion, Reading
<1>3. /\ c \in ReadCalls /\ files[n] # NoFile
      /\ c.at \in Nat /\ c.short \in Nat
      /\ c.got \in [Places -> Numbers] /\ ReadRight(c, files[n]) /\ c.pc = "version"
  BY <1>1, <1>2, ReadCall DEF CheckVersion, Reading
<1>4. UNCHANGED <<files, objects, stream, misread>> /\ misread \subseteq Licenses
  BY DEF CheckVersion, FilesInv, TypeOK
<1>5. CASE call' = [call EXCEPT ![t] = Idle]
  BY <1>3, <1>4, <1>5, ReadsOn
<1>6. ASSUME NEW v \in Possible(c.got[majorAt], 2..3), NEW m \in Possible(c.got[minorAt], 0..1), NEW g,
             g = [c.got EXCEPT ![majorAt] = v, ![minorAt] = m],
             call' = [call EXCEPT ![t] = [c EXCEPT !.pc = "read", !.got = g]]
      PROVE  FilesInv'
  <2>1. v \in 2..3 /\ m \in Numbers
    <3>1. c.got[majorAt] \in {Unknown, 2, 3} /\ c.got[minorAt] \in Numbers
      BY <1>3 DEF ReadRight, Places
    <3> QED BY <1>6, <3>1 DEF Possible, Numbers
  <2>2. g \in [Places -> Numbers] /\ g[majorAt] = v
    BY <1>3, <1>6, <2>1, Offsets DEF Places, Numbers
  <2>3. PICK d : d = [c EXCEPT !.pc = "read", !.got = g]
    OBVIOUS
  <2>4. /\ d \in ReadCalls /\ d.pc = "read" /\ d.name = n /\ d.at = c.at /\ d.short = c.short
        /\ d.got = g
    BY <1>2, <1>3, <2>2, <2>3 DEF ReadCalls, Reading
  <2>5. ReadRight(d, files[n])
    BY <1>3, <2>1, <2>2, <2>4, Offsets DEF ReadRight, Turns, Unknown
  <2> QED BY <1>3, <1>4, <1>6, <2>3, <2>4, <2>5, ReadsOn
<1> QED BY <1>1, <1>5, <1>6 DEF CheckVersion

LEMMA ReadRedirectInv ==
  ASSUME FilesInv, NEW t \in Threads, ReadRedirect(t)
  PROVE  FilesInv'
<1>1. PICK c : c = call[t]
  OBVIOUS
<1>2. PICK n \in Names : n = c.name
  BY <1>1, ReadCall DEF ReadRedirect, Reading
<1>3. /\ c \in ReadCalls /\ files[n] # NoFile /\ files[n].size \in Nat
      /\ c.at \in Nat /\ c.short \in Nat
      /\ c.got \in [Places -> Numbers] /\ ReadRight(c, files[n]) /\ c.pc = "redirect"
  BY <1>1, <1>2, ReadCall DEF ReadRedirect, Reading
<1>4. UNCHANGED <<files, objects, stream, misread>> /\ misread \subseteq Licenses
  BY DEF ReadRedirect, FilesInv, TypeOK
<1>5. CASE call' = [call EXCEPT ![t] = Idle]
  BY <1>3, <1>4, <1>5, ReadsOn
<1>6. ASSUME NEW s, s = ShortAfter(c.short, files[n].size, lengthAt + 4, RedirectLength),
             call' = [call EXCEPT ![t] = [c EXCEPT !.pc = "read", !.at = headerOffset, !.short = s]]
      PROVE  FilesInv'
  <2>1. PICK d : d = [c EXCEPT !.pc = "read", !.at = headerOffset, !.short = s]
    OBVIOUS
  <2>2. s \in Nat /\ (s = Whole \/ s < headerOffset)
    BY <1>3, <1>6, Offsets DEF ShortAfter, ReadRight, RedirectLength
  <2>3. /\ d \in ReadCalls /\ d.pc = "read" /\ d.name = n /\ d.at = headerOffset
        /\ d.short = s /\ d.got = c.got
    <3>1. d = [pc |-> "read", name |-> n, at |-> headerOffset, short |-> s, got |-> c.got]
      BY <1>2, <1>3, <2>1 DEF ReadCalls
    <3> QED BY <1>3, <2>2, <3>1, Offsets DEF ReadCalls, Reading
  <2>4. ReadRight(d, files[n])
    BY <1>3, <2>2, <2>3, Offsets DEF ReadRight, Turns
  <2> QED BY <1>3, <1>4, <1>6, <2>1, <2>3, <2>4, ReadsOn
<1> QED BY <1>1, <1>2, <1>5, <1>6 DEF ReadRedirect

LEMMA ReadExtensionInv ==
  ASSUME FilesInv, NEW t \in Threads, ReadExtension(t)
  PROVE  FilesInv'
<1>1. PICK c : c = call[t]
  OBVIOUS
<1>2. PICK n \in Names : n = c.name
  BY <1>1, ReadCall DEF ReadExtension, Reading
<1>3. /\ c \in ReadCalls /\ files[n] # NoFile
      /\ ReadRight(c, files[n]) /\ c.pc = "extension"
  BY <1>1, <1>2, ReadCall DEF ReadExtension, Reading
<1>4. UNCHANGED <<files, objects, stream, misread>> /\ misread \subseteq Licenses
  BY DEF ReadExtension, FilesInv, TypeOK
<1>5. CASE call' = [call EXCEPT ![t] = Idle]
  BY <1>3, <1>4, <1>5, ReadsOn
<1>6. CASE call' = [call EXCEPT ![t] = [c EXCEPT !.pc = "license"]]
  <2>1. PICK d : d = [c EXCEPT !.pc = "license"]
    OBVIOUS
  <2>2. /\ d \in ReadCalls /\ d.pc = "license" /\ d.name = n /\ d.at = c.at
        /\ d.short = c.short /\ d.got = c.got
    BY <1>2, <1>3, <2>1 DEF ReadCalls, Reading
  <2>3. ReadRight(d, files[n])
    BY <1>3, <2>2 DEF ReadRight
  <2> QED BY <1>3, <1>4, <1>6, <2>1, <2>2, <2>3, ReadsOn
<1> QED BY <1>1, <1>5, <1>6 DEF ReadExtension

\* With the whole license there, the call has the start of the content, or the file has
\* overtaken it.
LEMMA OpenedRight ==
  ASSUME FilesInv, NEW t \in Threads, call[t].pc \in {"license", "metadata"},
         NEW n \in Names, n = call[t].name,
         files[n].header.pl > 0, WriteHeader(files[n].header).pl + files[n].header.pl <= files[n].size,
         NEW a, a = [pc |-> "acquire", name |-> n, start |-> call[t].got[contentAt],
                     major |-> call[t].got[majorAt], short |-> call[t].short]
  PROVE  a \in AcquireCalls /\ a.name = n /\ StartRight(a, files[n])
<1>1. PICK c : c = call[t]
  OBVIOUS
<1>2. /\ c \in ReadCalls /\ files[n] # NoFile /\ files[n].header \in Headers
      /\ files[n].size \in Nat /\ c.at \in Nat /\ c.short \in Nat
      /\ c.got \in [Places -> Numbers] /\ ReadRight(c, files[n])
      /\ c.pc \in {"license", "metadata"}
  BY <1>1, ReadCall DEF Reading
<1>3. /\ a.pc = "acquire" /\ a.name = n /\ a.start = c.got[contentAt]
      /\ a.major = c.got[majorAt] /\ a.short = c.short
  BY <1>1
<1>4. c.got[contentAt] \in Numbers /\ c.got[majorAt] \in 2..3 /\ c.at > contentAt
  BY <1>2, Offsets DEF Places, ReadRight
<1>5. a \in AcquireCalls
  BY <1>1, <1>2, <1>4 DEF AcquireCalls
<1>6. /\ files[n].size >= contentAt + 4
      /\ files[n].header.md = 0 => WriteHeader(files[n].header).content <= files[n].size
  <2>1. files[n].header.pl \in Nat
    BY <1>2 DEF Headers
  <2> QED BY <1>2, <2>1, LayoutNat, Offsets
<1>7. StartRight(a, files[n])
  BY <1>2, <1>3, <1>4, <1>6, Offsets DEF StartRight, ReadRight
<1> QED BY <1>3, <1>5, <1>7

LEMMA ReadLicenseInv ==
  ASSUME FilesInv, NEW t \in Threads, ReadLicense(t)
  PROVE  FilesInv'
<1>1. PICK c : c = call[t]
  OBVIOUS
<1>2. PICK n \in Names : n = c.name
  BY <1>1, ReadCall DEF ReadLicense, Reading
<1>3. /\ c \in ReadCalls /\ files[n] # NoFile /\ files[n].header \in Headers
      /\ files[n].size \in Nat /\ files[n].license \in Licenses
      /\ ReadRight(c, files[n]) /\ c.pc = "license"
  BY <1>1, <1>2, ReadCall DEF ReadLicense, Reading
<1>4. UNCHANGED <<files, objects, stream>> /\ misread' \subseteq Licenses
  BY <1>1, <1>2, <1>3 DEF ReadLicense, FilesInv, TypeOK
<1>5. CASE call' = [call EXCEPT ![t] = Idle]
  BY <1>3, <1>4, <1>5, ReadsOn
<1>6. CASE ~(call' = [call EXCEPT ![t] = Idle])
  <2>1. /\ files[n].header.pl > 0
        /\ Present(files[n].size, WriteHeader(files[n].header).pl, files[n].header.pl) =
             files[n].header.pl
        /\ \/ call' = [call EXCEPT ![t] = [c EXCEPT !.pc = "metadata"]]
           \/ Opened(t)
    BY <1>1, <1>2, <1>6 DEF ReadLicense
  <2>2. WriteHeader(files[n].header).pl + files[n].header.pl <= files[n].size
    BY <1>3, <2>1, LayoutNat DEF Present, Headers
  <2>3. CASE call' = [call EXCEPT ![t] = [c EXCEPT !.pc = "metadata"]]
    <3>1. PICK d : d = [c EXCEPT !.pc = "metadata"]
      OBVIOUS
    <3>2. /\ d \in ReadCalls /\ d.pc = "metadata" /\ d.name = n /\ d.at = c.at
          /\ d.short = c.short /\ d.got = c.got
      BY <1>2, <1>3, <3>1 DEF ReadCalls, Reading
    <3>3. ReadRight(d, files[n])
      BY <1>3, <2>1, <2>2, <3>2 DEF ReadRight
    <3> QED BY <1>3, <1>4, <2>3, <3>1, <3>2, <3>3, ReadsOn
  <2>4. CASE Opened(t)
    <3>1. PICK a : a = [pc |-> "acquire", name |-> n, start |-> c.got[contentAt],
                        major |-> c.got[majorAt], short |-> c.short]
      OBVIOUS
    <3>2. call' = [call EXCEPT ![t] = a]
      BY <1>1, <1>2, <2>4, <3>1 DEF Opened
    <3>3. a \in AcquireCalls /\ a.name = n /\ StartRight(a, files[n])
      BY <1>1, <1>2, <1>3, <2>1, <2>2, <3>1, OpenedRight
    <3> QED BY <1>3, <1>4, <3>2, <3>3, ReadsOn
  <2> QED BY <2>1, <2>3, <2>4
<1> QED BY <1>5, <1>6

LEMMA ReadMetadataInv ==
  ASSUME FilesInv, NEW t \in Threads, ReadMetadata(t)
  PROVE  FilesInv'
<1>1. PICK c : c = call[t]
  OBVIOUS
<1>2. PICK n \in Names : n = c.name
  BY <1>1, ReadCall DEF ReadMetadata, Reading
<1>3. files[n] # NoFile /\ ReadRight(c, files[n]) /\ c.pc = "metadata"
  BY <1>1, <1>2, ReadCall DEF ReadMetadata, Reading
<1>4. UNCHANGED <<files, objects, stream, misread>> /\ misread \subseteq Licenses
  BY DEF ReadMetadata, FilesInv, TypeOK
<1>5. CASE call' = [call EXCEPT ![t] = Idle]
  BY <1>3, <1>4, <1>5, ReadsOn
<1>6. CASE Opened(t)
  <2>1. PICK a : a = [pc |-> "acquire", name |-> n, start |-> c.got[contentAt],
                      major |-> c.got[majorAt], short |-> c.short]
    OBVIOUS
  <2>2. call' = [call EXCEPT ![t] = a]
    BY <1>1, <1>2, <1>6, <2>1 DEF Opened
  <2>3. a \in AcquireCalls /\ a.name = n /\ StartRight(a, files[n])
    BY <1>1, <1>2, <1>3, <2>1, OpenedRight DEF ReadRight
  <2> QED BY <1>3, <1>4, <2>2, <2>3, ReadsOn
<1> QED BY <1>5, <1>6 DEF ReadMetadata

LEMMA Element ==
  ASSUME NEW S, NEW s \in Seq(S), NEW i \in DOMAIN s
  PROVE  s[i] \in S /\ i \in Nat \ {0}
  OBVIOUS

LEMMA PolicyType ==
  ASSUME FilesInv, NEW o \in DOMAIN objects
  PROVE  /\ objects[o] \in [license : Licenses, mode : Modes, provider : Modes]
         /\ objects[o].license \in Licenses
         /\ o \in Nat \ {0}
<1>1. objects \in Seq([license : Licenses, mode : Modes, provider : Modes])
  BY DEF FilesInv, TypeOK
<1>2. objects[o] \in [license : Licenses, mode : Modes, provider : Modes] /\ o \in Nat \ {0}
  <2> HIDE DEF FilesInv
  <2> QED BY <1>1, Element, Zenon
<1> QED BY <1>2

\* A call that has a policy.
LEMMA PolicyCall ==
  ASSUME FilesInv, NEW t \in Threads, call[t].pc \notin Opening
  PROVE  /\ call[t] \in PolicyCalls
         /\ call[t].name \in Names /\ files[call[t].name] \in Files
         /\ files[call[t].name] # NoFile
         /\ call[t].object \in DOMAIN objects
         /\ objects[call[t].object] \in [license : Licenses, mode : Modes, provider : Modes]
         /\ objects[call[t].object].license = files[call[t].name].license
<1>1. call[t] \in PolicyCalls
  BY DEF FilesInv, TypeOK, ReadCalls, AcquireCalls, Opening
<1>2. call[t].name \in Names
  BY <1>1 DEF PolicyCalls
<1>3. /\ files[call[t].name] \in Files /\ files[call[t].name] # NoFile
      /\ call[t].object \in DOMAIN objects
      /\ objects[call[t].object].license = files[call[t].name].license
  BY <1>2 DEF FilesInv, TypeOK, Opening
<1> QED BY <1>1, <1>2, <1>3, PolicyType

\* A call that has read its header, or laid it out.
LEMMA PastReading ==
  ASSUME FilesInv, NEW t \in Threads, call[t].pc \notin Reading \cup {"idle"}
  PROVE  StartRight(call[t], files[call[t].name])
  BY DEF FilesInv, CallsRight

\* The program counters of the calls that have a policy.
LEMMA PolicyPc ==
  ASSUME NEW pc \in {"write", "check", "setMode", "setProvider", "take"}
  PROVE  pc \notin Opening /\ pc \notin Reading \cup {"idle"}
  BY DEF Opening, Reading

LEMMA NewPolicyType ==
  ASSUME NEW l \in Licenses
  PROVE  /\ NewPolicy(l) \in [license : Licenses, mode : Modes, provider : Modes]
         /\ NewPolicy(l).license = l
         /\ NewPolicy(l).mode = CipherMode[l] /\ NewPolicy(l).provider = CipherMode[l]
  BY DEF NewPolicy

\* A policy more changes none of the others.
LEMMA OneMorePolicy ==
  ASSUME FilesInv, NEW l \in Licenses
  PROVE  LET more == Append(objects, NewPolicy(l))
         IN  /\ more \in Seq([license : Licenses, mode : Modes, provider : Modes])
             /\ DOMAIN more = DOMAIN objects \cup {Len(objects) + 1}
             /\ \A o \in DOMAIN objects : more[o] = objects[o]
             /\ more[Len(objects) + 1] = NewPolicy(l)
             /\ Len(objects) + 1 \notin DOMAIN objects
             /\ Len(objects) + 1 \in Nat \ {0}
  BY NewPolicyType DEF FilesInv, TypeOK

LEMMA AcquirePolicyInv ==
  ASSUME FilesInv, NEW t \in Threads, AcquirePolicy(t)
  PROVE  FilesInv'
<1> DEFINE c == call[t]
           l == files[c.name].license
           With(o) == [pc |-> "check", name |-> c.name, start |-> c.start, major |-> c.major,
                       short |-> c.short, object |-> o, new |-> FALSE]
<1>1. c \in AcquireCalls /\ c.name \in Names /\ files[c.name] \in Files /\ files[c.name] # NoFile
      /\ l \in Licenses
  <2>1. c \in AcquireCalls
    <3>1. c \in {Idle} \cup ReadCalls \cup AcquireCalls \cup PolicyCalls /\ c.pc = "acquire"
      BY DEF AcquirePolicy, FilesInv, TypeOK
    <3>2. c \notin ReadCalls
      BY <3>1 DEF ReadCalls, Reading
    <3>3. c \notin PolicyCalls
      BY <3>1 DEF PolicyCalls
    <3> QED BY <3>1, <3>2, <3>3
  <2>2. c.name \in Names
    BY <2>1 DEF AcquireCalls
  <2>3. files[c.name] \in Files /\ files[c.name] # NoFile
    BY <2>2 DEF AcquirePolicy, FilesInv, TypeOK
  <2> QED BY <2>1, <2>2, <2>3 DEF Files
<1>a. StartRight(c, files[c.name])
  BY PastReading DEF AcquirePolicy, Reading
<1>b. ASSUME NEW o, call' = [call EXCEPT ![t] = With(o)], UNCHANGED files
      PROVE  CallsRight'
  <2>1. /\ With(o).pc = "check" /\ With(o).name = c.name /\ With(o).start = c.start
        /\ With(o).short = c.short
    OBVIOUS
  <2>2. StartRight(With(o), files[c.name])
    BY <1>a, <2>1 DEF StartRight, AcquirePolicy
  <2>3. call'[t] = With(o) /\ \A u \in Threads : u # t => call'[u] = call[u]
    BY <1>b DEF FilesInv, TypeOK
  <2> HIDE DEF With
  <2> SUFFICES ASSUME NEW u \in Threads
               PROVE  /\ call'[u].pc \in Reading => ReadRight(call'[u], files[call'[u].name])
                      /\ call'[u].pc \notin Reading \cup {"idle"} =>
                           StartRight(call'[u], files[call'[u].name])
    BY <1>b, ZenonT(60) DEF CallsRight, ReadRight, StartRight
  <2>4. CASE u = t
    BY <2>1, <2>2, <2>3, <2>4 DEF Reading
  <2>5. CASE u # t
    BY <2>3, <2>5 DEF FilesInv, CallsRight
  <2> QED BY <2>4, <2>5
<1>2. \A o \in Nat \ {0} : With(o) \in PolicyCalls
  BY <1>1 DEF AcquireCalls, PolicyCalls
<1>3. ASSUME NEW o \in DOMAIN objects, objects[o].license = l,
             call' = [call EXCEPT ![t] = With(o)], UNCHANGED <<files, objects, stream>>
      PROVE  FilesInv'
  <2>1. o \in Nat \ {0}
    BY <1>3 DEF FilesInv, TypeOK
  <2>2. TypeOK'
    BY <1>1, <1>2, <1>3, <2>1 DEF FilesInv, TypeOK, AcquirePolicy
  <2>3. CallsRight'
    BY <1>3, <1>b
  <2> QED BY <1>3, <2>2, <2>3 DEF FilesInv, StartsAgree, Overtaken
<1>4. ASSUME objects' = Append(objects, NewPolicy(l)),
             call' = [call EXCEPT ![t] = With(Len(objects) + 1)], UNCHANGED <<files, stream>>
      PROVE  FilesInv'
  <2>1. TypeOK'
    BY <1>1, <1>2, <1>4, OneMorePolicy, NewPolicyType DEF FilesInv, TypeOK, AcquirePolicy
  <2>2. CallsRight'
    BY <1>4, <1>b
  <2> QED BY <1>4, <2>1, <2>2 DEF FilesInv, StartsAgree, Overtaken
<1>5. ASSUME Fail(t), UNCHANGED <<files, objects>>
      PROVE  FilesInv'
  BY <1>1, <1>5, ReadsOn DEF AcquirePolicy, FilesInv, TypeOK
<1> QED BY <1>3, <1>4, <1>5 DEF AcquirePolicy, Cached

LEMMA CreatePolicyInv ==
  ASSUME FilesInv, NEW l \in Licenses, CreatePolicy(l)
  PROVE  FilesInv'
<1>1. TypeOK'
  BY OneMorePolicy DEF FilesInv, TypeOK, CreatePolicy
<1>2. CallsRight'
  BY Zenon DEF FilesInv, CreatePolicy, CallsRight, ReadRight, StartRight
<1> QED BY <1>1, <1>2 DEF FilesInv, CreatePolicy, StartsAgree, Overtaken

\* The start that Create computes is the one the writer lays out.
LEMMA StartIsContent ==
  ASSUME NEW e \in Nat, NEW p \in Nat
  PROVE  /\ NewHeader(e, p) \in Headers
         /\ contentStartPosition(NewHeader(e, p)) = WriteHeader(NewHeader(e, p)).content
         /\ NewHeader(e, p).major = 3 /\ NewHeader(e, p).md = 0
  BY DEF NewHeader, Headers, contentStartPosition, WriteHeader, headerOffset, redirectOffset,
         RedirectLength, HeaderSize, HasMetadata

LEMMA CreateHeaderInv ==
  ASSUME FilesInv, NEW t \in Threads, NEW n \in Names, NEW o \in DOMAIN objects,
         CreateHeader(t, n, o)
  PROVE  FilesInv'
<1> DEFINE l == objects[o].license
           h == NewHeader(ExtensionLength, LicenseLength[l])
           f == [header |-> h, license |-> l, cipher |-> "none", size |-> 0]
           c == [pc |-> "write", name |-> n, start |-> contentStartPosition(h),
                 major |-> h.major, short |-> Whole, object |-> o, new |-> TRUE]
<1>1. l \in Licenses /\ o \in Nat \ {0}
  BY PolicyType
<1>2. /\ h \in Headers /\ h.major = 3
      /\ contentStartPosition(h) = WriteHeader(h).content /\ WriteHeader(h).content \in Nat
  BY <1>1, StartIsContent, LayoutNat
<1> HIDE DEF h
<1>3. f \in Files /\ c \in PolicyCalls
  BY <1>1, <1>2, Offsets DEF Files, PolicyCalls, Numbers
<1>4. f # NoFile
  BY DEF NoFile
<1>5. /\ f.header = h /\ f.license = l
      /\ c.pc = "write" /\ c.name = n /\ c.start = contentStartPosition(h)
      /\ c.major = h.major /\ c.short = Whole /\ c.object = o
  OBVIOUS
<1>6. /\ files' = [files EXCEPT ![n] = f] /\ call' = [call EXCEPT ![t] = c]
      /\ stream' = [stream EXCEPT ![t] = NoStream]
      /\ UNCHANGED <<objects, misread>> /\ files[n] = NoFile
  BY DEF CreateHeader, h, GiveUp
<1> HIDE DEF f, c, l
<1>7. l = objects[o].license
  BY DEF l
<1>8. \A u \in Threads : ~At(u, "idle") => call[u].name # n
  BY <1>6 DEF FilesInv, TypeOK
<1>9. \A u \in Threads : stream[u] # NoStream => stream[u].name # n
  BY <1>6 DEF FilesInv, TypeOK
<1>a. /\ files'[n] = f /\ \A m \in Names : m # n => files'[m] = files[m]
      /\ call'[t] = c /\ \A u \in Threads : u # t => call'[u] = call[u]
      /\ stream' \in [Threads -> {NoStream} \cup Streams]
      /\ \A u \in Threads : stream'[u] \in {stream[u], NoStream}
  BY <1>6 DEF FilesInv, TypeOK
<1>b. \A u \in Threads :
        /\ ~At(u, "idle") => call[u].name \in Names
        /\ stream[u] # NoStream => stream[u].name \in Names
  BY DEF FilesInv, TypeOK, ReadCalls, AcquireCalls, PolicyCalls, Streams
<1>10. TypeOK'
  <2>1. DOMAIN files' = Names /\ \A m \in Names : files'[m] = NoFile \/ files'[m] \in Files
    BY <1>3, <1>6, <1>a DEF FilesInv, TypeOK
  <2>2. call' \in [Threads -> {Idle} \cup ReadCalls \cup AcquireCalls \cup PolicyCalls]
    BY <1>3, <1>6 DEF FilesInv, TypeOK
  <2>3. \A u \in Threads : ~At(u, "idle")' => files'[call'[u].name] # NoFile
    BY <1>4, <1>5, <1>8, <1>a, <1>b, SMTT(60) DEF FilesInv, TypeOK
  <2>4. \A u \in Threads : call'[u].pc \notin Opening =>
          /\ call'[u].object \in DOMAIN objects'
          /\ objects'[call'[u].object].license = files'[call'[u].name].license
    <3> SUFFICES ASSUME NEW u \in Threads, call'[u].pc \notin Opening
                 PROVE  /\ call'[u].object \in DOMAIN objects
                        /\ objects[call'[u].object].license = files'[call'[u].name].license
      BY <1>6
    <3>1. CASE u = t
      BY <1>5, <1>7, <1>a, <3>1
    <3>2. CASE u # t
      <4>1. call'[u] = call[u] /\ ~At(u, "idle")
        BY <1>a, <3>2 DEF Opening
      <4> QED BY <1>8, <1>a, <1>b, <4>1 DEF FilesInv, TypeOK
    <3> QED BY <3>1, <3>2
  <2>5. \A u \in Threads : stream'[u] # NoStream => files'[stream'[u].name] # NoFile
    BY <1>9, <1>a, <1>b DEF FilesInv, TypeOK
  <2> QED BY <1>6, <1>a, <2>1, <2>2, <2>3, <2>4, <2>5 DEF FilesInv, TypeOK
<1>11. CallsRight'
  <2> SUFFICES ASSUME NEW u \in Threads
               PROVE  /\ call'[u].pc \in Reading => ReadRight(call'[u], files'[call'[u].name])
                      /\ call'[u].pc \notin Reading \cup {"idle"} =>
                           StartRight(call'[u], files'[call'[u].name])
    BY ZenonT(60) DEF CallsRight, ReadRight, StartRight
  <2>1. CASE u = t
    <3>1. StartRight(c, f)
      BY <1>2, <1>5 DEF StartRight
    <3> QED BY <1>5, <1>a, <2>1, <3>1 DEF Reading
  <2>2. CASE u # t
    <3>1. CASE At(u, "idle")
      BY <1>a, <2>2, <3>1 DEF Reading
    <3>2. CASE ~At(u, "idle")
      BY <1>8, <1>a, <1>b, <2>2, <3>2 DEF FilesInv, CallsRight
    <3> QED BY <3>1, <3>2
  <2> QED BY <2>1, <2>2
<1>12. StartsAgree'
  <2> SUFFICES ASSUME NEW u \in Threads, stream'[u] # NoStream
               PROVE  stream'[u] = stream[u] /\ files'[stream[u].name] = files[stream[u].name]
    BY DEF FilesInv, StartsAgree, Overtaken
  <2> QED BY <1>9, <1>a, <1>b
<1> QED BY <1>10, <1>11, <1>12 DEF FilesInv

LEMMA WriteSomeInv ==
  ASSUME FilesInv, NEW t \in Threads, WriteSome(t)
  PROVE  FilesInv'
<1>0. PICK n \in Names : n = call[t].name
  BY PolicyCall, PolicyPc DEF WriteSome
<1>1. /\ call[t] \in PolicyCalls /\ files[n] \in Files /\ files[n] # NoFile
      /\ At(t, "write")
  BY <1>0, PolicyCall, PolicyPc DEF WriteSome
<1>2. files[n].header \in Headers /\ files[n].size \in Nat /\ Content(n) \in Nat
  BY <1>1, LayoutNat DEF Files, Content
<1>3. PICK size \in Cuts \cup {Content(n)} :
        /\ files[n].size < size /\ size <= Content(n)
        /\ files' = [files EXCEPT ![n].size = size]
        /\ call' = [call EXCEPT ![t] = [call[t] EXCEPT !.pc = IF size = Content(n) THEN "check"
                                                               ELSE "write"]]
  BY <1>0 DEF WriteSome, Content
<1>4. size \in Nat
  BY <1>2, <1>3
<1>5. PICK f \in Files : f = [files[n] EXCEPT !.size = size]
  BY <1>1, <1>4 DEF Files
<1>6. PICK c \in PolicyCalls :
        c = [call[t] EXCEPT !.pc = IF size = Content(n) THEN "check" ELSE "write"]
  BY <1>1 DEF PolicyCalls
<1>7. /\ f.header = files[n].header /\ f.license = files[n].license /\ f.size = size
      /\ f # NoFile
  BY <1>1, <1>5 DEF Files, NoFile
<1>8. /\ c.name = n /\ c.start = call[t].start /\ c.short = call[t].short
      /\ c.object = call[t].object
      /\ c.pc \in {"write", "check"} /\ (c.pc = "check" => size = Content(n))
  BY <1>0, <1>1, <1>6 DEF PolicyCalls
<1>9. /\ DOMAIN files' = Names /\ files'[n] = f
      /\ \A m \in Names : m # n => files'[m] = files[m]
      /\ UNCHANGED <<objects, stream, misread>>
  BY <1>3, <1>5 DEF FilesInv, TypeOK, WriteSome
<1>10. /\ call' \in [Threads -> {Idle} \cup ReadCalls \cup AcquireCalls \cup PolicyCalls]
       /\ call'[t] = c /\ \A u \in Threads : u # t => call'[u] = call[u]
  BY <1>3, <1>6 DEF FilesInv, TypeOK
<1>11. \A m \in Names : files[m] # NoFile =>
         /\ files[m] \in Files /\ files'[m] \in Files /\ files'[m] # NoFile
         /\ files'[m].header = files[m].header /\ files'[m].license = files[m].license
  BY <1>5, <1>7, <1>9 DEF FilesInv, TypeOK
<1>12. \A m \in Names : files[m] # NoFile =>
         /\ files[m].size \in Nat /\ files'[m].size \in Nat
         /\ files'[m].size >= files[m].size
         /\ WriteHeader(files'[m].header).content = Content(m) /\ Content(m) \in Nat
  BY <1>2, <1>3, <1>4, <1>7, <1>9, <1>11, LayoutNat DEF Content, Files
<1>13. \A u \in Threads : ~At(u, "idle") => call[u].name \in Names /\ files[call[u].name] # NoFile
  BY DEF FilesInv, TypeOK, ReadCalls, AcquireCalls, PolicyCalls
<1>14. \A u \in Threads : stream[u] # NoStream =>
         stream[u].name \in Names /\ files[stream[u].name] # NoFile
  BY DEF FilesInv, TypeOK, Streams
<1>15. \A u \in Threads :
         /\ call'[u].name = call[u].name /\ call'[u].object = call[u].object
         /\ At(u, "idle")' = At(u, "idle")
         /\ (call'[u].pc \in Opening) = (call[u].pc \in Opening)
  BY <1>0, <1>1, <1>8, <1>10, PolicyPc
<1>16. TypeOK'
  <2>1. \A m \in Names : files'[m] = NoFile \/ files'[m] \in Files
    BY <1>9, <1>11 DEF FilesInv, TypeOK
  <2>2. \A u \in Threads : ~At(u, "idle")' => files'[call'[u].name] # NoFile
    BY <1>11, <1>13, <1>15
  <2>3. \A u \in Threads : call'[u].pc \notin Opening =>
          /\ call'[u].object \in DOMAIN objects'
          /\ objects'[call'[u].object].license = files'[call'[u].name].license
    <3> SUFFICES ASSUME NEW u \in Threads, call[u].pc \notin Opening
                 PROVE  /\ call[u].object \in DOMAIN objects
                        /\ objects[call[u].object].license = files'[call[u].name].license
      BY <1>9, <1>15
    <3> QED BY <1>11, PolicyCall
  <2>4. \A u \in Threads : stream'[u] # NoStream => files'[stream'[u].name] # NoFile
    BY <1>9, <1>11, <1>14
  <2> QED BY <1>9, <1>10, <2>1, <2>2, <2>3, <2>4 DEF FilesInv, TypeOK
<1>17. CallsRight'
  <2> SUFFICES ASSUME NEW u \in Threads
               PROVE  /\ call'[u].pc \in Reading => ReadRight(call'[u], files'[call'[u].name])
                      /\ call'[u].pc \notin Reading \cup {"idle"} =>
                           StartRight(call'[u], files'[call'[u].name])
    BY ZenonT(60) DEF CallsRight, ReadRight, StartRight
  <2>1. CASE u = t
    <3>1. StartRight(call[t], files[n]) /\ call[t].short \in Nat
      BY <1>0, <1>1, PastReading, PolicyPc DEF PolicyCalls
    <3>2. StartRight(c, f)
      BY <1>1, <1>2, <1>3, <1>4, <1>7, <1>8, <3>1, Offsets DEF StartRight, Content
    <3>3. call'[u] = c /\ c.name = n /\ files'[n] = f /\ c.pc \notin Reading
      BY <1>8, <1>9, <1>10, <2>1, PolicyPc
    <3> QED BY <3>2, <3>3
  <2>2. CASE u # t /\ call[u].pc \in Reading
    <3>1. PICK m \in Names : m = call[u].name
      BY <2>2, ReadCall
    <3>2. ReadRight(call[u], files[m]) /\ files[m] # NoFile /\ files[m].header.pl \in Nat
          /\ WriteHeader(files[m].header).pl \in Nat
      BY <2>2, <3>1, ReadCall, LayoutNat DEF Headers
    <3>3. files'[m].header = files[m].header /\ files'[m].size >= files[m].size
          /\ files[m].size \in Nat /\ files'[m].size \in Nat
      BY <1>11, <1>12, <3>2
    <3>4. ReadRight(call[u], files'[m])
      BY <3>2, <3>3 DEF ReadRight
    <3>5. call'[u] = call[u]
      BY <1>10, <2>2
    <3> QED BY <2>2, <3>1, <3>4, <3>5
  <2>3. CASE u # t /\ call[u].pc \notin Reading \cup {"idle"}
    <3>1. PICK m \in Names : m = call[u].name
      BY <1>13, <2>3
    <3>2. /\ StartRight(call[u], files[m]) /\ files[m] # NoFile
          /\ call[u].short \in Nat
      <4>1. call[u] \in AcquireCalls \cup PolicyCalls
        BY <2>3 DEF FilesInv, TypeOK, ReadCalls
      <4>2. call[u].short \in Nat
        BY <4>1 DEF AcquireCalls, PolicyCalls
      <4> QED BY <1>13, <2>3, <3>1, <4>2, PastReading
    <3>3. files'[m].header = files[m].header /\ files'[m].size >= files[m].size
          /\ files[m].size \in Nat /\ files'[m].size \in Nat /\ Content(m) \in Nat
      BY <1>11, <1>12, <3>2
    <3>4. StartRight(call[u], files'[m])
      BY <3>2, <3>3, Offsets DEF StartRight, Content
    <3>5. call'[u] = call[u]
      BY <1>10, <2>3
    <3> QED BY <2>3, <3>1, <3>4, <3>5
  <2>4. CASE u # t /\ At(u, "idle")
    BY <1>10, <2>4 DEF Reading
  <2> QED BY <2>1, <2>2, <2>3, <2>4
<1>18. StartsAgree'
  <2> SUFFICES ASSUME NEW u \in Threads, stream[u] # NoStream, ~Overtaken(stream[u])'
               PROVE  LET g == files'[stream[u].name]
                      IN  /\ stream[u].start = WriteHeader(g.header).content
                          /\ g.header.md = 0 => stream[u].start <= g.size
    BY <1>9 DEF StartsAgree
  <2>1. PICK m \in Names : m = stream[u].name
    BY <1>14
  <2>2. files[m] # NoFile /\ stream[u].short \in Nat
    BY <1>14, <2>1 DEF FilesInv, TypeOK, Streams
  <2>3. /\ files'[m].header = files[m].header /\ files'[m].size >= files[m].size
        /\ files[m].size \in Nat /\ files'[m].size \in Nat /\ Content(m) \in Nat
    BY <1>11, <1>12, <2>2
  <2>4. ~Overtaken(stream[u])
    BY <1>9, <2>1, <2>2, <2>3, Offsets DEF Overtaken
  <2>5. /\ stream[u].start = Content(m)
        /\ files[m].header.md = 0 => stream[u].start <= files[m].size
    BY <2>1, <2>4 DEF FilesInv, StartsAgree, Content
  <2> QED BY <2>1, <2>3, <2>5 DEF Content
<1> QED BY <1>16, <1>17, <1>18 DEF FilesInv

\* The steps from the check of the mode to the new provider move the call on and leave
\* the files, the streams and the licenses of the policies alone.
LEMMA MovesOn ==
  ASSUME FilesInv, NEW t \in Threads, call[t].pc \in {"check", "setMode", "setProvider"},
         NEW pc \in {"setMode", "setProvider", "take"},
         call' = [call EXCEPT ![t] = [call[t] EXCEPT !.pc = pc]],
         UNCHANGED <<files, stream, misread>>,
         objects' \in Seq([license : Licenses, mode : Modes, provider : Modes]),
         DOMAIN objects' = DOMAIN objects,
         \A o \in DOMAIN objects : objects'[o].license = objects[o].license
  PROVE  FilesInv'
<1>1. call[t] \in PolicyCalls
  BY PolicyCall, PolicyPc
<1>2. PICK c \in PolicyCalls : c = [call[t] EXCEPT !.pc = pc]
  BY <1>1 DEF PolicyCalls
<1>3. /\ c.name = call[t].name /\ c.start = call[t].start
      /\ c.short = call[t].short /\ c.object = call[t].object /\ c.pc = pc
  BY <1>1, <1>2 DEF PolicyCalls
<1>4. /\ call' \in [Threads -> {Idle} \cup ReadCalls \cup AcquireCalls \cup PolicyCalls]
      /\ call'[t] = c /\ \A u \in Threads : u # t => call'[u] = call[u]
  BY <1>2 DEF FilesInv, TypeOK
<1>5. \A u \in Threads :
         /\ call'[u].name = call[u].name /\ call'[u].object = call[u].object
         /\ At(u, "idle")' = At(u, "idle")
         /\ (call'[u].pc \in Opening) = (call[u].pc \in Opening)
  BY <1>3, <1>4, PolicyPc
<1>6. TypeOK'
  <2>1. \A u \in Threads : call'[u].pc \notin Opening =>
          /\ call'[u].object \in DOMAIN objects'
          /\ objects'[call'[u].object].license = files'[call'[u].name].license
    <3> SUFFICES ASSUME NEW u \in Threads, call[u].pc \notin Opening
                 PROVE  /\ call[u].object \in DOMAIN objects'
                        /\ objects'[call[u].object].license = files[call[u].name].license
      BY <1>5
    <3> QED BY PolicyCall
  <2>2. \A u \in Threads : ~At(u, "idle")' => files'[call'[u].name] # NoFile
    BY <1>5 DEF FilesInv, TypeOK
  <2> QED BY <1>4, <2>1, <2>2 DEF FilesInv, TypeOK
<1>7. CallsRight'
  <2> SUFFICES ASSUME NEW u \in Threads
               PROVE  /\ call'[u].pc \in Reading => ReadRight(call'[u], files[call'[u].name])
                      /\ call'[u].pc \notin Reading \cup {"idle"} =>
                           StartRight(call'[u], files[call'[u].name])
    BY ZenonT(60) DEF CallsRight, ReadRight, StartRight
  <2>1. CASE u = t
    <3>1. StartRight(call[t], files[call[t].name])
      BY PastReading, PolicyPc
    <3>2. StartRight(c, files[c.name])
      BY <1>3, <3>1 DEF StartRight
    <3>3. c.pc \notin Reading \cup {"idle"}
      BY <1>3, PolicyPc
    <3>4. call'[u] = c
      BY <1>4, <2>1
    <3> QED BY <3>2, <3>3, <3>4, Zenon
  <2>2. CASE u # t
    BY <1>4, <2>2 DEF FilesInv, CallsRight
  <2> QED BY <2>1, <2>2
<1> QED BY <1>6, <1>7 DEF FilesInv, StartsAgree, Overtaken

\* One policy changes its mode or its provider.
LEMMA OnePolicy ==
  ASSUME FilesInv, NEW o \in DOMAIN objects, NEW m \in Modes, NEW p \in Modes,
         objects' = [objects EXCEPT ![o] = [license |-> objects[o].license, mode |-> m, provider |-> p]]
  PROVE  /\ objects' \in Seq([license : Licenses, mode : Modes, provider : Modes])
         /\ DOMAIN objects' = DOMAIN objects
         /\ \A i \in DOMAIN objects : objects'[i].license = objects[i].license
         /\ \A i \in DOMAIN objects : i # o => objects'[i] = objects[i]
         /\ objects'[o].mode = m /\ objects'[o].provider = p
<1>1. PICK q \in [license : Licenses, mode : Modes, provider : Modes] :
        q = [license |-> objects[o].license, mode |-> m, provider |-> p]
  BY PolicyType
<1>2. q.license = objects[o].license /\ q.mode = m /\ q.provider = p
  BY <1>1
<1> QED BY <1>1, <1>2 DEF FilesInv, TypeOK

LEMMA CheckModeInv ==
  ASSUME FilesInv, NEW t \in Threads, CheckMode(t)
  PROVE  FilesInv'
<1>1. PICK pc \in {"setMode", "setProvider", "take"} :
        call' = [call EXCEPT ![t] = [call[t] EXCEPT !.pc = pc]]
  BY DEF CheckMode
<1>2. objects' \in Seq([license : Licenses, mode : Modes, provider : Modes])
  BY DEF CheckMode, FilesInv, TypeOK
<1> QED BY <1>1, <1>2, MovesOn DEF CheckMode

LEMMA SetModePolicies ==
  ASSUME FilesInv, NEW t \in Threads, SetMode(t), NEW o \in DOMAIN objects, o = call[t].object
  PROVE  objects' = [objects EXCEPT ![o] = [license |-> objects[o].license, mode |-> "CBC4K",
                                            provider |-> objects[o].provider]]
<1>1. objects[o] \in [license : Licenses, mode : Modes, provider : Modes]
  BY PolicyType
<1>2. [objects[o] EXCEPT !.mode = "CBC4K"] =
        [license |-> objects[o].license, mode |-> "CBC4K", provider |-> objects[o].provider]
  BY <1>1
<1>3. objects' = [objects EXCEPT ![o] = [objects[o] EXCEPT !.mode = "CBC4K"]]
  BY DEF SetMode
<1> QED BY <1>2, <1>3

LEMMA SetProviderPolicies ==
  ASSUME FilesInv, NEW t \in Threads, SetProvider(t), NEW o \in DOMAIN objects, o = call[t].object
  PROVE  objects' = [objects EXCEPT ![o] = [license |-> objects[o].license, mode |-> objects[o].mode,
                                            provider |-> objects[o].mode]]
<1>1. objects[o] \in [license : Licenses, mode : Modes, provider : Modes]
  BY PolicyType
<1>2. [objects[o] EXCEPT !.provider = objects[o].mode] =
        [license |-> objects[o].license, mode |-> objects[o].mode, provider |-> objects[o].mode]
  BY <1>1
<1>3. objects' = [objects EXCEPT ![o] = [objects[o] EXCEPT !.provider = objects[o].mode]]
  BY DEF SetProvider
<1> QED BY <1>2, <1>3

LEMMA SetModeInv ==
  ASSUME FilesInv, NEW t \in Threads, SetMode(t)
  PROVE  FilesInv'
<1>1. PICK o \in DOMAIN objects : o = call[t].object
  BY PolicyCall, PolicyPc DEF SetMode
<1>2. "CBC4K" \in Modes /\ objects[o].provider \in Modes
  BY PolicyType DEF Modes
<1>3. /\ objects' \in Seq([license : Licenses, mode : Modes, provider : Modes])
      /\ DOMAIN objects' = DOMAIN objects
      /\ \A i \in DOMAIN objects : objects'[i].license = objects[i].license
  <2>1. objects' = [objects EXCEPT ![o] = [license |-> objects[o].license, mode |-> "CBC4K",
                                           provider |-> objects[o].provider]]
    BY <1>1, SetModePolicies
  <2> QED BY <1>2, <2>1, OnePolicy
<1>4. PICK pc \in {"setMode", "setProvider", "take"} :
        call' = [call EXCEPT ![t] = [call[t] EXCEPT !.pc = pc]]
  BY DEF SetMode
<1> QED BY <1>3, <1>4, MovesOn DEF SetMode

LEMMA SetProviderInv ==
  ASSUME FilesInv, NEW t \in Threads, SetProvider(t)
  PROVE  FilesInv'
<1>1. PICK o \in DOMAIN objects : o = call[t].object
  BY PolicyCall, PolicyPc DEF SetProvider
<1>2. objects[o].mode \in Modes
  BY PolicyType
<1>3. /\ objects' \in Seq([license : Licenses, mode : Modes, provider : Modes])
      /\ DOMAIN objects' = DOMAIN objects
      /\ \A i \in DOMAIN objects : objects'[i].license = objects[i].license
  <2>1. objects' = [objects EXCEPT ![o] = [license |-> objects[o].license, mode |-> objects[o].mode,
                                           provider |-> objects[o].mode]]
    BY <1>1, SetProviderPolicies
  <2> QED BY <1>2, <2>1, OnePolicy
<1>4. PICK pc \in {"setMode", "setProvider", "take"} :
        call' = [call EXCEPT ![t] = [call[t] EXCEPT !.pc = pc]]
  BY DEF SetProvider
<1> QED BY <1>3, <1>4, MovesOn DEF SetProvider

\* Taking the provider changes no more of a file than the cipher of its content.
LEMMA TakenFiles ==
  ASSUME FilesInv, NEW t \in Threads, TakeProvider(t)
  PROVE  /\ DOMAIN files' = Names
         /\ \A m \in Names : files[m] # NoFile =>
              /\ files'[m] \in Files /\ files'[m] # NoFile
              /\ files'[m].header = files[m].header /\ files'[m].license = files[m].license
              /\ files'[m].size = files[m].size
              /\ \/ files'[m].cipher = files[m].cipher
                 \/ m = call[t].name /\ files'[m].cipher = objects[call[t].object].provider
         /\ \A m \in Names : files[m] = NoFile => files'[m] = NoFile
<1>1. PICK n \in Names : n = call[t].name
  BY PolicyCall, PolicyPc DEF TakeProvider
<1>2. PICK p \in Modes : p = objects[call[t].object].provider
  BY PolicyCall, PolicyPc DEF TakeProvider
<1>3. files[n] \in Files /\ files[n] # NoFile
  BY <1>1, PolicyCall, PolicyPc DEF TakeProvider
<1>4. files' = files \/ files' = [files EXCEPT ![n].cipher = p]
  BY <1>1, <1>2 DEF TakeProvider
<1>5. PICK f \in Files : f = [files[n] EXCEPT !.cipher = p]
  BY <1>3 DEF Files
<1>6. /\ f.header = files[n].header /\ f.license = files[n].license /\ f.size = files[n].size
      /\ f.cipher = p /\ f # NoFile
  BY <1>3, <1>5 DEF Files, NoFile
<1>7. CASE files' = files
  BY <1>7 DEF FilesInv, TypeOK
<1>8. CASE files' = [files EXCEPT ![n].cipher = p]
  <2>1. DOMAIN files' = Names /\ files'[n] = f /\ \A m \in Names : m # n => files'[m] = files[m]
    BY <1>8, <1>5 DEF FilesInv, TypeOK
  <2> QED BY <2>1, <1>1, <1>2, <1>3, <1>6 DEF FilesInv, TypeOK
<1> QED BY <1>4, <1>7, <1>8

LEMMA TakeProviderInv ==
  ASSUME FilesInv, NEW t \in Threads, TakeProvider(t)
  PROVE  FilesInv'
<1>1. PICK n \in Names : n = call[t].name
  BY PolicyCall, PolicyPc DEF TakeProvider
<1>2. PICK p \in Modes : p = objects[call[t].object].provider
  BY PolicyCall, PolicyPc DEF TakeProvider
<1>3. files[n] # NoFile /\ call[t].start \in Numbers /\ call[t].short \in Nat
      /\ call[t].pc = "take"
  BY <1>1, PolicyCall, PolicyPc DEF TakeProvider, PolicyCalls
<1>4. PICK s \in Streams : s = [name |-> n, start |-> call[t].start, cipher |-> p,
                                short |-> call[t].short]
  BY <1>3 DEF Streams
<1>5. s.name = n /\ s.start = call[t].start /\ s.cipher = p /\ s.short = call[t].short
  BY <1>4
<1>6. /\ stream' \in [Threads -> {NoStream} \cup Streams]
      /\ stream'[t] = s /\ \A u \in Threads : u # t => stream'[u] = stream[u]
  BY <1>1, <1>2, <1>4 DEF TakeProvider, FilesInv, TypeOK
<1>7. /\ call' \in [Threads -> {Idle} \cup ReadCalls \cup AcquireCalls \cup PolicyCalls]
      /\ call'[t].pc = "idle" /\ \A u \in Threads : u # t => call'[u] = call[u]
      /\ objects' = objects /\ misread' = misread
  BY DEF TakeProvider, FilesInv, TypeOK
<1>8. \A u \in Threads : ~At(u, "idle") => call[u].name \in Names /\ files[call[u].name] # NoFile
  BY DEF FilesInv, TypeOK, ReadCalls, AcquireCalls, PolicyCalls
<1>9. \A u \in Threads : stream[u] # NoStream =>
         stream[u].name \in Names /\ files[stream[u].name] # NoFile
  BY DEF FilesInv, TypeOK, Streams
<1>10. TypeOK'
  <2>1. DOMAIN files' = Names /\ \A m \in Names : files'[m] = NoFile \/ files'[m] \in Files
    BY TakenFiles
  <2>2. \A u \in Threads : ~At(u, "idle")' => files'[call'[u].name] # NoFile
    BY <1>7, <1>8, TakenFiles
  <2>3. \A u \in Threads : call'[u].pc \notin Opening =>
          /\ call'[u].object \in DOMAIN objects'
          /\ objects'[call'[u].object].license = files'[call'[u].name].license
    <3> SUFFICES ASSUME NEW u \in Threads, u # t, call[u].pc \notin Opening
                 PROVE  /\ call[u].object \in DOMAIN objects
                        /\ objects[call[u].object].license = files'[call[u].name].license
      BY <1>7 DEF Opening
    <3> QED BY PolicyCall, TakenFiles
  <2>4. \A u \in Threads : stream'[u] # NoStream => files'[stream'[u].name] # NoFile
    BY <1>3, <1>5, <1>6, <1>9, TakenFiles
  <2> QED BY <1>6, <1>7, <2>1, <2>2, <2>3, <2>4 DEF FilesInv, TypeOK
<1>11. CallsRight'
  <2> SUFFICES ASSUME NEW u \in Threads
               PROVE  /\ call'[u].pc \in Reading => ReadRight(call'[u], files'[call'[u].name])
                      /\ call'[u].pc \notin Reading \cup {"idle"} =>
                           StartRight(call'[u], files'[call'[u].name])
    BY ZenonT(60) DEF CallsRight, ReadRight, StartRight
  <2>1. CASE u = t \/ At(u, "idle")
    BY <1>7, <2>1 DEF Reading
  <2>2. CASE u # t /\ ~At(u, "idle")
    <3>1. PICK m \in Names : m = call[u].name /\ files[m] # NoFile
      BY <1>8, <2>2
    <3>2. files'[m].header = files[m].header /\ files'[m].size = files[m].size
      BY <3>1, TakenFiles
    <3>3. call'[u] = call[u]
      BY <1>7, <2>2
    <3>4. call[u].pc \in Reading => ReadRight(call[u], files'[m])
      BY <3>1, <3>2 DEF FilesInv, CallsRight, ReadRight
    <3>5. call[u].pc \notin Reading \cup {"idle"} => StartRight(call[u], files'[m])
      BY <3>1, <3>2 DEF FilesInv, CallsRight, StartRight
    <3> QED BY <3>1, <3>3, <3>4, <3>5
  <2> QED BY <2>1, <2>2
<1>12. StartsAgree'
  <2>1. \/ call[t].short < contentAt + 4 /\ call[t].short < files[n].size
        \/ call[t].start = Content(n)
    BY <1>1, <1>3, PastReading, PolicyPc DEF StartRight, Content
  <2>2. files[n].header.md = 0 => Content(n) <= files[n].size
    BY <1>1, <1>3, PastReading, PolicyPc DEF StartRight, Content
  <2> SUFFICES ASSUME NEW u \in Threads, stream'[u] # NoStream, ~Overtaken(stream[u])'
               PROVE  LET g == files'[stream'[u].name]
                      IN  /\ stream'[u].start = WriteHeader(g.header).content
                          /\ g.header.md = 0 => stream'[u].start <= g.size
    BY DEF StartsAgree, Overtaken
  <2>3. CASE u = t
    <3>1. files'[n].header = files[n].header /\ files'[n].size = files[n].size
      BY <1>3, TakenFiles
    <3>2. stream'[u] = s
      BY <1>6, <2>3
    <3>3. call[t].start = Content(n)
      BY <1>5, <2>1, <3>1, <3>2 DEF Overtaken
    <3> QED BY <1>5, <2>2, <3>1, <3>2, <3>3 DEF Content
  <2>4. CASE u # t
    <3>1. PICK m \in Names : m = stream[u].name /\ files[m] # NoFile
      BY <1>6, <1>9, <2>4
    <3>2. files'[m].header = files[m].header /\ files'[m].size = files[m].size
      BY <3>1, TakenFiles
    <3>3. stream'[u] = stream[u]
      BY <1>6, <2>4
    <3>4. ~Overtaken(stream[u])
      BY <3>1, <3>2, <3>3 DEF Overtaken
    <3> QED BY <3>1, <3>2, <3>3, <3>4 DEF FilesInv, StartsAgree
  <2> QED BY <2>3, <2>4
<1> QED BY <1>10, <1>11, <1>12 DEF FilesInv

LEMMA RestartInv == FilesInv /\ Restart => FilesInv'
<1> SUFFICES ASSUME FilesInv, Restart PROVE FilesInv'
  OBVIOUS
<1>1. TypeOK'
  BY DEF FilesInv, TypeOK, Restart, Opening
<1>2. CallsRight' /\ StartsAgree'
  BY DEF CallsRight, StartsAgree, Restart, Reading
<1> QED BY <1>1, <1>2 DEF FilesInv

LEMMA FilesNextInv == FilesInv /\ [Next]_vars => FilesInv'
<1> SUFFICES ASSUME FilesInv, [Next]_vars PROVE FilesInv'
  OBVIOUS
<1>1. CASE UNCHANGED vars
  BY <1>1, Zenon DEF vars, FilesInv, TypeOK, CallsRight, StartsAgree, Overtaken, ReadRight, StartRight
<1>2. CASE Next
  BY <1>2, CheckPreambleInv, ReadOneInv, CheckVersionInv, ReadRedirectInv, ReadExtensionInv,
     ReadLicenseInv, ReadMetadataInv, AcquirePolicyInv, CreateHeaderInv, WriteSomeInv, CheckModeInv,
     SetModeInv, SetProviderInv, TakeProviderInv, CreatePolicyInv, RestartInv DEF Next
<1> QED BY <1>1, <1>2

\* The state of ProtectedFileStream and ProtectionPolicy has its types, and a call
\* works on a file and a policy of one license.
THEOREM FilesTypeCorrect == Spec => []TypeOK
<1>1. FilesInv => TypeOK
  BY DEF FilesInv
<1> QED BY <1>1, FilesInitInv, FilesNextInv, PTL DEF Spec

\* Every stream of ProtectedFileStream starts where the content of its file starts,
\* unless the file ended before the content offset while PfileHeaderReader read its
\* numbers and has grown since.
THEOREM StreamsStartAtContent == Spec => []StartsAgree
<1>1. FilesInv => StartsAgree
  BY DEF FilesInv
<1> QED BY <1>1, FilesInitInv, FilesNextInv, PTL DEF Spec

-----------------------------------------------------------------------------
(* The reader's steps and the version they find *)

ReadStep(t) ==
  \/ \E n \in Names : CheckPreamble(t, n)
  \/ ReadOne(t) \/ CheckVersion(t) \/ ReadRedirect(t)
  \/ ReadExtension(t) \/ ReadLicense(t) \/ ReadMetadata(t)

\* Where a call has not yet its license.
Before == {"idle", "read", "version", "redirect", "extension", "license"}

\* The call as it goes to UserPolicy::Acquire.
Handed(c) == [pc |-> "acquire", name |-> c.name, start |-> c.got[contentAt],
              major |-> c.got[majorAt], short |-> c.short]

\* Where the steps of the reader lead: on, or past the license.
LEMMA ReaderMoves ==
  ASSUME FilesInv, NEW t \in Threads, ReadStep(t)
  PROVE  \E d : /\ call' = [call EXCEPT ![t] = d]
                /\ \/ d.pc \in Before
                   \/ /\ ReadLicense(t) /\ d.pc = "metadata"
                      /\ d.name = call[t].name /\ d.got = call[t].got
                   \/ (ReadLicense(t) \/ ReadMetadata(t)) /\ d = Handed(call[t])
<1>1. CASE \E n \in Names : CheckPreamble(t, n)
  <2>1. PICK n \in Names : CheckPreamble(t, n)
    BY <1>1
  <2>2. PICK d : /\ call' = [call EXCEPT ![t] = d]
                 /\ d \in {Idle, [pc |-> "read", name |-> n, at |-> majorAt, short |-> Whole,
                                  got |-> Uninitialised]}
    BY <2>1 DEF CheckPreamble
  <2>3. d.pc \in Before
    BY <2>2 DEF Before
  <2> QED BY <2>2, <2>3
<1>2. CASE ReadOne(t)
  <2>1. PICK x, y, g, n :
          call' = [call EXCEPT ![t] = [pc |-> AfterNumber(call[t]), name |-> n, at |-> x,
                                       short |-> y, got |-> g]]
    BY <1>2 DEF ReadOne
  <2>2. PICK d : d = [pc |-> AfterNumber(call[t]), name |-> n, at |-> x, short |-> y, got |-> g]
    OBVIOUS
  <2>3. d.pc = AfterNumber(call[t]) /\ call' = [call EXCEPT ![t] = d]
    BY <2>1, <2>2
  <2>4. AfterNumber(call[t]) \in Before
    BY DEF AfterNumber, Before
  <2> QED BY <2>3, <2>4
<1>3. CASE CheckVersion(t)
  <2>1. PICK d : /\ call' = [call EXCEPT ![t] = d]
                 /\ d = Idle \/ \E g : d = [call[t] EXCEPT !.pc = "read", !.got = g]
    BY <1>3 DEF CheckVersion
  <2>2. call[t] \in ReadCalls
    BY <1>3, ReadCall DEF CheckVersion, Reading
  <2>3. CASE d = Idle
    <3>1. d.pc = "idle"
      BY <2>3
    <3> QED BY <2>1, <3>1, Zenon DEF Before
  <2>4. CASE d # Idle
    <3>1. PICK g : d = [call[t] EXCEPT !.pc = "read", !.got = g]
      BY <2>1, <2>4
    <3>2. d.pc = "read"
      BY <2>2, <3>1 DEF ReadCalls
    <3> QED BY <2>1, <3>2 DEF Before
  <2> QED BY <2>3, <2>4
<1>4. CASE ReadRedirect(t)
  <2>1. PICK d : /\ call' = [call EXCEPT ![t] = d]
                 /\ d = Idle \/ \E x, y : d = [call[t] EXCEPT !.pc = "read", !.at = x, !.short = y]
    BY <1>4 DEF ReadRedirect
  <2>2. call[t] \in ReadCalls
    BY <1>4, ReadCall DEF ReadRedirect, Reading
  <2>3. CASE d = Idle
    <3>1. d.pc = "idle"
      BY <2>3
    <3> QED BY <2>1, <3>1, Zenon DEF Before
  <2>4. CASE d # Idle
    <3>1. PICK x, y : d = [call[t] EXCEPT !.pc = "read", !.at = x, !.short = y]
      BY <2>1, <2>4
    <3>2. d.pc = "read"
      BY <2>2, <3>1 DEF ReadCalls
    <3> QED BY <2>1, <3>2 DEF Before
  <2> QED BY <2>3, <2>4
<1>5. CASE ReadExtension(t)
  <2>1. PICK d : call' = [call EXCEPT ![t] = d] /\ d \in {Idle, [call[t] EXCEPT !.pc = "license"]}
    BY <1>5 DEF ReadExtension
  <2>2. call[t] \in ReadCalls
    BY <1>5, ReadCall DEF ReadExtension, Reading
  <2>3. d.pc \in {"idle", "license"}
    BY <2>1, <2>2 DEF ReadCalls
  <2> QED BY <2>1, <2>3 DEF Before
<1>6. CASE ReadLicense(t)
  <2>1. PICK d : /\ call' = [call EXCEPT ![t] = d]
                 /\ d \in {Idle, [call[t] EXCEPT !.pc = "metadata"], Handed(call[t])}
    BY <1>6 DEF ReadLicense, Opened, Handed
  <2>2. call[t] \in ReadCalls
    BY <1>6, ReadCall DEF ReadLicense, Reading
  <2>3. CASE d = [call[t] EXCEPT !.pc = "metadata"]
    <3>1. d.pc = "metadata" /\ d.name = call[t].name /\ d.got = call[t].got
      BY <2>2, <2>3 DEF ReadCalls
    <3> QED BY <1>6, <2>1, <3>1
  <2>4. CASE d = Idle
    BY <2>1, <2>4 DEF Before
  <2> QED BY <1>6, <2>1, <2>3, <2>4
<1>7. CASE ReadMetadata(t)
  <2>1. PICK d : call' = [call EXCEPT ![t] = d] /\ d \in {Idle, Handed(call[t])}
    BY <1>7 DEF ReadMetadata, Opened, Handed
  <2>2. CASE d = Idle
    BY <2>1, <2>2 DEF Before
  <2> QED BY <1>7, <2>1, <2>2
<1> QED BY <1>1, <1>2, <1>3, <1>4, <1>5, <1>6, <1>7 DEF ReadStep

LEMMA ReadStepFacts ==
  ASSUME FilesInv, NEW t \in Threads, ReadStep(t)
  PROVE  /\ UNCHANGED <<files, objects>>
         /\ misread \subseteq misread'
         /\ \A u \in Threads : stream'[u] \in {stream[u], NoStream}
         /\ \A u \in Threads : u # t => call'[u] = call[u]
         /\ call[t].pc \in {"idle"} \cup Reading
         /\ call'[t].pc \in Opening
<1>1. UNCHANGED <<files, objects>> /\ misread \subseteq misread'
  BY DEF ReadStep, CheckPreamble, ReadOne, CheckVersion, ReadRedirect, ReadExtension, ReadLicense,
         ReadMetadata
<1>2. UNCHANGED stream \/ stream' = [stream EXCEPT ![t] = NoStream]
  BY DEF ReadStep, CheckPreamble, GiveUp, ReadOne, CheckVersion, ReadRedirect, ReadExtension,
         ReadLicense, ReadMetadata
<1>3. call[t].pc \in {"idle"} \cup Reading
  BY DEF ReadStep, CheckPreamble, ReadOne, CheckVersion, ReadRedirect, ReadExtension, ReadLicense,
         ReadMetadata, Reading
<1>4. PICK d : call' = [call EXCEPT ![t] = d] /\ d.pc \in Opening
  BY ReaderMoves DEF Before, Handed, Opening, Reading
<1> QED BY <1>1, <1>2, <1>3, <1>4 DEF FilesInv, TypeOK

\* A call that has read its license has the version of the file, or the license is
\* noted as misread.
VersionOf(c) == IF c.pc = "metadata" THEN c.got[majorAt] ELSE c.major
VersionRight(c, n) == VersionOf(c) = files[n].header.major \/ files[n].license \in misread
Versions == \A t \in Threads : call[t].pc \notin Before => VersionRight(call[t], call[t].name)

LEMMA VersionsKept ==
  ASSUME FilesInv, Versions, misread \subseteq misread', NEW t \in Threads,
         \A u \in Threads : u # t => call'[u] = call[u],
         \A m \in Names : files[m] # NoFile =>
           files'[m].header = files[m].header /\ files'[m].license = files[m].license,
         call'[t].pc \notin Before =>
           \/ VersionOf(call'[t]) = files'[call'[t].name].header.major
           \/ files'[call'[t].name].license \in misread'
  PROVE  Versions'
<1> SUFFICES ASSUME NEW u \in Threads, u # t, call[u].pc \notin Before
             PROVE  \/ VersionOf(call[u]) = files'[call[u].name].header.major
                    \/ files'[call[u].name].license \in misread'
  BY Zenon DEF Versions, VersionRight, VersionOf
<1>1. call[u].name \in Names /\ files[call[u].name] # NoFile
  BY DEF FilesInv, TypeOK, ReadCalls, AcquireCalls, PolicyCalls, Before
<1>2. VersionRight(call[u], call[u].name)
  BY DEF Versions
<1> QED BY <1>1, <1>2 DEF VersionRight

LEMMA ReadStepVersions ==
  ASSUME FilesInv, Versions, NEW t \in Threads, ReadStep(t)
  PROVE  Versions'
<1>0. PICK d : /\ call' = [call EXCEPT ![t] = d]
               /\ \/ d.pc \in Before
                  \/ /\ ReadLicense(t) /\ d.pc = "metadata"
                     /\ d.name = call[t].name /\ d.got = call[t].got
                  \/ (ReadLicense(t) \/ ReadMetadata(t)) /\ d = Handed(call[t])
  BY ReaderMoves
<1>a. call'[t] = d
  BY <1>0 DEF FilesInv, TypeOK
<1>1. d.pc \notin Before =>
        VersionOf(d) = files[d.name].header.major \/ files[d.name].license \in misread'
  <2> SUFFICES ASSUME d.pc \notin Before
               PROVE  VersionOf(d) = files[d.name].header.major \/ files[d.name].license \in misread'
    OBVIOUS
  <2>1. d.name = call[t].name /\ VersionOf(d) = call[t].got[majorAt]
    BY <1>0 DEF Handed, VersionOf
  <2>2. CASE ReadLicense(t)
    <3>1. \/ Fail(t)
          \/ call[t].got[majorAt] = files[call[t].name].header.major
          \/ files[call[t].name].license \in misread'
      BY <2>2 DEF ReadLicense
    <3>2. ~Fail(t)
      BY <1>a DEF FilesInv, TypeOK, Before
    <3> QED BY <2>1, <3>1, <3>2
  <2>3. CASE ReadMetadata(t)
    <3>1. call[t].pc = "metadata" /\ misread' = misread
      BY <2>3 DEF ReadMetadata
    <3>2. VersionRight(call[t], call[t].name)
      BY <3>1 DEF Versions, Before
    <3> QED BY <2>1, <3>1, <3>2 DEF VersionOf, VersionRight
  <2> QED BY <1>0, <2>2, <2>3
<1> QED BY <1>1, <1>a, ReadStepFacts, VersionsKept

LEMMA AcquirePolicyVersions ==
  ASSUME FilesInv, Versions, NEW t \in Threads, AcquirePolicy(t)
  PROVE  Versions'
<1>1. call[t].pc = "acquire" /\ UNCHANGED <<files, misread>>
      /\ \A u \in Threads : u # t => call'[u] = call[u]
  BY DEF AcquirePolicy, FilesInv, TypeOK
<1>2. VersionRight(call[t], call[t].name)
  BY <1>1 DEF Versions, Before
<1>3. \/ call'[t].pc = "idle"
      \/ /\ call'[t].pc = "check" /\ call'[t].name = call[t].name
         /\ call'[t].major = call[t].major
  BY DEF AcquirePolicy, FilesInv, TypeOK
<1> QED BY <1>1, <1>2, <1>3, VersionsKept DEF VersionOf, VersionRight, Before

LEMMA CreateHeaderVersions ==
  ASSUME FilesInv, Versions, NEW t \in Threads, NEW n \in Names, NEW o \in DOMAIN objects,
         CreateHeader(t, n, o)
  PROVE  Versions'
<1>1. /\ files[n] = NoFile /\ UNCHANGED misread
      /\ \A m \in Names : m # n => files'[m] = files[m]
      /\ \A u \in Threads : u # t => call'[u] = call[u]
  BY DEF CreateHeader, FilesInv, TypeOK
<1>2. /\ call'[t].pc = "write" /\ call'[t].name = n
      /\ call'[t].major = files'[n].header.major
  BY DEF CreateHeader, FilesInv, TypeOK
<1> QED BY <1>1, <1>2, VersionsKept DEF VersionOf

\* A step of a call that has its policy keeps its name and its version.
LEMMA PolicyVersions ==
  ASSUME FilesInv, Versions, NEW t \in Threads,
         call[t].pc \in {"write", "check", "setMode", "setProvider"},
         NEW pc \in {"write", "check", "setMode", "setProvider", "take"},
         call' = [call EXCEPT ![t] = [call[t] EXCEPT !.pc = pc]], UNCHANGED misread,
         \A m \in Names : files[m] # NoFile =>
           files'[m].header = files[m].header /\ files'[m].license = files[m].license
  PROVE  Versions'
<1>1. /\ call[t] \in PolicyCalls /\ call[t].name \in Names /\ files[call[t].name] # NoFile
  BY PolicyCall, PolicyPc
<1>2. /\ call'[t].pc = pc /\ call'[t].name = call[t].name /\ call'[t].major = call[t].major
      /\ \A u \in Threads : u # t => call'[u] = call[u]
  BY <1>1 DEF FilesInv, TypeOK, PolicyCalls
<1>3. VersionRight(call[t], call[t].name)
  BY DEF Versions, Before
<1> QED BY <1>1, <1>2, <1>3, VersionsKept DEF VersionOf, VersionRight

LEMMA VersionsInitInv == Init => Versions
  BY DEF Init, Versions, Before

LEMMA VersionsNextInv == FilesInv /\ Versions /\ [Next]_vars => Versions'
<1> SUFFICES ASSUME FilesInv, Versions, [Next]_vars PROVE Versions'
  OBVIOUS
<1>1. ASSUME UNCHANGED <<files, call, misread>> PROVE Versions'
  BY <1>1, Zenon DEF Versions, VersionRight, VersionOf
<1>2. ASSUME NEW t \in Threads, WriteSome(t) PROVE Versions'
  <2>1. PICK n \in Names : n = call[t].name /\ files[n] \in Files
    BY <1>2, PolicyCall, PolicyPc DEF WriteSome
  <2>2. PICK size \in Nat : files' = [files EXCEPT ![n].size = size]
    <3>1. WriteHeader(files[n].header).content \in Nat
      BY <2>1, LayoutNat DEF Files
    <3> QED BY <1>2, <2>1, <3>1 DEF WriteSome
  <2>3. \A m \in Names : files[m] # NoFile =>
          files'[m].header = files[m].header /\ files'[m].license = files[m].license
    BY <2>1, <2>2 DEF FilesInv, TypeOK, Files
  <2> QED BY <1>2, <2>3, PolicyVersions DEF WriteSome
<1>3. ASSUME NEW t \in Threads, CheckMode(t) \/ SetMode(t) \/ SetProvider(t) PROVE Versions'
  BY <1>3, PolicyVersions DEF CheckMode, SetMode, SetProvider
<1>4. ASSUME NEW t \in Threads, TakeProvider(t) PROVE Versions'
  <2>1. /\ call'[t].pc = "idle" /\ \A u \in Threads : u # t => call'[u] = call[u]
        /\ UNCHANGED misread
    BY <1>4 DEF TakeProvider, FilesInv, TypeOK
  <2> QED BY <1>4, <2>1, TakenFiles, VersionsKept DEF Before
<1>5. CASE Restart
  BY <1>5 DEF Restart, Versions, Before
<1>6. CASE UNCHANGED vars
  BY <1>1, <1>6 DEF vars
<1>7. ASSUME NEW l \in Licenses, CreatePolicy(l) PROVE Versions'
  BY <1>1, <1>7 DEF CreatePolicy
<1>8. CASE Next
  BY <1>2, <1>3, <1>4, <1>5, <1>7, <1>8, ReadStepVersions, AcquirePolicyVersions,
     CreateHeaderVersions DEF Next, ReadStep
<1> QED BY <1>6, <1>8

-----------------------------------------------------------------------------
(* The ciphers *)

\* The files of version 2 are the old ones.
OldHeaders ==
  \A n \in Names : files[n] # NoFile /\ files[n].header.major = 2 => HasOldFile(files[n].license)

\* A license with old files, or with a file whose version was read wrong.
Excused(l) == l \in misread \/ HasOldFile(l)

\* Only calls that found version 2 convert a policy.
Conversions == \A t \in Threads : call[t].pc \in {"setMode", "setProvider"} => call[t].major = 2

\* Policies, files and streams of the other licenses have the license's cipher.
PolicyCiphers ==
  \A o \in DOMAIN objects :
    \/ Excused(objects[o].license)
    \/ /\ objects[o].mode = CipherMode[objects[o].license]
       /\ objects[o].provider = CipherMode[objects[o].license]
FileCiphers ==
  \A n \in Names : files[n] # NoFile =>
    Excused(files[n].license) \/ files[n].cipher \in {"none", CipherMode[files[n].license]}
StreamCiphers ==
  \A t \in Threads : stream[t] # NoStream =>
    LET l == files[stream[t].name].license
    IN  Excused(l) \/ stream[t].cipher = CipherMode[l]

CipherInv == OldHeaders /\ Conversions /\ PolicyCiphers /\ FileCiphers /\ StreamCiphers

LEMMA OldIsOld ==
  ASSUME NEW n \in DOMAIN OldFiles
  PROVE  HasOldFile(OldFiles[n].license)
  BY DEF HasOldFile

\* With the ciphers of the old files as the release that wrote them left them, any.
LEMMA CipherInitInv == Init => CipherInv
<1> SUFFICES ASSUME Init PROVE CipherInv
  OBVIOUS
<1>1. \A n \in Names : files[n] # NoFile => HasOldFile(files[n].license)
  BY OldIsOld DEF Init
<1>2. OldHeaders /\ FileCiphers
  BY <1>1 DEF OldHeaders, FileCiphers, Excused
<1> QED BY <1>2 DEF Init, CipherInv, Conversions, PolicyCiphers, StreamCiphers

\* Names of calls and streams.
LEMMA NamesKnown ==
  ASSUME FilesInv, NEW u \in Threads
  PROVE  /\ ~At(u, "idle") => call[u].name \in Names /\ files[call[u].name] # NoFile
         /\ stream[u] # NoStream => stream[u].name \in Names /\ files[stream[u].name] # NoFile
  BY DEF FilesInv, TypeOK, ReadCalls, AcquireCalls, PolicyCalls, Streams

\* What is excused once stays so.
LEMMA StillExcused ==
  ASSUME NEW l, Excused(l), misread \subseteq misread'
  PROVE  Excused(l)'
  BY Zenon DEF Excused, HasOldFile

LEMMA SameExcused ==
  ASSUME UNCHANGED misread
  PROVE  \A l : Excused(l)' = Excused(l)
  BY Zenon DEF Excused, HasOldFile

\* A step that leaves the files alone, gives no new stream and no policy another
\* cipher, and starts no conversion.
LEMMA CipherUnchanged ==
  ASSUME FilesInv, CipherInv, UNCHANGED files, misread \subseteq misread',
         \A t \in Threads : stream'[t] \in {stream[t], NoStream},
         \A o \in DOMAIN objects' :
           \/ o \in DOMAIN objects /\ objects'[o] = objects[o]
           \/ /\ objects'[o].mode = CipherMode[objects'[o].license]
              /\ objects'[o].provider = CipherMode[objects'[o].license],
         \A t \in Threads : call'[t].pc \in {"setMode", "setProvider"} => call'[t] = call[t]
  PROVE  CipherInv'
<1>0. \A l : Excused(l) => Excused(l)'
  BY StillExcused
<1>1. OldHeaders'
  BY DEF CipherInv, OldHeaders, HasOldFile
<1>2. FileCiphers'
  BY <1>0 DEF CipherInv, FileCiphers
<1>3. Conversions'
  BY DEF CipherInv, Conversions
<1>4. PolicyCiphers'
  BY <1>0 DEF CipherInv, PolicyCiphers
<1>5. StreamCiphers'
  BY <1>0 DEF CipherInv, StreamCiphers
<1> QED BY <1>1, <1>2, <1>3, <1>4, <1>5 DEF CipherInv

LEMMA ReadStepCipher ==
  ASSUME FilesInv, CipherInv, NEW t \in Threads, ReadStep(t)
  PROVE  CipherInv'
<1>1. \A u \in Threads : call'[u].pc \in {"setMode", "setProvider"} => call'[u] = call[u]
  BY ReadStepFacts, PolicyPc
<1> QED BY <1>1, ReadStepFacts, CipherUnchanged

LEMMA AcquirePolicyCipher ==
  ASSUME FilesInv, CipherInv, NEW t \in Threads, AcquirePolicy(t)
  PROVE  CipherInv'
<1>1. UNCHANGED <<files, misread>> /\ \A u \in Threads : stream'[u] \in {stream[u], NoStream}
  BY DEF AcquirePolicy, FilesInv, TypeOK
<1>2. \A u \in Threads : call'[u].pc \in {"setMode", "setProvider"} => call'[u] = call[u]
  BY DEF AcquirePolicy, FilesInv, TypeOK
<1>3. PICK l \in Licenses : l = files[call[t].name].license
  BY NamesKnown DEF AcquirePolicy, FilesInv, TypeOK, Files
<1>4. objects' = objects \/ objects' = Append(objects, NewPolicy(l))
  BY <1>3 DEF AcquirePolicy
<1>5. \A o \in DOMAIN objects' :
        \/ o \in DOMAIN objects /\ objects'[o] = objects[o]
        \/ /\ objects'[o].mode = CipherMode[objects'[o].license]
           /\ objects'[o].provider = CipherMode[objects'[o].license]
  BY <1>4, OneMorePolicy, NewPolicyType
<1> QED BY <1>1, <1>2, <1>5, CipherUnchanged

LEMMA CreatePolicyCipher ==
  ASSUME FilesInv, CipherInv, NEW l \in Licenses, CreatePolicy(l)
  PROVE  CipherInv'
<1>1. UNCHANGED <<files, call, stream, misread>> /\ objects' = Append(objects, NewPolicy(l))
  BY DEF CreatePolicy
<1>2. \A o \in DOMAIN objects' :
        \/ o \in DOMAIN objects /\ objects'[o] = objects[o]
        \/ /\ objects'[o].mode = CipherMode[objects'[o].license]
           /\ objects'[o].provider = CipherMode[objects'[o].license]
  BY <1>1, OneMorePolicy, NewPolicyType
<1> QED BY <1>1, <1>2, CipherUnchanged

LEMMA CreateHeaderCipher ==
  ASSUME FilesInv, CipherInv, NEW t \in Threads, NEW n \in Names, NEW o \in DOMAIN objects,
         CreateHeader(t, n, o)
  PROVE  CipherInv'
<1>1. PICK l \in Licenses : l = objects[o].license
  BY PolicyType
<1>2. PICK h \in Headers : h = NewHeader(ExtensionLength, LicenseLength[l]) /\ h.major = 3
  BY <1>1, StartIsContent
<1>3. PICK f : f = [header |-> h, license |-> l, cipher |-> "none", size |-> 0]
  OBVIOUS
<1>4. f.header = h /\ f.cipher = "none"
  BY <1>3
<1>5. /\ files'[n] = f /\ \A m \in Names : m # n => files'[m] = files[m]
      /\ files[n] = NoFile
      /\ UNCHANGED <<objects, misread>>
      /\ \A u \in Threads : stream'[u] \in {stream[u], NoStream}
  BY <1>1, <1>2, <1>3 DEF CreateHeader, GiveUp, FilesInv, TypeOK
<1>6. \A u \in Threads : call'[u].pc \in {"setMode", "setProvider"} => call'[u] = call[u]
  BY DEF CreateHeader, FilesInv, TypeOK
<1>7. \A k : Excused(k)' = Excused(k)
  BY <1>5, SameExcused
<1>8. OldHeaders'
  BY <1>2, <1>4, <1>5 DEF CipherInv, OldHeaders, HasOldFile
<1>9. FileCiphers'
  BY <1>4, <1>5, <1>7 DEF CipherInv, FileCiphers
<1>10. Conversions' /\ PolicyCiphers'
  BY <1>5, <1>6, <1>7 DEF CipherInv, Conversions, PolicyCiphers
<1>11. StreamCiphers'
  BY <1>5, <1>7, NamesKnown DEF CipherInv, StreamCiphers
<1> QED BY <1>8, <1>9, <1>10, <1>11 DEF CipherInv

LEMMA WriteSomeCipher ==
  ASSUME FilesInv, CipherInv, NEW t \in Threads, WriteSome(t)
  PROVE  CipherInv'
<1>1. PICK n \in Names : n = call[t].name
  BY PolicyCall, PolicyPc DEF WriteSome
<1>2. files[n] \in Files /\ files[n] # NoFile
  BY <1>1, PolicyCall, PolicyPc DEF WriteSome
<1>3. PICK size \in Cuts \cup {Content(n)} : files' = [files EXCEPT ![n].size = size]
  BY <1>1 DEF WriteSome, Content
<1>4. PICK f : f = [files[n] EXCEPT !.size = size]
  OBVIOUS
<1>5. f.header = files[n].header /\ f.license = files[n].license /\ f.cipher = files[n].cipher
  BY <1>2, <1>4 DEF Files
<1>6. files'[n] = f /\ \A m \in Names : m # n => files'[m] = files[m]
  BY <1>3, <1>4 DEF FilesInv, TypeOK
<1>7. UNCHANGED <<objects, stream, misread>>
  BY DEF WriteSome
<1>8. \A u \in Threads : call'[u].pc \in {"setMode", "setProvider"} => call'[u] = call[u]
  <2>1. call[t] \in PolicyCalls
    BY PolicyCall, PolicyPc DEF WriteSome
  <2>2. call'[t].pc \in {"check", "write"} /\ \A u \in Threads : u # t => call'[u] = call[u]
    BY <2>1 DEF WriteSome, FilesInv, TypeOK, PolicyCalls
  <2> QED BY <2>2
<1>9. \A k : Excused(k)' = Excused(k)
  BY <1>7, SameExcused
<1>10. OldHeaders'
  BY <1>2, <1>5, <1>6 DEF CipherInv, OldHeaders, HasOldFile
<1>11. FileCiphers'
  BY <1>2, <1>5, <1>6, <1>9 DEF CipherInv, FileCiphers
<1>12. Conversions' /\ PolicyCiphers'
  BY <1>7, <1>8, <1>9 DEF CipherInv, Conversions, PolicyCiphers
<1>13. StreamCiphers'
  BY <1>5, <1>6, <1>7, <1>9, NamesKnown DEF CipherInv, StreamCiphers
<1> QED BY <1>10, <1>11, <1>12, <1>13 DEF CipherInv

\* A call on its way through the conversion: the program counter and nothing else.
LEMMA NextPc ==
  ASSUME FilesInv, NEW t \in Threads, call[t].pc \notin Opening,
         NEW pc \in {"setMode", "setProvider", "take"},
         call' = [call EXCEPT ![t] = [call[t] EXCEPT !.pc = pc]]
  PROVE  /\ call'[t].pc = pc /\ call'[t].major = call[t].major
         /\ call'[t].object = call[t].object /\ call'[t].name = call[t].name
         /\ \A u \in Threads : u # t => call'[u] = call[u]
<1>1. call[t] \in PolicyCalls
  BY PolicyCall
<1> QED BY <1>1 DEF FilesInv, TypeOK, PolicyCalls

\* A step that changes neither files nor streams.
LEMMA CiphersKept ==
  ASSUME CipherInv, UNCHANGED <<files, stream, misread>>
  PROVE  OldHeaders' /\ FileCiphers' /\ StreamCiphers'
<1>1. \A l : Excused(l)' = Excused(l)
  BY SameExcused
<1> QED BY <1>1 DEF CipherInv, OldHeaders, HasOldFile, FileCiphers, StreamCiphers

LEMMA CheckModeCipher ==
  ASSUME FilesInv, CipherInv, NEW t \in Threads, CheckMode(t)
  PROVE  CipherInv'
<1>1. PICK pc \in {"setMode", "setProvider", "take"} :
                /\ pc = IF ForcesCBC4K(objects[call[t].object].mode, call[t].major)
                          THEN "setMode" ELSE "take"
                /\ call' = [call EXCEPT ![t] = [call[t] EXCEPT !.pc = pc]]
  BY DEF CheckMode
<1>2. /\ call'[t].pc = pc /\ call'[t].major = call[t].major
      /\ \A u \in Threads : u # t => call'[u] = call[u]
  <2>1. call[t].pc \notin Opening
    BY PolicyPc DEF CheckMode
  <2> QED BY <1>1, <2>1, NextPc
<1>3. call[t].major \in 2..3
  BY PolicyCall, PolicyPc DEF CheckMode, PolicyCalls
<1>4. Conversions'
  BY <1>1, <1>2, <1>3 DEF CipherInv, Conversions, ForcesCBC4K
<1> QED BY <1>4, CiphersKept DEF CheckMode, CipherInv, PolicyCiphers, Excused, HasOldFile

\* A policy that is converted has a license with old files, or a misread one.
LEMMA ConvertedIsOld ==
  ASSUME FilesInv, Versions, CipherInv, NEW t \in Threads,
         call[t].pc \in {"setMode", "setProvider"}
  PROVE  Excused(objects[call[t].object].license)
<1>1. call[t].name \in Names /\ files[call[t].name] # NoFile
      /\ objects[call[t].object].license = files[call[t].name].license
  BY PolicyCall, PolicyPc
<1>2. call[t].major = 2
  BY DEF CipherInv, Conversions
<1>3. VersionRight(call[t], call[t].name)
  BY DEF Versions, Before
<1>4. call[t].major = files[call[t].name].header.major \/ files[call[t].name].license \in misread
  BY <1>3 DEF VersionRight, VersionOf
<1> QED BY <1>1, <1>2, <1>4 DEF CipherInv, OldHeaders, Excused

LEMMA SetModeCipher ==
  ASSUME FilesInv, Versions, CipherInv, NEW t \in Threads, SetMode(t)
  PROVE  CipherInv'
<1>1. PICK o \in DOMAIN objects : o = call[t].object
  BY PolicyCall, PolicyPc DEF SetMode
<1>2. "CBC4K" \in Modes /\ objects[o].provider \in Modes
  BY PolicyType DEF Modes
<1>3. objects' = [objects EXCEPT ![o] = [license |-> objects[o].license, mode |-> "CBC4K",
                                         provider |-> objects[o].provider]]
  BY <1>1, SetModePolicies
<1>4. /\ DOMAIN objects' = DOMAIN objects
      /\ \A i \in DOMAIN objects : objects'[i].license = objects[i].license
      /\ \A i \in DOMAIN objects : i # o => objects'[i] = objects[i]
  BY <1>2, <1>3, OnePolicy
<1>5. PolicyCiphers'
  <2>0. \A l : Excused(l)' = Excused(l)
    BY SameExcused DEF SetMode
  <2>1. Excused(objects[o].license)
    BY <1>1, ConvertedIsOld DEF SetMode
  <2> SUFFICES ASSUME NEW i \in DOMAIN objects
               PROVE  \/ Excused(objects'[i].license)
                      \/ /\ objects'[i].mode = CipherMode[objects'[i].license]
                         /\ objects'[i].provider = CipherMode[objects'[i].license]
    BY <1>4, <2>0, Zenon DEF PolicyCiphers
  <2>2. CASE i = o
    BY <1>4, <2>1, <2>2, Zenon
  <2>3. CASE i # o
    BY <1>4, <2>3 DEF CipherInv, PolicyCiphers
  <2> QED BY <2>2, <2>3
<1>6. Conversions'
  BY NextPc, PolicyPc DEF SetMode, CipherInv, Conversions
<1> QED BY <1>5, <1>6, CiphersKept DEF SetMode, CipherInv

LEMMA SetProviderCipher ==
  ASSUME FilesInv, Versions, CipherInv, NEW t \in Threads, SetProvider(t)
  PROVE  CipherInv'
<1>1. PICK o \in DOMAIN objects : o = call[t].object
  BY PolicyCall, PolicyPc DEF SetProvider
<1>2. objects[o].mode \in Modes
  BY PolicyType
<1>3. objects' = [objects EXCEPT ![o] = [license |-> objects[o].license, mode |-> objects[o].mode,
                                         provider |-> objects[o].mode]]
  BY <1>1, SetProviderPolicies
<1>4. /\ DOMAIN objects' = DOMAIN objects
      /\ \A i \in DOMAIN objects : objects'[i].license = objects[i].license
      /\ \A i \in DOMAIN objects : i # o => objects'[i] = objects[i]
  BY <1>2, <1>3, OnePolicy
<1>5. PolicyCiphers'
  <2>0. \A l : Excused(l)' = Excused(l)
    BY SameExcused DEF SetProvider
  <2>1. Excused(objects[o].license)
    BY <1>1, ConvertedIsOld DEF SetProvider
  <2> SUFFICES ASSUME NEW i \in DOMAIN objects
               PROVE  \/ Excused(objects'[i].license)
                      \/ /\ objects'[i].mode = CipherMode[objects'[i].license]
                         /\ objects'[i].provider = CipherMode[objects'[i].license]
    BY <1>4, <2>0, Zenon DEF PolicyCiphers
  <2>2. CASE i = o
    BY <1>4, <2>1, <2>2, Zenon
  <2>3. CASE i # o
    BY <1>4, <2>3 DEF CipherInv, PolicyCiphers
  <2> QED BY <2>2, <2>3
<1>6. Conversions'
  BY NextPc, PolicyPc DEF SetProvider, CipherInv, Conversions
<1> QED BY <1>5, <1>6, CiphersKept DEF SetProvider, CipherInv

LEMMA TakeProviderCipher ==
  ASSUME FilesInv, CipherInv, NEW t \in Threads, TakeProvider(t)
  PROVE  CipherInv'
<1>1. PICK n \in Names : n = call[t].name
  BY PolicyCall, PolicyPc DEF TakeProvider
<1>2. PICK o \in DOMAIN objects : o = call[t].object
  BY PolicyCall, PolicyPc DEF TakeProvider
<1>3. files[n] # NoFile /\ objects[o].license = files[n].license
  BY <1>1, <1>2, PolicyCall, PolicyPc DEF TakeProvider
<1>4. Excused(files[n].license) \/ objects[o].provider = CipherMode[files[n].license]
  <2>1. \/ Excused(objects[o].license)
        \/ objects[o].provider = CipherMode[objects[o].license]
    BY DEF CipherInv, PolicyCiphers
  <2> HIDE DEF Excused
  <2> QED BY <1>3, <2>1
<1>5. \A m \in Names : files[m] = NoFile => files'[m] = NoFile
  BY TakenFiles
<1>6. \A m \in Names : files[m] # NoFile =>
        /\ files'[m].header = files[m].header /\ files'[m].license = files[m].license
        /\ \/ files'[m].cipher = files[m].cipher
           \/ m = n /\ files'[m].cipher = objects[o].provider
  BY <1>1, <1>2, TakenFiles
<1>7. \A k : Excused(k)' = Excused(k)
  BY SameExcused DEF TakeProvider
<1>8. OldHeaders'
  BY <1>5, <1>6 DEF CipherInv, OldHeaders, HasOldFile
<1>9. FileCiphers'
  BY <1>4, <1>5, <1>6, <1>7 DEF CipherInv, FileCiphers
<1>10. Conversions' /\ PolicyCiphers'
  BY <1>7 DEF TakeProvider, CipherInv, Conversions, PolicyCiphers, FilesInv, TypeOK
<1>11. /\ stream'[t].name = n /\ stream'[t].cipher = objects[o].provider
      /\ \A u \in Threads : u # t => stream'[u] = stream[u]
  BY <1>1, <1>2 DEF TakeProvider, FilesInv, TypeOK
<1>12. StreamCiphers'
  BY <1>3, <1>4, <1>6, <1>7, <1>11, NamesKnown DEF CipherInv, StreamCiphers
<1> QED BY <1>8, <1>9, <1>10, <1>12 DEF CipherInv

LEMMA RestartCipher == FilesInv /\ CipherInv /\ Restart => CipherInv'
<1> SUFFICES ASSUME FilesInv, CipherInv, Restart PROVE CipherInv'
  OBVIOUS
<1>1. \A l : Excused(l)' = Excused(l)
  BY SameExcused DEF Restart
<1> QED BY <1>1 DEF CipherInv, OldHeaders, HasOldFile, Conversions, PolicyCiphers, FileCiphers,
                    StreamCiphers, Restart

LEMMA CipherNextInv == FilesInv /\ Versions /\ CipherInv /\ [Next]_vars => CipherInv'
<1> SUFFICES ASSUME FilesInv, Versions, CipherInv, [Next]_vars PROVE CipherInv'
  OBVIOUS
<1>1. CASE UNCHANGED vars
  BY <1>1, CipherUnchanged DEF vars
<1>2. CASE Next
  BY <1>2, ReadStepCipher, AcquirePolicyCipher, CreateHeaderCipher, WriteSomeCipher,
     CheckModeCipher, SetModeCipher, SetProviderCipher, TakeProviderCipher, CreatePolicyCipher,
     RestartCipher DEF Next, ReadStep
<1> QED BY <1>1, <1>2

\* A file published under a license without old files, of which no reader took the
\* version for another, is read with the cipher ProtectionPolicy wrote it with.
THEOREM NewFilesAreReadable == Spec => []NewFilesReadable
<1>1. FilesInv /\ CipherInv => NewFilesReadable
  <2> SUFFICES ASSUME FilesInv, CipherInv PROVE NewFilesReadable
    OBVIOUS
  <2> QED BY NamesKnown DEF CipherInv, FileCiphers, StreamCiphers, NewFilesReadable, Excused
<1> QED BY <1>1, FilesInitInv, FilesNextInv, VersionsInitInv, VersionsNextInv, CipherInitInv,
           CipherNextInv, PTL DEF Spec

-----------------------------------------------------------------------------
(* The conversion of a policy *)

\* A policy in mode CBC4K has the provider for it, but for the call that has set the
\* mode and not yet the provider.
Converted ==
  \A o \in DOMAIN objects :
    \/ CipherMode[objects[o].license] # "ECB"
    \/ objects[o].mode = "ECB"
    \/ objects[o].mode = "CBC4K" /\ objects[o].provider = "CBC4K"
    \/ objects[o].mode = "CBC4K" /\ \E t \in Threads : Converting(t, o)

\* A call on a file of version 2 finds the mode converted once it has checked it.
Checked ==
  \A t \in Threads : call[t].pc \in {"setProvider", "take"} /\ call[t].major = 2 =>
    objects[call[t].object].mode # "ECB"

ConversionInv == Converted /\ Checked

LEMMA ConversionInitInv == Init => ConversionInv
  BY DEF Init, ConversionInv, Converted, Checked

\* A step that leaves the policies there are alone, adds at most such as the service
\* describes, and moves calls only before their check.
LEMMA ConversionUnchanged ==
  ASSUME FilesInv, ConversionInv, DOMAIN objects \subseteq DOMAIN objects',
         \A o \in DOMAIN objects : objects'[o] = objects[o],
         \A o \in DOMAIN objects' : o \in DOMAIN objects
           \/ objects'[o].mode = CipherMode[objects'[o].license],
         \A u \in Threads : call'[u] = call[u] \/
           (call[u].pc # "setProvider" /\ call'[u].pc \notin {"setProvider", "take"})
  PROVE  ConversionInv'
<1>1. \A o \in DOMAIN objects : (\E t \in Threads : Converting(t, o)) =>
         (\E t \in Threads : Converting(t, o)')
  BY DEF Converting
<1>2. Converted'
  <2> SUFFICES ASSUME NEW o \in DOMAIN objects'
               PROVE  \/ CipherMode[objects'[o].license] # "ECB"
                      \/ objects'[o].mode = "ECB"
                      \/ objects'[o].mode = "CBC4K" /\ objects'[o].provider = "CBC4K"
                      \/ objects'[o].mode = "CBC4K" /\ \E t \in Threads : Converting(t, o)'
    BY DEF Converted
  <2>1. CASE o \in DOMAIN objects
    BY <1>1, <2>1 DEF ConversionInv, Converted
  <2>2. CASE objects'[o].mode = CipherMode[objects'[o].license]
    BY <2>2
  <2> QED BY <2>1, <2>2
<1>3. Checked'
  <2> SUFFICES ASSUME NEW u \in Threads, call[u].pc \in {"setProvider", "take"},
                      call[u].major = 2, call'[u] = call[u]
               PROVE  objects'[call[u].object].mode # "ECB"
    BY DEF Checked
  <2>1. call[u].object \in DOMAIN objects
    BY PolicyCall, PolicyPc
  <2> QED BY <2>1 DEF ConversionInv, Checked
<1> QED BY <1>2, <1>3 DEF ConversionInv

LEMMA CheckModeConversion ==
  ASSUME FilesInv, ConversionInv, NEW t \in Threads, CheckMode(t)
  PROVE  ConversionInv'
<1>1. PICK pc \in {"setMode", "setProvider", "take"} :
        /\ pc = IF ForcesCBC4K(objects[call[t].object].mode, call[t].major)
                  THEN "setMode" ELSE "take"
        /\ call' = [call EXCEPT ![t] = [call[t] EXCEPT !.pc = pc]]
  BY DEF CheckMode
<1>2. At(t, "check") /\ UNCHANGED objects
  BY DEF CheckMode
<1>3. /\ call'[t].pc = pc /\ call'[t].major = call[t].major /\ call'[t].object = call[t].object
      /\ \A u \in Threads : u # t => call'[u] = call[u]
  <2>1. call[t].pc \notin Opening
    BY <1>2, PolicyPc
  <2> QED BY <1>1, <2>1, NextPc
<1>4. Converted'
  <2>1. \A o \in DOMAIN objects, u \in Threads : Converting(u, o) => Converting(u, o)'
    BY <1>2, <1>3 DEF Converting
  <2> QED BY <1>2, <2>1 DEF ConversionInv, Converted
<1>5. Checked'
  BY <1>1, <1>2, <1>3 DEF ConversionInv, Checked, ForcesCBC4K
<1> QED BY <1>4, <1>5 DEF ConversionInv

LEMMA SetModeConversion ==
  ASSUME FilesInv, ConversionInv, NEW t \in Threads, SetMode(t)
  PROVE  ConversionInv'
<1>1. PICK o \in DOMAIN objects : o = call[t].object
  BY PolicyCall, PolicyPc DEF SetMode
<1>2. "CBC4K" \in Modes /\ objects[o].provider \in Modes
  BY PolicyType DEF Modes
<1>3. objects' = [objects EXCEPT ![o] = [license |-> objects[o].license, mode |-> "CBC4K",
                                         provider |-> objects[o].provider]]
  BY <1>1, SetModePolicies
<1>4. /\ DOMAIN objects' = DOMAIN objects
      /\ \A i \in DOMAIN objects : i # o => objects'[i] = objects[i]
      /\ objects'[o].mode = "CBC4K"
  BY <1>2, <1>3, OnePolicy
<1>5. At(t, "setMode")
  BY DEF SetMode
<1>6. /\ call'[t].pc = "setProvider" /\ call'[t].object = o
      /\ \A u \in Threads : u # t => call'[u] = call[u]
  BY <1>1, <1>5, NextPc, PolicyPc DEF SetMode
<1>7. Converted'
  <2> SUFFICES ASSUME NEW i \in DOMAIN objects
               PROVE  \/ CipherMode[objects'[i].license] # "ECB"
                      \/ objects'[i].mode = "ECB"
                      \/ objects'[i].mode = "CBC4K" /\ objects'[i].provider = "CBC4K"
                      \/ objects'[i].mode = "CBC4K" /\ \E u \in Threads : Converting(u, i)'
    BY <1>4 DEF Converted
  <2>1. CASE i = o
    <3>1. Converting(t, o)'
      BY <1>6 DEF Converting
    <3> QED BY <1>4, <2>1, <3>1
  <2>2. CASE i # o
    <3>1. \A u \in Threads : Converting(u, i) => Converting(u, i)'
      BY <1>5, <1>6 DEF Converting
    <3> QED BY <1>4, <2>2, <3>1 DEF ConversionInv, Converted
  <2> QED BY <2>1, <2>2
<1>8. Checked'
  <2> SUFFICES ASSUME NEW u \in Threads, call'[u].pc \in {"setProvider", "take"},
                      call'[u].major = 2
               PROVE  objects'[call'[u].object].mode # "ECB"
    BY DEF Checked
  <2>1. CASE u = t
    BY <1>4, <1>6, <2>1
  <2>2. CASE u # t
    <3>1. call'[u] = call[u] /\ call[u].object \in DOMAIN objects
      BY <1>6, <2>2, PolicyCall, PolicyPc
    <3> QED BY <1>4, <3>1 DEF ConversionInv, Checked
  <2> QED BY <2>1, <2>2
<1> QED BY <1>7, <1>8 DEF ConversionInv

LEMMA SetProviderConversion ==
  ASSUME FilesInv, ConversionInv, NEW t \in Threads, SetProvider(t)
  PROVE  ConversionInv'
<1>1. PICK o \in DOMAIN objects : o = call[t].object
  BY PolicyCall, PolicyPc DEF SetProvider
<1>2. objects[o].mode \in Modes
  BY PolicyType
<1>3. objects' = [objects EXCEPT ![o] = [license |-> objects[o].license, mode |-> objects[o].mode,
                                         provider |-> objects[o].mode]]
  BY <1>1, SetProviderPolicies
<1>4. /\ DOMAIN objects' = DOMAIN objects
      /\ \A i \in DOMAIN objects : objects'[i].license = objects[i].license
      /\ \A i \in DOMAIN objects : i # o => objects'[i] = objects[i]
      /\ objects'[o].mode = objects[o].mode /\ objects'[o].provider = objects[o].mode
  BY <1>2, <1>3, OnePolicy
<1>5. At(t, "setProvider")
  BY DEF SetProvider
<1>6. /\ call'[t].pc = "take" /\ call'[t].object = o /\ call'[t].major = call[t].major
      /\ \A u \in Threads : u # t => call'[u] = call[u]
  BY <1>1, <1>5, NextPc, PolicyPc DEF SetProvider
<1>7. Converted'
  <2> SUFFICES ASSUME NEW i \in DOMAIN objects
               PROVE  \/ CipherMode[objects'[i].license] # "ECB"
                      \/ objects'[i].mode = "ECB"
                      \/ objects'[i].mode = "CBC4K" /\ objects'[i].provider = "CBC4K"
                      \/ objects'[i].mode = "CBC4K" /\ \E u \in Threads : Converting(u, i)'
    BY <1>4 DEF Converted
  <2>1. CASE i = o
    BY <1>4, <2>1 DEF ConversionInv, Converted
  <2>2. CASE i # o
    <3>1. \A u \in Threads : Converting(u, i) => Converting(u, i)'
      BY <1>1, <1>6, <2>2 DEF Converting
    <3> QED BY <1>4, <2>2, <3>1 DEF ConversionInv, Converted
  <2> QED BY <2>1, <2>2
<1>8. Checked'
  <2> SUFFICES ASSUME NEW u \in Threads, call'[u].pc \in {"setProvider", "take"},
                      call'[u].major = 2
               PROVE  objects'[call'[u].object].mode # "ECB"
    BY DEF Checked
  <2>1. call'[u].object = call[u].object /\ call[u].object \in DOMAIN objects
    BY <1>1, <1>5, <1>6, PolicyCall, PolicyPc
  <2>2. objects[call[u].object].mode # "ECB"
    BY <1>5, <1>6 DEF ConversionInv, Checked
  <2> QED BY <1>4, <2>1, <2>2
<1> QED BY <1>7, <1>8 DEF ConversionInv

LEMMA ReadStepConversion ==
  ASSUME FilesInv, ConversionInv, NEW t \in Threads, ReadStep(t)
  PROVE  ConversionInv'
<1>1. /\ UNCHANGED objects /\ \A u \in Threads : u # t => call'[u] = call[u]
      /\ call[t].pc # "setProvider" /\ call'[t].pc \notin {"setProvider", "take"}
  BY ReadStepFacts, PolicyPc DEF Opening
<1> QED BY <1>1, ConversionUnchanged

\* The other calls before their check, and after.
LEMMA OtherConversion ==
  ASSUME FilesInv, ConversionInv, NEW t \in Threads,
         \/ AcquirePolicy(t)
         \/ \E n \in Names, o \in DOMAIN objects : CreateHeader(t, n, o)
         \/ WriteSome(t) \/ TakeProvider(t)
  PROVE  ConversionInv'
<1>1. \A u \in Threads : u # t => call'[u] = call[u]
  BY DEF AcquirePolicy, CreateHeader, WriteSome, TakeProvider, FilesInv, TypeOK
<1>2. call[t].pc # "setProvider"
  BY DEF AcquirePolicy, CreateHeader, WriteSome, TakeProvider
<1>3. call'[t].pc \notin {"setProvider", "take"}
  <2>1. CASE WriteSome(t)
    <3>1. call[t] \in PolicyCalls
      BY <2>1, PolicyCall, PolicyPc DEF WriteSome
    <3> QED BY <2>1, <3>1 DEF WriteSome, FilesInv, TypeOK, PolicyCalls
  <2>2. CASE ~WriteSome(t)
    BY <2>2 DEF AcquirePolicy, CreateHeader, TakeProvider, FilesInv, TypeOK
  <2> QED BY <2>1, <2>2
<1>4. objects' = objects \/ \E l \in Licenses : objects' = Append(objects, NewPolicy(l))
  <2>1. CASE AcquirePolicy(t)
    <3>1. files[call[t].name].license \in Licenses
      BY <2>1, NamesKnown DEF AcquirePolicy, FilesInv, TypeOK, Files
    <3> QED BY <2>1, <3>1 DEF AcquirePolicy
  <2>2. CASE ~AcquirePolicy(t)
    BY <2>2 DEF CreateHeader, WriteSome, TakeProvider
  <2> QED BY <2>1, <2>2
<1>5. /\ DOMAIN objects \subseteq DOMAIN objects'
      /\ \A o \in DOMAIN objects : objects'[o] = objects[o]
      /\ \A o \in DOMAIN objects' :
           o \in DOMAIN objects \/ objects'[o].mode = CipherMode[objects'[o].license]
  <2>1. CASE objects' = objects
    BY <2>1
  <2>2. ASSUME NEW l \in Licenses, objects' = Append(objects, NewPolicy(l))
        PROVE  /\ DOMAIN objects \subseteq DOMAIN objects'
               /\ \A o \in DOMAIN objects : objects'[o] = objects[o]
               /\ \A o \in DOMAIN objects' :
                    o \in DOMAIN objects \/ objects'[o].mode = CipherMode[objects'[o].license]
    BY <2>2, OneMorePolicy, NewPolicyType
  <2> QED BY <1>4, <2>1, <2>2
<1> QED BY <1>1, <1>2, <1>3, <1>5, ConversionUnchanged

LEMMA CreatePolicyConversion ==
  ASSUME FilesInv, ConversionInv, NEW l \in Licenses, CreatePolicy(l)
  PROVE  ConversionInv'
<1>1. /\ DOMAIN objects \subseteq DOMAIN objects'
      /\ \A o \in DOMAIN objects : objects'[o] = objects[o]
      /\ \A o \in DOMAIN objects' :
           o \in DOMAIN objects \/ objects'[o].mode = CipherMode[objects'[o].license]
  BY OneMorePolicy, NewPolicyType DEF CreatePolicy
<1> QED BY <1>1, ConversionUnchanged DEF CreatePolicy

LEMMA RestartConversion == Restart => ConversionInv'
  BY DEF ConversionInv, Converted, Checked, Restart

LEMMA ConversionNextInv == FilesInv /\ ConversionInv /\ [Next]_vars => ConversionInv'
<1> SUFFICES ASSUME FilesInv, ConversionInv, [Next]_vars PROVE ConversionInv'
  OBVIOUS
<1>1. CASE UNCHANGED vars
  BY <1>1 DEF vars, ConversionInv, Converted, Checked, Converting
<1>2. CASE Next
  BY <1>2, ReadStepConversion, OtherConversion, CheckModeConversion, SetModeConversion,
     SetProviderConversion, CreatePolicyConversion, RestartConversion DEF Next, ReadStep
<1> QED BY <1>1, <1>2

\* The step of TakeProvider, which alone gives a stream.
LEMMA TakesCBC4K ==
  ASSUME FilesInv, ConversionInv, NEW t \in Threads, TakeProvider(t),
         call[t].major = 2, CipherMode[files[call[t].name].license] = "ECB"
  PROVE  \/ stream'[t].cipher = "CBC4K"
         \/ \E u \in Threads \ {t} : Converting(u, call[t].object)
<1>1. PICK o \in DOMAIN objects : o = call[t].object
  BY PolicyCall, PolicyPc DEF TakeProvider
<1>2. objects[o].license = files[call[t].name].license
  BY <1>1, PolicyCall, PolicyPc DEF TakeProvider
<1>3. objects[o].mode # "ECB"
  BY <1>1 DEF ConversionInv, Checked, TakeProvider
<1>4. objects[o].provider = "CBC4K" \/ \E u \in Threads : Converting(u, o)
  BY <1>2, <1>3 DEF ConversionInv, Converted
<1>5. stream'[t].cipher = objects[o].provider
  BY <1>1 DEF TakeProvider, FilesInv, TypeOK
<1>6. ~Converting(t, o)
  BY DEF Converting, TakeProvider
<1> QED BY <1>1, <1>4, <1>5, <1>6

\* A call that is about to take its provider takes it, fails or is ended.
LEMMA OnlyTake ==
  ASSUME FilesInv, [Next]_vars, NEW t \in Threads,
         At(t, "take"), ~At(t, "take")', stream'[t] # NoStream
  PROVE  TakeProvider(t)
<1>1. ~UNCHANGED vars
  BY DEF vars
<1>2. ~Restart
  BY DEF Restart
<1>3. ASSUME NEW l \in Licenses PROVE ~CreatePolicy(l)
  BY DEF CreatePolicy
<1>4. ASSUME NEW u \in Threads, u # t
      PROVE  /\ ~AcquirePolicy(u)
             /\ \A n \in Names, o \in DOMAIN objects : ~CreateHeader(u, n, o)
             /\ ~WriteSome(u) /\ ~CheckMode(u) /\ ~SetMode(u) /\ ~SetProvider(u)
             /\ ~TakeProvider(u)
  BY <1>4 DEF AcquirePolicy, CreateHeader, WriteSome, CheckMode, SetMode, SetProvider,
              TakeProvider, FilesInv, TypeOK
<1>5. /\ ~AcquirePolicy(t)
      /\ \A n \in Names, o \in DOMAIN objects : ~CreateHeader(t, n, o)
      /\ ~WriteSome(t) /\ ~CheckMode(t) /\ ~SetMode(t) /\ ~SetProvider(t)
  BY DEF AcquirePolicy, CreateHeader, WriteSome, CheckMode, SetMode, SetProvider
<1>6. ASSUME NEW u \in Threads PROVE ~ReadStep(u)
  BY ReadStepFacts DEF Reading
<1> QED BY <1>1, <1>2, <1>3, <1>4, <1>5, <1>6 DEF Next, ReadStep

\* A stream on a file of version 2 under an ECB license uses CBC4K, unless another
\* thread is between the two assignments of ReinitilizeCryptoProvider on its policy.
THEOREM OldFilesAreCBC4K == Spec => OldFilesGetCBC4K
<1> DEFINE Step ==
       \A t \in Threads :
         LET c == call[t]
         IN  ( /\ At(t, "take") /\ ~At(t, "take")' /\ stream'[t] # NoStream
               /\ c.major = 2 /\ CipherMode[files[c.name].license] = "ECB" )
             => \/ stream'[t].cipher = "CBC4K"
                \/ \E u \in Threads \ {t} : Converting(u, c.object)
<1>1. FilesInv /\ ConversionInv /\ [Next]_vars => [Step]_vars
  <2> SUFFICES ASSUME FilesInv, ConversionInv, [Next]_vars, NEW t \in Threads,
                      At(t, "take"), ~At(t, "take")', stream'[t] # NoStream,
                      call[t].major = 2, CipherMode[files[call[t].name].license] = "ECB"
               PROVE  \/ stream'[t].cipher = "CBC4K"
                      \/ \E u \in Threads \ {t} : Converting(u, call[t].object)
    OBVIOUS
  <2>1. TakeProvider(t)
    BY OnlyTake
  <2> QED BY <2>1, TakesCBC4K
<1> QED BY <1>1, FilesInitInv, FilesNextInv, ConversionInitInv, ConversionNextInv, PTL
        DEF Spec, OldFilesGetCBC4K
=============================================================================
