--------------------------- MODULE ProtectedFiles ---------------------------
(***************************************************************************)
(* Protected files: ProtectedFileStream::Acquire opens one, Create writes  *)
(* the header of a new one, both end in CreateProtectedFileStream, which   *)
(* takes the crypto provider of the policy.  A policy is an object several *)
(* threads and several files may share (the memory cache hands out the     *)
(* same object for the same license), and opening a file of version 2 may  *)
(* change its cipher in place, in two steps and without a lock.            *)
(*                                                                         *)
(* A file is its header (PFile), its license, the cipher its content is    *)
(* written with and the bytes that have reached the disk.  A restart drops *)
(* the policy objects and leaves the files being created cut anywhere.     *)
(***************************************************************************)
EXTENDS PFile, Sequences, FiniteSets

CONSTANTS Threads, Names, Licenses,
          CipherMode,          \* license -> the mode the service returns for it
          ExtensionLength,     \* of every file
          LicenseLength,       \* license -> length of its serialised form
          OldFiles,            \* name -> file of an earlier release, on some names
          Cuts,                \* where a file being created may be cut (bound)
          MaxObjects           \* policy objects per run of the program (bound)

Modes == {"ECB", "CBC512", "CBC4K"}
Files == [header : Headers, license : Licenses, cipher : Modes \cup {"none"}, size : Nat]
NoFile == [none |-> "file"]
NoStream == [none |-> "stream"]
Idle == [pc |-> "idle"]

ASSUME ProtectedFilesConstants ==
  /\ CipherMode \in [Licenses -> Modes]
  /\ LicenseLength \in [Licenses -> Nat \ {0}]
  /\ ExtensionLength \in Nat \ {0}
  /\ MaxObjects \in Nat /\ Cuts \subseteq Nat
  /\ DOMAIN OldFiles \subseteq Names
  /\ \A n \in DOMAIN OldFiles : OldFiles[n] \in Files /\ OldFiles[n].header.major = 2

VARIABLES files,      \* name -> [header, license, cipher, size] or NoFile
          objects,    \* sequence of policies [license, mode, provider]
          call,       \* thread -> where its call is
          stream,     \* thread -> the stream it has, [name, start, cipher, short]
          misread     \* the licenses of files whose version was read wrong (history)

vars == <<files, objects, call, stream, misread>>

-----------------------------------------------------------------------------
Init ==
  /\ files = [n \in Names |-> IF n \in DOMAIN OldFiles THEN OldFiles[n] ELSE NoFile]
  /\ objects = <<>>
  /\ call = [t \in Threads |-> Idle]
  /\ stream = [t \in Threads |-> NoStream]
  /\ misread = {}

At(t, pc) == call[t].pc = pc
Goto(t, c) == call' = [call EXCEPT ![t] = c]

\* A thread that begins another call has given up the stream of its last.
GiveUp(t) == stream' = [stream EXCEPT ![t] = NoStream]

\* An exception, or a result without a stream.
Fail(t) == Goto(t, Idle)

(* ProtectedFileStream::Acquire *)

\* PfileHeaderReader reads the header in many small reads, and the file may grow
\* between any two of them.  "NotPFile" gives Success without a stream, the other
\* exceptions leave the call: no stream either way.
CheckPreamble(t, n) ==
  /\ At(t, "idle") /\ files[n] # NoFile
  /\ GiveUp(t)
  /\ IF files[n].size < majorAt THEN Fail(t)
     ELSE Goto(t, [pc |-> "read", name |-> n, at |-> majorAt, short |-> Whole,
                   got |-> Uninitialised])
  /\ UNCHANGED <<files, objects, misread>>

\* What the reader does when it has read the number at c.at.
AfterNumber(c) ==
  CASE c.at = minorAt  -> "version"
    [] c.at = lengthAt -> "redirect"
    [] c.at > lengthAt /\ c.at + Length(c.at) =
         headerOffset + HeaderSize(c.got[majorAt], c.got[minorAt]) -> "extension"
    [] OTHER -> "read"

\* stream->Read of one number: of the versions, the length of the redirect header or
\* the numbers of the header.  The header's size and the original size are not used.
ReadOne(t) ==
  LET c == call[t]
      f == files[c.name]
  IN  /\ At(t, "read")
      /\ Goto(t, [pc |-> AfterNumber(c), name |-> c.name, at |-> c.at + Length(c.at),
                   short |-> ShortAfter(c.short, f.size, c.at, Length(c.at)),
                   got |-> [p \in Places |->
                              IF p = c.at THEN NumberRead(f.header, c.got[p], c.short, f.size, p)
                              ELSE c.got[p]]])
      /\ UNCHANGED <<files, objects, stream, misread>>

\* The check of the versions; minor versions from 1 on are alike.
CheckVersion(t) ==
  LET c == call[t]
  IN  /\ At(t, "version")
      /\ \/ Unknown \in {c.got[majorAt], c.got[minorAt]} /\ Fail(t)
         \/ \E v \in Possible(c.got[majorAt], 2..3), m \in Possible(c.got[minorAt], 0..1) :
              Goto(t, [c EXCEPT !.pc = "read",
                       !.got = [c.got EXCEPT ![majorAt] = v, ![minorAt] = m]])
      /\ UNCHANGED <<files, objects, stream, misread>>

\* ReadBytes of the redirect header.
ReadRedirect(t) ==
  LET c == call[t]
      n == files[c.name].size
  IN  /\ At(t, "redirect")
      /\ \/ MayExceed(c.got[lengthAt], n) /\ Fail(t)
         \/ /\ MayNotExceed(c.got[lengthAt], n)
            /\ Goto(t, [c EXCEPT !.pc = "read", !.at = headerOffset,
                         !.short = ShortAfter(c.short, n, lengthAt + 4, RedirectLength)])
      /\ UNCHANGED <<files, objects, stream, misread>>

\* The check of the content offset, and ReadExtension.
ReadExtension(t) ==
  LET c   == call[t]
      g   == c.got
      n   == files[c.name].size
      endOfHeader == IF HasMetadata(g[majorAt], g[minorAt]) THEN Plus(g[mdAt], g[mdLenAt])
                     ELSE Plus(g[plAt], g[plLenAt])
  IN  /\ At(t, "extension")
      /\ \/ /\ \/ MayExceed(endOfHeader, g[contentAt])
               \/ MayNotExceed(n, g[extAt])
               \/ MayExceed(g[extLenAt], n)
            /\ Fail(t)
         \/ /\ MayNotExceed(endOfHeader, g[contentAt])
            /\ MayExceed(n, g[extAt])
            /\ MayNotExceed(g[extLenAt], n)
            /\ Goto(t, [c EXCEPT !.pc = "license"])
      /\ UNCHANGED <<files, objects, stream, misread>>

\* The header has been read and goes to UserPolicy::Acquire.
Opened(t) ==
  LET c == call[t]
  IN  Goto(t, [pc |-> "acquire", name |-> c.name, start |-> c.got[contentAt],
               major |-> c.got[majorAt], short |-> c.short])

\* ReadAtOffset of the license.  One that was not read whole, or from elsewhere, is
\* not one the service or the cache knows.
ReadLicense(t) ==
  LET c     == call[t]
      f     == files[c.name]
      pl    == WriteHeader(f.header).pl
      g     == c.got
      whole == /\ g[plAt] \in {pl, Unknown} /\ g[plLenAt] \in {f.header.pl, Unknown}
               /\ f.header.pl > 0 /\ Present(f.size, pl, f.header.pl) = f.header.pl
  IN  /\ At(t, "license")
      /\ \/ /\ ~whole \/ Unknown \in {g[plAt], g[plLenAt]}
            /\ Fail(t) /\ UNCHANGED misread
         \/ /\ whole
            /\ IF HasMetadata(g[majorAt], g[minorAt])
                 THEN Goto(t, [c EXCEPT !.pc = "metadata"])
                 ELSE Opened(t)
            /\ misread' = IF g[majorAt] = f.header.major THEN misread
                          ELSE misread \cup {f.license}
      /\ UNCHANGED <<files, objects, stream>>

\* ReadAtOffset of the metadata, of which no byte is looked at.
ReadMetadata(t) ==
  LET c == call[t]
      n == files[c.name].size
  IN  /\ At(t, "metadata")
      /\ \/ MayExceed(c.got[mdLenAt], n) /\ Fail(t)
         \/ MayNotExceed(c.got[mdLenAt], n) /\ Opened(t)
      /\ UNCHANGED <<files, objects, stream, misread>>

\* ProtectionPolicy::InitializeKey, with what the service says of the license.
NewPolicy(l) == [license |-> l, mode |-> CipherMode[l], provider |-> CipherMode[l]]

\* Mutation of Cached: the license is not compared.
CachedAny(o, l) == TRUE

\* The condition of GetCachedProtectionPolicy on the license.
Cached(o, l) == objects[o].license = l

\* UserPolicy::Acquire: the cached policy of the license, a new one or none.
AcquirePolicy(t) ==
  LET c == call[t]
      l == files[c.name].license
      With(o) == Goto(t, [pc |-> "check", name |-> c.name, start |-> c.start,
                          major |-> c.major, short |-> c.short, object |-> o, new |-> FALSE])
  IN  /\ At(t, "acquire")
      /\ \/ /\ \E o \in DOMAIN objects : Cached(o, l) /\ With(o)
            /\ UNCHANGED objects
         \/ /\ Len(objects) < MaxObjects
            /\ objects' = Append(objects, NewPolicy(l))
            /\ With(Len(objects) + 1)
         \/ Fail(t) /\ UNCHANGED objects
      /\ UNCHANGED <<files, stream, misread>>

(* ProtectedFileStream::Create *)

\* UserPolicy::Create: the application publishes a license for the files to come.
CreatePolicy(l) ==
  /\ Len(objects) < MaxObjects
  /\ objects' = Append(objects, NewPolicy(l))
  /\ UNCHANGED <<files, call, stream, misread>>

\* The header is laid out and written with the policy the application holds.
CreateHeader(t, n, o) ==
  LET l == objects[o].license
      h == NewHeader(ExtensionLength, LicenseLength[l])
  IN  /\ At(t, "idle") /\ files[n] = NoFile
      /\ files' = [files EXCEPT ![n] = [header |-> h, license |-> l, cipher |-> "none", size |-> 0]]
      /\ Goto(t, [pc |-> "write", name |-> n, start |-> contentStartPosition(h),
                  major |-> h.major, short |-> Whole, object |-> o, new |-> TRUE])
      /\ GiveUp(t)
      /\ UNCHANGED <<objects, misread>>

\* Some more of it arrives; the call goes on when all of it has.
WriteSome(t) ==
  LET n   == call[t].name
      end == WriteHeader(files[n].header).content
  IN  /\ At(t, "write")
      /\ \E size \in Cuts \cup {end} :
           /\ files[n].size < size /\ size <= end
           /\ files' = [files EXCEPT ![n].size = size]
           /\ Goto(t, [call[t] EXCEPT !.pc = IF size = end THEN "check" ELSE "write"])
      /\ UNCHANGED <<objects, stream, misread>>

(* CreateProtectedFileStream *)

\* Mutation of ForcesCBC4K: files of every version.
ForcesCBC4KAlways(mode, major) == mode = "ECB"

\* Mutation of ForcesCBC4K: version 2 is left out.
ForcesCBC4KBelow2(mode, major) == mode = "ECB" /\ major < 2

\* Versions up to MaxMajorVerionsCBC4KIsForced.
ForcesCBC4K(mode, major) == mode = "ECB" /\ major <= 2

CheckMode(t) ==
  LET c == call[t]
  IN  /\ At(t, "check")
      /\ Goto(t, [c EXCEPT !.pc = IF ForcesCBC4K(objects[c.object].mode, c.major)
                                    THEN "setMode" ELSE "take"])
      /\ UNCHANGED <<files, objects, stream, misread>>

\* ReinitilizeCryptoProvider assigns the mode, then the provider.
SetMode(t) ==
  /\ At(t, "setMode")
  /\ objects' = [objects EXCEPT ![call[t].object].mode = "CBC4K"]
  /\ Goto(t, [call[t] EXCEPT !.pc = "setProvider"])
  /\ UNCHANGED <<files, stream, misread>>

SetProvider(t) ==
  /\ At(t, "setProvider")
  /\ objects' = [objects EXCEPT ![call[t].object].provider = objects[call[t].object].mode]
  /\ Goto(t, [call[t] EXCEPT !.pc = "take"])
  /\ UNCHANGED <<files, stream, misread>>

\* GetCryptoProvider and the stream over it.  A new file gets its content through
\* this stream, in the cipher of the provider.
TakeProvider(t) ==
  LET c == call[t]
      n == c.name
      p == objects[c.object].provider
  IN  /\ At(t, "take")
      /\ stream' = [stream EXCEPT ![t] = [name |-> n, start |-> c.start, cipher |-> p,
                                          short |-> c.short]]
      /\ files' = IF c.new THEN [files EXCEPT ![n].cipher = p] ELSE files
      /\ Goto(t, Idle)
      /\ UNCHANGED <<objects, misread>>

\* The program stops and starts again.
Restart ==
  /\ objects' = <<>>
  /\ call' = [t \in Threads |-> Idle]
  /\ stream' = [t \in Threads |-> NoStream]
  /\ UNCHANGED <<files, misread>>

Next ==
  \/ \E t \in Threads :
       \/ \E n \in Names : CheckPreamble(t, n)
       \/ ReadOne(t) \/ CheckVersion(t) \/ ReadRedirect(t)
       \/ ReadExtension(t) \/ ReadLicense(t) \/ ReadMetadata(t)
       \/ AcquirePolicy(t)
       \/ \E n \in Names, o \in DOMAIN objects : CreateHeader(t, n, o)
       \/ WriteSome(t) \/ CheckMode(t) \/ SetMode(t) \/ SetProvider(t)
       \/ TakeProvider(t)
  \/ \E l \in Licenses : CreatePolicy(l)
  \/ Restart

Spec == Init /\ [][Next]_vars
-----------------------------------------------------------------------------
Reading == {"read", "version", "redirect", "extension", "license", "metadata"}
ReadCalls == [pc : Reading, name : Names, at : Nat, short : Nat, got : [Places -> Numbers]]
AcquireCalls == [pc : {"acquire"}, name : Names, start : Numbers, major : 2..3, short : Nat]
PolicyCalls == [pc : {"write", "check", "setMode", "setProvider", "take"}, name : Names,
                start : Numbers, major : 2..3, short : Nat, object : Nat \ {0},
                new : BOOLEAN]
Streams == [name : Names, start : Numbers, cipher : Modes, short : Nat]

\* Where a call has no policy yet.
Opening == {"idle", "acquire"} \cup Reading

\* The types of the state of ProtectedFileStream and ProtectionPolicy; a call works
\* on a file and a policy that exist, of one license.
TypeOK ==
  /\ DOMAIN files = Names /\ \A n \in Names : files[n] = NoFile \/ files[n] \in Files
  /\ objects \in Seq([license : Licenses, mode : Modes, provider : Modes])
  /\ call \in [Threads -> {Idle} \cup ReadCalls \cup AcquireCalls \cup PolicyCalls]
  /\ stream \in [Threads -> {NoStream} \cup Streams]
  /\ \A t \in Threads : ~At(t, "idle") => files[call[t].name] # NoFile
  /\ \A t \in Threads : call[t].pc \notin Opening =>
       /\ call[t].object \in DOMAIN objects
       /\ objects[call[t].object].license = files[call[t].name].license
  /\ \A t \in Threads : stream[t] # NoStream => files[stream[t].name] # NoFile
  /\ misread \subseteq Licenses

\* The file ended before the content offset when it was opened, and has grown since.
Overtaken(s) == s.short < contentAt + 4 /\ s.short < files[s.name].size

\* Every stream starts where the content of its file starts, as laid out by the
\* header writer: Create computes the start from a constant, Acquire reads it, a
\* number at a time, from a file that may be cut anywhere or be growing; and where
\* there is no metadata the stream's size, the file's less the start, does not wrap.
\* The exception: the file ended before the content offset while the numbers were
\* read, and grew before the license was.
StartsAgree ==
  \A t \in Threads : stream[t] # NoStream /\ ~Overtaken(stream[t]) =>
    LET f == files[stream[t].name]
    IN  /\ stream[t].start = WriteHeader(f.header).content
        /\ f.header.md = 0 => stream[t].start <= f.size

HasOldFile(l) == \E n \in DOMAIN OldFiles : OldFiles[n].license = l

\* A license no file of an earlier release is published under, and of no file of which
\* a reader took the version for another (a variable that is not initialised, in a
\* file that was growing): every stream on a file of it, in whatever thread, from
\* whatever policy object and after whatever restarts, uses the cipher the file was
\* written with.
NewFilesReadable ==
  \A t \in Threads : stream[t] # NoStream =>
    LET f == files[stream[t].name]
    IN  f.license \in misread \/ HasOldFile(f.license) \/ f.cipher \in {"none", stream[t].cipher}

Converting(t, o) == At(t, "setProvider") /\ call[t].object = o

\* A stream on a file of version 2 published under an ECB license uses CBC4K, which
\* the earlier release wrote it with, unless another thread is at that moment inside
\* ReinitilizeCryptoProvider of the same policy object, between its two assignments.
OldFilesGetCBC4K ==
  [][\A t \in Threads :
       LET c == call[t]
       IN  ( /\ At(t, "take") /\ ~At(t, "take")' /\ stream'[t] # NoStream
             /\ c.major = 2 /\ CipherMode[files[c.name].license] = "ECB" )
           => \/ stream'[t].cipher = "CBC4K"
              \/ \E u \in Threads \ {t} : Converting(u, c.object)]_vars
=============================================================================
