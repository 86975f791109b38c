-------------------------- MODULE MCProtectedFiles --------------------------
(***************************************************************************)
(* Two threads.  Two old files under license "ecb", one of them with       *)
(* metadata and cut in the middle of it; a new file under "ecb" or under   *)
(* "other", which names the same mode and has no old file.                 *)
(***************************************************************************)
EXTENDS ProtectedFiles, TLC

CONSTANTS t1, t2

MCNames == {"old", "cut", "new"}
MCLicenses == {"ecb", "other"}
MCCipherMode == [l \in MCLicenses |-> "ECB"]
MCLicenseLength == [l \in MCLicenses |-> IF l = "ecb" THEN 256 ELSE 300]

OldFile(minor, md, size) ==
  [header |-> [major |-> 2, minor |-> minor, ext |-> 3, pl |-> 256, md |-> md],
   license |-> "ecb", cipher |-> "CBC4K", size |-> size]
MCOldFiles == [n \in {"old", "cut"} |->
                 IF n = "old" THEN OldFile(0, 0, 1000) ELSE OldFile(1, 20, 720)]

\* Around the ends of the parts of the header, and inside its numbers.
MCCuts == {5, 9, 16, 400, 420, 432, 434, 446, 600}

Symmetry == Permutations(Threads)
=============================================================================
