---------------------------- MODULE MCAcquisition ----------------------------
(***************************************************************************)
(* Two threads and three calls out of six: acquisitions of a license of  *)
(* tenant A by ann (twice), bob and an empty user id, with the various     *)
(* flags, and publishing by ann, who is of tenant B.                       *)
(***************************************************************************)
EXTENDS Acquisition

CONSTANTS t1, t2

MCUsers == {Anyone, "ann", "bob"}
MCTenants == {"A", "B"}
MCLicenses == {"lA", "lB"}
MCTenantOf == [l \in MCLicenses |-> IF l = "lA" THEN "A" ELSE "B"]
MCHome == [u \in {"ann", "bob"} |-> IF u = "ann" THEN "B" ELSE "A"]

Request(id, kind, user, license, consents, inMemory, onDisk, offline) ==
  [id |-> id, kind |-> kind, user |-> user, license |-> license, consents |-> consents,
   inMemory |-> inMemory, onDisk |-> onDisk, offline |-> offline]

MCRequests ==
  { Request(1, "acquire", "ann", "lA", TRUE, FALSE, TRUE, FALSE),
    Request(2, "acquire", "ann", "lA", TRUE, TRUE, FALSE, FALSE),
    Request(3, "acquire", "bob", "lA", TRUE, TRUE, TRUE, FALSE),
    Request(4, "custom", "ann", "lB", FALSE, TRUE, FALSE, FALSE),
    Request(5, "template", "ann", "lB", FALSE, FALSE, FALSE, FALSE),
    Request(6, "acquire", Anyone, "lA", FALSE, FALSE, FALSE, TRUE) }
=============================================================================
