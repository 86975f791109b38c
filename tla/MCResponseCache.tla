--------------------------- MODULE MCResponseCache ---------------------------
(***************************************************************************)
(* Two threads and a cleanup every other store.                            *)
(***************************************************************************)
EXTENDS ResponseCache

CONSTANTS t1, t2
=============================================================================
