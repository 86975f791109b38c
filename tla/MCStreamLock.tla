---------------------------- MODULE MCStreamLock ----------------------------
(* Three threads on one stream. *)
EXTENDS StreamLock
CONSTANTS t1, t2, t3
MCThreads == {t1, t2, t3}
=============================================================================
