----------------------------- MODULE StreamLock -----------------------------
(***************************************************************************)
(* The lock discipline of BlockBasedProtectedStream: several threads (or   *)
(* std::async tasks) use one stream, whose members m_locker protects.  The *)
(* data of the stream is left to ProtectedStream; here a critical section  *)
(* is one state in which the thread is `inside'.                           *)
(*                                                                         *)
(* std::mutex::unlock by a thread that does not own the mutex is undefined *)
(* behaviour; the pthread mutex of the build simply becomes free.          *)
(***************************************************************************)
CONSTANTS Threads,   \* threads and asynchronous tasks that use the stream
          Used       \* the calls the threads make

\* "Get" stands for Position(), Size(), CanRead() and CanWrite().
Kinds == {"Read", "Write", "Flush", "Seek", "Size", "Get"}

ASSUME LockConstants == Used \subseteq Kinds

VARIABLES readable,      \* m_pSimple->CanRead(), which never changes
          writable,      \* m_pSimple->CanWrite(), which never changes
          locked,        \* is m_locker locked
          positionValid, \* m_bIsPositionValid
          kind,          \* kind[t]: the call thread t is in
          pc,            \* pc[t]: where it is
          foreignUnlock  \* history variable: m_locker was unlocked for another thread

mode == <<readable, writable>>
vars == <<mode, locked, positionValid, kind, pc, foreignUnlock>>

Init == /\ readable \in BOOLEAN /\ writable \in BOOLEAN
        /\ locked = FALSE
        /\ positionValid = TRUE
        /\ kind = [t \in Threads |-> "Get"]
        /\ pc = [t \in Threads |-> "idle"]
        /\ foreignUnlock = FALSE

\* Read, Write and Size(v) first ask CanRead or CanWrite, which lock briefly.  A
\* write of a null buffer throws before that, whatever the stream allows.
FirstPlace(k) == CASE k = "Write"            -> {"check", "refused"}
                   [] k \in {"Read", "Size"} -> {"check"}
                   [] OTHER                  -> {"wait"}

Call(t, k) ==
  /\ pc[t] = "idle"
  /\ kind' = [kind EXCEPT ![t] = k]
  /\ \E place \in FirstPlace(k) : pc' = [pc EXCEPT ![t] = place]
  /\ UNCHANGED <<mode, locked, positionValid, foreignUnlock>>

\* The three places where a call waits for the lock, and the section it enters;
\* a body that never ends is "stuck".
Waiting == {"check", "prepare", "wait"}
Inside  == {"checking", "preparing", "body", "stuck"}

\* Mutation of Lock: the lock is not waited for.
LockUnguarded(t) ==
  /\ pc[t] \in Waiting
  /\ locked' = TRUE
  /\ pc' = [pc EXCEPT ![t] = CASE pc[t] = "check"   -> "checking"
                               [] pc[t] = "prepare" -> "preparing"
                               [] pc[t] = "wait"    -> "body"]
  /\ UNCHANGED <<mode, positionValid, kind, foreignUnlock>>

Lock(t) ==
  /\ pc[t] \in Waiting
  /\ ~locked
  /\ locked' = TRUE
  /\ pc' = [pc EXCEPT ![t] = CASE pc[t] = "check"   -> "checking"
                               [] pc[t] = "prepare" -> "preparing"
                               [] pc[t] = "wait"    -> "body"]
  /\ UNCHANGED <<mode, positionValid, kind, foreignUnlock>>

\* CanRead or CanWrite has returned.  A refused Read or Size(v) throws and is
\* over.  A refused Write, or one whose task async cannot start, throws into the
\* catch block of WriteAsync.
CheckedTo(k) ==
  CASE k = "Read"  -> {IF readable THEN "prepare" ELSE "idle"}
    [] k = "Write" -> IF writable THEN {"wait", "refused"} ELSE {"refused"}
    [] OTHER       -> {IF writable THEN "wait" ELSE "idle"}

Checked(t) ==
  /\ pc[t] = "checking"
  /\ locked' = FALSE
  /\ \E place \in CheckedTo(kind[t]) : pc' = [pc EXCEPT ![t] = place]
  /\ UNCHANGED <<mode, positionValid, kind, foreignUnlock>>

\* WriteAsync: catch (exception& e) { m_locker->unlock(); throw e; }
RefusedWrite(t) ==
  /\ pc[t] = "refused"
  /\ locked' = FALSE
  /\ foreignUnlock' = (foreignUnlock \/ locked)
  /\ pc' = [pc EXCEPT ![t] = "idle"]
  /\ UNCHANGED <<mode, positionValid, kind>>

\* Mutation of Prepared: the throw forgets the unlock.
PreparedLeaks(t) ==
  /\ pc[t] = "preparing"
  /\ locked' = ~positionValid
  /\ pc' = [pc EXCEPT ![t] = IF positionValid THEN "wait" ELSE "idle"]
  /\ UNCHANGED <<mode, positionValid, kind, foreignUnlock>>

\* ReadAsync has looked at m_bIsPositionValid.  It throws, or starts its task,
\* or throws because async cannot start one.
Prepared(t) ==
  /\ pc[t] = "preparing"
  /\ locked' = FALSE
  /\ \E place \in {"idle"} \cup {p \in {"wait"} : positionValid} : pc' = [pc EXCEPT ![t] = place]
  /\ UNCHANGED <<mode, positionValid, kind, foreignUnlock>>

\* Mutation of PositionAfter: a seek may fail on a writable stream, too.
PositionAfterAny(k) ==
  CASE k \in {"Read", "Seek"}  -> BOOLEAN
    [] k \in {"Write", "Size"} -> {TRUE}
    [] OTHER                   -> {positionValid}

\* What a critical section may leave in m_bIsPositionValid: a seek beyond the
\* end of a stream that cannot grow invalidates it, any other seek validates it.
PositionAfter(k) ==
  CASE k \in {"Read", "Seek"}  -> IF writable THEN {TRUE} ELSE BOOLEAN
    [] k \in {"Write", "Size"} -> {TRUE}
    [] OTHER                   -> {positionValid}

\* The task of WriteInternalAsync throws before its try block, lock held.
BodyThrowsLocked(t) == kind[t] = "Write" /\ ~positionValid

\* The critical section ends, normally or by an RMSCryptoException.
Body(t) ==
  /\ pc[t] = "body"
  /\ IF BodyThrowsLocked(t)
       THEN UNCHANGED <<locked, positionValid>>
       ELSE locked' = FALSE /\ positionValid' \in PositionAfter(kind[t])
  /\ pc' = [pc EXCEPT ![t] = "idle"]
  /\ UNCHANGED <<mode, kind, foreignUnlock>>

\* The body of Size(v) may wait for ever for a mutex of m_pSimple that it holds
\* itself (see ProtectedStream); so does, from then on, whoever gets as far.
Hang(t) ==
  /\ \/ pc[t] = "body" /\ kind[t] = "Size"
     \/ pc[t] \in {"body", "checking"} /\ \E u \in Threads : pc[u] = "stuck"
  /\ pc' = [pc EXCEPT ![t] = "stuck"]
  /\ UNCHANGED <<mode, locked, positionValid, kind, foreignUnlock>>

Proceed(t) == Checked(t) \/ RefusedWrite(t) \/ Prepared(t) \/ Body(t)

Next == \E t \in Threads :
          \/ \E k \in Used : Call(t, k)
          \/ Lock(t)
          \/ Proceed(t)
          \/ Hang(t)

Spec == Init /\ [][Next]_vars

\* A thread that is neither waiting for the lock nor stuck runs on.  Nothing is
\* assumed about who gets the lock, or that anyone calls.
FairSpec == Spec /\ \A t \in Threads : WF_vars(Proceed(t))

-----------------------------------------------------------------------------
(* Properties *)

TypeOK == /\ readable \in BOOLEAN /\ writable \in BOOLEAN
          /\ locked \in BOOLEAN /\ positionValid \in BOOLEAN
          /\ kind \in [Threads -> Kinds]
          /\ pc \in [Threads -> {"idle", "refused"} \cup Waiting \cup Inside]
          /\ foreignUnlock \in BOOLEAN

\* No two threads are in critical sections of the same stream at once.
MutualExclusion == \A t, u \in Threads : pc[t] \in Inside /\ pc[u] \in Inside => t = u

\* The catch block of WriteAsync is the only thing that breaks mutual exclusion,
\* and only when it unlocks m_locker while another thread holds it: refused
\* writes as such, exceptions and hanging calls do not.
ExclusiveUntilForeignUnlock == ~foreignUnlock => MutualExclusion

\* So long, the lock is held exactly while some thread is inside a critical
\* section: no path out of one, exceptions included, leaks it or gives it up
\* too early.
LockHeldUntilForeignUnlock ==
  ~foreignUnlock => (locked <=> \E t \in Threads : pc[t] \in Inside)

\* The task of WriteInternalAsync, which tests m_bIsPositionValid after it has
\* taken the lock and outside its try block, never finds it false: other threads
\* may seek between the CanWrite test and the task, but cannot invalidate it.
WriteNeverThrowsLocked == \A t \in Threads : pc[t] = "body" => ~BodyThrowsLocked(t)


\* Where a call is once CanRead or CanWrite has let it pass.
PastCheck == {"prepare", "preparing", "wait", "body"}

\* What makes these inductive: only writable streams have writers past the
\* check, and a writable stream's position is always valid.
WritersMayWrite ==
  /\ \A t \in Threads : kind[t] = "Write" /\ pc[t] \in PastCheck => writable
  /\ writable => positionValid

\* The inductive invariant.
LockInv == /\ TypeOK /\ WritersMayWrite
           /\ ExclusiveUntilForeignUnlock /\ LockHeldUntilForeignUnlock
=============================================================================
