-------------------------- MODULE StreamLockProofs --------------------------
(***************************************************************************)
(* For any number of threads: as long as no refused write has unlocked     *)
(* m_locker for another thread, it gives mutual exclusion and is never     *)
(* leaked; and no write ever throws with the lock held.                    *)
(***************************************************************************)
EXTENDS StreamLock, TLAPS

USE DEF Waiting, Inside, PastCheck, mode

\* Initially the lock is free and no thread is in a call.
LEMMA LockInvInit == Init => LockInv
BY LockConstants DEF Init, LockInv, TypeOK, MutualExclusion, ExclusiveUntilForeignUnlock,
                     LockHeldUntilForeignUnlock, WritersMayWrite, Kinds

\* Starting a call touches neither the lock nor a critical section.
LEMMA CallKeepsInv ==
  ASSUME LockInv, NEW t \in Threads, NEW k \in Used, Call(t, k)
  PROVE  LockInv'
<1>1. k \in Kinds
  BY LockConstants
<1>2. pc[t] = "idle" /\ pc'[t] \in {"check", "wait", "refused"} /\ kind'[t] = k
      /\ (k = "Write" => pc'[t] # "wait")
  BY <1>1 DEF Call, FirstPlace, LockInv, TypeOK, Kinds
<1>3. \A u \in Threads : u # t => pc'[u] = pc[u] /\ kind'[u] = kind[u]
  BY DEF Call, LockInv, TypeOK
<1>4. TypeOK'
  BY <1>1, <1>2, <1>3 DEF Call, LockInv, TypeOK
<1>5. \A u \in Threads : pc'[u] \in Inside <=> pc[u] \in Inside
  BY <1>2, <1>3
<1>6. ExclusiveUntilForeignUnlock' /\ LockHeldUntilForeignUnlock'
  BY <1>5 DEF Call, LockInv, MutualExclusion, ExclusiveUntilForeignUnlock, LockHeldUntilForeignUnlock
<1>7. WritersMayWrite'
  BY <1>2, <1>3 DEF Call, LockInv, WritersMayWrite
<1>. QED  BY <1>4, <1>6, <1>7 DEF LockInv

\* While nobody has unlocked for another thread, a thread that takes the free lock is the only
\* one inside.
LEMMA LockKeepsInv ==
  ASSUME LockInv, NEW t \in Threads, Lock(t)
  PROVE  LockInv'
<1>1. pc[t] \in Waiting /\ pc'[t] \in Inside /\ ~locked /\ locked' = TRUE
      /\ (pc'[t] \in PastCheck => pc[t] \in PastCheck)
  BY DEF Lock, LockInv, TypeOK
<1>2. \A u \in Threads : u # t => pc'[u] = pc[u]
  BY DEF Lock, LockInv, TypeOK
<1>3. ~foreignUnlock => \A u \in Threads : pc[u] \notin Inside
  BY <1>1 DEF LockInv, LockHeldUntilForeignUnlock
<1>4. TypeOK'
  BY DEF Lock, LockInv, TypeOK
<1>5. foreignUnlock' = foreignUnlock
  BY DEF Lock
<1>6. ExclusiveUntilForeignUnlock' /\ LockHeldUntilForeignUnlock'
  BY <1>1, <1>2, <1>3, <1>5 DEF MutualExclusion, ExclusiveUntilForeignUnlock, LockHeldUntilForeignUnlock
<1>7. WritersMayWrite'
  BY <1>1, <1>2 DEF Lock, LockInv, WritersMayWrite
<1>. QED  BY <1>4, <1>6, <1>7 DEF LockInv

\* Leaving a critical section with the lock released leaves nobody inside.
LEMMA LeaveKeepsExclusion ==
  ASSUME LockInv, NEW t \in Threads, pc[t] \in Inside,
         locked' = FALSE, foreignUnlock' = foreignUnlock, pc'[t] \notin Inside,
         \A u \in Threads : u # t => pc'[u] = pc[u]
  PROVE  ExclusiveUntilForeignUnlock' /\ LockHeldUntilForeignUnlock'
<1>1. ~foreignUnlock' => \A u \in Threads : pc'[u] \notin Inside
  BY DEF LockInv, MutualExclusion, ExclusiveUntilForeignUnlock
<1>. QED  BY <1>1 DEF MutualExclusion, ExclusiveUntilForeignUnlock, LockHeldUntilForeignUnlock

\* CanRead or CanWrite returns: the section is left.
LEMMA CheckedKeepsInv ==
  ASSUME LockInv, NEW t \in Threads, Checked(t)
  PROVE  LockInv'
<1>1. pc[t] = "checking" /\ locked' = FALSE /\ pc'[t] \in {"prepare", "wait", "idle", "refused"}
  BY DEF Checked, CheckedTo, LockInv, TypeOK
<1>2. \A u \in Threads : u # t => pc'[u] = pc[u]
  BY DEF Checked, LockInv, TypeOK
<1>3. /\ kind[t] = "Write" /\ pc'[t] \in PastCheck => writable
      /\ UNCHANGED <<writable, kind, positionValid, foreignUnlock>>
  BY DEF Checked, CheckedTo, LockInv, TypeOK
<1>4. TypeOK'
  BY <1>1, <1>2 DEF Checked, LockInv, TypeOK
<1>5. ExclusiveUntilForeignUnlock' /\ LockHeldUntilForeignUnlock'
  BY <1>1, <1>2, <1>3, LeaveKeepsExclusion
<1>6. WritersMayWrite'
  BY <1>1, <1>2, <1>3 DEF LockInv, WritersMayWrite
<1>. QED  BY <1>4, <1>5, <1>6 DEF LockInv

\* The unlock in WriteAsync's catch block does nothing to a free lock, and is
\* noted when it frees one that is held.
LEMMA RefusedWriteKeepsInv ==
  ASSUME LockInv, NEW t \in Threads, RefusedWrite(t)
  PROVE  LockInv'
<1>1. /\ pc[t] = "refused" /\ pc'[t] = "idle"
      /\ locked' = FALSE /\ foreignUnlock' = (foreignUnlock \/ locked)
  BY DEF RefusedWrite, LockInv, TypeOK
<1>2. \A u \in Threads : u # t => pc'[u] = pc[u]
  BY DEF RefusedWrite, LockInv, TypeOK
<1>3. TypeOK'
  BY <1>1 DEF RefusedWrite, LockInv, TypeOK
<1>4. WritersMayWrite'
  BY <1>1, <1>2 DEF RefusedWrite, LockInv, WritersMayWrite
<1>5. ~foreignUnlock' => ~foreignUnlock /\ ~locked
  BY <1>1
<1>6. ~foreignUnlock' => \A u \in Threads : pc[u] \notin Inside
  BY <1>5 DEF LockInv, LockHeldUntilForeignUnlock
<1>7. ~foreignUnlock' => \A u \in Threads : pc'[u] \notin Inside
  BY <1>1, <1>2, <1>6
<1>. QED
  BY <1>1, <1>3, <1>4, <1>7
     DEF LockInv, ExclusiveUntilForeignUnlock, LockHeldUntilForeignUnlock, MutualExclusion

\* ReadAsync starts its task, or throws because the position is invalid.
LEMMA PreparedKeepsInv ==
  ASSUME LockInv, NEW t \in Threads, Prepared(t)
  PROVE  LockInv'
<1>1. pc[t] = "preparing" /\ locked' = FALSE /\ pc'[t] \in {"wait", "idle"}
  BY DEF Prepared, LockInv, TypeOK
<1>2. \A u \in Threads : u # t => pc'[u] = pc[u]
  BY DEF Prepared, LockInv, TypeOK
<1>3. UNCHANGED <<writable, kind, positionValid, foreignUnlock>>
  BY DEF Prepared
<1>4. TypeOK'
  BY <1>1, <1>2 DEF Prepared, LockInv, TypeOK
<1>5. ExclusiveUntilForeignUnlock' /\ LockHeldUntilForeignUnlock'
  BY <1>1, <1>2, <1>3, LeaveKeepsExclusion
<1>6. WritersMayWrite'
  BY <1>1, <1>2, <1>3 DEF LockInv, WritersMayWrite
<1>. QED  BY <1>4, <1>5, <1>6 DEF LockInv

\* A write never meets an invalid position.
LEMMA BodyReleases ==
  ASSUME LockInv, NEW t \in Threads, pc[t] = "body"
  PROVE  ~BodyThrowsLocked(t)
BY DEF BodyThrowsLocked, LockInv, WritersMayWrite

\* A body therefore ends with the lock released.
LEMMA BodyKeepsInv ==
  ASSUME LockInv, NEW t \in Threads, Body(t)
  PROVE  LockInv'
<1>1. pc[t] = "body" /\ pc'[t] = "idle" /\ UNCHANGED <<writable, kind, foreignUnlock>>
  BY DEF Body, LockInv, TypeOK
<1>2. \A u \in Threads : u # t => pc'[u] = pc[u]
  BY DEF Body, LockInv, TypeOK
<1>3. locked' = FALSE /\ positionValid' \in PositionAfter(kind[t])
  BY <1>1, BodyReleases DEF Body
<1>4. positionValid' \in BOOLEAN /\ (writable => positionValid')
  BY <1>3 DEF PositionAfter, LockInv, TypeOK, WritersMayWrite, Kinds
<1>5. TypeOK'
  BY <1>1, <1>3, <1>4 DEF Body, LockInv, TypeOK
<1>6. ExclusiveUntilForeignUnlock' /\ LockHeldUntilForeignUnlock'
  BY <1>1, <1>2, <1>3, LeaveKeepsExclusion
<1>7. WritersMayWrite'
  BY <1>1, <1>2, <1>4 DEF LockInv, WritersMayWrite
<1>. QED  BY <1>5, <1>6, <1>7 DEF LockInv

\* A body that hangs stays inside and keeps the lock.
LEMMA HangKeepsInv ==
  ASSUME LockInv, NEW t \in Threads, Hang(t)
  PROVE  LockInv'
<1>1. pc[t] \in Inside /\ pc'[t] = "stuck"
  BY DEF Hang, LockInv, TypeOK
<1>2. \A u \in Threads : u # t => pc'[u] = pc[u]
  BY DEF Hang, LockInv, TypeOK
<1>3. TypeOK'
  BY <1>1 DEF Hang, LockInv, TypeOK
<1>4. WritersMayWrite'
  BY <1>1, <1>2 DEF Hang, LockInv, WritersMayWrite
<1>5. \A u \in Threads : pc'[u] \in Inside <=> pc[u] \in Inside
  BY <1>1, <1>2
<1>6. ExclusiveUntilForeignUnlock' /\ LockHeldUntilForeignUnlock'
  BY <1>5 DEF Hang, LockInv, MutualExclusion, ExclusiveUntilForeignUnlock,
              LockHeldUntilForeignUnlock
<1>. QED  BY <1>3, <1>4, <1>6 DEF LockInv

\* LockInv is inductive.
LEMMA LockInvStep ==
  ASSUME LockInv, [Next]_vars
  PROVE  LockInv'
<1>1. CASE UNCHANGED vars
  BY <1>1 DEF vars, LockInv, TypeOK, MutualExclusion, ExclusiveUntilForeignUnlock,
              LockHeldUntilForeignUnlock, WritersMayWrite
<1>2. ASSUME NEW t \in Threads, NEW k \in Used, Call(t, k)
      PROVE  LockInv'
  BY <1>2, CallKeepsInv
<1>3. ASSUME NEW t \in Threads, Lock(t)
      PROVE  LockInv'
  BY <1>3, LockKeepsInv
<1>4. ASSUME NEW t \in Threads, Proceed(t)
      PROVE  LockInv'
  BY <1>4, CheckedKeepsInv, RefusedWriteKeepsInv, PreparedKeepsInv, BodyKeepsInv DEF Proceed
<1>5. ASSUME NEW t \in Threads, Hang(t)
      PROVE  LockInv'
  BY <1>5, HangKeepsInv
<1>. QED  BY <1>1, <1>2, <1>3, <1>4, <1>5 DEF Next

\* For any set of threads and any calls they make on a BlockBasedProtectedStream,
\* LockInv holds for ever.
THEOREM LockInvHolds == Spec => []LockInv
<1>1. LockInv /\ [Next]_vars => LockInv'
  BY LockInvStep
<1>. QED  BY LockInvInit, <1>1, PTL DEF Spec

\* Until a refused write unlocks m_locker for another thread, no two threads are
\* inside the stream at once, whatever the stream allows and the calls throw.
THEOREM StreamMutualExclusion == Spec => []ExclusiveUntilForeignUnlock
<1>1. LockInv => ExclusiveUntilForeignUnlock
  BY DEF LockInv
<1>. QED  BY LockInvHolds, <1>1, PTL

\* So long, the lock is held exactly while a thread is inside: no other exception
\* path of a call leaks it or releases it for somebody else.
THEOREM StreamLockNotLeaked == Spec => []LockHeldUntilForeignUnlock
<1>1. LockInv => LockHeldUntilForeignUnlock
  BY DEF LockInv
<1>. QED  BY LockInvHolds, <1>1, PTL

\* The test of m_bIsPositionValid that WriteInternalAsync makes with the lock
\* held and outside its try block never fails, whatever has been unlocked.
THEOREM StreamWriteNeverThrowsLocked == Spec => []WriteNeverThrowsLocked
<1>1. LockInv => WriteNeverThrowsLocked
  BY BodyReleases DEF WriteNeverThrowsLocked
<1>. QED  BY LockInvHolds, <1>1, PTL
=============================================================================
