------------------------ MODULE ResponseCacheProofs ------------------------
(***************************************************************************)
(* RestClientCache enters LaunchCleanup only after Frequency stores have   *)
(* returned, for any number of threads, any Frequency and any restarts.    *)
(*                                                                         *)
(* HangAfterFrequency is not inductive.  What carries it is that the stores*)
(* still to come before the cleanup and those that have returned make up   *)
(* Frequency, whether the counter is in the settings (Balanced), being     *)
(* saved (SavingBalanced) or lost, and that a cleanup is only under way    *)
(* with a fresh counter (LaunchedFresh).                                   *)
(***************************************************************************)
EXTENDS ResponseCache, TLAPS

Balanced == counter + completed >= Frequency

SavingBalanced == \A t \in Threads : at[t] = "save" => pending + completed + 1 >= Frequency

LaunchedFresh ==
  \A t \in Threads :
    /\ at[t] = "reset" => pending = Frequency /\ completed = Frequency
    /\ at[t] = "cleanup" => counter = Frequency /\ completed = Frequency

CacheInv == CacheTypeOK /\ Balanced /\ SavingBalanced /\ LaunchedFresh

USE ResponseCacheConstants

LEMMA CacheInitInv == CacheInit => CacheInv
  BY DEF CacheInit, CacheInv, CacheTypeOK, Balanced, SavingBalanced, LaunchedFresh, Places

\* The holder of the mutex is alone in Store.
LEMMA HolderAlone ==
  ASSUME CacheTypeOK, NEW t \in Threads, at[t] \notin {"out", "lock"}
  PROVE  /\ cacheMutex = t
         /\ \A u \in Threads : u # t => at[u] \in {"out", "lock"}
  BY DEF CacheTypeOK

LEMMA StoreBeginInv ==
  ASSUME CacheInv, NEW t \in Threads, StoreBegin(t)
  PROVE  CacheInv'
  BY DEF CacheInv, StoreBegin, CacheTypeOK, Balanced, SavingBalanced, LaunchedFresh, Places

LEMMA LockInv ==
  ASSUME CacheInv, NEW t \in Threads, Lock(t)
  PROVE  CacheInv'
<1>1. at[t] = "lock"
  BY DEF CacheInv, Lock, CacheTypeOK, Unlocked
<1>2. CacheTypeOK'
  BY <1>1 DEF CacheInv, Lock, CacheTypeOK, Unlocked, Places
<1>3. Balanced' /\ SavingBalanced' /\ LaunchedFresh'
  BY <1>1 DEF CacheInv, Lock, CacheTypeOK, Balanced, SavingBalanced, LaunchedFresh, Places
<1> QED BY <1>2, <1>3 DEF CacheInv

LEMMA WriteFileInv ==
  ASSUME CacheInv, NEW t \in Threads, WriteFile(t)
  PROVE  CacheInv'
<1>1. CacheTypeOK'
  BY HolderAlone DEF CacheInv, WriteFile, StoreFails, Unlock, CacheTypeOK, Places
<1>2. Balanced' /\ SavingBalanced' /\ LaunchedFresh'
  BY DEF CacheInv, WriteFile, StoreFails, Unlock, CacheTypeOK, Balanced, SavingBalanced,
         LaunchedFresh, Places
<1> QED BY <1>1, <1>2 DEF CacheInv

LEMMA ReadCounterInv ==
  ASSUME CacheInv, NEW t \in Threads, ReadCounter(t)
  PROVE  CacheInv'
<1>1. \A u \in Threads : u # t => at[u] \in {"out", "lock"}
  BY HolderAlone DEF CacheInv, ReadCounter
<1>2. CacheTypeOK'
  BY DEF CacheInv, ReadCounter, CleanupNeeded, CacheTypeOK, Places
<1>3. Balanced'
  BY DEF CacheInv, ReadCounter, CacheTypeOK, Balanced
<1>4. SavingBalanced' /\ LaunchedFresh'
  BY <1>1 DEF CacheInv, ReadCounter, CleanupNeeded, CacheTypeOK, Balanced, SavingBalanced,
              LaunchedFresh, Places
<1> QED BY <1>2, <1>3, <1>4 DEF CacheInv

LEMMA SaveCounterInv ==
  ASSUME CacheInv, NEW t \in Threads, SaveCounter(t)
  PROVE  CacheInv'
<1>1. /\ cacheMutex = t
      /\ \A u \in Threads : u # t => at[u] \in {"out", "lock"}
  BY HolderAlone DEF CacheInv, SaveCounter
<1>2. CASE at[t] = "save"
  <2>1. CacheTypeOK'
    BY <1>1, <1>2 DEF CacheInv, SaveCounter, Unlock, CacheTypeOK, Places
  <2>2. Balanced'
    BY <1>2 DEF CacheInv, SaveCounter, CacheTypeOK, SavingBalanced, Balanced
  <2>3. SavingBalanced' /\ LaunchedFresh'
    BY <1>1, <1>2 DEF CacheInv, SaveCounter, Unlock, CacheTypeOK, SavingBalanced, LaunchedFresh
  <2> QED BY <2>1, <2>2, <2>3 DEF CacheInv
<1>3. CASE at[t] = "reset"
  <2>1. CacheTypeOK'
    BY <1>1, <1>3 DEF CacheInv, SaveCounter, CacheTypeOK, Places
  <2>2. Balanced'
    BY <1>3 DEF CacheInv, SaveCounter, CacheTypeOK, LaunchedFresh, Balanced
  <2>3. SavingBalanced' /\ LaunchedFresh'
    BY <1>1, <1>3 DEF CacheInv, SaveCounter, CacheTypeOK, SavingBalanced, LaunchedFresh
  <2> QED BY <2>1, <2>2, <2>3 DEF CacheInv
<1> QED BY <1>2, <1>3 DEF SaveCounter

LEMMA CacheRestartInv ==
  ASSUME CacheInv, CacheRestart
  PROVE  CacheInv'
<1>1. CacheTypeOK'
  BY DEF CacheInv, CacheRestart, CacheTypeOK, Places
<1>2. Balanced'
  BY DEF CacheInv, CacheRestart, Launched, CacheTypeOK, LaunchedFresh, Balanced
<1>3. SavingBalanced' /\ LaunchedFresh'
  BY DEF CacheRestart, SavingBalanced, LaunchedFresh
<1> QED BY <1>1, <1>2, <1>3 DEF CacheInv

LEMMA CacheNextInv == CacheInv /\ [CacheNext]_cacheVars => CacheInv'
<1> SUFFICES ASSUME CacheInv, [CacheNext]_cacheVars PROVE CacheInv'
  OBVIOUS
<1>1. ASSUME NEW t \in Threads, StoreBegin(t) PROVE CacheInv'
  BY <1>1, StoreBeginInv
<1>2. ASSUME NEW t \in Threads, StoreStep(t) PROVE CacheInv'
  BY <1>2, LockInv, WriteFileInv, ReadCounterInv, SaveCounterInv DEF StoreStep
<1>3. CASE CacheRestart
  BY <1>3, CacheRestartInv
<1>4. CASE UNCHANGED cacheVars
  BY <1>4 DEF cacheVars, CacheInv, CacheTypeOK, Balanced, SavingBalanced, LaunchedFresh
<1> QED BY <1>1, <1>2, <1>3, <1>4 DEF CacheNext

\* The invariant holds of every behaviour of RestClientCache.
THEOREM CacheInvariant == CacheSpec => []CacheInv
  BY CacheInitInv, CacheNextInv, PTL DEF CacheSpec

\* cacheMutex is held exactly by the thread between the lock_guard and the end of
\* Store, and the counter stays between 0 and Frequency.
THEOREM CacheTypeCorrect == CacheSpec => []CacheTypeOK
<1>1. CacheInv => CacheTypeOK
  BY DEF CacheInv
<1> QED BY <1>1, CacheInvariant, PTL

\* LaunchCleanup, from which Store does not return, is entered only after Frequency
\* stores have returned.
THEOREM CleanupAfterFrequency == CacheSpec => []HangAfterFrequency
<1>1. CacheInv => HangAfterFrequency
  BY DEF CacheInv, LaunchedFresh, HangAfterFrequency, Launched
<1> QED BY <1>1, CacheInvariant, PTL
=============================================================================
