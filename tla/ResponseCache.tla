---------------------------- MODULE ResponseCache ----------------------------
(***************************************************************************)
(* RestClientCache, the responses kept on disk: Store and the cleanup it   *)
(* launches every so many stores.  Store holds cacheMutex to its end; the  *)
(* counter of stores is a setting, so every read loads a file and every    *)
(* write truncates it and writes it anew; an empty file gives the default. *)
(*                                                                         *)
(* Lookup takes the mutex for as long as it lasts and changes nothing: it  *)
(* is the condition Unlocked in the calls that make one.  It finds nothing *)
(* ever, since entryList compares the extension of a file name with the    *)
(* whole pattern, and it throws where the folder does not exist.           *)
(***************************************************************************)
EXTENDS Integers

CONSTANTS Threads,
          Frequency      \* defaultCleanupFrequency, 100

Nobody == "Nobody"

ASSUME ResponseCacheConstants == Frequency \in Nat /\ Nobody \notin Threads

VARIABLES cacheMutex,    \* the thread that holds it, or Nobody
          counter,       \* the setting UR_CleanupCounter
          pending,       \* the value the holder of the mutex is saving
          cacheFolder,   \* whether the folder exists
          at,            \* thread -> where in Store it is
          completed      \* history: stores that returned since a cleanup was
                         \* last launched, at most Frequency

cacheVars == <<cacheMutex, counter, pending, cacheFolder, at, completed>>

-----------------------------------------------------------------------------
CacheInit ==
  /\ cacheMutex = Nobody
  /\ counter = Frequency
  /\ pending = 0
  /\ cacheFolder \in BOOLEAN
  /\ at = [t \in Threads |-> "out"]
  /\ completed = 0

Unlocked == cacheMutex = Nobody

StoreBegin(t) ==
  /\ at[t] = "out"
  /\ at' = [at EXCEPT ![t] = "lock"]
  /\ UNCHANGED <<cacheMutex, counter, pending, cacheFolder, completed>>

\* The lock_guard of Store, and that of the task LaunchCleanup starts and waits for.
Lock(t) ==
  /\ at[t] \in {"lock", "cleanup"} /\ Unlocked
  /\ cacheMutex' = t
  /\ at' = [at EXCEPT ![t] = IF at[t] = "lock" THEN "write" ELSE "delete"]
  /\ UNCHANGED <<counter, pending, cacheFolder, completed>>

Unlock(t) ==
  /\ cacheMutex' = Nobody
  /\ at' = [at EXCEPT ![t] = "out"]

\* Mutation of StoreFails: the mutex stays locked.
StoreFailsLocked(t) ==
  /\ cacheMutex' = cacheMutex
  /\ at' = [at EXCEPT ![t] = "out"]

\* An RMSCryptoException leaves Store without a cleanup.
StoreFails(t) == Unlock(t)

\* The folder is created and the response written to its file.
WriteFile(t) ==
  /\ at[t] = "write"
  /\ cacheFolder' = TRUE
  /\ \/ StoreFails(t)
     \/ at' = [at EXCEPT ![t] = "count"] /\ UNCHANGED cacheMutex
  /\ UNCHANGED <<counter, pending, completed>>

\* Mutation of CleanupNeeded: one store early.
CleanupNeededEarly(n) == n <= 1

CleanupNeeded(n) == n <= 0

\* CleanupIfNeeded reads the counter and begins to save it: the file is empty.
ReadCounter(t) ==
  /\ at[t] = "count"
  /\ pending' = IF CleanupNeeded(counter) THEN Frequency ELSE counter - 1
  /\ at' = [at EXCEPT ![t] = IF CleanupNeeded(counter) THEN "reset" ELSE "save"]
  /\ counter' = Frequency
  /\ UNCHANGED <<cacheMutex, cacheFolder, completed>>

\* The counter is saved; then Store returns, or the cleanup is launched and
\* waited for under the mutex.
SaveCounter(t) ==
  /\ at[t] \in {"save", "reset"}
  /\ counter' = pending
  /\ pending' = 0
  /\ IF at[t] = "save"
       THEN /\ Unlock(t)
            /\ completed' = IF completed < Frequency THEN completed + 1 ELSE completed
       ELSE /\ at' = [at EXCEPT ![t] = "cleanup"]
            /\ UNCHANGED <<cacheMutex, completed>>
  /\ UNCHANGED cacheFolder

StoreStep(t) == Lock(t) \/ WriteFile(t) \/ ReadCounter(t) \/ SaveCounter(t)

Launched == \E t \in Threads : at[t] = "cleanup"

\* The program stops and starts again; the settings and the folder remain.
CacheRestart ==
  /\ cacheMutex' = Nobody
  /\ at' = [t \in Threads |-> "out"]
  /\ pending' = 0
  /\ completed' = IF Launched THEN 0 ELSE completed
  /\ UNCHANGED <<counter, cacheFolder>>

CacheNext ==
  \/ \E t \in Threads : StoreBegin(t) \/ StoreStep(t)
  \/ CacheRestart

CacheSpec == CacheInit /\ [][CacheNext]_cacheVars

\* Threads keep running; nobody has to call Store.
FairCacheSpec == CacheSpec /\ \A t \in Threads : WF_cacheVars(StoreStep(t))

-----------------------------------------------------------------------------
Places == {"out", "lock", "write", "count", "save", "reset", "cleanup", "delete"}

\* The types of the state of RestClientCache; the mutex is held from its lock_guard
\* to the end of Store and by nobody else.
CacheTypeOK ==
  /\ cacheMutex \in Threads \cup {Nobody}
  /\ counter \in 0..Frequency /\ pending \in 0..Frequency /\ completed \in 0..Frequency
  /\ cacheFolder \in BOOLEAN
  /\ at \in [Threads -> Places]
  /\ \A t \in Threads : at[t] \notin {"out", "lock"} <=> cacheMutex = t

\* LaunchCleanup, which never comes back, is entered only after Frequency stores have
\* returned since the last time: also when the program dies while it saves the counter
\* and the setting falls back to its default, and whichever threads the stores are in.
HangAfterFrequency == Launched => completed = Frequency

\* "It will affect the performance a little but nothing more": every Store returns.
StoreReturns == \A t \in Threads : at[t] # "out" ~> at[t] = "out"
=============================================================================
