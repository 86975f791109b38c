---------------------------- MODULE AcquireToken ----------------------------
(***************************************************************************)
(* Token acquisition by several threads of one process.  Each thread has   *)
(* an AuthenticationContext with a FileCache object of its own; all of     *)
(* them use the same cache file.  FileCache::fileLock_ makes every read    *)
(* and every write of the file one step, but is free in between: while a   *)
(* handler talks to the server, others read and write the file.            *)
(*                                                                         *)
(* The server and the transport are external: a request is answered in any *)
(* way the parser accepts, or fails.                                       *)
(***************************************************************************)
EXTENDS TokenCache

CONSTANTS Handlers,       \* the threads
          Tenantless,     \* the authority whose tenant is "Common"
          Tenant,         \* the authority with the tenant id tokens name
          Requests,       \* what the threads ask for, a subset of AllRequests
          Replies,        \* what is in a token response, a subset of AllReplies
          Maintenance,    \* calls on the cache itself, a subset of MaintenanceCalls
          StartAuthorities, \* the authorities contexts are created with
          InitialFiles,   \* what earlier processes may have left in the cache file
          NoFile,         \* the cache file does not exist
          EmptyFile,      \* the cache file has no bytes
          NoRequest,      \* the thread is not acquiring a token
          Lifetime,       \* how long a new access token lives
          MaxTime,        \* bound on the clock
          MaxCalls        \* bound on the number of calls

\* Handler, user identifier, and whether the prompt behaviour allows the cache.
AllRequests == [handler  : {"Interactive", "NonInteractive", "ForClient"},
                resource : Resources,
                type     : {"Any", "UniqueId", "OptionalDisplayableId", "RequiredDisplayableId"},
                wanted   : Users \cup {NoUser},
                load     : BOOLEAN]

\* id_token and refresh_token may be missing; "multi": the response names a
\* resource, so that its refresh token is good for others.
AllReplies == [idToken : BOOLEAN, refreshToken : BOOLEAN, multi : BOOLEAN]

MaintenanceCalls == {"readItems", "deleteItem", "clear"}

\* What is stored under a key belongs to it: the access token is for its
\* resource, and both tokens are of its user.
Belongs(k, item) ==
  /\ item.user = k.user
  /\ item.access # Empty => item.access.resource = k.resource
  /\ k.user # NoUser => /\ item.access # Empty => item.access.user = k.user
                        /\ item.refresh # Empty => item.refresh = k.user

WellFormed(k, item) ==
  Belongs(k, item) /\ ~Dead(item) /\ (item.mrrt => item.refresh # Empty)

ASSUME AcquireConstants ==
  /\ Authorities = {Tenantless, Tenant}
  /\ StartAuthorities \subseteq Authorities
  /\ InitialFiles \subseteq Dictionaries
  /\ \A f \in InitialFiles, k \in Keys : f[k] # NoItem => WellFormed(k, f[k])
  /\ Requests \subseteq AllRequests
  /\ \A q \in Requests : q.handler = "NonInteractive" => q.wanted \in Users
  /\ Replies \subseteq AllReplies
  /\ Maintenance \subseteq MaintenanceCalls
  /\ Lifetime \in Nat /\ Lifetime > Margin
  /\ MaxTime \in Nat /\ MaxCalls \in Nat
  /\ Empty \notin AccessTokens /\ NoItem \notin Items /\ NoKey \notin Keys
  /\ NoFile \notin Dictionaries /\ EmptyFile \notin Dictionaries /\ NoFile # EmptyFile

VARIABLES now,        \* the clock
          calls,      \* number of calls so far
          file,       \* the items in the cache file, or NoFile or EmptyFile
          dict,       \* dict[h]: tokenCacheDictionary_ of h's cache
          changed,    \* changed[h]: hasStateChanged_
          authority,  \* authority[h]: authority_ of h's authenticator
          updated,    \* updated[h]: updatedFromTemplate_
          call        \* call[h]: the call h is in, see NoCall

context == <<authority, updated>>
vars    == <<now, calls, file, dict, changed, context, call>>

\* A call: where it is, the request, when it began, the key of the cached item
\* it works from, and its AuthenticationResult (NoItem for nullptr).
NoCall == [pc |-> "idle", req |-> NoRequest, started |-> 0, key |-> NoKey, result |-> NoItem]

Init ==
  /\ now = 0 /\ calls = 0
  /\ file \in InitialFiles \cup {NoFile}
  /\ dict = [h \in Handlers |-> NothingCached]
  /\ changed = [h \in Handlers |-> FALSE]
  /\ authority \in [Handlers -> StartAuthorities]
  /\ updated = [h \in Handlers |-> FALSE]
  /\ call = [h \in Handlers |-> NoCall]

At(h, l)   == call[h].pc = l
Goto(h, l) == call' = [call EXCEPT ![h].pc = l]
Return(h)  == call' = [call EXCEPT ![h] = NoCall]

Resource(h) == call[h].req.resource
Subject(h)  == IF call[h].req.handler = "ForClient" THEN "Client" ELSE "User"
uniqueId(h) == IF call[h].req.type = "UniqueId" THEN call[h].req.wanted ELSE NoUser

-----------------------------------------------------------------------------
(* Calls *)

Acquire(h, q) ==
  /\ At(h, "idle") /\ calls < MaxCalls
  /\ calls' = calls + 1
  /\ call' = [call EXCEPT ![h] = [NoCall EXCEPT !.pc = "preRun", !.req = q, !.started = now]]
  /\ UNCHANGED <<now, file, dict, changed, context>>

\* The client lists, deletes from or clears its cache.
Maintain(h, op) ==
  /\ At(h, "idle") /\ calls < MaxCalls
  /\ calls' = calls + 1
  /\ Goto(h, op)
  /\ UNCHANGED <<now, file, dict, changed, context>>

\* preRunAsync: the authority is validated the first time and after it changed.
preRunAsync(h) ==
  /\ At(h, "preRun")
  /\ \/ /\ updated' = [updated EXCEPT ![h] = TRUE]
        /\ Goto(h, IF call[h].req.load THEN "beforeLoad" ELSE "request")
     \/ ~updated[h] /\ Return(h) /\ UNCHANGED updated
  /\ UNCHANGED <<now, calls, file, dict, changed, authority>>

-----------------------------------------------------------------------------
(* FileCache *)

\* The dictionary of h after readCache.  A file without bytes clears it.
readCache(h) == CASE file = NoFile    -> dict[h]
                  [] file = EmptyFile -> NothingCached
                  [] OTHER            -> deserialize(dict[h], file)

\* onBeforeAccess of an acquisition, before it loads or before it stores.
onBeforeAccess(h) ==
  /\ \/ At(h, "beforeLoad") /\ Goto(h, "load")
     \/ At(h, "beforeStore") /\ Goto(h, "store")
     \/ At(h, "readItems") /\ Goto(h, "afterAccess")
  /\ dict' = [dict EXCEPT ![h] = readCache(h)]
  /\ UNCHANGED <<now, calls, file, changed, context>>

\* A client deletes an item that readItems gave it earlier.
deleteItem(h) ==
  /\ At(h, "deleteItem")
  /\ \E k \in Keys : dict' = [dict EXCEPT ![h] = [readCache(h) EXCEPT ![k] = NoItem]]
  /\ changed' = [changed EXCEPT ![h] = TRUE]
  /\ Goto(h, "afterAccess")
  /\ UNCHANGED <<now, calls, file, context>>

clear(h) ==
  /\ At(h, "clear")
  /\ dict' = [dict EXCEPT ![h] = NothingCached]
  /\ changed' = [changed EXCEPT ![h] = TRUE]
  /\ Goto(h, "afterClear")
  /\ UNCHANGED <<now, calls, file, context>>

\* Where onAfterAccess is due, also on the way out of an exception.
AfterAccess == {"done", "throw", "afterAccess", "afterClear"}

\* onAfterAccess writes the whole dictionary when something has changed.  A
\* file that cannot be opened is logged and forgotten.
onAfterAccess(h) ==
  /\ call[h].pc \in AfterAccess
  /\ file' \in IF changed[h] THEN {serialize(dict[h]), file} ELSE {file}
  /\ changed' = [changed EXCEPT ![h] = FALSE]
  /\ IF At(h, "afterClear") THEN Goto(h, "remove") ELSE Return(h)
  /\ UNCHANGED <<now, calls, dict, context>>

\* The last part of FileCache::clear.
removeFile(h) ==
  /\ At(h, "remove")
  /\ file' = NoFile
  /\ Return(h)
  /\ UNCHANGED <<now, calls, dict, changed, context>>

-----------------------------------------------------------------------------
(* AcquireTokenHandlerBase::runAsync *)

takeItem(h) ==
  /\ At(h, "load")
  /\ \E k \in loadSingleItemFromCache(dict[h], authority[h], Resource(h),
                                      Subject(h), uniqueId(h)) :
       call' = [call EXCEPT ![h].key = k,
                            ![h].pc  = IF k = NoKey THEN "request" ELSE "loaded"]
  /\ UNCHANGED <<now, calls, file, dict, changed, context>>

\* The rest of loadFromCache, and which way runAsync takes.
loadFromCache(h) ==
  LET item == Usable(dict[h], call[h].key, Resource(h), now)
  IN  /\ At(h, "loaded")
      /\ dict' = [dict EXCEPT ![h] = afterLoad(dict[h], call[h].key, Resource(h), now)]
      /\ changed' = [changed EXCEPT ![h] = changed[h] \/ Dead(item)]
      /\ call' = [call EXCEPT ![h].result = IF Dead(item) THEN NoItem ELSE item,
                              ![h].pc = CASE Dead(item)          -> "request"
                                          [] ~Dead(item) /\ item.access = Empty -> "refresh"
                                          [] OTHER               -> "done"]
      /\ UNCHANGED <<now, calls, file, context>>

\* Mutation of parseTokenResponse: a refresh token that is missing counts.
parseTokenResponseMulti(h, u, r) ==
  [access  |-> [resource |-> Resource(h), user |-> u],
   refresh |-> IF r.refreshToken THEN u ELSE Empty,
   mrrt    |-> r.multi,
   user    |-> IF r.idToken THEN u ELSE NoUser,
   expires |-> now + Lifetime]

\* What parseTokenResponse makes of a reply to user u.  An id token always
\* names its user.
parseTokenResponse(h, u, r) ==
  [access  |-> [resource |-> Resource(h), user |-> u],
   refresh |-> IF r.refreshToken THEN u ELSE Empty,
   mrrt    |-> r.refreshToken /\ r.multi,
   user    |-> IF r.idToken THEN u ELSE NoUser,
   expires |-> now + Lifetime]

\* updateTenantId: the first tenant the server names replaces "Common".
updateTenantId(h, tenantKnown) ==
  IF authority[h] = Tenantless /\ tenantKnown
    THEN /\ authority' = [authority EXCEPT ![h] = Tenant]
         /\ updated' = [updated EXCEPT ![h] = FALSE]
    ELSE UNCHANGED context

\* A reply without refresh token keeps the old one, a reply without id token
\* keeps the old user information.
refreshed(h, old, r) ==
  LET new == parseTokenResponse(h, old.refresh, r)
  IN  [new EXCEPT !.refresh = IF r.refreshToken THEN new.refresh ELSE old.refresh,
                  !.user    = IF r.idToken THEN new.user ELSE old.user]

\* A failed refresh falls back to a token request: jobPost's service exceptions
\* carry the HTTP status in their text, so they never equal "invalid_request".
refreshAccessTokenAsync(h) ==
  LET old == call[h].result
  IN  /\ At(h, "refresh")
      /\ \/ \E r \in Replies :
              /\ call' = [call EXCEPT ![h].result = refreshed(h, old, r), ![h].pc = "store"]
              /\ updateTenantId(h, old.user # NoUser)
         \/ /\ call' = [call EXCEPT ![h].result = NoItem, ![h].pc = "request"]
            /\ UNCHANGED context
      /\ UNCHANGED <<now, calls, file, dict, changed>>

\* Who logs in: with user interaction anyone may.
LoginUsers(h) == CASE call[h].req.handler = "Interactive"    -> Users
                   [] call[h].req.handler = "NonInteractive" -> {call[h].req.wanted}
                   [] OTHER                                  -> {NoUser}

\* A client has no user, so the server gives it neither id nor refresh token.
PossibleReplies(h) ==
  {r \in Replies : call[h].req.handler = "ForClient" => ~r.idToken /\ ~r.refreshToken}

\* postTokenRequest of the interactive handler.  For a unique id the test
\* compares the wanted id with itself.
UserMismatch(h, res) ==
  /\ call[h].req.handler = "Interactive" /\ call[h].req.type = "RequiredDisplayableId"
  /\ res.user # call[h].req.wanted

\* Mutation of Throw: the cache is not notified.
ThrowUnnotified(h) == Return(h)

\* An exception: the catch block of runAsync notifies the cache if it was
\* notified before.
Throw(h) == IF call[h].req.load THEN Goto(h, "throw") ELSE Return(h)

\* preTokenRequest, sendTokenRequestAsync and postTokenRequest, or an exception
\* of one of them.
sendTokenRequestAsync(h) ==
  /\ At(h, "request")
  /\ \/ \E u \in LoginUsers(h), r \in PossibleReplies(h) :
          LET res == parseTokenResponse(h, u, r)
          IN  /\ updateTenantId(h, r.idToken)
              /\ IF UserMismatch(h, res) THEN Throw(h)
                 ELSE call' = [call EXCEPT ![h].result = res, ![h].key = NoKey,
                                 ![h].pc = IF call[h].req.load THEN "store" ELSE "beforeStore"]
     \/ Throw(h) /\ UNCHANGED context
  /\ UNCHANGED <<now, calls, file, dict, changed>>

store(h) ==
  /\ At(h, "store")
  /\ dict' = [dict EXCEPT ![h] = storeToCache(dict[h], authority[h], Resource(h),
                                              Subject(h), call[h].result)]
  /\ changed' = [changed EXCEPT ![h] = TRUE]
  /\ Goto(h, "done")
  /\ UNCHANGED <<now, calls, file, context>>

-----------------------------------------------------------------------------

\* Time passes.
Tick == /\ now < MaxTime
        /\ now' = now + 1
        /\ UNCHANGED <<calls, file, dict, changed, context, call>>

\* The process dies and comes back with what is in the file.  A file that was
\* just being rewritten is left truncated.
Restart ==
  /\ file' \in {file} \cup IF \E h \in Handlers : call[h].pc \in AfterAccess /\ changed[h]
                             THEN {EmptyFile} ELSE {}
  /\ dict' = [h \in Handlers |-> NothingCached]
  /\ changed' = [h \in Handlers |-> FALSE]
  /\ authority' \in [Handlers -> StartAuthorities]
  /\ updated' = [h \in Handlers |-> FALSE]
  /\ call' = [h \in Handlers |-> NoCall]
  /\ UNCHANGED <<now, calls>>

\* The next step of a call in progress.
Step(h) == \/ preRunAsync(h) \/ onBeforeAccess(h) \/ deleteItem(h) \/ clear(h)
           \/ takeItem(h) \/ loadFromCache(h) \/ refreshAccessTokenAsync(h)
           \/ sendTokenRequestAsync(h) \/ store(h)
           \/ onAfterAccess(h) \/ removeFile(h)

Next == \/ \E h \in Handlers :
             \/ \E q \in Requests : Acquire(h, q)
             \/ \E op \in Maintenance : Maintain(h, op)
             \/ Step(h)
        \/ Tick
        \/ Restart

Spec == Init /\ [][Next]_vars

-----------------------------------------------------------------------------
(* Properties *)

Places == {"idle", "preRun", "beforeLoad", "load", "loaded", "refresh", "request",
           "beforeStore", "store", "remove"} \cup MaintenanceCalls \cup AfterAccess

CallRecords == [pc : Places, req : Requests \cup {NoRequest}, started : Nat,
                key : Keys \cup {NoKey}, result : Items \cup {NoItem}]

TypeOK ==
  /\ now \in Nat /\ calls \in Nat
  /\ file \in Dictionaries \cup {NoFile, EmptyFile}
  /\ dict \in [Handlers -> Dictionaries]
  /\ changed \in [Handlers -> BOOLEAN]
  /\ authority \in [Handlers -> Authorities]
  /\ updated \in [Handlers -> BOOLEAN]
  /\ call \in [Handlers -> CallRecords]

\* A successful acquisition hands out an access token for the resource that was
\* asked for, which was not near its expiry when the call began; from the cache,
\* a request for a unique id gets that user's token.
TokenServesRequest ==
  \A h \in Handlers : At(h, "done") =>
    LET res == call[h].result
    IN  /\ res # NoItem /\ res.access # Empty
        /\ res.access.resource = Resource(h)
        /\ res.expires > call[h].started + Margin
        /\ (call[h].key # NoKey /\ uniqueId(h) # NoUser) => res.access.user = uniqueId(h)

\* Every item of every cache and of the file.
AllItems(P(_, _)) ==
  /\ \A h \in Handlers, k \in Keys : dict[h][k] # NoItem => P(k, dict[h][k])
  /\ file \notin {NoFile, EmptyFile} => \A k \in Keys : file[k] # NoItem => P(k, file[k])

\* However items travel between caches and the file, are refreshed with the
\* token of another resource or get another resource's refresh token, they stay
\* under the key of their own resource and user.
ItemsBelongToKeys == AllItems(Belongs)

\* No cache and no file holds an item with neither token: nobody would ever
\* remove it, and it would be found again and again.
NotDead(k, item) == ~Dead(item)
NoDeadItems == AllItems(NotDead)

\* When a call is over, also when it threw after it had removed an item from the
\* cache, its changes have been offered to the file.
ChangesAreSaved == \A h \in Handlers : At(h, "idle") => ~changed[h]

\* What a call knows about its request, its changes, its key and its result at
\* each place.
CallOK(h) ==
  LET c == call[h]
  IN  /\ c.started <= now
      /\ c.pc \notin {"idle", "remove", "afterAccess", "afterClear"} \cup MaintenanceCalls
           => c.req \in Requests
      /\ c.pc \in {"beforeLoad", "load", "loaded", "refresh"} => c.req.load
      /\ c.pc \in {"idle", "preRun", "remove"} \/ (c.pc = "request" /\ ~c.req.load)
           => ~changed[h]
      /\ c.pc \in {"loaded", "refresh"} => c.key \in Keys
      /\ c.pc = "loaded" => dict[h][c.key] # NoItem
      /\ c.key # NoKey /\ c.pc \in {"loaded", "refresh", "beforeStore", "store", "done"}
           => (uniqueId(h) # NoUser => c.key.user = uniqueId(h))
      /\ c.pc = "refresh" =>
           /\ c.result # NoItem /\ c.result.access = Empty
           /\ WellFormed(c.key, c.result)
      /\ c.pc \in {"beforeStore", "store", "done"} =>
           /\ c.result # NoItem /\ c.result.access # Empty
           /\ WellFormed([authority |-> authority[h], resource |-> Resource(h),
                          user |-> c.result.user, subject |-> Subject(h)], c.result)
           /\ c.result.expires > c.started + Margin
           /\ c.key # NoKey /\ uniqueId(h) # NoUser => c.result.access.user = uniqueId(h)

\* The inductive invariant: a refresh token for several resources exists where
\* the item claims one, a call that may return without notifying the cache has
\* changed nothing, and a call's key and result agree with its request.
TokenInv == /\ TypeOK
            /\ AllItems(WellFormed)
            /\ \A h \in Handlers : CallOK(h)

\* "An item matching the requested resource was found in the cache": the item
\* taken is the matching one.
MatchingItemIsTaken ==
  \A h \in Handlers : At(h, "loaded") =>
    LET matching == Matching(dict[h], authority[h], Resource(h), Subject(h), uniqueId(h))
    IN  Cardinality(matching) = 1 => call[h].key \in matching
=============================================================================
