------------------------- MODULE AcquireTokenProofs -------------------------
(***************************************************************************)
(* For any number of threads, users and resources, any server replies and  *)
(* any restarts: TokenInv is inductive, so every token a call hands out    *)
(* serves its request, and every item stays with its resource and user.    *)
(***************************************************************************)
EXTENDS AcquireToken, TLAPS

\* A dictionary whose items are all well formed.
DictOK(d) == \A k \in Keys : d[k] # NoItem => WellFormed(k, d[k])

FileOK == file \notin {NoFile, EmptyFile} => DictOK(file)

USE DEF Subjects, RefreshTokens

-----------------------------------------------------------------------------
(* The operations on dictionaries. *)

\* An empty cache.
LEMMA NothingCachedOK == NothingCached \in Dictionaries /\ DictOK(NothingCached)
BY DEF NothingCached, Dictionaries, DictOK

\* Erasing a key leaves the other items alone.
LEMMA EraseOK ==
  ASSUME NEW d \in Dictionaries, DictOK(d), NEW k \in Keys
  PROVE  LET e == [d EXCEPT ![k] = NoItem] IN e \in Dictionaries /\ DictOK(e)
BY DEF Dictionaries, DictOK

\* Writing a well-formed item under its key.
LEMMA InsertOK ==
  ASSUME NEW d \in Dictionaries, DictOK(d), NEW k \in Keys, NEW item \in Items, WellFormed(k, item)
  PROVE  LET e == [d EXCEPT ![k] = item] IN e \in Dictionaries /\ DictOK(e)
BY DEF Dictionaries, DictOK

\* Reading the file adds items, and replaces none.
LEMMA DeserializeOK ==
  ASSUME NEW d \in Dictionaries, DictOK(d), NEW items \in Dictionaries, DictOK(items)
  PROVE  deserialize(d, items) \in Dictionaries /\ DictOK(deserialize(d, items))
BY DEF Dictionaries, DictOK, deserialize

\* The cast to int gives an integer.
LEMMA AsIntType == ASSUME NEW t \in Int PROVE AsInt(t) \in Int
BY CacheConstants DEF AsInt

\* Writing the file changes expiry times at most.
LEMMA SerializeOK ==
  ASSUME NEW d \in Dictionaries, DictOK(d)
  PROVE  serialize(d) \in Dictionaries /\ DictOK(serialize(d))
<1>1. ASSUME NEW k \in Keys, d[k] # NoItem
      PROVE  /\ serialize(d)[k] \in Items
             /\ WellFormed(k, serialize(d)[k])
  <2>1. d[k] \in Items /\ WellFormed(k, d[k])
    BY <1>1 DEF Dictionaries, DictOK
  <2>2. serialize(d)[k] = [d[k] EXCEPT !.expires = AsInt(@)]
    BY <1>1 DEF serialize
  <2>3. AsInt(d[k].expires) \in Int
    BY <2>1, AsIntType DEF Items
  <2>. QED  BY <2>1, <2>2, <2>3 DEF Items, WellFormed, Belongs, Dead
<1>2. \A k \in Keys : d[k] = NoItem => serialize(d)[k] = NoItem
  BY DEF serialize
<1>3. serialize(d) \in Dictionaries
  BY <1>1, <1>2 DEF Dictionaries, serialize
<1>. QED  BY <1>1, <1>2, <1>3 DEF DictOK

\* Usable keeps everything but the access token, and that it keeps or empties.
LEMMA UsableOK ==
  ASSUME NEW d \in Dictionaries, DictOK(d), NEW k \in Keys, d[k] # NoItem,
         NEW resource \in Resources, NEW t \in Nat
  PROVE  LET item == Usable(d, k, resource, t)
         IN  /\ item \in Items
             /\ Belongs(k, item)
             /\ item.mrrt => item.refresh # Empty
             /\ item.access # Empty => k.resource = resource /\ item.expires > t + Margin
<1>1. d[k] \in Items /\ WellFormed(k, d[k])
  BY DEF Dictionaries, DictOK
<1>. QED  BY <1>1, CacheConstants DEF Usable, tokenNearExpiry, Items, WellFormed, Belongs

\* loadFromCache leaves the item, without an access token it must not hand out,
\* or removes it.
LEMMA AfterLoadOK ==
  ASSUME NEW d \in Dictionaries, DictOK(d), NEW k \in Keys, d[k] # NoItem,
         NEW resource \in Resources, NEW t \in Nat
  PROVE  afterLoad(d, k, resource, t) \in Dictionaries /\ DictOK(afterLoad(d, k, resource, t))
<1> DEFINE item == Usable(d, k, resource, t)
<1>1. item \in Items /\ Belongs(k, item) /\ (item.mrrt => item.refresh # Empty)
  BY UsableOK
<1>2. CASE Dead(item)
  BY <1>2, EraseOK DEF afterLoad
<1>3. CASE ~Dead(item)
  <2>1. WellFormed(k, item)
    BY <1>1, <1>3 DEF WellFormed
  <2>2. afterLoad(d, k, resource, t) = [d EXCEPT ![k] = item]
    BY <1>3 DEF afterLoad
  <2>. QED  BY <1>1, <2>1, <2>2, InsertOK
<1>. QED  BY <1>2, <1>3

\* Sharing a new refresh token gives it only to items of the same user, that
\* had a refresh token already.
LEMMA UpdateMrrtOK ==
  ASSUME NEW d \in Dictionaries, DictOK(d), NEW a \in Authorities, NEW s \in Subjects,
         NEW res \in Items, NEW key \in Keys, key.user = res.user, WellFormed(key, res)
  PROVE  LET e == updateCachedMrrtRefreshTokens(d, a, s, res)
         IN  e \in Dictionaries /\ DictOK(e)
<1> DEFINE e == updateCachedMrrtRefreshTokens(d, a, s, res)
           renewed == {k \in queryCache(d, a, s, res.user) : d[k].mrrt}
<1>1. CASE ~(res.user # NoUser /\ res.mrrt)
  BY <1>1 DEF updateCachedMrrtRefreshTokens
<1>2. CASE res.user # NoUser /\ res.mrrt
  <2>1. e = [k \in Keys |-> IF k \in renewed THEN [d[k] EXCEPT !.refresh = res.refresh]
                                             ELSE d[k]]
    BY <1>2 DEF updateCachedMrrtRefreshTokens
  <2>2. res.refresh \in Users /\ res.refresh # Empty /\ res.refresh = res.user
    BY <1>2 DEF WellFormed, Belongs, Items
  <2>3. ASSUME NEW k \in renewed
        PROVE  k \in Keys /\ d[k] # NoItem /\ k.user = res.user
    BY <2>3, <1>2 DEF queryCache
  <2>4. ASSUME NEW k \in renewed
        PROVE  e[k] \in Items /\ WellFormed(k, e[k])
    <3>1. d[k] \in Items /\ WellFormed(k, d[k])
      BY <2>3, <2>4 DEF Dictionaries, DictOK
    <3>2. e[k] = [d[k] EXCEPT !.refresh = res.refresh]
      BY <2>1, <2>3, <2>4
    <3>. QED  BY <2>2, <2>3, <2>4, <3>1, <3>2 DEF Items, WellFormed, Belongs, Dead
  <2>5. ASSUME NEW k \in Keys, k \notin renewed
        PROVE  e[k] = d[k]
    BY <2>1, <2>5
  <2>6. e \in Dictionaries
    BY <2>1, <2>4, <2>5 DEF Dictionaries
  <2>. QED  BY <2>4, <2>5, <2>6 DEF DictOK
<1>. QED  BY <1>1, <1>2

\* Storing a result under the key its own user makes.
LEMMA StoreOK ==
  ASSUME NEW d \in Dictionaries, DictOK(d), NEW a \in Authorities, NEW r \in Resources,
         NEW s \in Subjects, NEW res \in Items,
         WellFormed([authority |-> a, resource |-> r, user |-> res.user, subject |-> s], res)
  PROVE  LET e == storeToCache(d, a, r, s, res) IN e \in Dictionaries /\ DictOK(e)
<1> DEFINE key == [authority |-> a, resource |-> r, user |-> res.user, subject |-> s]
           e   == [d EXCEPT ![key] = res]
<1>1. key \in Keys /\ key.user = res.user
  BY DEF Keys, Items
<1>2. e \in Dictionaries /\ DictOK(e)
  BY <1>1, InsertOK
<1>3. storeToCache(d, a, r, s, res) = updateCachedMrrtRefreshTokens(e, a, s, res)
  BY DEF storeToCache
<1> HIDE DEF e, key
<1>. QED  BY <1>1, <1>2, <1>3, UpdateMrrtOK DEF key

\* Whatever the lookup picks is in the dictionary, and of the wanted user.
LEMMA LoadSingleItemOK ==
  ASSUME NEW d, NEW a, NEW r, NEW s, NEW u, NEW k \in loadSingleItemFromCache(d, a, r, s, u)
  PROVE  k = NoKey \/ (k \in Keys /\ d[k] # NoItem /\ (u # NoUser => k.user = u))
<1> DEFINE qnty == Cardinality(Matching(d, a, r, s, u))
           mrrt == {i \in queryCache(d, a, s, u) : d[i].mrrt}
<1>1. \/ k \in queryCache(d, a, s, u)
      \/ k \in mrrt
      \/ k = NoKey
  <2>1. CASE qnty = 1
    BY <2>1 DEF loadSingleItemFromCache
  <2>2. CASE qnty = 0 /\ mrrt # {}
    BY <2>2 DEF loadSingleItemFromCache
  <2>3. CASE qnty # 1 /\ ~(qnty = 0 /\ mrrt # {})
    BY <2>3 DEF loadSingleItemFromCache
  <2>. QED  BY <2>1, <2>2, <2>3
<1>. QED  BY <1>1 DEF queryCache
-----------------------------------------------------------------------------
(* Steps of one thread. *)

\* The part of the invariant about items, in terms of dictionaries.
LEMMA ItemsAreOK ==
  AllItems(WellFormed) <=> (\A h \in Handlers : DictOK(dict[h])) /\ FileOK
BY DEF AllItems, DictOK, FileOK

\* What holds of a call does not depend on other threads, nor on time passing.
LEMMA CallOKFrame ==
  ASSUME NEW u \in Handlers, CallOK(u), call'[u] = call[u], dict'[u] = dict[u],
         changed'[u] = changed[u], authority'[u] = authority[u], call[u].started \in Nat,
         now \in Nat, now' \in Nat, now <= now'
  PROVE  CallOK(u)'
BY DEF CallOK, uniqueId, Resource, Subject

\* h's record changes to c, and no other.
Moves(h, c) == /\ call' \in [Handlers -> CallRecords]
               /\ call'[h] = c
               /\ \A u \in Handlers \ {h} : call'[u] = call[u]

\* The other variables change at h only, and keep their types.
Keeps(h) ==
  /\ now' = now /\ calls' \in Nat
  /\ file' \in Dictionaries \cup {NoFile, EmptyFile} /\ FileOK'
  /\ dict' \in [Handlers -> Dictionaries] /\ DictOK(dict'[h])
  /\ changed' \in [Handlers -> BOOLEAN]
  /\ authority' \in [Handlers -> Authorities]
  /\ updated' \in [Handlers -> BOOLEAN]
  /\ \A u \in Handlers \ {h} : /\ dict'[u] = dict[u] /\ changed'[u] = changed[u]
                               /\ authority'[u] = authority[u]

\* It suffices to look at the thread that moves.
LEMMA OneThreadMoves ==
  ASSUME TokenInv, NEW h \in Handlers, NEW c, Moves(h, c), Keeps(h),
         CallOK(h)'
  PROVE  TokenInv'
<1>1. TypeOK'
  BY DEF TokenInv, TypeOK, Moves, Keeps
<1>3. \A u \in Handlers : DictOK(dict'[u])
  BY ItemsAreOK DEF TokenInv, Keeps
<1>4. AllItems(WellFormed)'
  BY <1>3 DEF AllItems, DictOK, FileOK, Keeps
<1>5. ASSUME NEW u \in Handlers \ {h}
      PROVE  CallOK(u)'
  <2>1. call[u] \in CallRecords /\ now \in Nat
    BY DEF TokenInv, TypeOK
  <2>2. call[u].started \in Nat /\ now <= now
    BY <2>1 DEF CallRecords
  <2>3. CallOK(u)
    BY DEF TokenInv
  <2>. QED  BY <2>1, <2>2, <2>3, CallOKFrame DEF Moves, Keeps
<1>. QED  BY <1>1, <1>4, <1>5 DEF TokenInv

\* Types of what a call works with.
LEMMA CallTypes ==
  ASSUME TokenInv, NEW h \in Handlers
  PROVE  /\ call[h] \in CallRecords
         /\ authority[h] \in Authorities
         /\ dict[h] \in Dictionaries /\ DictOK(dict[h])
         /\ call[h].started \in Nat /\ now \in Nat /\ call[h].started <= now
         /\ CallOK(h)
BY ItemsAreOK DEF TokenInv, TypeOK, CallOK, CallRecords

LEMMA RequestTypes ==
  ASSUME NEW h \in Handlers, call[h].req \in Requests
  PROVE  /\ Resource(h) \in Resources /\ Subject(h) \in Subjects
         /\ uniqueId(h) \in Users \cup {NoUser}
         /\ call[h].req.wanted \in Users \cup {NoUser}
BY AcquireConstants DEF Resource, Subject, uniqueId, AllRequests

\* The variables that an action leaves unchanged.
LEMMA FileKept == ASSUME TokenInv, UNCHANGED file
                  PROVE  file' \in Dictionaries \cup {NoFile, EmptyFile} /\ FileOK'
BY ItemsAreOK DEF TokenInv, TypeOK, FileOK

LEMMA KeepsAll ==
  ASSUME TokenInv, NEW h \in Handlers, calls' \in Nat,
         UNCHANGED <<now, file, dict, changed, authority>>, updated' \in [Handlers -> BOOLEAN]
  PROVE  Keeps(h)
BY FileKept, CallTypes DEF TokenInv, TypeOK, Keeps

\* A call moves on to another place.
LEMMA GotoMoves ==
  ASSUME TokenInv, NEW h \in Handlers, NEW l \in Places, Goto(h, l)
  PROVE  Moves(h, [call[h] EXCEPT !.pc = l])
<1>1. call[h] \in CallRecords
  BY CallTypes
<1>2. [call[h] EXCEPT !.pc = l] \in CallRecords
  BY <1>1 DEF CallRecords
<1>. QED  BY <1>2 DEF TokenInv, TypeOK, Goto, Moves

\* A call returns.
LEMMA ReturnMoves ==
  ASSUME TokenInv, NEW h \in Handlers, Return(h)
  PROVE  Moves(h, NoCall)
<1>1. NoCall \in CallRecords
  BY DEF NoCall, CallRecords, Places
<1>. QED  BY <1>1 DEF TokenInv, TypeOK, Return, Moves

\* Nothing is demanded of a thread that is in no call.
LEMMA ReturnOK ==
  ASSUME NEW h \in Handlers, call'[h] = NoCall, now' \in Nat, ~changed'[h]
  PROVE  CallOK(h)'
BY DEF NoCall, CallOK

\* A new call.
LEMMA AcquireKeepsInv ==
  ASSUME TokenInv, NEW h \in Handlers, NEW q \in Requests, Acquire(h, q)
  PROVE  TokenInv'
<1> DEFINE c == [NoCall EXCEPT !.pc = "preRun", !.req = q, !.started = now]
<1>1. now \in Nat /\ calls' \in Nat
  BY DEF TokenInv, TypeOK, Acquire
<1>2. c \in CallRecords /\ c.pc = "preRun" /\ c.started = now /\ c.req = q /\ c.key = NoKey
  BY <1>1 DEF CallRecords, NoCall, Places
<1>3. Moves(h, c)
  <2>1. call' = [call EXCEPT ![h] = c]
    BY DEF Acquire
  <2> HIDE DEF c
  <2>. QED  BY <1>2, <2>1 DEF TokenInv, TypeOK, Moves
<1> HIDE DEF c
<1>4. Keeps(h)
  BY <1>1, KeepsAll DEF Acquire, context, TokenInv, TypeOK
<1>5. CallOK(h)'
  <2>1. ~changed[h]
    BY CallTypes DEF CallOK, Acquire, At
  <2>. QED  BY <1>1, <1>2, <1>3, <2>1 DEF CallOK, Moves, Acquire, MaintenanceCalls
<1>. QED  BY <1>2, <1>3, <1>4, <1>5, OneThreadMoves

\* A call on the cache itself.
LEMMA MaintainKeepsInv ==
  ASSUME TokenInv, NEW h \in Handlers, NEW l \in Maintenance, Maintain(h, l)
  PROVE  TokenInv'
<1> DEFINE c == [call[h] EXCEPT !.pc = l]
<1>1. l \in MaintenanceCalls /\ l \in Places /\ calls' \in Nat
  BY AcquireConstants DEF Places, Maintain, TokenInv, TypeOK
<1>2. c.pc = l /\ c.started <= now
  BY CallTypes DEF CallRecords
<1>3. Moves(h, c)
  BY <1>1, GotoMoves DEF Maintain
<1> HIDE DEF c
<1>4. Keeps(h)
  BY <1>1, KeepsAll DEF Maintain, context, TokenInv, TypeOK
<1>5. CallOK(h)'
  BY <1>1, <1>2, <1>3 DEF CallOK, Moves, Maintain, MaintenanceCalls
<1>. QED  BY <1>1, <1>2, <1>3, <1>4, <1>5, OneThreadMoves DEF MaintenanceCalls
\* A step that only moves a call on: what it knows about its request, key and
\* result stays.
LEMMA GotoFacts ==
  ASSUME TokenInv, NEW h \in Handlers, NEW l \in Places, Goto(h, l), now' = now
  PROVE  /\ Moves(h, [call[h] EXCEPT !.pc = l])
         /\ call'[h].pc = l /\ call'[h].req = call[h].req /\ call'[h].key = call[h].key
         /\ call'[h].result = call[h].result /\ call'[h].started = call[h].started
         /\ uniqueId(h)' = uniqueId(h) /\ Resource(h)' = Resource(h) /\ Subject(h)' = Subject(h)
         /\ call'[h].started <= now'
<1>1. Moves(h, [call[h] EXCEPT !.pc = l]) /\ call[h] \in CallRecords /\ call[h].started <= now
  BY GotoMoves, CallTypes
<1>2. /\ call'[h].pc = l /\ call'[h].req = call[h].req /\ call'[h].key = call[h].key
      /\ call'[h].result = call[h].result /\ call'[h].started = call[h].started
  BY <1>1 DEF Moves, CallRecords
<1>. QED  BY <1>1, <1>2 DEF uniqueId, Resource, Subject

\* Places at which the invariant asks of a call at most that it has a request.
Plain == {"beforeLoad", "load", "request", "throw", "remove",
          "afterAccess", "afterClear"} \cup MaintenanceCalls

\* Going from one of a call's places to a plain one.
LEMMA GotoPlain ==
  ASSUME TokenInv, NEW h \in Handlers, NEW l \in Plain, Goto(h, l), Keeps(h),
         call[h].req \in Requests \/ l \in {"remove", "afterAccess", "afterClear"},
         l \in {"beforeLoad", "load"} => call[h].req.load,
         l = "remove" \/ (l = "request" /\ ~call[h].req.load) => ~changed'[h]
  PROVE  TokenInv'
<1>1. l \in Places
  BY DEF Plain, Places, MaintenanceCalls, AfterAccess
<1>2. now' = now
  BY DEF Keeps
<1>3. CallOK(h)'
  BY <1>1, <1>2, GotoFacts DEF CallOK, Plain, MaintenanceCalls
<1>. QED  BY <1>1, <1>2, <1>3, GotoFacts, OneThreadMoves

\* A call returns with its changes offered to the file, or without any.
LEMMA ReturnKeepsInv ==
  ASSUME TokenInv, NEW h \in Handlers, Return(h), Keeps(h), ~changed'[h]
  PROVE  TokenInv'
<1>1. Moves(h, NoCall) /\ now' \in Nat
  BY ReturnMoves DEF Keeps, TokenInv, TypeOK
<1>2. CallOK(h)'
  BY <1>1, ReturnOK DEF Moves
<1>. QED  BY <1>1, <1>2, OneThreadMoves

\* A call that has got past "preRun" has a request.
LEMMA HasRequest ==
  ASSUME TokenInv, NEW h \in Handlers,
         call[h].pc \notin {"idle", "remove", "afterAccess", "afterClear"} \cup MaintenanceCalls
  PROVE  call[h].req \in Requests
BY CallTypes DEF CallOK
\* The authority is validated, or the call is over.
LEMMA PreRunKeepsInv ==
  ASSUME TokenInv, NEW h \in Handlers, preRunAsync(h)
  PROVE  TokenInv'
<1>1. updated' \in [Handlers -> BOOLEAN] /\ calls' \in Nat
  BY DEF preRunAsync, TokenInv, TypeOK
<1>2. Keeps(h)
  BY <1>1, KeepsAll DEF preRunAsync
<1>3. call[h].req \in Requests /\ ~changed[h] /\ changed' = changed
  BY CallTypes DEF preRunAsync, CallOK, At, MaintenanceCalls
<1>4. CASE Goto(h, IF call[h].req.load THEN "beforeLoad" ELSE "request")
  <2>1. CASE call[h].req.load
    BY <1>2, <1>3, <1>4, <2>1, GotoPlain DEF Plain
  <2>2. CASE ~call[h].req.load
    BY <1>2, <1>3, <1>4, <2>2, GotoPlain DEF Plain
  <2>. QED  BY <2>1, <2>2
<1>5. CASE Return(h)
  BY <1>2, <1>3, <1>5, ReturnKeepsInv
<1>. QED  BY <1>4, <1>5 DEF preRunAsync

\* A new dictionary for h, nothing else but changed.
LEMMA KeepsDict ==
  ASSUME TokenInv, NEW h \in Handlers, NEW d \in Dictionaries, DictOK(d),
         dict' = [dict EXCEPT ![h] = d],
         NEW b \in BOOLEAN, changed' = [changed EXCEPT ![h] = b],
         UNCHANGED <<now, calls, file, context>>
  PROVE  Keeps(h)
BY FileKept DEF TokenInv, TypeOK, Keeps, context

LEMMA KeepsDictOnly ==
  ASSUME TokenInv, NEW h \in Handlers, NEW d \in Dictionaries, DictOK(d),
         dict' = [dict EXCEPT ![h] = d], UNCHANGED <<now, calls, file, changed, context>>
  PROVE  Keeps(h)
BY FileKept DEF TokenInv, TypeOK, Keeps, context

\* Whatever state the file is in.
LEMMA ReadCacheOK ==
  ASSUME TokenInv, NEW h \in Handlers
  PROVE  readCache(h) \in Dictionaries /\ DictOK(readCache(h))
<1>1. dict[h] \in Dictionaries /\ DictOK(dict[h])
  BY CallTypes
<1>2. file \in Dictionaries \cup {NoFile, EmptyFile} /\ FileOK
  BY ItemsAreOK DEF TokenInv, TypeOK
<1>3. CASE file = NoFile
  BY <1>1, <1>3, AcquireConstants DEF readCache
<1>4. CASE file = EmptyFile
  BY <1>4, AcquireConstants, NothingCachedOK DEF readCache
<1>5. CASE file \notin {NoFile, EmptyFile}
  <2>1. readCache(h) = deserialize(dict[h], file)
    BY <1>5 DEF readCache
  <2>2. file \in Dictionaries /\ DictOK(file)
    BY <1>2, <1>5 DEF FileOK
  <2>. QED  BY <1>1, <2>1, <2>2, DeserializeOK
<1>. QED  BY <1>3, <1>4, <1>5

\* Reading the file into the cache.
LEMMA OnBeforeAccessKeepsInv ==
  ASSUME TokenInv, NEW h \in Handlers, onBeforeAccess(h)
  PROVE  TokenInv'
<1>1. Keeps(h) /\ now' = now
  BY ReadCacheOK, KeepsDictOnly DEF onBeforeAccess
<1>2. CASE At(h, "beforeLoad") /\ Goto(h, "load")
  <2>1. call[h].req \in Requests /\ call[h].req.load
    BY <1>2, CallTypes DEF At, CallOK, MaintenanceCalls
  <2>. QED  BY <1>1, <1>2, <2>1, GotoPlain DEF Plain
<1>3. CASE At(h, "readItems") /\ Goto(h, "afterAccess")
  BY <1>1, <1>3, GotoPlain DEF Plain
<1>4. CASE At(h, "beforeStore") /\ Goto(h, "store")
  <2>1. "store" \in Places
    BY DEF Places
  <2>2. authority' = authority
    BY DEF onBeforeAccess, context
  <2>3. CallOK(h)'
    BY <1>1, <1>4, <2>1, <2>2, CallTypes, GotoFacts, ZenonT(60) DEF CallOK, At, MaintenanceCalls
  <2>. QED  BY <1>1, <1>4, <2>1, <2>3, GotoFacts, OneThreadMoves
<1>. QED  BY <1>2, <1>3, <1>4 DEF onBeforeAccess

\* Erasing one item.
LEMMA DeleteItemKeepsInv ==
  ASSUME TokenInv, NEW h \in Handlers, deleteItem(h)
  PROVE  TokenInv'
<1>1. PICK k \in Keys : dict' = [dict EXCEPT ![h] = [readCache(h) EXCEPT ![k] = NoItem]]
  BY DEF deleteItem
<1>2. /\ [readCache(h) EXCEPT ![k] = NoItem] \in Dictionaries
      /\ DictOK([readCache(h) EXCEPT ![k] = NoItem])
  BY ReadCacheOK, EraseOK
<1>3. Keeps(h)
  BY <1>1, <1>2, KeepsDict DEF deleteItem
<1>. QED  BY <1>3, GotoPlain DEF deleteItem, Plain

\* Erasing all.
LEMMA ClearKeepsInv ==
  ASSUME TokenInv, NEW h \in Handlers, clear(h)
  PROVE  TokenInv'
<1>1. Keeps(h)
  BY NothingCachedOK, KeepsDict DEF clear
<1>. QED  BY <1>1, GotoPlain DEF clear, Plain

\* Writing the file.
LEMMA OnAfterAccessKeepsInv ==
  ASSUME TokenInv, NEW h \in Handlers, onAfterAccess(h)
  PROVE  TokenInv'
<1>1. file' \in Dictionaries \cup {NoFile, EmptyFile} /\ FileOK'
  <2>1. CASE file' = file
    BY <2>1, FileKept
  <2>2. CASE file' = serialize(dict[h])
    BY <2>2, CallTypes, SerializeOK DEF FileOK
  <2>. QED  BY <2>1, <2>2 DEF onAfterAccess
<1>2. Keeps(h) /\ ~changed'[h]
  BY <1>1, CallTypes DEF onAfterAccess, Keeps, TokenInv, TypeOK, context
<1>3. CASE Goto(h, "remove")
  BY <1>2, <1>3, GotoPlain DEF Plain
<1>4. CASE Return(h)
  BY <1>2, <1>4, ReturnKeepsInv
<1>. QED  BY <1>3, <1>4 DEF onAfterAccess

\* Deleting the file.
LEMMA RemoveFileKeepsInv ==
  ASSUME TokenInv, NEW h \in Handlers, removeFile(h)
  PROVE  TokenInv'
<1>1. ~changed[h]
  BY CallTypes DEF removeFile, At, CallOK
<1>2. Keeps(h) /\ ~changed'[h]
  BY <1>1, CallTypes DEF removeFile, Keeps, FileOK, TokenInv, TypeOK, context
<1>. QED  BY <1>2, ReturnKeepsInv DEF removeFile
\* A step that replaces h's record.
LEMMA ReplaceMoves ==
  ASSUME TokenInv, NEW h \in Handlers, NEW c \in CallRecords,
         call' = [call EXCEPT ![h] = c]
  PROVE  Moves(h, c)
BY DEF TokenInv, TypeOK, Moves

\* The lookup.
LEMMA TakeItemKeepsInv ==
  ASSUME TokenInv, NEW h \in Handlers, takeItem(h)
  PROVE  TokenInv'
<1>1. PICK k \in loadSingleItemFromCache(dict[h], authority[h], Resource(h), Subject(h), uniqueId(h)) :
        call' = [call EXCEPT ![h].key = k,
                             ![h].pc  = IF k = NoKey THEN "request" ELSE "loaded"]
  BY DEF takeItem
<1>2. k = NoKey \/ (k \in Keys /\ dict[h][k] # NoItem /\ (uniqueId(h) # NoUser => k.user = uniqueId(h)))
  BY LoadSingleItemOK
<1> DEFINE l == IF k = NoKey THEN "request" ELSE "loaded"
           c == [call[h] EXCEPT !.key = k, !.pc = l]
<1>3. l \in Places /\ call[h] \in CallRecords
  BY CallTypes DEF Places
<1>4. /\ c \in CallRecords
      /\ c.pc = l /\ c.key = k /\ c.req = call[h].req /\ c.started = call[h].started
  BY <1>2, <1>3 DEF CallRecords
<1>5. call' = [call EXCEPT ![h] = c]
  BY <1>1 DEF TokenInv, TypeOK
<1>6. call[h].req \in Requests /\ call[h].req.load /\ call[h].started <= now
  BY CallTypes DEF takeItem, At, CallOK, MaintenanceCalls
<1> HIDE DEF c
<1>7. Moves(h, c)
  BY <1>4, <1>5, ReplaceMoves
<1>8. Keeps(h)
  BY KeepsAll DEF takeItem, context, TokenInv, TypeOK
<1>9. uniqueId(h)' = uniqueId(h)
  BY <1>4, <1>7 DEF Moves, uniqueId
<1>10. CallOK(h)'
  BY <1>2, <1>4, <1>6, <1>7, <1>9 DEF CallOK, Moves, takeItem, MaintenanceCalls
<1>. QED  BY <1>7, <1>8, <1>10, OneThreadMoves

\* What the cache gives: nothing, something to refresh, or a token that serves.
LEMMA LoadFromCacheKeepsInv ==
  ASSUME TokenInv, NEW h \in Handlers, loadFromCache(h)
  PROVE  TokenInv'
<1> DEFINE k    == call[h].key
           item == Usable(dict[h], k, Resource(h), now)
           l    == CASE Dead(item)          -> "request"
                     [] ~Dead(item) /\ item.access = Empty -> "refresh"
                     [] OTHER               -> "done"
           res  == IF Dead(item) THEN NoItem ELSE item
           c    == [call[h] EXCEPT !.result = res, !.pc = l]
<1>1. /\ call[h].req \in Requests /\ call[h].req.load
      /\ k \in Keys /\ dict[h][k] # NoItem
      /\ k # NoKey /\ uniqueId(h) # NoUser => k.user = uniqueId(h)
  BY CallTypes DEF loadFromCache, At, CallOK, MaintenanceCalls
<1>2. /\ dict[h] \in Dictionaries /\ DictOK(dict[h]) /\ Resource(h) \in Resources
      /\ now \in Nat /\ call[h].started \in Nat /\ call[h].started <= now
      /\ call[h] \in CallRecords
  BY <1>1, CallTypes, RequestTypes
<1>3. /\ item \in Items /\ Belongs(k, item) /\ (item.mrrt => item.refresh # Empty)
      /\ item.access # Empty => k.resource = Resource(h) /\ item.expires > now + Margin
  BY <1>1, <1>2, UsableOK
<1>4. Keeps(h)
  <2>1. /\ afterLoad(dict[h], k, Resource(h), now) \in Dictionaries
        /\ DictOK(afterLoad(dict[h], k, Resource(h), now))
    BY <1>1, <1>2, AfterLoadOK
  <2>2. (changed[h] \/ Dead(item)) \in BOOLEAN
    OBVIOUS
  <2> HIDE DEF item
  <2>. QED  BY <2>1, <2>2, KeepsDict DEF loadFromCache, item
<1> HIDE DEF item
<1>5. /\ l \in {"request", "refresh", "done"}
      /\ l = "request" <=> Dead(item)
      /\ l = "refresh" => item.access = Empty
      /\ l = "done" => item.access # Empty
  OBVIOUS
<1>6. call' = [call EXCEPT ![h] = c]
  BY DEF loadFromCache, item, TokenInv, TypeOK
<1> HIDE DEF l
<1>7. /\ c \in CallRecords /\ c.pc = l /\ c.result = res
      /\ c.key = k /\ c.req = call[h].req /\ c.started = call[h].started
  BY <1>2, <1>3, <1>5 DEF CallRecords, Places, AfterAccess
<1> HIDE DEF c
<1>8. Moves(h, c)
  BY <1>6, <1>7, ReplaceMoves
<1>9. /\ uniqueId(h)' = uniqueId(h) /\ Resource(h)' = Resource(h) /\ Subject(h)' = Subject(h)
      /\ authority' = authority /\ now' = now
  BY <1>7, <1>8 DEF Moves, uniqueId, Resource, Subject, loadFromCache, context
<1>10. l = "refresh" => WellFormed(k, item)
  BY <1>3, <1>5 DEF WellFormed
<1>11. l = "done" =>
         /\ WellFormed([authority |-> authority[h], resource |-> Resource(h),
                        user |-> item.user, subject |-> Subject(h)], item)
         /\ item.expires > call[h].started + Margin
         /\ uniqueId(h) # NoUser => item.access.user = uniqueId(h)
  BY <1>1, <1>2, <1>3, <1>5, AcquireConstants, CacheConstants DEF WellFormed, Belongs, Items
<1>12. item # NoItem
  BY <1>3, AcquireConstants
<1>13. CallOK(h)'
  BY <1>1, <1>2, <1>5, <1>7, <1>8, <1>9, <1>10, <1>11, <1>12 DEF CallOK, Moves, MaintenanceCalls
<1>. QED  BY <1>4, <1>8, <1>13, OneThreadMoves
\* A result that may be stored and handed out for the request of a call.
Ready(h, res) ==
  /\ res \in Items /\ res.access # Empty
  /\ WellFormed([authority |-> authority[h], resource |-> Resource(h),
                 user |-> res.user, subject |-> Subject(h)], res)
  /\ res.expires > call[h].started + Margin

\* The authority of a key says nothing about its item.
LEMMA WellFormedKey ==
  ASSUME NEW a, NEW r, NEW u, NEW s, NEW b, NEW item,
         WellFormed([authority |-> a, resource |-> r, user |-> u, subject |-> s], item)
  PROVE  WellFormed([authority |-> b, resource |-> r, user |-> u, subject |-> s], item)
BY DEF WellFormed, Belongs

\* The step that gets such a result.
LEMMA ReadyKeepsInv ==
  ASSUME TokenInv, NEW h \in Handlers, NEW res, Ready(h, res), call[h].req \in Requests,
         NEW k \in Keys \cup {NoKey}, NEW l \in {"store", "beforeStore"},
         k # NoKey /\ uniqueId(h) # NoUser => k.user = uniqueId(h) /\ res.access.user = uniqueId(h),
         call' = [call EXCEPT ![h] = [call[h] EXCEPT !.result = res, !.key = k, !.pc = l]],
         Keeps(h)
  PROVE  TokenInv'
<1> DEFINE c == [call[h] EXCEPT !.result = res, !.key = k, !.pc = l]
<1>1. call[h] \in CallRecords /\ call[h].started <= now
  BY CallTypes
<1>2. /\ c \in CallRecords /\ c.pc = l /\ c.result = res
      /\ c.key = k /\ c.req = call[h].req /\ c.started = call[h].started
  BY <1>1 DEF CallRecords, Places, Ready
<1> HIDE DEF c
<1>3. Moves(h, c)
  BY <1>2, ReplaceMoves DEF c
<1>4. /\ uniqueId(h)' = uniqueId(h) /\ Resource(h)' = Resource(h) /\ Subject(h)' = Subject(h)
      /\ now' = now
  BY <1>2, <1>3 DEF Moves, uniqueId, Resource, Subject, Keeps
<1>5. WellFormed([authority |-> authority'[h], resource |-> Resource(h),
                  user |-> res.user, subject |-> Subject(h)], res)
  BY WellFormedKey DEF Ready
<1>6. res # NoItem
  BY AcquireConstants DEF Ready
<1>7. CallOK(h)'
  BY <1>1, <1>2, <1>3, <1>4, <1>5, <1>6 DEF CallOK, Moves, MaintenanceCalls, Ready
<1>. QED  BY <1>3, <1>7, OneThreadMoves

\* The tenant may replace "Common" in between.
LEMMA KeepsTenant ==
  ASSUME TokenInv, NEW h \in Handlers, NEW b,
         updateTenantId(h, b) \/ UNCHANGED context, UNCHANGED <<now, calls, file, dict, changed>>
  PROVE  Keeps(h)
BY FileKept, CallTypes, AcquireConstants
   DEF TokenInv, TypeOK, Keeps, updateTenantId, context

\* A reply from the server to user u.
LEMMA ReplyReady ==
  ASSUME TokenInv, NEW h \in Handlers, call[h].req \in Requests,
         NEW u \in Users \cup {NoUser}, NEW r \in Replies,
         u = NoUser => ~r.idToken /\ ~r.refreshToken
  PROVE  /\ Ready(h, parseTokenResponse(h, u, r))
         /\ parseTokenResponse(h, u, r).access.user = u
<1> DEFINE res == parseTokenResponse(h, u, r)
<1>1. r.idToken \in BOOLEAN /\ r.refreshToken \in BOOLEAN /\ r.multi \in BOOLEAN
  BY AcquireConstants DEF AllReplies
<1>2. Resource(h) \in Resources /\ now \in Nat /\ call[h].started \in Nat /\ call[h].started <= now
  BY CallTypes, RequestTypes
<1>3. now + Lifetime \in Int /\ now + Lifetime > call[h].started + Margin
  BY <1>2, AcquireConstants, CacheConstants
<1>4. [resource |-> Resource(h), user |-> u] \in AccessTokens
  BY <1>2 DEF AccessTokens
<1>5. res \in Items
  BY <1>1, <1>3, <1>4 DEF parseTokenResponse, Items
<1>6. res.access # Empty /\ res.access.user = u /\ res.expires > call[h].started + Margin
  BY <1>3, <1>4, AcquireConstants DEF parseTokenResponse
<1>7. WellFormed([authority |-> authority[h], resource |-> Resource(h),
                  user |-> res.user, subject |-> Subject(h)], res)
  BY <1>1, <1>6, CacheConstants DEF parseTokenResponse, WellFormed, Belongs, Dead
<1>. QED  BY <1>5, <1>6, <1>7 DEF Ready

\* A refresh is answered for the user whose refresh token was sent.
LEMMA RefreshedReady ==
  ASSUME TokenInv, NEW h \in Handlers, call[h].pc = "refresh", NEW r \in Replies
  PROVE  /\ Ready(h, refreshed(h, call[h].result, r))
         /\ uniqueId(h) # NoUser => refreshed(h, call[h].result, r).access.user = uniqueId(h)
<1> DEFINE old == call[h].result
           k   == call[h].key
           u   == old.refresh
           new == parseTokenResponse(h, u, r)
           res == refreshed(h, old, r)
<1>1. /\ call[h].req \in Requests /\ k \in Keys
      /\ old # NoItem /\ old.access = Empty /\ WellFormed(k, old)
      /\ k # NoKey /\ uniqueId(h) # NoUser => k.user = uniqueId(h)
  BY CallTypes DEF CallOK, MaintenanceCalls
<1>2. old \in Items
  BY <1>1, CallTypes DEF CallRecords
<1>3. u \in Users /\ u # NoUser /\ u # Empty
  BY <1>1, <1>2, CacheConstants DEF WellFormed, Dead, Items
<1>4. Ready(h, new) /\ new.access.user = u
  BY <1>1, <1>3, ReplyReady
<1>5. new.refresh \in {u, Empty} /\ (new.mrrt => r.refreshToken) /\ (r.refreshToken => new.refresh = u)
      /\ (r.idToken => new.user = u)
  BY DEF parseTokenResponse
<1>6. old.user # NoUser => old.user = u
  BY <1>1, <1>3 DEF WellFormed, Belongs
<1>7. res = [new EXCEPT !.refresh = IF r.refreshToken THEN new.refresh ELSE old.refresh,
                        !.user    = IF r.idToken THEN new.user ELSE old.user]
  BY DEF refreshed
<1> HIDE DEF new, res
<1>8. new \in Items
  BY <1>4 DEF Ready
<1>9. /\ res \in Items /\ res.refresh = u /\ res.access = new.access /\ res.expires = new.expires
      /\ res.user = u \/ res.user = NoUser
  BY <1>2, <1>3, <1>5, <1>6, <1>7, <1>8 DEF Items
<1>10. WellFormed([authority |-> authority[h], resource |-> Resource(h),
                   user |-> res.user, subject |-> Subject(h)], res)
  BY <1>3, <1>4, <1>9 DEF Ready, WellFormed, Belongs, Dead
<1>11. uniqueId(h) # NoUser => u = uniqueId(h)
  BY <1>1, <1>3, AcquireConstants DEF WellFormed, Belongs
<1>. QED  BY <1>4, <1>9, <1>10, <1>11 DEF Ready, res

\* Refreshing, or failing to.
LEMMA RefreshKeepsInv ==
  ASSUME TokenInv, NEW h \in Handlers, refreshAccessTokenAsync(h)
  PROVE  TokenInv'
<1> DEFINE old == call[h].result
<1>1. /\ call[h].pc = "refresh" /\ call[h].req \in Requests /\ call[h].req.load
      /\ call[h].key \in Keys
      /\ call[h].key # NoKey /\ uniqueId(h) # NoUser => call[h].key.user = uniqueId(h)
  BY CallTypes DEF refreshAccessTokenAsync, At, CallOK, MaintenanceCalls
<1>2. ASSUME NEW r \in Replies,
             call' = [call EXCEPT ![h].result = refreshed(h, old, r), ![h].pc = "store"],
             updateTenantId(h, old.user # NoUser)
      PROVE  TokenInv'
  <2>1. Keeps(h)
    BY <1>2, KeepsTenant DEF refreshAccessTokenAsync
  <2>2. Ready(h, refreshed(h, old, r))
        /\ (uniqueId(h) # NoUser => refreshed(h, old, r).access.user = uniqueId(h))
    BY <1>1, <1>2, RefreshedReady
  <2> DEFINE res == refreshed(h, old, r)
             k   == call[h].key
  <2> HIDE DEF res
  <2>3. call' = [call EXCEPT ![h] = [call[h] EXCEPT !.result = res, !.key = k, !.pc = "store"]]
    BY <1>2, CallTypes DEF res, TokenInv, TypeOK, CallRecords
  <2>. QED  BY <1>1, <2>1, <2>2, <2>3, ReadyKeepsInv DEF res
<1>3. ASSUME call' = [call EXCEPT ![h].result = NoItem, ![h].pc = "request"], UNCHANGED context
      PROVE  TokenInv'
  <2> DEFINE c == [call[h] EXCEPT !.result = NoItem, !.pc = "request"]
  <2>1. c \in CallRecords /\ c.pc = "request" /\ c.req = call[h].req /\ c.started = call[h].started
    BY CallTypes DEF CallRecords, Places
  <2>2. call' = [call EXCEPT ![h] = c]
    BY <1>3 DEF TokenInv, TypeOK
  <2> HIDE DEF c
  <2>3. Moves(h, c)
    BY <2>1, <2>2, ReplaceMoves
  <2>4. Keeps(h)
    BY <1>3, KeepsTenant DEF refreshAccessTokenAsync
  <2>5. CallOK(h)'
    BY <1>1, <2>1, <2>3, <2>4, CallTypes DEF CallOK, Moves, Keeps, MaintenanceCalls
  <2>. QED  BY <2>3, <2>4, <2>5, OneThreadMoves
<1>. QED  BY <1>2, <1>3 DEF refreshAccessTokenAsync
\* An exception: a call that was told about the cache tells it again, any other
\* has changed nothing.
LEMMA ThrowKeepsInv ==
  ASSUME TokenInv, NEW h \in Handlers, call[h].pc = "request", Throw(h),
         Keeps(h), changed' = changed
  PROVE  TokenInv'
<1>1. call[h].req \in Requests /\ (~call[h].req.load => ~changed[h])
  BY CallTypes DEF CallOK, MaintenanceCalls
<1>2. CASE call[h].req.load
  BY <1>1, <1>2, GotoPlain DEF Throw, Plain
<1>3. CASE ~call[h].req.load
  BY <1>1, <1>3, ReturnKeepsInv DEF Throw
<1>. QED  BY <1>2, <1>3

\* The token request itself.
LEMMA SendKeepsInv ==
  ASSUME TokenInv, NEW h \in Handlers, sendTokenRequestAsync(h)
  PROVE  TokenInv'
<1>1. call[h].pc = "request" /\ call[h].req \in Requests /\ changed' = changed
  BY CallTypes DEF sendTokenRequestAsync, At, CallOK, MaintenanceCalls
<1>2. CASE Throw(h) /\ UNCHANGED context
  <2>1. Keeps(h)
    BY <1>2, KeepsTenant DEF sendTokenRequestAsync
  <2>. QED  BY <1>1, <1>2, <2>1, ThrowKeepsInv
<1>3. ASSUME NEW u \in LoginUsers(h), NEW r \in PossibleReplies(h),
             updateTenantId(h, r.idToken),
             IF UserMismatch(h, parseTokenResponse(h, u, r)) THEN Throw(h)
             ELSE call' = [call EXCEPT ![h].result = parseTokenResponse(h, u, r), ![h].key = NoKey,
                             ![h].pc = IF call[h].req.load THEN "store" ELSE "beforeStore"]
      PROVE  TokenInv'
  <2> DEFINE res == parseTokenResponse(h, u, r)
             l   == IF call[h].req.load THEN "store" ELSE "beforeStore"
  <2>1. Keeps(h)
    BY <1>3, KeepsTenant DEF sendTokenRequestAsync
  <2>2. call[h].req \in AllRequests
    BY <1>1, AcquireConstants
  <2>3. /\ r \in Replies /\ u \in Users \cup {NoUser}
        /\ u = NoUser => ~r.idToken /\ ~r.refreshToken
    <3>1. CASE call[h].req.handler = "Interactive"
      BY <1>3, <3>1, CacheConstants DEF LoginUsers, PossibleReplies
    <3>2. CASE call[h].req.handler = "NonInteractive"
      BY <1>1, <1>3, <3>2, CacheConstants, AcquireConstants DEF LoginUsers, PossibleReplies
    <3>3. CASE call[h].req.handler = "ForClient"
      BY <1>3, <3>3 DEF LoginUsers, PossibleReplies
    <3>. QED  BY <2>2, <3>1, <3>2, <3>3 DEF AllRequests
  <2>4. Ready(h, res)
    BY <1>1, <2>3, ReplyReady
  <2>5. CASE UserMismatch(h, res)
    BY <1>1, <1>3, <2>1, <2>5, ThrowKeepsInv
  <2>6. CASE ~UserMismatch(h, res)
    <3>1. call' = [call EXCEPT ![h].result = res, ![h].key = NoKey, ![h].pc = l]
      BY <1>3, <2>6
    <3> HIDE DEF res
    <3>2. call' = [call EXCEPT ![h] = [call[h] EXCEPT !.result = res, !.key = NoKey, !.pc = l]]
      BY <3>1 DEF TokenInv, TypeOK
    <3>3. l \in {"store", "beforeStore"}
      OBVIOUS
    <3> HIDE DEF l
    <3>. QED  BY <1>1, <2>1, <2>4, <3>2, <3>3, ReadyKeepsInv
  <2>. QED  BY <2>5, <2>6
<1>. QED  BY <1>2, <1>3 DEF sendTokenRequestAsync

\* Storing the result, under the authority of the moment.
LEMMA StoreKeepsInv ==
  ASSUME TokenInv, NEW h \in Handlers, store(h)
  PROVE  TokenInv'
<1> DEFINE res == call[h].result
           d   == storeToCache(dict[h], authority[h], Resource(h), Subject(h), res)
<1>1. call[h].pc = "store" /\ call[h].req \in Requests /\ res # NoItem
      /\ WellFormed([authority |-> authority[h], resource |-> Resource(h),
                     user |-> res.user, subject |-> Subject(h)], res)
  BY CallTypes DEF store, At, CallOK, MaintenanceCalls
<1>2. res \in Items
  BY <1>1, CallTypes DEF CallRecords
<1>3. d \in Dictionaries /\ DictOK(d)
  BY <1>1, <1>2, CallTypes, RequestTypes, StoreOK
<1> HIDE DEF d
<1>4. Keeps(h)
  BY <1>3, KeepsDict DEF store, d
<1>5. "done" \in Places /\ Goto(h, "done") /\ now' = now /\ authority' = authority
  BY DEF Places, AfterAccess, store, context
<1>6. CallOK(h)'
  BY <1>1, <1>5, CallTypes, GotoFacts DEF CallOK, MaintenanceCalls
<1>. QED  BY <1>4, <1>5, <1>6, GotoFacts, OneThreadMoves

-----------------------------------------------------------------------------
(* The specification. *)

\* Time passes for everyone.
LEMMA TickKeepsInv == ASSUME TokenInv, Tick PROVE TokenInv'
<1>1. TypeOK' /\ AllItems(WellFormed)'
  BY DEF Tick, TokenInv, TypeOK, AllItems, context
<1>2. ASSUME NEW u \in Handlers PROVE CallOK(u)'
  <2>1. CallOK(u) /\ call[u].started \in Nat /\ now \in Nat /\ now' \in Nat /\ now <= now'
    BY CallTypes DEF Tick, TokenInv, TypeOK
  <2>. QED  BY <2>1, CallOKFrame DEF Tick, context
<1>. QED  BY <1>1, <1>2 DEF TokenInv

\* After a restart only the file is left.
LEMMA RestartKeepsInv == ASSUME TokenInv, Restart PROVE TokenInv'
<1>1. file' \in {file, EmptyFile} /\ now' = now /\ now \in Nat
  BY DEF Restart, TokenInv, TypeOK
<1>2. NoCall \in CallRecords
  BY DEF NoCall, CallRecords, Places
<1>3. TypeOK'
  BY <1>1, <1>2, NothingCachedOK, AcquireConstants DEF Restart, TokenInv, TypeOK
<1>4. \A u \in Handlers : DictOK(dict'[u])
  BY NothingCachedOK DEF Restart
<1>5. AllItems(WellFormed)'
  BY <1>1, <1>4, ItemsAreOK DEF TokenInv, AllItems, DictOK, FileOK
<1>6. ASSUME NEW u \in Handlers PROVE CallOK(u)'
  BY <1>1, ReturnOK DEF Restart
<1>. QED  BY <1>3, <1>5, <1>6 DEF TokenInv

\* Initially the caches are empty and the file is as an earlier process left it.
LEMMA TokenInvInit == Init => TokenInv
<1> SUFFICES ASSUME Init PROVE TokenInv
  OBVIOUS
<1>1. NoCall \in CallRecords
  BY DEF NoCall, CallRecords, Places
<1>2. TypeOK
  BY <1>1, NothingCachedOK, AcquireConstants DEF Init, TypeOK
<1>3. FileOK
  BY AcquireConstants DEF Init, FileOK, DictOK
<1>4. AllItems(WellFormed)
  BY <1>3, NothingCachedOK, ItemsAreOK DEF Init
<1>5. ASSUME NEW u \in Handlers PROVE CallOK(u)
  BY DEF Init, NoCall, CallOK
<1>. QED  BY <1>2, <1>4, <1>5 DEF TokenInv

\* One step of a call in progress.
LEMMA StepKeepsInv ==
  ASSUME TokenInv, NEW h \in Handlers, Step(h)
  PROVE  TokenInv'
BY PreRunKeepsInv, OnBeforeAccessKeepsInv, DeleteItemKeepsInv, ClearKeepsInv, TakeItemKeepsInv,
   LoadFromCacheKeepsInv, RefreshKeepsInv, SendKeepsInv, StoreKeepsInv, OnAfterAccessKeepsInv,
   RemoveFileKeepsInv DEF Step

\* TokenInv is inductive.
LEMMA TokenInvStep == TokenInv /\ [Next]_vars => TokenInv'
<1> SUFFICES ASSUME TokenInv, [Next]_vars PROVE TokenInv'
  OBVIOUS
<1>1. CASE UNCHANGED vars
  BY <1>1 DEF vars, context, TokenInv, TypeOK, AllItems, CallOK, uniqueId, Resource, Subject
<1>2. ASSUME NEW h \in Handlers, NEW q \in Requests, Acquire(h, q) PROVE TokenInv'
  BY <1>2, AcquireKeepsInv
<1>3. ASSUME NEW h \in Handlers, NEW op \in Maintenance, Maintain(h, op) PROVE TokenInv'
  BY <1>3, MaintainKeepsInv
<1>4. ASSUME NEW h \in Handlers, Step(h) PROVE TokenInv'
  BY <1>4, StepKeepsInv
<1>. QED  BY <1>1, <1>2, <1>3, <1>4, TickKeepsInv, RestartKeepsInv DEF Next

\* For any threads, users, resources, replies, clocks and restarts, TokenInv
\* holds for ever.
THEOREM TokenInvHolds == Spec => []TokenInv
BY TokenInvInit, TokenInvStep, PTL DEF Spec

\* Every access token runAsync hands out is for the requested resource, was not
\* near its expiry when the call began and, taken from the cache for a unique
\* id, is that user's, however loadSingleItemFromCache picked its item.
THEOREM TokensServeRequests == Spec => []TokenServesRequest
<1>1. TokenInv => TokenServesRequest
  <2> SUFFICES ASSUME TokenInv, NEW h \in Handlers, At(h, "done")
               PROVE  LET res == call[h].result
                      IN  /\ res # NoItem /\ res.access # Empty
                          /\ res.access.resource = Resource(h)
                          /\ res.expires > call[h].started + Margin
                          /\ (call[h].key # NoKey /\ uniqueId(h) # NoUser)
                               => res.access.user = uniqueId(h)
    BY DEF TokenServesRequest
  <2>. QED  BY CallTypes DEF CallOK, At, WellFormed, Belongs
<1>. QED  BY TokenInvHolds, <1>1, PTL

\* Every item of every cache and of the file is under the key of its resource
\* and user.
THEOREM ItemsStayWithKeys == Spec => []ItemsBelongToKeys
<1>1. TokenInv => ItemsBelongToKeys
  BY DEF TokenInv, AllItems, ItemsBelongToKeys, WellFormed
<1>. QED  BY TokenInvHolds, <1>1, PTL

\* No item without any token is left behind.
THEOREM DeadItemsAreRemoved == Spec => []NoDeadItems
<1>1. TokenInv => NoDeadItems
  BY DEF TokenInv, AllItems, NoDeadItems, NotDead, WellFormed
<1>. QED  BY TokenInvHolds, <1>1, PTL

\* No call ends, by an exception either, with a change the file was not offered.
THEOREM ChangesReachFile == Spec => []ChangesAreSaved
<1>1. TokenInv => ChangesAreSaved
  BY CallTypes DEF ChangesAreSaved, At, CallOK
<1>. QED  BY TokenInvHolds, <1>1, PTL
=============================================================================
