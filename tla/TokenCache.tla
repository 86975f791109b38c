----------------------------- MODULE TokenCache -----------------------------
(***************************************************************************)
(* The dictionary of a rmsauth TokenCache and the operations on it.  A     *)
(* dictionary maps every possible TokenCacheKey to the AuthenticationResult *)
(* stored under it, or to NoItem.  There is one client id; strings that    *)
(* differ only in case are the same value.                                 *)
(***************************************************************************)
EXTENDS Integers, FiniteSets

CONSTANTS Authorities, Resources, Users,
          NoUser,   \* the empty unique id, also: no user information
          NoItem,   \* nothing is stored under the key
          NoKey,    \* loadSingleItemFromCache returned nullptr
          Empty,    \* the empty token
          Margin,   \* expirationMarginInSeconds_
          IntLimit  \* 2^31: an int is at least -IntLimit and less than IntLimit

ASSUME CacheConstants ==
  /\ Margin \in Nat
  /\ IntLimit \in Nat \ {0}
  /\ NoUser \notin Users
  /\ Empty \notin Users

\* TokenSubjectType
Subjects == {"User", "Client"}

Keys == [authority : Authorities, resource : Resources,
         user : Users \cup {NoUser}, subject : Subjects]

\* An access token is what it is good for, a refresh token is whose it is.
AccessTokens  == [resource : Resources, user : Users \cup {NoUser}]
RefreshTokens == Users

Items == [access  : AccessTokens \cup {Empty},
          refresh : RefreshTokens \cup {Empty},
          mrrt    : BOOLEAN,                 \* isMultipleResourceRefreshToken
          user    : Users \cup {NoUser},     \* userInfo()->uniqueId()
          expires : Int]                     \* expiresOn

Dictionaries == [Keys -> Items \cup {NoItem}]

NothingCached == [k \in Keys |-> NoItem]

-----------------------------------------------------------------------------

\* Mutation of queryCache: every user's items.
queryCacheAnyUser(d, authority, subject, uniqueId) ==
  {k \in Keys : /\ d[k] # NoItem
                /\ k.authority = authority
                /\ k.subject = subject}

\* The items for an authority, a subject type and, unless it is empty, a user.
queryCache(d, authority, subject, uniqueId) ==
  {k \in Keys : /\ d[k] # NoItem
                /\ k.authority = authority
                /\ k.subject = subject
                /\ uniqueId = NoUser \/ k.user = uniqueId}

\* Those of them for the resource.
Matching(d, authority, resource, subject, uniqueId) ==
  {k \in queryCache(d, authority, subject, uniqueId) : k.resource = resource}

\* The keys loadSingleItemFromCache may pick.  When one item matches the
\* resource, the first item of the query is returned, whichever the hash map
\* delivers first; when several match, an exception is constructed, not thrown,
\* and nothing is returned.
loadSingleItemFromCache(d, authority, resource, subject, uniqueId) ==
  LET query == queryCache(d, authority, subject, uniqueId)
      qnty  == Cardinality(Matching(d, authority, resource, subject, uniqueId))
      mrrt  == {k \in query : d[k].mrrt}
  IN  CASE qnty = 1                -> query
        [] qnty = 0 /\ mrrt # {}   -> mrrt
        [] OTHER                   -> {NoKey}

tokenNearExpiry(item, now) == item.expires <= now + Margin

\* Mutation of Usable: the resource of the item is not looked at.
UsableAnyResource(d, key, resource, now) ==
  IF tokenNearExpiry(d[key], now) THEN [d[key] EXCEPT !.access = Empty] ELSE d[key]

\* loadFromCache empties the access token it must not hand out, in the item
\* that stays in the dictionary.
Usable(d, key, resource, now) ==
  IF tokenNearExpiry(d[key], now) \/ key.resource # resource
    THEN [d[key] EXCEPT !.access = Empty] ELSE d[key]

Dead(item) == item.access = Empty /\ item.refresh = Empty

\* Mutation of afterLoad: an item without any token stays.
afterLoadKeepsDead(d, key, resource, now) == [d EXCEPT ![key] = Usable(d, key, resource, now)]

\* The dictionary after loadFromCache has looked at the item under key.
afterLoad(d, key, resource, now) ==
  LET item == Usable(d, key, resource, now)
  IN  [d EXCEPT ![key] = IF Dead(item) THEN NoItem ELSE item]

\* A new refresh token for several resources replaces the user's older ones.
updateCachedMrrtRefreshTokens(d, authority, subject, result) ==
  LET renewed == {k \in queryCache(d, authority, subject, result.user) : d[k].mrrt}
  IN  IF result.user # NoUser /\ result.mrrt
        THEN [k \in Keys |-> IF k \in renewed THEN [d[k] EXCEPT !.refresh = result.refresh]
                                              ELSE d[k]]
        ELSE d

storeToCache(d, authority, resource, subject, result) ==
  LET key == [authority |-> authority, resource |-> resource,
              user |-> result.user, subject |-> subject]
  IN  updateCachedMrrtRefreshTokens([d EXCEPT ![key] = result], authority, subject, result)

\* serialize: expiresOn_, a 64-bit time, is written as an int.
AsInt(time) == ((time + IntLimit) % (2 * IntLimit)) - IntLimit

serialize(d) ==
  [k \in Keys |-> IF d[k] = NoItem THEN NoItem ELSE [d[k] EXCEPT !.expires = AsInt(@)]]

\* deserialize: items of the file are inserted where the dictionary has none.
deserialize(d, items) == [k \in Keys |-> IF d[k] = NoItem THEN items[k] ELSE d[k]]

=============================================================================
