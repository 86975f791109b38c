------------------------- MODULE AcquisitionProofs -------------------------
(***************************************************************************)
(* The safety properties of Acquisition, for any threads, users, tenants,  *)
(* licenses, requests and size of the memory cache.                        *)
(*                                                                         *)
(* None of them is inductive.  PolicyWasGranted needs to know what every   *)
(* policy in memory and every policy on its way there was granted for      *)
(* (PoliciesRight, PolicyRight); PublishesAtHome, that the static map only *)
(* knows users by their own tenant (UrlMapRight) and that the tenant of a  *)
(* call is right from the discovery on (TenantRight); ContactsAgreed and   *)
(* ServiceConsentRemembered, how the files and the caches of the consents  *)
(* relate to what was agreed to (Agreements) and which calls may ask       *)
(* (ConsentRight).  The invariant of the response cache is carried along   *)
(* by its own proofs: every step here is a step of it or leaves it alone.  *)
(*                                                                         *)
(* Every action but Restart moves one thread: Moved says what is to be     *)
(* shown of such a step, the other calls being right as before.            *)
(***************************************************************************)
EXTENDS Acquisition, ResponseCacheProofs, WellFoundedInduction

USE AcquisitionConstants

\* The files hold exactly what was agreed to; the caches hold nothing else, and,
\* once loaded, all service consents.
Agreements ==
  /\ serviceFile = agreed.service /\ docFile = agreed.document
  /\ serviceCache \subseteq agreed.service \cup agreed.document
  /\ docCache \subseteq agreed.document
  /\ loaded => agreed.service \subseteq serviceCache

\* The static map knows users by the tenant of their own email.
UrlMapRight ==
  \A u \in Users : urlMap[u] # Unknown => u # Anyone /\ urlMap[u] = Home[u]

GrantedTo(user, license) ==
  \E g \in granted : g[2] = license /\ (user # Anyone => g[1] = user)

\* The policies in memory that grant access were granted to their requester.
PoliciesRight ==
  \A i \in DOMAIN policies :
    policies[i].access = "granted" => GrantedTo(policies[i].requester, policies[i].license)

\* From the discovery on, the tenant of a call is that of its license or email, or, for
\* an acquisition, the one the static map has for the user.
TenantRight(t) ==
  call[t].pc \in {"discover", "consent", "ask", "discovery", "challenge", "post"} =>
    LET r == Req(t)
    IN  \/ call[t].tenant = TenantFor(r)
        \/ /\ r.kind = "acquire" /\ urlMap[r.user] # Unknown
           /\ call[t].tenant = Home[r.user]

\* Only those calls ask for consent that have to, and they ask for something; past
\* that place the consent has been given.
ConsentRight(t) ==
  /\ call[t].pc \in {"consent", "ask"} => AsksConsent(Req(t)) /\ call[t].checked \in Urls
  /\ At(t, "ask") => call[t].asks \in {"service", "document"}
  /\ Contacting(t) /\ AsksConsent(Req(t)) =>
       call[t].answered \/ AgreedTo(Req(t).user, call[t].checked)

\* The policy a call has got is for its license and was granted to its user; until it
\* is in memory, it is the one the service has answered with.
PolicyRight(t) ==
  /\ call[t].pc \in {"store", "add"} =>
       call[t].policy = Policy(Req(t), call[t].policy.access)
  /\ call[t].pc \in {"store", "add", "done"} =>
       /\ call[t].policy.license = Req(t).license
       /\ call[t].policy.access = "granted" => GrantedTo(Req(t).user, Req(t).license)

CallRight(t) == TenantRight(t) /\ ConsentRight(t) /\ PolicyRight(t)

AcquisitionInv ==
  /\ TypeOK /\ CacheInv /\ Agreements /\ UrlMapRight /\ PoliciesRight
  /\ \A t \in Threads : CallRight(t)

-----------------------------------------------------------------------------
(* The response cache inside *)

\* A step of an acquisition is a step of the response cache, or leaves it alone.
LEMMA StepIsCacheStep == [Next]_vars => [CacheNext]_cacheVars
<1> SUFFICES ASSUME [Next]_vars PROVE [CacheNext]_cacheVars
  OBVIOUS
<1>1. ASSUME NEW t \in Threads, Step(t) PROVE [CacheNext]_cacheVars
  <2>1. CASE Post(t)
    BY <1>1, <2>1 DEF Post, CacheNext
  <2>2. CASE StoreOnDisk(t)
    BY <1>1, <2>2 DEF StoreOnDisk, CacheNext
  <2>3. CASE FoundInMemory(t) \/ NotInMemory(t) \/ LookUpOnDisk(t) \/ FindUrl(t)
             \/ FindDiscoveryUrl(t) \/ Discover(t)
    BY <2>3 DEF FoundInMemory, NotInMemory, LookUpOnDisk, FindUrl, FindDiscoveryUrl, Discover
  <2>4. CASE LookAtConsent(t) \/ AnswerConsent(t) \/ Authenticate(t) \/ AddToMemory(t) \/ Return(t)
    BY <2>4 DEF LookAtConsent, AnswerConsent, Authenticate, AddToMemory, Return
  <2> QED BY <1>1, <2>1, <2>2, <2>3, <2>4 DEF Step
<1>2. ASSUME NEW t \in Threads, NEW r \in Requests, Begin(t, r) PROVE [CacheNext]_cacheVars
  BY <1>2 DEF Begin
<1>3. CASE Restart
  BY <1>3 DEF Restart, CacheNext
<1>4. CASE UNCHANGED vars
  BY <1>4 DEF vars
<1> QED BY <1>1, <1>2, <1>3, <1>4 DEF Next

-----------------------------------------------------------------------------
(* One thread moves *)

Running == {"memory", "disk", "urls", "discover", "consent", "ask", "discovery", "challenge",
            "post"}

\* What a call holds, by where it is.
LEMMA CallShape ==
  ASSUME TypeOK, NEW t \in Threads
  PROVE  /\ call[t].pc \in Running => call[t] \in RunningCalls
         /\ call[t].pc \in {"store", "add", "done"} => call[t] \in AnsweredCalls
         /\ call[t].pc \in Running \cup {"idle", "store", "add", "done"}
         /\ at[t] # "out" <=> call[t].pc = "store"
  BY DEF TypeOK, Calls, RunningCalls, AnsweredCalls, Idle, Running, At

LEMMA RequestShape ==
  ASSUME NEW r \in Requests
  PROVE  /\ r.kind \in {"acquire", "custom", "template"}
         /\ r.user \in Users /\ r.license \in Licenses
         /\ r.kind # "acquire" => r.user # Anyone
         /\ TenantFor(r) \in Tenants
<1>1. /\ r.kind \in {"acquire", "custom", "template"}
      /\ r.user \in Users /\ r.license \in Licenses
      /\ r.kind # "acquire" => r.user # Anyone
      /\ TenantOf \in [Licenses -> Tenants] /\ Home \in [Users \ {Anyone} -> Tenants]
  BY AcquisitionConstants
<1>2. TenantFor(r) \in Tenants
  BY <1>1 DEF TenantFor
<1> QED BY <1>1, <1>2

\* What the others do to a call that does not move: nothing that matters.
LEMMA OthersRight ==
  ASSUME AcquisitionInv, NEW t \in Threads, NEW u \in Threads, call'[u] = call[u],
         agreed.service \subseteq agreed'.service, agreed.document \subseteq agreed'.document,
         granted \subseteq granted',
         \A v \in Users : urlMap[v] # Unknown => urlMap'[v] = urlMap[v]
  PROVE  CallRight(u)'
<1>0. CallRight(u) /\ TypeOK
  BY DEF AcquisitionInv
<1>1. TenantRight(u)'
  <2> SUFFICES ASSUME call[u].pc \in {"discover", "consent", "ask", "discovery", "challenge", "post"}
               PROVE  LET r == Req(u)
                      IN  \/ call[u].tenant = TenantFor(r)
                          \/ /\ r.kind = "acquire" /\ urlMap'[r.user] # Unknown
                             /\ call[u].tenant = Home[r.user]
    BY DEF TenantRight, Req
  <2>1. Req(u).user \in Users
    BY <1>0, CallShape, RequestShape DEF Running, RunningCalls, Req
  <2> QED BY <1>0, <2>1 DEF CallRight, TenantRight, Req
<1>2. ConsentRight(u)'
  <2>1. ASSUME NEW user, NEW name, AgreedTo(user, name) PROVE AgreedTo(user, name)'
    BY <2>1 DEF AgreedTo
  <2> QED BY <1>0, <2>1 DEF CallRight, ConsentRight, Req, At, Contacting
<1>3. PolicyRight(u)'
  <2>1. ASSUME NEW user, NEW license, GrantedTo(user, license) PROVE GrantedTo(user, license)'
    BY <2>1 DEF GrantedTo
  <2> QED BY <1>0, <2>1 DEF CallRight, PolicyRight, Req, Policy
<1> QED BY <1>1, <1>2, <1>3 DEF CallRight

\* A thread moves on to c, and what it leaves behind is right.
LEMMA Moved ==
  ASSUME AcquisitionInv, [Next]_vars, NEW t \in Threads, NEW c \in Calls,
         call' = [call EXCEPT ![t] = c], CallRight(t)',
         at' \in [Threads -> Places], at'[t] # "out" <=> c.pc = "store",
         \A u \in Threads \ {t} : at'[u] = at[u],
         policies' \in Seq(Policies), Len(policies') <= MaxPolicies, PoliciesRight',
         urlMap' \in [Users -> Tenants \cup {Unknown}], UrlMapRight',
         \A v \in Users : urlMap[v] # Unknown => urlMap'[v] = urlMap[v],
         ConsentTypeOK', Agreements',
         agreed.service \subseteq agreed'.service, agreed.document \subseteq agreed'.document,
         granted \subseteq granted', granted' \subseteq Users \X Licenses,
         todo' \subseteq Requests
  PROVE  AcquisitionInv'
<1>1. CacheInv'
  BY StepIsCacheStep, CacheNextInv DEF AcquisitionInv
<1>2. call \in [Threads -> Calls]
  BY DEF AcquisitionInv, TypeOK
<1>3. call' \in [Threads -> Calls] /\ call'[t] = c /\ \A u \in Threads \ {t} : call'[u] = call[u]
  BY <1>2
<1>4. \A u \in Threads : at'[u] # "out" <=> call'[u].pc = "store"
  BY <1>3, CallShape DEF AcquisitionInv
<1>5. TypeOK'
  BY <1>1, <1>3, <1>4 DEF TypeOK, CacheInv, At
<1>6. \A u \in Threads : CallRight(u)'
  BY <1>3, OthersRight
<1> QED BY <1>1, <1>5, <1>6 DEF AcquisitionInv

\* ... and changes nothing but its call and the requests to come.
LEMMA OnlyMoved ==
  ASSUME AcquisitionInv, [Next]_vars, NEW t \in Threads, NEW c \in Calls,
         call' = [call EXCEPT ![t] = c], CallRight(t)', c.pc # "store", ~At(t, "store"),
         UNCHANGED <<cacheVars, consentVars, policies, urlMap, granted>>, todo' \subseteq Requests
  PROVE  AcquisitionInv'
<1>1. /\ TypeOK /\ ConsentTypeOK /\ Agreements /\ UrlMapRight /\ PoliciesRight
      /\ CacheTypeOK /\ at[t] = "out"
  BY CallShape DEF AcquisitionInv, TypeOK, At
<1>2. ConsentTypeOK' /\ Agreements'
  BY <1>1 DEF consentVars, ConsentTypeOK, Agreements
<1>3. UrlMapRight' /\ PoliciesRight'
  BY <1>1 DEF UrlMapRight, PoliciesRight, GrantedTo
<1>4. /\ at' \in [Threads -> Places] /\ at'[t] = "out" /\ \A u \in Threads \ {t} : at'[u] = at[u]
      /\ agreed' = agreed
  BY <1>1 DEF cacheVars, consentVars, CacheTypeOK
<1>5. /\ policies' \in Seq(Policies) /\ Len(policies') <= MaxPolicies
      /\ urlMap' \in [Users -> Tenants \cup {Unknown}]
      /\ \A v \in Users : urlMap[v] # Unknown => urlMap'[v] = urlMap[v]
      /\ granted \subseteq granted' /\ granted' \subseteq Users \X Licenses
  BY <1>1 DEF TypeOK
<1> QED BY <1>2, <1>3, <1>4, <1>5, Moved

\* An exception ends the call.
LEMMA Thrown ==
  ASSUME NEW t \in Threads, TypeOK, Throw(t)
  PROVE  /\ Idle \in Calls /\ call' = [call EXCEPT ![t] = Idle]
         /\ Idle.pc = "idle" /\ CallRight(t)'
<1>1. call' = [call EXCEPT ![t] = Idle] /\ Idle \in Calls /\ Idle.pc = "idle"
  BY DEF Throw, Calls, Idle
<1>2. call'[t].pc = "idle"
  BY <1>1 DEF TypeOK
<1>3. CallRight(t)'
  BY <1>2 DEF CallRight, TenantRight, ConsentRight, PolicyRight, At, Contacting
<1> QED BY <1>1, <1>3

-----------------------------------------------------------------------------
(* The actions *)

LEMMA BeginInv ==
  ASSUME AcquisitionInv, [Next]_vars, NEW t \in Threads, NEW r \in Requests, Begin(t, r)
  PROVE  AcquisitionInv'
<1> DEFINE c == Call(IF r.kind = "acquire" THEN "memory" ELSE "urls", r)
<1>1. c \in RunningCalls /\ c.pc \in {"memory", "urls"}
  BY DEF Call, RunningCalls
<1>2. c \in Calls /\ call' = [call EXCEPT ![t] = c] /\ call \in [Threads -> Calls]
  BY <1>1 DEF Begin, Calls, AcquisitionInv, TypeOK
<1> HIDE DEF c
<1>3. CallRight(t)'
  BY <1>1, <1>2 DEF CallRight, TenantRight, ConsentRight, PolicyRight, At, Contacting
<1>4. ~At(t, "store") /\ todo' \subseteq Requests
  BY DEF Begin, At, AcquisitionInv, TypeOK
<1>5. UNCHANGED <<cacheVars, consentVars, policies, urlMap, granted>>
  BY DEF Begin
<1> QED BY <1>1, <1>2, <1>3, <1>4, <1>5, OnlyMoved

\* A call that throws and changes nothing else.
LEMMA ThrowInv ==
  ASSUME AcquisitionInv, [Next]_vars, NEW t \in Threads, Throw(t), ~At(t, "store"),
         UNCHANGED <<cacheVars, consentVars, policies, urlMap, todo, granted>>
  PROVE  AcquisitionInv'
<1>1. TypeOK /\ todo' \subseteq Requests
  BY DEF AcquisitionInv, TypeOK
<1> QED BY <1>1, Thrown, OnlyMoved

\* A call that goes on to a place where nothing is asked of it yet.
LEMMA GotoInv ==
  ASSUME AcquisitionInv, [Next]_vars, NEW t \in Threads, NEW pc \in {"disk", "urls"},
         Goto(t, pc), call[t].pc \in Running,
         UNCHANGED <<cacheVars, consentVars, policies, urlMap, todo, granted>>
  PROVE  AcquisitionInv'
<1> DEFINE c == [call[t] EXCEPT !.pc = pc]
<1>1. call[t] \in RunningCalls /\ call \in [Threads -> Calls] /\ ~At(t, "store")
      /\ todo' \subseteq Requests
  BY CallShape DEF AcquisitionInv, TypeOK, Running, At
<1>2. c \in RunningCalls /\ c.pc = pc
  BY <1>1 DEF RunningCalls
<1>3. call' = [call EXCEPT ![t] = c]
  BY <1>1 DEF Goto
<1> HIDE DEF c
<1>4. CallRight(t)'
  BY <1>1, <1>2, <1>3 DEF CallRight, TenantRight, ConsentRight, PolicyRight, At, Contacting
<1>5. c \in Calls /\ c.pc # "store"
  BY <1>2 DEF Calls
<1> QED BY <1>1, <1>3, <1>4, <1>5, OnlyMoved

LEMMA NotInMemoryInv ==
  ASSUME AcquisitionInv, [Next]_vars, NEW t \in Threads, NotInMemory(t)
  PROVE  AcquisitionInv'
<1>1. /\ Throw(t) \/ Goto(t, "urls") \/ Goto(t, "disk")
      /\ call[t].pc \in Running /\ ~At(t, "store")
      /\ UNCHANGED <<cacheVars, consentVars, policies, urlMap, todo, granted>>
  BY DEF NotInMemory, GoOnline, Running, At
<1> QED BY <1>1, ThrowInv, GotoInv

LEMMA LookUpOnDiskInv ==
  ASSUME AcquisitionInv, [Next]_vars, NEW t \in Threads, LookUpOnDisk(t)
  PROVE  AcquisitionInv'
<1>1. /\ Throw(t) \/ Goto(t, "urls")
      /\ call[t].pc \in Running /\ ~At(t, "store")
      /\ UNCHANGED <<cacheVars, consentVars, policies, urlMap, todo, granted>>
  BY DEF LookUpOnDisk, GoOnline, Running, At
<1> QED BY <1>1, ThrowInv, GotoInv

LEMMA ReturnInv ==
  ASSUME AcquisitionInv, [Next]_vars, NEW t \in Threads, Return(t)
  PROVE  AcquisitionInv'
<1>1. /\ Throw(t) /\ ~At(t, "store")
      /\ UNCHANGED <<cacheVars, consentVars, policies, urlMap, todo, granted>>
  BY DEF Return, Throw, At
<1> QED BY <1>1, ThrowInv

LEMMA FindUrlInv ==
  ASSUME AcquisitionInv, [Next]_vars, NEW t \in Threads, FindUrl(t)
  PROVE  AcquisitionInv'
<1> DEFINE r == Req(t)
           home == urlMap[r.user]
           pc1 == IF AsksConsent(r) THEN "consent" ELSE "challenge"
           url1 == IF AsksConsent(r) THEN EndUserLicensesUrl(home) ELSE <<>>
           c == IF home = Unknown
                  THEN [call[t] EXCEPT !.pc = "discover", !.tenant = TenantFor(r)]
                  ELSE [call[t] EXCEPT !.pc = pc1, !.tenant = home, !.checked = url1]
<1>1. /\ call[t] \in RunningCalls /\ call \in [Threads -> Calls] /\ ~At(t, "store")
      /\ todo' \subseteq Requests /\ TypeOK /\ UrlMapRight
  BY CallShape DEF AcquisitionInv, TypeOK, Running, At, FindUrl
<1>2. r \in Requests /\ r.user \in Users /\ TenantFor(r) \in Tenants
  BY <1>1, RequestShape DEF RunningCalls, Req
<1>3. call' = [call EXCEPT ![t] = c]
  BY DEF FindUrl, r, home
<1>4. UNCHANGED <<cacheVars, consentVars, policies, urlMap, granted>>
  BY DEF FindUrl
<1>5. CASE home = Unknown
  <2> DEFINE d == [call[t] EXCEPT !.pc = "discover", !.tenant = TenantFor(r)]
  <2>1. d \in RunningCalls /\ d.pc = "discover" /\ d.tenant = TenantFor(r) /\ d.req = r
    BY <1>1, <1>2 DEF RunningCalls, Req
  <2>2. call' = [call EXCEPT ![t] = d]
    BY <1>3, <1>5
  <2> HIDE DEF d, r, c
  <2>3. CallRight(t)'
    BY <1>1, <2>1, <2>2 DEF CallRight, TenantRight, ConsentRight, PolicyRight, At, Contacting, Req, TenantFor
  <2>4. d \in Calls
    BY <2>1 DEF Calls
  <2> QED BY <1>1, <1>4, <2>1, <2>2, <2>3, <2>4, OnlyMoved
<1>6. CASE home # Unknown
  <2> DEFINE d == [call[t] EXCEPT !.pc = pc1, !.tenant = home, !.checked = url1]
  <2>1. home \in Tenants /\ home = Home[r.user] /\ r.user # Anyone
    BY <1>1, <1>2, <1>6 DEF TypeOK, UrlMapRight
  <2>2. url1 \in Urls \cup {<<>>} /\ (AsksConsent(r) => url1 \in Urls)
    BY <2>1 DEF Urls
  <2>3. /\ d \in RunningCalls /\ d.pc = pc1 /\ d.tenant = home /\ d.checked = url1
        /\ d.req = r
    <3> HIDE DEF home, url1
    <3> QED BY <1>1, <2>1, <2>2 DEF RunningCalls, Req
  <2>4. call' = [call EXCEPT ![t] = d]
    BY <1>3, <1>6
  <2> HIDE DEF d, r, c
  <2>5. TenantRight(t)'
    BY <1>1, <1>2, <1>4, <1>6, <2>1, <2>3, <2>4 DEF TenantRight, Req, TenantFor
  <2>6. ConsentRight(t)'
    BY <1>1, <2>2, <2>3, <2>4 DEF ConsentRight, At, Contacting, Req, AsksConsent
  <2>7. PolicyRight(t)'
    BY <1>1, <2>3, <2>4 DEF PolicyRight
  <2>8. d \in Calls /\ d.pc # "store"
    BY <2>3 DEF Calls
  <2> QED BY <1>1, <1>4, <2>4, <2>5, <2>6, <2>7, <2>8, OnlyMoved DEF CallRight
<1> QED BY <1>5, <1>6

\* A call past the discovery goes to a tenant that exists.
LEMMA TenantType ==
  ASSUME AcquisitionInv, NEW t \in Threads,
         call[t].pc \in {"discover", "consent", "ask", "discovery", "challenge", "post"}
  PROVE  /\ call[t] \in RunningCalls /\ Req(t) \in Requests /\ Req(t).user \in Users
         /\ call[t].tenant \in Tenants
         /\ call \in [Threads -> Calls] /\ ~At(t, "store")
<1>1. call[t] \in RunningCalls /\ TypeOK /\ UrlMapRight /\ TenantRight(t)
  BY CallShape DEF AcquisitionInv, CallRight, Running
<1>2. Req(t) \in Requests /\ Req(t).user \in Users /\ TenantFor(Req(t)) \in Tenants
  BY <1>1, RequestShape DEF RunningCalls, Req
<1>3. urlMap[Req(t).user] # Unknown => Home[Req(t).user] \in Tenants
  BY <1>1, <1>2 DEF UrlMapRight, TypeOK
<1>4. call[t].tenant \in Tenants
  BY <1>1, <1>2, <1>3 DEF TenantRight
<1> QED BY <1>1, <1>2, <1>4 DEF TypeOK, At

LEMMA FindDiscoveryUrlInv ==
  ASSUME AcquisitionInv, [Next]_vars, NEW t \in Threads, FindDiscoveryUrl(t)
  PROVE  AcquisitionInv'
<1>1. At(t, "discover") /\ UNCHANGED <<cacheVars, consentVars, policies, urlMap, todo, granted>>
  BY DEF FindDiscoveryUrl
<1>2. /\ call[t] \in RunningCalls /\ Req(t) \in Requests /\ call[t].tenant \in Tenants
      /\ call \in [Threads -> Calls] /\ ~At(t, "store") /\ todo' \subseteq Requests
      /\ TenantRight(t)
  BY <1>1, TenantType DEF At, AcquisitionInv, TypeOK, CallRight
<1>3. ASSUME NEW of \in {call[t].tenant, Cloud},
             call' = [call EXCEPT
               ![t].pc = IF AsksConsent(Req(t)) THEN "consent" ELSE "discovery",
               ![t].checked = IF AsksConsent(Req(t)) THEN DiscoveryUrl(of) ELSE <<>>]
      PROVE  AcquisitionInv'
  <2> DEFINE pc1 == IF AsksConsent(Req(t)) THEN "consent" ELSE "discovery"
             url1 == IF AsksConsent(Req(t)) THEN DiscoveryUrl(of) ELSE <<>>
             c == [call[t] EXCEPT !.pc = pc1, !.checked = url1]
  <2>1. url1 \in Urls \cup {<<>>} /\ (AsksConsent(Req(t)) => url1 \in Urls)
    BY <1>2 DEF Urls
  <2>2. call' = [call EXCEPT ![t] = c]
    BY <1>2, <1>3
  <2>3. pc1 \in {"consent", "discovery"} /\ (AsksConsent(Req(t)) <=> pc1 = "consent")
    OBVIOUS
  <2>4. /\ c \in RunningCalls /\ c.pc = pc1 /\ c.checked = url1 /\ c.tenant = call[t].tenant
        /\ c.req = Req(t)
    <3> HIDE DEF pc1, url1
    <3> QED BY <1>2, <2>1, <2>3 DEF RunningCalls, Req
  <2> HIDE DEF c, pc1, url1
  <2>5. TenantRight(t)'
    BY <1>1, <1>2, <2>2, <2>4 DEF TenantRight, Req, At, TenantFor
  <2>6. ConsentRight(t)'
    BY <1>2, <2>1, <2>2, <2>3, <2>4 DEF ConsentRight, At, Contacting, Req, AsksConsent
  <2>7. PolicyRight(t)'
    BY <1>2, <2>2, <2>3, <2>4 DEF PolicyRight
  <2>8. c \in Calls /\ c.pc # "store"
    BY <2>3, <2>4 DEF Calls
  <2> QED BY <1>1, <1>2, <2>2, <2>5, <2>6, <2>7, <2>8, OnlyMoved DEF CallRight
<1>4. Throw(t) \/ \E of \in {call[t].tenant, Cloud} :
             call' = [call EXCEPT
               ![t].pc = IF AsksConsent(Req(t)) THEN "consent" ELSE "discovery",
               ![t].checked = IF AsksConsent(Req(t)) THEN DiscoveryUrl(of) ELSE <<>>]
  BY DEF FindDiscoveryUrl
<1> QED BY <1>1, <1>2, <1>3, <1>4, ThrowInv

\* A call that goes on to the next server with the consent it has.
LEMMA ContactNext ==
  ASSUME AcquisitionInv, NEW t \in Threads, Contacting(t), NEW pc \in {"challenge", "post"},
         Goto(t, pc), UNCHANGED <<consentVars, granted>>,
         \A v \in Users : urlMap[v] # Unknown => urlMap'[v] = urlMap[v]
  PROVE  LET c == [call[t] EXCEPT !.pc = pc]
         IN  /\ c \in Calls /\ c.pc = pc /\ call' = [call EXCEPT ![t] = c] /\ CallRight(t)'
<1> DEFINE c == [call[t] EXCEPT !.pc = pc]
<1>1. /\ call[t] \in RunningCalls /\ Req(t) \in Requests /\ Req(t).user \in Users
      /\ call \in [Threads -> Calls]
      /\ TenantRight(t) /\ ConsentRight(t)
  BY TenantType DEF Contacting, AcquisitionInv, CallRight
<1>2. /\ c \in RunningCalls /\ c.pc = pc /\ c.checked = call[t].checked
      /\ c.tenant = call[t].tenant /\ c.req = Req(t) /\ c.answered = call[t].answered
  BY <1>1 DEF RunningCalls, Req
<1>3. call' = [call EXCEPT ![t] = c]
  BY <1>1 DEF Goto
<1> HIDE DEF c
<1>4. TenantRight(t)'
  BY <1>1, <1>2, <1>3 DEF TenantRight, Req, Contacting, TenantFor
<1>5. agreed' = agreed
  BY DEF consentVars
<1>6. ConsentRight(t)'
  BY <1>1, <1>2, <1>3, <1>5 DEF ConsentRight, At, Contacting, Req, AsksConsent, AgreedTo
<1>7. PolicyRight(t)'
  BY <1>1, <1>2, <1>3 DEF PolicyRight
<1>8. c \in Calls
  BY <1>2 DEF Calls
<1> QED BY <1>2, <1>3, <1>4, <1>6, <1>7, <1>8 DEF CallRight, c

LEMMA AuthenticateInv ==
  ASSUME AcquisitionInv, [Next]_vars, NEW t \in Threads, Authenticate(t)
  PROVE  AcquisitionInv'
<1>1. /\ Throw(t) \/ Goto(t, "post")
      /\ Contacting(t) /\ ~At(t, "store")
      /\ UNCHANGED <<cacheVars, consentVars, policies, urlMap, todo, granted>>
  BY DEF Authenticate, At, Contacting
<1>2. CASE Goto(t, "post")
  BY <1>1, <1>2, ContactNext, OnlyMoved DEF AcquisitionInv, TypeOK
<1> QED BY <1>1, <1>2, ThrowInv

LEMMA DiscoverInv ==
  ASSUME AcquisitionInv, [Next]_vars, NEW t \in Threads, Discover(t)
  PROVE  AcquisitionInv'
<1> DEFINE r == Req(t)
<1>1. /\ At(t, "discovery") /\ Contacting(t) /\ ~At(t, "store")
      /\ UNCHANGED <<cacheVars, consentVars, policies, todo, granted>>
  BY DEF Discover, At, Contacting
<1>2. /\ r \in Requests /\ r.user \in Users /\ call[t].tenant \in Tenants
      /\ TypeOK /\ UrlMapRight /\ TenantRight(t) /\ Agreements /\ PoliciesRight
      /\ r.kind # "acquire" => r.user # Anyone
      /\ at[t] = "out"
  BY <1>1, TenantType, RequestShape, CallShape DEF At, AcquisitionInv, CallRight
<1>3. CASE Throw(t) /\ UNCHANGED urlMap
  BY <1>1, <1>3, ThrowInv
<1>4. CASE /\ Goto(t, "challenge")
           /\ urlMap' = IF StoresUrl(r) THEN [urlMap EXCEPT ![r.user] = call[t].tenant] ELSE urlMap
  <2>1. StoresUrl(r) => call[t].tenant = Home[r.user]
    BY <1>1, <1>2 DEF TenantRight, TenantFor, StoresUrl, At
  <2>2. /\ urlMap' \in [Users -> Tenants \cup {Unknown}]
        /\ \A v \in Users : urlMap'[v] = urlMap[v] \/ (v = r.user /\ StoresUrl(r) /\ urlMap'[v] = Home[v])
    BY <1>2, <1>4, <2>1 DEF TypeOK
  <2>3. UrlMapRight' /\ \A v \in Users : urlMap[v] # Unknown => urlMap'[v] = urlMap[v]
    BY <1>2, <2>2 DEF UrlMapRight, StoresUrl
  <2> HIDE DEF r
  <2>4. PICK c \in Calls : c.pc = "challenge" /\ call' = [call EXCEPT ![t] = c] /\ CallRight(t)'
    BY <1>1, <1>4, <2>3, ContactNext
  <2>5. /\ PoliciesRight' /\ Agreements' /\ ConsentTypeOK'
        /\ agreed' = agreed /\ at' = at /\ at \in [Threads -> Places]
    BY <1>1, <1>2 DEF PoliciesRight, GrantedTo, Agreements, ConsentTypeOK, TypeOK, CacheTypeOK,
                      consentVars, cacheVars
  <2>6. /\ policies' \in Seq(Policies) /\ Len(policies') <= MaxPolicies
        /\ granted' \subseteq Users \X Licenses /\ todo' \subseteq Requests
    BY <1>1, <1>2 DEF TypeOK
  <2> QED BY <1>1, <1>2, <2>2, <2>3, <2>4, <2>5, <2>6, Moved
<1> QED BY <1>3, <1>4 DEF Discover

LEMMA LookAtConsentInv ==
  ASSUME AcquisitionInv, [Next]_vars, NEW t \in Threads, LookAtConsent(t)
  PROVE  AcquisitionInv'
<1> DEFINE asks == ToAsk(Req(t).user, call[t].checked, call[t].tenant)
           pc1 == IF asks = "nothing" THEN AfterConsent(t) ELSE "ask"
           c == [call[t] EXCEPT !.asks = asks, !.pc = pc1]
<1>1. /\ At(t, "consent") /\ LookAtConsents
      /\ call' = [call EXCEPT ![t].asks = asks, ![t].pc = pc1]
      /\ UNCHANGED <<cacheVars, policies, urlMap, todo, granted>>
  BY DEF LookAtConsent, Req
<1>2. /\ call[t] \in RunningCalls /\ Req(t) \in Requests /\ Req(t).user \in Users
      /\ call[t].tenant \in Tenants /\ call \in [Threads -> Calls] /\ ~At(t, "store")
      /\ TypeOK /\ Agreements /\ TenantRight(t) /\ ConsentRight(t) /\ UrlMapRight /\ PoliciesRight
      /\ at[t] = "out"
  BY <1>1, TenantType, CallShape DEF At, AcquisitionInv, CallRight
<1>3. ConsentTypeOK' /\ Agreements' /\ agreed' = agreed
  BY <1>1, <1>2 DEF LookAtConsents, Initialize, LoadedServices, LoadedDocs, TypeOK, ConsentTypeOK,
                    Agreements
<1>4. asks = "nothing" => AgreedTo(Req(t).user, call[t].checked)
  BY <1>2 DEF ToAsk, IsConsentPresent, LoadedServices, Agreements, AgreedTo
<1>5. /\ asks \in {"nothing", "service", "document"}
      /\ pc1 \in {"ask", "discovery", "challenge"} /\ (pc1 = "ask" => asks # "nothing")
      /\ pc1 # "ask" => asks = "nothing"
  BY DEF ToAsk, AfterConsent
<1>6. call' = [call EXCEPT ![t] = c]
  BY <1>1, <1>2
<1>7. /\ c \in RunningCalls /\ c.pc = pc1 /\ c.asks = asks /\ c.checked = call[t].checked
      /\ c.tenant = call[t].tenant /\ c.req = Req(t) /\ c.answered = call[t].answered
  <2> HIDE DEF asks, pc1
  <2> QED BY <1>2, <1>5 DEF RunningCalls, Req
<1> HIDE DEF c, pc1, asks
<1>8. TenantRight(t)'
  BY <1>1, <1>2, <1>6, <1>7 DEF TenantRight, Req, At, TenantFor
<1>9. ConsentRight(t)'
  BY <1>1, <1>2, <1>3, <1>4, <1>5, <1>6, <1>7 DEF ConsentRight, At, Contacting, Req, AsksConsent, AgreedTo
<1>10. PolicyRight(t)'
  BY <1>2, <1>5, <1>6, <1>7 DEF PolicyRight
<1>11. c \in Calls /\ c.pc # "store"
  BY <1>5, <1>7 DEF Calls
<1>12. /\ PoliciesRight' /\ UrlMapRight' /\ at' = at /\ at \in [Threads -> Places]
       /\ policies' \in Seq(Policies) /\ Len(policies') <= MaxPolicies
       /\ urlMap' = urlMap /\ urlMap' \in [Users -> Tenants \cup {Unknown}]
       /\ granted' = granted /\ granted' \subseteq Users \X Licenses /\ todo' \subseteq Requests
  BY <1>1, <1>2 DEF PoliciesRight, GrantedTo, UrlMapRight, TypeOK, CacheTypeOK, cacheVars
<1> QED BY <1>2, <1>3, <1>6, <1>8, <1>9, <1>10, <1>11, <1>12, Moved DEF CallRight

\* A consent kept for good is in the file and in the cache of its kind.
LEMMA PersistedRight ==
  ASSUME ConsentTypeOK, Agreements, NEW kind \in {"service", "document"}, NEW user \in Users,
         NEW url \in Urls, NEW tenant \in Tenants, PersistConsentResult(kind, user, url, tenant)
  PROVE  /\ ConsentTypeOK' /\ Agreements'
         /\ agreed.service \subseteq agreed'.service /\ agreed.document \subseteq agreed'.document
<1> DEFINE c == <<user, IF kind = "service" THEN url ELSE DomainName(tenant)>>
<1>1. c \in Consents
  BY DEF Consents, ConsentNames
<1>2. agreed' = [agreed EXCEPT ![kind] = @ \cup {c}]
  BY DEF PersistConsentResult
<1>3. CASE kind = "service"
  <2>1. /\ serviceFile' = serviceFile \cup {c} /\ serviceCache' = serviceCache \cup {c}
        /\ UNCHANGED <<docFile, docCache, loaded>>
    BY <1>3 DEF PersistConsentResult
  <2> HIDE DEF c
  <2>2. agreed'.service = agreed.service \cup {c} /\ agreed'.document = agreed.document
    BY <1>2, <1>3 DEF ConsentTypeOK
  <2> QED BY <1>1, <1>2, <1>3, <2>1, <2>2 DEF ConsentTypeOK, Agreements
<1>4. CASE kind = "document"
  <2>1. /\ docFile' = docFile \cup {c} /\ docCache' = docCache \cup {c}
        /\ UNCHANGED <<serviceFile, serviceCache, loaded>>
    BY <1>4 DEF PersistConsentResult
  <2> HIDE DEF c
  <2>2. agreed'.document = agreed.document \cup {c} /\ agreed'.service = agreed.service
    BY <1>2, <1>4 DEF ConsentTypeOK
  <2> QED BY <1>1, <1>2, <1>4, <2>1, <2>2 DEF ConsentTypeOK, Agreements
<1> QED BY <1>3, <1>4

LEMMA AnswerConsentInv ==
  ASSUME AcquisitionInv, [Next]_vars, NEW t \in Threads, AnswerConsent(t)
  PROVE  AcquisitionInv'
<1> DEFINE pc1 == AfterConsent(t)
           c == [call[t] EXCEPT !.pc = pc1, !.asks = "nothing", !.answered = TRUE]
           goOn == call' = [call EXCEPT ![t].pc = pc1, ![t].asks = "nothing", ![t].answered = TRUE]
<1>1. /\ At(t, "ask") /\ UNCHANGED <<cacheVars, policies, urlMap, todo, granted>>
      /\ \/ goOn /\ PersistConsentResult(call[t].asks, Req(t).user, call[t].checked, call[t].tenant)
         \/ goOn /\ UNCHANGED consentVars
         \/ Throw(t) /\ UNCHANGED consentVars
  BY DEF AnswerConsent, Req, Refused
<1>2. /\ call[t] \in RunningCalls /\ Req(t) \in Requests /\ Req(t).user \in Users
      /\ call[t].tenant \in Tenants /\ call \in [Threads -> Calls] /\ ~At(t, "store")
      /\ TypeOK /\ Agreements /\ TenantRight(t) /\ ConsentRight(t) /\ UrlMapRight /\ PoliciesRight
      /\ at[t] = "out"
  BY <1>1, TenantType, CallShape DEF At, AcquisitionInv, CallRight
<1>3. CASE Throw(t) /\ UNCHANGED consentVars
  BY <1>1, <1>2, <1>3, ThrowInv
<1>4. ASSUME goOn,
             \/ PersistConsentResult(call[t].asks, Req(t).user, call[t].checked, call[t].tenant)
             \/ UNCHANGED consentVars
      PROVE  AcquisitionInv'
  <2>1. /\ ConsentTypeOK' /\ Agreements'
        /\ agreed.service \subseteq agreed'.service /\ agreed.document \subseteq agreed'.document
    <3>1. CASE UNCHANGED consentVars
      BY <1>2, <3>1 DEF TypeOK, consentVars, ConsentTypeOK, Agreements
    <3>2. CASE PersistConsentResult(call[t].asks, Req(t).user, call[t].checked, call[t].tenant)
      BY <1>1, <1>2, <3>2, PersistedRight DEF TypeOK, ConsentRight, At
    <3> QED BY <1>4, <3>1, <3>2
  <2>2. call' = [call EXCEPT ![t] = c] /\ pc1 \in {"discovery", "challenge"}
    BY <1>2, <1>4 DEF AfterConsent
  <2>3. /\ c \in RunningCalls /\ c.pc = pc1 /\ c.tenant = call[t].tenant /\ c.req = Req(t)
        /\ c.answered = TRUE
    <3> HIDE DEF pc1
    <3> QED BY <1>2, <2>2 DEF RunningCalls, Req
  <2> HIDE DEF c, pc1
  <2>4. TenantRight(t)'
    BY <1>1, <1>2, <2>2, <2>3 DEF TenantRight, Req, At, TenantFor
  <2>5. ConsentRight(t)' /\ PolicyRight(t)'
    BY <1>2, <2>2, <2>3 DEF ConsentRight, At, Contacting, PolicyRight
  <2>6. c \in Calls /\ c.pc # "store"
    BY <2>2, <2>3 DEF Calls
  <2>7. /\ PoliciesRight' /\ UrlMapRight' /\ at' = at /\ at \in [Threads -> Places]
        /\ policies' \in Seq(Policies) /\ Len(policies') <= MaxPolicies
        /\ urlMap' = urlMap /\ urlMap' \in [Users -> Tenants \cup {Unknown}]
        /\ granted' = granted /\ granted' \subseteq Users \X Licenses /\ todo' \subseteq Requests
    BY <1>1, <1>2 DEF PoliciesRight, GrantedTo, UrlMapRight, TypeOK, CacheTypeOK, cacheVars
  <2> QED BY <1>2, <2>1, <2>2, <2>4, <2>5, <2>6, <2>7, Moved DEF CallRight
<1> QED BY <1>1, <1>3, <1>4

\* What a step that leaves the consents, the map and the requests alone keeps of them.
LEMMA RestKept ==
  ASSUME AcquisitionInv, UNCHANGED <<consentVars, urlMap, todo>>
  PROVE  /\ ConsentTypeOK' /\ Agreements' /\ UrlMapRight' /\ agreed' = agreed
         /\ urlMap' \in [Users -> Tenants \cup {Unknown}] /\ todo' \subseteq Requests
<1>1. TypeOK /\ Agreements /\ UrlMapRight
  BY DEF AcquisitionInv
<1>2. ConsentTypeOK' /\ Agreements' /\ agreed' = agreed
  BY <1>1 DEF TypeOK, consentVars, ConsentTypeOK, Agreements
<1> QED BY <1>1, <1>2 DEF UrlMapRight, TypeOK

\* The service's answer: a policy for the request, which a grant goes with.
LEMMA Answered ==
  ASSUME AcquisitionInv, [Next]_vars, NEW t \in Threads, At(t, "post"),
         NEW r \in Requests, NEW pc \in {"store", "add"}, NEW access \in {"granted", "denied"},
         call' = [call EXCEPT ![t] = [pc |-> pc, req |-> r, policy |-> Policy(r, access)]],
         access = "granted" => <<r.user, r.license>> \in granted',
         granted \subseteq granted', granted' \subseteq Users \X Licenses,
         at' \in [Threads -> Places], at'[t] # "out" <=> pc = "store",
         \A u \in Threads \ {t} : at'[u] = at[u],
         UNCHANGED <<consentVars, policies, urlMap, todo>>
  PROVE  AcquisitionInv'
<1> DEFINE c == [pc |-> pc, req |-> r, policy |-> Policy(r, access)]
<1>1. /\ r.user \in Users /\ r.license \in Licenses /\ call \in [Threads -> Calls]
      /\ TypeOK /\ PoliciesRight /\ at \in [Threads -> Places]
  BY RequestShape DEF AcquisitionInv, TypeOK, CacheTypeOK
<1>2. /\ Policy(r, access) \in Policies
      /\ Policy(r, access).license = r.license /\ Policy(r, access).access = access
  BY <1>1 DEF Policy, Policies
<1>3. /\ c \in AnsweredCalls /\ c \in Calls
      /\ c.pc = pc /\ c.req = r /\ c.policy = Policy(r, access)
  BY <1>2 DEF AnsweredCalls, Calls
<1> HIDE DEF c
<1>4. call' = [call EXCEPT ![t] = c] /\ call'[t] = c
  BY <1>1 DEF c
<1>5. access = "granted" => GrantedTo(r.user, r.license)'
  BY <1>1 DEF GrantedTo
<1>6. PolicyRight(t)'
  BY <1>2, <1>3, <1>4, <1>5 DEF PolicyRight, Req
<1>7. TenantRight(t)' /\ ConsentRight(t)'
  BY <1>3, <1>4 DEF TenantRight, ConsentRight, At, Contacting
<1>8. /\ PoliciesRight' /\ policies' \in Seq(Policies) /\ Len(policies') <= MaxPolicies
  BY <1>1 DEF PoliciesRight, GrantedTo, TypeOK
<1> QED BY <1>3, <1>4, <1>6, <1>7, <1>8, RestKept, Moved DEF CallRight

LEMMA PostInv ==
  ASSUME AcquisitionInv, [Next]_vars, NEW t \in Threads, Post(t)
  PROVE  AcquisitionInv'
<1>1. At(t, "post") /\ UNCHANGED <<consentVars, policies, urlMap, todo>>
  BY DEF Post
<1>2. /\ Req(t) \in Requests /\ Req(t).user \in Users /\ Req(t).license \in Licenses
      /\ ~At(t, "store") /\ TypeOK /\ at[t] = "out" /\ at \in [Threads -> Places]
      /\ granted \subseteq Users \X Licenses
  BY <1>1, TenantType, RequestShape, CallShape DEF At, AcquisitionInv, TypeOK, CacheTypeOK
<1>3. PICK r \in Requests : r = Req(t)
  BY <1>2
<1> DEFINE Answer(pc, access) ==
      call' = [call EXCEPT ![t] = [pc |-> pc, req |-> r, policy |-> Policy(r, access)]]
<1>4. CASE Throw(t) /\ UNCHANGED <<cacheVars, granted>>
  BY <1>1, <1>2, <1>4, ThrowInv
<1>5. CASE granted' = granted \cup {<<r.user, r.license>>} /\ Answer("store", "granted") /\ StoreBegin(t)
  <2>1. /\ at' \in [Threads -> Places] /\ at'[t] # "out" /\ \A u \in Threads \ {t} : at'[u] = at[u]
        /\ <<r.user, r.license>> \in granted' /\ granted \subseteq granted'
        /\ granted' \subseteq Users \X Licenses
    BY <1>2, <1>3, <1>5 DEF StoreBegin, Places
  <2> QED BY <1>1, <1>2, <1>3, <1>5, <2>1, Answered
<1>6. CASE granted' = granted \cup {<<r.user, r.license>>} /\ Answer("add", "granted") /\ UNCHANGED cacheVars
  <2>1. /\ at' = at /\ <<r.user, r.license>> \in granted' /\ granted \subseteq granted'
        /\ granted' \subseteq Users \X Licenses
    BY <1>2, <1>3, <1>6 DEF cacheVars
  <2> QED BY <1>1, <1>2, <1>3, <1>6, <2>1, Answered
<1>7. CASE Answer("add", "denied") /\ UNCHANGED <<cacheVars, granted>>
  <2>1. at' = at
    BY <1>7 DEF cacheVars
  <2> QED BY <1>1, <1>2, <1>3, <1>7, <2>1, Answered
<1> QED BY <1>3, <1>4, <1>5, <1>6, <1>7 DEF Post

LEMMA StoreOnDiskInv ==
  ASSUME AcquisitionInv, [Next]_vars, NEW t \in Threads, StoreOnDisk(t)
  PROVE  AcquisitionInv'
<1>1. /\ At(t, "store") /\ StoreStep(t) /\ UNCHANGED <<consentVars, policies, urlMap, todo, granted>>
      /\ IF at'[t] = "out" THEN Goto(t, "add") ELSE UNCHANGED call
  BY DEF StoreOnDisk
<1>2. /\ call[t] \in AnsweredCalls /\ call \in [Threads -> Calls]
      /\ TypeOK /\ PoliciesRight /\ PolicyRight(t) /\ CallRight(t)
  BY <1>1, CallShape DEF At, AcquisitionInv, TypeOK, CallRight
<1>3. CacheInv' /\ CacheTypeOK
  BY StepIsCacheStep, CacheNextInv DEF AcquisitionInv, TypeOK
<1>4. at' \in [Threads -> Places] /\ \A u \in Threads \ {t} : at'[u] = at[u]
  BY <1>1, <1>3 DEF StoreStep, Lock, WriteFile, ReadCounter, SaveCounter, StoreFails, Unlock,
                    CacheInv, CacheTypeOK
<1>5. /\ PoliciesRight' /\ policies' \in Seq(Policies) /\ Len(policies') <= MaxPolicies
      /\ granted' = granted /\ granted' \subseteq Users \X Licenses
  BY <1>1, <1>2 DEF PoliciesRight, GrantedTo, TypeOK
<1> DEFINE c == IF at'[t] = "out" THEN [call[t] EXCEPT !.pc = "add"] ELSE call[t]
<1>6. /\ c \in AnsweredCalls /\ c.req = call[t].req /\ c.policy = call[t].policy
      /\ c.pc \in {"store", "add"} /\ (at'[t] # "out" <=> c.pc = "store")
  BY <1>1, <1>2 DEF AnsweredCalls, At
<1>7. call' = [call EXCEPT ![t] = c]
  BY <1>1, <1>2 DEF Goto
<1> HIDE DEF c
<1>8. c \in Calls /\ call'[t] = c
  BY <1>2, <1>6, <1>7 DEF Calls
<1>9. PolicyRight(t)'
  <2>1. ASSUME NEW user, NEW license PROVE GrantedTo(user, license) => GrantedTo(user, license)'
    BY <1>5 DEF GrantedTo
  <2> QED BY <1>1, <1>2, <1>6, <1>8, <2>1 DEF PolicyRight, Req, Policy, At
<1>10. TenantRight(t)' /\ ConsentRight(t)'
  BY <1>6, <1>8 DEF TenantRight, ConsentRight, At, Contacting
<1> QED BY <1>1, <1>4, <1>5, <1>6, <1>7, <1>8, <1>9, <1>10, RestKept, Moved DEF CallRight

\* A policy moved to the front: the list keeps its length and its members.
LEMMA ToFront ==
  ASSUME NEW S, NEW s \in Seq(S), NEW i \in 1..Len(s)
  PROVE  /\ <<s[i]>> \o RemoveAt(s, i) \in Seq(S)
         /\ Len(<<s[i]>> \o RemoveAt(s, i)) = Len(s)
         /\ \A k \in 1..Len(s) : \E j \in 1..Len(s) : (<<s[i]>> \o RemoveAt(s, i))[k] = s[j]
<1> DEFINE a == SubSeq(s, 1, i - 1)
           b == SubSeq(s, i + 1, Len(s))
<1>1. a \in Seq(S) /\ Len(a) = i - 1 /\ \A k \in 1..(i - 1) : a[k] = s[k]
  OBVIOUS
<1>2. b \in Seq(S) /\ Len(b) = Len(s) - i /\ \A k \in 1..(Len(s) - i) : b[k] = s[k + i]
  OBVIOUS
<1> HIDE DEF a, b
<1>3. /\ a \o b \in Seq(S) /\ Len(a \o b) = Len(s) - 1
      /\ \A k \in 1..(i - 1) : (a \o b)[k] = s[k]
      /\ \A k \in i..(Len(s) - 1) : (a \o b)[k] = s[k + 1]
  <2>1. /\ a \o b \in Seq(S) /\ Len(a \o b) = Len(s) - 1
        /\ \A k \in 1..(i - 1) : (a \o b)[k] = a[k]
        /\ \A k \in i..(Len(s) - 1) : (a \o b)[k] = b[k - (i - 1)]
    <3>1. a \o b \in Seq(S) /\ Len(a \o b) = Len(a) + Len(b)
      <4>1. a \in Seq(S) /\ b \in Seq(S)
        BY <1>1, <1>2
      <4> QED BY <4>1
    <3>2. \A k \in 1..(i - 1) : (a \o b)[k] = a[k]
      BY <1>1, <1>2
    <3>3. ASSUME NEW k \in i..(Len(s) - 1) PROVE (a \o b)[k] = b[k - (i - 1)]
      <4>1. k > Len(a) /\ k <= Len(a) + Len(b) /\ k - Len(a) = k - (i - 1)
        BY <1>1, <1>2
      <4> QED BY <1>1, <1>2, <4>1
    <3>4. Len(a) + Len(b) = Len(s) - 1
      BY <1>1, <1>2
    <3> QED BY <3>1, <3>2, <3>3, <3>4
  <2>2. ASSUME NEW k \in i..(Len(s) - 1) PROVE b[k - (i - 1)] = s[k + 1]
    <3>1. k - (i - 1) \in 1..(Len(s) - i) /\ (k - (i - 1)) + i = k + 1
      OBVIOUS
    <3> QED BY <1>2, <3>1
  <2> QED BY <1>1, <2>1, <2>2
<1> DEFINE m == a \o b
<1> HIDE DEF m
<1>4. /\ <<s[i]>> \o m \in Seq(S) /\ Len(<<s[i]>> \o m) = Len(s)
      /\ (<<s[i]>> \o m)[1] = s[i]
      /\ \A k \in 2..Len(s) : (<<s[i]>> \o m)[k] = m[k - 1]
  BY <1>3 DEF m
<1>5. ASSUME NEW k \in 1..Len(s) PROVE \E j \in 1..Len(s) : (<<s[i]>> \o m)[k] = s[j]
  <2>1. CASE k = 1
    BY <1>4, <2>1
  <2>2. CASE k \in 2..i
    <3>1. (<<s[i]>> \o m)[k] = s[k - 1] /\ k - 1 \in 1..Len(s)
      BY <1>3, <1>4, <2>2 DEF m
    <3> QED BY <3>1
  <2>3. CASE k \in (i + 1)..Len(s)
    <3>1. (<<s[i]>> \o m)[k] = s[k]
      BY <1>3, <1>4, <2>3 DEF m
    <3> QED BY <3>1
  <2>4. k = 1 \/ k \in 2..i \/ k \in (i + 1)..Len(s)
    OBVIOUS
  <2> QED BY <2>1, <2>2, <2>3, <2>4
<1>6. RemoveAt(s, i) = m
  BY DEF RemoveAt, m, a, b
<1> QED BY <1>4, <1>5, <1>6

\* A policy put in front of the list, which is then cut.
LEMMA Added ==
  ASSUME NEW S, NEW s \in Seq(S), NEW p \in S
  PROVE  \E q \in Seq(S) :
           /\ q = Trimmed(<<p>> \o s) /\ Len(q) <= MaxPolicies
           /\ \A k \in 1..Len(q) : q[k] = p \/ \E j \in 1..Len(s) : q[k] = s[j]
<1> DEFINE e == <<p>> \o s
           n == IF Len(e) > MaxPolicies THEN MaxPolicies ELSE Len(e)
<1>1. /\ e \in Seq(S) /\ Len(e) = Len(s) + 1 /\ e[1] = p
      /\ \A k \in 2..Len(e) : e[k] = s[k - 1]
  OBVIOUS
<1>2. n \in 1..Len(e) /\ n <= MaxPolicies
  BY <1>1, AcquisitionConstants
<1> HIDE DEF e, n
<1>3. SubSeq(e, 1, n) \in Seq(S) /\ Len(SubSeq(e, 1, n)) = n
      /\ \A k \in 1..n : SubSeq(e, 1, n)[k] = e[k]
  BY <1>1, <1>2
<1>4. ASSUME NEW k \in 1..n PROVE e[k] = p \/ \E j \in 1..Len(s) : e[k] = s[j]
  <2>1. CASE k \in 2..Len(e)
    <3>1. e[k] = s[k - 1] /\ k - 1 \in 1..Len(s)
      BY <1>1, <2>1
    <3> QED BY <3>1
  <2> QED BY <1>1, <1>2, <2>1
<1>5. Trimmed(<<p>> \o s) = SubSeq(e, 1, n)
  BY DEF Trimmed, e, n
<1>6. PICK q \in Seq(S) : q = SubSeq(e, 1, n)
  BY <1>3
<1>7. Len(q) = n /\ \A k \in 1..n : q[k] = e[k]
  BY <1>3, <1>6
<1>8. \A k \in 1..Len(q) : q[k] = p \/ \E j \in 1..Len(s) : q[k] = s[j]
  BY <1>4, <1>7
<1>9. q = Trimmed(<<p>> \o s) /\ Len(q) <= MaxPolicies
  BY <1>2, <1>5, <1>6, <1>7
<1> QED BY <1>8, <1>9

\* The first of the policies that match is one of them.
LEMMA FirstMatches ==
  ASSUME AcquisitionInv, NEW r \in Requests, Matching(r) # {}
  PROVE  (CHOOSE j \in Matching(r) : \A k \in Matching(r) : j <= k) \in Matching(r)
<1> DEFINE M == Matching(r)
<1>1. M \subseteq Nat /\ M # {}
  BY DEF Matching, AcquisitionInv, TypeOK
<1> HIDE DEF M
<1>2. PICK j \in M : \A k \in M : <<k, j>> \notin OpToRel(<, Nat)
  BY <1>1, WFMin, NatLessThanWellFounded
<1>3. ASSUME NEW k \in M PROVE ~(k < j)
  BY <1>1, <1>2, Zenon DEF OpToRel
<1>4. \A k \in M : j <= k
  BY <1>1, <1>3
<1> QED BY <1>4 DEF M

LEMMA FoundInMemoryInv ==
  ASSUME AcquisitionInv, [Next]_vars, NEW t \in Threads, FoundInMemory(t)
  PROVE  AcquisitionInv'
<1>1. /\ At(t, "memory") /\ Matching(Req(t)) # {}
      /\ UNCHANGED <<cacheVars, consentVars, urlMap, todo, granted>>
  BY DEF FoundInMemory
<1>2. /\ call[t] \in RunningCalls /\ Req(t) \in Requests /\ call \in [Threads -> Calls]
      /\ TypeOK /\ PoliciesRight /\ at[t] = "out" /\ at \in [Threads -> Places]
      /\ policies \in Seq(Policies) /\ Len(policies) <= MaxPolicies
      /\ granted \subseteq Users \X Licenses
  BY <1>1, CallShape DEF At, AcquisitionInv, TypeOK, CacheTypeOK, Running, RunningCalls, Req
<1>3. PICK r \in Requests : r = Req(t)
  BY <1>2
<1>4. PICK i \in Matching(r) :
        /\ policies' = <<policies[i]>> \o RemoveAt(policies, i)
        /\ call' = [call EXCEPT ![t] = Done(policies[i], r)]
  BY <1>1, <1>3, FirstMatches DEF FoundInMemory
<1>5. i \in 1..Len(policies) /\ Matches(policies[i], r.license, r.user) /\ policies[i] \in Policies
  BY <1>2 DEF Matching
<1>6. PICK p \in Policies : p = policies[i]
  BY <1>5
<1>7. /\ policies' \in Seq(Policies) /\ Len(policies') = Len(policies)
      /\ \A k \in 1..Len(policies) : \E j \in 1..Len(policies) : policies'[k] = policies[j]
  <2> DEFINE q == <<policies[i]>> \o RemoveAt(policies, i)
  <2>1. /\ q \in Seq(Policies) /\ Len(q) = Len(policies)
        /\ \A k \in 1..Len(policies) : \E j \in 1..Len(policies) : q[k] = policies[j]
    <3>1. policies \in Seq(Policies) /\ i \in 1..Len(policies)
      BY <1>2, <1>5
    <3> QED BY ONLY <3>1, ToFront, ZenonT(60)
  <2> HIDE DEF q
  <2> QED BY <1>4, <2>1 DEF q
<1>8. ASSUME NEW user, NEW license PROVE GrantedTo(user, license) => GrantedTo(user, license)'
  BY <1>1 DEF GrantedTo
<1>9. PoliciesRight'
  <2> SUFFICES ASSUME NEW k \in DOMAIN policies', policies'[k].access = "granted"
               PROVE  \E g \in granted : /\ g[2] = policies'[k].license
                                         /\ policies'[k].requester # Anyone =>
                                              g[1] = policies'[k].requester
    BY <1>1 DEF PoliciesRight, GrantedTo
  <2>1. k \in 1..Len(policies)
    BY <1>2, <1>7
  <2>2. PICK j \in 1..Len(policies) : policies'[k] = policies[j]
    BY <1>7, <2>1
  <2>3. PICK q : q = policies[j]
    OBVIOUS
  <2>4. GrantedTo(q.requester, q.license)
    BY <1>2, <2>2, <2>3 DEF PoliciesRight
  <2> QED BY <2>2, <2>3, <2>4 DEF GrantedTo
<1>10. p.license = r.license /\ (p.access = "granted" => GrantedTo(r.user, r.license))
  <2>1. p.license = r.license /\ (r.user # Anyone => p.requester = r.user)
    BY <1>5, <1>6 DEF Matches
  <2>2. p.access = "granted" => GrantedTo(p.requester, p.license)
    BY <1>2, <1>5, <1>6 DEF PoliciesRight
  <2> QED BY <2>1, <2>2 DEF GrantedTo
<1> DEFINE c == Done(p, r)
<1>11. c \in AnsweredCalls /\ c.pc = "done" /\ c.req = r /\ c.policy = p /\ c \in Calls
  BY DEF Done, AnsweredCalls, Calls
<1>12. call' = [call EXCEPT ![t] = c]
  BY <1>4, <1>6
<1> HIDE DEF c
<1>13. call'[t] = c
  BY <1>2, <1>12
<1>14. PolicyRight(t)'
  <2>1. p.access = "granted" => GrantedTo(r.user, r.license)'
    BY <1>8, <1>10
  <2> QED BY <1>10, <1>11, <1>13, <2>1 DEF PolicyRight, Req
<1>15. TenantRight(t)' /\ ConsentRight(t)'
  BY <1>11, <1>13 DEF TenantRight, ConsentRight, At, Contacting
<1>16. at' = at
  BY <1>1 DEF cacheVars
<1> QED BY <1>1, <1>2, <1>7, <1>9, <1>11, <1>12, <1>14, <1>15, <1>16, RestKept, Moved DEF CallRight

LEMMA AddToMemoryInv ==
  ASSUME AcquisitionInv, [Next]_vars, NEW t \in Threads, AddToMemory(t)
  PROVE  AcquisitionInv'
<1>1. /\ At(t, "add") /\ Goto(t, "done")
      /\ policies' = IF Cached(Req(t)) THEN Trimmed(<<call[t].policy>> \o policies) ELSE policies
      /\ UNCHANGED <<cacheVars, consentVars, urlMap, todo, granted>>
  BY DEF AddToMemory
<1>2. /\ call[t] \in AnsweredCalls /\ Req(t) \in Requests /\ call \in [Threads -> Calls]
      /\ TypeOK /\ PoliciesRight /\ PolicyRight(t) /\ at[t] = "out" /\ at \in [Threads -> Places]
      /\ policies \in Seq(Policies) /\ Len(policies) <= MaxPolicies
      /\ granted \subseteq Users \X Licenses
  BY <1>1, CallShape DEF At, AcquisitionInv, TypeOK, CacheTypeOK, CallRight, AnsweredCalls, Req
<1>3. PICK r \in Requests : r = Req(t)
  BY <1>2
<1>4. PICK p \in Policies : p = call[t].policy
  BY <1>2 DEF AnsweredCalls
<1>5. ASSUME NEW user, NEW license PROVE GrantedTo(user, license) => GrantedTo(user, license)'
  BY <1>1 DEF GrantedTo
<1>6. /\ p = Policy(r, p.access) /\ p.license = r.license
      /\ p.access = "granted" => GrantedTo(r.user, r.license)
  BY <1>1, <1>2, <1>3, <1>4 DEF PolicyRight, At
<1>7. /\ policies' \in Seq(Policies) /\ Len(policies') <= MaxPolicies
      /\ \A k \in 1..Len(policies') :
           (Cached(r) /\ policies'[k] = p) \/ \E j \in 1..Len(policies) : policies'[k] = policies[j]
  <2>1. CASE Cached(r)
    <3>1. policies \in Seq(Policies) /\ policies' = Trimmed(<<p>> \o policies)
      BY <1>1, <1>2, <1>3, <1>4, <2>1
    <3>2. PICK q \in Seq(Policies) :
            /\ q = Trimmed(<<p>> \o policies) /\ Len(q) <= MaxPolicies
            /\ \A k \in 1..Len(q) : q[k] = p \/ \E j \in 1..Len(policies) : q[k] = policies[j]
      BY <3>1, Added
    <3> QED BY <2>1, <3>1, <3>2
  <2>2. CASE ~Cached(r)
    BY <1>1, <1>2, <1>3, <2>2
  <2> QED BY <2>1, <2>2
<1>8. Cached(r) /\ p.access = "granted" => GrantedTo(p.requester, p.license)
  <2>1. Cached(r) => Policy(r, p.access).requester = r.user
    BY DEF Cached, Policy
  <2>2. Cached(r) => p.requester = r.user
    BY <1>6, <2>1
  <2> QED BY <1>6, <2>2
<1>9. PoliciesRight'
  <2> SUFFICES ASSUME NEW k \in DOMAIN policies', policies'[k].access = "granted"
               PROVE  \E g \in granted : /\ g[2] = policies'[k].license
                                         /\ policies'[k].requester # Anyone =>
                                              g[1] = policies'[k].requester
    BY <1>1 DEF PoliciesRight, GrantedTo
  <2>1. k \in 1..Len(policies')
    BY <1>7
  <2>2. PICK q : q = policies'[k]
    OBVIOUS
  <2>3. GrantedTo(q.requester, q.license)
    <3>1. CASE Cached(r) /\ policies'[k] = p
      BY <1>8, <2>2, <3>1
    <3>2. CASE \E j \in 1..Len(policies) : policies'[k] = policies[j]
      BY <1>2, <2>2, <3>2 DEF PoliciesRight
    <3> QED BY <1>7, <2>1, <3>1, <3>2
  <2> QED BY <2>2, <2>3 DEF GrantedTo
<1> DEFINE c == [call[t] EXCEPT !.pc = "done"]
<1>10. c \in AnsweredCalls /\ c.pc = "done" /\ c.req = r /\ c.policy = p /\ c \in Calls
  BY <1>2, <1>3, <1>4 DEF AnsweredCalls, Calls, Req
<1>11. call' = [call EXCEPT ![t] = c]
  BY <1>1, <1>2 DEF Goto
<1> HIDE DEF c
<1>12. call'[t] = c
  BY <1>2, <1>11
<1>13. PolicyRight(t)'
  <2>1. p.access = "granted" => GrantedTo(r.user, r.license)'
    BY <1>5, <1>6
  <2> QED BY <1>6, <1>10, <1>12, <2>1 DEF PolicyRight, Req
<1>14. TenantRight(t)' /\ ConsentRight(t)'
  BY <1>10, <1>12 DEF TenantRight, ConsentRight, At, Contacting
<1>15. at' = at
  BY <1>1 DEF cacheVars
<1> QED BY <1>1, <1>2, <1>7, <1>9, <1>10, <1>11, <1>13, <1>14, <1>15, RestKept, Moved DEF CallRight

LEMMA RestartInv ==
  ASSUME AcquisitionInv, [Next]_vars, Restart
  PROVE  AcquisitionInv'
<1>1. CacheInv' /\ CacheTypeOK'
  BY StepIsCacheStep, CacheNextInv DEF AcquisitionInv, CacheInv
<1>2. ConsentTypeOK' /\ Agreements'
  BY DEF Restart, ConsentRestart, AcquisitionInv, TypeOK, ConsentTypeOK, Agreements
<1>3. /\ policies' = <<>> /\ urlMap' = [u \in Users |-> Unknown]
      /\ call' = [t \in Threads |-> Idle] /\ at' = [t \in Threads |-> "out"]
      /\ UNCHANGED <<todo, granted>>
  BY DEF Restart, CacheRestart
<1>4. policies' \in Seq(Policies) /\ Len(policies') <= MaxPolicies /\ PoliciesRight'
  BY <1>3, AcquisitionConstants DEF PoliciesRight
<1>5. call' \in [Threads -> Calls] /\ \A t \in Threads : call'[t].pc = "idle"
  BY <1>3 DEF Calls, Idle
<1>6. TypeOK'
  BY <1>1, <1>2, <1>3, <1>4, <1>5 DEF TypeOK, AcquisitionInv, At
<1>7. UrlMapRight'
  BY <1>3 DEF UrlMapRight
<1>8. \A t \in Threads : CallRight(t)'
  BY <1>5 DEF CallRight, TenantRight, ConsentRight, PolicyRight, At, Contacting
<1> QED BY <1>1, <1>2, <1>4, <1>6, <1>7, <1>8 DEF AcquisitionInv

LEMMA AcquisitionInitInv == Init => AcquisitionInv
<1> SUFFICES ASSUME Init PROVE AcquisitionInv
  OBVIOUS
<1>1. CacheInv /\ CacheTypeOK
  BY CacheInitInv DEF Init, CacheInv
<1>2. /\ agreed = [service |-> {}, document |-> {}] /\ loaded = FALSE
      /\ serviceFile = {} /\ docFile = {} /\ serviceCache = {} /\ docCache = {}
  BY DEF Init, ConsentInit
<1>3. ConsentTypeOK /\ Agreements
  <2>1. agreed \in [{"service", "document"} -> SUBSET Consents]
    BY <1>2
  <2> QED BY <1>2, <2>1 DEF ConsentTypeOK, Agreements
<1>4. /\ policies = <<>> /\ urlMap = [u \in Users |-> Unknown]
      /\ call = [t \in Threads |-> Idle] /\ at = [t \in Threads |-> "out"]
      /\ todo = Requests /\ granted = {}
  BY DEF Init, CacheInit
<1>5. policies \in Seq(Policies) /\ Len(policies) <= MaxPolicies /\ PoliciesRight
  BY <1>4, AcquisitionConstants DEF PoliciesRight
<1>6. call \in [Threads -> Calls] /\ \A t \in Threads : call[t].pc = "idle"
  BY <1>4 DEF Calls, Idle
<1>7. TypeOK
  BY <1>1, <1>3, <1>4, <1>5, <1>6 DEF TypeOK, At
<1>8. UrlMapRight
  BY <1>4 DEF UrlMapRight
<1>9. \A t \in Threads : CallRight(t)
  BY <1>6 DEF CallRight, TenantRight, ConsentRight, PolicyRight, At, Contacting
<1> QED BY <1>1, <1>3, <1>5, <1>7, <1>8, <1>9 DEF AcquisitionInv

LEMMA AcquisitionNextInv == AcquisitionInv /\ [Next]_vars => AcquisitionInv'
<1> SUFFICES ASSUME AcquisitionInv, [Next]_vars PROVE AcquisitionInv'
  OBVIOUS
<1>1. ASSUME NEW t \in Threads, Step(t) PROVE AcquisitionInv'
  <2>1. CASE FoundInMemory(t) \/ NotInMemory(t) \/ LookUpOnDisk(t) \/ FindUrl(t)
    BY <2>1, FoundInMemoryInv, NotInMemoryInv, LookUpOnDiskInv, FindUrlInv
  <2>2. CASE FindDiscoveryUrl(t) \/ Discover(t) \/ LookAtConsent(t) \/ AnswerConsent(t)
    BY <2>2, FindDiscoveryUrlInv, DiscoverInv, LookAtConsentInv, AnswerConsentInv
  <2>3. CASE Authenticate(t) \/ Post(t) \/ StoreOnDisk(t) \/ AddToMemory(t) \/ Return(t)
    BY <2>3, AuthenticateInv, PostInv, StoreOnDiskInv, AddToMemoryInv, ReturnInv
  <2> QED BY <1>1, <2>1, <2>2, <2>3 DEF Step
<1>2. ASSUME NEW t \in Threads, NEW r \in Requests, Begin(t, r) PROVE AcquisitionInv'
  BY <1>2, BeginInv
<1>3. CASE Restart
  BY <1>3, RestartInv
<1>4. CASE UNCHANGED vars
  <2>1. UNCHANGED <<cacheVars, consentVars, policies, urlMap, call, todo, granted>>
    BY <1>4 DEF vars, ownVars
  <2>2. CacheInv' /\ CacheTypeOK'
    BY StepIsCacheStep, CacheNextInv DEF AcquisitionInv, CacheInv
  <2>3. /\ ConsentTypeOK' /\ Agreements' /\ UrlMapRight'
        /\ urlMap' \in [Users -> Tenants \cup {Unknown}] /\ todo' \subseteq Requests
    BY <2>1, RestKept
  <2>4. at' = at /\ PoliciesRight'
    BY <2>1 DEF cacheVars, AcquisitionInv, PoliciesRight, GrantedTo
  <2>5. TypeOK'
    BY <2>1, <2>2, <2>3, <2>4 DEF AcquisitionInv, TypeOK, At
  <2>6. agreed' = agreed
    BY <2>1 DEF consentVars
  <2>7. \A t \in Threads : CallRight(t)'
    BY <2>1, <2>6, OthersRight
  <2> QED BY <2>2, <2>3, <2>4, <2>5, <2>7 DEF AcquisitionInv
<1> QED BY <1>1, <1>2, <1>3, <1>4 DEF Next

-----------------------------------------------------------------------------
(* What UserPolicy::Acquire and UserPolicy::Create promise *)

\* The invariant holds of every behaviour of the calls, whatever the services answer
\* and however often the program is restarted.
THEOREM AcquisitionInvariant == Spec => []AcquisitionInv
  BY AcquisitionInitInv, AcquisitionNextInv, PTL DEF Spec

\* The state keeps its types; the memory cache never has more than dwMaxCacheEntries
\* policies, and a thread is inside RestClientCache::Store only in the call that stores.
THEOREM AcquisitionTypeCorrect == Spec => []TypeOK
<1>1. AcquisitionInv => TypeOK
  BY DEF AcquisitionInv
<1> QED BY <1>1, AcquisitionInvariant, PTL

\* UserPolicy::Acquire succeeds only with a policy for its license that a service has
\* granted to its user (to somebody, with an empty user id), also when the policy comes
\* out of the memory cache that all threads and both entry points share.
THEOREM AcquiresOnlyGranted == Spec => []PolicyWasGranted
<1>1. AcquisitionInv => PolicyWasGranted
  BY DEF AcquisitionInv, CallRight, PolicyRight, GrantedTo, PolicyWasGranted, Success, At
<1> QED BY <1>1, AcquisitionInvariant, PTL

\* No discovery server and no service is contacted for a license before the consent that
\* the application's callback is for.
THEOREM ConsentBeforeContact == Spec => []ContactsAgreed
<1>1. AcquisitionInv => ContactsAgreed
  BY DEF AcquisitionInv, CallRight, ConsentRight, ContactsAgreed
<1> QED BY <1>1, AcquisitionInvariant, PTL

\* The static map of service URLs never leads publishing to a foreign tenant.
THEOREM PublishingStaysHome == Spec => []PublishesAtHome
<1>1. AcquisitionInv => PublishesAtHome
  <2> SUFFICES ASSUME AcquisitionInv, NEW t \in Threads, Contacting(t),
                      Req(t).kind # "acquire"
               PROVE  call[t].tenant = Home[Req(t).user]
    BY DEF PublishesAtHome
  <2>1. TenantRight(t)
    BY DEF AcquisitionInv, CallRight
  <2> QED BY <2>1 DEF TenantRight, Contacting, TenantFor
<1> QED BY <1>1, AcquisitionInvariant, PTL

\* What the calls do to the responses on disk, the restarts of the program included, is
\* what RestClientCache's own specification allows.
THEOREM ImplementsResponseCache == Spec => CacheSpec
<1>1. Init => CacheInit
  BY DEF Init
<1> QED BY <1>1, StepIsCacheStep, PTL DEF Spec, CacheSpec

\* So LaunchCleanup is entered only after Frequency stores here too.
THEOREM AcquireHangsAfterFrequency == Spec => []HangAfterFrequency
  BY ImplementsResponseCache, CleanupAfterFrequency, PTL

\* What is asked about service URLs has not been agreed to for good.
LEMMA AsksOnlyOnce ==
  ASSUME AcquisitionInv, [Next]_vars, NEW t \in Threads, At(t, "ask")', ~At(t, "ask"),
         call'[t].asks = "service"
  PROVE  ~ServiceAgreed(Req(t).user, call[t].checked)
<1>1. TypeOK /\ Agreements /\ call \in [Threads -> Calls]
  BY DEF AcquisitionInv, TypeOK
<1>2. LookAtConsent(t)
  <2>1. call'[t] # call[t]
    BY DEF At
  <2>2. ASSUME NEW u \in Threads, NEW r \in Requests, Begin(u, r) PROVE FALSE
    <3>1. call' = [call EXCEPT ![u] = Call(IF r.kind = "acquire" THEN "memory" ELSE "urls", r)]
      BY <2>2 DEF Begin
    <3>2. call'[t] = Call(IF r.kind = "acquire" THEN "memory" ELSE "urls", r)
      BY <1>1, <2>1, <3>1
    <3> QED BY <3>2 DEF Call, At
  <2>3. ~Restart
    BY DEF Restart, Idle, At
  <2>4. PICK u \in Threads : Step(u)
    BY <2>1, <2>2, <2>3 DEF Next, vars, ownVars
  <2>5. ASSUME NEW c, call' = [call EXCEPT ![u] = c] PROVE c.pc = "ask" /\ u = t
    BY <1>1, <2>1, <2>5 DEF At
  <2>6. ASSUME NEW pc, call' = [call EXCEPT ![u].pc = pc] PROVE pc = "ask"
    BY <1>1, <2>1, <2>6 DEF At, Calls, Idle, RunningCalls, AnsweredCalls
  <2>7. ~Throw(u) /\ \A pc : Goto(u, pc) => pc = "ask"
    BY <2>5, <2>6 DEF Throw, Goto, Idle
  <2>8. ~(NotInMemory(u) \/ LookUpOnDisk(u) \/ Discover(u) \/ Authenticate(u))
    BY <2>7 DEF NotInMemory, LookUpOnDisk, GoOnline, Discover, Authenticate
  <2>9. ~(FindUrl(u) \/ FindDiscoveryUrl(u) \/ AnswerConsent(u))
    <3>1. ASSUME FindUrl(u) PROVE FALSE
      <4>1. call[u] \in RunningCalls /\ u = t
        BY <1>1, <2>1, <3>1, CallShape DEF FindUrl, At, Running
      <4> QED BY <1>1, <3>1, <4>1 DEF FindUrl, At, RunningCalls
    <3>2. ASSUME FindDiscoveryUrl(u) PROVE FALSE
      <4>1. PICK of \in {call[u].tenant, Cloud} :
              call' = [call EXCEPT
                         ![u].pc = IF AsksConsent(Req(u)) THEN "consent" ELSE "discovery",
                         ![u].checked = IF AsksConsent(Req(u)) THEN DiscoveryUrl(of) ELSE <<>>]
        BY <2>7, <3>2 DEF FindDiscoveryUrl
      <4>2. call[u] \in RunningCalls /\ u = t
        BY <1>1, <2>1, <3>2, <4>1, CallShape DEF FindDiscoveryUrl, At, Running
      <4> QED BY <1>1, <4>1, <4>2 DEF At, RunningCalls
    <3>3. ASSUME AnswerConsent(u) PROVE FALSE
      <4>1. PICK pc1 \in {"challenge", "discovery"} :
              call' = [call EXCEPT ![u].pc = pc1, ![u].asks = "nothing", ![u].answered = TRUE]
        BY <2>7, <3>3 DEF AnswerConsent, Refused, AfterConsent
      <4>2. call[u] \in RunningCalls /\ u = t
        BY <1>1, <2>1, <3>3, <4>1, CallShape DEF AnswerConsent, At, Running
      <4> QED BY <1>1, <4>1, <4>2 DEF At, RunningCalls
    <3> QED BY <3>1, <3>2, <3>3
  <2>10. ~(FoundInMemory(u) \/ Post(u) \/ StoreOnDisk(u) \/ AddToMemory(u) \/ Return(u))
    <3>1. ASSUME FoundInMemory(u) PROVE FALSE
      <4>1. PICK p : call' = [call EXCEPT ![u] = Done(p, Req(u))]
        BY <3>1 DEF FoundInMemory
      <4>2. Done(p, Req(u)).pc = "ask"
        BY <2>5, <4>1
      <4> QED BY <4>2 DEF Done
    <3>2. ASSUME Post(u) PROVE FALSE
      <4>1. PICK pc \in {"store", "add"} : \E p :
              call' = [call EXCEPT ![u] = [pc |-> pc, req |-> Req(u), policy |-> p]]
        BY <2>7, <3>2 DEF Post
      <4>2. PICK p : call' = [call EXCEPT ![u] = [pc |-> pc, req |-> Req(u), policy |-> p]]
        BY <4>1
      <4>3. [pc |-> pc, req |-> Req(u), policy |-> p].pc = "ask"
        BY <2>5, <4>2
      <4> QED BY <4>3
    <3>3. ~(StoreOnDisk(u) \/ AddToMemory(u) \/ Return(u))
      BY <2>1, <2>7 DEF StoreOnDisk, AddToMemory, Return, Throw
    <3> QED BY <3>1, <3>2, <3>3
  <2>11. LookAtConsent(u)
    BY <2>4, <2>8, <2>9, <2>10 DEF Step
  <2>12. u = t
    BY <1>1, <2>1, <2>11 DEF LookAtConsent
  <2> QED BY <2>11, <2>12
<1>3. call'[t].asks = ToAsk(Req(t).user, call[t].checked, call[t].tenant)
  BY <1>1, <1>2 DEF LookAtConsent, Req
<1>4. ~IsConsentPresent(Req(t).user, call[t].checked, LoadedServices)
  BY <1>3 DEF ToAsk
<1>5. agreed.service \subseteq LoadedServices
  BY <1>1 DEF Agreements, LoadedServices
<1> QED BY <1>4, <1>5 DEF IsConsentPresent, ServiceAgreed

\* ConsentDBHelper remembers: a service consent given for good is not asked for again,
\* whichever thread gave it, before or after a restart of the program.
THEOREM ServiceConsentIsRemembered == Spec => ServiceConsentRemembered
<1>1. AcquisitionInv /\ [Next]_vars =>
        [\A t \in Threads : At(t, "ask")' /\ ~At(t, "ask") /\ call'[t].asks = "service" =>
           ~ServiceAgreed(Req(t).user, call[t].checked)]_vars
  BY AsksOnlyOnce
<1> QED BY <1>1, AcquisitionInvariant, PTL DEF Spec, ServiceConsentRemembered
=============================================================================
