----------------------------- MODULE Acquisition -----------------------------
(***************************************************************************)
(* Getting a policy: UserPolicy::Acquire for a license at hand, and        *)
(* UserPolicy::Create, which publishes a new one.  An acquisition looks in *)
(* the memory cache of policies, then on disk, finds the service of the    *)
(* license, asks the user's consent, authenticates and posts.  Publishing  *)
(* finds the service of the user's own tenant, and remembers it in a       *)
(* static map that acquisitions look at too.                               *)
(*                                                                         *)
(* Composes the disk cache (ResponseCache), the consents (ConsentStore)    *)
(* and the calls of several threads.  The services, DNS, the callbacks and *)
(* the network are chosen at every step: any request may fail, for a bad   *)
(* answer, the timeout of 60 s or a cancellation.  The memory cache is     *)
(* behind a mutex; the static map and the consents are behind none, and    *)
(* what an insertion that races with another does is not modelled beyond   *)
(* the crash that Restart allows at every step.                            *)
(***************************************************************************)
EXTENDS ResponseCache, ConsentStore, SequencesExt

CONSTANTS Licenses,
          TenantOf,      \* license -> the tenant it names
          Home,          \* user -> the tenant in the email address
          Requests,      \* the calls the application may make, once each (bound)
          MaxCalls,      \* how many of them it makes (bound)
          MaxPolicies    \* dwMaxCacheEntries, 32

Anyone == ""             \* an empty user id
Unknown == "Unknown"

ASSUME AcquisitionConstants ==
  /\ TenantOf \in [Licenses -> Tenants]
  /\ Home \in [Users \ {Anyone} -> Tenants]
  /\ MaxPolicies \in Nat \ {0} /\ MaxCalls \in Nat
  /\ \A r \in Requests :
       /\ r.kind \in {"acquire", "custom", "template"}
       /\ r.user \in Users /\ r.license \in Licenses
       /\ {r.consents, r.inMemory, r.onDisk, r.offline} \subseteq BOOLEAN
       /\ r.kind # "acquire" => r.user # Anyone

VARIABLES policies,      \* s_pCachedProtectionPolicies, the latest used first
          urlMap,        \* serviceDiscoveryDetailsCache: user -> tenant or Unknown
          call,          \* thread -> its call
          todo,          \* the requests not made yet
          granted        \* history: the (user, license) a service gave a key for

ownVars == <<policies, urlMap, call, todo, granted>>
vars == <<cacheVars, consentVars, ownVars>>

-----------------------------------------------------------------------------
Idle == [pc |-> "idle"]

Init ==
  /\ CacheInit
  /\ ConsentInit
  /\ policies = <<>>
  /\ urlMap = [u \in Users |-> Unknown]
  /\ call = [t \in Threads |-> Idle]
  /\ todo = Requests
  /\ granted = {}

At(t, pc) == call[t].pc = pc
Req(t) == call[t].req
Goto(t, pc) == call' = [call EXCEPT ![t].pc = pc]
Throw(t) == call' = [call EXCEPT ![t] = Idle]

\* tenant: whose service; checked: the URL the user's consent was looked up for, or
\* none yet; asks: what the user is asked; answered: the user did not refuse.
Call(pc, r) ==
  [pc |-> pc, req |-> r, tenant |-> Unknown, checked |-> <<>>, asks |-> "nothing",
   answered |-> FALSE]

Begin(t, r) ==
  /\ At(t, "idle") /\ r \in todo /\ Cardinality(Requests \ todo) < MaxCalls
  /\ todo' = todo \ {r}
  /\ call' = [call EXCEPT ![t] = Call(IF r.kind = "acquire" THEN "memory" ELSE "urls", r)]
  /\ UNCHANGED <<cacheVars, consentVars, policies, urlMap, granted>>

(* The policies in memory *)

\* Mutation of Matches: whose policy it is is not compared.
MatchesLicense(p, license, requester) == p.license = license

\* An empty user id takes anybody's policy.
Matches(p, license, requester) ==
  p.license = license /\ (requester # Anyone => p.requester = requester)

Matching(r) == {i \in DOMAIN policies : Matches(policies[i], r.license, r.user)}

Done(p, r) == [pc |-> "done", req |-> r, policy |-> p]

\* GetCachedProtectionPolicy: the first match, moved to the front.
FoundInMemory(t) ==
  LET r == Req(t)
      i == CHOOSE j \in Matching(r) : \A k \in Matching(r) : j <= k
  IN  /\ At(t, "memory") /\ Matching(r) # {}
      /\ policies' = <<policies[i]>> \o RemoveAt(policies, i)
      /\ call' = [call EXCEPT ![t] = Done(policies[i], r)]
      /\ UNCHANGED <<cacheVars, consentVars, urlMap, todo, granted>>

\* GetUsageRestrictions throws where the application is offline.
GoOnline(t) == IF Req(t).offline THEN Throw(t) ELSE Goto(t, "urls")

NotInMemory(t) ==
  /\ At(t, "memory") /\ Matching(Req(t)) = {}
  /\ IF Req(t).onDisk THEN Goto(t, "disk") ELSE GoOnline(t)
  /\ UNCHANGED <<cacheVars, consentVars, policies, urlMap, todo, granted>>

\* TryGetFromCache finds nothing; without the folder its exception leaves the call.
LookUpOnDisk(t) ==
  /\ At(t, "disk") /\ Unlocked
  /\ IF cacheFolder THEN GoOnline(t) ELSE Throw(t)
  /\ UNCHANGED <<cacheVars, consentVars, policies, urlMap, todo, granted>>

(* RestServiceUrlClient *)

\* The license names the tenant of an acquisition, the email that of publishing.
TenantFor(r) == IF r.kind = "acquire" THEN TenantOf[r.license] ELSE Home[r.user]

\* Consent is asked of acquisitions the application gave a consent callback for.
AsksConsent(r) == r.kind = "acquire" /\ r.consents

\* FindCache: details in the map are used for acquisitions and publishing alike,
\* an acquisition first asks for consent to the URL it is about to use.
FindUrl(t) ==
  LET r == Req(t)
      home == urlMap[r.user]
  IN  /\ At(t, "urls")
      /\ call' = [call EXCEPT ![t] =
           IF home = Unknown THEN [@ EXCEPT !.pc = "discover", !.tenant = TenantFor(r)]
           ELSE [@ EXCEPT !.pc = IF AsksConsent(r) THEN "consent" ELSE "challenge",
                          !.tenant = home,
                          !.checked = IF AsksConsent(r) THEN EndUserLicensesUrl(home) ELSE <<>>]]
      /\ UNCHANGED <<cacheVars, consentVars, policies, urlMap, todo, granted>>

\* GetServiceDiscoveryDetails: nothing of it is on disk; DNS gives the discovery
\* server of the domain, or the cloud's is taken.
FindDiscoveryUrl(t) ==
  /\ At(t, "discover") /\ Unlocked
  /\ IF ~cacheFolder THEN Throw(t)
     ELSE \E of \in {call[t].tenant, Cloud} :
            call' = [call EXCEPT ![t].pc = IF AsksConsent(Req(t)) THEN "consent" ELSE "discovery",
                                 ![t].checked = IF AsksConsent(Req(t)) THEN DiscoveryUrl(of)
                                                ELSE <<>>]
  /\ UNCHANGED <<cacheVars, consentVars, policies, urlMap, todo, granted>>

\* Mutation of StoresUrl: GetEndUserLicensesUrl stores what it found too.
StoresUrlAlways(r) == TRUE

\* GetPublishUrl and the others for publishing store it, GetEndUserLicensesUrl does not.
StoresUrl(r) == r.kind # "acquire"

\* The discovery server is asked; it answers with all endpoints, or the call throws.
Discover(t) ==
  LET r == Req(t)
  IN  /\ At(t, "discovery")
      /\ \/ /\ Goto(t, "challenge")
            /\ urlMap' = IF StoresUrl(r) THEN [urlMap EXCEPT ![r.user] = call[t].tenant] ELSE urlMap
         \/ Throw(t) /\ UNCHANGED urlMap
      /\ UNCHANGED <<cacheVars, consentVars, policies, todo, granted>>

(* ConsentCallbackImpl::Consents *)

\* After the consent: to the discovery server, or to the service in the map.
AfterConsent(t) == IF call[t].checked.kind = "discovery" THEN "discovery" ELSE "challenge"

LookAtConsent(t) ==
  LET c == call[t]
      asks == ToAsk(c.req.user, c.checked, c.tenant)
  IN  /\ At(t, "consent")
      /\ LookAtConsents
      /\ call' = [call EXCEPT ![t].asks = asks,
                              ![t].pc = IF asks = "nothing" THEN AfterConsent(t) ELSE "ask"]
      /\ UNCHANGED <<cacheVars, policies, urlMap, todo, granted>>

\* Mutation of Refused: the call goes on.
RefusedGoesOn(t) == call' = [call EXCEPT ![t].pc = AfterConsent(t)]

Refused(t) == Throw(t)

\* The user's answer: yes for good, yes or none this time, or no.
AnswerConsent(t) ==
  LET c == call[t]
      goOn == call' = [call EXCEPT ![t].pc = AfterConsent(t), ![t].asks = "nothing",
                                   ![t].answered = TRUE]
  IN  /\ At(t, "ask")
      /\ \/ goOn /\ PersistConsentResult(c.asks, c.req.user, c.checked, c.tenant)
         \/ goOn /\ UNCHANGED consentVars
         \/ Refused(t) /\ UNCHANGED consentVars
      /\ UNCHANGED <<cacheVars, policies, urlMap, todo, granted>>

(* RestHttpClient::Post *)

\* The service must answer 401 with a challenge, the application must give a token.
Authenticate(t) ==
  /\ At(t, "challenge")
  /\ Goto(t, "post") \/ Throw(t)
  /\ UNCHANGED <<cacheVars, consentVars, policies, urlMap, todo, granted>>

Policy(r, access) == [license |-> r.license, access |-> access,
                      requester |-> IF r.kind = "template" THEN Anyone ELSE r.user]

\* The answer.  A granted license goes to disk if it may be used offline and has not
\* expired, or stays off it; a denial is a policy as well.
Post(t) ==
  LET r == Req(t)
      Answer(pc, access) ==
        call' = [call EXCEPT ![t] = [pc |-> pc, req |-> r, policy |-> Policy(r, access)]]
  IN  /\ At(t, "post")
      /\ \/ /\ granted' = granted \cup {<<r.user, r.license>>}
            /\ \/ r.kind = "acquire" /\ r.onDisk /\ Answer("store", "granted") /\ StoreBegin(t)
               \/ Answer("add", "granted") /\ UNCHANGED cacheVars
         \/ r.kind = "acquire" /\ Answer("add", "denied") /\ UNCHANGED <<cacheVars, granted>>
         \/ Throw(t) /\ UNCHANGED <<cacheVars, granted>>
      /\ UNCHANGED <<consentVars, policies, urlMap, todo>>

\* Store goes through its steps; the call goes on when it has returned.
StoreOnDisk(t) ==
  /\ At(t, "store") /\ StoreStep(t)
  /\ IF at'[t] = "out" THEN Goto(t, "add") ELSE UNCHANGED call
  /\ UNCHANGED <<consentVars, policies, urlMap, todo, granted>>

Cached(r) == r.kind = "custom" \/ (r.kind = "acquire" /\ r.inMemory)

\* Mutation of Trimmed: the list grows.
TrimmedNot(s) == s

\* The least recently used policy goes when there are too many.
Trimmed(s) == SubSeq(s, 1, IF Len(s) > MaxPolicies THEN MaxPolicies ELSE Len(s))

\* AddProtectionPolicyToCache.
AddToMemory(t) ==
  /\ At(t, "add")
  /\ policies' = IF Cached(Req(t)) THEN Trimmed(<<call[t].policy>> \o policies) ELSE policies
  /\ Goto(t, "done")
  /\ UNCHANGED <<cacheVars, consentVars, urlMap, todo, granted>>

\* UserPolicy::Acquire hands out the policy if access is granted, and only the status
\* otherwise.
Success(t) == At(t, "done") /\ call[t].policy.access = "granted"

Return(t) ==
  /\ At(t, "done")
  /\ call' = [call EXCEPT ![t] = Idle]
  /\ UNCHANGED <<cacheVars, consentVars, policies, urlMap, todo, granted>>

Step(t) ==
  \/ FoundInMemory(t) \/ NotInMemory(t) \/ LookUpOnDisk(t)
  \/ FindUrl(t) \/ FindDiscoveryUrl(t) \/ Discover(t)
  \/ LookAtConsent(t) \/ AnswerConsent(t)
  \/ Authenticate(t) \/ Post(t) \/ StoreOnDisk(t) \/ AddToMemory(t) \/ Return(t)

\* The program stops and starts again; the files remain.
Restart ==
  /\ CacheRestart /\ ConsentRestart
  /\ policies' = <<>>
  /\ urlMap' = [u \in Users |-> Unknown]
  /\ call' = [t \in Threads |-> Idle]
  /\ UNCHANGED <<todo, granted>>

Next ==
  \/ \E t \in Threads : Step(t) \/ \E r \in Requests : Begin(t, r)
  \/ Restart

\* Threads keep running, requests end by an answer or the timeout, callbacks return.
Spec == Init /\ [][Next]_vars /\ \A t \in Threads : WF_vars(Step(t))
-----------------------------------------------------------------------------
Policies == [license : Licenses, access : {"granted", "denied"}, requester : Users \cup {Anyone}]
RunningCalls ==
  [pc : {"memory", "disk", "urls", "discover", "consent", "ask", "discovery", "challenge",
         "post"},
   req : Requests, tenant : Tenants \cup {Unknown}, checked : Urls \cup {<<>>},
   asks : {"nothing", "service", "document"}, answered : BOOLEAN]
AnsweredCalls == [pc : {"store", "add", "done"}, req : Requests, policy : Policies]
Calls == {Idle} \cup RunningCalls \cup AnsweredCalls

\* The types of the state of the calls, the caches and the consents; the memory cache
\* has at most dwMaxCacheEntries policies, and a thread is in Store only in the call
\* that stores.
TypeOK ==
  /\ CacheTypeOK /\ ConsentTypeOK
  /\ policies \in Seq(Policies) /\ Len(policies) <= MaxPolicies
  /\ urlMap \in [Users -> Tenants \cup {Unknown}]
  /\ call \in [Threads -> Calls]
  /\ todo \subseteq Requests
  /\ granted \subseteq Users \X Licenses
  /\ \A t \in Threads : at[t] # "out" <=> At(t, "store")

\* A call that succeeds has a policy of its own license, and some service has given a
\* key for that license to that user, however the policy came to be in memory; with
\* an empty user id, to somebody.
PolicyWasGranted ==
  \A t \in Threads : Success(t) =>
    LET r == Req(t)
    IN  /\ call[t].policy.license = r.license
        /\ \E g \in granted : g[2] = r.license /\ (r.user # Anyone => g[1] = r.user)

Contacting(t) == call[t].pc \in {"discovery", "challenge", "post"}

\* With a consent callback, no server is contacted for a license before this user has
\* answered otherwise than no in this call or has agreed for good, in this or an
\* earlier run of the program, to a name that covers the URL the consent is for.
ContactsAgreed ==
  \A t \in Threads : Contacting(t) /\ AsksConsent(Req(t)) =>
    call[t].answered \/ AgreedTo(Req(t).user, call[t].checked)

\* Publishing goes to the tenant of the user's email, whatever the static map has
\* got from other calls, for other users or for licenses of other tenants.
PublishesAtHome ==
  \A t \in Threads : Contacting(t) /\ Req(t).kind # "acquire" =>
    call[t].tenant = Home[Req(t).user]

\* What the comment in RestServiceUrlClient::GetServiceDiscoveryDetails says: "In
\* consumption we use the domains from the publish license".  It does not hold.
AcquiresAtLicense ==
  \A t \in Threads : Contacting(t) /\ Req(t).kind = "acquire" =>
    call[t].tenant = TenantOf[Req(t).license]

\* A service consent given for good is not asked for again, in no thread and after no
\* restart.
ServiceConsentRemembered ==
  [][\A t \in Threads : At(t, "ask")' /\ ~At(t, "ask") /\ call'[t].asks = "service" =>
       ~ServiceAgreed(Req(t).user, call[t].checked)]_vars

\* Every call returns or throws, unless some thread has entered LaunchCleanup: then
\* only those calls are stuck that want the mutex of the disk cache.
CallsReturn ==
  \A t \in Threads :
    ~At(t, "idle") ~> (At(t, "idle") \/ (Launched /\ call[t].pc \in {"disk", "discover", "store"}))
=============================================================================
