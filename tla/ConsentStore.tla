---------------------------- MODULE ConsentStore ----------------------------
(***************************************************************************)
(* The consents a user has given for good: two files, one for service URLs *)
(* and one for document tracking, and the two caches ConsentDBHelper fills *)
(* when it is first asked.  A consent is a user and a name; names are URLs *)
(* of discovery and license services and the domains of tenants.           *)
(*                                                                         *)
(* Every URL reaches the store with a scheme in front, so the comparison   *)
(* with the bare name of the cloud that would exempt it fails: there is no *)
(* exempted URL.  Publishing passes no consent callback and asks nothing.  *)
(***************************************************************************)
EXTENDS Integers

CONSTANTS Users, Tenants

Cloud == "api.aadrm.com"

DiscoveryUrl(of) == [kind |-> "discovery", of |-> of]
EndUserLicensesUrl(tenant) == [kind |-> "endUserLicenses", of |-> tenant]
DomainName(of) == [kind |-> "domain", of |-> of]

Urls == {DiscoveryUrl(x) : x \in Tenants \cup {Cloud}} \cup {EndUserLicensesUrl(x) : x \in Tenants}
ConsentNames == Urls \cup {DomainName(x) : x \in Tenants}
Consents == Users \X ConsentNames

VARIABLES serviceFile, docFile,       \* the lines of the files
          serviceCache, docCache,     \* the caches
          loaded,                     \* m_init
          agreed                      \* history: the consents given for good, by kind

consentVars == <<serviceFile, docFile, serviceCache, docCache, loaded, agreed>>

-----------------------------------------------------------------------------
ConsentInit ==
  /\ serviceFile = {} /\ docFile = {}
  /\ serviceCache = {} /\ docCache = {}
  /\ loaded = FALSE
  /\ agreed = [service |-> {}, document |-> {}]

\* Mutation of LoadedServices: only the second file stays in the cache.
LoadedServicesLast == IF loaded THEN serviceCache ELSE docFile

\* Initialize reads both files into the cache of the service URLs.
LoadedServices == IF loaded THEN serviceCache ELSE serviceFile \cup docFile

LoadedDocs == IF loaded THEN docCache ELSE {}

Initialize ==
  /\ loaded' = TRUE
  /\ serviceCache' = LoadedServices
  /\ docCache' = LoadedDocs

\* A name and the domains above it.  A discovery server is a host in the domain it
\* serves; a URL with a path is above nothing but itself.
GetPossibleDomainNames(name) ==
  {name} \cup (IF name.kind = "discovery" THEN {DomainName(name.of)} ELSE {})

\* Mutation of IsConsentPresent: anybody's consent will do.
IsConsentPresentOfAnyone(user, name, cache) ==
  \E n \in GetPossibleDomainNames(name), u \in Users : <<u, n>> \in cache

IsConsentPresent(user, name, cache) ==
  \E n \in GetPossibleDomainNames(name) : <<user, n>> \in cache

\* What ConsentCallbackImpl::Consents asks the user: the service consent, and only
\* where none is needed the one for document tracking.
ToAsk(user, url, tenant) ==
  IF ~IsConsentPresent(user, url, LoadedServices) THEN "service"
  ELSE IF ~IsConsentPresent(user, DomainName(tenant), LoadedDocs) THEN "document"
  ELSE "nothing"

\* The consents are looked at: Initialize, and nothing more.
LookAtConsents == Initialize /\ UNCHANGED <<serviceFile, docFile, agreed>>

\* PersistConsentResult, for a consent the user does not want to be asked about again.
PersistConsentResult(kind, user, url, tenant) ==
  LET c == <<user, IF kind = "service" THEN url ELSE DomainName(tenant)>>
  IN  /\ agreed' = [agreed EXCEPT ![kind] = @ \cup {c}]
      /\ IF kind = "service"
           THEN /\ serviceFile' = serviceFile \cup {c}
                /\ serviceCache' = serviceCache \cup {c}
                /\ UNCHANGED <<docFile, docCache>>
           ELSE /\ docFile' = docFile \cup {c}
                /\ docCache' = docCache \cup {c}
                /\ UNCHANGED <<serviceFile, serviceCache>>
      /\ UNCHANGED loaded

\* The program stops and starts again.
ConsentRestart ==
  /\ serviceCache' = {} /\ docCache' = {} /\ loaded' = FALSE
  /\ UNCHANGED <<serviceFile, docFile, agreed>>

-----------------------------------------------------------------------------
\* The types of the state of ConsentDBHelper.
ConsentTypeOK ==
  /\ serviceFile \subseteq Consents /\ docFile \subseteq Consents
  /\ serviceCache \subseteq Consents /\ docCache \subseteq Consents
  /\ loaded \in BOOLEAN
  /\ agreed \in [{"service", "document"} -> SUBSET Consents]

\* The user has agreed for good to a name that covers this one.
AgreedTo(user, name) ==
  \E k \in {"service", "document"}, n \in GetPossibleDomainNames(name) : <<user, n>> \in agreed[k]

\* ... and to a service URL in particular.
ServiceAgreed(user, name) ==
  \E n \in GetPossibleDomainNames(name) : <<user, n>> \in agreed.service
=============================================================================
