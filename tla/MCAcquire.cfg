SPECIFICATION Spec
CONSTANTS
  t1 = t1
  t2 = t2
  Threads = {t1, t2}
  Frequency = 1
  Users <- MCUsers
  Tenants <- MCTenants
  Licenses <- MCLicenses
  TenantOf <- MCTenantOf
  Home <- MCHome
  Requests <- MCRequests
  MaxCalls = 3
  MaxPolicies = 1
INVARIANTS
  TypeOK
  HangAfterFrequency
  PolicyWasGranted
  ContactsAgreed
  PublishesAtHome
PROPERTY
  ServiceConsentRemembered
  CallsReturn
