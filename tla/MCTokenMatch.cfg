SPECIFICATION Spec
CONSTANTS
  h1 = h1
  h2 = h2
  r1 = r1
  r2 = r2
  u1 = u1
  u2 = u2
  Handlers <- MCHandlers
  Resources <- MCResources
  Users <- MCUsers
  NoUser = NoUser
  NoItem = NoItem
  NoKey = NoKey
  Empty = Empty
  NoFile = NoFile
  EmptyFile = EmptyFile
  NoRequest = NoRequest
  Tenantless = Tenantless
  Tenant = Tenant
  Authorities = {Tenantless, Tenant}
  StartAuthorities = {Tenantless, Tenant}
  InitialFiles <- MCFiles
  Requests <- MCRequests
  Replies <- MCReplies
  Maintenance = {"readItems", "deleteItem", "clear"}
  Margin = 1
  IntLimit = 3
  Lifetime = 2
  MaxTime = 1
  MaxCalls = 2
INVARIANT MatchingItemIsTaken
