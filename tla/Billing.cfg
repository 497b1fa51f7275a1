SPECIFICATION FairSpec
CONSTANTS
  Users = {u1, u2}
  Invites = {i1, i2}
  ApiKeys = {k1}
  Outsiders <- MCOutsiders
  Workers = {w1, w2}
  Subs = {s1}
  FreeLimit = 1
  PaidLimits <- MCLimits
  Priced = {"starter"}
  MaxRetries = 2
  MaxRows = 2
  Budgets <- MCBudgets
CHECK_DEADLOCK FALSE
INVARIANTS TypeOK NothingOutlivesTenant InvitesUsedOnce SsoRecordMatches EventsHandledOnce DevicesMatchPlan LastEventDecides OvershootBounded
PROPERTIES LastAdminDecides EventsSettle
