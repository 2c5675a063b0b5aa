SPECIFICATION FairSpec
CONSTANTS
  Users = {u1, u2}
  Client = client
  NoThread = none
  MaxLog = 0
  MaxPolicies = 1
  MaxUpdates = 0
  Gaps = FALSE
  Restarts = TRUE
INVARIANTS
  NoCircularWait
PROPERTIES
  EveryRequestReturns
  TerminatingIsServed
