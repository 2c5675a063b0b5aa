SPECIFICATION Spec
CONSTANTS
  Users = {u1}
  Client = client
  NoThread = none
  MaxLog = 3
  MaxPolicies = 1
  MaxUpdates = 1
  Gaps = FALSE
  Restarts = FALSE
INVARIANTS
  UpdateReplyIsExact
