SPECIFICATION Spec
CONSTANTS
  Users = {u1}
  Client = client
  NoThread = none
  MaxLog = 3
  MaxPolicies = 1
  MaxUpdates = 0
  Gaps = TRUE
  Restarts = FALSE
INVARIANTS
  IntervalReplyIsEpisode
