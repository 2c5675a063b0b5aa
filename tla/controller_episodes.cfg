SPECIFICATION Spec
CONSTANTS
  Users = {u1}
  Client = client
  NoThread = none
  MaxLog = 3
  MaxPolicies = 2
  MaxUpdates = 1
  Gaps = TRUE
  Restarts = TRUE
INVARIANTS
  TypeOK
  DefaultStartsFresh
  SetReplyMarksFirstEntry
  UpdateReplyWithinOneEntry
  IntervalReplyCoversEpisode
  EpisodesContiguous
PROPERTIES
  ImplementsLifecycle
