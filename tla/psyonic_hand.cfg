CONSTANTS
  t1 = t1
  t2 = t2
  Workers = {t1, t2}
  Sensed <- SensedAt
  Waypoints = 2
  MaxCalls = 2
  Setups <- SomeSetups
SPECIFICATION FairSpec
CHECK_DEADLOCK FALSE
INVARIANTS
  TypeOK
  ReadsWhatWasSensed
  GraspOfOneCall
PROPERTIES
  LastWaypointIsSent
  StopReturns
