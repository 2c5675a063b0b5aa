CONSTANTS
  Envs = {"bullet", "mujoco", "habitat"}
  Steps = 2
  MaxCalls = 5
  MaxMoves = 1
SPECIFICATION FairSpec
CHECK_DEADLOCK FALSE
INVARIANTS
  TypeOK
  SetterAlone
  StateFollowsCommand
PROPERTIES
  CallReturns
  MirrorFollows
