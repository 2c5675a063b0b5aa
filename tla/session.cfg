CONSTANTS
  u1 = u1
  u2 = u2
  Callers = {u1, u2}
  Grasper = g
  Scenarios <- MCScenarios
  Goals = {3}
  Times = {0, 1, 2}
  Rest = 2
  GraspSteps = 3
  DefaultSteps = 3
  WarmUp = 3
CHECK_DEADLOCK FALSE
SPECIFICATION Spec
INVARIANTS
  TypeOK
  ReturnsItsEpisode
  UpdateIndexTookEffect
  GrasperKnowsWhere
PROPERTIES
  MovesSmoothly
