CONSTANTS
  Users = {u1, u2}
  WaitTicks = 3
  MaxCommands = 2
  MaxFaults = 1
SPECIFICATION Spec
INVARIANTS
  TypeOK
  DecidesOnNewState
PROPERTIES
  AppliedInOrder
  ReturnedWasAccepted
