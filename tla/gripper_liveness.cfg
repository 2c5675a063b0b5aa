CONSTANTS
  Users = {u1}
  WaitTicks = 3
  MaxCommands = 2
  MaxFaults = 2
SPECIFICATION FairSpec
PROPERTIES
  CallReturns
  NewestIsApplied
