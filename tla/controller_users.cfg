SPECIFICATION Spec
CONSTANTS
  Users = {u1, u2}
  Client = client
  NoThread = none
  MaxLog = 1
  MaxPolicies = 2
  MaxUpdates = 1
  Gaps = TRUE
  Restarts = FALSE
SYMMETRY UserSymmetry
INVARIANTS
  ForwardIsStable
  InstallsWhatWasSent
