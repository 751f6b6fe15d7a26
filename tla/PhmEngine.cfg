CONSTANTS
  lc = lc
  reg = reg
  a = a
  b = b
  Entities = {1, 2, 3}
  Name <- MCName
  Enabled = {1, 3}
  AutoRestart = {1, 2}
  Prestarted = {1, 2}
  Failing = {3}
  Shared = {1, 3}
  States <- MCStates
  Lifecycle = {lc}
  Registrars = {reg}
SPECIFICATION FairSpec
INVARIANTS StoppedMeansQuiet NoCircularWait RemovedRunsByRestart
PROPERTIES StopReturns EveryEntityIsChecked RemovedIsReleased
