CONSTANTS
  lc = lc
  reg = reg
  a = a
  b = b
  Entities = {1, 2, 3}
  Name <- MCName
  Enabled = {1, 3}
  AutoRestart = {1, 2}
  Prestarted = {}
  Failing = {3}
  Shared = {}
  States <- MCStates
  Lifecycle = {lc}
  Registrars = {reg}
SPECIFICATION Spec
INVARIANT NoSelfDeadlock
