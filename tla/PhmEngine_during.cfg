CONSTANTS
  lc = lc
  reg = reg
  a = a
  b = b
  Entities = {1, 3}
  Name <- MCName
  Enabled = {1, 3}
  AutoRestart = {1}
  Prestarted = {1, 3}
  Failing = {}
  Shared = {1, 3}
  States <- MCStates
  Lifecycle = {lc, reg}
  Registrars = {reg}
SPECIFICATION Spec
INVARIANT NeverTerminates
\* The process may have ended, or start() may wait for itself.
CHECK_DEADLOCK FALSE
