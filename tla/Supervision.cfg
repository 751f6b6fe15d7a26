CONSTANTS
  Sources <- MCSources
  Monitors <- MCSources
  EventType <- MCEventType
  MonitorConfigs <- MCConfigs
  Callers = {}
  MaxPending = 0
  Registered0 <- MCRegistered
  Pids = {1, 2}
  Usages = {"zero", "warn", "error"}
SPECIFICATION SFairSpec
INVARIANT AlarmHasCause
PROPERTIES CrashIsRaised  OverloadIsRaised
