CONSTANTS
  res = res
  cus = cus
  alv = alv
  Sources = {res, cus, alv}
  Monitors = {res, cus}
  EventType <- MCEventType
  MonitorConfigs <- MCMonitorConfigs
  Callers = {cus}
  MaxPending = 0
SPECIFICATION Spec
INVARIANTS CounterIsEvidence ObserverKnowsState
PROPERTIES OnlyRecoveryLowers PersistentErrorIsRaised ImplementsAlarm
