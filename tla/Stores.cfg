CONSTANTS
  Capacity = 2
  Clients = {x1, x2}
  Severity = {0, 1}
  Times = {1, 2}
  MaxEvents = 3
  Keys = {y1, y2}
  Durations = {0, 2}
  MaxClock = 2
  MaxAlerts = 3
  MaxStored = 3
  SEs = {x1, x2}
  Hours = {y1, y2}
  MaxRecords = 4
SYMMETRY Symmetries
SPECIFICATION StoredSpec
INVARIANTS AlertsAreSpaced MutedIsListed SoundFilesAreComplete FilesAreInOrder
PROPERTY ImplementsLog
