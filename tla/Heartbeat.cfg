CONSTANTS
  Timeout = 2
  MaxBeats = 3
SPECIFICATION FairSpec
INVARIANT AliveIsRecent
PROPERTIES NoFalseAlarm SilenceIsFound
