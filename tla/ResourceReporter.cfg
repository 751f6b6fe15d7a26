SPECIFICATION MetricsFairSpec
CONSTANTS
    NumSlots = 2
    Metrics <- MCMetrics
    Levels = {1, 2}
    Exhausted = {2}
    Missing = Missing
INVARIANTS StoppedIsQuiet SnapshotIsRecent
PROPERTY LevelIsSeen
