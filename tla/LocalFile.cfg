\* Five commits, compaction after every second frame, kills and power losses
CONSTANTS
    CompactAfter = 2
    MaxCommits = 5
    MaxKills = 2
    MaxPowerLosses = 2
    Missing = Missing
SPECIFICATION Spec
INVARIANTS TypeOK AckedRecoverable NeverRefused
CHECK_DEADLOCK FALSE
