SPECIFICATION Spec
CONSTANTS
    Owners = {a, b}
    MaxByte = 4
    MaxLocks = 4
INVARIANTS SegmentsMatchBytes SegmentsMerged
