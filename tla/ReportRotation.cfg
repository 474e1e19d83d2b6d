CONSTANTS
    MappingIDs = {1, 2, 3, 4, 5}
    maxReportedCounters = 2
SPECIFICATION Spec
INVARIANT RotationCovers
PROPERTY NoneStarves
