CONSTANTS
    NClusters = 6
    CSize = 1
    FatPerSect = 4
    Versions = {"new"}
    Kinds = {"error", "power"}
    MaxCalls = 4
    FaultCalls = 3
    Faults = 1
SPECIFICATION VolumesSpec
INVARIANTS NoCrossLink AllocationExact Kept ReadsBack
PROPERTY ImplementsFileStore
CHECK_DEADLOCK FALSE
