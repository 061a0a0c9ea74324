SPECIFICATION Spec
CONSTANTS
    FileIds <- FewFiles
    MaxOrdinal = 4
    Sizes <- FewSizes
    ImportCounts <- FewImports
    MaxEvents = 3
    MaxBytes = 4
    SegmentTarget = 2
    LastId = 3
    MaxFailures = 1
    MaxCrashes = 2
INVARIANTS
    DurableEventsSurvive
    PublishedIsReadable
    OpenNeverRefuses
CHECK_DEADLOCK FALSE
