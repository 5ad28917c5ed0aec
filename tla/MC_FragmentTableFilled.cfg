CONSTANTS
    Offsets <- MCOffsets
    InodeCounts <- MCInodeCounts
    FragmentCounts <- MCFragmentCounts
    IdCounts <- MCIdCounts
    METADATA_SIZE = 4
    FRAGMENT_ENTRY_SIZE = 2
    LOOKUP_ENTRY_SIZE = 1
    INDEX_ENTRY_SIZE = 1
SPECIFICATION Spec
CHECK_DEADLOCK FALSE
INVARIANT FragmentTableFilled
