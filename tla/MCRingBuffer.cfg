SPECIFICATION RingSpec
CONSTANTS
    Bytes = {0, 1}
    RingLen = 4
    MaxLen = 5
INVARIANTS RingTypeOK NoOverrun
PROPERTIES StreamRefinement
