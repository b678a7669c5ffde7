SPECIFICATION Spec
CONSTANTS
    Apps = {a, b}
    Rcv = rcv
    Nobody = nobody
    SOCKMAX = 2
    RCVCACHE = 5
    StreamLens = {3}
    DatagramLens = {1, 3}
    MaxChunk = 2
    MaxSocks = 2
    MaxFrames = 2
    MaxSends = 1
    MaxLookups = 1
    MaxLate = 0
SYMMETRY Alike
CHECK_DEADLOCK FALSE
INVARIANTS StreamIntact DatagramsWhole  SendInSequence
