SPECIFICATION CarefulSpec
CONSTANTS
    Tasks = {a, b, c}
    Names = {u, v}
    None = none
    Exclusive = {v}
    HasInit = {u, v}
    HasDeinit = {u}
    OwnerChecked = TRUE
INVARIANTS LockHeld OpenListExact IoOnReadyDriver
