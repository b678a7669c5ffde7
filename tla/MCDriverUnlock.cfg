SPECIFICATION CarefulSpec
CONSTANTS
    Tasks = {a, b}
    Names = {u}
    None = none
    Exclusive = {}
    HasInit = {u}
    HasDeinit = {u}
    OwnerChecked = FALSE
INVARIANTS LockHeld
