SPECIFICATION SequentialSpec
CONSTANTS
    Dealers = {a, b, c}
    Null = null
    Slots = 2
INVARIANTS DealerGetsItsFrame RegistrationKept
