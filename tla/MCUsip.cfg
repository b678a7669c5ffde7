SPECIFICATION Spec
CONSTANTS
    Stations = {mcu, wifi}
    Sizes = {0, 1, 2}
    USIP_UART_SKB_NUM = 2
    USIP_MAX_ARQ_TIMES = 2
    USIP_SEQ_MAX = 1
    MaxSent = 2
    MaxFaults = 1
    MaxLate = 1
SYMMETRY Alike
CHECK_DEADLOCK FALSE
INVARIANTS ExactlyOnce AwaitedOkMeansReceived NeverStuck InStep NoFrameForgotten
