SPECIFICATION Spec
CONSTANTS
    Stations = {mcu, wifi}
    Sizes = {1}
    USIP_UART_SKB_NUM = 2
    USIP_MAX_ARQ_TIMES = 1
    USIP_SEQ_MAX = 1
    MaxSent = 2
    MaxFaults = 2
    MaxLate = 0
CHECK_DEADLOCK FALSE
INVARIANT OkMeansReceived
