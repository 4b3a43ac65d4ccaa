SPECIFICATION TcpSpec
CONSTANTS
    Thread = {app, aux}
    Nobody = nobody
    Id = {i1, i2}
    Invalid = invalid
    MaxTcpCalls = 1
CHECK_DEADLOCK FALSE
PROPERTIES
    SetTimeoutReturns
