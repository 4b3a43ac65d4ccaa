SPECIFICATION MCSpec
CONSTANTS
    Thread = {app, aux}
    Nobody = nobody
    Id = {i1, i2}
    Invalid = invalid
    MaxTcpCalls = 3
    Addresses <- MCAddresses
    Texts <- MCTexts
    Peers <- MCPeers
CHECK_DEADLOCK FALSE
INVARIANTS
    IotSocketsOwned
    NullOnlyBeforeHandshake
    AddressesSound
PROPERTIES
    CallsReturn
