SPECIFICATION FairSpec
CONSTANTS
    s1 = s1
    s2 = s2
    s3 = s3
    Socket = {s1, s2, s3}
    ESOCK = ESOCK
    MaxRetries = 2
INVARIANTS
    ConnectionAccounted
    SessionFollowsSocket
PROPERTIES
    ConnectReturns
