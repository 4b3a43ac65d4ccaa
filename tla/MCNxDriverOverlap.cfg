SPECIFICATION Spec
CONSTANTS
    p1 = p1
    p2 = p2
    Packet = {p1, p2}
    NoPacket = NoPacket
    Group = {g1}
    MaxHeap = 3
    MaxRx = 2
PROPERTIES
    CompletionReleasesItsPacket
