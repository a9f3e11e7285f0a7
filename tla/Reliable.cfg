\* Both directions, from id 0 and across the wrap of the ids.
CONSTANTS
    Modulus = 8
    SendBuffers = 2
    RecBuffers = 2
    AckSize = 2
    SendAckMax = 1
    FirstIds = {0, 7}
    ClientHands = 3
    ServerHands = 1
    MaxInFlight = 2
    MaxFaults = 1
SPECIFICATION ReliableSpec
CHECK_DEADLOCK FALSE
INVARIANTS ReliableTypeOK AckedIsReceived FullIsNotStuck Window
PROPERTY DeliversInOrder
