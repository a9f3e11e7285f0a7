\* Three messages one way, with more packets in flight and more faults.
CONSTANTS
    Modulus = 8
    SendBuffers = 2
    RecBuffers = 2
    AckSize = 2
    SendAckMax = 1
    FirstIds = {0}
    ClientHands = 3
    ServerHands = 0
    MaxInFlight = 3
    MaxFaults = 2
SPECIFICATION FairReliable
CHECK_DEADLOCK FALSE
PROPERTY AllArrive
