\* A publisher started twice, a browser started any number of times.
CONSTANTS
    MaxStarts = 2
    MaxQueries = 1
    MaxPackets = 1
    InitialAnnounces = 1
SPECIFICATION Spec
INVARIANT StopIsQuiet
PROPERTIES
    StopReturns
    DeviceFound
