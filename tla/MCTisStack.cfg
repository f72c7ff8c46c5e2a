SPECIFICATION Spec
CONSTANTS
    BufferLength = 3
    HostWords <- MCHostWords
    Configs <- MCConfigs
    NeighbourValues <- MCNeighbourValues
    Wired <- MCAllPorts
INVARIANTS
    TypeOK
    RingOK
    PromisesKept
PROPERTIES
    DequeSpec
