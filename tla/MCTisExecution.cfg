SPECIFICATION Spec
CONSTANTS
    Programs <- MCAnyPrograms
    Patches <- MCPatches
    NeighbourValues <- MCValues
    Wired <- MCPorts
INVARIANTS
    TypeOK
    OneLine
    PcInProgram
PROPERTIES
    NoPhantomRead
    LastFollowsAny
