SPECIFICATION RunSpec
CONSTANTS
    Programs <- MCIsaPrograms
    Patches <- MCNoPatches
    NeighbourValues <- MCValues
    Wired <- MCPorts
PROPERTIES
    CpuSpec
