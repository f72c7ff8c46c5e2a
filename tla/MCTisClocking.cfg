SPECIFICATION FairSpec
CONSTANTS
    n1 = n1
    n2 = n2
    Nodes <- MCNodes
INVARIANTS
    Lockstep
PROPERTIES
    OneStepPerPress
    ComesToRest
    KeepsRunning
    PressIsServed
