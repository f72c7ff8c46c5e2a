SPECIFICATION FairSpec
CONSTANTS
    BufferLength = 2
    Programs <- MCPrograms
    Outcome <- MCOutcome
    Inputs = 3
    Outputs = 2
INVARIANTS
    ExactUnlessCollided
    NeverReordered
PROPERTIES
    PartsAsAssumed
    Drains
