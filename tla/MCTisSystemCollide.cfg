SPECIFICATION Spec
CONSTANTS
    BufferLength = 2
    Programs <- MCCopyOnly
    Outcome <- MCOutcome
    Inputs = 3
    Outputs = 3
INVARIANT
    Exact
