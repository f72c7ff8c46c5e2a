SPECIFICATION Spec
CONSTANTS
    Names <- MCNames
    ASM_SIZE = 16
    Scripts <- MCTexts
INVARIANTS
    TypeOK
    TextBecomesProgram
    ListingReadsBack
    RunsTheProgramOnly
PROPERTY
    TornIsHarmless
