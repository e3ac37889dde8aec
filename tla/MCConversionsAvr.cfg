SPECIFICATION ConversionsSpec
CONSTANTS
    kMaxUInt = 255
    IntWidth = 16
    Texts <- MCTexts
    Cycles <- MCCycles
    Micros <- MCMicros
    Nanos <- MCNanos
    Events <- MCEvents
INVARIANT
    PeriodAsAsked
