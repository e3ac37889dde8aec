SPECIFICATION FairSpec
CONSTANTS
    Covers = {c1, c2}
    NoHandler = NoHandler
    Travel = 2
    allowed_steps_ = 2
    allowed_start_steps_ = 1
    Channels = {led1}
    kMaxBrightness = 1
INVARIANT
    AcceptedCommandMoves
