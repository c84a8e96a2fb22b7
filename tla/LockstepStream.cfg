SPECIFICATION FairSpec
CONSTANTS
    Delay = 2
    Ring = 3
    Patience = 3
    Pads = {"n"}
    Neutral = "n"
    Token = "token"
    Strays = {}
    Transport = "stream"
    Torn = FALSE
    Hitches = 2
    None = None
    CanLeave = TRUE
    Drifters = {"host"}
    MaxFrame = 8
INVARIANTS
    BacklogBounded
    LatePacketsSurvived
    NoFalseDesync
    DesyncNoticed
PROPERTIES
    FiledInputKept
    WaitEnds
    SessionGoesOn
