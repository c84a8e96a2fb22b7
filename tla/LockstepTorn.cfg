SPECIFICATION Spec
CONSTANTS
    Delay = 1
    Ring = 2
    Patience = 2
    Pads = {"n"}
    Neutral = "n"
    Token = "token"
    Strays = {}
    Transport = "stream"
    Torn = TRUE
    Hitches = 1
    None = None
    CanLeave = FALSE
    Drifters = {}
    MaxFrame = 4
INVARIANT
    LatePacketsSurvived
