SPECIFICATION Spec
CONSTANTS
    Delay = 1
    Ring = 2
    Patience = 1
    Pads = {"n", "b"}
    Neutral = "n"
    Token = "token"
    Strays <- MCStrays
    Transport = "udp"
    Torn = FALSE
    Hitches = None
    None = None
    CanLeave = TRUE
    Drifters = {}
    MaxFrame = 4
INVARIANTS
    TypeOK
    Agreement
PROPERTY
    PlaysTheSharedTimeline
