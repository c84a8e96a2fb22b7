SPECIFICATION Spec
CONSTANTS
    Machines = {"host", "g1"}
    MaxSockets = 3
    None = None
    Host = "host"
    Modes = {"udp", "tcp", "relay"}
    Games = {"game", "other"}
    Attempts = 2
    Delay = 1
    Meddling = FALSE
    Bounds <- MCBounds
    MaxTokens = 2
    MaxFrames = 2
    MaxLoads = 1
INVARIANTS
    HandoverSound
    SocketsSound
    PlayersPauseKept
    
    ExchangesAreFrames
PROPERTIES
    KeepsPact
    ConnectUsedRight
