SPECIFICATION FairSpec
CONSTANTS
    c1 = c1
    c2 = c2
    c3 = c3
    c4 = c4
    Conns = {c1, c2}
    Joiners = {c2}
    Password <- MCOpen
    Faulty = {}
    Cap = 2
    MaxFrames = 2
    Pings = TRUE
    None = None
INVARIANT TypeOK
INVARIANT InOrder
INVARIANT AnnouncedFirst
PROPERTY PairingCompletes
PROPERTY SurvivorInformed
