SPECIFICATION Spec
CONSTANTS
    c1 = c1
    c2 = c2
    c3 = c3
    c4 = c4
    Conns = {c1, c2, c3, c4}
    Joiners = {}
    Password <- MCMixed
    Faulty = {c2}
    Cap = 4
    MaxFrames = 0
    Pings = FALSE
    None = None
INVARIANT RoomsReclaimed
INVARIANT NoGhostSeats
