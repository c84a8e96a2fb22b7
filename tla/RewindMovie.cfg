SPECIFICATION Spec
CONSTANTS
    States = 3
    Interval = 2
    PauseRewind = FALSE
    PauseLoad = FALSE
    Movies <- BothMovies
    MovieLen = 6
    Hasty = FALSE
    MaxFrames = 9
    MaxBorn = 4
    None = None
INVARIANTS
    MovieInStep
    NothingUnwritten
