SPECIFICATION Spec
CONSTANTS
    States = 3
    Interval = 2
    PauseRewind = TRUE
    PauseLoad = TRUE
    Movies <- NoMovies
    MovieLen = 0
    Hasty = FALSE
    MaxFrames = 11
    MaxBorn = 5
    None = None
INVARIANT TypeOK
 
