SPECIFICATION Spec
CONSTANTS
    Parts = {"saves", "patch", "hdma", "msu"}
    Moments = {Moment}
    Srams = {Blank, Game}
    Blank = Blank
    Torn = Torn
    None = None
    Slots = 2
    Count = 3
    SettingSets <- SomeSettings
    AutoInMovies = FALSE
    Patches <- SomePatches
    Excess <- SomeExcess
    Marker = 3
    Buffer = 2
    Headers = {0, 1}
    maxromspace = 3
    Original = 8
    FF = 9
    Half = 4
    Width = 2
    Tables <- SomeTables
    Indirects = {TRUE, FALSE}
    TrackBytes = {0, 1}
    Tracks <- SomeTracks
    Step = 3
    Rate = 2
    Halves = FALSE
INVARIANTS
    
    LoadsSound
    TracksSound
    PatchedAsSaid
PROPERTIES
    QuietGameSaved
    PatchEnds
    WalksTable
\* A machine that is off and a patch that is applied may stay so.
CHECK_DEADLOCK FALSE
