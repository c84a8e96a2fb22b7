\* 5/3 of a sample a frame, so that every frame leaves a remainder.
SPECIFICATION Spec
CONSTANTS
    Drivers = {"ao", "pipewire", "sdl"}
    HI = 5
    LO = 3
    FrameLimit = 7
    ReopenLimit = 1
    Period = 1
    Frame = 2
    Plain = Plain
    Mark = Mark
    Noise = Noise
    BlockSizes = {1, 2}
    Quanta = {2}
    MinFrames = 3
    MaxFrames = 6
    StartTarget = 1
    MaxTarget = 2
    Headroom = 4
    Wrap = 7
    FormatLimit = 2
INVARIANTS
    SoundKeepsStep
    EverySampleOnce
PROPERTIES
    RequestsServed
    SamplesInOrder
    PrimingEnds
\* A process that has shut its sound down stops; so does one at a bound.
CHECK_DEADLOCK FALSE
