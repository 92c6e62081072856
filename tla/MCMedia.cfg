SPECIFICATION FairSpec
CONSTANTS
    REPLAY_WINDOW = 4
    WORD = 2
    HISTORY = 4
    MaxFrames = 5
    Targets <- MCTargets
INVARIANTS
    MediaTypeOK
    SlideMovesTheBitmap
    ResendIsUseful
    SlotsAccountedFor
PROPERTIES
    OnceSpec
    PlayedInOrder
    PlaybackDrains
