SPECIFICATION Spec
CONSTANTS
    NSec = 3
    OutSec <- MCOutSec
    SecAlign <- MCSecAlign
    OutAlign <- MCOutAlign
    Rvc <- MCRvc
    Calls <- MCCalls
    His <- MCHis
    Pads <- MCPads
    PadTo <- MCPadTo
    Labels <- MCLabels
    SecOf <- MCSecOf
    Target <- MCTarget
    Rd <- MCRd
    Objects <- MCObjects
    Starts <- MCStarts
    Rounds = 2
    JReach = 24
    CJReach = 16
    IReach = 11
    Rv32 = TRUE
    Pic = FALSE
    NoRelax = FALSE
INVARIANTS TypeOK Separated JumpsInRange PadsAligned AlignErrorOnlyIfMixed
    NothingLeftToShorten FinalLayout
PROPERTIES SectionsNeverMoveUp Terminates
