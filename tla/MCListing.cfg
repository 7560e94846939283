SPECIFICATION Spec
CONSTANTS
    Archs = {"rv32i", "rv32ic"}
    ArchOrder <- MCOrder
    Rvc = {"rv32ic"}
    InsnSizes = {4}
    DataSizes = {0, 1}
    Aligns = {4, 8}
    Skips = {0}
    Relaxes = {TRUE, FALSE}
    FragRoom = TRUE
    MaxLines = 4
    Objects <- MCObjects
    SkipZeroes = 4
INVARIANTS ListedAsAssembled OffsetOrder ListedRight
