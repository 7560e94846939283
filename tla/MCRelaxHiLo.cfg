SPECIFICATION Spec
CONSTANTS
    NOut = 7
    DataFirst = 4
    RelroLast = 4
    DataSec = 5
    SdataSec = 6
    CLuiMax = 2
    RelaxGp = TRUE
    UseRvc = TRUE
    Pic = FALSE
    CodeOrMerge <- MCCodeOrMerge
    Relocs <- MCRelocs
    Type0 <- MCType
    Sym <- MCSym
    Addend <- MCAddend
    Paired <- MCPaired
    HiOf <- MCHi
    Symbols <- MCSymbols
    Links <- MCLinks
INVARIANTS NoOrphanLow GpReach CLuiReach
