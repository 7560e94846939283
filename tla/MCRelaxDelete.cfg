SPECIFICATION Spec
CONSTANTS
    Objects <- MCObjects
    NReloc = 10
    NopBytes <- MCNops
    Locals <- MCLocals
    Globals <- MCGlobals
    HashLists <- MCHashLists
    Versioned <- MCVersioned
    Trips = 2
PROPERTIES ImplementsEdit PairsStay
