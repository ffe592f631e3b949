SPECIFICATION FairSpec
CONSTANTS
    Leaves <- ForkLeaves
    Dirs <- ForkDirs
    Root = "top"
    HomeOf <- ForkHomeOf
    Texts = {v1, v2}
    NoFile = NoFile
    Faults = {}
INVARIANTS
    TypeOK
    LinkedUnlessMissed
    NothingMovesBelow
PROPERTIES
    RunEnds
    Recovers
