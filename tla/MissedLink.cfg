SPECIFICATION Spec
CONSTANTS
    Leaves <- ForkLeaves
    Dirs <- ForkDirs
    Root = "top"
    HomeOf <- ForkHomeOf
    Texts = {v1, v2}
    NoFile = NoFile
    Faults = {}
INVARIANTS
    LinkedFresh
