SPECIFICATION Spec
CONSTANTS
    Bool = {"B"}
    Tristate = {"T"}
    ModulesSym = "B"
    Item <- MCItem
    MaxLeaves = 4
INVARIANTS
    MeaningKept
    EqualsAgree
    BinarySubmenuDepends
