CHECK_DEADLOCK FALSE
SPECIFICATION Spec
CONSTANTS
    Bool = {"MODULES", "A", "B", "X", "Y", "CH"}
    Tristate = {}
    Number = {"N", "L"}
    Numeral = {"0", "3", "5"}
    NumberOf <- MCNumberOf
    ModulesSym = "MODULES"
    Kconfigs <- MCAll
INVARIANTS
    CyclesFound
    SearchClean
    OrderFree
