CHECK_DEADLOCK FALSE
SPECIFICATION Spec
CONSTANTS
    Bool = {"A"}
    Tristate = {"T", "CH"}
    ModulesSym = "A"
    Configs = {"A", "T"}
    ChoiceSyms = {"CH"}
    Conditions <- MCConditions
    Selected <- MCSelected
    MaxEntries = 3
    MaxOptions = 2
INVARIANTS
    OrderKept
    ConditionsKept
    SelectsKept
    DirectKept
    SubmenuDepends
    ValuesKept
