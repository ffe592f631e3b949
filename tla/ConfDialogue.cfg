SPECIFICATION DialogueSpec
CONSTANTS
    Bool = {"MODULES", "B", "X", "Y", "CH"}
    Tristate = {"A", "C", "D"}
    Number = {"N"}
    Numeral = {"0", "3"}
    NumberOf <- MCNumberOf
    ModulesSym = "MODULES"
    Kconfigs <- MCTrees
    Answers = {0, 2}
    Absent = Absent
INVARIANTS
    AllAnswered
    Quiet
PROPERTIES
    Ends
