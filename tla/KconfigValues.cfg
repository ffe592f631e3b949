SPECIFICATION Spec
CONSTANTS
    Bool = {"MODULES", "B", "X", "Y", "CH", "CI", "P"}
    Tristate = {"A", "C", "E"}
    Number = {"N", "L"}
    Numeral = {"0", "3", "5"}
    NumberOf <- MCNumberOf
    ModulesSym = "MODULES"
    Kconfigs <- MCKconfigs
    Answers = {0, 3, 4, 6}
    Absent = Absent
INVARIANTS
    UpToDate
    ChoiceOne
    DependsMet
    InRange
PROPERTIES
    AnswerKept
    Stable
    RandomEnds
