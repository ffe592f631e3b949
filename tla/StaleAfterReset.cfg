SPECIFICATION Spec
CONSTANTS
    Bool = {"MODULES", "B", "X", "Y", "CH", "CI", "P"}
    Tristate = {"A", "C", "E"}
    Number = {"N", "L"}
    Numeral = {"0", "3", "5"}
    NumberOf <- MCNumberOf
    ModulesSym = "MODULES"
    Kconfigs <- MCStale
    Answers = {0, 4, 6}
    Absent = Absent
INVARIANTS
    UpToDate
