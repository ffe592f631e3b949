SPECIFICATION Spec
CONSTANTS
    Procs = {p1, p2}
    Configs = {c1, c2, c3}
    NoFile = NoFile
    Partial = Partial
    Faults = {"backup_fails"}
PROPERTIES
    SavesAtomic
