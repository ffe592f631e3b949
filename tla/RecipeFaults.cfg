SPECIFICATION Spec
CONSTANTS
    Syms <- SoloSyms
    Strs = {}
    TypeOf <- SoloTypeOf
    Objs <- SoloObjs
    Files <- SoloFiles
    SrcOf <- SoloSrcOf
    Contents <- MCContents
    Versions <- SoloVersions
    Mentions <- MCMentions
    Includes <- MCIncludes
    Flags = {"-O2", "-O0"}
    NoFile = NoFile
    Faults = {"hand_edit", "recipe_cut", "reflag"}
INVARIANTS
    DescribedMatches
