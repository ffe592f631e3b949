SPECIFICATION FairSpec
CONSTANTS
    Syms <- TwoSyms
    Strs = {}
    TypeOf <- TwoTypeOf
    Objs <- TwoObjs
    Files <- TwoFiles
    SrcOf <- TwoSrcOf
    Contents <- MCContents
    Versions <- TwoVersions
    Mentions <- MCMentions
    Includes <- MCIncludes
    Flags = {"-O2"}
    NoFile = NoFile
    Faults = {}
INVARIANTS
    TypeOK
    KeptMatchesSources
    KeptMatchesConfig
    DoneIsFresh
PROPERTIES
    Recovers
    ImplementsCache
