SPECIFICATION Spec
CONSTANTS
  Names <- MCNames
  Texts <- MCTexts
  Values <- MCValues
  Uses <- MCUses
  Environments <- MCEnvironments
  Junk <- MCJunk
  Numerals <- MCNumerals
  MaxDepth = 2
  MaxAssignments = 2
  MaxStatements = 3
INVARIANTS TypeOK ExpansionMeans ErrorsMeant EnvRemembered
CHECK_DEADLOCK FALSE
