CONSTANTS
  a1 = a1
  a2 = a2
  ActionNames <- MCActionNames
  MaxActions = 2
  RedefinitionPolicy = "reject"
SPECIFICATION LoadSpec
INVARIANT LoadTypeOK
INVARIANT LoadedModuleMatchesMetadata
SYMMETRY MCSymmetry
