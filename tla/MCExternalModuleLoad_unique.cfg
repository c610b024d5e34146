CONSTANTS
  a1 = a1
  a2 = a2
  ActionNames <- MCActionNames
  MaxActions = 2
  RedefinitionPolicy = "overwrite"
SPECIFICATION LoadSpec
SYMMETRY MCSymmetry
INVARIANT ActionNamesUnique
