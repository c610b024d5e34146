CONSTANTS
  r1 = r1
  r2 = r2
  d1 = d1
  None = None
  Req <- MCReq
  Dirs <- MCReq
  ResultsDir <- MCOwnDir
  FailingKinds <- MCFailingKinds
SPECIFICATION Spec
SYMMETRY MCSymmetry
PROPERTY TransactionRefinement
