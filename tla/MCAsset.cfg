CONSTANTS
  Zero = Zero
  None = None
  o1 = o1
  o2 = o2
  t1 = t1
  t2 = t2
  x1 = x1
  id = id
  id2 = id2
  Precedes <- MCPrecedes
  Prefix <- MCPrefix
  MaxU64 = 3
  MaxBlobBytes = 822
  MaxPlans = 1
  Terms <- MCTerms
  Owner <- MCOwner
  Txid <- MCTxid
  Authorization <- MCAuthorization
  Allocations <- MCAllocations
  Shapes <- MCShapes
  Burn <- MCBurn
  Depth <- MCDepth
  Token <- MCToken
  Sale <- MCSale
SPECIFICATION NftSpec
SYMMETRY Symmetry
CONSTRAINT KeptPlans
CHECK_DEADLOCK FALSE
INVARIANTS
  ProvedStepsValid
  SupplyAccounted
  PlansFinalize
  CommitmentFixesState
  TokenStaysWhole
PROPERTIES
  PlansProveInOrder
  StepsContinueTerms
  FormerOwnerCannotMove
