SPECIFICATION Spec
CONSTANTS
  Zero = Zero
  None = None
  Wallet = Wallet
  asset1 = asset1
  asset2 = asset2
  lineage = lineage
  d1 = d1
  d2 = d2
  CovenantSpec <- MCCovenantSpec
  Policy <- MCPolicy
  Digest = {d1, d2}
  Marker = {Zero}
  HashType <- MCHashType
  Funding = {0, 1}
  Locking <- MCLocking
  Groups <- MCGroups
  OtherPayload <- MCOtherPayload
  MaxAccepted = 3
INVARIANTS
  CovenantOpensOnce
  SingletonHasOneOutput
  CovenantKeepsScript
  ContinuationKeepsIdentity
  BuiltIsAdmitted
  SignatureCoversConsent
CHECK_DEADLOCK FALSE
