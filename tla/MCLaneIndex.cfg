\* One covenant that moves by one spend and back, two lanes of two assets.
SPECIFICATION LaneSpec
CONSTANTS
  None = None
  a1 = a1
  e1 = e1
  Zero = Zero
  Chain = {k1}
  Covenant = {1}
  Asset = {a1, a2}
  Lineage = {l1}
  Txid = {t1, t2}
  Digest = {d1, d2}
  Policy = {"Any"}
  Receipt = {r1}
  Hash = {Zero}
  Body = {b1}
  MaxDaa = 0
  MaxHistory = 1
  ReorgSafetyDepth = 2
  ContinuationInput = {}
  MigrationInput = {}
  CertificateInput = {}
  ViewKey = {v1, v2}
  Epoch = {e1, e2}
  TagInput <- MCTagInput
  MaxLanes = 2
  LANES = 2
SYMMETRY Symmetry
INVARIANTS BackendsFindSameLane LanesFollowCovenants DiscoveredLanesResolve
CHECK_DEADLOCK FALSE
