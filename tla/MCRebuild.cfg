\* Rebuilds that fail, stop and are run again while the source moves.
SPECIFICATION RebuildSpec
CONSTANTS
  None = None
  Failed = Failed
  Zero = Zero
  k1 = k1
  c1 = c1
  a1 = a1
  l1 = l1
  t1 = t1
  t2 = t2
  t3 = t3
  d1 = d1
  d2 = d2
  d3 = d3
  r1 = r1
  r2 = r2
  Chain = {k1}
  Covenant = {c1}
  Asset = {a1}
  Lineage = {l1}
  Txid = {t1, t2, t3}
  Digest = {d1, d2, d3}
  Policy = {"Any"}
  Receipt = {r1, r2}
  Hash = {Zero}
  Body = {b1}
  MaxDaa = 2
  MaxHistory = 2
  Depth = {0, 1}
  SourceChain = k1
  ContinuationInput = {}
  MigrationInput = {}
  CertificateInput = {}
  Plan <- MCPlan
  Sighting <- MCSighting
INVARIANTS PartialRebuildResumes PassedSpendsAccepted
PROPERTY ImplementsIndexer
CHECK_DEADLOCK FALSE
