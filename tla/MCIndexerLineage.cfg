\* Long histories: three spends, any rollback depth, two DAA scores, two assets and chains.
SPECIFICATION Spec
CONSTANTS
  None = None
  Zero = Zero
  Chain = {k1, k2}
  Covenant = {c1}
  Asset = {a1, a2}
  Lineage = {l1}
  Txid = {t1, t2, t3}
  Digest = {d1, d2, d3}
  Policy = {"Any", "VerifierOnly"}
  Receipt = {r1, r2, r3, r4}
  Hash = {Zero}
  Body = {b1}
  MaxDaa = 1
  MaxHistory = 3
  ContinuationInput = {}
  MigrationInput = {}
  CertificateInput = {}
SYMMETRY Symmetry
INVARIANTS NoReceiptTwice
PROPERTIES ImplementsLineage
CHECK_DEADLOCK FALSE
