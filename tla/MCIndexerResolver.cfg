\* One covenant: every history of spends with and without proofs, certificates, rollbacks.
SPECIFICATION Spec
CONSTANTS
  None = None
  Zero = Zero
  h1 = h1
  Chain = {k1}
  Covenant = {1}
  Asset = {a1, a2}
  Lineage = {l1}
  Txid = {t1, t2}
  Digest = {d1, d2}
  Policy = {"Any", "VerifierOnly"}
  Receipt = {r1, r2, r3}
  Hash = {Zero, h1}
  Body = {b1, b2}
  MaxDaa = 0
  MaxHistory = 2
  ReorgSafetyDepth = 2
  ContinuationInput <- MCContinuationInput
  MigrationInput <- MCMigrationInput
  CertificateInput <- MCCertificateInput
SYMMETRY Symmetry
INVARIANTS EveryEntryDecodes AcceptedSpendResolves VerifiedReceiptIndexes
PROPERTIES HistoryNeverRewritten
CHECK_DEADLOCK FALSE
