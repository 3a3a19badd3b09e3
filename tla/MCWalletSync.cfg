\* A lane through scans, transitions, reorgs and failing calls.
SPECIFICATION Spec
CONSTANTS
  None = None
  Zero = Zero
  Local = Local
  h1 = h1
  k1 = k1
  g = g
  t0 = t0
  t1 = t1
  t2 = t2
  t3 = t3
  Chain = {k1}
  Network = k1
  Covenant = {c1}
  Asset = {a1}
  Lineage = {l1}
  Txid = {t0, t1, t2, t3}
  Funding = t0
  InputOf <- MCInputOf
  Digest = {d1, d2}
  Policy = {"Any", "VerifierOnly"}
  Receipt = {r1, r2}
  Hash = {Zero, h1}
  Body = {b1}
  Complete <- MCComplete
  MaxDaa = 0
  MaxHistory = 2
  MaxPending = 1
  ReorgSafetyDepth = 2
  Block = {g, b2, b3, b4}
  Genesis <- MCGenesis
  MaxSpends = 1
  MaxReorg = 1
INVARIANTS LaneBackedByIndex
PROPERTIES VerdictMatchesChain
SYMMETRY Symmetry
CHECK_DEADLOCK FALSE
