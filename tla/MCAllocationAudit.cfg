\* Segments of two allocations, two segments a side; one new segment takes up a
\* spent outpoint, one under another covenant, one is on another chain.
SPECIFICATION Spec
CONSTANTS
  Zero = Zero
  None = None
  MaxU64 = 5
  SpentArity = 2
  NewArity = 2
  MaxSegments = 2
  MaxEntries = 13
  Blinding = {b1}
  Precedes <- MCPrecedes
  Prefix <- MCPrefix
  c1 = c1
  c2 = c2
  x = x
  k1 = k1
  k2 = k2
  o1 = o1
  o2 = o2
  o3 = o3
  o4 = o4
  n1 = n1
  n2 = n2
  n3 = n3
  n4 = n4
  Segments <- MCSegments
INVARIANTS
  VerifiedConserves
  VerifiedExcludes
  HonestIsVerified
  CertificateIsManifest
CHECK_DEADLOCK FALSE
