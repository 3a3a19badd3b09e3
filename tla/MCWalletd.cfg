\* Two requests in flight, two wallets, two networks; evidence for one lane under
\* either privacy and for either of two covenants.
SPECIFICATION Spec
CONSTANTS
  Identity = {i1, i2}
  Network = {n1, n2}
  LaneId = {l1}
  CovenantId = {c1, c2}
  Privacy = {private, public}
  Label = {m1}
  Slot = {s1, s2}
  MaxLanes = 1
  None = None
SYMMETRY Symmetry
INVARIANTS SessionFollowsLifecycle VaultOpensProfile RowsAreIndexed
