SPECIFICATION Spec
CONSTANTS
  Identity = {i1, i2}
  Network = {n1, n2}
  LaneId = {}
  CovenantId = {}
  Privacy = {private, public}
  Label = {}
  Slot = {s1, s2}
  MaxLanes = 0
  None = None
INVARIANT SessionIsOfVault
