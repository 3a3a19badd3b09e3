\* Two networks share one database; reorgs no deeper than min_confirmation_count.
SPECIFICATION Spec
CONSTANTS
  k1 = k1
  k2 = k2
  g1 = g1
  g2 = g2
  None = None
  Chain = {k1, k2}
  Block = {g1, g2, b1, b2, b3, b4}
  Outpoint = {o1}
  Txid = {t1, t2}
  MaxSpends = 1
  MaxReorg = 1
  MinConfirmations = 1
  Mode = {"forever", "once", "until_idle"}
  MaxIdleTicks = 1
  MaxStops = 1
  Genesis <- MCGenesis
SYMMETRY Symmetry
INVARIANTS CursorCovered ConfirmedCursorStays
PROPERTIES CursorOnlyAdvances
