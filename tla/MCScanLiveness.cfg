\* Failures and reorgs, then a chain that stops growing.
SPECIFICATION FairSpec
CONSTANTS
  k1 = k1
  k2 = k2
  g1 = g1
  g2 = g2
  None = None
  Chain = {k1}
  Block = {g1, b1, b2, b3}
  Outpoint = {o1}
  Txid = {t1}
  MaxSpends = 1
  MaxReorg = 2
  MinConfirmations = 0
  Mode = {"forever", "once", "until_idle"}
  MaxIdleTicks = 1
  MaxStops = 1
  Genesis <- MCGenesis
PROPERTIES CatchesUp UntilIdleReturns
