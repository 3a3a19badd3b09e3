--------------------------- MODULE MCScanService ----------------------------
(* Values for the constants of the scanner.                                  *)
EXTENDS ScanService, TLC

CONSTANTS k1, k2, g1, g2

MCGenesis == [k \in Chain |-> IF k = k1 THEN g1 ELSE g2]

Symmetry ==
  Permutations(Block \ {g1, g2}) \cup Permutations(Outpoint)
    \cup Permutations(Txid)
=============================================================================
