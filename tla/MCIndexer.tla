----------------------------- MODULE MCIndexer ------------------------------
(* The indexer with receipts, transactions and digests interchangeable.      *)
EXTENDS IndexerRefinement, TLC

Symmetry ==
  Permutations(Receipt) \cup Permutations(Txid) \cup Permutations(Digest)
=============================================================================
