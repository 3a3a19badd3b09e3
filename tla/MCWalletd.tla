----------------------------- MODULE MCWalletd ------------------------------
(* Walletd with requests, identities, networks, covenants and privacy modes *)
(* interchangeable.                                                         *)
EXTENDS Walletd, TLC

Symmetry == Permutations(Slot) \cup Permutations(Identity)
              \cup Permutations(Network) \cup Permutations(LaneId)
              \cup Permutations(CovenantId) \cup Permutations(Privacy)
=============================================================================
