---------------------------- MODULE MCWalletSync ----------------------------
(* The covenant's output is spent by t1 or by t2; t3 spends what t1 created. *)
EXTENDS WalletSync, TLC

CONSTANTS h1, t0, t1, t2, t3, k1, g

MCOutpoint(t) == [transaction_id |-> t, index |-> 0]
MCInputOf ==
  (t1 :> MCOutpoint(t0)) @@ (t2 :> MCOutpoint(t0)) @@ (t3 :> MCOutpoint(t1))
MCComplete == [commitment |-> h1, shape_root |-> h1, transition_digest |-> h1]
MCGenesis == k1 :> g

Symmetry ==
  Permutations(Block \ {g}) \cup Permutations(Receipt) \cup Permutations(Digest)
=============================================================================
