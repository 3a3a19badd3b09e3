------------------------------ MODULE MCRebuild -----------------------------
(* Plans over one covenant: two spends in a row, the first of them alone,    *)
(* and a spend whose created outpoint is not of the spending transaction.    *)
EXTENDS Rebuild, TLC

CONSTANTS k1, c1, a1, l1, t1, t2, t3, d1, d2, d3, r1, r2

Out(t) == [transaction_id |-> t, index |-> 0]

State(d) ==
  [chain_id |-> k1, covenant_id |-> c1, asset_id |-> a1, state_digest |-> d,
   receipt_policy |-> "Any"]

Checkpoint ==
  [chain_id |-> k1, covenant_id |-> c1, lineage_id |-> l1,
   initial_state |-> State(d1), open_outpoint |-> Out(t1), daa_score |-> 1]

First ==
  [receipt_id |-> r1, spent_outpoint |-> Out(t1), created_outpoint |-> Out(t2),
   new_state |-> State(d2), expected_spending_txid |-> t2,
   min_confirmations |-> 1]

Second ==
  [receipt_id |-> r2, spent_outpoint |-> Out(t2), created_outpoint |-> Out(t3),
   new_state |-> State(d3), expected_spending_txid |-> t3,
   min_confirmations |-> 1]

Untied == [First EXCEPT !.created_outpoint = Out(t3)]

MCPlan ==
  {[checkpoint |-> Checkpoint, spends |-> s] : s \in {<<First, Second>>, <<First>>}}

MCUntiedPlan == {[checkpoint |-> Checkpoint, spends |-> <<Untied>>]}

By(t, daa, depth) ==
  [spending_txid |-> t, block_daa_score |-> daa, confirmation_depth |-> depth]

\* The spends of the plan at either score, not deep enough, or known without a
\* score, and a competing spend of the first outpoint.
MCSighting ==
  {<<Out(t1), By(t2, 1, 1)>>, <<Out(t1), By(t2, 2, 1)>>,
   <<Out(t1), By(t2, 1, 0)>>, <<Out(t1), By(t2, None, 1)>>,
   <<Out(t1), By(t3, 1, 1)>>, <<Out(t2), By(t3, 2, 1)>>}
=============================================================================
