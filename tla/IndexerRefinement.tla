------------------------- MODULE IndexerRefinement --------------------------
(***************************************************************************)
(* The indexer implements LineageSpec.  The points of a lineage are read    *)
(* off the entry: point i is what the i-th spend record says was consumed,  *)
(* the last point is open_outpoint and latest_state, and the receipt a      *)
(* point was reached under comes from accepted_receipts.                    *)
(***************************************************************************)
EXTENDS Indexer

Points(entry) ==
  LET h == entry.spend_history
      reached(i) == IF i = 1 THEN None ELSE entry.accepted_receipts[i - 1]
  IN [i \in 1 .. Len(h) + 1 |->
        IF i <= Len(h)
          THEN [outpoint |-> h[i].spent,
                digest |-> h[i].new_state_digest,
                policy |-> h[i].previous_receipt_policy,
                receipt |-> reached(i)]
          ELSE [outpoint |-> entry.open_outpoint,
                digest |-> entry.latest_state.state_digest,
                policy |-> entry.latest_state.receipt_policy,
                receipt |-> reached(i)]]

lineageOf == [c \in DOMAIN map |-> Points(map[c])]

Abstract == INSTANCE LineageSpec WITH lineage <- lineageOf

\* Open begins a lineage, each apply_spend variant extends it by one point
\* under a receipt not used on it before, rollback cuts it back to a point it
\* really went through, and a certificate changes nothing of it.
ImplementsLineage == Abstract!Spec
=============================================================================
