--------------------------- MODULE MCCovenantChain ---------------------------
(***************************************************************************)
(* One asset whose covenants the client builds, with payloads of another    *)
(* asset in the hands of the other parties.  A singleton policy, one that   *)
(* also admits a change output, and shared policies that merge two covenant *)
(* outputs into one or split one into two.                                  *)
(***************************************************************************)
EXTENDS CovenantChain

CONSTANTS asset1, asset2, lineage, d1, d2

SpecFor(asset) ==
  [chain_id |-> "toccata", lineage_id |-> lineage, asset_id |-> asset,
   receipt_policy |-> "any", genesis_proof_mode |-> "receipt"]

MCCovenantSpec == {SpecFor(asset1)}

WithChange ==
  [kind |-> "policy", authorizing_input |-> 0, exact_output_count |-> 2,
   covenant_output_indices |-> <<0>>]

Merge ==
  [kind |-> "shared", covenant_input_count |-> 2, covenant_output_count |-> 1,
   exact_output_count |-> 1]

Split ==
  [kind |-> "shared", covenant_input_count |-> 1, covenant_output_count |-> 2,
   exact_output_count |-> 2]

MCPolicy == {singleton, WithChange, Merge, Split}

MCLocking ==
  {<<singleton>>, <<Split>>, <<Merge, Merge>>, <<WithChange, singleton>>}

MCGroups ==
  LET Group(i, outputs) == [authorizing_input |-> i, outputs |-> outputs]
  IN {<<Group(0, <<0>>)>>, <<Group(0, <<0, 1>>)>>,
      <<Group(0, <<0>>), Group(1, <<1>>)>>, <<Group(0, <<0>>), Group(0, <<1>>)>>}

MCHashType ==
  {[outputs |-> "all", anyone_can_pay |-> FALSE],
   [outputs |-> "single", anyone_can_pay |-> TRUE]}

MCOtherPayload ==
  {encode_payload(state_of(SpecFor(a), d1, Zero)) : a \in {asset1, asset2}}
=============================================================================
