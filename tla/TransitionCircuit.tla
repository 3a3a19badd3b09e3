--------------------------- MODULE TransitionCircuit ---------------------------
(***************************************************************************)
(* The semantic transition statement of crates/rgk-zk and the fixed-shape   *)
(* allocation circuits: what a statement says of a transition, and when     *)
(* private allocations satisfy the circuit of the statement's shape.        *)
(*                                                                          *)
(* Public inputs are the statement; a hash is never zero.  A number has     *)
(* eight bytes and sums are formed in a field that holds them.  The burn    *)
(* enters a circuit as constants, so a key serves one shape and one burn:   *)
(* a proof is checked under the key of its statement.  Groth16 is taken to  *)
(* be sound and complete.                                                   *)
(***************************************************************************)
EXTENDS AllocationWitness

-----------------------------------------------------------------------------
(* SemanticTransitionStatement.                                             *)

U64 == 0 .. MaxU64

\* from_reports, where the report of the transition and of the plan it was
\* finalized from agree in everything both have
reports_agree(t, plan) == transition_report(t) = continuation_report(plan)

semantic_statement(report, digest, new_digest, commitment, shape_root) ==
  [terms |-> report.terms,
   previous_owner_commitment |-> report.previous_owner_commitment,
   new_owner_commitment |-> report.new_owner_commitment,
   ownership_authorization_commitment |->
     report.ownership_authorization_commitment,
   previous_state_digest |-> report.previous_state_digest,
   new_state_digest |-> new_digest,
   transition_digest |-> digest,
   continuation_commitment |-> commitment,
   continuation_shape_root |-> shape_root,
   spent_allocation_count |-> report.spent_allocation_count,
   new_allocation_count |-> report.new_allocation_count,
   spent_supply |-> report.spent_supply,
   new_supply |-> report.new_supply,
   burned_supply |-> report.burned_supply,
   burn_authorization_commitment |-> report.burn_authorization_commitment]

from_reports(t, plan) ==
  semantic_statement(transition_report(t), transition_digest(t),
    new_state_digest(t), continuation_commitment(plan),
    continuation_shape_root(plan))

\* What the validator of statements and the circuits ask of a statement.
enforce_semantic_layout(s) ==
  /\ s.terms.schema_id # Zero
  /\ s.terms.asset_id # Zero
  /\ s.previous_state_digest # Zero
  /\ s.previous_state_digest # s.new_state_digest
  /\ s.terms.lane_id # Zero
  /\ s.terms.metadata_commitment # Zero
  /\ s.previous_owner_commitment # Zero
  /\ s.new_owner_commitment # Zero
  /\ \/ s.previous_owner_commitment = s.new_owner_commitment
     \/ s.ownership_authorization_commitment # Zero
  /\ s.terms.total_supply # 0
  /\ s.spent_allocation_count # 0
  /\ s.spent_supply # 0
  /\ s.spent_supply = s.new_supply + s.burned_supply
  /\ s.new_allocation_count # 0 \/ s.burned_supply # 0
  /\ s.new_supply # 0 \/ s.burned_supply # 0

\* burn_digest_encoding: an amount and an authorization, or neither
burn_encodes(s) ==
  s.burned_supply = 0 <=> s.burn_authorization_commitment = Zero

burn_of(s) ==
  IF s.burned_supply = 0 THEN None
  ELSE [amount |-> s.burned_supply,
        authorization_commitment |-> s.burn_authorization_commitment]

\* SemanticTransitionStatement::validate
semantic_valid(s) ==
  /\ enforce_semantic_layout(s)
  /\ burn_encodes(s)
  /\ s.spent_supply <= s.terms.total_supply
  /\ s.new_supply <= s.terms.total_supply

-----------------------------------------------------------------------------
(* Witnesses.  The transaction of a transition is that of its outputs; only *)
(* a witness without outputs names it.                                      *)

AllocationVectors(spent, new, txid) ==
  [spent |-> spent, new |-> new, transition_witness_txid |-> txid]

\* SupportedAllocationVectorWitness::from_allocations and
\* terminal_burn_from_allocation, from a transition
witness_of(t) ==
  AllocationVectors(t.spent_allocations, t.new_allocations,
    IF t.new_allocations = <<>> THEN t.witness_txid ELSE None)

witness_supported(w) ==
  /\ <<Len(w.spent), Len(w.new)>> \in FixedShapes
  /\ IF w.new = <<>> THEN w.transition_witness_txid \notin {None, Zero}
                     ELSE w.transition_witness_txid = None

witness_txid_of(w) ==
  IF w.new = <<>> THEN w.transition_witness_txid ELSE w.new[1].anchor.witness_txid

\* The transition that a statement and a witness describe.
transition_of(s, w) ==
  [terms |-> s.terms,
   previous_owner_commitment |-> s.previous_owner_commitment,
   new_owner_commitment |-> s.new_owner_commitment,
   ownership_authorization_commitment |-> s.ownership_authorization_commitment,
   previous_state_digest |-> s.previous_state_digest,
   spent_allocations |-> w.spent,
   new_allocations |-> w.new,
   burn |-> burn_of(s),
   witness_txid |-> witness_txid_of(w)]

-----------------------------------------------------------------------------
(* The digests of a circuit: those of the native grammar, over allocations  *)
(* in the order of the witness.                                             *)

\* Variant: the circuit sorts the allocations as the native grammar does.
allocation_root_digest_sorted(allocations) ==
  [set |-> Range(allocations), order |-> <<>>]

allocation_root_digest(allocations) ==
  [set |-> Range(allocations), order |-> order_of(allocations)]

circuit_state_digest(terms, allocations, owner) ==
  [asset_id |-> terms.asset_id, total_supply |-> terms.total_supply,
   allocations |-> allocation_root_digest(allocations),
   proof_policy |-> terms.proof_policy,
   metadata_commitment |-> terms.metadata_commitment,
   owner_commitment |-> owner,
   privacy_policy |-> terms.privacy_policy, lane_id |-> terms.lane_id]

shape_of(a) ==
  [output_index |-> OutpointOf(a).index, covenant_id |-> a.anchor.covenant_id,
   amount |-> a.amount, encrypted_note_commitment |-> a.encrypted_note_commitment]

\* Outputs of one transaction are ordered by index as shapes and as allocations.
continuation_shape_root_digest(terms, new) ==
  [chain |-> terms.chain, shapes |-> {shape_of(a) : a \in Range(new)},
   order |-> [i \in DOMAIN order_of(new) |-> shape_of(new[i])]]

continuation_commitment_digest(s, w) ==
  [terms |-> s.terms,
   previous_state_digest |-> s.previous_state_digest,
   spent_root |-> allocation_root_digest(w.spent),
   shape_root |-> continuation_shape_root_digest(s.terms, w.new),
   burn |-> burn_of(s),
   owners |-> <<s.previous_owner_commitment, s.new_owner_commitment,
                s.ownership_authorization_commitment>>]

circuit_transition_digest(s, w) ==
  [terms |-> s.terms,
   previous_state_digest |-> s.previous_state_digest,
   new_state_digest |-> s.new_state_digest,
   witness_txid |-> witness_txid_of(w), burn |-> burn_of(s),
   owners |-> <<s.previous_owner_commitment, s.new_owner_commitment,
                s.ownership_authorization_commitment>>,
   spent |-> w.spent, new |-> w.new]

-----------------------------------------------------------------------------
(* Constraints.                                                             *)

enforce_distinct_outpoints(allocations) ==
  \A i, j \in DOMAIN allocations :
    outpoint_window(allocations[i]) = outpoint_window(allocations[j]) => i = j

\* Variant: the public supplies are not compared with the witness.
supply_delta_unbound(s, w) ==
  s.spent_supply \in U64 /\ s.new_supply \in U64 /\ s.burned_supply \in U64

enforce_allocation_supply_delta(s, w) ==
  /\ s.spent_supply \in U64 /\ s.new_supply \in U64 /\ s.burned_supply \in U64
  /\ allocation_total(w.spent) = s.spent_supply
  /\ allocation_total(w.new) = s.new_supply
  /\ s.spent_supply = s.new_supply + s.burned_supply

\* An output is anchored in the transaction of the transition.
enforce_new_anchor(w, a) ==
  /\ OutpointOf(a).transaction_id = a.anchor.witness_txid
  /\ a.anchor.witness_txid = witness_txid_of(w)

enforce_digests(s, w) ==
  /\ s.previous_state_digest =
       circuit_state_digest(s.terms, w.spent, s.previous_owner_commitment)
  /\ s.new_state_digest =
       circuit_state_digest(s.terms, w.new, s.new_owner_commitment)
  /\ s.continuation_shape_root = continuation_shape_root_digest(s.terms, w.new)
  /\ s.continuation_commitment = continuation_commitment_digest(s, w)
  /\ s.transition_digest = circuit_transition_digest(s, w)

enforce_allocation_transition(s, w) ==
  /\ Range(w.spent) # {}
  /\ w.new = <<>> => burn_of(s) # None /\ w.transition_witness_txid # Zero
  /\ s.spent_allocation_count = Len(w.spent)
  /\ s.new_allocation_count = Len(w.new)
  /\ \A a \in Range(w.spent) : enforce_allocation_common(s.terms.chain, a)
  /\ \A a \in Range(w.new) :
       enforce_allocation_common(s.terms.chain, a) /\ enforce_new_anchor(w, a)
  /\ enforce_distinct_outpoints(w.spent)
  /\ enforce_distinct_outpoints(w.new)
  /\ enforce_spent_anchors_not_reused(Range(w.spent), Range(w.new))
  /\ enforce_allocation_supply_delta(s, w)
  /\ enforce_digests(s, w)

\* from_statement_and_witness of SupportedAllocationVectorCircuit and of the
\* circuits it selects from
from_statement_and_witness(s, w) ==
  /\ witness_supported(w)
  /\ <<s.spent_allocation_count, s.new_allocation_count>>
       = <<Len(w.spent), Len(w.new)>>
  /\ burn_encodes(s)

generate_constraints(s, w) ==
  enforce_semantic_layout(s) /\ enforce_allocation_transition(s, w)

\* Under the key of the statement there is a proof, and it verifies.
transition_proved(s, w) ==
  from_statement_and_witness(s, w) /\ generate_constraints(s, w)
=============================================================================
