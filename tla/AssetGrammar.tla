---------------------------- MODULE AssetGrammar ----------------------------
(***************************************************************************)
(* The native asset grammar (crates/rgk-asset): issues, transitions,        *)
(* continuation plans and production allocation strategies, and what their  *)
(* validation accepts.  A validation that returns an error is FALSE; which  *)
(* error it is does not matter.                                             *)
(*                                                                          *)
(* Hashes are the tuples and records they are computed from.  An allocation *)
(* root sorts the allocations by a key that begins with their outpoint, and *)
(* no valid set has an outpoint twice, so the root is the set of them; its  *)
(* field order is for the circuits, which hash allocations unsorted.  The   *)
(* fields that issue, transition and plan have in common are one record,    *)
(* terms.                                                                   *)
(***************************************************************************)
EXTENDS Naturals, Sequences, FiniteSets, FiniteSetsExt, Functions

CONSTANTS
  Zero,        \* the all-zero 32-byte value
  None,        \* Option::None
  MaxU64       \* the largest u64

Outpoint(txid, index) == [transaction_id |-> txid, index |-> index]
NullOutpoint == Outpoint(Zero, 0)

-----------------------------------------------------------------------------
(* Terms.                                                                   *)

\* RgkProofPolicy::validate: keys are the verifier keys of the variant, images
\* the image ids or the branch its ImageIdPolicy names.
proof_policy_valid(policy) ==
  /\ Zero \notin policy.keys
  /\ policy.kind = "ZkReceipt" => policy.images # {} /\ Zero \notin policy.images

\* validate_common and validate_metadata_commitment
validate_common(terms) ==
  /\ terms.schema_id # Zero
  /\ terms.asset_id # Zero
  /\ terms.total_supply # 0
  /\ terms.lane_id # Zero
  /\ proof_policy_valid(terms.proof_policy)
  /\ terms.metadata_commitment # Zero

validate_ownership_handoff(previous_owner, new_owner, authorization) ==
  previous_owner # new_owner => authorization # Zero

-----------------------------------------------------------------------------
(* Allocations.                                                             *)

OutpointOf(allocation) == allocation.anchor.covenant_outpoint

amount_sum(S) == MapThenSumSet(LAMBDA a : a.amount, S)

\* Variant: the sum of the amounts wraps around.
allocation_total_wrapping(allocations) ==
  amount_sum(Range(allocations)) % (MaxU64 + 1)

\* The sum checked_add computes, before it is compared with u64::MAX.
allocation_total(allocations) == amount_sum(Range(allocations))

\* validate_allocation_set_structure_allow_empty
validate_allocation_set_structure(chain, allocations) ==
  /\ \A i \in DOMAIN allocations :
       LET anchor == allocations[i].anchor
       IN /\ allocations[i].amount # 0
          /\ anchor.chain = chain
          /\ anchor.covenant_outpoint # NullOutpoint
          /\ anchor.covenant_id # Zero
          /\ anchor.witness_txid # Zero
          /\ allocations[i].encrypted_note_commitment # Zero
          /\ anchor.confirmation_depth # 0
  /\ \A i, j \in DOMAIN allocations :
       OutpointOf(allocations[i]) = OutpointOf(allocations[j]) => i = j
  /\ allocation_total(allocations) \in 0 .. MaxU64

\* Variant: a burn proof may name less than what disappears.
validate_supply_delta_at_most(spent_supply, new_supply, burn) ==
  /\ new_supply <= spent_supply
  /\ IF spent_supply = new_supply
       THEN burn = None
       ELSE /\ burn # None
            /\ burn.amount # 0
            /\ burn.authorization_commitment # Zero
            /\ burn.amount <= spent_supply - new_supply

validate_supply_delta(spent_supply, new_supply, burn) ==
  /\ new_supply <= spent_supply
  /\ IF spent_supply = new_supply
       THEN burn = None
       ELSE /\ burn # None
            /\ burn.amount # 0
            /\ burn.authorization_commitment # Zero
            /\ burn.amount = spent_supply - new_supply

\* allocation_root: the set, and <<>> for the canonical order
allocation_root(allocations) == [set |-> Range(allocations), order |-> <<>>]

\* Variant: the owner is left out of the digest.
state_digest_ownerless(terms, allocations, owner) ==
  [asset_id |-> terms.asset_id, total_supply |-> terms.total_supply,
   allocations |-> allocation_root(allocations), proof_policy |-> terms.proof_policy,
   metadata_commitment |-> terms.metadata_commitment,
   privacy_policy |-> terms.privacy_policy, lane_id |-> terms.lane_id]

\* state_digest_for_allocations.  Chain and schema are not hashed; the chain
\* is part of every allocation.
state_digest(terms, allocations, owner) ==
  [asset_id |-> terms.asset_id, total_supply |-> terms.total_supply,
   allocations |-> allocation_root(allocations), proof_policy |-> terms.proof_policy,
   metadata_commitment |-> terms.metadata_commitment,
   owner_commitment |-> owner,
   privacy_policy |-> terms.privacy_policy, lane_id |-> terms.lane_id]

-----------------------------------------------------------------------------
(* Issue and transition.                                                    *)

\* RgkAssetIssue::validate
issue_valid(issue) ==
  /\ validate_common(issue.terms)
  /\ issue.owner_commitment # Zero
  /\ Range(issue.allocations) # {}
  /\ validate_allocation_set_structure(issue.terms.chain, issue.allocations)
  /\ allocation_total(issue.allocations) = issue.terms.total_supply

issue_digest(issue) ==
  state_digest(issue.terms, issue.allocations, issue.owner_commitment)

new_state_digest(t) ==
  state_digest(t.terms, t.new_allocations, t.new_owner_commitment)

\* What transition and plan check alike.
validate_spending(x) ==
  /\ validate_common(x.terms)
  /\ x.previous_owner_commitment # Zero
  /\ x.new_owner_commitment # Zero
  /\ validate_ownership_handoff(x.previous_owner_commitment,
       x.new_owner_commitment, x.ownership_authorization_commitment)
  /\ x.previous_state_digest # Zero
  /\ Range(x.spent_allocations) # {}
  /\ validate_allocation_set_structure(x.terms.chain, x.spent_allocations)
  /\ state_digest(x.terms, x.spent_allocations, x.previous_owner_commitment)
       = x.previous_state_digest

\* RgkTransition::validate
transition_valid(t) ==
  /\ validate_supply_delta(allocation_total(t.spent_allocations),
       allocation_total(t.new_allocations), t.burn)
  /\ validate_spending(t)
  /\ t.witness_txid # Zero
  /\ validate_allocation_set_structure(t.terms.chain, t.new_allocations)
  /\ new_state_digest(t) # t.previous_state_digest
  /\ {OutpointOf(a) : a \in Range(t.spent_allocations)}
       \cap {OutpointOf(a) : a \in Range(t.new_allocations)} = {}

\* burn_authorization_commitment
burn_authorization(x) ==
  IF x.burn = None THEN Zero ELSE x.burn.authorization_commitment

\* The fields that the reports of a transition and of a plan share; new is the
\* sequence of its allocations or shapes.
report_of(x, new) ==
  LET spent_supply == allocation_total(x.spent_allocations)
      new_supply == allocation_total(new)
  IN [terms |-> x.terms,
      previous_owner_commitment |-> x.previous_owner_commitment,
      new_owner_commitment |-> x.new_owner_commitment,
      ownership_authorization_commitment |-> x.ownership_authorization_commitment,
      previous_state_digest |-> x.previous_state_digest,
      spent_supply |-> spent_supply,
      new_supply |-> new_supply,
      burned_supply |-> spent_supply - new_supply,
      burn_authorization_commitment |-> burn_authorization(x),
      spent_allocation_count |-> Len(x.spent_allocations),
      new_allocation_count |-> Len(new)]

\* Its new_state_digest and transition_digest are the operators of that name.
transition_report(t) == report_of(t, t.new_allocations)

\* transition_digest_unchecked: allocations in the order the transition has
transition_digest(t) ==
  [terms |-> t.terms,
   previous_state_digest |-> t.previous_state_digest,
   new_state_digest |-> new_state_digest(t),
   witness_txid |-> t.witness_txid, burn |-> t.burn,
   owners |-> <<t.previous_owner_commitment, t.new_owner_commitment,
                t.ownership_authorization_commitment>>,
   spent |-> t.spent_allocations, new |-> t.new_allocations]

-----------------------------------------------------------------------------
(* Continuation: a plan names its outputs before the transaction that will  *)
(* create them exists; finalize anchors them in that transaction.           *)

\* Variant: two shapes may name the same output.
validate_continuation_shapes_repeating(shapes, burn) ==
  /\ shapes = <<>> => burn # None
  /\ \A i \in DOMAIN shapes :
       /\ shapes[i].amount # 0
       /\ shapes[i].covenant_id # Zero
       /\ shapes[i].encrypted_note_commitment # Zero
  /\ allocation_total(shapes) \in 0 .. MaxU64

\* validate_continuation_shapes_structure_allow_empty
validate_continuation_shapes_structure(shapes, burn) ==
  /\ shapes = <<>> => burn # None
  /\ \A i \in DOMAIN shapes :
       /\ shapes[i].amount # 0
       /\ shapes[i].covenant_id # Zero
       /\ shapes[i].encrypted_note_commitment # Zero
  /\ \A i, j \in DOMAIN shapes :
       shapes[i].output_index = shapes[j].output_index => i = j
  /\ allocation_total(shapes) \in 0 .. MaxU64

\* RgkContinuationPlan::validate
plan_valid(plan) ==
  /\ validate_spending(plan)
  /\ validate_continuation_shapes_structure(plan.new_allocation_shapes, plan.burn)
  /\ validate_supply_delta(allocation_total(plan.spent_allocations),
       allocation_total(plan.new_allocation_shapes), plan.burn)

\* The shapes are sorted, by output index first.
continuation_shape_root(plan) ==
  [chain |-> plan.terms.chain, shapes |-> Range(plan.new_allocation_shapes),
   order |-> <<>>]

\* commitment_unchecked: everything but the order of allocations and shapes.
continuation_commitment(plan) ==
  [terms |-> plan.terms,
   previous_state_digest |-> plan.previous_state_digest,
   spent_root |-> allocation_root(plan.spent_allocations),
   shape_root |-> continuation_shape_root(plan),
   burn |-> plan.burn,
   owners |-> <<plan.previous_owner_commitment, plan.new_owner_commitment,
                plan.ownership_authorization_commitment>>]

\* RgkContinuationPlan::validate_against_commitment
validate_against_commitment(plan, expected) ==
  plan_valid(plan) /\ continuation_commitment(plan) = expected

\* Its commitment and shape_root are the operators above.
continuation_report(plan) == report_of(plan, plan.new_allocation_shapes)

anchored(plan, shape, witness_txid, daa_score, confirmation_depth) ==
  [anchor |-> [chain |-> plan.terms.chain,
               covenant_outpoint |-> Outpoint(witness_txid, shape.output_index),
               covenant_id |-> shape.covenant_id,
               witness_txid |-> witness_txid,
               daa_score |-> daa_score,
               confirmation_depth |-> confirmation_depth],
   amount |-> shape.amount,
   encrypted_note_commitment |-> shape.encrypted_note_commitment]

\* RgkContinuationPlan::finalize returns this transition if plan and transition
\* are valid.
finalized(plan, witness_txid, daa_score, confirmation_depth) ==
  [terms |-> plan.terms,
   previous_owner_commitment |-> plan.previous_owner_commitment,
   new_owner_commitment |-> plan.new_owner_commitment,
   ownership_authorization_commitment |->
     plan.ownership_authorization_commitment,
   previous_state_digest |-> plan.previous_state_digest,
   spent_allocations |-> plan.spent_allocations,
   new_allocations |->
     [i \in DOMAIN plan.new_allocation_shapes |->
        anchored(plan, plan.new_allocation_shapes[i],
                 witness_txid, daa_score, confirmation_depth)],
   burn |-> plan.burn,
   witness_txid |-> witness_txid]

-----------------------------------------------------------------------------
(* Production allocation strategies.                                        *)

\* RGK_ALLOCATION_STRATEGY_ZK_SHAPES, as counts of spent and new allocations.
FixedShapes == {<<1, 0>>, <<1, 1>>, <<2, 2>>, <<3, 2>>, <<4, 2>>, <<4, 4>>}

SegmentCapacity == 2

segments(count) == (count + SegmentCapacity - 1) \div SegmentCapacity

\* None is an error.
segmented_audit_for_report(report) ==
  LET spent == segments(report.spent_allocation_count)
      new == segments(report.new_allocation_count)
  IN IF \/ report.burned_supply # 0
        \/ 0 \in {report.spent_allocation_count, report.new_allocation_count}
       THEN None
     ELSE [kind |-> "SegmentedAllocationAudit",
           segment_capacity |-> SegmentCapacity,
           spent_segments |-> spent, new_segments |-> new,
           exclusion_pairs |-> spent * new,
           groth16_proof_entries |-> 2 * (spent + new) + 1 + spent * new]

\* RgkProductionAllocationStrategy::for_continuation_report
strategy_for(report) ==
  LET counts == <<report.spent_allocation_count, report.new_allocation_count>>
  IN IF counts \in FixedShapes
       THEN [kind |-> "FixedAllocationVector", shape |-> counts]
       ELSE segmented_audit_for_report(report)

strategy_commitment(plan) ==
  <<continuation_report(plan), continuation_commitment(plan),
    strategy_for(continuation_report(plan))>>
=============================================================================
