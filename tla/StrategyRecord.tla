--------------------------- MODULE StrategyRecord ---------------------------
(***************************************************************************)
(* Production plans and the record a wallet keeps or sends of one           *)
(* (RgkProductionZkTransferPlan, RgkProductionAllocationStrategyPlan and    *)
(* RgkProductionAllocationStrategyRecord in crates/rgk-asset).              *)
(*                                                                          *)
(* A record on the wire is one field per group of bytes: enum values are    *)
(* their tags, options and variants a tag followed by what the tag          *)
(* announces, fixed-width values themselves.  Bytes that are cut short or   *)
(* shifted do not decode; rest stands for bytes after the last field.       *)
(***************************************************************************)
EXTENDS AssetGrammar

CONSTANT MaxBlobBytes   \* MAX_BLOB_BYTES

-----------------------------------------------------------------------------
(* Plans.                                                                   *)

\* RgkContinuationPlan::validate_for_production_zk
validate_for_production_zk(plan) ==
  /\ plan_valid(plan)
  /\ <<Len(plan.spent_allocations), Len(plan.new_allocation_shapes)>> \in FixedShapes

\* RgkProductionZkTransferPlan::finalize, by finalize_for_production_zk
finalizes_for_production_zk(plan, t) ==
  /\ validate_for_production_zk(plan)
  /\ transition_valid(t)
  /\ <<Len(t.spent_allocations), Len(t.new_allocations)>> \in FixedShapes

\* RgkProductionAllocationStrategyPlan::new succeeds
has_strategy(plan) ==
  plan_valid(plan) /\ strategy_for(continuation_report(plan)) # None

\* RgkProductionAllocationStrategyPlan::new
strategy_plan(plan) ==
  [continuation_plan |-> plan,
   continuation_report |-> continuation_report(plan),
   strategy |-> strategy_for(continuation_report(plan)),
   strategy_commitment |-> strategy_commitment(plan)]

\* RgkProductionAllocationStrategyPlan::finalize
strategy_finalizes(sp, t) ==
  /\ plan_valid(sp.continuation_plan)
  /\ transition_valid(t)
  /\ strategy_for(sp.continuation_report) = sp.strategy

-----------------------------------------------------------------------------
(* Fields.                                                                  *)

Chains == <<"KaspaMainnet", "KaspaTestnet", "KaspaSimnet", "KaspaDevnet",
            "KaspaLocalToccata">>
Privacy == <<"PublicLineage", "PrivateLane", "StealthLane">>
Policies == <<"VerifierReceipt", "ZkReceipt", "Hybrid">>
ProofShapes == << <<1, 0>>, <<1, 1>>, <<2, 2>>, <<3, 2>>, <<4, 2>>, <<4, 4>> >>

place(table, x) == CHOOSE i \in DOMAIN table : table[i] = x

\* write_chain: chain tags begin at 1
write_chain(chain) == place(Chains, chain)
chain_reads(b) == b \in DOMAIN Chains

\* encode_privacy_policy_record
encode_privacy(policy) == place(Privacy, policy) - 1
privacy_reads(b) == b + 1 \in DOMAIN Privacy

\* encode_burn_record
encode_burn(burn) ==
  IF burn = None THEN <<0>> ELSE <<1, burn.amount, burn.authorization_commitment>>

burn_reads(b) == <<b[1], Len(b)>> \in {<<0, 1>>, <<1, 3>>}

\* decode_burn_record
decode_burn(b) ==
  IF b[1] = 0 THEN None ELSE [amount |-> b[2], authorization_commitment |-> b[3]]

\* encode_proof_policy_record and encode_image_id_policy_record
encode_policy(policy) == [policy EXCEPT !.kind = place(Policies, policy.kind) - 1]
policy_reads(b) == b.kind + 1 \in DOMAIN Policies
decode_policy(b) == [b EXCEPT !.kind = Policies[b.kind + 1]]

\* encode_production_allocation_strategy and encode_allocation_proof_shape_record
encode_strategy(s) ==
  IF s.kind = "FixedAllocationVector"
    THEN <<0, place(ProofShapes, s.shape) - 1>>
    ELSE <<1, s.segment_capacity, s.spent_segments, s.new_segments,
           s.exclusion_pairs, s.groth16_proof_entries>>

strategy_reads(b) ==
  \/ b[1] = 0 /\ Len(b) = 2 /\ b[2] + 1 \in DOMAIN ProofShapes
  \/ b[1] = 1 /\ Len(b) = 6

\* decode_production_allocation_strategy
decode_strategy(b) ==
  IF b[1] = 0
    THEN [kind |-> "FixedAllocationVector", shape |-> ProofShapes[b[2] + 1]]
    ELSE [kind |-> "SegmentedAllocationAudit", segment_capacity |-> b[2],
          spent_segments |-> b[3], new_segments |-> b[4],
          exclusion_pairs |-> b[5], groth16_proof_entries |-> b[6]]

\* encode_covenant_anchor and encode_allocation_record
encode_allocation(a) == [a EXCEPT !.anchor.chain = write_chain(@)]
allocation_reads(b) == chain_reads(b.anchor.chain)
decode_allocation(b) == [b EXCEPT !.anchor.chain = Chains[@]]

encode_continuation_plan(plan) ==
  [plan EXCEPT !.terms.chain = write_chain(@),
               !.terms.privacy_policy = encode_privacy(@),
               !.terms.proof_policy = encode_policy(@),
               !.spent_allocations = [i \in DOMAIN @ |-> encode_allocation(@[i])],
               !.burn = encode_burn(@)]

MAX_CANONICAL_RECORD_ITEMS == MaxBlobBytes \div 32

\* validate_canonical_record_plan, and read_len for each of the three
counts_fit(p) ==
  /\ Len(p.spent_allocations) <= MAX_CANONICAL_RECORD_ITEMS
  /\ Len(p.new_allocation_shapes) <= MAX_CANONICAL_RECORD_ITEMS
  /\ Cardinality(p.terms.proof_policy.images) <= MAX_CANONICAL_RECORD_ITEMS

plan_reads(b) ==
  /\ counts_fit(b)
  /\ chain_reads(b.terms.chain)
  /\ \A i \in DOMAIN b.spent_allocations : allocation_reads(b.spent_allocations[i])
  /\ burn_reads(b.burn)
  /\ privacy_reads(b.terms.privacy_policy)
  /\ policy_reads(b.terms.proof_policy)

decode_continuation_plan(b) ==
  [b EXCEPT !.terms.chain = Chains[@],
            !.terms.privacy_policy = Privacy[@ + 1],
            !.terms.proof_policy = decode_policy(@),
            !.spent_allocations = [i \in DOMAIN @ |-> decode_allocation(@[i])],
            !.burn = decode_burn(@)]

-----------------------------------------------------------------------------
(* Records.                                                                 *)

\* Width of a record: 12 + 2 for tag and version, 32 for the commitment, 274
\* for the fixed part of a plan, 157 for an allocation, 76 for a shape; image
\* ids are counted as the allowed set they are in the widest policy.
record_size(b) ==
  LET p == b.plan
  IN 12 + 2 + 274 + 32
       + 157 * Len(p.spent_allocations) + 76 * Len(p.new_allocation_shapes)
       + (IF Len(p.burn) = 1 THEN 1 ELSE 41)
       + 1 + 32 * Cardinality(p.terms.proof_policy.keys)
       + (IF p.terms.proof_policy.kind # 1 THEN 0
          ELSE 5 + 32 * Cardinality(p.terms.proof_policy.images))
       + (IF Len(b.strategy) = 2 THEN 2 ELSE 41)
       + b.rest

record_of(sp) ==
  [tag |-> "rgk:pas:0", version |-> 1,
   plan |-> encode_continuation_plan(sp.continuation_plan),
   strategy |-> encode_strategy(sp.strategy),
   strategy_commitment |-> sp.strategy_commitment,
   rest |-> 0]

\* RgkProductionAllocationStrategyRecord::canonical_bytes returns record_of(sp)
encodes(sp) ==
  /\ counts_fit(sp.continuation_plan)
  /\ record_size(record_of(sp)) <= MaxBlobBytes

\* Variant: the commitment in the record is not compared.
record_decodes_uncommitted(b) ==
  /\ record_size(b) <= MaxBlobBytes
  /\ b.tag = "rgk:pas:0"
  /\ b.version = 1
  /\ plan_reads(b.plan)
  /\ strategy_reads(b.strategy)
  /\ b.rest = 0
  /\ LET plan == decode_continuation_plan(b.plan)
         sp == strategy_plan(plan)
     IN /\ has_strategy(plan)
        /\ sp.strategy = decode_strategy(b.strategy)

\* RgkProductionAllocationStrategyRecord::decode_canonical, which then returns
\* strategy_plan(decode_continuation_plan(b.plan))
record_decodes(b) ==
  /\ record_size(b) <= MaxBlobBytes
  /\ b.tag = "rgk:pas:0"
  /\ b.version = 1
  /\ plan_reads(b.plan)
  /\ strategy_reads(b.strategy)
  /\ b.rest = 0
  /\ LET plan == decode_continuation_plan(b.plan)
         sp == strategy_plan(plan)
     IN /\ has_strategy(plan)
        /\ sp.strategy = decode_strategy(b.strategy)
        /\ sp.strategy_commitment = b.strategy_commitment
=============================================================================
