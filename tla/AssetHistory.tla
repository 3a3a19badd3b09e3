---------------------------- MODULE AssetHistory ----------------------------
(***************************************************************************)
(* The life of one asset: an issue, continuation plans drawn up from its    *)
(* present state, plans finalized once their transaction exists,            *)
(* transitions that arrive ready made, and transitions of which only the    *)
(* statement and its allocation proof arrive.  A step continues the history *)
(* only from the present state digest: that is the digest the index holds   *)
(* and verify_receipt_against_indexer compares with the one in the receipt.  *)
(*                                                                          *)
(* The validators look at one record at a time, the circuits at one         *)
(* statement.  The properties are about the whole history.                  *)
(***************************************************************************)
EXTENDS TransitionCircuit, StrategyRecord

CONSTANTS
  Terms, Owner, Txid, Authorization,   \* what callers put into the records,
  Allocations, Shapes,                 \* valid or not; Allocations and Shapes
  Burn, Depth,                         \* are sets of sequences
  MaxPlans          \* bound: plans kept at once

ASSUME AssetAssumption == MaxU64 \in Nat

HasFields(r, names) == r = [name \in names |-> r[name]]

is_terms(terms) ==
  /\ HasFields(terms, {"chain", "schema_id", "asset_id", "total_supply",
                       "metadata_commitment", "lane_id", "privacy_policy",
                       "proof_policy"})
  /\ HasFields(terms.proof_policy, {"kind", "keys", "images"})
  /\ terms.chain \in Range(Chains)
  /\ terms.privacy_policy \in Range(Privacy)
  /\ terms.proof_policy.kind \in Range(Policies)

is_allocation(a) ==
  /\ HasFields(a, {"anchor", "amount", "encrypted_note_commitment"})
  /\ HasFields(a.anchor, {"chain", "covenant_outpoint", "covenant_id",
                          "witness_txid", "daa_score", "confirmation_depth"})
  /\ a.anchor.chain \in Range(Chains)
  /\ a.amount \in Nat

is_shape(shape) ==
  /\ HasFields(shape, {"output_index", "covenant_id", "amount",
                       "encrypted_note_commitment"})
  /\ shape.amount \in Nat

\* The fields of the records, their enum values, amounts that are numbers, and
\* transaction ids that are ids.
ASSUME InputAssumption ==
  /\ \A terms \in Terms : is_terms(terms)
  /\ \A s \in Allocations :
       s \in Seq(Range(s)) /\ \A a \in Range(s) : is_allocation(a)
  /\ \A s \in Shapes :
       s \in Seq(Range(s)) /\ \A x \in Range(s) : is_shape(x)
  /\ \A b \in Burn \ {None} : HasFields(b, {"amount", "authorization_commitment"})
  /\ None \notin Txid

VARIABLES
  phase,     \* none, issued or continued
  issue,     \* the validated issue, None before it
  latest,    \* the last transition, None before the first; that of the
             \* witness where only a proof arrived
  digest,    \* the state digest in the index, Zero before the issue
  burned,    \* sum of the amounts in the burn proofs accepted so far
  plans      \* validated continuation plans

assetVars == <<phase, issue, latest, digest, burned, plans>>

Live == IF phase = "issued" THEN issue.allocations ELSE latest.new_allocations
PresentTerms == IF phase = "issued" THEN issue.terms ELSE latest.terms
PresentOwner ==
  IF phase = "issued" THEN issue.owner_commitment ELSE latest.new_owner_commitment
burn_amount(t) == IF t.burn = None THEN 0 ELSE t.burn.amount

-----------------------------------------------------------------------------
\* RgkAssetIssue::validate
issue_asset(i) ==
  /\ phase = "none"
  /\ issue_valid(i)
  /\ phase' = "issued"
  /\ issue' = i
  /\ digest' = issue_digest(i)
  /\ UNCHANGED <<latest, burned, plans>>

\* RgkContinuationPlan::validate
draw_up(plan) ==
  /\ plan_valid(plan)
  /\ plans' = plans \cup {plan}
  /\ UNCHANGED <<phase, issue, latest, digest, burned>>

\* RgkTransition::validate, and the digest of the receipt built from it
\* against the one in the index.
continued_by(t) ==
  /\ phase # "none"
  /\ transition_valid(t)
  /\ t.previous_state_digest = digest
  /\ phase' = "continued"
  /\ latest' = t
  /\ digest' = new_state_digest(t)
  /\ burned' = burned + burn_amount(t)
  /\ UNCHANGED <<issue, plans>>

\* A proof of the statement, and the statement's digests in the receipt
\* (matches_receipt).
proved_by(s, w) ==
  /\ phase # "none"
  /\ transition_proved(s, w)
  /\ s.previous_state_digest = digest
  /\ phase' = "continued"
  /\ latest' = transition_of(s, w)
  /\ digest' = s.new_state_digest
  /\ burned' = burned + s.burned_supply
  /\ UNCHANGED <<issue, plans>>

Issue ==
  \E terms \in Terms, owner \in Owner, allocations \in Allocations :
    issue_asset([terms |-> terms, owner_commitment |-> owner,
                 allocations |-> allocations])

\* The part a caller copies from the state they know, spending all of it or a
\* part.
Spendings ==
  {[terms |-> terms, previous_owner_commitment |-> owner,
    previous_state_digest |-> digest, spent_allocations |-> spent] :
     terms \in Terms, owner \in Owner,
     spent \in {SubSeq(Live, i, j) : i, j \in DOMAIN Live}}

\* The spendings whose digest is right; the others are refused by every
\* validator, whatever the rest of the record is.
KnownSpendings ==
  {x \in Spendings :
     state_digest(x.terms, x.spent_allocations, x.previous_owner_commitment)
       = x.previous_state_digest}

PlanFrom(x, owner, authorization, shapes, burn) ==
  [terms |-> x.terms,
   previous_owner_commitment |-> x.previous_owner_commitment,
   new_owner_commitment |-> owner,
   ownership_authorization_commitment |-> authorization,
   previous_state_digest |-> x.previous_state_digest,
   spent_allocations |-> x.spent_allocations,
   new_allocation_shapes |-> shapes,
   burn |-> burn]

TransitionFrom(x, owner, authorization, allocations, burn, witness_txid) ==
  [terms |-> x.terms,
   previous_owner_commitment |-> x.previous_owner_commitment,
   new_owner_commitment |-> owner,
   ownership_authorization_commitment |-> authorization,
   previous_state_digest |-> x.previous_state_digest,
   spent_allocations |-> x.spent_allocations,
   new_allocations |-> allocations,
   burn |-> burn,
   witness_txid |-> witness_txid]

Plan ==
  /\ phase # "none"
  /\ Cardinality(plans) < MaxPlans
  /\ \E x \in KnownSpendings, owner \in Owner,
        authorization \in Authorization, burn \in Burn,
        shapes \in Shapes :
       draw_up(PlanFrom(x, owner, authorization, shapes, burn))

\* RgkContinuationPlan::finalize
Finalize ==
  \E plan \in plans, witness_txid \in Txid, depth \in Depth :
    continued_by(finalized(plan, witness_txid, 0, depth))

Receive ==
  /\ phase # "none"
  /\ \E x \in KnownSpendings, owner \in Owner,
        authorization \in Authorization, burn \in Burn, witness_txid \in Txid,
        allocations \in Allocations :
       continued_by(TransitionFrom(x, owner, authorization, allocations, burn,
                               witness_txid))

\* The live allocations in every order, under the terms and the owner whose
\* digest is the present one in that order.
ProvedSpendings ==
  {[terms |-> terms, previous_owner_commitment |-> owner,
    previous_state_digest |-> digest, spent_allocations |-> spent] :
     terms \in Terms, owner \in Owner, spent \in [DOMAIN Live -> Range(Live)]}

KnownProvedSpendings ==
  {x \in ProvedSpendings :
     circuit_state_digest(x.terms, x.spent_allocations, x.previous_owner_commitment)
       = x.previous_state_digest}

Witnesses(spent) ==
  {AllocationVectors(spent, <<>>, txid) : txid \in Txid}
    \cup {AllocationVectors(spent, new, None) : new \in Allocations \ {<<>>}}

\* What a prover states: the digests, which the circuit computes, and supplies
\* that add up.
StatementFrom(x, owner, authorization, burn, w) ==
  LET t == TransitionFrom(x, owner, authorization, w.new, burn, witness_txid_of(w))
      spent == allocation_total(w.spent)
      report == [transition_report(t) EXCEPT !.new_supply = spent - burn_amount(t),
                                             !.burned_supply = burn_amount(t)]
      new_digest == circuit_state_digest(x.terms, w.new, owner)
      s == semantic_statement(report, None, new_digest, None,
             continuation_shape_root_digest(x.terms, w.new))
  IN [s EXCEPT !.transition_digest = circuit_transition_digest(s, w),
               !.continuation_commitment = continuation_commitment_digest(s, w)]

ReceiveProof ==
  /\ phase # "none"
  /\ \E x \in KnownProvedSpendings, owner \in Owner,
        authorization \in Authorization, burn \in Burn :
       \E w \in Witnesses(x.spent_allocations) :
         proved_by(StatementFrom(x, owner, authorization, burn, w), w)

\* The record of a plan as it is read back: unchanged, or with the plan, the
\* burn, the strategy or the frame of another record in it.
ReadRecords(plan) ==
  LET record == record_of(strategy_plan(plan))
      last == Len(plan.spent_allocations)
      others == {[plan EXCEPT !.new_allocation_shapes = shapes] : shapes \in Shapes}
                  \cup {[plan EXCEPT !.spent_allocations =
                           [i \in DOMAIN @ |-> @[last + 1 - i]]]}
  IN {[record EXCEPT !.plan = encode_continuation_plan(p)] : p \in others}
       \cup {[record EXCEPT !.plan.burn = b] :
               b \in {encode_burn(x) : x \in Burn}
                      \cup {[record.plan.burn EXCEPT ![1] = 2]}}
       \cup {[record EXCEPT !.strategy = b] :
               b \in {<<0, 1>>, <<0, 6>>, <<1, SegmentCapacity + 1, 1, 1, 1, 6>>}}
       \cup {[record EXCEPT !.rest = 1], [record EXCEPT !.version = 0],
             [record EXCEPT !.plan.terms.privacy_policy = 3],
             [record EXCEPT !.plan.terms.chain = 2]}

\* RgkProductionAllocationStrategyRecord: a plan is kept as canonical_bytes and
\* comes back by decode_canonical.
ReadBack ==
  \E plan \in plans :
    /\ has_strategy(plan)
    /\ encodes(strategy_plan(plan))
    /\ \E record \in ReadRecords(plan) :
         /\ record_decodes(record)
         /\ plans' = (plans \ {plan}) \cup {decode_continuation_plan(record.plan)}
    /\ UNCHANGED <<phase, issue, latest, digest, burned>>

Drop ==
  \E plan \in plans :
    /\ plans' = plans \ {plan}
    /\ UNCHANGED <<phase, issue, latest, digest, burned>>

AssetInit ==
  /\ phase = "none"
  /\ issue = None
  /\ latest = None
  /\ digest = Zero
  /\ burned = 0
  /\ plans = {}

AssetNext == Issue \/ Plan \/ Finalize \/ Receive \/ ReceiveProof
             \/ ReadBack \/ Drop

AssetSpec == AssetInit /\ [][AssetNext]_assetVars

-----------------------------------------------------------------------------
\* Over any number of transfers, splits, merges and burns, the live amounts
\* and all burn proofs ever accepted add up to the issued supply, although no
\* validator sees more than one transition and total_supply is compared with
\* the amounts at the issue only (validate_allocation_set_exact).
SupplyAccounted ==
  phase # "none" =>
    allocation_total(Live) + burned = issue.terms.total_supply

\* A step continues the state before it: same asset, supply, chain, metadata,
\* lane, privacy and proof policy, and from the owner the step before ended
\* with.  None of these is compared with the history; they are held by the
\* state digest.  The schema is not part of the digest and is not held.
StepsContinueTerms ==
  [][latest' # latest =>
       LET now == PresentTerms
           next == latest'.terms
       IN /\ next.chain = now.chain
          /\ next.asset_id = now.asset_id
          /\ next.total_supply = now.total_supply
          /\ next.metadata_commitment = now.metadata_commitment
          /\ next.lane_id = now.lane_id
          /\ next.privacy_policy = now.privacy_policy
          /\ next.proof_policy = now.proof_policy
          /\ latest'.previous_owner_commitment = PresentOwner]_assetVars

\* A plan is only ever refused for what its transaction brings: one that
\* validated and whose state is still the present one finalizes under every
\* transaction id not seen among the spent outpoints and every confirmed
\* depth, into a transition with the supplies and counts the plan promised, and
\* a plan that has a strategy or a fixed shape keeps it.
PlansFinalize ==
  \A plan \in plans :
    \A txid \in Txid \ {Zero}, depth \in Depth \ {0} :
      txid \notin {OutpointOf(a).transaction_id : a \in Range(plan.spent_allocations)}
        => LET t == finalized(plan, txid, 0, depth)
           IN /\ transition_valid(t)
              /\ transition_report(t) = continuation_report(plan)
              /\ has_strategy(plan) => strategy_finalizes(strategy_plan(plan), t)
              /\ validate_for_production_zk(plan) => finalizes_for_production_zk(plan, t)

\* The commitment that goes into the covenant before the transaction exists
\* fixes the state after it: of all ways to order a plan's allocations and to
\* choose its outputs, those that give the same commitment finalize to the same
\* state digest.  So does the commitment in a plan's record: a record that was
\* written is read back as the plan, and one that was changed on the way is
\* refused unless its plan has the same commitments and finalizes to the same
\* digest.  Of plans for the present state; an older one was, or was read back
\* from, one of these.
CommitmentFixesState ==
  \A plan \in {p \in plans : p.previous_state_digest = digest} :
    LET same_state(other) ==
          \A txid \in Txid, depth \in Depth :
            new_state_digest(finalized(other, txid, 0, depth))
              = new_state_digest(finalized(plan, txid, 0, depth))
    IN /\ \A shapes \in Shapes :
            LET other == [plan EXCEPT !.new_allocation_shapes = shapes]
            IN validate_against_commitment(other, continuation_commitment(plan))
                 => same_state(other)
       /\ has_strategy(plan) /\ encodes(strategy_plan(plan))
            => /\ record_decodes(record_of(strategy_plan(plan)))
               /\ decode_continuation_plan(encode_continuation_plan(plan)) = plan
               /\ \A record \in ReadRecords(plan) :
                    record_decodes(record)
                      => LET other == decode_continuation_plan(record.plan)
                         IN /\ continuation_commitment(other)
                                 = continuation_commitment(plan)
                            /\ strategy_plan(other).strategy
                                 = strategy_plan(plan).strategy
                            /\ same_state(other)

\* An outpoint is in one covenant.
AnchoredOnce(t) ==
  \A a, b \in Range(t.spent_allocations) \cup Range(t.new_allocations) :
    OutpointOf(a) = OutpointOf(b) => a.anchor.covenant_id = b.anchor.covenant_id

\* A step known only by its proof is one the native validator accepts: what the
\* circuit leaves out (proof policy, total supply, the outpoint without the
\* covenant) is held by the history or by the chain.  The validator wants the
\* spent allocations in the digest sorted.
ProvedStepsValid ==
  latest # None /\ AnchoredOnce(latest) /\ sorted(latest.spent_allocations)
    => transition_valid(latest)

\* A step that finalizes a plan of a fixed shape can be proved exactly if its
\* allocations and shapes are in canonical order: there is then a statement of
\* the step and the plan, which the validator of statements and the circuit both
\* accept; in another order the step is as valid and the circuit computes other
\* digests.
PlansProveInOrder ==
  [][\A plan \in plans :
       LET t == latest'
           s == from_reports(t, plan)
       IN latest' # latest
            /\ (\E txid \in Txid, depth \in Depth : t = finalized(plan, txid, 0, depth))
          => /\ reports_agree(t, plan)
             /\ semantic_valid(s)
             /\ transition_proved(s, witness_of(t)) <=>
                  /\ validate_for_production_zk(plan)
                  /\ sorted(t.spent_allocations)
                  /\ sorted(t.new_allocations)]_assetVars
=============================================================================
