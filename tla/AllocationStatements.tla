------------------------- MODULE AllocationStatements -------------------------
(***************************************************************************)
(* What the segmented allocation proofs of crates/rgk-zk (real_zk.rs) state *)
(* and which statements have a proof.                                       *)
(*                                                                          *)
(* A side's allocations are cut into segments of SPENT or NEW allocations.  *)
(* A transcript statement adds a segment to a chain of roots, a conservation*)
(* statement adds its amount to a hidden running total, the final statement *)
(* equates the totals of both sides, an exclusion statement says that a     *)
(* spent and a new segment have no outpoint window in common.               *)
(*                                                                          *)
(* Roots and commitments are the records they hash.  A segment is the set   *)
(* of its allocations: root and witness sort it, and its circuit wants the  *)
(* windows distinct.  Public inputs are the statement itself; their       *)
(* parsers accept exactly what public_inputs writes.  Groth16 is taken to be*)
(* sound, and the keys of a proof to be those of its circuit.               *)
(***************************************************************************)
EXTENDS AllocationWitness

CONSTANTS
  SpentArity,  \* SPENT: allocations in a segment of the spent side
  NewArity     \* NEW: allocations in a segment of the new side

Side == {"Spent", "New"}
arity(side) == IF side = "Spent" THEN SpentArity ELSE NewArity

-----------------------------------------------------------------------------
(* Hashes.                                                                  *)

allocation_transcript_empty_root(side) ==
  [previous_root |-> None, side |-> side, segment_index |-> 0,
   total_count |-> 0, allocations |-> {}]

extend_allocation_transcript_root(previous_root, side, index, total, S) ==
  [previous_root |-> previous_root, side |-> side, segment_index |-> index,
   total_count |-> total, allocations |-> S]

allocation_transcript_amount_commitment(side, index, total, amount, blinding) ==
  [side |-> side, segment_index |-> index, total_count |-> total,
   amount |-> amount, blinding |-> blinding]

allocation_conservation_total_commitment(side, total, running, blinding) ==
  [side |-> side, total_count |-> total, running_total |-> running,
   blinding |-> blinding]

-----------------------------------------------------------------------------
(* Transcript segments.                                                     *)

chain_of(S) == (CHOOSE a \in S : TRUE).anchor.chain

\* from_allocations, whose errors are in the conditions on statements below
transcript(previous_root, side, index, total, S, blinding) ==
  [previous_root |-> previous_root,
   next_root |->
     extend_allocation_transcript_root(previous_root, side, index, total, S),
   chain_id |-> chain_of(S), side |-> side,
   segment_index |-> index, total_count |-> total,
   segment_amount_commitment |->
     allocation_transcript_amount_commitment(side, index, total, amount_sum(S),
                                             blinding)]

\* The witness of a statement: what its root and its commitment hide.
segment_of(statement) == statement.next_root.allocations

\* enforce_allocation_common_for_chain and enforce_distinct_outpoints
segment_enforced(S, chain) ==
  /\ \A a \in S : enforce_allocation_common(chain, a)
  /\ \A a, b \in S : outpoint_window(a) = outpoint_window(b) => a = b

\* matches_witness, before a circuit is set up
transcript_matches(s) ==
  LET S == segment_of(s)
      amount == s.segment_amount_commitment
  IN /\ Cardinality(S) = arity(s.side)
     /\ \A a \in S : a.anchor.chain = s.chain_id
     /\ amount.amount = amount_sum(S)
     /\ amount.amount <= MaxU64

\* enforce_allocation_transcript_segment_public_layout
transcript_layout(s) ==
  s.previous_root # s.next_root /\ s.total_count # 0

enforce_allocation_transcript_segment(s) ==
  LET S == segment_of(s)
      amount == s.segment_amount_commitment
  IN /\ segment_enforced(S, s.chain_id)
     /\ amount.amount = amount_sum(S)
     /\ amount.amount \in 1 .. MaxU64
     /\ amount.blinding # Zero

\* AllocationTranscriptSegmentCircuit
transcript_proved(s) ==
  /\ transcript_matches(s)
  /\ transcript_layout(s)
  /\ enforce_allocation_transcript_segment(s)

-----------------------------------------------------------------------------
(* Conservation.                                                            *)

\* The sum checked_add computes, before it is compared with u64::MAX; the
\* circuit adds in the field and gives the result eight bytes.
total_added(previous_total, S) == previous_total + amount_sum(S)

conservation(t, previous_total, previous_blinding, next_blinding) ==
  [transcript |-> t,
   previous_total_commitment |->
     allocation_conservation_total_commitment(t.side, t.total_count,
       previous_total, previous_blinding),
   next_total_commitment |->
     allocation_conservation_total_commitment(t.side, t.total_count,
       total_added(previous_total, segment_of(t)), next_blinding)]

conservation_matches(s) ==
  /\ transcript_matches(s.transcript)
  /\ s.transcript.segment_index = 0 =>
       s.previous_total_commitment.running_total = 0
  /\ s.next_total_commitment.running_total
       = total_added(s.previous_total_commitment.running_total,
                     segment_of(s.transcript))
  /\ s.next_total_commitment.running_total <= MaxU64
  /\ Zero \notin {s.previous_total_commitment.blinding,
                  s.next_total_commitment.blinding}

enforce_allocation_conservation_segment(s) ==
  /\ enforce_allocation_transcript_segment(s.transcript)
  /\ s.transcript.segment_index = 0 =>
       s.previous_total_commitment.running_total = 0
  /\ s.next_total_commitment.running_total
       = total_added(s.previous_total_commitment.running_total,
                     segment_of(s.transcript))
  /\ s.next_total_commitment.running_total \in 0 .. MaxU64
  /\ Zero \notin {s.previous_total_commitment.blinding,
                  s.next_total_commitment.blinding}

\* AllocationConservationSegmentCircuit
conservation_proved(s) ==
  /\ conservation_matches(s)
  /\ transcript_layout(s.transcript)
  /\ enforce_allocation_conservation_segment(s)

\* AllocationConservationFinalStatement::from_total: one total, two blindings.
conservation_final(spent_count, new_count, total, spent_blinding, new_blinding) ==
  [spent_total_count |-> spent_count, new_total_count |-> new_count,
   spent_total_commitment |->
     allocation_conservation_total_commitment("Spent", spent_count, total,
                                              spent_blinding),
   new_total_commitment |->
     allocation_conservation_total_commitment("New", new_count, total,
                                              new_blinding)]

\* matches_witness and enforce_allocation_conservation_final, which ask the
\* same of the one total that opens both commitments
final_matches(s) ==
  LET spent == s.spent_total_commitment
      new == s.new_total_commitment
  IN /\ spent.running_total = new.running_total
     /\ spent.running_total \in 1 .. MaxU64
     /\ Zero \notin {spent.blinding, new.blinding}

\* enforce_allocation_conservation_final_public_layout
final_layout(s) == s.spent_total_count # 0 /\ s.new_total_count # 0

\* AllocationConservationFinalCircuit
final_proved(s) == final_layout(s) /\ final_matches(s)

-----------------------------------------------------------------------------
(* Exclusion.                                                               *)

\* AllocationExclusionSegmentPairStatement::from_allocations, from the same
\* arguments as the two transcript statements
exclusion(s, n) ==
  [spent_previous_root |-> s.previous_root, spent_next_root |-> s.next_root,
   new_previous_root |-> n.previous_root, new_next_root |-> n.next_root,
   chain_id |-> s.chain_id,
   spent_segment_index |-> s.segment_index,
   new_segment_index |-> n.segment_index,
   spent_total_count |-> s.total_count, new_total_count |-> n.total_count,
   spent_amount_commitment |-> s.segment_amount_commitment,
   new_amount_commitment |-> n.segment_amount_commitment]

\* allocation_exclusion_segment_pair_matches
exclusion_matches(s, n) ==
  /\ transcript_matches(s) /\ transcript_matches(n)
  /\ s.chain_id = n.chain_id
  /\ enforce_spent_anchors_not_reused(segment_of(s), segment_of(n))

enforce_allocation_exclusion_segment_pair(s, n) ==
  /\ enforce_allocation_transcript_segment(s)
  /\ enforce_allocation_transcript_segment(n)
  /\ s.chain_id = n.chain_id
  /\ enforce_spent_anchors_not_reused(segment_of(s), segment_of(n))

\* enforce_allocation_exclusion_segment_pair_public_layout
exclusion_layout(s, n) == transcript_layout(s) /\ transcript_layout(n)

\* AllocationExclusionSegmentPairCircuit
exclusion_proved(s, n) ==
  /\ exclusion_matches(s, n)
  /\ exclusion_layout(s, n)
  /\ enforce_allocation_exclusion_segment_pair(s, n)
=============================================================================
