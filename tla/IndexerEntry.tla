---------------------------- MODULE IndexerEntry ----------------------------
(***************************************************************************)
(* The records of crates/rgk-indexer and the functions that act on one     *)
(* IndexedCovenant: opening it, applying a spend, rolling spends back and   *)
(* attaching an allocation-audit certificate.  Both back ends of the crate  *)
(* (InMemoryIndexer and SledIndexer) call these functions; the state        *)
(* machine over the whole map is module Indexer.                            *)
(*                                                                          *)
(* 32-byte values are members of small sets.  Zero is the all-zero value    *)
(* that several checks refuse.  A hash is modelled by the tuple it is       *)
(* computed from, so it is injective and equality of hashes is equality of  *)
(* what was hashed.                                                         *)
(***************************************************************************)
EXTENDS Naturals, Sequences

CONSTANTS
  Chain,       \* KaspaChainId
  Covenant,    \* KaspaCovenantId
  Asset,       \* asset ids
  Lineage,     \* lineage ids
  Txid,        \* transaction ids
  Digest,      \* (non-zero) state digests
  Policy,      \* ReceiptPolicy
  Receipt,     \* ReceiptId
  Hash,        \* other 32-byte commitments, Zero included
  Zero,        \* [0u8; 32]
  Body,        \* the part of a certificate the indexer does not interpret
  MaxDaa,      \* largest DAA score
  None         \* Option::None

Outpoint == [transaction_id : Txid, index : {0}]
Daa == 0 .. MaxDaa

RgkStateCommitment ==
  [chain_id : Chain, covenant_id : Covenant, asset_id : Asset,
   state_digest : Digest, receipt_policy : Policy]

ContinuationProof ==
  [commitment : Hash, shape_root : Hash, transition_digest : Hash]

\* policy_migration_commitment hashes all six fields under one domain.
policy_migration_commitment(previous_policy, new_policy, previous_digest, new_digest, transition_digest, authorization) ==
  <<previous_policy, new_policy, previous_digest, new_digest,
    transition_digest, authorization>>

MigrationCommitment ==
  Policy \X Policy \X Digest \X Digest \X Hash \X Hash

PolicyMigrationProof ==
  [previous_policy : Policy, new_policy : Policy,
   previous_state_digest : Digest, new_state_digest : Digest,
   transition_digest : Hash, authorization_commitment : Hash,
   migration_commitment : MigrationCommitment]

\* canonical_bytes is kept as: its length and magic are in order (envelope),
\* the certificate id embedded after the magic, and the rest (body).
AllocationAuditCertificateRecord ==
  [certificate_id : Hash, envelope : BOOLEAN, embedded_id : Hash, body : Body]

SpendEntry ==
  [daa_score : Daa, spent : Outpoint, created : Outpoint,
   new_state_digest : Digest,          \* the digest BEFORE the spend
   resulting_state_digest : Digest,    \* the digest after it
   previous_receipt_policy : Policy, new_receipt_policy : Policy,
   receipt_id : Receipt,
   continuation : ContinuationProof \cup {None},
   policy_migration : PolicyMigrationProof \cup {None},
   allocation_audit_certificate : AllocationAuditCertificateRecord \cup {None}]

IndexedCovenant ==
  [covenant_id : Covenant, lineage_id : Lineage, chain_id : Chain,
   open_outpoint : Outpoint \cup {None},
   latest_state : RgkStateCommitment,
   accepted_receipts : Seq(Receipt),
   spend_history : Seq(SpendEntry),
   last_update_daa_score : Daa]

ASSUME ConstantsAssumption ==
  /\ MaxDaa \in Nat
  /\ Zero \in Hash
  /\ None \notin Outpoint
  /\ None \notin Receipt
  /\ None \notin ContinuationProof
  /\ None \notin PolicyMigrationProof
  /\ None \notin AllocationAuditCertificateRecord

-----------------------------------------------------------------------------
(* Checks on the proof material that comes with a spend.                    *)

validate_continuation_proof(proof) ==
  /\ proof.commitment # Zero
  /\ proof.shape_root # Zero
  /\ proof.transition_digest # Zero

validate_policy_migration_proof(proof, previous_policy, new_policy, previous_digest, new_digest, transition) ==
  /\ previous_policy # new_policy
  /\ proof.previous_policy = previous_policy
  /\ proof.new_policy = new_policy
  /\ proof.previous_state_digest = previous_digest
  /\ proof.new_state_digest = new_digest
  /\ proof.transition_digest = transition
  /\ proof.authorization_commitment # Zero
  /\ proof.migration_commitment =
       policy_migration_commitment(proof.previous_policy, proof.new_policy,
         proof.previous_state_digest, proof.new_state_digest,
         proof.transition_digest, proof.authorization_commitment)

validate_allocation_audit_certificate_record(record) ==
  /\ record.certificate_id # Zero
  /\ record.envelope
  /\ record.embedded_id = record.certificate_id

-----------------------------------------------------------------------------
(* One entry: opened, advanced by a spend, rolled back.                     *)

opened(covenant, chain, lineage, initial, outpoint, daa) ==
  [covenant_id |-> covenant, lineage_id |-> lineage, chain_id |-> chain,
   open_outpoint |-> outpoint, latest_state |-> initial,
   accepted_receipts |-> <<>>, spend_history |-> <<>>,
   last_update_daa_score |-> daa]

has_receipt(entry, receipt) ==
  \E i \in DOMAIN entry.accepted_receipts : entry.accepted_receipts[i] = receipt

\* Variant: apply_spend_to_entry without the accepted_receipts lookup.
spend_admitted_replay(entry, receipt, spent, new_state) ==
  /\ entry.chain_id = new_state.chain_id
  /\ entry.covenant_id = new_state.covenant_id
  /\ entry.latest_state.asset_id = new_state.asset_id
  /\ entry.open_outpoint = spent
  /\ entry.latest_state.state_digest # new_state.state_digest

\* The checks of apply_spend_to_entry on the entry and the new state.
spend_admitted(entry, receipt, spent, new_state) ==
  /\ ~ has_receipt(entry, receipt)
  /\ entry.chain_id = new_state.chain_id
  /\ entry.covenant_id = new_state.covenant_id
  /\ entry.latest_state.asset_id = new_state.asset_id
  /\ entry.open_outpoint = spent
  /\ entry.latest_state.state_digest # new_state.state_digest

\* Variant: a migration proof is stored without being validated.
proofs_admitted_unvalidated(entry, new_state, continuation, migration) ==
  /\ continuation # None => validate_continuation_proof(continuation)
  /\ migration # None => continuation # None

\* The checks of apply_spend_to_entry on the optional proofs.
proofs_admitted(entry, new_state, continuation, migration) ==
  /\ continuation # None => validate_continuation_proof(continuation)
  /\ migration # None =>
       /\ continuation # None
       /\ validate_policy_migration_proof(migration,
            entry.latest_state.receipt_policy, new_state.receipt_policy,
            entry.latest_state.state_digest, new_state.state_digest,
            continuation.transition_digest)

\* The SpendEntry pushed by apply_spend_to_entry.
spend_entry(entry, receipt, spent, new_outpoint, new_state, daa, continuation, migration) ==
  [daa_score |-> daa, spent |-> spent, created |-> new_outpoint,
   new_state_digest |-> entry.latest_state.state_digest,
   resulting_state_digest |-> new_state.state_digest,
   previous_receipt_policy |-> entry.latest_state.receipt_policy,
   new_receipt_policy |-> new_state.receipt_policy,
   receipt_id |-> receipt, continuation |-> continuation,
   policy_migration |-> migration, allocation_audit_certificate |-> None]

\* The entry after apply_spend_to_entry returns Ok.
spend_applied(entry, receipt, spent, new_outpoint, new_state, daa, continuation, migration) ==
  [entry EXCEPT
     !.open_outpoint = new_outpoint,
     !.latest_state = new_state,
     !.last_update_daa_score = daa,
     !.accepted_receipts = Append(@, receipt),
     !.spend_history = Append(@, spend_entry(entry, receipt, spent,
        new_outpoint, new_state, daa, continuation, migration))]

saturating_sub_one(n) == IF n = 0 THEN 0 ELSE n - 1

\* Variant: rollback leaves the newest receipt policy in place.
rolled_back_keeping_policy(entry, n) ==
  LET kept == Len(entry.spend_history) - n
      last == entry.spend_history[kept + 1]
  IN [entry EXCEPT
        !.open_outpoint = last.spent,
        !.latest_state.state_digest = last.new_state_digest,
        !.accepted_receipts = SubSeq(@, 1, kept),
        !.spend_history = SubSeq(@, 1, kept),
        !.last_update_daa_score = saturating_sub_one(last.daa_score)]

\* The entry after the loop of rollback popped n > 0 spends: the scalar fields
\* are those the last popped entry assigned, history[Len - n + 1].
rolled_back(entry, n) ==
  LET kept == Len(entry.spend_history) - n
      last == entry.spend_history[kept + 1]
  IN [entry EXCEPT
        !.open_outpoint = last.spent,
        !.latest_state.state_digest = last.new_state_digest,
        !.latest_state.receipt_policy = last.previous_receipt_policy,
        !.accepted_receipts = SubSeq(@, 1, kept),
        !.spend_history = SubSeq(@, 1, kept),
        !.last_update_daa_score = saturating_sub_one(last.daa_score)]

\* Position of the spend that iter().find(|s| s.receipt_id == receipt) returns.
first_with_receipt(history, receipt) ==
  CHOOSE i \in DOMAIN history :
    /\ history[i].receipt_id = receipt
    /\ \A j \in DOMAIN history : history[j].receipt_id = receipt => i <= j

\* The entry after record_allocation_audit_certificate_on_entry wrote to the
\* spend at that position.
certified(entry, at, certificate) ==
  LET history == entry.spend_history
      spend == [history[at] EXCEPT !.allocation_audit_certificate = certificate]
  IN [entry EXCEPT !.spend_history = [history EXCEPT ![at] = spend]]
=============================================================================
