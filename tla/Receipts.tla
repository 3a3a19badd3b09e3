------------------------------ MODULE Receipts ------------------------------
(***************************************************************************)
(* Receipts: RgkReceipt and the policies of crates/rgk-core, the builder    *)
(* and the local verifier of crates/rgk-receipt.  Pure functions: a receipt *)
(* is built or decoded, checked against the state the verifier expects, and *)
(* named by its commitment.                                                 *)
(***************************************************************************)
EXTENDS IndexerEntry

ProofMode == {"VerifierReceipt", "ZkReceipt", "P2mrRet"}
ReceiptPolicy == {"Any", "VerifierOnly", "ZkOrVerifier"}

ASSUME PolicyAssumption == Policy \subseteq ReceiptPolicy

\* ReceiptPolicy::admits
admits(policy, mode) ==
  \/ policy = "Any"
  \/ policy = "VerifierOnly" /\ mode = "VerifierReceipt"
  \/ policy = "ZkOrVerifier" /\ mode \in {"VerifierReceipt", "ZkReceipt"}

RgkReceipt ==
  [chain_id : Chain, covenant_id : Covenant,
   old_state : RgkStateCommitment, new_state : RgkStateCommitment,
   transition_digest : Hash, continuation_commitment : Hash,
   proof_mode : ProofMode, replay_nonce : Hash]

\* Variant: a receipt that leaves the state digest as it was is well formed.
validate_structure_noop(receipt) ==
  /\ receipt.old_state.chain_id = receipt.chain_id
  /\ receipt.new_state.chain_id = receipt.chain_id
  /\ receipt.old_state.covenant_id = receipt.covenant_id
  /\ receipt.new_state.covenant_id = receipt.covenant_id
  /\ receipt.old_state.asset_id = receipt.new_state.asset_id
  /\ receipt.old_state.receipt_policy = receipt.new_state.receipt_policy
  /\ receipt.transition_digest # Zero
  /\ receipt.continuation_commitment # Zero
  /\ admits(receipt.old_state.receipt_policy, receipt.proof_mode)

\* RgkReceipt::validate_structure, run by new and by decode.
validate_structure(receipt) ==
  /\ receipt.old_state.chain_id = receipt.chain_id
  /\ receipt.new_state.chain_id = receipt.chain_id
  /\ receipt.old_state.covenant_id = receipt.covenant_id
  /\ receipt.new_state.covenant_id = receipt.covenant_id
  /\ receipt.old_state.asset_id = receipt.new_state.asset_id
  /\ receipt.old_state.receipt_policy = receipt.new_state.receipt_policy
  /\ receipt.old_state.state_digest # receipt.new_state.state_digest
  /\ receipt.transition_digest # Zero
  /\ receipt.continuation_commitment # Zero
  /\ admits(receipt.old_state.receipt_policy, receipt.proof_mode)

\* ReceiptInput::to_validated_receipt: what the builder refuses on top.
to_validated_receipt(receipt) ==
  /\ receipt.replay_nonce # Zero
  /\ validate_structure(receipt)

\* ReceiptVerifier::verify_local_structured
verify_local_structured(receipt, expected_covenant, expected_old, chain) ==
  /\ receipt.chain_id = chain
  /\ receipt.covenant_id = expected_covenant
  /\ receipt.old_state.asset_id = expected_old.asset_id
  /\ receipt.new_state.asset_id = expected_old.asset_id
  /\ receipt.old_state.state_digest = expected_old.state_digest
  /\ admits(expected_old.receipt_policy, receipt.proof_mode)

\* verify_local on bytes: decode, then the checks above.
verify_local(receipt, expected_covenant, expected_old, chain) ==
  /\ validate_structure(receipt)
  /\ verify_local_structured(receipt, expected_covenant, expected_old, chain)

\* RgkResolver::verify_receipt_against_indexer; id is the commitment of the
\* receipt, entry None when the covenant is not indexed.
verify_receipt_against_indexer(entry, receipt, id, covenant, chain) ==
  /\ entry # None
  /\ validate_structure(receipt)
  /\ ~ has_receipt(entry, id)
  /\ verify_local(receipt, covenant, entry.latest_state, chain)
=============================================================================
