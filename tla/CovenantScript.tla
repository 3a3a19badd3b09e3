--------------------------- MODULE CovenantScript ---------------------------
(***************************************************************************)
(* The covenant state, the continuation policies and the redeem script      *)
(* (crates/rgk-covenant).                                                   *)
(*                                                                          *)
(* A script is what its opcodes check: a payload template and a policy.  A  *)
(* script public key is the script it hashes, or Wallet for any other.  A   *)
(* payload is the record of the slices that CovenantState::encode_payload   *)
(* lays out one after the other, with its length.                           *)
(***************************************************************************)
EXTENDS Naturals, Sequences, FiniteSets, Functions

CONSTANTS
  Zero,        \* the all-zero 32-byte value
  None,        \* Option::None
  Wallet       \* a script public key that is not a covenant script

EncodingVersion == 1
PayloadTag == "rgk:kov:0"

\* expected_payload_len
ExpectedPayloadLen == 148

-----------------------------------------------------------------------------
(* CovenantState.                                                           *)

\* CovenantState::validate
state_valid(state) ==
  /\ state.version = EncodingVersion
  /\ state.lineage_id # Zero
  /\ state.asset_id # Zero

\* The fields a CovenantSpec fixes; advance leaves them alone.
identity(state) ==
  [chain_id |-> state.chain_id, lineage_id |-> state.lineage_id,
   asset_id |-> state.asset_id, receipt_policy |-> state.receipt_policy,
   genesis_proof_mode |-> state.genesis_proof_mode]

\* The state of a spec's identity with the given digest and marker.
state_of(spec, digest, marker) ==
  [version |-> EncodingVersion, chain_id |-> spec.chain_id,
   lineage_id |-> spec.lineage_id, asset_id |-> spec.asset_id,
   current_state_digest |-> digest, receipt_policy |-> spec.receipt_policy,
   genesis_proof_mode |-> spec.genesis_proof_mode, replay_marker |-> marker]

can_advance(state, new_digest) == new_digest # state.current_state_digest

advance(state, new_digest, new_replay_marker) ==
  [state EXCEPT !.current_state_digest = new_digest,
                !.replay_marker = new_replay_marker]

encode_payload(state) ==
  [len |-> ExpectedPayloadLen,
   prefix |-> <<PayloadTag, state.version, state.chain_id>>,
   lineage |-> state.lineage_id,
   contract |-> state.asset_id,
   digest |-> state.current_state_digest,
   policy_mode |-> <<state.receipt_policy, state.genesis_proof_mode>>,
   replay |-> state.replay_marker]

\* The fields CovenantState::decode_payload reads.
decode_payload(payload) ==
  [version |-> payload.prefix[2], chain_id |-> payload.prefix[3],
   lineage_id |-> payload.lineage, asset_id |-> payload.contract,
   current_state_digest |-> payload.digest,
   receipt_policy |-> payload.policy_mode[1],
   genesis_proof_mode |-> payload.policy_mode[2],
   replay_marker |-> payload.replay]

\* decode_payload does not fail; ensure_consumed makes the length exact.
payload_decodes(payload) ==
  /\ payload.len = ExpectedPayloadLen
  /\ payload.prefix[1] = PayloadTag
  /\ state_valid(decode_payload(payload))

-----------------------------------------------------------------------------
(* Continuation policies.                                                   *)

singleton ==
  [kind |-> "policy", authorizing_input |-> 0, exact_output_count |-> 1,
   covenant_output_indices |-> <<0>>]

\* CovenantContinuationPolicy::validate and
\* CovenantSharedContinuationPolicy::validate
policy_valid(policy) ==
  /\ policy.exact_output_count # 0
  /\ policy.kind = "policy" =>
       LET indices == policy.covenant_output_indices
       IN /\ indices # <<>>
          /\ \A k \in DOMAIN indices :
               /\ indices[k] < policy.exact_output_count
               /\ k > 1 => indices[k - 1] < indices[k]
  /\ policy.kind = "shared" =>
       /\ policy.covenant_input_count # 0
       /\ policy.covenant_output_count # 0
       /\ policy.covenant_output_count <= policy.exact_output_count

-----------------------------------------------------------------------------
(* The redeem script, run on input i of a transaction.  spent[i] is the     *)
(* entry input i spends; Rust counts inputs and outputs from zero.          *)

\* build_script_for_policy and build_script_for_shared_policy
build_script(spec, policy) ==
  [template |-> encode_payload(state_of(spec, Zero, Zero)), policy |-> policy]

bound_to(output, covenant_id) ==
  /\ output.covenant_binding # None
  /\ output.covenant_binding.covenant_id = covenant_id

\* Variant: a continuation output keeps the id but not the script.
keeps_covenant_id(output, entry) ==
  entry.covenant_id # None /\ bound_to(output, entry.covenant_id)

\* Script public key and covenant id of an output are those of a spent entry.
keeps_covenant(output, entry) ==
  /\ output.script_public_key = entry.script_public_key
  /\ entry.covenant_id # None
  /\ bound_to(output, entry.covenant_id)

\* Variant: the slice of the asset is not compared.
payload_admitted_any_asset(template, payload) ==
  /\ payload.len = ExpectedPayloadLen
  /\ payload.prefix = template.prefix
  /\ payload.lineage = template.lineage
  /\ payload.policy_mode = template.policy_mode

\* Sections C and D: the length and the four slices that never change.
payload_admitted(template, payload) ==
  /\ payload.len = ExpectedPayloadLen
  /\ payload.prefix = template.prefix
  /\ payload.lineage = template.lineage
  /\ payload.contract = template.contract
  /\ payload.policy_mode = template.policy_mode

\* Section A of build_script_for_policy; a shared script runs on any input.
input_admitted(policy, i) ==
  policy.kind = "policy" => i = policy.authorizing_input + 1

\* Variant: the number of outputs is a minimum.
policy_script_at_least(policy, tx, spent, i) ==
  /\ Len(tx.outputs) >= policy.exact_output_count
  /\ \A k \in Range(policy.covenant_output_indices) :
       /\ keeps_covenant(tx.outputs[k + 1], spent[i])
       /\ tx.outputs[k + 1].covenant_binding.authorizing_input
            = policy.authorizing_input

\* Section B of build_script_for_policy
policy_script(policy, tx, spent, i) ==
  /\ Len(tx.outputs) = policy.exact_output_count
  /\ \A k \in Range(policy.covenant_output_indices) :
       /\ keeps_covenant(tx.outputs[k + 1], spent[i])
       /\ tx.outputs[k + 1].covenant_binding.authorizing_input
            = policy.authorizing_input

\* The opcodes of build_script_for_shared_policy before the payload checks
shared_script(policy, tx, spent, i) ==
  LET id == spent[i].covenant_id
      Carrying == {k \in DOMAIN tx.outputs : bound_to(tx.outputs[k], id)}
  IN /\ Len(tx.outputs) = policy.exact_output_count
     /\ id # None
     /\ Cardinality({j \in DOMAIN spent : spent[j].covenant_id = id})
          = policy.covenant_input_count
     /\ Cardinality(Carrying) = policy.covenant_output_count
     /\ \A k \in Carrying : keeps_covenant(tx.outputs[k], spent[i])

script_accepts(script, tx, spent, i) ==
  /\ input_admitted(script.policy, i)
  /\ script.policy.kind = "policy" => policy_script(script.policy, tx, spent, i)
  /\ script.policy.kind = "shared" => shared_script(script.policy, tx, spent, i)
  /\ payload_admitted(script.template, tx.payload)
=============================================================================
