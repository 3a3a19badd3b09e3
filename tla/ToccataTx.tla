------------------------------ MODULE ToccataTx ------------------------------
(***************************************************************************)
(* Transactions (crates/rgk-tx): the builders, the covenant groups of a     *)
(* genesis, the transaction id and the signature hash.                      *)
(*                                                                          *)
(* A hash is the record of what is hashed.  Values, sequence numbers, lock  *)
(* time, subnetwork and gas are left out: RGK's builders give the last four *)
(* a fixed value, and that outputs are worth no more than inputs is checked *)
(* by the node.                                                             *)
(***************************************************************************)
EXTENDS CovenantScript

\* KaspaOutpoint; transaction_id is the number of the accepted transaction.
Outpoint(transaction_id, index) == <<transaction_id, index>>

TxInput(outpoint) ==
  [previous_outpoint |-> outpoint, signature_script |-> None, compute_budget |-> 0]

\* TxOutput::new and TxOutput::covenant
TxOutput(script_public_key, binding) ==
  [script_public_key |-> script_public_key, covenant_binding |-> binding]

CovenantBinding(authorizing_input, covenant_id) ==
  [authorizing_input |-> authorizing_input, covenant_id |-> covenant_id]

-----------------------------------------------------------------------------
(* Genesis.                                                                 *)

\* Variant: only the transaction of the outpoint is part of the id.
compute_covenant_id_indexless(genesis_outpoint, authorized_outputs) ==
  [genesis_outpoint |-> Outpoint(genesis_outpoint[1], 0),
   authorized_outputs |-> authorized_outputs]

compute_covenant_id(genesis_outpoint, authorized_outputs) ==
  [genesis_outpoint |-> genesis_outpoint,
   authorized_outputs |-> authorized_outputs]

\* The index and script public key of some outputs of a transaction.
authorized(tx, indices) ==
  {[index |-> k, script_public_key |-> tx.outputs[k + 1].script_public_key] :
     k \in indices}

\* The checks of populate_genesis_covenants, made before any output is changed.
groups_valid(tx, groups) ==
  /\ \A g \in DOMAIN groups :
       LET outputs == groups[g].outputs
       IN /\ groups[g].authorizing_input < Len(tx.inputs)
          /\ outputs # <<>>
          /\ \A k \in DOMAIN outputs :
               /\ k > 1 => outputs[k - 1] < outputs[k]
               /\ outputs[k] < Len(tx.outputs)
               /\ tx.outputs[outputs[k] + 1].covenant_binding = None
  /\ \A g, h \in DOMAIN groups :
       g # h => Range(groups[g].outputs) \cap Range(groups[h].outputs) = {}

group_binding(tx, group) ==
  CovenantBinding(group.authorizing_input,
    compute_covenant_id(
      tx.inputs[group.authorizing_input + 1].previous_outpoint,
      authorized(tx, Range(group.outputs))))

populate_genesis_covenants(tx, groups) ==
  LET Of(k) == {g \in Range(groups) : k - 1 \in Range(g.outputs)}
  IN [inputs |-> tx.inputs, payload |-> tx.payload,
      outputs |->
        [k \in DOMAIN tx.outputs |->
           TxOutput(tx.outputs[k].script_public_key,
             IF Of(k) = {} THEN tx.outputs[k].covenant_binding
             ELSE group_binding(tx, CHOOSE g \in Of(k) : TRUE))]]

-----------------------------------------------------------------------------
(* Transition.                                                              *)

build_transition_spend(open_covenant) == TxInput(open_covenant)

\* Variant: the change comes first.
build_transition_outputs_change_first(new_spk, new_covenant_id, change) ==
  LET covenant_out == TxOutput(new_spk, CovenantBinding(0, new_covenant_id))
  IN IF change THEN <<TxOutput(Wallet, None), covenant_out>> ELSE <<covenant_out>>

\* change: change_spk is given and change_value is not zero.
build_transition_outputs(new_spk, new_covenant_id, change) ==
  LET covenant_out == TxOutput(new_spk, CovenantBinding(0, new_covenant_id))
  IN IF change THEN <<covenant_out, TxOutput(Wallet, None)>> ELSE <<covenant_out>>

-----------------------------------------------------------------------------
(* Hashes.                                                                  *)

\* The six values ToccataSigHashType::from_u8 accepts.
SigHashType == [outputs : {"all", "none", "single"}, anyone_can_pay : BOOLEAN]

outpoints(tx) == [i \in DOMAIN tx.inputs |-> tx.inputs[i].previous_outpoint]

\* rest_digest excludes payload, signature scripts and mass commitments;
\* txid joins it with the digest of the payload.
txid(tx) ==
  [inputs |-> outpoints(tx), outputs |-> tx.outputs, payload |-> tx.payload]

\* Variant: covenant bindings are not signed.
sighash_outputs_unbound(tx, i, hash_type) ==
  CASE hash_type.outputs = "none" -> <<>>
    [] hash_type.outputs = "single" ->
         IF i \in DOMAIN tx.outputs THEN <<tx.outputs[i]>> ELSE <<>>
    [] hash_type.outputs = "all" ->
         [k \in DOMAIN tx.outputs |-> tx.outputs[k].script_public_key]

\* sighash_outputs_hash; an all-zero hash is the empty sequence.
sighash_outputs(tx, i, hash_type) ==
  CASE hash_type.outputs = "none" -> <<>>
    [] hash_type.outputs = "single" ->
         IF i \in DOMAIN tx.outputs THEN <<tx.outputs[i]>> ELSE <<>>
    [] hash_type.outputs = "all" -> tx.outputs

schnorr_signature_hash(tx, i, entry, hash_type) ==
  [previous_outputs |-> IF hash_type.anyone_can_pay THEN <<>> ELSE outpoints(tx),
   previous_outpoint |-> tx.inputs[i].previous_outpoint,
   script_public_key |-> entry.script_public_key,
   outputs |-> sighash_outputs(tx, i, hash_type),
   payload |-> tx.payload,
   hash_type |-> hash_type]
=============================================================================
