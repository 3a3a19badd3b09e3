---------------------------- MODULE CovenantChain ----------------------------
(***************************************************************************)
(* Covenants on the chain: a client of crates/rgk-tx and rgk-covenant opens *)
(* them, builds transitions, signs and submits; others spend what they can, *)
(* as a covenant script asks for no signature.                              *)
(*                                                                          *)
(* What the chain admits is Toccata consensus, which is external: every     *)
(* input is unspent and its script accepts, and an output is bound to a     *)
(* covenant id by an input that carries the id or opens it.                 *)
(***************************************************************************)
EXTENDS ToccataTx

CONSTANTS
  CovenantSpec,  \* the specs in use
  Policy,        \* the continuation policies in use
  Digest,        \* state digests
  Marker,        \* replay markers
  HashType,      \* the signature hash types the client signs with
  Funding,       \* indices of the client's unspent outputs at the start
  Locking,       \* the policies of the outputs of a genesis
  Groups,        \* the covenant groups a genesis is populated with
  OtherPayload,  \* the payloads of others' transactions
  MaxAccepted    \* bound on accepted transactions

Scripts == {build_script(s, p) : s \in CovenantSpec, p \in Policy}

OutpointSet == Nat \X Nat
ScriptPublicKey == {Wallet} \cup Scripts
CovenantId ==
  [genesis_outpoint : OutpointSet,
   authorized_outputs : SUBSET [index : Nat, script_public_key : ScriptPublicKey]]

ASSUME ChainAssumption ==
  /\ \A s \in CovenantSpec : s.lineage_id # Zero /\ s.asset_id # Zero
  /\ \A p \in Policy : p.kind \in {"policy", "shared"} /\ policy_valid(p)
  /\ Locking \subseteq Seq(Policy)
  /\ Wallet \notin Scripts
  /\ None \notin CovenantId
  /\ None \notin [authorizing_input : Nat, covenant_id : CovenantId]
  /\ HashType \subseteq SigHashType
  /\ Groups \subseteq Seq([authorizing_input : Nat, outputs : Seq(Nat)])
  /\ Funding \subseteq Nat
  /\ MaxAccepted \in Nat

VARIABLES
  utxo,       \* unspent outputs, by outpoint
  accepted,   \* accepted transactions, with the entries they spent
  opened,     \* covenant ids, with the number of the transaction opening them
  draft       \* the client's transaction under construction

vars == <<utxo, accepted, opened, draft>>

NoDraft == [purpose |-> "none"]

Init ==
  /\ utxo = [o \in {Outpoint(0, k) : k \in Funding} |->
               [script_public_key |-> Wallet, covenant_id |-> None]]
  /\ accepted = <<>>
  /\ opened = {}
  /\ draft = NoDraft

-----------------------------------------------------------------------------
(* Consensus.                                                               *)

carries(entry, covenant_id) ==
  entry.covenant_id # None /\ entry.covenant_id = covenant_id

spent_by(tx) == [i \in DOMAIN tx.inputs |-> utxo[tx.inputs[i].previous_outpoint]]

\* Output k is bound by an input that carries its covenant id.
continues(tx, k) ==
  LET binding == tx.outputs[k].covenant_binding
  IN carries(spent_by(tx)[binding.authorizing_input + 1], binding.covenant_id)

\* Output k is bound to the id that its authorizing input's outpoint and the
\* outputs of the same binding give.
opens(tx, k) ==
  LET binding == tx.outputs[k].covenant_binding
      Same == {j \in DOMAIN tx.outputs : tx.outputs[j].covenant_binding = binding}
  IN binding.covenant_id =
       compute_covenant_id(
         tx.inputs[binding.authorizing_input + 1].previous_outpoint,
         authorized(tx, {j - 1 : j \in Same}))

bindings_admitted(tx) ==
  \A k \in DOMAIN tx.outputs :
    tx.outputs[k].covenant_binding # None =>
      /\ tx.outputs[k].covenant_binding.authorizing_input + 1 \in DOMAIN tx.inputs
      /\ continues(tx, k) \/ opens(tx, k)

\* A wallet output is unlocked by a signature of the transaction as it is.
unlocked(tx, spent, i) ==
  IF spent[i].script_public_key = Wallet
    THEN LET signature == tx.inputs[i].signature_script
         IN /\ signature # None
            /\ signature.hash = schnorr_signature_hash(tx, i, spent[i],
                                                       signature.hash_type)
    ELSE script_accepts(spent[i].script_public_key, tx, spent, i)

live(tx) == \A i \in DOMAIN tx.inputs : tx.inputs[i].previous_outpoint \in DOMAIN utxo

admitted(tx) ==
  /\ tx.inputs # <<>>
  /\ live(tx)
  /\ \A i, j \in DOMAIN tx.inputs :
       tx.inputs[i].previous_outpoint = tx.inputs[j].previous_outpoint => i = j
  /\ \A i \in DOMAIN tx.inputs : unlocked(tx, spent_by(tx), i)
  /\ bindings_admitted(tx)

entry_of(output) ==
  [script_public_key |-> output.script_public_key,
   covenant_id |-> IF output.covenant_binding = None THEN None
                   ELSE output.covenant_binding.covenant_id]

Spent(tx) == {tx.inputs[i].previous_outpoint : i \in DOMAIN tx.inputs}
Created(tx, n) == {Outpoint(n, k - 1) : k \in DOMAIN tx.outputs}

newly_opened(tx, n) ==
  {<<tx.outputs[k].covenant_binding.covenant_id, n>> :
     k \in {j \in DOMAIN tx.outputs :
              /\ tx.outputs[j].covenant_binding # None
              /\ ~continues(tx, j)}}

Accept(tx) ==
  LET n == Len(accepted) + 1
  IN /\ n <= MaxAccepted
     /\ admitted(tx)
     /\ utxo' = [o \in (DOMAIN utxo \ Spent(tx)) \cup Created(tx, n) |->
                   IF o[1] = n THEN entry_of(tx.outputs[o[2] + 1]) ELSE utxo[o]]
     /\ accepted' = Append(accepted, [tx |-> txid(tx), spent |-> spent_by(tx)])
     /\ opened' = opened \cup newly_opened(tx, n)

-----------------------------------------------------------------------------
(* The client.                                                              *)

Drafted(purpose, tx) == [purpose |-> purpose, tx |-> tx]

with_inputs(tx, inputs) ==
  [inputs |-> inputs, outputs |-> tx.outputs, payload |-> tx.payload]

\* A genesis spends funding and locks outputs with scripts of one spec; the
\* payload is that of CovenantState::genesis.
BuildGenesis(f, spec, policies) ==
  /\ draft = NoDraft
  /\ Len(accepted) < MaxAccepted
  /\ Outpoint(0, f) \in DOMAIN utxo
  /\ draft' = Drafted("genesis",
       [inputs |-> <<TxInput(Outpoint(0, f))>>,
        outputs |-> [k \in DOMAIN policies |->
                       TxOutput(build_script(spec, policies[k]), None)],
        payload |-> encode_payload(state_of(spec, Zero, Zero))])
  /\ UNCHANGED <<utxo, accepted, opened>>

PopulateGenesis(groups) ==
  /\ draft.purpose = "genesis"
  /\ groups_valid(draft.tx, groups)
  /\ draft' = Drafted("genesis", populate_genesis_covenants(draft.tx, groups))
  /\ UNCHANGED <<utxo, accepted, opened>>

\* The payload of the transaction that created an outpoint.
payload_at(outpoint) == accepted[outpoint[1]].tx.payload

\* Does the policy of the spent script admit what build_transition_outputs
\* builds from so many covenant inputs?
builder_fits(policy, inputs, change) ==
  /\ policy.exact_output_count = IF change THEN 2 ELSE 1
  /\ policy.kind = "policy" =>
       /\ inputs = 1
       /\ policy.authorizing_input = 0
       /\ policy.covenant_output_indices = <<0>>
  /\ policy.kind = "shared" =>
       policy.covenant_input_count = inputs /\ policy.covenant_output_count = 1

\* Advance the state of open covenants, spend them and lock the new output with
\* the script of the first.
BuildTransition(open, digest, marker, change) ==
  LET entry == utxo[open[1]]
      state == decode_payload(payload_at(open[1]))
  IN /\ draft = NoDraft
     /\ Len(accepted) < MaxAccepted
     /\ Range(open) \subseteq DOMAIN utxo
     /\ \A i, j \in DOMAIN open : open[i] = open[j] => i = j
     /\ \A i \in DOMAIN open : utxo[open[i]] = entry
     /\ entry.covenant_id # None /\ entry.script_public_key # Wallet
     /\ builder_fits(entry.script_public_key.policy, Len(open), change)
     /\ payload_decodes(payload_at(open[1]))
     /\ can_advance(state, digest)
     /\ draft' = Drafted("transition",
          [inputs |-> [i \in DOMAIN open |-> build_transition_spend(open[i])],
           outputs |-> build_transition_outputs(entry.script_public_key,
                                                entry.covenant_id, change),
           payload |-> encode_payload(advance(state, digest, marker))])
     /\ UNCHANGED <<utxo, accepted, opened>>

\* Funding for the fee, appended behind the inputs there are.
AddFeeInput(f) ==
  /\ draft # NoDraft
  /\ Outpoint(0, f) \in DOMAIN utxo \ Spent(draft.tx)
  /\ draft' = Drafted(draft.purpose,
       with_inputs(draft.tx, Append(draft.tx.inputs, TxInput(Outpoint(0, f)))))
  /\ UNCHANGED <<utxo, accepted, opened>>

\* Signature scripts and budgets are filled in.
Finish(inputs) == draft' = Drafted(draft.purpose, with_inputs(draft.tx, inputs))

\* schnorr_signature_hash is put into the input's signature script.  consent is
\* the transaction as it was signed.
Sign(i, hash_type) ==
  /\ draft # NoDraft
  /\ i \in DOMAIN draft.tx.inputs
  /\ live(draft.tx)
  /\ spent_by(draft.tx)[i].script_public_key = Wallet
  /\ LET signature ==
           [hash_type |-> hash_type, consent |-> txid(draft.tx),
            hash |-> schnorr_signature_hash(draft.tx, i, spent_by(draft.tx)[i],
                                            hash_type)]
     IN Finish([draft.tx.inputs EXCEPT ![i].signature_script = signature])
  /\ UNCHANGED <<utxo, accepted, opened>>

\* The compute budget, one for all inputs, set once the scripts are measured.
SetComputeBudget ==
  /\ draft # NoDraft
  /\ Finish([i \in DOMAIN draft.tx.inputs |->
               [draft.tx.inputs[i] EXCEPT !.compute_budget = 1]])
  /\ UNCHANGED <<utxo, accepted, opened>>

Submit ==
  /\ draft # NoDraft
  /\ Accept(draft.tx)
  /\ draft' = NoDraft

Abandon ==
  /\ draft # NoDraft
  /\ draft' = NoDraft
  /\ UNCHANGED <<utxo, accepted, opened>>

-----------------------------------------------------------------------------
(* Others.                                                                  *)

Locked == {o \in DOMAIN utxo : utxo[o].script_public_key # Wallet}

OtherSpk(inputs) == {Wallet} \cup {utxo[o].script_public_key : o \in Range(inputs)}

\* An output is bound to what is spent, to what it opens by itself, or to
\* nothing.
OtherBinding(inputs, k, spk) ==
  LET Carried == {utxo[o].covenant_id : o \in Range(inputs)} \ {None}
      Own == compute_covenant_id(inputs[1],
               {[index |-> k - 1, script_public_key |-> spk]})
  IN {None} \cup {CovenantBinding(i - 1, id) :
                    i \in DOMAIN inputs, id \in Carried \cup {Own}}

OtherOutput(inputs, k) ==
  UNION {{TxOutput(spk, b) : b \in OtherBinding(inputs, k, spk)} :
           spk \in OtherSpk(inputs)}

OtherTx(inputs, outputs, payload) ==
  [inputs |-> [i \in DOMAIN inputs |-> TxInput(inputs[i])],
   outputs |-> outputs, payload |-> payload]

OtherSpends(inputs, outputs, payload) ==
  /\ Accept(OtherTx(inputs, outputs, payload))
  /\ UNCHANGED draft

LockedInputs ==
  {<<o>> : o \in Locked} \cup {op \in Locked \X Locked : op[1] # op[2]}

\* What the scripts of the inputs ask of input index and payload: conjuncts of
\* script_accepts, stated before the outputs are chosen.
others_may_try(inputs, payload) ==
  \A i \in DOMAIN inputs :
    LET script == utxo[inputs[i]].script_public_key
    IN input_admitted(script.policy, i) /\ payload_admitted(script.template, payload)

Next ==
  \/ \E f \in Funding, s \in CovenantSpec, policies \in Locking :
       BuildGenesis(f, s, policies)
  \/ \E groups \in Groups : PopulateGenesis(groups)
  \/ \E open \in LockedInputs, d \in Digest, m \in Marker, change \in BOOLEAN :
       BuildTransition(open, d, m, change)
  \/ \E f \in Funding : AddFeeInput(f)
  \/ \E i \in 1 .. 3, t \in HashType : Sign(i, t)
  \/ SetComputeBudget
  \/ Submit
  \/ Abandon
  \/ \E inputs \in LockedInputs, payload \in OtherPayload :
       /\ others_may_try(inputs, payload)
       /\ \E a \in OtherOutput(inputs, 1) : OtherSpends(inputs, <<a>>, payload)
  \/ \E inputs \in LockedInputs, payload \in OtherPayload :
       /\ others_may_try(inputs, payload)
       /\ \E a \in OtherOutput(inputs, 1), b \in OtherOutput(inputs, 2) :
            OtherSpends(inputs, <<a, b>>, payload)

Spec == Init /\ [][Next]_vars

-----------------------------------------------------------------------------
(* Properties.                                                              *)

Entry == [script_public_key : ScriptPublicKey, covenant_id : CovenantId \cup {None}]

TxOK(tx) ==
  /\ tx.outputs \in Seq(Range(tx.outputs))
  /\ \A k \in DOMAIN tx.outputs :
       tx.outputs[k].script_public_key \in ScriptPublicKey

\* Type invariant: an unspent output is locked by the wallet or by a script of
\* build_script_for_policy, and belongs to a transaction already accepted.
TypeOK ==
  /\ accepted \in Seq(Range(accepted))
  /\ DOMAIN utxo \subseteq (0 .. Len(accepted)) \X Nat
  /\ \A o \in DOMAIN utxo : utxo[o] \in Entry
  /\ opened \subseteq CovenantId \X (1 .. Len(accepted))
  /\ draft # NoDraft => TxOK(draft.tx)

Carrying(c) == {o \in DOMAIN utxo : carries(utxo[o], c)}

\* Every spend of the script has only outputs that the script constrains.
closing(policy) ==
  \/ policy.kind = "shared"
  \/ /\ policy.kind = "policy"
     /\ Range(policy.covenant_output_indices) = 0 .. policy.exact_output_count - 1

closed(c) ==
  \A a \in c.authorized_outputs :
    a.script_public_key # Wallet /\ closing(a.script_public_key.policy)

\* An outpoint opens a covenant id at most once: compute_covenant_id hashes the
\* outpoint that is spent, so no second transaction can bind an output to the
\* same id by opening it.
CovenantOpensOnce ==
  \A p, q \in opened : p[1] = q[1] => p = q

\* Whoever spends it, a covenant keeps its script: if the scripts it was opened
\* with constrain all outputs of a spend (closed), every unspent output with
\* its id is locked by one of those scripts.
CovenantKeepsScript ==
  \A o \in DOMAIN utxo :
    LET c == utxo[o].covenant_id
    IN c # None /\ closed(c) =>
         \E a \in c.authorized_outputs :
           a.script_public_key = utxo[o].script_public_key

\* A covenant opened with one output under the singleton policy always has
\* exactly one unspent output: it is neither duplicated nor burnt.
SingletonHasOneOutput ==
  \A p \in opened :
    (\A a \in p[1].authorized_outputs :
       a.script_public_key # Wallet /\ a.script_public_key.policy = singleton)
    /\ (\A a, b \in p[1].authorized_outputs : a = b)
      => \E o \in Carrying(p[1]) : Carrying(p[1]) = {o}

\* The state a covenant output was created with is the state of its lineage:
\* when the output continues a closed covenant, the payload of the transaction
\* that created it decodes, and chain, lineage, asset, receipt policy and proof
\* mode are those its script was built for.
ContinuationKeepsIdentity ==
  \A o \in DOMAIN utxo :
    LET c == utxo[o].covenant_id
    IN c # None /\ closed(c) /\ <<c, o[1]>> \notin opened =>
         /\ payload_decodes(payload_at(o))
         /\ identity(decode_payload(payload_at(o)))
              = identity(decode_payload(utxo[o].script_public_key.template))

\* What the builders build is admitted: while its inputs are unspent and its
\* wallet inputs are signed, the chain admits the client's genesis or
\* transition, in whatever order it was populated, funded and signed.
BuiltIsAdmitted ==
  (/\ draft # NoDraft
   /\ live(draft.tx)
   /\ \A i \in DOMAIN draft.tx.inputs :
        spent_by(draft.tx)[i].script_public_key = Wallet =>
          unlocked(draft.tx, spent_by(draft.tx), i))
  => admitted(draft.tx)

\* A signature that still holds covers what its hash type says: the payload
\* always, the inputs unless anyone can pay, all outputs, the output of the
\* input's index, or none are those the client signed.
SignatureCoversConsent ==
  draft # NoDraft /\ live(draft.tx) =>
    \A i \in DOMAIN draft.tx.inputs :
      LET signature == draft.tx.inputs[i].signature_script
          tx == draft.tx
      IN signature # None /\ unlocked(tx, spent_by(tx), i) =>
           /\ tx.payload = signature.consent.payload
           /\ signature.hash_type.anyone_can_pay
                \/ outpoints(tx) = signature.consent.inputs
           /\ signature.hash_type.outputs = "all" =>
                tx.outputs = signature.consent.outputs
           /\ signature.hash_type.outputs = "single" /\ i \in DOMAIN tx.outputs =>
                tx.outputs[i] = signature.consent.outputs[i]
=============================================================================
