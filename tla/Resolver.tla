------------------------------ MODULE Resolver ------------------------------
(***************************************************************************)
(* RgkResolver::resolve_by_covenant (crates/rgk-resolver) as a function of  *)
(* the indexed entry and of what the chain back end answers.  The resolver  *)
(* keeps no state; module WalletSync puts it between an indexer and a chain *)
(* that move.                                                               *)
(*                                                                          *)
(* backend is a record of answers:                                          *)
(*   network       network_id, or "error"                                   *)
(*   utxo[o]       get_utxo: [kind |-> "found", spending |-> ...] where     *)
(*                 spending is None or [txid, block_daa_score];             *)
(*                 [kind |-> "none"] for Ok(None); kind "down", "pruned" or *)
(*                 "failed" for an error classified NodeDown or RpcFailure, *)
(*                 Pruned, or any other way                                 *)
(*   depth[t]      confirmation_depth: a number, None for Ok(None) and for  *)
(*                 an error, which the resolver treats alike                *)
(***************************************************************************)
EXTENDS IndexerEntry

CONSTANT ReorgSafetyDepth      \* RgkResolver::reorg_safety_depth

ASSUME ResolverAssumption ==
  /\ ReorgSafetyDepth \in Nat
  /\ None \notin 0 .. ReorgSafetyDepth + 1
  /\ None \notin IndexedCovenant
  /\ None \notin [txid : Txid, block_daa_score : Daa]

NoVerdict ==
  [state |-> "Unknown", spent |-> None, created |-> None, receipt_id |-> None,
   state_digest |-> None, confirmation_depth |-> 0]

\* The variants that carry nothing but the covenant (and wording).
Verdict(state) == [NoVerdict EXCEPT !.state = state]

OpenVerdict(outpoint, digest) ==
  [Verdict("Open") EXCEPT !.created = outpoint, !.state_digest = digest]

ValidVerdict(spent, created, receipt, digest, depth) ==
  [state |-> "NativeTransitionedValid", spent |-> spent, created |-> created,
   receipt_id |-> receipt, state_digest |-> digest,
   confirmation_depth |-> depth]

\* confirmation_depth(..).ok().flatten().unwrap_or(0)
depth_of(backend, txid) ==
  IF backend.depth[txid] = None THEN 0 ELSE backend.depth[txid]

last_spend(entry) == entry.spend_history[Len(entry.spend_history)]

\* utxo.spending, None also when there is no UTXO.
spending_of(answer) == IF answer.kind = "found" THEN answer.spending ELSE None

validate_indexed_continuation(spend, observed_txid) ==
  /\ spend.continuation # None
  /\ spend.continuation.commitment # Zero
  /\ spend.continuation.shape_root # Zero
  /\ spend.continuation.transition_digest # Zero
  /\ spend.created.transaction_id = observed_txid

validate_indexed_policy_migration(spend, latest) ==
  LET proof == spend.policy_migration IN
  /\ proof # None
  /\ spend.continuation # None
  /\ proof.previous_policy = spend.previous_receipt_policy
  /\ proof.new_policy = spend.new_receipt_policy
  /\ proof.new_policy = latest.receipt_policy
  /\ proof.previous_state_digest = spend.new_state_digest
  /\ proof.new_state_digest = spend.resulting_state_digest
  /\ proof.new_state_digest = latest.state_digest
  /\ proof.transition_digest = spend.continuation.transition_digest
  /\ proof.authorization_commitment # Zero
  /\ proof.migration_commitment =
       policy_migration_commitment(proof.previous_policy, proof.new_policy,
         proof.previous_state_digest, proof.new_state_digest,
         proof.transition_digest, proof.authorization_commitment)

\* Variant: step 2 without the comparison of the spending transactions.
resolve_indexed_spend_any_txid(entry, sp, depth) ==
  LET last == last_spend(entry)
  IN IF depth = 0 THEN Verdict("Unconfirmed")
     ELSE IF depth < ReorgSafetyDepth THEN Verdict("ReorgRisk")
     ELSE ValidVerdict(last.spent, last.created, last.receipt_id,
                       entry.latest_state.state_digest, depth)

\* Step 2: the outpoint the newest indexed spend consumed is spent on chain
\* by sp.
resolve_indexed_spend(entry, sp, depth) ==
  LET last == last_spend(entry)
      changed == last.previous_receipt_policy # entry.latest_state.receipt_policy
  IN IF depth = 0 THEN Verdict("Unconfirmed")
     ELSE IF depth < ReorgSafetyDepth THEN Verdict("ReorgRisk")
     ELSE IF last.created.transaction_id # sp.txid
       THEN Verdict("CompetingBranch")
     ELSE IF ~ validate_indexed_continuation(last, sp.txid)
       THEN Verdict("NativeTransitionedInvalid")
     ELSE IF changed /\ last.policy_migration = None
       THEN Verdict("PolicyMigrationRequired")
     ELSE IF \/ /\ changed
                /\ ~ validate_indexed_policy_migration(last, entry.latest_state)
             \/ ~ changed /\ last.policy_migration # None
       THEN Verdict("NativeTransitionedInvalid")
     ELSE ValidVerdict(last.spent, last.created, last.receipt_id,
                       entry.latest_state.state_digest, depth)

\* Steps 3 and 4: the open outpoint itself is looked up.
resolve_open_outpoint(entry, backend) ==
  LET answer == backend.utxo[entry.open_outpoint]
      sp == spending_of(answer)
  IN IF answer.kind = "down" THEN Verdict("NodeDown")
     ELSE IF answer.kind # "found" THEN Verdict("Unknown")
     ELSE IF sp = None
       THEN OpenVerdict(entry.open_outpoint, entry.latest_state.state_digest)
     ELSE LET depth == depth_of(backend, sp.txid)
          IN IF depth = 0 THEN Verdict("Unconfirmed")
             ELSE IF depth < ReorgSafetyDepth THEN Verdict("ReorgRisk")
             ELSE IF entry.spend_history = <<>>
               THEN Verdict("NativeTransitionedInvalid")
             ELSE ValidVerdict(entry.open_outpoint, entry.open_outpoint,
                    last_spend(entry).receipt_id,
                    entry.latest_state.state_digest, depth)

\* entry is the indexed covenant, or None when it is not indexed.
resolve_by_covenant(entry, verifier_chain, backend) ==
  IF backend.network # verifier_chain THEN Verdict("NodeDown")
  ELSE IF entry = None THEN Verdict("Unknown")
  ELSE IF entry.open_outpoint = None THEN Verdict("Unknown")
  ELSE IF entry.spend_history = <<>>
    THEN resolve_open_outpoint(entry, backend)
  ELSE LET answer == backend.utxo[last_spend(entry).spent]
           sp == spending_of(answer)
       IN IF answer.kind = "down" THEN Verdict("NodeDown")
          ELSE IF answer.kind = "pruned" THEN Verdict("Unknown")
          ELSE IF sp # None
            THEN resolve_indexed_spend(entry, sp, depth_of(backend, sp.txid))
          ELSE resolve_open_outpoint(entry, backend)
=============================================================================
