----------------------------- MODULE WalletSync -----------------------------
(***************************************************************************)
(* One lane of the wallet daemon (crates/rgk-walletd) between the chain and *)
(* the index: sync_wallet runs one scanner tick over a new connection and   *)
(* resolves the lane from what that tick saw, record_transition and         *)
(* record_proof index a spend and then update the lane's row.  The handlers *)
(* run concurrently and give up the store while they wait; the node moves   *)
(* between any two calls.                                                   *)
(*                                                                          *)
(* The tick is one step here: module ScanService takes it apart.  Opening   *)
(* the sled database fails while another handler has it open, so the calls  *)
(* a handler makes on one open database are not interleaved with others.    *)
(***************************************************************************)
EXTENDS Resolver, FiniteSets

CONSTANTS
  Network,            \* the network the daemon is configured for
  Block, Genesis, MaxSpends, MaxReorg,       \* as in KaspaNode
  Funding,            \* the transaction that created the covenant's output
  InputOf,            \* the covenant output each other transaction spends
  Local,              \* a receipt id made up from the lane's own fields
  Complete,           \* a continuation proof that validates
  MaxHistory,         \* bound: transitions indexed
  MaxPending          \* bound: recording requests waiting for the store

VARIABLES
  block, tip,         \* the node, module KaspaNode
  entry,              \* durable: the lane's IndexedCovenant
  cursor,             \* durable: the block of the scan cursor, or None
  observed,           \* durable: outpoint -> spending transaction
  lane,               \* the lane's row in the wallet profile
  sync,               \* the sync request in flight
  pending,            \* spends indexed by requests still waiting for the store
  settled             \* history: receipts some verdict called valid

INSTANCE KaspaNode

vars == <<block, tip, entry, cursor, observed, lane, sync, pending, settled>>
database == <<entry, cursor, observed>>

ASSUME SyncAssumption ==
  /\ Network \in Chain
  /\ Funding \in Txid
  /\ InputOf \in [Txid \ {Funding} -> Outpoint]
  /\ Complete \in ContinuationProof /\ validate_continuation_proof(Complete)
  /\ Local \notin Receipt /\ Local # None
  /\ Genesis \in [Chain -> Block]
  /\ None \notin Nat \cup [txid : Txid, block_daa_score : Nat]
  /\ MaxHistory \in Nat /\ MaxPending \in Nat

NoSpends == [o \in {} |-> None]
Idle == [pc |-> "idle", cache |-> NoSpends, verdict |-> NoVerdict]

FirstOutpoint == [transaction_id |-> Funding, index |-> 0]

\* create_lane has indexed the covenant and pushed the row.
Init ==
  /\ NodeInit
  /\ \E c \in Covenant, l \in Lineage, s \in RgkStateCommitment :
       /\ s.covenant_id = c /\ s.chain_id = Network
       /\ entry = opened(c, Network, l, s, FirstOutpoint, 0)
       /\ lane = [resolver_state |-> "Unknown", state_digest |-> s.state_digest,
                  latest_receipt_id |-> None]
  /\ cursor = None
  /\ observed = NoSpends
  /\ sync = Idle
  /\ pending = {}
  /\ settled = {}

-----------------------------------------------------------------------------
(* The chain.                                                               *)

\* The transactions of the selected branch that ends in b.
TxidsBelow(b) ==
  {Funding} \cup UNION {{s.txid : s \in block[a].spends} : a \in block[b].ancestors}

\* A block spends outputs that exist on its branch.
MineTransactions ==
  /\ \E b \in Block, parent \in DOMAIN block, txids \in SUBSET DOMAIN InputOf :
       /\ Cardinality(txids) <= MaxSpends
       /\ \A t \in txids : InputOf[t].transaction_id \in TxidsBelow(parent)
       /\ Mine(b, parent, {[spent |-> InputOf[t], txid |-> t] : t \in txids})
  /\ UNCHANGED <<database, lane, sync, pending, settled>>

-----------------------------------------------------------------------------
(* sync_wallet.                                                             *)

SpendsIn(blocks) ==
  UNION {{[spent |-> s.spent, txid |-> s.txid,
           block_daa_score |-> block[b].daa_score + 1] : s \in block[b].spends} :
           b \in blocks}

with_spends(spends, new) ==
  [o \in DOMAIN spends \cup {s.spent : s \in new} |->
     IF \E s \in new : s.spent = o
       THEN CHOOSE s \in new : s.spent = o
       ELSE spends[o]]

\* run_scan_tick up to the end of ScanService::tick: a new connection with an
\* empty cache, then one batch from the stored cursor to the tip.
scan_tick ==
  /\ sync.pc = "idle"
  /\ IF cursor = None
       THEN /\ cursor' = tip[Network]
            /\ sync' = [Idle EXCEPT !.pc = "scanned"]
            /\ UNCHANGED observed
       ELSE LET added == AddedFrom(Network, cursor, 0)
                new == SpendsIn(added)
            IN /\ RemovedFrom(Network, cursor) = {}
               /\ cursor' = IF added = {} THEN cursor ELSE Highest(added)
               /\ observed' = with_spends(observed, new)
               /\ sync' = [Idle EXCEPT !.pc = "scanned",
                                       !.cache = with_spends(NoSpends, new)]
  /\ UNCHANGED <<block, tip, entry, lane, pending, settled>>

\* The node or the database cannot be reached, or the tick found a reorg.
scan_failed ==
  /\ sync.pc \in {"idle", "scanned"}
  /\ sync' = [Idle EXCEPT !.pc = "failed"]
  /\ UNCHANGED <<block, tip, database, lane, pending, settled>>

\* WrpcBackend's answers, from the spends this connection has seen.
get_utxo(cache, o) ==
  IF o \in DOMAIN cache
    THEN [kind |-> "found",
          spending |-> [txid |-> cache[o].txid,
                        block_daa_score |-> cache[o].block_daa_score]]
    ELSE [kind |-> "none", spending |-> None]

\* virtual_daa_score is one above the sink's; reached is whether current_tip
\* got its answer.
confirmation_depth(cache, txid, reached) ==
  LET seen == {o \in DOMAIN cache : cache[o].txid = txid}
      accepted == cache[CHOOSE o \in seen : TRUE].block_daa_score
      virtual == block[tip[Network]].daa_score + 1
  IN IF seen = {} \/ ~ reached \/ virtual < accepted
       THEN None
       ELSE virtual - accepted + 1

WrpcBackend(cache, network, reached) ==
  [network |-> network,
   utxo |-> [o \in Outpoint |-> get_utxo(cache, o)],
   depth |-> [t \in Txid |-> confirmation_depth(cache, t, reached)]]

\* resolve_indexed_lanes on the lane; network is the server's answer to
\* network_id, None when there is none.
resolve_indexed_lane(network, reached) ==
  /\ sync.pc = "scanned"
  /\ LET backend == WrpcBackend(sync.cache, network, reached)
         verdict == resolve_by_covenant(entry, Network, backend)
     IN /\ sync' = [sync EXCEPT !.pc = "resolved", !.verdict = verdict]
        /\ settled' = IF verdict.state = "NativeTransitionedValid"
                        THEN settled \cup {verdict.receipt_id} ELSE settled
  /\ UNCHANGED <<block, tip, database, lane, pending>>

\* apply_successful_scan with apply_lane_resolution_updates: a field the
\* verdict does not carry keeps its value.
apply_successful_scan ==
  /\ sync.pc = "resolved"
  /\ LET v == sync.verdict IN
     lane' = [resolver_state |-> v.state,
              state_digest |-> IF v.state_digest = None
                                 THEN lane.state_digest ELSE v.state_digest,
              latest_receipt_id |-> IF v.receipt_id = None
                                      THEN lane.latest_receipt_id
                                      ELSE v.receipt_id]
  /\ sync' = Idle
  /\ UNCHANGED <<block, tip, database, pending, settled>>

\* apply_failed_scan, or Err(Locked): the row stays.
apply_failed_scan ==
  /\ sync.pc \in {"resolved", "failed"}
  /\ sync' = Idle
  /\ UNCHANGED <<block, tip, database, lane, pending, settled>>

-----------------------------------------------------------------------------
(* record_transition and record_proof.                                      *)

\* Variant: the evidence is returned although the spend was not applied.
index_spend_unapplied(receipt, txid, digest, policy) ==
  /\ sync.pc # "scanned"
  /\ Cardinality(pending) < MaxPending
  /\ pending' = pending \cup {[state_digest |-> digest, receipt_id |-> receipt]}
  /\ UNCHANGED <<block, tip, database, lane, sync, settled>>

\* apply_spend_with_continuation on the lane's covenant, then flush.  The
\* caller's transaction spends the open outpoint.
index_spend(receipt, txid, digest, policy) ==
  LET state == [entry.latest_state EXCEPT !.state_digest = digest,
                                          !.receipt_policy = policy]
      created == [transaction_id |-> txid, index |-> 0]
      spent == entry.open_outpoint
  IN /\ sync.pc # "scanned"
     /\ Cardinality(pending) < MaxPending
     /\ Len(entry.spend_history) < MaxHistory
     /\ spend_admitted(entry, receipt, spent, state)
     /\ entry' = spend_applied(entry, receipt, spent, created, state, 0,
                               Complete, None)
     /\ pending' = pending \cup {[state_digest |-> digest, receipt_id |-> receipt]}
     /\ UNCHANGED <<block, tip, cursor, observed, lane, sync, settled>>

\* build_transition_receipt_at_path: the policy stays what it is.
build_transition_receipt ==
  \E receipt \in Receipt, txid \in DOMAIN InputOf, digest \in Digest :
    /\ InputOf[txid] = entry.open_outpoint
    /\ index_spend(receipt, txid, digest, entry.latest_state.receipt_policy)

\* ingest_proof_evidence_at_path: the receipt brings its own policy.
ingest_proof_evidence ==
  \E receipt \in Receipt, txid \in DOMAIN InputOf, digest \in Digest,
     policy \in Policy :
    /\ InputOf[txid] = entry.open_outpoint
    /\ index_spend(receipt, txid, digest, policy)

\* The second half of both handlers: the row takes the receipt and its digest.
record_evidence ==
  /\ \E p \in pending :
       /\ lane' = [lane EXCEPT !.latest_receipt_id = p.receipt_id,
                               !.state_digest = p.state_digest]
       /\ pending' = pending \ {p}
  /\ UNCHANGED <<block, tip, database, sync, settled>>

\* record_proof without evidence stages a receipt id of its own.
record_pending_proof ==
  /\ lane' = [lane EXCEPT !.latest_receipt_id = Local]
  /\ UNCHANGED <<block, tip, database, sync, pending, settled>>

-----------------------------------------------------------------------------
Next ==
  \/ MineTransactions
  \/ scan_tick
  \/ scan_failed
  \/ \E network \in {Network, None}, reached \in BOOLEAN :
       resolve_indexed_lane(network, reached)
  \/ apply_successful_scan
  \/ apply_failed_scan
  \/ build_transition_receipt
  \/ ingest_proof_evidence
  \/ record_evidence
  \/ record_pending_proof

Spec == Init /\ [][Next]_vars

-----------------------------------------------------------------------------
(* What the daemon guarantees.                                              *)

\* The selected-chain spends of an outpoint that have depth blocks from their
\* own to the tip, theirs included.
SpentAtDepth(o, txid, depth) ==
  \E b \in SelectedChain(Network) :
    /\ [spent |-> o, txid |-> txid] \in block[b].spends
    /\ block[tip[Network]].daa_score - block[b].daa_score + 1 = depth

Deep == ReorgSafetyDepth .. block[tip[Network]].daa_score + 1
Shallow == 1 .. ReorgSafetyDepth - 1

\* The output a verdict on e is about: the one the newest indexed spend
\* consumed, if the tick has seen it spent, and else the open one.
subject(e) ==
  IF e.spend_history # <<>> /\ last_spend(e).spent \in DOMAIN sync.cache
    THEN last_spend(e).spent
    ELSE e.open_outpoint

\* What each verdict says of the chain (docs/wiki/Concepts/Resolver.md:28-36,
\* ResolverState in rgk-resolver); Unknown, that the tick knows of no spend (see
\* also UnspentResolvesOpen).
Justified(verdict, e) ==
  LET last == last_spend(e)
      by_indexed == {last.created.transaction_id}
      Spent(txids, depths) ==
        \E t \in txids, d \in depths : SpentAtDepth(subject(e), t, d)
  IN CASE verdict.state = "NativeTransitionedValid" ->
            /\ verdict.spent = last.spent /\ subject(e) = last.spent
            /\ verdict.receipt_id = last.receipt_id
            /\ last.previous_receipt_policy = last.new_receipt_policy
            /\ Spent(by_indexed, Deep)
       [] verdict.state = "CompetingBranch" ->
            subject(e) = last.spent /\ Spent(Txid \ by_indexed, Deep)
       [] verdict.state = "PolicyMigrationRequired" ->
            /\ last.previous_receipt_policy # last.new_receipt_policy
            /\ subject(e) = last.spent /\ Spent(by_indexed, Deep)
       [] verdict.state = "NativeTransitionedInvalid" ->
            e.spend_history = <<>> /\ Spent(Txid, Deep)
       [] verdict.state = "ReorgRisk" -> Spent(Txid, Shallow)
       [] verdict.state = "Unconfirmed" -> ~ Spent(Txid, Deep \cup Shallow)
       [] verdict.state = "Unknown" -> subject(e) \notin DOMAIN sync.cache
       [] OTHER -> TRUE

\* Whatever was scanned, indexed or reorganised before, and whatever block
\* arrived since the tick, a verdict means on the selected chain of its moment
\* what the documents say, as long as the block the tick ended at is still on
\* it and the depth query is answered: Valid is said of the indexed spend alone,
\* under its own receipt and by its own transaction; every depth is on the right
\* side of reorg_safety_depth; no spend that is in a block is called
\* unconfirmed, and none that the tick has seen is unknown.
\* Left out are the cases in which the code does not do what the documents say:
\* the verdict after a depth query without an answer (see
\* UnconfirmedIsNotInABlock) and Valid for an indexed spend the tick has not
\* seen (see ValidIsIndexedSpend).
VerdictMatchesChain ==
  [][\A network \in {Network, None} :
       (/\ resolve_indexed_lane(network, TRUE)
        /\ cursor \in SelectedChain(Network)
        /\ sync'.verdict.state = "NativeTransitionedValid" =>
             last_spend(entry).spent \in DOMAIN sync.cache)
       => Justified(sync'.verdict, entry)]_vars

Digests == {entry.latest_state.state_digest} \cup
  {entry.spend_history[i].new_state_digest : i \in DOMAIN entry.spend_history}

\* A lane's row only ever shows a state the index has recorded: its digest is
\* one the covenant has had, and its receipt is one the index accepted or a
\* staged local one, although scans and recording requests finish in any order.
LaneBackedByIndex ==
  /\ lane.state_digest \in Digests
  /\ \/ lane.latest_receipt_id \in {None, Local}
     \/ has_receipt(entry, lane.latest_receipt_id)
  /\ lane.resolver_state = "NativeTransitionedValid" => settled # {}

-----------------------------------------------------------------------------
(* What the documents say of the daemon and the resolver.                   *)

Resolves == sync.pc = "scanned" /\ sync'.pc = "resolved"

\* docs/wiki/Concepts/Resolver.md:29, NativeTransitionedValid: "Indexed spend
\* observed on chain".  When the indexed spend was scanned in an earlier tick,
\* step 4 of resolve_by_covenant reports a spend of the open outpoint that is
\* not indexed, with the receipt of the spend before it.
ValidIsIndexedSpend ==
  [][Resolves /\ sync'.verdict.state = "NativeTransitionedValid" =>
       sync'.verdict.spent = last_spend(entry).spent]_vars

\* docs/wiki/Concepts/Resolver.md:31, Unconfirmed: "Spending tx is in mempool
\* only, not yet in a block".  A failed depth query counts as depth 0.
UnconfirmedIsNotInABlock ==
  [][Resolves /\ sync'.verdict.state = "Unconfirmed" =>
       \A t \in Txid, d \in Deep \cup Shallow :
         /\ ~ SpentAtDepth(entry.open_outpoint, t, d)
         /\ entry.spend_history # <<>> =>
              ~ SpentAtDepth(last_spend(entry).spent, t, d)]_vars

\* docs/AVATO-WALLETD.md:129-131: "the cursor must not outrun the evidence that
\* the resolver will need later".  The records are stored, but the resolver is
\* given only what the connection of the same request has seen.
StoredEvidenceIsUsed ==
  [][Resolves /\ entry.spend_history # <<>>
     /\ last_spend(entry).spent \in DOMAIN observed
     /\ cursor \in SelectedChain(Network)
       => sync'.verdict.state # "Unknown"]_vars

\* docs/wiki/Concepts/Resolver.md:28, Open: "Covenant is open in the indexer
\* and the backend has a current UTXO".  WrpcBackend::get_utxo answers None for
\* every output it has not seen spent.
UnspentResolvesOpen ==
  [][Resolves /\ entry.spend_history = <<>>
     /\ (\A t \in Txid, d \in Deep \cup Shallow :
           ~ SpentAtDepth(entry.open_outpoint, t, d))
       => sync'.verdict.state \in {"Open", "NodeDown"}]_vars

\* docs/AVATO-WALLETD.md:104-105: "NativeTransitionedValid remains reserved for
\* scanner/resolver-backed chain evidence".  Recording a proof or a transition
\* replaces the receipt and the digest of the row and keeps its state.
ValidRowIsSettled ==
  lane.resolver_state = "NativeTransitionedValid" =>
    lane.latest_receipt_id \in settled
=============================================================================
