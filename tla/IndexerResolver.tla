-------------------------- MODULE IndexerResolver ---------------------------
(***************************************************************************)
(* The indexer together with its two readers: the receipt verifier, which   *)
(* decides whether a receipt may be applied to an entry, and the resolver,  *)
(* which decides later what to make of the entry.  The indexer moves as in  *)
(* module Indexer; the properties relate what one part accepts to what the  *)
(* other parts say of it.                                                   *)
(***************************************************************************)
EXTENDS Indexer, Resolver, Receipts

\* list() yields the covenant ids in their byte order, which is the order of
\* the numbers that stand for them.
ASSUME OrderAssumption == Covenant \subseteq Nat

entry_of(c) == IF c \in DOMAIN map THEN map[c] ELSE None

\* RgkResolver::resolve_by_asset: the verdict on the first covenant of the asset.
resolve_by_asset(asset, verifier_chain, backend) ==
  LET matching == {c \in DOMAIN map : map[c].latest_state.asset_id = asset}
  IN IF matching = {}
       THEN Verdict("Unknown")
       ELSE resolve_by_covenant(
              map[CHOOSE c \in matching : \A d \in matching : c <= d],
              verifier_chain, backend)

\* The spends of a covenant whose continuation proof names the transition.
SpendsOf(c, transition_digest) ==
  {i \in DOMAIN map[c].spend_history :
     LET proof == map[c].spend_history[i].continuation
     IN proof # None /\ proof.transition_digest = transition_digest}

\* RgkResolver::resolve_transition: the first such spend of the first covenant
\* that has one, with the verdict on that covenant; None for UnknownTransition.
resolve_transition(transition_digest, verifier_chain, backend) ==
  LET holders == {c \in DOMAIN map : SpendsOf(c, transition_digest) # {}}
      covenant == CHOOSE c \in holders : \A d \in holders : c <= d
      spends == SpendsOf(covenant, transition_digest)
      first == CHOOSE i \in spends : \A j \in spends : i <= j
  IN IF holders = {}
       THEN None
       ELSE [covenant |-> covenant,
             receipt_id |-> map[covenant].spend_history[first].receipt_id,
             state |-> resolve_by_covenant(map[covenant], verifier_chain, backend)]

-----------------------------------------------------------------------------
(* The back end's answers when a covenant's newest indexed spend, and       *)
(* nothing else, is on chain, with depth confirmations.                     *)

SpendSeen(spend, chain, depth) ==
  [network |-> chain,
   utxo |-> [o \in Outpoint |->
               IF o = spend.spent
                 THEN [kind |-> "found",
                       spending |-> [txid |-> spend.created.transaction_id,
                                     block_daa_score |-> spend.daa_score]]
                 ELSE [kind |-> "none", spending |-> None]],
   depth |-> [t \in Txid |->
                IF t = spend.created.transaction_id THEN depth ELSE None]]

\* The verdict on a covenant whose newest spend is deep enough on chain.
SettledVerdict(entry) ==
  resolve_by_covenant(entry, entry.chain_id,
    SpendSeen(last_spend(entry), entry.chain_id, ReorgSafetyDepth + 1))

PolicyChanged(spend) == spend.previous_receipt_policy # spend.new_receipt_policy

ExpectedState(spend) ==
  IF spend.continuation = None THEN "NativeTransitionedInvalid"
  ELSE IF PolicyChanged(spend) /\ spend.policy_migration = None
    THEN "PolicyMigrationRequired"
    ELSE "NativeTransitionedValid"

\* The newest spend of c is looked up by its transition.
FoundByTransition(c) ==
  LET last == last_spend(map[c])
      found == resolve_transition(last.continuation.transition_digest,
                 map[c].chain_id,
                 SpendSeen(last, map[c].chain_id, ReorgSafetyDepth + 1))
  IN /\ found.covenant \in DOMAIN map
     /\ has_receipt(map[found.covenant], found.receipt_id)
     /\ found.covenant = c => found.state = SettledVerdict(map[c])

\* A proof the indexer accepted is never refused by the resolver: when the
\* newest spend of a covenant is settled on chain the verdict depends only on
\* which proofs were recorded with it (valid, migration required, or invalid
\* for want of a continuation proof), and a valid verdict names that spend and
\* the state it led to.  A lookup by the transition of that spend comes back
\* with the same verdict and with a receipt that is accepted at that moment,
\* never one a rollback has taken back.  validate_indexed_policy_migration compares the stored
\* proof with latest_state, which rollback rewrites, so this holds only if a
\* rollback restores exactly the state the spend before had produced.
AcceptedSpendResolves ==
  \A c \in DOMAIN map :
    map[c].spend_history # <<>> =>
      LET last == last_spend(map[c])
          verdict == SettledVerdict(map[c])
      IN /\ verdict.state = ExpectedState(last)
         /\ verdict.state = "NativeTransitionedValid" =>
              /\ verdict.created = map[c].open_outpoint
              /\ verdict.receipt_id = last.receipt_id
              /\ verdict.state_digest = last.resulting_state_digest
         /\ last.continuation # None => FoundByTransition(c)

ContinuationOf(receipt, shape_root) ==
  [commitment |-> receipt.continuation_commitment, shape_root |-> shape_root,
   transition_digest |-> receipt.transition_digest]

\* A receipt the verifier accepts against an entry is one the indexer applies:
\* whatever the entry went through, verify_receipt_against_indexer on its own
\* network implies every check apply_spend_with_continuation makes on the
\* receipt, on the new state and on the continuation proof built from it, so
\* that verifying first and indexing next cannot fail half way.
VerifiedReceiptIndexes ==
  \A c \in DOMAIN map : \A receipt \in RgkReceipt, id \in Receipt :
    verify_receipt_against_indexer(entry_of(c), receipt, id, c, map[c].chain_id)
      => /\ spend_admitted(map[c], id, map[c].open_outpoint, receipt.new_state)
         /\ \A root \in Hash \ {Zero} :
              proofs_admitted(map[c], receipt.new_state,
                              ContinuationOf(receipt, root), None)

-----------------------------------------------------------------------------
(* What the documents say of the resolver.                                  *)

\* docs/SECURITY.md:102, on policy changes: "accepted changes must carry a
\* migration proof".  The resolver looks at the newest spend only.
PolicyChangesCarryProof ==
  \A c \in DOMAIN map :
    LET h == map[c].spend_history
    IN h # <<>> /\ SettledVerdict(map[c]).state = "NativeTransitionedValid" =>
         \A i \in 1 .. Len(h) :
           PolicyChanged(h[i]) => h[i].policy_migration # None

\* A back end that knows the open outpoints of the covenants in known.
OpenSeen(known, chain) ==
  [network |-> chain,
   utxo |-> [o \in Outpoint |->
               IF \E c \in known : map[c].open_outpoint = o
                 THEN [kind |-> "found", spending |-> None]
                 ELSE [kind |-> "none", spending |-> None]],
   depth |-> [t \in Txid |-> None]]

\* The comment on resolve_by_asset (crates/rgk-resolver/src/lib.rs:397-398):
\* it "returns the first non-Unknown state", so it is Unknown only when every
\* covenant of the asset is.  The code returns the verdict on the first
\* covenant of the asset, Unknown or not.
AssetUnknownOnlyIfAllAre ==
  \A known \in SUBSET DOMAIN map, asset \in Asset, chain \in Chain :
    resolve_by_asset(asset, chain, OpenSeen(known, chain)).state = "Unknown" =>
      \A c \in DOMAIN map :
        map[c].latest_state.asset_id = asset =>
          resolve_by_covenant(map[c], chain, OpenSeen(known, chain)).state
            = "Unknown"
=============================================================================
