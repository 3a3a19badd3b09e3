------------------------------ MODULE MCAsset ------------------------------
(* Two owners, two transactions, two chains, amounts up to the largest u64.  *)
EXTENDS NftToken, TLC

CONSTANTS o1, o2, t1, t2, x1, id, id2

MCPrefix(covenant_id) == covenant_id

MCBefore(u, v) == u # v /\ u \in {t1, id} /\ v \in {t2, id2}

MCPrecedes(a, b) ==
  LET p == a.anchor
      q == b.anchor
      i == p.covenant_outpoint
      j == q.covenant_outpoint
  IN \/ MCBefore(i.transaction_id, j.transaction_id)
     \/ /\ i.transaction_id = j.transaction_id
        /\ \/ i.index < j.index
           \/ i.index = j.index /\ ~MCBefore(q.covenant_id, p.covenant_id)

MCOwner == {o1, o2}
MCTxid == {t1, t2}
MCAuthorization == {Zero, x1}
MCDepth == {0, 1}
MCBurn == {None, [amount |-> 1, authorization_commitment |-> x1],
                 [amount |-> 2, authorization_commitment |-> x1],
                 [amount |-> 1, authorization_commitment |-> Zero]}

MCSpec ==
  [collection |-> [chain |-> "KaspaMainnet", schema_id |-> id, collection_id |-> id,
                   max_supply |-> 1, issuer_owner_commitment |-> id,
                   template_commitment |-> id, royalty_policy_commitment |-> id],
   token_index |-> 0, metadata_commitment |-> id, owner_commitment |-> o1]

MCToken ==
  {[MCSpec EXCEPT !.owner_commitment = o, !.token_index = n] :
     o \in {o1, o2}, n \in {0, 1}}

MCSale ==
  {[chain |-> "KaspaMainnet", collection_id |-> id, token_id |-> token_id(MCSpec),
    seller_owner_commitment |-> seller, buyer_owner_commitment |-> buyer,
    payment_asset_id |-> id, price_amount |-> 1,
    royalty_policy_commitment |-> id, royalty_amount |-> royalty,
    authorization_commitment |-> x1] :
     seller \in {o1, o2}, buyer \in {o1, o2}, royalty \in {1, 2}}

MCPolicy == [kind |-> "VerifierReceipt", keys |-> {id}, images |-> {}]

\* An asset of the largest supply, and the token.
MCFungible ==
  [chain |-> "KaspaMainnet", schema_id |-> id, asset_id |-> id,
   total_supply |-> MaxU64, metadata_commitment |-> id, lane_id |-> id,
   privacy_policy |-> "PrivateLane", proof_policy |-> MCPolicy]
MCUnique ==
  [MCFungible EXCEPT !.asset_id = token_id(MCSpec), !.total_supply = 1]

MCTerms ==
  {MCFungible, MCUnique,
   [MCFungible EXCEPT !.chain = "KaspaTestnet"]}

MCAnchored(txid, index, amount) ==
  [anchor |-> [chain |-> "KaspaMainnet", covenant_outpoint |-> Outpoint(txid, index),
               covenant_id |-> id, witness_txid |-> txid, daa_score |-> 0,
               confirmation_depth |-> 1],
   amount |-> amount, encrypted_note_commitment |-> id]

MCAllocations ==
  {<<>>, <<MCAnchored(t1, 0, 1)>>, <<MCAnchored(t2, 0, 1)>>,
   <<MCAnchored(t1, 0, 3)>>, <<MCAnchored(t1, 0, 3), MCAnchored(t1, 1, 2)>>,
   <<MCAnchored(t2, 1, 2), MCAnchored(t2, 0, 1)>>,
   <<MCAnchored(t2, 0, 1), MCAnchored(t2, 1, 0)>>,
   <<MCAnchored(t1, 0, 1), [MCAnchored(t1, 0, 2) EXCEPT !.anchor.covenant_id = id2]>>}

MCShape(index, amount) ==
  [output_index |-> index, covenant_id |-> id, amount |-> amount,
   encrypted_note_commitment |-> id]

MCShapes ==
  {<<>>, <<MCShape(0, 1)>>,
   <<MCShape(0, 1), MCShape(1, 2)>>, <<MCShape(1, 2), MCShape(0, 1)>>,
   <<MCShape(0, 2), MCShape(1, 1)>>,
   <<MCShape(0, 1), MCShape(0, 2)>>}

\* Bound: of the plans whose state has passed, those that were drawn up from
\* the issue and hand the asset over are kept.
KeptPlans ==
  \A plan \in plans :
    \/ plan.previous_state_digest = digest
    \/ /\ plan.previous_state_digest = issue_digest(issue)
       /\ plan.previous_owner_commitment # plan.new_owner_commitment

Symmetry == Permutations({o1, o2})
=============================================================================
