------------------------------ MODULE NftToken ------------------------------
(***************************************************************************)
(* A single-token NFT (RgkNftTokenSpec) over the asset grammar: the same    *)
(* issue, transition and plan records, accepted by stricter validators.     *)
(* Nothing obliges a spender to call those: the lineage of a token also     *)
(* accepts every plain step of AssetHistory.                                *)
(***************************************************************************)
EXTENDS AssetHistory

CONSTANTS
  Token,   \* token specifications callers use
  Sale     \* marketplace sale terms

ASSUME TokenAssumption ==
  \A spec \in Token :
    HasFields(spec, {"collection", "token_index", "metadata_commitment",
                     "owner_commitment"})

VARIABLE token   \* the specification whose token was minted, with the owner of
                 \* the last report's token_commitment; None before

nftVars == <<phase, issue, latest, digest, burned, plans, token>>

\* RgkNftTokenSpec::validate and RgkNftCollectionPolicy::validate
token_valid(spec) ==
  LET c == spec.collection
  IN /\ Zero \notin {c.schema_id, c.collection_id, c.issuer_owner_commitment,
                     c.template_commitment, c.royalty_policy_commitment}
     /\ spec.token_index < c.max_supply
     /\ Zero \notin {spec.metadata_commitment, spec.owner_commitment}

\* The owner is not part of the id.
token_id(spec) ==
  <<spec.collection.collection_id, spec.token_index,
    spec.collection.template_commitment,
    spec.collection.royalty_policy_commitment, spec.metadata_commitment>>

\* The comparisons that issue, transition and burn shapes begin with.
nft_terms_match(spec, terms) ==
  /\ terms.chain = spec.collection.chain
  /\ terms.schema_id = spec.collection.schema_id
  /\ terms.asset_id = token_id(spec)
  /\ terms.total_supply = 1
  /\ terms.metadata_commitment = spec.metadata_commitment

validate_single_nft_allocation(allocations) ==
  Len(allocations) = 1 /\ allocations[1].amount = 1

validate_mint_issue(spec, i) ==
  /\ token_valid(spec)
  /\ nft_terms_match(spec, i.terms)
  /\ i.owner_commitment = spec.owner_commitment
  /\ validate_single_nft_allocation(i.allocations)

\* Variant: the previous owner is not compared with the specification.
validate_transfer_any_owner(spec, t, new_owner) ==
  /\ token_valid(spec)
  /\ new_owner # Zero
  /\ nft_terms_match(spec, t.terms)
  /\ t.new_owner_commitment = new_owner
  /\ t.burn = None
  /\ validate_single_nft_allocation(t.spent_allocations)
  /\ validate_single_nft_allocation(t.new_allocations)

\* validate_single_token_transfer
validate_transfer(spec, t, new_owner) ==
  /\ token_valid(spec)
  /\ new_owner # Zero
  /\ nft_terms_match(spec, t.terms)
  /\ t.previous_owner_commitment = spec.owner_commitment
  /\ t.new_owner_commitment = new_owner
  /\ t.burn = None
  /\ validate_single_nft_allocation(t.spent_allocations)
  /\ validate_single_nft_allocation(t.new_allocations)

\* RgkNftMarketplaceSaleTerms::validate_basic
sale_valid(sale) ==
  /\ Zero \notin {sale.collection_id, sale.token_id,
                  sale.seller_owner_commitment, sale.buyer_owner_commitment,
                  sale.payment_asset_id, sale.royalty_policy_commitment,
                  sale.authorization_commitment}
  /\ sale.seller_owner_commitment # sale.buyer_owner_commitment
  /\ sale.price_amount # 0
  /\ sale.royalty_amount <= sale.price_amount

\* validate_nft_marketplace_sale_terms
sale_matches(spec, sale) ==
  /\ sale_valid(sale)
  /\ sale.chain = spec.collection.chain
  /\ sale.collection_id = spec.collection.collection_id
  /\ sale.token_id = token_id(spec)
  /\ sale.seller_owner_commitment = spec.owner_commitment
  /\ sale.royalty_policy_commitment = spec.collection.royalty_policy_commitment

\* validate_nft_burn_common; x is a transition or a plan
validate_nft_burn_common(spec, x) ==
  /\ token_valid(spec)
  /\ nft_terms_match(spec, x.terms)
  /\ x.previous_owner_commitment = spec.owner_commitment
  /\ x.new_owner_commitment = spec.owner_commitment
  /\ x.burn # None
  /\ x.burn.amount = 1
  /\ validate_single_nft_allocation(x.spent_allocations)

-----------------------------------------------------------------------------
Mint ==
  \E spec \in Token, terms \in Terms, owner \in Owner, allocations \in Allocations :
    LET i == [terms |-> terms, owner_commitment |-> owner,
              allocations |-> allocations]
    IN /\ validate_mint_issue(spec, i)
       /\ issue_asset(i)
       /\ token' = spec

\* Transitions that arrive, and those that plans finalize to; one with two new
\* allocations fits no token.
Candidates ==
  {TransitionFrom(x, owner, authorization, allocations, burn, witness_txid) :
     x \in KnownSpendings, owner \in Owner, authorization \in Authorization,
     allocations \in {a \in Allocations : Len(a) <= 1}, burn \in Burn,
     witness_txid \in Txid}
  \cup {finalized(plan, witness_txid, 0, depth) :
          plan \in plans, witness_txid \in Txid, depth \in Depth}

TransferToken ==
  /\ token # None
  /\ \E t \in Candidates :
       /\ validate_transfer(token, t, t.new_owner_commitment)
       /\ continued_by(t)
       /\ token' = [token EXCEPT !.owner_commitment = t.new_owner_commitment]

\* validate_marketplace_sale_transition
SellToken ==
  /\ token # None
  /\ \E sale \in Sale, t \in Candidates :
       /\ sale_matches(token, sale)
       /\ t.ownership_authorization_commitment = sale.authorization_commitment
       /\ validate_transfer(token, t, sale.buyer_owner_commitment)
       /\ continued_by(t)
       /\ token' = [token EXCEPT !.owner_commitment = sale.buyer_owner_commitment]

\* validate_token_burn_continuation
PlanBurn ==
  /\ token # None
  /\ Cardinality(plans) < MaxPlans
  /\ \E x \in KnownSpendings, owner \in Owner,
        authorization \in Authorization, burn \in Burn,
        shapes \in Shapes :
       LET plan == PlanFrom(x, owner, authorization, shapes, burn)
       IN /\ validate_nft_burn_common(token, plan)
          /\ shapes = <<>>
          /\ draw_up(plan)
  /\ UNCHANGED token

\* validate_token_burn_transition
BurnToken ==
  /\ token # None
  /\ \E t \in Candidates :
       /\ validate_nft_burn_common(token, t)
       /\ t.new_allocations = <<>>
       /\ continued_by(t)
  /\ UNCHANGED token

NftInit == AssetInit /\ token = None

NftNext ==
  \/ AssetNext /\ UNCHANGED token
  \/ Mint \/ TransferToken \/ SellToken \/ PlanBurn \/ BurnToken

NftSpec == NftInit /\ [][NftNext]_nftVars

-----------------------------------------------------------------------------
\* A minted token is never split, doubled or thinned out, although any plain
\* transition may follow the mint: it stays one allocation of amount 1 under
\* its token id until it is burned, and nothing follows the burn.
TokenStaysWhole ==
  token # None =>
    /\ PresentTerms.asset_id = token_id(token)
    /\ \/ Len(Live) = 1 /\ Live[1].amount = 1 /\ burned = 0
       \/ Live = <<>> /\ burned = 1

\* When a plain transition has moved the token, the specification of the
\* former owner no longer transfers, sells or burns it.
FormerOwnerCannotMove ==
  [][latest' # latest /\ token # None /\ PresentOwner # token.owner_commitment
       => latest'.previous_owner_commitment # token.owner_commitment
          /\ token' = token]_nftVars
=============================================================================
