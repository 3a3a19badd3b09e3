--------------------------- MODULE ResolverProofs ---------------------------
(***************************************************************************)
(* What the resolver, the receipt verifier and the lane index make of       *)
(* indexed covenants, for every choice of the constants and every history.  *)
(*                                                                          *)
(* The results about resolver and verifier are about one entry that         *)
(* satisfies the indexer's inductive invariant (Good of module              *)
(* IndexerProofs); the theorems add that the invariant holds.  For the lane *)
(* index, LInv adds to it how the tag map follows the lanes: an uncontested *)
(* tag leads to the lane that carries it, so removing a replaced record's   *)
(* tag cuts off no other lane.                                              *)
(***************************************************************************)
EXTENDS LaneGraph, IndexerProofs

-----------------------------------------------------------------------------
(* The resolver and the receipt verifier.                                   *)

\* The newest spend of a good entry is a typed spend that decodes and that
\* agrees with the entry's open outpoint and latest state.
LEMMA LastSpend ==
  ASSUME NEW entry, Good(entry), entry.spend_history # <<>>
  PROVE  /\ last_spend(entry) \in SpendEntry
         /\ spend_decodes(last_spend(entry))
         /\ last_spend(entry).created = entry.open_outpoint
         /\ last_spend(entry).resulting_state_digest
              = entry.latest_state.state_digest
         /\ last_spend(entry).new_receipt_policy
              = entry.latest_state.receipt_policy
<1> DEFINE h == entry.spend_history
<1>1. h \in Seq(SpendEntry)
  BY DEF Good, IndexedCovenant
<1>2. Len(h) \in Nat /\ Len(h) > 0
  BY <1>1, EmptySeq, LenProperties
<1>3. h[Len(h)] \in SpendEntry
  BY <1>1, <1>2, ElementOfSeq
<1>4. spend_decodes(h[Len(h)])
  BY <1>2 DEF Good, entry_decodes
<1>5. QED BY <1>2, <1>3, <1>4 DEF Good, Linked, last_spend

\* What the back end of SettledVerdict answers about the newest spend.
LEMMA SettledAnswers ==
  ASSUME NEW spend \in SpendEntry, NEW chain
  PROVE  LET backend == SpendSeen(spend, chain, ReorgSafetyDepth + 1)
             answer == backend.utxo[spend.spent]
             sp == [txid |-> spend.created.transaction_id,
                    block_daa_score |-> spend.daa_score]
         IN /\ backend.network = chain
            /\ answer.kind = "found"
            /\ spending_of(answer) = sp
            /\ sp # None
            /\ depth_of(backend, sp.txid) = ReorgSafetyDepth + 1
<1> DEFINE backend == SpendSeen(spend, chain, ReorgSafetyDepth + 1)
           answer == backend.utxo[spend.spent]
           sp == [txid |-> spend.created.transaction_id,
                  block_daa_score |-> spend.daa_score]
<1>1. spend.spent \in Outpoint /\ spend.created.transaction_id \in Txid
  BY DEF SpendEntry, Outpoint
<1>2. backend.network = chain
  BY DEF SpendSeen
<1>3. answer = [kind |-> "found", spending |-> sp]
  BY <1>1 DEF SpendSeen
<1>4. spending_of(answer) = sp
  BY <1>3 DEF spending_of
<1>5. sp # None
  BY <1>1, ResolverAssumption DEF SpendEntry
<1>6. backend.depth[sp.txid] = ReorgSafetyDepth + 1
  BY <1>1 DEF SpendSeen
<1>7. ReorgSafetyDepth + 1 # None
  BY ResolverAssumption
<1>8. depth_of(backend, sp.txid) = ReorgSafetyDepth + 1
  BY <1>6, <1>7 DEF depth_of
<1>9. QED BY <1>2, <1>3, <1>4, <1>5, <1>8

\* The continuation proof stored with a decodable spend is one the resolver
\* accepts for the transaction that created the spend's output.
LEMMA StoredContinuationValid ==
  ASSUME NEW spend, spend_decodes(spend)
  PROVE  validate_indexed_continuation(spend, spend.created.transaction_id)
           <=> spend.continuation # None
BY DEF spend_decodes, validate_continuation_proof, validate_indexed_continuation

\* The migration proof stored with a decodable spend is one the resolver
\* accepts for the state the spend produced, and is there only when the
\* policy changed.
LEMMA StoredMigrationValid ==
  ASSUME NEW spend, NEW latest, spend_decodes(spend),
         spend.policy_migration # None,
         spend.resulting_state_digest = latest.state_digest,
         spend.new_receipt_policy = latest.receipt_policy
  PROVE  /\ validate_indexed_policy_migration(spend, latest)
         /\ spend.previous_receipt_policy # spend.new_receipt_policy
BY DEF spend_decodes, validate_policy_migration_proof,
       validate_indexed_policy_migration

\* The verdict on a good entry whose newest spend is settled on chain.
LEMMA SettledResolves ==
  ASSUME NEW entry, Good(entry), entry.spend_history # <<>>
  PROVE  LET last == last_spend(entry)
             verdict == SettledVerdict(entry)
         IN /\ verdict.state = ExpectedState(last)
            /\ verdict.state = "NativeTransitionedValid" =>
                 /\ verdict.created = entry.open_outpoint
                 /\ verdict.receipt_id = last.receipt_id
                 /\ verdict.state_digest = last.resulting_state_digest
<1> DEFINE last == last_spend(entry)
           verdict == SettledVerdict(entry)
           backend == SpendSeen(last, entry.chain_id, ReorgSafetyDepth + 1)
           sp == [txid |-> last.created.transaction_id,
                  block_daa_score |-> last.daa_score]
           valid == ValidVerdict(last.spent, last.created, last.receipt_id,
                      entry.latest_state.state_digest, ReorgSafetyDepth + 1)
<1>1. /\ last \in SpendEntry
      /\ spend_decodes(last)
      /\ last.created = entry.open_outpoint
      /\ last.resulting_state_digest = entry.latest_state.state_digest
      /\ last.new_receipt_policy = entry.latest_state.receipt_policy
  BY LastSpend
<1>2. /\ backend.network = entry.chain_id
      /\ backend.utxo[last.spent].kind = "found"
      /\ spending_of(backend.utxo[last.spent]) = sp
      /\ sp # None
      /\ depth_of(backend, sp.txid) = ReorgSafetyDepth + 1
  BY <1>1, SettledAnswers
<1>3. entry # None /\ entry.open_outpoint # None
  BY ResolverAssumption, ConstantsAssumption DEF Good
<1>4. verdict = resolve_indexed_spend(entry, sp, ReorgSafetyDepth + 1)
  <2> HIDE DEF backend, sp
  <2>1. verdict = resolve_by_covenant(entry, entry.chain_id, backend)
    BY DEF SettledVerdict, backend
  <2>2. QED BY <2>1, <1>2, <1>3 DEF resolve_by_covenant
<1>5. /\ ReorgSafetyDepth + 1 # 0
      /\ ~ (ReorgSafetyDepth + 1 < ReorgSafetyDepth)
  BY ResolverAssumption
<1>6. sp.txid = last.created.transaction_id
  OBVIOUS
<1>7. /\ valid.state = "NativeTransitionedValid"
      /\ valid.created = last.created
      /\ valid.receipt_id = last.receipt_id
      /\ valid.state_digest = entry.latest_state.state_digest
  BY DEF ValidVerdict
<1>8. \A state : Verdict(state).state = state
  BY DEF Verdict, NoVerdict
<1>9. CASE last.continuation = None
  <2>1. verdict = Verdict("NativeTransitionedInvalid")
    BY <1>1, <1>4, <1>5, <1>6, <1>9, StoredContinuationValid
       DEF resolve_indexed_spend
  <2>2. QED BY <2>1, <1>8, <1>9 DEF ExpectedState
<1>10. CASE /\ last.continuation # None
            /\ PolicyChanged(last) /\ last.policy_migration = None
  <2>1. verdict = Verdict("PolicyMigrationRequired")
    BY <1>1, <1>4, <1>5, <1>6, <1>10, StoredContinuationValid, Zenon
       DEF resolve_indexed_spend, PolicyChanged
  <2>2. QED BY <2>1, <1>8, <1>10 DEF ExpectedState
<1>11. CASE /\ last.continuation # None
            /\ ~ (PolicyChanged(last) /\ last.policy_migration = None)
  <2>1. last.policy_migration # None =>
          /\ validate_indexed_policy_migration(last, entry.latest_state)
          /\ PolicyChanged(last)
    BY <1>1, StoredMigrationValid DEF PolicyChanged
  <2>2. verdict = valid
    BY <1>1, <1>4, <1>5, <1>6, <1>11, <2>1, StoredContinuationValid, Zenon
       DEF resolve_indexed_spend, PolicyChanged
  <2>3. QED BY <1>1, <1>7, <1>11, <2>2 DEF ExpectedState
<1>12. QED BY <1>9, <1>10, <1>11

\* A spend that is looked up by its transition is found under a receipt that
\* the covenant it was found in has accepted.
LEMMA TransitionFound ==
  ASSUME IInv, NEW c \in DOMAIN map, map[c].spend_history # <<>>,
         last_spend(map[c]).continuation # None
  PROVE  FoundByTransition(c)
<1> DEFINE last == last_spend(map[c])
           digest == last.continuation.transition_digest
           backend == SpendSeen(last, map[c].chain_id, ReorgSafetyDepth + 1)
           holders == {d \in DOMAIN map : SpendsOf(d, digest) # {}}
           covenant == CHOOSE d \in holders : \A e \in holders : d <= e
           spends == SpendsOf(covenant, digest)
           first == CHOOSE i \in spends : \A j \in spends : i <= j
           found == resolve_transition(digest, map[c].chain_id, backend)
<1>1. \A d \in DOMAIN map :
        /\ map[d].spend_history \in Seq(SpendEntry)
        /\ map[d].accepted_receipts \in Seq(Receipt)
        /\ ReceiptsInStep(map[d])
  BY DEF IInv, Good, IndexedCovenant
<1>2. c \in holders
  <2> DEFINE h == map[c].spend_history
  <2>1. h \in Seq(SpendEntry) /\ h # <<>>
    BY <1>1
  <2> HIDE DEF h
  <2>2. Len(h) \in Nat /\ Len(h) > 0 /\ DOMAIN h = 1 .. Len(h)
    BY <2>1, EmptySeq, LenProperties
  <2>3. Len(h) \in DOMAIN h
    BY <2>2
  <2>4. QED BY <2>3 DEF SpendsOf, last_spend, h
<1>3. holders \subseteq Nat
  BY OrderAssumption, Zenon DEF IInv
<1>4. covenant \in holders
  <2> HIDE DEF holders
  <2>1. \E d \in holders : \A e \in holders : d <= e
    BY <1>2, <1>3, LeastNatural
  <2>2. QED BY <2>1
<1>5. covenant \in DOMAIN map /\ spends # {}
  BY <1>4, Zenon
<1>6. DOMAIN map[covenant].spend_history = 1 .. Len(map[covenant].spend_history)
  BY <1>1, <1>5, LenProperties
<1>7. first \in spends
  <2> DEFINE h == map[covenant].spend_history
  <2> HIDE DEF covenant
  <2>1. spends \subseteq DOMAIN h
    BY DEF SpendsOf
  <2>2. DOMAIN h \subseteq Nat
    BY <1>6
  <2>3. spends \subseteq Nat
    BY <2>1, <2>2
  <2>4. spends # {}
    BY <1>5
  <2> HIDE DEF spends
  <2>5. \E i \in spends : \A j \in spends : i <= j
    BY <2>3, <2>4, LeastNatural, Zenon
  <2>6. QED BY <2>5
<1>8. first \in 1 .. Len(map[covenant].spend_history)
  BY <1>6, <1>7, Zenon DEF SpendsOf
<1>9. has_receipt(map[covenant], map[covenant].spend_history[first].receipt_id)
  <2> HIDE DEF covenant, first
  <2>1. DOMAIN map[covenant].accepted_receipts
          = 1 .. Len(map[covenant].accepted_receipts)
    BY <1>1, <1>5, LenProperties
  <2>2. QED BY <1>1, <1>5, <1>8, <2>1, Zenon DEF has_receipt, ReceiptsInStep
<1>10. found = [covenant |-> covenant,
                receipt_id |-> map[covenant].spend_history[first].receipt_id,
                state |-> resolve_by_covenant(map[covenant], map[c].chain_id,
                                              backend)]
  BY <1>2, Zenon DEF resolve_transition
<1>11. covenant = c => found.state = SettledVerdict(map[c])
  <2> HIDE DEF covenant, first, found
  <2>1. QED BY <1>10 DEF SettledVerdict
<1>12. /\ found.covenant \in DOMAIN map
       /\ has_receipt(map[found.covenant], found.receipt_id)
       /\ found.covenant = c => found.state = SettledVerdict(map[c])
  <2> HIDE DEF covenant, first, found, backend
  <2>1. QED BY <1>5, <1>9, <1>10, <1>11
<1>13. QED BY <1>12 DEF FoundByTransition

\* Whatever the history, the resolver accepts every proof the indexer
\* accepted: a covenant whose newest spend is settled on chain resolves by
\* which proofs were stored with it and by nothing else, and a lookup by the
\* transition of that spend finds an accepted receipt.
THEOREM AcceptedProofsResolve == Spec => []AcceptedSpendResolves
<1>1. IInv => AcceptedSpendResolves
  <2>1. SUFFICES ASSUME IInv, NEW c \in DOMAIN map, map[c].spend_history # <<>>
                 PROVE  LET last == last_spend(map[c])
                            verdict == SettledVerdict(map[c])
                        IN /\ verdict.state = ExpectedState(last)
                           /\ verdict.state = "NativeTransitionedValid" =>
                                /\ verdict.created = map[c].open_outpoint
                                /\ verdict.receipt_id = last.receipt_id
                                /\ verdict.state_digest
                                     = last.resulting_state_digest
                           /\ last.continuation # None => FoundByTransition(c)
    BY DEF AcceptedSpendResolves
  <2>2. Good(map[c])
    BY <2>1 DEF IInv
  <2>3. QED BY <2>1, <2>2, SettledResolves, TransitionFound
<1>2. QED BY <1>1, Inductive, PTL

\* The checks of verify_receipt_against_indexer imply those of
\* apply_spend_with_continuation on the same entry.
LEMMA VerifiedAdmitted ==
  ASSUME NEW c, NEW entry, entry.covenant_id = c,
         NEW receipt, NEW id,
         verify_receipt_against_indexer(entry, receipt, id, c, entry.chain_id)
  PROVE  /\ spend_admitted(entry, id, entry.open_outpoint, receipt.new_state)
         /\ \A root \in Hash \ {Zero} :
              proofs_admitted(entry, receipt.new_state,
                              ContinuationOf(receipt, root), None)
<1>1. /\ validate_structure(receipt)
      /\ verify_local_structured(receipt, c, entry.latest_state, entry.chain_id)
      /\ ~ has_receipt(entry, id)
  BY DEF verify_receipt_against_indexer, verify_local
<1>2. spend_admitted(entry, id, entry.open_outpoint, receipt.new_state)
  BY <1>1 DEF spend_admitted, validate_structure, verify_local_structured
<1>3. ASSUME NEW root \in Hash \ {Zero}
      PROVE  proofs_admitted(entry, receipt.new_state,
                             ContinuationOf(receipt, root), None)
  BY <1>1 DEF proofs_admitted, validate_continuation_proof, ContinuationOf,
              validate_structure
<1>4. QED BY <1>2, <1>3

\* Whatever the history, a receipt that verifies against the index can be
\* indexed: verifying first and applying next never fails half way.
THEOREM VerifiedReceiptsIndex == Spec => []VerifiedReceiptIndexes
<1>1. IInv => VerifiedReceiptIndexes
  BY VerifiedAdmitted, Zenon DEF IInv, VerifiedReceiptIndexes, entry_of
<1>2. QED BY <1>1, Inductive, PTL

-----------------------------------------------------------------------------
(* The lane index.                                                          *)

\* The tag map leads from the tag of every lane to that lane, unless the tag was
\* contested, and never to a lane without the tag.
TagsFollow ==
  /\ \A l \in DOMAIN lanes :
       lanes[l].scan_tag \notin contested \cup {None} =>
         /\ lanes[l].scan_tag \in DOMAIN lane_scan_tags
         /\ lane_scan_tags[lanes[l].scan_tag] = l
  /\ \A t \in DOMAIN lane_scan_tags :
       /\ t # None
       /\ lane_scan_tags[t] \in DOMAIN lanes
       /\ lanes[lane_scan_tags[t]].scan_tag = t

LanesTyped == \A l \in DOMAIN lanes : lanes[l] \in IndexedLane

LInv == IInv /\ LanesTyped /\ LanesFollowCovenants /\ TagsFollow

-----------------------------------------------------------------------------
\* What a registration stores is a lane record.
LEMMA Registered ==
  ASSUME IInv, RegisterLane
  PROVE  \E lane \in IndexedLane : register_lane(lane)
<1>1. PICK c \in DOMAIN map, id \in LaneId, asset \in Asset, epoch \in Epoch,
           digest \in Digest, public \in BOOLEAN, tag \in TagInput \cup {None} :
        register_lane(
          [chain_id |-> map[c].chain_id, covenant_id |-> c, asset_id |-> asset,
           lane_id |-> id, epoch |-> epoch, scan_tag |-> tag,
           public_lineage |-> public, state_digest |-> digest,
           last_update_daa_score |-> map[c].last_update_daa_score])
  BY DEF RegisterLane
<1>2. c \in Covenant /\ map[c] \in IndexedCovenant
  BY DEF IInv, Good
<1>3. map[c].chain_id \in Chain /\ map[c].last_update_daa_score \in Daa
  BY <1>2 DEF IndexedCovenant
<1>4. tag \in ScanTag \cup {None}
  BY LaneAssumption
<1>5. QED BY <1>1, <1>2, <1>3, <1>4 DEF IndexedLane

\* A registration keeps the tag map in step with the lanes' tags: the old tag of
\* the lane is removed, and if it was never contested it led to no other lane.
LEMMA RegisterKeepsTags ==
  ASSUME LInv, NEW lane, register_lane(lane)
  PROVE  TagsFollow'
<1> DEFINE id == lane.lane_id
           tag == lane.scan_tag
           replaced == IF id \in DOMAIN lanes THEN {lanes[id].scan_tag} ELSE {}
<1>1. /\ DOMAIN lanes' = DOMAIN lanes \cup {id}
      /\ \A l \in DOMAIN lanes' : lanes'[l] = IF l = id THEN lane ELSE lanes[l]
  BY DEF register_lane, lanes_after
<1>2. /\ DOMAIN lane_scan_tags' = (DOMAIN lane_scan_tags \ replaced) \cup ({tag} \ {None})
      /\ \A t \in DOMAIN lane_scan_tags' :
           lane_scan_tags'[t] = IF t = tag THEN id ELSE lane_scan_tags[t]
  BY DEF register_lane, tags_after
<1>3. /\ contested \subseteq contested'
      /\ \A l \in DOMAIN lanes :
           l # id /\ lanes[l].scan_tag = tag /\ tag # None => tag \in contested'
  BY DEF register_lane, carriers
<1>4. ASSUME NEW l \in DOMAIN lanes', lanes'[l].scan_tag \notin contested' \cup {None}
      PROVE  /\ lanes'[l].scan_tag \in DOMAIN lane_scan_tags'
             /\ lane_scan_tags'[lanes'[l].scan_tag] = l
  <2>1. CASE l = id
    BY <1>1, <1>2, <1>4, <2>1
  <2>2. CASE l # id
    <3>1. l \in DOMAIN lanes /\ lanes'[l] = lanes[l]
      BY <1>1, <2>2
    <3>2. /\ lanes[l].scan_tag \in DOMAIN lane_scan_tags
          /\ lane_scan_tags[lanes[l].scan_tag] = l
      BY <1>3, <1>4, <3>1 DEF LInv, TagsFollow
    <3>3. lanes[l].scan_tag # tag
      BY <1>3, <1>4, <2>2, <3>1
    <3>4. lanes[l].scan_tag \notin replaced
      BY <1>3, <1>4, <2>2, <3>1, <3>2 DEF LInv, TagsFollow
    <3>5. QED BY <1>2, <3>1, <3>2, <3>3, <3>4
  <2>3. QED BY <2>1, <2>2
<1>5. ASSUME NEW t \in DOMAIN lane_scan_tags'
      PROVE  /\ t # None
             /\ lane_scan_tags'[t] \in DOMAIN lanes'
             /\ lanes'[lane_scan_tags'[t]].scan_tag = t
  <2>1. CASE t = tag
    <3>1. t # None
      BY <1>2, <2>1 DEF LInv, TagsFollow
    <3>2. QED BY <1>1, <1>2, <2>1, <3>1
  <2>2. CASE t # tag
    <3>1. t \in DOMAIN lane_scan_tags /\ t \notin replaced
          /\ lane_scan_tags'[t] = lane_scan_tags[t]
      BY <1>2, <2>2
    <3>2. t # None /\ lane_scan_tags[t] \in DOMAIN lanes
          /\ lanes[lane_scan_tags[t]].scan_tag = t
      BY <3>1 DEF LInv, TagsFollow
    <3>3. lane_scan_tags[t] # id
      BY <3>1, <3>2
    <3>4. QED BY <1>1, <3>1, <3>2, <3>3
  <2>3. QED BY <2>1, <2>2
<1>6. QED BY <1>4, <1>5 DEF TagsFollow

\* A registration names an indexed covenant and copies its chain and asset.
LEMMA RegisterKeepsCovenants ==
  ASSUME LInv, NEW lane, register_lane(lane)
  PROVE  LanesFollowCovenants'
<1>1. /\ DOMAIN lanes' = DOMAIN lanes \cup {lane.lane_id}
      /\ \A l \in DOMAIN lanes' :
           lanes'[l] = IF l = lane.lane_id THEN lane ELSE lanes[l]
  BY DEF register_lane, lanes_after
<1>2. /\ map' = map
      /\ lane.covenant_id \in DOMAIN map
      /\ map[lane.covenant_id].chain_id = lane.chain_id
      /\ map[lane.covenant_id].latest_state.asset_id = lane.asset_id
  BY DEF register_lane, validate_indexed_lane
<1>3. QED BY <1>1, <1>2 DEF LInv, LanesFollowCovenants

\* LInv is inductive.
LEMMA LaneInductive == LaneSpec => []LInv
<1>1. LaneInit => LInv
  BY DEF LaneInit, Init, LInv, IInv, LanesTyped, LanesFollowCovenants, TagsFollow
<1>2. LInv /\ [LaneNext]_laneVars => LInv'
  <2> SUFFICES ASSUME LInv, [LaneNext]_laneVars
               PROVE  LInv'
    OBVIOUS
  <2>1. CASE RegisterLane
    <3>1. PICK lane \in IndexedLane : register_lane(lane)
      BY <2>1, Registered DEF LInv
    <3>2. IInv'
      BY <3>1 DEF register_lane, LInv, IInv
    <3>3. LanesTyped'
      BY <3>1 DEF register_lane, lanes_after, LInv, LanesTyped
    <3>4. QED BY <3>1, <3>2, <3>3, RegisterKeepsTags, RegisterKeepsCovenants DEF LInv
  <2>2. CASE CovenantStep
    <3>1. Next /\ lanes' = lanes /\ lane_scan_tags' = lane_scan_tags
          /\ contested' = contested
      BY <2>2 DEF CovenantStep
    <3>2. IInv' /\ IdentityKept
      BY <3>1, NextPuts, PutsInv, StepKeepsIdentity DEF LInv
    <3>3. LanesFollowCovenants'
      BY <3>1, <3>2 DEF LInv, LanesFollowCovenants, IdentityKept
    <3>4. LanesTyped' /\ TagsFollow'
      BY <3>1 DEF LInv, LanesTyped, TagsFollow
    <3>5. QED BY <3>2, <3>3, <3>4 DEF LInv
  <2>3. CASE UNCHANGED laneVars
    BY <2>3 DEF laneVars, LInv, IInv, LanesTyped, LanesFollowCovenants, TagsFollow
  <2>4. QED BY <2>1, <2>2, <2>3 DEF LaneNext
<1>3. QED BY <1>1, <1>2, PTL DEF LaneSpec

-----------------------------------------------------------------------------
\* For any lanes, view keys and epochs, and after any registrations with any
\* tags, the tag map of InMemoryIndexer finds a lane SledIndexer may find, and the
\* only one it may find when the tag was never contested.
THEOREM BackendsAgree == LaneSpec => []BackendsFindSameLane
<1>1. LInv => BackendsFindSameLane
  <2> SUFFICES ASSUME LInv, NEW t \in ScanTag
               PROVE  LET found == IF lane_by_scan_tag(t) = None
                                     THEN {} ELSE {lane_by_scan_tag(t)}
                      IN /\ found \subseteq sled_lane_by_scan_tag(t)
                         /\ t \notin contested => sled_lane_by_scan_tag(t) = found
    BY DEF BackendsFindSameLane
  <2> DEFINE found == IF lane_by_scan_tag(t) = None THEN {} ELSE {lane_by_scan_tag(t)}
  <2>1. t # None
    BY LaneAssumption
  <2>2. found \subseteq {lanes[l] : l \in carriers(t)}
    BY DEF LInv, TagsFollow, lane_by_scan_tag, lane_by_id, carriers
  <2>3. ASSUME t \notin contested, NEW l \in carriers(t)
        PROVE  lane_by_scan_tag(t) = lanes[l] /\ lanes[l] # None
    <3>1. l \in DOMAIN lanes /\ lanes[l].scan_tag = t
      BY DEF carriers
    <3>2. t \in DOMAIN lane_scan_tags /\ lane_scan_tags[t] = l
      BY <2>1, <2>3, <3>1 DEF LInv, TagsFollow
    <3>3. lanes[l] # None
      BY <3>1, LaneAssumption DEF LInv, LanesTyped
    <3>4. QED BY <3>1, <3>2, <3>3 DEF lane_by_scan_tag, lane_by_id
  <2>4. QED BY <2>2, <2>3 DEF sled_lane_by_scan_tag
<1>2. QED BY <1>1, LaneInductive, PTL

\* A registered lane stays with an indexed covenant of its chain and asset.
THEOREM LanesStayWithCovenants == LaneSpec => []LanesFollowCovenants
<1>1. LInv => LanesFollowCovenants
  BY DEF LInv
<1>2. QED BY <1>1, LaneInductive, PTL

-----------------------------------------------------------------------------
\* The lane a tag leads to carries the tag, and it is the lane of an id that
\* carries the tag unless the tag was contested.
LEMMA TagFindsCarrier ==
  ASSUME LInv, NEW id, NEW tag, NEW chain, NEW backend, tag # None
  PROVE  LET tagged == resolve_by_scan_tag(tag, chain, backend)
             named == resolve_lane(id, chain, backend)
         IN /\ tagged.kind = "Resolved" => tagged.lane.scan_tag = tag
            /\ named.kind = "Resolved" /\ named.lane.scan_tag = tag =>
                 tag \in contested \/ tagged = named
<1> DEFINE tagged == resolve_by_scan_tag(tag, chain, backend)
           named == resolve_lane(id, chain, backend)
<1>1. ASSUME tagged.kind = "Resolved"
      PROVE  tagged.lane.scan_tag = tag
  <2>1. lane_by_scan_tag(tag) # None
    BY <1>1 DEF resolve_by_scan_tag, Unresolved
  <2>2. tagged.lane = lane_by_scan_tag(tag)
    BY <2>1 DEF resolve_by_scan_tag, resolve_indexed_lane
  <2>3. tag \in DOMAIN lane_scan_tags
    BY <2>1 DEF lane_by_scan_tag
  <2>4. lane_scan_tags[tag] \in DOMAIN lanes /\ lanes[lane_scan_tags[tag]].scan_tag = tag
    BY <2>3 DEF LInv, TagsFollow
  <2>5. QED BY <2>2, <2>3, <2>4 DEF lane_by_scan_tag, lane_by_id
<1>2. ASSUME named.kind = "Resolved", named.lane.scan_tag = tag, tag \notin contested
      PROVE  tagged = named
  <2>1. lane_by_id(id) # None
    BY <1>2 DEF resolve_lane, Unresolved
  <2>2. id \in DOMAIN lanes /\ lane_by_id(id) = lanes[id]
    BY <2>1 DEF lane_by_id
  <2>3. named.lane = lanes[id]
    BY <2>1, <2>2 DEF resolve_lane, resolve_indexed_lane
  <2>4. tag \in DOMAIN lane_scan_tags /\ lane_scan_tags[tag] = id
    BY <1>2, <2>2, <2>3 DEF LInv, TagsFollow
  <2>5. lane_by_scan_tag(tag) = lane_by_id(id)
    BY <2>4 DEF lane_by_scan_tag
  <2>6. QED BY <2>1, <2>5 DEF resolve_by_scan_tag, resolve_lane
<1>3. QED BY <1>1, <1>2

\* A lane that is resolved by view key is resolved alike by its id, carries the
\* tag derived for it or none, belongs to a covenant of the asset, and is among
\* the public lanes of the asset if it is public.
LEMMA HeldIsNamed ==
  ASSUME LInv, NEW k, NEW asset, NEW e, NEW chain, NEW backend,
         resolve_by_view_key(k, asset, e, chain, backend).kind = "Resolved"
  PROVE  LET id == derive_blinded_lane_id(k, asset, e)
             held == resolve_by_view_key(k, asset, e, chain, backend)
         IN /\ held = resolve_lane(id, chain, backend)
            /\ held.lane.scan_tag \in {None, derive_scan_tag(k, id, e)}
            /\ map[held.lane.covenant_id].latest_state.asset_id = asset
            /\ held.lane.public_lineage =>
                 held \in resolve_public_lineage(asset, chain, backend)
<1> DEFINE id == derive_blinded_lane_id(k, asset, e)
           lane == lane_by_id(id)
           held == resolve_by_view_key(k, asset, e, chain, backend)
           tag == derive_scan_tag(k, id, e)
<1>1. /\ lane # None
      /\ lane.asset_id = asset
      /\ lane.scan_tag = None \/ lane.scan_tag = tag
      /\ held = resolve_indexed_lane(lane, chain, backend)
  BY DEF resolve_by_view_key, Unresolved
<1>2. held = resolve_lane(id, chain, backend)
  BY <1>1 DEF resolve_lane
<1>3. held.lane = lane
  BY <1>1 DEF resolve_indexed_lane
<1>4. id \in DOMAIN lanes /\ lane = lanes[id]
  BY <1>1 DEF lane_by_id
<1>5. map[lane.covenant_id].latest_state.asset_id = asset
  BY <1>1, <1>4 DEF LInv, LanesFollowCovenants
<1>6. ASSUME lane.public_lineage
      PROVE  held \in resolve_public_lineage(asset, chain, backend)
  <2>1. lane \in public_lanes(asset)
    BY <1>1, <1>4, <1>6, Zenon DEF public_lanes
  <2>2. QED BY <1>1, <2>1 DEF resolve_public_lineage
<1>7. held.lane.scan_tag \in {None, tag}
  BY <1>1, <1>3
<1>8. QED BY <1>2, <1>3, <1>5, <1>6, <1>7, Zenon

\* Whatever one proof discovers, in a graph or in a segment of any size, is found
\* in the index by id, by view key and, where its tag is its own, by scan tag.
THEOREM DiscoveryResolves == LaneSpec => []DiscoveredLanesResolve
<1>1. LInv => DiscoveredLanesResolve
  <2> SUFFICES ASSUME LInv, NEW w \in Witness, NEW chain \in Chain,
                      NEW nodes \in Discovered(w), NEW i \in DOMAIN nodes
               PROVE  LET backend == OpenSeen(DOMAIN map, chain)
                          node == nodes[i]
                          tagged == resolve_by_scan_tag(node.scan_tag, chain, backend)
                          named == resolve_lane(node.lane_id, chain, backend)
                          held == resolve_by_view_key(w.view_key, w.asset_id, node.epoch,
                                                      chain, backend)
                      IN /\ tagged.kind = "Resolved" => tagged.lane.scan_tag = node.scan_tag
                         /\ named.kind = "Resolved" /\ named.lane.scan_tag = node.scan_tag =>
                              node.scan_tag \in contested \/ tagged = named
                         /\ held.kind = "Resolved" =>
                              /\ held = named
                              /\ held.lane.scan_tag \in {None, node.scan_tag}
                              /\ map[held.lane.covenant_id].latest_state.asset_id = w.asset_id
                              /\ held.lane.public_lineage =>
                                   held \in resolve_public_lineage(w.asset_id, chain, backend)
    BY DEF DiscoveredLanesResolve
  <2> DEFINE node == nodes[i]
  <2>1. node \in IndexedNodes /\ lane_enforced(node, w)
    BY DEF Discovered
  <2>2. /\ node.lane_id = derive_blinded_lane_id(w.view_key, w.asset_id, node.epoch)
        /\ node.scan_tag = derive_scan_tag(w.view_key, node.lane_id, node.epoch)
    BY <2>1 DEF lane_enforced, discover_lane
  <2>3. node.epoch \in Epoch
    BY <2>1 DEF IndexedNodes
  <2>4. node.scan_tag # None
    <3>1. node.lane_id \in LaneId
      BY <2>2, <2>3 DEF Witness, LaneId, derive_blinded_lane_id
    <3>2. node.scan_tag \in ScanTag
      BY <2>2, <2>3, <3>1 DEF Witness, ScanTag, derive_scan_tag
    <3>3. QED BY <3>2, LaneAssumption
  <2> DEFINE backend == OpenSeen(DOMAIN map, chain)
             tagged == resolve_by_scan_tag(node.scan_tag, chain, backend)
             named == resolve_lane(node.lane_id, chain, backend)
             held == resolve_by_view_key(w.view_key, w.asset_id, node.epoch, chain, backend)
  <2> HIDE DEF backend, node
  <2>5. /\ tagged.kind = "Resolved" => tagged.lane.scan_tag = node.scan_tag
        /\ named.kind = "Resolved" /\ named.lane.scan_tag = node.scan_tag =>
             node.scan_tag \in contested \/ tagged = named
    BY <2>4, TagFindsCarrier
  <2>6. ASSUME held.kind = "Resolved"
        PROVE  /\ held = named
               /\ held.lane.scan_tag \in {None, node.scan_tag}
               /\ map[held.lane.covenant_id].latest_state.asset_id = w.asset_id
               /\ held.lane.public_lineage =>
                    held \in resolve_public_lineage(w.asset_id, chain, backend)
    BY <2>2, <2>6, HeldIsNamed
  <2>7. QED BY <2>5, <2>6 DEF backend, node
<1>2. QED BY <1>1, LaneInductive, PTL
=============================================================================
