-------------------------- MODULE WalletSyncProofs --------------------------
(***************************************************************************)
(* One lane between the chain and the index, for every tree of blocks,      *)
(* every history and every number of requests: the row only shows what the  *)
(* index has recorded, and a verdict is true of the selected chain.         *)
(*                                                                          *)
(* IInv is the inductive invariant.  EntryInv says what the recording       *)
(* handlers keep of the index entry, NodeInv what a tree of blocks is,      *)
(* CacheInv that a scanned spend is in a block at or below the cursor, and  *)
(* BackedInv that everything a request has in hand for the row (a verdict,  *)
(* evidence) is already in the index when it gets there.                    *)
(***************************************************************************)
EXTENDS WalletSync, TLAPS

Anc(b) == block[b].ancestors
Score(b) == block[b].daa_score

\* A recorded spend: complete continuation, no migration.
Recorded(spend) ==
  /\ spend \in SpendEntry
  /\ spend.continuation = Complete
  /\ spend.policy_migration = None

\* The entry is open, its receipts are those of its spends, and the newest
\* spend led to the policy of the latest state.
EntryInv ==
  /\ entry \in IndexedCovenant
  /\ entry.open_outpoint \in Outpoint
  /\ Len(entry.accepted_receipts) = Len(entry.spend_history)
  /\ \A i \in 1 .. Len(entry.spend_history) :
       /\ Recorded(entry.spend_history[i])
       /\ entry.spend_history[i].receipt_id = entry.accepted_receipts[i]
  /\ entry.spend_history # <<>> =>
       last_spend(entry).new_receipt_policy = entry.latest_state.receipt_policy

\* A block is among its ancestors, which are blocks whose own ancestors are
\* ancestors too, and of two of them the lower is an ancestor of the other.
Tree ==
  \A b \in DOMAIN block :
    /\ b \in Anc(b)
    /\ Anc(b) \subseteq DOMAIN block
    /\ \A a \in Anc(b) : Anc(a) \subseteq Anc(b) /\ Score(a) <= Score(b)
    /\ \A a, c \in Anc(b) : Score(a) <= Score(c) => a \in Anc(c)

\* A transaction spends its one covenant output.
NodeInv ==
  /\ \A b \in DOMAIN block :
       /\ block[b].chain_id \in Chain
       /\ Score(b) \in Nat
       /\ \A s \in block[b].spends :
            s.txid \in DOMAIN InputOf /\ s = [spent |-> InputOf[s.txid], txid |-> s.txid]
  /\ tip \in [Chain -> DOMAIN block]
  /\ Tree

\* r was scanned in a block at or below b.
ScannedBelow(b, r) ==
  \E a \in Anc(b) : \E s \in block[a].spends :
    r = [spent |-> s.spent, txid |-> s.txid, block_daa_score |-> Score(a) + 1]

CacheInv ==
  /\ cursor # None => cursor \in DOMAIN block
  /\ sync.pc = "scanned" =>
       /\ cursor \in DOMAIN block
       /\ \A o \in DOMAIN sync.cache :
            sync.cache[o].spent = o /\ ScannedBelow(cursor, sync.cache[o])

\* The receipt is one of the index, or one the row may show without it.
Backed(receipt) == receipt \in {None, Local} \/ has_receipt(entry, receipt)

BackedInv ==
  /\ lane = [resolver_state |-> lane.resolver_state,
             state_digest |-> lane.state_digest,
             latest_receipt_id |-> lane.latest_receipt_id]
  /\ sync = [pc |-> sync.pc, cache |-> sync.cache, verdict |-> sync.verdict]
  /\ LaneBackedByIndex
  /\ \A p \in pending : p.state_digest \in Digests /\ Backed(p.receipt_id)
  /\ sync.pc = "resolved" =>
       /\ sync.verdict.state_digest = None \/ sync.verdict.state_digest \in Digests
       /\ Backed(sync.verdict.receipt_id)
       /\ sync.verdict.state = "NativeTransitionedValid" => settled # {}

IInv == EntryInv /\ NodeInv /\ CacheInv /\ BackedInv

\* Blocks are only added and never change.
Grown ==
  /\ DOMAIN block \subseteq DOMAIN block'
  /\ \A b \in DOMAIN block : block'[b] = block[b]

-----------------------------------------------------------------------------
(* The node.                                                                *)

\* The genesis blocks form a tree each.
LEMMA NodeInitInv == NodeInit => NodeInv
<1> SUFFICES ASSUME NodeInit
             PROVE  NodeInv
  OBVIOUS
<1> DEFINE G == {Genesis[k] : k \in Chain}
<1>1. DOMAIN block = G /\ tip \in [Chain -> G]
  BY SyncAssumption DEF NodeInit
<1>2. ASSUME NEW b \in G
      PROVE  /\ block[b].chain_id \in Chain
             /\ block[b].ancestors = {b} /\ block[b].spends = {}
             /\ block[b].daa_score = 0
  <2>1. (CHOOSE l \in Chain : Genesis[l] = b) \in Chain
    OBVIOUS
  <2>2. block[b] = [chain_id |-> CHOOSE l \in Chain : Genesis[l] = b,
                    ancestors |-> {b}, spends |-> {}, daa_score |-> 0]
    BY DEF NodeInit
  <2>3. QED BY <2>1, <2>2
<1>3. Tree
  BY <1>1, <1>2 DEF Tree, Anc, Score
<1>4. QED BY <1>1, <1>2, <1>3 DEF NodeInv, Score

\* A block of transactions extends one branch; the others stay as they were.
LEMMA MineInv ==
  ASSUME NodeInv, NEW b, NEW p, NEW txids \in SUBSET DOMAIN InputOf,
         Mine(b, p, {[spent |-> InputOf[t], txid |-> t] : t \in txids})
  PROVE  NodeInv' /\ Grown
<1> DEFINE spends == {[spent |-> InputOf[t], txid |-> t] : t \in txids}
           data == block[p]
           mined == [chain_id |-> data.chain_id,
                     ancestors |-> data.ancestors \cup {b}, spends |-> spends,
                     daa_score |-> data.daa_score + 1]
<1>1. /\ b \notin DOMAIN block /\ p \in DOMAIN block
      /\ block' = [c \in DOMAIN block \cup {b} |->
                     IF c = b THEN mined ELSE block[c]]
  BY DEF Mine
<1>2. /\ mined.ancestors = data.ancestors \cup {b} /\ mined.spends = spends
      /\ mined.daa_score = data.daa_score + 1 /\ mined.chain_id = data.chain_id
  OBVIOUS
<1>3. \A s \in spends :
        s.txid \in DOMAIN InputOf /\ s = [spent |-> InputOf[s.txid], txid |-> s.txid]
  OBVIOUS
<1>4. data.chain_id \in Chain /\ data.daa_score \in Nat
  BY <1>1 DEF NodeInv, Score
<1>5. tip' \in [Chain -> DOMAIN block \cup {b}]
  <2>1. tip \in [Chain -> DOMAIN block]
    BY DEF NodeInv
  <2>2. \E t \in DOMAIN block \cup {b} : tip' = [tip EXCEPT ![data.chain_id] = t]
    BY <1>4, <2>1, Zenon DEF Mine
  <2>3. QED BY <1>4, <2>1, <2>2
<1> HIDE DEF mined, spends
<1>6. /\ DOMAIN block' = DOMAIN block \cup {b}
      /\ block'[b] = mined
      /\ \A c \in DOMAIN block : block'[c] = block[c]
  BY <1>1
<1>7. /\ Anc(b)' = Anc(p) \cup {b} /\ Score(b)' = Score(p) + 1
      /\ \A c \in DOMAIN block : Anc(c)' = Anc(c) /\ Score(c)' = Score(c)
  BY <1>2, <1>6 DEF Anc, Score
<1>8. /\ \A c \in DOMAIN block : Anc(c) \subseteq DOMAIN block /\ Score(c) \in Nat
      /\ p \in Anc(p) /\ \A a \in Anc(p) : Anc(a) \subseteq Anc(p) /\ Score(a) <= Score(p)
      /\ \A a, c \in Anc(p) : Score(a) <= Score(c) => a \in Anc(c)
  BY <1>1 DEF NodeInv, Tree
<1>9. Tree'
  <2> SUFFICES ASSUME NEW x \in DOMAIN block'
               PROVE  /\ x \in Anc(x)'
                      /\ Anc(x)' \subseteq DOMAIN block'
                      /\ \A a \in Anc(x)' : Anc(a)' \subseteq Anc(x)' /\ Score(a)' <= Score(x)'
                      /\ \A a, c \in Anc(x)' : Score(a)' <= Score(c)' => a \in Anc(c)'
    BY DEF Tree
  <2>1. CASE x \in DOMAIN block
    BY <2>1, <1>6, <1>7, <1>8 DEF NodeInv, Tree
  <2>2. CASE x = b
    <3>1. \A a \in Anc(p) : /\ a \in DOMAIN block /\ Score(a)' = Score(a)
                            /\ Score(a) \in Nat /\ Score(p) \in Nat
                            /\ Score(a) < Score(p) + 1
      BY <1>1, <1>7, <1>8
    <3>2. ASSUME NEW a \in Anc(x)'
          PROVE  Anc(a)' \subseteq Anc(x)' /\ Score(a)' <= Score(x)'
      <4>1. CASE a = b
        BY <2>2, <4>1, <1>1, <1>7, <1>8
      <4>2. CASE a \in Anc(p)
        BY <2>2, <4>2, <1>7, <1>8, <3>1
      <4>3. QED BY <2>2, <4>1, <4>2, <1>7
    <3>3. ASSUME NEW a \in Anc(x)', NEW c \in Anc(x)', Score(a)' <= Score(c)'
          PROVE  a \in Anc(c)'
      <4>1. CASE c = b
        BY <2>2, <4>1
      <4>2. CASE a = b /\ c \in Anc(p)
        BY <4>2, <3>1, <3>3, <1>7
      <4>3. CASE a \in Anc(p) /\ c \in Anc(p)
        BY <4>3, <3>1, <3>3, <1>7, <1>8
      <4>4. QED BY <2>2, <4>1, <4>2, <4>3, <1>7
    <3>4. x \in Anc(x)' /\ Anc(x)' \subseteq DOMAIN block'
      BY <2>2, <1>1, <1>6, <1>7, <1>8
    <3>5. QED BY <3>2, <3>3, <3>4
  <2>3. QED BY <2>1, <2>2, <1>6
<1>10. QED
  <2>1. ASSUME NEW c \in DOMAIN block'
        PROVE  /\ block'[c].chain_id \in Chain
               /\ Score(c)' \in Nat
               /\ \A s \in block'[c].spends :
                    s.txid \in DOMAIN InputOf
                      /\ s = [spent |-> InputOf[s.txid], txid |-> s.txid]
    <3>1. CASE c \in DOMAIN block
      BY <3>1, <1>6, <1>7 DEF NodeInv
    <3>2. CASE c = b
      BY <3>2, <1>2, <1>3, <1>4, <1>6 DEF Score
    <3>3. QED BY <3>1, <3>2, <1>6
  <2>2. Grown
    BY <1>6 DEF Grown
  <2>3. QED BY <2>1, <2>2, <1>5, <1>6, <1>9 DEF NodeInv

-----------------------------------------------------------------------------
(* The entry.                                                               *)

\* The newest spend of an entry is one of its spends, with a receipt the entry
\* has accepted.
LEMMA NewestSpend ==
  ASSUME EntryInv, entry.spend_history # <<>>
  PROVE  /\ Recorded(last_spend(entry))
         /\ has_receipt(entry, last_spend(entry).receipt_id)
<1> DEFINE h == entry.spend_history
           r == entry.accepted_receipts
<1>1. h \in Seq(SpendEntry) /\ r \in Seq(Receipt)
  BY DEF EntryInv, IndexedCovenant
<1>2. Len(h) \in Nat /\ Len(h) # 0
  BY <1>1 DEF EntryInv
<1>3. Len(h) \in 1 .. Len(h)
  BY <1>2
<1>4. Len(h) \in DOMAIN r
  BY <1>1, <1>3 DEF EntryInv
<1>5. QED BY <1>3, <1>4 DEF EntryInv, last_spend, has_receipt

\* A recorded spend leaves the entry well formed, and takes neither a digest
\* nor a receipt away.
LEMMA IndexSpendInv ==
  ASSUME EntryInv, NEW receipt \in Receipt, NEW txid \in Txid,
         NEW digest \in Digest, NEW policy \in Policy,
         index_spend(receipt, txid, digest, policy)
  PROVE  /\ EntryInv'
         /\ Digests \subseteq Digests'
         /\ \A r : has_receipt(entry, r) => has_receipt(entry, r)'
         /\ digest \in Digests'
         /\ has_receipt(entry, receipt)'
<1> DEFINE state == [entry.latest_state EXCEPT !.state_digest = digest,
                                               !.receipt_policy = policy]
           created == [transaction_id |-> txid, index |-> 0]
           new == spend_entry(entry, receipt, entry.open_outpoint, created, state, 0,
                              Complete, None)
           h == entry.spend_history
           r == entry.accepted_receipts
<1>1. entry' = [entry EXCEPT !.open_outpoint = created, !.latest_state = state,
                             !.last_update_daa_score = 0,
                             !.accepted_receipts = Append(@, receipt),
                             !.spend_history = Append(@, new)]
  BY DEF index_spend, spend_applied
<1>2. /\ entry \in IndexedCovenant /\ h \in Seq(SpendEntry) /\ r \in Seq(Receipt)
      /\ entry.latest_state \in RgkStateCommitment /\ entry.open_outpoint \in Outpoint
      /\ Len(r) = Len(h)
  BY DEF EntryInv, IndexedCovenant
<1>3. /\ state \in RgkStateCommitment
      /\ state.state_digest = digest /\ state.receipt_policy = policy
  BY <1>2, Zenon DEF RgkStateCommitment
<1>4. created \in Outpoint
  BY DEF Outpoint
<1>5. 0 \in Daa
  BY ConstantsAssumption DEF Daa
<1>6. /\ new \in SpendEntry /\ new.continuation = Complete
      /\ new.policy_migration = None /\ new.receipt_id = receipt
      /\ new.new_receipt_policy = policy
      /\ new.new_state_digest = entry.latest_state.state_digest
  <2>1. /\ entry.latest_state.state_digest \in Digest
        /\ entry.latest_state.receipt_policy \in Policy
    BY <1>2 DEF RgkStateCommitment
  <2>2. Complete \in ContinuationProof \cup {None}
    BY SyncAssumption
  <2> HIDE DEF state, created
  <2>3. QED BY <1>2, <1>3, <1>4, <1>5, <2>1, <2>2 DEF SpendEntry, spend_entry
<1> HIDE DEF state, created, new
<1>7. /\ entry' \in IndexedCovenant
      /\ entry'.open_outpoint = created /\ entry'.latest_state = state
      /\ entry'.accepted_receipts = Append(r, receipt)
      /\ entry'.spend_history = Append(h, new)
  <2>1. Append(r, receipt) \in Seq(Receipt) /\ Append(h, new) \in Seq(SpendEntry)
    BY <1>2, <1>6
  <2>2. entry.covenant_id \in Covenant /\ entry.lineage_id \in Lineage
        /\ entry.chain_id \in Chain
    BY <1>2 DEF IndexedCovenant
  <2>3. entry' = [covenant_id |-> entry.covenant_id, lineage_id |-> entry.lineage_id,
                  chain_id |-> entry.chain_id, open_outpoint |-> created,
                  latest_state |-> state, accepted_receipts |-> Append(r, receipt),
                  spend_history |-> Append(h, new), last_update_daa_score |-> 0]
    BY <1>1, <1>2, Zenon DEF IndexedCovenant
  <2>4. QED BY <2>1, <2>2, <2>3, <1>3, <1>4, <1>5 DEF IndexedCovenant
<1> DEFINE n == Len(h)
<1>8. /\ n \in Nat /\ Len(Append(h, new)) = n + 1 /\ Len(Append(r, receipt)) = n + 1
      /\ \A i \in 1 .. n : Append(h, new)[i] = h[i] /\ Append(r, receipt)[i] = r[i]
      /\ Append(h, new)[n + 1] = new /\ Append(r, receipt)[n + 1] = receipt
      /\ DOMAIN h = 1 .. n /\ DOMAIN r = 1 .. n
      /\ DOMAIN Append(h, new) = 1 .. n + 1 /\ DOMAIN Append(r, receipt) = 1 .. n + 1
  BY <1>2, <1>6
<1> HIDE DEF n
<1>9. \A i \in 1 .. n + 1 : i \in 1 .. n \/ i = n + 1
  BY <1>8
<1>10. \A i \in 1 .. n : i \in 1 .. n + 1
  BY <1>8
<1>11. n + 1 \in 1 .. n + 1
  BY <1>8
<1>12. EntryInv'
  <2>1. ASSUME NEW i \in 1 .. n + 1
        PROVE  /\ Recorded(Append(h, new)[i])
               /\ Append(h, new)[i].receipt_id = Append(r, receipt)[i]
    <3>1. CASE i \in 1 .. n
      BY <3>1, <1>8 DEF EntryInv, n
    <3>2. CASE i = n + 1
      BY <3>2, <1>6, <1>8 DEF Recorded
    <3>3. QED BY <3>1, <3>2, <1>9, Zenon
  <2>2. last_spend(entry)' = new
    BY <1>7, <1>8 DEF last_spend
  <2>3. QED BY <2>1, <2>2, <1>3, <1>4, <1>6, <1>7, <1>8 DEF EntryInv, Recorded
<1>13. /\ Digests \subseteq Digests'
       /\ digest \in Digests'
  <2>1. ASSUME NEW d \in Digests PROVE d \in Digests'
    <3>1. CASE d = entry.latest_state.state_digest
      BY <3>1, <1>6, <1>7, <1>8, <1>11 DEF Digests
    <3>2. CASE \E i \in DOMAIN h : d = h[i].new_state_digest
      BY <3>2, <1>7, <1>8, <1>10 DEF Digests
    <3>3. QED BY <3>1, <3>2 DEF Digests
  <2>2. QED BY <2>1, <1>3, <1>7, Zenon DEF Digests
<1>14. /\ \A x : has_receipt(entry, x) => has_receipt(entry, x)'
       /\ has_receipt(entry, receipt)'
  BY <1>7, <1>8, <1>10, <1>11 DEF has_receipt
<1>15. QED BY <1>12, <1>13, <1>14

\* Whatever the back end answers, a verdict carries no digest or the latest one
\* of the entry, and no receipt or that of its newest spend.
LEMMA VerdictBacked ==
  ASSUME EntryInv, NEW backend, NEW v, v = resolve_by_covenant(entry, Network, backend)
  PROVE  /\ v.state_digest = None \/ v.state_digest \in Digests
         /\ Backed(v.receipt_id)
<1> DEFINE bare(w) == w.state_digest = None /\ w.receipt_id = None
           full(w) == /\ w.state_digest \in {None, entry.latest_state.state_digest}
                      /\ \/ w.receipt_id = None
                         \/ /\ entry.spend_history # <<>>
                            /\ w.receipt_id = last_spend(entry).receipt_id
<1>1. \A state : bare(Verdict(state))
  BY DEF Verdict, NoVerdict
<1>2. full(resolve_open_outpoint(entry, backend))
  BY <1>1 DEF resolve_open_outpoint, OpenVerdict, ValidVerdict, Verdict, NoVerdict
<1>3. entry.spend_history # <<>> =>
        \A sp, depth : full(resolve_indexed_spend(entry, sp, depth))
  BY <1>1 DEF resolve_indexed_spend, ValidVerdict
<1>4. full(v)
  <2> HIDE DEF full
  <2>1. \A state : full(Verdict(state))
    BY <1>1 DEF full
  <2>2. QED BY <2>1, <1>2, <1>3 DEF resolve_by_covenant
<1>5. QED BY <1>4, NewestSpend DEF Digests, Backed

-----------------------------------------------------------------------------
(* The tick.                                                                *)

\* Whatever the tick caches is in a block at or below the cursor it stores: the
\* highest block of the batch is the tip, and every other one is below it.
LEMMA ScanTickCache ==
  ASSUME NodeInv, CacheInv, scan_tick
  PROVE  CacheInv'
<1> USE DEF Anc, Score
<1>1. tip[Network] \in DOMAIN block /\ block' = block
  BY SyncAssumption DEF NodeInv, scan_tick
<1>2. CASE cursor = None
  <2>1. cursor' = tip[Network] /\ sync' = [Idle EXCEPT !.pc = "scanned"]
    BY <1>2 DEF scan_tick
  <2>2. DOMAIN sync'.cache = {}
    BY <2>1 DEF Idle, NoSpends
  <2>3. QED BY <1>1, <2>1, <2>2 DEF CacheInv
<1>3. CASE cursor # None
  <2> DEFINE added == AddedFrom(Network, cursor, 0)
             new == SpendsIn(added)
             top == tip[Network]
  <2>1. /\ RemovedFrom(Network, cursor) = {}
        /\ cursor' = IF added = {} THEN cursor ELSE Highest(added)
        /\ sync' = [Idle EXCEPT !.pc = "scanned",
                                !.cache = with_spends(NoSpends, new)]
    BY <1>3 DEF scan_tick
  <2>2. cursor \in DOMAIN block
    BY <1>3 DEF CacheInv
  <2>3. added \subseteq Anc(top)
    BY DEF AddedFrom, SelectedChain
  <2>4. added # {} => top \in added
    <3>1. /\ top \in Anc(top) /\ Score(top) \in Nat
          /\ \A c \in Anc(cursor) : Anc(c) \subseteq Anc(cursor)
      BY <1>1, <2>2 DEF NodeInv, Tree
    <3>2. Score(top) + 0 <= Score(top)
      BY <3>1
    <3>3. top \in Anc(cursor) => added = {}
      BY <3>1 DEF AddedFrom, SelectedChain
    <3>4. QED BY <3>1, <3>2, <3>3 DEF AddedFrom, SelectedChain
  <2>5. cursor' \in DOMAIN block /\ added \subseteq Anc(cursor')
    <3>1. CASE added = {}
      BY <2>1, <2>2, <3>1
    <3>2. CASE added # {}
      <4> DEFINE high == Highest(added)
      <4>1. \A c \in added : Score(c) <= Score(top)
        BY <1>1, <2>3 DEF NodeInv, Tree
      <4>2. high \in added /\ \A c \in added : Score(c) <= Score(high)
        BY <2>4, <3>2, <4>1 DEF Highest
      <4>3. \A c \in added : c \in Anc(high)
        BY <1>1, <2>3, <4>2 DEF NodeInv, Tree
      <4>4. high \in DOMAIN block
        BY <1>1, <2>3, <4>2 DEF NodeInv, Tree
      <4>5. QED BY <2>1, <3>2, <4>3, <4>4
    <3>3. QED BY <3>1, <3>2
  <2>6. \A r \in new : ScannedBelow(cursor', r)
    BY <2>5 DEF ScannedBelow, SpendsIn
  <2>7. sync'.cache = with_spends(NoSpends, new)
    BY <2>1 DEF Idle
  <2>8. ASSUME NEW o \in DOMAIN with_spends(NoSpends, new)
        PROVE  with_spends(NoSpends, new)[o] \in new
               /\ with_spends(NoSpends, new)[o].spent = o
    <3>1. \E s \in new : s.spent = o
      BY <2>8 DEF with_spends, NoSpends
    <3>2. with_spends(NoSpends, new)[o] = CHOOSE s \in new : s.spent = o
      BY <3>1 DEF with_spends, NoSpends
    <3> HIDE DEF new
    <3>3. QED BY <3>1, <3>2
  <2>9. \A o \in DOMAIN sync'.cache :
          sync'.cache[o].spent = o /\ ScannedBelow(cursor, sync.cache[o])'
    <3>1. \A r : ScannedBelow(cursor', r) <=> ScannedBelow(cursor, r)'
      BY <1>1 DEF ScannedBelow
    <3>2. QED BY <2>6, <2>7, <2>8, <3>1
  <2>10. QED BY <1>1, <2>5, <2>9 DEF CacheInv
<1>4. QED BY <1>2, <1>3

\* What was scanned below a block stays so when blocks are added.
LEMMA GrownCache ==
  ASSUME NodeInv, CacheInv, Grown, UNCHANGED <<cursor, sync>>
  PROVE  CacheInv'
<1>1. \A b \in DOMAIN block : \A r : ScannedBelow(b, r) => ScannedBelow(b, r)'
  BY Zenon DEF NodeInv, Tree, Grown, ScannedBelow, Anc, Score
<1>2. QED BY <1>1 DEF CacheInv, Grown

\* Nothing the row shows or a request has in hand loses its backing when the
\* entry keeps its digests and receipts.
LEMMA BackedStays ==
  ASSUME BackedInv,
         Digests \subseteq Digests',
         \A r : has_receipt(entry, r) => has_receipt(entry, r)',
         UNCHANGED <<lane, sync, settled>>,
         \A p \in pending' \ pending :
           p.state_digest \in Digests' /\ Backed(p.receipt_id)'
  PROVE  BackedInv'
<1>1. \A r : Backed(r) => Backed(r)'
  BY DEF Backed
<1>2. LaneBackedByIndex'
  BY DEF BackedInv, LaneBackedByIndex
<1>3. \A p \in pending' : p.state_digest \in Digests' /\ Backed(p.receipt_id)'
  BY <1>1 DEF BackedInv
<1>4. sync.pc = "resolved" =>
        /\ sync.verdict.state_digest = None \/ sync.verdict.state_digest \in Digests'
        /\ Backed(sync.verdict.receipt_id)'
        /\ sync.verdict.state = "NativeTransitionedValid" => settled' # {}
  BY <1>1 DEF BackedInv
<1>5. QED BY <1>2, <1>3, <1>4 DEF BackedInv, Backed

-----------------------------------------------------------------------------
(* The invariant.                                                           *)

\* A created lane shows the state its covenant was opened with.
LEMMA InitInv == Init => IInv
<1> SUFFICES ASSUME Init
             PROVE  IInv
  OBVIOUS
<1>1. PICK c \in Covenant, l \in Lineage, s \in RgkStateCommitment :
        /\ entry = opened(c, Network, l, s, FirstOutpoint, 0)
        /\ lane = [resolver_state |-> "Unknown", state_digest |-> s.state_digest,
                   latest_receipt_id |-> None]
  BY DEF Init
<1>2. EntryInv
  <2>1. FirstOutpoint \in Outpoint
    BY SyncAssumption DEF FirstOutpoint, Outpoint
  <2>2. 0 \in Daa
    BY ConstantsAssumption DEF Daa
  <2>3. entry \in IndexedCovenant
    BY <1>1, <2>1, <2>2, SyncAssumption DEF opened, IndexedCovenant
  <2>4. entry.open_outpoint = FirstOutpoint /\ entry.accepted_receipts = <<>>
        /\ entry.spend_history = <<>>
    BY <1>1 DEF opened
  <2>5. QED BY <2>1, <2>3, <2>4 DEF EntryInv
<1>3. NodeInv
  BY NodeInitInv DEF Init
<1>4. CacheInv
  BY DEF Init, Idle, CacheInv
<1>5. BackedInv
  <2>1. lane.state_digest = entry.latest_state.state_digest
    BY <1>1 DEF opened
  <2>2. LaneBackedByIndex
    BY <1>1, <2>1 DEF LaneBackedByIndex, Digests
  <2>3. QED BY <1>1, <2>2 DEF Init, Idle, BackedInv
<1>6. QED BY <1>2, <1>3, <1>4, <1>5 DEF IInv

\* Indexing a spend, from either handler.
LEMMA IndexingInv ==
  ASSUME IInv, NEW receipt \in Receipt, NEW txid \in DOMAIN InputOf,
         NEW digest \in Digest, NEW policy \in Policy,
         index_spend(receipt, txid, digest, policy)
  PROVE  IInv'
<1>1. txid \in Txid
  BY SyncAssumption
<1>2. /\ EntryInv'
      /\ Digests \subseteq Digests'
      /\ \A r : has_receipt(entry, r) => has_receipt(entry, r)'
      /\ digest \in Digests'
      /\ has_receipt(entry, receipt)'
  BY <1>1, IndexSpendInv DEF IInv
<1>3. /\ pending' = pending \cup {[state_digest |-> digest, receipt_id |-> receipt]}
      /\ UNCHANGED <<block, tip, cursor, observed, lane, sync, settled>>
  BY DEF index_spend
<1>4. BackedInv'
  <2>1. \A p \in pending' \ pending :
          p.state_digest \in Digests' /\ Backed(p.receipt_id)'
    BY <1>2, <1>3 DEF Backed
  <2>2. QED BY <1>2, <1>3, <2>1, BackedStays DEF IInv
<1>5. NodeInv' /\ CacheInv'
  <2>1. NodeInv'
    BY <1>3 DEF IInv, NodeInv, Tree, Anc, Score
  <2>2. Grown
    BY <1>3 DEF Grown
  <2>3. QED BY <1>3, <2>1, <2>2, GrownCache DEF IInv
<1>6. QED BY <1>2, <1>4, <1>5 DEF IInv

\* A row updated from a verdict or from evidence shows what they carry.
LEMMA RowInv ==
  ASSUME IInv,
         UNCHANGED <<block, tip, database, settled>>,
         sync' = sync \/ sync' = Idle,
         pending' \subseteq pending,
         NEW state, NEW digest, NEW receipt,
         lane' = [resolver_state |-> state, state_digest |-> digest,
                  latest_receipt_id |-> receipt],
         digest \in Digests, Backed(receipt),
         state = "NativeTransitionedValid" => settled # {}
  PROVE  IInv'
<1>1. EntryInv' /\ NodeInv'
  BY DEF IInv, EntryInv, Recorded, last_spend, NodeInv, Tree, Anc, Score, database
<1>2. CacheInv'
  <2>1. CASE sync' = sync
    <3>1. Grown /\ cursor' = cursor
      BY DEF Grown, database
    <3>2. QED BY <2>1, <3>1, GrownCache DEF IInv
  <2>2. CASE sync' = Idle
    BY <2>2 DEF IInv, CacheInv, database, Idle
  <2>3. QED BY <2>1, <2>2
<1>3. Digests' = Digests /\ \A r : Backed(r)' <=> Backed(r)
  BY DEF Digests, Backed, has_receipt, database
<1>4. LaneBackedByIndex'
  BY <1>3 DEF LaneBackedByIndex, Backed, has_receipt, database
<1>5. /\ sync' = [pc |-> sync'.pc, cache |-> sync'.cache, verdict |-> sync'.verdict]
      /\ sync'.pc = "resolved" => sync' = sync
  BY DEF IInv, BackedInv, Idle
<1>6. lane' = [resolver_state |-> lane'.resolver_state,
               state_digest |-> lane'.state_digest,
               latest_receipt_id |-> lane'.latest_receipt_id]
  OBVIOUS
<1>7. \A p \in pending' : p.state_digest \in Digests' /\ Backed(p.receipt_id)'
  BY <1>3 DEF IInv, BackedInv
<1>8. sync'.pc = "resolved" =>
       /\ sync'.verdict.state_digest = None \/ sync'.verdict.state_digest \in Digests'
       /\ Backed(sync.verdict.receipt_id)'
       /\ sync'.verdict.state = "NativeTransitionedValid" => settled' # {}
  <2> SUFFICES ASSUME sync'.pc = "resolved"
               PROVE  /\ sync'.verdict.state_digest = None
                           \/ sync'.verdict.state_digest \in Digests'
                      /\ Backed(sync.verdict.receipt_id)'
                      /\ sync'.verdict.state = "NativeTransitionedValid" => settled' # {}
    OBVIOUS
  <2>1. sync' = sync
    BY <1>5
  <2>2. QED BY <1>3, <2>1 DEF IInv, BackedInv, Backed
<1>9. QED BY <1>1, <1>2, <1>4, <1>5, <1>6, <1>7, <1>8 DEF IInv, BackedInv

\* A verdict on the lane, whatever the server answers.
Resolution ==
  \E network \in {Network, None}, reached \in BOOLEAN :
    resolve_indexed_lane(network, reached)

\* Every step of the node and of the handlers keeps the invariant.
LEMMA StepInv == IInv /\ [Next]_vars => IInv'
<1> SUFFICES ASSUME IInv, [Next]_vars
             PROVE  IInv'
  OBVIOUS
<1>0. /\ lane = [resolver_state |-> lane.resolver_state,
                 state_digest |-> lane.state_digest,
                 latest_receipt_id |-> lane.latest_receipt_id]
      /\ sync = [pc |-> sync.pc, cache |-> sync.cache, verdict |-> sync.verdict]
      /\ LaneBackedByIndex
      /\ lane.state_digest \in Digests
      /\ Backed(lane.latest_receipt_id)
  BY DEF IInv, BackedInv, LaneBackedByIndex, Backed
<1>1. CASE MineTransactions
  <2>1. PICK b \in Block, p \in DOMAIN block, txids \in SUBSET DOMAIN InputOf :
          Mine(b, p, {[spent |-> InputOf[t], txid |-> t] : t \in txids})
    BY <1>1, Zenon DEF MineTransactions
  <2>2. UNCHANGED <<entry, cursor, observed, lane, sync, pending, settled>>
    BY <1>1 DEF MineTransactions, database
  <2>3. NodeInv' /\ Grown
    BY <2>1, MineInv DEF IInv
  <2>4. EntryInv'
    BY <2>2 DEF IInv, EntryInv, Recorded, last_spend
  <2>5. CacheInv'
    BY <2>2, <2>3, GrownCache DEF IInv
  <2>6. Digests \subseteq Digests' /\ \A r : has_receipt(entry, r) => has_receipt(entry, r)'
    BY <2>2 DEF Digests, has_receipt
  <2>7. BackedInv'
    BY <2>2, <2>6, BackedStays DEF IInv
  <2>8. QED BY <2>3, <2>4, <2>5, <2>7 DEF IInv
<1>2. CASE scan_tick \/ scan_failed \/ Resolution
  <2>1. UNCHANGED <<block, tip, entry, lane, pending>>
    BY <1>2, Zenon DEF scan_tick, scan_failed, Resolution, resolve_indexed_lane, database
  <2>2. EntryInv' /\ NodeInv'
    BY <2>1 DEF IInv, EntryInv, Recorded, last_spend, NodeInv, Tree, Anc, Score
  <2>3. CacheInv'
    <3>1. CASE scan_tick
      BY <3>1, ScanTickCache DEF IInv
    <3>2. CASE scan_failed
      BY <3>2, <2>1, Zenon DEF scan_failed, IInv, CacheInv, Idle, database
    <3>3. CASE Resolution
      <4>1. sync'.pc = "resolved" /\ cursor' = cursor
        BY <3>3, <1>0 DEF Resolution, resolve_indexed_lane, database
      <4>2. QED BY <4>1, <2>1 DEF IInv, CacheInv
    <3>4. QED BY <1>2, <3>1, <3>2, <3>3
  <2>4. Digests' = Digests /\ \A r : Backed(r)' <=> Backed(r)
    BY <2>1 DEF Digests, Backed, has_receipt
  <2>5. BackedInv'
    <3>1. settled # {} => settled' # {}
      BY <1>2, Zenon DEF scan_tick, scan_failed, Resolution, resolve_indexed_lane
    <3>2. LaneBackedByIndex'
      BY <2>1, <2>4, <3>1, <1>0 DEF LaneBackedByIndex, has_receipt
    <3>3. \A p \in pending' : p.state_digest \in Digests' /\ Backed(p.receipt_id)'
      BY <2>1, <2>4 DEF IInv, BackedInv
    <3>4. CASE scan_tick \/ scan_failed
      <4>1. /\ sync'.pc # "resolved"
            /\ sync' = [pc |-> sync'.pc, cache |-> sync'.cache, verdict |-> sync'.verdict]
        BY <3>4, Zenon DEF scan_tick, scan_failed, Idle
      <4>2. QED BY <2>1, <3>2, <3>3, <4>1, <1>0 DEF BackedInv
    <3>5. CASE Resolution
      <4>1. PICK network \in {Network, None}, reached \in BOOLEAN :
              LET backend == WrpcBackend(sync.cache, network, reached)
                  verdict == resolve_by_covenant(entry, Network, backend)
              IN /\ sync' = [sync EXCEPT !.pc = "resolved", !.verdict = verdict]
                 /\ settled' = IF verdict.state = "NativeTransitionedValid"
                                 THEN settled \cup {verdict.receipt_id} ELSE settled
        BY <3>5, Zenon DEF Resolution, resolve_indexed_lane
      <4> DEFINE v == resolve_by_covenant(entry, Network,
                        WrpcBackend(sync.cache, network, reached))
      <4>2. /\ v.state_digest = None \/ v.state_digest \in Digests
            /\ Backed(v.receipt_id)
        BY VerdictBacked DEF IInv
      <4>3. /\ sync' = [sync EXCEPT !.pc = "resolved", !.verdict = v]
            /\ v.state = "NativeTransitionedValid" => settled' # {}
        BY <4>1
      <4> HIDE DEF v
      <4>4. sync' = [pc |-> "resolved", cache |-> sync.cache, verdict |-> v]
        BY <4>3, <1>0, Zenon
      <4>5. sync' = [pc |-> sync'.pc, cache |-> sync'.cache, verdict |-> sync'.verdict]
            /\ sync'.verdict = v
        BY <4>4
      <4>6. Backed(sync.verdict.receipt_id)'
        BY <2>1, <4>2, <4>5 DEF Backed, has_receipt
      <4>7. QED BY <2>1, <2>4, <3>2, <3>3, <4>2, <4>3, <4>5, <4>6, <1>0 DEF BackedInv
    <3>6. QED BY <1>2, <3>4, <3>5
  <2>6. QED BY <2>2, <2>3, <2>5 DEF IInv
<1>3. CASE apply_successful_scan
  <2> DEFINE v == sync.verdict
             digest == IF v.state_digest = None THEN lane.state_digest ELSE v.state_digest
             receipt == IF v.receipt_id = None THEN lane.latest_receipt_id ELSE v.receipt_id
  <2>1. /\ lane' = [resolver_state |-> v.state, state_digest |-> digest,
                    latest_receipt_id |-> receipt]
        /\ sync' = Idle /\ pending' \subseteq pending
        /\ UNCHANGED <<block, tip, database, settled>>
    BY <1>3 DEF apply_successful_scan
  <2>2. /\ digest \in Digests /\ Backed(receipt)
        /\ v.state = "NativeTransitionedValid" => settled # {}
    BY <1>0, <1>3 DEF apply_successful_scan, IInv, BackedInv
  <2> HIDE DEF v, digest, receipt
  <2>3. QED BY <2>1, <2>2, RowInv
<1>4. CASE apply_failed_scan
  <2>1. /\ lane' = [resolver_state |-> lane.resolver_state,
                    state_digest |-> lane.state_digest,
                    latest_receipt_id |-> lane.latest_receipt_id]
        /\ sync' = Idle /\ pending' \subseteq pending
        /\ UNCHANGED <<block, tip, database, settled>>
    BY <1>0, <1>4 DEF apply_failed_scan
  <2>2. lane.resolver_state = "NativeTransitionedValid" => settled # {}
    BY <1>0 DEF LaneBackedByIndex
  <2>3. QED BY <1>0, <2>1, <2>2, RowInv
<1>5. CASE build_transition_receipt
  <2>1. PICK receipt \in Receipt, txid \in DOMAIN InputOf, digest \in Digest :
          index_spend(receipt, txid, digest, entry.latest_state.receipt_policy)
    BY <1>5 DEF build_transition_receipt
  <2>2. entry.latest_state.receipt_policy \in Policy
    BY DEF IInv, EntryInv, IndexedCovenant, RgkStateCommitment
  <2>3. QED BY <2>1, <2>2, IndexingInv
<1>6. CASE ingest_proof_evidence
  BY <1>6, IndexingInv DEF ingest_proof_evidence
<1>7. CASE record_evidence
  <2>1. PICK p \in pending :
          /\ lane' = [lane EXCEPT !.latest_receipt_id = p.receipt_id,
                                  !.state_digest = p.state_digest]
          /\ pending' = pending \ {p}
    BY <1>7, Zenon DEF record_evidence
  <2>2. /\ lane' = [resolver_state |-> lane.resolver_state,
                    state_digest |-> p.state_digest,
                    latest_receipt_id |-> p.receipt_id]
        /\ sync' = sync /\ pending' \subseteq pending
        /\ UNCHANGED <<block, tip, database, settled>>
    BY <1>0, <1>7, <2>1, Zenon DEF record_evidence
  <2>3. /\ p.state_digest \in Digests /\ Backed(p.receipt_id)
        /\ lane.resolver_state = "NativeTransitionedValid" => settled # {}
    BY <1>0 DEF IInv, BackedInv, LaneBackedByIndex
  <2>4. QED BY <2>2, <2>3, RowInv
<1>8. CASE record_pending_proof
  <2>1. /\ lane' = [resolver_state |-> lane.resolver_state,
                    state_digest |-> lane.state_digest,
                    latest_receipt_id |-> Local]
        /\ sync' = sync /\ pending' \subseteq pending
        /\ UNCHANGED <<block, tip, database, settled>>
    BY <1>0, <1>8 DEF record_pending_proof
  <2>2. /\ Backed(Local)
        /\ lane.resolver_state = "NativeTransitionedValid" => settled # {}
    BY <1>0 DEF LaneBackedByIndex, Backed
  <2>3. QED BY <1>0, <2>1, <2>2, RowInv
<1>9. CASE UNCHANGED vars
  <2>1. /\ lane' = [resolver_state |-> lane.resolver_state,
                    state_digest |-> lane.state_digest,
                    latest_receipt_id |-> lane.latest_receipt_id]
        /\ sync' = sync /\ pending' \subseteq pending
        /\ UNCHANGED <<block, tip, database, settled>>
    BY <1>0, <1>9 DEF vars, database
  <2>2. lane.resolver_state = "NativeTransitionedValid" => settled # {}
    BY <1>0 DEF LaneBackedByIndex
  <2>3. QED BY <1>0, <2>1, <2>2, RowInv
<1>10. QED
  BY <1>1, <1>2, <1>3, <1>4, <1>5, <1>6, <1>7, <1>8, <1>9 DEF Next, Resolution

\* The invariant holds throughout.
LEMMA Invariant == Spec => []IInv
<1>1. Init => IInv
  BY InitInv
<1>2. IInv /\ [Next]_vars => IInv'
  BY StepInv
<1>3. QED BY <1>1, <1>2, PTL DEF Spec

\* Scans and recording requests finish in any order, and the index may have
\* moved on since a verdict was given: the row still only shows digests the
\* covenant has had and receipts the index accepted, or a staged one.
THEOREM LaneAlwaysBacked == Spec => []LaneBackedByIndex
<1>1. IInv => LaneBackedByIndex
  BY DEF IInv, BackedInv
<1>2. QED BY <1>1, Invariant, PTL

-----------------------------------------------------------------------------
(* Verdicts.                                                                *)

\* The chain spends the output in transaction txid, as deep as the back end says.
SpentSo(o, txid, depth) ==
  /\ depth \in Nat \ {0} /\ depth \in Deep \cup Shallow
  /\ SpentAtDepth(o, txid, depth)

\* A cached spend is on the selected chain when the cursor is, and its depth is
\* counted from the block it is in: no other cached output has its transaction.
LEMMA CachedDepth ==
  ASSUME NodeInv, CacheInv, sync.pc = "scanned", cursor \in SelectedChain(Network),
         NEW o \in DOMAIN sync.cache,
         NEW txid, txid = sync.cache[o].txid
  PROVE  /\ txid \in Txid
         /\ \E d \in Nat \ {0} :
              /\ d \in Deep \cup Shallow
              /\ SpentAtDepth(o, txid, d)
              /\ confirmation_depth(sync.cache, txid, TRUE) = d
<1> DEFINE r == sync.cache[o]
           top == tip[Network]
           d(a) == Score(top) - Score(a) + 1
<1>1. \A q \in DOMAIN sync.cache :
        sync.cache[q].spent = q /\ ScannedBelow(cursor, sync.cache[q])
  BY DEF CacheInv
<1>2. top \in DOMAIN block /\ cursor \in Anc(top)
  BY SyncAssumption DEF NodeInv, SelectedChain, Anc
<1>3. \A a \in Anc(cursor) :
        /\ a \in Anc(top) /\ a \in DOMAIN block
        /\ Score(a) \in Nat /\ Score(top) \in Nat /\ Score(a) <= Score(top)
  BY <1>2 DEF NodeInv, Tree
<1>4. \A q \in DOMAIN sync.cache :
        sync.cache[q].txid \in DOMAIN InputOf /\ q = InputOf[sync.cache[q].txid]
  <2> TAKE q \in DOMAIN sync.cache
  <2>0. PICK a \in Anc(cursor) : \E s \in block[a].spends :
          sync.cache[q] = [spent |-> s.spent, txid |-> s.txid,
                           block_daa_score |-> Score(a) + 1]
    BY <1>1 DEF ScannedBelow
  <2>1. PICK s \in block[a].spends :
          sync.cache[q] = [spent |-> s.spent, txid |-> s.txid,
                           block_daa_score |-> Score(a) + 1]
    BY <2>0
  <2>2. s.txid \in DOMAIN InputOf /\ s = [spent |-> InputOf[s.txid], txid |-> s.txid]
    BY <1>3, <2>1 DEF NodeInv
  <2>3. s.spent = InputOf[s.txid]
    BY <2>2
  <2>4. QED BY <1>1, <2>1, <2>2, <2>3
<1>4a. PICK a \in Anc(cursor) : \E s \in block[a].spends :
        r = [spent |-> s.spent, txid |-> s.txid, block_daa_score |-> Score(a) + 1]
  BY <1>1 DEF ScannedBelow
<1>5. PICK s \in block[a].spends :
        r = [spent |-> s.spent, txid |-> s.txid, block_daa_score |-> Score(a) + 1]
  BY <1>4a
<1>6. /\ txid \in Txid /\ [spent |-> o, txid |-> txid] \in block[a].spends
      /\ r.block_daa_score = Score(a) + 1
  <2>1. s.txid \in DOMAIN InputOf /\ s = [spent |-> InputOf[s.txid], txid |-> s.txid]
    BY <1>3, <1>5 DEF NodeInv
  <2>2. r.txid = s.txid /\ r.spent = s.spent /\ r.spent = o
    BY <1>1, <1>5
  <2>3. s.spent = InputOf[s.txid]
    BY <2>1
  <2>4. [spent |-> o, txid |-> txid] = s
    BY <2>1, <2>2, <2>3, ZenonT(30)
  <2>5. DOMAIN InputOf \subseteq Txid
    BY SyncAssumption
  <2>6. QED BY <1>5, <2>1, <2>2, <2>4, <2>5
<1>7. d(a) \in Nat \ {0} /\ d(a) \in Deep \cup Shallow
  <2>1. Score(a) \in Nat /\ Score(top) \in Nat /\ Score(a) <= Score(top)
    BY <1>3
  <2>2. ReorgSafetyDepth \in Nat
    BY ResolverAssumption, Zenon
  <2>3. QED BY <2>1, <2>2 DEF Deep, Shallow, Score
<1>8. SpentAtDepth(o, txid, d(a))
  BY <1>3, <1>6, Zenon DEF SpentAtDepth, SelectedChain, Anc, Score
<1>9. confirmation_depth(sync.cache, txid, TRUE) = d(a)
  <2> DEFINE seen == {q \in DOMAIN sync.cache : sync.cache[q].txid = txid}
             virtual == block[top].daa_score + 1
             accepted == sync.cache[CHOOSE q \in seen : TRUE].block_daa_score
  <2>1. seen = {o}
    BY <1>4
  <2>2. (CHOOSE q \in seen : TRUE) = o
    BY <2>1
  <2>3. accepted = Score(a) + 1 /\ virtual = Score(top) + 1
    BY <1>6, <2>2, Zenon DEF Score
  <2>4. /\ Score(a) \in Nat /\ Score(top) \in Nat /\ Score(a) <= Score(top)
        /\ confirmation_depth(sync.cache, txid, TRUE) =
             IF seen = {} \/ virtual < accepted THEN None ELSE virtual - accepted + 1
    BY <1>3 DEF confirmation_depth
  <2> HIDE DEF seen, virtual, accepted
  <2>5. virtual - accepted + 1 = d(a)
    BY <2>3, <2>4
  <2>6. seen # {} /\ ~ (virtual < accepted)
    BY <2>1, <2>3, <2>4
  <2>7. QED BY <2>4, <2>5, <2>6
<1>10. QED BY <1>6, <1>7, <1>8, <1>9, Zenon

\* The back end finds an output exactly when the tick has seen it spent.
Answered(o, backend) ==
  LET answer == backend.utxo[o]
      sp == spending_of(answer)
  IN /\ o \notin DOMAIN sync.cache => answer.kind = "none" /\ sp = None
     /\ o \in DOMAIN sync.cache =>
          /\ answer.kind = "found"
          /\ sp # None
          /\ sp.txid \in Txid
          /\ SpentSo(o, sp.txid, depth_of(backend, sp.txid))

\* So it is in every answer of the back end (get_utxo over the tick's cache).
LEMMA Answers ==
  ASSUME NodeInv, CacheInv, sync.pc = "scanned", cursor \in SelectedChain(Network),
         NEW o \in Outpoint, NEW network,
         NEW backend, backend = WrpcBackend(sync.cache, network, TRUE)
  PROVE  Answered(o, backend)
<1> DEFINE answer == backend.utxo[o]
           sp == spending_of(answer)
<1>1. answer = get_utxo(sync.cache, o)
  BY Zenon DEF WrpcBackend
<1>0. sp = spending_of(answer)
  OBVIOUS
<1>a. SUFFICES /\ o \notin DOMAIN sync.cache => answer.kind = "none" /\ sp = None
               /\ o \in DOMAIN sync.cache =>
                    /\ answer.kind = "found"
                    /\ sp # None
                    /\ sp.txid \in Txid
                    /\ SpentSo(o, sp.txid, depth_of(backend, sp.txid))
  BY Zenon DEF Answered
<1> HIDE DEF answer, sp
<1>2. CASE o \notin DOMAIN sync.cache
  BY <1>0, <1>1, <1>2 DEF get_utxo, spending_of
<1>3. CASE o \in DOMAIN sync.cache
  <2> DEFINE r == sync.cache[o]
  <2>1. /\ answer.kind = "found"
        /\ sp = [txid |-> r.txid, block_daa_score |-> r.block_daa_score]
    BY <1>0, <1>1, <1>3 DEF get_utxo, spending_of
  <2>2. r.block_daa_score \in Nat
    <3>1. PICK a \in Anc(cursor) :
            \E s : r = [spent |-> s.spent, txid |-> s.txid,
                        block_daa_score |-> Score(a) + 1]
      BY <1>3 DEF CacheInv, ScannedBelow
    <3>2. Score(a) \in Nat
      BY <3>1, Zenon DEF NodeInv, Tree, CacheInv
    <3> HIDE DEF r
    <3>3. r.block_daa_score = Score(a) + 1
      BY <3>1
    <3>4. QED BY <3>2, <3>3
  <2>3. PICK d \in Nat \ {0} :
          /\ r.txid \in Txid
          /\ d \in Deep \cup Shallow
          /\ SpentAtDepth(o, r.txid, d)
          /\ confirmation_depth(sync.cache, r.txid, TRUE) = d
    BY <1>3, CachedDepth, Zenon
  <2> HIDE DEF r
  <2>4. sp # None
    BY <2>1, <2>2, <2>3, SyncAssumption
  <2>5. sp.txid = r.txid
    BY <2>1
  <2>6. depth_of(backend, r.txid) = d
    <3>1. backend.depth[r.txid] = confirmation_depth(sync.cache, r.txid, TRUE)
      BY <2>3 DEF WrpcBackend
    <3>2. d # None
      BY SyncAssumption
    <3>3. QED BY <2>3, <3>1, <3>2 DEF depth_of
  <2>7. QED BY <1>3, <2>1, <2>3, <2>4, <2>5, <2>6, Zenon DEF SpentSo
<1>4. QED BY <1>2, <1>3

\* A depth is on one side of reorg_safety_depth.
LEMMA DepthSides ==
  ASSUME NodeInv, NEW o, NEW txid, NEW depth, SpentSo(o, txid, depth)
  PROVE  /\ depth # 0 /\ SpentAtDepth(o, txid, depth)
         /\ depth < ReorgSafetyDepth => depth \in Shallow
         /\ ~ (depth < ReorgSafetyDepth) => depth \in Deep
<1>1. depth \in Nat \ {0} /\ depth \in Deep \cup Shallow /\ SpentAtDepth(o, txid, depth)
  BY DEF SpentSo
<1>2. block[tip[Network]].daa_score \in Nat /\ ReorgSafetyDepth \in Nat
  BY SyncAssumption, ResolverAssumption DEF NodeInv, Score
<1>3. QED BY <1>1, <1>2 DEF Deep, Shallow

\* Steps 3 and 4, when the newest indexed spend was not seen.
LEMMA OpenJustified ==
  ASSUME EntryInv, NodeInv, CacheInv,
         sync.pc = "scanned", cursor \in SelectedChain(Network),
         NEW network,
         NEW backend, backend = WrpcBackend(sync.cache, network, TRUE),
         entry.spend_history # <<>> => last_spend(entry).spent \notin DOMAIN sync.cache,
         NEW v, v = resolve_open_outpoint(entry, backend),
         v.state = "NativeTransitionedValid" =>
           last_spend(entry).spent \in DOMAIN sync.cache
  PROVE  Justified(v, entry)
<1> DEFINE o == entry.open_outpoint
           answer == backend.utxo[o]
           sp == spending_of(answer)
           depth == depth_of(backend, sp.txid)
<1>1. o \in Outpoint
  BY Zenon DEF EntryInv
<1>1a. Answered(o, backend)
  BY <1>1, Answers
<1>2. /\ o \notin DOMAIN sync.cache => answer.kind = "none" /\ sp = None
      /\ o \in DOMAIN sync.cache =>
           /\ answer.kind = "found"
           /\ sp # None
           /\ sp.txid \in Txid
           /\ SpentSo(o, sp.txid, depth)
  BY <1>1a, Zenon DEF Answered
<1>2a. subject(entry) = o
  BY DEF subject
<1>3. CASE o \notin DOMAIN sync.cache
  <2>1. v = Verdict("Unknown")
    BY <1>2, <1>3, Zenon DEF resolve_open_outpoint
  <2>2. v.state = "Unknown"
    BY <2>1 DEF Verdict, NoVerdict
  <2>3. QED BY <1>2a, <1>3, <2>2 DEF Justified
<1>4. CASE o \in DOMAIN sync.cache
  <2>1. v = IF depth = 0 THEN Verdict("Unconfirmed")
            ELSE IF depth < ReorgSafetyDepth THEN Verdict("ReorgRisk")
            ELSE IF entry.spend_history = <<>>
              THEN Verdict("NativeTransitionedInvalid")
            ELSE ValidVerdict(o, o, last_spend(entry).receipt_id,
                   entry.latest_state.state_digest, depth)
    BY <1>2, <1>4, ZenonT(30) DEF resolve_open_outpoint
  <2> DEFINE t == sp.txid
  <2>2. /\ t \in Txid
        /\ depth # 0 /\ SpentAtDepth(o, t, depth)
        /\ depth < ReorgSafetyDepth => depth \in Shallow
        /\ ~ (depth < ReorgSafetyDepth) => depth \in Deep
    BY <1>2, <1>4, DepthSides, Zenon
  <2> HIDE DEF depth, t
  <2>3. CASE depth < ReorgSafetyDepth
    <3>1. v.state = "ReorgRisk"
      BY <2>1, <2>2, <2>3 DEF Verdict, NoVerdict
    <3>2. QED BY <1>2a, <2>2, <2>3, <3>1 DEF Justified
  <2>4. CASE ~ (depth < ReorgSafetyDepth) /\ entry.spend_history = <<>>
    <3>1. v.state = "NativeTransitionedInvalid"
      BY <2>1, <2>2, <2>4 DEF Verdict, NoVerdict
    <3>2. QED BY <1>2a, <2>2, <2>4, <3>1 DEF Justified
  <2>5. CASE ~ (depth < ReorgSafetyDepth) /\ entry.spend_history # <<>>
    <3> DEFINE w == ValidVerdict(o, o, last_spend(entry).receipt_id,
                      entry.latest_state.state_digest, depth)
    <3>0. w.state = "NativeTransitionedValid"
      BY DEF ValidVerdict
    <3>a. v = w
      BY <2>1, <2>2, <2>5, Zenon
    <3> HIDE DEF w
    <3>1. v.state = "NativeTransitionedValid"
      BY <3>0, <3>a, Zenon
    <3>2. last_spend(entry).spent \in DOMAIN sync.cache
      BY <3>1, Zenon
    <3>3. QED BY <2>5, <3>2, Zenon
  <2>6. QED BY <2>3, <2>4, <2>5, Zenon
<1>5. QED BY <1>3, <1>4, Zenon

\* Step 2: the tick has seen the output spent that the newest indexed spend
\* consumed.  Its continuation is always complete and it brings no migration,
\* so a spend by its own transaction is never found invalid.
LEMMA IndexedJustified ==
  ASSUME EntryInv, NodeInv, entry.spend_history # <<>>,
         NEW sp, sp.txid \in Txid, NEW depth,
         SpentSo(last_spend(entry).spent, sp.txid, depth),
         last_spend(entry).spent \in DOMAIN sync.cache,
         NEW v, v = resolve_indexed_spend(entry, sp, depth)
  PROVE  Justified(v, entry)
<1> DEFINE last == last_spend(entry)
           changed == last.previous_receipt_policy # entry.latest_state.receipt_policy
           o == last.spent
           t == sp.txid
<1>1. /\ last.continuation = Complete /\ last.policy_migration = None
      /\ last.new_receipt_policy = entry.latest_state.receipt_policy
  BY NewestSpend, Zenon DEF Recorded, EntryInv
<1>2. last.created.transaction_id = t => validate_indexed_continuation(last, t)
  BY <1>1, SyncAssumption, ConstantsAssumption
  DEF validate_indexed_continuation, validate_continuation_proof
<1>3. v = IF depth = 0 THEN Verdict("Unconfirmed")
          ELSE IF depth < ReorgSafetyDepth THEN Verdict("ReorgRisk")
          ELSE IF last.created.transaction_id # t THEN Verdict("CompetingBranch")
          ELSE IF changed THEN Verdict("PolicyMigrationRequired")
          ELSE ValidVerdict(last.spent, last.created, last.receipt_id,
                            entry.latest_state.state_digest, depth)
  BY <1>1, <1>2, Zenon DEF resolve_indexed_spend
<1>4. /\ depth # 0 /\ SpentAtDepth(o, t, depth)
      /\ depth < ReorgSafetyDepth => depth \in Shallow
      /\ ~ (depth < ReorgSafetyDepth) => depth \in Deep
  BY DepthSides
<1>5. t \in Txid /\ subject(entry) = o
  BY DEF subject
<1>6. CASE depth < ReorgSafetyDepth
  <2>1. v.state = "ReorgRisk"
    BY <1>3, <1>4, <1>6 DEF Verdict, NoVerdict
  <2>2. QED BY <1>4, <1>5, <1>6, <2>1 DEF Justified
<1>7. CASE ~ (depth < ReorgSafetyDepth) /\ last.created.transaction_id # t
  <2>1. v.state = "CompetingBranch"
    BY <1>3, <1>4, <1>7 DEF Verdict, NoVerdict
  <2>2. QED BY <1>4, <1>5, <1>7, <2>1 DEF Justified
<1>8. CASE ~ (depth < ReorgSafetyDepth) /\ last.created.transaction_id = t /\ changed
  <2>1. v.state = "PolicyMigrationRequired"
    BY <1>3, <1>4, <1>8 DEF Verdict, NoVerdict
  <2>2. QED BY <1>1, <1>4, <1>5, <1>8, <2>1 DEF Justified
<1>9. CASE ~ (depth < ReorgSafetyDepth) /\ last.created.transaction_id = t /\ ~ changed
  <2>1. /\ v.state = "NativeTransitionedValid"
        /\ v.spent = last.spent /\ v.receipt_id = last.receipt_id
    BY <1>3, <1>4, <1>9 DEF ValidVerdict
  <2>2. last.previous_receipt_policy = last.new_receipt_policy
    BY <1>1, <1>9
  <2>3. SpentAtDepth(subject(entry), last.created.transaction_id, depth) /\ depth \in Deep
    BY <1>4, <1>5, <1>9
  <2>4. QED BY <1>5, <2>1, <2>2, <2>3 DEF Justified
<1>10. QED BY <1>6, <1>7, <1>8, <1>9, Zenon

\* The verdict on the lane, when the depth query is answered.
LEMMA VerdictJustified ==
  ASSUME EntryInv, NodeInv, CacheInv,
         sync.pc = "scanned", cursor \in SelectedChain(Network),
         NEW network,
         NEW backend, backend = WrpcBackend(sync.cache, network, TRUE),
         NEW v, v = resolve_by_covenant(entry, Network, backend),
         v.state = "NativeTransitionedValid" =>
           last_spend(entry).spent \in DOMAIN sync.cache
  PROVE  Justified(v, entry)
<1>1. CASE backend.network # Network
  <2>1. v.state = "NodeDown"
    BY <1>1 DEF resolve_by_covenant, Verdict, NoVerdict
  <2>2. QED BY <2>1 DEF Justified
<1>2. CASE backend.network = Network
  <2>1. entry # None /\ entry.open_outpoint # None
    BY ConstantsAssumption, ResolverAssumption, Zenon DEF EntryInv
  <2>2. CASE entry.spend_history = <<>>
    <3>1. v = resolve_open_outpoint(entry, backend)
      BY <1>2, <2>1, <2>2, Zenon DEF resolve_by_covenant
    <3>2. QED BY <2>2, <3>1, OpenJustified, Zenon
  <2>3. CASE entry.spend_history # <<>>
    <3> DEFINE o == last_spend(entry).spent
               answer == backend.utxo[o]
               sp == spending_of(answer)
    <3>1. o \in Outpoint
      BY <2>3, NewestSpend, Zenon DEF Recorded, SpendEntry
    <3>1a. Answered(o, backend)
      BY <3>1, Answers
    <3>2. /\ o \notin DOMAIN sync.cache => answer.kind = "none" /\ sp = None
          /\ o \in DOMAIN sync.cache =>
               /\ answer.kind = "found"
               /\ sp # None
               /\ sp.txid \in Txid
               /\ SpentSo(o, sp.txid, depth_of(backend, sp.txid))
      BY <3>1a, Zenon DEF Answered
    <3>3. v = IF answer.kind = "down" THEN Verdict("NodeDown")
              ELSE IF answer.kind = "pruned" THEN Verdict("Unknown")
              ELSE IF sp # None
                THEN resolve_indexed_spend(entry, sp, depth_of(backend, sp.txid))
              ELSE resolve_open_outpoint(entry, backend)
      BY <1>2, <2>1, <2>3, Zenon DEF resolve_by_covenant
    <3>4. CASE o \in DOMAIN sync.cache
      <4>1. v = resolve_indexed_spend(entry, sp, depth_of(backend, sp.txid))
        BY <3>2, <3>3, <3>4, Zenon
      <4> HIDE DEF sp
      <4>2. QED BY <2>3, <3>2, <3>4, <4>1, IndexedJustified, ZenonT(30)
    <3>5. CASE o \notin DOMAIN sync.cache
      <4>1. v = resolve_open_outpoint(entry, backend)
        BY <3>2, <3>3, <3>5, Zenon
      <4>2. QED BY <3>5, <4>1, OpenJustified
    <3>6. QED BY <3>4, <3>5, Zenon
  <2>4. QED BY <2>2, <2>3
<1>3. QED BY <1>1, <1>2

\* Whatever happened between the tick and the query, a verdict means on the
\* selected chain what the documents say of it, when the block the tick ended at
\* is still there and the depth query is answered; but for a Valid of an indexed
\* spend that the tick has not seen.
THEOREM VerdictsMatchChain == Spec => VerdictMatchesChain
<1>1. ASSUME IInv, NEW network \in {Network, None},
             resolve_indexed_lane(network, TRUE), cursor \in SelectedChain(Network),
             sync'.verdict.state = "NativeTransitionedValid" =>
               last_spend(entry).spent \in DOMAIN sync.cache
      PROVE  Justified(sync'.verdict, entry)
  <2>1. sync = [pc |-> sync.pc, cache |-> sync.cache, verdict |-> sync.verdict]
    BY <1>1 DEF IInv, BackedInv
  <2> DEFINE v == resolve_by_covenant(entry, Network,
                    WrpcBackend(sync.cache, network, TRUE))
  <2>2. sync.pc = "scanned" /\ sync' = [sync EXCEPT !.pc = "resolved", !.verdict = v]
    BY <1>1 DEF resolve_indexed_lane
  <2>3. sync'.verdict = v
    <3> HIDE DEF v
    <3>1. QED BY <2>1, <2>2
  <2>4. v.state = "NativeTransitionedValid" =>
          last_spend(entry).spent \in DOMAIN sync.cache
    <3> HIDE DEF v
    <3>1. QED BY <1>1, <2>3
  <2>5. Justified(v, entry)
    BY <1>1, <2>2, <2>4, VerdictJustified DEF IInv
  <2>6. QED BY <2>3, <2>5
<1>2. IInv /\ [Next]_vars =>
        [\A network \in {Network, None} :
           (/\ resolve_indexed_lane(network, TRUE)
            /\ cursor \in SelectedChain(Network)
            /\ sync'.verdict.state = "NativeTransitionedValid" =>
                 last_spend(entry).spent \in DOMAIN sync.cache)
           => Justified(sync'.verdict, entry)]_vars
  BY <1>1
<1>3. QED BY <1>2, Invariant, PTL DEF Spec, VerdictMatchesChain
=============================================================================
