--------------------------- MODULE IndexerProofs ----------------------------
(***************************************************************************)
(* The indexer's invariants, for every choice of the constants.  Good says  *)
(* what holds of one entry; each operation on an entry preserves it (one    *)
(* lemma per operation), and put changes one entry of the map only.  With   *)
(* the invariant, the indexer is shown to implement LineageSpec.            *)
(*                                                                          *)
(* A rebuild implements the indexer, whatever the plan and the source: its  *)
(* first step is an open or no change, each later one an apply_spend or no  *)
(* change.  The invariants of the indexer therefore hold of rebuilt         *)
(* covenants too, what a rebuild has passed is accepted, and one that was   *)
(* cut short is completed by running its plan again.                        *)
(***************************************************************************)
EXTENDS IndexerRefinement, Rebuild, TLAPS

ReceiptsDistinct(entry) ==
  \A i, j \in 1 .. Len(entry.spend_history) :
    entry.spend_history[i].receipt_id = entry.spend_history[j].receipt_id => i = j

Good(entry) ==
  /\ entry \in IndexedCovenant
  /\ entry.open_outpoint \in Outpoint
  /\ Linked(entry)
  /\ ReceiptsInStep(entry)
  /\ ReceiptsDistinct(entry)
  /\ entry_decodes(entry)

\* The two entries differ in certificates only, as far as a lineage's points
\* can tell.
SameButCertificates(e, f) ==
  /\ Len(f.spend_history) = Len(e.spend_history)
  /\ \A i \in 1 .. Len(e.spend_history) :
       /\ f.spend_history[i].spent = e.spend_history[i].spent
       /\ f.spend_history[i].new_state_digest = e.spend_history[i].new_state_digest
       /\ f.spend_history[i].previous_receipt_policy
            = e.spend_history[i].previous_receipt_policy
  /\ f.accepted_receipts = e.accepted_receipts
  /\ f.open_outpoint = e.open_outpoint
  /\ f.latest_state = e.latest_state
  /\ f.chain_id = e.chain_id
  /\ f.lineage_id = e.lineage_id

IInv ==
  /\ DOMAIN map \subseteq Covenant
  /\ \A c \in DOMAIN map : Good(map[c]) /\ map[c].covenant_id = c

-----------------------------------------------------------------------------
(* Sequences.                                                               *)

\* A sequence is a function on the numbers up to its length.
LEMMA LenProperties ==
  ASSUME NEW S, NEW seq \in Seq(S)
  PROVE  Len(seq) \in Nat /\ DOMAIN seq = 1 .. Len(seq) /\ seq \in [1 .. Len(seq) -> S]
OBVIOUS

\* Its elements are of the set it is over.
LEMMA ElementOfSeq ==
  ASSUME NEW S, NEW seq \in Seq(S), NEW i \in 1 .. Len(seq)
  PROVE  seq[i] \in S
OBVIOUS

\* The vectors an entry is opened with.
LEMMA EmptySeq == \A S : <<>> \in Seq(S) /\ Len(<<>>) = 0
OBVIOUS

\* A function on the first n numbers is a sequence of n elements.
LEMMA FunctionIsSequence ==
  ASSUME NEW S, NEW n \in Nat, NEW f \in [1 .. n -> S]
  PROVE  f \in Seq(S) /\ Len(f) = n
OBVIOUS

\* Sequences with the same elements are equal.
LEMMA SeqEqual ==
  ASSUME NEW S, NEW s \in Seq(S), NEW t \in Seq(S), Len(s) = Len(t),
         \A i \in 1 .. Len(s) : s[i] = t[i]
  PROVE  s = t
OBVIOUS

\* Pushing to a vector.
LEMMA AppendProperties ==
  ASSUME NEW S, NEW seq \in Seq(S), NEW last \in S
  PROVE  /\ Append(seq, last) \in Seq(S) /\ Len(Append(seq, last)) = Len(seq) + 1
         /\ \A i \in 1 .. Len(seq) : Append(seq, last)[i] = seq[i]
         /\ Append(seq, last)[Len(seq) + 1] = last
OBVIOUS

\* Writing one element of a vector.
LEMMA ExceptSeq ==
  ASSUME NEW S, NEW seq \in Seq(S), NEW i \in 1 .. Len(seq), NEW e \in S
  PROVE  /\ [seq EXCEPT ![i] = e] \in Seq(S)
         /\ Len([seq EXCEPT ![i] = e]) = Len(seq)
         /\ \A j \in 1 .. Len(seq) :
              [seq EXCEPT ![i] = e][j] = IF j = i THEN e ELSE seq[j]
OBVIOUS

\* Truncating a vector.
LEMMA PrefixProperties ==
  ASSUME NEW S, NEW seq \in Seq(S), NEW k \in 0 .. Len(seq)
  PROVE  /\ SubSeq(seq, 1, k) \in Seq(S) /\ Len(SubSeq(seq, 1, k)) = k
         /\ \A i \in 1 .. k : SubSeq(seq, 1, k)[i] = seq[i]
OBVIOUS

-----------------------------------------------------------------------------
\* A freshly opened entry is good: IndexedCovenant::opened starts with empty
\* vectors and the checked initial state.
LEMMA OpenedGood ==
  ASSUME NEW covenant \in Covenant, NEW chain \in Chain, NEW lin \in Lineage,
         NEW initial \in RgkStateCommitment, NEW outpoint \in Outpoint,
         NEW daa \in Daa,
         initial.chain_id = chain, initial.covenant_id = covenant
  PROVE  /\ Good(opened(covenant, chain, lin, initial, outpoint, daa))
         /\ opened(covenant, chain, lin, initial, outpoint, daa).covenant_id
              = covenant
<1> DEFINE e == opened(covenant, chain, lin, initial, outpoint, daa)
<1>1. e \in IndexedCovenant
  BY EmptySeq DEF opened, IndexedCovenant
<1>2. Len(e.spend_history) = 0 /\ Len(e.accepted_receipts) = 0
  BY EmptySeq DEF opened
<1>3. Linked(e) /\ ReceiptsInStep(e) /\ ReceiptsDistinct(e)
  BY <1>2 DEF Linked, ReceiptsInStep, ReceiptsDistinct
<1>4. entry_decodes(e)
  <2>1. e.latest_state = initial /\ e.covenant_id = covenant /\ e.chain_id = chain
    BY DEF opened
  <2>2. QED BY <2>1, <1>2 DEF entry_decodes
<1>5. QED BY <1>1, <1>3, <1>4 DEF Good, opened

\* The record apply_spend_to_entry pushes is well typed and decodes.
LEMMA SpendEntryTyped ==
  ASSUME NEW entry \in IndexedCovenant, NEW receipt \in Receipt,
         NEW spent \in Outpoint, NEW created \in Outpoint,
         NEW new_state \in RgkStateCommitment, NEW daa \in Daa,
         NEW continuation \in ContinuationProof \cup {None},
         NEW migration \in PolicyMigrationProof \cup {None},
         proofs_admitted(entry, new_state, continuation, migration)
  PROVE  LET s == spend_entry(entry, receipt, spent, created, new_state, daa,
                              continuation, migration)
         IN s \in SpendEntry /\ spend_decodes(s)
<1> DEFINE s == spend_entry(entry, receipt, spent, created, new_state, daa,
                            continuation, migration)
<1>1. entry.latest_state \in RgkStateCommitment
  BY DEF IndexedCovenant
<1>2. s \in SpendEntry
  BY <1>1 DEF spend_entry, SpendEntry, RgkStateCommitment
<1>3. spend_decodes(s)
  BY DEF spend_decodes, proofs_admitted, spend_entry
<1>4. QED BY <1>2, <1>3

\* apply_spend_to_entry keeps an entry good: the new record consumes what was
\* open, and its receipt was not in accepted_receipts.
LEMMA SpendAppliedGood ==
  ASSUME NEW entry, Good(entry), NEW receipt \in Receipt,
         NEW spent \in Outpoint, NEW created \in Outpoint,
         NEW new_state \in RgkStateCommitment, NEW daa \in Daa,
         NEW continuation \in ContinuationProof \cup {None},
         NEW migration \in PolicyMigrationProof \cup {None},
         spend_admitted(entry, receipt, spent, new_state),
         proofs_admitted(entry, new_state, continuation, migration)
  PROVE  LET e == spend_applied(entry, receipt, spent, created, new_state, daa,
                                continuation, migration)
         IN Good(e) /\ e.covenant_id = entry.covenant_id
<1> DEFINE e == spend_applied(entry, receipt, spent, created, new_state, daa,
                              continuation, migration)
           s == spend_entry(entry, receipt, spent, created, new_state, daa,
                            continuation, migration)
           h == entry.spend_history
           r == entry.accepted_receipts
           n == Len(h)
<1>1. entry \in IndexedCovenant
  BY DEF Good
<1>2. s \in SpendEntry /\ spend_decodes(s)
  BY <1>1, SpendEntryTyped
<1>3. /\ h \in Seq(SpendEntry) /\ r \in Seq(Receipt)
      /\ n \in Nat /\ Len(r) = n
  BY <1>1, LenProperties DEF IndexedCovenant, Good, ReceiptsInStep
<1>4. /\ e.spend_history = Append(h, s)
      /\ e.accepted_receipts = Append(r, receipt)
      /\ e.open_outpoint = created
      /\ e.latest_state = new_state
      /\ e.last_update_daa_score = daa
      /\ e.covenant_id = entry.covenant_id
      /\ e.chain_id = entry.chain_id
      /\ e.lineage_id = entry.lineage_id
  BY <1>1 DEF spend_applied, IndexedCovenant
<1>5. e \in IndexedCovenant
  <2>1. Append(h, s) \in Seq(SpendEntry) /\ Append(r, receipt) \in Seq(Receipt)
    BY <1>2, <1>3, AppendProperties
  <2>2. QED BY <1>1, <2>1, Zenon DEF spend_applied, IndexedCovenant
<1>6. /\ Len(Append(h, s)) = n + 1
      /\ \A i \in 1 .. n : Append(h, s)[i] = h[i]
      /\ Append(h, s)[n + 1] = s
  BY <1>2, <1>3, AppendProperties
<1>7. /\ Len(Append(r, receipt)) = n + 1
      /\ \A i \in 1 .. n : Append(r, receipt)[i] = r[i]
      /\ Append(r, receipt)[n + 1] = receipt
  BY <1>3, AppendProperties
<1>8. /\ s.spent = spent /\ s.created = created /\ s.receipt_id = receipt
      /\ s.new_state_digest = entry.latest_state.state_digest
      /\ s.resulting_state_digest = new_state.state_digest
      /\ s.previous_receipt_policy = entry.latest_state.receipt_policy
      /\ s.new_receipt_policy = new_state.receipt_policy
  BY DEF spend_entry
<1>9. Linked(e)
  <2>1. n > 0 => /\ h[n].created = spent
                 /\ h[n].resulting_state_digest = entry.latest_state.state_digest
                 /\ h[n].new_receipt_policy = entry.latest_state.receipt_policy
    BY <1>3 DEF Good, Linked, spend_admitted
  <2>2. \A i \in 1 .. n - 1 :
          /\ h[i].created = h[i + 1].spent
          /\ h[i].resulting_state_digest = h[i + 1].new_state_digest
          /\ h[i].new_receipt_policy = h[i + 1].previous_receipt_policy
    BY DEF Good, Linked
  <2> DEFINE g == Append(h, s)
  <2>3. ASSUME NEW i \in 1 .. n
        PROVE  /\ g[i].created = g[i + 1].spent
               /\ g[i].resulting_state_digest = g[i + 1].new_state_digest
               /\ g[i].new_receipt_policy = g[i + 1].previous_receipt_policy
    <3>1. g[i] = h[i]
      BY <1>6
    <3>2. CASE i = n
      <4> HIDE DEF s, h, g
      <4>1. QED BY <3>1, <3>2, <2>1, <1>3, <1>6, <1>8 DEF g
    <3>3. CASE i # n
      <4>1. i \in 1 .. n - 1 /\ i + 1 \in 1 .. n
        BY <3>3, <1>3
      <4>2. g[i + 1] = h[i + 1]
        BY <4>1, <1>6
      <4> HIDE DEF s, h, g
      <4>3. QED BY <3>1, <4>1, <4>2, <2>2
    <3>4. QED BY <3>2, <3>3
  <2>4. /\ Len(g) = n + 1 /\ g[Len(g)] = s
        /\ e.spend_history = g
    BY <1>3, <1>4, <1>6
  <2> HIDE DEF e, s, h, g, n
  <2>5. (n + 1) - 1 = n
    BY <1>3
  <2>6. QED
    BY <2>3, <2>4, <2>5, <1>4, <1>8, Zenon DEF Linked
<1>10. ReceiptsInStep(e)
  <2>1. \A i \in 1 .. n : r[i] = h[i].receipt_id
    BY DEF Good, ReceiptsInStep
  <2> HIDE DEF e, s, h, r
  <2>2. QED BY <2>1, <1>3, <1>4, <1>6, <1>7, <1>8 DEF ReceiptsInStep
<1>11. ReceiptsDistinct(e)
  <2>1. \A i \in 1 .. n : h[i].receipt_id # receipt
    BY <1>3, LenProperties DEF Good, ReceiptsInStep, spend_admitted, has_receipt
  <2>2. \A i, j \in 1 .. n : h[i].receipt_id = h[j].receipt_id => i = j
    BY DEF Good, ReceiptsDistinct
  <2> HIDE DEF e, s, h, r
  <2>3. QED BY <2>1, <2>2, <1>3, <1>4, <1>6, <1>8 DEF ReceiptsDistinct
<1>12. entry_decodes(e)
  <2>1. \A i \in 1 .. n : spend_decodes(h[i])
    BY DEF Good, entry_decodes
  <2>2. new_state.covenant_id = entry.covenant_id /\ new_state.chain_id = entry.chain_id
    BY DEF spend_admitted
  <2> HIDE DEF e, s, h, r
  <2>3. QED BY <2>1, <2>2, <1>2, <1>3, <1>4, <1>6 DEF entry_decodes
<1>13. QED BY <1>4, <1>5, <1>9, <1>10, <1>11, <1>12 DEF Good

\* rollback keeps an entry good: the fields taken from the last popped record
\* are the ones the surviving records lead up to.
LEMMA RolledBackGood ==
  ASSUME NEW entry, Good(entry), NEW depth \in Nat,
         depth > 0, depth <= Len(entry.spend_history)
  PROVE  /\ Good(rolled_back(entry, depth))
         /\ rolled_back(entry, depth).covenant_id = entry.covenant_id
<1> DEFINE e == rolled_back(entry, depth)
           h == entry.spend_history
           r == entry.accepted_receipts
           k == Len(h) - depth
           last == h[k + 1]
<1>1. entry \in IndexedCovenant
  BY DEF Good
<1>2. /\ h \in Seq(SpendEntry) /\ r \in Seq(Receipt)
      /\ Len(h) \in Nat /\ Len(r) = Len(h)
      /\ k \in Nat /\ k < Len(h)
      /\ \A i \in 1 .. Len(h) : h[i] \in SpendEntry /\ r[i] \in Receipt
  BY <1>1, LenProperties, ElementOfSeq DEF IndexedCovenant, Good, ReceiptsInStep
<1>3. last \in SpendEntry
  BY <1>2
<1>4. /\ e.spend_history = SubSeq(h, 1, k)
      /\ e.accepted_receipts = SubSeq(r, 1, k)
      /\ e.open_outpoint = last.spent
      /\ e.latest_state = [entry.latest_state EXCEPT
             !.state_digest = last.new_state_digest,
             !.receipt_policy = last.previous_receipt_policy]
      /\ e.last_update_daa_score = saturating_sub_one(last.daa_score)
      /\ e.covenant_id = entry.covenant_id
      /\ e.chain_id = entry.chain_id
      /\ e.lineage_id = entry.lineage_id
  BY <1>1 DEF rolled_back, IndexedCovenant, RgkStateCommitment
<1>5. /\ SubSeq(h, 1, k) \in Seq(SpendEntry)
      /\ Len(SubSeq(h, 1, k)) = k
      /\ \A i \in 1 .. k : SubSeq(h, 1, k)[i] = h[i]
  BY <1>2, PrefixProperties
<1>6. /\ SubSeq(r, 1, k) \in Seq(Receipt)
      /\ Len(SubSeq(r, 1, k)) = k
      /\ \A i \in 1 .. k : SubSeq(r, 1, k)[i] = r[i]
  BY <1>2, PrefixProperties
<1>7. e.latest_state \in RgkStateCommitment
      /\ e.latest_state.state_digest = last.new_state_digest
      /\ e.latest_state.receipt_policy = last.previous_receipt_policy
      /\ e.latest_state.covenant_id = entry.latest_state.covenant_id
      /\ e.latest_state.chain_id = entry.latest_state.chain_id
  BY <1>1, <1>3, <1>4, Zenon DEF IndexedCovenant, RgkStateCommitment, SpendEntry
<1>8. e \in IndexedCovenant
  <2>1. saturating_sub_one(last.daa_score) \in Daa
    BY <1>3, ConstantsAssumption DEF saturating_sub_one, SpendEntry, Daa
  <2>2. last.spent \in Outpoint
    BY <1>3 DEF SpendEntry
  <2>3. QED
    BY <1>1, <1>3, <1>5, <1>6, <2>1, <2>2, Zenon
       DEF rolled_back, IndexedCovenant, RgkStateCommitment, SpendEntry
<1>9. Linked(e)
  <2>1. \A i \in 1 .. Len(h) - 1 :
          /\ h[i].created = h[i + 1].spent
          /\ h[i].resulting_state_digest = h[i + 1].new_state_digest
          /\ h[i].new_receipt_policy = h[i + 1].previous_receipt_policy
    BY DEF Good, Linked
  <2> DEFINE g == SubSeq(h, 1, k)
  <2>2. ASSUME NEW i \in 1 .. k
        PROVE  /\ g[i] = h[i]
               /\ h[i].created = h[i + 1].spent
               /\ h[i].resulting_state_digest = h[i + 1].new_state_digest
               /\ h[i].new_receipt_policy = h[i + 1].previous_receipt_policy
    <3>1. i \in 1 .. Len(h) - 1
      BY <1>2
    <3>2. QED BY <3>1, <2>1, <1>5, Zenon
  <2>3. ASSUME NEW i \in 1 .. k - 1
        PROVE  /\ g[i].created = g[i + 1].spent
               /\ g[i].resulting_state_digest = g[i + 1].new_state_digest
               /\ g[i].new_receipt_policy = g[i + 1].previous_receipt_policy
    <3>1. i \in 1 .. k /\ i + 1 \in 1 .. k
      BY <1>2
    <3> HIDE DEF g, h
    <3>2. QED BY <3>1, <2>2, Zenon
  <2>4. k > 0 => /\ g[k].created = last.spent
                 /\ g[k].resulting_state_digest = last.new_state_digest
                 /\ g[k].new_receipt_policy = last.previous_receipt_policy
    <3>1. k > 0 => k \in 1 .. k
      BY <1>2
    <3> HIDE DEF g, h, k
    <3>2. QED BY <3>1, <2>2
  <2>5. Len(g) = k /\ e.spend_history = g
    BY <1>4, <1>5
  <2> HIDE DEF e, h, g, k, last
  <2>6. QED BY <2>3, <2>4, <2>5, <1>4, <1>7, Zenon DEF Linked
<1>10. ReceiptsInStep(e)
  <2>1. \A i \in 1 .. Len(h) : r[i] = h[i].receipt_id
    BY DEF Good, ReceiptsInStep
  <2> HIDE DEF e, h, r
  <2>2. QED BY <2>1, <1>2, <1>4, <1>5, <1>6 DEF ReceiptsInStep
<1>11. ReceiptsDistinct(e)
  <2>1. \A i, j \in 1 .. Len(h) : h[i].receipt_id = h[j].receipt_id => i = j
    BY DEF Good, ReceiptsDistinct
  <2> HIDE DEF e, h, r
  <2>2. QED BY <2>1, <1>2, <1>4, <1>5 DEF ReceiptsDistinct
<1>12. entry_decodes(e)
  <2>1. /\ \A i \in 1 .. Len(h) : spend_decodes(h[i])
        /\ entry.latest_state.covenant_id = entry.covenant_id
        /\ entry.latest_state.chain_id = entry.chain_id
    BY DEF Good, entry_decodes
  <2> HIDE DEF e, h, r
  <2>2. QED BY <2>1, <1>2, <1>4, <1>5, <1>7 DEF entry_decodes
<1>13. last.spent \in Outpoint
  BY <1>3 DEF SpendEntry
<1>14. QED BY <1>4, <1>8, <1>9, <1>10, <1>11, <1>12, <1>13 DEF Good

\* Attaching a validated certificate to one spend keeps an entry good: no
\* field the other records are linked by changes.
LEMMA CertifiedGood ==
  ASSUME NEW entry, Good(entry), NEW at \in 1 .. Len(entry.spend_history),
         NEW certificate \in AllocationAuditCertificateRecord,
         validate_allocation_audit_certificate_record(certificate)
  PROVE  /\ Good(certified(entry, at, certificate))
         /\ certified(entry, at, certificate).covenant_id = entry.covenant_id
         /\ SameButCertificates(entry, certified(entry, at, certificate))
<1> DEFINE e == certified(entry, at, certificate)
           h == entry.spend_history
           s == [h[at] EXCEPT !.allocation_audit_certificate = certificate]
           g == [h EXCEPT ![at] = s]
<1>1. entry \in IndexedCovenant
  BY DEF Good
<1>2. h \in Seq(SpendEntry) /\ Len(h) \in Nat /\ h[at] \in SpendEntry
  BY <1>1, LenProperties, ElementOfSeq DEF IndexedCovenant
<1>3. /\ s \in SpendEntry
      /\ s.allocation_audit_certificate = certificate
      /\ s.spent = h[at].spent /\ s.created = h[at].created
      /\ s.new_state_digest = h[at].new_state_digest
      /\ s.resulting_state_digest = h[at].resulting_state_digest
      /\ s.previous_receipt_policy = h[at].previous_receipt_policy
      /\ s.new_receipt_policy = h[at].new_receipt_policy
      /\ s.receipt_id = h[at].receipt_id
      /\ s.continuation = h[at].continuation
      /\ s.policy_migration = h[at].policy_migration
  BY <1>2, Zenon DEF SpendEntry
<1>4. /\ g \in Seq(SpendEntry) /\ Len(g) = Len(h)
      /\ \A i \in 1 .. Len(h) : g[i] = IF i = at THEN s ELSE h[i]
  BY <1>2, <1>3, ExceptSeq
<1>5. /\ e.spend_history = g
      /\ e.accepted_receipts = entry.accepted_receipts
      /\ e.open_outpoint = entry.open_outpoint
      /\ e.latest_state = entry.latest_state
      /\ e.covenant_id = entry.covenant_id
      /\ e.chain_id = entry.chain_id
      /\ e.lineage_id = entry.lineage_id
  BY <1>1 DEF certified, IndexedCovenant
<1>6. e \in IndexedCovenant
  BY <1>1, <1>4, Zenon DEF certified, IndexedCovenant
<1>7. \A i \in 1 .. Len(h) :
        /\ g[i].spent = h[i].spent /\ g[i].created = h[i].created
        /\ g[i].new_state_digest = h[i].new_state_digest
        /\ g[i].resulting_state_digest = h[i].resulting_state_digest
        /\ g[i].previous_receipt_policy = h[i].previous_receipt_policy
        /\ g[i].new_receipt_policy = h[i].new_receipt_policy
        /\ g[i].receipt_id = h[i].receipt_id
        /\ g[i].continuation = h[i].continuation
        /\ g[i].policy_migration = h[i].policy_migration
  <2> HIDE DEF g, s
  <2>1. QED BY <1>3, <1>4
<1>8. SameButCertificates(entry, e)
  <2> HIDE DEF e, g
  <2>1. QED BY <1>4, <1>5, <1>7 DEF SameButCertificates
<1>9. Linked(e)
  <2>1. \A i \in 1 .. Len(h) - 1 : i \in 1 .. Len(h) /\ i + 1 \in 1 .. Len(h)
    BY <1>2
  <2>2. Len(h) > 0 => Len(h) \in 1 .. Len(h)
    BY <1>2
  <2>3. Linked(entry)
    BY DEF Good
  <2>4. ASSUME NEW i \in 1 .. Len(h) - 1
        PROVE  /\ g[i].created = g[i + 1].spent
               /\ g[i].resulting_state_digest = g[i + 1].new_state_digest
               /\ g[i].new_receipt_policy = g[i + 1].previous_receipt_policy
    <3>1. i \in 1 .. Len(h) /\ i + 1 \in 1 .. Len(h)
      BY <2>1
    <3>2. /\ h[i].created = h[i + 1].spent
          /\ h[i].resulting_state_digest = h[i + 1].new_state_digest
          /\ h[i].new_receipt_policy = h[i + 1].previous_receipt_policy
      BY <2>3, Zenon DEF Linked
    <3> HIDE DEF g, h
    <3>3. QED BY <3>1, <3>2, <1>7
  <2>5. Len(h) > 0 =>
          /\ g[Len(h)].created = e.open_outpoint
          /\ g[Len(h)].resulting_state_digest = e.latest_state.state_digest
          /\ g[Len(h)].new_receipt_policy = e.latest_state.receipt_policy
    <3> HIDE DEF e, g
    <3>1. QED BY <2>2, <2>3, <1>5, <1>7 DEF Linked
  <2> HIDE DEF e, g, h
  <2>6. QED BY <2>4, <2>5, <1>4, <1>5 DEF Linked
<1>10. ReceiptsInStep(e) /\ ReceiptsDistinct(e)
  <2> HIDE DEF e, g
  <2>1. QED BY <1>4, <1>5, <1>7 DEF Good, ReceiptsInStep, ReceiptsDistinct
<1>11. entry_decodes(e)
  <2>1. \A i \in 1 .. Len(h) : spend_decodes(g[i])
    <3> SUFFICES ASSUME NEW i \in 1 .. Len(h)
                 PROVE  spend_decodes(g[i])
      OBVIOUS
    <3>1. spend_decodes(h[i])
      BY Zenon DEF Good, entry_decodes
    <3>2. CASE i = at
      <4>1. g[i] = s
        BY <3>2, <1>4
      <4> HIDE DEF g, s
      <4>2. QED BY <3>1, <3>2, <4>1, <1>3 DEF spend_decodes
    <3>3. CASE i # at
      BY <3>1, <3>3, <1>4
    <3>4. QED BY <3>2, <3>3
  <2>2. /\ entry.latest_state.covenant_id = entry.covenant_id
        /\ entry.latest_state.chain_id = entry.chain_id
    BY DEF Good, entry_decodes
  <2> HIDE DEF e, g
  <2>3. QED BY <2>1, <2>2, <1>4, <1>5 DEF entry_decodes
<1>12. entry.open_outpoint \in Outpoint
  BY DEF Good
<1>13. QED BY <1>5, <1>6, <1>8, <1>9, <1>10, <1>11, <1>12 DEF Good

-----------------------------------------------------------------------------
\* What every step does to the map: one covenant gets a good entry that keeps
\* the identity of the lineage it replaces.
Puts(c, e) ==
  /\ Good(e)
  /\ e.covenant_id = c
  /\ put(c, e)
  /\ c \in DOMAIN map =>
       /\ e.chain_id = map[c].chain_id
       /\ e.lineage_id = map[c].lineage_id
       /\ e.latest_state.asset_id = map[c].latest_state.asset_id

\* A spend accepted by one of the three apply_spend calls.
Spends(c, receipt, spent, created, new_state, daa, continuation, migration) ==
  /\ c \in DOMAIN map
  /\ apply_spend_to_entry(c, receipt, spent, created, new_state, daa,
                          continuation, migration)

\* The three apply_spend actions differ only in the proofs they pass.
LEMMA SpendActions ==
  ASSUME ApplySpend \/ ApplySpendWithContinuation \/ ApplySpendWithMigration
  PROVE  \E c \in Covenant, receipt \in Receipt, spent \in Outpoint,
            created \in Outpoint, new_state \in RgkStateCommitment, daa \in Daa,
            continuation \in ContinuationProof \cup {None},
            migration \in PolicyMigrationProof \cup {None} :
           Spends(c, receipt, spent, created, new_state, daa,
                  continuation, migration)
<1>1. CASE ApplySpend
  BY <1>1, Zenon DEF ApplySpend, apply_spend, Spends
<1>2. CASE ApplySpendWithContinuation
  BY <1>2, InputsAssumption
     DEF ApplySpendWithContinuation, apply_spend_with_continuation, Spends
<1>3. CASE ApplySpendWithMigration
  BY <1>3, InputsAssumption, Zenon DEF ApplySpendWithMigration,
         apply_spend_with_continuation_and_policy_migration, Spends
<1>4. QED BY <1>1, <1>2, <1>3

\* An accepted spend puts a good entry of the same lineage.
LEMMA SpendPuts ==
  ASSUME IInv, NEW c \in Covenant, NEW receipt \in Receipt,
         NEW spent \in Outpoint, NEW created \in Outpoint,
         NEW new_state \in RgkStateCommitment, NEW daa \in Daa,
         NEW continuation \in ContinuationProof \cup {None},
         NEW migration \in PolicyMigrationProof \cup {None},
         Spends(c, receipt, spent, created, new_state, daa, continuation,
                migration)
  PROVE  Puts(c, spend_applied(map[c], receipt, spent, created, new_state, daa,
                               continuation, migration))
<1> DEFINE e == spend_applied(map[c], receipt, spent, created, new_state, daa,
                              continuation, migration)
<1>1. /\ c \in DOMAIN map /\ put(c, e)
      /\ spend_admitted(map[c], receipt, spent, new_state)
      /\ proofs_admitted(map[c], new_state, continuation, migration)
  BY DEF Spends, apply_spend_to_entry
<1>2. Good(map[c]) /\ map[c].covenant_id = c
  BY <1>1, Zenon DEF IInv
<1>3. Good(e) /\ e.covenant_id = c
  BY <1>1, <1>2, SpendAppliedGood
<1>4. /\ e.chain_id = map[c].chain_id /\ e.lineage_id = map[c].lineage_id
      /\ e.latest_state = new_state
  BY <1>2, Zenon DEF spend_applied, Good, IndexedCovenant
<1>5. new_state.asset_id = map[c].latest_state.asset_id
  BY <1>1, Zenon DEF spend_admitted
<1>6. QED BY <1>1, <1>3, <1>4, <1>5 DEF Puts

\* A rollback puts a good entry of the same lineage.
LEMMA RollbackPuts ==
  ASSUME IInv, NEW c \in Covenant, NEW depth \in Nat, rollback(c, depth)
  PROVE  Puts(c, rolled_back(map[c], depth))
<1> DEFINE e == rolled_back(map[c], depth)
<1>1. /\ c \in DOMAIN map /\ put(c, e)
      /\ depth > 0 /\ depth <= Len(map[c].spend_history)
  BY DEF rollback
<1>2. Good(map[c]) /\ map[c].covenant_id = c
  BY <1>1 DEF IInv
<1>3. Good(e) /\ e.covenant_id = c
  BY <1>1, <1>2, RolledBackGood
<1>4. /\ e.chain_id = map[c].chain_id /\ e.lineage_id = map[c].lineage_id
      /\ e.latest_state.asset_id = map[c].latest_state.asset_id
  BY <1>2, Zenon DEF rolled_back, Good, IndexedCovenant, RgkStateCommitment
<1>5. QED BY <1>1, <1>3, <1>4 DEF Puts

\* Attaching a certificate to a spend that has none changes nothing else of
\* the history.
LEMMA CertifiedSurvives ==
  ASSUME NEW entry, Good(entry), NEW at \in 1 .. Len(entry.spend_history),
         NEW certificate \in AllocationAuditCertificateRecord,
         entry.spend_history[at].allocation_audit_certificate = None
  PROVE  SpendsSurvive(entry.spend_history,
                       certified(entry, at, certificate).spend_history)
<1> DEFINE h == entry.spend_history
           s == [h[at] EXCEPT !.allocation_audit_certificate = certificate]
           g == [h EXCEPT ![at] = s]
<1>1. h \in Seq(SpendEntry) /\ h[at] \in SpendEntry
  BY ElementOfSeq DEF Good, IndexedCovenant
<1>2. SpendFacts(s) = SpendFacts(h[at])
  BY <1>1, Zenon DEF SpendFacts, SpendEntry
<1>3. s \in SpendEntry
  BY <1>1 DEF SpendEntry
<1>4. \A i \in 1 .. Len(h) : g[i] = IF i = at THEN s ELSE h[i]
  BY <1>1, <1>3, ExceptSeq
<1>5. certified(entry, at, certificate).spend_history = g
  BY Zenon DEF Good, certified, IndexedCovenant
<1> HIDE DEF s, g
<1>6. QED BY <1>2, <1>4, <1>5, Zenon DEF SpendsSurvive

\* Attaching a certificate puts a good entry of the same lineage.
LEMMA CertificatePuts ==
  ASSUME IInv, RecordCertificate
  PROVE  \E c \in Covenant : \E e :
           /\ c \in DOMAIN map
           /\ Puts(c, e)
           /\ SameButCertificates(map[c], e)
           /\ SpendsSurvive(map[c].spend_history, e.spend_history)
<1>1. PICK c \in Covenant, receipt \in Receipt, certificate \in CertificateInput :
        record_allocation_audit_certificate(c, receipt, certificate)
  BY DEF RecordCertificate
<1> DEFINE h == map[c].spend_history
           at == first_with_receipt(h, receipt)
           e == certified(map[c], at, certificate)
<1>2. /\ c \in DOMAIN map /\ put(c, e)
      /\ validate_allocation_audit_certificate_record(certificate)
      /\ \E i \in DOMAIN h : h[i].receipt_id = receipt
      /\ h[at].allocation_audit_certificate = None
  BY <1>1 DEF record_allocation_audit_certificate
<1>3. Good(map[c]) /\ map[c].covenant_id = c
  BY <1>2 DEF IInv
<1>4. at \in 1 .. Len(h)
  <2>1. h \in Seq(SpendEntry) /\ DOMAIN h = 1 .. Len(h) /\ Len(h) \in Nat
    BY <1>3, LenProperties, Zenon DEF Good, IndexedCovenant
  <2>2. \A i, j \in DOMAIN h : h[i].receipt_id = h[j].receipt_id => i = j
    BY <1>3, <2>1, Zenon DEF Good, ReceiptsDistinct
  <2>3. PICK i \in DOMAIN h : h[i].receipt_id = receipt
    BY <1>2
  <2>4. \A j \in DOMAIN h : h[j].receipt_id = receipt => i <= j
    BY <2>1, <2>2, <2>3
  <2>5. at \in DOMAIN h
    <3> HIDE DEF h
    <3>1. QED BY <2>3, <2>4 DEF first_with_receipt
  <2>6. QED BY <2>1, <2>5, Zenon
<1>5. certificate \in AllocationAuditCertificateRecord
  BY InputsAssumption
<1>6. Good(e) /\ e.covenant_id = c /\ SameButCertificates(map[c], e)
  BY <1>2, <1>3, <1>4, <1>5, CertifiedGood, Zenon
<1>7. Puts(c, e)
  BY <1>2, <1>6, Zenon DEF Puts, SameButCertificates
<1>8. SpendsSurvive(h, e.spend_history)
  BY <1>2, <1>3, <1>4, <1>5, CertifiedSurvives, Zenon
<1>9. QED BY <1>2, <1>6, <1>7, <1>8

\* Opening puts a good entry under a covenant that had none.
LEMMA OpenPuts ==
  ASSUME NEW chain \in Chain, NEW c \in Covenant, NEW lin \in Lineage,
         NEW initial \in RgkStateCommitment, NEW outpoint \in Outpoint,
         NEW daa \in Daa, open(chain, c, lin, initial, outpoint, daa)
  PROVE  /\ c \notin DOMAIN map
         /\ Puts(c, opened(c, chain, lin, initial, outpoint, daa))
BY OpenedGood DEF open, Puts

\* Every step puts one good entry.
LEMMA NextPuts ==
  ASSUME IInv, Next
  PROVE  \E c \in Covenant : \E e : Puts(c, e)
<1>1. CASE Open
  BY <1>1, OpenPuts DEF Open
<1>2. CASE ApplySpend \/ ApplySpendWithContinuation \/ ApplySpendWithMigration
  BY <1>2, SpendActions, SpendPuts
<1>3. CASE Rollback
  <2>1. PICK c \in Covenant, depth \in 1 .. MaxHistory : rollback(c, depth)
    BY <1>3 DEF Rollback
  <2>2. depth \in Nat
    BY InputsAssumption
  <2>3. QED BY <2>1, <2>2, RollbackPuts
<1>4. CASE RecordCertificate
  BY <1>4, CertificatePuts
<1>5. QED BY <1>1, <1>2, <1>3, <1>4 DEF Next

\* Putting one good entry under its own covenant id keeps the invariant.
LEMMA PutsInv ==
  ASSUME IInv, NEW c \in Covenant, NEW e, Puts(c, e)
  PROVE  IInv'
<1>1. /\ DOMAIN map' = DOMAIN map \cup {c}
      /\ \A d \in DOMAIN map' : map'[d] = IF d = c THEN e ELSE map[d]
  BY DEF Puts, put
<1>2. Good(e) /\ e.covenant_id = c
  BY DEF Puts
<1>3. DOMAIN map' \subseteq Covenant
  BY <1>1 DEF IInv
<1>4. ASSUME NEW d \in DOMAIN map'
      PROVE  Good(map'[d]) /\ map'[d].covenant_id = d
  BY <1>1, <1>2 DEF IInv
<1>5. QED BY <1>3, <1>4 DEF IInv

\* IInv is inductive.
LEMMA Inductive == Spec => []IInv
<1>1. Init => IInv
  BY DEF Init, IInv
<1>2. IInv /\ [Next]_vars => IInv'
  <2> SUFFICES ASSUME IInv, [Next]_vars
               PROVE  IInv'
    OBVIOUS
  <2>1. CASE Next
    BY <2>1, NextPuts, PutsInv
  <2>2. CASE UNCHANGED vars
    BY <2>2 DEF vars, IInv
  <2>3. QED BY <2>1, <2>2
<1>3. QED BY <1>1, <1>2, PTL DEF Spec

-----------------------------------------------------------------------------
\* Every entry the indexer ever holds has the shape its fields are declared
\* with; in particular rollback's DAA arithmetic stays in range.
THEOREM TypeCorrect == Spec => []TypeOK
<1>1. IInv => TypeOK
  BY DEF IInv, Good, TypeOK
<1>2. QED BY <1>1, Inductive, PTL

\* Outpoints, digests and policies of neighbouring spends agree after every
\* sequence of opens, spends, certificates and rollbacks, for any number of
\* covenants and histories of any length.
THEOREM LinkedAlways == Spec => []HistoryLinked
<1>1. IInv => HistoryLinked
  BY Zenon DEF IInv, Good, HistoryLinked
<1>2. QED BY <1>1, Inductive, PTL

\* Replay protection: no receipt is accepted twice on one lineage.
THEOREM ReplayProtection == Spec => []NoReceiptTwice
<1>1. IInv => NoReceiptTwice
  BY DEF IInv, Good, ReceiptsDistinct, NoReceiptTwice
<1>2. QED BY <1>1, Inductive, PTL

\* Whatever the operations stored, the sled back end can read back.
THEOREM StoredEntriesDecode == Spec => []EveryEntryDecodes
<1>1. IInv => EveryEntryDecodes
  BY DEF IInv, Good, EveryEntryDecodes
<1>2. QED BY <1>1, Inductive, PTL

\* No operation changes the chain, covenant, lineage id or asset of a lineage.
LEMMA StepKeepsIdentity ==
  ASSUME IInv, Next
  PROVE  IdentityKept
<1> SUFFICES ASSUME NEW c \in DOMAIN map
             PROVE  /\ c \in DOMAIN map'
                    /\ map'[c].covenant_id = c
                    /\ map'[c].chain_id = map[c].chain_id
                    /\ map'[c].lineage_id = map[c].lineage_id
                    /\ map'[c].latest_state.asset_id
                         = map[c].latest_state.asset_id
  BY DEF IdentityKept
<1>0. PICK d \in Covenant : \E e : Puts(d, e)
  BY NextPuts
<1>1. PICK e : Puts(d, e)
  BY <1>0
<1>2. /\ c \in DOMAIN map'
      /\ map'[c] = IF c = d THEN e ELSE map[c]
  BY <1>1 DEF Puts, put
<1>3. CASE d = c
  BY <1>1, <1>2, <1>3 DEF Puts
<1>4. CASE d # c
  BY <1>2, <1>4 DEF IInv
<1>5. QED BY <1>3, <1>4

\* Chain, covenant, lineage id and asset of an indexed lineage never change.
THEOREM IdentityFixed == Spec => LineageIdentityFixed
<1>1. IInv /\ [Next]_vars => [IdentityKept]_vars
  BY StepKeepsIdentity
<1>2. QED BY <1>1, Inductive, PTL DEF Spec, LineageIdentityFixed

\* What each operation leaves of a history is what was there.
LEMMA StepKeepsHistory ==
  ASSUME IInv, Next
  PROVE  HistoryKept
<1>1. ASSUME NEW d \in Covenant, NEW e, put(d, e),
             d \in DOMAIN map =>
               SpendsSurvive(map[d].spend_history, e.spend_history)
      PROVE  HistoryKept
  <2>1. \A c \in DOMAIN map : map'[c] = IF c = d THEN e ELSE map[c]
    BY <1>1 DEF put
  <2>2. \A h : SpendsSurvive(h, h)
    BY DEF SpendsSurvive
  <2>3. QED BY <1>1, <2>1, <2>2 DEF HistoryKept
<1>2. CASE Open
  BY <1>1, <1>2 DEF Open, open
<1>3. CASE ApplySpend \/ ApplySpendWithContinuation \/ ApplySpendWithMigration
  <2>1. PICK c \in Covenant, receipt \in Receipt, spent \in Outpoint,
             created \in Outpoint, new_state \in RgkStateCommitment, daa \in Daa,
             continuation \in ContinuationProof \cup {None},
             migration \in PolicyMigrationProof \cup {None} :
          Spends(c, receipt, spent, created, new_state, daa, continuation, migration)
    BY <1>3, SpendActions
  <2> DEFINE e == spend_applied(map[c], receipt, spent, created, new_state, daa,
                                continuation, migration)
             h == map[c].spend_history
             x == spend_entry(map[c], receipt, spent, created, new_state, daa,
                              continuation, migration)
  <2>2. c \in DOMAIN map /\ put(c, e)
    BY <2>1 DEF Spends, apply_spend_to_entry
  <2>3. h \in Seq(SpendEntry) /\ e.spend_history = Append(h, x)
    BY <2>2, Zenon DEF IInv, Good, IndexedCovenant, spend_applied
  <2>4. \A i \in 1 .. Len(h) : Append(h, x)[i] = h[i]
    BY <2>3
  <2> HIDE DEF e, h, x
  <2>5. SpendsSurvive(h, e.spend_history)
    BY <2>3, <2>4 DEF SpendsSurvive
  <2>6. QED BY <1>1, <2>2, <2>5 DEF h
<1>4. CASE Rollback
  <2>1. PICK c \in Covenant, depth \in 1 .. MaxHistory : rollback(c, depth)
    BY <1>4 DEF Rollback
  <2> DEFINE e == rolled_back(map[c], depth)
             h == map[c].spend_history
             kept == Len(h) - depth
  <2>2. c \in DOMAIN map /\ put(c, e) /\ depth <= Len(h) /\ depth \in Nat
    BY <2>1, InputsAssumption DEF rollback
  <2>3. h \in Seq(SpendEntry) /\ e.spend_history = SubSeq(h, 1, kept)
    BY <2>2 DEF IInv, Good, IndexedCovenant, rolled_back
  <2>4. Len(h) \in Nat /\ kept \in 0 .. Len(h)
    BY <2>2, <2>3
  <2>5. /\ Len(SubSeq(h, 1, kept)) = kept
        /\ \A i \in 1 .. kept : SubSeq(h, 1, kept)[i] = h[i]
    <3> HIDE DEF h, kept
    <3>1. QED BY <2>3, <2>4
  <2> HIDE DEF e, h, kept
  <2>6. SpendsSurvive(h, e.spend_history)
    BY <2>3, <2>4, <2>5 DEF SpendsSurvive
  <2>7. QED BY <1>1, <2>2, <2>6 DEF h
<1>5. CASE RecordCertificate
  BY <1>1, <1>5, CertificatePuts, Zenon DEF Puts
<1>6. QED BY <1>2, <1>3, <1>4, <1>5, Zenon DEF Next

\* Spends that stay in a history stay as they were, and so do their
\* certificates, after every sequence of operations.
THEOREM HistoryFixed == Spec => HistoryNeverRewritten
<1>1. IInv /\ [Next]_vars => [HistoryKept]_vars
  BY StepKeepsHistory
<1>2. QED BY <1>1, Inductive, PTL DEF Spec, HistoryNeverRewritten

-----------------------------------------------------------------------------
(* The indexer implements LineageSpec: each operation on an entry does to   *)
(* its points what Begin, Extend or CutBack does, and only that.            *)

Point == Abstract!Point

\* Point number i of an entry, outside of the function constructor.
PointAt(entry, i) ==
  LET h == entry.spend_history
      reached == IF i = 1 THEN None ELSE entry.accepted_receipts[i - 1]
  IN IF i <= Len(h)
       THEN [outpoint |-> h[i].spent, digest |-> h[i].new_state_digest,
             policy |-> h[i].previous_receipt_policy, receipt |-> reached]
       ELSE [outpoint |-> entry.open_outpoint,
             digest |-> entry.latest_state.state_digest,
             policy |-> entry.latest_state.receipt_policy, receipt |-> reached]

\* The second sequence is the first one and a point under a fresh receipt.
OnePointMore(p, q) ==
  \E point \in Point :
    /\ point.receipt # None
    /\ \A i \in 1 .. Len(p) : p[i].receipt # point.receipt
    /\ p[Len(p)].digest # point.digest
    /\ q = Append(p, point)

\* The points of a good entry are a sequence one longer than its history.
LEMMA PointsTyped ==
  ASSUME NEW entry, Good(entry)
  PROVE  /\ Points(entry) \in Seq(Point)
         /\ Len(Points(entry)) = Len(entry.spend_history) + 1
         /\ Len(entry.spend_history) \in Nat
         /\ \A i \in 1 .. Len(entry.spend_history) + 1 :
              Points(entry)[i] = PointAt(entry, i)
<1> DEFINE h == entry.spend_history
           r == entry.accepted_receipts
           n == Len(h)
<1>1. /\ entry \in IndexedCovenant /\ entry.open_outpoint \in Outpoint
      /\ h \in Seq(SpendEntry) /\ r \in Seq(Receipt)
      /\ n \in Nat /\ Len(r) = n
  BY LenProperties DEF IndexedCovenant, Good, ReceiptsInStep
<1>2. Points(entry) = [i \in 1 .. n + 1 |-> PointAt(entry, i)]
  BY DEF Points, PointAt
<1>3. ASSUME NEW i \in 1 .. n + 1
      PROVE  PointAt(entry, i) \in Point
  <2> DEFINE reached == IF i = 1 THEN None ELSE r[i - 1]
  <2>1. reached \in Receipt \cup {None}
    <3>1. CASE i = 1
      BY <3>1
    <3>2. CASE i # 1
      <4>1. i - 1 \in 1 .. Len(r)
        BY <3>2, <1>1
      <4>2. r[i - 1] \in Receipt
        BY <4>1, <1>1, ElementOfSeq, Zenon
      <4>3. QED BY <3>2, <4>2
    <3>3. QED BY <3>1, <3>2
  <2> HIDE DEF reached
  <2>2. CASE i <= n
    <3>1. h[i] \in SpendEntry
      BY <2>2, <1>1, ElementOfSeq
    <3>2. PointAt(entry, i) =
            [outpoint |-> h[i].spent, digest |-> h[i].new_state_digest,
             policy |-> h[i].previous_receipt_policy, receipt |-> reached]
      BY <2>2 DEF PointAt, reached
    <3>3. QED
      BY <2>1, <3>1, <3>2 DEF Point, Abstract!Point, SpendEntry
  <2>3. CASE ~ (i <= n)
    <3>1. PointAt(entry, i) =
            [outpoint |-> entry.open_outpoint,
             digest |-> entry.latest_state.state_digest,
             policy |-> entry.latest_state.receipt_policy, receipt |-> reached]
      BY <2>3 DEF PointAt, reached
    <3>2. QED
      BY <2>1, <3>1, <1>1
         DEF Point, Abstract!Point, IndexedCovenant, RgkStateCommitment
  <2>4. QED BY <2>2, <2>3
<1>4. Points(entry) \in Seq(Point) /\ Len(Points(entry)) = n + 1
  <2>1. n + 1 \in Nat
    BY <1>1
  <2>2. Points(entry) \in [1 .. n + 1 -> Point]
    BY <1>2, <1>3
  <2> HIDE DEF n
  <2>3. QED BY <2>1, <2>2, FunctionIsSequence
<1>5. QED BY <1>1, <1>2, <1>4, Zenon

\* An opened entry has the one point it was opened with.
LEMMA OpenedPoints ==
  ASSUME NEW covenant \in Covenant, NEW chain \in Chain, NEW lin \in Lineage,
         NEW initial \in RgkStateCommitment, NEW outpoint \in Outpoint,
         NEW daa \in Daa,
         initial.chain_id = chain, initial.covenant_id = covenant
  PROVE  \E point \in Point :
           /\ point.receipt = None
           /\ Points(opened(covenant, chain, lin, initial, outpoint, daa))
                = <<point>>
<1> DEFINE e == opened(covenant, chain, lin, initial, outpoint, daa)
           point == PointAt(e, 1)
<1>1. Good(e)
  BY OpenedGood
<1>2. Len(e.spend_history) = 0
  BY EmptySeq DEF opened
<1>3. /\ Points(e) \in Seq(Point) /\ Len(Points(e)) = 1
      /\ Points(e)[1] = point
  <2> HIDE DEF e
  <2>1. Len(e.spend_history) + 1 = 1 /\ 1 \in 1 .. 1
    BY <1>2
  <2>2. QED BY <2>1, <1>1, PointsTyped, Zenon
<1>4. point \in Point
  <2> HIDE DEF e, point
  <2>1. 1 \in 1 .. Len(Points(e))
    BY <1>3
  <2>2. QED BY <2>1, <1>3, ElementOfSeq, Zenon
<1>5. point.receipt = None
  <2> HIDE DEF e
  <2>1. QED BY <1>2 DEF PointAt
<1>6. Points(e) = <<point>>
  <2> HIDE DEF e, point
  <2>1. <<point>> \in Seq(Point) /\ Len(<<point>>) = 1 /\ <<point>>[1] = point
    BY <1>4
  <2>2. QED BY <1>3, <2>1, SeqEqual
<1>7. QED BY <1>4, <1>5, <1>6, Zenon

\* A spend appends one point, reached under its receipt, which no earlier
\* point was reached under.
LEMMA SpendPoints ==
  ASSUME NEW entry, Good(entry), NEW receipt \in Receipt,
         NEW spent \in Outpoint, NEW created \in Outpoint,
         NEW new_state \in RgkStateCommitment, NEW daa \in Daa,
         NEW continuation \in ContinuationProof \cup {None},
         NEW migration \in PolicyMigrationProof \cup {None},
         spend_admitted(entry, receipt, spent, new_state),
         proofs_admitted(entry, new_state, continuation, migration)
  PROVE  OnePointMore(Points(entry),
           Points(spend_applied(entry, receipt, spent, created, new_state, daa,
                                continuation, migration)))
<1> DEFINE e == spend_applied(entry, receipt, spent, created, new_state, daa,
                              continuation, migration)
           s == spend_entry(entry, receipt, spent, created, new_state, daa,
                            continuation, migration)
           h == entry.spend_history
           r == entry.accepted_receipts
           n == Len(h)
           p == Points(entry)
           point == [outpoint |-> created, digest |-> new_state.state_digest,
                     policy |-> new_state.receipt_policy, receipt |-> receipt]
<1>1. Good(e) /\ entry \in IndexedCovenant
  BY SpendAppliedGood, Zenon DEF Good
<1>2. /\ h \in Seq(SpendEntry) /\ r \in Seq(Receipt)
      /\ n \in Nat /\ Len(r) = n /\ DOMAIN r = 1 .. n
  BY <1>1, LenProperties, Zenon DEF IndexedCovenant, Good, ReceiptsInStep
<1>3. /\ e.spend_history = Append(h, s)
      /\ e.accepted_receipts = Append(r, receipt)
      /\ e.open_outpoint = created
      /\ e.latest_state = new_state
  BY <1>1 DEF spend_applied, IndexedCovenant
<1>4. s \in SpendEntry
  BY <1>1, SpendEntryTyped, Zenon
<1>5. /\ Len(Append(h, s)) = n + 1 /\ Append(h, s)[n + 1] = s
      /\ \A i \in 1 .. n : Append(h, s)[i] = h[i]
      /\ Append(r, receipt)[n + 1] = receipt
      /\ \A i \in 1 .. n : Append(r, receipt)[i] = r[i]
  <2> HIDE DEF s, h, r
  <2>1. QED BY <1>2, <1>4
<1>6. /\ s.spent = entry.open_outpoint
      /\ s.new_state_digest = entry.latest_state.state_digest
      /\ s.previous_receipt_policy = entry.latest_state.receipt_policy
  BY Zenon DEF spend_entry, spend_admitted
<1>7. /\ p \in Seq(Point) /\ Len(p) = n + 1
      /\ \A i \in 1 .. n + 1 : p[i] = PointAt(entry, i)
  BY PointsTyped
<1>8. /\ Points(e) \in Seq(Point) /\ Len(Points(e)) = n + 2
      /\ \A i \in 1 .. n + 2 : Points(e)[i] = PointAt(e, i)
  <2> HIDE DEF e, s, h
  <2>1. Len(e.spend_history) = n + 1 /\ (n + 1) + 1 = n + 2
    BY <1>2, <1>3, <1>5
  <2>2. QED BY <2>1, <1>1, PointsTyped, Zenon
<1>9. point \in Point /\ point.receipt = receipt /\ receipt # None
  BY ConstantsAssumption, Zenon DEF Point, Abstract!Point, RgkStateCommitment
<1>10. \A i \in 1 .. n + 1 : p[i].receipt # receipt
  <2> SUFFICES ASSUME NEW i \in 1 .. n + 1
               PROVE  PointAt(entry, i).receipt # receipt
    BY <1>7, Zenon
  <2>1. PointAt(entry, i).receipt = IF i = 1 THEN None ELSE r[i - 1]
    BY Zenon DEF PointAt
  <2>2. i # 1 => i - 1 \in 1 .. n
    BY <1>2
  <2>3. \A j \in 1 .. n : r[j] # receipt
    BY <1>2, Zenon DEF spend_admitted, has_receipt
  <2>4. QED BY <2>1, <2>2, <2>3, <1>9, Zenon
<1>11. p[n + 1].digest # point.digest
  <2>1. p[n + 1].digest = entry.latest_state.state_digest
    <3>1. n + 1 \in 1 .. n + 1 /\ ~ (n + 1 <= n)
      BY <1>2
    <3>2. PointAt(entry, n + 1).digest = entry.latest_state.state_digest
      BY <3>1, Zenon DEF PointAt
    <3>3. QED BY <3>1, <3>2, <1>7, Zenon
  <2>2. QED BY <2>1, Zenon DEF spend_admitted
<1>12. Points(e) = Append(p, point)
  <2>1. /\ Append(p, point) \in Seq(Point) /\ Len(Append(p, point)) = n + 2
        /\ Append(p, point)[n + 2] = point
        /\ \A i \in 1 .. n + 1 : Append(p, point)[i] = p[i]
    <3> HIDE DEF p, point, n
    <3>1. QED BY <1>2, <1>7, <1>9, AppendProperties
  <2>2. ASSUME NEW i \in 1 .. n + 2
        PROVE  PointAt(e, i) = Append(p, point)[i]
    <3> DEFINE reached == IF i = 1 THEN None ELSE Append(r, receipt)[i - 1]
    <3>1. CASE i = n + 2
      <4>1. i - 1 = n + 1 /\ i # 1 /\ ~ (i <= n + 1)
        BY <3>1, <1>2
      <4>2. PointAt(e, i) = point
        <5> HIDE DEF e, s, h, n
        <5>1. QED BY <4>1, <1>3, <1>5, Zenon DEF PointAt
      <4>3. QED BY <3>1, <4>2, <2>1, Zenon
    <3>2. CASE i # n + 2
      <4>1. i \in 1 .. n + 1 /\ (i # 1 => i - 1 \in 1 .. n)
        BY <3>2, <1>2
      <4>2. Append(p, point)[i] = PointAt(entry, i)
        BY <4>1, <2>1, <1>7
      <4>3. i # 1 => Append(r, receipt)[i - 1] = r[i - 1]
        BY <4>1, <1>5, Zenon
      <4>4. CASE i = n + 1
        <5>1. i <= n + 1 /\ ~ (i <= n)
          BY <4>4, <1>2
        <5>2. PointAt(entry, i) =
                [outpoint |-> s.spent, digest |-> s.new_state_digest,
                 policy |-> s.previous_receipt_policy, receipt |-> reached]
          <6> HIDE DEF s
          <6>1. QED BY <4>3, <5>1, <1>6, Zenon DEF PointAt
        <5>3. PointAt(e, i) =
                [outpoint |-> s.spent, digest |-> s.new_state_digest,
                 policy |-> s.previous_receipt_policy, receipt |-> reached]
          <6> DEFINE g == Append(h, s)
          <6>1. g[i] = s /\ i <= Len(g)
            BY <4>4, <5>1, <1>5
          <6> HIDE DEF e, s, g
          <6>2. QED BY <6>1, <1>3, Zenon DEF PointAt, g
        <5>4. QED BY <4>2, <5>2, <5>3, Zenon
      <4>5. CASE i # n + 1
        <5>1. i \in 1 .. n /\ i <= n + 1 /\ i <= n
          BY <4>1, <4>5, <1>2
        <5>2. PointAt(entry, i) =
                [outpoint |-> h[i].spent, digest |-> h[i].new_state_digest,
                 policy |-> h[i].previous_receipt_policy, receipt |-> reached]
          BY <4>3, <5>1, Zenon DEF PointAt
        <5>3. PointAt(e, i) =
                [outpoint |-> h[i].spent, digest |-> h[i].new_state_digest,
                 policy |-> h[i].previous_receipt_policy, receipt |-> reached]
          <6> DEFINE g == Append(h, s)
          <6>1. g[i] = h[i] /\ i <= Len(g)
            BY <5>1, <1>5
          <6> HIDE DEF e, s, g
          <6>2. QED BY <6>1, <1>3, Zenon DEF PointAt, g
        <5>4. QED BY <4>2, <5>2, <5>3, Zenon
      <4>6. QED BY <4>4, <4>5, ZenonT(30)
    <3>3. QED BY <3>1, <3>2, Zenon
  <2> HIDE DEF e, p, point, n
  <2>3. QED BY <2>1, <2>2, <1>8, SeqEqual, Zenon
<1> HIDE DEF e, p, point, n
<1>13. QED BY <1>7, <1>9, <1>10, <1>11, <1>12 DEF e, p, n, OnePointMore

\* rollback leaves exactly the points up to the one it returns to: the fields
\* it restores from the last popped record are that point's.
LEMMA RollbackPoints ==
  ASSUME NEW entry, Good(entry), NEW depth \in Nat,
         depth > 0, depth <= Len(entry.spend_history)
  PROVE  LET p == Points(entry)
             kept == Len(entry.spend_history) - depth + 1
         IN /\ kept \in 1 .. Len(p) /\ kept < Len(p)
            /\ Points(rolled_back(entry, depth)) = SubSeq(p, 1, kept)
<1> DEFINE e == rolled_back(entry, depth)
           h == entry.spend_history
           r == entry.accepted_receipts
           k == Len(h) - depth
           last == h[k + 1]
           p == Points(entry)
<1>1. Good(e) /\ entry \in IndexedCovenant
  BY RolledBackGood, Zenon DEF Good
<1>2. /\ h \in Seq(SpendEntry) /\ r \in Seq(Receipt)
      /\ Len(h) \in Nat /\ Len(r) = Len(h)
      /\ k \in Nat /\ k < Len(h)
      /\ last \in SpendEntry
  BY <1>1, LenProperties, ElementOfSeq DEF IndexedCovenant, Good, ReceiptsInStep
<1>3. /\ e.spend_history = SubSeq(h, 1, k)
      /\ e.accepted_receipts = SubSeq(r, 1, k)
      /\ e.open_outpoint = last.spent
      /\ e.latest_state.state_digest = last.new_state_digest
      /\ e.latest_state.receipt_policy = last.previous_receipt_policy
  BY <1>1, Zenon DEF rolled_back, IndexedCovenant, RgkStateCommitment
<1>4. /\ Len(SubSeq(h, 1, k)) = k
      /\ \A i \in 1 .. k : SubSeq(h, 1, k)[i] = h[i]
      /\ \A i \in 1 .. k : SubSeq(r, 1, k)[i] = r[i]
  BY <1>2, PrefixProperties
<1>5. /\ p \in Seq(Point) /\ Len(p) = Len(h) + 1
      /\ \A i \in 1 .. Len(h) + 1 : p[i] = PointAt(entry, i)
  BY PointsTyped
<1>6. /\ Points(e) \in Seq(Point) /\ Len(Points(e)) = k + 1
      /\ \A i \in 1 .. k + 1 : Points(e)[i] = PointAt(e, i)
  <2>1. Len(e.spend_history) = k
    BY <1>3, <1>4
  <2> HIDE DEF e, k
  <2>2. QED BY <2>1, <1>1, PointsTyped, Zenon
<1>7. k + 1 \in 1 .. Len(p) /\ k + 1 < Len(p)
  BY <1>2, <1>5
<1>8. /\ SubSeq(p, 1, k + 1) \in Seq(Point) /\ Len(SubSeq(p, 1, k + 1)) = k + 1
      /\ \A i \in 1 .. k + 1 : SubSeq(p, 1, k + 1)[i] = p[i]
  <2> HIDE DEF p, k
  <2>1. QED BY <1>2, <1>5, <1>7, PrefixProperties
<1>9. ASSUME NEW i \in 1 .. k + 1
      PROVE  PointAt(e, i) = SubSeq(p, 1, k + 1)[i]
  <2> DEFINE reached == IF i = 1 THEN None ELSE r[i - 1]
             g == SubSeq(h, 1, k)
             q == SubSeq(r, 1, k)
             point == [outpoint |-> h[i].spent, digest |-> h[i].new_state_digest,
                       policy |-> h[i].previous_receipt_policy,
                       receipt |-> reached]
  <2>1. /\ i \in 1 .. Len(h) + 1 /\ i <= Len(h)
        /\ (i # 1 => i - 1 \in 1 .. k)
    BY <1>2
  <2>2. SubSeq(p, 1, k + 1)[i] = PointAt(entry, i)
    BY <2>1, <1>5, <1>8, Zenon
  <2>3. PointAt(entry, i) = point
    BY <2>1, Zenon DEF PointAt
  <2>4. reached = IF i = 1 THEN None ELSE q[i - 1]
    BY <2>1, <1>4
  <2>5. PointAt(e, i) = point
    <3>1. CASE i <= k
      <4>1. g[i] = h[i] /\ i <= Len(g)
        BY <3>1, <1>4
      <4> HIDE DEF e, g, q, reached
      <4>2. QED BY <4>1, <2>4, <1>3, Zenon DEF PointAt, g, q
    <3>2. CASE ~ (i <= k)
      <4>0. Len(g) = k
        BY <1>4
      <4>1. i = k + 1 /\ ~ (i <= Len(g))
        <5> HIDE DEF g, k
        <5>1. QED BY <3>2, <4>0, <1>2
      <4>2. h[i] = last
        BY <4>1
      <4> HIDE DEF e, g, q, reached, last
      <4>3. QED BY <4>1, <4>2, <2>4, <1>3, Zenon DEF PointAt, g, q
    <3>3. QED BY <3>1, <3>2, Zenon
  <2>6. QED BY <2>2, <2>3, <2>5, Zenon
<1>10. Points(e) = SubSeq(p, 1, k + 1)
  <2> HIDE DEF e, p, k
  <2>1. QED BY <1>6, <1>8, <1>9, SeqEqual, Zenon
<1>11. QED BY <1>7, <1>10

\* A certificate changes no point.
LEMMA CertificatePoints ==
  ASSUME NEW entry, NEW e, Good(entry), SameButCertificates(entry, e)
  PROVE  Points(e) = Points(entry)
<1>1. \A i \in 1 .. Len(entry.spend_history) + 1 : PointAt(e, i) = PointAt(entry, i)
  <2> SUFFICES ASSUME NEW i \in 1 .. Len(entry.spend_history) + 1
               PROVE  PointAt(e, i) = PointAt(entry, i)
    OBVIOUS
  <2>1. Len(entry.spend_history) \in Nat
    BY PointsTyped, Zenon
  <2>2. CASE i <= Len(entry.spend_history)
    <3>1. i \in 1 .. Len(entry.spend_history)
      BY <2>1, <2>2
    <3>2. QED BY <2>2, <3>1 DEF PointAt, SameButCertificates
  <2>3. CASE ~ (i <= Len(entry.spend_history))
    BY <2>3, Zenon DEF PointAt, SameButCertificates
  <2>4. QED BY <2>2, <2>3
<1>2. Len(e.spend_history) = Len(entry.spend_history)
  BY Zenon DEF SameButCertificates
<1>3. /\ Points(e) = [i \in 1 .. Len(e.spend_history) + 1 |-> PointAt(e, i)]
      /\ Points(entry) = [i \in 1 .. Len(entry.spend_history) + 1 |-> PointAt(entry, i)]
  BY DEF Points, PointAt
<1>4. QED BY <1>1, <1>2, <1>3

-----------------------------------------------------------------------------
\* Putting an entry sets the points of its covenant and of no other.
LEMMA PutSets ==
  ASSUME NEW c, NEW e, put(c, e)
  PROVE  /\ Abstract!set(c, Points(e))
         /\ DOMAIN lineageOf = DOMAIN map
         /\ \A d \in DOMAIN map : lineageOf[d] = Points(map[d])
BY DEF put, Abstract!set, lineageOf

\* Every step of the indexer is a step of LineageSpec or leaves every lineage
\* as it was.
LEMMA StepSimulation ==
  ASSUME IInv, Next
  PROVE  Abstract!Next \/ UNCHANGED lineageOf
<1>1. CASE Open
  <2>1. PICK chain \in Chain, c \in Covenant, lin \in Lineage,
             initial \in RgkStateCommitment, outpoint \in Outpoint, daa \in Daa :
          open(chain, c, lin, initial, outpoint, daa)
    BY <1>1, Zenon DEF Open
  <2> DEFINE e == opened(c, chain, lin, initial, outpoint, daa)
  <2>2. c \notin DOMAIN map /\ put(c, e)
        /\ initial.chain_id = chain /\ initial.covenant_id = c
    BY <2>1, Zenon DEF open
  <2>3. PICK point \in Point : point.receipt = None /\ Points(e) = <<point>>
    BY <2>2, OpenedPoints
  <2> HIDE DEF e
  <2>4. Abstract!Begin(c, point)
    BY <2>2, <2>3, PutSets DEF Abstract!Begin
  <2>5. QED BY <2>4 DEF Abstract!Next, Point
<1>2. CASE ApplySpend \/ ApplySpendWithContinuation \/ ApplySpendWithMigration
  <2>1. PICK c \in Covenant, receipt \in Receipt, spent \in Outpoint,
            created \in Outpoint, new_state \in RgkStateCommitment, daa \in Daa,
            continuation \in ContinuationProof \cup {None},
            migration \in PolicyMigrationProof \cup {None} :
          Spends(c, receipt, spent, created, new_state, daa,
                 continuation, migration)
    BY <1>2, SpendActions
  <2> DEFINE e == spend_applied(map[c], receipt, spent, created, new_state, daa,
                                continuation, migration)
  <2>2. /\ c \in DOMAIN map /\ put(c, e) /\ Good(map[c])
        /\ spend_admitted(map[c], receipt, spent, new_state)
        /\ proofs_admitted(map[c], new_state, continuation, migration)
    BY <2>1, Zenon DEF Spends, apply_spend_to_entry, IInv
  <2>3. PICK point \in Point :
          /\ point.receipt # None
          /\ \A i \in 1 .. Len(Points(map[c])) :
               Points(map[c])[i].receipt # point.receipt
          /\ Points(map[c])[Len(Points(map[c]))].digest # point.digest
          /\ Points(e) = Append(Points(map[c]), point)
    <3>1. OnePointMore(Points(map[c]), Points(e))
      BY <2>2, SpendPoints
    <3> HIDE DEF e
    <3>2. QED BY <3>1, Zenon DEF OnePointMore
  <2> HIDE DEF e
  <2>4. Abstract!Extend(c, point)
    BY <2>2, <2>3, PutSets, Zenon DEF Abstract!Extend
  <2>5. QED BY <2>4, Zenon DEF Abstract!Next, Point
<1>3. CASE Rollback
  <2>1. PICK c \in Covenant, depth \in 1 .. MaxHistory : rollback(c, depth)
    BY <1>3 DEF Rollback
  <2> DEFINE e == rolled_back(map[c], depth)
             kept == Len(map[c].spend_history) - depth + 1
  <2>2. /\ c \in DOMAIN map /\ put(c, e) /\ Good(map[c])
        /\ depth > 0 /\ depth <= Len(map[c].spend_history)
    BY <2>1 DEF rollback, IInv
  <2>3. depth \in Nat
    BY InputsAssumption
  <2>4. /\ kept \in 1 .. Len(Points(map[c])) /\ kept < Len(Points(map[c]))
        /\ Points(e) = SubSeq(Points(map[c]), 1, kept)
    BY <2>2, <2>3, RollbackPoints
  <2> HIDE DEF e, kept
  <2>5. Abstract!CutBack(c, kept)
    BY <2>2, <2>4, PutSets, Zenon DEF Abstract!CutBack
  <2>6. c \in DOMAIN lineageOf /\ kept \in 1 .. Len(lineageOf[c])
    BY <2>2, <2>4, PutSets
  <2>7. QED BY <2>5, <2>6, Zenon DEF Abstract!Next
<1>4. CASE RecordCertificate
  <2>0. PICK c \in Covenant : \E e :
          c \in DOMAIN map /\ Puts(c, e) /\ SameButCertificates(map[c], e)
    BY <1>4, CertificatePuts
  <2>1. PICK e :
          c \in DOMAIN map /\ Puts(c, e) /\ SameButCertificates(map[c], e)
    BY <2>0, Zenon
  <2>2. Points(e) = Points(map[c])
    BY <2>1, CertificatePoints, Zenon DEF IInv
  <2>3. DOMAIN map' = DOMAIN map
        /\ \A d \in DOMAIN map : map'[d] = IF d = c THEN e ELSE map[d]
    BY <2>1 DEF Puts, put
  <2>4. QED BY <2>2, <2>3 DEF lineageOf
<1>5. QED BY <1>1, <1>2, <1>3, <1>4 DEF Next

\* The indexer implements LineageSpec: begin, extend under a fresh receipt, and
\* cut back to a point the lineage really went through, whatever the number of
\* covenants and the length of the histories.
THEOREM IndexerImplementsLineage == Spec => ImplementsLineage
<1>1. Init => Abstract!Init
  BY DEF Init, Abstract!Init, lineageOf
<1>2. IInv /\ [Next]_vars => [Abstract!Next]_lineageOf
  <2>1. IInv /\ UNCHANGED vars => UNCHANGED lineageOf
    BY DEF vars, lineageOf
  <2>2. QED BY <2>1, StepSimulation
<1>3. QED
  BY <1>1, <1>2, Inductive, PTL DEF Spec, ImplementsLineage, Abstract!Spec

-----------------------------------------------------------------------------
(* Rebuilding.                                                              *)

IsMap == map = [c \in DOMAIN map |-> map[c]]

\* A rebuild in progress runs one of the callers' plans on an indexed covenant.
Running ==
  rebuild # None =>
    /\ rebuild = [plan |-> rebuild.plan, at |-> rebuild.at]
    /\ rebuild.plan \in Plan
    /\ rebuild.at \in Nat \ {0}
    /\ rebuild.plan.checkpoint.covenant_id \in DOMAIN map

SeenTyped == seen \in [Outpoint -> RebuildSpendEvidence \cup {None}]

RInv == IInv /\ IsMap /\ Running /\ SeenTyped

-----------------------------------------------------------------------------
\* Storing under a covenant the entry it already has changes nothing.
LEMMA PutSame ==
  ASSUME IsMap, NEW c \in DOMAIN map, put(c, map[c])
  PROVE  map' = map
BY Zenon DEF put, IsMap

\* What is indexed is the entry entry_for returns.
LEMMA EntryFor ==
  ASSUME IInv, NEW plan
  PROVE  entry_for(plan) = None <=> plan.checkpoint.covenant_id \notin DOMAIN map
BY RebuildAssumption DEF entry_for, IInv, Good

\* The first step opens the covenant or leaves the index alone.
LEMMA BeginIsCall ==
  ASSUME RInv, NEW plan \in Plan, rebuild_begin(plan)
  PROVE  /\ Open \/ map' = map
         /\ plan.checkpoint.covenant_id \in DOMAIN map'
<1> DEFINE k == plan.checkpoint
           c == k.covenant_id
           e == checkpoint_entry(entry_for(plan), k)
<1>1. /\ e # Failed /\ put(c, e)
      /\ k \in RebuildCheckpoint
  BY RebuildAssumption, Zenon DEF rebuild_begin
<1>2. c \in DOMAIN map'
  BY <1>1, Zenon DEF put
<1>3. CASE c \notin DOMAIN map
  <2>1. entry_for(plan) = None
    BY <1>3, EntryFor, Zenon DEF RInv
  <2>2. e = opened(c, k.chain_id, k.lineage_id, k.initial_state,
                   k.open_outpoint, k.daa_score)
    BY <1>1, <2>1, Zenon DEF checkpoint_entry
  <2>3. k.initial_state.chain_id = k.chain_id /\ k.initial_state.covenant_id = c
    BY <1>1, Zenon DEF checkpoint_entry, validate_rebuild_checkpoint_shape
  <2>4. open(k.chain_id, c, k.lineage_id, k.initial_state, k.open_outpoint,
             k.daa_score)
    BY <1>1, <1>3, <2>2, <2>3, Zenon DEF open
  <2>5. Open
    BY <1>1, <2>4, Zenon DEF Open, RebuildCheckpoint
  <2>6. QED BY <1>2, <2>5, Zenon
<1>4. CASE c \in DOMAIN map
  <2>1. entry_for(plan) = map[c] /\ entry_for(plan) # None
    BY <1>4, EntryFor, Zenon DEF RInv, entry_for
  <2>2. e = map[c]
    BY <1>1, <2>1, Zenon DEF checkpoint_entry
  <2>3. QED BY <1>1, <1>2, <1>4, <2>2, PutSame, Zenon DEF RInv
<1>5. QED BY <1>3, <1>4, Zenon

\* What one step of the loop stores: the same entry when its receipt is
\* there already, the entry after an admitted spend otherwise.
Applied(entry, spend, daa) ==
  spend_applied(entry, spend.receipt_id, spend.spent_outpoint,
                spend.created_outpoint, spend.new_state, daa, None, None)

\* A later step applies the plan's next spend or leaves the index alone.
LEMMA SpendIsCall ==
  ASSUME RInv, rebuild_spend
  PROVE  LET c == rebuild.plan.checkpoint.covenant_id
             spend == rebuild.plan.spends[rebuild.at]
         IN /\ c \in DOMAIN map /\ c \in DOMAIN map'
            /\ \/ map' = map /\ has_receipt(map[c], spend.receipt_id)
               \/ /\ ApplySpend
                  /\ \E daa \in Daa : map'[c] = Applied(map[c], spend, daa)
<1> DEFINE plan == rebuild.plan
           k == plan.checkpoint
           c == k.covenant_id
           spend == plan.spends[rebuild.at]
           evidence == seen[spend.spent_outpoint]
           e == spend_rebuilt(map[c], k, spend, evidence)
<1>1. /\ plan \in Plan /\ c \in DOMAIN map
      /\ rebuild.at \in 1 .. Len(plan.spends)
  <2>1. rebuild # None /\ rebuild.at <= Len(plan.spends)
    BY Zenon DEF rebuild_spend
  <2>2. plan \in Plan /\ c \in DOMAIN map /\ rebuild.at \in Nat \ {0}
    BY <2>1 DEF RInv, Running
  <2>3. Len(plan.spends) \in Nat
    BY <2>2, RebuildAssumption
  <2> HIDE DEF plan, c
  <2>4. QED BY <2>1, <2>2, <2>3
<1>2. spend \in RebuildSpend
  BY <1>1, RebuildAssumption
<1>3. entry_for(plan) = map[c]
  BY <1>1 DEF entry_for
<1>4. e # Failed /\ put(c, e) /\ Len(e.spend_history) <= MaxHistory
  BY <1>3, ZenonT(30) DEF rebuild_spend
<1>5. c \in DOMAIN map' /\ map'[c] = e
  BY <1>4, Zenon DEF put
<1>6. CASE has_receipt(map[c], spend.receipt_id)
  <2>1. e = map[c]
    BY <1>4, <1>6, Zenon DEF spend_rebuilt
  <2>2. map' = map
    BY <1>1, <1>4, <2>1, PutSame DEF RInv
  <2>3. QED BY <1>1, <1>5, <1>6, <2>2
<1>7. CASE ~ has_receipt(map[c], spend.receipt_id)
  <2> DEFINE daa == evidence.block_daa_score
  <2>1. /\ evidence_supports(spend, evidence)
        /\ spend_admitted(map[c], spend.receipt_id, spend.spent_outpoint,
                          spend.new_state)
        /\ e = Applied(map[c], spend, daa)
    BY <1>4, <1>7, ZenonT(30) DEF spend_rebuilt, Applied
  <2>2. daa \in Daa
    <3>1. evidence \in RebuildSpendEvidence \cup {None}
      BY <1>2 DEF RInv, SeenTyped, RebuildSpend
    <3>2. QED BY <2>1, <3>1, Zenon DEF evidence_supports, RebuildSpendEvidence
  <2>3. Len(map[c].spend_history) < MaxHistory
    <3>1. map[c].spend_history \in Seq(SpendEntry) /\ map[c] \in IndexedCovenant
      BY <1>1, Zenon DEF RInv, IInv, Good, IndexedCovenant
    <3>2. PICK x : x = spend_entry(map[c], spend.receipt_id,
                 spend.spent_outpoint, spend.created_outpoint,
                 spend.new_state, daa, None, None)
      OBVIOUS
    <3>a. e.spend_history = Append(map[c].spend_history, x)
      BY <2>1, <3>1, <3>2, ZenonT(30) DEF Applied, spend_applied, IndexedCovenant
    <3> DEFINE h == map[c].spend_history
               g == e.spend_history
    <3>3. h \in Seq(SpendEntry) /\ g = Append(h, x) /\ Len(g) <= MaxHistory
      BY <1>4, <3>1, <3>a, Zenon
    <3>4. MaxHistory \in Nat
      BY InputsAssumption
    <3> HIDE DEF h, g, e
    <3>5. Len(h) \in Nat /\ Len(g) = Len(h) + 1
      BY <3>3
    <3>6. Len(h) < MaxHistory
      BY <3>3, <3>4, <3>5
    <3>7. QED BY <3>6, Zenon DEF h
  <2>4. apply_spend(c, spend.receipt_id, spend.spent_outpoint,
                    spend.created_outpoint, spend.new_state, daa)
    BY <1>1, <1>4, <2>1, <2>3, Zenon
       DEF apply_spend, apply_spend_to_entry, proofs_admitted, Applied
  <2>5. c \in Covenant
    BY <1>1 DEF RInv, IInv
  <2>6. ApplySpend
    BY <1>2, <2>2, <2>4, <2>5, Zenon DEF ApplySpend, RebuildSpend
  <2>7. QED BY <1>1, <1>5, <2>1, <2>2, <2>6, ZenonT(30)
<1>8. QED BY <1>6, <1>7, Zenon

\* Every step of a rebuild, of its source or of another caller is a step of
\* the indexer or leaves the index alone.
LEMMA EveryStepIsCall ==
  ASSUME RInv, [RebuildNext]_rebuildVars
  PROVE  [Next]_vars
<1>1. ASSUME NEW plan \in Plan, rebuild_begin(plan)
      PROVE  [Next]_vars
  BY <1>1, BeginIsCall, Zenon DEF Next, vars
<1>2. CASE rebuild_spend
  BY <1>2, SpendIsCall, Zenon DEF Next, vars
<1>3. CASE rebuild_spend_fails \/ rebuild_done \/ crash \/ UNCHANGED rebuildVars
  BY <1>3 DEF rebuild_spend_fails, rebuild_done, crash, rebuildVars, vars
<1>4. CASE SourceMoves
  BY <1>4 DEF SourceMoves, source_moves, vars
<1>5. CASE IndexerCall
  BY <1>5 DEF IndexerCall
<1>6. QED BY <1>1, <1>2, <1>3, <1>4, <1>5, Zenon DEF RebuildNext

\* The map stays a function, and no covenant leaves it.
LEMMA StepKeepsMap ==
  ASSUME RInv, [Next]_vars
  PROVE  IInv' /\ IsMap' /\ DOMAIN map \subseteq DOMAIN map'
<1>1. CASE Next
  <2>1. PICK c \in Covenant : \E e : Puts(c, e)
    BY <1>1, NextPuts DEF RInv
  <2>2. PICK e : Puts(c, e)
    BY <2>1, Zenon
  <2>3. IsMap' /\ DOMAIN map \subseteq DOMAIN map'
    BY <2>2 DEF Puts, put, IsMap
  <2>4. QED BY <2>2, <2>3, PutsInv DEF RInv
<1>2. CASE UNCHANGED vars
  BY <1>2 DEF vars, RInv, IInv, IsMap
<1>3. QED BY <1>1, <1>2

\* Every step preserves RInv.
LEMMA RebuildStep ==
  ASSUME RInv, [RebuildNext]_rebuildVars
  PROVE  RInv'
<1>0. [Next]_vars
  BY EveryStepIsCall
<1>1. IInv' /\ IsMap' /\ DOMAIN map \subseteq DOMAIN map'
  BY <1>0, StepKeepsMap, Zenon
<1> SUFFICES Running' /\ SeenTyped'
  BY <1>1, Zenon DEF RInv
<1>2. ASSUME NEW plan \in Plan, rebuild_begin(plan)
      PROVE  Running' /\ SeenTyped'
  BY <1>2, BeginIsCall DEF rebuild_begin, Running, RInv, SeenTyped
<1>3. CASE rebuild_spend
  <2>1. /\ rebuild # None /\ seen' = seen
        /\ rebuild' = [plan |-> rebuild.plan, at |-> rebuild.at + 1]
    BY <1>3, Zenon DEF rebuild_spend, RInv, Running
  <2>2. QED BY <1>1, <2>1 DEF Running, RInv, SeenTyped
<1>4. CASE rebuild_spend_fails \/ rebuild_done \/ crash
  BY <1>4 DEF rebuild_spend_fails, rebuild_done, crash, Running, RInv, SeenTyped
<1>5. CASE SourceMoves
  <2>1. PICK s \in Sighting : \E e \in {s[2], None} : source_moves(s[1], e)
    BY <1>5 DEF SourceMoves
  <2>2. PICK e \in {s[2], None} : source_moves(s[1], e)
    BY <2>1
  <2>3. s[1] \in Outpoint /\ e \in RebuildSpendEvidence \cup {None}
    <3>1. s \in Outpoint \X RebuildSpendEvidence
      BY RebuildAssumption
    <3>2. QED BY <3>1
  <2>4. SeenTyped'
    BY <2>2, <2>3, Zenon DEF source_moves, RInv, SeenTyped
  <2>5. Running'
    BY <2>2, Zenon DEF source_moves, RInv, Running
  <2>6. QED BY <2>4, <2>5
<1>6. CASE IndexerCall
  BY <1>1, <1>6, Zenon DEF IndexerCall, Running, RInv, SeenTyped
<1>7. CASE UNCHANGED rebuildVars
  BY <1>7, Zenon DEF rebuildVars, Running, RInv, SeenTyped
<1>8. QED BY <1>2, <1>3, <1>4, <1>5, <1>6, <1>7, Zenon DEF RebuildNext

\* RInv holds in every state of a rebuild.
LEMMA RebuildInductive == RebuildSpec => []RInv
<1>1. RebuildInit => RInv
  BY DEF RebuildInit, Init, RInv, IInv, IsMap, Running, SeenTyped
<1>2. RInv /\ [RebuildNext]_rebuildVars => RInv'
  BY RebuildStep
<1>3. QED BY <1>1, <1>2, PTL DEF RebuildSpec

-----------------------------------------------------------------------------
\* For every plan, source and interruption, rebuilding and calling the indexer
\* directly are the same to the index.
THEOREM RebuildImplementsIndexer == RebuildSpec => ImplementsIndexer
<1>1. RebuildInit => Init
  BY DEF RebuildInit
<1>2. RInv /\ [RebuildNext]_rebuildVars => [Next]_vars
  BY EveryStepIsCall
<1>3. QED BY <1>1, <1>2, RebuildInductive, PTL DEF RebuildSpec, ImplementsIndexer, Spec

\* Applying a spend adds its receipt and drops none.
LEMMA AppliedReceipts ==
  ASSUME NEW entry \in IndexedCovenant, NEW spend, NEW daa, NEW receipt,
         has_receipt(entry, receipt) \/ receipt = spend.receipt_id
  PROVE  has_receipt(Applied(entry, spend, daa), receipt)
<1> DEFINE r == entry.accepted_receipts
           q == Applied(entry, spend, daa).accepted_receipts
<1>1. r \in Seq(Receipt) /\ q = Append(r, spend.receipt_id)
  BY DEF IndexedCovenant, Applied, spend_applied
<1>2. /\ \A i \in DOMAIN r : i \in DOMAIN q /\ q[i] = r[i]
      /\ Len(r) + 1 \in DOMAIN q /\ q[Len(r) + 1] = spend.receipt_id
  <2> HIDE DEF r, q
  <2>1. QED BY <1>1
<1>3. CASE has_receipt(entry, receipt)
  <2>1. PICK i \in DOMAIN r : r[i] = receipt
    BY <1>3, Zenon DEF has_receipt
  <2>2. QED BY <1>2, <2>1, Zenon DEF has_receipt
<1>4. CASE receipt = spend.receipt_id
  BY <1>2, <1>4, Zenon DEF has_receipt
<1>5. QED BY <1>3, <1>4

\* Every receipt of the plan before the current spend is accepted.
Passed ==
  rebuild # None =>
    \A i \in 1 .. rebuild.at - 1 :
      has_receipt(map[rebuild.plan.checkpoint.covenant_id],
                  rebuild.plan.spends[i].receipt_id)

\* Passed is preserved: only a rebuild's own step moves its covenant.
LEMMA PassedStep ==
  ASSUME RInv, Passed, [RebuildNext]_rebuildVars
  PROVE  Passed'
<1>1. ASSUME NEW plan \in Plan, rebuild_begin(plan)
      PROVE  Passed'
  BY <1>1 DEF rebuild_begin, Passed
<1>2. CASE rebuild_spend
  <2> DEFINE c == rebuild.plan.checkpoint.covenant_id
             spends == rebuild.plan.spends
  <2>1. /\ rebuild # None /\ rebuild.at \in Nat \ {0}
        /\ rebuild' = [plan |-> rebuild.plan, at |-> rebuild.at + 1]
    BY <1>2, Zenon DEF rebuild_spend, RInv, Running
  <2>2. SUFFICES ASSUME NEW i \in 1 .. rebuild.at
                 PROVE  has_receipt(map'[c], spends[i].receipt_id)
    BY <2>1 DEF Passed, has_receipt
  <2>3. \/ has_receipt(map[c], spends[i].receipt_id)
        \/ spends[i].receipt_id = spends[rebuild.at].receipt_id
    BY <2>1 DEF Passed
  <2>4. CASE map' = map /\ has_receipt(map[c], spends[rebuild.at].receipt_id)
    BY <2>3, <2>4, Zenon DEF has_receipt
  <2>5. CASE \E daa \in Daa : map'[c] = Applied(map[c], spends[rebuild.at], daa)
    <3>1. PICK daa \in Daa : map'[c] = Applied(map[c], spends[rebuild.at], daa)
      BY <2>5
    <3>2. c \in DOMAIN map
      BY <1>2, SpendIsCall, Zenon
    <3>3. map[c] \in IndexedCovenant
      BY <3>2, Zenon DEF RInv, IInv, Good
    <3>4. has_receipt(Applied(map[c], spends[rebuild.at], daa), spends[i].receipt_id)
      BY <2>3, <3>3, AppliedReceipts, Zenon
    <3>5. QED BY <3>1, <3>4
  <2>6. QED BY <1>2, <2>4, <2>5, SpendIsCall, Zenon
<1>3. CASE rebuild_spend_fails \/ rebuild_done \/ crash
  BY <1>3, Zenon DEF rebuild_spend_fails, rebuild_done, crash, Passed
<1>4. CASE SourceMoves
  BY <1>4, Zenon DEF SourceMoves, source_moves, Passed, has_receipt
<1>5. CASE IndexerCall
  BY <1>5, Zenon DEF IndexerCall, Passed
<1>6. CASE UNCHANGED rebuildVars
  BY <1>6 DEF rebuildVars, Passed, has_receipt
<1>7. QED BY <1>1, <1>2, <1>3, <1>4, <1>5, <1>6, Zenon DEF RebuildNext

\* A rebuild returns Ok only with every receipt of its plan accepted, and at
\* every point before that what it has passed is.
THEOREM RebuildPassesAccepted == RebuildSpec => []PassedSpendsAccepted
<1>1. RebuildInit => Passed
  BY DEF RebuildInit, Passed
<1>2. RInv /\ Passed /\ [RebuildNext]_rebuildVars => Passed'
  BY PassedStep, Zenon
<1>3. RInv /\ Passed => PassedSpendsAccepted
  <2> SUFFICES ASSUME RInv, Passed, rebuild # None
               PROVE  /\ entry_for(rebuild.plan) # None
                      /\ \A i \in 1 .. rebuild.at - 1 :
                           has_receipt(entry_for(rebuild.plan),
                                       rebuild.plan.spends[i].receipt_id)
    BY Zenon DEF PassedSpendsAccepted
  <2>1. rebuild.plan.checkpoint.covenant_id \in DOMAIN map
    BY Zenon DEF RInv, Running
  <2>2. entry_for(rebuild.plan) # None
    BY <2>1, EntryFor, Zenon DEF RInv
  <2>3. entry_for(rebuild.plan) = map[rebuild.plan.checkpoint.covenant_id]
    BY <2>1 DEF entry_for
  <2>4. QED BY <2>2, <2>3, Zenon DEF Passed
<1>4. QED BY <1>1, <1>2, <1>3, RebuildInductive, PTL DEF RebuildSpec

-----------------------------------------------------------------------------
(* Running a whole plan.                                                    *)

WF == INSTANCE WellFoundedInduction

\* A non-empty set of natural numbers has a least element: the first covenant
\* of a list, the first spend of a history, the first step that goes wrong.
LEMMA LeastNatural ==
  ASSUME NEW T, T \subseteq Nat, T # {}
  PROVE  \E x \in T : \A y \in T : x <= y
<1> DEFINE less == {ss \in Nat \X Nat : ss[1] < ss[2]}
<1>1. WF!IsWellFoundedOn(less, Nat)
  BY WF!NatLessThanWellFounded DEF WF!OpToRel
<1> HIDE DEF less
<1>2. \E x \in T : \A y \in T : ~ (<<y, x>> \in less)
  BY <1>1, WF!WFMin, Zenon
<1>3. ASSUME NEW x \in T, NEW y \in T, ~ (<<y, x>> \in less)
      PROVE  x <= y
  <2>1. x \in Nat /\ y \in Nat
    OBVIOUS
  <2>2. ~ (y < x)
    BY <1>3, <2>1 DEF less
  <2>3. QED BY <2>1, <2>2
<1>4. QED BY <1>2, <1>3, Zenon

\* What the loop of rebuild_from makes of the entry e and of its i-th spend.
Iterated(plan, e, i) ==
  IF e = Failed THEN Failed
  ELSE spend_rebuilt(e, plan.checkpoint, plan.spends[i],
                     seen[plan.spends[i].spent_outpoint])

\* The entries after each of the first m spends, starting from e.
IsRun(f, plan, e, m) ==
  f = [i \in 0 .. m |-> IF i = 0 THEN e ELSE Iterated(plan, f[i - 1], i)]

\* A loop over m spends has a run.
LEMMA RunExists ==
  ASSUME NEW plan, NEW e, NEW n \in Nat
  PROVE  \E f : IsRun(f, plan, e, n)
<1> DEFINE T == {m \in Nat : ~ \E f : IsRun(f, plan, e, m)}
<1>1. SUFFICES ASSUME T # {}
               PROVE  FALSE
  OBVIOUS
<1>2. PICK m \in T : \A y \in T : m <= y
  BY <1>1, LeastNatural, Zenon
<1>3. CASE m = 0
  <2> DEFINE f == [i \in 0 .. 0 |-> e]
  <2>1. IsRun(f, plan, e, 0)
    BY DEF IsRun
  <2>2. QED BY <1>2, <1>3, <2>1, Zenon
<1>4. CASE m # 0
  <2>1. m - 1 \in Nat /\ m \in Nat /\ m - 1 \notin T
    BY <1>2, <1>4
  <2>2. PICK f : IsRun(f, plan, e, m - 1)
    BY <2>1
  <2> DEFINE g == [i \in 0 .. m |->
                     IF i = m THEN Iterated(plan, f[m - 1], m) ELSE f[i]]
  <2>3. \A i \in 0 .. m - 1 :
          f[i] = IF i = 0 THEN e ELSE Iterated(plan, f[i - 1], i)
    <3> HIDE DEF T
    <3>1. QED BY <2>1, <2>2, Zenon DEF IsRun
  <2>4. ASSUME NEW i \in 0 .. m
        PROVE  g[i] = IF i = 0 THEN e ELSE Iterated(plan, g[i - 1], i)
    <3>1. CASE i = m
      <4>1. g[m] = Iterated(plan, f[m - 1], m) /\ m - 1 \in 0 .. m /\ m - 1 # m
        BY <2>1, <1>4
      <4>2. g[m - 1] = f[m - 1]
        BY <4>1, Zenon
      <4>3. QED BY <3>1, <4>1, <4>2, <1>4, Zenon
    <3>2. CASE i # m
      <4>1. i \in 0 .. m - 1 /\ g[i] = f[i]
        BY <3>2, <2>1
      <4>2. i # 0 => i - 1 \in 0 .. m /\ i - 1 # m
        BY <3>2, <2>1
      <4>3. i # 0 => g[i - 1] = f[i - 1]
        BY <4>2
      <4>4. QED BY <4>1, <4>3, <2>3, Zenon
    <3>3. QED BY <3>1, <3>2, Zenon
  <2>5. IsRun(g, plan, e, m)
    <3>1. g = [i \in 0 .. m |-> g[i]]
      OBVIOUS
    <3> HIDE DEF g
    <3>2. QED BY <2>4, <3>1, Zenon DEF IsRun
  <2>6. QED BY <1>2, <2>5, Zenon
<1>5. QED BY <1>3, <1>4, Zenon

\* rebuild_from is the last entry of a run from the checkpoint's entry.
LEMMA RebuildRuns ==
  ASSUME NEW plan, NEW entry, Len(plan.spends) \in Nat
  PROVE  \E f : /\ IsRun(f, plan, checkpoint_entry(entry, plan.checkpoint),
                         Len(plan.spends))
                /\ rebuild_from(entry, plan) = f[Len(plan.spends)]
<1> DEFINE n == Len(plan.spends)
           e == checkpoint_entry(entry, plan.checkpoint)
           f == CHOOSE g : IsRun(g, plan, e, n)
<1>1. IsRun(f, plan, e, n)
  BY RunExists, Zenon
<1>2. rebuild_from(entry, plan) = f[n]
  BY Zenon DEF rebuild_from, IsRun, Iterated
<1>3. QED BY <1>1, <1>2, Zenon

\* The outpoint and the digest the first i spends of a plan lead to.
OutpointAt(plan, i) ==
  IF i = 0 THEN plan.checkpoint.open_outpoint ELSE plan.spends[i].created_outpoint

DigestAt(plan, i) ==
  IF i = 0 THEN plan.checkpoint.initial_state.state_digest
  ELSE plan.spends[i].new_state.state_digest

\* e is the covenant with the first i spends of the plan applied.
AtSpend(plan, e, i) ==
  /\ e \in IndexedCovenant
  /\ e.chain_id = plan.checkpoint.chain_id
  /\ e.covenant_id = plan.checkpoint.covenant_id
  /\ e.latest_state.asset_id = plan.checkpoint.initial_state.asset_id
  /\ e.latest_state.state_digest = DigestAt(plan, i)
  /\ e.open_outpoint = OutpointAt(plan, i)
  /\ Len(e.accepted_receipts) = i
  /\ \A j \in 1 .. i : e.accepted_receipts[j] = plan.spends[j].receipt_id

\* A spend that is indexed already is passed over.
LEMMA SpendPassedOver ==
  ASSUME NEW plan \in Plan, NEW k \in Nat, k <= Len(plan.spends), NEW e,
         AtSpend(plan, e, k), NEW i \in 1 .. k, WellFormed(plan), Supported(plan)
  PROVE  Iterated(plan, e, i) = e
<1> DEFINE spend == plan.spends[i]
<1>1. plan.spends \in Seq(RebuildSpend) /\ Len(plan.spends) \in Nat
  BY RebuildAssumption
<1>2. i \in 1 .. Len(plan.spends)
  BY <1>1
<1>3. /\ evidence_supports(spend, seen[spend.spent_outpoint])
      /\ validate_rebuild_spend_shape(plan.checkpoint, spend)
  BY <1>2, Zenon DEF WellFormed, Supported
<1>4. e.accepted_receipts \in Seq(Receipt)
  BY Zenon DEF AtSpend, IndexedCovenant
<1>5. i \in DOMAIN e.accepted_receipts
  BY <1>4 DEF AtSpend
<1>6. has_receipt(e, spend.receipt_id)
  BY <1>5, Zenon DEF AtSpend, has_receipt
<1>7. e # Failed
  BY RebuildAssumption, Zenon DEF AtSpend
<1>8. QED BY <1>3, <1>6, <1>7, Zenon DEF Iterated, spend_rebuilt

\* The first spend that is not indexed yet is applied.
LEMMA SpendTaken ==
  ASSUME SeenTyped, NEW plan \in Plan, NEW k \in Nat, k < Len(plan.spends),
         NEW e, AtSpend(plan, e, k), WellFormed(plan), Supported(plan)
  PROVE  AtSpend(plan, Iterated(plan, e, k + 1), k + 1)
<1> DEFINE i == k + 1
           spend == plan.spends[i]
           evidence == seen[spend.spent_outpoint]
           daa == evidence.block_daa_score
           r == e.accepted_receipts
           f == Applied(e, spend, daa)
<1>1. plan.spends \in Seq(RebuildSpend) /\ Len(plan.spends) \in Nat
  BY RebuildAssumption
<1>2. i \in 1 .. Len(plan.spends) /\ spend \in RebuildSpend
  <2>1. i \in 1 .. Len(plan.spends)
    BY <1>1
  <2>2. QED BY <1>1, <2>1, ElementOfSeq, Zenon
<1>3. /\ evidence_supports(spend, evidence)
      /\ validate_rebuild_spend_shape(plan.checkpoint, spend)
      /\ spend.spent_outpoint = OutpointAt(plan, k)
      /\ spend.new_state.state_digest # DigestAt(plan, k)
      /\ \A j \in 1 .. k : plan.spends[j].receipt_id # spend.receipt_id
  <2>1. i - 1 = k /\ (i = 1 <=> k = 0)
    OBVIOUS
  <2>2. QED BY <1>2, <2>1 DEF WellFormed, Supported, OutpointAt, DigestAt
<1>4. daa \in Daa
  <2>1. evidence \in RebuildSpendEvidence \cup {None}
    BY <1>2, Zenon DEF SeenTyped, RebuildSpend
  <2>2. QED BY <1>3, <2>1, Zenon DEF evidence_supports, RebuildSpendEvidence
<1>5. r \in Seq(Receipt) /\ DOMAIN r = 1 .. k
  BY DEF AtSpend, IndexedCovenant
<1>6. ~ has_receipt(e, spend.receipt_id)
  BY <1>3, <1>5, Zenon DEF AtSpend, has_receipt
<1>7. spend_admitted(e, spend.receipt_id, spend.spent_outpoint, spend.new_state)
  BY <1>3, <1>6, Zenon DEF spend_admitted, AtSpend, validate_rebuild_spend_shape
<1>8. e # Failed
  BY RebuildAssumption, Zenon DEF AtSpend
<1>9. Iterated(plan, e, i) = f
  BY <1>3, <1>6, <1>7, <1>8, Zenon DEF Iterated, spend_rebuilt, Applied
<1>10. proofs_admitted(e, spend.new_state, None, None)
  BY Zenon DEF proofs_admitted
<1> DEFINE x == spend_entry(e, spend.receipt_id, spend.spent_outpoint,
                            spend.created_outpoint, spend.new_state, daa, None, None)
<1>11. x \in SpendEntry
  BY <1>2, <1>4, <1>10, SpendEntryTyped, ZenonT(30) DEF AtSpend, RebuildSpend
<1> HIDE DEF x
<1>12. f = [e EXCEPT !.open_outpoint = spend.created_outpoint,
                     !.latest_state = spend.new_state,
                     !.last_update_daa_score = daa,
                     !.accepted_receipts = Append(r, spend.receipt_id),
                     !.spend_history = Append(e.spend_history, x)]
  BY DEF Applied, spend_applied, AtSpend, IndexedCovenant, x
<1>13. /\ Append(r, spend.receipt_id) \in Seq(Receipt)
       /\ Append(e.spend_history, x) \in Seq(SpendEntry)
  BY <1>2, <1>5, <1>11 DEF AtSpend, IndexedCovenant, RebuildSpend
<1>14. /\ f \in IndexedCovenant
       /\ f.open_outpoint = spend.created_outpoint
       /\ f.latest_state = spend.new_state
       /\ f.accepted_receipts = Append(r, spend.receipt_id)
       /\ f.chain_id = e.chain_id /\ f.covenant_id = e.covenant_id
  BY <1>2, <1>4, <1>12, <1>13, ZenonT(30) DEF AtSpend, IndexedCovenant, RebuildSpend
<1>15. /\ Len(Append(r, spend.receipt_id)) = i
       /\ \A j \in 1 .. i : Append(r, spend.receipt_id)[j]
                              = IF j = i THEN spend.receipt_id ELSE r[j]
  <2>1. Len(r) = k
    BY Zenon DEF AtSpend
  <2> HIDE DEF r, spend
  <2>2. QED BY <1>5, <2>1
<1>16. \A j \in 1 .. i : j # i => r[j] = plan.spends[j].receipt_id
  <2>1. \A j \in 1 .. k : r[j] = plan.spends[j].receipt_id
    BY Zenon DEF AtSpend
  <2>2. \A j \in 1 .. i : j # i => j \in 1 .. k
    OBVIOUS
  <2>3. QED BY <2>1, <2>2, Zenon
<1> HIDE DEF f, r
<1>17. AtSpend(plan, f, i)
  <2>1. /\ OutpointAt(plan, i) = spend.created_outpoint
        /\ DigestAt(plan, i) = spend.new_state.state_digest
    BY DEF OutpointAt, DigestAt
  <2>2. /\ f.chain_id = plan.checkpoint.chain_id
        /\ f.covenant_id = plan.checkpoint.covenant_id
        /\ f.latest_state.asset_id = plan.checkpoint.initial_state.asset_id
    BY <1>3, <1>14, Zenon DEF AtSpend, validate_rebuild_spend_shape
  <2>3. /\ Len(f.accepted_receipts) = i
        /\ \A j \in 1 .. i : f.accepted_receipts[j] = plan.spends[j].receipt_id
    BY <1>14, <1>15, <1>16, Zenon
  <2> HIDE DEF i, spend
  <2>4. QED BY <1>14, <2>1, <2>2, <2>3, Zenon DEF AtSpend
<1>18. QED BY <1>9, <1>17, Zenon

\* Where a plan that was begun starts: at the spends that are indexed, unless
\* the score of an entry without spends is not the checkpoint's.
LEMMA BegunStarts ==
  ASSUME RInv, NEW plan \in Plan, plan.checkpoint.chain_id = SourceChain,
         WellFormed(plan), Begun(plan)
  PROVE  LET e == checkpoint_entry(entry_for(plan), plan.checkpoint)
         IN IF ScoreDrifted(plan) THEN e = Failed
            ELSE \E k \in Nat : k <= Len(plan.spends) /\ AtSpend(plan, e, k)
<1> DEFINE k == plan.checkpoint
           s == plan.spends
           old == entry_for(plan)
           e == checkpoint_entry(old, k)
<1>1. /\ k \in RebuildCheckpoint /\ s \in Seq(RebuildSpend) /\ Len(s) \in Nat
      /\ validate_rebuild_checkpoint_shape(k)
  BY RebuildAssumption DEF WellFormed
<1>2. CASE old = None
  <2>1. e = opened(k.covenant_id, k.chain_id, k.lineage_id, k.initial_state,
                   k.open_outpoint, k.daa_score)
    BY <1>1, <1>2, Zenon DEF checkpoint_entry
  <2>2. e \in IndexedCovenant /\ e.accepted_receipts = <<>>
    <3>1. /\ k.covenant_id \in Covenant /\ k.chain_id \in Chain
          /\ k.lineage_id \in Lineage /\ k.initial_state \in RgkStateCommitment
          /\ k.open_outpoint \in Outpoint /\ k.daa_score \in Daa
      BY <1>1, Zenon DEF RebuildCheckpoint
    <3> HIDE DEF e, k
    <3>2. <<>> \in Seq(Receipt) /\ <<>> \in Seq(SpendEntry)
      BY EmptySeq, Zenon
    <3>3. QED BY <2>1, <3>1, <3>2, Zenon DEF opened, IndexedCovenant
  <2>3. AtSpend(plan, e, 0)
    BY <2>1, <2>2 DEF AtSpend, opened, OutpointAt, DigestAt
  <2>4. QED BY <1>1, <1>2, <2>3 DEF ScoreDrifted
<1>3. CASE old # None
  <2>1. Good(old) /\ old.covenant_id = k.covenant_id
    BY <1>3, EntryFor, Zenon DEF RInv, IInv, entry_for
  <2> DEFINE h == old.spend_history
             r == old.accepted_receipts
  <2>2. /\ old \in IndexedCovenant /\ h \in Seq(SpendEntry) /\ r \in Seq(Receipt)
        /\ Len(h) \in Nat /\ Len(r) = Len(h)
        /\ \A i \in 1 .. Len(h) : r[i] = h[i].receipt_id
        /\ old.latest_state.chain_id = old.chain_id
    <3>1. /\ old \in IndexedCovenant /\ h \in Seq(SpendEntry) /\ r \in Seq(Receipt)
          /\ old.latest_state.chain_id = old.chain_id
      BY <2>1, Zenon DEF Good, IndexedCovenant, entry_decodes
    <3>2. /\ Len(r) = Len(h)
          /\ \A i \in 1 .. Len(h) : r[i] = h[i].receipt_id
      BY <2>1, Zenon DEF Good, ReceiptsInStep
    <3>3. QED BY <3>1, <3>2, LenProperties, Zenon
  <2>3. /\ old.lineage_id = k.lineage_id /\ Len(h) <= Len(s)
        /\ \A i \in 1 .. Len(h) : h[i].receipt_id = s[i].receipt_id
    BY <1>3 DEF Begun
  <2>4. \A i \in 1 .. Len(h) : r[i] = s[i].receipt_id
    BY <2>2, <2>3
  <2>5. CASE Len(h) = 0
    <3>1. h = <<>> /\ r = <<>>
      <4> HIDE DEF h, r
      <4>1. QED BY <2>2, <2>5
    <3>2. old.open_outpoint = k.open_outpoint /\ old.latest_state = k.initial_state
      BY <1>3, <3>1, Zenon DEF Begun
    <3>3. old.chain_id = k.chain_id
      BY <1>1, <2>2, <3>2, Zenon DEF validate_rebuild_checkpoint_shape
    <3>4. CASE ScoreDrifted(plan)
      <4>1. ~ validate_existing_checkpoint(old, k)
        BY <3>1, <3>4, Zenon DEF ScoreDrifted, validate_existing_checkpoint
      <4>2. QED BY <1>3, <3>4, <4>1, Zenon DEF checkpoint_entry
    <3>5. CASE ~ ScoreDrifted(plan)
      <4>1. validate_existing_checkpoint(old, k)
        BY <1>3, <2>3, <3>1, <3>2, <3>3, <3>5, Zenon
           DEF ScoreDrifted, validate_existing_checkpoint
      <4>2. e = old
        BY <1>1, <1>3, <4>1, Zenon DEF checkpoint_entry
      <4>3. AtSpend(plan, old, 0)
        <5> HIDE DEF h, r
        <5>1. QED
          BY <2>1, <2>2, <2>5, <3>2, <3>3 DEF AtSpend, OutpointAt, DigestAt, r
      <4>4. QED BY <1>1, <3>5, <4>2, <4>3
    <3>6. QED BY <3>4, <3>5
  <2>6. CASE Len(h) # 0
    <3>1. h # <<>> /\ r # <<>> /\ Len(h) \in 1 .. Len(h) /\ 1 \in 1 .. Len(h)
          /\ 1 \in 1 .. Len(s) /\ Len(h) > 0
      <4> HIDE DEF h, r, s
      <4>1. QED BY <1>1, <2>2, <2>3, <2>6
    <3>2. /\ h[1].spent = s[1].spent_outpoint
          /\ h[Len(h)].created = s[Len(h)].created_outpoint
          /\ h[Len(h)].resulting_state_digest = s[Len(h)].new_state.state_digest
          /\ h[1].new_state_digest = k.initial_state.state_digest
          /\ old.chain_id = k.chain_id
          /\ old.latest_state.asset_id = k.initial_state.asset_id
          /\ old.latest_state.receipt_policy = k.initial_state.receipt_policy
      BY <1>3, <3>1, Zenon DEF Begun
    <3>3. h[1].spent = k.open_outpoint
      BY <3>1, <3>2, Zenon DEF WellFormed
    <3>4. /\ h[Len(h)].created = old.open_outpoint
          /\ h[Len(h)].resulting_state_digest = old.latest_state.state_digest
      BY <2>1, <3>1, Zenon DEF Good, Linked
    <3>5. validate_existing_checkpoint(old, k)
      BY <2>3, <3>1, <3>2, <3>3, Zenon DEF validate_existing_checkpoint
    <3>6. e = old
      BY <1>1, <1>3, <3>5, Zenon DEF checkpoint_entry
    <3>7. AtSpend(plan, old, Len(h))
      BY <2>1, <2>2, <2>4, <2>6, <3>2, <3>4, Zenon DEF AtSpend, OutpointAt, DigestAt
    <3>8. ~ ScoreDrifted(plan)
      BY <3>1, Zenon DEF ScoreDrifted
    <3>9. QED BY <2>2, <2>3, <3>6, <3>7, <3>8, Zenon
  <2>7. QED BY <2>5, <2>6
<1>4. QED BY <1>2, <1>3

\* A run that has failed stays failed.
LEMMA FailedRun ==
  ASSUME NEW plan, NEW n \in Nat, NEW f, IsRun(f, plan, Failed, n)
  PROVE  f[n] = Failed
<1> DEFINE T == {i \in 0 .. n : f[i] # Failed}
<1>1. SUFFICES ASSUME T # {}
               PROVE  FALSE
  OBVIOUS
<1>2. PICK i \in T : \A j \in T : i <= j
  <2>1. T \subseteq Nat
    OBVIOUS
  <2> HIDE DEF T
  <2>2. QED BY <1>1, <2>1, LeastNatural, Zenon
<1>3. f[i] = IF i = 0 THEN Failed ELSE Iterated(plan, f[i - 1], i)
  <2>1. i \in 0 .. n
    OBVIOUS
  <2> HIDE DEF T
  <2>2. QED BY <2>1, Zenon DEF IsRun
<1>4. i # 0 => i - 1 \in 0 .. n /\ i - 1 \notin T
  BY <1>2
<1>5. i # 0 => f[i - 1] = Failed
  BY <1>4, Zenon
<1>6. QED BY <1>3, <1>5, Zenon DEF Iterated

\* A run that starts with the first k spends indexed passes over them and
\* applies the others one by one.
LEMMA ResumedRun ==
  ASSUME SeenTyped, NEW plan \in Plan, WellFormed(plan), Supported(plan),
         NEW k \in Nat, k <= Len(plan.spends), NEW e, AtSpend(plan, e, k),
         NEW f, IsRun(f, plan, e, Len(plan.spends))
  PROVE  AtSpend(plan, f[Len(plan.spends)], Len(plan.spends))
<1> DEFINE n == Len(plan.spends)
           ok(i) == IF i <= k THEN f[i] = e ELSE AtSpend(plan, f[i], i)
           T == {i \in 0 .. n : ~ ok(i)}
<1>1. n \in Nat
  BY RebuildAssumption
<1>2. \A i \in 0 .. n : f[i] = IF i = 0 THEN e ELSE Iterated(plan, f[i - 1], i)
  <2> HIDE DEF ok, T, n
  <2>1. f = [i \in 0 .. n |-> IF i = 0 THEN e ELSE Iterated(plan, f[i - 1], i)]
    BY Zenon DEF IsRun, n
  <2>2. QED BY <2>1, Zenon
<1>3. T = {}
  <2> SUFFICES ASSUME T # {}
               PROVE  FALSE
    OBVIOUS
  <2>1. PICK i \in T : \A j \in T : i <= j
    <3>1. T \subseteq Nat
      BY <1>1
    <3> HIDE DEF T
    <3>2. QED BY <3>1, LeastNatural, Zenon
  <2>2. i \in 0 .. n /\ ~ ok(i)
    BY Zenon
  <2>3. i # 0
    BY <1>2, <2>2
  <2>4. i - 1 \in 0 .. n /\ i - 1 \notin T
    BY <1>1, <2>1, <2>2, <2>3
  <2>5. ok(i - 1) /\ f[i] = Iterated(plan, f[i - 1], i)
    BY <1>2, <2>2, <2>3, <2>4, Zenon
  <2>6. CASE i <= k
    <3>1. f[i - 1] = e /\ i \in 1 .. k
      BY <1>1, <2>2, <2>3, <2>5, <2>6
    <3>2. f[i] = e
      BY <2>5, <3>1, SpendPassedOver, Zenon
    <3>3. QED BY <2>2, <2>6, <3>2, Zenon
  <2>7. CASE ~ (i <= k)
    <3>1. i - 1 \in Nat /\ i - 1 < n /\ (i - 1) + 1 = i
      BY <1>1, <2>2, <2>3
    <3>2. AtSpend(plan, f[i - 1], i - 1)
      <4>1. CASE i - 1 <= k
        <5>1. i - 1 = k
          BY <2>2, <2>7, <4>1
        <5>2. QED BY <2>5, <5>1, Zenon
      <4>2. CASE ~ (i - 1 <= k)
        BY <2>5, <4>2, Zenon
      <4>3. QED BY <4>1, <4>2, Zenon
    <3>3. AtSpend(plan, f[i], i)
      BY <2>5, <3>1, <3>2, SpendTaken, Zenon
    <3>4. QED BY <2>2, <2>7, <3>3, Zenon
  <2>8. QED BY <2>6, <2>7, Zenon
<1>4. ok(n)
  BY <1>1, <1>3
<1>5. CASE k = n
  BY <1>1, <1>4, <1>5, Zenon
<1>6. CASE k # n
  BY <1>1, <1>4, <1>6
<1>7. QED BY <1>5, <1>6, Zenon

\* A rebuild that was cut short, at whatever spend and by whatever error, is
\* completed by running its plan again, except where rollback has left the
\* score of an emptied covenant off the checkpoint's: then it never is.
THEOREM RebuildResumes == RebuildSpec => []PartialRebuildResumes
<1>1. RInv => PartialRebuildResumes
  <2> SUFFICES ASSUME RInv, NEW plan \in Plan,
                      plan.checkpoint.chain_id = SourceChain,
                      WellFormed(plan), Supported(plan), Begun(plan)
               PROVE  LET result == rebuild_from(entry_for(plan), plan)
                      IN IF ScoreDrifted(plan) THEN result = Failed
                         ELSE /\ result # Failed
                              /\ result.accepted_receipts
                                   = [i \in 1 .. Len(plan.spends) |->
                                        plan.spends[i].receipt_id]
    BY DEF PartialRebuildResumes
  <2> DEFINE n == Len(plan.spends)
             e == checkpoint_entry(entry_for(plan), plan.checkpoint)
  <2>1. n \in Nat
    BY RebuildAssumption
  <2>2. PICK f : IsRun(f, plan, e, n) /\ rebuild_from(entry_for(plan), plan) = f[n]
    BY <2>1, RebuildRuns, Zenon
  <2> HIDE DEF e
  <2>3. CASE ScoreDrifted(plan)
    <3>1. e = Failed
      BY <2>3, BegunStarts DEF e
    <3>2. f[n] = Failed
      BY <2>1, <2>2, <3>1, FailedRun, Zenon
    <3>3. QED BY <2>2, <2>3, <3>2, Zenon
  <2>4. CASE ~ ScoreDrifted(plan)
    <3>1. PICK k \in Nat : k <= n /\ AtSpend(plan, e, k)
      BY <2>4, BegunStarts DEF e
    <3>2. AtSpend(plan, f[n], n)
      BY <2>2, <3>1, ResumedRun, Zenon DEF RInv
    <3>3. f[n] # Failed
      BY <3>2, RebuildAssumption DEF AtSpend
    <3>4. f[n].accepted_receipts = [i \in 1 .. n |-> plan.spends[i].receipt_id]
      <4> DEFINE r == f[n].accepted_receipts
      <4>1. /\ r \in Seq(Receipt) /\ Len(r) = n
            /\ \A j \in 1 .. n : r[j] = plan.spends[j].receipt_id
        BY <3>2, Zenon DEF AtSpend, IndexedCovenant
      <4>2. r = [j \in 1 .. Len(r) |-> r[j]]
        <5> HIDE DEF r
        <5>1. QED BY <4>1
      <4> HIDE DEF r, n
      <4>3. r = [i \in 1 .. n |-> plan.spends[i].receipt_id]
        BY <4>1, <4>2
      <4>4. QED BY <4>3, Zenon DEF r
    <3>5. QED BY <2>2, <2>4, <3>3, <3>4, Zenon
  <2>5. QED BY <2>3, <2>4, Zenon
<1>2. QED BY <1>1, RebuildInductive, PTL
=============================================================================
