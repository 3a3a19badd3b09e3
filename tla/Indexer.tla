------------------------------ MODULE Indexer -------------------------------
(***************************************************************************)
(* The covenant map of crates/rgk-indexer: every mutating call of the       *)
(* Indexer and AllocationAuditCertificateStore traits is one action.  A     *)
(* call that returns an error changes nothing, so its checks are the guard  *)
(* of the action.  Covenants are independent of each other here; lanes are  *)
(* module LaneIndex and rebuild_from is module Rebuild.                     *)
(***************************************************************************)
EXTENDS IndexerEntry

CONSTANTS
  ContinuationInput,  \* continuation proofs callers pass
  MigrationInput,     \* policy migration proofs callers pass
  CertificateInput,   \* allocation-audit certificates callers pass
  MaxHistory          \* bound: spends kept in one covenant's history

ASSUME InputsAssumption ==
  /\ ContinuationInput \subseteq ContinuationProof
  /\ MigrationInput \subseteq PolicyMigrationProof
  /\ CertificateInput \subseteq AllocationAuditCertificateRecord
  /\ MaxHistory \in Nat

VARIABLE map          \* BTreeMap / sled tree: covenant id -> IndexedCovenant

vars == <<map>>

Init == map = [c \in {} |-> None]

put(covenant, entry) ==
  map' = [c \in DOMAIN map \cup {covenant} |->
            IF c = covenant THEN entry ELSE map[c]]

open(chain, covenant, lineage, initial, outpoint, daa) ==
  /\ covenant \notin DOMAIN map
  /\ initial.chain_id = chain
  /\ initial.covenant_id = covenant
  /\ put(covenant, opened(covenant, chain, lineage, initial, outpoint, daa))

apply_spend_to_entry(covenant, receipt, spent, new_outpoint, new_state, daa, continuation, migration) ==
  /\ spend_admitted(map[covenant], receipt, spent, new_state)
  /\ proofs_admitted(map[covenant], new_state, continuation, migration)
  /\ Len(map[covenant].spend_history) < MaxHistory
  /\ put(covenant, spend_applied(map[covenant], receipt, spent, new_outpoint,
                                 new_state, daa, continuation, migration))

apply_spend(covenant, receipt, spent, new_outpoint, new_state, daa) ==
  /\ covenant \in DOMAIN map
  /\ apply_spend_to_entry(covenant, receipt, spent, new_outpoint, new_state,
                          daa, None, None)

apply_spend_with_continuation(covenant, receipt, spent, new_outpoint, new_state, daa, continuation) ==
  /\ covenant \in DOMAIN map
  /\ apply_spend_to_entry(covenant, receipt, spent, new_outpoint, new_state,
                          daa, continuation, None)

apply_spend_with_continuation_and_policy_migration(covenant, receipt, spent, new_outpoint, new_state, daa, continuation, migration) ==
  /\ covenant \in DOMAIN map
  /\ apply_spend_to_entry(covenant, receipt, spent, new_outpoint, new_state,
                          daa, continuation, migration)

rollback(covenant, depth) ==
  /\ covenant \in DOMAIN map
  /\ depth <= Len(map[covenant].spend_history)
  /\ depth > 0          \* depth 0 runs no iteration and changes nothing
  /\ put(covenant, rolled_back(map[covenant], depth))

\* Variant: a second certificate replaces the first.
record_certificate_replacing(covenant, receipt, certificate) ==
  /\ covenant \in DOMAIN map
  /\ validate_allocation_audit_certificate_record(certificate)
  /\ LET history == map[covenant].spend_history
         at == first_with_receipt(history, receipt)
     IN /\ \E i \in DOMAIN history : history[i].receipt_id = receipt
        /\ put(covenant, certified(map[covenant], at, certificate))

record_allocation_audit_certificate(covenant, receipt, certificate) ==
  /\ covenant \in DOMAIN map
  /\ validate_allocation_audit_certificate_record(certificate)
  /\ LET history == map[covenant].spend_history
         at == first_with_receipt(history, receipt)
     IN /\ \E i \in DOMAIN history : history[i].receipt_id = receipt
        /\ history[at].allocation_audit_certificate = None
        /\ put(covenant, certified(map[covenant], at, certificate))

-----------------------------------------------------------------------------
(* Callers: every argument that can occur is tried.                         *)

Open ==
  \E chain \in Chain, covenant \in Covenant, lineage \in Lineage,
     initial \in RgkStateCommitment, outpoint \in Outpoint, daa \in Daa :
    open(chain, covenant, lineage, initial, outpoint, daa)

ApplySpend ==
  \E covenant \in Covenant, spent \in Outpoint,
     new_state \in RgkStateCommitment, receipt \in Receipt,
     new_outpoint \in Outpoint, daa \in Daa :
    apply_spend(covenant, receipt, spent, new_outpoint, new_state, daa)

ApplySpendWithContinuation ==
  \E covenant \in Covenant, spent \in Outpoint,
     new_state \in RgkStateCommitment, receipt \in Receipt,
     continuation \in ContinuationInput, new_outpoint \in Outpoint,
     daa \in Daa :
    apply_spend_with_continuation(covenant, receipt, spent, new_outpoint,
                                  new_state, daa, continuation)

ApplySpendWithMigration ==
  \E covenant \in Covenant, spent \in Outpoint,
     new_state \in RgkStateCommitment, receipt \in Receipt,
     continuation \in ContinuationInput, migration \in MigrationInput,
     new_outpoint \in Outpoint, daa \in Daa :
    apply_spend_with_continuation_and_policy_migration(covenant, receipt,
      spent, new_outpoint, new_state, daa, continuation, migration)

Rollback ==
  \E covenant \in Covenant, depth \in 1 .. MaxHistory : rollback(covenant, depth)

RecordCertificate ==
  \E covenant \in Covenant, receipt \in Receipt,
     certificate \in CertificateInput :
    record_allocation_audit_certificate(covenant, receipt, certificate)

Next ==
  \/ Open
  \/ ApplySpend
  \/ ApplySpendWithContinuation
  \/ ApplySpendWithMigration
  \/ Rollback
  \/ RecordCertificate

Spec == Init /\ [][Next]_vars

-----------------------------------------------------------------------------
(* What holds of every indexed entry.                                       *)

TypeOK ==
  /\ DOMAIN map \subseteq Covenant
  /\ \A c \in DOMAIN map : map[c] \in IndexedCovenant

\* Each spend consumes exactly what the one before it produced: the outpoint,
\* the state digest and the receipt policy of two neighbouring SpendEntry
\* records agree, and the newest record agrees with open_outpoint and
\* latest_state.  rollback relies on this chain when it restores the fields of
\* an older state from one popped record (lib.rs 1077-1087).
Linked(entry) ==
  LET h == entry.spend_history IN
  /\ \A i \in 1 .. Len(h) - 1 :
       /\ h[i].created = h[i + 1].spent
       /\ h[i].resulting_state_digest = h[i + 1].new_state_digest
       /\ h[i].new_receipt_policy = h[i + 1].previous_receipt_policy
  /\ Len(h) > 0 =>
       /\ h[Len(h)].created = entry.open_outpoint
       /\ h[Len(h)].resulting_state_digest = entry.latest_state.state_digest
       /\ h[Len(h)].new_receipt_policy = entry.latest_state.receipt_policy

HistoryLinked == \A c \in DOMAIN map : Linked(map[c])

\* accepted_receipts is in step with spend_history: rollback pops both vectors
\* independently, and replay protection reads only accepted_receipts.
ReceiptsInStep(entry) ==
  /\ Len(entry.accepted_receipts) = Len(entry.spend_history)
  /\ \A i \in 1 .. Len(entry.spend_history) :
       entry.accepted_receipts[i] = entry.spend_history[i].receipt_id

\* No receipt is accepted twice along one covenant's history, whatever
\* sequence of spends and rollbacks produced it: the two vectors stay in step
\* and no receipt id occurs in two of the spends.
NoReceiptTwice ==
  \A c \in DOMAIN map :
    /\ ReceiptsInStep(map[c])
    /\ \A i, j \in 1 .. Len(map[c].spend_history) :
         map[c].spend_history[i].receipt_id = map[c].spend_history[j].receipt_id
           => i = j

\* The check decode_indexed_covenant repeats on every stored spend when the
\* sled back end loads the record again.
spend_decodes(spend) ==
  /\ spend.continuation # None => validate_continuation_proof(spend.continuation)
  /\ spend.policy_migration # None =>
       /\ spend.continuation # None
       /\ validate_policy_migration_proof(spend.policy_migration,
            spend.previous_receipt_policy, spend.new_receipt_policy,
            spend.new_state_digest, spend.resulting_state_digest,
            spend.continuation.transition_digest)
  /\ spend.allocation_audit_certificate # None =>
       validate_allocation_audit_certificate_record(
         spend.allocation_audit_certificate)

entry_decodes(entry) ==
  /\ \A i \in 1 .. Len(entry.spend_history) : spend_decodes(entry.spend_history[i])
  /\ entry.latest_state.covenant_id = entry.covenant_id
  /\ entry.latest_state.chain_id = entry.chain_id

\* Every entry the operations can produce is one the sled back end reads back:
\* decode_indexed_covenant re-validates every proof against the fields stored
\* beside it and refuses the whole record otherwise, after which lookup
\* reports the covenant as not indexed.
EveryEntryDecodes == \A c \in DOMAIN map : entry_decodes(map[c])

IdentityKept ==
  \A c \in DOMAIN map :
    /\ c \in DOMAIN map'
    /\ map'[c].covenant_id = c
    /\ map'[c].chain_id = map[c].chain_id
    /\ map'[c].lineage_id = map[c].lineage_id
    /\ map'[c].latest_state.asset_id = map[c].latest_state.asset_id

\* A lineage never changes its chain, its covenant or its asset, and an entry
\* is stored under its own covenant id: open takes the asset from the caller,
\* every later state is compared with the entry it replaces, and rollback
\* keeps the fields it does not restore.
LineageIdentityFixed == [][IdentityKept]_vars

SpendFacts(spend) == [spend EXCEPT !.allocation_audit_certificate = None]

SpendsSurvive(before, after) ==
  \A i \in 1 .. Len(before) :
    i <= Len(after) =>
      /\ SpendFacts(after[i]) = SpendFacts(before[i])
      /\ before[i].allocation_audit_certificate # None => after[i] = before[i]

HistoryKept ==
  \A c \in DOMAIN map : SpendsSurvive(map[c].spend_history, map'[c].spend_history)

\* No call rewrites history: whatever part of a history survives a step is the
\* same spends in the same order, and a certificate once attached to a spend
\* is neither dropped nor replaced while that spend stays in the history
\* (record_allocation_audit_certificate_on_entry refuses a different one).
HistoryNeverRewritten == [][HistoryKept]_vars

-----------------------------------------------------------------------------
(* What the field comments of IndexedCovenant say.                          *)

\* The comment on open_outpoint (lib.rs 70-71): it is None once all history
\* has been rolled back.  rollback assigns Some(last.spent) on every
\* iteration, the last one included.
NoOutpointAfterFullRollback ==
  [][\A c \in DOMAIN map :
       Len(map[c].spend_history) > 0 /\ Len(map'[c].spend_history) = 0 =>
         map'[c].open_outpoint = None]_vars

\* The comment on last_update_daa_score (lib.rs 79): the DAA score at which the
\* latest state was last updated, that is the score of the spend that made it
\* the latest state.  rollback leaves one less than the score of the spend it
\* undid.
DaaOfLatestState ==
  \A c \in DOMAIN map :
    LET h == map[c].spend_history
    IN Len(h) > 0 => map[c].last_update_daa_score = h[Len(h)].daa_score
=============================================================================
