------------------------------ MODULE Rebuild -------------------------------
(***************************************************************************)
(* RebuildIndexer::rebuild_from: an indexed covenant is rebuilt from a      *)
(* checkpoint and a list of expected spends, each looked up in a source of  *)
(* chain evidence.  The call holds the indexer exclusively, but every       *)
(* apply_spend is stored at once and the source may answer differently from *)
(* one spend to the next, so it is modelled step by step: it can fail or    *)
(* the process can stop after any of them, and be run again.                *)
(***************************************************************************)
EXTENDS Indexer

CONSTANTS
  Plan,          \* RebuildPlans callers pass
  SourceChain,   \* RebuildSource::chain_id
  Depth,         \* confirmation depths and min_confirmations
  Sighting,      \* what the source may come to answer: <<outpoint, evidence>>
  Failed         \* the result of a call that returns an error

RebuildCheckpoint ==
  [chain_id : Chain, covenant_id : Covenant, lineage_id : Lineage,
   initial_state : RgkStateCommitment, open_outpoint : Outpoint,
   daa_score : Daa]

RebuildSpend ==
  [receipt_id : Receipt, spent_outpoint : Outpoint,
   created_outpoint : Outpoint, new_state : RgkStateCommitment,
   expected_spending_txid : Txid, min_confirmations : Depth]

\* confirmation_depth is 0 for None: rebuild_from reads unwrap_or(0).
RebuildSpendEvidence ==
  [spending_txid : Txid, block_daa_score : Daa \cup {None},
   confirmation_depth : Depth]

ASSUME RebuildAssumption ==
  /\ \A p \in Plan :
       /\ p.checkpoint \in RebuildCheckpoint
       /\ p.spends \in Seq(RebuildSpend)
  /\ Depth \subseteq Nat
  /\ Sighting \subseteq Outpoint \X RebuildSpendEvidence
  /\ None \notin RebuildSpendEvidence
  /\ None \notin Daa
  /\ None \notin IndexedCovenant
  /\ Failed \notin IndexedCovenant

VARIABLES
  seen,      \* what the source answers: outpoint -> evidence or None
  rebuild    \* the call in progress: its plan and the next spend; or None

rebuildVars == <<map, seen, rebuild>>

-----------------------------------------------------------------------------
(* The checks of rebuild_from.                                              *)

validate_rebuild_checkpoint_shape(checkpoint) ==
  /\ checkpoint.initial_state.chain_id = checkpoint.chain_id
  /\ checkpoint.initial_state.covenant_id = checkpoint.covenant_id

\* Variant: an entry with history is compared with the state its first spend
\* led to.
validate_existing_checkpoint_result(entry, checkpoint) ==
  /\ entry.chain_id = checkpoint.chain_id
  /\ entry.lineage_id = checkpoint.lineage_id
  /\ entry.latest_state.asset_id = checkpoint.initial_state.asset_id
  /\ entry.latest_state.receipt_policy = checkpoint.initial_state.receipt_policy
  /\ IF entry.accepted_receipts = <<>>
       THEN /\ entry.open_outpoint = checkpoint.open_outpoint
            /\ entry.latest_state = checkpoint.initial_state
            /\ entry.last_update_daa_score = checkpoint.daa_score
       ELSE /\ entry.spend_history # <<>>
            /\ entry.spend_history[1].spent = checkpoint.open_outpoint
            /\ entry.spend_history[1].resulting_state_digest
                 = checkpoint.initial_state.state_digest

validate_existing_checkpoint(entry, checkpoint) ==
  /\ entry.chain_id = checkpoint.chain_id
  /\ entry.lineage_id = checkpoint.lineage_id
  /\ entry.latest_state.asset_id = checkpoint.initial_state.asset_id
  /\ entry.latest_state.receipt_policy = checkpoint.initial_state.receipt_policy
  /\ IF entry.accepted_receipts = <<>>
       THEN /\ entry.open_outpoint = checkpoint.open_outpoint
            /\ entry.latest_state = checkpoint.initial_state
            /\ entry.last_update_daa_score = checkpoint.daa_score
       ELSE /\ entry.spend_history # <<>>
            /\ entry.spend_history[1].spent = checkpoint.open_outpoint
            /\ entry.spend_history[1].new_state_digest
                 = checkpoint.initial_state.state_digest

validate_rebuild_spend_shape(checkpoint, spend) ==
  /\ spend.new_state.chain_id = checkpoint.chain_id
  /\ spend.new_state.covenant_id = checkpoint.covenant_id
  /\ spend.new_state.asset_id = checkpoint.initial_state.asset_id
  /\ spend.new_state.receipt_policy = checkpoint.initial_state.receipt_policy

evidence_supports(spend, evidence) ==
  /\ evidence # None
  /\ evidence.spending_txid = spend.expected_spending_txid
  /\ evidence.confirmation_depth >= spend.min_confirmations
  /\ evidence.block_daa_score # None

-----------------------------------------------------------------------------
(* The parts of rebuild_from as functions of the entry.                     *)

\* The entry the loop starts from; entry is None when nothing is indexed.
checkpoint_entry(entry, checkpoint) ==
  IF SourceChain # checkpoint.chain_id
     \/ ~ validate_rebuild_checkpoint_shape(checkpoint) THEN Failed
  ELSE IF entry = None
    THEN opened(checkpoint.covenant_id, checkpoint.chain_id,
                checkpoint.lineage_id, checkpoint.initial_state,
                checkpoint.open_outpoint, checkpoint.daa_score)
  ELSE IF validate_existing_checkpoint(entry, checkpoint) THEN entry
  ELSE Failed

\* Variant: a spend without sufficient evidence is passed over.
spend_rebuilt_leniently(entry, checkpoint, spend, evidence) ==
  IF ~ validate_rebuild_spend_shape(checkpoint, spend) THEN Failed
  ELSE IF ~ evidence_supports(spend, evidence) THEN entry
  ELSE IF has_receipt(entry, spend.receipt_id) THEN entry
  ELSE IF ~ spend_admitted(entry, spend.receipt_id, spend.spent_outpoint,
                           spend.new_state) THEN Failed
  ELSE spend_applied(entry, spend.receipt_id, spend.spent_outpoint,
                     spend.created_outpoint, spend.new_state,
                     evidence.block_daa_score, None, None)

\* Variant: an observed spend is applied without the indexer's own checks.
spend_rebuilt_unchecked(entry, checkpoint, spend, evidence) ==
  IF ~ validate_rebuild_spend_shape(checkpoint, spend)
     \/ ~ evidence_supports(spend, evidence) THEN Failed
  ELSE IF has_receipt(entry, spend.receipt_id) THEN entry
  ELSE spend_applied(entry, spend.receipt_id, spend.spent_outpoint,
                     spend.created_outpoint, spend.new_state,
                     evidence.block_daa_score, None, None)

\* One iteration of the loop: the entry after it.
spend_rebuilt(entry, checkpoint, spend, evidence) ==
  IF ~ validate_rebuild_spend_shape(checkpoint, spend)
     \/ ~ evidence_supports(spend, evidence) THEN Failed
  ELSE IF has_receipt(entry, spend.receipt_id) THEN entry
  ELSE IF ~ spend_admitted(entry, spend.receipt_id, spend.spent_outpoint,
                           spend.new_state) THEN Failed
  ELSE spend_applied(entry, spend.receipt_id, spend.spent_outpoint,
                     spend.created_outpoint, spend.new_state,
                     evidence.block_daa_score, None, None)

entry_for(plan) ==
  LET c == plan.checkpoint.covenant_id
  IN IF c \in DOMAIN map THEN map[c] ELSE None

-----------------------------------------------------------------------------
(* The call, step by step.                                                  *)

rebuild_begin(plan) ==
  LET entry == checkpoint_entry(entry_for(plan), plan.checkpoint)
  IN /\ rebuild = None
     /\ entry # Failed
     /\ put(plan.checkpoint.covenant_id, entry)
     /\ rebuild' = [plan |-> plan, at |-> 1]
     /\ UNCHANGED seen

rebuild_spend ==
  /\ rebuild # None
  /\ rebuild.at <= Len(rebuild.plan.spends)
  /\ LET plan == rebuild.plan
         spend == plan.spends[rebuild.at]
         entry == spend_rebuilt(entry_for(plan), plan.checkpoint, spend,
                                seen[spend.spent_outpoint])
     IN /\ entry # Failed
        /\ Len(entry.spend_history) <= MaxHistory
        /\ put(plan.checkpoint.covenant_id, entry)
  /\ rebuild' = [plan |-> rebuild.plan, at |-> rebuild.at + 1]
  /\ UNCHANGED seen

rebuild_spend_fails ==
  /\ rebuild # None
  /\ rebuild.at <= Len(rebuild.plan.spends)
  /\ LET plan == rebuild.plan
         spend == plan.spends[rebuild.at]
     IN spend_rebuilt(entry_for(plan), plan.checkpoint, spend,
                      seen[spend.spent_outpoint]) = Failed
  /\ rebuild' = None
  /\ UNCHANGED <<map, seen>>

rebuild_done ==
  /\ rebuild # None
  /\ rebuild.at > Len(rebuild.plan.spends)
  /\ rebuild' = None
  /\ UNCHANGED <<map, seen>>

\* The process stops, or the source answers with an error; the sled back end
\* has stored every completed step.
crash ==
  /\ rebuild # None
  /\ rebuild' = None
  /\ UNCHANGED <<map, seen>>

\* The node learns of a spend, sees it deeper, or loses it in a reorg.
source_moves(outpoint, evidence) ==
  /\ seen[outpoint] # evidence
  /\ seen' = [seen EXCEPT ![outpoint] = evidence]
  /\ UNCHANGED <<map, rebuild>>

\* Any other call on the indexer, between two rebuilds.
IndexerCall == rebuild = None /\ Next /\ UNCHANGED <<seen, rebuild>>

RebuildInit ==
  /\ Init
  /\ seen = [o \in Outpoint |-> None]
  /\ rebuild = None

SourceMoves ==
  \E s \in Sighting : \E e \in {s[2], None} : source_moves(s[1], e)

RebuildNext ==
  \/ \E plan \in Plan : rebuild_begin(plan)
  \/ rebuild_spend
  \/ rebuild_spend_fails
  \/ rebuild_done
  \/ crash
  \/ SourceMoves
  \/ IndexerCall

RebuildSpec == RebuildInit /\ [][RebuildNext]_rebuildVars

-----------------------------------------------------------------------------
(* Running a whole plan on an entry while the source does not move.         *)

rebuild_from(entry, plan) ==
  LET result[i \in 0 .. Len(plan.spends)] ==
        IF i = 0 THEN checkpoint_entry(entry, plan.checkpoint)
        ELSE IF result[i - 1] = Failed THEN Failed
        ELSE spend_rebuilt(result[i - 1], plan.checkpoint, plan.spends[i],
                           seen[plan.spends[i].spent_outpoint])
  IN result[Len(plan.spends)]

\* The plan replays a lineage: its states are of one covenant and asset, it
\* starts at the checkpoint, every spend consumes what the one before created
\* and changes the state.
WellFormed(plan) ==
  LET s == plan.spends
      before(i) == IF i = 1 THEN plan.checkpoint.initial_state
                   ELSE s[i - 1].new_state
  IN /\ validate_rebuild_checkpoint_shape(plan.checkpoint)
     /\ \A i \in 1 .. Len(s) :
          /\ validate_rebuild_spend_shape(plan.checkpoint, s[i])
          /\ s[i].spent_outpoint
               = IF i = 1 THEN plan.checkpoint.open_outpoint
                 ELSE s[i - 1].created_outpoint
          /\ s[i].new_state.state_digest # before(i).state_digest
          /\ \A j \in 1 .. i - 1 : s[j].receipt_id # s[i].receipt_id

Supported(plan) ==
  \A i \in 1 .. Len(plan.spends) :
    evidence_supports(plan.spends[i], seen[plan.spends[i].spent_outpoint])

\* The covenant is not indexed yet, or what is indexed is the beginning of
\* the plan.
Begun(plan) ==
  LET e == entry_for(plan)
      c == plan.checkpoint
  IN \/ e = None
     \/ /\ e.lineage_id = c.lineage_id
        /\ Len(e.spend_history) <= Len(plan.spends)
        /\ \A i \in 1 .. Len(e.spend_history) :
             /\ e.spend_history[i].receipt_id = plan.spends[i].receipt_id
             /\ e.spend_history[i].spent = plan.spends[i].spent_outpoint
             /\ e.spend_history[i].created = plan.spends[i].created_outpoint
             /\ e.spend_history[i].resulting_state_digest
                  = plan.spends[i].new_state.state_digest
        /\ IF e.spend_history = <<>>
             THEN /\ e.open_outpoint = c.open_outpoint
                  /\ e.latest_state = c.initial_state
             ELSE /\ e.spend_history[1].new_state_digest = c.initial_state.state_digest
                  /\ e.chain_id = c.chain_id
                  /\ e.latest_state.asset_id = c.initial_state.asset_id
                  /\ e.latest_state.receipt_policy = c.initial_state.receipt_policy

\* rollback popped every spend and left a score other than the checkpoint's.
ScoreDrifted(plan) ==
  LET e == entry_for(plan)
  IN /\ e # None
     /\ e.spend_history = <<>>
     /\ e.last_update_daa_score # plan.checkpoint.daa_score

-----------------------------------------------------------------------------

\* A rebuild that failed or was cut short can be resumed: wherever earlier
\* attempts, spends and rollbacks left the covenant, as long as that is a
\* beginning of the plan, running the plan once the chain supports it
\* completes it, with every receipt of the plan accepted, in order.  The one
\* exception is a covenant rolled back to nothing whose score rollback left
\* off the checkpoint's: that one the plan never completes.
PartialRebuildResumes ==
  \A plan \in Plan :
    /\ rebuild = None
    /\ plan.checkpoint.chain_id = SourceChain
    /\ WellFormed(plan) /\ Supported(plan) /\ Begun(plan)
    => LET result == rebuild_from(entry_for(plan), plan)
       IN IF ScoreDrifted(plan) THEN result = Failed
          ELSE /\ result # Failed
               /\ result.accepted_receipts
                    = [i \in 1 .. Len(plan.spends) |-> plan.spends[i].receipt_id]

\* What a running rebuild has passed is indexed, whatever the source did in
\* between: each plan spend before the current one is an accepted receipt of
\* the covenant, so Ok is returned only with the whole plan accepted.
PassedSpendsAccepted ==
  rebuild # None =>
    LET entry == entry_for(rebuild.plan)
    IN /\ entry # None
       /\ \A i \in 1 .. rebuild.at - 1 :
            has_receipt(entry, rebuild.plan.spends[i].receipt_id)

\* A rebuild does nothing to the index that single calls could not have done:
\* every one of its steps is an open, an apply_spend or no change at all, so
\* what holds of the indexer holds of a rebuilt one, half-finished rebuilds
\* included.
ImplementsIndexer == Spec

\* The comment on RebuildIndexer (crates/rgk-indexer/src/lib.rs:461-462): each
\* transition is "supported by observed chain evidence before applying it".
\* The evidence is the transaction that spends the outpoint, so the outpoint
\* the transition creates is one of that transaction's.
AppliedIsObserved ==
  [][\A c \in DOMAIN map :
       LET h == map[c].spend_history
           g == map'[c].spend_history
       IN rebuild # None /\ Len(g) > Len(h) =>
            LET new == g[Len(g)]
            IN new.created.transaction_id = seen[new.spent].spending_txid]_rebuildVars
=============================================================================
