---------------------------- MODULE ScanService -----------------------------
(***************************************************************************)
(* The restart-safe scanner: ScanService::tick (crates/rgk-sync) driving    *)
(* the wRPC back end (crates/rgk-kaspa) and writing to the durable cursor   *)
(* and observed-spend stores of SledIndexer (crates/rgk-indexer), run by    *)
(* the rgk-sync binary.  A tick is split wherever it calls the node or      *)
(* writes to the store: the node moves, and the process may stop, between   *)
(* any two of these steps.  Every error ends the process, as it does in the *)
(* binary, and so does a crash; what survives is what was written.          *)
(***************************************************************************)
EXTENDS KaspaNode

CONSTANTS
  MinConfirmations,   \* min_confirmation_count, 0 when not given
  Mode,               \* ways the binary is started: once, forever, until_idle
  MaxIdleTicks,       \* --max-idle-ticks
  MaxStops,           \* bound: failed calls, crashes and cleared cursors
  None

ScanCursor == [chain_id : Chain, block_hash : Block, daa_score : Nat]

ASSUME ScanAssumption ==
  /\ MinConfirmations \in Nat
  /\ Mode \subseteq {"once", "forever", "until_idle"}
  /\ MaxIdleTicks \in Nat
  /\ MaxStops \in Nat
  /\ None \notin Block /\ None \notin ScanCursor

ObservedSpendRecord == [spent : Outpoint, spending_txid : Txid, block_daa_score : Nat]

ScanBatch ==
  [removed : SUBSET Block, added : SUBSET Block, fetched : SUBSET Block,
   records : SUBSET ObservedSpendRecord]

VARIABLES
  scan_cursor,        \* durable: the stored cursor, or None
  observed_spends,    \* durable: outpoint -> ObservedSpendRecord
  cache,              \* WrpcBackend::observed_spends, gone when the process ends
  pc,                 \* where the process is
  mode,               \* how the process was started
  configured,         \* ScanServiceConfig::chain_id
  start_cursor,       \* local of tick
  batch,              \* local of tick: the answers collected so far
  idle_ticks,         \* local of run_until_idle
  stops,              \* how many of these happened
  origin              \* history: the block the cursor was initialised at

durable == <<scan_cursor, observed_spends>>
locals == <<start_cursor, batch>>
process == <<mode, configured>>
vars == <<node, durable, cache, pc, process, locals, idle_ticks, stops, origin>>

EmptyBatch == [removed |-> {}, added |-> {}, fetched |-> {}, records |-> {}]
NoSpends == [o \in {} |-> None]

Init ==
  /\ NodeInit
  /\ scan_cursor = None
  /\ observed_spends = NoSpends
  /\ cache = NoSpends
  /\ pc = "down"
  /\ mode = "once"
  /\ configured \in Chain
  /\ start_cursor = None
  /\ batch = EmptyBatch
  /\ idle_ticks = 0
  /\ stops = 0
  /\ origin = None

-----------------------------------------------------------------------------
(* The process: started, stopped, between ticks.                            *)

\* run: connect, open the database, enter one of the three loops.
Start ==
  /\ pc = "down"
  /\ pc' = "ready"
  /\ \E m \in Mode, k \in Chain : mode' = m /\ configured' = k
  /\ cache' = NoSpends
  /\ idle_ticks' = 0
  /\ UNCHANGED <<node, durable, locals, stops, origin>>

\* The process ends: its memory is gone.
exit ==
  /\ pc' = "down"
  /\ cache' = NoSpends
  /\ start_cursor' = None
  /\ batch' = EmptyBatch
  /\ idle_ticks' = 0
  /\ UNCHANGED process

\* A failed RPC or storage call, a signal or a crash, at any point of a tick.
Stop ==
  /\ pc # "down"
  /\ stops < MaxStops
  /\ stops' = stops + 1
  /\ exit
  /\ UNCHANGED <<node, durable, origin>>

\* Variant: run_until_idle does not count idle ticks.
tick_returned_uncounted(initialised, added) ==
  /\ pc' = "ready"
  /\ start_cursor' = None /\ batch' = EmptyBatch
  /\ idle_ticks' = 0
  /\ UNCHANGED <<cache, process>>

\* What the loop around tick does when it returns Ok.
tick_returned(initialised, added) ==
  LET idle == IF added = {} /\ ~ initialised THEN idle_ticks + 1 ELSE 0
  IN \/ /\ mode = "once"
        /\ exit
     \/ /\ mode = "until_idle"
        /\ idle >= MaxIdleTicks
        /\ exit
     \/ /\ mode = "until_idle"
        /\ idle < MaxIdleTicks
        /\ pc' = "ready"
        /\ idle_ticks' = idle
        /\ start_cursor' = None /\ batch' = EmptyBatch
        /\ UNCHANGED <<cache, process>>
     \/ /\ mode = "forever"
        /\ pc' = "ready"
        /\ start_cursor' = None /\ batch' = EmptyBatch
        /\ UNCHANGED <<cache, process, idle_ticks>>

-----------------------------------------------------------------------------
(* One tick.                                                                *)

\* Variant: a cursor of another network is replaced instead of refused.
current_scan_cursor_replacing ==
  /\ pc = "ready"
  /\ IF scan_cursor = None THEN TRUE ELSE scan_cursor.chain_id # configured
  /\ start_cursor' = [chain_id |-> configured, block_hash |-> tip[configured],
                      daa_score |-> block[tip[configured]].daa_score + 1]
  /\ pc' = "store_initial"
  /\ UNCHANGED <<node, durable, cache, process, batch, idle_ticks, stops, origin>>

\* No cursor stored: current_scan_cursor reads the sink and its DAA score.
current_scan_cursor ==
  /\ pc = "ready"
  /\ scan_cursor = None
  /\ start_cursor' = [chain_id |-> configured, block_hash |-> tip[configured],
                      daa_score |-> block[tip[configured]].daa_score + 1]
  /\ pc' = "store_initial"
  /\ UNCHANGED <<node, durable, cache, process, batch, idle_ticks, stops, origin>>

store_initial_cursor ==
  /\ pc = "store_initial"
  /\ scan_cursor' = start_cursor
  /\ origin' = start_cursor.block_hash
  /\ tick_returned(TRUE, {})
  /\ UNCHANGED <<node, observed_spends, stops>>

\* The cursor belongs to another network: Err(CursorChainMismatch).
cursor_chain_mismatch ==
  /\ pc = "ready"
  /\ scan_cursor # None
  /\ scan_cursor.chain_id # configured
  /\ exit
  /\ UNCHANGED <<node, durable, stops, origin>>

\* Variant: min_confirmation_count is not passed on to the node.
scan_from_cursor_unconfirmed ==
  /\ pc = "ready"
  /\ scan_cursor # None
  /\ scan_cursor.chain_id = configured
  /\ start_cursor' = scan_cursor
  /\ batch' = [removed |-> RemovedFrom(configured, scan_cursor.block_hash),
               added |-> AddedFrom(configured, scan_cursor.block_hash, 0),
               fetched |-> {}, records |-> {}]
  /\ pc' = "fetch"
  /\ UNCHANGED <<node, durable, cache, process, idle_ticks, stops, origin>>

\* scan_virtual_chain_from_block: one call for the block hashes ...
scan_from_cursor ==
  /\ pc = "ready"
  /\ scan_cursor # None
  /\ scan_cursor.chain_id = configured
  /\ start_cursor' = scan_cursor
  /\ batch' = [removed |-> RemovedFrom(configured, scan_cursor.block_hash),
               added |-> AddedFrom(configured, scan_cursor.block_hash,
                                   MinConfirmations),
               fetched |-> {}, records |-> {}]
  /\ pc' = "fetch"
  /\ UNCHANGED <<node, durable, cache, process, idle_ticks, stops, origin>>

rpc_block_accepting_daa_score(b) == block[b].daa_score + 1

records_of(b) ==
  {[spent |-> s.spent, spending_txid |-> s.txid,
    block_daa_score |-> rpc_block_accepting_daa_score(b)] : s \in block[b].spends}

\* The map after inserting the records; a later record of an outpoint
\* replaces an earlier one.
inserted(spends, records) ==
  [o \in DOMAIN spends \cup {r.spent : r \in records} |->
     IF o \in {r.spent : r \in records}
       THEN CHOOSE r \in records : r.spent = o
       ELSE spends[o]]

\* ... then one get_block per added block, lowest first, whose inputs go to
\* the cache and to the batch at once.
observe_rpc_block_spend_records ==
  /\ pc = "fetch"
  /\ \E b \in batch.added \ batch.fetched :
       /\ \A c \in batch.added \ batch.fetched :
            block[b].daa_score <= block[c].daa_score
       /\ cache' = inserted(cache, records_of(b))
       /\ batch' = [batch EXCEPT !.fetched = batch.fetched \cup {b},
                                 !.records = batch.records \cup records_of(b)]
  /\ UNCHANGED <<node, durable, pc, process, start_cursor, idle_ticks, stops,
                 origin>>

\* Blocks below the cursor left the chain: Err(Reorg), nothing is written.
reorg_detected ==
  /\ pc = "fetch"
  /\ batch.fetched = batch.added
  /\ batch.removed # {}
  /\ exit
  /\ UNCHANGED <<node, durable, stops, origin>>

batch_accepted ==
  /\ pc = "fetch"
  /\ batch.fetched = batch.added
  /\ batch.removed = {}
  /\ pc' = "record"
  /\ UNCHANGED <<node, durable, cache, process, locals, idle_ticks, stops, origin>>

\* One record_observed_spend of the loop, flushed before the next.  Records
\* of lower blocks come first; the order within a block is left open.
record_observed_spend ==
  /\ pc = "record"
  /\ \E r \in batch.records :
       /\ \A q \in batch.records : r.block_daa_score <= q.block_daa_score
       /\ observed_spends' = inserted(observed_spends, {r})
       /\ batch' = [batch EXCEPT !.records = @ \ {r}]
  /\ UNCHANGED <<node, scan_cursor, cache, pc, process, start_cursor,
                 idle_ticks, stops, origin>>

\* Variant: the hash of the cursor is not updated.
end_cursor_same_hash ==
  IF batch.added = {}
    THEN start_cursor
    ELSE [start_cursor EXCEPT !.daa_score =
            rpc_block_accepting_daa_score(Highest(batch.added))]

\* Every record is written: the cursor moves to the last added block.
end_cursor ==
  IF batch.added = {}
    THEN start_cursor
    ELSE [chain_id |-> start_cursor.chain_id,
          block_hash |-> Highest(batch.added),
          daa_score |-> rpc_block_accepting_daa_score(Highest(batch.added))]

\* Variant: the cursor is stored before the records.
store_scan_cursor_first ==
  /\ pc = "record"
  /\ IF scan_cursor # end_cursor
       THEN /\ scan_cursor' = end_cursor
            /\ UNCHANGED <<cache, pc, process, locals, idle_ticks>>
       ELSE /\ batch.records = {}
            /\ tick_returned(FALSE, batch.added)
            /\ UNCHANGED scan_cursor
  /\ UNCHANGED <<node, observed_spends, stops, origin>>

store_scan_cursor ==
  /\ pc = "record"
  /\ batch.records = {}
  /\ scan_cursor' = end_cursor
  /\ tick_returned(FALSE, batch.added)
  /\ UNCHANGED <<node, observed_spends, stops, origin>>

\* clear_scan_cursor, called while no scanner holds the database.
clear_scan_cursor ==
  /\ pc = "down"
  /\ scan_cursor # None
  /\ stops < MaxStops
  /\ stops' = stops + 1
  /\ scan_cursor' = None
  /\ origin' = None
  /\ UNCHANGED <<node, observed_spends, cache, pc, process, locals, idle_ticks>>

-----------------------------------------------------------------------------
Tick ==
  \/ current_scan_cursor
  \/ store_initial_cursor
  \/ cursor_chain_mismatch
  \/ scan_from_cursor
  \/ observe_rpc_block_spend_records
  \/ reorg_detected
  \/ batch_accepted
  \/ record_observed_spend
  \/ store_scan_cursor

Outside == UNCHANGED <<durable, cache, pc, process, locals, idle_ticks, stops, origin>>

Next ==
  \/ Start
  \/ Stop
  \/ Tick
  \/ clear_scan_cursor
  \/ MineBlock /\ Outside

Spec == Init /\ [][Next]_vars

\* The loop of the binary calls tick again and again, and a supervisor starts
\* the binary again; a bounded number of calls fail.
FairSpec == Spec /\ WF_vars(Tick) /\ WF_vars(Start)

-----------------------------------------------------------------------------
(* What the scanner guarantees.                                             *)

TypeOK ==
  /\ DOMAIN block \subseteq Block
  /\ \A b \in DOMAIN block : block[b] \in BlockData
  /\ tip \in [Chain -> DOMAIN block]
  /\ scan_cursor \in ScanCursor \cup {None}
  /\ DOMAIN observed_spends \subseteq Outpoint
  /\ \A o \in DOMAIN observed_spends : observed_spends[o] \in ObservedSpendRecord
  /\ DOMAIN cache \subseteq Outpoint
  /\ \A o \in DOMAIN cache : cache[o] \in ObservedSpendRecord
  /\ pc \in {"down", "ready", "store_initial", "fetch", "record"}
  /\ mode \in Mode \cup {"once"}
  /\ configured \in Chain
  /\ start_cursor \in ScanCursor \cup {None}
  /\ batch \in ScanBatch
  /\ idle_ticks \in Nat
  /\ stops \in 0 .. MaxStops
  /\ origin \in Block \cup {None}

\* The blocks the cursor claims to have been applied.
Applied ==
  block[scan_cursor.block_hash].ancestors \ block[origin].ancestors

\* A cursor never runs ahead of the evidence: for every block between the one
\* the cursor was initialised at and the one it points to, every spend of the
\* block is in the durable store, and it is that spend and not one a
\* branch scanned before a crash left behind.  This is what the trait comments
\* of ScanCursorStore and ObservedSpendStore require of the scanner.
CursorCovered ==
  scan_cursor # None =>
    \A b \in Applied : \A r \in records_of(b) :
      /\ r.spent \in DOMAIN observed_spends
      /\ observed_spends[r.spent] = r

CursorStep ==
  scan_cursor # None /\ scan_cursor' # None =>
    /\ scan_cursor'.chain_id = scan_cursor.chain_id
    /\ scan_cursor.block_hash \in block[scan_cursor'.block_hash].ancestors

\* Once initialised, the cursor only moves to a block above its own on its own
\* network, until it is cleared: a tick that finds blocks below the cursor
\* removed, or a cursor of another network, moves nothing.
CursorOnlyAdvances == [][CursorStep]_vars

OnSelectedChain ==
  scan_cursor.block_hash \in SelectedChain(scan_cursor.chain_id)

\* When no reorg is deeper than min_confirmation_count, a cursor some tick has
\* advanced is never removed from the chain, so Err(Reorg) cannot stop the
\* scanner.  The initial cursor has no such protection: current_scan_cursor
\* takes the tip itself, whatever min_confirmation_count is.
ConfirmedCursorStays ==
  MaxReorg <= MinConfirmations =>
    (scan_cursor # None /\ scan_cursor.block_hash # origin => OnSelectedChain)

CaughtUp ==
  AddedFrom(scan_cursor.chain_id, scan_cursor.block_hash, MinConfirmations) = {}

\* However often the process stops, it resumes from the stored cursor and in
\* the end applies every confirmed block, unless a reorg removed the block the
\* cursor points to: then no tick ever moves the cursor again.
CatchesUp ==
  <>[](scan_cursor # None /\ (CaughtUp \/ ~ OnSelectedChain))

\* run_until_idle returns once the chain stops growing.
UntilIdleReturns == pc = "ready" /\ mode = "until_idle" ~> pc = "down"
=============================================================================
