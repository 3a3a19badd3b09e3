------------------------------- MODULE Walletd -------------------------------
(***************************************************************************)
(* The wallet daemon (crates/rgk-walletd) as a set of concurrent requests.  *)
(* A handler takes the store's mutex, gives it up for work on another       *)
(* thread (key derivation, the sled database, the node), and takes it again *)
(* to apply the result to whatever the store has become.  Each step below   *)
(* is what a handler does under one hold of the mutex; the identity session *)
(* is only changed while the store is held.  Every change ends in           *)
(* save_state, which may fail after memory has changed.  The process may    *)
(* stop at any point and be started again, on the same or another network.  *)
(*                                                                          *)
(* Of a row this module keeps the handles, which a scan may change; what    *)
(* else a scan and a recording do to a row is module WalletSync.            *)
(***************************************************************************)
EXTENDS Integers, Sequences, FiniteSets

CONSTANTS
  Identity,      \* a wallet id with its recovery phrase
  Network,       \* the networks the daemon may be started on
  LaneId,        \* lane ids of covenant evidence bundles
  CovenantId,    \* covenant ids of covenant evidence bundles
  Privacy,       \* PrivacyMode, as privacy_slug writes it
  Label,         \* labels of metadata-only lanes
  Slot,          \* bound: requests in flight at once
  MaxLanes,      \* bound: rows when a lane is created
  None

VARIABLES
  network,       \* config.network of the running process, None when it is down
  store,         \* the PersistedState in memory
  session,       \* the RuntimeIdentitySession
  disk,          \* the state file
  sled,          \* durable index: covenants opened, the covenant of each lane
  request        \* the handlers in flight, by slot

vars == <<network, store, session, disk, sled, request>>

\* The handles of a lane: 32 bytes each, the evidence's own or digests of the
\* creation's seed.  A row's lane_id is text, rgk:lane:<privacy>:<bytes>; other
\* code parses the bytes out of it.
MetadataLane == Identity \X Label \X (0 .. MaxLanes)
LaneHandle == Privacy \X (LaneId \cup MetadataLane)
CovenantHandle == CovenantId \cup MetadataLane
Row == [lane_id : LaneHandle, covenant_id : CovenantHandle]

parse_bytes32_handle(lane_id) == lane_id[2]

\* wallet_id stands for wallet_id and wallet_set_id, which only upsert_wallet
\* writes.  Fingerprint and address are written with the session, as functions
\* of its identity; they are read off the session here.
WalletProfile ==
  [wallet_id : Identity, network : Network,
   lifecycle : {"Locked", "Ready", "ServiceRequired"},
   identity_vault_status : {"Encrypted", "Unlocked"}]
IdentityVault == [identity : Identity, network : Network]
RuntimeIdentitySession == [wallet_id : Identity, identity : Identity]

\* Derived handles are digests and meet no handle of an evidence bundle.
ASSUME WalletdAssumption ==
  /\ MaxLanes \in Nat
  /\ None \notin Identity \cup Network \cup LaneId \cup CovenantId \cup Label
  /\ None \notin WalletProfile \cup IdentityVault \cup RuntimeIdentitySession
  /\ (LaneId \cup CovenantId) \cap MetadataLane = {}

PersistedState ==
  [profile : WalletProfile \cup {None},
   identity_vault : IdentityVault \cup {None}, lanes : Seq(Row)]

\* PersistedState::default().
NoState == [profile |-> None, identity_vault |-> None, lanes |-> <<>>]

NoRequest == [pc |-> "free"]

Init ==
  /\ network = None
  /\ store = NoState
  /\ session = None
  /\ disk = NoState
  /\ sled = [open |-> {}, lanes |-> [l \in {} |-> None]]
  /\ request = [s \in Slot |-> NoRequest]

-----------------------------------------------------------------------------
(* The state file.                                                          *)

\* normalise_loaded_state; a profile always has a vault, so the stored status
\* is Encrypted.
locked(state) ==
  IF state.profile = None
    THEN state
    ELSE [state EXCEPT !.profile.lifecycle = "Locked",
                       !.profile.identity_vault_status = "Encrypted"]

state_for_disk(state) == locked(state)

\* Variant: a file of any network is taken over.
isolate_state_for_network_any(state, n) == state

isolate_state_for_network(state, n) ==
  IF state.profile # None /\ state.profile.network # n THEN NoState ELSE state

\* save_state replaces the file or fails and leaves it.
save_state == disk' \in {disk, state_for_disk(store')}

start ==
  /\ network = None
  /\ \E n \in Network :
       /\ network' = n
       /\ store' = isolate_state_for_network(locked(disk), n)
  /\ session' = None
  /\ UNCHANGED <<disk, sled, request>>

\* The index with the lane of the request in s registered for its covenant,
\* whichever covenant it was registered for before.
lane_registered(s) ==
  LET id == parse_bytes32_handle(request[s].lane_id)
  IN [sled EXCEPT !.lanes =
        [l \in DOMAIN sled.lanes \cup {id} |->
           IF l = id THEN request[s].covenant_id ELSE sled.lanes[l]]]

\* The writes of a create_lane that has not reached its flush may be lost,
\* the later one first.
crash ==
  /\ network # None
  /\ network' = None
  /\ store' = NoState
  /\ session' = None
  /\ request' = [s \in Slot |-> NoRequest]
  /\ \/ UNCHANGED sled
     \/ \E s \in Slot :
          /\ request[s].pc = "opened"
          /\ sled' \in {[sled EXCEPT !.open = @ \ {request[s].covenant_id}],
                        lane_registered(s)}
  /\ UNCHANGED disk

-----------------------------------------------------------------------------
(* Requests.                                                                *)

ready_profile ==
  /\ network # None
  /\ store.profile # None
  /\ store.profile.lifecycle # "Locked"

begin(s, r) ==
  /\ request[s].pc = "free"
  /\ request' = [request EXCEPT ![s] = r]

finish(s) == request' = [request EXCEPT ![s] = NoRequest]

\* A handler that returns an error from work outside the store.
fail(s) ==
  /\ request[s].pc \in {"unlock", "sync", "scanned", "lane", "record"}
  /\ finish(s)
  /\ UNCHANGED <<network, store, session, disk, sled>>

lock_wallet ==
  /\ network # None
  /\ store.profile # None
  /\ store' = locked(store)
  /\ session' = None
  /\ save_state
  /\ UNCHANGED <<network, sled, request>>

update_kaspa_endpoint ==
  /\ ready_profile
  /\ store' = [store EXCEPT !.profile.lifecycle = "Ready"]
  /\ save_state
  /\ UNCHANGED <<network, session, sled, request>>

\* create_wallet and import_wallet; the identity is derived before the store is
\* looked at, so nothing the handler knows can be out of date.
upsert_wallet ==
  /\ network # None
  /\ \E i \in Identity :
       /\ store' =
            [profile |-> [wallet_id |-> i, network |-> network,
                          lifecycle |-> "Ready",
                          identity_vault_status |-> "Unlocked"],
             identity_vault |-> [identity |-> i, network |-> network],
             lanes |-> <<>>]
       /\ session' = [wallet_id |-> i, identity |-> i]
  /\ save_state
  /\ UNCHANGED <<network, sled, request>>

\* The vault opens only under the context of the profile read with it.
decrypt_identity_vault(profile, vault) ==
  /\ vault.identity = profile.wallet_id
  /\ vault.network = profile.network

unlock_snapshot(s) ==
  /\ network # None
  /\ store.profile # None
  /\ store.identity_vault # None
  /\ decrypt_identity_vault(store.profile, store.identity_vault)
  /\ begin(s, [pc |-> "unlock", identity |-> store.identity_vault.identity])
  /\ UNCHANGED <<network, store, session, disk, sled>>

unlocked(state) ==
  [state EXCEPT !.profile.lifecycle = "Ready",
                !.profile.identity_vault_status = "Unlocked"]

\* The profile is the one the store holds by now.
unlock_wallet(s) ==
  /\ request[s].pc = "unlock"
  /\ store' = unlocked(store)
  /\ session' = [wallet_id |-> store.profile.wallet_id,
                 identity |-> request[s].identity]
  /\ save_state
  /\ finish(s)
  /\ UNCHANGED <<network, sled>>

LaneIds(state) == {state.lanes[i].lane_id : i \in DOMAIN state.lanes}

\* store.lanes.iter().find: the first row with the lane id, 0 if there is none.
find(state, lane_id) ==
  LET rows == {i \in DOMAIN state.lanes : state.lanes[i].lane_id = lane_id}
  IN IF rows = {} THEN 0 ELSE CHOOSE i \in rows : \A j \in rows : i <= j

\* The database can be opened by one handler at a time.
sled_free == \A s \in Slot : request[s].pc # "opened"

\* A row of metadata only has no lane in the index, so its update would change
\* no handle; it is left out.
sync_snapshot(s) ==
  /\ ready_profile
  /\ begin(s, [pc |-> "sync",
               lanes |-> {id \in LaneIds(store) : parse_bytes32_handle(id) \in LaneId}])
  /\ UNCHANGED <<network, store, session, disk, sled>>

\* run_scan_tick and resolve_indexed_lanes: the update of a row names the
\* covenant the index has for the row's lane, and none if it has no such lane.
resolve_indexed_lanes(s) ==
  /\ request[s].pc = "sync"
  /\ sled_free
  /\ LET indexed == {id \in request[s].lanes :
                       parse_bytes32_handle(id) \in DOMAIN sled.lanes}
     IN request' = [request EXCEPT ![s] =
          [pc |-> "scanned",
           updates |-> [id \in indexed |-> sled.lanes[parse_bytes32_handle(id)]]]]
  /\ UNCHANGED <<network, store, session, disk, sled>>

apply_lane_resolution_updates(state, updates) ==
  [state EXCEPT !.lanes =
     [i \in DOMAIN state.lanes |->
        LET id == state.lanes[i].lane_id
        IN IF id \in DOMAIN updates /\ find(state, id) = i
             THEN [state.lanes[i] EXCEPT !.covenant_id = updates[id]]
             ELSE state.lanes[i]]]

\* apply_successful_scan after the scan, apply_failed_scan without one.
scan_applied(s) ==
  IF request[s].pc = "scanned"
    THEN [apply_lane_resolution_updates(store, request[s].updates)
            EXCEPT !.profile.lifecycle = "Ready"]
    ELSE [store EXCEPT !.profile.lifecycle = "ServiceRequired"]

\* Variant: the scan is applied without looking at the lifecycle again.
sync_wallet_unchecked(s) ==
  /\ request[s].pc \in {"sync", "scanned"}
  /\ store' = scan_applied(s)
  /\ save_state
  /\ finish(s)
  /\ UNCHANGED <<network, session, sled>>

\* The result is applied unless the wallet was locked meanwhile.
sync_wallet(s) ==
  /\ request[s].pc \in {"sync", "scanned"}
  /\ store.profile.lifecycle # "Locked"
  /\ store' = scan_applied(s)
  /\ save_state
  /\ finish(s)
  /\ UNCHANGED <<network, session, sled>>

-----------------------------------------------------------------------------
(* create_lane, record_proof and record_transition.                         *)

\* Some row has the bytes of the lane or of the covenant, whatever its privacy.
validate_lane_profile_uniqueness(lane, covenant) ==
  \A i \in DOMAIN store.lanes :
    /\ parse_bytes32_handle(store.lanes[i].lane_id) # lane
    /\ store.lanes[i].covenant_id # covenant

\* ready_wallet_id, then validate_lane_profile_uniqueness for evidence; with
\* metadata only, the seed holds the number of rows seen here.
create_lane_check(s) ==
  /\ ready_profile
  /\ Len(store.lanes) < MaxLanes
  /\ \/ \E p \in Privacy, l \in LaneId, c \in CovenantId :
          /\ validate_lane_profile_uniqueness(l, c)
          /\ begin(s, [pc |-> "lane", lane_id |-> <<p, l>>, covenant_id |-> c])
     \/ \E p \in Privacy, label \in Label :
          LET seed == <<store.profile.wallet_id, label, Len(store.lanes)>>
          IN begin(s, [pc |-> "indexed", lane_id |-> <<p, seed>>,
                       covenant_id |-> seed])
  /\ UNCHANGED <<network, store, session, disk, sled>>

\* SledIndexer::open, which refuses a covenant that is indexed already.
open_covenant(s) ==
  /\ request[s].pc = "lane"
  /\ sled_free
  /\ request[s].covenant_id \notin sled.open
  /\ sled' = [sled EXCEPT !.open = @ \cup {request[s].covenant_id}]
  /\ request' = [request EXCEPT ![s].pc = "opened"]
  /\ UNCHANGED <<network, store, session, disk>>

\* register_lane, which replaces the record of a lane that is registered, and
\* flush.
register_lane(s) ==
  /\ request[s].pc = "opened"
  /\ sled' = lane_registered(s)
  /\ request' = [request EXCEPT ![s].pc = "indexed"]
  /\ UNCHANGED <<network, store, session, disk>>

\* register_lane or the flush fails; the covenant stays open in the index.
register_lane_failed(s) ==
  /\ request[s].pc = "opened"
  /\ sled' \in {sled, lane_registered(s)}
  /\ finish(s)
  /\ UNCHANGED <<network, store, session, disk>>

\* Variant: the row is pushed without looking at the rows again.
create_lane_unchecked(s) ==
  /\ request[s].pc = "indexed"
  /\ store' = [store EXCEPT !.lanes =
                  Append(@, [lane_id |-> request[s].lane_id,
                             covenant_id |-> request[s].covenant_id])]
  /\ save_state
  /\ finish(s)
  /\ UNCHANGED <<network, session, sled>>

\* The row is pushed unless its lane id, privacy included, or its covenant have
\* appeared meanwhile.
create_lane(s) ==
  /\ request[s].pc = "indexed"
  /\ IF \E i \in DOMAIN store.lanes :
          \/ store.lanes[i].lane_id = request[s].lane_id
          \/ store.lanes[i].covenant_id = request[s].covenant_id
       THEN UNCHANGED <<store, disk>>
       ELSE /\ store' = [store EXCEPT !.lanes =
                           Append(@, [lane_id |-> request[s].lane_id,
                                      covenant_id |-> request[s].covenant_id])]
            /\ save_state
  /\ finish(s)
  /\ UNCHANGED <<network, session, sled>>

record_check(s) ==
  /\ ready_profile
  /\ store.lanes # <<>>
  /\ begin(s, [pc |-> "record"])
  /\ UNCHANGED <<network, store, session, disk, sled>>

\* The row takes the receipt and the digest, which are not kept here; the
\* lifecycle is not read.  Nothing is saved when the row is gone by now, which
\* leaves what a failed save leaves.
record_proof(s) ==
  /\ request[s].pc = "record"
  /\ UNCHANGED store
  /\ save_state
  /\ finish(s)
  /\ UNCHANGED <<network, session, sled>>

-----------------------------------------------------------------------------
Next ==
  \/ start
  \/ crash
  \/ upsert_wallet
  \/ lock_wallet
  \/ update_kaspa_endpoint
  \/ \E s \in Slot :
       \/ unlock_snapshot(s) \/ unlock_wallet(s)
       \/ sync_snapshot(s) \/ resolve_indexed_lanes(s) \/ sync_wallet(s)
       \/ create_lane_check(s) \/ open_covenant(s)
       \/ register_lane(s) \/ register_lane_failed(s) \/ create_lane(s)
       \/ record_check(s) \/ record_proof(s)
       \/ fail(s)

Spec == Init /\ [][Next]_vars

-----------------------------------------------------------------------------
\* What a handler in flight keeps between two holds of the store.
Request ==
  {NoRequest}
    \cup [pc : {"unlock"}, identity : Identity]
    \cup [pc : {"record"}]
    \cup [pc : {"sync"}, lanes : SUBSET LaneHandle]
    \cup [pc : {"scanned"},
          updates : UNION {[S -> CovenantId] : S \in SUBSET LaneHandle}]
    \cup [pc : {"lane", "opened"}, lane_id : Privacy \X LaneId,
          covenant_id : CovenantId]
    \cup [pc : {"indexed"}, lane_id : LaneHandle, covenant_id : CovenantHandle]

TypeOK ==
  /\ network \in Network \cup {None}
  /\ store \in PersistedState
  /\ session \in RuntimeIdentitySession \cup {None}
  /\ disk \in PersistedState
  /\ sled \in [open : SUBSET CovenantId,
               lanes : UNION {[S -> CovenantId] : S \in SUBSET LaneId}]
  /\ request \in [Slot -> Request]

\* The identity is in memory exactly while the profile is not locked, it is
\* kept for the wallet the profile shows, and what a restart would load is
\* locked: no scan, endpoint change or recording that was in flight when the
\* wallet was locked, replaced or restarted brings it back to Ready.
SessionFollowsLifecycle ==
  /\ (session # None) <=>
       (store.profile # None /\ store.profile.lifecycle # "Locked")
  /\ store.profile # None =>
       /\ store.profile.identity_vault_status =
            IF session = None THEN "Encrypted" ELSE "Unlocked"
       /\ session # None => session.wallet_id = store.profile.wallet_id
  /\ disk = locked(disk)

\* A profile always comes with the vault that was sealed for it, in memory and
\* in the file, so after any crash, failed save or replacement the wallet that
\* is shown is one its passphrase opens; and a running daemon shows no wallet
\* of another network than its own.
VaultOpensProfile ==
  /\ \A state \in {store, disk} :
       state.profile # None =>
         /\ state.identity_vault # None
         /\ decrypt_identity_vault(state.profile, state.identity_vault)
  /\ network # None /\ store.profile # None => store.profile.network = network

\* A row created from evidence, in memory or in the file, has its covenant and
\* its lane in the durable index, wherever the process stopped and whatever
\* request was half done: create_lane flushes the index before it pushes the
\* row, and a scan gives a row the covenant of a registered lane only.  Two rows
\* of a profile have different lane ids, although two requests may both have
\* passed the first check, and they show the same covenant only if they are rows
\* of the same lane: a covenant is opened once, for one lane.  (Rows of one lane
\* can exist, one for each privacy: the second check compares the text.)
RowsAreIndexed ==
  \A state \in {store, disk} :
    /\ \A i \in DOMAIN state.lanes :
         LET lane == parse_bytes32_handle(state.lanes[i].lane_id)
         IN lane \in LaneId =>
              lane \in DOMAIN sled.lanes /\ state.lanes[i].covenant_id \in sled.open
    /\ \A i, j \in DOMAIN state.lanes :
         /\ state.lanes[i].lane_id = state.lanes[j].lane_id => i = j
         /\ state.lanes[i].covenant_id = state.lanes[j].covenant_id =>
              parse_bytes32_handle(state.lanes[i].lane_id)
                = parse_bytes32_handle(state.lanes[j].lane_id)

\* docs/AVATO-WALLETD.md:80-83: "Successful create/import/unlock decrypts the
\* identity vault, reconstructs the runtime identity session, derives the
\* network-specific Kaspa funding address".  An unlock that was decrypting
\* while another wallet was imported puts the old identity, and its address,
\* into the new profile.
SessionIsOfVault ==
  session # None => session.identity = store.identity_vault.identity
=============================================================================
