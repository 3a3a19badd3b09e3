---------------------------- MODULE WalletdProofs ----------------------------
(***************************************************************************)
(* The daemon's invariants for any number of requests in flight, wallets,   *)
(* networks and lanes.  What a request found when it began may be out of    *)
(* date when it goes on, so each invariant is strengthened by what stays    *)
(* true of the requests in flight.                                          *)
(***************************************************************************)
EXTENDS Walletd, SequenceTheorems, TLAPS

\* Requests live as long as the process, and the handlers that write into a
\* profile they do not build began when there was one.
InFlight ==
  \A s \in Slot :
    /\ request[s].pc # "free" => network # None
    /\ request[s].pc \in {"unlock", "sync", "scanned"} => store.profile # None

-----------------------------------------------------------------------------
(* Types.                                                                   *)

\* Locking a state touches two fields of its profile.
LEMMA Locked ==
  ASSUME NEW state \in PersistedState
  PROVE  /\ locked(state) \in PersistedState
         /\ locked(state).lanes = state.lanes
         /\ locked(state).identity_vault = state.identity_vault
         /\ locked(state).profile = None <=> state.profile = None
         /\ locked(locked(state)) = locked(state)
         /\ state.profile # None =>
              /\ locked(state).profile.lifecycle = "Locked"
              /\ locked(state).profile.identity_vault_status = "Encrypted"
              /\ locked(state).profile.wallet_id = state.profile.wallet_id
              /\ locked(state).profile.network = state.profile.network
<1>1. CASE state.profile = None
  BY <1>1 DEF locked
<1>2. CASE state.profile # None
  <2> DEFINE p == [state.profile EXCEPT !.lifecycle = "Locked",
                                        !.identity_vault_status = "Encrypted"]
  <2>1. state.profile \in WalletProfile
    BY <1>2 DEF PersistedState
  <2>2. /\ p \in WalletProfile
        /\ p.lifecycle = "Locked"
        /\ p.identity_vault_status = "Encrypted"
        /\ p.wallet_id = state.profile.wallet_id
        /\ p.network = state.profile.network
        /\ [p EXCEPT !.lifecycle = "Locked",
                     !.identity_vault_status = "Encrypted"] = p
    BY <2>1, Zenon DEF WalletProfile
  <2>3. p # None
    BY <2>2, WalletdAssumption
  <2>4. locked(state) = [state EXCEPT !.profile = p]
    BY <1>2, Zenon DEF locked, PersistedState
  <2> HIDE DEF p
  <2>5. /\ locked(state) \in PersistedState
        /\ locked(state).profile = p
        /\ locked(state).lanes = state.lanes
        /\ locked(state).identity_vault = state.identity_vault
    BY <2>2, <2>4 DEF PersistedState
  <2>6. locked(locked(state)) = locked(state)
    <3> DEFINE q == locked(state)
    <3>1. q.profile # None
      BY <2>3, <2>5
    <3>2. locked(q) = [q EXCEPT !.profile =
                         [@ EXCEPT !.lifecycle = "Locked",
                                   !.identity_vault_status = "Encrypted"]]
      BY <3>1, <2>5, Zenon DEF locked, PersistedState
    <3>3. locked(q) = [q EXCEPT !.profile = p]
      BY <3>2, <2>2, <2>5 DEF PersistedState
    <3>4. QED BY <3>3, <2>5 DEF PersistedState
  <2>7. QED BY <1>2, <2>2, <2>3, <2>5, <2>6
<1>3. QED BY <1>1, <1>2

\* What start loads: nothing, or the locked file of the daemon's own network.
LEMMA Isolated ==
  ASSUME NEW state \in PersistedState, NEW n
  PROVE  LET loaded == isolate_state_for_network(locked(state), n)
         IN /\ loaded \in PersistedState
            /\ \/ loaded = NoState
               \/ /\ loaded = locked(state)
                  /\ loaded.profile # None => loaded.profile.network = n
<1>1. NoState \in PersistedState
  BY EmptySeq DEF NoState, PersistedState
<1>2. QED BY <1>1, Locked DEF isolate_state_for_network

\* The rows of a state have different lane ids.
Unique(state) ==
  \A i, j \in DOMAIN state.lanes :
    state.lanes[i].lane_id = state.lanes[j].lane_id => i = j

\* The bytes of lane and covenant in the rows of a state.
Pairs(state) ==
  {<<parse_bytes32_handle(state.lanes[i].lane_id), state.lanes[i].covenant_id>> :
     i \in DOMAIN state.lanes}

\* New rows in place of the old ones.
LEMMA RowsReplaced ==
  ASSUME NEW state \in PersistedState, NEW rows \in Seq(Row),
         NEW r, r = [state EXCEPT !.lanes = rows]
  PROVE  /\ r \in PersistedState
         /\ r.profile = state.profile
         /\ r.identity_vault = state.identity_vault
         /\ r.lanes = rows
BY DEF PersistedState

\* create_lane adds one row behind the others.
LEMMA RowPushed ==
  ASSUME NEW state \in PersistedState, NEW row \in Row,
         NEW r, r = [state EXCEPT !.lanes = Append(@, row)]
  PROVE  /\ r \in PersistedState
         /\ r.profile = state.profile
         /\ r.identity_vault = state.identity_vault
         /\ Pairs(r) \subseteq
              Pairs(state) \cup {<<parse_bytes32_handle(row.lane_id), row.covenant_id>>}
         /\ Unique(state) /\ (\A i \in DOMAIN state.lanes :
                                state.lanes[i].lane_id # row.lane_id) => Unique(r)
<1> DEFINE n == Len(state.lanes)
           l == state.lanes
           m == Append(l, row)
<1>1. l \in Seq(Row)
  BY DEF PersistedState
<1>2. /\ m \in Seq(Row)
      /\ Len(m) = Len(l) + 1
      /\ \A i \in 1 .. Len(l) : m[i] = l[i]
      /\ m[Len(l) + 1] = row
  <2> HIDE DEF l
  <2>1. QED BY <1>1, AppendProperties
<1>3. n \in Nat /\ DOMAIN l = 1 .. n /\ DOMAIN m = 1 .. n + 1
  BY <1>1, <1>2, LenProperties
<1>4. r = [state EXCEPT !.lanes = m]
  BY DEF PersistedState
<1> HIDE DEF m
<1>5. /\ r \in PersistedState
      /\ r.profile = state.profile
      /\ r.identity_vault = state.identity_vault
      /\ r.lanes = m
  BY <1>2, <1>4, RowsReplaced
<1>6. \A i \in DOMAIN m : (i \in DOMAIN l /\ m[i] = l[i]) \/ (i = n + 1 /\ m[i] = row)
  <2>1. \A i \in 1 .. n + 1 : i \in 1 .. n \/ i = n + 1
    BY <1>3
  <2>2. QED BY <1>2, <1>3, <2>1
<1> HIDE DEF n, l
<1>7. Pairs(r) \subseteq
        Pairs(state) \cup {<<parse_bytes32_handle(row.lane_id), row.covenant_id>>}
  BY <1>5, <1>6 DEF Pairs, l
<1>8. Unique(state) /\ (\A i \in DOMAIN state.lanes :
                          state.lanes[i].lane_id # row.lane_id) => Unique(r)
  BY <1>5, <1>6 DEF Unique, l
<1>9. QED BY <1>5, <1>7, <1>8

\* The updates of a scan change the covenants of rows, to those they name.
LEMMA UpdatesApplied ==
  ASSUME NEW state \in PersistedState, NEW S \in SUBSET LaneHandle,
         NEW updates \in [S -> CovenantId],
         NEW r, r = apply_lane_resolution_updates(state, updates)
  PROVE  /\ r \in PersistedState
         /\ r.profile = state.profile
         /\ r.identity_vault = state.identity_vault
         /\ Pairs(r) \subseteq
              Pairs(state) \cup {<<parse_bytes32_handle(id), updates[id]>> : id \in S}
         /\ Unique(state) => Unique(r)
<1> DEFINE l == state.lanes
           n == Len(l)
           moved(i) == [l[i] EXCEPT !.covenant_id = updates[l[i].lane_id]]
           changes(i) == l[i].lane_id \in DOMAIN updates /\ find(state, l[i].lane_id) = i
           m == [i \in DOMAIN l |-> IF changes(i) THEN moved(i) ELSE l[i]]
<1>1. l \in Seq(Row)
  BY DEF PersistedState
<1>2. n \in Nat /\ DOMAIN l = 1 .. n /\ \A i \in DOMAIN l : l[i] \in Row
  <2> HIDE DEF l
  <2>1. QED BY <1>1, LenProperties
<1>3. ASSUME NEW i \in DOMAIN l
      PROVE  /\ m[i] \in Row
             /\ m[i].lane_id = l[i].lane_id
             /\ \/ m[i] = l[i]
                \/ l[i].lane_id \in S /\ m[i].covenant_id = updates[l[i].lane_id]
  <2>1. l[i] \in Row
    BY <1>2
  <2>2. CASE changes(i)
    <3>1. l[i].lane_id \in S /\ updates[l[i].lane_id] \in CovenantHandle
      BY <2>2 DEF CovenantHandle
    <3>2. m[i] = moved(i)
      BY <2>2
    <3> HIDE DEF l, m
    <3>3. QED BY <2>1, <3>1, <3>2 DEF Row
  <2>3. CASE ~ changes(i)
    <3>1. m[i] = l[i]
      BY <2>3
    <3>2. QED BY <2>1, <3>1
  <2>4. QED BY <2>2, <2>3
<1>4. DOMAIN m = DOMAIN l
  OBVIOUS
<1>5. r = [state EXCEPT !.lanes = m]
  BY DEF apply_lane_resolution_updates
<1> HIDE DEF l, m
<1>6. m \in Seq(Row)
  <2>1. m \in [1 .. n -> Row]
    <3>1. m = [i \in DOMAIN l |-> m[i]]
      BY DEF m
    <3>2. QED BY <1>2, <1>3, <3>1
  <2>2. QED BY <1>2, <2>1, SeqDef
<1>7. /\ r \in PersistedState
      /\ r.profile = state.profile
      /\ r.identity_vault = state.identity_vault
      /\ r.lanes = m
  BY <1>5, <1>6, RowsReplaced
<1>8. ASSUME NEW p \in Pairs(r)
      PROVE  p \in Pairs(state) \cup {<<parse_bytes32_handle(id), updates[id]>> : id \in S}
  <2>1. PICK i \in DOMAIN l :
          p = <<parse_bytes32_handle(m[i].lane_id), m[i].covenant_id>>
    BY <1>4, <1>7 DEF Pairs
  <2>2. CASE m[i] = l[i]
    BY <2>1, <2>2 DEF Pairs, l
  <2>3. CASE l[i].lane_id \in S /\ m[i].covenant_id = updates[l[i].lane_id]
    BY <1>3, <2>1, <2>3
  <2>4. QED BY <1>3, <2>2, <2>3
<1>9. Unique(state) => Unique(r)
  BY <1>3, <1>4, <1>7 DEF Unique, l
<1>10. QED BY <1>7, <1>8, <1>9

\* A scan or a change of the endpoint writes the lifecycle only.
LEMMA LifecycleSet ==
  ASSUME NEW state \in PersistedState, state.profile # None,
         NEW lifecycle \in {"Ready", "ServiceRequired"},
         NEW r, r = [state EXCEPT !.profile.lifecycle = lifecycle]
  PROVE  /\ r \in PersistedState
         /\ r.lanes = state.lanes
         /\ r.identity_vault = state.identity_vault
         /\ r.profile # None
         /\ r.profile.lifecycle = lifecycle
         /\ r.profile.identity_vault_status = state.profile.identity_vault_status
         /\ r.profile.wallet_id = state.profile.wallet_id
         /\ r.profile.network = state.profile.network
<1> DEFINE p == [state.profile EXCEPT !.lifecycle = lifecycle]
<1>1. state.profile \in WalletProfile
  BY DEF PersistedState
<1>2. /\ p \in WalletProfile
      /\ p.lifecycle = lifecycle
      /\ p.identity_vault_status = state.profile.identity_vault_status
      /\ p.wallet_id = state.profile.wallet_id
      /\ p.network = state.profile.network
  BY <1>1 DEF WalletProfile
<1>3. r = [state EXCEPT !.profile = p]
  BY DEF PersistedState
<1> HIDE DEF p
<1>4. /\ r \in PersistedState
      /\ r.profile = p
      /\ r.lanes = state.lanes
      /\ r.identity_vault = state.identity_vault
  BY <1>2, <1>3, Zenon DEF PersistedState
<1>5. p # None
  BY <1>2, WalletdAssumption
<1>6. QED BY <1>2, <1>4, <1>5

\* An unlock writes lifecycle and vault status.
LEMMA UnlockSet ==
  ASSUME NEW state \in PersistedState, state.profile # None
  PROVE  /\ unlocked(state) \in PersistedState
         /\ unlocked(state).lanes = state.lanes
         /\ unlocked(state).identity_vault = state.identity_vault
         /\ unlocked(state).profile # None
         /\ unlocked(state).profile.lifecycle = "Ready"
         /\ unlocked(state).profile.identity_vault_status = "Unlocked"
         /\ unlocked(state).profile.wallet_id = state.profile.wallet_id
         /\ unlocked(state).profile.network = state.profile.network
<1> DEFINE r == unlocked(state)
           p == [state.profile EXCEPT !.lifecycle = "Ready",
                                      !.identity_vault_status = "Unlocked"]
<1>1. state.profile \in WalletProfile
  BY DEF PersistedState
<1>2. /\ p \in WalletProfile
      /\ p.lifecycle = "Ready"
      /\ p.identity_vault_status = "Unlocked"
      /\ p.wallet_id = state.profile.wallet_id
      /\ p.network = state.profile.network
  BY <1>1, Zenon DEF WalletProfile
<1>3. r = [state EXCEPT !.profile = p]
  BY Zenon DEF PersistedState, unlocked
<1> HIDE DEF p, r
<1>4. /\ r \in PersistedState
      /\ r.profile = p
      /\ r.lanes = state.lanes
      /\ r.identity_vault = state.identity_vault
  BY <1>2, <1>3 DEF PersistedState
<1>5. p # None
  BY <1>2, WalletdAssumption
<1>6. QED BY <1>2, <1>4, <1>5 DEF r

\* upsert_wallet builds a profile and the vault that is sealed for it.
LEMMA Upserted ==
  ASSUME NEW i \in Identity, NEW n \in Network,
         NEW r, r = [profile |-> [wallet_id |-> i, network |-> n,
                                  lifecycle |-> "Ready",
                                  identity_vault_status |-> "Unlocked"],
                     identity_vault |-> [identity |-> i, network |-> n],
                     lanes |-> <<>>]
  PROVE  /\ r \in PersistedState
         /\ r.lanes = <<>>
         /\ r.identity_vault # None
         /\ r.identity_vault.identity = i
         /\ r.identity_vault.network = n
         /\ r.profile # None
         /\ r.profile.lifecycle = "Ready"
         /\ r.profile.identity_vault_status = "Unlocked"
         /\ r.profile.wallet_id = i
         /\ r.profile.network = n
<1>1. r.profile \in WalletProfile /\ r.identity_vault \in IdentityVault
  BY DEF WalletProfile, IdentityVault
<1>2. r \in PersistedState
  BY <1>1, EmptySeq DEF PersistedState
<1>3. r.profile # None /\ r.identity_vault # None
  BY <1>1, WalletdAssumption
<1>4. QED BY <1>2, <1>3

\* What the request in a slot holds, by its point.
LEMMA RequestKinds ==
  ASSUME TypeOK, NEW s \in Slot
  PROVE  /\ request[s].pc = "unlock" => request[s].identity \in Identity
         /\ request[s].pc = "sync" => request[s].lanes \in SUBSET LaneHandle
         /\ request[s].pc = "scanned" =>
              \E S \in SUBSET LaneHandle : request[s].updates \in [S -> CovenantId]
         /\ request[s].pc \in {"lane", "opened"} =>
              request[s] \in [pc : {"lane", "opened"}, lane_id : Privacy \X LaneId,
                              covenant_id : CovenantId]
         /\ request[s].pc = "indexed" =>
              request[s].lane_id \in LaneHandle /\ request[s].covenant_id \in CovenantHandle
<1>1. request[s] \in Request
  BY DEF TypeOK
<1>2. QED BY <1>1 DEF Request, NoRequest

TypeInv == TypeOK /\ InFlight

\* A handler begins with a request of its type.
LEMMA Begun ==
  ASSUME TypeOK, NEW s \in Slot, NEW r \in Request, begin(s, r)
  PROVE  /\ request' \in [Slot -> Request]
         /\ \A t \in Slot : request'[t] = IF t = s THEN r ELSE request[t]
BY DEF TypeOK, begin

\* A handler that ends frees its own slot and no other.
LEMMA Finished ==
  ASSUME TypeOK, NEW s \in Slot, finish(s)
  PROVE  /\ request' \in [Slot -> Request]
         /\ \A t \in Slot : request'[t] = IF t = s THEN NoRequest ELSE request[t]
BY DEF TypeOK, finish, Request

\* The requests that are not new keep what InFlight says of them, as no step
\* of a running daemon takes the profile away.
LEMMA FlightKept ==
  ASSUME InFlight, network' = network,
         store.profile # None => store'.profile # None,
         \A t \in Slot :
           \/ request'[t].pc = request[t].pc
           \/ request'[t].pc = "free"
           \/ /\ network # None
              /\ request'[t].pc \in {"unlock", "sync", "scanned"} => store.profile # None
  PROVE  InFlight'
BY DEF InFlight

\* The file is the one before or the locked form of the state in memory.
LEMMA Saved ==
  ASSUME TypeOK, store' \in PersistedState, save_state
  PROVE  /\ disk' \in PersistedState
         /\ disk' = disk \/ disk' = locked(store')
BY Locked DEF TypeOK, save_state, state_for_disk

\* The handlers' steps that leave the state alone and move requests only.
RequestStep(s) ==
  /\ UNCHANGED <<network, store, session, disk>>
  /\ \/ fail(s) \/ unlock_snapshot(s) \/ sync_snapshot(s) \/ resolve_indexed_lanes(s)
     \/ create_lane_check(s) \/ record_check(s)
     \/ open_covenant(s) \/ register_lane(s) \/ register_lane_failed(s)

\* The index keeps the covenant of every lane that is registered.
Index == [open : SUBSET CovenantId,
          lanes : UNION {[S -> CovenantId] : S \in SUBSET LaneId}]

\* The lane and the covenant of a request that works on the index.
LEMMA LaneRequest ==
  ASSUME TypeOK, NEW s \in Slot, request[s].pc \in {"lane", "opened"}
  PROVE  /\ parse_bytes32_handle(request[s].lane_id) \in LaneId
         /\ request[s].lane_id \in LaneHandle
         /\ request[s].covenant_id \in CovenantId
BY RequestKinds DEF LaneHandle, parse_bytes32_handle

\* Registering a lane keeps every other lane and every covenant.
LEMMA LaneRegistered ==
  ASSUME TypeOK, NEW s \in Slot, request[s].pc = "opened"
  PROVE  LET id == parse_bytes32_handle(request[s].lane_id)
             next == lane_registered(s)
         IN /\ next \in Index
            /\ next.open = sled.open
            /\ DOMAIN next.lanes = DOMAIN sled.lanes \cup {id}
            /\ \A l \in DOMAIN next.lanes :
                 \/ l = id /\ next.lanes[l] = request[s].covenant_id
                 \/ l \in DOMAIN sled.lanes /\ next.lanes[l] = sled.lanes[l]
<1> DEFINE id == parse_bytes32_handle(request[s].lane_id)
           next == lane_registered(s)
           m == [l \in DOMAIN sled.lanes \cup {id} |->
                   IF l = id THEN request[s].covenant_id ELSE sled.lanes[l]]
<1>1. id \in LaneId /\ request[s].covenant_id \in CovenantId
  BY LaneRequest
<1>2. next = [sled EXCEPT !.lanes = m]
  BY DEF lane_registered
<1> HIDE DEF id
<1>3. sled \in Index
  BY DEF TypeOK, Index
<1>4. PICK S \in SUBSET LaneId : sled.lanes \in [S -> CovenantId]
  BY <1>3 DEF Index
<1>5. m \in [S \cup {id} -> CovenantId]
  BY <1>1, <1>4
<1>6. /\ DOMAIN m = DOMAIN sled.lanes \cup {id}
      /\ \A l \in DOMAIN m :
           \/ l = id /\ m[l] = request[s].covenant_id
           \/ l \in DOMAIN sled.lanes /\ m[l] = sled.lanes[l]
  OBVIOUS
<1> HIDE DEF m, next
<1>7. m \in UNION {[T -> CovenantId] : T \in SUBSET LaneId}
  BY <1>1, <1>4, <1>5
<1>8. next \in Index /\ next.open = sled.open /\ next.lanes = m
  BY <1>2, <1>3, <1>7 DEF Index
<1>9. QED BY <1>6, <1>8 DEF next, id

\* create_lane_check begins with a lane of evidence, or one whose handles are
\* digests of the same seed.
LEMMA LaneChecked ==
  ASSUME TypeOK, NEW s \in Slot, create_lane_check(s)
  PROVE  \E r \in Request :
           /\ begin(s, r)
           /\ \/ r.pc = "lane"
              \/ /\ r.pc = "indexed"
                 /\ r.covenant_id \in MetadataLane
                 /\ parse_bytes32_handle(r.lane_id) = r.covenant_id
<1>1. CASE \E p \in Privacy, l \in LaneId, c \in CovenantId :
             begin(s, [pc |-> "lane", lane_id |-> <<p, l>>, covenant_id |-> c])
  <2>1. PICK p \in Privacy, l \in LaneId, c \in CovenantId :
          begin(s, [pc |-> "lane", lane_id |-> <<p, l>>, covenant_id |-> c])
    BY <1>1
  <2>2. [pc |-> "lane", lane_id |-> <<p, l>>, covenant_id |-> c] \in Request
    BY DEF Request
  <2>3. QED BY <2>1, <2>2
<1>2. CASE \E p \in Privacy, label \in Label :
             LET seed == <<store.profile.wallet_id, label, Len(store.lanes)>>
             IN begin(s, [pc |-> "indexed", lane_id |-> <<p, seed>>,
                          covenant_id |-> seed])
  <2>1. PICK p \in Privacy, label \in Label :
             LET seed == <<store.profile.wallet_id, label, Len(store.lanes)>>
             IN begin(s, [pc |-> "indexed", lane_id |-> <<p, seed>>,
                          covenant_id |-> seed])
    BY <1>2
  <2> DEFINE seed == <<store.profile.wallet_id, label, Len(store.lanes)>>
             r == [pc |-> "indexed", lane_id |-> <<p, seed>>, covenant_id |-> seed]
  <2>2. store.profile.wallet_id \in Identity
    BY DEF create_lane_check, ready_profile, TypeOK, PersistedState, WalletProfile
  <2>3. Len(store.lanes) \in 0 .. MaxLanes
    <3>1. store.lanes \in Seq(Row)
      BY DEF TypeOK, PersistedState
    <3>2. Len(store.lanes) \in Nat
      BY <3>1, LenProperties
    <3>3. Len(store.lanes) < MaxLanes
      BY DEF create_lane_check
    <3>4. QED BY <3>2, <3>3, WalletdAssumption
  <2>4. seed \in MetadataLane
    BY <2>2, <2>3 DEF MetadataLane
  <2>5. begin(s, r)
    BY <2>1
  <2> HIDE DEF seed
  <2>6. r \in Request
    BY <2>4 DEF Request, LaneHandle, CovenantHandle
  <2>7. r.pc = "indexed" /\ r.covenant_id = seed /\ parse_bytes32_handle(r.lane_id) = seed
    BY DEF parse_bytes32_handle
  <2> HIDE DEF r
  <2>8. QED BY <2>4, <2>5, <2>6, <2>7
<1>3. QED BY <1>1, <1>2, Zenon DEF create_lane_check

\* A step of a handler that leaves the state to the requests.
LEMMA OnlyRequests ==
  ASSUME TypeInv, NEW s \in Slot, RequestStep(s)
  PROVE  TypeInv'
<1> USE DEF TypeInv
<1>0. UNCHANGED <<network, store, session, disk>>
  BY DEF RequestStep
<1>1. CASE fail(s)
  BY <1>0, <1>1, Finished, FlightKept DEF fail, TypeOK, NoRequest
<1>2. CASE resolve_indexed_lanes(s)
  <2> DEFINE indexed == {id \in request[s].lanes :
                           parse_bytes32_handle(id) \in DOMAIN sled.lanes}
             updates == [id \in indexed |-> sled.lanes[parse_bytes32_handle(id)]]
             r == [pc |-> "scanned", updates |-> updates]
  <2>1. /\ request[s].pc = "sync"
        /\ request' = [request EXCEPT ![s] = r]
        /\ UNCHANGED sled
    BY <1>2 DEF resolve_indexed_lanes
  <2>2. indexed \in SUBSET LaneHandle
    BY <2>1, RequestKinds
  <2>3. PICK S \in SUBSET LaneId : sled.lanes \in [S -> CovenantId]
    BY DEF TypeOK
  <2>4. updates \in [indexed -> CovenantId]
    BY <2>3
  <2> HIDE DEF updates, indexed
  <2>5. r \in Request
    BY <2>2, <2>4 DEF Request
  <2>6. r.pc = "scanned"
    OBVIOUS
  <2> HIDE DEF r
  <2>7. /\ request' \in [Slot -> Request]
        /\ \A t \in Slot : request'[t] = IF t = s THEN r ELSE request[t]
    BY <2>1, <2>5 DEF TypeOK
  <2>8. network # None /\ store.profile # None
    BY <2>1 DEF InFlight
  <2>9. InFlight'
    BY <1>0, <2>7, <2>8, FlightKept
  <2>10. QED BY <1>0, <2>1, <2>7, <2>9 DEF TypeOK
<1>3. CASE unlock_snapshot(s)
  <2> DEFINE r == [pc |-> "unlock", identity |-> store.identity_vault.identity]
  <2>1. r \in Request
    <3>1. store.identity_vault \in IdentityVault
      BY <1>3 DEF unlock_snapshot, TypeOK, PersistedState
    <3>2. QED BY <3>1 DEF IdentityVault, Request
  <2>2. /\ network # None /\ store.profile # None /\ UNCHANGED sled
        /\ begin(s, r)
    BY <1>3 DEF unlock_snapshot
  <2> HIDE DEF r
  <2>3. QED BY <1>0, <2>1, <2>2, Begun, FlightKept DEF TypeOK
<1>4. CASE sync_snapshot(s)
  <2> DEFINE ids == {id \in LaneIds(store) : parse_bytes32_handle(id) \in LaneId}
             r == [pc |-> "sync", lanes |-> ids]
  <2>1. ids \in SUBSET LaneHandle
    <3>1. store.lanes \in Seq(Row)
      BY DEF TypeOK, PersistedState
    <3>2. \A i \in DOMAIN store.lanes : store.lanes[i] \in Row
      BY <3>1, LenProperties
    <3>3. QED BY <3>2 DEF LaneIds, Row
  <2>2. /\ network # None /\ store.profile # None /\ UNCHANGED sled
        /\ begin(s, r)
    BY <1>4 DEF sync_snapshot, ready_profile
  <2> HIDE DEF ids
  <2>3. r \in Request
    BY <2>1 DEF Request
  <2> HIDE DEF r
  <2>4. QED BY <1>0, <2>2, <2>3, Begun, FlightKept DEF TypeOK
<1>5. CASE create_lane_check(s)
  <2>1. /\ network # None /\ store.profile # None /\ UNCHANGED sled
    BY <1>5 DEF create_lane_check, ready_profile
  <2>2. PICK r \in Request : begin(s, r)
    BY <1>5, LaneChecked
  <2>3. QED BY <1>0, <2>1, <2>2, Begun, FlightKept DEF TypeOK
<1>6. CASE record_check(s)
  <2>1. /\ network # None /\ store.profile # None /\ UNCHANGED sled
        /\ begin(s, [pc |-> "record"])
    BY <1>6 DEF record_check, ready_profile
  <2>2. [pc |-> "record"] \in Request
    BY DEF Request
  <2>3. QED BY <1>0, <2>1, <2>2, Begun, FlightKept DEF TypeOK
<1>7. CASE open_covenant(s) \/ register_lane(s)
  <2>1. request[s].pc \in {"lane", "opened"}
    BY <1>7 DEF open_covenant, register_lane
  <2>2. sled' \in Index
    <3>1. CASE open_covenant(s)
      BY <2>1, <3>1, LaneRequest DEF open_covenant, TypeOK, Index
    <3>2. CASE register_lane(s)
      BY <3>2, LaneRegistered DEF register_lane
    <3>3. QED BY <1>7, <3>1, <3>2
  <2>3. request[s] \in [pc : {"lane", "opened"}, lane_id : Privacy \X LaneId,
                        covenant_id : CovenantId]
    BY <2>1, RequestKinds
  <2>4. PICK pc \in {"opened", "indexed"} :
          request' = [request EXCEPT ![s].pc = pc]
    BY <1>7 DEF open_covenant, register_lane
  <2>5. [request[s] EXCEPT !.pc = pc] \in Request
    <3>1. Privacy \X LaneId \subseteq LaneHandle /\ CovenantId \subseteq CovenantHandle
      BY DEF LaneHandle, CovenantHandle
    <3>2. QED BY <2>3, <2>4, <3>1 DEF Request
  <2>6. /\ request' \in [Slot -> Request]
        /\ \A t \in Slot : request'[t] = IF t = s THEN [request[s] EXCEPT !.pc = pc]
                                         ELSE request[t]
    BY <2>4, <2>5 DEF TypeOK
  <2>7. request'[s].pc = pc
    BY <2>3, <2>6
  <2>8. network # None
    BY <2>1 DEF InFlight
  <2>9. InFlight'
    BY <1>0, <2>4, <2>6, <2>7, <2>8, FlightKept
  <2>10. QED BY <1>0, <2>2, <2>6, <2>9 DEF TypeOK, Index
<1>8. CASE register_lane_failed(s)
  <2>1. sled' \in Index
    BY <1>8, LaneRegistered DEF register_lane_failed, TypeOK, Index
  <2>2. finish(s)
    BY <1>8 DEF register_lane_failed
  <2>3. QED BY <1>0, <2>1, <2>2, Finished, FlightKept DEF TypeOK, NoRequest, Index
<1>9. QED BY <1>1, <1>2, <1>3, <1>4, <1>5, <1>6, <1>7, <1>8 DEF RequestStep

\* What unlock_wallet makes of the profile that the store holds by then.
LEMMA Unlocks ==
  ASSUME TypeInv, NEW s \in Slot, unlock_wallet(s)
  PROVE  /\ request[s].identity \in Identity
         /\ store.profile # None
         /\ store' \in PersistedState
         /\ store'.lanes = store.lanes
         /\ store'.identity_vault = store.identity_vault
         /\ store'.profile # None
         /\ store'.profile.lifecycle = "Ready"
         /\ store'.profile.identity_vault_status = "Unlocked"
         /\ store'.profile.wallet_id = store.profile.wallet_id
         /\ store'.profile.network = store.profile.network
<1>1. request[s].identity \in Identity /\ store.profile # None
  BY RequestKinds DEF unlock_wallet, TypeInv, InFlight
<1>2. store' = unlocked(store)
  BY DEF unlock_wallet
<1>3. store \in PersistedState
  BY DEF TypeInv, TypeOK
<1>4. QED BY <1>1, <1>2, <1>3, UnlockSet

\* The lanes and covenants that a request holds and has from the index, or
\* derived itself.
RequestPairs(r) ==
  {p \in {<<parse_bytes32_handle(r.lane_id), r.covenant_id>>} : r.pc = "indexed"}
    \cup {<<parse_bytes32_handle(id), r.updates[id]>> :
            id \in {d \in DOMAIN r.updates : r.pc = "scanned"}}

\* What create_wallet and import_wallet leave, in memory and for the session.
LEMMA Creates ==
  ASSUME TypeInv, upsert_wallet
  PROVE  \E i \in Identity :
           /\ store' \in PersistedState
           /\ store'.lanes = <<>>
           /\ store'.identity_vault # None
           /\ store'.identity_vault.identity = i
           /\ store'.identity_vault.network = network
           /\ store'.profile # None
           /\ store'.profile.lifecycle = "Ready"
           /\ store'.profile.identity_vault_status = "Unlocked"
           /\ store'.profile.wallet_id = i
           /\ store'.profile.network = network
           /\ session' \in RuntimeIdentitySession
           /\ session'.wallet_id = i
<1>1. network \in Network
  BY DEF TypeInv, TypeOK, upsert_wallet
<1>2. PICK i \in Identity :
        /\ store' = [profile |-> [wallet_id |-> i, network |-> network,
                                  lifecycle |-> "Ready",
                                  identity_vault_status |-> "Unlocked"],
                     identity_vault |-> [identity |-> i, network |-> network],
                     lanes |-> <<>>]
        /\ session' = [wallet_id |-> i, identity |-> i]
  BY DEF upsert_wallet
<1>3. store'.lanes = <<>>
  BY <1>2
<1>4. session' \in RuntimeIdentitySession /\ session'.wallet_id = i
  BY <1>2 DEF RuntimeIdentitySession
<1>5. /\ store' \in PersistedState
      /\ store'.identity_vault # None
      /\ store'.identity_vault.identity = i
      /\ store'.identity_vault.network = network
      /\ store'.profile # None
      /\ store'.profile.lifecycle = "Ready"
      /\ store'.profile.identity_vault_status = "Unlocked"
      /\ store'.profile.wallet_id = i
      /\ store'.profile.network = network
  BY <1>1, <1>2, Upserted
<1>6. QED BY <1>3, <1>4, <1>5

\* What a scan leaves: a wallet that is not locked, and rows with the same
\* lanes, each with its covenant or the one the scan read for its lane.
LEMMA Syncs ==
  ASSUME TypeInv, NEW s \in Slot, sync_wallet(s)
  PROVE  /\ store.profile # None
         /\ store.profile.lifecycle # "Locked"
         /\ store' \in PersistedState
         /\ store'.identity_vault = store.identity_vault
         /\ store'.profile # None
         /\ store'.profile.lifecycle # "Locked"
         /\ store'.profile.identity_vault_status = store.profile.identity_vault_status
         /\ store'.profile.wallet_id = store.profile.wallet_id
         /\ store'.profile.network = store.profile.network
         /\ Unique(store) => Unique(store')
         /\ Pairs(store') \subseteq Pairs(store) \cup RequestPairs(request[s])
<1>1. /\ request[s].pc \in {"sync", "scanned"}
      /\ store.profile.lifecycle # "Locked"
      /\ store' = scan_applied(s)
  BY DEF sync_wallet
<1>2. store.profile # None
  BY <1>1 DEF TypeInv, InFlight
<1>3. store \in PersistedState
  BY DEF TypeInv, TypeOK
<1>4. CASE request[s].pc = "scanned"
  <2> DEFINE r == apply_lane_resolution_updates(store, request[s].updates)
  <2>1. store' = [r EXCEPT !.profile.lifecycle = "Ready"]
    BY <1>1, <1>4 DEF scan_applied
  <2>2. PICK S \in SUBSET LaneHandle : request[s].updates \in [S -> CovenantId]
    BY <1>4, RequestKinds DEF TypeInv
  <2>3. /\ r \in PersistedState
        /\ r.profile = store.profile
        /\ r.identity_vault = store.identity_vault
        /\ Pairs(r) \subseteq Pairs(store) \cup
             {<<parse_bytes32_handle(id), request[s].updates[id]>> : id \in S}
        /\ Unique(store) => Unique(r)
    BY <1>3, <2>2, UpdatesApplied
  <2> HIDE DEF r
  <2>4. /\ store' \in PersistedState
        /\ store'.lanes = r.lanes
        /\ store'.identity_vault = r.identity_vault
        /\ store'.profile # None
        /\ store'.profile.lifecycle = "Ready"
        /\ store'.profile.identity_vault_status = r.profile.identity_vault_status
        /\ store'.profile.wallet_id = r.profile.wallet_id
        /\ store'.profile.network = r.profile.network
    BY <1>2, <2>1, <2>3, LifecycleSet
  <2>5. Pairs(store') = Pairs(r) /\ (Unique(r) => Unique(store'))
    BY <2>4 DEF Pairs, Unique
  <2>6. {<<parse_bytes32_handle(id), request[s].updates[id]>> : id \in S}
          \subseteq RequestPairs(request[s])
    BY <1>4, <2>2 DEF RequestPairs
  <2>7. QED BY <1>1, <1>2, <2>3, <2>4, <2>5, <2>6
<1>5. CASE request[s].pc = "sync"
  <2>1. store' = [store EXCEPT !.profile.lifecycle = "ServiceRequired"]
    BY <1>1, <1>5 DEF scan_applied
  <2>2. /\ store' \in PersistedState
        /\ store'.lanes = store.lanes
        /\ store'.identity_vault = store.identity_vault
        /\ store'.profile # None
        /\ store'.profile.lifecycle = "ServiceRequired"
        /\ store'.profile.identity_vault_status = store.profile.identity_vault_status
        /\ store'.profile.wallet_id = store.profile.wallet_id
        /\ store'.profile.network = store.profile.network
    BY <1>2, <1>3, <2>1, LifecycleSet
  <2>3. Pairs(store') = Pairs(store) /\ (Unique(store) => Unique(store'))
    BY <2>2 DEF Pairs, Unique
  <2>4. QED BY <1>1, <1>2, <2>2, <2>3
<1>6. QED BY <1>1, <1>4, <1>5

\* What create_lane and a recording leave: the profile and the vault, and the
\* rows with at most the request's own added, under a lane id of its own.
LEMMA LanesOnly ==
  ASSUME TypeInv, NEW s \in Slot, create_lane(s) \/ record_proof(s)
  PROVE  /\ store' \in PersistedState
         /\ store'.profile = store.profile
         /\ store'.identity_vault = store.identity_vault
         /\ Unique(store) => Unique(store')
         /\ Pairs(store') \subseteq Pairs(store) \cup RequestPairs(request[s])
<1>1. store \in PersistedState
  BY DEF TypeInv, TypeOK
<1>2. CASE store' = store
  BY <1>1, <1>2 DEF Pairs, Unique
<1>3. CASE create_lane(s) /\ store' # store
  <2> DEFINE row == [lane_id |-> request[s].lane_id,
                     covenant_id |-> request[s].covenant_id]
  <2>1. request[s].pc = "indexed"
    BY <1>3 DEF create_lane
  <2>2. row \in Row
    BY <2>1, RequestKinds DEF TypeInv, Row
  <2>3. /\ store' = [store EXCEPT !.lanes = Append(@, row)]
        /\ \A i \in DOMAIN store.lanes : store.lanes[i].lane_id # row.lane_id
    BY <1>3 DEF create_lane
  <2>4. <<parse_bytes32_handle(row.lane_id), row.covenant_id>> \in RequestPairs(request[s])
    BY <2>1 DEF RequestPairs
  <2> HIDE DEF row
  <2>5. QED BY <1>1, <2>2, <2>3, <2>4, RowPushed
<1>4. QED BY <1>2, <1>3 DEF record_proof

\* The last steps of the handlers, that write the state.
StoreStep(s) ==
  unlock_wallet(s) \/ sync_wallet(s) \/ create_lane(s) \/ record_proof(s)

\* A step of the daemon starts, stops or locks it, replaces its wallet, changes the
\* endpoint, writes the state at the end of a request, or only moves a request.
LEMMA NextKinds ==
  ASSUME Next
  PROVE  \/ start \/ crash \/ upsert_wallet \/ lock_wallet \/ update_kaspa_endpoint
         \/ \E s \in Slot : StoreStep(s)
         \/ \E s \in Slot : RequestStep(s)
<1>1. ASSUME NEW s \in Slot,
             \/ fail(s) \/ unlock_snapshot(s) \/ sync_snapshot(s)
             \/ resolve_indexed_lanes(s) \/ create_lane_check(s) \/ record_check(s)
             \/ open_covenant(s) \/ register_lane(s) \/ register_lane_failed(s)
      PROVE  RequestStep(s)
  BY <1>1 DEF RequestStep, fail, unlock_snapshot, sync_snapshot,
    resolve_indexed_lanes, create_lane_check, record_check, open_covenant,
    register_lane, register_lane_failed
<1>2. QED BY <1>1 DEF Next, StoreStep

\* The state a handler's last step leaves in memory, whichever handler it is:
\* the request is over, and the index as it was.
LEMMA StoreSteps ==
  ASSUME TypeInv, NEW s \in Slot, StoreStep(s)
  PROVE  /\ store' \in PersistedState
         /\ session' \in RuntimeIdentitySession \cup {None}
         /\ finish(s)
         /\ UNCHANGED <<network, sled>>
         /\ (UNCHANGED <<store, disk>>) \/ save_state
         /\ store.profile # None => store'.profile # None
<1> USE DEF TypeInv
<1>1. CASE unlock_wallet(s)
  <2>1. /\ session' = [wallet_id |-> store.profile.wallet_id,
                       identity |-> request[s].identity]
        /\ save_state /\ finish(s)
        /\ UNCHANGED <<network, sled>>
    BY <1>1 DEF unlock_wallet
  <2>2. /\ request[s].identity \in Identity
        /\ store.profile # None
        /\ store' \in PersistedState
        /\ store'.profile # None
    BY <1>1, Unlocks
  <2>3. store.profile.wallet_id \in Identity
    BY <2>2 DEF TypeOK, PersistedState, WalletProfile
  <2>4. QED BY <2>1, <2>2, <2>3 DEF RuntimeIdentitySession
<1>2. CASE sync_wallet(s)
  BY <1>2, Syncs DEF sync_wallet, TypeOK
<1>3. CASE create_lane(s) \/ record_proof(s)
  <2>1. /\ UNCHANGED <<network, session, sled>>
        /\ finish(s)
        /\ (UNCHANGED <<store, disk>>) \/ save_state
    BY <1>3 DEF create_lane, record_proof
  <2>2. store' \in PersistedState /\ store'.profile = store.profile
    BY <1>3, LanesOnly
  <2>3. QED BY <2>1, <2>2 DEF TypeOK
<1>4. QED BY <1>1, <1>2, <1>3 DEF StoreStep

\* The types, with what the requests in flight rely on.
LEMMA TypeStep ==
  ASSUME TypeInv, Next
  PROVE  TypeInv'
<1> USE DEF TypeInv
<1>0. store \in PersistedState /\ disk \in PersistedState
  BY DEF TypeOK
<1>1. CASE start
  <2>1. PICK n \in Network :
          /\ network' = n
          /\ store' = isolate_state_for_network(locked(disk), n)
    BY <1>1 DEF start
  <2>2. store' \in PersistedState
    BY <1>0, <2>1, Isolated
  <2>3. TypeOK'
    BY <1>1, <2>1, <2>2 DEF start, TypeOK
  <2>4. \A t \in Slot : request'[t].pc = "free"
    BY <1>1 DEF start, InFlight
  <2>5. QED BY <2>3, <2>4 DEF InFlight
<1>2. CASE crash
  <2>1. NoState \in PersistedState
    BY EmptySeq DEF NoState, PersistedState
  <2>2. request' \in [Slot -> Request]
    BY <1>2 DEF crash, Request
  <2>3. sled' \in Index
    <3>1. sled \in Index
      BY DEF TypeOK, Index
    <3>2. ASSUME NEW s \in Slot, request[s].pc = "opened",
                 sled' \in {[sled EXCEPT !.open = @ \ {request[s].covenant_id}],
                            lane_registered(s)}
          PROVE  sled' \in Index
      <4>1. lane_registered(s) \in Index
        BY <3>2, LaneRegistered
      <4>2. [sled EXCEPT !.open = @ \ {request[s].covenant_id}] \in Index
        BY <3>1 DEF Index
      <4>3. QED BY <3>2, <4>1, <4>2
    <3>3. QED BY <1>2, <3>1, <3>2 DEF crash
  <2>4. \A t \in Slot : request'[t].pc = "free"
    BY <1>2 DEF crash, NoRequest
  <2>5. TypeOK'
    BY <1>2, <2>1, <2>2, <2>3 DEF crash, TypeOK, Index
  <2>6. QED BY <2>4, <2>5 DEF InFlight
<1>3. CASE lock_wallet
  <2>1. store' \in PersistedState /\ store'.profile # None
    BY <1>0, <1>3, Locked DEF lock_wallet
  <2>2. disk' \in PersistedState
    BY <1>3, <2>1, Saved DEF lock_wallet
  <2>3. InFlight'
    BY <1>3, <2>1, FlightKept DEF lock_wallet
  <2>4. QED BY <1>3, <2>1, <2>2, <2>3 DEF lock_wallet, TypeOK
<1>4. CASE update_kaspa_endpoint
  <2>1. store' \in PersistedState /\ store'.profile # None
    BY <1>0, <1>4, LifecycleSet DEF update_kaspa_endpoint, ready_profile
  <2>2. disk' \in PersistedState
    BY <1>4, <2>1, Saved DEF update_kaspa_endpoint
  <2>3. InFlight'
    BY <1>4, <2>1, FlightKept DEF update_kaspa_endpoint
  <2>4. QED BY <1>4, <2>1, <2>2, <2>3 DEF update_kaspa_endpoint, TypeOK
<1>5. ASSUME NEW s \in Slot, StoreStep(s)
      PROVE  TypeInv'
  <2>1. /\ store' \in PersistedState
        /\ session' \in RuntimeIdentitySession \cup {None}
        /\ finish(s)
        /\ UNCHANGED <<network, sled>>
        /\ (UNCHANGED <<store, disk>>) \/ save_state
        /\ store.profile # None => store'.profile # None
    BY <1>5, StoreSteps
  <2>2. disk' \in PersistedState
    BY <1>0, <2>1, Saved
  <2>3. /\ request' \in [Slot -> Request]
        /\ \A t \in Slot : request'[t] = IF t = s THEN NoRequest ELSE request[t]
    BY <2>1, Finished
  <2>4. InFlight'
    BY <2>1, <2>3, FlightKept DEF NoRequest
  <2>5. QED BY <2>1, <2>2, <2>3, <2>4 DEF TypeOK
<1>6. CASE upsert_wallet
  <2>1. /\ store' \in PersistedState /\ store'.profile # None
        /\ session' \in RuntimeIdentitySession
    BY <1>6, Creates
  <2>2. disk' \in PersistedState
    BY <1>6, <2>1, Saved DEF upsert_wallet
  <2>3. InFlight'
    BY <1>6, <2>1, FlightKept DEF upsert_wallet
  <2>4. QED BY <1>6, <2>1, <2>2, <2>3 DEF upsert_wallet, TypeOK
<1>7. QED BY <1>1, <1>2, <1>3, <1>4, <1>5, <1>6, NextKinds, OnlyRequests

\* The typed state, with what requests in flight rely on, in every reachable state.
LEMMA TypeInvAlways == Spec => []TypeInv
<1>1. Init => TypeInv
  <2>1. NoState \in PersistedState
    BY EmptySeq DEF NoState, PersistedState
  <2>2. NoRequest \in Request /\ NoRequest.pc = "free"
    BY DEF Request, NoRequest
  <2>3. Init => sled \in Index
    <3>1. [l \in {} |-> None] \in [{} -> CovenantId]
      OBVIOUS
    <3>2. [l \in {} |-> None] \in UNION {[S -> CovenantId] : S \in SUBSET LaneId}
      BY <3>1
    <3>3. QED BY <3>2 DEF Init, Index
  <2>4. QED BY <2>1, <2>2, <2>3 DEF Init, TypeInv, TypeOK, InFlight, Index
<1>2. TypeInv /\ UNCHANGED vars => TypeInv'
  BY DEF TypeInv, TypeOK, InFlight, vars
<1>3. QED BY <1>1, <1>2, TypeStep, PTL DEF Spec

\* Every handler, save and restart keeps the shape of state, file and requests.
THEOREM WalletdTypes == Spec => []TypeOK
BY TypeInvAlways, PTL DEF TypeInv

-----------------------------------------------------------------------------
(* The session and the lifecycle.                                           *)

\* The file stays locked, whether the save fails or not.
LEMMA FileLocked ==
  ASSUME TypeInv, store' \in PersistedState, disk = locked(disk),
         (UNCHANGED disk) \/ save_state
  PROVE  disk' = locked(disk')
BY Locked DEF save_state, state_for_disk

\* Memory after the step agrees with the session.
Agree(state, identity) ==
  /\ (identity # None) <=> (state.profile # None /\ state.profile.lifecycle # "Locked")
  /\ state.profile # None =>
       /\ state.profile.identity_vault_status =
            IF identity = None THEN "Encrypted" ELSE "Unlocked"
       /\ identity # None => identity.wallet_id = state.profile.wallet_id

\* Every step keeps session and lifecycle in agreement, and the file locked.
LEMMA SessionStep ==
  ASSUME TypeInv, SessionFollowsLifecycle, Next
  PROVE  SessionFollowsLifecycle'
<1>0. /\ store \in PersistedState /\ disk \in PersistedState
      /\ disk = locked(disk)
      /\ Agree(store, session)
  BY DEF TypeInv, TypeOK, SessionFollowsLifecycle, Agree
<1>a. SUFFICES Agree(store', session') /\ disk' = locked(disk')
  BY DEF SessionFollowsLifecycle, Agree
<1>b. \A i : NoState.profile = None /\ (Agree(NoState, i) <=> i = None)
  BY DEF NoState, Agree
<1>1. CASE start
  <2>1. PICK n \in Network : store' = isolate_state_for_network(locked(disk), n)
    BY <1>1 DEF start
  <2>2. session' = None /\ disk' = disk
    BY <1>1 DEF start
  <2>3. store' = NoState \/ store' = locked(disk)
    BY <1>0, <2>1, Isolated
  <2>4. Agree(store', session')
    BY <1>0, <1>b, <2>2, <2>3, Locked DEF Agree
  <2>5. QED BY <1>0, <2>2, <2>4
<1>2. CASE crash
  BY <1>0, <1>b, <1>2 DEF crash
<1>3. CASE lock_wallet
  <2>1. store' \in PersistedState /\ Agree(store', session')
    BY <1>0, <1>3, Locked DEF lock_wallet, Agree
  <2>2. QED BY <1>0, <1>3, <2>1, FileLocked DEF lock_wallet
<1>4. CASE update_kaspa_endpoint
  <2>1. /\ store.profile # None /\ store.profile.lifecycle # "Locked"
        /\ store' = [store EXCEPT !.profile.lifecycle = "Ready"]
        /\ session' = session /\ save_state
    BY <1>4 DEF update_kaspa_endpoint, ready_profile
  <2>2. store' \in PersistedState /\ Agree(store', session')
    BY <1>0, <2>1, LifecycleSet DEF Agree
  <2>3. QED BY <1>0, <2>1, <2>2, FileLocked
<1>5. ASSUME NEW s \in Slot, StoreStep(s)
      PROVE  Agree(store', session') /\ disk' = locked(disk')
  <2>1. /\ store' \in PersistedState
        /\ (UNCHANGED <<store, disk>>) \/ save_state
    BY <1>5, StoreSteps
  <2>2. disk' = locked(disk')
    BY <1>0, <2>1, FileLocked
  <2>4. CASE unlock_wallet(s)
    <3>1. session' = [wallet_id |-> store.profile.wallet_id,
                      identity |-> request[s].identity]
      BY <2>4 DEF unlock_wallet
    <3>2. /\ request[s].identity \in Identity
          /\ store.profile # None
          /\ store'.profile # None
          /\ store'.profile.lifecycle = "Ready"
          /\ store'.profile.identity_vault_status = "Unlocked"
          /\ store'.profile.wallet_id = store.profile.wallet_id
      BY <2>4, Unlocks
    <3>3. session' # None /\ session'.wallet_id = store.profile.wallet_id
      <4>1. store.profile.wallet_id \in Identity
        BY <1>0, <3>2 DEF PersistedState, WalletProfile
      <4>2. session' \in RuntimeIdentitySession
        BY <3>1, <3>2, <4>1 DEF RuntimeIdentitySession
      <4>3. QED BY <3>1, <4>2, WalletdAssumption
    <3>4. QED BY <2>2, <3>2, <3>3 DEF Agree
  <2>5. CASE sync_wallet(s)
    <3>1. session' = session
      BY <2>5 DEF sync_wallet
    <3>2. Agree(store', session')
      BY <1>0, <2>5, <3>1, Syncs DEF Agree
    <3>3. QED BY <2>2, <3>2
  <2>6. CASE create_lane(s) \/ record_proof(s)
    <3>1. session' = session
      BY <2>6 DEF create_lane, record_proof
    <3>2. store'.profile = store.profile
      BY <1>5, <2>6, LanesOnly
    <3>3. QED BY <1>0, <2>2, <3>1, <3>2, Zenon DEF Agree
  <2>7. QED BY <1>5, <2>4, <2>5, <2>6 DEF StoreStep
<1>6. ASSUME UNCHANGED <<store, session, disk>>
      PROVE  Agree(store', session') /\ disk' = locked(disk')
  BY <1>0, <1>6
<1>7. CASE upsert_wallet
  <2>1. PICK i \in Identity :
          /\ store' \in PersistedState
          /\ store'.profile # None
          /\ store'.profile.lifecycle = "Ready"
          /\ store'.profile.identity_vault_status = "Unlocked"
          /\ store'.profile.wallet_id = i
          /\ session' \in RuntimeIdentitySession
          /\ session'.wallet_id = i
    BY <1>7, Creates
  <2>2. session' # None
    BY <2>1, WalletdAssumption
  <2>3. Agree(store', session')
    BY <2>1, <2>2 DEF Agree
  <2>4. QED BY <1>0, <1>7, <2>1, <2>3, FileLocked DEF upsert_wallet
<1>8. QED BY <1>1, <1>2, <1>3, <1>4, <1>5, <1>6, <1>7, NextKinds DEF RequestStep

\* The identity is in memory exactly while the profile is not locked and for
\* the wallet the profile shows, and the file is always a locked one, however
\* many requests are in flight across locks, imports, failed saves and restarts.
THEOREM SessionCorrect == Spec => []SessionFollowsLifecycle
<1>1. Init => SessionFollowsLifecycle
  BY DEF Init, SessionFollowsLifecycle, NoState, locked
<1>2. TypeInv /\ SessionFollowsLifecycle /\ [Next]_vars => SessionFollowsLifecycle'
  <2>1. SessionFollowsLifecycle /\ UNCHANGED vars => SessionFollowsLifecycle'
    BY DEF SessionFollowsLifecycle, vars
  <2>2. QED BY <2>1, SessionStep
<1>3. QED BY <1>1, <1>2, TypeInvAlways, PTL DEF Spec

-----------------------------------------------------------------------------
(* The vault and the profile.                                               *)

\* A state whose profile, if any, comes with the vault sealed for it.
Sealed(state) ==
  state.profile # None =>
    /\ state.identity_vault # None
    /\ state.identity_vault.identity = state.profile.wallet_id
    /\ state.identity_vault.network = state.profile.network

\* Locking a state leaves wallet id, network and vault as they were.
LEMMA LockedSealed ==
  ASSUME NEW state \in PersistedState, Sealed(state)
  PROVE  Sealed(locked(state))
BY Locked DEF Sealed

\* A sealed state in memory leaves a sealed file.
LEMMA FileSealed ==
  ASSUME store' \in PersistedState, Sealed(store'), Sealed(disk),
         (UNCHANGED disk) \/ save_state
  PROVE  Sealed(disk')
<1>1. CASE UNCHANGED disk
  BY <1>1
<1>2. CASE disk' = locked(store')
  BY <1>2, LockedSealed
<1>3. QED BY <1>1, <1>2 DEF save_state, state_for_disk

\* The wallet in memory is of the network n, if there is one.
OfNetwork(state, n) == state.profile # None => state.profile.network = n

\* A change that keeps wallet id, network and vault.
LEMMA SealedKept ==
  ASSUME NEW state, NEW r, Sealed(state),
         state.profile # None,
         r.identity_vault = state.identity_vault,
         r.profile.wallet_id = state.profile.wallet_id,
         r.profile.network = state.profile.network
  PROVE  Sealed(r) /\ \A n : OfNetwork(state, n) => OfNetwork(r, n)
BY DEF Sealed, OfNetwork

\* Every step keeps the vault sealed for the profile beside it, in memory and on disk.
LEMMA VaultStep ==
  ASSUME TypeInv, VaultOpensProfile, Next
  PROVE  VaultOpensProfile'
<1>0. store \in PersistedState /\ disk \in PersistedState
  BY DEF TypeInv, TypeOK
<1>a. /\ Sealed(store) /\ Sealed(disk)
      /\ network # None => OfNetwork(store, network)
  BY DEF VaultOpensProfile, decrypt_identity_vault, Sealed, OfNetwork
<1>b. SUFFICES /\ Sealed(store') /\ Sealed(disk')
               /\ network' # None => OfNetwork(store', network')
  BY DEF VaultOpensProfile, decrypt_identity_vault, Sealed, OfNetwork
<1>c. Sealed(NoState) /\ \A n : OfNetwork(NoState, n)
  BY DEF Sealed, OfNetwork, NoState
<1>1. CASE start
  <2>1. PICK n \in Network :
          /\ network' = n
          /\ store' = isolate_state_for_network(locked(disk), n)
    BY <1>1 DEF start
  <2>2. disk' = disk
    BY <1>1 DEF start
  <2>3. CASE store' = NoState
    BY <1>a, <1>c, <2>2, <2>3
  <2>4. CASE /\ store' = locked(disk)
             /\ store'.profile # None => store'.profile.network = n
    <3>1. Sealed(store')
      BY <1>0, <1>a, <2>4, LockedSealed
    <3>2. OfNetwork(store', n)
      BY <2>4 DEF OfNetwork
    <3>3. QED BY <1>a, <2>1, <2>2, <3>1, <3>2
  <2>5. QED BY <1>0, <2>1, <2>3, <2>4, Isolated
<1>2. CASE crash
  BY <1>a, <1>c, <1>2 DEF crash
<1>3. CASE lock_wallet
  <2>1. /\ store' = locked(store) /\ store.profile # None
        /\ network' = network /\ save_state
    BY <1>3 DEF lock_wallet
  <2>2. /\ store' \in PersistedState
        /\ store'.profile.network = store.profile.network
    BY <1>0, <2>1, Locked
  <2>3. Sealed(store')
    BY <1>0, <1>a, <2>1, LockedSealed
  <2>4. Sealed(disk')
    BY <1>a, <2>1, <2>2, <2>3, FileSealed
  <2>5. QED BY <1>a, <2>1, <2>2, <2>3, <2>4 DEF OfNetwork
<1>4. CASE update_kaspa_endpoint
  <2>1. /\ store.profile # None
        /\ store' = [store EXCEPT !.profile.lifecycle = "Ready"]
        /\ network' = network /\ save_state
    BY <1>4 DEF update_kaspa_endpoint, ready_profile
  <2>2. /\ store' \in PersistedState
        /\ store'.identity_vault = store.identity_vault
        /\ store'.profile.wallet_id = store.profile.wallet_id
        /\ store'.profile.network = store.profile.network
    BY <1>0, <2>1, LifecycleSet
  <2>3. /\ Sealed(store')
        /\ \A n : OfNetwork(store, n) => OfNetwork(store', n)
    BY <1>a, <2>1, <2>2, SealedKept, Zenon
  <2>4. Sealed(disk')
    BY <1>a, <2>1, <2>2, <2>3, FileSealed
  <2>5. QED BY <1>a, <2>1, <2>3, <2>4
<1>5. ASSUME NEW s \in Slot, StoreStep(s)
      PROVE  /\ Sealed(store') /\ Sealed(disk')
             /\ network' # None => OfNetwork(store', network')
  <2>1. /\ store' \in PersistedState
        /\ network' = network
        /\ (UNCHANGED <<store, disk>>) \/ save_state
    BY <1>5, StoreSteps
  <2>2. SUFFICES /\ Sealed(store')
                 /\ network # None => OfNetwork(store', network)
    BY <1>a, <2>1, FileSealed
  <2>4. CASE unlock_wallet(s)
    <3>1. /\ store.profile # None
          /\ store'.identity_vault = store.identity_vault
          /\ store'.profile.wallet_id = store.profile.wallet_id
          /\ store'.profile.network = store.profile.network
      BY <2>4, Unlocks
    <3>2. QED BY <1>a, <3>1, SealedKept
  <2>5. CASE sync_wallet(s)
    <3>1. /\ store.profile # None
          /\ store'.identity_vault = store.identity_vault
          /\ store'.profile.wallet_id = store.profile.wallet_id
          /\ store'.profile.network = store.profile.network
      BY <2>5, Syncs
    <3>2. QED BY <1>a, <3>1, SealedKept
  <2>6. CASE create_lane(s) \/ record_proof(s)
    <3>1. /\ store'.profile = store.profile
          /\ store'.identity_vault = store.identity_vault
      BY <2>6, LanesOnly
    <3>2. QED BY <1>a, <3>1 DEF Sealed, OfNetwork
  <2>7. QED BY <1>5, <2>4, <2>5, <2>6 DEF StoreStep
<1>6. ASSUME UNCHANGED <<network, store, disk>>
      PROVE  /\ Sealed(store') /\ Sealed(disk')
             /\ network' # None => OfNetwork(store', network')
  BY <1>a, <1>6
<1>7. CASE upsert_wallet
  <2>1. PICK i \in Identity :
          /\ store' \in PersistedState
          /\ store'.identity_vault # None
          /\ store'.identity_vault.identity = i
          /\ store'.identity_vault.network = network
          /\ store'.profile.wallet_id = i
          /\ store'.profile.network = network
    BY <1>7, Creates
  <2>2. Sealed(store') /\ OfNetwork(store', network)
    BY <2>1 DEF Sealed, OfNetwork
  <2>3. save_state /\ network' = network
    BY <1>7 DEF upsert_wallet
  <2>4. Sealed(disk')
    BY <1>a, <2>1, <2>2, <2>3, FileSealed
  <2>5. QED BY <2>2, <2>3, <2>4
<1>8. QED BY <1>1, <1>2, <1>3, <1>4, <1>5, <1>6, <1>7, NextKinds DEF RequestStep

\* The profile in memory and the one in the file come with the vault sealed for
\* them, and a running daemon shows no wallet of another network.
THEOREM VaultCorrect == Spec => []VaultOpensProfile
<1>1. Init => VaultOpensProfile
  BY DEF Init, VaultOpensProfile, NoState
<1>2. TypeInv /\ VaultOpensProfile /\ [Next]_vars => VaultOpensProfile'
  <2>1. VaultOpensProfile /\ UNCHANGED vars => VaultOpensProfile'
    BY DEF VaultOpensProfile, decrypt_identity_vault, vars
  <2>2. QED BY <2>1, VaultStep
<1>3. QED BY <1>1, <1>2, TypeInvAlways, PTL DEF Spec

-----------------------------------------------------------------------------
(* The rows and the index.                                                  *)

\* A lane and a covenant as they may be shown together.  Either comes from
\* evidence, the lane is registered and the covenant open in the index, or both
\* are the digest of one seed.
SoundPair(p, index) ==
  \/ /\ p[1] \in LaneId /\ p[1] \in DOMAIN index.lanes
     /\ p[2] \in CovenantId /\ p[2] \in index.open
  \/ p[1] \in MetadataLane /\ p[2] = p[1]

\* Every lane and covenant that rows, file, index and requests have together,
\* but for a create_lane that has not registered its lane yet.
Known ==
  Pairs(store) \cup Pairs(disk)
    \cup {<<l, sled.lanes[l]>> : l \in DOMAIN sled.lanes}
    \cup UNION {RequestPairs(request[s]) : s \in Slot}

\* A covenant belongs to one lane, wherever the two appear together.
PairsInv ==
  /\ \A p \in Known : SoundPair(p, sled)
  /\ \A p, q \in Known : p[2] = q[2] => p[1] = q[1]

\* The covenant of a create_lane that has opened it and not yet registered its
\* lane is known nowhere else, and there is one such request: it holds the
\* database.
OpenedInv ==
  \A s \in Slot :
    request[s].pc = "opened" =>
      /\ request[s].covenant_id \in sled.open
      /\ \A p \in Known : p[2] # request[s].covenant_id
      /\ \A t \in Slot : request[t].pc = "opened" => t = s

RowsInv == Unique(store) /\ Unique(disk) /\ PairsInv /\ OpenedInv

\* The invariant says what RowsAreIndexed does.
LEMMA RowsFollow ==
  ASSUME RowsInv
  PROVE  RowsAreIndexed
<1> SUFFICES ASSUME NEW state \in {store, disk}
             PROVE
    /\ \A i \in DOMAIN state.lanes :
         LET lane == parse_bytes32_handle(state.lanes[i].lane_id)
         IN lane \in LaneId =>
              lane \in DOMAIN sled.lanes /\ state.lanes[i].covenant_id \in sled.open
    /\ \A i, j \in DOMAIN state.lanes :
         /\ state.lanes[i].lane_id = state.lanes[j].lane_id => i = j
         /\ state.lanes[i].covenant_id = state.lanes[j].covenant_id =>
              parse_bytes32_handle(state.lanes[i].lane_id)
                = parse_bytes32_handle(state.lanes[j].lane_id)
  BY DEF RowsAreIndexed
<1> DEFINE pair(i) == <<parse_bytes32_handle(state.lanes[i].lane_id),
                        state.lanes[i].covenant_id>>
<1>1. \A i \in DOMAIN state.lanes : pair(i) \in Known
  BY DEF Known, Pairs
<1>2. \A i \in DOMAIN state.lanes : SoundPair(pair(i), sled)
  BY <1>1 DEF RowsInv, PairsInv
<1>3. ASSUME NEW i \in DOMAIN state.lanes,
             parse_bytes32_handle(state.lanes[i].lane_id) \in LaneId
      PROVE  /\ parse_bytes32_handle(state.lanes[i].lane_id) \in DOMAIN sled.lanes
             /\ state.lanes[i].covenant_id \in sled.open
  BY <1>2, <1>3, WalletdAssumption DEF SoundPair
<1>4. ASSUME NEW i \in DOMAIN state.lanes, NEW j \in DOMAIN state.lanes,
             state.lanes[i].covenant_id = state.lanes[j].covenant_id
      PROVE  parse_bytes32_handle(state.lanes[i].lane_id)
               = parse_bytes32_handle(state.lanes[j].lane_id)
  <2>1. pair(i)[2] = pair(j)[2]
    BY <1>4
  <2>2. pair(i)[1] = pair(j)[1]
    BY <1>1, <2>1 DEF RowsInv, PairsInv
  <2>3. QED BY <2>2
<1>5. \A i, j \in DOMAIN state.lanes :
        state.lanes[i].lane_id = state.lanes[j].lane_id => i = j
  BY DEF RowsInv, Unique
<1>6. QED BY <1>3, <1>4, <1>5

\* What is known after a step, from its parts.
LEMMA KnownParts ==
  ASSUME NEW K,
         Pairs(store') \subseteq K,
         Pairs(disk') \subseteq K,
         \A l \in DOMAIN sled'.lanes : <<l, sled'.lanes[l]>> \in K,
         \A t \in Slot : RequestPairs(request'[t]) \subseteq K
  PROVE  Known' \subseteq K
BY DEF Known

\* What is known before a step.
LEMMA KnownHas ==
  /\ Pairs(store) \subseteq Known
  /\ Pairs(disk) \subseteq Known
  /\ \A l \in DOMAIN sled.lanes : <<l, sled.lanes[l]>> \in Known
  /\ \A t \in Slot : RequestPairs(request[t]) \subseteq Known
BY DEF Known

\* The rows of a state that is saved or loaded are those of the state itself.
LEMMA SameRows ==
  ASSUME NEW state, NEW r, r.lanes = state.lanes
  PROVE  Pairs(r) = Pairs(state) /\ (Unique(state) => Unique(r))
BY DEF Pairs, Unique

\* An empty profile has no rows.
LEMMA NoRows ==
  ASSUME NEW r, r.lanes = <<>>
  PROVE  Pairs(r) = {} /\ Unique(r)
<1>1. DOMAIN r.lanes = {}
  OBVIOUS
<1>2. QED BY <1>1 DEF Pairs, Unique

\* A free request holds no lane.
LEMMA NoPairs == RequestPairs(NoRequest) = {}
BY DEF RequestPairs, NoRequest

\* The file has the rows it had or those in memory.
LEMMA RowsSaved ==
  ASSUME TypeInv, store' \in PersistedState, Unique(disk), Unique(store'),
         (UNCHANGED disk) \/ save_state
  PROVE  /\ Unique(disk')
         /\ Pairs(disk') \subseteq Pairs(disk) \cup Pairs(store')
<1>1. CASE UNCHANGED disk
  BY <1>1 DEF Unique, Pairs
<1>2. CASE disk' = locked(store')
  <2>1. disk'.lanes = store'.lanes
    BY <1>2, Locked
  <2>2. QED BY <2>1, SameRows
<1>3. QED BY <1>1, <1>2 DEF save_state, state_for_disk

\* A step that leaves the index alone, opens no covenant and shows no lane and
\* covenant that were not known or derived from one seed.
LEMMA RowsKept ==
  ASSUME TypeInv, RowsInv, Unique(store'), Unique(disk'), UNCHANGED sled,
         Known' \subseteq Known \cup {<<m, m>> : m \in MetadataLane},
         \A t \in Slot : request'[t].pc = "opened" => request'[t] = request[t]
  PROVE  RowsInv'
<1>1. \A p \in Known : SoundPair(p, sled)
  BY DEF RowsInv, PairsInv
<1>2. ASSUME NEW p \in Known'
      PROVE  p \in Known \/ (p[1] \in MetadataLane /\ p[2] = p[1])
  OBVIOUS
<1>3. ASSUME NEW p \in Known'
      PROVE  SoundPair(p, sled)
  BY <1>1, <1>2 DEF SoundPair
<1>4. ASSUME NEW p \in Known', NEW q \in Known', p[2] = q[2]
      PROVE  p[1] = q[1]
  <2>1. CASE p \in Known /\ q \in Known
    BY <1>4, <2>1 DEF RowsInv, PairsInv
  <2>2. CASE p[2] \in MetadataLane
    BY <1>3, <1>4, <2>2, WalletdAssumption DEF SoundPair
  <2>3. QED BY <1>2, <1>4, <2>1, <2>2
<1>5. PairsInv'
  BY <1>3, <1>4 DEF PairsInv
<1>6. ASSUME NEW t \in Slot, request'[t].pc = "opened"
      PROVE  /\ request'[t].covenant_id \in sled.open
             /\ \A p \in Known' : p[2] # request'[t].covenant_id
             /\ \A u \in Slot : request'[u].pc = "opened" => u = t
  <2>1. request'[t] = request[t] /\ request[t].pc = "opened"
    BY <1>6
  <2>2. request[t].covenant_id \in CovenantId
    BY <2>1, LaneRequest DEF TypeInv
  <2>3. ASSUME NEW p \in Known'
        PROVE  p[2] # request[t].covenant_id
    <3>1. CASE p \in Known
      BY <2>1, <3>1 DEF RowsInv, OpenedInv
    <3>2. CASE p[1] \in MetadataLane /\ p[2] = p[1]
      BY <2>2, <3>2, WalletdAssumption
    <3>3. QED BY <1>2, <3>1, <3>2
  <2>4. \A u \in Slot : request'[u].pc = "opened" => u = t
    BY <2>1 DEF RowsInv, OpenedInv
  <2>5. request[t].covenant_id \in sled.open
    BY <2>1 DEF RowsInv, OpenedInv
  <2>6. QED BY <2>1, <2>3, <2>4, <2>5
<1>7. OpenedInv'
  BY <1>6 DEF OpenedInv
<1>8. QED BY <1>5, <1>7 DEF RowsInv

\* The request that held an open covenant is over, or has registered its lane;
\* its covenant may be lost or its lane be known now, and nothing else changes
\* in the index.
LEMMA RowsClosed ==
  ASSUME TypeInv, RowsInv, Unique(store'), Unique(disk'),
         NEW s \in Slot, request[s].pc = "opened",
         NEW new, new \subseteq {<<parse_bytes32_handle(request[s].lane_id),
                                   request[s].covenant_id>>},
         Known' \subseteq Known \cup new,
         \A p \in new : p[1] \in DOMAIN sled'.lanes /\ p[2] \in sled'.open,
         sled.open \ {request[s].covenant_id} \subseteq sled'.open,
         DOMAIN sled.lanes \subseteq DOMAIN sled'.lanes,
         \A t \in Slot : request'[t].pc # "opened"
  PROVE  RowsInv'
<1>1. /\ parse_bytes32_handle(request[s].lane_id) \in LaneId
      /\ request[s].covenant_id \in CovenantId
  BY LaneRequest DEF TypeInv
<1>2. /\ \A p \in Known : SoundPair(p, sled) /\ p[2] # request[s].covenant_id
      /\ \A p, q \in Known : p[2] = q[2] => p[1] = q[1]
  BY DEF RowsInv, PairsInv, OpenedInv
<1>3. ASSUME NEW p \in Known'
      PROVE  SoundPair(p, sled')
  <2>1. CASE p \in Known
    BY <1>2, <2>1 DEF SoundPair
  <2>2. CASE p \in new
    BY <1>1, <2>2 DEF SoundPair
  <2>3. QED BY <2>1, <2>2
<1>4. ASSUME NEW p \in Known', NEW q \in Known', p[2] = q[2]
      PROVE  p[1] = q[1]
  <2>1. \A r \in Known' : r \in Known \/
          r = <<parse_bytes32_handle(request[s].lane_id), request[s].covenant_id>>
    OBVIOUS
  <2>2. QED BY <1>2, <1>4, <2>1
<1>5. PairsInv'
  BY <1>3, <1>4 DEF PairsInv
<1>6. OpenedInv'
  BY DEF OpenedInv
<1>7. QED BY <1>5, <1>6 DEF RowsInv

\* The last step of a handler shows what its request held.
LEMMA RowsStore ==
  ASSUME TypeInv, RowsInv, NEW s \in Slot, StoreStep(s)
  PROVE  RowsInv'
<1>1. /\ store' \in PersistedState
      /\ finish(s)
      /\ UNCHANGED <<network, sled>>
      /\ (UNCHANGED <<store, disk>>) \/ save_state
  BY StoreSteps
<1>2. \A t \in Slot : request'[t] = IF t = s THEN NoRequest ELSE request[t]
  BY <1>1, Finished DEF TypeInv
<1>3. /\ Unique(store')
      /\ Pairs(store') \subseteq Pairs(store) \cup RequestPairs(request[s])
  <2>1. Unique(store)
    BY DEF RowsInv
  <2>2. CASE unlock_wallet(s)
    <3>1. store'.lanes = store.lanes
      BY <2>2, Unlocks
    <3>2. QED BY <2>1, <3>1, SameRows
  <2>3. CASE sync_wallet(s)
    BY <2>1, <2>3, Syncs
  <2>4. CASE create_lane(s) \/ record_proof(s)
    BY <2>1, <2>4, LanesOnly
  <2>5. QED BY <2>2, <2>3, <2>4 DEF StoreStep
<1>4. Unique(disk') /\ Pairs(disk') \subseteq Pairs(disk) \cup Pairs(store')
  BY <1>1, <1>3, RowsSaved DEF RowsInv
<1>5. Known' \subseteq Known
  <2>1. Pairs(store') \subseteq Known /\ Pairs(disk') \subseteq Known
    BY <1>3, <1>4, KnownHas
  <2>2. \A l \in DOMAIN sled'.lanes : <<l, sled'.lanes[l]>> \in Known
    BY <1>1, KnownHas
  <2>3. \A t \in Slot : RequestPairs(request'[t]) \subseteq Known
    BY <1>2, NoPairs, KnownHas
  <2>4. QED BY <2>1, <2>2, <2>3, KnownParts
<1>6. \A t \in Slot : request'[t].pc = "opened" => request'[t] = request[t]
  BY <1>2 DEF NoRequest
<1>7. QED BY <1>1, <1>3, <1>4, <1>5, <1>6, RowsKept

\* A request that is begun, or ends without touching the state or the index.
LEMMA RowsBegun ==
  ASSUME TypeInv, RowsInv, NEW s \in Slot, NEW r, r.pc # "opened",
         UNCHANGED <<store, disk, sled>>,
         \A t \in Slot : request'[t] = IF t = s THEN r ELSE request[t],
         RequestPairs(r) \subseteq Known \cup {<<m, m>> : m \in MetadataLane}
  PROVE  RowsInv'
<1> DEFINE K == Known \cup {<<m, m>> : m \in MetadataLane}
<1>1. Pairs(store') \subseteq K /\ Pairs(disk') \subseteq K
  BY KnownHas
<1>2. \A l \in DOMAIN sled'.lanes : <<l, sled'.lanes[l]>> \in K
  BY KnownHas
<1>3. \A t \in Slot : RequestPairs(request'[t]) \subseteq K
  BY KnownHas
<1> HIDE DEF K
<1>4. Known' \subseteq K
  BY <1>1, <1>2, <1>3, KnownParts
<1>5. Unique(store') /\ Unique(disk')
  BY DEF RowsInv, Unique
<1>6. QED BY <1>4, <1>5, RowsKept DEF K

\* A request that registers its lane, whether or not its handler goes on.
LEMMA RowsRegistered ==
  ASSUME TypeInv, RowsInv, NEW s \in Slot, request[s].pc = "opened",
         Unique(store'), Pairs(store') \subseteq Known,
         UNCHANGED disk, sled' = lane_registered(s),
         \A t \in Slot :
           /\ request'[t].pc # "opened"
           /\ RequestPairs(request'[t]) \subseteq
                Known \cup {<<parse_bytes32_handle(request[s].lane_id),
                              request[s].covenant_id>>}
  PROVE  RowsInv'
<1> DEFINE id == parse_bytes32_handle(request[s].lane_id)
           new == {<<id, request[s].covenant_id>>}
<1>1. /\ sled'.open = sled.open
      /\ DOMAIN sled'.lanes = DOMAIN sled.lanes \cup {id}
      /\ \A l \in DOMAIN sled'.lanes :
           \/ l = id /\ sled'.lanes[l] = request[s].covenant_id
           \/ l \in DOMAIN sled.lanes /\ sled'.lanes[l] = sled.lanes[l]
  BY LaneRegistered DEF TypeInv
<1>2. Unique(disk') /\ Pairs(disk') \subseteq Known
  BY KnownHas DEF RowsInv, Unique
<1>3. \A l \in DOMAIN sled'.lanes : <<l, sled'.lanes[l]>> \in Known \cup new
  BY <1>1, KnownHas
<1>4. \A t \in Slot : RequestPairs(request'[t]) \subseteq Known \cup new
  OBVIOUS
<1>5. request[s].covenant_id \in sled.open
  BY DEF RowsInv, OpenedInv
<1>6. \A p \in new : p[1] \in DOMAIN sled'.lanes /\ p[2] \in sled'.open
  BY <1>1, <1>5
<1>7. Known' \subseteq Known \cup new
  <2> HIDE DEF new
  <2>1. QED BY <1>2, <1>3, <1>4, KnownParts
<1>8. /\ sled.open \ {request[s].covenant_id} \subseteq sled'.open
      /\ DOMAIN sled.lanes \subseteq DOMAIN sled'.lanes
      /\ \A t \in Slot : request'[t].pc # "opened"
  BY <1>1
<1>9. new \subseteq {<<parse_bytes32_handle(request[s].lane_id),
                       request[s].covenant_id>>}
  OBVIOUS
<1> HIDE DEF new, id
<1>10. QED BY <1>2, <1>6, <1>7, <1>8, <1>9, RowsClosed

\* A covenant that is not open in the index is known nowhere.
LEMMA RowsOpened ==
  ASSUME TypeInv, RowsInv, NEW s \in Slot, open_covenant(s)
  PROVE  RowsInv'
<1> DEFINE c == request[s].covenant_id
<1>1. /\ request[s].pc = "lane"
      /\ \A t \in Slot : request[t].pc # "opened"
      /\ c \notin sled.open
      /\ sled' = [sled EXCEPT !.open = @ \cup {c}]
      /\ request' = [request EXCEPT ![s].pc = "opened"]
      /\ UNCHANGED <<store, disk>>
  BY DEF open_covenant, sled_free
<1>2. c \in CovenantId /\ sled \in Index /\ request \in [Slot -> Request]
  BY <1>1, LaneRequest DEF TypeInv, TypeOK, Index
<1>3. sled'.open = sled.open \cup {c} /\ sled'.lanes = sled.lanes
  BY <1>1, <1>2 DEF Index
<1>4. /\ \A t \in Slot : t # s => request'[t] = request[t]
      /\ request'[s].pc = "opened" /\ request'[s].covenant_id = c
  <2>1. request'[s] = [request[s] EXCEPT !.pc = "opened"]
    BY <1>1, <1>2
  <2>2. request[s] \in [pc : {"lane", "opened"}, lane_id : Privacy \X LaneId,
                        covenant_id : CovenantId]
    BY <1>1, RequestKinds DEF TypeInv
  <2>3. QED BY <1>1, <1>2, <2>1, <2>2
<1> HIDE DEF c
<1>5. Known' \subseteq Known
  <2>1. RequestPairs(request'[s]) = {}
    BY <1>4 DEF RequestPairs
  <2>2. \A t \in Slot : RequestPairs(request'[t]) \subseteq Known
    BY <1>4, <2>1, KnownHas
  <2>3. Pairs(store') \subseteq Known /\ Pairs(disk') \subseteq Known
    BY <1>1, KnownHas
  <2>4. \A l \in DOMAIN sled'.lanes : <<l, sled'.lanes[l]>> \in Known
    BY <1>3, KnownHas
  <2>5. QED BY <2>2, <2>3, <2>4, KnownParts
<1>6. \A p \in Known : SoundPair(p, sled)
  BY DEF RowsInv, PairsInv
<1>7. \A p \in Known : SoundPair(p, sled') /\ p[2] # c
  BY <1>1, <1>2, <1>3, <1>6, WalletdAssumption DEF SoundPair
<1>8. PairsInv'
  BY <1>5, <1>7 DEF RowsInv, PairsInv
<1>9. OpenedInv'
  BY <1>1, <1>3, <1>4, <1>5, <1>7 DEF OpenedInv
<1>10. Unique(store') /\ Unique(disk')
  BY <1>1 DEF RowsInv, Unique
<1>11. QED BY <1>8, <1>9, <1>10 DEF RowsInv

\* The steps that only move requests.
LEMMA RowsRequests ==
  ASSUME TypeInv, RowsInv, NEW s \in Slot, RequestStep(s)
  PROVE  RowsInv'
<1>0. UNCHANGED <<store, disk>>
  BY DEF RequestStep
<1>a. Unique(store') /\ Pairs(store') \subseteq Known
  BY <1>0, KnownHas DEF RowsInv, Unique
<1>1. ASSUME finish(s), UNCHANGED sled
      PROVE  RowsInv'
  <2>1. \A t \in Slot : request'[t] = IF t = s THEN NoRequest ELSE request[t]
    BY <1>1, Finished DEF TypeInv
  <2>2. NoRequest.pc # "opened"
    BY DEF NoRequest
  <2>3. RequestPairs(NoRequest) \subseteq Known \cup {<<m, m>> : m \in MetadataLane}
    BY NoPairs
  <2>4. QED BY <1>0, <1>1, <2>1, <2>2, <2>3, RowsBegun
<1>2. ASSUME NEW r \in Request, begin(s, r), UNCHANGED sled, r.pc # "opened",
             RequestPairs(r) \subseteq Known \cup {<<m, m>> : m \in MetadataLane}
      PROVE  RowsInv'
  <2>1. \A t \in Slot : request'[t] = IF t = s THEN r ELSE request[t]
    BY <1>2, Begun DEF TypeInv
  <2>2. QED BY <1>0, <1>2, <2>1, RowsBegun
<1>3. ASSUME NEW r, r.pc \notin {"indexed", "scanned"}
      PROVE  RequestPairs(r) = {}
  BY <1>3 DEF RequestPairs
<1>4. CASE fail(s)
  BY <1>1, <1>4 DEF fail
<1>5. CASE resolve_indexed_lanes(s)
  <2> DEFINE indexed == {id \in request[s].lanes :
                           parse_bytes32_handle(id) \in DOMAIN sled.lanes}
             updates == [id \in indexed |-> sled.lanes[parse_bytes32_handle(id)]]
             r == [pc |-> "scanned", updates |-> updates]
  <2>1. request' = [request EXCEPT ![s] = r] /\ UNCHANGED sled
    BY <1>5 DEF resolve_indexed_lanes
  <2>2. \A id \in DOMAIN updates :
          <<parse_bytes32_handle(id), updates[id]>> \in Known
    BY KnownHas
  <2> HIDE DEF updates
  <2>3. RequestPairs(r) \subseteq Known
    BY <2>2 DEF RequestPairs
  <2>4. r.pc # "opened"
    OBVIOUS
  <2> HIDE DEF r
  <2>5. \A t \in Slot : request'[t] = IF t = s THEN r ELSE request[t]
    BY <2>1 DEF TypeInv, TypeOK
  <2>6. QED BY <1>0, <2>1, <2>3, <2>4, <2>5, RowsBegun
<1>6. CASE unlock_snapshot(s) \/ sync_snapshot(s) \/ record_check(s)
  <2>1. PICK r : /\ begin(s, r) /\ UNCHANGED sled
                 /\ r.pc \in {"unlock", "sync", "record"}
    BY <1>6 DEF unlock_snapshot, sync_snapshot, record_check
  <2>2. RequestPairs(r) = {}
    BY <1>3, <2>1
  <2>3. \A t \in Slot : request'[t] = IF t = s THEN r ELSE request[t]
    BY <2>1 DEF begin, TypeInv, TypeOK
  <2>4. r.pc # "opened"
    BY <2>1
  <2>5. RequestPairs(r) \subseteq Known \cup {<<m, m>> : m \in MetadataLane}
    BY <2>2
  <2>6. QED BY <1>0, <2>1, <2>3, <2>4, <2>5, RowsBegun
<1>7. CASE create_lane_check(s)
  <2>1. PICK r \in Request :
           /\ begin(s, r)
           /\ \/ r.pc = "lane"
              \/ /\ r.pc = "indexed"
                 /\ r.covenant_id \in MetadataLane
                 /\ parse_bytes32_handle(r.lane_id) = r.covenant_id
    BY <1>7, LaneChecked DEF TypeInv
  <2>2. RequestPairs(r) \subseteq {<<m, m>> : m \in MetadataLane}
    BY <2>1 DEF RequestPairs
  <2>3. UNCHANGED sled
    BY <1>7 DEF create_lane_check
  <2>4. QED BY <1>2, <2>1, <2>2, <2>3
<1>8. CASE register_lane(s)
  <2> DEFINE r == [request[s] EXCEPT !.pc = "indexed"]
             pair == <<parse_bytes32_handle(request[s].lane_id), request[s].covenant_id>>
  <2>1. /\ request[s].pc = "opened" /\ sled' = lane_registered(s)
        /\ request' = [request EXCEPT ![s].pc = "indexed"]
    BY <1>8 DEF register_lane
  <2>2. \A t \in Slot : request'[t] = IF t = s THEN r ELSE request[t]
    BY <2>1 DEF TypeInv, TypeOK
  <2>3. /\ r.pc = "indexed"
        /\ r.lane_id = request[s].lane_id /\ r.covenant_id = request[s].covenant_id
    <3>1. request[s] \in [pc : {"lane", "opened"}, lane_id : Privacy \X LaneId,
                          covenant_id : CovenantId]
      BY <2>1, RequestKinds DEF TypeInv
    <3>2. QED BY <3>1
  <2> HIDE DEF r
  <2>4. RequestPairs(r) \subseteq {pair}
    BY <2>3 DEF RequestPairs
  <2>5. \A t \in Slot : /\ request'[t].pc # "opened"
                        /\ RequestPairs(request'[t]) \subseteq Known \cup {pair}
    BY <2>1, <2>2, <2>3, <2>4, KnownHas DEF RowsInv, OpenedInv
  <2>6. QED BY <1>0, <1>a, <2>1, <2>5, RowsRegistered
<1>9. CASE register_lane_failed(s)
  <2>1. /\ request[s].pc = "opened" /\ finish(s)
        /\ sled' = sled \/ sled' = lane_registered(s)
    BY <1>9 DEF register_lane_failed
  <2>2. \A t \in Slot : request'[t] = IF t = s THEN NoRequest ELSE request[t]
    BY <2>1, Finished DEF TypeInv
  <2>3. \A t \in Slot : request'[t].pc # "opened" /\ RequestPairs(request'[t]) \subseteq Known
    BY <2>1, <2>2, NoPairs, KnownHas DEF RowsInv, OpenedInv, NoRequest
  <2>4. CASE sled' = lane_registered(s)
    BY <1>0, <1>a, <2>1, <2>3, <2>4, RowsRegistered
  <2>5. QED BY <1>1, <2>1, <2>4
<1>10. QED BY <1>4, <1>5, <1>6, <1>7, <1>8, <1>9, RowsOpened DEF RequestStep

\* A crash loses the covenant of a create_lane at most, or leaves its lane in the
\* index.
LEMMA RowsCrash ==
  ASSUME TypeInv, RowsInv, crash
  PROVE  RowsInv'
<1>1. /\ store' = NoState /\ disk' = disk
      /\ \A t \in Slot : request'[t] = NoRequest
  BY DEF crash
<1>2. Pairs(store') = {} /\ Unique(store')
  BY <1>1, NoRows DEF NoState
<1>3. /\ Unique(disk') /\ Pairs(disk') \subseteq Known
      /\ \A t \in Slot : request'[t].pc # "opened" /\ RequestPairs(request'[t]) = {}
  BY <1>1, NoPairs, KnownHas DEF RowsInv, NoRequest
<1>4. ASSUME sled'.lanes = sled.lanes
      PROVE  Known' \subseteq Known
  <2>1. \A l \in DOMAIN sled'.lanes : <<l, sled'.lanes[l]>> \in Known
    BY <1>4, KnownHas
  <2>2. QED BY <1>2, <1>3, <2>1, KnownParts
<1>5. CASE UNCHANGED sled
  BY <1>2, <1>3, <1>4, <1>5, RowsKept
<1>6. ASSUME NEW s \in Slot, request[s].pc = "opened",
             sled' = [sled EXCEPT !.open = @ \ {request[s].covenant_id}]
      PROVE  RowsInv'
  <2>1. /\ sled'.lanes = sled.lanes
        /\ sled'.open = sled.open \ {request[s].covenant_id}
    BY <1>6 DEF TypeInv, TypeOK
  <2>2. Known' \subseteq Known \cup {}
    BY <1>4, <2>1
  <2>3. QED BY <1>2, <1>3, <1>6, <2>1, <2>2, RowsClosed
<1>7. ASSUME NEW s \in Slot, request[s].pc = "opened", sled' = lane_registered(s)
      PROVE  RowsInv'
  BY <1>1, <1>2, <1>3, <1>7, RowsRegistered
<1>8. QED BY <1>5, <1>6, <1>7 DEF crash

\* Every step keeps the rows and the index together.
LEMMA RowsStep ==
  ASSUME TypeInv, RowsInv, Next
  PROVE  RowsInv'
<1>0. /\ Unique(store) /\ Unique(disk)
      /\ store \in PersistedState /\ disk \in PersistedState
  BY DEF RowsInv, TypeInv, TypeOK
<1>1. ASSUME UNCHANGED <<sled, request>>, Unique(store'), Unique(disk'),
             Pairs(store') \subseteq Known, Pairs(disk') \subseteq Known
      PROVE  RowsInv'
  <2>1. Known' \subseteq Known
    BY <1>1, KnownHas, KnownParts
  <2>2. QED BY <1>1, <2>1, RowsKept
<1>2. ASSUME UNCHANGED <<sled, request>>, store' \in PersistedState,
             Unique(store'), Pairs(store') \subseteq Known, save_state
      PROVE  RowsInv'
  <2>1. Unique(disk') /\ Pairs(disk') \subseteq Pairs(disk) \cup Pairs(store')
    BY <1>0, <1>2, RowsSaved
  <2>2. QED BY <1>1, <1>2, <2>1, KnownHas
<1>3. CASE start
  <2>1. PICK n \in Network : store' = isolate_state_for_network(locked(disk), n)
    BY <1>3 DEF start
  <2>2. store' = NoState \/ store' = locked(disk)
    BY <1>0, <2>1, Isolated
  <2>3. store'.lanes = <<>> \/ store'.lanes = disk.lanes
    BY <1>0, <2>2, Locked DEF NoState
  <2>4. Unique(store') /\ Pairs(store') \subseteq Pairs(disk)
    BY <1>0, <2>3, NoRows, SameRows
  <2>5. Unique(disk') /\ Pairs(disk') = Pairs(disk) /\ UNCHANGED <<sled, request>>
    BY <1>0, <1>3 DEF start
  <2>6. QED BY <1>1, <2>4, <2>5, KnownHas
<1>4. CASE upsert_wallet
  <2>1. store' \in PersistedState /\ store'.lanes = <<>>
    BY <1>4, Creates
  <2>2. Pairs(store') = {} /\ Unique(store')
    BY <2>1, NoRows
  <2>3. QED BY <1>2, <1>4, <2>1, <2>2 DEF upsert_wallet
<1>5. CASE lock_wallet \/ update_kaspa_endpoint
  <2>1. store' \in PersistedState /\ store'.lanes = store.lanes
    BY <1>0, <1>5, Locked, LifecycleSet
    DEF lock_wallet, update_kaspa_endpoint, ready_profile
  <2>2. Unique(store') /\ Pairs(store') \subseteq Known
    BY <1>0, <2>1, SameRows, KnownHas
  <2>3. QED BY <1>2, <1>5, <2>1, <2>2 DEF lock_wallet, update_kaspa_endpoint
<1>6. QED BY <1>3, <1>4, <1>5, NextKinds, RowsStore, RowsRequests, RowsCrash

\* Every row of evidence has its lane and covenant in the index, no two rows of a
\* profile share a lane id, and none share a covenant unless they are rows of
\* one lane, in memory and in the file, for any number of concurrent create_lane
\* requests and scans and wherever the daemon stops.
THEOREM RowsCorrect == Spec => []RowsAreIndexed
<1>1. Init => RowsInv
  <2> SUFFICES ASSUME Init PROVE RowsInv
    OBVIOUS
  <2>1. /\ Pairs(store) = {} /\ Unique(store)
        /\ Pairs(disk) = {} /\ Unique(disk)
    BY NoRows DEF Init, NoState
  <2>2. /\ DOMAIN sled.lanes = {}
        /\ \A s \in Slot : request[s] = NoRequest
    BY DEF Init
  <2>3. Known = {}
    BY <2>1, <2>2, NoPairs DEF Known
  <2>4. PairsInv /\ OpenedInv
    BY <2>2, <2>3 DEF PairsInv, OpenedInv, NoRequest
  <2>5. QED BY <2>1, <2>4 DEF RowsInv
<1>2. TypeInv /\ RowsInv /\ [Next]_vars => RowsInv'
  <2>1. ASSUME RowsInv, UNCHANGED vars
        PROVE  RowsInv'
    <3>1. store' = store /\ disk' = disk /\ sled' = sled /\ request' = request
      BY <2>1 DEF vars
    <3>2. Unique(store)' /\ Unique(disk)'
      BY <2>1, <3>1 DEF RowsInv, Unique
    <3>3. Known' = Known
      BY <3>1 DEF Known, Pairs
    <3>4. PairsInv'
      BY <2>1, <3>1, <3>3, Zenon DEF RowsInv, PairsInv
    <3>5. OpenedInv'
      BY <2>1, <3>1, <3>3, Zenon DEF RowsInv, OpenedInv
    <3>6. QED BY <3>2, <3>4, <3>5, Zenon DEF RowsInv
  <2>2. QED BY <2>1, RowsStep, Zenon
<1>3. QED BY <1>1, <1>2, TypeInvAlways, RowsFollow, PTL DEF Spec
=============================================================================
