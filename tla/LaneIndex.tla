----------------------------- MODULE LaneIndex ------------------------------
(***************************************************************************)
(* The lane records kept beside the covenant map, and the resolver's lane   *)
(* queries.  The two back ends store lanes alike but find a scan tag        *)
(* differently: InMemoryIndexer keeps a second map from tags to lane ids,   *)
(* SledIndexer searches the lanes in key order.  Both lookups are modelled  *)
(* over the same lanes.                                                     *)
(*                                                                          *)
(* Lane ids and scan tags are hashes, so they are the tuples they are       *)
(* derived from; neither is ever the all-zero value that                    *)
(* validate_indexed_lane refuses.                                           *)
(***************************************************************************)
EXTENDS IndexerResolver, FiniteSets

CONSTANTS
  ViewKey,     \* view keys of lane holders
  Epoch,       \* lane epochs
  TagInput,    \* the scan tags callers register lanes with
  MaxLanes     \* bound: lanes registered at once

VARIABLES
  lanes,           \* lane id -> IndexedLane
  lane_scan_tags,  \* InMemoryIndexer only: scan tag -> lane id
  contested        \* history: tags given to a lane while another carried them

laneVars == <<map, lanes, lane_scan_tags, contested>>

derive_blinded_lane_id(view_key, asset, epoch) == <<view_key, asset, epoch>>

derive_scan_tag(view_key, lane, epoch) == <<view_key, lane, epoch>>

LaneId == ViewKey \X Asset \X Epoch
ScanTag == ViewKey \X LaneId \X Epoch

IndexedLane ==
  [chain_id : Chain, covenant_id : Covenant, asset_id : Asset,
   lane_id : LaneId, epoch : Epoch, scan_tag : ScanTag \cup {None},
   public_lineage : BOOLEAN, state_digest : Digest,
   last_update_daa_score : Daa]

ASSUME LaneAssumption ==
  None \notin ScanTag /\ None \notin IndexedLane /\ TagInput \subseteq ScanTag

-----------------------------------------------------------------------------
(* register_lane.                                                           *)

\* Variant: the asset of the lane is not compared with the covenant's.
validate_indexed_lane_any_asset(entry, lane) ==
  /\ lane.chain_id = entry.chain_id
  /\ lane.covenant_id = entry.covenant_id
  /\ lane.state_digest = entry.latest_state.state_digest
  /\ lane.last_update_daa_score = entry.last_update_daa_score

validate_indexed_lane(entry, lane) ==
  /\ lane.chain_id = entry.chain_id
  /\ lane.covenant_id = entry.covenant_id
  /\ lane.asset_id = entry.latest_state.asset_id
  /\ lane.state_digest = entry.latest_state.state_digest
  /\ lane.last_update_daa_score = entry.last_update_daa_score

\* Variant: the new tag goes in before the replaced record's tag goes out.
tags_after_removing_last(lane) ==
  LET replaced == IF lane.lane_id \in DOMAIN lanes
                    THEN {lanes[lane.lane_id].scan_tag} ELSE {}
  IN [t \in (DOMAIN lane_scan_tags \cup ({lane.scan_tag} \ {None})) \ replaced |->
        IF t = lane.scan_tag THEN lane.lane_id ELSE lane_scan_tags[t]]

\* The tag of the record that is replaced is removed, whichever lane it leads
\* to by now, then the new tag is entered.
tags_after(lane) ==
  LET replaced == IF lane.lane_id \in DOMAIN lanes
                    THEN {lanes[lane.lane_id].scan_tag} ELSE {}
  IN [t \in (DOMAIN lane_scan_tags \ replaced) \cup ({lane.scan_tag} \ {None}) |->
        IF t = lane.scan_tag THEN lane.lane_id ELSE lane_scan_tags[t]]

lanes_after(lane) ==
  [l \in DOMAIN lanes \cup {lane.lane_id} |->
     IF l = lane.lane_id THEN lane ELSE lanes[l]]

\* The lanes that carry a tag
carriers(tag) == {l \in DOMAIN lanes : lanes[l].scan_tag = tag}

register_lane(lane) ==
  /\ lane.covenant_id \in DOMAIN map
  /\ validate_indexed_lane(map[lane.covenant_id], lane)
  /\ lanes' = lanes_after(lane)
  /\ lane_scan_tags' = tags_after(lane)
  /\ contested' =
       IF lane.scan_tag # None /\ carriers(lane.scan_tag) \ {lane.lane_id} # {}
         THEN contested \cup {lane.scan_tag} ELSE contested
  /\ UNCHANGED map

-----------------------------------------------------------------------------
(* The lookups.                                                             *)

lane_by_id(id) == IF id \in DOMAIN lanes THEN lanes[id] ELSE None

\* InMemoryIndexer::lane_by_scan_tag
lane_by_scan_tag(tag) ==
  IF tag \in DOMAIN lane_scan_tags THEN lane_by_id(lane_scan_tags[tag]) ELSE None

\* SledIndexer::lane_by_scan_tag: one of the lanes of the tree that carry the
\* tag.  It is the first in key order; ids are digests, so it may be any of them.
sled_lane_by_scan_tag(tag) == {lanes[l] : l \in carriers(tag)}

public_lanes(asset) ==
  {lanes[l] : l \in {k \in DOMAIN lanes :
                       lanes[k].public_lineage /\ lanes[k].asset_id = asset}}

resolve_indexed_lane(lane, chain, backend) ==
  [kind |-> "Resolved", lane |-> lane,
   state |-> resolve_by_covenant(entry_of(lane.covenant_id), chain, backend)]

Unresolved(kind) == [kind |-> kind, lane |-> None, state |-> NoVerdict]

resolve_lane(id, chain, backend) ==
  IF lane_by_id(id) = None THEN Unresolved("UnknownLane")
  ELSE resolve_indexed_lane(lane_by_id(id), chain, backend)

resolve_by_view_key(view_key, asset, epoch, chain, backend) ==
  LET id == derive_blinded_lane_id(view_key, asset, epoch)
      lane == lane_by_id(id)
  IN IF lane = None THEN Unresolved("UnknownLane")
     ELSE IF lane.asset_id # asset \/ lane.epoch # epoch
       THEN Unresolved("UnknownLane")
     ELSE IF /\ lane.scan_tag # None
             /\ lane.scan_tag # derive_scan_tag(view_key, id, epoch)
       THEN Unresolved("UnknownLane")
     ELSE resolve_indexed_lane(lane, chain, backend)

resolve_by_scan_tag(tag, chain, backend) ==
  IF lane_by_scan_tag(tag) = None THEN Unresolved("UnknownScanTag")
  ELSE resolve_indexed_lane(lane_by_scan_tag(tag), chain, backend)

resolve_public_lineage(asset, chain, backend) ==
  {resolve_indexed_lane(lane, chain, backend) : lane \in public_lanes(asset)}

-----------------------------------------------------------------------------
(* Callers.  Ids and tags are the caller's: neither is compared with what a  *)
(* view key would derive, nor with those of other lanes.                    *)

RegisterLane ==
  \E c \in DOMAIN map, id \in LaneId, asset \in Asset, epoch \in Epoch,
     digest \in Digest, public \in BOOLEAN, tag \in TagInput \cup {None} :
    /\ Cardinality(DOMAIN lanes \cup {id}) <= MaxLanes
    /\ register_lane(
         [chain_id |-> map[c].chain_id, covenant_id |-> c, asset_id |-> asset,
          lane_id |-> id, epoch |-> epoch, scan_tag |-> tag,
          public_lineage |-> public, state_digest |-> digest,
          last_update_daa_score |-> map[c].last_update_daa_score])

CovenantStep == Next /\ UNCHANGED <<lanes, lane_scan_tags, contested>>

LaneInit ==
  /\ Init
  /\ lanes = [l \in {} |-> None]
  /\ lane_scan_tags = [t \in {} |-> None]
  /\ contested = {}

LaneNext == RegisterLane \/ CovenantStep

LaneSpec == LaneInit /\ [][LaneNext]_laneVars

-----------------------------------------------------------------------------

\* The two back ends answer a scan tag alike, however often lanes were
\* registered again with another tag or with none, as long as the tag was never
\* given to a lane while another carried it: the tag map of InMemoryIndexer,
\* which is only ever patched, leads to exactly the lane a search of all lanes
\* finds.  Of a contested tag only this is true: what the tag map leads to
\* carries the tag, so InMemoryIndexer answers with one of the lanes SledIndexer
\* may answer with, or with none, because the record that replaces one of its
\* lanes takes the tag out of the map for the others too.
BackendsFindSameLane ==
  \A t \in ScanTag :
    LET found == IF lane_by_scan_tag(t) = None THEN {} ELSE {lane_by_scan_tag(t)}
    IN /\ found \subseteq sled_lane_by_scan_tag(t)
       /\ t \notin contested => sled_lane_by_scan_tag(t) = found

\* A lane never leaves its covenant: the covenant it was registered for stays
\* indexed, and its chain and asset stay those of the lane, through any later
\* spend, rollback or registration.  resolve_indexed_lane answers with the
\* covenant's verdict and public_lanes filters on the lane's copy of the asset.
LanesFollowCovenants ==
  \A l \in DOMAIN lanes :
    LET c == lanes[l].covenant_id
    IN /\ c \in DOMAIN map
       /\ map[c].chain_id = lanes[l].chain_id
       /\ map[c].latest_state.asset_id = lanes[l].asset_id
=============================================================================
