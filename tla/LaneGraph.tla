----------------------------- MODULE LaneGraph ------------------------------
(***************************************************************************)
(* Discovery of private lanes: statements that name lanes by id, scan tag   *)
(* and epoch, and the circuits (real_zk.rs) that prove all lanes of a       *)
(* statement to be derived from one hidden view key and asset.  A graph     *)
(* statement commits to its lanes by one root, a segment statement extends  *)
(* a rolling root.  What is discovered is looked up in the index.           *)
(***************************************************************************)
EXTENDS LaneIndex

CONSTANT LANES   \* lanes of one graph or segment statement

Witness == [view_key : ViewKey, asset_id : Asset]

\* LaneDiscoveryStatement::from_private and RgkLaneGraphNode::from_private
lane_statement(view_key, asset, epoch) ==
  LET id == derive_blinded_lane_id(view_key, asset, epoch)
  IN [lane_id |-> id, scan_tag |-> derive_scan_tag(view_key, id, epoch),
      epoch |-> epoch]

derive_private_lane_graph_root(nodes) == <<"graph-root", nodes>>

private_lane_graph_empty_root == <<"graph-empty-root">>

extend_private_lane_graph_root(previous_root, segment_index, nodes) ==
  <<"graph-segment-root", previous_root, segment_index, nodes>>

\* discover_lane
discover_lane(view_key, asset, epoch, candidate) ==
  derive_blinded_lane_id(view_key, asset, epoch) = candidate

enforce_lane_discovery_node_layout(node) ==
  node.lane_id # Zero /\ node.scan_tag # Zero

\* Variant: the scan tag is not derived in the circuit.
lane_enforced_tagless(node, w) ==
  /\ enforce_lane_discovery_node_layout(node)
  /\ discover_lane(w.view_key, w.asset_id, node.epoch, node.lane_id)

\* The constraints on one lane; they are those of LaneDiscoveryCircuit, and
\* matches_witness compares the same on the host.
lane_enforced(node, w) ==
  /\ enforce_lane_discovery_node_layout(node)
  /\ discover_lane(w.view_key, w.asset_id, node.epoch, node.lane_id)
  /\ node.scan_tag = derive_scan_tag(w.view_key, node.lane_id, node.epoch)

\* LaneGraphDiscoveryCircuit
lane_graph_proved(s, w) ==
  /\ Len(s.nodes) = LANES /\ LANES # 0
  /\ s.graph_root # Zero
  /\ s.graph_root = derive_private_lane_graph_root(s.nodes)
  /\ \A i \in DOMAIN s.nodes : lane_enforced(s.nodes[i], w)

\* LaneGraphSegmentCircuit
lane_segment_proved(s, w) ==
  /\ Len(s.nodes) = LANES /\ LANES # 0
  /\ Zero \notin {s.previous_root, s.next_root}
  /\ s.previous_root # s.next_root
  /\ s.next_root =
       extend_private_lane_graph_root(s.previous_root, s.segment_index, s.nodes)
  /\ \A i \in DOMAIN s.nodes : lane_enforced(s.nodes[i], w)

-----------------------------------------------------------------------------
GraphOf(nodes) ==
  [graph_root |-> derive_private_lane_graph_root(nodes), nodes |-> nodes]

FirstSegmentOf(nodes) ==
  LET root == private_lane_graph_empty_root
  IN [previous_root |-> root,
      next_root |-> extend_private_lane_graph_root(root, 0, nodes),
      segment_index |-> 0, nodes |-> nodes]

\* Lanes a statement can name that are in the index by their id or tag.
IndexedNodes ==
  {[lane_id |-> id, scan_tag |-> tag, epoch |-> epoch] :
     id \in DOMAIN lanes, epoch \in Epoch,
     tag \in DOMAIN lane_scan_tags \cup
             {derive_scan_tag(k, l, e) : k \in ViewKey, l \in DOMAIN lanes, e \in Epoch}}

Discovered(w) ==
  {nodes \in [1 .. LANES -> {n \in IndexedNodes : lane_enforced(n, w)}] :
     \/ lane_graph_proved(GraphOf(nodes), w)
     \/ lane_segment_proved(FirstSegmentOf(nodes), w)}

\* What one proof discovers is looked up in an index where anybody may have
\* registered the ids and the tags of the statement for lanes of their own.  A
\* lookup by tag answers with a lane that carries the tag, and with the lane of
\* the statement if that carries it and no other lane has contested it.  A
\* lookup by view key answers as the one by id does, never with a lane of
\* another tag or of a covenant of another asset; and a lane it answers with
\* that is public is among the public lanes of the asset.
DiscoveredLanesResolve ==
  \A w \in Witness, chain \in Chain :
    \A nodes \in Discovered(w) :
      \A i \in DOMAIN nodes :
        LET backend == OpenSeen(DOMAIN map, chain)
            node == nodes[i]
            tagged == resolve_by_scan_tag(node.scan_tag, chain, backend)
            named == resolve_lane(node.lane_id, chain, backend)
            held == resolve_by_view_key(w.view_key, w.asset_id, node.epoch,
                                        chain, backend)
        IN /\ tagged.kind = "Resolved" => tagged.lane.scan_tag = node.scan_tag
           /\ named.kind = "Resolved" /\ named.lane.scan_tag = node.scan_tag =>
                node.scan_tag \in contested \/ tagged = named
           /\ held.kind = "Resolved" =>
                /\ held = named
                /\ held.lane.scan_tag \in {None, node.scan_tag}
                /\ map[held.lane.covenant_id].latest_state.asset_id = w.asset_id
                /\ held.lane.public_lineage =>
                     held \in resolve_public_lineage(w.asset_id, chain, backend)
=============================================================================
