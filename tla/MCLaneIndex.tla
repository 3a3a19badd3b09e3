---------------------------- MODULE MCLaneIndex -----------------------------
(* Inputs and symmetry for the lane index; its proof material plays no part  *)
(* here.                                                                     *)
EXTENDS LaneGraph, TLC

CONSTANTS a1, e1

\* The tags that two holders derive for their lanes of one asset and epoch.
\* Any lane may be registered with any of them.
MCTagInput ==
  {derive_scan_tag(k, derive_blinded_lane_id(k, a1, e1), e1) : k \in ViewKey}

Symmetry == UNION {Permutations(S) : S \in {Digest, Txid, ViewKey}}
=============================================================================
