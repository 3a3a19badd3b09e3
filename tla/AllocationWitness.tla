--------------------------- MODULE AllocationWitness ---------------------------
(***************************************************************************)
(* What the allocation circuits of crates/rgk-zk (real_zk.rs) ask of each   *)
(* allocation and of two allocations together.  The segment circuits and    *)
(* the fixed-shape circuits share these constraints.                        *)
(*                                                                          *)
(* encode_native_allocation writes the fields of an allocation in a fixed   *)
(* layout of 157 bytes, so the bytes are the allocation.  Two things depend *)
(* on the layout: the window of it that stands for the outpoint, and the    *)
(* order of the allocations, which a circuit hashes as they are given and   *)
(* the native grammar sorts first.                                          *)
(***************************************************************************)
EXTENDS AssetGrammar

CONSTANTS
  Precedes(_, _),   \* the order of allocation_sort_key, on allocations
  Prefix(_)         \* the first four bytes of a covenant id

enforce_allocation_common(chain, a) ==
  /\ a.anchor.chain = chain
  /\ a.anchor.covenant_outpoint # NullOutpoint
  /\ a.anchor.covenant_id # Zero
  /\ a.anchor.witness_txid # Zero
  /\ a.anchor.confirmation_depth # 0
  /\ a.amount # 0
  /\ a.encrypted_note_commitment # Zero

\* Bytes 1 to 41, which the circuits compare for an outpoint: the 36 bytes of
\* the outpoint and four of the covenant id.
outpoint_window(a) == <<OutpointOf(a), Prefix(a.anchor.covenant_id)>>

windows(S) == {outpoint_window(a) : a \in S}

enforce_spent_anchors_not_reused(S, N) == windows(S) \cap windows(N) = {}

sorted(s) == \A i, j \in DOMAIN s : i < j => Precedes(s[i], s[j])

\* How far a hash of the allocations as given differs from that of the sorted
\* allocations.
order_of(s) == IF sorted(s) THEN <<>> ELSE s
=============================================================================
