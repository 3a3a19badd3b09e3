---------------------------- MODULE LineageSpec -----------------------------
(***************************************************************************)
(* What the indexer promises about one covenant lineage, without receipts   *)
(* vectors, spend records or proofs: a lineage is the sequence of points    *)
(* the asset went through, oldest first.  It may be begun, extended by a    *)
(* point reached under a fresh receipt, or cut back to any earlier point,   *)
(* and nothing else ever happens to it.  A cut restores the earlier point   *)
(* exactly, and forgets the receipts of the points it drops, so a           *)
(* transition undone by a reorg can be applied again.                       *)
(***************************************************************************)
EXTENDS Naturals, Sequences

CONSTANTS Covenant, Outpoint, Digest, Policy, Receipt, None

Point ==
  [outpoint : Outpoint, digest : Digest, policy : Policy,
   receipt : Receipt \cup {None}]

VARIABLE lineage      \* covenant -> the points of its lineage

Init == lineage = [c \in {} |-> None]

set(covenant, points) ==
  lineage' = [c \in DOMAIN lineage \cup {covenant} |->
                IF c = covenant THEN points ELSE lineage[c]]

Begin(covenant, point) ==
  /\ covenant \notin DOMAIN lineage
  /\ point.receipt = None
  /\ set(covenant, <<point>>)

Extend(covenant, point) ==
  /\ covenant \in DOMAIN lineage
  /\ point.receipt # None
  /\ \A i \in 1 .. Len(lineage[covenant]) :
       lineage[covenant][i].receipt # point.receipt
  /\ lineage[covenant][Len(lineage[covenant])].digest # point.digest
  /\ set(covenant, Append(lineage[covenant], point))

CutBack(covenant, kept) ==
  /\ covenant \in DOMAIN lineage
  /\ kept < Len(lineage[covenant])
  /\ set(covenant, SubSeq(lineage[covenant], 1, kept))

Next ==
  \/ \E covenant \in Covenant, point \in Point :
       Begin(covenant, point) \/ Extend(covenant, point)
  \/ \E covenant \in DOMAIN lineage :
       \E kept \in 1 .. Len(lineage[covenant]) : CutBack(covenant, kept)

Spec == Init /\ [][Next]_lineage
=============================================================================
