--------------------------- MODULE MCAllocationAudit ---------------------------
(* Segments for the allocation audit.                                        *)
EXTENDS AllocationAudit

CONSTANTS k1, k2, c1, c2, x, o1, o2, o3, o4, n1, n2, n3, n4

MCPrefix(covenant_id) == covenant_id

\* A segment is a set; its order is not looked at.
MCPrecedes(a, b) == TRUE

Under(covenant, chain, outpoint, amount) ==
  [anchor |-> [chain |-> chain, covenant_outpoint |-> outpoint,
               covenant_id |-> covenant, witness_txid |-> x,
               confirmation_depth |-> 1],
   amount |-> amount, encrypted_note_commitment |-> x]

Alloc(chain, outpoint, amount) == Under(c1, chain, outpoint, amount)

MCSegments ==
  [side \in Side |->
     IF side = "Spent"
       THEN {{Alloc(k1, o1, 1), Alloc(k1, o2, 2)}, {Alloc(k1, o3, 1), Alloc(k1, o4, 1)}}
       ELSE {{Alloc(k1, n1, 1), Alloc(k1, n2, 2)},
             {Alloc(k1, n3, 1), Under(c2, k1, o4, 1)},
             {Alloc(k1, o3, 1), Alloc(k1, n3, 1)},
             {Alloc(k2, n1, 2), Alloc(k2, n4, 1)}}]
=============================================================================
