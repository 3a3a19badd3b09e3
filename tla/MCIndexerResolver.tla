------------------------- MODULE MCIndexerResolver --------------------------
(* Values for the constants of IndexerResolver: complete and incomplete      *)
(* continuation proofs, migration proofs whose commitment does or does not   *)
(* match their fields, certificates of every form.                           *)
EXTENDS IndexerResolver, TLC

CONSTANT h1

Complete == [commitment |-> h1, shape_root |-> h1, transition_digest |-> h1]

MCContinuationInput == {Complete, [Complete EXCEPT !.shape_root = Zero]}

MCMigrationInput ==
  LET built ==
        {[previous_policy |-> p, new_policy |-> q, previous_state_digest |-> d,
          new_state_digest |-> e, transition_digest |-> h1,
          authorization_commitment |-> h1,
          migration_commitment |-> policy_migration_commitment(p, q, d, e, h1, h1)] :
           p \in Policy, q \in Policy, d \in Digest, e \in Digest}
  IN built \cup {[m EXCEPT !.migration_commitment[6] = Zero] : m \in built}

MCCertificateInput == AllocationAuditCertificateRecord

Symmetry == Permutations(Receipt) \cup Permutations(Txid)
=============================================================================
