---------------------------- MODULE AllocationAudit ----------------------------
(***************************************************************************)
(* The segmented allocation audit of crates/rgk-zk: a verifier is given the *)
(* statements of several provers as one bundle and accepts or rejects it;   *)
(* an accepted bundle becomes a certificate, which is sent on and verified  *)
(* again from its own contents.                                             *)
(*                                                                          *)
(* verify_allocation_audit_bundle reads the bundle part by part.  The model *)
(* chooses each part when it is read, from the statements that have a proof,*)
(* so a part behind a failed check is never chosen; the outcome is the same.*)
(***************************************************************************)
EXTENDS AllocationStatements, SequencesExt, TLC

CONSTANTS
  Segments,     \* the segments of a side that provers work on, by side
  Blinding,     \* amount blindings
  MaxSegments,  \* bound on the segments of a side
  MaxEntries    \* MAX_ALLOCATION_AUDIT_CERTIFICATE_PROOF_ENTRIES

ASSUME AuditAssumption ==
  /\ SpentArity \in Nat \ {0} /\ NewArity \in Nat \ {0} /\ MaxSegments \in Nat
  /\ MaxEntries \in Nat /\ MaxU64 \in Nat
  /\ \A side \in Side : \A S \in Segments[side] : S # {}

VARIABLES
  stage,        \* the part to be read next, or the verifier's answer
  bundle,       \* AllocationAuditBundle, as far as it has been read
  certificate   \* the bytes of a certificate as they were delivered

vars == <<stage, bundle, certificate>>

-----------------------------------------------------------------------------
(* verify_allocation_audit_bundle.                                          *)

\* Variant: segments are counted, not allocations.
transcript_chain_verified_by_segments(side, T) ==
  /\ T # <<>>
  /\ T[1].previous_root = allocation_transcript_empty_root(side)
  /\ \A i \in DOMAIN T :
       /\ T[i].side = side
       /\ T[i].chain_id = T[1].chain_id
       /\ T[i].segment_index = i - 1
       /\ T[i].total_count = Len(T)
       /\ i > 1 => T[i].previous_root = T[i - 1].next_root

verify_allocation_transcript_chain(side, T) ==
  /\ T # <<>>
  /\ T[1].previous_root = allocation_transcript_empty_root(side)
  /\ \A i \in DOMAIN T :
       /\ T[i].side = side
       /\ T[i].chain_id = T[1].chain_id
       /\ T[i].segment_index = i - 1
       /\ T[i].total_count = Len(T) * arity(side)
       /\ i > 1 => T[i].previous_root = T[i - 1].next_root

\* The comparisons of the final statement with both transcript chains
final_counts_match(final, spent, new) ==
  /\ final.spent_total_count = spent[1].total_count
  /\ final.new_total_count = new[1].total_count

\* Variant: the running totals of the segments are not compared.
conservation_chain_verified_unlinked(T, C, final_total_commitment) ==
  /\ Len(C) = Len(T)
  /\ \A i \in DOMAIN T : C[i].transcript = T[i]
  /\ Last(C).next_total_commitment = final_total_commitment

verify_allocation_conservation_chain(T, C, final_total_commitment) ==
  /\ Len(C) = Len(T)
  /\ \A i \in DOMAIN T :
       /\ C[i].transcript = T[i]
       /\ i > 1 => C[i].previous_total_commitment = C[i - 1].next_total_commitment
  /\ Last(C).next_total_commitment = final_total_commitment

\* Variant: only index and count of the new segment are compared.
pair_binds_counts(e, s, n) ==
  /\ e.spent_previous_root = s.previous_root
  /\ e.spent_next_root = s.next_root
  /\ e.spent_total_count = s.total_count
  /\ e.spent_amount_commitment = s.segment_amount_commitment
  /\ e.new_total_count = n.total_count

\* An exclusion statement is about these two transcript segments.
pair_binds(e, s, n) ==
  /\ e.spent_previous_root = s.previous_root
  /\ e.spent_next_root = s.next_root
  /\ e.spent_total_count = s.total_count
  /\ e.spent_amount_commitment = s.segment_amount_commitment
  /\ e.new_previous_root = n.previous_root
  /\ e.new_next_root = n.next_root
  /\ e.new_total_count = n.total_count
  /\ e.new_amount_commitment = n.segment_amount_commitment

pair_of(e) == <<e.spent_segment_index, e.new_segment_index>>

\* The transcripts are those of verified chains, so the segment of index i is
\* the one at position i + 1.
verify_allocation_exclusion_grid(spent, new, E) ==
  /\ Len(E) = Len(spent) * Len(new)
  /\ \A k \in DOMAIN E :
       /\ E[k].chain_id = spent[1].chain_id
       /\ E[k].spent_segment_index + 1 \in DOMAIN spent
       /\ E[k].new_segment_index + 1 \in DOMAIN new
       /\ pair_binds(E[k], spent[E[k].spent_segment_index + 1],
                           new[E[k].new_segment_index + 1])
  /\ \A k, l \in DOMAIN E : pair_of(E[k]) = pair_of(E[l]) => k = l
  /\ \A i \in DOMAIN spent, j \in DOMAIN new :
       \E k \in DOMAIN E : pair_of(E[k]) = <<i - 1, j - 1>>

verify_allocation_audit_bundle(b) ==
  /\ verify_allocation_transcript_chain("Spent", b.spent_transcripts)
  /\ verify_allocation_transcript_chain("New", b.new_transcripts)
  /\ b.spent_transcripts[1].chain_id = b.new_transcripts[1].chain_id
  /\ final_counts_match(b.final_conservation, b.spent_transcripts, b.new_transcripts)
  /\ verify_allocation_conservation_chain(b.spent_transcripts, b.spent_conservation,
       b.final_conservation.spent_total_commitment)
  /\ verify_allocation_conservation_chain(b.new_transcripts, b.new_conservation,
       b.final_conservation.new_total_commitment)
  /\ verify_allocation_exclusion_grid(b.spent_transcripts, b.new_transcripts,
                                      b.exclusions)

bundle_report(b) ==
  [chain_id |-> b.spent_transcripts[1].chain_id,
   spent_segments |-> Len(b.spent_transcripts),
   new_segments |-> Len(b.new_transcripts),
   exclusion_pairs |-> Len(b.exclusions),
   spent_total_count |-> b.spent_transcripts[1].total_count,
   new_total_count |-> b.new_transcripts[1].total_count,
   spent_final_root |-> Last(b.spent_transcripts).next_root,
   new_final_root |-> Last(b.new_transcripts).next_root,
   spent_total_commitment |-> b.final_conservation.spent_total_commitment,
   new_total_commitment |-> b.final_conservation.new_total_commitment]

-----------------------------------------------------------------------------
(* Certificates.                                                            *)

\* The segment indices an entry is labelled with, by what it states.
labels(kind, s) ==
  CASE kind = "SpentTranscriptSegment" -> <<s.segment_index, None>>
    [] kind = "NewTranscriptSegment" -> <<None, s.segment_index>>
    [] kind = "SpentConservationSegment" -> <<s.transcript.segment_index, None>>
    [] kind = "NewConservationSegment" -> <<None, s.transcript.segment_index>>
    [] kind = "ConservationFinal" -> <<None, None>>
    [] kind = "ExclusionSegmentPair" -> <<s.spent_segment_index, s.new_segment_index>>

\* allocation_audit_manifest_entry, for the statements of one kind
manifest_entries(kind, statements) ==
  [k \in DOMAIN statements |->
     [kind |-> kind, segment_indices |-> labels(kind, statements[k]),
      public_inputs |-> statements[k]]]

append_allocation_audit_manifest_entries(b) ==
  manifest_entries("SpentTranscriptSegment", b.spent_transcripts)
    \o manifest_entries("NewTranscriptSegment", b.new_transcripts)
    \o manifest_entries("SpentConservationSegment", b.spent_conservation)
    \o manifest_entries("NewConservationSegment", b.new_conservation)
    \o manifest_entries("ConservationFinal", <<b.final_conservation>>)
    \o manifest_entries("ExclusionSegmentPair", b.exclusions)

ZK_TAG_GROTH16 == 32

\* A Groth16PrecompileStack with a proof of the statement.  Its verifying key is
\* taken to be that of the statement's circuit and its proof bytes to be one
\* value: two proofs of one statement are not told apart.
stack_of(statement) == [tag |-> ZK_TAG_GROTH16, public_inputs |-> statement]

verify_groth16_stack_against_public_inputs(e) ==
  e.stack.tag = ZK_TAG_GROTH16 /\ e.stack.public_inputs = e.public_inputs

append_allocation_audit_certificate_entries(b) ==
  LET entries == append_allocation_audit_manifest_entries(b)
  IN [k \in DOMAIN entries |->
        [kind |-> entries[k].kind, segment_indices |-> entries[k].segment_indices,
         public_inputs |-> entries[k].public_inputs,
         stack |-> stack_of(entries[k].public_inputs)]]

\* The comparison with the manifest, entry by entry, which leaves out stacks
is_manifest(proofs, b) ==
  LET expected == append_allocation_audit_manifest_entries(b)
  IN /\ Len(proofs) = Len(expected)
     /\ \A k \in DOMAIN expected :
          /\ proofs[k].kind = expected[k].kind
          /\ proofs[k].segment_indices = expected[k].segment_indices
          /\ proofs[k].public_inputs = expected[k].public_inputs

allocation_audit_certificate_id(report, proofs) == <<report, proofs>>

Certificate(id, report, proofs) ==
  [certificate_id |-> id, report |-> report, proofs |-> proofs]

build_allocation_audit_certificate(b) ==
  LET report == bundle_report(b)
      proofs == append_allocation_audit_certificate_entries(b)
  IN Certificate(allocation_audit_certificate_id(report, proofs), report, proofs)

\* A body with too many entries has no bytes, and so no id.
id_binds(c) ==
  /\ Len(c.proofs) <= MaxEntries
  /\ c.certificate_id = allocation_audit_certificate_id(c.report, c.proofs)

\* Against a bundle the verifier has
verify_allocation_audit_certificate(c, b) ==
  /\ verify_allocation_audit_bundle(b)
  /\ c.report = bundle_report(b)
  /\ is_manifest(c.proofs, b)
  /\ \A k \in DOMAIN c.proofs :
       verify_groth16_stack_against_public_inputs(c.proofs[k])
  /\ id_binds(c)

\* check_allocation_audit_entry_indices, and the side of a transcript
entry_consistent(e) ==
  LET s == e.public_inputs
  IN /\ e.kind = "SpentTranscriptSegment" => s.side = "Spent"
     /\ e.kind = "NewTranscriptSegment" => s.side = "New"
     /\ e.kind = "SpentConservationSegment" => s.transcript.side = "Spent"
     /\ e.kind = "NewConservationSegment" => s.transcript.side = "New"
     /\ e.segment_indices = labels(e.kind, s)

stated(proofs, kind) ==
  LET OfKind(e) == e.kind = kind
      entries == SelectSeq(proofs, OfKind)
  IN [k \in DOMAIN entries |-> entries[k].public_inputs]

by_index(T) == SortSeq(T, LAMBDA s, t : s.segment_index < t.segment_index)

by_transcript(C) ==
  SortSeq(C, LAMBDA s, t : s.transcript.segment_index < t.transcript.segment_index)

by_pair(E) ==
  SortSeq(E, LAMBDA d, e :
    \/ d.spent_segment_index < e.spent_segment_index
    \/ /\ d.spent_segment_index = e.spent_segment_index
       /\ d.new_segment_index < e.new_segment_index)

\* The bundle put together from the entries of a certificate
reconstructed(proofs) ==
  [spent_transcripts |-> by_index(stated(proofs, "SpentTranscriptSegment")),
   new_transcripts |-> by_index(stated(proofs, "NewTranscriptSegment")),
   spent_conservation |-> by_transcript(stated(proofs, "SpentConservationSegment")),
   new_conservation |-> by_transcript(stated(proofs, "NewConservationSegment")),
   final_conservation |-> stated(proofs, "ConservationFinal")[1],
   exclusions |-> by_pair(stated(proofs, "ExclusionSegmentPair"))]

\* Variant: the order of the entries is not compared with the manifest.
self_contained_any_order(c) ==
  /\ id_binds(c)
  /\ \A k \in DOMAIN c.proofs :
       /\ verify_groth16_stack_against_public_inputs(c.proofs[k])
       /\ entry_consistent(c.proofs[k])
  /\ Len(stated(c.proofs, "ConservationFinal")) = 1
  /\ LET b == reconstructed(c.proofs)
     IN verify_allocation_audit_bundle(b) /\ c.report = bundle_report(b)

verify_allocation_audit_certificate_self_contained(c) ==
  /\ id_binds(c)
  /\ \A k \in DOMAIN c.proofs :
       /\ verify_groth16_stack_against_public_inputs(c.proofs[k])
       /\ entry_consistent(c.proofs[k])
  /\ Len(stated(c.proofs, "ConservationFinal")) = 1
  /\ LET b == reconstructed(c.proofs)
     IN /\ verify_allocation_audit_bundle(b)
        /\ c.report = bundle_report(b)
        /\ is_manifest(c.proofs, b)

-----------------------------------------------------------------------------
(* The bytes of a certificate, as the fields a reader takes from them; the  *)
(* last field is what is left when all are read.                            *)

MAGIC == "rgk:aac1"

ProofKind ==
  <<"SpentTranscriptSegment", "NewTranscriptSegment", "SpentConservationSegment",
    "NewConservationSegment", "ConservationFinal", "ExclusionSegmentPair">>

as_u8(kind) == (CHOOSE k \in DOMAIN ProofKind : ProofKind[k] = kind) - 1

write_optional_u64(v) == IF v = None THEN <<0, 0>> ELSE <<1, v>>

optional_readable(x) == x[1] = 1 \/ x = <<0, 0>>

read_optional_u64(x) == IF x[1] = 0 THEN None ELSE x[2]

encode_allocation_audit_proof_entry(e) ==
  [kind |-> as_u8(e.kind),
   spent_segment_index |-> write_optional_u64(e.segment_indices[1]),
   new_segment_index |-> write_optional_u64(e.segment_indices[2]),
   public_inputs |-> e.public_inputs, stack |-> e.stack]

entry_decodes(x) ==
  /\ x.kind + 1 \in DOMAIN ProofKind
  /\ optional_readable(x.spent_segment_index)
  /\ optional_readable(x.new_segment_index)

decode_allocation_audit_proof_entry(x) ==
  [kind |-> ProofKind[x.kind + 1],
   segment_indices |-> <<read_optional_u64(x.spent_segment_index),
                         read_optional_u64(x.new_segment_index)>>,
   public_inputs |-> x.public_inputs, stack |-> x.stack]

\* encode_canonical, which refuses what id_binds refuses
encode_canonical(c) ==
  [magic |-> MAGIC, certificate_id |-> c.certificate_id, report |-> c.report,
   proofs |-> [k \in DOMAIN c.proofs |->
                 encode_allocation_audit_proof_entry(c.proofs[k])],
   rest |-> <<>>]

decode_canonical(bytes) ==
  Certificate(bytes.certificate_id, bytes.report,
    [k \in DOMAIN bytes.proofs |->
       decode_allocation_audit_proof_entry(bytes.proofs[k])])

decodes(bytes) ==
  /\ bytes.magic = MAGIC
  /\ Len(bytes.proofs) <= MaxEntries
  /\ \A k \in DOMAIN bytes.proofs : entry_decodes(bytes.proofs[k])
  /\ bytes.rest = <<>>
  /\ id_binds(decode_canonical(bytes))

verify_allocation_audit_certificate_canonical(bytes) ==
  /\ decodes(bytes)
  /\ verify_allocation_audit_certificate_self_contained(decode_canonical(bytes))

-----------------------------------------------------------------------------
(* The statements that have a proof, as far as a verifier is given them.    *)

TotalCounts(side) == {arity(side) * k : k \in 1 .. MaxSegments}

\* First segments of chains, of any length
First(side) ==
  {transcript(allocation_transcript_empty_root(side), side, 0, t, S, b) :
     t \in TotalCounts(side), S \in Segments[side], b \in Blinding}

\* The roots after the first n segments of a chain, for every n: a chain that
\* verifies has no other as the previous root of a segment.
ChainRoots(side) ==
  LET after[n \in 0 .. MaxSegments] ==
        IF n = 0 THEN {allocation_transcript_empty_root(side)}
        ELSE {transcript(r, side, n - 1, t, S, b).next_root :
                r \in after[n - 1], t \in TotalCounts(side),
                S \in Segments[side], b \in Blinding}
  IN UNION {after[n] : n \in 0 .. MaxSegments - 1}

Roots(side) ==
  {allocation_transcript_empty_root(x) : x \in Side} \cup ChainRoots(side)

\* Any index, count and previous root can be put into a statement.
Transcripts(side) ==
  {s \in {transcript(r, side, i, t, S, b) :
            r \in Roots(side), i \in 0 .. MaxSegments - 1,
            t \in TotalCounts(side), S \in Segments[side], b \in Blinding} :
     transcript_proved(s)}

Stray(side) == {f \in First(side) : f.total_count = arity(side)}

Conservations(side, T) ==
  {c \in {conservation(t, p, b, b) :
            t \in Range(T) \cup Stray(side), p \in 0 .. MaxU64, b \in Blinding} :
     conservation_proved(c)}

Finals ==
  {f \in {conservation_final(s, n, t, b, b) :
            s \in TotalCounts("Spent"), n \in TotalCounts("New"),
            t \in 1 .. MaxU64, b \in Blinding} : final_proved(f)}

ExclusionPairs(T, U) ==
  {p \in (Range(T) \X Range(U)) \cup (Stray("Spent") \X Stray("New")) :
     exclusion_proved(p[1], p[2])}

Exclusions(T, U) == {exclusion(p[1], p[2]) : p \in ExclusionPairs(T, U)}

-----------------------------------------------------------------------------
(* Reading a bundle.                                                        *)

Init ==
  /\ stage = "spent_transcripts"
  /\ bundle = <<>>
  /\ certificate = None

Read(part, value, verified, next) ==
  /\ bundle' = [p \in DOMAIN bundle \cup {part} |->
                  IF p = part THEN value ELSE bundle[p]]
  /\ stage' = IF verified THEN next ELSE "rejected"
  /\ UNCHANGED certificate

ReadSpentTranscripts ==
  /\ stage = "spent_transcripts"
  /\ \E T \in SeqOf(Transcripts("Spent") \cup Stray("New"), MaxSegments) :
       Read("spent_transcripts", T,
            verify_allocation_transcript_chain("Spent", T), "new_transcripts")

ReadNewTranscripts ==
  /\ stage = "new_transcripts"
  /\ \E T \in SeqOf(Transcripts("New") \cup Stray("Spent"), MaxSegments) :
       Read("new_transcripts", T,
            /\ verify_allocation_transcript_chain("New", T)
            /\ bundle.spent_transcripts[1].chain_id = T[1].chain_id,
            "final_conservation")

ReadFinalConservation ==
  /\ stage = "final_conservation"
  /\ \E f \in Finals :
       Read("final_conservation", f,
            final_counts_match(f, bundle.spent_transcripts, bundle.new_transcripts),
            "spent_conservation")

ReadSpentConservation ==
  /\ stage = "spent_conservation"
  /\ \E C \in SeqOf(Conservations("Spent", bundle.spent_transcripts), MaxSegments) :
       Read("spent_conservation", C,
            verify_allocation_conservation_chain(bundle.spent_transcripts, C,
              bundle.final_conservation.spent_total_commitment),
            "new_conservation")

ReadNewConservation ==
  /\ stage = "new_conservation"
  /\ \E C \in SeqOf(Conservations("New", bundle.new_transcripts), MaxSegments) :
       Read("new_conservation", C,
            verify_allocation_conservation_chain(bundle.new_transcripts, C,
              bundle.final_conservation.new_total_commitment),
            "exclusions")

ReadExclusions ==
  /\ stage = "exclusions"
  /\ \E E \in SeqOf(Exclusions(bundle.spent_transcripts, bundle.new_transcripts),
                    Len(bundle.spent_transcripts) * Len(bundle.new_transcripts)) :
       Read("exclusions", E,
            verify_allocation_exclusion_grid(bundle.spent_transcripts,
                                             bundle.new_transcripts, E),
            "verified")

-----------------------------------------------------------------------------
(* Delivering a certificate: as it was built, or with one thing changed.    *)

Swapped(s, i, j) == [s EXCEPT ![i] = s[j], ![j] = s[i]]

AlteredProofs(s) ==
  {Swapped(s, i, j) : i, j \in DOMAIN s}
    \cup {RemoveAt(s, i) : i \in DOMAIN s}
    \cup {Append(s, s[i]) : i \in DOMAIN s}
    \cup {[s EXCEPT ![i].segment_indices = <<x, None>>] : i \in DOMAIN s, x \in 0 .. 1}
    \cup {[s EXCEPT ![i].stack = s[j].stack] : i, j \in DOMAIN s}
    \cup {[s EXCEPT ![i].stack.tag = 0] : i \in DOMAIN s}

AlteredReport(r) ==
  {r, [r EXCEPT !.spent_total_count = r.spent_total_count + 1],
      [r EXCEPT !.spent_final_root = r.new_final_root]}

Delivered(c) ==
  {Certificate(id, c.report, proofs) :
     id \in {c.certificate_id}, proofs \in AlteredProofs(c.proofs)}
    \cup {Certificate(allocation_audit_certificate_id(c.report, proofs), c.report, proofs) :
            proofs \in AlteredProofs(c.proofs)}
    \cup {Certificate(allocation_audit_certificate_id(report, c.proofs), report, c.proofs) :
            report \in AlteredReport(c.report)}

AlteredBytes(bytes) ==
  {[bytes EXCEPT !.magic = None], [bytes EXCEPT !.rest = <<0>>]}
    \cup {[bytes EXCEPT !.proofs[i].kind = Len(ProofKind)] : i \in DOMAIN bytes.proofs}
    \cup {[bytes EXCEPT !.proofs[i].spent_segment_index = v] :
            i \in DOMAIN bytes.proofs, v \in {<<0, 1>>, <<2, 0>>}}

Deliver ==
  /\ stage = "verified"
  /\ LET built == build_allocation_audit_certificate(bundle)
     IN /\ id_binds(built)
        /\ \E bytes \in AlteredBytes(encode_canonical(built))
                  \cup {encode_canonical(c) : c \in Delivered(built)} :
             /\ certificate' = bytes
             /\ stage' = IF verify_allocation_audit_certificate_canonical(bytes)
                           THEN "accepted" ELSE "refused"
  /\ UNCHANGED bundle

Next ==
  \/ ReadSpentTranscripts
  \/ ReadNewTranscripts
  \/ ReadFinalConservation
  \/ ReadSpentConservation
  \/ ReadNewConservation
  \/ ReadExclusions
  \/ Deliver

Spec == Init /\ [][Next]_vars

-----------------------------------------------------------------------------
(* Properties.                                                              *)

Verified == stage \in {"verified", "accepted", "refused"}

segments_of(T) == [i \in DOMAIN T |-> segment_of(T[i])]

\* The root of a side that has these segments, in order.
root_over(side, segs) ==
  LET root[i \in 0 .. Len(segs)] ==
        IF i = 0 THEN allocation_transcript_empty_root(side)
        ELSE extend_allocation_transcript_root(root[i - 1], side, i - 1,
               Len(segs) * arity(side), segs[i])
  IN root[Len(segs)]

\* The sum of the first i numbers of v, for every i.
partial_sums(v) ==
  LET sum[i \in 0 .. Len(v)] == IF i = 0 THEN 0 ELSE sum[i - 1] + v[i]
  IN sum

allocation_count(T) ==
  partial_sums([i \in DOMAIN T |-> Cardinality(segment_of(T[i]))])[Len(T)]

total_before(T, i) ==
  partial_sums([j \in DOMAIN T |-> amount_sum(segment_of(T[j]))])[i - 1]

total_of(T) == total_before(T, Len(T) + 1)

\* The roots in the report stand for what was audited and nothing else: the
\* segments of the bundle in order, as many allocations as the counts say, all of
\* one chain.  And supply is conserved between them: the allocations under the
\* spent root add up to those under the new root, and to no more than a u64,
\* although no statement speaks of more than one segment and any running
\* total can be put into a conservation segment behind the first.
VerifiedConserves ==
  Verified =>
    LET T == bundle.spent_transcripts
        U == bundle.new_transcripts
        report == bundle_report(bundle)
        covers(side, X, root, count) ==
          /\ root = root_over(side, segments_of(X))
          /\ allocation_count(X) = count
          /\ \A x \in Range(X) : \A a \in segment_of(x) :
               a.anchor.chain = report.chain_id
    IN /\ covers("Spent", T, report.spent_final_root, report.spent_total_count)
       /\ covers("New", U, report.new_final_root, report.new_total_count)
       /\ total_of(T) = total_of(U)
       /\ total_of(U) <= MaxU64

\* No output of a covenant is both spent and created: the grid of pairwise
\* statements covers all of what the two final roots stand for.  Of one outpoint
\* under two covenant ids, which no chain has, the circuits compare more than
\* the outpoint and exclude nothing.
VerifiedExcludes ==
  Verified =>
    LET outputs(T) == {<<OutpointOf(a), a.anchor.covenant_id>> :
                         a \in UNION Range(segments_of(T))}
    IN outputs(bundle.spent_transcripts) \cap outputs(bundle.new_transcripts) = {}

\* The statements a prover makes of the segments of T: roots and running totals
\* continued from segment to segment.
honest_transcripts(side, T) ==
  \A i \in DOMAIN T :
    T[i] = transcript(IF i = 1 THEN allocation_transcript_empty_root(side)
                               ELSE T[i - 1].next_root,
                      side, i - 1, Len(T) * arity(side), segment_of(T[i]),
                      T[i].segment_amount_commitment.blinding)

honest_conservation(T, C, blinding) ==
  C = [i \in DOMAIN T |-> conservation(T[i], total_before(T, i), blinding, blinding)]

\* One statement for each pair of segments
honest_grid(T, U, E) ==
  /\ Range(E) = {exclusion(t, u) : t \in Range(T), u \in Range(U)}
  /\ Len(E) = Len(T) * Len(U)

\* The parts read so far are what one prover states of one transition on one
\* chain with equal totals.
honest(b) ==
  LET read(part) == part \in DOMAIN b
      T == b.spent_transcripts
      U == b.new_transcripts
      blinding == b.final_conservation.spent_total_commitment.blinding
  IN /\ T # <<>> /\ honest_transcripts("Spent", T)
     /\ \A t \in Range(T) : t.chain_id = T[1].chain_id
     /\ read("new_transcripts") =>
          /\ U # <<>> /\ honest_transcripts("New", U)
          /\ \A u \in Range(U) : u.chain_id = T[1].chain_id
     /\ read("final_conservation") =>
          /\ total_of(T) = total_of(U)
          /\ b.final_conservation =
               conservation_final(Len(T) * SpentArity, Len(U) * NewArity,
                                  total_of(T), blinding, blinding)
     /\ read("spent_conservation") =>
          honest_conservation(T, b.spent_conservation, blinding)
     /\ read("new_conservation") =>
          honest_conservation(U, b.new_conservation, blinding)
     /\ read("exclusions") => honest_grid(T, U, b.exclusions)

\* What a prover states of a transition that conserves its supply is verified:
\* no part of it is rejected, in whatever order the pairs of the grid are given.
HonestIsVerified == stage = "rejected" => ~honest(bundle)

\* A bundle is verified with its grid in any order, a certificate only in the
\* order of the indices.
in_order(b) == [b EXCEPT !.exclusions = by_pair(b.exclusions)]

\* The bytes of a certificate are accepted exactly as they are built from the
\* bundle in order, by a verifier that has only them and by one that has the
\* bundle: entries missing, repeated, exchanged or relabelled, a proof of
\* something else, a changed report, another id and another writing of the same
\* certificate are refused.  The keys and the proof bytes in it are not told
\* apart, so nothing is said of another proof of the same statement.
CertificateIsManifest ==
  stage \in {"accepted", "refused"} =>
    LET b == in_order(bundle)
        built == encode_canonical(build_allocation_audit_certificate(b))
    IN /\ stage = "accepted" <=> certificate = built
       /\ certificate = built <=>
            /\ decodes(certificate)
            /\ verify_allocation_audit_certificate(decode_canonical(certificate), b)
=============================================================================
