------------------------ MODULE AllocationAuditProofs ------------------------
(***************************************************************************)
(* What a verified bundle shows, for every choice of segments, arities and  *)
(* bounds.  AuditInv is the inductive invariant: every part that has been   *)
(* read and not rejected consists of statements that have a proof and       *)
(* passed its check.  The theorems follow the chains from segment to        *)
(* segment: no statement speaks of more than one segment or one pair.       *)
(***************************************************************************)
EXTENDS AllocationAudit, TLAPS

\* What the lemmas use of numbers and of finite sets.  The facts are those of
\* FiniteSetTheorems; they are taken from there at the end of the module, after
\* everything that can do without the library.  A non-empty set of numbers has a
\* least element, and what covers a grid with as many elements as it has cells
\* covers no cell twice.
NumberLaws ==
  /\ \A T \in SUBSET Nat : T # {} => \E x \in T : \A y \in T : x <= y
  /\ \A n, m \in Nat : \A F \in [1 .. n * m -> (1 .. n) \X (1 .. m)] :
       (\A p \in (1 .. n) \X (1 .. m) : \E k \in 1 .. n * m : F[k] = p) =>
         \A k, l \in 1 .. n * m : F[k] = F[l] => k = l

\* F covers a grid, with as many elements as it has cells.
Covers(F, c, n, m) ==
  /\ n \in Nat /\ m \in Nat /\ c = n * m
  /\ F \in [1 .. c -> (1 .. n) \X (1 .. m)]
  /\ \A p \in (1 .. n) \X (1 .. m) : \E k \in 1 .. c : F[k] = p

\* No two of them are the same cell.
OneEach(F, c) == \A k, l \in 1 .. c : F[k] = F[l] => k = l

\* The first segment at which a chain would go wrong.
LEMMA FirstNatural ==
  ASSUME NumberLaws, NEW T, T \subseteq Nat, T # {}
  PROVE  \E x \in T : \A y \in T : x <= y
<1>1. T \in SUBSET Nat
  BY Zenon
<1>2. QED BY <1>1, Zenon DEF NumberLaws

\* As many statements as there are pairs, one for each pair.
LEMMA GridOnce ==
  ASSUME NumberLaws, NEW F, NEW c, NEW n, NEW m, Covers(F, c, n, m)
  PROVE  OneEach(F, c)
BY Zenon DEF NumberLaws, Covers, OneEach

-----------------------------------------------------------------------------
(* Reading: what has been read was proved and checked.                      *)

Other(side) == IF side = "Spent" THEN "New" ELSE "Spent"

\* Transcript statements that form a verified chain of a side.
ReadChain(side, T) ==
  /\ T \in Seq(Transcripts(side) \cup Stray(Other(side)))
  /\ verify_allocation_transcript_chain(side, T)

SpentRead == ReadChain("Spent", bundle.spent_transcripts)

NewRead ==
  /\ ReadChain("New", bundle.new_transcripts)
  /\ bundle.spent_transcripts[1].chain_id = bundle.new_transcripts[1].chain_id

FinalRead ==
  /\ bundle.final_conservation \in Finals
  /\ final_counts_match(bundle.final_conservation, bundle.spent_transcripts,
                        bundle.new_transcripts)

SpentConserved ==
  /\ bundle.spent_conservation
       \in Seq(Conservations("Spent", bundle.spent_transcripts))
  /\ verify_allocation_conservation_chain(bundle.spent_transcripts,
       bundle.spent_conservation, bundle.final_conservation.spent_total_commitment)

NewConserved ==
  /\ bundle.new_conservation \in Seq(Conservations("New", bundle.new_transcripts))
  /\ verify_allocation_conservation_chain(bundle.new_transcripts,
       bundle.new_conservation, bundle.final_conservation.new_total_commitment)

GridRead ==
  /\ bundle.exclusions
       \in Seq(Exclusions(bundle.spent_transcripts, bundle.new_transcripts))
  /\ verify_allocation_exclusion_grid(bundle.spent_transcripts,
       bundle.new_transcripts, bundle.exclusions)

PastGrid == {"verified", "accepted", "refused"}
PastNewConservation == {"exclusions"} \cup PastGrid
PastSpentConservation == {"new_conservation"} \cup PastNewConservation
PastFinal == {"spent_conservation"} \cup PastSpentConservation
PastNew == {"final_conservation"} \cup PastFinal
PastSpent == {"new_transcripts"} \cup PastNew

Before(part) ==
  CASE part = "spent_transcripts" -> {}
    [] part = "new_transcripts" -> {"spent_transcripts"}
    [] part = "final_conservation" -> {"spent_transcripts", "new_transcripts"}
    [] part = "spent_conservation" ->
         {"spent_transcripts", "new_transcripts", "final_conservation"}
    [] part = "new_conservation" ->
         {"spent_transcripts", "new_transcripts", "final_conservation",
          "spent_conservation"}
    [] part = "exclusions" ->
         {"spent_transcripts", "new_transcripts", "final_conservation",
          "spent_conservation", "new_conservation"}

Part == {"spent_transcripts", "new_transcripts", "final_conservation",
         "spent_conservation", "new_conservation", "exclusions"}

\* What is known of the bundle at each stage, and which parts it has.
AuditInv ==
  /\ stage \in Part => DOMAIN bundle = Before(stage)
  /\ stage \in PastSpent => SpentRead
  /\ stage \in PastNew => NewRead
  /\ stage \in PastFinal => FinalRead
  /\ stage \in PastSpentConservation => SpentConserved
  /\ stage \in PastNewConservation => NewConserved
  /\ stage \in PastGrid => GridRead

\* Sequences of bounded length are sequences.
LEMMA BoundedIsSeq ==
  ASSUME NEW S, NEW n, NEW s \in SeqOf(S, n), n \in Nat
  PROVE  s \in Seq(S)
<1>1. PICK m \in 0 .. n : s \in [1 .. m -> S]
  BY DEF SeqOf
<1>2. QED BY <1>1

Extended(part, value) ==
  bundle' = [p \in DOMAIN bundle \cup {part} |->
               IF p = part THEN value ELSE bundle[p]]

\* Reading a part keeps the parts read before it.
LEMMA ReadKeeps ==
  ASSUME NEW part, NEW value, Extended(part, value)
  PROVE  /\ DOMAIN bundle' = DOMAIN bundle \cup {part}
         /\ bundle'[part] = value
         /\ \A p \in DOMAIN bundle : p # part => bundle'[p] = bundle[p]
BY DEF Extended

\* A product of natural numbers is one.
LEMMA ProductNat ==
  ASSUME NEW m \in Nat, NEW n \in Nat
  PROVE  m * n \in Nat
OBVIOUS

\* Nothing is claimed of a rejected bundle.
LEMMA RejectedKeeps ==
  ASSUME stage' = "rejected"
  PROVE  AuditInv'
BY DEF AuditInv, Part, PastGrid, PastNewConservation, PastSpentConservation,
       PastFinal, PastNew, PastSpent

\* Every part that is read and not rejected is proved and checked.
LEMMA AuditStep ==
  ASSUME AuditInv, [Next]_vars
  PROVE  AuditInv'
<1> USE DEF PastGrid, PastNewConservation, PastSpentConservation, PastFinal,
            PastNew, PastSpent, Part
<1>1. CASE ReadSpentTranscripts
  <2>1. PICK T \in SeqOf(Transcripts("Spent") \cup Stray("New"), MaxSegments) :
          /\ Extended("spent_transcripts", T)
          /\ IF verify_allocation_transcript_chain("Spent", T) THEN stage' = "new_transcripts" ELSE stage' = "rejected"
    BY <1>1 DEF ReadSpentTranscripts, Read, Extended
  <2>2. T \in Seq(Transcripts("Spent") \cup Stray("New"))
    BY <2>1, BoundedIsSeq, AuditAssumption, Zenon
  <2>3. DOMAIN bundle = {}
    BY <1>1 DEF ReadSpentTranscripts, AuditInv, Before
  <2>4. CASE verify_allocation_transcript_chain("Spent", T)
    <3>1. /\ DOMAIN bundle' = {"spent_transcripts"}
          /\ bundle'["spent_transcripts"] = T /\ stage' = "new_transcripts"
      BY <2>1, <2>3, <2>4, ReadKeeps, Zenon
    <3>2. SpentRead'
      BY <2>2, <2>4, <3>1 DEF SpentRead, ReadChain, Other
    <3>3. QED BY <3>1, <3>2, Zenon DEF AuditInv, Before
  <2>5. CASE ~ verify_allocation_transcript_chain("Spent", T)
    BY <2>1, <2>5, RejectedKeeps
  <2>6. QED BY <2>4, <2>5, Zenon
<1>2. CASE ReadNewTranscripts
  <2> DEFINE ok(T) == /\ verify_allocation_transcript_chain("New", T)
                      /\ bundle.spent_transcripts[1].chain_id = T[1].chain_id
  <2>1. PICK T \in SeqOf(Transcripts("New") \cup Stray("Spent"), MaxSegments) :
          /\ Extended("new_transcripts", T)
          /\ IF ok(T) THEN stage' = "final_conservation" ELSE stage' = "rejected"
    BY <1>2 DEF ReadNewTranscripts, Read, Extended
  <2>2. T \in Seq(Transcripts("New") \cup Stray("Spent"))
    BY <2>1, BoundedIsSeq, AuditAssumption, Zenon
  <2>3. stage = "new_transcripts" /\ DOMAIN bundle = {"spent_transcripts"}
        /\ SpentRead
    BY <1>2 DEF ReadNewTranscripts, AuditInv, Before
  <2>4. CASE ok(T)
    <3>1. /\ DOMAIN bundle' = {"spent_transcripts", "new_transcripts"}
          /\ bundle'["new_transcripts"] = T /\ stage' = "final_conservation"
          /\ bundle'["spent_transcripts"] = bundle["spent_transcripts"]
      <4>1. /\ DOMAIN bundle' = DOMAIN bundle \cup {"new_transcripts"}
            /\ bundle'["new_transcripts"] = T
            /\ \A p \in DOMAIN bundle : p # "new_transcripts" => bundle'[p] = bundle[p]
        BY <2>1, ReadKeeps, Zenon
      <4>2. stage' = "final_conservation"
        BY <2>1, <2>4, Zenon
      <4>3. QED BY <2>3, <4>1, <4>2, Zenon
    <3>2. SpentRead' /\ NewRead'
      BY <2>2, <2>3, <2>4, <3>1, Zenon DEF SpentRead, NewRead, ReadChain, Other
    <3>3. QED BY <3>1, <3>2, Zenon DEF AuditInv, Before
  <2>5. CASE ~ ok(T)
    BY <2>1, <2>5, RejectedKeeps, Zenon
  <2>6. QED BY <2>4, <2>5, Zenon
<1>3. CASE ReadFinalConservation
  <2> DEFINE T == bundle.spent_transcripts
             U == bundle.new_transcripts
  <2>1. PICK f \in Finals :
          /\ Extended("final_conservation", f)
          /\ IF final_counts_match(f, T, U) THEN stage' = "spent_conservation" ELSE stage' = "rejected"
    BY <1>3 DEF ReadFinalConservation, Read, Extended
  <2>2. /\ DOMAIN bundle = {"spent_transcripts", "new_transcripts"}
        /\ SpentRead /\ NewRead
    BY <1>3 DEF ReadFinalConservation, AuditInv, Before
  <2>3. CASE final_counts_match(f, T, U)
    <3>1. /\ DOMAIN bundle'
               = {"spent_transcripts", "new_transcripts", "final_conservation"}
          /\ bundle'["final_conservation"] = f /\ stage' = "spent_conservation"
          /\ bundle'["spent_transcripts"] = T /\ bundle'["new_transcripts"] = U
      <4>1. /\ DOMAIN bundle' = DOMAIN bundle \cup {"final_conservation"}
            /\ bundle'["final_conservation"] = f
            /\ \A p \in DOMAIN bundle : p # "final_conservation" => bundle'[p] = bundle[p]
        BY <2>1, ReadKeeps, Zenon
      <4>2. stage' = "spent_conservation"
        BY <2>1, <2>3, Zenon
      <4>3. QED BY <2>2, <4>1, <4>2, Zenon
    <3>2. SpentRead' /\ NewRead' /\ FinalRead'
      BY <2>2, <2>3, <3>1, Zenon DEF SpentRead, NewRead, FinalRead
    <3>3. QED BY <3>1, <3>2, Zenon DEF AuditInv, Before
  <2>4. CASE ~ final_counts_match(f, T, U)
    BY <2>1, <2>4, RejectedKeeps, Zenon
  <2>5. QED BY <2>3, <2>4, Zenon
<1>4. CASE ReadSpentConservation
  <2> DEFINE T == bundle.spent_transcripts
             ok(C) == verify_allocation_conservation_chain(T, C,
                        bundle.final_conservation.spent_total_commitment)
  <2>1. PICK C \in SeqOf(Conservations("Spent", T), MaxSegments) :
          /\ Extended("spent_conservation", C)
          /\ IF ok(C) THEN stage' = "new_conservation" ELSE stage' = "rejected"
    BY <1>4 DEF ReadSpentConservation, Read, Extended
  <2>2. C \in Seq(Conservations("Spent", T))
    BY <2>1, BoundedIsSeq, AuditAssumption, Zenon
  <2>3. /\ DOMAIN bundle
             = {"spent_transcripts", "new_transcripts", "final_conservation"}
        /\ SpentRead /\ NewRead /\ FinalRead
    BY <1>4 DEF ReadSpentConservation, AuditInv, Before
  <2>4. CASE ok(C)
    <3>1. /\ DOMAIN bundle' = {"spent_transcripts", "new_transcripts",
                               "final_conservation", "spent_conservation"}
          /\ bundle'["spent_conservation"] = C /\ stage' = "new_conservation"
          /\ bundle'["spent_transcripts"] = T
          /\ bundle'["new_transcripts"] = bundle["new_transcripts"]
          /\ bundle'["final_conservation"] = bundle["final_conservation"]
      BY <2>1, <2>3, <2>4, ReadKeeps, Zenon
    <3>2. SpentRead' /\ NewRead' /\ FinalRead' /\ SpentConserved'
      BY <2>2, <2>3, <2>4, <3>1
         DEF SpentRead, NewRead, FinalRead, SpentConserved
    <3>3. QED BY <3>1, <3>2, Zenon DEF AuditInv, Before
  <2>5. CASE ~ ok(C)
    BY <2>1, <2>5, RejectedKeeps
  <2>6. QED BY <2>4, <2>5, Zenon
<1>5. CASE ReadNewConservation
  <2> DEFINE U == bundle.new_transcripts
             ok(C) == verify_allocation_conservation_chain(U, C,
                        bundle.final_conservation.new_total_commitment)
  <2>1. PICK C \in SeqOf(Conservations("New", U), MaxSegments) :
          /\ Extended("new_conservation", C)
          /\ IF ok(C) THEN stage' = "exclusions" ELSE stage' = "rejected"
    BY <1>5 DEF ReadNewConservation, Read, Extended
  <2>2. C \in Seq(Conservations("New", U))
    BY <2>1, BoundedIsSeq, AuditAssumption, Zenon
  <2>3. /\ DOMAIN bundle = {"spent_transcripts", "new_transcripts",
                            "final_conservation", "spent_conservation"}
        /\ SpentRead /\ NewRead /\ FinalRead /\ SpentConserved
    BY <1>5 DEF ReadNewConservation, AuditInv, Before
  <2>4. CASE ok(C)
    <3>1. /\ DOMAIN bundle' = {"spent_transcripts", "new_transcripts",
                "final_conservation", "spent_conservation", "new_conservation"}
          /\ bundle'["new_conservation"] = C /\ stage' = "exclusions"
          /\ bundle'["spent_transcripts"] = bundle["spent_transcripts"]
          /\ bundle'["new_transcripts"] = U
          /\ bundle'["final_conservation"] = bundle["final_conservation"]
          /\ bundle'["spent_conservation"] = bundle["spent_conservation"]
      BY <2>1, <2>3, <2>4, ReadKeeps, Zenon
    <3>2. SpentRead' /\ NewRead' /\ FinalRead' /\ SpentConserved' /\ NewConserved'
      BY <2>2, <2>3, <2>4, <3>1
         DEF SpentRead, NewRead, FinalRead, SpentConserved, NewConserved
    <3>3. QED BY <3>1, <3>2, Zenon DEF AuditInv, Before
  <2>5. CASE ~ ok(C)
    BY <2>1, <2>5, RejectedKeeps
  <2>6. QED BY <2>4, <2>5
<1>6. CASE ReadExclusions
  <2> DEFINE T == bundle.spent_transcripts
             U == bundle.new_transcripts
             ok(E) == verify_allocation_exclusion_grid(T, U, E)
  <2>1. PICK E \in SeqOf(Exclusions(T, U), Len(T) * Len(U)) :
          /\ Extended("exclusions", E)
          /\ IF ok(E) THEN stage' = "verified" ELSE stage' = "rejected"
    BY <1>6, Zenon DEF ReadExclusions, Read, Extended
  <2>2. /\ DOMAIN bundle = {"spent_transcripts", "new_transcripts",
               "final_conservation", "spent_conservation", "new_conservation"}
        /\ SpentRead /\ NewRead /\ FinalRead /\ SpentConserved /\ NewConserved
    BY <1>6 DEF ReadExclusions, AuditInv, Before
  <2>3. E \in Seq(Exclusions(T, U))
    <3>1. Len(T) \in Nat /\ Len(U) \in Nat
      BY <2>2 DEF SpentRead, NewRead, ReadChain
    <3> HIDE DEF T, U
    <3>2. Len(T) * Len(U) \in Nat
      BY <3>1, ProductNat
    <3>3. QED BY <2>1, <3>2, BoundedIsSeq
  <2>4. CASE ok(E)
    <3>1. /\ bundle'["exclusions"] = E /\ stage' = "verified"
          /\ bundle'["spent_transcripts"] = T
          /\ bundle'["new_transcripts"] = U
          /\ bundle'["final_conservation"] = bundle["final_conservation"]
          /\ bundle'["spent_conservation"] = bundle["spent_conservation"]
          /\ bundle'["new_conservation"] = bundle["new_conservation"]
      BY <2>1, <2>2, <2>4, ReadKeeps, Zenon
    <3>2. /\ SpentRead' /\ NewRead' /\ FinalRead' /\ SpentConserved'
          /\ NewConserved' /\ GridRead'
      BY <2>2, <2>3, <2>4, <3>1
         DEF SpentRead, NewRead, FinalRead, SpentConserved, NewConserved, GridRead
    <3>3. QED BY <3>1, <3>2, Zenon DEF AuditInv
  <2>5. CASE ~ ok(E)
    BY <2>1, <2>5, RejectedKeeps
  <2>6. QED BY <2>4, <2>5, Zenon
<1>7. CASE Deliver
  <2>1. stage = "verified" /\ bundle' = bundle /\ stage' \in {"accepted", "refused"}
    BY <1>7, Zenon DEF Deliver
  <2>2. QED
    BY <2>1 DEF AuditInv, SpentRead, NewRead, FinalRead, SpentConserved,
                NewConserved, GridRead
<1>8. CASE UNCHANGED vars
  BY <1>8 DEF vars, AuditInv, SpentRead, NewRead, FinalRead, SpentConserved,
              NewConserved, GridRead
<1>9. QED
  BY <1>1, <1>2, <1>3, <1>4, <1>5, <1>6, <1>7, <1>8 DEF Next

\* The invariant holds of every bundle that is being read or was verified.
LEMMA AuditAlways == Spec => []AuditInv
<1>1. Init => AuditInv
  BY DEF Init, AuditInv, Before, Part, PastGrid, PastNewConservation,
         PastSpentConservation, PastFinal, PastNew, PastSpent
<1>2. AuditInv /\ [Next]_vars => AuditInv'
  BY AuditStep, Zenon
<1>3. QED BY <1>1, <1>2, PTL DEF Spec

-----------------------------------------------------------------------------
(* Chains: what the statements of the segments say together.                *)

\* A statement in a verified chain has a proof and continues the chain: the
\* stray statements of the other side are not in it.
LEMMA ChainSegment ==
  ASSUME NEW side \in Side, NEW T, ReadChain(side, T), NEW i \in 1 .. Len(T)
  PROVE  /\ transcript_proved(T[i])
         /\ T[i].next_root =
              extend_allocation_transcript_root(T[i].previous_root, side, i - 1,
                Len(T) * arity(side), segment_of(T[i]))
         /\ T[i].side = side /\ T[i].segment_index = i - 1
         /\ T[i].total_count = Len(T) * arity(side)
         /\ T[i].chain_id = T[1].chain_id
         /\ i = 1 => T[i].previous_root = allocation_transcript_empty_root(side)
         /\ i # 1 => T[i].previous_root = T[i - 1].next_root
<1>1. DOMAIN T = 1 .. Len(T) /\ T[i] \in Transcripts(side) \cup Stray(Other(side))
  BY DEF ReadChain
<1>2. /\ T[i].side = side /\ T[i].segment_index = i - 1
      /\ T[i].total_count = Len(T) * arity(side)
      /\ T[i].chain_id = T[1].chain_id
      /\ i = 1 => T[i].previous_root = allocation_transcript_empty_root(side)
      /\ i # 1 => T[i].previous_root = T[i - 1].next_root
  BY <1>1 DEF ReadChain, verify_allocation_transcript_chain
<1>3. T[i] \notin Stray(Other(side))
  <2>1. ASSUME T[i] \in Stray(Other(side))
        PROVE  T[i].side = Other(side)
    BY <2>1 DEF Stray, First, transcript
  <2>2. Other(side) # side
    BY DEF Other, Side
  <2>3. QED BY <1>2, <2>1, <2>2, Zenon
<1>4. T[i] \in Transcripts(side)
  BY <1>1, <1>3, Zenon
<1>5. PICK r \in Roots(side), k \in 0 .. MaxSegments - 1, t \in TotalCounts(side),
           S \in Segments[side], b \in Blinding :
        T[i] = transcript(r, side, k, t, S, b)
  BY <1>4 DEF Transcripts
<1>6. /\ T[i].previous_root = r /\ T[i].segment_index = k /\ T[i].total_count = t
      /\ T[i].next_root = extend_allocation_transcript_root(r, side, k, t, S)
  BY <1>5 DEF transcript
<1>7. segment_of(T[i]) = S
  BY <1>6 DEF segment_of, extend_allocation_transcript_root
<1>8. transcript_proved(T[i])
  BY <1>4 DEF Transcripts
<1>9. QED BY <1>2, <1>6, <1>7, <1>8, Zenon

IsRoots(f, side, segs) ==
  f = [i \in 0 .. Len(segs) |->
         IF i = 0 THEN allocation_transcript_empty_root(side)
         ELSE extend_allocation_transcript_root(f[i - 1], side, i - 1,
                Len(segs) * arity(side), segs[i])]

IsSums(f, v) ==
  f = [i \in 0 .. Len(v) |-> IF i = 0 THEN 0 ELSE f[i - 1] + v[i]]

\* There is one way to continue from the empty root.
LEMMA RootsUnique ==
  ASSUME NumberLaws, NEW side, NEW segs, Len(segs) \in Nat,
         NEW f, NEW g, IsRoots(f, side, segs), IsRoots(g, side, segs)
  PROVE  f = g
<1> DEFINE n == Len(segs)
           D == {i \in 0 .. n : f[i] # g[i]}
           next(r, i) == extend_allocation_transcript_root(r, side, i - 1,
                           n * arity(side), segs[i])
           start == allocation_transcript_empty_root(side)
<1>1. /\ \A i \in 0 .. n : f[i] = IF i = 0 THEN start ELSE next(f[i - 1], i)
      /\ \A i \in 0 .. n : g[i] = IF i = 0 THEN start ELSE next(g[i - 1], i)
  BY Zenon DEF IsRoots
<1>2. /\ f = [i \in 0 .. n |-> f[i]] /\ g = [i \in 0 .. n |-> g[i]]
  <2>1. DOMAIN f = 0 .. n /\ f = [i \in DOMAIN f |-> f[i]]
    BY DEF IsRoots
  <2>2. DOMAIN g = 0 .. n /\ g = [i \in DOMAIN g |-> g[i]]
    BY DEF IsRoots
  <2>3. QED BY <2>1, <2>2
<1>3. D = {}
  <2> HIDE DEF next, start
  <2>1. SUFFICES ASSUME D # {}
                 PROVE  FALSE
    OBVIOUS
  <2>2. D \subseteq Nat
    OBVIOUS
  <2>3. PICK i \in D : \A j \in D : i <= j
    BY <2>1, <2>2, FirstNatural, Zenon
  <2>4. i # 0
    BY <1>1, <2>3
  <2>5. i - 1 \in 0 .. n /\ i - 1 \notin D
    BY <2>3, <2>4
  <2>6. f[i - 1] = g[i - 1]
    BY <2>5
  <2>7. f[i] = next(f[i - 1], i) /\ g[i] = next(g[i - 1], i)
    BY <1>1, <2>3, <2>4, Zenon
  <2>8. QED BY <2>3, <2>6, <2>7, Zenon
<1>4. QED BY <1>2, <1>3, Zenon

\* There is one way to add up numbers.
LEMMA SumsUnique ==
  ASSUME NumberLaws, NEW v, Len(v) \in Nat, NEW f, NEW g, IsSums(f, v), IsSums(g, v)
  PROVE  f = g
<1> DEFINE n == Len(v)
           D == {i \in 0 .. n : f[i] # g[i]}
<1>1. /\ \A i \in 0 .. n : f[i] = IF i = 0 THEN 0 ELSE f[i - 1] + v[i]
      /\ \A i \in 0 .. n : g[i] = IF i = 0 THEN 0 ELSE g[i - 1] + v[i]
  BY Zenon DEF IsSums
<1>2. f = [i \in 0 .. n |-> f[i]] /\ g = [i \in 0 .. n |-> g[i]]
  <2>1. DOMAIN f = 0 .. n /\ f = [i \in DOMAIN f |-> f[i]]
    BY DEF IsSums
  <2>2. DOMAIN g = 0 .. n /\ g = [i \in DOMAIN g |-> g[i]]
    BY DEF IsSums
  <2>3. QED BY <2>1, <2>2
<1>3. D = {}
  <2>1. SUFFICES ASSUME D # {}
                 PROVE  FALSE
    OBVIOUS
  <2>2. D \subseteq Nat
    OBVIOUS
  <2>3. PICK i \in D : \A j \in D : i <= j
    BY <2>1, <2>2, FirstNatural, Zenon
  <2>4. i # 0
    BY <1>1, <2>3
  <2>5. i - 1 \in 0 .. n /\ i - 1 \notin D
    BY <2>3, <2>4
  <2>6. f[i - 1] = g[i - 1]
    BY <2>5
  <2>7. f[i] = f[i - 1] + v[i] /\ g[i] = g[i - 1] + v[i]
    BY <1>1, <2>3, <2>4, Zenon
  <2>8. QED BY <2>3, <2>6, <2>7, Zenon
<1>4. QED BY <1>2, <1>3, Zenon

\* Any function that adds up the numbers is partial_sums.
LEMMA SumsAre ==
  ASSUME NumberLaws, NEW v, Len(v) \in Nat, NEW g, IsSums(g, v)
  PROVE  partial_sums(v) = g
<1> DEFINE f == CHOOSE h : IsSums(h, v)
<1>1. IsSums(f, v)
  OBVIOUS
<1>2. partial_sums(v) = f
  BY DEF partial_sums, IsSums
<1>3. QED BY <1>1, <1>2, SumsUnique, Zenon

\* The last root of a verified chain is that of its segments in order.
LEMMA ChainRoot ==
  ASSUME NumberLaws, NEW side \in Side, NEW T, ReadChain(side, T)
  PROVE  Last(T).next_root = root_over(side, segments_of(T))
<1> DEFINE n == Len(T)
           segs == segments_of(T)
           start == allocation_transcript_empty_root(side)
           g == [i \in 0 .. n |-> IF i = 0 THEN start ELSE T[i].next_root]
<1>1. n \in Nat /\ n # 0 /\ DOMAIN T = 1 .. n
  BY DEF ReadChain, verify_allocation_transcript_chain
<1>2. Len(segs) = n /\ \A i \in 1 .. n : segs[i] = segment_of(T[i])
  BY <1>1 DEF segments_of
<1>3. ASSUME NEW i \in 0 .. n
      PROVE  g[i] = IF i = 0 THEN start
                    ELSE extend_allocation_transcript_root(g[i - 1], side, i - 1,
                           n * arity(side), segs[i])
  <2>1. CASE i = 0
    BY <2>1, <1>1, Zenon
  <2>2. CASE i # 0
    <3>1. i \in 1 .. n /\ i - 1 \in 0 .. n
      BY <2>2, <1>1
    <3>2. T[i].next_root =
            extend_allocation_transcript_root(T[i].previous_root, side, i - 1,
              n * arity(side), segs[i])
      BY <3>1, <1>2, ChainSegment
    <3>3. g[i - 1] = T[i].previous_root
      <4>1. CASE i = 1
        BY <4>1, <3>1, ChainSegment
      <4>2. CASE i # 1
        <5>1. i - 1 # 0 /\ T[i].previous_root = T[i - 1].next_root
          BY <4>2, <3>1, ChainSegment
        <5>2. QED BY <5>1, <3>1, Zenon
      <4>3. QED BY <4>1, <4>2, Zenon
    <3>4. g[i] = T[i].next_root
      BY <3>1, <2>2, Zenon
    <3> HIDE DEF g
    <3>5. QED BY <2>2, <3>2, <3>3, <3>4, Zenon
  <2>3. QED BY <2>1, <2>2
<1>4. IsRoots(g, side, segs)
  <2>1. g = [i \in 0 .. n |-> g[i]]
    OBVIOUS
  <2> HIDE DEF g, start
  <2>2. g = [i \in 0 .. n |->
               IF i = 0 THEN start
               ELSE extend_allocation_transcript_root(g[i - 1], side, i - 1,
                      n * arity(side), segs[i])]
    BY <1>3, <2>1, Zenon
  <2> HIDE DEF segs, n
  <2>3. QED BY <1>2, <2>2, Zenon DEF IsRoots, start
<1> DEFINE f == CHOOSE h : IsRoots(h, side, segs)
<1>5. IsRoots(f, side, segs)
  BY <1>4
<1>6. root_over(side, segs) = f[Len(segs)]
  BY DEF root_over, IsRoots
<1>7. f = g
  <2> HIDE DEF f, g, segs
  <2>1. QED BY <1>1, <1>2, <1>4, <1>5, RootsUnique, Zenon
<1>8. g[n] = T[n].next_root
  BY <1>1
<1> HIDE DEF f, g, segs
<1>9. QED BY <1>2, <1>6, <1>7, <1>8, Zenon DEF Last, segs

\* A verified chain has as many allocations as its statements say.
LEMMA ChainCount ==
  ASSUME NumberLaws, NEW side \in Side, NEW T, ReadChain(side, T)
  PROVE  allocation_count(T) = Len(T) * arity(side)
<1> DEFINE n == Len(T)
           a == arity(side)
           v == [i \in DOMAIN T |-> Cardinality(segment_of(T[i]))]
           g == [i \in 0 .. n |-> i * a]
<1>1. n \in Nat /\ n # 0 /\ DOMAIN T = 1 .. n
  BY DEF ReadChain, verify_allocation_transcript_chain
<1>2. a \in Nat
  BY AuditAssumption DEF arity
<1>3. Len(v) = n /\ v \in Seq({a})
  <2>1. ASSUME NEW i \in 1 .. n
        PROVE  Cardinality(segment_of(T[i])) = a
    BY ChainSegment DEF transcript_proved, transcript_matches
  <2> HIDE DEF a
  <2>2. QED BY <1>1, <2>1
<1>4. ASSUME NEW i \in 0 .. n
      PROVE  g[i] = IF i = 0 THEN 0 ELSE g[i - 1] + v[i]
  <2>1. i # 0 => v[i] = a
    BY <1>1, <1>3
  <2>2. i # 0 => i * a = (i - 1) * a + a
    <3>1. i \in Nat
      BY <1>1
    <3> HIDE DEF a
    <3>2. QED BY <1>2, <3>1
  <2>3. 0 * a = 0
    BY <1>2
  <2>4. i # 0 => i - 1 \in 0 .. n
    BY <1>1
  <2>5. g[i] = i * a /\ (i # 0 => g[i - 1] = (i - 1) * a)
    BY <2>4
  <2> HIDE DEF g, v, a
  <2>6. QED BY <2>1, <2>2, <2>3, <2>5, Zenon
<1>5. IsSums(g, v)
  <2>1. g = [i \in 0 .. n |-> g[i]]
    OBVIOUS
  <2> HIDE DEF g, v
  <2>2. QED BY <1>3, <1>4, <2>1, Zenon DEF IsSums
<1>6. partial_sums(v) = g
  <2> HIDE DEF g, v
  <2>1. QED BY <1>1, <1>3, <1>5, SumsAre, Zenon
<1>7. g[n] = n * a
  BY <1>1
<1> HIDE DEF g, a
<1>8. QED BY <1>6, <1>7, Zenon DEF allocation_count, a

\* The last running total of a verified conservation chain is the total of the
\* segments: it starts from zero and every segment adds its own amount.
LEMMA ChainTotal ==
  ASSUME NumberLaws, NEW side \in Side, NEW T, ReadChain(side, T), NEW final,
         NEW C \in Seq(Conservations(side, T)),
         verify_allocation_conservation_chain(T, C, final)
  PROVE  total_of(T) = final.running_total
<1> DEFINE n == Len(T)
           v == [i \in DOMAIN T |-> amount_sum(segment_of(T[i]))]
           run(i) == C[i].next_total_commitment.running_total
           g == [i \in 0 .. n |-> IF i = 0 THEN 0 ELSE run(i)]
<1>1. n \in Nat /\ n # 0 /\ DOMAIN T = 1 .. n
  BY DEF ReadChain, verify_allocation_transcript_chain
<1>2. Len(C) = n /\ Len(v) = n
  BY <1>1 DEF verify_allocation_conservation_chain
<1>3. ASSUME NEW i \in 1 .. n
      PROVE  /\ run(i) = C[i].previous_total_commitment.running_total + v[i]
             /\ i = 1 => C[i].previous_total_commitment.running_total = 0
             /\ i # 1 => C[i].previous_total_commitment.running_total = run(i - 1)
  <2>1. C[i] \in Conservations(side, T)
    BY <1>2
  <2>2. conservation_proved(C[i])
    BY <2>1 DEF Conservations
  <2>3. C[i].transcript = T[i]
        /\ (i # 1 => C[i].previous_total_commitment
                       = C[i - 1].next_total_commitment)
    BY <1>1 DEF verify_allocation_conservation_chain
  <2>4. T[i].segment_index = i - 1
    BY ChainSegment
  <2>5. v[i] = amount_sum(segment_of(T[i]))
    BY <1>1, Zenon
  <2> HIDE DEF v
  <2>6. run(i) = C[i].previous_total_commitment.running_total + v[i]
    BY <2>2, <2>3, <2>5, Zenon
       DEF conservation_proved, conservation_matches, total_added
  <2>7. i = 1 => C[i].previous_total_commitment.running_total = 0
    BY <2>2, <2>3, <2>4 DEF conservation_proved, conservation_matches
  <2>8. QED BY <2>3, <2>6, <2>7, Zenon
<1>4. ASSUME NEW i \in 0 .. n
      PROVE  g[i] = IF i = 0 THEN 0 ELSE g[i - 1] + v[i]
  <2> HIDE DEF v, run
  <2>1. CASE i = 0
    BY <2>1, <1>1, Zenon
  <2>2. CASE i # 0
    <3>1. i \in 1 .. n /\ i - 1 \in 0 .. n
      BY <2>2, <1>1
    <3>2. g[i] = run(i) /\ g[i - 1] = IF i = 1 THEN 0 ELSE run(i - 1)
      BY <2>2, <3>1
    <3> HIDE DEF g
    <3>3. QED BY <1>3, <2>2, <3>1, <3>2, Zenon
  <2>3. QED BY <2>1, <2>2, Zenon
<1>5. IsSums(g, v)
  <2>1. g = [i \in 0 .. n |-> g[i]]
    OBVIOUS
  <2> HIDE DEF g, v
  <2>2. QED BY <1>2, <1>4, <2>1, Zenon DEF IsSums
<1>6. partial_sums(v) = g
  <2> HIDE DEF g, v
  <2>1. QED BY <1>1, <1>2, <1>5, SumsAre, Zenon
<1>7. total_of(T) = g[n]
  <2>1. n + 1 - 1 = n
    BY <1>1
  <2> HIDE DEF g
  <2>2. QED BY <1>6, <2>1 DEF total_of, total_before
<1>8. g[n] = run(n)
  BY <1>1
<1>9. run(n) = final.running_total
  BY <1>2, Zenon DEF verify_allocation_conservation_chain, Last
<1>10. QED BY <1>7, <1>8, <1>9, Zenon

-----------------------------------------------------------------------------
(* What a verified bundle shows.                                            *)

\* A verified bundle covers what its roots stand for and conserves supply.
LEMMA ConservesFromInv ==
  ASSUME NumberLaws, AuditInv
  PROVE  VerifiedConserves
<1>1. SUFFICES ASSUME Verified
               PROVE  VerifiedConserves
  BY DEF VerifiedConserves
<1> DEFINE T == bundle.spent_transcripts
           U == bundle.new_transcripts
           final == bundle.final_conservation
           chain == T[1].chain_id
<1>2. SpentRead /\ NewRead /\ FinalRead /\ SpentConserved /\ NewConserved
  BY <1>1, Zenon DEF AuditInv, Verified, PastGrid, PastNewConservation,
              PastSpentConservation, PastFinal, PastNew, PastSpent
<1>3. /\ "Spent" \in Side /\ "New" \in Side
      /\ ReadChain("Spent", T) /\ ReadChain("New", U)
      /\ U[1].chain_id = chain
  BY <1>2, Zenon DEF SpentRead, NewRead, Side
<1>4. ASSUME NEW side \in Side, NEW X, ReadChain(side, X), X[1].chain_id = chain
      PROVE  /\ Last(X).next_root = root_over(side, segments_of(X))
             /\ allocation_count(X) = X[1].total_count
             /\ \A x \in Range(X) : \A a \in segment_of(x) :
                  a.anchor.chain = chain
  <2>1. Len(X) \in Nat /\ Len(X) # 0 /\ DOMAIN X = 1 .. Len(X)
    BY <1>4 DEF ReadChain, verify_allocation_transcript_chain
  <2>2. X[1].total_count = Len(X) * arity(side)
    BY <1>4, <2>1, ChainSegment
  <2>3. allocation_count(X) = Len(X) * arity(side)
    BY <1>4, ChainCount, Zenon
  <2>4. ASSUME NEW i \in 1 .. Len(X), NEW a \in segment_of(X[i])
        PROVE  a.anchor.chain = chain
    <3>1. transcript_matches(X[i]) /\ X[i].chain_id = chain
      BY <1>4, ChainSegment DEF transcript_proved
    <3> HIDE DEF chain
    <3>2. QED BY <3>1, Zenon DEF transcript_matches
  <2>5. \A x \in Range(X) : \A a \in segment_of(x) : a.anchor.chain = chain
    BY <2>1, <2>4, Zenon DEF Range
  <2>6. QED BY <1>4, <2>2, <2>3, <2>5, ChainRoot, Zenon
<1>5. final_matches(final)
  BY <1>2 DEF FinalRead, Finals, final_proved
<1>6. /\ total_of(T) = final.spent_total_commitment.running_total
      /\ total_of(U) = final.new_total_commitment.running_total
  BY <1>2, <1>3, ChainTotal DEF SpentConserved, NewConserved
<1>7. total_of(T) = total_of(U) /\ total_of(U) <= MaxU64
  BY <1>5, <1>6 DEF final_matches
<1>8. /\ bundle_report(bundle).chain_id = chain
      /\ bundle_report(bundle).spent_total_count = T[1].total_count
      /\ bundle_report(bundle).new_total_count = U[1].total_count
      /\ bundle_report(bundle).spent_final_root = Last(T).next_root
      /\ bundle_report(bundle).new_final_root = Last(U).next_root
  BY DEF bundle_report
<1>9. /\ Last(T).next_root = root_over("Spent", segments_of(T))
      /\ allocation_count(T) = T[1].total_count
      /\ \A x \in Range(T) : \A a \in segment_of(x) : a.anchor.chain = chain
  BY <1>3, <1>4, Zenon
<1>10. /\ Last(U).next_root = root_over("New", segments_of(U))
       /\ allocation_count(U) = U[1].total_count
       /\ \A x \in Range(U) : \A a \in segment_of(x) : a.anchor.chain = chain
  BY <1>3, <1>4, Zenon
<1> HIDE DEF chain
<1>11. QED BY <1>7, <1>8, <1>9, <1>10, Zenon DEF VerifiedConserves

\* The statement of the grid for two segments is about the allocations of these
\* segments, so they have no window in common.
LEMMA PairExcludes ==
  ASSUME NEW T, NEW U, ReadChain("Spent", T), ReadChain("New", U),
         NEW E \in Seq(Exclusions(T, U)),
         verify_allocation_exclusion_grid(T, U, E),
         NEW i \in 1 .. Len(T), NEW j \in 1 .. Len(U)
  PROVE  enforce_spent_anchors_not_reused(segment_of(T[i]), segment_of(U[j]))
<1>1. DOMAIN T = 1 .. Len(T) /\ DOMAIN U = 1 .. Len(U)
  BY DEF ReadChain
<1>2. PICK k \in DOMAIN E : pair_of(E[k]) = <<i - 1, j - 1>>
  BY <1>1, Zenon DEF verify_allocation_exclusion_grid
<1>3. E[k].spent_segment_index = i - 1 /\ E[k].new_segment_index = j - 1
  BY <1>2, Zenon DEF pair_of
<1>4. pair_binds(E[k], T[i - 1 + 1], U[j - 1 + 1])
  BY <1>2, <1>3, Zenon DEF verify_allocation_exclusion_grid
<1>5. /\ E[k].spent_next_root = T[i].next_root
      /\ E[k].new_next_root = U[j].next_root
  <2>1. i - 1 + 1 = i /\ j - 1 + 1 = j
    OBVIOUS
  <2>2. QED BY <1>4, <2>1 DEF pair_binds
<1>6. E[k] \in Exclusions(T, U)
  BY <1>2
<1>7. PICK p \in ExclusionPairs(T, U) : E[k] = exclusion(p[1], p[2])
  BY <1>6, Zenon DEF Exclusions
<1>8. exclusion_proved(p[1], p[2])
  BY <1>7, Zenon DEF ExclusionPairs
<1>9. E[k].spent_next_root = p[1].next_root /\ E[k].new_next_root = p[2].next_root
  BY <1>7 DEF exclusion
<1>10. /\ segment_of(p[1]) = segment_of(T[i])
       /\ segment_of(p[2]) = segment_of(U[j])
  BY <1>5, <1>9, Zenon DEF segment_of
<1>11. QED BY <1>8, <1>10, Zenon DEF exclusion_proved, exclusion_matches

\* A verified bundle has no output on both sides.
LEMMA ExcludesFromInv ==
  ASSUME AuditInv
  PROVE  VerifiedExcludes
<1>1. SUFFICES ASSUME Verified
               PROVE  VerifiedExcludes
  BY DEF VerifiedExcludes
<1> DEFINE T == bundle.spent_transcripts
           U == bundle.new_transcripts
           output(a) == <<OutpointOf(a), a.anchor.covenant_id>>
<1>2. SpentRead /\ NewRead /\ GridRead
  BY <1>1, Zenon DEF AuditInv, Verified, PastGrid, PastNewConservation,
              PastSpentConservation, PastFinal, PastNew, PastSpent
<1>3. /\ ReadChain("Spent", T) /\ ReadChain("New", U)
      /\ bundle.exclusions \in Seq(Exclusions(T, U))
      /\ verify_allocation_exclusion_grid(T, U, bundle.exclusions)
  BY <1>2, Zenon DEF SpentRead, NewRead, GridRead
<1>4. DOMAIN T = 1 .. Len(T) /\ DOMAIN U = 1 .. Len(U)
  BY <1>3 DEF ReadChain
<1>5. ASSUME NEW a \in UNION Range(segments_of(T)),
             NEW b \in UNION Range(segments_of(U))
      PROVE  output(a) # output(b)
  <2>1. PICK i \in 1 .. Len(T) : a \in segment_of(T[i])
    BY <1>4, Zenon DEF segments_of, Range
  <2>2. PICK j \in 1 .. Len(U) : b \in segment_of(U[j])
    BY <1>4, Zenon DEF segments_of, Range
  <2>3. enforce_spent_anchors_not_reused(segment_of(T[i]), segment_of(U[j]))
    BY <1>3, PairExcludes
  <2>4. outpoint_window(a) # outpoint_window(b)
    BY <2>1, <2>2, <2>3, Zenon DEF enforce_spent_anchors_not_reused, windows
  <2>5. QED BY <2>4, Zenon DEF outpoint_window
<1>6. QED BY <1>5, Zenon DEF VerifiedExcludes

\* verify_allocation_exclusion_grid leaves out no pair: no output of a covenant
\* is among both the spent and the new allocations of an accepted bundle.
THEOREM AuditExcludes == Spec => []VerifiedExcludes
<1>1. AuditInv => VerifiedExcludes
  BY ExcludesFromInv
<1>2. QED BY <1>1, AuditAlways, PTL

-----------------------------------------------------------------------------
(* What an honest prover states is verified.                                *)

SumsTo(f, v, n) ==
  f = [i \in 0 .. n |-> IF i = 0 THEN 0 ELSE f[i - 1] + v[i]]

\* Numbers can be added up.
LEMMA SumsExist ==
  ASSUME NumberLaws, NEW v, NEW n \in Nat
  PROVE  \E f : SumsTo(f, v, n)
<1> DEFINE D == {m \in Nat : ~ \E f : SumsTo(f, v, m)}
<1>1. SUFFICES ASSUME D # {}
               PROVE  FALSE
  OBVIOUS
<1>2. PICK m \in D : \A y \in D : m <= y
  BY <1>1, FirstNatural, Zenon
<1>3. CASE m = 0
  <2> DEFINE f == [i \in 0 .. 0 |-> 0]
  <2>1. SumsTo(f, v, 0)
    BY DEF SumsTo
  <2>2. QED BY <1>2, <1>3, <2>1
<1>4. CASE m # 0
  <2>1. m - 1 \in Nat /\ m \in Nat /\ m - 1 \notin D
    BY <1>2, <1>4
  <2>2. PICK f : SumsTo(f, v, m - 1)
    BY <2>1
  <2> DEFINE g == [i \in 0 .. m |-> IF i = m THEN f[m - 1] + v[m] ELSE f[i]]
  <2>3. \A i \in 0 .. m - 1 : f[i] = IF i = 0 THEN 0 ELSE f[i - 1] + v[i]
    <3> HIDE DEF D
    <3>1. QED BY <2>1, <2>2, Zenon DEF SumsTo
  <2>4. ASSUME NEW i \in 0 .. m
        PROVE  g[i] = IF i = 0 THEN 0 ELSE g[i - 1] + v[i]
    <3>1. CASE i = m
      <4>1. g[m] = f[m - 1] + v[m] /\ m - 1 \in 0 .. m /\ m - 1 # m
        BY <2>1, <1>4
      <4>2. g[m - 1] = f[m - 1]
        BY <4>1, Zenon
      <4>3. QED BY <3>1, <4>1, <4>2, <1>4, Zenon
    <3>2. CASE i # m
      <4>1. i \in 0 .. m - 1 /\ g[i] = f[i]
        BY <3>2, <2>1
      <4>2. i # 0 => i - 1 \in 0 .. m /\ i - 1 # m
        BY <3>2, <2>1
      <4>3. i # 0 => g[i - 1] = f[i - 1]
        BY <4>2
      <4>4. QED BY <4>1, <4>3, <2>3, Zenon
    <3>3. QED BY <3>1, <3>2, Zenon
  <2>5. SumsTo(g, v, m)
    <3>1. g = [i \in 0 .. m |-> g[i]]
      OBVIOUS
    <3> HIDE DEF g
    <3>2. QED BY <2>4, <3>1, Zenon DEF SumsTo
  <2>6. QED BY <1>2, <2>5
<1>5. QED BY <1>3, <1>4, Zenon

\* A running total starts from zero, and each segment adds its amount.
LEMMA TotalStep ==
  ASSUME NumberLaws, NEW X, NEW T \in Seq(X), NEW i \in 1 .. Len(T)
  PROVE  /\ total_before(T, 1) = 0
         /\ total_before(T, i + 1) = total_before(T, i) + amount_sum(segment_of(T[i]))
<1> DEFINE n == Len(T)
           v == [j \in DOMAIN T |-> amount_sum(segment_of(T[j]))]
<1>1. n \in Nat /\ DOMAIN T = 1 .. n /\ Len(v) = n
      /\ v[i] = amount_sum(segment_of(T[i]))
  OBVIOUS
<1>2. PICK f : SumsTo(f, v, n)
  <2> HIDE DEF v
  <2>1. QED BY <1>1, SumsExist, Zenon
<1>3. IsSums(f, v)
  <2> HIDE DEF v
  <2>1. QED BY <1>1, <1>2 DEF IsSums, SumsTo
<1>4. partial_sums(v) = f
  <2> HIDE DEF v
  <2>1. QED BY <1>1, <1>3, SumsAre
<1>5. \A j \in 0 .. n : f[j] = IF j = 0 THEN 0 ELSE f[j - 1] + v[j]
  <2> HIDE DEF v
  <2>1. QED BY <1>2, Zenon DEF SumsTo
<1>6. i + 1 - 1 = i /\ 1 - 1 = 0 /\ i \in 0 .. n /\ 0 \in 0 .. n /\ i # 0
  BY <1>1
<1>7. f[0] = 0 /\ f[i] = f[i - 1] + v[i]
  <2> HIDE DEF v
  <2>1. QED BY <1>5, <1>6, Zenon
<1>8. /\ total_before(T, 1) = f[0] /\ total_before(T, i + 1) = f[i]
      /\ total_before(T, i) = f[i - 1]
  BY <1>4, <1>6 DEF total_before
<1> HIDE DEF v
<1>9. QED BY <1>1, <1>7, <1>8, Zenon

\* Honest statements of a side on one chain form a verified chain.
LEMMA HonestChain ==
  ASSUME NEW side, NEW X, NEW T \in Seq(X), NEW chain, T # <<>>,
         honest_transcripts(side, T), \A t \in Range(T) : t.chain_id = chain
  PROVE  verify_allocation_transcript_chain(side, T) /\ T[1].chain_id = chain
<1>1. Len(T) \in Nat /\ Len(T) # 0 /\ DOMAIN T = 1 .. Len(T) /\ 1 \in DOMAIN T
  OBVIOUS
<1>2. ASSUME NEW i \in DOMAIN T
      PROVE  /\ T[i].previous_root = IF i = 1 THEN allocation_transcript_empty_root(side)
                                     ELSE T[i - 1].next_root
             /\ T[i].side = side /\ T[i].segment_index = i - 1
             /\ T[i].total_count = Len(T) * arity(side)
             /\ T[i].chain_id = chain
  <2> DEFINE r == IF i = 1 THEN allocation_transcript_empty_root(side)
                           ELSE T[i - 1].next_root
  <2>1. T[i] = transcript(r, side, i - 1, Len(T) * arity(side), segment_of(T[i]),
                          T[i].segment_amount_commitment.blinding)
    BY Zenon DEF honest_transcripts
  <2> DEFINE total == Len(T) * arity(side)
             S == segment_of(T[i])
             b == T[i].segment_amount_commitment.blinding
  <2>2. ASSUME NEW t, NEW rr, NEW k, NEW tt, NEW SS, NEW bb,
               t = transcript(rr, side, k, tt, SS, bb)
        PROVE  t.previous_root = rr /\ t.side = side /\ t.segment_index = k
               /\ t.total_count = tt
    BY <2>2, Zenon DEF transcript
  <2>3. T[i].chain_id = chain
    BY DEF Range
  <2> HIDE DEF r, total, S, b
  <2>4. T[i] = transcript(r, side, i - 1, total, S, b)
    BY <2>1, Zenon DEF r, total, S, b
  <2>5. /\ T[i].previous_root = r /\ T[i].side = side /\ T[i].segment_index = i - 1
        /\ T[i].total_count = total
    BY <2>2, <2>4
  <2>6. QED BY <2>3, <2>5, Zenon DEF r, total
<1>3. QED BY <1>1, <1>2 DEF verify_allocation_transcript_chain

\* Honest running totals form a verified chain that ends in the total.
LEMMA HonestConserved ==
  ASSUME NumberLaws, NEW side \in Side, NEW T, ReadChain(side, T), NEW C, NEW b,
         honest_conservation(T, C, b)
  PROVE  verify_allocation_conservation_chain(T, C,
           allocation_conservation_total_commitment(side, Len(T) * arity(side),
             total_of(T), b))
<1> DEFINE n == Len(T)
           count == n * arity(side)
           commit(t) == allocation_conservation_total_commitment(side, count, t, b)
           added(i) == total_before(T, i) + amount_sum(segment_of(T[i]))
<1>1. n \in Nat /\ n # 0 /\ DOMAIN T = 1 .. n
  BY DEF ReadChain, verify_allocation_transcript_chain
<1>2. T \in Seq(Transcripts(side) \cup Stray(Other(side)))
  BY DEF ReadChain
<1>3. Len(C) = n /\ \A i \in 1 .. n :
        C[i] = conservation(T[i], total_before(T, i), b, b)
  BY <1>1 DEF honest_conservation
<1>4. ASSUME NEW i \in 1 .. n
      PROVE  /\ C[i].transcript = T[i]
             /\ C[i].previous_total_commitment = commit(total_before(T, i))
             /\ C[i].next_total_commitment = commit(added(i))
  <2>1. T[i].side = side /\ T[i].total_count = count
    BY ChainSegment
  <2>2. C[i] = conservation(T[i], total_before(T, i), b, b)
    BY <1>3, Zenon
  <2>3. QED BY <2>1, <2>2 DEF conservation, total_added
<1>5. ASSUME NEW i \in 1 .. n
      PROVE  added(i) = total_before(T, i + 1)
  BY <1>2, TotalStep, Zenon
<1> HIDE DEF commit, added
<1>6. ASSUME NEW i \in 1 .. n, i > 1
      PROVE  C[i].previous_total_commitment = C[i - 1].next_total_commitment
  <2>1. i - 1 \in 1 .. n /\ i - 1 + 1 = i
    BY <1>1, <1>6
  <2>2. C[i - 1].next_total_commitment = commit(added(i - 1))
    BY <1>4, <2>1, Zenon
  <2>3. added(i - 1) = total_before(T, i)
    BY <1>5, <2>1, Zenon
  <2>4. QED BY <1>4, <2>2, <2>3, Zenon
<1>7. Last(C).next_total_commitment = commit(total_of(T))
  <2>1. n \in 1 .. n
    BY <1>1
  <2>2. C[n].next_total_commitment = commit(total_before(T, n + 1))
    BY <1>4, <1>5, <2>1, Zenon
  <2>3. QED BY <1>3, <2>2, Zenon DEF Last, total_of
<1>8. QED
  BY <1>1, <1>3, <1>4, <1>6, <1>7, Zenon
     DEF verify_allocation_conservation_chain, commit

\* One statement for each pair of segments, in any order, is a verified grid: as
\* many statements as pairs leave room for no pair twice.
LEMMA HonestGrid ==
  ASSUME NumberLaws, NEW T, NEW U, ReadChain("Spent", T), ReadChain("New", U),
         NEW E \in Seq(Exclusions(T, U)),
         Range(E) = {exclusion(t, u) : t \in Range(T), u \in Range(U)},
         Len(E) = Len(T) * Len(U)
  PROVE  verify_allocation_exclusion_grid(T, U, E)
<1> DEFINE n == Len(T)
           m == Len(U)
           at(e) == <<e.spent_segment_index + 1, e.new_segment_index + 1>>
           F == [k \in 1 .. Len(E) |-> at(E[k])]
<1>1. /\ n \in Nat /\ m \in Nat /\ DOMAIN T = 1 .. n /\ DOMAIN U = 1 .. m
      /\ DOMAIN E = 1 .. Len(E) /\ Len(E) \in Nat
  BY DEF ReadChain
<1>2. ASSUME NEW i \in 1 .. n, NEW j \in 1 .. m, NEW e, e = exclusion(T[i], U[j])
      PROVE  /\ e.chain_id = T[1].chain_id
             /\ e.spent_segment_index = i - 1 /\ e.new_segment_index = j - 1
             /\ pair_binds(e, T[i], U[j])
  <2>1. /\ T[i].segment_index = i - 1 /\ T[i].chain_id = T[1].chain_id
        /\ U[j].segment_index = j - 1
    BY ChainSegment, Zenon DEF Side
  <2>2. QED BY <1>2, <2>1, Zenon DEF exclusion, pair_binds
<1>3. ASSUME NEW k \in DOMAIN E
      PROVE  \E i \in 1 .. n : \E j \in 1 .. m : E[k] = exclusion(T[i], U[j])
  <2>1. E[k] \in Range(E)
    BY Zenon DEF Range
  <2>2. PICK t \in Range(T), u \in Range(U) : E[k] = exclusion(t, u)
    BY <2>1
  <2>3. (\E i \in 1 .. n : t = T[i]) /\ (\E j \in 1 .. m : u = U[j])
    BY <1>1, Zenon DEF Range
  <2>4. QED BY <2>2, <2>3, Zenon
<1>4. ASSUME NEW i \in 1 .. n, NEW j \in 1 .. m
      PROVE  \E k \in DOMAIN E : E[k] = exclusion(T[i], U[j])
  <2>1. T[i] \in Range(T) /\ U[j] \in Range(U)
    BY <1>1, Zenon DEF Range
  <2>2. exclusion(T[i], U[j]) \in Range(E)
    BY <2>1
  <2>3. QED BY <2>2, Zenon DEF Range
<1>5. ASSUME NEW k \in DOMAIN E
      PROVE  /\ E[k].chain_id = T[1].chain_id
             /\ E[k].spent_segment_index + 1 \in DOMAIN T
             /\ E[k].new_segment_index + 1 \in DOMAIN U
             /\ pair_binds(E[k], T[E[k].spent_segment_index + 1],
                                 U[E[k].new_segment_index + 1])
             /\ E[k].spent_segment_index \in Nat /\ E[k].new_segment_index \in Nat
  <2>1. PICK i \in 1 .. n, j \in 1 .. m : E[k] = exclusion(T[i], U[j])
    BY <1>3, Zenon
  <2>2. /\ E[k].chain_id = T[1].chain_id
        /\ E[k].spent_segment_index = i - 1 /\ E[k].new_segment_index = j - 1
        /\ pair_binds(E[k], T[i], U[j])
    BY <1>2, <2>1, Zenon
  <2>3. i - 1 + 1 = i /\ j - 1 + 1 = j /\ i - 1 \in Nat /\ j - 1 \in Nat
    BY <1>1
  <2>4. QED BY <1>1, <2>2, <2>3, Zenon
<1>6. ASSUME NEW i \in 1 .. n, NEW j \in 1 .. m
      PROVE  \E k \in DOMAIN E : /\ E[k].spent_segment_index = i - 1
                                 /\ E[k].new_segment_index = j - 1
  BY <1>2, <1>4
<1>7. F \in [1 .. Len(E) -> (1 .. n) \X (1 .. m)]
  BY <1>1, <1>5
<1>8. ASSUME NEW p \in (1 .. n) \X (1 .. m)
      PROVE  \E k \in 1 .. Len(E) : F[k] = p
  <2>1. PICK k \in DOMAIN E : /\ E[k].spent_segment_index = p[1] - 1
                              /\ E[k].new_segment_index = p[2] - 1
    BY <1>6, Zenon
  <2>2. p[1] - 1 + 1 = p[1] /\ p[2] - 1 + 1 = p[2]
    BY <1>1
  <2>3. F[k] = <<p[1], p[2]>>
    BY <1>1, <2>1, <2>2, Zenon
  <2>4. QED BY <1>1, <2>3
<1>9. ASSUME NEW k \in DOMAIN E, NEW l \in DOMAIN E, pair_of(E[k]) = pair_of(E[l])
      PROVE  k = l
  <2>1. F[k] = F[l]
    BY <1>1, <1>9, Zenon DEF pair_of
  <2> HIDE DEF F, n, m
  <2>2. OneEach(F, Len(E))
    <3>1. n \in Nat /\ m \in Nat /\ Len(E) = n * m
      BY <1>1, Zenon DEF n, m
    <3>2. Covers(F, Len(E), n, m)
      BY <1>7, <1>8, <3>1, Zenon DEF Covers
    <3>3. QED BY <3>2, GridOnce, Zenon
  <2>3. QED BY <1>1, <2>1, <2>2, Zenon DEF OneEach
<1>10. ASSUME NEW i \in DOMAIN T, NEW j \in DOMAIN U
       PROVE  \E k \in DOMAIN E : pair_of(E[k]) = <<i - 1, j - 1>>
  BY <1>1, <1>6 DEF pair_of
<1>11. QED BY <1>5, <1>9, <1>10, Zenon DEF verify_allocation_exclusion_grid

\* No check rejects a part of what an honest prover states.
LEMMA HonestStep ==
  ASSUME NumberLaws, AuditInv, HonestIsVerified, [Next]_vars
  PROVE  HonestIsVerified'
<1> USE DEF PastGrid, PastNewConservation, PastSpentConservation, PastFinal,
            PastNew, PastSpent, Part
<1>1. SUFFICES ASSUME stage' = "rejected", honest(bundle')
               PROVE  FALSE
  BY Zenon DEF HonestIsVerified
<1> DEFINE b == bundle'
           T == b.spent_transcripts
           U == b.new_transcripts
           blinding == b.final_conservation.spent_total_commitment.blinding
<1>2. /\ T # <<>> /\ honest_transcripts("Spent", T)
      /\ \A t \in Range(T) : t.chain_id = T[1].chain_id
  BY <1>1, Zenon DEF honest
<1>3. "new_transcripts" \in DOMAIN b =>
        /\ U # <<>> /\ honest_transcripts("New", U)
        /\ \A u \in Range(U) : u.chain_id = T[1].chain_id
  BY <1>1, Zenon DEF honest
<1>4. "final_conservation" \in DOMAIN b =>
        /\ total_of(T) = total_of(U)
        /\ b.final_conservation =
             conservation_final(Len(T) * SpentArity, Len(U) * NewArity,
                                total_of(T), blinding, blinding)
  BY <1>1, Zenon DEF honest
<1>5. "spent_conservation" \in DOMAIN b =>
        honest_conservation(T, b.spent_conservation, blinding)
  BY <1>1, Zenon DEF honest
<1>new. "new_conservation" \in DOMAIN b =>
          honest_conservation(U, b.new_conservation, blinding)
  BY <1>1, Zenon DEF honest
<1>grid. "exclusions" \in DOMAIN b => honest_grid(T, U, b.exclusions)
  BY <1>1, Zenon DEF honest
<1> HIDE DEF b, T, U, blinding
<1>6. "final_conservation" \in DOMAIN b =>
        /\ b.final_conservation.spent_total_count = Len(T) * arity("Spent")
        /\ b.final_conservation.new_total_count = Len(U) * arity("New")
        /\ b.final_conservation.spent_total_commitment =
             allocation_conservation_total_commitment("Spent",
               Len(T) * arity("Spent"), total_of(T), blinding)
        /\ b.final_conservation.new_total_commitment =
             allocation_conservation_total_commitment("New",
               Len(U) * arity("New"), total_of(U), blinding)
  <2>1. SUFFICES ASSUME "final_conservation" \in DOMAIN b
                 PROVE  /\ b.final_conservation.spent_total_count = Len(T) * SpentArity
                        /\ b.final_conservation.new_total_count = Len(U) * NewArity
                        /\ b.final_conservation.spent_total_commitment =
                             allocation_conservation_total_commitment("Spent",
                               Len(T) * SpentArity, total_of(T), blinding)
                        /\ b.final_conservation.new_total_commitment =
                             allocation_conservation_total_commitment("New",
                               Len(U) * NewArity, total_of(U), blinding)
    BY DEF arity
  <2>2. QED BY <1>4, <2>1 DEF conservation_final
<1>7. CASE ReadSpentTranscripts
  <2>1. PICK X \in SeqOf(Transcripts("Spent") \cup Stray("New"), MaxSegments) :
          /\ Extended("spent_transcripts", X)
          /\ IF verify_allocation_transcript_chain("Spent", X)
               THEN stage' = "new_transcripts" ELSE stage' = "rejected"
    BY <1>7, Zenon DEF ReadSpentTranscripts, Read, Extended
  <2>2. X \in Seq(Transcripts("Spent") \cup Stray("New")) /\ X = T
    BY <2>1, BoundedIsSeq, AuditAssumption, ReadKeeps, Zenon DEF T, b
  <2>3. verify_allocation_transcript_chain("Spent", X)
    BY <1>2, <2>2, HonestChain
  <2>4. QED BY <1>1, <2>1, <2>3, Zenon
<1>8. CASE ReadNewTranscripts
  <2> DEFINE ok(X) == /\ verify_allocation_transcript_chain("New", X)
                      /\ bundle.spent_transcripts[1].chain_id = X[1].chain_id
  <2>1. PICK X \in SeqOf(Transcripts("New") \cup Stray("Spent"), MaxSegments) :
          /\ Extended("new_transcripts", X)
          /\ IF ok(X) THEN stage' = "final_conservation" ELSE stage' = "rejected"
    BY <1>8 DEF ReadNewTranscripts, Read, Extended
  <2>2. DOMAIN bundle = {"spent_transcripts"}
    BY <1>8, Zenon DEF ReadNewTranscripts, AuditInv, Before
  <2>3. /\ X \in Seq(Transcripts("New") \cup Stray("Spent")) /\ X = U
        /\ T = bundle.spent_transcripts /\ "new_transcripts" \in DOMAIN b
    <3>0. Extended("new_transcripts", X)
      BY <2>1, Zenon
    <3>1. /\ DOMAIN bundle' = DOMAIN bundle \cup {"new_transcripts"}
          /\ bundle'["new_transcripts"] = X
          /\ bundle'["spent_transcripts"] = bundle["spent_transcripts"]
      BY <2>2, <3>0, ReadKeeps, Zenon
    <3>2. X \in Seq(Transcripts("New") \cup Stray("Spent"))
      BY <2>1, BoundedIsSeq, AuditAssumption, Zenon
    <3>3. QED BY <3>1, <3>2, Zenon DEF T, U, b
  <2>4. verify_allocation_transcript_chain("New", X) /\ X[1].chain_id = T[1].chain_id
    <3>1. /\ X # <<>> /\ honest_transcripts("New", X)
          /\ \A u \in Range(X) : u.chain_id = T[1].chain_id
      BY <1>3, <2>3, Zenon
    <3> DEFINE chain == T[1].chain_id
    <3>2. \A u \in Range(X) : u.chain_id = chain
      BY <3>1, Zenon
    <3> HIDE DEF chain
    <3>3. verify_allocation_transcript_chain("New", X) /\ X[1].chain_id = chain
      BY <2>3, <3>1, <3>2, HonestChain
    <3>4. QED BY <3>3, Zenon DEF chain
  <2>5. QED BY <1>1, <2>1, <2>3, <2>4, Zenon
<1>9. CASE ReadFinalConservation
  <2>1. PICK f \in Finals :
          /\ Extended("final_conservation", f)
          /\ IF final_counts_match(f, bundle.spent_transcripts, bundle.new_transcripts)
               THEN stage' = "spent_conservation" ELSE stage' = "rejected"
    BY <1>9, Zenon DEF ReadFinalConservation, Read, Extended
  <2>2. /\ DOMAIN bundle = {"spent_transcripts", "new_transcripts"}
        /\ SpentRead /\ NewRead
    BY <1>9, Zenon DEF ReadFinalConservation, AuditInv, Before
  <2>3. /\ T = bundle.spent_transcripts /\ U = bundle.new_transcripts
        /\ b.final_conservation = f /\ "final_conservation" \in DOMAIN b
    BY <2>1, <2>2, ReadKeeps, Zenon DEF T, U, b
  <2>4. ReadChain("Spent", T) /\ ReadChain("New", U)
    BY <2>2, <2>3 DEF SpentRead, NewRead
  <2>5. /\ T[1].total_count = Len(T) * arity("Spent")
        /\ U[1].total_count = Len(U) * arity("New")
    BY <2>4 DEF ReadChain, verify_allocation_transcript_chain
  <2>6. final_counts_match(f, T, U)
    BY <1>6, <2>3, <2>5, Zenon DEF final_counts_match
  <2>7. QED BY <1>1, <2>1, <2>3, <2>6, Zenon
<1>10. CASE ReadSpentConservation
  <2> DEFINE ok(C) == verify_allocation_conservation_chain(
                        bundle.spent_transcripts, C,
                        bundle.final_conservation.spent_total_commitment)
  <2>1. PICK C \in SeqOf(Conservations("Spent", bundle.spent_transcripts), MaxSegments) :
          /\ Extended("spent_conservation", C)
          /\ IF ok(C) THEN stage' = "new_conservation" ELSE stage' = "rejected"
    BY <1>10, Zenon DEF ReadSpentConservation, Read, Extended
  <2>2. /\ DOMAIN bundle
             = {"spent_transcripts", "new_transcripts", "final_conservation"}
        /\ SpentRead
    BY <1>10, Zenon DEF ReadSpentConservation, AuditInv, Before
  <2>3. /\ T = bundle.spent_transcripts /\ b.spent_conservation = C
        /\ b.final_conservation = bundle.final_conservation
        /\ "spent_conservation" \in DOMAIN b /\ "final_conservation" \in DOMAIN b
    BY <2>1, <2>2, ReadKeeps, ZenonT(30) DEF T, b
  <2>4. ReadChain("Spent", T) /\ honest_conservation(T, C, blinding)
    BY <1>5, <2>2, <2>3 DEF SpentRead
  <2>5. ok(C)
    BY <1>6, <2>3, <2>4, HonestConserved DEF Side
  <2>6. QED BY <1>1, <2>1, <2>5, Zenon
<1>11. CASE ReadNewConservation
  <2> DEFINE ok(C) == verify_allocation_conservation_chain(
                        bundle.new_transcripts, C,
                        bundle.final_conservation.new_total_commitment)
  <2>1. PICK C \in SeqOf(Conservations("New", bundle.new_transcripts), MaxSegments) :
          /\ Extended("new_conservation", C)
          /\ IF ok(C) THEN stage' = "exclusions" ELSE stage' = "rejected"
    BY <1>11, Zenon DEF ReadNewConservation, Read, Extended
  <2>2. /\ DOMAIN bundle = {"spent_transcripts", "new_transcripts",
                            "final_conservation", "spent_conservation"}
        /\ NewRead
    BY <1>11, Zenon DEF ReadNewConservation, AuditInv, Before
  <2>3. /\ U = bundle.new_transcripts /\ b.new_conservation = C
        /\ b.final_conservation = bundle.final_conservation
        /\ "new_conservation" \in DOMAIN b /\ "final_conservation" \in DOMAIN b
    <3>1. /\ DOMAIN bundle' = DOMAIN bundle \cup {"new_conservation"}
          /\ bundle'["new_conservation"] = C
          /\ bundle'["new_transcripts"] = bundle["new_transcripts"]
          /\ bundle'["final_conservation"] = bundle["final_conservation"]
      BY <2>1, <2>2, ReadKeeps, Zenon
    <3>2. QED BY <2>2, <3>1, Zenon DEF U, b
  <2>4. ReadChain("New", U) /\ honest_conservation(U, C, blinding)
    BY <1>new, <2>2, <2>3 DEF NewRead
  <2>5. ok(C)
    BY <1>6, <2>3, <2>4, HonestConserved DEF Side
  <2>6. QED BY <1>1, <2>1, <2>5, Zenon
<1>12. CASE ReadExclusions
  <2> DEFINE TT == bundle.spent_transcripts
             UU == bundle.new_transcripts
  <2>1. PICK E \in SeqOf(Exclusions(TT, UU), Len(TT) * Len(UU)) :
          /\ Extended("exclusions", E)
          /\ IF verify_allocation_exclusion_grid(TT, UU, E)
               THEN stage' = "verified" ELSE stage' = "rejected"
    BY <1>12, Zenon DEF ReadExclusions, Read, Extended
  <2>2. /\ DOMAIN bundle = {"spent_transcripts", "new_transcripts",
               "final_conservation", "spent_conservation", "new_conservation"}
        /\ SpentRead /\ NewRead
    BY <1>12 DEF ReadExclusions, AuditInv, Before
  <2>3. /\ T = TT /\ U = UU /\ b.exclusions = E /\ "exclusions" \in DOMAIN b
    <3>1. /\ DOMAIN bundle' = DOMAIN bundle \cup {"exclusions"}
          /\ bundle'["exclusions"] = E
          /\ bundle'["spent_transcripts"] = bundle["spent_transcripts"]
          /\ bundle'["new_transcripts"] = bundle["new_transcripts"]
      BY <2>1, <2>2, ReadKeeps, Zenon
    <3>2. QED BY <3>1 DEF T, U, b
  <2>4. ReadChain("Spent", TT) /\ ReadChain("New", UU)
    BY <2>2 DEF SpentRead, NewRead
  <2>5. E \in Seq(Exclusions(TT, UU))
    <3>1. Len(TT) \in Nat /\ Len(UU) \in Nat
      BY <2>4 DEF ReadChain
    <3> HIDE DEF TT, UU
    <3>2. Len(TT) * Len(UU) \in Nat
      BY <3>1, ProductNat, Zenon
    <3>3. QED BY <2>1, <3>2, BoundedIsSeq, Zenon
  <2> HIDE DEF TT, UU
  <2>6. /\ Range(E) = {exclusion(t, u) : t \in Range(TT), u \in Range(UU)}
        /\ Len(E) = Len(TT) * Len(UU)
    BY <1>grid, <2>3 DEF honest_grid
  <2>7. verify_allocation_exclusion_grid(TT, UU, E)
    BY <2>4, <2>5, <2>6, HonestGrid
  <2>8. QED BY <1>1, <2>1, <2>7, Zenon
<1>13. CASE Deliver
  BY <1>1, <1>13, Zenon DEF Deliver
<1>14. CASE UNCHANGED vars
  BY <1>1, <1>14, Zenon DEF vars, HonestIsVerified
<1>15. QED
  BY <1>7, <1>8, <1>9, <1>10, <1>11, <1>12, <1>13, <1>14, Zenon DEF Next

-----------------------------------------------------------------------------
(* Numbers and finite sets from the library, and the theorems that rest on  *)
(* them.                                                                    *)

Sets == INSTANCE FiniteSetTheorems

\* The numbers are well-founded.
LEMMA NumbersHaveLeast ==
  \A T \in SUBSET Nat : T # {} => \E x \in T : \A y \in T : x <= y
<1> DEFINE less == {ss \in Nat \X Nat : ss[1] < ss[2]}
<1>1. Sets!IsWellFoundedOn(less, Nat)
  BY Sets!NatLessThanWellFounded, Zenon DEF Sets!OpToRel
<1>2. \A x, y \in Nat : ~ (<<y, x>> \in less) => x <= y
  OBVIOUS
<1> HIDE DEF less
<1>3. ASSUME NEW T \in SUBSET Nat, T # {}
      PROVE  \E x \in T : \A y \in T : x <= y
  <2>1. T \subseteq Nat
    OBVIOUS
  <2>2. PICK x \in T : \A y \in T : ~ (<<y, x>> \in less)
    BY <1>1, <1>3, <2>1, Sets!WFMin, Zenon
  <2>3. x \in Nat /\ \A y \in T : y \in Nat
    BY <2>1, Zenon
  <2>4. \A y \in T : x <= y
    BY <1>2, <2>2, <2>3, Zenon
  <2>5. QED BY <2>4, Zenon
<1>4. QED BY <1>3, Zenon

\* As many as there are cells cover the grid only once each.
LEMMA CoverOnce ==
  ASSUME NEW n \in Nat, NEW m \in Nat,
         NEW F \in [1 .. n * m -> (1 .. n) \X (1 .. m)],
         \A p \in (1 .. n) \X (1 .. m) : \E k \in 1 .. n * m : F[k] = p
  PROVE  \A k, l \in 1 .. n * m : F[k] = F[l] => k = l
<1> DEFINE Grid == (1 .. n) \X (1 .. m)
           c == n * m
<1>1. c \in Nat
  BY ProductNat, Zenon
<1>2. ASSUME NEW a \in Nat
      PROVE  Sets!IsFiniteSet(1 .. a) /\ Sets!Cardinality(1 .. a) = a
  <2>1. 1 \in Int /\ a \in Int
    OBVIOUS
  <2>2. /\ Sets!IsFiniteSet(1 .. a)
        /\ Sets!Cardinality(1 .. a) = IF 1 > a THEN 0 ELSE a - 1 + 1
    BY <2>1, Sets!FS_Interval, Zenon
  <2>3. QED BY <2>2
<1>3. Sets!IsFiniteSet(Grid) /\ Sets!Cardinality(Grid) = c
  <2>1. /\ Sets!IsFiniteSet(1 .. n) /\ Sets!Cardinality(1 .. n) = n
        /\ Sets!IsFiniteSet(1 .. m) /\ Sets!Cardinality(1 .. m) = m
    BY <1>2, Zenon
  <2>2. /\ Sets!IsFiniteSet(Grid)
        /\ Sets!Cardinality(Grid) = Sets!Cardinality(1 .. n) * Sets!Cardinality(1 .. m)
    BY <2>1, Sets!FS_Product, Zenon
  <2>3. QED BY <2>1, <2>2, Zenon
<1>4. F \in Sets!Surjection(1 .. c, Grid)
  BY Zenon DEF Sets!Surjection
<1> HIDE DEF c, Grid
<1>5. Sets!IsFiniteSet(1 .. c) /\ Sets!Cardinality(1 .. c) = Sets!Cardinality(Grid)
  BY <1>1, <1>2, <1>3, Zenon
<1>6. F \in Sets!Injection(1 .. c, Grid)
  BY <1>3, <1>4, <1>5, Sets!FS_SurjSameCardinalityImpliesInj, Zenon
<1>7. \A k, l \in 1 .. c : F[k] = F[l] => k = l
  BY <1>6, Zenon DEF Sets!Injection, Sets!IsInjective
<1>8. QED BY <1>7, Zenon DEF c

\* What the lemmas assume of numbers and finite sets holds.
LEMMA NumberLawsHold == NumberLaws
BY NumbersHaveLeast, CoverOnce, Zenon DEF NumberLaws

\* verify_allocation_audit_bundle accepts a bundle only if the roots and counts
\* of its report stand for the audited segments and nothing else, all of one
\* chain, and both sides have the same total, which is a u64.
THEOREM AuditConserves == Spec => []VerifiedConserves
<1>1. AuditInv => VerifiedConserves
  BY ConservesFromInv, NumberLawsHold, Zenon
<1>2. QED BY <1>1, AuditAlways, PTL

\* verify_allocation_audit_bundle rejects no part of what a prover states of a
\* transition that conserves its supply, whatever the order of the grid.
THEOREM HonestAccepted == Spec => []HonestIsVerified
<1>1. Init => HonestIsVerified
  BY Zenon DEF Init, HonestIsVerified
<1>2. AuditInv /\ HonestIsVerified /\ [Next]_vars => HonestIsVerified'
  BY HonestStep, NumberLawsHold, Zenon
<1>3. QED BY <1>1, <1>2, AuditAlways, PTL DEF Spec
=============================================================================
