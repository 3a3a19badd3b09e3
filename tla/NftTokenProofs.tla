--------------------------- MODULE NftTokenProofs ---------------------------
(***************************************************************************)
(* Supply, terms, ownership and tokens over whole histories, and the plans  *)
(* a history keeps, for every set of inputs.  A step is linked to the       *)
(* history by one equation between state digests; the lemma Linked reads    *)
(* off it what the step shares with the present state.                      *)
(*                                                                          *)
(* Then the continuation plans: what they finalize to, which state the      *)
(* commitment of a plan fixes, and that the circuit of its shape proves the *)
(* step it describes.                                                       *)
(***************************************************************************)
EXTENDS NftToken, TLAPS

-----------------------------------------------------------------------------
(* Finite sets.                                                             *)

\* What the lemmas on sums use of finite sets and of numbers.  The facts are
\* those of FiniteSetTheorems; they are taken from there at the end of the
\* module, after everything that can do without the library.
FiniteLaws ==
  /\ \A T \in SUBSET Nat : T # {} => \E x \in T : \A y \in T : x <= y
  /\ IsFiniteSet({})
  /\ \A S : IsFiniteSet(S) =>
       /\ Cardinality(S) \in Nat
       /\ Cardinality(S) = 0 => S = {}
       /\ \A R \in SUBSET S : IsFiniteSet(R) /\ Cardinality(R) <= Cardinality(S)
       /\ \A x : IsFiniteSet(S \cup {x})
       /\ \A x \in S : Cardinality(S \ {x}) = Cardinality(S) - 1

\* A non-empty set of numbers has a least element.
LEMMA LeastNumber ==
  ASSUME FiniteLaws, NEW T, T \subseteq Nat, T # {}
  PROVE  \E x \in T : \A y \in T : x <= y
<1>1. T \in SUBSET Nat
  BY Zenon
<1>2. QED BY <1>1, Zenon DEF FiniteLaws

\* A finite set has a number of elements.
LEMMA FiniteSize ==
  ASSUME FiniteLaws, NEW S, IsFiniteSet(S)
  PROVE  Cardinality(S) \in Nat /\ (Cardinality(S) = 0 => S = {})
BY Zenon DEF FiniteLaws

\* Some elements of a finite set are no more than all of them.
LEMMA FiniteSubset ==
  ASSUME FiniteLaws, NEW S, IsFiniteSet(S), NEW R \in SUBSET S
  PROVE  IsFiniteSet(R) /\ Cardinality(R) <= Cardinality(S)
BY Zenon DEF FiniteLaws

\* One element more.
LEMMA FiniteAdd ==
  ASSUME FiniteLaws, NEW S, IsFiniteSet(S), NEW x
  PROVE  IsFiniteSet(S \cup {x})
BY Zenon DEF FiniteLaws

\* One element less.
LEMMA FiniteRemove ==
  ASSUME FiniteLaws, NEW S, IsFiniteSet(S), NEW x \in S
  PROVE  IsFiniteSet(S \ {x}) /\ Cardinality(S \ {x}) = Cardinality(S) - 1
<1>1. S \ {x} \in SUBSET S
  BY Zenon
<1>2. QED BY <1>1, Zenon DEF FiniteLaws

\* No elements.
LEMMA FiniteEmpty ==
  ASSUME FiniteLaws
  PROVE  IsFiniteSet({})
BY Zenon DEF FiniteLaws

-----------------------------------------------------------------------------
(* Sums of amounts (allocation_total).                                      *)

\* A set that a proper-subset induction closes has the whole of a finite set.
LEMMA SubsetInduction ==
  ASSUME FiniteLaws, NEW S, IsFiniteSet(S), NEW P,
         \A s \in SUBSET S : (\A x \in s : s \ {x} \in P) => s \in P
  PROVE  \A s \in SUBSET S : s \in P
<1> DEFINE T == {n \in Nat : \E s \in SUBSET S : Cardinality(s) = n /\ s \notin P}
<1>1. SUFFICES T = {}
  <2>1. \A s \in SUBSET S : Cardinality(s) \in Nat
    BY FiniteSubset, FiniteSize
  <2>2. QED BY <2>1
<1>2. SUFFICES ASSUME T # {}
               PROVE  FALSE
  OBVIOUS
<1>3. PICK n \in T : \A m \in T : n <= m
  <2>1. T \subseteq Nat
    OBVIOUS
  <2> HIDE DEF T
  <2>2. QED BY <1>2, <2>1, LeastNumber, Zenon
<1>4. PICK s \in SUBSET S : Cardinality(s) = n /\ s \notin P
  OBVIOUS
<1>5. PICK x \in s : s \ {x} \notin P
  BY <1>4, Zenon
<1>6. /\ IsFiniteSet(s) /\ Cardinality(s) \in Nat
      /\ Cardinality(s \ {x}) = Cardinality(s) - 1
      /\ Cardinality(s \ {x}) \in Nat
  BY FiniteSubset, FiniteSize, FiniteRemove
<1>7. n - 1 \in T /\ n - 1 < n /\ n \in Nat
  <2>1. s \ {x} \in SUBSET S
    OBVIOUS
  <2>2. n - 1 \in Nat /\ n - 1 < n /\ n \in Nat
    BY <1>4, <1>6
  <2>3. QED BY <1>4, <1>5, <1>6, <2>1, <2>2
<1> HIDE DEF T
<1>8. QED BY <1>3, <1>7

\* The element a fold over a set takes first.
Chosen(s) == CHOOSE x \in s : TRUE

\* f adds up amounts on the sets of D, as the fold behind amount_sum does.
IsSum(f, D) ==
  f = [s \in D |-> IF s = {} THEN 0 ELSE Chosen(s).amount + f[s \ {Chosen(s)}]]

\* The subsets of S with at most n elements.
Layer(S, n) == {s \in SUBSET S : Cardinality(s) <= n}

\* The equation of the fold has a solution on the subsets of a finite set, built
\* up by their number of elements.
LEMMA SumExists ==
  ASSUME FiniteLaws, NEW S, IsFiniteSet(S)
  PROVE  \E f : IsSum(f, SUBSET S)
<1> DEFINE T == {n \in Nat : ~ \E f : IsSum(f, Layer(S, n))}
<1>1. \A s \in SUBSET S : IsFiniteSet(s) /\ Cardinality(s) \in Nat
  BY FiniteSubset, FiniteSize
<1>2. T = {}
  <2> SUFFICES ASSUME T # {}
               PROVE  FALSE
    OBVIOUS
  <2>1. PICK n \in T : \A m \in T : n <= m
    <3>1. T \subseteq Nat
      OBVIOUS
    <3> HIDE DEF T
    <3>2. QED BY <3>1, LeastNumber, Zenon
  <2>2. n \in Nat /\ ~ \E f : IsSum(f, Layer(S, n))
    OBVIOUS
  <2>3. CASE n = 0
    <3>1. \A s \in Layer(S, n) : s = {}
      BY <1>1, <2>3, FiniteSize DEF Layer
    <3>2. IsSum([s \in Layer(S, n) |-> 0], Layer(S, n))
      <4> DEFINE f == [s \in Layer(S, n) |-> 0]
                 h == [s \in Layer(S, n) |->
                         IF s = {} THEN 0 ELSE Chosen(s).amount + f[s \ {Chosen(s)}]]
      <4>1. \A s \in Layer(S, n) : h[s] = 0
        BY <3>1
      <4>2. f = h
        BY <4>1
      <4>3. QED BY <4>2, Zenon DEF IsSum
    <3>3. QED BY <2>2, <3>2
  <2>4. CASE n # 0
    <3>1. n - 1 \in Nat /\ n - 1 \notin T
      <4>1. n - 1 \in Nat /\ ~ (n <= n - 1)
        BY <2>2, <2>4
      <4> HIDE DEF T
      <4>2. QED BY <2>1, <4>1
    <3>2. PICK f : IsSum(f, Layer(S, n - 1))
      BY <3>1
    <3> DEFINE g == [s \in Layer(S, n) |->
                       IF s = {} THEN 0 ELSE Chosen(s).amount + f[s \ {Chosen(s)}]]
    <3>3. ASSUME NEW s \in Layer(S, n - 1)
          PROVE  s \in Layer(S, n) /\ g[s] = f[s]
      <4>1. s \in Layer(S, n)
        BY <1>1, <2>2 DEF Layer
      <4>2. f[s] = IF s = {} THEN 0 ELSE Chosen(s).amount + f[s \ {Chosen(s)}]
        BY <3>2, Zenon DEF IsSum
      <4>3. QED BY <4>1, <4>2
    <3>4. ASSUME NEW s \in Layer(S, n), s # {}
          PROVE  s \ {Chosen(s)} \in Layer(S, n - 1)
      <4>1. Chosen(s) \in s
        BY <3>4 DEF Chosen
      <4>2. s \in SUBSET S /\ Cardinality(s) <= n
        BY DEF Layer
      <4>3. Cardinality(s \ {Chosen(s)}) = Cardinality(s) - 1
        BY <1>1, <4>1, <4>2, FiniteRemove
      <4>4. s \ {Chosen(s)} \in SUBSET S
        BY <4>2
      <4>5. QED BY <1>1, <2>2, <4>2, <4>3, <4>4 DEF Layer
    <3>5. \A s \in Layer(S, n) : g[s] = IF s = {} THEN 0
                                        ELSE Chosen(s).amount + g[s \ {Chosen(s)}]
      BY <3>3, <3>4, Zenon
    <3>6. IsSum(g, Layer(S, n))
      <4>1. g = [s \in Layer(S, n) |-> g[s]]
        OBVIOUS
      <4> HIDE DEF g
      <4>2. QED BY <3>5, <4>1, Zenon DEF IsSum
    <3>7. QED BY <2>2, <3>6
  <2>5. QED BY <2>3, <2>4
<1>3. Cardinality(S) \in Nat /\ Layer(S, Cardinality(S)) = SUBSET S
  BY FiniteSubset, FiniteSize DEF Layer
<1>4. \E f : IsSum(f, Layer(S, Cardinality(S)))
  BY <1>2, <1>3, Zenon
<1>5. QED BY <1>3, <1>4

\* amount_sum is a solution of that equation.
LEMMA SumIs ==
  ASSUME FiniteLaws, NEW S, IsFiniteSet(S)
  PROVE \E f : IsSum(f, SUBSET S) /\ amount_sum(S) = f[S]
<1> DEFINE body(g) ==
      [s \in SUBSET S |-> IF s = {} THEN 0
                          ELSE LET x == CHOOSE x \in s : TRUE
                               IN x.amount + g[s \ {x}]]
    h == CHOOSE g : g = body(g)
<1>1. amount_sum(S) = h[S]
  BY DEF amount_sum, MapThenSumSet, MapThenFoldSet
<1>2. \E g : g = body(g)
  BY SumExists, Zenon DEF IsSum, Chosen
<1>3. h = body(h)
  BY <1>2, Zenon
<1>4. QED BY <1>1, <1>3, Zenon DEF IsSum, Chosen

\* The sum is the amount of the element taken first and the sum of the others.
LEMMA SumChosen ==
  ASSUME FiniteLaws, NEW S, IsFiniteSet(S), S # {}
  PROVE  amount_sum(S) = Chosen(S).amount + amount_sum(S \ {Chosen(S)})
<1> DEFINE R == S \ {Chosen(S)}
<1>1. IsFiniteSet(R) /\ R \subseteq S
  BY FiniteRemove
<1>2. PICK f : IsSum(f, SUBSET S) /\ amount_sum(S) = f[S]
  BY SumIs, Zenon
<1>3. PICK g : IsSum(g, SUBSET R) /\ amount_sum(R) = g[R]
  BY <1>1, SumIs, Zenon
<1> DEFINE P == {s \in SUBSET R : f[s] = g[s]}
<1>4. \A s \in SUBSET R : (\A x \in s : s \ {x} \in P) => s \in P
  <2> SUFFICES ASSUME NEW s \in SUBSET R, \A x \in s : s \ {x} \in P
               PROVE  f[s] = g[s]
    BY Zenon
  <2>1. s \in SUBSET S
    BY <1>1
  <2>2. f[s] = IF s = {} THEN 0 ELSE Chosen(s).amount + f[s \ {Chosen(s)}]
    BY <1>2, <2>1, Zenon DEF IsSum
  <2>3. g[s] = IF s = {} THEN 0 ELSE Chosen(s).amount + g[s \ {Chosen(s)}]
    BY <1>3, Zenon DEF IsSum
  <2>4. s # {} => Chosen(s) \in s
    BY DEF Chosen
  <2>5. s # {} => f[s \ {Chosen(s)}] = g[s \ {Chosen(s)}]
    BY <2>4
  <2>6. QED BY <2>2, <2>3, <2>5
<1>5. R \in P
  <2> HIDE DEF P, R
  <2>1. \A s \in SUBSET R : s \in P
    BY <1>1, <1>4, SubsetInduction, Zenon
  <2>2. QED BY <2>1
<1>6. f[S] = Chosen(S).amount + f[R]
  <2>1. f[S] = IF S = {} THEN 0 ELSE Chosen(S).amount + f[R]
    BY <1>2, Zenon DEF IsSum
  <2>2. QED BY <2>1
<1>7. QED BY <1>2, <1>3, <1>5, <1>6

\* No allocations have the total 0.
LEMMA SumEmpty ==
  ASSUME FiniteLaws
  PROVE  amount_sum({}) = 0
<1>1. PICK f : IsSum(f, SUBSET {}) /\ amount_sum({}) = f[{}]
  BY FiniteEmpty, SumIs, Zenon
<1>2. f[{}] = 0
  BY <1>1 DEF IsSum
<1>3. QED BY <1>1, <1>2

\* Finitely many things with amounts: what allocation_total is applied to.
Amounts(S) == IsFiniteSet(S) /\ \A a \in S : a.amount \in Nat

\* Their total is a number.
LEMMA SumNat ==
  ASSUME FiniteLaws, NEW S, Amounts(S)
  PROVE  amount_sum(S) \in Nat
<1> DEFINE P == {s \in SUBSET S : amount_sum(s) \in Nat}
<1>1. \A s \in SUBSET S : (\A x \in s : s \ {x} \in P) => s \in P
  <2> SUFFICES ASSUME NEW s \in SUBSET S, \A x \in s : s \ {x} \in P
               PROVE  amount_sum(s) \in Nat
    OBVIOUS
  <2>1. CASE s = {}
    BY <2>1, SumEmpty
  <2>2. CASE s # {}
    <3>1. Chosen(s) \in s /\ IsFiniteSet(s)
      BY <2>2, FiniteSubset DEF Chosen, Amounts
    <3>2. Chosen(s).amount \in Nat /\ amount_sum(s \ {Chosen(s)}) \in Nat
      BY <3>1 DEF Amounts
    <3>3. QED BY <2>2, <3>1, <3>2, SumChosen
  <2>3. QED BY <2>1, <2>2
<1> HIDE DEF P
<1>2. \A s \in SUBSET S : s \in P
  BY <1>1, SubsetInduction, Zenon DEF Amounts
<1>3. QED BY <1>2 DEF P

\* So have some of them.
LEMMA AmountsSubset ==
  ASSUME FiniteLaws, NEW S, Amounts(S), NEW R \in SUBSET S
  PROVE  Amounts(R)
BY FiniteSubset DEF Amounts

\* Whichever element is taken first, the sum is the same.
LEMMA SumRemove ==
  ASSUME FiniteLaws, NEW S, Amounts(S), NEW x \in S
  PROVE  amount_sum(S) = x.amount + amount_sum(S \ {x})
<1> DEFINE splits(s) == \A y \in s : amount_sum(s) = y.amount + amount_sum(s \ {y})
           P == {s \in SUBSET S : splits(s)}
<1>1. \A s \in SUBSET S : (\A y \in s : s \ {y} \in P) => s \in P
  <2> SUFFICES ASSUME NEW s \in SUBSET S, \A y \in s : s \ {y} \in P,
                      NEW y \in s
               PROVE  amount_sum(s) = y.amount + amount_sum(s \ {y})
    BY Zenon
  <2> DEFINE c == Chosen(s)
  <2>1. /\ c \in s /\ Amounts(s) /\ IsFiniteSet(s)
        /\ y.amount \in Nat /\ c.amount \in Nat
    BY AmountsSubset DEF Chosen, Amounts
  <2>2. amount_sum(s) = c.amount + amount_sum(s \ {c})
    BY <2>1, SumChosen
  <2>3. CASE y = c
    BY <2>2, <2>3
  <2>4. CASE y # c
    <3>1. splits(s \ {c}) /\ splits(s \ {y})
      BY <2>1
    <3> HIDE DEF c
    <3>2. amount_sum(s \ {c}) = y.amount + amount_sum((s \ {c}) \ {y})
      BY <2>4, <3>1
    <3>3. amount_sum(s \ {y}) = c.amount + amount_sum((s \ {y}) \ {c})
      BY <2>1, <2>4, <3>1
    <3>4. (s \ {c}) \ {y} = (s \ {y}) \ {c}
      OBVIOUS
    <3>5. amount_sum((s \ {c}) \ {y}) \in Nat
      <4>1. (s \ {c}) \ {y} \in SUBSET S
        OBVIOUS
      <4>2. QED BY <4>1, AmountsSubset, SumNat
    <3> DEFINE u == amount_sum((s \ {c}) \ {y})
    <3>6. amount_sum(s) = c.amount + (y.amount + u)
      BY <2>2, <3>2
    <3>7. amount_sum(s \ {y}) = c.amount + u
      BY <3>3, <3>4
    <3> HIDE DEF u
    <3>8. u \in Nat
      BY <3>5 DEF u
    <3>9. QED BY <2>1, <3>6, <3>7, <3>8
  <2>5. QED BY <2>3, <2>4, Zenon
<1> HIDE DEF P
<1>2. \A s \in SUBSET S : s \in P
  BY <1>1, SubsetInduction, Zenon DEF Amounts
<1>3. QED BY <1>2 DEF P

\* Renaming elements one to one, with their amounts, keeps the sum.
LEMMA SumImage ==
  ASSUME FiniteLaws, NEW S, Amounts(S), NEW g, \A x \in S : g[x].amount = x.amount,
         \A x, y \in S : g[x] = g[y] => x = y
  PROVE  /\ Amounts({g[x] : x \in S})
         /\ amount_sum({g[x] : x \in S}) = amount_sum(S)
<1> DEFINE Im(s) == {g[x] : x \in s}
           P == {s \in SUBSET S : Amounts(Im(s)) /\ amount_sum(Im(s)) = amount_sum(s)}
<1>1. \A s \in SUBSET S : (\A y \in s : s \ {y} \in P) => s \in P
  <2> SUFFICES ASSUME NEW s \in SUBSET S, \A y \in s : s \ {y} \in P
               PROVE  Amounts(Im(s)) /\ amount_sum(Im(s)) = amount_sum(s)
    BY Zenon
  <2>1. CASE s = {}
    <3>1. Im(s) = {}
      BY <2>1
    <3>2. QED BY <2>1, <3>1, FiniteEmpty DEF Amounts
  <2>2. CASE s # {}
    <3>1. PICK y : y \in s
      BY <2>2
    <3>2. Amounts(Im(s \ {y})) /\ amount_sum(Im(s \ {y})) = amount_sum(s \ {y})
      BY <3>1, Zenon
    <3>3. g[y] \in Im(s) /\ Im(s) \ {g[y]} = Im(s \ {y})
      BY <3>1
    <3>4. y.amount \in Nat /\ g[y].amount = y.amount /\ Amounts(s)
      <4>1. y \in S
        BY <3>1
      <4>2. Amounts(s)
        BY AmountsSubset
      <4>3. QED BY <4>1, <4>2 DEF Amounts
    <3> HIDE DEF Im, P
    <3>5. Amounts(Im(s))
      <4>1. Im(s) = Im(s \ {y}) \cup {g[y]}
        BY <3>3, Zenon
      <4>2. IsFiniteSet(Im(s \ {y}))
        BY <3>2 DEF Amounts
      <4>3. IsFiniteSet(Im(s \ {y}) \cup {g[y]})
        BY <4>2, FiniteAdd, Zenon
      <4>4. \A a \in Im(s) : a.amount \in Nat
        BY <3>2, <3>4, <4>1, Zenon DEF Amounts
      <4>5. QED BY <4>1, <4>3, <4>4, Zenon DEF Amounts
    <3>6. amount_sum(Im(s)) = g[y].amount + amount_sum(Im(s \ {y}))
      <4>1. amount_sum(Im(s)) = g[y].amount + amount_sum(Im(s) \ {g[y]})
        BY <3>3, <3>5, SumRemove
      <4>2. QED BY <3>3, <4>1, Zenon
    <3>7. amount_sum(s) = y.amount + amount_sum(s \ {y})
      BY <3>1, <3>4, SumRemove
    <3>8. QED BY <3>2, <3>4, <3>5, <3>6, <3>7, Zenon
  <2>3. QED BY <2>1, <2>2
<1> HIDE DEF P
<1>2. \A s \in SUBSET S : s \in P
  BY <1>1, SubsetInduction, Zenon DEF Amounts
<1>3. QED BY <1>2 DEF P

-----------------------------------------------------------------------------
(* Histories.                                                               *)

\* d is the digest of these allocations, in whatever order they were hashed.
DigestOf(d, terms, allocations, owner) ==
  /\ d.allocations.set = Range(allocations)
  /\ d.owner_commitment = owner
  /\ d.asset_id = terms.asset_id
  /\ d.total_supply = terms.total_supply
  /\ d.metadata_commitment = terms.metadata_commitment
  /\ d.lane_id = terms.lane_id
  /\ d.privacy_policy = terms.privacy_policy
  /\ d.proof_policy = terms.proof_policy

\* What holds of the present state once an asset is issued: the index has its
\* digest, its proof policy is valid, its allocations are on its chain, and
\* live and burned amounts are the issued supply.
Present ==
  /\ DigestOf(digest, PresentTerms, Live, PresentOwner)
  /\ proof_policy_valid(PresentTerms.proof_policy)
  /\ \A a \in Range(Live) : a.anchor.chain = PresentTerms.chain
  /\ allocation_total(Live) + burned = issue.terms.total_supply

SInv ==
  /\ burned \in Nat
  /\ phase \in {"none", "issued", "continued"}
  /\ phase = "none" => burned = 0
  /\ phase # "none" => Present

\* A step from the present state to that after t, known by its validation or by
\* its proof.
Continues(t) ==
  /\ phase # "none"
  /\ phase' = "continued" /\ latest' = t /\ issue' = issue
  /\ DigestOf(digest, t.terms, t.spent_allocations, t.previous_owner_commitment)
  /\ DigestOf(digest', t.terms, t.new_allocations, t.new_owner_commitment)
  /\ Range(t.spent_allocations) # {}
  /\ \A a \in Range(t.spent_allocations) \cup Range(t.new_allocations) :
       a.anchor.chain = t.terms.chain
  /\ allocation_total(t.spent_allocations) \in Nat
  /\ allocation_total(t.new_allocations) \in Nat
  /\ allocation_total(t.new_allocations) <= allocation_total(t.spent_allocations)
  /\ burned' = burned + (allocation_total(t.spent_allocations)
                           - allocation_total(t.new_allocations))

\* The native digest and the digest of a circuit are both over the set of the
\* allocations (state_digest_for_allocations, state_digest).
LEMMA Digests ==
  ASSUME NEW terms, NEW allocations, NEW owner
  PROVE  /\ DigestOf(state_digest(terms, allocations, owner), terms, allocations, owner)
         /\ DigestOf(circuit_state_digest(terms, allocations, owner), terms,
                     allocations, owner)
BY DEF DigestOf, state_digest, circuit_state_digest, allocation_root,
       allocation_root_digest

\* Allocations that validate_allocation_set_structure accepts are on the chain
\* it was given, and their total is a u64.
LEMMA Structure ==
  ASSUME NEW chain, NEW allocations,
         validate_allocation_set_structure(chain, allocations)
  PROVE  /\ \A a \in Range(allocations) : a.anchor.chain = chain
         /\ allocation_total(allocations) \in 0 .. MaxU64
BY Zenon DEF validate_allocation_set_structure, Range

\* A transition the history accepts continues it: it burns exactly the amount
\* of its burn proof (validate_supply_delta).
LEMMA NativeContinues ==
  ASSUME NEW t, continued_by(t), burned \in Nat
  PROVE  Continues(t)
<1>1. /\ validate_allocation_set_structure(t.terms.chain, t.spent_allocations)
      /\ validate_allocation_set_structure(t.terms.chain, t.new_allocations)
      /\ validate_supply_delta(allocation_total(t.spent_allocations),
           allocation_total(t.new_allocations), t.burn)
      /\ Range(t.spent_allocations) # {}
      /\ digest = state_digest(t.terms, t.spent_allocations,
                               t.previous_owner_commitment)
  BY DEF continued_by, transition_valid, validate_spending
<1>2. digest' = state_digest(t.terms, t.new_allocations, t.new_owner_commitment)
  BY DEF continued_by, new_state_digest
<1>3. /\ phase # "none" /\ phase' = "continued" /\ latest' = t /\ issue' = issue
      /\ burned' = burned + burn_amount(t)
  BY DEF continued_by
<1> DEFINE spent == allocation_total(t.spent_allocations)
           new == allocation_total(t.new_allocations)
<1>4. spent \in Nat /\ new \in Nat
  BY <1>1, Structure, AssetAssumption
<1>5. burn_amount(t) = spent - new /\ new <= spent
  BY <1>1, <1>4 DEF validate_supply_delta, burn_amount
<1>6. \A a \in Range(t.spent_allocations) \cup Range(t.new_allocations) :
        a.anchor.chain = t.terms.chain
  BY <1>1, Structure
<1>7. /\ DigestOf(digest, t.terms, t.spent_allocations, t.previous_owner_commitment)
      /\ DigestOf(digest', t.terms, t.new_allocations, t.new_owner_commitment)
  BY <1>1, <1>2, Digests
<1>8. QED BY <1>1, <1>3, <1>4, <1>5, <1>6, <1>7, Zenon DEF Continues

\* So does a transition known by its proof: the supplies it states are those of
\* its witness (enforce_allocation_supply_delta), whatever the order of its
\* allocations.
LEMMA ProvedContinues ==
  ASSUME NEW s, NEW w, proved_by(s, w)
  PROVE  Continues(transition_of(s, w))
<1> DEFINE t == transition_of(s, w)
<1>1. /\ t.terms = s.terms
      /\ t.spent_allocations = w.spent
      /\ t.new_allocations = w.new
      /\ t.previous_owner_commitment = s.previous_owner_commitment
      /\ t.new_owner_commitment = s.new_owner_commitment
  BY DEF transition_of
<1>2. enforce_allocation_transition(s, w)
  BY Zenon DEF proved_by, transition_proved, generate_constraints
<1>3. /\ phase # "none" /\ phase' = "continued" /\ latest' = t /\ issue' = issue
      /\ burned' = burned + s.burned_supply
      /\ digest = circuit_state_digest(t.terms, t.spent_allocations,
                                       t.previous_owner_commitment)
      /\ digest' = circuit_state_digest(t.terms, t.new_allocations,
                                        t.new_owner_commitment)
  BY <1>1, <1>2, Zenon DEF proved_by, enforce_allocation_transition, enforce_digests
<1>4. /\ allocation_total(t.spent_allocations) \in Nat
      /\ allocation_total(t.new_allocations) \in Nat
      /\ s.burned_supply \in Nat
      /\ allocation_total(t.spent_allocations)
           = allocation_total(t.new_allocations) + s.burned_supply
  BY <1>1, <1>2, AssetAssumption
     DEF enforce_allocation_transition, enforce_allocation_supply_delta, U64
<1>5. \A a \in Range(t.spent_allocations) \cup Range(t.new_allocations) :
        a.anchor.chain = t.terms.chain
  BY <1>1, <1>2, Zenon DEF enforce_allocation_transition, enforce_allocation_common
<1>6. Range(t.spent_allocations) # {}
  BY <1>1, <1>2, Zenon DEF enforce_allocation_transition
<1>7. /\ DigestOf(digest, t.terms, t.spent_allocations, t.previous_owner_commitment)
      /\ DigestOf(digest', t.terms, t.new_allocations, t.new_owner_commitment)
  BY <1>3, Digests, Zenon
<1>8. Continues(t)
  <2> HIDE DEF t
  <2> QED BY <1>3, <1>4, <1>5, <1>6, <1>7 DEF Continues
<1>9. QED BY <1>8

\* A step names the terms and the owner of the present state and spends its
\* allocations.
LEMMA Linked ==
  ASSUME SInv, NEW t, Continues(t)
  PROVE  /\ Range(t.spent_allocations) = Range(Live)
         /\ t.previous_owner_commitment = PresentOwner
         /\ t.terms.chain = PresentTerms.chain
         /\ t.terms.asset_id = PresentTerms.asset_id
         /\ t.terms.total_supply = PresentTerms.total_supply
         /\ t.terms.metadata_commitment = PresentTerms.metadata_commitment
         /\ t.terms.lane_id = PresentTerms.lane_id
         /\ t.terms.privacy_policy = PresentTerms.privacy_policy
         /\ t.terms.proof_policy = PresentTerms.proof_policy
<1>1. /\ DigestOf(digest, t.terms, t.spent_allocations, t.previous_owner_commitment)
      /\ DigestOf(digest, PresentTerms, Live, PresentOwner)
  BY DEF Continues, SInv, Present
<1>2. Range(t.spent_allocations) = Range(Live)
  BY <1>1 DEF DigestOf
<1>3. t.terms.chain = PresentTerms.chain
  BY <1>2 DEF Continues, SInv, Present
<1>4. QED BY <1>1, <1>2, <1>3, Zenon DEF DigestOf

\* An issue (RgkAssetIssue::validate) starts with the whole supply.
LEMMA IssueKeeps ==
  ASSUME SInv, NEW i, issue_asset(i)
  PROVE  SInv'
<1>1. /\ issue' = i /\ phase' = "issued" /\ burned' = 0
      /\ digest' = state_digest(i.terms, i.allocations, i.owner_commitment)
  BY DEF SInv, issue_asset, issue_digest
<1>2. /\ Live' = i.allocations /\ PresentTerms' = i.terms
      /\ PresentOwner' = i.owner_commitment
  BY <1>1 DEF Live, PresentTerms, PresentOwner
<1>3. /\ validate_allocation_set_structure(i.terms.chain, i.allocations)
      /\ allocation_total(i.allocations) = i.terms.total_supply
      /\ proof_policy_valid(i.terms.proof_policy)
  BY DEF issue_asset, issue_valid, validate_common
<1>4. allocation_total(i.allocations) \in Nat
  BY <1>3, Structure, AssetAssumption
<1>5. allocation_total(Live)' = allocation_total(i.allocations)
  BY <1>2 DEF allocation_total
<1>6. DigestOf(digest, PresentTerms, Live, PresentOwner)'
  <2>1. DigestOf(digest', i.terms, i.allocations, i.owner_commitment)
    BY <1>1, Digests
  <2>2. QED BY <1>2, <2>1 DEF DigestOf
<1>7. proof_policy_valid(PresentTerms.proof_policy)'
  BY <1>2, <1>3, Zenon DEF proof_policy_valid
<1>8. Present'
  BY <1>1, <1>2, <1>3, <1>4, <1>5, <1>6, <1>7, Structure DEF Present
<1>9. QED BY <1>1, <1>8 DEF SInv

\* A step moves what it burns from live to burned.
LEMMA ContinuationKeeps ==
  ASSUME SInv, NEW t, Continues(t)
  PROVE  SInv'
<1>1. /\ issue' = issue /\ phase # "none" /\ phase' = "continued" /\ latest' = t
  BY DEF Continues
<1>2. /\ Live' = t.new_allocations /\ PresentTerms' = t.terms
      /\ PresentOwner' = t.new_owner_commitment
  BY <1>1 DEF Live, PresentTerms, PresentOwner
<1> DEFINE spent == allocation_total(t.spent_allocations)
           new == allocation_total(t.new_allocations)
<1>3. spent \in Nat /\ new \in Nat /\ new <= spent /\ burned' = burned + (spent - new)
  BY DEF Continues
<1>4. spent = allocation_total(Live)
  BY Linked DEF allocation_total
<1>5. allocation_total(Live)' = new
  BY <1>2 DEF allocation_total
<1>6. spent + burned = issue.terms.total_supply /\ burned \in Nat
  BY <1>1, <1>4 DEF SInv, Present
<1>7. burned' \in Nat /\ new + burned' = issue.terms.total_supply
  <2> HIDE DEF spent, new
  <2> QED BY <1>3, <1>6
<1>8. DigestOf(digest, PresentTerms, Live, PresentOwner)'
  BY <1>2 DEF Continues, DigestOf
<1>9. proof_policy_valid(PresentTerms.proof_policy)'
  <2>1. proof_policy_valid(PresentTerms.proof_policy)
    BY <1>1 DEF SInv, Present
  <2>2. PresentTerms'.proof_policy = PresentTerms.proof_policy
    BY <1>2, Linked
  <2>3. QED BY <2>1, <2>2 DEF proof_policy_valid
<1>10. \A a \in Range(Live') : a.anchor.chain = PresentTerms'.chain
  BY <1>2 DEF Continues
<1>11. Present'
  BY <1>1, <1>5, <1>7, <1>8, <1>9, <1>10, Zenon DEF Present
<1>12. QED BY <1>1, <1>7, <1>11, Zenon DEF SInv

\* The ways a step of the token touches the asset: an issue, an accepted
\* transition, an accepted proof, or neither.
LEMMA StepKinds ==
  ASSUME NftNext
  PROVE  \/ \E i : issue_asset(i)
         \/ \E t : continued_by(t)
         \/ (\E s, w : proved_by(s, w)) /\ token' = token
         \/ UNCHANGED <<phase, issue, latest, digest, burned>>
<1>1. CASE Issue
  BY <1>1 DEF Issue
<1>2. CASE Plan
  BY <1>2 DEF Plan, draw_up
<1>3. CASE Finalize
  BY <1>3 DEF Finalize
<1>4. CASE Receive
  BY <1>4 DEF Receive
<1>5. CASE ReceiveProof /\ UNCHANGED token
  BY <1>5 DEF ReceiveProof
<1>6. CASE Drop
  BY <1>6 DEF Drop
<1>7. CASE Mint
  BY <1>7 DEF Mint
<1>8. CASE TransferToken
  BY <1>8 DEF TransferToken
<1>9. CASE SellToken
  BY <1>9 DEF SellToken
<1>10. CASE PlanBurn
  BY <1>10 DEF PlanBurn, draw_up
<1>11. CASE BurnToken
  BY <1>11 DEF BurnToken
<1>12. CASE ReadBack
  BY <1>12 DEF ReadBack
<1>13. QED
  BY <1>1, <1>2, <1>3, <1>4, <1>5, <1>6, <1>7, <1>8, <1>9, <1>10, <1>11, <1>12,
     Zenon DEF NftNext, AssetNext

\* A step that changes the last transition continues the history with it.
LEMMA StepContinues ==
  ASSUME SInv, NftNext, latest' # latest
  PROVE  Continues(latest')
<1>1. ~ \E i : issue_asset(i)
  BY DEF issue_asset
<1>2. ASSUME NEW t, continued_by(t)
      PROVE  Continues(latest')
  <2>1. latest' = t
    BY <1>2 DEF continued_by
  <2>2. QED BY <1>2, <2>1, NativeContinues DEF SInv
<1>3. ASSUME NEW s, NEW w, proved_by(s, w)
      PROVE  Continues(latest')
  <2>1. latest' = transition_of(s, w)
    BY <1>3 DEF proved_by
  <2>2. QED BY <1>3, <2>1, ProvedContinues
<1>4. QED BY <1>1, <1>2, <1>3, StepKinds

\* SInv is inductive.
LEMMA SInvAlways == NftSpec => []SInv
<1>1. NftInit => SInv
  BY DEF NftInit, AssetInit, SInv
<1>2. SInv /\ [NftNext]_nftVars => SInv'
  <2> SUFFICES ASSUME SInv, [NftNext]_nftVars
      PROVE  SInv'
    BY Zenon
  <2>1. ASSUME UNCHANGED <<phase, issue, latest, digest, burned>>
        PROVE  SInv'
    BY <2>1 DEF SInv, Present, Live, PresentTerms, PresentOwner, DigestOf,
                proof_policy_valid, allocation_total
  <2>2. CASE NftNext
    <3>1. ASSUME NEW t, continued_by(t)
          PROVE  SInv'
      BY <3>1, NativeContinues, ContinuationKeeps DEF SInv
    <3>2. ASSUME NEW s, NEW w, proved_by(s, w)
          PROVE  SInv'
      BY <3>2, ProvedContinues, ContinuationKeeps
    <3>3. QED BY <2>1, <2>2, <3>1, <3>2, StepKinds, IssueKeeps, Zenon
  <2>3. CASE UNCHANGED nftVars
    BY <2>1, <2>3 DEF nftVars
  <2>4. QED BY <2>2, <2>3
<1>3. QED BY <1>1, <1>2, PTL DEF NftSpec

\* Live amounts and accepted burns always add up to the issued supply
\* (validate_supply_delta, validate_allocation_set_exact,
\* enforce_allocation_supply_delta), whatever mixture of plain, planned, proved
\* and NFT steps made the history.
THEOREM SupplyCorrect == NftSpec => []SupplyAccounted
<1>1. SInv => SupplyAccounted
  BY DEF SInv, Present, SupplyAccounted
<1>2. QED BY <1>1, SInvAlways, PTL

\* Every accepted transition and proof keeps chain, asset, supply, metadata,
\* lane, privacy and proof policy and starts from the present owner, although
\* only the state digest ties it to the history
\* (state_digest_for_allocations).
THEOREM TermsContinue == NftSpec => StepsContinueTerms
<1> DEFINE A ==
      latest' # latest =>
        LET now == PresentTerms
            next == latest'.terms
        IN /\ next.chain = now.chain
           /\ next.asset_id = now.asset_id
           /\ next.total_supply = now.total_supply
           /\ next.metadata_commitment = now.metadata_commitment
           /\ next.lane_id = now.lane_id
           /\ next.privacy_policy = now.privacy_policy
           /\ next.proof_policy = now.proof_policy
           /\ latest'.previous_owner_commitment = PresentOwner
<1>1. SInv /\ [NftNext]_nftVars => [A]_assetVars
  <2> SUFFICES ASSUME SInv, NftNext, latest' # latest
      PROVE  A
    BY DEF nftVars, assetVars
  <2>1. Continues(latest')
    BY StepContinues
  <2>2. QED BY <2>1, Linked, Zenon
<1>2. QED BY <1>1, SInvAlways, PTL DEF NftSpec, StepsContinueTerms

\* A specification whose owner is no longer the present one moves nothing: the
\* NFT validators compare it with the transition (validate_nft_transition_shape)
\* and the state digest compares the transition with the history.
THEOREM StaleTokenStays == NftSpec => FormerOwnerCannotMove
<1> DEFINE A ==
      latest' # latest /\ token # None /\ PresentOwner # token.owner_commitment
        => latest'.previous_owner_commitment # token.owner_commitment
           /\ token' = token
<1>1. SInv /\ [NftNext]_nftVars => [A]_nftVars
  <2> SUFFICES ASSUME SInv, NftNext, latest' # latest,
                      PresentOwner # token.owner_commitment
      PROVE  latest'.previous_owner_commitment # token.owner_commitment
             /\ token' = token
    OBVIOUS
  <2>1. ~ \E i : issue_asset(i)
    BY DEF issue_asset
  <2>2. latest'.previous_owner_commitment = PresentOwner
    BY StepContinues, Linked
  <2>3. \A u : continued_by(u) => latest' = u
    BY DEF continued_by
  <2>4. ~ TransferToken
    BY <2>2, <2>3 DEF TransferToken, validate_transfer
  <2>5. ~ SellToken
    BY <2>2, <2>3 DEF SellToken, validate_transfer
  <2>6. ~ Mint
    BY <2>1, Zenon DEF Mint
  <2>7. token' = token
    BY <2>4, <2>5, <2>6 DEF NftNext, PlanBurn, BurnToken
  <2>8. QED BY <2>2, <2>7
<1>2. QED BY <1>1, SInvAlways, PTL DEF NftSpec, FormerOwnerCannotMove

\* The validator of transitions accepts what the circuit accepts
\* (RgkTransition::validate, enforce_allocation_transition), where outpoints
\* are in one covenant, the spent allocations are sorted and the proof policy,
\* of which a statement has only the commitment, is valid.
THEOREM ProofSound ==
  ASSUME NEW s, NEW w, transition_proved(s, w),
         proof_policy_valid(s.terms.proof_policy),
         AnchoredOnce(transition_of(s, w)), sorted(w.spent),
         w.new \in Seq(Range(w.new)), s.burned_supply # 0 => burn_of(s) # None
  PROVE  transition_valid(transition_of(s, w))
<1> DEFINE t == transition_of(s, w)
<1>1. /\ t.terms = s.terms
      /\ t.spent_allocations = w.spent
      /\ t.new_allocations = w.new
      /\ t.previous_owner_commitment = s.previous_owner_commitment
      /\ t.new_owner_commitment = s.new_owner_commitment
      /\ t.ownership_authorization_commitment = s.ownership_authorization_commitment
      /\ t.previous_state_digest = s.previous_state_digest
      /\ t.burn = burn_of(s)
      /\ t.witness_txid = witness_txid_of(w)
  BY DEF transition_of
<1>2. /\ enforce_allocation_transition(s, w)
      /\ enforce_semantic_layout(s)
      /\ burn_encodes(s)
      /\ witness_supported(w)
  BY Zenon DEF transition_proved, from_statement_and_witness, generate_constraints
<1>3. /\ \A a \in Range(w.spent) : enforce_allocation_common(s.terms.chain, a)
      /\ \A a \in Range(w.new) : enforce_allocation_common(s.terms.chain, a)
                                  /\ a.anchor.witness_txid = witness_txid_of(w)
      /\ enforce_distinct_outpoints(w.spent)
      /\ enforce_distinct_outpoints(w.new)
      /\ windows(Range(w.spent)) \cap windows(Range(w.new)) = {}
      /\ enforce_allocation_supply_delta(s, w)
      /\ enforce_digests(s, w)
      /\ Range(w.spent) # {}
  BY <1>2, Zenon DEF enforce_allocation_transition, enforce_new_anchor,
              enforce_spent_anchors_not_reused
<1>4. \A a, b \in Range(w.spent) \cup Range(w.new) :
        OutpointOf(a) = OutpointOf(b) => outpoint_window(a) = outpoint_window(b)
  BY <1>1, Zenon DEF AnchoredOnce, outpoint_window
<1>5. ASSUME NEW q, Range(q) \subseteq Range(w.spent) \cup Range(w.new),
             \A a \in Range(q) : enforce_allocation_common(s.terms.chain, a),
             enforce_distinct_outpoints(q), allocation_total(q) \in 0 .. MaxU64
      PROVE  validate_allocation_set_structure(s.terms.chain, q)
  <2>1. \A i \in DOMAIN q : q[i] \in Range(q)
    BY Zenon DEF Range
  <2>2. \A i, j \in DOMAIN q : OutpointOf(q[i]) = OutpointOf(q[j]) => i = j
    BY <1>4, <1>5, <2>1, Zenon DEF enforce_distinct_outpoints
  <2>3. QED BY <1>5, <2>1, <2>2, Zenon
     DEF validate_allocation_set_structure, enforce_allocation_common
<1>6. /\ allocation_total(w.spent) = s.spent_supply
      /\ allocation_total(w.new) = s.new_supply
      /\ s.spent_supply \in 0 .. MaxU64 /\ s.new_supply \in 0 .. MaxU64
      /\ s.burned_supply \in 0 .. MaxU64
      /\ s.spent_supply = s.new_supply + s.burned_supply
  BY <1>3, Zenon DEF enforce_allocation_supply_delta, U64
<1>7. /\ validate_allocation_set_structure(s.terms.chain, w.spent)
      /\ validate_allocation_set_structure(s.terms.chain, w.new)
  BY <1>3, <1>5, <1>6, Zenon
<1>8. validate_supply_delta(allocation_total(t.spent_allocations),
        allocation_total(t.new_allocations), t.burn)
  <2>1. s.burned_supply # 0 => s.burn_authorization_commitment # Zero
    BY <1>2, Zenon DEF burn_encodes
  <2>2. s.burned_supply = s.spent_supply - s.new_supply
        /\ s.new_supply <= s.spent_supply
    BY <1>6, AssetAssumption
  <2>3. s.spent_supply = s.new_supply <=> s.burned_supply = 0
    BY <1>6, AssetAssumption
  <2>4. validate_supply_delta(s.spent_supply, s.new_supply, burn_of(s))
    BY <2>1, <2>2, <2>3 DEF validate_supply_delta, burn_of
  <2>5. QED BY <1>1, <1>6, <2>4
<1>9. state_digest(s.terms, w.spent, s.previous_owner_commitment)
        = s.previous_state_digest
  <2>1. allocation_root_digest(w.spent) = allocation_root(w.spent)
    BY Zenon DEF allocation_root_digest, allocation_root, order_of
  <2>2. QED BY <1>3, <2>1, ZenonT(30)
               DEF enforce_digests, circuit_state_digest, state_digest
<1>10. Range(w.spent) \cap Range(w.new) = {}
  BY <1>3, Zenon DEF windows
<1>11. new_state_digest(t) # t.previous_state_digest
  <2>1. new_state_digest(t) = state_digest(s.terms, w.new, s.new_owner_commitment)
    BY <1>1, Zenon DEF new_state_digest
  <2>2. /\ state_digest(s.terms, w.new, s.new_owner_commitment).allocations.set
             = Range(w.new)
        /\ state_digest(s.terms, w.spent, s.previous_owner_commitment).allocations.set
             = Range(w.spent)
    BY Digests DEF DigestOf
  <2>3. QED BY <1>1, <1>3, <1>9, <1>10, <2>1, <2>2, Zenon
<1>12. {OutpointOf(a) : a \in Range(w.spent)} \cap {OutpointOf(a) : a \in Range(w.new)} = {}
  BY <1>3, <1>4 DEF windows
<1>13. witness_txid_of(w) # Zero
  <2>1. CASE w.new = <<>>
    BY <1>2, <2>1, Zenon DEF witness_supported, witness_txid_of
  <2>2. CASE w.new # <<>>
    <3>1. w.new[1] \in Range(w.new)
      BY <2>2 DEF Range
    <3>2. QED BY <1>3, <2>2, <3>1, Zenon
                 DEF enforce_allocation_common, witness_txid_of
  <2>3. QED BY <2>1, <2>2
<1>14. validate_common(s.terms)
  BY <1>2 DEF validate_common, enforce_semantic_layout
<1>15. validate_spending(t)
  BY <1>1, <1>2, <1>3, <1>7, <1>9, <1>14, Zenon
     DEF validate_spending, enforce_semantic_layout, validate_ownership_handoff
<1>16. QED
  BY <1>1, <1>7, <1>8, <1>11, <1>12, <1>13, <1>15, Zenon DEF transition_valid

\* A statement a prover makes names the burn it was made for.
LEMMA StatementBurn ==
  ASSUME NEW x, NEW owner, NEW authorization, NEW burn \in Burn, NEW w
  PROVE  LET s == StatementFrom(x, owner, authorization, burn, w)
         IN s.burned_supply # 0 => burn_of(s) # None
<1> DEFINE s == StatementFrom(x, owner, authorization, burn, w)
<1>1. /\ s.burned_supply = IF burn = None THEN 0 ELSE burn.amount
      /\ s.burn_authorization_commitment
           = IF burn = None THEN Zero ELSE burn.authorization_commitment
  BY Zenon DEF StatementFrom, TransitionFrom, semantic_statement, transition_report,
         report_of, burn_amount, burn_authorization
<1>2. burn # None => burn = [amount |-> burn.amount,
                             authorization_commitment |-> burn.authorization_commitment]
  <2> HAVE burn # None
  <2>1. HasFields(burn, {"amount", "authorization_commitment"})
    BY InputAssumption, Zenon
  <2>2. QED BY <2>1 DEF HasFields
<1> HIDE DEF s
<1>3. s.burned_supply # 0 => burn # None
  BY <1>1
<1>4. s.burned_supply # 0 => burn_of(s) = burn
  BY <1>1, <1>2 DEF burn_of
<1>5. QED BY <1>3, <1>4 DEF s

\* A proof arrives by ReceiveProof only.
LEMMA StepProof ==
  ASSUME NftNext, latest' # latest
  PROVE  \/ ReceiveProof
         \/ \E t : continued_by(t)
<1>1. ~ Issue /\ ~ Mint
  BY Zenon DEF Issue, Mint, issue_asset
<1>2. ~ Plan /\ ~ ReadBack /\ ~ Drop /\ ~ PlanBurn
  BY DEF Plan, ReadBack, Drop, PlanBurn, draw_up
<1>3. QED
  BY <1>1, <1>2 DEF NftNext, AssetNext, Finalize, Receive, TransferToken,
                    SellToken, BurnToken

\* Every step of a history, native or known by its proof, is one the native
\* validator accepts, under the two conditions that the circuit does not check.
THEOREM ProvedStepsCorrect == NftSpec => []ProvedStepsValid
<1>1. NftInit => ProvedStepsValid
  BY DEF NftInit, AssetInit, ProvedStepsValid
<1>2. SInv /\ ProvedStepsValid /\ [NftNext]_nftVars => ProvedStepsValid'
  <2> SUFFICES ASSUME SInv, ProvedStepsValid, [NftNext]_nftVars
      PROVE  ProvedStepsValid'
    OBVIOUS
  <2>1. CASE latest' = latest
    BY <2>1, Zenon DEF ProvedStepsValid, AnchoredOnce, sorted, transition_valid,
      validate_spending
  <2>2. CASE latest' # latest
    <3> SUFFICES ASSUME AnchoredOnce(latest'), sorted(latest'.spent_allocations)
        PROVE  transition_valid(latest')
      BY DEF ProvedStepsValid
    <3>1. NftNext
      BY <2>2 DEF nftVars
    <3>2. ASSUME NEW t, continued_by(t)
          PROVE  transition_valid(latest')
      BY <3>2, Zenon DEF continued_by
    <3>3. CASE ReceiveProof
      <4>1. PICK x \in KnownProvedSpendings, owner \in Owner,
                 authorization \in Authorization, burn \in Burn :
              \E w \in Witnesses(x.spent_allocations) :
                proved_by(StatementFrom(x, owner, authorization, burn, w), w)
        BY <3>3 DEF ReceiveProof
      <4>2. PICK w \in Witnesses(x.spent_allocations) :
              proved_by(StatementFrom(x, owner, authorization, burn, w), w)
        BY <4>1
      <4> DEFINE s == StatementFrom(x, owner, authorization, burn, w)
      <4>3. s.burned_supply # 0 => burn_of(s) # None
        BY StatementBurn, Zenon
      <4>4. w.new \in Seq(Range(w.new))
        <5>1. CASE w.new = <<>>
          BY <5>1 DEF Range
        <5>2. CASE w.new \in Allocations
          BY <5>2, InputAssumption, Zenon
        <5>3. QED BY <5>1, <5>2 DEF Witnesses, AllocationVectors
      <4> HIDE DEF s
      <4>5. /\ latest' = transition_of(s, w)
            /\ transition_proved(s, w)
        BY <4>2, Zenon DEF s, proved_by
      <4>6. latest'.spent_allocations = w.spent /\ latest'.terms = s.terms
        BY <4>5 DEF transition_of
      <4>7. proof_policy_valid(s.terms.proof_policy)
        <5>1. Continues(latest')
          BY <2>2, <3>1, StepContinues
        <5>2. phase # "none"
          BY <5>1, Zenon DEF Continues
        <5>3. QED BY <4>6, <5>1, <5>2, Linked, Zenon DEF SInv, Present
      <4>8. QED BY <4>3, <4>4, <4>5, <4>6, <4>7, ProofSound, Zenon
    <3>4. QED BY <2>2, <3>1, <3>2, <3>3, StepProof, Zenon
  <2>3. QED BY <2>1, <2>2
<1>3. QED BY <1>1, <1>2, SInvAlways, PTL DEF NftSpec

-----------------------------------------------------------------------------
(* Plans and the records they are kept in.                                  *)

TermsFields == {"chain", "schema_id", "asset_id", "total_supply",
                "metadata_commitment", "lane_id", "privacy_policy", "proof_policy"}
AnchorFields == {"chain", "covenant_outpoint", "covenant_id", "witness_txid",
                 "daa_score", "confirmation_depth"}
AllocationFields == {"anchor", "amount", "encrypted_note_commitment"}
PlanFields == {"terms", "previous_owner_commitment", "new_owner_commitment",
               "ownership_authorization_commitment", "previous_state_digest",
               "spent_allocations", "new_allocation_shapes", "burn"}

AllocationSeq(s) == s \in Seq(Range(s)) /\ \A a \in Range(s) : is_allocation(a)
ShapeSeq(s) == s \in Seq(Range(s)) /\ \A x \in Range(s) : is_shape(x)

is_burn(b) == b = None \/ HasFields(b, {"amount", "authorization_commitment"})

is_plan(p) ==
  /\ HasFields(p, PlanFields)
  /\ is_terms(p.terms)
  /\ AllocationSeq(p.spent_allocations)
  /\ ShapeSeq(p.new_allocation_shapes)
  /\ is_burn(p.burn)

\* The plan of a record: the fields of a plan, with tags for enum values.
is_record_plan(b) ==
  /\ HasFields(b, PlanFields)
  /\ HasFields(b.terms, TermsFields)
  /\ HasFields(b.terms.proof_policy, {"kind", "keys", "images"})
  /\ b.spent_allocations \in Seq(Range(b.spent_allocations))
  /\ \A a \in Range(b.spent_allocations) :
       /\ HasFields(a, AllocationFields) /\ HasFields(a.anchor, AnchorFields)
       /\ a.amount \in Nat
  /\ ShapeSeq(b.new_allocation_shapes)

\* terms, with another writing of its three enum values.
Rewritten(terms, chain, privacy, kind) ==
  [chain |-> chain, schema_id |-> terms.schema_id, asset_id |-> terms.asset_id,
   total_supply |-> terms.total_supply,
   metadata_commitment |-> terms.metadata_commitment, lane_id |-> terms.lane_id,
   privacy_policy |-> privacy,
   proof_policy |-> [kind |-> kind, keys |-> terms.proof_policy.keys,
                     images |-> terms.proof_policy.images]]

Reanchored(a, chain) ==
  [anchor |-> [chain |-> chain, covenant_outpoint |-> a.anchor.covenant_outpoint,
               covenant_id |-> a.anchor.covenant_id,
               witness_txid |-> a.anchor.witness_txid,
               daa_score |-> a.anchor.daa_score,
               confirmation_depth |-> a.anchor.confirmation_depth],
   amount |-> a.amount, encrypted_note_commitment |-> a.encrypted_note_commitment]

Replaced(p, terms, spent, burn) ==
  [terms |-> terms, previous_owner_commitment |-> p.previous_owner_commitment,
   new_owner_commitment |-> p.new_owner_commitment,
   ownership_authorization_commitment |-> p.ownership_authorization_commitment,
   previous_state_digest |-> p.previous_state_digest, spent_allocations |-> spent,
   new_allocation_shapes |-> p.new_allocation_shapes, burn |-> burn]

\* What decoding does to an allocation: only the chain is written differently.
LEMMA AllocationDecoded ==
  ASSUME NEW a, HasFields(a, AllocationFields), HasFields(a.anchor, AnchorFields)
  PROVE  /\ decode_allocation(a) = Reanchored(a, Chains[a.anchor.chain])
         /\ encode_allocation(a) = Reanchored(a, write_chain(a.anchor.chain))
         /\ a = Reanchored(a, a.anchor.chain)
BY DEF decode_allocation, encode_allocation, Reanchored, HasFields, AllocationFields,
       AnchorFields

\* An allocation moved to a chain is an allocation.
LEMMA ReanchoredTyped ==
  ASSUME NEW a, a.amount \in Nat, NEW chain \in Range(Chains)
  PROVE  is_allocation(Reanchored(a, chain))
<1> DEFINE r == Reanchored(a, chain)
<1>1. HasFields(r, {"anchor", "amount", "encrypted_note_commitment"})
  BY Zenon DEF Reanchored, HasFields
<1>2. HasFields(r.anchor, {"chain", "covenant_outpoint", "covenant_id",
                           "witness_txid", "daa_score", "confirmation_depth"})
  BY DEF Reanchored, HasFields
<1>3. r.anchor.chain = chain /\ r.amount = a.amount
  BY Zenon DEF Reanchored
<1> HIDE DEF r
<1>4. QED BY <1>1, <1>2, <1>3, Zenon DEF is_allocation, r

\* What decoding does to a plan.
LEMMA PlanDecoded ==
  ASSUME NEW b, HasFields(b, PlanFields), HasFields(b.terms, TermsFields),
         HasFields(b.terms.proof_policy, {"kind", "keys", "images"})
  PROVE  decode_continuation_plan(b)
           = Replaced(b, Rewritten(b.terms, Chains[b.terms.chain],
                                   Privacy[b.terms.privacy_policy + 1],
                                   Policies[b.terms.proof_policy.kind + 1]),
                      [i \in DOMAIN b.spent_allocations |->
                         decode_allocation(b.spent_allocations[i])],
                      decode_burn(b.burn))
<1> DEFINE spent == [i \in DOMAIN b.spent_allocations |->
                       decode_allocation(b.spent_allocations[i])]
           chain == Chains[b.terms.chain]
           privacy == Privacy[b.terms.privacy_policy + 1]
           kind == Policies[b.terms.proof_policy.kind + 1]
           burn == decode_burn(b.burn)
           policy == decode_policy(b.terms.proof_policy)
           d1 == [b EXCEPT !.terms.chain = chain]
           d2 == [d1 EXCEPT !.terms.privacy_policy = privacy]
           d3 == [d2 EXCEPT !.terms.proof_policy = policy]
<1>1. policy = [kind |-> kind, keys |-> b.terms.proof_policy.keys,
                images |-> b.terms.proof_policy.images]
  BY DEF decode_policy, HasFields
<1>2. decode_continuation_plan(b)
        = [[d3 EXCEPT !.spent_allocations = spent] EXCEPT !.burn = burn]
  BY DEF decode_continuation_plan, HasFields, PlanFields, TermsFields
<1> HIDE DEF spent, chain, privacy, kind, burn, policy
<1>3. d3.terms = [chain |-> chain, schema_id |-> b.terms.schema_id,
                  asset_id |-> b.terms.asset_id,
                  total_supply |-> b.terms.total_supply,
                  metadata_commitment |-> b.terms.metadata_commitment,
                  lane_id |-> b.terms.lane_id, privacy_policy |-> privacy,
                  proof_policy |-> policy]
  BY Zenon DEF HasFields, PlanFields, TermsFields
<1>4. d3 = [b EXCEPT !.terms = d3.terms]
  BY Zenon DEF HasFields, PlanFields
<1> HIDE DEF d1, d2, d3
<1>5. decode_continuation_plan(b) = Replaced(b, d3.terms, spent, burn)
  BY <1>2, <1>4, ZenonT(30) DEF Replaced, HasFields, PlanFields
<1>6. d3.terms = Rewritten(b.terms, chain, privacy, kind)
  BY <1>1, <1>3 DEF Rewritten
<1>7. QED BY <1>5, <1>6, Zenon DEF spent, chain, privacy, kind, burn

\* What encoding does to a plan.
LEMMA PlanEncoded ==
  ASSUME NEW p, HasFields(p, PlanFields), HasFields(p.terms, TermsFields),
         HasFields(p.terms.proof_policy, {"kind", "keys", "images"})
  PROVE  encode_continuation_plan(p)
           = Replaced(p, Rewritten(p.terms, write_chain(p.terms.chain),
                                   encode_privacy(p.terms.privacy_policy),
                                   place(Policies, p.terms.proof_policy.kind) - 1),
                      [i \in DOMAIN p.spent_allocations |->
                         encode_allocation(p.spent_allocations[i])],
                      encode_burn(p.burn))
<1> DEFINE spent == [i \in DOMAIN p.spent_allocations |->
                       encode_allocation(p.spent_allocations[i])]
           chain == write_chain(p.terms.chain)
           privacy == encode_privacy(p.terms.privacy_policy)
           kind == place(Policies, p.terms.proof_policy.kind) - 1
           burn == encode_burn(p.burn)
           policy == encode_policy(p.terms.proof_policy)
           d1 == [p EXCEPT !.terms.chain = chain]
           d2 == [d1 EXCEPT !.terms.privacy_policy = privacy]
           d3 == [d2 EXCEPT !.terms.proof_policy = policy]
<1>1. policy = [kind |-> kind, keys |-> p.terms.proof_policy.keys,
                images |-> p.terms.proof_policy.images]
  BY DEF encode_policy, HasFields
<1>2. encode_continuation_plan(p)
        = [[d3 EXCEPT !.spent_allocations = spent] EXCEPT !.burn = burn]
  BY Zenon DEF encode_continuation_plan, HasFields, PlanFields, TermsFields
<1> HIDE DEF spent, chain, privacy, kind, burn, policy
<1>3. d3.terms = [chain |-> chain, schema_id |-> p.terms.schema_id,
                  asset_id |-> p.terms.asset_id,
                  total_supply |-> p.terms.total_supply,
                  metadata_commitment |-> p.terms.metadata_commitment,
                  lane_id |-> p.terms.lane_id, privacy_policy |-> privacy,
                  proof_policy |-> policy]
  BY Zenon DEF HasFields, PlanFields, TermsFields
<1>4. d3 = [p EXCEPT !.terms = d3.terms]
  BY Zenon DEF HasFields, PlanFields
<1> HIDE DEF d1, d2, d3
<1>5. encode_continuation_plan(p) = Replaced(p, d3.terms, spent, burn)
  BY <1>2, <1>4, ZenonT(30) DEF Replaced, HasFields, PlanFields
<1>6. d3.terms = Rewritten(p.terms, chain, privacy, kind)
  BY <1>1, <1>3 DEF Rewritten
<1>7. QED BY <1>5, <1>6 DEF spent, chain, privacy, kind, burn

\* The fields of a record a Replaced or Rewritten value has.
LEMMA ReplacedFields ==
  ASSUME NEW p, NEW terms, NEW spent, NEW burn, NEW chain, NEW privacy, NEW kind,
         NEW old, terms = Rewritten(old, chain, privacy, kind)
  PROVE  LET r == Replaced(p, terms, spent, burn)
         IN /\ HasFields(r, PlanFields)
            /\ HasFields(r.terms, TermsFields)
            /\ HasFields(r.terms.proof_policy, {"kind", "keys", "images"})
            /\ r.terms = terms /\ r.spent_allocations = spent /\ r.burn = burn
            /\ r.new_allocation_shapes = p.new_allocation_shapes
            /\ terms.chain = chain /\ terms.privacy_policy = privacy
            /\ terms.proof_policy.kind = kind
BY Zenon DEF Replaced, Rewritten, HasFields, PlanFields, TermsFields

\* The range of a sequence whose elements are mapped.
LEMMA MappedSeq ==
  ASSUME NEW s, s \in Seq(Range(s)), NEW t, DOMAIN t = DOMAIN s, NEW T,
         t = [i \in DOMAIN s |-> t[i]], \A i \in DOMAIN s : t[i] \in T
  PROVE  t \in Seq(Range(t)) /\ Range(t) \subseteq T /\ Len(t) = Len(s)
<1>1. DOMAIN s = 1 .. Len(s) /\ Len(s) \in Nat
  OBVIOUS
<1>2. \A i \in DOMAIN t : t[i] \in Range(t)
  BY DEF Range
<1>3. t \in [1 .. Len(s) -> Range(t)]
  BY <1>1, <1>2
<1>4. t \in Seq(Range(t)) /\ Len(t) = Len(s)
  BY <1>1, <1>3
<1>5. Range(t) \subseteq T
  BY Zenon DEF Range
<1>6. QED BY <1>4, <1>5

\* A plan that is read from a record has the types of a plan, whatever the
\* record was made of.
LEMMA DecodedIsPlan ==
  ASSUME NEW b, is_record_plan(b), plan_reads(b)
  PROVE  is_plan(decode_continuation_plan(b))
<1> DEFINE s == b.spent_allocations
           t == [i \in DOMAIN s |-> decode_allocation(s[i])]
           chain == Chains[b.terms.chain]
           privacy == Privacy[b.terms.privacy_policy + 1]
           kind == Policies[b.terms.proof_policy.kind + 1]
           terms == Rewritten(b.terms, chain, privacy, kind)
           d == decode_continuation_plan(b)
<1>1. /\ d = Replaced(b, terms, t, decode_burn(b.burn))
      /\ HasFields(d, PlanFields)
      /\ HasFields(d.terms, TermsFields)
      /\ HasFields(d.terms.proof_policy, {"kind", "keys", "images"})
      /\ d.terms = terms /\ d.spent_allocations = t /\ d.burn = decode_burn(b.burn)
      /\ d.new_allocation_shapes = b.new_allocation_shapes
      /\ terms.chain = chain /\ terms.privacy_policy = privacy
      /\ terms.proof_policy.kind = kind
  <2>1. d = Replaced(b, terms, t, decode_burn(b.burn))
    BY PlanDecoded, Zenon DEF is_record_plan
  <2> HIDE DEF d, chain, privacy, kind, t
  <2>2. QED BY <2>1, ReplacedFields
<1>2. chain \in Range(Chains) /\ privacy \in Range(Privacy) /\ kind \in Range(Policies)
  <2>1. /\ b.terms.chain \in DOMAIN Chains
        /\ b.terms.privacy_policy + 1 \in DOMAIN Privacy
        /\ b.terms.proof_policy.kind + 1 \in DOMAIN Policies
    BY Zenon DEF plan_reads, chain_reads, privacy_reads, policy_reads
  <2>2. QED BY <2>1 DEF Range
<1>3. ASSUME NEW i \in DOMAIN s
      PROVE  is_allocation(t[i])
  <2>1. s[i] \in Range(s)
    BY Zenon DEF Range
  <2>2. /\ HasFields(s[i], AllocationFields) /\ HasFields(s[i].anchor, AnchorFields)
        /\ s[i].amount \in Nat
    BY <2>1 DEF is_record_plan
  <2>3. Chains[s[i].anchor.chain] \in Range(Chains)
    <3>1. s[i].anchor.chain \in DOMAIN Chains
      BY Zenon DEF plan_reads, allocation_reads, chain_reads
    <3>2. QED BY <3>1 DEF Range
  <2>4. t[i] = Reanchored(s[i], Chains[s[i].anchor.chain])
    BY <2>2, AllocationDecoded
  <2> HIDE DEF s, t
  <2>5. QED BY <2>2, <2>3, <2>4, ReanchoredTyped, Zenon
<1>4. AllocationSeq(t)
  <2> DEFINE T == {a \in Range(t) : is_allocation(a)}
  <2>1. \A i \in DOMAIN s : t[i] \in T
    BY <1>3, Zenon DEF Range
  <2>2. s \in Seq(Range(s))
    BY DEF is_record_plan
  <2>3. t = [i \in DOMAIN s |-> t[i]] /\ DOMAIN t = DOMAIN s
    OBVIOUS
  <2> HIDE DEF t, s
  <2>4. t \in Seq(Range(t)) /\ Range(t) \subseteq T
    <3> HIDE DEF T
    <3>1. QED BY <2>1, <2>2, <2>3, MappedSeq, Zenon
  <2>5. QED BY <2>4 DEF AllocationSeq
<1>5. is_burn(decode_burn(b.burn))
  BY Zenon DEF is_burn, decode_burn, HasFields
<1> HIDE DEF d, t, terms, chain, privacy, kind
<1>6. is_terms(d.terms)
  BY <1>1, <1>2 DEF is_terms, TermsFields
<1>7. QED BY <1>1, <1>4, <1>5, <1>6, Zenon DEF is_plan, is_record_plan, d

\* What a plan is written as is the plan of a record.
LEMMA EncodedIsRecordPlan ==
  ASSUME NEW p, is_plan(p)
  PROVE  is_record_plan(encode_continuation_plan(p))
<1> DEFINE s == p.spent_allocations
           t == [i \in DOMAIN s |-> encode_allocation(s[i])]
           chain == write_chain(p.terms.chain)
           privacy == encode_privacy(p.terms.privacy_policy)
           kind == place(Policies, p.terms.proof_policy.kind) - 1
           terms == Rewritten(p.terms, chain, privacy, kind)
           d == encode_continuation_plan(p)
<1>1. /\ HasFields(d, PlanFields)
      /\ HasFields(d.terms, TermsFields)
      /\ HasFields(d.terms.proof_policy, {"kind", "keys", "images"})
      /\ d.spent_allocations = t
      /\ d.new_allocation_shapes = p.new_allocation_shapes
  <2>1. d = Replaced(p, terms, t, encode_burn(p.burn))
    BY PlanEncoded, Zenon DEF is_plan, is_terms, TermsFields
  <2> HIDE DEF d, chain, privacy, kind, t
  <2>2. QED BY <2>1, ReplacedFields
<1> DEFINE ok(a) == /\ HasFields(a, AllocationFields)
                    /\ HasFields(a.anchor, AnchorFields) /\ a.amount \in Nat
<1>2. ASSUME NEW i \in DOMAIN s
      PROVE  ok(t[i])
  <2>1. s[i] \in Range(s)
    BY DEF Range
  <2>2. /\ HasFields(s[i], AllocationFields) /\ HasFields(s[i].anchor, AnchorFields)
        /\ s[i].amount \in Nat
    BY <2>1, Zenon
       DEF is_plan, AllocationSeq, is_allocation, AllocationFields, AnchorFields
  <2>3. t[i] = Reanchored(s[i], write_chain(s[i].anchor.chain))
    BY <2>2, AllocationDecoded
  <2> HIDE DEF s, t
  <2>4. HasFields(t[i], AllocationFields)
    BY <2>3, ZenonT(30) DEF Reanchored, HasFields, AllocationFields
  <2>5. HasFields(t[i].anchor, AnchorFields)
    BY <2>3 DEF Reanchored, HasFields, AnchorFields
  <2>6. t[i].amount = s[i].amount
    BY <2>3 DEF Reanchored
  <2>7. QED BY <2>2, <2>4, <2>5, <2>6, Zenon
<1>3. t \in Seq(Range(t)) /\ \A a \in Range(t) : ok(a)
  <2> DEFINE T == {a \in Range(t) : ok(a)}
  <2>1. \A i \in DOMAIN s : t[i] \in T
    BY <1>2 DEF Range
  <2>2. s \in Seq(Range(s))
    BY DEF is_plan, AllocationSeq
  <2>3. t = [i \in DOMAIN s |-> t[i]] /\ DOMAIN t = DOMAIN s
    OBVIOUS
  <2> HIDE DEF t, s
  <2>4. t \in Seq(Range(t)) /\ Range(t) \subseteq T
    <3> HIDE DEF T
    <3>1. QED BY <2>1, <2>2, <2>3, MappedSeq
  <2>5. QED BY <2>4, Zenon
<1> HIDE DEF d, t, terms, chain, privacy, kind
<1>4. QED BY <1>1, <1>3, Zenon DEF is_record_plan, is_plan, d

\* A plan with other shapes, or with its allocations in another order, is a plan.
LEMMA OtherPlans ==
  ASSUME NEW p, is_plan(p)
  PROVE  /\ \A shapes \in Shapes : is_plan([p EXCEPT !.new_allocation_shapes = shapes])
         /\ LET last == Len(p.spent_allocations)
            IN is_plan([p EXCEPT !.spent_allocations =
                          [i \in DOMAIN @ |-> @[last + 1 - i]]])
<1>1. ASSUME NEW shapes \in Shapes
      PROVE  is_plan([p EXCEPT !.new_allocation_shapes = shapes])
  <2> DEFINE q == [p EXCEPT !.new_allocation_shapes = shapes]
  <2>1. ShapeSeq(shapes)
    BY InputAssumption DEF ShapeSeq
  <2>2. /\ HasFields(q, PlanFields) /\ q.terms = p.terms /\ q.burn = p.burn
        /\ q.spent_allocations = p.spent_allocations
        /\ q.new_allocation_shapes = shapes
    BY DEF is_plan, HasFields, PlanFields
  <2> HIDE DEF q
  <2>3. QED BY <2>1, <2>2, Zenon DEF is_plan, q
<1> DEFINE s == p.spent_allocations
           t == [i \in DOMAIN s |-> s[Len(s) + 1 - i]]
           q == [p EXCEPT !.spent_allocations = t]
<1>2. AllocationSeq(t)
  <2>1. AllocationSeq(s)
    BY DEF is_plan
  <2>2. s \in Seq(Range(s)) /\ Len(s) \in Nat /\ DOMAIN s = 1 .. Len(s)
    BY <2>1 DEF AllocationSeq
  <2>3. t = [i \in DOMAIN s |-> t[i]] /\ DOMAIN t = DOMAIN s
    OBVIOUS
  <2>4. \A i \in DOMAIN s : Len(s) + 1 - i \in DOMAIN s
    BY <2>2
  <2>5. \A i \in DOMAIN s : t[i] \in Range(s)
    BY <2>4 DEF Range
  <2> HIDE DEF s, t
  <2>6. t \in Seq(Range(t)) /\ Range(t) \subseteq Range(s)
    BY <2>2, <2>3, <2>5, MappedSeq, Zenon
  <2>7. QED BY <2>1, <2>6 DEF AllocationSeq
<1>3. /\ HasFields(q, PlanFields) /\ q.terms = p.terms /\ q.burn = p.burn
      /\ q.spent_allocations = t
      /\ q.new_allocation_shapes = p.new_allocation_shapes
  <2> HIDE DEF t
  <2>1. QED BY DEF is_plan, HasFields, PlanFields
<1>4. is_plan(q)
  <2> HIDE DEF q, t
  <2>1. QED BY <1>2, <1>3 DEF is_plan
<1>5. [p EXCEPT !.spent_allocations = [i \in DOMAIN @ |-> @[Len(s) + 1 - i]]] = q
  BY DEF is_plan, HasFields, PlanFields
<1>6. QED BY <1>1, <1>4, <1>5

\* However a record is changed on the way, its plan has the fields of one and
\* its commitment is the one that was written.
LEMMA ReadRecordsTyped ==
  ASSUME NEW plan, is_plan(plan), NEW record \in ReadRecords(plan)
  PROVE  /\ is_record_plan(record.plan)
         /\ record.strategy_commitment = strategy_commitment(plan)
<1> DEFINE r == record_of(strategy_plan(plan))
           b == encode_continuation_plan(plan)
           last == Len(plan.spent_allocations)
           others == {[plan EXCEPT !.new_allocation_shapes = shapes] : shapes \in Shapes}
                       \cup {[plan EXCEPT !.spent_allocations =
                                [i \in DOMAIN @ |-> @[last + 1 - i]]]}
<1>1. r = [tag |-> "rgk:pas:0", version |-> 1, plan |-> b,
           strategy |-> encode_strategy(strategy_for(continuation_report(plan))),
           strategy_commitment |-> strategy_commitment(plan), rest |-> 0]
  BY DEF record_of, strategy_plan
<1>2. is_record_plan(b)
  BY EncodedIsRecordPlan
<1>3. \A p \in others : is_record_plan(encode_continuation_plan(p))
  BY OtherPlans, EncodedIsRecordPlan, Zenon
<1>4. \/ \E p \in others : record = [r EXCEPT !.plan = encode_continuation_plan(p)]
      \/ \E x : record = [r EXCEPT !.plan.burn = x]
      \/ \E x : record = [r EXCEPT !.strategy = x]
      \/ \E x : record = [r EXCEPT !.rest = x]
      \/ \E x : record = [r EXCEPT !.version = x]
      \/ \E x : record = [r EXCEPT !.plan.terms.privacy_policy = x]
      \/ \E x : record = [r EXCEPT !.plan.terms.chain = x]
  <2> HIDE DEF r, others
  <2>1. record \in {[r EXCEPT !.plan = encode_continuation_plan(p)] : p \in others}
       \cup {[r EXCEPT !.plan.burn = x] :
               x \in {encode_burn(y) : y \in Burn}
                      \cup {[r.plan.burn EXCEPT ![1] = 2]}}
       \cup {[r EXCEPT !.strategy = x] :
               x \in {<<0, 1>>, <<0, 6>>, <<1, SegmentCapacity + 1, 1, 1, 1, 6>>}}
       \cup {[r EXCEPT !.rest = 1], [r EXCEPT !.version = 0],
             [r EXCEPT !.plan.terms.privacy_policy = 3],
             [r EXCEPT !.plan.terms.chain = 2]}
    BY Zenon DEF ReadRecords, r, others
  <2>2. QED BY <2>1, Zenon
<1> HIDE DEF others, b
<1>5. ASSUME NEW p \in others, record = [r EXCEPT !.plan = encode_continuation_plan(p)]
      PROVE  is_record_plan(record.plan)
             /\ record.strategy_commitment = strategy_commitment(plan)
  <2>1. /\ record.plan = encode_continuation_plan(p)
        /\ record.strategy_commitment = strategy_commitment(plan)
    BY <1>1, <1>5
  <2>2. QED BY <1>3, <2>1
<1>6. ASSUME NEW x, record = [r EXCEPT !.plan.burn = x]
      PROVE  is_record_plan(record.plan)
             /\ record.strategy_commitment = strategy_commitment(plan)
  <2>1. /\ record.plan = [b EXCEPT !.burn = x]
        /\ record.strategy_commitment = strategy_commitment(plan)
    BY <1>1, <1>6
  <2> DEFINE c == [b EXCEPT !.burn = x]
  <2>2. /\ HasFields(c, PlanFields) /\ c.terms = b.terms
        /\ c.spent_allocations = b.spent_allocations
        /\ c.new_allocation_shapes = b.new_allocation_shapes
    BY <1>2, Zenon DEF is_record_plan, HasFields, PlanFields
  <2> HIDE DEF c
  <2>3. is_record_plan(c)
    BY <1>2, <2>2 DEF is_record_plan
  <2>4. QED BY <2>1, <2>3 DEF c
<1>7. ASSUME NEW x, \/ record = [r EXCEPT !.strategy = x]
                    \/ record = [r EXCEPT !.rest = x]
                    \/ record = [r EXCEPT !.version = x]
      PROVE  is_record_plan(record.plan)
             /\ record.strategy_commitment = strategy_commitment(plan)
  <2>1. record.plan = b /\ record.strategy_commitment = strategy_commitment(plan)
    BY <1>1, <1>7
  <2>2. QED BY <1>2, <2>1
<1>8. ASSUME NEW x, \/ record = [r EXCEPT !.plan.terms.privacy_policy = x]
                    \/ record = [r EXCEPT !.plan.terms.chain = x]
      PROVE  is_record_plan(record.plan)
             /\ record.strategy_commitment = strategy_commitment(plan)
  <2>1. /\ \/ record.plan = [b EXCEPT !.terms.privacy_policy = x]
           \/ record.plan = [b EXCEPT !.terms.chain = x]
        /\ record.strategy_commitment = strategy_commitment(plan)
    BY <1>1, <1>8
  <2> DEFINE c == record.plan
  <2>2. \/ c = [b EXCEPT !.terms = [b.terms EXCEPT !.privacy_policy = x]]
        \/ c = [b EXCEPT !.terms = [b.terms EXCEPT !.chain = x]]
    BY <2>1, <1>2 DEF is_record_plan, HasFields, PlanFields
  <2> HIDE DEF c
  <2>3. /\ HasFields(c, PlanFields)
        /\ \/ c.terms = [b.terms EXCEPT !.privacy_policy = x]
           \/ c.terms = [b.terms EXCEPT !.chain = x]
        /\ c.spent_allocations = b.spent_allocations
        /\ c.new_allocation_shapes = b.new_allocation_shapes
    BY <1>2, <2>2, Zenon DEF is_record_plan, HasFields, PlanFields
  <2>4. HasFields(c.terms, TermsFields) /\ c.terms.proof_policy = b.terms.proof_policy
    BY <1>2, <2>3, Zenon DEF is_record_plan, HasFields, TermsFields
  <2>5. is_record_plan(c)
    BY <1>2, <2>3, <2>4, Zenon DEF is_record_plan
  <2>6. QED BY <2>1, <2>5 DEF c
<1> HIDE DEF r
<1>9. QED BY <1>4, <1>5, <1>6, <1>7, <1>8, Zenon

-----------------------------------------------------------------------------
(* The allocations of a history.                                            *)

\* No allocation is empty and none is there twice.
Whole(s) ==
  /\ \A i \in DOMAIN s : s[i].amount # 0
  /\ \A i, j \in DOMAIN s : s[i] = s[j] => i = j

LiveInv == phase # "none" => AllocationSeq(Live) /\ Whole(Live)

PlansInv == \A p \in plans : is_plan(p) /\ plan_valid(p)

TokenFields == {"collection", "token_index", "metadata_commitment",
                "owner_commitment"}

\* The supply of the asset is the one its token was minted with, and the asset
\* is still that of the token.
TokenInv ==
  /\ phase # "none" => PresentTerms.total_supply = issue.terms.total_supply
  /\ token # None =>
       /\ HasFields(token, TokenFields)
       /\ phase # "none"
       /\ issue.terms.total_supply = 1
       /\ PresentTerms.asset_id = token_id(token)

\* A sequence that is not empty has a first element.
LEMMA FirstInRange ==
  ASSUME NEW s, s \in Seq(Range(s)), s # <<>>
  PROVE  s[1] \in Range(s)
<1>1. 1 \in DOMAIN s
  OBVIOUS
<1>2. QED BY <1>1, Zenon DEF Range

\* A sequence has finitely many elements, so their amounts have a sum.
LEMMA RangeFinite ==
  ASSUME NEW s, s \in Seq(Range(s))
  PROVE  IsFiniteSet(Range(s))
<1>1. \A x \in Range(s) : \E i \in 1 .. Len(s) : s[i] = x
  BY DEF Range
<1>2. QED BY <1>1, Zenon DEF IsFiniteSet

\* The amounts of allocations and of shapes have a sum.
LEMMA SeqAmounts ==
  ASSUME NEW s, AllocationSeq(s) \/ ShapeSeq(s)
  PROVE  Amounts(Range(s))
BY RangeFinite, Zenon DEF AllocationSeq, ShapeSeq, is_allocation, is_shape, Amounts

\* A part of a sequence of allocations is one.
LEMMA PartSeq ==
  ASSUME NEW s, AllocationSeq(s), NEW i \in DOMAIN s, NEW j \in DOMAIN s
  PROVE  AllocationSeq(SubSeq(s, i, j))
<1> DEFINE t == SubSeq(s, i, j)
<1>1. s \in Seq(Range(s)) /\ DOMAIN s = 1 .. Len(s) /\ Len(s) \in Nat
  BY DEF AllocationSeq
<1>2. i \in Nat /\ j \in Nat /\ i \in 1 .. Len(s) /\ j \in 1 .. Len(s)
  BY <1>1
<1>3. t \in Seq(Range(s))
  BY <1>1, <1>2
<1> HIDE DEF t
<1>4. \A k \in DOMAIN t : t[k] \in Range(s)
  BY <1>3
<1>5. t = [k \in DOMAIN t |-> t[k]] /\ DOMAIN t = 1 .. Len(t) /\ Len(t) \in Nat
  BY <1>3
<1>6. Range(t) \subseteq Range(s) /\ \A k \in DOMAIN t : t[k] \in Range(t)
  BY <1>4 DEF Range
<1>7. t \in Seq(Range(t))
  BY <1>5, <1>6
<1>8. QED BY <1>6, <1>7, Zenon DEF AllocationSeq, t

\* What finalize anchors is a sequence of allocations.
LEMMA FinalizedSeq ==
  ASSUME NEW plan, is_plan(plan), NEW txid, NEW depth
  PROVE  AllocationSeq(finalized(plan, txid, 0, depth).new_allocations)
<1> DEFINE s == plan.new_allocation_shapes
           t == [i \in DOMAIN s |-> anchored(plan, s[i], txid, 0, depth)]
           T == {a \in Range(t) : is_allocation(a)}
<1>1. finalized(plan, txid, 0, depth).new_allocations = t
  BY DEF finalized
<1>2. ASSUME NEW i \in DOMAIN s
      PROVE  is_allocation(t[i])
  <2>1. s[i].amount \in Nat
    BY DEF is_plan, ShapeSeq, is_shape, Range
  <2>2. plan.terms.chain \in Range(Chains)
    BY Zenon DEF is_plan, is_terms
  <2> DEFINE a == anchored(plan, s[i], txid, 0, depth)
  <2>3. HasFields(a, {"anchor", "amount", "encrypted_note_commitment"})
    BY Zenon DEF anchored, HasFields
  <2>4. HasFields(a.anchor, {"chain", "covenant_outpoint", "covenant_id",
                             "witness_txid", "daa_score", "confirmation_depth"})
    BY Zenon DEF anchored, HasFields
  <2>5. a.anchor.chain = plan.terms.chain /\ a.amount = s[i].amount
    BY Zenon DEF anchored
  <2>6. is_allocation(a)
    <3> HIDE DEF a
    <3>1. QED BY <2>1, <2>2, <2>3, <2>4, <2>5, Zenon DEF is_allocation
  <2>7. QED BY <2>6, Zenon
<1>3. \A i \in DOMAIN s : t[i] \in T
  BY <1>2 DEF Range
<1>4. s \in Seq(Range(s))
  BY Zenon DEF is_plan, ShapeSeq
<1>5. t = [i \in DOMAIN s |-> t[i]] /\ DOMAIN t = DOMAIN s
  BY Zenon
<1> HIDE DEF t, s
<1>6. t \in Seq(Range(t)) /\ Range(t) \subseteq T
  <2> HIDE DEF T
  <2>1. QED BY <1>3, <1>4, <1>5, MappedSeq
<1>7. QED BY <1>1, <1>6, Zenon DEF AllocationSeq

\* The allocations a caller puts into a record, and none, are allocations.
LEMMA InputSeq ==
  ASSUME NEW s, s \in Allocations \/ s = <<>>
  PROVE  AllocationSeq(s)
<1>1. CASE s = <<>>
  BY <1>1 DEF AllocationSeq, Range
<1>2. CASE s \in Allocations
  BY <1>2, InputAssumption, Zenon DEF AllocationSeq
<1>3. QED BY <1>1, <1>2, Zenon

\* A valid set of allocations is whole.
LEMMA StructureWhole ==
  ASSUME NEW chain, NEW s, validate_allocation_set_structure(chain, s)
  PROVE  Whole(s)
BY DEF validate_allocation_set_structure, Whole

\* So is one a circuit accepts.
LEMMA CircuitWhole ==
  ASSUME NEW s, NEW w, enforce_allocation_transition(s, w)
  PROVE  Whole(w.new)
<1>1. enforce_distinct_outpoints(w.new)
  BY DEF enforce_allocation_transition
<1>2. \A i \in DOMAIN w.new : w.new[i].amount # 0
  <2>1. \A a \in Range(w.new) : a.amount # 0
    BY Zenon DEF enforce_allocation_transition, enforce_allocation_common
  <2>2. QED BY <2>1, Zenon DEF Range
<1>3. QED BY <1>1, <1>2, Zenon DEF Whole, enforce_distinct_outpoints

\* A candidate for a token's next transition brings a sequence of allocations.
LEMMA CandidateSeq ==
  ASSUME PlansInv, NEW t \in Candidates
  PROVE  AllocationSeq(t.new_allocations)
<1>1. ASSUME NEW x, NEW owner, NEW authorization, NEW allocations \in Allocations,
             NEW burn, NEW txid,
             t = TransitionFrom(x, owner, authorization, allocations, burn, txid)
      PROVE  AllocationSeq(t.new_allocations)
  BY <1>1, InputSeq DEF TransitionFrom
<1>2. ASSUME NEW plan \in plans, NEW txid, NEW depth,
             t = finalized(plan, txid, 0, depth)
      PROVE  AllocationSeq(t.new_allocations)
  BY <1>2, FinalizedSeq, Zenon DEF PlansInv
<1>3. QED BY <1>1, <1>2 DEF Candidates

\* Every step leaves sequences of allocations, wherever they come from.
LEMMA StepSeqs ==
  ASSUME PlansInv, NftNext
  PROVE  \/ \E i : issue_asset(i) /\ AllocationSeq(i.allocations)
         \/ \E t : continued_by(t) /\ AllocationSeq(t.new_allocations)
         \/ \E s, w : proved_by(s, w) /\ AllocationSeq(w.new)
         \/ UNCHANGED <<phase, issue, latest>>
<1>1. CASE Issue
  <2>1. PICK terms \in Terms, owner \in Owner, allocations \in Allocations :
          issue_asset([terms |-> terms, owner_commitment |-> owner,
                       allocations |-> allocations])
    BY <1>1, Zenon DEF Issue
  <2>2. AllocationSeq([terms |-> terms, owner_commitment |-> owner,
                       allocations |-> allocations].allocations)
    BY InputSeq, Zenon
  <2>3. QED BY <2>1, <2>2, Zenon
<1>2. CASE Mint
  <2>1. PICK terms \in Terms, owner \in Owner, allocations \in Allocations :
          issue_asset([terms |-> terms, owner_commitment |-> owner,
                       allocations |-> allocations])
    BY <1>2, Zenon DEF Mint
  <2>2. AllocationSeq([terms |-> terms, owner_commitment |-> owner,
                       allocations |-> allocations].allocations)
    BY InputSeq
  <2>3. QED BY <2>1, <2>2
<1>3. CASE Finalize
  BY <1>3, FinalizedSeq, Zenon DEF Finalize, PlansInv
<1>4. CASE Receive
  <2>1. PICK x \in KnownSpendings, owner \in Owner, authorization \in Authorization,
             burn \in Burn, txid \in Txid, allocations \in Allocations :
          continued_by(TransitionFrom(x, owner, authorization, allocations, burn, txid))
    BY <1>4, Zenon DEF Receive
  <2>2. AllocationSeq(TransitionFrom(x, owner, authorization, allocations, burn,
                                     txid).new_allocations)
    BY InputSeq DEF TransitionFrom
  <2>3. QED BY <2>1, <2>2, Zenon
<1>5. CASE ReceiveProof
  <2>1. PICK x, s : \E w \in Witnesses(x.spent_allocations) : proved_by(s, w)
    BY <1>5 DEF ReceiveProof
  <2>2. PICK w \in Witnesses(x.spent_allocations) : proved_by(s, w)
    BY <2>1, Zenon
  <2>3. w.new \in Allocations \/ w.new = <<>>
    <3>1. \A a, b, c : AllocationVectors(a, b, c).new = b
      BY Zenon DEF AllocationVectors
    <3>2. QED BY <3>1 DEF Witnesses
  <2>4. QED BY <2>2, <2>3, InputSeq, Zenon
<1>6. CASE TransferToken \/ SellToken \/ BurnToken
  <2>1. \E t \in Candidates : continued_by(t)
    BY <1>6 DEF TransferToken, SellToken, BurnToken
  <2>2. QED BY <2>1, CandidateSeq, Zenon
<1>7. CASE Plan \/ PlanBurn \/ ReadBack \/ Drop
  BY <1>7, Zenon DEF Plan, PlanBurn, ReadBack, Drop, draw_up
<1>8. QED BY <1>1, <1>2, <1>3, <1>4, <1>5, <1>6, <1>7, Zenon DEF NftNext, AssetNext

\* The live allocations stay whole.
LEMMA LiveKept ==
  ASSUME LiveInv, PlansInv, NftNext
  PROVE  LiveInv'
<1>1. ASSUME NEW i, issue_asset(i), AllocationSeq(i.allocations)
      PROVE  LiveInv'
  <2>1. Live' = i.allocations
    BY <1>1, Zenon DEF issue_asset, Live
  <2>2. Whole(i.allocations)
    BY <1>1, StructureWhole DEF issue_asset, issue_valid
  <2>3. AllocationSeq(Live') /\ Whole(Live')
    BY <1>1, <2>1, <2>2, Zenon
  <2>4. QED BY <2>3, Zenon DEF LiveInv, AllocationSeq, Whole
<1>2. ASSUME NEW t, phase' = "continued", latest' = t,
             AllocationSeq(t.new_allocations), Whole(t.new_allocations)
      PROVE  LiveInv'
  <2>1. Live' = t.new_allocations
    BY <1>2 DEF Live
  <2>2. AllocationSeq(Live') /\ Whole(Live')
    BY <1>2, <2>1
  <2>3. QED BY <2>2 DEF LiveInv, AllocationSeq, Whole
<1>3. ASSUME NEW t, continued_by(t), AllocationSeq(t.new_allocations)
      PROVE  LiveInv'
  <2>1. Whole(t.new_allocations) /\ phase' = "continued" /\ latest' = t
    BY <1>3, StructureWhole, Zenon DEF continued_by, transition_valid
  <2>2. QED BY <1>2, <1>3, <2>1, Zenon
<1>4. ASSUME NEW s, NEW w, proved_by(s, w), AllocationSeq(w.new)
      PROVE  LiveInv'
  <2>1. Whole(w.new) /\ phase' = "continued" /\ latest' = transition_of(s, w)
    BY <1>4, CircuitWhole, Zenon
       DEF proved_by, transition_proved, generate_constraints
  <2>2. transition_of(s, w).new_allocations = w.new
    BY Zenon DEF transition_of
  <2>3. QED BY <1>2, <1>4, <2>1, <2>2, Zenon
<1>5. ASSUME UNCHANGED <<phase, issue, latest>>
      PROVE  LiveInv'
  <2>1. Live' = Live /\ phase' = phase
    BY <1>5 DEF Live
  <2>2. QED BY <2>1, Zenon DEF LiveInv, AllocationSeq, Whole
<1>6. QED BY <1>1, <1>3, <1>4, <1>5, StepSeqs, Zenon

\* A plan drawn up from the live allocations has the types of a plan.
LEMMA DrawnUp ==
  ASSUME LiveInv, phase # "none", NEW x \in KnownSpendings, NEW owner,
         NEW authorization, NEW burn \in Burn, NEW shapes \in Shapes
  PROVE  is_plan(PlanFrom(x, owner, authorization, shapes, burn))
<1> DEFINE p == PlanFrom(x, owner, authorization, shapes, burn)
<1>1. PICK terms \in Terms, o \in Owner, i \in DOMAIN Live, j \in DOMAIN Live :
        x = [terms |-> terms, previous_owner_commitment |-> o,
             previous_state_digest |-> digest,
             spent_allocations |-> SubSeq(Live, i, j)]
  BY DEF KnownSpendings, Spendings
<1>2. AllocationSeq(x.spent_allocations)
  <2>1. AllocationSeq(SubSeq(Live, i, j))
    BY PartSeq, Zenon DEF LiveInv
  <2>2. QED BY <1>1, <2>1, Zenon
<1>3. is_terms(x.terms)
  <2>1. is_terms(terms)
    BY InputAssumption, Zenon
  <2>2. QED BY <1>1, <2>1
<1>4. ShapeSeq(shapes)
  BY InputAssumption, Zenon DEF ShapeSeq
<1>5. is_burn(burn)
  <2>1. CASE burn = None
    BY <2>1 DEF is_burn
  <2>2. CASE burn # None
    <3>1. HasFields(burn, {"amount", "authorization_commitment"})
      BY <2>2, InputAssumption, Zenon
    <3>2. QED BY <3>1 DEF is_burn
  <2>3. QED BY <2>1, <2>2
<1>6. /\ p.terms = x.terms /\ p.spent_allocations = x.spent_allocations
      /\ p.new_allocation_shapes = shapes /\ p.burn = burn
  BY Zenon DEF PlanFrom
<1>7. HasFields(p, PlanFields)
  BY DEF PlanFrom, HasFields, PlanFields
<1> HIDE DEF p
<1>8. QED BY <1>2, <1>3, <1>4, <1>5, <1>6, <1>7, ZenonT(30) DEF is_plan, p

\* The plans kept are valid and have the types of plans.
LEMMA PlansKept ==
  ASSUME LiveInv, PlansInv, NftNext, TokenInv
  PROVE  PlansInv'
<1>1. ASSUME plans' \subseteq plans
      PROVE  PlansInv'
  BY <1>1 DEF PlansInv
<1>2. ASSUME NEW x \in KnownSpendings, NEW owner, NEW authorization,
             NEW burn \in Burn, NEW shapes \in Shapes, phase # "none",
             draw_up(PlanFrom(x, owner, authorization, shapes, burn))
      PROVE  PlansInv'
  <2>1. is_plan(PlanFrom(x, owner, authorization, shapes, burn))
    BY <1>2, DrawnUp, Zenon
  <2> DEFINE p == PlanFrom(x, owner, authorization, shapes, burn)
  <2> HIDE DEF p
  <2>2. plan_valid(p) /\ plans' = plans \cup {p} /\ is_plan(p)
    BY <1>2, <2>1, Zenon DEF draw_up, p
  <2>3. QED BY <2>2, Zenon DEF PlansInv
<1>3. CASE Plan
  BY <1>2, <1>3 DEF Plan
<1>4. CASE PlanBurn
  <2>1. phase # "none"
    BY <1>4, Zenon DEF PlanBurn, TokenInv
  <2>2. QED BY <1>2, <1>4, <2>1, Zenon DEF PlanBurn
<1>5. CASE ReadBack
  <2>1. PICK plan \in plans : \E record \in ReadRecords(plan) :
          /\ record_decodes(record)
          /\ plans' = (plans \ {plan}) \cup {decode_continuation_plan(record.plan)}
    BY <1>5 DEF ReadBack
  <2>2. PICK record \in ReadRecords(plan) :
          /\ record_decodes(record)
          /\ plans' = (plans \ {plan}) \cup {decode_continuation_plan(record.plan)}
    BY <2>1, Zenon
  <2> DEFINE other == decode_continuation_plan(record.plan)
  <2>3. plan_reads(record.plan) /\ plan_valid(other)
    BY <2>2, Zenon DEF record_decodes, has_strategy
  <2>4. is_plan(other)
    BY <2>3, ReadRecordsTyped, DecodedIsPlan, Zenon DEF PlansInv
  <2> HIDE DEF other
  <2>5. plans' = (plans \ {plan}) \cup {other}
    BY <2>2 DEF other
  <2>6. QED BY <2>3, <2>4, <2>5, Zenon DEF PlansInv
<1>6. CASE ~ Plan /\ ~ PlanBurn /\ ~ ReadBack
  <2>1. CASE Issue \/ Mint
    BY <1>1, <2>1, ZenonT(30) DEF Issue, Mint, issue_asset
  <2>2. CASE Finalize \/ Receive \/ TransferToken \/ SellToken \/ BurnToken
    BY <1>1, <2>2 DEF Finalize, Receive, TransferToken, SellToken, BurnToken, continued_by
  <2>3. CASE ReceiveProof
    BY <1>1, <2>3 DEF ReceiveProof, proved_by
  <2>4. CASE Drop
    BY <1>1, <2>4, Zenon DEF Drop
  <2>5. QED BY <1>6, <2>1, <2>2, <2>3, <2>4, Zenon DEF NftNext, AssetNext
<1>7. QED BY <1>3, <1>4, <1>5, <1>6, Zenon

\* The asset of a token keeps its id and its supply of one.
LEMMA TokenKept ==
  ASSUME SInv, TokenInv, NftNext
  PROVE  TokenInv'
<1>1. ASSUME NEW i, issue_asset(i)
      PROVE  /\ token = None /\ phase' # "none"
             /\ PresentTerms' = i.terms /\ issue'.terms = i.terms
  <2>1. token = None
    BY <1>1, Zenon DEF issue_asset, TokenInv
  <2>2. QED BY <1>1, <2>1, Zenon DEF issue_asset, PresentTerms
<1>2. ASSUME NEW t, Continues(t)
      PROVE  /\ phase # "none" /\ phase' # "none" /\ issue' = issue
             /\ PresentTerms'.total_supply = PresentTerms.total_supply
             /\ PresentTerms'.asset_id = PresentTerms.asset_id
  <2>1. phase # "none" /\ phase' = "continued" /\ latest' = t /\ issue' = issue
    BY <1>2 DEF Continues
  <2>2. PresentTerms' = t.terms
    BY <2>1 DEF PresentTerms
  <2>3. QED BY <1>2, <2>1, <2>2, Linked, Zenon
<1>3. ASSUME NEW t, Continues(t), token # None,
             NEW owner, token' = [token EXCEPT !.owner_commitment = owner]
      PROVE  TokenInv'
  <2>1. HasFields(token', TokenFields) /\ token_id(token') = token_id(token)
    BY <1>3 DEF TokenInv, HasFields, TokenFields, token_id
  <2>2. issue.terms.total_supply = 1 /\ PresentTerms.asset_id = token_id(token)
    BY <1>3 DEF TokenInv
  <2>3. PresentTerms.total_supply = issue.terms.total_supply
    BY <1>2, <1>3, Zenon DEF TokenInv
  <2>4. QED BY <1>2, <1>3, <2>1, <2>2, <2>3, Zenon DEF TokenInv, HasFields, token_id
<1>4. ASSUME NEW t, Continues(t), token' = token
      PROVE  TokenInv'
  BY <1>2, <1>4 DEF TokenInv, HasFields, token_id
<1>5. ASSUME NEW t, continued_by(t)
      PROVE  Continues(t)
  BY <1>5, NativeContinues, Zenon DEF SInv
<1>6. CASE Mint
  <2>0. \E spec \in Token : \E i :
          validate_mint_issue(spec, i) /\ issue_asset(i) /\ token' = spec
    BY <1>6 DEF Mint
  <2>spec. PICK spec \in Token : \E i :
             validate_mint_issue(spec, i) /\ issue_asset(i) /\ token' = spec
    BY <2>0
  <2>1. PICK i :
          validate_mint_issue(spec, i) /\ issue_asset(i) /\ token' = spec
    BY <2>spec
  <2>2. HasFields(spec, TokenFields)
    BY TokenAssumption, Zenon DEF TokenFields
  <2>3. i.terms.total_supply = 1 /\ i.terms.asset_id = token_id(spec)
    BY <2>1 DEF validate_mint_issue, nft_terms_match
  <2>4. QED BY <1>1, <2>1, <2>2, <2>3, Zenon DEF TokenInv, HasFields, token_id
<1>7. CASE TransferToken
  BY <1>3, <1>5, <1>7, Zenon DEF TransferToken
<1>8. CASE SellToken
  BY <1>3, <1>5, <1>8, Zenon DEF SellToken
<1>9. CASE BurnToken
  BY <1>4, <1>5, <1>9, Zenon DEF BurnToken
<1>10. CASE (Finalize \/ Receive) /\ UNCHANGED token
  BY <1>4, <1>5, <1>10, Zenon DEF Finalize, Receive
<1>11. CASE ReceiveProof /\ UNCHANGED token
  BY <1>4, <1>11, ProvedContinues, Zenon DEF ReceiveProof
<1>12. CASE Issue /\ UNCHANGED token
  <2>1. PICK i : issue_asset(i)
    BY <1>12 DEF Issue
  <2>2. QED BY <1>1, <1>12, <2>1, Zenon DEF TokenInv
<1>13. CASE (Plan \/ ReadBack \/ Drop \/ PlanBurn) /\ UNCHANGED token
  <2>1. UNCHANGED <<phase, issue, latest, token>>
    BY <1>13, Zenon DEF Plan, ReadBack, Drop, PlanBurn, draw_up
  <2>2. PresentTerms' = PresentTerms
    BY <2>1 DEF PresentTerms
  <2>3. QED BY <2>1, <2>2, Zenon DEF TokenInv, HasFields, token_id
<1>14. QED
  BY <1>6, <1>7, <1>8, <1>9, <1>10, <1>11, <1>12, <1>13, Zenon
     DEF NftNext, AssetNext, PlanBurn

\* The invariant of histories: supply, allocations, plans and token together.
HistoryInv == SInv /\ LiveInv /\ PlansInv /\ TokenInv

\* HistoryInv is inductive.
LEMMA HistoryAlways == NftSpec => []HistoryInv
<1>1. NftInit => LiveInv /\ PlansInv /\ TokenInv
  BY Zenon DEF NftInit, AssetInit, LiveInv, PlansInv, TokenInv
<1>2. SInv /\ (LiveInv /\ PlansInv /\ TokenInv) /\ [NftNext]_nftVars
        => (LiveInv /\ PlansInv /\ TokenInv)'
  <2> SUFFICES ASSUME SInv, LiveInv, PlansInv, TokenInv, [NftNext]_nftVars
      PROVE  LiveInv' /\ PlansInv' /\ TokenInv'
    OBVIOUS
  <2>1. CASE NftNext
    BY <2>1, LiveKept, PlansKept, TokenKept, Zenon
  <2>2. CASE UNCHANGED nftVars
    <3>1. UNCHANGED <<phase, issue, latest, plans, token>>
      BY <2>2 DEF nftVars
    <3>2. Live' = Live /\ PresentTerms' = PresentTerms
      BY <3>1, Zenon DEF Live, PresentTerms
    <3>3. LiveInv'
      BY <3>1, <3>2, Zenon DEF LiveInv, AllocationSeq, Whole
    <3>4. PlansInv'
      BY <3>1 DEF PlansInv
    <3>5. TokenInv'
      BY <3>1, <3>2, Zenon DEF TokenInv, HasFields, token_id
    <3>6. QED BY <3>3, <3>4, <3>5, Zenon
  <2>3. QED BY <2>1, <2>2, Zenon
<1>3. QED BY <1>1, <1>2, SInvAlways, PTL DEF NftSpec, HistoryInv

\* Allocations that are whole and add up to at most one are none or one.
LEMMA AtMostOne ==
  ASSUME FiniteLaws, NEW s, AllocationSeq(s), Whole(s), allocation_total(s) \in {0, 1}
  PROVE  IF allocation_total(s) = 0 THEN s = <<>>
         ELSE Len(s) = 1 /\ s[1].amount = 1
<1> DEFINE R == Range(s)
<1>1. /\ Amounts(R) /\ s \in Seq(R) /\ Len(s) \in Nat /\ DOMAIN s = 1 .. Len(s)
      /\ \A i \in DOMAIN s : s[i] \in R
  BY SeqAmounts DEF AllocationSeq, Range
<1> HIDE DEF R
<1>2. ASSUME NEW i \in DOMAIN s
      PROVE  /\ s[i].amount \in Nat /\ s[i].amount > 0
             /\ amount_sum(R \ {s[i]}) \in Nat
             /\ amount_sum(R) = s[i].amount + amount_sum(R \ {s[i]})
  <2>1. s[i].amount \in Nat /\ s[i].amount # 0
    BY <1>1, Zenon DEF Amounts, Whole
  <2>2. Amounts(R \ {s[i]})
    BY <1>1, AmountsSubset
  <2>3. QED BY <1>1, <2>1, <2>2, SumNat, SumRemove
<1>3. amount_sum(R) \in {0, 1}
  BY DEF allocation_total, R
<1>4. CASE amount_sum(R) = 0
  <2>1. ASSUME NEW i \in DOMAIN s
        PROVE  FALSE
    <3> DEFINE n == s[i].amount
               m == amount_sum(R \ {s[i]})
    <3>1. n \in Nat /\ n > 0 /\ m \in Nat /\ 0 = n + m
      BY <1>2, <1>4, Zenon
    <3> HIDE DEF n, m
    <3>2. QED BY <3>1
  <2>2. s = <<>>
    <3>1. 1 \notin DOMAIN s
      BY <2>1
    <3>2. Len(s) = 0
      BY <1>1, <3>1
    <3>3. QED BY <1>1, <3>2
  <2>3. QED BY <1>4, <2>2, Zenon DEF allocation_total, R
<1>5. CASE amount_sum(R) = 1
  <2>1. s # <<>>
    <3> SUFFICES ASSUME s = <<>>
                 PROVE  FALSE
      OBVIOUS
    <3>1. R = {}
      BY DEF R, Range
    <3>2. QED BY <1>5, <3>1, SumEmpty
  <2>2. 1 \in DOMAIN s
    BY <1>1, <2>1
  <2>3. s[1].amount = 1 /\ amount_sum(R \ {s[1]}) = 0
    <3> DEFINE n == s[1].amount
               m == amount_sum(R \ {s[1]})
    <3>1. n \in Nat /\ n > 0 /\ m \in Nat /\ 1 = n + m
      BY <1>2, <1>5, <2>2, Zenon
    <3>2. n = 1 /\ m = 0
      <4> HIDE DEF n, m
      <4>1. QED BY <3>1
    <3>3. QED BY <3>2, Zenon
  <2>4. ASSUME NEW i \in DOMAIN s, i # 1
        PROVE  FALSE
    <3>1. s[i] \in R \ {s[1]}
      BY <1>1, <2>2, <2>4, Zenon DEF Whole
    <3>2. Amounts(R \ {s[1]}) /\ Amounts((R \ {s[1]}) \ {s[i]})
      BY <1>1, AmountsSubset, Zenon
    <3>3. amount_sum(R \ {s[1]}) = s[i].amount + amount_sum((R \ {s[1]}) \ {s[i]})
      BY <3>1, <3>2, SumRemove, Zenon
    <3>4. amount_sum((R \ {s[1]}) \ {s[i]}) \in Nat
      BY <3>2, SumNat
    <3>5. s[i].amount \in Nat /\ s[i].amount > 0
      BY <1>2, Zenon
    <3>6. QED BY <2>3, <3>3, <3>4, <3>5
  <2>5. Len(s) = 1
    BY <1>1, <2>2, <2>4
  <2>6. QED BY <1>5, <2>3, <2>5 DEF allocation_total, R
<1>6. QED BY <1>3, <1>4, <1>5, Zenon

\* What is left of a token's supply is one allocation or none.
LEMMA TokenHolds ==
  ASSUME FiniteLaws, HistoryInv
  PROVE  TokenStaysWhole
<1> SUFFICES ASSUME token # None
    PROVE  /\ PresentTerms.asset_id = token_id(token)
           /\ \/ Len(Live) = 1 /\ Live[1].amount = 1 /\ burned = 0
              \/ Live = <<>> /\ burned = 1
  BY DEF TokenStaysWhole
<1>1. /\ PresentTerms.asset_id = token_id(token)
      /\ phase # "none" /\ issue.terms.total_supply = 1
  BY Zenon DEF HistoryInv, TokenInv
<1>2. /\ AllocationSeq(Live) /\ Whole(Live) /\ burned \in Nat
      /\ allocation_total(Live) + burned = 1
  BY <1>1, Zenon DEF HistoryInv, LiveInv, SInv, Present
<1>3. allocation_total(Live) \in Nat
  BY <1>2, SeqAmounts, SumNat, Zenon DEF allocation_total
<1>4. allocation_total(Live) \in {0, 1} /\ burned = 1 - allocation_total(Live)
  BY <1>2, <1>3
<1>5. QED BY <1>1, <1>2, <1>4, AtMostOne

-----------------------------------------------------------------------------
(* Plans and what they finalize to.                                         *)

\* What a transition shares with the plan it was finalized from.
Finalizes(t, plan, txid) ==
  /\ t.terms = plan.terms
  /\ t.previous_owner_commitment = plan.previous_owner_commitment
  /\ t.new_owner_commitment = plan.new_owner_commitment
  /\ t.ownership_authorization_commitment = plan.ownership_authorization_commitment
  /\ t.previous_state_digest = plan.previous_state_digest
  /\ t.spent_allocations = plan.spent_allocations
  /\ t.burn = plan.burn
  /\ t.witness_txid = txid

\* The fields of a finalized plan (RgkContinuationPlan::finalize).
LEMMA FinalizedFields ==
  ASSUME NEW plan, NEW txid, NEW depth
  PROVE  Finalizes(finalized(plan, txid, 0, depth), plan, txid)
BY Zenon DEF Finalizes, finalized

\* What an output of it has from its shape, from the plan and from the
\* transaction.
Anchors(a, plan, x, txid, depth) ==
  /\ a.amount = x.amount
  /\ a.encrypted_note_commitment = x.encrypted_note_commitment
  /\ a.anchor.chain = plan.terms.chain
  /\ a.anchor.covenant_id = x.covenant_id
  /\ a.anchor.witness_txid = txid
  /\ a.anchor.confirmation_depth = depth
  /\ a.anchor.covenant_outpoint.transaction_id = txid
  /\ OutpointOf(a).transaction_id = txid
  /\ OutpointOf(a).index = x.output_index

\* The fields of an output of it.
LEMMA AnchoredFields ==
  ASSUME NEW plan, NEW x, NEW txid, NEW depth
  PROVE  Anchors(anchored(plan, x, txid, 0, depth), plan, x, txid, depth)
BY DEF Anchors, anchored, OutpointOf, Outpoint

\* The outputs of a finalized plan are its shapes, one for one: their number,
\* their total and their distinctness are those of the shapes.
LEMMA FinalizedOutputs ==
  ASSUME FiniteLaws, NEW plan, is_plan(plan), plan_valid(plan), NEW txid, NEW depth
  PROVE  LET new == finalized(plan, txid, 0, depth).new_allocations
             shapes == plan.new_allocation_shapes
         IN /\ DOMAIN new = DOMAIN shapes /\ Len(new) = Len(shapes)
            /\ \A i \in DOMAIN new : new[i] = anchored(plan, shapes[i], txid, 0, depth)
            /\ Range(new) = {anchored(plan, x, txid, 0, depth) : x \in Range(shapes)}
            /\ allocation_total(new) = allocation_total(shapes)
            /\ \A i, j \in DOMAIN new : OutpointOf(new[i]) = OutpointOf(new[j]) => i = j
<1> DEFINE new == finalized(plan, txid, 0, depth).new_allocations
           shapes == plan.new_allocation_shapes
           g == [x \in Range(shapes) |-> anchored(plan, x, txid, 0, depth)]
<1>1. new = [i \in DOMAIN shapes |-> anchored(plan, shapes[i], txid, 0, depth)]
  BY DEF finalized
<1>2. shapes \in Seq(Range(shapes))
  BY Zenon DEF is_plan, ShapeSeq
<1>3. \A i, j \in DOMAIN shapes :
        shapes[i].output_index = shapes[j].output_index => i = j
  BY Zenon DEF plan_valid, validate_continuation_shapes_structure
<1>4. Amounts(Range(shapes))
  BY SeqAmounts, Zenon DEF is_plan
<1> HIDE DEF new
<1>5. DOMAIN new = DOMAIN shapes
  BY <1>1, Zenon
<1>6. ASSUME NEW i \in DOMAIN new
      PROVE  new[i] = anchored(plan, shapes[i], txid, 0, depth)
  BY <1>1, Zenon
<1> HIDE DEF shapes
<1>7. Len(new) = Len(shapes)
  <2>1. new = [i \in DOMAIN shapes |-> new[i]] /\ \A i \in DOMAIN shapes : new[i] \in Range(new)
    BY <1>1, <1>5, Zenon DEF Range
  <2>2. QED BY <1>2, <1>5, <2>1, MappedSeq, Zenon
<1>8. Range(new) = {g[x] : x \in Range(shapes)}
  BY <1>5, <1>6, Zenon DEF Range
<1>9. Range(new) = {anchored(plan, x, txid, 0, depth) : x \in Range(shapes)}
  BY <1>8, Zenon
<1>10. \A x \in Range(shapes) : /\ g[x].amount = x.amount
                                /\ OutpointOf(g[x]).index = x.output_index
  <2>1. ASSUME NEW x \in Range(shapes)
        PROVE  g[x].amount = x.amount /\ OutpointOf(g[x]).index = x.output_index
    <3>1. g[x] = anchored(plan, x, txid, 0, depth)
      BY Zenon
    <3>2. Anchors(anchored(plan, x, txid, 0, depth), plan, x, txid, depth)
      BY AnchoredFields, Zenon
    <3>3. QED BY <3>1, <3>2, Zenon DEF Anchors
  <2>2. QED BY <2>1, Zenon
<1> HIDE DEF g
<1>11. ASSUME NEW x \in Range(shapes), NEW y \in Range(shapes), g[x] = g[y]
       PROVE  x = y
  <2>1. PICK i \in DOMAIN shapes : x = shapes[i]
    BY Zenon DEF Range
  <2>2. PICK j \in DOMAIN shapes : y = shapes[j]
    BY Zenon DEF Range
  <2>3. x.output_index = y.output_index
    BY <1>10, <1>11, Zenon
  <2>4. i = j
    BY <1>3, <2>1, <2>2, <2>3, Zenon DEF shapes
  <2>5. QED BY <2>1, <2>2, <2>4, Zenon
<1>12. allocation_total(new) = allocation_total(shapes)
  <2>1. amount_sum({g[x] : x \in Range(shapes)}) = amount_sum(Range(shapes))
    BY <1>4, <1>10, <1>11, SumImage DEF shapes
  <2>2. QED BY <1>8, <2>1, Zenon DEF allocation_total
<1>13. ASSUME NEW i \in DOMAIN new, NEW j \in DOMAIN new,
              OutpointOf(new[i]) = OutpointOf(new[j])
       PROVE  i = j
  <2>1. shapes[i].output_index = shapes[j].output_index
    <3>1. ASSUME NEW k \in DOMAIN new
          PROVE  OutpointOf(new[k]).index = shapes[k].output_index
      <4>1. Anchors(anchored(plan, shapes[k], txid, 0, depth), plan, shapes[k], txid, depth)
        BY AnchoredFields, Zenon
      <4>2. Anchors(new[k], plan, shapes[k], txid, depth)
        BY <1>6, <4>1, Zenon
      <4>3. QED BY <4>2, Zenon DEF Anchors
    <3>2. QED BY <1>13, <3>1, Zenon
  <2>2. QED BY <1>3, <1>5, <2>1, Zenon DEF shapes
<1>14. QED BY <1>5, <1>6, <1>7, <1>9, <1>12, <1>13, Zenon DEF new, shapes

\* A valid plan finalizes into a valid transition with the plan's supplies and
\* counts, in every transaction that created none of what it spends.
LEMMA FinalizedValid ==
  ASSUME FiniteLaws, NEW plan, is_plan(plan), plan_valid(plan), NEW txid, txid # Zero,
         NEW depth, depth # 0,
         txid \notin {OutpointOf(a).transaction_id : a \in Range(plan.spent_allocations)}
  PROVE  LET t == finalized(plan, txid, 0, depth)
         IN /\ transition_valid(t)
            /\ transition_report(t) = continuation_report(plan)
            /\ Len(t.new_allocations) = Len(plan.new_allocation_shapes)
<1> DEFINE t == finalized(plan, txid, 0, depth)
           new == t.new_allocations
           shapes == plan.new_allocation_shapes
<1>1. /\ t.terms = plan.terms
      /\ t.previous_owner_commitment = plan.previous_owner_commitment
      /\ t.new_owner_commitment = plan.new_owner_commitment
      /\ t.ownership_authorization_commitment
           = plan.ownership_authorization_commitment
      /\ t.previous_state_digest = plan.previous_state_digest
      /\ t.spent_allocations = plan.spent_allocations
      /\ t.burn = plan.burn
      /\ t.witness_txid = txid
  <2>1. Finalizes(t, plan, txid)
    BY FinalizedFields, Zenon
  <2>2. QED BY <2>1, Zenon DEF Finalizes
<1>2. /\ DOMAIN new = DOMAIN shapes /\ Len(new) = Len(shapes)
      /\ \A i \in DOMAIN new : new[i] = anchored(plan, shapes[i], txid, 0, depth)
      /\ Range(new) = {anchored(plan, x, txid, 0, depth) : x \in Range(shapes)}
      /\ allocation_total(new) = allocation_total(shapes)
      /\ \A i, j \in DOMAIN new : OutpointOf(new[i]) = OutpointOf(new[j]) => i = j
  BY FinalizedOutputs, Zenon
<1> HIDE DEF t
<1>3. /\ validate_spending(plan)
      /\ validate_continuation_shapes_structure(shapes, plan.burn)
      /\ validate_supply_delta(allocation_total(plan.spent_allocations),
           allocation_total(shapes), plan.burn)
  BY DEF plan_valid
<1>4. validate_spending(t)
  BY <1>1, <1>3, ZenonT(30) DEF validate_spending
<1>5. validate_supply_delta(allocation_total(t.spent_allocations),
        allocation_total(t.new_allocations), t.burn)
  BY <1>1, <1>2, <1>3, ZenonT(30)
<1>6. ASSUME NEW i \in DOMAIN new
      PROVE  /\ new[i].amount # 0
             /\ new[i].anchor.chain = t.terms.chain
             /\ new[i].anchor.covenant_outpoint # NullOutpoint
             /\ new[i].anchor.covenant_id # Zero
             /\ new[i].anchor.witness_txid # Zero
             /\ new[i].encrypted_note_commitment # Zero
             /\ new[i].anchor.confirmation_depth # 0
  <2>1. /\ shapes[i].amount # 0 /\ shapes[i].covenant_id # Zero
        /\ shapes[i].encrypted_note_commitment # Zero
    BY <1>2, <1>3, Zenon DEF validate_continuation_shapes_structure
  <2>2. Anchors(new[i], plan, shapes[i], txid, depth)
    <3>1. Anchors(anchored(plan, shapes[i], txid, 0, depth), plan, shapes[i], txid, depth)
      BY AnchoredFields, Zenon
    <3>2. new[i] = anchored(plan, shapes[i], txid, 0, depth)
      BY <1>2, Zenon
    <3>3. QED BY <3>1, <3>2, Zenon
  <2>3. NullOutpoint.transaction_id = Zero
    BY Zenon DEF NullOutpoint, Outpoint
  <2>4. QED BY <1>1, <2>1, <2>2, <2>3, Zenon DEF Anchors
<1>7. validate_allocation_set_structure(t.terms.chain, new)
  <2>1. allocation_total(new) \in 0 .. MaxU64
    BY <1>2, <1>3, ZenonT(30) DEF validate_continuation_shapes_structure
  <2>2. QED BY <1>2, <1>6, <2>1, ZenonT(30) DEF validate_allocation_set_structure
<1>8. \A a \in Range(new) : OutpointOf(a).transaction_id = txid
  <2>1. ASSUME NEW x
        PROVE  OutpointOf(anchored(plan, x, txid, 0, depth)).transaction_id = txid
    <3>1. Anchors(anchored(plan, x, txid, 0, depth), plan, x, txid, depth)
      BY AnchoredFields, Zenon
    <3>2. QED BY <3>1, Zenon DEF Anchors
  <2>2. QED BY <1>2, <2>1, Zenon
<1>9. {OutpointOf(a) : a \in Range(t.spent_allocations)}
        \cap {OutpointOf(a) : a \in Range(t.new_allocations)} = {}
  BY <1>1, <1>8
<1>10. new_state_digest(t) # t.previous_state_digest
  <2>1. new_state_digest(t).allocations.set = Range(new)
    BY Zenon DEF new_state_digest, state_digest, allocation_root
  <2>2. t.previous_state_digest.allocations.set = Range(plan.spent_allocations)
    <3>1. state_digest(plan.terms, plan.spent_allocations, plan.previous_owner_commitment)
            = plan.previous_state_digest
      BY <1>3, Zenon DEF validate_spending
    <3>2. QED BY <1>1, <3>1 DEF state_digest, allocation_root
  <2>3. Range(plan.spent_allocations) # {}
    BY <1>3 DEF validate_spending
  <2>4. QED BY <1>8, <2>1, <2>2, <2>3, Zenon
<1>11. transition_valid(t)
  BY <1>1, <1>4, <1>5, <1>7, <1>9, <1>10, ZenonT(30) DEF transition_valid
<1>12. transition_report(t) = continuation_report(plan)
  BY <1>1, <1>2, ZenonT(30)
     DEF transition_report, continuation_report, report_of, burn_authorization
<1>13. QED BY <1>2, <1>11, <1>12, Zenon DEF t

\* Every plan of a history finalizes.
LEMMA PlansHold ==
  ASSUME FiniteLaws, HistoryInv
  PROVE  PlansFinalize
<1> SUFFICES ASSUME NEW plan \in plans,
                    NEW txid \in Txid \ {Zero}, NEW depth \in Depth \ {0},
                    txid \notin {OutpointOf(a).transaction_id :
                                   a \in Range(plan.spent_allocations)}
    PROVE  LET t == finalized(plan, txid, 0, depth)
           IN /\ transition_valid(t)
              /\ transition_report(t) = continuation_report(plan)
              /\ has_strategy(plan) => strategy_finalizes(strategy_plan(plan), t)
              /\ validate_for_production_zk(plan) => finalizes_for_production_zk(plan, t)
  BY Zenon DEF PlansFinalize
<1> DEFINE t == finalized(plan, txid, 0, depth)
<1>1. is_plan(plan) /\ plan_valid(plan)
  BY DEF HistoryInv, PlansInv
<1>2. /\ transition_valid(t)
      /\ transition_report(t) = continuation_report(plan)
      /\ Len(t.new_allocations) = Len(plan.new_allocation_shapes)
  BY <1>1, FinalizedValid, ZenonT(30)
<1>3. t.spent_allocations = plan.spent_allocations
  <2>1. Finalizes(t, plan, txid)
    BY FinalizedFields
  <2>2. QED BY <2>1, Zenon DEF Finalizes
<1> HIDE DEF t
<1>4. strategy_finalizes(strategy_plan(plan), t)
  BY <1>1, <1>2, Zenon DEF strategy_finalizes, strategy_plan
<1>5. validate_for_production_zk(plan) => finalizes_for_production_zk(plan, t)
  BY <1>2, <1>3 DEF validate_for_production_zk, finalizes_for_production_zk
<1>6. QED BY <1>2, <1>4, <1>5, ZenonT(30) DEF t

-----------------------------------------------------------------------------
(* Commitments.                                                             *)

\* The continuation commitment fixes the state a plan finalizes to: it holds
\* the terms, the new owner and the set of the shapes (commitment_unchecked).
LEMMA CommitmentState ==
  ASSUME NEW p, NEW q, continuation_commitment(p) = continuation_commitment(q),
         NEW txid, NEW depth
  PROVE  new_state_digest(finalized(p, txid, 0, depth))
           = new_state_digest(finalized(q, txid, 0, depth))
<1> DEFINE tp == finalized(p, txid, 0, depth)
           tq == finalized(q, txid, 0, depth)
           cp == continuation_commitment(p)
           cq == continuation_commitment(q)
<1>1. ASSUME NEW r
      PROVE  Range(finalized(r, txid, 0, depth).new_allocations)
               = {anchored(r, x, txid, 0, depth) : x \in Range(r.new_allocation_shapes)}
  BY ZenonT(30) DEF finalized, Range
<1>2. ASSUME NEW r
      PROVE  LET c == continuation_commitment(r)
             IN /\ c.terms = r.terms
                /\ c.shape_root.shapes = Range(r.new_allocation_shapes)
                /\ c.owners[2] = r.new_owner_commitment
  BY Zenon DEF continuation_commitment, continuation_shape_root
<1>3. /\ p.terms = q.terms /\ p.new_owner_commitment = q.new_owner_commitment
      /\ Range(p.new_allocation_shapes) = Range(q.new_allocation_shapes)
  BY <1>2, Zenon
<1>4. \A x : anchored(p, x, txid, 0, depth) = anchored(q, x, txid, 0, depth)
  BY <1>3 DEF anchored
<1>5. Range(tp.new_allocations) = Range(tq.new_allocations)
  <2>1. {anchored(p, x, txid, 0, depth) : x \in Range(p.new_allocation_shapes)}
          = {anchored(q, x, txid, 0, depth) : x \in Range(q.new_allocation_shapes)}
    BY <1>3, <1>4
  <2>2. QED BY <1>1, <2>1, Zenon
<1>6. tp.terms = tq.terms /\ tp.new_owner_commitment = tq.new_owner_commitment
  <2>1. Finalizes(tp, p, txid) /\ Finalizes(tq, q, txid)
    BY FinalizedFields
  <2>2. QED BY <1>3, <2>1, Zenon DEF Finalizes
<1> HIDE DEF tp, tq
<1>7. QED BY <1>5, <1>6, ZenonT(30)
             DEF new_state_digest, state_digest, allocation_root, tp, tq

\* The place of a value in its table leads back to it.
LEMMA PlaceInverse ==
  ASSUME NEW table, NEW x \in Range(table)
  PROVE  place(table, x) \in DOMAIN table /\ table[place(table, x)] = x
BY DEF place, Range

\* Tags of enum values (write_chain and the encoders of policies).
LEMMA TagsInverse ==
  /\ \A c \in Range(Chains) : /\ write_chain(c) \in DOMAIN Chains
                              /\ Chains[write_chain(c)] = c
  /\ \A c \in Range(Privacy) : /\ encode_privacy(c) + 1 \in DOMAIN Privacy
                               /\ Privacy[encode_privacy(c) + 1] = c
  /\ \A c \in Range(Policies) : /\ place(Policies, c) - 1 + 1 \in DOMAIN Policies
                                /\ Policies[place(Policies, c) - 1 + 1] = c
  /\ \A c \in Range(ProofShapes) : /\ place(ProofShapes, c) - 1 + 1 \in DOMAIN ProofShapes
                                   /\ ProofShapes[place(ProofShapes, c) - 1 + 1] = c
<1>1. DOMAIN Privacy = 1 .. 3 /\ DOMAIN Policies = 1 .. 3 /\ DOMAIN ProofShapes = 1 .. 6
  BY DEF Privacy, Policies, ProofShapes
<1>2. \A n \in 1 .. 6 : n - 1 + 1 = n
  OBVIOUS
<1>3. \A c \in Range(Chains) : /\ write_chain(c) \in DOMAIN Chains
                               /\ Chains[write_chain(c)] = c
  BY PlaceInverse DEF write_chain
<1>4. ASSUME NEW c \in Range(Privacy)
      PROVE  encode_privacy(c) + 1 \in DOMAIN Privacy /\ Privacy[encode_privacy(c) + 1] = c
  <2>1. place(Privacy, c) \in DOMAIN Privacy /\ Privacy[place(Privacy, c)] = c
    BY PlaceInverse, Zenon
  <2>2. place(Privacy, c) - 1 + 1 = place(Privacy, c)
    BY <1>1, <2>1
  <2>3. QED BY <2>1, <2>2, Zenon DEF encode_privacy
<1>5. ASSUME NEW c \in Range(Policies)
      PROVE  /\ place(Policies, c) - 1 + 1 \in DOMAIN Policies
             /\ Policies[place(Policies, c) - 1 + 1] = c
  <2>1. place(Policies, c) \in DOMAIN Policies /\ Policies[place(Policies, c)] = c
    BY PlaceInverse
  <2>2. place(Policies, c) - 1 + 1 = place(Policies, c)
    BY <1>1, <2>1
  <2>3. QED BY <2>1, <2>2, Zenon
<1>6. ASSUME NEW c \in Range(ProofShapes)
      PROVE  /\ place(ProofShapes, c) - 1 + 1 \in DOMAIN ProofShapes
             /\ ProofShapes[place(ProofShapes, c) - 1 + 1] = c
  <2>1. place(ProofShapes, c) \in DOMAIN ProofShapes /\ ProofShapes[place(ProofShapes, c)] = c
    BY PlaceInverse
  <2>2. place(ProofShapes, c) - 1 + 1 = place(ProofShapes, c)
    BY <1>1, <2>1
  <2>3. QED BY <2>1, <2>2
<1>7. QED BY <1>3, <1>4, <1>5, <1>6, Zenon

\* A burn is read back as it was written (encode_burn_record).
LEMMA BurnInverse ==
  ASSUME NEW burn, is_burn(burn)
  PROVE  burn_reads(encode_burn(burn)) /\ decode_burn(encode_burn(burn)) = burn
<1>1. CASE burn = None
  BY <1>1, Zenon DEF encode_burn, burn_reads, decode_burn
<1>2. CASE burn # None
  <2>1. burn = [amount |-> burn.amount,
                authorization_commitment |-> burn.authorization_commitment]
    BY <1>2 DEF is_burn, HasFields
  <2>2. encode_burn(burn) = <<1, burn.amount, burn.authorization_commitment>>
    BY <1>2 DEF encode_burn
  <2>3. burn_reads(encode_burn(burn))
    BY <2>2 DEF burn_reads
  <2>4. decode_burn(encode_burn(burn)) = burn
    BY <2>1, <2>2 DEF decode_burn
  <2>5. QED BY <2>3, <2>4, Zenon
<1>3. QED BY <1>1, <1>2, Zenon

\* A strategy is read back as it was written
\* (encode_production_allocation_strategy).
LEMMA StrategyInverse ==
  ASSUME NEW report, strategy_for(report) # None
  PROVE  LET s == strategy_for(report)
         IN strategy_reads(encode_strategy(s)) /\ decode_strategy(encode_strategy(s)) = s
<1> DEFINE counts == <<report.spent_allocation_count, report.new_allocation_count>>
           s == strategy_for(report)
<1>1. CASE counts \in FixedShapes
  <2>1. s = [kind |-> "FixedAllocationVector", shape |-> counts]
    BY <1>1, Zenon DEF strategy_for
  <2>2. counts \in Range(ProofShapes)
    <3>1. /\ DOMAIN ProofShapes = 1 .. 6
          /\ ProofShapes[1] = <<1, 0>> /\ ProofShapes[2] = <<1, 1>>
          /\ ProofShapes[3] = <<2, 2>> /\ ProofShapes[4] = <<3, 2>>
          /\ ProofShapes[5] = <<4, 2>> /\ ProofShapes[6] = <<4, 4>>
      BY DEF ProofShapes
    <3> HIDE DEF counts
    <3>2. \E i \in 1 .. 6 : counts = ProofShapes[i]
      BY <1>1, <3>1 DEF FixedShapes
    <3>3. QED BY <3>1, <3>2, Zenon DEF Range
  <2> HIDE DEF s, counts
  <2>3. encode_strategy(s) = <<0, place(ProofShapes, counts) - 1>>
    BY <2>1, Zenon DEF encode_strategy
  <2>4. /\ place(ProofShapes, counts) - 1 + 1 \in DOMAIN ProofShapes
        /\ ProofShapes[place(ProofShapes, counts) - 1 + 1] = counts
    BY <2>2, TagsInverse, Zenon
  <2>5. strategy_reads(encode_strategy(s))
    BY <2>3, <2>4 DEF strategy_reads
  <2>6. decode_strategy(encode_strategy(s)) = s
    BY <2>1, <2>3, <2>4 DEF decode_strategy
  <2>7. QED BY <2>5, <2>6, Zenon DEF s
<1>2. CASE counts \notin FixedShapes
  <2>1. PICK a, b, c, d, e :
          s = [kind |-> "SegmentedAllocationAudit", segment_capacity |-> a,
               spent_segments |-> b, new_segments |-> c, exclusion_pairs |-> d,
               groth16_proof_entries |-> e]
    BY <1>2, Zenon DEF strategy_for, segmented_audit_for_report
  <2> HIDE DEF s, counts
  <2>2. encode_strategy(s) = <<1, a, b, c, d, e>>
    BY <2>1, Zenon DEF encode_strategy
  <2>3. strategy_reads(encode_strategy(s))
    BY <2>2 DEF strategy_reads
  <2>4. decode_strategy(encode_strategy(s)) = s
    BY <2>1, <2>2 DEF decode_strategy
  <2>5. QED BY <2>3, <2>4 DEF s
<1>3. QED BY <1>1, <1>2, Zenon

\* An allocation is read back as it was written (encode_covenant_anchor).
LEMMA AllocationInverse ==
  ASSUME NEW a, is_allocation(a)
  PROVE  /\ allocation_reads(encode_allocation(a))
         /\ decode_allocation(encode_allocation(a)) = a
<1> DEFINE chain == write_chain(a.anchor.chain)
           b == encode_allocation(a)
<1>1. /\ HasFields(a, AllocationFields) /\ HasFields(a.anchor, AnchorFields)
      /\ a.anchor.chain \in Range(Chains)
  BY Zenon DEF is_allocation, AllocationFields, AnchorFields
<1>2. b = Reanchored(a, chain) /\ a = Reanchored(a, a.anchor.chain)
  BY <1>1, AllocationDecoded, Zenon
<1>3. chain \in DOMAIN Chains /\ Chains[chain] = a.anchor.chain
  BY <1>1, TagsInverse, Zenon
<1> HIDE DEF b, chain
<1>4. HasFields(b, AllocationFields) /\ HasFields(b.anchor, AnchorFields)
      /\ b.anchor.chain = chain
  BY <1>2, Zenon DEF Reanchored, HasFields, AllocationFields, AnchorFields
<1>5. decode_allocation(b) = Reanchored(b, Chains[chain])
  BY <1>4, AllocationDecoded, Zenon
<1>6. Reanchored(b, a.anchor.chain) = Reanchored(a, a.anchor.chain)
  BY <1>2 DEF Reanchored
<1>7. QED BY <1>2, <1>3, <1>4, <1>5, <1>6, Zenon
             DEF allocation_reads, chain_reads, b

\* A plan is read back as it was written, when its counts fit.
LEMMA PlanInverse ==
  ASSUME NEW p, is_plan(p), counts_fit(p)
  PROVE  /\ plan_reads(encode_continuation_plan(p))
         /\ decode_continuation_plan(encode_continuation_plan(p)) = p
<1> DEFINE s == p.spent_allocations
           t == [i \in DOMAIN s |-> encode_allocation(s[i])]
           chain == write_chain(p.terms.chain)
           privacy == encode_privacy(p.terms.privacy_policy)
           kind == place(Policies, p.terms.proof_policy.kind) - 1
           terms == Rewritten(p.terms, chain, privacy, kind)
           burn == encode_burn(p.burn)
           b == encode_continuation_plan(p)
<1>1. /\ HasFields(p, PlanFields) /\ HasFields(p.terms, TermsFields)
      /\ HasFields(p.terms.proof_policy, {"kind", "keys", "images"})
  BY Zenon DEF is_plan, is_terms, TermsFields
<1>2. b = Replaced(p, terms, t, burn)
  BY <1>1, PlanEncoded
<1>3. /\ chain \in DOMAIN Chains /\ Chains[chain] = p.terms.chain
      /\ privacy + 1 \in DOMAIN Privacy /\ Privacy[privacy + 1] = p.terms.privacy_policy
      /\ kind + 1 \in DOMAIN Policies /\ Policies[kind + 1] = p.terms.proof_policy.kind
  BY TagsInverse, Zenon DEF is_plan, is_terms
<1>4. burn_reads(burn) /\ decode_burn(burn) = p.burn
  BY BurnInverse, Zenon DEF is_plan
<1>5. /\ s \in Seq(Range(s)) /\ DOMAIN t = DOMAIN s /\ t = [i \in DOMAIN s |-> t[i]]
      /\ \A i \in DOMAIN s : t[i] = encode_allocation(s[i])
  BY DEF is_plan, AllocationSeq
<1> HIDE DEF b, t, chain, privacy, kind, burn
<1>6. ASSUME NEW i \in DOMAIN s
      PROVE  allocation_reads(t[i]) /\ decode_allocation(t[i]) = s[i]
  <2>1. is_allocation(s[i])
    BY Zenon DEF is_plan, AllocationSeq, Range
  <2>2. QED BY <1>5, <2>1, AllocationInverse, Zenon
<1>7. Len(t) = Len(s)
  <2>1. \A i \in DOMAIN s : t[i] \in Range(t)
    BY <1>5, Zenon DEF Range
  <2> HIDE DEF s
  <2>2. QED BY <1>5, <2>1, MappedSeq, Zenon
<1>8. [i \in DOMAIN t |-> decode_allocation(t[i])] = s
  <2>1. s = [i \in DOMAIN s |-> s[i]]
    BY <1>5
  <2> HIDE DEF s
  <2>2. QED BY <1>5, <1>6, <2>1, Zenon
<1> HIDE DEF s
<1>9. /\ HasFields(b, PlanFields) /\ HasFields(b.terms, TermsFields)
      /\ HasFields(b.terms.proof_policy, {"kind", "keys", "images"})
      /\ b.terms = terms /\ b.spent_allocations = t /\ b.burn = burn
      /\ b.new_allocation_shapes = p.new_allocation_shapes
      /\ terms.chain = chain /\ terms.privacy_policy = privacy
      /\ terms.proof_policy.kind = kind
  BY <1>2, ReplacedFields
<1>10. terms.proof_policy.images = p.terms.proof_policy.images
  BY DEF Rewritten
<1>11. plan_reads(b)
  <2>1. counts_fit(b)
    <3> HIDE DEF terms
    <3>1. QED BY <1>7, <1>9, <1>10, Zenon DEF counts_fit, s
  <2> HIDE DEF terms
  <2>2. \A i \in DOMAIN b.spent_allocations : allocation_reads(b.spent_allocations[i])
    BY <1>5, <1>6, <1>9, Zenon
  <2>3. QED BY <1>3, <1>4, <1>9, <2>1, <2>2, Zenon
               DEF plan_reads, chain_reads, privacy_reads, policy_reads
<1>12. decode_continuation_plan(b)
         = Replaced(b, Rewritten(terms, p.terms.chain, p.terms.privacy_policy,
                                 p.terms.proof_policy.kind), s, p.burn)
  <2> HIDE DEF terms
  <2>1. decode_continuation_plan(b)
          = Replaced(b, Rewritten(terms, Chains[chain], Privacy[privacy + 1],
                                  Policies[kind + 1]), s, decode_burn(burn))
    BY <1>8, <1>9, PlanDecoded, Zenon
  <2>2. QED BY <1>3, <1>4, <2>1, ZenonT(30)
<1>13. Rewritten(terms, p.terms.chain, p.terms.privacy_policy,
                 p.terms.proof_policy.kind) = p.terms
  <2> DEFINE pt == p.terms
  <2>1. Rewritten(terms, pt.chain, pt.privacy_policy, pt.proof_policy.kind)
          = Rewritten(pt, pt.chain, pt.privacy_policy, pt.proof_policy.kind)
    BY ZenonT(30) DEF Rewritten
  <2>2. Rewritten(pt, pt.chain, pt.privacy_policy, pt.proof_policy.kind) = pt
    <3>1. pt.proof_policy = [kind |-> pt.proof_policy.kind, keys |-> pt.proof_policy.keys,
                             images |-> pt.proof_policy.images]
      BY <1>1, Zenon DEF HasFields
    <3>2. QED BY <1>1, <3>1, Zenon DEF Rewritten, HasFields, TermsFields
  <2>3. QED BY <2>1, <2>2, Zenon
<1> HIDE DEF terms
<1>14. Replaced(b, p.terms, s, p.burn) = p
  <2>1. Replaced(b, p.terms, s, p.burn) = Replaced(p, p.terms, s, p.burn)
    BY <1>2, Zenon DEF Replaced
  <2>2. Replaced(p, p.terms, p.spent_allocations, p.burn) = p
    BY <1>1 DEF Replaced, HasFields, PlanFields
  <2>3. QED BY <2>1, <2>2, Zenon DEF s
<1>15. QED BY <1>11, <1>12, <1>13, <1>14, Zenon DEF b

\* A record that is written is read back (canonical_bytes, decode_canonical).
LEMMA RecordInverse ==
  ASSUME NEW p, is_plan(p), has_strategy(p), encodes(strategy_plan(p))
  PROVE  /\ record_decodes(record_of(strategy_plan(p)))
         /\ decode_continuation_plan(encode_continuation_plan(p)) = p
<1> DEFINE sp == strategy_plan(p)
           r == record_of(sp)
<1>1. /\ sp.continuation_plan = p
      /\ sp.strategy = strategy_for(continuation_report(p))
      /\ sp.strategy_commitment = strategy_commitment(p)
  BY Zenon DEF strategy_plan
<1>2. /\ r.tag = "rgk:pas:0" /\ r.version = 1 /\ r.rest = 0
      /\ r.plan = encode_continuation_plan(p)
      /\ r.strategy = encode_strategy(sp.strategy)
      /\ r.strategy_commitment = sp.strategy_commitment
  BY <1>1, Zenon DEF record_of
<1>3. counts_fit(p) /\ record_size(r) <= MaxBlobBytes
  BY <1>1 DEF encodes
<1>4. plan_reads(r.plan) /\ decode_continuation_plan(r.plan) = p
  BY <1>2, <1>3, PlanInverse, ZenonT(30)
<1>5. strategy_reads(r.strategy) /\ decode_strategy(r.strategy) = sp.strategy
  BY <1>1, <1>2, StrategyInverse, ZenonT(30) DEF has_strategy
<1> HIDE DEF r
<1>6. record_decodes(r)
  BY <1>2, <1>3, <1>4, <1>5, Zenon DEF record_decodes
<1>7. QED BY <1>2, <1>4, <1>6, Zenon DEF r

\* The commitment made before the transaction exists fixes the state after it,
\* in the covenant (validate_against_commitment) and in a plan's record
\* (decode_canonical).
THEOREM CommitmentBinds == NftSpec => []CommitmentFixesState
<1>1. HistoryInv => CommitmentFixesState
  <2> SUFFICES ASSUME HistoryInv, NEW plan \in plans
      PROVE  LET same_state(other) ==
                   \A txid \in Txid, depth \in Depth :
                     new_state_digest(finalized(other, txid, 0, depth))
                       = new_state_digest(finalized(plan, txid, 0, depth))
             IN /\ \A shapes \in Shapes :
                     LET other == [plan EXCEPT !.new_allocation_shapes = shapes]
                     IN validate_against_commitment(other, continuation_commitment(plan))
                          => same_state(other)
                /\ has_strategy(plan) /\ encodes(strategy_plan(plan))
                     => /\ record_decodes(record_of(strategy_plan(plan)))
                        /\ decode_continuation_plan(encode_continuation_plan(plan)) = plan
                        /\ \A record \in ReadRecords(plan) :
                             record_decodes(record)
                               => LET other == decode_continuation_plan(record.plan)
                                  IN /\ continuation_commitment(other)
                                          = continuation_commitment(plan)
                                     /\ strategy_plan(other).strategy
                                          = strategy_plan(plan).strategy
                                     /\ same_state(other)
    BY DEF CommitmentFixesState
  <2> DEFINE same_state(other) ==
               \A txid \in Txid, depth \in Depth :
                 new_state_digest(finalized(other, txid, 0, depth))
                   = new_state_digest(finalized(plan, txid, 0, depth))
  <2>1. is_plan(plan)
    BY Zenon DEF HistoryInv, PlansInv
  <2>2. ASSUME NEW other, continuation_commitment(other) = continuation_commitment(plan)
        PROVE  same_state(other)
    BY <2>2, CommitmentState
  <2>3. ASSUME NEW other,
               validate_against_commitment(other, continuation_commitment(plan))
        PROVE  same_state(other)
    BY <2>2, <2>3, Zenon DEF validate_against_commitment
  <2>4. ASSUME NEW record \in ReadRecords(plan), record_decodes(record)
        PROVE  LET other == decode_continuation_plan(record.plan)
               IN /\ continuation_commitment(other) = continuation_commitment(plan)
                  /\ strategy_plan(other).strategy = strategy_plan(plan).strategy
                  /\ same_state(other)
    <3> DEFINE other == decode_continuation_plan(record.plan)
    <3>1. strategy_plan(other).strategy_commitment = record.strategy_commitment
      BY <2>4, Zenon DEF record_decodes
    <3>2. record.strategy_commitment = strategy_commitment(plan)
      BY <2>1, ReadRecordsTyped, Zenon
    <3> HIDE DEF other
    <3>3. strategy_commitment(other) = strategy_commitment(plan)
      BY <3>1, <3>2, Zenon DEF strategy_plan
    <3>4. /\ continuation_commitment(other) = continuation_commitment(plan)
          /\ strategy_for(continuation_report(other)) = strategy_for(continuation_report(plan))
      <4>1. ASSUME NEW p
            PROVE  /\ strategy_commitment(p)[2] = continuation_commitment(p)
                   /\ strategy_commitment(p)[3] = strategy_for(continuation_report(p))
        BY Zenon DEF strategy_commitment
      <4>2. QED BY <3>3, <4>1, Zenon
    <3>5. strategy_plan(other).strategy = strategy_plan(plan).strategy
      BY <3>4, Zenon DEF strategy_plan
    <3>6. QED BY <2>2, <3>4, <3>5, Zenon DEF other
  <2> HIDE DEF same_state
  <2>5. QED BY <2>1, <2>3, <2>4, RecordInverse, Zenon DEF same_state
<1>2. QED BY <1>1, HistoryAlways, PTL

-----------------------------------------------------------------------------
(* Statements of finalized plans.                                           *)

\* The circuit hashes allocations as they are given; the hash is the native one
\* exactly if they are sorted.
LEMMA OrderNative ==
  ASSUME NEW s
  PROVE  order_of(s) = <<>> <=> sorted(s)
<1>1. sorted(s) => order_of(s) = <<>>
  BY DEF order_of
<1>2. ~ sorted(s) => order_of(s) = s /\ s # <<>>
  BY DEF order_of, sorted
<1>3. QED BY <1>1, <1>2, Zenon

\* The allocations a digest is of.
LEMMA DigestSet ==
  ASSUME NEW terms, NEW x, NEW owner, NEW d, state_digest(terms, x, owner) = d
  PROVE  d.allocations.set = Range(x)
<1>1. state_digest(terms, x, owner).allocations.set = Range(x)
  BY Zenon DEF state_digest, allocation_root
<1>2. QED BY <1>1, Zenon

\* The digest of a circuit is the native one exactly for sorted allocations.
LEMMA DigestNative ==
  ASSUME NEW terms, NEW s, NEW owner
  PROVE  state_digest(terms, s, owner) = circuit_state_digest(terms, s, owner)
           <=> sorted(s)
<1>1. /\ state_digest(terms, s, owner).allocations = [set |-> Range(s), order |-> <<>>]
      /\ circuit_state_digest(terms, s, owner).allocations
           = [set |-> Range(s), order |-> order_of(s)]
  BY Zenon
     DEF state_digest, circuit_state_digest, allocation_root, allocation_root_digest
<1>2. ASSUME state_digest(terms, s, owner) = circuit_state_digest(terms, s, owner)
      PROVE  order_of(s) = <<>>
  <2>1. [set |-> Range(s), order |-> <<>>].order = [set |-> Range(s), order |-> order_of(s)].order
    BY <1>1, <1>2, Zenon
  <2>2. QED BY <2>1
<1>3. ASSUME order_of(s) = <<>>
      PROVE  state_digest(terms, s, owner) = circuit_state_digest(terms, s, owner)
  BY <1>3 DEF state_digest, circuit_state_digest, allocation_root, allocation_root_digest
<1>4. QED BY <1>2, <1>3, OrderNative, Zenon

\* A valid plan spends something, and its burn is what disappears.
LEMMA PlanSupplies ==
  ASSUME FiniteLaws, NEW plan, is_plan(plan), plan_valid(plan)
  PROVE  LET spent == allocation_total(plan.spent_allocations)
             new == allocation_total(plan.new_allocation_shapes)
         IN /\ spent \in 0 .. MaxU64 /\ new \in 0 .. MaxU64
            /\ spent # 0 /\ new <= spent
            /\ spent = new <=> plan.burn = None
            /\ plan.burn # None => /\ plan.burn.amount = spent - new
                                   /\ plan.burn.authorization_commitment # Zero
            /\ plan.new_allocation_shapes = <<>> => plan.burn # None
            /\ Len(plan.spent_allocations) # 0
            /\ (Len(plan.new_allocation_shapes) = 0 => plan.burn # None)
<1> DEFINE s == plan.spent_allocations
           x == plan.new_allocation_shapes
           spent == allocation_total(s)
           new == allocation_total(x)
<1>1. /\ Range(s) # {} /\ validate_allocation_set_structure(plan.terms.chain, s)
      /\ validate_continuation_shapes_structure(x, plan.burn)
      /\ validate_supply_delta(spent, new, plan.burn)
      /\ AllocationSeq(s) /\ ShapeSeq(x)
  BY ZenonT(30) DEF plan_valid, validate_spending, is_plan
<1>2. spent \in 0 .. MaxU64 /\ new \in 0 .. MaxU64 /\ spent \in Nat /\ new \in Nat
  <2>1. spent \in 0 .. MaxU64 /\ new \in 0 .. MaxU64
    BY <1>1, ZenonT(30) DEF validate_allocation_set_structure,
                            validate_continuation_shapes_structure
  <2> HIDE DEF spent, new
  <2>2. QED BY <2>1, AssetAssumption
<1>3. spent # 0
  <2>1. PICK i \in DOMAIN s : s[i] \in Range(s) /\ s[i].amount # 0
    BY <1>1, ZenonT(30) DEF validate_allocation_set_structure, Range
  <2>2. Amounts(Range(s)) /\ s[i].amount \in Nat
    BY <1>1, <2>1, SeqAmounts, Zenon DEF Amounts
  <2>3. amount_sum(Range(s) \ {s[i]}) \in Nat
    BY <2>2, AmountsSubset, SumNat, Zenon
  <2>4. amount_sum(Range(s)) = s[i].amount + amount_sum(Range(s) \ {s[i]})
    BY <2>1, <2>2, SumRemove, Zenon
  <2> DEFINE n == s[i].amount
             m == amount_sum(Range(s) \ {s[i]})
  <2>5. n \in Nat /\ n # 0 /\ m \in Nat /\ spent = n + m
    BY <2>1, <2>2, <2>3, <2>4, Zenon DEF allocation_total
  <2> HIDE DEF n, m, spent
  <2>6. QED BY <2>5
<1>4. Len(s) # 0 /\ (Len(x) = 0 => x = <<>>)
  <2>1. s \in Seq(Range(s)) /\ x \in Seq(Range(x))
    BY <1>1, ZenonT(30) DEF AllocationSeq, ShapeSeq
  <2>2. s # <<>>
    BY <1>1 DEF Range
  <2> HIDE DEF s, x
  <2>3. QED BY <2>1, <2>2
<1>5. x = <<>> => plan.burn # None
  BY <1>1, ZenonT(30) DEF validate_continuation_shapes_structure
<1> HIDE DEF s, x, spent, new
<1>6. /\ new <= spent /\ (spent = new <=> plan.burn = None)
      /\ plan.burn # None => /\ plan.burn.amount = spent - new
                             /\ plan.burn.authorization_commitment # Zero
  BY <1>1, ZenonT(30) DEF validate_supply_delta
<1>7. QED BY <1>2, <1>3, <1>4, <1>5, <1>6, ZenonT(30) DEF s, x, spent, new

\* The witness of a finalized plan: its outputs are again the shapes, and the
\* transaction is the one it was finalized in.
WitnessFits(w, t, plan, txid) ==
  /\ w.spent = plan.spent_allocations /\ w.new = t.new_allocations
  /\ witness_txid_of(w) = txid
  /\ Len(w.new) = Len(plan.new_allocation_shapes)
  /\ w.new = <<>> => w.transition_witness_txid = txid
  /\ w.new # <<>> => w.transition_witness_txid = None
  /\ w.new = <<>> <=> Len(plan.new_allocation_shapes) = 0
  /\ {shape_of(a) : a \in Range(w.new)} = Range(plan.new_allocation_shapes)
  /\ \A a \in Range(w.new) : enforce_new_anchor(w, a)

\* A finalized plan as the circuits see it (from_allocations,
\* terminal_burn_from_allocation).
LEMMA FinalizedWitness ==
  ASSUME FiniteLaws, NEW plan, is_plan(plan), plan_valid(plan), NEW txid, NEW depth
  PROVE  LET t == finalized(plan, txid, 0, depth)
         IN WitnessFits(witness_of(t), t, plan, txid)
<1> DEFINE t == finalized(plan, txid, 0, depth)
           w == witness_of(t)
           new == t.new_allocations
           shapes == plan.new_allocation_shapes
<1>1. t.spent_allocations = plan.spent_allocations /\ t.witness_txid = txid
  <2>1. Finalizes(t, plan, txid)
    BY FinalizedFields, Zenon
  <2>2. QED BY <2>1, Zenon DEF Finalizes
<1>2. /\ DOMAIN new = DOMAIN shapes /\ Len(new) = Len(shapes)
      /\ \A i \in DOMAIN new : new[i] = anchored(plan, shapes[i], txid, 0, depth)
      /\ Range(new) = {anchored(plan, x, txid, 0, depth) : x \in Range(shapes)}
      /\ allocation_total(new) = allocation_total(shapes)
      /\ \A i, j \in DOMAIN new : OutpointOf(new[i]) = OutpointOf(new[j]) => i = j
  BY FinalizedOutputs, Zenon
<1>3. AllocationSeq(new) /\ ShapeSeq(shapes)
  BY FinalizedSeq, Zenon DEF is_plan
<1> HIDE DEF t
<1>4. /\ w.spent = plan.spent_allocations /\ w.new = new
      /\ new = <<>> => w.transition_witness_txid = txid
      /\ new # <<>> => w.transition_witness_txid = None
  BY <1>1 DEF witness_of, AllocationVectors
<1>5. new = <<>> <=> Len(shapes) = 0
  <2>1. new \in Seq(Range(new)) /\ shapes \in Seq(Range(shapes))
    BY <1>3 DEF AllocationSeq, ShapeSeq
  <2> HIDE DEF new, shapes
  <2>2. new = <<>> <=> Len(new) = 0
    BY <2>1
  <2>3. QED BY <1>2, <2>2, Zenon
<1> HIDE DEF w
<1>6. \A a \in Range(new) : /\ a.anchor.witness_txid = txid
                            /\ OutpointOf(a).transaction_id = txid
  <2>1. ASSUME NEW x
        PROVE  LET a == anchored(plan, x, txid, 0, depth)
               IN a.anchor.witness_txid = txid /\ OutpointOf(a).transaction_id = txid
    <3>1. Anchors(anchored(plan, x, txid, 0, depth), plan, x, txid, depth)
      BY AnchoredFields, Zenon
    <3>2. QED BY <3>1, Zenon DEF Anchors
  <2>2. \A a \in Range(new) : \E x : a = anchored(plan, x, txid, 0, depth)
    BY <1>2, Zenon
  <2>3. QED BY <2>1, <2>2, Zenon
<1>7. witness_txid_of(w) = txid
  <2>1. CASE new = <<>>
    BY <1>4, <2>1, Zenon DEF witness_txid_of
  <2>2. CASE new # <<>>
    <3>1. new[1] \in Range(new)
      BY <1>3, <2>2, FirstInRange, Zenon DEF AllocationSeq
    <3>2. QED BY <1>4, <1>6, <2>2, <3>1, Zenon DEF witness_txid_of
  <2>3. QED BY <2>1, <2>2
<1>8. {shape_of(a) : a \in Range(new)} = Range(shapes)
  <2>1. ASSUME NEW x \in Range(shapes)
        PROVE  shape_of(anchored(plan, x, txid, 0, depth)) = x
    <3>1. HasFields(x, {"output_index", "covenant_id", "amount",
                        "encrypted_note_commitment"})
      BY <1>3, Zenon DEF ShapeSeq, is_shape
    <3> DEFINE a == anchored(plan, x, txid, 0, depth)
    <3>2. /\ a.amount = x.amount
          /\ a.encrypted_note_commitment = x.encrypted_note_commitment
          /\ a.anchor.covenant_id = x.covenant_id
          /\ OutpointOf(a).index = x.output_index
      <4>1. Anchors(a, plan, x, txid, depth)
        BY AnchoredFields, Zenon
      <4> HIDE DEF a
      <4>2. QED BY <4>1, Zenon DEF Anchors
    <3> HIDE DEF a
    <3>3. shape_of(a) = x
      BY <3>1, <3>2, Zenon DEF shape_of, HasFields
    <3>4. QED BY <3>3, Zenon DEF a
  <2>2. ASSUME NEW a \in Range(new)
        PROVE  shape_of(a) \in Range(shapes)
    <3>1. PICK x \in Range(shapes) : a = anchored(plan, x, txid, 0, depth)
      BY <1>2, Zenon
    <3>2. QED BY <2>1, <3>1, Zenon
  <2>3. ASSUME NEW x \in Range(shapes)
        PROVE  \E a \in Range(new) : x = shape_of(a)
    <3>1. anchored(plan, x, txid, 0, depth) \in Range(new)
      BY <1>2, Zenon
    <3>2. QED BY <2>1, <3>1, Zenon
  <2>4. QED BY <2>2, <2>3, Zenon
<1>9. \A a \in Range(new) : enforce_new_anchor(w, a)
  BY <1>6, <1>7, Zenon DEF enforce_new_anchor
<1>10. QED BY <1>2, <1>4, <1>5, <1>7, <1>8, <1>9, ZenonT(30) DEF t, w, WitnessFits

\* The statement of a finalized plan is one the validator of statements
\* accepts, if its new allocations are on none of the outpoints it spends and
\* it spends no more than there ever was.
LEMMA PlanStates ==
  ASSUME FiniteLaws, NEW plan, is_plan(plan), plan_valid(plan), NEW txid, NEW depth,
         NEW t, t = finalized(plan, txid, 0, depth),
         allocation_total(t.spent_allocations) <= t.terms.total_supply,
         t.terms.total_supply \in Nat,
         Range(t.spent_allocations) # Range(t.new_allocations),
         NEW s, s = from_reports(t, plan)
  PROVE  reports_agree(t, plan) /\ semantic_valid(s) /\ burn_of(s) = plan.burn
<1> DEFINE spent == allocation_total(plan.spent_allocations)
           new == allocation_total(plan.new_allocation_shapes)
<1>1. /\ t.terms = plan.terms
      /\ t.previous_owner_commitment = plan.previous_owner_commitment
      /\ t.new_owner_commitment = plan.new_owner_commitment
      /\ t.ownership_authorization_commitment
           = plan.ownership_authorization_commitment
      /\ t.previous_state_digest = plan.previous_state_digest
      /\ t.spent_allocations = plan.spent_allocations
      /\ t.burn = plan.burn
      /\ t.witness_txid = txid
  <2>1. Finalizes(t, plan, txid)
    BY FinalizedFields, Zenon
  <2>2. QED BY <2>1, Zenon DEF Finalizes
<1>2. /\ Len(t.new_allocations) = Len(plan.new_allocation_shapes)
      /\ allocation_total(t.new_allocations) = new
  BY FinalizedOutputs, Zenon
<1>3. /\ spent \in 0 .. MaxU64 /\ new \in 0 .. MaxU64
      /\ spent # 0 /\ new <= spent
      /\ spent = new <=> plan.burn = None
      /\ plan.burn # None => /\ plan.burn.amount = spent - new
                             /\ plan.burn.authorization_commitment # Zero
      /\ Len(plan.spent_allocations) # 0
      /\ Len(plan.new_allocation_shapes) = 0 => plan.burn # None
  BY PlanSupplies, ZenonT(30)
<1>a. /\ spent <= t.terms.total_supply /\ t.terms.total_supply \in Nat
      /\ Range(plan.spent_allocations) # Range(t.new_allocations)
  BY <1>1, ZenonT(30)
<1>4. reports_agree(t, plan)
  BY <1>1, <1>2, ZenonT(30)
     DEF reports_agree, transition_report, continuation_report, report_of,
                    burn_authorization
<1>5. /\ s.terms = plan.terms
      /\ s.previous_owner_commitment = plan.previous_owner_commitment
      /\ s.new_owner_commitment = plan.new_owner_commitment
      /\ s.ownership_authorization_commitment = plan.ownership_authorization_commitment
      /\ s.previous_state_digest = plan.previous_state_digest
      /\ s.new_state_digest = new_state_digest(t)
      /\ s.spent_allocation_count = Len(plan.spent_allocations)
      /\ s.new_allocation_count = Len(plan.new_allocation_shapes)
      /\ s.spent_supply = spent /\ s.new_supply = new
      /\ s.burned_supply = spent - new
      /\ s.burn_authorization_commitment = burn_authorization(plan)
  BY <1>1, <1>2, ZenonT(30)
     DEF from_reports, semantic_statement, transition_report, report_of,
                    burn_authorization
<1> HIDE DEF spent, new
<1>6. /\ validate_common(plan.terms)
      /\ plan.previous_owner_commitment # Zero /\ plan.new_owner_commitment # Zero
      /\ validate_ownership_handoff(plan.previous_owner_commitment,
           plan.new_owner_commitment, plan.ownership_authorization_commitment)
      /\ plan.previous_state_digest # Zero
      /\ state_digest(plan.terms, plan.spent_allocations, plan.previous_owner_commitment)
           = plan.previous_state_digest
  BY ZenonT(30) DEF plan_valid, validate_spending
<1>7. new_state_digest(t) # plan.previous_state_digest
  <2>1. new_state_digest(t).allocations.set = Range(t.new_allocations)
    BY ZenonT(30) DEF new_state_digest, state_digest, allocation_root
  <2>2. plan.previous_state_digest.allocations.set = Range(plan.spent_allocations)
    <3>1. state_digest(plan.terms, plan.spent_allocations, plan.previous_owner_commitment)
            = plan.previous_state_digest
      BY <1>6, Zenon
    <3>2. QED BY <3>1, DigestSet
  <2>3. QED BY <1>a, <2>1, <2>2, ZenonT(30)
<1>8. /\ spent \in Nat /\ new \in Nat /\ spent - new \in Nat
      /\ spent = new + (spent - new) /\ (spent - new = 0 <=> plan.burn = None)
      /\ (new # 0 \/ spent - new # 0)
  BY <1>3, AssetAssumption
<1>9. enforce_semantic_layout(s)
  BY <1>3, <1>5, <1>6, <1>7, <1>8, ZenonT(30)
     DEF enforce_semantic_layout, validate_common, validate_ownership_handoff
<1>10. burn_encodes(s)
  BY <1>3, <1>5, <1>8, ZenonT(30) DEF burn_encodes, burn_authorization
<1>11. s.spent_supply <= s.terms.total_supply /\ s.new_supply <= s.terms.total_supply
  BY <1>1, <1>3, <1>5, <1>8, <1>a
<1>12. burn_of(s) = plan.burn
  <2>1. CASE plan.burn = None
    BY <1>5, <1>8, <2>1, ZenonT(30) DEF burn_of
  <2>2. CASE plan.burn # None
    <3>1. plan.burn = [amount |-> plan.burn.amount,
                       authorization_commitment |-> plan.burn.authorization_commitment]
      BY <2>2 DEF is_plan, is_burn, HasFields
    <3>2. s.burned_supply # 0 /\ s.burned_supply = plan.burn.amount
          /\ s.burn_authorization_commitment = plan.burn.authorization_commitment
      BY <1>3, <1>5, <1>8, <2>2, ZenonT(30) DEF burn_authorization
    <3>3. QED BY <3>1, <3>2, Zenon DEF burn_of
  <2>3. QED BY <2>1, <2>2, Zenon
<1>13. QED BY <1>4, <1>9, <1>10, <1>11, <1>12, ZenonT(30) DEF semantic_valid

\* The digests a circuit computes are those of the statement exactly if spent
\* and new allocations are sorted.
LEMMA PlanDigests ==
  ASSUME FiniteLaws, NEW plan, is_plan(plan), plan_valid(plan), NEW txid, NEW depth,
         NEW t, t = finalized(plan, txid, 0, depth), NEW s, s = from_reports(t, plan),
         NEW w, w = witness_of(t), burn_of(s) = plan.burn
  PROVE  enforce_digests(s, w)
           <=> sorted(t.spent_allocations) /\ sorted(t.new_allocations)
<1>1. /\ t.terms = plan.terms
      /\ t.previous_owner_commitment = plan.previous_owner_commitment
      /\ t.new_owner_commitment = plan.new_owner_commitment
      /\ t.ownership_authorization_commitment
           = plan.ownership_authorization_commitment
      /\ t.previous_state_digest = plan.previous_state_digest
      /\ t.spent_allocations = plan.spent_allocations
      /\ t.burn = plan.burn
      /\ t.witness_txid = txid
  <2>1. Finalizes(t, plan, txid)
    BY FinalizedFields
  <2>2. QED BY <2>1, Zenon DEF Finalizes
<1>2. /\ w.spent = plan.spent_allocations /\ w.new = t.new_allocations
      /\ witness_txid_of(w) = txid
      /\ {shape_of(a) : a \in Range(w.new)} = Range(plan.new_allocation_shapes)
  <2>1. WitnessFits(w, t, plan, txid)
    BY FinalizedWitness, Zenon
  <2>2. QED BY <2>1, Zenon DEF WitnessFits
<1>3. burn_of(s) = plan.burn
  OBVIOUS
<1>4. /\ s.terms = t.terms
      /\ s.previous_owner_commitment = t.previous_owner_commitment
      /\ s.new_owner_commitment = t.new_owner_commitment
      /\ s.ownership_authorization_commitment = t.ownership_authorization_commitment
      /\ s.previous_state_digest = t.previous_state_digest
      /\ s.new_state_digest = new_state_digest(t)
      /\ s.transition_digest = transition_digest(t)
      /\ s.continuation_commitment = continuation_commitment(plan)
      /\ s.continuation_shape_root = continuation_shape_root(plan)
  BY Zenon DEF from_reports, semantic_statement, transition_report, report_of
<1>5. s.previous_state_digest
          = circuit_state_digest(s.terms, w.spent, s.previous_owner_commitment)
        <=> sorted(t.spent_allocations)
  <2>1. state_digest(plan.terms, plan.spent_allocations, plan.previous_owner_commitment)
          = plan.previous_state_digest
    BY Zenon DEF plan_valid, validate_spending
  <2>2. /\ w.spent = t.spent_allocations
        /\ s.previous_state_digest
             = state_digest(s.terms, w.spent, s.previous_owner_commitment)
    BY <1>1, <1>2, <1>4, <2>1, Zenon
  <2>3. state_digest(s.terms, w.spent, s.previous_owner_commitment)
            = circuit_state_digest(s.terms, w.spent, s.previous_owner_commitment)
          <=> sorted(w.spent)
    BY DigestNative, Zenon
  <2>4. QED BY <2>2, <2>3, Zenon
<1>6. s.new_state_digest
          = circuit_state_digest(s.terms, w.new, s.new_owner_commitment)
        <=> sorted(t.new_allocations)
  <2>1. new_state_digest(t) = state_digest(t.terms, t.new_allocations, t.new_owner_commitment)
    BY Zenon DEF new_state_digest
  <2>2. /\ w.new = t.new_allocations
        /\ s.new_state_digest = state_digest(s.terms, w.new, s.new_owner_commitment)
    BY <1>2, <1>4, <2>1, Zenon
  <2>3. state_digest(s.terms, w.new, s.new_owner_commitment)
            = circuit_state_digest(s.terms, w.new, s.new_owner_commitment)
          <=> sorted(w.new)
    BY DigestNative, Zenon
  <2>4. QED BY <2>2, <2>3, Zenon
<1>7. ASSUME sorted(t.spent_allocations), sorted(t.new_allocations)
      PROVE  /\ s.continuation_shape_root = continuation_shape_root_digest(s.terms, w.new)
             /\ s.continuation_commitment = continuation_commitment_digest(s, w)
             /\ s.transition_digest = circuit_transition_digest(s, w)
  <2>1. order_of(w.new) = <<>> /\ order_of(w.spent) = <<>>
    BY <1>1, <1>2, <1>7, OrderNative, ZenonT(30)
  <2>2. [i \in DOMAIN order_of(w.new) |-> shape_of(w.new[i])] = <<>>
    BY <2>1
  <2>3. continuation_shape_root_digest(s.terms, w.new)
          = [chain |-> s.terms.chain, shapes |-> {shape_of(a) : a \in Range(w.new)},
             order |-> <<>>]
    BY <2>2, ZenonT(30) DEF continuation_shape_root_digest
  <2>4. continuation_shape_root(plan) = continuation_shape_root_digest(s.terms, w.new)
    BY <1>1, <1>2, <1>4, <2>3, ZenonT(30) DEF continuation_shape_root
  <2>5. allocation_root(plan.spent_allocations) = allocation_root_digest(w.spent)
    BY <1>2, <2>1, ZenonT(30) DEF allocation_root, allocation_root_digest
  <2>6. continuation_commitment(plan) = continuation_commitment_digest(s, w)
    BY <1>1, <1>3, <1>4, <2>4, <2>5, ZenonT(30)
       DEF continuation_commitment, continuation_commitment_digest
  <2>7. transition_digest(t) = circuit_transition_digest(s, w)
    BY <1>1, <1>2, <1>3, <1>4, ZenonT(30)
       DEF transition_digest, circuit_transition_digest
  <2>8. QED BY <1>4, <2>4, <2>6, <2>7, Zenon
<1>8. enforce_digests(s, w) <=> sorted(t.spent_allocations) /\ sorted(t.new_allocations)
  BY <1>5, <1>6, <1>7, ZenonT(30) DEF enforce_digests
<1>9. QED BY <1>8, ZenonT(30)

\* Distinct outpoints have distinct windows in the circuit
\* (enforce_distinct_outpoints compares outpoint and covenant prefix).
LEMMA DistinctWindows ==
  ASSUME NEW s, \A i, j \in DOMAIN s : OutpointOf(s[i]) = OutpointOf(s[j]) => i = j
  PROVE  enforce_distinct_outpoints(s)
BY DEF enforce_distinct_outpoints, outpoint_window

\* A finalized plan can be proved exactly if its shape is fixed and its
\* allocations are sorted.
LEMMA PlanProves ==
  ASSUME FiniteLaws, NEW plan, is_plan(plan), plan_valid(plan), NEW txid, NEW depth,
         txid # Zero, txid # None,
         NEW t, t = finalized(plan, txid, 0, depth),
         allocation_total(t.spent_allocations) <= t.terms.total_supply,
         t.terms.total_supply \in Nat,
         windows(Range(t.spent_allocations)) \cap windows(Range(t.new_allocations)) = {},
         \A a \in Range(t.new_allocations) : a.anchor.confirmation_depth # 0,
         NEW s, s = from_reports(t, plan), NEW w, w = witness_of(t)
  PROVE  /\ reports_agree(t, plan)
         /\ semantic_valid(s)
         /\ transition_proved(s, w) <=>
              /\ validate_for_production_zk(plan)
              /\ sorted(t.spent_allocations)
              /\ sorted(t.new_allocations)
<1> DEFINE new == t.new_allocations
           shapes == plan.new_allocation_shapes
<1>1. /\ t.terms = plan.terms /\ t.spent_allocations = plan.spent_allocations
      /\ t.burn = plan.burn
  <2>1. Finalizes(t, plan, txid)
    BY FinalizedFields, Zenon
  <2>2. QED BY <2>1, Zenon DEF Finalizes
<1>2. /\ DOMAIN new = DOMAIN shapes
      /\ \A i \in DOMAIN new : new[i] = anchored(plan, shapes[i], txid, 0, depth)
      /\ Range(new) = {anchored(plan, x, txid, 0, depth) : x \in Range(shapes)}
      /\ allocation_total(new) = allocation_total(shapes)
      /\ \A i, j \in DOMAIN new : OutpointOf(new[i]) = OutpointOf(new[j]) => i = j
  <2> DEFINE f == finalized(plan, txid, 0, depth).new_allocations
  <2>1. /\ DOMAIN f = DOMAIN shapes /\ Len(f) = Len(shapes)
        /\ \A i \in DOMAIN f : f[i] = anchored(plan, shapes[i], txid, 0, depth)
        /\ Range(f) = {anchored(plan, x, txid, 0, depth) : x \in Range(shapes)}
        /\ allocation_total(f) = allocation_total(shapes)
        /\ \A i, j \in DOMAIN f : OutpointOf(f[i]) = OutpointOf(f[j]) => i = j
    BY FinalizedOutputs, ZenonT(30)
  <2>2. f = new
    BY ZenonT(30)
  <2> HIDE DEF f, new
  <2>3. QED BY <2>1, <2>2, Zenon
<1>3. /\ w.spent = plan.spent_allocations /\ w.new = new
      /\ Len(w.new) = Len(shapes)
      /\ w.new = <<>> => w.transition_witness_txid = txid
      /\ w.new # <<>> => w.transition_witness_txid = None
      /\ w.new = <<>> <=> Len(shapes) = 0
      /\ \A a \in Range(w.new) : enforce_new_anchor(w, a)
  <2>1. WitnessFits(w, t, plan, txid)
    BY FinalizedWitness, Zenon
  <2>2. QED BY <2>1, Zenon DEF WitnessFits
<1>4. Range(plan.spent_allocations) # {}
      /\ validate_allocation_set_structure(plan.terms.chain, plan.spent_allocations)
  BY Zenon DEF plan_valid, validate_spending
<1>a. /\ windows(Range(plan.spent_allocations)) \cap windows(Range(new)) = {}
      /\ \A a \in Range(new) : a.anchor.confirmation_depth # 0
  BY <1>1, ZenonT(30)
<1>5. Range(t.spent_allocations) # Range(t.new_allocations)
  BY <1>1, <1>4, <1>a, ZenonT(30) DEF windows
<1>6. reports_agree(t, plan) /\ semantic_valid(s) /\ burn_of(s) = plan.burn
  BY <1>5, PlanStates, ZenonT(30)
<1>7. enforce_digests(s, w) <=> sorted(t.spent_allocations) /\ sorted(t.new_allocations)
  BY <1>6, PlanDigests, ZenonT(30)
<1>8. /\ s.terms = plan.terms
      /\ s.spent_allocation_count = Len(plan.spent_allocations)
      /\ s.new_allocation_count = Len(new)
      /\ s.spent_supply = allocation_total(plan.spent_allocations)
      /\ s.new_supply = allocation_total(new)
      /\ s.burned_supply = allocation_total(plan.spent_allocations) - allocation_total(new)
  BY <1>1, ZenonT(30)
     DEF from_reports, semantic_statement, transition_report, report_of
<1>9. /\ allocation_total(plan.spent_allocations) \in 0 .. MaxU64
      /\ allocation_total(new) \in 0 .. MaxU64
      /\ allocation_total(new) <= allocation_total(plan.spent_allocations)
      /\ Len(shapes) = 0 => plan.burn # None
  BY <1>2, PlanSupplies, ZenonT(30)
<1>10. enforce_allocation_supply_delta(s, w)
  <2> DEFINE a == allocation_total(plan.spent_allocations)
             b == allocation_total(new)
  <2>1. a \in 0 .. MaxU64 /\ b \in 0 .. MaxU64 /\ b <= a
    BY <1>9, ZenonT(30)
  <2>2. /\ s.spent_supply = a /\ s.new_supply = b /\ s.burned_supply = a - b
        /\ allocation_total(w.spent) = a /\ allocation_total(w.new) = b
    BY <1>3, <1>8, ZenonT(30)
  <2> HIDE DEF a, b
  <2>3. a - b \in 0 .. MaxU64 /\ a = b + (a - b)
    BY <2>1, AssetAssumption
  <2>4. QED BY <2>1, <2>2, <2>3, ZenonT(30) DEF enforce_allocation_supply_delta, U64
<1>11. \A a \in Range(w.spent) : enforce_allocation_common(s.terms.chain, a)
  <2>1. ASSUME NEW i \in DOMAIN plan.spent_allocations
        PROVE  enforce_allocation_common(plan.terms.chain, plan.spent_allocations[i])
    BY <1>4, Zenon DEF validate_allocation_set_structure, enforce_allocation_common
  <2>2. \A a \in Range(plan.spent_allocations) :
          enforce_allocation_common(plan.terms.chain, a)
    BY <2>1, Zenon DEF Range
  <2>3. w.spent = plan.spent_allocations /\ s.terms = plan.terms
    BY <1>3, <1>8, Zenon
  <2>4. QED BY <2>2, <2>3, Zenon
<1>12. \A a \in Range(w.new) : enforce_allocation_common(s.terms.chain, a)
  <2> SUFFICES \A a \in Range(new) : enforce_allocation_common(plan.terms.chain, a)
    <3>1. w.new = new /\ s.terms = plan.terms
      BY <1>3, <1>8, Zenon
    <3>2. QED BY <3>1, Zenon
  <2> SUFFICES ASSUME NEW i \in DOMAIN shapes
               PROVE  enforce_allocation_common(plan.terms.chain, new[i])
    <3>1. \A a \in Range(new) : \E i \in DOMAIN shapes : a = new[i]
      BY <1>2, Zenon DEF Range
    <3>2. QED BY <3>1, Zenon
  <2> DEFINE a == new[i]
  <2>1. /\ shapes[i].amount # 0 /\ shapes[i].covenant_id # Zero
        /\ shapes[i].encrypted_note_commitment # Zero
    BY Zenon DEF plan_valid, validate_continuation_shapes_structure
  <2>2. /\ a.amount = shapes[i].amount
        /\ a.encrypted_note_commitment = shapes[i].encrypted_note_commitment
        /\ a.anchor.chain = plan.terms.chain
        /\ a.anchor.covenant_id = shapes[i].covenant_id
        /\ a.anchor.witness_txid = txid
        /\ a.anchor.covenant_outpoint.transaction_id = txid
    <3>1. Anchors(anchored(plan, shapes[i], txid, 0, depth), plan, shapes[i], txid, depth)
      BY AnchoredFields, Zenon
    <3>2. a = anchored(plan, shapes[i], txid, 0, depth)
      BY <1>2, Zenon
    <3> HIDE DEF a
    <3>3. Anchors(a, plan, shapes[i], txid, depth)
      BY <3>1, <3>2, Zenon
    <3>4. QED BY <3>3, Zenon DEF Anchors
  <2>3. NullOutpoint.transaction_id = Zero
    BY Zenon DEF NullOutpoint, Outpoint
  <2>4. a.anchor.confirmation_depth # 0
    <3>1. new[i] \in Range(new)
      BY <1>2, Zenon DEF Range
    <3>2. QED BY <1>a, <3>1, Zenon
  <2> HIDE DEF a
  <2>5. QED BY <2>1, <2>2, <2>3, <2>4, Zenon DEF enforce_allocation_common, a
<1>13. enforce_distinct_outpoints(w.spent) /\ enforce_distinct_outpoints(w.new)
  <2>1. \A i, j \in DOMAIN w.spent :
          OutpointOf(w.spent[i]) = OutpointOf(w.spent[j]) => i = j
    BY <1>3, <1>4, Zenon DEF validate_allocation_set_structure
  <2>2. \A i, j \in DOMAIN new : OutpointOf(new[i]) = OutpointOf(new[j]) => i = j
    BY <1>2, Zenon
  <2>3. enforce_distinct_outpoints(w.spent) /\ enforce_distinct_outpoints(new)
    BY <2>1, <2>2, DistinctWindows, Zenon
  <2>4. w.new = new
    BY <1>3, Zenon
  <2>5. QED BY <2>3, <2>4, Zenon
<1>14. enforce_spent_anchors_not_reused(Range(w.spent), Range(w.new))
  BY <1>3, <1>a, Zenon DEF enforce_spent_anchors_not_reused
<1>15. /\ Range(w.spent) # {}
       /\ w.new = <<>> => burn_of(s) # None /\ w.transition_witness_txid # Zero
       /\ s.spent_allocation_count = Len(w.spent)
       /\ s.new_allocation_count = Len(w.new)
  BY <1>3, <1>4, <1>6, <1>8, <1>9, ZenonT(30)
<1>16. enforce_allocation_transition(s, w) <=> enforce_digests(s, w)
  BY <1>3, <1>10, <1>11, <1>12, <1>13, <1>14, <1>15, ZenonT(30)
     DEF enforce_allocation_transition
<1>17. enforce_semantic_layout(s) /\ burn_encodes(s)
  BY <1>6, ZenonT(30) DEF semantic_valid
<1>18. witness_supported(w)
         <=> <<Len(plan.spent_allocations), Len(shapes)>> \in FixedShapes
  BY <1>3, ZenonT(30) DEF witness_supported
<1>19. transition_proved(s, w)
         <=> /\ <<Len(plan.spent_allocations), Len(shapes)>> \in FixedShapes
             /\ enforce_digests(s, w)
  BY <1>15, <1>16, <1>17, <1>18, Zenon
     DEF transition_proved, from_statement_and_witness, generate_constraints
<1>20. QED BY <1>6, <1>7, <1>19, ZenonT(30) DEF validate_for_production_zk

\* Different outpoints have different windows.
LEMMA OtherWindows ==
  ASSUME NEW S, NEW N,
         {OutpointOf(a) : a \in S} \cap {OutpointOf(a) : a \in N} = {}
  PROVE  windows(S) \cap windows(N) = {}
<1>1. ASSUME NEW a, NEW b, outpoint_window(a) = outpoint_window(b)
      PROVE  OutpointOf(a) = OutpointOf(b)
  BY <1>1 DEF outpoint_window
<1>2. ASSUME NEW a \in S, NEW b \in N
      PROVE  OutpointOf(a) # OutpointOf(b)
  BY Zenon
<1>3. ASSUME NEW x, x \in windows(S), x \in windows(N)
      PROVE  FALSE
  <2>1. PICK a \in S : x = outpoint_window(a)
    BY <1>3, Zenon DEF windows
  <2>2. PICK b \in N : x = outpoint_window(b)
    BY <1>3, Zenon DEF windows
  <2>3. QED BY <1>1, <1>2, <2>1, <2>2, Zenon
<1>4. QED BY <1>3, Zenon

\* A step that finalizes a plan.
LEMMA PlanStepProves ==
  ASSUME FiniteLaws, HistoryInv, NftNext, NEW plan \in plans, latest' # latest,
         NEW txid \in Txid, NEW depth \in Depth,
         latest' = finalized(plan, txid, 0, depth)
  PROVE  /\ reports_agree(latest', plan)
         /\ semantic_valid(from_reports(latest', plan))
         /\ transition_proved(from_reports(latest', plan), witness_of(latest')) <=>
              /\ validate_for_production_zk(plan)
              /\ sorted(latest'.spent_allocations)
              /\ sorted(latest'.new_allocations)
<1>1. is_plan(plan) /\ plan_valid(plan)
  BY Zenon DEF HistoryInv, PlansInv
<1>2. Continues(latest')
  BY StepContinues DEF HistoryInv
<1>3. /\ phase # "none" /\ Range(latest'.spent_allocations) = Range(Live)
      /\ latest'.terms.total_supply = PresentTerms.total_supply
  BY <1>2, Linked, ZenonT(30) DEF Continues, HistoryInv
<1>4. /\ allocation_total(latest'.spent_allocations) <= latest'.terms.total_supply
      /\ latest'.terms.total_supply \in Nat
  <2>1. /\ allocation_total(Live) + burned = issue.terms.total_supply
        /\ burned \in Nat /\ AllocationSeq(Live)
        /\ PresentTerms.total_supply = issue.terms.total_supply
    BY <1>3, Zenon DEF HistoryInv, SInv, Present, LiveInv, TokenInv
  <2>2. allocation_total(Live) \in Nat
    BY <2>1, SeqAmounts, SumNat, Zenon DEF allocation_total
  <2>3. allocation_total(latest'.spent_allocations) = allocation_total(Live)
    BY <1>3, Zenon DEF allocation_total
  <2>4. latest'.terms.total_supply = issue.terms.total_supply
    BY <1>3, <2>1, Zenon
  <2> DEFINE live == allocation_total(Live)
             supply == issue.terms.total_supply
  <2>5. live + burned = supply /\ live \in Nat /\ burned \in Nat
    BY <2>1, <2>2, Zenon
  <2> HIDE DEF live, supply
  <2>6. live <= supply /\ supply \in Nat
    BY <2>5
  <2>7. QED BY <2>3, <2>4, <2>6, Zenon DEF live, supply
<1>5. /\ latest'.witness_txid \notin {Zero, None}
      /\ windows(Range(latest'.spent_allocations))
           \cap windows(Range(latest'.new_allocations)) = {}
      /\ \A a \in Range(latest'.new_allocations) : a.anchor.confirmation_depth # 0
  <2>1. ASSUME NEW t, continued_by(t)
        PROVE  /\ t.witness_txid # Zero
               /\ windows(Range(t.spent_allocations))
                    \cap windows(Range(t.new_allocations)) = {}
               /\ \A a \in Range(t.new_allocations) : a.anchor.confirmation_depth # 0
               /\ latest' = t
    <3>1. transition_valid(t) /\ latest' = t
      BY <2>1, Zenon DEF continued_by
    <3>2. windows(Range(t.spent_allocations)) \cap windows(Range(t.new_allocations)) = {}
      <4>1. {OutpointOf(a) : a \in Range(t.spent_allocations)}
              \cap {OutpointOf(a) : a \in Range(t.new_allocations)} = {}
        BY <3>1, Zenon DEF transition_valid
      <4>2. QED BY <4>1, OtherWindows, Zenon
    <3>3. \A a \in Range(t.new_allocations) : a.anchor.confirmation_depth # 0
      BY <3>1, Zenon
         DEF transition_valid, validate_allocation_set_structure, Range
    <3>4. QED BY <3>1, <3>2, <3>3, Zenon DEF transition_valid
  <2>2. ASSUME NEW s, NEW w, proved_by(s, w), AllocationSeq(w.new)
        PROVE  LET t == transition_of(s, w)
               IN /\ t.witness_txid # Zero
                  /\ windows(Range(t.spent_allocations))
                       \cap windows(Range(t.new_allocations)) = {}
                  /\ \A a \in Range(t.new_allocations) : a.anchor.confirmation_depth # 0
                  /\ latest' = t
    <3>1. /\ enforce_allocation_transition(s, w) /\ witness_supported(w)
          /\ latest' = transition_of(s, w)
      BY <2>2 DEF proved_by, transition_proved, from_statement_and_witness,
                  generate_constraints
    <3>2. /\ windows(Range(w.spent)) \cap windows(Range(w.new)) = {}
          /\ \A a \in Range(w.new) : /\ a.anchor.confirmation_depth # 0
                                     /\ a.anchor.witness_txid # Zero
      BY <3>1, ZenonT(30)
         DEF enforce_allocation_transition, enforce_spent_anchors_not_reused,
                  enforce_allocation_common
    <3>3. witness_txid_of(w) # Zero
      <4>1. CASE w.new = <<>>
        BY <3>1, <4>1, Zenon DEF witness_supported, witness_txid_of
      <4>2. CASE w.new # <<>>
        <5>1. w.new[1] \in Range(w.new)
          BY <2>2, <4>2, FirstInRange, Zenon DEF AllocationSeq
        <5>2. QED BY <3>2, <4>2, <5>1, Zenon DEF witness_txid_of
      <4>3. QED BY <4>1, <4>2, Zenon
    <3>4. /\ transition_of(s, w).witness_txid = witness_txid_of(w)
          /\ transition_of(s, w).spent_allocations = w.spent
          /\ transition_of(s, w).new_allocations = w.new
      BY Zenon DEF transition_of
    <3>5. QED BY <3>1, <3>2, <3>3, <3>4, Zenon
  <2>3. ~ \E i : issue_asset(i)
    BY DEF issue_asset
  <2>4. txid # None
    BY InputAssumption, Zenon
  <2>5. latest'.witness_txid = txid
    <3>1. Finalizes(latest', plan, txid)
      BY FinalizedFields, Zenon
    <3>2. QED BY <3>1, Zenon DEF Finalizes
  <2>6. QED BY <2>1, <2>2, <2>3, <2>4, <2>5, StepSeqs, ZenonT(30) DEF HistoryInv
<1>6. latest'.witness_txid = txid
  <2>1. Finalizes(latest', plan, txid)
    BY FinalizedFields
  <2>2. QED BY <2>1, Zenon DEF Finalizes
<1>7. QED BY <1>1, <1>4, <1>5, <1>6, PlanProves, ZenonT(30)

-----------------------------------------------------------------------------
(* Finite sets from the library, and the theorems that rest on sums.        *)

Sets == INSTANCE FiniteSetTheorems

\* The library's finite sets are those of the model.
LEMMA SameSets ==
  \A S : /\ Sets!Cardinality(S) = Cardinality(S)
         /\ Sets!IsFiniteSet(S) <=> IsFiniteSet(S)
BY Zenon DEF Sets!Cardinality, Cardinality, Sets!IsFiniteSet, IsFiniteSet

\* The numbers are well-founded.
LEMMA NumbersHaveLeast ==
  \A T \in SUBSET Nat : T # {} => \E x \in T : \A y \in T : x <= y
<1> DEFINE less == {ss \in Nat \X Nat : ss[1] < ss[2]}
<1>1. Sets!IsWellFoundedOn(less, Nat)
  BY Sets!NatLessThanWellFounded DEF Sets!OpToRel
<1>2. \A x, y \in Nat : ~ (<<y, x>> \in less) => x <= y
  OBVIOUS
<1> HIDE DEF less
<1>3. ASSUME NEW T \in SUBSET Nat, T # {}
      PROVE  \E x \in T : \A y \in T : x <= y
  <2>1. T \subseteq Nat
    OBVIOUS
  <2>2. PICK x \in T : \A y \in T : ~ (<<y, x>> \in less)
    BY <1>1, <1>3, <2>1, Sets!WFMin, Zenon
  <2>3. x \in Nat /\ \A y \in T : y \in Nat
    BY <2>1, Zenon
  <2>4. \A y \in T : x <= y
    BY <1>2, <2>2, <2>3, Zenon
  <2>5. QED BY <2>4, Zenon
<1>4. QED BY <1>3, Zenon

\* What the lemmas assume of finite sets holds.
LEMMA FiniteLawsHold == FiniteLaws
<1>1. IsFiniteSet({})
  BY Sets!FS_EmptySet, SameSets, Zenon
<1>2. ASSUME NEW S, IsFiniteSet(S)
      PROVE  /\ Cardinality(S) \in Nat
             /\ Cardinality(S) = 0 => S = {}
             /\ \A R \in SUBSET S : IsFiniteSet(R) /\ Cardinality(R) <= Cardinality(S)
             /\ \A x : IsFiniteSet(S \cup {x})
             /\ \A x \in S : Cardinality(S \ {x}) = Cardinality(S) - 1
  <2>1. Sets!IsFiniteSet(S)
    BY <1>2, SameSets, Zenon
  <2>2. Cardinality(S) \in Nat
    BY <2>1, Sets!FS_CardinalityType, SameSets, Zenon
  <2>3. Cardinality(S) = 0 => S = {}
    BY <2>1, Sets!FS_EmptySet, SameSets, Zenon
  <2>4. ASSUME NEW R \in SUBSET S
        PROVE  IsFiniteSet(R) /\ Cardinality(R) <= Cardinality(S)
    BY <2>1, Sets!FS_Subset, SameSets, Zenon
  <2>5. ASSUME NEW x
        PROVE  IsFiniteSet(S \cup {x})
    BY <2>1, Sets!FS_AddElement, SameSets, Zenon
  <2>6. ASSUME NEW x \in S
        PROVE  Cardinality(S \ {x}) = Cardinality(S) - 1
    BY <2>1, Sets!FS_RemoveElement, SameSets, Zenon
  <2>7. QED BY <2>2, <2>3, <2>4, <2>5, <2>6, Zenon
<1>3. QED BY <1>1, <1>2, NumbersHaveLeast, Zenon DEF FiniteLaws

\* A minted token stays one allocation of amount 1 under its id until it is
\* burned (validate_single_nft_allocation is called by the NFT validators only;
\* a plain transition is held by the digest, by validate_supply_delta and by
\* distinct outpoints).
THEOREM TokenWhole == NftSpec => []TokenStaysWhole
<1>1. HistoryInv => TokenStaysWhole
  BY TokenHolds, FiniteLawsHold, Zenon
<1>2. QED BY <1>1, HistoryAlways, PTL

\* A plan is only ever refused for what its transaction brings
\* (RgkContinuationPlan::validate and finalize, the production strategies).
THEOREM PlansAlwaysFinalize == NftSpec => []PlansFinalize
<1>1. HistoryInv => PlansFinalize
  BY PlansHold, FiniteLawsHold, Zenon
<1>2. QED BY <1>1, HistoryAlways, PTL

\* A step that finalizes a plan of a fixed shape can be proved exactly if its
\* allocations are in canonical order (SemanticTransitionStatement::validate,
\* SupportedAllocationVectorCircuit), however the step itself arrived.
THEOREM PlansProve == NftSpec => PlansProveInOrder
<1> DEFINE A ==
      \A plan \in plans :
        LET t == latest'
            s == from_reports(t, plan)
        IN latest' # latest
             /\ (\E txid \in Txid, depth \in Depth : t = finalized(plan, txid, 0, depth))
           => /\ reports_agree(t, plan)
              /\ semantic_valid(s)
              /\ transition_proved(s, witness_of(t)) <=>
                   /\ validate_for_production_zk(plan)
                   /\ sorted(t.spent_allocations)
                   /\ sorted(t.new_allocations)
<1>1. HistoryInv /\ [NftNext]_nftVars => [A]_assetVars
  <2> SUFFICES ASSUME HistoryInv, NftNext, NEW plan \in plans, latest' # latest,
                      NEW txid \in Txid, NEW depth \in Depth,
                      latest' = finalized(plan, txid, 0, depth)
      PROVE  /\ reports_agree(latest', plan)
             /\ semantic_valid(from_reports(latest', plan))
             /\ transition_proved(from_reports(latest', plan), witness_of(latest')) <=>
                  /\ validate_for_production_zk(plan)
                  /\ sorted(latest'.spent_allocations)
                  /\ sorted(latest'.new_allocations)
    BY Zenon DEF nftVars, assetVars
  <2>1. QED BY PlanStepProves, FiniteLawsHold, Zenon
<1>2. QED BY <1>1, HistoryAlways, PTL DEF NftSpec, PlansProveInOrder
=============================================================================
