# RGK: TLA+ models and proofs

This directory holds TLA+ models of the stateful parts of RGK, the TLC
configurations that check them on small instances, and TLAPS proofs of the
results that matter most for every instance. Paths are relative to the
repository root. `PROJECT.json` maps every definition to the lines it models,
lists the hazards the properties are aimed at, and names a mutant (a plausible
bug, in the modules under the comment "Variant:") that breaks each property.

## The system and its parts

RGK keeps assets on a Kaspa covenant lineage. Data flows in one direction:

    asset grammar (rgk-asset) -> receipt (rgk-receipt) -> covenant (rgk-covenant)
      -> transaction (rgk-tx) -> Kaspa node
      -> scanner (rgk-sync, rgk-kaspa) -> indexer (rgk-indexer) -> resolver (rgk-resolver)
    wallet daemon (rgk-walletd) drives all of these behind HTTP handlers

| part | state it keeps | modules |
| --- | --- | --- |
| `rgk-asset` native grammar, NFTs | none; the records of one asset's history | `AssetGrammar`, `StrategyRecord`, `AssetHistory`, `NftToken` |
| `rgk-receipt` | none | `Receipts` |
| `rgk-covenant` scripts and state payload | none; outputs on the chain are locked by the scripts | `CovenantScript`, `CovenantChain` |
| `rgk-tx` builders, ids, signature hashes | none; a transaction under construction | `ToccataTx`, `CovenantChain` |
| `rgk-zk` fixed-shape circuits | none; statements beside the native records | `AllocationWitness`, `TransitionCircuit`, `AssetHistory` |
| `rgk-zk` lane circuits | none; statements beside the index | `LaneGraph` |
| `rgk-zk` allocation audit | none; a bundle of statements and its certificate | `AllocationStatements`, `AllocationAudit` |
| `rgk-indexer`, covenants | covenant id -> `IndexedCovenant` | `IndexerEntry`, `Indexer`, `LineageSpec`, `IndexerRefinement` |
| `rgk-indexer`, lanes | lane id -> `IndexedLane`, tag map | `LaneIndex` |
| `rgk-indexer`, rebuild | the plan being replayed | `Rebuild` |
| `rgk-indexer`, cursor and observed spends | one cursor, outpoint -> spend | `ScanService` |
| `rgk-sync` | none of its own; the steps of a tick | `ScanService` |
| `rgk-kaspa` wRPC back end | observed-spend cache | `ScanService`, `WalletSync`; the node itself is `KaspaNode` (external) |
| `rgk-resolver` | none | `Resolver`, `IndexerResolver`, `LaneIndex` |
| `rgk-walletd`, scan and recording | the row of a lane | `WalletSync` |
| `rgk-walletd`, handlers and state file | profile, vault, session, rows, file | `Walletd` |

## Modules and the code

Hashes are modelled by the tuples they are computed from (injective), byte
encodings by the fields they carry and by the checks the decoder repeats. A call
that returns an error changes nothing, so its checks are the guard of its action.

* `IndexerEntry` has the records (`SpendEntry`, `IndexedCovenant`, proofs,
  certificates) and the functions on one entry: `spend_admitted`,
  `proofs_admitted`, `spend_applied` are the checks and the effect of
  `apply_spend_to_entry`; `rolled_back` is the loop of `rollback`.
* `Indexer` is the state machine over the covenant map, one action per mutating
  trait call, for both back ends; `entry_decodes` is what
  `decode_indexed_covenant` checks when sled reads an entry back.
* `LineageSpec` is what the indexer promises: a lineage is a sequence of points
  that is begun, extended under a fresh receipt, or cut back.
  `IndexerRefinement` reads these points off an entry and instantiates it.
* `KaspaNode` is the node: a tree of blocks, a tip per network, reorgs to a longer
  branch. `ScanService` is `ScanService::tick` split at every call to the node and
  every write, so the node may move and the process may stop in between, together
  with `run_until_idle` and the driver of the `rgk-sync` binary.
* `Receipts` is the builder and the local verifier; `Resolver` is
  `resolve_by_covenant` as a function of the entry and of the back end's answers.
  `IndexerResolver` composes both with the moving indexer and adds the query by
  transition, which searches the covenants in key order.
* `LaneIndex` puts lane registration and lane queries beside the moving covenant
  map, with the two different tag lookups of the two back ends over the same lanes.
  Ids and tags are whatever a caller registers: neither is compared with what a view
  key derives nor with those of other lanes. `contested` remembers the tags that were
  given to a lane while another carried them.
  `LaneGraph` adds the lane discovery, graph and segment circuits: what one proof
  discovers is looked up in that index.
* `Rebuild` is `rebuild_from`, one action per spend of the plan: it can fail or
  stop after any of them, run again, and meet other calls and a source that moves.
* `WalletSync` is one lane of the daemon between chain and index: the scan, the
  verdict and the recordings, interleaved. `Walletd` is the daemon's handlers as
  concurrent requests, one step per hold of the store's mutex, with the state file,
  failing saves, crashes and restarts on another network. A lane id of a row is text
  that holds the privacy mode and the bytes of the lane, a covenant id is text that
  holds its bytes; `create_lane` compares bytes before it gives up the store and text
  after, and the index knows bytes only. A scan rewrites the covenant of the rows whose
  lane it resolved.
* `AssetGrammar` has the validators of issue, transition and continuation plan,
  the digests and commitments, and the allocation strategies. `StrategyRecord` has
  the production plans and the record a wallet keeps or sends of one, as fields on
  the wire that may be changed on the way. `AllocationWitness` has the constraints
  the allocation circuits share, `TransitionCircuit` the semantic statement and the
  fixed-shape circuits. `AssetHistory` runs all of these over whole histories: a
  transition is accepted if it validates and names the present state digest, the
  comparison `verify_receipt_against_indexer` makes; a step may also arrive as a
  statement with its proof only. `NftToken` adds the stricter NFT validators, mixed
  with plain steps.
* `CovenantScript` is what a script of `build_script_for_policy` or
  `build_script_for_shared_policy` demands of the transaction that spends it: the
  opcodes are abstracted to the predicate they compute on inputs, outputs and
  payload. `ToccataTx` has the genesis and transition builders, covenant ids,
  transaction ids and signature hashes. `CovenantChain` puts both on a chain: one
  client opens, builds, funds, signs and submits; everybody else spends whatever
  a script lets them, as a covenant script asks for no signature. What consensus
  admits is external.
* `AllocationStatements` has the statements of the segmented allocation proofs and
  says which of them have a proof, from what the circuits enforce.
  `AllocationAudit` is `verify_allocation_audit_bundle`, reading statements that
  may come from different provers, and the building, delivery and verification of
  the certificate, whose bytes may be changed on the way. Groth16 is taken to be
  sound, the verifying key of an entry to be that of its circuit, although the code
  takes the key from the entry, and the proof bytes of an entry to be one value per
  statement. So `CertificateIsManifest` says nothing of a certificate that differs from
  the one built in a key or in another valid proof of the same statement.
* The `MC*` modules give constants their values and define the symmetry sets.

`Indexer`, `ScanService`, `AssetHistory` and `CovenantChain` stand alone;
`AllocationAudit` shares `AllocationWitness` with `AssetHistory`; `IndexerResolver`
and `Rebuild` extend the indexer, `LaneIndex` and `LaneGraph` extend
`IndexerResolver`; `WalletSync` joins the resolver, one covenant entry and the node.

Facts of the source the models keep, and a reader may not expect:

* A circuit hashes allocations in the order it is given them, the native grammar
  sorts them first. A plan in another order is valid and has no proof.
* The burn amount and its authorization enter the fixed-shape circuits as constants,
  so a key serves one shape and one burn.
* The circuits check neither the total supply nor the proof policy, and compare an
  outpoint together with the first bytes of its covenant id: "distinct outpoints"
  in docs/ZK-BOUNDARY.md:191 and :250 is distinctness of that window.
  `ProvedStepsValid` says when the history makes up for it.
* The verifier of a semantic transition stack takes the verifying key from the stack.
* No code verifies a chain of lane segments; `LaneGraph` has the first segment only.
* Two lanes may be registered with one scan tag. `InMemoryIndexer` then answers with the
  later of them, and with none once the later is registered again under another tag:
  the tag is taken out of the map although the other lane still carries it.
  `SledIndexer` searches the lanes and still finds that one.
* Two lane creations in flight for one lane, of different privacy and with different
  covenants, both succeed: the first check sees neither row, the second compares the
  text of the lane id. The profile then has two rows of the lane, the index the later
  registration, and a sync shows its covenant in both rows. docs/AVATO-WALLETD.md:92-94
  promises a rejection only of handles that are present before the index write.

## Runs

Passing runs:

| run | question | bounds |
| --- | --- | --- |
| `indexer_lineage` | Does any sequence of open, apply_spend and rollback keep a history free of replays and implement `LineageSpec`? | 1 covenant, histories of 3 with 4 receipts, 3 transactions and digests, 2 policies, assets and chains, DAA 0..1 |
| `indexer_resolver` | With proofs, migrations and certificates: is every stored entry readable again, is attached evidence never rewritten, does the resolver never refuse what the indexer accepted and find it by its transition, and can a verified receipt be indexed? | histories of 2 with 3 receipts; complete and incomplete continuation proofs, right and wrong migration proofs |
| `scan_confirmed` | One database against two networks in every mode; can a reorg or a stop inside a tick leave the cursor ahead of the stored spends; does a cursor that has advanced stay on the selected chain when reorgs are no deeper than `min_confirmation_count`? | 2 networks, 4 blocks beside the geneses, depth 1 |
| `scan_liveness` | Does the scanner catch up, and does `run_until_idle` return? | 3 blocks, reorgs of up to 2, 1 stop |
| `wallet_sync` | Does every verdict mean, on the chain of its moment, what the documents say (Valid: the indexed spend, under its own receipt; Unconfirmed: in no block), and does a row only show what the index recorded? | 3 blocks, two conflicting spends and a third after one of them, histories of 2, 1 request waiting |
| `walletd` | Do concurrent handlers, failed saves, crashes and restarts keep session, vault, rows and index consistent? | 2 identities, 2 networks, 2 requests in flight; evidence for 1 lane under 2 privacy modes and for 2 covenants, 1 lane without evidence, profiles of 1 row or, when two creations overlap, 2 |
| `lane_index` | Do both back ends find the same lane for a tag that was never contested, and only lanes with the tag otherwise; do lanes stay with their covenant; are the lanes one proof discovers found alike by id, tag and view key? | 2 view keys, epochs and assets, any id with any of 2 tags or none, 2 lanes at once, statements of 2 lanes, one spend and its rollback |
| `rebuild` | Is every step of an interrupted rebuild a step of the indexer, and can it be resumed? | plans of 2 spends, depths 0 and 1, every interleaving with the source and with other calls |
| `asset_history` | Do supply, terms and ownership survive any mixture of plain, planned, proved and NFT steps, do validated plans finalize, does a commitment (also one in a record) fix the state, is a proved step valid and a planned one provable? | 2 owners, 2 transactions, amounts up to the largest u64 (3), 2 allocations a side, 1 plan at a time, kept after its state has passed if it was drawn up from the issue and hands the asset over (`KeptPlans`), records of up to 822 bytes (`MaxBlobBytes`) |
| `covenant_chain` | Whoever spends it: does a covenant stay under its scripts, identity and number of outputs? Is what the builders build and sign admitted, and does a signature cover what its hash type says? | 3 accepted transactions, 2 funding outputs, payloads of 2 assets; singleton, change-output, merge and split policies, one or two groups |
| `allocation_audit` | Does a bundle put together from any provable statements, if verified, conserve supply and exclude reused outpoints under its two roots? Are the bytes of a certificate accepted, by every verifier, exactly as built? | segments of 2, 2 segments a side, largest u64 5, one new segment reusing a spent outpoint and one on another chain, certificates of up to 13 entries (`MaxEntries`) |

The bounds are chosen so that every property's mutant is caught under them: two
spends undone and one redone, a reorg that replaces a block the scanner has
passed, a stop between any two writes, two requests inside their unlocked windows
at once, a sum that exceeds u64, statements of two chains of segments exchanged. Longer histories repeat these situations; where a
theorem below covers the property, the bound does not matter.

Runs without deadlock checking are of systems that may rightly stop: a history at
its bound, a token that is burned, a bundle that is rejected. The scanner and the daemon never deadlock.

Fairness is assumed in `scan_liveness` only: weak fairness of the process's own
next step (`Tick`) and of its being started again (`Start`). Every step of a tick
is an awaited call that returns or fails, and the binary is meant to run under a
supervisor. Nothing is assumed of the node; the model bounds blocks and stops, so
both cease in the end, and `CatchesUp` says what holds then.

One run expects a violation:

* `walletd_unlock`: `SessionIsOfVault`. `unlock_wallet` decrypts a snapshot of the
  vault and writes the result into whatever profile the store holds by then; an
  import in between ends up with the former wallet's session and address.

## Divergences

Further disagreements between a comment or document and the code. Each is a
property of its module. TLC shows the counterexample when the property is named in
place of the properties of the configuration given, as an `INVARIANT` or, where
marked, as a `PROPERTY`.

| property, configuration | text | code |
| --- | --- | --- |
| `NoOutpointAfterFullRollback`, `MCIndexerLineage` (property) | rgk-indexer lib.rs:70 "The current open outpoint, or `None` if all history has been rolled back." | rollback restores the first spent outpoint |
| `DaaOfLatestState`, `MCIndexerLineage` | lib.rs:79 "Block DAA score at which the latest state was last updated." | after a rollback it is one below the undone spend's score |
| `PolicyChangesCarryProof`, `MCIndexerResolver` | docs/SECURITY.md:102 "accepted changes must carry a migration proof" | a change without one is looked at only while it is the newest spend; after one more spend the covenant resolves as valid |
| `AssetUnknownOnlyIfAllAre`, `MCIndexerResolver` with `Covenant = {1, 2}` | rgk-resolver lib.rs:397-398 "returns the first non-Unknown state" | the verdict on the first covenant of the asset is returned, Unknown or not |
| `ValidIsIndexedSpend`, `MCWalletSync` (property) | docs/wiki/Concepts/Resolver.md:29 "Indexed spend observed on chain" | with the indexed spend out of the cache, a spend of the open outpoint that is not indexed is reported as valid |
| `UnconfirmedIsNotInABlock`, `MCWalletSync` (property) | Resolver.md:31 "Spending tx is in mempool only, not yet in a block." | a failed depth query counts as depth 0 |
| `UnspentResolvesOpen`, `MCWalletSync` (property) | Resolver.md:28 "Covenant is open in the indexer **and** the backend has a current UTXO." | the wRPC back end answers None for every output it has not seen spent |
| `StoredEvidenceIsUsed`, `MCWalletSync` (property) | docs/AVATO-WALLETD.md:129-131 "the cursor must not outrun the evidence that the resolver will need later" | the resolver is given only what this request's connection has seen |
| `ValidRowIsSettled`, `MCWalletSync` | AVATO-WALLETD.md:104-105 "`NativeTransitionedValid` remains reserved for scanner/resolver-backed chain evidence." | recording replaces the receipt of a row and keeps its state |
| `AppliedIsObserved`, `MCRebuild` with `Plan <- MCUntiedPlan` (property) | lib.rs:461 "It verifies that each caller-supplied transition is supported by observed chain evidence before applying it." | the created outpoint is not compared with the observed transaction |

## Proofs

Checked with tlapm for all values of the constants. The assumptions on constants
are the `ASSUME`s of the component modules: bounds are naturals, inputs have the
fields and enum values of their Rust types, `None` is not a value of the option's
type, covenant ids are ordered like naturals, digests of seeds meet no handle of an
evidence bundle. TLC evaluates them.

* `IndexerProofs`: `TypeOK`, `HistoryLinked`, `NoReceiptTwice`, `EveryEntryDecodes`,
  `LineageIdentityFixed`, `HistoryNeverRewritten`, and that the indexer implements `LineageSpec`. The inductive
  invariant `IInv` says that every entry is `Good`: typed, linked to its neighbours,
  its receipt vector in step with its history, and its stored proofs valid against the
  fields they were accepted with. Linkedness alone is not inductive: undoing a spend
  needs the previous policy and digest of the record below it, and decodability needs
  the proofs to match fields that rollback restores. For the refinement, each call is a
  begin, an extension, a cut or a stutter under the mapping to points.
* `ScanServiceProofs`: `TypeOK`, `CursorCovered`, `CursorOnlyAdvances` and
  `ConfirmedCursorStays`, for any number of blocks, reorg depth and stops. The invariant
  joins facts on the node (`NodeInv`: ancestor sets form a tree, an output is spent once
  per branch) with what each point of a tick knows about the batch it holds. That a
  confirmed cursor stays takes two more: scores count blocks (`Ranked`), so a reorg of
  at most `MaxReorg` blocks leaves every block with as many above it where it is; and
  the blocks of a batch stay confirmed while they are fetched and recorded (`StayInv`),
  not only when the node answered.
* `ResolverProofs`: `AcceptedSpendResolves` and `VerifiedReceiptIndexes`, from
  `IInv`. That a spend is found by its transition takes the least covenant with a
  matching spend, which exists because the ids are well-ordered. And
  `BackendsFindSameLane`, `LanesFollowCovenants` and `DiscoveredLanesResolve`, for any
  registrations under any ids and tags, from `LInv`: `IInv`, lanes are typed and stay
  with their covenants, the tag map leads from the tag of a lane to that lane unless the
  tag was contested, and never to a lane without the tag (`TagsFollow`).
* `IndexerProofs`, on rebuilding: `ImplementsIndexer` (so every theorem on the indexer holds of rebuilt
  covenants), `PassedSpendsAccepted` and `PartialRebuildResumes`. The last is about a
  whole run of a plan: the loop is a recursive function, which is shown to exist by
  its length; spends below the point reached are passed over, those above it applied,
  and the entry after each is the one the plan names (`AtSpend`). `WellFormed` and
  `Begun` state the shape checks of the code in full, as the proof needs each of them.
* `WalletSyncProofs`: `LaneBackedByIndex` and `VerdictMatchesChain`, for any tree of
  blocks, covenant spends and reorgs. A verdict is computed from a cache that a tick
  filled and that the node may have left since, so the invariant (`IInv`) says that
  what is cached was scanned in a block at or below the cursor (`CacheInv`), that blocks
  form a tree with scores that rise along it (`NodeInv`), that a receipt that waits in a
  request or a verdict is already in the index (`BackedInv`), and that the entry's
  receipts are those of its spends (`EntryInv`). The property assumes that the block the
  tick ended at is still on the selected chain and that the depth query is answered, and
  leaves out Valid when the tick has not seen the indexed spend: there the code departs
  from the documents (`UnconfirmedIsNotInABlock` and `ValidIsIndexedSpend` above).
* `NftTokenProofs`: `SupplyAccounted`, `StepsContinueTerms`, `FormerOwnerCannotMove`,
  `ProvedStepsValid`, `TokenStaysWhole`, `PlansFinalize`, `CommitmentFixesState` and
  `PlansProveInOrder`, for every set of inputs. The lemma `Linked` reads off the one
  equation between state digests what a step shares with the present state. The
  invariant `SInv` adds that the live allocations are on the asset's chain, because the
  chain is in the digest only through them. `ProofSound` is the circuit alone: what
  satisfies it are the allocations of a transition the native validator accepts,
  provided that an outpoint is in one covenant only, the spent allocations are sorted
  and the proof policy is valid. `HistoryInv` adds that live allocations have amounts
  above 0 and are distinct (so supply 1 means one allocation of amount 1), that every
  plan kept, also one read back from a record, has validated, and that the supply and
  the id of a minted token's asset are the token's. That the library's fold over a set
  adds up to the same sum in every order is proved from its defining equation, by the
  number of elements (`SumExists`, `SumRemove`, `SumImage`). A record is read back as
  its plan because each conversion has an inverse (`PlaceInverse` to `RecordInverse`).
* `WalletdProofs`: `TypeOK`, `SessionFollowsLifecycle`, `VaultOpensProfile` and
  `RowsAreIndexed`, for any slots, wallets, networks and lanes. A handler goes on with
  what it found before it gave up the store, so each invariant is joined with what
  stays true of the requests in flight: `InFlight` (a request implies a running
  process, an unlock or a scan implies a profile) and `RowsInv`. The latter is about
  every pair of a lane and a covenant that is known anywhere, in rows, file, index or a
  request that has registered or scanned: each is registered and open, or made from one
  seed, and a covenant belongs to one lane (`PairsInv`). A scan needs this of pairs that
  are in no row yet, since it writes the covenant it read into rows that changed
  meanwhile. A creation that has opened its covenant is the only one at that point, and
  the covenant is known nowhere else (`OpenedInv`).
* `CovenantChainProofs`: `TypeOK`, `CovenantOpensOnce`, `CovenantKeepsScript`,
  `ContinuationKeepsIdentity`, `SingletonHasOneOutput`, `BuiltIsAdmitted` and
  `SignatureCoversConsent`, for any scripts, policies, groups, hash types
  and number of transactions. The inductive invariant `Inv` adds that the
  outpoint that names an opened id has been spent and was created by an earlier
  transaction (so it cannot be spent, and the id opened, again), and that an id an
  output carries has been opened (so only the covenant's own scripts can pass it on).
  The last two are about a draft that is changed in any order while others spend;
  `BuildInv` says what stays true of it: its inputs are distinct, a genesis spends
  funding and each bound output opens its id, a transition spends outputs that are alike
  and then funding, only wallet inputs are signed and a signature hashes the consent
  it was given for. Others could only spoil a draft by an output whose script does not
  admit the payload it was created with, so `BuildInv` also says that there is none
  (`ChainBuilt`): advancing the state found at such an output would give a payload that
  the script refuses.
* `AllocationAuditProofs`: `VerifiedConserves`, `VerifiedExcludes` and
  `HonestIsVerified`, for any segments and arities and chains of any length: the
  statements offered to the verifier continue every root a chain can have
  (`ChainRoots`). The invariant
  `AuditInv` says that every part read and not rejected consists of statements that
  have a proof and that it passed its check. No statement speaks of more than one
  segment or pair, so the rest follows the chains: equal commitments tie the running
  total of a segment to that of its neighbour, equal roots tie a segment to those
  before it, and each statement of the grid is tied to its two segments by their roots.
  The other direction goes along the same chains, from what one prover computes to
  each check of the verifier; that a grid in any order has no repeated pair is counted
  by cardinality.

Types, links (`HistoryLinked`) and identity (`LineageIdentityFixed`) are proved
instead of checked in a run of their own; the passing runs spend their time on what
is harder to see.

Where a statement is about a recursive function, an induction over its argument is
done as the absence of a least counterexample, from the well-foundedness of the
naturals. What counts elements or takes a least number rests on facts of
`FiniteSetTheorems`: the lemmas assume them as one formula (`FiniteLaws`,
`NumberLaws`), and the end of the module proves it from an instance of the library
(`FiniteLawsHold`, `NumberLawsHold`) before it states the theorems, which assume nothing
of the kind.

Only model-checked: the liveness properties `CatchesUp` and `UntilIdleReturns`
(fairness is outside the prover's reach), and `CertificateIsManifest`: a certificate is
taken apart by `SelectSeq` and sorted by `SortSeq`, operators with an operator as
parameter, and what they return for sequences of any length takes an induction that
the prover cannot instantiate.

## Not modelled

| part | why |
| --- | --- |
| `rgk-covenant` advanced flows and execution records | pure validators of a shape and its evidence with a record codec; no other code calls them and no script enforces them, so there is no behaviour to check |
| `rgk-tx` amounts, fees, masses, byte layouts | the policies do not read them |
| `rgk-zk` receipt circuit, `ZkStatement`, `ZkReceipt`, guest programs | single statements that hash a receipt and are compared with themselves; proving systems |
| `rgk-zk` kinds of image id (`ImageIdPolicy`) | one set of admitted images; the kinds differ in the proving system only |
| `rgk-asset` other record codecs | encodings without a decision of their own |
| `rgk-kaspa` fixture and HTTP back ends | test double and health probe |
| `tests/rgk-e2e` | test driver |

A node that merges side-branch transactions into selected-chain blocks is not
modelled: `KaspaNode` puts every transaction into a selected-chain block, and the scan
fetches blocks of the selected chain only. Sled is taken to be atomic per write and
durable after it. That the outpoints of different segments of one side are distinct
is not part of the audit; `RgkTransition::validate` checks it. The grid of a bundle may
be in any order when a certificate is built, but only a certificate in index order
verifies from its own contents. `CovenantChain` and `AssetHistory` are not composed: a
covenant's payload carries a digest that no script opens, so neither constrains the
other beyond the comparison of digests each already has.
