# Melodot in TLA+

Melodot is a data-availability layer built on Substrate. Applications submit blobs
with KZG commitments; the data goes into a Kademlia DHT, extended by erasure coding
to a matrix of segments; validators and light clients sample that matrix; blobs that
a majority of validators cannot sample are left out of the header that commits to
them; farmers store pieces of the matrix and claim rewards for proofs of space.

This directory holds TLA+ models of that code, TLC configurations that check them on
small instances, and TLAPS proofs of central results. `PROJECT.json` maps every
definition to the lines it models and lists runs, mutants, hazards and theorems.

    tlc -workers 2 -config MCMeloStoreVotes.cfg MCMeloStore     # one run
    tlapm MeloStoreProofs.tla                                   # the proofs of a module

## Inventory

| Component | State | Operations | What is hard | What makes it correct |
|---|---|---|---|---|
| `crates/pallet-melo-store`, calls and hooks | `Metadata`, `UnavailableVote`, `Keys`, `AppId`, `Nonces` | `register_app`, `submit_data`, `report`/`handle_vote`, `on_finalize`, session callbacks, `HeaderCommitList::last` | reports race the header over the block; votes are kept by positions that sessions change; a report of several blobs may fail half way | sealed headers stay true; only majorities drop blobs; votes expire |
| the pallet's off-chain worker | results of sampling, report status per authority (local storage) | `offchain_worker`, `with_report_lock`, `validate_unsigned` | worker runs overlap; a crash while the lock is held; failed, dropped, late reports | drops are backed by findings; a node waits only for what was sent; findings take effect in time |
| `crates/frame-executive-ext`, `frame-system-ext` | the open block, header with extension, version of the code last run | `initialize_block`, `apply_extrinsic`, `finalize_block`, `execute_block`, `try_execute_block`, `validate_transaction` | importers recompute what the author built, over upgrades of the code and refused extrinsics; the checks of pallets in try-runtime | what is built is imported, what was altered is refused, upgrades run once |
| `crates/pallet-farmers-fortune` and `CommitmentFromPosition` | claimants per block, balances, `CommitmentsExt` | `claim`, `commitments` | a claim stores a list of commitments that reports may still change | one reward per claim; answers agree with headers |
| sampling client (`crates/daser/client.rs`) | confidence records, `LAST_AT_KEY`, `LATEST_PROCESSED_BLOCK_KEY` | `sample_block`, `sample_application`, `set_last_at`, `last_at` | tasks end in any order; records are written in several sets | a processed block has a confidence; the position moves on |
| transaction pool listener (`tx_pool_handler.rs`) | the notifications not handled yet | import, best-block and finality branches | finality jumps; notifications are lost in a restart | bounded work; final blocks are sampled |
| light client (`light/`) | subscription, a channel of 100 headers | `run`, `finalized_headers` | a bounded channel without a reader; a subscription that ends | every header is sampled; `last` is the highest one |
| `crates/das-network` | command channel, waiting senders, queries, retry counters | service calls, worker loop, swarm events | one-shot senders, events in any order, several reports of one query | each caller is answered or cancelled, once |
| network operations of `crates/daser/network.rs` | records in the DHT | `put_bytes`, `put_ext_segments`, `fetch_block`, `fetch_rows`, `fetch_cols`, samples | four orders of the same matrix: keys, values, commitments, parity | nothing is mixed up; what is there is found |
| `crates/melo-erasure-coding` | none | `extend_*`, `recover_*`, `extend_fs_g1` | interleaved against sequential order of parity | parity lies where its commitment says |
| DAS RPC (`crates/das-rpc`) | none | `submit_blob_tx`, `is_available`, `last`, `remove_records` | data is put before the pool decides; errors do not stop the call | data goes first; a plain success means that it verified and the put gave no error |
| farmer (`farmer/`) and `crates/proof-of-space` | pieces, index of y values, index of z values; a subscription, a channel, a locked database | `event_handler`, `save_piece`, `find_solutions`, `select_indices`, `Solution::verify` | pairs are matched while pieces arrive; crashes between two sets; claims are awaited with the database locked; two directions of counting bits | every pair is filed once, and verifies; headers are done with; claims are sent one after the other |
| `crates/das-db` | key-value pairs | `get`, `set`, `remove`, `compare_and_set` | `compare_and_set` is two statements under a mutex that a panic poisons; two programs use one file | each operation is atomic |
| `crates/das-primitives`, KZG | none | polynomials, commitments, proofs | arithmetic over 255-bit fields; the index of a proof in its domain | proofs verify where they were made (index only) |
| `crates/meloxt` | none | the client reads the nonce of its application | the nonce is stale when the transaction arrives | nonces are not reused (with `SubmitBlob`) |
| `runtime/`, `node/`, `auto-config`, weights, tests | wiring | | | not modelled, but for the runtime's calls of the executive |

How they interact. An application calls `submit_blob_tx`, which puts the data through
`das-network` and the transaction into the pool. The listener of every node samples
the transaction (import branch) and writes a confidence record into the off-chain
database. `submit_data` files the blob on chain. The off-chain worker of the next
imported block reads the confidence records and sends reports; `report` counts them
while the block after is open; `finalize_block` of that block seals a header over the
blobs that are still available. The listener extends the best block and samples final
ones; light clients sample every final header; farmers store its rows and columns and
send `claim`, which asks the pallet for the commitment of a cell.

The hard behaviours are listed as `hazards` in `PROJECT.json`, each at its line.

## Modules

| Module | Models | Composed of |
|---|---|---|
| `MeloStore` | the pallet and block building | |
| `OffchainReport` | off-chain workers, report status, pool | EXTENDS `MeloStore` |
| `FarmersFortune` | claims, stored lists of commitments | EXTENDS `MeloStore` |
| `SamplingClient` | the sampling client and its records | |
| `SamplingLoop` | the finality branch of the listener | EXTENDS `SamplingClient` |
| `LightClient` | the header loop of the light client | EXTENDS `SamplingClient` |
| `FarmerLoop` | the farmer's loop, bit arithmetic, claims | |
| `DasKv` | what a key-value store promises (abstract) | |
| `SqliteKv` | the store in a SQLite file | INSTANCE `DasKv` |
| `Clients` | light client, farmer and store side by side | EXTENDS `LightClient`, `FarmerLoop`, `SqliteKv` |
| `Executive` | building, importing and testing blocks | |
| `DasNetwork` | service, worker, Kademlia events | |
| `SubmitBlob` | a blob's way from RPC to chain | |
| `DataMatrix` | keys, values, commitments and parity of a block | |
| `PieceStore` | the farmer's pieces and indexes | |
| `MeloStoreProofs`, `OffchainProofs`, `FortuneProofs`, `ExecutiveProofs`, `NetworkProofs`, `PieceProofs` | theorems about the module of the name, see below | EXTENDS it |
| `SamplingProofs` | theorems about `SamplingLoop` and `DataMatrix` | EXTENDS them |
| `ClientProofs` | theorems about `Clients` and `SubmitBlob` | EXTENDS them |
| `MC*` | instances for TLC | |

**MeloStore.** Storage items keep their names. `Metadata[b]` is the list of blobs of
block `b`, `UnavailableVote[b][i]` the positions of the authorities that reported
blob `i`. `phase` says whether a block is being built. Each call is one action that
holds all of its checks in the order of the code; a call that fails is rolled back by
Substrate's transactional layer, so that it is not a step. `finalize_block` is
`on_finalize` followed by the header extension over block `n - 1`
(`DELAY_CHECK_THRESHOLD` is 1). `on_disabled(i)` removes position `i` of `Keys` as the
code does, while `disabled` keeps the positions of `pallet_session`. `signers` and
`keys_since` are history: who stands behind a vote, and since when `Keys` is
unchanged. Commitments are names; u32 counters saturate at `MaxU32`.

**OffchainReport.** A worker is a record that remembers what it read from the state of
its block, and does one local authority after the other. `with_report_lock` is
`acquire_report_lock` or one of its two refusals, and then `submit_report` or
`submit_report_failed`; the chain, other workers and crashes come in between. The pool
may hold, drop or include a report. `found` and `lost` are history: which validators
found a blob missing, and which reports came to nothing and why (`dropped` by the pool
or a crash, `failed` to be sent, `late` because the node had already reported). A blob
may be sampled again, which overwrites its record, and applications are registered
meanwhile: after that a blob of a later block can have the application and nonce, and
so the record, of an earlier one.

**FarmersFortune.** `claim` has every check of the code in its order. Whether the
proof of space of a solution verifies is a free choice, as it depends on hashes.
`commitments` is the pallet's `CommitmentFromPosition`, which also stores the list.

**SamplingClient, SamplingLoop, LightClient.** Sampling a block is a task with the
stages of the code: the confidence is saved, then `set_last_at` runs. A header may
have no blobs, blobs, or an extension that cannot be extended (`"odd"`). The loop
takes finality notifications that may jump, and a restart loses tasks and
notifications but no record. The light client's channel has `ChannelCapacity` places
and, as in `light/src/main.rs`, nobody who reads it.

**Executive.** Two nodes: the author keeps a pool of validated transactions and builds
blocks extrinsic by extrinsic, the importer runs `execute_block` on its own storage.
The storage is a record of what the executive and `frame_system` write; roots and
hashes are the values they are computed from, so that two roots are equal when the
storages are. `execute_block` is an operator that returns the storage and whether the block
was taken, from the initial checks to `final_checks`. `try_execute_block` answers
"ok", "err" when the try-state check of a selected pallet fails, or "panic"; what a
pallet checks is open, so that any set of them may fail.
`apply_all` is the loop over a block's extrinsics, which stops at the first that is
refused; `way` says whether it is that of an import or of try-runtime (`apply_by`).
Extrinsics that are refused while a block is built are rolled back and left out of it;
the extension counts the blobs. Calls of the pallets are reduced to one that stores a
blob and may fail, one that replaces the code, and the inherent.

**FarmerLoop.** The loop with one value of `farm` for each await of the code: the send
into a channel nobody reads, the fetch of rows and columns, the wait for the database,
the submission and the end of each claim. The hash of a block is a free choice when its
header comes; which rows and columns are selected and which of them come through the
checks at their place in the answer are computed from it. A claim is a number, in the
pool until a block takes it or it is dropped; what the chain makes of it, by comparing a
16-bit challenge of the parent's hash, is a free choice in `FarmersFortune` and nothing
here depends on it. A submission whose answer is an error is taken not to be in the pool.
Two columns or more abort the task (`fetch_abort`), as `commitments[y]` panics. `mirror` is used by properties only.

**DasKv, SqliteKv.** `DasKv` is the trait: a call, one moment at which it takes effect
or panics. `SqliteKv` has the statements of `sqlite.rs`, the mutex around the
connection and its poisoning by a statement that fails.
`Kv == INSTANCE DasKv WITH kv <- table, request <- calling, response <- returned` is
the refinement mapping, `KvImplemented` the abstract specification.

**Clients.** The three client programs in one instance; a behaviour is one of the light
client, of the farmer or of the store, as they share no state in these models.

**DasNetwork.** `work` is one of several sets of calls (`Workloads`) that are made. Calls of the service, the command channel, the worker's maps and the
events of the swarm. Kademlia is external: a query reports any number of records and
then its end, routing updates come or do not come. A sender is a place that holds the
call; a dropped sender cancels the caller.

**SubmitBlob.** Submissions of several applications that read the nonce of their
application, put the data, submit the transaction and are tried again. A put ends
"put", "dropped" (`put_values` answers Ok whatever became of the records) or "error",
which sets `err_msg` and lets the call go on. On chain, `submit_data` compares with the
counter of the application that was registered last (`Nonces[AppId]`) and writes it,
while `register_app` changes which one that is. Records are keyed by application and nonce.

**DataMatrix.** The counts of a block's submissions, the records in the network, their
loss, and the reads as operators: `fetch_block`, `fetch_rows`, `fetch_cols`, samples of
blocks and applications. A commitment is the number of its row. A segment is its row,
its column and the point at which its proof opens the row, which is `get_kzg_index` of
the number of chunks the maker of the proof went by; it verifies when all three are
right for a row of `SEGMENTS_PER_BLOB`. Half of a row recovers it, but recovery counts
the chunks of the extended row, for which the index is 0: its proofs open the row at the
first segment. Extension of a column carries the proofs on as they are.

**PieceStore.** One action handles a header: `process_segments` cuts the rows and columns
that were fetched into chunks and leaves out the segments that are missing, and `saved`
saves the pieces in their order, cell after cell with the matching of y values. Its other
form stops between two cells of one piece. `replaced` and `broken` are history. y values are drawn at the start so that they collide; z is a
free constructor.

## Runs

| Run | Question | Bounds, and why they are enough |
|---|---|---|
| `store_votes` | With sessions that rotate and validators that are disabled: are headers final, is unavailability backed by majorities? | three validators give majorities that a moved position could fake; three blocks give a window that opens, closes and expires |
| `store_blobs` | Do votes expire, does storage keep its bounds, and does metadata change only inside the window? | two blobs in a block, one cleared by `clear_prefix`; two applications, nonces that saturate at 2 |
| `store_counted` | "Repeat submission or not": is a validator counted once? Refuted | two blocks, a session change inside the window |
| `offchain` | Do locks, retries, crashes and the pool keep findings and votes together? | one node with two keys, two worker runs, which race on one block or across two; two applications, so that the blobs of both blocks may share the record of their sampling |
| `fortune` | Are rewards, stored lists and answers consistent while blocks close around claims? | three blocks (stored, sealed, later), two claimants, a list that fits and one that does not |
| `sampling_loop` | Are tasks bounded and final, has a processed block its confidence, and are the blocks in reach sampled? | five blocks with a limit of three: jumps beyond the limit; a restart |
| `clients` | Does `last` name the highest sampled block in spite of lost headers, restarts and a full channel? Does the farmer come back from every header it can send, are its claims sent one after the other, and how does selection relate to validation? Does SQLite implement the trait? | light client: four headers, two places, two restarts. Farmer: all hashes of two bytes of two bits, headers with no, one, three and four rows (three cannot be extended, four have more rows than the hash has bits), four best blocks, two solutions of a header, four claims, two restarts (two old claims in the pool beside a new one). Store: two tasks of one program, absent, equal and other values |
| `network` | Is each caller's sender held in one place and answered once, and do `get_values` and `put_values` end with results in the order of the keys? | two sets of calls: two `add_address` calls for one peer that replace each other among queries of other kinds, and batches of three keys in chunks of two |
| `submit_blob` | Do concurrent submissions keep the nonces of each counter apart, records verified, errors answered and puts before the pool? | two submissions of one application or of two, with the same nonce, two tries each; an application registered meanwhile |
| `matrix` | Is availability neither overstated nor, for single blobs, understated, are application samples found, and which parity verifies after losses? | all layouts of up to three submissions of one or two blobs, three lost records of four in a row |
| `executive` | Are built blocks imported with the author's storage, altered ones refused, upgrades run once, and does try-runtime agree unless a pallet's check fails? | three blocks and versions, so that code is replaced twice in a block or in two; two senders with nonces, bad signatures, wrong inherents, calls that fail; blocks that the weight of an upgrade fills |
| `pieces` | Is each pair of cells filed, once, under a z that verifies, whatever the order and crashes? | two headers of one height (a fork) or two, two rows of two segments |

In each passing run every action of the next-state relation is taken, and for each
property a mutant of the code's definition (`mutants` in `PROJECT.json`, the "Wrong
variant" definitions in the modules) makes TLC report that property violated.

What they show, besides what the table says:

- `MajorityBacked` is an equivalence, but only while `Keys` stood still since the
  block was opened; `store_counted` shows that this condition is needed.
- `VotesExpire` leaves out blocks with more blobs than `MaxBlobNum`: the code never
  comes back to what `clear_prefix` left.
- `FindingsTakeEffect` leaves out blocks on which a worker ended with an error, a
  report was lost, or a run found more than the node's earlier report: such a run is
  told to wait (`WaitingForInclusion`), so the new findings are never sent.
- `StoredListsMatchHeaders` holds for lists stored after the header was sealed.
- `LastIsHighestSampled` holds although `set_last_at` compares with the wrong record,
  because the light client samples one header at a time.
- `AlteredBlocksRefused` leaves out the extension, which `final_checks` does not
  compare. `TryRuntimeAgrees` leaves out altered digests too: `try_execute_block` compares
  the items up to the shorter of the two digests.
- `NoncesOfCounter` is about counters. Two blobs of one application can have the same
  nonce, and then their records the same keys, when an application was registered in
  between; `OwnNonceAccepted` (refuted) is the other side, a right nonce that is refused.
- `OneClaimInFlight` counts the claims a restart left in the pool: the farmer does not
  know of them, and may claim beside them.
- `SelectionMirrorsValidation` is what relates the two directions of counting bits: the
  indices the farmer selects are the mirror images, in their byte, of the valid ones.
- `EarlyHeadersFinish` is about headers that find room in the channel, also those whose
  fetch panics or whose claims are dropped.
- `KvImplemented` is for the tasks of one program. With a second connection to the file
  (`Connection = {d1, d2}`, a `conn_of` that gives the tasks one each) TLC refutes it:
  a write comes between the two statements of `compare_and_set`.
- `AvailableIsRecoverable` and `AppSamplesFound` hold in spite of the orders that do not
  agree: the disagreement hides data and never makes up any.
- `ParityOfHeldColumnsVerifies` is an equivalence for single blobs: parity verifies in the
  columns that were whole when the block was fetched and in the first column, and in no
  other. One lost segment of a column is enough to spoil all of its parity.

**Fairness.** `FirstBlocksSampled` assumes weak fairness of the listener's loop, of the
stages of a task and of finality: tokio polls a task that is ready, and GRANDPA goes
on. `BatchesEnd` assumes weak fairness of the service, of the worker's handling of
commands and of the end of a query: Kademlia ends each query, by a timeout at the
latest. `EarlyHeadersFinish` assumes weak fairness of the steps of the farmer's task and
that a claim in the pool is included or dropped in the end: authors fill blocks from the
pool, where a claim has no competitors it must wait for for ever. Nothing is assumed of routing updates, of restarts or of lost messages.
`HeadersSampled` (refuted) is stated under fairness of the light client's loop.

**Deadlock** is not checked where the bounds stop the system (`MaxBlock`, `MaxTries`,
`MaxHandled`, `MaxBest`) or where it may rest (all calls answered); `matrix` checks it.

## Proofs

All theorems hold for every value of the constants that satisfies the modules'
ASSUMEs.

| Theorem | Statement |
|---|---|
| `MeloStoreProofs!TypeCorrect` | `Spec => []TypeOK` |
| `MeloStoreProofs!HeadersAreFinal` | `Spec => []HeaderFinal` |
| `MeloStoreProofs!VotesAreCleared` | `Spec => []VotesExpire` |
| `MeloStoreProofs!MajoritiesDecide` | `Spec => []MajorityBacked` |
| `MeloStoreProofs!BlobsOnlyGrow` | `Spec => MetadataGrows` |
| `OffchainProofs!OffchainTypeCorrect` | `OffchainSpec => []OffchainTypeOK` |
| `OffchainProofs!ReportsKeepStore` | `OffchainSpec => Spec` |
| `OffchainProofs!DropsAreBacked` | `OffchainSpec => []BackedByFindings` |
| `OffchainProofs!WaitsForAReport` | `OffchainSpec => []WaitingIsJustified` |
| `OffchainProofs!FindingsCount` | `OffchainSpec => []FindingsTakeEffect` |
| `FortuneProofs!ClaimsKeepStore` | `FortuneSpec => Spec` |
| `FortuneProofs!RewardsCounted` | `FortuneSpec => []RewardsMatchClaims` |
| `FortuneProofs!StoredListsAgree` | `FortuneSpec => []StoredListsMatchHeaders` |
| `FortuneProofs!AnswersAreStable` | `FortuneSpec => AnswersStable` |
| `ExecutiveProofs!BuiltBlocksAreImported` | `Spec => []BuiltBlocksImport` |
| `ExecutiveProofs!AlteredBlocksAreRefused` | `Spec => []AlteredBlocksRefused` |
| `ExecutiveProofs!UpgradesAreRunOnce` | `Spec => []UpgradesRunOnce` |
| `ExecutiveProofs!TryRuntimeAccepts` | `Spec => []TryRuntimeAgrees` |
| `SamplingProofs!ProcessedIsSaved` | `LoopSpec => []ProcessedHasConfidence` |
| `SamplingProofs!CallsAreBounded` | `LoopSpec => []TasksBounded` |
| `SamplingProofs!SamplesAreFinal` | `LoopSpec => []SampledIsFinal` |
| `SamplingProofs!ParityVerifies` | `MatrixSpec => ParityOfHeldColumnsVerifies` |
| `SamplingProofs!AppSamplesAreFound` | `MatrixSpec => []AppSamplesFound` |
| `SamplingProofs!AvailableBlocksAreRecoverable` | `MatrixSpec => []AvailableIsRecoverable` |
| `SamplingProofs!SingleBlobsAreAvailable` | `MatrixSpec => []SingleBlobsAvailable` |
| `NetworkProofs!SendersAreHeldOnce` | `NetSpec => []SenderHeldOnce` |
| `NetworkProofs!RepliesAreStable` | `NetSpec => ReplyStable` |
| `NetworkProofs!ResultsFollowKeys` | `NetSpec => []ResultsMatchKeys` |
| `ClientProofs!LastIsHighest` | `LightSpec => []LastIsHighestSampled` |
| `ClientProofs!LightProcessedIsSaved` | `LightSpec => []ProcessedHasConfidence` |
| `ClientProofs!ClaimsOneByOne` | `FarmSpec => []OneClaimInFlight` |
| `ClientProofs!NeverLocksItselfOut` | `FarmSpec => []DatabaseFree` |
| `ClientProofs!SelectionIsMirrored` | `FarmSpec => []SelectionMirrorsValidation` |
| `ClientProofs!SqliteImplementsKv` | `OneProgram` implies `SqliteSpec => KvImplemented` |
| `ClientProofs!PutComesFirst` | `SubmitSpec => []PutBeforePool` |
| `ClientProofs!HeldIsVerified` | `SubmitSpec => []RecordsVerified` |
| `ClientProofs!SuccessIsPlain` | `SubmitSpec => []ErrorsAnswered` |
| `ClientProofs!OneBlobPerCounter` | `SubmitSpec => []NoncesOfCounter` |
| `PieceProofs!FiledPairsVerify` | `PieceSpec => []PairsVerifyInOrder` |
| `PieceProofs!NeighboursAreFiled` | `PieceSpec => []PairsComplete` |
| `PieceProofs!PairsAreFiledOnce` | `PieceSpec => []PairsFiledOnce` |

`OneProgram` is the one hypothesis of a theorem that is not an ASSUME of its module.
Except for liveness, every property that a passing run checks is stated by a theorem.
The inductive invariants named below were checked by TLC on the runs' instances before
they were proved.

- *Headers and votes.* `HeaderFinal` alone is not inductive: a blob filed under a
  block of the past or the future would change a sealed header. `HeaderInv` adds that
  blobs are in blocks `1..block_number` only (`BlobsInThePast`) and that only blobs
  that exist are voted on (`VotesOnBlobs`). A report is accepted for `block_number` and
  `block_number - 1` only, and the header over those is not sealed before
  `block_number` is closed. For the votes, `on_finalize` clears the block that leaves
  the window, and a cardinality argument shows that `clear_prefix` gets all of its
  entries when there are no more than `MaxBlobNum`.
- *Majorities.* Votes are positions in `Keys`, signers are keys. `MajorityInv` ties
  them: each signer's key stands at a position that voted and there are as many of both
  (`VotesSigned`, which needs `Keys` injective), and the flag of a blob follows the
  number of positions (`FlagsFollowVotes`). A block that enters the window has neither
  votes nor signers, and `on_disabled`, which shifts positions, leaves no block whose
  keys stood still. `BlobsOnlyGrow` is the step property, from `HeaderInv`.
- *Off-chain workers.* Each step of `OffchainSpec` is a step of `MeloStore` or leaves
  the chain alone. It needs the reports in the pool to be well formed, which needs
  `OffchainInv`: a running worker has an authority left, that authority has a key in
  the list it read, and key lists are no longer than there are keys (they are
  injective). Through `ReportsKeepStore` the theorems of `MeloStore` hold with workers.
- *Findings.* `FoundInv` follows a finding through the worker that made it, the report
  in the pool and the signer on chain; each of these has one behind it. With
  `MajoritiesDecide` a blob that was dropped was found missing by a majority.
- *Waiting.* `WaitInv` says of every status that keeps a node from reporting again, while
  the block can still be reported, what became of the report (`Awaited`): the worker that
  holds the lock is about to send it, it is in the pool, counted, or dropped. It needs `InThePast`, that statuses
  are for blocks that exist: a status of a later block would come to wait without a report
  when that block comes.
- *Findings that count.* `EffectInv` adds `NoneForgotten`: each finding about a block whose
  keys stood still is held by a worker that will still send it, is in a report, is signed
  for on chain, or something about the block is recorded as lost. With `MajorityInv`, what
  a majority has signed for has turned the blob unavailable.
- *Claims.* `ClaimInv` adds the types of both sides of the count; entering a claimant
  into the current block adds that block to the set of the claimant's blocks, and no
  other.
- *Stored lists.* `ListInv` adds to `HeaderInv` when each list was stored. A list stored
  after the header was sealed is computed from blobs that no step changes any more
  (`SealedStays`), so that it keeps agreeing with the header and answers stay the same.
- *Executive.* `execute_block` must end, from the block alone, where the author ended
  after extrinsics that came one by one, some of them refused and rolled back. `Built`
  says so of the open block: its storage is what `apply_all` gives for the extrinsics that
  count. `Sealed` says of each closed one that executing it on its parent's storage gives
  the author's storage. `ExecInv` has both. `apply_all` is a recursive function, and a
  body that is extended by one extrinsic gives one more application (`ResultsAgree`). An
  altered body or header differs in a field that `final_checks` compares. Where
  `execute_block` takes a block, the loop of try-runtime does the same (`TryChecks`,
  `TryChecksRoot`), and what it takes has the roots of the header (`TryAlteredRefused`);
  between the two stands the check of the pallets, which may fail for any set of them.
  The migration
  of a version raises `last_upgrade` to it, so that it does not run again.
- *Matrix.* `MatrixInv` says that each record is `Genuine`: it is under the key of a blob's
  own row and column, or under a key of the block that belongs to a parity row. Rows of
  different submissions do not overlap (`RowsGrow`, an induction over the recursive function
  `rows_before`), so that a key determines the place. What is fetched passed its proof and
  so is at its place; half of a row that is there suffices to recover it. A recovered proof
  opens at point 0, a published one at its column, and these differ but for the first
  column, so a column gives proofs that verify exactly if none of its segments was recovered.
- *Network.* A sender is in the channel, in a map of the worker, or used up. `SenderInv`
  says that no place holds a sender twice (`OneSender`), that no two places hold one
  (`OnePlace`) and that a call has its answer exactly when no place holds its sender any more
  (`AnsweredOnce`).
  `ResultInv` ties the results of `get_values` to the keys: chunks
  are taken in the order of the keys, and a result is appended for the key that is next.
- *Pieces.* `StoreInv` speaks of the database and of which pieces were replaced or broken
  off: the y index is right about pieces that were never replaced and complete for those
  whose save ended (`YInv`), pairs are of neighbours with one y value (`PairInv`), are filed
  once (`OnceInv`) and none is missing (`CompleteInv`). `YInv` is what makes the later of two
  cells find the earlier one. That a pair is not filed twice is because a cell is filed
  before it is matched, but the cells behind it are not: of two cells of one save, only the
  later one finds the other (`FiledBefore`). A save that breaks off is the same step with
  fewer cells, and a header an induction over its pieces.
- *Sampling.* `LoopInv` says why the listener stays in its bounds: nothing writes the
  record that `last_at` reads, so every range starts at 1; a task that has saved has
  its confidence; notifications name final blocks.
- *Light client.* `LightInv` says that one header at a time is handled (`OneHead`: a
  task that is not idle is that of the subscription's last header) and that the guard of
  `set_last_at` never holds a block back (`Noted`: the record it reads stays 0). With
  both, the block noted last is the highest; without `OneHead` it need not be, which the
  listener of the full node shows (`LastProcessedAdvances`).
- *Submissions.* `SubmitInv` follows a call through its stages (`CallsInOrder`): what is
  put has verified, what is submitted was put or never verified, and `err` remembers
  which until the answer is given. `NoncesOfCounter` counts; `OnePerNonce` is the same
  without cardinalities, and inductive.
- *Farmer.* `OneClaimInFlight` is not inductive, as the pool does not tell the claim that
  is waited for from the others. `FlightInv` says that claims in the pool other than the
  one watched are no more than the restarts: the loop waits for the end of a claim before
  the next, so that only a restart leaves one behind.
  `LockHeldByClaims` pairs the lock with the places of the loop that hold it.
- *Selection.* `SelectIndices` says what the loop of `select_indices` returns: the indices
  whose bits are set and no others, for any range and number of bits. The rest is division by
  the width of a byte, which is not fixed at 8.
- *Store.* `StoreInv`: a task holds the mutex from its first statement to its return,
  so, with one connection, no other task is between its statements, and what
  `compare_and_set` has compared still holds when it writes (`ComparedHolds`). Each
  statement is then `Perform`, `Panic` or a stutter. `OneProgram` is needed, as TLC's
  counterexample with two connections shows.

*Recursive functions.* Loops of the code over sequences are recursive functions
(`apply_all`, `extract_pre_digest`, `rows_before`, `segment_vec`, `saved`,
`select_indices`). The library's induction rules have an operator as a parameter and
cannot be used; `InductionOnSet` states induction for a set that stands for the property,
from the well-foundedness of `<`. With it each proof shows first that a function with the
recursive equation exists, so that the definition denotes one, and then what it computes.

Only model-checked: the liveness properties `FirstBlocksSampled`, `BatchesEnd` and
`EarlyHeadersFinish`, as liveness under fairness is beyond the prover. The proofs take `get_kzg_index` without the reversal of bits, which keeps 0 and tells
chunks apart (`DataMatrix`); with it (`FarmerLoop`) it is used by the refuted `PreCellsVerify` only.

## Statements of the code that do not hold

Each is a definition in the section "What the comments of the code say" of its module.
`CountedOnce` has a run of its own; put one of the others in place of the INVARIANTS
or the PROPERTY of the named configuration and TLC prints the counterexample.

| Property (configuration) | What the code says | What it does |
|---|---|---|
| `CountedOnce` (`MCMeloStoreCounted`) | "Repeat submission or not" (pallet-melo-store lib.rs:795) | repeats are recognised by the position in `Keys`, which `on_disabled` and sessions change while votes stay |
| `NoncePerApp` (`MCMeloStoreBlobs`) | "Holds the nonce for the application using this pallet." (lib.rs:232) | `submit_data` uses `Nonces[AppId]`, the counter of the application registered last |
| `OwnNonceAccepted` (`MCSubmitBlob`) | the same line | after a registration the next nonce of an earlier application is refused |
| `ExpiredVotesDeleted` (`MCMeloStoreBlobs`) | "Deletion of expired polling data" (lib.rs:448) | `MaxBlobNum` entries are cleared, a block holds up to `MaxKeys` blobs |
| `DisableInRange` (`MCMeloStoreVotes`) | "Under no circumstances may this function panic" (frame-executive-ext lib.rs:560) | `on_disabled` removes by a position of the session from a list that has shrunk |
| `StoredListsFiltered` (`MCFortune`) | "Stores the extended commitments, filtering out invalid data." (lib.rs:212) | a list stored while the next block is open misses later reports |
| `RowsInNetworkOrder` (`MCFortune` with a list of two commitments, `MaxBlobNum` 4, `MaxRow` 3) | "column extensions need to be handled separately" (erasure_coding.rs:71) | rows are answered from the interleaved list |
| `FarmersCellsFound` (`MCFortune`) | "Claim a reward for providing a valid solution." (pallet-farmers-fortune lib.rs:108) | the farmer files the cells of header `n` under `n`; the chain keeps them under `n - 1` |
| `LastAtIsLastSampled` (`MCSamplingLoop`) | "Returns the last block number sampled." (client.rs:81) | `last_at` reads a record that is never written |
| `LastProcessedAdvances` (`MCSamplingLoop`) | "Sets the last block number sampled.", if `last > current_last` (client.rs:139) | the comparison is with that record too |
| `FinalBlocksSampled` (`MCSamplingLoop`) | "Sample blocks after finalization to determine block data availability" (tx_pool_handler.rs:192) | every range starts at 1 and ends before 3 |
| `UnknownIsNone` (`MCSamplingLoop`) | "If the block is not in the database, returns `None`." (confidence.rs:55) | it returns `Some(false)` |
| `HeadersSampled` (`LightClient` alone under `LightSpec`, with the constants of `MCClients`) | "processes them by sending them to a message channel and sampling them." (finalized_headers.rs:30) | the channel has no reader; when it is full the loop waits for ever |
| `PutValuesPuts` (`MCDasNetwork`) | "Asynchronously puts multiple data into the Kademlia network." (service.rs:105) | the results of the puts are dropped |
| `SuccessIsHeld` (`MCSubmitBlob`) | "`None` if successful." (submit_blob.rs:96) | failed puts are not seen, and another submission with the nonce replaces the records |
| `ExtendedProofsVerify` (`MCMatrix`) | "to extend the proof to the correct commitment of the row" (extend_col.rs:29); `chunk_count` is "The number of segments in the original data." (recovery.rs:80) | recovery passes the number of the extended row (recovery.rs:126), so that its proofs, and parity made from them, open the row in the wrong place |
| `HeldBlockAvailable` (`MCMatrix`) | "Restore and extend the best block's data" (tx_pool_handler.rs:139) | keys go column by column, values are taken row by row |
| `HeldRowFetched` (`MCMatrix`) | "each element represents a segment at the corresponding index" (network.rs:187) | rows are numbered by their place in the answer; keys use the row in the block |
| `HeldColumnAvailable` (`MCMatrix`) | "true if available" (network.rs:215) | columns are numbered by their place in the answer |
| `HeldBlockSamplesFound` (`MCMatrix`) | "determine block data availability" (tx_pool_handler.rs:192) | samples are verified against interleaved commitments |
| `FoundSolutionsVerify` (`MCPieceStore`) | "`left`: Metadata for the left cell" (z_value_manager.rs:74) | the cell that completes a pair is filed first, also when it is the right one |
| `AlteredExtensionRefused` (`MCExecutive`) | "introduces an extended block header that includes a commitment list" (frame-system-ext lib.rs:29) | `final_checks` compares digest, state root and extrinsics root only |
| `SelectedIsValid` (`MCClients`) | "Checks if the index is valid based on the XORed hash of farmer ID and block hash." (solution.rs:155) | `select_indices` counts the bits of a byte from the other end |
| `PreCellsVerify` (`MCClients`) | "Verifies the KZG proof for this pre-cell's segment of data." (cell.rs:111) | the position is computed with the number of extended segments, and is another one for most columns |
| `SelectedRowsFetched` (`MCClients`) | "each element represents a segment at the corresponding index" (network.rs:187) | the rows that are asked for are checked at their place in the answer |
| `HeadersHandled` (`MCClients`) | the loop of `event_handler.rs` handles every best block | the farmer's channel has no reader either |
| `RowsKept` (`MCPieceStore`) | "as a row" (piece.rs:58) | a row piece is named by the column of its first segment, so rows of a block replace each other |

One more is not a property of a model: the runtime's session keys
(`runtime/src/lib.rs:126`, `SessionHandler` at 286) do not include the pallet, so its
session callbacks are never called, `Keys` stays empty and no report is valid. The
models take the wiring of the pallet's own mock (`mock.rs:144`).

## Not modelled, and why

- Field and curve arithmetic, KZG, polynomials, hashes and ciphers: pure computation
  over 255-bit numbers. Commitments, proofs and y values are names with the equalities
  the callers depend on.
- `das-network`'s transport, metrics and the `Stream` command, which nothing sends.
- `fetch_unavailability_blocks` and `push_commitments_ext`, which have no callers.
- Node start-up, command line, chain specifications, weights and benchmarks; of the test
  client `meloxt` all but the nonce it reads.
- The executive's `try_runtime_upgrade` and `offchain_worker`: the first runs the hooks of
  an upgrade with the pallets' own tests around them, the second opens the block
  again for reading and calls the pallets' workers, of which `OffchainReport` models the one there is.
- What the pallets check in `try_state`: a set that fails is chosen freely.
- `src/api.rs`, 32 231 of the 51 077 lines of the repository, is generated from the
  runtime's metadata by subxt: types and constructors without behaviour. With it, and
  the tests, mocks and constants that make up much of the rest, the mapped lines are a
  small share of the repository although most of its own logic is modelled.
- The host's off-chain storage behind `offchain.rs` and `offchain_outside.rs`, whose
  `compare_and_set` is one host call.
- The counting of samples and the confidence value of `reliability.rs`: a block is
  sampled available or not.
- Forks of the chain in `MeloStore`: a block is built on the one before; `PieceStore`
  has forks because the farmer's keys do not tell them apart.

## Plan

What is left, most important first:

1. `Reliability`: counting of samples and the confidence threshold, `set_sample`.
2. `FarmerLoop` composed with `PieceStore`, so that solutions come from the pairs filed.
3. Type correctness of `DasNetwork` and `Executive` as theorems of their own; it is part of
   `SenderInv` and `ExecInv` now.
