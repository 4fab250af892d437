# grain-protocol: TLA+ models and proofs

This directory holds the TLA+ development that accompanies the grain-protocol
repository: models of its stateful parts, TLC configurations that check them on
small instances, and TLAPS proofs of the results that matter most. Paths below
are relative to the repository, which the project's `PROJECT.json` names under
`src/`.

    tlc  -config WalletSolo.cfg MCSignedFoodWallet
    tlc  -config CiGate.cfg MCCiGate
    tlapm SignedFoodWalletProofs.tla     (and each of the other modules named ...Proofs)

## 1. The system

grain-protocol is a protocol for signed, content-addressed records about food
and the software development kits that read and write them. Most of the code is
a strict core of pure functions on bytes (CBOR, COSE, QR text, schemas). What
can go wrong over time sits in the layers on top: wallets that allocate sequence
numbers, sign, persist and merge; client stores that are paired, synchronised
and restored; and asynchronous stores in TypeScript. It also sits around the
code, in the Python scripts and workflows that decide what may be merged, what
is released and what is certified: they run in jobs that are cancelled, repeated
and overtaken, and pass files to each other that may be old, partial or foreign.

| Component | State it keeps | Operations | Talks to |
|---|---|---|---|
| Signed-food journal (`core/rust/grain-client-core/src/signed_food/mod.rs`, `wire.rs`) | transfer (envelopes by payload identifier), pending reservation, sequence counters, read-only flag | `initialize`, `prepare_*`, `commit_signature`, `restore_snapshot`, `import_transfer`, exports | called by the wallets; calls the reducer |
| Ledger reducer (`core/rust/grain-core/src/ledger.rs`) | none | `reduce_ledger` | called by `evaluate` |
| Signed-food wallet (Swift actor, `sdk/swift/Sources/GrainSignedFood/GrainSignedFoodWallet.swift`; Kotlin and TypeScript siblings) | journal, `hasDurableSnapshot` | `initialize`, `record`, `grantDevice`, `revokeDevice`, `importTransfer`, `restoreSnapshotB64` | signer (external), snapshot persistence |
| Snapshot persistence (`GrainSnapshotPersistence.swift`, `.kt`, `browser-storage.mjs`) | one stored snapshot per location | load, save, delete | wallets, client facades |
| Portable client store (`memory_store.rs`, `identity.rs`, `device.rs`, `pairing.rs`, `sync.rs`, `scan.rs`, `binding_api.rs`) | identity bundle, sequence allocator, accepted scans, lifecycle events | create root, add, revoke, select keys, accept scan, export and import bundles, pair, sync, snapshot, restore | replicas meet through bundles the application carries |
| WASM client (`grain-client-wasm/src/lib.rs`) | table of store slots with generations | create, free, call | JavaScript facade |
| TypeScript SDK store (`grain-sdk/src/memory-store.ts`, `identity.ts`, `events.ts`, `manifest.ts`) | objects, events, manifest records, allocator, identity bundle, depth and snapshot of `atomic` | append, correct, put, del, add, revoke, select keys, import, merge | asynchronous callers share one store |
| AI sidecar (`grain-sdk-ai/src/ai/accept.ts`, `token_registry.ts`) | pending acceptance tokens | issue, consume, prune, apply | TypeScript SDK host |
| Strict core (Rust `grain-core`, TypeScript `grain-ts-core`) | none | encode, decode, verify, resolve, reduce | everything above |
| Pull request gate (`.github/workflows/ci.yml`, `tools/ci/classify_ci_scope.py`, `evaluate_ci_gate.py`, `check_ci_economy_policy.py`, `check_branch_protection_drift.py`, `check_full_ci_environment.py`) | workflow runs with the results of their jobs, the context `CI gate` of each head, repository settings | scope, jobs, approval, policy checks, gate, merge, repeated runs | the workflow calls the scripts; the ruleset reads the context |
| SDK release (`scripts/sdk/package_client_sdks.sh`, `release-evidence.yml`, eight scripts of `tools/ci`) | package directory, stored package, release assets, vendor directory | build archives, metadata, checks, attach, download, hand off | two jobs, the release, the receiver |
| Certification (`tools/interop_certify.sh`, `validate_vectors.py`, `run_runner_suite.py`, `audit_invariants.py`, `build_interop_summary.py`, `compute_evidence_sha.py`, ...) | output directory, results beside the runner | vectors, suites, divergence, properties, summary, evidence hash | scripts pass files to each other |
| Stabilization (`tools/stabilization/run_rc_stab.py`) | output directory, findings, evidence | attacks, mutations, properties, reproduction, rehearsal | runs a certification in a clone |
| Policy checkers, provenance and dry runs (`tools/ci`) | none | read a checkout once | called by the workflows |
| Issuer kit, runners, CLI, examples | none between two runs | - | - |

### What is hard

* **Write-ahead signing.** A reservation, a save, a signature outside the
  process, a commit, a second save and a receipt follow each other, and the
  process, the storage or the signer may fail between any two of them. A key
  must never sign two payloads for one sequence number.
* **Copies of any age.** Transfers, private snapshots, identity bundles, sync
  bundles and pairing envelopes are files. They come back late, twice, and in
  any order; merges must neither forget nor rewind, and must leave a state that
  the next restore accepts.
* **Two sources for one counter.** Client stores keep sequence numbers in an
  allocator and in the identity bundle, and every save of the bundle reloads the
  allocator.
* **Asynchronous sections.** The TypeScript store's `atomic` has one depth and
  one snapshot for all callers.
* **Runs that outlive their reason.** A workflow run keeps the payload of its
  event while the pull request moves on; it is superseded, cancelled late,
  repeated, and its context may arrive after another head's. A skipped job is
  both what a light run expects and what a failure leaves behind.
* **Four places for one list.** A job is named in the workflow, in the needs and
  in the arguments of the gate, and in the evaluator.
* **Files from elsewhere.** A package is built in one job, published by another,
  replaced asset by asset in a release, downloaded while that goes on, and
  unpacked into a directory that may hold half of an earlier one. An output
  directory is used again after an aborted run.
* **Silence.** A runner that crashes or hangs prints nothing, and two silent
  runners agree.
* **Boundaries.** Largest sequence number, event limits, totals, 16-bit slot
  generations, expiring single-use tokens.

### What makes each component correct

* Journal and wallet: no equivocation; write-ahead; receipts are durable;
  storage never forgets; every stored snapshot can be restored; a reservation
  can always be committed, and ends as a reported event; a replica never writes.
* Client store: a valid client stays restorable; bundles of any age are
  accepted; sequence numbers of the root are not reissued; replicas that
  exchange bundles converge; a repeated import is idle; nothing known is
  forgotten but by a restore.
* TypeScript store: a record's sequence number is its own; `atomic` takes back
  all of a failed mutation and nothing else; authorization in the bundle agrees
  with the lifecycle events.
* Gate: what is merged through it was verified in full when its own change asks
  for it; no job stays outside; a drift of the settings that its token can see
  fails the next run on main; no run waits for ever.
* Release: only verified packages are attached; an accepted download is one
  attempt's; a vendor directory holds what its manifest says.
* Certification: a sealed hash stands for one whole certification that passed.
  Campaign: its verdict says what it met.
* Tokens: good for one call, until they expire. Slots: a handle reaches the
  store it was made for or none.

`PROJECT.json` lists each hazard at the line where it bites, with the
properties that would notice it.

## 2. Modules

| Module | Models | Proved about |
|---|---|---|
| `SignedFoodLedger` | meaning and verification of a set of payloads (`wire.rs`, `ledger.rs`) | used by the proofs below |
| `SignedFoodJournal` | the journal: each operation as a guard and a result (`mod.rs`) | 〃 |
| `SignedFoodWallet` | the wallets of one owner: actor steps, storage, signer, faults, exchanged copies | `SignedFoodWalletProofs` |
| `SequenceRegister` | abstract specification: reserve, sign, record | `SequenceRegisterProofs` |
| `ClientStore` | replicas of the portable client and the bundles between them | `ClientStoreProofs` |
| `SdkStore` | the TypeScript store and its identity, event and manifest managers, one step per await | `SdkStoreProofs` |
| `AtomicStore` | abstract specification: each call answered in one step, with nothing or with all it reports | 〃 |
| `AiBoundary` | the AI sidecar's tokens over that store | `AiBoundaryProofs` |
| `CiGate` | the job graph, the gate scripts, pushes, merges and settings of a pull request | `CiGateProofs` |
| `SdkRelease` | packaging, checks, release assets and the receiver | `SdkReleaseProofs` |
| `ConformanceVectors` | vector validation, runner contract, audit and suites as operators on the vectors of a commit | used by the proofs below |
| `Certification` | `interop_certify.sh`, script by script | `StabilizationProofs` |
| `Stabilization` | the campaign, composed with the certification in the workspace and the one in its clone | 〃 |
| `MC...` | constants for TLC | |

### SignedFoodLedger and SignedFoodJournal

A payload is a record (author, sequence, operation identifier, body) and stands
for its own content identifier, so a transfer is a set of payloads. The code
keeps one envelope per payload identifier and compares payloads everywhere, so
envelopes are not told apart. `Evaluates` and `Verified` are `evaluate` and
`verify_transfer`; `Counted` and `Authorized` are `reduce_ledger` with its rule
that two payloads in one slot take each other out. Each operation of the journal
is a guard (`CanReserve`, `CanCommit`, `CanRestore`, `CanImport`, ...) and a
result (`Reserved`, `Committed`, `Merged`, `Imported`): `mutate` works on a clone
that is installed only on success, so a rejected operation is a false guard.

Abstracted: encodings, digests and byte limits; the genesis payload carries an
operation identifier of its own (`GenesisOp`) where the code has none; one
nutrient with its mean stands for all; variances and diagnostics are left out;
key identifiers do not collide; all wallets trust the same root, the trust
anchor of the actor (`import` with another root is always refused).

### SignedFoodWallet

A wallet is the Swift actor around one journal (`mem`) and one storage location
(`disk`). Calls of one actor do not interleave, so `pc` says between which two
effects the current call stands: `reserve` (reservation in memory), `sign`
(reservation saved), `commit` (signature there), `settle` (journal changed, save
before the receipt), `idle`, `down` (no process) and `stopped` (the actor lost
its journal and throws `writerUnavailable`). The environment ends processes
(`Crash`), fails saves with or without effect and fails the reload after them
(`SaveFails`), fails the signer with or without an escaped signature
(`SignerFails`) and deletes a snapshot (`LoseSnapshot`). `archive` holds every
snapshot that was ever stored: the application may restore any of them into any
wallet, and may import the transfer of any of them. By contract a location has
one writer, and a key one wallet (`Holder`).

`SequenceRegister` is what the wallets promise together; the mapping in
`SignedFoodWallet` takes what a holder's storage says as reserved and recorded.

### ClientStore

A replica is one `GrainClientMemoryStore`; its mutex makes a call one step, and
`atomic` makes a failed mutation a false guard. The four exports (identity,
pairing, sync, snapshot) carry copies of the same parts of a store, so an export
puts one bundle into circulation and any replica may take it in through any of
the four imports, at any time and repeatedly. `WithIdentity` is the save that
reloads the allocator from the bundle, the coupling most properties are about.

Abstracted: labels and the order of device lists, key material and the sync
secret (both follow from the root), a missing counter counts as 0, scans are
values that verify. A replica's store object lives as long as the replica; the
coordinator that saves a snapshot after each change is planned as a module of
its own.

### SdkStore

The TypeScript SDK has no mutex: methods are asynchronous and share one
`InMemorySdkStore`. What a call does up to its next `await` is one step; a call
carries the bundle it loaded (`seen`), the number it reserved and whether it is
the outermost section (`outer`), and moves through the stages `reserve`, `save`,
`append`, `load`, `merge`, `install`, `exit` or `rollback`. A check on a loaded
copy is part of the step that loads, since nothing else can change the copy;
the exception it throws is the stage `rollback`. `depth` and `saved` are
`atomicDepth` and `atomicSnapshot`. `store` joins allocator, bundle and records,
which `captureSnapshot` copies together; events and manifest records share the
set `log` because they draw on the same numbers. `Throw` lets a method of the
store reject at any stage, as the repository's tests inject it. Bundles of other
clients (`OtherClient`) come from the same operations elsewhere.
`MaxRunning` 1 is the application that awaits each call.

`AtomicStore` is what such an application is promised (SDK-INV-0013): a call is
answered in one step, which leaves the store as it is, or adds the call's records
under new numbers and takes nothing from the identity. It knows no stages, copies,
sections or snapshots. The mapping shows it the store between two calls: while a
call runs, its content is the one the call began with.

Abstracted: blobs (`cap_id` single assignment), key material and labels, payloads (each record its own, except that two grants or
two revocations of one key have the same), numbers are unbounded in the code and
`MaxSeq` is chosen so that no call reaches it (the deadlock check would report a
call that does).

### AiBoundary

Composes `SdkStore` with the token registry of the AI sidecar. `accept` and
`applyAccepted` run without an `await` until they call the store, which writes at
once in memory, so each is one step between any two steps of the other calls.
`Apply` consumes the token, and only then stores the object or fails to
(`Put`): the token is spent either way. A put belongs to no section, but the
snapshot of a section holds the objects, so that a rollback takes back what was
applied while the section was open; `AppliedStays` states what remains of the
promise. The token is an opaque object nobody else can construct, which is why
only issued ones are presented; an unknown one changes nothing.

Abstracted: a candidate is the content identifier of its canonical bytes; its
parsing, normalisation and the food adapter are pure; candidates that get no
token change nothing. The clock does not go back.

### CiGate

A commit is what the scripts tell apart of it: its changed files, the four lists
of jobs, the evaluator's constants and, per policy script, whether the text it
looks for is there. A run copies what its event's payload says (`count`, `head`)
and holds the result of each job. `RunScope` asks for the files of the pull
request as it is then, which the real scope job does too, and compares their
number with the payload's; `Listed` is the limit of the API. `Needs` and
`JobCondition` are the `needs` and `if` of the jobs, `Turn` and `CancelGroup`
the concurrency group, and `Gate` is the job `ci-gate`, which evaluates the
results and writes the context of the commit the run was started for. A commit
that gives up the job conditions, or breaks any of the four lists, is judged by
its own scripts, as in the repository: two of the properties therefore speak of
commits whose evaluator still asks for the policy job. `ChangeSettings` is what
somebody may do by hand. `Merge` needs the context while the ruleset is in force
(`Enforcing`) and no bypass actor merges.

`check_branch_protection_drift` reads the ruleset with the token of the run, the
built-in `github.token` with `contents: read`. The API leaves `bypass_actors` out
of its answer to a token that may not write the ruleset, and the script takes an
answer without the field for one without actors (line 122). So the message
"ruleset bypass actors must be empty." cannot appear in a run on main; it can
when an owner runs the script with a token that may write rulesets. The model has "no bypass
actors" among the expectations, but among those a run cannot see (`Unseen`), and
the instance breaks it: a bypass actor may merge without the context, and the
run of that merge succeeds. `DriftIsReported` promises no more than the rest.

Abstracted: three actions of GitHub itself (merging, cancelling, contexts) are
modelled from what the workflow and the scripts rely on; the base branch does
not move; the approval is a job that ends well or not; the settings only the
owner can read (the fork approval, secrets and variables of the environment) are
left out because no job asks for them, and the bypass actors are a setting that
the job asks for and cannot see.
Bounds: the workflow is started by hand only while nothing runs (`Dispatch`);
failing jobs, repeated runs and changes of settings share `MaxIncidents`.

### SdkRelease

A hash is the content it is the hash of; an archive is commit, toolchain and the
classes of entries in it that the tables of the scripts distinguish (`Entry`). A
script on a fresh runner with its own directory is one step; the assets of a
release are deleted and uploaded one by one, while another attempt does the same
and the receiver may download. `Handoff` writes archive after archive and may be
refused in the middle of one; `VENDOR_TARGET_EXISTS` is what keeps the next one
from filling up what is left (`MayHandOff`). An attempt repeats both jobs or the
second one alone, with the package the first one stored.

Abstracted: the content of templates and matrices (a commit is supported or
not), the commands of the smoke test, the evidence bundle (commit and workflow
of an attempt). Bounds: the receiver gets packages once from each source, and
nobody uploads after the download (`Watched`); missing assets are uploaded
before any is replaced, and those one at a time.

### ConformanceVectors, Certification and Stabilization

`ConformanceVectors` has no state: a vector is the features the scripts judge it
by, and `validate_vectors`, `check_runner_contract_compat` and `audit` are the
scripts' verdicts. `Certification` runs the shell script's steps in one of two
places; each step writes its files into a directory that may hold those of
earlier runs, suites may time out (`SlowSuite`), the Rust suite may run in a
container, which writes its summary elsewhere, and a tool may fail or the run be
stopped at any point (`StopRun`). `Expected` is the reference: the files a
certification of that commit must produce. `camp.left` says whether
the clone is still on the disk after it was removed, apart from the status that
`safe_rmtree` reports: `_rmtree_onerror` swallows what cannot be removed, so `ok`
may mean either. `Stabilization` runs cases one by
one against two runners that may answer anything, silence included, and runs a
certification of the baseline in a clone. A certification in the workspace may
go on meanwhile; both leave their property results beside the same runner.

Abstracted: an answer is `met`, `other`, `unmet` or silence for an attack, and
accepts, rejects or silence for a mutated vector; a replay case is two replays;
smoke and deep campaigns use the same mutated cases; Markdown reports are left
out, and so is the audit's list of partly covered invariants, which changes no
verdict. A certification is of the commit that is checked out: that
`interop_certify.sh --commit-sha` may name another one in its evidence (its
callers in workflows and in the campaign name the commit they have checked out;
the script does not compare) and that the work tree may hold edits no commit
has (no step looks for them) are not modelled; `SealedIsWhole` is about a clean
work tree and a commit named by `HEAD`. Bounds: nothing is checked out while a campaign or certification runs
in the workspace (`Checkout`).

### Faulty definitions

Definitions whose name begins with `Faulty` are no part of a model. Each is the
definition next to it with one plausible programming error. `PROJECT.json`
("mutants") pairs every property with one of them; TLC finds the property
violated when it takes the definition's place. A property no such error breaks
would say nothing about the code.

## 3. Runs

| Run | Instance | Shows |
|---|---|---|
| `wallet_solo` | one wallet holding root and device, 2 operations, 2 values, sequences to 2, 2 faults, 1 crash, fairness | write-ahead, durable receipts; implements the register; reservations that reached the storage end as reported events; `IInv`, which implies `NoEquivocation`, holds |
| `wallet_pair` | root wallet and device wallet, every exchange of transfers and snapshots, one lost snapshot, totals to 1, no failing saves | no equivocation, committable reservations, restorable snapshots, storage that only grows and replicas that stay replicas, with foreign reservations, revoked authors and writers whose concurrent totals overflow together |
| `wallet_retry` | two wallets | *violated*: an identical retry is not answered by a writer that restored a read-only snapshot |
| `wallet_limit` | two wallets, `MaxEvents` 3 | *violated*: a fresh wallet refuses a transfer within the limit |
| `client_replicas` | 2 replicas, 2 roots, 2 devices, 1 scan, sequences to 2, 2 bundles | all properties of the client store, with root conflicts and with snapshots that hold scans but no identity |
| `sdk_awaited` | 4 awaited calls of all kinds, 2 roots, 2 devices, 2 files, 1 fault | implements the atomic store: a failed call leaves nothing, a successful one all of its parts under new numbers; revocation is final; devices, revocations and counters survive imports |
| `sdk_overlap` | 4 calls (create, append, correct), 2 in flight; 2 tokens, 1 pending, 2 instants | accepted calls keep their records and numbers apart; sections balance; a token is good for one call; what was applied outside a section stays |
| `sdk_realign` | 4 awaited calls, no faults | *violated*: bundle and reducer disagree on a device |
| `sdk_correct` | 3 calls, 2 in flight | *violated*: a correction leaves its first event |
| `ci_gate` | 2 pushes of four kinds of change, 2 runs of the pull request and 2 of main, lists cut at 2, 1 incident (a ruleset without required checks or with a bypass actor among them) | merges are verified, gates are complete, drift the token of a run can see is reported, also beside a bypass actor, and no run waits for ever |
| `sdk_release` | 3 commits, 2 artifact kinds, 4 runners, 2 attempts, 1 incident | attached, accepted and vendored packages are whole and verified |
| `certification` | 4 commits, 3 vectors, 2 versions of node, 2 starts, 1 incident, 2 attack cases and 1 mutated one | sealed hashes and campaign verdicts mean what they say, whatever is left of a clone and whether or not that is reported |

**Bounds.** Every counter has a named bound in a guard. `MaxSeq` 2 for wallets
lets a key write two records after genesis, which is what a reissued number
needs; `MaxSum` 2 with values 1 and 2 makes a total overflow reachable;
`MaxFaults` 2 covers a failed save followed by a failed signer or reload.
Two wallets cover every relation between two holders that merges distinguish
(own, foreign); the proofs below lift the main results to any number. A lost
snapshot meets exchanged copies in `wallet_pair`; together with a failing save
it is left to the proofs, because the instance is too large for TLC and
`wallet_solo` excludes losses (a wallet that starts over from an empty storage
reserves its numbers again, so it does not implement the register). In
`ClientStore` two bundles in circulation besides the live replicas give old and
new copies of both; two numbers let a replica grant and then grant or revoke, and
reach the largest number.

In `SdkStore` four calls let one call create the identity and three act on it:
grant, revoke and write; write, import and write; or a section that is entered by one call after another before it is closed,
which two calls in flight suffice for. A manifest record takes the steps of an
event and is left to `sdk_awaited`. Two tokens with room for one let the registry
refuse, expire, be cleaned up and give the room away again. One fault is enough because a call ends with its first.

Two pushes and two runs are what it takes for a run to be overtaken, cancelled
or repeated with an old payload; `PageLimit` 2 with a change of three files makes
the list incomplete; the job that is in the workflow alone is the one
whose failure nobody would see. The proofs about `CiGate` hold for any numbers.
Two attempts are what it takes for uploads to mix, three commits for a tag that
moves and for a package only the handoff refuses. Two starts in one directory
let a run find what an earlier one left, and one incident is a timeout, a
failing tool or a stop in either.

**Deadlock** is checked in every run but `sdk_release` and `certification`,
where all starts may be used up and everybody may be done. In `ci_gate` the
action `Idle` is possible only when every run has ended, so that its deadlock
check reports a job or a gate that waits for ever.

**Symmetry** is used in the client and SDK runs over replicas, calls, roots and
devices, none of which a definition names.

**Fairness** (`FairSpec`): weak fairness on the steps of a running call, because
the actor runs a call to its end; weak fairness on opening and discarding, because
an application that uses a wallet starts it; strong fairness on `Repeat`, because
the recovery contract (`sdk/workflows/contract/signed_food_v1.md`) has the
application retry identical input, and imports and restores may keep a wallet
busy in between. Nothing is assumed of faults except that their number is
bounded. The other specifications state no fairness: their properties are safety
properties.

### Findings

* `wallet_retry`: `restore_snapshot` joins the read-only flags of both journals,
  so a writer becomes a replica by restoring a replica's backup, and `prepare`
  rejects it before looking for the committed event; the documentation promises
  `AlreadyCommitted` for an identical retry. That this is the only exception is a
  theorem (`RepeatsAreAnswered`).
* `wallet_limit`: an import into a fresh journal concatenates the incoming list
  with itself before counting it against `MAX_EVENTS`.
* `sdk_realign`: `identity.save` fills the allocator from the saved bundle, which
  appended events and manifest records never advance. After an append, selecting
  a key (or adding a second device, for the numbers of the first) gives numbers
  out again; a grant that shares its number with another record is ignored by the
  reducer, while the bundle authorizes the device.
* `sdk_correct`: `atomic` rolls back only in the outermost of all calls in
  flight, so a refused correction that began inside another call's section keeps
  its first event. For the same reason `OverlapKeepsRecords` is stated for calls
  that are all accepted: a failing outermost call also takes back what the calls
  inside it have finished.
* `CleanupFailureIsReported` (in `Stabilization`): `_rmtree_onerror`
  (`run_rc_stab.py:133-143`) swallows every file that cannot be removed, so
  `shutil.rmtree` returns, `safe_rmtree` answers `ok`, and neither the output nor
  the evidence has `STAB_CLEANUP_WARN`, although the clone is still there.
  `tools/stabilization/README.md:9` says "cleanup runs as best-effort and emits
  `STAB_CLEANUP_WARN` on failure". The existing test
  (`test_run_rc_stab.py:70`) is given the status `failed`, so it does not notice. This is a check to start by hand, on the instance of
  `certification` (`tlc -config CertificationCleanup.cfg MCStabilization`): TLC
  reports the violation at the end of a campaign whose cleanup said `ok`. That
  the verdict does not depend on it is part of `VerdictIsHonest`.

## 4. Proofs

### The wallet

`SignedFoodWalletProofs` proves, for every value of the constants that satisfies
`LedgerConstants` and `WalletConstants` (any number of authors, wallets,
operations, faults, crashes and losses):

| Theorem | Statement |
|---|---|
| `TypeCorrect` | `Spec => []TypeOK` |
| `InvCorrect` | `Spec => []IInv` |
| `NeverEquivocates` | `Spec => []NoEquivocation` |
| `WritesAhead` | `Spec => []WriteAhead` |
| `ReceiptsStay` | `Spec => []ReceiptsDurable` |
| `StorageGrows` | `Spec => DurableNeverForgets` |
| `ReplicasStay` | `Spec => ReadOnlyStays` |
| `UsableCorrect` | `Spec => [](IInv /\ UsableInv)` |
| `SnapshotsStayRestorable` | `Spec => []SnapshotsRestorable` |
| `ReservationsStayCommittable` | `Spec => []PendingCommittable` |
| `WalletsGoOn` | `Spec => []NothingBlocks` |
| `RepeatsAreAnswered` | `Spec => []WritersAnswerRepeats` |
| `ConflictsStayConfined` | `Spec => []ConflictsConfined` |
| `LedgersOnlyGrow` | `Spec => LedgersGrow` |

**The argument.** `NoEquivocation` is not inductive: whether a signature can be
repeated depends on what the signer's wallet still knows. `IInv` says, for each
payload, that the wallet which holds its author vouches for it as long as it can
be trusted: the stored snapshot, or the journal in memory after the snapshot was
lost, keeps it as an event or as the reservation (`HistoryInv`, `ArchiveInv`,
`JournalInv`); counters are above everything kept (`Sound`), so a new sequence
number is new; memory never knows less than the storage and equals it when idle
(`ControlInv`); and a wallet that never stored anything has left no trace
(`FreshInv`), which is why starting from an empty storage is then harmless. The
preservation proof has one lemma per action over a few shared facts about
`Merged` and about saving (`MergedFacts`, `RestoreOwn`, `SavedInv`,
`ProceedInv`, `RestartInv`). `IInv` is also an invariant of `wallet_solo`.

`ReplicasStay` needs one more fact, `ReadOnlyKept`: the journal in memory of a
wallet whose stored snapshot is read-only is read-only too.

That a snapshot is accepted again, and a reservation once it is signed, needs to
know of every journal that it passes `validate_state`, and that a reservation in
it is one `prepare` may have made (`Usable`, `UsableInv`). Union does not keep
that by itself: two transfers may each be within the limits and together exceed
them. It is kept because `mutate` checks the result before it installs it, a
reservation is made only if the journal with its event would be accepted too, and
while it waits imports are refused, and so is a restore that would take the room it
needs. So the proof never computes a total: it only needs the sum over
no payload (`EmptySum`), for the transfer of a fresh wallet. `NothingBlocks` says
what this means for a caller: no call ends between signature and commit because
the journal refuses, and a wallet always opens on what it has stored.

`WritersAnswerRepeats` is what remains of the promise that `wallet_retry` refutes.
The last two theorems are about the meaning of the ledger. Two payloads in one slot
take each other out, which an owner would notice as a vanished meal or, worse, as
a revocation undone. `ConflictsConfined` says that this happens only to a key whose
wallet was opened without its snapshot, in any ledger of any wallet; therefore
(`LedgersGrow`) a revocation stays, and what was counted is counted until its key
is revoked.

### The gate

`CiGateProofs` proves, for every value of the constants that satisfies
`CiConstants` (any commits, with any jobs, evaluators and lists of files; any
limit of the list; any number of pushes, runs and incidents):

| Theorem | Statement |
|---|---|
| `CiTypeCorrect` | `Spec => []TypeOK` |
| `MergesAreVerified` | `Spec => []MergedIsVerified` |
| `GatesAreComplete` | `Spec => []NothingUngated` |
| `DriftsAreReported` | `Spec => []DriftIsReported` |
| `OneRunAtATime` | `Spec => []OneAtATime` |
| `RunsGoOn` | `Spec => []NoRunWaits` |

**The argument.** None of the first three properties is inductive, since a context
says nothing of the run it came from, nor a run of the head its scope job saw.
`CiInv` adds what is true of each run: its payload has the number of its own
commit's files, so that a list as long as that, taken when its commit is the
newest, is that commit's whole list (`ExtractableIsWhole`) and its scope is
right (`ScopeIsRight`); a policy job that succeeded means that the four lists
agree and, for a push no older than the settings, that the settings its token
can read are as expected (`PolicyIsRight`); a gate that succeeded means that the policy job did
(`GateIsRight`). Of each successful context it says that the evaluator of its
commit computed it from such results (`ContextIsRight`). The scope of an
overtaken run may be wrong, and so may the context it writes; but that context
belongs to a head that can no longer be merged, and after the merge no head is
added. Each action has a lemma; most follow from two about the sequence of runs
(`AddRun`, `ChangeRun`). `CiInv` itself was first checked with TLC on the
instance of `ci_gate`.

`RunsGoOn` is the part of the deadlock check that can be proved. `NoRunWaits`
spells out, instead of ENABLED, the guards of the steps by which a run goes on:
it is the turn of the run, and a job that waits has only needs that have ended, or
none waits any more that the gate needs. It follows from `OneAtATime` (a run that
has not started waits for one that can go on itself) and from the order of the
jobs (`JobGraph`), for which `CiConstants` assumes that the jobs of a workflow have
different names, as the keys of a YAML mapping do.

### The register

`SequenceRegisterProofs` shows that the wallets implement `SequenceRegister`
(reserve, sign, record), for any authors, wallets, operations, faults and
crashes, as long as nobody deletes a stored snapshot (`MaxLosses = 0`; after a
deletion the counter may go back, which is the exception the documents state and
`NoEquivocation` spells out).

| Theorem | Statement |
|---|---|
| `RegisterInvariant` | `MaxLosses = 0 => (Spec => []RegInv)` |
| `WalletsImplementRegister` | `MaxLosses = 0 => (Spec => ImplementsRegister)` |
| `WalletsAreInOrder` | `MaxLosses = 0 => (Spec => []Register!InOrder)` |
| `WalletsTakeNothingBack` | `MaxLosses = 0 => (Spec => Register!OnlyGrows)` |

**The argument.** An abstract slot is reserved when its holder's stored snapshot
or its journal reserves it, and recorded when the stored snapshot has the event.
`RegInv` adds to `IInv` that a wallet that ever stored a snapshot still has one,
that a journal has at most one reservation, and that an event anywhere but in the
wallet that has just committed it is an event of its author's stored snapshot
(`Accounted`). Each action then maps to one abstract step or to a stutter: a
reservation to the save that stores it, a record to the save that settles it,
every import and restore to a stutter.

The last two theorems carry what the register promises over to the wallets: it is
shown of the register alone (`RegisterIsInOrder`, a few lines), and the refinement
does the rest. What a receipt has reported is recorded and was signed, each slot
has one payload, and nothing of this is ever taken back.

### The client store

`ClientStoreProofs`, for any replicas, roots, devices, scans, largest number and
bundles in circulation (`ClientConstants`, `NoIdentityIsNone`: a store without
identity is told apart from every identity):

| Theorem | Statement |
|---|---|
| `ClientInvariant` | `Spec => []ClientInv` |
| `ClientTypeCorrect` | `Spec => []TypeOK` |
| `SnapshotsStayRestorable` | `Spec => []SnapshotsRestorable` |
| `NumbersStayUnique` | `Spec => []NoReissue` |
| `KnowledgeNeverShrinks` | `Spec => KnowledgeGrows` |
| `BundlesStayAccepted` | `Spec => []BundlesAccepted` |
| `SyncAlwaysConverges` | `Spec => []SyncConverges` |
| `RepeatedSyncStaysIdle` | `Spec => []RepeatedSyncIsIdle` |

**The argument.** `ClientInv` says of each store that its allocator is the
counters of its identity and that what it would export is valid (`Sound`); of
every bundle that circulates that it is valid; and that the counter of a replica
whose counters were not dropped is not behind an event it has made. Merging is a
join: `MaximaFacts` and `MaximaCommute` for counters, unions for the rest, which
is why sync converges and its repetition changes nothing. That a merged bundle is
valid again needs that validity under one identity survives one that knows more.

### The TypeScript store

`SdkStoreProofs`, for any calls, keys, objects and bounds (`SdkConstants`,
`NoneIsNothing`). What holds however many calls are in flight, whichever throw:

| Theorem | Statement |
|---|---|
| `SdkInvariant` | `Spec => []SdkInv` |
| `SdkTypeCorrect` | `Spec => []TypeOK` |
| `SectionsStayBalanced` | `Spec => []SectionsBalance` |
| `ActiveStaysAuthorized` | `Spec => []ActiveCanWrite` |

What the managers promise an application that awaits every call
(`MaxRunning = 1`, the hypothesis of each theorem):

| Theorem | Statement |
|---|---|
| `AwaitedInvariant` | `Spec => []AwaitedInv` |
| `CallsAreAllOrNothing` | `Spec => []AllOrNothing` |
| `KnowledgeAlwaysStays` | `Spec => []KnowledgeStays` |
| `RevokedKeysNeverWrite` | `Spec => RevokedNeverWrites` |
| `ImportsAndRecordsGrowCounters` | `Spec => CountersGrow` |
| `DrawnCorrect` | `Spec => []DrawnInv` |
| `StoreIsAtomic` | `Spec => ImplementsAtomicStore` |

And for any number of overlapping calls in an application with one identity that
only adds events and manifest records (`OneIdentity`: one root, and no operation
but `createRoot`, `append`, `correct`, `manifest`):

| Theorem | Statement |
|---|---|
| `OverlapsKeepRecords` | `Spec => []OverlapKeepsRecords` |

**The argument.** `SdkInv` ties the depth of `atomic` to the set of calls in a
section and says, stage by stage, what the copies are good for that a call took
before an await (`Coherent`); the bundle of the store and of its snapshot is
valid. `AwaitedInv` describes the running call: the store it began with, which is
what the ended calls have left, and what it has written so far, by its stage.
`DrawnInv` adds where the numbers of the records come from: they are beyond the
counters the call began with, a correction has taken a second one if both records
have the same author, and no author was revoked when the call began. `StoreIsAtomic`
follows: the first step of a call and those in the middle are stutters of
`AtomicStore` (`BeginImplements`, `UnseenStep`), the last one is its success or its
failure (`EndImplements`). A call that a check refuses before its first await fails
at once, in both specifications. `ImportsAndRecordsGrowCounters` is about
`importBundle`, `append`, `correct` and `manifest`, succeeding or failing;
`createRoot`, `setActiveAk`, `addDeviceKey` and `revokeDeviceKey` fill the
allocator from a bundle and may take counters back (`sdk_realign`).
`OverlapInv` says that, as long as every call was accepted, the counter of a key
covers every number drawn from it and a number is in one record or reserved by
one call. `OneIdentity` is not for convenience. Without it the property is false:
a save of `setActiveAk` or of a device change puts back a bundle that was loaded
before another call's reservation, and the allocator with it; and a second
`createRoot` saves over the first. `sdk_overlap` checks it on the instance that
satisfies the hypothesis.

### The AI sidecar

`AiBoundaryProofs`, for any registry size, time to live, objects and calls in
flight:

| Theorem | Statement |
|---|---|
| `AiInvariant` | `AiSpec => []AiInv` |
| `TokensAreGoodForOnce` | `AiSpec => []TokenGoodForOnce` |
| `AppliedObjectsStay` | `AiSpec => []AppliedStays` |
| `SectionsStayBalancedBesideSidecar` | `AiSpec => []SectionsBalance` |
| `OverlapsKeepRecordsBesideSidecar` | with `OneIdentity`: `AiSpec => []OverlapKeepsRecords` |

**The argument.** Every entry of the registry stands for one token that was not
used, and every token neither used nor expired has one (`Registered`). An object
applied outside of every section is in the store and in the snapshot an outermost
call may go back to (`Kept`). A step of the sidecar touches nothing that `SdkInv`
or `OverlapInv` speaks of, a step of the store no object but by a rollback.

### The SDK release

`SdkReleaseProofs`, for any commits, kinds of artifacts, runners, attempts and
incidents (`ReleaseConstants`: the kinds are listed by a sequence; `NamesApart`:
archives, files about them and evidence have different names; `PackageIsThere`: a
package is not `None`):

| Theorem | Statement |
|---|---|
| `ReleaseInvariant` | `Spec => []ReleaseInv` |
| `ReleaseTypeCorrect` | `Spec => []TypeOK` |
| `AttachedStaysVerified` | `Spec => []AttachedIsVerified` |
| `AcceptedStaysWhole` | `Spec => []AcceptedIsWhole` |
| `VendoredStaysVerified` | `Spec => []VendoredIsVerified` |

**The argument.** Acceptance happens long after the checks, in a directory that
several attempts may have written to. `ReleaseInv` therefore follows the
manifest: in the release, and in what was downloaded from it, it is the one of an
attempt whose package passed every check (`OfVerified`); the only other manifest a
receiver can hold is that of a package somebody made on a workstation, which has
no evidence beside it (`ByHand`) and so is never accepted as a release. A
manifest names the hash of each archive, so an archive that matches it is the
attempt's own, whoever uploaded it. Of an attempt, what the second job goes on
with is what the first has stored (`AttemptOK`).

### The certification and the campaign

`StabilizationProofs`, for any commits and vectors, attack cases, mutated
vectors, numbers of runs and incidents (`ContentIsRead`: a vector is a file of
its own; `NoneIsNoFile`: what is expected of a file is never that there is none;
`SilenceIsNoOutput`: a runner that prints nothing is told apart from every reply):

| Theorem | Statement |
|---|---|
| `StabInvariant` | `Spec => []StabInv` |
| `StabTypeCorrect` | `Spec => []TypeOK` |
| `SealsStayWhole` | `Spec => []SealedIsWhole` |
| `VerdictsStayHonest` | `Spec => []VerdictIsHonest` |

**The argument.** `Progress` states for each step of `interop_certify.sh` what
the earlier ones have established of the commit and which files are by then those
expected of it (`Expected`), whatever the directory held before; a run that
failed has established nothing, and its files are not believed. The lemmas about
the scripts turn a verdict into what it is meant to show: a suite without
failures has answered every vector, late answers included (`SuiteFacts`,
`AnswerFacts`); runners that agree on all vectors agree on those of the waves
(`DivergenceFacts`); accepted vectors and a passing audit cover operations,
types, selectors and invariants (`CoversFacts`). The campaign writes over the
results of a certification that is about to collect them; they are the same ones
(`RunPropertiesKeeps`). Of the campaign, a case is in the findings exactly if
there was trouble with it (`VectorFacts`, `ReplayFacts`, `MutationFacts`), the
clone moves only while the campaign waits for it (`CloneOK`), and its evidence is
the baseline's exactly if it ended in the baseline's environment
(`ObservedFacts`, `NodesTold`). What is left of the clone and what the cleanup
reports of it are fields no gate reads, so no conjunct speaks of them: the
campaign's report on its cleanup is not among what is proved. `ConformanceVectors` needs no theorem of its own.
The attempt to prove `MutationFacts` showed that the arms of a CASE in
`MutationVerdict` overlapped, so that the definition left open which one is taken
where the script takes the first that fits; it is an IF ... ELSE chain now.

### Invariants checked before they were proved

Each inductive invariant was first an invariant of a run: `ClientInv` and `SdkInv`
on the instances of their runs, `OverlapInv` on that of `sdk_overlap` with manifest
records (2.4 million states), `DrawnInv` on that of `sdk_awaited` (0.9 million),
`ReleaseInv` on that of `sdk_release` (0.7 million),
`StabInv` on that of `certification` (1.8 million), `UsableInv`, `NothingBlocks`,
`WritersAnswerRepeats`, `ConflictsConfined` and `LedgersGrow` on those of
`wallet_solo` and `wallet_pair`, `OneAtATime` and `NoRunWaits` on that of `ci_gate`
(1.1 million). They are not repeated in the
runs, because the theorems say more.

### Only model-checked

- `ReservationsSettle`: liveness under fairness, and ENABLED, are out of the
  prover's reach. `WalletsGoOn` proves the part of it that is a state property.
- The absence of deadlock, for the same reason; of `CiGate` see `RunsGoOn`.
- The properties of the runs that expect a violation.
- `AllOrNothing`, `KnowledgeStays` and the action properties of `SdkStore` for
  calls that overlap: they are promised only to a caller that awaits.

The invariants and action properties of every passing run are theorems; where one
needs a hypothesis (`MaxRunning = 1`, `MaxLosses = 0`, `OneIdentity`), the run's
instance satisfies it. What the sum of the amounts of a set of payloads is, for
every set, is not proved (a fold, and so induction over data), and no theorem
depends on it. The modules declare no RECURSIVE operator.

## 5. Not modelled, and the plan

The strict core (encodings, signatures, schemas) consists of pure functions of
byte strings whose inputs TLC cannot enumerate with profit. Platform mechanics
of storage (files, Keychain, IndexedDB) appear only as a save or a load that
works or fails. Examples and generated code are left out.

Of the Python tools, the policy checkers (35 scripts) each read the
files of one checkout once and look for texts, fields or names; there is no
second actor, no order and no state, and a model would repeat their tables. Their
verdicts are inputs of the gate and of a certification (`keeps`, `policies`). The
reproducibility check, provenance and dry runs are one pass over directories, git,
npm or shell commands whose behaviour is outside the repository. Packaging on a
workstation is one step, so that an edit in the middle of it is not modelled: the
script reads the commit and `git status` once at the start.

Planned, in this order:

1. A property for overlapping operations on keys. With two calls in flight TLC
   finds that `setActiveAk` saves a copy it loaded before another call's grant,
   and the device is lost; `sdk_realign` states the property (`ReducerAgrees`)
   where every call is awaited and it fails already.
2. `WasmStoreTable` (slot generations), `SnapshotCoordinator` (client store plus
   persistence: saves that overtake each other, restart from what was stored).
3. `ManifestResolution` and `LedgerReduce` as operators against reference
   definitions over bounded inputs.
