# TLA+ models of jepa-btc-forecasting

The repository is a research pipeline: vendor data are downloaded under money
and quota limits, reconstructed into order books, cut into bars, labelled, and
used in a preregistered study with a sealed holdout. Its models are numerical,
but what makes its results trustworthy is not: an append-only ledger of attempts
that no crash may shorten, a holdout that is acquired under custody, built once
and opened once, purchases that follow from what was measured, downloads whose
exit code and report agree with the store, and reconstructions, features and
labels that do not look ahead. Those are the parts specified here.

Files: one module per component; `MC*.tla` give finite constants, or compose
components, and `MC*.cfg` are the runs; `*Proofs.tla` hold the proofs.
`PROJECT.json` lists the components, the runs, the source lines of every
definition, the mutants (a plausible bug each property detects), the hazards and
the theorems.

## 1. The system

| Component (source) | State | Operations | Interacts with | Hard behaviour |
|---|---|---|---|---|
| G0-BN trial ledger (`eval/g0bn_ledger.py`) | JSON file, `.lock` file, per object: `_path`, `_lock_fd`, `_identities`, `_events` | constructor (fresh, bound), `load`, `record_start/abort/completion`, `save`, `close`, `__del__` | flock, `os.replace`, directory fsync; called by the driver | two processes on one path; crash or power loss between rename and directory sync; a failed write leaves memory ahead of disk |
| Development driver (`eval/g0bn_engine.py`) | the ladder's position | `run_g0bn_development` | one ledger call before and one after every fit | crash inside a fit; rerun over a half-recorded ladder; a nondeterministic fit |
| Selection and freeze (`eval/g0bn_selection.py`, `g0bn_freeze.py`, `g0bn_identity.py`, `g0bn_config.py`) | documents bound by hashes | `development_selection`, `build_holdout_plan`, `build_freeze`, `validate_freeze` | ledger, development pair, custody inventory | documents that outlive the run they came from; edits by hand that fix the hash up |
| Dataset writer (`eval/writer.py`) | matrix and manifest | `write_development`, `write_holdout` | the producer | a crash between files written in place; power loss |
| Acquisition preflight (`ingest/g0bn_acquisition_preflight.py`) | plan, packet, two days files, inventory, seal | `plan`, packet, `verify-execution`, `build-inventory`, `custody-seal-verify` | gated shell commands under one file lock | the plan is rewritten in place while a command waits; torn files; wrong user |
| Holdout transaction (`eval/consumption.py`, `eval/holdout.py`, `scripts/run_g0.py`) | one record file per holdout identity; result files | `holdout-open`, `holdout-validate`, `holdout-score` (and `--verify-only`) | each command is a process that reads the record, decides, then writes it | overlapping commands; a crash between consuming the holdout and writing the result |
| Bar and label producer (`bars/`, `data/labels.py`, `data/cv.py`, `data/uniqueness.py`) | clock, two books, feature history, label windows, a held-back decision; the claim and attestation of the holdout | `_build_frame`, `materialize_holdout`, `triple_barrier_labels`, `cpcv_splits` | reconstruction below, writer above | late and tied events, gaps between days, windows at a boundary |
| Lake downloader (`ingest/download_lake_binance.py`, `lake_binance.py`) | partitions, `.tmp` files, `_manifest.jsonl`; pool, lock, cancel event | `main`, `process_unit`, `manifest_append` | worker threads share one lock and one cancel event | hard stop against publication; torn manifest lines; retries; resume after a kill |
| CoinAPI download and backfill (`ingest/download_coinapi.py`, `coinapi_backfill.py`) | partitions, per-unit state files, billing ledger | plan, execute under a spend cap | a billable GET | a crash between delivery and commitment |
| Coinbase quality map (`scripts/*coinbase_quality_map*.py`, `recon/stitch_policy.py`) | plan, days files, reports, status ledger | plan, execute batches, judge a day, plan a stitch | the account's quota | reports truncated in place, names reused by the next plan, lagging usage |
| Manifest review (`scripts/review_coinbase_backfill_manifest.py`) | resolutions, backfill manifest | review, approve, `build_plan` | reports above, CoinAPI purchase below | stale decisions about days; inputs that change between parse and hash |
| Stage 2 (`scripts/run_binance_recon.py`, `recon/native.py`) | per store: outputs, processed manifest | engine resolution, resume, build, record | raw partitions of the downloader | inputs refreshed while a unit is built, runs of two stores that overlap, other contracts and engines, torn lines |
| Source gate (`scripts/run_binance_source_gate.py`, `experiments/binance_source_gate.py`) | one report per command, vendor objects, decompressed siblings | verify to verdict; fetch, decompress, replay, compare, decide | stage 2, the vendor | reports that outlive what they were about; files opened by name more than once; vendor hours with gaps |
| Reconstruction (`recon/orderbook.py`, `merge.py`, `live.py`, `reconstruct.py`, `reseed.py`) | the book, a watermark buffer, sampling and crossing accounts | apply, push, release, flush, replay | events of two streams merged by engine time | out-of-order arrival, ties, snapshots that arrive while the book is stuck crossed |
| Trial ledger and study (`eval/ledger.py`, `eval/g0.py`) | JSON file | load, record, save; the study | `g0cb` command | overlapping load-modify-save (not modelled) |
| L3 book (`recon/coinapi.py`), native engine (`native/`), statistics (`eval/stats.py`, ...) | none that outlives a call | pure functions | parity tests | not modelled |

What makes each correct, in one line:

- *ledger*: an acknowledged event survives everything; a trial's outcome never
  changes; the file always loads; nobody overwrites somebody else's events;
- *driver*: every fit that ever began is counted; a run that returns has the
  outcome of the whole ladder;
- *selection and freeze*: every outcome is of the one pinned build, and an
  accepted freeze answers for every attempt;
- *acquisition and custody*: a holdout day is placed under custody by the
  custodian only; attested rows come from sealed bytes, and an attestation has
  its outputs;
- *holdout*: the sealed rows are read only under a recorded PASS, a FAIL is
  final, the score is written once;
- *producer*: a decision uses what had been received, a label what happened
  after; every decision is a row or a counted drop; splits do not leak;
- *downloads*: exit 0 means complete; reports agree with the disk and the money
  with the approval; nothing is published after a hard stop; a run ends;
- *quality map and review*: what is bought is what the measured days need, a
  verdict is never overridden, every batch gets mapped within the quota;
- *stage 2 and source gate*: a kept output is the one a rerun would build; a
  certified day is the preregistered one; a decision compares like with like;
- *reconstruction*: what live emits is what offline would emit of the same
  events; a sample shows the book as of its time; accounts are exact.

## 2. Modules

### Ledger, driver, holdout record

`DurableLog` (abstract) is what a caller is promised of a ledger file: a log per
path that grows at its end, an acknowledgement of what it holds, and crashes
that may only take back what was not acknowledged.

`G0BNLedger` implements it. An *instance* is a Python object in some process;
`phase` says where it is in the call it executes (`binding`, `loading`,
`reconciling`, `writing`, `replaced`), so that other instances and crashes come
between every two system calls: lock, exists, read, replace, directory sync.
`disk` is what a reader sees, `stable` what a power loss leaves. The hash chain
is abstracted to what it authenticates: two histories have one head hash iff
they are the same sequence. `_register_identity` is `Registrable` and
`Extended`; the three `record_*` calls are `Record` with their own guard; `save`
is `SaveOwn` and `SaveElsewhere` (which takes the transient lock and runs
`_require_extends` in `Reconcile`); `Vanish` is what the kernel does when the
object or the process is gone: locks are released, memory is lost. A file that
was being written when the machine stopped is a temporary file nobody reads, so
the step before `Replace` needs no file of its own.

`G0BNDevelopment` EXTENDS it with the driver: every ledger call of
`run_g0bn_development` is made of the ledger's own actions, conjoined with the
driver's program counter. A fit returns one of `Results`, raises, or never
returns because the process dies.

`HoldoutConsumption`: a process runs one command at a time; every load and every
write of the record is a step. `serialized` is chosen at the start of a behaviour
and says whether the operator waits for a command to end before the next.
`Torn` is the record that `O_EXCL` created and a crash left empty. An artifact is
named; `Authorized` are those a rebuild confirms, and `HoldoutOf` maps several
artifacts to one holdout, as `holdout_id` does.

### From a plan to an attested, frozen holdout

`AcquisitionGate`: `plan` writes the two days files and the plan one after the
other in place (a reader may find `Truncated`), the packet is a function of the
plan, and a gated shell takes the compute lock, verifies plan, user, days file
and job count (`VerifiesDays` is the digest of the days file), then runs its
command, which reads the days file again. `placed` is the history of what was
written where, by whom, under which packet.

`CustodySeal` has the documents of the sealed holdout (evidence, inventory,
config pin, holdout plan, freeze) and the validators that bind one to another; a
sha256 is the content it is of, and `sealed` says whether a document's own hash
is kept up to date, because an edit by hand may do that. `HoldoutBuild` EXTENDS
it with the store, the claim of the one-shot runner and `materialize_holdout`,
one action per system call that matters: documents are parsed once, the claim is
read, all objects are opened, hashed, decoded from the descriptors (not the
paths), matrix, manifest and attestation are written, synced and linked.
`BuildStops` and `MachineStops` come between any two.

`DevelopmentFreeze`: `write_development` writes matrix and manifest in place, a
run reads the two one after the other and verifies them, walks the ladder over
the ledger (here the abstract log that `G0BNLedger` implements), selects, and
freezes; `AcceptFreeze` is `validate_freeze` with the run's own evidence.
Statistics are an order of merit: of each candidate, its lift, its net result and
the number of trials its score withstands when deflated.

### Downloads

`LakeDownload`: the main thread (`phase`: gate, fill, collect, unwind), at most
`Jobs` workers (`pc`), the publication lock, the cancel event, and on disk the
partition, its temporary file, the last readable manifest record of a unit, and
whether the manifest ends in a torn line. A new run reads what earlier ones left.

`CoinapiBackfill`: one process at a time executes a reviewed manifest or a range
of book days on one store. A unit goes through `listing`, `getting`, `billing`,
`streaming`, `staged`, `stated`, `published`, as `process_unit` lists, gets,
commits the cost to the ledger, streams, writes the state record, replaces the
output and appends the `ok` row. The ledger is what a reader of
`_manifest.jsonl` sums; `ragged` says that its last line is torn, and a row
appended to a torn line is unreadable with it. That is why `AppendAuthorization`
matters: the row every run appends before its first unit takes the loss, and no
billed row does. Money is counted at the manifest's rates (`Planned`, `Price`),
bytes are one of the `Versions` a vendor may serve.

### What to buy: quality map, review, stitch

`StitchPolicy` is the policy of mixing two vendors on one day: invalid runs,
warm-up, segments, seams, guards, masks; time is counted in grid samples.
`CoinbaseQualityMap` is the verdict on a day, its fill plan, the report and the
quota gate. `QualityMapBatches` is three processes that talk through files: the
planner, the orchestrator with its status ledger, and the child that downloads
and judges one batch; `used` is the account's usage, `hurried` that a load began
while `used_data` still lagged. `BackfillReview` (no actions) is the reviewer and
the gate of the executor as functions of documents. `QualityMapPipeline` puts
them together: targeted re-runs, resolutions written by hand, a review that reads
its inputs and hashes them when it publishes, approval, and the gate.

### Stage 2 and the source gate

`BinanceRecon` is stage 2. Each processed store has its run (`proc[root]`), and
runs of different stores overlap in any way; the engine of each instrument is
what `resolve_engine` gives it (Python, or native where the extension is built and
the scale registered: `Registered`) or what `stage2-native-run` forces
(`NativeAt`). A unit's inputs are identified (`TakeIdentities`), its feed is read
(`ReadFeed`), the seed is read and the output published (`Build`), and the record
is appended (`RecordUnit`); `unit_is_done` is `UnitIsDone`. What a raw partition
holds is a record of what the code measures of it, whether the native engine
agrees with the Python one on it among them.

`SourceGate` adds the Lake commands, each a report on disk that names what it is
of. `verify-inputs` takes the files one by one (`VerifyBegin` and `VerifyEnd` around
the hashing of each), so a file replaced after its own check passes. `tick-scale`
measures deltas, trades and the book seed for the scale (`ReplayFeeds`), gates
liquidations besides (`GatedFeeds`), and reads funding without gating it.

`ChdReplay` is the replay of a vendor's hours, event by event, to a book or a
refusal. `SourceDecision` EXTENDS both with fetch, validation, replay, comparison
and decision. A command loads its objects one after the other (`loading`), and
opens each by name for its magic (`LoadOpen`), for its hash (`LoadHash`), and to
decompress it or read it (`LoadNext`, `LoadDone`, `LoadRefused`); plain parquet is
read where it lies. The operator may hand any report to any command, files may be
swapped between any two steps (`PutFile`) and commands killed.

### Reconstruction, bars, labels

`OrderBook` has the book, the total order of events and the offline replay
(`AtTrades`). `LiveReplay` EXTENDS it with the watermark loop and compares;
`SeededReplay` EXTENDS it with the merge of deltas and snapshots, sampling and
the coverage and crossing accounts. Its references are stated over the ghost
`history` of applied events, not over the variables the code accumulates.

`BarClock` (threshold schedule, push, finish, coalescing), `BookReads` (the
observable and the label book of `bars/snapshot.py`) and `TripleBarrier`
(labels, concurrency weights, purged splits) are operators over sequences.
`FrameBuild` EXTENDS them with `_build_frame`: days stream through the clock, the
last decision of a day is held back (`carry`, a sequence of at most one), gaps end a segment, and every
decision becomes a row or one counted drop. A trade or level has the time it
happened and the time it was received.

## 3. Runs

Three MC modules compose components: a behaviour of `MCCustodyChain`, `MCReplay`
and `MCSourceGate` chooses a `focus` at its start and follows that part, while
the variables of the others stay at one initial value. The parts meet in
documents, not in shared memory, so a product of their states would only repeat
each of them. Where components do share state they are EXTENDed: the driver and
the ledger, the review and the batches, the gate and stage 2, the frame build and
its stages.

| Run | What it shows | Bounds, and why they are enough |
|---|---|---|
| `g0bn_ledger` | exclusion, in-memory history extends the file, files load, outcomes immutable, refinement of `DurableLog` | 2 objects of 2 processes, one path, a trial and one of a foreign configuration, 2 results, 2 events: the hazards are of two writers and of the first two events (start and conflict). The theorems hold for every value |
| `g0bn_development` | the ladder is accounted for on disk, runs end | 2 processes with a ladder of 2 and one of a foreign build, 3 runs, 12 events (three complete runs of the longer ladder): a crash, a rerun and a rerun of the rerun |
| `custody_chain` | January stays in custody; attested rows are sealed and attestations have their outputs; one development pair, accepted freezes count everything; the record is one transaction, serial outcomes are final | gate: a day of each partition, 2 plans that may swap identities, an edit that puts the holdout day into a days file, 2 gated shells, 2 launches. Build: 2 days of which one may be excluded, three kinds of evidence, 2 inventories, configs and builds, a renormalized day, an edited plan. Freeze: 2 horizons of 2 rungs, 2 builds, 2 runs, an abort, a trial off the ladder, merits that tie or split by one trial. Record: 2 processes, 8 commands, 3 artifacts |
| `holdout_overlap` | violated: two overlapping `holdout-validate` undo a FAIL | as above, 5 commands |
| `lake_download` | exit codes and the report agree with store and manifest, nothing is published after a hard stop, every run ends (under fairness) | 1 required and 1 sparse unit, 2 workers, 2 retries, 2 runs of every mode; the theorems are of every size |
| `coinapi_backfill` | spending stays within its approval and is reported, exit 0 vouches for every unit, a crash leaves no conflict | a book unit and a trades unit larger than planned, a manifest of both and one of the first, 3 runs (killed, rerun, and a third that reads what the two left), approvals 1 and 3 (one refuses the second file), 2 versions of a file |
| `lake_resume` | violated: a failed overwrite is not rerun | 1 worker, 1 required unit, 3 runs (plain, `--overwrite`, plain); no kill and no failing append, so that nothing but the failed overwrite is at work |
| `coinapi_overwrite` | violated: a killed overwrite leaves a conflict | one unit, one manifest, no range mode, so that the manifest's runs are the only writers |
| `replay` | live equals offline; samples, coverage, crossed time and reseeds; decisions, reads, labels, drops and splits of a frame | live: every file of 5 of 8 events (ties, deletions, two trades) and one of conflicting keys, every arrival order, skew 1, watermark 2. Seeded: every stream of 5 events over 4 time units, grid 1 and 3, tolerance 2. Frame: two days of 6 units, contiguous or with a gap, every choice of 6 trade lists, 3 snapshots and 5 delta lists (late, crossing, one-sided, stragglers, past the day's end), horizons 1 and 2, both caps |
| `quality_map` | purchases are justified, verdicts are not overridden, stitches are sound, windows stay within a vendor, every batch is mapped | 2 days of 7 samples: with one fault to spend, a day without a seed and one with a gap; with none left, every pattern of invalid samples of day 1. Quota for one full batch a month, 2 plans, one review, one resolution |
| `source_gate` | kept outputs are current, certified days are the preregistered ones, expansion follows the probe, decisions compare like with like, completed replays are true | Lake: 2 instruments; 5 units (two of top-k, trades, liquidations, funding); 2 stores, 2 runs, a refresh at any step of a build or of a verification, a crash, 2 contracts; engines Python, registered, and native at a scale that spot prices do not fit; 3 contents of the raw store, on one of which the engines differ. Vendor: 4 objects, 2 swaps (removed, corrupt, another zstd object, plain parquet), a kill, 2 fetches of 2 attempts; every subset of 4 events delivered of each of two hours |
| `recon_crash` | violated: the output of a run whose record is lost passes for that of another contract | as above, stage 2 in one store |

`MCSourceGate` is one instance of which a cfg chooses the parts (`Foci`): `stage2`
in one store, `lake` (the Lake commands over stage 2 in two), `fetch`, `decide` and
`windows`. In `stage2` only the partitions of which there is more than one content
are written again. In `lake`, `OnceEach` lets every command be given once and the
reports that carry no identity of their inputs be written before the rest (see
"What is assumed" below); the Python run of one store and the native run of the
other overlap or not, and stage 1 may replace one of two partitions, a required
and a sparse one: steps of the two runs that concern neither are taken in one
order. Commands are given between the runs there; that they may be given during
them is in the theorem. In `fetch` nothing but the probe is loaded, and no swap
comes during a fetch, where it would be lost or might as well come after it.
The freeze instance leaves out the rung of the
baselines, which cannot be selected and only has to complete.

Deadlock is not checked: commands, runs and streams end. Symmetry is used only in
runs without liveness. Counters that the code does not bound are bounded by
guards: every `Max...` constant, and `N`. The type invariants (`TypeOK`) that no
run lists are there for the proofs; those of the ledger, the holdout transaction
and the Lake downloader are theorems of their own, the others parts of the
inductive invariants.

### Fairness

`FairDevSpec` gives weak fairness to the steps of a live process: the loop runs,
and a fit either returns or raises. A process may still die at any step; nobody
is obliged to start one. `FairSpec` of the downloader gives weak fairness to the
main thread and to every worker thread: the pool's threads are scheduled by the
operating system, the lock is held only over two file operations, and the
vendor's client has read timeouts, so that every read returns. There is none on
`Launch` (the operator) and none on `Kill`. `Fairness` of the quality map says
what its runbook asks of the operator: a planner that was started goes on, the
batches are executed again and again, months pass, and an orchestrator that is
running takes steps without a fault infinitely often unless it ends.

### What is assumed of the world

Named here because the code does not enforce it and the properties need it:

- hand edits of plan and days files happen while no gated command runs
  (`AcquisitionGate`); while one runs only the `plan` command writes them;
- the one-shot runner, which is not in the repository, keeps two materializations
  of one claim apart (`HoldoutBuild`);
- a freeze is accepted by a runner that holds the ledger open
  (`AcceptFreeze`): after `close()` a freeze can be stale and nothing but that
  validation sees it;
- reports of the source gate that carry no identity of what they read (tick
  scale, silence, replay) are of the store the verification saw (`OnceEach`);
- of one processed store there is one stage-2 run at a time (`proc[root]`), and of
  the commands that load vendor objects one (`loading`): no lock keeps two apart,
  and they would share temporary files of fixed names;
- a file written again has another size or mtime than every file before it at
  its place (`Refresh`), which is all the identity stage 2 and the gate compare;
- the operator hands the decision of the source gate every report there is: a
  withheld one is not missed by the code;
- `used_data` is up to date when a load begins (`hurried`).

### What the violated runs say

- `holdout_overlap`: `eval/consumption.py` promises of FAIL that "scoring is
  refused forever". Nothing is held between `load_record` and `os.replace`, so of
  two validations that overlap the later writer wins, and a PASS erases the FAIL
  from the record's history.
- `lake_resume`: exit code 3 says "rerun with --resume". A unit that failed under
  `--overwrite` keeps its old file and so is not pending for `--resume`, which
  finds nothing to do and exits 0. The option's help adds "skip-done is always on
  unless --overwrite", which says why, but not that the errored unit is done.
- `coinapi_overwrite`: a comment of `process_unit` says that a crash between the
  state record and the publication is "never a conflict demanding --overwrite".
  Under `--overwrite` there is an old output; if the vendor's bytes changed, the
  record no longer matches it and the next plain run reports a conflict.
- `recon_crash`: `unit_is_done` says that a crash between publication and record
  runs the unit again. If the output of an earlier contract was there, its record
  still is, and the next run under that contract keeps the other one's output.

### Observed on the way

Without a run of their own, because the code makes no promise about them or a
property already leaves them out by name:

- `recon/merge.py` calls the merge "invariant to input ordering"; two events with
  equal keys and different contents keep their arrival order (`Ambiguous`).
- Two overlapping `holdout-score` commands can both return a score.
- The days files are rewritten in place outside the gate's lock. An empty or torn
  file is refused, but a proper prefix read by a command that has verified the
  whole file would be downloaded with exit code 0.
- `verify-execution` does not check the approved packet's plan hash nor compare
  the command's roots and identities with the plan on disk, so a replan with
  swapped identities changes whom the gate accepts. `JanuaryStaysInCustody` is
  therefore about the custodian that the gate read.
- `custody-seal-verify`, the only step that checks that the evidence covers the
  whole scope, is mandatory by the packet's text only: a config can pin a seal it
  was never run on.
- The review hashes its inputs when it writes the manifest, after it has parsed
  them. If they change in between, the manifest pins documents it was not made
  of and the gate accepts it as long as those stay. The properties of the
  accepted plan are of what the review parsed.
- A crash of `materialize_holdout` before any output exists lets the same claim
  be used again; after that the fresh-output check refuses it for good.
- The freeze pins the ledger's hash with its event history. A rerun appends
  events, so it never reproduces the freeze (`eval/g0bn_freeze.py:1034` calls it
  reproducible); the freeze has to be built again. A trial off the ladder at a
  ladder horizon, once scored, blocks every freeze, and a rerun whose fit aborts
  for a trial that was scored before makes the selection refuse.
- `_decompress_if_zstd` publishes the decompressed sibling before its sidecar. A
  kill in between leaves a sibling that the next command makes anew, because the
  sidecar does not name it. The exception is an object replaced before the kill
  and put back after it: the old sidecar then names the object again, beside the
  other object's sibling. `ExpansionFollowsTheProbe` speaks of histories
  without such a kill (`cutShort` remembers them).
- `_decompress_if_zstd` hashes an object and decompresses it by two openings of its
  name (`:973`, `:992`). A file put there in between is decompressed, and later
  replayed and certified, under the hash of the one before, although the docstring
  says that a replaced object is never "validated under the new object's
  provenance". Eight steps reach it: fetch the probe, validate it, swap after the
  hash. With that swap, or the kill above, paid expansion can be unlocked by a
  replay of other bytes than the vendor sent for the probe; `mixed` remembers it
  and `ExpansionFollowsTheProbe` leaves it out by name.
- Stage 2 identifies a unit's inputs (`run_binance_recon.py:516`) and reads them by
  name afterwards (`:519`, `:524`). If the Python run of one store and the native
  run of the other overlap, and stage 1 replaces a verified partition when both
  have identified it and neither has read it, both read the successor under the
  verified identity, their manifests agree, and the verdict certifies the day,
  although its comment says that the check "proves the manifest was generated from
  EXACTLY those filesystem objects" (`run_binance_source_gate.py:554`).
  `VerdictIsOfPinnedInputs` leaves out that one case (`replacedUnderTwo`); when one
  run alone reads the successor, the comparison catches it.
- The docstring of `stage2-native-run` says that no Binance tick scale is
  registered in `recon/native.py`; both are (`:91-95`), and the script's default
  engine is the native one where the extension is built.

## 4. Proofs

Every theorem is of all values of the constants: any number of processes, days,
units, runs, contents and edits. Each `*Proofs` module has one inductive
invariant (or one per layer), a lemma per action, and the theorems that follow.

| Module | Theorem | Property | Inductive invariant |
|---|---|---|---|
| `G0BNProofs` | `WritersExcludeEachOther`, `OwnSavesAreSafe`, `EveryFileLoads`, `OutcomesAreImmutable`, `LedgerIsDurableLog` | the five of `g0bn_ledger` | `LedgerInv` |
| | `TheLadderIsAccounted` | `LadderIsAccounted` | `LedgerInv` with `DriverInv` |
| `CustodyProofs` | `OneTransaction`, `SerialOutcomes` | `RecordIsOneTransaction`, `SerialOutcomesAreFinal` | `ConsumptionInv` |
| | `JanuaryInCustody` | `JanuaryStaysInCustody` | `GateInv` |
| | `AttestationsHaveTheirOutputs`, `AttestationsAreSealed` | `AttestationMatchesOutputs`, `AttestedRowsAreSealed` | `OutputsInv`, `SealInv` |
| | `DevelopmentRunsOne`, `AcceptedFreezesCount` | `DevelopmentRunsOnePair`, `AcceptedFreezeCountsEverything` | `FreezeInv` |
| `CoinapiBackfillProofs` | `SpendIsAccountedTheorem`, `SuccessIsVouched`, `NoConflictByCrash` | `SpendIsAccounted`, `ExitZeroIsVouched`, `CrashNeverConflicts` | `BackfillInv` |
| `QualityMapProofs` | `PurchasesAreJustified`, `VerdictsStand` | `DownloadsAreJustified`, `VerdictsAreNotOverridden` | `QualityInv` |
| | `StitchedDaysAreSound`, `WindowsStayWithinOneVendor` | `StitchIsSound`, `ValidWindowsStayWithinOneVendor` | `QualityInv` |
| `SourceGateProofs` | `KeptOutputs`, `VerdictsArePinned`, `ExpansionIsEarned` | `KeptOutputsAreCurrent`, `VerdictIsOfPinnedInputs`, `ExpansionFollowsTheProbe` | `ReconInv`, `GateInv`, `ExpansionInv` |
| | `RunsTellTheTruth`, `StopIsFinal` (the Lake downloader, whose store the gate works on) | `ExitAndReportAreTrue`, `NothingAfterStop` | `LakeInv` |
| `ReplayProofs` | `LiveIsOfflineOfAcceptedTheorem`, `BoundedFeedReplaysOfflineTheorem` | `LiveIsOfflineOfAccepted`, `BoundedFeedReplaysOffline` | `LiveInv` |
| | `SamplesAreAsOfTheorem`, `CoverageIsExactTheorem`, `ReseedsExactlyWhenStuckTheorem` | `SamplesAreAsOf`, `CoverageIsExact`, `ReseedsExactlyWhenStuck` | `SeededInv` |
| | `ReadsAreAsOfTheorem`, `SplitsDoNotLeakTheorem` | `ReadsAreAsOf`, `SplitsDoNotLeak` | `FrameInv` |
| | `DecisionsAreCausalTheorem` | `DecisionsAreCausal` | `FrameInv` with `CausalInv` |

`SumTheorems` and `FoldTheorems` hold lemmas that these proofs cite and that say
nothing of the system: what the library's sum over a finite set and a fold over
positions or over a sequence return, and what they keep.

None of the checked invariants is inductive, and the reason is nearly always the
same: a process has read something, and what it read is about to be written or
acted upon. The invariants therefore say what an operation in progress knows.

- *Ledger* (`LedgerInv`). That the file of a path loads says nothing of an
  instance that is about to replace it with its memory; that memory extends the
  file says nothing of an instance that has passed `_require_extends` and not
  replaced the file yet. So: a call that is `binding` or `loading` holds the lock
  of its target and is bound to nothing yet; one that is `writing` holds the lock
  and its memory extends the target's history; one that is `replaced` has on disk
  exactly what it will acknowledge; every memory and every file is well formed,
  and the acknowledged history is a prefix of the durable one, which is a prefix
  of the visible one. The two action properties are then one line each: the
  durable file is only ever replaced by the visible one, which extends it, and a
  prefix of a well-formed history determines the results of its trials. The
  refinement of `DurableLog` is proved step by step from the same invariant.
- *Driver* (`DriverInv`). `DriverUsesTheLedger` shows that each of its steps is
  one of the ledger, so `LedgerInv` holds of the composition; `DriverInv` adds
  that a driver between two ledger calls is bound, that the rungs behind it have
  outcomes in memory, and that the attempt of the fit in progress is on disk.
- *Holdout record* (`ConsumptionInv`). Commands overlap freely, so a read may be
  stale; what a command decided stays justified because the history of commits
  never loses the PASS it read. `SerialInv` is the part for commands that do not
  overlap: then what a command read is what is still there.
- *Acquisition* (`GateInv`). The plan is rewritten while commands wait. The packet
  on disk is always some plan's packet, and a planner at work writes what it
  planned; a days file that a command has verified is of that command's partition
  until the work reads it, or has just been emptied by a planner; and a command of
  the holdout that is past its gate runs as the custodian of the plan it read.
- *Holdout build* (`OutputsInv`, `SealInv`). Which of the four files is written,
  synced or linked at each system call, and what a stop of the machine may still
  take; then, that what is in memory was decoded from descriptors whose bytes
  were hashed against the sealed inventory.
- *Freeze* (`FreezeInv`). What is in the ledger is of the build it is pinned to;
  a run past its verification holds the two files of that build, although the
  files on disk may be another's by then; a run knows the whole ledger until it
  closes it. That the selected candidate is best among the eligible uses that a
  ranking has a least element.
- *Lake downloader* (`LakeInv`). `WorkerInv`: the lock is held by the unit that
  publishes, which has seen no cancel, and what it has staged, published and
  removed is told by its step. `AccountInv`: a unit that is neither left to submit
  nor in flight nor counted is one that needed no request. `CountInv`: what is
  counted is true of the store. `QuietInv`: no worker is at work outside the pool.
- *Backfill* (`BackfillInv`). The unit in progress against what it has listed,
  billed and streamed; the ledger against the authorization, with the torn line;
  and that the record is written before the output is replaced.
  The report of a run sums the prices of what it billed in the order of billing,
  the ledger a set of files: `SumInsert` says that the one more file adds its
  price.
- *Live replay* (`LiveInv`). What was emitted is a fold over the accepted events,
  and that it is a prefix of the offline fold says nothing of what is to come.
  So: until the flush the buffer holds just the accepted events the watermark
  has not passed, and the output is the emission of the others (`ReleasedInv`);
  the largest time is that of an event that arrived (`ClockInv`), so that a
  bounded feed drops nothing, and where nothing was dropped the accepted events
  are those that arrived, one to one (`AcceptedInv`). The lemmas
  are about the fold: emitting two sets one before the other in the total order
  is emitting their union (`EmissionInTwo`), so a release batch continues the
  offline replay; rows are only added (`EmissionLeaves`). For the whole file,
  whose order of arrival is another permutation, two events that no key orders
  and that do not conflict commute (`EmissionsCommute`), and then any latest
  event may be taken last (`EmitAnyLast`, `EmissionOfPermuted`).
- *Seeded replay* (`SeededInv`). The references are over the history of applied
  events, and the code keeps accumulators: `StreamInv` and `GridInv` order the event read, the history and the samples
  that are out; `EpisodeInv` says which event began the crossing under way, and
  that nothing interrupted it; `DurationInv` that the time accounted and that of
  the crossing under way are the sum over the events but the last; `RunsInv` and
  `BoundsInv` that the closed runs and the open one are the maximal runs of
  invalid samples so far.
- *Frame build* (`FrameInv`). Nearly everything here is a fold, run within one
  step, and the property speaks of the frame at the end. So the state needs
  little: the objects are those of the days so far and their book streams are in
  order (`ObjectsInv`), the open clock holds bars of trades (`OpenClockInv`), the
  decisions, the held-back one included, each were read from the stream of their
  day (`DecidedInv`), and rows and records are of decisions (`RowsInv`). The work
  is in the lemmas about the folds, each an instance of `FoldTheorems` for its
  operation. A book is told by the set of events applied: at every level what the
  last of them to move it left (`Shows`, `BookOfShows`), so two folds of one set
  in different orders are one book if a straggler never moves a level that a
  later event has moved. That is what `dual_book_reads` promises over several
  decisions with a heap of events received late, and `ReadsAsOf` proves of it
  whatever the times and the cap. By `CoalesceIs` the times of a day's
  decisions increase, which that read demands. For the splits,
  `SpansAreMerged` says that every test label lies within one merged interval,
  `PurgedIsEnough` that purging by them and by the embargo
  leaves no training label over a test label and no look-back into one, and
  `ConcurrencyCounts` that the weights count the open labels. A row's barrier is
  never before its decision (`LabelsAre`, `HorizonRows`), over the path of a whole
  segment (`SegmentPathIs`).
- *Causality of the build* (`CausalInv`, beside `FrameInv`). `DayInv`: the clock
  has seen a first part of its day's trades, in their order, and its bars come no
  earlier than any before (`CausalClock`, kept by every push, deadline and close:
  `PushCausal`, `FireUntilCausal`, `FinishCausal`). `DaysInv`: the bars of each day
  before partition its trades. `HeldInv`: the decisions made and the one held back
  coalesce every bar so far, or none is held and `lastT` is the time of the last
  bar, which is why the code must check the first bar after a gap against it.
  `IsCoalesced` says what a coalesced sequence has without computing it; only one
  sequence is that (`OneCoalesced`), and the next day's bars keep it
  whether they supersede the held decision or not (`CarryOn`). That the watermark
  never regresses across a day, an error the code calls impossible, is
  `NeverRegresses`.
- *Quality map* (`QualityInv`). `BatchInv`: what is still to load fits this month
  beside what was pulled (unless a load began on a lagging reading), and whatever
  a report says of a day was so, under whichever calendar it was judged.
  `ReviewInv`: a verdict, the manifest and the accepted plan are the review's of
  reports that were true. From there the argument is static: a verdict without
  blockers means a complete map whose classes agree with the calendar
  (`ReadyMapIsComplete`), so a day that no resolution decided is in the manifest
  as the batches judged it (`ReviewedManifest`), and such a record asks for a
  fill just where Lake is not usable (`RecordsAreHonest`). It needs nothing of
  the files between the reading and the hashing.
- *Stitched days* (`QualityInv` again). Every plan in a report is that of a true
  record, so what remains is about one mask. The cuts of the day are positions in
  order (`CutsAre`), and Lake's part does not change between two of them, so the
  segments are a partition whose Lake segments are the maximal runs of what Lake
  serves (`SegmentsAre`); the spans that qualified are apart, because a filled run
  lies between them, so a Lake segment is exactly one of them (`LakeSpans`,
  `StitchedOk`). Between two seams the sources of neighbours agree, hence those of
  all the segments of a window (`OneVendor`); a valid label, a valid feature and a
  sample outside the guards have no seam in their window by arithmetic alone.
- *Stage 2* (`ReconInv`). One part per store (`RootInv`): what its run knows at each
  of its steps, of which inputs its records speak, and that a file is what some
  build left under the record that is there or to come. Runs of other stores
  touch none of it, and a refresh (`RawStep`) only makes identities newer, so that
  what was identified before is no longer done. An output that is kept was
  therefore read under identities that hold now, whichever engine read it.
- *Verdict* (`GateInv`, `MeaningInv`). A ghost in the proof, `M[f][i]`, is the content
  that file `f` had under identity `i`: no two contents have one, because
  identities never come back. A record, or the run about to make one, is spoilt for
  an identity if it read something else under it. Of two stores both are spoilt only
  if the file was replaced when both runs had identified it and neither had read it
  (`PairsInv`), which `replacedUnderTwo` remembers and the property excepts. A
  spoilt record differs from one that is not, so where the manifests of two engines
  agree both read what their identities mean (`ComparedInv`), and where those are
  the verified ones that is what is pinned (`VerifyInv`).
- *Expansion* (`ExpansionInv`). A sibling is what its sidecar says, a validation is of
  the object it names, and what a command has hashed lies there still when it
  reads it, for every object that no killed command left half done and nobody
  replaced in that moment (`Spared`). The evidence of a fetch joins a fetch, a
  validation and a replay of the probe by hashes, so under `Spared` it is one
  object.

Assumed are only the named assumptions of the modules, which TLC evaluates for
each instance: markers for "none" are not values (`SentinelAssumption`,
`NoFileAssumption`, `NoneAssumption`, `RecordAssumption`, `NoExit` in
`LakeAssumption`, `NoBuild` in `SelectionAssumption`); functions and subsets have
the shape their names say (`PinAssumption`, `LadderAssumption`,
`FreezeAssumption`, `LakeAssumption`, `BackfillAssumption`, `ReconAssumption`,
`SelectionAssumption`); the partitions of the plan are disjoint
(`DaysAssumption`); times, prices and sizes are numbers, a day file is a finite
sequence, sample times increase (`FileAssumption`, `GridAssumption`,
`StreamAssumption`), the days and streams of a frame build are in order and no
event is received before it happened, as `iter_normalized_trades` and
`iter_normalized_book_events` check, and the absent time is no time (`FrameAssumption`), and the watermark exceeds the skew, which the docstring of
`recon/live.py` demands (`WatermarkAssumption`); the normalized layer is one (`LayersAssumption`); a manifest
has distinct units in day order (`BackfillAssumption`); there is a unit of the
top-k product (`ReconAssumption`); the probe is an object, and
a file is zstd or plain parquet with some rows (`DecisionAssumption`); trades,
liquidations and funding are no top-k products (`GateAssumption`);
a day has a sample, as `plan_day_stitch` checks (`SampleAssumption`), and the
stitch policy's durations are numbers (`StitchAssumption`);
a day fits an empty month and a batch (`QuotaAssumption`, `BatchAssumption`: the
rates are constants of the code, and `days_per_batch` refuses a budget under one
day); the days of a calendar are days.

Model-checked only:

- liveness (`RunEnds`, `EveryBatchIsMapped`) and everything about `ENABLED`,
  which the prover does not do;
- what a fold over many stages computes, where the code's order is a sort or a
  filter that the prover treats as opaque (`SelectSeq`, `SortSeq`): the replay of
  a vendor's hours (`CompletedReplaysAreTrue`). The order of `OrderBook` is stated
  without a sort (`Before`, `Latest`), its fold and those of the frame build are
  over sets of positions (`Positions`), and their existence follows by induction
  over the subsets of a finite set (`SubsetInduction`): that is what made
  `ReplayProofs` possible;
- `RowsAreSupported` and `EveryDecisionIsAccounted`, which relate the labels of
  whole segments to the true book and the decisions to rows and drops: `FrameInv`
  says of every entry that it is a well-made one, and these need that none is
  missing and that the labeller's pull of the path never falls behind;
- `DecisionComparesLikeWithLike`, which rests on frames of different windows
  being different contents, a matter of the instance.

## 5. Not modelled

Within modelled components: `recorded_at`, error texts, hashes as numbers; the
dry run, the size gate's arithmetic and Parquet schemas of the Lake downloader,
and a second downloader started while one runs (the `skip` status needs one); the
failure of writing the final report; mid price, microprice and NaN of the book;
a `push` after `flush`; a power loss of the consumption record (only the ledger
and the holdout writer sync, and only there is the difference claimed by the
code); `_preflight_out`'s probe file is one step with its check. Of the CoinAPI
downloader: sample mode, `--keep-raw`, dry runs, an empty fill scope, two
executions at one time, and a ledger line cut exactly before its newline, which
counts as torn. What makes a manifest acceptable is one predicate there
(`Acceptable`); `BackfillReview` has the checks themselves.

Of the quality map and the review: metrics no decision reads, documents whose
shape their writer never gives them, the inspection mode of the reviewer. Of the
gate and the freeze: prices, sizes and the text of the packet, and the schema
validation of the protocol config. Of the frame build: the values of features and
costs, and price rounding; a width is the largest past return, because any
function of the past would do.

Three things about the money of the backfill are outside `SpendIsAccounted`
because the code does not promise them: the file whose delivery began and whose
row was not yet written when the process died; a row that follows one whose write
failed half-way in a run that went on (`cut`); and two overlapping executions,
which read the same total. `CrashNeverConflicts` is of runs without
`--overwrite`.

Components left out, and why, are in `PROJECT.json`: numerical code (fits,
statistics, features, synthetic data), the trial ledger of the earlier study with
its numerical pipeline, pure validators of contracts, the L3 book of
`recon/coinapi.py`, the Rust engine (a second implementation of
`recon/reseed.py`, tied to it by differential tests), the snapshot-seed
experiment, feed validation and exploration scripts.

## 6. Plan

Order: what can lose money or validity first, then what can lose data, then pure
algorithms.

1. `DurableLog`, `G0BNLedger`, its proofs, `G0BNDevelopment`: done.
2. `HoldoutConsumption`, `AcquisitionGate`, `CustodySeal`, `HoldoutBuild`,
   `DevelopmentFreeze`: done.
3. `LakeDownload`, `CoinapiBackfill`: done.
4. `OrderBook`, `LiveReplay`, `SeededReplay`, `BarClock`, `BookReads`,
   `TripleBarrier`, `FrameBuild`: done.
5. `StitchPolicy`, `CoinbaseQualityMap`, `QualityMapBatches`, `BackfillReview`,
   `QualityMapPipeline`: done.
6. `BinanceRecon`, `SourceGate`, `ChdReplay`, `SourceDecision`: done.
7. Proofs of the ledger and the driver, the holdout transaction, gate and build,
   the freeze, both downloaders, the quality map and its review, stage 2 and the
   source gate: done (section 4).
8. Proofs of the two replays of the book, and of the reads and the splits of the
   frame build: done. Left are the accounts of the frame build across days.
9. Open: `TrialLedger` with the `g0cb` command, the L3 book.
