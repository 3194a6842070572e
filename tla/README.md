# Specifications of the attested-compute control logic

This directory holds TLA+ specifications of the parts of the repository that
decide what counts as done: which work is finished, which receipt is retained,
what a campaign artifact commits to, what an operator may do next. They are
written from the source, model-checked with TLC on small instances and, for the
core, proved with TLAPS for every value of the constants.

The repository computes finite numerical obligations (zeta zeros, Goldbach
ladders, Dirichlet L-functions) on cloud machines, attests the runs, and turns
the signed results into inputs of Lean theorems. The numerics live in Lean, CUDA,
C and C++; they are sequential and outside TLC's reach. The control logic is
Python: long campaigns cut into units, run by machines that are preempted,
killed and restarted, with shared files as the only state. That is what is
modelled here.

## 1. Inventory

| Part | State | Operations | Why it is hard |
|---|---|---|---|
| Platt PT21 work-unit scheduler (`tg_verifier/platt_windowed_scheduler.py`, `tools/tg_platt_windowed_scheduler.py`) | leases, checkpoints, unit receipts, digest lists, shard receipts, campaign artifact: one file each | `init`, `work`, `run-unit`, `replay-unit`, `seal-shard`, `finalize`, `status` | any number of processes on a shared directory without a lock; preemption and kills; stolen leases; duplicate runs; pruning |
| CPU production operator (`azure/cpu_production_orchestrator.py`) | hash-chained journal, state head (a cache of it), recorded artifacts, operator lock | `init`, `deploy`, `challenge`, `ack-worker-stage`, `ingest-returned`, `appraise`, `issue-receipt`, `generate-review-candidates`, three `reconcile-*`, `recover-state-head` | kills between two file writes; children that time out after their side effect; side effects that must not be repeated |
| H100 production operator (`azure/h100_production_orchestrator.py`, `attestation/measured_run_archive.py`) | one state file, recorded artifacts, operator lock; on the guest: extracted root, run package, evidence, archive, completion | the same commands, and `worker-run-local` on the guest | kills and outliving children on both sides; guest calls without a lock; files that come back one by one |
| Receipt issuer (`tools/trusted_compute_receipt.py`) | the spent-challenge table (SQLite), receipt files | `issue`, `verify` | one challenge, one signature: concurrent issuers, a kill between reserve, sign, install and mark |
| Measured runner (`azure/measured_runner.py`) | run package in a staging directory, PCR 23 of the machine | `execute_job` | any number of runs use one register without a lock; a quote that comes late; hanging children |
| Eviction accounting (`tg_verifier/azure_eviction.py`) | append-only attempt ledger, quarantine directory | `retry_decision`, `record_attempt`, `quarantine_attempt`, `verify_leaf_receipt_coverage` | two steps (quarantine, record) with a kill between them; retry budget |
| Two-phase residual campaigns (`tg_verifier/hurst_residual_campaign.py`, `tg_verifier/psi_residual_campaign.py`, with `tg_verifier/campaign_io.py`) | set-up, receipts of two phases, derived inputs, leaves, certificate, registered result; an advisory lock | `initialize`, `run-phase`, `ingest`, `reduce`, `finalize`, `verify`, `write-registered-result` | runners work outside the lock from what was read under it; interrupts; kills between two files |
| Generic campaign checkpoints (`tg_verifier/campaign.py`) | accumulator checkpoints | shard runs, aggregation | resume of one process |
| H100 cluster and portfolio (`tg_verifier/h100_cluster.py`, `tg_verifier/azure_portfolio.py`) | handoff files, challenge batches, leaf receipts | dispatch, merge, materialize | exactly-once coverage of leaves |
| Dirichlet pipeline supervisors (`tg_verifier/dirichlet_tblock_bundle_supervisor.py`, `dirichlet_tblock_supervisor.py`, `dirichlet_source_supervisor.py`, `dirichlet_tmajor_spool.py`) | staged bundles, compact states, hash-chained checkpoints, lane receipt | start, resume, feed, admit, reduce, commit, finish | no lock: overlapping runs look for a file and then rename over it; kills that leave half a block |
| Build tools (`tools/safe_lake_build.py`, `proof_build/`) | locks and containers of one build host | guarded builds | operating-system resource limits |
| Attestation collectors and verifiers (`attestation/`) | none between two calls | parse and check evidence | pure functions of their input |
| Lean library, GPU kernels, C and C++ checkers, schemas, documents (`SparkInterval/`, `gpu/`, `reference/`, `cpu_checker/`, `launcher_build/`, `specifications/`, `vendor/`) | none | numerics and proofs | not control logic |

**How the parts interact.** A campaign (scheduler, generic campaign, Dirichlet
pipeline) cuts a computation into leaves. A leaf that must be attested is run by
the measured runner on a machine that an operator (CPU or H100) deployed for
one challenge; the operator ingests the returned package, has it appraised and
calls the receipt issuer, which burns the challenge, signs and installs one
receipt. Eviction accounting decides whether a lost leaf may be tried again
with a fresh challenge. Everything is passed through files; a call either is a
child process or a function in the same process.

**What makes each part correct.**

* Scheduler: a unit receipt is a whole unit of what the pinned runner printed
  for its own blocks; it never changes; the campaign commits to one unbroken
  chain of Turing counts; nothing that was finished is lost by pruning or a kill;
  a lost node's units are finished by somebody else; a kill loses little.
* Operators: a side effect is started at most once; after any failure the
  journal is a legal chain and some command leads on; an artifact that was
  recorded is never another one later.
* Receipt issuer: at most one receipt for a challenge, for all time; a receipt
  that exists is complete; a row marked signed has its receipt.
* Measured runner: nobody else uses the register between the start check of a run
  and its quote without spoiling the quote; a run left alone always appraises; no
  quote is late; a published package is final.
* Residual campaigns: the directory replays at every moment; a result is registered
  only if every shard was computed twice with one outcome; files never change.
* Bundle supervisors: what a checkpoint, a state or a receipt commits to is what
  is staged; a directory that one run at a time worked on can always be resumed.
* Eviction accounting: one completed attempt and one receipt for each leaf, a
  dead attempt's workspace is out of the reach of ingestion.

## 2. Plan

| Step | Modules | State |
|---|---|---|
| 1 | `WindowedGeometry`, `CampaignLedger`, `WindowedScheduler`, `MCWindowedScheduler`, `WindowedGeometryProofs`, `WindowedSchedulerProofs` | done |
| 2 | `OneTimeChallenge`, `ReceiptIssuer`, `MCReceiptIssuer`, `ReceiptIssuerProofs` | done |
| 3 | `OrderedSteps`, `CpuOperator`, `CpuOperatorProofs` | done |
| 4 | `PhaseLedger`, `AffineCampaign`, `MCAffineCampaign`, `AffineCampaignProofs` | done |
| 5 | `MeasuredRun`, `MeasuredRunProofs` | done |
| 6 | `H100Worker`, `H100Operator` (composed with the worker and the files between them), `H100OperatorProofs` | done |
| 7 | `BundleSupervisor`, `MCBundleSupervisor`, `BundleSupervisorProofs` | done |
| 8 | `AttestedCampaign`: the operator composed with the issuer, so that a reconciled receipt is the one the issuer signed | open |
| 9 | `SegmentPipe`: the runner process behind `_run_segment`, its two pipes, timeout and signals | open |
| 10 | Theorems: the refinement `WindowedScheduler => CampaignLedger`, and under named hypotheses receipt stability, the loss bound and what is retained beside a campaign | done |

Abstract specifications come with their components: `CampaignLedger` for the
scheduler, `OneTimeChallenge` for the issuer, `PhaseLedger` for the residual
campaigns and `OrderedSteps`, which both operators implement.

## 3. The scheduler

### Modules

* `WindowedGeometry`: blocks, units and shards, with the clamped last unit and
  last shard. Pure operators; the assumption is what `create_schedule` checks.
* `WindowedScheduler`: the system. `lease`, `ckpt`, `receipt`, `digests`,
  `sealed` and `campaign` are the files; `worker` and `operator` hold the local
  variables and the program counter of each process. No lock is held anywhere
  in the code, so **each file operation that another process can observe is one
  action**: the test whether a receipt exists (`CommitUnit`) and the rename that
  installs it (`ReplaceReceipt`) are two steps, and so are unlinking an expired
  lease (`StealLease`) and creating the new one (`RetakeLease`).
* `CampaignLedger`: the abstract specification: finished units only grow, a
  shard closes over finished units, the campaign is published over closed
  shards, nothing is undone.
* `MCWindowedScheduler`: definitions the configurations use.
* `WindowedGeometryProofs`, `WindowedSchedulerProofs`: theorems.

| Code | Actions |
|---|---|
| `work`: `next_unit`, `claim_unit` | `Launch`, `EnterShard`, `ListShard`, `ClaimUnit`, `TakeLease`, `ProbeLease`, `StealLease`, `RetakeLease` |
| `run-unit` | `RunUnitDirect` (no claim, optionally `--no-resume`) |
| `run_unit`, `_run_segment` | `StartUnit`, `LoadCheckpoint`, `RunBlock`, `FinishSegment`, `Preempt`, `ReleasePreempted` |
| `_commit_unit` and the end of `run_unit` | `CommitUnit`, `ReplaceReceipt`, `UnlinkCheckpoint`, `ReleaseUnit` |
| `seal_shard` | `SealShard`, `ReadUnit`, `CheckSealed`, `WriteDigests`, `WriteShard`, `PruneUnit` |
| `finalize` | `Finalize`, `ReadShard`, `WriteCampaign` |
| kills, vanished files, time | `CrashWorker`, `CrashOperator`, `LeaseExpires` |

`work --seal-when-complete` seals after its last unit: an operator process that
seals at that moment has the same effect on the files, so it needs no action of
its own. `replay-unit` and `status` only read.

### Abstractions

* A transcript is the sequence of its block records, and a record keeps the
  Turing counts at the two ends of its block. The per-record test of
  `parse_transcript` (the zero count is the difference) is built in; the test
  between records is `Contiguous`.
* A digest is the data it commits to. The Merkle root of a shard is the sequence
  of its leaves: the number of leaves is fixed by the schedule, which is also why
  duplicating the last entry of an odd level loses nothing here.
* `Runner[b]` is the set of records the pinned runner may print for block `b`: one
  record on a correct machine, more when machines may be faulty. What the model
  shows for more than one record holds whatever the runner prints.
* A lease is absent, live or expired. It may expire at any time; renewing it and
  storing the checkpoint are one step, because expiry may follow at once.
* `_atomic_write` is one step. A kill before its rename leaves a temporary file no
  reader looks at (`status` counts it; that is a display).
* A vanished file between `exists` and `read` raises: `CrashWorker` and
  `CrashOperator` cover it, and take one of the `MaxFaults` faults.
* The program holds an empty record list only in a checkpoint stored by a
  preemption before the first block; it is the same as no checkpoint.

### Properties

| Property | Kind | Says |
|---|---|---|
| `TypeOK` | invariant | kinds of values; every index inside the schedule |
| `ReceiptSound` | invariant | a receipt is exactly its unit's blocks, as printed, chained |
| `CampaignSound` | invariant | the campaign commits to one record for every block, chained over every block, unit and shard boundary, though no process sees more than the endpoints of the level below |
| `ShardRootRecomputable` | invariant | the digest list of a sealed shard is the one its root commits to |
| `CampaignLeaves` | invariant | a campaign commits to the unit digests its shard receipts hold now, although a second seal may rewrite a receipt `finalize` has read |
| `LossBound` | invariant | a kill loses at most one checkpoint interval of an unfinished unit |
| `ReceiptStable` | action property | a receipt is never replaced by a different one |
| `LedgerSpec` | refinement | the scheduler implements `CampaignLedger` |
| `LostUnitsReturn` | liveness | a unit whose lease expired is eventually finished |

### Runs

| Run | Instance | Shows |
|---|---|---|
| `windowed_duplicates` | 2 workers, 1 operator, 3 blocks in units of 2, 1 fault, correct machines | receipts never change: duplicate runs are harmless when machines agree |
| `windowed_operators` | 1 worker, 2 operators, 3 units in 2 shards, faulty machines | the chain between shards survives concurrent seal, prune and finalize; two seals of a shard that race, while pruned units are run again with other outcomes, leave its root recomputable and a campaign's digests as they are; an operator that stops for ever between any two file operations undoes nothing (no fairness: stopping is a behaviour) |
| `windowed_resume` | 1 worker, 1 operator, units of 5 and 3 blocks, checkpoints every 2, 2 faults | resuming from any checkpoint, with or without `--no-resume`, loses at most an interval and commits a sound receipt |
| `windowed_recovery` | 2 workers, one stays lost, weak fairness | expired leases are stolen and the units finished |
| `windowed_overwrite` | 2 workers, faulty machines | **violates** `ReceiptStable` |

*Bounds.* Two processes of each kind suffice for every race on a file: a race has
two parties, and what a third one could add is another instance of the same one.
The geometry is chosen so that the last unit or the last shard is clamped, a unit
has a boundary inside it, and a shard and the campaign have one between their
parts. Checkpoint intervals of 1 (every block) and 2 (a remainder at the end of
the unit) occur. `MaxFaults` bounds kills, preemptions and runner failures.
`LaunchArgs` and `DirectUnits` list the command-line arguments; a `work` command
may end after any unit (`--max-units`).

*Deadlock* is checked everywhere: a process that is idle can always be started
again, so a state without a step would be a modelling error.

*Fairness* (`FairSpec`, `windowed_recovery` only). A running worker keeps running
(`WF` on its steps: nothing in the code waits for another process), a supervised
worker is started again, and clocks advance (`WF` on `LeaseExpires`). Sealing and
finalizing are operator decisions and get none; faults get none and are bounded.

### Where the code and its documents disagree

1. `_commit_unit` tests for a receipt and then renames over it. Two workers that
   disagree can both pass the test; the later rename wins silently, where the
   document promises that a disagreement fails the campaign (`windowed_overwrite`).
   `CampaignsSound` shows that the damage is contained: the campaign is chained
   whatever the machines print.

Three more come out of the same module with other constants. No configuration is
kept for them, since each needs an instance of its own.

2. `on_progress` stores its own prefix unconditionally. After a steal two workers
   run one unit, and the one behind shortens the other's checkpoint: `LossBound`
   needs that no unit is run by two workers, and `LossBounded` proves it from that.
3. `seal_shard` tests for `shard.json` and then renames over it, and `units_pruned`
   is part of the digest. A campaign finalized between two concurrent seals
   commits to a shard receipt that no longer exists: `CampaignRetained`, that the
   receipts are byte for byte the committed ones, needs one operator at a time, and
   `CampaignsRetained` proves it from that. With several, `CampaignLeaves` is what
   is left, provided that machines compute correctly or that no unit is run by two
   workers: the digests still agree, and only the note of what was pruned may differ
   (`windowed_operators` checks it, `CampaignsCommit` proves it).
4. `next_unit` applies the stride filter before it looks at leases: on a fixed
   partition nobody steals a lost node's leases, and `LostUnitsReturn` fails.

### Proofs

`WindowedGeometryProofs` proves what the geometry promises, from the assumptions
of `create_schedule`: units and shards are nonempty, cover the blocks exactly,
and two adjacent blocks (units) lie in one unit (shard) or end one and begin the
next. The arithmetic is about division by a positive constant and needs no
induction.

`WindowedSchedulerProofs` proves, for every geometry, any number of processes,
any runner and any number of faults:

* `TypeCorrect`: `Spec => []TypeOK`;
* `ReceiptsSound`: `Spec => []ReceiptSound`;
* `CampaignsSound`: `Spec => []CampaignSound`;
* `Refinement`: `Spec => LedgerSpec`;
* `CampaignsComplete`: while a campaign artifact exists, every shard is sealed and every
  unit finished.

The findings above are races the code admits, so the other properties do not hold of
every instance. They are proved under hypotheses on the constants, each named for what
the operators of a campaign would have to ensure:

| Hypothesis | Means | Theorems |
|---|---|---|
| `OneOutcome` | machines compute correctly: the runner prints one record per block | `ReceiptsStable`, `RootsRecomputable`, `CampaignsCommit` |
| `Apart` | no unit is run by two workers: their partitions (`Scope`) are disjoint; it holds of one worker | `LossBounded`; the three above in place of `OneOutcome` |
| `Sole` | one operator seals and finalizes | `CampaignsRetained`; `RootsRecomputable` and `CampaignsCommit` in place of `OneOutcome` |

`ReceiptsStable`, `RootsRecomputable` and `CampaignsCommit` have a disjunction of these: any
one of theirs is enough. `windowed_overwrite` violates `ReceiptStable` in an instance with neither of its
two.

The inductive invariant `IInv` is needed because `CampaignSound` speaks of records
that pass through five places before they reach the artifact. It says, for each
place, what may be there: a checkpoint is a printed prefix of its unit; a
worker's progress is one too, and a whole unit once it is about to commit; a
receipt is a whole unit; what an operator has read so far is a chain of whole
units of its shard, a whole shard once it is complete; a sealed shard is a whole
shard; what `finalize` has read is a chain of whole shards. Each action touches
one or two places. The last step, from chained shards to chained blocks
(`UnitsOfCampaign`, `CampaignsSound`), is where the geometry is used: a block
boundary lies inside a unit, between two units of a shard, or between two
shards, and each case was tested by a different process.

`IInv` gives each file and each process local a predicate over constants. That is not
enough for properties that compare two files, or a file now and later: a process acts on
what it read some steps ago, and others have written since. The second layer says what
of it is still true. Each of its invariants was checked with TLC before it was proved.

* `BackedInv` (for `Refinement` and `CampaignsComplete`): the units whose digests an operator
  holds are finished, the shard it prunes and those it binds are closed. Finished and
  closed only grow (`BackedMonotone`), so no write of another process spoils it; the
  one step that removes something, `PruneUnit`, removes receipts of a closed shard.
  `LedgerStep` then maps every step to a step of `CampaignLedger` or to a stutter, and the same
  lemma is what makes `BackedInv` inductive. `PublishedInv` adds that the shards stay
  closed under an artifact.
* `ScopeInv` (needed with `Apart`): a worker stays inside the units of its partition and of
  `run-unit`, through stealing and restarting.
* `CommitInv` (for `ReceiptsStable`, with `Apart`): between the test of `CommitUnit` and the
  rename of `ReplaceReceipt` no receipt appears. With `OneOutcome` it fails and is not
  needed: two whole printed units are then equal (`OneReceipt`).
* `LossInv` (for `LossBounded`, with `Apart`): what a running worker holds beyond the
  checkpoint of its unit is at most the blocks since the last multiple of the interval.
  The bound itself is not inductive: it says nothing of where in the interval the
  worker is, nor of how far the checkpoint it resumed from had come.
* `DigestsInv` (for `RootsRecomputable`, with `OneOutcome`): the digest list is there before
  the shard receipt and is a whole shard; two whole shards are then equal (`OneShard`).
* `HeldInv` (for `RootsRecomputable` and `CampaignsCommit`, with `Apart`): however many
  operators race, what one of them has read is what the files hold. As long as a
  shard is not sealed nothing in it is pruned, so the receipts of its units stay
  as they were read (`OpenReceipts`), and two operators that have read the same
  shard hold the same digests (`HeldAgree`): the slower seal writes what is there.
* `SoleInv` (with `Sole`): what the operator has read is what the files hold: the shard it
  is about to seal has no receipt yet, its digest list is the one it holds, and what
  `finalize` has read are the shard receipts as they are. `RetainedShards` shows that it
  seals nothing under an artifact.

### Only model-checked

`LostUnitsReturn`: liveness under fairness, and with it `ENABLED`, is out of the prover's
reach, and so is induction over data (none of the theorems needs it). Every other
property of the runs is stated by a theorem, those of the table above under their
hypotheses. Conversely `CampaignRetained` is only proved: with one operator, where it
holds, the race it is about does not occur, so no run is spent on it.

### Not modelled

The runner process behind `_run_segment` (its pipes, the timeout, the order of
signal and end of file; planned as `SegmentPipe`), retained logs, the prefix
receipt of `finalize` (an input that is only checked and copied), and the machine
guard of the command line.

## 4. The receipt issuer

`tools/trusted_compute_receipt.py issue` turns a measured run into one signed
receipt. The relying party keeps a challenge; the issuer burns it in a database
before anything is signed, and "failure remains spent".

| Code | Action of `ReceiptIssuer` |
|---|---|
| arguments, output path | `Begin` |
| `_snapshot_regular_file` of the retained challenge | `Snapshot` |
| `_reserve_challenge` (one immediate transaction) | `Reserve` |
| `_run_evidence_verifier` and the comparisons after it | `Appraise` |
| `_sign_external` | `Sign`: it may fail after it has signed |
| `_install_new_receipt` (`os.link`) | `Install` |
| `_mark_challenge_signed` | `MarkSigned` |
| every exception, and a kill | `Fail`: local state is lost, nothing is undone |
| the relying party stores another file under a used name | `StoreChallenge` |

*Abstractions.* One replay database (its path is configuration). A bundle is its
wire statement; the backend is part of it. Policy and verifier snapshots work
like the challenge's, and no property depends on them. `verify` only reads.
The signer counts what it signed (`signings`), which the code cannot see: that is
the ghost variable the main property is about. `Invocations` are the command lines
that are run. No bound is needed: rows only grow.

| Property | Says |
|---|---|
| `OneSignature` | at most one signature for a nonce, whoever runs, retries, times out or is killed |
| `ReceiptAccounted` | what was burned is what was appraised, though the challenge file may be replaced meanwhile |
| `OneReceipt` | two output paths never hold receipts for one nonce or one challenge (proved, no run) |
| `SignedHasReceipt` | a row marked signed names an installed receipt (proved, no run) |
| `FailureRemainsSpent` | a burned challenge whose call ended without a receipt never gets one (action property) |
| `OneTimeSpec` | the issuer implements `OneTimeChallenge` |

`receipt_concurrent` checks the others: two issuers, three bundles of which two claim one
nonce, three challenges of which two state it, two output paths. Two issuers
are the two parties of every race on a row or a path.

*Proofs* (`ReceiptIssuerProofs`): all of the above for any number of issuers,
challenges, bundles and paths. None of them is inductive: `OneSignature` says
nothing of the calls that are about to sign. `IInv` adds that a call past
`Reserve` owns exactly its row and no other call owns it (`Owns`), rows have
different challenges, nothing is signed without a row or while a call waits for
the signer (`SignedOnce`), what is signed was appraised against the copy
(`Appraised`), and no receipt for its nonce exists before a call installs its own
(`Installs`). `Reserve` establishes these because the row was absent and its
challenge unused; every later step consumes the call's own row. The refinement
follows: `Reserve` maps to `Burn`, `Install` to `Issue`, all else to a stutter.

## 5. The CPU production operator

`azure/cpu_production_orchestrator.py` takes one campaign through deployment,
challenge, worker handoff, ingestion, appraisal, issuing and review. The journal
directory holds one file for each event and is the state; the state file is a
cache of it. A command holds an exclusive lock, so commands do not interleave; the
difficulty is **what is left behind** when a command is killed, fails, or its
child outlives it.

`CpuOperator` splits a transition at the file operations that a kill separates: a
temporary file in the journal directory (`CreateTemporary`), the event
(`InstallEvent`), the state file (`ReplaceHead`). A step `k` goes through the stages
`<<k, "busy">>` and `<<k, "done">>` or `<<k, "failed">>`: the code's
`*_in_progress`, its success stage and its reconciliation or failure stage.

| Code | Actions |
|---|---|
| `initialize_state` | `InitializeState`, then the writes |
| `deploy`, `create_challenge_step`, `ingest_returned_package`, `appraise`, `issue_receipt`, `generate_review_candidates` | `DeployCommand` ... `GenerateReviewCandidates`: `Begin` (checks and entering), `Launch`, `AcceptAnswer`, then the writes; `ExtractArchive` for ingestion |
| `reconcile_*` | `Reconcile` |
| `record_worker_stage_handoff`, `acknowledge_worker_stage`, `recover_state_head` | actions of the same name |
| `_transition`, `_atomic_write` | `CreateTemporary`, `InstallEvent`, `ReplaceHead` |
| the `except BaseException` of a step | `RaiseError`: the failure transition is written through the same three actions, and may fail too |
| kill of a command; the child goes on | `Kill`, `ChildInstalls`, `ChildEnds` |
| people: an inspected deployment record, a returned package | `InspectDeployment`, `WorkerReturns` |

*Abstractions.* The digest of a record is the artifact. Digest chain, campaign and
configuration hashes of an event are not state: nothing writes a wrong one, and
a foreign file in the journal is covered by `stray`. The two challenge modes differ
in who writes the file. The two generators of the review step and its two files
count as one. A half-extracted package is the same as none: extraction needs a
fresh directory and ingestion is attempted once. Completion and archive are one
value, since a pair that does not match is refused. A repeated command at its
completed stage only reads.

| Property | Says |
|---|---|
| `NoBlindRetry` | no child with a side effect is started twice in the life of a campaign |
| `JournalLegal` | the journal is always a chain that later commands accept, though failure handlers run after half-done transitions |
| `RecordsHold` | a recorded artifact exists and stays what was recorded, though children of killed commands go on writing |
| `ResultsAgree` | report, appraisal and receipt are for one result, though the returned package may be replaced at any time |
| `OrderedSpec` | refinement of `OrderedSteps`: steps in order, one attempt each, adopted artifacts stay adopted |
| `LockReleased` | every command ends |

`operator_kills` checks them on a whole campaign with two possible
results of the returned package: two are what it takes for a disagreement. There is
no bound on kills or errors: every stage is entered once, so the state space is
finite by itself. A campaign ends, or is stranded by a kill, so deadlock is not
checked.

*Fairness.* `WF` on the steps of a running command: `subprocess.run` is always
given a timeout, and no file operation waits for another process.

*A promise the code does not keep.* The docstring says that an ambiguous outcome is
recorded for reconciliation. The reconciliation stage is written by an exception
handler, so a kill (or a handler that fails as well) leaves the in-progress stage.
`deploy` then says "reconcile ambiguous state first", and `reconcile-deployment`
answers that it is not required. No command leads on, while the VM, the challenge
or the signature may exist. The model reaches these states (`Kill` at a busy
stage); no run is kept for them. `NoBlindRetry` shows that the other half of the
docstring holds: nothing is retried.

Two more ways to stop for ever are in the model without a property, because no
document denies them: a kill inside the write of an event leaves a temporary file
in the journal directory, which every reader then refuses (`stray`), and a kill of `init`
between its `mkdir` and its first event leaves an empty journal.

*Proofs* (`CpuOperatorProofs`): `TypeOK`, `NoBlindRetry`, `JournalLegal`, `RecordsHold` and
`ResultsAgree` for any set of results and any number of kills, errors and
replaced packages, and that the operator implements `OrderedSteps`. None of these
is inductive by itself; three invariants carry them.

* `ControlInv` relates the command that runs to the journal it wrote: a write under
  way still finds the stage it started from (`WriteInProgress`), a command whose
  child may run is at its step's busy stage (`Entered`), and a step that was
  started has been reached in the order of the stages (`StartedOnce`). A second
  start needs a second entering, which needs an earlier stage, and every event
  raises the `Rank` of the stage.
* `DataInv` adds who puts what where (`Contents`): an artifact with a result holds
  the extracted package's, which is extracted once and is there from the end of
  ingestion on; a child installs only what it was started for; a write that
  records a file has found that file. With it a file that an event names cannot
  be written again.
* `Passed` says that every stage up to the present one left its events and none of a
  later stage is there. The journal is never read by induction: what a legal chain
  of any length holds follows from this invariant, one event at a time. It gives the
  refinement: entering a step maps to `Attempt`, its success or its reconciliation
  to `Adopt`, a failure and every other action to a stutter.

`LockReleased` is only model-checked. The theorems, like the runs, speak of
files that only the program, its children and the two people of the table
write: a recorded file edited by hand is caught by the `Unchanged` guards, which
are modelled, but no action edits one.

## 6. Residual campaigns

`tg_verifier/hurst_residual_campaign.py` runs a computation twice. Phase one retains a
summary receipt for each shard; `reduce` derives from all of them the state every
shard starts from; phase two retains a verify receipt for each shard, run from
that state; `finalize` writes a leaf for each shard and the certificate.

| Code | Action of `AffineCampaign` |
|---|---|
| `initialize_campaign` | `Initialize`, then `WriteSetup` for each of its five files |
| `ingest_receipt` | `IngestReceipt` |
| `run_phase` | `StartPhase`, `RetainResult` or `FailResult` for each finished runner, `EndPhase`; `EndAbort` after an error |
| `_execute_shard`, in a thread of the pool | `RunnerEnds`, `CancelRunner` |
| `KeyboardInterrupt` in `run_phase` | `Interrupt` |
| `reduce_summaries` | `ReduceSummaries` |
| `finalize_campaign` | `StartFinalize`, `WriteLeaf`, `WriteFinal` |
| `write_registered_result` | `CreateRegisteredResult`, then `WriteRegisteredResult` |
| a kill; the kernel drops the `flock` | `Kill` |

The lock serialises what a command does under it, so such a section is one step,
unless it writes several files, when a kill can separate them (`WriteSetup`,
`WriteLeaf`). The registered result is created exclusively, for the literal
full-source plan only (`FullSource`), and its bytes follow: a kill between the two
leaves an empty file, which every later attempt refuses. The pool works outside the lock: it validates a result against the
tables it read when the phase started (`seen`).

*Abstractions.* A receipt is what validation looks at: the report of the shard
(its delta and its rows), in phase two also the incoming state the runner echoes,
and a stamp for the timing fields that make equal runs differ in their bytes. A
digest is what it hashes. The bytes a runner printed are chosen when they are
looked at. A set-up that is partly written is refused by every command until it
is deleted by hand: that is how the code fails closed. That the captured runner is
made executable (401-408) is left out: no file changes its bytes.

| Property | Kind | Says |
|---|---|---|
| `DirectoryVerifies` | invariant | once the set-up is whole, the directory replays at every moment, whatever runs, ingests, reductions, interrupts and kills left there |
| `RegisteredReplayed` | invariant | a registered result stands on shards that were computed twice with one outcome, the second time from the chained state |
| `FilesStable` | action property (proved only) | no file changes or disappears |
| `LedgerSpec` | refinement | the campaign implements `PhaseLedger`: a second receipt needs all first ones, the certificate commits to both complete tables, nothing is undone |
| `CommandsEnd` | liveness | every command ends, also after a failed or refused result or an interrupt that cancelled nothing |

`affine_campaign` checks them with two processes and two shards. Shard 0 may report
two deltas (a machine that miscounts), a verify receipt may have two stamps, and
`initialize` may be given two identities: the smallest sets in which any two of
the values disagree. Three possible incoming states include wrong ones. No
counter needs a bound.

*Fairness* (`FairSpec`). `WF` on a runner: it ends or is killed at its timeout. `SF` on the
program of a process: its next step may wait for the lock, which others take again
and again, and `flock` gives the lock to its waiters in turn.

*Proofs* (`AffineCampaignProofs`): `TypeOK`, `DirectoryVerifies`, `RegisteredReplayed`,
`FilesStable` and the refinement, for any number of processes and shards, any reports
and any stamps. `DirectoryVerifies` is not inductive, since a process can retain a receipt that it
validated against an old table. The invariant `IInv` says why this is safe:

* `Registers`: a command that writes the result's bytes created the file, and so
  found a certificate, which is never removed;
* `LockHeld`, `SetupAgrees`: whoever writes a set-up holds the lock, and the files up to
  its position are its own, so files of two identities never meet;
* `Derives`: once the derived inputs exist, the summaries are complete and are those
  they were derived from, so no summary can be added any more;
* `Loaded`: what a process loaded is still in the table, and a process in phase two
  loaded the complete one, which therefore is the table still;
* `Replayed`, `Certifies`: every verify receipt replays the derived table, and leaves and
  certificate are what that table determines.

`Incoming` is a recursive function; the proofs never unfold it, because every argument is
an equality of tables. `CommandsEnd` is only model-checked.

`psi_residual_campaign.py` is the same machine, except that it cannot cancel a runner
that has started: its behaviours are those without `CancelRunner`.

## 7. The measured runner

`azure/measured_runner.py` resets PCR 23 of the TPM, extends it with the binding of
challenge and job, releases the input, runs the workload, extends the register with
the binding of the result, quotes it and renames its private directory into place.
The register belongs to the machine and no lock protects it. In `MeasuredRun` each
TPM command (`Reset`, `ReadInitial`, `ExtendStart`, `ReadStart`, `ExtendResult`, `ReadResult`, `Quote`), each
child (`PassGate`, `ReleaseInput`, `EndWorkload`, `CheckTrace`) and the last window check with the rename
(`Publish`) is a step, and any number of runs interleave. `Fail` is every failing check,
child timeout and kill. A register value is the sequence of its extensions.

Two fields are history, for the properties: `late` (the quote was taken after the
window) and `touched` (who wrote to the register between this run's start check and
its quote).

| Property | Says |
|---|---|
| `TamperingShows` | if another run used the register between the start check and the quote, the package does not appraise, unless that run was for the same challenge and job and started the register over |
| `UndisturbedAppraises` | a run that was left alone publishes a package that appraises, whatever killed or failed runs had left in the register |
| `NoLateQuote` | no package has a quote from after the window, though the window ends at any moment |
| `PackagesFinal` | a published package is never replaced (proved only) |

`measured_run` has two runs for one challenge, with two jobs of which one is gated, two
outcomes and one output directory: every pair of equal and different bindings
occurs. All four are proved for any constants (`MeasuredRunProofs`). The invariant
`RunInv` says, for each program counter, what the register is as long as nobody else
touched it (`Undisturbed`). Once somebody did (`Tampered`), the register is `Spoiled`: it
can no longer become the one this run claims, since other bindings stand where its
own should, or it was reset, and only a run of the same challenge and job would
write the start binding again. `ReadResult` cannot see what happens after it; the quote
shows it.

The code waits for children with timeouts and kills their process group; that a run
ends is therefore a fact about `subprocess`, and no liveness is stated here. A TPM
command of a runner that is killed itself may still reach the register afterwards; it is not
modelled. For every other run it would be one more touch by somebody else.

## 8. The H100 operator and its machine

`azure/h100_production_orchestrator.py` has the commands of the CPU operator, with one
state file that is replaced at once instead of a journal, and one more side:
`worker-run-local` on the guest, which extracts the handoff, runs the measured runner,
collects the evidence, archives it and writes a completion manifest.

* `H100Worker`: the guest. Calls take no lock; each file operation is a step.
  `KillCall` leaves everything behind, and the runner or collector that was started
  may still publish. `Rebuild` loses the machine with its disk (at most `MaxRebuilds`
  times); an equal machine takes its place.
* `H100Operator` extends it with the operator and with the people between the two:
  archive and completion come back separately, at any time, more than once, and
  possibly from two machines (`ReturnArchive`, `ReturnCompletion`).

| Code | Actions |
|---|---|
| `initialize_state`, `deploy`, `create_challenge_step`, `ingest_returned_package`, `appraise`, `issue_receipt`, `generate_review_candidates` | `InitializeState`; `Begin`, `Launch`, `AcceptAnswer`, `Complete`; `ExtractArchive`; `InstallRegistry`, `InstallLean` |
| `reconcile_*`, `record_worker_stage_handoff`, `acknowledge_worker_stage` | `Reconcile`, `RecordWorkerStageHandoff`, `AcknowledgeWorkerStage` |
| exceptions, kills, children that live on | `RaiseError`, `Kill`, `ChildInstalls`, `ChildEnds` |
| `worker_run_local` | `ExtractPackage`, `CheckStaged`, `RunMeasured`, `CollectEvidence`, `OpenArchive`, `FillArchive`, `WriteCompletion`, `EndCall`, `KillCall` |

*Abstractions.* A package, its archive and its report are the run they are for. The
window of the challenge is open or over; a window that is open but too short for a
whole run is one of the errors of `EndCall`. `CheckStaged` finds the extracted tree,
which the code does not look at again before the runner does (it would fail there).
Extraction is one step, so a call that removes the tree of another one does it
before or after its extraction. The challenge step of the pinned-portfolio
mode verifies and installs without a child; it is modelled like the mode that starts
one. The measured runner is one step here:
section 7 has its inside. The GPU gate is part of the job.

| Property | Says |
|---|---|
| `NoBlindRetry` | no child with a side effect is started twice |
| `ResultsAgree` | report, appraisal and receipt are for one run, however the returned files were mixed |
| `ReviewPairWhole` | a recorded review pair is two candidates from the recorded receipt, and both are there |
| `EvidenceConsistent` | a completion on the guest names the archive beside it, the evidence in it and the one run of the machine |
| `OrderedSpec` | the operator implements `OrderedSteps` |
| `RootStays` | the documented refusal of a root that is there; **violated** |

`h100_campaign` checks all but the last on a campaign with two calls, one rebuild and two
results: a disagreement needs two results, a race two calls, and a mixture of
returned files two machines.

*What the violated run means.* `h100_extract`: `extract_archive` creates its destination
with `exist_ok=False`, and the handler around it removes the destination on any
error, also when it was there before. A second call therefore deletes the tree from
which the first call's job is running. `EvidenceConsistent` shows that no wrong
completion comes of it.

*Stops for ever*, in the model without a property because no document denies them:
a kill leaves the in-progress stage, as for the CPU operator; the window is too
short for what is left; a call is killed after the runner published, and every
later call refuses the package that is there; a kill between the two renames of the
review pair, after which the next attempt refuses the file that is there.
`reconcile-receipt`, in both operators, accepts any valid receipt for its key at the
receipt path without comparing its nonce; nobody but the issuer writes there.

*Proofs* (`H100OperatorProofs`): `TypeOK`, the four invariants and `OrderedSpec`, for any
number of calls, results and rebuilds. The operator's assumption is that `None` is no
artifact and no stage. The invariant `IInv` is the conjunction of two that do not need each
other, because the operator reads nothing of the guest but what was returned to it.

* `GuestInv`. Evidence, once there, is of the published run, and the archive follows it
  (`EvidenceOfRun`); a call knows the run it collected (`CallKnows`). The collector's fresh
  path makes one call the packer of its machine, and a completion ends packing
  (`OnePacker`). These rule out that two calls share one archive.
* `OperatorInv`. A command that runs has entered its step (`CommandEntered`) and a child was
  started only in a step the campaign reached (`Starts`), so a second `Begin` of a step
  is impossible. The steps with a record are those the stage has passed (`Progress`).
  Records are of files that stay, and report, appraisal and receipt are of the one
  package that `ExtractArchive` made (`RecordKept`, `OneRun`); every candidate is of
  the receipt (`Candidates`). Outliving children fit in because a path is written
  once (`FileWritten`, `Produced`).

`Refinement` follows from `Progress`: a `Begin` is an attempt, and `Complete`, `Reconcile`
and `AcknowledgeWorkerStage` adopt (`RecordStep`).

`OneCallKeepsRoot` proves the violated `RootStays` of the guest for one call at a time, killed
or failed however often: a call that runs has its tree (`RootInv`), and only an idle call
removes one. The document's claim is thus a claim about calls that do not overlap.

## 9. Bundle supervisors

`tg_verifier/dirichlet_tblock_bundle_supervisor.py` feeds the blocks of a lane to a
worker process. For each block it admits the worker's bundles into the staging
directory, reduces them to compact states, and writes a checkpoint that is chained
to the one before by its hash; the run that ends the lane writes a receipt. A
killed run is started again with the same directory. Nothing locks it.

| Code | Action of `BundleSupervisor` |
|---|---|
| launch and handshake; a receipt that is there ends the command | `Start` |
| `_existing_checkpoint_paths`, `_resume` | `ListCheckpoints`, `ResumeCheckpoint`, `EndResume` |
| `_admit_raw_bundle` | `AdmitBundle` |
| `write_compact_state_binary` | `CheckState`, then `ReplaceState` |
| the worker's response, `_atomic_json` of the checkpoint | `Respond`, then `InstallCheckpoint` |
| end of input, `_atomic_json` of the receipt | `Finish`, then `InstallReceipt` |
| failures and kills | `End` |

`_atomic_json` and `write_compact_state_binary` look for the file and then rename over it,
so between the two steps another run may have put one there. Bundles are linked, which
is one step. A hash chain binds all that is before it; a checkpoint is therefore
modelled as the worker and the entries of all blocks so far, and a state as the
bundles it merges. Lanes of raw events write no state files and are not modelled. The
state file is read again after its rename and a difference ends the run; the model
lets such a run go on, which only adds behaviours.

| Property | Says |
|---|---|
| `BundlesAgree` | what a checkpoint, a state or the receipt commits to is what is staged, though runs of different workers that answer differently overlap and die anywhere |
| `DirectoryResumes` | as long as runs do not overlap, the directory can be resumed at every moment by the worker that began it |
| `ReceiptIsDirectory` | as long as they do not, the receipt is for the chain of checkpoints |

`bundle_supervisor` has two processes, two workers, two bundles for a target, two
responses, and a lane of two blocks with two targets: a block in the middle of which
a run dies, a boundary, and a last block. The four sets are used only for equality
and nothing is checked about liveness, so symmetry is sound.

*Overlap.* When two runs do overlap, `_atomic_json` may replace a checkpoint that
appeared after it looked ("refusing to replace immutable output" is its message), and
the response in the chain of later checkpoints differs from the one on disk. Then
`_resume` refuses the directory: the history variable `overlapped` in two of the
properties marks this. `BundlesAgree` needs no such condition: linking decides once
which bundle a block has.

*Stops.* A worker that sends nothing is waited for without a timeout. A worker that
answers differently after a kill finds another bundle staged, and every later run
fails at it, until somebody removes the block.

*Proofs* (`BundleSupervisorProofs`): `TypeOK` and the three properties, for any number of
supervisors, workers, blocks, targets, bundles and responses. `IInv` has two halves.

* `RunInv` and `FilesInv` hold always. What a run has in its memory is on disk: its chain
  (`Staged`), the bundles it took of the present block (`Taken`), the states it found or
  wrote (`Merged`). Each state file merges a bundle of every block up to its own
  (`StateInv`), each checkpoint has its block's length (`CheckpointInv`). It follows that a run
  that renames over a state renames an equal one.
* `Solo` holds as long as no two runs were ever under way at once. The checkpoints are
  the first ones of a single chain and every checkpointed block has all its states
  (`ChainInv`); a run owns exactly the checkpoints of its chain (`Owns`). The rename of
  a checkpoint therefore extends the chain, and the receipt is its last element.

The supervisor of protocol 1 (`dirichlet_tblock_supervisor.py`) is the same loop without
staging and states: `Start`, `ListCheckpoints`, `ResumeCheckpoint`, `Respond`, `InstallCheckpoint`, `Finish`,
`InstallReceipt`.

## 10. Not modelled

* Eviction accounting (`tg_verifier/azure_eviction.py`): the attempt ledger and the
  quarantine. Nothing in the repository calls it yet, so the order of its two steps
  and who may run them at once is not decided by the code.
* The runner process behind `_run_segment`: the scheduler treats a segment as records
  that may stop anywhere. Its pipes can block each other (`stderr` is read only after
  `stdout` ends, and the timeout is looked at only after a line).
* The generic campaign checkpoints (`tg_verifier/campaign.py`): one process, one file.
* The H100 cluster and portfolio tools, and the source and spool supervisors of the
  Dirichlet pipeline: planning and materialisation of handoff files, and process
  supervision of one host.
* Build tools: locks and resource limits of the operating system.
* Attestation collectors and verifiers: functions of one input document.
* The Lean library, the GPU kernels and the native checkers: numerics and proofs
  without transitions of the kind TLC explores. They are most of the
  repository's lines.

## 11. Running

    tlc -workers 2 -config WindowedDuplicates.cfg MCWindowedScheduler.tla
    tlc -workers 2 -config ReceiptConcurrent.cfg MCReceiptIssuer.tla
    tlc -workers 2 -config OperatorKills.cfg CpuOperator.tla
    tlc -workers 2 -config AffineCampaign.cfg MCAffineCampaign.tla
    tlc -workers 2 -config MeasuredRun.cfg MeasuredRun.tla
    tlc -workers 2 -config H100Operator.cfg H100Operator.tla
    tlc -workers 2 -config BundleSupervisor.cfg MCBundleSupervisor.tla
    tlapm WindowedSchedulerProofs.tla

and likewise for the other configurations and the other `*Proofs` modules. Each
configuration names its instance in its first lines. The two runs marked
**violates** or **violated** (`WindowedOverwrite.cfg`, `H100Extract.cfg`) end with a
counterexample.
