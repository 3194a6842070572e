------------------------- MODULE WindowedScheduler -------------------------
(***************************************************************************)
(* The preemption-tolerant work-unit scheduler of the Platt PT21 windowed  *)
(* campaign (tg_verifier/platt_windowed_scheduler.py, driven by            *)
(* tools/tg_platt_windowed_scheduler.py).                                  *)
(*                                                                         *)
(* All shared state is files in one directory: leases, unit checkpoints,   *)
(* unit receipts, shard receipts with their digest lists, and the campaign *)
(* artifact.  Worker processes claim and run units; operator processes     *)
(* seal shards and finalize.  No lock is held anywhere, so every file      *)
(* operation another process can observe is a step of its own.             *)
(*                                                                         *)
(* Abstractions.  A transcript is the sequence of its block records; a     *)
(* digest is the data it commits to (hashing is collision-free); a Merkle  *)
(* root over a fixed number of leaves is the sequence of the leaves.  An   *)
(* absent file is the empty sequence; the only file of the program that    *)
(* holds an empty sequence is a checkpoint without records, which          *)
(* run_unit treats like an absent one.                                     *)
(***************************************************************************)
EXTENDS WindowedGeometry, Sequences

CONSTANTS
    Workers,          \* processes running `work` or `run-unit`
    Operators,        \* processes running `seal-shard` or `finalize`
    Runner,           \* Runner[b]: the records the pinned runner may print for block b
    CheckpointBlocks, \* checkpoint_blocks
    LaunchArgs,       \* LaunchArgs[w]: the [from, stride, offset] `work` may be given
    Supervised,       \* workers whose `work` command is started again when it ends
    DirectUnits,      \* units on which `run-unit` is invoked without a claim
    BeginsAt,         \* first counts finalize accepts ({N(10^10)} in full mode)
    MaxFaults         \* bound on crashes, preemptions and runner failures

\* The Turing counts at a block's lower and upper height; parse_transcript
\* rejects a record whose zero count is not their difference.
Record == [lo : Nat, hi : Nat]

ASSUME SchedulerAssumption ==
    /\ Runner \in [Blocks -> SUBSET Record]
    /\ CheckpointBlocks \in Nat \ {0}
    /\ LaunchArgs \in [Workers -> SUBSET [from : Shards, stride : Nat \ {0}, offset : Nat]]
    /\ Supervised \subseteq Workers
    /\ DirectUnits \subseteq Units
    /\ BeginsAt \subseteq Nat
    /\ MaxFaults \in Nat

VARIABLES
    lease,     \* leases/unit-*: "none", "live" (younger than lease_seconds), "expired"
    ckpt,      \* progress/unit-*.json: the committed prefix of the unit
    receipt,   \* units/unit-*.json: the records unit_sha256 commits to
    digests,   \* unit-digests.txt: the unit digests of a shard, in order
    sealed,    \* shard.json: what shard_sha256 commits to
    campaign,  \* campaign.json: the shards its Merkle root commits to
    worker,    \* the local state of each worker process
    operator,  \* the local state of each operator process
    faults     \* faults injected so far

files == <<lease, ckpt, receipt, digests, sealed, campaign>>
vars  == <<files, worker, operator, faults>>

Absent  == << >>
NoShard == [leaves |-> Absent, pruned |-> FALSE]

\* part: the units the partition arguments select, {} for `run-unit`;
\* seen: the receipts listed in shard; base: the checkpointed prefix the
\* segment starts from; fresh: the records of the segment so far.
IdleWorker ==
    [pc |-> "idle", part |-> {}, shard |-> 0, unit |-> 0, seen |-> {},
     base |-> Absent, fresh |-> Absent]

\* leaves: the unit digests read (and, while pruning, those still to unlink);
\* fin: the shard receipts finalize has read.
IdleOperator ==
    [pc |-> "idle", shard |-> 0, leaves |-> Absent, prune |-> FALSE, fin |-> Absent]

----------------------------------------------------------------------------
\* Records

\* _validate_records: adjacent Turing counts agree.  With the per-record test
\* of parse_transcript this is the telescoping test of _build_unit_receipt.
Contiguous(recs) ==
    \A i \in 1 .. Len(recs) - 1 : recs[i].hi = recs[i + 1].lo

FirstCount(recs) == recs[1].lo
LastCount(recs)  == recs[Len(recs)].hi

\* The chain test of seal_shard: a unit starts at the count where the
\* previous unit ended.
Linked(previous, next) == LastCount(previous) = FirstCount(next)

\* The chain test of finalize, between shards.
ShardFirst(seal) == FirstCount(seal.leaves[1])
ShardLast(seal)  == LastCount(seal.leaves[Len(seal.leaves)])

----------------------------------------------------------------------------
Init ==
    /\ lease = [u \in Units |-> "none"]
    /\ ckpt = [u \in Units |-> Absent]
    /\ receipt = [u \in Units |-> Absent]
    /\ digests = [s \in Shards |-> Absent]
    /\ sealed = [s \in Shards |-> NoShard]
    /\ campaign = Absent
    /\ worker = [w \in Workers |-> IdleWorker]
    /\ operator = [o \in Operators |-> IdleOperator]
    /\ faults = 0

Becomes(w, local) == worker' = [worker EXCEPT ![w] = local]

Fault == faults < MaxFaults /\ faults' = faults + 1

----------------------------------------------------------------------------
\* Workers: next_unit and claim_unit

\* The units a `work` process with these arguments ever considers.
Partition(a) ==
    {u \in Units : ShardOf(u) >= a.from /\ u % a.stride = a.offset}

\* The `work` command starts.
Launch(w) ==
    /\ worker[w].pc = "idle"
    /\ \E a \in LaunchArgs[w] :
         /\ Partition(a) # {}
         /\ Becomes(w, [IdleWorker EXCEPT !.pc = "enter", !.part = Partition(a)])
    /\ UNCHANGED <<files, operator, faults>>

\* The `run-unit` command runs one unit without claiming it.
RunUnitDirect(w) ==
    /\ worker[w].pc = "idle"
    /\ \E u \in DirectUnits :
         Becomes(w, [IdleWorker EXCEPT !.pc = "start", !.unit = u])
    /\ UNCHANGED <<files, operator, faults>>

\* run_unit returned.  `work` calls next_unit again, which scans afresh,
\* unless max_units is reached; `run-unit` ends.  The scan of the model starts
\* at shard 0: a shard below from_shard holds no unit of the partition.
AfterUnit(w) ==
    \/ /\ worker[w].part # {}
       /\ Becomes(w, [IdleWorker EXCEPT !.pc = "enter", !.part = worker[w].part])
    \/ Becomes(w, IdleWorker)

\* next_unit looks at the next shard: a sealed one is skipped unlisted, and
\* after the last one there is nothing left to claim.
EnterShard(w) ==
    /\ worker[w].pc = "enter"
    /\ Becomes(w, IF worker[w].shard = ShardCount
                  THEN IdleWorker
                  ELSE IF sealed[worker[w].shard] # NoShard
                  THEN [worker[w] EXCEPT !.shard = @ + 1]
                  ELSE [worker[w] EXCEPT !.pc = "list"])
    /\ UNCHANGED <<files, operator, faults>>

\* os.scandir of the shard's units directory: a snapshot that filters the
\* claims of this shard, however old it is by then.
ListShard(w) ==
    LET s == worker[w].shard
    IN  /\ worker[w].pc = "list"
        /\ Becomes(w, [worker[w] EXCEPT
                         !.pc = "claim",
                         !.unit = FirstUnit(s),
                         !.seen = {u \in UnitsOf(s) : receipt[u] # Absent}])
        /\ UNCHANGED <<files, operator, faults>>

Candidates(w) ==
    {u \in UnitsOf(worker[w].shard) :
        u >= worker[w].unit /\ u \in worker[w].part /\ u \notin worker[w].seen}

\* The scan reaches its next candidate; claim_unit first tests the receipt.
ClaimUnit(w) ==
    /\ worker[w].pc = "claim"
    /\ \/ /\ Candidates(w) = {}
          /\ Becomes(w, [worker[w] EXCEPT !.pc = "enter", !.shard = @ + 1, !.seen = {}])
       \/ \E u \in Candidates(w) :
            /\ \A v \in Candidates(w) : u <= v
            /\ Becomes(w, IF receipt[u] # Absent
                          THEN [worker[w] EXCEPT !.unit = u + 1]
                          ELSE [worker[w] EXCEPT !.unit = u, !.pc = "take"])
    /\ UNCHANGED <<files, operator, faults>>

\* claim_unit returns False and the scan moves on.
LoseClaim(w) ==
    /\ Becomes(w, [worker[w] EXCEPT !.pc = "claim", !.unit = @ + 1])
    /\ UNCHANGED lease

\* _write_lease creates the file with O_EXCL.
CreateLease(w) ==
    /\ lease[worker[w].unit] = "none"
    /\ lease' = [lease EXCEPT ![worker[w].unit] = "live"]
    /\ Becomes(w, [worker[w] EXCEPT !.pc = "start"])

TakeLease(w) ==
    /\ worker[w].pc = "take"
    /\ \/ CreateLease(w)
       \/ /\ lease[worker[w].unit] # "none"
          /\ Becomes(w, [worker[w] EXCEPT !.pc = "probe"])
          /\ UNCHANGED lease
    /\ UNCHANGED <<ckpt, receipt, digests, sealed, campaign, operator, faults>>

\* Mutant: an expired lease is never stolen.
ProbeLeaseNeverSteals(w) ==
    /\ worker[w].pc = "probe"
    /\ LoseClaim(w)
    /\ UNCHANGED <<ckpt, receipt, digests, sealed, campaign, operator, faults>>

\* _lease_is_live: a lease that has vanished meanwhile is not live either.
ProbeLease(w) ==
    /\ worker[w].pc = "probe"
    /\ \/ lease[worker[w].unit] = "live" /\ LoseClaim(w)
       \/ /\ lease[worker[w].unit] # "live"
          /\ Becomes(w, [worker[w] EXCEPT !.pc = "steal"])
          /\ UNCHANGED lease
    /\ UNCHANGED <<ckpt, receipt, digests, sealed, campaign, operator, faults>>

\* The stealer unlinks whatever lease is there by now, perhaps a fresh one.
StealLease(w) ==
    /\ worker[w].pc = "steal"
    /\ lease' = [lease EXCEPT ![worker[w].unit] = "none"]
    /\ Becomes(w, [worker[w] EXCEPT !.pc = "retake"])
    /\ UNCHANGED <<ckpt, receipt, digests, sealed, campaign, operator, faults>>

RetakeLease(w) ==
    /\ worker[w].pc = "retake"
    /\ CreateLease(w) \/ (lease[worker[w].unit] # "none" /\ LoseClaim(w))
    /\ UNCHANGED <<ckpt, receipt, digests, sealed, campaign, operator, faults>>

----------------------------------------------------------------------------
\* Workers: run_unit

Progress(w) == worker[w].base \o worker[w].fresh

\* A retained receipt is returned at once, and its lease stays behind.
StartUnit(w) ==
    /\ worker[w].pc = "start"
    /\ \/ receipt[worker[w].unit] # Absent /\ AfterUnit(w)
       \/ /\ receipt[worker[w].unit] = Absent
          /\ Becomes(w, [worker[w] EXCEPT !.pc = "resume"])
    /\ UNCHANGED <<files, operator, faults>>

\* _load_checkpoint; only `run-unit` offers --no-resume.
LoadCheckpoint(w) ==
    /\ worker[w].pc = "resume"
    /\ \E prefix \in {ckpt[worker[w].unit]} \cup
                     (IF worker[w].part = {} THEN {Absent} ELSE {}) :
         Becomes(w, [worker[w] EXCEPT !.pc = "run", !.base = prefix, !.fresh = Absent])
    /\ UNCHANGED <<files, operator, faults>>

\* on_progress: store the merged prefix, then touch the lease if it exists.
\* Touching is not told apart from storing: the lease may expire at any time.
Checkpoint(u, recs) ==
    /\ ckpt' = [ckpt EXCEPT ![u] = recs]
    /\ lease' = [lease EXCEPT ![u] = IF @ = "none" THEN @ ELSE "live"]

\* Every checkpoint_blocks blocks of the segment are a checkpoint.
AtCheckpoint(w) == (Len(worker[w].fresh) + 1) % CheckpointBlocks = 0

\* Mutant: a resumed segment starts at the unit's first block again.
RunBlockFromStart(w) ==
    LET u    == worker[w].unit
        recs == Progress(w)
    IN  /\ worker[w].pc = "run"
        /\ Len(recs) < UnitLen(u)
        /\ \E r \in Runner[FirstBlock(u) + Len(worker[w].fresh)] :
             /\ Checkpoint(u, Append(recs, r))
             /\ Becomes(w, [worker[w] EXCEPT !.fresh = Append(@, r)])
        /\ UNCHANGED <<receipt, digests, sealed, campaign, operator, faults>>

\* Mutant: the checkpoint of a resumed segment forgets the prefix before it.
RunBlockDropsBase(w) ==
    LET u    == worker[w].unit
        done == Len(Progress(w))
    IN  /\ worker[w].pc = "run"
        /\ done < UnitLen(u)
        /\ \E r \in Runner[FirstBlock(u) + done] :
             /\ IF AtCheckpoint(w)
                THEN Checkpoint(u, Append(worker[w].fresh, r))
                ELSE UNCHANGED <<ckpt, lease>>
             /\ Becomes(w, [worker[w] EXCEPT !.fresh = Append(@, r)])
        /\ UNCHANGED <<receipt, digests, sealed, campaign, operator, faults>>

\* The runner completes one more block.  At a checkpoint the prefix is parsed
\* and stored, and a count mismatch raises.
RunBlock(w) ==
    LET u    == worker[w].unit
        done == Len(Progress(w))
    IN  /\ worker[w].pc = "run"
        /\ done < UnitLen(u)
        /\ \E r \in Runner[FirstBlock(u) + done] :
             LET recs == Append(Progress(w), r)
                 on   == [worker[w] EXCEPT !.fresh = Append(@, r)]
             IN  \/ ~AtCheckpoint(w) /\ Becomes(w, on) /\ UNCHANGED <<ckpt, lease>>
                 \/ /\ AtCheckpoint(w) /\ Contiguous(recs)
                    /\ Checkpoint(u, recs) /\ Becomes(w, on)
                 \/ /\ AtCheckpoint(w) /\ ~Contiguous(recs)
                    /\ Becomes(w, IdleWorker) /\ UNCHANGED <<ckpt, lease>>
        /\ UNCHANGED <<receipt, digests, sealed, campaign, operator, faults>>

\* Mutant: the merged records are not validated across the segment boundary.
FinishSegmentUnvalidated(w) ==
    /\ worker[w].pc = "run"
    /\ Len(Progress(w)) = UnitLen(worker[w].unit)
    /\ Becomes(w, [worker[w] EXCEPT !.pc = "commit"])
    /\ UNCHANGED <<files, operator, faults>>

\* The runner ends; the whole transcript is parsed and the receipt built.
\* After a preemption at the last block there is nothing left to run.
FinishSegment(w) ==
    /\ worker[w].pc = "run"
    /\ Len(Progress(w)) = UnitLen(worker[w].unit)
    /\ Becomes(w, IF Contiguous(Progress(w))
                  THEN [worker[w] EXCEPT !.pc = "commit"]
                  ELSE IdleWorker)
    /\ UNCHANGED <<files, operator, faults>>

\* SIGTERM or SIGINT: every completed block is checkpointed, and `work` goes
\* on to release the unit.
Preempt(w) ==
    /\ worker[w].pc = "run"
    /\ Fault
    /\ \/ /\ Contiguous(Progress(w))
          /\ ckpt' = [ckpt EXCEPT ![worker[w].unit] = Progress(w)]
          /\ Becomes(w, IF worker[w].part # {}
                        THEN [worker[w] EXCEPT !.pc = "preempted"]
                        ELSE IdleWorker)
       \/ /\ ~Contiguous(Progress(w))
          /\ Becomes(w, IdleWorker)
          /\ UNCHANGED ckpt
    /\ UNCHANGED <<lease, receipt, digests, sealed, campaign, operator>>

ReleasePreempted(w) ==
    /\ worker[w].pc = "preempted"
    /\ lease' = [lease EXCEPT ![worker[w].unit] = "none"]
    /\ Becomes(w, IdleWorker)
    /\ UNCHANGED <<ckpt, receipt, digests, sealed, campaign, operator, faults>>

\* _commit_unit: an existing receipt must carry the same digest, otherwise
\* the worker fails closed; if there is none the write begins.
CommitUnit(w) ==
    LET retained == receipt[worker[w].unit]
    IN  /\ worker[w].pc = "commit"
        /\ Becomes(w, CASE retained = Absent      -> [worker[w] EXCEPT !.pc = "replace"]
                        [] retained = Progress(w) -> [worker[w] EXCEPT !.pc = "cleanup"]
                        [] OTHER                  -> IdleWorker)
        /\ UNCHANGED <<files, operator, faults>>

\* os.replace in _atomic_write: installs the receipt whatever is there by now.
ReplaceReceipt(w) ==
    /\ worker[w].pc = "replace"
    /\ receipt' = [receipt EXCEPT ![worker[w].unit] = Progress(w)]
    /\ Becomes(w, [worker[w] EXCEPT !.pc = "cleanup"])
    /\ UNCHANGED <<lease, ckpt, digests, sealed, campaign, operator, faults>>

UnlinkCheckpoint(w) ==
    /\ worker[w].pc = "cleanup"
    /\ ckpt' = [ckpt EXCEPT ![worker[w].unit] = Absent]
    /\ Becomes(w, [worker[w] EXCEPT !.pc = "release"])
    /\ UNCHANGED <<lease, receipt, digests, sealed, campaign, operator, faults>>

\* release_unit removes the lease whoever holds it.
ReleaseUnit(w) ==
    /\ worker[w].pc = "release"
    /\ lease' = [lease EXCEPT ![worker[w].unit] = "none"]
    /\ AfterUnit(w)
    /\ UNCHANGED <<ckpt, receipt, digests, sealed, campaign, operator, faults>>

\* SIGKILL, node loss, a failing runner, or a file that vanishes between its
\* exists test and its read: the files stay as they are.
CrashWorker(w) ==
    /\ worker[w].pc # "idle"
    /\ Fault
    /\ Becomes(w, IdleWorker)
    /\ UNCHANGED <<files, operator>>

\* Time passes: a lease that was not renewed reaches lease_seconds.
LeaseExpires(u) ==
    /\ lease[u] = "live"
    /\ lease' = [lease EXCEPT ![u] = "expired"]
    /\ UNCHANGED <<ckpt, receipt, digests, sealed, campaign, worker, operator, faults>>

----------------------------------------------------------------------------
\* Operators: seal_shard

Sets(o, local) == operator' = [operator EXCEPT ![o] = local]

\* Mutant: the shard index is not checked against the schedule.
SealShardUnbounded(o) ==
    /\ operator[o].pc = "idle"
    /\ \E s \in 0 .. ShardCount, prune \in BOOLEAN :
         Sets(o, [IdleOperator EXCEPT !.pc = "read", !.shard = s, !.prune = prune])
    /\ UNCHANGED <<files, worker, faults>>

SealShard(o) ==
    /\ operator[o].pc = "idle"
    /\ \E s \in Shards, prune \in BOOLEAN :
         Sets(o, [IdleOperator EXCEPT !.pc = "read", !.shard = s, !.prune = prune])
    /\ UNCHANGED <<files, worker, faults>>

\* Reads one unit receipt; a missing one or a broken count chain raises.
\* validate_unit_receipt sees the counts and the digest, not the records.
ReadUnit(o) ==
    LET s    == operator[o].shard
        read == operator[o].leaves
        unit == receipt[FirstUnit(s) + Len(read)]
    IN  /\ operator[o].pc = "read"
        /\ Sets(o, IF unit = Absent \/ (Len(read) > 0 /\ ~Linked(read[Len(read)], unit))
                   THEN IdleOperator
                   ELSE [operator[o] EXCEPT
                           !.leaves = Append(read, unit),
                           !.pc = IF Len(read) + 1 = ShardLen(s) THEN "check" ELSE "read"])
        /\ UNCHANGED <<files, worker, faults>>

\* Mutant: sealing again rewrites the shard.
CheckSealedRewrites(o) ==
    /\ operator[o].pc = "check"
    /\ Sets(o, [operator[o] EXCEPT !.pc = "digests"])
    /\ UNCHANGED <<files, worker, faults>>

\* An existing shard receipt is returned, or it differs and raises.
CheckSealed(o) ==
    /\ operator[o].pc = "check"
    /\ Sets(o, IF sealed[operator[o].shard] # NoShard
               THEN IdleOperator
               ELSE [operator[o] EXCEPT !.pc = "digests"])
    /\ UNCHANGED <<files, worker, faults>>

\* Mutant: the unit receipts are pruned before shard.json is written.
WriteDigestsPrunesFirst(o) ==
    LET s == operator[o].shard
    IN  /\ operator[o].pc = "digests"
        /\ digests' = [digests EXCEPT ![s] = operator[o].leaves]
        /\ receipt' = [u \in Units |-> IF u \in UnitsOf(s) THEN Absent ELSE receipt[u]]
        /\ Sets(o, [operator[o] EXCEPT !.pc = "shard"])
        /\ UNCHANGED <<lease, ckpt, sealed, campaign, worker, faults>>

WriteDigests(o) ==
    /\ operator[o].pc = "digests"
    /\ digests' = [digests EXCEPT ![operator[o].shard] = operator[o].leaves]
    /\ Sets(o, [operator[o] EXCEPT !.pc = "shard"])
    /\ UNCHANGED <<lease, ckpt, receipt, sealed, campaign, worker, faults>>

WriteShard(o) ==
    /\ operator[o].pc = "shard"
    /\ sealed' = [sealed EXCEPT ![operator[o].shard] =
                    [leaves |-> operator[o].leaves, pruned |-> operator[o].prune]]
    /\ Sets(o, IF operator[o].prune
               THEN [operator[o] EXCEPT !.pc = "prune"]
               ELSE IdleOperator)
    /\ UNCHANGED <<lease, ckpt, receipt, digests, campaign, worker, faults>>

\* --prune-units: unlink the unit receipts in order, one at a time.
PruneUnit(o) ==
    LET left == operator[o].leaves
    IN  /\ operator[o].pc = "prune"
        /\ receipt' = [receipt EXCEPT ![UpperUnit(operator[o].shard) - Len(left)] = Absent]
        /\ Sets(o, IF Len(left) = 1
                   THEN IdleOperator
                   ELSE [operator[o] EXCEPT !.leaves = Tail(left)])
        /\ UNCHANGED <<lease, ckpt, digests, sealed, campaign, worker, faults>>

----------------------------------------------------------------------------
\* Operators: finalize

Finalize(o) ==
    /\ operator[o].pc = "idle"
    /\ campaign = Absent
    /\ Sets(o, [IdleOperator EXCEPT !.pc = "fread"])
    /\ UNCHANGED <<files, worker, faults>>

\* Mutant: the count chain between shards is not tested.
ReadShardUnchained(o) ==
    LET read  == operator[o].fin
        shard == sealed[Len(read)]
    IN  /\ operator[o].pc = "fread"
        /\ Sets(o, IF shard = NoShard
                   THEN IdleOperator
                   ELSE [operator[o] EXCEPT
                           !.fin = Append(read, shard),
                           !.pc = IF Len(read) + 1 = ShardCount THEN "fwrite" ELSE "fread"])
        /\ UNCHANGED <<files, worker, faults>>

\* Reads one shard receipt; a missing one or a broken count chain raises.
ReadShard(o) ==
    LET read  == operator[o].fin
        shard == sealed[Len(read)]
    IN  /\ operator[o].pc = "fread"
        /\ Sets(o, IF \/ shard = NoShard
                      \/ Len(read) > 0 /\ ShardLast(read[Len(read)]) # ShardFirst(shard)
                   THEN IdleOperator
                   ELSE [operator[o] EXCEPT
                           !.fin = Append(read, shard),
                           !.pc = IF Len(read) + 1 = ShardCount THEN "fwrite" ELSE "fread"])
        /\ UNCHANGED <<files, worker, faults>>

\* A full campaign must begin at N(10^10).  That the artifact does not exist
\* was tested when finalize began; the write is unconditional.
WriteCampaign(o) ==
    /\ operator[o].pc = "fwrite"
    /\ campaign' = IF ShardFirst(operator[o].fin[1]) \in BeginsAt
                   THEN operator[o].fin
                   ELSE campaign
    /\ Sets(o, IdleOperator)
    /\ UNCHANGED <<lease, ckpt, receipt, digests, sealed, worker, faults>>

\* A kill, a file that vanishes between its exists test and its read, or a
\* prefix receipt that _prefix_binding refuses.
CrashOperator(o) ==
    /\ operator[o].pc # "idle"
    /\ Fault
    /\ Sets(o, IdleOperator)
    /\ UNCHANGED <<files, worker>>

----------------------------------------------------------------------------
WorkerStep(w) ==
    \/ EnterShard(w) \/ ListShard(w) \/ ClaimUnit(w)
    \/ TakeLease(w) \/ ProbeLease(w) \/ StealLease(w) \/ RetakeLease(w)
    \/ StartUnit(w) \/ LoadCheckpoint(w) \/ RunBlock(w) \/ FinishSegment(w)
    \/ ReleasePreempted(w)
    \/ CommitUnit(w) \/ ReplaceReceipt(w) \/ UnlinkCheckpoint(w) \/ ReleaseUnit(w)

OperatorStep(o) ==
    \/ SealShard(o) \/ ReadUnit(o) \/ CheckSealed(o) \/ WriteDigests(o)
    \/ WriteShard(o) \/ PruneUnit(o)
    \/ Finalize(o) \/ ReadShard(o) \/ WriteCampaign(o)

Next ==
    \/ \E w \in Workers :
         Launch(w) \/ RunUnitDirect(w) \/ WorkerStep(w) \/ Preempt(w) \/ CrashWorker(w)
    \/ \E u \in Units : LeaseExpires(u)
    \/ \E o \in Operators : OperatorStep(o) \/ CrashOperator(o)

Spec == Init /\ [][Next]_vars

\* A worker process that runs keeps running, a supervised `work` command is
\* started again when it ends, and clocks advance.  Sealing, finalizing and
\* `run-unit` are operator decisions and faults are faults: none is fair.
Fairness ==
    /\ \A w \in Workers : WF_vars(WorkerStep(w))
    /\ \A w \in Supervised : WF_vars(Launch(w))
    /\ \A u \in Units : WF_vars(LeaseExpires(u))

FairSpec == Spec /\ Fairness

----------------------------------------------------------------------------
\* Properties

WorkerPC == {"idle", "enter", "list", "claim", "take", "probe", "steal", "retake",
             "start", "resume", "run", "commit", "replace", "cleanup", "release",
             "preempted"}
OperatorPC == {"idle", "read", "check", "digests", "shard", "prune", "fread", "fwrite"}

UnitRecords == Seq(Record)
ShardSeal   == [leaves : Seq(UnitRecords), pruned : BOOLEAN]

WorkerState ==
    [pc : WorkerPC, part : SUBSET Units, shard : 0 .. ShardCount, unit : 0 .. UnitCount,
     seen : SUBSET Units, base : UnitRecords, fresh : UnitRecords]

OperatorState ==
    [pc : OperatorPC, shard : Shards, leaves : Seq(UnitRecords), prune : BOOLEAN,
     fin : Seq(ShardSeal)]

\* Every file and every process local holds a value of its kind.
TypeOK ==
    /\ lease \in [Units -> {"none", "live", "expired"}]
    /\ ckpt \in [Units -> UnitRecords]
    /\ receipt \in [Units -> UnitRecords]
    /\ digests \in [Shards -> Seq(UnitRecords)]
    /\ sealed \in [Shards -> ShardSeal]
    /\ campaign \in Seq(ShardSeal)
    /\ worker \in [Workers -> WorkerState]
    /\ operator \in [Operators -> OperatorState]
    /\ faults \in 0 .. MaxFaults

\* recs is a contiguous run of what the runner printed for u's own first blocks.
Printed(u, recs) ==
    /\ Contiguous(recs)
    /\ \A i \in 1 .. Len(recs) : recs[i] \in Runner[FirstBlock(u) + i - 1]

\* Every retained unit receipt is a whole unit of records the pinned runner
\* printed for exactly that unit's blocks, in order, however many segments,
\* preemptions, crashes and duplicate runs the unit went through (run_unit,
\* _load_checkpoint, _commit_unit).  With a deterministic runner this says
\* that segmentation is invisible in unit_sha256.
ReceiptSound ==
    \A u \in Units :
        receipt[u] # Absent => Len(receipt[u]) = UnitLen(u) /\ Printed(u, receipt[u])

\* The record the campaign commits to for block b, through the Merkle levels.
UnitAt(c, u)   == c[ShardOf(u) + 1].leaves[u - FirstUnit(ShardOf(u)) + 1]
RecordAt(c, b) == LET u == b \div BlocksPerUnit IN UnitAt(c, u)[b - FirstBlock(u) + 1]

\* A campaign artifact (finalize) commits to one record of the runner for
\* every block of the schedule, and the Turing counts chain across every
\* block, unit and shard boundary from an accepted first count: no gap and no
\* overlap anywhere in the range, though no process ever sees all the records.
CampaignSound ==
    campaign # Absent =>
        /\ RecordAt(campaign, 0).lo \in BeginsAt
        /\ \A b \in Blocks : RecordAt(campaign, b) \in Runner[b]
        /\ \A b \in Blocks \ {0} : RecordAt(campaign, b - 1).hi = RecordAt(campaign, b).lo

\* The Merkle root of a sealed shard is recomputable from unit-digests.txt
\* after its unit receipts are pruned (seal_shard writes the list first).
ShardRootRecomputable ==
    \A s \in Shards : sealed[s] # NoShard => digests[s] = sealed[s].leaves

\* A campaign artifact commits to the unit digests its shard receipts hold now,
\* although two seals of a shard may both have found no shard.json (seal_shard,
\* finalize): the slower one rewrites a receipt finalize has already read.
CampaignLeaves ==
    campaign # Absent => \A s \in Shards : campaign[s + 1].leaves = sealed[s].leaves

\* The shard receipts retained beside a campaign artifact are, byte for byte,
\* the ones its Merkle root commits to: what the slower of two seals breaks
\* when they disagree about --prune-units.
CampaignRetained ==
    campaign # Absent => \A s \in Shards : campaign[s + 1] = sealed[s]

\* A unit receipt is never replaced by one with another digest: _commit_unit
\* rejects a disagreement.  It only ever disappears, by pruning.
ReceiptStable ==
    [][\A u \in Units : receipt[u] # Absent => receipt'[u] \in {receipt[u], Absent}]_vars

Done == {u \in Units : receipt[u] # Absent \/ sealed[ShardOf(u)] # NoShard}

\* A kill of the worker running an unfinished unit loses at most one
\* checkpoint interval of its blocks (on_progress, _store_checkpoint).
LossBound ==
    \A w \in Workers :
        worker[w].pc = "run" /\ worker[w].unit \notin Done =>
            Len(Progress(w)) <= Len(ckpt[worker[w].unit]) + CheckpointBlocks

\* A lost node's units come back into circulation: once a unit's lease has
\* expired the unit is eventually finished (claim_unit steals the lease).
LostUnitsReturn ==
    \A u \in Units : (lease[u] = "expired") ~> (u \in Done)

Ledger == INSTANCE CampaignLedger WITH
            done <- Done,
            closed <- {s \in Shards : sealed[s] # NoShard},
            published <- campaign # Absent

\* The scheduler implements the ledger: no crash, steal, duplicate run,
\* pruning or concurrent seal ever undoes a finished unit, closes a shard
\* with an unfinished one, or publishes over an open shard.
LedgerSpec == Ledger!Spec

============================================================================
