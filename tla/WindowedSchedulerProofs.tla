----------------------- MODULE WindowedSchedulerProofs -----------------------
(***************************************************************************)
(* Safety of the windowed scheduler for every geometry, every runner,      *)
(* every number of workers and operators and every number of faults.       *)
(*                                                                         *)
(* The inductive invariant gives every file and every process local a      *)
(* predicate of its own, over constants only: the processes share nothing  *)
(* but files, so what a process may write is what its own locals satisfy.  *)
(*                                                                         *)
(* A second layer rests on it and relates files and locals: what a process *)
(* read a while ago against what the files hold now.  What several workers *)
(* or operators may undo is proved under a hypothesis that names the work  *)
(* they must not share (Apart, Sole) or the machines they must run on      *)
(* (OneOutcome).                                                           *)
(***************************************************************************)
EXTENDS WindowedScheduler, WindowedGeometryProofs, SequenceTheorems

----------------------------------------------------------------------------
\* The inductive invariant

PrefixOf(u, recs)  == Len(recs) <= UnitLen(u) /\ Printed(u, recs)
WholeUnit(u, recs) == Len(recs) = UnitLen(u) /\ Printed(u, recs)

\* The records of an unfinished run need not be contiguous yet.
RunOK(l) ==
    LET recs == l.base \o l.fresh
    IN  /\ PrefixOf(l.unit, l.base)
        /\ Len(recs) <= UnitLen(l.unit)
        /\ \A i \in 1 .. Len(recs) : recs[i] \in Runner[FirstBlock(l.unit) + i - 1]

Scanning == {"list", "claim", "take", "probe", "steal", "retake"}
OnUnit   == {"take", "probe", "steal", "retake", "start", "resume", "run", "commit",
             "replace", "cleanup", "release", "preempted"}

WorkerOK(l) ==
    /\ l.pc \in Scanning => l.shard \in Shards
    /\ l.pc \in OnUnit => l.unit \in Units
    /\ l.pc = "run" => RunOK(l)
    /\ l.pc \in {"commit", "replace"} => WholeUnit(l.unit, l.base \o l.fresh)

\* The first units of shard s, whole and linked.
UnitChain(s, leaves) ==
    /\ Len(leaves) <= ShardLen(s)
    /\ \A i \in 1 .. Len(leaves) : WholeUnit(FirstUnit(s) + i - 1, leaves[i])
    /\ \A i \in 1 .. Len(leaves) - 1 : Linked(leaves[i], leaves[i + 1])

WholeShard(s, leaves) == UnitChain(s, leaves) /\ Len(leaves) = ShardLen(s)

\* The first shards of the campaign, whole and linked.
ShardChain(c) ==
    /\ Len(c) <= ShardCount
    /\ \A i \in 1 .. Len(c) : WholeShard(i - 1, c[i].leaves)
    /\ \A i \in 1 .. Len(c) - 1 : ShardLast(c[i]) = ShardFirst(c[i + 1])

OperatorOK(l) ==
    /\ l.pc = "read" => UnitChain(l.shard, l.leaves) /\ Len(l.leaves) < ShardLen(l.shard)
    /\ l.pc \in {"check", "digests", "shard"} => WholeShard(l.shard, l.leaves)
    /\ l.pc = "prune" => Len(l.leaves) \in 1 .. ShardLen(l.shard)
    /\ l.pc = "fread" => ShardChain(l.fin) /\ Len(l.fin) < ShardCount
    /\ l.pc = "fwrite" => ShardChain(l.fin) /\ Len(l.fin) = ShardCount

WorkersInv   == \A w \in Workers : WorkerOK(worker[w])
OperatorsInv == \A o \in Operators : OperatorOK(operator[o])
CkptInv      == \A u \in Units : PrefixOf(u, ckpt[u])
ReceiptInv   == \A u \in Units : receipt[u] # Absent => WholeUnit(u, receipt[u])
SealedInv    == \A s \in Shards : sealed[s] # NoShard => WholeShard(s, sealed[s].leaves)
CampaignInv  ==
    campaign # Absent =>
        /\ ShardChain(campaign)
        /\ Len(campaign) = ShardCount
        /\ ShardFirst(campaign[1]) \in BeginsAt

IInv ==
    /\ TypeOK
    /\ WorkersInv /\ OperatorsInv
    /\ CkptInv /\ ReceiptInv /\ SealedInv /\ CampaignInv

----------------------------------------------------------------------------
\* Frames: a step that gives one process a good local state, or one unit or
\* shard a good file, preserves that part of the invariant.

LEMMA WorkerFrame ==
    ASSUME worker \in [Workers -> WorkerState], WorkersInv,
           NEW w \in Workers, NEW l \in WorkerState, WorkerOK(l),
           Becomes(w, l)
    PROVE  worker' \in [Workers -> WorkerState] /\ WorkersInv'
  BY DEF Becomes, WorkersInv, WorkerOK, RunOK

LEMMA OperatorFrame ==
    ASSUME operator \in [Operators -> OperatorState], OperatorsInv,
           NEW o \in Operators, NEW l \in OperatorState, OperatorOK(l),
           Sets(o, l)
    PROVE  operator' \in [Operators -> OperatorState] /\ OperatorsInv'
  BY DEF Sets, OperatorsInv, OperatorOK

LEMMA IdleOK ==
    /\ IdleWorker \in WorkerState /\ WorkerOK(IdleWorker)
    /\ IdleOperator \in OperatorState /\ OperatorOK(IdleOperator)
<1>1. 0 \in 0 .. ShardCount /\ 0 \in 0 .. UnitCount /\ 0 \in Shards
  BY Counts DEF Shards
<1>2. IdleWorker \in WorkerState /\ IdleOperator \in OperatorState
  BY <1>1 DEF IdleWorker, IdleOperator, WorkerState, OperatorState, WorkerPC, OperatorPC,
              Absent, UnitRecords, ShardSeal
<1>3. WorkerOK(IdleWorker) /\ OperatorOK(IdleOperator)
  BY DEF IdleWorker, IdleOperator, WorkerOK, OperatorOK, Scanning, OnUnit
<1> QED
  BY <1>2, <1>3

LEMMA InitIInv == Init => IInv
<1> SUFFICES ASSUME Init PROVE IInv
  OBVIOUS
<1>1. TypeOK
  BY IdleOK, SchedulerAssumption
     DEF Init, TypeOK, Absent, NoShard, UnitRecords, ShardSeal
<1>2. WorkersInv /\ OperatorsInv
  BY IdleOK DEF Init, WorkersInv, OperatorsInv
<1>3. CkptInv
  BY UnitGeometry DEF Init, CkptInv, PrefixOf, Printed, Contiguous, Absent
<1>4. ReceiptInv /\ SealedInv /\ CampaignInv
  BY DEF Init, ReceiptInv, SealedInv, CampaignInv
<1> QED
  BY <1>1, <1>2, <1>3, <1>4 DEF IInv

----------------------------------------------------------------------------
\* Steps of a worker that leave every file but the leases alone.

LEMMA ScanSteps ==
    ASSUME IInv, NEW w \in Workers,
           \/ Launch(w) \/ RunUnitDirect(w) \/ EnterShard(w) \/ ListShard(w) \/ ClaimUnit(w)
           \/ TakeLease(w) \/ ProbeLease(w) \/ StealLease(w) \/ RetakeLease(w)
           \/ StartUnit(w) \/ ReleasePreempted(w) \/ ReleaseUnit(w)
    PROVE  /\ worker' \in [Workers -> WorkerState] /\ WorkersInv'
           /\ lease' \in [Units -> {"none", "live", "expired"}]
<1> DEFINE l == worker[w]
<1> USE DEF IInv, TypeOK
<1>0. /\ l \in WorkerState /\ WorkerOK(l)
      /\ IdleWorker \in WorkerState /\ WorkerOK(IdleWorker)
      /\ UnitCount \in Nat /\ ShardCount \in Nat
  BY IdleOK, Counts DEF WorkersInv
<1>1. \A part \in SUBSET Units :
        LET e == [IdleWorker EXCEPT !.pc = "enter", !.part = part]
        IN  e \in WorkerState /\ WorkerOK(e)
  BY <1>0, Counts DEF IdleWorker, WorkerState, WorkerPC, WorkerOK, Scanning, OnUnit,
                      UnitRecords, Absent
<1>2. AfterUnit(w) => worker' \in [Workers -> WorkerState] /\ WorkersInv'
  <2>1. l.part \in SUBSET Units
    BY <1>0 DEF WorkerState
  <2> QED
    BY <1>0, <1>1, <2>1, WorkerFrame DEF AfterUnit
<1>3. CASE Launch(w)
  <2>1. PICK a \in LaunchArgs[w] :
          Becomes(w, [IdleWorker EXCEPT !.pc = "enter", !.part = Partition(a)])
    BY <1>3 DEF Launch
  <2>2. Partition(a) \in SUBSET Units
    BY DEF Partition
  <2> QED
    BY <1>1, <1>3, <2>1, <2>2, WorkerFrame DEF Launch, files
<1>4. CASE RunUnitDirect(w)
  <2>1. PICK u \in DirectUnits : Becomes(w, [IdleWorker EXCEPT !.pc = "start", !.unit = u])
    BY <1>4 DEF RunUnitDirect
  <2>2. u \in Units /\ u \in 0 .. UnitCount
    BY <1>0, SchedulerAssumption DEF Units
  <2>3. [IdleWorker EXCEPT !.pc = "start", !.unit = u] \in WorkerState
    BY <2>2, <1>0 DEF IdleWorker, WorkerState, WorkerPC
  <2>4. WorkerOK([IdleWorker EXCEPT !.pc = "start", !.unit = u])
    BY <2>2 DEF IdleWorker, WorkerOK, Scanning, OnUnit
  <2> QED
    BY <1>4, <2>1, <2>3, <2>4, WorkerFrame DEF RunUnitDirect, files
<1>5. CASE EnterShard(w)
  <2> DEFINE next == [l EXCEPT !.shard = @ + 1]
             list == [l EXCEPT !.pc = "list"]
  <2>1. l.pc = "enter" /\ l.shard \in 0 .. ShardCount
    BY <1>0, <1>5 DEF EnterShard, WorkerState
  <2>2. CASE l.shard = ShardCount
    BY <1>0, <1>5, <2>2, WorkerFrame DEF EnterShard, files
  <2>3. CASE l.shard # ShardCount
    <3>1. l.shard \in Shards /\ l.shard + 1 \in 0 .. ShardCount
      BY <1>0, <2>1, <2>3 DEF Shards
    <3>2. next \in WorkerState /\ WorkerOK(next)
      BY <1>0, <2>1, <3>1 DEF WorkerState, WorkerOK, Scanning, OnUnit
    <3>3. list \in WorkerState /\ WorkerOK(list)
      BY <1>0, <2>1, <3>1 DEF WorkerState, WorkerPC, WorkerOK, Scanning, OnUnit
    <3>4. Becomes(w, next) \/ Becomes(w, list)
      BY <1>5, <2>3 DEF EnterShard
    <3> HIDE DEF next, list
    <3> QED
      BY <1>5, <3>2, <3>3, <3>4, WorkerFrame DEF EnterShard, files
  <2> QED
    BY <2>2, <2>3
<1>6. CASE ListShard(w)
  <2> DEFINE n == [l EXCEPT !.pc = "claim", !.unit = FirstUnit(l.shard),
                            !.seen = {u \in UnitsOf(l.shard) : receipt[u] # Absent}]
  <2>1. l.pc = "list" /\ l.shard \in Shards
    BY <1>0, <1>6 DEF ListShard, WorkerOK, Scanning
  <2>2. FirstUnit(l.shard) \in 0 .. UnitCount
    BY <1>0, <2>1, ShardGeometry
  <2>2a. {u \in UnitsOf(l.shard) : receipt[u] # Absent} \in SUBSET Units
    BY <2>1, ShardGeometry
  <2>3. n \in WorkerState
    BY <1>0, <2>2, <2>2a DEF WorkerState, WorkerPC
  <2>4. WorkerOK(n)
    BY <1>0, <2>1 DEF WorkerState, WorkerOK, Scanning, OnUnit
  <2>5. Becomes(w, n)
    BY <1>6 DEF ListShard
  <2> HIDE DEF n
  <2> QED
    BY <1>6, <2>3, <2>4, <2>5, WorkerFrame DEF ListShard, files
<1>7. CASE ClaimUnit(w)
  <2>1. l.pc = "claim" /\ l.shard \in Shards
    BY <1>0, <1>7 DEF ClaimUnit, WorkerOK, Scanning
  <2>2. CASE Candidates(w) = {} /\
             Becomes(w, [l EXCEPT !.pc = "enter", !.shard = @ + 1, !.seen = {}])
    <3> DEFINE n == [l EXCEPT !.pc = "enter", !.shard = @ + 1, !.seen = {}]
    <3>1. l.shard + 1 \in 0 .. ShardCount
      BY <1>0, <2>1 DEF Shards
    <3>2. n \in WorkerState /\ WorkerOK(n)
      BY <1>0, <3>1 DEF WorkerState, WorkerPC, WorkerOK, Scanning, OnUnit
    <3>3. Becomes(w, n)
      BY <2>2
    <3> HIDE DEF n
    <3> QED
      BY <1>7, <3>2, <3>3, WorkerFrame DEF ClaimUnit, files
  <2>3. ASSUME NEW u \in Candidates(w),
               Becomes(w, IF receipt[u] # Absent
                          THEN [l EXCEPT !.unit = u + 1]
                          ELSE [l EXCEPT !.unit = u, !.pc = "take"])
        PROVE  worker' \in [Workers -> WorkerState] /\ WorkersInv'
    <3> DEFINE n == [l EXCEPT !.unit = u + 1]
               t == [l EXCEPT !.unit = u, !.pc = "take"]
    <3>1. u \in Units
      BY <2>1, ShardGeometry DEF Candidates
    <3>2. u \in 0 .. UnitCount /\ u + 1 \in 0 .. UnitCount
      BY <1>0, <3>1 DEF Units
    <3>3. n \in WorkerState /\ WorkerOK(n)
      BY <1>0, <2>1, <3>2 DEF WorkerState, WorkerOK, Scanning, OnUnit
    <3>4. t \in WorkerState /\ WorkerOK(t)
      BY <1>0, <2>1, <3>1, <3>2 DEF WorkerState, WorkerPC, WorkerOK, Scanning, OnUnit
    <3>5. Becomes(w, n) \/ Becomes(w, t)
      BY <2>3
    <3> HIDE DEF n, t
    <3> QED
      BY <3>3, <3>4, <3>5, WorkerFrame
  <2> QED
    BY <1>7, <2>2, <2>3 DEF ClaimUnit, files
<1>8. ASSUME l.pc \in {"take", "probe", "steal", "retake"}
      PROVE  /\ CreateLease(w) \/ LoseClaim(w) =>
                  /\ worker' \in [Workers -> WorkerState] /\ WorkersInv'
                  /\ lease' \in [Units -> {"none", "live", "expired"}]
             /\ \A pc \in {"probe", "steal", "retake"} :
                  Becomes(w, [l EXCEPT !.pc = pc]) =>
                    worker' \in [Workers -> WorkerState] /\ WorkersInv'
  <2>1. l.unit \in Units /\ l.shard \in Shards
    BY <1>0, <1>8 DEF WorkerOK, Scanning, OnUnit
  <2>2. \A pc \in {"probe", "steal", "retake", "start"} :
          [l EXCEPT !.pc = pc] \in WorkerState /\ WorkerOK([l EXCEPT !.pc = pc])
    BY <1>0, <2>1 DEF WorkerState, WorkerPC, WorkerOK, Scanning, OnUnit
  <2>3. l.unit + 1 \in 0 .. UnitCount
    BY <1>0, <2>1 DEF Units
  <2>4. /\ [l EXCEPT !.pc = "claim", !.unit = @ + 1] \in WorkerState
        /\ WorkerOK([l EXCEPT !.pc = "claim", !.unit = @ + 1])
    BY <1>0, <2>1, <2>3 DEF WorkerState, WorkerPC, WorkerOK, Scanning, OnUnit
  <2>5. ASSUME CreateLease(w) \/ LoseClaim(w)
        PROVE  /\ worker' \in [Workers -> WorkerState] /\ WorkersInv'
               /\ lease' \in [Units -> {"none", "live", "expired"}]
    <3>1. lease' \in [Units -> {"none", "live", "expired"}]
      BY <2>5 DEF CreateLease, LoseClaim
    <3>2. \/ Becomes(w, [l EXCEPT !.pc = "start"])
          \/ Becomes(w, [l EXCEPT !.pc = "claim", !.unit = @ + 1])
      BY <2>5 DEF CreateLease, LoseClaim
    <3> QED
      BY <3>1, <3>2, <2>2, <2>4, WorkerFrame
  <2>6. ASSUME NEW pc \in {"probe", "steal", "retake"}, Becomes(w, [l EXCEPT !.pc = pc])
        PROVE  worker' \in [Workers -> WorkerState] /\ WorkersInv'
    BY <2>2, <2>6, WorkerFrame
  <2> QED
    BY <2>5, <2>6
<1>9. CASE TakeLease(w)
  BY <1>8, <1>9 DEF TakeLease
<1>10. CASE ProbeLease(w)
  BY <1>8, <1>10 DEF ProbeLease
<1>11. CASE StealLease(w)
  BY <1>8, <1>11 DEF StealLease
<1>12. CASE RetakeLease(w)
  BY <1>8, <1>12 DEF RetakeLease
<1>13. CASE StartUnit(w)
  <2>1. l.pc = "start" /\ l.unit \in Units
    BY <1>0, <1>13 DEF StartUnit, WorkerOK, OnUnit
  <2>2. [l EXCEPT !.pc = "resume"] \in WorkerState /\ WorkerOK([l EXCEPT !.pc = "resume"])
    BY <1>0, <2>1 DEF WorkerState, WorkerPC, WorkerOK, Scanning, OnUnit
  <2>3. AfterUnit(w) \/ Becomes(w, [l EXCEPT !.pc = "resume"])
    BY <1>13 DEF StartUnit
  <2> QED
    BY <1>2, <1>13, <2>2, <2>3, WorkerFrame DEF StartUnit, files
<1>14. CASE ReleasePreempted(w)
  BY <1>0, <1>14, WorkerFrame DEF ReleasePreempted
<1>15. CASE ReleaseUnit(w)
  BY <1>2, <1>15 DEF ReleaseUnit
<1> QED
  BY <1>3, <1>4, <1>5, <1>6, <1>7, <1>9, <1>10, <1>11, <1>12, <1>13, <1>14, <1>15

----------------------------------------------------------------------------
\* Steps of a worker inside run_unit.

\* A prefix that was printed for the unit's first blocks stays a good prefix
\* of it when it is contiguous.
LEMMA RunProgress ==
    ASSUME NEW l \in WorkerState, RunOK(l), Contiguous(l.base \o l.fresh)
    PROVE  PrefixOf(l.unit, l.base \o l.fresh)
  BY DEF RunOK, PrefixOf, Printed

\* Appending to the second of two sequences appends to their concatenation.
LEMMA ConcatAppend ==
    ASSUME NEW r \in Record
    PROVE  \A a, b \in Seq(Record) : Append(a \o b, r) = a \o Append(b, r)
<1> TAKE a, b \in Seq(Record)
<1>1. Append(a \o b, r) = (a \o b) \o <<r>>
  BY ConcatProperties, AppendIsConcat
<1>2. Append(b, r) = b \o <<r>>
  BY AppendIsConcat
<1>3. <<r>> \in Seq(Record)
  OBVIOUS
<1> QED
  BY <1>1, <1>2, <1>3, ConcatAssociative

\* One more record of the runner keeps a running worker's records its own.
LEMMA RunAppend ==
    ASSUME NEW l \in WorkerState, l.unit \in Units, RunOK(l),
           Len(l.base \o l.fresh) < UnitLen(l.unit),
           NEW r \in Runner[FirstBlock(l.unit) + Len(l.base \o l.fresh)]
    PROVE  /\ r \in Record
           /\ Append(l.base \o l.fresh, r) = l.base \o Append(l.fresh, r)
           /\ l.base \o Append(l.fresh, r) \in UnitRecords
           /\ RunOK([l EXCEPT !.fresh = Append(@, r)])
<1> DEFINE recs == l.base \o l.fresh
           more == Append(recs, r)
           k    == FirstBlock(l.unit)
           n    == [l EXCEPT !.fresh = Append(@, r)]
<1>1. l.base \in Seq(Record) /\ l.fresh \in Seq(Record)
  BY DEF WorkerState, UnitRecords
<1>2. recs \in Seq(Record) /\ Len(recs) \in Nat
  BY <1>1, ConcatProperties, LenProperties
<1>3. n.base = l.base /\ n.unit = l.unit /\ n.fresh = Append(l.fresh, r)
  BY DEF WorkerState
<1>4. r \in Runner[k + Len(recs)] /\ Len(recs) < UnitLen(l.unit)
  OBVIOUS
<1>5. /\ PrefixOf(l.unit, l.base)
      /\ \A i \in 1 .. Len(recs) : recs[i] \in Runner[k + i - 1]
  BY DEF RunOK
<1>6. k \in Nat /\ UnitLen(l.unit) \in Nat /\ UpperBlock(l.unit) = k + UnitLen(l.unit)
      /\ UpperBlock(l.unit) <= BlockCount
  BY UnitGeometry
<1> HIDE DEF recs, k, n
<1>7. k + Len(recs) \in Blocks
  BY <1>2, <1>4, <1>6, GeometryAssumption DEF Blocks
<1>8. r \in Record
  BY <1>4, <1>7, SchedulerAssumption
<1>9. /\ more \in Seq(Record)
      /\ Len(more) = Len(recs) + 1
      /\ \A i \in 1 .. Len(recs) : more[i] = recs[i]
      /\ more[Len(recs) + 1] = r
  BY <1>2, <1>8, AppendProperties
<1>10. more = l.base \o Append(l.fresh, r)
  BY <1>1, <1>8, ConcatAppend DEF recs
<1> HIDE DEF more
<1>11. ASSUME NEW i \in 1 .. Len(more)
       PROVE  more[i] \in Runner[k + i - 1]
  <2>1. CASE i \in 1 .. Len(recs)
    BY <1>5, <1>9, <2>1
  <2>2. CASE i = Len(recs) + 1
    <3>1. k + i - 1 = k + Len(recs)
      BY <1>2, <1>6, <2>2
    <3> QED
      BY <1>4, <1>9, <2>2, <3>1
  <2> QED
    BY <1>2, <1>9, <2>1, <2>2
<1>12. Len(more) <= UnitLen(l.unit)
  BY <1>2, <1>4, <1>6, <1>9
<1>13. RunOK(n)
  BY <1>3, <1>5, <1>10, <1>11, <1>12 DEF RunOK, k
<1> QED
  BY <1>8, <1>9, <1>10, <1>13 DEF recs, more, n, UnitRecords

\* What a step of a worker on its unit may do to the files.
UnitFilesInv ==
    /\ lease \in [Units -> {"none", "live", "expired"}]
    /\ ckpt \in [Units -> UnitRecords] /\ CkptInv
    /\ receipt \in [Units -> UnitRecords] /\ ReceiptInv

LEMMA RunBlockStep ==
    ASSUME IInv, NEW w \in Workers, RunBlock(w)
    PROVE  worker' \in [Workers -> WorkerState] /\ WorkersInv' /\ UnitFilesInv'
<1> DEFINE l == worker[w]
<1> USE DEF IInv, TypeOK
<1>0. /\ l \in WorkerState /\ l.pc = "run" /\ l.unit \in Units /\ RunOK(l)
      /\ IdleWorker \in WorkerState /\ WorkerOK(IdleWorker)
  BY IdleOK DEF RunBlock, WorkersInv, WorkerOK, OnUnit
<1>1. PICK r \in Runner[FirstBlock(l.unit) + Len(Progress(w))] :
        LET recs == Append(Progress(w), r)
            on   == [l EXCEPT !.fresh = Append(@, r)]
        IN  \/ Becomes(w, on) /\ UNCHANGED <<ckpt, lease>>
            \/ Contiguous(recs) /\ Checkpoint(l.unit, recs) /\ Becomes(w, on)
            \/ Becomes(w, IdleWorker) /\ UNCHANGED <<ckpt, lease>>
  BY DEF RunBlock
<1> DEFINE recs == Append(Progress(w), r)
           on   == [l EXCEPT !.fresh = Append(@, r)]
<1>2. /\ r \in Record
      /\ recs = l.base \o Append(l.fresh, r)
      /\ recs \in UnitRecords
      /\ RunOK(on)
  BY <1>0, RunAppend DEF RunBlock, Progress
<1>3. on \in WorkerState /\ on.pc = "run" /\ on.unit = l.unit
      /\ on.base = l.base /\ on.fresh = Append(l.fresh, r)
  <2>1. l.fresh \in Seq(Record)
    BY <1>0 DEF WorkerState, UnitRecords
  <2>2. Append(l.fresh, r) \in UnitRecords
    BY <1>2, <2>1, AppendProperties DEF UnitRecords
  <2> QED
    BY <1>0, <2>2 DEF WorkerState
<1> HIDE DEF on
<1>4. WorkerOK(on)
  BY <1>0, <1>2, <1>3 DEF WorkerOK, Scanning, OnUnit
<1>5. worker' \in [Workers -> WorkerState] /\ WorkersInv'
  BY <1>0, <1>1, <1>3, <1>4, WorkerFrame DEF on
<1>6. receipt' = receipt
  BY DEF RunBlock
<1>7. CASE UNCHANGED <<ckpt, lease>>
  BY <1>5, <1>6, <1>7 DEF UnitFilesInv, CkptInv, ReceiptInv
<1>8. CASE Contiguous(recs) /\ Checkpoint(l.unit, recs)
  <2>1. PrefixOf(l.unit, recs)
    BY <1>2, <1>3, <1>8, RunProgress
  <2>2. ckpt' \in [Units -> UnitRecords] /\ lease' \in [Units -> {"none", "live", "expired"}]
    BY <1>0, <1>2, <1>8 DEF Checkpoint
  <2>3. CkptInv'
    BY <1>0, <2>1, <1>8 DEF Checkpoint, CkptInv, PrefixOf, Printed, Contiguous
  <2> QED
    BY <1>5, <1>6, <2>2, <2>3 DEF UnitFilesInv, ReceiptInv
<1> QED
  BY <1>1, <1>7, <1>8 DEF on

LEMMA RunSteps ==
    ASSUME IInv, NEW w \in Workers,
           \/ LoadCheckpoint(w) \/ RunBlock(w) \/ FinishSegment(w) \/ Preempt(w)
           \/ CommitUnit(w) \/ ReplaceReceipt(w) \/ UnlinkCheckpoint(w) \/ CrashWorker(w)
    PROVE  worker' \in [Workers -> WorkerState] /\ WorkersInv' /\ UnitFilesInv'
<1> DEFINE l == worker[w]
<1> USE DEF IInv, TypeOK
<1>0. /\ l \in WorkerState /\ WorkerOK(l)
      /\ IdleWorker \in WorkerState /\ WorkerOK(IdleWorker)
  BY IdleOK DEF WorkersInv
<1>1. UNCHANGED <<lease, ckpt, receipt>> => UnitFilesInv'
  BY DEF UnitFilesInv, CkptInv, ReceiptInv
<1>2. \A u \in Units : Absent \in UnitRecords /\ PrefixOf(u, Absent)
  BY UnitGeometry DEF PrefixOf, Printed, Contiguous, Absent, UnitRecords
<1>3. CASE LoadCheckpoint(w)
  <2>1. l.pc = "resume" /\ l.unit \in Units
    BY <1>0, <1>3 DEF LoadCheckpoint, WorkerOK, OnUnit
  <2>2. PICK prefix \in {ckpt[l.unit], Absent} :
          Becomes(w, [l EXCEPT !.pc = "run", !.base = prefix, !.fresh = Absent])
    BY <1>3 DEF LoadCheckpoint
  <2>3. prefix \in UnitRecords /\ PrefixOf(l.unit, prefix)
    BY <1>2, <2>1 DEF CkptInv
  <2> DEFINE n == [l EXCEPT !.pc = "run", !.base = prefix, !.fresh = Absent]
  <2>4. /\ n \in WorkerState /\ n.pc = "run" /\ n.unit = l.unit
        /\ n.base = prefix /\ n.fresh = Absent
    BY <1>0, <1>2, <2>1, <2>3 DEF WorkerState, WorkerPC
  <2> HIDE DEF n
  <2>5. n.base \o n.fresh = prefix
    BY <2>3, <2>4, ConcatEmptySeq DEF Absent, UnitRecords
  <2>6. WorkerOK(n)
    BY <2>1, <2>3, <2>4, <2>5 DEF WorkerOK, Scanning, OnUnit, RunOK, PrefixOf, Printed
  <2> QED
    BY <1>1, <1>3, <2>2, <2>4, <2>6, WorkerFrame DEF LoadCheckpoint, files, n
<1>4. CASE RunBlock(w)
  BY <1>4, RunBlockStep
<1>5. CASE FinishSegment(w)
  <2> DEFINE n == [l EXCEPT !.pc = "commit"]
  <2>1. /\ l.pc = "run" /\ l.unit \in Units /\ RunOK(l)
        /\ Len(l.base \o l.fresh) = UnitLen(l.unit)
    BY <1>0, <1>5 DEF FinishSegment, WorkerOK, OnUnit, Progress
  <2>2. CASE Contiguous(Progress(w))
    <3>1. WholeUnit(l.unit, l.base \o l.fresh)
      BY <1>0, <2>1, <2>2, RunProgress DEF WholeUnit, PrefixOf, Progress
    <3>2. /\ n \in WorkerState /\ n.pc = "commit" /\ n.unit = l.unit
          /\ n.base = l.base /\ n.fresh = l.fresh
      BY <1>0 DEF WorkerState, WorkerPC
    <3> HIDE DEF n
    <3>3. WorkerOK(n)
      BY <2>1, <3>1, <3>2 DEF WorkerOK, Scanning, OnUnit
    <3> QED
      BY <1>1, <1>5, <2>2, <3>2, <3>3, WorkerFrame DEF FinishSegment, files, n
  <2>3. CASE ~Contiguous(Progress(w))
    BY <1>0, <1>1, <1>5, <2>3, WorkerFrame DEF FinishSegment, files
  <2> QED
    BY <2>2, <2>3
<1>6. CASE Preempt(w)
  <2> DEFINE n == [l EXCEPT !.pc = "preempted"]
  <2>1. l.pc = "run" /\ l.unit \in Units /\ RunOK(l)
    BY <1>0, <1>6 DEF Preempt, WorkerOK, OnUnit
  <2>2. n \in WorkerState /\ WorkerOK(n)
    BY <1>0, <2>1 DEF WorkerState, WorkerPC, WorkerOK, Scanning, OnUnit
  <2>3. Becomes(w, n) \/ Becomes(w, IdleWorker)
    BY <1>6 DEF Preempt
  <2> HIDE DEF n
  <2>4. worker' \in [Workers -> WorkerState] /\ WorkersInv'
    BY <1>0, <2>2, <2>3, WorkerFrame
  <2>5. CASE Contiguous(Progress(w)) /\ ckpt' = [ckpt EXCEPT ![l.unit] = Progress(w)]
    <3>1. PrefixOf(l.unit, Progress(w))
      BY <1>0, <2>1, <2>5, RunProgress DEF Progress
    <3>2. Progress(w) \in UnitRecords
      BY <1>0, ConcatProperties DEF Progress, WorkerState, UnitRecords
    <3>3. UNCHANGED <<lease, receipt>>
      BY <1>6 DEF Preempt
    <3>4. ckpt' \in [Units -> UnitRecords] /\ CkptInv'
      BY <2>1, <2>5, <3>1, <3>2 DEF CkptInv, PrefixOf, Printed, Contiguous
    <3> QED
      BY <2>4, <3>3, <3>4 DEF UnitFilesInv, ReceiptInv
  <2>6. CASE UNCHANGED ckpt
    BY <1>1, <1>6, <2>4, <2>6 DEF Preempt
  <2> QED
    BY <1>6, <2>5, <2>6 DEF Preempt
<1>7. CASE CommitUnit(w)
  <2> DEFINE n == [l EXCEPT !.pc = "replace"]
             c == [l EXCEPT !.pc = "cleanup"]
  <2>1. l.pc = "commit" /\ l.unit \in Units /\ WholeUnit(l.unit, l.base \o l.fresh)
    BY <1>0, <1>7 DEF CommitUnit, WorkerOK, OnUnit
  <2>2. /\ n \in WorkerState /\ n.pc = "replace" /\ n.unit = l.unit
        /\ n.base = l.base /\ n.fresh = l.fresh
    BY <1>0 DEF WorkerState, WorkerPC
  <2>3. c \in WorkerState /\ WorkerOK(c)
    BY <1>0, <2>1 DEF WorkerState, WorkerPC, WorkerOK, Scanning, OnUnit
  <2>4. Becomes(w, n) \/ Becomes(w, c) \/ Becomes(w, IdleWorker)
    BY <1>7 DEF CommitUnit
  <2> HIDE DEF n, c
  <2>5. WorkerOK(n)
    BY <2>1, <2>2 DEF WorkerOK, Scanning, OnUnit
  <2> QED
    BY <1>0, <1>1, <1>7, <2>2, <2>3, <2>4, <2>5, WorkerFrame DEF CommitUnit, files
<1>8. CASE ReplaceReceipt(w)
  <2> DEFINE c == [l EXCEPT !.pc = "cleanup"]
  <2>1. l.pc = "replace" /\ l.unit \in Units /\ WholeUnit(l.unit, Progress(w))
    BY <1>0, <1>8 DEF ReplaceReceipt, WorkerOK, OnUnit, Progress
  <2>2. c \in WorkerState /\ WorkerOK(c)
    BY <1>0, <2>1 DEF WorkerState, WorkerPC, WorkerOK, Scanning, OnUnit
  <2>3. Becomes(w, c)
    BY <1>8 DEF ReplaceReceipt
  <2> HIDE DEF c
  <2>4. worker' \in [Workers -> WorkerState] /\ WorkersInv'
    BY <2>2, <2>3, WorkerFrame
  <2>5. Progress(w) \in UnitRecords
    BY <1>0, ConcatProperties DEF Progress, WorkerState, UnitRecords
  <2>6. /\ receipt' = [receipt EXCEPT ![l.unit] = Progress(w)]
        /\ UNCHANGED <<lease, ckpt>>
    BY <1>8 DEF ReplaceReceipt
  <2>7. receipt' \in [Units -> UnitRecords] /\ ReceiptInv'
    BY <2>1, <2>5, <2>6 DEF ReceiptInv, WholeUnit, Printed, Contiguous
  <2> QED
    BY <2>4, <2>6, <2>7 DEF UnitFilesInv, CkptInv
<1>9. CASE UnlinkCheckpoint(w)
  <2> DEFINE n == [l EXCEPT !.pc = "release"]
  <2>1. l.pc = "cleanup" /\ l.unit \in Units
    BY <1>0, <1>9 DEF UnlinkCheckpoint, WorkerOK, OnUnit
  <2>2. n \in WorkerState /\ WorkerOK(n)
    BY <1>0, <2>1 DEF WorkerState, WorkerPC, WorkerOK, Scanning, OnUnit
  <2>3. Becomes(w, n)
    BY <1>9 DEF UnlinkCheckpoint
  <2> HIDE DEF n
  <2>4. worker' \in [Workers -> WorkerState] /\ WorkersInv'
    BY <2>2, <2>3, WorkerFrame
  <2>5. ckpt' = [ckpt EXCEPT ![l.unit] = Absent] /\ UNCHANGED <<lease, receipt>>
    BY <1>9 DEF UnlinkCheckpoint
  <2>6. ckpt' \in [Units -> UnitRecords] /\ CkptInv'
    BY <1>2, <2>1, <2>5 DEF CkptInv
  <2> QED
    BY <2>4, <2>5, <2>6 DEF UnitFilesInv, ReceiptInv
<1>10. CASE CrashWorker(w)
  BY <1>0, <1>1, <1>10, WorkerFrame DEF CrashWorker, files
<1> QED
  BY <1>3, <1>4, <1>5, <1>6, <1>7, <1>8, <1>9, <1>10

----------------------------------------------------------------------------
\* Steps of an operator.

\* seal_shard extends the chain of the shard by the next unit.
LEMMA UnitChainAppend ==
    ASSUME NEW s \in Shards, NEW leaves \in Seq(UnitRecords), UnitChain(s, leaves),
           Len(leaves) < ShardLen(s),
           NEW unit \in UnitRecords, WholeUnit(FirstUnit(s) + Len(leaves), unit),
           Len(leaves) > 0 => Linked(leaves[Len(leaves)], unit)
    PROVE  /\ Append(leaves, unit) \in Seq(UnitRecords)
           /\ UnitChain(s, Append(leaves, unit))
           /\ Len(Append(leaves, unit)) = Len(leaves) + 1
<1> DEFINE more == Append(leaves, unit)
           k    == FirstUnit(s)
<1>1. /\ more \in Seq(UnitRecords)
      /\ Len(leaves) \in Nat
      /\ Len(more) = Len(leaves) + 1
      /\ \A i \in 1 .. Len(leaves) : more[i] = leaves[i]
      /\ more[Len(leaves) + 1] = unit
  BY AppendProperties, LenProperties
<1>2. k \in Nat /\ ShardLen(s) \in Nat
  BY ShardGeometry
<1>3. WholeUnit(k + Len(leaves), unit)
  OBVIOUS
<1> HIDE DEF more, k
<1>4. ASSUME NEW i \in 1 .. Len(more) PROVE WholeUnit(k + i - 1, more[i])
  <2>1. CASE i \in 1 .. Len(leaves)
    BY <1>1, <2>1 DEF UnitChain, k
  <2>2. CASE i = Len(leaves) + 1
    <3>1. k + i - 1 = k + Len(leaves)
      BY <1>1, <1>2, <2>2
    <3> QED
      BY <1>1, <1>3, <2>2, <3>1
  <2> QED
    BY <1>1, <2>1, <2>2
<1>5. ASSUME NEW i \in 1 .. Len(more) - 1 PROVE Linked(more[i], more[i + 1])
  <2>1. CASE i \in 1 .. Len(leaves) - 1
    <3>1. i \in 1 .. Len(leaves) /\ i + 1 \in 1 .. Len(leaves)
      BY <1>1, <2>1
    <3> QED
      BY <1>1, <2>1, <3>1 DEF UnitChain
  <2>2. CASE i = Len(leaves)
    BY <1>1, <2>2
  <2> QED
    BY <1>1, <2>1, <2>2
<1>6. Len(more) <= ShardLen(s)
  BY <1>1, <1>2
<1>7. UnitChain(s, more)
  BY <1>4, <1>5, <1>6 DEF UnitChain, k
<1> QED
  BY <1>1, <1>7 DEF more

\* finalize extends the chain of the campaign by the next shard.
LEMMA ShardChainAppend ==
    ASSUME NEW c \in Seq(ShardSeal), ShardChain(c), Len(c) < ShardCount,
           NEW seal \in ShardSeal, WholeShard(Len(c), seal.leaves),
           Len(c) > 0 => ShardLast(c[Len(c)]) = ShardFirst(seal)
    PROVE  /\ Append(c, seal) \in Seq(ShardSeal)
           /\ ShardChain(Append(c, seal))
           /\ Len(Append(c, seal)) = Len(c) + 1
<1> DEFINE more == Append(c, seal)
<1>1. /\ more \in Seq(ShardSeal)
      /\ Len(c) \in Nat
      /\ Len(more) = Len(c) + 1
      /\ \A i \in 1 .. Len(c) : more[i] = c[i]
      /\ more[Len(c) + 1] = seal
  BY AppendProperties, LenProperties
<1> HIDE DEF more
<1>2. ASSUME NEW i \in 1 .. Len(more) PROVE WholeShard(i - 1, more[i].leaves)
  <2>1. CASE i \in 1 .. Len(c)
    BY <1>1, <2>1 DEF ShardChain
  <2>2. CASE i = Len(c) + 1
    <3>1. i - 1 = Len(c)
      BY <1>1, <2>2
    <3> QED
      BY <1>1, <2>2, <3>1
  <2> QED
    BY <1>1, <2>1, <2>2
<1>3. ASSUME NEW i \in 1 .. Len(more) - 1 PROVE ShardLast(more[i]) = ShardFirst(more[i + 1])
  <2>1. CASE i \in 1 .. Len(c) - 1
    <3>1. i \in 1 .. Len(c) /\ i + 1 \in 1 .. Len(c)
      BY <1>1, <2>1
    <3> QED
      BY <1>1, <2>1, <3>1 DEF ShardChain
  <2>2. CASE i = Len(c)
    BY <1>1, <2>2
  <2> QED
    BY <1>1, <2>1, <2>2
<1>4. Len(more) <= ShardCount
  BY <1>1, Counts
<1>5. ShardChain(more)
  BY <1>2, <1>3, <1>4 DEF ShardChain
<1> QED
  BY <1>1, <1>5 DEF more

\* What a step of an operator may do to the files.
ShardFilesInv ==
    /\ receipt \in [Units -> UnitRecords] /\ ReceiptInv
    /\ digests \in [Shards -> Seq(UnitRecords)]
    /\ sealed \in [Shards -> ShardSeal] /\ SealedInv
    /\ campaign \in Seq(ShardSeal) /\ CampaignInv

LEMMA OperatorSteps ==
    ASSUME IInv, NEW o \in Operators, OperatorStep(o) \/ CrashOperator(o)
    PROVE  operator' \in [Operators -> OperatorState] /\ OperatorsInv' /\ ShardFilesInv'
<1> DEFINE l == operator[o]
<1> USE DEF IInv, TypeOK
<1>0. /\ l \in OperatorState /\ OperatorOK(l)
      /\ IdleOperator \in OperatorState /\ OperatorOK(IdleOperator)
  BY IdleOK DEF OperatorsInv
<1>1. UNCHANGED <<receipt, digests, sealed, campaign>> => ShardFilesInv'
  BY DEF ShardFilesInv, ReceiptInv, SealedInv, CampaignInv
<1>2. CASE SealShard(o)
  <2>1. PICK s \in Shards, prune \in BOOLEAN :
          Sets(o, [IdleOperator EXCEPT !.pc = "read", !.shard = s, !.prune = prune])
    BY <1>2 DEF SealShard
  <2> DEFINE n == [IdleOperator EXCEPT !.pc = "read", !.shard = s, !.prune = prune]
  <2>2. n \in OperatorState
    BY <1>0 DEF OperatorState, OperatorPC, IdleOperator
  <2>3. OperatorOK(n)
    BY ShardGeometry DEF IdleOperator, OperatorOK, UnitChain, Absent
  <2> HIDE DEF n
  <2> QED
    BY <1>1, <1>2, <2>1, <2>2, <2>3, OperatorFrame DEF SealShard, files, n
<1>3. CASE ReadUnit(o)
  <2> DEFINE u    == FirstUnit(l.shard) + Len(l.leaves)
             unit == receipt[u]
             n    == [l EXCEPT !.leaves = Append(l.leaves, unit),
                               !.pc = IF Len(l.leaves) + 1 = ShardLen(l.shard)
                                      THEN "check" ELSE "read"]
  <2>1. /\ l.pc = "read" /\ l.shard \in Shards /\ l.leaves \in Seq(UnitRecords)
        /\ UnitChain(l.shard, l.leaves) /\ Len(l.leaves) < ShardLen(l.shard)
    BY <1>0, <1>3 DEF ReadUnit, OperatorOK, OperatorState
  <2>2. u \in Units
    <3>1. Len(l.leaves) + 1 \in 1 .. ShardLen(l.shard)
      BY <2>1, LenProperties, ShardGeometry
    <3>2. FirstUnit(l.shard) + (Len(l.leaves) + 1) - 1 \in Units
      BY <2>1, <3>1, ShardGeometry
    <3> QED
      BY <2>1, <3>2, LenProperties, ShardGeometry
  <2>3. Sets(o, IdleOperator) \/
        (Sets(o, n) /\ unit # Absent
           /\ (Len(l.leaves) > 0 => Linked(l.leaves[Len(l.leaves)], unit)))
    BY <1>3 DEF ReadUnit
  <2>4. UNCHANGED <<receipt, digests, sealed, campaign>>
    BY <1>3 DEF ReadUnit, files
  <2>5. CASE Sets(o, IdleOperator)
    BY <1>0, <1>1, <2>4, <2>5, OperatorFrame
  <2>6. CASE /\ Sets(o, n) /\ unit # Absent
             /\ Len(l.leaves) > 0 => Linked(l.leaves[Len(l.leaves)], unit)
    <3>1. unit \in UnitRecords /\ WholeUnit(u, unit)
      BY <2>2, <2>6 DEF ReceiptInv
    <3> HIDE DEF unit
    <3>2. /\ Append(l.leaves, unit) \in Seq(UnitRecords)
          /\ UnitChain(l.shard, Append(l.leaves, unit))
          /\ Len(Append(l.leaves, unit)) = Len(l.leaves) + 1
      BY <2>1, <2>6, <3>1, UnitChainAppend
    <3>3. /\ n \in OperatorState
          /\ n.pc = IF Len(l.leaves) + 1 = ShardLen(l.shard) THEN "check" ELSE "read"
          /\ n.shard = l.shard /\ n.leaves = Append(l.leaves, unit)
      BY <1>0, <3>2 DEF OperatorState, OperatorPC
    <3>4. Len(l.leaves) + 1 <= ShardLen(l.shard) /\ Len(l.leaves) \in Nat
          /\ ShardLen(l.shard) \in Nat
      BY <2>1, LenProperties, ShardGeometry
    <3>5. Sets(o, n)
      BY <2>6
    <3> HIDE DEF n
    <3>6. OperatorOK(n)
      BY <3>2, <3>3, <3>4 DEF OperatorOK, WholeShard
    <3> QED
      BY <1>1, <2>4, <3>3, <3>5, <3>6, OperatorFrame
  <2> QED
    BY <2>3, <2>5, <2>6
<1>4. CASE CheckSealed(o)
  <2> DEFINE n == [l EXCEPT !.pc = "digests"]
  <2>1. l.pc = "check" /\ (Sets(o, n) \/ Sets(o, IdleOperator))
    BY <1>4 DEF CheckSealed
  <2>2. n \in OperatorState /\ OperatorOK(n)
    BY <1>0, <2>1 DEF OperatorState, OperatorPC, OperatorOK
  <2> HIDE DEF n
  <2> QED
    BY <1>0, <1>1, <1>4, <2>1, <2>2, OperatorFrame DEF CheckSealed, files
<1>5. CASE WriteDigests(o)
  <2> DEFINE n == [l EXCEPT !.pc = "shard"]
  <2>1. /\ l.pc = "digests" /\ Sets(o, n)
        /\ digests' = [digests EXCEPT ![l.shard] = l.leaves]
        /\ UNCHANGED <<receipt, sealed, campaign>>
    BY <1>5 DEF WriteDigests
  <2>2. n \in OperatorState /\ OperatorOK(n)
    BY <1>0, <2>1 DEF OperatorState, OperatorPC, OperatorOK
  <2>3. digests' \in [Shards -> Seq(UnitRecords)]
    BY <1>0, <2>1 DEF OperatorState
  <2> HIDE DEF n
  <2> QED
    BY <2>1, <2>2, <2>3, OperatorFrame DEF ShardFilesInv, ReceiptInv, SealedInv, CampaignInv
<1>6. CASE WriteShard(o)
  <2> DEFINE n    == [l EXCEPT !.pc = "prune"]
             seal == [leaves |-> l.leaves, pruned |-> l.prune]
  <2>1. /\ l.pc = "shard" /\ (Sets(o, n) \/ Sets(o, IdleOperator))
        /\ sealed' = [sealed EXCEPT ![l.shard] = seal]
        /\ UNCHANGED <<receipt, digests, campaign>>
    BY <1>6 DEF WriteShard
  <2>2. l.shard \in Shards /\ WholeShard(l.shard, l.leaves)
    BY <1>0, <2>1 DEF OperatorState, OperatorOK
  <2>3. n \in OperatorState /\ OperatorOK(n)
    <3>1. /\ n \in OperatorState /\ n.pc = "prune" /\ n.shard = l.shard
          /\ n.leaves = l.leaves
      BY <1>0 DEF OperatorState, OperatorPC
    <3>2. Len(l.leaves) \in 1 .. ShardLen(l.shard)
      BY <2>2, ShardGeometry DEF WholeShard
    <3> HIDE DEF n
    <3> QED
      BY <3>1, <3>2 DEF OperatorOK
  <2>4. seal \in ShardSeal /\ seal.leaves = l.leaves
    BY <1>0 DEF OperatorState, ShardSeal
  <2> HIDE DEF n, seal
  <2>5. sealed' \in [Shards -> ShardSeal] /\ SealedInv'
    BY <2>1, <2>2, <2>4 DEF SealedInv
  <2> QED
    BY <1>0, <2>1, <2>3, <2>5, OperatorFrame DEF ShardFilesInv, ReceiptInv, CampaignInv
<1>7. CASE PruneUnit(o)
  <2> DEFINE n == [l EXCEPT !.leaves = Tail(l.leaves)]
             u == UpperUnit(l.shard) - Len(l.leaves)
  <2>1. /\ l.pc = "prune" /\ l.shard \in Shards /\ l.leaves \in Seq(UnitRecords)
        /\ Len(l.leaves) \in 1 .. ShardLen(l.shard)
    BY <1>0, <1>7 DEF PruneUnit, OperatorState, OperatorOK
  <2>2. /\ receipt' = [receipt EXCEPT ![u] = Absent]
        /\ UNCHANGED <<digests, sealed, campaign>>
        /\ (Len(l.leaves) # 1 /\ Sets(o, n)) \/ Sets(o, IdleOperator)
    BY <1>7 DEF PruneUnit
  <2>3. ASSUME Len(l.leaves) # 1 /\ Sets(o, n)
        PROVE  operator' \in [Operators -> OperatorState] /\ OperatorsInv'
    <3>1. l.leaves # << >> /\ Len(l.leaves) \in Nat /\ ShardLen(l.shard) \in Nat
      BY <2>1, ShardGeometry
    <3>2. /\ Tail(l.leaves) \in Seq(UnitRecords)
          /\ Len(Tail(l.leaves)) = Len(l.leaves) - 1
      BY <2>1, <3>1, HeadTailProperties
    <3>3. n \in OperatorState /\ n.pc = "prune" /\ n.shard = l.shard
          /\ n.leaves = Tail(l.leaves)
      BY <1>0, <2>1, <3>2 DEF OperatorState
    <3>4. Len(Tail(l.leaves)) \in 1 .. ShardLen(l.shard)
      <4> DEFINE before == Len(l.leaves)
                 after  == Len(Tail(l.leaves))
                 size   == ShardLen(l.shard)
      <4>1. before # 1 /\ before \in 1 .. size /\ after = before - 1 /\ size \in Nat
        BY <2>1, <2>3, <3>1, <3>2
      <4> HIDE DEF before, after, size
      <4>2. after \in 1 .. size
        BY <4>1
      <4> QED
        BY <4>2 DEF after, size
    <3>5. Sets(o, n)
      BY <2>3
    <3> HIDE DEF n
    <3>6. OperatorOK(n)
      BY <3>3, <3>4 DEF OperatorOK
    <3> QED
      BY <3>3, <3>5, <3>6, OperatorFrame
  <2>4. operator' \in [Operators -> OperatorState] /\ OperatorsInv'
    <3>1. ASSUME Sets(o, IdleOperator)
          PROVE  operator' \in [Operators -> OperatorState] /\ OperatorsInv'
      BY <1>0, <3>1, OperatorFrame
    <3> QED
      BY <2>2, <2>3, <3>1
  <2>5. receipt' \in [Units -> UnitRecords] /\ ReceiptInv'
    <3>1. Absent \in UnitRecords
      BY DEF Absent, UnitRecords
    <3>2. receipt' = [receipt EXCEPT ![u] = Absent]
      BY <2>2
    <3> HIDE DEF u
    <3> QED
      BY <3>1, <3>2 DEF ReceiptInv
  <2> QED
    BY <2>2, <2>4, <2>5 DEF ShardFilesInv, SealedInv, CampaignInv
<1>8. CASE Finalize(o)
  <2> DEFINE n == [IdleOperator EXCEPT !.pc = "fread"]
  <2>1. n \in OperatorState
    BY <1>0 DEF OperatorState, OperatorPC, IdleOperator
  <2>2. OperatorOK(n)
    BY Counts DEF IdleOperator, OperatorOK, ShardChain, Absent
  <2>3. Sets(o, n)
    BY <1>8 DEF Finalize
  <2> HIDE DEF n
  <2> QED
    BY <1>1, <1>8, <2>1, <2>2, <2>3, OperatorFrame DEF Finalize, files
<1>9. CASE ReadShard(o)
  <2> DEFINE seal == sealed[Len(l.fin)]
             n    == [l EXCEPT !.fin = Append(l.fin, seal),
                               !.pc = IF Len(l.fin) + 1 = ShardCount
                                      THEN "fwrite" ELSE "fread"]
  <2>1. /\ l.pc = "fread" /\ l.fin \in Seq(ShardSeal)
        /\ ShardChain(l.fin) /\ Len(l.fin) < ShardCount /\ Len(l.fin) \in Nat
    BY <1>0, <1>9, LenProperties DEF ReadShard, OperatorOK, OperatorState
  <2>2. Len(l.fin) \in Shards
    BY <2>1, Counts DEF Shards
  <2>3. Sets(o, IdleOperator) \/
        (Sets(o, n) /\ seal # NoShard
           /\ (Len(l.fin) > 0 => ShardLast(l.fin[Len(l.fin)]) = ShardFirst(seal)))
    BY <1>9 DEF ReadShard
  <2>4. UNCHANGED <<receipt, digests, sealed, campaign>>
    BY <1>9 DEF ReadShard, files
  <2>5. CASE Sets(o, IdleOperator)
    BY <1>0, <1>1, <2>4, <2>5, OperatorFrame
  <2>6. CASE /\ Sets(o, n) /\ seal # NoShard
             /\ Len(l.fin) > 0 => ShardLast(l.fin[Len(l.fin)]) = ShardFirst(seal)
    <3>1. seal \in ShardSeal /\ WholeShard(Len(l.fin), seal.leaves)
      BY <2>2, <2>6 DEF SealedInv
    <3> HIDE DEF seal
    <3>2. /\ Append(l.fin, seal) \in Seq(ShardSeal)
          /\ ShardChain(Append(l.fin, seal))
          /\ Len(Append(l.fin, seal)) = Len(l.fin) + 1
      BY <2>1, <2>6, <3>1, ShardChainAppend
    <3>3. /\ n \in OperatorState
          /\ n.pc = IF Len(l.fin) + 1 = ShardCount THEN "fwrite" ELSE "fread"
          /\ n.fin = Append(l.fin, seal)
      BY <1>0, <3>2 DEF OperatorState, OperatorPC
    <3>4. Sets(o, n)
      BY <2>6
    <3> HIDE DEF n
    <3>5. OperatorOK(n)
      BY <2>1, <3>2, <3>3, Counts DEF OperatorOK
    <3> QED
      BY <1>1, <2>4, <3>3, <3>4, <3>5, OperatorFrame
  <2> QED
    BY <2>3, <2>5, <2>6
<1>10. CASE WriteCampaign(o)
  <2>1. /\ l.pc = "fwrite" /\ l.fin \in Seq(ShardSeal)
        /\ ShardChain(l.fin) /\ Len(l.fin) = ShardCount
    BY <1>0, <1>10 DEF WriteCampaign, OperatorOK, OperatorState
  <2>2. campaign' = campaign \/ (campaign' = l.fin /\ ShardFirst(l.fin[1]) \in BeginsAt)
    BY <1>10 DEF WriteCampaign
  <2>3. campaign' \in Seq(ShardSeal) /\ CampaignInv'
    BY <2>1, <2>2 DEF CampaignInv
  <2>4. operator' \in [Operators -> OperatorState] /\ OperatorsInv'
    BY <1>0, <1>10, OperatorFrame DEF WriteCampaign
  <2> QED
    BY <1>10, <2>3, <2>4 DEF WriteCampaign, ShardFilesInv, ReceiptInv, SealedInv
<1>11. CASE CrashOperator(o)
  BY <1>0, <1>1, <1>11, OperatorFrame DEF CrashOperator, files
<1> QED
  BY <1>2, <1>3, <1>4, <1>5, <1>6, <1>7, <1>8, <1>9, <1>10, <1>11 DEF OperatorStep

----------------------------------------------------------------------------
\* The invariant is inductive.

LEMMA NextIInv == IInv /\ [Next]_vars => IInv'
<1> SUFFICES ASSUME IInv, [Next]_vars PROVE IInv'
  OBVIOUS
<1>1. CASE \E w \in Workers :
             Launch(w) \/ RunUnitDirect(w) \/ WorkerStep(w) \/ Preempt(w) \/ CrashWorker(w)
  <2>1. PICK w \in Workers :
          Launch(w) \/ RunUnitDirect(w) \/ WorkerStep(w) \/ Preempt(w) \/ CrashWorker(w)
    BY <1>1
  <2>2. faults' \in 0 .. MaxFaults
    <3>1. Fault \/ UNCHANGED faults
      BY <2>1
         DEF Launch, RunUnitDirect, WorkerStep, Preempt, CrashWorker,
             EnterShard, ListShard, ClaimUnit, TakeLease, ProbeLease, StealLease, RetakeLease,
             StartUnit, LoadCheckpoint, RunBlock, FinishSegment, ReleasePreempted,
             CommitUnit, ReplaceReceipt, UnlinkCheckpoint, ReleaseUnit
    <3> QED
      BY <3>1, SchedulerAssumption DEF IInv, TypeOK, Fault
  <2>3. CASE \/ Launch(w) \/ RunUnitDirect(w) \/ EnterShard(w) \/ ListShard(w)
             \/ ClaimUnit(w) \/ TakeLease(w) \/ ProbeLease(w) \/ StealLease(w)
             \/ RetakeLease(w) \/ StartUnit(w) \/ ReleasePreempted(w) \/ ReleaseUnit(w)
    <3>1. UNCHANGED <<ckpt, receipt, digests, sealed, campaign, operator>>
      BY <2>3 DEF Launch, RunUnitDirect, EnterShard, ListShard, ClaimUnit, TakeLease,
                  ProbeLease, StealLease, RetakeLease, StartUnit, ReleasePreempted,
                  ReleaseUnit, files
    <3>2. /\ worker' \in [Workers -> WorkerState] /\ WorkersInv'
          /\ lease' \in [Units -> {"none", "live", "expired"}]
      BY <2>3, ScanSteps
    <3> QED
      BY <2>2, <3>1, <3>2 DEF IInv, TypeOK, OperatorsInv, CkptInv, ReceiptInv, SealedInv,
                              CampaignInv
  <2>4. CASE \/ LoadCheckpoint(w) \/ RunBlock(w) \/ FinishSegment(w) \/ Preempt(w)
             \/ CommitUnit(w) \/ ReplaceReceipt(w) \/ UnlinkCheckpoint(w) \/ CrashWorker(w)
    <3>1. UNCHANGED <<digests, sealed, campaign, operator>>
      BY <2>4 DEF LoadCheckpoint, RunBlock, FinishSegment, Preempt, CommitUnit,
                  ReplaceReceipt, UnlinkCheckpoint, CrashWorker, files
    <3>2. worker' \in [Workers -> WorkerState] /\ WorkersInv' /\ UnitFilesInv'
      BY <2>4, RunSteps
    <3> QED
      BY <2>2, <3>1, <3>2 DEF IInv, TypeOK, UnitFilesInv, OperatorsInv, SealedInv, CampaignInv
  <2> QED
    BY <2>1, <2>3, <2>4 DEF WorkerStep
<1>2. CASE \E u \in Units : LeaseExpires(u)
  BY <1>2 DEF LeaseExpires, IInv, TypeOK, WorkersInv, OperatorsInv, CkptInv, ReceiptInv,
              SealedInv, CampaignInv
<1>3. CASE \E o \in Operators : OperatorStep(o) \/ CrashOperator(o)
  <2>1. PICK o \in Operators : OperatorStep(o) \/ CrashOperator(o)
    BY <1>3
  <2>2. faults' \in 0 .. MaxFaults
    <3>1. Fault \/ UNCHANGED faults
      BY <2>1
         DEF OperatorStep, CrashOperator, SealShard, ReadUnit, CheckSealed,
             WriteDigests, WriteShard, PruneUnit, Finalize, ReadShard, WriteCampaign
    <3> QED
      BY <3>1, SchedulerAssumption DEF IInv, TypeOK, Fault
  <2>3. UNCHANGED <<lease, ckpt, worker>>
    BY <2>1 DEF OperatorStep, CrashOperator, SealShard, ReadUnit, CheckSealed,
                WriteDigests, WriteShard, PruneUnit, Finalize, ReadShard, WriteCampaign, files
  <2>4. operator' \in [Operators -> OperatorState] /\ OperatorsInv' /\ ShardFilesInv'
    BY <2>1, OperatorSteps
  <2> QED
    BY <2>2, <2>3, <2>4 DEF IInv, TypeOK, ShardFilesInv, WorkersInv, CkptInv
<1>4. CASE UNCHANGED vars
  BY <1>4 DEF vars, files, IInv, TypeOK, WorkersInv, OperatorsInv, CkptInv, ReceiptInv,
              SealedInv, CampaignInv
<1> QED
  BY <1>1, <1>2, <1>3, <1>4 DEF Next

LEMMA Invariance == Spec => []IInv
  BY InitIInv, NextIInv, PTL DEF Spec

\* Every file and every process local keeps its type, for every geometry and
\* every number of processes and faults.
THEOREM TypeCorrect == Spec => []TypeOK
  BY Invariance, PTL DEF IInv

\* Every retained unit receipt commits to a whole unit of contiguous records
\* the runner printed for exactly its blocks, through any history of
\* preemptions, crashes, steals and duplicate runs.
THEOREM ReceiptsSound == Spec => []ReceiptSound
<1>1. IInv => ReceiptSound
  BY DEF IInv, ReceiptInv, ReceiptSound, WholeUnit
<1> QED
  BY <1>1, Invariance, PTL

----------------------------------------------------------------------------
\* From the chain of shards to the chain of blocks.

\* The unit a campaign commits to is whole, and two adjacent ones are linked,
\* within a shard by seal_shard and across shards by finalize.
LEMMA UnitsOfCampaign ==
    ASSUME NEW c, ShardChain(c), Len(c) = ShardCount
    PROVE  /\ \A u \in Units : WholeUnit(u, UnitAt(c, u))
           /\ \A u \in Units : u + 1 \in Units => Linked(UnitAt(c, u), UnitAt(c, u + 1))
<1>0. /\ \A s \in Shards : WholeShard(s, c[s + 1].leaves)
      /\ \A s \in Shards : s + 1 \in Shards => ShardLast(c[s + 1]) = ShardFirst(c[s + 2])
  <2>1. ASSUME NEW s \in Shards PROVE WholeShard(s, c[s + 1].leaves)
    <3>1. s + 1 \in 1 .. Len(c) /\ (s + 1) - 1 = s
      BY Counts DEF Shards
    <3>2. WholeShard((s + 1) - 1, c[s + 1].leaves)
      BY <3>1 DEF ShardChain
    <3> QED
      BY <3>1, <3>2
  <2>2. ASSUME NEW s \in Shards, s + 1 \in Shards
        PROVE  ShardLast(c[s + 1]) = ShardFirst(c[s + 2])
    <3>1. s + 1 \in 1 .. Len(c) - 1 /\ (s + 1) + 1 = s + 2
      BY <2>2, Counts DEF Shards
    <3>2. ShardLast(c[s + 1]) = ShardFirst(c[(s + 1) + 1])
      BY <3>1 DEF ShardChain
    <3> QED
      BY <3>1, <3>2
  <2> QED
    BY <2>1, <2>2
<1>1. ASSUME NEW u \in Units PROVE WholeUnit(u, UnitAt(c, u))
  <2> DEFINE s == ShardOf(u)
             i == u - FirstUnit(s) + 1
  <2>1. s \in Shards /\ i \in 1 .. ShardLen(s) /\ FirstUnit(s) + i - 1 = u
    <3>1. s \in Shards /\ i \in 1 .. ShardLen(s)
      BY PositionInShard
    <3>2. FirstUnit(s) \in Nat /\ u \in Int
      BY <3>1, ShardGeometry, Counts DEF Units
    <3> QED
      BY <3>1, <3>2
  <2>2. WholeShard(s, c[s + 1].leaves)
    BY <1>0, <2>1
  <2>3. UnitAt(c, u) = c[s + 1].leaves[i]
    BY DEF UnitAt
  <2> HIDE DEF s, i
  <2>4. WholeUnit(FirstUnit(s) + i - 1, c[s + 1].leaves[i])
    BY <2>1, <2>2 DEF WholeShard, UnitChain
  <2> QED
    BY <2>1, <2>3, <2>4
<1>2. ASSUME NEW u \in Units, u + 1 \in Units
      PROVE  Linked(UnitAt(c, u), UnitAt(c, u + 1))
  <2> DEFINE s == ShardOf(u)
             i == u - FirstUnit(s) + 1
             leaves == c[s + 1].leaves
  <2>1. /\ s \in Shards /\ i \in 1 .. ShardLen(s)
        /\ FirstUnit(s) \in Nat /\ ShardLen(s) \in Nat
        /\ UpperUnit(s) = FirstUnit(s) + ShardLen(s)
        /\ u \in Nat /\ s \in Nat
    <3>1. s \in Shards /\ i \in 1 .. ShardLen(s)
      BY PositionInShard
    <3>2. u \in Nat /\ s \in Nat
      BY <3>1, Counts DEF Units, Shards
    <3> HIDE DEF s, i
    <3> QED
      BY <3>1, <3>2, ShardGeometry
  <2>2. UnitAt(c, u) = leaves[i]
    BY DEF UnitAt
  <2>3. WholeShard(s, leaves)
    BY <1>0, <2>1
  <2>4. CASE ShardOf(u + 1) = s
    <3>1. UnitAt(c, u + 1) = leaves[(u + 1) - FirstUnit(s) + 1]
      BY <2>4 DEF UnitAt
    <3>2. (u + 1) - FirstUnit(s) + 1 = i + 1
      BY <2>1
    <3>3. (u + 1) - FirstUnit(s) + 1 \in 1 .. ShardLen(s)
      BY <1>2, <2>4, PositionInShard
    <3> HIDE DEF s, i, leaves
    <3>4. i \in 1 .. Len(leaves) - 1
      BY <2>1, <2>3, <3>2, <3>3 DEF WholeShard
    <3>5. Linked(leaves[i], leaves[i + 1])
      BY <2>3, <3>4 DEF WholeShard, UnitChain
    <3> QED
      BY <2>2, <3>1, <3>2, <3>5
  <2>5. CASE /\ ShardOf(u + 1) = s + 1
             /\ u + 1 = FirstUnit(s + 1)
             /\ u + 1 = UpperUnit(s)
    <3>1. s + 1 \in Shards
      BY <1>2, <2>5, PositionInShard
    <3>2. UnitAt(c, u + 1) = c[s + 2].leaves[1]
      <4>1. UnitAt(c, u + 1) = c[(s + 1) + 1].leaves[(u + 1) - FirstUnit(s + 1) + 1]
        BY <2>5 DEF UnitAt
      <4>2. (s + 1) + 1 = s + 2 /\ (u + 1) - FirstUnit(s + 1) + 1 = 1
        BY <2>1, <2>5
      <4> QED
        BY <4>1, <4>2
    <3>3. i = Len(leaves)
      BY <2>1, <2>3, <2>5 DEF WholeShard
    <3>4. ShardLast(c[s + 1]) = ShardFirst(c[s + 2])
      BY <1>0, <2>1, <3>1
    <3> QED
      BY <2>2, <3>2, <3>3, <3>4 DEF ShardLast, ShardFirst, Linked
  <2> QED
    BY <1>2, <2>4, <2>5, NextUnit
<1> QED
  BY <1>1, <1>2

\* A campaign artifact commits to one record of the runner for every block
\* of the schedule, and the counts chain over every boundary from an accepted
\* first count: units, shards and the campaign are each checked by a process
\* that sees only the endpoints of the level below.
THEOREM CampaignsSound == Spec => []CampaignSound
<1>1. ASSUME IInv, campaign # Absent
      PROVE  /\ RecordAt(campaign, 0).lo \in BeginsAt
             /\ \A b \in Blocks : RecordAt(campaign, b) \in Runner[b]
             /\ \A b \in Blocks \ {0} : RecordAt(campaign, b - 1).hi = RecordAt(campaign, b).lo
  <2> DEFINE U(u) == UnitAt(campaign, u)
  <2>1. /\ ShardChain(campaign) /\ Len(campaign) = ShardCount
        /\ ShardFirst(campaign[1]) \in BeginsAt
    BY <1>1 DEF IInv, CampaignInv
  <2>2. /\ \A u \in Units : Len(U(u)) = UnitLen(u) /\ Printed(u, U(u))
        /\ \A u \in Units : u + 1 \in Units => U(u)[Len(U(u))].hi = U(u + 1)[1].lo
    BY <2>1, UnitsOfCampaign DEF WholeUnit, Linked, FirstCount, LastCount
  <2> HIDE DEF U
  <2>3. \A b \in Blocks :
          RecordAt(campaign, b) =
            U(b \div BlocksPerUnit)[b - FirstBlock(b \div BlocksPerUnit) + 1]
    BY DEF RecordAt, U
  <2>4. RecordAt(campaign, 0).lo \in BeginsAt
    <3>1. 0 \div BlocksPerUnit = 0 /\ FirstBlock(0) = 0 /\ 0 \in Blocks
      BY GeometryAssumption, DivisionUnique DEF FirstBlock, Blocks
    <3>2. ShardOf(0) = 0 /\ FirstUnit(0) = 0
      BY GeometryAssumption, DivisionUnique DEF FirstUnit, ShardOf
    <3>3. RecordAt(campaign, 0) = campaign[1].leaves[1][1]
      BY <2>3, <3>1, <3>2 DEF UnitAt, U
    <3> QED
      BY <2>1, <3>3 DEF ShardFirst, FirstCount
  <2>5. ASSUME NEW b \in Blocks PROVE RecordAt(campaign, b) \in Runner[b]
    <3> DEFINE u == b \div BlocksPerUnit
               i == b - FirstBlock(u) + 1
    <3>1. u \in Units /\ i \in 1 .. UnitLen(u)
      BY UnitOfBlock
    <3>2. FirstBlock(u) + i - 1 = b
      BY <3>1, UnitGeometry, GeometryAssumption DEF Blocks
    <3>3. RecordAt(campaign, b) = U(u)[i]
      BY <2>3
    <3> HIDE DEF u, i
    <3>4. U(u)[i] \in Runner[FirstBlock(u) + i - 1]
      BY <2>2, <3>1 DEF Printed
    <3> QED
      BY <3>2, <3>3, <3>4
  <2>6. ASSUME NEW a \in Blocks, a + 1 \in Blocks
        PROVE  RecordAt(campaign, a).hi = RecordAt(campaign, a + 1).lo
    <3> DEFINE u == a \div BlocksPerUnit
               i == a - FirstBlock(u) + 1
    <3>1. /\ u \in Units /\ i \in 1 .. UnitLen(u) /\ u \in Nat /\ a \in Nat
          /\ FirstBlock(u) \in Nat /\ UnitLen(u) \in Nat
          /\ UpperBlock(u) = FirstBlock(u) + UnitLen(u)
      <4>1. u \in Units /\ i \in 1 .. UnitLen(u)
        BY UnitOfBlock
      <4>2. u \in Nat /\ a \in Nat
        BY <4>1, Counts, GeometryAssumption DEF Units, Blocks
      <4> HIDE DEF u, i
      <4> QED
        BY <4>1, <4>2, UnitGeometry
    <3>2. RecordAt(campaign, a) = U(u)[i]
      BY <2>3
    <3>3. CASE (a + 1) \div BlocksPerUnit = u
      <4>1. RecordAt(campaign, a + 1) = U(u)[(a + 1) - FirstBlock(u) + 1]
        BY <2>3, <2>6, <3>3
      <4>2. (a + 1) - FirstBlock(u) + 1 \in 1 .. UnitLen(u)
        BY <2>6, <3>3, UnitOfBlock
      <4>3. (a + 1) - FirstBlock(u) + 1 = i + 1
        BY <3>1
      <4> HIDE DEF u, i
      <4>4. i \in 1 .. Len(U(u)) - 1
        BY <2>2, <3>1, <4>2, <4>3
      <4> QED
        BY <2>2, <3>1, <3>2, <4>1, <4>3, <4>4 DEF Printed, Contiguous
    <3>4. CASE /\ (a + 1) \div BlocksPerUnit = u + 1
               /\ a + 1 = FirstBlock(u + 1)
               /\ a + 1 = UpperBlock(u)
      <4>1. u + 1 \in Units
        BY <2>6, <3>4, UnitOfBlock
      <4>2. RecordAt(campaign, a + 1) = U(u + 1)[(a + 1) - FirstBlock(u + 1) + 1]
        BY <2>3, <2>6, <3>4
      <4>3. (a + 1) - FirstBlock(u + 1) + 1 = 1 /\ i = UnitLen(u)
        BY <3>1, <3>4
      <4> QED
        BY <2>2, <3>1, <3>2, <4>1, <4>2, <4>3
    <3> QED
      BY <2>6, <3>3, <3>4, NextBlock
  <2>7. ASSUME NEW b \in Blocks \ {0}
        PROVE  RecordAt(campaign, b - 1).hi = RecordAt(campaign, b).lo
    <3>1. b - 1 \in Blocks /\ (b - 1) + 1 \in Blocks /\ (b - 1) + 1 = b
      BY GeometryAssumption DEF Blocks
    <3> QED
      BY <2>6, <3>1
  <2> QED
    BY <2>4, <2>5, <2>7
<1>2. IInv => CampaignSound
  BY <1>1 DEF CampaignSound
<1> QED
  BY <1>2, Invariance, PTL

----------------------------------------------------------------------------
\* What a step changes: each kind of file has one action that writes it, and a
\* process changes no other process's locals.

WorkerAction(w) ==
    Launch(w) \/ RunUnitDirect(w) \/ WorkerStep(w) \/ Preempt(w) \/ CrashWorker(w)
OperatorAction(o) == OperatorStep(o) \/ CrashOperator(o)

LEMMA NextActions ==
    Next <=> \/ \E w \in Workers : WorkerAction(w)
             \/ \E u \in Units : LeaseExpires(u)
             \/ \E o \in Operators : OperatorAction(o)
  BY DEF Next, WorkerAction, OperatorAction

LEMMA WorkerChanges ==
    ASSUME NEW w \in Workers, WorkerAction(w)
    PROVE  /\ UNCHANGED <<digests, sealed, campaign, operator>>
           /\ UNCHANGED receipt \/ ReplaceReceipt(w)
<1>1. CASE \/ Launch(w) \/ RunUnitDirect(w) \/ EnterShard(w) \/ ListShard(w)
           \/ ClaimUnit(w) \/ TakeLease(w) \/ ProbeLease(w) \/ StealLease(w)
           \/ RetakeLease(w) \/ StartUnit(w) \/ ReleasePreempted(w) \/ ReleaseUnit(w)
  BY <1>1 DEF Launch, RunUnitDirect, EnterShard, ListShard, ClaimUnit, TakeLease,
              ProbeLease, StealLease, RetakeLease, StartUnit, ReleasePreempted,
              ReleaseUnit, files
<1>2. CASE \/ LoadCheckpoint(w) \/ RunBlock(w) \/ FinishSegment(w) \/ Preempt(w)
           \/ CommitUnit(w) \/ UnlinkCheckpoint(w) \/ CrashWorker(w)
  BY <1>2 DEF LoadCheckpoint, RunBlock, FinishSegment, Preempt, CommitUnit,
              UnlinkCheckpoint, CrashWorker, files
<1>3. CASE ReplaceReceipt(w)
  BY <1>3 DEF ReplaceReceipt
<1> QED
  BY <1>1, <1>2, <1>3 DEF WorkerAction, WorkerStep

LEMMA OperatorChanges ==
    ASSUME NEW o \in Operators, OperatorAction(o)
    PROVE  /\ UNCHANGED <<lease, ckpt, worker>>
           /\ UNCHANGED receipt \/ PruneUnit(o)
           /\ UNCHANGED digests \/ WriteDigests(o)
           /\ UNCHANGED sealed \/ WriteShard(o)
           /\ UNCHANGED campaign \/ WriteCampaign(o)
  BY DEF OperatorAction, OperatorStep, CrashOperator, SealShard, ReadUnit, CheckSealed,
         WriteDigests, WriteShard, PruneUnit, Finalize, ReadShard, WriteCampaign, files

LEMMA OtherOperators ==
    ASSUME operator \in [Operators -> OperatorState],
           NEW o \in Operators, OperatorAction(o), NEW p \in Operators, p # o
    PROVE  operator'[p] = operator[p]
<1>1. \E l : Sets(o, l)
  BY DEF OperatorAction, OperatorStep, CrashOperator, SealShard, ReadUnit, CheckSealed,
         WriteDigests, WriteShard, PruneUnit, Finalize, ReadShard, WriteCampaign
<1> QED
  BY <1>1 DEF Sets

----------------------------------------------------------------------------
\* The refinement of the ledger.

Closed == {s \in Shards : sealed[s] # NoShard}

\* What an operator has read stays true of the files it read it from: the units
\* of the digests it holds are done, the shards it prunes or binds are closed.
Backed(l, done, closed) ==
    /\ l.pc \in {"read", "check", "digests", "shard"} =>
         \A i \in 1 .. Len(l.leaves) : FirstUnit(l.shard) + i - 1 \in done
    /\ l.pc = "prune" => l.shard \in closed
    /\ l.pc \in {"fread", "fwrite"} => \A i \in 1 .. Len(l.fin) : i - 1 \in closed

BackedInv == \A o \in Operators : Backed(operator[o], Done, Closed)

LEMMA BackedMonotone ==
    ASSUME NEW l, NEW done, NEW more, done \subseteq more,
           NEW closed, NEW further, closed \subseteq further,
           Backed(l, done, closed)
    PROVE  Backed(l, more, further)
  BY DEF Backed

\* A retained result is told from an absent one.
LEMMA RetainedNotAbsent ==
    /\ \A u \in Units, recs \in UnitRecords : WholeUnit(u, recs) => recs # Absent
    /\ \A s \in Shards, seal \in ShardSeal : WholeShard(s, seal.leaves) => seal # NoShard
<1>1. ASSUME NEW u \in Units, NEW recs \in UnitRecords, WholeUnit(u, recs) PROVE recs # Absent
  BY <1>1, UnitGeometry DEF WholeUnit, Absent
<1>2. ASSUME NEW s \in Shards, NEW seal \in ShardSeal, WholeShard(s, seal.leaves)
      PROVE  seal # NoShard
  <2>1. Len(seal.leaves) = ShardLen(s) /\ ShardLen(s) # 0
    BY <1>2, ShardGeometry DEF WholeShard
  <2>2. NoShard.leaves = << >>
    BY DEF NoShard, Absent
  <2> QED
    BY <2>1, <2>2
<1> QED
  BY <1>1, <1>2

\* The commit of a unit finishes exactly that unit.
LEMMA ReceiptWritten ==
    ASSUME IInv, NEW w \in Workers, ReplaceReceipt(w)
    PROVE  /\ worker[w].unit \in Units
           /\ Done' = Done \cup {worker[w].unit}
           /\ Closed' = Closed
<1> DEFINE u == worker[w].unit
<1>1. worker[w] \in WorkerState /\ u \in Units /\ WholeUnit(u, Progress(w))
  BY DEF IInv, TypeOK, WorkersInv, WorkerOK, OnUnit, ReplaceReceipt, Progress
<1>2. Progress(w) \in UnitRecords
  BY <1>1, ConcatProperties DEF Progress, WorkerState, UnitRecords
<1>3. Progress(w) # Absent
  BY <1>1, <1>2, RetainedNotAbsent
<1>4. /\ receipt \in [Units -> UnitRecords]
      /\ receipt' = [receipt EXCEPT ![u] = Progress(w)] /\ UNCHANGED sealed
  BY DEF ReplaceReceipt, IInv, TypeOK
<1> HIDE DEF u
<1>5. Done' = Done \cup {u}
  BY <1>1, <1>3, <1>4 DEF Done
<1> QED
  BY <1>1, <1>4, <1>5 DEF Closed, u

\* seal_shard closes a shard whose units are done, and so finishes none.
LEMMA ShardWritten ==
    ASSUME IInv, BackedInv, NEW o \in Operators, WriteShard(o)
    PROVE  /\ operator[o].shard \in Shards
           /\ UnitsOf(operator[o].shard) \subseteq Done
           /\ Done' = Done
           /\ Closed' = Closed \cup {operator[o].shard}
<1> DEFINE l    == operator[o]
           s    == l.shard
           seal == [leaves |-> l.leaves, pruned |-> l.prune]
<1>1. /\ l \in OperatorState /\ l.pc = "shard" /\ s \in Shards
      /\ WholeShard(s, l.leaves) /\ Backed(l, Done, Closed)
  BY DEF IInv, TypeOK, OperatorsInv, OperatorOK, OperatorState, BackedInv, WriteShard
<1>2. seal \in ShardSeal /\ seal # NoShard
  <2>1. seal \in ShardSeal /\ seal.leaves = l.leaves
    BY <1>1 DEF OperatorState, ShardSeal
  <2> QED
    BY <1>1, <2>1, RetainedNotAbsent
<1>3. /\ sealed \in [Shards -> ShardSeal] /\ UNCHANGED receipt
      /\ sealed' = [sealed EXCEPT ![s] = seal]
  BY DEF IInv, TypeOK, WriteShard
<1>4. ASSUME NEW u \in UnitsOf(s) PROVE u \in Done
  <2> DEFINE i == u - FirstUnit(s) + 1
  <2>1. /\ FirstUnit(s) \in Nat /\ ShardLen(s) \in Nat
        /\ UpperUnit(s) = FirstUnit(s) + ShardLen(s)
        /\ u \in FirstUnit(s) .. UpperUnit(s) - 1
    BY <1>1, ShardGeometry DEF UnitsOf
  <2>2. i \in 1 .. Len(l.leaves) /\ FirstUnit(s) + i - 1 = u
    BY <1>1, <2>1 DEF WholeShard
  <2> HIDE DEF i
  <2> QED
    BY <1>1, <2>2 DEF Backed
<1> HIDE DEF s, seal
<1>5. Closed' = Closed \cup {s}
  BY <1>1, <1>2, <1>3 DEF Closed
<1>6. \A u \in Units : ShardOf(u) = s => u \in UnitsOf(s)
  BY ShardOfUnit
<1>7. Done' = Done
  BY <1>1, <1>2, <1>3, <1>4, <1>6, ShardOfUnit DEF Done
<1> QED
  BY <1>1, <1>4, <1>5, <1>7 DEF s

\* Pruning removes receipts of closed shards only: nothing is undone.
LEMMA UnitPruned ==
    ASSUME IInv, BackedInv, NEW o \in Operators, PruneUnit(o)
    PROVE  Done' = Done /\ Closed' = Closed
<1> DEFINE l == operator[o]
           s == l.shard
           u == UpperUnit(s) - Len(l.leaves)
<1>1. /\ l \in OperatorState /\ l.pc = "prune" /\ s \in Closed
      /\ Len(l.leaves) \in 1 .. ShardLen(s)
  BY DEF IInv, TypeOK, OperatorsInv, OperatorOK, OperatorState, BackedInv, Backed, PruneUnit
<1>2. s \in Shards /\ sealed[s] # NoShard
  BY <1>1 DEF Closed
<1>3. /\ receipt \in [Units -> UnitRecords] /\ UNCHANGED sealed
      /\ receipt' = [receipt EXCEPT ![u] = Absent]
  BY DEF IInv, TypeOK, PruneUnit
<1>4. u \in UnitsOf(s)
  BY <1>1, <1>2, ShardGeometry DEF UnitsOf
<1>5. u \in Units /\ ShardOf(u) = s
  BY <1>2, <1>4, ShardOfUnit, ShardGeometry
<1> HIDE DEF u, s
<1>6. Done' = Done
  BY <1>2, <1>3, <1>5 DEF Done
<1> QED
  BY <1>3, <1>6 DEF Closed

\* finalize publishes over closed shards only.
LEMMA CampaignWritten ==
    ASSUME IInv, BackedInv, NEW o \in Operators, WriteCampaign(o)
    PROVE  /\ Closed = Shards
           /\ campaign' = campaign \/ campaign' # Absent
<1> DEFINE l == operator[o]
<1>1. /\ l \in OperatorState /\ l.pc = "fwrite" /\ Len(l.fin) = ShardCount
      /\ Backed(l, Done, Closed)
  BY DEF IInv, TypeOK, OperatorsInv, OperatorOK, BackedInv, WriteCampaign
<1>2. \A s \in Shards : s + 1 \in 1 .. Len(l.fin) /\ (s + 1) - 1 = s
  BY <1>1, Counts DEF Shards
<1>3. Shards \subseteq Closed
  BY <1>1, <1>2 DEF Backed
<1>4. campaign' = campaign \/ campaign' = l.fin
  BY DEF WriteCampaign
<1>5. l.fin # Absent
  BY <1>1, Counts DEF Absent
<1> QED
  BY <1>3, <1>4, <1>5 DEF Closed

\* What an operator's next locals say of the files is true of the files.
LEMMA OperatorBacked ==
    ASSUME IInv, BackedInv, NEW o \in Operators, OperatorAction(o),
           Done \subseteq Done', Closed \subseteq Closed'
    PROVE  Backed(operator'[o], Done', Closed')
<1> DEFINE l == operator[o]
<1>0. /\ l \in OperatorState /\ OperatorOK(l)
      /\ operator \in [Operators -> OperatorState]
      /\ Backed(l, Done, Closed) /\ Backed(l, Done', Closed')
  BY BackedMonotone DEF IInv, TypeOK, OperatorsInv, BackedInv
<1>1. \A n : Sets(o, n) => operator'[o] = n
  BY <1>0 DEF Sets
<1>2. Sets(o, IdleOperator) => Backed(operator'[o], Done', Closed')
  BY <1>1 DEF Backed, IdleOperator
<1>3. CASE SealShard(o)
  <2>1. PICK s \in Shards, prune \in BOOLEAN :
          Sets(o, [IdleOperator EXCEPT !.pc = "read", !.shard = s, !.prune = prune])
    BY <1>3 DEF SealShard
  <2> DEFINE n == [IdleOperator EXCEPT !.pc = "read", !.shard = s, !.prune = prune]
  <2>2. n.pc = "read" /\ Len(n.leaves) = 0
    BY DEF IdleOperator, Absent
  <2>3. operator'[o] = n
    BY <1>1, <2>1
  <2> HIDE DEF n
  <2> QED
    BY <2>2, <2>3 DEF Backed
<1>4. CASE ReadUnit(o)
  <2> DEFINE u    == FirstUnit(l.shard) + Len(l.leaves)
             unit == receipt[u]
             n    == [l EXCEPT !.leaves = Append(l.leaves, unit),
                               !.pc = IF Len(l.leaves) + 1 = ShardLen(l.shard)
                                      THEN "check" ELSE "read"]
  <2>1. /\ l.pc = "read" /\ l.shard \in Shards /\ l.leaves \in Seq(UnitRecords)
        /\ Len(l.leaves) \in Nat /\ Len(l.leaves) < ShardLen(l.shard)
    BY <1>0, <1>4 DEF ReadUnit, OperatorOK, OperatorState
  <2>2. Sets(o, IdleOperator) \/ (Sets(o, n) /\ unit # Absent)
    BY <1>4 DEF ReadUnit
  <2>3. CASE Sets(o, n) /\ unit # Absent
    <3>1. u \in Units /\ u \in Done
      <4>1. /\ Len(l.leaves) + 1 \in 1 .. ShardLen(l.shard) /\ FirstUnit(l.shard) \in Nat
            /\ UnitsOf(l.shard) \subseteq Units
        BY <2>1, ShardGeometry
      <4>2. FirstUnit(l.shard) + (Len(l.leaves) + 1) - 1 \in Units
        BY <2>1, <4>1, ShardGeometry
      <4>3. FirstUnit(l.shard) + (Len(l.leaves) + 1) - 1 = u
        BY <2>1, <4>1
      <4> QED
        BY <2>3, <4>2, <4>3 DEF Done
    <3>2. unit \in UnitRecords
      BY <3>1 DEF IInv, TypeOK
    <3>3. operator'[o] = n
      BY <1>1, <2>3
    <3>4. n.pc \in {"read", "check"} /\ n.shard = l.shard /\ n.leaves = Append(l.leaves, unit)
      BY <1>0 DEF OperatorState
    <3> HIDE DEF n, unit
    <3>5. Len(Append(l.leaves, unit)) = Len(l.leaves) + 1
      BY <2>1, <3>2, AppendProperties
    <3>6. ASSUME NEW i \in 1 .. Len(l.leaves) + 1
          PROVE  FirstUnit(l.shard) + i - 1 \in Done'
      <4>1. CASE i \in 1 .. Len(l.leaves)
        BY <1>0, <2>1, <4>1 DEF Backed
      <4>2. CASE i = Len(l.leaves) + 1
        <5>1. FirstUnit(l.shard) + i - 1 = u
          BY <2>1, <4>2, ShardGeometry
        <5> QED
          BY <3>1, <5>1
      <4> QED
        BY <2>1, <4>1, <4>2
    <3> QED
      BY <3>3, <3>4, <3>5, <3>6 DEF Backed
  <2> QED
    BY <1>2, <2>2, <2>3
<1>5. CASE CheckSealed(o) \/ WriteDigests(o)
  <2>1. PICK pc \in {"digests", "shard"} : \/ Sets(o, [l EXCEPT !.pc = pc])
                                           \/ Sets(o, IdleOperator)
    BY <1>5 DEF CheckSealed, WriteDigests
  <2>2. l.pc \in {"check", "digests"}
    BY <1>5 DEF CheckSealed, WriteDigests
  <2> DEFINE n == [l EXCEPT !.pc = pc]
  <2>3. n.pc = pc /\ n.shard = l.shard /\ n.leaves = l.leaves
    BY <1>0 DEF OperatorState
  <2>4. Sets(o, n) => operator'[o] = n
    BY <1>1
  <2>5. Sets(o, n) \/ Sets(o, IdleOperator)
    BY <2>1
  <2> HIDE DEF n
  <2>6. Backed(n, Done', Closed')
    BY <1>0, <2>2, <2>3 DEF Backed
  <2> QED
    BY <1>2, <2>4, <2>5, <2>6
<1>6. CASE WriteShard(o)
  <2> DEFINE n == [l EXCEPT !.pc = "prune"]
  <2>1. Sets(o, n) \/ Sets(o, IdleOperator)
    BY <1>6 DEF WriteShard
  <2>2. n.pc = "prune" /\ n.shard = l.shard
    BY <1>0 DEF OperatorState
  <2>3. Sets(o, n) => operator'[o] = n
    BY <1>1
  <2>4. l.shard \in Closed'
    BY <1>6, ShardWritten
  <2> HIDE DEF n
  <2> QED
    BY <1>2, <2>1, <2>2, <2>3, <2>4 DEF Backed
<1>7. CASE PruneUnit(o)
  <2> DEFINE n == [l EXCEPT !.leaves = Tail(l.leaves)]
  <2>1. l.pc = "prune" /\ (Sets(o, n) \/ Sets(o, IdleOperator))
    BY <1>7 DEF PruneUnit
  <2>2. n.pc = l.pc /\ n.shard = l.shard
    BY <1>0 DEF OperatorState
  <2>3. Sets(o, n) => operator'[o] = n
    BY <1>1
  <2> HIDE DEF n
  <2> QED
    BY <1>0, <1>2, <2>1, <2>2, <2>3 DEF Backed
<1>8. CASE Finalize(o)
  <2> DEFINE n == [IdleOperator EXCEPT !.pc = "fread"]
  <2>1. n.pc = "fread" /\ Len(n.fin) = 0
    BY DEF IdleOperator, Absent
  <2>2. operator'[o] = n
    BY <1>1, <1>8 DEF Finalize
  <2> HIDE DEF n
  <2> QED
    BY <2>1, <2>2 DEF Backed
<1>9. CASE ReadShard(o)
  <2> DEFINE seal == sealed[Len(l.fin)]
             n    == [l EXCEPT !.fin = Append(l.fin, seal),
                               !.pc = IF Len(l.fin) + 1 = ShardCount
                                      THEN "fwrite" ELSE "fread"]
  <2>1. /\ l.pc = "fread" /\ l.fin \in Seq(ShardSeal)
        /\ Len(l.fin) < ShardCount /\ Len(l.fin) \in Nat
    BY <1>0, <1>9, LenProperties DEF ReadShard, OperatorOK, OperatorState
  <2>2. Sets(o, IdleOperator) \/ (Sets(o, n) /\ seal # NoShard)
    BY <1>9 DEF ReadShard
  <2>3. CASE Sets(o, n) /\ seal # NoShard
    <3>1. Len(l.fin) \in Shards /\ Len(l.fin) \in Closed
      BY <2>1, <2>3, Counts DEF Shards, Closed
    <3>2. seal \in ShardSeal
      BY <3>1 DEF IInv, TypeOK
    <3>3. operator'[o] = n
      BY <1>1, <2>3
    <3>4. n.pc \in {"fread", "fwrite"} /\ n.fin = Append(l.fin, seal)
      BY <1>0 DEF OperatorState
    <3> HIDE DEF n, seal
    <3>5. Len(Append(l.fin, seal)) = Len(l.fin) + 1
      BY <2>1, <3>2, AppendProperties
    <3>6. ASSUME NEW i \in 1 .. Len(l.fin) + 1 PROVE i - 1 \in Closed'
      <4>1. CASE i \in 1 .. Len(l.fin)
        BY <1>0, <2>1, <4>1 DEF Backed
      <4>2. CASE i = Len(l.fin) + 1
        BY <2>1, <3>1, <4>2
      <4> QED
        BY <2>1, <4>1, <4>2
    <3> QED
      BY <3>3, <3>4, <3>5, <3>6 DEF Backed
  <2> QED
    BY <1>2, <2>2, <2>3
<1>10. CASE WriteCampaign(o) \/ CrashOperator(o)
  BY <1>2, <1>10 DEF WriteCampaign, CrashOperator
<1> QED
  BY <1>3, <1>4, <1>5, <1>6, <1>7, <1>8, <1>9, <1>10 DEF OperatorAction, OperatorStep

\* The ledger speaks of the same schedule.
LEMMA LedgerGeometry ==
    /\ Ledger!Units = Units /\ Ledger!Shards = Shards
    /\ \A s : Ledger!UnitsOf(s) = UnitsOf(s)
  BY DEF Ledger!Units, Ledger!Shards, Ledger!UnitsOf, Ledger!UnitCount, Ledger!ShardCount,
         Ledger!FirstUnit, Ledger!UpperUnit, Ledger!Smaller,
         Units, Shards, UnitsOf, UnitCount, ShardCount, FirstUnit, UpperUnit, Smaller

\* Every step is a step of the ledger or leaves it alone, and undoes nothing.
LEMMA LedgerStep ==
    ASSUME IInv, BackedInv, [Next]_vars
    PROVE  /\ Done \subseteq Done' /\ Closed \subseteq Closed'
           /\ [Ledger!Next]_(Ledger!lvars)
<1> USE DEF Ledger!lvars
<1>1. ASSUME UNCHANGED <<receipt, sealed, campaign>>
      PROVE  Done' = Done /\ Closed' = Closed /\ UNCHANGED Ledger!lvars
  BY <1>1 DEF Done, Closed
<1>2. ASSUME NEW w \in Workers, ReplaceReceipt(w)
      PROVE  Done \subseteq Done' /\ Closed \subseteq Closed' /\ Ledger!Next
  <2>1. /\ worker[w].unit \in Units /\ Done' = Done \cup {worker[w].unit}
        /\ Closed' = Closed
    BY <1>2, ReceiptWritten
  <2>2. Ledger!FinishUnit(worker[w].unit)
    BY <1>2, <2>1 DEF Ledger!FinishUnit, ReplaceReceipt, Closed
  <2> QED
    BY <2>1, <2>2, LedgerGeometry DEF Ledger!Next
<1>3. ASSUME NEW w \in Workers, WorkerAction(w)
      PROVE  /\ Done \subseteq Done' /\ Closed \subseteq Closed'
             /\ [Ledger!Next]_(Ledger!lvars)
  BY <1>1, <1>2, <1>3, WorkerChanges
<1>4. ASSUME NEW o \in Operators, WriteShard(o)
      PROVE  Done \subseteq Done' /\ Closed \subseteq Closed' /\ Ledger!Next
  <2>1. PICK s \in Shards : s = operator[o].shard
    BY <1>4, ShardWritten
  <2>2. /\ UnitsOf(s) \subseteq Done
        /\ Done' = Done /\ Closed' = Closed \cup {s}
    BY <1>4, <2>1, ShardWritten
  <2>3. Ledger!CloseShard(s)
    BY <1>4, <2>2, LedgerGeometry DEF Ledger!CloseShard, WriteShard, Closed
  <2> QED
    BY <2>2, <2>3, LedgerGeometry DEF Ledger!Next
<1>5. ASSUME NEW o \in Operators, PruneUnit(o)
      PROVE  Done' = Done /\ Closed' = Closed /\ UNCHANGED Ledger!lvars
  BY <1>5, UnitPruned DEF PruneUnit, Closed
<1>6. ASSUME NEW o \in Operators, WriteCampaign(o)
      PROVE  /\ Done' = Done /\ Closed' = Closed
             /\ Ledger!Next \/ UNCHANGED Ledger!lvars
  <2>1. /\ Closed = Shards /\ (campaign' = campaign \/ campaign' # Absent)
        /\ Done' = Done /\ Closed' = Closed
    BY <1>6, CampaignWritten DEF WriteCampaign, Done, Closed
  <2>2. CASE campaign' = campaign
    BY <2>1, <2>2 DEF Closed
  <2>3. CASE campaign' # Absent
    <3>1. Ledger!Publish
      BY <2>1, <2>3, LedgerGeometry DEF Ledger!Publish, Closed
    <3> QED
      BY <2>1, <3>1 DEF Ledger!Next
  <2> QED
    BY <2>1, <2>2, <2>3
<1>7. ASSUME NEW o \in Operators, OperatorAction(o)
      PROVE  /\ Done \subseteq Done' /\ Closed \subseteq Closed'
             /\ [Ledger!Next]_(Ledger!lvars)
  <2>1. CASE WriteShard(o) \/ PruneUnit(o) \/ WriteCampaign(o)
    BY <1>4, <1>5, <1>6, <2>1
  <2>2. CASE UNCHANGED <<receipt, sealed, campaign>>
    BY <1>1, <2>2
  <2> QED
    BY <1>7, <2>1, <2>2, OperatorChanges
<1>8. CASE \E u \in Units : LeaseExpires(u)
  BY <1>1, <1>8 DEF LeaseExpires
<1>9. CASE UNCHANGED vars
  BY <1>1, <1>9 DEF vars, files
<1> QED
  BY <1>3, <1>7, <1>8, <1>9, NextActions

LEMMA NextBacked ==
    ASSUME IInv, BackedInv, [Next]_vars
    PROVE  BackedInv'
<1>1. Done \subseteq Done' /\ Closed \subseteq Closed'
  BY LedgerStep
<1>2. CASE UNCHANGED operator
  BY <1>1, <1>2, BackedMonotone DEF BackedInv
<1>3. ASSUME NEW o \in Operators, OperatorAction(o)
      PROVE  BackedInv'
  <2>1. Backed(operator'[o], Done', Closed')
    BY <1>1, <1>3, OperatorBacked
  <2>2. ASSUME NEW p \in Operators, p # o
        PROVE  Backed(operator'[p], Done', Closed')
    <3>1. operator'[p] = operator[p]
      BY <1>3, <2>2, OtherOperators DEF IInv, TypeOK
    <3>2. Backed(operator[p], Done, Closed)
      BY DEF BackedInv
    <3> QED
      BY <1>1, <3>1, <3>2, BackedMonotone
  <2> QED
    BY <2>1, <2>2 DEF BackedInv
<1>4. CASE \E w \in Workers : WorkerAction(w)
  BY <1>2, <1>4, WorkerChanges
<1>5. CASE \E u \in Units : LeaseExpires(u)
  BY <1>2, <1>5 DEF LeaseExpires
<1>6. CASE UNCHANGED vars
  BY <1>2, <1>6 DEF vars
<1> QED
  BY <1>3, <1>4, <1>5, <1>6, NextActions

LEMMA BackedInvariance == Spec => []BackedInv
<1>1. Init => BackedInv
  BY DEF Init, BackedInv, Backed, IdleOperator
<1>2. IInv /\ BackedInv /\ [Next]_vars => BackedInv'
  BY NextBacked
<1> QED
  BY <1>1, <1>2, Invariance, PTL DEF Spec

\* The scheduler implements CampaignLedger, for every geometry and any number
\* of workers, operators and faults: a finished unit is never undone, a shard
\* is closed only when its units are finished, and the campaign is published
\* only over closed shards, though receipts are pruned, leases stolen and
\* shards sealed twice.
THEOREM Refinement == Spec => LedgerSpec
<1>1. Init => Ledger!Init
  BY ShardOfUnit DEF Init, Ledger!Init, Done
<1>2. IInv /\ BackedInv /\ [Next]_vars => [Ledger!Next]_(Ledger!lvars)
  BY LedgerStep
<1> QED
  BY <1>1, <1>2, Invariance, BackedInvariance, PTL DEF Spec, LedgerSpec, Ledger!Spec

----------------------------------------------------------------------------
\* What a worker's step does to its own locals.

\* The units worker w may ever run: those its arguments select, and those
\* `run-unit` is invoked on.
Scope(w) == DirectUnits \cup UNION {Partition(a) : a \in LaunchArgs[w]}

Advance(w, l, n) ==
    /\ n.part \in {l.part, {}} \cup {Partition(a) : a \in LaunchArgs[w]}
    /\ n.pc \in OnUnit => \/ l.pc \in OnUnit /\ n.unit = l.unit
                          \/ n.unit \in l.part \cup DirectUnits
    /\ n.pc = "replace" => l.pc = "commit"
    /\ n.pc = "run" => l.pc \in {"resume", "run"}

LEMMA WorkerAdvances ==
    ASSUME worker \in [Workers -> WorkerState], NEW w \in Workers, WorkerAction(w)
    PROVE  /\ Advance(w, worker[w], worker'[w])
           /\ \A v \in Workers : v # w => worker'[v] = worker[v]
<1> DEFINE l == worker[w]
<1>1. l \in WorkerState
  OBVIOUS
<1>2. ASSUME NEW n, Becomes(w, n), Advance(w, l, n)
      PROVE  /\ Advance(w, l, worker'[w])
             /\ \A v \in Workers : v # w => worker'[v] = worker[v]
  BY <1>2 DEF Becomes
<1>3. Advance(w, l, IdleWorker)
  BY DEF Advance, IdleWorker, OnUnit
<1>4. \A part \in {l.part} \cup {Partition(a) : a \in LaunchArgs[w]} :
        Advance(w, l, [IdleWorker EXCEPT !.pc = "enter", !.part = part])
  BY DEF Advance, IdleWorker, OnUnit
<1>5. \A u \in DirectUnits : Advance(w, l, [IdleWorker EXCEPT !.pc = "start", !.unit = u])
  BY DEF Advance, IdleWorker, OnUnit
<1>6. \A pc \in WorkerPC :
        (/\ pc \in OnUnit => l.pc \in OnUnit
         /\ pc = "replace" => l.pc = "commit"
         /\ pc # "run")
        => Advance(w, l, [l EXCEPT !.pc = pc])
  BY <1>1 DEF Advance, WorkerState
<1>7. /\ Advance(w, l, [l EXCEPT !.shard = @ + 1]) \/ l.pc # "enter"
      /\ \A u, seen : Advance(w, l, [l EXCEPT !.pc = "claim", !.unit = u, !.seen = seen])
      /\ \A shard, seen :
           Advance(w, l, [l EXCEPT !.pc = "enter", !.shard = shard, !.seen = seen])
      /\ \A u : Advance(w, l, [l EXCEPT !.unit = u]) \/ l.pc # "claim"
      /\ \A u \in l.part : Advance(w, l, [l EXCEPT !.unit = u, !.pc = "take"])
      /\ Advance(w, l, [l EXCEPT !.pc = "claim", !.unit = @ + 1])
  BY <1>1 DEF Advance, WorkerState, OnUnit
<1>8. \A prefix : l.pc = "resume" =>
        Advance(w, l, [l EXCEPT !.pc = "run", !.base = prefix, !.fresh = Absent])
  BY <1>1 DEF Advance, WorkerState, OnUnit
<1>9. \A r : l.pc = "run" => Advance(w, l, [l EXCEPT !.fresh = Append(@, r)])
  BY <1>1 DEF Advance, WorkerState, OnUnit
<1>10. \E n : Becomes(w, n) /\ Advance(w, l, n)
  <2>1. AfterUnit(w) => \E n : Becomes(w, n) /\ Advance(w, l, n)
    BY <1>3, <1>4 DEF AfterUnit
  <2>2. CASE Launch(w)
    BY <1>4, <2>2 DEF Launch
  <2>3. CASE RunUnitDirect(w)
    BY <1>5, <2>3 DEF RunUnitDirect
  <2>4. CASE EnterShard(w)
    <3>1. Advance(w, l, [l EXCEPT !.pc = "list"])
      BY <1>6 DEF WorkerPC, OnUnit
    <3> QED
      BY <1>3, <1>7, <2>4, <3>1 DEF EnterShard
  <2>5. CASE ListShard(w)
    BY <1>7, <2>5 DEF ListShard
  <2>6. CASE ClaimUnit(w)
    BY <1>7, <2>6 DEF ClaimUnit, Candidates
  <2>7. CASE TakeLease(w) \/ ProbeLease(w) \/ StealLease(w) \/ RetakeLease(w)
    <3>1. l.pc \in OnUnit
      BY <2>7 DEF TakeLease, ProbeLease, StealLease, RetakeLease, OnUnit
    <3>2. \A pc \in {"start", "probe", "steal", "retake"} : Advance(w, l, [l EXCEPT !.pc = pc])
      BY <1>6, <3>1 DEF WorkerPC
    <3>3. \/ \E pc \in {"start", "probe", "steal", "retake"} : Becomes(w, [l EXCEPT !.pc = pc])
          \/ Becomes(w, [l EXCEPT !.pc = "claim", !.unit = @ + 1])
      BY <2>7 DEF TakeLease, ProbeLease, StealLease, RetakeLease, CreateLease, LoseClaim
    <3> QED
      BY <1>7, <3>2, <3>3
  <2>8. CASE StartUnit(w)
    <3>1. Advance(w, l, [l EXCEPT !.pc = "resume"])
      BY <1>6, <2>8 DEF StartUnit, WorkerPC, OnUnit
    <3> QED
      BY <2>1, <2>8, <3>1 DEF StartUnit
  <2>9. CASE LoadCheckpoint(w)
    BY <1>8, <2>9 DEF LoadCheckpoint
  <2>10. CASE RunBlock(w)
    BY <1>3, <1>9, <2>10 DEF RunBlock
  <2>11. CASE FinishSegment(w)
    <3>1. Advance(w, l, [l EXCEPT !.pc = "commit"])
      BY <1>6, <2>11 DEF FinishSegment, WorkerPC, OnUnit
    <3> QED
      BY <1>3, <2>11, <3>1 DEF FinishSegment
  <2>12. CASE Preempt(w)
    <3>1. Advance(w, l, [l EXCEPT !.pc = "preempted"])
      BY <1>6, <2>12 DEF Preempt, WorkerPC, OnUnit
    <3> QED
      BY <1>3, <2>12, <3>1 DEF Preempt
  <2>13. CASE CommitUnit(w)
    <3>1. \A pc \in {"replace", "cleanup"} : Advance(w, l, [l EXCEPT !.pc = pc])
      BY <1>6, <2>13 DEF CommitUnit, WorkerPC, OnUnit
    <3> QED
      BY <1>3, <2>13, <3>1 DEF CommitUnit
  <2>14. CASE ReplaceReceipt(w) \/ UnlinkCheckpoint(w)
    <3>1. \A pc \in {"cleanup", "release"} : Advance(w, l, [l EXCEPT !.pc = pc])
      BY <1>6, <2>14 DEF ReplaceReceipt, UnlinkCheckpoint, WorkerPC, OnUnit
    <3> QED
      BY <2>14, <3>1 DEF ReplaceReceipt, UnlinkCheckpoint
  <2>15. CASE ReleaseUnit(w)
    BY <2>1, <2>15 DEF ReleaseUnit
  <2>16. CASE ReleasePreempted(w) \/ CrashWorker(w)
    BY <1>3, <2>16 DEF ReleasePreempted, CrashWorker
  <2> QED
    BY <2>2, <2>3, <2>4, <2>5, <2>6, <2>7, <2>8, <2>9, <2>10, <2>11, <2>12, <2>13, <2>14,
       <2>15, <2>16 DEF WorkerAction, WorkerStep
<1> QED
  BY <1>2, <1>10

\* A worker writes no checkpoint but that of the unit it is on.
LEMMA CkptChanges ==
    ASSUME NEW w \in Workers, WorkerAction(w)
    PROVE  \/ UNCHANGED ckpt
           \/ worker[w].pc \in OnUnit /\ \E c : ckpt' = [ckpt EXCEPT ![worker[w].unit] = c]
<1>1. CASE RunBlock(w) \/ Preempt(w) \/ UnlinkCheckpoint(w)
  BY <1>1 DEF RunBlock, Checkpoint, Preempt, UnlinkCheckpoint, OnUnit
<1>2. CASE \/ Launch(w) \/ RunUnitDirect(w) \/ EnterShard(w) \/ ListShard(w)
           \/ ClaimUnit(w) \/ TakeLease(w) \/ ProbeLease(w) \/ StealLease(w)
           \/ RetakeLease(w) \/ StartUnit(w) \/ ReleasePreempted(w) \/ ReleaseUnit(w)
           \/ LoadCheckpoint(w) \/ FinishSegment(w) \/ CommitUnit(w) \/ ReplaceReceipt(w)
           \/ CrashWorker(w)
  BY <1>2 DEF Launch, RunUnitDirect, EnterShard, ListShard, ClaimUnit, TakeLease,
              ProbeLease, StealLease, RetakeLease, StartUnit, ReleasePreempted,
              ReleaseUnit, LoadCheckpoint, FinishSegment, CommitUnit, ReplaceReceipt,
              CrashWorker, files
<1> QED
  BY <1>1, <1>2 DEF WorkerAction, WorkerStep

\* The actions a worker may take from these two places.
LEMMA WorkerAt ==
    ASSUME NEW w \in Workers, WorkerAction(w)
    PROVE  /\ worker[w].pc = "commit" => CommitUnit(w) \/ Becomes(w, IdleWorker)
           /\ worker[w].pc = "resume" => LoadCheckpoint(w) \/ Becomes(w, IdleWorker)
           /\ worker[w].pc = "run" =>
                RunBlock(w) \/ FinishSegment(w) \/ Preempt(w) \/ Becomes(w, IdleWorker)
  BY DEF WorkerAction, WorkerStep, Launch, RunUnitDirect, EnterShard, ListShard, ClaimUnit,
         TakeLease, ProbeLease, StealLease, RetakeLease, StartUnit, ReleasePreempted,
         ReleaseUnit, LoadCheckpoint, RunBlock, FinishSegment, Preempt, CommitUnit,
         ReplaceReceipt, UnlinkCheckpoint, CrashWorker

----------------------------------------------------------------------------
\* Workers that share no unit.

\* A machine that computes correctly: the runner prints one record per block.
OneOutcome == \A b \in Blocks : \A r, q \in Runner[b] : r = q

\* The campaign's partition: no unit is run by two workers.
Apart == \A v, w \in Workers : v # w => Scope(v) \cap Scope(w) = {}

ScopeOK(w, l) == l.part \subseteq Scope(w) /\ (l.pc \in OnUnit => l.unit \in Scope(w))

ScopeInv == \A w \in Workers : ScopeOK(w, worker[w])

LEMMA NextScope ==
    ASSUME worker \in [Workers -> WorkerState], ScopeInv, [Next]_vars
    PROVE  ScopeInv'
<1>1. CASE UNCHANGED worker
  BY <1>1 DEF ScopeInv
<1>2. ASSUME NEW w \in Workers, WorkerAction(w)
      PROVE  ScopeInv'
  <2>1. /\ Advance(w, worker[w], worker'[w])
        /\ \A v \in Workers : v # w => worker'[v] = worker[v]
    BY <1>2, WorkerAdvances
  <2>2. ScopeOK(w, worker[w])
    BY DEF ScopeInv
  <2>3. ScopeOK(w, worker'[w])
    BY <2>1, <2>2 DEF Advance, ScopeOK, Scope
  <2> QED
    BY <2>1, <2>3 DEF ScopeInv
<1>3. CASE \E o \in Operators : OperatorAction(o)
  BY <1>1, <1>3, OperatorChanges
<1>4. CASE \E u \in Units : LeaseExpires(u)
  BY <1>1, <1>4 DEF LeaseExpires
<1>5. CASE UNCHANGED vars
  BY <1>1, <1>5 DEF vars
<1> QED
  BY <1>2, <1>3, <1>4, <1>5, NextActions

LEMMA ScopeInvariance == Spec => []ScopeInv
<1>1. Init => ScopeInv
  BY DEF Init, ScopeInv, ScopeOK, IdleWorker, OnUnit
<1>2. IInv /\ ScopeInv /\ [Next]_vars => ScopeInv'
  BY NextScope DEF IInv, TypeOK
<1> QED
  BY <1>1, <1>2, Invariance, PTL DEF Spec

\* Apart workers on a unit are on different ones.
LEMMA ApartUnits ==
    ASSUME Apart, ScopeInv, NEW v \in Workers, NEW w \in Workers, v # w,
           worker[v].pc \in OnUnit, worker[w].pc \in OnUnit
    PROVE  worker[v].unit # worker[w].unit
  BY DEF Apart, ScopeInv, ScopeOK

----------------------------------------------------------------------------
\* Receipts are stable.

\* A worker about to install a receipt has none in front of it.
CommitInv == \A w \in Workers : worker[w].pc = "replace" => receipt[worker[w].unit] = Absent

LEMMA NextCommit ==
    ASSUME Apart, IInv, ScopeInv, CommitInv, [Next]_vars
    PROVE  CommitInv'
<1>0. /\ worker \in [Workers -> WorkerState] /\ receipt \in [Units -> UnitRecords]
      /\ \A w \in Workers : worker[w].pc \in OnUnit => worker[w].unit \in Units
  BY DEF IInv, TypeOK, WorkersInv, WorkerOK
<1>1. CASE UNCHANGED worker /\ \A u \in Units : receipt'[u] \in {receipt[u], Absent}
  <2> SUFFICES ASSUME NEW w \in Workers, worker[w].pc = "replace"
               PROVE  receipt'[worker[w].unit] = Absent
    BY <1>1 DEF CommitInv
  <2>1. worker[w].unit \in Units /\ receipt[worker[w].unit] = Absent
    BY <1>0 DEF CommitInv, OnUnit
  <2> QED
    BY <1>1, <2>1
<1>2. ASSUME NEW w \in Workers, WorkerAction(w)
      PROVE  CommitInv'
  <2>1. /\ Advance(w, worker[w], worker'[w])
        /\ \A v \in Workers : v # w => worker'[v] = worker[v]
    BY <1>0, <1>2, WorkerAdvances
  <2>2. ASSUME worker'[w].pc = "replace"
        PROVE  receipt'[worker'[w].unit] = Absent
    <3>1. worker[w].pc = "commit"
      BY <2>1, <2>2 DEF Advance
    <3>2. CommitUnit(w) \/ Becomes(w, IdleWorker)
      BY <1>2, <3>1, WorkerAt
    <3>3. ~Becomes(w, IdleWorker)
      BY <1>0, <2>2 DEF Becomes, IdleWorker
    <3>4. CommitUnit(w)
      BY <3>2, <3>3
    <3>5. receipt' = receipt
      BY <3>4 DEF CommitUnit, files
    <3>6. CASE Becomes(w, [worker[w] EXCEPT !.pc = "replace"]) /\ receipt[worker[w].unit] = Absent
      <4> DEFINE n == [worker[w] EXCEPT !.pc = "replace"]
      <4>1. n.unit = worker[w].unit
        BY <1>0 DEF WorkerState
      <4>2. worker'[w] = n
        BY <1>0, <3>6 DEF Becomes
      <4> QED
        BY <3>5, <3>6, <4>1, <4>2
    <3>7. CASE Becomes(w, [worker[w] EXCEPT !.pc = "cleanup"])
      <4> DEFINE n == [worker[w] EXCEPT !.pc = "cleanup"]
      <4>1. n.pc = "cleanup"
        BY <1>0 DEF WorkerState
      <4>2. worker'[w] = n
        BY <1>0, <3>7 DEF Becomes
      <4> QED
        BY <2>2, <4>1, <4>2
    <3> QED
      BY <3>3, <3>4, <3>6, <3>7 DEF CommitUnit
  <2>3. ASSUME NEW v \in Workers, v # w, worker[v].pc = "replace"
        PROVE  receipt'[worker[v].unit] = Absent
    <3>1. worker[v].unit \in Units /\ receipt[worker[v].unit] = Absent
      BY <1>0, <2>3 DEF CommitInv, OnUnit
    <3>2. CASE ReplaceReceipt(w)
      <4>1. worker[v].unit # worker[w].unit
        BY <2>3, <3>2, ApartUnits DEF ReplaceReceipt, OnUnit
      <4>2. receipt' = [receipt EXCEPT ![worker[w].unit] = Progress(w)]
        BY <3>2 DEF ReplaceReceipt
      <4> QED
        BY <1>0, <3>1, <4>1, <4>2
    <3> QED
      BY <1>2, <3>1, <3>2, WorkerChanges
  <2> QED
    BY <2>1, <2>2, <2>3 DEF CommitInv
<1>3. ASSUME NEW o \in Operators, OperatorAction(o)
      PROVE  CommitInv'
  <2>1. UNCHANGED worker /\ (UNCHANGED receipt \/ PruneUnit(o))
    BY <1>3, OperatorChanges
  <2>2. \A u \in Units : receipt'[u] \in {receipt[u], Absent}
    BY <1>0, <2>1 DEF PruneUnit
  <2> QED
    BY <1>1, <2>1, <2>2
<1>4. CASE \E u \in Units : LeaseExpires(u)
  BY <1>1, <1>4 DEF LeaseExpires
<1>5. CASE UNCHANGED vars
  BY <1>1, <1>5 DEF vars, files
<1> QED
  BY <1>2, <1>3, <1>4, <1>5, NextActions

LEMMA CommitInvariance ==
    ASSUME Apart
    PROVE  Spec => []CommitInv
<1>1. Init => CommitInv
  BY DEF Init, CommitInv, IdleWorker
<1>2. IInv /\ ScopeInv /\ CommitInv /\ [Next]_vars => CommitInv'
  BY NextCommit
<1> QED
  BY <1>1, <1>2, Invariance, ScopeInvariance, PTL DEF Spec

\* On a machine that computes correctly a unit has one receipt.
LEMMA OneReceipt ==
    ASSUME OneOutcome, NEW u \in Units,
           NEW r \in UnitRecords, WholeUnit(u, r),
           NEW q \in UnitRecords, WholeUnit(u, q)
    PROVE  r = q
<1>1. Len(r) = Len(q) /\ Len(r) = UnitLen(u)
  BY DEF WholeUnit
<1>2. ASSUME NEW i \in 1 .. Len(r) PROVE r[i] = q[i]
  <2>1. FirstBlock(u) + i - 1 \in Blocks
    BY <1>1, UnitGeometry
  <2>2. r[i] \in Runner[FirstBlock(u) + i - 1] /\ q[i] \in Runner[FirstBlock(u) + i - 1]
    BY <1>1 DEF WholeUnit, Printed
  <2> QED
    BY <2>1, <2>2 DEF OneOutcome
<1> QED
  BY <1>1, <1>2, SeqEqual DEF UnitRecords

LEMMA StableStep ==
    ASSUME IInv, OneOutcome \/ CommitInv, [Next]_vars, NEW u \in Units, receipt[u] # Absent
    PROVE  receipt'[u] \in {receipt[u], Absent}
<1>0. receipt \in [Units -> UnitRecords] /\ WholeUnit(u, receipt[u])
  BY DEF IInv, TypeOK, ReceiptInv
<1>1. CASE UNCHANGED receipt
  BY <1>1
<1>2. ASSUME NEW w \in Workers, ReplaceReceipt(w)
      PROVE  receipt'[u] \in {receipt[u], Absent}
  <2>1. receipt' = [receipt EXCEPT ![worker[w].unit] = Progress(w)]
    BY <1>2 DEF ReplaceReceipt
  <2>2. CASE u # worker[w].unit
    BY <1>0, <2>1, <2>2
  <2>3. CASE u = worker[w].unit
    <3>1. worker[w] \in WorkerState /\ WholeUnit(u, Progress(w)) /\ worker[w].pc = "replace"
      BY <1>2, <2>3 DEF IInv, TypeOK, WorkersInv, WorkerOK, ReplaceReceipt, Progress
    <3>2. Progress(w) \in UnitRecords
      BY <3>1, ConcatProperties DEF Progress, WorkerState, UnitRecords
    <3>3. OneOutcome
      BY <2>3, <3>1 DEF CommitInv
    <3>4. Progress(w) = receipt[u]
      BY <1>0, <3>1, <3>2, <3>3, OneReceipt
    <3> QED
      BY <1>0, <2>1, <2>3, <3>4
  <2> QED
    BY <2>2, <2>3
<1>3. CASE \E w \in Workers : WorkerAction(w)
  BY <1>1, <1>2, <1>3, WorkerChanges
<1>4. ASSUME NEW o \in Operators, PruneUnit(o)
      PROVE  receipt'[u] \in {receipt[u], Absent}
  BY <1>0, <1>4 DEF PruneUnit
<1>5. CASE \E o \in Operators : OperatorAction(o)
  BY <1>1, <1>4, <1>5, OperatorChanges
<1>6. CASE \E v \in Units : LeaseExpires(v)
  BY <1>1, <1>6 DEF LeaseExpires
<1>7. CASE UNCHANGED vars
  BY <1>1, <1>7 DEF vars, files
<1> QED
  BY <1>3, <1>5, <1>6, <1>7, NextActions

\* A unit receipt is never replaced by one with another digest, though
\* _commit_unit tests and os.replace installs in two steps, when the machines
\* compute correctly or no unit is run by two workers.  One of the two is
\* needed: two workers on faulty machines do replace it.
THEOREM ReceiptsStable ==
    ASSUME OneOutcome \/ Apart
    PROVE  Spec => ReceiptStable
<1>1. IInv /\ (OneOutcome \/ CommitInv) /\ [Next]_vars =>
        [\A u \in Units : receipt[u] # Absent => receipt'[u] \in {receipt[u], Absent}]_vars
  BY StableStep
<1>2. Spec => [](OneOutcome \/ CommitInv)
  <2>1. CASE OneOutcome
    <3>1. OneOutcome \/ CommitInv
      BY <2>1
    <3> QED
      BY <3>1, PTL
  <2>2. CASE Apart
    <3>1. Spec => []CommitInv
      BY <2>2, CommitInvariance
    <3> QED
      BY <3>1, PTL
  <2> QED
    BY <2>1, <2>2
<1> QED
  BY <1>1, <1>2, Invariance, PTL DEF Spec, ReceiptStable

----------------------------------------------------------------------------
\* A kill loses at most one checkpoint interval.

\* Counting up by one either wraps the remainder or increments it.
LEMMA NextRemainder ==
    ASSUME NEW n \in Nat, NEW k \in Nat \ {0}
    PROVE  /\ n % k \in 0 .. k - 1
           /\ (n + 1) % k # 0 => (n + 1) % k = (n % k) + 1
<1> DEFINE q == n \div k
           r == n % k
           p == (n + 1) \div k
           t == (n + 1) % k
<1>1. q \in Int /\ r \in 0 .. k - 1 /\ n = k * q + r
  OBVIOUS
<1>2. p \in Int /\ t \in 0 .. k - 1 /\ n + 1 = k * p + t
  OBVIOUS
<1> HIDE DEF q, r, p, t
<1>3. CASE r + 1 < k
  <2>1. k * (p - q) = r + 1 - t /\ k * (p - q) = k * p - k * q
    BY <1>1, <1>2
  <2>2. k * (p - q) < k /\ k * (p - q) > -k
    BY <1>1, <1>2, <1>3, <2>1
  <2>3. p - q = 0
    <3>1. CASE p - q >= 1
      <4>1. k * (p - q) >= k
        BY <1>1, <1>2, <3>1
      <4> QED
        BY <1>1, <1>2, <2>2, <4>1
    <3>2. CASE p - q <= -1
      <4>1. k * (p - q) <= -k
        BY <1>1, <1>2, <3>2
      <4> QED
        BY <1>1, <1>2, <2>2, <4>1
    <3> QED
      BY <1>1, <1>2, <3>1, <3>2
  <2> QED
    BY <1>1, <1>2, <2>1, <2>3 DEF r, t
<1>4. CASE r + 1 = k
  <2>1. k * (p - q) = k - t /\ k * (p - q) = k * p - k * q
    BY <1>1, <1>2, <1>4
  <2>2. k * (p - q) > 0 /\ k * (p - q) <= k
    BY <1>1, <1>2, <2>1
  <2>3. p - q >= 1
    <3>1. SUFFICES ASSUME p - q <= 0 PROVE FALSE
      BY <1>1, <1>2
    <3>2. k * (p - q) <= 0
      BY <1>1, <1>2, <3>1
    <3> QED
      BY <1>1, <1>2, <2>2, <3>2
  <2>4. k * (p - q) >= k
    BY <1>1, <1>2, <2>3
  <2>5. t = 0
    BY <1>1, <1>2, <2>1, <2>4
  <2> QED
    BY <1>1, <2>5 DEF r, t
<1> QED
  BY <1>1, <1>3, <1>4

LEMMA Lengths ==
    /\ \A l \in WorkerState :
         /\ l.base \in Seq(Record) /\ l.fresh \in Seq(Record)
         /\ l.base \o l.fresh \in Seq(Record)
         /\ Len(l.fresh) \in Nat /\ Len(l.base \o l.fresh) \in Nat
    /\ \A recs \in UnitRecords : Len(recs) \in Nat
    /\ CheckpointBlocks \in Nat \ {0}
<1>1. \A l \in WorkerState : l.base \in Seq(Record) /\ l.fresh \in Seq(Record)
  BY DEF WorkerState, UnitRecords
<1>2. \A recs \in Seq(Record) : Len(recs) \in Nat
  BY LenProperties
<1>3. \A a, b \in Seq(Record) : a \o b \in Seq(Record)
  BY ConcatProperties
<1> QED
  BY <1>1, <1>2, <1>3, SchedulerAssumption DEF UnitRecords

\* What a running worker holds beyond its unit's checkpoint it has run since
\* the last multiple of the interval.
LossOK(l) ==
    l.pc = "run" =>
        Len(l.base \o l.fresh) <= Len(ckpt[l.unit]) + (Len(l.fresh) % CheckpointBlocks)

LossInv == \A w \in Workers : LossOK(worker[w])

LEMMA RunnerLoss ==
    ASSUME IInv, LossInv, NEW w \in Workers, WorkerAction(w), worker'[w].pc = "run"
    PROVE  LET n == worker'[w]
           IN  Len(n.base \o n.fresh) <= Len(ckpt'[n.unit]) + (Len(n.fresh) % CheckpointBlocks)
<1> DEFINE l == worker[w]
           n == worker'[w]
<1>0. /\ worker \in [Workers -> WorkerState] /\ l \in WorkerState /\ WorkerOK(l)
      /\ ckpt \in [Units -> UnitRecords] /\ LossOK(l)
      /\ CheckpointBlocks \in Nat \ {0}
  BY SchedulerAssumption DEF IInv, TypeOK, WorkersInv, LossInv
<1>1. l.pc \in {"resume", "run"} /\ l.unit \in Units
  <2>1. l.pc \in {"resume", "run"}
    BY <1>0, WorkerAdvances DEF Advance
  <2> QED
    BY <1>0, <2>1 DEF WorkerOK, OnUnit
<1>2. ~Becomes(w, IdleWorker)
  BY <1>0 DEF Becomes, IdleWorker
<1>3. CASE LoadCheckpoint(w)
  <2>1. PICK prefix \in {ckpt[l.unit], Absent} :
          Becomes(w, [l EXCEPT !.pc = "run", !.base = prefix, !.fresh = Absent])
    BY <1>3 DEF LoadCheckpoint
  <2>2. n.unit = l.unit /\ n.base = prefix /\ n.fresh = Absent
    BY <1>0, <2>1 DEF Becomes, WorkerState
  <2>3. /\ prefix \in UnitRecords /\ Len(prefix) <= Len(ckpt[l.unit])
        /\ Len(prefix) \in Nat /\ Len(ckpt[l.unit]) \in Nat
    <3>1. ckpt[l.unit] \in UnitRecords /\ Absent \in UnitRecords /\ Len(Absent) = 0
      BY <1>0, <1>1 DEF Absent, UnitRecords
    <3>2. Len(ckpt[l.unit]) \in Nat
      BY <3>1, Lengths
    <3> QED
      BY <2>1, <3>1, <3>2
  <2> HIDE DEF n
  <2>4. n.base \o n.fresh = prefix /\ Len(n.fresh) = 0
    BY <2>2, <2>3, ConcatEmptySeq DEF Absent, UnitRecords
  <2>5. 0 % CheckpointBlocks \in Nat
    BY <1>0, NextRemainder
  <2>6. ckpt' = ckpt
    BY <1>3 DEF LoadCheckpoint, files
  <2> QED
    BY <2>2, <2>3, <2>4, <2>5, <2>6 DEF n
<1>4. CASE RunBlock(w)
  <2>1. PICK r \in Runner[FirstBlock(l.unit) + Len(Progress(w))] :
          LET recs == Append(Progress(w), r)
              on   == [l EXCEPT !.fresh = Append(@, r)]
          IN  \/ ~AtCheckpoint(w) /\ Becomes(w, on) /\ UNCHANGED ckpt
              \/ Checkpoint(l.unit, recs) /\ Becomes(w, on)
    BY <1>2, <1>4 DEF RunBlock
  <2> DEFINE recs == Append(Progress(w), r)
  <2>2. /\ l.pc = "run" /\ RunOK(l)
        /\ r \in Record /\ recs = l.base \o Append(l.fresh, r)
        /\ recs \in UnitRecords
    BY <1>0, <1>1, <1>4, <2>1, RunAppend DEF RunBlock, Progress, WorkerOK
  <2>3. n.unit = l.unit /\ n.base = l.base /\ n.fresh = Append(l.fresh, r)
    BY <1>0, <2>1 DEF Becomes, WorkerState
  <2>4. /\ l.base \in Seq(Record) /\ l.fresh \in Seq(Record)
        /\ Progress(w) \in Seq(Record) /\ Progress(w) = l.base \o l.fresh
    BY <1>0, ConcatProperties DEF WorkerState, UnitRecords, Progress
  <2> DEFINE held == Len(l.base \o l.fresh)
             size == Len(l.fresh)
             kept == Len(ckpt[l.unit])
  <2>5. held \in Nat /\ size \in Nat /\ kept \in Nat
    BY <1>0, <1>1, Lengths
  <2>6. n.base \o n.fresh = recs /\ Len(recs) = held + 1
    <3>1. n.base \o n.fresh = recs
      BY <2>2, <2>3
    <3>2. Len(Append(Progress(w), r)) = Len(Progress(w)) + 1
      BY <2>2, <2>4, AppendProperties
    <3> QED
      BY <2>4, <3>1, <3>2
  <2>7. Len(n.fresh) = size + 1
    BY <2>2, <2>3, <2>4, AppendProperties
  <2>8. held <= kept + (size % CheckpointBlocks)
    BY <1>0, <2>2 DEF LossOK
  <2> DEFINE rest == (size + 1) % CheckpointBlocks
  <2>9. /\ rest \in Nat /\ size % CheckpointBlocks \in Nat
        /\ rest # 0 => rest = (size % CheckpointBlocks) + 1
    <3>1. CheckpointBlocks \in Nat \ {0}
      BY <1>0
    <3> HIDE DEF size
    <3>2. size + 1 \in Nat
      BY <2>5
    <3>3. (size + 1) % CheckpointBlocks \in 0 .. CheckpointBlocks - 1
      BY <3>1, <3>2, NextRemainder
    <3>4. /\ size % CheckpointBlocks \in 0 .. CheckpointBlocks - 1
          /\ (size + 1) % CheckpointBlocks # 0 =>
               (size + 1) % CheckpointBlocks = (size % CheckpointBlocks) + 1
      BY <2>5, <3>1, NextRemainder
    <3> QED
      BY <3>1, <3>3, <3>4
  <2>10. ~AtCheckpoint(w) => rest # 0
    BY DEF AtCheckpoint
  <2>11. CASE Checkpoint(l.unit, recs)
    <3>1. ckpt'[l.unit] = recs
      BY <1>0, <1>1, <2>11 DEF Checkpoint
    <3> HIDE DEF n, recs, held, size, rest
    <3>2. held + 1 <= Len(ckpt'[l.unit]) + rest
      BY <2>5, <2>6, <2>9, <3>1
    <3> QED
      BY <2>3, <2>6, <2>7, <3>2 DEF n, rest
  <2>12. CASE ~AtCheckpoint(w) /\ UNCHANGED ckpt
    <3>1. rest = (size % CheckpointBlocks) + 1 /\ Len(ckpt'[l.unit]) = kept
      BY <2>9, <2>10, <2>12
    <3> HIDE DEF n, recs, held, size, rest, kept
    <3>2. held + 1 <= Len(ckpt'[l.unit]) + rest
      BY <2>5, <2>8, <2>9, <3>1
    <3> QED
      BY <2>3, <2>6, <2>7, <3>2 DEF n, rest
  <2> QED
    BY <2>1, <2>11, <2>12
<1>5. ASSUME FinishSegment(w) \/ Preempt(w) PROVE FALSE
  <2>1. PICK pc \in {"commit", "preempted"} : Becomes(w, [l EXCEPT !.pc = pc])
    BY <1>2, <1>5 DEF FinishSegment, Preempt
  <2>2. worker'[w].pc = pc
    BY <1>0, <2>1 DEF Becomes, WorkerState
  <2> QED
    BY <2>2
<1> QED
  BY <1>1, <1>2, <1>3, <1>4, <1>5, WorkerAt

LEMMA NextLoss ==
    ASSUME Apart, IInv, ScopeInv, LossInv, [Next]_vars
    PROVE  LossInv'
<1>0. /\ worker \in [Workers -> WorkerState] /\ ckpt \in [Units -> UnitRecords]
      /\ \A w \in Workers : worker[w].pc \in OnUnit => worker[w].unit \in Units
  BY DEF IInv, TypeOK, WorkersInv, WorkerOK
<1>1. CASE UNCHANGED <<worker, ckpt>>
  BY <1>1 DEF LossInv, LossOK
<1>2. ASSUME NEW w \in Workers, WorkerAction(w)
      PROVE  LossInv'
  <2>1. \A v \in Workers : v # w => worker'[v] = worker[v]
    BY <1>0, <1>2, WorkerAdvances
  <2>2. LossOK(worker[w])'
    BY <1>2, RunnerLoss DEF LossOK
  <2>3. ASSUME NEW v \in Workers, v # w
        PROVE  LossOK(worker[v])'
    <3> SUFFICES ASSUME worker[v].pc = "run"
                 PROVE  LossOK(worker[v])'
      BY <2>1, <2>3 DEF LossOK
    <3>1. LossOK(worker[v]) /\ worker[v].pc \in OnUnit /\ worker[v].unit \in Units
      BY <1>0 DEF LossInv, OnUnit
    <3>2. ckpt'[worker[v].unit] = ckpt[worker[v].unit]
      <4>1. CASE UNCHANGED ckpt
        BY <4>1
      <4>2. CASE worker[w].pc \in OnUnit /\ \E c : ckpt' = [ckpt EXCEPT ![worker[w].unit] = c]
        <5>1. worker[v].unit # worker[w].unit
          BY <2>3, <3>1, <4>2, ApartUnits
        <5> QED
          BY <1>0, <3>1, <4>2, <5>1
      <4> QED
        BY <1>2, <4>1, <4>2, CkptChanges
    <3> QED
      BY <2>1, <2>3, <3>1, <3>2 DEF LossOK
  <2> QED
    BY <2>2, <2>3 DEF LossInv
<1>3. CASE \E o \in Operators : OperatorAction(o)
  BY <1>1, <1>3, OperatorChanges
<1>4. CASE \E u \in Units : LeaseExpires(u)
  BY <1>1, <1>4 DEF LeaseExpires
<1>5. CASE UNCHANGED vars
  BY <1>1, <1>5 DEF vars, files
<1> QED
  BY <1>2, <1>3, <1>4, <1>5, NextActions

\* A kill of the worker running an unfinished unit loses at most one checkpoint
\* interval of its blocks, through any number of resumptions, when no unit is
\* run by two workers: the one behind would shorten the other's checkpoint.
THEOREM LossBounded ==
    ASSUME Apart
    PROVE  Spec => []LossBound
<1>1. Init => LossInv
  BY DEF Init, LossInv, LossOK, IdleWorker
<1>2. IInv /\ ScopeInv /\ LossInv /\ [Next]_vars => LossInv'
  BY NextLoss
<1>3. IInv /\ LossInv => LossBound
  <2> SUFFICES ASSUME IInv, LossInv, NEW w \in Workers, worker[w].pc = "run"
               PROVE  Len(Progress(w)) <= Len(ckpt[worker[w].unit]) + CheckpointBlocks
    BY DEF LossBound
  <2> DEFINE l == worker[w]
  <2>1. /\ l \in WorkerState /\ l.unit \in Units /\ LossOK(l)
        /\ ckpt \in [Units -> UnitRecords]
    BY DEF IInv, TypeOK, WorkersInv, WorkerOK, OnUnit, LossInv
  <2> DEFINE held == Len(l.base \o l.fresh)
             size == Len(l.fresh)
             kept == Len(ckpt[l.unit])
  <2>2. held \in Nat /\ size \in Nat /\ kept \in Nat /\ CheckpointBlocks \in Nat \ {0}
    BY <2>1, Lengths
  <2>3. held <= kept + (size % CheckpointBlocks)
    BY <2>1 DEF LossOK
  <2> HIDE DEF held, size, kept
  <2>4. size % CheckpointBlocks \in 0 .. CheckpointBlocks - 1
    BY <2>2, NextRemainder
  <2>5. held <= kept + CheckpointBlocks
    BY <2>2, <2>3, <2>4
  <2> QED
    BY <2>5 DEF held, kept, Progress
<1> QED
  BY <1>1, <1>2, <1>3, Invariance, ScopeInvariance, PTL DEF Spec

----------------------------------------------------------------------------
\* Digest lists, shard receipts and the campaign agree.

\* How an operator reaches the places where it is about to write.
LEMMA OperatorAdvances ==
    ASSUME operator \in [Operators -> OperatorState], NEW o \in Operators, OperatorAction(o)
    PROVE  LET l == operator[o]
               n == operator'[o]
           IN  /\ n.pc \in {"read", "check"} =>
                    \/ n.leaves = Absent
                    \/ /\ l.pc = "read" /\ n.shard = l.shard
                       /\ n.leaves = Append(l.leaves, receipt[FirstUnit(l.shard) + Len(l.leaves)])
               /\ n.pc = "digests" =>
                    /\ l.pc = "check" /\ n.shard = l.shard /\ n.leaves = l.leaves
                    /\ sealed[l.shard] = NoShard
               /\ n.pc = "shard" =>
                    /\ l.pc = "digests" /\ n.shard = l.shard /\ n.leaves = l.leaves
                    /\ digests' = [digests EXCEPT ![l.shard] = l.leaves]
               /\ n.pc \in {"fread", "fwrite"} =>
                    \/ n.fin = Absent
                    \/ l.pc = "fread" /\ n.fin = Append(l.fin, sealed[Len(l.fin)])
<1> DEFINE l == operator[o]
           n == operator'[o]
<1>0. l \in OperatorState
  OBVIOUS
<1>1. \A m : Sets(o, m) => n = m
  BY DEF Sets
<1>3. Sets(o, IdleOperator) => n.pc = "idle"
  BY <1>1 DEF IdleOperator
<1>4. CASE SealShard(o)
  <2>1. PICK s \in Shards, prune \in BOOLEAN :
          Sets(o, [IdleOperator EXCEPT !.pc = "read", !.shard = s, !.prune = prune])
    BY <1>4 DEF SealShard
  <2>2. n = [IdleOperator EXCEPT !.pc = "read", !.shard = s, !.prune = prune]
    BY <1>1, <2>1
  <2>3. n.pc = "read" /\ n.leaves = Absent
    BY <2>2 DEF IdleOperator
  <2> QED
    BY <2>3
<1>5. CASE ReadUnit(o)
  <2> DEFINE unit == receipt[FirstUnit(l.shard) + Len(l.leaves)]
             m == [l EXCEPT !.leaves = Append(l.leaves, unit),
                            !.pc = IF Len(l.leaves) + 1 = ShardLen(l.shard)
                                   THEN "check" ELSE "read"]
  <2>1. CASE Sets(o, m)
    <3>1. n = m
      BY <1>1, <2>1
    <3>2. m.pc \in {"read", "check"} /\ m.shard = l.shard /\ m.leaves = Append(l.leaves, unit)
      BY <1>0 DEF OperatorState
    <3> HIDE DEF m
    <3> QED
      BY <1>5, <3>1, <3>2 DEF ReadUnit
  <2> QED
    BY <1>3, <1>5, <2>1 DEF ReadUnit
<1>6. CASE CheckSealed(o)
  <2>1. CASE Sets(o, [l EXCEPT !.pc = "digests"]) /\ sealed[l.shard] = NoShard
    <3>1. n = [l EXCEPT !.pc = "digests"]
      BY <1>1, <2>1
    <3>2. n.pc = "digests" /\ n.shard = l.shard /\ n.leaves = l.leaves
      BY <1>0, <3>1 DEF OperatorState
    <3> QED
      BY <1>6, <2>1, <3>2 DEF CheckSealed
  <2> QED
    BY <1>3, <1>6, <2>1 DEF CheckSealed
<1>7. CASE WriteDigests(o)
  <2>1. n = [l EXCEPT !.pc = "shard"]
    BY <1>1, <1>7 DEF WriteDigests
  <2>2. n.pc = "shard" /\ n.shard = l.shard /\ n.leaves = l.leaves
    BY <1>0, <2>1 DEF OperatorState
  <2> QED
    BY <1>7, <2>2 DEF WriteDigests
<1>8. CASE WriteShard(o) \/ PruneUnit(o)
  <2>1. n.pc \in {"idle", "prune"}
    BY <1>0, <1>1, <1>3, <1>8 DEF WriteShard, PruneUnit, OperatorState
  <2> QED
    BY <2>1
<1>9. CASE Finalize(o)
  <2>1. n = [IdleOperator EXCEPT !.pc = "fread"]
    BY <1>1, <1>9 DEF Finalize
  <2>2. n.pc = "fread" /\ n.fin = Absent
    BY <2>1 DEF IdleOperator
  <2> QED
    BY <2>2
<1>10. CASE ReadShard(o)
  <2> DEFINE m == [l EXCEPT !.fin = Append(l.fin, sealed[Len(l.fin)]),
                            !.pc = IF Len(l.fin) + 1 = ShardCount THEN "fwrite" ELSE "fread"]
  <2>1. CASE Sets(o, m)
    <3>1. n = m
      BY <1>1, <2>1
    <3>2. m.pc \in {"fread", "fwrite"} /\ m.fin = Append(l.fin, sealed[Len(l.fin)])
      BY <1>0 DEF OperatorState
    <3> HIDE DEF m
    <3> QED
      BY <1>10, <3>1, <3>2 DEF ReadShard
  <2> QED
    BY <1>3, <1>10, <2>1 DEF ReadShard
<1>11. CASE WriteCampaign(o) \/ CrashOperator(o)
  BY <1>3, <1>11 DEF WriteCampaign, CrashOperator
<1> QED
  BY <1>4, <1>5, <1>6, <1>7, <1>8, <1>9, <1>10, <1>11 DEF OperatorAction, OperatorStep

\* The digest list of a shard is there before its receipt, and is a whole shard.
DigestsInv ==
    /\ \A s \in Shards : digests[s] # Absent => WholeShard(s, digests[s])
    /\ \A s \in Shards : sealed[s] # NoShard => digests[s] # Absent
    /\ \A o \in Operators : operator[o].pc = "shard" => digests[operator[o].shard] # Absent

LEMMA NextDigests ==
    ASSUME IInv, DigestsInv, [Next]_vars
    PROVE  DigestsInv'
<1>0. /\ operator \in [Operators -> OperatorState] /\ digests \in [Shards -> Seq(UnitRecords)]
      /\ sealed \in [Shards -> ShardSeal]
      /\ \A o \in Operators : operator[o].shard \in Shards
      /\ \A o \in Operators : operator[o].pc = "digests" =>
           WholeShard(operator[o].shard, operator[o].leaves)
  BY DEF IInv, TypeOK, OperatorState, OperatorsInv, OperatorOK
<1>1. CASE UNCHANGED <<digests, sealed, operator>>
  BY <1>1 DEF DigestsInv
<1>2. ASSUME NEW o \in Operators, OperatorAction(o)
      PROVE  DigestsInv'
  <2> DEFINE l == operator[o]
             n == operator'[o]
             s == l.shard
  <2>1. CASE WriteDigests(o)
    <3>1. /\ digests' = [digests EXCEPT ![s] = l.leaves] /\ UNCHANGED sealed
          /\ l.pc = "digests"
      BY <2>1 DEF WriteDigests
    <3>2. WholeShard(s, l.leaves) /\ s \in Shards /\ l.leaves # Absent
      <4>1. WholeShard(s, l.leaves) /\ s \in Shards
        BY <1>0, <3>1
      <4>2. Len(l.leaves) # 0
        BY <4>1, ShardGeometry DEF WholeShard
      <4> QED
        BY <4>1, <4>2 DEF Absent
    <3> HIDE DEF l, s
    <3>3. \A t \in Shards : digests'[t] # Absent => WholeShard(t, digests'[t])
      BY <1>0, <3>1, <3>2 DEF DigestsInv
    <3>4. \A t \in Shards : digests[t] # Absent => digests'[t] # Absent
      BY <1>0, <3>1, <3>2
    <3>5. digests'[s] # Absent
      BY <1>0, <3>1, <3>2
    <3>6. ASSUME NEW p \in Operators, operator'[p].pc = "shard"
          PROVE  digests'[operator'[p].shard] # Absent
      <4>1. CASE p = o
        <5>1. operator'[o].shard = s
          BY <1>0, <1>2, <3>6, <4>1, OperatorAdvances DEF l, s
        <5> QED
          BY <3>5, <4>1, <5>1
      <4>2. CASE p # o
        <5>1. operator'[p] = operator[p]
          BY <1>0, <1>2, <4>2, OtherOperators
        <5> QED
          BY <1>0, <3>4, <3>6, <5>1 DEF DigestsInv
      <4> QED
        BY <4>1, <4>2
    <3> QED
      BY <3>1, <3>3, <3>4, <3>6 DEF DigestsInv
  <2>2. CASE ~WriteDigests(o)
    <3>1. UNCHANGED digests
      BY <1>2, <2>2, OperatorChanges
    <3>2. ASSUME NEW p \in Operators, operator'[p].pc = "shard"
          PROVE  digests[operator'[p].shard] # Absent
      <4>1. CASE p = o
        <5>1. /\ operator'[o].shard = s /\ l.pc = "digests"
              /\ digests' = [digests EXCEPT ![s] = l.leaves]
          BY <1>0, <1>2, <3>2, <4>1, OperatorAdvances
        <5>2. Len(l.leaves) # 0 /\ s \in Shards
          BY <1>0, <5>1, ShardGeometry DEF WholeShard
        <5>3. digests'[s] = l.leaves
          BY <1>0, <5>1, <5>2
        <5> QED
          BY <3>1, <4>1, <5>1, <5>2, <5>3 DEF Absent
      <4>2. CASE p # o
        <5>1. operator'[p] = operator[p]
          BY <1>0, <1>2, <4>2, OtherOperators
        <5> QED
          BY <3>2, <5>1 DEF DigestsInv
      <4> QED
        BY <4>1, <4>2
    <3>3. \A t \in Shards : sealed'[t] # NoShard => digests[t] # Absent
      <4>1. CASE UNCHANGED sealed
        BY <4>1 DEF DigestsInv
      <4>2. CASE WriteShard(o)
        BY <1>0, <4>2 DEF WriteShard, DigestsInv
      <4> QED
        BY <1>2, <4>1, <4>2, OperatorChanges
    <3> QED
      BY <3>1, <3>2, <3>3 DEF DigestsInv
  <2> QED
    BY <2>1, <2>2
<1>3. CASE \E w \in Workers : WorkerAction(w)
  BY <1>1, <1>3, WorkerChanges
<1>4. CASE \E u \in Units : LeaseExpires(u)
  BY <1>1, <1>4 DEF LeaseExpires
<1>5. CASE UNCHANGED vars
  BY <1>1, <1>5 DEF vars, files
<1> QED
  BY <1>2, <1>3, <1>4, <1>5, NextActions

LEMMA DigestsInvariance == Spec => []DigestsInv
<1>1. Init => DigestsInv
  BY DEF Init, DigestsInv, IdleOperator
<1>2. IInv /\ DigestsInv /\ [Next]_vars => DigestsInv'
  BY NextDigests
<1> QED
  BY <1>1, <1>2, Invariance, PTL DEF Spec

\* On a machine that computes correctly a shard has one list of digests.
LEMMA OneShard ==
    ASSUME OneOutcome, NEW s \in Shards,
           NEW a \in Seq(UnitRecords), WholeShard(s, a),
           NEW b \in Seq(UnitRecords), WholeShard(s, b)
    PROVE  a = b
<1>1. Len(a) = Len(b) /\ Len(a) = ShardLen(s)
  BY DEF WholeShard
<1>2. ASSUME NEW i \in 1 .. Len(a) PROVE a[i] = b[i]
  <2>1. FirstUnit(s) + i - 1 \in Units
    BY <1>1, ShardGeometry
  <2>2. /\ WholeUnit(FirstUnit(s) + i - 1, a[i]) /\ WholeUnit(FirstUnit(s) + i - 1, b[i])
        /\ a[i] \in UnitRecords /\ b[i] \in UnitRecords
    BY <1>1, ElementOfSeq DEF WholeShard, UnitChain
  <2> QED
    BY <2>1, <2>2, OneReceipt
<1> QED
  BY <1>1, <1>2, SeqEqual

----------------------------------------------------------------------------
\* One operator at a time.

Sole == \A o, p \in Operators : o = p

\* What a sole operator has read is still what the files hold.
SoleOK(l) ==
    /\ l.pc \in {"digests", "shard"} => sealed[l.shard] = NoShard
    /\ l.pc = "shard" => digests[l.shard] = l.leaves
    /\ l.pc \in {"fread", "fwrite"} => \A i \in 1 .. Len(l.fin) : l.fin[i] = sealed[i - 1]

SoleInv ==
    /\ \A o \in Operators : SoleOK(operator[o])
    /\ ShardRootRecomputable
    /\ CampaignRetained

\* Nothing is sealed under a campaign artifact: its shards have their receipts.
LEMMA RetainedShards ==
    ASSUME IInv, CampaignRetained, campaign # Absent, NEW s \in Shards
    PROVE  sealed[s] # NoShard
<1>1. ShardChain(campaign) /\ Len(campaign) = ShardCount /\ campaign \in Seq(ShardSeal)
  BY DEF IInv, TypeOK, CampaignInv
<1>2. s + 1 \in 1 .. Len(campaign) /\ (s + 1) - 1 = s
  BY <1>1, Counts DEF Shards
<1>3. WholeShard((s + 1) - 1, campaign[s + 1].leaves) /\ campaign[s + 1] \in ShardSeal
  BY <1>1, <1>2, ElementOfSeq DEF ShardChain
<1>4. WholeShard(s, campaign[s + 1].leaves)
  BY <1>2, <1>3
<1> QED
  BY <1>3, <1>4, RetainedNotAbsent DEF CampaignRetained

LEMMA SoleLocals ==
    ASSUME IInv, NEW o \in Operators, SoleOK(operator[o]), OperatorAction(o)
    PROVE  SoleOK(operator[o])'
<1> DEFINE l == operator[o]
           n == operator'[o]
<1>0. /\ operator \in [Operators -> OperatorState] /\ digests \in [Shards -> Seq(UnitRecords)]
      /\ sealed \in [Shards -> ShardSeal] /\ l \in OperatorState /\ OperatorOK(l)
      /\ l.shard \in Shards
  BY DEF IInv, TypeOK, OperatorsInv, OperatorState
<1>1. /\ n.pc = "digests" =>
           l.pc = "check" /\ n.shard = l.shard /\ n.leaves = l.leaves /\ sealed[l.shard] = NoShard
      /\ n.pc = "shard" =>
           /\ l.pc = "digests" /\ n.shard = l.shard /\ n.leaves = l.leaves
           /\ digests' = [digests EXCEPT ![l.shard] = l.leaves]
      /\ n.pc \in {"fread", "fwrite"} =>
           n.fin = Absent \/ (l.pc = "fread" /\ n.fin = Append(l.fin, sealed[Len(l.fin)]))
  BY <1>0, OperatorAdvances
<1>2. l.pc # "shard" => UNCHANGED sealed
  BY OperatorChanges DEF WriteShard
<1>3. n.pc \in {"digests", "shard"} => sealed'[n.shard] = NoShard
  BY <1>1, <1>2 DEF SoleOK
<1>4. n.pc = "shard" => digests'[n.shard] = n.leaves
  BY <1>0, <1>1
<1>5. ASSUME n.pc \in {"fread", "fwrite"}, NEW i \in 1 .. Len(n.fin)
      PROVE  n.fin[i] = sealed'[i - 1]
  <2>1. n.fin # Absent
    BY DEF Absent
  <2>2. /\ l.pc = "fread" /\ n.fin = Append(l.fin, sealed[Len(l.fin)]) /\ sealed' = sealed
        /\ \A j \in 1 .. Len(l.fin) : l.fin[j] = sealed[j - 1]
    BY <1>1, <1>2, <1>5, <2>1 DEF SoleOK
  <2>3. /\ l.fin \in Seq(ShardSeal) /\ Len(l.fin) \in Nat /\ Len(l.fin) < ShardCount
        /\ sealed[Len(l.fin)] \in ShardSeal
    <3>1. l.fin \in Seq(ShardSeal) /\ Len(l.fin) \in Nat /\ Len(l.fin) < ShardCount
      BY <1>0, <2>2 DEF OperatorState, OperatorOK
    <3>2. Len(l.fin) \in Shards
      BY <3>1, Counts DEF Shards
    <3> QED
      BY <1>0, <3>1, <3>2
  <2> DEFINE more == Append(l.fin, sealed[Len(l.fin)])
  <2>4. /\ Len(more) = Len(l.fin) + 1 /\ \A j \in 1 .. Len(l.fin) : more[j] = l.fin[j]
        /\ more[Len(l.fin) + 1] = sealed[Len(l.fin)]
    BY <2>3, AppendProperties
  <2>5. n.fin = more
    BY <2>2
  <2> HIDE DEF more, n
  <2>6. CASE i \in 1 .. Len(l.fin)
    BY <2>2, <2>4, <2>5, <2>6
  <2>7. CASE i = Len(l.fin) + 1
    <3>1. i - 1 = Len(l.fin)
      BY <2>3, <2>7
    <3> QED
      BY <2>2, <2>4, <2>5, <2>7, <3>1
  <2>8. i \in 1 .. Len(l.fin) + 1
    BY <2>4, <2>5 DEF n
  <2> QED
    BY <2>3, <2>6, <2>7, <2>8
<1> QED
  BY <1>3, <1>4, <1>5 DEF SoleOK

LEMMA NextSole ==
    ASSUME Sole, IInv, SoleInv, [Next]_vars
    PROVE  SoleInv'
<1>0. /\ digests \in [Shards -> Seq(UnitRecords)] /\ sealed \in [Shards -> ShardSeal]
      /\ \A o \in Operators : operator[o] \in OperatorState /\ operator[o].shard \in Shards
  BY DEF IInv, TypeOK, OperatorState
<1>1. CASE UNCHANGED <<digests, sealed, campaign, operator>>
  BY <1>1 DEF SoleInv, SoleOK, ShardRootRecomputable, CampaignRetained
<1>2. ASSUME NEW o \in Operators, OperatorAction(o)
      PROVE  SoleInv'
  <2> DEFINE l == operator[o]
             s == l.shard
  <2>1. SoleOK(l) /\ ShardRootRecomputable /\ CampaignRetained
    BY DEF SoleInv
  <2>2. \A p \in Operators : SoleOK(operator[p])'
    BY <1>2, <2>1, SoleLocals DEF Sole
  <2>3. CASE WriteDigests(o)
    <3>1. /\ digests' = [digests EXCEPT ![s] = l.leaves] /\ UNCHANGED <<sealed, campaign>>
          /\ sealed[s] = NoShard
      BY <2>1, <2>3 DEF WriteDigests, SoleOK
    <3>2. ShardRootRecomputable'
      BY <1>0, <2>1, <3>1 DEF ShardRootRecomputable
    <3> QED
      BY <2>1, <2>2, <3>1, <3>2 DEF SoleInv, CampaignRetained
  <2>4. CASE WriteShard(o)
    <3> DEFINE seal == [leaves |-> l.leaves, pruned |-> l.prune]
    <3>1. /\ sealed' = [sealed EXCEPT ![s] = seal] /\ UNCHANGED <<digests, campaign>>
          /\ sealed[s] = NoShard /\ digests[s] = l.leaves /\ s \in Shards
      BY <1>0, <2>1, <2>4 DEF WriteShard, SoleOK
    <3>2. seal.leaves = l.leaves
      OBVIOUS
    <3> HIDE DEF seal, s, l
    <3>3. ShardRootRecomputable'
      BY <1>0, <2>1, <3>1, <3>2 DEF ShardRootRecomputable
    <3>4. campaign = Absent
      BY <2>1, <3>1, RetainedShards
    <3>5. CampaignRetained'
      BY <3>1, <3>4 DEF CampaignRetained
    <3> QED
      BY <2>2, <3>3, <3>5 DEF SoleInv
  <2>5. CASE WriteCampaign(o)
    <3>1. /\ campaign' = campaign \/ campaign' = l.fin
          /\ UNCHANGED <<digests, sealed>> /\ l.pc = "fwrite"
      BY <2>5 DEF WriteCampaign
    <3>2. Len(l.fin) = ShardCount /\ \A i \in 1 .. Len(l.fin) : l.fin[i] = sealed[i - 1]
      BY <2>1, <3>1 DEF SoleOK, IInv, OperatorsInv, OperatorOK
    <3>3. ASSUME NEW t \in Shards PROVE l.fin[t + 1] = sealed[t]
      <4>1. t + 1 \in 1 .. Len(l.fin) /\ (t + 1) - 1 = t
        BY <3>2, Counts DEF Shards
      <4>2. l.fin[t + 1] = sealed[(t + 1) - 1]
        BY <3>2, <4>1
      <4> QED
        BY <4>1, <4>2
    <3> HIDE DEF l
    <3>4. CampaignRetained'
      BY <2>1, <3>1, <3>3 DEF CampaignRetained
    <3> QED
      BY <2>1, <2>2, <3>1, <3>4 DEF SoleInv, ShardRootRecomputable
  <2>6. CASE UNCHANGED <<digests, sealed, campaign>>
    BY <2>1, <2>2, <2>6 DEF SoleInv, ShardRootRecomputable, CampaignRetained
  <2> QED
    BY <1>2, <2>3, <2>4, <2>5, <2>6, OperatorChanges
<1>3. CASE \E w \in Workers : WorkerAction(w)
  BY <1>1, <1>3, WorkerChanges
<1>4. CASE \E u \in Units : LeaseExpires(u)
  BY <1>1, <1>4 DEF LeaseExpires
<1>5. CASE UNCHANGED vars
  BY <1>1, <1>5 DEF vars, files
<1> QED
  BY <1>2, <1>3, <1>4, <1>5, NextActions

LEMMA SoleInvariance ==
    ASSUME Sole
    PROVE  Spec => []SoleInv
<1>1. Init => SoleInv
  BY DEF Init, SoleInv, SoleOK, ShardRootRecomputable, CampaignRetained, IdleOperator
<1>2. IInv /\ SoleInv /\ [Next]_vars => SoleInv'
  BY NextSole
<1> QED
  BY <1>1, <1>2, Invariance, PTL DEF Spec

\* The shard receipts retained beside a campaign artifact are the ones its
\* Merkle root commits to, under one operator at a time: a second one may
\* rewrite a shard receipt that finalize has already read.
THEOREM CampaignsRetained ==
    ASSUME Sole
    PROVE  Spec => []CampaignRetained
<1>1. Spec => []SoleInv
  BY SoleInvariance
<1>2. SoleInv => CampaignRetained
  BY DEF SoleInv
<1> QED
  BY <1>1, <1>2, PTL

----------------------------------------------------------------------------
\* A published campaign.

PublishedInv == campaign # Absent => Closed = Shards

LEMMA NextPublished ==
    ASSUME IInv, BackedInv, PublishedInv, [Next]_vars
    PROVE  PublishedInv'
<1>1. Closed \subseteq Closed' /\ Closed' \subseteq Shards
  BY LedgerStep DEF Closed
<1>2. CASE UNCHANGED campaign
  BY <1>1, <1>2 DEF PublishedInv
<1>3. ASSUME NEW o \in Operators, WriteCampaign(o)
      PROVE  PublishedInv'
  <2>1. Closed = Shards
    BY <1>3, CampaignWritten
  <2> QED
    BY <1>1, <2>1 DEF PublishedInv
<1>4. CASE \E o \in Operators : OperatorAction(o)
  BY <1>2, <1>3, <1>4, OperatorChanges
<1>5. CASE \E w \in Workers : WorkerAction(w)
  BY <1>2, <1>5, WorkerChanges
<1>6. CASE \E u \in Units : LeaseExpires(u)
  BY <1>2, <1>6 DEF LeaseExpires
<1>7. CASE UNCHANGED vars
  BY <1>2, <1>7 DEF vars, files
<1> QED
  BY <1>4, <1>5, <1>6, <1>7, NextActions

LEMMA PublishedInvariance == Spec => []PublishedInv
<1>1. Init => PublishedInv
  BY DEF Init, PublishedInv
<1>2. IInv /\ BackedInv /\ PublishedInv /\ [Next]_vars => PublishedInv'
  BY NextPublished
<1> QED
  BY <1>1, <1>2, Invariance, BackedInvariance, PTL DEF Spec

CampaignComplete == campaign # Absent => Closed = Shards /\ Done = Units

\* A campaign artifact exists only when every shard is sealed and every unit
\* finished, and that stays so: nothing finalize published over is undone by a
\* worker that still runs, a second seal or a pruning.
THEOREM CampaignsComplete == Spec => []CampaignComplete
<1>1. ASSUME Closed = Shards PROVE Done = Units
  BY <1>1, ShardOfUnit DEF Closed, Done
<1>2. PublishedInv => CampaignComplete
  BY <1>1 DEF PublishedInv, CampaignComplete
<1> QED
  BY <1>2, PublishedInvariance, PTL

----------------------------------------------------------------------------
\* Several operators over workers that share no unit.

\* What an operator has read is what the files hold: the receipts while its
\* shard is open, and the same digests once another operator has sealed it.
HeldOK(l) ==
    /\ l.pc \in {"read", "check", "digests", "shard"} /\ sealed[l.shard] = NoShard =>
         \A i \in 1 .. Len(l.leaves) : l.leaves[i] = receipt[FirstUnit(l.shard) + i - 1]
    /\ l.pc \in {"digests", "shard"} /\ sealed[l.shard] # NoShard =>
         l.leaves = sealed[l.shard].leaves
    /\ l.pc = "shard" => digests[l.shard] = l.leaves
    /\ l.pc \in {"fread", "fwrite"} =>
         \A i \in 1 .. Len(l.fin) : l.fin[i].leaves = sealed[i - 1].leaves

HeldInv ==
    /\ \A o \in Operators : HeldOK(operator[o])
    /\ ShardRootRecomputable
    /\ CampaignLeaves

\* A receipt of a shard that stays open is neither pruned nor replaced.
LEMMA OpenReceipts ==
    ASSUME IInv, BackedInv, CommitInv, [Next]_vars,
           NEW s \in Shards, sealed'[s] = NoShard,
           NEW i \in 1 .. ShardLen(s), receipt[FirstUnit(s) + i - 1] # Absent
    PROVE  receipt'[FirstUnit(s) + i - 1] = receipt[FirstUnit(s) + i - 1]
<1> DEFINE u == FirstUnit(s) + i - 1
<1>1. u \in Units /\ ShardOf(u) = s
  BY ShardGeometry, ShardOfUnit
<1> HIDE DEF u
<1>2. u \in Done'
  BY <1>1, LedgerStep DEF Done, u
<1>3. receipt'[u] # Absent
  BY <1>1, <1>2 DEF Done
<1>4. receipt'[u] = receipt[u]
  BY <1>1, <1>3, StableStep DEF u
<1> QED
  BY <1>4 DEF u

\* The digests an operator holds are whole units of its shard.
LEMMA HeldUnits ==
    ASSUME IInv, NEW o \in Operators,
           operator[o].pc \in {"read", "check", "digests", "shard"}
    PROVE  LET l == operator[o]
           IN  /\ l.shard \in Shards /\ l.leaves \in Seq(UnitRecords)
               /\ Len(l.leaves) <= ShardLen(l.shard)
               /\ l.pc \in {"check", "digests", "shard"} => Len(l.leaves) = ShardLen(l.shard)
               /\ \A i \in 1 .. Len(l.leaves) : i \in 1 .. ShardLen(l.shard) /\ l.leaves[i] # Absent
<1> DEFINE l == operator[o]
<1>1. l \in OperatorState /\ OperatorOK(l)
  BY DEF IInv, TypeOK, OperatorsInv
<1>2. l.shard \in Shards /\ l.leaves \in Seq(UnitRecords) /\ UnitChain(l.shard, l.leaves)
  BY <1>1 DEF OperatorState, OperatorOK, WholeShard
<1>3. l.pc \in {"check", "digests", "shard"} => Len(l.leaves) = ShardLen(l.shard)
  BY <1>1 DEF OperatorOK, WholeShard
<1>4. ShardLen(l.shard) \in Nat /\ Len(l.leaves) \in Nat
  BY <1>2, ShardGeometry
<1>5. ASSUME NEW i \in 1 .. Len(l.leaves)
      PROVE  i \in 1 .. ShardLen(l.shard) /\ l.leaves[i] # Absent
  <2>1. i \in 1 .. ShardLen(l.shard)
    BY <1>2, <1>4 DEF UnitChain
  <2>2. FirstUnit(l.shard) + i - 1 \in Units
    BY <1>2, <2>1, ShardGeometry
  <2>3. WholeUnit(FirstUnit(l.shard) + i - 1, l.leaves[i]) /\ l.leaves[i] \in UnitRecords
    BY <1>2, ElementOfSeq DEF UnitChain
  <2> QED
    BY <2>1, <2>2, <2>3, RetainedNotAbsent
<1> QED
  BY <1>2, <1>3, <1>5 DEF UnitChain

\* Two operators about to seal one shard hold the same digests.
LEMMA HeldAgree ==
    ASSUME IInv, HeldInv, NEW o \in Operators, NEW p \in Operators,
           operator[o].pc \in {"digests", "shard"}, operator[p].pc \in {"digests", "shard"},
           operator[o].shard = operator[p].shard
    PROVE  operator[o].leaves = operator[p].leaves
<1> DEFINE a == operator[o].leaves
           b == operator[p].leaves
           s == operator[o].shard
<1>1. HeldOK(operator[o]) /\ HeldOK(operator[p])
  BY DEF HeldInv
<1>2. CASE sealed[s] # NoShard
  BY <1>1, <1>2 DEF HeldOK
<1>3. CASE sealed[s] = NoShard
  <2>1. a \in Seq(UnitRecords) /\ b \in Seq(UnitRecords) /\ Len(a) = Len(b)
    BY HeldUnits
  <2>2. /\ \A i \in 1 .. Len(a) : a[i] = receipt[FirstUnit(s) + i - 1]
        /\ \A i \in 1 .. Len(b) : b[i] = receipt[FirstUnit(s) + i - 1]
    BY <1>1, <1>3 DEF HeldOK
  <2>3. \A i \in 1 .. Len(a) : a[i] = b[i]
    BY <2>1, <2>2
  <2> HIDE DEF a, b
  <2>4. a = b
    BY <2>1, <2>3, SeqEqual
  <2> QED
    BY <2>4 DEF a, b
<1> QED
  BY <1>2, <1>3

\* A second seal of a shard commits to the digests of the first.
LEMMA SealsKept ==
    ASSUME IInv, BackedInv, HeldInv, [Next]_vars, NEW s \in Shards, sealed[s] # NoShard
    PROVE  sealed'[s] # NoShard /\ sealed'[s].leaves = sealed[s].leaves
<1>1. sealed'[s] # NoShard
  BY LedgerStep DEF Closed
<1>2. CASE UNCHANGED sealed
  BY <1>1, <1>2
<1>3. ASSUME NEW o \in Operators, WriteShard(o)
      PROVE  sealed'[s].leaves = sealed[s].leaves
  <2> DEFINE l == operator[o]
             seal == [leaves |-> l.leaves, pruned |-> l.prune]
  <2>1. sealed \in [Shards -> ShardSeal] /\ l.pc = "shard" /\ HeldOK(l)
    BY <1>3 DEF IInv, TypeOK, HeldInv, WriteShard
  <2>2. sealed' = [sealed EXCEPT ![l.shard] = seal] /\ seal.leaves = l.leaves
    BY <1>3 DEF WriteShard
  <2>3. CASE s = l.shard
    <3>1. l.leaves = sealed[s].leaves
      BY <2>1, <2>3 DEF HeldOK
    <3> HIDE DEF seal
    <3> QED
      BY <2>1, <2>2, <2>3, <3>1
  <2> QED
    BY <2>1, <2>2, <2>3
<1>4. CASE \E o \in Operators : OperatorAction(o)
  BY <1>1, <1>2, <1>3, <1>4, OperatorChanges
<1>5. CASE \E w \in Workers : WorkerAction(w)
  BY <1>2, <1>1, <1>5, WorkerChanges
<1>6. CASE \E u \in Units : LeaseExpires(u)
  BY <1>2, <1>1, <1>6 DEF LeaseExpires
<1>7. CASE UNCHANGED vars
  BY <1>2, <1>1, <1>7 DEF vars, files
<1> QED
  BY <1>4, <1>5, <1>6, <1>7, NextActions

\* A step of another process leaves what an operator holds as the files have it,
\* if what it writes to the operator's shard is what the operator holds.
LEMMA HeldKept ==
    ASSUME IInv, BackedInv, CommitInv, HeldInv, [Next]_vars,
           NEW p \in Operators, operator'[p] = operator[p],
           operator[p].pc \in {"digests", "shard"} /\ sealed'[operator[p].shard] # NoShard =>
             operator[p].leaves = sealed'[operator[p].shard].leaves,
           operator[p].pc = "shard" => digests'[operator[p].shard] = operator[p].leaves
    PROVE  HeldOK(operator[p])'
<1> DEFINE l == operator[p]
<1>0. HeldOK(l) /\ l \in OperatorState /\ Backed(l, Done, Closed) /\ OperatorOK(l)
  BY DEF HeldInv, IInv, TypeOK, BackedInv, OperatorsInv
<1>1. ASSUME l.pc \in {"read", "check", "digests", "shard"}, sealed'[l.shard] = NoShard,
             NEW i \in 1 .. Len(l.leaves)
      PROVE  l.leaves[i] = receipt'[FirstUnit(l.shard) + i - 1]
  <2>1. /\ l.shard \in Shards /\ i \in 1 .. ShardLen(l.shard) /\ l.leaves[i] # Absent
    BY <1>1, HeldUnits
  <2>2. sealed[l.shard] = NoShard
    BY <1>1, <2>1, SealsKept
  <2>3. l.leaves[i] = receipt[FirstUnit(l.shard) + i - 1]
    BY <1>0, <1>1, <2>2 DEF HeldOK
  <2> QED
    BY <1>1, <2>1, <2>3, OpenReceipts
<1>2. ASSUME l.pc \in {"fread", "fwrite"}, NEW i \in 1 .. Len(l.fin)
      PROVE  l.fin[i].leaves = sealed'[i - 1].leaves
  <2>1. i - 1 \in Shards /\ sealed[i - 1] # NoShard
    BY <1>0, <1>2 DEF Backed, Closed
  <2>2. l.fin[i].leaves = sealed[i - 1].leaves
    BY <1>0, <1>2 DEF HeldOK
  <2> QED
    BY <2>1, <2>2, SealsKept
<1> QED
  BY <1>1, <1>2 DEF HeldOK

\* What an operator's own step leaves it holding.
LEMMA HeldLocals ==
    ASSUME IInv, BackedInv, CommitInv, HeldInv, [Next]_vars,
           NEW o \in Operators, OperatorAction(o)
    PROVE  HeldOK(operator[o])'
<1> DEFINE l == operator[o]
           n == operator'[o]
<1>0. /\ operator \in [Operators -> OperatorState] /\ digests \in [Shards -> Seq(UnitRecords)]
      /\ sealed \in [Shards -> ShardSeal] /\ receipt \in [Units -> UnitRecords]
      /\ l \in OperatorState /\ OperatorOK(l) /\ HeldOK(l) /\ l.shard \in Shards
  BY DEF IInv, TypeOK, OperatorsInv, OperatorState, HeldInv
<1>1. /\ n.pc \in {"read", "check"} =>
           \/ n.leaves = Absent
           \/ /\ l.pc = "read" /\ n.shard = l.shard
              /\ n.leaves = Append(l.leaves, receipt[FirstUnit(l.shard) + Len(l.leaves)])
      /\ n.pc = "digests" =>
           l.pc = "check" /\ n.shard = l.shard /\ n.leaves = l.leaves /\ sealed[l.shard] = NoShard
      /\ n.pc = "shard" =>
           /\ l.pc = "digests" /\ n.shard = l.shard /\ n.leaves = l.leaves
           /\ digests' = [digests EXCEPT ![l.shard] = l.leaves]
      /\ n.pc \in {"fread", "fwrite"} =>
           n.fin = Absent \/ (l.pc = "fread" /\ n.fin = Append(l.fin, sealed[Len(l.fin)]))
  BY <1>0, OperatorAdvances
<1>2. l.pc \notin {"shard", "prune"} => UNCHANGED <<sealed, receipt>>
  BY OperatorChanges DEF WriteShard, PruneUnit
<1>3. ASSUME n.pc \in {"read", "check"}, sealed'[n.shard] = NoShard, NEW i \in 1 .. Len(n.leaves)
      PROVE  n.leaves[i] = receipt'[FirstUnit(n.shard) + i - 1]
  <2>1. n.leaves # Absent
    BY DEF Absent
  <2> DEFINE k == FirstUnit(l.shard)
             unit == receipt[k + Len(l.leaves)]
             more == Append(l.leaves, unit)
  <2>2. /\ l.pc = "read" /\ n.shard = l.shard /\ n.leaves = more
        /\ sealed' = sealed /\ receipt' = receipt
    BY <1>1, <1>2, <1>3, <2>1
  <2>3. \A j \in 1 .. Len(l.leaves) : l.leaves[j] = receipt[k + j - 1]
    BY <1>0, <1>3, <2>2 DEF HeldOK
  <2>4. /\ l.leaves \in Seq(UnitRecords) /\ Len(l.leaves) \in Nat
        /\ Len(l.leaves) < ShardLen(l.shard) /\ k \in Nat /\ ShardLen(l.shard) \in Nat
    BY <1>0, <2>2, ShardGeometry DEF OperatorState, OperatorOK
  <2>5. unit \in UnitRecords
    <3>1. Len(l.leaves) + 1 \in 1 .. ShardLen(l.shard)
      BY <2>4
    <3>2. k + (Len(l.leaves) + 1) - 1 \in Units
      BY <1>0, <3>1, ShardGeometry
    <3>3. k + (Len(l.leaves) + 1) - 1 = k + Len(l.leaves)
      BY <2>4
    <3> QED
      BY <1>0, <3>2, <3>3
  <2>6. /\ Len(more) = Len(l.leaves) + 1 /\ \A j \in 1 .. Len(l.leaves) : more[j] = l.leaves[j]
        /\ more[Len(l.leaves) + 1] = unit
    BY <2>4, <2>5, AppendProperties
  <2>7. i \in 1 .. Len(l.leaves) + 1
    BY <2>2, <2>6
  <2>8. n.leaves[i] = more[i] /\ receipt'[FirstUnit(n.shard) + i - 1] = receipt[k + i - 1]
    BY <2>2
  <2> HIDE DEF more, n, l, k
  <2>9. CASE i \in 1 .. Len(l.leaves)
    BY <2>3, <2>6, <2>8, <2>9
  <2>10. CASE i = Len(l.leaves) + 1
    <3>1. k + i - 1 = k + Len(l.leaves)
      BY <2>4, <2>10
    <3> QED
      BY <2>6, <2>8, <2>10, <3>1
  <2> QED
    BY <2>4, <2>7, <2>9, <2>10
<1>4. ASSUME n.pc \in {"digests", "shard"}
      PROVE  /\ sealed'[n.shard] = NoShard =>
                  \A i \in 1 .. Len(n.leaves) : n.leaves[i] = receipt'[FirstUnit(n.shard) + i - 1]
             /\ sealed'[n.shard] # NoShard => n.leaves = sealed'[n.shard].leaves
  <2>1. /\ n.shard = l.shard /\ n.leaves = l.leaves /\ sealed' = sealed /\ receipt' = receipt
        /\ l.pc \in {"check", "digests"} /\ (l.pc = "check" => sealed[l.shard] = NoShard)
    BY <1>1, <1>2, <1>4
  <2> QED
    BY <1>0, <2>1 DEF HeldOK
<1>5. n.pc = "shard" => digests'[n.shard] = n.leaves
  BY <1>0, <1>1
<1>6. ASSUME n.pc \in {"fread", "fwrite"}, NEW i \in 1 .. Len(n.fin)
      PROVE  n.fin[i].leaves = sealed'[i - 1].leaves
  <2>1. n.fin # Absent
    BY DEF Absent
  <2> DEFINE more == Append(l.fin, sealed[Len(l.fin)])
  <2>2. /\ l.pc = "fread" /\ n.fin = more /\ sealed' = sealed
        /\ \A j \in 1 .. Len(l.fin) : l.fin[j].leaves = sealed[j - 1].leaves
    BY <1>0, <1>1, <1>2, <1>6, <2>1 DEF HeldOK
  <2>3. /\ l.fin \in Seq(ShardSeal) /\ Len(l.fin) \in Nat /\ sealed[Len(l.fin)] \in ShardSeal
    <3>1. l.fin \in Seq(ShardSeal) /\ Len(l.fin) \in Nat /\ Len(l.fin) < ShardCount
      BY <1>0, <2>2 DEF OperatorState, OperatorOK
    <3>2. Len(l.fin) \in Shards
      BY <3>1, Counts DEF Shards
    <3> QED
      BY <1>0, <3>1, <3>2
  <2>4. /\ Len(more) = Len(l.fin) + 1 /\ \A j \in 1 .. Len(l.fin) : more[j] = l.fin[j]
        /\ more[Len(l.fin) + 1] = sealed[Len(l.fin)]
    BY <2>3, AppendProperties
  <2>5. i \in 1 .. Len(l.fin) + 1 /\ n.fin[i] = more[i]
    BY <2>2, <2>4
  <2> HIDE DEF more, n
  <2>6. CASE i \in 1 .. Len(l.fin)
    BY <2>2, <2>4, <2>5, <2>6
  <2>7. CASE i = Len(l.fin) + 1
    <3>1. i - 1 = Len(l.fin)
      BY <2>3, <2>7
    <3> QED
      BY <2>2, <2>4, <2>5, <2>7, <3>1
  <2> QED
    BY <2>3, <2>5, <2>6, <2>7
<1> QED
  BY <1>3, <1>4, <1>5, <1>6 DEF HeldOK

LEMMA NextHeld ==
    ASSUME IInv, BackedInv, PublishedInv, CommitInv, HeldInv, [Next]_vars
    PROVE  HeldInv'
<1>0. /\ digests \in [Shards -> Seq(UnitRecords)] /\ sealed \in [Shards -> ShardSeal]
      /\ \A o \in Operators : operator[o] \in OperatorState /\ operator[o].shard \in Shards
      /\ operator \in [Operators -> OperatorState]
      /\ \A o \in Operators : HeldOK(operator[o])
      /\ ShardRootRecomputable /\ CampaignLeaves
  BY DEF IInv, TypeOK, OperatorState, HeldInv
<1>1. CASE UNCHANGED <<digests, sealed, campaign, operator>>
  <2>1. ASSUME NEW p \in Operators PROVE HeldOK(operator[p])'
    BY <1>0, <1>1, HeldKept DEF HeldOK
  <2> QED
    BY <1>0, <1>1, <2>1 DEF HeldInv, ShardRootRecomputable, CampaignLeaves
<1>2. ASSUME NEW o \in Operators, OperatorAction(o)
      PROVE  HeldInv'
  <2> DEFINE l == operator[o]
             s == l.shard
  <2>1. HeldOK(operator[o])'
    BY <1>2, HeldLocals
  <2>2. \A p \in Operators : p # o => operator'[p] = operator[p]
    BY <1>0, <1>2, OtherOperators
  <2>3. CASE WriteDigests(o)
    <3>1. /\ digests' = [digests EXCEPT ![s] = l.leaves] /\ UNCHANGED <<sealed, campaign>>
          /\ l.pc = "digests"
      BY <2>3 DEF WriteDigests
    <3>2. ASSUME NEW p \in Operators, p # o PROVE HeldOK(operator[p])'
      <4>1. ASSUME operator[p].pc = "shard" PROVE digests'[operator[p].shard] = operator[p].leaves
        <5>1. operator[p].shard = s => operator[p].leaves = l.leaves
          BY <3>1, <4>1, HeldAgree
        <5>2. digests[operator[p].shard] = operator[p].leaves
          BY <1>0, <4>1 DEF HeldOK
        <5> HIDE DEF l, s
        <5> QED
          BY <1>0, <3>1, <5>1, <5>2
      <4> QED
        BY <1>0, <2>2, <3>1, <3>2, <4>1, HeldKept DEF HeldOK
    <3>3. sealed[s] # NoShard => l.leaves = sealed[s].leaves
      BY <1>0, <3>1 DEF HeldOK
    <3> HIDE DEF s, l
    <3>4. ShardRootRecomputable'
      BY <1>0, <3>1, <3>3 DEF ShardRootRecomputable
    <3>5. CampaignLeaves'
      BY <1>0, <3>1 DEF CampaignLeaves
    <3> QED
      BY <2>1, <3>2, <3>4, <3>5 DEF HeldInv
  <2>4. CASE WriteShard(o)
    <3> DEFINE seal == [leaves |-> l.leaves, pruned |-> l.prune]
    <3>1. /\ sealed' = [sealed EXCEPT ![s] = seal] /\ UNCHANGED <<digests, campaign>>
          /\ l.pc = "shard" /\ s \in Shards /\ digests[s] = l.leaves
      BY <1>0, <2>4 DEF WriteShard, HeldOK
    <3>2. seal.leaves = l.leaves
      OBVIOUS
    <3> HIDE DEF seal
    <3>3. sealed'[s].leaves = l.leaves /\ \A t \in Shards : t # s => sealed'[t] = sealed[t]
      BY <1>0, <3>1, <3>2
    <3>4. ASSUME NEW p \in Operators, p # o PROVE HeldOK(operator[p])'
      <4>1. ASSUME operator[p].pc \in {"digests", "shard"}, sealed'[operator[p].shard] # NoShard
            PROVE  operator[p].leaves = sealed'[operator[p].shard].leaves
        <5>1. CASE operator[p].shard = s
          BY <3>1, <3>3, <4>1, <5>1, HeldAgree
        <5>2. CASE operator[p].shard # s
          BY <1>0, <3>3, <4>1, <5>2 DEF HeldOK
        <5> QED
          BY <5>1, <5>2
      <4>2. operator[p].pc = "shard" => digests'[operator[p].shard] = operator[p].leaves
        BY <1>0, <3>1 DEF HeldOK
      <4> QED
        BY <2>2, <3>4, <4>1, <4>2, HeldKept
    <3>5. ShardRootRecomputable'
      BY <1>0, <3>1, <3>3 DEF ShardRootRecomputable
    <3>6. CampaignLeaves'
      <4>1. ASSUME campaign # Absent, NEW t \in Shards
            PROVE  campaign[t + 1].leaves = sealed'[t].leaves
        <5>1. sealed[t] # NoShard
          BY <4>1 DEF PublishedInv, Closed
        <5> QED
          BY <1>0, <4>1, <5>1, SealsKept DEF CampaignLeaves
      <4> QED
        BY <3>1, <4>1 DEF CampaignLeaves
    <3> QED
      BY <2>1, <3>4, <3>5, <3>6 DEF HeldInv
  <2>5. CASE UNCHANGED <<digests, sealed>>
    <3>1. ASSUME NEW p \in Operators, p # o PROVE HeldOK(operator[p])'
      BY <1>0, <2>2, <2>5, <3>1, HeldKept DEF HeldOK
    <3>2. ShardRootRecomputable'
      BY <1>0, <2>5 DEF ShardRootRecomputable
    <3>3. CampaignLeaves'
      <4>1. CASE UNCHANGED campaign
        BY <1>0, <2>5, <4>1 DEF CampaignLeaves
      <4>2. CASE WriteCampaign(o)
        <5>1. /\ campaign' = campaign \/ campaign' = l.fin
              /\ l.pc = "fwrite"
          BY <4>2 DEF WriteCampaign
        <5>2. Len(l.fin) = ShardCount /\ \A i \in 1 .. Len(l.fin) : l.fin[i].leaves = sealed[i - 1].leaves
          BY <1>0, <5>1 DEF HeldOK, IInv, OperatorsInv, OperatorOK
        <5>3. ASSUME NEW t \in Shards PROVE l.fin[t + 1].leaves = sealed[t].leaves
          <6>1. t + 1 \in 1 .. Len(l.fin) /\ (t + 1) - 1 = t
            BY <5>2, Counts DEF Shards
          <6>2. l.fin[t + 1].leaves = sealed[(t + 1) - 1].leaves
            BY <5>2, <6>1
          <6> QED
            BY <6>1, <6>2
        <5> HIDE DEF l
        <5> QED
          BY <1>0, <2>5, <5>1, <5>3 DEF CampaignLeaves
      <4> QED
        BY <1>2, <4>1, <4>2, OperatorChanges
    <3> QED
      BY <2>1, <3>1, <3>2, <3>3 DEF HeldInv
  <2> QED
    BY <1>2, <2>3, <2>4, <2>5, OperatorChanges DEF WriteDigests
<1>3. CASE \E w \in Workers : WorkerAction(w)
  BY <1>1, <1>3, WorkerChanges
<1>4. CASE \E u \in Units : LeaseExpires(u)
  BY <1>1, <1>4 DEF LeaseExpires
<1>5. CASE UNCHANGED vars
  BY <1>1, <1>5 DEF vars, files
<1> QED
  BY <1>2, <1>3, <1>4, <1>5, NextActions

LEMMA HeldInvariance ==
    ASSUME Apart
    PROVE  Spec => []HeldInv
<1>1. Init => HeldInv
  BY DEF Init, HeldInv, HeldOK, ShardRootRecomputable, CampaignLeaves, IdleOperator
<1>2. IInv /\ BackedInv /\ PublishedInv /\ CommitInv /\ HeldInv /\ [Next]_vars => HeldInv'
  BY NextHeld
<1> QED
  BY <1>1, <1>2, Invariance, BackedInvariance, PublishedInvariance, CommitInvariance, PTL
     DEF Spec

\* The Merkle root of a sealed shard stays recomputable from unit-digests.txt,
\* through pruning, a second run of its units and a second seal, on machines
\* that compute correctly, if no unit is run by two workers, or under one
\* operator at a time.
THEOREM RootsRecomputable ==
    ASSUME OneOutcome \/ Apart \/ Sole
    PROVE  Spec => []ShardRootRecomputable
<1>1. CASE Sole
  <2>1. Spec => []SoleInv
    BY <1>1, SoleInvariance
  <2>2. SoleInv => ShardRootRecomputable
    BY DEF SoleInv
  <2> QED
    BY <2>1, <2>2, PTL
<1>2. CASE Apart
  <2>1. Spec => []HeldInv
    BY <1>2, HeldInvariance
  <2>2. HeldInv => ShardRootRecomputable
    BY DEF HeldInv
  <2> QED
    BY <2>1, <2>2, PTL
<1>3. CASE OneOutcome
  <2>1. ASSUME IInv, DigestsInv, NEW s \in Shards, sealed[s] # NoShard
        PROVE  digests[s] = sealed[s].leaves
    <3>1. /\ digests[s] \in Seq(UnitRecords) /\ WholeShard(s, digests[s])
          /\ sealed[s].leaves \in Seq(UnitRecords) /\ WholeShard(s, sealed[s].leaves)
      BY <2>1 DEF IInv, TypeOK, SealedInv, DigestsInv, ShardSeal
    <3> QED
      BY <1>3, <3>1, OneShard
  <2>2. IInv /\ DigestsInv => ShardRootRecomputable
    BY <2>1 DEF ShardRootRecomputable
  <2> QED
    BY <2>2, Invariance, DigestsInvariance, PTL
<1> QED
  BY <1>1, <1>2, <1>3

\* A campaign artifact commits to the digests its shard receipts hold, though
\* operators seal a shard concurrently and only the note of what was pruned
\* may differ, under the hypotheses of RootsRecomputable.
THEOREM CampaignsCommit ==
    ASSUME OneOutcome \/ Apart \/ Sole
    PROVE  Spec => []CampaignLeaves
<1>1. CASE Sole
  <2>1. Spec => []CampaignRetained
    BY <1>1, CampaignsRetained
  <2>2. CampaignRetained => CampaignLeaves
    BY DEF CampaignRetained, CampaignLeaves
  <2> QED
    BY <2>1, <2>2, PTL
<1>2. CASE Apart
  <2>1. Spec => []HeldInv
    BY <1>2, HeldInvariance
  <2>2. HeldInv => CampaignLeaves
    BY DEF HeldInv
  <2> QED
    BY <2>1, <2>2, PTL
<1>3. CASE OneOutcome
  <2>1. ASSUME IInv, PublishedInv, campaign # Absent, NEW s \in Shards
        PROVE  campaign[s + 1].leaves = sealed[s].leaves
    <3>1. ShardChain(campaign) /\ Len(campaign) = ShardCount /\ campaign \in Seq(ShardSeal)
      BY <2>1 DEF IInv, TypeOK, CampaignInv
    <3>2. s + 1 \in 1 .. Len(campaign) /\ (s + 1) - 1 = s
      BY <3>1, Counts DEF Shards
    <3>3. WholeShard((s + 1) - 1, campaign[s + 1].leaves) /\ campaign[s + 1] \in ShardSeal
      BY <3>1, <3>2, ElementOfSeq DEF ShardChain
    <3>4. WholeShard(s, sealed[s].leaves) /\ sealed[s] \in ShardSeal
      BY <2>1 DEF PublishedInv, Closed, IInv, TypeOK, SealedInv
    <3>5. campaign[s + 1].leaves \in Seq(UnitRecords) /\ sealed[s].leaves \in Seq(UnitRecords)
      BY <3>3, <3>4 DEF ShardSeal
    <3> QED
      BY <1>3, <3>2, <3>3, <3>4, <3>5, OneShard
  <2>2. IInv /\ PublishedInv => CampaignLeaves
    BY <2>1 DEF CampaignLeaves
  <2> QED
    BY <2>2, Invariance, PublishedInvariance, PTL
<1> QED
  BY <1>1, <1>2, <1>3

=============================================================================
