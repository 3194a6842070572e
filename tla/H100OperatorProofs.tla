-------------------------- MODULE H100OperatorProofs --------------------------
(***************************************************************************)
(* For any number of calls, results, rebuilds, kills and returned files:   *)
(* the completion on the guest describes one run, no side effect of the    *)
(* operator is started twice, what it records is of one run, the recorded  *)
(* review pair is whole, and the operator implements OrderedSteps.         *)
(***************************************************************************)
EXTENDS H100Operator, TLAPS

\* A call that collected evidence and has not written its completion.
Packs(c) == call[c].pc \in {"archive", "fill", "complete"}

\* The evidence is of the published run; nothing is archived before it.
EvidenceOfRun ==
    /\ evidence # None => evidence = run
    /\ evidence = None => archive = None
    /\ archive \notin {None, Torn} => archive = run

\* A call knows the run it works on, and how far the archive is.
CallKnows(c) ==
    /\ InCall(c, "collect") \/ Packs(c) => run # None
    /\ Packs(c) => evidence = run /\ call[c].result = run
    /\ InCall(c, "archive") => archive = None
    /\ InCall(c, "fill") => archive = Torn
    /\ InCall(c, "complete") => archive = run

\* One call packs at a time, and none once there is a completion.
OnePacker ==
    /\ \A c, d \in Call : Packs(c) /\ Packs(d) => c = d
    /\ completion # None => \A c \in Call : ~Packs(c)

GuestInv ==
    /\ WorkerTypeOK
    /\ EvidenceOfRun
    /\ \A c \in Call : CallKnows(c)
    /\ OnePacker
    /\ EvidenceConsistent

\* What TypeOK says of the operator.
OperatorTypes ==
    /\ stage \in Stage \cup {None}
    /\ record \in [Steps -> Artifact \cup Pair \cup {None}]
    /\ file \in [Steps -> Artifact \cup {None}]
    /\ {registry, lean, package} \subseteq Result \cup {None}
    /\ returned \in [archive : Result \cup {Torn, None}, completion : Completion \cup {None}]
    /\ child \in [Steps -> {"none", "running", "installed"}]
    /\ started \in [Steps -> Nat]
    /\ cmd \in [pc : {"idle", "work", "extracted", "await", "registry", "lean", "leave"},
                step : {0} \cup Steps, input : Completion \cup {None}]

\* A command has entered its step, and the child is not started before that.
CommandEntered ==
    cmd # NoCommand =>
        /\ cmd.pc # "idle" /\ cmd.step \in Attempted
        /\ stage = <<cmd.step, "busy">>
        /\ cmd.step \in {Ingest, Appraise} => cmd.input \in Completion
        /\ cmd.pc \in {"work", "extracted"} => started[cmd.step] = 0

\* A child is started in a step that the campaign has reached.
Starts ==
    \A k \in Attempted :
        /\ started[k] <= 1
        /\ started[k] > 0 => stage # None /\ stage[1] >= k

Passed(k) == stage # None /\ (stage[1] > k \/ stage = <<k, "done">>)

\* The steps with a record are those that the stage has passed.
Progress == \A k \in Steps : record[k] # None <=> Passed(k)

\* Records are of files that stay, and files of the package that stays.
RecordKept == \A k \in Steps \ {Review} : record[k] # None => record[k] = file[k]

OneRun ==
    /\ \A k \in {Ingest, Appraise, Issue} : file[k] # None => file[k] = package
    /\ InCommand("await", Ingest) => cmd.input.result = package

\* A child that installed its artifact, or a command that takes the answer of
\* its child, leaves the artifact behind; the issuer has a package.
Produced ==
    /\ \A k \in Installing : child[k] = "installed" => file[k] # None
    /\ child[Issue] # "none" => package # None
    /\ cmd.pc = "leave" /\ cmd.step # Review => file[cmd.step] # None

\* Every candidate is of the receipt, and a pair is recorded with both.
Candidates ==
    /\ registry # None => registry = file[Issue]
    /\ lean # None => lean = file[Issue]
    /\ InCommand("lean", Review) => registry # None
    /\ InCommand("leave", Review) => registry # None /\ lean # None
    /\ record[Review] # None =>
          record[Review] = <<registry, lean>> /\ registry # None /\ lean # None

OperatorInv ==
    /\ OperatorTypes /\ CommandEntered /\ Starts /\ Progress
    /\ RecordKept /\ OneRun /\ Produced /\ Candidates

-----------------------------------------------------------------------------
(* The guest                                                               *)

(* A call that goes on changes its own program counter only.               *)
LEMMA CallStep ==
  ASSUME WorkerTypeOK, NEW c \in Call,
         NEW pc \in {"idle", "check", "run", "collect", "archive", "fill", "complete"},
         NEW r \in Result \cup {None}
  PROVE  /\ [call EXCEPT ![c].pc = pc] =
                [call EXCEPT ![c] = [pc |-> pc, result |-> call[c].result]]
         /\ [call EXCEPT ![c] = [pc |-> pc, result |-> r]][c] = [pc |-> pc, result |-> r]
         /\ \A d \in Call \ {c} : [call EXCEPT ![c] = [pc |-> pc, result |-> r]][d] = call[d]
         /\ [call EXCEPT ![c] = [pc |-> pc, result |-> r]] \in
                [Call -> [pc : {"idle", "check", "run", "collect", "archive", "fill", "complete"},
                          result : Result \cup {None}]]
<1> DEFINE Pcs == {"idle", "check", "run", "collect", "archive", "fill", "complete"}
<1>1. call \in [Call -> [pc : Pcs, result : Result \cup {None}]]
  BY DEF WorkerTypeOK
<1>2. call[c] = [pc |-> call[c].pc, result |-> call[c].result]
  BY <1>1
<1>3. [call[c] EXCEPT !.pc = pc] = [pc |-> pc, result |-> call[c].result]
  <2>1. ASSUME NEW p, NEW q
        PROVE  [[pc |-> p, result |-> q] EXCEPT !.pc = pc] = [pc |-> pc, result |-> q]
    OBVIOUS
  <2> QED
    BY <1>2, <2>1
<1>4. [call EXCEPT ![c].pc = pc] = [call EXCEPT ![c] = [call[c] EXCEPT !.pc = pc]]
  OBVIOUS
<1>5. [pc |-> pc, result |-> r] \in [pc : Pcs, result : Result \cup {None}]
  OBVIOUS
<1> QED
  BY <1>1, <1>3, <1>4, <1>5

LEMMA GuestInit == WorkerInit => GuestInv
<1> SUFFICES ASSUME WorkerInit PROVE GuestInv
  OBVIOUS
<1>1. \A c \in Call : call[c].pc = "idle" /\ call[c].result = None
  BY DEF WorkerInit, Idle
<1>2. WorkerTypeOK
  <2>1. rebuilt \in 0 .. MaxRebuilds
    BY WorkerAssumption DEF WorkerInit
  <2> QED
    BY <2>1 DEF WorkerInit, WorkerTypeOK, Idle
<1>3. \A c \in Call : ~Packs(c) /\ CallKnows(c)
  BY <1>1 DEF CallKnows, Packs, InCall
<1> QED
  BY <1>2, <1>3 DEF WorkerInit, GuestInv, EvidenceOfRun, OnePacker, EvidenceConsistent

(* A step that leaves the disk alone and takes a call to a place where it  *)
(* holds nothing.                                                          *)
LEMMA CallLeaves ==
  ASSUME GuestInv, NEW c \in Call, NEW pc \in {"idle", "check", "run"},
         NEW r \in Result \cup {None},
         call' = [call EXCEPT ![c] = [pc |-> pc, result |-> r]],
         staged' = staged, expired' \in BOOLEAN, root' \in BOOLEAN, rebuilt' = rebuilt,
         UNCHANGED <<run, evidence, archive, completion>>
  PROVE  GuestInv'
<1>1. WorkerTypeOK'
  BY CallStep DEF GuestInv, WorkerTypeOK
<1>0. call'[c] = [pc |-> pc, result |-> r] /\ \A d \in Call \ {c} : call'[d] = call[d]
  BY CallStep DEF GuestInv
<1>2. ~Packs(c)' /\ ~InCall(c, "collect")' /\ \A d \in Call \ {c} : call'[d] = call[d]
  BY <1>0 DEF Packs, InCall
<1>3. \A d \in Call : CallKnows(d)'
  BY <1>2 DEF GuestInv, CallKnows, Packs, InCall
<1>4. OnePacker'
  BY <1>2 DEF GuestInv, OnePacker, Packs
<1> QED
  BY <1>1, <1>3, <1>4 DEF GuestInv, EvidenceOfRun, EvidenceConsistent

LEMMA ExtractStep ==
  ASSUME GuestInv, NEW c \in Call, ExtractPackage(c)
  PROVE  GuestInv'
<1>1. CASE root
  BY <1>1 DEF ExtractPackage, GuestInv, WorkerTypeOK, EvidenceOfRun, CallKnows, OnePacker,
              EvidenceConsistent, Packs, InCall
<1>2. CASE ~root
  <2>1. call' = [call EXCEPT ![c] = [pc |-> "check", result |-> call[c].result]]
    BY <1>2, CallStep DEF ExtractPackage, Proceed, GuestInv, WorkerTypeOK
  <2>2. call[c].result \in Result \cup {None}
    BY DEF GuestInv, WorkerTypeOK
  <2>3. root' \in BOOLEAN /\ expired' \in BOOLEAN
    BY <1>2 DEF ExtractPackage, GuestInv, WorkerTypeOK
  <2> QED
    BY <2>1, <2>2, <2>3, CallLeaves DEF ExtractPackage
<1> QED
  BY <1>1, <1>2

LEMMA CheckStep ==
  ASSUME GuestInv, NEW c \in Call, CheckStaged(c)
  PROVE  GuestInv'
<1>1. call' = [call EXCEPT ![c] = [pc |-> "run", result |-> call[c].result]]
  BY CallStep DEF CheckStaged, Proceed, GuestInv, WorkerTypeOK
<1>2. call[c].result \in Result \cup {None} /\ root' \in BOOLEAN /\ expired' \in BOOLEAN
  BY DEF CheckStaged, disk, GuestInv, WorkerTypeOK
<1> QED
  BY <1>1, <1>2, CallLeaves DEF CheckStaged, disk

(* Before there is a run, there is nothing else.                           *)
LEMMA NoRunYet ==
  ASSUME GuestInv, run = None
  PROVE  /\ evidence = None /\ archive = None
         /\ \A c \in Call : ~InCall(c, "collect") /\ ~Packs(c)
         /\ completion = None
<1>1. evidence = None /\ archive = None /\ \A c \in Call : ~InCall(c, "collect") /\ ~Packs(c)
  BY DEF GuestInv, EvidenceOfRun, CallKnows
<1>2. completion \in Completion => completion.result \in Result
  BY DEF Completion
<1>3. completion = None
  BY <1>1, <1>2, WorkerAssumption DEF GuestInv, EvidenceConsistent, WorkerTypeOK
<1> QED
  BY <1>1, <1>3

LEMMA RunStep ==
  ASSUME GuestInv, NEW c \in Call, NEW r \in Result, RunMeasured(c, r)
  PROVE  GuestInv'
<1>1. /\ evidence = None /\ archive = None /\ completion = None
      /\ \A d \in Call : ~InCall(d, "collect") /\ ~Packs(d)
  BY NoRunYet DEF RunMeasured
<1>2. call' = [call EXCEPT ![c] = [pc |-> "collect", result |-> call[c].result]]
  BY CallStep DEF RunMeasured, Proceed, GuestInv, WorkerTypeOK
<1>3. call[c].result \in Result \cup {None}
  BY DEF GuestInv, WorkerTypeOK
<1>4. WorkerTypeOK'
  BY <1>2, <1>3, CallStep DEF RunMeasured, GuestInv, WorkerTypeOK
<1>5. /\ call'[c] = [pc |-> "collect", result |-> call[c].result]
      /\ \A d \in Call \ {c} : call'[d] = call[d]
  BY <1>2 DEF GuestInv, WorkerTypeOK
<1>6. \A d \in Call : ~Packs(d)'
  BY <1>1, <1>5 DEF Packs
<1>7. \A d \in Call : CallKnows(d)'
  BY <1>6, WorkerAssumption DEF CallKnows, RunMeasured, Packs, InCall
<1> QED
  BY <1>1, <1>4, <1>6, <1>7
     DEF RunMeasured, GuestInv, EvidenceOfRun, OnePacker, EvidenceConsistent

(* Before evidence is collected, nobody packs.                             *)
LEMMA NoEvidenceYet ==
  ASSUME GuestInv, evidence = None
  PROVE  archive = None /\ completion = None /\ \A c \in Call : ~Packs(c)
<1>1. archive = None /\ \A c \in Call : ~Packs(c)
  BY DEF GuestInv, EvidenceOfRun, CallKnows
<1>2. completion = None
  <2>1. SUFFICES ASSUME completion # None PROVE FALSE
    OBVIOUS
  <2>2. run = None
    BY <2>1 DEF GuestInv, EvidenceConsistent
  <2> QED
    BY <2>1, <2>2, NoRunYet
<1> QED
  BY <1>1, <1>2

LEMMA CollectStep ==
  ASSUME GuestInv, NEW c \in Call, CollectEvidence(c)
  PROVE  GuestInv'
<1>1. archive = None /\ completion = None /\ \A d \in Call : ~Packs(d)
  BY NoEvidenceYet DEF CollectEvidence
<1>2. run \in Result /\ run # None
  BY DEF CollectEvidence, GuestInv, CallKnows, WorkerTypeOK
<1>3. call' = [call EXCEPT ![c] = [pc |-> "archive", result |-> run]]
  BY DEF CollectEvidence
<1>4. WorkerTypeOK'
  BY <1>2, <1>3, CallStep DEF CollectEvidence, GuestInv, WorkerTypeOK
<1>5. call'[c] = [pc |-> "archive", result |-> run] /\ \A d \in Call \ {c} : call'[d] = call[d]
  BY <1>2, <1>3, CallStep DEF GuestInv
<1>6. \A d \in Call : Packs(d)' => d = c
  BY <1>1, <1>5 DEF Packs
<1>7. \A d \in Call : CallKnows(d)'
  BY <1>1, <1>2, <1>5, <1>6 DEF CollectEvidence, CallKnows, Packs, InCall
<1> QED
  BY <1>1, <1>2, <1>4, <1>6, <1>7
     DEF CollectEvidence, GuestInv, EvidenceOfRun, OnePacker, EvidenceConsistent

(* The archive of the call that packs changes with its program counter.    *)
LEMMA PackStep ==
  ASSUME GuestInv, NEW c \in Call, Packs(c), NEW pc \in {"fill", "complete"},
         call' = [call EXCEPT ![c] = [pc |-> pc, result |-> call[c].result]],
         archive' = IF pc = "fill" THEN Torn ELSE run,
         UNCHANGED <<staged, expired, root, run, evidence, completion, rebuilt>>
  PROVE  GuestInv'
<1>1. run \in Result /\ run # None /\ evidence = run /\ call[c].result = run /\ completion = None
  BY DEF GuestInv, CallKnows, OnePacker, WorkerTypeOK
<1>2. WorkerTypeOK'
  BY <1>1, CallStep DEF GuestInv, WorkerTypeOK
<1>3. call'[c] = [pc |-> pc, result |-> run] /\ \A d \in Call \ {c} : call'[d] = call[d]
  BY <1>1, CallStep DEF GuestInv
<1>4. \A d \in Call \ {c} : ~Packs(d) /\ ~Packs(d)'
  BY <1>3 DEF GuestInv, OnePacker, Packs
<1>5. \A d \in Call : CallKnows(d)'
  BY <1>1, <1>3, <1>4 DEF GuestInv, CallKnows, Packs, InCall
<1> QED
  BY <1>1, <1>2, <1>4, <1>5 DEF GuestInv, EvidenceOfRun, OnePacker, EvidenceConsistent

LEMMA OpenStep ==
  ASSUME GuestInv, NEW c \in Call, OpenArchive(c)
  PROVE  GuestInv'
<1>1. call' = [call EXCEPT ![c] = [pc |-> "fill", result |-> call[c].result]]
  BY CallStep DEF OpenArchive, Proceed, GuestInv, WorkerTypeOK
<1> QED
  BY <1>1, PackStep DEF OpenArchive, Packs, InCall

LEMMA FillStep ==
  ASSUME GuestInv, NEW c \in Call, FillArchive(c)
  PROVE  GuestInv'
<1>1. call' = [call EXCEPT ![c] = [pc |-> "complete", result |-> call[c].result]]
  BY CallStep DEF FillArchive, Proceed, GuestInv, WorkerTypeOK
<1>2. Packs(c) /\ evidence = run
  BY DEF FillArchive, Packs, InCall, GuestInv, CallKnows
<1> QED
  BY <1>1, <1>2, PackStep DEF FillArchive

LEMMA CompletionStep ==
  ASSUME GuestInv, NEW c \in Call, WriteCompletion(c)
  PROVE  GuestInv'
<1>1. Packs(c) /\ run \in Result /\ archive = run /\ evidence = run /\ call[c].result = run
  BY DEF WriteCompletion, Packs, InCall, GuestInv, CallKnows, WorkerTypeOK
<1>2. completion' = [archive |-> run, result |-> run] /\ completion' \in Completion
  BY <1>1 DEF WriteCompletion, Completion
<1>3. call' = [call EXCEPT ![c] = [pc |-> "idle", result |-> None]]
  BY DEF WriteCompletion, Idle
<1>4. WorkerTypeOK'
  BY <1>2, <1>3, CallStep DEF WriteCompletion, GuestInv, WorkerTypeOK
<1>5. call'[c] = [pc |-> "idle", result |-> None] /\ \A d \in Call \ {c} : call'[d] = call[d]
  BY <1>3, CallStep DEF GuestInv
<1>6. \A d \in Call : ~Packs(d)'
  BY <1>1, <1>5 DEF GuestInv, OnePacker, Packs
<1>7. \A d \in Call : CallKnows(d)'
  BY <1>5, <1>6 DEF WriteCompletion, GuestInv, CallKnows, Packs, InCall
<1> QED
  BY <1>1, <1>2, <1>4, <1>6, <1>7
     DEF WriteCompletion, GuestInv, EvidenceOfRun, OnePacker, EvidenceConsistent

LEMMA EndStep ==
  ASSUME GuestInv, NEW c \in Call, EndCall(c)
  PROVE  GuestInv'
<1>1. call' = [call EXCEPT ![c] = [pc |-> "idle", result |-> None]]
  BY DEF EndCall, Idle
<1>2. CASE ~InCall(c, "fill")
  <2>1. UNCHANGED <<run, evidence, archive, completion>>
    BY <1>2 DEF EndCall
  <2>2. staged' = staged /\ expired' \in BOOLEAN /\ root' \in BOOLEAN /\ rebuilt' = rebuilt
    BY DEF EndCall, GuestInv, WorkerTypeOK
  <2> QED
    BY <1>1, <2>1, <2>2, CallLeaves
<1>3. CASE InCall(c, "fill")
  <2>1. Packs(c) /\ completion = None
    BY <1>3 DEF Packs, InCall, GuestInv, OnePacker
  <2>2. archive' = None
    BY <1>3 DEF EndCall
  <2>3. WorkerTypeOK'
    BY <1>1, <2>2, CallStep DEF EndCall, GuestInv, WorkerTypeOK
  <2>4. call'[c] = [pc |-> "idle", result |-> None] /\ \A d \in Call \ {c} : call'[d] = call[d]
    BY <1>1, CallStep DEF GuestInv
  <2>5. \A d \in Call : ~Packs(d)'
    BY <2>1, <2>4 DEF GuestInv, OnePacker, Packs
  <2>6. \A d \in Call : CallKnows(d)'
    BY <2>4, <2>5 DEF EndCall, GuestInv, CallKnows, Packs, InCall
  <2> QED
    BY <2>1, <2>2, <2>3, <2>5, <2>6
       DEF EndCall, GuestInv, EvidenceOfRun, OnePacker, EvidenceConsistent
<1> QED
  BY <1>2, <1>3

LEMMA KillStep ==
  ASSUME GuestInv, NEW c \in Call, KillCall(c)
  PROVE  GuestInv'
<1>1. call' = [call EXCEPT ![c] = [pc |-> "idle", result |-> None]]
  BY DEF KillCall, Idle
<1>2. call'[c] = [pc |-> "idle", result |-> None] /\ \A d \in Call \ {c} : call'[d] = call[d]
  BY <1>1, CallStep DEF GuestInv
<1>3. CASE UNCHANGED <<run, evidence>>
  <2>1. staged' = staged /\ expired' \in BOOLEAN /\ root' \in BOOLEAN /\ rebuilt' = rebuilt
    BY DEF KillCall, GuestInv, WorkerTypeOK
  <2> QED
    BY <1>1, <1>3, <2>1, CallLeaves DEF KillCall
<1>4. CASE run = None /\ run' \in Result /\ UNCHANGED evidence
  <2>1. /\ evidence = None /\ archive = None /\ completion = None
        /\ \A d \in Call : ~InCall(d, "collect") /\ ~Packs(d)
    BY <1>4, NoRunYet
  <2>2. \A d \in Call : ~Packs(d)' /\ ~InCall(d, "collect")'
    BY <1>2, <2>1 DEF Packs, InCall
  <2>3. WorkerTypeOK'
    BY <1>1, <1>4, CallStep DEF KillCall, GuestInv, WorkerTypeOK
  <2>4. \A d \in Call : CallKnows(d)'
    BY <2>2 DEF CallKnows, Packs, InCall
  <2> QED
    BY <1>4, <2>1, <2>2, <2>3, <2>4
       DEF KillCall, GuestInv, EvidenceOfRun, OnePacker, EvidenceConsistent
<1>5. CASE InCall(c, "collect") /\ evidence = None /\ evidence' = run /\ UNCHANGED run
  <2>1. archive = None /\ completion = None /\ \A d \in Call : ~Packs(d)
    BY <1>5, NoEvidenceYet
  <2>2. \A d \in Call : ~Packs(d)'
    BY <1>2, <2>1 DEF Packs
  <2>3. WorkerTypeOK'
    BY <1>1, <1>5, CallStep DEF KillCall, GuestInv, WorkerTypeOK
  <2>4. \A d \in Call : CallKnows(d)'
    BY <1>2, <1>5, <2>2 DEF GuestInv, CallKnows, Packs, InCall
  <2> QED
    BY <1>5, <2>1, <2>2, <2>3, <2>4
       DEF KillCall, GuestInv, EvidenceOfRun, OnePacker, EvidenceConsistent
<1> QED
  BY <1>3, <1>4, <1>5 DEF KillCall

LEMMA RebuildStep == ASSUME GuestInv, Rebuild PROVE GuestInv'
<1>1. rebuilt' \in 0 .. MaxRebuilds
  BY WorkerAssumption DEF Rebuild, GuestInv, WorkerTypeOK
<1>2. \A c \in Call : call'[c] = Idle
  BY DEF Rebuild
<1>3. WorkerTypeOK'
  BY <1>1 DEF Rebuild, GuestInv, WorkerTypeOK, Idle
<1> QED
  BY <1>2, <1>3
     DEF Rebuild, GuestInv, EvidenceOfRun, CallKnows, OnePacker, EvidenceConsistent, Packs,
         InCall, Idle

(* A step that leaves calls and disk alone.                                *)
LEMMA GuestQuiet ==
  ASSUME GuestInv, staged' \in BOOLEAN, expired' \in BOOLEAN, UNCHANGED <<disk, rebuilt, call>>
  PROVE  GuestInv'
BY DEF GuestInv, WorkerTypeOK, EvidenceOfRun, CallKnows, OnePacker, EvidenceConsistent,
       Packs, InCall, disk

LEMMA GuestStep == GuestInv /\ [WorkerNext]_<<expired, guest>> => GuestInv'
<1> SUFFICES ASSUME GuestInv, [WorkerNext]_<<expired, guest>> PROVE GuestInv'
  OBVIOUS
<1>1. ASSUME NEW c \in Call, ExtractPackage(c) \/ WorkerCall(c) \/ KillCall(c) PROVE GuestInv'
  BY <1>1, ExtractStep, CheckStep, RunStep, CollectStep, OpenStep, FillStep, CompletionStep,
     EndStep, KillStep DEF WorkerCall
<1>2. CASE StageInputs
  BY <1>2, GuestQuiet DEF StageInputs, GuestInv, WorkerTypeOK
<1>3. CASE Expire
  BY <1>3, GuestQuiet DEF Expire, guest, GuestInv, WorkerTypeOK
<1>4. CASE UNCHANGED <<expired, guest>>
  BY <1>4, GuestQuiet DEF guest, GuestInv, WorkerTypeOK
<1> QED
  BY <1>1, <1>2, <1>3, <1>4, RebuildStep DEF WorkerNext

-----------------------------------------------------------------------------
(* The operator                                                            *)

LEMMA StepNumbers ==
  /\ Steps = 1 .. 7
  /\ Attempted = {1, 2, 4, 5, 6, 7}
  /\ Deploy = 1 /\ Challenge = 2 /\ Handoff = 3 /\ Ingest = 4
  /\ Appraise = 5 /\ Issue = 6 /\ Review = 7
  /\ Installing = {2, 6} /\ Reconcilable = {1, 2, 6}
BY DEF Steps, Attempted, Deploy, Challenge, Handoff, Ingest, Appraise, Issue, Review,
       Installing, Reconcilable

(* Artifacts are not None.                                                 *)
LEMMA Artifacts ==
  /\ None \notin Artifact /\ None \notin Pair /\ None \notin Result
  /\ Made \in Artifact /\ Result \subseteq Artifact
  /\ \A c \in Completion : c.result \in Result /\ c.archive \in Result
BY WorkerAssumption, MadeAssumption DEF Artifact, Completion

(* A command that goes on changes its own program counter only.            *)
LEMMA GotoStep ==
  ASSUME OperatorTypes, cmd # NoCommand,
         NEW pc \in {"idle", "work", "extracted", "await", "registry", "lean", "leave"},
         Goto(pc)
  PROVE  /\ cmd'.pc = pc /\ cmd'.step = cmd.step /\ cmd'.input = cmd.input
         /\ cmd' = [pc |-> pc, step |-> cmd.step, input |-> cmd.input]
         /\ cmd' \in [pc : {"idle", "work", "extracted", "await", "registry", "lean", "leave"},
                       step : {0} \cup Steps, input : Completion \cup {None}]
<1>1. cmd \in [pc : {"idle", "work", "extracted", "await", "registry", "lean", "leave"},
               step : {0} \cup Steps, input : Completion \cup {None}]
  BY DEF OperatorTypes
<1>2. cmd' = [cmd EXCEPT !.pc = pc]
  BY DEF Goto
<1>3. cmd' = [pc |-> pc, step |-> cmd.step, input |-> cmd.input]
  BY <1>1, <1>2
<1> QED
  BY <1>1, <1>3

(* The command that the lock is held for.                                  *)
LEMMA NotFree ==
  ASSUME NEW pc, NEW k, InCommand(pc, k), pc # "idle"
  PROVE  cmd # NoCommand
BY DEF InCommand, NoCommand

(* Without a command, what is said of commands is true.                    *)
LEMMA NoCommandSays ==
  ASSUME cmd' = NoCommand
  PROVE  /\ CommandEntered'
         /\ \A pc, k : pc # "idle" => ~InCommand(pc, k)'
         /\ cmd'.pc = "idle" /\ cmd'.step = 0
         /\ cmd' \in [pc : {"idle", "work", "extracted", "await", "registry", "lean", "leave"},
                       step : {0} \cup Steps, input : Completion \cup {None}]
BY DEF CommandEntered, InCommand, NoCommand

(* A campaign that has passed k has passed what comes before it.           *)
LEMMA StageTyped ==
  ASSUME OperatorTypes, stage # None
  PROVE  /\ stage[1] \in 0 .. 7 /\ stage[2] \in {"busy", "failed", "done"}
         /\ stage = <<stage[1], stage[2]>>
         /\ stage[1] = 0 => stage[2] = "done"
<1>1. CASE stage = <<0, "done">>
  BY <1>1
<1>2. CASE stage \in Steps \X {"busy", "failed", "done"}
  BY <1>2, StepNumbers
<1> QED
  BY <1>1, <1>2 DEF OperatorTypes, Stage

LEMMA OperatorInit == Init => OperatorInv
<1> SUFFICES ASSUME Init PROVE OperatorInv
  OBVIOUS
<1>1. OperatorTypes
  BY DEF Init, OperatorTypes, NoCommand
<1>2. CommandEntered /\ cmd.pc = "idle"
  BY DEF Init, CommandEntered, NoCommand
<1>3. Starts
  BY StepNumbers DEF Init, Starts
<1>4. Progress
  BY DEF Init, Progress, Passed
<1>5. RecordKept /\ OneRun /\ Produced /\ Candidates
  BY <1>2, StepNumbers
     DEF Init, RecordKept, OneRun, Produced, Candidates, InCommand
<1> QED
  BY <1>1, <1>2, <1>3, <1>4, <1>5 DEF OperatorInv

LEMMA InitializeStep == ASSUME OperatorInv, InitializeState PROVE OperatorInv'
<1>1. OperatorTypes'
  BY DEF InitializeState, OperatorInv, OperatorTypes, Stage, files, children
<1>2. CommandEntered' /\ cmd' = cmd /\ cmd.pc = "idle"
  BY DEF InitializeState, Free, CommandEntered, NoCommand
<1>3. \A k \in Attempted : started'[k] <= 1 /\ ~(started'[k] > 0)
  BY DEF InitializeState, OperatorInv, Starts, children
<1>4. \A k \in Steps : record'[k] = None /\ ~Passed(k)'
  <2>1. \A k \in Steps : record[k] = None
    BY DEF InitializeState, OperatorInv, Progress, Passed
  <2>2. stage' = <<0, "done">> /\ stage'[1] = 0
    BY DEF InitializeState
  <2>3. \A k \in Steps : ~(0 > k) /\ <<0, "done">> # <<k, "done">>
    BY StepNumbers
  <2> QED
    BY <2>1, <2>2, <2>3 DEF Passed, InitializeState
<1>5. RecordKept' /\ OneRun' /\ Produced' /\ Candidates'
  BY <1>2
     DEF InitializeState, OperatorInv, RecordKept, OneRun, Produced, Candidates, InCommand,
         files, children
<1> QED
  BY <1>1, <1>2, <1>3, <1>4, <1>5 DEF OperatorInv, Starts, Progress

(* A stage is not None, so passing is a matter of the two parts of a stage.*)
LEMMA StageIs ==
  ASSUME NEW k \in 0 .. 7, NEW s \in {"busy", "failed", "done"}, k = 0 => s = "done"
  PROVE  /\ <<k, s>> # None /\ <<k, s>> \in Stage
         /\ stage = <<k, s>> =>
              /\ stage # None /\ stage[1] = k
              /\ \A j \in Steps : Passed(j) <=> (j < k \/ (j = k /\ s = "done"))
         /\ stage' = <<k, s>> =>
              /\ stage' # None /\ stage'[1] = k
              /\ \A j \in Steps : Passed(j)' <=> (j < k \/ (j = k /\ s = "done"))
<1>1. <<k, s>> \in Stage
  BY StepNumbers DEF Stage
<1>2. <<k, s>> # None
  BY <1>1, MadeAssumption
<1>3. ASSUME stage = <<k, s>>
      PROVE  stage # None /\ stage[1] = k
             /\ \A j \in Steps : Passed(j) <=> (j < k \/ (j = k /\ s = "done"))
  BY <1>2, <1>3, StepNumbers DEF Passed
<1>4. ASSUME stage' = <<k, s>>
      PROVE  stage' # None /\ stage'[1] = k
             /\ \A j \in Steps : Passed(j)' <=> (j < k \/ (j = k /\ s = "done"))
  BY <1>2, <1>4, StepNumbers DEF Passed
<1> QED
  BY <1>1, <1>2, <1>3, <1>4

(* A record has a file, and so has a package.                              *)
LEMMA RecordHasFile ==
  ASSUME OperatorInv
  PROVE  /\ \A k \in Steps \ {Review} : record[k] # None => file[k] # None /\ file[k] = record[k]
         /\ record[Ingest] # None => package # None
         /\ file[Issue] \in Result \cup {None}
<1>1. \A k \in Steps \ {Review} : record[k] # None => file[k] # None /\ file[k] = record[k]
  BY DEF OperatorInv, RecordKept
<1>2. record[Ingest] # None => package # None
  BY <1>1, StepNumbers DEF OperatorInv, OneRun
<1>3. file[Issue] \in Result \cup {None}
  BY DEF OperatorInv, OneRun, OperatorTypes
<1> QED
  BY <1>1, <1>2, <1>3

(* A step that leaves the files alone and starts no child, and records at  *)
(* most what is there.                                                     *)
LEMMA FilesStay ==
  ASSUME OperatorInv, UNCHANGED files, ~InCommand("await", Ingest)'
  PROVE  OneRun'
BY DEF OperatorInv, OneRun, files

LEMMA BeginStep ==
  ASSUME OperatorInv, NEW k \in Attempted, Begin(k)
  PROVE  OperatorInv'
<1> DEFINE Input == IF k \in {Ingest, Appraise} THEN returned.completion ELSE None
<1>1. k \in 1 .. 7 /\ k \in Steps
  BY StepNumbers
<1>2. Input \in Completion \cup {None} /\ (k \in {Ingest, Appraise} => Input \in Completion)
  BY DEF Begin, ReturnedMatches, OperatorInv, OperatorTypes
<1>3. /\ cmd' = [pc |-> "work", step |-> k, input |-> Input]
      /\ cmd'.pc = "work" /\ cmd'.step = k /\ cmd'.input = Input
  BY DEF Begin
<1>4. stage = <<k - 1, "done">> /\ stage' = <<k, "busy">> /\ stage' \in Stage
  BY <1>1, StageIs DEF Begin
<1>5. /\ stage # None /\ stage[1] = k - 1 /\ stage' # None /\ stage'[1] = k
      /\ \A j \in Steps : Passed(j)' <=> Passed(j)
  <2>1. k - 1 \in 0 .. 7
    BY <1>1
  <2>2. /\ stage # None /\ stage[1] = k - 1
        /\ \A j \in Steps : Passed(j) <=> (j < k - 1 \/ j = k - 1)
    BY <1>4, <2>1, StageIs
  <2>3. /\ stage' # None /\ stage'[1] = k
        /\ \A j \in Steps : Passed(j)' <=> j < k
    BY <1>1, <1>4, StageIs
  <2> QED
    BY <1>1, <2>2, <2>3, StepNumbers
<1>6. OperatorTypes'
  BY <1>1, <1>2, <1>3, <1>4 DEF Begin, OperatorInv, OperatorTypes, files, children
<1>7. started[k] = 0
  BY <1>1, <1>5, StepNumbers DEF OperatorInv, Starts, OperatorTypes
<1>8. CommandEntered'
  BY <1>2, <1>3, <1>4, <1>7 DEF CommandEntered, Begin, children
<1>9. Starts'
  BY <1>1, <1>5, StepNumbers DEF OperatorInv, Starts, Begin, children
<1>10. Progress' /\ RecordKept'
  BY <1>5 DEF OperatorInv, Progress, RecordKept, Begin, files
<1>11. OneRun' /\ Produced' /\ Candidates'
  BY <1>3 DEF OperatorInv, OneRun, Produced, Candidates, InCommand, Begin, files, children
<1> QED
  BY <1>6, <1>8, <1>9, <1>10, <1>11 DEF OperatorInv

(* While a command runs, the steps before its own have records.            *)
LEMMA InStep ==
  ASSUME OperatorInv, cmd # NoCommand
  PROVE  /\ cmd.step \in Attempted /\ cmd.step \in Steps
         /\ stage = <<cmd.step, "busy">> /\ stage # None /\ stage[1] = cmd.step
         /\ \A j \in Steps : Passed(j) <=> j < cmd.step
         /\ \A j \in Steps : record[j] # None <=> j < cmd.step
         /\ cmd.step > Ingest => package # None
         /\ cmd.step = Review => file[Issue] \in Result
<1>1. cmd.step \in Attempted /\ stage = <<cmd.step, "busy">> /\ cmd.step \in 1 .. 7
  BY StepNumbers DEF OperatorInv, CommandEntered
<1>2. /\ stage # None /\ stage[1] = cmd.step
      /\ \A j \in Steps : Passed(j) <=> j < cmd.step
  BY <1>1, StageIs
<1>3. \A j \in Steps : record[j] # None <=> j < cmd.step
  BY <1>2 DEF OperatorInv, Progress
<1>4. cmd.step > Ingest => package # None
  BY <1>1, <1>3, RecordHasFile, StepNumbers
<1>5. cmd.step = Review => file[Issue] \in Result
  BY <1>3, RecordHasFile, StepNumbers
<1> QED
  BY <1>1, <1>2, <1>3, <1>4, <1>5, StepNumbers

(* A step that leaves stage, records and starts alone.                     *)
LEMMA StateStays ==
  ASSUME OperatorInv, UNCHANGED <<stage, record, started>>
  PROVE  Starts' /\ Progress'
BY DEF OperatorInv, Starts, Progress, Passed

(* The command goes on in its step; its child is started already.          *)
LEMMA CommandGoes ==
  ASSUME OperatorInv, cmd # NoCommand, UNCHANGED <<stage, started>>,
         NEW pc \in {"extracted", "await", "registry", "lean", "leave"}, Goto(pc),
         pc = "extracted" => cmd.pc = "work"
  PROVE  CommandEntered'
<1>1. cmd'.pc = pc /\ cmd'.step = cmd.step /\ cmd'.input = cmd.input
  BY GotoStep DEF OperatorInv
<1> QED
  BY <1>1 DEF OperatorInv, CommandEntered

LEMMA ExtractArchiveStep == ASSUME OperatorInv, ExtractArchive PROVE OperatorInv'
<1>1. cmd # NoCommand /\ cmd.pc = "work" /\ cmd.step = Ingest
  BY NotFree DEF ExtractArchive, InCommand
<1>2. cmd'.pc = "extracted" /\ cmd'.step = Ingest
  BY <1>1, GotoStep DEF OperatorInv, ExtractArchive
<1>3. package' \in Result /\ package = None
  BY DEF ExtractArchive
<1>4. OperatorTypes'
  BY <1>1, <1>3, GotoStep DEF ExtractArchive, OperatorInv, OperatorTypes, state, children
<1>5. CommandEntered' /\ Starts' /\ Progress'
  BY <1>1, CommandGoes, StateStays DEF ExtractArchive, state, children
<1>6. \A k \in {Ingest, Appraise, Issue} : file[k] = None
  BY <1>3 DEF OperatorInv, OneRun
<1>7. RecordKept' /\ OneRun' /\ Produced' /\ Candidates'
  BY <1>2, <1>3, <1>6, StepNumbers, Artifacts
     DEF ExtractArchive, OperatorInv, RecordKept, OneRun, Produced, Candidates, InCommand,
         state, children
<1> QED
  BY <1>4, <1>5, <1>7 DEF OperatorInv

LEMMA LaunchStep ==
  ASSUME OperatorInv, NEW k \in Attempted, Launch(k)
  PROVE  OperatorInv'
<1>1. /\ cmd # NoCommand /\ cmd.pc \in {"work", "extracted"} /\ cmd.step = k
      /\ k \in Steps /\ k \in 1 .. 7
  BY NotFree, StepNumbers DEF Launch, InCommand
<1>2. cmd'.pc = "await" /\ cmd'.step = k /\ cmd'.input = cmd.input
  BY <1>1, GotoStep DEF OperatorInv, Launch
<1>3. /\ started[k] = 0 /\ started \in [Steps -> Nat]
      /\ started' = [started EXCEPT ![k] = started[k] + 1]
  BY <1>1 DEF Launch, OperatorInv, CommandEntered, OperatorTypes
<1>4. started'[k] = 1 /\ started' \in [Steps -> Nat] /\ \A j \in Steps \ {k} : started'[j] = started[j]
  BY <1>1, <1>3
<1>5. /\ child' = [child EXCEPT ![k] = "running"] /\ child'[k] = "running"
      /\ child' \in [Steps -> {"none", "running", "installed"}]
      /\ \A j \in Steps \ {k} : child'[j] = child[j]
  BY <1>1 DEF Launch, OperatorInv, OperatorTypes
<1>6. OperatorTypes'
  BY <1>1, <1>4, <1>5, GotoStep DEF Launch, OperatorInv, OperatorTypes, state, files
<1>7. CommandEntered'
  BY <1>1, <1>2 DEF Launch, OperatorInv, CommandEntered, state
<1>8. Starts'
  <2>1. stage' # None /\ stage'[1] = k
    BY <1>1, InStep DEF Launch, state
  <2> QED
    BY <1>1, <1>4, <2>1, StepNumbers DEF Launch, OperatorInv, Starts, state
<1>9. Progress' /\ RecordKept'
  BY DEF Launch, OperatorInv, Progress, Passed, RecordKept, state, files
<1>10. OneRun'
  BY <1>2 DEF Launch, CheckedBundle, OperatorInv, OneRun, InCommand, files
<1>11. Produced'
  <2>1. k = Issue => package # None
    BY <1>1, InStep, StepNumbers
  <2> QED
    BY <1>2, <1>5, <2>1, StepNumbers DEF Launch, OperatorInv, Produced, files
<1>12. Candidates'
  BY <1>2 DEF Launch, OperatorInv, Candidates, InCommand, state, files
<1> QED
  BY <1>6, <1>7, <1>8, <1>9, <1>10, <1>11, <1>12 DEF OperatorInv

(* A file that was not there and of which there is no record yet.          *)
LEMMA FileWritten ==
  ASSUME OperatorInv, NEW k \in Steps, NEW a \in Artifact, file[k] = None,
         file' = [file EXCEPT ![k] = a], UNCHANGED <<record, registry, lean, package>>,
         k \in {Ingest, Appraise, Issue} => a = package
  PROVE  /\ file' \in [Steps -> Artifact \cup {None}] /\ file'[k] = a /\ a # None
         /\ \A j \in Steps \ {k} : file'[j] = file[j]
         /\ \A j \in Steps : file[j] # None => file'[j] = file[j]
         /\ RecordKept'
         /\ \A j \in {Ingest, Appraise, Issue} : file'[j] # None => file'[j] = package
         /\ registry # None => registry = file'[Issue]
         /\ lean # None => lean = file'[Issue]
<1>1. /\ file' \in [Steps -> Artifact \cup {None}] /\ file'[k] = a /\ a # None
      /\ \A j \in Steps \ {k} : file'[j] = file[j]
  BY Artifacts DEF OperatorInv, OperatorTypes
<1>2. \A j \in Steps : file[j] # None => file'[j] = file[j]
  BY <1>1
<1>3. RecordKept'
  BY <1>2, RecordHasFile DEF RecordKept
<1>4. \A j \in {Ingest, Appraise, Issue} : file'[j] # None => file'[j] = package
  BY <1>1, StepNumbers DEF OperatorInv, OneRun
<1>5. (registry # None => registry = file'[Issue]) /\ (lean # None => lean = file'[Issue])
  BY <1>2, StepNumbers DEF OperatorInv, Candidates
<1> QED
  BY <1>1, <1>2, <1>3, <1>4, <1>5

LEMMA ChildInstallsStep ==
  ASSUME OperatorInv, NEW k \in Installing, ChildInstalls(k)
  PROVE  OperatorInv'
<1> DEFINE a == IF k = Issue THEN package ELSE Made
<1>1. k \in Steps /\ file[k] = None /\ child[k] = "running" /\ k \in {Challenge, Issue}
  BY StepNumbers DEF ChildInstalls, Installing
<1>2. a \in Artifact /\ (k \in {Ingest, Appraise, Issue} => a = package)
  <2>1. k = Issue => package \in Result
    BY <1>1 DEF OperatorInv, Produced, OperatorTypes
  <2> QED
    BY <1>1, <2>1, Artifacts, StepNumbers
<1>3. file' = [file EXCEPT ![k] = a] /\ UNCHANGED <<stage, record, started, registry, lean, package, cmd>>
  BY DEF ChildInstalls, state
<1>4. /\ file' \in [Steps -> Artifact \cup {None}] /\ file'[k] = a /\ a # None
      /\ \A j \in Steps : file[j] # None => file'[j] = file[j]
      /\ RecordKept'
      /\ \A j \in {Ingest, Appraise, Issue} : file'[j] # None => file'[j] = package
      /\ registry # None => registry = file'[Issue]
      /\ lean # None => lean = file'[Issue]
  BY <1>1, <1>2, <1>3, FileWritten
<1>5. /\ child'[k] = "installed" /\ \A j \in Steps \ {k} : child'[j] = child[j]
      /\ child' \in [Steps -> {"none", "running", "installed"}]
  BY <1>1 DEF ChildInstalls, OperatorInv, OperatorTypes
<1>6. OperatorTypes'
  BY <1>3, <1>4, <1>5 DEF ChildInstalls, OperatorInv, OperatorTypes
<1>7. CommandEntered' /\ Starts' /\ Progress'
  BY <1>3, StateStays DEF OperatorInv, CommandEntered
<1>8. OneRun'
  BY <1>3, <1>4 DEF OperatorInv, OneRun, InCommand
<1>9. Produced'
  <2>1. \A j \in Installing : child'[j] = "installed" => file'[j] # None
    BY <1>4, <1>5, StepNumbers DEF OperatorInv, Produced
  <2>2. child'[Issue] # "none" => package' # None
    BY <1>1, <1>3, <1>5, StepNumbers DEF OperatorInv, Produced
  <2>3. cmd'.pc = "leave" /\ cmd'.step # Review => file'[cmd'.step] # None
    <3>1. SUFFICES ASSUME cmd.pc = "leave", cmd.step # Review PROVE file'[cmd.step] # None
      BY <1>3
    <3>2. cmd.step \in Steps
      BY <3>1, InStep DEF NoCommand
    <3> QED
      BY <1>4, <3>1, <3>2 DEF OperatorInv, Produced
  <2> QED
    BY <2>1, <2>2, <2>3 DEF Produced
<1>10. Candidates'
  BY <1>3, <1>4 DEF OperatorInv, Candidates, InCommand
<1> QED
  BY <1>4, <1>6, <1>7, <1>8, <1>9, <1>10 DEF OperatorInv

(* Ends of children never install anything.                                *)
LEMMA ChildGone ==
  ASSUME OperatorInv, NEW k \in Steps, child' = [child EXCEPT ![k] = "none"]
  PROVE  /\ child' \in [Steps -> {"none", "running", "installed"}]
         /\ \A j \in Steps : child'[j] # "none" => child'[j] = child[j]
BY DEF OperatorInv, OperatorTypes

LEMMA ChildEndsStep ==
  ASSUME OperatorInv, NEW k \in Attempted, ChildEnds(k)
  PROVE  OperatorInv'
<1>0. k \in Steps
  BY DEF Attempted
<1>1. /\ child' \in [Steps -> {"none", "running", "installed"}]
      /\ \A j \in Steps : child'[j] # "none" => child'[j] = child[j]
  BY <1>0, ChildGone DEF ChildEnds
<1>2. OperatorTypes'
  BY <1>1 DEF ChildEnds, OperatorInv, OperatorTypes, state, files
<1>3. CommandEntered' /\ Starts' /\ Progress'
  BY StateStays DEF ChildEnds, OperatorInv, CommandEntered, state
<1>4. RecordKept' /\ OneRun' /\ Produced' /\ Candidates'
  BY <1>1, StepNumbers
     DEF ChildEnds, OperatorInv, RecordKept, OneRun, Produced, Candidates, InCommand,
         state, files
<1> QED
  BY <1>2, <1>3, <1>4 DEF OperatorInv

LEMMA AcceptStep ==
  ASSUME OperatorInv, NEW k \in Attempted, AcceptAnswer(k)
  PROVE  OperatorInv'
<1> DEFINE Writes == k \notin Installing \cup {Review}
           a == IF k = Deploy THEN Made ELSE cmd.input.result
           pc == IF k = Review THEN "registry" ELSE "leave"
<1>1. cmd # NoCommand /\ cmd.pc = "await" /\ cmd.step = k /\ k \in Steps
  BY NotFree, StepNumbers DEF AcceptAnswer, InCommand
<1>2. cmd'.pc = pc /\ cmd'.step = k
  BY <1>1, GotoStep DEF OperatorInv, AcceptAnswer
<1>3. /\ child' \in [Steps -> {"none", "running", "installed"}]
      /\ \A j \in Steps : child'[j] # "none" => child'[j] = child[j]
  BY <1>1, ChildGone DEF AcceptAnswer
<1>4. UNCHANGED <<stage, record, started, registry, lean, package, returned>>
  BY DEF AcceptAnswer, state
<1>5. /\ file' \in [Steps -> Artifact \cup {None}]
      /\ \A j \in Steps : file[j] # None => file'[j] = file[j]
      /\ k # Review => file'[k] # None
      /\ RecordKept'
      /\ \A j \in {Ingest, Appraise, Issue} : file'[j] # None => file'[j] = package
      /\ registry # None => registry = file'[Issue]
      /\ lean # None => lean = file'[Issue]
  <2>1. CASE Writes
    <3>1. k \in {Deploy, Ingest, Appraise}
      BY <2>1, StepNumbers
    <3>2. k \in {Ingest, Appraise} => cmd.input \in Completion /\ cmd.input.result = package
      BY <1>1 DEF AcceptAnswer, OperatorInv, CommandEntered, OneRun, InCommand
    <3>3. a \in Artifact /\ (k \in {Ingest, Appraise, Issue} => a = package)
      BY <3>1, <3>2, Artifacts, StepNumbers
    <3>4. file[k] = None /\ file' = [file EXCEPT ![k] = a]
      BY <2>1 DEF AcceptAnswer
    <3> QED
      BY <1>1, <1>4, <3>3, <3>4, FileWritten
  <2>2. CASE ~Writes
    <3>1. file' = file
      BY <2>2 DEF AcceptAnswer
    <3>2. k # Review => file[k] # None
      BY <2>2 DEF AcceptAnswer, OperatorInv, Produced
    <3> QED
      BY <1>4, <3>1, <3>2 DEF OperatorInv, OperatorTypes, RecordKept, OneRun, Candidates
  <2> QED
    BY <2>1, <2>2
<1>6. OperatorTypes'
  BY <1>1, <1>3, <1>4, <1>5, GotoStep DEF AcceptAnswer, OperatorInv, OperatorTypes
<1>7. CommandEntered' /\ Starts' /\ Progress'
  BY <1>1, <1>4, CommandGoes, StateStays DEF AcceptAnswer
<1>8. OneRun'
  BY <1>2, <1>4, <1>5 DEF OneRun, InCommand
<1>9. Produced'
  BY <1>2, <1>3, <1>4, <1>5, StepNumbers DEF OperatorInv, Produced
<1>10. Candidates'
  BY <1>2, <1>4, <1>5, StepNumbers DEF OperatorInv, Candidates, InCommand
<1> QED
  BY <1>5, <1>6, <1>7, <1>8, <1>9, <1>10 DEF OperatorInv

LEMMA InstallRegistryStep == ASSUME OperatorInv, InstallRegistry PROVE OperatorInv'
<1>1. cmd # NoCommand /\ cmd.pc = "registry" /\ cmd.step = Review
  BY NotFree DEF InstallRegistry, InCommand
<1>2. cmd'.pc = "lean" /\ cmd'.step = Review
  BY <1>1, GotoStep DEF OperatorInv, InstallRegistry
<1>3. registry' = file[Issue] /\ registry' \in Result /\ registry' # None
  BY <1>1, InStep, Artifacts DEF InstallRegistry
<1>4. OperatorTypes'
  BY <1>1, <1>3, GotoStep DEF InstallRegistry, OperatorInv, OperatorTypes, state, children
<1>5. CommandEntered' /\ Starts' /\ Progress'
  BY <1>1, CommandGoes, StateStays DEF InstallRegistry, state, children
<1>6. RecordKept' /\ OneRun' /\ Produced'
  BY <1>2 DEF InstallRegistry, OperatorInv, RecordKept, OneRun, Produced, InCommand, state, children
<1>7. Candidates'
  BY <1>2, <1>3 DEF InstallRegistry, OperatorInv, Candidates, InCommand, state
<1> QED
  BY <1>4, <1>5, <1>6, <1>7 DEF OperatorInv

LEMMA InstallLeanStep == ASSUME OperatorInv, InstallLean PROVE OperatorInv'
<1>1. cmd # NoCommand /\ cmd.pc = "lean" /\ cmd.step = Review
  BY NotFree DEF InstallLean, InCommand
<1>2. cmd'.pc = "leave" /\ cmd'.step = Review
  BY <1>1, GotoStep DEF OperatorInv, InstallLean
<1>3. lean' = file[Issue] /\ lean' \in Result /\ lean' # None /\ registry # None
  BY <1>1, InStep, Artifacts DEF InstallLean, OperatorInv, Candidates
<1>4. OperatorTypes'
  BY <1>1, <1>3, GotoStep DEF InstallLean, OperatorInv, OperatorTypes, state, children
<1>5. CommandEntered' /\ Starts' /\ Progress'
  BY <1>1, CommandGoes, StateStays DEF InstallLean, state, children
<1>6. RecordKept' /\ OneRun' /\ Produced'
  BY <1>2 DEF InstallLean, OperatorInv, RecordKept, OneRun, Produced, InCommand, state, children
<1>7. Candidates'
  BY <1>2, <1>3 DEF InstallLean, OperatorInv, Candidates, InCommand, state
<1> QED
  BY <1>4, <1>5, <1>6, <1>7 DEF OperatorInv

(* Step k ends with a record of its artifact, which nothing had recorded.  *)
LEMMA RecordStep ==
  ASSUME OperatorInv, NEW k \in Steps, stage # None, stage[1] \in {k, k - 1},
         stage[1] = k - 1 => stage = <<k - 1, "done">> /\ k \notin Attempted,
         stage[1] = k => stage[2] # "done", stage' = <<k, "done">>, cmd' = NoCommand,
         record' = [record EXCEPT ![k] = IF k = Review THEN <<registry, lean>> ELSE file[k]],
         k # Review => file[k] # None,
         k = Review => registry # None /\ lean # None,
         UNCHANGED <<files, returned, children>>
  PROVE  /\ OperatorInv' /\ record[k] = None /\ record'[k] # None
         /\ record'[k] \in Artifact \cup Pair
         /\ \A j \in Steps : j < k => record[j] # None
         /\ \A j \in Steps \ {k} : record'[j] = record[j]
<1>1. k \in 1 .. 7 /\ stage' \in Stage /\ stage' # None /\ stage'[1] = k
      /\ \A j \in Steps : Passed(j)' <=> j <= k
  <2>1. k \in 1 .. 7
    BY StepNumbers
  <2> QED
    BY <2>1, StageIs, StepNumbers
<1>2. \A j \in Steps : Passed(j) <=> j < k
  <2>1. /\ stage[1] \in 0 .. 7 /\ stage[2] \in {"busy", "failed", "done"}
        /\ stage = <<stage[1], stage[2]>> /\ (stage[1] = 0 => stage[2] = "done")
    BY StageTyped DEF OperatorInv
  <2>2. \A j \in Steps : Passed(j) <=> (j < stage[1] \/ (j = stage[1] /\ stage[2] = "done"))
    BY <2>1, StageIs
  <2>3. CASE stage[1] = k - 1
    <3>1. stage = <<k - 1, "done">> /\ stage[2] = "done"
      BY <2>3
    <3> QED
      BY <1>1, <2>2, <2>3, <3>1, StepNumbers
  <2>4. CASE stage[1] = k
    BY <1>1, <2>2, <2>4, StepNumbers
  <2> QED
    BY <2>3, <2>4
<1>3. record'[k] \in Artifact \cup Pair /\ record'[k] # None
  <2>1. CASE k = Review
    <3>1. registry \in Result /\ lean \in Result
      BY <2>1 DEF OperatorInv, OperatorTypes
    <3>2. <<registry, lean>> \in Pair
      BY <3>1 DEF Pair
    <3>3. record'[k] = <<registry, lean>>
      BY <2>1 DEF OperatorInv, OperatorTypes
    <3> QED
      BY <3>2, <3>3, Artifacts
  <2>2. CASE k # Review
    <3>1. record'[k] = file[k] /\ file[k] \in Artifact
      BY <2>2 DEF OperatorInv, OperatorTypes
    <3> QED
      BY <3>1, Artifacts
  <2> QED
    BY <2>1, <2>2
<1>4. \A j \in Steps \ {k} : record'[j] = record[j]
  BY DEF OperatorInv, OperatorTypes
<1>5. record[k] = None /\ \A j \in Steps : j < k => record[j] # None
  BY <1>1, <1>2 DEF OperatorInv, Progress
<1>6. OperatorTypes'
  <2>1. record' \in [Steps -> Artifact \cup Pair \cup {None}]
    BY <1>3, <1>4 DEF OperatorInv, OperatorTypes
  <2> QED
    BY <1>1, <2>1, NoCommandSays DEF OperatorInv, OperatorTypes, files, children
<1>7. CommandEntered' /\ cmd'.pc = "idle" /\ \A pc, j : pc # "idle" => ~InCommand(pc, j)'
  BY NoCommandSays
<1>8. Starts'
  BY <1>1, StageTyped, StepNumbers DEF OperatorInv, Starts, children
<1>9. Progress'
  BY <1>1, <1>2, <1>3, <1>4 DEF OperatorInv, Progress
<1>10. RecordKept' /\ OneRun' /\ Produced'
  BY <1>4, <1>7 DEF OperatorInv, OperatorTypes, RecordKept, OneRun, Produced, files, children
<1>11. Candidates'
  <2>1. record'[Review] # None => record'[Review] = <<registry, lean>> /\ registry # None /\ lean # None
    BY <1>4, StepNumbers DEF OperatorInv, OperatorTypes, Candidates
  <2> QED
    BY <1>7, <2>1 DEF OperatorInv, Candidates, files
<1> QED
  BY <1>3, <1>4, <1>5, <1>6, <1>7, <1>8, <1>9, <1>10, <1>11 DEF OperatorInv

(* The artifact of a step that a command or a person records.              *)
LEMMA CompleteStep ==
  ASSUME OperatorInv, NEW k \in Attempted, Complete(k)
  PROVE  /\ OperatorInv' /\ record[k] = None /\ record'[k] # None
         /\ record'[k] \in Artifact \cup Pair
         /\ \A j \in Steps : j < k => record[j] # None
         /\ \A j \in Steps \ {k} : record'[j] = record[j]
<1>1. cmd # NoCommand /\ cmd.pc = "leave" /\ cmd.step = k /\ InCommand("leave", k)
  BY NotFree DEF Complete, InCommand
<1>2. stage = <<k, "busy">> /\ stage # None /\ stage[1] = k /\ stage[2] # "done" /\ k \in Steps
  BY <1>1, InStep
<1>3. k # Review => file[k] # None
  BY <1>1 DEF OperatorInv, Produced
<1>4. k = Review => registry # None /\ lean # None
  BY <1>1 DEF OperatorInv, Candidates
<1>5. stage[1] # k - 1
  BY <1>2, StepNumbers
<1>6. /\ stage' = <<k, "done">> /\ cmd' = NoCommand /\ UNCHANGED <<files, returned, children>>
      /\ record' = [record EXCEPT ![k] = IF k = Review THEN <<registry, lean>> ELSE file[k]]
  BY DEF Complete
<1> QED
  BY <1>2, <1>3, <1>4, <1>5, <1>6, RecordStep

LEMMA ReconcileStep ==
  ASSUME OperatorInv, NEW k \in Reconcilable, Reconcile(k)
  PROVE  /\ OperatorInv' /\ record[k] = None /\ record'[k] # None
         /\ record'[k] \in Artifact \cup Pair
         /\ \A j \in Steps : j < k => record[j] # None
         /\ \A j \in Steps \ {k} : record'[j] = record[j]
<1>1. k \in Steps /\ k \in 1 .. 7 /\ k # Review
  BY StepNumbers
<1>2. stage = <<k, "failed">> /\ stage # None /\ stage[1] = k /\ stage[2] # "done"
  BY <1>1, StageIs DEF Reconcile
<1>3. stage[1] # k - 1
  BY <1>1, <1>2
<1>4. /\ stage' = <<k, "done">> /\ cmd' = NoCommand /\ UNCHANGED <<files, returned, children>>
      /\ record' = [record EXCEPT ![k] = IF k = Review THEN <<registry, lean>> ELSE file[k]]
      /\ file[k] # None
  BY <1>1 DEF Reconcile, Free
<1> QED
  BY <1>1, <1>2, <1>3, <1>4, RecordStep

LEMMA AcknowledgeStep ==
  ASSUME OperatorInv, AcknowledgeWorkerStage
  PROVE  /\ OperatorInv' /\ record[Handoff] = None /\ record'[Handoff] # None
         /\ record'[Handoff] \in Artifact \cup Pair
         /\ \A j \in Steps : j < Handoff => record[j] # None
         /\ \A j \in Steps \ {Handoff} : record'[j] = record[j]
<1>1. Handoff \in Steps /\ Handoff # Review /\ Handoff \notin Attempted /\ Challenge = Handoff - 1
  BY StepNumbers
<1>2. stage = <<Handoff - 1, "done">> /\ stage # None /\ stage[1] = Handoff - 1
  BY <1>1, StageIs, StepNumbers DEF AcknowledgeWorkerStage
<1>3. stage[1] # Handoff
  BY <1>2, StepNumbers
<1>4. /\ stage' = <<Handoff, "done">> /\ cmd' = NoCommand /\ UNCHANGED <<files, returned, children>>
      /\ record' = [record EXCEPT ![Handoff] =
                      IF Handoff = Review THEN <<registry, lean>> ELSE file[Handoff]]
      /\ file[Handoff] # None
  BY <1>1 DEF AcknowledgeWorkerStage, Free
<1> QED
  BY <1>1, <1>2, <1>3, <1>4, RecordStep

(* A command ends without a record; the stage may turn to failed.          *)
LEMMA AbandonStep ==
  ASSUME OperatorInv, cmd # NoCommand, cmd' = NoCommand,
         stage' = <<cmd.step, "failed">> \/ UNCHANGED stage,
         child' = child \/ child' = [child EXCEPT ![cmd.step] = "none"],
         UNCHANGED <<record, files, returned, started>>
  PROVE  /\ OperatorInv' /\ stage = <<cmd.step, "busy">> /\ cmd.step \in Attempted
         /\ stage' \in {<<cmd.step, "busy">>, <<cmd.step, "failed">>}
<1>1. /\ cmd.step \in Attempted /\ cmd.step \in Steps /\ stage = <<cmd.step, "busy">>
      /\ stage # None /\ stage[1] = cmd.step /\ cmd.step \in 1 .. 7
      /\ \A j \in Steps : Passed(j) <=> j < cmd.step
  BY InStep, StepNumbers
<1>2. /\ stage' \in Stage /\ stage' # None /\ stage'[1] = cmd.step
      /\ \A j \in Steps : Passed(j)' <=> j < cmd.step
  BY <1>1, StageIs
<1>3. /\ child' \in [Steps -> {"none", "running", "installed"}]
      /\ \A j \in Steps : child'[j] # "none" => child'[j] = child[j]
  BY <1>1, ChildGone DEF OperatorInv, OperatorTypes
<1>4. CommandEntered' /\ cmd'.pc = "idle" /\ \A pc, j : pc # "idle" => ~InCommand(pc, j)'
  BY NoCommandSays
<1>5. OperatorTypes'
  BY <1>2, <1>3, NoCommandSays DEF OperatorInv, OperatorTypes, files
<1>6. Starts' /\ Progress'
  BY <1>1, <1>2 DEF OperatorInv, Starts, Progress
<1>7. RecordKept' /\ OneRun' /\ Produced' /\ Candidates'
  BY <1>3, <1>4, StepNumbers
     DEF OperatorInv, RecordKept, OneRun, Produced, Candidates, files
<1> QED
  BY <1>1, <1>4, <1>5, <1>6, <1>7 DEF OperatorInv

(* A person or a command without a child writes a file that is not there.  *)
LEMMA WriteMadeStep ==
  ASSUME OperatorInv, NEW k \in {Deploy, Handoff}, file[k] = None,
         file' = [file EXCEPT ![k] = Made],
         UNCHANGED <<state, registry, lean, package, returned, children, cmd>>
  PROVE  OperatorInv'
<1>1. k \in Steps /\ k \notin {Ingest, Appraise, Issue} /\ Made \in Artifact
  BY Artifacts, StepNumbers
<1>2. UNCHANGED <<stage, record, child, started>>
  BY DEF state, children
<1>3. /\ file' \in [Steps -> Artifact \cup {None}]
      /\ \A j \in Steps : file[j] # None => file'[j] = file[j]
      /\ RecordKept'
      /\ \A j \in {Ingest, Appraise, Issue} : file'[j] # None => file'[j] = package
      /\ registry # None => registry = file'[Issue]
      /\ lean # None => lean = file'[Issue]
  BY <1>1, <1>2, FileWritten
<1>4. OperatorTypes'
  BY <1>2, <1>3 DEF OperatorInv, OperatorTypes
<1>5. CommandEntered' /\ Starts' /\ Progress'
  BY <1>2, StateStays DEF OperatorInv, CommandEntered
<1>6. Produced'
  <2>1. cmd.pc = "leave" => cmd.step \in Steps
    BY InStep DEF NoCommand
  <2> QED
    BY <1>2, <1>3, <2>1, StepNumbers DEF OperatorInv, Produced
<1>7. OneRun' /\ Candidates'
  BY <1>2, <1>3 DEF OperatorInv, OneRun, Candidates, InCommand
<1> QED
  BY <1>3, <1>4, <1>5, <1>6, <1>7 DEF OperatorInv

(* Files come back from the machine.                                       *)
LEMMA ReturnStep ==
  ASSUME OperatorInv, UNCHANGED <<state, files, children, cmd>>,
         returned' \in [archive : Result \cup {Torn, None}, completion : Completion \cup {None}]
  PROVE  OperatorInv'
<1>1. CommandEntered' /\ Starts' /\ Progress'
  BY StateStays DEF OperatorInv, CommandEntered, state, children
<1> QED
  BY <1>1
     DEF OperatorInv, OperatorTypes, RecordKept, OneRun, Produced, Candidates, InCommand,
         state, files, children

LEMMA OperatorQuiet == ASSUME OperatorInv, UNCHANGED operator PROVE OperatorInv'
<1>1. UNCHANGED <<state, files, children, cmd, returned>>
  BY DEF operator
<1> QED
  BY <1>1, ReturnStep DEF OperatorInv, OperatorTypes

-----------------------------------------------------------------------------
(* Every step of the composition                                           *)

IInv == GuestInv /\ OperatorInv

LEMMA ErrorStep ==
  ASSUME OperatorInv, RaiseError \/ Kill
  PROVE  /\ OperatorInv' /\ stage = <<cmd.step, "busy">> /\ cmd.step \in Attempted
         /\ stage' \in {<<cmd.step, "busy">>, <<cmd.step, "failed">>}
<1>1. CASE RaiseError
  BY <1>1, AbandonStep DEF RaiseError, Free
<1>2. CASE Kill
  BY <1>2, AbandonStep DEF Kill, Free, state, children
<1> QED
  BY <1>1, <1>2

LEMMA ProgramStep == ASSUME OperatorInv, Program PROVE OperatorInv'
BY ExtractArchiveStep, InstallRegistryStep, InstallLeanStep, ErrorStep, LaunchStep,
   AcceptStep, CompleteStep DEF Program

LEMMA OperatorStep == ASSUME IInv, OperatorNext PROVE OperatorInv'
<1>1. OperatorInv /\ WorkerTypeOK
  BY DEF IInv, GuestInv
<1>2. ASSUME NEW k \in Attempted, Begin(k) \/ ChildEnds(k) PROVE OperatorInv'
  BY <1>1, <1>2, BeginStep, ChildEndsStep
<1>3. ASSUME NEW k \in Installing, ChildInstalls(k) PROVE OperatorInv'
  BY <1>1, <1>3, ChildInstallsStep
<1>4. ASSUME NEW k \in Reconcilable, Reconcile(k) PROVE OperatorInv'
  BY <1>1, <1>4, ReconcileStep
<1>5. CASE RecordWorkerStageHandoff
  BY <1>1, <1>5, WriteMadeStep DEF RecordWorkerStageHandoff
<1>6. CASE InspectDeployment
  BY <1>1, <1>6, WriteMadeStep DEF InspectDeployment
<1>7. CASE ReturnArchive \/ ReturnCompletion
  <2>1. returned' \in [archive : Result \cup {Torn, None}, completion : Completion \cup {None}]
    BY <1>1, <1>7 DEF ReturnArchive, ReturnCompletion, WorkerTypeOK, OperatorInv, OperatorTypes
  <2> QED
    BY <1>1, <1>7, <2>1, ReturnStep DEF ReturnArchive, ReturnCompletion
<1> QED
  BY <1>1, <1>2, <1>3, <1>4, <1>5, <1>6, <1>7, InitializeStep, ProgramStep, ErrorStep,
     AcknowledgeStep DEF OperatorNext

LEMMA Step == IInv /\ [Next]_vars => IInv'
<1> SUFFICES ASSUME IInv, [Next]_vars PROVE IInv'
  OBVIOUS
<1>1. CASE OperatorNext /\ UNCHANGED <<expired, guest>>
  BY <1>1, OperatorStep, GuestStep DEF IInv
<1>2. CASE GuestNext /\ UNCHANGED operator
  BY <1>2, OperatorQuiet, GuestStep DEF IInv, GuestNext
<1>3. CASE UNCHANGED vars
  BY <1>3, OperatorQuiet, GuestStep DEF IInv, vars
<1> QED
  BY <1>1, <1>2, <1>3 DEF Next

LEMMA Inductive == Spec => []IInv
<1>1. Init => IInv
  BY GuestInit, OperatorInit DEF Init, IInv
<1> QED
  BY <1>1, Step, PTL DEF Spec

-----------------------------------------------------------------------------
(* Operator, guest and the files between them stay well-formed, whatever    *)
(* worker-run-local and the commands of main do or are killed at.           *)
THEOREM TypeCorrect == Spec => []TypeOK
<1>1. IInv => TypeOK
  BY DEF IInv, GuestInv, OperatorInv, OperatorTypes, TypeOK
<1> QED
  BY <1>1, Inductive, PTL

(* A command that finds an in_progress or failed stage does not start the   *)
(* child of that step again: one start each, in the life of a campaign.     *)
THEOREM SideEffectsOnce == Spec => []NoBlindRetry
<1>1. IInv => NoBlindRetry
  BY DEF IInv, OperatorInv, Starts, NoBlindRetry
<1> QED
  BY <1>1, Inductive, PTL

(* What ingest, appraisal and receipt record is of one run, though archive  *)
(* and completion may be returned again between any two of them.            *)
THEOREM OneResult == Spec => []ResultsAgree
<1>1. ASSUME IInv PROVE ResultsAgree
  <2>1. \A k \in {Ingest, Appraise, Issue} : record[k] # None => record[k] = package
    BY <1>1, RecordHasFile, StepNumbers DEF IInv, OperatorInv, OneRun
  <2> QED
    BY <2>1 DEF ResultsAgree
<1> QED
  BY <1>1, Inductive, PTL

(* A recorded review pair is two candidates of the recorded receipt, both   *)
(* installed, though they are renamed into place one after the other.       *)
THEOREM PairsWhole == Spec => []ReviewPairWhole
<1>1. ASSUME IInv PROVE ReviewPairWhole
  <2> SUFFICES ASSUME record[Review] # None
               PROVE  record[Review] = <<registry, lean>> /\ registry = record[Issue]
                      /\ lean = record[Issue]
    BY DEF ReviewPairWhole
  <2>1. /\ record[Review] = <<registry, lean>> /\ registry = file[Issue] /\ lean = file[Issue]
        /\ OperatorInv
    BY <1>1 DEF IInv, OperatorInv, Candidates
  <2>2. Passed(Review)
    BY <2>1, StepNumbers DEF OperatorInv, Progress
  <2>3. Passed(Issue)
    BY <2>1, <2>2, StageTyped, StepNumbers DEF OperatorInv, Passed
  <2>4. record[Issue] = file[Issue]
    BY <2>1, <2>3, StepNumbers DEF OperatorInv, Progress, RecordKept
  <2> QED
    BY <2>1, <2>4
<1> QED
  BY <1>1, Inductive, PTL

(* The completion that worker-run-local writes names the archive beside it, *)
(* the evidence in it and the one run, whichever calls raced or were killed.*)
THEOREM CompletionsConsistent == Spec => []EvidenceConsistent
<1>1. IInv => EvidenceConsistent
  BY DEF IInv, GuestInv
<1> QED
  BY <1>1, Inductive, PTL

-----------------------------------------------------------------------------
(* One call of worker-run-local at a time.                                 *)
RootInv == \A c \in Call : ~InCall(c, "idle") => root

LEMMA RootStep ==
  ASSUME \A c, d \in Call : c = d, GuestInv, RootInv, [WorkerNext]_<<expired, guest>>
  PROVE  RootInv'
<1>1. ASSUME NEW c \in Call, ExtractPackage(c) PROVE RootInv'
  <2>1. CASE root
    <3>1. \A d \in Call : d = c
      OBVIOUS
    <3> QED
      BY <1>1, <2>1, <3>1 DEF ExtractPackage, InCall, RootInv
  <2>2. CASE ~root
    BY <1>1, <2>2 DEF ExtractPackage, RootInv
  <2> QED
    BY <2>1, <2>2
<1>2. ASSUME NEW c \in Call, WorkerCall(c) \/ KillCall(c) PROVE RootInv'
  <2>1. ~InCall(c, "idle") /\ UNCHANGED root
    BY <1>2 DEF WorkerCall, KillCall, CheckStaged, RunMeasured, CollectEvidence, OpenArchive,
                FillArchive, WriteCompletion, EndCall, InCall, disk
  <2> QED
    BY <2>1 DEF RootInv
<1>3. CASE Rebuild
  BY <1>3 DEF Rebuild, RootInv, InCall, Idle
<1>4. CASE StageInputs \/ Expire \/ UNCHANGED <<expired, guest>>
  BY <1>4 DEF StageInputs, Expire, guest, disk, RootInv, InCall
<1> QED
  BY <1>1, <1>2, <1>3, <1>4 DEF WorkerNext

(* "the orchestrator refuses a pre-existing worker.artifact_root" as far as *)
(* the code keeps it: where one call of worker-run-local runs at a time, no *)
(* call loses the tree its job runs from, though a failed or killed call    *)
(* leaves a tree behind for the next one to find.  What the child that      *)
(* outlives a killed call still reads of the tree is not a matter of        *)
(* RootStays.                                                               *)
THEOREM OneCallKeepsRoot ==
  ASSUME \A c, d \in Call : c = d
  PROVE  WorkerSpec => []RootStays
<1>1. WorkerInit => GuestInv /\ RootInv
  BY GuestInit DEF WorkerInit, RootInv, InCall, Idle
<1>2. GuestInv /\ RootInv /\ [WorkerNext]_<<expired, guest>> => (GuestInv /\ RootInv)'
  BY GuestStep, RootStep
<1>3. RootInv => RootStays
  BY DEF RootInv, RootStays, InCall
<1> QED
  BY <1>1, <1>2, <1>3, PTL DEF WorkerSpec

-----------------------------------------------------------------------------
(* The refinement of OrderedSteps.                                         *)
AttemptedNow ==
    {k \in Attempted : record[k] # None \/ stage \in {k} \X {"busy", "failed"}}

(* A step that leaves the records and stays within the attempt.            *)
LEMMA SameAttempt ==
  ASSUME NEW k \in Steps, UNCHANGED record,
         stage = <<k, "busy">>, stage' \in {<<k, "busy">>, <<k, "failed">>}
  PROVE  AttemptedNow' = AttemptedNow
BY DEF AttemptedNow

LEMMA AttemptSimulated ==
  ASSUME OperatorInv, NEW k \in Attempted, Begin(k)
  PROVE  Ordered!Attempt(k)
<1>1. k \in Steps /\ k \in 1 .. 7 /\ k - 1 \in 0 .. 7
  BY StepNumbers
<1>2. stage = <<k - 1, "done">> /\ stage' = <<k, "busy">> /\ record' = record
  BY DEF Begin
<1>3. \A j \in Steps : record[j] # None <=> (j < k - 1 \/ j = k - 1)
  BY <1>1, <1>2, StageIs DEF OperatorInv, Progress
<1>4. record[k] = None /\ \A j \in Steps : j < k => record[j] # None
  BY <1>1, <1>3, StepNumbers
<1>5. \A j \in Attempted :
        /\ ~(stage \in {j} \X {"busy", "failed"})
        /\ stage' \in {j} \X {"busy", "failed"} <=> j = k
  BY <1>2
<1>6. k \notin AttemptedNow /\ AttemptedNow' = AttemptedNow \cup {k}
  BY <1>2, <1>4, <1>5 DEF AttemptedNow
<1> QED
  BY <1>2, <1>4, <1>6 DEF Ordered!Attempt, Ordered!Reached, AttemptedNow

(* A step of the campaign that records an artifact.                        *)
LEMMA AdoptSimulated ==
  ASSUME OperatorInv, NEW k \in Steps, record[k] = None, record'[k] # None,
         record' = [record EXCEPT ![k] = record'[k]],
         record'[k] \in Artifact \cup Pair, \A j \in Steps : j < k => record[j] # None,
         stage' = <<k, "done">>,
         \/ k \in Attempted /\ stage \in {<<k, "busy">>, <<k, "failed">>}
         \/ k = Handoff /\ stage = <<k - 1, "done">>
  PROVE  Ordered!Next
<1>1. \A j \in Steps \ {k} : record'[j] = record[j]
  BY DEF OperatorInv, OperatorTypes
<1>2. k \in AttemptedNow \cup {Handoff}
  BY DEF AttemptedNow
<1>3. AttemptedNow' = AttemptedNow
  <2>1. \A j \in Attempted \ {k} :
          record'[j] = record[j] /\ ~(stage \in {j} \X {"busy", "failed"})
            /\ ~(stage' \in {j} \X {"busy", "failed"})
    BY <1>1 DEF Attempted
  <2>2. k \in Attempted => k \in AttemptedNow /\ k \in AttemptedNow'
    BY DEF AttemptedNow, Attempted
  <2> QED
    BY <2>1, <2>2 DEF AttemptedNow
<1>4. Ordered!Adopt(k, record'[k])
  BY <1>2, <1>3 DEF Ordered!Adopt, Ordered!Reached, AttemptedNow
<1> QED
  BY <1>4 DEF Ordered!Next

(* Steps are taken in order, the side effect of each is attempted once and  *)
(* an artifact once recorded stays: what the state file says of a campaign  *)
(* are ordered steps, whatever is killed, fails or is reconciled.           *)
THEOREM Refinement == Spec => OrderedSpec
<1>1. ASSUME Init PROVE Ordered!Init
  <2>1. stage = None /\ record = [k \in Steps |-> None]
    BY <1>1 DEF Init
  <2>2. \A k \in Attempted : None \notin {k} \X {"busy", "failed"}
    BY MadeAssumption DEF Attempted, Stage
  <2> QED
    BY <2>1, <2>2 DEF Ordered!Init, Attempted
<1>2. ASSUME IInv, [Next]_vars
      PROVE  [Ordered!Next]_<<AttemptedNow, record>>
  <2>1. OperatorInv
    BY <1>2 DEF IInv
  <2>2. CASE UNCHANGED state
    BY <2>2 DEF AttemptedNow, state
  <2>3. CASE InitializeState
    <3>1. \A k \in Attempted :
            ~(stage \in {k} \X {"busy", "failed"}) /\ ~(stage' \in {k} \X {"busy", "failed"})
      BY <2>3, MadeAssumption, StepNumbers DEF InitializeState, Stage
    <3> QED
      BY <2>3, <3>1 DEF InitializeState, AttemptedNow
  <2>4. ASSUME NEW k \in Attempted, Begin(k) PROVE Ordered!Next
    BY <2>1, <2>4, AttemptSimulated DEF Ordered!Next, Attempted
  <2>5. CASE RaiseError \/ Kill
    <3>1. record' = record
      BY <2>5 DEF RaiseError, Kill, state
    <3> QED
      BY <2>1, <2>5, <3>1, ErrorStep, SameAttempt DEF Attempted
  <2>6. ASSUME NEW k \in Attempted, Complete(k) PROVE Ordered!Next
    <3>1. stage = <<k, "busy">> /\ stage' = <<k, "done">>
      BY <2>1, <2>6, InStep, NotFree DEF Complete, InCommand
    <3>2. k \in Steps /\ record' = [record EXCEPT ![k] = record'[k]]
      BY <2>1, <2>6 DEF Complete, OperatorInv, OperatorTypes, Attempted
    <3> QED
      BY <2>1, <2>6, <3>1, <3>2, CompleteStep, AdoptSimulated
  <2>7. ASSUME NEW k \in Reconcilable, Reconcile(k) PROVE Ordered!Next
    <3>1. stage = <<k, "failed">> /\ stage' = <<k, "done">> /\ k \in Attempted
      BY <2>7, StepNumbers DEF Reconcile
    <3>2. k \in Steps /\ record' = [record EXCEPT ![k] = record'[k]]
      BY <2>1, <2>7, <3>1 DEF Reconcile, OperatorInv, OperatorTypes, Attempted
    <3> QED
      BY <2>1, <2>7, <3>1, <3>2, ReconcileStep, AdoptSimulated
  <2>8. ASSUME AcknowledgeWorkerStage PROVE Ordered!Next
    <3>1. stage = <<Handoff - 1, "done">> /\ stage' = <<Handoff, "done">> /\ Handoff \in Steps
      BY <2>8, StepNumbers DEF AcknowledgeWorkerStage
    <3>2. record' = [record EXCEPT ![Handoff] = record'[Handoff]]
      BY <2>1, <2>8, <3>1 DEF AcknowledgeWorkerStage, OperatorInv, OperatorTypes
    <3> QED
      BY <2>1, <2>8, <3>1, <3>2, AcknowledgeStep, AdoptSimulated
  <2>9. ASSUME Next
        PROVE  \/ UNCHANGED state \/ InitializeState \/ RaiseError \/ Kill
               \/ \E k \in Attempted : Begin(k) \/ Complete(k)
               \/ \E k \in Reconcilable : Reconcile(k)
               \/ AcknowledgeWorkerStage
    <3>1. CASE GuestNext /\ UNCHANGED operator
      BY <3>1 DEF operator
    <3>2. ASSUME NEW k \in Attempted, Launch(k) \/ AcceptAnswer(k) \/ ChildEnds(k)
          PROVE  UNCHANGED state
      BY <3>2 DEF Launch, AcceptAnswer, ChildEnds
    <3>3. CASE \/ ExtractArchive \/ InstallRegistry \/ InstallLean
               \/ RecordWorkerStageHandoff \/ InspectDeployment
               \/ ReturnArchive \/ ReturnCompletion
      BY <3>3 DEF ExtractArchive, InstallRegistry, InstallLean, RecordWorkerStageHandoff,
                  InspectDeployment, ReturnArchive, ReturnCompletion
    <3>4. ASSUME NEW k \in Installing, ChildInstalls(k) PROVE UNCHANGED state
      BY <3>4 DEF ChildInstalls
    <3> QED
      BY <2>9, <3>1, <3>2, <3>3, <3>4 DEF Next, OperatorNext, Program
  <2> QED
    BY <1>2, <2>2, <2>3, <2>4, <2>5, <2>6, <2>7, <2>8, <2>9 DEF vars, operator
<1> QED
  BY <1>1, <1>2, Inductive, PTL DEF Spec, OrderedSpec, Ordered!Spec, AttemptedNow
===============================================================================
