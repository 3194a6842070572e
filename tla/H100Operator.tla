----------------------------- MODULE H100Operator -----------------------------
(***************************************************************************)
(* azure/h100_production_orchestrator.py: one campaign on one H100         *)
(* machine, from deployment to review candidates, together with the calls  *)
(* on the machine (H100Worker) and the people who carry files between the  *)
(* two.  The operator's state is one file that every transition replaces   *)
(* at once.  Its commands hold an exclusive lock, so one runs at a time; a *)
(* command may be killed between any two steps, and the child it started   *)
(* lives on.                                                               *)
(***************************************************************************)
EXTENDS H100Worker

CONSTANT Made   \* an artifact whose content does not matter here

\* The steps of a campaign, in order.
Deploy == 1
Challenge == 2
Handoff == 3
Ingest == 4
Appraise == 5
Issue == 6
Review == 7

Steps == Deploy .. Review
Attempted == Steps \ {Handoff}
Reconcilable == {Deploy, Challenge, Issue}

\* Steps whose child process writes the artifact itself.
Installing == {Challenge, Issue}

\* <<0, "done">> is "initialized", <<k, "busy">> the in_progress stage of step
\* k, <<k, "failed">> its failure stage.
Stage == {<<0, "done">>} \cup (Steps \X {"busy", "failed", "done"})

Artifact == Result \cup {Made}
Pair == Result \X Result

ASSUME MadeAssumption == Made \notin Result /\ None \notin {Made} \cup Pair \cup Stage

VARIABLES
    stage,      \* the stage in the state file, or None before the file exists
    record,     \* record[k]: the artifact the state file records for step k
    file,       \* file[k]: the artifact of step k, or None
    registry,   \* the receipt the registry candidate was made from, or None
    lean,       \* the receipt the Lean candidate was made from, or None
    package,    \* the run in the extracted certificate package, or None
    returned,   \* the two files that came back from the machine
    child,      \* child[k]: the child process of step k
    started,    \* started[k]: how often a child of step k was started
    cmd         \* the command holding the operator lock

state == <<stage, record>>
files == <<file, registry, lean, package>>
children == <<child, started>>
operator == <<state, files, returned, children, cmd>>
vars == <<operator, expired, guest>>

NoCommand == [pc |-> "idle", step |-> 0, input |-> None]

\* One type invariant for the operator, the machine and the files between.
TypeOK ==
    /\ WorkerTypeOK
    /\ stage \in Stage \cup {None}
    /\ record \in [Steps -> Artifact \cup Pair \cup {None}]
    /\ file \in [Steps -> Artifact \cup {None}]
    /\ {registry, lean, package} \subseteq Result \cup {None}
    /\ returned \in [archive : Result \cup {Torn, None}, completion : Completion \cup {None}]
    /\ child \in [Steps -> {"none", "running", "installed"}]
    /\ started \in [Steps -> Nat]
    /\ cmd \in [pc : {"idle", "work", "extracted", "await", "registry", "lean", "leave"},
                step : {0} \cup Steps, input : Completion \cup {None}]

Init ==
    /\ WorkerInit
    /\ stage = None
    /\ record = [k \in Steps |-> None]
    /\ file = [k \in Steps |-> None]
    /\ registry = None /\ lean = None /\ package = None
    /\ returned = [archive |-> None, completion |-> None]
    /\ child = [k \in Steps |-> "none"]
    /\ started = [k \in Steps |-> 0]
    /\ cmd = NoCommand

-----------------------------------------------------------------------------
Free == cmd = NoCommand

InCommand(pc, k) == cmd.pc = pc /\ cmd.step = k

Goto(pc) == cmd' = [cmd EXCEPT !.pc = pc]

\* _require_recorded_file: the file still has the digest of its transition.
Unchanged(k) == record[k] # None /\ file[k] = record[k]

\* The recorded files a command checks before it enters step k.
Required(k) ==
    CASE k = Deploy -> {}
      [] k = Challenge -> {Deploy}
      [] k = Ingest -> {Handoff, Challenge}
      [] k = Appraise -> {Handoff, Challenge, Ingest}
      [] k = Issue -> {Challenge, Appraise}
      [] k = Review -> {Issue}

\* _verify_returned_completion: the archive is the one the completion names.
ReturnedMatches ==
    /\ returned.completion # None
    /\ returned.archive = returned.completion.archive

\* _validate_challenge: the challenge is there and in its window.
LiveChallenge == file[Challenge] # None /\ ~expired

\* Mutant: an existing state file is written over.
InitializeStateAgain ==
    /\ Free
    /\ stage' = <<0, "done">>
    /\ record' = [k \in Steps |-> None]
    /\ UNCHANGED <<files, returned, children, cmd>>

InitializeState ==
    /\ Free
    /\ stage = None
    /\ stage' = <<0, "done">>
    /\ UNCHANGED <<record, files, returned, children, cmd>>

\* Mutant: the in_progress stage is not written.
BeginSilently(k) ==
    /\ Free
    /\ stage = <<k - 1, "done">>
    /\ \A j \in Required(k) : Unchanged(j)
    /\ k \in {Ingest, Appraise} => ReturnedMatches
    /\ k = Review => registry = None /\ lean = None
    /\ cmd' = [pc |-> "work", step |-> k,
               input |-> IF k \in {Ingest, Appraise} THEN returned.completion ELSE None]
    /\ UNCHANGED <<state, files, returned, children>>

\* A command checks what it builds on and enters the in_progress stage of its
\* step.
Begin(k) ==
    /\ Free
    /\ stage = <<k - 1, "done">>
    /\ \A j \in Required(k) : Unchanged(j)
    /\ k \in {Ingest, Appraise} => ReturnedMatches
    /\ k = Review => registry = None /\ lean = None
    /\ stage' = <<k, "busy">>
    /\ cmd' = [pc |-> "work", step |-> k,
               input |-> IF k \in {Ingest, Appraise} THEN returned.completion ELSE None]
    /\ UNCHANGED <<record, files, returned, children>>

\* extract_archive into a fresh directory; a torn archive raises.  The archive
\* may have been replaced since the completion was read.
ExtractArchive ==
    /\ InCommand("work", Ingest)
    /\ package = None
    /\ returned.archive \in Result
    /\ package' = returned.archive
    /\ Goto("extracted")
    /\ UNCHANGED <<state, file, registry, lean, returned, children>>

\* Mutant: the bundle is not compared with the completion.
UncheckedBundle == package # None

\* The bundle in the package is the one the completion names.
CheckedBundle == package = cmd.input.result

Launch(k) ==
    /\ InCommand(IF k = Ingest THEN "extracted" ELSE "work", k)
    /\ k = Ingest => CheckedBundle
    /\ child' = [child EXCEPT ![k] = "running"]
    /\ started' = [started EXCEPT ![k] = @ + 1]
    /\ Goto("await")
    /\ UNCHANGED <<state, files, returned>>

\* The challenge generator and the receipt issuer install their artifact at a
\* fresh path, whether or not the command that started them still runs.
ChildInstalls(k) ==
    /\ child[k] = "running"
    /\ file[k] = None
    /\ file' = [file EXCEPT ![k] = IF k = Issue THEN package ELSE Made]
    /\ child' = [child EXCEPT ![k] = "installed"]
    /\ UNCHANGED <<state, registry, lean, package, returned, started, cmd>>

ChildEnds(k) ==
    /\ child[k] # "none"
    /\ ~InCommand("await", k)
    /\ child' = [child EXCEPT ![k] = "none"]
    /\ UNCHANGED <<state, files, returned, started, cmd>>

\* The command takes the answer of its child.  A report the command writes is
\* not there yet; the appraiser affirms the binding of the evidence only.
AcceptAnswer(k) ==
    /\ InCommand("await", k)
    /\ child[k] = IF k \in Installing THEN "installed" ELSE "running"
    /\ k = Challenge => ~expired
    /\ k = Appraise => cmd.input.result = package
    /\ IF k \in Installing \cup {Review}
       THEN UNCHANGED file
       ELSE /\ file[k] = None
            /\ file' = [file EXCEPT ![k] = IF k = Deploy THEN Made ELSE cmd.input.result]
    /\ child' = [child EXCEPT ![k] = "none"]
    /\ Goto(IF k = Review THEN "registry" ELSE "leave")
    /\ UNCHANGED <<state, registry, lean, package, returned, started>>

\* Mutant: one candidate is enough.
InstallRegistryOnly ==
    /\ InCommand("registry", Review)
    /\ registry' = file[Issue]
    /\ Goto("leave")
    /\ UNCHANGED <<state, file, lean, package, returned, children>>

\* The review pair, made in a temporary directory, is installed by two renames.
InstallRegistry ==
    /\ InCommand("registry", Review)
    /\ registry' = file[Issue]
    /\ Goto("lean")
    /\ UNCHANGED <<state, file, lean, package, returned, children>>

InstallLean ==
    /\ InCommand("lean", Review)
    /\ lean' = file[Issue]
    /\ Goto("leave")
    /\ UNCHANGED <<state, file, registry, package, returned, children>>

\* The success transition of step k records its artifact.
Complete(k) ==
    /\ InCommand("leave", k)
    /\ k = Ingest => returned.completion = cmd.input
    /\ stage' = <<k, "done">>
    /\ record' = [record EXCEPT ![k] = IF k = Review THEN <<registry, lean>> ELSE file[k]]
    /\ cmd' = NoCommand
    /\ UNCHANGED <<files, returned, children>>

\* A check, a file operation or the child fails, or the child is killed at its
\* timeout.  The handler writes the failure stage, or fails itself.
RaiseError ==
    /\ ~Free
    /\ stage' = <<cmd.step, "failed">> \/ UNCHANGED stage
    /\ child' = IF cmd.pc = "await" THEN [child EXCEPT ![cmd.step] = "none"] ELSE child
    /\ cmd' = NoCommand
    /\ UNCHANGED <<record, files, returned, started>>

\* The command is killed; the lock goes with it, its child does not.
Kill ==
    /\ ~Free
    /\ cmd' = NoCommand
    /\ UNCHANGED <<state, files, returned, children>>

-----------------------------------------------------------------------------
(* Commands without a child, and the people around the operator            *)

\* reconcile_deployment, reconcile_challenge, reconcile_receipt
Reconcile(k) ==
    /\ Free
    /\ stage = <<k, "failed">>
    /\ file[k] # None
    /\ k = Challenge => LiveChallenge
    /\ stage' = <<k, "done">>
    /\ record' = [record EXCEPT ![k] = file[k]]
    /\ UNCHANGED <<files, returned, children, cmd>>

RecordWorkerStageHandoff ==
    /\ Free
    /\ stage = <<Challenge, "done">>
    /\ Unchanged(Deploy) /\ Unchanged(Challenge)
    /\ LiveChallenge
    /\ file[Handoff] = None
    /\ file' = [file EXCEPT ![Handoff] = Made]
    /\ UNCHANGED <<state, registry, lean, package, returned, children, cmd>>

AcknowledgeWorkerStage ==
    /\ Free
    /\ stage = <<Challenge, "done">>
    /\ Unchanged(Deploy) /\ Unchanged(Challenge)
    /\ LiveChallenge
    /\ file[Handoff] # None
    /\ stage' = <<Handoff, "done">>
    /\ record' = [record EXCEPT ![Handoff] = file[Handoff]]
    /\ UNCHANGED <<files, returned, children, cmd>>

\* Somebody inspects a failed deployment and writes its record.
InspectDeployment ==
    /\ stage = <<Deploy, "failed">>
    /\ file[Deploy] = None
    /\ file' = [file EXCEPT ![Deploy] = Made]
    /\ UNCHANGED <<state, registry, lean, package, returned, children, cmd>>

\* Archive and completion come back one by one, at any time.
ReturnArchive ==
    /\ archive # None
    /\ returned' = [returned EXCEPT !.archive = archive]
    /\ UNCHANGED <<state, files, children, cmd>>

ReturnCompletion ==
    /\ completion # None
    /\ returned' = [returned EXCEPT !.completion = completion]
    /\ UNCHANGED <<state, files, children, cmd>>

-----------------------------------------------------------------------------
\* What a running command does next, errors included.
Program ==
    \/ ExtractArchive \/ InstallRegistry \/ InstallLean \/ RaiseError
    \/ \E k \in Attempted : Launch(k) \/ AcceptAnswer(k) \/ Complete(k)

OperatorNext ==
    \/ InitializeState
    \/ \E k \in Attempted : Begin(k)
    \/ Program \/ Kill
    \/ \E k \in Installing : ChildInstalls(k)
    \/ \E k \in Attempted : ChildEnds(k)
    \/ \E k \in Reconcilable : Reconcile(k)
    \/ RecordWorkerStageHandoff \/ AcknowledgeWorkerStage
    \/ InspectDeployment \/ ReturnArchive \/ ReturnCompletion

\* The guest is set up from the recorded handoff manifest, and the window of
\* the challenge runs from its creation.
GuestNext ==
    /\ WorkerNext
    /\ staged' /\ ~staged => file[Handoff] # None
    /\ expired' # expired => file[Challenge] # None

Next ==
    \/ OperatorNext /\ UNCHANGED <<expired, guest>>
    \/ GuestNext /\ UNCHANGED operator

Spec == Init /\ [][Next]_vars

-----------------------------------------------------------------------------
\* No child with a side effect is started twice in the life of a campaign.
NoBlindRetry == \A k \in Attempted : started[k] <= 1

\* Report, appraisal and receipt are for one run, though archive and completion
\* come back separately, more than once, and possibly from two machines.
ResultsAgree ==
    \A j, k \in {Ingest, Appraise, Issue} :
        record[j] # None /\ record[k] # None => record[j] = record[k]

\* A recorded review pair is two candidates made from the recorded receipt, and
\* both are still there.
ReviewPairWhole ==
    record[Review] # None =>
        record[Review] = <<registry, lean>> /\ registry = record[Issue] /\ lean = record[Issue]

\* The operator implements ordered steps with one attempt each.
Ordered ==
    INSTANCE OrderedSteps WITH
        Artifact <- Artifact \cup Pair,
        Manual <- {Handoff},
        attempted <- {k \in Attempted : record[k] # None \/ stage \in {k} \X {"busy", "failed"}},
        adopted <- record

OrderedSpec == Ordered!Spec
=============================================================================
