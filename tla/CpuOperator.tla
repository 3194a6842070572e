------------------------------ MODULE CpuOperator ------------------------------
(* azure/cpu_production_orchestrator.py: one campaign taken through its steps *)
(* by operator commands. The journal directory is the state; the state file   *)
(* is a cache of it. Every command but status holds an exclusive lock, so one *)
(* runs at a time; it may be killed between any two file operations, and then *)
(* the child process it started lives on.                                     *)
EXTENDS Integers, Sequences

CONSTANTS
  Result,   \* results a returned worker package can hold
  Made,     \* content of an artifact whose content does not matter here
  None

(* The steps of a campaign, in order.                                         *)
Deploy == 1
Challenge == 2
Handoff == 3
Ingest == 4
Appraise == 5
Issue == 6
Review == 7

Steps == Deploy .. Review
Attempted == Steps \ {Handoff}
Reconcilable == {Deploy, Challenge, Issue}

(* Steps whose child process writes the artifact itself.                      *)
Installing == {Challenge, Issue}

(* Stages: <<0, "done">> is "initialized"; <<k, "busy">> is the in_progress   *)
(* stage of step k, <<k, "failed">> its reconciliation or failure stage.      *)
Stage == {<<0, "done">>} \cup (Steps \X {"busy", "failed", "done"})

(* ALLOWED_TRANSITIONS, which every reader of the journal enforces.           *)
Allowed ==
       {<< <<k - 1, "done">>, <<k, "busy">> >> : k \in Attempted}
  \cup {<< <<Handoff - 1, "done">>, <<Handoff, "done">> >>}
  \cup {<< <<k, "busy">>, <<k, "done">> >> : k \in Attempted}
  \cup {<< <<k, "busy">>, <<k, "failed">> >> : k \in Attempted}
  \cup {<< <<k, "failed">>, <<k, "done">> >> : k \in Reconcilable}

Artifact == Result \cup {Made}
Event == [to : Stage, record : Artifact \cup {None}]

ASSUME ConstantsAssumption == /\ Made \notin Result
                              /\ None \notin Artifact \cup Seq(Event)

VARIABLES
  journal,    \* the event files, or None before the directory exists
  stray,      \* a temporary file is in the journal directory
  head,       \* number of events the state file summarizes, 0: no file
  file,       \* file[k]: the artifact of step k, or None
  package,    \* result in the extracted certificate package, or None
  returned,   \* result in the completion and archive handed back, or None
  child,      \* child[k]: the child process of step k
  started,    \* started[k]: how often a child of step k was started
  cmd         \* the command holding the operator lock

files == <<file, package>>
chain == <<journal, stray, head>>
children == <<child, started>>
vars == <<chain, files, returned, children, cmd>>

Idle == [pc |-> "idle"]

(* enter, leave, fail, adopt and init are the events a command may write; a   *)
(* write is at its start, has its temporary file, or has its event installed. *)
Writing == {"init", "enter", "leave", "fail", "adopt"}
Commands == {Idle}
            \cup [pc : Writing, step : 0 .. Review, input : Result \cup {None},
                  write : {"start", "temporary", "event"}]
            \cup [pc : {"work", "extracted", "await"}, step : Steps,
                  input : Result \cup {None}, write : {"start"}]

Init == /\ journal = None /\ stray = FALSE /\ head = 0
        /\ file = [k \in Steps |-> None]
        /\ package = None /\ returned = None
        /\ child = [k \in Steps |-> "none"]
        /\ started = [k \in Steps |-> 0]
        /\ cmd = Idle

-------------------------------------------------------------------------------
(* Reading the state.                                                         *)
LegalChain == /\ journal[1].to = <<0, "done">>
              /\ \A i \in 1 .. Len(journal) - 1 :
                   <<journal[i].to, journal[i + 1].to>> \in Allowed

(* _derive_state refuses a journal that is not exactly its event files.       *)
Readable == journal # None /\ ~stray /\ Len(journal) > 0 /\ LegalChain

(* load_state refuses a state file that is not the derived state.             *)
Loadable == Readable /\ head = Len(journal)
StageNow == journal[Len(journal)].to

Record(k) == LET done == {i \in 1 .. Len(journal) : journal[i].to = <<k, "done">>}
             IN  IF done = {} THEN None
                 ELSE journal[CHOOSE i \in done : TRUE].record

(* _require_recorded_file: the file still has the digest of its transition.   *)
Unchanged(k) == Record(k) # None /\ file[k] = Record(k)

(* The recorded files a command checks before it starts step k.               *)
Required(k) == CASE k = Deploy -> {}
                 [] k = Challenge -> {Deploy}
                 [] k = Ingest -> {Handoff, Challenge}
                 [] k = Appraise -> {Handoff, Challenge, Ingest}
                 [] k = Issue -> {Challenge, Appraise}
                 [] k = Review -> {Issue}

-------------------------------------------------------------------------------
(* The commands up to their first write.                                      *)
Start(c) == /\ cmd = Idle
            /\ cmd' = c
            /\ UNCHANGED <<stray, head, files, returned, children>>

WriteOf(pc, k, input) ==
  [pc |-> pc, step |-> k, input |-> input, write |-> "start"]

InitializeState == /\ journal = None /\ head = 0
                   /\ journal' = <<>>
                   /\ Start(WriteOf("init", 0, None))

(* deploy, create_challenge_step, ingest_returned_package, appraise,          *)
(* issue_receipt and generate_review_candidates. Ingestion and appraisal read *)
(* the returned completion, and its archive must match it.                    *)
Begin(k) == /\ Loadable
            /\ StageNow = <<k - 1, "done">>
            /\ \A j \in Required(k) : Unchanged(j)
            /\ k \in {Ingest, Appraise} => returned # None
            /\ k = Review => file[Review] = None
            /\ Start(WriteOf("enter", k,
                             IF k \in {Ingest, Appraise} THEN returned ELSE None))
            /\ UNCHANGED journal

AcknowledgeWorkerStage == /\ Loadable
                          /\ StageNow = <<Handoff - 1, "done">>
                          /\ file[Handoff] # None
                          /\ Start(WriteOf("adopt", Handoff, None))
                          /\ UNCHANGED journal

(* reconcile_deployment, reconcile_challenge, reconcile_receipt.              *)
Reconcile(k) == /\ Loadable
                /\ StageNow = <<k, "failed">>
                /\ file[k] # None
                /\ Start(WriteOf("adopt", k, None))
                /\ UNCHANGED journal

(* Commands that write one file other than an event.                          *)
RecordWorkerStageHandoff ==
  /\ cmd = Idle /\ Loadable
  /\ StageNow = <<Handoff - 1, "done">>
  /\ Unchanged(Deploy) /\ Unchanged(Challenge)
  /\ file[Handoff] = None
  /\ file' = [file EXCEPT ![Handoff] = Made]
  /\ UNCHANGED <<chain, package, returned, children, cmd>>

(* Mutant: recovery trusts the state file and drops the events after it.      *)
RecoverFromHead == /\ cmd = Idle /\ Readable /\ head > 0
                   /\ journal' = SubSeq(journal, 1, head)
                   /\ UNCHANGED <<stray, head, files, returned, children, cmd>>

RecoverStateHead == /\ cmd = Idle /\ Readable
                    /\ head' = Len(journal)
                    /\ UNCHANGED <<journal, stray, files, returned, children, cmd>>

-------------------------------------------------------------------------------
(* _transition: load the state, install one event, replace the state file.    *)
Source(c) == CASE c.pc = "enter" -> <<c.step - 1, "done">>
               [] c.pc \in {"leave", "fail"} -> <<c.step, "busy">>
               [] c.pc = "adopt" -> IF c.step = Handoff
                                    THEN <<Handoff - 1, "done">>
                                    ELSE <<c.step, "failed">>
Target(c) == CASE c.pc = "enter" -> <<c.step, "busy">>
               [] c.pc = "fail" -> <<c.step, "failed">>
               [] c.pc \in {"leave", "adopt", "init"} -> <<c.step, "done">>

EventOf(c) == [to |-> Target(c),
               record |-> IF c.pc \in {"leave", "adopt"} THEN file[c.step] ELSE None]

AtWrite(step) == cmd.pc \in Writing /\ cmd.write = step

(* Mutant: the handler writes its event without loading the state again.      *)
CreateTemporaryUnchecked ==
  /\ AtWrite("start")
  /\ stray' = TRUE
  /\ cmd' = [cmd EXCEPT !.write = "temporary"]
  /\ UNCHANGED <<journal, head, files, returned, children>>

CreateTemporary ==
  /\ AtWrite("start")
  /\ cmd.pc # "init" => Loadable /\ StageNow = Source(cmd)
  /\ stray' = TRUE
  /\ cmd' = [cmd EXCEPT !.write = "temporary"]
  /\ UNCHANGED <<journal, head, files, returned, children>>

InstallEvent ==
  /\ AtWrite("temporary")
  /\ stray' = FALSE
  /\ journal' = Append(journal, EventOf(cmd))
  /\ cmd' = [cmd EXCEPT !.write = "event"]
  /\ UNCHANGED <<head, files, returned, children>>

(* Mutant: the state file is replaced before the event is installed.          *)
ReplaceHeadFirst ==
  /\ AtWrite("start") /\ journal # None
  /\ head' = Len(journal) + 1
  /\ UNCHANGED <<journal, stray, files, returned, children, cmd>>

ReplaceHead ==
  /\ AtWrite("event")
  /\ Readable
  /\ head' = Len(journal)
  /\ cmd' = IF cmd.pc = "enter"
            THEN [cmd EXCEPT !.pc = "work", !.write = "start"]
            ELSE Idle
  /\ UNCHANGED <<journal, stray, files, returned, children>>

-------------------------------------------------------------------------------
(* The work between entering a step and leaving it.                           *)

(* ingest_returned_package extracts into a fresh directory; the archive may   *)
(* have been replaced since the completion was read.                          *)
ExtractArchive == /\ cmd.pc = "work" /\ cmd.step = Ingest
                  /\ package = None
                  /\ package' = returned
                  /\ cmd' = [cmd EXCEPT !.pc = "extracted"]
                  /\ UNCHANGED <<chain, file, returned, children>>

(* Mutant: the bundle is not compared with the completion.                    *)
UncheckedBundle == package # None

(* The bundle in the package must be the one the completion names.            *)
CheckedBundle == package = cmd.input

(* Mutant: the child is started before the step is entered.                   *)
LaunchFirst(k) == /\ cmd.pc = "enter" /\ cmd.step = k /\ cmd.write = "start"
                  /\ child[k] = "none"
                  /\ started' = [started EXCEPT ![k] = @ + 1]
                  /\ child' = [child EXCEPT ![k] = "running"]
                  /\ UNCHANGED <<chain, files, returned, cmd>>

Launch(k) == /\ cmd.pc = (IF k = Ingest THEN "extracted" ELSE "work")
             /\ cmd.step = k
             /\ k = Ingest => CheckedBundle
             /\ started' = [started EXCEPT ![k] = @ + 1]
             /\ child' = [child EXCEPT ![k] = "running"]
             /\ cmd' = [cmd EXCEPT !.pc = "await"]
             /\ UNCHANGED <<chain, files, returned>>

(* A child installs its artifact without replacing one, whether or not the    *)
(* command that started it still runs. A receipt is for the package's result. *)
ChildInstalls(k) ==
  /\ child[k] = "running" /\ file[k] = None
  /\ file' = [file EXCEPT ![k] = IF k = Issue THEN package ELSE Made]
  /\ child' = [child EXCEPT ![k] = "installed"]
  /\ UNCHANGED <<chain, package, returned, started, cmd>>

(* Mutant: an answer is accepted before the artifact is at its path.          *)
AcceptAnswerBlind(k) ==
  /\ cmd.pc = "await" /\ cmd.step = k
  /\ child[k] \in {"running", "installed"}
  /\ file' = [file EXCEPT ![k] = IF k \in Installing THEN @
                                 ELSE IF k \in {Ingest, Appraise}
                                 THEN cmd.input ELSE Made]
  /\ child' = [child EXCEPT ![k] = "none"]
  /\ cmd' = [cmd EXCEPT !.pc = "leave"]
  /\ UNCHANGED <<chain, package, returned, started>>

(* The command accepts the child's answer. An artifact the command writes     *)
(* replaces nothing, the review pair excepted; the appraiser affirms only the *)
(* binding of the evidence in the package.                                    *)
AcceptAnswer(k) ==
  /\ cmd.pc = "await" /\ cmd.step = k
  /\ IF k \in Installing
     THEN child[k] = "installed" /\ UNCHANGED file
     ELSE /\ child[k] = "running"
          /\ k # Review => file[k] = None
          /\ k = Appraise => cmd.input = package
          /\ file' = [file EXCEPT ![k] = IF k \in {Ingest, Appraise}
                                         THEN cmd.input ELSE Made]
  /\ child' = [child EXCEPT ![k] = "none"]
  /\ cmd' = [cmd EXCEPT !.pc = "leave"]
  /\ UNCHANGED <<chain, package, returned, started>>

(* Mutant: a child has no timeout.                                            *)
RaiseErrorNoTimeout ==
  /\ cmd # Idle /\ cmd.pc # "await"
  /\ stray' = (stray /\ ~AtWrite("temporary"))
  /\ cmd' = IF cmd.pc \in {"work", "extracted", "leave"}
            THEN WriteOf("fail", cmd.step, None)
            ELSE Idle
  /\ UNCHANGED <<journal, head, files, returned, children>>

(* An error: an output that exists, a child that fails or is killed at its    *)
(* timeout, a state that does not load, a failing file operation. Inside a    *)
(* step's try block the handler writes the failed stage; elsewhere, and when  *)
(* the handler itself fails, the command ends.                                *)
RaiseError ==
  /\ cmd # Idle
  /\ stray' = (stray /\ ~AtWrite("temporary"))
  /\ child' = [k \in Steps |->
                 IF cmd.pc = "await" /\ cmd.step = k THEN "none" ELSE child[k]]
  /\ cmd' = IF cmd.pc \in {"work", "extracted", "await", "leave"}
            THEN WriteOf("fail", cmd.step, None)
            ELSE Idle
  /\ UNCHANGED <<journal, head, files, returned, started>>

(* The command is killed; the lock goes with it, its child does not.          *)
Kill == /\ cmd # Idle
        /\ cmd' = Idle
        /\ UNCHANGED <<chain, files, returned, children>>

ChildEnds(k) == /\ child[k] # "none"
                /\ ~(cmd.pc = "await" /\ cmd.step = k)
                /\ child' = [child EXCEPT ![k] = "none"]
                /\ UNCHANGED <<chain, files, returned, started, cmd>>

(* Somebody inspects a failed deployment and writes its record.               *)
InspectDeployment == /\ journal # None /\ Len(journal) > 0
                     /\ StageNow = <<Deploy, "failed">>
                     /\ file[Deploy] = None
                     /\ file' = [file EXCEPT ![Deploy] = Made]
                     /\ UNCHANGED <<chain, package, returned, children, cmd>>

(* A completion and its archive are put at the handoff paths, or replaced.    *)
WorkerReturns(r) == /\ file[Handoff] # None
                    /\ returned' = r
                    /\ UNCHANGED <<chain, files, children, cmd>>

(* The commands that start a child; the write of their transitions is shared. *)
DeployCommand == Begin(Deploy) \/ Launch(Deploy) \/ AcceptAnswer(Deploy)

CreateChallengeStep ==
  Begin(Challenge) \/ Launch(Challenge) \/ AcceptAnswer(Challenge)

IngestReturnedPackage ==
  Begin(Ingest) \/ ExtractArchive \/ Launch(Ingest) \/ AcceptAnswer(Ingest)

AppraiseCommand == Begin(Appraise) \/ Launch(Appraise) \/ AcceptAnswer(Appraise)

IssueReceipt == Begin(Issue) \/ Launch(Issue) \/ AcceptAnswer(Issue)

GenerateReviewCandidates ==
  Begin(Review) \/ Launch(Review) \/ AcceptAnswer(Review)

ReconcileDeployment == Reconcile(Deploy)
ReconcileChallenge == Reconcile(Challenge)
ReconcileReceipt == Reconcile(Issue)

Transition == CreateTemporary \/ InstallEvent \/ ReplaceHead

Command == \/ InitializeState \/ RecoverStateHead
           \/ DeployCommand \/ ReconcileDeployment
           \/ CreateChallengeStep \/ ReconcileChallenge
           \/ RecordWorkerStageHandoff \/ AcknowledgeWorkerStage
           \/ IngestReturnedPackage \/ AppraiseCommand
           \/ IssueReceipt \/ ReconcileReceipt
           \/ GenerateReviewCandidates
           \/ Transition

Next == \/ Command \/ RaiseError \/ Kill
        \/ \E k \in Installing : ChildInstalls(k)
        \/ \E k \in Attempted : ChildEnds(k)
        \/ InspectDeployment
        \/ \E r \in Result : WorkerReturns(r)

Spec == Init /\ [][Next]_vars

(* A running command keeps running: every child has a timeout, after which    *)
(* RaiseError is taken, and no file operation waits for another process.      *)
FairSpec == Spec /\ WF_vars(cmd # Idle /\ (Command \/ RaiseError))

-------------------------------------------------------------------------------
(* The values of every variable; the state file never summarizes more events  *)
(* than there are.                                                            *)
TypeOK == /\ journal \in Seq(Event) \cup {None}
          /\ stray \in BOOLEAN
          /\ head \in Nat
          /\ head > 0 => journal # None /\ head <= Len(journal)
          /\ file \in [Steps -> Artifact \cup {None}]
          /\ {package, returned} \subseteq Result \cup {None}
          /\ child \in [Steps -> {"none", "running", "installed"}]
          /\ started \in [Steps -> Nat]
          /\ cmd \in Commands

(* A side effect is started at most once in the life of a campaign, whatever  *)
(* is killed or fails and however the state file is recovered: a command      *)
(* enters its step in the journal before it starts its child.                 *)
NoBlindRetry == \A k \in Attempted : started[k] <= 1

(* What the commands write, handlers after half-failed transitions included,  *)
(* is a chain that every later command accepts.                               *)
JournalLegal == journal # None /\ Len(journal) > 0 => LegalChain

(* Each completed step recorded an artifact, and it is the one at its path    *)
(* from then on.                                                              *)
RecordsHold ==
  journal # None =>
    \A i \in 1 .. Len(journal) :
      LET k == journal[i].to[1]
      IN  journal[i].to[2] = "done" /\ k # 0 =>
            journal[i].record # None /\ file[k] = journal[i].record

(* The ingested report, the appraisal and the receipt are for one result,     *)
(* though the returned package may be replaced at any time.                   *)
ResultsAgree ==
  journal # None =>
    \A j, k \in {Ingest, Appraise, Issue} :
      Record(j) # None /\ Record(k) # None => Record(j) = Record(k)

(* The exclusive lock is always released: every command ends.                 *)
LockReleased == cmd # Idle ~> cmd = Idle

(* The operator implements ordered steps with one attempt each.               *)
Ordered ==
  INSTANCE OrderedSteps
    WITH Manual <- {Handoff},
         attempted <- IF journal = None THEN {}
                      ELSE {k \in Attempted :
                              \E i \in 1 .. Len(journal) :
                                journal[i].to = <<k, "busy">>},
         adopted <- [k \in Steps |-> IF journal = None THEN None ELSE Record(k)]

(* Steps are taken in order, each is attempted once, and an adopted artifact  *)
(* stays adopted.                                                             *)
OrderedSpec == Ordered!Spec
================================================================================
