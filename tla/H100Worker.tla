------------------------------ MODULE H100Worker ------------------------------
(***************************************************************************)
(* The guest side of an H100 campaign: `worker-run-local` of               *)
(* azure/h100_production_orchestrator.py on one virtual machine, with the  *)
(* measured runner, the evidence collector and the two archive functions   *)
(* it calls.  Calls take no lock, so any number of them interleave, and a  *)
(* call may be killed between any two file operations.                     *)
(***************************************************************************)
EXTENDS Naturals

CONSTANTS
    Call,         \* processes that run worker-run-local
    Result,       \* what a measured run may produce
    MaxRebuilds,  \* how often the machine is lost and set up again
    Torn,         \* an archive that is not written to its end
    None

ASSUME WorkerAssumption ==
    /\ Torn \notin Result
    /\ None \notin Result \cup {Torn}
    /\ MaxRebuilds \in Nat

VARIABLES
    staged,       \* the pinned inputs and the handoff manifest are on the guest
    expired,      \* the window of the challenge is over
    root,         \* worker.artifact_root exists
    run,          \* the published run package, or None
    evidence,     \* the run in the certificate package, or None
    archive,      \* the run in the certificate archive, Torn, or None
    completion,   \* the completion manifest, or None
    rebuilt,      \* rebuilds so far
    call          \* call[c]: program counter and collected run of a call

disk  == <<root, run, evidence, archive, completion>>
guest == <<staged, disk, rebuilt, call>>

Completion == [archive : Result, result : Result]

Idle == [pc |-> "idle", result |-> None]

WorkerTypeOK ==
    /\ staged \in BOOLEAN
    /\ expired \in BOOLEAN
    /\ root \in BOOLEAN
    /\ run \in Result \cup {None}
    /\ evidence \in Result \cup {None}
    /\ archive \in Result \cup {Torn, None}
    /\ completion \in Completion \cup {None}
    /\ rebuilt \in 0 .. MaxRebuilds
    /\ call \in [Call -> [pc : {"idle", "check", "run", "collect", "archive", "fill", "complete"},
                          result : Result \cup {None}]]

WorkerInit ==
    /\ staged = FALSE
    /\ expired = FALSE
    /\ root = FALSE
    /\ run = None /\ evidence = None /\ archive = None /\ completion = None
    /\ rebuilt = 0
    /\ call = [c \in Call |-> Idle]

-----------------------------------------------------------------------------
InCall(c, pc) == call[c].pc = pc

Proceed(c, pc) == call' = [call EXCEPT ![c].pc = pc]

\* extract_archive: mkdir refuses a directory that is there, and the handler of
\* that very error removes the directory.
ExtractPackage(c) ==
    /\ InCall(c, "idle")
    /\ staged
    /\ IF root
       THEN root' = FALSE /\ UNCHANGED call
       ELSE root' = TRUE /\ Proceed(c, "check")
    /\ UNCHANGED <<staged, expired, run, evidence, archive, completion, rebuilt>>

\* The staged bytes match their pins, the job's artifacts are there, and what is
\* left of the window covers a whole run; a window that is open but too short is
\* one of the errors of EndCall.
CheckStaged(c) ==
    /\ InCall(c, "check")
    /\ root
    /\ ~expired
    /\ Proceed(c, "run")
    /\ UNCHANGED <<staged, expired, disk, rebuilt>>

\* Mutant: a package that is there is replaced.
RunMeasuredAgain(c, r) ==
    /\ InCall(c, "run")
    /\ ~expired
    /\ run' = r
    /\ Proceed(c, "collect")
    /\ UNCHANGED <<staged, expired, root, evidence, archive, completion, rebuilt>>

\* The measured runner publishes its package in the window, at a fresh path.
RunMeasured(c, r) ==
    /\ InCall(c, "run")
    /\ run = None
    /\ ~expired
    /\ run' = r
    /\ Proceed(c, "collect")
    /\ UNCHANGED <<staged, expired, root, evidence, archive, completion, rebuilt>>

\* Mutant: the bindings of the collection are not kept.
CollectEvidenceUnread(c) ==
    /\ InCall(c, "collect")
    /\ evidence = None
    /\ ~expired
    /\ evidence' = run
    /\ Proceed(c, "archive")
    /\ UNCHANGED <<staged, expired, root, run, archive, completion, rebuilt>>

\* The collector packs a snapshot of the run package, in the window, at a fresh
\* path.
CollectEvidence(c) ==
    /\ InCall(c, "collect")
    /\ evidence = None
    /\ ~expired
    /\ evidence' = run
    /\ call' = [call EXCEPT ![c] = [pc |-> "archive", result |-> run]]
    /\ UNCHANGED <<staged, expired, root, run, archive, completion, rebuilt>>

\* create_archive opens its destination exclusively.  It is always fresh: one
\* call per machine gets past the fresh path of the collector.
OpenArchive(c) ==
    /\ InCall(c, "archive")
    /\ archive = None
    /\ archive' = Torn
    /\ Proceed(c, "fill")
    /\ UNCHANGED <<staged, expired, root, run, evidence, completion, rebuilt>>

\* ... and writes it in place.
FillArchive(c) ==
    /\ InCall(c, "fill")
    /\ archive' = evidence
    /\ Proceed(c, "complete")
    /\ UNCHANGED <<staged, expired, root, run, evidence, completion, rebuilt>>

\* The completion manifest names the archive as it is and the collected run.
WriteCompletion(c) ==
    /\ InCall(c, "complete")
    /\ completion = None
    /\ completion' = [archive |-> archive, result |-> call[c].result]
    /\ call' = [call EXCEPT ![c] = Idle]
    /\ UNCHANGED <<staged, expired, root, run, evidence, archive, rebuilt>>

\* A check, a file operation or a child fails, or a child is killed at its
\* timeout.  A half-written archive is removed; the extracted root stays.
EndCall(c) ==
    /\ ~InCall(c, "idle")
    /\ call' = [call EXCEPT ![c] = Idle]
    /\ archive' = IF InCall(c, "fill") THEN None ELSE archive
    /\ UNCHANGED <<staged, expired, root, run, evidence, completion, rebuilt>>

\* A kill leaves every file as it is.  The runner or the collector lives on and
\* may still publish; later callers find the package there, as if at once.
KillCall(c) ==
    /\ ~InCall(c, "idle")
    /\ call' = [call EXCEPT ![c] = Idle]
    /\ \/ UNCHANGED <<run, evidence>>
       \/ InCall(c, "run") /\ ~expired /\ run = None /\ run' \in Result /\ UNCHANGED evidence
       \/ InCall(c, "collect") /\ ~expired /\ evidence = None /\ evidence' = run /\ UNCHANGED run
    /\ UNCHANGED <<staged, expired, root, archive, completion, rebuilt>>

\* Somebody puts the pinned files and the handoff manifest on the guest.
StageInputs ==
    /\ ~staged
    /\ staged' = TRUE
    /\ UNCHANGED <<expired, disk, rebuilt, call>>

\* The machine is lost with its disk; an equal one takes its place.
Rebuild ==
    /\ staged
    /\ rebuilt < MaxRebuilds
    /\ rebuilt' = rebuilt + 1
    /\ staged' = FALSE
    /\ root' = FALSE
    /\ run' = None /\ evidence' = None /\ archive' = None /\ completion' = None
    /\ call' = [c \in Call |-> Idle]
    /\ UNCHANGED expired

Expire ==
    /\ ~expired
    /\ expired' = TRUE
    /\ UNCHANGED guest

WorkerCall(c) ==
    \/ CheckStaged(c) \/ (\E r \in Result : RunMeasured(c, r)) \/ CollectEvidence(c)
    \/ OpenArchive(c) \/ FillArchive(c) \/ WriteCompletion(c) \/ EndCall(c)

WorkerNext ==
    \/ \E c \in Call : ExtractPackage(c) \/ WorkerCall(c) \/ KillCall(c)
    \/ StageInputs \/ Rebuild \/ Expire

WorkerSpec == WorkerInit /\ [][WorkerNext]_<<expired, guest>>

-----------------------------------------------------------------------------
\* What a completion manifest names is the archive beside it, the evidence in
\* it and the one run of this machine, whichever calls raced or were killed.
EvidenceConsistent ==
    completion # None =>
        /\ completion = [archive |-> archive, result |-> run]
        /\ archive = run /\ evidence = run

\* "On the guest, the orchestrator refuses a pre-existing worker.artifact_root"
\* (docs/AZURE_H100_PRODUCTION_OPERATOR.md:99-100): a call does nothing to the
\* extracted tree that the job of another call is running from.
RootStays == \A c \in Call : InCall(c, "run") => root
=============================================================================
