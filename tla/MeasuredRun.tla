---------------------------- MODULE MeasuredRun -----------------------------
(***************************************************************************)
(* The measured job runner (azure/measured_runner.py, execute_job) on one  *)
(* virtual machine.  A run resets PCR23 of the TPM, extends it with the    *)
(* binding of its challenge and job, releases the input, executes the      *)
(* workload, extends the register with the binding of the result, quotes   *)
(* it, and publishes its directory by one rename.                          *)
(*                                                                         *)
(* PCR23 belongs to the machine and no lock protects it, so every TPM      *)
(* command is a step of its own and runs of any number of processes        *)
(* interleave.  A register value is the sequence of the extensions since   *)
(* the last reset (its hash chain is collision-free).  A run may fail or   *)
(* be killed anywhere; its private directory never becomes a package, so   *)
(* only the packages are state.                                            *)
(***************************************************************************)
EXTENDS Sequences

CONSTANTS
    Run,         \* processes that execute a job
    Challenge,   \* retained challenges
    Job,         \* job specifications
    Gated,       \* the jobs with a GPU gate before the release of the input
    Outcome,     \* what a statement may say: result, trace, times
    Out,         \* output directories
    None

ASSUME GatedAssumption == Gated \subseteq Job

VARIABLES
    pcr,        \* PCR23: the extensions since its last reset
    expired,    \* challenges whose window is over
    package,    \* package[o]: the run package published as o, or None
    run         \* run[r]: what the process is doing

vars == <<pcr, expired, package, run>>

\* derive_start_binding and derive_binding_nonce: the statement, and so the
\* result binding, contains the challenge and the job.
StartBinding  == [challenge : Challenge, job : Job]
ResultBinding == [challenge : Challenge, job : Job, outcome : Outcome]

Start(r)  == [challenge |-> run[r].challenge, job |-> run[r].job]
Result(r) == [challenge |-> run[r].challenge, job |-> run[r].job, outcome |-> run[r].outcome]

\* Before a command a process has nothing; after it its locals are gone.
Idle == [pc |-> "idle", challenge |-> None, job |-> None, out |-> None,
         outcome |-> None, quote |-> <<>>, late |-> FALSE, touched |-> {}]

\* The steps that wait for a TPM command, and those that wait for a child.
TPMSteps   == {"reset", "initial", "start", "started", "extend", "result", "quote"}
ChildSteps == {"gate", "release", "work", "trace"}

\* None stands for an extension by other software, before any run.
Register == Seq(StartBinding \cup ResultBinding \cup {None})

RunState ==
    [pc : {"idle", "publish"} \cup TPMSteps \cup ChildSteps,
     challenge : Challenge \cup {None}, job : Job \cup {None}, out : Out \cup {None},
     outcome : Outcome \cup {None}, quote : Register, late : BOOLEAN,
     touched : SUBSET StartBinding]

\* A package: what its transcript claims, the register its quote shows, and
\* (for the properties) whether the quote was late and who had touched PCR23.
Package ==
    [challenge : Challenge, job : Job, outcome : Outcome,
     quote : Register, late : BOOLEAN, touched : SUBSET StartBinding]

TypeOK ==
    /\ pcr \in Register
    /\ expired \in SUBSET Challenge
    /\ package \in [Out -> Package \cup {None}]
    /\ run \in [Run -> RunState]

Init ==
    /\ pcr \in {<<>>, <<None>>}
    /\ expired = {}
    /\ package = [o \in Out |-> None]
    /\ run = [r \in Run |-> Idle]

-----------------------------------------------------------------------------
At(r, pc) == run[r].pc = pc

Continue(r, pc) == run' = [run EXCEPT ![r].pc = pc]

\* The run ends without a package; its private directory is removed, or stays
\* behind under a name nobody looks for.
Abandon(r) == run' = [run EXCEPT ![r] = Idle]

\* Between its check of the start extension and its quote a run relies on PCR23.
Relies(r) == run[r].pc \in ChildSteps \cup {"extend", "result", "quote"}

\* r resets or extends the register of the machine and goes on to pc.
Touch(r, value, pc) ==
    /\ pcr' = value
    /\ run' = [q \in Run |->
                  IF q = r THEN [run[r] EXCEPT !.pc = pc]
                  ELSE IF Relies(q) THEN [run[q] EXCEPT !.touched = @ \cup {Start(r)}]
                  ELSE run[q]]

-----------------------------------------------------------------------------
(* execute_job, step by step                                               *)

\* The output directory does not exist and the challenge is in its window.
Begin(r, c, j, o) ==
    /\ At(r, "idle")
    /\ package[o] = None
    /\ c \notin expired
    /\ run' = [run EXCEPT ![r] = [Idle EXCEPT !.pc = "reset", !.challenge = c, !.job = j, !.out = o]]
    /\ UNCHANGED <<pcr, expired, package>>

\* tpm.reset
Reset(r) ==
    /\ At(r, "reset")
    /\ Touch(r, <<>>, "initial")
    /\ UNCHANGED <<expired, package>>

\* tpm.read: 32 zero bytes, or the run fails.
ReadInitial(r) ==
    /\ At(r, "initial")
    /\ IF pcr = <<>> THEN Continue(r, "start") ELSE Abandon(r)
    /\ UNCHANGED <<pcr, expired, package>>

\* tpm.extend(start_binding)
ExtendStart(r) ==
    /\ At(r, "start")
    /\ Touch(r, Append(pcr, Start(r)), "started")
    /\ UNCHANGED <<expired, package>>

\* tpm.read: the start extension equation, or the run fails.
ReadStart(r) ==
    /\ At(r, "started")
    /\ IF pcr = << Start(r) >>
       THEN Continue(r, IF run[r].job \in Gated THEN "gate" ELSE "release")
       ELSE Abandon(r)
    /\ UNCHANGED <<pcr, expired, package>>

\* The GPU gate authorizes this challenge and job.
PassGate(r) ==
    /\ At(r, "gate")
    /\ Continue(r, "release")
    /\ UNCHANGED <<pcr, expired, package>>

\* The input is released and matches its digest; then the window is checked.
ReleaseInput(r) ==
    /\ At(r, "release")
    /\ IF run[r].challenge \in expired THEN Abandon(r) ELSE Continue(r, "work")
    /\ UNCHANGED <<pcr, expired, package>>

\* Mutant: the statement is built without the result.
EndWorkloadUnset(r, x) ==
    /\ At(r, "work")
    /\ Continue(r, "trace")
    /\ UNCHANGED <<pcr, expired, package>>

\* The workload exits with 0 and leaves some result and trace.
EndWorkload(r, x) ==
    /\ At(r, "work")
    /\ run' = [run EXCEPT ![r] = [@ EXCEPT !.pc = "trace", !.outcome = x]]
    /\ UNCHANGED <<pcr, expired, package>>

\* Mutant: the register is quoted before the result is extended.
CheckTraceQuotes(r) ==
    /\ At(r, "trace")
    /\ Continue(r, "quote")
    /\ UNCHANGED <<pcr, expired, package>>

\* The trace verifier accepts, the artifacts validate, the statement is built.
CheckTrace(r) ==
    /\ At(r, "trace")
    /\ Continue(r, "extend")
    /\ UNCHANGED <<pcr, expired, package>>

\* Mutant: the register is built anew after the work, as the old collector did.
ExtendResultAfresh(r) ==
    /\ At(r, "extend")
    /\ Touch(r, << Start(r), Result(r) >>, "result")
    /\ UNCHANGED <<expired, package>>

\* tpm.extend(result_binding), without another reset
ExtendResult(r) ==
    /\ At(r, "extend")
    /\ Touch(r, Append(pcr, Result(r)), "result")
    /\ UNCHANGED <<expired, package>>

\* tpm.read: the ordered result equation, or the run fails.
ReadResult(r) ==
    /\ At(r, "result")
    /\ IF pcr = << Start(r), Result(r) >> THEN Continue(r, "quote") ELSE Abandon(r)
    /\ UNCHANGED <<pcr, expired, package>>

\* tpm.quote signs whatever the register holds now; tpm2_checkquote looks at
\* the signature and the qualifying data only.
Quote(r) ==
    /\ At(r, "quote")
    /\ run' = [run EXCEPT ![r] = [@ EXCEPT !.pc = "publish", !.quote = pcr,
                                           !.late = run[r].challenge \in expired]]
    /\ UNCHANGED <<pcr, expired, package>>

\* Mutant: the window is not checked after the quote.
PublishAnyTime(r) ==
    /\ At(r, "publish")
    /\ IF package[run[r].out] # None
       THEN UNCHANGED package
       ELSE package' = [package EXCEPT ![run[r].out] =
               [challenge |-> run[r].challenge, job |-> run[r].job, outcome |-> run[r].outcome,
                quote |-> run[r].quote, late |-> run[r].late, touched |-> run[r].touched]]
    /\ Abandon(r)
    /\ UNCHANGED <<pcr, expired>>

\* The window once more, then os.replace, which fails on a package that is there.
Publish(r) ==
    /\ At(r, "publish")
    /\ IF run[r].challenge \in expired \/ package[run[r].out] # None
       THEN UNCHANGED package
       ELSE package' = [package EXCEPT ![run[r].out] =
               [challenge |-> run[r].challenge, job |-> run[r].job, outcome |-> run[r].outcome,
                quote |-> run[r].quote, late |-> run[r].late, touched |-> run[r].touched]]
    /\ Abandon(r)
    /\ UNCHANGED <<pcr, expired>>

\* A check, a child or a TPM command fails, a child that hangs is killed at its
\* timeout, or the process is killed.
Fail(r) ==
    /\ ~At(r, "idle")
    /\ Abandon(r)
    /\ UNCHANGED <<pcr, expired, package>>

\* The clock passes the end of a challenge's window.
Expire(c) ==
    /\ expired' = expired \cup {c}
    /\ UNCHANGED <<pcr, package, run>>

-----------------------------------------------------------------------------
ChildEnds(r) ==
    PassGate(r) \/ ReleaseInput(r) \/ (\E x \in Outcome : EndWorkload(r, x)) \/ CheckTrace(r)

\* What the process does without waiting for a child.
Progress(r) ==
    \/ Reset(r) \/ ReadInitial(r) \/ ExtendStart(r) \/ ReadStart(r)
    \/ ExtendResult(r) \/ ReadResult(r) \/ Quote(r) \/ Publish(r)

Next ==
    \/ \E r \in Run :
          \/ \E c \in Challenge, j \in Job, o \in Out : Begin(r, c, j, o)
          \/ ChildEnds(r) \/ Progress(r) \/ Fail(r)
    \/ \E c \in Challenge : Expire(c)

Spec == Init /\ [][Next]_vars

-----------------------------------------------------------------------------
(* Properties                                                              *)

\* The quote of a package shows the register its transcript claims.
Appraises(p) ==
    p.quote = << [challenge |-> p.challenge, job |-> p.job],
                 [challenge |-> p.challenge, job |-> p.job, outcome |-> p.outcome] >>

\* Runs for other challenges or jobs cannot use PCR23 between the start check
\* of a run and its quote without spoiling the quote: if anybody did and the
\* package still appraises, a run of the same challenge and job started over.
TamperingShows ==
    \A o \in Out :
        package[o] # None /\ Appraises(package[o]) =>
            \/ package[o].touched = {}
            \/ [challenge |-> package[o].challenge, job |-> package[o].job] \in package[o].touched

\* A run that had PCR23 to itself publishes a package that appraises, whatever
\* killed or failed runs had left in the register.
UndisturbedAppraises ==
    \A o \in Out :
        package[o] # None /\ package[o].touched = {} => Appraises(package[o])

\* No package holds a quote taken after the window of its challenge.
NoLateQuote == \A o \in Out : package[o] # None => ~package[o].late

\* A published package is never replaced, though the output directory was
\* looked for long before the rename.
PackagesFinal == [][\A o \in Out : package[o] # None => package'[o] = package[o]]_vars
=============================================================================
