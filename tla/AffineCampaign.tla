--------------------------- MODULE AffineCampaign ---------------------------
(***************************************************************************)
(* The two-phase residual campaign of                                      *)
(* tg_verifier/hurst_residual_campaign.py: any number of processes run its *)
(* commands on one directory.  Phase one retains a summary receipt per     *)
(* shard, `reduce` derives from all of them the state each shard starts    *)
(* from, phase two retains a verify receipt per shard run from that state, *)
(* and `finalize` writes the affine leaves and the certificate.  An        *)
(* advisory lock serialises the accesses to the directory, but the runners *)
(* work outside it, from what was read under it earlier.  A process may be *)
(* killed between any two file operations; the kernel then drops its lock. *)
(***************************************************************************)
EXTENDS Integers, FiniteSets

CONSTANTS
    ShardCount,   \* len(plan.shards)
    Caller,       \* processes that run commands on the directory
    Identity,     \* the runner, source and plan an initialize may be given
    FullSource,   \* the identities whose plan is the literal full-source one
    Report,       \* Report[i]: the [delta, row] a run of shard i may compute
    Guard,        \* the incoming states a runner may echo
    Stamp,        \* Stamp[p]: the values of elapsed_seconds in phase p
    Workers,      \* the --workers values
    None

Shards == 0 .. ShardCount - 1

ASSUME CallerAssumption == None \notin Caller
ASSUME ShardCountAssumption == ShardCount \in Nat \ {0}
ASSUME ReportAssumption ==
    /\ DOMAIN Report = Shards
    /\ \A i \in Shards : \A p \in Report[i] : DOMAIN p = {"delta", "row"} /\ p.delta \in Int
ASSUME GuardAssumption == Guard \subseteq Int
ASSUME WorkersAssumption == Workers \subseteq Nat \ {0}

\* The bytes of a receipt: its timing field makes two equal runs differ.
SummaryReceipt(i) == [report : Report[i], stamp : Stamp["summary"]]
VerifyReceipt(i)  == [report : Report[i], guard : Guard, stamp : Stamp["verify"]]

AnySummary   == UNION {SummaryReceipt(i) : i \in Shards}
AnyVerify    == UNION {VerifyReceipt(i) : i \in Shards}
SummaryTable == [Shards -> AnySummary \cup {None}]

NoReceipt == [i \in Shards |-> None]

\* The files of a set-up, in the order initialize_campaign writes them: the
\* captured runner, source and upstream manifest, the plan, the configuration.
SetupFiles == 1 .. 5

VARIABLES
    setup,        \* setup[f]: the identity file f was written for, or None
    summary,      \* summary[i]: the retained summary receipt, or None
    derived,      \* the summary table that the derived inputs hash, or None
    verify,       \* verify[i]: the retained verify receipt, or None
    leaf,         \* leaf[i]: the affine leaf, or None
    final,        \* the tables the final certificate commits to, or None
    registered,   \* the registered result: "absent", "empty" or "true"
    lock,         \* who holds .hurst-residual-campaign.lock, or None
    op,           \* op[c]: the command c is in
    identity,     \* identity[c]: what an initialize was given
    phase,        \* phase[c]: the phase of a run_phase
    seen,         \* seen[c]: the summaries run_phase loaded when it started
    queue,        \* queue[c]: selected shards not yet submitted
    kid,          \* kid[c][i]: the runner process of shard i
    cancel,       \* cancel[c]: cancel_event is set
    at            \* at[c]: files already written by initialize or finalize

files  == <<setup, summary, derived, verify, leaf, final, registered>>
locals == <<op, identity, phase, seen, queue, kid, cancel, at>>
vars   == <<files, lock, locals>>

Ops == {"idle", "initialize", "run_phase", "abort", "finalize", "register"}

NoKid == [i \in Shards |-> "none"]

TypeOK ==
    /\ setup \in [SetupFiles -> Identity \cup {None}]
    /\ summary \in SummaryTable
    /\ derived \in SummaryTable \cup {None}
    /\ verify \in [Shards -> AnyVerify \cup {None}]
    /\ DOMAIN leaf = Shards
    /\ registered \in {"absent", "empty", "true"}
    /\ lock \in Caller \cup {None}
    /\ op \in [Caller -> Ops]
    /\ identity \in [Caller -> Identity \cup {None}]
    /\ phase \in [Caller -> {"summary", "verify"}]
    /\ seen \in [Caller -> SummaryTable]
    /\ queue \in [Caller -> SUBSET Shards]
    /\ kid \in [Caller -> [Shards -> {"none", "running", "reported", "failed"}]]
    /\ cancel \in [Caller -> BOOLEAN]
    /\ at \in [Caller -> Nat]

Init ==
    /\ setup = [f \in SetupFiles |-> None]
    /\ summary = NoReceipt
    /\ derived = None
    /\ verify = NoReceipt
    /\ leaf = NoReceipt
    /\ final = None
    /\ registered = "absent"
    /\ lock = None
    /\ op = [c \in Caller |-> "idle"]
    /\ identity = [c \in Caller |-> None]
    /\ phase = [c \in Caller |-> "summary"]
    /\ seen = [c \in Caller |-> NoReceipt]
    /\ queue = [c \in Caller |-> {}]
    /\ kid = [c \in Caller |-> NoKid]
    /\ cancel = [c \in Caller |-> FALSE]
    /\ at = [c \in Caller |-> 0]

-----------------------------------------------------------------------------
(* What the files have to satisfy                                          *)

Complete(table) == \A i \in Shards : table[i] # None

\* The state before each shard of a complete summary table: the root state
\* plus the deltas of the shards before it.
Incoming(table) ==
    LET state[i \in 0 .. ShardCount] ==
            IF i = 0 THEN 0 ELSE state[i - 1] + table[i - 1].report.delta
    IN  state

\* All five captures and control files exist and belong together.
SetupReady ==
    /\ \A f \in SetupFiles : setup[f] # None
    /\ \A f, g \in SetupFiles : setup[f] = setup[g]

\* derived-inputs.json exists and is what the retained summaries derive.
DerivedReady ==
    /\ derived # None
    /\ Complete(summary)
    /\ derived = summary

\* Mutant: the outcome of the replay is not compared with the summary.
ReplaysGuardOnly(r, table, i) == r.guard = Incoming(table)[i]

\* A verify receipt against the tables of the phase it belongs to.
Replays(r, table, i) ==
    /\ r.guard = Incoming(table)[i]
    /\ r.report = table[i].report

LeafOf(i) == [report |-> summary[i].report, incoming |-> Incoming(derived)[i]]

\* The generic certificate chains the leaves from the root state.
Chained ==
    \A i \in Shards : Incoming(derived)[i + 1] = Incoming(derived)[i] + summary[i].report.delta

FinalPayload == [derived |-> derived, verified |-> verify]

\* What verify_campaign replays, without raising.
Verifies ==
    /\ SetupReady
    /\ derived # None => DerivedReady
    /\ \A i \in Shards : verify[i] # None => DerivedReady /\ Replays(verify[i], summary, i)
    /\ final # None =>
          /\ DerivedReady
          /\ Complete(verify)
          /\ Chained
          /\ \A i \in Shards : leaf[i] = LeafOf(i)
          /\ final = FinalPayload

\* The command of c is over and its local variables are gone.
Return(c) ==
    /\ op' = [op EXCEPT ![c] = "idle"]
    /\ identity' = [identity EXCEPT ![c] = None]
    /\ phase' = [phase EXCEPT ![c] = "summary"]
    /\ seen' = [seen EXCEPT ![c] = NoReceipt]
    /\ queue' = [queue EXCEPT ![c] = {}]
    /\ kid' = [kid EXCEPT ![c] = NoKid]
    /\ cancel' = [cancel EXCEPT ![c] = FALSE]
    /\ at' = [at EXCEPT ![c] = 0]

-----------------------------------------------------------------------------
(* Set-up                                                                  *)

\* Mutant: files of a partial set-up are written over.
InitializeAgain(c, x) ==
    /\ op[c] = "idle"
    /\ lock = None
    /\ lock' = c
    /\ op' = [op EXCEPT ![c] = "initialize"]
    /\ identity' = [identity EXCEPT ![c] = x]
    /\ \E n \in 0 .. 4 :
          /\ \A f \in SetupFiles : setup[f] # None <=> f <= n
          /\ at' = [at EXCEPT ![c] = n]
    /\ UNCHANGED <<files, phase, seen, queue, kid, cancel>>

\* An initialize that finds no set-up file takes the lock and writes all five;
\* one that finds any of them only compares, and changes nothing.
Initialize(c, x) ==
    /\ op[c] = "idle"
    /\ lock = None
    /\ \A f \in SetupFiles : setup[f] = None
    /\ lock' = c
    /\ op' = [op EXCEPT ![c] = "initialize"]
    /\ identity' = [identity EXCEPT ![c] = x]
    /\ at' = [at EXCEPT ![c] = 0]
    /\ UNCHANGED <<files, phase, seen, queue, kid, cancel>>

\* The next file; after the last one the campaign verifies, the lock is released.
WriteSetup(c) ==
    /\ op[c] = "initialize"
    /\ setup' = [setup EXCEPT ![at[c] + 1] = identity[c]]
    /\ IF at[c] + 1 = 5
       THEN Return(c) /\ lock' = None
       ELSE /\ at' = [at EXCEPT ![c] = @ + 1]
            /\ UNCHANGED <<lock, op, identity, phase, seen, queue, kid, cancel>>
    /\ UNCHANGED <<summary, derived, verify, leaf, final, registered>>

-----------------------------------------------------------------------------
(* Receipts                                                                *)

Retained(p, i) == IF p = "summary" THEN summary[i] ELSE verify[i]

\* Mutant: a single directory for the receipts of both phases.
RetainTogether(p, i, r) == summary' = [summary EXCEPT ![i] = r] /\ UNCHANGED verify

\* The bytes r are retained as receipt i of phase p.
Retain(p, i, r) ==
    IF p = "summary"
    THEN summary' = [summary EXCEPT ![i] = r] /\ UNCHANGED verify
    ELSE verify' = [verify EXCEPT ![i] = r] /\ UNCHANGED summary

Receipts(p, i) == IF p = "summary" THEN SummaryReceipt(i) ELSE VerifyReceipt(i)

\* _validate_and_retain_receipt accepts the bytes: they replay the table read
\* earlier and no other bytes are retained.
Acceptable(p, i, r, table) ==
    /\ p = "verify" => Replays(r, table, i)
    /\ Retained(p, i) \in {None, r}

\* ingest_receipt: a receipt that was computed elsewhere.
IngestReceipt(c, p, i) ==
    /\ op[c] = "idle"
    /\ lock = None
    /\ SetupReady
    /\ p = "verify" => DerivedReady
    /\ \E r \in Receipts(p, i) : Acceptable(p, i, r, summary) /\ Retain(p, i, r)
    /\ UNCHANGED <<setup, derived, leaf, final, registered, lock, locals>>

\* run_phase selects, under the lock, those of the wanted shards that have no
\* receipt, keeps the tables it loaded, and starts the first runners.
StartPhase(c, p, wanted, n) ==
    LET selected == {i \in wanted : Retained(p, i) = None} IN
    /\ op[c] = "idle"
    /\ lock = None
    /\ SetupReady
    /\ p = "verify" => DerivedReady
    /\ selected # {}
    /\ \E started \in SUBSET selected :
          /\ Cardinality(started) = IF n < Cardinality(selected) THEN n ELSE Cardinality(selected)
          /\ kid' = [kid EXCEPT ![c] = [i \in Shards |-> IF i \in started THEN "running" ELSE "none"]]
          /\ queue' = [queue EXCEPT ![c] = selected \ started]
    /\ op' = [op EXCEPT ![c] = "run_phase"]
    /\ phase' = [phase EXCEPT ![c] = p]
    /\ seen' = [seen EXCEPT ![c] = summary]
    /\ cancel' = [cancel EXCEPT ![c] = FALSE]
    /\ UNCHANGED <<files, lock, identity, at>>

\* A runner prints its receipt and ends, or ends in an error or a timeout.  The
\* bytes it printed are chosen when they are looked at.
RunnerEnds(c, i) ==
    /\ kid[c][i] = "running"
    /\ \E s \in {"reported", "failed"} : kid' = [kid EXCEPT ![c][i] = s]
    /\ UNCHANGED <<files, lock, op, identity, phase, seen, queue, cancel, at>>

\* The main thread takes a finished runner whose receipt it can retain, and
\* submits the next shard in its slot.
RetainResult(c, i) ==
    /\ op[c] = "run_phase"
    /\ kid[c][i] = "reported"
    /\ lock = None
    /\ \E r \in Receipts(phase[c], i) :
          Acceptable(phase[c], i, r, seen[c]) /\ Retain(phase[c], i, r)
    /\ IF queue[c] = {}
       THEN kid' = [kid EXCEPT ![c][i] = "none"] /\ UNCHANGED queue
       ELSE \E j \in queue[c] :
              /\ kid' = [kid EXCEPT ![c] = [@ EXCEPT ![i] = "none", ![j] = "running"]]
              /\ queue' = [queue EXCEPT ![c] = @ \ {j}]
    /\ UNCHANGED <<setup, derived, leaf, final, registered, lock,
                   op, identity, phase, seen, cancel, at>>

\* Mutant: a runner that failed or timed out is not taken.
FailResultRefused(c, i) ==
    /\ op[c] = "run_phase"
    /\ kid[c][i] = "reported"
    /\ lock = None
    /\ \E r \in Receipts(phase[c], i) : ~Acceptable(phase[c], i, r, seen[c])
    /\ op' = [op EXCEPT ![c] = "abort"]
    /\ cancel' = [cancel EXCEPT ![c] = TRUE]
    /\ queue' = [queue EXCEPT ![c] = {}]
    /\ kid' = [kid EXCEPT ![c][i] = "none"]
    /\ UNCHANGED <<files, lock, identity, phase, seen, at>>

\* The main thread takes a runner that failed, or whose receipt is refused: it
\* sets cancel_event, drops the results of the others and waits for them.
FailResult(c, i) ==
    /\ op[c] = "run_phase"
    /\ \/ kid[c][i] = "failed"
       \/ /\ kid[c][i] = "reported"
          /\ lock = None
          /\ \E r \in Receipts(phase[c], i) : ~Acceptable(phase[c], i, r, seen[c])
    /\ op' = [op EXCEPT ![c] = "abort"]
    /\ cancel' = [cancel EXCEPT ![c] = TRUE]
    /\ queue' = [queue EXCEPT ![c] = {}]
    /\ kid' = [kid EXCEPT ![c][i] = "none"]
    /\ UNCHANGED <<files, lock, identity, phase, seen, at>>

\* A KeyboardInterrupt.  The handler that sets cancel_event covers the taking
\* of a result only; in wait() nothing sets it, the runners go on, and leaving
\* the executor waits for them.
Interrupt(c) ==
    /\ op[c] = "run_phase"
    /\ op' = [op EXCEPT ![c] = "abort"]
    /\ queue' = [queue EXCEPT ![c] = {}]
    /\ \/ UNCHANGED cancel
       \/ /\ \E i \in Shards : kid[c][i] \in {"reported", "failed"}
          /\ cancel' = [cancel EXCEPT ![c] = TRUE]
    /\ UNCHANGED <<files, lock, identity, phase, seen, kid, at>>

\* A thread that polls the set cancel_event kills its runner.
CancelRunner(c, i) ==
    /\ cancel[c]
    /\ kid[c][i] = "running"
    /\ kid' = [kid EXCEPT ![c][i] = "failed"]
    /\ UNCHANGED <<files, lock, op, identity, phase, seen, queue, cancel, at>>

\* Leaving the executor after an error: every runner has ended.
EndAbort(c) ==
    /\ op[c] = "abort"
    /\ \A i \in Shards : kid[c][i] # "running"
    /\ Return(c)
    /\ UNCHANGED <<files, lock>>

\* All selected shards are retained: run_phase ends with verify_campaign.
EndPhase(c) ==
    /\ op[c] = "run_phase"
    /\ kid[c] = NoKid
    /\ lock = None
    /\ Return(c)
    /\ UNCHANGED <<files, lock>>

-----------------------------------------------------------------------------
(* Reduction, certificate and registered result                            *)

\* reduce_summaries: one write-once file, derived from a complete set.
ReduceSummaries(c) ==
    /\ op[c] = "idle"
    /\ lock = None
    /\ SetupReady
    /\ Complete(summary)
    /\ derived \in {None, summary}
    /\ derived' = summary
    /\ UNCHANGED <<setup, summary, verify, leaf, final, registered, lock, locals>>

\* Mutant: the verify receipts that are there are checked, not that all are.
StartFinalizePartial(c) ==
    /\ op[c] = "idle"
    /\ lock = None
    /\ SetupReady
    /\ DerivedReady
    /\ \A i \in Shards : verify[i] # None => Replays(verify[i], summary, i)
    /\ lock' = c
    /\ op' = [op EXCEPT ![c] = "finalize"]
    /\ at' = [at EXCEPT ![c] = 0]
    /\ UNCHANGED <<files, identity, phase, seen, queue, kid, cancel>>

\* finalize_campaign checks the two phases and takes the lock for its writes.
StartFinalize(c) ==
    /\ op[c] = "idle"
    /\ lock = None
    /\ SetupReady
    /\ DerivedReady
    /\ Complete(verify)
    /\ \A i \in Shards : Replays(verify[i], summary, i)
    /\ lock' = c
    /\ op' = [op EXCEPT ![c] = "finalize"]
    /\ at' = [at EXCEPT ![c] = 0]
    /\ UNCHANGED <<files, identity, phase, seen, queue, kid, cancel>>

\* The next leaf, write-once: one that holds other bytes ends the command.
WriteLeaf(c) ==
    /\ op[c] = "finalize"
    /\ at[c] < ShardCount
    /\ IF leaf[at[c]] \in {None, LeafOf(at[c])}
       THEN /\ leaf' = [leaf EXCEPT ![at[c]] = LeafOf(at[c])]
            /\ at' = [at EXCEPT ![c] = @ + 1]
            /\ UNCHANGED <<lock, op, identity, phase, seen, queue, kid, cancel>>
       ELSE /\ Return(c)
            /\ lock' = None
            /\ UNCHANGED leaf
    /\ UNCHANGED <<setup, summary, derived, verify, final, registered>>

\* The final certificate, write-once, after every leaf.
WriteFinal(c) ==
    /\ op[c] = "finalize"
    /\ at[c] = ShardCount
    /\ final' = IF Chained /\ final = None THEN FinalPayload ELSE final
    /\ Return(c)
    /\ lock' = None
    /\ UNCHANGED <<setup, summary, derived, verify, leaf, registered>>

\* write_registered_result replays the complete campaign of a full-source plan
\* under the lock and creates the result exclusively.
CreateRegisteredResult(c) ==
    /\ op[c] = "idle"
    /\ lock = None
    /\ final # None
    /\ Verifies
    /\ setup[5] \in FullSource
    /\ registered = "absent"
    /\ registered' = "empty"
    /\ lock' = c
    /\ op' = [op EXCEPT ![c] = "register"]
    /\ UNCHANGED <<setup, summary, derived, verify, leaf, final,
                   identity, phase, seen, queue, kid, cancel, at>>

\* It writes its bytes; after a kill in front of this the file stays empty.
WriteRegisteredResult(c) ==
    /\ op[c] = "register"
    /\ registered' = "true"
    /\ Return(c)
    /\ lock' = None
    /\ UNCHANGED <<setup, summary, derived, verify, leaf, final>>

\* A kill at any point of a command: the files stay, the lock is released.  Its
\* runners may live on, but nobody reads what they print.
Kill(c) ==
    /\ op[c] # "idle"
    /\ Return(c)
    /\ lock' = IF lock = c THEN None ELSE lock
    /\ UNCHANGED files

-----------------------------------------------------------------------------
\* The steps a process takes by itself once it runs a command.
Program(c) ==
    \/ WriteSetup(c)
    \/ \E i \in Shards : RetainResult(c, i) \/ FailResult(c, i)
    \/ EndAbort(c) \/ EndPhase(c)
    \/ WriteLeaf(c) \/ WriteFinal(c) \/ WriteRegisteredResult(c)

Command(c) ==
    \/ \E x \in Identity : Initialize(c, x)
    \/ \E p \in {"summary", "verify"} :
          \/ \E i \in Shards : IngestReceipt(c, p, i)
          \/ \E wanted \in SUBSET Shards, n \in Workers : StartPhase(c, p, wanted, n)
    \/ ReduceSummaries(c) \/ StartFinalize(c) \/ CreateRegisteredResult(c)

Runner(c, i) == RunnerEnds(c, i) \/ CancelRunner(c, i)

Next ==
    \E c \in Caller :
        \/ Command(c) \/ Program(c)
        \/ \E i \in Shards : Runner(c, i)
        \/ Interrupt(c) \/ Kill(c)

Spec == Init /\ [][Next]_vars

\* A runner ends (run_phase gives it a timeout or it is finite); a process
\* that waits for the lock gets it, since flock queues its waiters.
FairSpec ==
    /\ Spec
    /\ \A c \in Caller : SF_vars(Program(c)) /\ \A i \in Shards : WF_vars(Runner(c, i))

-----------------------------------------------------------------------------
(* Properties                                                              *)

\* A complete directory replays at every moment: no interleaving of set-ups,
\* runs, ingests, reductions and kills leaves files that make verify_campaign
\* raise.  In particular its captures come from one initialize.
DirectoryVerifies == (\A f \in SetupFiles : setup[f] # None) => Verifies

\* A registered result stands on a certificate whose every shard was computed
\* twice with the same outcome, the second time from the chained state.
RegisteredReplayed ==
    registered = "true" =>
        /\ final # None
        /\ \A i \in Shards :
              /\ final.verified[i].report = final.derived[i].report
              /\ final.verified[i].guard = Incoming(summary)[i]

\* No file that was written once ever changes or disappears.
FilesStable ==
    [][ /\ \A i \in Shards :
             /\ summary[i] # None => summary'[i] = summary[i]
             /\ verify[i] # None => verify'[i] = verify[i]
             /\ leaf[i] # None => leaf'[i] = leaf[i]
        /\ \A f \in SetupFiles : setup[f] # None => setup'[f] = setup[f]
        /\ derived # None => derived' = derived
        /\ final # None => final' = final ]_vars

\* Every command ends, also one whose runner failed or was refused.
CommandsEnd == \A c \in Caller : op[c] # "idle" ~> op[c] = "idle"

\* The campaign implements the two-phase ledger.
Ledger ==
    INSTANCE PhaseLedger WITH
        First <- AnySummary, Second <- AnyVerify,
        first <- summary, second <- verify, certificate <- final

LedgerSpec == Ledger!Spec
=============================================================================
