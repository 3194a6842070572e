--------------------------- MODULE BundleSupervisor ---------------------------
(***************************************************************************)
(* The t-block supervisor with typed bundles                               *)
(* (tg_verifier/dirichlet_tblock_bundle_supervisor.py): a run resumes the  *)
(* hash-chained checkpoints of one directory, feeds the next blocks to a   *)
(* worker process, and per block stages the bundles of the worker, reduces *)
(* them to a compact state and installs a checkpoint; the run that ends    *)
(* the lane installs the receipt.  No lock protects the directory.         *)
(*                                                                         *)
(* A hash chain binds everything before it, so a checkpoint is modelled as *)
(* the worker and the entries of all blocks up to its own.                 *)
(***************************************************************************)
EXTENDS Naturals, Sequences, SequencesExt

CONSTANTS
    Supervisor,   \* processes that run the supervisor on the directory
    Worker,       \* handshakes (worker implementations) they may be given
    BlockCount,   \* blocks of the lane
    FrameCount,   \* active targets, hence bundles, of a block
    Bundle,       \* bundles that replay for a target
    Response,     \* responses to one request: they contain timings
    None

ASSUME CountAssumption == BlockCount \in Nat \ {0} /\ FrameCount \in Nat \ {0}

Blocks == 1 .. BlockCount

VARIABLES
    artifact,     \* artifact[k]: the staged bundles of block k, in order
    compact,      \* compact[k]: the state files of block k, in order: what each merges
    checkpoint,   \* checkpoint[k], or None
    receipt,      \* the final receipt, or None
    run,          \* run[s]: what the process is doing
    overlapped    \* two runs were ever under way at once (history)

files == <<artifact, compact, checkpoint, receipt>>
vars  == <<files, run, overlapped>>

Bundles == [1 .. FrameCount -> Bundle]
Entry   == [bundles : Bundles, response : Response]
Chain   == UNION {[1 .. k -> Entry] : k \in 0 .. BlockCount}
Record  == [worker : Worker, chain : Chain]

ASSUME NoneAssumption == None \notin Record

Idle == [pc |-> "idle", worker |-> None, chain |-> <<>>, taken |-> <<>>,
         merged |-> 0, listed |-> 0, left |-> 0]

TypeOK ==
    /\ artifact \in [Blocks -> UNION {[1 .. f -> Bundle] : f \in 0 .. FrameCount}]
    /\ compact \in [Blocks -> UNION {[1 .. f -> UNION {[1 .. k -> Bundle] : k \in Blocks}] :
                                   f \in 0 .. FrameCount}]
    /\ checkpoint \in [Blocks -> Record \cup {None}]
    /\ receipt \in Record \cup {None}
    /\ run \in [Supervisor ->
          [pc : {"idle", "list", "resume", "block", "reduce", "state", "respond", "install", "receipt"},
           worker : Worker \cup {None}, chain : Chain,
           taken : UNION {[1 .. f -> Bundle] : f \in 0 .. FrameCount},
           merged : 0 .. FrameCount, listed : 0 .. BlockCount, left : 0 .. BlockCount]]
    /\ overlapped \in BOOLEAN

Init ==
    /\ artifact = [k \in Blocks |-> <<>>]
    /\ compact = [k \in Blocks |-> <<>>]
    /\ checkpoint = [k \in Blocks |-> None]
    /\ receipt = None
    /\ run = [s \in Supervisor |-> Idle]
    /\ overlapped = FALSE

-----------------------------------------------------------------------------
At(s, pc) == run[s].pc = pc

Update(s, r) == run' = [run EXCEPT ![s] = r]

\* The block a run works on.
Current(s) == Len(run[s].chain) + 1

\* The state of target f after a chain: the merge of its bundle of every block.
Merge(chain, f) == [j \in DOMAIN chain |-> chain[j].bundles[f]]

\* There is no receipt; the worker is launched and its handshake accepted.
Start(s, w, n) ==
    /\ At(s, "idle")
    /\ receipt = None
    /\ Update(s, [Idle EXCEPT !.pc = "list", !.worker = w, !.left = n])
    /\ overlapped' = (overlapped \/ \E t \in Supervisor : ~At(t, "idle"))
    /\ UNCHANGED files

\* _existing_checkpoint_paths: the names of the checkpoints have no gap.
ListCheckpoints(s) ==
    /\ At(s, "list")
    /\ \E n \in 0 .. BlockCount :
          /\ \A k \in Blocks : checkpoint[k] # None <=> k <= n
          /\ Update(s, [run[s] EXCEPT !.pc = "resume", !.listed = n])
    /\ UNCHANGED <<files, overlapped>>

\* The record r of block k continues the chain of worker w, and its bundles and
\* its state files replay.
Resumable(r, k, w, chain) ==
    /\ r # None
    /\ r.worker = w
    /\ Front(r.chain) = chain
    /\ artifact[k] = Last(r.chain).bundles
    /\ compact[k] = [f \in 1 .. FrameCount |-> Merge(r.chain, f)]

\* Mutant: the chain may begin with the handshake of another worker.
ResumeCheckpointAnyWorker(s) ==
    /\ At(s, "resume")
    /\ Current(s) <= run[s].listed
    /\ \E w \in Worker : Resumable(checkpoint[Current(s)], Current(s), w, run[s].chain)
    /\ Update(s, [run[s] EXCEPT !.chain = checkpoint[Current(s)].chain])
    /\ UNCHANGED <<files, overlapped>>

\* _resume replays the listed checkpoints one by one.
ResumeCheckpoint(s) ==
    /\ At(s, "resume")
    /\ Current(s) <= run[s].listed
    /\ Resumable(checkpoint[Current(s)], Current(s), run[s].worker, run[s].chain)
    /\ Update(s, [run[s] EXCEPT !.chain = checkpoint[Current(s)].chain])
    /\ UNCHANGED <<files, overlapped>>

EndResume(s) ==
    /\ At(s, "resume")
    /\ Current(s) > run[s].listed
    /\ Update(s, [run[s] EXCEPT !.pc = "block"])
    /\ UNCHANGED <<files, overlapped>>

\* Mutant: a staged bundle is replaced.
AdmitBundleReplaces(s, b) ==
    LET k == Current(s)
        f == Len(run[s].taken) + 1 IN
    /\ At(s, "block")
    /\ k \in Blocks /\ run[s].left > 0 /\ f <= FrameCount
    /\ artifact' = [artifact EXCEPT ![k] = IF Len(@) < f THEN Append(@, b) ELSE [@ EXCEPT ![f] = b]]
    /\ Update(s, [run[s] EXCEPT !.taken = Append(@, b), !.pc = IF f = FrameCount THEN "reduce" ELSE "block"])
    /\ UNCHANGED <<compact, checkpoint, receipt, overlapped>>

\* Mutant: one bundle more than the block has targets is taken.
AdmitBundleOneMore(s, b) ==
    LET k == Current(s)
        f == Len(run[s].taken) + 1 IN
    /\ At(s, "block")
    /\ k \in Blocks /\ run[s].left > 0 /\ f <= FrameCount + 1
    /\ \/ Len(artifact[k]) < f /\ artifact' = [artifact EXCEPT ![k] = Append(@, b)]
       \/ Len(artifact[k]) >= f /\ artifact[k][f] = b /\ UNCHANGED artifact
    /\ Update(s, [run[s] EXCEPT !.taken = Append(@, b), !.pc = IF f = FrameCount + 1 THEN "reduce" ELSE "block"])
    /\ UNCHANGED <<compact, checkpoint, receipt, overlapped>>

\* _admit_raw_bundle: the worker sends the next bundle, which replays; it is
\* linked to its name, or equals the bundle that is there.
AdmitBundle(s, b) ==
    LET k == Current(s)
        f == Len(run[s].taken) + 1 IN
    /\ At(s, "block")
    /\ k \in Blocks /\ run[s].left > 0 /\ f <= FrameCount
    /\ \/ Len(artifact[k]) < f /\ artifact' = [artifact EXCEPT ![k] = Append(@, b)]
       \/ Len(artifact[k]) >= f /\ artifact[k][f] = b /\ UNCHANGED artifact
    /\ Update(s, [run[s] EXCEPT !.taken = Append(@, b), !.pc = IF f = FrameCount THEN "reduce" ELSE "block"])
    /\ UNCHANGED <<compact, checkpoint, receipt, overlapped>>

\* The state that a run writes for the next target of its block.
NextState(s) ==
    Append(Merge(run[s].chain, run[s].merged + 1), run[s].taken[run[s].merged + 1])

\* The state of the target is in place; after the last one the worker responds.
StateDone(s) ==
    Update(s, [run[s] EXCEPT !.merged = @ + 1,
                             !.pc = IF run[s].merged + 1 = FrameCount THEN "respond" ELSE "reduce"])

\* write_compact_state_binary: a state file that is there must be equal ...
CheckState(s) ==
    LET k == Current(s)
        f == run[s].merged + 1 IN
    /\ At(s, "reduce")
    /\ \/ Len(compact[k]) < f /\ Update(s, [run[s] EXCEPT !.pc = "state"])
       \/ Len(compact[k]) >= f /\ compact[k][f] = NextState(s) /\ StateDone(s)
    /\ UNCHANGED <<files, overlapped>>

\* ... else it is renamed into place, whatever came there meanwhile.
ReplaceState(s) ==
    LET k == Current(s)
        f == run[s].merged + 1 IN
    /\ At(s, "state")
    /\ compact' = [compact EXCEPT ![k] = IF Len(@) < f THEN Append(@, NextState(s))
                                        ELSE [@ EXCEPT ![f] = NextState(s)]]
    /\ StateDone(s)
    /\ UNCHANGED <<artifact, checkpoint, receipt, overlapped>>

\* The worker responds; _atomic_json finds no checkpoint of the block ...
Respond(s, r) ==
    /\ At(s, "respond")
    /\ checkpoint[Current(s)] = None
    /\ Update(s, [run[s] EXCEPT !.pc = "install",
                    !.chain = Append(@, [bundles |-> run[s].taken, response |-> r])])
    /\ UNCHANGED <<files, overlapped>>

\* ... and renames the checkpoint into place, whatever came there meanwhile.
InstallCheckpoint(s) ==
    /\ At(s, "install")
    /\ checkpoint' = [checkpoint EXCEPT ![Len(run[s].chain)] =
                         [worker |-> run[s].worker, chain |-> run[s].chain]]
    /\ Update(s, [run[s] EXCEPT !.pc = "block", !.taken = <<>>, !.merged = 0, !.left = @ - 1])
    /\ UNCHANGED <<artifact, compact, receipt, overlapped>>

\* Mutant: a run that stops early issues its receipt too.
FinishPartial(s) ==
    /\ At(s, "block")
    /\ Current(s) > BlockCount \/ run[s].left = 0
    /\ receipt = None /\ Update(s, [run[s] EXCEPT !.pc = "receipt"])
    /\ UNCHANGED <<files, overlapped>>

\* The worker ends with its input.  A complete lane gets a receipt, and
\* _atomic_json finds none; a run that reached its limit ends.
Finish(s) ==
    /\ At(s, "block")
    /\ \/ Current(s) > BlockCount /\ receipt = None /\ Update(s, [run[s] EXCEPT !.pc = "receipt"])
       \/ Current(s) \in Blocks /\ run[s].left = 0 /\ Update(s, Idle)
    /\ UNCHANGED <<files, overlapped>>

InstallReceipt(s) ==
    /\ At(s, "receipt")
    /\ receipt' = [worker |-> run[s].worker, chain |-> run[s].chain]
    /\ Update(s, Idle)
    /\ UNCHANGED <<artifact, compact, checkpoint, overlapped>>

\* A check or a file operation fails, the worker closes its output, or the run
\* is killed, and its worker ends with it.  Temporary files have other names.
End(s) ==
    /\ ~At(s, "idle")
    /\ Update(s, Idle)
    /\ UNCHANGED <<files, overlapped>>

Next ==
    \E s \in Supervisor :
        \/ \E w \in Worker, n \in Blocks : Start(s, w, n)
        \/ ListCheckpoints(s) \/ ResumeCheckpoint(s) \/ EndResume(s)
        \/ \E b \in Bundle : AdmitBundle(s, b)
        \/ CheckState(s) \/ ReplaceState(s)
        \/ \E r \in Response : Respond(s, r)
        \/ InstallCheckpoint(s) \/ Finish(s) \/ InstallReceipt(s) \/ End(s)

Spec == Init /\ [][Next]_vars

-----------------------------------------------------------------------------
(* Properties                                                              *)

\* What is committed to is what is staged: a checkpoint, a state file or the
\* receipt commits to the bundles in the directory, though runs of different
\* workers that answer differently overlap and are killed anywhere.
BundlesAgree ==
    /\ \A k \in Blocks :
          /\ checkpoint[k] # None =>
                \A j \in 1 .. k : checkpoint[k].chain[j].bundles = artifact[j]
          /\ \A f \in DOMAIN compact[k] :
                compact[k][f] = [j \in 1 .. k |-> artifact[j][f]]
    /\ receipt # None =>
          \A j \in DOMAIN receipt.chain : receipt.chain[j].bundles = artifact[j]

\* As long as runs do not overlap, the directory can be resumed at every moment
\* by the worker that began it, whatever kills left behind.
DirectoryResumes ==
    ~overlapped =>
        \A k \in Blocks : checkpoint[k] # None =>
            \A j \in 1 .. k :
                Resumable(checkpoint[j], j, checkpoint[k].worker, SubSeq(checkpoint[k].chain, 1, j - 1))

\* As long as runs do not overlap, the receipt is for the chain of checkpoints.
ReceiptIsDirectory == ~overlapped /\ receipt # None => receipt = checkpoint[BlockCount]
=============================================================================
