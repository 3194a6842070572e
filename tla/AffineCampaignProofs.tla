------------------------- MODULE AffineCampaignProofs -------------------------
(***************************************************************************)
(* For any number of shards and processes, and any reports the runners may *)
(* give: a set-up is whole, the directory verifies at every moment, what   *)
(* was written once stays, and the campaign implements the phase ledger.   *)
(***************************************************************************)
EXTENDS AffineCampaign, TLAPS

\* The lock is held by the process that writes a set-up, a certificate or a
\* registered result.
LockHeld == \A c \in Caller : lock = c <=> op[c] \in {"initialize", "finalize", "register"}

\* The files of a set-up agree, and one initialize writes them in order.
SetupAgrees ==
    \A f, g \in SetupFiles : setup[f] # None /\ setup[g] # None => setup[f] = setup[g]

Writes(c) ==
    op[c] = "initialize" =>
        /\ at[c] \in 0 .. 4
        /\ \A f \in SetupFiles : setup[f] = IF f <= at[c] THEN identity[c] ELSE None

Derives == derived # None => Complete(summary) /\ derived = summary

Replayed ==
    \A i \in Shards : verify[i] # None => derived # None /\ Replays(verify[i], summary, i)

\* The table that a run of phase two loaded is still the table.
Loaded(c) ==
    op[c] = "run_phase" /\ phase[c] = "verify" => derived # None /\ seen[c] = summary

LeavesDerived == \A i \in Shards : leaf[i] # None => derived # None /\ leaf[i] = LeafOf(i)

\* A finalize has seen both phases complete, and has written leaves in order.
Certifies(c) ==
    op[c] = "finalize" =>
        /\ derived # None /\ Complete(verify)
        /\ at[c] \in 0 .. ShardCount
        /\ \A i \in Shards : i < at[c] => leaf[i] = LeafOf(i)

Certified ==
    final # None =>
        /\ derived # None /\ Complete(verify) /\ Chained
        /\ \A i \in Shards : leaf[i] = LeafOf(i)
        /\ final = FinalPayload

\* A command that registers has created its file.
Registers(c) == op[c] = "register" => registered # "absent"

FilesInv ==
    Derives /\ Replayed /\ LeavesDerived /\ Certified
    /\ (registered # "absent" => final # None)

IInv ==
    /\ TypeOK /\ LockHeld /\ SetupAgrees /\ FilesInv
    /\ \A c \in Caller : Writes(c) /\ Loaded(c) /\ Registers(c) /\ Certifies(c)

-----------------------------------------------------------------------------
(* Types                                                                   *)

(* A receipt that is retained keeps the tables well-typed.                 *)
LEMMA RetainTyped ==
  ASSUME TypeOK, NEW p \in {"summary", "verify"}, NEW i \in Shards,
         NEW r \in Receipts(p, i), Retain(p, i, r)
  PROVE  /\ summary' \in SummaryTable
         /\ verify' \in [Shards -> AnyVerify \cup {None}]
<1>1. CASE p = "summary"
  <2>1. r \in AnySummary
    BY <1>1 DEF Receipts, AnySummary
  <2> QED
    BY <1>1, <2>1 DEF Retain, TypeOK, SummaryTable
<1>2. CASE p = "verify"
  <2>1. r \in AnyVerify
    BY <1>2 DEF Receipts, AnyVerify
  <2> QED
    BY <1>2, <2>1 DEF Retain, TypeOK, SummaryTable
<1> QED
  BY <1>1, <1>2

LEMMA ReturnTyped ==
  ASSUME TypeOK, NEW c \in Caller, Return(c)
  PROVE  /\ op' \in [Caller -> Ops]
         /\ identity' \in [Caller -> Identity \cup {None}]
         /\ phase' \in [Caller -> {"summary", "verify"}]
         /\ seen' \in [Caller -> SummaryTable]
         /\ queue' \in [Caller -> SUBSET Shards]
         /\ kid' \in [Caller -> [Shards -> {"none", "running", "reported", "failed"}]]
         /\ cancel' \in [Caller -> BOOLEAN]
         /\ at' \in [Caller -> Nat]
<1>1. NoReceipt \in SummaryTable
  BY DEF NoReceipt, SummaryTable
<1>2. NoKid \in [Shards -> {"none", "running", "reported", "failed"}]
  BY DEF NoKid
<1> QED
  BY <1>1, <1>2 DEF Return, TypeOK, Ops

LEMMA KidTyped ==
  ASSUME TypeOK, NEW c \in Caller, NEW i \in Shards,
         NEW s \in {"none", "running", "reported", "failed"}
  PROVE  [kid EXCEPT ![c][i] = s]
           \in [Caller -> [Shards -> {"none", "running", "reported", "failed"}]]
<1>1. kid \in [Caller -> [Shards -> {"none", "running", "reported", "failed"}]]
  BY DEF TypeOK
<1> QED
  BY <1>1

LEMMA InitTyped == Init => TypeOK
<1> SUFFICES ASSUME Init
             PROVE  TypeOK
  OBVIOUS
<1>1. NoReceipt \in SummaryTable /\ NoReceipt \in [Shards -> AnyVerify \cup {None}]
  BY DEF NoReceipt, SummaryTable
<1>2. NoKid \in [Shards -> {"none", "running", "reported", "failed"}]
  BY DEF NoKid
<1>3. DOMAIN NoReceipt = Shards
  BY DEF NoReceipt
<1>4. setup \in [SetupFiles -> Identity \cup {None}] /\ lock \in Caller \cup {None}
  BY DEF Init
<1>5. /\ op \in [Caller -> Ops] /\ identity \in [Caller -> Identity \cup {None}]
      /\ phase \in [Caller -> {"summary", "verify"}]
      /\ cancel \in [Caller -> BOOLEAN] /\ at \in [Caller -> Nat]
  BY DEF Init, Ops
<1>6. /\ seen \in [Caller -> SummaryTable] /\ queue \in [Caller -> SUBSET Shards]
      /\ kid \in [Caller -> [Shards -> {"none", "running", "reported", "failed"}]]
  BY <1>1, <1>2 DEF Init
<1> QED
  BY <1>1, <1>3, <1>4, <1>5, <1>6 DEF Init, TypeOK

(* Every step preserves the types.                                         *)
LEMMA TypeInductive == TypeOK /\ [Next]_vars => TypeOK'
<1> SUFFICES ASSUME TypeOK, [Next]_vars
             PROVE  TypeOK'
  OBVIOUS
<1>1. ASSUME NEW c \in Caller, NEW x \in Identity, Initialize(c, x)
      PROVE  TypeOK'
  BY <1>1 DEF Initialize, TypeOK, files, Ops
<1>2. ASSUME NEW c \in Caller, WriteSetup(c)
      PROVE  TypeOK'
  <2>1. setup' \in [SetupFiles -> Identity \cup {None}]
    BY <1>2 DEF WriteSetup, TypeOK
  <2>2. CASE Return(c) /\ lock' = None
    BY <1>2, <2>1, <2>2, ReturnTyped DEF WriteSetup, TypeOK
  <2>3. CASE /\ at' = [at EXCEPT ![c] = @ + 1]
             /\ UNCHANGED <<lock, op, identity, phase, seen, queue, kid, cancel>>
    BY <1>2, <2>1, <2>3 DEF WriteSetup, TypeOK
  <2> QED
    BY <1>2, <2>2, <2>3 DEF WriteSetup
<1>3. ASSUME NEW c \in Caller, NEW p \in {"summary", "verify"}, NEW i \in Shards,
             IngestReceipt(c, p, i)
      PROVE  TypeOK'
  <2>1. PICK r \in Receipts(p, i) : Retain(p, i, r)
    BY <1>3 DEF IngestReceipt
  <2> QED
    BY <1>3, <2>1, RetainTyped DEF IngestReceipt, TypeOK, locals
<1>4. ASSUME NEW c \in Caller, NEW p \in {"summary", "verify"},
             NEW wanted \in SUBSET Shards, NEW n \in Workers,
             StartPhase(c, p, wanted, n)
      PROVE  TypeOK'
  <2> DEFINE selected == {i \in wanted : Retained(p, i) = None}
  <2>1. PICK started \in SUBSET selected :
          /\ kid' = [kid EXCEPT ![c] =
                       [i \in Shards |-> IF i \in started THEN "running" ELSE "none"]]
          /\ queue' = [queue EXCEPT ![c] = selected \ started]
    BY <1>4 DEF StartPhase
  <2>2. selected \ started \in SUBSET Shards
    OBVIOUS
  <2>3. kid' \in [Caller -> [Shards -> {"none", "running", "reported", "failed"}]]
    BY <2>1 DEF TypeOK
  <2>4. queue' \in [Caller -> SUBSET Shards]
    BY <2>1, <2>2 DEF TypeOK
  <2> QED
    BY <1>4, <2>3, <2>4 DEF StartPhase, TypeOK, files, Ops
<1>5. ASSUME NEW c \in Caller, NEW i \in Shards, RunnerEnds(c, i) \/ CancelRunner(c, i)
      PROVE  TypeOK'
  <2>1. PICK s \in {"none", "running", "reported", "failed"} :
          kid' = [kid EXCEPT ![c][i] = s]
    BY <1>5 DEF RunnerEnds, CancelRunner
  <2>2. kid' \in [Caller -> [Shards -> {"none", "running", "reported", "failed"}]]
    BY <2>1, KidTyped
  <2> QED
    BY <1>5, <2>2 DEF RunnerEnds, CancelRunner, TypeOK, files
<1>6. ASSUME NEW c \in Caller, NEW i \in Shards, RetainResult(c, i)
      PROVE  TypeOK'
  <2>1. PICK p \in {"summary", "verify"} :
          p = phase[c] /\ \E r \in Receipts(p, i) : Retain(p, i, r)
    BY <1>6 DEF RetainResult, TypeOK
  <2>2. /\ kid' \in [Caller -> [Shards -> {"none", "running", "reported", "failed"}]]
        /\ queue' \in [Caller -> SUBSET Shards]
    <3>1. CASE queue[c] = {}
      <4>1. kid' = [kid EXCEPT ![c][i] = "none"] /\ queue' = queue
        BY <1>6, <3>1 DEF RetainResult
      <4> QED
        BY <4>1, KidTyped DEF TypeOK
    <3>2. CASE queue[c] # {}
      <4>1. PICK j \in queue[c] :
              /\ kid' = [kid EXCEPT ![c] = [@ EXCEPT ![i] = "none", ![j] = "running"]]
              /\ queue' = [queue EXCEPT ![c] = @ \ {j}]
        BY <1>6, <3>2 DEF RetainResult
      <4> QED
        BY <4>1 DEF TypeOK
    <3> QED
      BY <3>1, <3>2
  <2> QED
    BY <1>6, <2>1, <2>2, RetainTyped DEF RetainResult, TypeOK
<1>7. ASSUME NEW c \in Caller, NEW i \in Shards, FailResult(c, i)
      PROVE  TypeOK'
  BY <1>7 DEF FailResult, TypeOK, files, Ops
<1>8. ASSUME NEW c \in Caller, Interrupt(c)
      PROVE  TypeOK'
  BY <1>8 DEF Interrupt, TypeOK, files, Ops
<1>9. ASSUME NEW c \in Caller, EndAbort(c) \/ EndPhase(c)
      PROVE  TypeOK'
  BY <1>9, ReturnTyped DEF EndAbort, EndPhase, TypeOK, files
<1>10. ASSUME NEW c \in Caller, ReduceSummaries(c)
       PROVE  TypeOK'
  BY <1>10 DEF ReduceSummaries, TypeOK, locals
<1>11. ASSUME NEW c \in Caller, StartFinalize(c)
       PROVE  TypeOK'
  BY <1>11 DEF StartFinalize, TypeOK, files, Ops
<1>12. ASSUME NEW c \in Caller, WriteLeaf(c)
       PROVE  TypeOK'
  <2>1. CASE /\ leaf' = [leaf EXCEPT ![at[c]] = LeafOf(at[c])]
             /\ at' = [at EXCEPT ![c] = @ + 1]
             /\ UNCHANGED <<lock, op, identity, phase, seen, queue, kid, cancel>>
    BY <1>12, <2>1 DEF WriteLeaf, TypeOK
  <2>2. CASE Return(c) /\ lock' = None /\ UNCHANGED leaf
    BY <1>12, <2>2, ReturnTyped DEF WriteLeaf, TypeOK
  <2> QED
    BY <1>12, <2>1, <2>2 DEF WriteLeaf
<1>13. ASSUME NEW c \in Caller, WriteFinal(c)
       PROVE  TypeOK'
  BY <1>13, ReturnTyped DEF WriteFinal, TypeOK
<1>14. ASSUME NEW c \in Caller, CreateRegisteredResult(c)
       PROVE  TypeOK'
  BY <1>14 DEF CreateRegisteredResult, TypeOK, Ops
<1>15. ASSUME NEW c \in Caller, WriteRegisteredResult(c)
       PROVE  TypeOK'
  BY <1>15, ReturnTyped DEF WriteRegisteredResult, TypeOK
<1>16. ASSUME NEW c \in Caller, Kill(c)
       PROVE  TypeOK'
  BY <1>16, ReturnTyped DEF Kill, TypeOK, files
<1>17. CASE UNCHANGED vars
  BY <1>17 DEF vars, files, locals, TypeOK
<1> QED
  BY <1>1, <1>2, <1>3, <1>4, <1>5, <1>6, <1>7, <1>8, <1>9, <1>10, <1>11, <1>12, <1>13,
     <1>14, <1>15, <1>16, <1>17 DEF Next, Command, Program, Runner

-----------------------------------------------------------------------------
(* The tables                                                              *)

(* While the tables stay, so does what is derived from them.               *)
LEMMA Frozen ==
  ASSUME summary' = summary, derived' = derived
  PROVE  /\ Incoming(summary)' = Incoming(summary)
         /\ Incoming(derived)' = Incoming(derived)
         /\ \A i \in Shards : LeafOf(i)' = LeafOf(i)
         /\ Chained' = Chained
<1>1. Incoming(summary)' = Incoming(summary) /\ Incoming(derived)' = Incoming(derived)
  BY DEF Incoming
<1> QED
  BY <1>1 DEF LeafOf, Chained

(* A receipt that is retained replaces nothing; a complete table stays.    *)
LEMMA RetainKeeps ==
  ASSUME TypeOK, NEW p \in {"summary", "verify"}, NEW i \in Shards, NEW r,
         Retained(p, i) \in {None, r}, Retain(p, i, r)
  PROVE  /\ \A j \in Shards : summary[j] # None => summary'[j] = summary[j]
         /\ \A j \in Shards : verify[j] # None => verify'[j] = verify[j]
         /\ \A j \in Shards : verify'[j] = verify[j] \/ (p = "verify" /\ j = i /\ verify'[j] = r)
         /\ p = "verify" => summary' = summary
         /\ p = "summary" => verify' = verify
         /\ Complete(summary) => summary' = summary
         /\ Complete(verify) => verify' = verify
<1>1. summary \in [Shards -> AnySummary \cup {None}] /\ verify \in [Shards -> AnyVerify \cup {None}]
  BY DEF TypeOK, SummaryTable
<1>2. CASE p = "summary"
  <2>1. summary' = [summary EXCEPT ![i] = r] /\ verify' = verify /\ summary[i] \in {None, r}
    BY <1>2 DEF Retain, Retained
  <2>2. Complete(summary) => summary' = summary
    BY <1>1, <2>1 DEF Complete
  <2> QED
    BY <1>1, <1>2, <2>1, <2>2
<1>3. CASE p = "verify"
  <2>1. verify' = [verify EXCEPT ![i] = r] /\ summary' = summary /\ verify[i] \in {None, r}
    BY <1>3 DEF Retain, Retained
  <2>2. Complete(verify) => verify' = verify
    BY <1>1, <2>1 DEF Complete
  <2> QED
    BY <1>1, <1>3, <2>1, <2>2
<1> QED
  BY <1>2, <1>3

(* Receipts that replay the current tables keep the files sound.           *)
LEMMA RetainFiles ==
  ASSUME TypeOK, FilesInv, NEW p \in {"summary", "verify"}, NEW i \in Shards, NEW r,
         p = "verify" => derived # None /\ Replays(r, summary, i),
         Retained(p, i) \in {None, r}, Retain(p, i, r),
         UNCHANGED <<derived, leaf, final, registered>>
  PROVE  /\ FilesInv'
         /\ derived # None => summary' = summary
         /\ Complete(verify) => verify' = verify
<1>1. derived # None => summary' = summary
  BY RetainKeeps DEF FilesInv, Derives
<1>2. Complete(verify) => verify' = verify
  BY RetainKeeps
<1>3. CASE derived = None
  <2>1. \A j \in Shards : verify[j] = None
    BY <1>3 DEF FilesInv, Replayed
  <2>2. p = "summary"
    BY <1>3
  <2>3. \A j \in Shards : verify'[j] = None
    BY <2>1, <2>2, RetainKeeps
  <2> QED
    BY <1>1, <1>2, <1>3, <2>3
       DEF FilesInv, Derives, Replayed, LeavesDerived, Certified
<1>4. CASE derived # None
  <2>1. summary' = summary
    BY <1>1, <1>4
  <2>2. Derives'
    BY <1>4, <2>1 DEF FilesInv, Derives, Complete
  <2>3. Replayed'
    BY <1>4, <2>1, RetainKeeps, Frozen DEF FilesInv, Replayed, Replays
  <2>4. LeavesDerived'
    BY <2>1, Frozen DEF FilesInv, LeavesDerived
  <2>5. Certified'
    BY <1>2, <2>1, Frozen DEF FilesInv, Certified, FinalPayload, Complete
  <2> QED
    BY <1>1, <1>2, <2>2, <2>3, <2>4, <2>5 DEF FilesInv
<1> QED
  BY <1>3, <1>4

LEMMA FilesFrame ==
  ASSUME FilesInv, UNCHANGED <<summary, derived, verify, leaf, final, registered>>
  PROVE  FilesInv'
<1>1. Derives'
  BY DEF FilesInv, Derives, Complete
<1>2. Replayed'
  BY Frozen DEF FilesInv, Replayed, Replays
<1>3. LeavesDerived'
  BY Frozen DEF FilesInv, LeavesDerived
<1>4. Certified'
  BY Frozen DEF FilesInv, Certified, FinalPayload, Complete
<1> QED
  BY <1>1, <1>2, <1>3, <1>4 DEF FilesInv

-----------------------------------------------------------------------------
(* The steps                                                               *)

(* What a step of c has to show, given that the locals of the others stay  *)
(* and that it changes the set-up and the leaves under its lock only.      *)
LEMMA StepKeeps ==
  ASSUME IInv, TypeOK', FilesInv', SetupAgrees', NEW c \in Caller,
         \A d \in Caller \ {c} :
            /\ op'[d] = op[d] /\ identity'[d] = identity[d] /\ phase'[d] = phase[d]
            /\ seen'[d] = seen[d] /\ at'[d] = at[d],
         lock' = lock \/ (lock = None /\ lock' = c) \/ (lock = c /\ lock' = None),
         lock' = c <=> op'[c] \in {"initialize", "finalize", "register"},
         setup' = setup \/ lock = c,
         leaf' = leaf \/ lock = c,
         derived # None => derived' = derived /\ summary' = summary,
         Complete(verify) => verify' = verify,
         registered # "absent" => registered' # "absent",
         Writes(c)', Loaded(c)', Registers(c)', Certifies(c)'
  PROVE  IInv'
<1>1. LockHeld'
  BY CallerAssumption DEF IInv, LockHeld
<1>2. ASSUME NEW d \in Caller, d # c
      PROVE  Writes(d)'
  <2>1. op[d] = "initialize" => setup' = setup
    BY <1>2 DEF IInv, LockHeld
  <2> QED
    BY <1>2, <2>1 DEF IInv, Writes
<1>3. ASSUME NEW d \in Caller, d # c
      PROVE  Loaded(d)' /\ Registers(d)'
  BY <1>3 DEF IInv, Loaded, Registers
<1>4. ASSUME NEW d \in Caller, d # c
      PROVE  Certifies(d)'
  <2> SUFFICES ASSUME op[d] = "finalize"
               PROVE  Certifies(d)'
    BY <1>4 DEF Certifies
  <2>1. leaf' = leaf
    BY <1>4 DEF IInv, LockHeld
  <2>2. /\ derived # None /\ Complete(verify) /\ at[d] \in 0 .. ShardCount
        /\ \A i \in Shards : i < at[d] => leaf[i] = LeafOf(i)
    BY DEF IInv, Certifies
  <2>3. derived' = derived /\ summary' = summary /\ verify' = verify
    BY <2>2
  <2>4. \A i \in Shards : LeafOf(i)' = LeafOf(i)
    BY <2>3, Frozen
  <2> QED
    BY <1>4, <2>1, <2>2, <2>3, <2>4 DEF Certifies, Complete
<1> QED
  BY <1>1, <1>2, <1>3, <1>4 DEF IInv

(* What is left of a command that is over.                                 *)
LEMMA Returned ==
  ASSUME TypeOK, NEW c \in Caller, Return(c)
  PROVE  /\ op'[c] = "idle"
         /\ \A d \in Caller \ {c} :
               /\ op'[d] = op[d] /\ identity'[d] = identity[d] /\ phase'[d] = phase[d]
               /\ seen'[d] = seen[d] /\ at'[d] = at[d]
         /\ Writes(c)' /\ Loaded(c)' /\ Registers(c)' /\ Certifies(c)'
BY DEF Return, TypeOK, Writes, Loaded, Registers, Certifies

(* A command that ends without touching a file.                            *)
LEMMA ReturnStep ==
  ASSUME IInv, TypeOK', NEW c \in Caller, Return(c), UNCHANGED files,
         lock' = IF lock = c THEN None ELSE lock
  PROVE  IInv'
<1>1. FilesInv'
  BY FilesFrame DEF IInv, files
<1>2. SetupAgrees'
  BY DEF IInv, files, SetupAgrees
<1>3. lock' # c
  BY CallerAssumption
<1> QED
  BY <1>1, <1>2, <1>3, Returned, StepKeeps DEF IInv, files

LEMMA InitInvariant == Init => IInv
<1> SUFFICES ASSUME Init
             PROVE  IInv
  OBVIOUS
<1>1. LockHeld
  BY CallerAssumption DEF Init, LockHeld
<1>2. SetupAgrees
  BY DEF Init, SetupAgrees
<1>3. FilesInv
  BY DEF Init, FilesInv, Derives, Replayed, LeavesDerived, Certified, NoReceipt
<1>4. \A c \in Caller : Writes(c) /\ Loaded(c) /\ Registers(c) /\ Certifies(c)
  BY DEF Init, Writes, Loaded, Registers, Certifies
<1> QED
  BY <1>1, <1>2, <1>3, <1>4, InitTyped DEF IInv

LEMMA InitializeKeeps ==
  ASSUME IInv, TypeOK', NEW c \in Caller, NEW x \in Identity, Initialize(c, x)
  PROVE  IInv'
<1>1. FilesInv' /\ SetupAgrees'
  BY FilesFrame DEF Initialize, IInv, files, SetupAgrees
<1>2. /\ op'[c] = "initialize" /\ at'[c] = 0
      /\ \A d \in Caller \ {c} : /\ op'[d] = op[d] /\ identity'[d] = identity[d]
                                 /\ at'[d] = at[d]
  BY DEF Initialize, IInv, TypeOK
<1>3. Writes(c)' /\ Loaded(c)' /\ Registers(c)' /\ Certifies(c)'
  BY <1>2 DEF Initialize, files, Writes, Loaded, Registers, Certifies, SetupFiles
<1> QED
  BY <1>1, <1>2, <1>3, StepKeeps DEF Initialize, files

LEMMA WriteSetupKeeps ==
  ASSUME IInv, TypeOK', NEW c \in Caller, WriteSetup(c)
  PROVE  IInv'
<1>1. FilesInv'
  BY FilesFrame DEF WriteSetup, IInv
<1>2. /\ at[c] \in 0 .. 4 /\ lock = c /\ op[c] = "initialize"
      /\ \A f \in SetupFiles : setup[f] = IF f <= at[c] THEN identity[c] ELSE None
  BY DEF WriteSetup, IInv, Writes, LockHeld
<1>3. \A f \in SetupFiles : setup'[f] = IF f <= at[c] + 1 THEN identity[c] ELSE None
  BY <1>2 DEF WriteSetup, IInv, TypeOK, SetupFiles
<1>4. SetupAgrees'
  BY <1>3 DEF SetupAgrees
<1>5. CASE Return(c) /\ lock' = None
  <2>1. lock' # c
    BY <1>5, CallerAssumption
  <2> QED
    BY <1>1, <1>2, <1>4, <1>5, <2>1, Returned, StepKeeps DEF WriteSetup, IInv
<1>6. CASE /\ at[c] + 1 # 5
           /\ at' = [at EXCEPT ![c] = @ + 1]
           /\ UNCHANGED <<lock, op, identity, phase, seen, queue, kid, cancel>>
  <2>1. at'[c] = at[c] + 1 /\ \A d \in Caller \ {c} : at'[d] = at[d]
    BY <1>6 DEF IInv, TypeOK
  <2>2. Writes(c)' /\ Loaded(c)' /\ Registers(c)' /\ Certifies(c)'
    BY <1>2, <1>3, <1>6, <2>1 DEF Writes, Loaded, Registers, Certifies
  <2> QED
    BY <1>1, <1>2, <1>4, <1>6, <2>1, <2>2, StepKeeps DEF WriteSetup
<1> QED
  BY <1>5, <1>6 DEF WriteSetup

LEMMA IngestKeeps ==
  ASSUME IInv, TypeOK', NEW c \in Caller, NEW p \in {"summary", "verify"},
         NEW i \in Shards, IngestReceipt(c, p, i)
  PROVE  IInv'
<1>1. PICK r \in Receipts(p, i) : Acceptable(p, i, r, summary) /\ Retain(p, i, r)
  BY DEF IngestReceipt
<1>2. /\ p = "verify" => derived # None /\ Replays(r, summary, i)
      /\ Retained(p, i) \in {None, r}
  BY <1>1 DEF Acceptable, IngestReceipt, DerivedReady
<1>3. /\ FilesInv'
      /\ derived # None => summary' = summary
      /\ Complete(verify) => verify' = verify
  BY <1>1, <1>2, RetainFiles DEF IngestReceipt, IInv
<1>4. SetupAgrees'
  BY DEF IngestReceipt, IInv, SetupAgrees
<1>5. Writes(c)' /\ Loaded(c)' /\ Registers(c)' /\ Certifies(c)'
  BY DEF IngestReceipt, locals, Writes, Loaded, Registers, Certifies
<1>6. lock' = c <=> op'[c] \in {"initialize", "finalize", "register"}
  BY DEF IngestReceipt, locals, IInv, LockHeld
<1> QED
  BY <1>3, <1>4, <1>5, <1>6, StepKeeps DEF IngestReceipt, locals

LEMMA StartPhaseKeeps ==
  ASSUME IInv, TypeOK', NEW c \in Caller, NEW p \in {"summary", "verify"},
         NEW wanted \in SUBSET Shards, NEW n \in Workers, StartPhase(c, p, wanted, n)
  PROVE  IInv'
<1>1. FilesInv' /\ SetupAgrees'
  BY FilesFrame DEF StartPhase, IInv, files, SetupAgrees
<1>2. /\ op'[c] = "run_phase" /\ phase'[c] = p /\ seen'[c] = summary
      /\ \A d \in Caller \ {c} :
            op'[d] = op[d] /\ phase'[d] = phase[d] /\ seen'[d] = seen[d]
  BY DEF StartPhase, IInv, TypeOK
<1>3. Writes(c)' /\ Loaded(c)' /\ Registers(c)' /\ Certifies(c)'
  BY <1>2 DEF StartPhase, DerivedReady, files, Writes, Loaded, Registers, Certifies
<1>4. lock' = lock /\ lock # c
  BY DEF StartPhase, IInv, LockHeld
<1> QED
  BY <1>1, <1>2, <1>3, <1>4, StepKeeps DEF StartPhase, files

(* Steps that leave the files and what the invariant says of c alone.      *)
LEMMA RunnerKeeps ==
  ASSUME IInv, TypeOK', NEW c \in Caller, UNCHANGED <<files, lock, op, identity, phase, seen, at>>
  PROVE  IInv'
<1>1. FilesInv' /\ SetupAgrees'
  BY FilesFrame DEF IInv, files, SetupAgrees
<1>2. Writes(c)' /\ Loaded(c)' /\ Registers(c)'
  BY DEF IInv, files, Writes, Loaded, Registers
<1>3. Certifies(c)'
  BY Frozen DEF IInv, files, Certifies, Complete
<1>4. lock' = c <=> op'[c] \in {"initialize", "finalize", "register"}
  BY DEF IInv, LockHeld
<1> QED
  BY <1>1, <1>2, <1>3, <1>4, StepKeeps DEF files

LEMMA RetainResultKeeps ==
  ASSUME IInv, TypeOK', NEW c \in Caller, NEW i \in Shards, RetainResult(c, i)
  PROVE  IInv'
<1>0. PICK p \in {"summary", "verify"} : p = phase[c]
  BY DEF IInv, TypeOK
<1>1. PICK r \in Receipts(p, i) : Acceptable(p, i, r, seen[c]) /\ Retain(p, i, r)
  BY <1>0 DEF RetainResult
<1>2. /\ p = "verify" => derived # None /\ Replays(r, summary, i)
      /\ Retained(p, i) \in {None, r}
  <2>1. p = "verify" => derived # None /\ seen[c] = summary
    BY <1>0 DEF RetainResult, IInv, Loaded
  <2> QED
    BY <1>1, <2>1 DEF Acceptable
<1>3. /\ FilesInv'
      /\ derived # None => summary' = summary
      /\ Complete(verify) => verify' = verify
  BY <1>1, <1>2, RetainFiles DEF RetainResult, IInv
<1>4. SetupAgrees'
  BY DEF RetainResult, IInv, SetupAgrees
<1>5. Writes(c)' /\ Loaded(c)' /\ Registers(c)' /\ Certifies(c)'
  BY <1>3 DEF RetainResult, IInv, Writes, Loaded, Registers, Certifies
<1>6. lock' = c <=> op'[c] \in {"initialize", "finalize", "register"}
  BY DEF RetainResult, IInv, LockHeld
<1> QED
  BY <1>3, <1>4, <1>5, <1>6, StepKeeps DEF RetainResult

LEMMA AbortKeeps ==
  ASSUME IInv, TypeOK', NEW c \in Caller,
         Interrupt(c) \/ \E i \in Shards : FailResult(c, i)
  PROVE  IInv'
<1>1. /\ op[c] = "run_phase" /\ op' = [op EXCEPT ![c] = "abort"]
      /\ UNCHANGED <<files, lock, identity, phase, seen, at>>
  BY DEF Interrupt, FailResult
<1>2. FilesInv' /\ SetupAgrees'
  BY <1>1, FilesFrame DEF IInv, files, SetupAgrees
<1>3. op'[c] = "abort" /\ \A d \in Caller \ {c} : op'[d] = op[d]
  BY <1>1 DEF IInv, TypeOK
<1>4. Writes(c)' /\ Loaded(c)' /\ Registers(c)' /\ Certifies(c)'
  BY <1>3 DEF Writes, Loaded, Registers, Certifies
<1>5. lock' # c
  BY <1>1 DEF IInv, LockHeld
<1> QED
  BY <1>1, <1>2, <1>3, <1>4, <1>5, StepKeeps DEF files

LEMMA ReduceKeeps ==
  ASSUME IInv, TypeOK', NEW c \in Caller, ReduceSummaries(c)
  PROVE  IInv'
<1>1. derived # None => derived' = derived
  BY DEF ReduceSummaries
<1>2. FilesInv'
  <2>1. CASE derived # None
    BY <1>1, <2>1, FilesFrame DEF ReduceSummaries, IInv
  <2>2. CASE derived = None
    <3>1. (\A i \in Shards : verify'[i] = None /\ leaf'[i] = None) /\ final' = None
      BY <2>2 DEF ReduceSummaries, IInv, FilesInv, Replayed, LeavesDerived, Certified
    <3>2. Derives'
      BY DEF ReduceSummaries, Derives, Complete
    <3> QED
      BY <2>2, <3>1, <3>2
         DEF ReduceSummaries, IInv, FilesInv, Replayed, LeavesDerived, Certified
  <2> QED
    BY <2>1, <2>2
<1>3. SetupAgrees'
  BY DEF ReduceSummaries, IInv, SetupAgrees
<1>4. Writes(c)' /\ Loaded(c)' /\ Registers(c)' /\ Certifies(c)'
  BY DEF ReduceSummaries, locals, Writes, Loaded, Registers, Certifies
<1>5. lock' = c <=> op'[c] \in {"initialize", "finalize", "register"}
  BY DEF ReduceSummaries, locals, IInv, LockHeld
<1> QED
  BY <1>1, <1>2, <1>3, <1>4, <1>5, StepKeeps DEF ReduceSummaries, locals

LEMMA StartFinalizeKeeps ==
  ASSUME IInv, TypeOK', NEW c \in Caller, StartFinalize(c)
  PROVE  IInv'
<1>1. FilesInv' /\ SetupAgrees'
  BY FilesFrame DEF StartFinalize, IInv, files, SetupAgrees
<1>2. /\ op'[c] = "finalize" /\ at'[c] = 0
      /\ \A d \in Caller \ {c} : op'[d] = op[d] /\ at'[d] = at[d]
  BY DEF StartFinalize, IInv, TypeOK
<1>3. Certifies(c)'
  BY <1>2, ShardCountAssumption
     DEF StartFinalize, DerivedReady, files, Certifies, Complete, Shards
<1>4. Writes(c)' /\ Loaded(c)' /\ Registers(c)'
  BY <1>2 DEF Writes, Loaded, Registers
<1> QED
  BY <1>1, <1>2, <1>3, <1>4, StepKeeps DEF StartFinalize, files

LEMMA WriteLeafKeeps ==
  ASSUME IInv, TypeOK', NEW c \in Caller, WriteLeaf(c)
  PROVE  IInv'
<1>1. /\ op[c] = "finalize" /\ lock = c /\ at[c] \in Shards
      /\ derived # None /\ Complete(verify)
      /\ \A i \in Shards : i < at[c] => leaf[i] = LeafOf(i)
  BY ShardCountAssumption DEF WriteLeaf, IInv, LockHeld, Certifies, Shards
<1>2. SetupAgrees'
  BY DEF WriteLeaf, IInv, SetupAgrees
<1>3. CASE /\ leaf[at[c]] \in {None, LeafOf(at[c])}
           /\ leaf' = [leaf EXCEPT ![at[c]] = LeafOf(at[c])]
           /\ at' = [at EXCEPT ![c] = @ + 1]
           /\ UNCHANGED <<lock, op, identity, phase, seen, queue, kid, cancel>>
  <2>1. /\ leaf'[at[c]] = LeafOf(at[c])
        /\ \A i \in Shards : i # at[c] => leaf'[i] = leaf[i]
    BY <1>1, <1>3 DEF IInv, TypeOK
  <2>2. \A i \in Shards : LeafOf(i)' = LeafOf(i)
    BY Frozen DEF WriteLeaf
  <2>3. Derives'
    BY DEF WriteLeaf, IInv, FilesInv, Derives, Complete
  <2>4. Replayed'
    BY Frozen DEF WriteLeaf, IInv, FilesInv, Replayed, Replays
  <2>5. LeavesDerived'
    BY <1>1, <2>1, <2>2 DEF WriteLeaf, IInv, FilesInv, LeavesDerived
  <2>6. Certified'
    BY <2>1, <2>2, Frozen DEF WriteLeaf, IInv, FilesInv, Certified, FinalPayload, Complete
  <2>7. FilesInv'
    BY <2>3, <2>4, <2>5, <2>6 DEF WriteLeaf, IInv, FilesInv
  <2>8. at'[c] = at[c] + 1 /\ \A d \in Caller \ {c} : at'[d] = at[d]
    BY <1>3 DEF IInv, TypeOK
  <2>9. Certifies(c)'
    <3>1. at'[c] \in 0 .. ShardCount
      BY <1>1, <2>8, ShardCountAssumption DEF Shards
    <3>2. \A i \in Shards : i < at'[c] => i < at[c] \/ i = at[c]
      BY <1>1, <2>8, ShardCountAssumption DEF Shards
    <3> QED
      BY <1>1, <2>1, <2>2, <3>1, <3>2 DEF WriteLeaf, Certifies, Complete
  <2>10. Writes(c)' /\ Loaded(c)' /\ Registers(c)'
    BY <1>1, <1>3 DEF Writes, Loaded, Registers
  <2> QED
    BY <1>1, <1>2, <1>3, <2>7, <2>8, <2>9, <2>10, StepKeeps DEF WriteLeaf
<1>4. CASE Return(c) /\ lock' = None /\ UNCHANGED leaf
  BY <1>1, <1>4, ReturnStep DEF WriteLeaf, files
<1> QED
  BY <1>3, <1>4 DEF WriteLeaf

LEMMA WriteFinalKeeps ==
  ASSUME IInv, TypeOK', NEW c \in Caller, WriteFinal(c)
  PROVE  IInv'
<1>1. /\ lock = c /\ derived # None /\ Complete(verify)
      /\ \A i \in Shards : leaf[i] = LeafOf(i)
  BY ShardCountAssumption DEF WriteFinal, IInv, LockHeld, Certifies, Shards
<1>2. lock' # c /\ Return(c)
  BY CallerAssumption DEF WriteFinal
<1>3. SetupAgrees'
  BY DEF WriteFinal, IInv, SetupAgrees
<1>4. CASE final' = final
  BY <1>1, <1>2, <1>4, ReturnStep DEF WriteFinal, files
<1>5. CASE Chained /\ final = None /\ final' = FinalPayload
  <2>1. Derives'
    BY DEF WriteFinal, IInv, FilesInv, Derives, Complete
  <2>2. Replayed'
    BY Frozen DEF WriteFinal, IInv, FilesInv, Replayed, Replays
  <2>3. LeavesDerived'
    BY Frozen DEF WriteFinal, IInv, FilesInv, LeavesDerived
  <2>4. Certified'
    BY <1>1, <1>5, Frozen DEF WriteFinal, Certified, FinalPayload, Complete
  <2>5. registered = "absent"
    BY <1>5 DEF IInv, FilesInv
  <2>6. FilesInv'
    BY <2>1, <2>2, <2>3, <2>4, <2>5 DEF WriteFinal, FilesInv
  <2> QED
    BY <1>1, <1>2, <1>3, <2>6, Returned, StepKeeps DEF WriteFinal, IInv
<1> QED
  BY <1>4, <1>5 DEF WriteFinal

LEMMA CreateKeeps ==
  ASSUME IInv, TypeOK', NEW c \in Caller, CreateRegisteredResult(c)
  PROVE  IInv'
<1>1. /\ Derives' /\ Replayed' /\ LeavesDerived' /\ Certified'
  BY Frozen
     DEF CreateRegisteredResult, IInv, FilesInv, Derives, Replayed, Replays,
         LeavesDerived, Certified, FinalPayload, Complete
<1>2. FilesInv'
  BY <1>1 DEF CreateRegisteredResult, FilesInv
<1>3. SetupAgrees'
  BY DEF CreateRegisteredResult, IInv, SetupAgrees
<1>4. op'[c] = "register" /\ \A d \in Caller \ {c} : op'[d] = op[d]
  BY DEF CreateRegisteredResult, IInv, TypeOK
<1>5. Writes(c)' /\ Loaded(c)' /\ Registers(c)' /\ Certifies(c)'
  BY <1>4 DEF CreateRegisteredResult, Writes, Loaded, Registers, Certifies
<1> QED
  BY <1>2, <1>3, <1>4, <1>5, StepKeeps DEF CreateRegisteredResult

LEMMA RegisterKeeps ==
  ASSUME IInv, TypeOK', NEW c \in Caller, WriteRegisteredResult(c)
  PROVE  IInv'
<1>1. /\ Derives' /\ Replayed' /\ LeavesDerived' /\ Certified'
  BY Frozen
     DEF WriteRegisteredResult, IInv, FilesInv, Derives, Replayed, Replays,
         LeavesDerived, Certified, FinalPayload, Complete
<1>2. lock = c /\ final # None
  BY DEF WriteRegisteredResult, IInv, LockHeld, FilesInv, Registers
<1>3. FilesInv'
  BY <1>1, <1>2 DEF WriteRegisteredResult, FilesInv
<1>4. SetupAgrees'
  BY DEF WriteRegisteredResult, IInv, SetupAgrees
<1>5. lock' = None /\ lock' # c
  BY CallerAssumption DEF WriteRegisteredResult
<1> QED
  BY <1>2, <1>3, <1>4, <1>5, Returned, StepKeeps DEF WriteRegisteredResult, IInv

(* Every step preserves the invariant.                                     *)
LEMMA Inductive == IInv /\ [Next]_vars => IInv'
<1> SUFFICES ASSUME IInv, [Next]_vars
             PROVE  IInv'
  OBVIOUS
<1>1. TypeOK'
  BY TypeInductive DEF IInv
<1>2. CASE UNCHANGED vars
  <2>1. FilesInv'
    BY <1>2, FilesFrame DEF IInv, vars, files
  <2>2. SetupAgrees' /\ LockHeld'
    BY <1>2 DEF IInv, vars, files, locals, SetupAgrees, LockHeld
  <2>3. \A c \in Caller : Writes(c)' /\ Loaded(c)' /\ Registers(c)'
    BY <1>2 DEF IInv, vars, files, locals, Writes, Loaded, Registers
  <2>4. \A c \in Caller : Certifies(c)'
    BY <1>2, Frozen DEF IInv, vars, files, locals, Certifies, Complete
  <2> QED
    BY <1>1, <2>1, <2>2, <2>3, <2>4 DEF IInv
<1>3. ASSUME NEW c \in Caller, Command(c)
      PROVE  IInv'
  BY <1>1, <1>3, InitializeKeeps, IngestKeeps, StartPhaseKeeps, ReduceKeeps,
     StartFinalizeKeeps, CreateKeeps DEF Command
<1>4. ASSUME NEW c \in Caller, Program(c)
      PROVE  IInv'
  <2>1. CASE EndAbort(c) \/ EndPhase(c)
    <3>1. lock # c /\ lock' = lock
      BY <2>1 DEF EndAbort, EndPhase, IInv, LockHeld
    <3> QED
      BY <1>1, <2>1, <3>1, ReturnStep DEF EndAbort, EndPhase
  <2> QED
    BY <1>1, <1>4, <2>1, WriteSetupKeeps, RetainResultKeeps, AbortKeeps, WriteLeafKeeps,
       WriteFinalKeeps, RegisterKeeps DEF Program
<1>5. ASSUME NEW c \in Caller, NEW i \in Shards, Runner(c, i)
      PROVE  IInv'
  BY <1>1, <1>5, RunnerKeeps DEF Runner, RunnerEnds, CancelRunner
<1>6. ASSUME NEW c \in Caller, Interrupt(c)
      PROVE  IInv'
  BY <1>1, <1>6, AbortKeeps
<1>7. ASSUME NEW c \in Caller, Kill(c)
      PROVE  IInv'
  BY <1>1, <1>7, ReturnStep DEF Kill
<1> QED
  BY <1>2, <1>3, <1>4, <1>5, <1>6, <1>7 DEF Next

LEMMA Invariant == Spec => []IInv
BY InitInvariant, Inductive, PTL DEF Spec

-----------------------------------------------------------------------------
(* The results                                                             *)

(* Files and processes keep their form, whatever is raced or killed.       *)
THEOREM TypeCorrect == Spec => []TypeOK
<1>1. IInv => TypeOK
  BY DEF IInv
<1> QED
  BY <1>1, Invariant, PTL

(* verify_campaign accepts a complete directory at every moment; its       *)
(* captures come from one initialize.                                      *)
THEOREM AlwaysVerifies == Spec => []DirectoryVerifies
<1>1. IInv => DirectoryVerifies
  BY DEF IInv, SetupAgrees, FilesInv, Derives, Replayed, Certified, DirectoryVerifies,
         Verifies, SetupReady, DerivedReady
<1> QED
  BY <1>1, Invariant, PTL

(* A registered result stands on two equal computations of every shard.    *)
THEOREM ResultsReplayed == Spec => []RegisteredReplayed
<1>1. IInv => RegisteredReplayed
  BY DEF IInv, FilesInv, Derives, Replayed, Certified, RegisteredReplayed, FinalPayload,
         Replays, Complete
<1> QED
  BY <1>1, Invariant, PTL

-----------------------------------------------------------------------------
(* What each kind of step does to the records: the facts both results on   *)
(* steps rest on.                                                          *)
LEMMA StepFiles ==
  ASSUME IInv, Next
  PROVE  \/ UNCHANGED <<summary, verify, final>>
         \/ \E p \in {"summary", "verify"}, i \in Shards : \E r \in Receipts(p, i) :
               /\ p = "verify" => derived # None
               /\ Retained(p, i) \in {None, r} /\ Retain(p, i, r)
               /\ UNCHANGED <<setup, derived, leaf, final>>
         \/ /\ final = None /\ final' = FinalPayload
            /\ derived # None /\ Complete(verify)
            /\ UNCHANGED <<setup, summary, derived, verify, leaf>>
<1>1. ASSUME NEW c \in Caller, NEW p \in {"summary", "verify"}, NEW i \in Shards,
             IngestReceipt(c, p, i)
      PROVE  \E r \in Receipts(p, i) :
               /\ p = "verify" => derived # None
               /\ Retained(p, i) \in {None, r} /\ Retain(p, i, r)
               /\ UNCHANGED <<setup, derived, leaf, final>>
  BY <1>1 DEF IngestReceipt, Acceptable, DerivedReady
<1>2. ASSUME NEW c \in Caller, NEW i \in Shards, RetainResult(c, i)
      PROVE  \E p \in {"summary", "verify"} : \E r \in Receipts(p, i) :
               /\ p = "verify" => derived # None
               /\ Retained(p, i) \in {None, r} /\ Retain(p, i, r)
               /\ UNCHANGED <<setup, derived, leaf, final>>
  <2>1. PICK p \in {"summary", "verify"} : p = phase[c]
    BY DEF IInv, TypeOK
  <2>2. p = "verify" => derived # None
    BY <1>2, <2>1 DEF RetainResult, IInv, Loaded
  <2> QED
    BY <1>2, <2>1, <2>2 DEF RetainResult, Acceptable
<1>3. ASSUME NEW c \in Caller, WriteFinal(c)
      PROVE  \/ UNCHANGED <<summary, verify, final>>
             \/ /\ final = None /\ final' = FinalPayload
                /\ derived # None /\ Complete(verify)
                /\ UNCHANGED <<setup, summary, derived, verify, leaf>>
  BY <1>3 DEF WriteFinal, IInv, Certifies
<1>4. ASSUME NEW c \in Caller, Command(c)
      PROVE  \/ UNCHANGED <<summary, verify, final>>
             \/ \E p \in {"summary", "verify"}, i \in Shards : IngestReceipt(c, p, i)
  BY <1>4 DEF Command, Initialize, StartPhase, ReduceSummaries, StartFinalize,
              CreateRegisteredResult, files
<1>5. ASSUME NEW c \in Caller, Program(c)
      PROVE  \/ UNCHANGED <<summary, verify, final>>
             \/ \E i \in Shards : RetainResult(c, i)
             \/ WriteFinal(c)
  BY <1>5 DEF Program, WriteSetup, FailResult, EndAbort, EndPhase, WriteLeaf,
              WriteRegisteredResult, files
<1>6. ASSUME NEW c \in Caller, NEW i \in Shards, Runner(c, i)
      PROVE  UNCHANGED <<summary, verify, final>>
  BY <1>6 DEF Runner, RunnerEnds, CancelRunner, files
<1>7. ASSUME NEW c \in Caller, Interrupt(c) \/ Kill(c)
      PROVE  UNCHANGED <<summary, verify, final>>
  BY <1>7 DEF Interrupt, Kill, files
<1> QED
  BY <1>1, <1>2, <1>3, <1>4, <1>5, <1>6, <1>7 DEF Next

(* A step neither changes nor removes a file that was written once.        *)
LEMMA StableStep ==
  ASSUME IInv, Next
  PROVE  /\ \A i \in Shards :
              /\ summary[i] # None => summary'[i] = summary[i]
              /\ verify[i] # None => verify'[i] = verify[i]
              /\ leaf[i] # None => leaf'[i] = leaf[i]
         /\ \A f \in SetupFiles : setup[f] # None => setup'[f] = setup[f]
         /\ derived # None => derived' = derived
         /\ final # None => final' = final
<1>1. /\ \A i \in Shards : /\ summary[i] # None => summary'[i] = summary[i]
                           /\ verify[i] # None => verify'[i] = verify[i]
      /\ final # None => final' = final
  <2>1. ASSUME NEW p \in {"summary", "verify"}, NEW i \in Shards, NEW r,
               Retained(p, i) \in {None, r}, Retain(p, i, r)
        PROVE  \A j \in Shards : /\ summary[j] # None => summary'[j] = summary[j]
                                 /\ verify[j] # None => verify'[j] = verify[j]
    BY <2>1, RetainKeeps DEF IInv
  <2> QED
    BY <2>1, StepFiles
<1>2. \A f \in SetupFiles : setup[f] # None => setup'[f] = setup[f]
  <2>1. ASSUME NEW c \in Caller, WriteSetup(c), NEW f \in SetupFiles, setup[f] # None
        PROVE  setup'[f] = setup[f]
    <3>1. at[c] \in 0 .. 4 /\ f <= at[c]
      BY <2>1 DEF WriteSetup, IInv, Writes
    <3>2. f # at[c] + 1
      BY <3>1
    <3> QED
      BY <2>1, <3>2 DEF WriteSetup, IInv, TypeOK
  <2>2. setup' = setup \/ \E c \in Caller : WriteSetup(c)
    BY DEF Next, Command, Program, Runner, Initialize, IngestReceipt, StartPhase,
           ReduceSummaries, StartFinalize, CreateRegisteredResult,
           WriteRegisteredResult, RetainResult, FailResult, EndAbort, EndPhase, WriteLeaf, WriteFinal, RunnerEnds,
           CancelRunner, Interrupt, Kill, files
  <2> QED
    BY <2>1, <2>2
<1>3. \A i \in Shards : leaf[i] # None => leaf'[i] = leaf[i]
  <2>1. ASSUME NEW c \in Caller, WriteLeaf(c), NEW i \in Shards, leaf[i] # None
        PROVE  leaf'[i] = leaf[i]
    <3>1. DOMAIN leaf = Shards
      BY DEF IInv, TypeOK
    <3> QED
      BY <2>1, <3>1 DEF WriteLeaf
  <2>2. leaf' = leaf \/ \E c \in Caller : WriteLeaf(c)
    BY DEF Next, Command, Program, Runner, Initialize, IngestReceipt, StartPhase,
           ReduceSummaries, StartFinalize, CreateRegisteredResult,
           WriteRegisteredResult, RetainResult, FailResult, EndAbort, EndPhase, WriteSetup, WriteFinal, RunnerEnds,
           CancelRunner, Interrupt, Kill, files
  <2> QED
    BY <2>1, <2>2
<1>4. derived # None => derived' = derived
  <2>1. ASSUME NEW c \in Caller, Command(c), derived # None
        PROVE  derived' = derived
    BY <2>1 DEF Command, Initialize, IngestReceipt, StartPhase, ReduceSummaries,
                StartFinalize, CreateRegisteredResult, files
  <2>2. ASSUME NEW c \in Caller, Program(c) \/ Interrupt(c) \/ Kill(c)
        PROVE  derived' = derived
    BY <2>2 DEF Program, RetainResult, FailResult, EndAbort, EndPhase, WriteSetup,
                WriteLeaf, WriteFinal, WriteRegisteredResult, Interrupt, Kill, files
  <2>3. ASSUME NEW c \in Caller, NEW i \in Shards, Runner(c, i)
        PROVE  derived' = derived
    BY <2>3 DEF Runner, RunnerEnds, CancelRunner, files
  <2> QED
    BY <2>1, <2>2, <2>3 DEF Next
<1> QED
  BY <1>1, <1>2, <1>3, <1>4

(* No file that was written once changes or disappears.                    *)
THEOREM FilesAreStable == Spec => FilesStable
<1>1. IInv /\ [Next]_vars =>
        [ /\ \A i \in Shards :
               /\ summary[i] # None => summary'[i] = summary[i]
               /\ verify[i] # None => verify'[i] = verify[i]
               /\ leaf[i] # None => leaf'[i] = leaf[i]
          /\ \A f \in SetupFiles : setup[f] # None => setup'[f] = setup[f]
          /\ derived # None => derived' = derived
          /\ final # None => final' = final ]_vars
  BY StableStep
<1> QED
  BY <1>1, Invariant, PTL DEF Spec, FilesStable

-----------------------------------------------------------------------------
(* The campaign implements the two-phase ledger: each retained receipt is  *)
(* a record of its phase, the final certificate commits to both tables,    *)
(* and every other step is invisible.                                      *)
THEOREM Refinement == Spec => LedgerSpec
<1>1. Init => Ledger!Init
  BY DEF Init, Ledger!Init, NoReceipt
<1>2. IInv /\ [Next]_vars => [Ledger!Next]_(Ledger!vars)
  <2> SUFFICES ASSUME IInv, [Next]_vars
               PROVE  Ledger!Next \/ UNCHANGED Ledger!vars
    BY DEF Ledger!vars
  <2>1. CASE UNCHANGED <<summary, verify, final>>
    BY <2>1 DEF Ledger!vars
  <2>2. ASSUME NEW p \in {"summary", "verify"}, NEW i \in Shards, NEW r \in Receipts(p, i),
               p = "verify" => derived # None,
               Retained(p, i) \in {None, r}, Retain(p, i, r), final' = final
        PROVE  Ledger!Next \/ UNCHANGED Ledger!vars
    <3>1. CASE Retained(p, i) = None /\ p = "summary"
      <4>1. r \in AnySummary
        BY <2>2, <3>1 DEF Receipts, AnySummary
      <4>2. Ledger!RecordFirst(i)
        BY <2>2, <3>1, <4>1 DEF Retained, Retain, Ledger!RecordFirst
      <4> QED
        BY <4>2 DEF Ledger!Next
    <3>2. CASE Retained(p, i) = None /\ p = "verify"
      <4>1. r \in AnyVerify
        BY <2>2, <3>2 DEF Receipts, AnyVerify
      <4>2. Ledger!Complete(summary)
        BY <2>2, <3>2 DEF IInv, FilesInv, Derives, Complete, Ledger!Complete
      <4>3. Ledger!RecordSecond(i)
        BY <2>2, <3>2, <4>1, <4>2 DEF Retained, Retain, Ledger!RecordSecond
      <4> QED
        BY <4>3 DEF Ledger!Next
    <3>3. CASE Retained(p, i) # None
      <4>1. summary' = summary /\ verify' = verify
        BY <2>2, <3>3 DEF Retained, Retain, IInv, TypeOK, SummaryTable
      <4> QED
        BY <2>2, <4>1 DEF Ledger!vars
    <3> QED
      BY <2>2, <3>1, <3>2, <3>3
  <2>3. CASE /\ final = None /\ final' = FinalPayload
             /\ derived # None /\ Complete(verify)
             /\ UNCHANGED <<setup, summary, derived, verify, leaf>>
    <3>1. derived = summary /\ Complete(summary)
      BY <2>3 DEF IInv, FilesInv, Derives
    <3>2. Ledger!Certify
      BY <2>3, <3>1 DEF Ledger!Certify, FinalPayload, Complete, Ledger!Complete
    <3> QED
      BY <3>2 DEF Ledger!Next
  <2> QED
    BY <2>1, <2>2, <2>3, StepFiles DEF vars, files
<1> QED
  BY <1>1, <1>2, Invariant, PTL DEF Spec, LedgerSpec, Ledger!Spec
=============================================================================
