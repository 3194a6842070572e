--------------------------- MODULE CpuOperatorProofs ---------------------------
(* For any set of results, any number of kills, errors and replaced packages: *)
(* the operator's journal stays legal, no side effect is started twice, what  *)
(* was recorded stays, and the operator implements OrderedSteps.              *)
EXTENDS CpuOperator, TLAPS

(* The order in which a campaign passes through its stages.                   *)
Rank(s) == 3 * s[1] + (CASE s[2] = "busy" -> 0
                         [] s[2] = "failed" -> 1
                         [] s[2] = "done" -> 2)

HasStage == journal # None /\ Len(journal) > 0

(* A write that is under way found the state it needs, and nobody else writes.*)
WriteInProgress ==
  cmd.pc \in Writing =>
    /\ cmd.write = "temporary" =>
         /\ stray /\ journal # None /\ head = Len(journal)
         /\ IF cmd.pc = "init" THEN Len(journal) = 0
            ELSE Len(journal) > 0 /\ StageNow = Source(cmd)
    /\ cmd.write = "event" =>
         HasStage /\ ~stray /\ StageNow = Target(cmd)
    /\ cmd.pc = "init" /\ cmd.write = "start" => journal # None /\ Len(journal) = 0

(* A command whose child may run has entered its step.                        *)
Entered == cmd.pc \in {"work", "extracted", "await"} =>
             HasStage /\ StageNow = <<cmd.step, "busy">>

(* Every write is one the code has: which step it is for, and in which order. *)
Shaped ==
  /\ cmd.pc \in {"enter", "leave", "fail", "work", "extracted", "await"} =>
       cmd.step \in Attempted
  /\ cmd.pc = "adopt" => cmd.step \in Reconcilable \cup {Handoff}
  /\ cmd.pc = "init" => cmd.step = 0

(* A started step has been entered, and a command that has entered its step   *)
(* and not started its child is the first to do so.                           *)
StartedOnce ==
  \A k \in Attempted :
    /\ started[k] <= 1
    /\ started[k] > 0 => HasStage /\ Rank(StageNow) >= 3 * k
    /\ cmd.pc \in {"work", "extracted"} /\ cmd.step = k => started[k] = 0
    /\ cmd.pc = "enter" /\ cmd.write = "event" /\ cmd.step = k => started[k] = 0

ControlInv == /\ TypeOK /\ JournalLegal /\ WriteInProgress /\ Entered
              /\ Shaped /\ StartedOnce

(* What is put into artifacts, and by whom.                                   *)
Recorded == {Ingest, Appraise, Issue}

Contents ==
  /\ \A k \in Recorded : file[k] # None => file[k] = package
  /\ file[Review] \in {None, Made}
  /\ \A k \in Installing :
       /\ child[k] # "none" => started[k] > 0
       /\ child[k] = "installed" => file[k] # None
  /\ cmd.pc \in {"leave", "adopt"} => file[cmd.step] # None
  /\ cmd.pc \in {"enter", "work", "extracted", "await"}
       /\ cmd.step \in {Ingest, Appraise} => cmd.input # None
  /\ cmd.pc = "await" /\ cmd.step = Ingest => cmd.input = package
  /\ HasStage /\ Rank(StageNow) >= 3 * Ingest + 2 => package # None

DataInv == ControlInv /\ RecordsHold /\ Contents

--------------------------------------------------------------------------------
(* What TypeOK says of a command that runs.                                   *)
LEMMA CommandTyped ==
  ASSUME TypeOK, cmd # Idle
  PROVE  /\ cmd.pc \in Writing \cup {"work", "extracted", "await"}
         /\ cmd.step \in 0 .. Review
         /\ cmd.input \in Result \cup {None}
         /\ cmd.write \in {"start", "temporary", "event"}
         /\ cmd = [pc |-> cmd.pc, step |-> cmd.step, input |-> cmd.input,
                   write |-> cmd.write]
         /\ cmd.pc \notin Writing => cmd.step \in Steps /\ cmd.write = "start"
<1>1. CASE cmd \in [pc : Writing, step : 0 .. Review, input : Result \cup {None},
                   write : {"start", "temporary", "event"}]
  BY <1>1 DEF Writing
<1>2. CASE cmd \in [pc : {"work", "extracted", "await"}, step : Steps,
                   input : Result \cup {None}, write : {"start"}]
  BY <1>2 DEF Writing, Steps, Deploy, Review
<1> QED
  BY <1>1, <1>2 DEF TypeOK, Commands

LEMMA StageTyped ==
  ASSUME TypeOK, journal # None, Len(journal) > 0
  PROVE  journal \in Seq(Event) /\ StageNow \in Stage
<1>1. journal \in Seq(Event)
  BY DEF TypeOK
<1>2. journal[Len(journal)] \in Event
  BY <1>1
<1> QED
  BY <1>1, <1>2 DEF StageNow, Event

(* A write of a shape that the code has.                                      *)
LEMMA WriteTyped ==
  ASSUME NEW pc \in Writing, NEW k \in 0 .. Review, NEW r \in Result \cup {None}
  PROVE  /\ WriteOf(pc, k, r) \in Commands
         /\ WriteOf(pc, k, r).pc = pc /\ WriteOf(pc, k, r).step = k
         /\ WriteOf(pc, k, r).input = r /\ WriteOf(pc, k, r).write = "start"
BY DEF WriteOf, Commands

(* What an event under way will hold.                                         *)
LEMMA EventTyped ==
  ASSUME TypeOK, Shaped, cmd.pc \in Writing
  PROVE  /\ EventOf(cmd) \in Event
         /\ EventOf(cmd).to = Target(cmd)
         /\ EventOf(cmd).record = IF cmd.pc \in {"leave", "adopt"}
                                  THEN file[cmd.step] ELSE None
         /\ cmd.pc = "init" => Target(cmd) = <<0, "done">>
         /\ cmd.pc # "init" =>
              /\ cmd.step \in Steps
              /\ <<Source(cmd), Target(cmd)>> \in Allowed
              /\ Rank(Source(cmd)) < Rank(Target(cmd))
<1> USE DEF Deploy, Challenge, Handoff, Ingest, Appraise, Issue, Review
<1>1. CASE cmd.pc = "init"
  BY <1>1 DEF EventOf, Event, Target, Stage, Shaped
<1>2. CASE cmd.pc = "enter"
  <2>1. cmd.step \in Attempted
    BY <1>2 DEF Shaped
  <2>2. Source(cmd) = <<cmd.step - 1, "done">> /\ Target(cmd) = <<cmd.step, "busy">>
    BY <1>2 DEF Source, Target
  <2>3. <<Source(cmd), Target(cmd)>> \in Allowed
    BY <2>1, <2>2 DEF Allowed
  <2>4. Rank(Source(cmd)) < Rank(Target(cmd))
    BY <2>1, <2>2 DEF Rank, Attempted, Steps
  <2> QED
    BY <1>2, <2>1, <2>2, <2>3, <2>4 DEF EventOf, Event, Stage, Attempted
<1>3. CASE cmd.pc = "leave"
  <2>1. cmd.step \in Attempted
    BY <1>3 DEF Shaped
  <2>2. Source(cmd) = <<cmd.step, "busy">> /\ Target(cmd) = <<cmd.step, "done">>
    BY <1>3 DEF Source, Target
  <2>3. <<Source(cmd), Target(cmd)>> \in Allowed
    BY <2>1, <2>2 DEF Allowed
  <2>4. Rank(Source(cmd)) < Rank(Target(cmd))
    BY <2>1, <2>2 DEF Rank, Attempted, Steps
  <2>5. file[cmd.step] \in Artifact \cup {None}
    BY <2>1 DEF TypeOK, Attempted
  <2> QED
    BY <1>3, <2>1, <2>2, <2>3, <2>4, <2>5 DEF EventOf, Event, Stage, Attempted
<1>4. CASE cmd.pc = "fail"
  <2>1. cmd.step \in Attempted
    BY <1>4 DEF Shaped
  <2>2. Source(cmd) = <<cmd.step, "busy">> /\ Target(cmd) = <<cmd.step, "failed">>
    BY <1>4 DEF Source, Target
  <2>3. <<Source(cmd), Target(cmd)>> \in Allowed
    BY <2>1, <2>2 DEF Allowed
  <2>4. Rank(Source(cmd)) < Rank(Target(cmd))
    BY <2>1, <2>2 DEF Rank, Attempted, Steps
  <2> QED
    BY <1>4, <2>1, <2>2, <2>3, <2>4 DEF EventOf, Event, Stage, Attempted
<1>5. CASE cmd.pc = "adopt"
  <2>1. cmd.step \in Reconcilable \cup {Handoff}
    BY <1>5 DEF Shaped
  <2>2. Target(cmd) = <<cmd.step, "done">>
    BY <1>5 DEF Target
  <2>3. Source(cmd) = IF cmd.step = Handoff THEN <<Handoff - 1, "done">>
                      ELSE <<cmd.step, "failed">>
    BY <1>5 DEF Source
  <2>4. <<Source(cmd), Target(cmd)>> \in Allowed
    BY <2>1, <2>2, <2>3 DEF Allowed
  <2>5. Rank(Source(cmd)) < Rank(Target(cmd))
    BY <2>1, <2>2, <2>3 DEF Rank, Reconcilable
  <2>6. cmd.step \in Steps
    BY <2>1 DEF Reconcilable, Steps
  <2>7. file[cmd.step] \in Artifact \cup {None}
    BY <2>6 DEF TypeOK
  <2> QED
    BY <1>5, <2>2, <2>4, <2>5, <2>6, <2>7 DEF EventOf, Event, Stage
<1> QED
  BY <1>1, <1>2, <1>3, <1>4, <1>5 DEF Writing

(* A command that begins, goes on to its next write, or ends.                 *)
LEMMA AtStart ==
  ASSUME ControlInv, TypeOK', Shaped', UNCHANGED <<journal, started>>,
         \/ cmd' = Idle
         \/ cmd'.pc \in Writing \ {"init"} /\ cmd'.write = "start"
  PROVE  ControlInv'
<1>1. JournalLegal'
  BY DEF ControlInv, JournalLegal, LegalChain
<1>2. WriteInProgress'
  BY DEF WriteInProgress, Writing, Idle
<1>3. Entered'
  BY DEF Entered, Writing, Idle
<1>4. StartedOnce'
  BY DEF ControlInv, StartedOnce, HasStage, StageNow, Writing, Idle
<1> QED
  BY <1>1, <1>2, <1>3, <1>4 DEF ControlInv

LEMMA AtWriteOf ==
  ASSUME ControlInv, TypeOK', UNCHANGED <<journal, started>>,
         NEW pc \in Writing \ {"init"}, NEW k \in 0 .. Review,
         NEW r \in Result \cup {None}, cmd' = WriteOf(pc, k, r),
         pc = "adopt" => k \in Reconcilable \cup {Handoff},
         pc # "adopt" => k \in Attempted
  PROVE  ControlInv'
<1>1. cmd'.pc = pc /\ cmd'.step = k /\ cmd'.write = "start"
  BY WriteTyped
<1>2. Shaped'
  BY <1>1 DEF Shaped, Writing
<1> QED
  BY <1>1, <1>2, AtStart

LEMMA AtIdle ==
  ASSUME ControlInv, TypeOK', UNCHANGED <<journal, started>>, cmd' = Idle
  PROVE  ControlInv'
<1>1. Shaped'
  BY DEF Shaped, Idle
<1> QED
  BY <1>1, AtStart

(* A step of somebody else.                                                   *)
LEMMA Elsewhere ==
  ASSUME ControlInv, TypeOK', UNCHANGED <<chain, started, cmd>>
  PROVE  ControlInv'
<1>1. JournalLegal' /\ WriteInProgress'
  BY DEF ControlInv, JournalLegal, LegalChain, WriteInProgress, HasStage,
         StageNow, Source, Target, chain
<1>2. Entered' /\ Shaped' /\ StartedOnce'
  BY DEF ControlInv, Entered, Shaped, StartedOnce, HasStage, StageNow, chain
<1> QED
  BY <1>1, <1>2 DEF ControlInv

(* The step numbers a command may have.                                       *)
LEMMA StepNumbers ==
  /\ Attempted \subseteq Steps /\ Steps \subseteq 0 .. Review
  /\ Reconcilable \cup {Handoff} \subseteq Steps
  /\ Reconcilable \subseteq Attempted /\ Installing \subseteq Attempted
  /\ Ingest \in Attempted /\ Appraise \in Attempted
  /\ Handoff \in Steps /\ 0 \in 0 .. Review
BY DEF Attempted, Steps, Reconcilable, Installing, Deploy, Challenge, Handoff,
       Ingest, Appraise, Issue, Review

--------------------------------------------------------------------------------
(* The steps of a campaign keep the control invariant.                        *)
LEMMA BeginStep ==
  ASSUME ControlInv, NEW k \in Attempted, Begin(k)
  PROVE  ControlInv'
<1> DEFINE r == IF k \in {Ingest, Appraise} THEN returned ELSE None
<1>1. k \in 0 .. Review /\ r \in Result \cup {None}
  BY StepNumbers DEF ControlInv, TypeOK
<1>2. cmd' = WriteOf("enter", k, r) /\ cmd' \in Commands
  BY <1>1, WriteTyped DEF Begin, Start, Writing
<1>3. UNCHANGED <<chain, files, returned, children>>
  BY DEF Begin, Start, chain
<1>4. TypeOK'
  BY <1>2, <1>3 DEF ControlInv, TypeOK, chain, files, children
<1>5. UNCHANGED <<journal, started>>
  BY <1>3 DEF chain, children
<1> HIDE DEF r
<1> QED
  BY <1>1, <1>2, <1>4, <1>5, AtWriteOf DEF Writing

LEMMA AdoptStep ==
  ASSUME ControlInv, NEW k \in Reconcilable \cup {Handoff},
         Start(WriteOf("adopt", k, None)), UNCHANGED journal
  PROVE  ControlInv'
<1>1. k \in 0 .. Review
  BY StepNumbers
<1>2. cmd' = WriteOf("adopt", k, None) /\ cmd' \in Commands
  BY <1>1, WriteTyped DEF Start, Writing
<1>3. UNCHANGED <<chain, files, returned, children>>
  BY DEF Start, chain
<1>4. TypeOK'
  BY <1>2, <1>3 DEF ControlInv, TypeOK, chain, files, children
<1>5. UNCHANGED <<journal, started>>
  BY <1>3 DEF chain, children
<1> QED
  BY <1>1, <1>2, <1>4, <1>5, AtWriteOf DEF Writing

LEMMA InitializeStep ==
  ASSUME ControlInv, InitializeState
  PROVE  ControlInv'
<1>1. cmd' = WriteOf("init", 0, None) /\ cmd' \in Commands
  BY WriteTyped, StepNumbers DEF InitializeState, Start, Writing
<1>2. cmd'.pc = "init" /\ cmd'.step = 0 /\ cmd'.write = "start"
  BY <1>1 DEF WriteOf
<1>3. /\ journal = None /\ journal' = <<>> /\ head = 0
      /\ UNCHANGED <<stray, head, files, returned, children>>
  BY DEF InitializeState, Start
<1>4. <<>> \in Seq(Event) /\ Len(<<>>) = 0
  OBVIOUS
<1>5. TypeOK'
  BY <1>1, <1>3, <1>4 DEF ControlInv, TypeOK, files, children
<1>6. JournalLegal'
  BY <1>3, <1>4 DEF JournalLegal
<1>7. journal' # None
  BY <1>3, <1>4, ConstantsAssumption
<1>8. WriteInProgress' /\ Entered' /\ Shaped'
  BY <1>2, <1>3, <1>4, <1>7 DEF WriteInProgress, Entered, Shaped
<1>9. StartedOnce'
  <2>1. \A k \in Attempted : started[k] <= 1 /\ ~(started[k] > 0)
    BY <1>3 DEF ControlInv, StartedOnce, HasStage
  <2> QED
    BY <1>2, <1>3, <2>1 DEF StartedOnce, children
<1> QED
  BY <1>5, <1>6, <1>8, <1>9 DEF ControlInv

LEMMA CreateStep ==
  ASSUME ControlInv, CreateTemporary
  PROVE  ControlInv'
<1>1. cmd.pc \in Writing /\ cmd.write = "start" /\ cmd # Idle
  BY DEF CreateTemporary, AtWrite, Writing, Idle
<1>2. /\ cmd' = [pc |-> cmd.pc, step |-> cmd.step, input |-> cmd.input,
                write |-> "temporary"]
      /\ stray' = TRUE
      /\ UNCHANGED <<journal, head, files, returned, children>>
  BY <1>1, CommandTyped DEF CreateTemporary, ControlInv
<1>3. /\ cmd'.pc = cmd.pc /\ cmd'.step = cmd.step /\ cmd'.input = cmd.input
      /\ cmd'.write = "temporary"
  BY <1>2
<1>4. TypeOK'
  <2>1. cmd' \in Commands
    BY <1>1, <1>2, CommandTyped DEF Commands, ControlInv
  <2> QED
    BY <1>2, <2>1 DEF ControlInv, TypeOK, files, children
<1>5. JournalLegal' /\ Shaped' /\ Entered'
  BY <1>1, <1>2, <1>3
     DEF ControlInv, JournalLegal, LegalChain, Shaped, Entered, Writing
<1>6. StartedOnce'
  BY <1>1, <1>2, <1>3
     DEF ControlInv, StartedOnce, HasStage, StageNow, children, Writing
<1>7. CASE cmd.pc = "init"
  <2>1. journal # None /\ Len(journal) = 0
    BY <1>1, <1>7 DEF ControlInv, WriteInProgress
  <2>2. head = 0
    BY <2>1 DEF ControlInv, TypeOK
  <2>3. WriteInProgress'
    BY <1>2, <1>3, <1>7, <2>1, <2>2 DEF WriteInProgress
  <2> QED
    BY <1>4, <1>5, <1>6, <2>3 DEF ControlInv
<1>8. CASE cmd.pc # "init"
  <2>1. Loadable /\ StageNow = Source(cmd)
    BY <1>8 DEF CreateTemporary
  <2>2. Source(cmd)' = Source(cmd) /\ StageNow' = StageNow
    BY <1>2, <1>3 DEF Source, StageNow
  <2>3. WriteInProgress'
    BY <1>2, <1>3, <1>8, <2>1, <2>2 DEF WriteInProgress, Loadable, Readable
  <2> QED
    BY <1>4, <1>5, <1>6, <2>3 DEF ControlInv
<1> QED
  BY <1>7, <1>8

(* The event that is installed and the journal it extends.                    *)
LEMMA Installed ==
  ASSUME ControlInv, InstallEvent
  PROVE  /\ journal \in Seq(Event) /\ journal # None /\ head = Len(journal)
         /\ journal' = Append(journal, EventOf(cmd)) /\ EventOf(cmd) \in Event
         /\ Len(journal') = Len(journal) + 1 /\ journal' \in Seq(Event)
         /\ \A i \in 1 .. Len(journal) : journal'[i] = journal[i]
         /\ journal'[Len(journal')] = EventOf(cmd)
         /\ StageNow' = Target(cmd)
         /\ cmd.pc \in Writing /\ cmd.write = "temporary" /\ cmd # Idle
         /\ cmd.pc = "init" => Len(journal) = 0
         /\ cmd.pc # "init" => Len(journal) > 0 /\ StageNow = Source(cmd)
<1>1. cmd.pc \in Writing /\ cmd.write = "temporary" /\ cmd # Idle
  BY DEF InstallEvent, AtWrite, Writing, Idle
<1>2. /\ journal # None /\ head = Len(journal)
      /\ cmd.pc = "init" => Len(journal) = 0
      /\ cmd.pc # "init" => Len(journal) > 0 /\ StageNow = Source(cmd)
  BY <1>1 DEF ControlInv, WriteInProgress
<1>3. journal \in Seq(Event)
  BY <1>2 DEF ControlInv, TypeOK
<1>4. EventOf(cmd) \in Event /\ EventOf(cmd).to = Target(cmd)
  BY <1>1, EventTyped DEF ControlInv
<1>5. journal' = Append(journal, EventOf(cmd))
  BY DEF InstallEvent
<1>6. /\ Len(journal') = Len(journal) + 1 /\ journal' \in Seq(Event)
      /\ \A i \in 1 .. Len(journal) : journal'[i] = journal[i]
      /\ journal'[Len(journal')] = EventOf(cmd)
  BY <1>3, <1>4, <1>5
<1>7. StageNow' = Target(cmd)
  BY <1>4, <1>6 DEF StageNow
<1> QED
  BY <1>1, <1>2, <1>3, <1>4, <1>5, <1>6, <1>7

LEMMA InstallStep ==
  ASSUME ControlInv, InstallEvent
  PROVE  ControlInv'
<1>1. /\ cmd' = [pc |-> cmd.pc, step |-> cmd.step, input |-> cmd.input,
                write |-> "event"]
      /\ stray' = FALSE
      /\ UNCHANGED <<head, files, returned, children>>
  BY Installed, CommandTyped DEF InstallEvent, ControlInv
<1>2. /\ cmd'.pc = cmd.pc /\ cmd'.step = cmd.step /\ cmd'.write = "event"
  BY <1>1
<1>3. Target(cmd') = Target(cmd)
  BY <1>2 DEF Target
<1>4. /\ cmd.pc = "init" => Target(cmd) = <<0, "done">>
      /\ cmd.pc # "init" => /\ cmd.step \in Steps
                            /\ <<Source(cmd), Target(cmd)>> \in Allowed
                            /\ Rank(Source(cmd)) < Rank(Target(cmd))
  BY Installed, EventTyped DEF ControlInv
<1>5. TypeOK'
  <2>1. cmd' \in Commands
    BY <1>1, Installed, CommandTyped DEF Commands, ControlInv
  <2>2. head' > 0 => journal' # None /\ head' <= Len(journal')
    BY <1>1, Installed, ConstantsAssumption DEF ControlInv, TypeOK
  <2> QED
    BY <1>1, <2>1, <2>2, Installed DEF ControlInv, TypeOK, files, children
<1>6. journal' # None /\ Len(journal') > 0
  BY Installed, ConstantsAssumption
<1>7. JournalLegal'
  <2>1. journal'[1].to = <<0, "done">>
    <3>1. CASE cmd.pc = "init"
      BY <1>4, <3>1, Installed, EventTyped DEF ControlInv
    <3>2. CASE cmd.pc # "init"
      BY <3>2, Installed DEF ControlInv, JournalLegal, LegalChain
    <3> QED
      BY <3>1, <3>2
  <2>2. ASSUME NEW i \in 1 .. Len(journal') - 1
        PROVE  <<journal'[i].to, journal'[i + 1].to>> \in Allowed
    <3>1. CASE i < Len(journal)
      <4>1. journal'[i] = journal[i] /\ journal'[i + 1] = journal[i + 1]
        BY <3>1, Installed
      <4>2. i \in 1 .. Len(journal) - 1 /\ Len(journal) > 0
        BY <3>1, Installed
      <4> QED
        BY <4>1, <4>2, Installed DEF ControlInv, JournalLegal, LegalChain
    <3>2. CASE i = Len(journal)
      <4>1. cmd.pc # "init"
        BY <3>2, Installed
      <4>2. journal'[i].to = Source(cmd)
        BY <3>2, <4>1, Installed DEF StageNow
      <4>3. journal'[i + 1].to = Target(cmd)
        BY <3>2, Installed, EventTyped DEF ControlInv
      <4> QED
        BY <1>4, <4>1, <4>2, <4>3
    <3> QED
      BY <3>1, <3>2, Installed
  <2> QED
    BY <2>1, <2>2 DEF JournalLegal, LegalChain
<1>8. WriteInProgress' /\ Entered' /\ Shaped'
  <2>1. WriteInProgress'
    BY <1>1, <1>2, <1>3, <1>6, Installed DEF WriteInProgress, HasStage
  <2>2. Entered'
    BY <1>2, Installed DEF Entered, Writing
  <2>3. Shaped'
    BY <1>2 DEF Shaped, ControlInv
  <2> QED
    BY <2>1, <2>2, <2>3
<1>9. StartedOnce'
  <2> SUFFICES ASSUME NEW k \in Attempted
               PROVE  /\ started[k] <= 1
                      /\ started[k] > 0 => Rank(Target(cmd)) >= 3 * k
                      /\ cmd.pc = "enter" /\ cmd.step = k => started[k] = 0
    BY <1>1, <1>2, <1>6, Installed DEF StartedOnce, HasStage, children, Writing
  <2>1. started[k] <= 1
    BY DEF ControlInv, StartedOnce
  <2>2. k \in Steps /\ started[k] \in Nat
    BY StepNumbers DEF ControlInv, TypeOK
  <2>3. CASE started[k] > 0
    <3>1. HasStage /\ Rank(StageNow) >= 3 * k
      BY <2>3 DEF ControlInv, StartedOnce
    <3>2. cmd.pc # "init"
      BY <3>1, Installed DEF HasStage
    <3>3. Rank(Source(cmd)) >= 3 * k /\ Rank(Source(cmd)) < Rank(Target(cmd))
      BY <1>4, <3>1, <3>2, Installed
    <3>4. cmd.pc = "enter" => cmd.step # k
      BY <1>4, <3>2, <3>3, <2>2 DEF Rank, Source, Steps, Deploy, Review
    <3>5. Rank(Target(cmd)) >= 3 * k
      <4>1. Source(cmd) \in Stage /\ Target(cmd) \in Stage
        BY <3>2, Installed, StageTyped, EventTyped DEF ControlInv, Event
      <4>2. ASSUME NEW s \in Stage PROVE Rank(s) \in Int
        BY DEF Rank, Stage, Steps, Deploy, Review
      <4> QED
        BY <2>2, <3>3, <4>1, <4>2 DEF Steps, Deploy, Review
    <3> QED
      BY <2>1, <3>4, <3>5
  <2> QED
    BY <2>1, <2>2, <2>3
<1> QED
  BY <1>5, <1>7, <1>8, <1>9 DEF ControlInv

LEMMA ReplaceStep ==
  ASSUME ControlInv, ReplaceHead
  PROVE  ControlInv'
<1>1. cmd.pc \in Writing /\ cmd.write = "event" /\ cmd # Idle
  BY DEF ReplaceHead, AtWrite, Writing, Idle
<1>2. /\ head' = Len(journal) /\ Readable
      /\ UNCHANGED <<journal, stray, files, returned, children>>
  BY DEF ReplaceHead
<1>3. Len(journal) \in Nat /\ journal # None
  BY <1>2 DEF Readable, ControlInv, TypeOK
<1>4. CASE cmd.pc = "enter"
  <2>1. cmd.step \in Attempted /\ cmd.step \in Steps
    BY <1>4, StepNumbers DEF ControlInv, Shaped
  <2>2. cmd' = [pc |-> "work", step |-> cmd.step, input |-> cmd.input,
               write |-> "start"]
    BY <1>1, <1>4, CommandTyped DEF ReplaceHead, ControlInv
  <2>3. cmd' \in Commands
    BY <1>1, <2>1, <2>2, CommandTyped DEF Commands, ControlInv
  <2>4. TypeOK'
    BY <1>2, <1>3, <2>3 DEF ControlInv, TypeOK, files, children
  <2>5. cmd'.pc = "work" /\ cmd'.step = cmd.step
    BY <2>2
  <2>6. JournalLegal'
    BY <1>2 DEF ControlInv, JournalLegal, LegalChain
  <2>7. Shaped' /\ WriteInProgress'
    BY <2>1, <2>5 DEF Shaped, WriteInProgress, Writing
  <2>8. Entered'
    <3>1. StageNow = Target(cmd) /\ HasStage
      BY <1>1 DEF ControlInv, WriteInProgress
    <3> QED
      BY <1>2, <1>4, <2>5, <3>1 DEF Entered, Target, HasStage, StageNow
  <2>9. StartedOnce'
    BY <1>1, <1>2, <1>4, <2>5
       DEF ControlInv, StartedOnce, HasStage, StageNow, children
  <2> QED
    BY <2>4, <2>6, <2>7, <2>8, <2>9 DEF ControlInv
<1>5. CASE cmd.pc # "enter"
  <2>1. cmd' = Idle
    BY <1>5 DEF ReplaceHead
  <2>2. TypeOK'
    BY <1>2, <1>3, <2>1 DEF ControlInv, TypeOK, Commands, files, children
  <2> QED
    BY <1>2, <2>1, <2>2, AtIdle DEF children
<1> QED
  BY <1>4, <1>5

LEMMA ExtractStep ==
  ASSUME ControlInv, ExtractArchive
  PROVE  ControlInv'
<1>1. /\ cmd.pc = "work" /\ cmd.step = Ingest /\ cmd # Idle
      /\ package' = returned
      /\ UNCHANGED <<chain, file, returned, children>>
  BY DEF ExtractArchive, Idle
<1>2. cmd' = [pc |-> "extracted", step |-> Ingest, input |-> cmd.input,
             write |-> "start"]
  BY <1>1, CommandTyped DEF ExtractArchive, ControlInv, Writing
<1>3. cmd' \in Commands
  BY <1>1, <1>2, CommandTyped, StepNumbers DEF Commands, ControlInv
<1>4. TypeOK'
  BY <1>1, <1>3 DEF ControlInv, TypeOK, chain, children
<1>5. JournalLegal' /\ WriteInProgress' /\ Entered' /\ Shaped'
  BY <1>1, <1>2, StepNumbers
     DEF ControlInv, JournalLegal, LegalChain, WriteInProgress, Writing,
         Entered, Shaped, HasStage, StageNow, chain
<1>6. StartedOnce'
  BY <1>1, <1>2 DEF ControlInv, StartedOnce, HasStage, StageNow, chain, children
<1> QED
  BY <1>4, <1>5, <1>6 DEF ControlInv

LEMMA LaunchStep ==
  ASSUME ControlInv, NEW k \in Attempted, Launch(k)
  PROVE  ControlInv'
<1>1. /\ cmd.pc \in {"work", "extracted"} /\ cmd.step = k /\ cmd # Idle
      /\ started' = [started EXCEPT ![k] = @ + 1]
      /\ child' = [child EXCEPT ![k] = "running"]
      /\ UNCHANGED <<chain, files, returned>>
  BY DEF Launch, Idle
<1>2. cmd' = [pc |-> "await", step |-> k, input |-> cmd.input, write |-> "start"]
  BY <1>1, CommandTyped DEF Launch, ControlInv, Writing
<1>3. cmd' \in Commands
  BY <1>1, <1>2, CommandTyped, StepNumbers DEF Commands, ControlInv
<1>4. TypeOK'
  BY <1>1, <1>3, StepNumbers DEF ControlInv, TypeOK, chain, files
<1>5. JournalLegal' /\ WriteInProgress' /\ Entered' /\ Shaped'
  BY <1>1, <1>2, StepNumbers
     DEF ControlInv, JournalLegal, LegalChain, WriteInProgress, Writing,
         Entered, Shaped, HasStage, StageNow, chain
<1>6. StartedOnce'
  <2> SUFFICES ASSUME NEW j \in Attempted
               PROVE  /\ started'[j] <= 1
                      /\ started'[j] > 0 => HasStage /\ Rank(StageNow) >= 3 * j
    BY <1>1, <1>2 DEF StartedOnce, HasStage, StageNow, chain
  <2>1. CASE j = k
    <3>1. started[k] = 0 /\ started'[k] = 1
      BY <1>1, StepNumbers DEF ControlInv, StartedOnce, TypeOK
    <3>2. HasStage /\ StageNow = <<k, "busy">>
      BY <1>1 DEF ControlInv, Entered
    <3>3. Rank(StageNow) >= 3 * k
      BY <3>2, StepNumbers DEF Rank, Steps, Deploy, Review
    <3> QED
      BY <2>1, <3>1, <3>2, <3>3
  <2>2. CASE j # k
    <3>1. started'[j] = started[j]
      BY <1>1, <2>2, StepNumbers DEF ControlInv, TypeOK
    <3> QED
      BY <3>1 DEF ControlInv, StartedOnce
  <2> QED
    BY <2>1, <2>2
<1> QED
  BY <1>4, <1>5, <1>6 DEF ControlInv

LEMMA AcceptStep ==
  ASSUME ControlInv, NEW k \in Attempted, AcceptAnswer(k)
  PROVE  ControlInv'
<1>1. /\ cmd.pc = "await" /\ cmd.step = k /\ cmd # Idle
      /\ child' = [child EXCEPT ![k] = "none"]
      /\ UNCHANGED <<chain, package, returned, started>>
  BY DEF AcceptAnswer, Idle
<1>2. cmd' = WriteOf("leave", k, cmd.input)
  BY <1>1, CommandTyped DEF AcceptAnswer, ControlInv, Writing, WriteOf
<1>3. cmd' \in Commands /\ k \in Steps /\ k \in 0 .. Review
      /\ cmd.input \in Result \cup {None}
  BY <1>1, <1>2, CommandTyped, StepNumbers, WriteTyped DEF ControlInv, Writing
<1>4. file' \in [Steps -> Artifact \cup {None}]
  BY <1>3 DEF AcceptAnswer, ControlInv, TypeOK, Artifact
<1>5. TypeOK'
  BY <1>1, <1>3, <1>4 DEF ControlInv, TypeOK, chain
<1> QED
  BY <1>1, <1>2, <1>3, <1>5, AtWriteOf DEF Writing, chain

LEMMA ErrorStep ==
  ASSUME ControlInv, RaiseError
  PROVE  ControlInv'
<1>1. /\ cmd # Idle /\ stray' \in BOOLEAN
      /\ UNCHANGED <<journal, head, files, returned, started>>
      /\ child' \in [Steps -> {"none", "running", "installed"}]
  BY DEF RaiseError, ControlInv, TypeOK
<1>2. CASE cmd.pc \in {"work", "extracted", "await", "leave"}
  <2>1. cmd' = WriteOf("fail", cmd.step, None)
    BY <1>2 DEF RaiseError
  <2>2. cmd.step \in Attempted
    BY <1>2 DEF ControlInv, Shaped
  <2>3. cmd.step \in 0 .. Review /\ cmd' \in Commands
    BY <2>1, <2>2, StepNumbers, WriteTyped DEF Writing
  <2>4. TypeOK'
    BY <1>1, <2>3 DEF ControlInv, TypeOK, files
  <2> QED
    BY <1>1, <2>1, <2>2, <2>3, <2>4, AtWriteOf DEF Writing
<1>3. CASE cmd.pc \notin {"work", "extracted", "await", "leave"}
  <2>1. cmd' = Idle
    BY <1>3 DEF RaiseError
  <2>2. TypeOK'
    BY <1>1, <2>1 DEF ControlInv, TypeOK, Commands, files
  <2> QED
    BY <1>1, <2>1, <2>2, AtIdle
<1> QED
  BY <1>2, <1>3

(* Steps that leave the journal, the running command and the counts alone.    *)
LEMMA OtherStep ==
  ASSUME ControlInv,
         \/ RecordWorkerStageHandoff \/ InspectDeployment
         \/ \E k \in Installing : ChildInstalls(k)
         \/ \E k \in Attempted : ChildEnds(k)
         \/ \E r \in Result : WorkerReturns(r)
  PROVE  ControlInv'
<1>1. UNCHANGED <<chain, started, cmd>>
  BY DEF RecordWorkerStageHandoff, InspectDeployment, ChildInstalls, ChildEnds,
         WorkerReturns, children
<1>2. TypeOK'
  <2>1. CASE RecordWorkerStageHandoff \/ InspectDeployment
    BY <2>1, StepNumbers
       DEF ControlInv, TypeOK, RecordWorkerStageHandoff, InspectDeployment,
           Artifact, chain, children
  <2>2. ASSUME NEW k \in Installing, ChildInstalls(k) PROVE TypeOK'
    BY <2>2, StepNumbers DEF ControlInv, TypeOK, ChildInstalls, Artifact, chain
  <2>3. ASSUME NEW k \in Attempted, ChildEnds(k) PROVE TypeOK'
    BY <2>3, StepNumbers DEF ControlInv, TypeOK, ChildEnds, chain, files
  <2>4. ASSUME NEW r \in Result, WorkerReturns(r) PROVE TypeOK'
    BY <2>4 DEF ControlInv, TypeOK, WorkerReturns, chain, files, children
  <2> QED
    BY <2>1, <2>2, <2>3, <2>4
<1> QED
  BY <1>1, <1>2, Elsewhere

LEMMA ControlInit == Init => ControlInv
<1> SUFFICES ASSUME Init PROVE ControlInv
  OBVIOUS
<1>1. TypeOK
  <2>1. cmd \in Commands
    BY DEF Init, Commands
  <2>2. /\ file \in [Steps -> Artifact \cup {None}]
        /\ child \in [Steps -> {"none", "running", "installed"}]
        /\ started \in [Steps -> Nat]
    BY DEF Init
  <2>3. /\ journal \in Seq(Event) \cup {None}
        /\ {package, returned} \subseteq Result \cup {None}
    BY DEF Init
  <2>4. stray \in BOOLEAN
    BY DEF Init
  <2>5. head \in Nat /\ ~(head > 0)
    BY DEF Init
  <2> QED
    BY <2>1, <2>2, <2>3, <2>4, <2>5 DEF TypeOK
<1>2. JournalLegal /\ WriteInProgress /\ Entered /\ Shaped
  BY DEF Init, JournalLegal, WriteInProgress, Entered, Shaped, Idle, Writing
<1>3. StartedOnce
  BY StepNumbers DEF Init, StartedOnce, Idle
<1> QED
  BY <1>1, <1>2, <1>3 DEF ControlInv

LEMMA ControlNext == ControlInv /\ [Next]_vars => ControlInv'
<1> SUFFICES ASSUME ControlInv, [Next]_vars PROVE ControlInv'
  OBVIOUS
<1>1. ASSUME NEW k \in Attempted, Begin(k) \/ Launch(k) \/ AcceptAnswer(k)
      PROVE  ControlInv'
  BY <1>1, BeginStep, LaunchStep, AcceptStep
<1>2. ASSUME NEW k \in Reconcilable, Reconcile(k)
      PROVE  ControlInv'
  BY <1>2, AdoptStep DEF Reconcile
<1>3. CASE AcknowledgeWorkerStage
  BY <1>3, AdoptStep DEF AcknowledgeWorkerStage
<1>4. CASE InitializeState \/ ExtractArchive \/ Transition \/ RaiseError
  BY <1>4, InitializeStep, ExtractStep, CreateStep, InstallStep, ReplaceStep,
     ErrorStep DEF Transition
<1>5. CASE RecoverStateHead
  <2>1. TypeOK'
    BY <1>5 DEF RecoverStateHead, Readable, ControlInv, TypeOK, files, children
  <2> QED
    BY <1>5, <2>1, AtIdle DEF RecoverStateHead, children
<1>6. CASE Kill
  <2>1. TypeOK'
    BY <1>6 DEF Kill, ControlInv, TypeOK, Commands, chain, files, children
  <2> QED
    BY <1>6, <2>1, AtIdle DEF Kill, chain, children
<1>7. CASE UNCHANGED vars
  <2>1. TypeOK' /\ UNCHANGED <<chain, started, cmd>>
    BY <1>7 DEF vars, ControlInv, TypeOK, chain, files, children
  <2> QED
    BY <2>1, Elsewhere
<1>8. Deploy \in Attempted \cap Reconcilable /\ Challenge \in Attempted \cap Reconcilable
      /\ Issue \in Attempted \cap Reconcilable /\ Review \in Attempted
  BY DEF Attempted, Steps, Reconcilable, Deploy, Challenge, Handoff, Issue, Review
<1> QED
  BY <1>1, <1>2, <1>3, <1>4, <1>5, <1>6, <1>7, <1>8, OtherStep, StepNumbers
     DEF Next, Command, DeployCommand, CreateChallengeStep,
         IngestReturnedPackage, AppraiseCommand, IssueReceipt,
         GenerateReviewCandidates, ReconcileDeployment, ReconcileChallenge,
         ReconcileReceipt

LEMMA Control == Spec => []ControlInv
BY ControlInit, ControlNext, PTL DEF Spec

(* Every variable of the operator keeps its kind of value, whatever is killed.*)
THEOREM TypeCorrect == Spec => []TypeOK
<1>1. ControlInv => TypeOK
  BY DEF ControlInv
<1> QED
  BY <1>1, Control, PTL

(* No side effect is started twice: a command enters its step in the journal  *)
(* before it starts its child, and no command enters a step a second time.    *)
THEOREM SideEffectsOnce == Spec => []NoBlindRetry
<1>1. ControlInv => NoBlindRetry
  BY DEF ControlInv, StartedOnce, NoBlindRetry
<1> QED
  BY <1>1, Control, PTL

(* The journal is at every moment a chain that the next command accepts.      *)
THEOREM JournalsLegal == Spec => []JournalLegal
<1>1. ControlInv => JournalLegal
  BY DEF ControlInv
<1> QED
  BY <1>1, Control, PTL

--------------------------------------------------------------------------------
(* Steps that write no artifact and no event keep the data invariant if the   *)
(* command they leave behind still holds what it needs.                       *)
CommandHolds ==
  /\ cmd.pc \in {"leave", "adopt"} => file[cmd.step] # None
  /\ cmd.pc \in {"enter", "work", "extracted", "await"}
       /\ cmd.step \in {Ingest, Appraise} => cmd.input # None
  /\ cmd.pc = "await" /\ cmd.step = Ingest => cmd.input = package

LEMMA DataQuiet ==
  ASSUME DataInv, ControlInv', UNCHANGED <<journal, files, started>>,
         \A k \in Installing : child'[k] \in {child[k], "none"},
         CommandHolds'
  PROVE  DataInv'
<1>1. RecordsHold'
  BY DEF DataInv, RecordsHold, files
<1>2. Contents'
  BY DEF DataInv, Contents, CommandHolds, files, HasStage, StageNow
<1> QED
  BY <1>1, <1>2 DEF DataInv

(* An artifact that is put where there was none disturbs no record.           *)
LEMMA FreshArtifact ==
  ASSUME TypeOK, RecordsHold, UNCHANGED journal, NEW k \in Steps, NEW a,
         file[k] = None, file' = [file EXCEPT ![k] = a]
  PROVE  RecordsHold'
<1> SUFFICES ASSUME journal # None, NEW i \in 1 .. Len(journal),
                    journal[i].to[2] = "done", journal[i].to[1] # 0
             PROVE  /\ journal[i].record # None
                    /\ file'[journal[i].to[1]] = journal[i].record
  BY DEF RecordsHold
<1>1. journal[i].record # None /\ file[journal[i].to[1]] = journal[i].record
  BY DEF RecordsHold
<1>2. journal[i] \in Event
  BY DEF TypeOK
<1>3. journal[i].to[1] \in Steps
  BY <1>2 DEF Event, Stage
<1> QED
  BY <1>1, <1>3 DEF TypeOK

LEMMA DataInit == Init => DataInv
<1> SUFFICES ASSUME Init PROVE DataInv
  OBVIOUS
<1>1. RecordsHold
  BY DEF Init, RecordsHold
<1>2. Contents
  BY StepNumbers DEF Init, Contents, Recorded, HasStage, Idle, Steps, Deploy,
       Ingest, Appraise, Issue, Review
<1> QED
  BY <1>1, <1>2, ControlInit DEF DataInv

LEMMA DataCommands ==
  ASSUME DataInv, ControlInv',
         \/ InitializeState \/ RecoverStateHead \/ Kill \/ RaiseError
         \/ CreateTemporary \/ ReplaceHead
         \/ \E k \in Attempted : Begin(k)
         \/ \E k \in Reconcilable \cup {Handoff} :
              /\ file[k] # None
              /\ Start(WriteOf("adopt", k, None)) /\ UNCHANGED journal
  PROVE  DataInv'
<1>1. CASE InitializeState
  <2>1. /\ journal' = <<>> /\ Len(journal') = 0 /\ cmd'.pc = "init"
        /\ UNCHANGED <<files, children>>
    BY <1>1 DEF InitializeState, Start, WriteOf
  <2>2. RecordsHold'
    BY <2>1 DEF RecordsHold
  <2>3. Contents'
    BY <2>1 DEF DataInv, Contents, HasStage, files, children
  <2> QED
    BY <2>2, <2>3 DEF DataInv
<1>2. CASE RecoverStateHead \/ Kill \/ RaiseError
  <2>1. UNCHANGED <<journal, files, started>>
    BY <1>2 DEF RecoverStateHead, Kill, RaiseError, chain, children
  <2>2. \A k \in Installing : child'[k] \in {child[k], "none"}
    BY <1>2, StepNumbers DEF RecoverStateHead, Kill, RaiseError, children
  <2>3. cmd'.pc \in {"idle", "fail"}
    BY <1>2 DEF RecoverStateHead, Kill, RaiseError, Idle, WriteOf
  <2> QED
    BY <2>1, <2>2, <2>3, DataQuiet DEF CommandHolds
<1>3. CASE CreateTemporary
  <2>1. cmd # Idle /\ UNCHANGED <<journal, files, children>>
    BY <1>3 DEF CreateTemporary, AtWrite, Idle, Writing
  <2>2. cmd'.pc = cmd.pc /\ cmd'.step = cmd.step /\ cmd'.input = cmd.input
    BY <1>3, <2>1, CommandTyped DEF CreateTemporary, DataInv, ControlInv
  <2> QED
    BY <2>1, <2>2, DataQuiet DEF CommandHolds, DataInv, Contents, files, children
<1>4. CASE ReplaceHead
  <2>1. cmd # Idle /\ cmd.pc \in Writing /\ UNCHANGED <<journal, files, children>>
    BY <1>4 DEF ReplaceHead, AtWrite, Idle, Writing
  <2>2. \/ cmd'.pc = "idle"
        \/ /\ cmd.pc = "enter" /\ cmd'.pc = "work"
           /\ cmd'.step = cmd.step /\ cmd'.input = cmd.input
    BY <1>4, <2>1, CommandTyped DEF ReplaceHead, DataInv, ControlInv, Idle
  <2> QED
    BY <2>1, <2>2, DataQuiet DEF CommandHolds, DataInv, Contents, files, children
<1>5. ASSUME NEW k \in Attempted, Begin(k)
      PROVE  DataInv'
  <2>1. /\ UNCHANGED <<journal, files, children>>
        /\ cmd'.pc = "enter" /\ cmd'.step = k
        /\ k \in {Ingest, Appraise} => cmd'.input = returned /\ returned # None
    BY <1>5 DEF Begin, Start, WriteOf
  <2> QED
    BY <2>1, DataQuiet DEF CommandHolds, children
<1>6. ASSUME NEW k \in Reconcilable \cup {Handoff}, file[k] # None,
             Start(WriteOf("adopt", k, None)), UNCHANGED journal
      PROVE  DataInv'
  <2>1. /\ UNCHANGED <<journal, files, children>>
        /\ cmd'.pc = "adopt" /\ cmd'.step = k
    BY <1>6 DEF Start, WriteOf
  <2> QED
    BY <1>6, <2>1, DataQuiet DEF CommandHolds, files, children
<1> QED
  BY <1>1, <1>2, <1>3, <1>4, <1>5, <1>6

LEMMA DataInstall ==
  ASSUME DataInv, ControlInv', InstallEvent
  PROVE  DataInv'
<1>1. ControlInv /\ UNCHANGED <<files, children>>
  BY DEF DataInv, InstallEvent
<1>2. cmd'.pc = cmd.pc /\ cmd'.step = cmd.step /\ cmd'.input = cmd.input
  BY <1>1, Installed, CommandTyped DEF InstallEvent, ControlInv
<1>3. /\ EventOf(cmd).to = Target(cmd)
      /\ EventOf(cmd).record = IF cmd.pc \in {"leave", "adopt"}
                               THEN file[cmd.step] ELSE None
      /\ cmd.pc = "init" => Target(cmd) = <<0, "done">>
      /\ cmd.pc # "init" => cmd.step \in Steps
  BY <1>1, Installed, EventTyped DEF ControlInv
<1>4. RecordsHold'
  <2> SUFFICES ASSUME NEW i \in 1 .. Len(journal'),
                      journal'[i].to[2] = "done", journal'[i].to[1] # 0
               PROVE  /\ journal'[i].record # None
                      /\ file[journal'[i].to[1]] = journal'[i].record
    BY <1>1 DEF RecordsHold, files
  <2>1. CASE i <= Len(journal)
    <3>1. i \in 1 .. Len(journal) /\ journal'[i] = journal[i] /\ journal # None
      BY <1>1, <2>1, Installed
    <3> QED
      BY <3>1 DEF DataInv, RecordsHold
  <2>2. CASE i = Len(journal')
    <3>1. journal'[i] = EventOf(cmd)
      BY <1>1, <2>2, Installed
    <3>2. cmd.pc \in {"leave", "adopt"}
      BY <1>1, <1>3, <3>1, Installed DEF Target, Writing
    <3>3. Target(cmd) = <<cmd.step, "done">> /\ file[cmd.step] # None
      BY <3>2 DEF Target, DataInv, Contents
    <3> QED
      BY <1>3, <3>1, <3>2, <3>3
  <2> QED
    BY <1>1, <2>1, <2>2, Installed
<1>5. ASSUME Rank(Target(cmd)) >= 3 * Ingest + 2
      PROVE  package # None
  <2>1. cmd.pc # "init"
    BY <1>3, <1>5 DEF Rank, Ingest
  <2>2. HasStage /\ StageNow = Source(cmd)
    BY <1>1, <2>1, Installed DEF HasStage
  <2>3. CASE cmd.pc = "leave" /\ cmd.step = Ingest
    BY <2>3 DEF DataInv, Contents, Recorded, Ingest
  <2>4. CASE ~(cmd.pc = "leave" /\ cmd.step = Ingest)
    <3>1. Rank(Source(cmd)) >= 3 * Ingest + 2
      <4>1. CASE cmd.pc = "adopt"
        <5>1. cmd.step \in Reconcilable \cup {Handoff}
          BY <4>1 DEF DataInv, ControlInv, Shaped
        <5>2. cmd.step = Issue
          BY <1>5, <4>1, <5>1 DEF Rank, Target, Reconcilable, Deploy, Challenge,
                                  Handoff, Ingest, Issue
        <5> QED
          BY <4>1, <5>2 DEF Rank, Source, Handoff, Ingest, Issue
      <4>2. CASE cmd.pc \in {"enter", "leave", "fail"}
        BY <1>3, <1>5, <2>1, <2>4, <4>2
           DEF Rank, Source, Target, Steps, Deploy, Review, Ingest
      <4> QED
        BY <1>1, <2>1, <4>1, <4>2, Installed DEF Writing
    <3> QED
      BY <2>2, <3>1 DEF DataInv, Contents
  <2> QED
    BY <2>3, <2>4
<1>6. StageNow' = Target(cmd)
  BY <1>1, Installed
<1>7. Contents'
  BY <1>1, <1>2, <1>5, <1>6 DEF DataInv, Contents, files, children
<1> QED
  BY <1>4, <1>7 DEF DataInv

LEMMA DataExtract ==
  ASSUME DataInv, ControlInv', ExtractArchive
  PROVE  DataInv'
<1>1. /\ cmd.pc = "work" /\ cmd.step = Ingest /\ cmd # Idle /\ package = None
      /\ UNCHANGED <<journal, file, children>>
  BY DEF ExtractArchive, Idle, chain
<1>2. cmd'.pc = "extracted" /\ cmd'.step = Ingest /\ cmd'.input = cmd.input
  BY <1>1, CommandTyped DEF ExtractArchive, DataInv, ControlInv
<1>3. \A k \in Recorded : file[k] = None
  BY <1>1 DEF DataInv, Contents
<1>4. RecordsHold'
  BY <1>1 DEF DataInv, RecordsHold
<1>5. Contents'
  BY <1>1, <1>2, <1>3 DEF DataInv, Contents, HasStage, StageNow, children
<1> QED
  BY <1>4, <1>5 DEF DataInv

LEMMA DataLaunch ==
  ASSUME DataInv, ControlInv', NEW k \in Attempted, Launch(k)
  PROVE  DataInv'
<1>1. /\ cmd.pc \in {"work", "extracted"} /\ cmd.step = k /\ cmd # Idle
      /\ k = Ingest => package = cmd.input
      /\ started' = [started EXCEPT ![k] = @ + 1]
      /\ child' = [child EXCEPT ![k] = "running"]
      /\ UNCHANGED <<journal, file, package>>
  BY DEF Launch, CheckedBundle, Idle, chain, files
<1>2. cmd'.pc = "await" /\ cmd'.step = k /\ cmd'.input = cmd.input
  BY <1>1, CommandTyped DEF Launch, DataInv, ControlInv
<1>3. RecordsHold'
  BY <1>1 DEF DataInv, RecordsHold
<1>4. \A j \in Installing :
        /\ child'[j] # "none" => started'[j] > 0
        /\ child'[j] = "installed" => file'[j] # None
  BY <1>1, StepNumbers DEF DataInv, ControlInv, TypeOK, Contents
<1>5. Contents'
  BY <1>1, <1>2, <1>4 DEF DataInv, Contents, HasStage, StageNow
<1> QED
  BY <1>3, <1>5 DEF DataInv

LEMMA DataAccept ==
  ASSUME DataInv, ControlInv', NEW k \in Attempted, AcceptAnswer(k)
  PROVE  DataInv'
<1>1. /\ cmd.pc = "await" /\ cmd.step = k /\ cmd # Idle
      /\ child' = [child EXCEPT ![k] = "none"]
      /\ UNCHANGED <<journal, package, started>>
  BY DEF AcceptAnswer, Idle, chain
<1>2. cmd'.pc = "leave" /\ cmd'.step = k
  BY <1>1, CommandTyped DEF AcceptAnswer, DataInv, ControlInv
<1>3. \A j \in Installing :
        /\ child'[j] # "none" => started'[j] > 0
        /\ child'[j] = "installed" => child[j] = "installed" /\ j # k
  BY <1>1, StepNumbers DEF DataInv, ControlInv, TypeOK, Contents
<1>4. k \in Steps
  BY StepNumbers
<1>5. CASE k \in Installing
  <2>1. file' = file /\ child[k] = "installed"
    BY <1>5 DEF AcceptAnswer
  <2>2. file[k] # None
    BY <1>5, <2>1 DEF DataInv, Contents
  <2>3. RecordsHold'
    BY <1>1, <2>1 DEF DataInv, RecordsHold
  <2>4. Contents'
    BY <1>1, <1>2, <1>3, <2>1, <2>2 DEF DataInv, Contents, HasStage, StageNow
  <2> QED
    BY <2>3, <2>4 DEF DataInv
<1>6. CASE k \notin Installing
  <2> DEFINE a == IF k \in {Ingest, Appraise} THEN cmd.input ELSE Made
  <2>1. /\ file' = [file EXCEPT ![k] = a]
        /\ k # Review => file[k] = None
        /\ k = Appraise => cmd.input = package
    BY <1>6 DEF AcceptAnswer
  <2>2. /\ a # None
        /\ k \in {Ingest, Appraise} => a = package
        /\ k \notin {Ingest, Appraise} => a = Made
    BY <1>1, <2>1, ConstantsAssumption DEF DataInv, Contents, Artifact
  <2> HIDE DEF a
  <2>3. file'[k] = a /\ \A j \in Steps \ {k} : file'[j] = file[j]
    BY <1>4, <2>1 DEF DataInv, ControlInv, TypeOK
  <2>4. k # Issue
    BY <1>6 DEF Installing
  <2>5. RecordsHold'
    <3>1. CASE k # Review
      BY <1>1, <1>4, <2>1, <3>1, FreshArtifact DEF DataInv, ControlInv
    <3>2. CASE k = Review
      <4>1. k \notin {Ingest, Appraise}
        BY <3>2 DEF Ingest, Appraise, Review
      <4>2. CASE file[k] = None
        BY <1>1, <1>4, <2>1, <4>2, FreshArtifact DEF DataInv, ControlInv
      <4>3. CASE file[k] # None
        <5>1. file[k] = Made /\ a = Made
          BY <2>2, <3>2, <4>1, <4>3 DEF DataInv, Contents
        <5>2. file' = file
          BY <1>4, <2>1, <5>1 DEF DataInv, ControlInv, TypeOK
        <5> QED
          BY <1>1, <5>2 DEF DataInv, RecordsHold
      <4> QED
        BY <4>2, <4>3
    <3> QED
      BY <3>1, <3>2
  <2>6. Contents'
    <3>1. /\ Recorded \subseteq Steps /\ Review \in Steps
          /\ Installing \subseteq Steps
          /\ Review \notin {Ingest, Appraise}
          /\ \A j \in Recorded : j = k => k \in {Ingest, Appraise}
      BY <2>4, StepNumbers
         DEF Recorded, Steps, Deploy, Ingest, Appraise, Issue, Review
    <3>2. \A j \in Recorded : file'[j] # None => file'[j] = package'
      BY <1>1, <2>2, <2>3, <3>1 DEF DataInv, Contents
    <3>3. file'[Review] \in {None, Made}
      BY <2>2, <2>3, <3>1 DEF DataInv, Contents
    <3>4. \A j \in Installing : child'[j] = "installed" => file'[j] # None
      BY <1>3, <2>3, <3>1 DEF DataInv, Contents
    <3> QED
      BY <1>1, <1>2, <1>3, <2>2, <2>3, <3>2, <3>3, <3>4
         DEF DataInv, Contents, HasStage, StageNow
  <2> QED
    BY <2>5, <2>6 DEF DataInv
<1> QED
  BY <1>5, <1>6

(* What people, the worker and orphaned children put in place.                *)
LEMMA DataOthers ==
  ASSUME DataInv, ControlInv',
         \/ RecordWorkerStageHandoff \/ InspectDeployment
         \/ \E k \in Installing : ChildInstalls(k)
         \/ \E k \in Attempted : ChildEnds(k)
         \/ \E r \in Result : WorkerReturns(r)
  PROVE  DataInv'
<1>1. UNCHANGED <<journal, package, started, cmd>>
  BY DEF RecordWorkerStageHandoff, InspectDeployment, ChildInstalls, ChildEnds,
         WorkerReturns, chain, files, children
<1>2. ASSUME NEW k \in Installing, ChildInstalls(k)
      PROVE  DataInv'
  <2> DEFINE a == IF k = Issue THEN package ELSE Made
  <2>1. /\ child[k] = "running" /\ file[k] = None /\ k \in Steps
        /\ file' = [file EXCEPT ![k] = a]
        /\ child' = [child EXCEPT ![k] = "installed"]
    BY <1>2, StepNumbers DEF ChildInstalls
  <2>2. a # None
    <3>1. CASE k = Issue
      <4>1. started[k] > 0 /\ k \in Attempted
        BY <2>1, StepNumbers DEF DataInv, Contents
      <4>2. HasStage /\ Rank(StageNow) >= 3 * k
        BY <4>1 DEF DataInv, ControlInv, StartedOnce
      <4>3. Rank(StageNow) >= 3 * Ingest + 2
        <5>1. StageNow \in Stage
          BY <4>2, StageTyped DEF DataInv, ControlInv, HasStage
        <5>2. Rank(StageNow) \in Int
          BY <5>1 DEF Rank, Stage, Steps, Deploy, Review
        <5> QED
          BY <3>1, <4>2, <5>2 DEF Issue, Ingest
      <4> QED
        BY <3>1, <4>2, <4>3 DEF DataInv, Contents
    <3>2. CASE k # Issue
      BY <3>2, ConstantsAssumption DEF Artifact
    <3> QED
      BY <3>1, <3>2
  <2>3. k = Issue => a = package
    OBVIOUS
  <2> HIDE DEF a
  <2>4. file'[k] = a /\ \A j \in Steps \ {k} : file'[j] = file[j]
    BY <2>1 DEF DataInv, ControlInv, TypeOK
  <2>5. RecordsHold'
    BY <1>1, <2>1, FreshArtifact DEF DataInv, ControlInv
  <2>6. /\ Recorded \subseteq Steps /\ Review \in Steps /\ Review # k
        /\ Installing \subseteq Steps
        /\ \A j \in Recorded : j = k => k = Issue
    BY StepNumbers DEF Recorded, Installing, Steps, Deploy, Challenge, Ingest,
                       Appraise, Issue, Review
  <2>7. \A j \in Recorded : file'[j] # None => file'[j] = package'
    BY <1>1, <2>3, <2>4, <2>6 DEF DataInv, Contents
  <2>8. file'[Review] \in {None, Made}
    BY <2>4, <2>6 DEF DataInv, Contents
  <2>9. \A j \in Installing : /\ child'[j] # "none" => started'[j] > 0
                              /\ child'[j] = "installed" => file'[j] # None
    BY <1>1, <2>1, <2>2, <2>4, <2>6 DEF DataInv, ControlInv, TypeOK, Contents
  <2>10. cmd'.pc \in {"leave", "adopt"} => file'[cmd'.step] # None
    <3>1. cmd.pc \in {"leave", "adopt"} => cmd.step \in Steps
      BY StepNumbers DEF DataInv, ControlInv, Shaped
    <3> QED
      BY <1>1, <2>2, <2>4, <3>1 DEF DataInv, Contents
  <2>11. Contents'
    BY <1>1, <2>7, <2>8, <2>9, <2>10 DEF DataInv, Contents, HasStage, StageNow
  <2> QED
    BY <2>5, <2>11 DEF DataInv
<1>3. ASSUME NEW k \in {Deploy, Handoff}, file[k] = None,
             file' = [file EXCEPT ![k] = Made], UNCHANGED child
      PROVE  DataInv'
  <2>1. /\ k \in Steps /\ k \notin Recorded \cup Installing \cup {Review}
        /\ Recorded \cup Installing \cup {Review} \subseteq Steps
    BY <1>3 DEF Recorded, Installing, Steps, Deploy, Challenge, Handoff, Ingest,
                Appraise, Issue, Review
  <2>2. file'[k] = Made /\ \A j \in Steps \ {k} : file'[j] = file[j]
    BY <1>3, <2>1 DEF DataInv, ControlInv, TypeOK
  <2>3. RecordsHold'
    BY <1>1, <1>3, <2>1, FreshArtifact DEF DataInv, ControlInv
  <2>4. cmd'.pc \in {"leave", "adopt"} => file'[cmd'.step] # None
    <3>1. cmd.pc \in {"leave", "adopt"} => cmd.step \in Steps
      BY StepNumbers DEF DataInv, ControlInv, Shaped
    <3> QED
      BY <1>1, <2>2, <3>1, ConstantsAssumption DEF DataInv, Contents, Artifact
  <2>5. Contents'
    BY <1>1, <1>3, <2>1, <2>2, <2>4 DEF DataInv, Contents, HasStage, StageNow
  <2> QED
    BY <2>3, <2>5 DEF DataInv
<1>4. ASSUME \/ \E k \in Attempted : ChildEnds(k)
             \/ \E r \in Result : WorkerReturns(r)
      PROVE  DataInv'
  <2>1. UNCHANGED files
    BY <1>4 DEF ChildEnds, WorkerReturns
  <2>2. \A k \in Installing : child'[k] \in {child[k], "none"}
    BY <1>4, StepNumbers
       DEF ChildEnds, WorkerReturns, children, DataInv, ControlInv, TypeOK
  <2> QED
    BY <1>1, <2>1, <2>2, DataQuiet DEF CommandHolds, DataInv, Contents, files
<1> QED
  BY <1>2, <1>3, <1>4 DEF RecordWorkerStageHandoff, InspectDeployment, children

LEMMA DataNext == DataInv /\ [Next]_vars => DataInv'
<1> SUFFICES ASSUME DataInv, [Next]_vars PROVE DataInv'
  OBVIOUS
<1>1. ControlInv /\ ControlInv'
  BY ControlNext DEF DataInv
<1>2. ASSUME NEW k \in Attempted, Begin(k) \/ Launch(k) \/ AcceptAnswer(k)
      PROVE  DataInv'
  BY <1>1, <1>2, DataCommands, DataLaunch, DataAccept
<1>3. ASSUME NEW k \in Reconcilable, Reconcile(k)
      PROVE  DataInv'
  BY <1>1, <1>3, DataCommands DEF Reconcile
<1>4. CASE AcknowledgeWorkerStage
  BY <1>1, <1>4, DataCommands DEF AcknowledgeWorkerStage
<1>5. CASE \/ InitializeState \/ ExtractArchive \/ Transition \/ RaiseError
           \/ RecoverStateHead \/ Kill
  BY <1>1, <1>5, DataCommands, DataExtract, DataInstall DEF Transition
<1>6. CASE UNCHANGED vars
  <2>1. UNCHANGED <<journal, files, started, child, cmd>>
    BY <1>6 DEF vars, chain, children
  <2> QED
    BY <1>1, <2>1, DataQuiet DEF CommandHolds, DataInv, Contents, files
<1>7. Deploy \in Attempted \cap Reconcilable /\ Challenge \in Attempted \cap Reconcilable
      /\ Issue \in Attempted \cap Reconcilable /\ Review \in Attempted
  BY DEF Attempted, Steps, Reconcilable, Deploy, Challenge, Handoff, Issue, Review
<1> QED
  BY <1>1, <1>2, <1>3, <1>4, <1>5, <1>6, <1>7, DataOthers, StepNumbers
     DEF Next, Command, DeployCommand, CreateChallengeStep,
         IngestReturnedPackage, AppraiseCommand, IssueReceipt,
         GenerateReviewCandidates, ReconcileDeployment, ReconcileChallenge,
         ReconcileReceipt

LEMMA Data == Spec => []DataInv
BY DataInit, DataNext, PTL DEF Spec

(* A completed step recorded an artifact, and the artifact at its path is the *)
(* recorded one for ever, whatever orphaned children still write.             *)
THEOREM RecordsStay == Spec => []RecordsHold
<1>1. DataInv => RecordsHold
  BY DEF DataInv
<1> QED
  BY <1>1, Data, PTL

(* The ingested report, the appraisal and the receipt are for one result.     *)
THEOREM OneResult == Spec => []ResultsAgree
<1>1. DataInv => ResultsAgree
  <2> SUFFICES ASSUME DataInv, journal # None,
                      NEW k \in Recorded, Record(k) # None
               PROVE  Record(k) = package
    BY DEF ResultsAgree, Recorded
  <2> DEFINE done == {i \in 1 .. Len(journal) : journal[i].to = <<k, "done">>}
  <2>1. done # {} /\ Record(k) = journal[CHOOSE i \in done : TRUE].record
    BY DEF Record
  <2>2. PICK i \in done : Record(k) = journal[i].record
    BY <2>1
  <2>3. k # 0 /\ k \in Steps
    BY DEF Recorded, Steps, Deploy, Ingest, Appraise, Issue, Review
  <2>4. file[k] = journal[i].record /\ journal[i].record # None
    BY <2>2, <2>3 DEF DataInv, RecordsHold
  <2> QED
    BY <2>2, <2>4 DEF DataInv, Contents
<1> QED
  BY <1>1, Data, PTL

--------------------------------------------------------------------------------
(* Every step up to the present stage left its events in the journal, and no  *)
(* event is of a later stage.                                                 *)
Passed ==
  HasStage =>
    /\ \A i \in 1 .. Len(journal) : Rank(journal[i].to) <= Rank(StageNow)
    /\ \A k \in Steps :
         Rank(StageNow) >= 3 * k + 2 =>
           \E i \in 1 .. Len(journal) : journal[i].to = <<k, "done">>
    /\ \A k \in Attempted :
         Rank(StageNow) >= 3 * k =>
           \E i \in 1 .. Len(journal) : journal[i].to = <<k, "busy">>

LEMMA Ranks ==
  /\ \A s \in Stage : Rank(s) \in Int
  /\ \A k \in Steps : /\ Rank(<<k, "busy">>) = 3 * k
                      /\ Rank(<<k, "failed">>) = 3 * k + 1
                      /\ Rank(<<k, "done">>) = 3 * k + 2
  /\ Rank(<<0, "done">>) = 2
BY DEF Rank, Stage, Steps, Deploy, Review

(* Only two actions change the journal.                                       *)
LEMMA JournalEffect ==
  ASSUME [Next]_vars
  PROVE  \/ UNCHANGED journal
         \/ journal = None /\ journal' = <<>>
         \/ InstallEvent
<1>1. ASSUME NEW k \in Steps, Begin(k) \/ Launch(k) \/ AcceptAnswer(k) \/ Reconcile(k)
      PROVE  UNCHANGED journal
  BY <1>1 DEF Begin, Launch, AcceptAnswer, Reconcile, chain
<1>2. CASE InitializeState
  BY <1>2 DEF InitializeState
<1>3. CASE \/ RecoverStateHead \/ RecordWorkerStageHandoff
           \/ AcknowledgeWorkerStage \/ ExtractArchive
           \/ CreateTemporary \/ ReplaceHead \/ RaiseError \/ Kill
           \/ InspectDeployment
  BY <1>3 DEF RecoverStateHead, RecordWorkerStageHandoff,
              AcknowledgeWorkerStage, ExtractArchive, CreateTemporary,
              ReplaceHead, RaiseError, Kill, InspectDeployment, chain
<1>4. CASE \/ \E k \in Installing : ChildInstalls(k)
           \/ \E k \in Attempted : ChildEnds(k)
           \/ \E r \in Result : WorkerReturns(r)
  BY <1>4 DEF ChildInstalls, ChildEnds, WorkerReturns, chain
<1>5. CASE UNCHANGED vars
  BY <1>5 DEF vars, chain
<1>6. {Deploy, Challenge, Ingest, Appraise, Issue, Review} \subseteq Steps
  BY DEF Steps, Deploy, Challenge, Ingest, Appraise, Issue, Review
<1> QED
  BY <1>1, <1>2, <1>3, <1>4, <1>5, <1>6
     DEF Next, Command, Transition, DeployCommand, CreateChallengeStep,
         IngestReturnedPackage, AppraiseCommand, IssueReceipt,
         GenerateReviewCandidates, ReconcileDeployment, ReconcileChallenge,
         ReconcileReceipt

LEMMA PassedInit == Init => Passed
BY DEF Init, Passed, HasStage

(* An installed event is the next one after the stages that were passed.      *)
LEMMA PassedInstall ==
  ASSUME ControlInv, Passed, InstallEvent
  PROVE  Passed'
<1> DEFINE n == Len(journal)
           t == Target(cmd)
<1>1. /\ n \in Nat /\ Len(journal') = n + 1
      /\ \A i \in 1 .. n : journal'[i] = journal[i]
      /\ journal'[n + 1].to = t /\ StageNow' = t /\ t \in Stage
  <2>1. EventOf(cmd).to = t
    BY Installed, EventTyped DEF ControlInv
  <2> QED
    BY <2>1, Installed DEF Event
<1>2. CASE cmd.pc = "init"
  <2>1. t = <<0, "done">> /\ n = 0
    BY <1>2, Installed, EventTyped DEF ControlInv
  <2> HIDE DEF n, t
  <2>2. \A i \in 1 .. Len(journal') : journal'[i].to = t
    BY <1>1, <2>1
  <2>3. Rank(t) = 2 /\ \A k \in Steps : k \in Int /\ k > 0
    BY <2>1, Ranks DEF Steps, Deploy, Review
  <2> QED
    BY <1>1, <2>2, <2>3, StepNumbers DEF Passed
<1>3. CASE cmd.pc # "init"
  <2> DEFINE s == Source(cmd)
             k == cmd.step
  <2>1. /\ n > 0 /\ StageNow = s /\ HasStage /\ k \in Steps
        /\ Rank(s) < Rank(t) /\ s \in Stage
    <3>1. HasStage /\ StageNow = s
      BY <1>3, Installed DEF HasStage
    <3> QED
      BY <1>3, <3>1, Installed, EventTyped, StageTyped DEF ControlInv, HasStage
  <2>2. /\ Rank(s) \in Int /\ Rank(t) \in Int
        /\ \A i \in 1 .. n : Rank(journal[i].to) <= Rank(s)
        /\ \A i \in 1 .. n : Rank(journal[i].to) \in Int
    <3>1. ASSUME NEW i \in 1 .. n PROVE journal[i].to \in Stage
      <4>1. journal \in Seq(Event) /\ i \in 1 .. Len(journal)
        BY Installed
      <4>2. journal[i] \in Event
        BY <4>1
      <4> QED
        BY <4>2 DEF Event
    <3> QED
      BY <1>1, <2>1, <3>1, Ranks DEF Passed
  <2>3. /\ t \in {<<k, "busy">>, <<k, "failed">>, <<k, "done">>}
        /\ \/ s = <<k - 1, "done">> /\ t = <<k, "busy">>
           \/ s = <<k - 1, "done">> /\ k = Handoff
           \/ s \in {<<k, "busy">>, <<k, "failed">>} /\ t # <<k, "busy">>
    BY <1>3, Installed DEF Source, Target, Writing
  <2>4. /\ k \in 1 .. 7
        /\ Rank(<<k, "busy">>) = 3 * k /\ Rank(<<k, "failed">>) = 3 * k + 1
        /\ Rank(<<k, "done">>) = 3 * k + 2 /\ Rank(<<k - 1, "done">>) = 3 * k - 1
    <3> HIDE DEF k
    <3>1. k \in 1 .. 7
      BY <2>1 DEF Steps, Deploy, Review
    <3>2. k - 1 = 0 \/ k - 1 \in Steps
      BY <3>1 DEF Steps, Deploy, Review
    <3>3. Rank(<<k - 1, "done">>) = 3 * (k - 1) + 2
      <4>1. CASE k - 1 = 0
        BY <4>1, Ranks
      <4>2. CASE k - 1 \in Steps
        BY <4>2, Ranks
      <4> QED
        BY <3>2, <4>1, <4>2
    <3> QED
      BY <2>1, <3>1, <3>3, Ranks
  <2> HIDE DEF n, t, s, k
  <2>5. \A j \in Steps : 3 * j + 2 <= Rank(t) =>
          \/ t = <<j, "done">>
          \/ 3 * j + 2 <= Rank(s)
    <3> SUFFICES ASSUME NEW j \in Steps, 3 * j + 2 <= Rank(t), t # <<j, "done">>
                 PROVE  3 * j + 2 <= Rank(s)
      OBVIOUS
    <3>1. j \in Int
      BY StepNumbers DEF Steps, Deploy, Review
    <3>2. Rank(t) <= 3 * k + 2 /\ (t # <<k, "done">> => Rank(t) < 3 * k + 2)
      BY <2>3, <2>4
    <3>3. j < k
      BY <2>4, <3>1, <3>2, <2>2
    <3>4. Rank(s) >= 3 * k - 1
      BY <2>3, <2>4
    <3> QED
      BY <2>2, <2>4, <3>1, <3>3, <3>4
  <2>6. \A j \in Attempted : 3 * j <= Rank(t) =>
          \/ t = <<j, "busy">>
          \/ 3 * j <= Rank(s)
    <3> SUFFICES ASSUME NEW j \in Attempted, 3 * j <= Rank(t), t # <<j, "busy">>
                 PROVE  3 * j <= Rank(s)
      OBVIOUS
    <3>1. j \in Int /\ j # Handoff
      BY DEF Attempted, Steps, Deploy, Review
    <3>2. Rank(t) <= 3 * k + 2
      BY <2>3, <2>4
    <3>3. j <= k
      BY <2>2, <2>4, <3>1, <3>2
    <3>4. Rank(s) >= 3 * k - 1
      BY <2>3, <2>4
    <3>5. j = k => Rank(s) >= 3 * k
      BY <2>3, <2>4, <3>1
    <3> QED
      BY <2>2, <2>4, <3>1, <3>3, <3>4, <3>5
  <2>7. \A i \in 1 .. n + 1 : Rank(journal'[i].to) <= Rank(t)
    BY <1>1, <2>1, <2>2
  <2>8. \A j \in Steps : 3 * j + 2 <= Rank(t) =>
          \E i \in 1 .. n + 1 : journal'[i].to = <<j, "done">>
    <3> SUFFICES ASSUME NEW j \in Steps, 3 * j + 2 <= Rank(t)
                 PROVE  \E i \in 1 .. n + 1 : journal'[i].to = <<j, "done">>
      OBVIOUS
    <3>3. CASE t = <<j, "done">>
      BY <1>1, <3>3
    <3>1. j \in Int
      BY DEF Steps, Deploy, Review
    <3>2. CASE 3 * j + 2 <= Rank(s)
      <4>1. \E i \in 1 .. n : journal[i].to = <<j, "done">>
        BY <2>1, <2>2, <3>1, <3>2 DEF Passed, n
      <4> QED
        BY <1>1, <4>1
    <3> QED
      BY <2>5, <3>2, <3>3
  <2>9. \A j \in Attempted : 3 * j <= Rank(t) =>
          \E i \in 1 .. n + 1 : journal'[i].to = <<j, "busy">>
    <3> SUFFICES ASSUME NEW j \in Attempted, 3 * j <= Rank(t)
                 PROVE  \E i \in 1 .. n + 1 : journal'[i].to = <<j, "busy">>
      OBVIOUS
    <3>3. CASE t = <<j, "busy">>
      BY <1>1, <3>3
    <3>1. j \in Int
      BY DEF Attempted, Steps, Deploy, Review
    <3>2. CASE 3 * j <= Rank(s)
      <4>1. \E i \in 1 .. n : journal[i].to = <<j, "busy">>
        BY <2>1, <2>2, <3>1, <3>2 DEF Passed, n
      <4> QED
        BY <1>1, <4>1
    <3> QED
      BY <2>6, <3>2, <3>3
  <2>10. \A j \in Steps : j \in Int
    BY DEF Steps, Deploy, Review
  <2> QED
    BY <1>1, <2>2, <2>7, <2>8, <2>9, <2>10 DEF Passed, Attempted
<1> QED
  BY <1>2, <1>3

LEMMA PassedNext == ControlInv /\ Passed /\ [Next]_vars => Passed'
<1> SUFFICES ASSUME ControlInv, Passed, [Next]_vars PROVE Passed'
  OBVIOUS
<1>1. CASE UNCHANGED journal
  BY <1>1 DEF Passed, HasStage, StageNow
<1>2. CASE journal' = <<>>
  BY <1>2 DEF Passed, HasStage
<1> QED
  BY <1>1, <1>2, PassedInstall, JournalEffect

--------------------------------------------------------------------------------
(* The refinement of OrderedSteps.                                            *)
AttemptedNow == IF journal = None THEN {}
                ELSE {k \in Attempted :
                        \E i \in 1 .. Len(journal) :
                          journal[i].to = <<k, "busy">>}
AdoptedNow == [k \in Steps |-> IF journal = None THEN None ELSE Record(k)]

(* What one more event does to the record of a step.                          *)
LEMMA RecordAppended ==
  ASSUME NEW n \in Nat, journal # None, journal' # None,
         n = Len(journal), Len(journal') = n + 1,
         \A i \in 1 .. n : journal'[i] = journal[i],
         NEW k \in Steps
  PROVE  /\ journal'[n + 1].to # <<k, "done">> => Record(k)' = Record(k)
         /\ /\ journal'[n + 1].to = <<k, "done">>
            /\ \A i \in 1 .. n : journal[i].to # <<k, "done">>
            => Record(k) = None /\ Record(k)' = journal'[n + 1].record
<1> DEFINE done == {i \in 1 .. Len(journal) : journal[i].to = <<k, "done">>}
<1>1. ASSUME journal'[n + 1].to # <<k, "done">>
      PROVE  Record(k)' = Record(k)
  <2>1. done' = done
    BY <1>1
  <2>2. CASE done = {}
    BY <2>1, <2>2 DEF Record
  <2>3. CASE done # {}
    <3>1. PICK i \in 1 .. n : i = CHOOSE j \in done : TRUE
      BY <2>3
    <3>2. Record(k) = journal[i].record
      BY <2>3, <3>1 DEF Record
    <3>3. Record(k)' = journal'[i].record
      BY <2>1, <2>3, <3>1 DEF Record
    <3> QED
      BY <3>2, <3>3
  <2> QED
    BY <2>2, <2>3
<1>2. ASSUME journal'[n + 1].to = <<k, "done">>,
             \A i \in 1 .. n : journal[i].to # <<k, "done">>
      PROVE  Record(k) = None /\ Record(k)' = journal'[n + 1].record
  <2>1. done = {} /\ done' = {n + 1}
    BY <1>2
  <2>2. (CHOOSE j \in done' : TRUE) = n + 1
    BY <2>1
  <2> QED
    BY <2>1, <2>2 DEF Record
<1> QED
  BY <1>1, <1>2

(* A step that was passed has an artifact.                                    *)
LEMMA PassedRecord ==
  ASSUME DataInv, Passed, HasStage, NEW k \in Steps,
         Rank(StageNow) >= 3 * k + 2
  PROVE  Record(k) # None
<1> DEFINE done == {i \in 1 .. Len(journal) : journal[i].to = <<k, "done">>}
<1>1. done # {}
  BY DEF Passed
<1>2. PICK i \in done : Record(k) = journal[i].record
  BY <1>1 DEF Record
<1>3. k # 0
  BY DEF Steps, Deploy, Review
<1> QED
  BY <1>2, <1>3 DEF DataInv, RecordsHold, HasStage

LEMMA Simulates ==
  ASSUME DataInv, Passed, InstallEvent, NEW k, k = cmd.step
  PROVE  \/ Ordered!Next
         \/ AttemptedNow' = AttemptedNow /\ AdoptedNow' = AdoptedNow
<1> DEFINE n == Len(journal)
           t == Target(cmd)
<1>1. /\ n \in Nat /\ Len(journal') = n + 1 /\ journal # None /\ journal' # None
      /\ \A i \in 1 .. n : journal'[i] = journal[i]
      /\ journal'[n + 1].to = t
      /\ cmd.pc \in {"leave", "adopt"} => journal'[n + 1].record = file[k]
      /\ cmd.pc \in Writing
  <2>1. EventOf(cmd).to = t
        /\ (cmd.pc \in {"leave", "adopt"} => EventOf(cmd).record = file[k])
    BY Installed, EventTyped DEF DataInv, ControlInv
  <2> QED
    BY <2>1, Installed, ConstantsAssumption DEF DataInv
<1>2. AttemptedNow' = AttemptedNow \cup {j \in Attempted : t = <<j, "busy">>}
  <2>1. \A j \in Attempted :
          (\E i \in 1 .. n + 1 : journal'[i].to = <<j, "busy">>)
          <=> \/ \E i \in 1 .. n : journal[i].to = <<j, "busy">>
              \/ t = <<j, "busy">>
    <3> HIDE DEF n, t
    <3>1. \A i \in 1 .. n + 1 : i \in 1 .. n \/ i = n + 1
      BY <1>1
    <3>2. 1 .. n \subseteq 1 .. n + 1 /\ n + 1 \in 1 .. n + 1
      BY <1>1
    <3> QED
      BY <1>1, <3>1, <3>2
  <2> QED
    BY <1>1, <2>1 DEF AttemptedNow
<1>3. /\ AdoptedNow = [j \in Steps |-> Record(j)]
      /\ AdoptedNow' = [j \in Steps |-> Record(j)']
  BY <1>1 DEF AdoptedNow
<1>4. \A j \in Steps : t # <<j, "done">> => Record(j)' = Record(j)
  BY <1>1, RecordAppended
<1>5. CASE cmd.pc \in {"init", "fail"}
  <2>1. t = <<k, "failed">> \/ t = <<0, "done">>
    BY <1>5, EventTyped DEF Target, DataInv, ControlInv, Writing
  <2>2. \A j \in Steps : t # <<j, "done">>
    BY <2>1 DEF Steps, Deploy, Review
  <2>3. \A j \in Attempted : t # <<j, "busy">>
    BY <2>1
  <2> QED
    BY <1>2, <1>3, <1>4, <2>2, <2>3
<1>6. CASE cmd.pc \in {"enter", "leave", "adopt"}
  <2>1. /\ HasStage /\ StageNow = Source(cmd) /\ k \in Steps
        /\ Rank(Source(cmd)) < Rank(t)
    BY <1>6, Installed, EventTyped DEF HasStage, DataInv, ControlInv
  <2>2. /\ k \in 1 .. 7 /\ Rank(<<k, "busy">>) = 3 * k
        /\ Rank(<<k, "failed">>) = 3 * k + 1 /\ Rank(<<k, "done">>) = 3 * k + 2
        /\ k - 1 = 0 \/ k - 1 \in Steps
    <3>1. k \in 1 .. 7
      BY <2>1 DEF Steps, Deploy, Review
    <3> QED
      BY <2>1, <3>1, Ranks DEF Steps, Deploy, Review
  <2>3. Rank(<<k - 1, "done">>) = 3 * k - 1
    <3>1. CASE k - 1 = 0
      BY <2>2, <3>1, Ranks
    <3>2. CASE k - 1 \in Steps
      <4>1. Rank(<<k - 1, "done">>) = 3 * (k - 1) + 2
        BY <3>2, Ranks
      <4> QED
        BY <2>2, <4>1
    <3> QED
      BY <2>2, <3>1, <3>2
  <2>4. /\ cmd.pc = "enter" => StageNow = <<k - 1, "done">> /\ t = <<k, "busy">>
                               /\ k \in Attempted
        /\ cmd.pc = "leave" => StageNow = <<k, "busy">> /\ t = <<k, "done">>
                               /\ k \in Attempted
        /\ cmd.pc = "adopt" => /\ t = <<k, "done">>
                               /\ k \in Reconcilable \cup {Handoff}
                               /\ StageNow = IF k = Handoff THEN <<k - 1, "done">>
                                             ELSE <<k, "failed">>
    BY <2>1 DEF Source, Target, DataInv, ControlInv, Shaped
  <2> HIDE DEF n, t
  <2>5. /\ Rank(StageNow) \in Int /\ Rank(StageNow) >= 3 * k - 1
        /\ Rank(StageNow) < 3 * k + 2
        /\ cmd.pc = "enter" => Rank(StageNow) < 3 * k
    BY <1>6, <2>2, <2>3, <2>4
  <2>6. Ordered!Reached(k)
    <3> SUFFICES ASSUME NEW j \in Steps, j < k PROVE Record(j) # None
      BY <1>1 DEF Ordered!Reached
    <3>1. j \in Int
      BY DEF Steps, Deploy, Review
    <3>2. Rank(StageNow) >= 3 * j + 2
      BY <2>2, <2>5, <3>1
    <3> QED
      BY <2>1, <3>2, PassedRecord
  <2>7. ASSUME NEW i \in 1 .. n
        PROVE  /\ journal[i].to # <<k, "done">>
               /\ cmd.pc = "enter" => journal[i].to # <<k, "busy">>
    <3>1. Rank(journal[i].to) <= Rank(StageNow)
      BY <2>1 DEF Passed, n
    <3> QED
      BY <2>2, <2>5, <3>1
  <2>8. Record(k) = None
    BY <2>7 DEF Record, n
  <2>9. CASE cmd.pc = "enter"
    <3>1. k \notin AttemptedNow
      BY <2>7, <2>9 DEF AttemptedNow, n
    <3>2. AttemptedNow' = AttemptedNow \cup {k}
      BY <1>2, <2>4, <2>9
    <3>3. AdoptedNow' = AdoptedNow
      BY <1>3, <1>4, <2>4, <2>9
    <3>4. Ordered!Attempt(k)
      BY <1>3, <2>1, <2>6, <2>8, <3>1, <3>2, <3>3
         DEF Ordered!Attempt, AttemptedNow, AdoptedNow
    <3> QED
      BY <2>1, <3>4 DEF Ordered!Next
  <2>10. CASE cmd.pc \in {"leave", "adopt"}
    <3>1. t = <<k, "done">>
      BY <2>4, <2>10
    <3>2. file[k] \in Artifact
      <4>1. file[k] # None
        BY <2>10 DEF DataInv, Contents
      <4> QED
        BY <2>1, <4>1 DEF DataInv, ControlInv, TypeOK
    <3>3. k \in AttemptedNow \cup {Handoff}
      <4>1. CASE k # Handoff
        <5>1. k \in Attempted /\ 3 * k <= Rank(StageNow)
          BY <2>2, <2>4, <2>10, <4>1 DEF Reconcilable, Attempted, Steps, Deploy,
                                         Challenge, Handoff, Issue, Review
        <5> QED
          BY <1>1, <2>1, <5>1 DEF Passed, AttemptedNow
      <4> QED
        BY <4>1
    <3>4. AttemptedNow' = AttemptedNow
      BY <1>2, <3>1
    <3>5. Record(k)' = file[k]
      <4>1. journal'[n + 1].record = file[k]
        BY <1>1, <2>10
      <4> QED
        BY <1>1, <2>1, <2>7, <3>1, <4>1, RecordAppended DEF n
    <3>6. AdoptedNow' = [AdoptedNow EXCEPT ![k] = file[k]]
      <4>1. \A j \in Steps \ {k} : Record(j)' = Record(j)
        BY <1>4, <3>1
      <4> QED
        BY <1>3, <2>1, <3>5, <4>1
    <3>7. Ordered!Adopt(k, file[k])
      BY <1>3, <2>1, <2>6, <2>8, <3>3, <3>4, <3>6
         DEF Ordered!Adopt, AttemptedNow, AdoptedNow
    <3> QED
      BY <2>1, <3>2, <3>7 DEF Ordered!Next
  <2> QED
    BY <1>6, <2>9, <2>10
<1> QED
  BY <1>1, <1>5, <1>6 DEF Writing

(* Steps are taken in order, each is attempted once, and an adopted artifact  *)
(* stays adopted: what the journal says of a campaign are ordered steps.      *)
THEOREM Refinement == Spec => OrderedSpec
<1>1. Init => Ordered!Init
  BY DEF Init, Ordered!Init
<1>2. ASSUME DataInv, Passed, [Next]_vars
      PROVE  [Ordered!Next]_<<AttemptedNow, AdoptedNow>>
  <2>1. CASE UNCHANGED journal
    BY <2>1 DEF AttemptedNow, AdoptedNow, Record
  <2>2. CASE journal = None /\ journal' = <<>>
    <3>1. AttemptedNow = {} /\ AttemptedNow' = {}
      BY <2>2 DEF AttemptedNow
    <3>2. \A k \in Steps : Record(k)' = None
      BY <2>2 DEF Record
    <3>3. AdoptedNow' = AdoptedNow
      BY <2>2, <3>2 DEF AdoptedNow
    <3> QED
      BY <3>1, <3>3
  <2> QED
    BY <1>2, <2>1, <2>2, Simulates, JournalEffect
<1>3. Spec => []Passed
  <2>1. DataInv /\ Passed /\ [Next]_vars => Passed'
    BY PassedNext DEF DataInv
  <2> QED
    BY <2>1, Data, PassedInit, PTL DEF Spec
<1> QED
  BY <1>1, <1>2, <1>3, Data, PTL
     DEF Spec, OrderedSpec, Ordered!Spec, AttemptedNow, AdoptedNow
================================================================================
