--------------------------- MODULE MeasuredRunProofs ---------------------------
(***************************************************************************)
(* For any number of runs, challenges, jobs and packages: interference     *)
(* with the register shows in the quote, a run left alone publishes a      *)
(* package that appraises, no package is late and none is replaced.        *)
(***************************************************************************)
EXTENDS MeasuredRun, Naturals, SequenceTheorems, TLAPS

\* A run knows its challenge, job and directory, and in the end its outcome.
Bound(r) ==
    /\ ~At(r, "idle") =>
          run[r].challenge \in Challenge /\ run[r].job \in Job /\ run[r].out \in Out
    /\ run[r].pc \in {"trace", "extend", "result", "quote", "publish"} =>
          run[r].outcome \in Outcome

\* Nobody is held against a run before it relies on the register.
Fresh(r) ==
    run[r].pc \in {"idle", "reset", "initial", "start", "started"} => run[r].touched = {}

\* The register of a run that nobody touched.
Undisturbed(r) ==
    run[r].touched = {} =>
        /\ run[r].pc \in ChildSteps \cup {"extend"} => pcr = << Start(r) >>
        /\ run[r].pc \in {"result", "quote"} => pcr = << Start(r), Result(r) >>
        /\ At(r, "publish") => run[r].quote = << Start(r), Result(r) >>

\* A register that cannot become the one that r claims, except by a reset:
\* nobody else extends a binding of the challenge and job of r.
Spoiled(r, value) ==
    \/ value = <<>>
    \/ value[1] # Start(r)
    \/ Len(value) >= 2 /\ \A x \in Outcome :
          value[2] # [challenge |-> run[r].challenge, job |-> run[r].job, outcome |-> x]
    \/ Len(value) >= 3

Tampered(r) ==
    run[r].touched # {} /\ Start(r) \notin run[r].touched =>
        /\ Relies(r) => Spoiled(r, pcr)
        /\ At(r, "publish") => Spoiled(r, run[r].quote)

\* A late quote stays late.
LateKnown(r) == run[r].late => run[r].challenge \in expired

RunInv(r) == Bound(r) /\ Fresh(r) /\ Undisturbed(r) /\ Tampered(r) /\ LateKnown(r)

IInv ==
    /\ TypeOK
    /\ \A r \in Run : RunInv(r)
    /\ TamperingShows /\ UndisturbedAppraises /\ NoLateQuote

Extension == StartBinding \cup ResultBinding \cup {None}

-----------------------------------------------------------------------------
(* The two bindings of a run are of different kinds.                       *)
LEMMA BindingsDiffer ==
  ASSUME NEW s \in StartBinding, NEW t \in ResultBinding
  PROVE  s # t
<1>1. DOMAIN s = {"challenge", "job"}
  BY DEF StartBinding
<1>2. DOMAIN t = {"challenge", "job", "outcome"}
  BY DEF ResultBinding
<1> QED
  BY <1>1, <1>2

(* The bindings that a run extends are extensions.                         *)
LEMMA BindingsTyped ==
  ASSUME NEW r \in Run, Bound(r), ~At(r, "idle")
  PROVE  /\ Start(r) \in StartBinding
         /\ run[r].pc \in {"trace", "extend", "result", "quote", "publish"} =>
               Result(r) \in ResultBinding
BY DEF Bound, Start, Result, StartBinding, ResultBinding

(* Sequences of one and of two elements.                                   *)
LEMMA ShortSequences ==
  ASSUME NEW S, NEW a \in S, NEW b \in S
  PROVE  /\ << a >> \in Seq(S)
         /\ Append(<< a >>, b) = << a, b >>
<1>1. << a >> \in Seq(S) /\ << a, b >> \in Seq(S)
  OBVIOUS
<1>2. /\ Append(<< a >>, b) \in Seq(S)
      /\ Len(Append(<< a >>, b)) = 2
      /\ Append(<< a >>, b)[1] = a /\ Append(<< a >>, b)[2] = b
  BY <1>1, AppendProperties
<1>3. \A i \in 1 .. 2 : Append(<< a >>, b)[i] = << a, b >>[i]
  BY <1>2
<1> QED
  BY <1>1, <1>2, <1>3, SeqEqual

(* A step that leaves the register and a run alone leaves its invariant.   *)
LEMMA RunFrame ==
  ASSUME NEW r \in Run, RunInv(r), run'[r] = run[r], pcr' = pcr, expired \subseteq expired'
  PROVE  RunInv(r)'
<1>1. Start(r)' = Start(r) /\ Result(r)' = Result(r)
  BY DEF Start, Result
<1>2. Bound(r)' /\ Fresh(r)' /\ LateKnown(r)'
  BY DEF RunInv, Bound, Fresh, LateKnown, At
<1>3. Undisturbed(r)'
  BY <1>1 DEF RunInv, Undisturbed, At
<1>4. Tampered(r)'
  BY <1>1 DEF RunInv, Tampered, Spoiled, Relies, At
<1> QED
  BY <1>2, <1>3, <1>4 DEF RunInv

(* A process that does nothing satisfies the invariant.                    *)
LEMMA RunIdle ==
  ASSUME NEW r \in Run, run'[r] = Idle
  PROVE  RunInv(r)'
BY DEF RunInv, Bound, Fresh, Undisturbed, Tampered, LateKnown, Idle, At, Relies,
       ChildSteps

(* A spoiled register stays spoiled when something is appended that r      *)
(* itself or a run of another challenge or job extends.                    *)
LEMMA SpoiledStays ==
  ASSUME NEW r \in Run, NEW value \in Seq(Extension), NEW x \in Extension,
         Spoiled(r, value), x # Start(r)
  PROVE  Spoiled(r, Append(value, x))
<1>1. CASE value = <<>>
  <2>1. Append(value, x)[1] = x
    BY <1>1
  <2> QED
    BY <2>1 DEF Spoiled
<1>2. CASE value # <<>>
  <2>1. Len(value) \in Nat /\ Len(value) >= 1
    BY <1>2
  <2>2. /\ Len(Append(value, x)) = Len(value) + 1
        /\ \A i \in 1 .. Len(value) : Append(value, x)[i] = value[i]
    BY <2>1
  <2>3. Append(value, x)[1] = value[1]
    BY <2>1, <2>2
  <2>4. Len(value) >= 2 => Append(value, x)[2] = value[2]
    BY <2>1, <2>2
  <2> QED
    BY <1>2, <2>1, <2>2, <2>3, <2>4 DEF Spoiled
<1> QED
  BY <1>1, <1>2

(* What a run extends is no binding of another challenge or job.           *)
LEMMA OthersDiffer ==
  ASSUME NEW q \in Run, NEW r \in Run, Bound(q), Bound(r),
         ~At(q, "idle"), ~At(r, "idle"), Start(q) # Start(r),
         NEW x, x = Start(q) \/ (x = Result(q) /\ Result(q) \in ResultBinding)
  PROVE  /\ x # Start(r)
         /\ \A y \in Outcome :
               x # [challenge |-> run[r].challenge, job |-> run[r].job, outcome |-> y]
<1>1. Start(q) \in StartBinding /\ Start(r) \in StartBinding
  BY BindingsTyped
<1>2. \A y \in Outcome :
        [challenge |-> run[r].challenge, job |-> run[r].job, outcome |-> y] \in ResultBinding
  BY DEF Bound, ResultBinding
<1>3. CASE x = Start(q)
  BY <1>1, <1>2, <1>3, BindingsDiffer
<1>4. CASE x = Result(q) /\ Result(q) \in ResultBinding
  <2>1. run[q].challenge # run[r].challenge \/ run[q].job # run[r].job
    BY DEF Start
  <2>2. x.challenge = run[q].challenge /\ x.job = run[q].job
    BY <1>4 DEF Result
  <2> QED
    BY <1>1, <1>4, <2>1, <2>2, BindingsDiffer
<1> QED
  BY <1>3, <1>4

(* The invariant of a run after another one has touched the register.      *)
LEMMA RunTouched ==
  ASSUME TypeOK, NEW q \in Run, NEW r \in Run, q # r, RunInv(q), RunInv(r),
         ~At(q, "idle"), NEW value, NEW pc, Touch(q, value, pc), expired' = expired,
         \/ value = <<>>
         \/ \E x \in Extension :
               /\ value = Append(pcr, x)
               /\ x = Start(q) \/ (x = Result(q) /\ Result(q) \in ResultBinding)
  PROVE  RunInv(r)'
<1>1. CASE ~Relies(r)
  <2>1. run'[r] = run[r]
    BY <1>1 DEF Touch
  <2>2. Start(r)' = Start(r) /\ Result(r)' = Result(r)
    BY <2>1 DEF Start, Result
  <2>3. Bound(r)' /\ Fresh(r)' /\ LateKnown(r)'
    BY <2>1 DEF RunInv, Bound, Fresh, LateKnown, At
  <2>4. Undisturbed(r)'
    BY <1>1, <2>1, <2>2 DEF RunInv, Undisturbed, At, Relies
  <2>5. Tampered(r)'
    BY <1>1, <2>1, <2>2 DEF RunInv, Tampered, Spoiled, At, Relies
  <2> QED
    BY <2>3, <2>4, <2>5 DEF RunInv
<1>2. CASE Relies(r)
  <2>1. run'[r] = [run[r] EXCEPT !.touched = @ \cup {Start(q)}] /\ pcr' = value
    BY <1>2 DEF Touch
  <2>2. run[r] \in RunState
    BY DEF TypeOK
  <2>3. /\ run'[r].pc = run[r].pc /\ run'[r].challenge = run[r].challenge
        /\ run'[r].job = run[r].job /\ run'[r].out = run[r].out
        /\ run'[r].outcome = run[r].outcome /\ run'[r].quote = run[r].quote
        /\ run'[r].late = run[r].late
        /\ run'[r].touched = run[r].touched \cup {Start(q)}
    BY <2>1, <2>2 DEF RunState
  <2>4. Start(r)' = Start(r) /\ Result(r)' = Result(r)
    BY <2>3 DEF Start, Result
  <2>5. Bound(r)' /\ LateKnown(r)'
    BY <2>3 DEF RunInv, Bound, LateKnown, At
  <2>6. Fresh(r)' /\ Undisturbed(r)'
    BY <1>2, <2>3 DEF Fresh, Undisturbed, Relies, ChildSteps
  <2>7. Tampered(r)'
    <3> SUFFICES ASSUME Start(r) \notin run[r].touched, Start(q) # Start(r)
                 PROVE  Spoiled(r, value)
      BY <1>2, <2>1, <2>3, <2>4 DEF Tampered, Spoiled, Relies, At, ChildSteps
    <3>1. CASE value = <<>>
      BY <3>1 DEF Spoiled
    <3>2. ASSUME NEW x \in Extension, value = Append(pcr, x),
                 x = Start(q) \/ (x = Result(q) /\ Result(q) \in ResultBinding)
          PROVE  Spoiled(r, value)
      <4>1. ~At(r, "idle")
        BY <1>2 DEF Relies, At, ChildSteps
      <4>2. /\ x # Start(r)
            /\ \A y \in Outcome :
                  x # [challenge |-> run[r].challenge, job |-> run[r].job, outcome |-> y]
        BY <3>2, <4>1, OthersDiffer DEF RunInv
      <4>3. pcr \in Seq(Extension)
        BY DEF TypeOK, Register, Extension
      <4>4. CASE run[r].touched # {}
        BY <1>2, <3>2, <4>2, <4>3, <4>4, SpoiledStays DEF RunInv, Tampered
      <4>5. CASE run[r].touched = {} /\ pcr = << Start(r) >>
        <5>1. Append(pcr, x)[2] = x /\ Len(Append(pcr, x)) = 2
          BY <4>3, <4>5
        <5> QED
          BY <3>2, <4>2, <5>1 DEF Spoiled
      <4>6. CASE run[r].touched = {} /\ pcr = << Start(r), Result(r) >>
        <5>1. Len(Append(pcr, x)) = 3
          BY <4>3, <4>6
        <5> QED
          BY <3>2, <5>1 DEF Spoiled
      <4> QED
        BY <1>2, <4>4, <4>5, <4>6 DEF RunInv, Undisturbed, Relies
    <3> QED
      BY <3>1, <3>2
  <2> QED
    BY <2>5, <2>6, <2>7 DEF RunInv
<1> QED
  BY <1>1, <1>2

(* What `Continue` does to the fields of a run.                            *)
LEMMA ContinueFields ==
  ASSUME TypeOK, NEW r \in Run, NEW pc \in {"publish"} \cup TPMSteps \cup ChildSteps,
         run'[r] = [run[r] EXCEPT !.pc = pc]
  PROVE  /\ run'[r] \in RunState
         /\ run'[r].pc = pc
         /\ run'[r].challenge = run[r].challenge /\ run'[r].job = run[r].job
         /\ run'[r].out = run[r].out /\ run'[r].outcome = run[r].outcome
         /\ run'[r].quote = run[r].quote /\ run'[r].late = run[r].late
         /\ run'[r].touched = run[r].touched
         /\ Start(r)' = Start(r) /\ Result(r)' = Result(r)
<1>1. run[r] \in RunState
  BY DEF TypeOK
<1>2. run'[r] \in RunState
  BY <1>1 DEF RunState
<1> QED
  BY <1>1, <1>2 DEF RunState, Start, Result

(* A step of one run that leaves everything else alone.                    *)
LEMMA LocalStep ==
  ASSUME IInv, NEW r \in Run, NEW s \in RunState, run' = [run EXCEPT ![r] = s],
         pcr' = pcr, expired' = expired, package' = package,
         RunInv(r)'
  PROVE  IInv'
<1>1. run \in [Run -> RunState]
  BY DEF IInv, TypeOK
<1>2. TypeOK'
  BY <1>1 DEF IInv, TypeOK
<1>3. ASSUME NEW q \in Run, q # r
      PROVE  RunInv(q)'
  <2>1. run'[q] = run[q]
    BY <1>1, <1>3
  <2> QED
    BY <2>1, RunFrame DEF IInv
<1>4. (TamperingShows /\ UndisturbedAppraises /\ NoLateQuote)'
  BY DEF IInv, TamperingShows, UndisturbedAppraises, NoLateQuote
<1> QED
  BY <1>2, <1>3, <1>4 DEF IInv

LEMMA IdleTyped == Idle \in RunState
<1>1. << >> \in Register
  BY DEF Register
<1> QED
  BY <1>1 DEF Idle, RunState

(* A run that ends leaves the invariant alone.                             *)
LEMMA Abandoned ==
  ASSUME IInv, NEW r \in Run, Abandon(r), UNCHANGED <<pcr, expired, package>>
  PROVE  IInv'
<1>1. run'[r] = Idle
  BY DEF IInv, TypeOK, Abandon
<1> QED
  BY <1>1, IdleTyped, RunIdle, LocalStep DEF Abandon

(* A run that goes on without the register keeps its invariant where the   *)
(* step has established what the next one needs.                           *)
LEMMA Continued ==
  ASSUME IInv, NEW r \in Run, NEW pc \in {"publish"} \cup TPMSteps \cup ChildSteps,
         Continue(r, pc), UNCHANGED <<pcr, expired, package>>, RunInv(r)'
  PROVE  IInv'
<1>1. run' = [run EXCEPT ![r] = [run[r] EXCEPT !.pc = pc]]
  BY DEF Continue
<1>2. run'[r] = [run[r] EXCEPT !.pc = pc]
  BY <1>1 DEF IInv, TypeOK
<1>3. [run[r] EXCEPT !.pc = pc] \in RunState
  BY <1>2, ContinueFields DEF IInv
<1> QED
  BY <1>1, <1>3, LocalStep

(* A run that touches the register: the others keep their invariant.       *)
LEMMA Touched ==
  ASSUME IInv, NEW r \in Run, ~At(r, "idle"), NEW value,
         NEW pc \in {"publish"} \cup TPMSteps \cup ChildSteps,
         Touch(r, value, pc), UNCHANGED <<expired, package>>,
         \/ value = <<>>
         \/ \E x \in Extension :
               /\ value = Append(pcr, x)
               /\ x = Start(r) \/ (x = Result(r) /\ Result(r) \in ResultBinding),
         RunInv(r)'
  PROVE  IInv'
<1>1. pcr' \in Register
  <2>1. pcr \in Seq(Extension)
    BY DEF IInv, TypeOK, Register, Extension
  <2>2. CASE value = <<>>
    BY <2>2 DEF Touch, Register
  <2>3. CASE value # <<>>
    <3>1. PICK x \in Extension : value = Append(pcr, x)
      BY <2>3
    <3>2. value \in Seq(Extension)
      BY <2>1, <3>1
    <3> QED
      BY <3>2 DEF Touch, Register, Extension
  <2> QED
    BY <2>2, <2>3
<1>2. run' \in [Run -> RunState]
  <2>1. ASSUME NEW q \in Run
        PROVE  run'[q] \in RunState
    <3>1. run[q] \in RunState
      BY DEF IInv, TypeOK
    <3>2. CASE q = r
      BY <3>2, ContinueFields DEF IInv, Touch
    <3>3. CASE q # r /\ ~Relies(q)
      BY <3>1, <3>3 DEF Touch
    <3>4. CASE q # r /\ Relies(q)
      <4>1. Start(r) \in StartBinding
        BY BindingsTyped DEF IInv, RunInv
      <4>2. run'[q] = [run[q] EXCEPT !.touched = @ \cup {Start(r)}]
        BY <3>4 DEF Touch
      <4> QED
        BY <3>1, <4>1, <4>2 DEF RunState
    <3> QED
      BY <3>2, <3>3, <3>4
  <2>2. DOMAIN run' = Run /\ run' = [q \in Run |-> run'[q]]
    BY DEF Touch
  <2> QED
    BY <2>1, <2>2
<1>3. TypeOK'
  BY <1>1, <1>2 DEF IInv, TypeOK
<1>4. ASSUME NEW q \in Run
      PROVE  RunInv(q)'
  BY RunTouched DEF IInv
<1>5. (TamperingShows /\ UndisturbedAppraises /\ NoLateQuote)'
  BY DEF IInv, TamperingShows, UndisturbedAppraises, NoLateQuote
<1> QED
  BY <1>3, <1>4, <1>5 DEF IInv

-----------------------------------------------------------------------------
LEMMA InitInvariant == Init => IInv
<1> SUFFICES ASSUME Init
             PROVE  IInv
  OBVIOUS
<1>1. TypeOK
  <2>1. pcr \in Register
    <3>1. pcr = <<>> \/ pcr = << None >>
      BY DEF Init
    <3>2. << None >> \in Register
      BY ShortSequences DEF Register
    <3> QED
      BY <3>1, <3>2, EmptySeq DEF Register
  <2> QED
    BY <2>1, IdleTyped DEF Init, TypeOK
<1>2. \A r \in Run : RunInv(r)
  BY DEF Init, RunInv, Bound, Fresh, Undisturbed, Tampered, LateKnown, Idle, At,
         Relies, ChildSteps
<1>3. TamperingShows /\ UndisturbedAppraises /\ NoLateQuote
  BY DEF Init, TamperingShows, UndisturbedAppraises, NoLateQuote
<1> QED
  BY <1>1, <1>2, <1>3 DEF IInv

LEMMA BeginKeeps ==
  ASSUME IInv, NEW r \in Run, NEW c \in Challenge, NEW j \in Job, NEW o \in Out,
         Begin(r, c, j, o)
  PROVE  IInv'
<1> DEFINE s == [Idle EXCEPT !.pc = "reset", !.challenge = c, !.job = j, !.out = o]
<1>1. s \in RunState
  BY IdleTyped DEF RunState, TPMSteps
<1>2. /\ s.pc = "reset" /\ s.challenge = c /\ s.job = j /\ s.out = o
      /\ s.touched = {} /\ s.late = FALSE
  BY DEF Idle
<1>3. run'[r] = s
  BY DEF Begin, IInv, TypeOK
<1> HIDE DEF s
<1>4. RunInv(r)'
  BY <1>2, <1>3 DEF RunInv, Bound, Fresh, Undisturbed, Tampered, LateKnown, At,
                    Relies, ChildSteps
<1> QED
  BY <1>1, <1>4, LocalStep DEF Begin, s

LEMMA ResetKeeps == ASSUME IInv, NEW r \in Run, Reset(r) PROVE IInv'
<1>1. run'[r] = [run[r] EXCEPT !.pc = "initial"]
  BY DEF Reset, Touch
<1>2. RunInv(r)'
  BY <1>1, ContinueFields
     DEF IInv, Reset, RunInv, Bound, Fresh, Undisturbed, Tampered, LateKnown, At,
         Relies, TPMSteps, ChildSteps
<1>3. PICK value : value = <<>>
  OBVIOUS
<1> QED
  BY <1>2, <1>3, Touched DEF Reset, At, TPMSteps

LEMMA ReadInitialKeeps == ASSUME IInv, NEW r \in Run, ReadInitial(r) PROVE IInv'
<1>1. CASE Continue(r, "start")
  <2>1. run'[r] = [run[r] EXCEPT !.pc = "start"]
    BY <1>1 DEF Continue, IInv, TypeOK
  <2>2. RunInv(r)'
    BY <2>1, ContinueFields
       DEF IInv, ReadInitial, RunInv, Bound, Fresh, Undisturbed, Tampered, LateKnown,
           At, Relies, TPMSteps, ChildSteps
  <2> QED
    BY <1>1, <2>2, Continued DEF ReadInitial, TPMSteps
<1>2. CASE Abandon(r)
  BY <1>2, Abandoned DEF ReadInitial
<1> QED
  BY <1>1, <1>2 DEF ReadInitial

LEMMA ExtendStartKeeps == ASSUME IInv, NEW r \in Run, ExtendStart(r) PROVE IInv'
<1>1. run'[r] = [run[r] EXCEPT !.pc = "started"]
  BY DEF ExtendStart, Touch
<1>2. RunInv(r)'
  BY <1>1, ContinueFields
     DEF IInv, ExtendStart, RunInv, Bound, Fresh, Undisturbed, Tampered, LateKnown, At,
         Relies, TPMSteps, ChildSteps
<1>3. PICK x, value : x = Start(r) /\ value = Append(pcr, x)
  OBVIOUS
<1>4. x \in Extension
  BY <1>3, BindingsTyped DEF ExtendStart, IInv, RunInv, Extension, At
<1> QED
  BY <1>2, <1>3, <1>4, Touched DEF ExtendStart, At, TPMSteps

LEMMA ReadStartKeeps == ASSUME IInv, NEW r \in Run, ReadStart(r) PROVE IInv'
<1>1. ASSUME pcr = << Start(r) >>, NEW pc \in {"gate", "release"}, Continue(r, pc)
      PROVE  IInv'
  <2>1. run'[r] = [run[r] EXCEPT !.pc = pc]
    BY <1>1 DEF Continue, IInv, TypeOK
  <2>2. run[r].touched = {}
    BY DEF ReadStart, At, IInv, RunInv, Fresh
  <2>3. /\ run'[r].pc = pc
        /\ run'[r].challenge = run[r].challenge /\ run'[r].job = run[r].job
        /\ run'[r].out = run[r].out
        /\ run'[r].late = run[r].late /\ run'[r].touched = run[r].touched
        /\ Start(r)' = Start(r)
    BY <1>1, <2>1, ContinueFields DEF IInv, ChildSteps
  <2>4. RunInv(r)'
    BY <1>1, <2>2, <2>3
       DEF IInv, ReadStart, RunInv, Bound, Fresh, Undisturbed, Tampered, LateKnown, At
  <2> QED
    BY <1>1, <2>4, Continued DEF ReadStart, ChildSteps
<1>2. CASE Abandon(r)
  BY <1>2, Abandoned DEF ReadStart
<1> QED
  BY <1>1, <1>2 DEF ReadStart

(* The steps between the start check and the result extension.             *)
LEMMA RelyingKeeps ==
  ASSUME IInv, NEW r \in Run, Relies(r), NEW pc \in {"release", "work", "trace", "extend"},
         run[r].pc \in ChildSteps,
         pc \in {"trace", "extend"} => run[r].outcome \in Outcome,
         Continue(r, pc), UNCHANGED <<pcr, expired, package>>
  PROVE  IInv'
<1>1. run'[r] = [run[r] EXCEPT !.pc = pc]
  BY DEF Continue, IInv, TypeOK
<1>2. pc \in {"publish"} \cup TPMSteps \cup ChildSteps
  BY DEF TPMSteps, ChildSteps
<1>3. /\ run'[r].pc = pc
      /\ run'[r].challenge = run[r].challenge /\ run'[r].job = run[r].job
      /\ run'[r].out = run[r].out /\ run'[r].outcome = run[r].outcome
      /\ run'[r].quote = run[r].quote /\ run'[r].late = run[r].late
      /\ run'[r].touched = run[r].touched
      /\ Start(r)' = Start(r) /\ Result(r)' = Result(r)
  BY <1>1, <1>2, ContinueFields DEF IInv
<1>4. RunInv(r)
  BY DEF IInv
<1>5. Bound(r)' /\ Fresh(r)' /\ LateKnown(r)'
  BY <1>3, <1>4 DEF RunInv, Bound, Fresh, LateKnown, At, ChildSteps
<1>6. Undisturbed(r)'
  BY <1>3, <1>4 DEF RunInv, Undisturbed, At, ChildSteps
<1>7. Tampered(r)'
  BY <1>3, <1>4 DEF RunInv, Tampered, Spoiled, At, Relies, ChildSteps
<1> QED
  BY <1>2, <1>5, <1>6, <1>7, Continued DEF RunInv

LEMMA EndWorkloadKeeps ==
  ASSUME IInv, NEW r \in Run, NEW x \in Outcome, EndWorkload(r, x)
  PROVE  IInv'
<1> DEFINE s == [run[r] EXCEPT !.pc = "trace", !.outcome = x]
<1>1. run[r] \in RunState
  BY DEF IInv, TypeOK
<1>2. s \in RunState
  BY <1>1 DEF RunState, ChildSteps
<1>3. /\ s.pc = "trace" /\ s.outcome = x
      /\ s.challenge = run[r].challenge /\ s.job = run[r].job
      /\ s.out = run[r].out /\ s.late = run[r].late /\ s.touched = run[r].touched
  BY <1>1 DEF RunState
<1>4. run'[r] = s
  BY <1>1 DEF EndWorkload, IInv, TypeOK
<1>5. run' = [run EXCEPT ![r] = s]
  BY DEF EndWorkload
<1> HIDE DEF s
<1>6. Start(r)' = Start(r)
  BY <1>3, <1>4 DEF Start
<1>7. RunInv(r)
  BY DEF IInv
<1>8. Bound(r)' /\ Fresh(r)' /\ LateKnown(r)'
  BY <1>3, <1>4, <1>7 DEF EndWorkload, RunInv, Bound, Fresh, LateKnown, At
<1>9. Undisturbed(r)'
  BY <1>3, <1>4, <1>6, <1>7 DEF EndWorkload, RunInv, Undisturbed, At, ChildSteps
<1>10. Tampered(r)'
  BY <1>3, <1>4, <1>6, <1>7
     DEF EndWorkload, RunInv, Tampered, Spoiled, At, Relies, ChildSteps
<1> QED
  BY <1>2, <1>5, <1>8, <1>9, <1>10, LocalStep DEF EndWorkload, RunInv

LEMMA ExtendResultKeeps == ASSUME IInv, NEW r \in Run, ExtendResult(r) PROVE IInv'
<1>1. run'[r] = [run[r] EXCEPT !.pc = "result"] /\ pcr' = Append(pcr, Result(r))
  BY DEF ExtendResult, Touch
<1>2. /\ run'[r].pc = "result"
      /\ run'[r].challenge = run[r].challenge /\ run'[r].job = run[r].job
      /\ run'[r].out = run[r].out /\ run'[r].outcome = run[r].outcome
      /\ run'[r].late = run[r].late /\ run'[r].touched = run[r].touched
      /\ Start(r)' = Start(r) /\ Result(r)' = Result(r)
  BY <1>1, ContinueFields DEF IInv, TPMSteps
<1>3. RunInv(r) /\ At(r, "extend")
  BY DEF IInv, ExtendResult
<1>4. Start(r) \in StartBinding /\ Result(r) \in ResultBinding
  BY <1>3, BindingsTyped DEF RunInv, At
<1>5. pcr \in Seq(Extension) /\ Result(r) \in Extension
  BY <1>4 DEF IInv, TypeOK, Register, Extension
<1>6. Bound(r)' /\ Fresh(r)' /\ LateKnown(r)'
  BY <1>2, <1>3 DEF ExtendResult, RunInv, Bound, Fresh, LateKnown, At
<1>7. Undisturbed(r)'
  <2> SUFFICES ASSUME run[r].touched = {}
               PROVE  pcr' = << Start(r), Result(r) >>
    BY <1>2 DEF Undisturbed, At, ChildSteps
  <2>1. pcr = << Start(r) >>
    BY <1>3 DEF RunInv, Undisturbed, At
  <2>2. Start(r) \in Extension
    BY <1>4 DEF Extension
  <2> QED
    BY <1>1, <1>5, <2>1, <2>2, ShortSequences
<1>8. Tampered(r)'
  <2> SUFFICES ASSUME run[r].touched # {}, Start(r) \notin run[r].touched
               PROVE  Spoiled(r, Append(pcr, Result(r)))
    BY <1>1, <1>2 DEF Tampered, Spoiled, Relies, At, ChildSteps
  <2>1. Spoiled(r, pcr)
    BY <1>3 DEF RunInv, Tampered, Relies, At
  <2>2. PICK x : x = Result(r)
    OBVIOUS
  <2>3. x # Start(r)
    BY <1>4, <2>2, BindingsDiffer
  <2> QED
    BY <1>5, <2>1, <2>2, <2>3, SpoiledStays
<1>9. PICK x, value : x = Result(r) /\ value = Append(pcr, x)
  OBVIOUS
<1> QED
  BY <1>3, <1>4, <1>5, <1>6, <1>7, <1>8, <1>9, Touched
     DEF ExtendResult, At, TPMSteps, RunInv

LEMMA ReadResultKeeps == ASSUME IInv, NEW r \in Run, ReadResult(r) PROVE IInv'
<1>1. ASSUME pcr = << Start(r), Result(r) >>, Continue(r, "quote")
      PROVE  IInv'
  <2>1. run'[r] = [run[r] EXCEPT !.pc = "quote"]
    BY <1>1 DEF Continue, IInv, TypeOK
  <2>2. /\ run'[r].pc = "quote"
        /\ run'[r].challenge = run[r].challenge /\ run'[r].job = run[r].job
        /\ run'[r].out = run[r].out /\ run'[r].outcome = run[r].outcome
        /\ run'[r].late = run[r].late /\ run'[r].touched = run[r].touched
        /\ Start(r)' = Start(r) /\ Result(r)' = Result(r)
    BY <2>1, ContinueFields DEF IInv, TPMSteps
  <2>3. RunInv(r) /\ At(r, "result") /\ pcr' = pcr /\ expired' = expired
    BY DEF IInv, ReadResult
  <2>4. Bound(r)' /\ Fresh(r)' /\ LateKnown(r)' /\ Undisturbed(r)'
    BY <1>1, <2>2, <2>3 DEF RunInv, Bound, Fresh, LateKnown, Undisturbed, At, ChildSteps
  <2>5. Tampered(r)'
    BY <2>2, <2>3 DEF RunInv, Tampered, Spoiled, Relies, At
  <2> QED
    BY <1>1, <2>4, <2>5, Continued DEF ReadResult, TPMSteps, RunInv
<1>2. CASE Abandon(r)
  BY <1>2, Abandoned DEF ReadResult
<1> QED
  BY <1>1, <1>2 DEF ReadResult

LEMMA QuoteKeeps == ASSUME IInv, NEW r \in Run, Quote(r) PROVE IInv'
<1>0. PICK b \in BOOLEAN : b = (run[r].challenge \in expired)
  BY (run[r].challenge \in expired) \in BOOLEAN, Zenon
<1> DEFINE s == [run[r] EXCEPT !.pc = "publish", !.quote = pcr, !.late = b]
<1>1. run[r] \in RunState /\ pcr \in Register
  BY DEF IInv, TypeOK
<1>2. s \in RunState
  BY <1>1 DEF RunState
<1>3. /\ s.pc = "publish" /\ s.quote = pcr /\ s.outcome = run[r].outcome
      /\ s.late = b
      /\ s.challenge = run[r].challenge /\ s.job = run[r].job
      /\ s.out = run[r].out /\ s.touched = run[r].touched
  BY <1>1 DEF RunState
<1>4. run' = [run EXCEPT ![r] = s]
  BY <1>0 DEF Quote
<1>5. run'[r] = s
  BY <1>4 DEF IInv, TypeOK
<1> HIDE DEF s
<1>6. Start(r)' = Start(r) /\ Result(r)' = Result(r)
  BY <1>3, <1>5 DEF Start, Result
<1>7. RunInv(r) /\ At(r, "quote") /\ expired' = expired
  BY DEF IInv, Quote
<1>8. Bound(r)' /\ Fresh(r)'
  BY <1>3, <1>5, <1>7 DEF RunInv, Bound, Fresh, At
<1>9. LateKnown(r)'
  <2>1. run'[r].late = b
    BY <1>3, <1>5
  <2>2. run'[r].challenge = run[r].challenge
    BY <1>3, <1>5
  <2> QED
    BY <1>0, <1>7, <2>1, <2>2 DEF LateKnown
<1>10. Undisturbed(r)'
  BY <1>3, <1>5, <1>6, <1>7 DEF RunInv, Undisturbed, At, ChildSteps
<1>11. Tampered(r)'
  <2> SUFFICES ASSUME run[r].touched # {}, Start(r) \notin run[r].touched
               PROVE  Spoiled(r, run[r].quote)'
    BY <1>3, <1>5, <1>6 DEF Tampered, Relies, At, ChildSteps
  <2>1. Spoiled(r, pcr)
    BY <1>7 DEF RunInv, Tampered, Relies, At
  <2> QED
    BY <1>3, <1>5, <1>6, <2>1 DEF Spoiled
<1> QED
  BY <1>2, <1>4, <1>8, <1>9, <1>10, <1>11, LocalStep DEF Quote, RunInv

LEMMA PublishKeeps == ASSUME IInv, NEW r \in Run, Publish(r) PROVE IInv'
<1>1. RunInv(r) /\ At(r, "publish") /\ run[r] \in RunState
  BY DEF Publish, IInv, TypeOK
<1>2. run'[r] = Idle /\ \A q \in Run : q # r => run'[q] = run[q]
  BY DEF Publish, Abandon, IInv, TypeOK
<1>3. run' \in [Run -> RunState]
  BY IdleTyped DEF Publish, Abandon, IInv, TypeOK
<1>4. \A q \in Run : RunInv(q)'
  BY <1>2, RunIdle, RunFrame DEF Publish, IInv
<1>5. CASE package' = package
  <2>1. TypeOK'
    BY <1>3, <1>5 DEF Publish, IInv, TypeOK
  <2>2. (TamperingShows /\ UndisturbedAppraises /\ NoLateQuote)'
    BY <1>5 DEF IInv, TamperingShows, UndisturbedAppraises, NoLateQuote
  <2> QED
    BY <1>4, <2>1, <2>2 DEF IInv
<1> DEFINE o == run[r].out
           p == [challenge |-> run[r].challenge, job |-> run[r].job,
                 outcome |-> run[r].outcome, quote |-> run[r].quote,
                 late |-> run[r].late, touched |-> run[r].touched]
<1>6. CASE run[r].challenge \notin expired /\ package' = [package EXCEPT ![o] = p]
  <2>1. o \in Out
    BY <1>1 DEF RunInv, Bound, At
  <2>2. p \in Package
    BY <1>1 DEF RunInv, Bound, At, RunState, Package
  <2>3. TypeOK'
    BY <1>3, <1>6, <2>2 DEF Publish, IInv, TypeOK
  <2>4. package'[o] = p /\ \A x \in Out : x # o => package'[x] = package[x]
    BY <1>6, <2>1 DEF IInv, TypeOK
  <2>5. /\ p.challenge = run[r].challenge /\ p.job = run[r].job
        /\ p.outcome = run[r].outcome /\ p.quote = run[r].quote
        /\ p.late = run[r].late /\ p.touched = run[r].touched
    OBVIOUS
  <2> HIDE DEF p, o
  <2>6. p.quote # <<>> /\ Appraises(p) => ~Spoiled(r, p.quote)
    <3> SUFFICES ASSUME Appraises(p)
                 PROVE  ~Spoiled(r, << Start(r), Result(r) >>)
      BY <2>5 DEF Appraises, Start, Result
    <3>1. run[r].outcome \in Outcome
      BY <1>1 DEF RunInv, Bound, At
    <3> QED
      BY <3>1 DEF Spoiled, Result
  <2>7. Appraises(p) => p.touched = {} \/ Start(r) \in p.touched
    <3>1. Appraises(p) => p.quote # <<>>
      BY DEF Appraises
    <3> QED
      BY <1>1, <2>5, <2>6, <3>1 DEF RunInv, Tampered
  <2>8. TamperingShows'
    BY <2>4, <2>5, <2>7 DEF IInv, TamperingShows, Start
  <2>9. UndisturbedAppraises'
    <3>1. p.touched = {} => Appraises(p)
      BY <1>1, <2>5 DEF RunInv, Undisturbed, Appraises, Start, Result
    <3> QED
      BY <2>4, <3>1 DEF IInv, UndisturbedAppraises
  <2>10. NoLateQuote'
    <3>1. ~p.late
      BY <1>1, <1>6, <2>5 DEF RunInv, LateKnown
    <3> QED
      BY <2>4, <3>1 DEF IInv, NoLateQuote
  <2> QED
    BY <1>4, <2>3, <2>8, <2>9, <2>10 DEF IInv
<1> QED
  BY <1>5, <1>6 DEF Publish

LEMMA ExpireKeeps == ASSUME IInv, NEW c \in Challenge, Expire(c) PROVE IInv'
<1>1. TypeOK'
  BY DEF Expire, IInv, TypeOK
<1>2. \A r \in Run : RunInv(r)'
  BY RunFrame DEF Expire, IInv
<1>3. (TamperingShows /\ UndisturbedAppraises /\ NoLateQuote)'
  BY DEF Expire, IInv, TamperingShows, UndisturbedAppraises, NoLateQuote
<1> QED
  BY <1>1, <1>2, <1>3 DEF IInv

LEMMA StutterKeeps == ASSUME IInv, UNCHANGED vars PROVE IInv'
<1>1. TypeOK'
  BY DEF vars, IInv, TypeOK
<1>2. \A r \in Run : RunInv(r)'
  BY RunFrame DEF vars, IInv
<1>3. (TamperingShows /\ UndisturbedAppraises /\ NoLateQuote)'
  BY DEF vars, IInv, TamperingShows, UndisturbedAppraises, NoLateQuote
<1> QED
  BY <1>1, <1>2, <1>3 DEF IInv

(* Every step preserves the invariant.                                     *)
LEMMA Inductive == IInv /\ [Next]_vars => IInv'
<1> SUFFICES ASSUME IInv, [Next]_vars
             PROVE  IInv'
  OBVIOUS
<1>1. ASSUME NEW r \in Run, NEW c \in Challenge, NEW j \in Job, NEW o \in Out,
             Begin(r, c, j, o)
      PROVE  IInv'
  BY <1>1, BeginKeeps
<1>2. ASSUME NEW r \in Run, ChildEnds(r)
      PROVE  IInv'
  <2>1. CASE PassGate(r)
    BY <2>1, RelyingKeeps DEF PassGate, At, Relies, ChildSteps
  <2>2. CASE ReleaseInput(r)
    <3>1. CASE Abandon(r)
      BY <2>2, <3>1, Abandoned DEF ReleaseInput
    <3>2. CASE Continue(r, "work")
      BY <2>2, <3>2, RelyingKeeps DEF ReleaseInput, At, Relies, ChildSteps
    <3> QED
      BY <2>2, <3>1, <3>2 DEF ReleaseInput
  <2>3. ASSUME NEW x \in Outcome, EndWorkload(r, x)
        PROVE  IInv'
    BY <2>3, EndWorkloadKeeps
  <2>4. CASE CheckTrace(r)
    BY <2>4, RelyingKeeps DEF CheckTrace, At, Relies, ChildSteps, IInv, RunInv, Bound
  <2> QED
    BY <1>2, <2>1, <2>2, <2>3, <2>4 DEF ChildEnds
<1>3. ASSUME NEW r \in Run, Progress(r)
      PROVE  IInv'
  BY <1>3, ResetKeeps, ReadInitialKeeps, ExtendStartKeeps, ReadStartKeeps,
     ExtendResultKeeps, ReadResultKeeps, QuoteKeeps, PublishKeeps DEF Progress
<1>4. ASSUME NEW r \in Run, Fail(r)
      PROVE  IInv'
  BY <1>4, Abandoned DEF Fail
<1>5. ASSUME NEW c \in Challenge, Expire(c)
      PROVE  IInv'
  BY <1>5, ExpireKeeps
<1>6. CASE UNCHANGED vars
  BY <1>6, StutterKeeps
<1> QED
  BY <1>1, <1>2, <1>3, <1>4, <1>5, <1>6 DEF Next

LEMMA Invariant == Spec => []IInv
BY InitInvariant, Inductive, PTL DEF Spec

(* A challenge, a job, a register and a run are what their types say.      *)
THEOREM TypeCorrect == Spec => []TypeOK
<1>1. IInv => TypeOK
  BY DEF IInv
<1> QED
  BY <1>1, Invariant, PTL

(* If anybody used PCR23 between the start check of a run and its quote    *)
(* and its package still appraises, a run of the same challenge and job    *)
(* started over meanwhile.                                                 *)
THEOREM TamperingIsSeen == Spec => []TamperingShows
<1>1. IInv => TamperingShows
  BY DEF IInv
<1> QED
  BY <1>1, Invariant, PTL

(* A run that had PCR23 to itself publishes a package that appraises.      *)
THEOREM LoneRunsAppraise == Spec => []UndisturbedAppraises
<1>1. IInv => UndisturbedAppraises
  BY DEF IInv
<1> QED
  BY <1>1, Invariant, PTL

(* No package holds a quote that was taken after the window.               *)
THEOREM QuotesInTime == Spec => []NoLateQuote
<1>1. IInv => NoLateQuote
  BY DEF IInv
<1> QED
  BY <1>1, Invariant, PTL

(* A package is never replaced: the rename fails on one that is there.     *)
THEOREM PackagesAreFinal == Spec => PackagesFinal
<1>1. TypeOK /\ [Next]_vars =>
        [\A o \in Out : package[o] # None => package'[o] = package[o]]_vars
  <2> SUFFICES ASSUME TypeOK, Next, NEW o \in Out, package[o] # None
               PROVE  package'[o] = package[o]
    BY DEF vars
  <2>1. ASSUME NEW r \in Run, Publish(r)
        PROVE  package'[o] = package[o]
    BY <2>1 DEF Publish, TypeOK
  <2> QED
    BY <2>1 DEF Next, ChildEnds, Progress, Begin, Reset, ReadInitial, ExtendStart,
       ReadStart, PassGate, ReleaseInput, EndWorkload, CheckTrace, ExtendResult,
       ReadResult, Quote, Fail, Expire
<1> QED
  BY <1>1, TypeCorrect, PTL DEF Spec, PackagesFinal
=============================================================================
